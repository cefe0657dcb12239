------------------------------ MODULE Catalog -------------------------------
(***************************************************************************)
(* The tattoo catalog: how the source files become a catalog               *)
(* (TattooSourceScanner, TattooSourceParser, TattooCatalogLoader) and how  *)
(* the catalog answers filters (TattooRepository).                         *)
(*                                                                         *)
(* Texts are values with a folded form and a rank that stands for their    *)
(* order as strings.  The name of a tattoo stands for its name and texture *)
(* path, which follow each other in the order of the catalog and are       *)
(* searched alike; the pack of a source for the stem and the name of its   *)
(* file.  A source's identity is in lower case already.                    *)
(***************************************************************************)
EXTENDS Integers, FiniteSets, Sequences

CONSTANTS
  Text,        \* names, sections, areas and searches; "" is one of them
  Fold,        \* [Text -> Text]: foldASCII
  Rank,        \* [Text -> Nat]: the order of texts
  Hits,        \* [Text -> SUBSET Text]: the folded texts that contain it
  Source,      \* identities of source files
  SourceRank,  \* [Source -> Nat]: their order
  Pack,        \* [Source -> Text]: the pack of a file
  PageSize,    \* kPageSize
  Unreadable,  \* a file that cannot be opened or holds no JSON array
  Malformed,   \* an entry without the fields it needs, or with bad ones
  None

ASSUME TextAssumption ==
  /\ "" \in Text /\ Fold \in [Text -> Text] /\ Fold[""] = ""
  /\ \A t \in Text : Fold[t] = "" => t = ""
ASSUME RankAssumption ==
  /\ Rank \in [Text -> Nat] /\ SourceRank \in [Source -> Nat]
  /\ \A s, t \in Source : SourceRank[s] = SourceRank[t] => s = t
ASSUME SourceAssumption == Pack \in [Source -> Text] /\ "" \notin Source
ASSUME PageSizeAssumption == PageSize \in Nat \ {0}
ASSUME NoneAssumption == None \notin Int

-----------------------------------------------------------------------------
(* Loading.  A directory is a function from the sources it holds to their  *)
(* files; a file is unreadable or a sequence of entries.                   *)

Fields == [name: Text, section: Text, area: Text]
Definition == [source: Source, index: Nat, fields: Fields]
Issue == [source: Source, index: Nat \cup {None}]

Readable(dir) == {s \in DOMAIN dir : dir[s] # Unreadable}
Places(dir) ==
  UNION {{[source |-> s, index |-> i] : i \in 0 .. Len(dir[s]) - 1}
           : s \in Readable(dir)}
EntryAt(dir, place) == dir[place.source][place.index + 1]

\* parseTattooSource of every file: a malformed entry is skipped, and the
\* others keep the index they have in the file.
Parse(dir) ==
  {[source |-> p.source, index |-> p.index, fields |-> EntryAt(dir, p)] :
     p \in {q \in Places(dir) : EntryAt(dir, q) # Malformed}}

ParseIssues(dir) ==
  {[source |-> s, index |-> None] : s \in DOMAIN dir \ Readable(dir)}
    \cup {p \in Places(dir) : EntryAt(dir, p) = Malformed}

\* loadTattooCatalog
LoadCatalog(dir) == [entries |-> Parse(dir), issues |-> ParseIssues(dir)]

-----------------------------------------------------------------------------
(* TattooRepository.                                                       *)

SortKey(d) == <<Rank[Fold[Pack[d.source]]], Rank[Fold[d.fields.section]],
                Rank[Fold[d.fields.area]], Rank[Fold[d.fields.name]],
                SourceRank[d.source], d.index>>

\* The order of the catalog: the first difference of the keys decides.
Before(d, e) ==
  LET k == SortKey(d)  l == SortKey(e)
  IN  \E i \in 1 .. 6 : k[i] < l[i] /\ \A j \in 1 .. i - 1 : k[j] = l[j]

\* The member of a set of definitions that has n members before it.
Nth(S, n) == CHOOSE e \in S : Cardinality({d \in S : Before(d, e)}) = n

Filter == [search: Text, source: Source \cup {""}, section: Text, area: Text,
           index: Nat]

Found(search, d) ==
  \E t \in {d.fields.name, d.fields.section, d.fields.area, Pack[d.source]} :
     Fold[t] \in Hits[Fold[search]]

Same(wanted, t) == wanted = "" \/ Fold[t] = Fold[wanted]

\* Mutant: the section is compared as it is spelled.
MatchSpelling(f, d) ==
  /\ f.search = "" \/ Found(f.search, d)
  /\ f.source \in {"", d.source}
  /\ f.section \in {"", d.fields.section}
  /\ Same(f.area, d.fields.area)

Matches(f, d) ==
  /\ f.search = "" \/ Found(f.search, d)
  /\ f.source \in {"", d.source}
  /\ Same(f.section, d.fields.section)
  /\ Same(f.area, d.fields.area)

Matching(entries, f) == {d \in entries : Matches(f, d)}

PageCount(n) == n \div PageSize + (IF n % PageSize # 0 THEN 1 ELSE 0)

ClampIndex(index, count) ==
  IF count = 0 THEN 0 ELSE IF index < count THEN index ELSE count - 1

PageOf(found, total, index) ==
  LET start == index * PageSize
      rest == Cardinality(found) - start
  IN  [entries |-> [i \in 1 .. (IF rest < PageSize THEN rest ELSE PageSize) |->
                      Nth(found, start + i - 1)],
       total |-> total, matched |-> Cardinality(found),
       index |-> index, count |-> PageCount(Cardinality(found))]

\* Mutant: the last page is dropped when it is full.
QueryShort(entries, f) ==
  LET found == Matching(entries, f)
      count == (Cardinality(found) + PageSize - 2) \div PageSize
  IN  [PageOf(found, Cardinality(entries), ClampIndex(f.index, count))
         EXCEPT !.count = count]

Query(entries, f) ==
  LET found == Matching(entries, f)
  IN  PageOf(found, Cardinality(entries),
             ClampIndex(f.index, PageCount(Cardinality(found))))

\* contextualFacets: the sources of the area, and the sections of the area
\* and the source.  Of the spellings of a section the first is offered.
FacetSources(entries, f) ==
  {d.source : d \in {e \in entries : Same(f.area, e.fields.area)}}

SectionTexts(entries, f) ==
  {d.fields.section : d \in {e \in entries : /\ Same(f.area, e.fields.area)
                                             /\ f.source \in {"", e.source}}}

FacetSections(entries, f) ==
  LET texts == SectionTexts(entries, f) IN
  {t \in texts : \A u \in texts : Fold[u] = Fold[t] => Rank[t] <= Rank[u]}
=============================================================================
