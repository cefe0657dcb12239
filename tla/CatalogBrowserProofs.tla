------------------------ MODULE CatalogBrowserProofs ------------------------
(***************************************************************************)
(* The browser of the catalog, for any catalogs, texts and page sizes.     *)
(***************************************************************************)
EXTENDS CatalogBrowser, SubsequencesProofs

IsFilter(f) ==
  f = [search |-> f.search, source |-> f.source, section |-> f.section,
       area |-> f.area, index |-> f.index]

IsBrowser(b) == b = [snapshot |-> b.snapshot, filter |-> b.filter, page |-> b.page]

\* No two entries of a catalog are alike in source and index.
WellFormed(entries) ==
  /\ IsFiniteSet(entries) /\ entries \subseteq Definition
  /\ \A d, e \in entries : d.source = e.source /\ d.index = e.index => d = e

\* The members of a browser, as far as its functions rely on them.
Fitting(b) ==
  /\ IsBrowser(b) /\ IsFilter(b.filter) /\ b.filter.index \in Nat
  /\ b.snapshot # None => WellFormed(b.snapshot.entries)

Fresh(b) ==
  /\ b.page = IF b.snapshot = None THEN NoPage ELSE Query(b.snapshot.entries, b.filter)
  /\ b.filter.index = b.page.index

\* A filter that is set is one that is offered.
Offered(b) ==
  b.snapshot # None =>
    /\ b.filter.source = "" \/ SourceOffered(b, b.filter)
    /\ b.filter.section = "" \/ SectionOffered(b, b.filter)

IInv ==
  /\ store # None => WellFormed(store.entries)
  /\ Fitting(browser) /\ Fresh(browser) /\ Offered(browser)
  /\ box.pending \in Int /\ (text = None \/ text \in Int)

-----------------------------------------------------------------------------
(* The order of the catalog.                                               *)

Key == 1 .. 6
Less(k, l) == \E i \in Key : k[i] < l[i] /\ \A j \in 1 .. i - 1 : k[j] = l[j]

\* Keys are compared as std::tuple compares them.
LEMMA LessOrders ==
  ASSUME NEW k \in [Key -> Int], NEW l \in [Key -> Int], NEW m \in [Key -> Int]
  PROVE  /\ ~Less(k, k)
         /\ Less(k, l) /\ Less(l, m) => Less(k, m)
         /\ (\A i \in Key : k[i] = l[i]) \/ Less(k, l) \/ Less(l, k)
<1>1. ~Less(k, k)
  BY DEF Less, Key
<1>2. ASSUME Less(k, l), Less(l, m)
      PROVE  Less(k, m)
  <2>1. PICK i \in Key : k[i] < l[i] /\ \A j \in 1 .. i - 1 : k[j] = l[j]
    BY <1>2 DEF Less
  <2>2. PICK h \in Key : l[h] < m[h] /\ \A j \in 1 .. h - 1 : l[j] = m[j]
    BY <1>2 DEF Less
  <2>3. CASE i <= h
    <3>1. k[i] < m[i] /\ \A j \in 1 .. i - 1 : k[j] = m[j]
      BY <2>1, <2>2, <2>3 DEF Key
    <3> QED
      BY <3>1 DEF Less
  <2>4. CASE h < i
    <3>1. k[h] < m[h] /\ \A j \in 1 .. h - 1 : k[j] = m[j]
      BY <2>1, <2>2, <2>4 DEF Key
    <3> QED
      BY <3>1 DEF Less
  <2> QED
    BY <2>3, <2>4 DEF Key
<1>3. ASSUME NEW i \in Key, k[i] # l[i], \A j \in 1 .. i - 1 : k[j] = l[j]
      PROVE  Less(k, l) \/ Less(l, k)
  <2>1. k[i] < l[i] \/ l[i] < k[i]
    BY <1>3
  <2> QED
    BY <1>3, <2>1 DEF Less
<1>4. ASSUME NEW i \in Key, k[i] # l[i]
      PROVE  \E h \in Key : k[h] # l[h] /\ \A j \in 1 .. h - 1 : k[j] = l[j]
  BY <1>4 DEF Key
<1> QED
  BY <1>1, <1>2, <1>3, <1>4

\* What a load publishes is a catalog (loadTattooCatalog).
LEMMA ParseWellFormed ==
  ASSUME NEW dir \in Disk
  PROVE  WellFormed(Parse(dir))
<1>1. /\ DOMAIN dir \subseteq Source /\ IsFiniteSet(Parse(dir))
      /\ \A s \in Readable(dir) : dir[s] \in Seq(Fields \cup {Malformed})
  BY DiskAssumption
<1>2. ASSUME NEW p \in Places(dir)
      PROVE  /\ p.source \in Source /\ p.index \in Nat
             /\ EntryAt(dir, p) \in Fields \cup {Malformed}
  <2>1. PICK s \in Readable(dir) :
          \E i \in 0 .. Len(dir[s]) - 1 : p = [source |-> s, index |-> i]
    BY DEF Places
  <2>2. PICK i \in 0 .. Len(dir[s]) - 1 : p = [source |-> s, index |-> i]
    BY <2>1
  <2>3. dir[s] \in Seq(Fields \cup {Malformed}) /\ s \in Source
    BY <1>1 DEF Readable
  <2>4. i \in Nat /\ i + 1 \in 1 .. Len(dir[s])
    BY <2>3
  <2>5. dir[s][i + 1] \in Fields \cup {Malformed}
    BY <2>3, <2>4
  <2> QED
    BY <2>2, <2>3, <2>4, <2>5 DEF EntryAt
<1>3. ASSUME NEW d \in Parse(dir)
      PROVE  /\ d \in Definition
             /\ d.fields = EntryAt(dir, [source |-> d.source, index |-> d.index])
  <2>1. PICK p \in Places(dir) :
          /\ EntryAt(dir, p) # Malformed
          /\ d = [source |-> p.source, index |-> p.index, fields |-> EntryAt(dir, p)]
    BY DEF Parse
  <2> QED
    BY <1>2, <2>1 DEF Definition, EntryAt
<1>4. ASSUME NEW d \in Parse(dir), NEW e \in Parse(dir),
             d.source = e.source, d.index = e.index
      PROVE  d = e
  <2>1. d.fields = e.fields
    BY <1>3, <1>4
  <2>2. /\ d = [source |-> d.source, index |-> d.index, fields |-> d.fields]
        /\ e = [source |-> e.source, index |-> e.index, fields |-> e.fields]
    BY <1>3 DEF Definition
  <2> QED
    BY <1>4, <2>1, <2>2
<1> QED
  BY <1>1, <1>3, <1>4 DEF WellFormed

SortsBefore(S) == {p \in S \X S : Before(p[1], p[2])}

\* The catalog is ordered, whatever is found in it.
LEMMA CatalogOrdered ==
  ASSUME NEW entries, WellFormed(entries), NEW S \in SUBSET entries
  PROVE  /\ IsFiniteSet(S) /\ Orders(SortsBefore(S), S)
         /\ \A e \in S : Below(SortsBefore(S), S, e) = {d \in S : Before(d, e)}
<1>1. ASSUME NEW d \in S
      PROVE  /\ d.source \in Source /\ d.index \in Nat
             /\ SortKey(d) \in [Key -> Int]
             /\ SortKey(d)[5] = SourceRank[d.source] /\ SortKey(d)[6] = d.index
  <2>1. /\ d.source \in Source /\ d.index \in Nat
        /\ d.fields.name \in Text /\ d.fields.section \in Text /\ d.fields.area \in Text
    BY DEF WellFormed, Definition, Fields
  <2>2. Pack[d.source] \in Text
    BY <2>1, SourceAssumption
  <2>3. SourceRank[d.source] \in Int
    BY <2>1, RankAssumption
  <2>4. \A t \in Text : Rank[Fold[t]] \in Int
    <3>1. Fold \in [Text -> Text] /\ Rank \in [Text -> Nat]
      BY RankAssumption, TextAssumption
    <3>2. \A t \in Text : Fold[t] \in Text
      BY <3>1
    <3> QED
      BY <3>1, <3>2
  <2> QED
    BY <2>1, <2>2, <2>3, <2>4 DEF SortKey, Key
<1>2. \A d, e \in S : Before(d, e) <=> Less(SortKey(d), SortKey(e))
  BY DEF Before, Less, Key
<1>3. ASSUME NEW d \in S, NEW e \in S, \A i \in Key : SortKey(d)[i] = SortKey(e)[i]
      PROVE  d = e
  <2>1. SourceRank[d.source] = SourceRank[e.source] /\ d.index = e.index
    BY <1>1, <1>3 DEF Key
  <2> QED
    BY <1>1, <2>1, RankAssumption DEF WellFormed
<1>4. \A d \in S : ~Before(d, d)
  BY <1>1, <1>2, LessOrders
<1>5. \A d, e, f \in S : Before(d, e) /\ Before(e, f) => Before(d, f)
  BY <1>1, <1>2, LessOrders
<1>6. \A d, e \in S : d = e \/ Before(d, e) \/ Before(e, d)
  BY <1>1, <1>2, <1>3, LessOrders
<1>7. Orders(SortsBefore(S), S)
  BY <1>4, <1>5, <1>6 DEF Orders, SortsBefore
<1>8. \A e \in S : Below(SortsBefore(S), S, e) = {d \in S : Before(d, e)}
  BY DEF Below, SortsBefore
<1> QED
  BY <1>7, <1>8, FS_Subset DEF WellFormed

Position(S, e) == Cardinality({d \in S : Before(d, e)})

\* Every place in the results has its entry, and every entry its place.
LEMMA NthCounts ==
  ASSUME NEW entries, WellFormed(entries), NEW S \in SUBSET entries
  PROVE  /\ \A n \in 0 .. Cardinality(S) - 1 : Nth(S, n) \in S /\ Position(S, Nth(S, n)) = n
         /\ \A e \in S : /\ Position(S, e) \in 0 .. Cardinality(S) - 1
                         /\ Nth(S, Position(S, e)) = e
<1> DEFINE R == SortsBefore(S)
<1>1. /\ IsFiniteSet(S) /\ Orders(R, S)
      /\ \A e \in S : Cardinality(Below(R, S, e)) = Position(S, e)
  BY CatalogOrdered DEF Position
<1> HIDE DEF R
<1>2. /\ \A e \in S : Position(S, e) \in 0 .. Cardinality(S) - 1
      /\ \A d, e \in S : Position(S, d) = Position(S, e) => d = e
      /\ \A n \in 0 .. Cardinality(S) - 1 : \E e \in S : Position(S, e) = n
  BY <1>1, OrderStatistic
<1>3. ASSUME NEW n \in 0 .. Cardinality(S) - 1
      PROVE  Nth(S, n) \in S /\ Position(S, Nth(S, n)) = n
  <2>1. PICK e \in S : Position(S, e) = n
    BY <1>2
  <2>2. Nth(S, n) = CHOOSE d \in S : Position(S, d) = n
    BY DEF Nth, Position
  <2> QED
    BY <2>1, <2>2
<1> QED
  BY <1>2, <1>3

-----------------------------------------------------------------------------
(* Pages of a size.                                                        *)

\* A quotient and a remainder.
LEMMA Division ==
  ASSUME NEW size \in Nat \ {0}, NEW p \in Nat
  PROVE  /\ p \div size \in Nat /\ p % size \in 0 .. size - 1
         /\ p = (p \div size) * size + (p % size)
OBVIOUS

\* Of two pages the later one starts after the end of the earlier.
LEMMA PagesApart ==
  ASSUME NEW size \in Nat \ {0}, NEW a \in Nat, NEW b \in Nat, a < b
  PROVE  a * size \in Nat /\ b * size \in Nat /\ a * size + size <= b * size
<1>1. b - a - 1 \in Nat /\ b = a + 1 + (b - a - 1)
  OBVIOUS
<1>2. PICK c \in Nat : b = a + 1 + c
  BY <1>1
<1>3. b * size = a * size + size + c * size
  BY <1>2
<1>4. a * size \in Nat /\ c * size \in Nat
  OBVIOUS
<1> QED
  BY <1>3, <1>4

\* A place in the results is on one page, and once there.
LEMMA OnePlace ==
  ASSUME NEW size \in Nat \ {0}, NEW a \in Nat, NEW b \in Nat,
         NEW r \in 0 .. size - 1, NEW s \in 0 .. size - 1,
         a * size + r = b * size + s
  PROVE  a = b /\ r = s
<1>1. a * size \in Nat /\ b * size \in Nat
  OBVIOUS
<1>2. ~(a < b) /\ ~(b < a)
  BY <1>1, PagesApart
<1>3. a = b
  BY <1>2
<1> QED
  BY <1>1, <1>3

\* Every place in the results is on a page there is.
LEMMA PageThere ==
  ASSUME NEW n \in Nat, NEW p \in 0 .. n - 1
  PROVE  p \div PageSize < PageCount(n)
<1> DEFINE a == p \div PageSize  r == p % PageSize
           b == n \div PageSize  s == n % PageSize
<1>1. /\ a \in Nat /\ b \in Nat /\ r \in 0 .. PageSize - 1 /\ s \in 0 .. PageSize - 1
      /\ p = a * PageSize + r /\ n = b * PageSize + s
  BY Division, PageSizeAssumption
<1> HIDE DEF a, b, r, s
<1>2. ~(b < a)
  BY <1>1, PagesApart, PageSizeAssumption
<1>3. a = b => a * PageSize = b * PageSize /\ a * PageSize \in Int
  BY <1>1, PageSizeAssumption
<1>4. a < b \/ (a = b /\ s # 0)
  BY <1>1, <1>2, <1>3
<1>5. a < b + (IF s # 0 THEN 1 ELSE 0)
  BY <1>1, <1>4
<1> QED
  BY <1>5 DEF a, b, s, PageCount

-----------------------------------------------------------------------------
(* What the repository answers.                                            *)

\* The index of a page that exists is clamped to itself.
LEMMA ClampFits ==
  ASSUME NEW i \in Nat, NEW c \in Nat
  PROVE  /\ ClampIndex(i, c) \in Nat
         /\ ClampIndex(i, c) < c \/ (c = 0 /\ ClampIndex(i, c) = 0)
         /\ ClampIndex(ClampIndex(i, c), c) = ClampIndex(i, c)
         /\ ClampIndex(0, c) = 0
         /\ i < c => ClampIndex(i, c) = i
BY DEF ClampIndex

\* The number of pages.
LEMMA CountFits ==
  ASSUME NEW n \in Nat
  PROVE  PageCount(n) \in Nat
<1>1. n \div PageSize \in Nat
  BY PageSizeAssumption
<1> QED
  BY <1>1 DEF PageCount

\* A page of a query.
LEMMA QueryFits ==
  ASSUME NEW entries, WellFormed(entries), NEW f, f.index \in Nat
  PROVE  LET count == PageCount(Cardinality(Matching(entries, f)))
             page == Query(entries, f)
         IN  /\ count \in Nat /\ page.count = count
             /\ page.index = ClampIndex(f.index, count)
             /\ page.matched = Cardinality(Matching(entries, f))
             /\ page.matched \in Nat
             /\ page.matched > 0 \/ Matching(entries, f) = {}
<1>1. IsFiniteSet(Matching(entries, f))
  BY FS_Subset DEF Matching, WellFormed
<1>2. Cardinality(Matching(entries, f)) \in Nat
  BY <1>1, FS_CardinalityType
<1>3. Cardinality(Matching(entries, f)) > 0 \/ Matching(entries, f) = {}
  BY <1>1, <1>2, FS_EmptySet
<1> QED
  BY <1>2, <1>3, CountFits DEF Query, PageOf

\* The cards of a page are the matches at its places.
LEMMA PageEntries ==
  ASSUME NEW entries, WellFormed(entries), NEW f, f.index \in Nat
  PROVE  LET found == Matching(entries, f)
             page == Query(entries, f)
             start == page.index * PageSize
         IN  /\ start \in Nat /\ Cardinality(found) \in Nat
             /\ \A i : i \in DOMAIN page.entries
                         <=> i \in 1 .. PageSize /\ start + i <= Cardinality(found)
             /\ \A i \in DOMAIN page.entries : page.entries[i] = Nth(found, start + i - 1)
<1> DEFINE found == Matching(entries, f)
           page == Query(entries, f)
           start == page.index * PageSize
           rest == Cardinality(found) - start
<1>1. Cardinality(found) \in Nat
  <2>1. IsFiniteSet(found)
    BY FS_Subset DEF Matching, WellFormed
  <2> QED
    BY <2>1, FS_CardinalityType
<1>2. page.index \in Nat
  BY QueryFits, ClampFits
<1>3. page.entries = [i \in 1 .. (IF rest < PageSize THEN rest ELSE PageSize) |->
                        Nth(found, start + i - 1)]
  BY DEF Query, PageOf
<1> HIDE DEF found, page
<1>4. start \in Nat /\ PageSize \in Nat \ {0}
  BY <1>2, PageSizeAssumption
<1> HIDE DEF start
<1>5. \A i : i \in 1 .. (IF rest < PageSize THEN rest ELSE PageSize)
               <=> i \in 1 .. PageSize /\ start + i <= Cardinality(found)
  BY <1>1, <1>4
<1> QED
  BY <1>1, <1>3, <1>4, <1>5 DEF found, page, start

\* Which tattoos match does not depend on the page.
LEMMA IndexIgnored ==
  ASSUME NEW entries, NEW f, NEW g,
         f.search = g.search, f.source = g.source, f.section = g.section,
         f.area = g.area
  PROVE  Matching(entries, f) = Matching(entries, g)
BY DEF Matching, Matches, Found

-----------------------------------------------------------------------------
(* The functions of the browser.                                           *)

\* Every query leaves a page that is fresh.
LEMMA RequeryFresh ==
  ASSUME NEW b, Fitting(b)
  PROVE  /\ Fitting(Requery(b)) /\ Requery(b).snapshot = b.snapshot
         /\ b.snapshot # None => Fresh(Requery(b))
         /\ b.snapshot = None => Requery(b).page = NoPage /\ Requery(b).filter = b.filter
         /\ Requery(b).filter = [b.filter EXCEPT !.index = Requery(b).filter.index]
<1>1. CASE b.snapshot = None
  <2>1. Requery(b) = [b EXCEPT !.page = NoPage]
    BY <1>1 DEF Requery
  <2>2. /\ Requery(b).snapshot = b.snapshot /\ Requery(b).filter = b.filter
        /\ Requery(b).page = NoPage /\ IsBrowser(Requery(b))
    BY <2>1 DEF Fitting, IsBrowser
  <2>3. b.filter = [b.filter EXCEPT !.index = b.filter.index]
    BY DEF Fitting, IsFilter
  <2> QED
    BY <1>1, <2>2, <2>3 DEF Fitting
<1>2. CASE b.snapshot # None
  <2> DEFINE entries == b.snapshot.entries
             page == Query(entries, b.filter)
             f == [b.filter EXCEPT !.index = page.index]
             count == PageCount(Cardinality(Matching(entries, b.filter)))
  <2>1. /\ Requery(b) = [b EXCEPT !.page = page, !.filter.index = page.index]
        /\ f = [b.filter EXCEPT !.index = page.index]
    BY <1>2 DEF Requery
  <2>2. count \in Nat /\ page.index = ClampIndex(b.filter.index, count)
    BY <1>2, QueryFits DEF Fitting
  <2>3. page.index \in Nat
    BY <2>2, ClampFits DEF Fitting
  <2> HIDE DEF f
  <2>11. /\ f.search = b.filter.search /\ f.source = b.filter.source
         /\ f.section = b.filter.section /\ f.area = b.filter.area
         /\ f.index = page.index /\ IsFilter(f)
    BY <2>1 DEF Fitting, IsFilter
  <2>4. Matching(entries, f) = Matching(entries, b.filter)
    BY <2>11, IndexIgnored
  <2>5. ClampIndex(f.index, count) = ClampIndex(b.filter.index, count)
    BY <2>2, <2>11, ClampFits DEF Fitting
  <2>6. Query(entries, f) = page
    BY <2>4, <2>5 DEF Query
  <2> HIDE DEF page
  <2>7. /\ Requery(b).snapshot = b.snapshot /\ Requery(b).filter = f
        /\ Requery(b).page = page /\ IsBrowser(Requery(b))
    BY <2>1 DEF Fitting, IsBrowser
  <2>8. Fresh(Requery(b))
    BY <1>2, <2>6, <2>7, <2>11 DEF Fresh
  <2>9. Fitting(Requery(b))
    BY <2>3, <2>7, <2>11 DEF Fitting
  <2> QED
    BY <1>2, <2>1, <2>7, <2>8, <2>9, <2>11
<1> QED
  BY <1>1, <1>2

Good(b) == Fitting(b) /\ Fresh(b) /\ Offered(b)

\* The facets look at the area and the source only.
LEMMA FacetsLook ==
  ASSUME NEW b, NEW c, b.snapshot = c.snapshot, NEW f, NEW g, f.area = g.area
  PROVE  /\ f.source = g.source => (SourceOffered(b, f) <=> SourceOffered(c, g))
         /\ f.source = g.source /\ f.section = g.section
              => (SectionOffered(b, f) <=> SectionOffered(c, g))
BY DEF SourceOffered, SectionOffered, FacetSources, FacetSections, SectionTexts

\* What is not offered is reset, the section last.
LEMMA ReconcileOffers ==
  ASSUME NEW b, Fitting(b)
  PROVE  LET r == Reconcile(b) IN
         /\ Fitting(r) /\ Offered(r) /\ r.snapshot = b.snapshot
         /\ r.filter.index = b.filter.index /\ r.page = b.page
         /\ r.filter.search = b.filter.search /\ r.filter.area = b.filter.area
<1>1. CASE b.snapshot = None
  <2> DEFINE r == Reconcile(b)
  <2>1. r = [b EXCEPT !.filter.source = "", !.filter.section = ""]
    BY <1>1 DEF Reconcile
  <2> HIDE DEF r
  <2>2. /\ r.snapshot = b.snapshot /\ r.page = b.page /\ IsBrowser(r)
        /\ r.filter = [b.filter EXCEPT !.source = "", !.section = ""]
    BY <2>1 DEF Fitting, IsBrowser
  <2>3. /\ r.filter.search = b.filter.search /\ r.filter.area = b.filter.area
        /\ r.filter.index = b.filter.index /\ IsFilter(r.filter)
    BY <2>2 DEF Fitting, IsFilter
  <2> QED
    BY <1>1, <2>2, <2>3 DEF Fitting, Offered, r
<1>2. CASE b.snapshot # None
  <2> DEFINE sourced == IF SourceOffered(b, b.filter) THEN b.filter
                        ELSE [b.filter EXCEPT !.source = ""]
             f == IF SectionOffered(b, sourced) THEN sourced
                  ELSE [sourced EXCEPT !.section = ""]
             r == Reconcile(b)
  <2>1. /\ r = [b EXCEPT !.filter = f]
        /\ f = IF SectionOffered(b, sourced) THEN sourced
               ELSE [sourced EXCEPT !.section = ""]
        /\ sourced = IF SourceOffered(b, b.filter) THEN b.filter
                     ELSE [b.filter EXCEPT !.source = ""]
    BY <1>2 DEF Reconcile
  <2> HIDE DEF r, f, sourced
  <2>2. /\ sourced.search = b.filter.search /\ sourced.area = b.filter.area
        /\ sourced.index = b.filter.index /\ IsFilter(sourced)
        /\ sourced.source = "" \/ (SourceOffered(b, b.filter) /\ sourced = b.filter)
    BY <2>1 DEF Fitting, IsFilter
  <2>3. /\ f.search = b.filter.search /\ f.area = b.filter.area
        /\ f.index = b.filter.index /\ f.source = sourced.source /\ IsFilter(f)
        /\ f.section = "" \/ (SectionOffered(b, sourced) /\ f = sourced)
    BY <2>1, <2>2 DEF IsFilter
  <2>4. f.source = "" \/ SourceOffered(b, f)
    BY <2>2, <2>3, FacetsLook
  <2>5. f.section = "" \/ SectionOffered(b, f)
    BY <2>3
  <2>6. r.snapshot = b.snapshot /\ r.filter = f /\ r.page = b.page /\ IsBrowser(r)
    BY <2>1 DEF Fitting, IsBrowser
  <2>7. /\ SourceOffered(b, f) <=> SourceOffered(r, r.filter)
        /\ SectionOffered(b, f) <=> SectionOffered(r, r.filter)
    BY <2>6, FacetsLook
  <2>8. Offered(r)
    BY <2>4, <2>5, <2>6, <2>7 DEF Offered
  <2>9. Fitting(r)
    BY <2>3, <2>6 DEF Fitting
  <2> QED
    BY <2>3, <2>6, <2>8, <2>9 DEF r
<1> QED
  BY <1>1, <1>2

\* A query keeps what is offered, and a first page stays the first.
LEMMA RequeryGood ==
  ASSUME NEW b, Fitting(b), Offered(b), b.snapshot = None => b.filter.index = 0
  PROVE  /\ Good(Requery(b)) /\ Requery(b).page.count \in Nat
         /\ b.filter.index = 0 => Requery(b).page.index = 0
<1> DEFINE r == Requery(b)
<1>1. /\ Fitting(r) /\ r.snapshot = b.snapshot
      /\ r.filter = [b.filter EXCEPT !.index = r.filter.index]
  BY RequeryFresh
<1>2. /\ r.filter.source = b.filter.source /\ r.filter.section = b.filter.section
      /\ r.filter.area = b.filter.area
  BY <1>1 DEF Fitting, IsFilter
<1> HIDE DEF r
<1>3. Offered(r)
  BY <1>1, <1>2, FacetsLook DEF Offered
<1>4. CASE b.snapshot = None
  <2>1. r.page = NoPage /\ r.filter.index = 0
    BY <1>4, RequeryFresh DEF r
  <2> QED
    BY <1>1, <1>3, <1>4, <2>1 DEF Good, Fresh, NoPage, r
<1>5. CASE b.snapshot # None
  <2>1. Fresh(r)
    BY <1>5, RequeryFresh DEF r
  <2>2. r.page = Query(b.snapshot.entries, b.filter)
    BY <1>5 DEF r, Requery, Fitting
  <2>3. r.page.count \in Nat /\ r.page.index = ClampIndex(b.filter.index, r.page.count)
    BY <1>5, <2>2, QueryFits DEF Fitting
  <2>4. b.filter.index = 0 => r.page.index = 0
    BY <2>3, ClampFits
  <2> QED
    BY <1>1, <1>3, <2>1, <2>3, <2>4 DEF Good, r
<1> QED
  BY <1>4, <1>5

\* A filter is set, and the first page is shown.
LEMMA FilterRenews ==
  ASSUME NEW b, Good(b), NEW value, NEW c,
         c \in {SetSearch(b, value), SetSource(b, value), SetSection(b, value),
                SetArea(b, value)}
  PROVE  /\ Good(c) /\ c.snapshot = b.snapshot
         /\ c.page.index = 0 /\ c.page.count \in Nat
<1>1. ASSUME NEW d, Fitting(d), d.snapshot = b.snapshot, d.filter.index = 0,
             c = Requery(Reconcile(d))
      PROVE  /\ Good(c) /\ c.snapshot = b.snapshot
             /\ c.page.index = 0 /\ c.page.count \in Nat
  BY <1>1, ReconcileOffers, RequeryGood, RequeryFresh
<1>2. CASE c = SetSearch(b, value)
  <2> DEFINE d == [b EXCEPT !.filter.search = value, !.filter.index = 0]
  <2>2. d = [b EXCEPT !.filter.search = value, !.filter.index = 0]
    OBVIOUS
  <2>3. c = Requery(d)
    BY <1>2 DEF SetSearch
  <2> HIDE DEF d
  <2>4. /\ d.snapshot = b.snapshot /\ IsBrowser(d)
        /\ d.filter = [b.filter EXCEPT !.search = value, !.index = 0]
    BY <2>2 DEF Good, Fitting, IsBrowser
  <2>5. IsFilter(d.filter) /\ d.filter.index = 0
    BY <2>4 DEF Good, Fitting, IsFilter
  <2>1. Fitting(d) /\ d.snapshot = b.snapshot /\ d.filter.index = 0
    BY <2>4, <2>5 DEF Good, Fitting
  <2>6. /\ d.filter.area = b.filter.area /\ d.filter.source = b.filter.source
        /\ d.filter.section = b.filter.section
    BY <2>4 DEF Good, Fitting, IsFilter
  <2>7. Offered(d)
    BY <2>1, <2>6, FacetsLook DEF Good, Offered
  <2> QED
    BY <2>1, <2>3, <2>7, RequeryGood, RequeryFresh
<1>3. CASE c = SetSource(b, value)
  <2> DEFINE d == [b EXCEPT !.filter.source = value, !.filter.index = 0]
  <2>2. d = [b EXCEPT !.filter.source = value, !.filter.index = 0]
    OBVIOUS
  <2>3. c = Requery(Reconcile(d))
    BY <1>3 DEF SetSource
  <2> HIDE DEF d
  <2>4. /\ d.snapshot = b.snapshot /\ IsBrowser(d)
        /\ d.filter = [b.filter EXCEPT !.source = value, !.index = 0]
    BY <2>2 DEF Good, Fitting, IsBrowser
  <2>5. IsFilter(d.filter) /\ d.filter.index = 0
    BY <2>4 DEF Good, Fitting, IsFilter
  <2>1. Fitting(d) /\ d.snapshot = b.snapshot /\ d.filter.index = 0
    BY <2>4, <2>5 DEF Good, Fitting
  <2> QED
    BY <1>1, <2>1, <2>3
<1>4. CASE c = SetSection(b, value)
  <2> DEFINE d == [b EXCEPT !.filter.section = value, !.filter.index = 0]
  <2>2. d = [b EXCEPT !.filter.section = value, !.filter.index = 0]
    OBVIOUS
  <2>3. c = Requery(Reconcile(d))
    BY <1>4 DEF SetSection
  <2> HIDE DEF d
  <2>4. /\ d.snapshot = b.snapshot /\ IsBrowser(d)
        /\ d.filter = [b.filter EXCEPT !.section = value, !.index = 0]
    BY <2>2 DEF Good, Fitting, IsBrowser
  <2>5. IsFilter(d.filter) /\ d.filter.index = 0
    BY <2>4 DEF Good, Fitting, IsFilter
  <2>1. Fitting(d) /\ d.snapshot = b.snapshot /\ d.filter.index = 0
    BY <2>4, <2>5 DEF Good, Fitting
  <2> QED
    BY <1>1, <2>1, <2>3
<1>5. CASE c = SetArea(b, value)
  <2> DEFINE d == [b EXCEPT !.filter.area = value, !.filter.index = 0]
  <2>2. d = [b EXCEPT !.filter.area = value, !.filter.index = 0]
    OBVIOUS
  <2>3. c = Requery(Reconcile(d))
    BY <1>5 DEF SetArea
  <2> HIDE DEF d
  <2>4. /\ d.snapshot = b.snapshot /\ IsBrowser(d)
        /\ d.filter = [b.filter EXCEPT !.area = value, !.index = 0]
    BY <2>2 DEF Good, Fitting, IsBrowser
  <2>5. IsFilter(d.filter) /\ d.filter.index = 0
    BY <2>4 DEF Good, Fitting, IsFilter
  <2>1. Fitting(d) /\ d.snapshot = b.snapshot /\ d.filter.index = 0
    BY <2>4, <2>5 DEF Good, Fitting
  <2> QED
    BY <1>1, <2>1, <2>3
<1> QED
  BY <1>2, <1>3, <1>4, <1>5

\* A new snapshot is shown from its first page without filters.
LEMMA RefreshRenews ==
  ASSUME NEW b, Good(b), NEW snapshot,
         snapshot # None => WellFormed(snapshot.entries)
  PROVE  LET c == Refresh(b, snapshot) IN
         /\ Good(c) /\ c.snapshot = snapshot
         /\ c = b \/ (c.page.index = 0 /\ c.page.count \in Nat)
<1>1. CASE snapshot = b.snapshot
  BY <1>1 DEF Refresh
<1>2. CASE snapshot # b.snapshot
  <2> DEFINE d == [b EXCEPT !.snapshot = snapshot, !.filter = NoFilter]
  <2>1. d = [b EXCEPT !.snapshot = snapshot, !.filter = NoFilter]
    OBVIOUS
  <2>2. Refresh(b, snapshot) = Requery(d)
    BY <1>2 DEF Refresh
  <2> HIDE DEF d
  <2>4. d.snapshot = snapshot /\ d.filter = NoFilter /\ IsBrowser(d)
    BY <2>1 DEF Good, Fitting, IsBrowser
  <2>5. Fitting(d)
    <3>1. IsFilter(NoFilter) /\ NoFilter.index = 0
      BY DEF NoFilter, IsFilter
    <3> QED
      BY <2>4, <3>1 DEF Fitting
  <2>3. Offered(d) /\ d.filter.index = 0
    <3>1. NoFilter.index = 0 /\ NoFilter.source = "" /\ NoFilter.section = ""
      BY DEF NoFilter
    <3> QED
      BY <2>4, <3>1 DEF Offered
  <2> QED
    BY <2>2, <2>3, <2>4, <2>5, RequeryGood, RequeryFresh
<1> QED
  BY <1>1, <1>2

\* Filters that differ in the page at most.
Alike(f, g) == [f EXCEPT !.index = 0] = [g EXCEPT !.index = 0]

\* The browser at another page.
TurnTo(b, i) == Requery([b EXCEPT !.filter.index = i])

\* The page is turned within the results.
LEMMA TurnStays ==
  ASSUME NEW b, Good(b), b.snapshot # None, NEW i \in Nat, NEW c,
         c = TurnTo(b, i)
  PROVE  /\ Good(c) /\ c.snapshot = b.snapshot
         /\ Alike(c.filter, b.filter)
         /\ c.page.count = b.page.count
         /\ c.page.index = ClampIndex(i, b.page.count)
         /\ b.page.count \in Nat /\ c.page.index \in Nat /\ b.page.index \in Nat
         /\ c.page.index < c.page.count \/ c.page.index = b.page.index
<1> DEFINE d == [b EXCEPT !.filter.index = i]
           entries == b.snapshot.entries
<1>1. d = [b EXCEPT !.filter.index = i] /\ c = Requery(d)
  BY DEF TurnTo
<1> HIDE DEF d
<1>2. /\ Fitting(d) /\ d.snapshot = b.snapshot /\ d.filter.index = i
      /\ d.filter = [b.filter EXCEPT !.index = i]
  <2>1. /\ d.filter = [b.filter EXCEPT !.index = i] /\ d.snapshot = b.snapshot
        /\ IsBrowser(d)
    BY <1>1 DEF Good, Fitting, IsBrowser
  <2>2. IsFilter(d.filter) /\ d.filter.index = i
    BY <2>1 DEF Good, Fitting, IsFilter
  <2> QED
    BY <2>1, <2>2 DEF Good, Fitting
<1>12. /\ d.filter.area = b.filter.area /\ d.filter.source = b.filter.source
       /\ d.filter.section = b.filter.section /\ d.filter.search = b.filter.search
  BY <1>2 DEF Good, Fitting, IsFilter
<1>3. Offered(d)
  BY <1>2, <1>12, FacetsLook DEF Good, Offered
<1>4. Good(c) /\ c.snapshot = b.snapshot /\ c.filter = [d.filter EXCEPT !.index = c.filter.index]
  <2>1. d.snapshot # None
    BY <1>2
  <2>2. Good(Requery(d))
    BY <1>2, <1>3, <2>1, RequeryGood
  <2>3. /\ Requery(d).snapshot = d.snapshot
        /\ Requery(d).filter = [d.filter EXCEPT !.index = Requery(d).filter.index]
    BY <1>2, RequeryFresh
  <2> QED
    BY <1>1, <1>2, <2>2, <2>3
<1>5. c.page = Query(entries, d.filter)
  BY <1>1, <1>2 DEF Requery, Fitting
<1>6. b.page = Query(entries, b.filter) /\ b.filter.index \in Nat
      /\ b.filter.index = b.page.index /\ WellFormed(entries)
  BY DEF Good, Fresh, Fitting
<1>7. Matching(entries, d.filter) = Matching(entries, b.filter)
  BY <1>12, IndexIgnored
<1> DEFINE count == PageCount(Cardinality(Matching(entries, b.filter)))
<1>8. count \in Nat /\ b.page.count = count /\ b.page.index = ClampIndex(b.filter.index, count)
  BY <1>6, QueryFits
<1>9. c.page.count = count /\ c.page.index = ClampIndex(i, count)
  <2>1. /\ c.page.count = PageCount(Cardinality(Matching(entries, d.filter)))
        /\ c.page.index = ClampIndex(i, PageCount(Cardinality(Matching(entries, d.filter))))
    <3>1. c.page = Query(entries, d.filter) /\ d.filter.index = i /\ WellFormed(entries)
      BY <1>2, <1>5, <1>6
    <3> QED
      BY <3>1, QueryFits
  <2> QED
    BY <1>7, <2>1
<1> HIDE DEF count
<1>10. /\ c.page.index \in Nat /\ b.page.index \in Nat
       /\ c.page.index < c.page.count \/ c.page.index = b.page.index
  BY <1>6, <1>8, <1>9, ClampFits
<1>11. Alike(c.filter, b.filter)
  BY <1>2, <1>4 DEF Good, Fitting, IsFilter, Alike
<1> QED
  BY <1>4, <1>8, <1>9, <1>10, <1>11

-----------------------------------------------------------------------------
(* Every step.                                                             *)

\* A step of the browser: nothing, other criteria, or a turn of the page.
Renews(b, c) == c.page.index = 0 /\ c.page.count \in Nat

Turns(b, c) ==
  /\ c.snapshot = b.snapshot
  /\ Alike(c.filter, b.filter)
  /\ c.page.count = b.page.count /\ c.page.index \in Nat
  /\ c.page.index < c.page.count \/ c.page.index = b.page.index

Moves(b, c) == Good(c) /\ (c = b \/ Renews(b, c) \/ Turns(b, c))

\* Before there is a catalog there is no page to turn to.
LEMMA NoCatalogNoPage ==
  ASSUME NEW b, Good(b), b.snapshot = None
  PROVE  b.page.count = 0 /\ b.page.index = 0 /\ b.filter.index = 0
BY DEF Good, Fresh, NoPage

\* The numbers of a page.
LEMMA PageNumbers ==
  ASSUME NEW b, Good(b)
  PROVE  /\ b.page.index \in Nat /\ b.page.count \in Nat
         /\ PageNumber(b.page) \in Nat
<1>1. b.page.index \in Nat
  BY DEF Good, Fresh, Fitting
<1>2. CASE b.snapshot = None
  BY <1>1, <1>2, NoCatalogNoPage DEF PageNumber
<1>3. CASE b.snapshot # None
  <2>1. b.page.count \in Nat
    BY <1>3, QueryFits DEF Good, Fresh, Fitting
  <2> QED
    BY <1>1, <2>1 DEF PageNumber
<1> QED
  BY <1>2, <1>3

\* The box holds a number, whatever is typed.
LEMMA BoxHolds ==
  ASSUME NEW b, Good(b), box.pending \in Int, text = None \/ text \in Int,
         NEW x \in Drawn(Synchronize(box, b.page)), NEW active
  PROVE  /\ x.pending \in Int /\ x.count = b.page.count
         /\ FinishFrame(x, active).pending = x.pending
         /\ Synchronize(box, b.page) \in Drawn(Synchronize(box, b.page))
<1> DEFINE y == Synchronize(box, b.page)
<1>1. /\ y = [pending |-> y.pending, committed |-> PageNumber(b.page),
              count |-> b.page.count, editing |-> y.editing]
      /\ y.pending \in Int
  BY PageNumbers DEF Synchronize
<1>2. x = y \/ (text \in Int /\ x = [y EXCEPT !.pending = text])
  BY DEF Drawn
<1> HIDE DEF y
<1>3. x.pending \in Int /\ x.count = b.page.count /\ x = [pending |-> x.pending,
        committed |-> x.committed, count |-> x.count, editing |-> x.editing]
  BY <1>1, <1>2
<1>4. FinishFrame(x, active).pending = x.pending
  BY <1>3 DEF FinishFrame
<1> QED
  BY <1>3, <1>4 DEF Drawn, y

\* A page is turned to where the buttons and the number in the box lead.
LEMMA TurnsAre ==
  ASSUME IInv, ClickPrevious \/ ClickNext \/ LeaveBox
  PROVE  /\ store' = store
         /\ \E i \in Nat : \/ browser' = browser
                          \/ /\ browser.snapshot # None
                             /\ browser' = TurnTo(browser, i)
<1>1. Good(browser)
  BY DEF IInv, Good
<1>2. store' = store
  BY DEF ClickPrevious, ClickNext, LeaveBox, Gesture, EndFrame, storeVars
<1>3. CASE ClickPrevious
  <2>1. browser' = PreviousPage(browser)
    BY <1>3 DEF ClickPrevious, Changed
  <2>2. browser.filter.index \in Nat /\ browser.page.index = browser.filter.index
        /\ browser.page.count # 0
    BY <1>1, <1>3 DEF Good, Fitting, Fresh, ClickPrevious
  <2>3. browser.snapshot # None /\ browser.filter.index - 1 \in Nat
    BY <1>1, <1>3, <2>2, NoCatalogNoPage DEF ClickPrevious
  <2>4. browser' = TurnTo(browser, browser.filter.index - 1)
    BY <1>1, <1>3, <2>1, <2>2 DEF TurnTo, PreviousPage, ClickPrevious, Good, Fitting, IsBrowser, IsFilter
  <2> QED
    BY <1>2, <2>3, <2>4
<1>4. CASE ClickNext
  <2>1. browser' = NextPage(browser)
    BY <1>4 DEF ClickNext, Changed
  <2>2. browser.filter.index \in Nat /\ browser.page.count # 0
    BY <1>1, <1>4 DEF Good, Fitting, ClickNext
  <2>3. browser.snapshot # None /\ browser.filter.index + 1 \in Nat
    BY <1>1, <2>2, NoCatalogNoPage
  <2>4. \/ browser' = browser
        \/ browser' = TurnTo(browser, browser.filter.index + 1)
    BY <2>1 DEF NextPage, TurnTo
  <2> QED
    BY <1>2, <2>3, <2>4
<1>5. CASE LeaveBox
  <2>1. PICK x \in Drawn(Synchronize(box, browser.page)) :
          browser' = IF text = None \/ x.count = 0 THEN browser
                     ELSE SetPageNumber(browser, IF x.pending > 0 THEN x.pending ELSE 0)
    BY <1>5 DEF LeaveBox
  <2>2. x.count = browser.page.count /\ x.pending \in Int
    BY <1>1, BoxHolds DEF IInv
  <2> DEFINE number == IF x.pending > 0 THEN x.pending ELSE 0
             i == IF number = 0 THEN 0 ELSE number - 1
  <2>3. i \in Nat
    BY <2>2
  <2>4. \/ browser' = browser
        \/ /\ browser.snapshot # None
           /\ browser' = TurnTo(browser, i)
    BY <1>1, <2>1, <2>2, NoCatalogNoPage DEF SetPageNumber, TurnTo
  <2> HIDE DEF i
  <2> QED
    BY <1>2, <2>3, <2>4
<1> QED
  BY <1>3, <1>4, <1>5

\* What the steps do to the browser.
LEMMA BrowserMoves ==
  ASSUME IInv, Next
  PROVE  Moves(browser, browser') /\ (store' # None => WellFormed(store'.entries))
<1>1. Good(browser) /\ (store # None => WellFormed(store.entries))
  BY DEF IInv, Good
<1>2. ASSUME NEW value, NEW c,
             c \in {SetSearch(browser, value), SetSource(browser, value),
                    SetSection(browser, value), SetArea(browser, value)}
      PROVE  Moves(browser, c)
  BY <1>1, <1>2, FilterRenews DEF Moves, Renews
<1>3. ASSUME NEW i \in Nat, browser.snapshot # None
      PROVE  Moves(browser, TurnTo(browser, i))
  BY <1>1, <1>3, TurnStays DEF Moves, Turns
<1>4. CASE UNCHANGED <<browser, store>>
  BY <1>1, <1>4 DEF Moves
<1>5. ASSUME NEW dir \in Disk, PublishCatalog(dir)
      PROVE  Moves(browser, browser') /\ (store' # None => WellFormed(store'.entries))
  <2>1. browser' = browser
    BY <1>5 DEF PublishCatalog
  <2>2. store'.entries = Parse(dir)
    BY <1>5 DEF PublishCatalog, LoadCatalog
  <2>3. WellFormed(Parse(dir))
    BY ParseWellFormed
  <2> QED
    BY <1>1, <2>1, <2>2, <2>3 DEF Moves
<1>6. CASE OpenPicker
  BY <1>1, <1>2, <1>6 DEF OpenPicker, storeVars, Moves
<1>7. CASE BeginFrame
  <2> DEFINE refreshed == Refresh(browser, store)
  <2>1. /\ Good(refreshed)
        /\ refreshed = browser \/ Renews(browser, refreshed)
    BY <1>1, RefreshRenews DEF Renews
  <2>2. store' = store
    BY <1>7 DEF BeginFrame, storeVars
  <2>3. browser' = IF refreshed.filter.area = selectedArea THEN refreshed
                   ELSE SetArea(refreshed, selectedArea)
    BY <1>7 DEF BeginFrame
  <2> HIDE DEF refreshed
  <2>4. Moves(browser, refreshed) /\ Moves(browser, SetArea(refreshed, selectedArea))
    BY <2>1, FilterRenews DEF Moves, Renews
  <2> QED
    BY <1>1, <2>2, <2>3, <2>4
<1>8. CASE Filtering
  <2>1. store' = store
    BY <1>8 DEF Filtering, EnterSearch, ChooseSource, ChooseSection, Gesture, EndFrame,
                storeVars
  <2> QED
    BY <1>1, <1>2, <1>8, <2>1
       DEF Filtering, EnterSearch, ChooseSource, ChooseSection, Changed
<1>9. CASE ClickPrevious \/ ClickNext \/ LeaveBox
  BY <1>1, <1>3, <1>4, <1>9, TurnsAre
<1> QED
  BY <1>4, <1>5, <1>6, <1>7, <1>8, <1>9
     DEF Next, LoadFails, SelectArea, LeavePreview, Draw, ClickCard, ClickCancel, Gesture,
         EndFrame, KeepFocus, TypeNumber, CloseWindow, storeVars

\* A step of the browser keeps what is fresh and what is offered.
LEMMA NextKeeps == IInv /\ [Next]_vars => IInv'
<1> SUFFICES ASSUME IInv, [Next]_vars PROVE IInv'
  OBVIOUS
<1>1. Good(browser) /\ box.pending \in Int /\ (text = None \/ text \in Int)
  BY DEF IInv, Good
<1>2. ASSUME NEW b, Good(b), EndFrame(b.page)
      PROVE  box'.pending \in Int /\ text' = text
  <2>1. Synchronize(box, b.page) \in Drawn(Synchronize(box, b.page))
    BY DEF Drawn
  <2> QED
    BY <1>1, <1>2, <2>1, BoxHolds DEF EndFrame, focusVars
<1>3. CASE Next
  <2>1. Moves(browser, browser') /\ (store' # None => WellFormed(store'.entries))
    BY <1>3, BrowserMoves
  <2>2. Good(browser')
    BY <2>1 DEF Moves
  <2>3. CASE \/ Draw \/ Filtering \/ ClickPrevious \/ ClickNext \/ ClickCancel
             \/ \E d \in Cards : ClickCard(d)
    <3>1. EndFrame(browser.page) \/ EndFrame(browser'.page)
      BY <2>3 DEF Draw, Filtering, EnterSearch, ChooseSource, ChooseSection,
                  ClickPrevious, ClickNext, ClickCancel, ClickCard, Gesture
    <3> QED
      BY <1>1, <1>2, <2>1, <2>2, <3>1 DEF IInv, Good
  <2>4. CASE KeepFocus \/ LeaveBox
    <3>1. PICK x \in Drawn(Synchronize(box, browser.page)) :
            box' = FinishFrame(x, TRUE) \/ box' = FinishFrame(x, FALSE)
      BY <2>4 DEF KeepFocus, LeaveBox
    <3>2. box'.pending \in Int
      <4>1. /\ x.pending \in Int
            /\ FinishFrame(x, TRUE).pending = x.pending
            /\ FinishFrame(x, FALSE).pending = x.pending
        BY <1>1, BoxHolds
      <4> QED
        BY <3>1, <4>1
    <3>3. text' = text \/ text' = None
      BY <2>4 DEF KeepFocus, LeaveBox
    <3> QED
      BY <1>1, <2>1, <2>2, <3>2, <3>3 DEF IInv, Good
  <2>5. ASSUME NEW n \in Number, TypeNumber(n)
        PROVE  IInv'
    <3> DEFINE x == [Synchronize(box, browser.page) EXCEPT !.pending = n]
    <3>1. n \in Int /\ text' = n /\ box' = FinishFrame(x, TRUE)
      BY <2>5, NumberAssumption DEF TypeNumber
    <3>2. box'.pending = n
      BY <3>1 DEF FinishFrame, Synchronize
    <3> QED
      BY <2>1, <2>2, <3>1, <3>2 DEF IInv, Good
  <2>6. CASE UNCHANGED <<box, text>>
    BY <1>1, <2>1, <2>2, <2>6 DEF IInv, Good
  <2>7. CASE CloseWindow
    BY <1>1, <2>1, <2>2, <2>7 DEF IInv, Good, CloseWindow
  <2> QED
    BY <1>3, <2>3, <2>4, <2>5, <2>6, <2>7
       DEF Next, PublishCatalog, LoadFails, SelectArea, OpenPicker, LeavePreview,
           BeginFrame, focusVars
<1>4. CASE UNCHANGED vars
  BY <1>4 DEF IInv, vars, storeVars, focusVars
<1> QED
  BY <1>3, <1>4

\* The browser begins without a catalog and without filters.
LEMMA InitHolds == Init => IInv
<1> SUFFICES ASSUME Init PROVE IInv
  OBVIOUS
<1>1. /\ browser = [snapshot |-> None, filter |-> NoFilter, page |-> NoPage]
      /\ store = None /\ text = None /\ box.pending = 0
  BY DEF Init
<1>2. NoFilter.index = 0 /\ IsFilter(NoFilter) /\ NoPage.index = 0
  BY DEF NoFilter, NoPage, IsFilter
<1> QED
  BY <1>1, <1>2 DEF IInv, Fitting, IsBrowser, Fresh, Offered

\* The invariant holds throughout.
THEOREM Invariance == Spec => []IInv
BY InitHolds, NextKeeps, PTL DEF Spec

-----------------------------------------------------------------------------
(* The filters.                                                            *)

\* A query changes nothing of the filters but the page.
LEMMA RequeryKeeps ==
  ASSUME NEW b, Fitting(b)
  PROVE  LET c == Requery(b) IN
         /\ c.filter.search = b.filter.search /\ c.filter.area = b.filter.area
         /\ c.filter.source = b.filter.source /\ c.filter.section = b.filter.section
<1>1. Requery(b).filter = [b.filter EXCEPT !.index = Requery(b).filter.index]
  BY RequeryFresh
<1> QED
  BY <1>1 DEF Fitting, IsFilter

\* What is offered stays, the section under the source that is left.
LEMMA ReconcileKeeps ==
  ASSUME NEW b, Fitting(b), b.snapshot # None
  PROVE  LET f == Reconcile(b).filter
             entries == b.snapshot.entries
         IN  /\ f.source \in {"", b.filter.source}
             /\ b.filter.source \in FacetSources(entries, f) => f.source = b.filter.source
             /\ (\E u \in FacetSections(entries, f) : Fold[u] = Fold[b.filter.section])
                  => f.section = b.filter.section
<1> DEFINE entries == b.snapshot.entries
           sourced == IF SourceOffered(b, b.filter) THEN b.filter
                      ELSE [b.filter EXCEPT !.source = ""]
           f == Reconcile(b).filter
<1>1. /\ f = IF SectionOffered(b, sourced) THEN sourced
             ELSE [sourced EXCEPT !.section = ""]
      /\ sourced = IF SourceOffered(b, b.filter) THEN b.filter
                   ELSE [b.filter EXCEPT !.source = ""]
  BY DEF Reconcile, Fitting, IsBrowser
<1>2. SectionOffered(b, sourced)
        <=> \E u \in FacetSections(entries, sourced) : Fold[u] = Fold[sourced.section]
  BY DEF SectionOffered
<1> HIDE DEF f, sourced
<1>3. /\ sourced.area = b.filter.area /\ sourced.section = b.filter.section
      /\ sourced.source = IF SourceOffered(b, b.filter) THEN b.filter.source ELSE ""
      /\ IsFilter(sourced)
  BY <1>1 DEF Fitting, IsFilter
<1>4. /\ f.area = b.filter.area /\ f.source = sourced.source
      /\ SectionOffered(b, sourced) => f.section = b.filter.section
  BY <1>1, <1>3 DEF IsFilter
<1>5. /\ FacetSources(entries, f) = FacetSources(entries, b.filter)
      /\ FacetSections(entries, f) = FacetSections(entries, sourced)
  BY <1>3, <1>4 DEF FacetSources, FacetSections, SectionTexts
<1>6. b.filter.source \in FacetSources(entries, f) => f.source = b.filter.source
  BY <1>3, <1>4, <1>5 DEF SourceOffered
<1> QED
  BY <1>2, <1>3, <1>4, <1>5, <1>6 DEF f, entries

\* What a step drops of the filters is not offered any more.
Loyal(b, c) ==
  c.snapshot = b.snapshot /\ b.snapshot # None =>
    LET old == b.filter  new == c.filter
        entries == b.snapshot.entries
        SectionStays(t) == \E u \in FacetSections(entries, new) : Fold[u] = Fold[t]
        moved == new.area # old.area
    IN  /\ moved /\ old.source \in FacetSources(entries, new)
             => new.source = old.source
        /\ (moved \/ new.source # old.source) /\ SectionStays(old.section)
             => new.section = old.section

\* A filter is set: the area is the one that is asked for, if one is.
LEMMA FilterSets ==
  ASSUME NEW b, Good(b), NEW value
  PROVE  /\ \A c \in {SetSearch(b, value), SetSource(b, value), SetSection(b, value)} :
              c.filter.area = b.filter.area /\ Loyal(b, c)
         /\ SetArea(b, value).filter.area = value /\ Loyal(b, SetArea(b, value))
<1>1. Fitting(b) /\ Offered(b)
  BY DEF Good
<1>2. ASSUME NEW d, IsFilter(d), d.index = 0
      PROVE  LET e == [b EXCEPT !.filter = d] IN
             /\ Fitting(e) /\ e.snapshot = b.snapshot /\ e.filter = d
             /\ Reconcile(e).filter.area = d.area
             /\ Requery(e).filter.area = d.area
             /\ Requery(Reconcile(e)).filter.area = d.area
  <2> DEFINE e == [b EXCEPT !.filter = d]
  <2>1. e.snapshot = b.snapshot /\ e.filter = d /\ IsBrowser(e)
    BY <1>1 DEF Fitting, IsBrowser
  <2> HIDE DEF e
  <2>2. Fitting(e)
    BY <1>1, <1>2, <2>1 DEF Fitting
  <2>3. /\ Fitting(Reconcile(e)) /\ Reconcile(e).filter.area = d.area
    BY <2>1, <2>2, ReconcileOffers
  <2>4. /\ Requery(e).filter.area = d.area
        /\ Requery(Reconcile(e)).filter.area = d.area
    BY <2>1, <2>2, <2>3, RequeryKeeps
  <2> QED
    BY <2>1, <2>2, <2>3, <2>4 DEF e
<1>3. ASSUME NEW d, IsFilter(d), d.index = 0, b.snapshot # None
      PROVE  LET e == [b EXCEPT !.filter = d]
                 c == Requery(Reconcile(e))
                 entries == b.snapshot.entries
             IN  /\ c.filter.source \in {"", d.source}
                 /\ d.source \in FacetSources(entries, c.filter)
                      => c.filter.source = d.source
                 /\ (\E u \in FacetSections(entries, c.filter) : Fold[u] = Fold[d.section])
                      => c.filter.section = d.section
  <2> DEFINE e == [b EXCEPT !.filter = d]
             r == Reconcile(e)
             c == Requery(r)
             entries == b.snapshot.entries
  <2>1. Fitting(e) /\ e.snapshot = b.snapshot /\ e.filter = d
    BY <1>2, <1>3
  <2> HIDE DEF e
  <2>2. Fitting(r)
    BY <2>1, ReconcileOffers
  <2>3. /\ r.filter.source \in {"", d.source}
        /\ d.source \in FacetSources(entries, r.filter) => r.filter.source = d.source
        /\ (\E u \in FacetSections(entries, r.filter) : Fold[u] = Fold[d.section])
             => r.filter.section = d.section
    BY <1>3, <2>1, ReconcileKeeps
  <2> HIDE DEF r
  <2>4. /\ c.filter.area = r.filter.area /\ c.filter.source = r.filter.source
        /\ c.filter.section = r.filter.section
    BY <2>2, RequeryKeeps
  <2> HIDE DEF c
  <2>5. /\ FacetSources(entries, c.filter) = FacetSources(entries, r.filter)
        /\ FacetSections(entries, c.filter) = FacetSections(entries, r.filter)
    BY <2>4 DEF FacetSources, FacetSections, SectionTexts
  <2> QED
    BY <2>3, <2>4, <2>5 DEF c, r, e
<1> DEFINE With(d) == [b EXCEPT !.filter = d]
<1>4. /\ SetSearch(b, value) = Requery(With([b.filter EXCEPT !.search = value, !.index = 0]))
      /\ SetSource(b, value)
           = Requery(Reconcile(With([b.filter EXCEPT !.source = value, !.index = 0])))
      /\ SetSection(b, value)
           = Requery(Reconcile(With([b.filter EXCEPT !.section = value, !.index = 0])))
      /\ SetArea(b, value)
           = Requery(Reconcile(With([b.filter EXCEPT !.area = value, !.index = 0])))
  BY DEF SetSearch, SetSource, SetSection, SetArea
<1>5. ASSUME NEW c, c = SetSearch(b, value)
      PROVE  c.filter.area = b.filter.area /\ Loyal(b, c)
  <2> DEFINE d == [b.filter EXCEPT !.search = value, !.index = 0]
  <2>1. d = [b.filter EXCEPT !.search = value, !.index = 0]
    OBVIOUS
  <2>2. c = Requery(With(d))
    BY <1>4, <1>5
  <2> HIDE DEF d
  <2>3. /\ d.area = b.filter.area /\ d.source = b.filter.source
        /\ d.section = b.filter.section /\ d.index = 0 /\ IsFilter(d)
    BY <1>1, <2>1 DEF Fitting, IsFilter
  <2>4. Fitting(With(d)) /\ With(d).filter = d
    BY <1>2, <2>3
  <2> HIDE DEF With
  <2>5. /\ c.filter.area = b.filter.area /\ c.filter.source = b.filter.source
    BY <2>3, <2>2, <2>4, RequeryKeeps
  <2> QED
    BY <2>5 DEF Loyal
<1>6. ASSUME NEW c, c = SetSource(b, value)
      PROVE  c.filter.area = b.filter.area /\ Loyal(b, c)
  <2> DEFINE d == [b.filter EXCEPT !.source = value, !.index = 0]
  <2>1. d = [b.filter EXCEPT !.source = value, !.index = 0]
    OBVIOUS
  <2>2. c = Requery(Reconcile(With(d)))
    BY <1>4, <1>6
  <2> HIDE DEF d
  <2>3. /\ d.area = b.filter.area
        /\ d.section = b.filter.section /\ d.index = 0 /\ IsFilter(d)
    BY <1>1, <2>1 DEF Fitting, IsFilter
  <2>4. c.filter.area = b.filter.area
    BY <1>2, <2>3, <2>2
  <2>5. b.snapshot # None =>
          ((\E u \in FacetSections(b.snapshot.entries, c.filter) : Fold[u] = Fold[d.section])
             => c.filter.section = d.section)
    BY <1>3, <2>3, <2>2
  <2> QED
    BY <2>3, <2>4, <2>5 DEF Loyal
<1>7. ASSUME NEW c, c = SetSection(b, value)
      PROVE  c.filter.area = b.filter.area /\ Loyal(b, c)
  <2> DEFINE d == [b.filter EXCEPT !.section = value, !.index = 0]
  <2>1. d = [b.filter EXCEPT !.section = value, !.index = 0]
    OBVIOUS
  <2>2. c = Requery(Reconcile(With(d)))
    BY <1>4, <1>7
  <2> HIDE DEF d
  <2>3. /\ d.area = b.filter.area /\ d.source = b.filter.source
        /\ d.index = 0 /\ IsFilter(d)
    BY <1>1, <2>1 DEF Fitting, IsFilter
  <2>4. c.filter.area = b.filter.area
    BY <1>2, <2>3, <2>2
  <2>5. b.snapshot # None =>
          /\ c.filter.source \in {"", d.source}
          /\ d.source \in FacetSources(b.snapshot.entries, c.filter)
               => c.filter.source = d.source
    BY <1>3, <2>3, <2>2
  <2>6. FacetSources(b.snapshot.entries, c.filter)
          = FacetSources(b.snapshot.entries, b.filter)
    BY <2>4 DEF FacetSources
  <2>7. b.snapshot # None => c.filter.source = b.filter.source
    BY <1>1, <2>3, <2>5, <2>6 DEF Offered, SourceOffered
  <2> QED
    BY <2>4, <2>7 DEF Loyal
<1>8. ASSUME NEW c, c = SetArea(b, value)
      PROVE  c.filter.area = value /\ Loyal(b, c)
  <2> DEFINE d == [b.filter EXCEPT !.area = value, !.index = 0]
  <2>1. d = [b.filter EXCEPT !.area = value, !.index = 0]
    OBVIOUS
  <2>2. c = Requery(Reconcile(With(d)))
    BY <1>4, <1>8
  <2> HIDE DEF d
  <2>3. /\ d.area = value /\ d.source = b.filter.source
        /\ d.section = b.filter.section /\ d.index = 0 /\ IsFilter(d)
    BY <1>1, <2>1 DEF Fitting, IsFilter
  <2>4. c.filter.area = value
    BY <1>2, <2>3, <2>2
  <2>5. b.snapshot # None =>
          /\ d.source \in FacetSources(b.snapshot.entries, c.filter)
               => c.filter.source = d.source
          /\ (\E u \in FacetSections(b.snapshot.entries, c.filter) : Fold[u] = Fold[d.section])
               => c.filter.section = d.section
    BY <1>3, <2>3, <2>2
  <2> QED
    BY <2>3, <2>4, <2>5 DEF Loyal
<1> QED
  BY <1>5, <1>6, <1>7, <1>8

\* What the steps do to the area and to the filters beside it.
LEMMA FiltersMove ==
  ASSUME IInv, Next
  PROVE  /\ Loyal(browser, browser')
         /\ BeginFrame => browser'.filter.area = selectedArea
         /\ OpenPicker => \/ browser' = browser
                          \/ browser'.filter.area = selectedArea
         /\ ~BeginFrame /\ ~OpenPicker => browser'.filter.area = browser.filter.area
<1> DEFINE Stays(c) == Loyal(browser, c) /\ c.filter.area = browser.filter.area
<1>1. Good(browser)
  BY DEF IInv, Good
<1>2. Stays(browser)
  BY DEF Loyal
<1>3. ASSUME NEW i \in Nat, browser.snapshot # None
      PROVE  Stays(TurnTo(browser, i))
  <2> DEFINE c == TurnTo(browser, i)
  <2>1. Alike(c.filter, browser.filter) /\ Good(c)
    BY <1>1, <1>3, TurnStays
  <2> HIDE DEF c
  <2>2. /\ c.filter.area = browser.filter.area /\ c.filter.source = browser.filter.source
        /\ c.filter.section = browser.filter.section
    BY <1>1, <2>1 DEF Good, Fitting, IsFilter, Alike
  <2> QED
    BY <2>2 DEF Loyal, c
<1>4. CASE BeginFrame
  <2> DEFINE refreshed == Refresh(browser, store)
  <2>1. browser' = IF refreshed.filter.area = selectedArea THEN refreshed
                   ELSE SetArea(refreshed, selectedArea)
    BY <1>4 DEF BeginFrame
  <2>2. Good(refreshed) /\ refreshed.snapshot = store
    BY <1>1, RefreshRenews DEF IInv
  <2>3. store = browser.snapshot => refreshed = browser
    BY DEF Refresh
  <2> HIDE DEF refreshed
  <2>4. /\ SetArea(refreshed, selectedArea).filter.area = selectedArea
        /\ Loyal(refreshed, SetArea(refreshed, selectedArea))
        /\ SetArea(refreshed, selectedArea).snapshot = store
    BY <2>2, FilterSets, FilterRenews
  <2>5. browser'.snapshot = store /\ browser'.filter.area = selectedArea
    BY <2>1, <2>2, <2>4
  <2>6. Loyal(browser, browser')
    <3>1. CASE store = browser.snapshot
      BY <1>2, <2>1, <2>3, <2>4, <3>1
    <3>2. CASE store # browser.snapshot
      BY <2>5, <3>2 DEF Loyal
    <3> QED
      BY <3>1, <3>2
  <2>7. ~OpenPicker
    BY <1>4 DEF OpenPicker, BeginFrame
  <2> QED
    BY <1>4, <2>5, <2>6, <2>7
<1>5. CASE OpenPicker
  <2>1. browser' = browser \/ browser' = SetArea(browser, selectedArea)
    BY <1>5 DEF OpenPicker
  <2>2. /\ SetArea(browser, selectedArea).filter.area = selectedArea
        /\ Loyal(browser, SetArea(browser, selectedArea))
    BY <1>1, FilterSets
  <2>3. Loyal(browser, browser)
    BY <1>2
  <2>4. ~BeginFrame
    BY <1>5 DEF OpenPicker, BeginFrame
  <2> QED
    BY <1>5, <2>1, <2>2, <2>3, <2>4
<1>6. ASSUME ~BeginFrame, ~OpenPicker
      PROVE  Stays(browser')
  <2>1. CASE browser' = browser
    BY <1>2, <2>1
  <2>2. CASE Filtering
    <3>1. PICK value : browser' \in {SetSearch(browser, value), SetSource(browser, value),
                                    SetSection(browser, value)}
      BY <2>2 DEF Filtering, EnterSearch, ChooseSource, ChooseSection, Changed
    <3> QED
      BY <1>1, <3>1, FilterSets
  <2>3. CASE ClickPrevious \/ ClickNext \/ LeaveBox
    <3>1. PICK i \in Nat : \/ browser' = browser
                           \/ /\ browser.snapshot # None
                              /\ browser' = TurnTo(browser, i)
      BY <2>3, TurnsAre
    <3> QED
      BY <1>2, <1>3, <3>1
  <2> QED
    BY <1>6, <2>1, <2>2, <2>3
       DEF Next, PublishCatalog, LoadFails, SelectArea, LeavePreview, Draw, ClickCard,
           ClickCancel, KeepFocus, TypeNumber, CloseWindow
<1> QED
  BY <1>4, <1>5, <1>6, <1>2

-----------------------------------------------------------------------------
(* The screen and the box.                                                 *)

\* The number in the box is the one that was typed, at the page shown.
Typed ==
  /\ box.count = browser.page.count /\ box.committed = PageNumber(browser.page)
  /\ box.count # 0 => box.editing /\ box.pending = text

\* The area that is picked from, and the box that has the keyboard.
ScreenInv ==
  /\ selectedArea \in Area
  /\ drawing \/ focused => screen = "picker"
  /\ screen = "picker" => Fold[browser.filter.area] = Fold[selectedArea]
  /\ typedHere => focused /\ text # None /\ Typed

\* A number that is typed stays in the box while the page does.
LEMMA TypedStays ==
  ASSUME NEW x \in Drawn(Synchronize(box, browser.page)), Typed
  PROVE  /\ x.count = browser.page.count /\ x.committed = PageNumber(browser.page)
         /\ browser.page.count # 0 => x.pending = text
<1> DEFINE y == Synchronize(box, browser.page)
<1>1. y = [pending |-> y.pending, committed |-> PageNumber(browser.page),
           count |-> browser.page.count, editing |-> y.editing]
  BY DEF Synchronize
<1>2. browser.page.count # 0 => y.pending = text
  BY DEF Synchronize, Typed
<1>3. x = y \/ x = [y EXCEPT !.pending = text]
  BY DEF Drawn
<1> HIDE DEF y
<1> QED
  BY <1>1, <1>2, <1>3

\* A frame that ends leaves the members of the box.
LEMMA FinishKeeps ==
  ASSUME NEW b, NEW x \in Drawn(Synchronize(box, b.page))
  PROVE  LET z == FinishFrame(x, TRUE) IN
         /\ z.count = x.count /\ z.committed = x.committed /\ z.pending = x.pending
         /\ x.count # 0 => z.editing
<1> DEFINE y == Synchronize(box, b.page)
<1>1. y = [pending |-> y.pending, committed |-> y.committed,
           count |-> y.count, editing |-> y.editing]
  BY DEF Synchronize
<1>2. x = y \/ x = [y EXCEPT !.pending = text]
  BY DEF Drawn
<1> HIDE DEF y
<1>3. x = [pending |-> x.pending, committed |-> x.committed,
           count |-> x.count, editing |-> x.editing]
  BY <1>1, <1>2
<1> QED
  BY <1>3 DEF FinishFrame

\* A frame of the picker ends on the picker, the slots or the preview.
LEMMA ScreenKept == IInv /\ ScreenInv /\ [Next]_vars => ScreenInv'
<1> SUFFICES ASSUME IInv, ScreenInv, [Next]_vars PROVE ScreenInv'
  OBVIOUS
<1>1. CASE UNCHANGED vars
  BY <1>1 DEF ScreenInv, Typed, vars, storeVars, screenVars, focusVars
<1>2. ASSUME Next
      PROVE  selectedArea' \in Area /\ (drawing' \/ focused' => screen' = "picker")
  <2>1. CASE \E area \in Area : SelectArea(area)
    BY <2>1 DEF SelectArea, ScreenInv, screenVars, focusVars
  <2>2. CASE OpenPicker \/ LeavePreview \/ CloseWindow
    BY <2>2 DEF OpenPicker, LeavePreview, CloseWindow, ScreenInv, screenVars, focusVars
  <2>3. CASE LoadFails \/ \E dir \in Disk : PublishCatalog(dir)
    BY <2>3 DEF LoadFails, PublishCatalog, ScreenInv, screenVars, focusVars
  <2>4. CASE BeginFrame
    BY <2>4 DEF BeginFrame, ScreenInv, screenVars
  <2>5. CASE \/ Draw \/ Filtering \/ ClickPrevious \/ ClickNext \/ ClickCancel
             \/ \E d \in Cards : ClickCard(d)
    <3>1. Gesture(browser.page) \/ Gesture(browser'.page)
      BY <2>5 DEF Draw, Filtering, EnterSearch, ChooseSource, ChooseSection, ClickPrevious,
                  ClickNext, ClickCancel, ClickCard
    <3>2. ~focused /\ focused' = focused /\ drawing' = FALSE /\ selectedArea' = selectedArea
      BY <3>1 DEF Gesture, EndFrame, focusVars
    <3> QED
      BY <3>2, Zenon DEF ScreenInv
  <2>6. CASE KeepFocus \/ LeaveBox \/ \E n \in Number : TypeNumber(n)
    BY <2>6 DEF KeepFocus, LeaveBox, TypeNumber, ScreenInv, screenVars
  <2> QED
    BY <1>2, <2>1, <2>2, <2>3, <2>4, <2>5, <2>6 DEF Next
<1>3. ASSUME Next, screen' = "picker"
      PROVE  Fold[browser'.filter.area] = Fold[selectedArea']
  <2>1. CASE BeginFrame \/ OpenPicker
    <3>1. selectedArea' = selectedArea
      BY <2>1 DEF BeginFrame, OpenPicker, screenVars
    <3>2. browser' = browser /\ OpenPicker => Fold[browser.filter.area] = Fold[selectedArea]
                                              \/ browser'.filter.area = selectedArea
      BY FilterSets DEF OpenPicker, IInv, Good
    <3> QED
      BY <1>3, <2>1, <3>1, <3>2, FiltersMove
  <2>2. CASE ~BeginFrame /\ ~OpenPicker
    <3>1. browser'.filter.area = browser.filter.area
      BY <1>3, <2>2, FiltersMove
    <3>2. screen = "picker" /\ selectedArea' = selectedArea
      BY <1>3, <2>2 DEF Next, PublishCatalog, LoadFails, SelectArea, LeavePreview,
           Draw, Filtering, EnterSearch, ChooseSource, ChooseSection, ClickPrevious,
           ClickNext, ClickCancel, ClickCard, KeepFocus, TypeNumber, LeaveBox, CloseWindow,
           Changed, Gesture, EndFrame, screenVars, ScreenInv
    <3> QED
      BY <3>1, <3>2 DEF ScreenInv
  <2> QED
    BY <2>1, <2>2
<1>4. ASSUME Next, typedHere'
      PROVE  focused' /\ text' # None /\ Typed'
  <2>1. CASE KeepFocus
    <3>1. typedHere /\ text' = text /\ browser' = browser /\ focused'
      BY <1>4, <2>1 DEF KeepFocus
    <3>2. PICK x \in Drawn(Synchronize(box, browser.page)) : box' = FinishFrame(x, TRUE)
      BY <2>1 DEF KeepFocus
    <3> QED
      BY <3>1, <3>2, TypedStays, FinishKeeps DEF ScreenInv, Typed
  <2>2. ASSUME NEW n \in Number, TypeNumber(n)
        PROVE  focused' /\ text' # None /\ Typed'
    <3> DEFINE y == Synchronize(box, browser.page)
               x == [y EXCEPT !.pending = n]
    <3>1. /\ focused' /\ text' = n /\ browser' = browser
          /\ box' = FinishFrame(x, TRUE)
      BY <2>2 DEF TypeNumber
    <3>2. n # None
      BY NumberAssumption, NoneAssumption
    <3>3. y = [pending |-> y.pending, committed |-> PageNumber(browser.page),
               count |-> browser.page.count, editing |-> y.editing]
      BY DEF Synchronize
    <3>4. x = [y EXCEPT !.pending = n]
      OBVIOUS
    <3> HIDE DEF y, x
    <3>5. /\ x.pending = n /\ x.committed = PageNumber(browser.page)
          /\ x.count = browser.page.count
          /\ x = [pending |-> x.pending, committed |-> x.committed,
                  count |-> x.count, editing |-> x.editing]
      BY <3>3, <3>4
    <3>6. /\ box'.count = browser.page.count
          /\ box'.committed = PageNumber(browser.page)
          /\ box'.pending = n
      BY <3>1, <3>5 DEF FinishFrame
    <3>7. box'.count # 0 => box'.editing
      BY <3>1, <3>5, <3>6 DEF FinishFrame
    <3> QED
      BY <3>1, <3>2, <3>6, <3>7 DEF Typed
  <2>3. CASE BeginFrame
    <3>1. /\ typedHere /\ box' = box /\ text' = text /\ focused' = focused
          /\ browser'.page.index = browser.page.index
          /\ browser'.page.count = browser.page.count
      BY <1>4, <2>3 DEF BeginFrame
    <3>2. PageNumber(browser'.page) = PageNumber(browser.page)
      BY <3>1 DEF PageNumber
    <3> QED
      BY <3>1, <3>2 DEF ScreenInv, Typed
  <2>4. CASE \/ LoadFails \/ (\E dir \in Disk : PublishCatalog(dir))
             \/ \E area \in Area : SelectArea(area)
    BY <1>4, <2>4 DEF LoadFails, PublishCatalog, SelectArea, focusVars, ScreenInv, Typed
  <2>5. CASE OpenPicker \/ LeavePreview
    BY <1>4, <2>5 DEF OpenPicker, LeavePreview, focusVars, ScreenInv
  <2>6. CASE \/ Draw \/ Filtering \/ ClickPrevious \/ ClickNext \/ ClickCancel
             \/ \E d \in Cards : ClickCard(d)
    BY <1>4, <2>6
       DEF Draw, Filtering, EnterSearch, ChooseSource, ChooseSection, ClickPrevious,
           ClickNext, ClickCancel, ClickCard, Gesture, EndFrame, focusVars, ScreenInv
  <2>7. CASE LeaveBox \/ CloseWindow
    BY <1>4, <2>7 DEF LeaveBox, CloseWindow
  <2> QED
    BY <1>4, <2>1, <2>2, <2>3, <2>4, <2>5, <2>6, <2>7 DEF Next
<1> QED
  BY <1>1, <1>2, <1>3, <1>4 DEF ScreenInv

\* The screen and the box belong to the page that is shown.
THEOREM ScreenInvariance == Spec => []ScreenInv
<1>1. Init => ScreenInv
  BY DEF Init, ScreenInv
<1> QED
  BY <1>1, ScreenKept, Invariance, PTL DEF Spec

-----------------------------------------------------------------------------
(* What follows from it.                                                   *)

\* What is drawn is what the repository answers to the filters of now
\* (query, lines 142-151).
THEOREM PagesFresh == Spec => []PageFresh
<1>1. IInv => PageFresh
  BY DEF IInv, Fresh, PageFresh
<1> QED
  BY <1>1, Invariance, PTL

\* Filters that are offered never hide all tattoos of an area that has some
\* (reconcileContextualFilters, query and contextualFacets).
THEOREM NoDeadEnds == Spec => []NoDeadEnd
<1>1. IInv => NoDeadEnd
  <2> SUFFICES ASSUME IInv, browser.snapshot # None, browser.filter.search = "",
                      NEW d \in browser.snapshot.entries,
                      Same(browser.filter.area, d.fields.area)
               PROVE  browser.page.matched > 0
    BY DEF NoDeadEnd
  <2> DEFINE entries == browser.snapshot.entries
             f == browser.filter
  <2>1. PICK e \in entries : Matches(f, e)
    <3>1. CASE f.section # ""
      <4>1. PICK t \in FacetSections(entries, f) : Fold[t] = Fold[f.section]
        BY <3>1 DEF IInv, Offered, SectionOffered
      <4>2. PICK e \in entries : /\ Same(f.area, e.fields.area)
                                 /\ f.source \in {"", e.source}
                                 /\ e.fields.section = t
        BY <4>1 DEF FacetSections, SectionTexts
      <4> QED
        BY <4>1, <4>2 DEF Matches, Same
    <3>2. CASE f.section = "" /\ f.source # ""
      <4>1. PICK e \in entries : Same(f.area, e.fields.area) /\ e.source = f.source
        BY <3>2 DEF IInv, Offered, SourceOffered, FacetSources
      <4> QED
        BY <3>2, <4>1 DEF Matches, Same
    <3>3. CASE f.section = "" /\ f.source = ""
      BY <3>3 DEF Matches, Same
    <3> QED
      BY <3>1, <3>2, <3>3
  <2>2. Matching(entries, f) # {}
    BY <2>1 DEF Matching
  <2>3. browser.page = Query(entries, f) /\ WellFormed(entries) /\ f.index \in Nat
    BY DEF IInv, Fitting, Fresh
  <2> HIDE DEF f, entries
  <2> QED
    BY <2>2, <2>3, QueryFits
<1> QED
  BY <1>1, Invariance, PTL

\* The browser implements the cursor: a step keeps the criteria and turns
\* to a page there is, or starts at the first page.
THEOREM ImplementsCursor == Spec => CursorSpec
<1>1. Init => Cursor!Init
  BY DEF Init, Cursor!Init, NoPage
<1>2. IInv /\ [Next]_vars => [Cursor!Next]_(Cursor!vars)
  <2> SUFFICES ASSUME IInv, [Next]_vars PROVE [Cursor!Next]_(Cursor!vars)
    OBVIOUS
  <2>1. CASE UNCHANGED browser
    BY <2>1 DEF Cursor!vars
  <2>2. CASE Renews(browser, browser')
    BY <2>2 DEF Renews, Cursor!Next, Cursor!Renew
  <2>3. CASE Turns(browser, browser')
    BY <2>3 DEF Turns, Alike, Cursor!Next, Cursor!Turn, Cursor!vars
  <2>4. browser' = browser \/ Renews(browser, browser') \/ Turns(browser, browser')
    BY BrowserMoves DEF vars, Moves
  <2> QED
    BY <2>1, <2>2, <2>3, <2>4
<1> QED
  BY <1>1, <1>2, Invariance, PTL DEF Spec, CursorSpec, Cursor!Spec

\* Frames, cards, closing and coming back leave the filters and the page
\* alone, as long as the catalog and the area are the same.
THEOREM BrowsingIsKept == Spec => BrowsingKept
<1>1. IInv /\ [Next]_vars
        => [(/\ \/ BeginFrame \/ Draw \/ ClickCancel \/ OpenPicker \/ LeavePreview
                \/ KeepFocus \/ CloseWindow \/ \E d \in Cards : ClickCard(d)
             /\ browser.snapshot = store /\ browser.filter.area = selectedArea)
             => UNCHANGED browser]_vars
  BY DEF BeginFrame, Refresh, Draw, ClickCancel, OpenPicker, LeavePreview, KeepFocus,
         CloseWindow, ClickCard
<1> QED
  BY <1>1, Invariance, PTL DEF Spec, BrowsingKept

\* A card of the picker is one that the workflow accepts
\* (setArea and render, lines 1502-1506, 218-222).
THEOREM CardsAreCompatible == Spec => []CardsCompatible
<1>1. IInv /\ ScreenInv => CardsCompatible
  <2> SUFFICES ASSUME IInv, ScreenInv, screen = "picker", NEW d \in Cards
               PROVE  Fold[d.fields.area] = Fold[selectedArea]
    BY DEF CardsCompatible
  <2> DEFINE f == browser.filter
             entries == browser.snapshot.entries
             found == Matching(entries, f)
  <2>1. PICK i \in DOMAIN browser.page.entries : d = browser.page.entries[i]
    BY DEF Cards
  <2>2. browser.snapshot # None
    <3>1. DOMAIN NoPage.entries = {}
      BY DEF NoPage
    <3> QED
      BY <2>1, <3>1 DEF IInv, Fresh
  <2>3. browser.page = Query(entries, f) /\ WellFormed(entries) /\ f.index \in Nat
    BY <2>2 DEF IInv, Fitting, Fresh
  <2>4. d \in found
    <3> DEFINE start == browser.page.index * PageSize
    <3> HIDE DEF entries, f
    <3>1. /\ start \in Nat /\ Cardinality(found) \in Nat
          /\ i \in 1 .. PageSize /\ start + i <= Cardinality(found)
          /\ d = Nth(found, start + i - 1)
      BY <2>1, <2>3, PageEntries
    <3> HIDE DEF start
    <3>2. start + i - 1 \in 0 .. Cardinality(found) - 1
      BY <3>1, PageSizeAssumption
    <3>3. found \subseteq entries
      BY DEF Matching
    <3> HIDE DEF found
    <3> QED
      BY <2>3, <3>1, <3>2, <3>3, NthCounts
  <2>5. f.area = "" \/ Fold[d.fields.area] = Fold[f.area]
    BY <2>4 DEF Matching, Matches, Same
  <2>6. Fold[f.area] = Fold[selectedArea] /\ selectedArea \in Text /\ selectedArea # ""
    BY AreaAssumption DEF ScreenInv
  <2>7. f.area # ""
    BY <2>6, TextAssumption
  <2> QED
    BY <2>5, <2>6, <2>7
<1> QED
  BY <1>1, Invariance, ScreenInvariance, PTL

\* Turning through the pages shows every match once (query, lines 140-159).
THEOREM MatchesAreOnOnePage == Spec => []MatchesOnOnePage
<1>1. IInv => MatchesOnOnePage
  <2> DEFINE entries == browser.snapshot.entries
             f == browser.filter
             found == Matching(entries, f)
             count == browser.page.count
             CardsOf(i) == Query(entries, [f EXCEPT !.index = i]).entries
             pages == {[index |-> i, entries |-> CardsOf(i)] : i \in 0 .. count - 1}
             PlacesOf(d) == {q \in pages \X (1 .. PageSize) :
                             q[2] \in DOMAIN q[1].entries /\ q[1].entries[q[2]] = d}
  <2> SUFFICES ASSUME IInv, browser.snapshot # None, NEW d \in found
               PROVE  Cardinality(PlacesOf(d)) = 1
    BY DEF MatchesOnOnePage
  <2>1. /\ browser.page = Query(entries, f) /\ WellFormed(entries) /\ f.index \in Nat
        /\ IsFilter(f)
    BY DEF IInv, Fitting, Fresh
  <2>2. found \subseteq entries /\ PageSize \in Nat \ {0}
    BY PageSizeAssumption DEF Matching
  <2> DEFINE n == Cardinality(found)
             p == Position(found, d)
             a == p \div PageSize
             k == (p % PageSize) + 1
  <2>3. count = PageCount(n) /\ count \in Nat /\ n \in Nat
    <3> HIDE DEF entries, f
    <3> QED
      BY <2>1, QueryFits, PageEntries
  <2>4. ASSUME NEW i \in 0 .. count - 1
        PROVE  /\ i * PageSize \in Nat
               /\ \A j : j \in DOMAIN CardsOf(i)
                           <=> j \in 1 .. PageSize /\ i * PageSize + j <= n
               /\ \A j \in DOMAIN CardsOf(i) : CardsOf(i)[j] = Nth(found, i * PageSize + j - 1)
    <3> DEFINE g == [f EXCEPT !.index = i]
    <3>0. g = [f EXCEPT !.index = i]
      OBVIOUS
    <3> HIDE DEF g
    <3>1. /\ g.search = f.search /\ g.source = f.source /\ g.section = f.section
          /\ g.area = f.area /\ g.index = i
      BY <2>1, <3>0 DEF IsFilter
    <3> HIDE DEF entries, f
    <3>2. Matching(entries, g) = found
      BY <3>1, IndexIgnored
    <3>3. i \in Nat /\ ClampIndex(i, count) = i
      BY <2>3, ClampFits
    <3>4. Query(entries, g).index = i
      BY <2>1, <2>3, <3>1, <3>2, <3>3, QueryFits
    <3>5. CardsOf(i) = Query(entries, g).entries
      BY <3>0
    <3> HIDE DEF CardsOf, found
    <3> QED
      BY <2>1, <3>1, <3>2, <3>3, <3>4, <3>5, PageEntries
  <2> HIDE DEF CardsOf, f
  <2>5. p \in 0 .. n - 1 /\ Nth(found, p) = d
    <3> HIDE DEF found, entries
    <3> QED
      BY <2>1, <2>2, NthCounts
  <2>6. /\ a \in Nat /\ k \in 1 .. PageSize /\ k - 1 \in 0 .. PageSize - 1
        /\ p = a * PageSize + (k - 1) /\ a * PageSize \in Nat
    <3> HIDE DEF p
    <3>1. p \in Nat
      BY <2>3, <2>5
    <3>2. /\ p \div PageSize \in Nat /\ p % PageSize \in 0 .. PageSize - 1
          /\ p = (p \div PageSize) * PageSize + (p % PageSize)
      BY <2>2, <3>1, Division
    <3>3. (p \div PageSize) * PageSize \in Nat
      BY <2>2, <3>2
    <3> QED
      BY <2>2, <3>2, <3>3
  <2>7. a \in 0 .. count - 1
    <3> HIDE DEF p, n
    <3>1. a < count
      BY <2>3, <2>5, PageThere
    <3> HIDE DEF a
    <3> QED
      BY <2>3, <2>6, <3>1
  <2> HIDE DEF a, k, p, n, count
  <2>8. k \in DOMAIN CardsOf(a) /\ CardsOf(a)[k] = d
    <3>1. a * PageSize + k <= n /\ a * PageSize + k - 1 = p
      BY <2>3, <2>5, <2>6, <2>2
    <3> QED
      BY <2>4, <2>5, <2>6, <2>7, <3>1
  <2>9. ASSUME NEW i \in 0 .. count - 1, NEW j \in DOMAIN CardsOf(i), CardsOf(i)[j] = d
        PROVE  i = a /\ j = k
    <3>1. /\ i \in Nat /\ i * PageSize \in Nat /\ j \in 1 .. PageSize
          /\ i * PageSize + j <= n /\ Nth(found, i * PageSize + j - 1) = d
      BY <2>3, <2>4, <2>9
    <3>2. i * PageSize + j - 1 \in 0 .. n - 1
      BY <2>2, <2>3, <3>1
    <3>3. Position(found, d) = i * PageSize + j - 1
      <4> HIDE DEF found, entries
      <4> QED
        BY <2>1, <2>2, <3>1, <3>2, NthCounts DEF n
    <3>4. i * PageSize + (j - 1) = a * PageSize + (k - 1) /\ j - 1 \in 0 .. PageSize - 1
      BY <2>2, <2>6, <3>1, <3>3 DEF p
    <3>5. i = a /\ j - 1 = k - 1
      BY <2>2, <2>6, <3>1, <3>4, OnePlace
    <3> QED
      BY <2>2, <2>6, <3>1, <3>5
  <2>10. PlacesOf(d) = {<<[index |-> a, entries |-> CardsOf(a)], k>>}
    <3>1. <<[index |-> a, entries |-> CardsOf(a)], k>> \in PlacesOf(d)
      BY <2>6, <2>7, <2>8
    <3>2. ASSUME NEW q \in PlacesOf(d)
          PROVE  q = <<[index |-> a, entries |-> CardsOf(a)], k>>
      <4>1. PICK i \in 0 .. count - 1 : q[1] = [index |-> i, entries |-> CardsOf(i)]
        OBVIOUS
      <4>2. q = <<q[1], q[2]>> /\ q[2] \in DOMAIN q[1].entries /\ q[1].entries[q[2]] = d
        OBVIOUS
      <4>3. q[1].entries = CardsOf(i)
        BY <4>1
      <4>4. i = a /\ q[2] = k
        BY <2>9, <4>2, <4>3
      <4> QED
        BY <4>1, <4>2, <4>4
    <3> QED
      BY <3>1, <3>2
  <2> HIDE DEF PlacesOf
  <2> QED
    BY <2>10, FS_Singleton
<1> QED
  BY <1>1, Invariance, PTL

\* A change of the area or the source drops a filter only if it is not
\* offered any more (reconcileContextualFilters).
THEOREM FiltersAreKept == Spec => FiltersKept
<1>1. IInv /\ [Next]_vars
        => [browser'.snapshot = browser.snapshot /\ browser.snapshot # None =>
              LET old == browser.filter  new == browser'.filter
                  entries == browser.snapshot.entries
                  SectionStays(t) == \E u \in FacetSections(entries, new) : Fold[u] = Fold[t]
                  moved == new.area # old.area
              IN  /\ moved /\ old.source \in FacetSources(entries, new)
                       => new.source = old.source
                  /\ (moved \/ new.source # old.source) /\ SectionStays(old.section)
                       => new.section = old.section]_vars
  BY FiltersMove DEF Loyal
<1> QED
  BY <1>1, Invariance, PTL DEF Spec, FiltersKept

\* A number that is typed leads to the page it names, or the nearest one
\* (CatalogBrowserPageInputState and setPageNumber).
THEOREM JumpsLead == Spec => JumpsWhereTyped
<1>1. IInv /\ ScreenInv /\ [Next]_vars
        => [LeaveBox /\ typedHere =>
              browser'.page.index = ClampIndex(IF text > 0 THEN text - 1 ELSE 0,
                                               browser.page.count)]_vars
  <2> SUFFICES ASSUME IInv, ScreenInv, LeaveBox, typedHere
               PROVE  browser'.page.index = ClampIndex(IF text > 0 THEN text - 1 ELSE 0,
                                                       browser.page.count)
    OBVIOUS
  <2>1. Good(browser) /\ Typed /\ text # None /\ text \in Int
    BY DEF IInv, Good, ScreenInv
  <2>2. PICK x \in Drawn(Synchronize(box, browser.page)) :
          browser' = IF text = None \/ x.count = 0 THEN browser
                     ELSE SetPageNumber(browser, IF x.pending > 0 THEN x.pending ELSE 0)
    BY DEF LeaveBox
  <2>3. /\ x.count = browser.page.count
        /\ browser.page.count # 0 => x.pending = text
    BY <2>1, TypedStays
  <2>4. CASE browser.page.count = 0
    <3>1. browser' = browser
      BY <2>2, <2>3, <2>4
    <3>2. browser.page.index = 0
      <4>1. CASE browser.snapshot = None
        BY <2>1, <4>1, NoCatalogNoPage
      <4>2. CASE browser.snapshot # None
        <5>1. browser.page.index = ClampIndex(browser.filter.index, 0)
          BY <2>1, <2>4, <4>2, QueryFits DEF Good, Fresh, Fitting
        <5> QED
          BY <5>1 DEF ClampIndex
      <4> QED
        BY <4>1, <4>2
    <3> QED
      BY <2>4, <3>1, <3>2 DEF ClampIndex
  <2>5. CASE browser.page.count # 0
    <3> DEFINE i == IF text > 0 THEN text - 1 ELSE 0
    <3>1. browser.snapshot # None
      BY <2>1, <2>5, NoCatalogNoPage
    <3>2. browser' = SetPageNumber(browser, IF text > 0 THEN text ELSE 0)
      BY <2>1, <2>2, <2>3, <2>5
    <3>3. i \in Nat /\ i = IF (IF text > 0 THEN text ELSE 0) = 0 THEN 0
                           ELSE (IF text > 0 THEN text ELSE 0) - 1
      BY <2>1
    <3> HIDE DEF i
    <3>4. browser' = TurnTo(browser, i)
      BY <3>2, <3>3 DEF SetPageNumber, TurnTo
    <3>5. browser'.page.index = ClampIndex(i, browser.page.count)
      BY <2>1, <3>1, <3>3, <3>4, TurnStays
    <3> QED
      BY <3>5 DEF i
  <2> QED
    BY <2>4, <2>5
<1> QED
  BY <1>1, Invariance, ScreenInvariance, PTL DEF Spec, JumpsWhereTyped
=============================================================================
