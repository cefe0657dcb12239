---------------------------- MODULE TexturePaths ----------------------------
(***************************************************************************)
(* The names of textures.  The same texture is spelled in several ways:    *)
(* the views go by one normal form (NativeThumbnailController), the cards  *)
(* compare by a second one (OfficialMenuFrameworkAdapter), and files and   *)
(* cache by a third (TextureResolver, TextureManager).                     *)
(*                                                                         *)
(* A path is a sequence of characters, and the path of a resolved texture  *)
(* the sequence of its names, which the code joins by backslashes.         *)
(***************************************************************************)
EXTENDS SequencesExt, Subsequences

CONSTANTS
  Lower,  \* [characters -> characters]: the lower case of each
  None

Character == DOMAIN Lower
Separator == {"/", "\\"}

ASSUME LowerAssumption ==
  /\ Separator \cup {":", "."} \subseteq Character
  /\ \A c \in Character : Lower[c] \in Character /\ Lower[Lower[c]] = Lower[c]
  /\ \A c \in Separator \cup {":", "."} : \A d \in Character : Lower[d] = c <=> d = c

\* canonicalizeTexturePath
CanonicalCharacter(c) == IF c = "\\" THEN "/" ELSE Lower[c]
CanonicalPath(raw) == [i \in DOMAIN raw |-> CanonicalCharacter(raw[i])]

\* equivalentThumbnailPaths of the renderer
EquivalentPaths(r, s) ==
  /\ Len(r) = Len(s)
  /\ \A i \in DOMAIN r : CanonicalCharacter(r[i]) = CanonicalCharacter(s[i])

-----------------------------------------------------------------------------
(* TextureResolver::normalize.                                             *)

\* The path is cut at its separators.
Cuts(raw) == {0, Len(raw) + 1} \cup {i \in DOMAIN raw : raw[i] \in Separator}

Segments(raw) ==
  [n \in 1 .. Cardinality(Cuts(raw)) - 1 |->
     SubSeq(raw, NthOf(Cuts(raw), n) + 1, NthOf(Cuts(raw), n + 1) - 1)]

IsName(segment) == segment \notin {<<>>, <<".">>}

Names(raw) == Passing(Segments(raw), IsName)

\* A path that may lead out of the directory, or leads nowhere.
Refused(raw) ==
  \/ raw = <<>> \/ raw[1] \in Separator \/ Contains(raw, ":")
  \/ Contains(Names(raw), <<".", ".">>) \/ Names(raw) = <<>>

\* TextureManager::normalizePath
CacheKey(raw) ==
  IF Refused(raw) THEN None
  ELSE [i \in DOMAIN Names(raw) |->
          [j \in DOMAIN Names(raw)[i] |-> Lower[Names(raw)[i][j]]]]

-----------------------------------------------------------------------------
(* TextureResolver::resolve: what a loose file and an archive answer.      *)

Answer == {"bytes", "notFound", "readFailed"}

\* Outside the directory (a link) is an answer of the file system only.
LooseAnswer == Answer \cup {"invalidPath"}

\* Whatever keeps a loose file from being read, the archive decides then.
Resolve(path, loose, archive) ==
  IF Refused(path) THEN "invalidPath"
  ELSE IF loose = "bytes" THEN loose ELSE archive

\* mapResolveError
ResolveFailure(answer) == IF answer = "notFound" THEN "missing" ELSE "broken"
=============================================================================
