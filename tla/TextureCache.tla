---------------------------- MODULE TextureCache ----------------------------
(***************************************************************************)
(* TextureCache.h: the least recently used textures, as the sequence of    *)
(* their keys with the last one used in front.  Times are left out: the    *)
(* entries a prune finds expired are an argument of it.                    *)
(***************************************************************************)
EXTENDS SequencesExt, Subsequences

\* Mutant: the entry keeps its old place as well.
TouchTwice(cache, key) ==
  IF Contains(cache, key) THEN <<key>> \o cache ELSE cache

\* get: a hit moves to the front.
Touch(cache, key) ==
  IF Contains(cache, key) THEN <<key>> \o Passing(cache, LAMBDA k : k # key)
  ELSE cache

\* getOrLoad after a successful load: the new entry is in front, and the
\* last one goes when there are too many.
Insert(cache, key, capacity) ==
  LET longer == <<key>> \o cache
  IN  IF Len(longer) > capacity THEN Front(longer) ELSE longer

Prune(cache, expired) == Passing(cache, LAMBDA key : key \notin expired)
=============================================================================
