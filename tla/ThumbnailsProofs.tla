-------------------------- MODULE ThumbnailsProofs --------------------------
(***************************************************************************)
(* The thumbnails, for any pages, spellings and textures, any number of    *)
(* threads and any bounds: lookups and loads in whatever order they end,   *)
(* what waits, what the cards find, and what the cache holds.              *)
(***************************************************************************)
EXTENDS Thumbnails, SubsequencesProofs

LookingUp(c) == call[c].step = "lookup"
Scheduling(c) == call[c].step = "schedule"

\* A thread in the middle of a lookup.
LookupShape(r) ==
  r = [step |-> "lookup", revision |-> r.revision, page |-> r.page,
       device |-> r.device, todo |-> r.todo, found |-> r.found]

\* Every lookup has a revision of its own, the latest is the pending one, and a
\* page that is pending is being looked up.
Lookups ==
  /\ revision \in Nat
  /\ DOMAIN call = Caller
  /\ \A c \in Caller : LookingUp(c) =>
       /\ LookupShape(call[c])
       /\ call[c].revision \in 1 .. revision
       /\ call[c].page # None
       /\ IsLatest(c) => pending = call[c].page
  /\ \A c, d \in Caller :
       LookingUp(c) /\ LookingUp(d) /\ call[c].revision = call[d].revision => c = d
  /\ PendingIsLookedUp

LookupInv == Lookups /\ LastFrameWins

\* A request handed out has one bearer: the thread that schedules it or a task.
LoadInv ==
  /\ DOMAIN call = Caller
  /\ Outstanding = inFlight
  /\ \A t, u \in tasks : t = u
  /\ \A c, d \in Caller : Scheduling(c) /\ Scheduling(d) => c = d
  /\ \A c \in Caller : Scheduling(c) => tasks = {}

-----------------------------------------------------------------------------
(* The names of textures.                                                  *)

\* Folding a character keeps what a path is cut at and judged by.
LEMMA Characters ==
  ASSUME NEW c \in Character
  PROVE  /\ CanonicalCharacter(c) \in Character /\ Lower[c] \in Character
         /\ CanonicalCharacter(CanonicalCharacter(c)) = CanonicalCharacter(c)
         /\ CanonicalCharacter(c) \in Separator <=> c \in Separator
         /\ c \notin Separator => CanonicalCharacter(c) = Lower[c]
         /\ CanonicalCharacter(c) = ":" <=> c = ":"
         /\ Lower[c] = "." <=> c = "."
         /\ Lower[Lower[c]] = Lower[c]
<1>1. /\ "/" \in Character /\ "\\" \in Character
      /\ Lower[c] \in Character /\ Lower[Lower[c]] = Lower[c]
      /\ Lower["/"] = "/" /\ "/" # "\\" /\ ":" # "/" /\ ":" # "\\"
      /\ Lower[c] = "/" <=> c = "/"
      /\ Lower[c] = "\\" <=> c = "\\"
      /\ Lower[c] = ":" <=> c = ":"
      /\ Lower[c] = "." <=> c = "."
  BY LowerAssumption DEF Separator
<1> QED
  BY <1>1 DEF CanonicalCharacter, Separator

\* The lower case of a name.
Lowered(s) == [j \in DOMAIN s |-> Lower[s[j]]]

\* It is a name, and keeps what is skipped and refused.
LEMMA LoweredNames ==
  ASSUME NEW s \in Seq(Character)
  PROVE  /\ Lowered(s) \in Seq(Character) /\ Lowered(Lowered(s)) = Lowered(s)
         /\ Lowered(s) = <<>> <=> s = <<>>
         /\ Lowered(s) = <<".">> <=> s = <<".">>
         /\ Lowered(s) = <<".", ".">> <=> s = <<".", ".">>
<1>1. /\ DOMAIN s = 1 .. Len(s) /\ Len(s) \in Nat
      /\ \A j \in DOMAIN s : s[j] \in Character
  OBVIOUS
<1>2. \A j \in DOMAIN s : /\ Lower[s[j]] \in Character
                          /\ Lower[Lower[s[j]]] = Lower[s[j]]
                          /\ Lower[s[j]] = "." <=> s[j] = "."
  BY <1>1, Characters
<1>3. /\ Lowered(s) \in Seq(Character) /\ Len(Lowered(s)) = Len(s)
      /\ DOMAIN Lowered(s) = DOMAIN s
      /\ \A j \in DOMAIN s : Lowered(s)[j] = Lower[s[j]]
  BY <1>1, <1>2 DEF Lowered
<1>4. Lowered(Lowered(s)) = Lowered(s)
  BY <1>2, <1>3 DEF Lowered
<1>5. Lowered(s) = <<>> <=> s = <<>>
  BY <1>1, <1>3
<1>6. \A t \in Seq(Character) :
        /\ t = <<".">> <=> Len(t) = 1 /\ t[1] = "."
        /\ t = <<".", ".">> <=> Len(t) = 2 /\ t[1] = "." /\ t[2] = "."
  OBVIOUS
<1> QED
  BY <1>1, <1>2, <1>3, <1>4, <1>5, <1>6

\* The form of a path that the views go by, and the cards compare.
LEMMA CanonicalPaths ==
  ASSUME NEW r \in Seq(Character)
  PROVE  LET c == CanonicalPath(r) IN
         /\ c \in Seq(Character) /\ Len(c) = Len(r) /\ DOMAIN c = DOMAIN r
         /\ \A i \in DOMAIN r : c[i] = CanonicalCharacter(r[i])
         /\ \A s \in Seq(Character) : EquivalentPaths(s, c) <=> CanonicalPath(s) = c
<1> DEFINE c == CanonicalPath(r)
<1>1. /\ DOMAIN r = 1 .. Len(r) /\ Len(r) \in Nat
      /\ \A i \in DOMAIN r : r[i] \in Character
  OBVIOUS
<1>2. \A i \in DOMAIN r : /\ CanonicalCharacter(r[i]) \in Character
                          /\ CanonicalCharacter(CanonicalCharacter(r[i]))
                               = CanonicalCharacter(r[i])
  BY <1>1, Characters
<1>3. /\ c \in Seq(Character) /\ Len(c) = Len(r) /\ DOMAIN c = DOMAIN r
      /\ \A i \in DOMAIN r : c[i] = CanonicalCharacter(r[i])
  BY <1>1, <1>2 DEF CanonicalPath
<1> HIDE DEF c
<1>4. ASSUME NEW s \in Seq(Character)
      PROVE  EquivalentPaths(s, c) <=> CanonicalPath(s) = c
  <2>1. /\ DOMAIN CanonicalPath(s) = 1 .. Len(s) /\ DOMAIN s = 1 .. Len(s)
        /\ Len(s) \in Nat /\ Len(CanonicalPath(s)) = Len(s)
        /\ \A i \in DOMAIN s : CanonicalPath(s)[i] = CanonicalCharacter(s[i])
        /\ CanonicalPath(s) = [i \in 1 .. Len(s) |-> CanonicalPath(s)[i]]
    BY DEF CanonicalPath
  <2>2. \A i \in DOMAIN c : CanonicalCharacter(c[i]) = c[i]
    BY <1>2, <1>3
  <2>3. ASSUME EquivalentPaths(s, c)
        PROVE  CanonicalPath(s) = c
    <3>1. Len(s) = Len(c) /\ DOMAIN s = DOMAIN c
      BY <1>1, <1>3, <2>1, <2>3 DEF EquivalentPaths
    <3>2. \A i \in DOMAIN c : CanonicalPath(s)[i] = c[i]
      BY <2>1, <2>2, <2>3, <3>1 DEF EquivalentPaths
    <3>3. c = [i \in 1 .. Len(c) |-> c[i]]
      BY <1>3
    <3> QED
      BY <2>1, <3>1, <3>2, <3>3
  <2>4. ASSUME CanonicalPath(s) = c
        PROVE  EquivalentPaths(s, c)
    <3>1. Len(s) = Len(c)
      BY <2>1, <2>4
    <3> QED
      BY <2>1, <2>2, <2>4, <3>1 DEF EquivalentPaths
  <2> QED
    BY <2>3, <2>4
<1> QED
  BY <1>3, <1>4 DEF c

\* A path and its canonical form are cut at the same places.
LEMMA CutsAreKept ==
  ASSUME NEW r \in Seq(Character)
  PROVE  /\ Cuts(CanonicalPath(r)) = Cuts(r)
         /\ Cuts(r) \in SUBSET Int /\ IsFiniteSet(Cuts(r))
         /\ \A i \in Cuts(r) : i \in 0 .. Len(r) + 1
         /\ \A i \in 1 .. Len(r) : i \notin Cuts(r) => r[i] \notin Separator
<1> DEFINE c == CanonicalPath(r)
<1>1. /\ Len(c) = Len(r) /\ DOMAIN c = DOMAIN r
      /\ \A i \in DOMAIN r : c[i] = CanonicalCharacter(r[i])
  BY CanonicalPaths
<1>2. \A i \in DOMAIN r : r[i] \in Character
  OBVIOUS
<1>3. \A i \in DOMAIN r : c[i] \in Separator <=> r[i] \in Separator
  BY <1>1, <1>2, Characters
<1>4. Cuts(c) = Cuts(r)
  BY <1>1, <1>3 DEF Cuts
<1>5. \A i \in Cuts(r) : i \in 0 .. Len(r) + 1
  BY DEF Cuts
<1>6. IsFiniteSet(0 .. Len(r) + 1)
  BY FS_Interval
<1>7. IsFiniteSet(Cuts(r))
  BY <1>5, <1>6, FS_Subset
<1>8. \A i \in 1 .. Len(r) : i \notin Cuts(r) => r[i] \notin Separator
  BY DEF Cuts
<1> QED
  BY <1>4, <1>5, <1>7, <1>8 DEF c

\* A function on the first numbers is a sequence.
LEMMA SequenceOf ==
  ASSUME NEW X, NEW n \in Nat, NEW s, s = [i \in 1 .. n |-> s[i]],
         \A i \in 1 .. n : s[i] \in X
  PROVE  s \in Seq(X) /\ Len(s) = n
OBVIOUS

\* Its segments differ in case only.
LEMMA SegmentsAreKept ==
  ASSUME NEW r \in Seq(Character)
  PROVE  LET c == CanonicalPath(r) IN
         /\ Segments(r) \in Seq(Seq(Character)) /\ Segments(c) \in Seq(Seq(Character))
         /\ DOMAIN Segments(c) = DOMAIN Segments(r)
         /\ \A n \in DOMAIN Segments(r) : Segments(c)[n] = Lowered(Segments(r)[n])
<1> DEFINE c == CanonicalPath(r)
           I == Cuts(r)
           N == Cardinality(I) - 1
<1>1. /\ c \in Seq(Character) /\ Len(c) = Len(r) /\ DOMAIN c = DOMAIN r
      /\ \A i \in DOMAIN r : c[i] = CanonicalCharacter(r[i])
  BY CanonicalPaths
<1>2. /\ Cuts(c) = I /\ I \in SUBSET Int /\ IsFiniteSet(I)
      /\ \A i \in I : i \in 0 .. Len(r) + 1
      /\ \A i \in 1 .. Len(r) : i \notin I => r[i] \notin Separator
  BY CutsAreKept
<1>3. Segments(r) = [n \in 1 .. N |-> SubSeq(r, NthOf(I, n) + 1, NthOf(I, n + 1) - 1)]
  BY DEF Segments
<1>4. Segments(c) = [n \in 1 .. N |-> SubSeq(c, NthOf(I, n) + 1, NthOf(I, n + 1) - 1)]
  BY <1>2 DEF Segments
<1>5. I # {} /\ 0 \in I
  BY DEF Cuts
<1> HIDE DEF I
<1>6. /\ Cardinality(I) \in Nat
      /\ \A n \in 1 .. Cardinality(I) : NthOf(I, n) \in I
      /\ \A m, n \in 1 .. Cardinality(I) : m < n => NthOf(I, m) < NthOf(I, n)
      /\ \A i \in I : \E n \in 1 .. Cardinality(I) : NthOf(I, n) = i
  BY <1>2, NthOfCounts
<1>7. N \in Nat
  <2>1. Cardinality(I) # 0
    BY <1>2, <1>5, FS_EmptySet
  <2> QED
    BY <1>6, <2>1
<1> HIDE DEF c
<1>8. ASSUME NEW n \in 1 .. N
      PROVE  LET a == NthOf(I, n) + 1
                 b == NthOf(I, n + 1) - 1
             IN  /\ SubSeq(r, a, b) \in Seq(Character) /\ SubSeq(c, a, b) \in Seq(Character)
                 /\ SubSeq(c, a, b) = Lowered(SubSeq(r, a, b))
  <2> DEFINE a == NthOf(I, n) + 1
             b == NthOf(I, n + 1) - 1
  <2>1. n \in 1 .. Cardinality(I) /\ n + 1 \in 1 .. Cardinality(I) /\ n < n + 1 /\ n \in Int
    BY <1>6, <1>7
  <2>2. /\ NthOf(I, n) \in I /\ NthOf(I, n + 1) \in I
        /\ NthOf(I, n) < NthOf(I, n + 1)
    BY <1>6, <2>1
  <2>3. Len(r) \in Nat
    OBVIOUS
  <2>4. NthOf(I, n) \in 0 .. Len(r) + 1 /\ NthOf(I, n + 1) \in 0 .. Len(r) + 1
    BY ONLY <1>2, <2>2
  <2>5. NthOf(I, n) \in 0 .. Len(r) + 1 /\ NthOf(I, n + 1) \in 0 .. Len(r) + 1 /\ Len(r) \in Nat
    BY <2>3, <2>4
  <2>6. a \in Int /\ b \in Int /\ 1 <= a /\ b <= Len(r) /\ a <= b + 1
    BY <2>2, <2>5
  <2>7. \A i \in a .. b : i \notin I
    <3> SUFFICES ASSUME NEW i \in a .. b, i \in I PROVE FALSE
      OBVIOUS
    <3>1. PICK m \in 1 .. Cardinality(I) : NthOf(I, m) = i
      BY <1>6
    <3>2. NthOf(I, n) < NthOf(I, m) /\ NthOf(I, m) < NthOf(I, n + 1)
      BY <2>5, <3>1
    <3>3. ~(m < n) /\ m # n /\ ~(n + 1 < m) /\ m # n + 1
      <4>1. m < n => NthOf(I, m) < NthOf(I, n)
        BY <1>6, <2>1
      <4>2. n + 1 < m => NthOf(I, n + 1) < NthOf(I, m)
        BY <1>6, <2>1
      <4>3. NthOf(I, m) \in Int /\ NthOf(I, n) \in Int /\ NthOf(I, n + 1) \in Int
        BY <1>2, <2>2, <3>1
      <4> QED
        BY <3>2, <4>1, <4>2, <4>3
    <3> QED
      BY <2>1, <3>3
  <2> HIDE DEF a, b
  <2>8. /\ SubSeq(r, a, b) = [j \in 1 .. b - a + 1 |-> r[j + a - 1]]
        /\ SubSeq(c, a, b) = [j \in 1 .. b - a + 1 |-> c[j + a - 1]]
    BY <1>1, <2>6
  <2>9. b - a + 1 \in Nat
    BY <2>6
  <2>10. ASSUME NEW j \in 1 .. b - a + 1
        PROVE  /\ r[j + a - 1] \in Character /\ c[j + a - 1] \in Character
               /\ c[j + a - 1] = Lower[r[j + a - 1]]
    <3>1. j + a - 1 \in a .. b /\ j + a - 1 \in 1 .. Len(r)
      BY <2>6
    <3>2. r[j + a - 1] \notin Separator
      BY <1>2, <2>7, <3>1
    <3>3. r[j + a - 1] \in Character /\ c[j + a - 1] = CanonicalCharacter(r[j + a - 1])
      BY <1>1, <3>1
    <3> QED
      BY <3>2, <3>3, Characters
  <2>11. SubSeq(r, a, b) \in Seq(Character) /\ SubSeq(c, a, b) \in Seq(Character)
    BY <2>8, <2>9, <2>10
  <2>12. SubSeq(c, a, b) = Lowered(SubSeq(r, a, b))
    BY <2>8, <2>10 DEF Lowered
  <2> QED
    BY <2>11, <2>12 DEF a, b
<1>9. \A n \in 1 .. N : /\ Segments(r)[n] \in Seq(Character)
                        /\ Segments(c)[n] \in Seq(Character)
                        /\ Segments(c)[n] = Lowered(Segments(r)[n])
  BY <1>3, <1>4, <1>8
<1>10. DOMAIN Segments(r) = 1 .. N /\ DOMAIN Segments(c) = 1 .. N
  BY <1>3, <1>4
<1>11. /\ Segments(r) = [n \in 1 .. N |-> Segments(r)[n]]
       /\ Segments(c) = [n \in 1 .. N |-> Segments(c)[n]]
  BY <1>3, <1>4
<1> HIDE DEF N
<1>12. Segments(r) \in Seq(Seq(Character)) /\ Segments(c) \in Seq(Seq(Character))
  BY <1>7, <1>9, <1>11, SequenceOf
<1> QED
  BY <1>9, <1>10, <1>12 DEF c

\* Spellings that a view takes for one path name one texture (normalize and
\* normalizePath take apart what canonicalizeTexturePath puts together).
THEOREM KeyIsKept ==
  ASSUME NEW r \in Seq(Character)
  PROVE  /\ Refused(CanonicalPath(r)) <=> Refused(r)
         /\ CacheKey(CanonicalPath(r)) = CacheKey(r)
<1> DEFINE c == CanonicalPath(r)
           s == Segments(r)
           t == Segments(c)
           J == {n \in DOMAIN s : IsName(s[n])}
<1>1. /\ s \in Seq(Seq(Character)) /\ t \in Seq(Seq(Character)) /\ DOMAIN t = DOMAIN s
      /\ \A n \in DOMAIN s : t[n] = Lowered(s[n])
  BY SegmentsAreKept
<1> HIDE DEF s, t
<1>2. \A n \in DOMAIN s : s[n] \in Seq(Character)
  BY <1>1
<1>3. \A n \in DOMAIN s : IsName(t[n]) <=> IsName(s[n])
  BY <1>1, <1>2, LoweredNames DEF IsName
<1>4. Names(r) = At(s, J) /\ Names(c) = At(t, J)
  BY <1>1, <1>3 DEF Names, Passing, s, t
<1>5. J \in SUBSET DOMAIN s
  OBVIOUS
<1> HIDE DEF J
<1>6. /\ DOMAIN At(s, J) = 1 .. Cardinality(J) /\ Cardinality(J) \in Nat
      /\ At(s, J) \in Seq(Seq(Character))
      /\ \A n \in DOMAIN At(s, J) : NthOf(J, n) \in J /\ At(s, J)[n] = s[NthOf(J, n)]
  BY <1>1, <1>5, AtElements
<1>7. /\ DOMAIN At(t, J) = 1 .. Cardinality(J)
      /\ At(t, J) \in Seq(Seq(Character))
      /\ \A n \in DOMAIN At(t, J) : At(t, J)[n] = t[NthOf(J, n)]
  BY <1>1, <1>5, AtElements
<1>8. /\ DOMAIN Names(c) = DOMAIN Names(r) /\ Len(Names(c)) = Len(Names(r))
      /\ \A n \in DOMAIN Names(r) : /\ Names(r)[n] \in Seq(Character)
                                    /\ Names(c)[n] = Lowered(Names(r)[n])
  BY <1>1, <1>2, <1>4, <1>5, <1>6, <1>7
<1>9. Names(c) \in Seq(Seq(Character)) /\ Names(r) \in Seq(Seq(Character))
  BY <1>4, <1>6, <1>7
<1>10. /\ Contains(Names(c), <<".", ".">>) <=> Contains(Names(r), <<".", ".">>)
       /\ Names(c) = <<>> <=> Names(r) = <<>>
  <2>1. \A n \in DOMAIN Names(r) :
          Names(c)[n] = <<".", ".">> <=> Names(r)[n] = <<".", ".">>
    BY <1>8, LoweredNames
  <2>2. DOMAIN Names(r) = 1 .. Len(Names(r)) /\ DOMAIN Names(c) = 1 .. Len(Names(r))
    BY <1>8, <1>9
  <2>3. Contains(Names(c), <<".", ".">>) <=> Contains(Names(r), <<".", ".">>)
    BY <1>8, <2>1, <2>2 DEF Contains
  <2>4. Names(c) = <<>> <=> Names(r) = <<>>
    BY <1>8, <1>9
  <2> QED
    BY <2>3, <2>4
<1>11. /\ c = <<>> <=> r = <<>>
       /\ r # <<>> => (c[1] \in Separator <=> r[1] \in Separator)
       /\ Contains(c, ":") <=> Contains(r, ":")
  <2>1. /\ c \in Seq(Character) /\ Len(c) = Len(r) /\ DOMAIN r = 1 .. Len(r)
        /\ \A i \in DOMAIN r : c[i] = CanonicalCharacter(r[i]) /\ r[i] \in Character
    BY CanonicalPaths
  <2> HIDE DEF c
  <2>2. \A i \in DOMAIN r : /\ c[i] \in Separator <=> r[i] \in Separator
                            /\ c[i] = ":" <=> r[i] = ":"
    BY <2>1, Characters
  <2>3. r # <<>> => 1 \in DOMAIN r
    BY <2>1
  <2>4. c = <<>> <=> r = <<>>
    BY <2>1
  <2>5. Contains(c, ":") <=> Contains(r, ":")
    BY <2>1, <2>2 DEF Contains
  <2> QED
    BY <2>2, <2>3, <2>4, <2>5
<1>12. Refused(c) <=> Refused(r)
  BY <1>10, <1>11 DEF Refused
<1>13. \A n \in DOMAIN Names(r) : Lowered(Names(c)[n]) = Lowered(Names(r)[n])
  BY <1>8, LoweredNames
<1>14. \A p : CacheKey(p) = IF Refused(p) THEN None
                           ELSE [n \in DOMAIN Names(p) |-> Lowered(Names(p)[n])]
  BY DEF CacheKey, Lowered
<1>15. [n \in DOMAIN Names(c) |-> Lowered(Names(c)[n])]
         = [n \in DOMAIN Names(r) |-> Lowered(Names(r)[n])]
  BY <1>8, <1>13
<1> QED
  BY <1>12, <1>14, <1>15 DEF c

-----------------------------------------------------------------------------
(* Threads.                                                                *)

\* A thread goes on; the others stay where they are.
LEMMA GoesOn ==
  ASSUME DOMAIN call = Caller, NEW c \in Caller, NEW step, Goes(c, step)
  PROVE  /\ DOMAIN call' = Caller
         /\ call'[c] = [step |-> step]
         /\ \A d \in Caller : d # c => call'[d] = call[d]
BY DEF Goes

\* A step that leaves lookups and pages alone keeps what is known of them.
LEMMA LookupsStand ==
  ASSUME LookupInv, UNCHANGED <<revision, pending, shown>>,
         asked' \in {asked, None},
         DOMAIN call' = Caller,
         \A c \in Caller : LookingUp(c)' \/ LookingUp(c) => call'[c] = call[c]
  PROVE  LookupInv'
<1>1. \A c \in Caller : LookingUp(c)' = LookingUp(c)
  BY DEF LookingUp
<1>2. LastFrameWins'
  BY DEF LookupInv, LastFrameWins, PageOf
<1>3. PendingIsLookedUp'
  BY <1>1 DEF LookupInv, Lookups, PendingIsLookedUp, IsLatest, LookingUp
<1>4. \A c \in Caller : LookingUp(c)' =>
        /\ LookupShape(call[c])'
        /\ call'[c].revision \in 1 .. revision'
        /\ call'[c].page # None
        /\ IsLatest(c)' => pending' = call'[c].page
  BY <1>1 DEF LookupInv, Lookups, IsLatest, LookupShape
<1>5. \A c, d \in Caller :
        LookingUp(c)' /\ LookingUp(d)' /\ call'[c].revision = call'[d].revision
          => c = d
  BY <1>1 DEF LookupInv, Lookups
<1> QED
  BY <1>2, <1>3, <1>4, <1>5 DEF LookupInv, Lookups

\* The revision grows: no lookup under way is the latest any more.
LEMMA LookupsSuperseded ==
  ASSUME LookupInv, revision' = revision + 1, pending' = None,
         LastFrameWins', NEW c \in Caller, ~LookingUp(c)', DOMAIN call' = Caller,
         \A d \in Caller : d # c => call'[d] = call[d]
  PROVE  LookupInv'
<1>1. \A d \in Caller : LookingUp(d)' => LookingUp(d) /\ call'[d] = call[d] /\ d # c
  BY DEF LookingUp
<1>2. revision \in Nat
  BY DEF LookupInv, Lookups
<1>3. \A d \in Caller : LookingUp(d)' =>
        LookupShape(call[d])' /\ call'[d].revision \in 1 .. revision /\ call'[d].page # None
  BY <1>1 DEF LookupInv, Lookups, LookupShape
<1>4. \A d \in Caller : LookingUp(d)' => ~IsLatest(d)'
  BY <1>2, <1>3 DEF IsLatest
<1>5. \A d, e \in Caller :
        LookingUp(d)' /\ LookingUp(e)' /\ call'[d].revision = call'[e].revision
          => d = e
  BY <1>1 DEF LookupInv, Lookups
<1>6. \A d \in Caller : LookingUp(d)' => call'[d].revision \in 1 .. revision'
  BY <1>2, <1>3
<1>7. PendingIsLookedUp'
  BY DEF PendingIsLookedUp
<1> QED
  BY <1>2, <1>3, <1>4, <1>5, <1>6, <1>7 DEF LookupInv, Lookups

-----------------------------------------------------------------------------
(* Lookups.                                                                *)

\* A frame that finds its page shown or pending, or starts a lookup.
LEMMA SynchronizeKeeps ==
  ASSUME LookupInv, NEW c \in Caller, Synchronize(c)
  PROVE  LookupInv'
<1>1. PICK f \in Drawing :
        /\ \/ SamePage(c, PageOf(f)) \/ SamePending(c, PageOf(f))
           \/ StartLookup(c, PageOf(f))
        /\ asked' = f
  BY DEF Synchronize
<1> DEFINE page == PageOf(f)
<1>2. page \in Page /\ page # None /\ page = PageOf(asked')
  BY <1>1, NoneAssumption DEF Page
<1>3. DOMAIN call = Caller /\ ~LookingUp(c) /\ revision \in Nat
  BY DEF LookupInv, Lookups, Synchronize, LookingUp
<1> HIDE DEF page
<1>4. CASE SamePage(c, page)
  <2>1. Goes(c, "pump")
    BY <1>4 DEF SamePage
  <2>2. /\ DOMAIN call' = Caller /\ call'[c] = [step |-> "pump"]
        /\ \A d \in Caller : d # c => call'[d] = call[d]
    BY <2>1, <1>3, GoesOn
  <2>3. shown' = page
    BY <1>4 DEF SamePage
  <2>4. CASE pending \in {None, page}
    <3>1. pending' = pending /\ revision' = revision
      BY <1>4, <2>4 DEF SamePage
    <3>2. LastFrameWins'
      BY <1>2, <2>3, <2>4, <3>1 DEF LastFrameWins, PageOf
    <3>3. \A d \in Caller : LookingUp(d)' = LookingUp(d)
                            /\ (LookingUp(d) => call'[d] = call[d])
      BY <2>2, <1>3 DEF LookingUp
    <3>4. PendingIsLookedUp'
      BY <3>1, <3>3 DEF LookupInv, Lookups, PendingIsLookedUp, IsLatest, LookingUp
    <3>5. \A d \in Caller : LookingUp(d)' =>
            /\ LookupShape(call[d])'
            /\ call'[d].revision \in 1 .. revision'
            /\ call'[d].page # None
            /\ IsLatest(d)' => pending' = call'[d].page
      BY <3>1, <3>3 DEF LookupInv, Lookups, IsLatest, LookupShape
    <3>6. \A d, e \in Caller :
            LookingUp(d)' /\ LookingUp(e)' /\ call'[d].revision = call'[e].revision
              => d = e
      BY <3>3 DEF LookupInv, Lookups
    <3> QED
      BY <2>2, <3>1, <3>2, <3>4, <3>5, <3>6 DEF LookupInv, Lookups
  <2>5. CASE pending \notin {None, page}
    <3>1. pending' = None /\ revision' = revision + 1
      BY <1>4, <2>5 DEF SamePage
    <3>2. LastFrameWins'
      BY <1>2, <2>3, <3>1 DEF LastFrameWins, PageOf
    <3>3. ~LookingUp(c)'
      BY <2>2 DEF LookingUp
    <3> QED
      BY <2>2, <3>1, <3>2, <3>3, LookupsSuperseded
  <2> QED
    BY <2>4, <2>5
<1>5. CASE SamePending(c, page)
  <2>1. Goes(c, "pump") /\ pending = page /\ UNCHANGED <<shown, pending, revision>>
    BY <1>5 DEF SamePending, pageVars
  <2>2. /\ DOMAIN call' = Caller /\ call'[c] = [step |-> "pump"]
        /\ \A d \in Caller : d # c => call'[d] = call[d]
    BY <2>1, <1>3, GoesOn
  <2>3. LastFrameWins'
    BY <1>2, <2>1 DEF LastFrameWins, PageOf
  <2>4. \A d \in Caller : LookingUp(d)' = LookingUp(d)
                          /\ (LookingUp(d) => call'[d] = call[d])
    BY <2>2, <1>3 DEF LookingUp
  <2>5. PendingIsLookedUp'
    BY <2>1, <2>4 DEF LookupInv, Lookups, PendingIsLookedUp, IsLatest, LookingUp
  <2>6. \A d \in Caller : LookingUp(d)' =>
          /\ LookupShape(call[d])'
          /\ call'[d].revision \in 1 .. revision'
          /\ call'[d].page # None
          /\ IsLatest(d)' => pending' = call'[d].page
    BY <2>1, <2>4 DEF LookupInv, Lookups, IsLatest, LookupShape
  <2>7. \A d, e \in Caller :
          LookingUp(d)' /\ LookingUp(e)' /\ call'[d].revision = call'[e].revision
            => d = e
    BY <2>4 DEF LookupInv, Lookups
  <2> QED
    BY <2>1, <2>2, <2>3, <2>5, <2>6, <2>7, <1>3 DEF LookupInv, Lookups
<1>6. CASE StartLookup(c, page)
  <2>1. /\ revision' = revision + 1 /\ pending' = page
        /\ call' = [call EXCEPT ![c] =
             [step |-> "lookup", revision |-> revision + 1, page |-> page,
              device |-> device, todo |-> page.paths, found |-> {}]]
    BY <1>6 DEF StartLookup
  <2>2. /\ DOMAIN call' = Caller
        /\ \A d \in Caller : d # c => call'[d] = call[d]
        /\ call'[c] = [step |-> "lookup", revision |-> revision + 1, page |-> page,
                       device |-> device, todo |-> page.paths, found |-> {}]
    BY <2>1, <1>3
  <2>3. /\ LookingUp(c)' /\ LookupShape(call[c])'
        /\ call'[c].revision = revision' /\ call'[c].page = page
    BY <2>1, <2>2 DEF LookingUp, LookupShape
  <2>4. \A d \in Caller : LookingUp(d)' /\ d # c =>
          /\ LookingUp(d) /\ LookupShape(call[d])'
          /\ call'[d].revision \in 1 .. revision /\ call'[d].page # None
    BY <2>2 DEF LookupInv, Lookups, LookingUp, LookupShape
  <2>5. LastFrameWins'
    BY <1>2, <2>1 DEF LastFrameWins, PageOf
  <2>6. PendingIsLookedUp'
    BY <2>1, <2>3 DEF PendingIsLookedUp, IsLatest, LookingUp
  <2>7. \A d \in Caller : LookingUp(d)' =>
          /\ LookupShape(call[d])'
          /\ call'[d].revision \in 1 .. revision'
          /\ call'[d].page # None
          /\ IsLatest(d)' => pending' = call'[d].page
    BY <1>2, <1>3, <2>1, <2>3, <2>4 DEF IsLatest
  <2>8. ASSUME NEW d \in Caller, NEW e \in Caller, LookingUp(d)', LookingUp(e)',
               call'[d].revision = call'[e].revision
        PROVE  d = e
    <3>1. CASE d # c /\ e # c
      BY <2>2, <2>4, <2>8, <3>1 DEF LookupInv, Lookups
    <3>2. CASE d = c \/ e = c
      BY <1>3, <2>1, <2>3, <2>4, <2>8, <3>2
    <3> QED
      BY <3>1, <3>2
  <2> QED
    BY <1>3, <2>1, <2>2, <2>5, <2>6, <2>7, <2>8 DEF LookupInv, Lookups
<1> QED
  BY <1>1, <1>4, <1>5, <1>6 DEF page

\* A path is looked up.
LEMMA LookupKeeps ==
  ASSUME LookupInv, NEW c \in Caller, Lookup(c)
  PROVE  LookupInv'
<1>1. /\ DOMAIN call = Caller /\ LookingUp(c) /\ LookupShape(call[c])
      /\ UNCHANGED <<revision, pending, shown, asked>>
  BY DEF LookupInv, Lookups, Lookup, LookingUp, pageVars
<1>2. PICK found : call' = [call EXCEPT ![c].todo = Tail(@), ![c].found = found]
  BY DEF Lookup
<1>3. DOMAIN call' = Caller /\ \A d \in Caller : d # c => call'[d] = call[d]
  BY <1>1, <1>2
<1>4. call'[c] = [[call[c] EXCEPT !.todo = Tail(@)] EXCEPT !.found = found]
  BY <1>1, <1>2
<1>5. /\ call'[c].step = "lookup" /\ call'[c].revision = call[c].revision
      /\ call'[c].page = call[c].page /\ LookupShape(call'[c])
  BY <1>1, <1>4 DEF LookupShape, LookingUp
<1>6. \A d \in Caller : /\ LookingUp(d)' = LookingUp(d)
                        /\ call'[d].revision = call[d].revision \/ ~LookingUp(d)
                        /\ call'[d].page = call[d].page \/ ~LookingUp(d)
                        /\ LookupShape(call'[d]) \/ ~LookingUp(d)
  BY <1>1, <1>3, <1>5 DEF LookingUp, LookupInv, Lookups
<1>7. LastFrameWins'
  BY <1>1 DEF LookupInv, LastFrameWins, PageOf
<1>8. PendingIsLookedUp'
  BY <1>1, <1>6 DEF LookupInv, Lookups, PendingIsLookedUp, IsLatest, LookingUp
<1>9. \A d \in Caller : LookingUp(d)' =>
        /\ LookupShape(call[d])'
        /\ call'[d].revision \in 1 .. revision'
        /\ call'[d].page # None
        /\ IsLatest(d)' => pending' = call'[d].page
  BY <1>1, <1>6 DEF LookupInv, Lookups, IsLatest
<1>10. \A d, e \in Caller :
         LookingUp(d)' /\ LookingUp(e)' /\ call'[d].revision = call'[e].revision
           => d = e
  BY <1>6 DEF LookupInv, Lookups
<1> QED
  BY <1>1, <1>3, <1>7, <1>8, <1>9, <1>10 DEF LookupInv, Lookups

\* A lookup ends or is given up: if it was the latest, nobody else's is.
LEMMA LookupEnds ==
  ASSUME LookupInv, NEW c \in Caller, LookingUp(c), UNCHANGED revision,
         NEW step, step # "lookup", Goes(c, step),
         IF IsLatest(c) THEN pending' = None ELSE UNCHANGED pending,
         LastFrameWins'
  PROVE  LookupInv'
<1>1. DOMAIN call = Caller /\ revision \in Nat
  BY DEF LookupInv, Lookups
<1>2. /\ DOMAIN call' = Caller /\ call'[c] = [step |-> step]
      /\ \A d \in Caller : d # c => call'[d] = call[d]
  BY <1>1, GoesOn
<1>3. \A d \in Caller : LookingUp(d)' => d # c /\ LookingUp(d) /\ call'[d] = call[d]
  BY <1>2 DEF LookingUp
<1>4. \A d \in Caller : LookingUp(d)' =>
        /\ LookupShape(call[d])'
        /\ call'[d].revision \in 1 .. revision'
        /\ call'[d].page # None
  BY <1>3 DEF LookupInv, Lookups, LookupShape
<1>5. \A d, e \in Caller :
        LookingUp(d)' /\ LookingUp(e)' /\ call'[d].revision = call'[e].revision
          => d = e
  BY <1>3 DEF LookupInv, Lookups
<1>6. CASE IsLatest(c)
  <2>1. \A d \in Caller : LookingUp(d)' => ~IsLatest(d)'
    BY <1>3, <1>6 DEF LookupInv, Lookups, IsLatest
  <2>2. PendingIsLookedUp'
    BY <1>6 DEF PendingIsLookedUp
  <2> QED
    BY <1>1, <1>2, <1>4, <1>5, <2>1, <2>2 DEF LookupInv, Lookups
<1>7. CASE ~IsLatest(c)
  <2>1. \A d \in Caller : LookingUp(d)' /\ IsLatest(d)' => pending' = call'[d].page
    BY <1>3, <1>7 DEF LookupInv, Lookups, IsLatest
  <2>2. PendingIsLookedUp'
    <3>1. SUFFICES ASSUME pending # None PROVE PendingIsLookedUp'
      BY <1>7 DEF PendingIsLookedUp
    <3>2. PICK d \in Caller : LookingUp(d) /\ IsLatest(d) /\ call[d].page = pending
      BY <3>1 DEF LookupInv, Lookups, PendingIsLookedUp, LookingUp
    <3>3. d # c /\ call'[d] = call[d]
      BY <1>2, <1>7, <3>2
    <3> QED
      BY <1>7, <3>2, <3>3 DEF PendingIsLookedUp, IsLatest, LookingUp
  <2> QED
    BY <1>1, <1>2, <1>4, <1>5, <2>1, <2>2 DEF LookupInv, Lookups
<1> QED
  BY <1>6, <1>7

\* Every step of the system keeps the order of the lookups.
LEMMA LookupStep == LookupInv /\ [Next]_vars => LookupInv'
<1> SUFFICES ASSUME LookupInv, [Next]_vars PROVE LookupInv'
  OBVIOUS
<1>1. DOMAIN call = Caller
  BY DEF LookupInv, Lookups
<1>2. ASSUME NEW c \in Caller, Synchronize(c) PROVE LookupInv'
  BY <1>2, SynchronizeKeeps
<1>3. ASSUME NEW c \in Caller, Lookup(c) PROVE LookupInv'
  BY <1>3, LookupKeeps
<1>4. ASSUME NEW c \in Caller, EndLookup(c) PROVE LookupInv'
  <2>1. LookingUp(c) /\ Goes(c, "pump") /\ UNCHANGED <<revision, asked>>
    BY <1>4 DEF EndLookup, LookingUp
  <2>2. CASE IsLatest(c)
    <3>1. pending' = None /\ shown' = call[c].page
      BY <1>4, <2>2 DEF EndLookup, Publish
    <3>2. pending = call[c].page /\ pending # None
      BY <2>1, <2>2 DEF LookupInv, Lookups
    <3>3. LastFrameWins'
      BY <2>1, <3>1, <3>2 DEF LookupInv, LastFrameWins, PageOf
    <3> QED
      BY <2>1, <2>2, <3>1, <3>3, LookupEnds
  <2>3. CASE ~IsLatest(c)
    <3>1. UNCHANGED <<pending, shown>>
      BY <1>4, <2>3 DEF EndLookup
    <3>2. LastFrameWins'
      BY <2>1, <3>1 DEF LookupInv, LastFrameWins, PageOf
    <3> QED
      BY <2>1, <2>3, <3>1, <3>2, LookupEnds
  <2> QED
    BY <2>2, <2>3
<1>5. ASSUME NEW c \in Caller, LookupThrows(c) PROVE LookupInv'
  <2>1. LookingUp(c) /\ Goes(c, "idle") /\ UNCHANGED <<revision, shown>> /\ GiveUp(c)
    BY <1>5 DEF LookupThrows, LookingUp
  <2>2. LastFrameWins'
    BY <2>1 DEF GiveUp, LookupInv, LastFrameWins, PageOf
  <2> QED
    BY <2>1, <2>2, LookupEnds DEF GiveUp
<1>6. ASSUME NEW c \in Caller, Clear(c) PROVE LookupInv'
  <2>1. /\ Goes(c, "clearSource") /\ pending' = None /\ revision' = revision + 1
        /\ asked' = None
    BY <1>6 DEF Clear
  <2>2. /\ DOMAIN call' = Caller /\ call'[c] = [step |-> "clearSource"]
        /\ \A d \in Caller : d # c => call'[d] = call[d]
    BY <1>1, <2>1, GoesOn
  <2>3. LastFrameWins'
    BY <2>1 DEF LastFrameWins
  <2>4. ~LookingUp(c)'
    BY <2>2 DEF LookingUp
  <2> QED
    BY <2>1, <2>2, <2>3, <2>4, LookupsSuperseded
<1>7. ASSUME NEW c \in Caller,
             PumpPrunes(c) \/ TakesNothing(c) \/ TakeNextRequest(c)
               \/ SchedulerAccepts(c) \/ SchedulerThrows(c) \/ ClearSource(c)
      PROVE  LookupInv'
  <2>1. UNCHANGED <<revision, pending, shown, asked>> /\ ~LookingUp(c)
    BY <1>7 DEF PumpPrunes, TakesNothing, TakeNextRequest, SchedulerAccepts,
           SchedulerThrows, ClearSource, pageVars, LookingUp
  <2>2. \/ \E step \in {"idle", "take"} : Goes(c, step)
        \/ \E r : call' = [call EXCEPT ![c] = [step |-> "schedule", request |-> r]]
    BY <1>7 DEF PumpPrunes, TakesNothing, TakeNextRequest, SchedulerAccepts,
           SchedulerThrows, ClearSource
  <2>3. /\ DOMAIN call' = Caller /\ ~LookingUp(c)'
        /\ \A d \in Caller : d # c => call'[d] = call[d]
    BY <1>1, <2>2 DEF Goes, LookingUp
  <2> QED
    BY <2>1, <2>3, LookupsStand
<1>8. ASSUME NEW t \in tasks, Load(t) PROVE LookupInv'
  <2>1. UNCHANGED <<revision, pending, shown, asked, call>>
    BY <1>8 DEF Load, LoadBegins, LoadFinds, LoadResolves, LoadLocks, LoadUploads,
           LoadCompletes, LoadUnchanged, pageVars
  <2> QED
    BY <1>1, <2>1, LookupsStand
<1>9. CASE RetryDeviceUnavailable \/ DeviceChanges \/ UNCHANGED vars
  <2>1. UNCHANGED <<revision, pending, shown, asked, call>>
    BY <1>9 DEF RetryDeviceUnavailable, DeviceChanges, pageVars, vars
  <2> QED
    BY <1>1, <2>1, LookupsStand
<1> QED
  BY <1>2, <1>3, <1>4, <1>5, <1>6, <1>7, <1>8, <1>9 DEF Next, Draw

-----------------------------------------------------------------------------
(* Loads.                                                                  *)

\* A request that is in flight is the one a bearer of it answers.
LEMMA BearersAreInFlight ==
  ASSUME LoadInv
  PROVE  /\ \A t \in tasks : t.request \in inFlight /\ tasks = {t}
         /\ \A c \in Caller : Scheduling(c) =>
              call[c].request \in inFlight /\ tasks = {}
         /\ \A r \in inFlight : InFlight(r)
<1>1. \A t \in tasks : t.request \in Outstanding /\ tasks = {t}
  BY DEF LoadInv, Outstanding
<1>2. \A c \in Caller : Scheduling(c) => call[c].request \in Outstanding /\ tasks = {}
  BY DEF LoadInv, Outstanding, Scheduling
<1>3. \A r \in inFlight : InFlight(r)
  BY DEF InFlight, SameRequest
<1> QED
  BY <1>1, <1>2, <1>3 DEF LoadInv

\* With at most one bearer, what is outstanding is what it bears.
LEMMA Bearer ==
  ASSUME LoadInv
  PROVE  /\ \A t \in tasks : Outstanding = {t.request}
         /\ \A c \in Caller : Scheduling(c) => Outstanding = {call[c].request}
         /\ tasks = {} /\ (\A c \in Caller : ~Scheduling(c)) => Outstanding = {}
<1>1. ASSUME NEW t \in tasks PROVE Outstanding = {t.request}
  <2>1. tasks = {t} /\ \A c \in Caller : ~Scheduling(c)
    BY <1>1 DEF LoadInv
  <2> QED
    BY <2>1 DEF Outstanding, Scheduling
<1>2. ASSUME NEW c \in Caller, Scheduling(c) PROVE Outstanding = {call[c].request}
  <2>1. tasks = {} /\ \A d \in Caller : Scheduling(d) => d = c
    BY <1>2 DEF LoadInv
  <2> QED
    BY <1>2, <2>1 DEF Outstanding, Scheduling
<1>3. tasks = {} /\ (\A c \in Caller : ~Scheduling(c)) => Outstanding = {}
  BY DEF Outstanding, Scheduling
<1> QED
  BY <1>1, <1>2, <1>3

\* A thread that schedules nothing before or after a step changes nothing.
LEMMA LoadsStand ==
  ASSUME LoadInv, UNCHANGED <<tasks, inFlight>>, DOMAIN call' = Caller,
         \A c \in Caller : Scheduling(c)' \/ Scheduling(c) => call'[c] = call[c]
  PROVE  LoadInv'
<1>1. \A c \in Caller : Scheduling(c)' = Scheduling(c)
  BY DEF Scheduling
<1>2. Outstanding' = Outstanding
  BY <1>1 DEF Outstanding, Scheduling
<1> QED
  BY <1>1, <1>2 DEF LoadInv

\* A task moves on with its request.
LEMMA TaskMoves ==
  ASSUME LoadInv, NEW t \in tasks, NEW u, u.request = t.request,
         tasks' = (tasks \ {t}) \cup {u}, UNCHANGED <<inFlight, call>>
  PROVE  LoadInv'
<1>1. tasks = {t} /\ \A c \in Caller : ~Scheduling(c)
  BY DEF LoadInv
<1>2. tasks' = {u} /\ \A c \in Caller : ~Scheduling(c)'
  BY <1>1 DEF Scheduling
<1>3. Outstanding' = {t.request}
  BY <1>2 DEF Outstanding, Scheduling
<1>4. Outstanding = {t.request}
  BY Bearer
<1> QED
  BY <1>2, <1>3, <1>4 DEF LoadInv, Scheduling

\* The request in flight is answered.
LEMMA Completes ==
  ASSUME NEW request, NEW result, InFlight(request), Complete(request, result)
  PROVE  inFlight' = {}
BY DEF Complete

\* Every step of the system keeps at most one bearer.
LEMMA LoadStep == LoadInv /\ [Next]_vars => LoadInv'
<1> SUFFICES ASSUME LoadInv, [Next]_vars PROVE LoadInv'
  OBVIOUS
<1>1. DOMAIN call = Caller
  BY DEF LoadInv
<1>2. ASSUME NEW c \in Caller, Synchronize(c) PROVE LoadInv'
  <2>1. UNCHANGED <<tasks, inFlight>> /\ ~Scheduling(c)
    BY <1>2 DEF Synchronize, workVars, Scheduling
  <2>2. \/ Goes(c, "pump")
        \/ \E r : r.step = "lookup" /\ call' = [call EXCEPT ![c] = r]
    BY <1>2 DEF Synchronize, SamePage, SamePending, StartLookup
  <2>3. /\ DOMAIN call' = Caller /\ ~Scheduling(c)'
        /\ \A d \in Caller : d # c => call'[d] = call[d]
    BY <1>1, <2>2 DEF Goes, Scheduling
  <2> QED
    BY <2>1, <2>3, LoadsStand
<1>3. ASSUME NEW c \in Caller, Lookup(c) PROVE LoadInv'
  <2>1. UNCHANGED <<tasks, inFlight>> /\ call[c].step = "lookup" /\ ~Scheduling(c)
    BY <1>3 DEF Lookup, workVars, Scheduling
  <2>2. PICK found : call' = [call EXCEPT ![c].todo = Tail(@), ![c].found = found]
    BY <1>3 DEF Lookup
  <2>3. /\ DOMAIN call' = Caller
        /\ \A d \in Caller : d # c => call'[d] = call[d]
        /\ call'[c] = [[call[c] EXCEPT !.todo = Tail(@)] EXCEPT !.found = found]
    BY <1>1, <2>2
  <2>4. ~Scheduling(c)'
    BY <2>1, <2>3 DEF Scheduling
  <2> QED
    BY <2>1, <2>3, <2>4, LoadsStand
<1>4. ASSUME NEW c \in Caller,
             EndLookup(c) \/ LookupThrows(c) \/ PumpPrunes(c) \/ TakesNothing(c)
               \/ Clear(c) \/ ClearSource(c)
      PROVE  LoadInv'
  <2>1. UNCHANGED <<tasks, inFlight>> /\ ~Scheduling(c)
    BY <1>4 DEF EndLookup, Publish, LookupThrows, PumpPrunes, TakesNothing, Clear,
           KeepInFlight, ClearSource, workVars, Scheduling
  <2>2. \E step \in {"idle", "pump", "take", "clearSource"} : Goes(c, step)
    BY <1>4 DEF EndLookup, LookupThrows, PumpPrunes, TakesNothing, Clear, ClearSource
  <2>3. /\ DOMAIN call' = Caller /\ ~Scheduling(c)'
        /\ \A d \in Caller : d # c => call'[d] = call[d]
    BY <1>1, <2>2 DEF Goes, Scheduling
  <2> QED
    BY <2>1, <2>3, LoadsStand
<1>5. ASSUME NEW c \in Caller, TakeNextRequest(c) PROVE LoadInv'
  <2>1. /\ inFlight = {} /\ UNCHANGED tasks
        /\ \E r : /\ inFlight' = {r}
                  /\ call' = [call EXCEPT ![c] = [step |-> "schedule", request |-> r]]
    BY <1>5 DEF TakeNextRequest
  <2>2. PICK r : /\ inFlight' = {r}
                 /\ call' = [call EXCEPT ![c] = [step |-> "schedule", request |-> r]]
    BY <2>1
  <2>3. /\ DOMAIN call' = Caller /\ Scheduling(c)' /\ call'[c].request = r
        /\ \A d \in Caller : d # c => call'[d] = call[d]
    BY <1>1, <2>2 DEF Scheduling
  <2>4. tasks = {} /\ \A d \in Caller : ~Scheduling(d)
    BY <2>1, BearersAreInFlight
  <2>5. tasks' = {} /\ \A d \in Caller : Scheduling(d)' => d = c
    BY <2>1, <2>3, <2>4 DEF Scheduling
  <2>6. Outstanding' = {r}
    BY <2>3, <2>5 DEF Outstanding, Scheduling
  <2> QED
    BY <2>2, <2>3, <2>5, <2>6 DEF LoadInv
<1>6. ASSUME NEW c \in Caller, SchedulerAccepts(c) PROVE LoadInv'
  <2>1. /\ Scheduling(c) /\ Goes(c, "idle") /\ UNCHANGED inFlight
        /\ tasks' = tasks \cup {[request |-> call[c].request, stage |-> "start"]}
    BY <1>6 DEF SchedulerAccepts, Scheduling, workVars
  <2>2. tasks = {} /\ Outstanding = {call[c].request}
    BY <2>1, Bearer DEF LoadInv
  <2>3. \A d \in Caller : Scheduling(d) => d = c
    BY <2>1 DEF LoadInv
  <2>4. DOMAIN call' = Caller /\ \A d \in Caller : ~Scheduling(d)'
    BY <1>1, <2>1, <2>3 DEF Goes, Scheduling
  <2>5. tasks' = {[request |-> call[c].request, stage |-> "start"]}
    BY <2>1, <2>2
  <2>6. Outstanding' = {call[c].request}
    BY <2>4, <2>5 DEF Outstanding, Scheduling
  <2> QED
    BY <2>1, <2>2, <2>4, <2>5, <2>6 DEF LoadInv
<1>7. ASSUME NEW c \in Caller, SchedulerThrows(c) PROVE LoadInv'
  <2>1. /\ Scheduling(c) /\ Goes(c, "idle") /\ UNCHANGED tasks
        /\ Complete(call[c].request, "broken")
    BY <1>7 DEF SchedulerThrows, Scheduling
  <2>2. InFlight(call[c].request) /\ tasks = {}
    BY <2>1, BearersAreInFlight
  <2>3. inFlight' = {}
    BY <2>1, <2>2, Completes
  <2>4. \A d \in Caller : Scheduling(d) => d = c
    BY <2>1 DEF LoadInv
  <2>5. DOMAIN call' = Caller /\ \A d \in Caller : ~Scheduling(d)'
    BY <1>1, <2>1, <2>4 DEF Goes, Scheduling
  <2>6. Outstanding' = {}
    BY <2>1, <2>2, <2>5 DEF Outstanding, Scheduling
  <2> QED
    BY <2>1, <2>2, <2>3, <2>5, <2>6 DEF LoadInv
<1>8. ASSUME NEW t \in tasks, LoadCompletes(t) PROVE LoadInv'
  <2>1. /\ Complete(t.request, t.result) /\ tasks' = tasks \ {t} /\ UNCHANGED call
    BY <1>8 DEF LoadCompletes
  <2>2. InFlight(t.request) /\ tasks = {t} /\ \A c \in Caller : ~Scheduling(c)
    BY BearersAreInFlight DEF LoadInv
  <2>3. inFlight' = {}
    BY <2>1, <2>2, Completes
  <2>4. tasks' = {} /\ \A c \in Caller : ~Scheduling(c)'
    BY <2>1, <2>2 DEF Scheduling
  <2>5. Outstanding' = {}
    BY <2>4 DEF Outstanding, Scheduling
  <2> QED
    BY <1>1, <2>1, <2>3, <2>4, <2>5 DEF LoadInv
<1>9. ASSUME NEW t \in tasks,
             LoadBegins(t) \/ LoadFinds(t) \/ LoadResolves(t) \/ LoadLocks(t)
               \/ LoadUploads(t)
      PROVE  LoadInv'
  <2>1. UNCHANGED <<inFlight, call>>
    BY <1>9 DEF LoadBegins, LoadFinds, LoadResolves, LoadLocks, LoadUploads,
           LoadUnchanged, workVars
  <2>2. \/ \E stage \in {"find", "resolve", "upload", "insert"} : Moves(t, stage)
        \/ \E result : Answers(t, result)
    <3>1. CASE LoadBegins(t)
      BY <3>1 DEF LoadBegins
    <3>2. CASE LoadFinds(t)
      BY <3>2 DEF LoadFinds
    <3>3. CASE LoadResolves(t)
      BY <3>3 DEF LoadResolves
    <3>4. CASE LoadLocks(t)
      BY <3>4 DEF LoadLocks
    <3>5. CASE LoadUploads(t)
      BY <3>5 DEF LoadUploads
    <3> QED
      BY <1>9, <3>1, <3>2, <3>3, <3>4, <3>5
  <2>3. CASE \E stage \in {"find", "resolve", "upload", "insert"} : Moves(t, stage)
    BY <2>1, <2>3, TaskMoves DEF Moves
  <2>4. CASE \E result : Answers(t, result)
    BY <2>1, <2>4, TaskMoves DEF Answers
  <2> QED
    BY <2>2, <2>3, <2>4
<1>10. CASE RetryDeviceUnavailable \/ DeviceChanges \/ UNCHANGED vars
  <2>1. UNCHANGED <<tasks, inFlight, call>>
    BY <1>10 DEF RetryDeviceUnavailable, DeviceChanges, workVars, vars
  <2> QED
    BY <1>1, <2>1, LoadsStand
<1> QED
  BY <1>2, <1>3, <1>4, <1>5, <1>6, <1>7, <1>8, <1>9, <1>10 DEF Next, Draw, Load

-----------------------------------------------------------------------------
(* The visible page.                                                       *)

\* A set of numbers has a least.
LEMMA LeastOf ==
  ASSUME NEW I \in SUBSET Int, IsFiniteSet(I), I # {}
  PROVE  \E i \in I : \A j \in I : i <= j
<1>1. /\ Cardinality(I) \in Nat
      /\ \A n \in 1 .. Cardinality(I) : NthOf(I, n) \in I
      /\ \A m, n \in 1 .. Cardinality(I) : m < n => NthOf(I, m) < NthOf(I, n)
      /\ \A i \in I : \E n \in 1 .. Cardinality(I) : NthOf(I, n) = i
  BY NthOfCounts
<1>2. Cardinality(I) # 0
  BY FS_EmptySet
<1>3. 1 \in 1 .. Cardinality(I)
  BY <1>1, <1>2
<1>4. ASSUME NEW j \in I
      PROVE  NthOf(I, 1) <= j
  <2>1. PICK n \in 1 .. Cardinality(I) : NthOf(I, n) = j
    BY <1>1
  <2>2. n = 1 \/ 1 < n
    BY <1>1
  <2>3. 1 < n => NthOf(I, 1) < j
    BY <1>1, <1>3, <2>1
  <2>4. NthOf(I, 1) \in Int /\ j \in Int
    BY <1>1, <1>3
  <2> QED
    BY <2>1, <2>2, <2>3, <2>4
<1> QED
  BY <1>1, <1>3, <1>4

\* What a frame draws has a canonical form.
LEMMA DrawnPaths ==
  ASSUME NEW f \in Drawing
  PROVE  /\ f.paths \in Seq(Seq(Character))
         /\ \A i \in DOMAIN f.paths :
              /\ f.paths[i] \in Seq(Character)
              /\ Canonical[f.paths[i]] = CanonicalPath(f.paths[i])
              /\ Canonical[f.paths[i]] \in Path
<1>1. f.paths \in Seq(Seq(Character))
  BY DrawingAssumption
<1>2. ASSUME NEW i \in DOMAIN f.paths
      PROVE  f.paths[i] \in RawPath
  <2>1. f.paths[i] \in ToSet(f.paths)
    BY DEF ToSet
  <2> QED
    BY <2>1 DEF RawPath
<1>3. \A i \in DOMAIN f.paths : f.paths[i] \in Seq(Character)
  BY <1>1
<1> QED
  BY <1>1, <1>2, <1>3 DEF Canonical, Path

\* A page shows each of its first paths once.
LEMMA VisibleOnce ==
  ASSUME NEW f \in Drawing
  PROVE  LET v == VisiblePaths(f.paths) IN
         /\ v \in Seq(Path) /\ IsInjective(v)
         /\ \A i \in DOMAIN f.paths :
              i <= MaxVisible => CanonicalPath(f.paths[i]) \in ToSet(v)
<1> DEFINE raw == f.paths
           paths == [i \in DOMAIN raw |-> Canonical[raw[i]]]
           firsts == {i \in DOMAIN raw : \A j \in 1 .. i - 1 : paths[j] # paths[i]}
           I == {i \in firsts : Cardinality({j \in firsts : j < i}) < MaxVisible}
<1>1. /\ DOMAIN raw = 1 .. Len(raw) /\ Len(raw) \in Nat
      /\ \A i \in DOMAIN raw : Canonical[raw[i]] \in Path
                               /\ Canonical[raw[i]] = CanonicalPath(raw[i])
  BY DrawnPaths
<1>2. /\ DOMAIN paths = 1 .. Len(raw)
      /\ \A i \in DOMAIN raw : paths[i] = CanonicalPath(raw[i]) /\ paths[i] \in Path
  BY <1>1
<1>3. paths \in Seq(Path)
  BY <1>1
<1>4. VisiblePaths(raw) = At(paths, I)
  BY DEF VisiblePaths
<1>5. I \in SUBSET DOMAIN paths
  BY <1>1, <1>2
<1>6. ASSUME NEW i \in I, NEW j \in I, paths[i] = paths[j]
      PROVE  i = j
  <2> HIDE DEF paths
  <2>1. i \in firsts /\ j \in firsts
    OBVIOUS
  <2>2. /\ i \in DOMAIN raw /\ \A k \in 1 .. i - 1 : paths[k] # paths[i]
        /\ j \in DOMAIN raw /\ \A k \in 1 .. j - 1 : paths[k] # paths[j]
    BY <2>1
  <2> HIDE DEF I, firsts
  <2>3. i \in Nat /\ j \in Nat /\ 1 <= i /\ 1 <= j
    BY <1>1, <2>2
  <2>4. i < j => i \in 1 .. j - 1
    BY <2>3
  <2>5. j < i => j \in 1 .. i - 1
    BY <2>3
  <2>6. ~(i < j) /\ ~(j < i)
    BY <1>6, <2>2, <2>4, <2>5
  <2> QED
    BY <2>3, <2>6
<1>7. ASSUME NEW i \in DOMAIN raw, i <= MaxVisible
      PROVE  \E k \in I : paths[k] = paths[i]
  <2> DEFINE K == {k \in 1 .. i : paths[k] = paths[i]}
  <2>1. K \subseteq 1 .. i /\ i \in K /\ i \in Int /\ 1 <= i /\ i <= Len(raw)
    BY <1>1
  <2>2. IsFiniteSet(1 .. i)
    BY <2>1, FS_Interval
  <2> HIDE DEF K
  <2>3. IsFiniteSet(K) /\ K \in SUBSET Int /\ K # {}
    <3>1. IsFiniteSet(K)
      BY <2>1, <2>2, FS_Subset
    <3>2. K \in SUBSET Int /\ K # {}
      BY <2>1
    <3> QED
      BY <3>1, <3>2
  <2>4. PICK k \in K : \A j \in K : k <= j
    BY <2>3, LeastOf
  <2>5. k \in 1 .. i /\ paths[k] = paths[i]
    BY <2>4 DEF K
  <2>6. \A j \in 1 .. k - 1 : paths[j] # paths[k]
    <3> SUFFICES ASSUME NEW j \in 1 .. k - 1, paths[j] = paths[k] PROVE FALSE
      OBVIOUS
    <3>1. j \in 1 .. i /\ j < k
      BY <2>1, <2>5
    <3>2. j \in K
      BY <2>5, <3>1 DEF K
    <3> QED
      BY <2>4, <2>5, <3>1, <3>2
  <2>7. k \in DOMAIN raw
    BY <1>1, <2>1, <2>5
  <2> HIDE DEF paths
  <2>8. k \in firsts
    BY <2>6, <2>7
  <2> DEFINE B == {j \in firsts : j < k}
  <2>9. B \subseteq 1 .. k - 1
    BY <1>1, <2>5
  <2> HIDE DEF B, firsts
  <2>10. IsFiniteSet(1 .. k - 1) /\ Cardinality(1 .. k - 1) = k - 1
    <3>1. k \in Int /\ 1 <= k
      BY <2>5, <2>1
    <3> QED
      BY <3>1, FS_Interval
  <2>11. Cardinality(B) \in Nat /\ Cardinality(B) <= k - 1
    BY <2>9, <2>10, FS_Subset, FS_CardinalityType
  <2>12. Cardinality(B) < MaxVisible
    BY <1>7, <2>1, <2>5, <2>11, BoundsAssumption
  <2> QED
    BY <2>5, <2>8, <2>12 DEF B
<1> HIDE DEF paths, I
<1>8. /\ At(paths, I) \in Seq(Path)
      /\ {At(paths, I)[n] : n \in DOMAIN At(paths, I)} = {paths[i] : i \in I}
      /\ \A m, n \in DOMAIN At(paths, I) : At(paths, I)[m] = At(paths, I)[n] => m = n
  BY <1>3, <1>5, <1>6, AtElements, AtRange
<1>9. ASSUME NEW i \in DOMAIN raw, i <= MaxVisible
      PROVE  CanonicalPath(raw[i]) \in ToSet(At(paths, I))
  BY <1>2, <1>7, <1>8, <1>9 DEF ToSet
<1> QED
  BY <1>4, <1>8, <1>9 DEF IsInjective

\* What is shown is a sequence of paths, each of them once.
LEMMA PagesFit ==
  /\ \A f \in Drawing : PageOf(f) \in Page /\ PageOf(f).paths = VisiblePaths(f.paths)
  /\ EmptyPage \in Page /\ EmptyPage.paths = <<>>
  /\ \A page \in Page : /\ page.paths \in Seq(Path) /\ IsInjective(page.paths)
                        /\ page # None
<1>1. \A f \in Drawing : PageOf(f) \in Page /\ PageOf(f).paths = VisiblePaths(f.paths)
  BY DEF Page, PageOf
<1>2. EmptyPage \in Page /\ EmptyPage.paths = <<>>
  BY DEF Page, EmptyPage
<1>3. <<>> \in Seq(Path) /\ IsInjective(<<>>)
  BY DEF IsInjective
<1>4. \A page \in Page : page = EmptyPage \/ \E f \in Drawing : page = PageOf(f)
  BY DEF Page
<1> QED
  BY <1>1, <1>2, <1>3, <1>4, VisibleOnce, NoneAssumption

-----------------------------------------------------------------------------
(* The queue.                                                              *)

\* What may join the queue at the end of a handler.
Eligible(p) ==
  /\ p \in DOMAIN views' /\ views'[p] = "placeholder"
  /\ negative'[p] = None /\ p \notin unavailable'
  /\ p \notin Loading(inFlight')

\* The eligible paths that do not wait join the queue, each of them once.
LEMMA QueueGrows ==
  ASSUME NEW waiting \in Seq(Path), IsInjective(waiting),
         NEW paths \in Seq(Path), IsInjective(paths), QueueIfEligible(waiting, paths)
  PROVE  /\ queue' \in Seq(Path) /\ IsInjective(queue')
         /\ \A p : p \in ToSet(queue') <=> \/ p \in ToSet(waiting)
                                           \/ p \in ToSet(paths) /\ Eligible(p)
<1> DEFINE Joins(p) == /\ p \in DOMAIN views' /\ views'[p] = "placeholder"
                       /\ negative'[p] = None /\ p \notin unavailable'
                       /\ ~Contains(waiting, p)
                       /\ p \notin Loading(inFlight')
           I == {i \in DOMAIN paths : Joins(paths[i])}
           joined == At(paths, I)
<1>1. queue' = waiting \o joined
  BY DEF QueueIfEligible, Passing
<1>2. \A p : Contains(waiting, p) <=> p \in ToSet(waiting)
  BY DEF Contains, ToSet
<1>3. \A p : Joins(p) <=> Eligible(p) /\ p \notin ToSet(waiting)
  BY <1>2 DEF Eligible
<1> HIDE DEF Joins
<1>4. I \in SUBSET DOMAIN paths
  OBVIOUS
<1>5. \A i, j \in I : paths[i] = paths[j] => i = j
  BY DEF IsInjective
<1>6. /\ joined \in Seq(Path)
      /\ {joined[n] : n \in DOMAIN joined} = {paths[i] : i \in I}
      /\ \A m, n \in DOMAIN joined : joined[m] = joined[n] => m = n
  <2> HIDE DEF I
  <2> QED
    BY <1>4, <1>5, AtElements, AtRange
<1>7. \A p : p \in ToSet(joined) <=> p \in ToSet(paths) /\ Joins(p)
  <2> HIDE DEF joined
  <2> QED
    BY <1>6 DEF ToSet
<1> HIDE DEF joined
<1>8. /\ queue' \in Seq(Path) /\ Len(queue') = Len(waiting) + Len(joined)
      /\ \A n \in 1 .. Len(waiting) : queue'[n] = waiting[n]
      /\ \A n \in 1 .. Len(joined) : queue'[Len(waiting) + n] = joined[n]
  BY <1>1, <1>6
<1>9. \A n \in DOMAIN queue' :
        \/ n \in 1 .. Len(waiting)
        \/ \E m \in 1 .. Len(joined) : n = Len(waiting) + m
  <2> SUFFICES ASSUME NEW n \in DOMAIN queue', n \notin 1 .. Len(waiting)
               PROVE  \E m \in 1 .. Len(joined) : n = Len(waiting) + m
    OBVIOUS
  <2>1. /\ Len(waiting) \in Nat /\ Len(joined) \in Nat
        /\ n \in 1 .. Len(waiting) + Len(joined)
    BY <1>6, <1>8
  <2>2. n - Len(waiting) \in 1 .. Len(joined) /\ n = Len(waiting) + (n - Len(waiting))
    BY <2>1
  <2> QED
    BY <2>2
<1>10. ToSet(queue') = ToSet(waiting) \cup ToSet(joined)
  <2>1. Len(waiting) \in Nat /\ Len(joined) \in Nat /\ Len(queue') \in Nat
    BY <1>6, <1>8
  <2>2. /\ DOMAIN waiting = 1 .. Len(waiting) /\ DOMAIN joined = 1 .. Len(joined)
        /\ DOMAIN queue' = 1 .. Len(queue')
    BY <1>6, <1>8
  <2>3. /\ \A n \in 1 .. Len(waiting) : n \in DOMAIN queue'
        /\ \A n \in 1 .. Len(joined) : Len(waiting) + n \in DOMAIN queue'
    BY <1>8, <2>1, <2>2
  <2>4. ToSet(queue') \subseteq ToSet(waiting) \cup ToSet(joined)
    <3> SUFFICES ASSUME NEW n \in DOMAIN queue'
                 PROVE  queue'[n] \in ToSet(waiting) \cup ToSet(joined)
      BY DEF ToSet
    <3>1. CASE n \in 1 .. Len(waiting)
      BY <1>8, <2>2, <3>1 DEF ToSet
    <3>2. CASE \E m \in 1 .. Len(joined) : n = Len(waiting) + m
      BY <1>8, <2>2, <3>2 DEF ToSet
    <3> QED
      BY <1>9, <3>1, <3>2
  <2>5. ToSet(waiting) \subseteq ToSet(queue') /\ ToSet(joined) \subseteq ToSet(queue')
    BY <1>8, <2>2, <2>3 DEF ToSet
  <2> QED
    BY <2>4, <2>5
<1>11. IsInjective(queue')
  <2> SUFFICES ASSUME NEW m \in DOMAIN queue', NEW n \in DOMAIN queue',
                      queue'[m] = queue'[n]
               PROVE  m = n
    BY DEF IsInjective
  <2>1. /\ DOMAIN waiting = 1 .. Len(waiting) /\ DOMAIN joined = 1 .. Len(joined)
        /\ Len(waiting) \in Nat /\ Len(joined) \in Nat
    BY <1>6
  <2>2. \A i \in 1 .. Len(waiting), j \in 1 .. Len(joined) : waiting[i] # joined[j]
    <3> SUFFICES ASSUME NEW i \in 1 .. Len(waiting), NEW j \in 1 .. Len(joined),
                        waiting[i] = joined[j]
                 PROVE  FALSE
      OBVIOUS
    <3>1. waiting[i] \in ToSet(waiting) /\ waiting[i] \in ToSet(joined)
      BY <2>1 DEF ToSet
    <3> QED
      BY <1>3, <1>7, <3>1
  <2>3. CASE m \in 1 .. Len(waiting) /\ n \in 1 .. Len(waiting)
    BY <1>8, <2>1, <2>3 DEF IsInjective
  <2>4. CASE m \in 1 .. Len(waiting) /\ n \notin 1 .. Len(waiting)
    BY <1>8, <1>9, <2>2, <2>4
  <2>5. CASE m \notin 1 .. Len(waiting) /\ n \in 1 .. Len(waiting)
    BY <1>8, <1>9, <2>2, <2>5
  <2>6. CASE m \notin 1 .. Len(waiting) /\ n \notin 1 .. Len(waiting)
    <3>1. PICK i \in 1 .. Len(joined), j \in 1 .. Len(joined) :
            m = Len(waiting) + i /\ n = Len(waiting) + j
      BY <1>9, <2>6
    <3>2. joined[i] = joined[j]
      BY <1>8, <3>1
    <3>3. i = j
      BY <1>6, <2>1, <3>2
    <3> QED
      BY <3>1, <3>3
  <2> QED
    BY <2>3, <2>4, <2>5, <2>6
<1> QED
  BY <1>3, <1>7, <1>8, <1>10, <1>11

-----------------------------------------------------------------------------
(* The cache.                                                              *)

CacheKeys == {Key[p] : p \in Path} \ {None}

\* The elements that pass a test are elements, each of them once.
LEMMA PassingOnce ==
  ASSUME NEW X, NEW s \in Seq(X), IsInjective(s), NEW I \in SUBSET DOMAIN s
  PROVE  /\ At(s, I) \in Seq(X) /\ IsInjective(At(s, I))
         /\ Len(At(s, I)) = Cardinality(I)
         /\ ToSet(At(s, I)) = {s[i] : i \in I}
<1>1. \A i, j \in I : s[i] = s[j] => i = j
  BY DEF IsInjective
<1>2. /\ At(s, I) \in Seq(X)
      /\ DOMAIN At(s, I) = 1 .. Cardinality(I) /\ Cardinality(I) \in Nat
  BY AtElements
<1>3. /\ {At(s, I)[n] : n \in DOMAIN At(s, I)} = {s[i] : i \in I}
      /\ \A m, n \in DOMAIN At(s, I) : At(s, I)[m] = At(s, I)[n] => m = n
  BY <1>1, AtRange
<1>4. Len(At(s, I)) = Cardinality(I)
  BY <1>2
<1> QED
  BY <1>2, <1>3, <1>4 DEF IsInjective, ToSet

\* A key in front of a sequence without it.
LEMMA InFront ==
  ASSUME NEW X, NEW s \in Seq(X), IsInjective(s), NEW k \in X, k \notin ToSet(s)
  PROVE  /\ <<k>> \o s \in Seq(X) /\ IsInjective(<<k>> \o s)
         /\ Len(<<k>> \o s) = Len(s) + 1
<1> DEFINE r == <<k>> \o s
<1>1. /\ r \in Seq(X) /\ Len(r) = Len(s) + 1 /\ Len(s) \in Nat
      /\ DOMAIN r = 1 .. Len(s) + 1
      /\ r[1] = k /\ \A n \in 2 .. Len(s) + 1 : r[n] = s[n - 1]
  OBVIOUS
<1> HIDE DEF r
<1>2. \A n \in 1 .. Len(s) : s[n] # k
  BY DEF ToSet
<1>3. ASSUME NEW m \in DOMAIN r, NEW n \in DOMAIN r, r[m] = r[n]
      PROVE  m = n
  <2>1. m \in 1 .. Len(s) + 1 /\ n \in 1 .. Len(s) + 1
    BY <1>1
  <2>2. CASE m = 1 \/ n = 1
    <3>1. \A j \in 2 .. Len(s) + 1 : j - 1 \in 1 .. Len(s) /\ r[j] # k
      BY <1>1, <1>2
    <3> QED
      BY <1>1, <1>3, <2>1, <2>2, <3>1
  <2>3. CASE m # 1 /\ n # 1
    <3>1. /\ m - 1 \in DOMAIN s /\ n - 1 \in DOMAIN s
          /\ s[m - 1] = s[n - 1]
      BY <1>1, <1>3, <2>1, <2>3
    <3>2. m - 1 = n - 1
      BY <3>1 DEF IsInjective
    <3> QED
      BY <2>1, <3>2
  <2> QED
    BY <2>2, <2>3
<1>4. IsInjective(r)
  BY <1>3 DEF IsInjective
<1> QED
  BY <1>1, <1>4 DEF r

\* Expiry keeps every key once and no more of them.
LEMMA PruneKept ==
  ASSUME NEW c \in Seq(CacheKeys), IsInjective(c), Len(c) <= Capacity, NEW expired
  PROVE  LET d == Prune(c, expired)
         IN  d \in Seq(CacheKeys) /\ IsInjective(d) /\ Len(d) <= Capacity
<1>1. Len(c) \in Nat /\ DOMAIN c = 1 .. Len(c) /\ Capacity \in Nat
  BY BoundsAssumption
<1>2. IsFiniteSet(DOMAIN c) /\ Cardinality(DOMAIN c) = Len(c)
  <2>1. \A n \in Nat : IsFiniteSet(1 .. n) /\ Cardinality(1 .. n) = n
    BY FS_Interval
  <2> QED
    BY ONLY <1>1, <2>1
<1>3. \A I \in SUBSET DOMAIN c :
        /\ Cardinality(I) \in Nat /\ Cardinality(I) <= Len(c)
  BY <1>2, FS_Subset, FS_CardinalityType
<1> DEFINE I == {i \in DOMAIN c : c[i] \notin expired}
<1>4. Prune(c, expired) = At(c, I)
  BY DEF Prune, Passing
<1>5. I \in SUBSET DOMAIN c
  OBVIOUS
<1> HIDE DEF I
<1>6. Cardinality(I) \in Nat /\ Cardinality(I) <= Capacity
  BY <1>1, <1>3, <1>5
<1>7. At(c, I) \in Seq(CacheKeys) /\ IsInjective(At(c, I)) /\ Len(At(c, I)) = Cardinality(I)
  BY <1>5, PassingOnce
<1> QED
  BY <1>4, <1>6, <1>7

\* Use and insertion keep every key once and no more than there is room
\* for (TextureCache.h).
LEMMA CacheKept ==
  ASSUME NEW c \in Seq(CacheKeys), IsInjective(c), Len(c) <= Capacity,
         NEW k \in CacheKeys
  PROVE  \A d \in {Touch(c, k)}
             \cup (IF Contains(c, k) THEN {} ELSE {Insert(c, k, Capacity)}) :
           d \in Seq(CacheKeys) /\ IsInjective(d) /\ Len(d) <= Capacity
<1>1. Len(c) \in Nat /\ DOMAIN c = 1 .. Len(c) /\ Capacity \in Nat
  BY BoundsAssumption
<1>2. IsFiniteSet(DOMAIN c) /\ Cardinality(DOMAIN c) = Len(c)
  <2>1. \A n \in Nat : IsFiniteSet(1 .. n) /\ Cardinality(1 .. n) = n
    BY FS_Interval
  <2> QED
    BY ONLY <1>1, <2>1
<1>3. \A I \in SUBSET DOMAIN c :
        /\ Cardinality(I) \in Nat /\ Cardinality(I) <= Len(c)
        /\ Cardinality(I) = Len(c) => I = DOMAIN c
  BY <1>2, FS_Subset, FS_CardinalityType
<1>4. Contains(c, k) <=> k \in ToSet(c)
  BY DEF Contains, ToSet
<1>5. LET d == Touch(c, k)
      IN  d \in Seq(CacheKeys) /\ IsInjective(d) /\ Len(d) <= Capacity
  <2>1. CASE ~Contains(c, k)
    BY <2>1 DEF Touch
  <2>2. CASE Contains(c, k)
    <3> DEFINE I == {i \in DOMAIN c : c[i] # k}
               s == At(c, I)
    <3>1. Touch(c, k) = <<k>> \o s
      BY <2>2 DEF Touch, Passing
    <3>2. I \in SUBSET DOMAIN c
      OBVIOUS
    <3>3. I # DOMAIN c
      BY <1>4, <2>2 DEF ToSet
    <3>4. k \notin {c[i] : i \in I}
      OBVIOUS
    <3> HIDE DEF I
    <3>5. Cardinality(I) \in Nat /\ Cardinality(I) + 1 <= Capacity
      BY <1>1, <1>3, <3>2, <3>3
    <3>6. /\ s \in Seq(CacheKeys) /\ IsInjective(s) /\ Len(s) = Cardinality(I)
          /\ k \notin ToSet(s)
      BY <3>2, <3>4, PassingOnce
    <3> HIDE DEF s
    <3>7. /\ <<k>> \o s \in Seq(CacheKeys) /\ IsInjective(<<k>> \o s)
          /\ Len(<<k>> \o s) = Len(s) + 1
      BY <3>6, InFront
    <3> QED
      BY <3>1, <3>5, <3>6, <3>7
  <2> QED
    BY <2>1, <2>2
<1>6. ASSUME ~Contains(c, k)
      PROVE  LET d == Insert(c, k, Capacity)
             IN  d \in Seq(CacheKeys) /\ IsInjective(d) /\ Len(d) <= Capacity
  <2> DEFINE r == <<k>> \o c
  <2>1. r \in Seq(CacheKeys) /\ IsInjective(r) /\ Len(r) = Len(c) + 1
    BY <1>4, <1>6, InFront
  <2>2. Insert(c, k, Capacity) = IF Len(r) > Capacity THEN Front(r) ELSE r
    BY DEF Insert
  <2> HIDE DEF r
  <2>3. CASE Len(r) > Capacity
    <3>1. Front(r) = SubSeq(r, 1, Len(c)) /\ Len(c) <= Len(r)
      BY <1>1, <2>1 DEF Front
    <3>2. /\ Front(r) \in Seq(CacheKeys) /\ Len(Front(r)) = Len(c)
          /\ DOMAIN Front(r) = 1 .. Len(c)
          /\ \A n \in 1 .. Len(c) : Front(r)[n] = r[n] /\ n \in DOMAIN r
      BY <1>1, <2>1, <3>1
    <3>3. IsInjective(Front(r))
      BY <2>1, <3>2 DEF IsInjective
    <3> QED
      BY <1>1, <2>2, <2>3, <3>2, <3>3
  <2>4. CASE ~(Len(r) > Capacity)
    BY <1>1, <2>1, <2>2, <2>4
  <2> QED
    BY <2>3, <2>4
<1> QED
  BY <1>5, <1>6

-----------------------------------------------------------------------------
(* Views, queue and request.                                               *)

\* The types of the part of the state that the handlers of the controller change.
ViewTypes ==
  /\ shown \in Page
  /\ views \in [ToSet(shown.paths) -> Status]
  /\ generation \in Nat
  /\ queue \in Seq(Path)
  /\ inFlight \subseteq Request /\ \A r, s \in inFlight : r = s
  /\ negative \in [Path -> Failure \cup {None}]
  /\ unavailable \subseteq Path

\* A request is of this page or an earlier one and its path has not failed; of
\* this page, its view loads.  A placeholder has not failed.
LoadsShown ==
  /\ \A r \in inFlight :
       /\ r.generation <= generation /\ negative[r.path] = None
       /\ r.generation = generation /\ r.path \in DOMAIN views =>
            views[r.path] = "loading"
  /\ \A p \in DOMAIN views : views[p] = "placeholder" => negative[p] = None

ViewInv == ViewTypes /\ QueueSound /\ NoViewStranded /\ LoadsShown

\* What SettledStays says of a step.
SettledStay ==
  shown' = shown =>
    \A p \in DOMAIN views :
      views[p] \in {"ready"} \cup Failure => views'[p] = views[p]

\* A sequence contains its elements.
LEMMA Containing == \A s, p : Contains(s, p) <=> p \in ToSet(s)
BY DEF Contains, ToSet

\* The sequence of one path.
LEMMA OnePath ==
  ASSUME NEW p \in Path
  PROVE  <<p>> \in Seq(Path) /\ IsInjective(<<p>>) /\ ToSet(<<p>>) = {p}
BY DEF IsInjective, ToSet

\* No handler of the controller runs.
LEMMA ViewsStand ==
  ASSUME ViewInv,
         UNCHANGED <<shown, views, generation, queue, inFlight, negative, unavailable>>
  PROVE  ViewInv' /\ SettledStay
<1>1. ViewTypes'
  BY DEF ViewInv, ViewTypes
<1>2. QueueSound'
  BY DEF ViewInv, QueueSound
<1>3. NoViewStranded'
  BY DEF ViewInv, NoViewStranded
<1>4. LoadsShown'
  BY DEF ViewInv, LoadsShown
<1> QED
  BY <1>1, <1>2, <1>3, <1>4 DEF ViewInv, SettledStay

\* A page is published: its placeholders wait, unless there is no device for them
\* or their load for an earlier page goes on.
LEMMA PublishKeeps ==
  ASSUME ViewInv, NEW page \in Page, NEW found, Publish(page, found)
  PROVE  ViewInv'
<1>1. /\ page.paths \in Seq(Path) /\ IsInjective(page.paths)
      /\ ToSet(page.paths) \subseteq Path
  BY PagesFit DEF ToSet
<1>2. /\ shown' = page /\ generation' = generation + 1 /\ inFlight' = inFlight
      /\ views' = [p \in ToSet(page.paths) |-> PublishedStatus(p, found)]
      /\ QueueIfEligible(<<>>, page.paths)
  BY DEF Publish
<1>3. /\ negative' \in [Path -> Failure \cup {None}] /\ unavailable' \subseteq Path
      /\ \A r \in inFlight : negative'[r.path] = None
  <2>1. CASE shown.epoch # page.epoch
    <3>1. negative' = [p \in Path |-> None] /\ unavailable' = {}
      BY <2>1 DEF Publish
    <3>2. \A r \in inFlight : r.path \in Path
      BY DEF ViewInv, ViewTypes, Request
    <3> QED
      BY <3>1, <3>2
  <2>2. CASE ~(shown.epoch # page.epoch)
    BY <2>2 DEF Publish, ViewInv, ViewTypes, LoadsShown
  <2> QED
    BY <2>1, <2>2
<1>4. ASSUME NEW p \in ToSet(page.paths)
      PROVE  /\ views'[p] \in Status /\ views'[p] # "loading"
             /\ views'[p] = "placeholder" => negative'[p] = None
  <2>1. views'[p] = PublishedStatus(p, found) /\ p \in Path
    BY <1>1, <1>2
  <2>2. negative'[p] = None \/ negative'[p] \in Failure
    BY <1>3, <2>1
  <2>3. CASE negative'[p] # None
    BY <2>1, <2>2, <2>3 DEF PublishedStatus, Failure, Status
  <2>4. CASE negative'[p] = None
    BY <2>1, <2>4 DEF PublishedStatus, Status
  <2> QED
    BY <2>3, <2>4
<1>5. DOMAIN views' = ToSet(page.paths) /\ views' \in [ToSet(page.paths) -> Status]
  BY <1>2, <1>4
<1>6. /\ queue' \in Seq(Path) /\ IsInjective(queue')
      /\ \A p : p \in ToSet(queue') <=> p \in ToSet(page.paths) /\ Eligible(p)
  <2>1. <<>> \in Seq(Path) /\ IsInjective(<<>>) /\ ToSet(<<>>) = {}
    BY DEF IsInjective, ToSet
  <2> QED
    BY <1>1, <1>2, <2>1, QueueGrows
<1>7. generation \in Nat /\ \A r \in inFlight : r.generation \in Nat /\ r.generation < generation'
  BY <1>2 DEF ViewInv, ViewTypes, LoadsShown, Request
<1>8. ViewTypes'
  BY <1>2, <1>3, <1>5, <1>6, <1>7 DEF ViewInv, ViewTypes
<1>9. QueueSound'
  BY <1>6 DEF QueueSound, Eligible
<1>10. LoadsShown'
  BY <1>2, <1>3, <1>4, <1>5, <1>7 DEF LoadsShown
<1>11. NoViewStranded'
  <2> SUFFICES ASSUME NEW p \in DOMAIN views', views'[p] = "placeholder",
                      ~Contains(queue', p), p \notin unavailable'
               PROVE  \E r \in inFlight' : r.path = p /\ r.generation # generation'
    BY <1>4, <1>5 DEF NoViewStranded
  <2>1. ~Eligible(p)
    BY <1>5, <1>6, Containing
  <2>2. p \in Loading(inFlight')
    BY <1>4, <1>5, <2>1 DEF Eligible
  <2> QED
    BY <1>2, <1>7, <2>2 DEF Loading
<1> QED
  BY <1>8, <1>9, <1>10, <1>11 DEF ViewInv

\* The head and the rest of a queue.
LEMMA Dequeued ==
  ASSUME NEW s \in Seq(Path), IsInjective(s), s # <<>>
  PROVE  /\ Head(s) \in Path /\ Tail(s) \in Seq(Path) /\ IsInjective(Tail(s))
         /\ Head(s) \in ToSet(s) /\ ToSet(Tail(s)) = ToSet(s) \ {Head(s)}
<1>1. /\ Len(s) \in Nat /\ Len(s) >= 1 /\ DOMAIN s = 1 .. Len(s)
      /\ Head(s) = s[1] /\ Head(s) \in Path /\ 1 \in DOMAIN s
  OBVIOUS
<1>2. /\ Tail(s) \in Seq(Path) /\ Len(Tail(s)) = Len(s) - 1
      /\ DOMAIN Tail(s) = 1 .. Len(s) - 1
      /\ \A n \in 1 .. Len(s) - 1 : Tail(s)[n] = s[n + 1]
  BY <1>1
<1>3. \A m, n \in DOMAIN s : s[m] = s[n] => m = n
  BY DEF IsInjective
<1>4. IsInjective(Tail(s))
  <2> SUFFICES ASSUME NEW m \in DOMAIN Tail(s), NEW n \in DOMAIN Tail(s),
                      Tail(s)[m] = Tail(s)[n]
               PROVE  m = n
    BY DEF IsInjective
  <2>1. m \in Int /\ n \in Int /\ m + 1 \in DOMAIN s /\ n + 1 \in DOMAIN s
    BY <1>1, <1>2
  <2>2. s[m + 1] = s[n + 1]
    BY <1>2
  <2>3. m + 1 = n + 1
    BY <1>3, <2>1, <2>2
  <2> QED
    BY <2>1, <2>3
<1>5. \A p \in ToSet(Tail(s)) : p \in ToSet(s) \ {Head(s)}
  <2> SUFFICES ASSUME NEW n \in DOMAIN Tail(s)
               PROVE  Tail(s)[n] \in ToSet(s) \ {Head(s)}
    BY DEF ToSet
  <2>1. n + 1 \in DOMAIN s /\ n + 1 # 1
    BY <1>1, <1>2
  <2>2. Tail(s)[n] = s[n + 1] /\ s[n + 1] # s[1]
    BY <1>1, <1>2, <1>3, <2>1
  <2> QED
    BY <1>1, <2>1, <2>2 DEF ToSet
<1>6. \A p \in ToSet(s) \ {Head(s)} : p \in ToSet(Tail(s))
  <2> SUFFICES ASSUME NEW n \in DOMAIN s, s[n] # Head(s)
               PROVE  s[n] \in ToSet(Tail(s))
    BY DEF ToSet
  <2>1. n # 1
    BY <1>1
  <2>2. n - 1 \in DOMAIN Tail(s) /\ n \in Int
    BY <1>1, <1>2, <2>1
  <2>3. Tail(s)[n - 1] = s[n]
    BY <1>2, <2>2
  <2> QED
    BY <2>2, <2>3 DEF ToSet
<1>7. Head(s) \in ToSet(s)
  BY <1>1 DEF ToSet
<1> QED
  BY <1>1, <1>2, <1>4, <1>5, <1>6, <1>7

\* A view shows what is known of its path.
LEMMA Shown ==
  ASSUME NEW D, views \in [D -> Status], NEW path, NEW status \in Status,
         Show(path, status)
  PROVE  /\ views' \in [D -> Status]
         /\ \A p \in D : views'[p] = IF p = path THEN status ELSE views[p]
BY DEF Show

\* The head of the queue is requested, and its view loads.
LEMMA TakeKeeps ==
  ASSUME ViewInv, NEW c \in Caller, TakeNextRequest(c)
  PROVE  ViewInv' /\ SettledStay
<1> DEFINE path == Head(queue)
           request == [generation |-> generation, path |-> path]
<1>1. /\ inFlight = {} /\ queue # <<>> /\ inFlight' = {request}
      /\ queue' = Tail(queue) /\ Show(path, "loading")
      /\ UNCHANGED <<shown, generation, negative, unavailable>>
  BY DEF TakeNextRequest
<1>2. /\ shown \in Page /\ views \in [ToSet(shown.paths) -> Status] /\ generation \in Nat
      /\ queue \in Seq(Path) /\ IsInjective(queue)
      /\ negative \in [Path -> Failure \cup {None}] /\ unavailable \subseteq Path
  BY DEF ViewInv, ViewTypes, QueueSound
<1>3. /\ path \in Path /\ queue' \in Seq(Path) /\ IsInjective(queue')
      /\ path \in ToSet(queue) /\ ToSet(queue') = ToSet(queue) \ {path}
  BY <1>1, <1>2, Dequeued
<1>4. /\ path \in DOMAIN views /\ views[path] = "placeholder" /\ negative[path] = None
  BY <1>3 DEF ViewInv, QueueSound
<1> HIDE DEF path
<1>5. /\ views' \in [ToSet(shown.paths) -> Status]
      /\ \A p \in ToSet(shown.paths) :
           views'[p] = IF p = path THEN "loading" ELSE views[p]
  BY <1>1, <1>2, Shown DEF Status
<1>6. request \in Request /\ request.generation = generation /\ request.path = path
  BY <1>2, <1>3 DEF Request
<1>7. ViewTypes'
  BY <1>1, <1>2, <1>3, <1>5, <1>6 DEF ViewTypes
<1>8. Loading(inFlight') = {path}
  BY <1>1, <1>6 DEF Loading
<1>9. QueueSound'
  BY <1>1, <1>2, <1>3, <1>5, <1>8 DEF ViewInv, QueueSound
<1>10. LoadsShown'
  BY <1>1, <1>2, <1>4, <1>5, <1>6 DEF ViewInv, LoadsShown
<1>11. NoViewStranded'
  BY <1>1, <1>2, <1>3, <1>5, <1>6, Containing DEF ViewInv, NoViewStranded
<1>12. SettledStay
  BY <1>2, <1>4, <1>5 DEF SettledStay, Failure
<1> QED
  BY <1>7, <1>9, <1>10, <1>11, <1>12 DEF ViewInv

\* What an answered request leaves: its view no longer loads, and waits in the
\* queue or for a device if it is a placeholder.
Outcome(path) ==
  /\ inFlight' = {}
  /\ views' \in [ToSet(shown.paths) -> Status]
  /\ \A p \in ToSet(shown.paths) : p # path => views'[p] = views[p]
  /\ negative' \in [Path -> Failure \cup {None}]
  /\ \A p \in Path : p # path => negative'[p] = negative[p]
  /\ unavailable' \subseteq Path
  /\ unavailable \subseteq unavailable' /\ unavailable' \subseteq unavailable \cup {path}
  /\ queue' \in Seq(Path) /\ IsInjective(queue')
  /\ ToSet(queue) \subseteq ToSet(queue')
  /\ \A p \in ToSet(queue') : p \in ToSet(queue) \/ (p = path /\ Eligible(p))
  /\ path \in DOMAIN views =>
       /\ views'[path] # "loading"
       /\ views'[path] = "placeholder" =>
            negative'[path] = None /\ (path \in ToSet(queue') \/ path \in unavailable')
       /\ views[path] \in {"ready"} \cup Failure => views'[path] = views[path]

\* The path of a request joins the queue if it is eligible.
LEMMA QueueOne ==
  ASSUME queue \in Seq(Path), IsInjective(queue), NEW path \in Path,
         QueueIfEligible(queue, <<path>>)
  PROVE  /\ queue' \in Seq(Path) /\ IsInjective(queue')
         /\ ToSet(queue) \subseteq ToSet(queue')
         /\ \A p \in ToSet(queue') : p \in ToSet(queue) \/ (p = path /\ Eligible(p))
         /\ Eligible(path) => path \in ToSet(queue')
<1>1. /\ queue' \in Seq(Path) /\ IsInjective(queue')
      /\ \A p : p \in ToSet(queue') <=> \/ p \in ToSet(queue)
                                        \/ p \in ToSet(<<path>>) /\ Eligible(p)
  <2> DEFINE one == <<path>>
  <2>1. one \in Seq(Path) /\ IsInjective(one) /\ QueueIfEligible(queue, one)
    BY OnePath
  <2> HIDE DEF one
  <2>2. /\ queue' \in Seq(Path) /\ IsInjective(queue')
        /\ \A p : p \in ToSet(queue') <=> \/ p \in ToSet(queue)
                                          \/ p \in ToSet(one) /\ Eligible(p)
    BY <2>1, QueueGrows
  <2> QED
    BY <2>2 DEF one
<1>2. ToSet(<<path>>) = {path}
  BY OnePath
<1> QED
  BY <1>1, <1>2

\* A request is answered.
LEMMA Answered ==
  ASSUME ViewInv, NEW request \in inFlight, NEW result \in Result,
         UNCHANGED <<shown, generation>>, Complete(request, result)
  PROVE  Outcome(request.path)
<1> DEFINE path == request.path
           D == ToSet(shown.paths)
<1>1. /\ shown \in Page /\ views \in [D -> Status] /\ generation \in Nat
      /\ queue \in Seq(Path) /\ IsInjective(queue)
      /\ negative \in [Path -> Failure \cup {None}] /\ unavailable \subseteq Path
      /\ inFlight = {request} /\ path \in Path /\ DOMAIN views = D
  BY DEF ViewInv, ViewTypes, QueueSound, Request
<1>2. InFlight(request)
  BY DEF InFlight, SameRequest
<1>3. /\ negative[path] = None
      /\ request.generation = generation /\ path \in D => views[path] = "loading"
      /\ request.generation # generation /\ path \in D => views[path] # "loading"
      /\ path \in D /\ views[path] = "placeholder" => negative[path] = None
  BY <1>1 DEF ViewInv, LoadsShown, NoViewStranded
<1>4. inFlight' = {} /\ Loading(inFlight') = {}
  BY <1>2 DEF Complete, Loading
<1> SUFFICES Outcome(path)
  OBVIOUS
<1> HIDE DEF path, D
<1>5. CASE request.generation # generation
  <2>1. Abandon(path)
    BY <1>2, <1>5 DEF Complete, path
  <2>2. UNCHANGED <<views, negative, unavailable>>
    BY <2>1 DEF Abandon
  <2>3. CASE path \in D
    <3>1. QueueIfEligible(queue, <<path>>)
      BY <1>1, <2>1, <2>3 DEF Abandon
    <3>2. /\ queue' \in Seq(Path) /\ IsInjective(queue')
          /\ ToSet(queue) \subseteq ToSet(queue')
          /\ \A p \in ToSet(queue') : p \in ToSet(queue) \/ (p = path /\ Eligible(p))
          /\ Eligible(path) => path \in ToSet(queue')
      BY <1>1, <3>1, QueueOne
    <3>3. views[path] = "placeholder" /\ path \notin unavailable => Eligible(path)
      BY <1>1, <1>3, <1>4, <2>2, <2>3 DEF Eligible
    <3> QED
      BY ONLY <1>1, <1>3, <1>4, <1>5, <2>2, <3>2, <3>3 DEF Outcome, D
  <2>4. CASE path \notin D
    <3>1. queue' = queue
      BY <1>1, <2>1, <2>4 DEF Abandon
    <3> QED
      BY ONLY <1>1, <1>4, <2>2, <2>4, <3>1 DEF Outcome, D
  <2> QED
    BY <2>3, <2>4
<1>6. CASE request.generation = generation
  <2>1. Settle(request, result)
    BY <1>2, <1>6 DEF Complete
  <2>2. CASE result = "ready"
    <3>1. Show(path, "ready") /\ UNCHANGED <<queue, negative, unavailable>>
      BY <2>1, <2>2 DEF Settle, path, Failure
    <3>2. /\ views' \in [D -> Status]
          /\ \A p \in D : views'[p] = IF p = path THEN "ready" ELSE views[p]
      BY <1>1, <3>1, Shown DEF Status
    <3> QED
      BY ONLY <1>1, <1>3, <1>4, <1>6, <3>1, <3>2 DEF Outcome, Failure, D
  <2>3. CASE result \in Failure
    <3>1. /\ negative' = [negative EXCEPT ![path] = result]
          /\ Show(path, result) /\ UNCHANGED <<queue, unavailable>>
      BY <2>1, <2>3 DEF Settle, path, Failure
    <3>2. /\ views' \in [D -> Status]
          /\ \A p \in D : views'[p] = IF p = path THEN result ELSE views[p]
      BY <1>1, <2>3, <3>1, Shown DEF Status
    <3>3. result # "loading" /\ result # "placeholder"
      BY <2>3 DEF Failure
    <3>4. /\ negative' \in [Path -> Failure \cup {None}]
          /\ \A p \in Path : p # path => negative'[p] = negative[p]
      BY <1>1, <2>3, <3>1
    <3> QED
      BY ONLY <1>1, <1>3, <1>4, <1>6, <3>1, <3>2, <3>3, <3>4 DEF Outcome, Failure, D
  <2>4. CASE result = "deviceUnavailable"
    <3>1. /\ unavailable' = unavailable \cup {path}
          /\ Show(path, "placeholder") /\ UNCHANGED <<queue, negative>>
      BY <2>1, <2>4 DEF Settle, path, Failure
    <3>2. /\ views' \in [D -> Status]
          /\ \A p \in D : views'[p] = IF p = path THEN "placeholder" ELSE views[p]
      BY <1>1, <3>1, Shown DEF Status
    <3> QED
      BY ONLY <1>1, <1>3, <1>4, <1>6, <3>1, <3>2 DEF Outcome, Failure, D
  <2>5. CASE result = "cancelled"
    <3>1. /\ UNCHANGED <<negative, unavailable>>
          /\ Show(path, "placeholder") /\ QueueIfEligible(queue, <<path>>)
      BY <2>1, <2>5 DEF Settle, path, Failure
    <3>2. /\ views' \in [D -> Status]
          /\ \A p \in D : views'[p] = IF p = path THEN "placeholder" ELSE views[p]
      BY <1>1, <3>1, Shown DEF Status
    <3>3. /\ queue' \in Seq(Path) /\ IsInjective(queue')
          /\ ToSet(queue) \subseteq ToSet(queue')
          /\ \A p \in ToSet(queue') : p \in ToSet(queue) \/ (p = path /\ Eligible(p))
          /\ Eligible(path) => path \in ToSet(queue')
      BY <1>1, <3>1, QueueOne
    <3>4. path \in D /\ path \notin unavailable => Eligible(path)
      BY <1>3, <1>4, <3>1, <3>2 DEF Eligible
    <3> QED
      BY ONLY <1>1, <1>3, <1>4, <1>6, <3>1, <3>2, <3>3, <3>4 DEF Outcome, Failure, D
  <2> QED
    BY <2>2, <2>3, <2>4, <2>5 DEF Result
<1> QED
  BY <1>5, <1>6

\* The queue holds what it held, and the view of the path is as Outcome says.
LEMMA CompleteKeeps ==
  ASSUME ViewInv, NEW request \in inFlight, NEW result \in Result,
         UNCHANGED <<shown, generation>>, Complete(request, result)
  PROVE  ViewInv' /\ SettledStay
<1> DEFINE path == request.path
           D == ToSet(shown.paths)
<1>1. Outcome(path)
  BY Answered
<1>2. /\ shown \in Page /\ views \in [D -> Status] /\ generation \in Nat
      /\ inFlight = {request} /\ Loading(inFlight) = {path}
  BY DEF ViewInv, ViewTypes, Loading
<1>3. \A p \in ToSet(queue) :
        /\ p \in D /\ p \in Path /\ p # path /\ views[p] = "placeholder"
        /\ negative[p] = None /\ p \notin unavailable
  <2>1. \A p \in ToSet(queue) : p \in Path
    BY DEF ViewInv, ViewTypes, ToSet
  <2> QED
    BY <1>2, <2>1 DEF ViewInv, QueueSound
<1>4. D \subseteq Path
  BY <1>2, PagesFit DEF ToSet
<1>5. /\ DOMAIN views = D /\ DOMAIN views' = D /\ inFlight' = {} /\ Loading(inFlight') = {}
  BY <1>1, <1>2 DEF Outcome, Loading
<1> HIDE DEF path, D
<1>6. ViewTypes'
  BY <1>1, <1>2 DEF Outcome, ViewTypes, D
<1>7. QueueSound'
  <2> SUFFICES ASSUME NEW p \in ToSet(queue')
               PROVE  /\ p \in D /\ views'[p] = "placeholder"
                      /\ negative'[p] = None /\ p \notin unavailable'
    BY <1>1, <1>5 DEF Outcome, QueueSound
  <2>1. CASE p \in ToSet(queue)
    BY <1>1, <1>3, <2>1 DEF Outcome, D
  <2>2. CASE p = path /\ Eligible(p)
    BY <1>5, <2>2 DEF Eligible
  <2> QED
    BY <1>1, <2>1, <2>2 DEF Outcome
<1>8. LoadsShown'
  <2> SUFFICES ASSUME NEW p \in D, views'[p] = "placeholder"
               PROVE  negative'[p] = None
    BY <1>5 DEF LoadsShown
  <2>1. CASE p = path
    BY <1>1, <1>5, <2>1 DEF Outcome
  <2>2. CASE p # path
    BY <1>1, <1>4, <1>5, <2>2 DEF Outcome, ViewInv, LoadsShown, D
  <2> QED
    BY <2>1, <2>2
<1>9. NoViewStranded'
  <2> SUFFICES ASSUME NEW p \in D
               PROVE  /\ views'[p] # "loading"
                      /\ views'[p] = "placeholder" =>
                           p \in ToSet(queue') \/ p \in unavailable'
    BY <1>5, Containing DEF NoViewStranded
  <2>1. CASE p = path
    BY <1>1, <1>5, <2>1 DEF Outcome
  <2>2. CASE p # path
    <3>1. views'[p] = views[p]
      BY <1>1, <2>2 DEF Outcome, D
    <3>2. /\ views[p] # "loading"
          /\ views[p] = "placeholder" => p \in ToSet(queue) \/ p \in unavailable
      BY <1>2, <1>5, <2>2, Containing DEF ViewInv, NoViewStranded, path
    <3> QED
      BY <1>1, <3>1, <3>2 DEF Outcome
  <2> QED
    BY <2>1, <2>2
<1>10. SettledStay
  <2> SUFFICES ASSUME NEW p \in D, views[p] \in {"ready"} \cup Failure
               PROVE  views'[p] = views[p]
    BY <1>5 DEF SettledStay
  <2>1. CASE p = path
    BY <1>1, <1>5, <2>1 DEF Outcome
  <2>2. CASE p # path
    BY <1>1, <2>2 DEF Outcome, D
  <2> QED
    BY <2>1, <2>2
<1> QED
  BY <1>6, <1>7, <1>8, <1>9, <1>10 DEF ViewInv

\* The window is closed.
LEMMA ClearKeeps ==
  ASSUME ViewInv, NEW c \in Caller, Clear(c)
  PROVE  ViewInv' /\ SettledStay
<1>1. /\ shown' = EmptyPage /\ views' = <<>> /\ generation' = generation + 1
      /\ queue' = <<>> /\ inFlight' = inFlight
      /\ negative' = [p \in Path |-> None] /\ unavailable' = {}
  BY DEF Clear, KeepInFlight
<1>2. EmptyPage \in Page /\ EmptyPage.paths = <<>> /\ ToSet(<<>>) = {}
  BY PagesFit DEF ToSet
<1>3. /\ views' \in [ToSet(shown'.paths) -> Status] /\ DOMAIN views' = {}
      /\ queue' \in Seq(Path) /\ IsInjective(queue') /\ ToSet(queue') = {}
  BY <1>1, <1>2 DEF IsInjective
<1>4. \A r \in inFlight : r.path \in Path /\ r.generation < generation' /\ r.generation \in Nat
  BY <1>1 DEF ViewInv, ViewTypes, LoadsShown, Request
<1>5. ViewTypes'
  BY <1>1, <1>2, <1>3 DEF ViewInv, ViewTypes
<1>6. QueueSound' /\ NoViewStranded'
  BY <1>3 DEF QueueSound, NoViewStranded
<1>7. LoadsShown'
  BY <1>1, <1>3, <1>4, <1>5 DEF LoadsShown, ViewTypes
<1>8. SettledStay
  <2>1. shown' = shown => DOMAIN views = {}
    BY <1>1, <1>2 DEF ViewInv, ViewTypes
  <2> QED
    BY <2>1 DEF SettledStay
<1> QED
  BY <1>5, <1>6, <1>7, <1>8 DEF ViewInv

\* What found no device waits again.
LEMMA RetryKeeps ==
  ASSUME ViewInv, RetryDeviceUnavailable
  PROVE  ViewInv' /\ SettledStay
<1> DEFINE I == {i \in DOMAIN shown.paths : shown.paths[i] \in unavailable}
           again == At(shown.paths, I)
<1>1. /\ unavailable' = {}
      /\ UNCHANGED <<shown, views, generation, inFlight, negative>>
      /\ QueueIfEligible(queue, again)
  BY DEF RetryDeviceUnavailable, pageVars, Passing
<1>2. /\ shown \in Page /\ views \in [ToSet(shown.paths) -> Status]
      /\ queue \in Seq(Path) /\ IsInjective(queue)
      /\ shown.paths \in Seq(Path) /\ IsInjective(shown.paths)
  BY PagesFit DEF ViewInv, ViewTypes, QueueSound
<1>3. I \in SUBSET DOMAIN shown.paths
  OBVIOUS
<1>4. {shown.paths[i] : i \in I} = {p \in ToSet(shown.paths) : p \in unavailable}
  BY DEF ToSet
<1> HIDE DEF I
<1>5. /\ again \in Seq(Path) /\ IsInjective(again)
      /\ ToSet(again) = {p \in ToSet(shown.paths) : p \in unavailable}
  BY <1>2, <1>3, <1>4, PassingOnce
<1> HIDE DEF again
<1>6. /\ queue' \in Seq(Path) /\ IsInjective(queue')
      /\ \A p : p \in ToSet(queue') <=> \/ p \in ToSet(queue)
                                        \/ p \in ToSet(again) /\ Eligible(p)
  BY <1>1, <1>2, <1>5, QueueGrows
<1>7. ViewTypes'
  BY <1>1, <1>6 DEF ViewInv, ViewTypes
<1>8. QueueSound'
  <2> SUFFICES ASSUME NEW p \in ToSet(queue')
               PROVE  /\ p \in DOMAIN views' /\ views'[p] = "placeholder"
                      /\ negative'[p] = None /\ p \notin unavailable'
                      /\ p \notin Loading(inFlight')
    BY <1>6 DEF QueueSound
  <2>1. CASE p \in ToSet(queue)
    BY <1>1, <2>1 DEF ViewInv, QueueSound
  <2>2. CASE Eligible(p)
    BY <2>2 DEF Eligible
  <2> QED
    BY <1>6, <2>1, <2>2
<1>9. LoadsShown'
  BY <1>1 DEF ViewInv, LoadsShown
<1>10. NoViewStranded'
  <2>1. \A p \in DOMAIN views' : views'[p] = "loading" =>
          \E r \in inFlight' : r.path = p /\ r.generation = generation'
    BY <1>1 DEF ViewInv, NoViewStranded
  <2>2. ASSUME NEW p \in DOMAIN views', views'[p] = "placeholder", p \notin ToSet(queue')
        PROVE  \E r \in inFlight' : r.path = p /\ r.generation # generation'
    <3>1. \/ p \in ToSet(queue) \/ p \in unavailable
          \/ \E r \in inFlight : r.path = p /\ r.generation # generation
      BY <1>1, <2>2, Containing DEF ViewInv, NoViewStranded
    <3>2. CASE p \in unavailable
      <4>1. ~Eligible(p)
        BY <1>1, <1>2, <1>5, <1>6, <2>2, <3>2
      <4>2. negative'[p] = None
        BY <1>1, <2>2 DEF ViewInv, LoadsShown
      <4>3. p \in Loading(inFlight')
        BY <1>1, <2>2, <4>1, <4>2 DEF Eligible
      <4>4. PICK r \in inFlight : r.path = p
        BY <1>1, <4>3 DEF Loading
      <4>5. r.generation # generation
        BY <1>1, <2>2, <4>4 DEF ViewInv, LoadsShown
      <4> QED
        BY <1>1, <4>4, <4>5
    <3> QED
      BY <1>1, <1>6, <2>2, <3>1, <3>2
  <2> QED
    BY <2>1, <2>2, Containing DEF NoViewStranded
<1>11. SettledStay
  BY <1>1 DEF SettledStay
<1> QED
  BY <1>7, <1>8, <1>9, <1>10, <1>11 DEF ViewInv

-----------------------------------------------------------------------------
(* Every step.                                                             *)

\* What is looked up is not what is shown.
PendingIsNew == pending # None => pending # shown

\* Only a path that leads somewhere is uploaded.
UploadsAreNamed ==
  \A t \in tasks : t.stage \in {"upload", "insert"} => ~Refused(t.request.path)

\* The types of the rest of the state.
OtherTypes ==
  /\ revision \in Nat
  /\ pending \in Page \cup {None}
  /\ call \in [Caller -> CallType]
  /\ tasks \subseteq TaskType
  /\ cache \in Seq(CacheKeys) /\ IsInjective(cache) /\ Len(cache) <= Capacity
  /\ device \in BOOLEAN /\ asked \in Drawing \cup {None}
  /\ resets \in 0 .. MaxResets /\ deviceChanges \in 0 .. MaxDeviceChanges

ThumbnailInv ==
  /\ LookupInv /\ LoadInv /\ ViewInv /\ OtherTypes
  /\ PendingIsNew /\ UploadsAreNamed

\* The parts of the type invariant.
LEMMA TypesJoined == ViewTypes /\ OtherTypes => TypeOK
<1> SUFFICES ASSUME ViewTypes, OtherTypes PROVE TypeOK
  OBVIOUS
<1>1. inFlight = {} \/ \E r : inFlight = {r}
  BY DEF ViewTypes
<1>2. Cardinality(inFlight) <= 1
  <2>1. CASE inFlight = {}
    <3>1. Cardinality(inFlight) = 0
      BY <2>1, FS_EmptySet
    <3> QED
      BY <3>1
  <2>2. CASE \E r : inFlight = {r}
    <3>1. Cardinality(inFlight) = 1
      BY <2>2, FS_Singleton
    <3> QED
      BY <3>1
  <2> QED
    BY <1>1, <2>1, <2>2
<1> QED
  BY <1>2 DEF ViewTypes, OtherTypes, TypeOK, CacheKeys

\* What a thread remembers of a lookup, and of the request it schedules.
LEMMA Threads ==
  ASSUME NEW r \in CallType
  PROVE  /\ r.step = "lookup" =>
              /\ LookupShape(r) /\ r.revision \in Nat /\ r.page \in Page
              /\ r.device \in BOOLEAN /\ r.todo \in Seq(Path) /\ r.found \subseteq Path
         /\ r.step = "schedule" => r.request \in Request
BY DEF CallType, LookupShape

\* A task has its request, and its result once it completes.
LEMMA Tasks ==
  ASSUME NEW t \in TaskType
  PROVE  /\ t.request \in Request
         /\ t.stage = "complete" => t.result \in Result
BY DEF TaskType

\* A lookup goes on to its next path.
LEMMA LookedUp ==
  ASSUME NEW r, LookupShape(r), NEW found
  PROVE  [[r EXCEPT !.todo = Tail(@)] EXCEPT !.found = found]
           = [step |-> "lookup", revision |-> r.revision, page |-> r.page,
              device |-> r.device, todo |-> Tail(r.todo), found |-> found]
<1> DEFINE Shaped(todo, was) ==
             [step |-> "lookup", revision |-> r.revision, page |-> r.page,
              device |-> r.device, todo |-> todo, found |-> was]
<1>1. r = Shaped(r.todo, r.found)
  BY DEF LookupShape
<1>2. \A rest : [Shaped(r.todo, r.found) EXCEPT !.todo = rest] = Shaped(rest, r.found)
  OBVIOUS
<1>3. \A rest : [Shaped(rest, r.found) EXCEPT !.found = found] = Shaped(rest, found)
  OBVIOUS
<1> HIDE DEF Shaped
<1>4. [r EXCEPT !.todo = Tail(r.todo)] = Shaped(Tail(r.todo), r.found)
  BY <1>1, <1>2, Zenon
<1>5. [[r EXCEPT !.todo = Tail(@)] EXCEPT !.found = found] = Shaped(Tail(r.todo), found)
  BY <1>3, <1>4, Zenon
<1> QED
  BY <1>5 DEF Shaped

\* A step of a caller keeps the type of what it does.
LEMMA CallGoes ==
  ASSUME call \in [Caller -> CallType], NEW c \in Caller,
         NEW step \in {"idle", "pump", "take", "clearSource"}, Goes(c, step)
  PROVE  call' \in [Caller -> CallType]
<1>1. [step |-> step] \in CallType
  BY DEF CallType
<1> QED
  BY <1>1 DEF Goes

\* A step of a task keeps its type.
LEMMA TaskGoes ==
  ASSUME tasks \subseteq TaskType, NEW t \in tasks
  PROVE  /\ \A stage \in {"find", "resolve", "upload", "insert"} :
              Moves(t, stage) => tasks' \subseteq TaskType
         /\ \A result \in Result : Answers(t, result) => tasks' \subseteq TaskType
<1>1. t.request \in Request
  BY Tasks
<1>2. ASSUME NEW stage \in {"find", "resolve", "upload", "insert"}, Moves(t, stage)
      PROVE  tasks' \subseteq TaskType
  <2>1. [request |-> t.request, stage |-> stage] \in TaskType
    BY <1>1 DEF TaskType
  <2> QED
    BY <1>2, <2>1 DEF Moves
<1>3. ASSUME NEW result \in Result, Answers(t, result)
      PROVE  tasks' \subseteq TaskType
  <2>1. [request |-> t.request, stage |-> "complete", result |-> result] \in TaskType
    BY <1>1 DEF TaskType
  <2> QED
    BY <1>3, <2>1 DEF Answers
<1> QED
  BY <1>2, <1>3

\* A path that is hit or uploaded has a key.
LEMMA CacheGoes ==
  ASSUME OtherTypes, NEW path \in Path, ~Refused(path) \/ Hit(path)
  PROVE  /\ cache' = Touch(cache, Key[path]) =>
              (cache \in Seq(CacheKeys) /\ IsInjective(cache) /\ Len(cache) <= Capacity)'
         /\ ~Hit(path) /\ cache' = Insert(cache, Key[path], Capacity) =>
              (cache \in Seq(CacheKeys) /\ IsInjective(cache) /\ Len(cache) <= Capacity)'
<1>1. Key[path] # None
  BY NoneAssumption DEF Hit
<1>2. Key[path] \in CacheKeys
  BY <1>1 DEF CacheKeys
<1>3. ~Hit(path) => ~Contains(cache, Key[path])
  BY <1>1 DEF Hit
<1>4. cache \in Seq(CacheKeys) /\ IsInjective(cache) /\ Len(cache) <= Capacity
  BY DEF OtherTypes
<1> HIDE DEF CacheKeys
<1>5. ASSUME NEW d, d = Touch(cache, Key[path])
      PROVE  d \in Seq(CacheKeys) /\ IsInjective(d) /\ Len(d) <= Capacity
  BY <1>2, <1>4, <1>5, CacheKept
<1>6. ASSUME NEW d, ~Hit(path), d = Insert(cache, Key[path], Capacity)
      PROVE  d \in Seq(CacheKeys) /\ IsInjective(d) /\ Len(d) <= Capacity
  BY <1>2, <1>3, <1>4, <1>6, CacheKept
<1> QED
  BY <1>5, <1>6 DEF CacheKeys

\* Every step keeps what is known of views, queue and request, and a view that
\* settled stays while its page does.
LEMMA ViewStep == ThumbnailInv /\ [Next]_vars => ViewInv' /\ SettledStay
<1> SUFFICES ASSUME ThumbnailInv, [Next]_vars PROVE ViewInv' /\ SettledStay
  OBVIOUS
<1>1. /\ ViewInv /\ call \in [Caller -> CallType] /\ tasks \subseteq TaskType
      /\ \A t \in tasks : t.request \in inFlight
      /\ \A c \in Caller : Scheduling(c) => call[c].request \in inFlight
  BY BearersAreInFlight DEF ThumbnailInv, OtherTypes
<1>2. CASE UNCHANGED <<shown, views, generation, queue, inFlight, negative, unavailable>>
  BY <1>1, <1>2, ViewsStand
<1>3. ASSUME NEW c \in Caller, EndLookup(c), IsLatest(c) PROVE ViewInv' /\ SettledStay
  <2>1. Publish(call[c].page, call[c].found) /\ LookingUp(c)
    BY <1>3 DEF EndLookup, LookingUp
  <2>2. call[c].page \in Page
    BY <1>1, <2>1, Threads DEF LookingUp
  <2>3. ViewInv'
    BY <1>1, <2>1, <2>2, PublishKeeps
  <2>4. pending = call[c].page /\ pending # None
    BY <1>3, <2>1 DEF ThumbnailInv, LookupInv, Lookups
  <2>5. shown' # shown
    BY <2>1, <2>4 DEF Publish, ThumbnailInv, PendingIsNew
  <2> QED
    BY <2>3, <2>5 DEF SettledStay
<1>4. ASSUME NEW c \in Caller, TakeNextRequest(c) PROVE ViewInv' /\ SettledStay
  BY <1>1, <1>4, TakeKeeps
<1>5. ASSUME NEW c \in Caller, SchedulerThrows(c) PROVE ViewInv' /\ SettledStay
  <2>1. Complete(call[c].request, "broken") /\ UNCHANGED <<shown, generation>>
    BY <1>5 DEF SchedulerThrows
  <2>2. call[c].request \in inFlight
    BY <1>1, <1>5 DEF SchedulerThrows, Scheduling
  <2> QED
    BY <1>1, <2>1, <2>2, CompleteKeeps DEF Result, Failure
<1>6. ASSUME NEW t \in tasks, LoadCompletes(t) PROVE ViewInv' /\ SettledStay
  <2>1. Complete(t.request, t.result) /\ UNCHANGED <<shown, generation>>
    BY <1>6 DEF LoadCompletes
  <2>2. t.request \in inFlight /\ t.result \in Result
    BY <1>1, <1>6, Tasks DEF LoadCompletes
  <2> QED
    BY <1>1, <2>1, <2>2, CompleteKeeps
<1>7. ASSUME NEW c \in Caller, Clear(c) PROVE ViewInv' /\ SettledStay
  BY <1>1, <1>7, ClearKeeps
<1>8. CASE RetryDeviceUnavailable
  BY <1>1, <1>8, RetryKeeps
<1>9. ASSUME NEW c \in Caller,
             Synchronize(c) \/ Lookup(c) \/ (EndLookup(c) /\ ~IsLatest(c))
               \/ LookupThrows(c) \/ PumpPrunes(c) \/ TakesNothing(c)
               \/ SchedulerAccepts(c) \/ ClearSource(c)
      PROVE  UNCHANGED <<shown, views, generation, queue, inFlight, negative, unavailable>>
  BY <1>9 DEF Synchronize, SamePage, SamePending, StartLookup, Lookup, EndLookup,
         LookupThrows, PumpPrunes, TakesNothing, SchedulerAccepts, ClearSource,
         pageVars, workVars
<1>10. ASSUME NEW t \in tasks,
             LoadBegins(t) \/ LoadFinds(t) \/ LoadResolves(t) \/ LoadLocks(t)
               \/ LoadUploads(t)
      PROVE  UNCHANGED <<shown, views, generation, queue, inFlight, negative, unavailable>>
  BY <1>10 DEF LoadBegins, LoadFinds, LoadResolves, LoadLocks, LoadUploads,
         LoadUnchanged, pageVars, workVars
<1>11. DeviceChanges \/ UNCHANGED vars =>
         UNCHANGED <<shown, views, generation, queue, inFlight, negative, unavailable>>
  BY DEF DeviceChanges, vars, pageVars, workVars
<1> QED
  BY <1>2, <1>3, <1>4, <1>5, <1>6, <1>7, <1>8, <1>9, <1>10, <1>11 DEF Next, Draw, Load

\* The types of what a frame, a task or a reset changes besides the views.
LEMMA OtherStep == ThumbnailInv /\ [Next]_vars => OtherTypes'
<1> SUFFICES ASSUME ThumbnailInv, [Next]_vars PROVE OtherTypes'
  OBVIOUS
<1>1. /\ OtherTypes /\ revision \in Nat /\ pending \in Page \cup {None}
      /\ call \in [Caller -> CallType] /\ tasks \subseteq TaskType
      /\ device \in BOOLEAN /\ asked \in Drawing \cup {None}
      /\ {MaxRevision, MaxResets, MaxDeviceChanges} \subseteq Nat
      /\ resets \in 0 .. MaxResets /\ deviceChanges \in 0 .. MaxDeviceChanges
  BY BoundsAssumption DEF ThumbnailInv, OtherTypes
<1> DEFINE Cached(s) == s \in Seq(CacheKeys) /\ IsInjective(s) /\ Len(s) <= Capacity
<1>2. Cached(cache) /\ Cached(<<>>)
  <2>1. Cached(cache)
    BY DEF ThumbnailInv, OtherTypes
  <2>2. <<>> \in Seq(CacheKeys) /\ IsInjective(<<>>) /\ Len(<<>>) <= Capacity
    BY BoundsAssumption DEF IsInjective
  <2> QED
    BY <2>1, <2>2
<1>3. Cached(cache') <=>
        cache' \in Seq(CacheKeys) /\ IsInjective(cache') /\ Len(cache') <= Capacity
  OBVIOUS
<1> HIDE DEF Cached
<1>4. ASSUME NEW c \in Caller, Synchronize(c) PROVE OtherTypes'
  <2>1. PICK f \in Drawing :
          /\ \/ SamePage(c, PageOf(f)) \/ SamePending(c, PageOf(f))
             \/ StartLookup(c, PageOf(f))
          /\ asked' = f
    BY <1>4 DEF Synchronize
  <2> DEFINE page == PageOf(f)
  <2>2. page \in Page /\ page.paths \in Seq(Path)
    BY PagesFit
  <2>3. UNCHANGED <<tasks, cache, device, resets, deviceChanges>>
    BY <1>4 DEF Synchronize, envVars
  <2> HIDE DEF page
  <2>4. CASE SamePage(c, page) \/ SamePending(c, page)
    <3>1. Goes(c, "pump") /\ revision' \in Nat /\ pending' \in Page \cup {None}
      BY <1>1, <2>4 DEF SamePage, SamePending, pageVars
    <3>2. call' \in [Caller -> CallType]
      BY <1>1, <3>1, CallGoes
    <3> QED
      BY <1>1, <1>2, <1>3, <2>1, <2>3, <3>1, <3>2 DEF OtherTypes
  <2>5. CASE StartLookup(c, page)
    <3> DEFINE r == [step |-> "lookup", revision |-> revision + 1, page |-> page,
                     device |-> device, todo |-> page.paths, found |-> {}]
    <3>1. /\ revision' = revision + 1 /\ pending' = page
          /\ call' = [call EXCEPT ![c] = r]
      BY <2>5 DEF StartLookup
    <3>2. r \in CallType
      BY <1>1, <2>2 DEF CallType
    <3> HIDE DEF r
    <3>3. call' \in [Caller -> CallType]
      BY <1>1, <3>1, <3>2
    <3> QED
      BY <1>1, <1>2, <1>3, <2>1, <2>2, <2>3, <3>1, <3>3 DEF OtherTypes
  <2> QED
    BY <2>1, <2>4, <2>5 DEF page
<1>5. ASSUME NEW c \in Caller, Lookup(c) PROVE OtherTypes'
  <2> DEFINE path == Head(call[c].todo)
             hit == call[c].device /\ Hit(path)
  <2>1. /\ call[c].step = "lookup" /\ call[c].todo # <<>>
        /\ UNCHANGED <<pending, revision, tasks, asked, device, resets, deviceChanges>>
    BY <1>5 DEF Lookup, pageVars, envVars
  <2>2. /\ call[c] \in CallType /\ LookupShape(call[c])
        /\ call[c].revision \in Nat /\ call[c].page \in Page
        /\ call[c].device \in BOOLEAN /\ call[c].todo \in Seq(Path)
        /\ call[c].found \subseteq Path
    BY <1>1, <2>1, Threads
  <2>3. path \in Path /\ Tail(call[c].todo) \in Seq(Path)
    BY <2>1, <2>2
  <2>4. cache' = IF hit THEN Touch(cache, Key[path]) ELSE cache
    BY <1>5 DEF Lookup
  <2>5. PICK found \in SUBSET Path :
          call' = [call EXCEPT ![c].todo = Tail(@), ![c].found = found]
    <3>1. call' = [call EXCEPT ![c].todo = Tail(@),
                              ![c].found = @ \cup IF hit THEN {path} ELSE {}]
      BY <1>5 DEF Lookup
    <3>2. call' = [call EXCEPT ![c].todo = Tail(@),
                              ![c].found = call[c].found \cup IF hit THEN {path} ELSE {}]
      BY <1>1, <3>1
    <3>3. (call[c].found \cup IF hit THEN {path} ELSE {}) \in SUBSET Path
      BY <2>2, <2>3
    <3> QED
      BY <3>2, <3>3
  <2> HIDE DEF path
  <2>6. Cached(cache')
    <3>1. CASE hit
      <4>1. Hit(path) /\ cache' = Touch(cache, Key[path])
        BY <2>4, <3>1
      <4> QED
        BY <1>1, <1>3, <2>3, <4>1, CacheGoes
    <3>2. CASE ~hit
      BY <1>2, <2>4, <3>2
    <3> QED
      BY <3>1, <3>2
  <2>7. call' \in [Caller -> CallType]
    <3>1. /\ call'[c] = [[call[c] EXCEPT !.todo = Tail(@)] EXCEPT !.found = found]
          /\ \A d \in Caller : d # c => call'[d] = call[d]
          /\ DOMAIN call' = Caller /\ call' = [d \in Caller |-> call'[d]]
      BY <1>1, <2>5
    <3>2. call'[c] = [step |-> "lookup", revision |-> call[c].revision,
                      page |-> call[c].page, device |-> call[c].device,
                      todo |-> Tail(call[c].todo), found |-> found]
      BY <2>2, <3>1, LookedUp
    <3>3. found \subseteq Path
      BY <2>5
    <3>4. call'[c] \in CallType
      BY <2>2, <2>3, <3>2, <3>3 DEF CallType
    <3> QED
      BY <1>1, <3>1, <3>4
  <2> QED
    BY <1>1, <1>3, <2>1, <2>6, <2>7 DEF OtherTypes
<1>6. ASSUME NEW c \in Caller, EndLookup(c) \/ LookupThrows(c) PROVE OtherTypes'
  <2>1. \E step \in {"idle", "pump"} : Goes(c, step)
    BY <1>6 DEF EndLookup, LookupThrows
  <2>2. call' \in [Caller -> CallType]
    BY <1>1, <2>1, CallGoes
  <2>3. /\ UNCHANGED <<revision, tasks, cache, device, resets, deviceChanges>>
        /\ pending' \in {pending, None} /\ asked' \in {asked, None}
    BY <1>6 DEF EndLookup, LookupThrows, GiveUp, envVars
  <2> QED
    BY <1>1, <1>2, <1>3, <2>2, <2>3 DEF OtherTypes
<1>7. ASSUME NEW c \in Caller,
             PumpPrunes(c) \/ TakesNothing(c) \/ SchedulerThrows(c) \/ ClearSource(c)
      PROVE  OtherTypes'
  <2>1. \E step \in {"idle", "take"} : Goes(c, step)
    BY <1>7 DEF PumpPrunes, TakesNothing, SchedulerThrows, ClearSource
  <2>2. call' \in [Caller -> CallType]
    BY <1>1, <2>1, CallGoes
  <2>3. UNCHANGED <<pending, revision, tasks, asked, device, resets, deviceChanges>>
    BY <1>7 DEF PumpPrunes, TakesNothing, SchedulerThrows, ClearSource, pageVars, envVars
  <2>4. \/ cache' \in {cache, <<>>}
        \/ \E expired : cache' = Prune(cache, expired)
    BY <1>7 DEF PumpPrunes, TakesNothing, SchedulerThrows, ClearSource
  <2>5. ASSUME NEW expired PROVE Cached(Prune(cache, expired))
    BY <1>2, PruneKept DEF Cached
  <2>6. Cached(cache')
    BY <1>2, <2>4, <2>5
  <2> QED
    BY <1>1, <1>3, <2>2, <2>3, <2>6 DEF OtherTypes
<1>8. ASSUME NEW c \in Caller, TakeNextRequest(c) PROVE OtherTypes'
  <2> DEFINE request == [generation |-> generation, path |-> Head(queue)]
  <2>1. /\ queue # <<>> /\ call' = [call EXCEPT ![c] = [step |-> "schedule", request |-> request]]
        /\ UNCHANGED <<pending, revision, tasks, cache, asked, device, resets, deviceChanges>>
    BY <1>8 DEF TakeNextRequest, envVars
  <2>2. generation \in Nat /\ queue \in Seq(Path)
    BY DEF ThumbnailInv, ViewInv, ViewTypes
  <2>3. request \in Request
    BY <2>1, <2>2 DEF Request
  <2> HIDE DEF request
  <2>4. [step |-> "schedule", request |-> request] \in CallType
    BY <2>3 DEF CallType
  <2>5. call' \in [Caller -> CallType]
    BY <1>1, <2>1, <2>4
  <2> QED
    BY <1>1, <1>2, <1>3, <2>1, <2>5 DEF OtherTypes
<1>9. ASSUME NEW c \in Caller, SchedulerAccepts(c) PROVE OtherTypes'
  <2>1. /\ Goes(c, "idle") /\ call[c].step = "schedule"
        /\ tasks' = tasks \cup {[request |-> call[c].request, stage |-> "start"]}
        /\ UNCHANGED <<pending, revision, cache, asked, device, resets, deviceChanges>>
    BY <1>9 DEF SchedulerAccepts, pageVars, envVars
  <2>2. call' \in [Caller -> CallType]
    BY <1>1, <2>1, CallGoes
  <2>3. call[c].request \in Request
    BY <1>1, <2>1, Threads
  <2>4. tasks' \subseteq TaskType
    BY <1>1, <2>1, <2>3 DEF TaskType
  <2> QED
    BY <1>1, <1>2, <1>3, <2>1, <2>2, <2>4 DEF OtherTypes
<1>10. ASSUME NEW c \in Caller, Clear(c) PROVE OtherTypes'
  <2>1. /\ Goes(c, "clearSource") /\ resets' = resets + 1 /\ resets < MaxResets
        /\ pending' = None /\ revision' = revision + 1 /\ asked' = None
        /\ UNCHANGED <<tasks, cache, device, deviceChanges>>
    BY <1>10 DEF Clear
  <2>2. call' \in [Caller -> CallType]
    BY <1>1, <2>1, CallGoes
  <2> QED
    BY <1>1, <1>2, <1>3, <2>1, <2>2 DEF OtherTypes
<1>11. ASSUME NEW t \in tasks, Load(t) PROVE OtherTypes'
  <2>1. UNCHANGED <<pending, revision, call, asked, device, resets, deviceChanges>>
    BY <1>11 DEF Load, LoadBegins, LoadFinds, LoadResolves, LoadLocks, LoadUploads,
           LoadCompletes, LoadUnchanged, pageVars, envVars
  <2>2. tasks' \subseteq TaskType
    <3>1. \/ \E stage \in {"find", "resolve", "upload", "insert"} : Moves(t, stage)
          \/ \E result \in Result : Answers(t, result)
          \/ tasks' = tasks \ {t}
      <4>1. CASE LoadBegins(t)
        BY <4>1 DEF LoadBegins, Result
      <4>2. CASE LoadFinds(t)
        BY <4>2 DEF LoadFinds, Result
      <4>3. CASE LoadResolves(t)
        <5>1. "broken" \in Result /\ "cancelled" \in Result
              /\ \A answer : ResolveFailure(answer) \in Result
          BY DEF Result, Failure, ResolveFailure
        <5> QED
          BY <4>3, <5>1 DEF LoadResolves
      <4>4. CASE LoadLocks(t)
        BY <4>4 DEF LoadLocks, Result
      <4>5. CASE LoadUploads(t)
        BY <4>5 DEF LoadUploads, Result, Failure
      <4>6. CASE LoadCompletes(t)
        BY <4>6 DEF LoadCompletes
      <4> QED
        BY <1>11, <4>1, <4>2, <4>3, <4>4, <4>5, <4>6 DEF Load
    <3> QED
      BY <1>1, <3>1, TaskGoes
  <2>3. Cached(cache')
    <3> DEFINE path == t.request.path
    <3>1. path \in Path
      BY <1>1, Tasks DEF Request
    <3>2. t.stage = "insert" => ~Refused(path)
      BY DEF ThumbnailInv, UploadsAreNamed
    <3>3. \/ cache' = cache
          \/ Hit(path) /\ cache' = Touch(cache, Key[path])
          \/ ~Refused(path) /\ ~Hit(path) /\ cache' = Insert(cache, Key[path], Capacity)
      BY <1>11, <3>2 DEF Load, LoadBegins, LoadFinds, LoadResolves, LoadLocks,
             LoadUploads, LoadCompletes
    <3> HIDE DEF path
    <3> QED
      BY <1>1, <1>2, <1>3, <3>1, <3>3, CacheGoes
  <2> QED
    BY <1>1, <1>3, <2>1, <2>2, <2>3 DEF OtherTypes
<1>12. CASE RetryDeviceUnavailable \/ UNCHANGED vars
  <2>1. UNCHANGED <<pending, revision, call, tasks, cache, asked, device, resets, deviceChanges>>
    BY <1>12 DEF RetryDeviceUnavailable, vars, pageVars, envVars
  <2> QED
    BY <1>1, <1>2, <1>3, <2>1 DEF OtherTypes
<1>13. CASE DeviceChanges
  <2>1. /\ device' = ~device /\ deviceChanges' = deviceChanges + 1
        /\ deviceChanges < MaxDeviceChanges
        /\ UNCHANGED <<pending, revision, call, tasks, cache, asked, resets>>
    BY <1>13 DEF DeviceChanges, pageVars
  <2>2. device' \in BOOLEAN
    BY <2>1
  <2>3. deviceChanges' \in 0 .. MaxDeviceChanges
    BY <1>1, <2>1
  <2> QED
    BY <1>1, <1>2, <1>3, <2>1, <2>2, <2>3 DEF OtherTypes
<1> QED
  BY <1>4, <1>5, <1>6, <1>7, <1>8, <1>9, <1>10, <1>11, <1>12, <1>13 DEF Next, Draw

\* A frame looks up a page that is not shown; publishing ends the lookup.
LEMMA PendingStep == ThumbnailInv /\ [Next]_vars => PendingIsNew'
<1> SUFFICES ASSUME ThumbnailInv, [Next]_vars PROVE PendingIsNew'
  OBVIOUS
<1>1. PendingIsNew
  BY DEF ThumbnailInv
<1>2. CASE pending' = None \/ UNCHANGED <<pending, shown>>
  BY <1>1, <1>2 DEF PendingIsNew
<1>3. ASSUME NEW c \in Caller, Synchronize(c) PROVE PendingIsNew'
  <2>1. PICK f \in Drawing :
          \/ SamePage(c, PageOf(f)) \/ SamePending(c, PageOf(f))
          \/ StartLookup(c, PageOf(f))
    BY <1>3 DEF Synchronize
  <2>2. CASE SamePage(c, PageOf(f))
    BY <1>1, <2>2 DEF SamePage, PendingIsNew
  <2>3. CASE SamePending(c, PageOf(f))
    BY <1>1, <2>3 DEF SamePending, PendingIsNew, pageVars
  <2>4. CASE StartLookup(c, PageOf(f))
    BY <2>4 DEF StartLookup, PendingIsNew
  <2> QED
    BY <2>1, <2>2, <2>3, <2>4
<1>4. ASSUME NEW c \in Caller,
             \/ Lookup(c) \/ EndLookup(c) \/ LookupThrows(c) \/ PumpPrunes(c)
             \/ TakesNothing(c) \/ TakeNextRequest(c) \/ SchedulerAccepts(c)
             \/ SchedulerThrows(c) \/ Clear(c) \/ ClearSource(c)
      PROVE  pending' = None \/ UNCHANGED <<pending, shown>>
  BY <1>4 DEF Lookup, EndLookup, LookupThrows, GiveUp, PumpPrunes, TakesNothing,
         TakeNextRequest, SchedulerAccepts, SchedulerThrows, Clear, ClearSource, pageVars
<1>5. ASSUME NEW t \in tasks, Load(t)
      PROVE  pending' = None \/ UNCHANGED <<pending, shown>>
  BY <1>5 DEF Load, LoadBegins, LoadFinds, LoadResolves, LoadLocks, LoadUploads,
         LoadCompletes, LoadUnchanged, pageVars
<1>6. RetryDeviceUnavailable \/ DeviceChanges \/ UNCHANGED vars =>
        UNCHANGED <<pending, shown>>
  BY DEF RetryDeviceUnavailable, DeviceChanges, vars, pageVars
<1> QED
  BY <1>2, <1>3, <1>4, <1>5, <1>6 DEF Next, Draw

\* A load goes on to the upload with the bytes of a file only.
LEMMA UploadStep == ThumbnailInv /\ [Next]_vars => UploadsAreNamed'
<1> SUFFICES ASSUME ThumbnailInv, [Next]_vars PROVE UploadsAreNamed'
  OBVIOUS
<1>1. UploadsAreNamed
  BY DEF ThumbnailInv
<1>2. CASE tasks' \subseteq tasks
  BY <1>1, <1>2 DEF UploadsAreNamed
<1>3. ASSUME NEW c \in Caller, SchedulerAccepts(c) PROVE UploadsAreNamed'
  BY <1>1, <1>3 DEF SchedulerAccepts, UploadsAreNamed
<1>4. ASSUME NEW c \in Caller,
             \/ Synchronize(c) \/ Lookup(c) \/ EndLookup(c) \/ LookupThrows(c)
             \/ PumpPrunes(c) \/ TakesNothing(c) \/ TakeNextRequest(c)
             \/ SchedulerThrows(c) \/ Clear(c) \/ ClearSource(c)
      PROVE  tasks' = tasks
  BY <1>4 DEF Synchronize, Lookup, EndLookup, LookupThrows, PumpPrunes, TakesNothing,
         TakeNextRequest, SchedulerThrows, Clear, ClearSource
<1>5. ASSUME NEW t \in tasks, NEW stage,
             stage \in {"upload", "insert"} => ~Refused(t.request.path),
             Moves(t, stage)
      PROVE  UploadsAreNamed'
  BY <1>1, <1>5 DEF Moves, UploadsAreNamed
<1>6. ASSUME NEW t \in tasks, NEW result, Answers(t, result) PROVE UploadsAreNamed'
  BY <1>1, <1>6 DEF Answers, UploadsAreNamed
<1>7. ASSUME NEW t \in tasks, Load(t) PROVE UploadsAreNamed'
  <2>1. CASE LoadBegins(t)
    BY <1>5, <1>6, <2>1 DEF LoadBegins
  <2>2. CASE LoadFinds(t)
    BY <1>5, <1>6, <2>2 DEF LoadFinds
  <2>3. CASE LoadResolves(t)
    <3>1. \A loose, archive :
            Resolve(t.request.path, loose, archive) = "bytes" => ~Refused(t.request.path)
      BY DEF Resolve
    <3> QED
      BY <1>5, <1>6, <2>3, <3>1 DEF LoadResolves
  <2>4. CASE LoadLocks(t)
    <3>1. ~Refused(t.request.path)
      BY <1>1, <2>4 DEF LoadLocks, UploadsAreNamed
    <3> QED
      BY <1>5, <1>6, <2>4, <3>1 DEF LoadLocks
  <2>5. CASE LoadUploads(t)
    BY <1>6, <2>5 DEF LoadUploads
  <2>6. CASE LoadCompletes(t)
    BY <1>2, <2>6 DEF LoadCompletes
  <2> QED
    BY <1>7, <2>1, <2>2, <2>3, <2>4, <2>5, <2>6 DEF Load
<1>8. RetryDeviceUnavailable \/ DeviceChanges \/ UNCHANGED vars => tasks' = tasks
  BY DEF RetryDeviceUnavailable, DeviceChanges, vars
<1> QED
  BY <1>2, <1>3, <1>4, <1>7, <1>8 DEF Next, Draw

-----------------------------------------------------------------------------
(* The results.                                                            *)

\* The pages, lookups and requests start empty.
LEMMA Initially == Init => LookupInv /\ LoadInv
<1> SUFFICES ASSUME Init PROVE LookupInv /\ LoadInv
  OBVIOUS
<1>1. /\ DOMAIN call = Caller /\ \A c \in Caller : call[c].step = "idle"
      /\ tasks = {} /\ inFlight = {} /\ revision = 0 /\ pending = None /\ asked = None
  BY DEF Init, Idle
<1>2. LookupInv
  BY <1>1 DEF LookupInv, Lookups, LookingUp, PendingIsLookedUp, LastFrameWins
<1>3. Outstanding = {}
  BY <1>1 DEF Outstanding
<1>4. LoadInv
  BY <1>1, <1>3 DEF LoadInv, Scheduling
<1> QED
  BY <1>2, <1>4

\* For every number of threads and pages: a lookup that other frames rely on
\* goes on, and it is the latest.
THEOREM LookupsGoOn == Spec => []PendingIsLookedUp
<1>1. LookupInv => PendingIsLookedUp
  BY DEF LookupInv, Lookups
<1> QED
  BY <1>1, Initially, LookupStep, PTL DEF Spec

\* For every number of threads and pages: the page of the last frame is shown
\* or being looked up, whatever lookups end after it and in whatever order.
THEOREM LastFrameIsShown == Spec => []LastFrameWins
<1>1. LookupInv => LastFrameWins
  BY DEF LookupInv
<1> QED
  BY <1>1, Initially, LookupStep, PTL DEF Spec

\* For every number of threads: one load at a time, and a request in flight
\* always has the thread or the task that will answer it.
THEOREM OneLoadAtATime == Spec => []OneLoad
<1>1. LoadInv => OneLoad
  <2> SUFFICES ASSUME LoadInv PROVE OneLoad
    OBVIOUS
  <2> DEFINE schedulers == {c \in Caller : call[c].step = "schedule"}
  <2>1. tasks = {} \/ \E t : tasks = {t}
    BY DEF LoadInv
  <2>2. schedulers = {} \/ \E c : schedulers = {c}
    BY DEF LoadInv, Scheduling
  <2>3. tasks = {} \/ schedulers = {}
    BY DEF LoadInv, Scheduling
  <2> HIDE DEF schedulers
  <2>4. /\ tasks = {} => Cardinality(tasks) = 0
        /\ schedulers = {} => Cardinality(schedulers) = 0
        /\ tasks # {} => Cardinality(tasks) = 1
        /\ schedulers # {} => Cardinality(schedulers) = 1
    BY <2>1, <2>2, FS_EmptySet, FS_Singleton
  <2>5. Outstanding = inFlight
    BY DEF LoadInv
  <2> QED
    BY <2>3, <2>4, <2>5 DEF OneLoad, schedulers
<1> QED
  BY <1>1, Initially, LoadStep, PTL DEF Spec

\* Nothing is shown, waits or loads at first.
LEMMA ViewsInitially == Init => ViewInv /\ OtherTypes /\ PendingIsNew /\ UploadsAreNamed
<1> SUFFICES ASSUME Init
             PROVE  ViewInv /\ OtherTypes /\ PendingIsNew /\ UploadsAreNamed
  OBVIOUS
<1>1. EmptyPage \in Page /\ EmptyPage.paths = <<>> /\ ToSet(<<>>) = {}
  BY PagesFit DEF ToSet
<1>2. /\ shown = EmptyPage /\ views = <<>> /\ generation = 0 /\ queue = <<>>
      /\ inFlight = {} /\ negative = [p \in Path |-> None] /\ unavailable = {}
  BY DEF Init
<1>3. views \in [ToSet(shown.paths) -> Status] /\ DOMAIN views = {}
  BY <1>1, <1>2
<1>4. queue \in Seq(Path) /\ IsInjective(queue) /\ ToSet(queue) = {}
  BY <1>1, <1>2 DEF IsInjective
<1>5. ViewTypes
  BY <1>1, <1>2, <1>3, <1>4 DEF ViewTypes
<1>6. QueueSound /\ NoViewStranded /\ LoadsShown
  BY <1>2, <1>3, <1>4 DEF QueueSound, NoViewStranded, LoadsShown
<1>7. /\ revision = 0 /\ pending = None /\ call = [c \in Caller |-> Idle]
      /\ tasks = {} /\ cache = <<>> /\ device = TRUE /\ asked = None
      /\ resets = 0 /\ deviceChanges = 0
  BY DEF Init
<1>8. Idle \in CallType
  BY DEF Idle, CallType
<1>9. /\ call \in [Caller -> CallType]
      /\ 0 \in 0 .. MaxResets /\ 0 \in 0 .. MaxDeviceChanges
      /\ cache \in Seq(CacheKeys) /\ IsInjective(cache) /\ Len(cache) <= Capacity
  BY <1>7, <1>8, BoundsAssumption DEF IsInjective
<1>10. OtherTypes
  BY <1>7, <1>9 DEF OtherTypes
<1> QED
  BY <1>5, <1>6, <1>7, <1>10 DEF ViewInv, PendingIsNew, UploadsAreNamed

\* The invariant that the results rest on.
LEMMA ThumbnailInvariance == Spec => []ThumbnailInv
<1>1. Init => ThumbnailInv
  BY Initially, ViewsInitially DEF ThumbnailInv
<1>2. ThumbnailInv /\ [Next]_vars => ThumbnailInv'
  BY LookupStep, LoadStep, ViewStep, OtherStep, PendingStep, UploadStep DEF ThumbnailInv
<1> QED
  BY <1>1, <1>2, PTL DEF Spec

\* For any pages, spellings, threads and bounds: every member keeps its type, and
\* the cache holds every key once and not more than its capacity.
THEOREM ThumbnailTypes == Spec => []TypeOK
<1>1. ThumbnailInv => TypeOK
  BY TypesJoined DEF ThumbnailInv, ViewInv
<1> QED
  BY <1>1, ThumbnailInvariance, PTL

\* For any pages and threads: what waits is a placeholder of the page, once, that
\* has not failed and is not being loaded.
THEOREM QueueIsSound == Spec => []QueueSound
<1>1. ThumbnailInv => QueueSound
  BY DEF ThumbnailInv, ViewInv
<1> QED
  BY <1>1, ThumbnailInvariance, PTL

\* For any pages and threads, and whatever is lost, cleared or retried: no view
\* waits for a load nobody will do.
THEOREM ViewsAreServed == Spec => []NoViewStranded
<1>1. ThumbnailInv => NoViewStranded
  BY DEF ThumbnailInv, ViewInv
<1> QED
  BY <1>1, ThumbnailInvariance, PTL

\* For any pages and threads: while a page stays, a view that settled keeps its
\* thumbnail or its failure.
THEOREM ViewsSettle == Spec => SettledStays
<1>1. ThumbnailInv /\ [Next]_vars =>
        [shown' = shown =>
           \A p \in DOMAIN views :
             views[p] \in {"ready"} \cup Failure => views'[p] = views[p]]_vars
  BY ViewStep DEF SettledStay
<1> QED
  BY <1>1, ThumbnailInvariance, PTL DEF Spec, SettledStays

\* The card of a path finds the view of its canonical form, and that one only.
LEMMA CardsFindTheirView ==
  ASSUME ThumbnailInv, NEW raw \in Seq(Character), CanonicalPath(raw) \in DOMAIN views
  PROVE  /\ CardViews(raw) = {CanonicalPath(raw)}
         /\ Key[CanonicalPath(raw)] = CacheKey(raw)
<1>1. DOMAIN views \subseteq Path
  BY PagesFit DEF ThumbnailInv, ViewInv, ViewTypes, ToSet
<1>2. ASSUME NEW q \in Path
      PROVE  EquivalentPaths(raw, q) <=> CanonicalPath(raw) = q
  <2>1. PICK r \in RawPath : q = Canonical[r]
    BY DEF Path
  <2>2. r \in Seq(Character)
    BY DrawingAssumption DEF RawPath, ToSet
  <2>3. q = CanonicalPath(r)
    BY <2>1 DEF Canonical
  <2> QED
    BY <2>2, <2>3, CanonicalPaths
<1>3. CardViews(raw) = {CanonicalPath(raw)}
  BY <1>1, <1>2 DEF CardViews
<1>4. Key[CanonicalPath(raw)] = CacheKey(CanonicalPath(raw))
  BY <1>1 DEF Key
<1> QED
  BY <1>3, <1>4, KeyIsKept

\* For any pages, spellings and threads: the last frame wins, and when it is shown
\* each of its first cards finds one view, which is of the texture its path names.
THEOREM CardsShowTheirTexture == Spec => []AskedIsShown
<1>1. ThumbnailInv => AskedIsShown
  <2> SUFFICES ASSUME ThumbnailInv PROVE AskedIsShown
    OBVIOUS
  <2>1. LastFrameWins
    BY DEF ThumbnailInv, LookupInv
  <2>2. ASSUME asked # None, pending = None, NEW i \in DOMAIN asked.paths, i <= MaxVisible
        PROVE  LET p == CanonicalPath(asked.paths[i])
               IN  /\ p \in DOMAIN views /\ CardViews(asked.paths[i]) = {p}
                   /\ Key[p] = CacheKey(asked.paths[i])
    <3>1. asked \in Drawing /\ shown = PageOf(asked)
      BY <2>1, <2>2 DEF LastFrameWins, ThumbnailInv, OtherTypes
    <3>2. DOMAIN views = ToSet(VisiblePaths(asked.paths))
      BY <3>1, PagesFit DEF ThumbnailInv, ViewInv, ViewTypes
    <3>3. CanonicalPath(asked.paths[i]) \in DOMAIN views
      BY <2>2, <3>1, <3>2, VisibleOnce
    <3>4. asked.paths[i] \in Seq(Character)
      BY <3>1, DrawnPaths
    <3> QED
      BY <3>3, <3>4, CardsFindTheirView
  <2> QED
    BY <2>1, <2>2 DEF AskedIsShown
<1> QED
  BY <1>1, ThumbnailInvariance, PTL
=============================================================================
