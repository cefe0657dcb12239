--------------------------- MODULE ThumbnailLocks ----------------------------
(***************************************************************************)
(* The two locks of the thumbnails, one step finer than Thumbnails: what   *)
(* NativeThumbnailController::m_mutex and D3D11NativeThumbnailSource::     *)
(* m_mutex are taken for, and in which order.  Neither is recursive.       *)
(*                                                                         *)
(* A call is the sequence of the sections it locks.  One section of a load *)
(* locks both: the last check of the request is made under the source's    *)
(* lock.  Data is left out, so a section may be skipped whenever no lock   *)
(* is held: a return, an exception, or a prune that is not due.            *)
(***************************************************************************)
EXTENDS Naturals, Sequences

CONSTANTS
  Thread,      \* threads that draw, load or reset
  MaxVisible,  \* paths of a page
  None

Lock == {"controller", "source"}

ASSUME MaxVisibleAssumption == MaxVisible \in Nat
ASSUME NoneAssumption == None \notin Thread /\ None \notin Lock

\* A section holds a lock, and another one within.
Section == [lock: Lock, inner: Lock \cup {None}]
Alone(l) == [lock |-> l, inner |-> None]

\* Mutant: the lookups are made under the controller's lock.
SynchronizeLocked(n) == <<[lock |-> "controller", inner |-> "source"]>>

\* synchronize looks n paths up between two sections of its own; after an
\* exception of a lookup the second one is that of its handler.
Synchronize(n) ==
  <<Alone("controller")>> \o [i \in 1 .. n |-> Alone("source")]
    \o <<Alone("controller")>>

\* pruneExpired, takeNextRequest, and complete if the scheduler throws.
Pump == <<Alone("source"), Alone("controller"), Alone("controller")>>

\* A frame ends with the views.
Draw(n) == Synchronize(n) \o Pump \o <<Alone("controller")>>

\* isCurrent, find, isCurrent, the upload with isCurrent within, complete.
Load ==
  <<Alone("controller"), Alone("source"), Alone("controller"),
    [lock |-> "source", inner |-> "controller"], Alone("controller")>>

Reset == <<Alone("controller"), Alone("source")>>

Call == {Draw(n) : n \in 0 .. MaxVisible} \cup {Load, Reset}

VARIABLES
  todo,  \* [Thread -> the sections its call has left]
  owner  \* [Lock -> the thread that holds it, or None]

vars == <<todo, owner>>

Init ==
  /\ todo = [t \in Thread |-> <<>>]
  /\ owner = [l \in Lock |-> None]

Busy(t) == todo[t] # <<>>
Section1(t) == Head(todo[t])
Holds(t, l) == owner[l] = t
HoldsNothing(t) == \A l \in Lock : ~Holds(t, l)

Begin(t) ==
  /\ ~Busy(t)
  /\ \E call \in Call : todo' = [todo EXCEPT ![t] = call]
  /\ UNCHANGED owner

Skip(t) ==
  /\ Busy(t) /\ HoldsNothing(t)
  /\ todo' = [todo EXCEPT ![t] = Tail(@)]
  /\ UNCHANGED owner

\* The lock a thread asks for next, if it asks for one.  It would ask again for
\* the lock it holds if it took the same one within.
Asks(t, l) ==
  /\ Busy(t)
  /\ \/ HoldsNothing(t) /\ l = Section1(t).lock
     \/ Holds(t, Section1(t).lock) /\ l = Section1(t).inner /\ l # None
          /\ (Holds(t, l) => l = Section1(t).lock)

Acquire(t, l) ==
  /\ Asks(t, l) /\ owner[l] = None
  /\ owner' = [owner EXCEPT ![l] = t]
  /\ UNCHANGED todo

\* The end of the inner section, and of the outer one.
ReleaseInner(t) ==
  /\ Busy(t) /\ Section1(t).inner \notin {None, Section1(t).lock}
  /\ Holds(t, Section1(t).lock) /\ Holds(t, Section1(t).inner)
  /\ owner' = [owner EXCEPT ![Section1(t).inner] = None]
  /\ todo' = [todo EXCEPT ![t] = <<Alone(Section1(t).lock)>> \o Tail(@)]

Release(t) ==
  /\ Busy(t) /\ Section1(t).inner = None
  /\ Holds(t, Section1(t).lock)
  /\ owner' = [owner EXCEPT ![Section1(t).lock] = None]
  /\ todo' = [todo EXCEPT ![t] = Tail(@)]

Step(t) ==
  \/ Begin(t) \/ Skip(t)
  \/ \E l \in Lock : Acquire(t, l)
  \/ ReleaseInner(t) \/ Release(t)

Next == \E t \in Thread : Step(t)

Spec == Init /\ [][Next]_vars

-----------------------------------------------------------------------------
(* Properties.                                                             *)

\* Only the upload's section is nested.
TypeOK ==
  /\ todo \in [Thread -> Seq(Section)]
  /\ owner \in [Lock -> Thread \cup {None}]
  /\ \A l \in Lock : owner[l] # None => Busy(owner[l])

WaitsFor(t, u) == \E l \in Lock : Asks(t, l) /\ owner[l] = u

\* No two threads wait for each other, and none for itself: a frame asks for
\* the source's lock with the controller's released (synchronize, lines 71
\* to 114), and only a load holds both, the source's first.
NoLockCycle == \A t, u \in Thread : ~(WaitsFor(t, u) /\ WaitsFor(u, t))
=============================================================================
