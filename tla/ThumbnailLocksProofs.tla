------------------------ MODULE ThumbnailLocksProofs -------------------------
(***************************************************************************)
(* No deadlock between the two locks of the thumbnails, for any number of  *)
(* threads and any size of a page.                                         *)
(***************************************************************************)
EXTENDS ThumbnailLocks, SequenceTheorems, TLAPS

\* The sections there are: only the upload's is nested, the source's lock
\* first.
Upload == [lock |-> "source", inner |-> "controller"]
Known == {Alone(l) : l \in Lock} \cup {Upload}

\* A lock is held for the section its thread is in.
HeldFor(t, l) ==
  /\ Busy(t)
  /\ \/ l = Section1(t).lock
     \/ l = Section1(t).inner /\ Holds(t, Section1(t).lock)

IInv ==
  /\ todo \in [Thread -> Seq(Known)]
  /\ owner \in [Lock -> Thread \cup {None}]
  /\ \A l \in Lock, t \in Thread : Holds(t, l) => HeldFor(t, l)

-----------------------------------------------------------------------------
(* Calls are sequences of known sections.                                  *)

\* Both locks are taken alone, and one pair is nested.
LEMMA KnownSections ==
  /\ Alone("controller") \in Known /\ Alone("source") \in Known
  /\ Upload \in Known
  /\ Known \subseteq Section
  /\ \A s \in Known : /\ s.lock \in Lock /\ s.inner \in Lock \cup {None}
                      /\ s.inner # None => s = Upload
                      /\ Alone(s.lock) \in Known
BY NoneAssumption DEF Known, Alone, Upload, Section, Lock

\* synchronize for n paths.
LEMMA SynchronizeType ==
  ASSUME NEW n \in 0 .. MaxVisible
  PROVE  Synchronize(n) \in Seq(Known)
<1>1. n \in Nat
  BY MaxVisibleAssumption
<1>2. [i \in 1 .. n |-> Alone("source")] \in Seq(Known)
  BY <1>1, KnownSections
<1>3. <<Alone("controller")>> \in Seq(Known)
  BY KnownSections
<1>4. <<Alone("controller")>> \o [i \in 1 .. n |-> Alone("source")] \in Seq(Known)
  BY <1>2, <1>3, ConcatProperties
<1> QED
  BY <1>3, <1>4, ConcatProperties DEF Synchronize

\* Every call.
LEMMA CallType ==
  ASSUME NEW c \in Call
  PROVE  c \in Seq(Known)
<1>1. ASSUME NEW n \in 0 .. MaxVisible
      PROVE  Draw(n) \in Seq(Known)
  <2>1. Pump \in Seq(Known) /\ <<Alone("controller")>> \in Seq(Known)
    BY KnownSections DEF Pump
  <2>2. Synchronize(n) \o Pump \in Seq(Known)
    BY <2>1, SynchronizeType, ConcatProperties
  <2> QED
    BY <2>1, <2>2, ConcatProperties DEF Draw
<1>2. Load \in Seq(Known)
  BY KnownSections DEF Load, Upload
<1>3. Reset \in Seq(Known)
  BY KnownSections DEF Reset
<1> QED
  BY <1>1, <1>2, <1>3 DEF Call

\* The section a busy thread is in.
LEMMA CurrentSection ==
  ASSUME IInv, NEW t \in Thread, Busy(t)
  PROVE  /\ Section1(t) \in Known
         /\ Tail(todo[t]) \in Seq(Known)
<1>1. todo[t] \in Seq(Known) /\ todo[t] # <<>>
  BY DEF IInv, Busy
<1> QED
  BY <1>1, HeadTailProperties DEF Section1

-----------------------------------------------------------------------------
(* The inductive invariant.                                                *)

\* Nothing is held at first.
LEMMA InitIInv == Init => IInv
BY NoneAssumption DEF Init, IInv, Holds

\* A step of a thread leaves the others where they are.
LEMMA OthersKeep ==
  ASSUME IInv, NEW t \in Thread, NEW u \in Thread \ {t}, NEW l \in Lock,
         todo'[u] = todo[u], Holds(u, l),
         \A m \in Lock : Holds(u, m) => Holds(u, m)'
  PROVE  HeldFor(u, l)'
<1>1. HeldFor(u, l)
  BY DEF IInv
<1>2. Section1(u).lock \in Lock
  BY <1>1, CurrentSection, KnownSections DEF HeldFor
<1> QED
  BY <1>1, <1>2 DEF HeldFor, Busy, Section1

\* A call begins without a lock.
LEMMA BeginIInv ==
  ASSUME IInv, NEW t \in Thread, Begin(t)
  PROVE  IInv'
<1>1. PICK call \in Call : todo' = [todo EXCEPT ![t] = call]
  BY DEF Begin
<1>2. todo' \in [Thread -> Seq(Known)]
  BY <1>1, CallType DEF IInv
<1>3. ASSUME NEW l \in Lock, NEW u \in Thread, Holds(u, l)'
      PROVE  HeldFor(u, l)'
  <2>1. Holds(u, l)
    BY <1>3 DEF Begin, Holds
  <2>2. u # t
    BY <2>1 DEF IInv, HeldFor, Begin
  <2>3. todo'[u] = todo[u]
    BY <1>1, <2>2 DEF IInv
  <2> QED
    BY <2>1, <2>2, <2>3, OthersKeep DEF Begin, Holds
<1> QED
  BY <1>2, <1>3 DEF IInv, Begin

\* A section that is left out held nothing.
LEMMA SkipIInv ==
  ASSUME IInv, NEW t \in Thread, Skip(t)
  PROVE  IInv'
<1>1. todo' \in [Thread -> Seq(Known)]
  BY CurrentSection DEF IInv, Skip
<1>2. ASSUME NEW l \in Lock, NEW u \in Thread, Holds(u, l)'
      PROVE  HeldFor(u, l)'
  <2>1. Holds(u, l)
    BY <1>2 DEF Skip, Holds
  <2>2. u # t
    BY <2>1 DEF Skip, HoldsNothing
  <2>3. todo'[u] = todo[u]
    BY <2>2 DEF Skip, IInv
  <2> QED
    BY <2>1, <2>2, <2>3, OthersKeep DEF Skip, Holds
<1> QED
  BY <1>1, <1>2 DEF IInv, Skip

\* A lock is acquired for the section its thread is in.
LEMMA AcquireIInv ==
  ASSUME IInv, NEW t \in Thread, NEW l \in Lock, Acquire(t, l)
  PROVE  IInv'
<1>1. /\ owner' = [owner EXCEPT ![l] = t] /\ todo' = todo
      /\ owner[l] = None /\ Asks(t, l)
  BY DEF Acquire
<1>2. owner' \in [Lock -> Thread \cup {None}]
  BY <1>1 DEF IInv
<1>3. ASSUME NEW u \in Thread, NEW m \in Lock, Holds(u, m)
      PROVE  Holds(u, m)'
  BY <1>1, <1>3, NoneAssumption DEF Holds, IInv
<1>4. ASSUME NEW m \in Lock, NEW u \in Thread, Holds(u, m)'
      PROVE  HeldFor(u, m)'
  <2>1. CASE m = l
    <3>1. u = t
      BY <1>1, <1>4, <2>1 DEF Holds, IInv
    <3>2. Section1(t).lock \in Lock
      BY <1>1, CurrentSection, KnownSections DEF Asks
    <3> QED
      BY <1>1, <1>3, <2>1, <3>1, <3>2 DEF HeldFor, Asks, Busy, Section1
  <2>2. CASE m # l
    <3>1. HeldFor(u, m)
      BY <1>1, <1>4, <2>2 DEF Holds, IInv
    <3>2. Section1(u).lock \in Lock
      BY <3>1, CurrentSection, KnownSections DEF HeldFor
    <3> QED
      BY <1>1, <1>3, <3>1, <3>2 DEF HeldFor, Busy, Section1
  <2> QED
    BY <2>1, <2>2
<1> QED
  BY <1>1, <1>2, <1>4 DEF IInv

\* Only the source's lock is left after an inner section.
LEMMA ReleaseInnerIInv ==
  ASSUME IInv, NEW t \in Thread, ReleaseInner(t)
  PROVE  IInv'
<1> DEFINE rest == <<Alone(Section1(t).lock)>> \o Tail(todo[t])
<1>1. /\ Section1(t) = Upload /\ Busy(t)
      /\ owner' = [owner EXCEPT !["controller"] = None]
      /\ todo' = [todo EXCEPT ![t] = rest]
      /\ Holds(t, "source") /\ Holds(t, "controller")
  <2>1. Busy(t) /\ Section1(t).inner # None
    BY DEF ReleaseInner
  <2>2. Section1(t) = Upload
    BY <2>1, CurrentSection, KnownSections
  <2>3. Section1(t).lock = "source" /\ Section1(t).inner = "controller"
    BY <2>2 DEF Upload
  <2> QED
    BY <2>1, <2>2, <2>3 DEF ReleaseInner
<1>2. Tail(todo[t]) \in Seq(Known) /\ Alone("source") \in Known
  BY <1>1, CurrentSection, KnownSections
<1>3. rest \in Seq(Known) /\ rest # <<>> /\ Head(rest) = Alone("source")
  <2>1. rest = <<Alone("source")>> \o Tail(todo[t])
    BY <1>1 DEF Upload
  <2>2. <<Alone("source")>> \in Seq(Known)
    BY <1>2
  <2>3. /\ rest \in Seq(Known)
        /\ Len(rest) = 1 + Len(Tail(todo[t]))
        /\ rest[1] = Alone("source")
    BY <2>1, <2>2, <1>2, ConcatProperties, LenProperties
  <2>4. Len(Tail(todo[t])) \in Nat
    BY <1>2, LenProperties
  <2>5. Len(rest) # 0
    BY <2>3, <2>4
  <2>6. rest # <<>>
    BY <2>5
  <2> QED
    BY <2>3, <2>6
<1> HIDE DEF rest
<1>4. todo' \in [Thread -> Seq(Known)] /\ owner' \in [Lock -> Thread \cup {None}]
  BY <1>1, <1>3 DEF IInv
<1>5. ASSUME NEW l \in Lock, NEW u \in Thread, Holds(u, l)'
      PROVE  HeldFor(u, l)'
  <2>1. Holds(u, l) /\ l = "source"
    BY <1>1, <1>5, NoneAssumption DEF Holds, IInv, Lock
  <2>2. u = t
    BY <1>1, <2>1 DEF Holds
  <2>3. todo'[t] = rest
    BY <1>1 DEF IInv
  <2> QED
    BY <1>3, <2>1, <2>2, <2>3 DEF HeldFor, Busy, Section1, Alone
<1> QED
  BY <1>4, <1>5 DEF IInv

\* A section that ends leaves its thread without a lock.
LEMMA ReleaseIInv ==
  ASSUME IInv, NEW t \in Thread, Release(t)
  PROVE  IInv'
<1>1. /\ Busy(t) /\ Section1(t).inner = None /\ Section1(t).lock \in Lock
      /\ owner' = [owner EXCEPT ![Section1(t).lock] = None]
      /\ todo' = [todo EXCEPT ![t] = Tail(todo[t])]
  BY CurrentSection, KnownSections DEF Release
<1>2. todo' \in [Thread -> Seq(Known)] /\ owner' \in [Lock -> Thread \cup {None}]
  BY <1>1, CurrentSection DEF IInv
<1>3. ASSUME NEW l \in Lock, NEW u \in Thread, Holds(u, l)'
      PROVE  HeldFor(u, l)'
  <2>1. Holds(u, l) /\ l # Section1(t).lock
    BY <1>1, <1>3, NoneAssumption DEF Holds, IInv
  <2>2. u # t
    BY <1>1, <2>1, NoneAssumption DEF IInv, HeldFor
  <2>3. todo'[u] = todo[u]
    BY <1>1, <2>2 DEF IInv
  <2>4. \A m \in Lock : Holds(u, m) => Holds(u, m)'
    BY <1>1, <2>2 DEF Holds, IInv, Release
  <2> QED
    BY <2>1, <2>2, <2>3, <2>4, OthersKeep
<1> QED
  BY <1>2, <1>3 DEF IInv

\* Every step keeps the invariant.
LEMMA NextIInv == IInv /\ [Next]_vars => IInv'
<1> SUFFICES ASSUME IInv, [Next]_vars
             PROVE  IInv'
  OBVIOUS
<1>1. CASE Next
  <2>1. PICK t \in Thread : Step(t)
    BY <1>1 DEF Next
  <2> QED
    BY <2>1, BeginIInv, SkipIInv, AcquireIInv, ReleaseInnerIInv, ReleaseIInv DEF Step
<1>2. CASE UNCHANGED vars
  BY <1>2 DEF vars, IInv, Holds, HeldFor, Busy, Section1
<1> QED
  BY <1>1, <1>2

\* A thread that waits while it holds a lock holds the source's.
LEMMA WaitingHoldsSource ==
  ASSUME IInv, NEW t \in Thread, NEW l \in Lock, NEW m \in Lock,
         Asks(t, l), Holds(t, m)
  PROVE  m = "source" /\ l = "controller"
<1>1. HeldFor(t, m) /\ Section1(t) \in Known
  BY CurrentSection DEF IInv, Asks
<1>2. Holds(t, Section1(t).lock) /\ l = Section1(t).inner /\ l # None
      /\ (Holds(t, l) => l = Section1(t).lock)
  BY DEF Asks, HoldsNothing
<1>3. Section1(t) = Upload
  BY <1>1, <1>2, KnownSections
<1> QED
  BY <1>1, <1>2, <1>3 DEF HeldFor, Upload

\* What the invariant says.
LEMMA IInvImplies == IInv => TypeOK /\ NoLockCycle
<1> SUFFICES ASSUME IInv
             PROVE  TypeOK /\ NoLockCycle
  OBVIOUS
<1>1. TypeOK
  <2>1. todo \in [Thread -> Seq(Section)]
    BY KnownSections DEF IInv
  <2> QED
    BY <2>1 DEF IInv, TypeOK, Holds, HeldFor
<1>2. ASSUME NEW t \in Thread, NEW u \in Thread, WaitsFor(t, u), WaitsFor(u, t)
      PROVE  FALSE
  <2>1. PICK l \in Lock : Asks(t, l) /\ Holds(u, l)
    BY <1>2 DEF WaitsFor, Holds
  <2>2. PICK m \in Lock : Asks(u, m) /\ Holds(t, m)
    BY <1>2 DEF WaitsFor, Holds
  <2>3. m = "source" /\ l = "controller"
    BY <2>1, <2>2, WaitingHoldsSource
  <2>4. l = "source"
    BY <2>1, <2>2, WaitingHoldsSource
  <2> QED
    BY <2>3, <2>4
<1> QED
  BY <1>1, <1>2 DEF NoLockCycle

\* The invariant always holds.
LEMMA InvariantHolds == Spec => []IInv
BY InitIInv, NextIInv, PTL DEF Spec

\* Only the upload's section is nested, and a lock is held only by a thread
\* that is in a call.
THEOREM LocksTyped == Spec => []TypeOK
BY InvariantHolds, IInvImplies, PTL

\* Whatever threads draw, load and reset at once, no two of them wait for
\* each other (NativeThumbnailController::synchronize releases its lock
\* before a lookup, D3D11NativeThumbnailSource::load is the only one to hold
\* both).
THEOREM LocksAcyclic == Spec => []NoLockCycle
BY InvariantHolds, IInvImplies, PTL
=============================================================================
