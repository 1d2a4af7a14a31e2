------------------------ MODULE CallbackGate_proofs --------------------------
(****************************************************************************)
(* The admission gate for any finite number of calls and any number of      *)
(* waiters: its counter is exact, a drain reported on a closed gate means   *)
(* that nobody is inside, no wake-up is lost, and the gate implements       *)
(* AdmissionGate.  IInv is inductive; the count needs the library's facts   *)
(* about adding and removing one element of a finite set.                   *)
(****************************************************************************)
EXTENDS CallbackGate, FiniteSetTheorems, TLAPS

\* Counted is a subset of Calls, so it is finite, and empty at count zero.
LEMMA CountedFinite ==
    /\ IsFiniteSet(Counted)
    /\ Cardinality(Counted) \in Nat
    /\ Cardinality(Counted) = 0 <=> Counted = {}
<1>1. Counted \in SUBSET Calls
  BY DEF Counted
<1>2. IsFiniteSet(Counted)
  BY <1>1, CallsFinite, FS_Subset
<1> QED
  BY <1>2, FS_CardinalityType, FS_EmptySet

\* A zero count means that no call is inside (wait_for_drain's load).
LEMMA ZeroMeansNobodyInside ==
    ASSUME CountIsExact, in_flight = 0
    PROVE  Inside = {}
<1>1. Counted = {}
  BY CountedFinite DEF CountIsExact
<1> QED
  BY <1>1 DEF Inside, Counted

\* fetch_add: the set of counted calls gains the call.
LEMMA CountAdds ==
    ASSUME TypeOK, CountIsExact, NEW c \in Calls, Count(c)
    PROVE  CountIsExact'
<1>1. Counted' = Counted \cup {c} /\ c \notin Counted
  BY DEF Counted, Count, TypeOK
<1>2. Cardinality(Counted') = Cardinality(Counted) + 1
  BY <1>1, CountedFinite, FS_AddElement
<1> QED
  BY <1>2 DEF CountIsExact, Count

\* fetch_sub: the set loses the call, and the count was not zero.
LEMMA UncountRemoves ==
    ASSUME TypeOK, CountIsExact, NEW c \in Calls, Uncount(c)
    PROVE  CountIsExact' /\ in_flight > 0
<1>1. Counted' = Counted \ {c} /\ c \in Counted
  BY DEF Counted, Uncount, TypeOK
<1>2. Cardinality(Counted') = Cardinality(Counted) - 1
  BY <1>1, CountedFinite, FS_RemoveElement
<1>3. Cardinality(Counted) # 0
  BY <1>1, CountedFinite
<1> QED
  BY <1>2, <1>3, CountedFinite DEF CountIsExact, Uncount

\* Every other step leaves the counted calls and the count alone.
LEMMA CountUnchanged ==
    ASSUME CountIsExact, UNCHANGED in_flight, Counted' = Counted
    PROVE  CountIsExact'
BY DEF CountIsExact

-----------------------------------------------------------------------------
LEMMA InitIInv == Init => IInv
<1> SUFFICES ASSUME Init PROVE IInv
  OBVIOUS
<1>1. Counted = {}
  BY DEF Init, Counted
<1>2. CountIsExact
  BY <1>1, FS_EmptySet DEF Init, CountIsExact
<1>3. TypeOK
  BY DEF Init, TypeOK, CallStates, WaiterStates
<1> QED
  BY <1>2, <1>3, FreeIsNobody
     DEF Init, IInv, MutexHolder, SealedIsClosed, NoLostWakeup, DrainedMeansSilent

LEMMA CallStepIInv ==
    ASSUME IInv, NEW c \in Calls, CallStep(c)
    PROVE  IInv'
<1> USE DEF IInv
<1>1. CASE LoadOpen(c)
  <2>1. TypeOK'
    BY <1>1 DEF LoadOpen, TypeOK, CallStates
  <2>2. Counted' = Counted /\ Inside' = Inside
    BY <1>1 DEF LoadOpen, Counted, Inside, TypeOK
  <2>3. CountIsExact'
    BY <1>1, <2>2, CountUnchanged DEF LoadOpen
  <2>4. NoLostWakeup'
    BY <1>1 DEF LoadOpen, NoLostWakeup, TypeOK
  <2> QED
    BY <1>1, <2>1, <2>2, <2>3, <2>4
       DEF LoadOpen, MutexHolder, SealedIsClosed, DrainedMeansSilent
<1>2. CASE Count(c)
  <2>1. TypeOK'
    BY <1>2 DEF Count, TypeOK, CallStates
  <2>2. Inside' = Inside
    BY <1>2 DEF Count, Inside, TypeOK
  <2>3. CountIsExact'
    BY <1>2, CountAdds
  <2>4. NoLostWakeup'
    BY <1>2 DEF Count, NoLostWakeup, TypeOK
  <2> QED
    BY <1>2, <2>1, <2>2, <2>3, <2>4
       DEF Count, MutexHolder, SealedIsClosed, DrainedMeansSilent
<1>3. CASE Recheck(c)
  <2>1. TypeOK'
    BY <1>3 DEF Recheck, TypeOK, CallStates
  <2>2. Counted' = Counted
    BY <1>3 DEF Recheck, Counted, TypeOK
  <2>3. CountIsExact'
    BY <1>3, <2>2, CountUnchanged DEF Recheck
  <2>4. NoLostWakeup'
    BY <1>3 DEF Recheck, NoLostWakeup, TypeOK
  <2>5. DrainedMeansSilent'
    <3>1. ~accepting => Inside' = Inside
      BY <1>3 DEF Recheck, Inside, TypeOK
    <3> QED
      BY <1>3, <3>1 DEF Recheck, DrainedMeansSilent
  <2> QED
    BY <1>3, <2>1, <2>3, <2>4, <2>5
       DEF Recheck, MutexHolder, SealedIsClosed
<1>4. CASE Uncount(c)
  <2>1. CountIsExact' /\ in_flight > 0
    BY <1>4, UncountRemoves
  <2>2. TypeOK'
    BY <1>4, <2>1 DEF Uncount, TypeOK, CallStates
  <2>3. Inside' \subseteq Inside
    BY <1>4 DEF Uncount, Inside, TypeOK
  <2>4. NoLostWakeup'
    <3>1. in_flight' = 0 => call'[c] = "notifying"
      BY <1>4, <2>1 DEF Uncount, TypeOK
    <3> QED
      BY <3>1 DEF NoLostWakeup
  <2>5. DrainedMeansSilent'
    BY <1>4, <2>3 DEF Uncount, DrainedMeansSilent
  <2> QED
    BY <1>4, <2>1, <2>2, <2>4, <2>5 DEF Uncount, MutexHolder, SealedIsClosed
<1>5. CASE Notify(c)
  <2>1. TypeOK'
    BY <1>5 DEF Notify, TypeOK, CallStates, WaiterStates
  <2>2. Counted' = Counted /\ Inside' = Inside
    BY <1>5 DEF Notify, Counted, Inside, TypeOK
  <2>3. CountIsExact'
    BY <1>5, <2>2, CountUnchanged DEF Notify
  <2>4. MutexHolder'
    BY <1>5, FreeIsNobody DEF Notify, MutexHolder, TypeOK
  <2>5. NoLostWakeup'
    \* Nobody is parking while the mutex is free, and all sleepers are woken.
    BY <1>5, FreeIsNobody DEF Notify, NoLostWakeup, MutexHolder, TypeOK
  <2> QED
    BY <1>5, <2>1, <2>2, <2>3, <2>4, <2>5
       DEF Notify, SealedIsClosed, DrainedMeansSilent
<1> QED
  BY <1>1, <1>2, <1>3, <1>4, <1>5 DEF CallStep

LEMMA CloseIInv ==
    ASSUME IInv, Close
    PROVE  IInv'
<1>1. Counted' = Counted /\ Inside' = Inside
  BY DEF Close, Counted, Inside
<1>2. CountIsExact'
  BY <1>1, CountUnchanged DEF Close, IInv
<1> QED
  BY <1>1, <1>2 DEF Close, IInv, TypeOK, MutexHolder, SealedIsClosed,
                    NoLostWakeup, DrainedMeansSilent

LEMMA WaiterStepIInv ==
    ASSUME IInv, NEW w \in Waiters, WaiterStep(w) \/ ClockStep(w)
    PROVE  IInv'
<1> USE DEF IInv, GoTo
<1>1. TypeOK'
  BY FreeIsNobody DEF WaiterStep, ClockStep, FastTest, Lock, TestZero, TestBusy, Park,
       TestTooLate, SpuriousWake, Expire, LastTest, Retry, TypeOK, WaiterStates
<1>2. UNCHANGED <<accepting, in_flight, call>>
  BY DEF WaiterStep, ClockStep, FastTest, Lock, TestZero, TestBusy, Park,
       TestTooLate, SpuriousWake, Expire, LastTest, Retry
<1>3. Counted' = Counted /\ Inside' = Inside
  BY <1>2 DEF Counted, Inside
<1>4. CountIsExact'
  BY <1>2, <1>3, CountUnchanged
<1>5. MutexHolder'
  BY FreeIsNobody DEF WaiterStep, ClockStep, FastTest, Lock, TestZero, TestBusy, Park,
       TestTooLate, SpuriousWake, Expire, LastTest, Retry, TypeOK, MutexHolder
<1>6. SealedIsClosed'
  BY <1>2 DEF WaiterStep, ClockStep, FastTest, Lock, TestZero, TestBusy, Park,
       TestTooLate, SpuriousWake, Expire, LastTest, Retry, TypeOK, SealedIsClosed
<1>7. NoLostWakeup'
  <2>1. ASSUME NEW v \in Waiters, waiter'[v] \in {"parking", "sleeping"}
        PROVE  waiter[v] \in {"parking", "sleeping"} \/ in_flight # 0
    BY <2>1 DEF WaiterStep, ClockStep, FastTest, Lock, TestZero, TestBusy, Park,
         TestTooLate, SpuriousWake, Expire, LastTest, Retry, TypeOK
  <2> QED
    BY <1>2, <2>1 DEF NoLostWakeup
<1>8. DrainedMeansSilent'
  \* A waiter that becomes drained has just seen a zero count.
  <2>1. ASSUME NEW v \in Waiters, waiter'[v] = "drained", sealed'[v]
        PROVE  \/ waiter[v] = "drained" /\ sealed[v]
               \/ in_flight = 0
    BY <2>1 DEF WaiterStep, ClockStep, FastTest, Lock, TestZero, TestBusy, Park,
         TestTooLate, SpuriousWake, Expire, LastTest, Retry, TypeOK
  <2>2. in_flight = 0 => Inside = {}
    BY ZeroMeansNobodyInside
  <2> QED
    BY <1>2, <1>3, <1>6, <2>1, <2>2 DEF DrainedMeansSilent, SealedIsClosed
<1> QED
  BY <1>1, <1>4, <1>5, <1>6, <1>7, <1>8

LEMMA NextIInv == IInv /\ [Next]_vars => IInv'
<1> SUFFICES ASSUME IInv, [Next]_vars PROVE IInv'
  OBVIOUS
<1>1. CASE UNCHANGED vars
  <2>1. Counted' = Counted /\ Inside' = Inside
    BY <1>1 DEF vars, Counted, Inside
  <2> QED
    BY <1>1, <2>1 DEF vars, IInv, TypeOK, MutexHolder, SealedIsClosed,
                      CountIsExact, NoLostWakeup, DrainedMeansSilent
<1> QED
  BY <1>1, CallStepIInv, CloseIInv, WaiterStepIInv DEF Next

-----------------------------------------------------------------------------
\* The inductive invariant holds in every reachable state.
THEOREM Inductive == Spec => []IInv
BY InitIInv, NextIInv, PTL DEF Spec

\* Every variable keeps its type: in particular the counter never goes below
\* zero (leave's debug_assert against underflow).
THEOREM TypeCorrect == Spec => []TypeOK
<1>1. IInv => TypeOK
  BY DEF IInv
<1> QED
  BY <1>1, Inductive, PTL

\* A drain reported on a closed gate: nobody is inside (wait_for_drain).
THEOREM DrainIsSound == Spec => []DrainedMeansSilent
<1>1. IInv => DrainedMeansSilent
  BY DEF IInv
<1> QED
  BY <1>1, Inductive, PTL

\* in_flight counts exactly the calls between fetch_add and fetch_sub.
THEOREM CountCorrect == Spec => []CountIsExact
<1>1. IInv => CountIsExact
  BY DEF IInv
<1> QED
  BY <1>1, Inductive, PTL

\* leave's notification under drain_mutex reaches every waiter that needs it.
THEOREM WakeupNeverLost == Spec => []NoLostWakeup
<1>1. IInv => NoLostWakeup
  BY DEF IInv
<1> QED
  BY <1>1, Inductive, PTL

-----------------------------------------------------------------------------
Reported == \E w \in Waiters : waiter[w] = "drained" /\ sealed[w]

\* Every step of the gate is a step of AdmissionGate or leaves it unchanged.
LEMMA StepRefines ==
    ASSUME IInv, IInv', Next
    PROVE  Gate!Next \/ UNCHANGED Gate!vars
<1> USE DEF IInv, Gate!Next, Gate!vars
<1>1. ASSUME NEW c \in Calls, CallStep(c)
      PROVE  Gate!Next \/ UNCHANGED Gate!vars
  <2>1. UNCHANGED <<accepting, sealed>> /\ (Reported' <=> Reported)
    BY <1>1 DEF CallStep, LoadOpen, Count, Recheck, Uncount, Notify, TypeOK, Reported
  <2>2. \/ Inside' = Inside
        \/ accepting /\ c \notin Inside /\ Inside' = Inside \cup {c}
        \/ c \in Inside /\ Inside' = Inside \ {c}
    BY <1>1 DEF CallStep, LoadOpen, Count, Recheck, Uncount, Notify, TypeOK, Inside
  <2> QED
    BY <2>1, <2>2 DEF Gate!Enter, Gate!Leave, Reported
<1>2. CASE Close
  <2>1. Inside' = Inside /\ (Reported' <=> Reported)
    BY <1>2 DEF Close, Inside, Reported
  <2> QED
    BY <1>2, <2>1 DEF Close, Gate!Close, Reported
<1>3. ASSUME NEW w \in Waiters, WaiterStep(w) \/ ClockStep(w)
      PROVE  Gate!Next \/ UNCHANGED Gate!vars
  <2>1. UNCHANGED <<accepting, call>> /\ Inside' = Inside
    BY <1>3 DEF WaiterStep, ClockStep, FastTest, Lock, TestZero, TestBusy, Park,
         TestTooLate, SpuriousWake, Expire, LastTest, Retry, Inside
  <2>2. Reported => Reported'
    BY <1>3 DEF WaiterStep, ClockStep, FastTest, Lock, TestZero, TestBusy, Park,
         TestTooLate, SpuriousWake, Expire, LastTest, Retry, GoTo, TypeOK, Reported
  <2>3. Reported' => ~accepting' /\ Inside' = {}
    BY DEF Reported, DrainedMeansSilent
  <2> QED
    BY <2>1, <2>2, <2>3 DEF Gate!ReportDrained, Reported
<1> QED
  BY <1>1, <1>2, <1>3 DEF Next

\* The gate as implemented keeps the promise the addon life cycle relies on.
THEOREM Refinement == Spec => ImplementsAdmissionGate
<1>1. Init => Gate!Init
  BY DEF Init, Gate!Init, Inside
<1>2. IInv /\ IInv' /\ [Next]_vars => [Gate!Next]_(Gate!vars)
  <2> SUFFICES ASSUME IInv, IInv', [Next]_vars
               PROVE  Gate!Next \/ UNCHANGED Gate!vars
    OBVIOUS
  <2>1. CASE UNCHANGED vars
    BY <2>1 DEF vars, Gate!vars, Inside
  <2> QED
    BY <2>1, StepRefines
<1> QED
  BY <1>1, <1>2, Inductive, PTL DEF Spec, ImplementsAdmissionGate, Gate!Spec
=============================================================================
