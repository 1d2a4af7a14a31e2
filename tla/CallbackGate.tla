---------------------------- MODULE CallbackGate -----------------------------
(****************************************************************************)
(* nexus-core/src/callback_gate.rs: the admission gate and drain counter in *)
(* front of every detour and every addon callback.  Each atomic operation,  *)
(* lock acquisition and condition-variable step of the code is one action,  *)
(* so that calls, closers and drain waiters interleave between any two of   *)
(* them.  The atomics are read and written in one total order: the          *)
(* read-modify-writes of the x86-64 target are full barriers.               *)
(*                                                                          *)
(* A call is one activation of try_enter .. CallbackGuard::drop; nested     *)
(* activations on one thread are different calls.                           *)
(****************************************************************************)
EXTENDS Naturals, FiniteSets

CONSTANTS
    Calls,          \* activations that try to pass the gate
    Waiters,        \* activations of wait_for_drain
    Free            \* the drain mutex is not held

ASSUME CallsFinite == IsFiniteSet(Calls)
ASSUME FreeIsNobody == Free \notin Waiters

VARIABLES
    accepting,      \* AtomicBool accepting
    in_flight,      \* AtomicUsize in_flight
    drain_mutex,    \* the waiter that holds drain_mutex, or Free
    call,           \* where each call is in try_enter and leave
    waiter,         \* where each waiter is in wait_for_drain
    sealed          \* history: the gate was closed when this wait began

vars == <<accepting, in_flight, drain_mutex, call, waiter, sealed>>

CallStates == {"out", "invited", "counted", "inside", "retreating", "notifying"}
WaiterStates == {"idle", "arriving", "testing", "parking", "sleeping",
                 "notified", "expired", "drained", "timed_out"}

\* in_flight is a natural number: no fetch_sub takes it below zero.
TypeOK ==
    /\ accepting \in BOOLEAN
    /\ in_flight \in Nat
    /\ drain_mutex \in Waiters \cup {Free}
    /\ call \in [Calls -> CallStates]
    /\ waiter \in [Waiters -> WaiterStates]
    /\ sealed \in [Waiters -> BOOLEAN]

\* Calls whose fetch_add has happened and whose fetch_sub has not.
Counted == {c \in Calls : call[c] \in {"counted", "inside", "retreating"}}
Inside == {c \in Calls : call[c] = "inside"}

Init ==
    /\ accepting = TRUE
    /\ in_flight = 0
    /\ drain_mutex = Free
    /\ call = [c \in Calls |-> "out"]
    /\ waiter = [w \in Waiters |-> "idle"]
    /\ sealed = [w \in Waiters |-> FALSE]

----------------------------------------------------------------------------
(* try_enter: load, fetch_add, load again *)

\* On a closed gate the first load ends the call with None: no step.
LoadOpen(c) ==
    /\ call[c] = "out"
    /\ accepting
    /\ call' = [call EXCEPT ![c] = "invited"]
    /\ UNCHANGED <<accepting, in_flight, drain_mutex, waiter, sealed>>

Count(c) ==
    /\ call[c] = "invited"
    /\ in_flight' = in_flight + 1
    /\ call' = [call EXCEPT ![c] = "counted"]
    /\ UNCHANGED <<accepting, drain_mutex, waiter, sealed>>

\* Bug: no second load, or a refused one that does not leave.
RecheckNothing(c) ==
    /\ call[c] = "counted"
    /\ call' = [call EXCEPT ![c] = "inside"]
    /\ UNCHANGED <<accepting, in_flight, drain_mutex, waiter, sealed>>
RecheckForgets(c) ==
    /\ call[c] = "counted"
    /\ call' = [call EXCEPT ![c] = IF accepting THEN "inside" ELSE "out"]
    /\ UNCHANGED <<accepting, in_flight, drain_mutex, waiter, sealed>>

Recheck(c) ==
    /\ call[c] = "counted"
    /\ call' = [call EXCEPT ![c] = IF accepting THEN "inside" ELSE "retreating"]
    /\ UNCHANGED <<accepting, in_flight, drain_mutex, waiter, sealed>>

----------------------------------------------------------------------------
(* leave, from CallbackGuard::drop or from a refused recheck *)

\* Bug: a refused call leaves by itself and through its guard, or leaves
\* without notifying.
UncountTwice(c) ==
    /\ call[c] \in {"inside", "retreating"}
    /\ in_flight' = in_flight - (IF call[c] = "inside" THEN 1 ELSE 2)
    /\ call' = [call EXCEPT ![c] = IF in_flight = 1 THEN "notifying" ELSE "out"]
    /\ UNCHANGED <<accepting, drain_mutex, waiter, sealed>>
UncountQuietly(c) ==
    /\ call[c] \in {"inside", "retreating"}
    /\ in_flight' = in_flight - 1
    /\ call' = [call EXCEPT ![c] =
                  IF in_flight = 1 /\ call[c] = "inside" THEN "notifying" ELSE "out"]
    /\ UNCHANGED <<accepting, drain_mutex, waiter, sealed>>

Uncount(c) ==
    /\ call[c] \in {"inside", "retreating"}
    /\ in_flight' = in_flight - 1
    /\ call' = [call EXCEPT ![c] = IF in_flight = 1 THEN "notifying" ELSE "out"]
    /\ UNCHANGED <<accepting, drain_mutex, waiter, sealed>>

\* Bug: notify_all without the mutex.
NotifyUnlocked(c) ==
    /\ call[c] = "notifying"
    /\ waiter' = [w \in Waiters |->
                    IF waiter[w] = "sleeping" THEN "notified" ELSE waiter[w]]
    /\ call' = [call EXCEPT ![c] = "out"]
    /\ UNCHANGED <<accepting, in_flight, drain_mutex, sealed>>

\* notify_all under drain_mutex; lock and unlock enclose nothing else.
Notify(c) ==
    /\ call[c] = "notifying"
    /\ drain_mutex = Free
    /\ waiter' = [w \in Waiters |->
                    IF waiter[w] = "sleeping" THEN "notified" ELSE waiter[w]]
    /\ call' = [call EXCEPT ![c] = "out"]
    /\ UNCHANGED <<accepting, in_flight, drain_mutex, sealed>>

Close ==
    /\ accepting' = FALSE
    /\ UNCHANGED <<in_flight, drain_mutex, call, waiter, sealed>>

----------------------------------------------------------------------------
(* wait_for_drain *)

GoTo(w, state) == waiter' = [waiter EXCEPT ![w] = state]

\* The load before the lock.
FastTest(w) ==
    /\ waiter[w] = "idle"
    /\ GoTo(w, IF in_flight = 0 THEN "drained" ELSE "arriving")
    /\ sealed' = [sealed EXCEPT ![w] = ~accepting]
    /\ UNCHANGED <<accepting, in_flight, drain_mutex, call>>

\* lock(&drain_mutex) on arrival, and the reacquisition inside wait_timeout.
Lock(w) ==
    /\ waiter[w] \in {"arriving", "notified"}
    /\ drain_mutex = Free
    /\ drain_mutex' = w
    /\ GoTo(w, "testing")
    /\ UNCHANGED <<accepting, in_flight, call, sealed>>

\* The loop's load saw zero: return true and unlock.
TestZero(w) ==
    /\ waiter[w] = "testing"
    /\ in_flight = 0
    /\ drain_mutex' = Free
    /\ GoTo(w, "drained")
    /\ UNCHANGED <<accepting, in_flight, call, sealed>>

\* It saw calls in flight and time remains: about to wait, still locked.
TestBusy(w) ==
    /\ waiter[w] = "testing"
    /\ in_flight # 0
    /\ GoTo(w, "parking")
    /\ UNCHANGED <<accepting, in_flight, drain_mutex, call, sealed>>

\* It saw calls in flight and no time remains: return false and unlock.
TestTooLate(w) ==
    /\ waiter[w] = "testing"
    /\ in_flight # 0
    /\ drain_mutex' = Free
    /\ GoTo(w, "timed_out")
    /\ UNCHANGED <<accepting, in_flight, call, sealed>>

\* wait_timeout releases the mutex and sleeps in one step.
Park(w) ==
    /\ waiter[w] = "parking"
    /\ drain_mutex' = Free
    /\ GoTo(w, "sleeping")
    /\ UNCHANGED <<accepting, in_flight, call, sealed>>

SpuriousWake(w) ==
    /\ waiter[w] = "sleeping"
    /\ GoTo(w, "notified")
    /\ UNCHANGED <<accepting, in_flight, drain_mutex, call, sealed>>

Expire(w) ==
    /\ waiter[w] = "sleeping"
    /\ GoTo(w, "expired")
    /\ UNCHANGED <<accepting, in_flight, drain_mutex, call, sealed>>

\* Bug: an expired wait counts as a drain.
LastTestSkipped(w) ==
    /\ waiter[w] = "expired"
    /\ drain_mutex = Free
    /\ GoTo(w, "drained")
    /\ UNCHANGED <<accepting, in_flight, drain_mutex, call, sealed>>

\* timed_out(): one last load under the reacquired mutex decides.
LastTest(w) ==
    /\ waiter[w] = "expired"
    /\ drain_mutex = Free
    /\ GoTo(w, IF in_flight = 0 THEN "drained" ELSE "timed_out")
    /\ UNCHANGED <<accepting, in_flight, drain_mutex, call, sealed>>

\* Every caller retries a drain that timed out.
Retry(w) ==
    /\ waiter[w] = "timed_out"
    /\ GoTo(w, "idle")
    /\ sealed' = [sealed EXCEPT ![w] = FALSE]
    /\ UNCHANGED <<accepting, in_flight, drain_mutex, call>>

----------------------------------------------------------------------------
CallStep(c) == LoadOpen(c) \/ Count(c) \/ Recheck(c) \/ Uncount(c) \/ Notify(c)

WaiterStep(w) ==
    \/ FastTest(w) \/ Lock(w) \/ TestZero(w) \/ TestBusy(w) \/ Park(w) \/ LastTest(w)

\* Time-outs, the retries that follow them, and wake-ups nobody asked for.
ClockStep(w) ==
    TestTooLate(w) \/ SpuriousWake(w) \/ Expire(w) \/ Retry(w)

Next ==
    \/ \E c \in Calls : CallStep(c)
    \/ Close
    \/ \E w \in Waiters : WaiterStep(w) \/ ClockStep(w)

Spec == Init /\ [][Next]_vars

\* An admitted native callback returns, and a thread that is able to run its
\* next instruction runs it.  Nobody has to call, to close, to time out or to
\* try again.
FairSpec ==
    /\ Spec
    /\ \A c \in Calls : /\ WF_vars(Count(c)) /\ WF_vars(Recheck(c))
                        /\ WF_vars(Uncount(c)) /\ WF_vars(Notify(c))
    /\ \A w \in Waiters : WF_vars(WaiterStep(w))

----------------------------------------------------------------------------
(* Properties *)

\* wait_for_drain returned true on a closed gate: no callback is running, now
\* or later, so the module behind the gate may be unmapped.
DrainedMeansSilent ==
    \A w \in Waiters : waiter[w] = "drained" /\ sealed[w] =>
        ~accepting /\ Inside = {}

\* The counter is exactly the number of calls between fetch_add and fetch_sub,
\* so it returns to zero and never wraps below it (leave's debug_assert).
CountIsExact == in_flight = Cardinality(Counted)

\* leave's comment "Pairing notification with this mutex prevents a waiter
\* from observing a nonzero count and then missing the final wakeup": whoever
\* sleeps, or is bound to, while nothing is in flight has a wake-up coming.
NoLostWakeup ==
    \A w \in Waiters : waiter[w] \in {"parking", "sleeping"} /\ in_flight = 0 =>
        \E c \in Calls : call[c] = "notifying"

\* A closed gate drains without any help from the clock: once no more waits
\* expire, every wait that is not already over ends, and it ends with true.
Patient == <>[][\A w \in Waiters : ~ClockStep(w)]_vars
ClosedGateDrains ==
    Patient => \A w \in Waiters : ~accepting ~> waiter[w] \in {"drained", "timed_out"}

\* Who holds the mutex, and what sealed records: with the properties above,
\* the inductive invariant of the gate.
MutexHolder ==
    \A w \in Waiters : waiter[w] \in {"testing", "parking"} <=> drain_mutex = w
SealedIsClosed == \A w \in Waiters : sealed[w] => ~accepting

IInv ==
    /\ TypeOK
    /\ MutexHolder
    /\ SealedIsClosed
    /\ CountIsExact
    /\ NoLostWakeup
    /\ DrainedMeansSilent

\* What the gate promises: the addon life cycle is built on this.
Gate == INSTANCE AdmissionGate WITH
            open    <- accepting,
            inside  <- Inside,
            drained <- \E w \in Waiters : waiter[w] = "drained" /\ sealed[w]
ImplementsAdmissionGate == Gate!Spec
=============================================================================
