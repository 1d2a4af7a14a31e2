------------------------------ MODULE EventBus -------------------------------
(****************************************************************************)
(* nexus-core/src/events.rs: the synchronous event bus.  Threads raise      *)
(* events and run the subscribed callbacks one by one; a running callback   *)
(* may raise, subscribe, unsubscribe or clean up in its turn, so that every *)
(* thread has a stack of frames.  The registry lock is taken per operation, *)
(* each subscription has an admission (a mutex and a condition variable) of *)
(* its own, and a dispatch works on a snapshot taken before it calls out.   *)
(*                                                                          *)
(* A subscription is one insertion: its event, owner generation and         *)
(* callback are fixed.  An owner is a record [signature, generation].       *)
(****************************************************************************)
EXTENDS Selection, FiniteSets

CONSTANTS
    Threads,
    Subs,           \* the insertions that may happen
    EventOf, OwnerOf, CallbackOf,       \* functions on Subs
    MaxDepth,       \* bound on the frames of one thread
    Nobody          \* no thread holds the registry for writing

ASSUME DepthIsPositive == MaxDepth \in Nat \ {0}
ASSUME NobodyIsNoThread == Nobody \notin Threads
ASSUME ThreadsFinite == IsFiniteSet(Threads)

Events == {EventOf[s] : s \in Subs}
Owners == {OwnerOf[s] : s \in Subs}
Signatures == {o.signature : o \in Owners}

\* OwnerToken: generations count from 1.
ASSUME OwnersAreTokens == OwnerOf \in [Subs -> [signature : Signatures, generation : Nat \ {0}]]

VARIABLES
    subscriptions,          \* EventRegistry: the live insertions of each event
    retired_generations,    \* EventRegistry: highest generation cleaned up
    retiring,               \* EventRegistry: closed admissions still watched
    writer,                 \* the thread inside a longer write-locked section
    accepting,              \* AdmissionState of each insertion
    in_flight,              \* AdmissionState
    by_thread,              \* AdmissionState
    inserted,               \* insertions that have happened
    stack,                  \* the frames of each thread, innermost last
    silent                  \* history: owners remove_owner reported quiescent

registry == <<subscriptions, retired_generations, retiring>>
admissions == <<accepting, in_flight, by_thread>>
vars == <<registry, writer, admissions, inserted, stack, silent>>

Ops == {"dispatch", "call", "closing", "waiting", "retiring", "reporting"}
Frame == [op : Ops, todo : Seq(Subs), batch : Seq(Subs), owners : SUBSET Owners]

\* Every thread's stack holds frames of the operations of the bus.
TypeOK ==
    /\ subscriptions \in [Events -> Seq(Subs)]
    /\ retired_generations \in [Signatures -> Nat]
    /\ retiring \in [Owners -> SUBSET Subs]
    /\ writer \in Threads \cup {Nobody}
    /\ accepting \in [Subs -> BOOLEAN]
    /\ in_flight \in [Subs -> Nat]
    /\ by_thread \in [Subs -> [Threads -> Nat]]
    /\ inserted \in SUBSET Subs
    /\ stack \in [Threads -> Seq(Frame)]
    /\ silent \in SUBSET Owners

Init ==
    /\ subscriptions = [e \in Events |-> <<>>]
    /\ retired_generations = [g \in Signatures |-> 0]
    /\ retiring = [o \in Owners |-> {}]
    /\ writer = Nobody
    /\ accepting = [s \in Subs |-> TRUE]
    /\ in_flight = [s \in Subs |-> 0]
    /\ by_thread = [s \in Subs |-> [t \in Threads |-> 0]]
    /\ inserted = {}
    /\ stack = [t \in Threads |-> <<>>]
    /\ silent = {}

----------------------------------------------------------------------------
(* Stacks and snapshots *)

Busy(t) == stack[t] # <<>>
Top(t) == stack[t][Len(stack[t])]
Below(t) == SubSeq(stack[t], 1, Len(stack[t]) - 1)
At(t, op) == Busy(t) /\ Top(t).op = op

\* The thread runs code of its own: outside the bus, or inside a callback.
CanCall(t) == Len(stack[t]) < MaxDepth /\ (Busy(t) => Top(t).op = "call")

Push(t, frame) == stack' = [stack EXCEPT ![t] = Append(@, frame)]
Pop(t) == stack' = [stack EXCEPT ![t] = Below(t)]
Become(t, frame) == stack' = [stack EXCEPT ![t] = Append(Below(t), frame)]

NewFrame(op, subs) ==
    [op |-> op, todo |-> subs, batch |-> subs,
     owners |-> {OwnerOf[s] : s \in Elements(subs)}]

Live == UNION {Elements(subscriptions[e]) : e \in Events}

----------------------------------------------------------------------------
(* subscribe *)

\* A retired generation is refused under the same lock: no step.
\* (Bug: without the tombstone.)
SubscribeAnyGeneration(t, s) ==
    /\ CanCall(t)
    /\ writer = Nobody
    /\ s \notin inserted
    /\ subscriptions' = [subscriptions EXCEPT ![EventOf[s]] = Append(@, s)]
    /\ inserted' = inserted \cup {s}
    /\ UNCHANGED <<retired_generations, retiring, writer, admissions, stack, silent>>

Subscribe(t, s) ==
    /\ CanCall(t)
    /\ writer = Nobody
    /\ s \notin inserted
    /\ OwnerOf[s].generation > retired_generations[OwnerOf[s].signature]
    /\ subscriptions' = [subscriptions EXCEPT ![EventOf[s]] = Append(@, s)]
    /\ inserted' = inserted \cup {s}
    /\ UNCHANGED <<retired_generations, retiring, writer, admissions, stack, silent>>

----------------------------------------------------------------------------
(* dispatch, for raise (every signature) and raise_targeted (one) *)

Raise(t, e, signatures) ==
    LET snapshot == Only(subscriptions[e], {s \in Subs : OwnerOf[s].signature \in signatures})
    IN  /\ CanCall(t)
        /\ writer = Nobody
        /\ snapshot # <<>>
        /\ Push(t, [NewFrame("dispatch", snapshot) EXCEPT !.batch = <<>>])
        /\ UNCHANGED <<registry, writer, admissions, inserted, silent>>

\* Bug: the permit is granted on a closed admission, or a nested call by the
\* same thread is not counted again.
AdmitClosed(t) ==
    /\ At(t, "dispatch")
    /\ Top(t).todo # <<>>
    /\ LET s == Head(Top(t).todo)
       IN  /\ in_flight' = [in_flight EXCEPT ![s] = @ + 1]
           /\ by_thread' = [by_thread EXCEPT ![s][t] = @ + 1]
    /\ Become(t, [Top(t) EXCEPT !.op = "call"])
    /\ UNCHANGED <<registry, writer, accepting, inserted, silent>>
AdmitThreadOnce(t) ==
    /\ At(t, "dispatch")
    /\ Top(t).todo # <<>>
    /\ LET s == Head(Top(t).todo)
       IN  /\ accepting[s]
           /\ in_flight' = [in_flight EXCEPT ![s] = @ + 1]
           /\ by_thread' = [by_thread EXCEPT ![s][t] = 1]
    /\ Become(t, [Top(t) EXCEPT !.op = "call"])
    /\ UNCHANGED <<registry, writer, accepting, inserted, silent>>

\* try_enter granted a permit: the handler runs with no lock held.
Admit(t) ==
    /\ At(t, "dispatch")
    /\ Top(t).todo # <<>>
    /\ LET s == Head(Top(t).todo)
       IN  /\ accepting[s]
           /\ in_flight' = [in_flight EXCEPT ![s] = @ + 1]
           /\ by_thread' = [by_thread EXCEPT ![s][t] = @ + 1]
    /\ Become(t, [Top(t) EXCEPT !.op = "call"])
    /\ UNCHANGED <<registry, writer, accepting, inserted, silent>>

\* It was closed after the snapshot: this callback is skipped.
SkipClosed(t) ==
    /\ At(t, "dispatch")
    /\ Top(t).todo # <<>>
    /\ ~accepting[Head(Top(t).todo)]
    /\ Become(t, [Top(t) EXCEPT !.todo = Tail(@)])
    /\ UNCHANGED <<registry, writer, admissions, inserted, silent>>

\* Bug: a panicking handler leaves twice.
ReturnTwice(t) ==
    /\ At(t, "call")
    /\ LET s == Head(Top(t).todo)
       IN  \E n \in {1, 2} :
              /\ in_flight' = [in_flight EXCEPT ![s] = @ - n]
              /\ by_thread' = [by_thread EXCEPT ![s][t] = @ - n]
    /\ Become(t, [Top(t) EXCEPT !.op = "dispatch", !.todo = Tail(@)])
    /\ UNCHANGED <<registry, writer, accepting, inserted, silent>>

\* The handler returned or panicked; dropping the permit leaves.
Return(t) ==
    /\ At(t, "call")
    /\ LET s == Head(Top(t).todo)
       IN  /\ in_flight' = [in_flight EXCEPT ![s] = @ - 1]
           /\ by_thread' = [by_thread EXCEPT ![s][t] = @ - 1]
    /\ Become(t, [Top(t) EXCEPT !.op = "dispatch", !.todo = Tail(@)])
    /\ UNCHANGED <<registry, writer, accepting, inserted, silent>>

\* reap_quiescent for each owner met, after a dispatch or an exact retirement.
Quiescent(o) == \A s \in retiring[o] : in_flight[s] = 0

\* (Bug: only dispatches reap.)
ReapAfterDispatch(t, o) ==
    /\ At(t, "dispatch") \/ At(t, "waiting")
    /\ Top(t).todo = <<>>
    /\ o \in Top(t).owners
    /\ writer = Nobody
    /\ retiring' = [retiring EXCEPT ![o] =
                       IF At(t, "dispatch") /\ Quiescent(o) THEN {} ELSE @]
    /\ IF Top(t).owners = {o}
       THEN Pop(t)
       ELSE Become(t, [Top(t) EXCEPT !.owners = @ \ {o}])
    /\ UNCHANGED <<subscriptions, retired_generations, writer, admissions,
                   inserted, silent>>

Reap(t, o) ==
    /\ At(t, "dispatch") \/ At(t, "waiting")
    /\ Top(t).todo = <<>>
    /\ o \in Top(t).owners
    /\ writer = Nobody
    /\ retiring' = [retiring EXCEPT ![o] = IF Quiescent(o) THEN {} ELSE @]
    /\ IF Top(t).owners = {o}
       THEN Pop(t)
       ELSE Become(t, [Top(t) EXCEPT !.owners = @ \ {o}])
    /\ UNCHANGED <<subscriptions, retired_generations, writer, admissions,
                   inserted, silent>>

----------------------------------------------------------------------------
(* unsubscribe_registration, unsubscribe, unsubscribe_owner *)

\* What one call may match: one insertion, all insertions of a callback under
\* one event, or those of one owner generation only.
Matches(e) ==
    LET live == Elements(subscriptions[e])
    IN  {{s} : s \in live}
        \cup {{r \in live : CallbackOf[r] = CallbackOf[s]} : s \in live}
        \cup {{r \in live : CallbackOf[r] = CallbackOf[s] /\ OwnerOf[r] = OwnerOf[s]} :
                 s \in live}

\* retire_matching: the lock is kept while the admissions are closed in turn.
Unsubscribe(t, e, matched) ==
    /\ CanCall(t)
    /\ writer = Nobody
    /\ writer' = t
    /\ Push(t, NewFrame("closing", Only(subscriptions[e], matched)))
    /\ subscriptions' = [subscriptions EXCEPT ![e] = Only(@, Subs \ matched)]
    /\ UNCHANGED <<retired_generations, retiring, admissions, inserted, silent>>

\* stage_retirement: close one admission and watch it.
CloseNext(t) ==
    /\ At(t, "closing") \/ At(t, "retiring")
    /\ Top(t).todo # <<>>
    /\ LET s == Head(Top(t).todo)
       IN  /\ accepting' = [accepting EXCEPT ![s] = FALSE]
           /\ retiring' = [retiring EXCEPT ![OwnerOf[s]] = @ \cup {s}]
    /\ Become(t, [Top(t) EXCEPT !.todo = Tail(@)])
    /\ UNCHANGED <<subscriptions, retired_generations, writer, in_flight, by_thread,
                   inserted, silent>>

\* All staged: the lock is released, then the exact functions wait for each.
Staged(t) ==
    /\ At(t, "closing") \/ At(t, "retiring")
    /\ Top(t).todo = <<>>
    /\ writer' = Nobody
    /\ \/ /\ At(t, "closing")
          /\ Become(t, [Top(t) EXCEPT !.op = "waiting", !.todo = Top(t).batch])
       \/ /\ At(t, "retiring")
          /\ Become(t, [Top(t) EXCEPT !.op = "reporting"])
    /\ UNCHANGED <<registry, admissions, inserted, silent>>

\* Bug: a reentrant caller does not wait, or waits for itself.
WaitOverIfInside(t) ==
    /\ At(t, "waiting")
    /\ Top(t).todo # <<>>
    /\ LET s == Head(Top(t).todo) IN in_flight[s] = 0 \/ by_thread[s][t] # 0
    /\ Become(t, [Top(t) EXCEPT !.todo = Tail(@)])
    /\ UNCHANGED <<registry, writer, admissions, inserted, silent>>
WaitOverAtZero(t) ==
    /\ At(t, "waiting")
    /\ Top(t).todo # <<>>
    /\ LET s == Head(Top(t).todo) IN in_flight[s] = 0
    /\ Become(t, [Top(t) EXCEPT !.todo = Tail(@)])
    /\ UNCHANGED <<registry, writer, admissions, inserted, silent>>

\* wait_for_other_threads returns once only this thread is inside.
WaitOver(t) ==
    /\ At(t, "waiting")
    /\ Top(t).todo # <<>>
    /\ LET s == Head(Top(t).todo) IN in_flight[s] <= by_thread[s][t]
    /\ Become(t, [Top(t) EXCEPT !.todo = Tail(@)])
    /\ UNCHANGED <<registry, writer, admissions, inserted, silent>>

----------------------------------------------------------------------------
(* remove_owner *)

Larger(a, b) == IF a > b THEN a ELSE b

RemoveOwner(t, o) ==
    LET owned == {s \in Subs : OwnerOf[s] = o}
        \* The events are visited in some order; the code's is a hash map's.
        removed == Live \cap owned
        orders == {q \in [1..Cardinality(removed) -> removed] :
                      /\ Elements(q) = removed
                      /\ \A e \in Events : Only(q, {s \in Subs : EventOf[s] = e})
                                              = Only(subscriptions[e], owned)}
    IN  /\ CanCall(t)
        /\ writer = Nobody
        /\ writer' = t
        /\ retired_generations' =
              [retired_generations EXCEPT ![o.signature] = Larger(@, o.generation)]
        /\ subscriptions' = [e \in Events |-> Only(subscriptions[e], Subs \ owned)]
        /\ \E q \in orders :
              Push(t, [NewFrame("retiring", q) EXCEPT !.batch = <<>>, !.owners = {o}])
        /\ UNCHANGED <<retiring, admissions, inserted, silent>>

\* owner_retirement: a second write-locked section makes the report.
Report(t) ==
    /\ At(t, "reporting")
    /\ writer = Nobody
    /\ LET quiet == {o \in Top(t).owners : Quiescent(o)}
       IN  /\ retiring' = [o \in Owners |-> IF o \in quiet THEN {} ELSE retiring[o]]
           /\ silent' = silent \cup quiet
    /\ Pop(t)
    /\ UNCHANGED <<subscriptions, retired_generations, writer, admissions, inserted>>

----------------------------------------------------------------------------
Step(t) ==
    \/ Admit(t) \/ SkipClosed(t) \/ Return(t)
    \/ \E o \in Owners : Reap(t, o)
    \/ CloseNext(t) \/ Staged(t) \/ WaitOver(t) \/ Report(t)

Operation(t) ==
    \/ \E s \in Subs : Subscribe(t, s)
    \/ \E e \in Events, signatures \in {Signatures} \cup {{g} : g \in Signatures} :
          Raise(t, e, signatures)
    \/ \E e \in Events : \E matched \in Matches(e) : Unsubscribe(t, e, matched)
    \/ \E o \in Owners : RemoveOwner(t, o)

Next == \E t \in Threads : Step(t) \/ Operation(t)

Spec == Init /\ [][Next]_vars

\* A thread inside the bus keeps running and is not denied the registry lock
\* for ever (strong fairness); and at every depth, a callback that is given
\* control again and again returns at last, its only step of the bus there.
\* Nobody has to start an operation.
FairSpec ==
    /\ Spec
    /\ \A t \in Threads, d \in 1..MaxDepth : SF_vars(Len(stack[t]) = d /\ Step(t))

----------------------------------------------------------------------------
(* Properties *)

Calling(t) == {i \in DOMAIN stack[t] : stack[t][i].op = "call"}
Running(t, s) == {i \in Calling(t) : Head(stack[t][i].todo) = s}

\* remove_owner reported quiescent: "callers must require a quiescent report
\* before unloading native code".  No thread is in a callback of that owner,
\* now or later, whatever snapshots were taken before the report.
QuiescentReportIsSilent ==
    \A o \in silent, t \in Threads : \A i \in Calling(t) :
        OwnerOf[Head(stack[t][i].todo)] # o

\* An exact unsubscription that has waited is alone: no other thread runs the
\* removed callbacks, so their caller may free what they use.
UnsubscriberIsAlone ==
    \A t, u \in Threads : \A i \in DOMAIN stack[t] :
        LET f == stack[t][i]
            waited == SubSeq(f.batch, 1, Len(f.batch) - Len(f.todo))
        IN  f.op = "waiting" /\ t # u =>
                \A s \in Elements(waited) : Running(u, s) = {}

\* The counters are the frames: leave's debug_asserts hold, nested callbacks
\* included, and the thread count tells reentry from other threads.
CountersMatchFrames ==
    \A s \in Subs :
        /\ \A t \in Threads : by_thread[s][t] = Cardinality(Running(t, s))
        /\ in_flight[s] = Cardinality(UNION {{t} \X Running(t, s) : t \in Threads})

\* subscribe's comment: "a cleanup that wins the race permanently rejects this
\* generation while a subscription that wins is observed and retired".
CleanedOwnerHasNoSubscription ==
    writer = Nobody =>
        \A s \in Live :
            OwnerOf[s].generation # retired_generations[OwnerOf[s].signature]

\* Closed admissions are not kept for ever: once no thread is in the bus,
\* nothing waits to be reaped.
NothingLeftToReap ==
    (\A t \in Threads : ~Busy(t)) => \A o \in Owners : retiring[o] = {}

\* remove_owner never waits ("reentrant cleanup is deadlock-free"), so that the
\* one way a call into the bus does not return is a ring of callbacks that
\* unsubscribe each other: each waits for a callback another of them runs in.
WaitsFor(t, u) ==
    /\ At(t, "waiting") /\ Top(t).todo # <<>>
    /\ u # t /\ Running(u, Head(Top(t).todo)) # {}
WaitRing == \E ring \in SUBSET Threads :
    ring # {} /\ \A t \in ring : \E u \in ring : WaitsFor(t, u)

CallsReturn == \A t \in Threads : Busy(t) ~> ~Busy(t) \/ WaitRing
=============================================================================
