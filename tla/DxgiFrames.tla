----------------------------- MODULE DxgiFrames ------------------------------
(****************************************************************************)
(* nexus-dxgi/src/manager.rs: what the detours of Present, ResizeBuffers    *)
(* and SetColorSpace1 do around the native call.  Any thread may be in any  *)
(* of them for any swap chain; the render lane, a flag that nobody waits    *)
(* for, admits one of them to the renderer, and what the others retire is   *)
(* left in pending for whoever has the lane next.                           *)
(*                                                                          *)
(* One action per section of the policy or pending lock and per exchange of *)
(* the lane.  Which candidate the classifier selects is left open.          *)
(****************************************************************************)
EXTENDS OverlayAdapter, RenderSession

CONSTANTS
    Surfaces, Colors,   \* what inspection finds, and what SetColorSpace1 sets
    Unknown,            \* UNKNOWN_COLOR_SPACE, before the first SetColorSpace1
    MaxSequence,        \* u64::MAX: the last Present sequence
    MaxEvents           \* bound: intercepted calls, and what happens outside them

ASSUME SequencesAreBounded == MaxSequence \in Nat

VARIABLES
    lane,               \* RenderLane::occupied
    pending,            \* pending_retirements
    closing,            \* Inner::closing, and the gate closed with it
    sequence,           \* PolicyState::sequence
    controls,           \* whether the render controls permit rendering
    chain,              \* PolicyState::tracked
    current,            \* the classifier's primary
    sessions,           \* PolicyState::registry
    pc, frame,          \* per thread: where it is, and its invocation
    issued,             \* history: the last retirement decided for each chain
    failed,             \* history: the generations that failed to render
    events              \* for the bound: calls begun, and other events

policy == <<closing, sequence, controls, chain, current, sessions>>
history == <<issued, failed, events>>
threads == <<pc, frame>>
vars == <<overlay, lane, pending, policy, threads, history>>

NoLook == <<>>
Looks == Surfaces \X (Colors \cup {Unknown})
NoRetirement == [generation |-> 0, sequence |-> 0]
NoFrame == [op |-> "none", id |-> Nobody, lane |-> FALSE, sweeping |-> FALSE,
            sequence |-> 0, generation |-> 0, then |-> "idle", retire |-> {},
            succeeded |-> FALSE]

ChainType == [tracked : BOOLEAN, last : 0..MaxSequence, look : Looks \cup {NoLook},
              seen : 0..MaxSequence, occluded : BOOLEAN,
              color : Colors \cup {Unknown}]
Pcs == {"idle", "drain", "policy", "inspect", "permit", "render", "record", "outcome",
        "resize", "native", "after", "defer", "release", "sweep", "check"}

\* The state of the policy and the overlay is what the code's types allow,
\* sequences stay within their bound, and the lane is held by one call at most:
\* two would meet in the adapter, whose try_operation refuses the second.
TypeOK ==
    /\ OverlayTypeOK
    /\ closing \in BOOLEAN /\ controls \in BOOLEAN
    /\ lane = (\E t \in Threads : frame[t].lane)
    /\ \A t, u \in Threads : frame[t].lane /\ frame[u].lane => t = u
    /\ sequence \in 0..MaxSequence
    /\ \A r \in pending : r.id \in Chains /\ r.generation \in Nat \ {0}
    /\ chain \in [Chains -> ChainType]
    /\ current \in Chains \cup {Nobody}
    /\ DOMAIN sessions \subseteq Chains
    /\ \A c \in DOMAIN sessions :
          /\ sessions[c].look \in Looks /\ sessions[c].lifecycle \in Lifecycles
          /\ sessions[c].generation \in Nat \ {0}
          /\ sessions[c].failures \in FailureState
          /\ sessions[c].outcome \in 0..MaxSequence
    /\ pc \in [Threads -> Pcs]

\* track_swap_chain: nothing is known of a new chain.
NewChain == [tracked |-> FALSE, last |-> 0, look |-> NoLook, seen |-> 0,
             occluded |-> FALSE, color |-> Unknown]

\* Some chains were tracked before the first call.
Init ==
    /\ OverlayInit
    /\ lane = FALSE
    /\ pending = {}
    /\ closing = FALSE
    /\ sequence = 0
    /\ controls = TRUE
    /\ \E tracked \in SUBSET Chains :
          chain = [c \in Chains |-> [NewChain EXCEPT !.tracked = c \in tracked]]
    /\ current = Nobody
    /\ sessions = <<>>
    /\ pc = [t \in Threads |-> "idle"]
    /\ frame = [t \in Threads |-> NoFrame]
    /\ issued = [c \in Chains |-> NoRetirement]
    /\ failed = {}
    /\ events = 0

----------------------------------------------------------------------------
\* Bounds the calls, and what else is done to the manager and the adapter.
Event ==
    /\ events < MaxEvents
    /\ events' = events + 1
    /\ UNCHANGED <<issued, failed>>

Goto(t, to) == pc' = [pc EXCEPT ![t] = to]
At(t, label) == pc[t] = label
SetFrame(t, f) == frame' = [frame EXCEPT ![t] = f]
Return(t) == Goto(t, "idle") /\ SetFrame(t, NoFrame)

\* Bug: the lane is read and then written, so a second call gets it too.
TryLaneRacily(t, f, then) ==
    /\ lane' = TRUE
    /\ Goto(t, "drain") /\ SetFrame(t, [f EXCEPT !.lane = TRUE, !.then = then])

\* try_render_lane drains what is pending once it has the lane; without the
\* lane the call goes on at once.
TryLane(t, f, then) ==
    /\ lane' = TRUE
    /\ IF lane
       THEN Goto(t, then) /\ SetFrame(t, f)
       ELSE Goto(t, "drain") /\ SetFrame(t, [f EXCEPT !.lane = TRUE, !.then = then])

\* drain_deferred_retirements_in_lane: what was taken from pending is retired on
\* this thread, until pending is found empty.
DrainInLane(t) ==
    /\ At(t, "drain")
    /\ IF pending = {}
       THEN /\ Goto(t, frame[t].then) /\ SetFrame(t, [frame[t] EXCEPT !.then = "idle"])
            /\ UNCHANGED <<pending, overlay>>
       ELSE pending' = {} /\ Retire(t, pending) /\ UNCHANGED threads
    /\ UNCHANGED <<lane, policy, history>>

\* finish_render_lane: drained once more, the lane is released.
Finish(t, f) ==
    IF f.lane
    THEN Goto(t, "drain") /\ SetFrame(t, [NoFrame EXCEPT !.lane = TRUE, !.then = "release"])
    ELSE Return(t)

\* retire_or_defer, and the end of the call.
RetireOrDefer(t, f, retirements) ==
    IF retirements = {} \/ f.lane
    THEN Retire(t, retirements) /\ Finish(t, f)
    ELSE /\ Goto(t, "defer") /\ SetFrame(t, [f EXCEPT !.retire = retirements])
         /\ UNCHANGED overlay

Defer(t) ==
    /\ At(t, "defer")
    /\ pending' = pending \cup frame[t].retire
    /\ Goto(t, "sweep") /\ SetFrame(t, NoFrame)
    /\ UNCHANGED <<overlay, lane, policy, history>>

\* Bug: the releaser does not look again at what was deferred meanwhile.
ReleaseOnly(t) ==
    /\ At(t, "release")
    /\ lane' = FALSE
    /\ Return(t)
    /\ UNCHANGED <<overlay, pending, policy, history>>

\* After the release, drain_deferred_retirements_if_available, whose own
\* release is followed by a look at pending.
ReleaseLane(t) ==
    /\ At(t, "release")
    /\ lane' = FALSE
    /\ Goto(t, IF frame[t].sweeping THEN "check" ELSE "sweep")
    /\ SetFrame(t, NoFrame)
    /\ UNCHANGED <<overlay, pending, policy, history>>

Sweep(t) ==
    /\ At(t, "sweep")
    /\ lane' = TRUE
    /\ IF lane
       THEN Return(t)
       ELSE /\ Goto(t, "drain")
            /\ SetFrame(t, [NoFrame EXCEPT !.lane = TRUE, !.sweeping = TRUE, !.then = "release"])
    /\ UNCHANGED <<overlay, pending, policy, history>>

CheckPending(t) ==
    /\ At(t, "check")
    /\ Goto(t, IF pending = {} THEN "idle" ELSE "sweep")
    /\ UNCHANGED <<overlay, lane, pending, policy, frame, history>>

----------------------------------------------------------------------------
(* PolicyState *)

\* reconcile_render_selection over the chains as they are now, for the given
\* sequence; permit_render, which the presenting chain adds, is in After.
Selects(chains, winner) ==
    LET observed == [c \in {c \in Chains : chains[c].look # NoLook} |-> chains[c].look]
        renderable == IF controls THEN Renderable(sessions, observed, sequence)
                                  ELSE DOMAIN observed
    IN  /\ winner \in renderable \cup {Nobody}
        /\ chain' = chains
        /\ current' = winner
        /\ sessions' = Reconcile(sessions, observed, winner)

\* swap_chain_retirement for the session's generation in the registry given.
RetirementOf(registry, c, last) ==
    IF c \in DOMAIN registry THEN {Identity(c, registry[c].generation, last)} ELSE {}

Issue(retirements) ==
    issued' = [c \in Chains |->
                 IF \E r \in retirements : r.id = c
                 THEN LET r == CHOOSE r \in retirements : r.id = c IN
                      [generation |-> r.generation, sequence |-> r.sequence]
                 ELSE issued[c]]

IsCurrentPresent(t) == chain[frame[t].id].last = frame[t].sequence

Track(c) ==
    /\ ~chain[c].tracked
    /\ Event
    /\ chain' = [chain EXCEPT ![c].tracked = TRUE]
    /\ UNCHANGED <<overlay, lane, pending, closing, sequence, controls, current, sessions,
                   threads>>

SetRenderControls ==
    /\ Event
    /\ controls' = ~controls
    /\ UNCHANGED <<overlay, lane, pending, closing, sequence, chain, current, sessions, threads>>

\* close_and_drain's flag and gate; DxgiHooks has the rest.
Close ==
    /\ ~closing
    /\ Event
    /\ closing' = TRUE
    /\ UNCHANGED <<overlay, lane, pending, sequence, controls, chain, current, sessions,
                   threads>>

----------------------------------------------------------------------------
(* before_present *)

Start(t, op, c, then) ==
    /\ At(t, "idle") /\ ~closing /\ Event
    /\ TryLane(t, [NoFrame EXCEPT !.op = op, !.id = c], then)
    /\ UNCHANGED <<overlay, pending, policy>>

PresentRefused(t) ==
    /\ At(t, "policy") /\ closing
    /\ Finish(t, frame[t])
    /\ UNCHANGED <<overlay, lane, pending, policy, history>>

\* No sequence is left: interception ends, and every session is retired.
PresentExhausted(t) ==
    LET retirements == UNION {RetirementOf(sessions, c, sequence) : c \in Chains} IN
    /\ At(t, "policy") /\ ~closing /\ sequence = MaxSequence
    /\ closing' = TRUE
    /\ Issue(retirements)
    /\ RetireOrDefer(t, frame[t], retirements)
    /\ UNCHANGED <<lane, pending, sequence, controls, chain, current, sessions, failed, events>>

\* An untracked chain has used up a sequence.
PresentUntracked(t) ==
    /\ At(t, "policy") /\ ~closing /\ sequence < MaxSequence
    /\ ~chain[frame[t].id].tracked
    /\ sequence' = sequence + 1
    /\ Finish(t, frame[t])
    /\ UNCHANGED <<overlay, lane, pending, closing, controls, chain, current, sessions, history>>

\* Only with the lane does the Present go on to inspection and rendering.
PresentSequenced(t) ==
    /\ At(t, "policy") /\ ~closing /\ sequence < MaxSequence
    /\ chain[frame[t].id].tracked
    /\ sequence' = sequence + 1
    /\ chain' = [chain EXCEPT ![frame[t].id].last = sequence + 1]
    /\ SetFrame(t, [frame[t] EXCEPT !.sequence = sequence + 1])
    /\ Goto(t, IF frame[t].lane THEN "inspect" ELSE "native")
    /\ UNCHANGED <<overlay, lane, pending, closing, controls, current, sessions, history>>

\* handle_inspection_failure.
InspectionFails(t, winner) ==
    LET c == frame[t].id
        retirements == RetirementOf(sessions, c, frame[t].sequence) IN
    /\ At(t, "inspect")
    /\ IF ~IsCurrentPresent(t)
       THEN UNCHANGED <<policy, overlay, issued>> /\ winner = current
       ELSE /\ Selects([chain EXCEPT ![c].look = NoLook, ![c].seen = 0], winner)
            /\ Issue(retirements)
            /\ Retire(t, retirements)
            /\ UNCHANGED <<closing, sequence, controls>>
    /\ Goto(t, "native")
    /\ UNCHANGED <<lane, pending, frame, failed, events>>

\* The call was overtaken, or the manager closed, while it inspected.
InspectionIsStale(t) ==
    /\ At(t, "inspect") /\ (closing \/ ~IsCurrentPresent(t))
    /\ Goto(t, "native")
    /\ UNCHANGED <<overlay, lane, pending, policy, frame, history>>

Inspected(t, surface) ==
    [chain EXCEPT ![frame[t].id].look = <<surface, chain[frame[t].id].color>>,
                  ![frame[t].id].seen = frame[t].sequence]

\* The chain became, or stayed, the primary and may render: a ticket.
\* permit_render ends a cooldown that is over.
InspectionSelects(t, surface) ==
    LET c == frame[t].id
        observed == Inspected(t, surface)
        looks == [o \in {o \in Chains : observed[o].look # NoLook} |-> observed[o].look]
        reconciled == Reconcile(sessions, looks, c)
    IN
    /\ At(t, "inspect") /\ ~closing /\ IsCurrentPresent(t) /\ controls
    /\ c \in Renderable(sessions, looks, sequence)
    /\ chain' = observed
    /\ current' = c
    /\ sessions' = [reconciled EXCEPT ![c].failures = AfterPermission(@, sequence)]
    /\ SetFrame(t, [frame[t] EXCEPT !.generation = reconciled[c].generation])
    /\ Goto(t, "permit")
    /\ UNCHANGED <<overlay, lane, pending, closing, sequence, controls, history>>

\* Another chain, or none, is selected, or nothing may render: what this chain
\* has is retired.
InspectionSelectsOther(t, surface, winner) ==
    LET c == frame[t].id IN
    /\ At(t, "inspect") /\ ~closing /\ IsCurrentPresent(t)
    /\ winner # c \/ ~controls
    /\ Selects(Inspected(t, surface), winner)
    /\ LET retirements == RetirementOf(sessions', c, frame[t].sequence) IN
       Issue(retirements) /\ Retire(t, retirements)
    /\ SetFrame(t, [frame[t] EXCEPT !.then = "native"])
    /\ Goto(t, "drain")
    /\ UNCHANGED <<lane, pending, closing, sequence, controls, failed, events>>

\* A panic between entering the lane and returning the invocation: unwinding
\* drops the lease, and report_panic sweeps.  The native call then has no
\* after_present.
BeforePresentPanics(t) ==
    /\ At(t, "inspect") /\ frame[t].lane
    /\ lane' = FALSE
    /\ Goto(t, "sweep") /\ SetFrame(t, NoFrame)
    /\ UNCHANGED <<overlay, pending, policy, history>>

----------------------------------------------------------------------------
(* render_selected_in_lane *)

Ticket(t) == Identity(frame[t].id, frame[t].generation, frame[t].sequence)

\* permits_render_ticket.
PermitsTicket(t) ==
    LET c == frame[t].id IN
    /\ ~closing /\ IsCurrentPresent(t) /\ current = c /\ controls
    /\ c \in DOMAIN sessions
    /\ sessions[c].generation = frame[t].generation
    /\ sessions[c].lifecycle = "Primary"

PermitTicket(t) ==
    /\ At(t, "permit")
    /\ IF PermitsTicket(t)
       THEN Goto(t, "render") /\ UNCHANGED frame
       ELSE Goto(t, "drain") /\ SetFrame(t, [frame[t] EXCEPT !.then = "native", !.generation = 0])
    /\ UNCHANGED <<overlay, lane, pending, policy, history>>

Render(t) ==
    /\ At(t, "render")
    /\ \/ /\ RenderSucceeds(t, Ticket(t))
          /\ Goto(t, "record")
          /\ UNCHANGED failed
       \/ /\ RenderFails(t, Ticket(t))
          /\ Goto(t, "outcome")
          /\ failed' = failed \cup {<<frame[t].id, frame[t].generation>>}
    /\ UNCHANGED <<lane, pending, policy, frame, issued, events>>

RecordSuccess(t) ==
    /\ At(t, "record")
    /\ RecordRenderSuccess(Ticket(t))
    /\ SetFrame(t, [frame[t] EXCEPT !.succeeded = TRUE])
    /\ Goto(t, "outcome")
    /\ UNCHANGED <<lane, pending, policy, history>>

OutcomeOf(t) ==
    RecordOutcome(sessions[frame[t].id], frame[t].sequence, frame[t].succeeded)

\* Bug: an outcome counts for whatever generation the chain has by now.
RecordOutcomeOfAny(t) ==
    /\ At(t, "outcome")
    /\ sessions' = [sessions EXCEPT ![frame[t].id] = OutcomeOf(t)]
    /\ Goto(t, "drain") /\ SetFrame(t, [frame[t] EXCEPT !.then = "native", !.succeeded = FALSE,
                                                            !.generation = 0])
    /\ UNCHANGED <<overlay, lane, pending, closing, sequence, controls, chain, current, history>>

\* record_render_outcome, for the generation that was rendered.
RecordRenderOutcome(t) ==
    LET c == frame[t].id IN
    /\ At(t, "outcome")
    /\ sessions' = IF sessions[c].generation = frame[t].generation
                   THEN [sessions EXCEPT ![c] = OutcomeOf(t)]
                   ELSE sessions
    /\ Goto(t, "drain") /\ SetFrame(t, [frame[t] EXCEPT !.then = "native", !.succeeded = FALSE,
                                                            !.generation = 0])
    /\ UNCHANGED <<overlay, lane, pending, closing, sequence, controls, chain, current, history>>

----------------------------------------------------------------------------
(* after_present, before_resize and after_resize, after_set_color_space *)

\* The native call returns: a call without the lane tries again.
NativeReturns(t) ==
    /\ At(t, "native")
    /\ IF frame[t].lane
       THEN Goto(t, "after") /\ UNCHANGED <<lane, frame>>
       ELSE TryLane(t, frame[t], "after")
    /\ UNCHANGED <<overlay, pending, policy, history>>

AfterUnchanged(t) ==
    /\ Finish(t, frame[t])
    /\ UNCHANGED <<overlay, current, sessions, issued>>

\* The result decides whether the chain is occluded, or its device is lost.
AfterPresent(t, result, winner) ==
    LET c == frame[t].id
        occluded == result = "occluded"
        lost == result = "lost"
        after == [chain EXCEPT ![c].occluded = occluded,
                               ![c].look = IF lost THEN NoLook ELSE @,
                               ![c].seen = IF lost THEN 0 ELSE @]
        reconciles == lost \/ (chain[c].look # NoLook /\ chain[c].occluded # occluded)
    IN
    /\ At(t, "after") /\ frame[t].op = "present"
    /\ IF ~IsCurrentPresent(t)
       THEN AfterUnchanged(t) /\ UNCHANGED chain /\ winner = current
       ELSE IF ~reconciles
       THEN AfterUnchanged(t) /\ chain' = after /\ winner = current
       ELSE /\ Selects(after, winner)
            /\ LET retirements == IF winner = c THEN {}
                                  ELSE RetirementOf(sessions', c, frame[t].sequence) IN
               Issue(retirements) /\ RetireOrDefer(t, frame[t], retirements)
    /\ UNCHANGED <<lane, pending, closing, sequence, controls, failed, events>>

\* before_resize remembers the last Present that was begun; the renderer only
\* notes that its buffers change.
BeforeResize(t) ==
    LET c == frame[t].id IN
    /\ At(t, "resize")
    /\ IF ~chain[c].tracked
       THEN Finish(t, frame[t])
       ELSE /\ SetFrame(t, [frame[t] EXCEPT !.sequence = chain[c].last,
                                            !.then = IF frame[t].lane THEN "native" ELSE "idle"])
            /\ Goto(t, IF frame[t].lane THEN "drain" ELSE "native")
    /\ UNCHANGED <<overlay, lane, pending, policy, history>>

\* The observation is dropped unless a Present begun after the resize made it.
AfterResize(t, succeeded, winner) ==
    LET c == frame[t].id
        applies == chain[c].look = NoLook \/ chain[c].seen <= frame[t].sequence
        retirements == RetirementOf(sessions, c, chain[c].last)
    IN
    /\ At(t, "after") /\ frame[t].op = "resize"
    /\ IF ~succeeded \/ ~applies
       THEN AfterUnchanged(t) /\ UNCHANGED chain /\ winner = current
       ELSE /\ Selects([chain EXCEPT ![c].look = NoLook, ![c].seen = 0], winner)
            /\ Issue(retirements)
            /\ RetireOrDefer(t, frame[t], retirements)
    /\ UNCHANGED <<lane, pending, closing, sequence, controls, failed, events>>

\* The primary is retired if it loses its place, or its generation, by this.
AfterSetColorSpace(t, succeeded, color, winner) ==
    LET c == frame[t].id
        after == [chain EXCEPT ![c].color = color,
                               ![c].look = IF @ = NoLook THEN @ ELSE <<@[1], color>>]
        primary == IF current = Nobody THEN {}
                   ELSE RetirementOf(sessions, current, chain[current].last)
    IN
    /\ At(t, "after") /\ frame[t].op = "color"
    /\ IF ~succeeded \/ ~chain[c].tracked
       THEN AfterUnchanged(t) /\ UNCHANGED chain /\ winner = current
       ELSE IF chain[c].look = NoLook
       THEN AfterUnchanged(t) /\ chain' = after /\ winner = current
       ELSE /\ Selects(after, winner)
            /\ LET retirements == {r \in primary : \/ winner # r.id
                                                   \/ sessions'[r.id].generation # r.generation}
               IN  Issue(retirements) /\ RetireOrDefer(t, frame[t], retirements)
    /\ UNCHANGED <<lane, pending, closing, sequence, controls, failed, events>>

----------------------------------------------------------------------------
Results == {"ok", "occluded", "lost"}
Winners == Chains \cup {Nobody}

Call(t) ==
    \/ \E c \in Chains :
          \/ Start(t, "present", c, "policy")
          \/ Start(t, "resize", c, "resize")
          \/ Start(t, "color", c, "after")
    \/ PresentRefused(t) \/ PresentExhausted(t) \/ PresentUntracked(t) \/ PresentSequenced(t)
    \/ InspectionIsStale(t) \/ BeforePresentPanics(t)
    \/ \E winner \in Winners :
          \/ InspectionFails(t, winner)
          \/ \E surface \in Surfaces : InspectionSelectsOther(t, surface, winner)
          \/ \E result \in Results : AfterPresent(t, result, winner)
          \/ \E succeeded \in BOOLEAN :
                \/ AfterResize(t, succeeded, winner)
                \/ \E color \in Colors : AfterSetColorSpace(t, succeeded, color, winner)
    \/ \E surface \in Surfaces : InspectionSelects(t, surface)
    \/ PermitTicket(t) \/ Render(t) \/ RecordSuccess(t) \/ RecordRenderOutcome(t)
    \/ BeforeResize(t) \/ NativeReturns(t)
    \/ DrainInLane(t) \/ Defer(t) \/ ReleaseLane(t) \/ Sweep(t) \/ CheckPending(t)

\* The owner's thread pumps messages between its calls or within a native one.
PumpMessages(t) ==
    /\ pc[t] \in {"idle", "native"}
    /\ DropThreadState(t)
    /\ Event
    /\ UNCHANGED <<lane, pending, policy, threads>>

Deactivate ==
    /\ \/ DeactivateTarget /\ Event
       \/ ForgetSession /\ UNCHANGED history
    /\ UNCHANGED <<lane, pending, policy, threads>>

Next ==
    \/ \E t \in Threads : Call(t) \/ PumpMessages(t)
    \/ \E c \in Chains : Track(c)
    \/ SetRenderControls \/ Close \/ Deactivate

Spec == Init /\ [][Next]_vars

----------------------------------------------------------------------------
Quiet == \A t \in Threads : pc[t] = "idle"

\* Close the enqueue-vs-release race (finish_render_lane): whatever was deferred
\* is retired by somebody before all calls have returned.
RetirementsAreDelivered == Quiet => pending = {}

\* Once all calls have returned, input is captured only for a session that no
\* retirement decided last has covered.  However retirements were deferred, and
\* whichever thread received them, the game gets its input back.
CaptureHasALiveSession ==
    Quiet /\ target = "active" /\ capture =>
        /\ active_session # NoSession
        /\ LET last == issued[active_session.id] IN
           ~IsRetiredBy(active_session, Identity(active_session.id, last.generation, last.sequence))

\* After deactivate has finished no session is recorded, even by a frame that
\* was being rendered meanwhile.
DeactivatedHoldsNoSession == target = "stopped" => active_session = NoSession

\* A generation's failure budget is spent only by its own frames, although
\* outcomes arrive after the policy lock was released and the chain reconciled.
FailuresBelongToGeneration ==
    \A c \in DOMAIN sessions :
        sessions[c].failures # NoFailures => <<c, sessions[c].generation>> \in failed

\* The newest epoch of a chain lives as long as the native state that was built
\* under it, on the owner's thread: a lease of an earlier epoch, dropped late,
\* takes nothing from the new owner, and no owner is left without a lease.
LeasesMatchStates ==
    \A c \in Chains :
        LET a == affinity[c]
            holders == {t \in Threads : thread_state[t].identity.id = c
                                        /\ thread_state[t].token = a.next}
        IN  /\ a.leases = Cardinality(holders)
            /\ holders = {} => a.owner = Nobody
            /\ holders # {} => a.token = a.next /\ holders = {a.owner}
=============================================================================
