---------------------------- MODULE DxgiFrames_proofs -------------------------
(****************************************************************************)
(* The frames of any number of swap chains and threads: who has the lane,   *)
(* what becomes of a retirement, whose failures a budget counts, which      *)
(* epoch owns the native state, and when the game gets its input back.      *)
(****************************************************************************)
EXTENDS DxgiFrames, FiniteSetTheorems, TLAPS

RetirementType == [id : Chains, generation : Nat \ {0}, sequence : 0..MaxSequence]
FrameType ==
    [op : {"none", "present", "resize", "color"}, id : Chains \cup {Nobody}, lane : BOOLEAN,
     sweeping : BOOLEAN, sequence : 0..MaxSequence, generation : Nat, then : Pcs,
     retire : SUBSET RetirementType, succeeded : BOOLEAN]
SessionType ==
    [look : Looks, generation : Nat \ {0}, lifecycle : Lifecycles, failures : FailureState,
     outcome : 0..MaxSequence]

Rendering == {"inspect", "permit", "render", "record"}

\* Where a call is says what its invocation holds: the lane, its chain, and the
\* retirements it is about to leave in pending.
Invocation(place, f) ==
    /\ place \in {"idle", "sweep", "check"} => f = NoFrame
    /\ place \in Rendering \cup {"outcome", "drain", "release"} => f.lane
    /\ place = "defer" => ~f.lane
    /\ place # "defer" => f.retire = {}
    /\ place = "drain" => f.then \in {"policy", "resize", "after", "native", "release"}
    /\ \/ place \in {"idle", "sweep", "check", "release"}
       \/ place = "drain" /\ f.then = "release"
       \/ f.id \in Chains

FrameOK(t) ==
    /\ pc[t] \in Pcs /\ frame[t] \in FrameType
    /\ Invocation(pc[t], frame[t])
    /\ frame[t].sequence <= sequence

\* The state of the policy that its lock guards.
PolicyOK ==
    /\ closing \in BOOLEAN /\ controls \in BOOLEAN
    /\ sequence \in 0..MaxSequence
    /\ chain \in [Chains -> ChainType]
    /\ current \in Chains \cup {Nobody}
    /\ DOMAIN sessions \subseteq Chains
    /\ \A c \in DOMAIN sessions : sessions[c] \in SessionType
    /\ \A c \in Chains : chain[c].last <= sequence

\* No retirement is from a later Present than the last one begun.
IssuedOK ==
    /\ issued \in [Chains -> [generation : Nat, sequence : 0..MaxSequence]]
    /\ \A c \in Chains : issued[c].sequence <= sequence

\* The flag says whether a call has the lane, and no two calls have it.
LaneOK ==
    /\ lane \in BOOLEAN
    /\ lane <=> \E t \in Threads : frame[t].lane
    /\ \A t, u \in Threads : frame[t].lane /\ frame[u].lane => t = u

Typing ==
    /\ OverlayTypeOK /\ PolicyOK /\ IssuedOK /\ LaneOK
    /\ pending \subseteq RetirementType
    /\ pc \in [Threads -> Pcs] /\ frame \in [Threads -> FrameType]
    /\ \A t \in Threads : FrameOK(t)

\* Whoever left something in pending, or released the lane, looks again; and
\* whoever has the lane drains before it releases.
SomebodyDrains ==
    pending # {} => \E t \in Threads : frame[t].lane \/ pc[t] \in {"sweep", "check"}

\* A frame that failed is known to have failed when its outcome is recorded.
OutcomesAreKnown ==
    \A t \in Threads : pc[t] = "outcome" /\ ~frame[t].succeeded =>
        <<frame[t].id, frame[t].generation>> \in failed

AffinityType == [owner : Threads \cup {Nobody}, token : Nat, leases : Nat, next : Nat,
                 latest : [generation : Nat, sequence : Nat]]

\* No thread holds an epoch that was not yet given out.
IssuedFor(c) ==
    \A u \in Threads : thread_state[u].identity.id = c
                         => thread_state[u].token <= affinity[c].next

\* An epoch is owned by the one thread that holds it, or it is given up.
Epoch(c) ==
    LET a == affinity[c]
        held(u) == thread_state[u].identity.id = c /\ thread_state[u].token = a.next
    IN  \/ a.leases = 0 /\ a.owner = Nobody /\ \A u \in Threads : ~held(u)
        \/ /\ a.leases = 1 /\ a.owner \in Threads /\ a.token = a.next
           /\ \A u \in Threads : held(u) <=> u = a.owner

OverlayOK ==
    /\ OverlayTypeOK
    /\ \A c \in Chains : IssuedFor(c) /\ Epoch(c)

\* The retirements that were decided and have not reached the overlay.
InFlight == pending \cup UNION {frame[t].retire : t \in Threads}
LastRetirement(c) == Identity(c, issued[c].generation, issued[c].sequence)

\* A frame that is being rendered is newer than the recorded session, and
\* newer than every retirement that has been applied.
FramesAreNewest ==
    /\ active_session.sequence <= sequence
    /\ \A t \in Threads : pc[t] \in Rendering =>
          /\ active_session.sequence < frame[t].sequence
          /\ LET last == LastRetirement(frame[t].id) IN
             last.sequence >= frame[t].sequence => last \in InFlight

\* Captured input belongs to a session that nobody retired, unless its
\* retirement is on its way or its frame is about to be recorded.
CaptureIsAccounted ==
    target = "active" /\ capture =>
        \/ \E t \in Threads : pc[t] = "record"
        \/ /\ active_session.id \in Chains
           /\ LET last == LastRetirement(active_session.id) IN
              IsRetiredBy(active_session, last) => last \in InFlight

IInv ==
    /\ Typing
    /\ SomebodyDrains
    /\ DeactivatedHoldsNoSession
    /\ OutcomesAreKnown /\ FailuresBelongToGeneration
    /\ OverlayOK
    /\ FramesAreNewest /\ CaptureIsAccounted
-----------------------------------------------------------------------------
\* The operators of session.rs and safety.rs.
LEMMA BudgetTyping ==
    ASSUME NEW n \in Nat, NEW c \in Nat, NEW r \in Nat
    PROVE  /\ [NoFailures EXCEPT !.failures = n, !.cooldowns = c] \in FailureState
           /\ [NoFailures EXCEPT !.cooldowns = c, !.status = "disabled"] \in FailureState
           /\ [NoFailures EXCEPT !.cooldowns = c, !.status = "cooling", !.retryAt = r]
                 \in FailureState
<1>1. [NoFailures EXCEPT !.failures = n, !.cooldowns = c] \in FailureState
  BY DEF NoFailures, FailureState
<1>2. [NoFailures EXCEPT !.cooldowns = c, !.status = "disabled"] \in FailureState
  BY DEF NoFailures, FailureState
<1>3. [NoFailures EXCEPT !.cooldowns = c, !.status = "cooling", !.retryAt = r] \in FailureState
  BY DEF NoFailures, FailureState
<1> QED
  BY <1>1, <1>2, <1>3

\* A frame that fails, or that is let through, leaves a budget behind.
LEMMA FailureTyping ==
    ASSUME NEW f \in FailureState, NEW s \in Nat
    PROVE  AfterPermission(f, s) \in FailureState /\ RecordFailure(f, s) \in FailureState
<1>1. AfterPermission(f, s) \in FailureState
  BY DEF AfterPermission, NoFailures, FailureState
<1>2. RecordFailure(f, s) \in FailureState
  <2> DEFINE failures == 1 + (IF f.status = "cooling" THEN 0 ELSE f.failures)
             cooldowns == f.cooldowns + 1
  <2>1. failures \in Nat /\ cooldowns \in Nat /\ s + CooldownSequences \in Nat
    BY FailurePolicy DEF FailureState
  <2>2. \/ RecordFailure(f, s) = f
        \/ RecordFailure(f, s) = [NoFailures EXCEPT !.failures = failures,
                                                   !.cooldowns = f.cooldowns]
        \/ RecordFailure(f, s) = [NoFailures EXCEPT !.cooldowns = cooldowns,
                                                   !.status = "disabled"]
        \/ RecordFailure(f, s) = [NoFailures EXCEPT !.cooldowns = cooldowns,
                                    !.status = "cooling", !.retryAt = s + CooldownSequences]
    <3>1. CASE ~Permits(f, s)
      BY <3>1 DEF RecordFailure
    <3>2. CASE Permits(f, s) /\ failures < FailuresBeforeCooldown
      BY <3>2 DEF RecordFailure
    <3>3. CASE Permits(f, s) /\ ~(failures < FailuresBeforeCooldown)
      BY <3>3 DEF RecordFailure
    <3> QED
      BY <3>1, <3>2, <3>3
  <2>3. f.cooldowns \in Nat
    BY DEF FailureState
  <2>4. /\ [NoFailures EXCEPT !.failures = failures, !.cooldowns = f.cooldowns] \in FailureState
        /\ [NoFailures EXCEPT !.cooldowns = cooldowns, !.status = "disabled"] \in FailureState
        /\ [NoFailures EXCEPT !.cooldowns = cooldowns, !.status = "cooling",
                              !.retryAt = s + CooldownSequences] \in FailureState
    <3> HIDE DEF failures, cooldowns
    <3> QED
      BY <2>1, <2>3, BudgetTyping
  <2> QED
    BY <2>2, <2>4
<1> QED
  BY <1>1, <1>2

\* What becomes of the sessions: failures are kept with their generation only.
Reconciled(registry, observed) ==
    /\ DOMAIN registry = DOMAIN sessions \cup DOMAIN observed
    /\ \A c \in DOMAIN registry :
          /\ registry[c] \in SessionType
          /\ registry[c].failures # NoFailures =>
                /\ c \in DOMAIN sessions
                /\ registry[c].failures = sessions[c].failures
                /\ registry[c].generation = sessions[c].generation

\* reconcile keeps, restarts or retires each session it is given.
LEMMA ReconcileTyping ==
    ASSUME PolicyOK, NEW observed, NEW primary, NEW r,
           DOMAIN observed \subseteq Chains, \A c \in DOMAIN observed : observed[c] \in Looks,
           r = Reconcile(sessions, observed, primary)
    PROVE  Reconciled(r, observed)
<1>1. DOMAIN r = DOMAIN sessions \cup DOMAIN observed
  BY DEF Reconcile
<1>2. ASSUME NEW look \in Looks, NEW lifecycle \in Lifecycles, NEW generation \in Nat \ {0}
      PROVE  /\ NewSession(look, lifecycle, generation) \in SessionType
             /\ NewSession(look, lifecycle, generation).failures = NoFailures
  BY SequencesAreBounded DEF NewSession, SessionType, NoFailures, FailureState
<1>3. ASSUME NEW c \in DOMAIN r
      PROVE  /\ r[c] \in SessionType
             /\ r[c].failures # NoFailures =>
                   /\ c \in DOMAIN sessions
                   /\ r[c].failures = sessions[c].failures
                   /\ r[c].generation = sessions[c].generation
  <2> DEFINE lifecycle == IF c = primary THEN "Primary" ELSE "Candidate"
  <2>1. c \in DOMAIN sessions => sessions[c] \in SessionType
    BY DEF PolicyOK
  <2>2. lifecycle \in Lifecycles
    BY DEF Lifecycles
  <2>3. CASE c \notin DOMAIN observed
    <3>1. c \in DOMAIN sessions /\ r[c] = [sessions[c] EXCEPT !.lifecycle = "Retired"]
      BY <1>1, <2>3 DEF Reconcile
    <3> QED
      BY <2>1, <3>1 DEF SessionType, Lifecycles
  <2>4. CASE c \in DOMAIN observed /\ c \notin DOMAIN sessions
    <3>1. r[c] = NewSession(observed[c], lifecycle, 1)
      BY <1>1, <2>4 DEF Reconcile
    <3> QED
      BY <1>2, <2>4, <2>2, <3>1
  <2>5. CASE c \in DOMAIN observed /\ c \in DOMAIN sessions
             /\ SameGeneration(sessions[c], observed[c])
    <3>1. r[c] = [sessions[c] EXCEPT !.lifecycle = lifecycle]
      BY <1>1, <2>5 DEF Reconcile
    <3> QED
      BY <2>1, <2>5, <3>1 DEF SessionType, Lifecycles
  <2>6. CASE c \in DOMAIN observed /\ c \in DOMAIN sessions
             /\ ~SameGeneration(sessions[c], observed[c])
    <3>1. r[c] = NewSession(observed[c], lifecycle, sessions[c].generation + 1)
      BY <1>1, <2>6 DEF Reconcile
    <3>2. sessions[c].generation + 1 \in Nat \ {0}
      BY <2>1, <2>6 DEF SessionType
    <3> QED
      BY <1>2, <2>6, <2>2, <3>1, <3>2
  <2> QED
    BY <1>1, <2>3, <2>4, <2>5, <2>6
<1> QED
  BY <1>1, <1>3 DEF Reconciled

\* What a step of the policy does to the sessions' failures.
KeepsFailures ==
    \A c \in DOMAIN sessions' :
        sessions'[c].failures # NoFailures =>
            /\ c \in DOMAIN sessions
            /\ sessions[c].failures # NoFailures
            /\ sessions'[c].generation = sessions[c].generation

\* select_primary keeps the sessions typed and their failures where they were.
LEMMA SelectsTyping ==
    ASSUME PolicyOK, NEW chains \in [Chains -> ChainType], NEW winner,
           Selects(chains, winner)
    PROVE  /\ chain' = chains /\ current' \in Chains \cup {Nobody} /\ current' = winner
           /\ DOMAIN sessions' \subseteq Chains
           /\ \A c \in DOMAIN sessions' : sessions'[c] \in SessionType
           /\ KeepsFailures
<1> DEFINE observed == [c \in {c \in Chains : chains[c].look # NoLook} |-> chains[c].look]
<1>1. /\ DOMAIN observed \subseteq Chains
      /\ \A c \in DOMAIN observed : observed[c] \in Looks
  BY DEF ChainType
<1>2. /\ chain' = chains /\ current' = winner
      /\ sessions' = Reconcile(sessions, observed, winner)
  BY DEF Selects
<1>3. winner \in DOMAIN observed \cup {Nobody}
  <2>1. Renderable(sessions, observed, sequence) \subseteq DOMAIN observed
    BY DEF Renderable
  <2>2. winner \in (IF controls THEN Renderable(sessions, observed, sequence)
                               ELSE DOMAIN observed) \cup {Nobody}
    BY DEF Selects
  <2> QED
    BY <2>1, <2>2
<1> HIDE DEF observed
<1>4. Reconciled(sessions', observed)
  BY <1>1, <1>2, ReconcileTyping
<1>5. DOMAIN sessions' \subseteq Chains
  BY <1>1, <1>4 DEF PolicyOK, Reconciled
<1>6. \A c \in DOMAIN sessions' : sessions'[c] \in SessionType
  BY <1>4 DEF Reconciled
<1>7. KeepsFailures
  BY <1>4 DEF Reconciled, KeepsFailures
<1> QED
  BY <1>1, <1>2, <1>3, <1>5, <1>6, <1>7

\* A retirement names the chain and the Present it was asked for.
LEMMA RetirementOfTyping ==
    ASSUME NEW registry, NEW c \in Chains, NEW last \in 0..MaxSequence,
           c \in DOMAIN registry => registry[c] \in SessionType
    PROVE  /\ RetirementOf(registry, c, last) \subseteq RetirementType
           /\ \A r \in RetirementOf(registry, c, last) : r.id = c /\ r.sequence = last
BY DEF RetirementOf, Identity, RetirementType, SessionType

\* A retirement that is issued becomes the last of its chain.
LEMMA IssueTyping ==
    ASSUME IssuedOK, NEW retirements \in SUBSET RetirementType, Issue(retirements),
           sequence' = sequence, \A r \in retirements : r.sequence <= sequence
    PROVE  /\ IssuedOK'
           /\ \A c \in Chains : issued'[c] = issued[c] \/ LastRetirement(c)' \in retirements
<1>1. ASSUME NEW c \in Chains
      PROVE  /\ issued'[c] \in [generation : Nat, sequence : 0..MaxSequence]
             /\ issued'[c].sequence <= sequence
             /\ issued'[c] = issued[c] \/ LastRetirement(c)' \in retirements
  <2>1. CASE \E r \in retirements : r.id = c
    <3> DEFINE r == CHOOSE r \in retirements : r.id = c
    <3>1. r \in retirements /\ r.id = c
      BY <2>1
    <3>2. issued'[c] = [generation |-> r.generation, sequence |-> r.sequence]
      BY <2>1 DEF Issue
    <3> HIDE DEF r
    <3>3. r \in RetirementType /\ r.sequence <= sequence
      BY <3>1
    <3>4. LastRetirement(c)' = r
      BY <3>1, <3>2, <3>3 DEF LastRetirement, Identity, RetirementType
    <3> QED
      BY <3>1, <3>2, <3>3, <3>4 DEF RetirementType
  <2>2. CASE ~\E r \in retirements : r.id = c
    BY <2>2 DEF Issue, IssuedOK
  <2> QED
    BY <2>1, <2>2
<1>2. issued' = [c \in Chains |-> issued'[c]]
  BY DEF Issue
<1> QED
  BY <1>1, <1>2 DEF IssuedOK
-----------------------------------------------------------------------------
(* A call moves one thread, and passes on the lane and what is pending. *)

\* The lane stays with the call, or is taken while it was free, or given back.
Passes(t, f) ==
    \/ lane' = lane /\ f.lane = frame[t].lane
    \/ lane = FALSE /\ lane' = TRUE /\ f.lane
    \/ frame[t].lane /\ lane' = FALSE /\ ~f.lane

\* A call that would have drained pending drains it, or still will, or leaves it
\* to another call that has the lane.
Watches(t, place, f) ==
    \/ pending' = {}
    \/ place \in {"sweep", "check"} \/ f.lane
    \/ pending' = pending /\ ~frame[t].lane
       /\ (pc[t] \notin {"sweep", "check"} \/ (lane /\ lane'))

Moves(t) ==
    /\ pc' = [pc EXCEPT ![t] = pc'[t]] /\ frame' = [frame EXCEPT ![t] = frame'[t]]
    /\ FrameOK(t)'
    /\ Passes(t, frame'[t]) /\ Watches(t, pc'[t], frame'[t])
    /\ sequence <= sequence'

\* A step that replaces its invocation moves its own thread only.
LEMMA Moved ==
    ASSUME Typing, NEW t \in Threads, NEW place \in Pcs, NEW f \in FrameType,
           Goto(t, place), SetFrame(t, f), Invocation(place, f), f.sequence <= sequence',
           Passes(t, f), Watches(t, place, f), sequence <= sequence'
    PROVE  Moves(t) /\ pc'[t] = place /\ frame'[t] = f
<1>1. pc'[t] = place /\ pc' = [pc EXCEPT ![t] = pc'[t]]
  BY DEF Goto, Typing
<1>2. frame'[t] = f /\ frame' = [frame EXCEPT ![t] = frame'[t]]
  BY DEF SetFrame, Typing
<1>3. FrameOK(t)'
  BY <1>1, <1>2 DEF FrameOK
<1> QED
  BY <1>1, <1>2, <1>3 DEF Moves

\* A step that only goes on to the next section.
LEMMA WentOn ==
    ASSUME Typing, NEW t \in Threads, NEW place \in Pcs, Goto(t, place), UNCHANGED frame,
           Invocation(place, frame[t]), UNCHANGED <<sequence, lane, pending>>,
           frame[t].lane \/ (pc[t] \notin {"sweep", "check"})
    PROVE  Moves(t) /\ pc'[t] = place /\ frame'[t] = frame[t]
<1>1. SetFrame(t, frame[t]) /\ frame[t] \in FrameType
  BY DEF SetFrame, Typing
<1>2. frame[t].sequence <= sequence' /\ sequence <= sequence'
  BY SequencesAreBounded DEF Typing, FrameOK, PolicyOK, FrameType
<1>3. Passes(t, frame[t]) /\ Watches(t, place, frame[t])
  BY DEF Passes, Watches
<1> QED
  BY <1>1, <1>2, <1>3, Moved

\* A call that has returned holds nothing.
LEMMA NoFrameTyping ==
    /\ NoFrame \in FrameType /\ NoFrame.sequence = 0 /\ ~NoFrame.lane /\ NoFrame.retire = {}
    /\ NoFrame.id = Nobody
BY SequencesAreBounded DEF NoFrame, FrameType, Pcs, RetirementType

\* try_render_lane either takes the free lane or goes on without it.
LEMMA TryLaneMoves ==
    ASSUME Typing, NEW t \in Threads, NEW f \in FrameType, ~frame[t].lane, ~f.lane,
           NEW then \in {"policy", "resize", "after"}, f.id \in Chains, f.retire = {},
           f.sequence <= sequence, pc[t] \notin {"sweep", "check"},
           TryLane(t, f, then), UNCHANGED <<sequence, pending>>
    PROVE  /\ Moves(t)
           /\ pc'[t] \in {then, "drain"}
           /\ frame'[t].sequence = f.sequence /\ frame'[t].id = f.id
<1>1. then \in Pcs /\ sequence' = sequence /\ sequence <= sequence'
  BY SequencesAreBounded DEF Pcs, Typing, PolicyOK
<1>2. CASE lane
  <2>1. Goto(t, then) /\ SetFrame(t, f) /\ lane' = lane
    BY <1>2 DEF TryLane, Typing, LaneOK
  <2>2. Invocation(then, f)
    BY DEF Invocation, Rendering
  <2>3. Passes(t, f) /\ Watches(t, then, f)
    <3>1. f.lane = frame[t].lane
      BY DEF Typing, FrameType
    <3> QED
      BY <2>1, <3>1 DEF Passes, Watches
  <2>4. f.sequence <= sequence'
    BY <1>1
  <2>5. Moves(t) /\ pc'[t] = then /\ frame'[t] = f
    BY <1>1, <2>1, <2>2, <2>3, <2>4, Moved
  <2> QED
    BY <2>5
<1>3. CASE ~lane
  <2> DEFINE g == [f EXCEPT !.lane = TRUE, !.then = then]
  <2>1. Goto(t, "drain") /\ SetFrame(t, g) /\ lane' = TRUE /\ lane = FALSE
    BY <1>3 DEF TryLane, Typing, LaneOK
  <2>2. /\ g \in FrameType /\ g.lane /\ g.then = then /\ g.id = f.id /\ g.retire = {}
        /\ g.sequence = f.sequence
    BY <1>1 DEF FrameType
  <2> HIDE DEF g
  <2>3. Invocation("drain", g)
    BY <2>2 DEF Invocation, Rendering
  <2>4. Passes(t, g) /\ Watches(t, "drain", g)
    BY <2>1, <2>2 DEF Passes, Watches
  <2>5. "drain" \in Pcs
    BY DEF Pcs
  <2>6. g.sequence <= sequence'
    BY <2>2, <1>1
  <2>7. Moves(t) /\ pc'[t] = "drain" /\ frame'[t] = g
    BY <1>1, <2>1, <2>2, <2>3, <2>4, <2>5, <2>6, Moved
  <2> QED
    BY <2>2, <2>7
<1> QED
  BY <1>2, <1>3

\* A call that has the lane ends by draining; one that has not, just ends.
LEMMA FinishMoves ==
    ASSUME Typing, NEW t \in Threads, Finish(t, frame[t]), pc[t] \notin {"sweep", "check"},
           UNCHANGED <<lane, pending>>, sequence' \in 0..MaxSequence, sequence <= sequence'
    PROVE  Moves(t) /\ pc'[t] \in {"idle", "drain"} /\ frame'[t].retire = {}
<1> DEFINE g == [NoFrame EXCEPT !.lane = TRUE, !.then = "release"]
<1>1. sequence \in 0..MaxSequence
  BY DEF Typing, PolicyOK
<1>2. CASE frame[t].lane
  <2>1. Goto(t, "drain") /\ SetFrame(t, g)
    BY <1>2 DEF Finish
  <2>2. g \in FrameType /\ g.lane /\ g.then = "release" /\ g.retire = {} /\ g.sequence = 0
    BY NoFrameTyping DEF FrameType, Pcs
  <2> HIDE DEF g
  <2>3. Invocation("drain", g)
    BY <2>2 DEF Invocation, Rendering
  <2>4. Passes(t, g) /\ Watches(t, "drain", g)
    BY <1>2, <2>2 DEF Passes, Watches
  <2>5. "drain" \in Pcs
    BY DEF Pcs
  <2>6. g.sequence <= sequence'
    BY <1>1, <2>2, SequencesAreBounded
  <2>7. Moves(t) /\ pc'[t] = "drain" /\ frame'[t] = g
    BY <2>1, <2>2, <2>3, <2>4, <2>5, <2>6, Moved
  <2> QED
    BY <2>2, <2>7
<1>3. CASE ~frame[t].lane
  <2>1. Goto(t, "idle") /\ SetFrame(t, NoFrame)
    BY <1>3 DEF Finish, Return
  <2>2. Invocation("idle", NoFrame)
    BY NoFrameTyping DEF Invocation, Rendering
  <2>3. Passes(t, NoFrame) /\ Watches(t, "idle", NoFrame)
    <3>1. frame[t].lane = FALSE /\ NoFrame.lane = FALSE
      BY <1>3, NoFrameTyping DEF Typing, FrameType, NoFrame
    <3> QED
      BY <1>3, <3>1 DEF Passes, Watches
  <2>4. "idle" \in Pcs
    BY DEF Pcs
  <2>5. NoFrame.sequence <= sequence'
    BY <1>1, NoFrameTyping, SequencesAreBounded
  <2>6. Moves(t) /\ pc'[t] = "idle" /\ frame'[t] = NoFrame
    BY <2>1, <2>2, <2>3, <2>4, <2>5, NoFrameTyping, Moved
  <2> QED
    BY <2>6, NoFrameTyping
<1> QED
  BY <1>2, <1>3
-----------------------------------------------------------------------------
(* The steps that decide nothing: no retirement, no failure, no frame. *)

Plain(t) ==
    /\ UNCHANGED <<overlay, issued, failed, pending>>
    /\ pc[t] \notin {"record", "defer"} /\ pc'[t] \notin {"outcome", "defer"}
    /\ pc'[t] \in Rendering =>
          \/ /\ pc[t] \in Rendering
             /\ frame'[t].id = frame[t].id /\ frame'[t].sequence = frame[t].sequence
          \/ frame'[t].sequence > sequence

\* A step that does not take the policy lock.
LEMMA PolicySame ==
    ASSUME Typing, UNCHANGED policy
    PROVE  PolicyOK' /\ KeepsFailures /\ sequence' = sequence /\ sequence' \in 0..MaxSequence
           /\ sequence <= sequence'
<1>1. sequence' = sequence /\ sequence' \in 0..MaxSequence /\ sequence <= sequence'
  BY SequencesAreBounded DEF policy, Typing, PolicyOK
<1>2. PolicyOK'
  BY DEF policy, Typing, PolicyOK
<1> QED
  BY <1>1, <1>2 DEF policy, KeepsFailures

\* A detour that begins.
LEMMA StartIsPlain ==
    ASSUME Typing, NEW t \in Threads, NEW op \in {"present", "resize", "color"},
           NEW c \in Chains, NEW then \in {"policy", "resize", "after"}, Start(t, op, c, then)
    PROVE  Moves(t) /\ PolicyOK' /\ KeepsFailures /\ Plain(t)
<1> DEFINE f == [NoFrame EXCEPT !.op = op, !.id = c]
<1>1. PolicyOK' /\ KeepsFailures /\ sequence' = sequence
  BY PolicySame DEF Start
<1>2. frame[t] = NoFrame /\ pc[t] = "idle" /\ sequence \in 0..MaxSequence
  BY DEF Start, At, Typing, FrameOK, Invocation, PolicyOK
<1>3. f \in FrameType /\ f.id = c /\ f.retire = {} /\ f.sequence = 0 /\ ~f.lane
  BY NoFrameTyping DEF FrameType
<1>4. TryLane(t, f, then) /\ UNCHANGED <<sequence, pending, overlay, issued, failed>>
  BY <1>1 DEF Start, Event
<1> HIDE DEF f
<1>5. ~frame[t].lane
  BY <1>2, NoFrameTyping
<1>6. f.sequence <= sequence
  BY <1>2, <1>3, SequencesAreBounded
<1>7. Moves(t) /\ pc'[t] \in {then, "drain"}
  BY <1>2, <1>3, <1>4, <1>5, <1>6, TryLaneMoves
<1>8. Plain(t)
  BY <1>2, <1>4, <1>7 DEF Plain, Rendering
<1> QED
  BY <1>1, <1>7, <1>8

\* A detour that ends.
LEMMA FinishIsPlain ==
    ASSUME Typing, NEW t \in Threads, Finish(t, frame[t]),
           pc[t] \notin {"sweep", "check", "record", "defer"},
           UNCHANGED <<overlay, lane, pending, issued, failed>>,
           sequence' \in 0..MaxSequence, sequence <= sequence'
    PROVE  Moves(t) /\ Plain(t)
<1>1. Moves(t) /\ pc'[t] \in {"idle", "drain"}
  BY FinishMoves
<1> QED
  BY <1>1 DEF Plain, Rendering

\* The steps of the lane's hand-over.
LEMMA LaneIsPlain ==
    ASSUME Typing, NEW t \in Threads,
           \/ InspectionIsStale(t) \/ BeforePresentPanics(t) \/ ReleaseLane(t)
           \/ Sweep(t) \/ CheckPending(t) \/ PermitTicket(t)
    PROVE  Moves(t) /\ PolicyOK' /\ KeepsFailures /\ Plain(t)
<1>1. /\ UNCHANGED <<overlay, issued, failed, pending>>
      /\ PolicyOK' /\ KeepsFailures /\ sequence' = sequence /\ sequence <= sequence'
      /\ sequence' \in 0..MaxSequence
  <2>1. UNCHANGED policy /\ UNCHANGED <<overlay, issued, failed, pending>>
    BY DEF InspectionIsStale, BeforePresentPanics, ReleaseLane, Sweep, CheckPending,
           PermitTicket, history
  <2> QED
    BY <2>1, PolicySame
<1>2. /\ lane \in BOOLEAN /\ frame[t] \in FrameType /\ FrameOK(t)
      /\ frame[t].lane => lane = TRUE
  BY DEF Typing, LaneOK
<1>3. /\ {"idle", "native", "sweep", "check", "drain", "render"} \subseteq Pcs
      /\ NoFrame \in FrameType /\ ~NoFrame.lane /\ NoFrame.sequence <= sequence'
      /\ \A place \in {"idle", "sweep", "check"} : Invocation(place, NoFrame)
  <2>1. NoFrame.sequence <= sequence'
    BY <1>1, NoFrameTyping, SequencesAreBounded
  <2> QED
    BY <2>1, NoFrameTyping DEF Pcs, Invocation, Rendering
<1>4. CASE InspectionIsStale(t)
  <2>1. /\ pc[t] = "inspect" /\ frame[t].lane /\ Goto(t, "native")
        /\ UNCHANGED <<frame, sequence, lane, pending>>
    BY <1>1, <1>2, <1>4 DEF InspectionIsStale, At, FrameOK, Invocation, Rendering
  <2>2. Invocation("native", frame[t])
    BY <1>2, <2>1 DEF FrameOK, Invocation, Rendering
  <2>3. Moves(t) /\ pc'[t] = "native"
    BY <1>3, <2>1, <2>2, WentOn
  <2> QED
    BY <1>1, <2>1, <2>3 DEF Plain, Rendering
<1>5. CASE BeforePresentPanics(t)
  <2>1. /\ pc[t] = "inspect" /\ frame[t].lane /\ Goto(t, "sweep") /\ SetFrame(t, NoFrame)
        /\ lane' = FALSE
    BY <1>5 DEF BeforePresentPanics, At
  <2>2. Passes(t, NoFrame) /\ Watches(t, "sweep", NoFrame)
    BY <1>3, <2>1 DEF Passes, Watches
  <2>3. Moves(t) /\ pc'[t] = "sweep"
    BY <1>1, <1>3, <2>1, <2>2, Moved
  <2> QED
    BY <1>1, <2>1, <2>3 DEF Plain, Rendering
<1>6. CASE ReleaseLane(t)
  <2> DEFINE to == IF frame[t].sweeping THEN "check" ELSE "sweep"
  <2>1. /\ pc[t] = "release" /\ frame[t].lane /\ Goto(t, to) /\ SetFrame(t, NoFrame)
        /\ lane' = FALSE /\ to \in {"check", "sweep"}
    BY <1>2, <1>6 DEF ReleaseLane, At, FrameOK, Invocation
  <2> HIDE DEF to
  <2>2. Passes(t, NoFrame) /\ Watches(t, to, NoFrame)
    BY <1>3, <2>1 DEF Passes, Watches
  <2>3. Moves(t) /\ pc'[t] = to
    <3>1. to \in Pcs /\ Invocation(to, NoFrame)
      BY <1>3, <2>1
    <3> QED
      BY <1>1, <1>3, <2>1, <2>2, <3>1, Moved
  <2> QED
    BY <1>1, <2>1, <2>3 DEF Plain, Rendering
<1>7. CASE Sweep(t)
  <2>1. pc[t] = "sweep" /\ frame[t] = NoFrame /\ lane' = TRUE
    BY <1>2, <1>7 DEF Sweep, At, FrameOK, Invocation
  <2>2. CASE lane
    <3>1. Goto(t, "idle") /\ SetFrame(t, NoFrame) /\ lane' = lane
      BY <1>2, <1>7, <2>1, <2>2 DEF Sweep, Return
    <3>2. Passes(t, NoFrame) /\ Watches(t, "idle", NoFrame)
      BY <1>1, <1>3, <2>1, <2>2, <3>1 DEF Passes, Watches
    <3>3. Moves(t) /\ pc'[t] = "idle"
      BY <1>1, <1>3, <3>1, <3>2, Moved
    <3> QED
      BY <1>1, <2>1, <3>3 DEF Plain, Rendering
  <2>3. CASE ~lane
    <3> DEFINE g == [NoFrame EXCEPT !.lane = TRUE, !.sweeping = TRUE, !.then = "release"]
    <3>1. Goto(t, "drain") /\ SetFrame(t, g) /\ lane = FALSE
      BY <1>2, <1>7, <2>3 DEF Sweep
    <3>2. g \in FrameType /\ g.lane /\ g.then = "release" /\ g.retire = {} /\ g.sequence = 0
      BY NoFrameTyping DEF FrameType, Pcs
    <3> HIDE DEF g
    <3>3. Invocation("drain", g)
      BY <3>2 DEF Invocation, Rendering
    <3>4. Passes(t, g) /\ Watches(t, "drain", g)
      BY <2>1, <3>1, <3>2 DEF Passes, Watches
    <3>5. g.sequence <= sequence'
      BY <1>1, <3>2, SequencesAreBounded
    <3>6. Moves(t) /\ pc'[t] = "drain"
      BY <1>1, <1>3, <3>1, <3>2, <3>3, <3>4, <3>5, Moved
    <3> QED
      BY <1>1, <2>1, <3>6 DEF Plain, Rendering
  <2> QED
    BY <1>1, <2>2, <2>3
<1>8. CASE CheckPending(t)
  <2> DEFINE to == IF pending = {} THEN "idle" ELSE "sweep"
  <2>1. /\ pc[t] = "check" /\ frame[t] = NoFrame /\ Goto(t, to) /\ UNCHANGED <<frame, lane>>
        /\ to \in {"idle", "sweep"} /\ (to = "idle" => pending' = {})
    BY <1>1, <1>2, <1>8 DEF CheckPending, At, FrameOK, Invocation
  <2> HIDE DEF to
  <2>2. SetFrame(t, NoFrame)
    BY <2>1 DEF SetFrame, Typing
  <2>3. Passes(t, NoFrame) /\ Watches(t, to, NoFrame)
    BY <2>1 DEF Passes, Watches
  <2>4. Moves(t) /\ pc'[t] = to
    <3>1. to \in Pcs /\ Invocation(to, NoFrame)
      BY <1>3, <2>1
    <3> QED
      BY <1>1, <1>3, <2>2, <2>1, <2>3, <3>1, Moved
  <2> QED
    BY <1>1, <2>1, <2>4 DEF Plain, Rendering
<1>9. CASE PermitTicket(t)
  <2>1. pc[t] = "permit" /\ frame[t].lane /\ UNCHANGED lane
    BY <1>2, <1>9 DEF PermitTicket, At, FrameOK, Invocation, Rendering
  <2>2. CASE PermitsTicket(t)
    <3>1. Goto(t, "render") /\ UNCHANGED frame
      BY <1>9, <2>2 DEF PermitTicket
    <3>2. Invocation("render", frame[t])
      BY <1>2, <2>1 DEF FrameOK, Invocation, Rendering
    <3>3. Moves(t) /\ pc'[t] = "render" /\ frame'[t] = frame[t]
      BY <1>1, <1>3, <2>1, <3>1, <3>2, WentOn
    <3> QED
      BY <1>1, <2>1, <3>3 DEF Plain, Rendering
  <2>3. CASE ~PermitsTicket(t)
    <3> DEFINE g == [frame[t] EXCEPT !.then = "native", !.generation = 0]
    <3>1. Goto(t, "drain") /\ SetFrame(t, g)
      BY <1>9, <2>3 DEF PermitTicket
    <3>2. /\ g \in FrameType /\ g.lane /\ g.then = "native" /\ g.id = frame[t].id
          /\ g.retire = frame[t].retire /\ g.sequence = frame[t].sequence
      BY <1>2, <2>1 DEF FrameType, Pcs
    <3> HIDE DEF g
    <3>3. Invocation("drain", g)
      BY <1>2, <2>1, <3>2 DEF FrameOK, Invocation, Rendering
    <3>4. Passes(t, g) /\ Watches(t, "drain", g)
      BY <1>2, <2>1, <3>2 DEF Passes, Watches, FrameType
    <3>5. g.sequence <= sequence'
      BY <1>1, <1>2, <3>2 DEF FrameOK
    <3>6. Moves(t) /\ pc'[t] = "drain"
      BY <1>1, <1>3, <3>1, <3>2, <3>3, <3>4, <3>5, Moved
    <3> QED
      BY <1>1, <2>1, <3>6 DEF Plain, Rendering
  <2> QED
    BY <1>1, <2>2, <2>3
<1> QED
  BY <1>1, <1>4, <1>5, <1>6, <1>7, <1>8, <1>9

\* The steps of Present that only take its sequence.
LEMMA PresentIsPlain ==
    ASSUME Typing, NEW t \in Threads,
           PresentRefused(t) \/ PresentUntracked(t) \/ PresentSequenced(t)
    PROVE  Moves(t) /\ PolicyOK' /\ KeepsFailures /\ Plain(t)
<1> USE SequencesAreBounded
<1>1. /\ FrameOK(t) /\ frame[t] \in FrameType /\ pc[t] = "policy"
      /\ sequence \in 0..MaxSequence /\ chain \in [Chains -> ChainType] /\ frame[t].id \in Chains
  BY DEF Typing, PolicyOK, FrameOK, Invocation, PresentRefused, PresentUntracked,
         PresentSequenced, At
<1>2. CASE PresentRefused(t)
  <2>1. /\ PolicyOK' /\ KeepsFailures /\ sequence' \in 0..MaxSequence /\ sequence <= sequence'
    BY <1>2, PolicySame DEF PresentRefused
  <2>2. Finish(t, frame[t]) /\ UNCHANGED <<overlay, lane, pending, issued, failed>>
    BY <1>2 DEF PresentRefused, history
  <2> QED
    BY <1>1, <2>1, <2>2, FinishIsPlain
<1>3. ASSUME sequence' = sequence + 1, sequence < MaxSequence,
             UNCHANGED <<closing, controls, current, sessions>>,
             chain' \in [Chains -> ChainType], \A c \in Chains : chain'[c].last <= sequence'
      PROVE  PolicyOK' /\ KeepsFailures /\ sequence' \in 0..MaxSequence /\ sequence <= sequence'
  BY <1>1, <1>3 DEF PolicyOK, KeepsFailures, Typing
<1>4. CASE PresentUntracked(t)
  <2>1. \A c \in Chains : chain[c].last <= sequence + 1
    BY <1>1 DEF Typing, PolicyOK, ChainType
  <2>2. /\ PolicyOK' /\ KeepsFailures /\ sequence' \in 0..MaxSequence /\ sequence <= sequence'
    BY <1>1, <1>3, <1>4, <2>1 DEF PresentUntracked
  <2>3. Finish(t, frame[t]) /\ UNCHANGED <<overlay, lane, pending, issued, failed>>
    BY <1>4 DEF PresentUntracked, history
  <2> QED
    BY <1>1, <2>2, <2>3, FinishIsPlain
<1>5. CASE PresentSequenced(t)
  <2> DEFINE c == frame[t].id
             next == sequence + 1
             place == IF frame[t].lane THEN "inspect" ELSE "native"
             g == [frame[t] EXCEPT !.sequence = next]
  <2>1. next \in 0..MaxSequence /\ sequence' = next /\ sequence < next
    BY <1>1, <1>5 DEF PresentSequenced
  <2>2. /\ chain' = [chain EXCEPT ![c].last = next]
        /\ UNCHANGED <<closing, controls, current, sessions>>
        /\ Goto(t, place) /\ SetFrame(t, g)
        /\ UNCHANGED <<overlay, lane, pending, issued, failed>>
    BY <1>5 DEF PresentSequenced, history
  <2>3. /\ g \in FrameType /\ g.lane = frame[t].lane /\ g.id = c /\ g.retire = frame[t].retire
        /\ g.sequence = next
    BY <1>1, <2>1 DEF FrameType
  <2>4. \A d \in Chains : chain[d].last <= sequence
    BY DEF Typing, PolicyOK
  <2> HIDE DEF next, g
  <2>5. chain' \in [Chains -> ChainType]
    BY <1>1, <2>1, <2>2 DEF ChainType
  <2>6. ASSUME NEW d \in Chains
        PROVE  chain'[d].last <= sequence'
    <3>1. chain[d] \in ChainType /\ chain[d].last <= sequence
      BY <1>1, <2>4
    <3>2. CASE d = c
      <4>1. chain'[d].last = next
        BY <1>1, <2>2, <3>1, <3>2 DEF ChainType
      <4> QED
        BY <2>1, <4>1
    <3>3. CASE d # c
      <4>1. chain'[d] = chain[d]
        BY <1>1, <2>2, <3>3
      <4> QED
        BY <1>1, <2>1, <3>1, <4>1 DEF ChainType
    <3> QED
      BY <3>2, <3>3
  <2>7. PolicyOK' /\ KeepsFailures /\ sequence' \in 0..MaxSequence /\ sequence <= sequence'
    <3>1. sequence' = sequence + 1 /\ sequence < MaxSequence
      BY <1>5 DEF PresentSequenced
    <3> QED
      BY <1>3, <2>2, <2>5, <2>6, <3>1
  <2>8. place \in Pcs /\ Invocation(place, g)
    <3>1. frame[t].retire = {} /\ frame[t].lane \in BOOLEAN
      BY <1>1 DEF FrameOK, Invocation, FrameType
    <3> QED
      BY <1>1, <2>3, <3>1 DEF Pcs, Invocation, Rendering
  <2>9. Passes(t, g) /\ Watches(t, place, g)
    BY <1>1, <2>2, <2>3 DEF Passes, Watches
  <2>10. g.sequence <= sequence'
    BY <2>1, <2>3
  <2>11. Moves(t) /\ pc'[t] = place /\ frame'[t] = g
    BY <2>2, <2>3, <2>7, <2>8, <2>9, <2>10, Moved
  <2>12. Plain(t)
    BY <1>1, <2>1, <2>2, <2>3, <2>11 DEF Plain, Rendering
  <2> QED
    BY <2>7, <2>11, <2>12
<1> QED
  BY <1>2, <1>4, <1>5

\* The native call returns; before_resize.
LEMMA NativeIsPlain ==
    ASSUME Typing, NEW t \in Threads, NativeReturns(t) \/ BeforeResize(t)
    PROVE  Moves(t) /\ PolicyOK' /\ KeepsFailures /\ Plain(t)
<1> USE SequencesAreBounded
<1>1. /\ FrameOK(t) /\ frame[t] \in FrameType /\ pc[t] \in {"native", "resize"}
      /\ sequence \in 0..MaxSequence /\ chain \in [Chains -> ChainType] /\ frame[t].id \in Chains
      /\ frame[t].retire = {} /\ frame[t].sequence <= sequence
      /\ \A d \in Chains : chain[d].last <= sequence
  BY DEF Typing, PolicyOK, FrameOK, Invocation, NativeReturns, BeforeResize, At
<1>2. /\ UNCHANGED <<overlay, issued, failed, pending>>
      /\ PolicyOK' /\ KeepsFailures /\ sequence' = sequence /\ sequence <= sequence'
      /\ sequence' \in 0..MaxSequence
  <2>1. UNCHANGED policy /\ UNCHANGED <<overlay, issued, failed, pending>>
    BY DEF NativeReturns, BeforeResize, history
  <2> QED
    BY <2>1, PolicySame
<1>3. CASE NativeReturns(t)
  <2>1. pc[t] = "native"
    BY <1>3 DEF NativeReturns, At
  <2>2. CASE frame[t].lane
    <3>1. Goto(t, "after") /\ UNCHANGED <<frame, lane>>
      BY <1>3, <2>2 DEF NativeReturns
    <3>2. Invocation("after", frame[t]) /\ "after" \in Pcs
      BY <1>1 DEF Invocation, Rendering, Pcs
    <3>3. Moves(t) /\ pc'[t] = "after"
      BY <1>2, <2>2, <3>1, <3>2, WentOn
    <3> QED
      BY <1>2, <2>1, <3>3 DEF Plain, Rendering
  <2>3. CASE ~frame[t].lane
    <3>1. TryLane(t, frame[t], "after")
      BY <1>3, <2>3 DEF NativeReturns
    <3>2. Moves(t) /\ pc'[t] \in {"after", "drain"}
      BY <1>1, <1>2, <2>1, <2>3, <3>1, TryLaneMoves
    <3> QED
      BY <1>2, <2>1, <3>2 DEF Plain, Rendering
  <2> QED
    BY <1>2, <2>2, <2>3
<1>4. CASE BeforeResize(t)
  <2>1. pc[t] = "resize" /\ UNCHANGED lane
    BY <1>4 DEF BeforeResize, At
  <2>2. CASE ~chain[frame[t].id].tracked
    <3>1. Finish(t, frame[t])
      BY <1>4, <2>2 DEF BeforeResize
    <3> QED
      BY <1>2, <2>1, <3>1, FinishIsPlain
  <2>3. CASE chain[frame[t].id].tracked
    <3> DEFINE place == IF frame[t].lane THEN "drain" ELSE "native"
               then == IF frame[t].lane THEN "native" ELSE "idle"
               last == chain[frame[t].id].last
               g == [frame[t] EXCEPT !.sequence = last, !.then = then]
    <3>1. Goto(t, place) /\ SetFrame(t, g)
      BY <1>4, <2>3 DEF BeforeResize
    <3>2. last \in 0..MaxSequence /\ last <= sequence' /\ then \in Pcs /\ place \in Pcs
      BY <1>1, <1>2 DEF ChainType, Pcs
    <3>3. frame[t].lane => then = "native"
      OBVIOUS
    <3> HIDE DEF last, then
    <3>4. /\ g \in FrameType /\ g.lane = frame[t].lane /\ g.id = frame[t].id /\ g.retire = {}
          /\ g.sequence = last /\ g.then = then
      BY <1>1, <3>2 DEF FrameType
    <3> HIDE DEF g
    <3>5. Invocation(place, g)
      BY <1>1, <3>3, <3>4 DEF Invocation, Rendering
    <3>6. Passes(t, g) /\ Watches(t, place, g)
      BY <1>1, <1>2, <2>1, <3>4 DEF Passes, Watches
    <3>7. Moves(t) /\ pc'[t] = place
      BY <1>2, <3>1, <3>2, <3>4, <3>5, <3>6, Moved
    <3> QED
      BY <1>2, <2>1, <3>7 DEF Plain, Rendering
  <2> QED
    BY <2>2, <2>3
<1> QED
  BY <1>3, <1>4

\* What inspection finds is what the chain looks like from then on.
LEMMA InspectedTyping ==
    ASSUME Typing, NEW t \in Threads, pc[t] = "inspect", NEW surface \in Surfaces
    PROVE  /\ Inspected(t, surface) \in [Chains -> ChainType]
           /\ \A c \in Chains : Inspected(t, surface)[c].last <= sequence
<1>1. /\ FrameOK(t) /\ frame[t] \in FrameType /\ frame[t].id \in Chains
      /\ chain \in [Chains -> ChainType] /\ frame[t].sequence \in 0..MaxSequence
      /\ \A d \in Chains : chain[d].last <= sequence
  BY DEF Typing, PolicyOK, FrameOK, Invocation, Rendering, FrameType
<1>2. <<surface, chain[frame[t].id].color>> \in Looks
  BY <1>1 DEF ChainType, Looks
<1> DEFINE look == <<surface, chain[frame[t].id].color>>
<1>3. Inspected(t, surface) = [chain EXCEPT ![frame[t].id].look = look,
                                            ![frame[t].id].seen = frame[t].sequence]
  BY DEF Inspected
<1> HIDE DEF look
<1>4. look \in Looks
  BY <1>2 DEF look
<1>5. ASSUME NEW d \in Chains
      PROVE  /\ Inspected(t, surface)[d] \in ChainType
             /\ Inspected(t, surface)[d].last = chain[d].last
  <2>1. chain[d] \in ChainType
    BY <1>1
  <2>2. CASE d # frame[t].id
    BY <1>1, <1>3, <2>1, <2>2
  <2>3. CASE d = frame[t].id
    <3>1. Inspected(t, surface)[d] = [chain[d] EXCEPT !.look = look, !.seen = frame[t].sequence]
      BY <1>1, <1>3, <2>3
    <3> QED
      BY <1>1, <1>4, <2>1, <3>1 DEF ChainType
  <2> QED
    BY <2>2, <2>3
<1>6. Inspected(t, surface) = [d \in Chains |-> Inspected(t, surface)[d]]
  BY <1>1, <1>3
<1> QED
  BY <1>1, <1>5, <1>6

\* An inspection that selects its own chain goes on to the frame.
LEMMA SelectionIsPlain ==
    ASSUME Typing, NEW t \in Threads, NEW surface \in Surfaces, InspectionSelects(t, surface)
    PROVE  Moves(t) /\ PolicyOK' /\ KeepsFailures /\ Plain(t)
<1> USE SequencesAreBounded
<1> DEFINE c == frame[t].id
           observed == Inspected(t, surface)
           looks == [o \in {o \in Chains : observed[o].look # NoLook} |-> observed[o].look]
           reconciled == Reconcile(sessions, looks, c)
           failures == AfterPermission(reconciled[c].failures, sequence)
           g == [frame[t] EXCEPT !.generation = reconciled[c].generation]
<1>1. /\ FrameOK(t) /\ frame[t] \in FrameType /\ pc[t] = "inspect" /\ frame[t].lane
      /\ sequence \in 0..MaxSequence /\ c \in Chains
      /\ frame[t].retire = {} /\ frame[t].sequence <= sequence
  BY DEF Typing, PolicyOK, FrameOK, Invocation, InspectionSelects, At, Rendering
<1>2. /\ chain' = observed /\ current' = c
      /\ c \in Renderable(sessions, looks, sequence)
      /\ sessions' = [reconciled EXCEPT ![c].failures = AfterPermission(@, sequence)]
      /\ SetFrame(t, g) /\ Goto(t, "permit")
      /\ UNCHANGED <<overlay, lane, pending, closing, sequence, controls, issued, failed>>
  BY DEF InspectionSelects, history
<1>3. /\ observed \in [Chains -> ChainType]
      /\ \A d \in Chains : observed[d].last <= sequence
  BY <1>1, InspectedTyping
<1> HIDE DEF observed
<1>4. DOMAIN looks \subseteq Chains /\ \A d \in DOMAIN looks : looks[d] \in Looks
  BY <1>3 DEF ChainType
<1>5. c \in DOMAIN looks
  BY <1>2 DEF Renderable
<1> HIDE DEF looks
<1>6. Reconciled(reconciled, looks)
  BY <1>4, ReconcileTyping DEF Typing
<1>7. DOMAIN reconciled = DOMAIN sessions \cup DOMAIN looks
  BY DEF Reconcile
<1>8. sessions' = [reconciled EXCEPT ![c].failures = failures]
  BY <1>2
<1> HIDE DEF reconciled
<1>9. c \in DOMAIN reconciled /\ reconciled[c] \in SessionType
  BY <1>5, <1>6, <1>7 DEF Reconciled
<1>10. failures \in FailureState /\ (failures # NoFailures => reconciled[c].failures # NoFailures)
  <2>1. reconciled[c].failures \in FailureState
    BY <1>9 DEF SessionType
  <2>2. failures \in FailureState
    BY <1>1, <2>1, FailureTyping
  <2>3. reconciled[c].failures = NoFailures => failures = NoFailures
    BY DEF AfterPermission, NoFailures
  <2> QED
    BY <2>2, <2>3
<1> HIDE DEF failures
<1>11. ASSUME NEW d \in DOMAIN sessions'
       PROVE  /\ sessions'[d] \in SessionType /\ d \in Chains
              /\ sessions'[d].failures # NoFailures =>
                    /\ d \in DOMAIN sessions
                    /\ sessions[d].failures # NoFailures
                    /\ sessions'[d].generation = sessions[d].generation
  <2>1. d \in DOMAIN reconciled /\ d \in Chains
    BY <1>7, <1>8, <1>4 DEF Typing, PolicyOK
  <2>2. /\ reconciled[d] \in SessionType
        /\ reconciled[d].failures # NoFailures =>
              /\ d \in DOMAIN sessions
              /\ reconciled[d].failures = sessions[d].failures
              /\ reconciled[d].generation = sessions[d].generation
    BY <1>6, <2>1 DEF Reconciled
  <2>3. CASE d # c
    BY <1>8, <2>1, <2>2, <2>3
  <2>4. CASE d = c
    <3>1. sessions'[d] = [reconciled[d] EXCEPT !.failures = failures]
      BY <1>8, <2>1, <2>4
    <3>2. /\ sessions'[d] \in SessionType /\ sessions'[d].failures = failures
          /\ sessions'[d].generation = reconciled[d].generation
      BY <1>10, <2>2, <3>1 DEF SessionType
    <3> QED
      BY <1>10, <2>1, <2>2, <2>4, <3>2
  <2> QED
    BY <2>3, <2>4
<1>12. PolicyOK' /\ KeepsFailures
  <2>1. closing' \in BOOLEAN /\ controls' \in BOOLEAN /\ sequence' \in 0..MaxSequence
    BY <1>2 DEF Typing, PolicyOK
  <2>2. chain' \in [Chains -> ChainType] /\ \A d \in Chains : chain'[d].last <= sequence'
    BY <1>2, <1>3
  <2>3. current' \in Chains \cup {Nobody}
    BY <1>1, <1>2
  <2> QED
    BY <1>11, <2>1, <2>2, <2>3 DEF PolicyOK, KeepsFailures
<1>13. /\ g \in FrameType /\ g.lane /\ g.id = c /\ g.retire = {}
       /\ g.sequence = frame[t].sequence
  BY <1>1, <1>9 DEF FrameType, SessionType
<1> HIDE DEF g
<1>14. Invocation("permit", g) /\ "permit" \in Pcs
  BY <1>1, <1>13 DEF Invocation, Rendering, Pcs
<1>15. Passes(t, g) /\ Watches(t, "permit", g)
  BY <1>1, <1>2, <1>13 DEF Passes, Watches, FrameType
<1>16. sequence' = sequence /\ g.sequence <= sequence' /\ sequence <= sequence'
  BY <1>1, <1>2, <1>13
<1>17. Moves(t) /\ pc'[t] = "permit" /\ frame'[t] = g
  BY <1>2, <1>13, <1>14, <1>15, <1>16, Moved
<1>18. Plain(t)
  BY <1>1, <1>2, <1>13, <1>17 DEF Plain, Rendering
<1> QED
  BY <1>12, <1>17, <1>18

\* An outcome is recorded: only a frame that failed leaves failures behind, and
\* only in the generation it rendered.
RecordsOutcome(t) ==
    \A c \in DOMAIN sessions' :
        sessions'[c].failures # NoFailures =>
            /\ c \in DOMAIN sessions
            /\ sessions'[c].generation = sessions[c].generation
            /\ \/ sessions[c].failures # NoFailures
               \/ /\ ~frame[t].succeeded
                  /\ c = frame[t].id /\ sessions[c].generation = frame[t].generation

\* record_frame_outcome, with the policy lock taken anew.
LEMMA OutcomeIsPlain ==
    ASSUME Typing, NEW t \in Threads, RecordRenderOutcome(t)
    PROVE  Moves(t) /\ PolicyOK' /\ RecordsOutcome(t) /\ Plain(t) /\ pc[t] = "outcome"
<1> USE SequencesAreBounded
<1> DEFINE c == frame[t].id
           g == [frame[t] EXCEPT !.then = "native", !.succeeded = FALSE, !.generation = 0]
<1>1. /\ FrameOK(t) /\ frame[t] \in FrameType /\ pc[t] = "outcome" /\ frame[t].lane
      /\ sequence \in 0..MaxSequence /\ c \in Chains
      /\ frame[t].retire = {} /\ frame[t].sequence <= sequence
      /\ frame[t].sequence \in 0..MaxSequence
  BY DEF Typing, PolicyOK, FrameOK, Invocation, RecordRenderOutcome, At, FrameType
<1>2. /\ sessions' = IF sessions[c].generation = frame[t].generation
                     THEN [sessions EXCEPT ![c] = OutcomeOf(t)]
                     ELSE sessions
      /\ SetFrame(t, g) /\ Goto(t, "drain")
      /\ UNCHANGED <<overlay, lane, pending, closing, sequence, controls, chain, current,
                     issued, failed>>
  BY DEF RecordRenderOutcome, history
<1>3. ASSUME NEW d \in DOMAIN sessions'
      PROVE  /\ d \in DOMAIN sessions /\ sessions'[d] \in SessionType
             /\ sessions'[d].generation = sessions[d].generation
             /\ sessions'[d].failures # NoFailures =>
                   \/ sessions[d].failures # NoFailures
                   \/ /\ ~frame[t].succeeded
                      /\ d = c /\ sessions[d].generation = frame[t].generation
  <2>1. d \in DOMAIN sessions
    BY <1>2
  <2>2. sessions[d] \in SessionType
    BY <2>1 DEF Typing, PolicyOK
  <2>3. CASE sessions'[d] = sessions[d]
    BY <2>1, <2>2, <2>3
  <2>4. CASE sessions'[d] # sessions[d]
    <3>1. d = c /\ sessions[d].generation = frame[t].generation /\ sessions'[d] = OutcomeOf(t)
      BY <1>2, <2>1, <2>4
    <3> DEFINE failure == RecordFailure(sessions[d].failures, frame[t].sequence)
    <3>2. sessions'[d] = [sessions[d] EXCEPT !.outcome = frame[t].sequence,
                              !.failures = IF frame[t].succeeded THEN NoFailures ELSE failure]
      BY <2>4, <3>1 DEF OutcomeOf, RecordOutcome
    <3>3. failure \in FailureState
      BY <1>1, <2>2, FailureTyping DEF SessionType
    <3> HIDE DEF failure
    <3>4. NoFailures \in FailureState
      BY DEF NoFailures, FailureState
    <3>5. CASE frame[t].succeeded
      <4>1. sessions'[d] = [sessions[d] EXCEPT !.outcome = frame[t].sequence,
                                               !.failures = NoFailures]
        BY <3>2, <3>5
      <4>2. sessions'[d].failures = NoFailures
        BY <2>2, <4>1 DEF SessionType
      <4>3. sessions'[d].generation = sessions[d].generation
        BY <2>2, <4>1 DEF SessionType
      <4>4. frame[t].sequence \in 0..MaxSequence
        BY <1>1
      <4>5. sessions'[d] \in SessionType
        BY <2>2, <3>4, <4>1, <4>4 DEF SessionType
      <4> QED
        BY <2>1, <4>2, <4>3, <4>5
    <3>6. CASE ~frame[t].succeeded
      <4>1. sessions'[d] = [sessions[d] EXCEPT !.outcome = frame[t].sequence,
                                               !.failures = failure]
        BY <3>2, <3>6
      <4>2. /\ sessions'[d] \in SessionType
            /\ sessions'[d].generation = sessions[d].generation
        BY <1>1, <2>2, <3>3, <4>1 DEF SessionType
      <4> QED
        BY <2>1, <3>1, <3>6, <4>2
    <3> QED
      BY <3>5, <3>6
  <2> QED
    BY <2>3, <2>4
<1>4. PolicyOK'
  BY <1>2, <1>3 DEF Typing, PolicyOK
<1>5. RecordsOutcome(t)
  BY <1>3 DEF RecordsOutcome
<1>6. /\ g \in FrameType /\ g.lane /\ g.id = c /\ g.retire = {} /\ g.then = "native"
      /\ g.sequence = frame[t].sequence
  BY <1>1 DEF FrameType, Pcs
<1> HIDE DEF g
<1>7. Invocation("drain", g) /\ "drain" \in Pcs
  BY <1>1, <1>6 DEF Invocation, Rendering, Pcs
<1>8. Passes(t, g) /\ Watches(t, "drain", g)
  BY <1>1, <1>2, <1>6 DEF Passes, Watches, FrameType
<1>9. sequence' = sequence /\ g.sequence <= sequence' /\ sequence <= sequence'
  BY <1>1, <1>2, <1>6
<1>10. Moves(t) /\ pc'[t] = "drain" /\ frame'[t] = g
  BY <1>2, <1>6, <1>7, <1>8, <1>9, Moved
<1>11. Plain(t)
  BY <1>1, <1>2, <1>10 DEF Plain, Rendering
<1> QED
  BY <1>1, <1>4, <1>5, <1>10, <1>11
-----------------------------------------------------------------------------
(* The steps that decide which sessions are retired. *)

\* Retirements are decided: this call applies them, which it does only with the
\* lane, or is about to leave them in pending.
Decides(t) ==
    \E retirements \in SUBSET RetirementType :
        /\ \A r \in retirements : r.sequence <= sequence
        /\ Issue(retirements) /\ UNCHANGED <<pending, sequence, failed>>
        /\ pc[t] \in {"policy", "inspect", "after"}
        /\ pc'[t] \notin Rendering \cup {"outcome"}
        /\ \/ /\ Retire(t, retirements) /\ pc'[t] # "defer"
              /\ retirements = {} \/ frame[t].lane
           \/ /\ UNCHANGED overlay /\ pc'[t] = "defer" /\ frame'[t].retire = retirements

\* A call with the lane retires at once; one without it defers.
LEMMA RetireOrDeferMoves ==
    ASSUME Typing, NEW t \in Threads, NEW retirements \in SUBSET RetirementType,
           \A r \in retirements : r.sequence <= sequence,
           Issue(retirements), pc[t] \in {"policy", "after"},
           RetireOrDefer(t, frame[t], retirements), UNCHANGED <<lane, pending, sequence, failed>>
    PROVE  Moves(t) /\ Decides(t)
<1>1. /\ FrameOK(t) /\ frame[t] \in FrameType /\ sequence \in 0..MaxSequence
      /\ sequence' \in 0..MaxSequence /\ sequence <= sequence'
  BY SequencesAreBounded DEF Typing, PolicyOK
<1>2. CASE retirements = {} \/ frame[t].lane
  <2>1. Retire(t, retirements) /\ Finish(t, frame[t])
    BY <1>2 DEF RetireOrDefer
  <2>2. Moves(t) /\ pc'[t] \in {"idle", "drain"}
    BY <1>1, <2>1, FinishMoves
  <2>3. pc'[t] \notin Rendering \cup {"outcome", "defer"}
    BY <2>2 DEF Rendering
  <2> QED
    BY <1>2, <2>1, <2>2, <2>3 DEF Decides
<1>3. CASE ~(retirements = {} \/ frame[t].lane)
  <2> DEFINE g == [frame[t] EXCEPT !.retire = retirements]
  <2>1. Goto(t, "defer") /\ SetFrame(t, g) /\ UNCHANGED overlay
    BY <1>3 DEF RetireOrDefer
  <2>2. /\ g \in FrameType /\ g.lane = frame[t].lane /\ g.retire = retirements
        /\ g.sequence = frame[t].sequence /\ g.id = frame[t].id
    BY <1>1 DEF FrameType
  <2> HIDE DEF g
  <2>3. Invocation("defer", g) /\ "defer" \in Pcs
    BY <1>1, <1>3, <2>2 DEF FrameOK, Invocation, Rendering, Pcs
  <2>4. Passes(t, g) /\ Watches(t, "defer", g)
    BY <1>3, <2>2 DEF Passes, Watches
  <2>5. g.sequence <= sequence'
    BY <1>1, <2>2 DEF FrameOK
  <2>6. Moves(t) /\ pc'[t] = "defer" /\ frame'[t] = g
    BY <1>1, <2>1, <2>2, <2>3, <2>4, <2>5, Moved
  <2> QED
    BY <2>1, <2>2, <2>6 DEF Decides, Rendering
<1> QED
  BY <1>2, <1>3

\* A chain's record is replaced; its last Present stays what it was.
LEMMA ChainReplaced ==
    ASSUME Typing, NEW c \in Chains, NEW after, after = [d \in Chains |-> after[d]],
           \A d \in Chains \ {c} : after[d] = chain[d],
           after[c] \in ChainType, after[c].last = chain[c].last
    PROVE  after \in [Chains -> ChainType] /\ \A d \in Chains : after[d].last <= sequence
<1>1. chain \in [Chains -> ChainType] /\ \A d \in Chains : chain[d].last <= sequence
  BY DEF Typing, PolicyOK
<1>2. ASSUME NEW d \in Chains
      PROVE  after[d] \in ChainType /\ after[d].last <= sequence
  <2>1. CASE d = c
    BY <1>1, <2>1
  <2>2. CASE d # c
    BY <1>1, <2>2
  <2> QED
    BY <2>1, <2>2
<1> QED
  BY <1>2

Forgets(c, after) == after = [chain EXCEPT ![c].look = NoLook, ![c].seen = 0]

\* A chain whose look is forgotten keeps its last Present.
LEMMA LookForgotten ==
    ASSUME Typing, NEW c \in Chains, NEW after, Forgets(c, after)
    PROVE  after \in [Chains -> ChainType] /\ \A d \in Chains : after[d].last <= sequence
<1>1. chain \in [Chains -> ChainType] /\ chain[c] \in ChainType /\ 0 \in 0..MaxSequence
  BY SequencesAreBounded DEF Typing, PolicyOK
<1>2. after[c] = [chain[c] EXCEPT !.look = NoLook, !.seen = 0]
  BY <1>1 DEF Forgets
<1>3. after[c] \in ChainType /\ after[c].last = chain[c].last
  BY <1>1, <1>2 DEF ChainType
<1>4. after = [d \in Chains |-> after[d]]
  BY <1>1 DEF Forgets
<1>5. \A d \in Chains \ {c} : after[d] = chain[d]
  BY <1>1 DEF Forgets
<1> QED
  BY <1>3, <1>4, <1>5, ChainReplaced

\* The selection's part of a step that reconciles.
LEMMA SelectsPolicy ==
    ASSUME Typing, NEW chains \in [Chains -> ChainType],
           \A d \in Chains : chains[d].last <= sequence,
           NEW winner, Selects(chains, winner), UNCHANGED <<closing, sequence, controls>>
    PROVE  /\ PolicyOK' /\ KeepsFailures
           /\ \A d \in DOMAIN sessions' : sessions'[d] \in SessionType
<1>1. PolicyOK
  BY DEF Typing
<1>2. /\ chain' = chains /\ current' \in Chains \cup {Nobody}
      /\ DOMAIN sessions' \subseteq Chains
      /\ \A c \in DOMAIN sessions' : sessions'[c] \in SessionType
      /\ KeepsFailures
  BY <1>1, SelectsTyping
<1> QED
  BY <1>1, <1>2 DEF PolicyOK

\* The counter of Presents runs out: every session is retired.
LEMMA ExhaustedDecides ==
    ASSUME Typing, NEW t \in Threads, PresentExhausted(t)
    PROVE  Moves(t) /\ PolicyOK' /\ KeepsFailures /\ Decides(t)
<1> DEFINE retirements == UNION {RetirementOf(sessions, c, sequence) : c \in Chains}
<1>1. sequence \in 0..MaxSequence /\ \A c \in DOMAIN sessions : sessions[c] \in SessionType
  BY DEF Typing, PolicyOK
<1>2. ASSUME NEW c \in Chains
      PROVE  /\ RetirementOf(sessions, c, sequence) \subseteq RetirementType
             /\ \A r \in RetirementOf(sessions, c, sequence) : r.sequence = sequence
  BY <1>1, RetirementOfTyping
<1>3. retirements \in SUBSET RetirementType /\ \A r \in retirements : r.sequence <= sequence
  BY <1>1, <1>2, SequencesAreBounded
<1>4. /\ Issue(retirements) /\ pc[t] = "policy" /\ RetireOrDefer(t, frame[t], retirements)
      /\ UNCHANGED <<lane, pending, sequence, failed, controls, chain, current, sessions>>
      /\ closing' = TRUE
  BY DEF PresentExhausted, At
<1> HIDE DEF retirements
<1>5. Moves(t) /\ Decides(t)
  BY <1>3, <1>4, RetireOrDeferMoves
<1>6. PolicyOK' /\ KeepsFailures
  BY <1>4 DEF Typing, PolicyOK, KeepsFailures
<1> QED
  BY <1>5, <1>6

\* An inspection that fails, or selects another chain.
LEMMA InspectionDecides ==
    ASSUME Typing, NEW t \in Threads, NEW winner,
           \/ InspectionFails(t, winner)
           \/ \E surface \in Surfaces : InspectionSelectsOther(t, surface, winner)
    PROVE  Moves(t) /\ PolicyOK' /\ KeepsFailures /\ (Plain(t) \/ Decides(t))
<1> DEFINE c == frame[t].id
<1>1. /\ FrameOK(t) /\ frame[t] \in FrameType /\ pc[t] = "inspect" /\ c \in Chains
      /\ frame[t].lane /\ frame[t].retire = {} /\ frame[t].sequence \in 0..MaxSequence
      /\ frame[t].sequence <= sequence /\ sequence \in 0..MaxSequence
      /\ \A d \in DOMAIN sessions : sessions[d] \in SessionType
  BY DEF Typing, FrameOK, Invocation, InspectionFails, InspectionSelectsOther, At,
         FrameType, Rendering, PolicyOK
<1>2. ASSUME NEW registry, \A d \in DOMAIN registry : registry[d] \in SessionType
      PROVE  /\ RetirementOf(registry, c, frame[t].sequence) \in SUBSET RetirementType
             /\ \A r \in RetirementOf(registry, c, frame[t].sequence) : r.sequence <= sequence
  <2>1. c \in DOMAIN registry => registry[c] \in SessionType
    BY <1>2
  <2>2. /\ RetirementOf(registry, c, frame[t].sequence) \subseteq RetirementType
        /\ \A r \in RetirementOf(registry, c, frame[t].sequence) :
              r.sequence = frame[t].sequence
    BY <1>1, <2>1, RetirementOfTyping
  <2> QED
    BY <1>1, <2>2
<1>3. CASE InspectionFails(t, winner)
  <2>1. Goto(t, "native") /\ UNCHANGED <<lane, pending, frame, failed>>
    BY <1>3 DEF InspectionFails
  <2>2. Invocation("native", frame[t]) /\ "native" \in Pcs
    BY <1>1 DEF Invocation, Rendering, Pcs
  <2>3. CASE ~IsCurrentPresent(t)
    <3>1. UNCHANGED <<policy, overlay, issued>>
      BY <1>3, <2>3 DEF InspectionFails
    <3>2. PolicyOK' /\ KeepsFailures /\ sequence' = sequence
      BY <3>1, PolicySame
    <3>3. Moves(t) /\ pc'[t] = "native"
      BY <1>1, <2>1, <2>2, <3>2, WentOn
    <3> QED
      BY <1>1, <2>1, <3>1, <3>2, <3>3 DEF Plain, Rendering
  <2>4. CASE IsCurrentPresent(t)
    <3> DEFINE retirements == RetirementOf(sessions, c, frame[t].sequence)
               after == [chain EXCEPT ![c].look = NoLook, ![c].seen = 0]
    <3>1. /\ Selects(after, winner) /\ Issue(retirements) /\ Retire(t, retirements)
          /\ UNCHANGED <<closing, sequence, controls>>
      BY <1>3, <2>4 DEF InspectionFails
    <3>2. retirements \in SUBSET RetirementType /\ \A r \in retirements : r.sequence <= sequence
      BY <1>1, <1>2
    <3>3. after \in [Chains -> ChainType] /\ \A d \in Chains : after[d].last <= sequence
      <4>1. Forgets(c, after)
        BY DEF Forgets
      <4> QED
        BY <1>1, <4>1, LookForgotten
    <3> HIDE DEF after, retirements
    <3>4. PolicyOK' /\ KeepsFailures
      BY <3>1, <3>3, SelectsPolicy
    <3>5. Moves(t) /\ pc'[t] = "native"
      BY <1>1, <2>1, <2>2, <3>1, WentOn
    <3>6. Decides(t)
      BY <1>1, <2>1, <3>1, <3>2, <3>5 DEF Decides, Rendering
    <3> QED
      BY <3>4, <3>5, <3>6
  <2> QED
    BY <2>3, <2>4
<1>4. ASSUME NEW surface \in Surfaces, InspectionSelectsOther(t, surface, winner)
      PROVE  Moves(t) /\ PolicyOK' /\ KeepsFailures /\ Decides(t)
  <2> DEFINE retirements == RetirementOf(sessions', c, frame[t].sequence)
             observed == Inspected(t, surface)
             g == [frame[t] EXCEPT !.then = "native"]
  <2>1. /\ Selects(observed, winner) /\ Issue(retirements) /\ Retire(t, retirements)
        /\ UNCHANGED <<closing, sequence, controls, lane, pending, failed>>
        /\ SetFrame(t, g) /\ Goto(t, "drain")
    BY <1>4 DEF InspectionSelectsOther
  <2>2. observed \in [Chains -> ChainType] /\ \A d \in Chains : observed[d].last <= sequence
    BY <1>1, InspectedTyping
  <2> HIDE DEF observed
  <2>3. /\ PolicyOK' /\ KeepsFailures
        /\ \A d \in DOMAIN sessions' : sessions'[d] \in SessionType
    BY <2>1, <2>2, SelectsPolicy
  <2>4. retirements \in SUBSET RetirementType /\ \A r \in retirements : r.sequence <= sequence
    BY <1>2, <2>3
  <2> HIDE DEF retirements
  <2>5. /\ g \in FrameType /\ g.lane /\ g.id = c /\ g.retire = {} /\ g.then = "native"
        /\ g.sequence = frame[t].sequence
    BY <1>1 DEF FrameType, Pcs
  <2> HIDE DEF g
  <2>6. Invocation("drain", g) /\ "drain" \in Pcs
    BY <1>1, <2>5 DEF Invocation, Rendering, Pcs
  <2>7. Passes(t, g) /\ Watches(t, "drain", g)
    BY <1>1, <2>1, <2>5 DEF Passes, Watches, FrameType
  <2>8. g.sequence <= sequence' /\ sequence <= sequence'
    BY <1>1, <2>1, <2>5, SequencesAreBounded
  <2>9. Moves(t) /\ pc'[t] = "drain"
    BY <2>1, <2>5, <2>6, <2>7, <2>8, Moved
  <2>10. Decides(t)
    BY <1>1, <2>1, <2>4, <2>9 DEF Decides, Rendering
  <2> QED
    BY <2>3, <2>9, <2>10
<1> QED
  BY <1>3, <1>4

\* The end of a call whose chain is looked up, but whose sessions stay.
LEMMA UnchangedIsPlain ==
    ASSUME Typing, NEW t \in Threads, pc[t] = "after", AfterUnchanged(t),
           chain' \in [Chains -> ChainType], \A d \in Chains : chain'[d].last <= sequence,
           UNCHANGED <<lane, pending, closing, sequence, controls, failed>>
    PROVE  Moves(t) /\ PolicyOK' /\ KeepsFailures /\ Plain(t)
<1>1. /\ Finish(t, frame[t]) /\ UNCHANGED <<overlay, current, sessions, issued>>
  BY DEF AfterUnchanged
<1>2. PolicyOK' /\ KeepsFailures
  BY <1>1 DEF Typing, PolicyOK, KeepsFailures
<1>3. sequence' \in 0..MaxSequence /\ sequence <= sequence'
  BY SequencesAreBounded DEF Typing, PolicyOK
<1>4. Moves(t) /\ Plain(t)
  BY <1>1, <1>3, FinishIsPlain
<1> QED
  BY <1>2, <1>4

\* And of one whose sessions were selected anew.
LEMMA SelectionDecides ==
    ASSUME Typing, NEW t \in Threads, pc[t] = "after",
           NEW chains \in [Chains -> ChainType], \A d \in Chains : chains[d].last <= sequence,
           NEW winner, Selects(chains, winner),
           NEW retirements \in SUBSET RetirementType,
           \A r \in retirements : r.sequence <= sequence,
           Issue(retirements), RetireOrDefer(t, frame[t], retirements),
           UNCHANGED <<lane, pending, closing, sequence, controls, failed>>
    PROVE  Moves(t) /\ PolicyOK' /\ KeepsFailures /\ Decides(t)
<1>1. PolicyOK' /\ KeepsFailures
  BY SelectsPolicy
<1>2. Moves(t) /\ Decides(t)
  BY RetireOrDeferMoves
<1> QED
  BY <1>1, <1>2

\* What a call knows of its chain after the native call.
LEMMA AfterTyping ==
    ASSUME Typing, NEW t \in Threads, pc[t] = "after"
    PROVE  /\ frame[t].id \in Chains /\ frame[t].sequence \in 0..MaxSequence
           /\ frame[t].sequence <= sequence /\ sequence \in 0..MaxSequence
           /\ chain \in [Chains -> ChainType] /\ \A d \in Chains : chain[d].last <= sequence
           /\ \A d \in DOMAIN sessions : sessions[d] \in SessionType
           /\ current \in Chains \cup {Nobody}
BY DEF Typing, PolicyOK, FrameOK, FrameType, Invocation

\* A chain's sessions are retired up to a Present that was begun.
LEMMA RetirementsTyping ==
    ASSUME Typing, NEW c \in Chains, NEW last \in 0..MaxSequence, last <= sequence,
           NEW registry, \A d \in DOMAIN registry : registry[d] \in SessionType
    PROVE  /\ RetirementOf(registry, c, last) \in SUBSET RetirementType
           /\ \A r \in RetirementOf(registry, c, last) : r.sequence <= sequence
<1>1. c \in DOMAIN registry => registry[c] \in SessionType
  OBVIOUS
<1>2. /\ RetirementOf(registry, c, last) \subseteq RetirementType
      /\ \A r \in RetirementOf(registry, c, last) : r.sequence = last
  BY <1>1, RetirementOfTyping
<1> QED
  BY <1>2

\* after_present, for every result.
LEMMA AfterPresentDecides ==
    ASSUME Typing, NEW t \in Threads, NEW result \in Results, NEW winner,
           AfterPresent(t, result, winner)
    PROVE  Moves(t) /\ PolicyOK' /\ KeepsFailures /\ (Plain(t) \/ Decides(t))
<1> DEFINE c == frame[t].id
           occluded == result = "occluded"
           lost == result = "lost"
           look == IF lost THEN NoLook ELSE chain[c].look
           seen == IF lost THEN 0 ELSE chain[c].seen
           after == [chain EXCEPT ![c].occluded = occluded,
                                  ![c].look = IF lost THEN NoLook ELSE @,
                                  ![c].seen = IF lost THEN 0 ELSE @]
           reconciles == lost \/ (chain[c].look # NoLook /\ chain[c].occluded # occluded)
           retirements == IF winner = c THEN {} ELSE RetirementOf(sessions', c, frame[t].sequence)
<1>1. pc[t] = "after" /\ UNCHANGED <<lane, pending, closing, sequence, controls, failed>>
  BY DEF AfterPresent, At
<1>2. /\ c \in Chains /\ frame[t].sequence \in 0..MaxSequence
      /\ frame[t].sequence <= sequence /\ sequence \in 0..MaxSequence
      /\ chain \in [Chains -> ChainType] /\ \A d \in Chains : chain[d].last <= sequence
      /\ \A d \in DOMAIN sessions : sessions[d] \in SessionType
  BY <1>1, AfterTyping
<1>3. after \in [Chains -> ChainType] /\ \A d \in Chains : after[d].last <= sequence
  <2>1. chain[c] \in ChainType /\ 0 \in 0..MaxSequence /\ occluded \in BOOLEAN
    BY <1>2, SequencesAreBounded
  <2>2. look \in Looks \cup {NoLook} /\ seen \in 0..MaxSequence
    BY <2>1 DEF ChainType
  <2>3. after[c] = [chain[c] EXCEPT !.occluded = occluded, !.look = look, !.seen = seen]
    BY <1>2, <2>1 DEF ChainType
  <2>4. after = [d \in Chains |-> after[d]]
    BY <1>2
  <2>5. \A d \in Chains \ {c} : after[d] = chain[d]
    BY <1>2
  <2> HIDE DEF after, look, seen, occluded
  <2>6. after[c] \in ChainType /\ after[c].last = chain[c].last
    BY <2>1, <2>2, <2>3 DEF ChainType
  <2> QED
    BY <1>2, <2>4, <2>5, <2>6, ChainReplaced
<1>4. CASE ~IsCurrentPresent(t)
  <2>1. AfterUnchanged(t) /\ UNCHANGED chain
    BY <1>4 DEF AfterPresent
  <2> HIDE DEF c, after
  <2> QED
    BY <1>1, <1>2, <2>1, UnchangedIsPlain
<1>5. CASE IsCurrentPresent(t) /\ ~reconciles
  <2>1. AfterUnchanged(t) /\ chain' = after
    BY <1>5 DEF AfterPresent
  <2> HIDE DEF c, after
  <2> QED
    BY <1>1, <1>3, <2>1, UnchangedIsPlain
<1>6. CASE IsCurrentPresent(t) /\ reconciles
  <2>1. Selects(after, winner) /\ Issue(retirements) /\ RetireOrDefer(t, frame[t], retirements)
    BY <1>6 DEF AfterPresent
  <2> HIDE DEF c, after, reconciles
  <2>2. \A d \in DOMAIN sessions' : sessions'[d] \in SessionType
    BY <1>1, <1>3, <2>1, SelectsPolicy
  <2>3. retirements \in SUBSET RetirementType /\ \A r \in retirements : r.sequence <= sequence
    BY <1>2, <2>2, RetirementsTyping
  <2> HIDE DEF retirements
  <2> QED
    BY <1>1, <1>3, <2>1, <2>3, SelectionDecides
<1> QED
  BY <1>4, <1>5, <1>6

\* after_resize, whether or not it succeeded.
LEMMA AfterResizeDecides ==
    ASSUME Typing, NEW t \in Threads, NEW succeeded \in BOOLEAN, NEW winner,
           AfterResize(t, succeeded, winner)
    PROVE  Moves(t) /\ PolicyOK' /\ KeepsFailures /\ (Plain(t) \/ Decides(t))
<1> DEFINE c == frame[t].id
           applies == chain[c].look = NoLook \/ chain[c].seen <= frame[t].sequence
           retirements == RetirementOf(sessions, c, chain[c].last)
           after == [chain EXCEPT ![c].look = NoLook, ![c].seen = 0]
<1>1. pc[t] = "after" /\ UNCHANGED <<lane, pending, closing, sequence, controls, failed>>
  BY DEF AfterResize, At
<1>2. /\ c \in Chains /\ sequence \in 0..MaxSequence
      /\ chain \in [Chains -> ChainType] /\ \A d \in Chains : chain[d].last <= sequence
      /\ \A d \in DOMAIN sessions : sessions[d] \in SessionType
  BY <1>1, AfterTyping
<1>3. CASE ~succeeded \/ ~applies
  <2>1. AfterUnchanged(t) /\ UNCHANGED chain
    BY <1>3 DEF AfterResize
  <2> HIDE DEF c
  <2> QED
    BY <1>1, <1>2, <2>1, UnchangedIsPlain
<1>4. CASE succeeded /\ applies
  <2>1. Selects(after, winner) /\ Issue(retirements) /\ RetireOrDefer(t, frame[t], retirements)
    BY <1>4 DEF AfterResize
  <2>2. Forgets(c, after)
    BY DEF Forgets
  <2> HIDE DEF c, after, applies
  <2>3. after \in [Chains -> ChainType] /\ \A d \in Chains : after[d].last <= sequence
    BY <1>2, <2>2, LookForgotten
  <2>4. chain[c].last \in 0..MaxSequence /\ chain[c].last <= sequence
    BY <1>2 DEF ChainType
  <2>5. retirements \in SUBSET RetirementType /\ \A r \in retirements : r.sequence <= sequence
    BY <1>2, <2>4, RetirementsTyping
  <2> HIDE DEF retirements
  <2> QED
    BY <1>1, <2>1, <2>3, <2>5, SelectionDecides
<1> QED
  BY <1>3, <1>4

\* after_set_color_space, whether or not it succeeded.
LEMMA AfterColorDecides ==
    ASSUME Typing, NEW t \in Threads, NEW succeeded \in BOOLEAN, NEW color \in Colors,
           NEW winner, AfterSetColorSpace(t, succeeded, color, winner)
    PROVE  Moves(t) /\ PolicyOK' /\ KeepsFailures /\ (Plain(t) \/ Decides(t))
<1> DEFINE c == frame[t].id
           look == IF chain[c].look = NoLook THEN chain[c].look ELSE <<chain[c].look[1], color>>
           after == [chain EXCEPT ![c].color = color,
                                  ![c].look = IF @ = NoLook THEN @ ELSE <<@[1], color>>]
           primary == IF current = Nobody THEN {}
                      ELSE RetirementOf(sessions, current, chain[current].last)
           retirements == {r \in primary : \/ winner # r.id
                                           \/ sessions'[r.id].generation # r.generation}
<1>1. pc[t] = "after" /\ UNCHANGED <<lane, pending, closing, sequence, controls, failed>>
  BY DEF AfterSetColorSpace, At
<1>2. /\ c \in Chains /\ sequence \in 0..MaxSequence
      /\ chain \in [Chains -> ChainType] /\ \A d \in Chains : chain[d].last <= sequence
      /\ \A d \in DOMAIN sessions : sessions[d] \in SessionType
      /\ current \in Chains \cup {Nobody}
  BY <1>1, AfterTyping
<1>3. after \in [Chains -> ChainType] /\ \A d \in Chains : after[d].last <= sequence
  <2>1. chain[c] \in ChainType
    BY <1>2
  <2>2. look \in Looks \cup {NoLook}
    <3>1. chain[c].look \in Looks \cup {NoLook}
      BY <2>1 DEF ChainType
    <3>2. CASE chain[c].look = NoLook
      BY <3>2
    <3>3. CASE chain[c].look # NoLook
      <4>1. chain[c].look[1] \in Surfaces
        BY <3>1, <3>3 DEF Looks
      <4>2. look = <<chain[c].look[1], color>>
        BY <3>3
      <4> QED
        BY <4>1, <4>2 DEF Looks
    <3> QED
      BY <3>2, <3>3
  <2>3. after[c] = [chain[c] EXCEPT !.color = color, !.look = look]
    BY <1>2, <2>1 DEF ChainType
  <2>4. after = [d \in Chains |-> after[d]]
    BY <1>2
  <2>5. \A d \in Chains \ {c} : after[d] = chain[d]
    BY <1>2
  <2> HIDE DEF after, look
  <2>6. after[c] \in ChainType /\ after[c].last = chain[c].last
    BY <2>1, <2>2, <2>3 DEF ChainType
  <2> QED
    BY <1>2, <2>4, <2>5, <2>6, ChainReplaced
<1>4. CASE ~succeeded \/ ~chain[c].tracked
  <2>1. AfterUnchanged(t) /\ UNCHANGED chain
    BY <1>4 DEF AfterSetColorSpace
  <2> HIDE DEF c, after
  <2> QED
    BY <1>1, <1>2, <2>1, UnchangedIsPlain
<1>5. CASE succeeded /\ chain[c].tracked /\ chain[c].look = NoLook
  <2>1. AfterUnchanged(t) /\ chain' = after
    BY <1>5 DEF AfterSetColorSpace
  <2> HIDE DEF c, after
  <2> QED
    BY <1>1, <1>3, <2>1, UnchangedIsPlain
<1>6. CASE succeeded /\ chain[c].tracked /\ chain[c].look # NoLook
  <2>1. Selects(after, winner) /\ Issue(retirements) /\ RetireOrDefer(t, frame[t], retirements)
    BY <1>6 DEF AfterSetColorSpace
  <2> HIDE DEF c, after
  <2>2. primary \in SUBSET RetirementType /\ \A r \in primary : r.sequence <= sequence
    <3>1. CASE current = Nobody
      BY <3>1
    <3>2. CASE current # Nobody
      <4>1. /\ current \in Chains /\ chain[current].last \in 0..MaxSequence
            /\ chain[current].last <= sequence
        BY <1>2, <3>2 DEF ChainType
      <4>2. primary = RetirementOf(sessions, current, chain[current].last)
        BY <3>2
      <4> QED
        BY <1>2, <4>1, <4>2, RetirementsTyping
    <3> QED
      BY <3>1, <3>2
  <2> HIDE DEF primary
  <2>3. retirements \in SUBSET RetirementType /\ \A r \in retirements : r.sequence <= sequence
    BY <2>2
  <2> HIDE DEF retirements
  <2> QED
    BY <1>1, <1>3, <2>1, <2>3, SelectionDecides
<1> QED
  BY <1>4, <1>5, <1>6
-----------------------------------------------------------------------------
(* The steps of a frame, and of the retirements on their way. *)

\* A frame is rendered, or fails and is known to have failed.
LEMMA RenderMoves ==
    ASSUME Typing, NEW t \in Threads, Render(t)
    PROVE  /\ Moves(t) /\ PolicyOK' /\ KeepsFailures
           /\ pc[t] = "render" /\ frame'[t] = frame[t]
           /\ UNCHANGED <<issued, pending, sequence>>
           /\ \/ RenderSucceeds(t, Ticket(t)) /\ pc'[t] = "record" /\ UNCHANGED failed
              \/ /\ RenderFails(t, Ticket(t)) /\ pc'[t] = "outcome"
                 /\ failed' = failed \cup {<<frame[t].id, frame[t].generation>>}
<1>1. /\ FrameOK(t) /\ frame[t] \in FrameType /\ pc[t] = "render" /\ frame[t].lane
      /\ UNCHANGED <<lane, pending, frame, issued, policy>>
  BY DEF Typing, FrameOK, Invocation, Render, At, Rendering
<1>2. PolicyOK' /\ KeepsFailures /\ sequence' = sequence
  BY <1>1, PolicySame
<1>3. ASSUME NEW place \in {"record", "outcome"}, Goto(t, place)
      PROVE  Moves(t) /\ pc'[t] = place /\ frame'[t] = frame[t]
  <2>1. place \in Pcs /\ Invocation(place, frame[t])
    BY <1>1 DEF FrameOK, Invocation, Rendering, Pcs
  <2> QED
    BY <1>1, <1>2, <1>3, <2>1, WentOn
<1>4. CASE RenderSucceeds(t, Ticket(t)) /\ Goto(t, "record") /\ UNCHANGED failed
  BY <1>1, <1>2, <1>3, <1>4
<1>5. CASE /\ RenderFails(t, Ticket(t)) /\ Goto(t, "outcome")
           /\ failed' = failed \cup {<<frame[t].id, frame[t].generation>>}
  BY <1>1, <1>2, <1>3, <1>5
<1> QED
  BY <1>4, <1>5 DEF Render

\* The success of a frame is recorded in the overlay.
LEMMA RecordMoves ==
    ASSUME Typing, NEW t \in Threads, RecordSuccess(t)
    PROVE  /\ Moves(t) /\ PolicyOK' /\ KeepsFailures
           /\ pc[t] = "record" /\ pc'[t] = "outcome" /\ frame'[t].succeeded /\ frame[t].lane
           /\ frame'[t].retire = {}
           /\ RecordRenderSuccess(Ticket(t)) /\ UNCHANGED <<issued, failed, pending, sequence>>
<1> DEFINE g == [frame[t] EXCEPT !.succeeded = TRUE]
<1>1. /\ FrameOK(t) /\ frame[t] \in FrameType /\ pc[t] = "record" /\ frame[t].lane
      /\ frame[t].id \in Chains /\ frame[t].retire = {} /\ frame[t].sequence <= sequence
      /\ UNCHANGED <<lane, pending, issued, failed, policy>>
      /\ SetFrame(t, g) /\ Goto(t, "outcome") /\ RecordRenderSuccess(Ticket(t))
  BY DEF Typing, FrameOK, Invocation, RecordSuccess, At, Rendering, history
<1>2. PolicyOK' /\ KeepsFailures /\ sequence' = sequence /\ sequence <= sequence'
  BY <1>1, PolicySame
<1>3. /\ g \in FrameType /\ g.lane /\ g.id = frame[t].id /\ g.retire = {} /\ g.succeeded
      /\ g.sequence = frame[t].sequence
  BY <1>1 DEF FrameType
<1> HIDE DEF g
<1>4. Invocation("outcome", g) /\ "outcome" \in Pcs
  BY <1>1, <1>3 DEF Invocation, Rendering, Pcs
<1>5. Passes(t, g) /\ Watches(t, "outcome", g)
  BY <1>1, <1>3 DEF Passes, Watches, FrameType
<1>6. g.sequence <= sequence'
  BY <1>1, <1>2, <1>3
<1>7. Moves(t) /\ pc'[t] = "outcome" /\ frame'[t] = g
  BY <1>1, <1>2, <1>3, <1>4, <1>5, <1>6, Moved
<1> QED
  BY <1>1, <1>2, <1>3, <1>7

\* What was in pending is retired by the call that has the lane.
Drains(t) ==
    /\ pc[t] = "drain" /\ frame[t].lane /\ UNCHANGED <<threads, issued, failed, sequence>>
    /\ pending' = {} /\ Retire(t, pending)

\* A call with the lane drains pending before it goes on.
LEMMA DrainMoves ==
    ASSUME Typing, NEW t \in Threads, DrainInLane(t)
    PROVE  Moves(t) /\ PolicyOK' /\ KeepsFailures /\ (Plain(t) \/ Drains(t))
<1>1. /\ FrameOK(t) /\ frame[t] \in FrameType /\ pc[t] = "drain" /\ frame[t].lane
      /\ frame[t].retire = {} /\ frame[t].sequence <= sequence
      /\ frame[t].then \in {"policy", "resize", "after", "native", "release"}
      /\ UNCHANGED <<lane, issued, failed, policy>>
  BY DEF Typing, FrameOK, Invocation, DrainInLane, At, history
<1>2. PolicyOK' /\ KeepsFailures /\ sequence' = sequence /\ sequence <= sequence'
  BY <1>1, PolicySame
<1>3. CASE pending = {}
  <2> DEFINE place == frame[t].then
             g == [frame[t] EXCEPT !.then = "idle"]
  <2>1. SetFrame(t, g) /\ Goto(t, place) /\ UNCHANGED <<pending, overlay>>
    BY <1>3 DEF DrainInLane
  <2>2. /\ g \in FrameType /\ g.lane /\ g.id = frame[t].id /\ g.retire = {}
        /\ g.sequence = frame[t].sequence
    BY <1>1 DEF FrameType, Pcs
  <2> HIDE DEF g
  <2>3. Invocation(place, g) /\ place \in Pcs
    BY <1>1, <2>2 DEF FrameOK, Invocation, Rendering, Pcs
  <2>4. Passes(t, g) /\ Watches(t, place, g)
    BY <1>1, <2>2 DEF Passes, Watches, FrameType
  <2>5. g.sequence <= sequence'
    BY <1>1, <1>2, <2>2
  <2>6. Moves(t) /\ pc'[t] = place
    BY <1>2, <2>1, <2>2, <2>3, <2>4, <2>5, Moved
  <2>7. Plain(t)
    BY <1>1, <2>1, <2>6 DEF Plain, Rendering
  <2> QED
    BY <1>2, <2>6, <2>7
<1>4. CASE pending # {}
  <2>1. pending' = {} /\ Retire(t, pending) /\ UNCHANGED threads
    BY <1>4 DEF DrainInLane
  <2>2. SetFrame(t, frame[t]) /\ Goto(t, "drain")
    BY <1>1, <2>1 DEF SetFrame, Goto, threads, Typing
  <2>3. Passes(t, frame[t]) /\ Watches(t, "drain", frame[t])
    BY <1>1, <2>1 DEF Passes, Watches
  <2>4. Invocation("drain", frame[t]) /\ "drain" \in Pcs /\ frame[t].sequence <= sequence'
    BY <1>1, <1>2 DEF FrameOK, Pcs
  <2>5. Moves(t)
    BY <1>1, <1>2, <2>2, <2>3, <2>4, Moved
  <2> QED
    BY <1>1, <1>2, <2>1, <2>5 DEF Drains
<1> QED
  BY <1>3, <1>4

\* A call without the lane leaves its retirements in pending.
LEMMA DeferMoves ==
    ASSUME Typing, NEW t \in Threads, Defer(t)
    PROVE  /\ Moves(t) /\ PolicyOK' /\ KeepsFailures
           /\ pc[t] = "defer" /\ pc'[t] = "sweep" /\ frame'[t] = NoFrame
           /\ pending' = pending \cup frame[t].retire
           /\ UNCHANGED <<overlay, issued, failed, sequence>>
<1>1. /\ FrameOK(t) /\ frame[t] \in FrameType /\ pc[t] = "defer" /\ frame[t].lane = FALSE
      /\ pending' = pending \cup frame[t].retire
      /\ UNCHANGED <<overlay, lane, issued, failed, policy>>
      /\ SetFrame(t, NoFrame) /\ Goto(t, "sweep")
  BY DEF Typing, FrameOK, Invocation, Defer, At, history, FrameType
<1>2. PolicyOK' /\ KeepsFailures /\ sequence' = sequence /\ sequence <= sequence'
      /\ sequence' \in 0..MaxSequence
  BY <1>1, PolicySame
<1>3. Invocation("sweep", NoFrame) /\ "sweep" \in Pcs /\ NoFrame.sequence <= sequence'
  BY <1>2, NoFrameTyping, SequencesAreBounded DEF Invocation, Rendering, Pcs
<1>4. Passes(t, NoFrame) /\ Watches(t, "sweep", NoFrame)
  <2>1. NoFrame.lane = FALSE
    BY DEF NoFrame
  <2> QED
    BY <1>1, <2>1 DEF Passes, Watches
<1>5. Moves(t) /\ pc'[t] = "sweep" /\ frame'[t] = NoFrame
  BY <1>1, <1>2, <1>3, <1>4, NoFrameTyping, Moved
<1> QED
  BY <1>1, <1>2, <1>5

\* Every step of a call is one of these.
StepOf(t) ==
    /\ Moves(t) /\ PolicyOK'
    /\ KeepsFailures \/ (RecordsOutcome(t) /\ pc[t] = "outcome")
    /\ \/ Plain(t) \/ Decides(t) \/ Drains(t)
       \/ Defer(t) \/ Render(t) \/ RecordSuccess(t)

\* There are no other steps of a call.
LEMMA CallSteps ==
    ASSUME Typing, NEW t \in Threads, Call(t)
    PROVE  StepOf(t)
<1>1. ASSUME NEW c \in Chains, \/ Start(t, "present", c, "policy")
                               \/ Start(t, "resize", c, "resize")
                               \/ Start(t, "color", c, "after")
      PROVE  StepOf(t)
  <2>1. CASE Start(t, "present", c, "policy")
    BY <2>1, StartIsPlain DEF StepOf
  <2>2. CASE Start(t, "resize", c, "resize")
    BY <2>2, StartIsPlain DEF StepOf
  <2>3. CASE Start(t, "color", c, "after")
    BY <2>3, StartIsPlain DEF StepOf
  <2> QED
    BY <1>1, <2>1, <2>2, <2>3
<1>2. ASSUME PresentRefused(t) \/ PresentUntracked(t) \/ PresentSequenced(t)
      PROVE  StepOf(t)
  BY <1>2, PresentIsPlain DEF StepOf
<1>3. ASSUME PresentExhausted(t)
      PROVE  StepOf(t)
  BY <1>3, ExhaustedDecides DEF StepOf
<1>4. ASSUME \/ InspectionIsStale(t) \/ BeforePresentPanics(t) \/ ReleaseLane(t)
             \/ Sweep(t) \/ CheckPending(t) \/ PermitTicket(t)
      PROVE  StepOf(t)
  BY <1>4, LaneIsPlain DEF StepOf
<1>5. ASSUME NEW winner, \/ InspectionFails(t, winner)
                         \/ \E surface \in Surfaces : InspectionSelectsOther(t, surface, winner)
      PROVE  StepOf(t)
  BY <1>5, InspectionDecides DEF StepOf
<1>6. ASSUME NEW winner, NEW result \in Results, AfterPresent(t, result, winner)
      PROVE  StepOf(t)
  BY <1>6, AfterPresentDecides DEF StepOf
<1>7. ASSUME NEW winner, NEW succeeded \in BOOLEAN, AfterResize(t, succeeded, winner)
      PROVE  StepOf(t)
  BY <1>7, AfterResizeDecides DEF StepOf
<1>8. ASSUME NEW winner, NEW succeeded \in BOOLEAN, NEW color \in Colors,
             AfterSetColorSpace(t, succeeded, color, winner)
      PROVE  StepOf(t)
  BY <1>8, AfterColorDecides DEF StepOf
<1>9. ASSUME NEW surface \in Surfaces, InspectionSelects(t, surface)
      PROVE  StepOf(t)
  BY <1>9, SelectionIsPlain DEF StepOf
<1>10. ASSUME RecordRenderOutcome(t)
       PROVE  StepOf(t)
  BY <1>10, OutcomeIsPlain DEF StepOf
<1>11. ASSUME NativeReturns(t) \/ BeforeResize(t)
       PROVE  StepOf(t)
  BY <1>11, NativeIsPlain DEF StepOf
<1>12. ASSUME Render(t)
       PROVE  StepOf(t)
  BY <1>12, RenderMoves DEF StepOf
<1>13. ASSUME RecordSuccess(t)
       PROVE  StepOf(t)
  BY <1>13, RecordMoves DEF StepOf
<1>14. ASSUME DrainInLane(t)
       PROVE  StepOf(t)
  BY <1>14, DrainMoves DEF StepOf
<1>15. ASSUME Defer(t)
       PROVE  StepOf(t)
  BY <1>15, DeferMoves DEF StepOf
<1> QED
  BY <1>1, <1>2, <1>3, <1>4, <1>5, <1>6, <1>7, <1>8, <1>9, <1>10, <1>11, <1>12, <1>13,
     <1>14, <1>15 DEF Call
-----------------------------------------------------------------------------
(* The lane, and who looks after what is pending. *)

\* A step of one call leaves the others where they are.
LEMMA Others ==
    ASSUME Typing, NEW t \in Threads, Moves(t), NEW u \in Threads, u # t
    PROVE  pc'[u] = pc[u] /\ frame'[u] = frame[u]
BY DEF Moves, Typing

\* Every call stays at a place where its invocation fits.
LEMMA ThreadsTyping ==
    ASSUME Typing, NEW t \in Threads, Moves(t), sequence' \in 0..MaxSequence
    PROVE  /\ pc' \in [Threads -> Pcs] /\ frame' \in [Threads -> FrameType]
           /\ \A u \in Threads : FrameOK(u)'
<1>1. sequence \in 0..MaxSequence /\ sequence <= sequence'
  BY DEF Typing, PolicyOK, Moves
<1>2. ASSUME NEW u \in Threads
      PROVE  FrameOK(u)'
  <2>1. CASE u = t
    BY <2>1 DEF Moves
  <2>2. CASE u # t
    <3>1. pc'[u] = pc[u] /\ frame'[u] = frame[u]
      BY <2>2, Others
    <3>2. FrameOK(u) /\ frame[u].sequence \in 0..MaxSequence
      BY DEF Typing, FrameType
    <3>3. frame[u].sequence <= sequence'
      BY <1>1, <3>2, SequencesAreBounded DEF FrameOK
    <3> QED
      BY <3>1, <3>2, <3>3 DEF FrameOK
  <2> QED
    BY <2>1, <2>2
<1>3. \A u \in Threads : pc'[u] \in Pcs /\ frame'[u] \in FrameType
  BY <1>2 DEF FrameOK
<1>4. pc' = [u \in Threads |-> pc'[u]]
  BY DEF Moves, Typing
<1>5. frame' = [u \in Threads |-> frame'[u]]
  BY DEF Moves, Typing
<1> QED
  BY <1>2, <1>3, <1>4, <1>5

\* The lane is passed on, never shared.
LEMMA LaneTyping ==
    ASSUME Typing, NEW t \in Threads, Moves(t), NEW s \in 0..MaxSequence, sequence' = s
    PROVE  LaneOK'
<1>1. \A u \in Threads : frame[u].lane \in BOOLEAN /\ frame'[u].lane \in BOOLEAN
  BY ThreadsTyping DEF Typing, FrameType
<1>2. \A u \in Threads : u # t => frame'[u].lane = frame[u].lane
  BY Others
<1>3. Passes(t, frame'[t]) /\ LaneOK
  BY DEF Moves, Typing
<1>4. CASE lane' = lane /\ frame'[t].lane = frame[t].lane
  <2>1. \A u \in Threads : frame'[u].lane = frame[u].lane
    BY <1>2, <1>4
  <2> QED
    BY <1>3, <1>4, <2>1 DEF LaneOK
<1>5. CASE lane = FALSE /\ lane' = TRUE /\ frame'[t].lane
  <2>1. \A u \in Threads : ~frame[u].lane
    BY <1>3, <1>5 DEF LaneOK
  <2>2. \A u \in Threads : frame'[u].lane => u = t
    BY <1>2, <2>1
  <2> QED
    BY <1>5, <2>2 DEF LaneOK
<1>6. CASE frame[t].lane /\ lane' = FALSE /\ ~frame'[t].lane
  <2>1. \A u \in Threads : frame[u].lane => u = t
    BY <1>3, <1>6 DEF LaneOK
  <2>2. \A u \in Threads : ~frame'[u].lane
    BY <1>2, <1>6, <2>1
  <2> QED
    BY <1>6, <2>2 DEF LaneOK
<1> QED
  BY <1>3, <1>4, <1>5, <1>6 DEF Passes

\* Whoever adds to pending, or gives the lane back, looks at it again.
LEMMA PendingIsWatched ==
    ASSUME Typing, SomebodyDrains, NEW t \in Threads, Moves(t)
    PROVE  SomebodyDrains'
<1>1. Watches(t, pc'[t], frame'[t])
  BY DEF Moves
<1>2. CASE pending' = {}
  BY <1>2 DEF SomebodyDrains
<1>3. CASE pc'[t] \in {"sweep", "check"} \/ frame'[t].lane
  BY <1>3 DEF SomebodyDrains
<1>4. CASE /\ pending' = pending /\ ~frame[t].lane
           /\ pc[t] \notin {"sweep", "check"} \/ (lane /\ lane')
           /\ pending # {}
  <2>1. PICK u \in Threads : u # t /\ (frame[u].lane \/ pc[u] \in {"sweep", "check"})
    <3>1. CASE pc[t] \notin {"sweep", "check"}
      BY <1>4, <3>1 DEF SomebodyDrains
    <3>2. CASE lane
      BY <1>4, <3>2 DEF Typing, LaneOK
    <3> QED
      BY <1>4, <3>1, <3>2
  <2>2. pc'[u] = pc[u] /\ frame'[u] = frame[u]
    BY <2>1, Others
  <2> QED
    BY <2>1, <2>2 DEF SomebodyDrains
<1> QED
  BY <1>1, <1>2, <1>3, <1>4 DEF Watches

\* Whoever is at rest neither has the lane nor looks again.
LEMMA QuietIsDrained ==
    ASSUME Typing, SomebodyDrains
    PROVE  RetirementsAreDelivered
<1>1. ASSUME Quiet, pending # {}
      PROVE  FALSE
  <2>1. PICK u \in Threads : frame[u].lane \/ pc[u] \in {"sweep", "check"}
    BY <1>1 DEF SomebodyDrains
  <2>2. pc[u] = "idle" /\ frame[u] = NoFrame
    BY <1>1 DEF Quiet, Typing, FrameOK, Invocation
  <2> QED
    BY <2>1, <2>2, NoFrameTyping
<1> QED
  BY <1>1 DEF RetirementsAreDelivered
-----------------------------------------------------------------------------
(* The epochs of the native states. *)

\* Epoch is what the run states with cardinalities.
LEMMA EpochsAreLeased ==
    ASSUME OverlayTypeOK, NEW c \in Chains
    PROVE  LET a == affinity[c]
               holders == {t \in Threads : thread_state[t].identity.id = c
                                           /\ thread_state[t].token = a.next}
           IN  Epoch(c) <=> /\ a.leases = Cardinality(holders)
                            /\ holders = {} => a.owner = Nobody
                            /\ holders # {} => a.token = a.next /\ holders = {a.owner}
<1> DEFINE a == affinity[c]
           holders == {t \in Threads : thread_state[t].identity.id = c
                                       /\ thread_state[t].token = a.next}
<1>1. Cardinality({}) = 0 /\ \A u : Cardinality({u}) = 1
  BY FS_EmptySet, FS_Singleton
<1>2. \A u \in Threads : u \in holders <=> /\ thread_state[u].identity.id = c
                                           /\ thread_state[u].token = a.next
  OBVIOUS
<1>3. holders \subseteq Threads
  OBVIOUS
<1>4. Epoch(c) <=>
        \/ a.leases = 0 /\ a.owner = Nobody /\ \A u \in Threads : u \notin holders
        \/ /\ a.leases = 1 /\ a.owner \in Threads /\ a.token = a.next
           /\ \A u \in Threads : u \in holders <=> u = a.owner
  BY DEF Epoch
<1>5. a.owner \in Threads \cup {Nobody} /\ Nobody \notin Threads
  BY NobodyIsNobody DEF OverlayTypeOK
<1> HIDE DEF a, holders
<1>6. ASSUME holders = {}
      PROVE  Epoch(c) <=> a.leases = Cardinality(holders) /\ a.owner = Nobody
  <2>1. Epoch(c) <=> a.leases = 0 /\ a.owner = Nobody
    BY <1>4, <1>6, <1>5
  <2> QED
    BY <1>1, <1>6, <2>1
<1>7. ASSUME holders # {}
      PROVE  Epoch(c) <=> a.leases = Cardinality(holders) /\ a.token = a.next
                                                         /\ holders = {a.owner}
  <2>1. ASSUME Epoch(c)
        PROVE  a.leases = Cardinality(holders) /\ a.token = a.next /\ holders = {a.owner}
    <3>1. /\ a.leases = 1 /\ a.owner \in Threads /\ a.token = a.next
          /\ \A u \in Threads : u \in holders <=> u = a.owner
      BY <1>3, <1>4, <1>7, <2>1
    <3>2. holders = {a.owner}
      BY <1>3, <3>1
    <3> QED
      BY <1>1, <3>1, <3>2
  <2>2. ASSUME a.leases = Cardinality(holders), a.token = a.next, holders = {a.owner}
        PROVE  Epoch(c)
    <3>1. a.leases = 1 /\ a.owner \in Threads
      BY <1>1, <1>3, <2>2
    <3>2. \A u \in Threads : u \in holders <=> u = a.owner
      BY <2>2
    <3> QED
      BY <1>4, <2>2, <3>1, <3>2
  <2> QED
    BY <2>1, <2>2
<1>8. /\ a.leases = Cardinality(holders)
      /\ holders = {} => a.owner = Nobody
      /\ holders # {} => a.token = a.next /\ holders = {a.owner}
      <=> Epoch(c)
  BY <1>6, <1>7
<1> QED
  BY <1>8 DEF a, holders

\* Releasing a lease gives up the epoch with its last one, and only its own.
LEMMA ReleasedTyping ==
    ASSUME NEW a \in AffinityType, NEW t \in Threads, NEW token \in Nat
    PROVE  /\ Released(a, t, token) \in AffinityType /\ Released(a, t, token).next = a.next
           /\ a.owner # t \/ a.token # token => Released(a, t, token) = a
           /\ a.owner = t /\ a.token = token /\ a.leases = 1 =>
                 Released(a, t, token).leases = 0 /\ Released(a, t, token).owner = Nobody
           /\ a.owner = t /\ a.token = token /\ a.leases = 2 =>
                 /\ Released(a, t, token).leases = 1 /\ Released(a, t, token).owner = t
                 /\ Released(a, t, token).token = token
<1> DEFINE b == Released(a, t, token)
<1>1. CASE a.owner # t \/ a.token # token
  <2>1. b = a
    BY <1>1 DEF Released
  <2> QED
    BY <1>1, <2>1
<1>2. CASE a.owner = t /\ a.token = token /\ a.leases > 1
  <2>1. b = [a EXCEPT !.leases = a.leases - 1]
    BY <1>2 DEF Released
  <2>2. a.leases - 1 \in Nat
    BY <1>2 DEF AffinityType
  <2>3. /\ b \in AffinityType /\ b.leases = a.leases - 1 /\ b.owner = a.owner
        /\ b.token = a.token /\ b.next = a.next
    BY <2>1, <2>2 DEF AffinityType
  <2>4. a.leases # 1
    BY <1>2
  <2>5. a.leases = 2 => b.leases = 1
    BY <2>3
  <2> QED
    BY <1>2, <2>3, <2>4, <2>5
<1>3. CASE a.owner = t /\ a.token = token /\ ~(a.leases > 1)
  <2>1. b = [a EXCEPT !.leases = 0, !.owner = Nobody, !.token = 0]
    BY <1>3 DEF Released
  <2>2. /\ b \in AffinityType /\ b.leases = 0 /\ b.owner = Nobody /\ b.next = a.next
    <3> HIDE DEF b
    <3>1. b.leases = 0
      BY <2>1 DEF AffinityType
    <3>2. b.owner = Nobody
      BY <2>1 DEF AffinityType
    <3>3. b.next = a.next
      BY <2>1 DEF AffinityType
    <3>4. b \in AffinityType
      BY <2>1 DEF AffinityType
    <3> QED
      BY <3>1, <3>2, <3>3, <3>4
  <2>3. a.leases # 2
    BY <1>3
  <2> QED
    BY <1>3, <2>2, <2>3
<1> QED
  BY <1>1, <1>2, <1>3

\* A state that is dropped releases the lease of its own chain.
LEMMA ReleaseAtChain ==
    ASSUME OverlayTypeOK, NEW t \in Threads, NEW aff \in [Chains -> AffinityType]
    PROVE  /\ ReleaseState(aff, t) \in [Chains -> AffinityType]
           /\ \A d \in Chains :
                 ReleaseState(aff, t)[d] = IF d = thread_state[t].identity.id
                                           THEN Released(aff[d], t, thread_state[t].token)
                                           ELSE aff[d]
<1> DEFINE s == thread_state[t]
<1>1. s.token \in Nat
  BY DEF OverlayTypeOK
<1>2. CASE s = NoState
  <2>1. ReleaseState(aff, t) = aff /\ s.identity.id \notin Chains
    BY <1>2, NobodyIsNobody DEF ReleaseState, NoState, NoSession, Identity
  <2> QED
    BY <2>1
<1>3. CASE s # NoState
  <2>1. ReleaseState(aff, t) = [aff EXCEPT ![s.identity.id] = Released(aff[s.identity.id], t, s.token)]
    BY <1>3 DEF ReleaseState
  <2>2. s.identity.id \in Chains => Released(aff[s.identity.id], t, s.token) \in AffinityType
    BY <1>1, ReleasedTyping
  <2> QED
    BY <2>1, <2>2
<1> QED
  BY <1>2, <1>3

\* What the types say of the registry and of the native states.
LEMMA OverlayFacts ==
    ASSUME OverlayOK
    PROVE  /\ affinity \in [Chains -> AffinityType]
           /\ thread_state \in [Threads -> [identity : IdentityType, token : Nat]]
           /\ Nobody \notin Threads /\ Nobody \notin Chains
BY NobodyIsNobody DEF OverlayOK, OverlayTypeOK, AffinityType

\* A chain that the thread leaves loses the thread's epoch, and no other.
LEMMA EpochLeft ==
    ASSUME OverlayOK, NEW t \in Threads, NEW d \in Chains,
           affinity'[d] = IF d = thread_state[t].identity.id
                          THEN Released(affinity[d], t, thread_state[t].token)
                          ELSE affinity[d],
           \A u \in Threads \ {t} : thread_state'[u] = thread_state[u],
           thread_state'[t].identity.id # d
    PROVE  IssuedFor(d)' /\ Epoch(d)'
<1> DEFINE a == affinity[d]
           s == thread_state[t]
           b == affinity'[d]
<1>1. /\ a \in AffinityType /\ s \in [identity : IdentityType, token : Nat]
      /\ Nobody \notin Threads
  BY OverlayFacts
<1>2. \/ /\ a.leases = 0 /\ a.owner = Nobody
         /\ \A u \in Threads : ~(thread_state[u].identity.id = d
                                 /\ thread_state[u].token = a.next)
      \/ /\ a.leases = 1 /\ a.owner \in Threads /\ a.token = a.next
         /\ \A u \in Threads : /\ thread_state[u].identity.id = d
                               /\ thread_state[u].token = a.next
                               <=> u = a.owner
  BY DEF OverlayOK, Epoch
<1>3. b.next = a.next
  BY <1>1, ReleasedTyping
<1>4. IssuedFor(d)'
  <2>1. \A u \in Threads : thread_state[u].identity.id = d => thread_state[u].token <= a.next
    BY DEF OverlayOK, IssuedFor
  <2>2. ASSUME NEW u \in Threads, thread_state'[u].identity.id = d
        PROVE  thread_state'[u].token <= b.next
    <3>1. u # t
      BY <2>2
    <3>2. thread_state'[u] = thread_state[u]
      BY <3>1
    <3> QED
      BY <1>3, <2>1, <2>2, <3>2
  <2> QED
    BY <2>2 DEF IssuedFor
<1>5. CASE s.identity.id = d /\ s.token = a.next
  <2>1. /\ a.leases = 1 /\ a.owner = t /\ a.token = s.token
        /\ \A u \in Threads : /\ thread_state[u].identity.id = d
                              /\ thread_state[u].token = a.next
                              <=> u = t
    BY <1>2, <1>5
  <2>2. b.leases = 0 /\ b.owner = Nobody
    BY <1>1, <1>5, <2>1, ReleasedTyping
  <2>3. ASSUME NEW u \in Threads
        PROVE  ~(thread_state'[u].identity.id = d /\ thread_state'[u].token = b.next)
    <3>1. CASE u = t
      BY <3>1
    <3>2. CASE u # t
      BY <1>3, <2>1, <3>2
    <3> QED
      BY <3>1, <3>2
  <2> QED
    BY <1>4, <2>2, <2>3 DEF Epoch
<1>6. CASE ~(s.identity.id = d /\ s.token = a.next)
  <2>1. a.owner # t
    BY <1>1, <1>2, <1>6
  <2>2. b = a
    BY <1>1, <2>1, ReleasedTyping
  <2>3. ASSUME NEW u \in Threads
        PROVE  (thread_state'[u].identity.id = d /\ thread_state'[u].token = b.next)
                 <=> (thread_state[u].identity.id = d /\ thread_state[u].token = a.next)
    <3>1. CASE u = t
      BY <1>6, <3>1
    <3>2. CASE u # t
      BY <2>2, <3>2
    <3> QED
      BY <3>1, <3>2
  <2> HIDE DEF s
  <2>4. Epoch(d)'
    <3>1. CASE a.leases = 0 /\ a.owner = Nobody /\ \A u \in Threads :
                  ~(thread_state[u].identity.id = d /\ thread_state[u].token = a.next)
      BY <2>2, <2>3, <3>1 DEF Epoch
    <3>2. CASE /\ a.leases = 1 /\ a.owner \in Threads /\ a.token = a.next
               /\ \A u \in Threads : /\ thread_state[u].identity.id = d
                                     /\ thread_state[u].token = a.next
                                     <=> u = a.owner
      BY <2>2, <2>3, <3>2 DEF Epoch
    <3> QED
      BY <1>2, <3>1, <3>2
  <2> QED
    BY <1>4, <2>4
<1> QED
  BY <1>5, <1>6

\* A thread that drops its state leaves its chain.
LEMMA StateDropped ==
    ASSUME OverlayOK, NEW t \in Threads, affinity' = ReleaseState(affinity, t),
           thread_state' = [thread_state EXCEPT ![t] = NoState],
           UNCHANGED target, capture' \in BOOLEAN, active_session' \in IdentityType
    PROVE  OverlayOK'
<1>1. /\ affinity \in [Chains -> AffinityType]
      /\ thread_state \in [Threads -> [identity : IdentityType, token : Nat]]
      /\ Nobody \notin Chains
  BY OverlayFacts
<1>2. /\ affinity' \in [Chains -> AffinityType]
      /\ \A d \in Chains :
            affinity'[d] = IF d = thread_state[t].identity.id
                           THEN Released(affinity[d], t, thread_state[t].token)
                           ELSE affinity[d]
  BY <1>1, ReleaseAtChain DEF OverlayOK
<1>3. NoState \in [identity : IdentityType, token : Nat] /\ NoState.identity.id = Nobody
  BY DEF NoState, NoSession, Identity, IdentityType
<1>4. /\ thread_state' \in [Threads -> [identity : IdentityType, token : Nat]]
      /\ \A u \in Threads \ {t} : thread_state'[u] = thread_state[u]
      /\ thread_state'[t] = NoState
  BY <1>1, <1>3
<1>5. \A d \in Chains : IssuedFor(d)' /\ Epoch(d)'
  BY <1>1, <1>2, <1>3, <1>4, EpochLeft
<1>6. OverlayTypeOK'
  BY <1>2, <1>4 DEF OverlayOK, OverlayTypeOK, AffinityType
<1> QED
  BY <1>5, <1>6 DEF OverlayOK

\* A claim makes the thread the owner: its own epoch gains a lease, which the
\* old state's lease is then given back for, or an epoch begins that nobody holds.
LEMMA ClaimedEpoch ==
    ASSUME OverlayOK, NEW t \in Threads, NEW identity \in IdentityType, identity.id \in Chains,
           NEW claimed, claimed = Claimed(affinity[identity.id], t, identity),
           NEW b, b = IF identity.id = thread_state[t].identity.id
                      THEN Released(claimed, t, thread_state[t].token)
                      ELSE claimed
    PROVE  /\ claimed \in AffinityType /\ b \in AffinityType
           /\ b.owner = t /\ b.leases = 1 /\ b.token = claimed.token /\ b.next = claimed.token
           /\ \A u \in Threads : thread_state[u].identity.id = identity.id =>
                 /\ thread_state[u].token <= b.next
                 /\ u # t => thread_state[u].token # b.next
<1> DEFINE c == identity.id
           a == affinity[c]
           s == thread_state[t]
           latest == [generation |-> identity.generation, sequence |-> identity.sequence]
<1>1. /\ a \in AffinityType /\ s \in [identity : IdentityType, token : Nat]
      /\ thread_state \in [Threads -> [identity : IdentityType, token : Nat]]
      /\ Nobody \notin Threads /\ latest \in [generation : Nat, sequence : Nat]
  BY OverlayFacts DEF IdentityType
<1>2. \/ /\ a.leases = 0 /\ a.owner = Nobody
      \/ /\ a.leases = 1 /\ a.owner \in Threads /\ a.token = a.next
         /\ \A u \in Threads : /\ thread_state[u].identity.id = c
                               /\ thread_state[u].token = a.next
                               <=> u = a.owner
  BY DEF OverlayOK, Epoch
<1>3. \A u \in Threads : thread_state[u].identity.id = c => thread_state[u].token <= a.next
  BY DEF OverlayOK, IssuedFor
<1>4. CASE a.owner = t
  <2>1. claimed = [a EXCEPT !.leases = a.leases + 1, !.latest = latest]
    BY <1>4 DEF Claimed
  <2>2. /\ a.leases = 1 /\ a.token = a.next /\ s.identity.id = c /\ s.token = a.next
        /\ \A u \in Threads : /\ thread_state[u].identity.id = c
                              /\ thread_state[u].token = a.next
                              <=> u = t
    BY <1>1, <1>2, <1>4
  <2> HIDE DEF latest
  <2>3. claimed \in AffinityType
    <3>1. a.leases + 1 \in Nat
      BY <2>2
    <3> QED
      BY <1>1, <2>1, <3>1 DEF AffinityType
  <2>4. claimed.leases = 2 /\ claimed.owner = t /\ claimed.token = a.next /\ claimed.next = a.next
    <3>1. claimed.leases = a.leases + 1
      BY <1>1, <2>1 DEF AffinityType
    <3>2. claimed.owner = a.owner /\ claimed.token = a.token /\ claimed.next = a.next
      BY <1>1, <2>1 DEF AffinityType
    <3> QED
      BY <1>4, <2>2, <3>1, <3>2
  <2>5. b = Released(claimed, t, s.token)
    BY <2>2
  <2>6. /\ b \in AffinityType /\ b.next = claimed.next /\ b.leases = 1 /\ b.owner = t
        /\ b.token = s.token
    <3>1. s.token \in Nat /\ claimed.token = s.token
      BY <1>1, <2>2, <2>4
    <3> HIDE DEF s, c, a
    <3>2. LET r == Released(claimed, t, s.token) IN
          /\ r \in AffinityType /\ r.next = claimed.next /\ r.leases = 1 /\ r.owner = t
          /\ r.token = s.token
      BY <2>3, <2>4, <3>1, ReleasedTyping
    <3> QED
      BY <2>5, <3>2
  <2>7. b.next = a.next
    BY <2>4, <2>6
  <2> QED
    BY <1>3, <2>2, <2>3, <2>4, <2>6, <2>7
<1>5. CASE a.owner # t
  <2>1. claimed = [owner |-> t, token |-> a.next + 1, leases |-> 1, next |-> a.next + 1,
                   latest |-> latest]
    BY <1>5 DEF Claimed
  <2>2. a.next \in Nat /\ a.next + 1 \in Nat
    BY <1>1 DEF AffinityType
  <2> HIDE DEF latest
  <2>3. /\ claimed \in AffinityType /\ claimed.owner = t /\ claimed.token = a.next + 1
        /\ claimed.leases = 1 /\ claimed.next = a.next + 1
    BY <1>1, <2>1, <2>2 DEF AffinityType
  <2>4. \A u \in Threads : thread_state[u].identity.id = c =>
           thread_state[u].token <= a.next + 1 /\ thread_state[u].token # a.next + 1
    BY <1>1, <1>3, <2>2
  <2>5. b = claimed
    <3>1. CASE s.identity.id = c
      <4>1. claimed.token # s.token
        BY <2>3, <2>4, <3>1
      <4>2. s.token \in Nat
        BY <1>1
      <4> HIDE DEF s, c, a
      <4>3. Released(claimed, t, s.token) = claimed
        BY <2>3, <4>1, <4>2, ReleasedTyping
      <4> QED
        BY <4>3 DEF s, c
    <3>2. CASE s.identity.id # c
      BY <3>2
    <3> QED
      BY <3>1, <3>2
  <2> QED
    BY <2>3, <2>4, <2>5
<1> QED
  BY <1>4, <1>5

\* The thread's state is for the chain it rendered, under the epoch it claimed.
LEMMA StateKept ==
    ASSUME OverlayOK, NEW t \in Threads, NEW identity \in IdentityType, identity.id \in Chains,
           NEW claimed, claimed = Claimed(affinity[identity.id], t, identity),
           affinity' = ReleaseState([affinity EXCEPT ![identity.id] = claimed], t),
           NEW token, thread_state' = [thread_state EXCEPT ![t] = [identity |-> identity, token |-> token]],
           token = claimed.token,
           UNCHANGED <<target, active_session>>, capture' \in BOOLEAN
    PROVE  OverlayOK'
<1> DEFINE c == identity.id
           s == thread_state[t]
           aff == [affinity EXCEPT ![c] = claimed]
           b == IF c = s.identity.id THEN Released(claimed, t, s.token) ELSE claimed
<1>1. /\ affinity \in [Chains -> AffinityType]
      /\ thread_state \in [Threads -> [identity : IdentityType, token : Nat]]
  BY OverlayFacts
<1>2. /\ claimed \in AffinityType /\ b \in AffinityType
      /\ b.owner = t /\ b.leases = 1 /\ b.token = claimed.token /\ b.next = claimed.token
      /\ \A u \in Threads : thread_state[u].identity.id = c =>
            /\ thread_state[u].token <= b.next
            /\ u # t => thread_state[u].token # b.next
  BY ClaimedEpoch
<1>3. aff \in [Chains -> AffinityType]
  BY <1>1, <1>2
<1>4. /\ affinity' \in [Chains -> AffinityType]
      /\ \A d \in Chains : affinity'[d] = IF d = s.identity.id
                                          THEN Released(aff[d], t, s.token)
                                          ELSE aff[d]
  <2>1. affinity' = ReleaseState(aff, t) /\ OverlayTypeOK
    BY DEF OverlayOK
  <2> HIDE DEF aff, c
  <2>2. /\ ReleaseState(aff, t) \in [Chains -> AffinityType]
        /\ \A d \in Chains : ReleaseState(aff, t)[d] = IF d = thread_state[t].identity.id
                                              THEN Released(aff[d], t, thread_state[t].token)
                                              ELSE aff[d]
    BY <1>3, <2>1, ReleaseAtChain
  <2> QED
    BY <2>1, <2>2
<1>5. affinity'[c] = b
  BY <1>1, <1>4
<1>6. /\ thread_state' \in [Threads -> [identity : IdentityType, token : Nat]]
      /\ \A u \in Threads \ {t} : thread_state'[u] = thread_state[u]
      /\ thread_state'[t] = [identity |-> identity, token |-> token]
  <2>1. token \in Nat
    BY <1>2 DEF AffinityType
  <2> QED
    BY <1>1, <2>1
<1>7. thread_state'[t].identity.id = c /\ thread_state'[t].token = claimed.token
  BY <1>6
<1>8. ASSUME NEW d \in Chains, d # c
      PROVE  IssuedFor(d)' /\ Epoch(d)'
  <2>1. affinity'[d] = IF d = s.identity.id THEN Released(affinity[d], t, s.token)
                                            ELSE affinity[d]
    BY <1>1, <1>4, <1>8
  <2> QED
    BY <1>6, <1>7, <1>8, <2>1, EpochLeft
<1> HIDE DEF b, aff
<1>9. IssuedFor(c)'
  <2>1. ASSUME NEW u \in Threads, thread_state'[u].identity.id = c
        PROVE  thread_state'[u].token <= b.next
    <3>1. CASE u = t
      BY <1>2, <1>7, <3>1 DEF AffinityType
    <3>2. CASE u # t
      BY <1>2, <1>6, <2>1, <3>2
    <3> QED
      BY <3>1, <3>2
  <2> QED
    BY <1>5, <2>1 DEF IssuedFor
<1>10. Epoch(c)'
  <2>1. ASSUME NEW u \in Threads
        PROVE  (thread_state'[u].identity.id = c /\ thread_state'[u].token = b.next) <=> u = t
    <3>1. CASE u = t
      BY <1>2, <1>7, <3>1
    <3>2. CASE u # t
      BY <1>2, <1>6, <3>2
    <3> QED
      BY <3>1, <3>2
  <2> HIDE DEF c
  <2>2. b.leases = 1 /\ b.owner = t /\ b.token = b.next
    BY <1>2
  <2> QED
    BY <1>5, <2>1, <2>2 DEF Epoch
<1>11. OverlayTypeOK'
  BY <1>4, <1>6 DEF OverlayOK, OverlayTypeOK, AffinityType
<1> QED
  BY <1>8, <1>9, <1>10, <1>11 DEF OverlayOK

\* The replaced state is gone, and so is the epoch of the frame that failed.
LEMMA StateLost ==
    ASSUME OverlayOK, NEW t \in Threads, NEW identity \in IdentityType, identity.id \in Chains,
           NEW claimed, claimed = Claimed(affinity[identity.id], t, identity),
           NEW released, released = ReleaseState([affinity EXCEPT ![identity.id] = claimed], t),
           affinity' = [released EXCEPT ![identity.id] = Released(@, t, claimed.token)],
           thread_state' = [thread_state EXCEPT ![t] = NoState],
           UNCHANGED <<target, active_session>>, capture' \in BOOLEAN
    PROVE  OverlayOK'
<1> DEFINE c == identity.id
           s == thread_state[t]
           aff == [affinity EXCEPT ![c] = claimed]
           b == IF c = s.identity.id THEN Released(claimed, t, s.token) ELSE claimed
           e == Released(b, t, claimed.token)
<1>1. /\ affinity \in [Chains -> AffinityType] /\ Nobody \notin Chains /\ Nobody \notin Threads
      /\ thread_state \in [Threads -> [identity : IdentityType, token : Nat]]
  BY OverlayFacts
<1>2. /\ claimed \in AffinityType /\ b \in AffinityType
      /\ b.owner = t /\ b.leases = 1 /\ b.token = claimed.token /\ b.next = claimed.token
      /\ \A u \in Threads : thread_state[u].identity.id = c =>
            /\ thread_state[u].token <= b.next
            /\ u # t => thread_state[u].token # b.next
  BY ClaimedEpoch
<1>3. aff \in [Chains -> AffinityType]
  BY <1>1, <1>2
<1>4. /\ released \in [Chains -> AffinityType]
      /\ \A d \in Chains : released[d] = IF d = s.identity.id
                                         THEN Released(aff[d], t, s.token)
                                         ELSE aff[d]
  <2>1. released = ReleaseState(aff, t) /\ OverlayTypeOK
    BY DEF OverlayOK
  <2> HIDE DEF aff, c
  <2>2. /\ ReleaseState(aff, t) \in [Chains -> AffinityType]
        /\ \A d \in Chains : ReleaseState(aff, t)[d] = IF d = thread_state[t].identity.id
                                              THEN Released(aff[d], t, thread_state[t].token)
                                              ELSE aff[d]
    BY <1>3, <2>1, ReleaseAtChain
  <2> QED
    BY <2>1, <2>2
<1>5. released[c] = b
  BY <1>1, <1>4
<1> HIDE DEF b
<1>6. e \in AffinityType /\ e.leases = 0 /\ e.owner = Nobody /\ e.next = b.next
  <2>1. claimed.token \in Nat
    BY <1>2 DEF AffinityType
  <2> QED
    BY <1>2, <2>1, ReleasedTyping
<1>7. affinity' = [released EXCEPT ![c] = e]
  BY <1>4, <1>5
<1> HIDE DEF e
<1>8. /\ affinity' \in [Chains -> AffinityType] /\ affinity'[c] = e
      /\ \A d \in Chains \ {c} : affinity'[d] = released[d]
  <2> HIDE DEF c, aff
  <2>1. affinity' \in [Chains -> AffinityType]
    BY <1>4, <1>6, <1>7
  <2>2. c \in Chains
    BY DEF c
  <2> QED
    BY <1>4, <1>7, <2>1, <2>2
<1>9. NoState \in [identity : IdentityType, token : Nat] /\ NoState.identity.id = Nobody
  BY DEF NoState, NoSession, Identity, IdentityType
<1>10. /\ thread_state' \in [Threads -> [identity : IdentityType, token : Nat]]
       /\ \A u \in Threads \ {t} : thread_state'[u] = thread_state[u]
       /\ thread_state'[t].identity.id = Nobody
  BY <1>1, <1>9
<1>11. ASSUME NEW d \in Chains, d # c
       PROVE  IssuedFor(d)' /\ Epoch(d)'
  <2>1. affinity'[d] = IF d = s.identity.id THEN Released(affinity[d], t, s.token)
                                            ELSE affinity[d]
    BY <1>1, <1>4, <1>8, <1>11
  <2>2. thread_state'[t].identity.id # d
    BY <1>1, <1>10
  <2> QED
    BY <1>10, <2>1, <2>2, EpochLeft
<1>12. ASSUME NEW u \in Threads, thread_state'[u].identity.id = c
       PROVE  thread_state'[u].token <= e.next /\ thread_state'[u].token # e.next
  <2>1. u # t
    BY <1>1, <1>10, <1>12
  <2>2. thread_state'[u] = thread_state[u]
    BY <1>10, <2>1
  <2> QED
    BY <1>2, <1>6, <1>12, <2>1, <2>2
<1>13. IssuedFor(c)' /\ Epoch(c)'
  BY <1>6, <1>8, <1>12 DEF IssuedFor, Epoch
<1>14. OverlayTypeOK'
  BY <1>8, <1>10 DEF OverlayOK, OverlayTypeOK, AffinityType
<1> QED
  BY <1>11, <1>13, <1>14 DEF OverlayOK

\* If only the session and the capture change, the epochs stay what they are.
LEMMA EpochsUnchanged ==
    ASSUME OverlayOK, UNCHANGED <<thread_state, affinity>>,
           target' \in {"active", "stopping", "stopped"}, capture' \in BOOLEAN,
           active_session' \in IdentityType
    PROVE  OverlayOK'
<1>1. OverlayTypeOK'
  BY DEF OverlayOK, OverlayTypeOK
<1>2. \A d \in Chains : IssuedFor(d)' /\ Epoch(d)'
  BY DEF OverlayOK, IssuedFor, Epoch
<1> QED
  BY <1>1, <1>2 DEF OverlayOK

\* A retirement drops the native state of a chain that it covers.
LEMMA RetireKeepsEpochs ==
    ASSUME OverlayOK, NEW t \in Threads, NEW retirements, Retire(t, retirements)
    PROVE  OverlayOK'
<1> DEFINE retired(i) == \E r \in retirements : IsRetiredBy(i, r)
<1>1. /\ active_session' = IF retired(active_session) THEN NoSession ELSE active_session
      /\ capture' = (capture /\ ~retired(active_session))
      /\ UNCHANGED target
  BY DEF Retire
<1>2. /\ active_session \in IdentityType /\ capture \in BOOLEAN
      /\ target \in {"active", "stopping", "stopped"}
  BY DEF OverlayOK, OverlayTypeOK
<1>3. NoSession \in IdentityType
  BY DEF NoSession, Identity, IdentityType
<1>4. \/ /\ affinity' = ReleaseState(affinity, t)
         /\ thread_state' = [thread_state EXCEPT ![t] = NoState]
      \/ UNCHANGED <<affinity, thread_state>>
  BY DEF Retire
<1> HIDE DEF retired
<1>5. active_session' \in IdentityType
  BY <1>1, <1>2, <1>3
<1>6. capture' \in BOOLEAN
  BY <1>1, <1>2
<1> QED
  BY <1>1, <1>2, <1>4, <1>5, <1>6, StateDropped, EpochsUnchanged

\* The identity that a frame is rendered for.
LEMMA TicketTyping ==
    ASSUME Typing, NEW t \in Threads, pc[t] \in Rendering
    PROVE  /\ Ticket(t) \in IdentityType /\ Ticket(t).id = frame[t].id
           /\ Ticket(t).sequence = frame[t].sequence /\ frame[t].id \in Chains
BY DEF Typing, FrameOK, Invocation, Rendering, Ticket, Identity, IdentityType, FrameType

\* An adapter that is not active, or has seen a newer frame, builds no state.
LEMMA RefusalKeepsEpochs ==
    ASSUME OverlayOK, NEW identity, RenderRefused(identity)
    PROVE  OverlayOK'
<1>1. capture' \in BOOLEAN /\ UNCHANGED <<target, active_session, thread_state, affinity>>
  BY DEF RenderRefused, OverlayOK, OverlayTypeOK
<1>2. target' \in {"active", "stopping", "stopped"} /\ active_session' \in IdentityType
  BY <1>1 DEF OverlayOK, OverlayTypeOK
<1> QED
  BY <1>1, <1>2, EpochsUnchanged

\* A frame claims the epoch before it builds its native state.
LEMMA RenderKeepsEpochs ==
    ASSUME OverlayOK, NEW t \in Threads, NEW identity \in IdentityType, identity.id \in Chains,
           RenderSucceeds(t, identity) \/ RenderFails(t, identity)
    PROVE  OverlayOK' /\ UNCHANGED <<target, active_session>>
<1> DEFINE c == identity.id
           s == thread_state[t]
           a == Claimed(affinity[c], t, identity)
           kept == /\ s.identity.id = c
                   /\ s.identity.generation = identity.generation
                   /\ s.token = a.token
           released == ReleaseState([affinity EXCEPT ![c] = a], t)
<1>1. capture \in BOOLEAN /\ thread_state \in [Threads -> [identity : IdentityType, token : Nat]]
  BY DEF OverlayOK, OverlayTypeOK
<1>2. CASE RenderSucceeds(t, identity)
  <2>1. /\ affinity' = released
        /\ thread_state' = [thread_state EXCEPT ![t] = [identity |-> identity, token |-> a.token]]
        /\ capture' \in BOOLEAN /\ UNCHANGED <<target, active_session>>
    BY <1>2, IntentsAreBoolean DEF RenderSucceeds
  <2> HIDE DEF a
  <2>2. a = Claimed(affinity[c], t, identity)
    BY DEF a
  <2> QED
    BY <2>1, <2>2, StateKept
<1>3. CASE RenderRefused(identity)
  BY <1>3, RefusalKeepsEpochs DEF RenderRefused
<1>4. CASE /\ kept /\ affinity' = released
           /\ thread_state' = [thread_state EXCEPT ![t].identity = identity]
           /\ capture' \in {capture, FALSE} /\ UNCHANGED <<target, active_session>>
  <2>1. s \in [identity : IdentityType, token : Nat]
    BY <1>1
  <2>2. [s EXCEPT !.identity = identity] = [identity |-> identity, token |-> s.token]
    BY <2>1
  <2>3. thread_state' = [thread_state EXCEPT ![t] = [identity |-> identity, token |-> s.token]]
    <3>1. thread_state' = [thread_state EXCEPT ![t] = [s EXCEPT !.identity = identity]]
      BY <1>4
    <3> QED
      BY <2>2, <3>1
  <2>4. capture' \in BOOLEAN
    BY <1>1, <1>4
  <2>5. /\ s.token = a.token /\ UNCHANGED <<target, active_session>>
        /\ affinity' = ReleaseState([affinity EXCEPT ![c] = a], t)
    BY <1>4
  <2> HIDE DEF a, s, released, kept
  <2>6. a = Claimed(affinity[c], t, identity)
    BY DEF a
  <2> QED
    BY <2>3, <2>4, <2>5, <2>6, StateKept
<1>5. CASE /\ ~kept /\ affinity' = [released EXCEPT ![c] = Released(@, t, a.token)]
           /\ thread_state' = [thread_state EXCEPT ![t] = NoState]
           /\ capture' = FALSE /\ UNCHANGED <<target, active_session>>
  <2>1. capture' \in BOOLEAN
    BY <1>5
  <2> HIDE DEF released, a, kept
  <2>2. a = Claimed(affinity[c], t, identity) /\ released = ReleaseState([affinity EXCEPT ![c] = a], t)
    BY DEF a, released
  <2> QED
    BY <1>5, <2>1, <2>2, StateLost
<1> QED
  BY <1>2, <1>3, <1>4, <1>5 DEF RenderFails

\* A recorded session may have the capture.
LEMMA RecordKeepsEpochs ==
    ASSUME OverlayOK, NEW identity \in IdentityType, RecordRenderSuccess(identity)
    PROVE  OverlayOK'
<1>1. active_session' \in {identity, active_session}
      /\ UNCHANGED <<target, capture, thread_state, affinity>>
  BY DEF RecordRenderSuccess
<1>2. /\ target' \in {"active", "stopping", "stopped"} /\ capture' \in BOOLEAN
      /\ active_session' \in IdentityType
  BY <1>1 DEF OverlayOK, OverlayTypeOK
<1> QED
  BY <1>1, <1>2, EpochsUnchanged

\* Whatever a call does, epochs have one owner each.
LEMMA StepKeepsEpochs ==
    ASSUME Typing, OverlayOK, NEW t \in Threads, StepOf(t)
    PROVE  OverlayOK'
<1>0. OverlayOK /\ UNCHANGED overlay => OverlayOK'
  <2> SUFFICES ASSUME UNCHANGED overlay PROVE OverlayOK'
    OBVIOUS
  <2>1. /\ target' \in {"active", "stopping", "stopped"} /\ capture' \in BOOLEAN
        /\ active_session' \in IdentityType /\ UNCHANGED <<thread_state, affinity>>
    BY DEF overlay, OverlayOK, OverlayTypeOK
  <2> QED
    BY <2>1, EpochsUnchanged
<1>1. CASE Plain(t)
  BY <1>0, <1>1 DEF Plain
<1>2. CASE Decides(t)
  BY <1>0, <1>2, RetireKeepsEpochs DEF Decides
<1>3. CASE Drains(t)
  BY <1>3, RetireKeepsEpochs DEF Drains
<1>4. CASE Defer(t)
  BY <1>0, <1>4, DeferMoves
<1>5. CASE Render(t)
  <2>1. /\ pc[t] \in Rendering
        /\ RenderSucceeds(t, Ticket(t)) \/ RenderFails(t, Ticket(t))
    BY <1>5, RenderMoves DEF Rendering
  <2> QED
    BY <2>1, TicketTyping, RenderKeepsEpochs
<1>6. CASE RecordSuccess(t)
  <2>1. pc[t] \in Rendering /\ RecordRenderSuccess(Ticket(t))
    BY <1>6, RecordMoves DEF Rendering
  <2> QED
    BY <2>1, TicketTyping, RecordKeepsEpochs
<1> QED
  BY <1>1, <1>2, <1>3, <1>4, <1>5, <1>6 DEF StepOf
-----------------------------------------------------------------------------
(* What is decided, rendered and recorded. *)

\* The session either stays, or is given up, or is that of the frame recorded.
LEMMA SessionChange ==
    ASSUME Typing, NEW t \in Threads, StepOf(t)
    PROVE  /\ \/ active_session' = active_session
              \/ active_session' = NoSession
              \/ RecordSuccess(t) /\ target = "active" /\ active_session' = Ticket(t)
           /\ UNCHANGED target
           /\ failed \subseteq failed'
<1>1. ASSUME NEW retirements, Retire(t, retirements)
      PROVE  active_session' \in {active_session, NoSession} /\ UNCHANGED target
  BY <1>1 DEF Retire
<1>2. CASE Plain(t)
  BY <1>2 DEF Plain, overlay
<1>3. CASE Decides(t)
  BY <1>1, <1>3 DEF Decides, overlay
<1>4. CASE Drains(t)
  BY <1>1, <1>4 DEF Drains
<1>5. CASE Defer(t)
  BY <1>5, DeferMoves DEF overlay
<1>6. CASE Render(t)
  <2>1. /\ RenderSucceeds(t, Ticket(t)) \/ RenderFails(t, Ticket(t))
        /\ failed \subseteq failed'
    BY <1>6, RenderMoves
  <2> QED
    BY <2>1 DEF RenderSucceeds, RenderFails, RenderRefused
<1>7. CASE RecordSuccess(t)
  <2>1. RecordRenderSuccess(Ticket(t)) /\ UNCHANGED failed
    BY <1>7, RecordMoves
  <2> QED
    BY <1>7, <2>1 DEF RecordRenderSuccess
<1> QED
  BY <1>2, <1>3, <1>4, <1>5, <1>6, <1>7 DEF StepOf

\* The places and the retirements of a step's own call.
LEMMA StepPlaces ==
    ASSUME Typing, NEW t \in Threads, StepOf(t)
    PROVE  /\ FrameOK(t) /\ FrameOK(t)'
           /\ pc[t] \in Rendering \cup {"outcome", "drain", "release"} => frame[t].lane
           /\ pc[t] # "defer" => frame[t].retire = {}
           /\ pc'[t] # "defer" => frame'[t].retire = {}
           /\ Render(t) => pc[t] = "render" /\ pc'[t] \in {"record", "outcome"}
           /\ RecordSuccess(t) => pc[t] = "record" /\ pc'[t] = "outcome"
           /\ Defer(t) => pc[t] = "defer" /\ pc'[t] = "sweep"
           /\ Drains(t) => pc[t] = "drain" /\ pc'[t] = "drain"
<1>1. FrameOK(t) /\ FrameOK(t)'
  BY DEF Typing, StepOf, Moves
<1>2. /\ pc[t] \in Rendering \cup {"outcome", "drain", "release"} => frame[t].lane
      /\ pc[t] # "defer" => frame[t].retire = {}
      /\ pc'[t] # "defer" => frame'[t].retire = {}
  BY <1>1 DEF FrameOK, Invocation
<1> QED
  BY <1>1, <1>2, RenderMoves, RecordMoves, DeferMoves DEF Drains, threads

\* A retirement on its way stays on its way until it is applied.
LEMMA InFlightKept ==
    ASSUME Typing, NEW t \in Threads, StepOf(t), NEW r \in InFlight,
           Drains(t) => r \notin pending
    PROVE  r \in InFlight'
<1>1. CASE r \in pending
  <2>1. pending \subseteq pending'
    BY <1>1, RenderMoves, RecordMoves, DeferMoves DEF StepOf, Plain, Decides
  <2> QED
    BY <1>1, <2>1 DEF InFlight
<1>2. ASSUME NEW u \in Threads, r \in frame[u].retire, u # t
      PROVE  r \in InFlight'
  <2>1. frame'[u] = frame[u]
    BY <1>2, Others DEF StepOf
  <2> QED
    BY <1>2, <2>1 DEF InFlight
<1>3. CASE r \in frame[t].retire
  <2>1. pc[t] = "defer"
    BY <1>3, StepPlaces
  <2>2. Defer(t)
    BY <2>1, StepPlaces DEF StepOf, Plain, Decides, Rendering
  <2>3. r \in pending'
    BY <1>3, <2>2, DeferMoves
  <2> QED
    BY <2>3 DEF InFlight
<1> QED
  BY <1>1, <1>2, <1>3 DEF InFlight

\* The last retirement of a chain stays the last, or it was decided just now.
LEMMA LastKept ==
    ASSUME Typing, NEW t \in Threads, StepOf(t), NEW c \in Chains
    PROVE  \/ LastRetirement(c)' = LastRetirement(c)
           \/ /\ Decides(t) /\ UNCHANGED overlay
              /\ LastRetirement(c)' \in InFlight'
           \/ /\ Decides(t) /\ frame[t].lane
              /\ \E retirements \in SUBSET RetirementType :
                    Retire(t, retirements) /\ LastRetirement(c)' \in retirements
<1>1. CASE Decides(t)
  <2>1. PICK retirements \in SUBSET RetirementType :
           /\ \A r \in retirements : r.sequence <= sequence
           /\ Issue(retirements) /\ UNCHANGED sequence
           /\ \/ Retire(t, retirements) /\ (retirements = {} \/ frame[t].lane)
              \/ UNCHANGED overlay /\ frame'[t].retire = retirements
    BY <1>1 DEF Decides
  <2>2. issued'[c] = issued[c] \/ LastRetirement(c)' \in retirements
    BY <2>1, IssueTyping DEF Typing
  <2>3. CASE issued'[c] = issued[c]
    BY <2>3 DEF LastRetirement
  <2>4. CASE LastRetirement(c)' \in retirements /\ Retire(t, retirements)
             /\ (retirements = {} \/ frame[t].lane)
    BY <1>1, <2>4
  <2>5. CASE LastRetirement(c)' \in retirements /\ UNCHANGED overlay
             /\ frame'[t].retire = retirements
    <3>1. LastRetirement(c)' \in InFlight'
      BY <2>5 DEF InFlight
    <3> QED
      BY <1>1, <2>5, <3>1
  <2> QED
    BY <2>1, <2>2, <2>3, <2>4, <2>5
<1>2. CASE ~Decides(t)
  <2>1. issued' = issued
    BY <1>2, RenderMoves, RecordMoves, DeferMoves DEF StepOf, Plain, Drains
  <2> QED
    BY <2>1 DEF LastRetirement
<1> QED
  BY <1>1, <1>2

\* What was decided, and what is in pending, is not from the future.
LEMMA StepIssues ==
    ASSUME Typing, NEW t \in Threads, StepOf(t)
    PROVE  IssuedOK' /\ pending' \subseteq RetirementType
<1>1. sequence <= sequence' /\ sequence \in 0..MaxSequence /\ sequence' \in 0..MaxSequence
  BY DEF StepOf, Moves, Typing, PolicyOK
<1>2. ASSUME issued' = issued
      PROVE  IssuedOK'
  <2>1. ASSUME NEW c \in Chains
        PROVE  issued'[c].sequence <= sequence'
    <3>1. issued[c].sequence \in 0..MaxSequence /\ issued[c].sequence <= sequence
      BY DEF Typing, IssuedOK
    <3> QED
      BY <1>1, <1>2, <3>1, SequencesAreBounded
  <2> QED
    BY <1>2, <2>1 DEF Typing, IssuedOK
<1>3. CASE Decides(t)
  BY <1>3, IssueTyping DEF Decides, Typing
<1>4. CASE ~Decides(t)
  <2>1. issued' = issued
    BY <1>4, RenderMoves, RecordMoves, DeferMoves DEF StepOf, Plain, Drains
  <2>2. frame[t].retire \subseteq RetirementType
    BY DEF Typing, FrameType
  <2>3. pending' \subseteq RetirementType
    BY <1>4, <2>2, RenderMoves, RecordMoves, DeferMoves DEF StepOf, Plain, Drains, Typing
  <2> QED
    BY <1>2, <2>1, <2>3
<1>5. Decides(t) => pending' \subseteq RetirementType
  BY DEF Decides, Typing
<1> QED
  BY <1>3, <1>4, <1>5

\* All of the types, after a step of a call.
LEMMA StepTyping ==
    ASSUME Typing, OverlayOK, NEW t \in Threads, StepOf(t)
    PROVE  Typing' /\ OverlayOK'
<1>1. PolicyOK' /\ Moves(t) /\ sequence' \in 0..MaxSequence
  BY DEF StepOf, PolicyOK
<1>2. OverlayOK'
  BY StepKeepsEpochs
<1>3. LaneOK'
  BY <1>1, LaneTyping
<1>4. /\ pc' \in [Threads -> Pcs] /\ frame' \in [Threads -> FrameType]
      /\ \A u \in Threads : FrameOK(u)'
  BY <1>1, ThreadsTyping
<1>5. IssuedOK' /\ pending' \subseteq RetirementType
  BY StepIssues
<1>6. OverlayTypeOK'
  BY <1>2 DEF OverlayOK
<1> QED
  BY <1>1, <1>2, <1>3, <1>4, <1>5, <1>6 DEF Typing

\* A frame that failed is in failed before its outcome is recorded.
LEMMA StepOutcomes ==
    ASSUME Typing, OutcomesAreKnown, NEW t \in Threads, StepOf(t)
    PROVE  OutcomesAreKnown'
<1> SUFFICES ASSUME NEW u \in Threads, pc'[u] = "outcome", ~frame'[u].succeeded
             PROVE  <<frame'[u].id, frame'[u].generation>> \in failed'
  BY DEF OutcomesAreKnown
<1>1. failed \subseteq failed'
  BY SessionChange
<1>2. CASE u # t
  <2>1. pc'[u] = pc[u] /\ frame'[u] = frame[u]
    BY <1>2, Others DEF StepOf
  <2> QED
    BY <1>1, <2>1 DEF OutcomesAreKnown
<1>3. CASE u = t
  <2>1. ~RecordSuccess(t)
    BY <1>3, RecordMoves
  <2>2. Render(t)
    BY <1>3, <2>1, StepPlaces DEF StepOf, Plain, Decides
  <2> QED
    BY <1>3, <2>2, RenderMoves
<1> QED
  BY <1>2, <1>3

\* The budget of a generation counts its own frames.
LEMMA StepFailures ==
    ASSUME Typing, OutcomesAreKnown, FailuresBelongToGeneration, NEW t \in Threads, StepOf(t)
    PROVE  FailuresBelongToGeneration'
<1> SUFFICES ASSUME NEW c \in DOMAIN sessions', sessions'[c].failures # NoFailures
             PROVE  <<c, sessions'[c].generation>> \in failed'
  BY DEF FailuresBelongToGeneration
<1>1. failed \subseteq failed'
  BY SessionChange
<1>2. CASE KeepsFailures
  BY <1>1, <1>2 DEF KeepsFailures, FailuresBelongToGeneration
<1>3. CASE RecordsOutcome(t) /\ pc[t] = "outcome"
  BY <1>1, <1>3 DEF RecordsOutcome, FailuresBelongToGeneration, OutcomesAreKnown
<1> QED
  BY <1>2, <1>3 DEF StepOf

\* A target that was stopped records no session.
LEMMA StepDeactivated ==
    ASSUME Typing, DeactivatedHoldsNoSession, NEW t \in Threads, StepOf(t)
    PROVE  DeactivatedHoldsNoSession'
BY SessionChange DEF DeactivatedHoldsNoSession

\* Presents are compared as numbers, and the empty session comes first.
LEMMA SequenceTyping ==
    ASSUME Typing
    PROVE  /\ active_session.sequence \in Nat /\ active_session.id \in Chains \cup {Nobody}
           /\ sequence \in Nat /\ NoSession.sequence = 0 /\ NoSession.id = Nobody
           /\ Nobody \notin Chains
           /\ \A t \in Threads : frame[t].sequence \in Nat /\ frame[t].sequence <= sequence
           /\ \A c \in Chains : /\ LastRetirement(c).sequence \in Nat
                                /\ LastRetirement(c).sequence <= sequence
                                /\ LastRetirement(c).id = c
<1>1. active_session.sequence \in Nat /\ active_session.id \in Chains \cup {Nobody}
  BY DEF Typing, OverlayTypeOK, IdentityType
<1>2. sequence \in Nat /\ NoSession.sequence = 0 /\ NoSession.id = Nobody /\ Nobody \notin Chains
  BY SequencesAreBounded, NobodyIsNobody DEF Typing, PolicyOK, NoSession, Identity
<1>3. \A t \in Threads : frame[t].sequence \in Nat /\ frame[t].sequence <= sequence
  BY SequencesAreBounded DEF Typing, FrameType, FrameOK
<1>4. ASSUME NEW c \in Chains
      PROVE  /\ LastRetirement(c).sequence \in Nat /\ LastRetirement(c).sequence <= sequence
             /\ LastRetirement(c).id = c
  <2>1. LastRetirement(c).sequence = issued[c].sequence /\ LastRetirement(c).id = c
    BY DEF LastRetirement, Identity
  <2>2. issued[c].sequence \in Nat /\ issued[c].sequence <= sequence
    BY SequencesAreBounded DEF Typing, IssuedOK
  <2> QED
    BY <2>1, <2>2
<1> QED
  BY <1>1, <1>2, <1>3, <1>4

\* The frame of another call: this one has not the lane, so that it neither
\* applies a retirement nor records a session.
LEMMA OtherFrames ==
    ASSUME Typing, FramesAreNewest, NEW t \in Threads, StepOf(t),
           NEW u \in Threads, u # t, pc'[u] \in Rendering, NEW c, c = frame'[u].id
    PROVE  /\ active_session'.sequence < frame'[u].sequence
           /\ LastRetirement(c)'.sequence >= frame'[u].sequence
                => LastRetirement(c)' \in InFlight'
<1>1. pc'[u] = pc[u] /\ frame'[u] = frame[u]
  BY Others DEF StepOf
<1>2. frame[u].lane /\ c = frame[u].id /\ c \in Chains
  BY <1>1 DEF Typing, FrameOK, Invocation, Rendering
<1>3. ~frame[t].lane
  BY <1>2 DEF Typing, LaneOK
<1>4. ~Drains(t) /\ ~RecordSuccess(t) /\ ~Render(t)
  BY <1>3, StepPlaces DEF Drains, Rendering
<1>5. /\ active_session.sequence < frame[u].sequence
      /\ LastRetirement(c).sequence >= frame[u].sequence => LastRetirement(c) \in InFlight
  BY <1>1, <1>2 DEF FramesAreNewest
<1>6. active_session'.sequence < frame'[u].sequence
  <2>1. active_session' \in {active_session, NoSession}
    BY <1>4, SessionChange
  <2> QED
    BY <1>1, <1>5, <2>1, SequenceTyping
<1>7. CASE LastRetirement(c)' = LastRetirement(c)
  BY <1>1, <1>4, <1>5, <1>6, <1>7, InFlightKept
<1>8. CASE LastRetirement(c)' \in InFlight'
  BY <1>1, <1>6, <1>8
<1> QED
  BY <1>2, <1>3, <1>7, <1>8, LastKept

\* The step's own frame: it was begun just now, or goes on as it was.
LEMMA OwnFrame ==
    ASSUME Typing, FramesAreNewest, NEW t \in Threads, StepOf(t), pc'[t] \in Rendering,
           NEW c, c = frame'[t].id
    PROVE  /\ active_session'.sequence < frame'[t].sequence
           /\ LastRetirement(c)'.sequence >= frame'[t].sequence
                => LastRetirement(c)' \in InFlight'
<1>1. ~Decides(t) /\ ~Drains(t) /\ ~Defer(t) /\ ~RecordSuccess(t)
  BY StepPlaces DEF Decides, Rendering
<1>2. c \in Chains /\ frame'[t].sequence \in Nat
  BY SequencesAreBounded, StepPlaces DEF FrameOK, FrameType, Invocation, Rendering
<1>3. active_session' = active_session /\ issued' = issued
  <2>1. CASE Plain(t)
    BY <2>1 DEF Plain, overlay
  <2>2. CASE Render(t)
    BY <2>2, RenderMoves DEF RenderSucceeds, RenderFails, RenderRefused
  <2> QED
    BY <1>1, <2>1, <2>2 DEF StepOf
<1>4. LastRetirement(c)' = LastRetirement(c)
  BY <1>3 DEF LastRetirement
<1>5. CASE pc[t] \in Rendering /\ frame'[t].id = frame[t].id
           /\ frame'[t].sequence = frame[t].sequence
  <2>1. /\ active_session.sequence < frame[t].sequence
        /\ LastRetirement(c).sequence >= frame[t].sequence => LastRetirement(c) \in InFlight
    BY <1>5 DEF FramesAreNewest
  <2>2. LastRetirement(c) \in InFlight => LastRetirement(c) \in InFlight'
    BY <1>1, InFlightKept
  <2> QED
    BY <1>3, <1>4, <1>5, <2>1, <2>2
<1>6. CASE frame'[t].sequence > sequence
  <2>1. /\ active_session.sequence <= sequence /\ active_session.sequence \in Nat
        /\ sequence \in Nat
        /\ LastRetirement(c).sequence \in Nat /\ LastRetirement(c).sequence <= sequence
    BY <1>2, SequenceTyping DEF FramesAreNewest
  <2>2. active_session.sequence < frame'[t].sequence
    BY <1>2, <1>6, <2>1
  <2>3. ~(LastRetirement(c).sequence >= frame'[t].sequence)
    BY <1>2, <1>6, <2>1
  <2> QED
    BY <1>3, <1>4, <2>2, <2>3
<1>7. Render(t) => pc[t] \in Rendering /\ frame'[t] = frame[t]
  BY RenderMoves DEF Rendering
<1> QED
  BY <1>1, <1>5, <1>6, <1>7 DEF StepOf, Plain

\* A frame that is rendered stays the newest.
LEMMA StepFrames ==
    ASSUME Typing, FramesAreNewest, NEW t \in Threads, StepOf(t)
    PROVE  FramesAreNewest'
<1>1. active_session'.sequence <= sequence'
  <2>1. /\ sequence \in Nat /\ sequence' \in Nat /\ sequence <= sequence'
        /\ active_session.sequence \in Nat /\ active_session.sequence <= sequence
    BY SequenceTyping, SequencesAreBounded
       DEF StepOf, Moves, PolicyOK, FramesAreNewest
  <2>2. CASE active_session' = active_session
    BY <2>1, <2>2
  <2>3. CASE active_session' = NoSession
    BY <2>1, <2>3, SequenceTyping
  <2>4. CASE RecordSuccess(t) /\ active_session' = Ticket(t)
    <3>1. active_session'.sequence = frame[t].sequence
      BY <2>4, StepPlaces, TicketTyping DEF Rendering
    <3>2. frame[t].sequence \in Nat /\ frame[t].sequence <= sequence
      BY SequenceTyping
    <3> QED
      BY <2>1, <3>1, <3>2
  <2> QED
    BY <2>2, <2>3, <2>4, SessionChange
<1>2. ASSUME NEW u \in Threads, pc'[u] \in Rendering, NEW c, c = frame'[u].id
      PROVE  /\ active_session'.sequence < frame'[u].sequence
             /\ LastRetirement(c)'.sequence >= frame'[u].sequence
                  => LastRetirement(c)' \in InFlight'
  BY <1>2, OtherFrames, OwnFrame
<1> QED
  BY <1>1, <1>2 DEF FramesAreNewest, LastRetirement

\* Only one call is in a frame, or drains.
LEMMA LaneExcludes ==
    ASSUME Typing, NEW t \in Threads, NEW u \in Threads,
           pc[t] \in Rendering \cup {"outcome", "drain", "release"},
           pc[u] \in Rendering \cup {"outcome", "drain", "release"}
    PROVE  u = t
BY DEF Typing, FrameOK, Invocation, LaneOK

\* Captured input stays accounted for.
LEMMA StepCapture ==
    ASSUME Typing, FramesAreNewest, CaptureIsAccounted, NEW t \in Threads, StepOf(t)
    PROVE  CaptureIsAccounted'
<1> DEFINE Accounted(i) ==
              /\ i.id \in Chains
              /\ IsRetiredBy(i, LastRetirement(i.id)) => LastRetirement(i.id) \in InFlight
<1>1. SUFFICES ASSUME target' = "active", capture'
               PROVE  \/ \E u \in Threads : pc'[u] = "record"
                      \/ \E i : i = active_session' /\ Accounted(i)'
  BY DEF CaptureIsAccounted
<1>2. target = "active"
  BY <1>1, SessionChange
<1>3. capture => \/ \E u \in Threads : pc[u] = "record"
                 \/ \E i : i = active_session /\ Accounted(i)
  BY <1>2 DEF CaptureIsAccounted
\* Whoever records now goes on to do so, unless it is this call.
<1>4. ASSUME NEW u \in Threads, pc[u] = "record", pc[t] # "record"
      PROVE  \E v \in Threads : pc'[v] = "record"
  <2>1. pc'[u] = pc[u]
    BY <1>4, Others DEF StepOf
  <2> QED
    BY <1>4, <2>1
\* A session that stays is retired by nobody whose retirement is not on its way.
<1>5. ASSUME NEW i, i = active_session, i = active_session', Accounted(i),
             IsRetiredBy(i, LastRetirement(i.id)) =>
                ~(Drains(t) /\ LastRetirement(i.id) \in pending),
             \A retirements : Decides(t) /\ frame[t].lane /\ Retire(t, retirements) =>
                \A r \in retirements : ~IsRetiredBy(i, r)
      PROVE  Accounted(i)'
  <2> DEFINE c == i.id
  <2>1. c \in Chains
    BY <1>5
  <2>2. CASE LastRetirement(c)' = LastRetirement(c)
    <3>1. IsRetiredBy(i, LastRetirement(c)) => LastRetirement(c) \in InFlight'
      BY <1>5, InFlightKept
    <3> QED
      BY <2>1, <2>2, <3>1 DEF IsRetiredBy
  <2>3. CASE LastRetirement(c)' \in InFlight'
    BY <2>1, <2>3
  <2>4. CASE Decides(t) /\ frame[t].lane
             /\ \E retirements \in SUBSET RetirementType :
                   Retire(t, retirements) /\ LastRetirement(c)' \in retirements
    <3>1. ~IsRetiredBy(i, LastRetirement(c)')
      BY <1>5, <2>4
    <3> QED
      BY <2>1, <3>1 DEF IsRetiredBy
  <2> QED
    BY <2>1, <2>2, <2>3, <2>4, LastKept
\* A call that retires leaves the capture only to a session it does not retire.
<1>6. ASSUME NEW retirements, Retire(t, retirements)
      PROVE  /\ capture /\ active_session' = active_session
             /\ \A r \in retirements : ~IsRetiredBy(active_session, r)
  BY <1>1, <1>6 DEF Retire
<1>7. ASSUME capture, active_session' = active_session, pc[t] # "record", ~Drains(t) \/ pending = {}
      PROVE  \/ \E u \in Threads : pc'[u] = "record"
             \/ \E i : i = active_session' /\ Accounted(i)'
  <2>1. CASE \E u \in Threads : pc[u] = "record"
    BY <1>4, <1>7, <2>1
  <2>2. ASSUME NEW i, i = active_session, Accounted(i)
        PROVE  Accounted(i)'
    <3>1. \A retirements : Decides(t) /\ frame[t].lane /\ Retire(t, retirements) =>
             \A r \in retirements : ~IsRetiredBy(i, r)
      BY <1>6, <2>2
    <3> QED
      BY <1>5, <1>7, <2>2, <3>1
  <2> QED
    BY <1>3, <1>7, <2>1, <2>2
<1>8. CASE Plain(t)
  <2>1. capture /\ active_session' = active_session /\ pc[t] # "record" /\ pending' = pending
    BY <1>1, <1>8 DEF Plain, overlay
  <2>2. Drains(t) => pending = {}
    BY <2>1 DEF Drains
  <2> QED
    BY <1>7, <2>1, <2>2
<1>9. CASE Defer(t)
  <2>1. capture /\ active_session' = active_session /\ pc[t] = "defer" /\ ~Drains(t)
    BY <1>1, <1>9, DeferMoves DEF Drains, overlay
  <2> QED
    BY <1>7, <2>1
<1>10. CASE Decides(t)
  <2>1. capture /\ active_session' = active_session /\ pc[t] # "record" /\ ~Drains(t)
    BY <1>1, <1>6, <1>10 DEF Decides, Drains, overlay
  <2> QED
    BY <1>7, <2>1
<1>11. CASE Drains(t)
  <2>1. /\ capture /\ active_session' = active_session
        /\ \A r \in pending : ~IsRetiredBy(active_session, r)
    BY <1>6, <1>11 DEF Drains
  <2>2. \A u \in Threads : pc[u] # "record"
    <3>1. ASSUME NEW u \in Threads, pc[u] = "record"
          PROVE  FALSE
      <4>1. pc[t] = "drain"
        BY <1>11 DEF Drains
      <4>2. u = t
        BY <3>1, <4>1, LaneExcludes DEF Rendering
      <4> QED
        BY <3>1, <4>1, <4>2
    <3> QED
      BY <3>1
  <2>3. PICK i : i = active_session /\ Accounted(i)
    BY <1>3, <2>1, <2>2
  <2>4. ~Decides(t)
    BY <1>11 DEF Decides, Drains
  <2>5. Accounted(i)'
    BY <1>5, <2>1, <2>3, <2>4
  <2> QED
    BY <2>1, <2>3, <2>5
<1>12. CASE Render(t)
  <2>1. pc[t] = "render" /\ issued' = issued
    BY <1>12, RenderMoves
  <2>2. CASE RenderSucceeds(t, Ticket(t)) /\ pc'[t] = "record"
    BY <2>2
  <2>3. CASE RenderFails(t, Ticket(t))
    <3>1. capture
      BY <1>1, <2>3 DEF RenderFails, RenderRefused
    <3>2. active_session' = active_session
      BY <2>3 DEF RenderFails, RenderRefused
    <3> QED
      BY <1>7, <2>1, <3>1, <3>2 DEF Drains
  <2> QED
    BY <1>12, <2>2, <2>3, RenderMoves
\* The frame is newer than what has been retired; its retirement is on its way.
<1>13. CASE RecordSuccess(t)
  <2>1. pc[t] = "record" /\ RecordRenderSuccess(Ticket(t)) /\ issued' = issued
    BY <1>13, RecordMoves
  <2> DEFINE c == frame[t].id
  <2>2. /\ Ticket(t).sequence = frame[t].sequence /\ Ticket(t).id = c /\ c \in Chains
        /\ active_session.sequence < frame[t].sequence
        /\ LastRetirement(c).sequence >= frame[t].sequence => LastRetirement(c) \in InFlight
    BY <2>1, TicketTyping DEF FramesAreNewest, Rendering
  <2>3. PICK i : i = Ticket(t)
    OBVIOUS
  <2>4. active_session' = i
    <3>1. Ticket(t).sequence > active_session.sequence
      <4>1. Ticket(t).sequence \in Nat /\ active_session.sequence \in Nat
        BY <2>2, SequenceTyping
      <4> QED
        BY <2>2, <4>1
    <3> QED
      BY <1>2, <2>1, <2>3, <3>1 DEF RecordRenderSuccess
  <2>5. i.id = c /\ i.sequence = frame[t].sequence
    BY <2>2, <2>3
  <2>6. LastRetirement(i.id)' = LastRetirement(i.id)
    BY <2>1 DEF LastRetirement
  <2>7. IsRetiredBy(i, LastRetirement(i.id)) => LastRetirement(i.id) \in InFlight
    <3>1. LastRetirement(c).sequence \in Nat /\ frame[t].sequence \in Nat
      BY <2>2, SequenceTyping
    <3> QED
      BY <2>2, <2>5, <3>1 DEF IsRetiredBy
  <2>8. LastRetirement(i.id) \in InFlight => LastRetirement(i.id) \in InFlight'
    <3>1. ~Drains(t)
      BY <2>1 DEF Drains
    <3> QED
      BY <3>1, InFlightKept
  <2>9. Accounted(i)'
    <3>1. i.id \in Chains
      BY <2>2, <2>5
    <3> QED
      BY <2>6, <2>7, <2>8, <3>1 DEF IsRetiredBy
  <2> QED
    BY <2>4, <2>9
<1> QED
  BY <1>8, <1>9, <1>10, <1>11, <1>12, <1>13 DEF StepOf
-----------------------------------------------------------------------------
(* The steps outside the calls. *)

\* What such a step leaves alone.
Apart ==
    /\ UNCHANGED <<lane, pending, threads, issued, failed, sequence>>
    /\ PolicyOK' /\ KeepsFailures
    /\ OverlayOK'
    /\ \/ UNCHANGED active_session
       \/ active_session' = NoSession /\ target' # "active"
    /\ target' = "active" /\ capture' => target = "active" /\ capture
    /\ target' = "stopped" => target = "stopped" \/ active_session' = NoSession

\* A step that only changes the tracked chains and the switches.
LEMMA PolicyApart ==
    ASSUME Typing, OverlayOK, UNCHANGED <<overlay, lane, pending, threads, issued, failed>>,
           UNCHANGED <<sequence, current, sessions>>,
           closing' \in BOOLEAN, controls' \in BOOLEAN, chain' \in [Chains -> ChainType],
           \A c \in Chains : chain'[c].last <= sequence
    PROVE  Apart
<1>1. PolicyOK' /\ KeepsFailures
  BY DEF Typing, PolicyOK, KeepsFailures
<1>2. /\ target' \in {"active", "stopping", "stopped"} /\ capture' \in BOOLEAN
      /\ active_session' \in IdentityType /\ UNCHANGED <<thread_state, affinity>>
  BY DEF overlay, OverlayOK, OverlayTypeOK
<1>3. OverlayOK'
  BY <1>2, EpochsUnchanged
<1> QED
  BY <1>1, <1>3 DEF Apart, overlay

\* track_swap_chain.
LEMMA TrackIsApart ==
    ASSUME Typing, OverlayOK, NEW c \in Chains, Track(c)
    PROVE  Apart
<1> DEFINE after == [chain EXCEPT ![c].tracked = TRUE]
<1>1. /\ chain \in [Chains -> ChainType] /\ chain[c] \in ChainType
      /\ closing \in BOOLEAN /\ controls \in BOOLEAN
  BY DEF Typing, PolicyOK
<1>2. /\ chain' = after
      /\ UNCHANGED <<overlay, lane, pending, threads, issued, failed>>
      /\ UNCHANGED <<sequence, current, sessions, closing, controls>>
  BY DEF Track, Event
<1>3. after = [d \in Chains |-> after[d]]
  BY <1>1
<1>4. \A d \in Chains \ {c} : after[d] = chain[d]
  BY <1>1
<1>5. after[c] = [chain[c] EXCEPT !.tracked = TRUE]
  BY <1>1
<1> HIDE DEF after
<1>6. after[c] \in ChainType /\ after[c].last = chain[c].last
  BY <1>1, <1>5 DEF ChainType
<1>7. after \in [Chains -> ChainType] /\ \A d \in Chains : after[d].last <= sequence
  BY <1>3, <1>6, <1>4, ChainReplaced
<1> QED
  BY <1>1, <1>2, <1>7, PolicyApart

\* set_render_controls, and closing the manager.
LEMMA SwitchesAreApart ==
    ASSUME Typing, OverlayOK, SetRenderControls \/ Close
    PROVE  Apart
<1>1. /\ closing' \in BOOLEAN /\ controls' \in BOOLEAN
      /\ UNCHANGED <<overlay, lane, pending, threads, issued, failed>>
      /\ UNCHANGED <<sequence, current, sessions, chain>>
  BY DEF SetRenderControls, Close, Event, Typing, PolicyOK
<1>2. chain' \in [Chains -> ChainType] /\ \A c \in Chains : chain'[c].last <= sequence
  BY <1>1 DEF Typing, PolicyOK
<1> QED
  BY <1>1, <1>2, PolicyApart

\* An owner that drops its native state as it pumps messages.
LEMMA PumpIsApart ==
    ASSUME Typing, OverlayOK, NEW t \in Threads, PumpMessages(t)
    PROVE  Apart
<1>1. /\ UNCHANGED <<lane, pending, policy, threads, issued, failed>>
      /\ affinity' = ReleaseState(affinity, t)
      /\ thread_state' = [thread_state EXCEPT ![t] = NoState]
      /\ UNCHANGED <<target, capture, active_session>>
  BY DEF PumpMessages, DropThreadState, Event
<1>2. PolicyOK' /\ KeepsFailures /\ sequence' = sequence
  BY <1>1, PolicySame
<1>3. capture' \in BOOLEAN /\ active_session' \in IdentityType
  BY <1>1 DEF OverlayOK, OverlayTypeOK
<1>4. OverlayOK'
  BY <1>1, <1>3, StateDropped
<1> QED
  BY <1>1, <1>2, <1>4 DEF Apart

\* The two steps of deactivating the target.
LEMMA DeactivateIsApart ==
    ASSUME Typing, OverlayOK, Deactivate
    PROVE  Apart
<1>1. /\ UNCHANGED <<lane, pending, policy, threads, issued, failed, thread_state, affinity>>
      /\ \/ target' = "stopping" /\ capture' = FALSE /\ UNCHANGED active_session
         \/ target' = "stopped" /\ active_session' = NoSession /\ UNCHANGED capture
  BY DEF Deactivate, DeactivateTarget, ForgetSession, Event, history
<1>2. PolicyOK' /\ KeepsFailures /\ sequence' = sequence
  BY <1>1, PolicySame
<1>3. /\ target' \in {"active", "stopping", "stopped"} /\ capture' \in BOOLEAN
      /\ active_session' \in IdentityType
  <2>1. NoSession \in IdentityType
    BY DEF NoSession, Identity, IdentityType
  <2>2. capture \in BOOLEAN /\ active_session \in IdentityType
    BY DEF OverlayOK, OverlayTypeOK
  <2>3. target' \in {"active", "stopping", "stopped"}
    BY <1>1
  <2>4. capture' \in BOOLEAN
    BY <1>1, <2>2
  <2>5. active_session' \in IdentityType
    BY <1>1, <2>1, <2>2
  <2> QED
    BY <2>3, <2>4, <2>5
<1>4. OverlayOK'
  BY <1>1, <1>3, EpochsUnchanged
<1> QED
  BY <1>1, <1>2, <1>4 DEF Apart

\* No step outside the calls takes the lane or decides a retirement.
LEMMA ApartPreserves ==
    ASSUME IInv, Apart
    PROVE  IInv'
<1> USE DEF IInv
<1>1. UNCHANGED <<lane, pending, pc, frame, issued, failed, sequence>>
  BY DEF Apart, threads
<1>2. Typing'
  <2>1. OverlayTypeOK' /\ PolicyOK'
    BY DEF Apart, OverlayOK
  <2>2. IssuedOK' /\ LaneOK'
    BY <1>1 DEF Typing, IssuedOK, LaneOK
  <2>3. \A t \in Threads : FrameOK(t)'
    BY <1>1 DEF Typing, FrameOK
  <2> QED
    BY <1>1, <2>1, <2>2, <2>3 DEF Typing
<1>3. SomebodyDrains' /\ OutcomesAreKnown'
  BY <1>1 DEF SomebodyDrains, OutcomesAreKnown
<1>4. DeactivatedHoldsNoSession'
  BY DEF Apart, DeactivatedHoldsNoSession
<1>5. FailuresBelongToGeneration'
  BY <1>1 DEF Apart, KeepsFailures, FailuresBelongToGeneration
<1>6. InFlight' = InFlight
  BY <1>1 DEF InFlight
<1>7. FramesAreNewest'
  <2>1. \A t \in Threads : pc[t] \in Rendering => frame[t].id \in Chains
    BY DEF Typing, FrameOK, Invocation, Rendering
  <2>2. CASE active_session' = active_session
    BY <1>1, <1>6, <2>2 DEF FramesAreNewest, LastRetirement
  <2>3. CASE active_session' = NoSession
    <3>1. /\ active_session'.sequence = 0 /\ sequence \in Nat
          /\ active_session.sequence \in Nat
          /\ \A t \in Threads : frame[t].sequence \in Nat
      BY <2>3, SequenceTyping
    <3>2. active_session'.sequence <= sequence
      BY <3>1
    <3>3. \A t \in Threads : pc[t] \in Rendering => active_session'.sequence < frame[t].sequence
      BY <3>1 DEF FramesAreNewest
    <3> QED
      BY <1>1, <1>6, <3>2, <3>3 DEF FramesAreNewest, LastRetirement
  <2> QED
    BY <2>2, <2>3 DEF Apart
<1>8. CaptureIsAccounted'
  <2> SUFFICES ASSUME target' = "active", capture'
               PROVE  CaptureIsAccounted'
    BY DEF CaptureIsAccounted
  <2>1. target = "active" /\ capture /\ active_session' = active_session
    BY DEF Apart
  <2> QED
    BY <1>1, <1>6, <2>1 DEF CaptureIsAccounted, LastRetirement
<1>9. OverlayOK'
  BY DEF Apart
<1> QED
  BY <1>2, <1>3, <1>4, <1>5, <1>7, <1>8, <1>9
-----------------------------------------------------------------------------
\* The manager and the overlay as they are created.
LEMMA InitIsTyped ==
    ASSUME Init
    PROVE  Typing /\ OverlayOK
<1> USE SequencesAreBounded
<1>1. OverlayOK
  <2>1. NoState \in [identity : IdentityType, token : Nat] /\ NoState.identity.id = Nobody
    BY DEF NoState, NoSession, Identity, IdentityType
  <2>2. /\ thread_state = [t \in Threads |-> NoState] /\ affinity = [c \in Chains |-> Unclaimed]
        /\ target = "active" /\ capture = FALSE /\ active_session = NoSession
    BY DEF Init, OverlayInit
  <2>3. Unclaimed \in AffinityType /\ Unclaimed.leases = 0 /\ Unclaimed.owner = Nobody
    BY DEF Unclaimed, AffinityType
  <2>4. NoSession \in IdentityType
    BY DEF NoSession, Identity, IdentityType
  <2>5. OverlayTypeOK
    BY <2>1, <2>2, <2>3, <2>4 DEF OverlayTypeOK, AffinityType
  <2>6. \A c \in Chains : IssuedFor(c) /\ Epoch(c)
    BY <2>1, <2>2, <2>3, NobodyIsNobody DEF IssuedFor, Epoch
  <2> QED
    BY <2>5, <2>6 DEF OverlayOK
<1>2. NewChain \in ChainType /\ NewChain.last = 0
  BY DEF NewChain, ChainType
<1>3. /\ chain \in [Chains -> ChainType] /\ \A c \in Chains : chain[c].last = 0
  <2>1. PICK tracked \in SUBSET Chains :
           chain = [c \in Chains |-> [NewChain EXCEPT !.tracked = c \in tracked]]
    BY DEF Init
  <2>2. ASSUME NEW b \in BOOLEAN
        PROVE  /\ [NewChain EXCEPT !.tracked = b] \in ChainType
               /\ [NewChain EXCEPT !.tracked = b].last = 0
    BY <1>2 DEF ChainType
  <2>3. ASSUME NEW c \in Chains
        PROVE  chain[c] \in ChainType /\ chain[c].last = 0
    <3>1. chain[c] = [NewChain EXCEPT !.tracked = c \in tracked]
      BY <2>1
    <3>2. CASE c \in tracked
      <4>1. (c \in tracked) = TRUE
        BY <3>2
      <4>2. chain[c] = [NewChain EXCEPT !.tracked = TRUE]
        BY <3>1, <4>1
      <4> QED
        BY <2>2, <4>2
    <3>3. CASE c \notin tracked
      <4>1. (c \in tracked) = FALSE
        BY <3>3
      <4>2. chain[c] = [NewChain EXCEPT !.tracked = FALSE]
        BY <3>1, <4>1
      <4> QED
        BY <2>2, <4>2
    <3> QED
      BY <3>2, <3>3
  <2>4. chain = [c \in Chains |-> chain[c]]
    BY <2>1
  <2> QED
    BY <2>3, <2>4
<1>4. PolicyOK
  <2>1. DOMAIN sessions = {}
    BY DEF Init
  <2>2. closing \in BOOLEAN /\ controls \in BOOLEAN /\ sequence = 0 /\ current = Nobody
    BY DEF Init
  <2> QED
    BY <1>3, <2>1, <2>2 DEF PolicyOK
<1>5. IssuedOK
  BY DEF Init, IssuedOK, NoRetirement
<1>6. LaneOK
  BY NoFrameTyping DEF Init, LaneOK
<1>7. \A t \in Threads : FrameOK(t)
  <2>1. Invocation("idle", NoFrame) /\ "idle" \in Pcs
    BY NoFrameTyping DEF Invocation, Rendering, Pcs
  <2> QED
    BY <2>1, NoFrameTyping DEF Init, FrameOK
<1>8. pc \in [Threads -> Pcs] /\ frame \in [Threads -> FrameType] /\ pending = {}
  BY NoFrameTyping DEF Init, Pcs
<1>9. OverlayTypeOK
  BY <1>1 DEF OverlayOK
<1> QED
  BY <1>1, <1>4, <1>5, <1>6, <1>7, <1>8, <1>9 DEF Typing

\* The invariant holds when they are.
LEMMA InitInvariant ==
    ASSUME Init
    PROVE  IInv
<1>1. Typing /\ OverlayOK
  BY InitIsTyped
<1>2. SomebodyDrains /\ DeactivatedHoldsNoSession /\ OutcomesAreKnown
      /\ FailuresBelongToGeneration /\ CaptureIsAccounted
  BY DEF Init, OverlayInit, SomebodyDrains, DeactivatedHoldsNoSession, OutcomesAreKnown,
         FailuresBelongToGeneration, CaptureIsAccounted
<1>3. FramesAreNewest
  <2>1. active_session = NoSession /\ sequence = 0 /\ \A t \in Threads : pc[t] \notin Rendering
    BY DEF Init, OverlayInit, Rendering
  <2> QED
    BY <1>1, <2>1, SequenceTyping DEF FramesAreNewest
<1> QED
  BY <1>1, <1>2, <1>3 DEF IInv

\* A step of a call keeps the invariant.
LEMMA CallPreserves ==
    ASSUME IInv, NEW t \in Threads, Call(t)
    PROVE  IInv'
<1>1. Typing /\ OverlayOK /\ StepOf(t) /\ Moves(t)
  BY CallSteps DEF IInv, StepOf
<1>2. Typing' /\ OverlayOK'
  BY <1>1, StepTyping
<1>3. SomebodyDrains'
  BY <1>1, PendingIsWatched DEF IInv
<1>4. DeactivatedHoldsNoSession'
  BY <1>1, StepDeactivated DEF IInv
<1>5. OutcomesAreKnown' /\ FailuresBelongToGeneration'
  BY <1>1, StepOutcomes, StepFailures DEF IInv
<1>6. FramesAreNewest' /\ CaptureIsAccounted'
  BY <1>1, StepFrames, StepCapture DEF IInv
<1> QED
  BY <1>2, <1>3, <1>4, <1>5, <1>6 DEF IInv

\* A stutter keeps it too.
LEMMA StutterPreserves ==
    ASSUME IInv, UNCHANGED vars
    PROVE  IInv'
<1>1. /\ UNCHANGED <<overlay, lane, pending, threads, issued, failed>>
      /\ UNCHANGED <<sequence, current, sessions, closing, controls, chain>>
  BY DEF vars, policy, history
<1>2. /\ closing' \in BOOLEAN /\ controls' \in BOOLEAN /\ chain' \in [Chains -> ChainType]
      /\ \A c \in Chains : chain'[c].last <= sequence
  BY <1>1 DEF IInv, Typing, PolicyOK
<1>3. Apart
  BY <1>1, <1>2, PolicyApart DEF IInv
<1> QED
  BY <1>3, ApartPreserves

\* So does every step.
LEMMA NextPreserves ==
    ASSUME IInv, [Next]_vars
    PROVE  IInv'
<1>1. CASE \E t \in Threads : Call(t)
  BY <1>1, CallPreserves
<1>2. CASE \E t \in Threads : PumpMessages(t)
  BY <1>2, PumpIsApart, ApartPreserves DEF IInv
<1>3. CASE \E c \in Chains : Track(c)
  BY <1>3, TrackIsApart, ApartPreserves DEF IInv
<1>4. CASE SetRenderControls \/ Close
  BY <1>4, SwitchesAreApart, ApartPreserves DEF IInv
<1>5. CASE Deactivate
  BY <1>5, DeactivateIsApart, ApartPreserves DEF IInv
<1>6. CASE UNCHANGED vars
  BY <1>6, StutterPreserves
<1> QED
  BY <1>1, <1>2, <1>3, <1>4, <1>5, <1>6 DEF Next
-----------------------------------------------------------------------------
(* What holds for any number of chains, threads and epochs.                  *)

\* Every Present, resize and color-space call of manager.rs, and every change of
\* the tracked chains, the switches and the overlay, keeps the invariant.
THEOREM Inductive == Spec => []IInv
<1>1. Init => IInv
  BY InitInvariant
<1>2. IInv /\ [Next]_vars => IInv'
  BY NextPreserves
<1> QED
  BY <1>1, <1>2, PTL DEF Spec

\* The state keeps its types: the lane's flag is up exactly while a call has the
\* lane, and never two calls have it (try_render_lane, finish_render_lane).
THEOREM TypeCorrect == Spec => []TypeOK
<1>1. IInv => TypeOK
  <2> SUFFICES ASSUME IInv
               PROVE  TypeOK
    OBVIOUS
  <2>1. Typing /\ OverlayTypeOK /\ PolicyOK /\ IssuedOK /\ LaneOK
    BY DEF IInv, Typing
  <2>2. lane = (\E t \in Threads : frame[t].lane)
    BY <2>1 DEF LaneOK
  <2>3. \A t, u \in Threads : frame[t].lane /\ frame[u].lane => t = u
    BY <2>1 DEF LaneOK
  <2>4. \A r \in pending : r.id \in Chains /\ r.generation \in Nat \ {0}
    BY <2>1 DEF Typing, RetirementType
  <2>5. \A c \in DOMAIN sessions :
          /\ sessions[c].look \in Looks /\ sessions[c].lifecycle \in Lifecycles
          /\ sessions[c].generation \in Nat \ {0}
          /\ sessions[c].failures \in FailureState
          /\ sessions[c].outcome \in 0..MaxSequence
    BY <2>1 DEF PolicyOK, SessionType
  <2>6. /\ closing \in BOOLEAN /\ controls \in BOOLEAN /\ sequence \in 0..MaxSequence
        /\ chain \in [Chains -> ChainType] /\ current \in Chains \cup {Nobody}
        /\ DOMAIN sessions \subseteq Chains
    BY <2>1 DEF PolicyOK
  <2>7. pc \in [Threads -> Pcs]
    BY <2>1 DEF Typing
  <2> QED
    BY <2>1, <2>2, <2>3, <2>4, <2>5, <2>6, <2>7 DEF TypeOK
<1> QED
  BY <1>1, Inductive, PTL

\* A retirement that a call deferred because another thread had the lane is
\* delivered by the time all calls have returned: the caller that lost looks
\* again after it enqueued, the holder looks again after it released.
THEOREM RetirementsDelivered == Spec => []RetirementsAreDelivered
<1>1. IInv => RetirementsAreDelivered
  BY QuietIsDrained DEF IInv
<1> QED
  BY <1>1, Inductive, PTL

\* Input that is still captured when all calls have returned belongs to a
\* session that no retirement has covered, in whatever order the retirements
\* and the recorded frames reached the overlay's state.
THEOREM CaptureIsLive == Spec => []CaptureHasALiveSession
<1>1. IInv => CaptureHasALiveSession
  <2> SUFFICES ASSUME IInv, Quiet, target = "active", capture
               PROVE  /\ active_session # NoSession
                      /\ ~IsRetiredBy(active_session, LastRetirement(active_session.id))
    BY DEF CaptureHasALiveSession, LastRetirement
  <2>1. Typing /\ CaptureIsAccounted /\ pending = {}
    BY QuietIsDrained DEF IInv, RetirementsAreDelivered
  <2>2. \A t \in Threads : pc[t] # "record" /\ frame[t].retire = {}
    BY <2>1 DEF Quiet, Typing, FrameOK, Invocation
  <2>3. InFlight = {}
    BY <2>1, <2>2 DEF InFlight
  <2>4. /\ active_session.id \in Chains
        /\ ~IsRetiredBy(active_session, LastRetirement(active_session.id))
    BY <2>1, <2>2, <2>3 DEF CaptureIsAccounted
  <2> QED
    BY <2>4, NobodyIsNobody DEF NoSession, Identity
<1> QED
  BY <1>1, Inductive, PTL

\* deactivate of the overlay's target leaves no session behind, although
\* a frame may be between its render and its record_success.
THEOREM DeactivatedIsForgotten == Spec => []DeactivatedHoldsNoSession
<1>1. IInv => DeactivatedHoldsNoSession
  BY DEF IInv
<1> QED
  BY <1>1, Inductive, PTL

\* record_frame_outcome, which comes after the policy lock was given up and
\* taken again, charges a failure to the generation that was rendered.
THEOREM FailuresOfGeneration == Spec => []FailuresBelongToGeneration
<1>1. IInv => FailuresBelongToGeneration
  BY DEF IInv
<1> QED
  BY <1>1, Inductive, PTL

\* The affinity registry counts the leases that threads hold: an epoch's owner
\* is the thread whose native state was built under it.
THEOREM LeasesMatch == Spec => []LeasesMatchStates
<1>1. IInv => LeasesMatchStates
  BY EpochsAreLeased DEF IInv, OverlayOK, LeasesMatchStates
<1> QED
  BY <1>1, Inductive, PTL
=============================================================================
