--------------------------- MODULE OverlayAdapter ----------------------------
(****************************************************************************)
(* nexus-overlay/src/adapter.rs with affinity.rs and the WindowTarget of    *)
(* message_queue.rs: who owns the native state of a rendered swap chain,    *)
(* which session holds the game's input, and how both are given up.         *)
(*                                                                          *)
(* Its callbacks are operators that DxgiFrames' steps conjoin.  Rendering,  *)
(* from the affinity claim to the guard's drop, is one step: while the      *)
(* guard lives, nobody else can claim, and only the owner's own thread      *)
(* reaches its native state.                                                *)
(****************************************************************************)
EXTENDS Naturals, FiniteSets

CONSTANTS
    Chains, Threads, Nobody,
    Intents             \* capture_intent: whether the UI may want the game's input

ASSUME IntentsAreBoolean == Intents \subseteq BOOLEAN
ASSUME NobodyIsNobody == Nobody \notin Chains \cup Threads

VARIABLES
    target,         \* WindowTarget: "active", being deactivated ("stopping"), "stopped"
    capture,        \* capture_mouse or capture_keyboard
    active_session, \* OverlayAdapter::active_session
    thread_state,   \* THREAD_STATES: the native state of each thread
    affinity        \* OverlayAdapter::affinities

overlay == <<target, capture, active_session, thread_state, affinity>>

Identity(id, generation, sequence) ==
    [id |-> id, generation |-> generation, sequence |-> sequence]
NoSession == Identity(Nobody, 0, 0)
NoState == [identity |-> NoSession, token |-> 0]
Unclaimed == [owner |-> Nobody, token |-> 0, leases |-> 0, next |-> 0,
              latest |-> [generation |-> 0, sequence |-> 0]]

IdentityType == [id : Chains \cup {Nobody}, generation : Nat, sequence : Nat]

OverlayTypeOK ==
    /\ target \in {"active", "stopping", "stopped"}
    /\ capture \in BOOLEAN
    /\ active_session \in IdentityType
    /\ thread_state \in [Threads -> [identity : IdentityType, token : Nat]]
    /\ affinity \in [Chains -> [owner : Threads \cup {Nobody}, token : Nat, leases : Nat,
                                next : Nat, latest : [generation : Nat, sequence : Nat]]]

OverlayInit ==
    /\ target = "active"
    /\ capture = FALSE
    /\ active_session = NoSession
    /\ thread_state = [t \in Threads |-> NoState]
    /\ affinity = [c \in Chains |-> Unclaimed]

\* RenderSessionIdentity::is_retired_by.
IsRetiredBy(identity, retirement) ==
    /\ identity.id = retirement.id
    /\ identity.generation <= retirement.generation
    /\ identity.sequence <= retirement.sequence

----------------------------------------------------------------------------
(* ThreadAffinity *)

\* AffinityProof::is_strictly_after the latest proof.
IsFresh(identity) ==
    LET latest == affinity[identity.id].latest IN
    identity.generation >= latest.generation /\ identity.sequence > latest.sequence

\* begin_present_claim and commit_guarded: the owner's epoch gains a lease, and
\* another thread's dormant epoch is replaced by a new one.
Claimed(a, t, identity) ==
    LET latest == [generation |-> identity.generation, sequence |-> identity.sequence] IN
    IF a.owner = t
    THEN [a EXCEPT !.leases = @ + 1, !.latest = latest]
    ELSE [owner |-> t, token |-> a.next + 1, leases |-> 1, next |-> a.next + 1,
          latest |-> latest]

\* Bug: a lease is given back to whatever epoch there is.
ReleasedUnfiltered(a, t, token) ==
    CASE a.leases > 1 -> [a EXCEPT !.leases = @ - 1]
      [] a.leases = 1 -> [a EXCEPT !.leases = 0, !.owner = Nobody, !.token = 0]
      [] OTHER -> a

\* release_lease and clear_released_owner: only the lease's own epoch notices.
Released(a, t, token) ==
    CASE a.owner # t \/ a.token # token -> a
      [] a.owner = t /\ a.token = token /\ a.leases > 1 -> [a EXCEPT !.leases = @ - 1]
      [] OTHER -> [a EXCEPT !.leases = 0, !.owner = Nobody, !.token = 0]

\* The native state of t is dropped, and its lease with it.
ReleaseState(affinities, t) ==
    LET s == thread_state[t] IN
    IF s = NoState
    THEN affinities
    ELSE [affinities EXCEPT ![s.identity.id] = Released(@, t, s.token)]

----------------------------------------------------------------------------
(* OverlayRenderer *)

\* ensure_target_active, which an inactive target's capture does not survive, and
\* the refusal of a stale proof.
RenderRefused(identity) ==
    /\ target # "active" \/ ~IsFresh(identity)
    /\ capture' = (capture /\ target = "active")
    /\ UNCHANGED <<target, active_session, thread_state, affinity>>

\* render_owned up to record_render_success.  New state is published only after
\* it rendered; state that is kept renews its lease.
RenderSucceeds(t, identity) ==
    LET a == Claimed(affinity[identity.id], t, identity) IN
    /\ target = "active" /\ IsFresh(identity)
    /\ affinity' = ReleaseState([affinity EXCEPT ![identity.id] = a], t)
    /\ thread_state' = [thread_state EXCEPT ![t] = [identity |-> identity, token |-> a.token]]
    /\ capture' \in Intents
    /\ UNCHANGED <<target, active_session>>

\* The target is inactive or the proof is stale; or, also when the target is
\* deactivated meanwhile, a failure.  Kept state stays then, with or without its
\* capture; replaced state is gone before the attachment that fails, and so is
\* the capture.
RenderFails(t, identity) ==
    LET s == thread_state[t]
        a == Claimed(affinity[identity.id], t, identity)
        kept == /\ s.identity.id = identity.id
                /\ s.identity.generation = identity.generation
                /\ s.token = a.token
        released == ReleaseState([affinity EXCEPT ![identity.id] = a], t)
    IN
    \/ RenderRefused(identity)
    \/ /\ IsFresh(identity) /\ kept
       /\ affinity' = released
       /\ thread_state' = [thread_state EXCEPT ![t].identity = identity]
       /\ capture' \in {capture, FALSE}
       /\ UNCHANGED <<target, active_session>>
    \/ /\ IsFresh(identity) /\ ~kept
       /\ affinity' = [released EXCEPT ![identity.id] = Released(@, t, a.token)]
       /\ thread_state' = [thread_state EXCEPT ![t] = NoState]
       /\ capture' = FALSE
       /\ UNCHANGED <<target, active_session>>

\* Bug: a session is recorded whether or not the target is still active.
RecordRenderSuccessAlways(identity) ==
    /\ active_session' = IF identity.sequence > active_session.sequence
                         THEN identity ELSE active_session
    /\ UNCHANGED <<target, capture, thread_state, affinity>>

\* record_render_success: asks again, under the lock that deactivation needs.
RecordRenderSuccess(identity) ==
    /\ active_session' = IF target = "active" /\ identity.sequence > active_session.sequence
                         THEN identity ELSE active_session
    /\ UNCHANGED <<target, capture, thread_state, affinity>>

\* Bug: a session that was last rendered by the retired Present is spared.
RetireOlder(t, retirements) ==
    LET older(i) == \E r \in retirements : IsRetiredBy(i, r) /\ i.sequence < r.sequence IN
    /\ active_session' = IF older(active_session) THEN NoSession ELSE active_session
    /\ capture' = (capture /\ ~older(active_session))
    /\ IF older(thread_state[t].identity)
       THEN /\ affinity' = ReleaseState(affinity, t)
            /\ thread_state' = [thread_state EXCEPT ![t] = NoState]
       ELSE UNCHANGED <<affinity, thread_state>>
    /\ UNCHANGED target

\* retire_swap_chain, for one retirement after the other.
Retire(t, retirements) ==
    LET retired(i) == \E r \in retirements : IsRetiredBy(i, r) IN
    /\ active_session' = IF retired(active_session) THEN NoSession ELSE active_session
    /\ capture' = (capture /\ ~retired(active_session))
    /\ IF retired(thread_state[t].identity)
       THEN /\ affinity' = ReleaseState(affinity, t)
            /\ thread_state' = [thread_state EXCEPT ![t] = NoState]
       ELSE UNCHANGED <<affinity, thread_state>>
    /\ UNCHANGED target

----------------------------------------------------------------------------
\* deactivate: the target first, then the active session.
DeactivateTarget ==
    /\ target = "active"
    /\ target' = "stopping"
    /\ capture' = FALSE
    /\ UNCHANGED <<active_session, thread_state, affinity>>

ForgetSession ==
    /\ target = "stopping"
    /\ target' = "stopped"
    /\ active_session' = NoSession
    /\ UNCHANGED <<capture, thread_state, affinity>>

\* The window procedure on the owner's thread: the window is destroyed, or the
\* target was found inactive.
DropThreadState(t) ==
    /\ thread_state[t] # NoState
    /\ affinity' = ReleaseState(affinity, t)
    /\ thread_state' = [thread_state EXCEPT ![t] = NoState]
    /\ UNCHANGED <<target, capture, active_session>>
=============================================================================
