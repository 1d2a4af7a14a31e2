---------------------------- MODULE RenderSession ----------------------------
(****************************************************************************)
(* nexus-render/src/session.rs and safety.rs: the sessions of the observed  *)
(* swap chains and the failure budget of each generation, as operators on   *)
(* their state.  A look is all that generation_changes compares (window,    *)
(* device, adapter, size, format, colour space); of the render stages, the  *)
(* one the controls allow is kept.                                          *)
(****************************************************************************)
EXTENDS Naturals

CONSTANTS
    FailuresBeforeCooldown, CooldownSequences, CooldownsBeforeDisable

ASSUME FailurePolicy ==
    /\ FailuresBeforeCooldown \in Nat \ {0}
    /\ CooldownSequences \in Nat
    /\ CooldownsBeforeDisable \in Nat \ {0}

FailureState == [failures : Nat, cooldowns : Nat,
                 status : {"healthy", "cooling", "disabled"}, retryAt : Nat]

\* FailureController::new, and a stage without a record.
NoFailures == [failures |-> 0, cooldowns |-> 0, status |-> "healthy", retryAt |-> 0]

\* FailureController::permission: the answer, and what asking does to the record.
Permits(f, sequence) ==
    f.status = "healthy" \/ (f.status = "cooling" /\ sequence >= f.retryAt)

AfterPermission(f, sequence) ==
    IF f.status = "cooling" /\ Permits(f, sequence)
    THEN [NoFailures EXCEPT !.cooldowns = f.cooldowns]
    ELSE f

\* A suppressed failure is ignored; enough of them start a cooldown, and enough
\* cooldowns disable the stage.
RecordFailure(f, sequence) ==
    LET failures == 1 + (IF f.status = "cooling" THEN 0 ELSE f.failures)
        cooldowns == f.cooldowns + 1
    IN  CASE ~Permits(f, sequence) -> f
          [] Permits(f, sequence) /\ failures < FailuresBeforeCooldown ->
                [NoFailures EXCEPT !.failures = failures, !.cooldowns = f.cooldowns]
          [] OTHER ->
                IF cooldowns >= CooldownsBeforeDisable
                THEN [NoFailures EXCEPT !.cooldowns = cooldowns, !.status = "disabled"]
                ELSE [NoFailures EXCEPT !.cooldowns = cooldowns, !.status = "cooling",
                                        !.retryAt = sequence + CooldownSequences]

----------------------------------------------------------------------------
Lifecycles == {"Candidate", "Primary", "Retired"}

\* latest_outcome_sequences has no entry: 0, below every Present's sequence.
NewSession(look, lifecycle, generation) ==
    [look |-> look, generation |-> generation, lifecycle |-> lifecycle,
     failures |-> NoFailures, outcome |-> 0]

\* Only an outcome newer than every earlier one of the generation counts.
RecordOutcome(session, sequence, succeeded) ==
    IF sequence <= session.outcome
    THEN session
    ELSE [session EXCEPT !.outcome = sequence,
                         !.failures = IF succeeded THEN NoFailures
                                                   ELSE RecordFailure(@, sequence)]

\* same_render_generation, and generation_changes being empty.
SameGeneration(session, look) == session.lifecycle # "Retired" /\ session.look = look

\* SwapChainRegistry::reconcile with all observations and the selected primary.
Reconcile(sessions, observed, primary) ==
    [id \in DOMAIN sessions \cup DOMAIN observed |->
        IF id \notin DOMAIN observed
        THEN [sessions[id] EXCEPT !.lifecycle = "Retired"]
        ELSE LET lifecycle == IF id = primary THEN "Primary" ELSE "Candidate" IN
             IF id \notin DOMAIN sessions
             THEN NewSession(observed[id], lifecycle, 1)
             ELSE IF SameGeneration(sessions[id], observed[id])
                  THEN [sessions[id] EXCEPT !.lifecycle = lifecycle]
                  ELSE NewSession(observed[id], lifecycle, sessions[id].generation + 1)]

\* renderable_observations: a generation whose budget is spent is no candidate.
Renderable(sessions, observed, sequence) ==
    {id \in DOMAIN observed :
        \/ id \notin DOMAIN sessions
        \/ ~SameGeneration(sessions[id], observed[id])
        \/ Permits(sessions[id].failures, sequence)}
=============================================================================
