---------------------------- MODULE AdmissionGate ----------------------------
(****************************************************************************)
(* What an admission gate promises to the code that unloads a module: calls *)
(* are admitted while the gate is open, a closed gate admits nobody, and    *)
(* once a drain has been reported on a closed gate nobody is inside and     *)
(* nobody ever will be.  CallbackGate.tla implements it, and the addon life *)
(* cycle relies on it when it frees a module.                               *)
(****************************************************************************)

CONSTANT Calls      \* activations of native code that may pass the gate

VARIABLES
    open,           \* the gate admits calls
    inside,         \* the calls that hold an admission
    drained         \* a drain of the closed gate has been reported

vars == <<open, inside, drained>>

\* Only calls are inside.
TypeOK ==
    /\ open \in BOOLEAN
    /\ inside \in SUBSET Calls
    /\ drained \in BOOLEAN

Init ==
    /\ open = TRUE
    /\ inside = {}
    /\ drained = FALSE

Enter(c) ==
    /\ open
    /\ c \notin inside
    /\ inside' = inside \cup {c}
    /\ UNCHANGED <<open, drained>>

Leave(c) ==
    /\ c \in inside
    /\ inside' = inside \ {c}
    /\ UNCHANGED <<open, drained>>

Close ==
    /\ open' = FALSE
    /\ UNCHANGED <<inside, drained>>

ReportDrained ==
    /\ ~open
    /\ inside = {}
    /\ drained' = TRUE
    /\ UNCHANGED <<open, inside>>

Next ==
    \/ \E c \in Calls : Enter(c) \/ Leave(c)
    \/ Close
    \/ ReportDrained

Spec == Init /\ [][Next]_vars

----------------------------------------------------------------------------
\* Once a drain has been reported the module behind the gate may be freed:
\* no call is inside and the gate is closed (CallbackGate::wait_for_drain).
DrainedIsSilent == drained => ~open /\ inside = {}
=============================================================================
