------------------------------ MODULE AddonHost ------------------------------
(****************************************************************************)
(* nexus-host/src/host.rs and nexus-core/src/address_ownership.rs: the      *)
(* registry of addon generations with their callback gates, and the index   *)
(* of mapped modules.  The operations are actions on the variables below;   *)
(* AddonManager.tla composes them with the loader and the directory.        *)
(*                                                                          *)
(* A gate is CallbackGate.tla at the level its users see: a call is counted *)
(* between fetch_add and fetch_sub, which a refused call does too.          *)
(****************************************************************************)
EXTENDS Naturals, FiniteSets

CONSTANTS
    Signatures,     \* addon signatures
    FlagSets,       \* the flags a definition may carry, as sets of Flags
    MaxGeneration,  \* where the generation counter is exhausted
    Calls,          \* dispatches that may call into addons at one time
    None

Flags == {"DISABLE_HOT_LOADING", "LAUNCH_ONLY"}

ASSUME FlagSetsAreSets == FlagSets \subseteq SUBSET Flags
ASSUME MaxGenerationIsNat == MaxGeneration \in Nat

Owners == [signature : Signatures, generation : 1..MaxGeneration]
ASSUME NoneIsNoOwner == None \notin Owners
ASSUME CallsFinite == IsFiniteSet(Calls)

VARIABLES
    flags,                  \* the flags in each addon's definition
    records,                \* AddonHost: state of each generation's record
    cleanup_cursor,         \* AddonHost: cleanup phases completed
    active_by_signature,    \* AddonHost
    last_generation,        \* AddonHost
    closed_gates,           \* owners whose CallbackGate is closed
    call,                   \* what each dispatch does at a gate
    ownership,              \* AddressOwnershipIndex: owners mapped, accepting or not
    registered,             \* owners with a callback in a registry that refuses
                            \* cleaned-up owners: EventBus, UiHost
    tombstones,             \* owners those registries refuse
    unfenced,               \* owners with a callback in one that refuses nobody:
                            \* window procedures, binds, textures, fonts
    swept                   \* owners those registries were cleaned of

hostRecords == <<records, cleanup_cursor, active_by_signature, last_generation>>
registrations == <<registered, tombstones, unfenced, swept>>
hostVars == <<flags, hostRecords, closed_gates, call, ownership, registrations>>

RecordStates == {"None", "Discovered", "Loaded", "UnloadRequested", "Draining",
                 "Unloaded", "Failed"}
Places == {"out", "holding", "invited", "counted", "inside"}

\* Each generation has one record, one cleanup cursor and one gate.
HostTypeOK ==
    /\ flags \in [Signatures -> FlagSets]
    /\ records \in [Owners -> RecordStates]
    /\ cleanup_cursor \in [Owners -> 0..3]
    /\ active_by_signature \in [Signatures -> Owners \cup {None}]
    /\ last_generation \in [Signatures -> 0..MaxGeneration]
    /\ closed_gates \in SUBSET Owners
    /\ call \in [Calls -> [owner : Owners \cup {None}, at : Places]]
    /\ ownership \in [Owners -> {"absent", "accepting", "closed"}]
    /\ registered \in SUBSET Owners
    /\ tombstones \in SUBSET Owners
    /\ unfenced \in SUBSET Owners
    /\ swept \in SUBSET Owners

HostInit ==
    /\ flags \in [Signatures -> FlagSets]
    /\ records = [o \in Owners |-> "None"]
    /\ cleanup_cursor = [o \in Owners |-> 0]
    /\ active_by_signature = [g \in Signatures |-> None]
    /\ last_generation = [g \in Signatures |-> 0]
    /\ closed_gates = {}
    /\ call = [c \in Calls |-> [owner |-> None, at |-> "out"]]
    /\ ownership = [o \in Owners |-> "absent"]
    /\ registered = {}
    /\ tombstones = {}
    /\ unfenced = {}
    /\ swept = {}

----------------------------------------------------------------------------
(* discover and the acknowledgements; the gates they close are in the name  *)

NextToken(g) == [signature |-> g, generation |-> last_generation[g] + 1]

\* Bug: the generation counter is not checked.
DiscoverUnbounded(g, request) ==
    \/ active_by_signature[g] # None
    \/ request = "HotReload" /\ flags[g] # {}

DiscoverRefused(g, request) ==
    \/ active_by_signature[g] # None
    \/ request = "HotReload" /\ flags[g] # {}
    \/ last_generation[g] = MaxGeneration

\* Bug: the counter is kept.
KeepGeneration(g) ==
    last_generation' = [last_generation EXCEPT ![g] = @]

BumpGeneration(g) ==
    last_generation' = [last_generation EXCEPT ![g] = @ + 1]

Discover(g) ==
    /\ BumpGeneration(g)
    /\ active_by_signature' = [active_by_signature EXCEPT ![g] = NextToken(g)]
    /\ records' = [records EXCEPT ![NextToken(g)] = "Discovered"]
    /\ UNCHANGED cleanup_cursor

\* discover followed by cancel_discovery: the generation is used up.
DiscoverAndCancel(g) ==
    /\ BumpGeneration(g)
    /\ UNCHANGED <<records, cleanup_cursor, active_by_signature>>

SetRecord(o, state) == records' = [records EXCEPT ![o] = state]

Unclaim(o) ==
    active_by_signature' = [active_by_signature EXCEPT
        ![o.signature] = IF @ = o THEN None ELSE @]

AcknowledgeLoaded(o) ==
    /\ records[o] = "Discovered"
    /\ SetRecord(o, "Loaded")
    /\ UNCHANGED <<cleanup_cursor, active_by_signature, last_generation>>

\* Closes the gate of o.
RequestUnloadOf(o, reason) ==
    /\ records[o] = "Loaded"
    /\ ~(reason = "Runtime" /\ "DISABLE_HOT_LOADING" \in flags[o.signature])
    /\ SetRecord(o, "UnloadRequested")
    /\ UNCHANGED <<cleanup_cursor, active_by_signature, last_generation>>

\* Bug: the signature is given up, the record is left as it was.
ActivationFailureUnrecorded(o) ==
    /\ records[o] = "Discovered"
    /\ Unclaim(o)
    /\ UNCHANGED <<records, cleanup_cursor, last_generation>>

\* Closes the gate of o.
AcknowledgeActivationFailed(o) ==
    /\ records[o] = "Discovered"
    /\ SetRecord(o, "Failed")
    /\ Unclaim(o)
    /\ UNCHANGED <<cleanup_cursor, last_generation>>

\* CallbackGate::in_flight of the generation's gate.
InFlight(o) ==
    Cardinality({c \in Calls : call[c].owner = o /\ call[c].at \in {"counted", "inside"}})

ReleaseRefused(o) ==
    \/ records[o] # "Draining"
    \/ cleanup_cursor[o] # 3
    \/ InFlight(o) # 0

AcknowledgeModuleReleased(o) ==
    /\ ~ReleaseRefused(o)
    /\ SetRecord(o, "Unloaded")
    /\ Unclaim(o)
    /\ UNCHANGED <<cleanup_cursor, last_generation>>

----------------------------------------------------------------------------
(* Cleanup: the second phase removes the callback registrations             *)

\* Bug: cleaned without refusing what comes later, or refused but not cleaned.
CleanWithoutTombstone(o) ==
    /\ registered' = registered \ {o}
    /\ UNCHANGED tombstones
TombstoneWithoutClean(o) ==
    /\ tombstones' = tombstones \cup {o}
    /\ UNCHANGED registered

\* remove_owner of the event bus and of UiHost.
CleanForGood(o) ==
    /\ registered' = registered \ {o}
    /\ tombstones' = tombstones \cup {o}

\* The other registries drop what they hold.  RegistrationCleaner skips them
\* when the phase is run again, whatever was registered in the meantime.
SweepOnce(o) ==
    /\ unfenced' = IF o \in swept THEN unfenced ELSE unfenced \ {o}
    /\ swept' = swept \cup {o}

CleanPhaseSucceeds(o, phase) ==
    IF phase = 1 THEN CleanForGood(o) /\ SweepOnce(o) ELSE UNCHANGED registrations

\* Every service of a failed phase may have done its work, or not.
CleanPhaseFails(o, phase) ==
    IF phase = 1
    THEN /\ CleanForGood(o) \/ UNCHANGED <<registered, tombstones>>
         /\ SweepOnce(o) \/ UNCHANGED <<unfenced, swept>>
    ELSE UNCHANGED registrations

----------------------------------------------------------------------------
(* AddressOwnershipIndex.  Closing also closes the generation's gate.       *)

\* Bug: only generations that accept calls are in the way.
PublishBesideClosed(o) ==
    \E other \in Owners \ {o} :
        other.signature = o.signature /\ ownership[other] = "accepting"

PublishRefused(o) ==
    \E other \in Owners \ {o} :
        other.signature = o.signature /\ ownership[other] # "absent"

Publish(o) == ownership' = [ownership EXCEPT ![o] = "accepting"]

CloseOwnership(o) ==
    ownership' = [ownership EXCEPT ![o] = IF @ = "absent" THEN @ ELSE "closed"]

GatesClosedWith(o) == IF ownership[o] = "absent" THEN {} ELSE {o}

\* Bug: a closed range is not found.
RetireAccepting(o) ==
    ownership' = [ownership EXCEPT ![o] = IF @ = "accepting" THEN "absent" ELSE @]

Retire(o) == ownership' = [ownership EXCEPT ![o] = "absent"]

----------------------------------------------------------------------------
(* A dispatch in the host calls an addon's registered callback              *)

MoveCall(c, o, place) ==
    /\ call' = [call EXCEPT ![c] = [owner |-> o, at |-> place]]
    /\ UNCHANGED <<flags, hostRecords, closed_gates, ownership, registrations>>

HoldCallback(c, o) ==
    /\ call[c].at = "out"
    /\ o \in registered \cup unfenced
    /\ MoveCall(c, o, "holding")

LoadGate(c) ==
    /\ call[c].at = "holding"
    /\ IF call[c].owner \in closed_gates
       THEN MoveCall(c, None, "out")
       ELSE MoveCall(c, call[c].owner, "invited")

CountCall(c) ==
    /\ call[c].at = "invited"
    /\ MoveCall(c, call[c].owner, "counted")

RecheckGate(c) ==
    /\ call[c].at = "counted"
    /\ IF call[c].owner \in closed_gates
       THEN MoveCall(c, None, "out")
       ELSE MoveCall(c, call[c].owner, "inside")

ReturnFromCallback(c) ==
    /\ call[c].at = "inside"
    /\ MoveCall(c, None, "out")

DispatchStep ==
    \E c \in Calls :
        \/ \E o \in Owners : HoldCallback(c, o)
        \/ LoadGate(c) \/ CountCall(c) \/ RecheckGate(c) \/ ReturnFromCallback(c)
=============================================================================
