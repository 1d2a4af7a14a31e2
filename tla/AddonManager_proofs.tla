------------------------- MODULE AddonManager_proofs -------------------------
(****************************************************************************)
(* The manager with any paths, signatures and generations and any finite    *)
(* number of dispatches, as long as its callers use the tokens they were    *)
(* given last (~StaleTokens).                                               *)
(****************************************************************************)
EXTENDS AddonManager, FiniteSetTheorems, TLAPS

Resting == {"Untracked", "Discovered", "PolicyBlocked", "Unloaded", "Removed"}
Quiesced == {"CallbacksQuiesced", "UnloadCallbackComplete", "HostCleanupComplete",
             "ReleaseUncertain"}

\* The modules an entry may hold in each of its states, with an owner.
ModulesOf(state) ==
    CASE state = "Inspected" -> {"Inspected"}
      [] state = "Active" -> {"Active"}
      [] state = "UnloadRequested" -> {"ShutdownRequested"}
      [] state = "Draining" -> {"ShutdownRequested", "CallbacksQuiesced",
                                "UnloadCallbackComplete"}
      [] state = "Drained" -> {"CallbacksQuiesced"}
      [] state = "NativeUnloadComplete" -> {"UnloadCallbackComplete"}
      [] state = "ActivationFailed" -> {"ActivationFailed"}
      [] state = "ReleaseFailed" -> {"HostCleanupComplete", "ReleaseUncertain"}
      [] OTHER -> {}

\* An entry without an owner holds nothing, or a module that was rejected and
\* could not be released.
EntryOK(e) ==
    /\ e.owner # None => e.module \in ModulesOf(e.state)
    /\ e.owner = None => \/ e.state \in Resting /\ e.module = "None"
                         \/ /\ e.state = "ReleaseFailed"
                            /\ e.module \in {"Inspected", "ReleaseUncertain"}
    /\ e.release_return_state \in Resting \cup {None}
EntriesOK == \A p \in Paths : EntryOK(entries[p])

\* The generation is held by the entry of its path.
Placed(o) == owner_paths[o] # None /\ entries[owner_paths[o]].owner = o

\* What the host, the manager and the index know of a generation.
OwnersOK ==
    /\ \A p \in Paths : entries[p].owner # None => owner_paths[entries[p].owner] = p
    /\ \A p \in Paths : entries[p].owner # None =>
          records[entries[p].owner] \in RecordOf(entries[p].state)
    /\ \A o \in Owners : records[o] \in {"Discovered", "Loaded", "UnloadRequested"} => Placed(o)
    /\ \A o \in Owners : ownership[o] # "absent" <=> Placed(o)

\* Generations are taken in order and never again.
GenerationsOK ==
    \A o \in Owners :
        /\ owner_paths[o] # None <=> records[o] # "None"
        /\ records[o] # "None" => o.generation <= last_generation[o.signature]

OneIsPlaced ==
    \A a, b \in Owners : Placed(a) /\ Placed(b) /\ a.signature = b.signature => a = b

\* A generation on its way out is closed.
GatesOK ==
    \A o \in Owners : records[o] \notin {"None", "Discovered", "Loaded"} => o \in closed_gates

\* The registries that refuse cleaned-up owners have registrations of generations
\* that are held and were not yet cleaned; what has quiesced was.  The others may
\* have some of every generation there ever was.
RegistrationsOK ==
    /\ registered \cap tombstones = {}
    /\ \A o \in registered : Placed(o)
    /\ \A o \in unfenced : records[o] # "None"
    /\ \A o \in Owners : cleanup_cursor[o] >= 2 => o \in tombstones
    /\ \A p \in Paths :
          /\ entries[p].owner # None
          /\ entries[p].failed_cleanup_cursor >= 2 \/ entries[p].module \in Quiesced
          => entries[p].owner \in tombstones

\* A call that is inside its callback keeps its module from quiescing.
CallOK(c) ==
    /\ call[c].at # "out" => call[c].owner \in Owners /\ records[call[c].owner] # "None"
    /\ call[c].at = "inside" =>
          /\ Placed(call[c].owner)
          /\ entries[owner_paths[call[c].owner]].module \notin Quiesced
          /\ ~(busy.method = "drained" /\ busy.owner = call[c].owner)
CallsOK == \A c \in Calls : CallOK(c)

\* What the method in progress relies on.
StateIn(method) ==
    CASE method = "activate" -> "Inspected"
      [] method = "invoke_native_unload" -> "Drained"
      [] OTHER -> "Draining"
BusyOK ==
    ~Idle =>
        /\ busy.owner \in Owners /\ busy.path \in Paths
        /\ owner_paths[busy.owner] = busy.path
        /\ entries[busy.path].owner = busy.owner
        /\ entries[busy.path].state = StateIn(busy.method)
        /\ busy.method \in {"drain", "drained"} => records[busy.owner] = "Draining"
        /\ busy.method \in {"cleanup_drained", "cleanup_unload"} =>
              entries[busy.path].module = "CallbacksQuiesced"

\* The unload export has not been called before the entry says so, or a method
\* is about to let it.
Before(o) ==
    /\ Placed(o)
    /\ entries[owner_paths[o]].module \notin Quiesced \ {"CallbacksQuiesced"}
    /\ ~(busy.owner = o /\ busy.method \in {"invoke_native_unload", "cleanup_unload"})
UnloadsOK ==
    \A o \in Owners :
        /\ unload_calls[o] <= 1
        /\ records[o] = "None" \/ Before(o) => unload_calls[o] = 0

\* A launch-only signature has one generation, if any.
LaunchesOK ==
    /\ \A o \in load_calls : records[o] # "None"
    /\ \A a \in Owners : records[a] # "None" /\ "LAUNCH_ONLY" \in flags[a.signature] =>
          /\ a.signature \in launch_attempted
          /\ \A b \in Owners : records[b] # "None" /\ b.signature = a.signature => a = b

IInv ==
    /\ TypeOK
    /\ EntriesOK /\ OwnersOK /\ GenerationsOK /\ OneIsPlaced
    /\ GatesOK /\ RegistrationsOK
    /\ CallsOK /\ BusyOK
    /\ UnloadsOK /\ LaunchesOK
-----------------------------------------------------------------------------
(* What the tables of states say. *)

LEMMA ModuleTable ==
    /\ ModulesOf("Inspected") = {"Inspected"}
    /\ ModulesOf("Active") = {"Active"}
    /\ ModulesOf("UnloadRequested") = {"ShutdownRequested"}
    /\ ModulesOf("Draining") = {"ShutdownRequested", "CallbacksQuiesced",
                                "UnloadCallbackComplete"}
    /\ ModulesOf("Drained") = {"CallbacksQuiesced"}
    /\ ModulesOf("NativeUnloadComplete") = {"UnloadCallbackComplete"}
    /\ ModulesOf("ActivationFailed") = {"ActivationFailed"}
    /\ ModulesOf("ReleaseFailed") = {"HostCleanupComplete", "ReleaseUncertain"}
    /\ \A state \in Resting : ModulesOf(state) = {}
  BY DEF ModulesOf, Resting

LEMMA RecordTable ==
    /\ RecordOf("Inspected") = {"Discovered"}
    /\ RecordOf("Active") = {"Loaded"}
    /\ RecordOf("UnloadRequested") = {"UnloadRequested"}
    /\ RecordOf("Draining") = {"Draining", "Failed"}
    /\ RecordOf("Drained") = {"Draining"}
    /\ RecordOf("NativeUnloadComplete") = {"Draining"}
    /\ RecordOf("ActivationFailed") = {"Failed"}
    /\ RecordOf("ReleaseFailed") = {"Draining", "Failed"}
    /\ \A state \in Resting : RecordOf(state) = {}
  BY DEF RecordOf, Resting

LEMMA MethodTable ==
    /\ StateIn("activate") = "Inspected"
    /\ StateIn("invoke_native_unload") = "Drained"
    /\ \A method \in {"drain", "drained", "cleanup", "cleanup_drained", "cleanup_unload"} :
          StateIn(method) = "Draining"
  BY DEF StateIn

LEMMA StatesOfHeld ==
    States = Resting \cup {"Inspected", "Active", "UnloadRequested", "Draining", "Drained",
                           "NativeUnloadComplete", "ActivationFailed", "ReleaseFailed"}
  BY DEF States, Resting

\* An entry with an owner is in none of the states that have no record.
LEMMA NoOwnerAtRest ==
    ASSUME NEW e \in EntryType, EntryOK(e), e.owner # None
    PROVE  e.state \in States \ Resting /\ e.module # "None"
<1>1. e.state \in States
  BY DEF EntryType
<1>2. e.state \notin Resting
  BY ModuleTable DEF EntryOK
<1>3. e.module # "None"
  BY <1>1, <1>2, StatesOfHeld, ModuleTable DEF EntryOK
<1> QED
  BY <1>1, <1>2, <1>3

LEMMA RecordOfIsARecord ==
    ASSUME NEW state \in States
    PROVE  RecordOf(state) \subseteq RecordStates \ {"None", "Unloaded"}
  BY RecordTable, StatesOfHeld DEF RecordStates

\* What is known of a generation that is held.
LEMMA HeldFacts ==
    ASSUME IInv, NEW o \in Owners, Placed(o)
    PROVE  /\ owner_paths[o] \in Paths
           /\ entries[owner_paths[o]] \in EntryType
           /\ EntryOK(entries[owner_paths[o]])
           /\ entries[owner_paths[o]].owner = o /\ o # None
           /\ records[o] \in RecordOf(entries[owner_paths[o]].state)
           /\ records[o] # "None"
           /\ ownership[o] # "absent"
           /\ \A b \in Owners : Placed(b) /\ owner_paths[b] = owner_paths[o] => b = o
           /\ \A q \in Paths : entries[q].owner = o => q = owner_paths[o]
<1>1. owner_paths[o] \in Paths /\ entries[owner_paths[o]].owner = o /\ o # None
  BY NoneIsNoOwner DEF Placed, IInv, TypeOK
<1>2. entries[owner_paths[o]] \in EntryType /\ EntryOK(entries[owner_paths[o]])
  BY <1>1 DEF IInv, TypeOK, EntriesOK
<1>3. records[o] \in RecordOf(entries[owner_paths[o]].state)
  BY <1>1 DEF IInv, OwnersOK
<1>4. records[o] # "None"
  BY <1>2, <1>3, RecordOfIsARecord DEF EntryType
<1>5. ownership[o] # "absent"
  BY DEF IInv, OwnersOK
<1>6. \A b \in Owners : Placed(b) /\ owner_paths[b] = owner_paths[o] => b = o
  BY <1>1 DEF Placed
<1>7. \A q \in Paths : entries[q].owner = o => q = owner_paths[o]
  BY <1>1 DEF IInv, OwnersOK
<1> QED
  BY <1>1, <1>2, <1>3, <1>4, <1>5, <1>6, <1>7

\* A token that is not stale is that of the module its path holds.
LEMMA FreshToken ==
    ASSUME ~StaleTokens, NEW o \in Owners, HasPath(o)
    PROVE  Placed(o) /\ Entry(o) = entries[owner_paths[o]] /\ Entry(o).owner = o
  BY DEF HasPath, Placed, Entry

\* A token that was placed is in the entry of its path, or in none.
LEMMA BusyIsPlaced ==
    ASSUME IInv, ~Idle
    PROVE  /\ busy.owner \in Owners /\ busy.path = owner_paths[busy.owner]
           /\ Placed(busy.owner)
           /\ entries[busy.path].state = StateIn(busy.method)
<1>1. busy.owner \in Owners /\ busy.path \in Paths /\ busy.path = owner_paths[busy.owner]
  BY DEF IInv, BusyOK
<1>2. Placed(busy.owner)
  BY <1>1, NoneIsNoPath DEF IInv, BusyOK, Placed
<1> QED
  BY <1>1, <1>2 DEF IInv, BusyOK

\* Nobody is inside a callback of o.
Silent(o) == \A c \in Calls : ~(call[c].at = "inside" /\ call[c].owner = o)

LEMMA ZeroIsSilent ==
    ASSUME TypeOK, NEW o \in Owners, InFlight(o) = 0
    PROVE  Silent(o)
<1> DEFINE S == {c \in Calls : call[c].owner = o /\ call[c].at \in {"counted", "inside"}}
<1>1. IsFiniteSet(S)
  BY CallsFinite, FS_Subset
<1>2. S = {}
  BY <1>1, FS_EmptySet DEF InFlight
<1> QED
  BY <1>2 DEF Silent

\* Whoever is inside a callback keeps its module from quiescing.
LEMMA QuiescedIsSilent ==
    ASSUME IInv, NEW o \in Owners, Placed(o), entries[owner_paths[o]].module \in Quiesced
    PROVE  Silent(o) /\ o \in tombstones /\ o \notin registered
<1>1. Silent(o)
  BY DEF Silent, IInv, CallsOK, CallOK
<1>2. o \in tombstones
  BY HeldFacts DEF IInv, RegistrationsOK
<1> QED
  BY <1>1, <1>2 DEF IInv, RegistrationsOK
-----------------------------------------------------------------------------
(* The kinds of steps.  Each lemma takes what a step of the kind does and    *)
(* shows all of the invariant but the types and the method in progress.      *)

IRest ==
    /\ EntriesOK /\ OwnersOK /\ GenerationsOK /\ OneIsPlaced
    /\ GatesOK /\ RegistrationsOK
    /\ CallsOK
    /\ UnloadsOK /\ LaunchesOK

\* A step in the life of a generation that is held and stays held: e is what its
\* entry becomes.
KeepsHold(o, e) ==
    /\ Placed(o) /\ (Idle \/ busy.owner = o)
    /\ e \in EntryType /\ e.owner = o /\ EntryOK(e)
    /\ entries' = [entries EXCEPT ![owner_paths[o]] = e]
    /\ UNCHANGED <<flags, last_generation, owner_paths, launch_attempted, call>>

KeepsRecord(o, e) ==
    /\ \A b \in Owners \ {o} : records'[b] = records[b]
    /\ records'[o] \in RecordOf(e.state)
    /\ closed_gates \subseteq closed_gates'
    /\ records'[o] \in {"Discovered", "Loaded"} \/ o \in closed_gates'
    /\ \A b \in Owners : ownership'[b] # "absent" <=> ownership[b] # "absent"

KeepsRegistrations(o, e) ==
    /\ registered' \subseteq registered /\ tombstones \subseteq tombstones'
    /\ registered' \cap tombstones' = {} /\ unfenced' \subseteq unfenced
    /\ \A b \in Owners : cleanup_cursor'[b] >= 2 => b \in tombstones'
    /\ e.failed_cleanup_cursor >= 2 \/ e.module \in Quiesced => o \in tombstones'

KeepsCalls(o, e) ==
    /\ busy'.method = "drained" => busy'.owner = o
    /\ e.module \in Quiesced \/ busy'.method = "drained" => Silent(o)

\* The load and unload exports that were called.
KeepsExports(o, e) ==
    /\ load_calls' \subseteq load_calls \cup {o}
    /\ \A b \in Owners \ {o} : unload_calls'[b] = unload_calls[b]
    /\ unload_calls'[o] <= 1
    /\ \/ unload_calls'[o] = 0
       \/ e.module \in Quiesced \ {"CallbacksQuiesced"}
       \/ busy'.owner = o /\ busy'.method \in {"invoke_native_unload", "cleanup_unload"}

LEMMA HeldStep ==
    ASSUME IInv, NEW o \in Owners, NEW e, KeepsHold(o, e), KeepsRecord(o, e),
           KeepsRegistrations(o, e), KeepsCalls(o, e), KeepsExports(o, e)
    PROVE  IRest'
<1> DEFINE p == owner_paths[o]
<1>1. /\ p \in Paths /\ entries[p].owner = o /\ o # None
      /\ owner_paths' = owner_paths
      /\ entries'[p] = e /\ e.owner = o /\ EntryOK(e) /\ e \in EntryType
      /\ \A q \in Paths \ {p} : entries'[q] = entries[q]
  BY HeldFacts DEF KeepsHold, IInv, TypeOK
<1>2. \A b \in Owners : Placed(b)' <=> Placed(b)
  <2>1. \A b \in Owners : owner_paths[b] \in Paths \cup {None}
    BY DEF IInv, TypeOK
  <2> QED
    BY <1>1, <2>1 DEF Placed
<1>3. \A b \in Owners \ {o} :
          Placed(b) => owner_paths[b] # p /\ entries'[owner_paths[b]] = entries[owner_paths[b]]
  <2>1. \A b \in Owners : Placed(b) => owner_paths[b] \in Paths
    BY DEF IInv, TypeOK, Placed
  <2> QED
    BY <1>1, <2>1 DEF Placed
<1>4. Placed(o)
  BY DEF KeepsHold
<1>5. \A b \in Owners : records'[b] = "None" <=> records[b] = "None"
  <2>1. records'[o] # "None"
    BY <1>1, RecordOfIsARecord DEF KeepsRecord, EntryType
  <2>2. records[o] # "None"
    BY <1>4, HeldFacts
  <2> QED
    BY <2>1, <2>2 DEF KeepsRecord
<1>6. EntriesOK'
  <2>1. ASSUME NEW q \in Paths PROVE EntryOK(entries'[q])
    BY <1>1 DEF IInv, EntriesOK
  <2> QED
    BY <2>1 DEF EntriesOK, EntryOK
<1>7. OwnersOK'
  <2>1. ASSUME NEW q \in Paths, entries'[q].owner # None
        PROVE  /\ owner_paths'[entries'[q].owner] = q
               /\ records'[entries'[q].owner] \in RecordOf(entries'[q].state)
    <3>1. CASE q = p
      BY <1>1, <3>1 DEF KeepsRecord
    <3>2. CASE q # p
      <4>1. entries'[q] = entries[q] /\ entries[q].owner \in Owners \ {o}
        BY <1>1, <1>4, <2>1, <3>2, HeldFacts DEF IInv, TypeOK, EntryType
      <4> QED
        BY <1>1, <4>1, <2>1 DEF IInv, OwnersOK, KeepsRecord
    <3> QED
      BY <3>1, <3>2
  <2>2. ASSUME NEW b \in Owners, records'[b] \in {"Discovered", "Loaded", "UnloadRequested"}
        PROVE  Placed(b)'
    BY <1>2, <1>4, <2>2 DEF IInv, OwnersOK, KeepsRecord
  <2>3. ASSUME NEW b \in Owners PROVE ownership'[b] # "absent" <=> Placed(b)'
    BY <1>2 DEF IInv, OwnersOK, KeepsRecord
  <2>4. \A state : RecordOf(state)' = RecordOf(state)
    BY DEF RecordOf
  <2> QED
    BY <2>1, <2>2, <2>3, <2>4 DEF OwnersOK
<1>8. GenerationsOK'
  BY <1>1, <1>5 DEF IInv, GenerationsOK, KeepsHold
<1>9. OneIsPlaced'
  BY <1>2 DEF IInv, OneIsPlaced
<1>10. GatesOK'
  BY DEF IInv, GatesOK, KeepsRecord
<1>11. RegistrationsOK'
  <2>1. ASSUME NEW q \in Paths, entries'[q].owner # None,
               entries'[q].failed_cleanup_cursor >= 2 \/ entries'[q].module \in Quiesced
        PROVE  entries'[q].owner \in tombstones'
    BY <1>1, <2>1 DEF IInv, RegistrationsOK, KeepsRegistrations
  <2>2. ASSUME NEW b \in registered' PROVE Placed(b)'
    BY <1>2 DEF IInv, RegistrationsOK, KeepsRegistrations, TypeOK, HostTypeOK
  <2>3. ASSUME NEW b \in unfenced' PROVE records'[b] # "None"
    BY <1>5, <2>3 DEF IInv, RegistrationsOK, KeepsRegistrations, TypeOK, HostTypeOK
  <2> QED
    BY <2>1, <2>2, <2>3 DEF RegistrationsOK, KeepsRegistrations
<1>12. CallsOK'
  <2> SUFFICES ASSUME NEW c \in Calls PROVE CallOK(c)'
    BY DEF CallsOK
  <2>1. CallOK(c) /\ call' = call
    BY DEF IInv, CallsOK, KeepsHold
  <2>2. call[c].at # "out" => call[c].owner \in Owners /\ records'[call[c].owner] # "None"
    BY <1>5, <2>1 DEF CallOK
  <2>3. CASE call[c].at = "inside"
    <3>1. Placed(call[c].owner) /\ call[c].owner \in Owners
      BY <2>1, <2>3 DEF CallOK
    <3>2. CASE call[c].owner = o
      BY <1>1, <1>2, <2>1, <2>2, <2>3, <3>1, <3>2 DEF CallOK, KeepsCalls, Silent
    <3>3. CASE call[c].owner # o
      BY <1>1, <1>2, <1>3, <2>1, <2>2, <2>3, <3>1, <3>3 DEF CallOK, KeepsCalls
    <3> QED
      BY <3>2, <3>3
  <2> QED
    BY <2>1, <2>2, <2>3 DEF CallOK
<1>13. UnloadsOK'
  <2> SUFFICES ASSUME NEW b \in Owners
               PROVE  /\ unload_calls'[b] <= 1
                      /\ records'[b] = "None" \/ Before(b)' => unload_calls'[b] = 0
    BY DEF UnloadsOK
  <2>1. CASE b = o
    <3>1. records'[o] # "None"
      BY <1>4, <1>5, HeldFacts
    <3>2. Before(o)' => unload_calls'[o] = 0
      BY <1>1 DEF Before, KeepsExports
    <3> QED
      BY <2>1, <3>1, <3>2 DEF KeepsExports
  <2>2. CASE b # o
    <3>1. Before(b)' => Before(b)
      <4> SUFFICES ASSUME Before(b)' PROVE Before(b)
        OBVIOUS
      <4>1. Placed(b) /\ entries'[owner_paths'[b]] = entries[owner_paths[b]]
        BY <1>1, <1>2, <1>3, <2>2 DEF Before
      <4>2. ~(busy.owner = b /\ busy.method \in {"invoke_native_unload", "cleanup_unload"})
        BY <2>2 DEF KeepsHold, Idle
      <4> QED
        BY <4>1, <4>2 DEF Before
    <3> QED
      BY <1>5, <2>2, <3>1 DEF IInv, UnloadsOK, KeepsExports
  <2> QED
    BY <2>1, <2>2
<1>14. LaunchesOK'
  <2>1. \A b \in load_calls' : records'[b] # "None"
    <3>1. records[o] # "None"
      BY <1>4, HeldFacts
    <3> QED
      BY <1>5, <3>1 DEF IInv, LaunchesOK, KeepsExports, TypeOK
  <2> QED
    BY <1>5, <2>1 DEF IInv, LaunchesOK, KeepsHold
<1> QED
  BY <1>6, <1>7, <1>8, <1>9, <1>10, <1>11, <1>12, <1>13, <1>14 DEF IRest

\* A step that gives the module of o up: e is what its entry becomes.
LetsGo(o, e) ==
    /\ Placed(o) /\ (Idle \/ busy.owner = o)
    /\ entries[owner_paths[o]].module \in Quiesced
    /\ e \in EntryType /\ e.owner = None /\ EntryOK(e)
    /\ entries' = [entries EXCEPT ![owner_paths[o]] = e]
    /\ \A b \in Owners \ {o} : records'[b] = records[b]
    /\ records'[o] \in {records[o], "Unloaded"}
    /\ ownership' = [ownership EXCEPT ![o] = "absent"]
    /\ busy'.method = "none"
    /\ UNCHANGED <<flags, last_generation, cleanup_cursor, closed_gates, call, registrations,
                   owner_paths, launch_attempted, history>>

LEMMA ReleaseStep ==
    ASSUME IInv, NEW o \in Owners, NEW e, LetsGo(o, e)
    PROVE  IRest'
<1> DEFINE p == owner_paths[o]
<1>1. /\ p \in Paths /\ entries[p].owner = o /\ o # None
      /\ owner_paths' = owner_paths
      /\ entries'[p] = e /\ e.owner = None /\ EntryOK(e) /\ e \in EntryType
      /\ \A q \in Paths \ {p} : entries'[q] = entries[q]
  BY HeldFacts DEF LetsGo, IInv, TypeOK
<1>2. ~Placed(o)' /\ \A b \in Owners \ {o} : Placed(b)' <=> Placed(b)
  <2>1. \A b \in Owners : owner_paths[b] \in Paths \cup {None}
    BY DEF IInv, TypeOK
  <2>2. \A b \in Owners : b # None
    BY NoneIsNoOwner
  <2> QED
    BY <1>1, <2>1, <2>2 DEF Placed
<1>3. \A b \in Owners \ {o} :
          Placed(b) => owner_paths[b] # p /\ entries'[owner_paths[b]] = entries[owner_paths[b]]
  <2>1. \A b \in Owners : Placed(b) => owner_paths[b] \in Paths
    BY DEF IInv, TypeOK, Placed
  <2> QED
    BY <1>1, <2>1 DEF Placed
<1>4. Silent(o) /\ o \in tombstones /\ o \notin registered
  BY QuiescedIsSilent DEF LetsGo
<1>5. records[o] \in {"Draining", "Failed"} /\ records'[o] \in {"Draining", "Failed", "Unloaded"}
  <2>1. records[o] \in RecordOf(entries[p].state) /\ EntryOK(entries[p])
           /\ entries[p] \in EntryType
    BY HeldFacts DEF LetsGo
  <2>2. entries[p].state \in {"Draining", "Drained", "NativeUnloadComplete", "ReleaseFailed"}
    BY <1>1, <2>1, NoOwnerAtRest, ModuleTable, StatesOfHeld DEF EntryOK, LetsGo, Quiesced
  <2> QED
    BY <2>1, <2>2, RecordTable DEF LetsGo
<1>6. EntriesOK'
  <2>1. ASSUME NEW q \in Paths PROVE EntryOK(entries'[q])
    BY <1>1 DEF IInv, EntriesOK
  <2> QED
    BY <2>1 DEF EntriesOK, EntryOK
<1>7. OwnersOK'
  <2>1. ASSUME NEW q \in Paths, entries'[q].owner # None
        PROVE  /\ owner_paths'[entries'[q].owner] = q
               /\ records'[entries'[q].owner] \in RecordOf(entries'[q].state)
    <3>1. q # p /\ entries'[q] = entries[q] /\ entries[q].owner \in Owners \ {o}
      BY <1>1, <2>1, HeldFacts DEF IInv, TypeOK, EntryType, LetsGo
    <3> QED
      BY <1>1, <2>1, <3>1 DEF IInv, OwnersOK, LetsGo
  <2>2. ASSUME NEW b \in Owners, records'[b] \in {"Discovered", "Loaded", "UnloadRequested"}
        PROVE  Placed(b)'
    BY <1>2, <1>5, <2>2 DEF IInv, OwnersOK, LetsGo
  <2>3. ASSUME NEW b \in Owners PROVE ownership'[b] # "absent" <=> Placed(b)'
    <3>1. ownership \in [Owners -> {"absent", "accepting", "closed"}]
      BY DEF IInv, TypeOK, HostTypeOK
    <3> QED
      BY <1>2, <3>1 DEF IInv, OwnersOK, LetsGo
  <2>4. \A state : RecordOf(state)' = RecordOf(state)
    BY DEF RecordOf
  <2> QED
    BY <2>1, <2>2, <2>3, <2>4 DEF OwnersOK
<1>8. \A b \in Owners : records'[b] = "None" <=> records[b] = "None"
  BY <1>5 DEF LetsGo
<1>9. GenerationsOK'
  BY <1>1, <1>8 DEF IInv, GenerationsOK, LetsGo
<1>10. OneIsPlaced'
  BY <1>2 DEF IInv, OneIsPlaced
<1>11. GatesOK'
  BY <1>5 DEF IInv, GatesOK, LetsGo
<1>12. RegistrationsOK'
  <2>1. ASSUME NEW q \in Paths, entries'[q].owner # None,
               entries'[q].failed_cleanup_cursor >= 2 \/ entries'[q].module \in Quiesced
        PROVE  entries'[q].owner \in tombstones'
    BY <1>1, <2>1 DEF IInv, RegistrationsOK, LetsGo, registrations
  <2>2. ASSUME NEW b \in registered' PROVE Placed(b)'
    BY <1>2, <1>4 DEF IInv, RegistrationsOK, LetsGo, registrations, TypeOK, HostTypeOK
  <2>3. ASSUME NEW b \in unfenced' PROVE records'[b] # "None"
    BY <1>5 DEF IInv, RegistrationsOK, LetsGo, registrations, TypeOK, HostTypeOK
  <2> QED
    BY <2>1, <2>2, <2>3 DEF IInv, RegistrationsOK, LetsGo, registrations
<1>13. CallsOK'
  <2> SUFFICES ASSUME NEW c \in Calls PROVE CallOK(c)'
    BY DEF CallsOK
  <2>1. CallOK(c) /\ call' = call /\ busy'.method # "drained"
    BY DEF IInv, CallsOK, LetsGo, NotBusy
  <2>2. call[c].at = "inside" => call[c].owner # o
    BY <1>4 DEF Silent
  <2> QED
    BY <1>1, <1>2, <1>3, <1>8, <2>1, <2>2 DEF CallOK
<1>14. UnloadsOK'
  <2>1. ASSUME NEW b \in Owners PROVE Before(b)' => Before(b)
    <3> SUFFICES ASSUME Before(b)' PROVE Before(b)
      OBVIOUS
    <3>1. b # o /\ Placed(b) /\ entries'[owner_paths'[b]] = entries[owner_paths[b]]
      BY <1>1, <1>2, <1>3 DEF Before
    <3>2. ~(busy.owner = b /\ busy.method \in {"invoke_native_unload", "cleanup_unload"})
      BY <3>1 DEF LetsGo, Idle
    <3> QED
      BY <3>1, <3>2 DEF Before
  <2> QED
    BY <1>8, <2>1 DEF IInv, UnloadsOK, LetsGo, history
<1>15. LaunchesOK'
  <2>1. flags' = flags /\ launch_attempted' = launch_attempted /\ load_calls' = load_calls
    BY DEF LetsGo, history
  <2>2. load_calls \subseteq Owners
    BY DEF IInv, TypeOK
  <2> QED
    BY <1>8, <2>1, <2>2 DEF IInv, LaunchesOK
<1> QED
  BY <1>6, <1>7, <1>9, <1>10, <1>11, <1>12, <1>13, <1>14, <1>15 DEF IRest

\* A step that changes no generation: nothing but entries without an owner, and
\* whether a file is present; generations and attempts may be used up.
Spares ==
    /\ entries' \in [Paths -> EntryType]
    /\ \A q \in Paths :
          /\ EntryOK(entries'[q])
          /\ entries'[q].owner = entries[q].owner
          /\ entries[q].owner # None =>
                /\ entries'[q].state = entries[q].state
                /\ entries'[q].module = entries[q].module
                /\ entries'[q].failed_cleanup_cursor = entries[q].failed_cleanup_cursor
    /\ last_generation' \in [Signatures -> 0..MaxGeneration]
    /\ \A g \in Signatures : last_generation'[g] >= last_generation[g]
    /\ launch_attempted \subseteq launch_attempted'
    /\ UNCHANGED <<flags, records, cleanup_cursor, ownership, closed_gates, call, registrations,
                   owner_paths, busy, history>>

LEMMA SparingStep ==
    ASSUME IInv, Spares
    PROVE  IRest' /\ (BusyOK)'
<1>1. owner_paths' = owner_paths /\ records' = records /\ busy' = busy
  BY DEF Spares
<1>2. \A b \in Owners : owner_paths[b] \in Paths \cup {None}
  BY DEF IInv, TypeOK
<1>3. \A b \in Owners : Placed(b)' <=> Placed(b)
  BY <1>1, <1>2 DEF Placed, Spares
<1>4. \A b \in Owners : Placed(b) =>
          entries'[owner_paths[b]].module = entries[owner_paths[b]].module
  BY <1>2, NoneIsNoOwner DEF Placed, Spares
<1>5. EntriesOK'
  BY DEF EntriesOK, EntryOK, Spares
<1>6. OwnersOK'
  <2>1. \A q \in Paths : entries'[q].owner # None =>
            entries'[q].owner = entries[q].owner /\ entries'[q].state = entries[q].state
    BY DEF Spares
  <2>2. \A state : RecordOf(state)' = RecordOf(state)
    BY DEF RecordOf
  <2>3. ownership' = ownership
    BY DEF Spares
  <2> QED
    BY <1>1, <1>3, <2>1, <2>2, <2>3 DEF IInv, OwnersOK
<1>7. GenerationsOK'
  <2>1. ASSUME NEW b \in Owners, records[b] # "None"
        PROVE  b.generation <= last_generation'[b.signature]
    <3>1. b.signature \in Signatures /\ b.generation \in Nat
      BY MaxGenerationIsNat DEF Owners
    <3>2. last_generation[b.signature] \in Nat /\ last_generation'[b.signature] \in Nat
      BY <3>1, MaxGenerationIsNat DEF IInv, TypeOK, HostTypeOK, Spares
    <3> QED
      BY <2>1, <3>1, <3>2 DEF IInv, GenerationsOK, Spares
  <2> QED
    BY <1>1, <2>1 DEF IInv, GenerationsOK
<1>8. OneIsPlaced'
  BY <1>3 DEF IInv, OneIsPlaced
<1>9. GatesOK'
  BY <1>1 DEF IInv, GatesOK, Spares
<1>10. RegistrationsOK'
  <2>1. \A b \in registered : Placed(b)'
    BY <1>3 DEF IInv, RegistrationsOK, TypeOK, HostTypeOK
  <2> QED
    BY <2>1 DEF IInv, RegistrationsOK, Spares, registrations
<1>11. CallsOK'
  <2> SUFFICES ASSUME NEW c \in Calls PROVE CallOK(c)'
    BY DEF CallsOK
  <2>1. CallOK(c) /\ call' = call
    BY DEF IInv, CallsOK, Spares
  <2> QED
    BY <1>1, <1>3, <1>4, <2>1 DEF CallOK
<1>12. UnloadsOK'
  <2>1. \A b \in Owners : Before(b)' <=> Before(b)
    BY <1>1, <1>3, <1>4 DEF Before
  <2> QED
    BY <1>1, <2>1 DEF IInv, UnloadsOK, Spares, history
<1>13. LaunchesOK'
  BY DEF IInv, LaunchesOK, Spares, history
<1>14. BusyOK'
  <2>1. \A method : StateIn(method)' = StateIn(method)
    BY DEF StateIn
  <2>2. ~Idle => busy.path \in Paths /\ entries[busy.path].owner # None
    BY NoneIsNoOwner DEF IInv, BusyOK
  <2>3. Idle' <=> Idle
    BY <1>1 DEF Idle
  <2>4. ~Idle => /\ entries'[busy.path].owner = entries[busy.path].owner
                 /\ entries'[busy.path].state = entries[busy.path].state
                 /\ entries'[busy.path].module = entries[busy.path].module
    BY <2>2 DEF Spares
  <2> QED
    BY <1>1, <2>1, <2>2, <2>3, <2>4 DEF IInv, BusyOK
<1> QED
  BY <1>5, <1>6, <1>7, <1>8, <1>9, <1>10, <1>11, <1>12, <1>13, <1>14 DEF IRest
-----------------------------------------------------------------------------
\* The manager before its first call.
LEMMA InitOK == Init => IInv
<1> SUFFICES ASSUME Init PROVE IInv
  OBVIOUS
<1>1. \A p \in Paths : entries[p] = NewEntry("Untracked", FALSE)
  BY DEF Init
<1>2. NewEntry("Untracked", FALSE) \in EntryType /\ EntryOK(NewEntry("Untracked", FALSE))
  BY DEF NewEntry, EntryType, EntryOK, States, ModuleStates, Resting
<1>3. TypeOK
  <2>1. HostTypeOK
    BY MaxGenerationIsNat DEF Init, HostInit, HostTypeOK, RecordStates, Places
  <2> QED
    BY <1>1, <1>2, <2>1 DEF Init, TypeOK, NotBusy, Methods
<1>4. \A o \in Owners : records[o] = "None" /\ owner_paths[o] = None /\ ~Placed(o)
  BY DEF Init, HostInit, Placed
<1>5. \A p \in Paths : entries[p].owner = None
  BY <1>1 DEF NewEntry
<1>6. EntriesOK /\ OwnersOK /\ GenerationsOK /\ OneIsPlaced /\ GatesOK
  BY <1>1, <1>2, <1>4, <1>5 DEF EntriesOK, OwnersOK, GenerationsOK, OneIsPlaced, GatesOK,
                                Init, HostInit
<1>7. RegistrationsOK /\ CallsOK /\ BusyOK
  <2>1. \A o \in Owners : cleanup_cursor[o] = 0
    BY DEF Init, HostInit
  <2>2. RegistrationsOK
    <3>1. registered = {} /\ tombstones = {} /\ unfenced = {}
      BY DEF Init, HostInit
    <3> QED
      BY <1>5, <2>1, <3>1 DEF RegistrationsOK
  <2>3. CallsOK
    <3>1. \A c \in Calls : call[c].at = "out"
      BY DEF Init, HostInit
    <3> QED
      BY <3>1 DEF CallsOK, CallOK
  <2>4. BusyOK
    BY DEF BusyOK, Idle, NotBusy, Init
  <2> QED
    BY <2>2, <2>3, <2>4
<1>8. UnloadsOK /\ LaunchesOK
  BY <1>4 DEF UnloadsOK, LaunchesOK, Init
<1> QED
  BY <1>3, <1>6, <1>7, <1>8 DEF IInv

\* What a step that only spares must still show.
LEMMA SparingKeeps ==
    ASSUME IInv, Spares, launch_attempted' \in SUBSET Signatures, startup_open' \in BOOLEAN,
           active_by_signature' = active_by_signature
    PROVE  IInv'
<1>1. TypeOK'
  BY DEF IInv, TypeOK, HostTypeOK, Spares, registrations, history
<1> QED
  BY <1>1, SparingStep DEF IInv, IRest

-----------------------------------------------------------------------------
(* The directory *)

LEMMA UpsertedSpares ==
    ASSUME NEW e \in EntryType, EntryOK(e)
    PROVE  /\ Upserted(e) \in EntryType /\ EntryOK(Upserted(e))
           /\ Upserted(e).owner = e.owner
           /\ e.owner # None => /\ Upserted(e).state = e.state
                                /\ Upserted(e).module = e.module
                                /\ Upserted(e).failed_cleanup_cursor = e.failed_cleanup_cursor
<1>1. CASE e.state = "Untracked"
  <2>1. e.owner = None /\ Upserted(e) = NewEntry("Discovered", TRUE)
    BY <1>1, NoOwnerAtRest DEF Upserted, Resting
  <2> QED
    BY <2>1 DEF NewEntry, EntryType, EntryOK, States, ModuleStates, Resting
<1>2. CASE e.state # "Untracked"
  <2>1. Upserted(e) = [e EXCEPT !.present = TRUE]
    BY <1>2 DEF Upserted
  <2> QED
    BY <2>1 DEF EntryType, EntryOK
<1> QED
  BY <1>1, <1>2

LEMMA RemovedSpares ==
    ASSUME NEW e \in EntryType, EntryOK(e)
    PROVE  /\ Removed(e) \in EntryType /\ EntryOK(Removed(e))
           /\ Removed(e).owner = e.owner
           /\ e.owner # None => /\ Removed(e).state = e.state
                                /\ Removed(e).module = e.module
                                /\ Removed(e).failed_cleanup_cursor = e.failed_cleanup_cursor
<1>1. CASE e.module = "None"
  <2>1. e.owner = None
    BY <1>1, NoOwnerAtRest
  <2> QED
    BY <1>1, <2>1 DEF Removed, EntryType, EntryOK, States, Resting
<1>2. CASE e.module # "None"
  BY <1>2 DEF Removed, EntryType, EntryOK
<1> QED
  BY <1>1, <1>2

LEMMA DirectoryStepOK ==
    ASSUME IInv, DirectoryStep, entries' \in [Paths -> EntryType],
           \A q \in Paths : entries'[q] \in {entries[q], Upserted(entries[q]), Removed(entries[q])}
    PROVE  IInv'
<1>1. ASSUME NEW q \in Paths
      PROVE  /\ EntryOK(entries'[q])
             /\ entries'[q].owner = entries[q].owner
             /\ entries[q].owner # None =>
                   /\ entries'[q].state = entries[q].state
                   /\ entries'[q].module = entries[q].module
                   /\ entries'[q].failed_cleanup_cursor = entries[q].failed_cleanup_cursor
  <2>1. entries[q] \in EntryType /\ EntryOK(entries[q])
    BY DEF IInv, TypeOK, EntriesOK
  <2>2. CASE entries'[q] = entries[q]
    BY <2>1, <2>2
  <2>3. CASE entries'[q] = Upserted(entries[q])
    BY <2>1, <2>3, UpsertedSpares
  <2>4. CASE entries'[q] = Removed(entries[q])
    BY <2>1, <2>4, RemovedSpares
  <2> QED
    BY <2>2, <2>3, <2>4
<1>2. last_generation' = last_generation /\ last_generation \in [Signatures -> 0..MaxGeneration]
  BY DEF DirectoryStep, NoHostChange, hostRecords, IInv, TypeOK, HostTypeOK
<1>3. \A g \in Signatures : last_generation'[g] >= last_generation[g]
  BY <1>2, MaxGenerationIsNat
<1>4. Spares
  BY <1>1, <1>2, <1>3 DEF Spares, DirectoryStep, OnlyEntries, NoHostChange, NoCallback,
                          hostRecords, registrations
<1>5. /\ active_by_signature' = active_by_signature
      /\ launch_attempted' \in SUBSET Signatures /\ startup_open' \in BOOLEAN
  BY DEF DirectoryStep, OnlyEntries, NoHostChange, hostRecords, IInv, TypeOK
<1> QED
  BY <1>4, <1>5, SparingKeeps

LEMMA UpsertOK == ASSUME IInv, NEW p \in Paths, Upsert(p) PROVE IInv'
<1>1. entries \in [Paths -> EntryType] /\ EntryOK(entries[p])
  BY DEF IInv, TypeOK, EntriesOK
<1>2. Upserted(entries[p]) \in EntryType
  BY <1>1, UpsertedSpares
<1> QED
  BY <1>1, <1>2, DirectoryStepOK DEF Upsert, SetEntry

LEMMA RemoveOK == ASSUME IInv, NEW p \in Paths, Remove(p) PROVE IInv'
<1>1. entries \in [Paths -> EntryType] /\ EntryOK(entries[p])
  BY DEF IInv, TypeOK, EntriesOK
<1>2. Removed(entries[p]) \in EntryType
  BY <1>1, RemovedSpares
<1> QED
  BY <1>1, <1>2, DirectoryStepOK DEF Remove, SetEntry

LEMMA RescanOK == ASSUME IInv, NEW found \in SUBSET Paths, Rescan(found) PROVE IInv'
<1>1. \A p \in Paths : entries[p] \in EntryType /\ EntryOK(entries[p])
  BY DEF IInv, TypeOK, EntriesOK
<1>2. \A p \in Paths : Upserted(entries[p]) \in EntryType /\ Removed(entries[p]) \in EntryType
  BY <1>1, UpsertedSpares, RemovedSpares
<1> QED
  BY <1>2, DirectoryStepOK DEF Rescan

LEMMA FinishStartupOK == ASSUME IInv, FinishStartup PROVE IInv'
<1>1. /\ entries' = entries /\ entries \in [Paths -> EntryType]
      /\ last_generation' = last_generation /\ last_generation \in [Signatures -> 0..MaxGeneration]
  BY DEF FinishStartup, hostVars, hostRecords, IInv, TypeOK, HostTypeOK
<1>2. \A g \in Signatures : last_generation'[g] >= last_generation[g]
  BY <1>1, MaxGenerationIsNat
<1>3. Spares
  BY <1>1, <1>2 DEF Spares, FinishStartup, hostVars, hostRecords, registrations, IInv, EntriesOK
<1> QED
  BY <1>3, SparingKeeps DEF FinishStartup, hostVars, hostRecords, IInv, TypeOK
-----------------------------------------------------------------------------
(* activate, request_unload, drain *)

LEMMA HeldStepOK ==
    ASSUME IInv, NEW o \in Owners, NEW e, KeepsHold(o, e), KeepsRecord(o, e),
           KeepsRegistrations(o, e), KeepsCalls(o, e), KeepsExports(o, e),
           (TypeOK)', (BusyOK)'
    PROVE  IInv'
  BY HeldStep DEF IInv, IRest

LEMMA IdleBusyOK == ASSUME Finish PROVE (BusyOK)'
  BY DEF Finish, NotBusy, BusyOK, Idle

\* Steps that leave the registrations alone.
LEMMA SameRegistrations ==
    ASSUME IInv, NEW o \in Owners, NEW e, Placed(o),
           UNCHANGED <<registered, tombstones, unfenced, swept, cleanup_cursor>>,
           e.failed_cleanup_cursor = entries[owner_paths[o]].failed_cleanup_cursor,
           e.module \in Quiesced => \/ entries[owner_paths[o]].module \in Quiesced
                                    \/ o \in tombstones
    PROVE  KeepsRegistrations(o, e)
<1>1. e.failed_cleanup_cursor >= 2 \/ e.module \in Quiesced => o \in tombstones
  BY HeldFacts DEF IInv, RegistrationsOK
<1> QED
  BY <1>1 DEF KeepsRegistrations, IInv, RegistrationsOK

\* Steps that let no export be called and have none return.
LEMMA SameExports ==
    ASSUME IInv, NEW o \in Owners, NEW e, Placed(o), UNCHANGED history,
           Before(o) \/ e.module \in Quiesced \ {"CallbacksQuiesced"}
    PROVE  KeepsExports(o, e)
  BY DEF KeepsExports, IInv, UnloadsOK, history

LEMMA BeginActivateOK ==
    ASSUME IInv, ~StaleTokens, NEW o \in Owners, BeginActivate(o)
    PROVE  IInv'
<1> DEFINE p == owner_paths[o]
           e == entries[p]
<1>1. /\ Placed(o) /\ Idle /\ e.state = "Inspected" /\ e.owner = o
      /\ busy' = [method |-> "activate", owner |-> o, path |-> p]
      /\ load_calls' = load_calls \cup {o}
  BY FreshToken DEF BeginActivate, Become
<1>2. /\ UNCHANGED <<flags, records, cleanup_cursor, active_by_signature, last_generation,
                     closed_gates, call, ownership, registered, tombstones,
                     unfenced, swept>>
      /\ UNCHANGED <<entries, owner_paths, startup_open, launch_attempted, unload_calls>>
  BY DEF BeginActivate, hostVars, hostRecords, registrations, managerVars
<1>3. e \in EntryType /\ EntryOK(e) /\ p \in Paths /\ records[o] \in RecordOf(e.state)
  BY <1>1, HeldFacts
<1>4. e.module = "Inspected" /\ records[o] = "Discovered"
  BY <1>1, <1>3, NoneIsNoOwner, ModuleTable, RecordTable DEF EntryOK
<1>5. KeepsHold(o, e)
  BY <1>1, <1>2, <1>3 DEF KeepsHold, IInv, TypeOK
<1>6. KeepsRecord(o, e)
  BY <1>2, <1>3, <1>4 DEF KeepsRecord
<1>7. KeepsRegistrations(o, e)
  BY <1>1, <1>2, SameRegistrations
<1>8. KeepsCalls(o, e)
  BY <1>1, <1>4 DEF KeepsCalls, Quiesced
<1>9. KeepsExports(o, e)
  <2>1. Before(o)
    BY <1>1, <1>4 DEF Before, Quiesced, Idle
  <2> QED
    BY <1>1, <1>2, <2>1 DEF KeepsExports, IInv, UnloadsOK
<1>10. TypeOK'
  BY <1>1, <1>2, <1>3 DEF IInv, TypeOK, HostTypeOK, Methods
<1>11. BusyOK'
  BY <1>1, <1>2, <1>3 DEF BusyOK, StateIn
<1> QED
  BY <1>5, <1>6, <1>7, <1>8, <1>9, <1>10, <1>11, HeldStepOK

LEMMA EndActivateOK ==
    ASSUME IInv, NEW returned \in BOOLEAN, EndActivate(returned)
    PROVE  IInv'
<1> DEFINE o == busy.owner
           p == busy.path
           e == [entries[p] EXCEPT !.module = IF returned THEN "Active" ELSE "ActivationFailed",
                                   !.state = IF returned THEN "Active" ELSE "ActivationFailed"]
<1>1. ~Idle /\ busy.method = "activate"
  BY DEF EndActivate, Idle
<1>2. o \in Owners /\ Placed(o) /\ p = owner_paths[o] /\ entries[p].state = "Inspected"
  BY <1>1, BusyIsPlaced, MethodTable
<1>3. /\ p \in Paths /\ entries[p] \in EntryType /\ EntryOK(entries[p])
      /\ entries[p].owner = o /\ o # None /\ records[o] \in RecordOf(entries[p].state)
  BY <1>2, HeldFacts
<1>4. entries[p].module = "Inspected" /\ records[o] = "Discovered"
  BY <1>2, <1>3, ModuleTable, RecordTable DEF EntryOK
<1>5. /\ UNCHANGED <<flags, cleanup_cursor, last_generation, call, registered,
                     tombstones, unfenced, swept>>
      /\ UNCHANGED <<owner_paths, startup_open, launch_attempted, history>>
      /\ busy' = NotBusy
  BY <1>4 DEF EndActivate, NoCallback, OnlyEntries, Finish, AcknowledgeLoaded,
              AcknowledgeActivationFailed, registrations
<1>6. /\ entries' = [entries EXCEPT ![p] = e]
      /\ records' = [records EXCEPT ![o] = IF returned THEN "Loaded" ELSE "Failed"]
      /\ active_by_signature' \in [Signatures -> Owners \cup {None}]
      /\ closed_gates' = IF returned THEN closed_gates ELSE closed_gates \cup {o}
      /\ ownership' = IF returned THEN ownership ELSE
            [ownership EXCEPT ![o] = IF @ = "absent" THEN @ ELSE "closed"]
  <2>1. CASE returned
    BY <1>3, <1>4, <2>1 DEF EndActivate, Activated, SetEntry, AcknowledgeLoaded, SetRecord,
                            IInv, TypeOK, HostTypeOK
  <2>2. CASE ~returned
    BY <1>3, <1>4, <2>2 DEF EndActivate, Activated, SetEntry, AcknowledgeActivationFailed,
                            SetRecord, CloseGates, CloseOwnership, Unclaim, IInv, TypeOK,
                            HostTypeOK
  <2> QED
    BY <2>1, <2>2
<1>7. /\ e \in EntryType /\ e.owner = o /\ e.module \in {"Active", "ActivationFailed"}
      /\ e.failed_cleanup_cursor = entries[p].failed_cleanup_cursor
      /\ e.state = e.module /\ e.release_return_state = entries[p].release_return_state
      /\ e.state = IF returned THEN "Active" ELSE "ActivationFailed"
  BY <1>3 DEF EntryType, States, ModuleStates
<1>8. KeepsHold(o, e)
  <2>1. EntryOK(e)
    BY <1>3, <1>7, ModuleTable DEF EntryOK
  <2> QED
    BY <1>2, <1>5, <1>6, <1>7, <2>1 DEF KeepsHold
<1>9. KeepsRecord(o, e)
  <2>1. records'[o] = IF returned THEN "Loaded" ELSE "Failed"
    BY <1>2, <1>6 DEF IInv, TypeOK, HostTypeOK
  <2>2. records'[o] \in RecordOf(e.state)
    BY <1>7, <2>1, RecordTable
  <2>3. \A b \in Owners : ownership'[b] # "absent" <=> ownership[b] # "absent"
    BY <1>2, <1>6 DEF IInv, TypeOK, HostTypeOK
  <2> QED
    BY <1>6, <2>1, <2>2, <2>3 DEF KeepsRecord, IInv, TypeOK, HostTypeOK
<1>10. KeepsRegistrations(o, e)
  BY <1>2, <1>5, <1>7, SameRegistrations DEF Quiesced
<1>11. KeepsCalls(o, e)
  BY <1>5, <1>7 DEF KeepsCalls, Quiesced, NotBusy
<1>12. KeepsExports(o, e)
  <2>1. Before(o)
    BY <1>1, <1>2, <1>4 DEF Before, Quiesced
  <2> QED
    BY <1>2, <1>5, <2>1, SameExports
<1>13. TypeOK'
  BY <1>2, <1>3, <1>5, <1>6, <1>7 DEF IInv, TypeOK, HostTypeOK, RecordStates, NotBusy, Methods,
                                      history
<1>14. BusyOK'
  BY <1>5, IdleBusyOK DEF Finish
<1> QED
  BY <1>2, <1>8, <1>9, <1>10, <1>11, <1>12, <1>13, <1>14, HeldStepOK

LEMMA RequestUnloadOK ==
    ASSUME IInv, ~StaleTokens, NEW o \in Owners, NEW reason, RequestUnload(o, reason)
    PROVE  IInv'
<1> DEFINE p == owner_paths[o]
           e == [entries[p] EXCEPT !.module = "ShutdownRequested", !.state = "UnloadRequested"]
<1>1. Placed(o) /\ Idle /\ entries[p].state = "Active" /\ entries[p] = Entry(o)
  BY FreshToken DEF RequestUnload
<1>2. /\ p \in Paths /\ entries[p] \in EntryType /\ EntryOK(entries[p])
      /\ entries[p].owner = o /\ o # None
  BY <1>1, HeldFacts
<1>3. entries[p].module = "Active"
  BY <1>1, <1>2, ModuleTable DEF EntryOK
<1>4. /\ UNCHANGED <<flags, cleanup_cursor, active_by_signature, last_generation, call,
                     registered, tombstones, unfenced, swept, ownership, busy>>
      /\ UNCHANGED <<owner_paths, startup_open, launch_attempted, history>>
      /\ records' = [records EXCEPT ![o] = "UnloadRequested"]
      /\ closed_gates' = closed_gates \cup {o}
      /\ entries' = [entries EXCEPT ![p] = e]
  BY <1>1, <1>3 DEF RequestUnload, NoCallback, OnlyEntries, RequestUnloadOf, SetRecord,
                    CloseGates, registrations, CanRequestShutdown, SetEntry
<1>5. /\ e \in EntryType /\ e.owner = o /\ e.module = "ShutdownRequested"
      /\ e.failed_cleanup_cursor = entries[p].failed_cleanup_cursor
      /\ e.state = "UnloadRequested" /\ e.release_return_state = entries[p].release_return_state
  BY <1>2 DEF EntryType, States, ModuleStates
<1>6. KeepsHold(o, e)
  <2>1. EntryOK(e)
    BY <1>2, <1>5, ModuleTable DEF EntryOK
  <2> QED
    BY <1>1, <1>4, <1>5, <2>1 DEF KeepsHold
<1>7. KeepsRecord(o, e)
  BY <1>4, <1>5, RecordTable DEF KeepsRecord, IInv, TypeOK, HostTypeOK
<1>8. KeepsRegistrations(o, e)
  BY <1>1, <1>4, <1>5, SameRegistrations DEF Quiesced
<1>9. KeepsCalls(o, e)
  BY <1>1, <1>4, <1>5 DEF KeepsCalls, Quiesced, Idle
<1>10. KeepsExports(o, e)
  <2>1. Before(o)
    BY <1>1, <1>3 DEF Before, Quiesced, Idle
  <2> QED
    BY <1>1, <1>4, <2>1, SameExports
<1>11. TypeOK'
  BY <1>2, <1>4, <1>5 DEF IInv, TypeOK, HostTypeOK, RecordStates, history
<1>12. BusyOK'
  BY <1>1, <1>4 DEF BusyOK, Idle
<1> QED
  BY <1>6, <1>7, <1>8, <1>9, <1>10, <1>11, <1>12, HeldStepOK

\* A generation whose module is not in its unload export is before it or after it.
LEMMA BeforeOrAfter ==
    ASSUME NEW o \in Owners, Placed(o),
           ~(busy.owner = o /\ busy.method \in {"invoke_native_unload", "cleanup_unload"})
    PROVE  Before(o) \/ entries[owner_paths[o]].module \in Quiesced \ {"CallbacksQuiesced"}
  BY DEF Before

LEMMA BeginDrainOK ==
    ASSUME IInv, ~StaleTokens, NEW o \in Owners, BeginDrain(o)
    PROVE  IInv'
<1> DEFINE p == owner_paths[o]
           e == [entries[p] EXCEPT !.state = "Draining"]
<1>1. /\ Placed(o) /\ Idle /\ entries[p].state \in {"UnloadRequested", "Draining"}
      /\ entries[p] = Entry(o)
  BY FreshToken DEF BeginDrain
<1>2. /\ p \in Paths /\ entries[p] \in EntryType /\ EntryOK(entries[p])
      /\ entries[p].owner = o /\ o # None /\ records[o] \in RecordOf(entries[p].state)
  BY <1>1, HeldFacts
<1>3. /\ entries[p].module \in ModulesOf("Draining")
      /\ records[o] \in {"UnloadRequested", "Draining", "Failed"}
  BY <1>1, <1>2, ModuleTable, RecordTable DEF EntryOK
<1>4. /\ UNCHANGED <<flags, cleanup_cursor, active_by_signature, last_generation, call,
                     registered, tombstones, unfenced, swept, ownership, closed_gates>>
      /\ UNCHANGED <<owner_paths, startup_open, launch_attempted, history>>
      /\ entries' = [entries EXCEPT ![p] = e]
  BY <1>1 DEF BeginDrain, NoCallback, OnlyEntries, registrations, SetEntry, hostRecords
<1>5. \/ /\ records' = [records EXCEPT ![o] = "Draining"]
         /\ busy' = [method |-> "drain", owner |-> o, path |-> p]
      \/ records' = records /\ busy' = busy /\ records[o] = "Failed"
  BY <1>3 DEF BeginDrain, SetRecord, Become, hostRecords
<1>6. /\ e \in EntryType /\ e.owner = o /\ e.module = entries[p].module
      /\ e.failed_cleanup_cursor = entries[p].failed_cleanup_cursor
      /\ e.state = "Draining" /\ e.release_return_state = entries[p].release_return_state
  BY <1>2 DEF EntryType, States
<1>7. KeepsHold(o, e)
  <2>1. EntryOK(e)
    BY <1>2, <1>3, <1>6 DEF EntryOK
  <2> QED
    BY <1>1, <1>4, <1>6, <2>1 DEF KeepsHold
<1>8. records'[o] \in {"Draining", "Failed"} /\ \A b \in Owners \ {o} : records'[b] = records[b]
  BY <1>5 DEF IInv, TypeOK, HostTypeOK
<1>9. KeepsRecord(o, e)
  <2>1. o \in closed_gates
    BY <1>3 DEF IInv, GatesOK
  <2> QED
    BY <1>4, <1>6, <1>8, <2>1, RecordTable DEF KeepsRecord
<1>10. KeepsRegistrations(o, e)
  BY <1>1, <1>4, <1>6, SameRegistrations
<1>11. KeepsCalls(o, e)
  BY <1>1, <1>5, <1>6, QuiescedIsSilent DEF KeepsCalls, Idle
<1>12. KeepsExports(o, e)
  BY <1>1, <1>4, <1>6, BeforeOrAfter, SameExports DEF Idle
<1>13. TypeOK'
  BY <1>2, <1>4, <1>5, <1>6 DEF IInv, TypeOK, HostTypeOK, RecordStates, Methods, history
<1>14. BusyOK'
  <2>1. CASE busy' = busy
    BY <1>1, <2>1 DEF BusyOK, Idle
  <2>2. CASE busy' # busy
    <3>1. /\ records'[o] = "Draining" /\ busy' = [method |-> "drain", owner |-> o, path |-> p]
          /\ owner_paths' = owner_paths /\ entries'[p] = e
      BY <1>2, <1>4, <1>5, <2>2 DEF IInv, TypeOK, HostTypeOK
    <3> QED
      BY <1>2, <1>6, <3>1 DEF BusyOK, StateIn
  <2> QED
    BY <2>1, <2>2
<1> QED
  BY <1>7, <1>9, <1>10, <1>11, <1>12, <1>13, <1>14, HeldStepOK

\* What is known while a drain, or a cleanup, is in progress.
LEMMA DrainingFacts ==
    ASSUME IInv, busy.method \in {"drain", "drained", "cleanup", "cleanup_drained",
                                  "cleanup_unload"}
    PROVE  LET o == busy.owner
               p == busy.path
           IN  /\ o \in Owners /\ Placed(o) /\ p = owner_paths[o]
               /\ p \in Paths /\ entries[p] \in EntryType /\ EntryOK(entries[p])
               /\ entries[p].owner = o /\ o # None /\ entries[p].state = "Draining"
               /\ entries[p].module \in ModulesOf("Draining")
               /\ records[o] \in {"Draining", "Failed"}
               /\ busy.method \in {"drain", "drained"} => records[o] = "Draining"
               /\ o \in closed_gates
               /\ \A b \in Owners : cleanup_cursor[b] \in 0..3
               /\ busy.method = "drained" => Silent(o)
               /\ entries = [entries EXCEPT ![p] = entries[p]]
<1> DEFINE o == busy.owner
           p == busy.path
<1>1. ~Idle
  BY DEF Idle
<1>2. o \in Owners /\ Placed(o) /\ p = owner_paths[o] /\ entries[p].state = "Draining"
  BY <1>1, BusyIsPlaced, MethodTable
<1>3. /\ p \in Paths /\ entries[p] \in EntryType /\ EntryOK(entries[p])
      /\ entries[p].owner = o /\ o # None /\ records[o] \in RecordOf(entries[p].state)
  BY <1>2, HeldFacts
<1>4. entries[p].module \in ModulesOf("Draining") /\ records[o] \in {"Draining", "Failed"}
  BY <1>2, <1>3, RecordTable DEF EntryOK
<1>5. o \in closed_gates
  BY <1>2, <1>4 DEF IInv, GatesOK
<1>6. busy.method = "drained" => Silent(o)
  BY DEF Silent, IInv, CallsOK, CallOK
<1>7. \A b \in Owners : cleanup_cursor[b] \in 0..3
  BY DEF IInv, TypeOK, HostTypeOK
<1>8. entries = [entries EXCEPT ![p] = entries[p]]
  BY DEF IInv, TypeOK
<1>9. busy.method \in {"drain", "drained"} => records[o] = "Draining"
  BY <1>1 DEF IInv, BusyOK
<1> QED
  BY <1>2, <1>3, <1>4, <1>5, <1>6, <1>7, <1>8, <1>9

\* A phase takes registrations of o away, in some registries for good.
LEMMA PhaseOutcome ==
    ASSUME IInv, NEW o \in Owners, NEW phase,
           CleanPhaseSucceeds(o, phase) \/ CleanPhaseFails(o, phase)
    PROVE  /\ registered' \subseteq registered /\ tombstones \subseteq tombstones'
           /\ registered' \in SUBSET Owners /\ tombstones' \in SUBSET Owners
           /\ registered' \cap tombstones' = {}
           /\ unfenced' \subseteq unfenced
           /\ unfenced' \in SUBSET Owners /\ swept' \in SUBSET Owners
           /\ phase = 1 /\ CleanPhaseSucceeds(o, phase) => o \in tombstones'
<1>1. \/ registered' = registered /\ tombstones' = tombstones
      \/ registered' = registered \ {o} /\ tombstones' = tombstones \cup {o}
  BY DEF CleanPhaseSucceeds, CleanPhaseFails, CleanForGood, registrations
<1>2. /\ unfenced' = unfenced \/ unfenced' = unfenced \ {o}
      /\ swept' = swept \/ swept' = swept \cup {o}
  BY DEF CleanPhaseSucceeds, CleanPhaseFails, SweepOnce, registrations
<1>3. phase = 1 /\ CleanPhaseSucceeds(o, phase) => o \in tombstones'
  BY DEF CleanPhaseSucceeds, CleanForGood
<1>4. /\ registered \cap tombstones = {} /\ registered \subseteq Owners
      /\ tombstones \subseteq Owners /\ unfenced \subseteq Owners /\ swept \subseteq Owners
  BY DEF IInv, RegistrationsOK, TypeOK, HostTypeOK
<1>5. /\ registered' \subseteq registered /\ tombstones \subseteq tombstones'
      /\ registered' \in SUBSET Owners /\ tombstones' \in SUBSET Owners
      /\ registered' \cap tombstones' = {}
  BY <1>1, <1>4
<1>6. unfenced' \subseteq unfenced /\ unfenced' \in SUBSET Owners /\ swept' \in SUBSET Owners
  BY <1>2, <1>4
<1> QED
  BY <1>3, <1>5, <1>6

LEMMA DrainPhaseOK ==
    ASSUME IInv, NEW succeeds \in BOOLEAN, DrainPhase(succeeds)
    PROVE  IInv'
<1> DEFINE o == busy.owner
           p == busy.path
           e == entries[p]
           phase == cleanup_cursor[o]
<1>1. /\ (busy.method = "drain" /\ phase < 2) \/ (busy.method = "drained" /\ phase = 2)
      /\ UNCHANGED <<flags, records, active_by_signature, last_generation, closed_gates, call,
                     ownership, entries, owner_paths, startup_open, launch_attempted, history>>
  BY DEF DrainPhase, managerVars
<1>2. CleanPhaseSucceeds(o, phase) \/ CleanPhaseFails(o, phase)
  BY DEF DrainPhase
<1>3. \/ /\ CleanPhaseSucceeds(o, phase) /\ busy' = busy
         /\ cleanup_cursor' = [cleanup_cursor EXCEPT ![o] = phase + 1]
      \/ busy' = NotBusy /\ cleanup_cursor' = cleanup_cursor
  BY DEF DrainPhase, Finish
<1>4. /\ o \in Owners /\ Placed(o) /\ p = owner_paths[o]
      /\ p \in Paths /\ e \in EntryType /\ EntryOK(e)
      /\ e.owner = o /\ e.state = "Draining" /\ records[o] = "Draining"
      /\ o \in closed_gates /\ phase \in 0..3
      /\ busy.method = "drained" => Silent(o)
      /\ entries = [entries EXCEPT ![p] = e]
  BY <1>1, DrainingFacts
<1>5. KeepsHold(o, e)
  BY <1>1, <1>4 DEF KeepsHold
<1>6. KeepsRecord(o, e)
  BY <1>1, <1>4, RecordTable DEF KeepsRecord
<1>7. KeepsRegistrations(o, e)
  <2>1. /\ registered' \subseteq registered /\ tombstones \subseteq tombstones'
        /\ registered' \cap tombstones' = {} /\ unfenced' \subseteq unfenced
        /\ phase = 1 /\ CleanPhaseSucceeds(o, phase) => o \in tombstones'
    BY <1>2, <1>4, PhaseOutcome
  <2>2. \A b \in Owners : cleanup_cursor[b] >= 2 => b \in tombstones
    BY DEF IInv, RegistrationsOK
  <2>3. ASSUME NEW b \in Owners, cleanup_cursor'[b] >= 2 PROVE b \in tombstones'
    <3>1. CASE cleanup_cursor' = cleanup_cursor \/ b # o
      BY <1>3, <2>1, <2>2, <2>3, <3>1 DEF IInv, TypeOK, HostTypeOK
    <3>2. CASE b = o /\ CleanPhaseSucceeds(o, phase) /\ cleanup_cursor'[o] = phase + 1
      BY <1>1, <1>4, <2>1, <2>2, <2>3, <3>2
    <3> QED
      BY <1>3, <1>4, <3>1, <3>2 DEF IInv, TypeOK, HostTypeOK
  <2>4. e.failed_cleanup_cursor >= 2 \/ e.module \in Quiesced => o \in tombstones
    BY <1>4, NoneIsNoOwner DEF IInv, RegistrationsOK
  <2> QED
    BY <2>1, <2>3, <2>4 DEF KeepsRegistrations
<1>8. KeepsCalls(o, e)
  BY <1>3, <1>4, QuiescedIsSilent DEF KeepsCalls, NotBusy
<1>9. KeepsExports(o, e)
  BY <1>1, <1>4, BeforeOrAfter, SameExports
<1>10. TypeOK'
  <2>1. /\ registered' \in SUBSET Owners /\ tombstones' \in SUBSET Owners
        /\ unfenced' \in SUBSET Owners /\ swept' \in SUBSET Owners
    BY <1>2, <1>4, PhaseOutcome
  <2>2. cleanup_cursor' \in [Owners -> 0..3]
    BY <1>1, <1>3, <1>4 DEF IInv, TypeOK, HostTypeOK
  <2>3. busy' \in [method : Methods, owner : Owners \cup {None}, path : Paths \cup {None}]
    BY <1>3 DEF NotBusy, Methods, IInv, TypeOK
  <2> QED
    BY <1>1, <2>1, <2>2, <2>3 DEF IInv, TypeOK, HostTypeOK, history
<1>11. BusyOK'
  BY <1>1, <1>3, <1>4 DEF BusyOK, Idle, NotBusy, StateIn
<1> QED
  BY <1>4, <1>5, <1>6, <1>7, <1>8, <1>9, <1>10, <1>11, HeldStepOK

LEMMA DrainWaitOK ==
    ASSUME IInv, DrainWait
    PROVE  IInv'
<1> DEFINE o == busy.owner
           p == busy.path
           e == entries[p]
<1>1. /\ busy.method = "drain"
      /\ UNCHANGED <<flags, records, cleanup_cursor, active_by_signature, last_generation,
                     closed_gates, call, ownership, registered, tombstones,
                     unfenced, swept>>
      /\ UNCHANGED <<entries, owner_paths, startup_open, launch_attempted, history>>
      /\ \/ InFlight(o) = 0 /\ busy' = [busy EXCEPT !.method = "drained"]
         \/ busy' = NotBusy
  BY DEF DrainWait, hostVars, hostRecords, registrations, managerVars, Finish
<1>2. /\ o \in Owners /\ Placed(o) /\ p = owner_paths[o]
      /\ p \in Paths /\ e \in EntryType /\ EntryOK(e)
      /\ e.owner = o /\ e.state = "Draining" /\ records[o] = "Draining"
      /\ o \in closed_gates
      /\ entries = [entries EXCEPT ![p] = e]
  BY <1>1, DrainingFacts
<1>3. \/ busy' = [method |-> "drained", owner |-> o, path |-> p] /\ Silent(o)
      \/ busy' = NotBusy
  <2>1. TypeOK /\ busy \in [method : Methods, owner : Owners \cup {None}, path : Paths \cup {None}]
    BY DEF IInv, TypeOK
  <2>2. InFlight(o) = 0 => Silent(o)
    BY <1>2, <2>1, ZeroIsSilent
  <2>3. [busy EXCEPT !.method = "drained"] = [method |-> "drained", owner |-> o, path |-> p]
    BY <2>1
  <2> QED
    BY <1>1, <2>2, <2>3
<1>4. KeepsHold(o, e)
  BY <1>1, <1>2 DEF KeepsHold
<1>5. KeepsRecord(o, e)
  BY <1>1, <1>2, RecordTable DEF KeepsRecord
<1>6. KeepsRegistrations(o, e)
  BY <1>1, <1>2, SameRegistrations
<1>7. KeepsCalls(o, e)
  BY <1>2, <1>3, QuiescedIsSilent DEF KeepsCalls, NotBusy
<1>8. KeepsExports(o, e)
  BY <1>1, <1>2, BeforeOrAfter, SameExports
<1>9. TypeOK'
  BY <1>1, <1>2, <1>3 DEF IInv, TypeOK, HostTypeOK, history, NotBusy, Methods
<1>10. BusyOK'
  BY <1>1, <1>2, <1>3 DEF BusyOK, Idle, NotBusy, StateIn
<1> QED
  BY <1>2, <1>4, <1>5, <1>6, <1>7, <1>8, <1>9, <1>10, HeldStepOK

LEMMA EndDrainOK ==
    ASSUME IInv, EndDrain
    PROVE  IInv'
<1> DEFINE o == busy.owner
           p == busy.path
           quiesces == CanWaitForCallbacks(entries[p].module)
           e == IF quiesces
                THEN [entries[p] EXCEPT !.module = "CallbacksQuiesced", !.state = "Drained"]
                ELSE entries[p]
<1>1. /\ busy.method = "drained" /\ cleanup_cursor[o] = 3
      /\ UNCHANGED <<flags, records, cleanup_cursor, active_by_signature, last_generation,
                     closed_gates, call, ownership, registered, tombstones,
                     unfenced, swept>>
      /\ UNCHANGED <<owner_paths, startup_open, launch_attempted, history>>
      /\ busy' = NotBusy
  BY DEF EndDrain, hostVars, hostRecords, registrations, OnlyEntries, Finish
<1>2. /\ o \in Owners /\ Placed(o) /\ p = owner_paths[o]
      /\ p \in Paths /\ entries[p] \in EntryType /\ EntryOK(entries[p])
      /\ entries[p].owner = o /\ o # None /\ entries[p].state = "Draining"
      /\ records[o] = "Draining"
      /\ o \in closed_gates /\ Silent(o)
      /\ entries = [entries EXCEPT ![p] = entries[p]]
  BY <1>1, DrainingFacts
<1>3. entries' = [entries EXCEPT ![p] = e]
  BY <1>2 DEF EndDrain, SetEntry
<1>4. /\ e \in EntryType /\ e.owner = o
      /\ e.failed_cleanup_cursor = entries[p].failed_cleanup_cursor
      /\ e.release_return_state = entries[p].release_return_state
      /\ \/ e.module = "CallbacksQuiesced" /\ e.state = "Drained"
         \/ e = entries[p]
  BY <1>2 DEF EntryType, States, ModuleStates
<1>5. o \in tombstones
  BY <1>1, <1>2 DEF IInv, RegistrationsOK
<1>6. KeepsHold(o, e)
  <2>1. EntryOK(e)
    BY <1>2, <1>4, ModuleTable DEF EntryOK
  <2> QED
    BY <1>1, <1>2, <1>3, <1>4, <2>1 DEF KeepsHold
<1>7. KeepsRecord(o, e)
  <2>1. e.state \in {"Drained", "Draining"}
    BY <1>2, <1>4
  <2>2. records'[o] \in RecordOf(e.state)
    BY <1>1, <1>2, <2>1, RecordTable
  <2> QED
    BY <1>1, <1>2, <2>2 DEF KeepsRecord
<1>8. KeepsRegistrations(o, e)
  <2>1. e.failed_cleanup_cursor = entries[owner_paths[o]].failed_cleanup_cursor
    BY <1>2, <1>4
  <2> HIDE DEF e
  <2> QED
    BY <1>1, <1>2, <1>5, <2>1, SameRegistrations
<1>9. KeepsCalls(o, e)
  BY <1>1, <1>2 DEF KeepsCalls, NotBusy
<1>10. KeepsExports(o, e)
  <2>1. quiesces => Before(o)
    BY <1>1, <1>2 DEF Before, Quiesced, CanWaitForCallbacks
  <2>2. ~quiesces => Before(o) \/ e.module \in Quiesced \ {"CallbacksQuiesced"}
    BY <1>1, <1>2, <1>4, BeforeOrAfter
  <2> QED
    BY <1>1, <1>2, <2>1, <2>2, SameExports
<1>11. TypeOK'
  BY <1>1, <1>2, <1>3, <1>4 DEF IInv, TypeOK, HostTypeOK, history, NotBusy, Methods
<1>12. BusyOK'
  BY <1>1, IdleBusyOK DEF Finish
<1> QED
  BY <1>2, <1>6, <1>7, <1>8, <1>9, <1>10, <1>11, <1>12, HeldStepOK

-----------------------------------------------------------------------------
(* invoke_native_unload *)

LEMMA BeginNativeUnloadOK ==
    ASSUME IInv, ~StaleTokens, NEW o \in Owners, BeginNativeUnload(o)
    PROVE  IInv'
<1> DEFINE p == owner_paths[o]
           e == entries[p]
<1>1. /\ Placed(o) /\ Idle /\ e.state = "Drained" /\ e.owner = o
      /\ busy' = [method |-> "invoke_native_unload", owner |-> o, path |-> p]
      /\ unload_calls' = [unload_calls EXCEPT ![o] = @ + 1]
  BY FreshToken DEF BeginNativeUnload, Become, CallUnloadExport
<1>2. /\ UNCHANGED <<flags, records, cleanup_cursor, active_by_signature, last_generation,
                     closed_gates, call, ownership, registered, tombstones,
                     unfenced, swept>>
      /\ UNCHANGED <<entries, owner_paths, startup_open, launch_attempted, load_calls>>
  BY DEF BeginNativeUnload, hostVars, hostRecords, registrations, managerVars
<1>3. /\ e \in EntryType /\ EntryOK(e) /\ p \in Paths /\ o # None
      /\ records[o] \in RecordOf(e.state) /\ entries = [entries EXCEPT ![p] = e]
  BY <1>1, HeldFacts DEF IInv, TypeOK
<1>4. e.module = "CallbacksQuiesced" /\ records[o] = "Draining"
  BY <1>1, <1>3, ModuleTable, RecordTable DEF EntryOK
<1>5. KeepsHold(o, e)
  BY <1>1, <1>2, <1>3 DEF KeepsHold
<1>6. KeepsRecord(o, e)
  BY <1>2, <1>3, <1>4 DEF KeepsRecord, IInv, GatesOK
<1>7. KeepsRegistrations(o, e)
  BY <1>1, <1>2, SameRegistrations
<1>8. KeepsCalls(o, e)
  BY <1>1, QuiescedIsSilent DEF KeepsCalls
<1>9. KeepsExports(o, e)
  <2>1. Before(o)
    BY <1>1, <1>4 DEF Before, Quiesced, Idle
  <2>2. unload_calls[o] = 0
    BY <2>1 DEF IInv, UnloadsOK
  <2>3. unload_calls \in [Owners -> Nat]
    BY DEF IInv, TypeOK
  <2>4. unload_calls'[o] = 1 /\ \A b \in Owners \ {o} : unload_calls'[b] = unload_calls[b]
    BY <1>1, <2>2, <2>3
  <2> QED
    BY <1>1, <1>2, <2>4 DEF KeepsExports
<1>10. TypeOK'
  BY <1>1, <1>2, <1>3 DEF IInv, TypeOK, HostTypeOK, Methods
<1>11. BusyOK'
  BY <1>1, <1>2, <1>3 DEF BusyOK, StateIn
<1> QED
  BY <1>5, <1>6, <1>7, <1>8, <1>9, <1>10, <1>11, HeldStepOK

LEMMA EndNativeUnloadOK ==
    ASSUME IInv, EndNativeUnload
    PROVE  IInv'
<1> DEFINE o == busy.owner
           p == busy.path
           e == [entries[p] EXCEPT !.module = "UnloadCallbackComplete",
                                   !.state = "NativeUnloadComplete"]
<1>1. ~Idle /\ busy.method = "invoke_native_unload"
  BY DEF EndNativeUnload, Idle
<1>2. o \in Owners /\ Placed(o) /\ p = owner_paths[o] /\ entries[p].state = "Drained"
  BY <1>1, BusyIsPlaced, MethodTable
<1>3. /\ p \in Paths /\ entries[p] \in EntryType /\ EntryOK(entries[p])
      /\ entries[p].owner = o /\ o # None /\ records[o] \in RecordOf(entries[p].state)
  BY <1>2, HeldFacts
<1>4. entries[p].module = "CallbacksQuiesced" /\ records[o] = "Draining"
  BY <1>2, <1>3, ModuleTable, RecordTable DEF EntryOK
<1>5. /\ UNCHANGED <<flags, records, cleanup_cursor, active_by_signature, last_generation, call,
                     registered, tombstones, unfenced, swept>>
      /\ UNCHANGED <<owner_paths, startup_open, launch_attempted, history>>
      /\ busy' = NotBusy
      /\ entries' = [entries EXCEPT ![p] = e]
      /\ ownership' = [ownership EXCEPT ![o] = IF @ = "absent" THEN @ ELSE "closed"]
      /\ closed_gates \subseteq closed_gates' /\ closed_gates' \subseteq closed_gates \cup {o}
  BY DEF EndNativeUnload, NoCallback, OnlyEntries, Finish, registrations, hostRecords, SetEntry,
         CloseOwnership, CloseGates, GatesClosedWith
<1>6. /\ e \in EntryType /\ e.owner = o /\ e.module = "UnloadCallbackComplete"
      /\ e.failed_cleanup_cursor = entries[p].failed_cleanup_cursor
      /\ e.state = "NativeUnloadComplete"
      /\ e.release_return_state = entries[p].release_return_state
  BY <1>3 DEF EntryType, States, ModuleStates
<1>7. KeepsHold(o, e)
  <2>1. EntryOK(e)
    BY <1>3, <1>6, ModuleTable DEF EntryOK
  <2> QED
    BY <1>2, <1>5, <1>6, <2>1 DEF KeepsHold
<1>8. KeepsRecord(o, e)
  <2>1. o \in closed_gates
    BY <1>2, <1>4 DEF IInv, GatesOK
  <2>2. \A b \in Owners : ownership'[b] # "absent" <=> ownership[b] # "absent"
    BY <1>2, <1>5 DEF IInv, TypeOK, HostTypeOK
  <2> QED
    BY <1>4, <1>5, <1>6, <2>1, <2>2, RecordTable DEF KeepsRecord
<1>9. KeepsRegistrations(o, e)
  BY <1>2, <1>4, <1>5, <1>6, SameRegistrations DEF Quiesced
<1>10. KeepsCalls(o, e)
  BY <1>2, <1>4, <1>5, QuiescedIsSilent DEF KeepsCalls, NotBusy, Quiesced
<1>11. KeepsExports(o, e)
  BY <1>2, <1>5, <1>6, SameExports DEF Quiesced
<1>12. TypeOK'
  BY <1>2, <1>3, <1>5, <1>6 DEF IInv, TypeOK, HostTypeOK, NotBusy, Methods, history
<1>13. BusyOK'
  BY <1>5, IdleBusyOK DEF Finish
<1> QED
  BY <1>2, <1>7, <1>8, <1>9, <1>10, <1>11, <1>12, <1>13, HeldStepOK

-----------------------------------------------------------------------------
(* cleanup_activation_failure *)

LEMMA BeginCleanupOK ==
    ASSUME IInv, ~StaleTokens, NEW o \in Owners, BeginCleanup(o)
    PROVE  IInv'
<1> DEFINE p == owner_paths[o]
           failed == entries[p].state = "ActivationFailed"
           e == IF failed
                THEN [entries[p] EXCEPT !.module = "ShutdownRequested", !.state = "Draining"]
                ELSE entries[p]
<1>1. /\ Placed(o) /\ Idle /\ entries[p].state \in {"ActivationFailed", "Draining"}
      /\ entries[p] = Entry(o)
      /\ busy' = [method |-> "cleanup", owner |-> o, path |-> p]
  BY FreshToken DEF BeginCleanup, Become
<1>2. /\ p \in Paths /\ entries[p] \in EntryType /\ EntryOK(entries[p])
      /\ entries[p].owner = o /\ o # None /\ records[o] \in RecordOf(entries[p].state)
  BY <1>1, HeldFacts
<1>3. /\ failed => entries[p].module = "ActivationFailed"
      /\ ~failed => entries[p].module \in ModulesOf("Draining")
      /\ records[o] \in {"Draining", "Failed"}
      /\ failed => records[o] = "Failed"
  BY <1>1, <1>2, ModuleTable, RecordTable DEF EntryOK
<1>4. /\ UNCHANGED <<flags, records, cleanup_cursor, active_by_signature, last_generation, call,
                     registered, tombstones, unfenced, swept>>
      /\ UNCHANGED <<owner_paths, startup_open, launch_attempted, history>>
      /\ closed_gates \subseteq closed_gates' /\ closed_gates' \subseteq closed_gates \cup {o}
      /\ \/ ownership' = ownership
         \/ ownership' = [ownership EXCEPT ![o] = IF @ = "absent" THEN @ ELSE "closed"]
  BY DEF BeginCleanup, NoCallback, OnlyEntries, registrations, hostRecords, CloseOwnership,
         CloseGates, GatesClosedWith
<1>5. entries' = [entries EXCEPT ![p] = e]
  <2>1. entries = [entries EXCEPT ![p] = entries[p]]
    BY DEF IInv, TypeOK
  <2> QED
    BY <1>1, <2>1 DEF BeginCleanup, SetEntry
<1>6. /\ e \in EntryType /\ e.owner = o /\ e.state = "Draining"
      /\ e.module = IF failed THEN "ShutdownRequested" ELSE entries[p].module
      /\ e.failed_cleanup_cursor = entries[p].failed_cleanup_cursor
      /\ e.release_return_state = entries[p].release_return_state
  <2>1. CASE failed
    BY <1>2, <2>1 DEF EntryType, States, ModuleStates
  <2>2. CASE ~failed
    BY <1>1, <1>2, <2>2
  <2> QED
    BY <2>1, <2>2
<1> HIDE DEF e
<1>7. KeepsHold(o, e)
  <2>1. EntryOK(e)
    BY <1>2, <1>3, <1>6, ModuleTable DEF EntryOK
  <2> QED
    BY <1>1, <1>4, <1>5, <1>6, <2>1 DEF KeepsHold
<1>8. KeepsRecord(o, e)
  <2>1. o \in closed_gates
    BY <1>3 DEF IInv, GatesOK
  <2>2. \A b \in Owners : ownership'[b] # "absent" <=> ownership[b] # "absent"
    BY <1>4 DEF IInv, TypeOK, HostTypeOK
  <2> QED
    BY <1>3, <1>4, <1>6, <2>1, <2>2, RecordTable DEF KeepsRecord
<1>9. KeepsRegistrations(o, e)
  <2>1. e.module \in Quiesced => entries[p].module \in Quiesced
    BY <1>6 DEF Quiesced
  <2> QED
    BY <1>1, <1>4, <1>6, <2>1, SameRegistrations
<1>10. KeepsCalls(o, e)
  BY <1>1, <1>6, QuiescedIsSilent DEF KeepsCalls, Quiesced
<1>11. KeepsExports(o, e)
  <2>1. CASE failed
    <3>1. Before(o)
      BY <1>1, <1>3, <2>1 DEF Before, Quiesced, Idle
    <3> QED
      BY <1>1, <1>4, <3>1, SameExports
  <2>2. CASE ~failed
    BY <1>1, <1>4, <1>6, <2>2, BeforeOrAfter, SameExports DEF Idle
  <2> QED
    BY <2>1, <2>2
<1>12. TypeOK'
  BY <1>1, <1>2, <1>4, <1>5, <1>6 DEF IInv, TypeOK, HostTypeOK, Methods, history
<1>13. BusyOK'
  <2>1. entries'[p] = e
    BY <1>2, <1>5 DEF IInv, TypeOK
  <2> QED
    BY <1>1, <1>2, <1>4, <1>6, <2>1 DEF BusyOK, StateIn
<1> QED
  BY <1>7, <1>8, <1>9, <1>10, <1>11, <1>12, <1>13, HeldStepOK

LEMMA CleanupPhaseOK ==
    ASSUME IInv, NEW succeeds \in BOOLEAN, CleanupPhase(succeeds)
    PROVE  IInv'
<1> DEFINE o == busy.owner
           p == busy.path
           phase == entries[p].failed_cleanup_cursor
           e == IF succeeds THEN [entries[p] EXCEPT !.failed_cleanup_cursor = phase + 1]
                ELSE entries[p]
<1>1. /\ busy.method = "cleanup" /\ phase < 2
      /\ UNCHANGED <<flags, records, cleanup_cursor, active_by_signature, last_generation,
                     closed_gates, call, ownership, owner_paths, startup_open, launch_attempted,
                     history>>
      /\ busy' = IF succeeds THEN busy ELSE NotBusy
      /\ IF succeeds THEN CleanPhaseSucceeds(o, phase) ELSE CleanPhaseFails(o, phase)
  BY DEF CleanupPhase, OnlyEntries, NoHostChange, hostRecords, Finish
<1>2. /\ o \in Owners /\ Placed(o) /\ p = owner_paths[o]
      /\ p \in Paths /\ entries[p] \in EntryType /\ EntryOK(entries[p])
      /\ entries[p].owner = o /\ o # None /\ entries[p].state = "Draining"
      /\ records[o] \in {"Draining", "Failed"}
      /\ o \in closed_gates
      /\ entries = [entries EXCEPT ![p] = entries[p]]
  BY <1>1, DrainingFacts
<1>3. entries' = [entries EXCEPT ![p] = e]
  BY <1>2 DEF CleanupPhase, SetEntry
<1>4. /\ e \in EntryType /\ e.owner = o /\ e.state = "Draining"
      /\ e.module = entries[p].module
      /\ e.failed_cleanup_cursor = IF succeeds THEN phase + 1 ELSE phase
      /\ e.release_return_state = entries[p].release_return_state
      /\ phase \in 0..3
  BY <1>1, <1>2 DEF EntryType
<1> HIDE DEF e
<1>5. KeepsHold(o, e)
  <2>1. EntryOK(e)
    BY <1>2, <1>4 DEF EntryOK
  <2> QED
    BY <1>1, <1>2, <1>3, <1>4, <2>1 DEF KeepsHold
<1>6. KeepsRecord(o, e)
  BY <1>1, <1>2, <1>4, RecordTable DEF KeepsRecord
<1>7. KeepsRegistrations(o, e)
  <2>1. /\ registered' \subseteq registered /\ tombstones \subseteq tombstones'
        /\ registered' \cap tombstones' = {} /\ unfenced' \subseteq unfenced
        /\ phase = 1 /\ CleanPhaseSucceeds(o, phase) => o \in tombstones'
    BY <1>1, <1>2, PhaseOutcome
  <2>2. \A b \in Owners : cleanup_cursor'[b] >= 2 => b \in tombstones'
    BY <1>1, <2>1 DEF IInv, RegistrationsOK
  <2>3. e.failed_cleanup_cursor >= 2 => o \in tombstones'
    <3>1. CASE succeeds
      <4>1. phase + 1 >= 2 => phase = 1
        BY <1>1, <1>4
      <4> QED
        BY <1>1, <1>4, <2>1, <3>1, <4>1
    <3>2. CASE ~succeeds
      BY <1>1, <1>4, <3>2
    <3> QED
      BY <3>1, <3>2
  <2>4. e.module \in Quiesced => o \in tombstones'
    BY <1>2, <1>4, <2>1, QuiescedIsSilent
  <2> QED
    BY <2>1, <2>2, <2>3, <2>4 DEF KeepsRegistrations
<1>8. KeepsCalls(o, e)
  BY <1>1, <1>2, <1>4, QuiescedIsSilent DEF KeepsCalls, NotBusy
<1>9. KeepsExports(o, e)
  BY <1>1, <1>2, <1>4, BeforeOrAfter, SameExports
<1>10. TypeOK'
  <2>1. /\ registered' \in SUBSET Owners /\ tombstones' \in SUBSET Owners
        /\ unfenced' \in SUBSET Owners /\ swept' \in SUBSET Owners
    BY <1>1, <1>2, PhaseOutcome
  <2>2. busy' \in [method : Methods, owner : Owners \cup {None}, path : Paths \cup {None}]
    BY <1>1 DEF NotBusy, Methods, IInv, TypeOK
  <2> QED
    BY <1>1, <1>2, <1>3, <1>4, <2>1, <2>2 DEF IInv, TypeOK, HostTypeOK, history
<1>11. BusyOK'
  <2>1. entries'[p] = e
    BY <1>2, <1>3 DEF IInv, TypeOK
  <2> QED
    BY <1>1, <1>2, <1>4, <2>1 DEF BusyOK, Idle, NotBusy, StateIn
<1> QED
  BY <1>2, <1>5, <1>6, <1>7, <1>8, <1>9, <1>10, <1>11, HeldStepOK

LEMMA CleanupWaitOK ==
    ASSUME IInv, CleanupWait
    PROVE  IInv'
<1> DEFINE o == busy.owner
           p == busy.path
           drains == InFlight(o) = 0 /\ CanWaitForCallbacks(entries[p].module)
           e == IF drains THEN [entries[p] EXCEPT !.module = "CallbacksQuiesced"]
                ELSE entries[p]
<1>1. /\ busy.method = "cleanup" /\ entries[p].failed_cleanup_cursor >= 2
      /\ UNCHANGED <<flags, records, cleanup_cursor, active_by_signature, last_generation,
                     closed_gates, call, ownership, registered, tombstones,
                     unfenced, swept>>
      /\ UNCHANGED <<owner_paths, startup_open, launch_attempted, history>>
      /\ busy' = IF drains THEN [busy EXCEPT !.method = "cleanup_drained"] ELSE NotBusy
  BY DEF CleanupWait, OnlyEntries, hostVars, hostRecords, registrations, Finish
<1>2. /\ o \in Owners /\ Placed(o) /\ p = owner_paths[o]
      /\ p \in Paths /\ entries[p] \in EntryType /\ EntryOK(entries[p])
      /\ entries[p].owner = o /\ o # None /\ entries[p].state = "Draining"
      /\ records[o] \in {"Draining", "Failed"}
      /\ o \in closed_gates
      /\ entries = [entries EXCEPT ![p] = entries[p]]
  BY <1>1, DrainingFacts
<1>3. entries' = [entries EXCEPT ![p] = e]
  BY <1>2 DEF CleanupWait, SetEntry
<1>4. /\ e \in EntryType /\ e.owner = o /\ e.state = "Draining"
      /\ e.module = IF drains THEN "CallbacksQuiesced" ELSE entries[p].module
      /\ e.failed_cleanup_cursor = entries[p].failed_cleanup_cursor
      /\ e.release_return_state = entries[p].release_return_state
  BY <1>2 DEF EntryType, ModuleStates
<1>5. /\ o \in tombstones
      /\ drains => Silent(o) /\ entries[p].module = "ShutdownRequested"
  BY <1>1, <1>2, ZeroIsSilent DEF IInv, RegistrationsOK, CanWaitForCallbacks
<1>6. busy' = IF drains THEN [method |-> "cleanup_drained", owner |-> o, path |-> p] ELSE NotBusy
  <2>1. busy \in [method : Methods, owner : Owners \cup {None}, path : Paths \cup {None}]
    BY DEF IInv, TypeOK
  <2>2. [busy EXCEPT !.method = "cleanup_drained"]
          = [method |-> "cleanup_drained", owner |-> o, path |-> p]
    BY <2>1
  <2> QED
    BY <1>1, <2>2
<1> HIDE DEF e, drains
<1>7. KeepsHold(o, e)
  <2>1. EntryOK(e)
    BY <1>2, <1>4, ModuleTable DEF EntryOK
  <2> QED
    BY <1>1, <1>2, <1>3, <1>4, <2>1 DEF KeepsHold
<1>8. KeepsRecord(o, e)
  BY <1>1, <1>2, <1>4, RecordTable DEF KeepsRecord
<1>9. KeepsRegistrations(o, e)
  BY <1>1, <1>2, <1>4, <1>5, SameRegistrations
<1>10. KeepsCalls(o, e)
  BY <1>2, <1>4, <1>5, <1>6, QuiescedIsSilent DEF KeepsCalls, NotBusy
<1>11. KeepsExports(o, e)
  <2>1. CASE drains
    <3>1. Before(o)
      BY <1>1, <1>2, <1>5, <2>1 DEF Before, Quiesced
    <3> QED
      BY <1>1, <1>2, <3>1, SameExports
  <2>2. CASE ~drains
    BY <1>1, <1>2, <1>4, <2>2, BeforeOrAfter, SameExports
  <2> QED
    BY <2>1, <2>2
<1>12. TypeOK'
  <2>1. busy' \in [method : Methods, owner : Owners \cup {None}, path : Paths \cup {None}]
    BY <1>2, <1>6 DEF NotBusy, Methods
  <2> QED
    BY <1>1, <1>2, <1>3, <1>4, <2>1 DEF IInv, TypeOK, HostTypeOK, history
<1>13. BusyOK'
  <2>1. entries'[p] = e
    BY <1>2, <1>3 DEF IInv, TypeOK
  <2> QED
    BY <1>1, <1>2, <1>4, <1>6, <2>1 DEF BusyOK, Idle, NotBusy, StateIn
<1> QED
  BY <1>2, <1>7, <1>8, <1>9, <1>10, <1>11, <1>12, <1>13, HeldStepOK

LEMMA CleanupResourcesOK ==
    ASSUME IInv, NEW succeeds \in BOOLEAN, CleanupResources(succeeds)
    PROVE  IInv'
<1> DEFINE o == busy.owner
           p == busy.path
           e == IF succeeds THEN [entries[p] EXCEPT !.failed_cleanup_cursor = 3]
                ELSE entries[p]
<1>1. /\ busy.method = "cleanup_drained"
      /\ UNCHANGED <<flags, records, cleanup_cursor, active_by_signature, last_generation,
                     closed_gates, call, ownership, registered, tombstones,
                     unfenced, swept>>
      /\ UNCHANGED <<owner_paths, startup_open, launch_attempted, load_calls>>
  BY DEF CleanupResources, OnlyEntries, hostVars, hostRecords, registrations
<1>2. /\ o \in Owners /\ Placed(o) /\ p = owner_paths[o]
      /\ p \in Paths /\ entries[p] \in EntryType /\ EntryOK(entries[p])
      /\ entries[p].owner = o /\ o # None /\ entries[p].state = "Draining"
      /\ records[o] \in {"Draining", "Failed"}
      /\ o \in closed_gates
      /\ entries = [entries EXCEPT ![p] = entries[p]]
  BY <1>1, DrainingFacts
<1>3. /\ entries' = [entries EXCEPT ![p] = e]
      /\ unload_calls' = IF succeeds THEN [unload_calls EXCEPT ![o] = @ + 1] ELSE unload_calls
  BY <1>2 DEF CleanupResources, SetEntry, CallUnloadExport
<1>4. /\ e \in EntryType /\ e.owner = o /\ e.state = "Draining"
      /\ e.module = entries[p].module
      /\ e.release_return_state = entries[p].release_return_state
  BY <1>2 DEF EntryType
<1>5. entries[p].module = "CallbacksQuiesced"
  BY <1>1 DEF IInv, BusyOK, Idle
<1>6. busy' = IF succeeds THEN [method |-> "cleanup_unload", owner |-> o, path |-> p] ELSE NotBusy
  <2>1. busy \in [method : Methods, owner : Owners \cup {None}, path : Paths \cup {None}]
    BY DEF IInv, TypeOK
  <2>2. [busy EXCEPT !.method = "cleanup_unload"]
          = [method |-> "cleanup_unload", owner |-> o, path |-> p]
    BY <2>1
  <2> QED
    BY <2>2 DEF CleanupResources, Finish
<1>7. Silent(o) /\ o \in tombstones
  BY <1>2, <1>5, QuiescedIsSilent DEF Quiesced
<1> HIDE DEF e
<1>8. KeepsHold(o, e)
  <2>1. EntryOK(e)
    BY <1>2, <1>4 DEF EntryOK
  <2> QED
    BY <1>1, <1>2, <1>3, <1>4, <2>1 DEF KeepsHold
<1>9. KeepsRecord(o, e)
  BY <1>1, <1>2, <1>4, RecordTable DEF KeepsRecord
<1>10. KeepsRegistrations(o, e)
  BY <1>1, <1>7 DEF KeepsRegistrations, IInv, RegistrationsOK
<1>11. KeepsCalls(o, e)
  BY <1>6, <1>7 DEF KeepsCalls, NotBusy
<1>12. KeepsExports(o, e)
  <2>1. Before(o)
    BY <1>1, <1>2, <1>5 DEF Before, Quiesced
  <2>2. unload_calls[o] = 0 /\ unload_calls \in [Owners -> Nat]
    BY <1>2, <2>1 DEF IInv, UnloadsOK, TypeOK
  <2>3. /\ unload_calls'[o] = IF succeeds THEN 1 ELSE 0
        /\ \A b \in Owners \ {o} : unload_calls'[b] = unload_calls[b]
    BY <1>2, <1>3, <2>2
  <2> QED
    BY <1>1, <1>6, <2>3 DEF KeepsExports
<1>13. TypeOK'
  <2>1. busy' \in [method : Methods, owner : Owners \cup {None}, path : Paths \cup {None}]
    BY <1>2, <1>6 DEF NotBusy, Methods
  <2>2. unload_calls' \in [Owners -> Nat]
    BY <1>2, <1>3 DEF IInv, TypeOK
  <2> QED
    BY <1>1, <1>2, <1>3, <1>4, <2>1, <2>2 DEF IInv, TypeOK, HostTypeOK
<1>14. BusyOK'
  <2>1. entries'[p] = e
    BY <1>2, <1>3 DEF IInv, TypeOK
  <2> QED
    BY <1>1, <1>2, <1>4, <1>5, <1>6, <2>1 DEF BusyOK, Idle, NotBusy, StateIn
<1> QED
  BY <1>2, <1>8, <1>9, <1>10, <1>11, <1>12, <1>13, <1>14, HeldStepOK

-----------------------------------------------------------------------------
(* Releases *)

\* finish_successful_release of a module that quiesced.
LEMMA SuccessfulReleaseOK ==
    ASSUME IInv, NEW o \in Owners, NEW entry \in EntryType, NEW acknowledge,
           Placed(o), Idle \/ busy.owner = o,
           entries[owner_paths[o]].module \in Quiesced,
           entry.release_return_state \in Resting \cup {None},
           FinishSuccessfulRelease(owner_paths[o], entry, o, acknowledge),
           busy'.method = "none",
           busy' \in [method : Methods, owner : Owners \cup {None}, path : Paths \cup {None}],
           OnlyEntries, NoCallback, UNCHANGED <<closed_gates, history>>
    PROVE  IInv'
<1> DEFINE p == owner_paths[o]
           next == IF entry.release_return_state # None THEN entry.release_return_state
                   ELSE IF entry.present THEN "Unloaded" ELSE "Removed"
           e == [entry EXCEPT !.module = "None", !.owner = None, !.state = next,
                              !.release_return_state = None, !.release_needs_host_ack = FALSE]
<1>1. /\ p \in Paths /\ o # None /\ records[o] \in RecordStates
      /\ ownership \in [Owners -> {"absent", "accepting", "closed"}]
  BY HeldFacts DEF IInv, TypeOK, HostTypeOK
<1>2. next \in Resting /\ next \in States
  BY DEF Resting, States
<1> HIDE DEF next
<1>3. e \in EntryType /\ EntryOK(e) /\ e.owner = None
  BY <1>2 DEF EntryType, EntryOK, ModuleStates
<1>4. /\ entries' = [entries EXCEPT ![p] = e]
      /\ ownership' = [ownership EXCEPT ![o] = "absent"]
  BY <1>1 DEF FinishSuccessfulRelease, SetEntry, Retire, next
<1>5. /\ UNCHANGED <<cleanup_cursor, last_generation>>
      /\ \/ records' = records /\ active_by_signature' = active_by_signature
         \/ /\ records' = [records EXCEPT ![o] = "Unloaded"]
            /\ active_by_signature' \in [Signatures -> Owners \cup {None}]
  <2>1. active_by_signature \in [Signatures -> Owners \cup {None}]
    BY DEF IInv, TypeOK, HostTypeOK
  <2> QED
    BY <2>1 DEF FinishSuccessfulRelease, AcknowledgeModuleReleased, SetRecord, Unclaim,
                hostRecords
<1> HIDE DEF e
<1>6. LetsGo(o, e)
  <2>1. /\ \A b \in Owners \ {o} : records'[b] = records[b]
        /\ records'[o] \in {records[o], "Unloaded"}
    BY <1>5 DEF IInv, TypeOK, HostTypeOK
  <2> QED
    BY <1>3, <1>4, <1>5, <2>1 DEF LetsGo, OnlyEntries, NoCallback
<1>7. TypeOK'
  BY <1>1, <1>3, <1>4, <1>5 DEF IInv, TypeOK, HostTypeOK, OnlyEntries, NoCallback, registrations,
                                history, RecordStates
<1>8. BusyOK'
  BY DEF BusyOK, Idle
<1> QED
  BY <1>6, <1>7, <1>8, ReleaseStep DEF IInv, IRest

\* A release that failed, or whose outcome is unknown, keeps the entry's owner.
LEMMA FailedReleaseOK ==
    ASSUME IInv, NEW o \in Owners, NEW e \in EntryType,
           Placed(o), Idle \/ busy.owner = o,
           entries[owner_paths[o]].module \in Quiesced,
           records[o] \in {"Draining", "Failed"},
           e.owner = o, EntryOK(e), e.module \in Quiesced \ {"CallbacksQuiesced"},
           records[o] \in RecordOf(e.state),
           entries' = [entries EXCEPT ![owner_paths[o]] = e],
           busy'.method = "none",
           busy' \in [method : Methods, owner : Owners \cup {None}, path : Paths \cup {None}],
           UNCHANGED <<hostRecords, ownership>>,
           OnlyEntries, NoCallback, UNCHANGED <<closed_gates, history>>
    PROVE  IInv'
<1>1. /\ UNCHANGED <<flags, records, cleanup_cursor, active_by_signature, last_generation, call,
                     registered, tombstones, unfenced, swept, ownership, closed_gates>>
      /\ UNCHANGED <<owner_paths, startup_open, launch_attempted, load_calls, unload_calls>>
  BY DEF hostRecords, OnlyEntries, NoCallback, registrations, history
<1>2. Silent(o) /\ o \in tombstones
  BY QuiescedIsSilent
<1>3. KeepsHold(o, e)
  BY <1>1 DEF KeepsHold
<1>4. KeepsRecord(o, e)
  <2>1. o \in closed_gates
    BY DEF IInv, GatesOK
  <2> QED
    BY <1>1, <2>1 DEF KeepsRecord
<1>5. KeepsRegistrations(o, e)
  BY <1>1, <1>2 DEF KeepsRegistrations, IInv, RegistrationsOK
<1>6. KeepsCalls(o, e)
  BY <1>2 DEF KeepsCalls
<1>7. KeepsExports(o, e)
  BY <1>1 DEF KeepsExports, IInv, UnloadsOK
<1>8. TypeOK'
  BY <1>1, HeldFacts DEF IInv, TypeOK, HostTypeOK
<1>9. BusyOK'
  BY DEF BusyOK, Idle
<1> QED
  BY <1>3, <1>4, <1>5, <1>6, <1>7, <1>8, <1>9, HeldStepOK

LEMMA ReleaseCleanedOK ==
    ASSUME IInv, NEW o \in Owners, NEW entry \in EntryType, NEW acknowledge \in BOOLEAN,
           Placed(o), Idle \/ busy.owner = o,
           entries[owner_paths[o]].module \in Quiesced,
           records[o] \in {"Draining", "Failed"},
           entry.owner = o, entry.release_return_state \in Resting \cup {None},
           ReleaseCleaned(owner_paths[o], entry, o, acknowledge),
           busy'.method = "none",
           busy' \in [method : Methods, owner : Owners \cup {None}, path : Paths \cup {None}],
           OnlyEntries, NoCallback, UNCHANGED <<closed_gates, history>>
    PROVE  IInv'
<1>1. PICK left \in {"None", "HostCleanupComplete", "ReleaseUncertain"} :
          IF left = "None" THEN FinishSuccessfulRelease(owner_paths[o], entry, o, acknowledge)
          ELSE /\ SetEntry(owner_paths[o], [entry EXCEPT
                      !.module = left, !.state = "ReleaseFailed",
                      !.release_needs_host_ack = acknowledge,
                      !.release_return_state = IF entry.present THEN "Unloaded" ELSE "Removed"])
               /\ UNCHANGED <<hostRecords, ownership>>
  BY DEF ReleaseCleaned, ReleaseOutcomes, Releasable
<1>2. CASE left = "None"
  BY <1>1, <1>2, SuccessfulReleaseOK
<1>3. CASE left # "None"
  <2> DEFINE e == [entry EXCEPT
                      !.module = left, !.state = "ReleaseFailed",
                      !.release_needs_host_ack = acknowledge,
                      !.release_return_state = IF entry.present THEN "Unloaded" ELSE "Removed"]
  <2>1. /\ e \in EntryType /\ e.owner = o /\ e.module = left /\ e.state = "ReleaseFailed"
        /\ e.release_return_state \in Resting
    BY <1>1, <1>3 DEF EntryType, States, ModuleStates, Resting
  <2>2. entries' = [entries EXCEPT ![owner_paths[o]] = e] /\ UNCHANGED <<hostRecords, ownership>>
    BY <1>1, <1>3 DEF SetEntry
  <2> HIDE DEF e
  <2>3. EntryOK(e)
    BY <1>1, <1>3, <2>1, NoneIsNoOwner, ModuleTable DEF EntryOK
  <2>4. e.module \in Quiesced \ {"CallbacksQuiesced"} /\ records[o] \in RecordOf(e.state)
    BY <1>1, <1>3, <2>1, RecordTable DEF Quiesced
  <2> QED
    BY <2>1, <2>2, <2>3, <2>4, FailedReleaseOK
<1> QED
  BY <1>2, <1>3

LEMMA FinishUnloadOK ==
    ASSUME IInv, ~StaleTokens, NEW o \in Owners, FinishUnload(o)
    PROVE  IInv'
<1>1. /\ Placed(o) /\ Idle /\ entries[owner_paths[o]].state = "NativeUnloadComplete"
      /\ ReleaseCleaned(owner_paths[o], entries[owner_paths[o]], o, TRUE)
      /\ OnlyEntries /\ NoCallback /\ UNCHANGED <<closed_gates, history>> /\ busy' = busy
  BY FreshToken DEF FinishUnload
<1>2. /\ entries[owner_paths[o]] \in EntryType /\ EntryOK(entries[owner_paths[o]])
      /\ entries[owner_paths[o]].owner = o /\ o # None
      /\ records[o] \in RecordOf(entries[owner_paths[o]].state)
  BY <1>1, HeldFacts
<1>3. entries[owner_paths[o]].module \in Quiesced /\ records[o] = "Draining"
  BY <1>1, <1>2, ModuleTable, RecordTable DEF EntryOK, Quiesced
<1>4. /\ busy'.method = "none"
      /\ busy' \in [method : Methods, owner : Owners \cup {None}, path : Paths \cup {None}]
  BY <1>1 DEF IInv, TypeOK, Idle
<1>5. entries[owner_paths[o]].release_return_state \in Resting \cup {None}
  BY <1>2 DEF EntryOK
<1> QED
  BY <1>1, <1>2, <1>3, <1>4, <1>5, ReleaseCleanedOK

LEMMA EndCleanupOK ==
    ASSUME IInv, NEW returned \in BOOLEAN, EndCleanup(returned)
    PROVE  IInv'
<1> DEFINE o == busy.owner
           p == busy.path
           entry == [entries[p] EXCEPT !.module = "UnloadCallbackComplete"]
           done == [entry EXCEPT !.state = "NativeUnloadComplete"]
<1>1. /\ busy.method = "cleanup_unload" /\ busy' = NotBusy
      /\ OnlyEntries /\ NoCallback /\ UNCHANGED <<closed_gates, history>>
      /\ returned => ReleaseCleaned(p, done, o, FALSE)
      /\ ~returned => SetEntry(p, entry) /\ UNCHANGED <<hostRecords, ownership>>
  BY DEF EndCleanup, Finish
<1>2. /\ o \in Owners /\ Placed(o) /\ p = owner_paths[o]
      /\ p \in Paths /\ entries[p] \in EntryType /\ EntryOK(entries[p])
      /\ entries[p].owner = o /\ o # None /\ entries[p].state = "Draining"
      /\ records[o] \in {"Draining", "Failed"}
  BY <1>1, DrainingFacts
<1>3. entries[p].module \in Quiesced
  BY <1>1 DEF IInv, BusyOK, Idle, Quiesced
<1>4. /\ busy'.method = "none"
      /\ busy' \in [method : Methods, owner : Owners \cup {None}, path : Paths \cup {None}]
  BY <1>1 DEF NotBusy, Methods
<1>5. /\ entry \in EntryType /\ entry.owner = o /\ entry.state = "Draining"
      /\ entry.module = "UnloadCallbackComplete"
      /\ entry.release_return_state = entries[p].release_return_state
      /\ done \in EntryType /\ done.owner = o
      /\ done.release_return_state = entries[p].release_return_state
  BY <1>2 DEF EntryType, ModuleStates, States
<1>6. entries[p].release_return_state \in Resting \cup {None}
  BY <1>2 DEF EntryOK
<1> HIDE DEF entry, done
<1>7. CASE returned
  BY <1>1, <1>2, <1>3, <1>4, <1>5, <1>6, <1>7, ReleaseCleanedOK
<1>8. CASE ~returned
  <2>1. EntryOK(entry)
    BY <1>2, <1>5, <1>6, ModuleTable DEF EntryOK
  <2>2. entry.module \in Quiesced \ {"CallbacksQuiesced"} /\ records[o] \in RecordOf(entry.state)
    BY <1>2, <1>5, RecordTable DEF Quiesced
  <2>3. entries' = [entries EXCEPT ![owner_paths[o]] = entry] /\ UNCHANGED <<hostRecords, ownership>>
    BY <1>1, <1>2, <1>8 DEF SetEntry
  <2> QED
    BY <1>1, <1>2, <1>3, <1>4, <1>5, <2>1, <2>2, <2>3, FailedReleaseOK
<1> QED
  BY <1>7, <1>8

\* One entry without an owner changes, and stays without one.
LEMMA SpareOne ==
    ASSUME IInv, NEW p \in Paths, entries[p].owner = None,
           NEW e \in EntryType, EntryOK(e), e.owner = None,
           entries' = [entries EXCEPT ![p] = e],
           last_generation' \in [Signatures -> 0..MaxGeneration],
           \A g \in Signatures : last_generation'[g] >= last_generation[g],
           launch_attempted \subseteq launch_attempted',
           UNCHANGED <<flags, records, cleanup_cursor, ownership, closed_gates, call,
                       registrations, owner_paths, busy, history>>
    PROVE  Spares
<1>1. entries \in [Paths -> EntryType] /\ \A q \in Paths : EntryOK(entries[q])
  BY DEF IInv, TypeOK, EntriesOK
<1>2. entries' \in [Paths -> EntryType]
  BY <1>1
<1>3. ASSUME NEW q \in Paths
      PROVE  /\ EntryOK(entries'[q])
             /\ entries'[q].owner = entries[q].owner
             /\ entries[q].owner # None => entries'[q] = entries[q]
  <2>1. CASE q = p
    BY <1>1, <2>1
  <2>2. CASE q # p
    BY <1>1, <2>2
  <2> QED
    BY <2>1, <2>2
<1> QED
  BY <1>2, <1>3 DEF Spares

\* A rejected module is released, or stays in an entry that waits for its release.
LEMMA RejectedEntry ==
    ASSUME NEW e \in EntryType, EntryOK(e), e.owner = None, e.module = "None",
           NEW back \in Resting,
           NEW left \in {"None", "Inspected", "ReleaseUncertain"},
           NEW f, f = IF left = "None" THEN [e EXCEPT !.state = back]
                      ELSE [e EXCEPT !.module = left, !.state = "ReleaseFailed",
                                     !.release_needs_host_ack = FALSE,
                                     !.release_return_state = back]
    PROVE  f \in EntryType /\ EntryOK(f) /\ f.owner = None
<1>1. back \in States
  BY DEF Resting, States
<1>2. CASE left = "None"
  BY <1>1, <1>2 DEF EntryType, EntryOK
<1>3. CASE left # "None"
  BY <1>1, <1>3 DEF EntryType, EntryOK, States, ModuleStates
<1> QED
  BY <1>2, <1>3

LEMMA RejectSpares ==
    ASSUME IInv, NEW p \in Paths, entries[p].state \in Resting, NEW back \in Resting,
           Reject(p, back),
           last_generation' \in [Signatures -> 0..MaxGeneration],
           \A g \in Signatures : last_generation'[g] >= last_generation[g],
           launch_attempted \subseteq launch_attempted',
           UNCHANGED <<flags, records, cleanup_cursor, ownership, closed_gates, call,
                       registrations, owner_paths, busy, history>>
    PROVE  Spares
<1>1. entries[p] \in EntryType /\ EntryOK(entries[p])
  BY DEF IInv, TypeOK, EntriesOK
<1>2. entries[p].owner = None /\ entries[p].module = "None"
  <2>1. entries[p].owner = None
    BY <1>1, NoOwnerAtRest
  <2> QED
    BY <1>1, <2>1 DEF EntryOK, Resting
<1>3. PICK left \in {"None", "Inspected", "ReleaseUncertain"} :
          SetEntry(p, IF left = "None" THEN [entries[p] EXCEPT !.state = back]
                      ELSE [entries[p] EXCEPT
                              !.module = left, !.state = "ReleaseFailed",
                              !.release_needs_host_ack = FALSE,
                              !.release_return_state = back])
  BY DEF Reject, ReleaseOutcomes, Releasable
<1>4. PICK f : /\ f = IF left = "None" THEN [entries[p] EXCEPT !.state = back]
                      ELSE [entries[p] EXCEPT
                              !.module = left, !.state = "ReleaseFailed",
                              !.release_needs_host_ack = FALSE,
                              !.release_return_state = back]
               /\ entries' = [entries EXCEPT ![p] = f]
  BY <1>3 DEF SetEntry
<1>5. f \in EntryType /\ EntryOK(f) /\ f.owner = None
  BY <1>1, <1>2, <1>4, RejectedEntry
<1> QED
  BY <1>2, <1>4, <1>5, SpareOne

LEMMA RetryReleaseOK ==
    ASSUME IInv, NEW p \in Paths, RetryRelease(p)
    PROVE  IInv'
<1> DEFINE o == entries[p].owner
           m == entries[p].module
           acknowledge == entries[p].release_needs_host_ack
<1>1. PICK left \in ReleaseOutcomes(m) :
          IF left = "None" THEN FinishSuccessfulRelease(p, entries[p], o, acknowledge)
          ELSE /\ SetEntry(p, [entries[p] EXCEPT !.module = left])
               /\ UNCHANGED <<hostRecords, ownership>>
  BY DEF RetryRelease
<1>2. /\ Idle /\ entries[p].state = "ReleaseFailed" /\ busy' = busy
      /\ OnlyEntries /\ NoCallback /\ UNCHANGED <<closed_gates, history>>
  BY DEF RetryRelease
<1>3. entries[p] \in EntryType /\ EntryOK(entries[p])
  BY DEF IInv, TypeOK, EntriesOK
<1>4. /\ busy'.method = "none"
      /\ busy' \in [method : Methods, owner : Owners \cup {None}, path : Paths \cup {None}]
  BY <1>2 DEF IInv, TypeOK, Idle
<1>5. entries[p].release_return_state \in Resting \cup {None}
  BY <1>3 DEF EntryOK
<1>6. CASE o # None
  <2>1. o \in Owners /\ owner_paths[o] = p /\ Placed(o)
    <3>1. o \in Owners /\ owner_paths[o] = p
      BY <1>3, <1>6 DEF EntryType, IInv, OwnersOK
    <3> QED
      BY <3>1, NoneIsNoPath DEF Placed
  <2>2. m \in {"HostCleanupComplete", "ReleaseUncertain"} /\ records[o] \in {"Draining", "Failed"}
    BY <1>2, <1>3, <1>6, ModuleTable, RecordTable DEF EntryOK, IInv, OwnersOK
  <2>3. m \in Quiesced
    BY <2>2 DEF Quiesced
  <2>4. CASE left = "None"
    <3>1. FinishSuccessfulRelease(owner_paths[o], entries[p], o, acknowledge)
      BY <1>1, <2>1, <2>4
    <3> QED
      BY <1>2, <1>3, <1>4, <1>5, <2>1, <2>3, <3>1, SuccessfulReleaseOK
  <2>5. CASE left # "None"
    <3> DEFINE e == [entries[p] EXCEPT !.module = left]
    <3>1. left \in {"HostCleanupComplete", "ReleaseUncertain"}
      BY <1>1, <2>2, <2>5 DEF ReleaseOutcomes, Releasable
    <3>2. /\ e \in EntryType /\ e.owner = o /\ e.module = left /\ e.state = "ReleaseFailed"
          /\ e.release_return_state = entries[p].release_return_state
      BY <1>2, <1>3, <3>1 DEF EntryType, ModuleStates
    <3>3. entries' = [entries EXCEPT ![owner_paths[o]] = e] /\ UNCHANGED <<hostRecords, ownership>>
      BY <1>1, <2>1, <2>5 DEF SetEntry
    <3> HIDE DEF e
    <3>4. EntryOK(e)
      BY <1>5, <1>6, <3>1, <3>2, ModuleTable DEF EntryOK
    <3>5. e.module \in Quiesced \ {"CallbacksQuiesced"} /\ records[o] \in RecordOf(e.state)
      BY <2>2, <3>1, <3>2, RecordTable DEF Quiesced
    <3> QED
      BY <1>2, <1>4, <2>1, <2>2, <2>3, <3>2, <3>3, <3>4, <3>5, FailedReleaseOK
  <2> QED
    BY <2>4, <2>5
<1>7. CASE o = None
  <2>1. m \in {"Inspected", "ReleaseUncertain"}
    BY <1>2, <1>3, <1>7 DEF EntryOK, Resting
  <2>2. PICK e \in EntryType : EntryOK(e) /\ e.owner = None /\ entries' = [entries EXCEPT ![p] = e]
    <3>1. CASE left = "None"
      <4> DEFINE next == IF entries[p].release_return_state # None
                         THEN entries[p].release_return_state
                         ELSE IF entries[p].present THEN "Unloaded" ELSE "Removed"
                 f == [entries[p] EXCEPT !.module = "None", !.owner = None, !.state = next,
                                         !.release_return_state = None,
                                         !.release_needs_host_ack = FALSE]
      <4>1. next \in Resting /\ next \in States
        BY <1>5 DEF Resting, States
      <4>2. f \in EntryType /\ EntryOK(f) /\ f.owner = None
        <5> HIDE DEF next
        <5> QED
          BY <1>3, <4>1 DEF EntryType, EntryOK, ModuleStates
      <4>3. entries' = [entries EXCEPT ![p] = f]
        BY <1>1, <3>1 DEF FinishSuccessfulRelease, SetEntry
      <4> QED
        BY <4>2, <4>3
    <3>2. CASE left # "None"
      <4>1. left \in {"Inspected", "ReleaseUncertain"}
        BY <1>1, <2>1, <3>2 DEF ReleaseOutcomes, Releasable
      <4>2. [entries[p] EXCEPT !.module = left] \in EntryType
        BY <1>3, <4>1 DEF EntryType, ModuleStates
      <4>3. EntryOK([entries[p] EXCEPT !.module = left])
        BY <1>2, <1>3, <1>7, <4>1 DEF EntryOK, EntryType
      <4>4. [entries[p] EXCEPT !.module = left].owner = None
        BY <1>3, <1>7 DEF EntryType
      <4>5. entries' = [entries EXCEPT ![p] = [entries[p] EXCEPT !.module = left]]
        BY <1>1, <3>2 DEF SetEntry
      <4> QED
        BY <4>2, <4>3, <4>4, <4>5
    <3> QED
      BY <3>1, <3>2
  <2>3. UNCHANGED <<hostRecords, ownership>>
    BY <1>1, <1>7 DEF FinishSuccessfulRelease
  <2>4. last_generation' = last_generation /\ last_generation \in [Signatures -> 0..MaxGeneration]
    BY <2>3 DEF hostRecords, IInv, TypeOK, HostTypeOK
  <2>5. \A g \in Signatures : last_generation'[g] >= last_generation[g]
    BY <2>4, MaxGenerationIsNat
  <2>6. UNCHANGED <<flags, records, cleanup_cursor, ownership, closed_gates, call,
                    registrations, owner_paths, busy, history, launch_attempted>>
    BY <1>2, <2>3 DEF hostRecords, OnlyEntries, NoCallback
  <2>7. Spares
    BY <1>7, <2>2, <2>4, <2>5, <2>6, SpareOne
  <2>8. /\ active_by_signature' = active_by_signature
        /\ launch_attempted' \in SUBSET Signatures /\ startup_open' \in BOOLEAN
    BY <1>2, <2>3 DEF hostRecords, OnlyEntries, IInv, TypeOK
  <2> QED
    BY <2>7, <2>8, SparingKeeps
<1> QED
  BY <1>6, <1>7

-----------------------------------------------------------------------------
(* inspect *)

\* The generation counter of g is exhausted, or its next token is a new one.
LEMMA NextTokenIsNew ==
    ASSUME IInv, NEW g \in Signatures, last_generation[g] # MaxGeneration
    PROVE  /\ NextToken(g) \in Owners /\ NextToken(g).signature = g
           /\ NextToken(g).generation = last_generation[g] + 1
           /\ last_generation[g] \in Nat /\ last_generation[g] + 1 \in 0..MaxGeneration
           /\ records[NextToken(g)] = "None" /\ owner_paths[NextToken(g)] = None
<1>1. last_generation[g] \in 0..MaxGeneration
  BY DEF IInv, TypeOK, HostTypeOK
<1>2. last_generation[g] + 1 \in 1..MaxGeneration
  BY <1>1, MaxGenerationIsNat
<1>3. /\ NextToken(g) \in Owners /\ NextToken(g).signature = g
      /\ NextToken(g).generation = last_generation[g] + 1
  BY <1>2 DEF NextToken, Owners
<1>4. records[NextToken(g)] = "None"
  <2> SUFFICES ASSUME records[NextToken(g)] # "None" PROVE FALSE
    OBVIOUS
  <2>1. NextToken(g).generation <= last_generation[NextToken(g).signature]
    BY <1>3 DEF IInv, GenerationsOK
  <2> QED
    BY <1>1, <1>3, <2>1
<1>5. owner_paths[NextToken(g)] = None
  BY <1>3, <1>4 DEF IInv, GenerationsOK
<1> QED
  BY <1>1, <1>2, <1>3, <1>4, <1>5, MaxGenerationIsNat

\* The inspection that publishes a new generation.
Admits(p, g, o) ==
    /\ Idle /\ entries[p].state \in Resting
    /\ last_generation[g] # MaxGeneration /\ o = NextToken(g)
    /\ ~PublishRefused(o)
    /\ "LAUNCH_ONLY" \in flags[g] => g \notin launch_attempted /\ g \in launch_attempted'
    /\ launch_attempted \subseteq launch_attempted' /\ launch_attempted' \in SUBSET Signatures
    /\ Discover(g) /\ Publish(o)
    /\ entries' = [entries EXCEPT ![p] =
          [entries[p] EXCEPT !.module = "Inspected", !.owner = o, !.state = "Inspected",
                             !.failed_cleanup_cursor = 0]]
    /\ owner_paths' = [owner_paths EXCEPT ![o] = p]
    /\ NoCallback /\ UNCHANGED <<closed_gates, startup_open, busy, history>>

LEMMA AdmitsOK ==
    ASSUME IInv, NEW p \in Paths, NEW g \in Signatures, NEW o, Admits(p, g, o)
    PROVE  IInv'
<1> DEFINE e == [entries[p] EXCEPT !.module = "Inspected", !.owner = o, !.state = "Inspected",
                                   !.failed_cleanup_cursor = 0]
<1>1. /\ o \in Owners /\ o.signature = g /\ o.generation = last_generation[g] + 1 /\ o # None
      /\ last_generation[g] \in Nat /\ last_generation[g] + 1 \in 0..MaxGeneration
      /\ records[o] = "None" /\ owner_paths[o] = None
  BY NextTokenIsNew, NoneIsNoOwner DEF Admits
<1>2. /\ entries \in [Paths -> EntryType] /\ EntryOK(entries[p])
      /\ owner_paths \in [Owners -> Paths \cup {None}]
      /\ records \in [Owners -> RecordStates]
      /\ ownership \in [Owners -> {"absent", "accepting", "closed"}]
      /\ last_generation \in [Signatures -> 0..MaxGeneration]
  BY DEF IInv, TypeOK, HostTypeOK, EntriesOK
<1>3. entries[p].owner = None /\ Idle
  BY <1>2, NoOwnerAtRest DEF Admits
<1>4. /\ e \in EntryType /\ e.owner = o /\ e.module = "Inspected" /\ e.state = "Inspected"
      /\ e.failed_cleanup_cursor = 0
      /\ e.release_return_state = entries[p].release_return_state
  <2>1. entries[p] \in EntryType
    BY <1>2
  <2>2. "Inspected" \in States /\ "Inspected" \in ModuleStates /\ 0 \in 0..3
    BY DEF States, ModuleStates
  <2> QED
    BY <1>1, <2>1, <2>2 DEF EntryType
<1>5. EntryOK(e)
  BY <1>1, <1>2, <1>4, ModuleTable DEF EntryOK
<1>6. /\ entries' = [entries EXCEPT ![p] = e]
      /\ owner_paths' = [owner_paths EXCEPT ![o] = p]
      /\ records' = [records EXCEPT ![o] = "Discovered"]
      /\ ownership' = [ownership EXCEPT ![o] = "accepting"]
      /\ last_generation' = [last_generation EXCEPT ![g] = @ + 1]
      /\ UNCHANGED <<flags, cleanup_cursor, closed_gates, call, registered, tombstones,
                     unfenced, swept, startup_open, busy, load_calls, unload_calls>>
  BY DEF Admits, Discover, BumpGeneration, Publish, NoCallback, registrations, history
<1> HIDE DEF e
<1>7. /\ entries'[p] = e /\ \A q \in Paths \ {p} : entries'[q] = entries[q]
      /\ owner_paths'[o] = p /\ \A b \in Owners \ {o} : owner_paths'[b] = owner_paths[b]
      /\ records'[o] = "Discovered" /\ \A b \in Owners \ {o} : records'[b] = records[b]
      /\ ownership'[o] # "absent" /\ \A b \in Owners \ {o} : ownership'[b] = ownership[b]
  BY <1>1, <1>2, <1>6
<1>8. \A b \in Owners \ {o} :
          /\ Placed(b)' <=> Placed(b)
          /\ Placed(b) => entries'[owner_paths'[b]] = entries[owner_paths[b]]
  <2> SUFFICES ASSUME NEW b \in Owners \ {o}
               PROVE  /\ Placed(b)' <=> Placed(b)
                      /\ Placed(b) => entries'[owner_paths'[b]] = entries[owner_paths[b]]
    OBVIOUS
  <2>1. owner_paths'[b] = owner_paths[b] /\ owner_paths[b] \in Paths \cup {None}
    BY <1>2, <1>7
  <2>2. b # None
    BY NoneIsNoOwner
  <2> QED
    BY <1>3, <1>4, <1>7, <2>1, <2>2 DEF Placed
<1>9. Placed(o)' /\ ~Placed(o)
  BY <1>1, <1>4, <1>7, NoneIsNoPath DEF Placed
<1>10. TypeOK'
  <2>1. active_by_signature' \in [Signatures -> Owners \cup {None}]
    BY <1>1 DEF Admits, Discover, IInv, TypeOK, HostTypeOK
  <2>2. last_generation' \in [Signatures -> 0..MaxGeneration]
    BY <1>1, <1>2, <1>6
  <2>3. records' \in [Owners -> RecordStates]
    BY <1>2, <1>6 DEF RecordStates
  <2>4. /\ entries' \in [Paths -> EntryType] /\ owner_paths' \in [Owners -> Paths \cup {None}]
        /\ ownership' \in [Owners -> {"absent", "accepting", "closed"}]
    BY <1>2, <1>4, <1>6
  <2>5. launch_attempted' \in SUBSET Signatures
    BY DEF Admits
  <2> QED
    BY <1>6, <2>1, <2>2, <2>3, <2>4, <2>5 DEF IInv, TypeOK, HostTypeOK
<1>11. EntriesOK'
  <2>1. ASSUME NEW q \in Paths PROVE EntryOK(entries'[q])
    BY <1>5, <1>7 DEF IInv, EntriesOK
  <2> QED
    BY <2>1 DEF EntriesOK, EntryOK
<1>12. OwnersOK'
  <2>1. ASSUME NEW q \in Paths, entries'[q].owner # None
        PROVE  /\ owner_paths'[entries'[q].owner] = q
               /\ records'[entries'[q].owner] \in RecordOf(entries'[q].state)
    <3>1. CASE q = p
      BY <1>4, <1>7, <3>1, RecordTable
    <3>2. CASE q # p
      <4>1. entries'[q] = entries[q] /\ entries[q].owner \in Owners
        BY <1>2, <1>7, <2>1, <3>2 DEF EntryType
      <4>2. owner_paths[entries[q].owner] = q
        BY <2>1, <4>1 DEF IInv, OwnersOK
      <4>3. entries[q].owner # o
        BY <1>1, <4>2, NoneIsNoPath
      <4> QED
        BY <1>7, <2>1, <4>1, <4>2, <4>3 DEF IInv, OwnersOK
    <3> QED
      BY <3>1, <3>2
  <2>2. ASSUME NEW b \in Owners, records'[b] \in {"Discovered", "Loaded", "UnloadRequested"}
        PROVE  Placed(b)'
    BY <1>7, <1>8, <1>9, <2>2 DEF IInv, OwnersOK
  <2>3. ASSUME NEW b \in Owners PROVE ownership'[b] # "absent" <=> Placed(b)'
    BY <1>7, <1>8, <1>9 DEF IInv, OwnersOK
  <2>4. \A state : RecordOf(state)' = RecordOf(state)
    BY DEF RecordOf
  <2> QED
    BY <2>1, <2>2, <2>3, <2>4 DEF OwnersOK
<1>13. GenerationsOK'
  <2> SUFFICES ASSUME NEW b \in Owners
               PROVE  /\ owner_paths'[b] # None <=> records'[b] # "None"
                      /\ records'[b] # "None" => b.generation <= last_generation'[b.signature]
    BY DEF GenerationsOK
  <2>1. CASE b = o
    <3>1. last_generation'[g] = last_generation[g] + 1
      BY <1>2, <1>6
    <3> QED
      BY <1>1, <1>7, <2>1, <3>1, NoneIsNoPath
  <2>2. CASE b # o
    <3>1. owner_paths'[b] # None <=> records'[b] # "None"
      BY <1>7, <2>2 DEF IInv, GenerationsOK
    <3>2. ASSUME records'[b] # "None" PROVE b.generation <= last_generation'[b.signature]
      <4>1. b.generation <= last_generation[b.signature]
        BY <1>7, <2>2, <3>2 DEF IInv, GenerationsOK
      <4>2. b.signature \in Signatures /\ b.generation \in Nat
        BY MaxGenerationIsNat DEF Owners
      <4>3. /\ last_generation[b.signature] \in Nat
            /\ last_generation'[b.signature] \in {last_generation[b.signature],
                                                  last_generation[b.signature] + 1}
        BY <1>2, <1>6, <4>2, MaxGenerationIsNat
      <4> QED
        BY <4>1, <4>2, <4>3
    <3> QED
      BY <3>1, <3>2
  <2> QED
    BY <2>1, <2>2
<1>14. OneIsPlaced'
  <2>1. ASSUME NEW b \in Owners \ {o}, Placed(b) PROVE b.signature # g
    <3>1. ownership[b] # "absent"
      BY <2>1 DEF IInv, OwnersOK
    <3> QED
      BY <1>1, <3>1 DEF Admits, PublishRefused
  <2> QED
    BY <1>1, <1>8, <2>1 DEF IInv, OneIsPlaced
<1>15. GatesOK'
  BY <1>6, <1>7 DEF IInv, GatesOK
<1>16. RegistrationsOK'
  <2>1. ASSUME NEW q \in Paths, entries'[q].owner # None,
               entries'[q].failed_cleanup_cursor >= 2 \/ entries'[q].module \in Quiesced
        PROVE  entries'[q].owner \in tombstones'
    <3>1. q # p
      BY <1>4, <1>7, <2>1 DEF Quiesced
    <3> QED
      BY <1>6, <1>7, <2>1, <3>1 DEF IInv, RegistrationsOK
  <2>2. ASSUME NEW b \in registered' PROVE Placed(b)'
    BY <1>6, <1>8, <1>9 DEF IInv, RegistrationsOK, TypeOK, HostTypeOK
  <2>3. \A b \in Owners : cleanup_cursor'[b] >= 2 => b \in tombstones'
    BY <1>6 DEF IInv, RegistrationsOK
  <2>4. registered' \cap tombstones' = {}
    BY <1>6 DEF IInv, RegistrationsOK
  <2>5. ASSUME NEW b \in unfenced' PROVE records'[b] # "None"
    BY <1>6, <1>7 DEF IInv, RegistrationsOK, TypeOK, HostTypeOK
  <2> QED
    BY <2>1, <2>2, <2>3, <2>4, <2>5 DEF RegistrationsOK
<1>17. CallsOK'
  <2> SUFFICES ASSUME NEW c \in Calls PROVE CallOK(c)'
    BY DEF CallsOK
  <2>1. CallOK(c) /\ call' = call /\ busy' = busy
    BY <1>6 DEF IInv, CallsOK
  <2>2. call[c].at # "out" => call[c].owner \in Owners \ {o}
    BY <1>1, <2>1 DEF CallOK
  <2> QED
    BY <1>7, <1>8, <2>1, <2>2 DEF CallOK
<1>18. BusyOK'
  BY <1>3, <1>6 DEF BusyOK, Idle
<1>19. UnloadsOK'
  <2> SUFFICES ASSUME NEW b \in Owners
               PROVE  /\ unload_calls'[b] <= 1
                      /\ records'[b] = "None" \/ Before(b)' => unload_calls'[b] = 0
    BY DEF UnloadsOK
  <2>1. CASE b = o
    BY <1>1, <1>6, <2>1 DEF IInv, UnloadsOK
  <2>2. CASE b # o
    <3>1. Before(b)' => Before(b)
      BY <1>6, <1>8, <2>2 DEF Before
    <3> QED
      BY <1>6, <1>7, <2>2, <3>1 DEF IInv, UnloadsOK
  <2> QED
    BY <2>1, <2>2
<1>20. LaunchesOK'
  <2>1. ASSUME NEW b \in load_calls' PROVE records'[b] # "None"
    BY <1>6, <1>7 DEF IInv, LaunchesOK, TypeOK
  <2>2. ASSUME NEW a \in Owners, records'[a] # "None", "LAUNCH_ONLY" \in flags'[a.signature]
        PROVE  /\ a.signature \in launch_attempted'
               /\ \A b \in Owners : records'[b] # "None" /\ b.signature = a.signature => a = b
    <3>1. ASSUME NEW b \in Owners \ {o}, records'[b] # "None", b.signature = a.signature
          PROVE  b.signature \in launch_attempted
      BY <1>6, <1>7, <2>2, <3>1 DEF IInv, LaunchesOK
    <3>2. CASE a.signature = g
      <4>1. g \notin launch_attempted /\ g \in launch_attempted'
        BY <1>6, <2>2, <3>2 DEF Admits
      <4> QED
        BY <2>2, <3>1, <3>2, <4>1
    <3>3. CASE a.signature # g
      <4>1. a # o /\ a \in Owners \ {o}
        BY <1>1, <3>3
      <4>2. a.signature \in launch_attempted'
        BY <2>2, <3>1, <4>1 DEF Admits
      <4>3. ASSUME NEW b \in Owners, records'[b] # "None", b.signature = a.signature
            PROVE  a = b
        BY <1>1, <1>6, <1>7, <2>2, <3>3, <4>1, <4>3 DEF IInv, LaunchesOK
      <4> QED
        BY <4>2, <4>3
    <3> QED
      BY <3>2, <3>3
  <2> QED
    BY <2>1, <2>2 DEF LaunchesOK
<1> QED
  BY <1>10, <1>11, <1>12, <1>13, <1>14, <1>15, <1>16, <1>17, <1>18, <1>19, <1>20 DEF IInv

LEMMA InspectOK ==
    ASSUME IInv, NEW p \in Paths, NEW g \in Signatures, NEW request \in Requests,
           Inspect(p, g, request)
    PROVE  IInv'
<1>1. PICK configured \in BOOLEAN :
          /\ launch_attempted' = IF UsesAttempt(g, request, configured)
                                 THEN launch_attempted \cup {g} ELSE launch_attempted
          /\ IF PolicyBlocks(g, request, configured)
             THEN /\ Reject(p, "PolicyBlocked")
                  /\ UNCHANGED <<owner_paths, hostRecords, ownership>>
             ELSE Admit(p, g, request)
  BY DEF Inspect
<1>2. /\ Idle /\ entries[p].state \in Resting
      /\ NoCallback /\ UNCHANGED <<closed_gates, startup_open, busy, history>>
  BY DEF Inspect, Resting
<1>3. /\ launch_attempted \subseteq launch_attempted'
      /\ launch_attempted' \in SUBSET Signatures /\ startup_open' \in BOOLEAN
  BY <1>1, <1>2 DEF IInv, TypeOK
<1>4. last_generation \in [Signatures -> 0..MaxGeneration]
  BY DEF IInv, TypeOK, HostTypeOK
<1>5. ASSUME UNCHANGED <<owner_paths, ownership, records, cleanup_cursor, active_by_signature>>,
             \/ last_generation' = last_generation
             \/ /\ last_generation' = [last_generation EXCEPT ![g] = @ + 1]
                /\ last_generation[g] # MaxGeneration,
             entries' = entries \/ \E back \in Resting : Reject(p, back)
      PROVE  IInv'
  <2>1. /\ last_generation' \in [Signatures -> 0..MaxGeneration]
        /\ \A h \in Signatures : last_generation'[h] >= last_generation[h]
    BY <1>4, <1>5, MaxGenerationIsNat
  <2>2. UNCHANGED <<flags, records, cleanup_cursor, ownership, closed_gates, call,
                    registrations, owner_paths, busy, history>>
    BY <1>2, <1>5 DEF NoCallback
  <2>3. Spares
    <3>1. CASE entries' = entries
      BY <1>3, <2>1, <2>2, <3>1 DEF Spares, IInv, TypeOK, EntriesOK
    <3>2. CASE \E back \in Resting : Reject(p, back)
      BY <1>2, <1>3, <2>1, <2>2, <3>2, RejectSpares
    <3> QED
      BY <1>5, <3>1, <3>2
  <2> QED
    BY <1>3, <1>5, <2>3, SparingKeeps
<1>6. CASE PolicyBlocks(g, request, configured)
  <2>1. "PolicyBlocked" \in Resting
    BY DEF Resting
  <2> QED
    BY <1>1, <1>5, <1>6, <2>1 DEF hostRecords
<1>7. CASE ~PolicyBlocks(g, request, configured)
  <2> DEFINE o == NextToken(g)
  <2>1. Admit(p, g, request)
    BY <1>1, <1>7
  <2>2. CASE UNCHANGED <<entries, owner_paths, hostRecords, ownership>>
    BY <1>5, <2>2 DEF hostRecords
  <2>3. CASE Reject(p, entries[p].state) /\ UNCHANGED <<owner_paths, hostRecords, ownership>>
    BY <1>2, <1>5, <2>3 DEF hostRecords
  <2>4. CASE /\ ~DiscoverRefused(g, request) /\ DiscoverAndCancel(g)
             /\ Reject(p, entries[p].state) /\ UNCHANGED <<owner_paths, ownership>>
    BY <1>2, <1>5, <2>4 DEF DiscoverRefused, DiscoverAndCancel, BumpGeneration
  <2>5. CASE /\ ~DiscoverRefused(g, request) /\ ~PublishRefused(o)
             /\ Discover(g) /\ Publish(o)
             /\ SetEntry(p, [entries[p] EXCEPT !.module = "Inspected", !.owner = o,
                                               !.state = "Inspected",
                                               !.failed_cleanup_cursor = 0])
             /\ owner_paths' = [owner_paths EXCEPT ![o] = p]
    <3>1. "LAUNCH_ONLY" \in flags[g] => g \notin launch_attempted /\ g \in launch_attempted'
      BY <1>1, <1>7 DEF PolicyBlocks, UsesAttempt
    <3>2. Admits(p, g, o)
      BY <1>2, <1>3, <2>5, <3>1 DEF Admits, DiscoverRefused, SetEntry
    <3> QED
      BY <3>2, AdmitsOK
  <2> QED
    BY <2>1, <2>2, <2>3, <2>4, <2>5 DEF Admit
<1> QED
  BY <1>6, <1>7

-----------------------------------------------------------------------------
(* A renamed file: the entry moves, and the paths of its generations with it *)

LEMMA RenameOK ==
    ASSUME IInv, NEW from \in Paths, NEW to \in Paths, Rename(from, to)
    PROVE  IInv'
<1> DEFINE e == [entries[from] EXCEPT !.present = TRUE]
<1>1. /\ entries \in [Paths -> EntryType] /\ \A q \in Paths : EntryOK(entries[q])
      /\ owner_paths \in [Owners -> Paths \cup {None}]
  BY DEF IInv, TypeOK, EntriesOK
<1>2. /\ UNCHANGED <<flags, records, cleanup_cursor, active_by_signature, last_generation,
                     closed_gates, call, ownership, registered, tombstones,
                     unfenced, swept>>
      /\ UNCHANGED <<startup_open, launch_attempted, busy, load_calls, unload_calls>>
      /\ Idle /\ from # to /\ entries[to].state = "Untracked"
  BY DEF Rename, Tracked, NoHostChange, NoCallback, hostRecords, registrations, history
<1>3. entries[to].owner = None
  BY <1>1, <1>2, NoOwnerAtRest DEF Resting
<1>4. /\ e \in EntryType /\ EntryOK(e) /\ e.owner = entries[from].owner
      /\ e.module = entries[from].module /\ e.state = entries[from].state
      /\ e.failed_cleanup_cursor = entries[from].failed_cleanup_cursor
  <2>1. entries[from] \in EntryType /\ EntryOK(entries[from])
    BY <1>1
  <2> QED
    BY <2>1 DEF EntryType, EntryOK
<1>5. /\ NewEntry("Untracked", FALSE) \in EntryType /\ EntryOK(NewEntry("Untracked", FALSE))
      /\ NewEntry("Untracked", FALSE).owner = None
  BY DEF NewEntry, EntryType, EntryOK, States, ModuleStates, Resting
<1>6. /\ entries' \in [Paths -> EntryType]
      /\ entries'[to] = e /\ entries'[from] = NewEntry("Untracked", FALSE)
      /\ \A q \in Paths \ {from, to} : entries'[q] = entries[q]
  BY <1>1, <1>2, <1>4, <1>5 DEF Rename
<1>7. /\ owner_paths' \in [Owners -> Paths \cup {None}]
      /\ \A b \in Owners : owner_paths'[b] = IF owner_paths[b] = from THEN to ELSE owner_paths[b]
  BY <1>1 DEF Rename
<1> HIDE DEF e
<1>8. \A b \in Owners : Placed(b)' <=> Placed(b)
  <2> SUFFICES ASSUME NEW b \in Owners PROVE Placed(b)' <=> Placed(b)
    OBVIOUS
  <2>1. b # None
    BY NoneIsNoOwner
  <2>2. CASE owner_paths[b] = from
    BY <1>4, <1>6, <1>7, <2>2, NoneIsNoPath DEF Placed
  <2>3. CASE owner_paths[b] = to
    <3>1. entries[from].owner # b
      BY <1>2, <2>1, <2>3 DEF IInv, OwnersOK
    <3> QED
      BY <1>2, <1>3, <1>4, <1>6, <1>7, <2>1, <2>3, <3>1 DEF Placed
  <2>4. CASE owner_paths[b] \notin {from, to}
    BY <1>1, <1>6, <1>7, <2>4 DEF Placed
  <2> QED
    BY <2>2, <2>3, <2>4
<1>9. \A b \in Owners : Placed(b) =>
          entries'[owner_paths'[b]].module = entries[owner_paths[b]].module
  <2> SUFFICES ASSUME NEW b \in Owners, Placed(b)
               PROVE  entries'[owner_paths'[b]].module = entries[owner_paths[b]].module
    OBVIOUS
  <2>1. owner_paths[b] \in Paths \ {to}
    BY <1>3, HeldFacts
  <2> QED
    BY <1>4, <1>6, <1>7, <2>1
<1>10. TypeOK'
  BY <1>2, <1>6, <1>7 DEF IInv, TypeOK, HostTypeOK
<1>11. EntriesOK'
  <2>1. ASSUME NEW q \in Paths PROVE EntryOK(entries'[q])
    BY <1>1, <1>4, <1>5, <1>6
  <2> QED
    BY <2>1 DEF EntriesOK, EntryOK
\* Whoever owns an entry now owned one before, that was otherwise the same.
<1>12. ASSUME NEW q \in Paths, entries'[q].owner # None
       PROVE  \E r \in Paths :
                  /\ entries[r].owner = entries'[q].owner
                  /\ entries[r].module = entries'[q].module
                  /\ entries[r].state = entries'[q].state
                  /\ entries[r].failed_cleanup_cursor = entries'[q].failed_cleanup_cursor
                  /\ q = IF r = from THEN to ELSE r
  <2>1. CASE q = to
    BY <1>4, <1>6, <2>1
  <2>2. CASE q # to
    <3>1. q # from
      BY <1>5, <1>6, <1>12
    <3> QED
      BY <1>6, <2>2, <3>1
  <2> QED
    BY <2>1, <2>2
<1>13. OwnersOK'
  <2>1. ASSUME NEW q \in Paths, entries'[q].owner # None
        PROVE  /\ owner_paths'[entries'[q].owner] = q
               /\ records'[entries'[q].owner] \in RecordOf(entries'[q].state)
    <3>1. PICK r \in Paths : /\ entries[r].owner = entries'[q].owner
                             /\ entries[r].state = entries'[q].state
                             /\ q = IF r = from THEN to ELSE r
      BY <1>12, <2>1
    <3>2. entries[r].owner \in Owners /\ owner_paths[entries[r].owner] = r
      BY <1>1, <2>1, <3>1 DEF IInv, OwnersOK, EntryType
    <3>3. records[entries[r].owner] \in RecordOf(entries[r].state)
      BY <2>1, <3>1 DEF IInv, OwnersOK
    <3> QED
      BY <1>2, <1>7, <3>1, <3>2, <3>3
  <2>2. \A state : RecordOf(state)' = RecordOf(state)
    BY DEF RecordOf
  <2> QED
    BY <1>2, <1>8, <2>1, <2>2 DEF IInv, OwnersOK
<1>14. GenerationsOK'
  BY <1>2, <1>7, NoneIsNoPath DEF IInv, GenerationsOK
<1>15. OneIsPlaced'
  BY <1>8 DEF IInv, OneIsPlaced
<1>16. GatesOK'
  BY <1>2 DEF IInv, GatesOK
<1>17. RegistrationsOK'
  <2>1. ASSUME NEW q \in Paths, entries'[q].owner # None,
               entries'[q].failed_cleanup_cursor >= 2 \/ entries'[q].module \in Quiesced
        PROVE  entries'[q].owner \in tombstones'
    BY <1>2, <1>12, <2>1 DEF IInv, RegistrationsOK
  <2>2. ASSUME NEW b \in registered' PROVE Placed(b)'
    BY <1>2, <1>8 DEF IInv, RegistrationsOK, TypeOK, HostTypeOK
  <2> QED
    BY <1>2, <2>1, <2>2 DEF IInv, RegistrationsOK
<1>18. CallsOK'
  <2> SUFFICES ASSUME NEW c \in Calls PROVE CallOK(c)'
    BY DEF CallsOK
  <2>1. CallOK(c)
    BY DEF IInv, CallsOK
  <2> QED
    BY <1>2, <1>8, <1>9, <2>1 DEF CallOK
<1>19. BusyOK'
  BY <1>2 DEF BusyOK, Idle
<1>20. UnloadsOK'
  <2>1. \A b \in Owners : Before(b)' <=> Before(b)
    BY <1>2, <1>8, <1>9 DEF Before
  <2> QED
    BY <1>2, <2>1 DEF IInv, UnloadsOK
<1>21. LaunchesOK'
  BY <1>2 DEF IInv, LaunchesOK
<1> QED
  BY <1>10, <1>11, <1>13, <1>14, <1>15, <1>16, <1>17, <1>18, <1>19, <1>20, <1>21 DEF IInv

-----------------------------------------------------------------------------
(* Registrations and dispatches *)

LEMMA RegisterOK ==
    ASSUME IInv, NEW o \in Owners, Register(o)
    PROVE  IInv'
<1>1. /\ UNCHANGED <<flags, records, cleanup_cursor, active_by_signature, last_generation,
                     closed_gates, call, ownership, tombstones, swept>>
      /\ UNCHANGED <<entries, owner_paths, startup_open, launch_attempted, busy, load_calls,
                     unload_calls>>
      /\ \/ registered' = registered \cup {o} /\ o \notin tombstones /\ unfenced' = unfenced
         \/ unfenced' = unfenced \cup {o} /\ registered' = registered
  BY DEF Register, hostRecords, managerVars, history
<1>2. Placed(o) /\ records[o] # "None"
  BY HeldFacts DEF Register, IInv, OwnersOK
<1>3. \A b \in Owners : Placed(b)' <=> Placed(b)
  BY <1>1 DEF Placed
<1>4. RegistrationsOK'
  BY <1>1, <1>2, <1>3 DEF IInv, RegistrationsOK, TypeOK, HostTypeOK
<1>5. TypeOK'
  BY <1>1 DEF IInv, TypeOK, HostTypeOK
<1>6. EntriesOK' /\ OwnersOK' /\ GenerationsOK' /\ OneIsPlaced' /\ GatesOK'
  BY <1>1 DEF IInv, EntriesOK, EntryOK, OwnersOK, RecordOf, GenerationsOK, OneIsPlaced, GatesOK,
              Placed
<1>7. CallsOK' /\ BusyOK'
  BY <1>1 DEF IInv, CallsOK, CallOK, BusyOK, Idle, StateIn, Placed
<1>8. UnloadsOK' /\ LaunchesOK'
  BY <1>1 DEF IInv, UnloadsOK, Before, Placed, LaunchesOK
<1> QED
  BY <1>4, <1>5, <1>6, <1>7, <1>8 DEF IInv

\* A dispatch moves at its gate.
LEMMA CallMoves ==
    ASSUME IInv, NEW c \in Calls, NEW o \in Owners \cup {None}, NEW place \in Places,
           MoveCall(c, o, place), UNCHANGED <<managerVars, busy, history>>,
           place # "out" => o \in Owners /\ records[o] # "None",
           place = "inside" =>
              /\ Placed(o) /\ entries[owner_paths[o]].module \notin Quiesced
              /\ ~(busy.method = "drained" /\ busy.owner = o)
    PROVE  IInv'
<1>1. /\ UNCHANGED <<flags, records, cleanup_cursor, active_by_signature, last_generation,
                     closed_gates, ownership, registered, tombstones, unfenced, swept>>
      /\ UNCHANGED <<entries, owner_paths, startup_open, launch_attempted, busy, load_calls,
                     unload_calls>>
      /\ call' = [call EXCEPT ![c] = [owner |-> o, at |-> place]]
  BY DEF MoveCall, hostRecords, registrations, managerVars, history
<1>2. call \in [Calls -> [owner : Owners \cup {None}, at : Places]]
  BY DEF IInv, TypeOK, HostTypeOK
<1>3. TypeOK'
  <2>1. call' \in [Calls -> [owner : Owners \cup {None}, at : Places]]
    BY <1>1, <1>2
  <2> QED
    BY <1>1, <2>1 DEF IInv, TypeOK, HostTypeOK
<1>4. EntriesOK' /\ OwnersOK' /\ GenerationsOK' /\ OneIsPlaced' /\ GatesOK'
  BY <1>1 DEF IInv, EntriesOK, EntryOK, OwnersOK, RecordOf, GenerationsOK, OneIsPlaced, GatesOK,
              Placed
<1>5. RegistrationsOK' /\ BusyOK'
  BY <1>1 DEF IInv, RegistrationsOK, BusyOK, Idle, StateIn, Placed
<1>6. UnloadsOK' /\ LaunchesOK'
  BY <1>1 DEF IInv, UnloadsOK, Before, Placed, LaunchesOK
<1>7. CallsOK'
  <2> SUFFICES ASSUME NEW d \in Calls PROVE CallOK(d)'
    BY DEF CallsOK
  <2>1. CASE d = c
    <3>1. call'[c] = [owner |-> o, at |-> place]
      BY <1>1, <1>2
    <3> QED
      BY <1>1, <2>1, <3>1 DEF CallOK, Placed
  <2>2. CASE d # c
    <3>1. call'[d] = call[d] /\ CallOK(d)
      BY <1>1, <1>2, <2>2 DEF IInv, CallsOK
    <3> QED
      BY <1>1, <3>1 DEF CallOK, Placed
  <2> QED
    BY <2>1, <2>2
<1> QED
  BY <1>3, <1>4, <1>5, <1>6, <1>7 DEF IInv

LEMMA DispatchStepOK ==
    ASSUME IInv, DispatchStep, UNCHANGED <<managerVars, busy, history>>
    PROVE  IInv'
<1>1. {"out", "holding", "invited", "counted", "inside"} = Places
  BY DEF Places
<1>2. PICK c \in Calls :
          \/ \E o \in Owners : HoldCallback(c, o)
          \/ LoadGate(c) \/ CountCall(c) \/ RecheckGate(c) \/ ReturnFromCallback(c)
  BY DEF DispatchStep
<1>3. call[c].at # "out" => call[c].owner \in Owners /\ records[call[c].owner] # "None"
  BY DEF IInv, CallsOK, CallOK
<1>4. ASSUME MoveCall(c, None, "out") PROVE IInv'
  BY <1>1, <1>4, CallMoves
<1>5. ASSUME NEW o \in Owners, HoldCallback(c, o) PROVE IInv'
  <2>1. MoveCall(c, o, "holding") /\ (Placed(o) \/ records[o] # "None")
    BY <1>5 DEF HoldCallback, IInv, RegistrationsOK
  <2>2. records[o] # "None"
    BY <2>1, HeldFacts
  <2> QED
    BY <1>1, <2>1, <2>2, CallMoves
<1>6. CASE LoadGate(c)
  <2>1. MoveCall(c, None, "out") \/ MoveCall(c, call[c].owner, "invited")
    BY <1>6 DEF LoadGate
  <2> QED
    BY <1>1, <1>3, <1>4, <1>6, <2>1, CallMoves DEF LoadGate
<1>7. CASE CountCall(c)
  BY <1>1, <1>3, <1>7, CallMoves DEF CountCall
<1>8. CASE RecheckGate(c)
  <2>1. CASE call[c].owner \in closed_gates
    BY <1>4, <1>8, <2>1 DEF RecheckGate
  <2>2. CASE call[c].owner \notin closed_gates
    <3> DEFINE o == call[c].owner
    <3>1. MoveCall(c, o, "inside") /\ o \in Owners /\ records[o] # "None"
      BY <1>3, <1>8, <2>2 DEF RecheckGate
    <3>2. records[o] \in {"Discovered", "Loaded"}
      BY <2>2, <3>1 DEF IInv, GatesOK
    <3>3. Placed(o)
      BY <3>1, <3>2 DEF IInv, OwnersOK
    <3>4. /\ entries[owner_paths[o]] \in EntryType /\ EntryOK(entries[owner_paths[o]])
          /\ entries[owner_paths[o]].owner = o /\ o # None
          /\ records[o] \in RecordOf(entries[owner_paths[o]].state)
      BY <3>1, <3>3, HeldFacts
    <3>5. entries[owner_paths[o]].state \in {"Inspected", "Active"}
      BY <3>2, <3>4, RecordTable, StatesOfHeld DEF EntryType
    <3>6. entries[owner_paths[o]].module \notin Quiesced
      BY <3>4, <3>5, ModuleTable DEF EntryOK, Quiesced
    <3>7. ~(busy.method = "drained" /\ busy.owner = o)
      BY <3>2, DrainingFacts
    <3> QED
      BY <1>1, <3>1, <3>3, <3>6, <3>7, CallMoves
  <2> QED
    BY <2>1, <2>2
<1>9. CASE ReturnFromCallback(c)
  BY <1>4, <1>9 DEF ReturnFromCallback
<1> QED
  BY <1>2, <1>5, <1>6, <1>7, <1>8, <1>9

-----------------------------------------------------------------------------
(* Theorems *)

LEMMA NextOK ==
    ASSUME IInv, ~StaleTokens, Next
    PROVE  IInv'
<1>1. CASE DirectoryNext
  BY <1>1, UpsertOK, RemoveOK, RescanOK, RenameOK DEF DirectoryNext
<1>2. CASE NativeNext
  BY <1>2, EndActivateOK, EndCleanupOK, DrainPhaseOK, CleanupPhaseOK, CleanupResourcesOK,
     DrainWaitOK, EndDrainOK, EndNativeUnloadOK, CleanupWaitOK DEF NativeNext
<1>3. CASE MethodNext
  BY <1>3, BeginActivateOK, BeginDrainOK, BeginNativeUnloadOK, FinishUnloadOK, BeginCleanupOK,
     RequestUnloadOK, RetryReleaseOK, InspectOK, FinishStartupOK DEF MethodNext
<1>4. CASE \E o \in Owners : Register(o)
  BY <1>4, RegisterOK
<1>5. CASE DispatchStep /\ UNCHANGED <<managerVars, busy, history>>
  BY <1>5, DispatchStepOK
<1> QED
  BY <1>1, <1>2, <1>3, <1>4, <1>5 DEF Next

LEMMA StutterOK == ASSUME IInv, UNCHANGED vars PROVE IInv'
<1>1. /\ UNCHANGED <<flags, records, cleanup_cursor, active_by_signature, last_generation,
                     closed_gates, call, ownership, registered, tombstones,
                     unfenced, swept>>
      /\ UNCHANGED <<entries, owner_paths, startup_open, launch_attempted, busy, load_calls,
                     unload_calls>>
  BY DEF vars, hostVars, hostRecords, registrations, managerVars, history
<1>2. TypeOK'
  BY <1>1 DEF IInv, TypeOK, HostTypeOK
<1>3. EntriesOK' /\ OwnersOK' /\ GenerationsOK' /\ OneIsPlaced' /\ GatesOK'
  BY <1>1 DEF IInv, EntriesOK, EntryOK, OwnersOK, RecordOf, GenerationsOK, OneIsPlaced, GatesOK,
              Placed
<1>4. RegistrationsOK' /\ BusyOK' /\ CallsOK'
  BY <1>1 DEF IInv, RegistrationsOK, BusyOK, Idle, StateIn, Placed, CallsOK, CallOK
<1>5. UnloadsOK' /\ LaunchesOK'
  BY <1>1 DEF IInv, UnloadsOK, Before, Placed, LaunchesOK
<1> QED
  BY <1>2, <1>3, <1>4, <1>5 DEF IInv

\* Every step of the manager, the directory, the addons and the dispatches keeps
\* what the entry, the host's record and the index say of each generation together.
THEOREM Inductive == ASSUME ~StaleTokens PROVE Spec => []IInv
<1>1. IInv /\ [Next]_vars => IInv'
  BY NextOK, StutterOK
<1> QED
  BY <1>1, InitOK, PTL DEF Spec

\* Entries, modules, records and the method in progress stay among the states of
\* the enums of manager.rs, module.rs and host.rs.
THEOREM TypeCorrect == ASSUME ~StaleTokens PROVE Spec => []TypeOK
<1>1. IInv => TypeOK
  BY DEF IInv
<1> QED
  BY <1>1, Inductive, PTL

\* The one entry that holds an owner is the entry of the owner's path.
LEMMA PlacedIsHeld ==
    ASSUME IInv, NEW o \in Owners
    PROVE  /\ Placed(o) => owner_paths[o] \in HeldBy(o)
           /\ \A p \in HeldBy(o) : Placed(o) /\ owner_paths[o] = p
<1>1. Placed(o) => owner_paths[o] \in HeldBy(o)
  BY HeldFacts, NoOwnerAtRest DEF HeldBy
<1>2. ASSUME NEW p \in HeldBy(o) PROVE Placed(o) /\ owner_paths[o] = p
  <2>1. p \in Paths /\ entries[p].owner = o /\ o # None
    BY NoneIsNoOwner DEF HeldBy
  <2> QED
    BY <2>1, NoneIsNoPath DEF Placed, IInv, OwnersOK
<1> QED
  BY <1>1, <1>2

\* The modules that are not quiesced may be called, and are mapped.
LEMMA CallableModules ==
    ASSUME IInv, NEW o \in Owners, Placed(o), entries[owner_paths[o]].module \notin Quiesced
    PROVE  Callable(entries[owner_paths[o]].module) /\ Mapped(entries[owner_paths[o]].module)
<1>1. /\ entries[owner_paths[o]] \in EntryType
      /\ entries[owner_paths[o]].module # "None"
  BY HeldFacts, NoOwnerAtRest
<1>2. entries[owner_paths[o]].module \in ModuleStates \ (Quiesced \cup {"None"})
  BY <1>1 DEF EntryType
<1> QED
  BY <1>2 DEF ModuleStates, Quiesced, Callable, Mapped

\* The gates and the drains of host.rs and manager.rs keep the host's dispatches out
\* of every module that has quiesced, whatever is retried or times out.
THEOREM CallsAreDrained == ASSUME ~StaleTokens PROVE Spec => []NoCallAfterDrain
<1>1. IInv => NoCallAfterDrain
  <2> SUFFICES ASSUME IInv, NEW c \in Calls, call[c].at = "inside"
               PROVE  \E p \in HeldBy(call[c].owner) : Callable(entries[p].module)
    BY DEF NoCallAfterDrain
  <2>1. /\ call[c].owner \in Owners /\ Placed(call[c].owner)
        /\ entries[owner_paths[call[c].owner]].module \notin Quiesced
    BY DEF IInv, CallsOK, CallOK
  <2> QED
    BY <2>1, PlacedIsHeld, CallableModules
<1> QED
  BY <1>1, Inductive, PTL

\* What is on its way out, or gone, has a closed gate.
LEMMA QuiescedIsClosed ==
    ASSUME IInv, NEW o \in Owners, records[o] # "None",
           ~Placed(o) \/ entries[owner_paths[o]].module \in Quiesced
    PROVE  o \in closed_gates
<1>1. CASE ~Placed(o)
  BY <1>1 DEF IInv, OwnersOK, GatesOK
<1>2. CASE Placed(o) /\ entries[owner_paths[o]].module \in Quiesced
  <2> DEFINE e == entries[owner_paths[o]]
  <2>1. /\ e \in EntryType /\ EntryOK(e) /\ e.owner = o /\ o # None
        /\ records[o] \in RecordOf(e.state)
    BY <1>2, HeldFacts
  <2>2. e.state \in {"Draining", "Drained", "NativeUnloadComplete", "ReleaseFailed"}
    BY <1>2, <2>1, NoOwnerAtRest, ModuleTable, StatesOfHeld DEF EntryOK, Quiesced
  <2>3. records[o] \in {"Draining", "Failed"}
    BY <2>1, <2>2, RecordTable
  <2> QED
    BY <2>3 DEF IInv, GatesOK
<1> QED
  BY <1>1, <1>2

\* An unload export runs after the last callback of its module has returned and the
\* event bus and UiHost have let go of it, in invoke_native_unload and in
\* cleanup_activation_failure; a callback that it registers elsewhere is behind the
\* gate that request_unload or the failed activation closed.
THEOREM UnloadIsAlone == ASSUME ~StaleTokens PROVE Spec => []UnloadRunsAlone
<1>1. IInv => UnloadRunsAlone
  <2> SUFFICES ASSUME IInv, busy.method \in {"invoke_native_unload", "cleanup_unload"}
               PROVE  /\ \A c \in Calls :
                             call[c].at = "inside" => call[c].owner # entries[busy.path].owner
                      /\ entries[busy.path].owner \notin registered
                      /\ entries[busy.path].owner \in closed_gates
    BY DEF UnloadRunsAlone
  <2> DEFINE o == busy.owner
  <2>1. /\ o \in Owners /\ Placed(o) /\ busy.path = owner_paths[o]
        /\ entries[busy.path].state = StateIn(busy.method)
    BY BusyIsPlaced DEF Idle
  <2>2. /\ EntryOK(entries[busy.path]) /\ entries[busy.path].owner = o /\ o # None
        /\ records[o] # "None"
    BY <2>1, HeldFacts
  <2>3. entries[busy.path].module = "CallbacksQuiesced"
    <3>1. CASE busy.method = "cleanup_unload"
      BY <3>1 DEF IInv, BusyOK, Idle
    <3>2. CASE busy.method = "invoke_native_unload"
      BY <2>1, <2>2, <3>2, MethodTable, ModuleTable DEF EntryOK
    <3> QED
      BY <3>1, <3>2
  <2>4. Silent(o) /\ o \notin registered
    BY <2>1, <2>3, QuiescedIsSilent DEF Quiesced
  <2>5. o \in closed_gates
    BY <2>1, <2>2, <2>3, QuiescedIsClosed DEF Quiesced
  <2> QED
    BY <2>2, <2>4, <2>5 DEF Silent
<1> QED
  BY <1>1, Inductive, PTL

\* A generation's unload export is called at most once, by whichever method reaches
\* it and however the export ends.
THEOREM UnloadOnce == ASSUME ~StaleTokens PROVE Spec => []UnloadCalledOnce
<1>1. IInv => UnloadCalledOnce
  BY DEF IInv, UnloadsOK, UnloadCalledOnce
<1> QED
  BY <1>1, Inductive, PTL

\* A callback that the host would dispatch to is in a mapped module, or behind a
\* closed gate: the second is what becomes of a window procedure, a bind, a texture
\* or font callback that is registered while its module is unloaded.
THEOREM RegistrationsMapped == ASSUME ~StaleTokens PROVE Spec => []RegistrationsAreMapped
<1>1. ASSUME IInv, NEW o \in registered
      PROVE  \E p \in HeldBy(o) : Mapped(entries[p].module)
  <2>1. o \in Owners /\ Placed(o)
    BY <1>1 DEF IInv, RegistrationsOK, TypeOK, HostTypeOK
  <2>2. entries[owner_paths[o]].module \notin Quiesced
    BY <1>1, <2>1, QuiescedIsSilent
  <2> QED
    BY <1>1, <2>1, <2>2, PlacedIsHeld, CallableModules
<1>2. ASSUME IInv, NEW o \in unfenced, o \notin closed_gates
      PROVE  \E p \in HeldBy(o) : Mapped(entries[p].module)
  <2>1. o \in Owners /\ records[o] # "None"
    BY <1>2 DEF IInv, RegistrationsOK, TypeOK, HostTypeOK
  <2>2. Placed(o) /\ entries[owner_paths[o]].module \notin Quiesced
    BY <1>2, <2>1, QuiescedIsClosed
  <2> QED
    BY <1>2, <2>1, <2>2, PlacedIsHeld, CallableModules
<1>3. IInv => RegistrationsAreMapped
  BY <1>1, <1>2 DEF RegistrationsAreMapped
<1> QED
  BY <1>3, Inductive, PTL

\* publish and retire keep the ownership index in step with the modules held, through
\* renames, rejected inspections and failed releases.
THEOREM IndexIsExact == ASSUME ~StaleTokens PROVE Spec => []IndexedOwnersAreMapped
<1>1. IInv => IndexedOwnersAreMapped
  BY PlacedIsHeld DEF IndexedOwnersAreMapped, IInv, OwnersOK
<1> QED
  BY <1>1, Inductive, PTL

\* publish refuses a generation while another of its signature is still indexed, so that
\* the manager never holds two.
THEOREM OneGeneration == ASSUME ~StaleTokens PROVE Spec => []OneGenerationPerSignature
<1>1. IInv => OneGenerationPerSignature
  <2> SUFFICES ASSUME IInv, NEW p \in Paths, NEW q \in Paths,
                      entries[p].owner # None, entries[q].owner # None,
                      entries[p].owner.signature = entries[q].owner.signature
               PROVE  p = q
    BY DEF OneGenerationPerSignature
  <2>1. entries[p].owner \in Owners /\ entries[q].owner \in Owners
    BY DEF IInv, TypeOK, EntryType
  <2>2. owner_paths[entries[p].owner] = p /\ owner_paths[entries[q].owner] = q
    BY DEF IInv, OwnersOK
  <2>3. Placed(entries[p].owner) /\ Placed(entries[q].owner)
    BY <2>2, NoneIsNoPath DEF Placed
  <2> QED
    BY <2>1, <2>2, <2>3 DEF IInv, OneIsPlaced
<1> QED
  BY <1>1, Inductive, PTL

\* The acknowledgements that the manager makes keep the host's record in step with the
\* state of the entry.
THEOREM HostAgreesWithManager == ASSUME ~StaleTokens PROVE Spec => []HostAgrees
<1>1. IInv => HostAgrees
  BY DEF IInv, OwnersOK, HostAgrees
<1> QED
  BY <1>1, Inductive, PTL

\* activation_policy uses up the one attempt of a launch-only addon before it is
\* inspected, so that no second generation of it is ever loaded.
THEOREM LaunchOnlyOnce == ASSUME ~StaleTokens PROVE Spec => []LaunchOnlyLoadedOnce
<1>1. IInv => LaunchOnlyLoadedOnce
  BY DEF IInv, LaunchesOK, TypeOK, LaunchOnlyLoadedOnce
<1> QED
  BY <1>1, Inductive, PTL

\* Only an inspection makes the index name a generation, the next of its signature.
LEMMA Indexing ==
    ASSUME IInv, ~StaleTokens, [Next]_vars, NEW o \in Owners,
           ownership[o] = "absent", ownership'[o] # "absent"
    PROVE  \E g \in Signatures : last_generation[g] # MaxGeneration /\ o = NextToken(g)
<1> DEFINE Stays == \A b \in Owners : ownership[b] = "absent" => ownership'[b] = "absent"
<1>1. ownership \in [Owners -> {"absent", "accepting", "closed"}]
  BY DEF IInv, TypeOK, HostTypeOK
<1>2. ASSUME ownership' = ownership PROVE Stays
  BY <1>2
<1>3. ASSUME NEW b, CloseOwnership(b) \/ Retire(b) PROVE Stays
  BY <1>1, <1>3 DEF CloseOwnership, Retire
<1>4. ASSUME NEW p, NEW entry, NEW b, NEW acknowledge,
             FinishSuccessfulRelease(p, entry, b, acknowledge)
                \/ ReleaseCleaned(p, entry, b, acknowledge)
      PROVE  Stays
  BY <1>2, <1>3, <1>4 DEF FinishSuccessfulRelease, ReleaseCleaned
<1>5. ASSUME DirectoryNext PROVE Stays
  BY <1>2, <1>5 DEF DirectoryNext, Upsert, Remove, Rescan, DirectoryStep, Rename, NoHostChange
<1>6. ASSUME NativeNext PROVE Stays
  <2>1. CASE \E returned \in BOOLEAN : EndActivate(returned)
    BY <1>2, <1>3, <2>1 DEF EndActivate
  <2>2. CASE \E returned \in BOOLEAN : EndCleanup(returned)
    BY <1>2, <1>4, <2>2 DEF EndCleanup
  <2>3. CASE \E succeeds \in BOOLEAN :
                 DrainPhase(succeeds) \/ CleanupPhase(succeeds) \/ CleanupResources(succeeds)
    BY <1>2, <2>3 DEF DrainPhase, CleanupPhase, CleanupResources, NoHostChange, hostVars
  <2>4. CASE DrainWait \/ EndDrain \/ CleanupWait
    BY <1>2, <2>4 DEF DrainWait, EndDrain, CleanupWait, hostVars
  <2>5. CASE EndNativeUnload
    BY <1>3, <2>5 DEF EndNativeUnload
  <2> QED
    BY <1>6, <2>1, <2>2, <2>3, <2>4, <2>5 DEF NativeNext
<1>7. ASSUME NEW b \in Owners,
             \/ BeginActivate(b) \/ BeginDrain(b) \/ BeginNativeUnload(b)
             \/ FinishUnload(b) \/ BeginCleanup(b)
             \/ \E reason \in {"Runtime", "Shutdown"} : RequestUnload(b, reason)
      PROVE  Stays
  <2>1. CASE BeginActivate(b) \/ BeginDrain(b) \/ BeginNativeUnload(b)
    BY <1>2, <2>1 DEF BeginActivate, BeginDrain, BeginNativeUnload, hostVars
  <2>2. CASE FinishUnload(b)
    BY <1>4, <2>2 DEF FinishUnload
  <2>3. CASE BeginCleanup(b)
    BY <1>2, <1>3, <2>3 DEF BeginCleanup
  <2>4. CASE \E reason \in {"Runtime", "Shutdown"} : RequestUnload(b, reason)
    BY <1>2, <2>4 DEF RequestUnload
  <2> QED
    BY <1>7, <2>1, <2>2, <2>3, <2>4
<1>8. ASSUME NEW p \in Paths, RetryRelease(p) PROVE Stays
  BY <1>2, <1>4, <1>8 DEF RetryRelease
<1>9. ASSUME FinishStartup \/ DispatchStep \/ (\E b \in Owners : Register(b)) \/ UNCHANGED vars
      PROVE  Stays
  BY <1>2, <1>9 DEF FinishStartup, DispatchStep, HoldCallback, LoadGate, CountCall, RecheckGate,
                    ReturnFromCallback, MoveCall, Register, hostVars, vars
<1>10. ~Stays
  OBVIOUS
<1> HIDE DEF Stays
<1>11. PICK p \in Paths, g \in Signatures, request \in Requests : Inspect(p, g, request)
  BY <1>5, <1>6, <1>7, <1>8, <1>9, <1>10 DEF Next, MethodNext
<1>12. ownership' # ownership
  BY <1>2, <1>10
<1>13. ~DiscoverRefused(g, request) /\ Publish(NextToken(g))
  BY <1>11, <1>12 DEF Inspect, Admit
<1>14. o = NextToken(g)
  BY <1>1, <1>13 DEF Publish
<1> QED
  BY <1>13, <1>14 DEF DiscoverRefused

\* discover numbers the generations of a signature upwards: an owner that enters the
\* manager's entries is younger than every generation of its signature that was ever
\* inspected.
THEOREM GenerationsNeverRepeat == ASSUME ~StaleTokens PROVE Spec => GenerationsIncrease
<1> DEFINE Increase ==
        \A p \in Paths :
            LET o == entries'[p].owner
            IN  o # None /\ (\A q \in Paths : entries[q].owner # o) =>
                   \A old \in Owners :
                      old.signature = o.signature /\ owner_paths[old] # None =>
                          old.generation < o.generation
<1>1. ASSUME IInv, IInv', [Next]_vars PROVE Increase
  <2> SUFFICES ASSUME NEW p \in Paths, entries'[p].owner # None,
                      \A q \in Paths : entries[q].owner # entries'[p].owner,
                      NEW old \in Owners, old.signature = entries'[p].owner.signature,
                      owner_paths[old] # None
               PROVE  old.generation < entries'[p].owner.generation
    OBVIOUS
  <2>1. PICK o \in Owners : o = entries'[p].owner
    BY <1>1 DEF IInv, TypeOK, EntryType
  <2>2. ownership'[o] # "absent"
    <3>1. owner_paths'[o] = p
      BY <1>1, <2>1 DEF IInv, OwnersOK
    <3>2. Placed(o)'
      BY <2>1, <3>1, NoneIsNoPath DEF Placed
    <3> QED
      BY <1>1, <2>1, <3>2 DEF IInv, OwnersOK
  <2>3. ownership[o] = "absent"
    <3>1. ~Placed(o)
      BY <1>1, <2>1, HeldFacts
    <3> QED
      BY <1>1, <2>1, <3>1 DEF IInv, OwnersOK
  <2>4. PICK g \in Signatures : last_generation[g] # MaxGeneration /\ o = NextToken(g)
    BY <1>1, <2>1, <2>2, <2>3, Indexing
  <2>5. o.signature = g /\ o.generation = last_generation[g] + 1 /\ last_generation[g] \in Nat
    BY <1>1, <2>4, NextTokenIsNew
  <2>6. old.generation <= last_generation[old.signature] /\ old.generation \in Nat
    BY <1>1, MaxGenerationIsNat DEF IInv, GenerationsOK, Owners
  <2> QED
    BY <2>1, <2>5, <2>6
<1>2. Spec => [][Increase]_vars
  BY <1>1, Inductive, PTL DEF Spec
<1> QED
  BY <1>2 DEF GenerationsIncrease
=============================================================================
