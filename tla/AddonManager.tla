---------------------------- MODULE AddonManager -----------------------------
(****************************************************************************)
(* nexus-addon-manager/src/manager.rs: the life of addon generations, from  *)
(* a DLL in the directory to its release.  The manager composes the loader  *)
(* (AddonModule), the host registry and the ownership index (AddonHost).    *)
(*                                                                          *)
(* Methods take &mut self, so at most one runs at a time (busy), but the    *)
(* ones that run native code or wait for callbacks take several steps, and  *)
(* dispatches and the addon's own threads interleave with those steps.      *)
(* hot_reload calls the other methods in sequence and adds no step.         *)
(****************************************************************************)
EXTENDS AddonHost, AddonModule

CONSTANTS
    Paths,          \* DLL paths in the addon directory
    StaleTokens     \* callers may pass the token of an earlier generation

ASSUME StaleTokensIsBoolean == StaleTokens \in BOOLEAN
ASSUME NoneIsNoPath == None \notin Paths

VARIABLES
    entries,            \* one Entry per tracked path
    owner_paths,        \* the path of every generation ever inspected
    startup_open,
    launch_attempted,   \* launch-only signatures that used up their attempt
    busy,               \* the method in progress, its token and its path
    load_calls,         \* history: generations whose load export was called
    unload_calls        \* history: how often each unload export was called

managerVars == <<entries, owner_paths, startup_open, launch_attempted>>
history == <<load_calls, unload_calls>>
vars == <<hostVars, managerVars, busy, history>>

States == {"Untracked", "Discovered", "PolicyBlocked", "Inspected", "Active",
           "UnloadRequested", "Draining", "Drained", "NativeUnloadComplete",
           "ActivationFailed", "ReleaseFailed", "Unloaded", "Removed"}

Requests == {"Startup", "Runtime", "HotReload"}

EntryType ==
    [state : States, present : BOOLEAN, module : ModuleStates,
     owner : Owners \cup {None}, failed_cleanup_cursor : 0..3,
     release_needs_host_ack : BOOLEAN,
     release_return_state : States \cup {None}]

Methods == {"none", "activate", "drain", "drained", "invoke_native_unload",
            "cleanup", "cleanup_drained", "cleanup_unload"}

\* Entries, modules and the method in progress stay among the states the enums
\* of manager.rs and module.rs have.
TypeOK ==
    /\ HostTypeOK
    /\ entries \in [Paths -> EntryType]
    /\ owner_paths \in [Owners -> Paths \cup {None}]
    /\ startup_open \in BOOLEAN
    /\ launch_attempted \in SUBSET Signatures
    /\ busy \in [method : Methods, owner : Owners \cup {None}, path : Paths \cup {None}]
    /\ load_calls \in SUBSET Owners
    /\ unload_calls \in [Owners -> Nat]

NewEntry(state, present) ==
    [state |-> state, present |-> present, module |-> "None", owner |-> None,
     failed_cleanup_cursor |-> 0, release_needs_host_ack |-> FALSE,
     release_return_state |-> None]

NotBusy == [method |-> "none", owner |-> None, path |-> None]

Init ==
    /\ HostInit
    /\ entries = [p \in Paths |-> NewEntry("Untracked", FALSE)]
    /\ owner_paths = [o \in Owners |-> None]
    /\ startup_open = TRUE
    /\ launch_attempted = {}
    /\ busy = NotBusy
    /\ load_calls = {}
    /\ unload_calls = [o \in Owners |-> 0]

----------------------------------------------------------------------------
Idle == busy.method = "none"
Tracked(p) == entries[p].state # "Untracked"

\* owner_key: the path of a token, however old.
HasPath(o) ==
    /\ owner_paths[o] # None
    /\ StaleTokens \/ entries[owner_paths[o]].owner = o
Entry(o) == entries[owner_paths[o]]

SetEntry(p, entry) == entries' = [entries EXCEPT ![p] = entry]
Become(method, o) == busy' = [method |-> method, owner |-> o, path |-> owner_paths[o]]
Finish == busy' = NotBusy
CloseGates(owners) == closed_gates' = closed_gates \cup owners

OnlyEntries == UNCHANGED <<owner_paths, startup_open, launch_attempted>>
NoHostChange == UNCHANGED <<hostRecords, ownership, closed_gates>>
NoCallback == UNCHANGED <<flags, call, registrations>>

----------------------------------------------------------------------------
(* The directory: refresh_discovery, apply_directory_event *)

Upserted(entry) ==
    IF entry.state = "Untracked" THEN NewEntry("Discovered", TRUE)
    ELSE [entry EXCEPT !.present = TRUE]

Removed(entry) ==
    IF ~entry.present THEN entry
    ELSE [entry EXCEPT !.present = FALSE,
                       !.state = IF entry.module = "None" THEN "Removed" ELSE @]

DirectoryStep ==
    Idle /\ OnlyEntries /\ NoHostChange /\ NoCallback /\ UNCHANGED <<busy, history>>

Upsert(p) ==
    /\ DirectoryStep
    /\ SetEntry(p, Upserted(entries[p]))

Remove(p) ==
    /\ DirectoryStep
    /\ Tracked(p)
    /\ SetEntry(p, Removed(entries[p]))

Rescan(found) ==
    /\ DirectoryStep
    /\ entries' = [p \in Paths |->
          IF p \in found THEN Upserted(entries[p]) ELSE Removed(entries[p])]

\* The entry moves with its module; nothing may be tracked at the new path.
Rename(from, to) ==
    /\ Idle
    /\ Tracked(from) /\ ~Tracked(to)
    /\ entries' = [entries EXCEPT ![to] = [entries[from] EXCEPT !.present = TRUE],
                                  ![from] = NewEntry("Untracked", FALSE)]
    /\ owner_paths' = [o \in Owners |->
          IF owner_paths[o] = from THEN to ELSE owner_paths[o]]
    /\ UNCHANGED <<startup_open, launch_attempted, busy, history>>
    /\ NoHostChange /\ NoCallback

FinishStartup ==
    /\ Idle
    /\ startup_open' = FALSE
    /\ UNCHANGED <<hostVars, entries, owner_paths, launch_attempted, busy, history>>

----------------------------------------------------------------------------
(* Releasing a module *)

\* finish_successful_release: the host's answer does not hold the entry back.
FinishSuccessfulRelease(p, entry, o, acknowledge) ==
    LET next == IF entry.release_return_state # None THEN entry.release_return_state
                ELSE IF entry.present THEN "Unloaded" ELSE "Removed"
    IN  /\ SetEntry(p, [entry EXCEPT !.module = "None", !.owner = None, !.state = next,
                                     !.release_return_state = None,
                                     !.release_needs_host_ack = FALSE])
        /\ IF acknowledge /\ o # None /\ ~ReleaseRefused(o)
           THEN AcknowledgeModuleReleased(o)
           ELSE UNCHANGED hostRecords
        /\ IF o # None THEN Retire(o) ELSE UNCHANGED ownership

\* module.release() in finish_unload and cleanup_activation_failure.
ReleaseCleaned(p, entry, o, acknowledge) ==
    \E left \in ReleaseOutcomes("HostCleanupComplete") :
        IF left = "None" THEN FinishSuccessfulRelease(p, entry, o, acknowledge)
        ELSE /\ SetEntry(p, [entry EXCEPT
                    !.module = left, !.state = "ReleaseFailed",
                    !.release_needs_host_ack = acknowledge,
                    !.release_return_state = IF entry.present THEN "Unloaded" ELSE "Removed"])
             /\ UNCHANGED <<hostRecords, ownership>>

\* release_rejected_module: inspection ends without an owner.
Reject(p, back) ==
    \E left \in ReleaseOutcomes("Inspected") :
        SetEntry(p, IF left = "None" THEN [entries[p] EXCEPT !.state = back]
                    ELSE [entries[p] EXCEPT
                            !.module = left, !.state = "ReleaseFailed",
                            !.release_needs_host_ack = FALSE,
                            !.release_return_state = back])

RetryRelease(p) ==
    /\ Idle
    /\ entries[p].state = "ReleaseFailed"
    /\ \E left \in ReleaseOutcomes(entries[p].module) :
          IF left = "None"
          THEN FinishSuccessfulRelease(p, entries[p], entries[p].owner,
                                       entries[p].release_needs_host_ack)
          ELSE /\ SetEntry(p, [entries[p] EXCEPT !.module = left])
               /\ UNCHANGED <<hostRecords, ownership>>
    /\ OnlyEntries /\ NoCallback
    /\ UNCHANGED <<closed_gates, busy, history>>

----------------------------------------------------------------------------
(* inspect *)

\* activation_policy, in its order.  What the configuration says is free at
\* each inspection: set_enabled, which changes nothing else, may have run.
\* The launch-only attempt is used up before the verdict on it.
PolicyReaches(request, configured) ==
    configured /\ (request = "Startup" => startup_open)

UsesAttempt(g, request, configured) ==
    PolicyReaches(request, configured) /\ "LAUNCH_ONLY" \in flags[g]

\* (Bug: earlier attempts do not count.)
PolicyBlocksLate(g, request, configured) ==
    \/ ~PolicyReaches(request, configured)
    \/ "LAUNCH_ONLY" \in flags[g] /\ request # "Startup"
    \/ request = "HotReload" /\ "DISABLE_HOT_LOADING" \in flags[g]

PolicyBlocks(g, request, configured) ==
    \/ ~PolicyReaches(request, configured)
    \/ "LAUNCH_ONLY" \in flags[g] /\ (request # "Startup" \/ g \in launch_attempted)
    \/ request = "HotReload" /\ "DISABLE_HOT_LOADING" \in flags[g]

\* Resolver failures drop the module, which frees it; the other refusals after
\* the policy hand it to release_rejected_module.
Admit(p, g, request) ==
    \/ UNCHANGED <<entries, owner_paths, hostRecords, ownership>>
    \/ /\ Reject(p, entries[p].state)
       /\ UNCHANGED <<owner_paths, hostRecords, ownership>>
    \/ /\ ~DiscoverRefused(g, request)
       /\ PublishRefused(NextToken(g))
       /\ DiscoverAndCancel(g)
       /\ Reject(p, entries[p].state)
       /\ UNCHANGED <<owner_paths, ownership>>
    \/ LET o == NextToken(g)
       IN  /\ ~DiscoverRefused(g, request)
           /\ ~PublishRefused(o)
           /\ Discover(g)
           /\ Publish(o)
           /\ SetEntry(p, [entries[p] EXCEPT !.module = "Inspected", !.owner = o,
                               !.state = "Inspected", !.failed_cleanup_cursor = 0])
           /\ owner_paths' = [owner_paths EXCEPT ![o] = p]

\* The DLL defines signature g.  A load that fails changes nothing.
Inspect(p, g, request) ==
    /\ Idle
    /\ entries[p].present
    /\ entries[p].state \in {"Discovered", "PolicyBlocked", "Unloaded", "Removed"}
    /\ \E configured \in BOOLEAN :
          /\ launch_attempted' = IF UsesAttempt(g, request, configured)
                                 THEN launch_attempted \cup {g} ELSE launch_attempted
          /\ IF PolicyBlocks(g, request, configured)
             THEN /\ Reject(p, "PolicyBlocked")
                  /\ UNCHANGED <<owner_paths, hostRecords, ownership>>
             ELSE Admit(p, g, request)
    /\ NoCallback
    /\ UNCHANGED <<closed_gates, startup_open, busy, history>>

----------------------------------------------------------------------------
(* activate: the load export runs with the manager borrowed *)

BeginActivate(o) ==
    /\ Idle /\ HasPath(o)
    /\ Entry(o).state = "Inspected" /\ CanActivate(Entry(o).module)
    /\ records[o] # "None"
    /\ Become("activate", o)
    /\ load_calls' = load_calls \cup {Entry(o).owner}
    /\ UNCHANGED <<hostVars, managerVars, unload_calls>>

EndActivate(returned) ==
    LET o == busy.owner
        p == busy.path
        entry == [entries[p] EXCEPT !.module = Activated(returned)]
    IN  /\ busy.method = "activate"
        /\ IF returned
           THEN /\ IF records[o] = "Discovered"
                   THEN AcknowledgeLoaded(o) /\ SetEntry(p, [entry EXCEPT !.state = "Active"])
                   ELSE UNCHANGED hostRecords /\ SetEntry(p, entry)
                /\ UNCHANGED <<ownership, closed_gates>>
           ELSE /\ IF records[o] = "Discovered"
                   THEN AcknowledgeActivationFailed(o) /\ CloseGates({o})
                   ELSE UNCHANGED hostRecords /\ CloseGates(GatesClosedWith(o))
                /\ CloseOwnership(o)
                /\ SetEntry(p, [entry EXCEPT !.state = "ActivationFailed"])
        /\ Finish /\ OnlyEntries /\ NoCallback /\ UNCHANGED history

----------------------------------------------------------------------------
(* request_unload, drain, invoke_native_unload, finish_unload *)

\* API admission stays open until the unload export has returned.
RequestUnload(o, reason) ==
    /\ Idle /\ HasPath(o)
    /\ Entry(o).state = "Active"
    /\ RequestUnloadOf(o, reason)
    /\ CloseGates({o})
    /\ IF CanRequestShutdown(Entry(o).module)
       THEN SetEntry(owner_paths[o], [Entry(o) EXCEPT !.module = "ShutdownRequested",
                                                      !.state = "UnloadRequested"])
       ELSE UNCHANGED entries
    /\ OnlyEntries /\ NoCallback /\ UNCHANGED <<ownership, busy, history>>

\* A drain the host refuses still leaves the entry in Draining.
BeginDrain(o) ==
    /\ Idle /\ HasPath(o)
    /\ Entry(o).state \in {"UnloadRequested", "Draining"}
    /\ SetEntry(owner_paths[o], [Entry(o) EXCEPT !.state = "Draining"])
    /\ IF records[o] \in {"UnloadRequested", "Draining"}
       THEN /\ SetRecord(o, "Draining")
            /\ Become("drain", o)
            /\ UNCHANGED <<cleanup_cursor, active_by_signature, last_generation>>
       ELSE UNCHANGED <<hostRecords, busy>>
    /\ OnlyEntries /\ NoCallback /\ UNCHANGED <<ownership, closed_gates, history>>

\* The next cleanup phase of drain_registrations; a failure ends the drain.
DrainPhase(succeeds) ==
    LET o == busy.owner
        phase == cleanup_cursor[o]
    IN  /\ \/ busy.method = "drain" /\ phase < 2
           \/ busy.method = "drained" /\ phase = 2
        /\ IF succeeds
           THEN /\ CleanPhaseSucceeds(o, phase)
                /\ cleanup_cursor' = [cleanup_cursor EXCEPT ![o] = phase + 1]
                /\ UNCHANGED busy
           ELSE /\ CleanPhaseFails(o, phase)
                /\ Finish
                /\ UNCHANGED cleanup_cursor
        /\ UNCHANGED <<flags, records, active_by_signature, last_generation, closed_gates, call,
                       ownership, managerVars, history>>

\* Bug: the drain goes on after the timeout.
DrainWaitIgnored ==
    /\ busy.method = "drain" /\ cleanup_cursor[busy.owner] >= 2
    /\ busy' = [busy EXCEPT !.method = "drained"]
    /\ UNCHANGED <<hostVars, managerVars, history>>

\* wait_for_drain saw a count of zero, or the timeout elapsed.
DrainWait ==
    /\ busy.method = "drain" /\ cleanup_cursor[busy.owner] >= 2
    /\ \/ InFlight(busy.owner) = 0 /\ busy' = [busy EXCEPT !.method = "drained"]
       \/ InFlight(busy.owner) # 0 /\ Finish
    /\ UNCHANGED <<hostVars, managerVars, history>>

\* All phases done: the module's own gate, then Drained.
EndDrain ==
    LET p == busy.path
    IN  /\ busy.method = "drained" /\ cleanup_cursor[busy.owner] = 3
        /\ IF CanWaitForCallbacks(entries[p].module)
           THEN SetEntry(p, [entries[p] EXCEPT !.module = "CallbacksQuiesced",
                                               !.state = "Drained"])
           ELSE UNCHANGED entries
        /\ Finish /\ OnlyEntries /\ UNCHANGED <<hostVars, history>>

CallUnloadExport(o) == unload_calls' = [unload_calls EXCEPT ![o] = @ + 1]

BeginNativeUnload(o) ==
    /\ Idle /\ HasPath(o)
    /\ Entry(o).state = "Drained" /\ CanInvokeUnload(Entry(o).module)
    /\ Become("invoke_native_unload", o)
    /\ CallUnloadExport(Entry(o).owner)
    /\ UNCHANGED <<hostVars, managerVars, load_calls>>

\* Bug: an unwound export leaves the states as they were.
EndNativeUnloadUnrecorded ==
    LET o == busy.owner
    IN  /\ busy.method = "invoke_native_unload"
        /\ CloseOwnership(o)
        /\ CloseGates(GatesClosedWith(o))
        /\ Finish /\ OnlyEntries /\ NoCallback /\ UNCHANGED <<entries, hostRecords, history>>

\* Returned or unwound: the state advances either way.
EndNativeUnload ==
    LET o == busy.owner
        p == busy.path
    IN  /\ busy.method = "invoke_native_unload"
        /\ SetEntry(p, [entries[p] EXCEPT !.module = "UnloadCallbackComplete",
                                          !.state = "NativeUnloadComplete"])
        /\ CloseOwnership(o)
        /\ CloseGates(GatesClosedWith(o))
        /\ Finish /\ OnlyEntries /\ NoCallback /\ UNCHANGED <<hostRecords, history>>

FinishUnload(o) ==
    /\ Idle /\ HasPath(o)
    /\ Entry(o).state = "NativeUnloadComplete" /\ CanCompleteHostCleanup(Entry(o).module)
    /\ ReleaseCleaned(owner_paths[o], Entry(o), o, TRUE)
    /\ OnlyEntries /\ NoCallback /\ UNCHANGED <<closed_gates, busy, history>>

----------------------------------------------------------------------------
(* cleanup_activation_failure *)

BeginCleanup(o) ==
    /\ Idle /\ HasPath(o)
    /\ records[o] # "None"
    /\ \/ /\ Entry(o).state = "ActivationFailed"
          /\ CanRequestShutdown(Entry(o).module)
          /\ CloseOwnership(o)
          /\ CloseGates(GatesClosedWith(o))
          /\ SetEntry(owner_paths[o], [Entry(o) EXCEPT !.module = "ShutdownRequested",
                                                       !.state = "Draining"])
       \/ /\ Entry(o).state = "Draining"
          /\ UNCHANGED <<ownership, closed_gates, entries>>
    /\ Become("cleanup", o)
    /\ OnlyEntries /\ NoCallback /\ UNCHANGED <<hostRecords, history>>

\* run_direct_cleanup of the phase at failed_cleanup_cursor.
CleanupPhase(succeeds) ==
    LET o == busy.owner
        p == busy.path
        phase == entries[p].failed_cleanup_cursor
    IN  /\ busy.method = "cleanup" /\ phase < 2
        /\ IF succeeds
           THEN /\ CleanPhaseSucceeds(o, phase)
                /\ SetEntry(p, [entries[p] EXCEPT !.failed_cleanup_cursor = phase + 1])
                /\ UNCHANGED busy
           ELSE CleanPhaseFails(o, phase) /\ Finish /\ UNCHANGED entries
        /\ OnlyEntries /\ NoHostChange /\ UNCHANGED <<flags, call, history>>

\* The host's gate, then the module's: a module that already passed this
\* point is refused.
CleanupWait ==
    LET p == busy.path
        drains == InFlight(busy.owner) = 0 /\ CanWaitForCallbacks(entries[p].module)
    IN  /\ busy.method = "cleanup" /\ entries[p].failed_cleanup_cursor >= 2
        /\ IF drains
           THEN /\ SetEntry(p, [entries[p] EXCEPT !.module = "CallbacksQuiesced"])
                /\ busy' = [busy EXCEPT !.method = "cleanup_drained"]
           ELSE Finish /\ UNCHANGED entries
        /\ OnlyEntries /\ UNCHANGED <<hostVars, history>>

\* OwnedResources, and then the unload export is called.
CleanupResources(succeeds) ==
    LET p == busy.path
    IN  /\ busy.method = "cleanup_drained"
        /\ IF succeeds
           THEN /\ SetEntry(p, [entries[p] EXCEPT !.failed_cleanup_cursor = 3])
                /\ busy' = [busy EXCEPT !.method = "cleanup_unload"]
                /\ CallUnloadExport(entries[p].owner)
           ELSE Finish /\ UNCHANGED <<entries, unload_calls>>
        /\ OnlyEntries /\ UNCHANGED <<hostVars, load_calls>>

\* An unwound export ends the method before the entry's state advances.
EndCleanup(returned) ==
    LET p == busy.path
        entry == [entries[p] EXCEPT !.module = "UnloadCallbackComplete"]
    IN  /\ busy.method = "cleanup_unload"
        /\ IF returned
           THEN ReleaseCleaned(p, [entry EXCEPT !.state = "NativeUnloadComplete"],
                               busy.owner, FALSE)
           ELSE SetEntry(p, entry) /\ UNCHANGED <<hostRecords, ownership>>
        /\ Finish /\ OnlyEntries /\ NoCallback /\ UNCHANGED <<closed_gates, history>>

----------------------------------------------------------------------------
(* The addon registers a callback: its code runs once its load export has    *)
(* been called, and the unload export may do so too.  Only some registries   *)
(* refuse an owner that was cleaned up.  An insertion that finds admission   *)
(* closed when it is done is withdrawn by the same call, and left out.       *)

Register(o) ==
    /\ o \in load_calls
    /\ ownership[o] = "accepting"
    /\ \/ /\ o \notin tombstones
          /\ registered' = registered \cup {o}
          /\ UNCHANGED unfenced
       \/ /\ unfenced' = unfenced \cup {o}
          /\ UNCHANGED registered
    /\ UNCHANGED <<flags, hostRecords, closed_gates, call, ownership, tombstones, swept,
                   managerVars, busy, history>>

----------------------------------------------------------------------------
DirectoryNext ==
    \/ \E p \in Paths : Upsert(p) \/ Remove(p)
    \/ \E found \in SUBSET Paths : Rescan(found)
    \/ \E p, q \in Paths : Rename(p, q)

NativeNext ==
    \/ \E returned \in BOOLEAN : EndActivate(returned) \/ EndCleanup(returned)
    \/ \E succeeds \in BOOLEAN :
          DrainPhase(succeeds) \/ CleanupPhase(succeeds) \/ CleanupResources(succeeds)
    \/ DrainWait \/ EndDrain \/ EndNativeUnload \/ CleanupWait

MethodNext ==
    \/ \E o \in Owners :
          \/ BeginActivate(o) \/ BeginDrain(o) \/ BeginNativeUnload(o)
          \/ FinishUnload(o) \/ BeginCleanup(o)
          \/ \E reason \in {"Runtime", "Shutdown"} : RequestUnload(o, reason)
    \/ \E p \in Paths :
          \/ RetryRelease(p)
          \/ \E g \in Signatures, request \in Requests : Inspect(p, g, request)
    \/ FinishStartup

Next ==
    \/ DirectoryNext
    \/ NativeNext
    \/ MethodNext
    \/ \E o \in Owners : Register(o)
    \/ DispatchStep /\ UNCHANGED <<managerVars, busy, history>>

Spec == Init /\ [][Next]_vars

----------------------------------------------------------------------------
(* Properties *)

HeldBy(o) == {p \in Paths : entries[p].owner = o /\ entries[p].module # "None"}

\* The host never runs a callback of a module that finished draining, let
\* alone of one that was released: the gates and the drains do their work
\* across unload, failed activation, retries and time-outs.
NoCallAfterDrain ==
    \A c \in Calls : call[c].at = "inside" =>
        \E p \in HeldBy(call[c].owner) : Callable(entries[p].module)

\* While an unload export runs nothing else of its module is called by the
\* host.  EventBus and UiHost hold nothing of it, and what the export registers
\* with the others is behind a closed gate.
UnloadRunsAlone ==
    busy.method \in {"invoke_native_unload", "cleanup_unload"} =>
        LET owner == entries[busy.path].owner
        IN  /\ \A c \in Calls : call[c].at = "inside" => call[c].owner # owner
            /\ owner \notin registered
            /\ owner \in closed_gates

\* The unload export of a generation is called once at most, whichever of
\* invoke_native_unload and cleanup_activation_failure gets there and however it
\* ends: "preventing a side-effecting unload routine from being invoked twice".
UnloadCalledOnce == \A o \in Owners : unload_calls[o] <= 1

\* API admission stays open while the unload export runs.  What EventBus and
\* UiHost hold still does not outlive the module it points into.  A window
\* procedure, a bind, a texture or font callback can: CONFORMANCE.md:132, "a
\* registration created during unload would survive".  It does so only behind
\* a gate that refuses every call.
RegistrationsAreMapped ==
    LET PointsIntoModule(o) == \E p \in HeldBy(o) : Mapped(entries[p].module)
    IN  /\ \A o \in registered : PointsIntoModule(o)
        /\ \A o \in unfenced : PointsIntoModule(o) \/ o \in closed_gates

\* The ownership index names the modules that are held, and only those: "retire
\* removes the range only after the platform has successfully released the DLL".
IndexedOwnersAreMapped ==
    \A o \in Owners : ownership[o] # "absent" <=> HeldBy(o) # {}

\* Two generations of a signature are never held at once, across renames,
\* replaced files and failed releases.
OneGenerationPerSignature ==
    \A p, q \in Paths :
        /\ entries[p].owner # None /\ entries[q].owner # None
        /\ entries[p].owner.signature = entries[q].owner.signature
        => p = q

\* The host's record of a generation and the manager's entry agree whenever
\* no method is in progress.
RecordOf(state) ==
    CASE state = "Inspected" -> {"Discovered"}
      [] state = "Active" -> {"Loaded"}
      [] state = "UnloadRequested" -> {"UnloadRequested"}
      [] state = "Draining" -> {"Draining", "Failed"}
      [] state \in {"Drained", "NativeUnloadComplete"} -> {"Draining"}
      [] state = "ActivationFailed" -> {"Failed"}
      [] state = "ReleaseFailed" -> {"Draining", "Failed"}
      [] OTHER -> {}
HostAgrees ==
    Idle => \A p \in Paths :
        entries[p].owner # None => records[entries[p].owner] \in RecordOf(entries[p].state)

\* A launch-only addon is activated at most once per process.
LaunchOnlyLoadedOnce ==
    \A a, b \in load_calls : 
        a.signature = b.signature /\ "LAUNCH_ONLY" \in flags[a.signature] => a = b

\* HANDOFF.md: "owner generations never regress or repeat".
GenerationsIncrease ==
    [][\A p \in Paths :
          LET o == entries'[p].owner
          IN  o # None /\ (\A q \in Paths : entries[q].owner # o) =>
                 \A old \in Owners :
                    old.signature = o.signature /\ owner_paths[old] # None =>
                        old.generation < o.generation]_vars

\* ManagerState's "NativeUnloadComplete: the native unload callback completed
\* or its Rust unwind was contained", "Draining: registration cleanup or
\* callback draining is in progress".
UnloadIsRecorded ==
    Idle => \A p \in Paths :
        entries[p].state = "Draining" => entries[p].module # "UnloadCallbackComplete"

\* LifecycleState's "Draining: in-flight callbacks and registrations are being
\* drained": a generation that is not held any more is not draining.
DrainingIsHeld ==
    \A o \in Owners : records[o] = "Draining" => HeldBy(o) # {}
=============================================================================
