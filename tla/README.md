# Nexus-Rust: a verification project

Nexus-Rust is an in-process addon host for a Direct3D 11 game. It hooks the swap
chain, maps native addon DLLs, gives them an API of registrations (events,
binds, textures, fonts, renders, ...) and unloads them again while the game
keeps running. Its hard promise is memory safety across unload: *no native code
of a module, and no resource of it, is used after the module is gone, whatever
threads, nested callbacks, time-outs, panics and failed releases are under way.*
The models here are about that promise, and about the hooks, frames and input
capture the host itself puts between the game and its swap chains. Paths below are relative to the
repository; modules are in this directory.

## 1. Inventory

### Components modelled

| Component | State | Operations | Talks to |
|---|---|---|---|
| **Callback gate** `nexus-core/src/callback_gate.rs` | `accepting`, `in_flight` (atomics), `drain_mutex` and a condition variable | `try_enter`, `CallbackGuard::drop`/`leave`, `close`, `wait_for_drain`, `in_flight` | every dispatch into native code enters one; host and manager close and drain it |
| **Event bus** `nexus-core/src/events.rs` | `RwLock<EventRegistry>` (`subscriptions`, `retired_generations`, `retiring`); per subscription an `AdmissionState` (mutex, condition variable) | `subscribe`, `raise`, `raise_targeted`, `unsubscribe_registration`, `unsubscribe`, `unsubscribe_owner`, `remove_owner`, `owner_retirement` | callbacks it runs call back into it; the cleaner retires owners |
| **Addon host registry** `nexus-host/src/host.rs` | `records` (lifecycle state, cleanup cursor, gate), `active_by_signature`, `last_generation` | `discover`, `cancel_discovery`, `acknowledge_*`, `request_unload`, `drain_registrations` | gates; the cleaner, through `OwnerCleanup`; used by the manager |
| **Address ownership index** `nexus-core/src/address_ownership.rs` | mapped ranges per generation, accepting or closed, with their gates | `publish`, `close`, `retire`, `is_current_owner`, `callback_gate_for_current` | the API shims attribute calls with it |
| **Addon module** `nexus-addon-loader/src/module.rs` | `ModuleState`, the native image | `activate`, `request_shutdown`, `wait_for_callbacks`, `invoke_unload`, `complete_host_cleanup`, `release` | native code; the system loader |
| **Addon manager** `nexus-addon-manager/src/manager.rs` | `entries`, `owner_paths`, `startup_open`, `launch_attempted` | `refresh_discovery`, `apply_directory_event`, `inspect`, `activate`, `request_unload`, `drain`, `invoke_native_unload`, `finish_unload`, `retry_release`, `cleanup_activation_failure`, `hot_reload` | composes the four above |
| **Texture service** `nexus-textures/src/service.rs`, `queue.rs` | `Mutex<RegistryState>` (`registry`, `pending`), three bounded queues, `stopping` | `load`, `load_with_source`, `advance`, `cleanup_owner_generation`, the decode and download workers, `drop` | the render thread advances it; callbacks go to addons through gates |
| **DXGI hooks** `nexus-dxgi/src/detours.rs`, `nexus-hook/src/shadow.rs` | the object's first word, `ROUTES`, `Inner::hooks`, `closing`, `gate` | `attach_factory`, `attach_swap_chain`, the detours, `VtableShadow::install`, `InstalledVtable::restore`, `close_and_drain` | game threads call through the detours; other hookers publish tables of their own |
| **DXGI frames** `nexus-dxgi/src/manager.rs` | `Mutex<PolicyState>`, `render_lane`, `pending_retirements` | `before_present`, `after_present`, `before_resize`, `after_resize`, `after_set_color_space`, `retire_or_defer`, `finish_render_lane` | called by the detours; calls the overlay adapter |
| **Render sessions** `nexus-render/src/session.rs`, `safety.rs` | a session per observed swap chain, with generation, lifecycle and failure budget | `reconcile`, `permission`, `record_render_outcome`, `record_failure` | part of `PolicyState` |
| **Overlay adapter** `nexus-overlay/src/adapter.rs`, `affinity.rs`, `WindowTarget` | `active_session`, thread-local native state, `affinities`, capture and active flags | `render`, `retire_swap_chain`, `deactivate`, the window procedure's clean-up | called with the render lane held; decides whether the game gets input |

### What makes them hard, and what makes them correct

* **Callback gate.** Lock-free admission against close, and a condition variable
  fed from a lock-free path. Correct when a reported drain of a closed gate is
  final, the counter is exact, no wake-up is lost, and a closed gate drains.
* **Event bus.** Dispatch uses a snapshot without a lock; callbacks re-enter
  every operation on the same thread, on others concurrently; admissions are
  closed one by one; quiescence is reported in a second critical section.
  Correct when a quiescent report is final, an exact unsubscription returns only
  once it is alone, a cleaned-up generation can never subscribe, nothing leaks
  in the retiring table, and calls return.
* **Host registry and ownership index.** The same generation is known to both
  and to the manager; failures come between any two updates. Correct when the
  records agree, and generations increase.
* **Module and manager.** A protocol of eight methods, four of which run native
  code or wait, any of which may fail, panic, time out and be retried, in any
  order the caller likes, while files come and go. Correct when nothing is
  called after the drain, the unload export runs once and alone, what outlives the
  mapping (see *Known to the repository*) is behind a closed gate, and no two
  generations of a signature are held.

* **Texture service.** Several threads load, two workers acquire, the render thread
  registers, and an owner's cleanup cancels what is under way; a name can be
  shadowed by a load that later fails. Correct when results of cancelled requests are
  dropped, no texture or name is lost, and callbacks are called once, answered, and
  gone with their owner.

* **DXGI hooks.** Any thread may have cached a table or a detour before it was
  restored; another hooker may copy or displace a table; two threads may attach the
  same object. Correct when calls reach the native method once, a drained manager runs
  no handler, and each guard balances its reference.
* **DXGI frames, sessions and adapter.** Nobody waits for the render lane, so that
  Present never blocks: what a call without it retires is delivered later, by whichever
  thread has it. The policy lock is released between every decision and its effect.
  Correct when every retirement is delivered, none leaves input captured for a session
  that is gone, outcomes charge the generation they belong to, and native state dropped
  late on one thread takes nothing from another.

### Components not modelled

Each is listed in `PROJECT.json` with its sources. Planned for later: the
registration cleaner's own composition, the FFI dispatch, the directory watcher,
the addon backend, the textures' ABI layer, inline hooks, the overlay's message queue
and window procedures, managed input, fonts, staged updates and the worker scheduler.
Left out for good: virtual-table slot layout, the classifier's scoring, render state capture, parsing and
configuration formats, ABI layouts, telemetry polling, HTTP and file I/O, and
the wiring in `nexus-runtime`: they have little control that a state machine
would show, or are pure input and output.

## 2. Modules

| Module | What it is |
|---|---|
| `AdmissionGate` | What a gate promises: once closed nobody enters; drained is reported only when closed and empty. |
| `CallbackGate` | The gate, one action per atomic operation, lock or condition-variable step. |
| `CallbackGate_proofs` | Its inductive invariant, and the refinement of `AdmissionGate`, proved. |
| `Selection` | The elements of a sequence, and those of them that are wanted, in order. |
| `Selection_proofs` | What a selection contains, and induction on numbers, proved. |
| `EventBus` | The bus: a stack of frames per thread, one action per critical section. |
| `EventBus_proofs` | Its inductive invariant and its safety properties, proved. |
| `AddonHost` | Host registry, ownership index and the dispatches that call through gates. |
| `AddonModule` | The state machine of one mapped module, as operators on its state. |
| `AddonManager` | Extends both; the manager's methods, the directory and the whole composition. |
| `AddonManager_proofs` | Its inductive invariant and its safety and action properties, proved. |
| `Textures` | The texture service: loads, workers, the render thread and cleanups as processes. |
| `Textures_proofs` | Its inductive invariant and its safety properties, proved. |
| `DxgiHooks` | Shadow vtables, routes, detours and `close_and_drain`, with COM calls and attachments as processes. |
| `DxgiHooks_proofs` | Forwarding, drain and references, proved. |
| `RenderSession` | Sessions and failure budgets, as operators on their state. |
| `OverlayAdapter` | The adapter's state, and its callbacks as operators. |
| `DxgiFrames` | Extends both; Present, ResizeBuffers and SetColorSpace1 around the native call. |
| `DxgiFrames_proofs` | Retirements, capture, outcomes and leases, proved. |
| `MC*` | Instances for TLC; one `.cfg` per run. |

Definitions whose comment begins with *Bug* are defects that a slip in the code
could introduce. They are in no specification; each stands next to the operator
it spoils and is what makes one property fail when it takes its place.

### CallbackGate

`accepting`, `in_flight` and `drain_mutex` are the fields of the struct. `call[c]`
is the program counter of one activation of `try_enter` ... `CallbackGuard::drop`:
`LoadOpen`, `Count` (`fetch_add`), `Recheck` (the second load), `Uncount`
(`fetch_sub`) and `Notify`. `waiter[w]` is that of one `wait_for_drain`:
`FastTest`, `Lock`, the loop's `TestZero`/`TestBusy`/`TestTooLate`, `Park`, a wake
(`Notify`, `SpuriousWake`, `Expire`) and `LastTest`. `sealed[w]` remembers whether
the gate was closed when the wait began: only then is its answer a promise.
The atomics have one total order. The code uses acquire and release orderings
and read-modify-writes whose x86-64 instructions are full barriers, and the
repository builds for that target only.

### EventBus

A subscription is one insertion, with its event, owner and callback as constants
of the instance. Every thread has a stack of frames, because a handler may call
the bus again: `dispatch` (a snapshot, part of it still to call), `call` (inside a
handler), `closing` and `retiring` (inside the write lock, closing admissions one
by one), `waiting` (for other threads), `reporting`. `writer` is the thread inside
a write-locked section of several steps; shorter sections are one action. `silent`
is a history of the owners `remove_owner` reported quiescent.
Reading `in_flight` of several closed admissions is one step although the code
locks them one after the other: a closed admission's count only falls, so the
outcomes are the same. `Only` (of `Selection`) is the code's filter of a subscription
list; it is a recursive function rather than `SelectSeq`, so that it can be proved about.

### AddonHost, AddonModule, AddonManager

`AddonHost` has the registry and the index as operators that the manager's actions
conjoin. A gate appears as its users see it: `call[c].at = "counted"` lies between
`fetch_add` and the second load, `"inside"` in the callback. That this abstraction
is right is what `CallbackGate` shows. A dispatch may have obtained the gate
(`"holding"`) before anything is closed.

`AddonManager` has one action per method that finishes in one go, and a begin
and an end (with phases between) for those that run native code or wait: `busy`
holds the method in progress. The methods take `&mut self`, so no second method starts meanwhile, but
dispatches (`DispatchStep`) and the addon's own code (`Register`) go on. Each
cleanup phase, load and release may fail, and each native export may panic.

What is abstracted:

* A path holds some DLL; which signature its definition has is chosen at each
  inspection, and so is whether the configuration lets it start. The latter covers
  `set_enabled`, whose other effects are reports.
* An address range is one per generation; overlap of the ranges is the system
  loader's matter.
* A load that fails, or a resolver that refuses, changes no state and is a step
  that leaves things alone; a rejected module whose release fails is kept
  (`Reject`).
* `hot_reload` calls `request_unload`, `drain`, `invoke_native_unload`,
  `finish_unload`, `inspect` and `activate`, and adds no step of its own.
* The module's own gate guards only its load callback; nothing in the repository
  clones it, so it is always drained when asked.
* An owner's registrations are two bits, for the two kinds of registry that the
  cleaner's second phase sweeps (`domain.rs:49`). `registered`: the event bus and
  `UiHost`, which refuse a cleaned-up owner (`tombstones`, from `EventBus`).
  `unfenced`: window procedures, binds, textures and fonts, whose clean-up only
  removes what is there (`raw.rs:204`, `managed.rs:696`), so that `Register` succeeds
  until `invoke_native_unload` closes API admission (`manager.rs:1294`). `swept` is
  the cleaner's progress: a service that succeeded is skipped when the phase is run
  again. The kinds succeed or fail apart from each other. The first and third phases
  touch no callback.
* A registration that races with the closing of admission is withdrawn by the call
  that made it (`wnd_proc.rs:72`), and is left out. So is deregistration by the addon.
* `load_calls` and `unload_calls` are histories of the native exports called.

### Textures

`registry` and `pending` are the fields of `RegistryState`; a texture is known by the
request that created it. An action is one critical section: `Load` is `reserve_request`
with its three outcomes (`Join`, `FindCached`, `StartRequest`), `QueueResolved` and
`FailReserved` the rest of a load, `Take` and `Deliver` a worker's turn, `Pop`, `Upload`,
`Finish` and `CallBack` what `advance` does with a completion, `CleanPending` and
`CleanReady` the halves of `cleanup_owner_generation`. Names are sequences of numbers, so
that `icon` and its alias `icon_1` are `<<1>>` and `<<1, 1>>`.

What is abstracted:

* Where an image comes from and whether it is sound: a load may fail before it is
  queued, an image while it is acquired, decoded, validated or uploaded.
* A load goes to either worker. What they do differs only in the source.
* A bounded queue is a sequence; a worker that waits for room is one whose `Deliver` is
  not enabled. The queue's mutex and condition variables are not modelled.
* `max_completions_per_advance` only decides when `advance` returns.
* `advance` runs on one thread. Loads by a callback are loads by another loader.
* Reaching the bounds on requests and callbacks stands for no wrap of the ids.

### DxgiHooks

`vtable[o]` is the first word of an object, an index into `tables`, the copies made so
far: who made each, and of which table. What a slot holds follows from that, so a call is
`dispatch` on a table, and a `detour` calls the table its route recorded (`routes`), a
foreign hook the table it copied. `hooks` are the guards in the order in which
`close_and_drain` restores them; `call[t].guards` counts the gate's guards that a call
holds, and `forwards` how often it reached native code. `attach[t]` is an attachment
under way, by the host or by the detour of a method that returns an object.
`attached_again` remembers the objects of the finding below.

What is abstracted: whether an object is a factory or a swap chain is only which
methods it has; `QueryInterface` returns the highest pointer or the object itself; a
table has all its slots replaced or none; a handler's body is a step that may panic; one
manager, so no `HookConflict`; the base interface's missing slots are left out.

### RenderSession, OverlayAdapter, DxgiFrames

An action of `DxgiFrames` is one critical section of the policy or of
`pending_retirements`, or one exchange of the lane. `pc[t]` and `frame[t]` are a thread's
position and its `PresentInvocation`, `ResizeInvocation` or `RenderTicket`. A Present
goes `policy` (its sequence), `inspect` (the observation), `permit`, `render`, `record`,
`outcome`, `native`, `after`; every call starts with `TryLane` and `drain`, and ends with
`drain`, `release`, `sweep` and `check`, the two loops of `finish_render_lane` and
`drain_deferred_retirements_if_available`. `issued` and `failed` are histories; `events`
serves the bound.

What is abstracted:

* The classifier may select any renderable candidate or none; what it looks at
  (activity, visibility, overrides) only decides that.
* One render stage. An observation is the pair of everything that inspection finds and
  the colour space.
* Rendering, from the affinity claim to the guard's drop, is one step. Meanwhile no other
  call can have the lane (`TypeOK`), and only the owner's thread touches its native state;
  deactivation in its middle is the failure that `RenderFails` allows with an inactive
  target.
* In the lane, a retirement is delivered in the step that decides it; taking what is
  pending and retiring it is one step; and the retirements of an exhausted sequence
  counter are deferred together. Only the lane's owner could tell the difference.
* `closing` and the closing of the gate are one step: `DxgiHooks` has them apart. That a
  handler may not run after a drain is shown there.
* Message queue, visibility and resize phases do not influence what is kept here.

## 3. What TLC checks

### Runs

| Run | Instance | Shows |
|---|---|---|
| `gate` | 3 calls, 2 waiters, fair | six properties of the gate, the refinement of `AdmissionGate` and its liveness |
| `bus` | 2 threads, depth 3, two subscriptions of two generations of one addon | the bus's safety |
| `bus_returns` | 2 threads, depth 2, two addons, fair | calls return, except in a ring of mutual unsubscription |
| `manager` | 1 signature, 2 generations, 2 paths, 1 dispatch, an addon with no flags or with both | the whole life cycle, callers using current tokens |
| `stale_token` | 1 path, tokens of any age | a counterexample, see Findings |
| `draining` | 1 path | a counterexample |
| `unload_panic` | 1 path | a counterexample |
| `textures` | 2 loads at a time, 2 workers, 2 requests, 2 callbacks, one name, fair | cancellation, and callbacks called once and answered |
| `texture_names` | 2 loads at a time, 2 workers, 3 requests, two names | names under shadowing |
| `dxgi_hooks` | 2 threads, an interface and its derived pointer, 2 copied tables of which 1 foreign | forwarding, drain and references |
| `dxgi_routes` | 2 threads, Present only | a counterexample |
| `dxgi_frames` | 2 threads, 2 swap chains, 3 calls and outside events, 2 Present sequences | retirements, capture, outcomes and leases |

### Properties

**Gate.** `DrainedMeansSilent`: a drain reported on a closed gate is final.
`CountIsExact`: the counter neither wraps nor sticks. `NoLostWakeup`: a waiter
asleep over a zero count has a notification on its way. `ImplementsAdmissionGate`.
`ClosedGateDrains`: with no help from the clock, every wait on a closed gate ends.

**Bus.** `QuiescentReportIsSilent`, `UnsubscriberIsAlone`, `CountersMatchFrames`
(per-thread counts are those of the nested frames, so that reentry is told from
other threads), `CleanedOwnerHasNoSubscription`, `NothingLeftToReap`, `CallsReturn`.

**Manager.** `NoCallAfterDrain`, `UnloadRunsAlone`, `UnloadCalledOnce`,
`RegistrationsAreMapped` (what the event bus and `UiHost` hold is in a mapped module,
although API admission stays open while the unload export runs; what another registry
still holds after that is behind a closed gate), `IndexedOwnersAreMapped`, `OneGenerationPerSignature`, `HostAgrees`,
`LaunchOnlyLoadedOnce`, `GenerationsIncrease`.

**Textures.** `CancelledNeverRegistered`: a request that was cancelled or failed never
reaches the registry, wherever its image is by then. `CalledOnce`: a callback is in one
place and called once at most. `CleanedUpIsGone`: after a cleanup nothing of the owner is
left. `TexturesAreKept` and `NamesKeepResolving`: whatever loads shadow each other, fail
and are cancelled, no texture loses its last name and a loaded name resolves again.
`CallbacksAreAnswered`.

**Hooks.** `CallsReachNative`: whatever was restored, displaced or closed meanwhile, a call
of an object attached once reaches the native method, once. `DrainedRunsNoHandler`.
`RefsMatchShadows`.

**Frames.** `RetirementsAreDelivered`: nothing is left pending once all calls have
returned, although nobody waits for the lane. `CaptureHasALiveSession`: then input is
captured only for a recorded session that the last retirement decided for its chain does
not cover. `DeactivatedHoldsNoSession`. `FailuresBelongToGeneration`: a generation's budget
is spent by its own frames only. `LeasesMatchStates`: the newest epoch of a chain lives
exactly as long as the native state built under it. `TypeOK` includes that the lane has
one holder.

Not claimed: a primary that loses its place to another chain through that other chain's
event is not retired by it; its input stays captured until its own next Present.

Every property has a mutant in `PROJECT.json` that breaks it.

### Bounds, and why they are enough

* *Gate*: a wake-up is lost between one waiter and the last call; a second waiter
  lets them compete for the mutex, and three calls let one enter, one be refused and
  one leave at once. The proofs hold for any number.
* *Bus*: each race is between one thread in a snapshot or callback and one that
  removes; depth 3 lets a callback dispatch and the nested callback remove. Two
  generations of one addon are what retirement orders; two addons are what lets
  callbacks unsubscribe each other, which needs depth 2. `Nobody` is the free lock.
* *Manager*: `MaxGeneration` is 2, so there is a successor, and the exhausted
  counter is met. Two paths let a file be renamed, or a second file claim the
  signature. One dispatch is enough because no property relates two. The constraint
  `StartupMatters` follows the end of start-up only for the addon with flags: to one
  without, a Startup request is what a Runtime request is at any time, and no property
  reads `startup_open`. Paths, the
  threads of the bus, and the loaders and workers of the textures are symmetric: no definition chooses among them. The
  symmetry is dropped where liveness is checked.

* *Textures*: with capacities of 1 every queue is full at once. A late result and the
  request that overtakes it are two requests; a roll-back over an alias that has
  another texture by then needs three, over the one name and its alias, and two workers
  for the later request to finish first. That run has no callbacks, which do not
  influence names: a callback's owner is among its request's owners. Two callbacks
  let one join the other's request, or wait among the completions while it does.
* *Hooks*: two copies let a foreign hooker copy the detour's table, or the base and
  derived pointers both be shadowed; the methods are one that attaches what it returns
  and one whose fallback does not know its own detour. The route finding needs neither.
* *Frames*: every race here is between a call with the lane and one without. Three
  calls, with two sequences, render a chain twice, by two threads, with a resize, a
  change of colour space or another surface between; or fail twice, which disables it
  (one failure starts a cooldown of one sequence, the second ends it for good); or meet
  the exhausted counter at the third. Any set of chains is tracked at the start, and in
  place of a call something else may happen at any point: another chain is tracked, the
  controls are switched, the manager closes, the adapter is deactivated, a dormant state
  is dropped. `Intents` is `{TRUE}`: a UI that never wants the input cannot keep it.
  Threads and chains are symmetric. The run ends when the bound is reached, hence
  no deadlock check.

### Fairness

*Gate*: a thread that can execute its next instruction does (weak fairness on each
call's steps after its first load and on the waiter's steps), and a callback
returns. Calling, closing, time-outs and retries are free. Time-outs are
not fair: the wait must end without them.
*Bus*: at every depth a thread within the bus takes its next step if it can do so
again and again (strong fairness, because the registry lock is taken and
released by others and is not denied for ever, and because a handler that
interleaves nested calls without end would otherwise count as never returning).
Nobody has to start an operation.
*Manager*: safety only. Nothing in the repository makes a caller retry.
*Textures*: a load that has begun, a worker with something to do, and a cleanup go on,
and the game calls `advance` in every frame (weak fairness of each). Nobody has to load.

### Findings

1. `stale_token`: `owner_key` maps any token ever inspected to its path, and the
   methods then act on the generation the entry holds now. Called with the token of
   an earlier generation, the release retires the wrong range, and the successor's
   stays in the index after its DLL is gone (`manager.rs:1956`; contradicts
   `address_ownership.rs:69`, `:152` and `manager.rs:898`). The run `manager` sets
   `StaleTokens = FALSE`: what it shows holds for callers with current tokens.
2. `draining`: `cleanup_activation_failure` also accepts an ordinary unload that is
   draining, and a release acknowledged while a refused call is counted for a moment
   is not recorded. Either way the host keeps a `Draining` record and the claim on
   the signature for ever (`manager.rs:1406`, `:1897`; contradicts `host.rs:24` and
   `manager.rs:1390`).
3. `unload_panic`: a panic of the unload export in failure cleanup leaves the entry
   in `Draining` and every retry is refused (`manager.rs:1458`; contradicts
   `manager.rs:55`).
4. `dxgi_routes`: of two threads that attach the same swap chain, the one that loses the
   exchange removes the route of the other. Its detours then find no route although
   nothing was restored, and `present_detour` answers `E_FAIL` without presenting
   (`detours.rs:661`; contradicts `detours.rs:1159`). `dxgi_hooks` excludes such objects
   from `CallsReachNative` by `attached_again`.

### Known to the repository

`CONFORMANCE.md:132` (and row 4 of its register, line 749) declares outstanding that the
registration sweep runs before the unload export: "a registration *created* during
unload would survive where the reference sweeps it, leaving a callback that can fire
after `FreeLibrary`". The model has these registrations (`Register` into `unfenced`,
after the sweep and in the export). They survive in the registries of window procedures,
binds, textures and fonts, against `nexus-addon-backend/src/services.rs:66` ("Composite
owner cleanup must remove registrations and drain admitted callbacks before module
unload"); the event bus and `UiHost` refuse them. A retry of a failed sweep does not help:
the services that had succeeded are skipped. `NoCallAfterDrain`, `UnloadRunsAlone` and
`RegistrationsAreMapped` show how far this goes: the owner's gate, which
`request_unload` or the failed activation closed, refuses the survivor's every dispatch,
so it is an entry that leaks, and not a call into a released module. The repository
records the survivor itself, so no run repeats it as a finding.

## 4. What is proved

Each module of proofs has an inductive invariant `IInv`, a lemma for every action that
preserves it, and one theorem for every safety property that the passing runs check of
that module. TLC has checked each `IInv` as an invariant on the instance of the run before it
was proved.

### CallbackGate_proofs

For any finite set of calls and any set of waiters; the assumptions are `CallsFinite` and
`FreeIsNobody` (the name of the free mutex is no waiter).

* `Inductive`: `Spec => []IInv`, where `IInv` is `TypeOK`, `MutexHolder`,
  `SealedIsClosed`, `CountIsExact`, `NoLostWakeup` and `DrainedMeansSilent`. None of
  the last three is inductive alone. `CountIsExact` needs finiteness of the calls, and
  a lemma about the cardinality of a set that gains or loses one call.
  `DrainedMeansSilent` needs `CountIsExact`, because the waiter reads the counter,
  not the calls, and `SealedIsClosed`, because it looked at the gate earlier.
  `NoLostWakeup` needs `MutexHolder`: a parking waiter holds the mutex, so the
  notifier cannot have passed it.
* `TypeCorrect`, `DrainIsSound`, `CountCorrect`, `WakeupNeverLost`: its conjuncts.
* `Refinement`: `Spec => Gate!Spec`, from the same invariant, one case per action.

### EventBus_proofs

For any events and insertions, any finite set of threads (the counters are
cardinalities of sets of frames: `ThreadsFinite`) and any depth of nesting. `Nobody` is
no thread, and an owner is a signature with a generation from 1 (`OwnersAreTokens`, the
`OwnerToken` of the code).

* `StacksOK` says what a frame relies on: what it has left to do was inserted and is of
  its owners; what a wait has dealt with (`Done`) is closed; the owners of a retirement
  are `Cleaned`; all but the innermost frame are callbacks; and `writer` is the thread
  whose innermost frame is a write-locked section. A step shows it for the frame it
  leaves on top; that other frames stay right needs only that nothing is undone
  (`Monotone`: insertions remain, closed admissions remain closed, a cleaned owner
  remains cleaned).
* `CountersMatchFrames` goes over sets of pairs of thread and frame that gain or lose
  one pair. From it, `CountersTell` gives what the code concludes from its counters: a
  zero count means that nobody is inside, a count equal to the thread's own that no
  other thread is.
* `RetiredAreClosed` is the link from the registry to the admissions: an insertion no
  longer subscribed is closed, and watched or out of use, or the thread in the
  write-locked section will still close it. With `Cleaned`, it makes `SilentAreClosed`
  inductive: a quiescent report was made on watched admissions only, and it is final
  because of the ones that are *not* watched.
* `OthersAreOut` is `UnsubscriberIsAlone` over `Done`: only a callback whose admission is
  open can begin, and what has been waited for is closed.
* `ReapersRemain`: an owner with something to reap is in the frame of some thread. Whoever
  finds it busy leaves it to the callback that makes it busy (`NotQuiescent`).
* Theorems: `TypeCorrect`, `CountersMatch`, `ReportIsFinal`, `UnsubscriberAlone`,
  `CleanedStaysEmpty`, `NothingUnreaped`.

What `Only` returns for every sequence (`OnlyFacts`, in `Selection_proofs`) is proved by
induction on numbers, which the library's theorems offer only for operators; `NatInduct`
states it for sets of numbers, from the least number of a set (`LeastNumber`, by
well-foundedness of `<`).

### DxgiHooks_proofs

For any objects and methods, any finite set of threads (`ThreadsFinite`, for the counted
guards) and any number of tables. `HighestIsHighest` is what `QueryInterface` may return;
`NoneIsNoObject` and `TablesAreBounded` are about the names and bounds.

* A call reaches native code because it descends: `TablesOK` has every table copied from
  an earlier one, and `Routed` has the route of a published detour lead to a table older
  than the detour's own. `Descends` bounds the depth of a call by the table it is at, so
  no call falls back to its own detour, or fails. `Reachable` names the tables of which an
  object's callers, attachers, guards and route may hold a pointer; that they stay with
  their object (`TablesStayWithObject`, over the field `of`, which says of which object a
  table was copied) keeps another object's descent apart. `OwnCopies` and `Exclusive` are
  about an attachment before it is published.
* `OnceAttached` restricts this to objects that are attached once, the condition
  of `CallsReachNative` which finding 4 shows to be necessary.
* `GateClosed` and `Placed` (whoever runs a handler holds a guard) give
  `DrainedRunsNoHandler`.
* Theorems: `TypeCorrect`, `ReferencesMatch`, `DrainedIsQuiet`, `NativeForwarding`.

### DxgiFrames_proofs

For any chains, threads, failure policy and bound on sequences (`FailurePolicy`,
`SequencesAreBounded`, `IntentsAreBoolean`, `NobodyIsNobody`). Nothing has to be finite.

* `Typing` says of every place of a call what its invocation holds (`Invocation`), and of
  the lane that the flag is up exactly while one call has it (`LaneOK`).
* `SomebodyDrains`: what is in `pending` is left to a call that has the lane or is about to
  look again; this is why nobody has to wait for the lane.
* `OverlayOK`: an epoch of a chain is leased by the one thread that holds it, or given up
  (`Epoch`), and none is held before it is given out (`IssuedFor`).
* `FramesAreNewest`: the frame rendered is newer than the recorded session and than every
  retirement of its chain that is not on its way (`InFlight`). With it,
  `CaptureIsAccounted` is inductive: captured input belongs to a session no retirement
  covers, unless that retirement is on its way or the frame is about to be recorded.
* `OutcomesAreKnown`, `FailuresBelongToGeneration` and `DeactivatedHoldsNoSession`.
* Theorems: `TypeCorrect`, `RetirementsDelivered`, `CaptureIsLive`,
  `DeactivatedIsForgotten`, `FailuresOfGeneration`, `LeasesMatch`.

### AddonManager_proofs

For any paths, signatures, flags and generations, any number of owners that are held at
once, and any finite set of dispatches (`CallsFinite`; a drain reads the number of calls
at a gate). `NoneIsNoPath`, `NoneIsNoOwner` and `MaxGenerationIsNat` are about the names
and the bound. Every theorem has one hypothesis, `~StaleTokens`: callers act with the
token they were given last. Finding 1 shows that `IndexedOwnersAreMapped` needs it.

* A generation is in four places: the entry of a path, `owner_paths`, the host's record
  and the ownership index. `Placed` says that the entry of the generation's path holds
  it; `OwnersOK` ties the other three to that, and `EntriesOK` the state of an entry to
  the module under it. They give `IndexedOwnersAreMapped` and `HostAgrees`, which turns
  out to hold while a method is in progress, too.
* `OneIsPlaced` says of each signature that one generation is held; `GenerationsOK` bounds
  those known by `last_generation`. The action property follows: the index has a new owner
  only when `discover` took the next token (`Indexing`).
* `GatesOK` closes the gate of every generation on its way out. A drain that reads a count
  of zero there then stays right, since a later dispatch counts itself but is turned away
  at its second look. `CallsOK` records this for a drain that has found zero and has not
  yet quiesced the module (`busy.method = "drained"`), and gives `NoCallAfterDrain`.
* `RegistrationsOK`: what has quiesced, or failed after the second cleanup phase, has a
  tombstone, and registers nothing again with the event bus and `UiHost`. What the other
  registries hold is of a generation the host knows, and by `OwnersOK` and `GatesOK` such
  a generation is held and not yet quiesced, or its gate is closed (`QuiescedIsClosed`).
  With `CallsOK`, these are `UnloadRunsAlone` and `RegistrationsAreMapped`.
* `UnloadsOK`: nothing has called the export of a generation that is `Before` its unload,
  whichever method will. `LaunchesOK`: a launch-only signature once inspected has one
  generation, and refuses others.
* `BusyOK` is what a method in progress relies on when it resumes: the entry, the record
  and the module are as it left them.

The methods have much in common, so the steps are proved by kind. `HeldStep` changes the
entry and record of a generation that stays held, `ReleaseStep` lets it go, `SparingStep`
touches none that is held; `AdmitsOK`, `RenameOK`, `RegisterOK` and `DispatchStepOK` are
the rest. Each action is shown to be of a kind, the kinds to preserve `IInv`.

* Theorems: `TypeCorrect`, `CallsAreDrained`, `UnloadIsAlone`, `UnloadOnce`,
  `RegistrationsMapped`, `IndexIsExact`, `OneGeneration`, `HostAgreesWithManager`,
  `LaunchOnlyOnce`, `GenerationsNeverRepeat`.

### Textures_proofs

For any loaders, owners, workers and names, and any positive capacities and limits
(`LimitsArePositive`, `BoundsAreNat`, `NamesAreSequences`). Nothing has to be finite but
what is registered and pending, which `IInv` says it is: an alias is the first number that
is free, and there is one by counting (`AliasIsFree`).

* `RegistryOK` is about names and textures. `ImagesOK`: what is registered is what was
  created, and no request in flight was created, cancelled, or is in flight twice; with it,
  a late result that still matches is the result of that request. `NamesOK`: a loaded name
  is registered or shadowed by a load that will give it back. `restore_shadow` takes an
  alias away, and the alias may have become the name of a load of its own; so `NamesOK`
  also says that such an alias no longer leads to the texture that was moved there
  (`Leads`), which is why the code compares textures before it removes one.
* A cleanup restores several shadows, in a hash map's order. `DroppedAll` proves it one
  request after the other, by induction on how many are done, each as a request that fails
  (`Dropped`).
* `InOnePlace` is `CalledOnce` over slots (`Slots`: a position in a request, in the
  completions, in what `advance` or a load holds): a callback is in one slot. Sequences are
  appended to, cut at the head, filtered and handed over, so an action is shown to bring
  what each slot holds from another slot (`Moves`), and different slots from different ones
  (`Apart`); `Moved`, `MovedCalled` and `StaysPut` conclude from that. `UncalledOK`
  adds that what waits was not called, and that ids not given out wait nowhere.
* `QuietOK` is `CleanedUpIsGone` with the two critical sections of a cleanup kept apart:
  after the first no request of the addon is left and none can come, so that the second one
  finds every ready callback there will ever be.
* `ProcessesOK` is what a load and `advance` rely on about what they hold.
* Theorems: `TypeCorrect`, `CallbacksOnce`, `CleanupIsComplete`, `CancelledStaysOut`,
  `TexturesStay`, `NamesResolve`.

### Only model-checked

Liveness (`ClosedGateDrains`, `CallsReturn`, `CallbacksAreAnswered`), which is out of the
prover's reach; every safety and action property of the passing runs is proved. A
finding's run shows a counterexample, of which there is nothing to prove.

## 5. Plan

Modelled first is what every other part leans on: gate, bus, life cycle; then the
textures, and the hooks and frames between the game and its swap chains. Next, in this
order:

1. Texture sessions (`nexus-runtime/src/textures.rs`): attaching and retiring services
   and the table of records kept for the process, whose promise ("every texture record
   ever handed out") is to be compared with what its two callers retain.
2. The bounded queue (`queue.rs`) with its mutex and condition variables, as what
   `Textures` assumes of it; provable like the gate.
3. Registration cleaner: the shared lease, domain order, retries and reentry
   (`nexus-addon-cleanup`).
4. Directory watcher: coalescing and overflow, implementing the set of events that
   `AddonManager` consumes.
5. Inline hooks: quiescence before a detour goes.
6. The overlay's message queue and window procedures, the scheduler.

Proofs, in this order: that the bus and the manager use their gates as `AdmissionGate`
promises, as a refinement; that `close_and_drain` implements an abstract detour which is
either installed or silent; lemmas on the sessions of `RenderSession`. No module here declares a
RECURSIVE operator, so all can be proved about.
