------------------------------- MODULE Textures -------------------------------
(****************************************************************************)
(* nexus-textures/src/service.rs and queue.rs: the texture service.  Any     *)
(* thread submits loads and cleans up owners; a decode and a download worker *)
(* acquire images; the render thread uploads and registers them and calls    *)
(* back.  The registry's mutex and those of the bounded queues are taken for *)
(* one step each, so that all of these interleave between any two steps.     *)
(*                                                                           *)
(* A loader is one activation of load or load_with_source: a callback that   *)
(* loads again is another one.  A texture is named by its request.           *)
(****************************************************************************)
EXTENDS Selection, FiniteSets, FiniteSetsExt, Functions

CONSTANTS
    Loaders,
    Addons,                 \* the owners that can be cleaned up
    Host,                   \* the owner that cannot
    Workers,                \* the decode worker and the download worker
    Identifiers,            \* the names that are loaded, as sequences
    WorkCapacity,           \* of the queue in front of each worker
    CompletionCapacity,
    CallbackLimit,          \* max_callbacks_per_texture
    MaxRequests,            \* bounds on the requests and callbacks of a behaviour
    MaxCallbacks

ASSUME HostIsNoAddon == Host \notin Addons
ASSUME LimitsArePositive ==
    {WorkCapacity, CompletionCapacity, CallbackLimit} \subseteq Nat \ {0}
ASSUME BoundsAreNat == {MaxRequests, MaxCallbacks} \subseteq Nat
ASSUME NamesAreSequences == Identifiers \subseteq Seq(Nat)

VARIABLES
    registry,               \* RegistryState: the texture of each name
    pending,                \* RegistryState: the request in flight of each name
    next_request_id,
    next_callback_id,
    jobs,                   \* the bounded queue in front of each worker
    completions,            \* the bounded queue in front of advance
    loader,                 \* where each load is
    worker,                 \* the job each worker has taken
    render,                 \* where advance is
    cleaning,               \* cleanups between their two halves
    stopping,
    created,                \* history: textures that were registered
    named,                  \* history: names registered by a load of their own
    cancelled,              \* history: requests that were cancelled or failed
    called,                 \* history: how often each callback was called
    quiet                   \* history: addons that load nothing since a cleanup

state == <<registry, pending, next_request_id, next_callback_id>>
queues == <<jobs, completions>>
threads == <<loader, worker, render, cleaning>>
history == <<created, named, cancelled, called, quiet>>
vars == <<state, queues, threads, stopping, history>>

Owners == Addons \cup {Host}
Requests == 1..MaxRequests
Names == Seq(Nat)
Callback == [id : 1..MaxCallbacks, owner : Owners]
Callbacks == Seq(Callback)
Job == [identifier : Names, request_id : Requests]
Shadow == [alias : Names, texture : Requests]
NoShadow == [alias |-> <<>>, texture |-> 0]
NoJob == [identifier |-> <<>>, request_id |-> 0]
InFlight == [request_id : Requests, owners : SUBSET Owners, callbacks : Callbacks,
             shadowed : Shadow \cup {NoShadow}]
Completion == [kind : {"callback"}, callback : Callback]
              \cup [kind : {"decoded"}, job : Job, ok : BOOLEAN]

Decoded(job, ok) == [kind |-> "decoded", job |-> job, ok |-> ok]
Ready(callback) == [kind |-> "callback", callback |-> callback]
IsReady(completion) == completion.kind = "callback"

\* The queues stay within their capacities, the callbacks within their limit.
TypeOK ==
    /\ DOMAIN registry \subseteq Names /\ registry \in [DOMAIN registry -> Requests]
    /\ DOMAIN pending \subseteq Identifiers /\ pending \in [DOMAIN pending -> InFlight]
    /\ \A i \in DOMAIN pending : Len(pending[i].callbacks) <= CallbackLimit
    /\ next_request_id \in 1..MaxRequests + 1
    /\ next_callback_id \in 1..MaxCallbacks + 1
    /\ jobs \in [Workers -> Seq(Job)]
    /\ \A w \in Workers : Len(jobs[w]) <= WorkCapacity
    /\ completions \in Seq(Completion) /\ Len(completions) <= CompletionCapacity
    /\ loader \in [Loaders -> [at : {"idle", "cached", "resolving", "calling"},
                               owner : Owners, lazy : BOOLEAN, job : Job \cup {NoJob},
                               callbacks : Callbacks]]
    /\ worker \in [Workers -> Job \cup {NoJob}]
    /\ render \in [at : {"out", "matched", "uploaded", "calling"},
                   job : Job \cup {NoJob}, ok : BOOLEAN, callbacks : Callbacks]
    /\ cleaning \in SUBSET Addons
    /\ stopping \in BOOLEAN
    /\ created \in SUBSET Requests /\ cancelled \in SUBSET Requests
    /\ named \in SUBSET Identifiers
    /\ called \in [1..MaxCallbacks -> Nat]
    /\ quiet \in SUBSET Addons

NotLoading == [at |-> "idle", owner |-> Host, lazy |-> FALSE, job |-> NoJob,
               callbacks |-> <<>>]
NotRendering == [at |-> "out", job |-> NoJob, ok |-> FALSE, callbacks |-> <<>>]

Init ==
    /\ registry = <<>>
    /\ pending = <<>>
    /\ next_request_id = 1
    /\ next_callback_id = 1
    /\ jobs = [w \in Workers |-> <<>>]
    /\ completions = <<>>
    /\ loader = [l \in Loaders |-> NotLoading]
    /\ worker = [w \in Workers |-> NoJob]
    /\ render = NotRendering
    /\ cleaning = {}
    /\ stopping = FALSE
    /\ created = {} /\ named = {} /\ cancelled = {}
    /\ called = [c \in 1..MaxCallbacks |-> 0]
    /\ quiet = {}

----------------------------------------------------------------------------
(* The registry *)

Put(f, x, value) == [y \in DOMAIN f \cup {x} |-> IF y = x THEN value ELSE f[y]]
Without(f, x) == Restrict(f, DOMAIN f \ {x})

\* Bug: a name that is being loaded counts as free.
AliasAmongRegistered(identifier) ==
    LET Free(n) == Append(identifier, n) \notin DOMAIN registry
    IN  Append(identifier, Min({n \in 1..Cardinality(DOMAIN registry) + 1 : Free(n)}))

\* identifier_1, identifier_2, ...: the first that is free.
Alias(identifier) ==
    LET used == DOMAIN registry \cup DOMAIN pending
        Free(n) == Append(identifier, n) \notin used
    IN  Append(identifier, Min({n \in 1..Cardinality(used) + 1 : Free(n)}))

\* Bug: whatever bears the alias goes.
RestoreShadowAnyAlias(reg, identifier, shadowed) ==
    IF shadowed = NoShadow \/ identifier \in DOMAIN reg THEN reg
    ELSE Put(Without(reg, shadowed.alias), identifier, shadowed.texture)

\* restore_shadow: the texture gets its name back; its alias goes unless
\* another texture has the name by now.
RestoreShadow(reg, identifier, shadowed) ==
    IF shadowed = NoShadow \/ identifier \in DOMAIN reg THEN reg
    ELSE LET kept == IF shadowed.alias \in DOMAIN reg /\ reg[shadowed.alias] = shadowed.texture
                     THEN Without(reg, shadowed.alias) ELSE reg
         IN  Put(kept, identifier, shadowed.texture)

Matches(job) ==
    job.identifier \in DOMAIN pending /\ pending[job.identifier].request_id = job.request_id

----------------------------------------------------------------------------
(* load, load_with_source *)

Idle(l) == loader[l].at = "idle"
SetLoader(l, record) == loader' = [loader EXCEPT ![l] = record]

\* A request without a callback has the sequence <<>>, one with a callback a
\* sequence of one; an id is used up even if the callback is dropped.
Submitted(owner, with_callback) ==
    IF with_callback THEN <<[id |-> next_callback_id, owner |-> owner]>> ELSE <<>>

Join(identifier, owner, lazy, callbacks) ==
    LET p == pending[identifier]
        attached == IF lazy THEN <<>> ELSE callbacks
    IN  /\ identifier \in DOMAIN pending
        /\ pending' =
              IF Len(p.callbacks) + Len(attached) > CallbackLimit /\ attached # <<>>
              THEN pending
              ELSE [pending EXCEPT ![identifier].callbacks = @ \o attached,
                                   ![identifier].owners = @ \cup {owner}]
        /\ UNCHANGED <<registry, next_request_id, loader>>

FindCached(l, identifier, owner, shadow, callbacks) ==
    /\ identifier \notin DOMAIN pending
    /\ ~shadow /\ identifier \in DOMAIN registry
    /\ SetLoader(l, IF callbacks = <<>> THEN NotLoading
                    ELSE [NotLoading EXCEPT !.at = "cached", !.owner = owner,
                                            !.callbacks = callbacks])
    /\ UNCHANGED <<registry, pending, next_request_id>>

\* shadow_texture moves a texture that has the name to its alias.
StartRequest(l, identifier, owner, shadow, lazy, callbacks) ==
    LET shadows == shadow /\ identifier \in DOMAIN registry
        job == [identifier |-> identifier, request_id |-> next_request_id]
        shadowed == IF shadows
                    THEN [alias |-> Alias(identifier), texture |-> registry[identifier]]
                    ELSE NoShadow
    IN  /\ identifier \notin DOMAIN pending
        /\ shadow \/ identifier \notin DOMAIN registry
        /\ next_request_id <= MaxRequests
        /\ next_request_id' = next_request_id + 1
        /\ registry' = IF shadows
                       THEN Put(Without(registry, identifier), shadowed.alias, shadowed.texture)
                       ELSE registry
        /\ pending' = Put(pending, identifier,
                          [request_id |-> next_request_id, owners |-> {owner},
                           callbacks |-> callbacks, shadowed |-> shadowed])
        /\ SetLoader(l, [at |-> "resolving", owner |-> owner, lazy |-> lazy, job |-> job,
                         callbacks |-> callbacks])

\* reserve_request
Load(l, identifier, owner, shadow, lazy, with_callback) ==
    LET callbacks == Submitted(owner, with_callback)
    IN  /\ Idle(l)
        /\ ~stopping
        /\ with_callback => next_callback_id <= MaxCallbacks
        /\ next_callback_id' = next_callback_id + Len(callbacks)
        /\ \/ Join(identifier, owner, lazy, callbacks)
           \/ FindCached(l, identifier, owner, shadow, callbacks)
           \/ StartRequest(l, identifier, owner, shadow, lazy, callbacks)
        /\ quiet' = quiet \ {owner}
        /\ UNCHANGED <<queues, worker, render, cleaning, stopping, created, named,
                       cancelled, called>>

\* The cached texture's callback joins the completions, unless they are full.
PushCached(l) ==
    /\ loader[l].at = "cached"
    /\ completions' = IF Len(completions) < CompletionCapacity
                      THEN Append(completions, Ready(loader[l].callbacks[1]))
                      ELSE completions
    /\ SetLoader(l, NotLoading)
    /\ UNCHANGED <<state, jobs, worker, render, cleaning, stopping, history>>

\* Bug: the queue is not bounded.
QueueUnbounded(l, w) ==
    /\ loader[l].at = "resolving"
    /\ jobs' = [jobs EXCEPT ![w] = Append(@, loader[l].job)]
    /\ SetLoader(l, NotLoading)
    /\ UNCHANGED <<state, completions, worker, render, cleaning, stopping, history>>

\* queue_resolved, once an override or the source has been obtained.
QueueResolved(l, w) ==
    /\ loader[l].at = "resolving"
    /\ Len(jobs[w]) < WorkCapacity
    /\ jobs' = [jobs EXCEPT ![w] = Append(@, loader[l].job)]
    /\ SetLoader(l, NotLoading)
    /\ UNCHANGED <<state, completions, worker, render, cleaning, stopping, history>>

\* fail_reserved, when the source cannot be had or its queue is full.  A lazy
\* source may withhold the failure from the callback it came with.
FailReserved(l) ==
    LET job == loader[l].job
        i == job.identifier
        own == Elements(loader[l].callbacks)
    IN  /\ loader[l].at = "resolving"
        /\ IF Matches(job)
           THEN /\ registry' = RestoreShadow(registry, i, pending[i].shadowed)
                /\ pending' = Without(pending, i)
                /\ \E excluded \in {{}} \cup (IF loader[l].lazy THEN {own} ELSE {}) :
                      SetLoader(l, [loader[l] EXCEPT
                          !.at = "calling",
                          !.callbacks = Only(pending[i].callbacks, Callback \ excluded)])
                /\ cancelled' = cancelled \cup {job.request_id}
           ELSE /\ SetLoader(l, NotLoading)
                /\ UNCHANGED <<registry, pending, cancelled>>
        /\ UNCHANGED <<next_request_id, next_callback_id, queues, worker, render, cleaning,
                       stopping, created, named, called, quiet>>

\* dispatch_callback; a panic is contained.
Call(callback) == called' = [called EXCEPT ![callback.id] = @ + 1]

CallFailed(l) ==
    /\ loader[l].at = "calling"
    /\ IF loader[l].callbacks = <<>>
       THEN SetLoader(l, NotLoading) /\ UNCHANGED called
       ELSE /\ Call(Head(loader[l].callbacks))
            /\ SetLoader(l, [loader[l] EXCEPT !.callbacks = Tail(@)])
    /\ UNCHANGED <<state, queues, worker, render, cleaning, stopping, created, named,
                   cancelled, quiet>>

----------------------------------------------------------------------------
(* decode_worker, download_worker *)

Take(w) ==
    /\ worker[w] = NoJob
    /\ jobs[w] # <<>>
    /\ ~stopping
    /\ worker' = [worker EXCEPT ![w] = Head(jobs[w])]
    /\ jobs' = [jobs EXCEPT ![w] = Tail(@)]
    /\ UNCHANGED <<state, completions, loader, render, cleaning, stopping, history>>

\* push_wait: a full queue of completions holds the worker up.
Deliver(w) ==
    /\ worker[w] # NoJob
    /\ ~stopping
    /\ Len(completions) < CompletionCapacity
    /\ \E ok \in BOOLEAN : completions' = Append(completions, Decoded(worker[w], ok))
    /\ worker' = [worker EXCEPT ![w] = NoJob]
    /\ UNCHANGED <<state, jobs, loader, render, cleaning, stopping, history>>

----------------------------------------------------------------------------
(* advance, on the render thread; how many completions one call may process *)
(* makes no difference to what it does with them                            *)

RenderStep == UNCHANGED <<next_request_id, next_callback_id, jobs, loader, worker,
                          cleaning, stopping, quiet>>

\* A ready callback, or a decoded image that somebody still waits for.
Pop ==
    /\ render.at = "out"
    /\ completions # <<>>
    /\ ~stopping
    /\ LET c == Head(completions)
       IN  render' = IF IsReady(c)
                     THEN [NotRendering EXCEPT !.at = "calling", !.callbacks = <<c.callback>>]
                     ELSE IF Matches(c.job)
                     THEN [NotRendering EXCEPT !.at = "matched", !.job = c.job, !.ok = c.ok]
                     ELSE NotRendering
    /\ completions' = Tail(completions)
    /\ RenderStep /\ UNCHANGED <<registry, pending, created, named, cancelled, called>>

\* create_rgba8, with no lock held.
Upload ==
    /\ render.at = "matched"
    /\ \E succeeds \in BOOLEAN :
          render' = [render EXCEPT !.at = "uploaded", !.ok = @ /\ succeeds]
    /\ RenderStep /\ UNCHANGED <<registry, pending, completions, created, named, cancelled,
                                 called>>

\* Bug: the request is not looked up again, or stays pending with its
\* callbacks, or stays pending after a failed upload.
FinishUnchecked ==
    LET i == render.job.identifier
    IN  /\ render.at = "uploaded"
        /\ IF i \in DOMAIN pending
           THEN /\ pending' = Without(pending, i)
                /\ render' = [render EXCEPT !.at = "calling", !.callbacks = pending[i].callbacks]
           ELSE /\ render' = NotRendering
                /\ UNCHANGED pending
        /\ registry' = IF render.ok THEN Put(registry, i, render.job.request_id) ELSE registry
        /\ RenderStep /\ UNCHANGED <<completions, created, named, cancelled, called>>
FinishKeepsPending ==
    LET i == render.job.identifier
    IN  /\ render.at = "uploaded"
        /\ render' = IF Matches(render.job)
                     THEN [render EXCEPT !.at = "calling", !.callbacks = pending[i].callbacks]
                     ELSE NotRendering
        /\ registry' = IF Matches(render.job) /\ render.ok
                       THEN Put(registry, i, render.job.request_id) ELSE registry
        /\ RenderStep /\ UNCHANGED <<pending, completions, created, named, cancelled, called>>
FinishSucceeded ==
    LET i == render.job.identifier
    IN  /\ render.at = "uploaded"
        /\ IF Matches(render.job) /\ render.ok
           THEN /\ pending' = Without(pending, i)
                /\ registry' = Put(registry, i, render.job.request_id)
                /\ render' = [render EXCEPT !.at = "calling", !.callbacks = pending[i].callbacks]
           ELSE /\ render' = NotRendering
                /\ UNCHANGED <<registry, pending>>
        /\ RenderStep /\ UNCHANGED <<completions, created, named, cancelled, called>>

\* The registry learns the outcome if the request is still the one in flight.
Finish ==
    LET i == render.job.identifier
        request_id == render.job.request_id
    IN  /\ render.at = "uploaded"
        /\ IF Matches(render.job)
           THEN /\ pending' = Without(pending, i)
                /\ render' = [render EXCEPT !.at = "calling", !.callbacks = pending[i].callbacks]
                /\ IF render.ok
                   THEN /\ registry' = Put(registry, i, request_id)
                        /\ created' = created \cup {request_id}
                        /\ named' = named \cup {i}
                        /\ UNCHANGED cancelled
                   ELSE /\ registry' = RestoreShadow(registry, i, pending[i].shadowed)
                        /\ cancelled' = cancelled \cup {request_id}
                        /\ UNCHANGED <<created, named>>
           ELSE /\ render' = NotRendering
                /\ UNCHANGED <<registry, pending, created, named, cancelled>>
        /\ RenderStep /\ UNCHANGED <<completions, called>>

CallBack ==
    /\ render.at = "calling"
    /\ IF render.callbacks = <<>>
       THEN render' = NotRendering /\ UNCHANGED called
       ELSE /\ Call(Head(render.callbacks))
            /\ render' = [render EXCEPT !.callbacks = Tail(@)]
    /\ RenderStep /\ UNCHANGED <<registry, pending, completions, created, named, cancelled>>

----------------------------------------------------------------------------
(* cleanup_owner_generation, in two critical sections *)

Loading(o) == \E l \in Loaders : ~Idle(l) /\ loader[l].owner = o

\* The shadows of the requests in order are restored, one after the other.
RestoreShadows(order) ==
    LET restored[n \in 0..Len(order)] ==
            IF n = 0 THEN registry
            ELSE RestoreShadow(restored[n - 1], order[n], pending[order[n]].shadowed)
    IN  restored[Len(order)]

\* Requests that nobody waits for any more are cancelled, in a hash map's order.
CleanPending(o) ==
    LET others == {callback \in Callback : callback.owner # o}
        left == [i \in DOMAIN pending |->
                    [pending[i] EXCEPT !.callbacks = Only(@, others), !.owners = @ \ {o}]]
        dropped == {i \in DOMAIN left : left[i].owners = {} /\ left[i].callbacks = <<>>}
    IN  /\ ~stopping
        /\ o \notin cleaning
        /\ cleaning' = cleaning \cup {o}
        /\ pending' = Restrict(left, DOMAIN left \ dropped)
        /\ \E order \in Bijection(1..Cardinality(dropped), dropped) :
              registry' = RestoreShadows(order)
        /\ cancelled' = cancelled \cup {pending[i].request_id : i \in dropped}
        /\ quiet' = IF Loading(o) THEN quiet ELSE quiet \cup {o}
        /\ UNCHANGED <<next_request_id, next_callback_id, queues, loader, worker, render,
                       stopping, created, named, called>>

\* Bug: ready callbacks are left.
KeepReady(o) ==
    /\ o \in cleaning
    /\ cleaning' = cleaning \ {o}
    /\ UNCHANGED <<state, queues, loader, worker, render, stopping, history>>

CleanReady(o) ==
    LET kept == {completion \in Elements(completions) :
                    ~(IsReady(completion) /\ completion.callback.owner = o)}
    IN  /\ o \in cleaning
        /\ completions' = Only(completions, kept)
        /\ cleaning' = cleaning \ {o}
        /\ UNCHANGED <<state, jobs, loader, worker, render, stopping, history>>

\* Drop: nobody else has the service; the workers end without delivering.
Stop ==
    /\ ~stopping
    /\ \A l \in Loaders : Idle(l)
    /\ render.at = "out" /\ cleaning = {}
    /\ stopping' = TRUE
    /\ UNCHANGED <<state, queues, threads, history>>

----------------------------------------------------------------------------
Submit(l) ==
    \E identifier \in Identifiers, owner \in Owners, shadow, lazy, with_callback \in BOOLEAN :
        /\ lazy => with_callback        \* without a callback they do the same
        /\ Load(l, identifier, owner, shadow, lazy, with_callback)

LoaderStep(l) ==
    \/ PushCached(l) \/ FailReserved(l) \/ CallFailed(l)
    \/ \E w \in Workers : QueueResolved(l, w)

Advance == Pop \/ Upload \/ Finish \/ CallBack

Next ==
    \/ \E l \in Loaders : Submit(l) \/ LoaderStep(l)
    \/ \E w \in Workers : Take(w) \/ Deliver(w)
    \/ Advance
    \/ \E o \in Addons : CleanPending(o) \/ CleanReady(o)
    \/ Stop

Spec == Init /\ [][Next]_vars

\* Loads and cleanups that have begun go on, the workers run, and the render
\* thread calls advance in every frame.
FairSpec ==
    /\ Spec
    /\ \A l \in Loaders : WF_vars(LoaderStep(l))
    /\ \A w \in Workers : WF_vars(Take(w) \/ Deliver(w))
    /\ WF_vars(Advance)
    /\ \A o \in Addons : WF_vars(CleanReady(o))

----------------------------------------------------------------------------
(* Properties *)

Registered == {registry[i] : i \in DOMAIN registry}

\* Addons keep pointers into the textures they were given ("The pointer remains
\* valid while this handle or its registry entry lives"): whatever shadowing,
\* failures and cancellations do to names, no texture loses its last one.
TexturesAreKept == created \subseteq Registered

\* A name that a load was completed for resolves from then on, except while a
\* load that shadows it is in flight: one that fails gives the name back.
NamesKeepResolving == named \subseteq DOMAIN registry \cup DOMAIN pending

\* A request that was cancelled or failed never reaches the registry, although
\* its job is still queued, decoded or even uploaded: neither under its own
\* name nor as the result of a later request for the same name.
CancelledNeverRegistered ==
    /\ cancelled \cap Registered = {}
    /\ \A i \in DOMAIN pending : pending[i].request_id \notin cancelled \cup Registered

WaitingIn(callbacks) == {callbacks[n].id : n \in DOMAIN callbacks}
Pending == UNION {WaitingIn(pending[i].callbacks) : i \in DOMAIN pending}
ReadyToCall == {c.callback.id : c \in {d \in Elements(completions) : IsReady(d)}}
Dispatched ==
    WaitingIn(render.callbacks)
    \cup UNION {WaitingIn(loader[l].callbacks) : l \in {k \in Loaders : loader[k].at = "calling"}}

\* A callback is called once at most, and it is in one place only: with a
\* request, among the completions, being dispatched, or called.
CalledOnce ==
    /\ \A c \in 1..MaxCallbacks : called[c] <= 1
    /\ \A c \in Pending \cup ReadyToCall \cup Dispatched : called[c] = 0
    /\ Pending \cap ReadyToCall = {}
    /\ Dispatched \cap (Pending \cup ReadyToCall) = {}

\* cleanup_owner_generation's "Remove all pending and ready callbacks owned by
\* one exact addon generation": none is left once it returns, if the addon was
\* not in a load meanwhile and starts no other.
CleanedUpIsGone ==
    \A o \in quiet \ cleaning :
        /\ \A i \in DOMAIN pending :
              /\ o \notin pending[i].owners
              /\ \A n \in DOMAIN pending[i].callbacks : pending[i].callbacks[n].owner # o
        /\ \A n \in DOMAIN completions :
              IsReady(completions[n]) => completions[n].callback.owner # o

\* A callback that was accepted does not wait for ever: its request completes,
\* fails or is cleaned up, with bounded queues full and workers held up, unless
\* the service is dropped.
CallbacksAreAnswered ==
    \A c \in 1..MaxCallbacks :
        c \in Pending \cup ReadyToCall ~> stopping \/ c \notin Pending \cup ReadyToCall
=============================================================================
