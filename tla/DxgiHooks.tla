------------------------------ MODULE DxgiHooks ------------------------------
(****************************************************************************)
(* nexus-dxgi/src/detours.rs with nexus-hook/src/shadow.rs: the shadow      *)
(* vtables of COM objects, the process-wide routes a detour finds its       *)
(* original method by, and close_and_drain, which takes the shadows back.   *)
(*                                                                          *)
(* A vtable is a number: 0 is the native one, and each copy made of a       *)
(* published table, by Nexus or by another hooker, is the next index of     *)
(* tables.  What one of its slots holds follows from who made it: native    *)
(* code, a detour, or a foreign hook that calls the table it copied.        *)
(****************************************************************************)
EXTENDS Naturals, Sequences, FiniteSets

CONSTANTS
    Objects,        \* COM interface pointers
    Highest,        \* the pointer that answers for the highest SDK interface
    Threads,        \* threads that call the objects or attach them
    Methods,        \* the slots they call
    MaxTables,      \* bound: vtable copies made in one behaviour
    MaxForeign      \* bound: vtable copies another hooker publishes

NoObject == "none"

ASSUME HighestIsHighest ==
    /\ Highest \in [Objects -> Objects]
    /\ \A o \in Objects : Highest[Highest[o]] = Highest[o]
ASSUME ThreadsFinite == IsFiniteSet(Threads)
ASSUME NoneIsNoObject == NoObject \notin Objects
ASSUME TablesAreBounded == MaxTables \in Nat

VARIABLES
    vtable,         \* the table each object's first word points at
    tables,         \* who made each copied table, of which table of which object
    routes,         \* ROUTES: the table whose methods a routed object's detours call
    hooks,          \* Inner::hooks: the guards of the installed shadows, in order
    refs,           \* COM references the guards hold on each object
    closing, gate,  \* Inner::closing, and whether Inner::gate admits calls
    closer, cursor, \* close_and_drain: its program counter, and the guard whose turn it is
    drained,        \* its last report said drained
    pc, call, attach,   \* per thread: where it is, its COM call, its attachment
    attached_again      \* history: objects attached while attached or being attached

native == <<vtable, tables>>
managed == <<routes, hooks, refs>>
shutdown == <<closing, gate, closer, cursor, drained>>
vars == <<native, managed, shutdown, pc, call, attach, attached_again>>

SlotOf(table) == IF table = 0 THEN "native" ELSE tables[table].by

\* query_interface_boundary and the factory methods attach what they return;
\* the detours of these methods recognise themselves in the fallback.
Attaching == {"QueryInterface", "CreateSwapChain"}
SelfChecking == {"QueryInterface", "Present", "ResizeBuffers", "SetColorSpace1"}

CallPcs == {"dispatch", "detour", "fallback", "enter", "before", "returned", "after"}
AttachPcs == {"validate", "existing", "copy", "register", "install", "unregister", "push"}

NoCall == [obj |-> NoObject, method |-> NoObject, at |-> 0, base |-> 0, depth |-> 0,
           guards |-> 0, forwards |-> 0]
NoAttach == [obj |-> NoObject, base |-> 0, table |-> 0]

TableType == [by : {"detour", "foreign"}, of : Objects, base : Nat]
HookType == [obj : Objects, base : Nat, table : Nat,
             state : {"Installed", "Restored", "Displaced"}]
CallType == [obj : Objects \cup {NoObject}, method : Methods \cup {NoObject}, at : Nat,
             base : Nat, depth : Nat, guards : Nat, forwards : Nat]
AttachType == [obj : Objects \cup {NoObject}, base : Nat, table : Nat]

\* Every table was copied from an earlier one, and a thread's program counter
\* stays among the steps of detours.rs.
TypeOK ==
    /\ vtable \in [Objects -> 0..Len(tables)]
    /\ tables \in Seq(TableType)
    /\ \A i \in 1..Len(tables) : tables[i].base < i
    /\ DOMAIN routes \subseteq Objects
    /\ \A o \in DOMAIN routes : routes[o] \in 0..Len(tables)
    /\ hooks \in Seq(HookType)
    /\ refs \in [Objects -> Nat]
    /\ closing \in BOOLEAN /\ gate \in BOOLEAN /\ drained \in BOOLEAN
    /\ closer \in {"none", "closing", "restoring", "waiting"}
    /\ cursor \in 1..(Len(hooks) + 1)
    /\ pc \in [Threads -> {"idle", "done", "failed"} \cup CallPcs \cup AttachPcs]
    /\ call \in [Threads -> CallType] /\ attach \in [Threads -> AttachType]
    /\ attached_again \subseteq Objects

Init ==
    /\ vtable = [o \in Objects |-> 0]
    /\ tables = <<>>
    /\ routes = <<>>
    /\ hooks = <<>>
    /\ refs = [o \in Objects |-> 0]
    /\ closing = FALSE /\ gate = TRUE
    /\ closer = "none" /\ cursor = 1 /\ drained = FALSE
    /\ pc = [t \in Threads |-> "idle"]
    /\ call = [t \in Threads |-> NoCall]
    /\ attach = [t \in Threads |-> NoAttach]
    /\ attached_again = {}

----------------------------------------------------------------------------
Goto(t, from, to) == pc[t] = from /\ pc' = [pc EXCEPT ![t] = to]
SetCall(t, c) == call' = [call EXCEPT ![t] = c]
InCall(t) == call[t].obj # NoObject
Inside == {t \in Threads : call[t].guards > 0}      \* CallbackGate::in_flight

OnlyCall == UNCHANGED <<native, managed, shutdown, attach, attached_again>>

(* A COM call: what the dispatcher and the detours do with it *)

\* The caller reads the object's first word and jumps through the slot.
StartCall(t, o, m) ==
    /\ Goto(t, "idle", "dispatch")
    /\ SetCall(t, [NoCall EXCEPT !.obj = o, !.method = m, !.at = vtable[o]])
    /\ OnlyCall

CallNative(t) ==
    /\ SlotOf(call[t].at) = "native"
    /\ Goto(t, "dispatch", "returned")
    /\ SetCall(t, [call[t] EXCEPT !.forwards = @ + 1])
    /\ OnlyCall

CallForeign(t) ==
    /\ pc[t] = "dispatch" /\ SlotOf(call[t].at) = "foreign"
    /\ SetCall(t, [call[t] EXCEPT !.at = tables[@].base])
    /\ OnlyCall /\ UNCHANGED pc

\* A call that enters more detours than there are tables recurses for ever.
CallDetour(t) ==
    /\ SlotOf(call[t].at) = "detour"
    /\ IF call[t].depth = MaxTables THEN Goto(t, "dispatch", "failed")
                                    ELSE Goto(t, "dispatch", "detour")
    /\ SetCall(t, [call[t] EXCEPT !.depth = @ + 1])
    /\ OnlyCall

\* Bug: the routes of a closed manager count as absent.
LookUpRouteOfOpenManager(t) ==
    LET o == call[t].obj IN
    /\ pc[t] = "detour"
    /\ IF o \in DOMAIN routes /\ ~closing
       THEN /\ Goto(t, "detour", "enter")
            /\ SetCall(t, [call[t] EXCEPT !.base = routes[o]])
       ELSE Goto(t, "detour", "fallback") /\ UNCHANGED call
    /\ OnlyCall

\* swap_chain_route, factory_route: under the routes lock.
LookUpRoute(t) ==
    LET o == call[t].obj IN
    /\ pc[t] = "detour"
    /\ IF o \in DOMAIN routes
       THEN /\ Goto(t, "detour", "enter")
            /\ SetCall(t, [call[t] EXCEPT !.base = routes[o]])
       ELSE Goto(t, "detour", "fallback") /\ UNCHANGED call
    /\ OnlyCall

\* current_method: without a route the slot the object publishes now is called,
\* unless it is the detour itself, which present1 and most creations do not check.
CallCurrentMethod(t) ==
    LET table == vtable[call[t].obj] IN
    /\ pc[t] = "fallback"
    /\ IF SlotOf(table) = "detour" /\ call[t].method \in SelfChecking
       THEN Goto(t, "fallback", "failed") /\ UNCHANGED call
       ELSE Goto(t, "fallback", "dispatch") /\ SetCall(t, [call[t] EXCEPT !.at = table])
    /\ OnlyCall

\* Bug: a detour counts itself without asking whether the gate is open.
AdmittedUnasked(t) ==
    /\ Goto(t, "enter", "before")
    /\ SetCall(t, [call[t] EXCEPT !.guards = @ + 1])
    /\ OnlyCall

Admitted(t) ==
    /\ gate
    /\ Goto(t, "enter", "before")
    /\ SetCall(t, [call[t] EXCEPT !.guards = @ + 1])
    /\ OnlyCall

CallOriginal(t, guards) ==
    SetCall(t, [call[t] EXCEPT !.at = call[t].base, !.base = 0, !.guards = guards])

Refused(t) ==
    /\ ~gate
    /\ Goto(t, "enter", "dispatch")
    /\ CallOriginal(t, call[t].guards)
    /\ OnlyCall

\* before_present, before_resize: the creation and query detours have none.
BeforeHandler(t) ==
    /\ Goto(t, "before", "dispatch")
    /\ CallOriginal(t, call[t].guards)
    /\ OnlyCall

\* Unwinding drops the guard; the original is then called after the catch.
BeforeHandlerPanics(t) ==
    /\ call[t].method \notin Attaching
    /\ Goto(t, "before", "dispatch")
    /\ CallOriginal(t, call[t].guards - 1)
    /\ OnlyCall

Return(t) ==
    /\ Goto(t, "returned", IF call[t].guards = 0 THEN "done" ELSE "after")
    /\ OnlyCall /\ UNCHANGED call

\* after_present, after_resize, a failed creation, or a contained panic.
AfterHandler(t) ==
    /\ Goto(t, "after", "returned")
    /\ SetCall(t, [call[t] EXCEPT !.guards = @ - 1])
    /\ OnlyCall

Answer(t) ==
    /\ pc[t] \in {"done", "failed"}
    /\ pc' = [pc EXCEPT ![t] = "idle"]
    /\ SetCall(t, NoCall)
    /\ OnlyCall

CallStep(t) ==
    \/ \E o \in Objects, m \in Methods : StartCall(t, o, m)
    \/ CallNative(t) \/ CallForeign(t) \/ CallDetour(t)
    \/ LookUpRoute(t) \/ CallCurrentMethod(t)
    \/ Admitted(t) \/ Refused(t)
    \/ BeforeHandler(t) \/ BeforeHandlerPanics(t)
    \/ Return(t) \/ AfterHandler(t)
    \/ Answer(t)

----------------------------------------------------------------------------
(* attach_swap_chain, attach_factory: from the public API, or from a detour *)
(* for the interface its native call returned                               *)

NoShutdown == UNCHANGED shutdown
OnlyPc == UNCHANGED <<native, managed, call, attach, attached_again>> /\ NoShutdown

BeginAttach(t, o) ==
    /\ Goto(t, "idle", "validate")
    /\ attach' = [attach EXCEPT ![t].obj = o]
    /\ UNCHANGED <<native, managed, call, attached_again>> /\ NoShutdown

AttachReturned(t, o) ==
    /\ call[t].method \in Attaching
    /\ Goto(t, "after", "validate")
    /\ attach' = [attach EXCEPT ![t].obj = o]
    /\ UNCHANGED <<native, managed, call, attached_again>> /\ NoShutdown

\* The attachment is over: its detour drops the guard, or its caller goes on.
AttachOver(t) ==
    /\ pc' = [pc EXCEPT ![t] = IF InCall(t) THEN "returned" ELSE "idle"]
    /\ call' = [call EXCEPT ![t].guards = IF InCall(t) THEN @ - 1 ELSE @]
    /\ attach' = [attach EXCEPT ![t] = NoAttach]

ValidateAttachment(t) ==
    /\ pc[t] = "validate"
    /\ IF closing THEN AttachOver(t)
                  ELSE Goto(t, "validate", "existing") /\ UNCHANGED <<call, attach>>
    /\ UNCHANGED <<native, managed, attached_again>> /\ NoShutdown

ExistingAttachment(t) ==
    /\ pc[t] = "existing"
    /\ IF attach[t].obj \in DOMAIN routes
       THEN AttachOver(t)
       ELSE Goto(t, "existing", "copy") /\ UNCHANGED <<call, attach>>
    /\ UNCHANGED <<native, managed, attached_again>> /\ NoShutdown

BeingAttached(o) ==
    \/ o \in DOMAIN routes
    \/ \E i \in 1..Len(hooks) : hooks[i].obj = o
    \/ \E u \in Threads :
          attach[u].obj = o /\ pc[u] \in {"register", "install", "unregister", "push"}

\* VtableShadow::copy_from and replace: a detached copy of the published table.
CopyFrom(t) ==
    LET o == attach[t].obj IN
    /\ Goto(t, "copy", "register")
    /\ Len(tables) < MaxTables
    /\ tables' = Append(tables, [by |-> "detour", of |-> o, base |-> vtable[o]])
    /\ attach' = [attach EXCEPT ![t].base = vtable[o], ![t].table = Len(tables) + 1]
    /\ attached_again' = attached_again \cup (IF BeingAttached(o) THEN {o} ELSE {})
    /\ UNCHANGED <<vtable, managed, call>> /\ NoShutdown

CopyFails(t) ==
    /\ pc[t] = "copy"
    /\ AttachOver(t)
    /\ UNCHANGED <<native, managed, attached_again>> /\ NoShutdown

\* register_route keeps the route its manager already has for the pointer.
RegisterRoute(t) ==
    LET o == attach[t].obj IN
    /\ Goto(t, "register", "install")
    /\ routes' = [x \in DOMAIN routes \cup {o} |->
                    IF x \in DOMAIN routes THEN routes[x] ELSE attach[t].base]
    /\ UNCHANGED <<native, hooks, refs, call, attach, attached_again>> /\ NoShutdown

\* Bug: the reference taken for a shadow that could not be published is kept.
InstallKeepingReference(t) ==
    LET a == attach[t] IN
    /\ pc[t] = "install"
    /\ IF vtable[a.obj] = a.base
       THEN /\ Goto(t, "install", "push")
            /\ vtable' = [vtable EXCEPT ![a.obj] = a.table]
       ELSE Goto(t, "install", "unregister") /\ UNCHANGED vtable
    /\ refs' = [refs EXCEPT ![a.obj] = @ + 1]
    /\ UNCHANGED <<tables, routes, hooks, call, attach, attached_again>> /\ NoShutdown

\* VtableShadow::install: AddRef, then the exchange; Release when it fails.
Install(t) ==
    LET a == attach[t] IN
    /\ pc[t] = "install"
    /\ IF vtable[a.obj] = a.base
       THEN /\ Goto(t, "install", "push")
            /\ vtable' = [vtable EXCEPT ![a.obj] = a.table]
            /\ refs' = [refs EXCEPT ![a.obj] = @ + 1]
       ELSE Goto(t, "install", "unregister") /\ UNCHANGED <<vtable, refs>>
    /\ UNCHANGED <<tables, routes, hooks, call, attach, attached_again>> /\ NoShutdown

\* unregister_route removes whatever route its manager has for the pointer.
UnregisterRoute(t) ==
    /\ pc[t] = "unregister"
    /\ routes' = [x \in DOMAIN routes \ {attach[t].obj} |-> routes[x]]
    /\ AttachOver(t)
    /\ UNCHANGED <<native, hooks, refs, attached_again>> /\ NoShutdown

HooksLocked == closer = "restoring"

\* The guard joins the hooks; then the distinct derived pointer has its turn,
\* which looks for no existing attachment.
PushHook(t) ==
    LET a == attach[t]
        derived == Highest[a.obj] IN
    /\ pc[t] = "push" /\ ~HooksLocked
    /\ hooks' = Append(hooks, [obj |-> a.obj, base |-> a.base, table |-> a.table,
                               state |-> "Installed"])
    /\ IF derived = a.obj
       THEN AttachOver(t)
       ELSE /\ pc' = [pc EXCEPT ![t] = "copy"]
            /\ attach' = [attach EXCEPT ![t] = [NoAttach EXCEPT !.obj = derived]]
            /\ UNCHANGED call
    /\ UNCHANGED <<native, routes, refs, attached_again>> /\ NoShutdown

AttachStep(t) ==
    \/ \E o \in Objects : BeginAttach(t, o) \/ AttachReturned(t, o)
    \/ ValidateAttachment(t) \/ ExistingAttachment(t)
    \/ CopyFrom(t) \/ CopyFails(t)
    \/ RegisterRoute(t) \/ Install(t) \/ UnregisterRoute(t) \/ PushHook(t)

----------------------------------------------------------------------------
(* close_and_drain, and hookers that are not Nexus *)

OnlyShutdown == UNCHANGED <<pc, call, attach, attached_again, tables, routes>>

BeginClose ==
    /\ closer = "none"
    /\ closer' = "closing"
    /\ closing' = TRUE
    /\ UNCHANGED <<gate, cursor, drained, vtable, hooks, refs>> /\ OnlyShutdown

CloseGate ==
    /\ closer = "closing"
    /\ gate' = FALSE
    /\ closer' = "restoring" /\ cursor' = 1
    /\ UNCHANGED <<closing, drained, vtable, hooks, refs>> /\ OnlyShutdown

\* Bug: a guard that was restored or displaced before is restored once more.
RestoreHookAgain ==
    LET h == hooks[cursor]
        o == h.obj IN
    /\ HooksLocked /\ cursor <= Len(hooks)
    /\ vtable' = [vtable EXCEPT ![o] = IF @ = h.table THEN h.base ELSE @]
    /\ hooks' = [hooks EXCEPT ![cursor].state =
                     IF vtable[o] \in {h.table, h.base} THEN "Restored" ELSE "Displaced"]
    /\ refs' = [refs EXCEPT ![o] = @ - 1]
    /\ cursor' = cursor + 1
    /\ UNCHANGED <<closing, gate, closer, drained>> /\ OnlyShutdown

\* InstalledVtable::restore of one guard, under the hooks lock: the shadow is
\* exchanged for the table it was copied from, and the reference is released.
RestoreHook ==
    LET h == hooks[cursor]
        o == h.obj IN
    /\ HooksLocked /\ cursor <= Len(hooks)
    /\ IF h.state # "Installed"
       THEN UNCHANGED <<vtable, hooks, refs>>
       ELSE /\ vtable' = [vtable EXCEPT ![o] = IF @ = h.table THEN h.base ELSE @]
            /\ hooks' = [hooks EXCEPT ![cursor].state =
                            IF vtable[o] \in {h.table, h.base} THEN "Restored"
                                                               ELSE "Displaced"]
            /\ refs' = [refs EXCEPT ![o] = @ - 1]
    /\ cursor' = cursor + 1
    /\ UNCHANGED <<closing, gate, closer, drained>> /\ OnlyShutdown

AllRestored ==
    /\ HooksLocked /\ cursor > Len(hooks)
    /\ closer' = "waiting" /\ cursor' = 1
    /\ UNCHANGED <<closing, gate, drained, vtable, hooks, refs>> /\ OnlyShutdown

\* wait_for_drain with a timeout, and the report.
ReportDrained ==
    /\ closer = "waiting"
    /\ closer' = "none"
    /\ drained' \in {Inside = {}, FALSE}
    /\ UNCHANGED <<closing, gate, cursor, vtable, hooks, refs>> /\ OnlyShutdown

ForeignTables == {i \in 1..Len(tables) : tables[i].by = "foreign"}

ForeignInstall(o) ==
    /\ Cardinality(ForeignTables) < MaxForeign /\ Len(tables) < MaxTables
    /\ tables' = Append(tables, [by |-> "foreign", of |-> o, base |-> vtable[o]])
    /\ vtable' = [vtable EXCEPT ![o] = Len(tables) + 1]
    /\ UNCHANGED <<managed, shutdown, pc, call, attach, attached_again>>

ForeignRemove(o) ==
    /\ vtable[o] \in ForeignTables
    /\ vtable' = [vtable EXCEPT ![o] = tables[@].base]
    /\ UNCHANGED <<tables, managed, shutdown, pc, call, attach, attached_again>>

Shutdown == BeginClose \/ CloseGate \/ RestoreHook \/ AllRestored \/ ReportDrained

Next ==
    \/ \E t \in Threads : CallStep(t) \/ AttachStep(t)
    \/ Shutdown
    \/ \E o \in Objects : ForeignInstall(o) \/ ForeignRemove(o)

Spec == Init /\ [][Next]_vars

----------------------------------------------------------------------------
\* A call of an object that was attached at most once reaches the native
\* method, and reaches it once: through routes, foreign hooks, contained
\* panics, restored tables that a thread had cached, and a closed manager
\* (close_and_drain: "Native forwarding remains available").
CallsReachNative ==
    \A t \in Threads :
        InCall(t) /\ call[t].obj \notin attached_again =>
            /\ pc[t] # "failed"
            /\ call[t].forwards = IF pc[t] \in {"returned", "after", "done"} \cup AttachPcs
                                  THEN 1 ELSE 0

\* Once close_and_drain has reported a drain, no detour runs a handler or
\* attaches what it created: whoever owns the handlers may go.
DrainedRunsNoHandler == drained => \A t \in Threads : call[t].guards = 0

\* A guard holds one reference on its object from the exchange that published
\* its shadow until it is restored or found displaced, and no longer.
RefsMatchShadows ==
    \A o \in Objects :
        refs[o] = Cardinality({i \in 1..Len(hooks) :
                                 hooks[i].obj = o /\ hooks[i].state = "Installed"})
                + Cardinality({t \in Threads : pc[t] = "push" /\ attach[t].obj = o})

\* detours.rs: "route absence is possible only after restoration or on invalid
\* input": a detour without a route runs for a restored guard.
RouteAbsentOnlyAfterRestoration ==
    \A t \in Threads : pc[t] = "fallback" =>
        \E i \in 1..Len(hooks) : hooks[i].obj = call[t].obj /\ hooks[i].state = "Restored"
=============================================================================
