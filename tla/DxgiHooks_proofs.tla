---------------------------- MODULE DxgiHooks_proofs --------------------------
(****************************************************************************)
(* The hooks for any number of objects, tables and calls, and any finite    *)
(* number of threads.                                                       *)
(****************************************************************************)
EXTENDS DxgiHooks, FiniteSetTheorems, TLAPS

\* A thread that is in a call has its object, one that attaches has its pointer,
\* and whoever runs a handler or attaches what a detour received is counted.
Placed(t) ==
    /\ pc[t] = "idle" => call[t] = NoCall
    /\ pc[t] \in CallPcs \cup {"done", "failed"} => InCall(t)
    /\ pc[t] \in AttachPcs => attach[t].obj \in Objects
    /\ pc[t] \notin AttachPcs => attach[t] = NoAttach
    /\ pc[t] \in AttachPcs /\ ~InCall(t) => call[t] = NoCall
    /\ InCall(t) /\ pc[t] \in AttachPcs \cup {"before", "after"} => call[t].guards > 0

ThreadOK(t) ==
    /\ pc[t] \in {"idle", "done", "failed"} \cup CallPcs \cup AttachPcs
    /\ call[t] \in CallType /\ attach[t] \in AttachType
    /\ call[t].at <= Len(tables) /\ call[t].base <= Len(tables)
    /\ attach[t].base <= Len(tables) /\ attach[t].table <= Len(tables)
    /\ Placed(t)

\* Every table that is remembered exists, and was copied from an earlier one.
TablesOK ==
    /\ Len(tables) \in 0..MaxTables
    /\ \A i \in 1..Len(tables) :
          /\ tables[i].by \in {"detour", "foreign"}
          /\ tables[i].of \in Objects
          /\ tables[i].base \in 0..(i - 1)
    /\ vtable \in [Objects -> 0..Len(tables)]
    /\ DOMAIN routes \subseteq Objects
    /\ \A o \in DOMAIN routes : routes[o] \in 0..Len(tables)
    /\ \A i \in 1..Len(hooks) : hooks[i].base <= Len(tables) /\ hooks[i].table <= Len(tables)

\* What the threads share, and the shutdown does not own.
SharedOK ==
    /\ TablesOK
    /\ tables \in Seq(TableType) /\ hooks \in Seq(HookType)
    /\ refs \in [Objects -> Nat]
    /\ cursor \in 1..(Len(hooks) + 1)
    /\ attached_again \subseteq Objects

Typing == TypeOK /\ TablesOK /\ \A t \in Threads : ThreadOK(t)

\* The shutdown has closed the gate before it restores, waits or reports.
GateClosed == drained \/ closer \in {"restoring", "waiting"} => ~gate

\* The tables through which a call of o may come to go: whoever reads a pointer
\* to a table reads one of these.
Reachable(o) == {i \in 1..Len(tables) :
    \/ vtable[o] = i
    \/ \E j \in 1..Len(tables) : tables[j].of = o /\ tables[j].base = i
    \/ \E t \in Threads : call[t].obj = o /\ i \in {call[t].at, call[t].base}
    \/ \E t \in Threads : attach[t].obj = o /\ attach[t].base = i
    \/ o \in DOMAIN routes /\ routes[o] = i
    \/ \E h \in 1..Len(hooks) : hooks[h].obj = o /\ hooks[h].base = i}

TablesStayWithObject == \A o \in Objects : \A i \in Reachable(o) : tables[i].of = o

\* The copy a thread has made is younger than the table it was made of.
OwnCopy(t) ==
    pc[t] \in {"register", "install"} =>
        /\ attach[t].table \in 1..Len(tables)
        /\ attach[t].base < attach[t].table
        /\ tables[attach[t].table].of = attach[t].obj
OwnCopies == \A t \in Threads : OwnCopy(t)

Attaches(t, o, pcs) == attach[t].obj = o /\ pc[t] \in pcs
Unpublished == {"register", "install", "unregister"}

\* What holds of the one attachment of an object that is attached once.
Exclusive(o) ==
    /\ \A t, u \in {t \in Threads : Attaches(t, o, Unpublished \cup {"push"})} : t = u
    /\ \A t \in Threads :
          /\ Attaches(t, o, {"register"}) => o \notin DOMAIN routes
          /\ Attaches(t, o, {"install", "unregister"}) =>
                o \in DOMAIN routes /\ routes[o] = attach[t].base

\* Its published detours have a route, to a table older than their own.
Routed(o) ==
    \A i \in Reachable(o) : tables[i].by = "detour" =>
        /\ o \in DOMAIN routes /\ routes[o] < i
        /\ \A t \in Threads : ~Attaches(t, o, Unpublished)

\* A call of it follows its tables downwards and does not fall back.
Descends(t) ==
    /\ pc[t] = "dispatch" => call[t].depth + call[t].at <= MaxTables
    /\ pc[t] = "detour" => /\ call[t].depth + call[t].at <= MaxTables + 1
                           /\ call[t].at # 0 /\ tables[call[t].at].by = "detour"
    /\ pc[t] \in {"enter", "before"} => call[t].depth + call[t].base <= MaxTables
    /\ pc[t] \notin {"fallback", "failed"}

AttachedOnce(o) == o \in Objects /\ o \notin attached_again
OnceAttached ==
    /\ \A o \in Objects : AttachedOnce(o) => Exclusive(o) /\ Routed(o)
    /\ \A t \in Threads : AttachedOnce(call[t].obj) => Descends(t)

\* A call has been forwarded once it has returned, and not before.
Forwarded(t) ==
    InCall(t) => call[t].forwards = IF pc[t] \in {"returned", "after", "done"} \cup AttachPcs
                                    THEN 1 ELSE 0
ForwardedOnce == \A t \in Threads : Forwarded(t)

IInv ==
    /\ Typing
    /\ GateClosed /\ DrainedRunsNoHandler
    /\ RefsMatchShadows
    /\ OwnCopies /\ TablesStayWithObject /\ OnceAttached
    /\ ForwardedOnce
-----------------------------------------------------------------------------
\* The program before its first call.
LEMMA InitTyping == Init => Typing
<1> SUFFICES ASSUME Init PROVE Typing
  OBVIOUS
<1>1. NoCall \in CallType /\ NoAttach \in AttachType
  BY DEF NoCall, NoAttach, CallType, AttachType
<1>2. TypeOK
  <2>1. /\ vtable \in [Objects -> 0..Len(tables)] /\ tables \in Seq(TableType)
        /\ \A i \in 1..Len(tables) : tables[i].base < i
    BY DEF Init
  <2>2. DOMAIN routes = {}
    BY DEF Init
  <2>3. hooks \in Seq(HookType) /\ refs \in [Objects -> Nat]
    BY DEF Init
  <2>4. cursor \in 1..(Len(hooks) + 1)
    BY DEF Init
  <2> QED
    BY <1>1, <2>1, <2>2, <2>3, <2>4 DEF Init, TypeOK
<1>3. TablesOK
  BY TablesAreBounded DEF Init, TablesOK
<1>4. ASSUME NEW t \in Threads PROVE ThreadOK(t)
  BY <1>1 DEF Init, ThreadOK, Placed, CallPcs, AttachPcs, InCall, NoCall, NoAttach
<1> QED
  BY <1>2, <1>3, <1>4 DEF Typing

\* A step of a call touches its thread's program counter and call only.
LEMMA CallStepFrame ==
    ASSUME TypeOK, NEW t \in Threads, CallStep(t)
    PROVE  /\ UNCHANGED <<vtable, tables, routes, hooks, refs, closing, gate, closer, cursor,
                          drained, attach, attached_again>>
           /\ pc' = [pc EXCEPT ![t] = pc'[t]]
           /\ call' = [call EXCEPT ![t] = call'[t]]
BY DEF CallStep, StartCall, CallNative, CallForeign, CallDetour, LookUpRoute,
       CallCurrentMethod, Admitted, Refused, BeforeHandler, BeforeHandlerPanics, Return,
       AfterHandler, Answer, CallOriginal, SetCall, Goto, OnlyCall, TypeOK,
       native, managed, shutdown

\* A step of a detour.
LEMMA CallStepTyping ==
    ASSUME Typing, NEW t \in Threads, CallStep(t)
    PROVE  Typing'
<1>1. /\ UNCHANGED <<vtable, tables, routes, hooks, refs, closing, gate, closer, cursor,
                     drained, attach, attached_again>>
      /\ pc' = [pc EXCEPT ![t] = pc'[t]]
      /\ call' = [call EXCEPT ![t] = call'[t]]
  BY CallStepFrame DEF Typing
<1>2. ThreadOK(t)'
  <2>1. /\ ThreadOK(t) /\ t \in DOMAIN pc /\ t \in DOMAIN call
        /\ UNCHANGED <<vtable, tables, routes, attach>>
    BY <1>1 DEF Typing, TypeOK
  <2>2. ASSUME NEW o \in Objects, NEW m \in Methods, StartCall(t, o, m)
        PROVE  ThreadOK(t)'
    <3>1. /\ pc[t] = "idle" /\ pc'[t] = "dispatch"
          /\ call'[t] = [NoCall EXCEPT !.obj = o, !.method = m, !.at = vtable[o]]
      BY <2>1, <2>2 DEF StartCall, Goto, SetCall
    <3>2. vtable[o] \in 0..Len(tables)
      BY DEF Typing, TypeOK
    <3>3. call'[t] \in CallType /\ call'[t].at = vtable[o] /\ call'[t].base = 0 /\ call'[t].obj = o
      <4>1. call'[t] = [obj |-> o, method |-> m, at |-> vtable[o], base |-> 0, depth |-> 0,
                        guards |-> 0, forwards |-> 0]
        BY <3>1 DEF NoCall
      <4> QED
        BY <4>1, <3>2 DEF CallType
    <3> QED
      BY <2>1, <3>1, <3>2, <3>3, NoneIsNoObject DEF ThreadOK, Placed, InCall, CallPcs, AttachPcs
  <2>3. CASE CallNative(t)
    <3>1. /\ pc[t] = "dispatch" /\ pc'[t] = "returned"
          /\ call'[t] = [call[t] EXCEPT !.forwards = @ + 1]
      BY <2>1, <2>3 DEF CallNative, Goto, SetCall
    <3> QED
      BY <2>1, <3>1 DEF ThreadOK, Placed, InCall, CallType, CallPcs, AttachPcs
  <2>4. CASE CallForeign(t)
    <3>1. /\ pc[t] = "dispatch" /\ pc'[t] = "dispatch"
          /\ call'[t] = [call[t] EXCEPT !.at = tables[call[t].at].base]
      BY <2>1, <2>4 DEF CallForeign, SetCall, OnlyCall
    <3>2. call[t].at # 0
      BY <2>4 DEF CallForeign, SlotOf
    <3>3. call[t].at \in 1..Len(tables)
      BY <2>1, <3>2 DEF Typing, TablesOK, ThreadOK, CallType
    <3>4. tables[call[t].at].base \in 0..Len(tables)
      BY <3>3 DEF Typing, TablesOK
    <3> QED
      BY <2>1, <3>1, <3>4 DEF ThreadOK, Placed, InCall, CallType, CallPcs, AttachPcs
  <2>5. CASE CallDetour(t)
    <3>1. /\ pc[t] = "dispatch" /\ pc'[t] \in {"detour", "failed"}
          /\ call'[t] = [call[t] EXCEPT !.depth = @ + 1]
      BY <2>1, <2>5 DEF CallDetour, Goto, SetCall
    <3> QED
      BY <2>1, <3>1 DEF ThreadOK, Placed, InCall, CallType, CallPcs, AttachPcs
  <2>6. CASE LookUpRoute(t)
    <3>1. /\ pc[t] = "detour" /\ pc'[t] \in {"enter", "fallback"}
          /\ \/ call'[t] = call[t]
             \/ /\ call[t].obj \in DOMAIN routes
                /\ call'[t] = [call[t] EXCEPT !.base = routes[call[t].obj]]
      BY <2>1, <2>6 DEF LookUpRoute, Goto, SetCall
    <3>2. \A o \in DOMAIN routes : routes[o] \in 0..Len(tables)
      BY DEF Typing, TypeOK
    <3> QED
      BY <2>1, <3>1, <3>2 DEF ThreadOK, Placed, InCall, CallType, CallPcs, AttachPcs
  <2>7. CASE CallCurrentMethod(t)
    <3>1. /\ pc[t] = "fallback" /\ pc'[t] \in {"dispatch", "failed"}
          /\ \/ call'[t] = call[t]
             \/ call'[t] = [call[t] EXCEPT !.at = vtable[call[t].obj]]
      BY <2>1, <2>7 DEF CallCurrentMethod, Goto, SetCall
    <3>2. vtable[call[t].obj] \in 0..Len(tables)
      BY <2>1, <3>1 DEF Typing, TypeOK, ThreadOK, Placed, InCall, CallType, CallPcs
    <3> QED
      BY <2>1, <3>1, <3>2 DEF ThreadOK, Placed, InCall, CallType, CallPcs, AttachPcs
  <2>8. CASE Admitted(t)
    <3>1. /\ pc[t] = "enter" /\ pc'[t] = "before"
          /\ call'[t] = [call[t] EXCEPT !.guards = @ + 1]
      BY <2>1, <2>8 DEF Admitted, Goto, SetCall
    <3> QED
      BY <2>1, <3>1 DEF ThreadOK, Placed, InCall, CallType, CallPcs, AttachPcs
  <2>12. CASE Refused(t) \/ BeforeHandler(t) \/ BeforeHandlerPanics(t)
    <3>1. PICK guards \in {call[t].guards, call[t].guards - 1} :
             /\ guards = call[t].guards \/ pc[t] = "before"
             /\ call'[t] = [call[t] EXCEPT !.at = call[t].base, !.base = 0, !.guards = guards]
      BY <2>1, <2>12
         DEF Refused, BeforeHandler, BeforeHandlerPanics, CallOriginal, Goto, SetCall
    <3>2. pc[t] \in {"enter", "before"} /\ pc'[t] = "dispatch"
      BY <2>1, <2>12 DEF Refused, BeforeHandler, BeforeHandlerPanics, Goto
    <3>3. guards \in Nat
      BY <2>1, <3>1 DEF ThreadOK, Placed, CallType, CallPcs
    <3>4. /\ call'[t] \in CallType /\ call'[t].at = call[t].base /\ call'[t].base = 0
          /\ call'[t].obj = call[t].obj
      <4> DEFINE c == call[t]
      <4>1. c \in CallType
        BY <2>1 DEF ThreadOK
      <4>2. call'[t] = [obj |-> c.obj, method |-> c.method, at |-> c.base, base |-> 0,
                        depth |-> c.depth, guards |-> guards, forwards |-> c.forwards]
        BY <3>1, <4>1 DEF CallType
      <4> QED
        BY <4>1, <4>2, <3>3 DEF CallType
    <3> QED
      BY <2>1, <3>2, <3>4 DEF ThreadOK, Placed, InCall, CallType, CallPcs, AttachPcs
  <2>9. CASE Return(t)
    <3>1. /\ pc[t] = "returned" /\ call'[t] = call[t]
          /\ pc'[t] = "done" \/ (pc'[t] = "after" /\ call[t].guards # 0)
      BY <2>1, <2>9 DEF Return, Goto
    <3> QED
      BY <2>1, <3>1 DEF ThreadOK, Placed, InCall, CallType, CallPcs, AttachPcs
  <2>10. CASE AfterHandler(t)
    <3>1. /\ pc[t] = "after" /\ pc'[t] = "returned"
          /\ call'[t] = [call[t] EXCEPT !.guards = @ - 1]
      BY <2>1, <2>10 DEF AfterHandler, Goto, SetCall
    <3> QED
      BY <2>1, <3>1 DEF ThreadOK, Placed, InCall, CallType, CallPcs, AttachPcs
  <2>11. CASE Answer(t)
    <3>1. pc[t] \in {"done", "failed"} /\ pc'[t] = "idle" /\ call'[t] = NoCall
      BY <2>1, <2>11 DEF Answer, SetCall
    <3> QED
      BY <2>1, <3>1 DEF ThreadOK, Placed, InCall, CallType, NoCall, CallPcs, AttachPcs
  <2> QED
    BY <2>2, <2>3, <2>4, <2>5, <2>6, <2>7, <2>8, <2>9, <2>10, <2>11, <2>12 DEF CallStep
<1>3. TypeOK'
  BY <1>1, <1>2 DEF Typing, TypeOK, ThreadOK
<1>4. TablesOK'
  BY <1>1 DEF Typing, TablesOK
<1>5. ASSUME NEW u \in Threads PROVE ThreadOK(u)'
  BY <1>1, <1>2 DEF Typing, TypeOK, ThreadOK, Placed, InCall
<1> QED
  BY <1>3, <1>4, <1>5 DEF Typing

-----------------------------------------------------------------------------
\* A step of an attachment touches no other thread, and no shutdown.
LEMMA AttachStepFrame ==
    ASSUME TypeOK, NEW t \in Threads, AttachStep(t)
    PROVE  /\ UNCHANGED <<closing, gate, closer, cursor, drained>>
           /\ pc' = [pc EXCEPT ![t] = pc'[t]]
           /\ call' = [call EXCEPT ![t] = call'[t]]
           /\ attach' = [attach EXCEPT ![t] = attach'[t]]
<1> USE DEF TypeOK, shutdown, NoShutdown, Goto
<1>1. ASSUME NEW o \in Objects, BeginAttach(t, o) \/ AttachReturned(t, o)
      PROVE  /\ UNCHANGED <<closing, gate, closer, cursor, drained>>
             /\ pc' = [pc EXCEPT ![t] = pc'[t]]
             /\ call' = [call EXCEPT ![t] = call'[t]]
             /\ attach' = [attach EXCEPT ![t] = attach'[t]]
  BY <1>1 DEF BeginAttach, AttachReturned
<1>2. CASE ValidateAttachment(t) \/ ExistingAttachment(t) \/ CopyFails(t)
  BY <1>2 DEF ValidateAttachment, ExistingAttachment, CopyFails, AttachOver
<1>3. CASE CopyFrom(t) \/ RegisterRoute(t) \/ Install(t)
  BY <1>3 DEF CopyFrom, RegisterRoute, Install
<1>4. CASE UnregisterRoute(t) \/ PushHook(t)
  BY <1>4 DEF UnregisterRoute, PushHook, AttachOver
<1> QED
  BY <1>1, <1>2, <1>3, <1>4 DEF AttachStep

\* The end of an attachment, whatever it did to the rest.
LEMMA AttachOverOK ==
    ASSUME Typing, NEW t \in Threads, pc[t] \in AttachPcs, AttachOver(t),
           Len(tables') = Len(tables)
    PROVE  /\ ThreadOK(t)' /\ attach'[t] = NoAttach
           /\ pc'[t] = IF InCall(t) THEN "returned" ELSE "idle"
           /\ call'[t] = IF InCall(t) THEN [call[t] EXCEPT !.guards = @ - 1] ELSE NoCall
<1>1. ThreadOK(t) /\ t \in DOMAIN pc /\ t \in DOMAIN call /\ t \in DOMAIN attach
  BY DEF Typing, TypeOK
<1>2. /\ pc'[t] = IF InCall(t) THEN "returned" ELSE "idle"
      /\ attach'[t] = NoAttach
      /\ call'[t] = [call[t] EXCEPT !.guards = IF InCall(t) THEN @ - 1 ELSE @]
  BY <1>1 DEF AttachOver
<1>3. Len(tables) \in Nat
  BY DEF Typing, TablesOK
<1>4. CASE InCall(t)
  <2>1. pc'[t] = "returned" /\ call'[t] = [call[t] EXCEPT !.guards = @ - 1]
    BY <1>2, <1>4
  <2> QED
    BY <1>1, <1>2, <1>3, <1>4, <2>1
       DEF ThreadOK, Placed, InCall, CallType, AttachType, NoAttach, CallPcs, AttachPcs
<1>5. CASE ~InCall(t)
  <2>1. pc'[t] = "idle" /\ call'[t] = [call[t] EXCEPT !.guards = @] /\ call[t] = NoCall
    BY <1>1, <1>2, <1>5 DEF ThreadOK, Placed
  <2>2. call'[t] = NoCall
    BY <2>1 DEF NoCall
  <2> QED
    BY <1>1, <1>2, <1>3, <1>5, <2>1, <2>2
       DEF ThreadOK, Placed, InCall, CallType, NoCall, AttachType, NoAttach, CallPcs, AttachPcs
<1> QED
  BY <1>4, <1>5

\* What a step of an attachment has to keep.
LEMMA AttachStepKeeps ==
    ASSUME Typing, NEW t \in Threads, AttachStep(t),
           SharedOK', ThreadOK(t)', Len(tables) <= Len(tables')
    PROVE  Typing'
<1>1. /\ UNCHANGED <<closing, gate, closer, cursor, drained>>
      /\ pc' = [pc EXCEPT ![t] = pc'[t]]
      /\ call' = [call EXCEPT ![t] = call'[t]]
      /\ attach' = [attach EXCEPT ![t] = attach'[t]]
  BY AttachStepFrame DEF Typing
<1>2. /\ pc' \in [Threads -> {"idle", "done", "failed"} \cup CallPcs \cup AttachPcs]
      /\ call' \in [Threads -> CallType] /\ attach' \in [Threads -> AttachType]
  BY <1>1 DEF Typing, TypeOK, ThreadOK
<1>3. TypeOK'
  BY <1>1, <1>2 DEF Typing, TypeOK, SharedOK, TablesOK
<1>4. Len(tables) \in Nat /\ Len(tables') \in Nat
  BY DEF Typing, SharedOK, TablesOK
<1>5. ASSUME NEW u \in Threads, u # t PROVE ThreadOK(u)'
  <2>1. /\ pc'[u] = pc[u] /\ call'[u] = call[u] /\ attach'[u] = attach[u]
        /\ ThreadOK(u)
    BY <1>1, <1>5 DEF Typing, TypeOK
  <2> QED
    BY <1>4, <2>1 DEF ThreadOK, Placed, InCall, CallType, AttachType
<1> QED
  BY <1>3, <1>5 DEF Typing, SharedOK

\* Copying the table an object publishes keeps the tables in order.
LEMMA AppendedTable ==
    ASSUME Typing, NEW o \in Objects, NEW who \in {"detour", "foreign"},
           Len(tables) < MaxTables,
           tables' = Append(tables, [by |-> who, of |-> o, base |-> vtable[o]])
    PROVE  /\ tables' \in Seq(TableType)
           /\ Len(tables) \in Nat /\ Len(tables') = Len(tables) + 1
           /\ Len(tables') \in 0..MaxTables
           /\ vtable[o] \in 0..Len(tables)
           /\ \A i \in 1..Len(tables) : tables'[i] = tables[i]
           /\ tables'[Len(tables) + 1] = [by |-> who, of |-> o, base |-> vtable[o]]
           /\ \A i \in 1..Len(tables') :
                 /\ tables'[i].by \in {"detour", "foreign"}
                 /\ tables'[i].of \in Objects
                 /\ tables'[i].base \in 0..(i - 1)
<1>1. vtable[o] \in 0..Len(tables) /\ Len(tables) \in Nat /\ tables \in Seq(TableType)
  BY DEF Typing, TypeOK
<1>2. [by |-> who, of |-> o, base |-> vtable[o]] \in TableType
  BY <1>1 DEF TableType
<1>3. /\ tables' \in Seq(TableType) /\ Len(tables') = Len(tables) + 1
      /\ \A i \in 1..Len(tables) : tables'[i] = tables[i]
      /\ tables'[Len(tables) + 1] = [by |-> who, of |-> o, base |-> vtable[o]]
  BY <1>1, <1>2
<1>4. ASSUME NEW i \in 1..(Len(tables) + 1)
      PROVE  /\ tables'[i].by \in {"detour", "foreign"}
             /\ tables'[i].of \in Objects
             /\ tables'[i].base \in 0..(i - 1)
  <2>1. CASE i \in 1..Len(tables)
    BY <1>3, <2>1 DEF Typing, TablesOK
  <2>2. CASE i = Len(tables) + 1
    BY <1>1, <1>3, <2>2
  <2> QED
    BY <1>1, <2>1, <2>2
<1>5. Len(tables') \in 0..MaxTables
  BY <1>1, <1>3, TablesAreBounded
<1> QED
  BY <1>1, <1>3, <1>4, <1>5

\* A step of an attachment.
LEMMA AttachStepTyping ==
    ASSUME Typing, NEW t \in Threads, AttachStep(t)
    PROVE  Typing'
<1>1. /\ ThreadOK(t) /\ t \in DOMAIN pc /\ t \in DOMAIN call /\ t \in DOMAIN attach
      /\ SharedOK
  BY DEF Typing, TypeOK, SharedOK
<1>2. UNCHANGED cursor
  BY AttachStepFrame DEF Typing
<1> SUFFICES SharedOK' /\ ThreadOK(t)' /\ Len(tables) <= Len(tables')
  BY AttachStepKeeps
<1>3. Len(tables) \in Nat
  BY <1>1 DEF SharedOK, TablesOK
<1>4. ASSUME UNCHANGED <<vtable, tables, routes, hooks, refs, attached_again>>
      PROVE  SharedOK' /\ Len(tables) <= Len(tables')
  BY <1>1, <1>2, <1>3, <1>4 DEF SharedOK, TablesOK
<1>5. ASSUME NEW o \in Objects, BeginAttach(t, o) \/ AttachReturned(t, o)
      PROVE  SharedOK' /\ ThreadOK(t)' /\ Len(tables) <= Len(tables')
  <2>1. /\ pc[t] \in {"idle", "after"} /\ pc'[t] = "validate" /\ call'[t] = call[t]
        /\ attach'[t] = [attach[t] EXCEPT !.obj = o]
    BY <1>1, <1>5 DEF BeginAttach, AttachReturned, Goto
  <2>2. UNCHANGED <<vtable, tables, routes, hooks, refs, attached_again>>
    BY <1>5 DEF BeginAttach, AttachReturned, native, managed
  <2>3. ThreadOK(t)'
    BY <1>1, <2>1, <2>2 DEF ThreadOK, Placed, InCall, AttachType, NoCall, CallPcs, AttachPcs
  <2> QED
    BY <1>4, <2>2, <2>3
<1>6. CASE ValidateAttachment(t) \/ ExistingAttachment(t) \/ CopyFails(t)
  <2>1. UNCHANGED <<vtable, tables, routes, hooks, refs, attached_again>>
    BY <1>6 DEF ValidateAttachment, ExistingAttachment, CopyFails, native, managed
  <2>2. CASE AttachOver(t)
    <3>1. pc[t] \in AttachPcs
      BY <1>6 DEF ValidateAttachment, ExistingAttachment, CopyFails, AttachPcs
    <3> QED
      BY <1>4, <2>1, <2>2, <3>1, AttachOverOK
  <2>3. CASE ~AttachOver(t)
    <3>1. /\ pc[t] \in {"validate", "existing"} /\ pc'[t] \in {"existing", "copy"}
          /\ call'[t] = call[t] /\ attach'[t] = attach[t]
      BY <1>1, <1>6, <2>3 DEF ValidateAttachment, ExistingAttachment, CopyFails, Goto
    <3>2. ThreadOK(t)'
      BY <1>1, <2>1, <3>1 DEF ThreadOK, Placed, InCall, CallPcs, AttachPcs
    <3> QED
      BY <1>4, <2>1, <3>2
  <2> QED
    BY <2>2, <2>3
<1>7. CASE CopyFrom(t)
  <2> DEFINE o == attach[t].obj
  <2>1. o \in Objects
    BY <1>1, <1>7 DEF CopyFrom, Goto, ThreadOK, Placed, AttachPcs
  <2>4. /\ tables' \in Seq(TableType)
        /\ Len(tables) \in Nat /\ Len(tables') = Len(tables) + 1
        /\ Len(tables') \in 0..MaxTables
        /\ vtable[o] \in 0..Len(tables)
        /\ \A i \in 1..Len(tables') :
              /\ tables'[i].by \in {"detour", "foreign"}
              /\ tables'[i].of \in Objects
              /\ tables'[i].base \in 0..(i - 1)
    BY <1>7, <2>1, AppendedTable DEF CopyFrom
  <2>5. UNCHANGED <<vtable, routes, hooks, refs>>
    BY <1>7 DEF CopyFrom, managed
  <2>6. attached_again' \subseteq Objects
    BY <1>1, <1>7, <2>1 DEF CopyFrom, SharedOK
  <2>8. TablesOK'
    <3>1. Len(tables') \in 0..MaxTables /\ Len(tables) <= Len(tables')
      BY <2>4
    <3>2. vtable' \in [Objects -> 0..Len(tables')] /\ DOMAIN routes' \subseteq Objects
      BY <1>1, <1>3, <2>5, <3>1 DEF SharedOK, TablesOK
    <3>3. \A x \in DOMAIN routes' : routes'[x] \in 0..Len(tables')
      BY <1>1, <1>3, <2>5, <3>1 DEF SharedOK, TablesOK
    <3>4. ASSUME NEW i \in 1..Len(hooks')
          PROVE  hooks'[i].base <= Len(tables') /\ hooks'[i].table <= Len(tables')
      <4>1. hooks[i] \in HookType /\ hooks[i].base <= Len(tables) /\ hooks[i].table <= Len(tables)
        BY <1>1, <2>5 DEF SharedOK, TablesOK
      <4> QED
        BY <1>3, <2>4, <2>5, <4>1 DEF HookType
    <3> QED
      BY <2>4, <3>1, <3>2, <3>3, <3>4 DEF TablesOK
  <2>9. /\ pc[t] = "copy" /\ pc'[t] = "register" /\ call'[t] = call[t]
        /\ attach'[t] = [attach[t] EXCEPT !.base = vtable[o], !.table = Len(tables) + 1]
    BY <1>1, <1>7 DEF CopyFrom, Goto
  <2>10. attach'[t] = [obj |-> o, base |-> vtable[o], table |-> Len(tables) + 1]
    BY <1>1, <2>9 DEF ThreadOK, AttachType
  <2>11. ThreadOK(t)'
    BY <1>1, <1>3, <2>1, <2>4, <2>9, <2>10
       DEF ThreadOK, Placed, InCall, CallType, AttachType, CallPcs, AttachPcs
  <2> QED
    BY <1>1, <1>2, <1>3, <2>4, <2>5, <2>6, <2>8, <2>11 DEF SharedOK
<1>8. CASE RegisterRoute(t)
  <2>1. /\ pc[t] = "register" /\ pc'[t] = "install" /\ call'[t] = call[t]
        /\ attach'[t] = attach[t]
    BY <1>1, <1>8 DEF RegisterRoute, Goto
  <2>2. UNCHANGED <<vtable, tables, hooks, refs, attached_again>>
    BY <1>8 DEF RegisterRoute, native
  <2>3. /\ attach[t].obj \in Objects
        /\ attach[t].base \in 0..Len(tables)
    BY <1>1, <1>3, <2>1 DEF ThreadOK, Placed, AttachType, AttachPcs
  <2>4. /\ DOMAIN routes' \subseteq Objects
        /\ \A o \in DOMAIN routes' : routes'[o] \in 0..Len(tables)
    BY <1>1, <1>8, <2>3 DEF RegisterRoute, SharedOK, TablesOK
  <2>5. ThreadOK(t)'
    BY <1>1, <2>1, <2>2 DEF ThreadOK, Placed, InCall, CallPcs, AttachPcs
  <2> QED
    BY <1>1, <1>2, <1>3, <2>2, <2>4, <2>5 DEF SharedOK, TablesOK
<1>9. CASE Install(t)
  <2>1. /\ pc[t] = "install" /\ pc'[t] \in {"push", "unregister"} /\ call'[t] = call[t]
        /\ attach'[t] = attach[t]
    BY <1>1, <1>9 DEF Install, Goto
  <2>2. UNCHANGED <<tables, routes, hooks, attached_again>>
    BY <1>9 DEF Install
  <2>3. /\ attach[t].obj \in Objects
        /\ attach[t].table \in 0..Len(tables)
    BY <1>1, <1>3, <2>1 DEF ThreadOK, Placed, AttachType, AttachPcs
  <2>4. vtable' \in [Objects -> 0..Len(tables)] /\ refs' \in [Objects -> Nat]
    <3>1. vtable \in [Objects -> 0..Len(tables)] /\ refs \in [Objects -> Nat]
      BY <1>1 DEF SharedOK, TablesOK
    <3>2. CASE vtable[attach[t].obj] = attach[t].base
      BY <1>9, <2>3, <3>1, <3>2 DEF Install
    <3>3. CASE vtable[attach[t].obj] # attach[t].base
      BY <1>9, <3>1, <3>3 DEF Install
    <3> QED
      BY <3>2, <3>3
  <2>5. ThreadOK(t)'
    BY <1>1, <2>1, <2>2 DEF ThreadOK, Placed, InCall, CallPcs, AttachPcs
  <2> QED
    <3>1. TablesOK'
      BY <1>1, <2>2, <2>4 DEF SharedOK, TablesOK
    <3> QED
      BY <1>1, <1>2, <1>3, <2>2, <2>4, <2>5, <3>1 DEF SharedOK
<1>10. CASE UnregisterRoute(t)
  <2>1. UNCHANGED <<vtable, tables, hooks, refs, attached_again>>
    BY <1>10 DEF UnregisterRoute, native
  <2>2. /\ DOMAIN routes' \subseteq Objects
        /\ \A o \in DOMAIN routes' : routes'[o] \in 0..Len(tables)
    BY <1>1, <1>10 DEF UnregisterRoute, SharedOK, TablesOK
  <2>3. ThreadOK(t)'
    BY <1>10, <2>1, AttachOverOK DEF UnregisterRoute, AttachPcs
  <2> QED
    BY <1>1, <1>2, <1>3, <2>1, <2>2, <2>3 DEF SharedOK, TablesOK
<1>11. CASE PushHook(t)
  <2> DEFINE a == attach[t]
             h == [obj |-> a.obj, base |-> a.base, table |-> a.table, state |-> "Installed"]
  <2>1. UNCHANGED <<vtable, tables, routes, refs, attached_again>>
    BY <1>11 DEF PushHook, native
  <2>2. /\ pc[t] = "push" /\ hooks' = Append(hooks, h)
    BY <1>11 DEF PushHook
  <2>3. /\ a.obj \in Objects
        /\ a.base \in 0..Len(tables) /\ a.table \in 0..Len(tables)
    BY <1>1, <1>3, <2>2 DEF ThreadOK, Placed, AttachType, AttachPcs
  <2>4. h \in HookType
    BY <1>3, <2>3 DEF HookType
  <2>5. /\ hooks' \in Seq(HookType) /\ Len(hooks') = Len(hooks) + 1 /\ Len(hooks) \in Nat
        /\ \A i \in 1..Len(hooks) : hooks'[i] = hooks[i]
        /\ hooks'[Len(hooks) + 1] = h
    BY <1>1, <2>2, <2>4 DEF SharedOK
  <2>6. TablesOK'
    <3>1. ASSUME NEW i \in 1..Len(hooks')
          PROVE  hooks'[i].base <= Len(tables) /\ hooks'[i].table <= Len(tables)
      <4>1. CASE i \in 1..Len(hooks)
        BY <1>1, <2>5, <4>1 DEF SharedOK, TablesOK
      <4>2. CASE i = Len(hooks) + 1
        BY <1>3, <2>3, <2>5, <4>2
      <4> QED
        BY <2>5, <3>1, <4>1, <4>2
    <3> QED
      BY <1>1, <2>1, <3>1 DEF SharedOK, TablesOK
  <2>7. SharedOK'
    BY <1>1, <1>2, <2>1, <2>5, <2>6 DEF SharedOK
  <2>8. CASE Highest[a.obj] = a.obj
    <3>1. AttachOver(t)
      BY <1>11, <2>8 DEF PushHook
    <3>2. pc[t] \in AttachPcs /\ Len(tables') = Len(tables)
      BY <2>1, <2>2 DEF AttachPcs
    <3>3. ThreadOK(t)'
      BY <3>1, <3>2, AttachOverOK
    <3>4. Len(tables) <= Len(tables')
      BY <1>3, <3>2
    <3> QED
      BY <2>7, <3>3, <3>4
  <2>9. CASE Highest[a.obj] # a.obj
    <3>1. /\ pc'[t] = "copy" /\ call'[t] = call[t]
          /\ attach'[t] = [NoAttach EXCEPT !.obj = Highest[a.obj]]
      BY <1>1, <1>11, <2>9 DEF PushHook
    <3>2. attach'[t] = [obj |-> Highest[a.obj], base |-> 0, table |-> 0]
      BY <3>1 DEF NoAttach
    <3>3. Highest[a.obj] \in Objects
      BY <2>3, HighestIsHighest
    <3> QED
      BY <1>1, <1>3, <2>1, <2>2, <2>7, <3>1, <3>2, <3>3
         DEF ThreadOK, Placed, InCall, CallType, AttachType, CallPcs, AttachPcs
  <2> QED
    BY <2>8, <2>9
<1> QED
  BY <1>5, <1>6, <1>7, <1>8, <1>9, <1>10, <1>11 DEF AttachStep

-----------------------------------------------------------------------------
\* The shadows a guard holds, and the threads that are about to push one.
Shadows(o) == {i \in 1..Len(hooks) : hooks[i].obj = o /\ hooks[i].state = "Installed"}
Pushing(o) == {t \in Threads : pc[t] = "push" /\ attach[t].obj = o}

\* The shadows of an object, and the attachments that will push one, are counted.
LEMMA ShadowsAreFinite ==
    ASSUME Typing, NEW o \in Objects
    PROVE  /\ IsFiniteSet(Shadows(o)) /\ Cardinality(Shadows(o)) \in Nat
           /\ IsFiniteSet(Pushing(o)) /\ Cardinality(Pushing(o)) \in Nat
<1>1. IsFiniteSet(1..Len(hooks))
  BY FS_Interval DEF Typing, TypeOK
<1>2. IsFiniteSet(Shadows(o)) /\ IsFiniteSet(Pushing(o))
  BY <1>1, ThreadsFinite, FS_Subset DEF Shadows, Pushing
<1> QED
  BY <1>2, FS_CardinalityType

\* A guard that is still installed has a reference to release.
LEMMA InstalledHasReference ==
    ASSUME Typing, RefsMatchShadows, NEW i \in 1..Len(hooks), hooks[i].state = "Installed"
    PROVE  refs[hooks[i].obj] > 0
<1> DEFINE o == hooks[i].obj
<1>1. o \in Objects
  <2>1. hooks[i] \in HookType
    BY DEF Typing, TypeOK
  <2> QED
    BY <2>1 DEF HookType
<1>2. i \in Shadows(o)
  BY DEF Shadows
<1>3. Cardinality(Shadows(o)) # 0
  BY <1>1, <1>2, ShadowsAreFinite, FS_EmptySet
<1>4. refs[o] = Cardinality(Shadows(o)) + Cardinality(Pushing(o))
  BY <1>1 DEF RefsMatchShadows, Shadows, Pushing
<1> QED
  BY <1>1, <1>3, <1>4, ShadowsAreFinite

\* The step of close_and_drain that takes a guard's shadow back.
LEMMA RestoreHookSteps ==
    ASSUME Typing, RestoreHook
    PROVE  /\ cursor \in 1..Len(hooks) /\ cursor' = cursor + 1
           /\ hooks[cursor] \in HookType
           /\ hooks[cursor].base <= Len(tables) /\ hooks[cursor].table <= Len(tables)
           /\ hooks' \in Seq(HookType) /\ Len(hooks') = Len(hooks)
           /\ \A i \in 1..Len(hooks) : i # cursor => hooks'[i] = hooks[i]
           /\ \A i \in 1..Len(hooks) : /\ hooks'[i].obj = hooks[i].obj
                                       /\ hooks'[i].base = hooks[i].base
                                       /\ hooks'[i].table = hooks[i].table
           /\ hooks'[cursor].state # "Installed"
           /\ UNCHANGED <<closing, gate, closer, drained, pc, call, attach, attached_again,
                          tables, routes>>
<1>1. cursor \in 1..Len(hooks) /\ cursor' = cursor + 1
  BY DEF RestoreHook, Typing, TypeOK
<1>2. /\ hooks \in Seq(HookType) /\ Len(hooks) \in Nat
      /\ hooks[cursor] \in HookType
      /\ hooks[cursor].base <= Len(tables) /\ hooks[cursor].table <= Len(tables)
  BY <1>1 DEF Typing, TypeOK, TablesOK
<1>3. UNCHANGED <<closing, gate, closer, drained, pc, call, attach, attached_again, tables, routes>>
  BY DEF RestoreHook, OnlyShutdown
<1>4. CASE hooks[cursor].state # "Installed"
  <2>1. hooks' = hooks
    BY <1>4 DEF RestoreHook
  <2> QED
    BY <1>1, <1>2, <1>3, <1>4, <2>1
<1>5. CASE hooks[cursor].state = "Installed"
  <2>1. PICK s \in {"Restored", "Displaced"} : hooks' = [hooks EXCEPT ![cursor].state = s]
    BY <1>5 DEF RestoreHook
  <2>2. hooks' = [hooks EXCEPT ![cursor] = [hooks[cursor] EXCEPT !.state = s]]
    BY <2>1
  <2>3. [hooks[cursor] EXCEPT !.state = s] \in HookType
    BY <1>2 DEF HookType
  <2>4. hooks' \in Seq(HookType) /\ Len(hooks') = Len(hooks)
    BY <1>1, <1>2, <2>2, <2>3
  <2>5. /\ hooks'[cursor] = [hooks[cursor] EXCEPT !.state = s]
        /\ \A i \in 1..Len(hooks) : i # cursor => hooks'[i] = hooks[i]
    BY <1>1, <1>2, <2>2
  <2>6. /\ hooks'[cursor].obj = hooks[cursor].obj
        /\ hooks'[cursor].base = hooks[cursor].base
        /\ hooks'[cursor].table = hooks[cursor].table
        /\ hooks'[cursor].state = s
    BY <1>2, <2>5 DEF HookType
  <2> QED
    BY <1>1, <1>2, <1>3, <2>4, <2>5, <2>6
<1> QED
  BY <1>4, <1>5

\* A step of close_and_drain.
LEMMA ShutdownTyping ==
    ASSUME Typing, RefsMatchShadows, Shutdown
    PROVE  Typing'
<1>1. UNCHANGED <<pc, call, attach, attached_again, tables, routes>>
  BY DEF Shutdown, BeginClose, CloseGate, RestoreHook, AllRestored, ReportDrained, OnlyShutdown
<1>2. \A u \in Threads : ThreadOK(u)'
  BY <1>1 DEF Typing, ThreadOK, Placed, InCall
<1>3. CASE BeginClose \/ CloseGate \/ AllRestored \/ ReportDrained
  <2>1. UNCHANGED <<vtable, hooks, refs>> /\ cursor' \in {cursor, 1}
    BY <1>3 DEF BeginClose, CloseGate, AllRestored, ReportDrained
  <2>2. /\ closing' \in BOOLEAN /\ gate' \in BOOLEAN /\ drained' \in BOOLEAN
        /\ closer' \in {"none", "closing", "restoring", "waiting"}
    BY <1>3 DEF BeginClose, CloseGate, AllRestored, ReportDrained, Typing, TypeOK
  <2>3. cursor' \in 1..(Len(hooks) + 1)
    BY <2>1 DEF Typing, TypeOK
  <2>4. TypeOK'
    BY <1>1, <2>1, <2>2, <2>3 DEF Typing, TypeOK
  <2>5. TablesOK'
    BY <1>1, <2>1 DEF Typing, TablesOK
  <2> QED
    BY <1>2, <2>4, <2>5 DEF Typing
<1>4. CASE RestoreHook
  <2> DEFINE h == hooks[cursor]
  <2>1. /\ cursor \in 1..Len(hooks) /\ cursor' = cursor + 1 /\ h \in HookType
        /\ h.base <= Len(tables)
        /\ hooks' \in Seq(HookType) /\ Len(hooks') = Len(hooks)
        /\ \A i \in 1..Len(hooks) : /\ hooks'[i].base = hooks[i].base
                                    /\ hooks'[i].table = hooks[i].table
        /\ UNCHANGED <<closing, gate, closer, drained>>
    BY <1>4, RestoreHookSteps
  <2>2. /\ vtable \in [Objects -> 0..Len(tables)] /\ refs \in [Objects -> Nat]
        /\ Len(tables) \in Nat
    BY DEF Typing, TypeOK
  <2>3. h.obj \in Objects /\ h.base \in 0..Len(tables)
    BY <2>1, <2>2 DEF HookType
  <2>4. vtable' \in [Objects -> 0..Len(tables)] /\ refs' \in [Objects -> Nat]
    <3>1. CASE h.state # "Installed"
      BY <1>4, <2>2, <3>1 DEF RestoreHook
    <3>2. CASE h.state = "Installed"
      <4>1. /\ vtable' = [vtable EXCEPT ![h.obj] = IF @ = h.table THEN h.base ELSE @]
            /\ refs' = [refs EXCEPT ![h.obj] = @ - 1]
        BY <1>4, <3>2 DEF RestoreHook
      <4>2. refs[h.obj] > 0
        BY <2>1, <3>2, InstalledHasReference
      <4>3. refs[h.obj] - 1 \in Nat
        BY <2>2, <2>3, <4>2
      <4> QED
        BY <2>2, <2>3, <4>1, <4>3
    <3> QED
      BY <3>1, <3>2
  <2>5. TablesOK'
    BY <1>1, <2>1, <2>4 DEF Typing, TablesOK
  <2>6. cursor' \in 1..(Len(hooks') + 1)
    BY <2>1
  <2>7. TypeOK'
    BY <1>1, <2>1, <2>4, <2>6 DEF Typing, TypeOK
  <2> QED
    BY <1>2, <2>5, <2>7 DEF Typing
<1> QED
  BY <1>3, <1>4 DEF Shutdown

\* Another program that replaces an object's table, or puts it back.
LEMMA ForeignTyping ==
    ASSUME Typing, NEW o \in Objects, ForeignInstall(o) \/ ForeignRemove(o)
    PROVE  Typing'
<1>1. UNCHANGED <<routes, hooks, refs, closing, gate, closer, cursor, drained,
                  pc, call, attach, attached_again>>
  BY DEF ForeignInstall, ForeignRemove, managed, shutdown
<1>2. /\ vtable \in [Objects -> 0..Len(tables)] /\ Len(tables) \in Nat
      /\ tables \in Seq(TableType) /\ hooks \in Seq(HookType)
  BY DEF Typing, TypeOK
<1>3. /\ Len(tables) <= Len(tables') /\ tables' \in Seq(TableType)
      /\ Len(tables') \in 0..MaxTables
      /\ vtable' \in [Objects -> 0..Len(tables')]
      /\ \A i \in 1..Len(tables') :
            /\ tables'[i].by \in {"detour", "foreign"}
            /\ tables'[i].of \in Objects
            /\ tables'[i].base \in 0..(i - 1)
  <2>1. CASE ForeignInstall(o)
    <3>1. /\ Len(tables) < MaxTables
          /\ tables' = Append(tables, [by |-> "foreign", of |-> o, base |-> vtable[o]])
          /\ vtable' = [vtable EXCEPT ![o] = Len(tables) + 1]
      BY <2>1 DEF ForeignInstall
    <3>2. /\ tables' \in Seq(TableType) /\ Len(tables') = Len(tables) + 1
          /\ Len(tables') \in 0..MaxTables
          /\ \A i \in 1..Len(tables') :
                /\ tables'[i].by \in {"detour", "foreign"}
                /\ tables'[i].of \in Objects
                /\ tables'[i].base \in 0..(i - 1)
      BY <3>1, AppendedTable
    <3>3. vtable' \in [Objects -> 0..Len(tables')]
      BY <1>2, <3>1, <3>2
    <3> QED
      BY <1>2, <3>2, <3>3
  <2>2. CASE ForeignRemove(o)
    <3>1. /\ vtable[o] \in 1..Len(tables)
          /\ vtable' = [vtable EXCEPT ![o] = tables[vtable[o]].base]
          /\ tables' = tables
      BY <2>2 DEF ForeignRemove, ForeignTables
    <3>2. tables[vtable[o]].base \in 0..(vtable[o] - 1)
      BY <3>1 DEF Typing, TablesOK
    <3>3. vtable' \in [Objects -> 0..Len(tables)]
      BY <1>2, <3>1, <3>2
    <3> QED
      BY <1>2, <3>1, <3>3 DEF Typing, TablesOK
  <2> QED
    BY <2>1, <2>2
<1>4. ASSUME NEW i \in 1..Len(hooks)
      PROVE  hooks[i].base <= Len(tables') /\ hooks[i].table <= Len(tables')
  <2>1. hooks[i] \in HookType /\ hooks[i].base <= Len(tables) /\ hooks[i].table <= Len(tables)
    BY DEF Typing, TypeOK, TablesOK
  <2>2. Len(tables') \in Nat /\ Len(tables) <= Len(tables')
    BY <1>3
  <2> QED
    BY <1>2, <2>1, <2>2 DEF HookType
<1>5. /\ DOMAIN routes \subseteq Objects
      /\ \A x \in DOMAIN routes : routes[x] \in 0..Len(tables')
  BY <1>2, <1>3 DEF Typing, TablesOK
<1>6. TablesOK'
  BY <1>1, <1>3, <1>4, <1>5 DEF TablesOK
<1>7. TypeOK'
  BY <1>1, <1>3, <1>5 DEF Typing, TypeOK
<1>8. ASSUME NEW u \in Threads PROVE ThreadOK(u)'
  <2>1. ThreadOK(u) /\ UNCHANGED <<pc, call, attach>>
    BY <1>1 DEF Typing
  <2>2. Len(tables') \in Nat /\ Len(tables) <= Len(tables')
    BY <1>3
  <2> QED
    BY <1>2, <2>1, <2>2 DEF ThreadOK, Placed, InCall, CallType, AttachType
<1> QED
  BY <1>6, <1>7, <1>8 DEF Typing

\* Every step keeps the types.
LEMMA NextTyping ==
    ASSUME Typing, RefsMatchShadows, [Next]_vars
    PROVE  Typing'
<1>1. CASE \E t \in Threads : CallStep(t)
  BY <1>1, CallStepTyping
<1>2. CASE \E t \in Threads : AttachStep(t)
  BY <1>2, AttachStepTyping
<1>3. CASE Shutdown
  BY <1>3, ShutdownTyping
<1>4. CASE \E o \in Objects : ForeignInstall(o) \/ ForeignRemove(o)
  BY <1>4, ForeignTyping
<1>5. CASE UNCHANGED vars
  BY <1>5 DEF Typing, TypeOK, TablesOK, ThreadOK, Placed, InCall, vars, native, managed, shutdown
<1> QED
  BY <1>1, <1>2, <1>3, <1>4, <1>5 DEF Next

-----------------------------------------------------------------------------
\* A detour is counted only while the gate is open, and what the closer reports
\* it read with the gate closed.
LEMMA NextGate ==
    ASSUME Typing, GateClosed, DrainedRunsNoHandler, [Next]_vars
    PROVE  GateClosed' /\ DrainedRunsNoHandler'
<1>1. ASSUME NEW t \in Threads, CallStep(t)
      PROVE  GateClosed' /\ DrainedRunsNoHandler'
  <2>1. /\ UNCHANGED <<gate, closer, drained>>
        /\ call' = [call EXCEPT ![t] = call'[t]]
    BY <1>1, CallStepFrame DEF Typing
  <2>2. ThreadOK(t) /\ t \in DOMAIN call /\ t \in DOMAIN pc
    BY DEF Typing, TypeOK
  <2>3. ASSUME drained, call[t].guards = 0 PROVE call'[t].guards = 0
    <3>1. ~gate
      BY <2>3 DEF GateClosed
    <3>2. ~Admitted(t)
      BY <3>1 DEF Admitted
    <3>3. pc[t] \notin {"before", "after"}
      BY <2>2, <2>3 DEF ThreadOK, Placed, CallPcs
    <3>4. ASSUME NEW o \in Objects, NEW m \in Methods, StartCall(t, o, m)
          PROVE  call'[t].guards = 0
      BY <2>2, <3>4 DEF StartCall, SetCall, NoCall
    <3>5. CASE CallNative(t) \/ CallForeign(t) \/ CallDetour(t)
      BY <2>2, <2>3, <3>5 DEF CallNative, CallForeign, CallDetour, SetCall, ThreadOK, CallType
    <3>6. CASE LookUpRoute(t) \/ CallCurrentMethod(t) \/ Return(t)
      BY <2>2, <2>3, <3>6 DEF LookUpRoute, CallCurrentMethod, Return, SetCall, ThreadOK, CallType
    <3>7. CASE Refused(t)
      <4>1. call'[t] = [call[t] EXCEPT !.at = call[t].base, !.base = 0, !.guards = call[t].guards]
        BY <2>2, <3>7 DEF Refused, CallOriginal, SetCall
      <4> QED
        BY <2>2, <2>3, <4>1 DEF ThreadOK, CallType
    <3>8. CASE Answer(t)
      BY <2>2, <3>8 DEF Answer, SetCall, NoCall
    <3> QED
      BY <1>1, <3>2, <3>3, <3>4, <3>5, <3>6, <3>7, <3>8
         DEF CallStep, BeforeHandler, BeforeHandlerPanics, AfterHandler, Goto
  <2>4. DrainedRunsNoHandler'
    BY <2>1, <2>3 DEF DrainedRunsNoHandler, Typing, TypeOK
  <2> QED
    BY <2>1, <2>4 DEF GateClosed
<1>2. ASSUME NEW t \in Threads, AttachStep(t)
      PROVE  GateClosed' /\ DrainedRunsNoHandler'
  <2>1. /\ UNCHANGED <<gate, closer, drained>>
        /\ call' = [call EXCEPT ![t] = call'[t]]
    BY <1>2, AttachStepFrame DEF Typing
  <2>2. ThreadOK(t) /\ t \in DOMAIN call
    BY DEF Typing, TypeOK
  <2>3. call'[t] = call[t] \/ (pc[t] \in AttachPcs /\ AttachOver(t))
    BY <1>2 DEF AttachStep, BeginAttach, AttachReturned, ValidateAttachment,
       ExistingAttachment, CopyFrom, CopyFails, RegisterRoute, Install, UnregisterRoute,
       PushHook, AttachPcs, Goto
  <2>4. ASSUME drained, call[t].guards = 0 PROVE call'[t].guards = 0
    <3>1. CASE call'[t] = call[t]
      BY <2>4, <3>1
    <3>2. CASE pc[t] \in AttachPcs /\ AttachOver(t)
      <4>1. ~InCall(t)
        BY <2>2, <2>4, <3>2 DEF ThreadOK, Placed
      <4>2. call'[t] = [call[t] EXCEPT !.guards = @]
        BY <2>2, <3>2, <4>1 DEF AttachOver
      <4> QED
        BY <2>2, <2>4, <4>2 DEF ThreadOK, CallType
    <3> QED
      BY <2>3, <3>1, <3>2
  <2>5. DrainedRunsNoHandler'
    BY <2>1, <2>4 DEF DrainedRunsNoHandler, Typing, TypeOK
  <2> QED
    BY <2>1, <2>5 DEF GateClosed
<1>3. CASE Shutdown
  <2>1. UNCHANGED call
    BY <1>3 DEF Shutdown, BeginClose, CloseGate, RestoreHook, AllRestored, ReportDrained,
       OnlyShutdown
  <2>2. CASE BeginClose \/ CloseGate \/ RestoreHook \/ AllRestored
    BY <2>1, <2>2 DEF BeginClose, CloseGate, RestoreHook, AllRestored, HooksLocked,
       GateClosed, DrainedRunsNoHandler
  <2>3. CASE ReportDrained
    <3>1. drained' => \A t \in Threads : ~(call[t].guards > 0)
      BY <2>3 DEF ReportDrained, Inside
    <3>2. \A t \in Threads : call[t].guards \in Nat
      BY DEF Typing, ThreadOK, CallType
    <3> QED
      BY <2>1, <2>3, <3>1, <3>2 DEF ReportDrained, GateClosed, DrainedRunsNoHandler
  <2> QED
    BY <1>3, <2>2, <2>3 DEF Shutdown
<1>4. CASE \E o \in Objects : ForeignInstall(o) \/ ForeignRemove(o)
  BY <1>4 DEF ForeignInstall, ForeignRemove, shutdown, GateClosed, DrainedRunsNoHandler
<1>5. CASE UNCHANGED vars
  BY <1>5 DEF vars, shutdown, GateClosed, DrainedRunsNoHandler
<1> QED
  BY <1>1, <1>2, <1>3, <1>4, <1>5 DEF Next

-----------------------------------------------------------------------------
\* RefsMatchShadows with the names of its two sets.
LEMMA RefsRestated ==
    /\ RefsMatchShadows <=>
        \A o \in Objects : refs[o] = Cardinality(Shadows(o)) + Cardinality(Pushing(o))
    /\ RefsMatchShadows' <=>
        \A o \in Objects : refs'[o] = Cardinality(Shadows(o)') + Cardinality(Pushing(o)')
BY DEF RefsMatchShadows, Shadows, Pushing

\* A thread that neither publishes nor pushes leaves the references alone.
LEMMA RefsUntouched ==
    ASSUME Typing, RefsMatchShadows, NEW t \in Threads,
           UNCHANGED <<hooks, refs>>, pc[t] # "push", pc'[t] # "push",
           pc' = [pc EXCEPT ![t] = pc'[t]],
           \A u \in Threads : u # t => attach'[u] = attach[u]
    PROVE  RefsMatchShadows'
<1>1. pc \in [Threads -> {"idle", "done", "failed"} \cup CallPcs \cup AttachPcs]
  BY DEF Typing, TypeOK
<1>2. ASSUME NEW o \in Objects PROVE Shadows(o)' = Shadows(o) /\ Pushing(o)' = Pushing(o)
  BY <1>1 DEF Shadows, Pushing
<1> QED
  BY <1>2, RefsRestated

\* The exchange takes the reference that the guard will hold.
LEMMA InstallRefs ==
    ASSUME Typing, RefsMatchShadows, NEW t \in Threads, Install(t)
    PROVE  RefsMatchShadows'
<1> DEFINE a == attach[t]
<1>1. /\ pc \in [Threads -> {"idle", "done", "failed"} \cup CallPcs \cup AttachPcs]
      /\ refs \in [Objects -> Nat] /\ pc[t] = "install"
      /\ UNCHANGED <<hooks, attach>>
  BY DEF Typing, TypeOK, Install
<1>2. a.obj \in Objects
  BY <1>1 DEF Typing, ThreadOK, Placed, AttachPcs
<1>3. CASE vtable[a.obj] = a.base
  <2>1. pc' = [pc EXCEPT ![t] = "push"] /\ refs' = [refs EXCEPT ![a.obj] = @ + 1]
    BY <1>3 DEF Install, Goto
  <2>2. ASSUME NEW o \in Objects
        PROVE  refs'[o] = Cardinality(Shadows(o)') + Cardinality(Pushing(o)')
    <3>1. refs[o] = Cardinality(Shadows(o)) + Cardinality(Pushing(o))
      BY RefsRestated
    <3>2. Shadows(o)' = Shadows(o)
      BY <1>1 DEF Shadows
    <3>3. CASE o = a.obj
      <4>1. t \notin Pushing(o) /\ Pushing(o)' = Pushing(o) \cup {t}
        BY <1>1, <2>1, <3>3 DEF Pushing
      <4>2. Cardinality(Pushing(o)') = Cardinality(Pushing(o)) + 1
        BY <4>1, ShadowsAreFinite, FS_AddElement
      <4>3. refs'[o] = refs[o] + 1
        BY <1>1, <2>1, <3>3
      <4> QED
        BY <3>1, <3>2, <4>2, <4>3, ShadowsAreFinite
    <3>4. CASE o # a.obj
      <4>1. Pushing(o)' = Pushing(o) /\ refs'[o] = refs[o]
        BY <1>1, <2>1, <3>4 DEF Pushing
      <4> QED
        BY <3>1, <3>2, <4>1
    <3> QED
      BY <3>3, <3>4
  <2> QED
    BY <2>2, RefsRestated
<1>4. CASE vtable[a.obj] # a.base
  <2>1. pc' = [pc EXCEPT ![t] = "unregister"] /\ UNCHANGED refs
    BY <1>4 DEF Install, Goto
  <2> QED
    BY <1>1, <2>1, RefsUntouched
<1> QED
  BY <1>3, <1>4

\* The guard joins the hooks with the reference its thread held.
LEMMA PushHookRefs ==
    ASSUME Typing, RefsMatchShadows, NEW t \in Threads, PushHook(t)
    PROVE  RefsMatchShadows'
<1> DEFINE a == attach[t]
           new == Len(hooks) + 1
<1>1. /\ pc \in [Threads -> {"idle", "done", "failed"} \cup CallPcs \cup AttachPcs]
      /\ attach \in [Threads -> AttachType]
      /\ hooks \in Seq(HookType) /\ Len(hooks) \in Nat
      /\ pc[t] = "push" /\ UNCHANGED refs
  BY DEF Typing, TypeOK, PushHook
<1>2. a.obj \in Objects
  BY <1>1 DEF Typing, ThreadOK, Placed, AttachPcs
<1>3. /\ Len(hooks') = new
      /\ \A i \in 1..Len(hooks) : hooks'[i] = hooks[i]
      /\ hooks'[new].obj = a.obj /\ hooks'[new].state = "Installed"
  <2>1. hooks' = Append(hooks, [obj |-> a.obj, base |-> a.base, table |-> a.table,
                                state |-> "Installed"])
    BY DEF PushHook
  <2> QED
    BY <1>1, <2>1
<1>4. pc' = [pc EXCEPT ![t] = pc'[t]] /\ attach' = [attach EXCEPT ![t] = attach'[t]]
  BY AttachStepFrame DEF Typing, AttachStep
<1>5. pc'[t] # "push"
  BY <1>1 DEF PushHook, AttachOver
<1>6. ASSUME NEW o \in Objects
      PROVE  refs'[o] = Cardinality(Shadows(o)') + Cardinality(Pushing(o)')
  <2>1. refs'[o] = Cardinality(Shadows(o)) + Cardinality(Pushing(o))
    BY <1>1, RefsRestated
  <2>2. CASE o = a.obj
    <3>1. t \in Pushing(o) /\ Pushing(o)' = Pushing(o) \ {t}
      BY <1>1, <1>4, <1>5, <2>2 DEF Pushing
    <3>2. new \notin Shadows(o) /\ Shadows(o)' = Shadows(o) \cup {new}
      BY <1>1, <1>3, <2>2 DEF Shadows
    <3>3. Cardinality(Shadows(o)') = Cardinality(Shadows(o)) + 1
      BY <3>2, ShadowsAreFinite, FS_AddElement
    <3>4. Cardinality(Pushing(o)') = Cardinality(Pushing(o)) - 1
      BY <3>1, ShadowsAreFinite, FS_RemoveElement
    <3> QED
      BY <2>1, <3>3, <3>4, ShadowsAreFinite
  <2>3. CASE o # a.obj
    <3>1. Pushing(o)' = Pushing(o)
      BY <1>1, <1>4, <1>5, <2>3 DEF Pushing
    <3>2. Shadows(o)' = Shadows(o)
      BY <1>1, <1>3, <2>3 DEF Shadows
    <3> QED
      BY <2>1, <3>1, <3>2
  <2> QED
    BY <2>2, <2>3
<1> QED
  BY <1>6, RefsRestated

\* Restoring a guard that is still installed gives its reference back.
LEMMA RestoreHookRefs ==
    ASSUME Typing, RefsMatchShadows, RestoreHook
    PROVE  RefsMatchShadows'
<1> DEFINE h == hooks[cursor]
<1>1. /\ cursor \in 1..Len(hooks) /\ h \in HookType /\ Len(hooks') = Len(hooks)
      /\ \A i \in 1..Len(hooks) : i # cursor => hooks'[i] = hooks[i]
      /\ hooks'[cursor].state # "Installed"
      /\ UNCHANGED <<pc, attach>>
  BY RestoreHookSteps
<1>2. refs \in [Objects -> Nat] /\ h.obj \in Objects
  BY <1>1 DEF Typing, TypeOK, HookType
<1>3. ASSUME NEW o \in Objects
      PROVE  refs'[o] = Cardinality(Shadows(o)') + Cardinality(Pushing(o)')
  <2>1. refs[o] = Cardinality(Shadows(o)) + Cardinality(Pushing(o))
    BY RefsRestated
  <2>2. Pushing(o)' = Pushing(o)
    BY <1>1 DEF Pushing
  <2>3. CASE h.state # "Installed"
    <3>1. Shadows(o)' = Shadows(o) /\ UNCHANGED refs
      BY <2>3 DEF RestoreHook, Shadows
    <3> QED
      BY <2>1, <2>2, <3>1
  <2>4. CASE h.state = "Installed" /\ h.obj = o
    <3>1. cursor \in Shadows(o) /\ Shadows(o)' = Shadows(o) \ {cursor}
      BY <1>1, <2>4 DEF Shadows
    <3>2. Cardinality(Shadows(o)') = Cardinality(Shadows(o)) - 1
      BY <3>1, ShadowsAreFinite, FS_RemoveElement
    <3>3. refs'[o] = refs[o] - 1
      BY <1>2, <2>4 DEF RestoreHook
    <3> QED
      BY <2>1, <2>2, <3>2, <3>3, ShadowsAreFinite
  <2>5. CASE h.state = "Installed" /\ h.obj # o
    <3>1. Shadows(o)' = Shadows(o)
      BY <1>1, <2>5 DEF Shadows
    <3>2. refs'[o] = refs[o]
      BY <1>2, <2>5 DEF RestoreHook
    <3> QED
      BY <2>1, <2>2, <3>1, <3>2
  <2> QED
    BY <2>3, <2>4, <2>5
<1> QED
  BY <1>3, RefsRestated

\* Every step keeps the references of a route in step with its shadows.
LEMMA NextRefs ==
    ASSUME Typing, RefsMatchShadows, [Next]_vars
    PROVE  RefsMatchShadows'
<1>1. ASSUME NEW t \in Threads, CallStep(t)
      PROVE  RefsMatchShadows'
  <2>1. UNCHANGED <<hooks, refs, attach>> /\ pc' = [pc EXCEPT ![t] = pc'[t]]
    BY <1>1, CallStepFrame DEF Typing
  <2>2. pc[t] # "push" /\ pc'[t] # "push"
    <3>1. t \in DOMAIN pc
      BY DEF Typing, TypeOK
    <3> QED
      BY <1>1, <3>1 DEF CallStep, StartCall, CallNative, CallForeign, CallDetour, LookUpRoute,
         CallCurrentMethod, Admitted, Refused, BeforeHandler, BeforeHandlerPanics, Return,
         AfterHandler, Answer, Goto
  <2> QED
    BY <2>1, <2>2, RefsUntouched
<1>2. ASSUME NEW t \in Threads, AttachStep(t), ~Install(t), ~PushHook(t)
      PROVE  RefsMatchShadows'
  <2>1. /\ pc' = [pc EXCEPT ![t] = pc'[t]]
        /\ attach' = [attach EXCEPT ![t] = attach'[t]]
        /\ attach \in [Threads -> AttachType] /\ t \in DOMAIN pc
    BY <1>2, AttachStepFrame DEF Typing, TypeOK
  <2>2. UNCHANGED <<hooks, refs>>
    BY <1>2 DEF AttachStep, BeginAttach, AttachReturned, ValidateAttachment,
       ExistingAttachment, CopyFrom, CopyFails, RegisterRoute, UnregisterRoute, managed
  <2>3. pc[t] # "push" /\ pc'[t] # "push"
    BY <1>2, <2>1 DEF AttachStep, BeginAttach, AttachReturned, ValidateAttachment,
       ExistingAttachment, CopyFrom, CopyFails, RegisterRoute, UnregisterRoute, AttachOver, Goto
  <2> QED
    BY <2>1, <2>2, <2>3, RefsUntouched
<1>3. CASE BeginClose \/ CloseGate \/ AllRestored \/ ReportDrained
  BY <1>3 DEF BeginClose, CloseGate, AllRestored, ReportDrained, OnlyShutdown, RefsMatchShadows
<1>4. CASE \E o \in Objects : ForeignInstall(o) \/ ForeignRemove(o)
  BY <1>4 DEF ForeignInstall, ForeignRemove, managed, RefsMatchShadows
<1>5. CASE UNCHANGED vars
  BY <1>5 DEF vars, managed, RefsMatchShadows
<1> QED
  BY <1>1, <1>2, <1>3, <1>4, <1>5, InstallRefs, PushHookRefs, RestoreHookRefs DEF Next, Shutdown

-----------------------------------------------------------------------------
\* A call finds its next table through one that its object already reaches.
LEMMA CallStepReachable ==
    ASSUME Typing, TablesStayWithObject, NEW t \in Threads, CallStep(t), NEW o \in Objects
    PROVE  Reachable(o)' \subseteq Reachable(o)
<1>1. /\ UNCHANGED <<vtable, tables, routes, hooks, attach>>
      /\ call' = [call EXCEPT ![t] = call'[t]] /\ t \in DOMAIN call
      /\ ThreadOK(t)
  BY CallStepFrame DEF Typing, TypeOK
<1>2. ASSUME NEW i \in 1..Len(tables), call'[t].obj = o, i \in {call'[t].at, call'[t].base}
      PROVE  i \in Reachable(o)
  <2>1. CASE call'[t].obj = call[t].obj /\ i \in {call[t].at, call[t].base}
    BY <1>2, <2>1 DEF Reachable
  <2>2. CASE i = vtable[o]
    BY <2>2 DEF Reachable
  <2>3. CASE o \in DOMAIN routes /\ i = routes[o]
    BY <2>3 DEF Reachable
  <2>4. ASSUME NEW x \in Objects, NEW m \in Methods, StartCall(t, x, m)
        PROVE  i = vtable[o]
    <3>1. call'[t] = [NoCall EXCEPT !.obj = x, !.method = m, !.at = vtable[x]]
      BY <1>1, <2>4 DEF StartCall, SetCall
    <3>2. call'[t] = [obj |-> x, method |-> m, at |-> vtable[x], base |-> 0, depth |-> 0,
                      guards |-> 0, forwards |-> 0]
      BY <3>1 DEF NoCall
    <3> QED
      BY <1>2, <3>2
  <2>5. CASE CallForeign(t)
    <3>1. /\ call'[t] = [call[t] EXCEPT !.at = tables[call[t].at].base]
          /\ call[t].at # 0
      BY <1>1, <2>5 DEF CallForeign, SetCall, SlotOf
    <3>2. /\ call'[t].at = tables[call[t].at].base /\ call'[t].base = call[t].base
          /\ call'[t].obj = call[t].obj /\ call[t].at \in 1..Len(tables)
      BY <1>1, <3>1 DEF ThreadOK, CallType
    <3>3. call[t].at \in Reachable(o)
      BY <1>2, <3>2 DEF Reachable
    <3>4. tables[call[t].at].of = o
      BY <3>3 DEF TablesStayWithObject
    <3>5. CASE i = call[t].base
      BY <1>2, <2>1, <3>2, <3>5
    <3>6. CASE i = tables[call[t].at].base
      BY <3>2, <3>4, <3>6 DEF Reachable
    <3> QED
      BY <1>2, <3>2, <3>5, <3>6
  <2>6. CASE CallNative(t) \/ CallDetour(t) \/ Admitted(t) \/ Return(t) \/ AfterHandler(t)
    <3>1. /\ call'[t].obj = call[t].obj /\ call'[t].at = call[t].at
          /\ call'[t].base = call[t].base
      BY <1>1, <2>6 DEF CallNative, CallDetour, Admitted, Return, AfterHandler, SetCall,
         ThreadOK, CallType
    <3> QED
      BY <1>2, <2>1, <3>1
  <2>7. CASE LookUpRoute(t)
    <3>1. \/ call'[t] = call[t]
          \/ /\ call[t].obj \in DOMAIN routes
             /\ call'[t] = [call[t] EXCEPT !.base = routes[call[t].obj]]
      BY <1>1, <2>7 DEF LookUpRoute, SetCall
    <3> QED
      BY <1>1, <1>2, <2>1, <2>3, <3>1 DEF ThreadOK, CallType
  <2>8. CASE CallCurrentMethod(t)
    <3>1. \/ call'[t] = call[t]
          \/ call'[t] = [call[t] EXCEPT !.at = vtable[call[t].obj]]
      BY <1>1, <2>8 DEF CallCurrentMethod, SetCall
    <3> QED
      BY <1>1, <1>2, <2>1, <2>2, <3>1 DEF ThreadOK, CallType
  <2>9. CASE Refused(t) \/ BeforeHandler(t) \/ BeforeHandlerPanics(t)
    <3>1. PICK guards :
             call'[t] = [call[t] EXCEPT !.at = call[t].base, !.base = 0, !.guards = guards]
      BY <1>1, <2>9 DEF Refused, BeforeHandler, BeforeHandlerPanics, CallOriginal, SetCall
    <3>2. call'[t].obj = call[t].obj /\ call'[t].at = call[t].base /\ call'[t].base = 0
      BY <1>1, <3>1 DEF ThreadOK, CallType
    <3> QED
      BY <1>2, <2>1, <3>2
  <2>10. CASE Answer(t)
    BY <1>1, <1>2, <2>10, NoneIsNoObject DEF Answer, SetCall, NoCall
  <2> QED
    BY <2>2, <2>4, <2>5, <2>6, <2>7, <2>8, <2>9, <2>10 DEF CallStep
<1>3. \A u \in Threads : u # t => call'[u] = call[u]
  BY <1>1 DEF Typing, TypeOK
<1> QED
  BY <1>1, <1>2, <1>3 DEF Reachable
\* No copied table changes, and none goes.
TablesGrow ==
    /\ Len(tables) \in Nat /\ Len(tables') \in Nat /\ Len(tables) <= Len(tables')
    /\ \A i \in 1..Len(tables) : tables'[i] = tables[i]

\* The end of an attachment takes no table up.
LEMMA AttachOverReachable ==
    ASSUME Typing, NEW t \in Threads, pc[t] \in AttachPcs, AttachOver(t),
           UNCHANGED <<vtable, tables, hooks>>, NEW o \in Objects,
           o \in DOMAIN routes' => o \in DOMAIN routes /\ routes'[o] = routes[o]
    PROVE  Reachable(o)' \subseteq Reachable(o)
<1>1. /\ attach'[t] = NoAttach
      /\ call'[t] = IF InCall(t) THEN [call[t] EXCEPT !.guards = @ - 1] ELSE NoCall
  BY AttachOverOK
<1>2. /\ call[t] \in CallType
      /\ \A u \in Threads : u # t => call'[u] = call[u] /\ attach'[u] = attach[u]
  BY DEF Typing, TypeOK, AttachOver
<1>3. attach'[t].obj # o
  BY <1>1, NoneIsNoObject DEF NoAttach
<1>4. call'[t].obj = o => call'[t].at = call[t].at /\ call'[t].base = call[t].base
                          /\ call[t].obj = o
  BY <1>1, <1>2, NoneIsNoObject DEF NoCall, CallType
<1> QED
  BY <1>2, <1>3, <1>4 DEF Reachable

\* A copy of a published table leads where the object led before.
LEMMA CopyReachable ==
    ASSUME Typing, NEW x \in Objects, NEW who \in {"detour", "foreign"},
           Len(tables) < MaxTables,
           tables' = Append(tables, [by |-> who, of |-> x, base |-> vtable[x]]),
           UNCHANGED <<routes, hooks, call>>,
           NEW o \in Objects, NEW i \in Reachable(o)',
           vtable'[o] = i => vtable[o] = i \/ i = Len(tables) + 1,
           \A u \in Threads : attach'[u].obj = o /\ attach'[u].base = i =>
              attach'[u] = attach[u] \/ vtable[o] = i
    PROVE  i \in Reachable(o) \/ vtable'[o] = i
<1>1. /\ Len(tables) \in Nat /\ Len(tables') = Len(tables) + 1
      /\ \A j \in 1..Len(tables) : tables'[j] = tables[j]
      /\ tables'[Len(tables) + 1] = [by |-> who, of |-> x, base |-> vtable[x]]
  BY AppendedTable
<1>2. i \in 1..Len(tables')
  BY DEF Reachable
<1>3. ASSUME vtable[o] = i PROVE i \in Reachable(o)
  BY <1>1, <1>2, <1>3 DEF Reachable, Typing, TypeOK
<1>4. ASSUME NEW j \in 1..Len(tables'), tables'[j].of = o, tables'[j].base = i
      PROVE  i \in Reachable(o)
  <2>1. CASE j \in 1..Len(tables)
    <3>1. tables[j].of = o /\ tables[j].base = i
      BY <1>1, <1>4, <2>1
    <3>2. i \in 1..Len(tables)
      BY <1>1, <1>2, <2>1, <3>1 DEF Typing, TablesOK
    <3> QED
      BY <2>1, <3>1, <3>2 DEF Reachable
  <2>2. CASE j = Len(tables) + 1
    BY <1>1, <1>3, <1>4, <2>2
  <2> QED
    BY <1>1, <2>1, <2>2
<1>5. ASSUME NEW u \in Threads, call[u].obj = o, i \in {call[u].at, call[u].base}
      PROVE  i \in Reachable(o)
  <2>1. call[u].at \in 0..Len(tables) /\ call[u].base \in 0..Len(tables)
    BY <1>1 DEF Typing, ThreadOK, CallType
  <2> QED
    BY <1>1, <1>2, <1>5, <2>1 DEF Reachable
<1>6. ASSUME NEW u \in Threads, attach'[u].obj = o, attach'[u].base = i
      PROVE  i \in Reachable(o)
  <2>1. CASE attach'[u] = attach[u]
    <3>1. attach[u].base \in 0..Len(tables)
      BY <1>1 DEF Typing, ThreadOK, AttachType
    <3> QED
      BY <1>1, <1>2, <1>6, <2>1, <3>1 DEF Reachable
  <2> QED
    BY <1>3, <1>6, <2>1
<1>7. CASE o \in DOMAIN routes /\ routes[o] = i
  BY <1>1, <1>2, <1>7 DEF Reachable, Typing, TypeOK
<1>8. ASSUME NEW h \in 1..Len(hooks), hooks[h].obj = o, hooks[h].base = i
      PROVE  i \in Reachable(o)
  <2>1. hooks[h].base <= Len(tables)
    BY DEF Typing, TablesOK
  <2> QED
    BY <1>1, <1>2, <1>8, <2>1 DEF Reachable
<1> QED
  BY <1>4, <1>5, <1>6, <1>7, <1>8 DEF Reachable

\* Only publishing its copy adds a table to those an attachment reaches.
LEMMA AttachStepReachable ==
    ASSUME Typing, NEW t \in Threads, AttachStep(t), NEW o \in Objects
    PROVE  /\ TablesGrow
           /\ \A i \in Reachable(o)' :
                 \/ i \in Reachable(o)
                 \/ Install(t) /\ pc'[t] = "push" /\ attach[t].obj = o /\ attach[t].table = i
<1> DEFINE Kept == Reachable(o)' \subseteq Reachable(o)
<1>1. /\ ThreadOK(t) /\ t \in DOMAIN pc /\ t \in DOMAIN call /\ t \in DOMAIN attach
      /\ Len(tables) \in Nat /\ tables \in Seq(TableType)
  BY DEF Typing, TypeOK
<1>2. \A u \in Threads : u # t => call'[u] = call[u] /\ attach'[u] = attach[u]
  BY AttachStepFrame DEF Typing, TypeOK
<1>3. UNCHANGED tables => TablesGrow
  BY <1>1 DEF TablesGrow
<1>4. ASSUME NEW x \in Objects, BeginAttach(t, x) \/ AttachReturned(t, x)
      PROVE  TablesGrow /\ Kept
  <2>1. /\ UNCHANGED <<vtable, tables, routes, hooks>>
        /\ call'[t] = call[t] /\ attach[t] = NoAttach
        /\ attach'[t] = [attach[t] EXCEPT !.obj = x]
    BY <1>1, <1>4 DEF BeginAttach, AttachReturned, native, managed, Goto, ThreadOK, Placed,
       AttachPcs
  <2>2. attach'[t].base = 0
    BY <2>1 DEF NoAttach
  <2>3. \A u \in Threads : \A i \in 1..Len(tables) :
           attach'[u].base = i => attach'[u] = attach[u]
    BY <1>2, <2>2
  <2>4. \A u \in Threads : call'[u] = call[u]
    BY <1>2, <2>1
  <2> QED
    BY <1>3, <2>1, <2>3, <2>4 DEF Reachable
<1>5. CASE ValidateAttachment(t) \/ ExistingAttachment(t) \/ CopyFails(t)
  <2>1. UNCHANGED <<vtable, tables, routes, hooks>>
    BY <1>5 DEF ValidateAttachment, ExistingAttachment, CopyFails, native, managed
  <2>2. CASE AttachOver(t)
    <3>1. pc[t] \in AttachPcs
      BY <1>5 DEF ValidateAttachment, ExistingAttachment, CopyFails, AttachPcs
    <3> QED
      BY <1>3, <2>1, <2>2, <3>1, AttachOverReachable
  <2>3. CASE ~AttachOver(t)
    <3>1. call'[t] = call[t] /\ attach'[t] = attach[t]
      BY <1>1, <1>5, <2>3 DEF ValidateAttachment, ExistingAttachment, CopyFails
    <3> QED
      BY <1>2, <1>3, <2>1, <3>1 DEF Reachable
  <2> QED
    BY <2>2, <2>3
<1>6. CASE CopyFrom(t)
  <2> DEFINE x == attach[t].obj
  <2>1. x \in Objects
    BY <1>1, <1>6 DEF CopyFrom, Goto, ThreadOK, Placed, AttachPcs
  <2>2. /\ Len(tables') = Len(tables) + 1
        /\ vtable[x] \in 0..Len(tables)
        /\ \A i \in 1..Len(tables) : tables'[i] = tables[i]
        /\ tables'[Len(tables) + 1] = [by |-> "detour", of |-> x, base |-> vtable[x]]
    BY <1>6, <2>1, AppendedTable DEF CopyFrom
  <2>3. /\ UNCHANGED <<vtable, routes, hooks>> /\ call'[t] = call[t]
        /\ attach'[t] = [attach[t] EXCEPT !.base = vtable[x], !.table = Len(tables) + 1]
    BY <1>1, <1>6 DEF CopyFrom, managed
  <2>4. attach'[t].obj = x /\ attach'[t].base = vtable[x]
    BY <1>1, <2>3 DEF ThreadOK, AttachType
  <2>5. TablesGrow
    BY <1>1, <2>2 DEF TablesGrow
  <2>6. ASSUME NEW i \in Reachable(o)' PROVE i \in Reachable(o)
    <3>1. \A u \in Threads : attach'[u].obj = o /\ attach'[u].base = i =>
             attach'[u] = attach[u] \/ vtable[o] = i
      BY <1>2, <2>4
    <3>2. i \in Reachable(o) \/ vtable[o] = i
      BY <1>6, <2>1, <2>3, <3>1, CopyReachable DEF CopyFrom, managed
    <3>3. vtable[o] \in 0..Len(tables) /\ i \in 1..Len(tables')
      BY DEF Reachable, Typing, TypeOK
    <3> QED
      BY <1>1, <2>2, <3>2, <3>3 DEF Reachable
  <2> QED
    BY <2>5, <2>6
<1>7. CASE RegisterRoute(t)
  <2> DEFINE x == attach[t].obj
  <2>1. /\ UNCHANGED <<vtable, tables, hooks>> /\ call'[t] = call[t] /\ attach'[t] = attach[t]
    BY <1>1, <1>7 DEF RegisterRoute, native
  <2>2. o \in DOMAIN routes' => \/ o \in DOMAIN routes /\ routes'[o] = routes[o]
                                \/ attach[t].obj = o /\ routes'[o] = attach[t].base
    BY <1>7 DEF RegisterRoute
  <2> QED
    BY <1>2, <1>3, <2>1, <2>2 DEF Reachable
<1>8. CASE Install(t)
  <2>1. /\ UNCHANGED <<tables, routes, hooks>> /\ call'[t] = call[t] /\ attach'[t] = attach[t]
    BY <1>1, <1>8 DEF Install
  <2>2. \/ vtable'[o] = vtable[o]
        \/ attach[t].obj = o /\ vtable'[o] = attach[t].table /\ pc'[t] = "push"
    BY <1>1, <1>8 DEF Install, Goto, Typing, TypeOK
  <2> QED
    BY <1>2, <1>3, <1>8, <2>1, <2>2 DEF Reachable
<1>9. CASE UnregisterRoute(t)
  <2>1. UNCHANGED <<vtable, tables, hooks>> /\ AttachOver(t) /\ pc[t] \in AttachPcs
    BY <1>9 DEF UnregisterRoute, native, AttachPcs
  <2>2. o \in DOMAIN routes' => o \in DOMAIN routes /\ routes'[o] = routes[o]
    BY <1>9 DEF UnregisterRoute
  <2> QED
    BY <1>3, <2>1, <2>2, AttachOverReachable
<1>10. CASE PushHook(t)
  <2> DEFINE a == attach[t]
             h == [obj |-> a.obj, base |-> a.base, table |-> a.table, state |-> "Installed"]
  <2>1. UNCHANGED <<vtable, tables, routes>> /\ pc[t] \in AttachPcs /\ hooks' = Append(hooks, h)
    BY <1>10 DEF PushHook, native, AttachPcs
  <2>2. /\ Len(hooks) \in Nat /\ Len(hooks') = Len(hooks) + 1
        /\ \A i \in 1..Len(hooks) : hooks'[i] = hooks[i]
        /\ hooks'[Len(hooks) + 1] = h
    BY <2>1 DEF Typing, TypeOK
  <2>3. /\ attach'[t].base = 0
        /\ call'[t].obj = o => /\ call'[t].at = call[t].at /\ call'[t].base = call[t].base
                               /\ call[t].obj = o
    <3>1. CASE AttachOver(t)
      <4>1. /\ attach'[t] = NoAttach
            /\ call'[t] = IF InCall(t) THEN [call[t] EXCEPT !.guards = @ - 1] ELSE NoCall
        BY <2>1, <3>1, AttachOverOK
      <4> QED
        BY <1>1, <4>1, NoneIsNoObject DEF NoAttach, NoCall, ThreadOK, CallType
    <3>2. CASE ~AttachOver(t)
      <4>1. call'[t] = call[t] /\ attach'[t] = [NoAttach EXCEPT !.obj = Highest[a.obj]]
        BY <1>1, <1>10, <3>2 DEF PushHook
      <4> QED
        BY <4>1 DEF NoAttach
    <3> QED
      BY <3>1, <3>2
  <2>4. ASSUME NEW i \in 1..Len(tables), NEW k \in 1..Len(hooks'),
               hooks'[k].obj = o, hooks'[k].base = i
        PROVE  i \in Reachable(o)
    <3>1. CASE k \in 1..Len(hooks)
      BY <2>2, <2>4, <3>1 DEF Reachable
    <3>2. CASE k = Len(hooks) + 1
      BY <2>2, <2>4, <3>2 DEF Reachable
    <3> QED
      BY <2>2, <3>1, <3>2
  <2> QED
    BY <1>2, <1>3, <2>1, <2>3, <2>4 DEF Reachable
<1> QED
  BY <1>4, <1>5, <1>6, <1>7, <1>8, <1>9, <1>10 DEF AttachStep

\* close_and_drain only puts back tables that were already reachable.
LEMMA ShutdownReachable ==
    ASSUME Typing, Shutdown, NEW o \in Objects
    PROVE  TablesGrow /\ Reachable(o)' \subseteq Reachable(o)
<1>1. UNCHANGED <<tables, routes, call, attach>>
  BY DEF Shutdown, BeginClose, CloseGate, RestoreHook, AllRestored, ReportDrained, OnlyShutdown
<1>2. Len(tables) \in Nat
  BY DEF Typing, TypeOK
<1>3. CASE BeginClose \/ CloseGate \/ AllRestored \/ ReportDrained
  <2>1. UNCHANGED <<vtable, hooks>>
    BY <1>3 DEF BeginClose, CloseGate, AllRestored, ReportDrained
  <2> QED
    BY <1>1, <1>2, <2>1 DEF TablesGrow, Reachable
<1>4. CASE RestoreHook
  <2> DEFINE h == hooks[cursor]
  <2>1. /\ cursor \in 1..Len(hooks) /\ Len(hooks') = Len(hooks)
        /\ \A i \in 1..Len(hooks) : /\ hooks'[i].obj = hooks[i].obj
                                    /\ hooks'[i].base = hooks[i].base
    BY <1>4, RestoreHookSteps
  <2>2. vtable'[o] = vtable[o] \/ (h.obj = o /\ vtable'[o] = h.base)
    BY <1>4 DEF RestoreHook, Typing, TypeOK
  <2>3. TablesGrow
    BY <1>1, <1>2 DEF TablesGrow
  <2> HIDE DEF h
  <2>4. ASSUME NEW i \in Reachable(o)'
        PROVE  i \in Reachable(o)
    <3>1. CASE vtable'[o] = i
      <4>1. h.obj = o /\ h.base = i => \E k \in 1..Len(hooks) : hooks[k].obj = o /\ hooks[k].base = i
        BY <2>1 DEF h
      <4> QED
        BY <1>1, <2>2, <2>4, <3>1, <4>1 DEF Reachable
    <3>2. CASE vtable'[o] # i
      BY <1>1, <2>1, <2>4, <3>2 DEF Reachable
    <3> QED
      BY <3>1, <3>2
  <2> QED
    BY <2>3, <2>4
<1> QED
  BY <1>3, <1>4 DEF Shutdown

\* Another hooker's table is the newest, and the object's.
LEMMA ForeignReachable ==
    ASSUME Typing, TablesStayWithObject, NEW x \in Objects,
           ForeignInstall(x) \/ ForeignRemove(x), NEW o \in Objects
    PROVE  /\ TablesGrow
           /\ \A i \in Reachable(o)' :
                 \/ i \in Reachable(o)
                 \/ tables'[i].of = o /\ tables'[i].by = "foreign"
<1>1. /\ UNCHANGED <<routes, hooks, call, attach>>
      /\ Len(tables) \in Nat /\ vtable \in [Objects -> 0..Len(tables)]
  BY DEF ForeignInstall, ForeignRemove, managed, Typing, TypeOK
<1>2. CASE ForeignInstall(x)
  <2>1. /\ Len(tables) < MaxTables
        /\ tables' = Append(tables, [by |-> "foreign", of |-> x, base |-> vtable[x]])
        /\ vtable' = [vtable EXCEPT ![x] = Len(tables) + 1]
    BY <1>2 DEF ForeignInstall
  <2>2. /\ Len(tables') = Len(tables) + 1
        /\ \A i \in 1..Len(tables) : tables'[i] = tables[i]
        /\ tables'[Len(tables) + 1] = [by |-> "foreign", of |-> x, base |-> vtable[x]]
    BY <2>1, AppendedTable
  <2>3. ASSUME NEW i \in Reachable(o)'
        PROVE  i \in Reachable(o) \/ (tables'[i].of = o /\ tables'[i].by = "foreign")
    <3>1. vtable'[o] = i => vtable[o] = i \/ (o = x /\ i = Len(tables) + 1)
      BY <1>1, <2>1
    <3>2. i \in Reachable(o) \/ vtable'[o] = i
      BY <1>1, <2>1, <3>1, CopyReachable
    <3>3. CASE o = x /\ i = Len(tables) + 1
      BY <2>2, <3>3
    <3>4. CASE vtable[o] = i
      <4>1. i \in 1..Len(tables')
        BY DEF Reachable
      <4> QED
        BY <1>1, <3>4, <4>1 DEF Reachable
    <3> QED
      BY <3>1, <3>2, <3>3, <3>4
  <2>4. TablesGrow
    BY <1>1, <2>2 DEF TablesGrow
  <2> QED
    BY <2>3, <2>4
<1>3. CASE ForeignRemove(x)
  <2>1. /\ UNCHANGED tables /\ vtable[x] \in 1..Len(tables)
        /\ vtable' = [vtable EXCEPT ![x] = tables[vtable[x]].base]
    BY <1>3 DEF ForeignRemove, ForeignTables
  <2>2. tables[vtable[x]].of = x
    <3>1. vtable[x] \in Reachable(x)
      BY <2>1 DEF Reachable
    <3> QED
      BY <3>1 DEF TablesStayWithObject
  <2>3. vtable'[o] = vtable[o] \/ (o = x /\ vtable'[o] = tables[vtable[x]].base)
    BY <1>1, <2>1
  <2>4. Reachable(o)' \subseteq Reachable(o)
    BY <1>1, <2>1, <2>2, <2>3 DEF Reachable
  <2> QED
    BY <1>1, <2>1, <2>4 DEF TablesGrow
<1> QED
  BY <1>2, <1>3

\* Every step: what an object reaches anew is its own copy, or another hooker's.
LEMMA NextReachable ==
    ASSUME Typing, TablesStayWithObject, [Next]_vars, NEW o \in Objects
    PROVE  /\ TablesGrow
           /\ \A i \in Reachable(o)' :
                 \/ i \in Reachable(o)
                 \/ \E t \in Threads : /\ Install(t) /\ pc'[t] = "push"
                                       /\ attach[t].obj = o /\ attach[t].table = i
                 \/ tables'[i].of = o /\ tables'[i].by = "foreign"
<1>1. ASSUME NEW t \in Threads, CallStep(t)
      PROVE  TablesGrow /\ Reachable(o)' \subseteq Reachable(o)
  <2>1. UNCHANGED tables /\ Len(tables) \in Nat
    BY <1>1, CallStepFrame DEF Typing, TypeOK
  <2> QED
    BY <1>1, <2>1, CallStepReachable DEF TablesGrow
<1>2. CASE UNCHANGED vars
  <2>1. Len(tables) \in Nat
    BY DEF Typing, TypeOK
  <2> QED
    BY <1>2, <2>1 DEF vars, native, managed, TablesGrow, Reachable
<1> QED
  BY <1>1, <1>2, AttachStepReachable, ShutdownReachable, ForeignReachable DEF Next

\* Every step leaves each table with the object it was copied for.
LEMMA NextTablesStay ==
    ASSUME Typing, TablesStayWithObject, OwnCopies, [Next]_vars
    PROVE  TablesStayWithObject'
<1> SUFFICES ASSUME NEW o \in Objects, NEW i \in Reachable(o)'
             PROVE  tables'[i].of = o
  BY DEF TablesStayWithObject
<1>1. TablesGrow
  BY NextReachable
<1>2. CASE i \in Reachable(o)
  <2>1. tables[i].of = o /\ i \in 1..Len(tables)
    BY <1>2 DEF TablesStayWithObject, Reachable
  <2> QED
    BY <1>1, <2>1 DEF TablesGrow
<1>3. ASSUME NEW t \in Threads, Install(t), attach[t].obj = o, attach[t].table = i
      PROVE  tables'[i].of = o
  <2>1. pc[t] = "install" /\ UNCHANGED tables
    BY <1>3 DEF Install
  <2> QED
    BY <1>3, <2>1 DEF OwnCopies, OwnCopy
<1> QED
  BY <1>2, <1>3, NextReachable

\* A copy that is not yet published stays its attachment's own.
LEMMA NextOwnCopies ==
    ASSUME Typing, RefsMatchShadows, TablesStayWithObject, OwnCopies, [Next]_vars
    PROVE  OwnCopies'
<1> SUFFICES ASSUME NEW u \in Threads, pc'[u] \in {"register", "install"}
             PROVE  /\ attach'[u].table \in 1..Len(tables')
                    /\ attach'[u].base < attach'[u].table
                    /\ tables'[attach'[u].table].of = attach'[u].obj
  BY DEF OwnCopies, OwnCopy
<1>1. TablesGrow
  <2>1. attach'[u].obj \in Objects
    BY NextTyping DEF Typing, ThreadOK, Placed, AttachPcs
  <2> QED
    BY <2>1, NextReachable
<1>2. CASE attach'[u] = attach[u] /\ pc[u] \in {"register", "install"}
  BY <1>1, <1>2 DEF TablesGrow, OwnCopies, OwnCopy
<1>3. CASE \E t \in Threads : CallStep(t)
  <2>1. PICK t \in Threads : CallStep(t)
    BY <1>3
  <2>2. UNCHANGED attach /\ pc' = [pc EXCEPT ![t] = pc'[t]] /\ t \in DOMAIN pc /\ u \in DOMAIN pc
    BY <2>1, CallStepFrame DEF Typing, TypeOK
  <2>3. pc'[t] \notin {"register", "install"}
    BY <2>1, <2>2 DEF CallStep, StartCall, CallNative, CallForeign, CallDetour, LookUpRoute,
       CallCurrentMethod, Admitted, Refused, BeforeHandler, BeforeHandlerPanics, Return,
       AfterHandler, Answer, Goto
  <2> QED
    BY <1>2, <2>2, <2>3
<1>4. CASE \E t \in Threads : AttachStep(t)
  <2>1. PICK t \in Threads : AttachStep(t)
    BY <1>4
  <2>2. /\ \A w \in Threads : w # t => pc'[w] = pc[w] /\ attach'[w] = attach[w]
        /\ t \in DOMAIN pc /\ t \in DOMAIN attach /\ attach[t] \in AttachType
    BY <2>1, AttachStepFrame DEF Typing, TypeOK
  <2>3. CASE u # t
    BY <1>2, <2>2, <2>3
  <2>4. CASE u = t /\ CopyFrom(t)
    <3>1. attach[t].obj \in Objects
      BY <2>4 DEF CopyFrom, Goto, Typing, ThreadOK, Placed, AttachPcs
    <3>2. /\ Len(tables) \in Nat /\ Len(tables') = Len(tables) + 1
          /\ vtable[attach[t].obj] \in 0..Len(tables)
          /\ tables'[Len(tables) + 1] =
                [by |-> "detour", of |-> attach[t].obj, base |-> vtable[attach[t].obj]]
      BY <2>4, <3>1, AppendedTable DEF CopyFrom
    <3>3. attach'[t] = [attach[t] EXCEPT !.base = vtable[attach[t].obj],
                                         !.table = Len(tables) + 1]
      BY <2>2, <2>4 DEF CopyFrom
    <3>4. attach'[t] = [obj |-> attach[t].obj, base |-> vtable[attach[t].obj],
                        table |-> Len(tables) + 1]
      BY <2>2, <3>3 DEF AttachType
    <3> QED
      BY <2>4, <3>2, <3>4
  <2>5. CASE u = t /\ RegisterRoute(t)
    BY <1>2, <2>5 DEF RegisterRoute, Goto
  <2>6. CASE u = t /\ ~CopyFrom(t) /\ ~RegisterRoute(t)
    BY <2>1, <2>2, <2>6 DEF AttachStep, BeginAttach, AttachReturned, ValidateAttachment,
       ExistingAttachment, CopyFails, Install, UnregisterRoute, PushHook, AttachOver, Goto
  <2> QED
    BY <2>3, <2>4, <2>5, <2>6
<1>5. CASE Shutdown \/ \E o \in Objects : ForeignInstall(o) \/ ForeignRemove(o)
  BY <1>2, <1>5 DEF Shutdown, BeginClose, CloseGate, RestoreHook, AllRestored, ReportDrained,
     OnlyShutdown, ForeignInstall, ForeignRemove
<1>6. CASE UNCHANGED vars
  BY <1>2, <1>6 DEF vars
<1> QED
  BY <1>3, <1>4, <1>5, <1>6 DEF Next

-----------------------------------------------------------------------------
\* What no step changes for an object but the four that attach it.
LEMMA OnceAttachedFrame ==
    ASSUME Typing, NEW o \in Objects, Exclusive(o), Routed(o), TablesGrow,
           o \in DOMAIN routes' <=> o \in DOMAIN routes,
           o \in DOMAIN routes => routes'[o] = routes[o],
           \A u \in Threads : Attaches(u, o, Unpublished \cup {"push"})' =>
              pc'[u] = pc[u] /\ attach'[u] = attach[u],
           \A i \in Reachable(o)' : i \in Reachable(o) \/ tables'[i].by = "foreign"
    PROVE  Exclusive(o)' /\ Routed(o)'
<1>1. Exclusive(o)'
  BY DEF Exclusive, Attaches, Unpublished
<1>2. ASSUME NEW i \in Reachable(o)', tables'[i].by = "detour"
      PROVE  /\ o \in DOMAIN routes' /\ routes'[o] < i
             /\ \A u \in Threads : ~Attaches(u, o, Unpublished)'
  <2>1. i \in Reachable(o) /\ i \in 1..Len(tables)
    BY <1>2 DEF Reachable
  <2>2. tables[i].by = "detour"
    BY <1>2, <2>1 DEF TablesGrow
  <2>3. /\ o \in DOMAIN routes /\ routes[o] < i
        /\ \A u \in Threads : ~Attaches(u, o, Unpublished)
    BY <2>1, <2>2 DEF Routed
  <2> QED
    BY <2>3 DEF Attaches
<1> QED
  BY <1>1, <1>2 DEF Routed

\* The four steps of the one attachment of an object that is attached once.
LEMMA AttachStepOnce ==
    ASSUME Typing, TablesStayWithObject, OwnCopies, NEW t \in Threads, AttachStep(t),
           NEW o \in Objects, o \notin attached_again', attach[t].obj = o,
           Exclusive(o), Routed(o),
           CopyFrom(t) \/ RegisterRoute(t) \/ Install(t) \/ UnregisterRoute(t)
    PROVE  Exclusive(o)' /\ Routed(o)'
<1>1. /\ \A u \in Threads : u # t => pc'[u] = pc[u] /\ attach'[u] = attach[u]
      /\ t \in DOMAIN pc /\ t \in DOMAIN attach /\ attach[t] \in AttachType
  BY AttachStepFrame DEF Typing, TypeOK
<1>2. TablesGrow
  BY AttachStepReachable
<1>3. CASE CopyFrom(t)
  <2>1. ~BeingAttached(o) /\ UNCHANGED routes
    BY <1>3 DEF CopyFrom, managed
  <2>2. /\ pc'[t] = "register" /\ o \notin DOMAIN routes'
        /\ \A u \in Threads : u # t => ~Attaches(u, o, Unpublished \cup {"push"})'
    BY <1>1, <1>3, <2>1 DEF CopyFrom, BeingAttached, Goto, Attaches, Unpublished
  <2>3. Exclusive(o)'
    BY <2>2 DEF Exclusive, Attaches, Unpublished
  <2>4. ASSUME NEW i \in Reachable(o)' PROVE tables'[i].by # "detour"
    <3>1. i \in Reachable(o) /\ i \in 1..Len(tables)
      <4>1. ~Install(t)
        BY <1>3 DEF Install, CopyFrom, Goto
      <4>2. i \in Reachable(o)
        BY <4>1, AttachStepReachable
      <4> QED
        BY <4>2 DEF Reachable
    <3>2. tables[i].by # "detour"
      BY <2>1, <3>1 DEF Routed, BeingAttached
    <3> QED
      BY <1>2, <3>1, <3>2 DEF TablesGrow
  <2> QED
    BY <2>3, <2>4 DEF Routed
<1>4. ASSUME pc[t] \in Unpublished
      PROVE  /\ \A u \in Threads : u # t => ~Attaches(u, o, Unpublished \cup {"push"})
             /\ \A i \in Reachable(o) : tables[i].by # "detour"
  BY <1>4 DEF Exclusive, Routed, Attaches, Unpublished
<1>5. ASSUME pc[t] \in Unpublished, UNCHANGED tables, NEW i \in Reachable(o)',
             ~(Install(t) /\ pc'[t] = "push" /\ attach[t].table = i)
      PROVE  tables'[i].by # "detour"
  BY <1>4, <1>5, AttachStepReachable
<1>6. CASE RegisterRoute(t)
  <2>1. /\ pc[t] = "register" /\ pc'[t] = "install" /\ UNCHANGED <<tables, attach>>
        /\ o \in DOMAIN routes'
    BY <1>1, <1>6 DEF RegisterRoute, Goto, native
  <2>2. routes'[o] = attach[t].base
    <3>1. o \notin DOMAIN routes
      BY <2>1 DEF Exclusive, Attaches
    <3> QED
      BY <1>6, <3>1 DEF RegisterRoute
  <2>3. \A u \in Threads : u # t => ~Attaches(u, o, Unpublished \cup {"push"})'
    BY <1>1, <1>4, <2>1 DEF Attaches, Unpublished
  <2>4. Exclusive(o)'
    BY <2>1, <2>2, <2>3 DEF Exclusive, Attaches, Unpublished
  <2>5. \A i \in Reachable(o)' : tables'[i].by # "detour"
    BY <1>5, <2>1 DEF Unpublished, Install
  <2> QED
    BY <2>4, <2>5 DEF Routed
<1>7. CASE Install(t)
  <2>1. /\ pc[t] = "install" /\ pc'[t] \in {"push", "unregister"}
        /\ UNCHANGED <<tables, attach, routes>>
    BY <1>1, <1>7 DEF Install, Goto
  <2>2. o \in DOMAIN routes' /\ routes'[o] = attach[t].base
    BY <2>1 DEF Exclusive, Attaches
  <2>3. \A u \in Threads : u # t => ~Attaches(u, o, Unpublished \cup {"push"})'
    BY <1>1, <1>4, <2>1 DEF Attaches, Unpublished
  <2>4. Exclusive(o)'
    BY <2>1, <2>2, <2>3 DEF Exclusive, Attaches, Unpublished
  <2>5. ASSUME NEW i \in Reachable(o)', tables'[i].by = "detour"
        PROVE  routes'[o] < i /\ pc'[t] = "push"
    <3>1. pc'[t] = "push" /\ attach[t].table = i
      BY <1>5, <2>1, <2>5 DEF Unpublished
    <3>2. attach[t].base < attach[t].table
      BY <2>1 DEF OwnCopies, OwnCopy
    <3> QED
      BY <2>2, <3>1, <3>2
  <2> QED
    BY <2>2, <2>3, <2>4, <2>5 DEF Routed, Attaches, Unpublished
<1>8. CASE UnregisterRoute(t)
  <2>1. pc[t] = "unregister" /\ UNCHANGED tables /\ pc'[t] \in {"returned", "idle"}
    BY <1>1, <1>8 DEF UnregisterRoute, AttachOver, native
  <2>2. \A u \in Threads : ~Attaches(u, o, Unpublished \cup {"push"})'
    BY <1>1, <1>4, <2>1 DEF Attaches, Unpublished
  <2>3. Exclusive(o)'
    BY <2>2 DEF Exclusive, Attaches, Unpublished
  <2>4. \A i \in Reachable(o)' : tables'[i].by # "detour"
    BY <1>5, <2>1 DEF Unpublished, Install
  <2> QED
    BY <2>3, <2>4 DEF Routed
<1> QED
  BY <1>3, <1>6, <1>7, <1>8

\* An object that is attached once is attached by one thread, and its route is there.
LEMMA NextOnce ==
    ASSUME Typing, TablesStayWithObject, OwnCopies, OnceAttached, [Next]_vars,
           NEW o \in Objects, o \notin attached_again'
    PROVE  o \notin attached_again /\ Exclusive(o)' /\ Routed(o)'
<1> DEFINE Quiet == \A u \in Threads : Attaches(u, o, Unpublished \cup {"push"})' =>
                       pc'[u] = pc[u] /\ attach'[u] = attach[u]
<1>1. TablesGrow
  BY NextReachable
<1>2. ASSUME NEW t \in Threads, CallStep(t)
      PROVE  /\ UNCHANGED <<routes, attached_again>> /\ Quiet
             /\ Reachable(o)' \subseteq Reachable(o)
  <2>1. /\ UNCHANGED <<routes, attach, attached_again>> /\ pc' = [pc EXCEPT ![t] = pc'[t]]
        /\ pc \in [Threads -> {"idle", "done", "failed"} \cup CallPcs \cup AttachPcs]
    BY <1>2, CallStepFrame DEF Typing, TypeOK
  <2>2. pc'[t] \notin Unpublished \cup {"push"}
    BY <1>2, <2>1 DEF CallStep, StartCall, CallNative, CallForeign, CallDetour, LookUpRoute,
       CallCurrentMethod, Admitted, Refused, BeforeHandler, BeforeHandlerPanics, Return,
       AfterHandler, Answer, Goto, Unpublished
  <2> QED
    BY <1>2, <2>1, <2>2, CallStepReachable DEF Attaches
<1>3. ASSUME NEW t \in Threads, AttachStep(t)
      PROVE  /\ o \notin attached_again
             /\ \/ /\ attach[t].obj = o
                   /\ CopyFrom(t) \/ RegisterRoute(t) \/ Install(t) \/ UnregisterRoute(t)
                \/ /\ Quiet /\ Reachable(o)' \subseteq Reachable(o)
                   /\ o \in DOMAIN routes' <=> o \in DOMAIN routes
                   /\ o \in DOMAIN routes => routes'[o] = routes[o]
  <2>1. /\ \A u \in Threads : u # t => pc'[u] = pc[u] /\ attach'[u] = attach[u]
        /\ t \in DOMAIN pc /\ t \in DOMAIN attach /\ attach[t] \in AttachType
    BY <1>3, AttachStepFrame DEF Typing, TypeOK
  <2>2. CASE CopyFrom(t) \/ RegisterRoute(t) \/ Install(t) \/ UnregisterRoute(t)
    <3>1. o \notin attached_again
      BY <2>2 DEF CopyFrom, RegisterRoute, Install, UnregisterRoute
    <3>2. ASSUME attach[t].obj # o PROVE Quiet
      <4>1. pc'[t] \in Unpublished \cup {"push"} => attach'[t].obj = attach[t].obj
        BY <2>1, <2>2 DEF CopyFrom, RegisterRoute, Install, UnregisterRoute, AttachOver,
           Unpublished, AttachType
      <4> QED
        BY <2>1, <3>2, <4>1 DEF Attaches
    <3>3. ASSUME attach[t].obj # o
          PROVE  /\ o \in DOMAIN routes' <=> o \in DOMAIN routes
                 /\ o \in DOMAIN routes => routes'[o] = routes[o]
      BY <2>2, <3>3 DEF CopyFrom, RegisterRoute, Install, UnregisterRoute, managed
    <3> QED
      BY <1>3, <2>2, <3>1, <3>2, <3>3, AttachStepReachable
  <2>3. CASE ~(CopyFrom(t) \/ RegisterRoute(t) \/ Install(t) \/ UnregisterRoute(t))
    <3>1. UNCHANGED <<routes, attached_again>>
      BY <1>3, <2>3 DEF AttachStep, BeginAttach, AttachReturned, ValidateAttachment,
         ExistingAttachment, CopyFails, PushHook, managed
    <3>2. pc'[t] \notin Unpublished \cup {"push"}
      BY <1>3, <2>1, <2>3 DEF AttachStep, BeginAttach, AttachReturned, ValidateAttachment,
         ExistingAttachment, CopyFails, PushHook, AttachOver, Goto, Unpublished
    <3> QED
      BY <1>3, <2>1, <2>3, <3>1, <3>2, AttachStepReachable DEF Attaches
  <2> QED
    BY <2>2, <2>3
<1>4. CASE Shutdown \/ \E x \in Objects : ForeignInstall(x) \/ ForeignRemove(x)
  <2>1. UNCHANGED <<routes, attached_again, pc, attach>>
    BY <1>4 DEF Shutdown, BeginClose, CloseGate, RestoreHook, AllRestored, ReportDrained,
       OnlyShutdown, ForeignInstall, ForeignRemove, managed
  <2>2. \A i \in Reachable(o)' : i \in Reachable(o) \/ tables'[i].by = "foreign"
    BY <1>4, ShutdownReachable, ForeignReachable
  <2>3. Exclusive(o) /\ Routed(o)
    BY <2>1 DEF OnceAttached, AttachedOnce
  <2> QED
    BY <1>1, <2>1, <2>2, <2>3, OnceAttachedFrame
<1>5. CASE UNCHANGED vars
  <2>1. UNCHANGED <<native, managed, pc, attach, call, attached_again>>
    BY <1>5 DEF vars
  <2>2. Reachable(o)' = Reachable(o)
    BY <2>1 DEF native, managed, Reachable
  <2>3. Exclusive(o) /\ Routed(o)
    BY <2>1 DEF OnceAttached, AttachedOnce
  <2> QED
    BY <1>1, <2>1, <2>2, <2>3, OnceAttachedFrame DEF managed
<1>6. ASSUME NEW t \in Threads, CallStep(t)
      PROVE  o \notin attached_again /\ Exclusive(o)' /\ Routed(o)'
  <2>1. Exclusive(o) /\ Routed(o)
    BY <1>2, <1>6 DEF OnceAttached, AttachedOnce
  <2> QED
    BY <1>1, <1>2, <1>6, <2>1, OnceAttachedFrame
<1>7. ASSUME NEW t \in Threads, AttachStep(t)
      PROVE  o \notin attached_again /\ Exclusive(o)' /\ Routed(o)'
  <2>1. Exclusive(o) /\ Routed(o)
    BY <1>3, <1>7 DEF OnceAttached, AttachedOnce
  <2> QED
    BY <1>1, <1>3, <1>7, <2>1, OnceAttachedFrame, AttachStepOnce
<1> QED
  BY <1>4, <1>5, <1>6, <1>7 DEF Next

-----------------------------------------------------------------------------
\* A call goes down its object's tables, and is forwarded at the native one.
LEMMA CallStepProgress ==
    ASSUME Typing, OnceAttached, ForwardedOnce, NEW t \in Threads, CallStep(t)
    PROVE  /\ AttachedOnce(call'[t].obj) => Descends(t)'
           /\ Forwarded(t)'
<1> DEFINE c == call[t]
           Goal == (AttachedOnce(call'[t].obj) => Descends(t)') /\ Forwarded(t)'
<1>1. /\ UNCHANGED <<vtable, tables, routes>>
      /\ t \in DOMAIN call /\ t \in DOMAIN pc
      /\ ThreadOK(t) /\ Forwarded(t)
      /\ AttachedOnce(c.obj) => Descends(t) /\ Routed(c.obj)
  BY CallStepFrame DEF Typing, TypeOK, ForwardedOnce, OnceAttached, AttachedOnce
<1>2. /\ c \in CallType /\ c.at <= Len(tables) /\ c.base <= Len(tables)
      /\ c.at \in Nat /\ c.base \in Nat /\ c.depth \in Nat /\ c.forwards \in Nat
      /\ Len(tables) \in 0..MaxTables /\ MaxTables \in Nat
  BY <1>1, TablesAreBounded DEF Typing, TablesOK, ThreadOK, CallType
<1>3. ASSUME NEW o \in Objects, NEW m \in Methods, StartCall(t, o, m)
      PROVE  Goal
  <2>1. /\ pc'[t] = "dispatch"
        /\ call'[t] = [NoCall EXCEPT !.obj = o, !.method = m, !.at = vtable[o]]
    BY <1>1, <1>3 DEF StartCall, Goto, SetCall
  <2>2. call'[t] = [obj |-> o, method |-> m, at |-> vtable[o], base |-> 0, depth |-> 0,
                    guards |-> 0, forwards |-> 0]
    BY <2>1 DEF NoCall
  <2>3. vtable[o] \in 0..Len(tables)
    BY DEF Typing, TypeOK
  <2>4. call'[t].depth + call'[t].at <= MaxTables /\ call'[t].forwards = 0
    BY <1>2, <2>2, <2>3
  <2> QED
    BY <2>1, <2>4 DEF Descends, Forwarded, InCall, AttachPcs
<1>4. CASE CallNative(t)
  <2>1. /\ pc[t] = "dispatch" /\ pc'[t] = "returned"
        /\ call'[t] = [c EXCEPT !.forwards = @ + 1]
    BY <1>1, <1>4 DEF CallNative, Goto, SetCall
  <2>2. call'[t].obj = c.obj /\ call'[t].forwards = c.forwards + 1
    BY <1>2, <2>1 DEF CallType
  <2> QED
    BY <1>1, <2>1, <2>2 DEF Descends, Forwarded, InCall, AttachPcs
<1>5. CASE CallForeign(t)
  <2>1. /\ pc[t] = "dispatch" /\ pc'[t] = "dispatch" /\ c.at # 0
        /\ call'[t] = [c EXCEPT !.at = tables[c.at].base]
    BY <1>1, <1>5 DEF CallForeign, SetCall, OnlyCall, SlotOf
  <2>2. tables[c.at].base \in 0..(c.at - 1)
    BY <1>2, <2>1 DEF Typing, TablesOK
  <2>3. /\ call'[t].obj = c.obj /\ call'[t].at = tables[c.at].base
        /\ call'[t].depth = c.depth /\ call'[t].forwards = c.forwards
    BY <1>2, <2>1 DEF CallType
  <2> QED
    BY <1>1, <1>2, <2>1, <2>2, <2>3 DEF Descends, Forwarded, InCall, AttachPcs
<1>6. CASE CallDetour(t)
  <2>1. /\ pc[t] = "dispatch" /\ c.at # 0 /\ tables[c.at].by = "detour"
        /\ call'[t] = [c EXCEPT !.depth = @ + 1]
        /\ pc'[t] = IF c.depth = MaxTables THEN "failed" ELSE "detour"
    BY <1>1, <1>6 DEF CallDetour, Goto, SetCall, SlotOf
  <2>2. /\ call'[t].obj = c.obj /\ call'[t].at = c.at
        /\ call'[t].depth = c.depth + 1 /\ call'[t].forwards = c.forwards
    BY <1>2, <2>1 DEF CallType
  <2>3. AttachedOnce(c.obj) => c.depth # MaxTables
    BY <1>1, <1>2, <2>1 DEF Descends
  <2> QED
    BY <1>1, <1>2, <2>1, <2>2, <2>3 DEF Descends, Forwarded, InCall, AttachPcs
<1>7. CASE LookUpRoute(t)
  <2>1. /\ pc[t] = "detour" /\ pc'[t] \in {"enter", "fallback"}
        /\ pc'[t] = "fallback" => c.obj \notin DOMAIN routes /\ call'[t] = c
        /\ pc'[t] = "enter" => /\ c.obj \in DOMAIN routes
                               /\ call'[t] = [c EXCEPT !.base = routes[c.obj]]
    BY <1>1, <1>7 DEF LookUpRoute, Goto, SetCall
  <2>2. /\ call'[t].obj = c.obj /\ call'[t].depth = c.depth
        /\ call'[t].forwards = c.forwards
        /\ pc'[t] = "enter" => call'[t].base = routes[c.obj]
    BY <1>2, <2>1 DEF CallType
  <2>3. ASSUME AttachedOnce(c.obj)
        PROVE  c.obj \in DOMAIN routes /\ routes[c.obj] < c.at /\ c.depth + c.at <= MaxTables + 1
    <3>1. /\ c.at # 0 /\ tables[c.at].by = "detour"
          /\ c.depth + c.at <= MaxTables + 1
      BY <1>1, <2>1, <2>3 DEF Descends
    <3>2. c.at \in Reachable(c.obj)
      BY <1>2, <3>1 DEF Reachable
    <3> QED
      BY <1>1, <2>3, <3>1, <3>2 DEF Routed
  <2>4. c.obj \in DOMAIN routes => routes[c.obj] \in Nat
    BY <1>2 DEF Typing, TablesOK
  <2> QED
    BY <1>1, <1>2, <2>1, <2>2, <2>3, <2>4 DEF Descends, Forwarded, InCall, AttachPcs
<1>8. CASE CallCurrentMethod(t)
  <2>1. /\ pc[t] = "fallback" /\ pc'[t] \in {"dispatch", "failed"}
        /\ \/ call'[t] = c
           \/ call'[t] = [c EXCEPT !.at = vtable[c.obj]]
    BY <1>1, <1>8 DEF CallCurrentMethod, Goto, SetCall
  <2>2. call'[t].obj = c.obj /\ call'[t].forwards = c.forwards
    BY <1>2, <2>1 DEF CallType
  <2> QED
    BY <1>1, <2>1, <2>2 DEF Descends, Forwarded, InCall, AttachPcs
<1>9. CASE Admitted(t)
  <2>1. /\ pc[t] = "enter" /\ pc'[t] = "before"
        /\ call'[t] = [c EXCEPT !.guards = @ + 1]
    BY <1>1, <1>9 DEF Admitted, Goto, SetCall
  <2>2. /\ call'[t].obj = c.obj /\ call'[t].base = c.base
        /\ call'[t].depth = c.depth /\ call'[t].forwards = c.forwards
    BY <1>2, <2>1 DEF CallType
  <2> QED
    BY <1>1, <2>1, <2>2 DEF Descends, Forwarded, InCall, AttachPcs
<1>10. CASE Refused(t) \/ BeforeHandler(t) \/ BeforeHandlerPanics(t)
  <2>1. PICK guards :
           call'[t] = [c EXCEPT !.at = c.base, !.base = 0, !.guards = guards]
    BY <1>1, <1>10 DEF Refused, BeforeHandler, BeforeHandlerPanics, CallOriginal, SetCall
  <2>2. pc[t] \in {"enter", "before"} /\ pc'[t] = "dispatch"
    BY <1>1, <1>10 DEF Refused, BeforeHandler, BeforeHandlerPanics, Goto
  <2>3. /\ call'[t].obj = c.obj /\ call'[t].at = c.base
        /\ call'[t].depth = c.depth /\ call'[t].forwards = c.forwards
    BY <1>2, <2>1 DEF CallType
  <2> QED
    BY <1>1, <2>2, <2>3 DEF Descends, Forwarded, InCall, AttachPcs
<1>11. CASE Return(t) \/ AfterHandler(t)
  <2>1. /\ pc[t] \in {"returned", "after"} /\ pc'[t] \in {"returned", "after", "done"}
        /\ call'[t] = c \/ call'[t] = [c EXCEPT !.guards = @ - 1]
    BY <1>1, <1>11 DEF Return, AfterHandler, Goto, SetCall
  <2>2. call'[t].obj = c.obj /\ call'[t].forwards = c.forwards
    BY <1>2, <2>1 DEF CallType
  <2> QED
    BY <1>1, <2>1, <2>2 DEF Descends, Forwarded, InCall, AttachPcs
<1>12. CASE Answer(t)
  <2>1. call'[t] = NoCall
    BY <1>1, <1>12 DEF Answer, SetCall
  <2> QED
    BY <2>1, NoneIsNoObject DEF Forwarded, InCall, NoCall, AttachedOnce
<1> QED
  BY <1>3, <1>4, <1>5, <1>6, <1>7, <1>8, <1>9, <1>10, <1>11, <1>12 DEF CallStep

\* An attachment does not forward a call.
LEMMA AttachStepProgress ==
    ASSUME Typing, ForwardedOnce, NEW t \in Threads, AttachStep(t)
    PROVE  (AttachedOnce(call'[t].obj) => Descends(t)') /\ Forwarded(t)'
<1>1. /\ t \in DOMAIN pc /\ t \in DOMAIN call /\ ThreadOK(t) /\ Forwarded(t)
  BY DEF Typing, TypeOK, ForwardedOnce
<1>2. \/ pc[t] \in AttachPcs \cup {"idle", "after"} /\ pc'[t] \in AttachPcs /\ call'[t] = call[t]
      \/ pc[t] \in AttachPcs /\ AttachOver(t)
  BY <1>1 DEF AttachStep, BeginAttach, AttachReturned, ValidateAttachment, ExistingAttachment,
     CopyFrom, CopyFails, RegisterRoute, Install, UnregisterRoute, PushHook, Goto, AttachPcs
<1>3. CASE pc[t] \in AttachPcs \cup {"idle", "after"} /\ pc'[t] \in AttachPcs /\ call'[t] = call[t]
  <2>1. InCall(t)' => InCall(t) /\ call[t].forwards = 1
    BY <1>1, <1>3 DEF ThreadOK, Placed, Forwarded, InCall, NoCall
  <2> QED
    BY <1>3, <2>1 DEF Descends, Forwarded, AttachPcs
<1>4. CASE pc[t] \in AttachPcs /\ AttachOver(t)
  <2>1. /\ pc'[t] = IF InCall(t) THEN "returned" ELSE "idle"
        /\ call'[t] = [call[t] EXCEPT !.guards = IF InCall(t) THEN @ - 1 ELSE @]
    BY <1>1, <1>4 DEF AttachOver
  <2>2. call'[t].obj = call[t].obj /\ call'[t].forwards = call[t].forwards
    BY <1>1, <2>1 DEF ThreadOK, CallType
  <2> QED
    BY <1>1, <1>4, <2>1, <2>2, NoneIsNoObject DEF Descends, Forwarded, InCall, AttachPcs
<1> QED
  BY <1>2, <1>3, <1>4

\* Every step forwards as often as it should.
LEMMA NextProgress ==
    ASSUME Typing, TablesStayWithObject, OwnCopies, OnceAttached, ForwardedOnce, [Next]_vars
    PROVE  OnceAttached' /\ ForwardedOnce'
<1>1. ASSUME NEW o \in Objects, AttachedOnce(o)'
      PROVE  AttachedOnce(o) /\ Exclusive(o)' /\ Routed(o)' /\ TablesGrow
  BY <1>1, NextOnce, NextReachable DEF AttachedOnce
<1>2. ASSUME NEW t \in Threads, pc'[t] = pc[t], call'[t] = call[t]
      PROVE  (AttachedOnce(call[t].obj)' => Descends(t)') /\ Forwarded(t)'
  <2>1. Forwarded(t)'
    BY <1>2 DEF ForwardedOnce, Forwarded, InCall
  <2>2. ASSUME AttachedOnce(call[t].obj)' PROVE Descends(t)'
    <3>1. AttachedOnce(call[t].obj) /\ TablesGrow
      BY <1>1, <1>2, <2>2 DEF AttachedOnce
    <3>2. Descends(t) /\ ThreadOK(t)
      BY <3>1 DEF OnceAttached, Typing
    <3>3. call[t].at # 0 => tables'[call[t].at] = tables[call[t].at]
      BY <3>1, <3>2 DEF TablesGrow, ThreadOK, CallType
    <3> QED
      BY <1>2, <3>2, <3>3 DEF Descends
  <2> QED
    BY <2>1, <2>2
<1>3. ASSUME NEW t \in Threads
      PROVE  (AttachedOnce(call[t].obj)' => Descends(t)') /\ Forwarded(t)'
  <2>1. ASSUME NEW u \in Threads, CallStep(u)
        PROVE  (AttachedOnce(call[t].obj)' => Descends(t)') /\ Forwarded(t)'
    <3>1. /\ pc' = [pc EXCEPT ![u] = pc'[u]] /\ call' = [call EXCEPT ![u] = call'[u]]
          /\ t \in DOMAIN pc /\ t \in DOMAIN call /\ UNCHANGED attached_again
      BY <2>1, CallStepFrame DEF Typing, TypeOK
    <3> QED
      BY <1>2, <2>1, <3>1, CallStepProgress DEF AttachedOnce
  <2>2. ASSUME NEW u \in Threads, AttachStep(u)
        PROVE  (AttachedOnce(call[t].obj)' => Descends(t)') /\ Forwarded(t)'
    <3>1. /\ pc' = [pc EXCEPT ![u] = pc'[u]] /\ call' = [call EXCEPT ![u] = call'[u]]
          /\ t \in DOMAIN pc /\ t \in DOMAIN call
      BY <2>2, AttachStepFrame DEF Typing, TypeOK
    <3>2. AttachedOnce(call[t].obj)' => AttachedOnce(call'[t].obj)
      BY <1>1 DEF AttachedOnce
    <3> QED
      BY <1>2, <2>2, <3>1, <3>2, AttachStepProgress
  <2>3. CASE Shutdown \/ (\E o \in Objects : ForeignInstall(o) \/ ForeignRemove(o))
             \/ UNCHANGED vars
    BY <1>2, <2>3 DEF Shutdown, BeginClose, CloseGate, RestoreHook, AllRestored,
       ReportDrained, OnlyShutdown, ForeignInstall, ForeignRemove, vars
  <2> QED
    BY <2>1, <2>2, <2>3 DEF Next
<1> QED
  BY <1>1, <1>3 DEF OnceAttached, ForwardedOnce

-----------------------------------------------------------------------------
\* The invariant holds at first.
LEMMA InitInvariant == Init => IInv
<1> SUFFICES ASSUME Init PROVE IInv
  OBVIOUS
<1>1. Typing
  BY InitTyping
<1>2. GateClosed /\ DrainedRunsNoHandler
  BY DEF Init, GateClosed, DrainedRunsNoHandler
<1>3. RefsMatchShadows
  <2>1. ASSUME NEW o \in Objects PROVE Shadows(o) = {} /\ Pushing(o) = {}
    BY DEF Init, Shadows, Pushing
  <2>2. ASSUME NEW o \in Objects
        PROVE  refs[o] = Cardinality(Shadows(o)) + Cardinality(Pushing(o))
    <3>1. refs[o] = 0
      BY DEF Init
    <3> QED
      BY <2>1, <3>1, FS_EmptySet
  <2> QED
    BY <2>2, RefsRestated
<1>4. OwnCopies
  BY DEF Init, OwnCopies, OwnCopy
<1>5. \A o \in Objects : Reachable(o) = {}
  BY DEF Init, Reachable
<1>6. TablesStayWithObject
  BY <1>5 DEF TablesStayWithObject
<1>7. OnceAttached
  <2>1. \A o \in Objects : Exclusive(o) /\ Routed(o)
    BY <1>5 DEF Init, Exclusive, Routed, Attaches, Unpublished
  <2>2. \A t \in Threads : ~AttachedOnce(call[t].obj)
    BY NoneIsNoObject DEF Init, AttachedOnce, NoCall
  <2> QED
    BY <2>1, <2>2 DEF OnceAttached
<1>8. ForwardedOnce
  BY DEF Init, ForwardedOnce, Forwarded, InCall, NoCall
<1> QED
  BY <1>1, <1>2, <1>3, <1>4, <1>6, <1>7, <1>8 DEF IInv

\* The invariant is inductive: every step of a call, an attachment, the closer
\* or another hooker keeps it.
THEOREM Inductive == Spec => []IInv
<1>1. IInv /\ [Next]_vars => IInv'
  BY NextTyping, NextGate, NextRefs, NextOwnCopies, NextTablesStay, NextProgress DEF IInv
<1> QED
  BY <1>1, InitInvariant, PTL DEF Spec

\* The published tables, the routes, the guards and every thread of detours.rs
\* stay in their domains: no table leads upwards, no reference count goes
\* below zero when close_and_drain restores a guard.
THEOREM TypeCorrect == Spec => []TypeOK
<1>1. IInv => TypeOK
  BY DEF IInv, Typing
<1> QED
  BY <1>1, Inductive, PTL

\* InstalledVtable holds one COM reference from the exchange that published its
\* shadow until restore takes it back, whoever attaches or closes meanwhile.
THEOREM ReferencesMatch == Spec => []RefsMatchShadows
<1>1. IInv => RefsMatchShadows
  BY DEF IInv
<1> QED
  BY <1>1, Inductive, PTL

\* Once close_and_drain has reported a drain, no detour is inside a handler.
THEOREM DrainedIsQuiet == Spec => []DrainedRunsNoHandler
<1>1. IInv => DrainedRunsNoHandler
  BY DEF IInv
<1> QED
  BY <1>1, Inductive, PTL

\* The native-forwarding promise of detours.rs: a call of an object attached at
\* most once ends at the native method, exactly once.
THEOREM NativeForwarding == Spec => []CallsReachNative
<1>1. IInv => CallsReachNative
  <2> SUFFICES ASSUME IInv, NEW t \in Threads, InCall(t), call[t].obj \notin attached_again
               PROVE  /\ pc[t] # "failed"
                      /\ call[t].forwards =
                            IF pc[t] \in {"returned", "after", "done"} \cup AttachPcs
                            THEN 1 ELSE 0
    BY DEF CallsReachNative
  <2>1. call[t].obj \in Objects
    BY DEF IInv, Typing, ThreadOK, CallType, InCall
  <2>2. Descends(t)
    BY <2>1 DEF IInv, OnceAttached, AttachedOnce
  <2> QED
    BY <2>2 DEF IInv, ForwardedOnce, Forwarded, Descends
<1> QED
  BY <1>1, Inductive, PTL
=============================================================================
