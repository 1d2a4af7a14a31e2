--------------------------- MODULE EventBus_proofs ---------------------------
(****************************************************************************)
(* The bus with any number of threads, insertions and frames: the counters  *)
(* are the running callbacks, and what a retirement was told stays true.    *)
(****************************************************************************)
EXTENDS EventBus, Selection_proofs, FiniteSetTheorems, SequenceTheorems, WellFoundedInduction,
        TLAPS

\* The part of the batch that the frame has dealt with.
Done(f) == {f.batch[i] : i \in 1..(Len(f.batch) - Len(f.todo))}

\* The owner's generation was retired: it has no subscription and gets none.
Cleaned(o) ==
    /\ o.generation <= retired_generations[o.signature]
    /\ \A s \in Live : OwnerOf[s] # o

FrameOK(f) ==
    /\ f \in Frame
    /\ \A s \in Elements(f.todo) : s \in inserted /\ OwnerOf[s] \in f.owners
    /\ f.op = "call" => f.todo # <<>>
    /\ f.op \in {"closing", "waiting"} =>
          /\ Len(f.todo) <= Len(f.batch)
          /\ \A i \in 1..Len(f.todo) : f.todo[i] = f.batch[Len(f.batch) - Len(f.todo) + i]
          /\ \A s \in Done(f) : ~accepting[s]
    /\ f.op = "closing" => \A s \in Elements(f.batch) : s \in inserted /\ OwnerOf[s] \in f.owners
    /\ f.op = "waiting" => \A s \in Elements(f.batch) : ~accepting[s]
    /\ f.op \in {"retiring", "reporting"} => \A o \in f.owners : Cleaned(o)

\* Only the innermost frame is not a callback; whoever is in a longer
\* write-locked section has the lock.
StacksOK ==
    /\ \A t \in Threads : \A i \in 1..Len(stack[t]) :
          /\ FrameOK(stack[t][i])
          /\ i < Len(stack[t]) => stack[t][i].op = "call"
    /\ \A t \in Threads : writer = t <=> At(t, "closing") \/ At(t, "retiring")

\* What is subscribed was inserted, and belongs to a generation not yet retired.
RegistryOK ==
    /\ IsFiniteSet(inserted) /\ Live \subseteq inserted
    /\ \A s \in Live :
          OwnerOf[s].generation # retired_generations[OwnerOf[s].signature]
    /\ \A o \in Owners : \A s \in retiring[o] : OwnerOf[s] = o

\* An insertion that is gone was closed, or will be before the lock is released;
\* and it is watched until its last callback has returned.
Closed(s) == ~accepting[s] /\ (s \in retiring[OwnerOf[s]] \/ in_flight[s] = 0)
RetiredAreClosed ==
    \A s \in inserted \ Live :
        \/ Closed(s)
        \/ writer \in Threads /\ s \in Elements(Top(writer).todo)

\* A quiescent report is final.
SilentAreClosed ==
    \A o \in silent :
        /\ Cleaned(o)
        /\ \A s \in inserted : OwnerOf[s] = o => ~accepting[s] /\ in_flight[s] = 0

\* UnsubscriberIsAlone, of the part of the batch that was waited for.
OthersAreOut ==
    \A t, u \in Threads : \A i \in 1..Len(stack[t]) :
        stack[t][i].op = "waiting" /\ t # u =>
            \A s \in Done(stack[t][i]) : Running(u, s) = {}

\* Somebody will reap an owner that still has something to reap.
ReapersRemain ==
    \A o \in Owners : retiring[o] # {} =>
        \E t \in Threads : \E i \in 1..Len(stack[t]) : o \in stack[t][i].owners

IInv ==
    /\ TypeOK /\ StacksOK /\ RegistryOK
    /\ CountersMatchFrames
    /\ RetiredAreClosed /\ SilentAreClosed /\ OthersAreOut
    /\ ReapersRemain
-----------------------------------------------------------------------------
(* What a step does to the stack of its thread. *)

Others(t) == \A u \in Threads \ {t} : stack'[u] = stack[u]

\* The first n frames stay, and there may be a new one on top of them.
Keeps(t, n) ==
    /\ stack' \in [Threads -> Seq(Frame)]
    /\ Others(t)
    /\ \A i \in 1..n : stack'[t][i] = stack[t][i]
Pushes(t, f) ==
    /\ Keeps(t, Len(stack[t]))
    /\ Len(stack'[t]) = Len(stack[t]) + 1 /\ stack'[t][Len(stack[t]) + 1] = f
Replaces(t, f) ==
    /\ Keeps(t, Len(stack[t]) - 1)
    /\ Len(stack'[t]) = Len(stack[t]) /\ stack'[t][Len(stack[t])] = f
Drops(t) ==
    /\ Keeps(t, Len(stack[t]) - 1)
    /\ Len(stack'[t]) = Len(stack[t]) - 1

\* A busy thread's stack is what lies below, and the top.
LEMMA TopFacts ==
    ASSUME TypeOK, NEW t \in Threads, Busy(t)
    PROVE  /\ Len(stack[t]) \in Nat \ {0}
           /\ Top(t) = stack[t][Len(stack[t])] /\ Top(t) \in Frame
           /\ Below(t) \in Seq(Frame) /\ Len(Below(t)) = Len(stack[t]) - 1
           /\ \A i \in 1..(Len(stack[t]) - 1) : Below(t)[i] = stack[t][i]
<1>1. stack[t] \in Seq(Frame) /\ stack[t] # <<>>
  BY DEF TypeOK, Busy
<1>2. Len(stack[t]) \in Nat \ {0}
  BY <1>1, EmptySeq
<1>3. Top(t) = stack[t][Len(stack[t])] /\ Top(t) \in Frame
  BY <1>1, <1>2, ElementOfSeq DEF Top
<1> DEFINE n == Len(stack[t]) - 1
<1>4. n \in Int /\ \A i \in 1..n : stack[t][i] \in Frame
  BY <1>1, <1>2, ElementOfSeq
<1>5. /\ Below(t) \in Seq(Frame)
      /\ Len(Below(t)) = IF 1 <= n THEN n - 1 + 1 ELSE 0
      /\ \A i \in 1..(n - 1 + 1) : Below(t)[i] = stack[t][1 + i - 1]
  BY <1>4, SubSeqProperties DEF Below
<1> QED
  BY <1>2, <1>3, <1>5

\* The three ways in which a stack changes.
LEMMA StackPushed ==
    ASSUME TypeOK, NEW t \in Threads, NEW f \in Frame, Push(t, f)
    PROVE  Pushes(t, f)
<1>1. stack[t] \in Seq(Frame) /\ stack \in [Threads -> Seq(Frame)]
  BY DEF TypeOK
<1>2. stack' = [stack EXCEPT ![t] = Append(stack[t], f)]
  BY DEF Push
<1>3. /\ Append(stack[t], f) \in Seq(Frame)
      /\ Len(Append(stack[t], f)) = Len(stack[t]) + 1
      /\ \A i \in 1..Len(stack[t]) : Append(stack[t], f)[i] = stack[t][i]
      /\ Append(stack[t], f)[Len(stack[t]) + 1] = f
  BY <1>1, AppendProperties
<1>4. stack'[t] = Append(stack[t], f) /\ Others(t) /\ stack' \in [Threads -> Seq(Frame)]
  BY <1>1, <1>2, <1>3 DEF Others
<1> QED
  BY <1>3, <1>4 DEF Pushes, Keeps

LEMMA StackReplaced ==
    ASSUME TypeOK, NEW t \in Threads, Busy(t), NEW f \in Frame, Become(t, f)
    PROVE  Replaces(t, f)
<1>1. stack \in [Threads -> Seq(Frame)]
  BY DEF TypeOK
<1>2. stack' = [stack EXCEPT ![t] = Append(Below(t), f)]
  BY DEF Become
<1>3. /\ Len(stack[t]) \in Nat \ {0}
      /\ Below(t) \in Seq(Frame) /\ Len(Below(t)) = Len(stack[t]) - 1
      /\ \A i \in 1..(Len(stack[t]) - 1) : Below(t)[i] = stack[t][i]
  BY TopFacts
<1>4. /\ Append(Below(t), f) \in Seq(Frame)
      /\ Len(Append(Below(t), f)) = Len(Below(t)) + 1
      /\ \A i \in 1..Len(Below(t)) : Append(Below(t), f)[i] = Below(t)[i]
      /\ Append(Below(t), f)[Len(Below(t)) + 1] = f
  BY <1>3, AppendProperties
<1>5. /\ stack'[t] = Append(Below(t), f) /\ Others(t)
      /\ stack' \in [Threads -> Seq(Frame)]
  BY <1>1, <1>2, <1>4 DEF Others
<1>6. Len(stack'[t]) = Len(stack[t]) /\ stack'[t][Len(stack[t])] = f
  BY <1>3, <1>4, <1>5
<1>7. \A i \in 1..(Len(stack[t]) - 1) : stack'[t][i] = stack[t][i]
  BY <1>3, <1>4, <1>5
<1> QED
  BY <1>5, <1>6, <1>7 DEF Replaces, Keeps

LEMMA StackDropped ==
    ASSUME TypeOK, NEW t \in Threads, Busy(t), Pop(t)
    PROVE  Drops(t)
<1>1. stack \in [Threads -> Seq(Frame)] /\ stack' = [stack EXCEPT ![t] = Below(t)]
  BY DEF TypeOK, Pop
<1>2. /\ Below(t) \in Seq(Frame) /\ Len(Below(t)) = Len(stack[t]) - 1
      /\ \A i \in 1..(Len(stack[t]) - 1) : Below(t)[i] = stack[t][i]
  BY TopFacts
<1>3. stack'[t] = Below(t) /\ Others(t) /\ stack' \in [Threads -> Seq(Frame)]
  BY <1>1, <1>2 DEF Others
<1> QED
  BY <1>2, <1>3 DEF Drops, Keeps

\* What is on top afterwards.
LEMMA TopAfter ==
    ASSUME TypeOK, StacksOK, NEW t \in Threads
    PROVE  /\ \A f : Pushes(t, f) \/ (Busy(t) /\ Replaces(t, f)) => Busy(t)' /\ Top(t)' = f
           /\ Busy(t) /\ Drops(t) => (Busy(t)' => Top(t)'.op = "call")
           /\ \A u \in Threads \ {t} : Others(t) => (Busy(u)' = Busy(u) /\ Top(u)' = Top(u))
<1>1. ASSUME NEW f, Pushes(t, f) \/ (Busy(t) /\ Replaces(t, f))
      PROVE  Busy(t)' /\ Top(t)' = f
  <2>1. Len(stack[t]) \in Nat /\ stack' \in [Threads -> Seq(Frame)]
    BY <1>1 DEF TypeOK, Pushes, Replaces, Keeps
  <2>2. Busy(t) => Len(stack[t]) > 0
    BY TopFacts
  <2>3. Len(stack'[t]) > 0 /\ stack'[t][Len(stack'[t])] = f
    BY <1>1, <2>1, <2>2 DEF Pushes, Replaces
  <2>4. stack'[t] # <<>>
    BY <2>1, <2>3, EmptySeq
  <2> QED
    BY <2>3, <2>4 DEF Busy, Top
<1>2. ASSUME Busy(t), Drops(t), Busy(t)'
      PROVE  Top(t)'.op = "call"
  <2> DEFINE n == Len(stack[t]) - 1
  <2>1. Len(stack[t]) \in Nat \ {0}
    BY <1>2, TopFacts
  <2>2. Len(stack'[t]) = n /\ stack' \in [Threads -> Seq(Frame)]
        /\ \A i \in 1..n : stack'[t][i] = stack[t][i]
    BY <1>2 DEF Drops, Keeps
  <2>3. n \in Nat \ {0}
    BY <1>2, <2>2, EmptySeq DEF Busy
  <2>4. n \in 1..Len(stack[t]) /\ n < Len(stack[t]) /\ n \in 1..n
    <3>1. Len(stack[t]) = n + 1
      BY <2>1
    <3> HIDE DEF n
    <3> QED
      BY <2>3, <3>1
  <2>5. stack'[t][n].op = "call"
    BY <2>2, <2>4 DEF StacksOK
  <2> QED
    BY <2>2, <2>5 DEF Top
<1>3. ASSUME NEW u \in Threads \ {t}, Others(t)
      PROVE  Busy(u)' = Busy(u) /\ Top(u)' = Top(u)
  BY <1>3 DEF Others, Busy, Top
<1> QED
  BY <1>1, <1>2, <1>3

\* Nothing that a frame relies on is undone.
Monotone ==
    /\ inserted \subseteq inserted'
    /\ \A s \in Subs : ~accepting[s] => ~accepting'[s]
    /\ \A o \in Owners : Cleaned(o) => Cleaned(o)'

\* The sequences of a frame hold insertions.
LEMMA FrameElements ==
    ASSUME NEW f \in Frame
    PROVE  /\ Elements(f.todo) \subseteq Subs /\ Elements(f.batch) \subseteq Subs
           /\ Len(f.todo) \in Nat /\ Len(f.batch) \in Nat
           /\ DOMAIN f.todo = 1..Len(f.todo) /\ DOMAIN f.batch = 1..Len(f.batch)
           /\ Done(f) \subseteq Elements(f.batch)
<1>1. f.todo \in Seq(Subs) /\ f.batch \in Seq(Subs)
  BY DEF Frame
<1>2. /\ Len(f.todo) \in Nat /\ Len(f.batch) \in Nat
      /\ DOMAIN f.todo = 1..Len(f.todo) /\ DOMAIN f.batch = 1..Len(f.batch)
  BY <1>1, LenProperties
<1>3. Elements(f.todo) \subseteq Subs /\ Elements(f.batch) \subseteq Subs
  BY <1>1, <1>2, ElementOfSeq DEF Elements
<1>4. \A i \in 1..(Len(f.batch) - Len(f.todo)) : i \in 1..Len(f.batch)
  <2> DEFINE a == Len(f.batch)
             b == Len(f.todo)
  <2>1. a \in Nat /\ b \in Nat
    BY <1>2
  <2> HIDE DEF a, b
  <2>2. \A i \in 1..(a - b) : i \in 1..a
    BY <2>1
  <2> QED
    BY <2>2 DEF a, b
<1> QED
  BY <1>2, <1>3, <1>4 DEF Done, Elements

LEMMA FramesKept ==
    ASSUME Monotone, NEW f, FrameOK(f)
    PROVE  FrameOK(f)'
<1>1. f \in Frame
  BY DEF FrameOK
<1>2. /\ Elements(f.todo) \subseteq Subs /\ Elements(f.batch) \subseteq Subs
      /\ Done(f) \subseteq Subs
  BY <1>1, FrameElements
<1>3. f.owners \subseteq Owners
  BY <1>1 DEF Frame
<1>4. \A s \in Elements(f.todo) : s \in inserted' /\ OwnerOf[s] \in f.owners
  BY DEF FrameOK, Monotone
<1>5. f.op = "closing" => \A s \in Elements(f.batch) : s \in inserted' /\ OwnerOf[s] \in f.owners
  BY DEF FrameOK, Monotone
<1>6. f.op \in {"closing", "waiting"} => \A s \in Done(f) : ~accepting'[s]
  BY <1>2 DEF FrameOK, Monotone
<1>7. f.op = "waiting" => \A s \in Elements(f.batch) : ~accepting'[s]
  BY <1>2 DEF FrameOK, Monotone
<1>8. f.op \in {"retiring", "reporting"} => \A o \in f.owners : Cleaned(o)'
  BY <1>3 DEF FrameOK, Monotone
<1> QED
  BY <1>1, <1>4, <1>6, <1>7, <1>8, <1>5 DEF FrameOK

\* The ways in which a step leaves its thread's frames.
Changes(t) ==
    \/ stack' = stack
    \/ \E f : Pushes(t, f) /\ CanCall(t) /\ FrameOK(f)'
    \/ \E f : Busy(t) /\ Replaces(t, f) /\ FrameOK(f)'
    \/ Busy(t) /\ Drops(t)

StackOK(t) == \A i \in 1..Len(stack[t]) :
    /\ FrameOK(stack[t][i])
    /\ i < Len(stack[t]) => stack[t][i].op = "call"

LEMMA StacksKept ==
    ASSUME TypeOK, StacksOK, Monotone, NEW t \in Threads, Changes(t)
    PROVE  stack' \in [Threads -> Seq(Frame)] /\ \A u \in Threads : StackOK(u)'
<1>1. stack' \in [Threads -> Seq(Frame)] /\ Others(t)
  BY DEF Changes, Pushes, Replaces, Drops, Keeps, TypeOK, Others
<1> DEFINE n == Len(stack[t])
<1>2. n \in Nat
  BY DEF TypeOK
<1>3. ASSUME NEW i \in 1..n, NEW f, f = stack[t][i]
      PROVE  FrameOK(f)' /\ (i < n => f.op = "call")
  BY <1>3, FramesKept DEF StacksOK
<1>4. ASSUME NEW u \in Threads \ {t}, NEW i \in 1..Len(stack'[u]), NEW f, f = stack'[u][i]
      PROVE  FrameOK(f)' /\ (i < Len(stack'[u]) => f.op = "call")
  <2>1. stack'[u] = stack[u]
    BY <1>1 DEF Others
  <2> QED
    BY <1>4, <2>1, FramesKept DEF StacksOK
<1>5. ASSUME NEW i \in 1..Len(stack'[t]), NEW f, f = stack'[t][i]
      PROVE  FrameOK(f)' /\ (i < Len(stack'[t]) => f.op = "call")
  <2>1. CASE stack' = stack
    BY <1>3, <1>5, <2>1
  <2>2. CASE \E g : Pushes(t, g) /\ CanCall(t) /\ FrameOK(g)'
    <3>1. PICK g : Pushes(t, g) /\ CanCall(t) /\ FrameOK(g)'
      BY <2>2
    <3>2. /\ Len(stack'[t]) = n + 1 /\ stack'[t][n + 1] = g
          /\ \A k \in 1..n : stack'[t][k] = stack[t][k]
      BY <3>1 DEF Pushes, Keeps
    <3>3. CASE i = n + 1
      BY <1>2, <1>5, <3>1, <3>2, <3>3
    <3>4. CASE i \in 1..n
      <4>1. f = stack[t][i]
        BY <1>5, <3>2, <3>4
      <4>2. i = n => f.op = "call"
        <5>1. ASSUME i = n PROVE Busy(t) /\ f = Top(t)
          <6>1. n # 0
            BY <3>4, <5>1
          <6> QED
            BY <4>1, <5>1, <6>1, EmptySeq DEF Busy, Top
        <5> QED
          BY <3>1, <5>1 DEF CanCall
      <4> QED
        BY <1>2, <1>3, <3>4, <4>1, <4>2
    <3> QED
      BY <1>2, <3>2, <3>3, <3>4
  <2>3. CASE \E g : Busy(t) /\ Replaces(t, g) /\ FrameOK(g)'
    <3>1. PICK g : Busy(t) /\ Replaces(t, g) /\ FrameOK(g)'
      BY <2>3
    <3>2. /\ Len(stack'[t]) = n /\ stack'[t][n] = g
          /\ \A k \in 1..(n - 1) : stack'[t][k] = stack[t][k]
      BY <3>1 DEF Replaces, Keeps
    <3>3. CASE i = n
      BY <1>2, <1>5, <3>1, <3>2, <3>3
    <3>4. CASE i # n
      <4>1. i \in 1..(n - 1) /\ i \in 1..n /\ i < n
        BY <1>2, <3>2, <3>4
      <4>2. f = stack[t][i]
        BY <1>5, <3>2, <4>1
      <4> QED
        BY <1>3, <4>1, <4>2
    <3> QED
      BY <3>3, <3>4
  <2>4. CASE Busy(t) /\ Drops(t)
    <3>1. /\ Len(stack'[t]) = n - 1
          /\ \A k \in 1..(n - 1) : stack'[t][k] = stack[t][k]
      BY <2>4 DEF Drops, Keeps
    <3>2. i \in 1..(n - 1) /\ i \in 1..n /\ i < n
      BY <1>2, <3>1
    <3> QED
      BY <1>3, <1>5, <3>1, <3>2
  <2> QED
    BY <2>1, <2>2, <2>3, <2>4 DEF Changes
<1>6. StackOK(t)'
  BY <1>5 DEF StackOK
<1>7. \A u \in Threads \ {t} : StackOK(u)'
  BY <1>4 DEF StackOK
<1> QED
  BY <1>1, <1>6, <1>7

\* What a step of t must see to for StacksOK.
StepOK(t) ==
    /\ Changes(t) /\ Monotone
    /\ writer' = writer \/ {writer, writer'} \subseteq {t, Nobody}
    /\ writer' = t <=> At(t, "closing")' \/ At(t, "retiring")'

LEMMA StackStep ==
    ASSUME TypeOK, StacksOK, NEW t \in Threads, StepOK(t)
    PROVE  stack' \in [Threads -> Seq(Frame)] /\ StacksOK'
<1>1. stack' \in [Threads -> Seq(Frame)] /\ \A u \in Threads : StackOK(u)'
  BY StacksKept DEF StepOK
<1>2. Others(t)
  BY DEF StepOK, Changes, Pushes, Replaces, Drops, Keeps, TypeOK, Others
<1>3. ASSUME NEW u \in Threads
      PROVE  writer' = u <=> At(u, "closing")' \/ At(u, "retiring")'
  <2>1. CASE u = t
    BY <2>1 DEF StepOK
  <2>2. CASE u # t
    <3>1. Busy(u)' = Busy(u) /\ Top(u)' = Top(u)
      BY <1>2, <2>2, TopAfter
    <3>2. writer' = u <=> writer = u
      BY <2>2, NobodyIsNoThread DEF StepOK
    <3>3. writer = u <=> At(u, "closing") \/ At(u, "retiring")
      BY DEF StacksOK
    <3> QED
      BY <3>1, <3>2, <3>3 DEF At
  <2> QED
    BY <2>1, <2>2
<1> QED
  BY <1>1, <1>3 DEF StacksOK, StackOK

\* The first of a sequence, and the rest.
LEMMA TodoFacts ==
    ASSUME NEW A, NEW q \in Seq(A), q # <<>>
    PROVE  /\ Len(q) \in Nat \ {0} /\ Head(q) = q[1] /\ Head(q) \in A
           /\ Tail(q) \in Seq(A) /\ Len(Tail(q)) = Len(q) - 1
           /\ \A i \in 1..(Len(q) - 1) : Tail(q)[i] = q[i + 1]
           /\ Elements(q) = {Head(q)} \cup Elements(Tail(q))
<1>1. Len(q) \in Nat \ {0} /\ DOMAIN q = 1..Len(q)
  BY EmptySeq, LenProperties
<1>2. /\ Head(q) \in A /\ Tail(q) \in Seq(A) /\ Len(Tail(q)) = Len(q) - 1
      /\ \A i \in 1..(Len(q) - 1) : Tail(q)[i] = q[i + 1]
  <2>1. /\ Head(q) \in A /\ Tail(q) \in Seq(A) /\ Len(Tail(q)) = Len(q) - 1
        /\ \A i \in 1..Len(Tail(q)) : Tail(q)[i] = q[i + 1]
    BY HeadTailProperties
  <2> QED
    BY <2>1
<1>3. Head(q) = q[1]
  OBVIOUS
<1>4. DOMAIN Tail(q) = 1..(Len(q) - 1)
  BY <1>2, LenProperties
<1>5. ASSUME NEW x \in Elements(q)
      PROVE  x = Head(q) \/ x \in Elements(Tail(q))
  <2>1. PICK i \in 1..Len(q) : x = q[i]
    BY <1>1 DEF Elements
  <2>2. CASE i = 1
    BY <2>1, <2>2, <1>3
  <2>3. CASE i # 1
    <3>1. i - 1 \in 1..(Len(q) - 1) /\ (i - 1) + 1 = i
      BY <1>1, <2>1, <2>3
    <3>2. Tail(q)[i - 1] = x
      BY <1>2, <2>1, <3>1
    <3> QED
      BY <1>4, <3>1, <3>2 DEF Elements
  <2> QED
    BY <2>2, <2>3
<1>6. ASSUME NEW x \in Elements(Tail(q))
      PROVE  x \in Elements(q)
  <2>1. PICK i \in 1..(Len(q) - 1) : x = Tail(q)[i]
    BY <1>4 DEF Elements
  <2>2. x = q[i + 1] /\ i + 1 \in 1..Len(q)
    BY <1>1, <1>2, <2>1
  <2> QED
    BY <1>1, <2>2 DEF Elements
<1>7. Head(q) \in Elements(q)
  BY <1>1, <1>3 DEF Elements
<1> QED
  BY <1>1, <1>2, <1>3, <1>5, <1>6, <1>7
-----------------------------------------------------------------------------
(* The steps of the bus, as changes of their thread's frames. *)

\* What is known of the frame on top.
LEMMA TopOK ==
    ASSUME TypeOK, StacksOK, NEW t \in Threads, Busy(t)
    PROVE  /\ FrameOK(Top(t)) /\ Top(t) \in Frame
           /\ Top(t).todo \in Seq(Subs) /\ Top(t).batch \in Seq(Subs)
           /\ Top(t).owners \in SUBSET Owners /\ Top(t).op \in Ops
<1>1. Len(stack[t]) \in Nat \ {0} /\ Top(t) = stack[t][Len(stack[t])] /\ Top(t) \in Frame
  BY TopFacts
<1>2. Len(stack[t]) \in 1..Len(stack[t])
  BY <1>1
<1>3. FrameOK(stack[t][Len(stack[t])])
  BY <1>2 DEF StacksOK
<1> QED
  BY <1>1, <1>3 DEF Frame

\* A step that neither inserts nor retires undoes nothing.
LEMMA CalmIsMonotone ==
    ASSUME UNCHANGED <<subscriptions, retired_generations, inserted>>,
           \A s \in Subs : ~accepting[s] => ~accepting'[s]
    PROVE  Monotone /\ Live' = Live /\ \A o : Cleaned(o)' = Cleaned(o)
<1>1. Live' = Live
  BY DEF Live
<1>2. \A o : Cleaned(o)' = Cleaned(o)
  BY <1>1 DEF Cleaned
<1> QED
  BY <1>1, <1>2 DEF Monotone

\* A step that neither enters nor leaves a longer section, nor is in one.
LEMMA LockUntouched ==
    ASSUME TypeOK, StacksOK, NEW t \in Threads, writer' = writer,
           Busy(t) => Top(t).op \notin {"closing", "retiring"},
           Busy(t)' => Top(t)'.op \notin {"closing", "retiring"}
    PROVE  /\ writer' = writer
           /\ writer' = t <=> At(t, "closing")' \/ At(t, "retiring")'
<1>1. writer # t
  BY DEF StacksOK, At
<1>2. ~At(t, "closing")' /\ ~At(t, "retiring")'
  BY DEF At
<1> QED
  BY <1>1, <1>2

\* The top is replaced by a frame of the bus that is in no longer section.
LEMMA TopReplaced ==
    ASSUME TypeOK, StacksOK, NEW t \in Threads, Busy(t), NEW f, FrameOK(f)', Become(t, f),
           UNCHANGED <<subscriptions, retired_generations, inserted, writer>>,
           \A s \in Subs : ~accepting[s] => ~accepting'[s],
           Top(t).op \notin {"closing", "retiring"}, f.op \notin {"closing", "retiring"}
    PROVE  StepOK(t) /\ Replaces(t, f)
<1>1. f \in Frame
  BY DEF FrameOK
<1>2. Replaces(t, f)
  BY <1>1, StackReplaced
<1>3. Busy(t)' /\ Top(t)' = f
  BY <1>2, TopAfter
<1>4. Monotone
  BY CalmIsMonotone
<1>5. writer' = t <=> At(t, "closing")' \/ At(t, "retiring")'
  BY <1>3, LockUntouched
<1> QED
  BY <1>2, <1>4, <1>5 DEF StepOK, Changes

\* The top is dropped: what is below it is a callback.
LEMMA TopDropped ==
    ASSUME TypeOK, StacksOK, NEW t \in Threads, Busy(t), Pop(t),
           UNCHANGED <<subscriptions, retired_generations, inserted, writer>>,
           \A s \in Subs : ~accepting[s] => ~accepting'[s],
           Top(t).op \notin {"closing", "retiring"}
    PROVE  StepOK(t) /\ Drops(t)
<1>1. Drops(t)
  BY StackDropped
<1>2. Busy(t)' => Top(t)'.op = "call"
  BY <1>1, TopAfter
<1>3. Monotone
  BY CalmIsMonotone
<1>4. writer' = t <=> At(t, "closing")' \/ At(t, "retiring")'
  BY <1>2, LockUntouched
<1> QED
  BY <1>1, <1>3, <1>4 DEF StepOK, Changes

\* A callback begins.
LEMMA AdmitStep ==
    ASSUME TypeOK, StacksOK, NEW t \in Threads, Admit(t)
    PROVE  /\ StepOK(t) /\ Busy(t) /\ Top(t).op = "dispatch"
           /\ \E f : Replaces(t, f) /\ f.op = "call" /\ Head(f.todo) = Head(Top(t).todo)
           /\ Head(Top(t).todo) \in inserted \cap Subs
<1>1. PICK f : f = [Top(t) EXCEPT !.op = "call"]
  OBVIOUS
<1>2. /\ Busy(t) /\ Top(t).op = "dispatch" /\ Top(t).todo # <<>> /\ Become(t, f)
      /\ UNCHANGED <<subscriptions, retired_generations, retiring, writer, accepting, inserted>>
  BY <1>1 DEF Admit, At, registry
<1>3. FrameOK(Top(t)) /\ Top(t) \in Frame /\ Top(t).todo \in Seq(Subs)
  BY <1>2, TopOK
<1>4. f.op = "call" /\ f.todo = Top(t).todo /\ f.owners = Top(t).owners
  BY <1>1, <1>3 DEF Frame
<1>5. f \in Frame
  BY <1>1, <1>3 DEF Frame, Ops
<1>6. FrameOK(f)'
  BY <1>2, <1>3, <1>4, <1>5 DEF FrameOK
<1>7. StepOK(t) /\ Replaces(t, f)
  BY <1>2, <1>4, <1>6, TopReplaced
<1>8. Head(Top(t).todo) \in Elements(Top(t).todo) /\ Head(Top(t).todo) \in Subs
  BY <1>2, <1>3, TodoFacts
<1> QED
  BY <1>2, <1>3, <1>4, <1>7, <1>8 DEF FrameOK

\* A dispatch goes on to the next of its snapshot.
LEMMA NextInSnapshot ==
    ASSUME TypeOK, StacksOK, NEW t \in Threads, Busy(t), Top(t).op \in {"dispatch", "call"},
           Top(t).todo # <<>>, NEW f, f.op = "dispatch", f.todo = Tail(Top(t).todo),
           f.batch = Top(t).batch, f.owners = Top(t).owners, f \in Frame, UNCHANGED inserted
    PROVE  FrameOK(f)'
<1>1. FrameOK(Top(t)) /\ Top(t).todo \in Seq(Subs)
  BY TopOK
<1>2. Elements(f.todo) \subseteq Elements(Top(t).todo)
  BY <1>1, TodoFacts
<1> QED
  BY <1>1, <1>2 DEF FrameOK

\* A callback is skipped.
LEMMA SkipStep ==
    ASSUME TypeOK, StacksOK, NEW t \in Threads, SkipClosed(t)
    PROVE  StepOK(t) /\ Busy(t) /\ Top(t).op = "dispatch"
           /\ \E f : Replaces(t, f) /\ f.op = "dispatch" /\ f.owners = Top(t).owners
<1>1. PICK f : f = [Top(t) EXCEPT !.todo = Tail(@)]
  OBVIOUS
<1>2. /\ Busy(t) /\ Top(t).op = "dispatch" /\ Top(t).todo # <<>> /\ Become(t, f)
      /\ UNCHANGED <<subscriptions, retired_generations, retiring, writer, accepting, inserted>>
  BY <1>1 DEF SkipClosed, At, registry, admissions
<1>3. Top(t) \in Frame /\ Tail(Top(t).todo) \in Seq(Subs)
  <2>1. Top(t) \in Frame /\ Top(t).todo \in Seq(Subs)
    BY <1>2, TopOK
  <2> QED
    BY <1>2, <2>1, TodoFacts
<1>4. /\ f.op = "dispatch" /\ f.todo = Tail(Top(t).todo) /\ f.owners = Top(t).owners
      /\ f.batch = Top(t).batch
  BY <1>1, <1>2, <1>3 DEF Frame
<1>5. f \in Frame
  BY <1>1, <1>3 DEF Frame
<1>6. FrameOK(f)'
  BY <1>2, <1>4, <1>5, NextInSnapshot
<1>7. StepOK(t) /\ Replaces(t, f)
  BY <1>2, <1>4, <1>6, TopReplaced
<1> QED
  BY <1>2, <1>4, <1>7

\* A callback ends.
LEMMA ReturnStep ==
    ASSUME TypeOK, StacksOK, NEW t \in Threads, Return(t)
    PROVE  /\ StepOK(t) /\ Busy(t) /\ Top(t).op = "call"
           /\ \E f : Replaces(t, f) /\ f.op = "dispatch" /\ f.owners = Top(t).owners
           /\ Head(Top(t).todo) \in Subs
<1>1. PICK f : f = [Top(t) EXCEPT !.op = "dispatch", !.todo = Tail(@)]
  OBVIOUS
<1>2. /\ Busy(t) /\ Top(t).op = "call" /\ Become(t, f)
      /\ UNCHANGED <<subscriptions, retired_generations, retiring, writer, accepting, inserted>>
  BY <1>1 DEF Return, At, registry
<1>3. FrameOK(Top(t)) /\ Top(t) \in Frame /\ Top(t).todo \in Seq(Subs)
  BY <1>2, TopOK
<1>4. Top(t).todo # <<>>
  BY <1>2, <1>3 DEF FrameOK
<1>5. Tail(Top(t).todo) \in Seq(Subs) /\ Head(Top(t).todo) \in Subs
  BY <1>3, <1>4, TodoFacts
<1>6. /\ f.op = "dispatch" /\ f.todo = Tail(Top(t).todo) /\ f.owners = Top(t).owners
      /\ f.batch = Top(t).batch
  BY <1>1, <1>3 DEF Frame
<1>7. f \in Frame
  BY <1>1, <1>3, <1>5 DEF Frame, Ops
<1>8. FrameOK(f)'
  BY <1>2, <1>4, <1>6, <1>7, NextInSnapshot
<1>9. StepOK(t) /\ Replaces(t, f)
  BY <1>2, <1>6, <1>8, TopReplaced
<1> QED
  BY <1>2, <1>5, <1>6, <1>9

\* An owner is reaped, or still has a callback running.
LEMMA ReapStep ==
    ASSUME TypeOK, StacksOK, NEW t \in Threads, NEW o \in Owners, Reap(t, o)
    PROVE  /\ StepOK(t) /\ Busy(t) /\ Top(t).op \in {"dispatch", "waiting"} /\ o \in Top(t).owners
           /\ \/ Top(t).owners = {o} /\ Drops(t)
              \/ \E f : /\ Replaces(t, f) /\ f.op = Top(t).op /\ f.owners = Top(t).owners \ {o}
                        /\ f.todo = Top(t).todo /\ f.batch = Top(t).batch
<1>1. PICK f : f = [Top(t) EXCEPT !.owners = @ \ {o}]
  OBVIOUS
<1>2. /\ Busy(t) /\ Top(t).op \in {"dispatch", "waiting"} /\ Top(t).todo = <<>>
      /\ o \in Top(t).owners
      /\ UNCHANGED <<subscriptions, retired_generations, writer, accepting, inserted>>
      /\ (Top(t).owners = {o} /\ Pop(t)) \/ Become(t, f)
  BY <1>1 DEF Reap, At, admissions
<1>3. FrameOK(Top(t)) /\ Top(t) \in Frame
  BY <1>2, TopOK
<1>4. /\ f.op = Top(t).op /\ f.todo = Top(t).todo /\ f.batch = Top(t).batch
      /\ f.owners = Top(t).owners \ {o}
  BY <1>1, <1>3 DEF Frame
<1>5. f \in Frame
  BY <1>1, <1>3 DEF Frame
<1>6. Elements(f.todo) = {} /\ Done(f) = Done(Top(t))
  BY <1>2, <1>4 DEF Elements, Done
<1>7. FrameOK(f)'
  BY <1>2, <1>3, <1>4, <1>5, <1>6 DEF FrameOK
<1>8. CASE Top(t).owners = {o} /\ Pop(t)
  BY <1>2, <1>8, TopDropped
<1>9. CASE Become(t, f)
  BY <1>2, <1>4, <1>7, <1>9, TopReplaced
<1> QED
  BY <1>2, <1>8, <1>9

\* A frame that goes on to its next insertion has done one more.
LEMMA DoneNext ==
    ASSUME NEW g \in Frame, NEW f \in Frame, g.todo # <<>>,
           f.todo = Tail(g.todo), f.batch = g.batch, Len(g.todo) <= Len(g.batch),
           \A i \in 1..Len(g.todo) : g.todo[i] = g.batch[Len(g.batch) - Len(g.todo) + i]
    PROVE  /\ Len(f.todo) <= Len(f.batch)
           /\ \A i \in 1..Len(f.todo) : f.todo[i] = f.batch[Len(f.batch) - Len(f.todo) + i]
           /\ Done(f) = Done(g) \cup {Head(g.todo)}
           /\ Head(g.todo) \in Elements(g.batch)
<1> DEFINE n == Len(g.batch)
           k == Len(g.todo)
<1>1. g.todo \in Seq(Subs)
  BY DEF Frame
<1>2. n \in Nat /\ k \in Nat \ {0} /\ k <= n /\ DOMAIN g.batch = 1..n
  BY <1>1, FrameElements, TodoFacts
<1>3. /\ Head(g.todo) = g.todo[1] /\ Len(f.todo) = k - 1
      /\ \A i \in 1..(k - 1) : f.todo[i] = g.todo[i + 1]
  BY <1>1, TodoFacts
<1>4. \A i \in 1..k : g.todo[i] = g.batch[(n - k) + i]
  OBVIOUS
<1>5. Done(g) = {g.batch[i] : i \in 1..(n - k)}
  BY DEF Done
<1>6. Done(f) = {g.batch[i] : i \in 1..(n - (k - 1))}
  BY <1>3 DEF Done
<1>7. Len(f.batch) = n /\ Elements(g.batch) = {g.batch[i] : i \in 1..n}
  BY <1>2 DEF Elements
<1> HIDE DEF n, k
<1>8. Head(g.todo) = g.batch[n - k + 1] /\ n - k + 1 \in 1..n
  BY <1>2, <1>3, <1>4
<1>9. 1..(n - (k - 1)) = 1..(n - k) \cup {n - k + 1}
  BY <1>2
<1>10. Done(f) = Done(g) \cup {Head(g.todo)}
  BY <1>5, <1>6, <1>8, <1>9
<1>11. ASSUME NEW i \in 1..(k - 1)
       PROVE  f.todo[i] = g.batch[n - (k - 1) + i]
  <2>1. i + 1 \in 1..k /\ (n - k) + (i + 1) = n - (k - 1) + i
    BY <1>2
  <2> QED
    BY <1>3, <1>4, <2>1
<1>12. Len(f.todo) <= Len(f.batch)
  BY <1>2, <1>3, <1>7
<1>13. \A i \in 1..Len(f.todo) : f.todo[i] = f.batch[Len(f.batch) - Len(f.todo) + i]
  BY <1>3, <1>7, <1>11
<1>14. Head(g.todo) \in Elements(g.batch)
  BY <1>7, <1>8
<1> QED
  BY <1>10, <1>12, <1>13, <1>14

\* A wait is over: the insertion was closed when the wait began.
LEMMA WaitOverStep ==
    ASSUME TypeOK, StacksOK, NEW t \in Threads, WaitOver(t)
    PROVE  /\ StepOK(t) /\ Busy(t) /\ Top(t).op = "waiting" /\ Head(Top(t).todo) \in Subs
           /\ ~accepting[Head(Top(t).todo)]
           /\ \E f : /\ Replaces(t, f) /\ f.op = "waiting" /\ f.owners = Top(t).owners
                     /\ f \in Frame /\ Done(f) = Done(Top(t)) \cup {Head(Top(t).todo)}
<1>1. PICK f : f = [Top(t) EXCEPT !.todo = Tail(@)]
  OBVIOUS
<1>2. /\ Busy(t) /\ Top(t).op = "waiting" /\ Top(t).todo # <<>> /\ Become(t, f)
      /\ UNCHANGED <<subscriptions, retired_generations, writer, accepting, inserted>>
  BY <1>1 DEF WaitOver, At, admissions, registry
<1>3. FrameOK(Top(t)) /\ Top(t) \in Frame /\ Top(t).todo \in Seq(Subs)
  BY <1>2, TopOK
<1>4. /\ Tail(Top(t).todo) \in Seq(Subs) /\ Head(Top(t).todo) \in Subs
      /\ Elements(Tail(Top(t).todo)) \subseteq Elements(Top(t).todo)
  BY <1>2, <1>3, TodoFacts
<1>5. /\ f.op = "waiting" /\ f.todo = Tail(Top(t).todo) /\ f.batch = Top(t).batch
      /\ f.owners = Top(t).owners
  BY <1>1, <1>2, <1>3 DEF Frame
<1>6. f \in Frame
  BY <1>1, <1>3, <1>4 DEF Frame
<1>7. /\ Len(f.todo) <= Len(f.batch)
      /\ \A i \in 1..Len(f.todo) : f.todo[i] = f.batch[Len(f.batch) - Len(f.todo) + i]
      /\ Done(f) = Done(Top(t)) \cup {Head(Top(t).todo)}
      /\ Head(Top(t).todo) \in Elements(Top(t).batch)
  <2>1. /\ Len(Top(t).todo) <= Len(Top(t).batch)
        /\ \A i \in 1..Len(Top(t).todo) :
              Top(t).todo[i] = Top(t).batch[Len(Top(t).batch) - Len(Top(t).todo) + i]
    BY <1>2, <1>3 DEF FrameOK
  <2> QED
    BY <1>2, <1>3, <1>5, <1>6, <2>1, DoneNext
<1>8. \A s \in Elements(Top(t).batch) : ~accepting[s]
  BY <1>2, <1>3 DEF FrameOK
<1>9. Done(f) \subseteq Elements(f.batch)
  BY <1>6, FrameElements
<1>10. \A s \in Elements(f.todo) : s \in inserted /\ OwnerOf[s] \in f.owners
  BY <1>3, <1>4, <1>5 DEF FrameOK
<1>11. FrameOK(f)'
  BY <1>2, <1>5, <1>6, <1>7, <1>8, <1>9, <1>10 DEF FrameOK
<1>12. StepOK(t) /\ Replaces(t, f)
  BY <1>2, <1>5, <1>11, TopReplaced
<1> QED
  BY <1>2, <1>4, <1>5, <1>6, <1>7, <1>8, <1>12

\* A report is made, and the frame is over.
LEMMA ReportStep ==
    ASSUME TypeOK, StacksOK, NEW t \in Threads, Report(t)
    PROVE  /\ StepOK(t) /\ Busy(t) /\ Top(t).op = "reporting" /\ writer = Nobody
           /\ \A o \in Top(t).owners : o \in Owners /\ Cleaned(o) /\ Cleaned(o)'
           /\ Drops(t)
<1>1. /\ Busy(t) /\ Top(t).op = "reporting" /\ writer = Nobody /\ Pop(t)
      /\ UNCHANGED <<subscriptions, retired_generations, writer, accepting, inserted>>
  BY DEF Report, At, admissions
<1>2. StepOK(t) /\ Drops(t)
  BY <1>1, TopDropped
<1>3. \A o : Cleaned(o)' = Cleaned(o)
  BY <1>1, CalmIsMonotone
<1>4. \A o \in Top(t).owners : o \in Owners /\ Cleaned(o)
  BY <1>1, TopOK DEF FrameOK
<1> QED
  BY <1>1, <1>2, <1>3, <1>4

\* The watched insertion is closed, under the lock.
LEMMA CloseStep ==
    ASSUME TypeOK, StacksOK, NEW t \in Threads, CloseNext(t)
    PROVE  /\ StepOK(t) /\ Busy(t) /\ Top(t).op \in {"closing", "retiring"}
           /\ Top(t).todo # <<>> /\ Top(t).todo \in Seq(Subs)
           /\ Head(Top(t).todo) \in Subs /\ OwnerOf[Head(Top(t).todo)] \in Top(t).owners
           /\ \E f : /\ Replaces(t, f) /\ f.op = Top(t).op /\ f.owners = Top(t).owners
                     /\ f.todo = Tail(Top(t).todo)
<1>1. PICK f : f = [Top(t) EXCEPT !.todo = Tail(@)]
  OBVIOUS
<1> DEFINE s == Head(Top(t).todo)
<1>2. /\ Busy(t) /\ Top(t).op \in {"closing", "retiring"} /\ Top(t).todo # <<>> /\ Become(t, f)
      /\ UNCHANGED <<subscriptions, retired_generations, writer, inserted>>
      /\ accepting' = [accepting EXCEPT ![s] = FALSE]
  BY <1>1 DEF CloseNext, At
<1>3. FrameOK(Top(t)) /\ Top(t) \in Frame /\ Top(t).todo \in Seq(Subs)
  BY <1>2, TopOK
<1>4. /\ Tail(Top(t).todo) \in Seq(Subs) /\ s \in Subs
      /\ Elements(Tail(Top(t).todo)) \subseteq Elements(Top(t).todo)
      /\ s \in Elements(Top(t).todo)
  BY <1>2, <1>3, TodoFacts
<1> HIDE DEF s
<1>5. /\ f.op = Top(t).op /\ f.todo = Tail(Top(t).todo) /\ f.batch = Top(t).batch
      /\ f.owners = Top(t).owners
  BY <1>1, <1>3 DEF Frame
<1>6. f \in Frame
  BY <1>1, <1>3, <1>4 DEF Frame
<1>7. /\ \A r \in Subs : accepting'[r] = IF r = s THEN FALSE ELSE accepting[r]
      /\ \A r \in Subs : ~accepting[r] => ~accepting'[r]
  BY <1>2, <1>4 DEF TypeOK
<1>8. Monotone /\ \A o : Cleaned(o)' = Cleaned(o)
  BY <1>2, <1>7, CalmIsMonotone
<1>9. Top(t).op = "closing" =>
        /\ Len(f.todo) <= Len(f.batch)
        /\ \A i \in 1..Len(f.todo) : f.todo[i] = f.batch[Len(f.batch) - Len(f.todo) + i]
        /\ Done(f) = Done(Top(t)) \cup {s}
  <2> SUFFICES ASSUME Top(t).op = "closing"
               PROVE  /\ Len(f.todo) <= Len(f.batch)
                      /\ \A i \in 1..Len(f.todo) :
                            f.todo[i] = f.batch[Len(f.batch) - Len(f.todo) + i]
                      /\ Done(f) = Done(Top(t)) \cup {s}
    OBVIOUS
  <2>1. /\ Len(Top(t).todo) <= Len(Top(t).batch)
        /\ \A i \in 1..Len(Top(t).todo) :
              Top(t).todo[i] = Top(t).batch[Len(Top(t).batch) - Len(Top(t).todo) + i]
    BY <1>3 DEF FrameOK
  <2> QED
    BY <1>2, <1>3, <1>5, <1>6, <2>1, DoneNext DEF s
<1>10. Top(t).op = "closing" => \A r \in Done(f) : ~accepting'[r]
  <2>1. Done(Top(t)) \subseteq Subs
    BY <1>3, FrameElements
  <2> QED
    BY <1>3, <1>4, <1>7, <1>9, <2>1 DEF FrameOK
<1>11. /\ \A r \in Elements(f.todo) : r \in inserted /\ OwnerOf[r] \in f.owners
       /\ OwnerOf[s] \in f.owners
  BY <1>3, <1>4, <1>5 DEF FrameOK
<1>12. f.op = "closing" => \A r \in Elements(f.batch) : r \in inserted /\ OwnerOf[r] \in f.owners
  BY <1>3, <1>5 DEF FrameOK
<1>13. f.op = "retiring" => \A o \in f.owners : Cleaned(o)'
  BY <1>3, <1>5, <1>8 DEF FrameOK
<1>14. FrameOK(f)'
  BY <1>2, <1>5, <1>6, <1>9, <1>10, <1>11, <1>12, <1>13 DEF FrameOK
<1>15. Replaces(t, f)
  BY <1>2, <1>6, StackReplaced
<1>16. Busy(t)' /\ Top(t)' = f
  BY <1>2, <1>15, TopAfter
<1>17. writer' = t <=> At(t, "closing")' \/ At(t, "retiring")'
  BY <1>2, <1>5, <1>16 DEF StacksOK, At
<1>18. StepOK(t)
  BY <1>2, <1>8, <1>14, <1>15, <1>17 DEF StepOK, Changes
<1> QED
  BY <1>2, <1>3, <1>4, <1>5, <1>11, <1>15, <1>18 DEF s

\* All are closed: the lock is released, and the wait or the report begins.
LEMMA StagedStep ==
    ASSUME TypeOK, StacksOK, NEW t \in Threads, Staged(t)
    PROVE  /\ StepOK(t) /\ Busy(t) /\ Top(t).op \in {"closing", "retiring"} /\ writer = t
           /\ Top(t).todo = <<>>
           /\ \E f : /\ Replaces(t, f) /\ f.op \in {"waiting", "reporting"}
                     /\ f.owners = Top(t).owners
                     /\ f \in Frame /\ (f.op = "waiting" => Done(f) = {})
<1>1. PICK f : f = IF At(t, "closing") THEN [Top(t) EXCEPT !.op = "waiting", !.todo = Top(t).batch]
                                       ELSE [Top(t) EXCEPT !.op = "reporting"]
  OBVIOUS
<1>2. /\ Busy(t) /\ Top(t).op \in {"closing", "retiring"} /\ Top(t).todo = <<>>
      /\ Become(t, f) /\ writer' = Nobody
      /\ UNCHANGED <<subscriptions, retired_generations, accepting, inserted>>
  BY <1>1 DEF Staged, At, registry, admissions
<1>3. FrameOK(Top(t)) /\ Top(t) \in Frame
  BY <1>2, TopOK
<1>4. Top(t).op = "closing" => /\ f.op = "waiting" /\ f.todo = Top(t).batch
                               /\ f.batch = Top(t).batch /\ f.owners = Top(t).owners
  BY <1>1, <1>2, <1>3 DEF At, Frame
<1>5. Top(t).op = "retiring" => /\ f.op = "reporting" /\ f.todo = <<>>
                                /\ f.batch = Top(t).batch /\ f.owners = Top(t).owners
  BY <1>1, <1>2, <1>3 DEF At, Frame
<1>6. f \in Frame
  BY <1>1, <1>3 DEF Frame, Ops
<1>7. Monotone /\ \A o : Cleaned(o)' = Cleaned(o)
  BY <1>2, CalmIsMonotone
<1>8. Top(t).op = "closing" => Elements(Top(t).batch) = Done(Top(t))
  <2>1. Len(Top(t).todo) = 0 /\ Len(Top(t).batch) \in Nat
        /\ DOMAIN Top(t).batch = 1..Len(Top(t).batch)
    BY <1>2, <1>3, FrameElements, EmptySeq
  <2>2. Len(Top(t).batch) - Len(Top(t).todo) = Len(Top(t).batch)
    BY <2>1
  <2> QED
    BY <2>1, <2>2 DEF Elements, Done
<1>9. Top(t).op = "closing" => FrameOK(f)' /\ Done(f) = {}
  <2> SUFFICES ASSUME Top(t).op = "closing"
               PROVE  FrameOK(f)' /\ Done(f) = {}
    OBVIOUS
  <2>1. Len(Top(t).batch) \in Nat
    BY <1>3, FrameElements
  <2>2. 1..(Len(Top(t).batch) - Len(Top(t).batch)) = {}
    BY <2>1
  <2>3. Done(f) = {}
    BY <1>4, <2>2 DEF Done
  <2>4. \A s \in Elements(f.batch) : ~accepting[s] /\ s \in inserted /\ OwnerOf[s] \in f.owners
    BY <1>3, <1>4, <1>8 DEF FrameOK
  <2>5. \A i \in 1..Len(f.todo) : f.todo[i] = f.batch[Len(f.batch) - Len(f.todo) + i]
    <3>1. \A i \in 1..Len(Top(t).batch) : Len(Top(t).batch) - Len(Top(t).batch) + i = i
      BY <2>1
    <3> QED
      BY <1>4, <3>1
  <2>6. Len(f.todo) <= Len(f.batch)
    BY <1>4, <2>1
  <2> QED
    BY <1>2, <1>4, <1>6, <2>3, <2>4, <2>5, <2>6 DEF FrameOK
<1>10. Top(t).op = "retiring" => FrameOK(f)'
  <2> SUFFICES ASSUME Top(t).op = "retiring"
               PROVE  FrameOK(f)'
    OBVIOUS
  <2>1. Elements(f.todo) = {}
    BY <1>5 DEF Elements
  <2>2. \A o \in f.owners : Cleaned(o)'
    BY <1>3, <1>5, <1>7 DEF FrameOK
  <2> QED
    BY <1>5, <1>6, <2>1, <2>2 DEF FrameOK
<1>11. Replaces(t, f) /\ Busy(t)' /\ Top(t)' = f
  BY <1>2, <1>6, StackReplaced, TopAfter
<1>12. writer = t /\ Nobody # t
  BY <1>2, NobodyIsNoThread DEF StacksOK, At
<1>13. ~At(t, "closing")' /\ ~At(t, "retiring")'
  BY <1>2, <1>4, <1>5, <1>11 DEF At
<1>14. StepOK(t)
  BY <1>2, <1>7, <1>9, <1>10, <1>11, <1>12, <1>13 DEF StepOK, Changes
<1> QED
  BY <1>2, <1>4, <1>5, <1>6, <1>9, <1>11, <1>12, <1>14

\* The frame of an operation that begins.
LEMMA FramePushed ==
    ASSUME TypeOK, StacksOK, NEW t \in Threads, CanCall(t), NEW f, FrameOK(f)', Push(t, f),
           Monotone, writer = Nobody,
           IF f.op \in {"closing", "retiring"} THEN writer' = t ELSE writer' = writer
    PROVE  StepOK(t) /\ Pushes(t, f)
<1>1. f \in Frame
  BY DEF FrameOK
<1>2. Pushes(t, f) /\ Busy(t)' /\ Top(t)' = f
  BY <1>1, StackPushed, TopAfter
<1>3. writer' = t <=> At(t, "closing")' \/ At(t, "retiring")'
  BY <1>2, NobodyIsNoThread DEF At
<1> QED
  BY <1>2, <1>3 DEF StepOK, Changes

\* The frame that an operation begins with.
LEMMA NewFrameTyping ==
    ASSUME NEW op \in Ops, NEW q \in Seq(Subs)
    PROVE  /\ NewFrame(op, q) \in Frame
           /\ NewFrame(op, q).op = op /\ NewFrame(op, q).todo = q /\ NewFrame(op, q).batch = q
           /\ NewFrame(op, q).owners = {OwnerOf[s] : s \in Elements(q)}
<1>1. Elements(q) \subseteq Subs
  <2>1. DOMAIN q = 1..Len(q)
    BY LenProperties
  <2> QED
    BY <2>1, ElementOfSeq DEF Elements
<1>2. {OwnerOf[s] : s \in Elements(q)} \subseteq Owners
  BY <1>1 DEF Owners
<1> QED
  BY <1>2 DEF NewFrame, Frame

\* What a subscription list holds.
LEMMA ListFacts ==
    ASSUME TypeOK, NEW e \in Events, NEW S
    PROVE  /\ Only(subscriptions[e], S) \in Seq(Subs)
           /\ Elements(Only(subscriptions[e], S)) = Elements(subscriptions[e]) \cap S
           /\ Elements(subscriptions[e]) \subseteq Live
           /\ Elements(subscriptions[e]) \subseteq Subs
<1>1. subscriptions[e] \in Seq(Subs)
  BY DEF TypeOK
<1>2. DOMAIN subscriptions[e] = 1..Len(subscriptions[e])
  BY <1>1, LenProperties
<1>3. Elements(subscriptions[e]) \subseteq Subs
  BY <1>1, <1>2, ElementOfSeq DEF Elements
<1> QED
  BY <1>1, <1>3, OnlyFacts DEF Live

\* A dispatch begins on a snapshot of what is subscribed.
LEMMA RaiseStep ==
    ASSUME TypeOK, StacksOK, RegistryOK, NEW t \in Threads, NEW e \in Events, NEW signatures,
           Raise(t, e, signatures)
    PROVE  StepOK(t) /\ CanCall(t) /\ \E f : Pushes(t, f) /\ f.op = "dispatch"
<1> DEFINE snapshot == Only(subscriptions[e], {s \in Subs : OwnerOf[s].signature \in signatures})
<1>1. PICK q : q = snapshot
  OBVIOUS
<1>2. PICK f : f = [NewFrame("dispatch", q) EXCEPT !.batch = <<>>]
  OBVIOUS
<1>3. /\ CanCall(t) /\ writer = Nobody /\ Push(t, f)
      /\ UNCHANGED <<subscriptions, retired_generations, writer, accepting, inserted>>
  BY <1>1, <1>2 DEF Raise, registry, admissions
<1>4. q \in Seq(Subs) /\ Elements(q) \subseteq inserted
  BY <1>1, ListFacts DEF RegistryOK
<1>5. /\ NewFrame("dispatch", q) \in Frame
      /\ NewFrame("dispatch", q).op = "dispatch" /\ NewFrame("dispatch", q).todo = q
      /\ NewFrame("dispatch", q).owners = {OwnerOf[s] : s \in Elements(q)}
  BY <1>4, NewFrameTyping DEF Ops
<1>6. f \in Frame
  <2> DEFINE g == NewFrame("dispatch", q)
  <2>1. g \in Frame /\ f = [g EXCEPT !.batch = <<>>]
    BY <1>2, <1>5
  <2>2. <<>> \in Seq(Subs)
    BY EmptySeq
  <2> HIDE DEF g
  <2> QED
    BY <2>1, <2>2 DEF Frame
<1>7. f.op = "dispatch" /\ f.todo = q /\ f.owners = {OwnerOf[s] : s \in Elements(q)}
  BY <1>2, <1>5 DEF Frame
<1>8. FrameOK(f)'
  BY <1>3, <1>4, <1>6, <1>7 DEF FrameOK
<1>9. Monotone
  BY <1>3, CalmIsMonotone
<1> QED
  BY <1>3, <1>7, <1>8, <1>9, FramePushed

\* A retired generation stays retired while subscriptions only go.
LEMMA RemovalIsMonotone ==
    ASSUME TypeOK, UNCHANGED <<inserted, accepting>>, Live' \subseteq Live,
           \A g \in Signatures : /\ retired_generations'[g] \in Nat
                                 /\ retired_generations[g] <= retired_generations'[g]
    PROVE  Monotone
<1>1. ASSUME NEW o \in Owners, Cleaned(o)
      PROVE  Cleaned(o)'
  <2>1. PICK s \in Subs : o = OwnerOf[s]
    BY DEF Owners
  <2>2. o.signature \in Signatures /\ o.generation \in Nat
    BY <2>1, OwnersAreTokens
  <2>3. retired_generations[o.signature] \in Nat
    BY <2>2 DEF TypeOK
  <2> QED
    BY <1>1, <2>2, <2>3 DEF Cleaned
<1> QED
  BY <1>1 DEF Monotone

\* The matched insertions are taken out, to be closed one by one.
LEMMA UnsubscribeStep ==
    ASSUME TypeOK, StacksOK, RegistryOK, NEW t \in Threads, NEW e \in Events, NEW matched,
           Unsubscribe(t, e, matched)
    PROVE  /\ StepOK(t) /\ CanCall(t) /\ writer = Nobody /\ writer' = t
           /\ Live' \subseteq Live
           /\ subscriptions' \in [Events -> Seq(Subs)]
           /\ \E f : Pushes(t, f) /\ f.op = "closing" /\ Live \ Live' \subseteq Elements(f.todo)
<1>1. PICK q : q = Only(subscriptions[e], matched)
  OBVIOUS
<1>2. PICK f : f = NewFrame("closing", q)
  OBVIOUS
<1> DEFINE rest == Only(subscriptions[e], Subs \ matched)
<1>3. /\ CanCall(t) /\ writer = Nobody /\ writer' = t /\ Push(t, f)
      /\ subscriptions' = [subscriptions EXCEPT ![e] = rest]
      /\ UNCHANGED <<retired_generations, accepting, inserted>>
  BY <1>1, <1>2 DEF Unsubscribe, admissions
<1>4. /\ q \in Seq(Subs) /\ Elements(q) = Elements(subscriptions[e]) \cap matched
      /\ Elements(q) \subseteq inserted
  BY <1>1, ListFacts DEF RegistryOK
<1>5. /\ rest \in Seq(Subs)
      /\ Elements(rest) = Elements(subscriptions[e]) \cap (Subs \ matched)
      /\ Elements(subscriptions[e]) \subseteq Subs
  BY ListFacts
<1> HIDE DEF rest
<1>6. /\ subscriptions' \in [Events -> Seq(Subs)]
      /\ \A d \in Events : subscriptions'[d] = IF d = e THEN rest ELSE subscriptions[d]
  BY <1>3, <1>5 DEF TypeOK
<1>7. ASSUME NEW s
      PROVE  /\ s \in Live' => s \in Live
             /\ s \in Live /\ s \notin Live' => s \in Elements(q)
  <2>1. s \in Live' <=> \E d \in Events : s \in Elements(subscriptions'[d])
    BY DEF Live
  <2>2. s \in Live <=> \E d \in Events : s \in Elements(subscriptions[d])
    BY DEF Live
  <2>3. s \in Elements(rest) => s \in Elements(subscriptions[e])
    BY <1>5
  <2>4. s \in Elements(subscriptions[e]) => s \in Elements(rest) \/ s \in Elements(q)
    BY <1>4, <1>5
  <2> QED
    BY <1>6, <2>1, <2>2, <2>3, <2>4
<1>8. Live' \subseteq Live /\ Live \ Live' \subseteq Elements(q)
  BY <1>7
<1>9. /\ f \in Frame /\ f.op = "closing" /\ f.todo = q /\ f.batch = q
      /\ f.owners = {OwnerOf[s] : s \in Elements(q)}
  BY <1>2, <1>4, NewFrameTyping DEF Ops
<1>10. FrameOK(f)'
  <2>1. Len(q) \in Nat
    BY <1>4, LenProperties
  <2>2. Done(f) = {}
    <3>1. 1..(Len(q) - Len(q)) = {}
      BY <2>1
    <3> QED
      BY <1>9, <3>1 DEF Done
  <2>3. \A i \in 1..Len(f.todo) : f.todo[i] = f.batch[Len(f.batch) - Len(f.todo) + i]
    <3>1. \A i \in 1..Len(q) : Len(q) - Len(q) + i = i
      BY <2>1
    <3> QED
      BY <1>9, <3>1
  <2>4. Len(f.todo) <= Len(f.batch)
    BY <1>9, <2>1
  <2> QED
    BY <1>3, <1>4, <1>9, <2>2, <2>3, <2>4 DEF FrameOK
<1>11. \A g \in Signatures : /\ retired_generations'[g] \in Nat
                             /\ retired_generations[g] <= retired_generations'[g]
  BY <1>3 DEF TypeOK
<1>12. Monotone
  BY <1>3, <1>8, <1>11, RemovalIsMonotone
<1> QED
  BY <1>3, <1>6, <1>8, <1>9, <1>10, <1>12, FramePushed

\* A cleanup retires the generation and takes its insertions out, to be closed.
LEMMA RemoveOwnerStep ==
    ASSUME TypeOK, StacksOK, RegistryOK, NEW t \in Threads, NEW o \in Owners, RemoveOwner(t, o)
    PROVE  /\ StepOK(t) /\ CanCall(t) /\ writer = Nobody /\ writer' = t
           /\ Live' \subseteq Live /\ \A s \in Live' : OwnerOf[s] # o
           /\ subscriptions' \in [Events -> Seq(Subs)]
           /\ retired_generations' \in [Signatures -> Nat]
           /\ \A g \in Signatures :
                 retired_generations'[g] = IF g = o.signature
                                           THEN Larger(retired_generations[g], o.generation)
                                           ELSE retired_generations[g]
           /\ \E f : Pushes(t, f) /\ f.op = "retiring" /\ Live \ Live' \subseteq Elements(f.todo)
<1> DEFINE owned == {s \in Subs : OwnerOf[s] = o}
           removed == Live \cap owned
<1>1. PICK q \in [1..Cardinality(removed) -> removed] :
         /\ Elements(q) = removed
         /\ Push(t, [NewFrame("retiring", q) EXCEPT !.batch = <<>>, !.owners = {o}])
  BY DEF RemoveOwner
<1>2. PICK f : f = [NewFrame("retiring", q) EXCEPT !.batch = <<>>, !.owners = {o}]
  OBVIOUS
<1>3. /\ CanCall(t) /\ writer = Nobody /\ writer' = t /\ Push(t, f)
      /\ retired_generations' =
            [retired_generations EXCEPT ![o.signature] = Larger(@, o.generation)]
      /\ subscriptions' = [e \in Events |-> Only(subscriptions[e], Subs \ owned)]
      /\ UNCHANGED <<accepting, inserted>>
  BY <1>1, <1>2 DEF RemoveOwner, admissions
<1>4. o.signature \in Signatures /\ o.generation \in Nat
  <2>1. PICK s \in Subs : o = OwnerOf[s]
    BY DEF Owners
  <2> QED
    BY <2>1, OwnersAreTokens
<1>5. removed \subseteq inserted /\ removed \subseteq Subs
  BY DEF RegistryOK
<1>6. q \in Seq(Subs)
  <2>1. IsFiniteSet(removed)
    BY <1>5, FS_Subset DEF RegistryOK
  <2>2. Cardinality(removed) \in Nat
    BY <2>1, FS_CardinalityType
  <2> HIDE DEF removed
  <2> QED
    BY <1>5, <2>2
<1>7. ASSUME NEW e \in Events
      PROVE  /\ subscriptions'[e] \in Seq(Subs)
             /\ Elements(subscriptions'[e]) = Elements(subscriptions[e]) \cap (Subs \ owned)
             /\ Elements(subscriptions[e]) \subseteq Subs
  BY <1>3, ListFacts
<1>8. ASSUME NEW s
      PROVE  /\ s \in Live' => s \in Live /\ s \notin owned /\ s \in Subs
             /\ s \in Live /\ s \notin Live' => s \in removed
  <2>1. s \in Live' <=> \E d \in Events : s \in Elements(subscriptions'[d])
    BY DEF Live
  <2>2. s \in Live <=> \E d \in Events : s \in Elements(subscriptions[d])
    BY DEF Live
  <2> QED
    BY <1>7, <2>1, <2>2
<1>9. Live' \subseteq Live /\ Live \ Live' \subseteq removed /\ \A s \in Live' : OwnerOf[s] # o
  BY <1>8
<1>10. subscriptions' \in [Events -> Seq(Subs)]
  <2>1. subscriptions' = [e \in Events |-> subscriptions'[e]]
    BY <1>3
  <2> QED
    BY <1>7, <2>1
<1>11. /\ retired_generations' \in [Signatures -> Nat]
       /\ \A g \in Signatures :
             retired_generations'[g] = IF g = o.signature
                                       THEN Larger(retired_generations[g], o.generation)
                                       ELSE retired_generations[g]
  <2>1. /\ retired_generations \in [Signatures -> Nat]
        /\ Larger(retired_generations[o.signature], o.generation) \in Nat
    BY <1>4 DEF TypeOK, Larger
  <2> QED
    BY <1>3, <1>4, <2>1
<1>12. \A g \in Signatures : /\ retired_generations'[g] \in Nat
                             /\ retired_generations[g] <= retired_generations'[g]
  <2> TAKE g \in Signatures
  <2>1. retired_generations[g] \in Nat /\ o.generation \in Nat
    BY <1>4 DEF TypeOK
  <2>2. \A a, b \in Nat : Larger(a, b) \in Nat /\ a <= Larger(a, b) /\ b <= Larger(a, b)
    BY DEF Larger
  <2>3. CASE g = o.signature
    <3>1. retired_generations'[g] = Larger(retired_generations[g], o.generation)
      BY <1>11, <2>3
    <3> QED
      BY <2>1, <2>2, <3>1
  <2>4. CASE g # o.signature
    BY <1>11, <2>1, <2>4
  <2> QED
    BY <2>3, <2>4
<1>13. Monotone
  BY <1>3, <1>9, <1>12, RemovalIsMonotone
<1>14. /\ f \in Frame /\ f.op = "retiring" /\ f.todo = q /\ f.owners = {o}
  <2>1. PICK g : g = NewFrame("retiring", q)
    OBVIOUS
  <2>2. g \in Frame /\ g.op = "retiring" /\ g.todo = q
    BY <1>6, <2>1, NewFrameTyping DEF Ops
  <2>3. f = [g EXCEPT !.batch = <<>>, !.owners = {o}]
    BY <1>2, <2>1
  <2>4. <<>> \in Seq(Subs) /\ {o} \in SUBSET Owners
    BY EmptySeq
  <2>5. f.op = "retiring" /\ f.todo = q /\ f.owners = {o}
    BY <2>2, <2>3 DEF Frame
  <2> QED
    BY <2>2, <2>3, <2>4, <2>5 DEF Frame
<1>15. Cleaned(o)'
  <2>1. retired_generations[o.signature] \in Nat
    BY <1>4 DEF TypeOK
  <2>2. \A a, b \in Nat : b <= Larger(a, b)
    BY DEF Larger
  <2>3. o.generation <= retired_generations'[o.signature]
    BY <1>4, <1>11, <2>1, <2>2
  <2> QED
    BY <1>9, <2>3 DEF Cleaned
<1> HIDE DEF removed
<1>16. \A s \in Elements(f.todo) : s \in inserted' /\ OwnerOf[s] \in f.owners
  BY <1>1, <1>3, <1>5, <1>14 DEF removed
<1>17. FrameOK(f)'
  BY <1>14, <1>15, <1>16 DEF FrameOK
<1>18. StepOK(t) /\ Pushes(t, f)
  BY <1>3, <1>13, <1>14, <1>17, FramePushed
<1> QED
  BY <1>1, <1>3, <1>9, <1>10, <1>11, <1>14, <1>18

\* An insertion of a generation that was not retired.
LEMMA SubscribeStep ==
    ASSUME TypeOK, StacksOK, RegistryOK, NEW t \in Threads, NEW s \in Subs, Subscribe(t, s)
    PROVE  /\ StepOK(t) /\ stack' = stack
           /\ s \notin inserted /\ inserted' = inserted \cup {s} /\ Live' = Live \cup {s}
           /\ OwnerOf[s].generation > retired_generations[OwnerOf[s].signature]
           /\ subscriptions' \in [Events -> Seq(Subs)]
           /\ UNCHANGED <<retired_generations, retiring, writer, admissions, silent>>
<1> DEFINE e == EventOf[s]
<1>1. /\ s \notin inserted /\ inserted' = inserted \cup {s} /\ writer = Nobody
      /\ OwnerOf[s].generation > retired_generations[OwnerOf[s].signature]
      /\ subscriptions' = [subscriptions EXCEPT ![e] = Append(@, s)]
      /\ UNCHANGED <<retired_generations, retiring, writer, admissions, stack, silent>>
  BY DEF Subscribe
<1>2. e \in Events
  BY DEF Events
<1> HIDE DEF e
<1>3. subscriptions \in [Events -> Seq(Subs)] /\ subscriptions[e] \in Seq(Subs)
  BY <1>2 DEF TypeOK
<1>4. /\ Append(subscriptions[e], s) \in Seq(Subs)
      /\ Elements(Append(subscriptions[e], s)) = Elements(subscriptions[e]) \cup {s}
  BY <1>3, AppendProperties, ElementsAppend
<1>5. /\ subscriptions' \in [Events -> Seq(Subs)]
      /\ \A d \in Events : subscriptions'[d] = IF d = e THEN Append(subscriptions[e], s)
                                                        ELSE subscriptions[d]
  BY <1>1, <1>2, <1>3, <1>4
<1>6. ASSUME NEW r
      PROVE  r \in Live' <=> r \in Live \/ r = s
  <2>1. r \in Live' <=> \E d \in Events : r \in Elements(subscriptions'[d])
    BY DEF Live
  <2>2. r \in Live <=> \E d \in Events : r \in Elements(subscriptions[d])
    BY DEF Live
  <2> QED
    BY <1>2, <1>4, <1>5, <2>1, <2>2
<1>7. Live' = Live \cup {s}
  BY <1>6
<1>8. ASSUME NEW o \in Owners, Cleaned(o)
      PROVE  Cleaned(o)'
  <2>1. OwnerOf[s] # o
    <3>1. OwnerOf[s].signature \in Signatures /\ OwnerOf[s].generation \in Nat
      BY OwnersAreTokens
    <3> QED
      BY <1>1, <1>8, <3>1 DEF Cleaned, TypeOK
  <2> QED
    BY <1>1, <1>7, <1>8, <2>1 DEF Cleaned
<1>9. Monotone
  BY <1>1, <1>8 DEF Monotone, admissions
<1>10. writer' = t <=> At(t, "closing")' \/ At(t, "retiring")'
  BY <1>1 DEF StacksOK, At, Busy, Top
<1>11. StepOK(t)
  BY <1>1, <1>9, <1>10 DEF StepOK, Changes
<1> QED
  BY <1>1, <1>5, <1>7, <1>11
-----------------------------------------------------------------------------
(* The counters are the callbacks that run. *)

Pairs(s) == UNION {{t} \X Running(t, s) : t \in Threads}

\* Callbacks that run are places on finite stacks.
LEMMA RunningFacts ==
    ASSUME TypeOK, NEW s
    PROVE  /\ \A t \in Threads :
                 IsFiniteSet(Running(t, s)) /\ Running(t, s) \subseteq 1..Len(stack[t])
           /\ IsFiniteSet(Pairs(s))
           /\ \A x : x \in Pairs(s) <=> \E t \in Threads : \E i \in Running(t, s) : x = <<t, i>>
<1>1. ASSUME NEW t \in Threads
      PROVE  IsFiniteSet(Running(t, s)) /\ Running(t, s) \subseteq 1..Len(stack[t])
  <2>1. Len(stack[t]) \in Nat /\ DOMAIN stack[t] = 1..Len(stack[t])
    BY DEF TypeOK
  <2>2. Running(t, s) \subseteq 1..Len(stack[t])
    BY <2>1 DEF Running, Calling
  <2>3. IsFiniteSet(1..Len(stack[t]))
    BY <2>1, FS_Interval
  <2> QED
    BY <2>2, <2>3, FS_Subset
<1>2. ASSUME NEW t \in Threads
      PROVE  IsFiniteSet({t} \X Running(t, s))
  BY <1>1, FS_Singleton, FS_Product
<1> DEFINE sets == {{t} \X Running(t, s) : t \in Threads}
<1>3. IsFiniteSet(sets)
  <2> DEFINE image == [t \in Threads |-> {t} \X Running(t, s)]
  <2>1. image \in Surjection(Threads, sets)
    BY DEF Surjection
  <2> QED
    BY <2>1, ThreadsFinite, FS_Surjection
<1>4. \A S \in sets : IsFiniteSet(S)
  BY <1>2
<1>5. Pairs(s) = UNION sets
  BY DEF Pairs
<1>6. \A x : x \in Pairs(s) <=> \E t \in Threads : \E i \in Running(t, s) : x = <<t, i>>
  BY DEF Pairs
<1> HIDE DEF sets
<1>7. IsFiniteSet(Pairs(s))
  BY <1>3, <1>4, <1>5, FS_UNION
<1> QED
  BY <1>1, <1>6, <1>7

\* A step that neither begins nor ends a callback.
Quiet(t) ==
    \/ stack' = stack
    \/ \E f : Pushes(t, f) /\ f.op # "call"
    \/ Busy(t) /\ Top(t).op # "call" /\ (Drops(t) \/ \E f : Replaces(t, f) /\ f.op # "call")

LEMMA RunningKept ==
    ASSUME TypeOK, NEW t \in Threads, Quiet(t)
    PROVE  \A s : \A u \in Threads : Running(u, s)' = Running(u, s)
<1> DEFINE n == Len(stack[t])
<1>1. /\ stack' \in [Threads -> Seq(Frame)] /\ stack \in [Threads -> Seq(Frame)] /\ Others(t)
      /\ n \in Nat
  BY DEF Quiet, Pushes, Replaces, Drops, Keeps, TypeOK, Others
<1>2. ASSUME NEW u \in Threads, NEW s, u # t \/ stack' = stack
      PROVE  Running(u, s)' = Running(u, s)
  <2>1. stack'[u] = stack[u]
    BY <1>1, <1>2 DEF Others
  <2> QED
    BY <2>1 DEF Running, Calling
<1>3. \A i : i \in 1..Len(stack[t]) <=> i \in DOMAIN stack[t]
  BY <1>1
<1>4. \A i : i \in 1..Len(stack'[t]) <=> i \in DOMAIN stack'[t]
  BY <1>1
<1>5. ASSUME NEW i
      PROVE  i \in DOMAIN stack'[t] /\ stack'[t][i].op = "call"
                <=> i \in DOMAIN stack[t] /\ stack[t][i].op = "call"
  <2>1. CASE stack' = stack
    BY <2>1
  <2>2. CASE \E f : Pushes(t, f) /\ f.op # "call"
    BY <1>1, <1>3, <1>4, <2>2 DEF Pushes, Keeps
  <2>3. CASE Busy(t) /\ Top(t).op # "call" /\ Drops(t)
    <3>1. stack[t][n].op # "call"
      BY <2>3 DEF Top
    <3>2. Len(stack'[t]) = n - 1 /\ \A k \in 1..(n - 1) : stack'[t][k] = stack[t][k]
      BY <2>3 DEF Drops, Keeps
    <3>3. n # 0 => n \notin 1..(n - 1) /\ \A k : k \in 1..n <=> k = n \/ k \in 1..(n - 1)
      BY <1>1
    <3>4. n # 0
      BY <2>3, TopFacts
    <3> HIDE DEF n
    <3>5. DOMAIN stack[t] = 1..n /\ DOMAIN stack'[t] = 1..(n - 1)
      BY <1>1, <3>2 DEF n
    <3>6. CASE i = n
      BY <3>1, <3>3, <3>4, <3>5, <3>6
    <3>7. CASE i # n
      BY <3>2, <3>3, <3>4, <3>5, <3>7
    <3> QED
      BY <3>6, <3>7
  <2>4. CASE Busy(t) /\ Top(t).op # "call" /\ \E f : Replaces(t, f) /\ f.op # "call"
    <3>1. stack[t][n].op # "call"
      BY <2>4 DEF Top
    <3>2. /\ Len(stack'[t]) = n /\ stack'[t][n].op # "call"
          /\ \A k \in 1..(n - 1) : stack'[t][k] = stack[t][k]
      BY <2>4 DEF Replaces, Keeps
    <3>3. n # 0 => n - 1 \in Nat /\ n \in 1..n /\ n \notin 1..(n - 1)
                   /\ \A k : k \in 1..n <=> k = n \/ k \in 1..(n - 1)
      BY <1>1
    <3>4. n # 0
      BY <2>4, TopFacts
    <3> HIDE DEF n
    <3>5. DOMAIN stack[t] = 1..n /\ DOMAIN stack'[t] = 1..n
      BY <1>3, <1>4, <3>2 DEF n
    <3>6. CASE i = n
      BY <3>1, <3>2, <3>6
    <3>7. CASE i # n
      BY <3>2, <3>3, <3>4, <3>5, <3>7
    <3> QED
      BY <3>6, <3>7
  <2> QED
    BY <2>1, <2>2, <2>3, <2>4 DEF Quiet
<1>6. ASSUME NEW i \in DOMAIN stack[t], stack[t][i].op = "call"
      PROVE  stack'[t][i] = stack[t][i]
  <2>1. CASE stack' = stack
    BY <2>1
  <2>2. CASE \E f : Pushes(t, f) /\ f.op # "call"
    BY <1>3, <1>6, <2>2 DEF Pushes, Keeps
  <2>3. CASE Busy(t) /\ Top(t).op # "call" /\ (Drops(t) \/ \E f : Replaces(t, f) /\ f.op # "call")
    <3>1. stack[t][n].op # "call"
      BY <2>3 DEF Top
    <3>2. \A k \in 1..(n - 1) : stack'[t][k] = stack[t][k]
      BY <2>3 DEF Replaces, Drops, Keeps
    <3> QED
      BY <1>1, <1>3, <1>6, <3>1, <3>2
  <2> QED
    BY <2>1, <2>2, <2>3 DEF Quiet
<1>7. ASSUME NEW s
      PROVE  Running(t, s)' = Running(t, s)
  <2>1. ASSUME NEW i PROVE i \in Running(t, s)' <=> i \in Running(t, s)
    BY <1>5, <1>6 DEF Running, Calling
  <2>2. Running(t, s)' \subseteq Running(t, s) /\ Running(t, s) \subseteq Running(t, s)'
    BY <2>1
  <2> QED
    BY <2>2
<1> QED
  BY <1>2, <1>7

\* The frame on top is replaced: only its own place may start or stop running.
LEMMA RunningReplaced ==
    ASSUME TypeOK, NEW t \in Threads, Busy(t), NEW f, Replaces(t, f)
    PROVE  \E n \in Nat :
             /\ \A s, i : \A u \in Threads :
                u # t \/ i # n => (i \in Running(u, s)' <=> i \in Running(u, s))
             /\ \A s : n \in Running(t, s) <=> Top(t).op = "call" /\ Head(Top(t).todo) = s
             /\ \A s : n \in Running(t, s)' <=> f.op = "call" /\ Head(f.todo) = s
<1> DEFINE n == Len(stack[t])
<1>1. n \in Nat \ {0} /\ Top(t) = stack[t][n]
  BY TopFacts
<1>2. /\ stack' \in [Threads -> Seq(Frame)] /\ stack \in [Threads -> Seq(Frame)] /\ Others(t)
      /\ Len(stack'[t]) = n /\ stack'[t][n] = f
      /\ \A k \in 1..(n - 1) : stack'[t][k] = stack[t][k]
  BY DEF Replaces, Keeps, TypeOK
<1>3. DOMAIN stack[t] = 1..n /\ DOMAIN stack'[t] = 1..n
  BY <1>2
<1> HIDE DEF n
<1>4. n \in 1..n /\ \A k : k \in 1..n <=> k = n \/ k \in 1..(n - 1)
  BY <1>1
<1>5. ASSUME NEW u \in Threads, NEW s, NEW i, u # t \/ i # n
      PROVE  i \in Running(u, s)' <=> i \in Running(u, s)
  <2>1. CASE u # t
    <3>1. stack'[u] = stack[u]
      BY <1>2, <2>1 DEF Others
    <3> QED
      BY <3>1 DEF Running, Calling
  <2>2. CASE u = t
    BY <1>2, <1>3, <1>4, <1>5, <2>2 DEF Running, Calling
  <2> QED
    BY <2>1, <2>2
<1>6. \A s : n \in Running(t, s) <=> Top(t).op = "call" /\ Head(Top(t).todo) = s
  BY <1>1, <1>3, <1>4 DEF Running, Calling
<1>7. \A s : n \in Running(t, s)' <=> f.op = "call" /\ Head(f.todo) = s
  BY <1>2, <1>3, <1>4 DEF Running, Calling
<1> QED
  BY <1>1, <1>5, <1>6, <1>7

CountersTyped ==
    in_flight \in [Subs -> Nat] /\ by_thread \in [Subs -> [Threads -> Nat]]

\* Nothing began or ended, and nothing was counted.
LEMMA CountsKept ==
    ASSUME TypeOK, CountersMatchFrames, NEW t \in Threads, Quiet(t),
           UNCHANGED <<in_flight, by_thread>>
    PROVE  CountersTyped' /\ CountersMatchFrames'
<1>1. \A s : \A u \in Threads : Running(u, s)' = Running(u, s)
  BY RunningKept
<1>2. ASSUME NEW s
      PROVE  Pairs(s)' = Pairs(s)
  <2>1. {{u} \X Running(u, s)' : u \in Threads} = {{u} \X Running(u, s) : u \in Threads}
    BY <1>1
  <2> QED
    BY <2>1 DEF Pairs
<1>3. \A s \in Subs : /\ \A u \in Threads : by_thread'[s][u] = Cardinality(Running(u, s)')
                      /\ in_flight'[s] = Cardinality(Pairs(s)')
  BY <1>1, <1>2 DEF CountersMatchFrames, Pairs
<1>4. CountersMatchFrames'
  BY <1>3 DEF CountersMatchFrames, Pairs
<1> QED
  BY <1>4 DEF TypeOK, CountersTyped

\* A callback that begins is counted, in total and for its thread.
LEMMA AdmitCounts ==
    ASSUME TypeOK, StacksOK, CountersMatchFrames, NEW t \in Threads, Admit(t)
    PROVE  /\ CountersTyped' /\ CountersMatchFrames'
           /\ \A s : \A u \in Threads : s # Head(Top(t).todo) => Running(u, s)' = Running(u, s)
           /\ \A s \in Subs : s # Head(Top(t).todo) => in_flight'[s] = in_flight[s]
<1>1. PICK r : r = Head(Top(t).todo)
  OBVIOUS
<1>2. PICK f : Replaces(t, f) /\ f.op = "call" /\ Head(f.todo) = r
  BY <1>1, AdmitStep
<1>3. Busy(t) /\ Top(t).op # "call" /\ r \in Subs
  BY <1>1, AdmitStep
<1>4. PICK n \in Nat :
        /\ \A s, i : \A u \in Threads :
                u # t \/ i # n => (i \in Running(u, s)' <=> i \in Running(u, s))
        /\ \A s : n \in Running(t, s) <=> Top(t).op = "call" /\ Head(Top(t).todo) = s
        /\ \A s : n \in Running(t, s)' <=> f.op = "call" /\ Head(f.todo) = s
  BY <1>2, <1>3, RunningReplaced
<1>5. /\ in_flight' = [in_flight EXCEPT ![r] = @ + 1]
      /\ by_thread' = [by_thread EXCEPT ![r][t] = @ + 1]
  BY <1>1 DEF Admit
<1>6. /\ in_flight' \in [Subs -> Nat] /\ by_thread' \in [Subs -> [Threads -> Nat]]
      /\ \A s \in Subs : in_flight'[s] = IF s = r THEN in_flight[s] + 1 ELSE in_flight[s]
      /\ \A s \in Subs, u \in Threads :
            by_thread'[s][u] = IF s = r /\ u = t THEN by_thread[s][u] + 1 ELSE by_thread[s][u]
  BY <1>3, <1>5 DEF TypeOK
<1>7. ASSUME NEW u \in Threads, NEW s, u # t \/ s # r
      PROVE  Running(u, s)' = Running(u, s)
  <2>1. \A i : i \in Running(u, s)' <=> i \in Running(u, s)
    BY <1>2, <1>3, <1>4, <1>7
  <2>2. Running(u, s)' \subseteq Running(u, s) /\ Running(u, s) \subseteq Running(u, s)'
    BY <2>1
  <2> QED
    BY <2>2
<1>8. Running(t, r)' = Running(t, r) \cup {n} /\ n \notin Running(t, r)
  <2>1. \A i : i \in Running(t, r)' <=> i \in Running(t, r) \/ i = n
    BY <1>2, <1>3, <1>4
  <2>2. /\ Running(t, r)' \subseteq Running(t, r) \cup {n}
        /\ Running(t, r) \cup {n} \subseteq Running(t, r)'
    BY <2>1
  <2> QED
    BY <1>3, <1>4, <2>2
<1>9. \A s, x : x \in Pairs(s)' <=> \E u \in Threads : \E i \in Running(u, s)' : x = <<u, i>>
  BY DEF Pairs
<1>10. \A s, x : x \in Pairs(s) <=> \E u \in Threads : \E i \in Running(u, s) : x = <<u, i>>
  BY RunningFacts
<1>11. ASSUME NEW s, s # r
       PROVE  Pairs(s)' = Pairs(s)
  <2>1. \A x : x \in Pairs(s)' <=> x \in Pairs(s)
    BY <1>7, <1>9, <1>10, <1>11
  <2>2. Pairs(s)' \subseteq Pairs(s) /\ Pairs(s) \subseteq Pairs(s)'
    BY <2>1
  <2> QED
    BY <2>2
<1>12. Pairs(r)' = Pairs(r) \cup {<<t, n>>} /\ <<t, n>> \notin Pairs(r)
  <2>1. ASSUME NEW x PROVE x \in Pairs(r)' <=> x \in Pairs(r) \/ x = <<t, n>>
    <3>1. x \in Pairs(r)' => x \in Pairs(r) \/ x = <<t, n>>
      BY <1>7, <1>8, <1>9, <1>10
    <3>2. x \in Pairs(r) => x \in Pairs(r)'
      BY <1>7, <1>8, <1>9, <1>10
    <3>3. <<t, n>> \in Pairs(r)'
      BY <1>8, <1>9
    <3> QED
      BY <3>1, <3>2, <3>3
  <2>2. Pairs(r)' \subseteq Pairs(r) \cup {<<t, n>>} /\ Pairs(r) \cup {<<t, n>>} \subseteq Pairs(r)'
    BY <2>1
  <2>3. <<t, n>> \notin Pairs(r)
    BY <1>8, <1>10
  <2> QED
    BY <2>2, <2>3
<1>13. /\ Cardinality(Pairs(r)') = Cardinality(Pairs(r)) + 1
       /\ Cardinality(Running(t, r)') = Cardinality(Running(t, r)) + 1
  <2>1. IsFiniteSet(Pairs(r)) /\ IsFiniteSet(Running(t, r))
    BY RunningFacts
  <2>2. Cardinality(Pairs(r) \cup {<<t, n>>}) = Cardinality(Pairs(r)) + 1
    BY <1>12, <2>1, FS_AddElement
  <2>3. Cardinality(Running(t, r) \cup {n}) = Cardinality(Running(t, r)) + 1
    BY <1>8, <2>1, FS_AddElement
  <2> QED
    BY <1>8, <1>12, <2>2, <2>3
<1>14. \A s \in Subs : /\ \A u \in Threads : by_thread[s][u] = Cardinality(Running(u, s))
                       /\ in_flight[s] = Cardinality(Pairs(s))
  BY DEF CountersMatchFrames, Pairs
<1>15. \A s \in Subs : in_flight'[s] = Cardinality(Pairs(s)')
  BY <1>6, <1>11, <1>13, <1>14
<1>16. \A s \in Subs, u \in Threads : by_thread'[s][u] = Cardinality(Running(u, s)')
  BY <1>6, <1>7, <1>13, <1>14
<1>17. CountersMatchFrames'
  BY <1>15, <1>16 DEF CountersMatchFrames, Pairs
<1> QED
  BY <1>1, <1>6, <1>7, <1>17 DEF CountersTyped

\* A callback that ends was counted.
LEMMA ReturnCounts ==
    ASSUME TypeOK, StacksOK, CountersMatchFrames, NEW t \in Threads, Return(t)
    PROVE  /\ CountersTyped' /\ CountersMatchFrames'
           /\ \A s : \A u \in Threads : Running(u, s)' \subseteq Running(u, s)
           /\ \A s \in Subs : in_flight'[s] <= in_flight[s]
<1>1. PICK r : r = Head(Top(t).todo)
  OBVIOUS
<1>2. PICK f : Replaces(t, f) /\ f.op = "dispatch"
  BY ReturnStep
<1>3. Busy(t) /\ Top(t).op = "call" /\ r \in Subs
  BY <1>1, ReturnStep
<1>4. PICK n \in Nat :
        /\ \A s, i : \A u \in Threads :
                u # t \/ i # n => (i \in Running(u, s)' <=> i \in Running(u, s))
        /\ \A s : n \in Running(t, s) <=> Top(t).op = "call" /\ Head(Top(t).todo) = s
        /\ \A s : n \in Running(t, s)' <=> f.op = "call" /\ Head(f.todo) = s
  BY <1>2, <1>3, RunningReplaced
<1>5. /\ in_flight' = [in_flight EXCEPT ![r] = @ - 1]
      /\ by_thread' = [by_thread EXCEPT ![r][t] = @ - 1]
  BY <1>1 DEF Return
<1>6. ASSUME NEW u \in Threads, NEW s, u # t \/ s # r
      PROVE  Running(u, s)' = Running(u, s)
  <2>1. \A i : i \in Running(u, s)' <=> i \in Running(u, s)
    BY <1>1, <1>2, <1>3, <1>4, <1>6
  <2>2. Running(u, s)' \subseteq Running(u, s) /\ Running(u, s) \subseteq Running(u, s)'
    BY <2>1
  <2> QED
    BY <2>2
<1>7. Running(t, r)' = Running(t, r) \ {n} /\ n \in Running(t, r)
  <2>1. \A i : i \in Running(t, r)' <=> i \in Running(t, r) /\ i # n
    BY <1>2, <1>3, <1>4
  <2>2. /\ Running(t, r)' \subseteq Running(t, r) \ {n}
        /\ Running(t, r) \ {n} \subseteq Running(t, r)'
    BY <2>1
  <2> QED
    BY <1>1, <1>3, <1>4, <2>2
<1>8. \A s, x : x \in Pairs(s)' <=> \E u \in Threads : \E i \in Running(u, s)' : x = <<u, i>>
  BY DEF Pairs
<1>9. \A s, x : x \in Pairs(s) <=> \E u \in Threads : \E i \in Running(u, s) : x = <<u, i>>
  BY RunningFacts
<1>10. ASSUME NEW s, s # r
       PROVE  Pairs(s)' = Pairs(s)
  <2>1. \A x : x \in Pairs(s)' <=> x \in Pairs(s)
    BY <1>6, <1>8, <1>9, <1>10
  <2>2. Pairs(s)' \subseteq Pairs(s) /\ Pairs(s) \subseteq Pairs(s)'
    BY <2>1
  <2> QED
    BY <2>2
<1>11. Pairs(r)' = Pairs(r) \ {<<t, n>>} /\ <<t, n>> \in Pairs(r)
  <2>1. ASSUME NEW x PROVE x \in Pairs(r)' <=> x \in Pairs(r) /\ x # <<t, n>>
    <3>1. ASSUME x \in Pairs(r)' PROVE x \in Pairs(r) /\ x # <<t, n>>
      <4>1. PICK u \in Threads : \E i \in Running(u, r)' : x = <<u, i>>
        BY <1>8, <3>1
      <4>2. PICK i \in Running(u, r)' : x = <<u, i>>
        BY <4>1
      <4>3. i \in Running(u, r) /\ ~(u = t /\ i = n)
        BY <1>6, <1>7, <4>2
      <4> QED
        BY <1>9, <4>2, <4>3
    <3>2. ASSUME x \in Pairs(r), x # <<t, n>> PROVE x \in Pairs(r)'
      <4>1. PICK u \in Threads : \E i \in Running(u, r) : x = <<u, i>>
        BY <1>9, <3>2
      <4>2. PICK i \in Running(u, r) : x = <<u, i>>
        BY <4>1
      <4>3. i \in Running(u, r)'
        BY <1>6, <1>7, <3>2, <4>2
      <4> QED
        BY <1>8, <4>2, <4>3
    <3> QED
      BY <3>1, <3>2
  <2>2. Pairs(r)' \subseteq Pairs(r) \ {<<t, n>>} /\ Pairs(r) \ {<<t, n>>} \subseteq Pairs(r)'
    BY <2>1
  <2>3. <<t, n>> \in Pairs(r)
    BY <1>7, <1>9
  <2> QED
    BY <2>2, <2>3
<1>12. /\ Cardinality(Pairs(r)') = Cardinality(Pairs(r)) - 1 /\ Cardinality(Pairs(r)') \in Nat
       /\ Cardinality(Running(t, r)') = Cardinality(Running(t, r)) - 1
       /\ Cardinality(Running(t, r)') \in Nat
  <2>1. IsFiniteSet(Pairs(r)) /\ IsFiniteSet(Running(t, r))
    BY RunningFacts
  <2>2. /\ Cardinality(Pairs(r) \ {<<t, n>>}) = Cardinality(Pairs(r)) - 1
        /\ IsFiniteSet(Pairs(r) \ {<<t, n>>})
    BY <1>11, <2>1, FS_RemoveElement
  <2>3. /\ Cardinality(Running(t, r) \ {n}) = Cardinality(Running(t, r)) - 1
        /\ IsFiniteSet(Running(t, r) \ {n})
    BY <1>7, <2>1, FS_RemoveElement
  <2>4. /\ Cardinality(Pairs(r) \ {<<t, n>>}) \in Nat
        /\ Cardinality(Running(t, r) \ {n}) \in Nat
    BY <2>2, <2>3, FS_CardinalityType
  <2> QED
    BY <1>7, <1>11, <2>2, <2>3, <2>4
<1>13. \A s \in Subs : /\ \A u \in Threads : by_thread[s][u] = Cardinality(Running(u, s))
                       /\ in_flight[s] = Cardinality(Pairs(s))
  BY DEF CountersMatchFrames, Pairs
<1>14. in_flight[r] - 1 \in Nat /\ by_thread[r][t] - 1 \in Nat
  BY <1>3, <1>12, <1>13
<1>15. /\ in_flight' \in [Subs -> Nat]
       /\ \A s \in Subs : in_flight'[s] = IF s = r THEN in_flight[s] - 1 ELSE in_flight[s]
  BY <1>3, <1>5, <1>14 DEF TypeOK
<1>16. /\ by_thread' \in [Subs -> [Threads -> Nat]]
       /\ \A s \in Subs, u \in Threads :
            by_thread'[s][u] = IF s = r /\ u = t THEN by_thread[s][u] - 1 ELSE by_thread[s][u]
  <2> DEFINE row == [by_thread[r] EXCEPT ![t] = @ - 1]
  <2>1. by_thread \in [Subs -> [Threads -> Nat]] /\ by_thread[r] \in [Threads -> Nat]
    BY <1>3 DEF TypeOK
  <2>2. /\ row \in [Threads -> Nat]
        /\ \A u \in Threads : row[u] = IF u = t THEN by_thread[r][u] - 1 ELSE by_thread[r][u]
    BY <1>14, <2>1
  <2>3. by_thread' = [by_thread EXCEPT ![r] = row]
    BY <1>5
  <2> HIDE DEF row
  <2>4. by_thread' \in [Subs -> [Threads -> Nat]]
    BY <1>3, <2>1, <2>2, <2>3
  <2>5. \A s \in Subs : by_thread'[s] = IF s = r THEN row ELSE by_thread[s]
    BY <2>1, <2>3
  <2> QED
    BY <2>2, <2>4, <2>5
<1>17. \A s \in Subs : in_flight'[s] = Cardinality(Pairs(s)')
  BY <1>10, <1>12, <1>13, <1>15
<1>18. \A s \in Subs, u \in Threads : by_thread'[s][u] = Cardinality(Running(u, s)')
  BY <1>6, <1>12, <1>13, <1>16
<1>19. CountersMatchFrames'
  BY <1>17, <1>18 DEF CountersMatchFrames, Pairs
<1>20. \A s \in Subs : in_flight'[s] <= in_flight[s]
  <2>1. \A s \in Subs : in_flight[s] \in Nat
    BY DEF TypeOK
  <2> QED
    BY <1>15, <2>1
<1>21. \A s : \A u \in Threads : Running(u, s)' \subseteq Running(u, s)
  BY <1>6, <1>7
<1> QED
  BY <1>15, <1>16, <1>19, <1>20, <1>21 DEF CountersTyped

\* What the counters tell.
LEMMA CountersTell ==
    ASSUME TypeOK, CountersMatchFrames, NEW s \in Subs
    PROVE  /\ in_flight[s] = 0 <=> \A t \in Threads : Running(t, s) = {}
           /\ \A t \in Threads : in_flight[s] <= by_thread[s][t] =>
                 \A u \in Threads \ {t} : Running(u, s) = {}
<1>1. /\ \A t \in Threads : by_thread[s][t] = Cardinality(Running(t, s))
      /\ in_flight[s] = Cardinality(Pairs(s))
  BY DEF CountersMatchFrames, Pairs
<1>2. /\ \A t \in Threads : IsFiniteSet(Running(t, s))
      /\ IsFiniteSet(Pairs(s))
      /\ \A x : x \in Pairs(s) <=> \E t \in Threads : \E i \in Running(t, s) : x = <<t, i>>
  BY RunningFacts
<1>3. in_flight[s] = 0 <=> \A t \in Threads : Running(t, s) = {}
  <2>1. in_flight[s] = 0 <=> Pairs(s) = {}
    BY <1>1, <1>2, FS_EmptySet
  <2>2. Pairs(s) = {} <=> \A t \in Threads : Running(t, s) = {}
    <3>1. ASSUME \A t \in Threads : Running(t, s) = {} PROVE Pairs(s) = {}
      <4>1. \A x : x \notin Pairs(s)
        BY <1>2, <3>1
      <4> QED
        BY <4>1
    <3>2. ASSUME Pairs(s) = {}, NEW t \in Threads PROVE Running(t, s) = {}
      <4>1. \A i \in Running(t, s) : <<t, i>> \in Pairs(s)
        BY <1>2
      <4> QED
        BY <3>2, <4>1
    <3> QED
      BY <3>1, <3>2
  <2> QED
    BY <2>1, <2>2
<1>4. ASSUME NEW t \in Threads, in_flight[s] <= by_thread[s][t], NEW u \in Threads \ {t},
             NEW i \in Running(u, s)
      PROVE  FALSE
  <2> DEFINE mine == {t} \X Running(t, s)
  <2>1. mine \subseteq Pairs(s)
    BY <1>2
  <2>2. <<u, i>> \in Pairs(s) \ mine
    BY <1>2
  <2>3. Cardinality(mine) = Cardinality(Running(t, s))
    <3>1. /\ IsFiniteSet({t}) /\ Cardinality({t}) = 1
          /\ Cardinality(Running(t, s)) \in Nat
      BY <1>2, FS_Singleton, FS_CardinalityType
    <3>2. Cardinality(mine) = Cardinality({t}) * Cardinality(Running(t, s))
      BY <1>2, <3>1, FS_Product
    <3> QED
      BY <3>1, <3>2
  <2> HIDE DEF mine
  <2>4. Cardinality(mine) < Cardinality(Pairs(s)) /\ Cardinality(Pairs(s)) \in Nat
        /\ Cardinality(mine) \in Nat
    <3>1. IsFiniteSet(mine) /\ Cardinality(mine) <= Cardinality(Pairs(s))
      BY <1>2, <2>1, FS_Subset
    <3>2. Cardinality(mine) = Cardinality(Pairs(s)) => mine = Pairs(s)
      BY <1>2, <2>1, FS_Subset
    <3>3. Cardinality(Pairs(s)) \in Nat /\ Cardinality(mine) \in Nat
      BY <1>2, <3>1, FS_CardinalityType
    <3>4. mine # Pairs(s)
      BY <2>2
    <3> QED
      BY <3>1, <3>2, <3>3, <3>4
  <2> QED
    BY <1>1, <1>4, <2>3, <2>4
<1>5. \A t \in Threads : in_flight[s] <= by_thread[s][t] =>
                 \A u \in Threads \ {t} : Running(u, s) = {}
  BY <1>4
<1> QED
  BY <1>3, <1>5
-----------------------------------------------------------------------------
(* What the conjuncts of the invariant need of a step. *)

\* A frame that is not replaced or dropped is there afterwards.
LEMMA FrameStays ==
    ASSUME TypeOK, NEW t \in Threads,
           Others(t),
           stack' = stack \/ (\E f : Pushes(t, f)) \/ (\E f : Replaces(t, f)) \/ Drops(t),
           NEW u \in Threads, NEW i \in 1..Len(stack[u]),
           u = t /\ i = Len(stack[t]) => stack' = stack \/ \E f : Pushes(t, f)
    PROVE  i \in 1..Len(stack'[u]) /\ stack'[u][i] = stack[u][i]
<1>1. CASE u # t
  BY <1>1 DEF Others
<1>2. CASE stack' = stack
  BY <1>2
<1> DEFINE n == Len(stack[t])
<1>3. n \in Nat
  BY DEF TypeOK
<1>4. CASE u = t /\ \E f : Pushes(t, f)
  <2>1. Len(stack'[t]) = n + 1 /\ \A k \in 1..n : stack'[t][k] = stack[t][k]
    BY <1>4 DEF Pushes, Keeps
  <2> QED
    BY <1>3, <1>4, <2>1
<1>5. CASE u = t /\ i # n /\ ((\E f : Replaces(t, f)) \/ Drops(t))
  <2>1. Len(stack'[t]) \in {n, n - 1} /\ \A k \in 1..(n - 1) : stack'[t][k] = stack[t][k]
    BY <1>5 DEF Replaces, Drops, Keeps
  <2>2. i \in 1..n /\ i # n
    BY <1>5
  <2> HIDE DEF n
  <2>3. i \in 1..(n - 1)
    BY <1>3, <2>2
  <2>4. n - 1 <= n
    BY <1>3
  <2> QED
    BY <1>3, <1>5, <2>1, <2>3, <2>4
<1> QED
  BY <1>1, <1>2, <1>4, <1>5

\* What the ways of changing a stack have in common.
LEMMA ChangesFacts ==
    ASSUME TypeOK, NEW t \in Threads, StepOK(t)
    PROVE  /\ Others(t) /\ stack' \in [Threads -> Seq(Frame)] /\ Monotone
           /\ stack' = stack \/ (\E f : Pushes(t, f)) \/ (\E f : Replaces(t, f)) \/ Drops(t)
BY DEF StepOK, Changes, Pushes, Replaces, Drops, Keeps, TypeOK, Others

\* Insertions that were closed stay so.
LEMMA RetiredKept ==
    ASSUME TypeOK, StacksOK, RetiredAreClosed, NEW t \in Threads, StepOK(t),
           UNCHANGED <<subscriptions, inserted, writer>>, writer # t,
           \A s \in Subs : Closed(s) => Closed(s)'
    PROVE  RetiredAreClosed'
<1>1. Live' = Live
  BY DEF Live
<1>2. Others(t)
  BY ChangesFacts
<1>3. ASSUME NEW s \in inserted \ Live, ~Closed(s)'
      PROVE  writer \in Threads /\ s \in Elements(Top(writer)'.todo)
  <2>1. s \in Subs
    BY DEF TypeOK
  <2>2. writer \in Threads /\ s \in Elements(Top(writer).todo)
    BY <1>3, <2>1 DEF RetiredAreClosed
  <2>3. stack'[writer] = stack[writer]
    BY <1>2, <2>2 DEF Others
  <2> QED
    BY <2>2, <2>3 DEF Top
<1>4. \A s \in inserted \ Live :
         \/ Closed(s)'
         \/ writer \in Threads /\ s \in Elements(stack'[writer][Len(stack'[writer])].todo)
  BY <1>3 DEF Top
<1> QED
  BY <1>1, <1>4 DEF RetiredAreClosed, Top

\* What was reported stays true.
LEMMA SilentKept ==
    ASSUME TypeOK, SilentAreClosed, NEW t \in Threads, StepOK(t), UNCHANGED <<silent, inserted>>,
           \A s \in Subs : ~accepting[s] /\ in_flight[s] = 0 => in_flight'[s] = 0
    PROVE  SilentAreClosed'
<1>1. Monotone
  BY ChangesFacts
<1>2. ASSUME NEW o \in silent
      PROVE  /\ Cleaned(o)'
             /\ \A s \in inserted : OwnerOf[s] = o => ~accepting'[s] /\ in_flight'[s] = 0
  <2>1. Cleaned(o) /\ o \in Owners
    BY DEF SilentAreClosed, TypeOK
  <2>2. \A s \in inserted : s \in Subs
    BY DEF TypeOK
  <2> QED
    BY <1>1, <2>1, <2>2 DEF Monotone, SilentAreClosed
<1> QED
  BY <1>2 DEF SilentAreClosed

\* Who has waited stays alone: only what is not closed can begin.
LEMMA OthersStayOut ==
    ASSUME TypeOK, StacksOK, OthersAreOut, NEW t \in Threads, StepOK(t),
           \A u \in Threads, s \in Subs : ~accepting[s] => Running(u, s)' \subseteq Running(u, s),
           \/ stack' = stack \/ Drops(t)
           \/ \E f : /\ Pushes(t, f) \/ (Busy(t) /\ Replaces(t, f))
                     /\ f.op = "waiting" =>
                           \A u \in Threads \ {t} : \A s \in Done(f) : Running(u, s)' = {}
    PROVE  OthersAreOut'
<1> DEFINE n == Len(stack[t])
<1>1. Others(t) /\ n \in Nat
  BY ChangesFacts DEF TypeOK
<1>2. ASSUME NEW v \in Threads, NEW i \in 1..Len(stack[v]), stack[v][i].op = "waiting",
             NEW u \in Threads \ {v}, NEW s \in Done(stack[v][i])
      PROVE  Running(u, s)' = {}
  <2>1. Running(u, s) = {}
    BY <1>2 DEF OthersAreOut
  <2>2. PICK f : f = stack[v][i]
    OBVIOUS
  <2>3. FrameOK(f) /\ f.op = "waiting"
    BY <1>2, <2>2 DEF StacksOK
  <2>4. s \in Subs /\ ~accepting[s]
    BY <1>2, <2>2, <2>3, FrameElements DEF FrameOK
  <2> QED
    BY <2>1, <2>4
<1>3. ASSUME NEW v \in Threads, NEW i \in 1..Len(stack'[v]), NEW f, f = stack'[v][i],
             f.op = "waiting", NEW u \in Threads \ {v}, NEW s \in Done(f)
      PROVE  Running(u, s)' = {}
  <2>1. CASE i \in 1..Len(stack[v]) /\ stack'[v][i] = stack[v][i]
    BY <1>2, <1>3, <2>1
  <2>2. CASE v # t \/ stack' = stack
    <3>1. stack'[v] = stack[v]
      BY <1>1, <2>2 DEF Others
    <3> QED
      BY <1>3, <2>1, <3>1
  <2>3. CASE v = t /\ Drops(t)
    <3>1. Len(stack'[t]) = n - 1 /\ \A k \in 1..(n - 1) : stack'[t][k] = stack[t][k]
      BY <2>3 DEF Drops, Keeps
    <3>2. i \in 1..(n - 1) /\ i \in 1..n
      BY <1>1, <1>3, <2>3, <3>1
    <3> QED
      BY <2>1, <2>3, <3>1, <3>2
  <2>4. ASSUME v = t, NEW g, Pushes(t, g),
               g.op = "waiting" => \A w \in Threads \ {t} : \A r \in Done(g) : Running(w, r)' = {}
        PROVE  Running(u, s)' = {}
    <3>1. /\ Len(stack'[t]) = n + 1 /\ stack'[t][n + 1] = g
          /\ \A k \in 1..n : stack'[t][k] = stack[t][k]
      BY <2>4 DEF Pushes, Keeps
    <3>2. CASE i = n + 1
      BY <1>3, <2>4, <3>1, <3>2
    <3>3. CASE i \in 1..n
      BY <2>1, <2>4, <3>1, <3>3
    <3> QED
      BY <1>1, <1>3, <2>4, <3>1, <3>2, <3>3
  <2>5. ASSUME v = t, NEW g, Busy(t), Replaces(t, g),
               g.op = "waiting" => \A w \in Threads \ {t} : \A r \in Done(g) : Running(w, r)' = {}
        PROVE  Running(u, s)' = {}
    <3>1. /\ Len(stack'[t]) = n /\ stack'[t][n] = g
          /\ \A k \in 1..(n - 1) : stack'[t][k] = stack[t][k]
      BY <2>5 DEF Replaces, Keeps
    <3>2. CASE i = n
      BY <1>3, <2>5, <3>1, <3>2
    <3>3. CASE i # n
      <4>1. i \in 1..n /\ i \in 1..(n - 1)
        BY <1>1, <1>3, <2>5, <3>1, <3>3
      <4> QED
        BY <2>1, <2>5, <3>1, <4>1
    <3> QED
      BY <3>2, <3>3
  <2> QED
    BY <2>2, <2>3, <2>4, <2>5
<1> QED
  BY <1>3 DEF OthersAreOut

\* Nobody who would reap forgets an owner.
LEMMA ReapersKept ==
    ASSUME TypeOK, ReapersRemain, NEW t \in Threads, StepOK(t),
           \A o \in Owners : retiring'[o] # {} => retiring[o] # {},
           \/ stack' = stack \/ \E f : Pushes(t, f)
           \/ \E f : Busy(t) /\ Replaces(t, f) /\ Top(t).owners \subseteq f.owners
    PROVE  ReapersRemain'
<1>1. /\ Others(t)
      /\ stack' = stack \/ (\E f : Pushes(t, f)) \/ (\E f : Replaces(t, f)) \/ Drops(t)
  BY ChangesFacts
<1>2. ASSUME NEW o \in Owners, retiring'[o] # {}
      PROVE  \E u \in Threads : \E i \in 1..Len(stack'[u]) : o \in stack'[u][i].owners
  <2>1. PICK u \in Threads : \E i \in 1..Len(stack[u]) : o \in stack[u][i].owners
    BY <1>2 DEF ReapersRemain
  <2>2. PICK i \in 1..Len(stack[u]) : o \in stack[u][i].owners
    BY <2>1
  <2>3. CASE (u = t /\ i = Len(stack[t])) => (stack' = stack \/ \E f : Pushes(t, f))
    <3>1. i \in 1..Len(stack'[u]) /\ stack'[u][i] = stack[u][i]
      BY <1>1, <2>3, FrameStays
    <3> QED
      BY <2>2, <3>1
  <2>4. CASE /\ u = t /\ i = Len(stack[t])
             /\ \E f : Busy(t) /\ Replaces(t, f) /\ Top(t).owners \subseteq f.owners
    <3>1. PICK f : Busy(t) /\ Replaces(t, f) /\ Top(t).owners \subseteq f.owners
      BY <2>4
    <3>2. Len(stack'[t]) = Len(stack[t]) /\ stack'[t][Len(stack[t])] = f
      BY <3>1 DEF Replaces
    <3>3. o \in Top(t).owners
      BY <2>2, <2>4 DEF Top
    <3> QED
      BY <2>2, <2>4, <3>1, <3>2, <3>3
  <2> QED
    BY <2>3, <2>4
<1> QED
  BY <1>2 DEF ReapersRemain
-----------------------------------------------------------------------------
(* Every step preserves the invariant. *)

\* A step that changes one stack, and neither the registry nor the admissions.
LEMMA CalmKeeps ==
    ASSUME IInv, NEW t \in Threads, StepOK(t), Quiet(t), writer # t,
           UNCHANGED <<registry, admissions, inserted, silent, writer>>,
           \/ \E f : Pushes(t, f) /\ f.op # "waiting"
           \/ \E f : /\ Busy(t) /\ Replaces(t, f) /\ Top(t).owners \subseteq f.owners
                     /\ f.op = "waiting" =>
                           \A u \in Threads \ {t} : \A s \in Done(f) : Running(u, s) = {}
    PROVE  IInv'
<1> USE DEF IInv
<1>1. /\ UNCHANGED <<subscriptions, retired_generations, retiring, inserted, silent, writer>>
      /\ UNCHANGED <<accepting, in_flight, by_thread>>
  BY DEF registry, admissions
<1>2. stack' \in [Threads -> Seq(Frame)] /\ StacksOK'
  BY StackStep
<1>3. TypeOK'
  BY <1>1, <1>2 DEF TypeOK
<1>4. RegistryOK'
  BY <1>1 DEF RegistryOK, Live
<1>5. CountersMatchFrames' /\ \A s : \A u \in Threads : Running(u, s)' = Running(u, s)
  BY <1>1, CountsKept, RunningKept
<1>6. RetiredAreClosed'
  <2>1. \A s \in Subs : Closed(s) => Closed(s)'
    BY <1>1 DEF Closed
  <2> QED
    BY <1>1, <2>1, RetiredKept
<1>7. SilentAreClosed'
  BY <1>1, SilentKept
<1>8. OthersAreOut'
  <2>1. \A u \in Threads, s \in Subs : ~accepting[s] => Running(u, s)' \subseteq Running(u, s)
    BY <1>5
  <2>2. \E f : /\ Pushes(t, f) \/ (Busy(t) /\ Replaces(t, f))
               /\ f.op = "waiting" =>
                     \A u \in Threads \ {t} : \A s \in Done(f) : Running(u, s)' = {}
    <3>1. CASE \E f : Pushes(t, f) /\ f.op # "waiting"
      BY <3>1
    <3>2. CASE \E f : /\ Busy(t) /\ Replaces(t, f) /\ Top(t).owners \subseteq f.owners
                      /\ f.op = "waiting" =>
                            \A u \in Threads \ {t} : \A s \in Done(f) : Running(u, s) = {}
      <4>1. PICK f : /\ Busy(t) /\ Replaces(t, f) /\ Top(t).owners \subseteq f.owners
                     /\ f.op = "waiting" =>
                           \A u \in Threads \ {t} : \A s \in Done(f) : Running(u, s) = {}
        BY <3>2
      <4>2. f.op = "waiting" => \A u \in Threads \ {t} : \A s \in Done(f) : Running(u, s)' = {}
        BY <1>5, <4>1
      <4> QED
        BY <4>1, <4>2
    <3> QED
      BY <3>1, <3>2
  <2> QED
    BY <2>1, <2>2, OthersStayOut
<1>9. ReapersRemain'
  BY <1>1, ReapersKept
<1> QED
  BY <1>2, <1>3, <1>4, <1>5, <1>6, <1>7, <1>8, <1>9

\* Who is not in a longer write-locked section does not hold the lock.
LEMMA NotWriter ==
    ASSUME StacksOK, NEW t \in Threads, Busy(t) => Top(t).op \notin {"closing", "retiring"}
    PROVE  writer # t
BY DEF StacksOK, At

LEMMA SkipKeeps ==
    ASSUME IInv, NEW t \in Threads, SkipClosed(t)
    PROVE  IInv'
<1>1. StepOK(t) /\ Busy(t) /\ Top(t).op = "dispatch"
  BY SkipStep DEF IInv
<1>2. PICK f : Replaces(t, f) /\ f.op = "dispatch" /\ f.owners = Top(t).owners
  BY SkipStep DEF IInv
<1>3. Quiet(t)
  BY <1>1, <1>2 DEF Quiet
<1>4. UNCHANGED <<registry, admissions, inserted, silent, writer>>
  BY DEF SkipClosed
<1>5. writer # t
  BY <1>1, NotWriter DEF IInv
<1> QED
  BY <1>1, <1>2, <1>3, <1>4, <1>5, CalmKeeps

LEMMA RaiseKeeps ==
    ASSUME IInv, NEW t \in Threads, NEW e \in Events, NEW signatures, Raise(t, e, signatures)
    PROVE  IInv'
<1>1. StepOK(t)
  BY RaiseStep DEF IInv
<1>2. PICK f : Pushes(t, f) /\ f.op = "dispatch"
  BY RaiseStep DEF IInv
<1>3. Quiet(t)
  BY <1>2 DEF Quiet
<1>4. UNCHANGED <<registry, admissions, inserted, silent, writer>> /\ writer = Nobody
  BY DEF Raise
<1>5. writer # t
  BY <1>4, NobodyIsNoThread
<1> QED
  BY <1>1, <1>2, <1>3, <1>4, <1>5, CalmKeeps

\* The wait is over because the counters say that no other thread is inside.
LEMMA WaitOverKeeps ==
    ASSUME IInv, NEW t \in Threads, WaitOver(t)
    PROVE  IInv'
<1>1. /\ StepOK(t) /\ Busy(t) /\ Top(t).op = "waiting" /\ Head(Top(t).todo) \in Subs
      /\ in_flight[Head(Top(t).todo)] <= by_thread[Head(Top(t).todo)][t]
      /\ UNCHANGED <<registry, admissions, inserted, silent, writer>>
  BY WaitOverStep DEF IInv, WaitOver
<1>2. PICK f : /\ Replaces(t, f) /\ f.op = "waiting" /\ f.owners = Top(t).owners
               /\ Done(f) = Done(Top(t)) \cup {Head(Top(t).todo)}
  BY WaitOverStep DEF IInv
<1>3. Quiet(t)
  BY <1>1, <1>2 DEF Quiet
<1>4. writer # t
  BY <1>1, NotWriter DEF IInv
<1>5. \A u \in Threads \ {t} : Running(u, Head(Top(t).todo)) = {}
  BY <1>1, CountersTell DEF IInv
<1>6. \A u \in Threads \ {t} : \A s \in Done(Top(t)) : Running(u, s) = {}
  <2>1. Len(stack[t]) \in 1..Len(stack[t]) /\ Top(t) = stack[t][Len(stack[t])]
    BY <1>1, TopFacts DEF IInv
  <2> QED
    BY <1>1, <2>1 DEF IInv, OthersAreOut
<1>7. \A u \in Threads \ {t} : \A s \in Done(f) : Running(u, s) = {}
  BY <1>2, <1>5, <1>6
<1> QED
  BY <1>1, <1>2, <1>3, <1>4, <1>7, CalmKeeps

\* An insertion whose callback begins is not closed: nobody waited for it.
LEMMA AdmitKeeps ==
    ASSUME IInv, NEW t \in Threads, Admit(t)
    PROVE  IInv'
<1> USE DEF IInv
<1>1. PICK r : r = Head(Top(t).todo)
  OBVIOUS
<1>2. /\ accepting[r]
      /\ UNCHANGED <<subscriptions, retired_generations, retiring>>
      /\ UNCHANGED <<inserted, silent, writer, accepting>>
  BY <1>1 DEF Admit, registry
<1>3. StepOK(t) /\ Busy(t) /\ Top(t).op = "dispatch"
  BY AdmitStep
<1>4. PICK f : Replaces(t, f) /\ f.op = "call"
  BY AdmitStep
<1>5. /\ CountersTyped' /\ CountersMatchFrames'
      /\ \A s : \A u \in Threads : s # r => Running(u, s)' = Running(u, s)
      /\ \A s \in Subs : s # r => in_flight'[s] = in_flight[s]
  BY <1>1, AdmitCounts
<1>6. stack' \in [Threads -> Seq(Frame)] /\ StacksOK'
  BY <1>3, StackStep
<1>7. TypeOK'
  BY <1>2, <1>5, <1>6 DEF TypeOK, CountersTyped
<1>8. RegistryOK'
  BY <1>2 DEF RegistryOK, Live
<1>9. RetiredAreClosed'
  <2>1. \A s \in Subs : Closed(s) => Closed(s)'
    BY <1>2, <1>5 DEF Closed
  <2>2. writer # t
    BY <1>3, NotWriter
  <2> QED
    BY <1>2, <1>3, <2>1, <2>2, RetiredKept
<1>10. SilentAreClosed'
  BY <1>2, <1>3, <1>5, SilentKept
<1>11. OthersAreOut'
  <2>1. \A u \in Threads, s \in Subs : ~accepting[s] => Running(u, s)' \subseteq Running(u, s)
    BY <1>2, <1>5
  <2> QED
    BY <1>3, <1>4, <2>1, OthersStayOut
<1>12. ReapersRemain'
  <2>1. \E g : Replaces(t, g) /\ Top(t).owners \subseteq g.owners
    <3>1. PICK g : g = [Top(t) EXCEPT !.op = "call"]
      OBVIOUS
    <3>2. Top(t) \in Frame
      BY <1>3, TopOK
    <3>3. g \in Frame /\ g.owners = Top(t).owners
      BY <3>1, <3>2 DEF Frame, Ops
    <3>4. Become(t, g)
      BY <3>1 DEF Admit
    <3> QED
      BY <1>3, <3>3, <3>4, StackReplaced
  <2> QED
    BY <1>2, <1>3, <2>1, ReapersKept
<1> QED
  BY <1>5, <1>6, <1>7, <1>8, <1>9, <1>10, <1>11, <1>12

LEMMA ReturnKeeps ==
    ASSUME IInv, NEW t \in Threads, Return(t)
    PROVE  IInv'
<1> USE DEF IInv
<1>1. /\ UNCHANGED <<subscriptions, retired_generations, retiring>>
      /\ UNCHANGED <<inserted, silent, writer, accepting>>
  BY DEF Return, registry
<1>2. StepOK(t) /\ Busy(t) /\ Top(t).op = "call"
  BY ReturnStep
<1>3. PICK f : Replaces(t, f) /\ f.op = "dispatch" /\ f.owners = Top(t).owners
  BY ReturnStep
<1>4. /\ CountersTyped' /\ CountersMatchFrames'
      /\ \A s : \A u \in Threads : Running(u, s)' \subseteq Running(u, s)
      /\ \A s \in Subs : in_flight'[s] <= in_flight[s]
  BY ReturnCounts
<1>5. stack' \in [Threads -> Seq(Frame)] /\ StacksOK'
  BY <1>2, StackStep
<1>6. TypeOK'
  BY <1>1, <1>4, <1>5 DEF TypeOK, CountersTyped
<1>7. \A s \in Subs : in_flight[s] = 0 => in_flight'[s] = 0
  BY <1>4 DEF CountersTyped
<1>8. RegistryOK'
  BY <1>1 DEF RegistryOK, Live
<1>9. RetiredAreClosed'
  <2>1. \A s \in Subs : Closed(s) => Closed(s)'
    BY <1>1, <1>7 DEF Closed
  <2>2. writer # t
    BY <1>2, NotWriter
  <2> QED
    BY <1>1, <1>2, <2>1, <2>2, RetiredKept
<1>10. SilentAreClosed'
  BY <1>1, <1>2, <1>7, SilentKept
<1>11. OthersAreOut'
  BY <1>2, <1>3, <1>4, OthersStayOut
<1>12. ReapersRemain'
  BY <1>1, <1>2, <1>3, ReapersKept
<1> QED
  BY <1>4, <1>5, <1>6, <1>8, <1>9, <1>10, <1>11, <1>12

\* A callback that still runs is in the frame of a thread that will reap.
LEMMA NotQuiescent ==
    ASSUME TypeOK, StacksOK, RegistryOK, CountersMatchFrames, NEW o \in Owners, ~Quiescent(o)
    PROVE  \E u \in Threads : \E i \in 1..Len(stack[u]) :
              stack[u][i].op = "call" /\ o \in stack[u][i].owners
<1>1. PICK s \in retiring[o] : in_flight[s] # 0
  BY DEF Quiescent
<1>2. s \in Subs /\ OwnerOf[s] = o
  BY DEF TypeOK, RegistryOK
<1>3. PICK u \in Threads : Running(u, s) # {}
  BY <1>1, <1>2, CountersTell
<1>4. PICK i \in Running(u, s) : TRUE
  BY <1>3
<1>5. i \in 1..Len(stack[u]) /\ stack[u][i].op = "call" /\ Head(stack[u][i].todo) = s
  <2>1. DOMAIN stack[u] = 1..Len(stack[u])
    BY DEF TypeOK
  <2> QED
    BY <1>4, <2>1 DEF Running, Calling
<1>6. PICK f : f = stack[u][i]
  OBVIOUS
<1>7. FrameOK(f)
  BY <1>5, <1>6 DEF StacksOK
<1>8. f.todo \in Seq(Subs) /\ f.todo # <<>>
  BY <1>5, <1>6, <1>7 DEF FrameOK, Frame
<1>9. s \in Elements(f.todo)
  BY <1>5, <1>6, <1>8, TodoFacts
<1> QED
  BY <1>2, <1>5, <1>6, <1>7, <1>9 DEF FrameOK

\* Watched insertions are forgotten for quiescent owners only; the frame of
\* whoever saw that an owner is not quiescent is not the last to reap it.
LEMMA ForgetKeeps ==
    ASSUME IInv, NEW t \in Threads, StepOK(t),
           Busy(t), Top(t).op \notin {"call", "closing", "retiring"},
           UNCHANGED <<subscriptions, retired_generations, writer, admissions, inserted>>,
           retiring' \in [Owners -> SUBSET Subs],
           NEW gone \in SUBSET Top(t).owners,
           \A o \in Owners : retiring'[o] = IF o \in gone /\ Quiescent(o) THEN {} ELSE retiring[o],
           \/ Drops(t) /\ gone = Top(t).owners
           \/ \E f : /\ Replaces(t, f) /\ f.op = Top(t).op /\ f.owners = Top(t).owners \ gone
                     /\ f.todo = Top(t).todo /\ f.batch = Top(t).batch
    PROVE  /\ StacksOK' /\ RegistryOK' /\ CountersTyped' /\ CountersMatchFrames'
           /\ stack' \in [Threads -> Seq(Frame)]
           /\ RetiredAreClosed' /\ OthersAreOut' /\ ReapersRemain'
<1> USE DEF IInv
<1>1. UNCHANGED <<accepting, in_flight, by_thread>>
  BY DEF admissions
<1>2. stack' \in [Threads -> Seq(Frame)] /\ StacksOK'
  BY StackStep
<1>3. Quiet(t)
  BY DEF Quiet
<1>4. /\ CountersTyped' /\ CountersMatchFrames'
      /\ \A s : \A u \in Threads : Running(u, s)' = Running(u, s)
  BY <1>1, <1>3, CountsKept, RunningKept
<1>5. RegistryOK'
  <2>1. Live' = Live
    BY DEF Live
  <2>2. \A o \in Owners : \A s \in retiring'[o] : OwnerOf[s] = o
    BY DEF RegistryOK
  <2> QED
    BY <2>1, <2>2 DEF RegistryOK
<1>6. RetiredAreClosed'
  <2>1. ASSUME NEW s \in Subs, Closed(s)
        PROVE  Closed(s)'
    <3>1. OwnerOf[s] \in Owners
      BY DEF Owners
    <3>2. s \in retiring[OwnerOf[s]] => s \in retiring'[OwnerOf[s]] \/ in_flight[s] = 0
      BY <3>1 DEF Quiescent
    <3> QED
      BY <1>1, <2>1, <3>2 DEF Closed
  <2>2. writer # t
    BY NotWriter
  <2> QED
    BY <2>1, <2>2, RetiredKept
<1>7. OthersAreOut'
  <2>1. \A u \in Threads, s \in Subs : ~accepting[s] => Running(u, s)' \subseteq Running(u, s)
    BY <1>4
  <2>2. CASE Drops(t)
    BY <2>1, <2>2, OthersStayOut
  <2>3. CASE \E f : /\ Replaces(t, f) /\ f.op = Top(t).op /\ f.owners = Top(t).owners \ gone
                    /\ f.todo = Top(t).todo /\ f.batch = Top(t).batch
    <3>1. PICK f : /\ Replaces(t, f) /\ f.op = Top(t).op
                   /\ f.todo = Top(t).todo /\ f.batch = Top(t).batch
      BY <2>3
    <3>2. Len(stack[t]) \in 1..Len(stack[t]) /\ Top(t) = stack[t][Len(stack[t])]
      BY TopFacts
    <3>3. Top(t).op = "waiting" =>
             \A u \in Threads \ {t} : \A s \in Done(Top(t)) : Running(u, s) = {}
      BY <3>2 DEF OthersAreOut
    <3>4. Done(f) = Done(Top(t))
      BY <3>1 DEF Done
    <3>5. f.op = "waiting" => \A u \in Threads \ {t} : \A s \in Done(f) : Running(u, s)' = {}
      BY <1>4, <3>1, <3>3, <3>4
    <3> QED
      BY <2>1, <3>1, <3>5, OthersStayOut
  <2> QED
    BY <2>2, <2>3
<1>8. ASSUME NEW o \in Owners, retiring'[o] # {}
      PROVE  \E u \in Threads : \E i \in 1..Len(stack'[u]) : o \in stack'[u][i].owners
  <2> DEFINE n == Len(stack[t])
  <2>1. /\ Others(t)
        /\ stack' = stack \/ (\E f : Pushes(t, f)) \/ (\E f : Replaces(t, f)) \/ Drops(t)
    BY ChangesFacts
  <2>2. Top(t) = stack[t][n] /\ n \in 1..Len(stack[t])
    BY TopFacts
  <2>3. ASSUME NEW u \in Threads, NEW i \in 1..Len(stack[u]), o \in stack[u][i].owners,
               ~(u = t /\ i = n)
        PROVE  \E v \in Threads : \E k \in 1..Len(stack'[v]) : o \in stack'[v][k].owners
    <3>1. i \in 1..Len(stack'[u]) /\ stack'[u][i] = stack[u][i]
      BY <2>1, <2>3, FrameStays
    <3> QED
      BY <2>3, <3>1
  <2>4. CASE o \in gone
    <3>1. ~Quiescent(o)
      BY <1>8, <2>4
    <3>2. PICK u \in Threads : \E i \in 1..Len(stack[u]) :
             stack[u][i].op = "call" /\ o \in stack[u][i].owners
      BY <3>1, NotQuiescent
    <3>3. PICK i \in 1..Len(stack[u]) : stack[u][i].op = "call" /\ o \in stack[u][i].owners
      BY <3>2
    <3>4. ~(u = t /\ i = n)
      BY <2>2, <3>3
    <3> QED
      BY <2>3, <3>3, <3>4
  <2>5. CASE o \notin gone
    <3>1. retiring[o] # {}
      BY <1>8, <2>5
    <3>2. PICK u \in Threads : \E i \in 1..Len(stack[u]) : o \in stack[u][i].owners
      BY <3>1 DEF ReapersRemain
    <3>3. PICK i \in 1..Len(stack[u]) : o \in stack[u][i].owners
      BY <3>2
    <3>4. CASE u = t /\ i = n
      <4>1. o \in Top(t).owners
        BY <2>2, <3>3, <3>4
      <4>2. PICK f : Replaces(t, f) /\ f.owners = Top(t).owners \ gone
        BY <2>5, <4>1
      <4>3. Len(stack'[t]) = n /\ stack'[t][n] = f
        BY <4>2 DEF Replaces
      <4>4. n \in 1..Len(stack'[t]) /\ o \in stack'[t][n].owners
        BY <2>2, <2>5, <4>1, <4>2, <4>3
      <4> QED
        BY <4>4
    <3>5. CASE ~(u = t /\ i = n)
      BY <2>3, <3>3, <3>5
    <3> QED
      BY <3>4, <3>5
  <2> QED
    BY <2>4, <2>5
<1>9. ReapersRemain'
  BY <1>8 DEF ReapersRemain
<1> QED
  BY <1>2, <1>4, <1>5, <1>6, <1>7, <1>9

LEMMA ReapKeeps ==
    ASSUME IInv, NEW t \in Threads, NEW o \in Owners, Reap(t, o)
    PROVE  IInv'
<1> USE DEF IInv
<1>1. /\ StepOK(t) /\ Busy(t) /\ Top(t).op \in {"dispatch", "waiting"} /\ o \in Top(t).owners
      /\ \/ Top(t).owners = {o} /\ Drops(t)
         \/ \E f : /\ Replaces(t, f) /\ f.op = Top(t).op /\ f.owners = Top(t).owners \ {o}
                   /\ f.todo = Top(t).todo /\ f.batch = Top(t).batch
  BY ReapStep
<1>2. /\ UNCHANGED <<subscriptions, retired_generations, writer, admissions, inserted, silent>>
      /\ retiring' = [retiring EXCEPT ![o] = IF Quiescent(o) THEN {} ELSE @]
  BY DEF Reap
<1>3. /\ retiring' \in [Owners -> SUBSET Subs]
      /\ \A p \in Owners : retiring'[p] = IF p \in {o} /\ Quiescent(p) THEN {} ELSE retiring[p]
  <2>1. retiring \in [Owners -> SUBSET Subs]
    BY DEF TypeOK
  <2>2. CASE Quiescent(o)
    BY <1>2, <2>1, <2>2
  <2>3. CASE ~Quiescent(o)
    BY <1>2, <2>1, <2>3
  <2> QED
    BY <2>2, <2>3
<1>4. PICK gone \in SUBSET Top(t).owners : gone = {o}
  BY <1>1
<1>5. /\ StacksOK' /\ RegistryOK' /\ CountersTyped' /\ CountersMatchFrames'
      /\ stack' \in [Threads -> Seq(Frame)]
      /\ RetiredAreClosed' /\ OthersAreOut' /\ ReapersRemain'
  BY <1>1, <1>2, <1>3, <1>4, ForgetKeeps
<1>6. TypeOK'
  BY <1>2, <1>3, <1>5 DEF TypeOK, CountersTyped, admissions
<1>7. SilentAreClosed'
  BY <1>1, <1>2, SilentKept DEF admissions
<1> QED
  BY <1>5, <1>6, <1>7

\* A retired generation whose watched insertions are quiescent is silent: what
\* was inserted is closed, and what is closed and not watched runs nowhere.
LEMMA ReportKeeps ==
    ASSUME IInv, NEW t \in Threads, Report(t)
    PROVE  IInv'
<1> USE DEF IInv
<1>1. /\ StepOK(t) /\ Busy(t) /\ Top(t).op = "reporting" /\ writer = Nobody /\ Drops(t)
      /\ \A o \in Top(t).owners : o \in Owners /\ Cleaned(o) /\ Cleaned(o)'
  BY ReportStep
<1>2. PICK quiet : quiet = {o \in Top(t).owners : Quiescent(o)}
  OBVIOUS
<1>3. /\ UNCHANGED <<subscriptions, retired_generations, writer, admissions, inserted>>
      /\ retiring' = [o \in Owners |-> IF o \in quiet THEN {} ELSE retiring[o]]
      /\ silent' = silent \cup quiet
  BY <1>2 DEF Report
<1>4. retiring \in [Owners -> SUBSET Subs]
  BY DEF TypeOK
<1>5. /\ retiring' \in [Owners -> SUBSET Subs]
      /\ \A o \in Owners :
            retiring'[o] = IF o \in Top(t).owners /\ Quiescent(o) THEN {} ELSE retiring[o]
  BY <1>2, <1>3, <1>4
<1>6. PICK gone \in SUBSET Top(t).owners : gone = Top(t).owners
  OBVIOUS
<1>7. /\ StacksOK' /\ RegistryOK' /\ CountersTyped' /\ CountersMatchFrames'
      /\ stack' \in [Threads -> Seq(Frame)]
      /\ RetiredAreClosed' /\ OthersAreOut' /\ ReapersRemain'
  BY <1>1, <1>3, <1>5, <1>6, ForgetKeeps
<1>8. quiet \subseteq Owners
  BY <1>1, <1>2
<1>9. TypeOK'
  BY <1>3, <1>5, <1>7, <1>8 DEF TypeOK, CountersTyped, admissions
<1>10. UNCHANGED <<accepting, in_flight>>
  BY <1>3 DEF admissions
<1>11. ASSUME NEW o \in silent
       PROVE  /\ Cleaned(o)'
              /\ \A s \in inserted : OwnerOf[s] = o => ~accepting[s] /\ in_flight[s] = 0
  <2>1. o \in Owners /\ Cleaned(o)
    BY DEF SilentAreClosed, TypeOK
  <2>2. Monotone
    BY <1>1, ChangesFacts
  <2> QED
    BY <2>1, <2>2 DEF SilentAreClosed, Monotone
<1>12. ASSUME NEW o \in quiet, NEW s \in inserted, OwnerOf[s] = o
       PROVE  ~accepting[s] /\ in_flight[s] = 0
  <2>1. Cleaned(o) /\ Quiescent(o)
    BY <1>1, <1>2
  <2>2. s \notin Live
    BY <1>12, <2>1 DEF Cleaned
  <2>3. Closed(s)
    BY <1>1, <2>2, NobodyIsNoThread DEF RetiredAreClosed
  <2> QED
    BY <1>12, <2>1, <2>3 DEF Closed, Quiescent
<1>13. SilentAreClosed'
  BY <1>1, <1>2, <1>3, <1>10, <1>11, <1>12 DEF SilentAreClosed
<1> QED
  BY <1>7, <1>9, <1>13

\* The insertion closed next is watched from then on, by who closed it.
LEMMA CloseKeeps ==
    ASSUME IInv, NEW t \in Threads, CloseNext(t)
    PROVE  IInv'
<1> USE DEF IInv
<1>1. PICK r : r = Head(Top(t).todo)
  OBVIOUS
<1>2. /\ StepOK(t) /\ Busy(t) /\ Top(t).op \in {"closing", "retiring"} /\ r \in Subs
      /\ Top(t).todo # <<>> /\ Top(t).todo \in Seq(Subs) /\ OwnerOf[r] \in Top(t).owners
  BY <1>1, CloseStep
<1>3. PICK f : /\ Replaces(t, f) /\ f.op = Top(t).op /\ f.owners = Top(t).owners
               /\ f.todo = Tail(Top(t).todo)
  BY CloseStep
<1>4. /\ UNCHANGED <<subscriptions, retired_generations, writer, in_flight, by_thread>>
      /\ UNCHANGED <<inserted, silent>>
      /\ accepting' = [accepting EXCEPT ![r] = FALSE]
      /\ retiring' = [retiring EXCEPT ![OwnerOf[r]] = @ \cup {r}]
  BY <1>1 DEF CloseNext
<1>5. OwnerOf[r] \in Owners
  BY <1>2 DEF Owners
<1>6. /\ accepting' \in [Subs -> BOOLEAN]
      /\ \A s \in Subs : accepting'[s] = IF s = r THEN FALSE ELSE accepting[s]
  BY <1>2, <1>4 DEF TypeOK
<1>7. /\ retiring' \in [Owners -> SUBSET Subs]
      /\ \A o \in Owners :
            retiring'[o] = IF o = OwnerOf[r] THEN retiring[o] \cup {r} ELSE retiring[o]
  <2>1. retiring \in [Owners -> SUBSET Subs] /\ retiring[OwnerOf[r]] \cup {r} \in SUBSET Subs
    BY <1>2, <1>5 DEF TypeOK
  <2> QED
    BY <1>4, <1>5, <2>1
<1>8. Quiet(t)
  BY <1>2, <1>3 DEF Quiet
<1>9. /\ CountersTyped' /\ CountersMatchFrames'
      /\ \A s : \A u \in Threads : Running(u, s)' = Running(u, s)
  BY <1>4, <1>8, CountsKept, RunningKept
<1>10. stack' \in [Threads -> Seq(Frame)] /\ StacksOK'
  BY <1>2, StackStep
<1>11. TypeOK'
  BY <1>4, <1>6, <1>7, <1>9, <1>10 DEF TypeOK, CountersTyped
<1>12. Live' = Live
  BY <1>4 DEF Live
<1>13. RegistryOK'
  <2>1. \A o \in Owners : \A s \in retiring'[o] : OwnerOf[s] = o
    BY <1>7 DEF RegistryOK
  <2> QED
    BY <1>4, <1>12, <2>1 DEF RegistryOK
<1>14. writer = t
  BY <1>2 DEF StacksOK, At
<1>15. Top(t)' = f
  BY <1>2, <1>3, TopAfter
<1>16. RetiredAreClosed'
  <2>1. Elements(Top(t).todo) = {r} \cup Elements(Tail(Top(t).todo))
    BY <1>1, <1>2, TodoFacts
  <2>2. ASSUME NEW s \in inserted \ Live,
               ~(~accepting'[s] /\ (s \in retiring'[OwnerOf[s]] \/ in_flight[s] = 0))
        PROVE  s \in Elements(f.todo)
    <3>1. s \in Subs /\ OwnerOf[s] \in Owners
      BY DEF TypeOK, Owners
    <3>2. s # r
      BY <1>6, <1>7, <2>2, <3>1
    <3>3. ~Closed(s)
      BY <1>6, <1>7, <2>2, <3>1 DEF Closed
    <3>4. s \in Elements(Top(t).todo)
      BY <1>14, <3>3 DEF RetiredAreClosed
    <3> QED
      BY <1>3, <2>1, <3>2, <3>4
  <2>3. writer' = t
    BY <1>4, <1>14
  <2>4. \A s \in inserted' \ Live' : Closed(s)' \/ s \in Elements(f.todo)
    BY <1>4, <1>12, <2>2 DEF Closed
  <2>5. Top(writer)' = f
    BY <1>15, <2>3 DEF Top
  <2> QED
    BY <2>3, <2>4, <2>5 DEF RetiredAreClosed
<1>17. SilentAreClosed'
  BY <1>2, <1>4, SilentKept
<1>18. OthersAreOut'
  <2>1. \A u \in Threads, s \in Subs : ~accepting[s] => Running(u, s)' \subseteq Running(u, s)
    BY <1>9
  <2>2. f.op # "waiting"
    BY <1>2, <1>3
  <2> QED
    BY <1>2, <1>3, <2>1, <2>2, OthersStayOut
<1>19. ReapersRemain'
  <2>1. ASSUME NEW o \in Owners, retiring'[o] # {}
        PROVE  \E u \in Threads : \E i \in 1..Len(stack'[u]) : o \in stack'[u][i].owners
    <3> DEFINE n == Len(stack[t])
    <3>1. n \in 1..n /\ Top(t) = stack[t][n]
      BY <1>2, TopFacts
    <3>2. Len(stack'[t]) = n /\ stack'[t][n] = f
      BY <1>3 DEF Replaces
    <3>3. CASE o \in Top(t).owners
      BY <1>3, <3>1, <3>2, <3>3
    <3>4. CASE o \notin Top(t).owners
      <4>1. retiring[o] # {}
        BY <1>2, <1>7, <2>1, <3>4
      <4>2. PICK u \in Threads : \E i \in 1..Len(stack[u]) : o \in stack[u][i].owners
        BY <4>1 DEF ReapersRemain
      <4>3. PICK i \in 1..Len(stack[u]) : o \in stack[u][i].owners
        BY <4>2
      <4>4. ~(u = t /\ i = n)
        BY <3>1, <3>4, <4>3
      <4>5. i \in 1..Len(stack'[u]) /\ stack'[u][i] = stack[u][i]
        BY <1>2, <1>3, <4>4, ChangesFacts, FrameStays
      <4> QED
        BY <4>3, <4>5
    <3> QED
      BY <3>3, <3>4
  <2> QED
    BY <2>1 DEF ReapersRemain
<1> QED
  BY <1>9, <1>10, <1>11, <1>13, <1>16, <1>17, <1>18, <1>19

\* The lock is released with everything closed.
LEMMA StagedKeeps ==
    ASSUME IInv, NEW t \in Threads, Staged(t)
    PROVE  IInv'
<1> USE DEF IInv
<1>1. /\ StepOK(t) /\ Busy(t) /\ Top(t).op \in {"closing", "retiring"} /\ writer = t
      /\ Top(t).todo = <<>>
  BY StagedStep
<1>2. PICK f : /\ Replaces(t, f) /\ f.op \in {"waiting", "reporting"}
               /\ f.owners = Top(t).owners /\ (f.op = "waiting" => Done(f) = {})
  BY StagedStep
<1>3. /\ UNCHANGED <<subscriptions, retired_generations, retiring, inserted, silent>>
      /\ UNCHANGED <<accepting, in_flight, by_thread>> /\ writer' = Nobody
  BY DEF Staged, registry, admissions
<1>4. Quiet(t)
  BY <1>1, <1>2 DEF Quiet
<1>5. /\ CountersTyped' /\ CountersMatchFrames'
      /\ \A s : \A u \in Threads : Running(u, s)' = Running(u, s)
  BY <1>3, <1>4, CountsKept, RunningKept
<1>6. stack' \in [Threads -> Seq(Frame)] /\ StacksOK'
  BY <1>1, StackStep
<1>7. TypeOK'
  BY <1>3, <1>6 DEF TypeOK
<1>8. Live' = Live
  BY <1>3 DEF Live
<1>9. RegistryOK'
  BY <1>3, <1>8 DEF RegistryOK
<1>10. RetiredAreClosed'
  <2>1. Elements(Top(t).todo) = {}
    BY <1>1 DEF Elements
  <2>2. \A s \in inserted \ Live : Closed(s)
    BY <1>1, <2>1 DEF RetiredAreClosed
  <2> QED
    BY <1>3, <1>8, <2>2 DEF RetiredAreClosed, Closed
<1>11. SilentAreClosed'
  BY <1>1, <1>3, SilentKept
<1>12. OthersAreOut'
  <2>1. \A u \in Threads, s \in Subs : ~accepting[s] => Running(u, s)' \subseteq Running(u, s)
    BY <1>5
  <2> QED
    BY <1>1, <1>2, <2>1, OthersStayOut
<1>13. ReapersRemain'
  BY <1>1, <1>2, <1>3, ReapersKept
<1> QED
  BY <1>5, <1>6, <1>7, <1>9, <1>10, <1>11, <1>12, <1>13

\* Insertions are taken out under the lock, which is kept until they are closed.
LEMMA TakenOutKeeps ==
    ASSUME IInv, NEW t \in Threads, StepOK(t), writer = Nobody, writer' = t, Live' \subseteq Live,
           UNCHANGED <<retiring, admissions, inserted, silent>>,
           subscriptions' \in [Events -> Seq(Subs)], retired_generations' \in [Signatures -> Nat],
           \A s \in Live' : OwnerOf[s].generation # retired_generations'[OwnerOf[s].signature],
           NEW f, Pushes(t, f), f.op \in {"closing", "retiring"},
           Live \ Live' \subseteq Elements(f.todo)
    PROVE  IInv'
<1> USE DEF IInv
<1>1. UNCHANGED <<accepting, in_flight, by_thread>>
  BY DEF admissions
<1>2. Quiet(t)
  BY DEF Quiet
<1>3. /\ CountersTyped' /\ CountersMatchFrames'
      /\ \A s : \A u \in Threads : Running(u, s)' = Running(u, s)
  BY <1>1, <1>2, CountsKept, RunningKept
<1>4. stack' \in [Threads -> Seq(Frame)] /\ StacksOK'
  BY StackStep
<1>5. TypeOK'
  BY <1>1, <1>4 DEF TypeOK
<1>6. RegistryOK'
  BY DEF RegistryOK
<1>7. Top(t)' = f
  BY TopAfter
<1>8. RetiredAreClosed'
  <2>1. \A s \in inserted \ Live : Closed(s)
    BY NobodyIsNoThread DEF RetiredAreClosed
  <2>2. \A s \in inserted' \ Live' : Closed(s)' \/ s \in Elements(f.todo)
    BY <1>1, <2>1 DEF Closed
  <2>3. Top(writer)' = f
    BY <1>7 DEF Top
  <2> QED
    BY <2>2, <2>3 DEF RetiredAreClosed
<1>9. SilentAreClosed'
  BY <1>1, SilentKept
<1>10. OthersAreOut'
  <2>1. \A u \in Threads, s \in Subs : ~accepting[s] => Running(u, s)' \subseteq Running(u, s)
    BY <1>3
  <2> QED
    BY <2>1, OthersStayOut
<1>11. ReapersRemain'
  BY ReapersKept
<1> QED
  BY <1>3, <1>4, <1>5, <1>6, <1>8, <1>9, <1>10, <1>11

LEMMA UnsubscribeKeeps ==
    ASSUME IInv, NEW t \in Threads, NEW e \in Events, NEW matched, Unsubscribe(t, e, matched)
    PROVE  IInv'
<1>1. /\ StepOK(t) /\ writer = Nobody /\ writer' = t /\ Live' \subseteq Live
      /\ subscriptions' \in [Events -> Seq(Subs)]
  BY UnsubscribeStep DEF IInv
<1>2. PICK f : Pushes(t, f) /\ f.op = "closing" /\ Live \ Live' \subseteq Elements(f.todo)
  BY UnsubscribeStep DEF IInv
<1>3. UNCHANGED <<retired_generations, retiring, admissions, inserted, silent>>
  BY DEF Unsubscribe
<1>4. retired_generations' \in [Signatures -> Nat]
  BY <1>3 DEF IInv, TypeOK
<1>5. \A s \in Live' : OwnerOf[s].generation # retired_generations'[OwnerOf[s].signature]
  BY <1>1, <1>3 DEF IInv, RegistryOK
<1> QED
  BY <1>1, <1>2, <1>3, <1>4, <1>5, TakenOutKeeps

LEMMA RemoveOwnerKeeps ==
    ASSUME IInv, NEW t \in Threads, NEW o \in Owners, RemoveOwner(t, o)
    PROVE  IInv'
<1>1. /\ StepOK(t) /\ writer = Nobody /\ writer' = t /\ Live' \subseteq Live
      /\ \A s \in Live' : OwnerOf[s] # o
      /\ subscriptions' \in [Events -> Seq(Subs)] /\ retired_generations' \in [Signatures -> Nat]
      /\ \A g \in Signatures :
            retired_generations'[g] = IF g = o.signature
                                      THEN Larger(retired_generations[g], o.generation)
                                      ELSE retired_generations[g]
  BY RemoveOwnerStep DEF IInv
<1>2. PICK f : Pushes(t, f) /\ f.op = "retiring" /\ Live \ Live' \subseteq Elements(f.todo)
  BY RemoveOwnerStep DEF IInv
<1>3. UNCHANGED <<retiring, admissions, inserted, silent>>
  BY DEF RemoveOwner
<1>4. ASSUME NEW s \in Live'
      PROVE  OwnerOf[s].generation # retired_generations'[OwnerOf[s].signature]
  <2>1. s \in Live /\ s \in Subs /\ OwnerOf[s] # o
    BY <1>1 DEF IInv, RegistryOK, TypeOK
  <2>2. PICK r \in Subs : o = OwnerOf[r]
    BY DEF Owners
  <2>3. OwnerOf[s] \in [signature : Signatures, generation : Nat \ {0}]
    BY <2>1, OwnersAreTokens
  <2>4. o \in [signature : Signatures, generation : Nat \ {0}]
    BY <2>2, OwnersAreTokens
  <2>5. OwnerOf[s].signature # o.signature \/ OwnerOf[s].generation # o.generation
    BY <2>1, <2>3, <2>4
  <2>6. OwnerOf[s].generation # retired_generations[OwnerOf[s].signature]
    BY <2>1 DEF IInv, RegistryOK
  <2>7. OwnerOf[s].signature \in Signatures
    BY <2>3
  <2> QED
    BY <1>1, <2>5, <2>6, <2>7 DEF Larger
<1> QED
  BY <1>1, <1>2, <1>3, <1>4, TakenOutKeeps

LEMMA SubscribeKeeps ==
    ASSUME IInv, NEW t \in Threads, NEW s \in Subs, Subscribe(t, s)
    PROVE  IInv'
<1> USE DEF IInv
<1>1. /\ StepOK(t) /\ stack' = stack
      /\ s \notin inserted /\ inserted' = inserted \cup {s} /\ Live' = Live \cup {s}
      /\ OwnerOf[s].generation > retired_generations[OwnerOf[s].signature]
      /\ subscriptions' \in [Events -> Seq(Subs)]
      /\ UNCHANGED <<retired_generations, retiring, writer, admissions, silent>>
  BY SubscribeStep
<1>2. UNCHANGED <<accepting, in_flight, by_thread>>
  BY <1>1 DEF admissions
<1>3. Quiet(t)
  BY <1>1 DEF Quiet
<1>4. /\ CountersTyped' /\ CountersMatchFrames'
      /\ \A r : \A u \in Threads : Running(u, r)' = Running(u, r)
  BY <1>2, <1>3, CountsKept, RunningKept
<1>5. stack' \in [Threads -> Seq(Frame)] /\ StacksOK'
  BY <1>1, StackStep
<1>6. TypeOK'
  BY <1>1, <1>2, <1>5 DEF TypeOK
<1>7. OwnerOf[s] \in Owners /\ OwnerOf[s].generation \in Nat /\ OwnerOf[s].signature \in Signatures
  BY OwnersAreTokens DEF Owners
<1>8. retired_generations[OwnerOf[s].signature] \in Nat
  BY <1>7 DEF TypeOK
<1>9. RegistryOK'
  <2>1. IsFiniteSet(inserted')
    BY <1>1, FS_AddElement DEF RegistryOK
  <2>2. OwnerOf[s].generation # retired_generations[OwnerOf[s].signature]
    BY <1>1, <1>7, <1>8
  <2> QED
    BY <1>1, <2>1, <2>2 DEF RegistryOK
<1>10. RetiredAreClosed'
  <2>1. inserted' \ Live' \subseteq inserted \ Live
    BY <1>1
  <2>2. \A r : Closed(r)' = Closed(r)
    BY <1>1, <1>2 DEF Closed
  <2>3. Top(writer)' = Top(writer)
    BY <1>1 DEF Top
  <2> QED
    BY <1>1, <2>1, <2>2, <2>3 DEF RetiredAreClosed
<1>11. SilentAreClosed'
  <2>1. ASSUME NEW o \in silent
        PROVE  /\ Cleaned(o)'
               /\ \A r \in inserted' : OwnerOf[r] = o => ~accepting[r] /\ in_flight[r] = 0
    <3>1. Cleaned(o) /\ o \in Owners
      BY DEF SilentAreClosed, TypeOK
    <3>2. Cleaned(o)'
      BY <1>1, <3>1, ChangesFacts DEF Monotone
    <3>3. OwnerOf[s] # o
      BY <1>1, <1>7, <1>8, <3>1 DEF Cleaned
    <3> QED
      BY <1>1, <3>2, <3>3 DEF SilentAreClosed
  <2> QED
    BY <1>1, <1>2, <2>1 DEF SilentAreClosed
<1>12. OthersAreOut'
  <2>1. \A u \in Threads, r \in Subs : ~accepting[r] => Running(u, r)' \subseteq Running(u, r)
    BY <1>4
  <2> QED
    BY <1>1, <2>1, OthersStayOut
<1>13. ReapersRemain'
  BY <1>1, ReapersKept
<1> QED
  BY <1>4, <1>5, <1>6, <1>9, <1>10, <1>11, <1>12, <1>13
-----------------------------------------------------------------------------
(* The theorems. *)

\* Nothing runs, nothing is subscribed, nothing is watched.
LEMMA InitHolds == Init => IInv
<1> SUFFICES ASSUME Init PROVE IInv
  OBVIOUS
<1>1. /\ writer = Nobody /\ inserted = {} /\ silent = {}
      /\ subscriptions = [e \in Events |-> <<>>]
      /\ \A t \in Threads : stack[t] = <<>> /\ Len(stack[t]) = 0
      /\ \A o \in Owners : retiring[o] = {}
  BY DEF Init
<1>2. TypeOK
  <2>1. <<>> \in Seq(Subs) /\ <<>> \in Seq(Frame)
    BY EmptySeq
  <2>2. by_thread \in [Subs -> [Threads -> Nat]] /\ in_flight \in [Subs -> Nat]
    BY DEF Init
  <2>3. stack \in [Threads -> Seq(Frame)] /\ subscriptions \in [Events -> Seq(Subs)]
    BY <2>1 DEF Init
  <2> QED
    BY <2>2, <2>3 DEF Init, TypeOK
<1>3. Live = {}
  BY <1>1 DEF Live, Elements
<1>4. StacksOK
  BY <1>1, NobodyIsNoThread DEF StacksOK, At, Busy
<1>5. RegistryOK
  BY <1>1, <1>3, FS_EmptySet DEF RegistryOK
<1>6. CountersMatchFrames
  <2>1. \A t \in Threads, s \in Subs : Running(t, s) = {}
    BY <1>1 DEF Running, Calling
  <2>2. \A s \in Subs : UNION {{t} \X Running(t, s) : t \in Threads} = {}
    <3> TAKE s \in Subs
    <3>1. \A x : x \notin UNION {{t} \X Running(t, s) : t \in Threads}
      BY <2>1
    <3> QED
      BY <3>1
  <2>3. Cardinality({}) = 0
    BY FS_EmptySet
  <2>4. \A s \in Subs : in_flight[s] = 0 /\ \A t \in Threads : by_thread[s][t] = 0
    BY DEF Init
  <2> QED
    BY <2>1, <2>2, <2>3, <2>4 DEF CountersMatchFrames
<1>7. RetiredAreClosed /\ SilentAreClosed /\ OthersAreOut /\ ReapersRemain
  BY <1>1 DEF RetiredAreClosed, SilentAreClosed, OthersAreOut, ReapersRemain
<1> QED
  BY <1>2, <1>4, <1>5, <1>6, <1>7 DEF IInv

\* A step that changes nothing changes nothing of the invariant.
LEMMA StutterKeeps == IInv /\ UNCHANGED vars => IInv'
<1> SUFFICES ASSUME IInv, UNCHANGED vars PROVE IInv'
  OBVIOUS
<1>1. /\ UNCHANGED <<subscriptions, retired_generations, retiring, writer, inserted, stack, silent>>
      /\ UNCHANGED <<accepting, in_flight, by_thread>>
  BY DEF vars, registry, admissions
<1>2. TypeOK'
  BY <1>1 DEF IInv, TypeOK
<1>3. Live' = Live /\ (\A o : Cleaned(o)' = Cleaned(o)) /\ \A s : Closed(s)' = Closed(s)
  BY <1>1 DEF Live, Cleaned, Closed
<1>4. StacksOK'
  <2>1. \A f : FrameOK(f)' = FrameOK(f)
    BY <1>1, <1>3 DEF FrameOK
  <2> QED
    BY <1>1, <2>1 DEF IInv, StacksOK, At, Busy, Top
<1>5. RegistryOK'
  BY <1>1, <1>3 DEF IInv, RegistryOK
<1>6. CountersMatchFrames'
  BY <1>1 DEF IInv, CountersMatchFrames, Running, Calling
<1>7. RetiredAreClosed'
  BY <1>1, <1>3 DEF IInv, RetiredAreClosed, Top
<1>8. SilentAreClosed'
  BY <1>1, <1>3 DEF IInv, SilentAreClosed
<1>9. OthersAreOut'
  <2>1. \A u, s : Running(u, s)' = Running(u, s)
    BY <1>1 DEF Running, Calling
  <2> QED
    BY <1>1, <2>1 DEF IInv, OthersAreOut
<1>10. ReapersRemain'
  BY <1>1 DEF IInv, ReapersRemain
<1> QED
  BY <1>2, <1>4, <1>5, <1>6, <1>7, <1>8, <1>9, <1>10 DEF IInv

LEMMA NextKeeps == IInv /\ [Next]_vars => IInv'
<1> SUFFICES ASSUME IInv, [Next]_vars PROVE IInv'
  OBVIOUS
<1>1. ASSUME NEW t \in Threads, Step(t) PROVE IInv'
  <2>1. CASE Admit(t)
    BY <2>1, AdmitKeeps
  <2>2. CASE SkipClosed(t)
    BY <2>2, SkipKeeps
  <2>3. CASE Return(t)
    BY <2>3, ReturnKeeps
  <2>4. ASSUME NEW o \in Owners, Reap(t, o) PROVE IInv'
    BY <2>4, ReapKeeps
  <2>5. CASE CloseNext(t)
    BY <2>5, CloseKeeps
  <2>6. CASE Staged(t)
    BY <2>6, StagedKeeps
  <2>7. CASE WaitOver(t)
    BY <2>7, WaitOverKeeps
  <2>8. CASE Report(t)
    BY <2>8, ReportKeeps
  <2> QED
    BY <1>1, <2>1, <2>2, <2>3, <2>4, <2>5, <2>6, <2>7, <2>8 DEF Step
<1>2. ASSUME NEW t \in Threads, Operation(t) PROVE IInv'
  <2>1. ASSUME NEW s \in Subs, Subscribe(t, s) PROVE IInv'
    BY <2>1, SubscribeKeeps
  <2>2. ASSUME NEW e \in Events, NEW signatures, Raise(t, e, signatures) PROVE IInv'
    BY <2>2, RaiseKeeps
  <2>3. ASSUME NEW e \in Events, NEW matched, Unsubscribe(t, e, matched) PROVE IInv'
    BY <2>3, UnsubscribeKeeps
  <2>4. ASSUME NEW o \in Owners, RemoveOwner(t, o) PROVE IInv'
    BY <2>4, RemoveOwnerKeeps
  <2> QED
    BY <1>2, <2>1, <2>2, <2>3, <2>4 DEF Operation
<1>3. CASE UNCHANGED vars
  BY <1>3, StutterKeeps
<1> QED
  BY <1>1, <1>2, <1>3 DEF Next

\* Nested dispatches, retirements and cleanups of any number of threads keep
\* the frames, the registry and the admissions of events.rs in step.
THEOREM Inductive == Spec => []IInv
<1>1. Init => IInv
  BY InitHolds
<1>2. IInv /\ [Next]_vars => IInv'
  BY NextKeeps
<1> QED
  BY <1>1, <1>2, PTL DEF Spec

\* Every stack holds frames of the bus, every counter is a natural number: leave
\* never takes one below zero.
THEOREM TypeCorrect == Spec => []TypeOK
<1>1. IInv => TypeOK
  BY DEF IInv
<1> QED
  BY <1>1, Inductive, PTL

\* AdmissionState counts the callbacks that run, nested ones included: in total
\* and for each thread.
THEOREM CountersMatch == Spec => []CountersMatchFrames
<1>1. IInv => CountersMatchFrames
  BY DEF IInv
<1> QED
  BY <1>1, Inductive, PTL

\* Once remove_owner has reported an owner quiescent, no thread is in a callback
\* of that owner, nor ever will be: the addon's code may be unloaded.
THEOREM ReportIsFinal == Spec => []QuiescentReportIsSilent
<1>1. IInv => QuiescentReportIsSilent
  <2> SUFFICES ASSUME IInv, NEW o \in silent, NEW t \in Threads, NEW i \in Calling(t),
                      OwnerOf[Head(stack[t][i].todo)] = o
               PROVE  FALSE
    BY DEF QuiescentReportIsSilent
  <2>1. i \in 1..Len(stack[t]) /\ stack[t][i].op = "call"
    <3>1. DOMAIN stack[t] = 1..Len(stack[t])
      BY DEF IInv, TypeOK
    <3> QED
      BY <3>1 DEF Calling
  <2>2. PICK f : f = stack[t][i]
    OBVIOUS
  <2>3. FrameOK(f) /\ f.op = "call"
    BY <2>1, <2>2 DEF IInv, StacksOK
  <2>4. f.todo \in Seq(Subs) /\ f.todo # <<>>
    BY <2>3 DEF FrameOK, Frame
  <2>5. Head(f.todo) \in Elements(f.todo) /\ Head(f.todo) \in Subs
    BY <2>4, TodoFacts
  <2>6. in_flight[Head(f.todo)] = 0
    BY <2>2, <2>3, <2>5 DEF IInv, FrameOK, SilentAreClosed
  <2>7. Running(t, Head(f.todo)) = {}
    BY <2>5, <2>6, CountersTell DEF IInv
  <2> QED
    BY <2>2, <2>7 DEF Running
<1> QED
  BY <1>1, Inductive, PTL

\* A frame's waited part is a prefix of its batch.
LEMMA WaitedIsDone ==
    ASSUME NEW f \in Frame, Len(f.todo) <= Len(f.batch)
    PROVE  Elements(SubSeq(f.batch, 1, Len(f.batch) - Len(f.todo))) = Done(f)
<1> DEFINE n == Len(f.batch) - Len(f.todo)
<1>1. Len(f.batch) \in Nat /\ Len(f.todo) \in Nat /\ f.batch \in Seq(Subs)
  BY FrameElements DEF Frame
<1>2. n \in Nat /\ \A i \in 1..n : i \in 1..Len(f.batch)
  <2> DEFINE a == Len(f.batch)
             b == Len(f.todo)
  <2>1. a \in Nat /\ b \in Nat /\ b <= a
    BY <1>1
  <2> HIDE DEF a, b
  <2>2. a - b \in Nat /\ \A i \in 1..(a - b) : i \in 1..a
    BY <2>1
  <2> QED
    BY <2>2 DEF a, b
<1>3. \A i \in 1..n : f.batch[i] \in Subs
  BY <1>1, <1>2, ElementOfSeq
<1>4. Done(f) = {f.batch[i] : i \in 1..n}
  BY DEF Done
<1> HIDE DEF n
<1>5. /\ SubSeq(f.batch, 1, n) \in Seq(Subs)
      /\ Len(SubSeq(f.batch, 1, n)) = IF 1 <= n THEN n - 1 + 1 ELSE 0
      /\ \A i \in 1..(n - 1 + 1) : SubSeq(f.batch, 1, n)[i] = f.batch[1 + i - 1]
  BY <1>2, <1>3, SubSeqProperties
<1>6. Len(SubSeq(f.batch, 1, n)) = n /\ \A i \in 1..n : SubSeq(f.batch, 1, n)[i] = f.batch[i]
  BY <1>2, <1>5
<1>7. DOMAIN SubSeq(f.batch, 1, n) = 1..n
  BY <1>5, <1>6, LenProperties
<1> QED
  BY <1>4, <1>6, <1>7 DEF Elements, n

\* After an exact unsubscription has waited for a callback, no other thread is
\* inside it: only the callers that the retirement is nested in are.
THEOREM UnsubscriberAlone == Spec => []UnsubscriberIsAlone
<1>1. IInv => UnsubscriberIsAlone
  <2> SUFFICES ASSUME IInv, NEW t \in Threads, NEW u \in Threads, NEW i \in DOMAIN stack[t],
                      stack[t][i].op = "waiting", t # u
               PROVE  \A s \in Elements(SubSeq(stack[t][i].batch, 1,
                                  Len(stack[t][i].batch) - Len(stack[t][i].todo))) :
                          Running(u, s) = {}
    BY DEF UnsubscriberIsAlone
  <2>1. i \in 1..Len(stack[t])
    <3>1. DOMAIN stack[t] = 1..Len(stack[t])
      BY DEF IInv, TypeOK
    <3> QED
      BY <3>1
  <2>2. PICK f : f = stack[t][i]
    OBVIOUS
  <2>3. f \in Frame /\ Len(f.todo) <= Len(f.batch)
    BY <2>1, <2>2 DEF IInv, StacksOK, FrameOK
  <2>4. Elements(SubSeq(f.batch, 1, Len(f.batch) - Len(f.todo))) = Done(f)
    BY <2>3, WaitedIsDone
  <2>5. \A s \in Done(f) : Running(u, s) = {}
    BY <2>1, <2>2 DEF IInv, OthersAreOut
  <2> QED
    BY <2>2, <2>4, <2>5
<1> QED
  BY <1>1, Inductive, PTL

\* A generation that was cleaned up has no subscription left, and a subscription
\* that comes after the cleanup is refused.
THEOREM CleanedStaysEmpty == Spec => []CleanedOwnerHasNoSubscription
<1>1. IInv => CleanedOwnerHasNoSubscription
  BY DEF IInv, RegistryOK, CleanedOwnerHasNoSubscription
<1> QED
  BY <1>1, Inductive, PTL

\* When every thread has left the bus, no closed admission is still watched:
\* whoever found an owner busy left its reaping to the callbacks that ran.
THEOREM NothingUnreaped == Spec => []NothingLeftToReap
<1>1. IInv => NothingLeftToReap
  <2> SUFFICES ASSUME IInv, \A t \in Threads : ~Busy(t), NEW o \in Owners, retiring[o] # {}
               PROVE  FALSE
    BY DEF NothingLeftToReap
  <2>1. PICK t \in Threads : \E i \in 1..Len(stack[t]) : o \in stack[t][i].owners
    BY DEF IInv, ReapersRemain
  <2>2. Len(stack[t]) = 0
    BY DEF Busy
  <2> QED
    BY <2>1, <2>2
<1> QED
  BY <1>1, Inductive, PTL
=============================================================================
