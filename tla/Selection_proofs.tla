-------------------------- MODULE Selection_proofs --------------------------
(* What Only returns, for every sequence and every set, and the induction on  *)
(* numbers that shows it.                                                     *)
EXTENDS Selection, SequenceTheorems, WellFoundedInduction, TLAPS

\* A set of numbers that is not empty has a least one.
LEMMA LeastNumber ==
    ASSUME NEW T \in SUBSET Nat, T # {}
    PROVE  \E n \in T : \A m \in T : n <= m
<1>1. \E n \in T : \A m \in T : <<m, n>> \notin OpToRel(<, Nat)
  BY WFMin, NatLessThanWellFounded
<1>2. PICK n \in T : \A m \in T : <<m, n>> \notin OpToRel(<, Nat)
  BY <1>1
<1>3. ASSUME NEW m \in T PROVE n <= m
  <2>1. m \in Nat /\ n \in Nat
    OBVIOUS
  <2>2. ~(m < n)
    BY <1>2, <2>1 DEF OpToRel
  <2> QED
    BY <2>1, <2>2
<1> QED
  BY <1>2, <1>3

\* Whatever holds of 0 and passes to the next number holds of all.
LEMMA NatInduct ==
    ASSUME NEW T \in SUBSET Nat, 0 \in T, \A n \in T : n + 1 \in T
    PROVE  T = Nat
<1>1. SUFFICES ASSUME Nat \ T # {} PROVE FALSE
  OBVIOUS
<1>2. PICK n \in Nat \ T : \A m \in Nat \ T : n <= m
  BY <1>1, LeastNumber
<1>3. n # 0 /\ n - 1 \in Nat /\ n - 1 \in T
  BY <1>2
<1> QED
  BY <1>2, <1>3

LEMMA ElementsAppend ==
    ASSUME NEW A, NEW seq \in Seq(A), NEW e \in A
    PROVE  Elements(Append(seq, e)) = Elements(seq) \cup {e}
<1>1. /\ DOMAIN Append(seq, e) = 1..(Len(seq) + 1) /\ DOMAIN seq = 1..Len(seq)
      /\ Len(seq) \in Nat
  OBVIOUS
<1>2. \A i \in 1..Len(seq) : Append(seq, e)[i] = seq[i]
  OBVIOUS
<1>3. Append(seq, e)[Len(seq) + 1] = e
  OBVIOUS
<1>4. 1..(Len(seq) + 1) = 1..Len(seq) \cup {Len(seq) + 1}
  BY <1>1
<1> QED
  BY <1>1, <1>2, <1>3, <1>4 DEF Elements

\* A recursion along 1..N has the values its steps say.
Iterates(f, V, N, base, step) ==
    /\ f \in [0..N -> V]
    /\ f[0] = base
    /\ \A n \in 1..N : f[n] = step[n][f[n - 1]]
LEMMA Iteration ==
    ASSUME NEW V, NEW N \in Nat, NEW base \in V, NEW step \in [1..N -> [V -> V]]
    PROVE  \E f : Iterates(f, V, N, base, step)
<1> DEFINE Starts(f) == f[0] = base
           Follows(f, n) == \A i \in 1..n : f[i] = step[i][f[i - 1]]
           Short == {n \in Nat : n <= N => \E f \in [0..n -> V] : Starts(f) /\ Follows(f, n)}
<1>1. 0 \in Short
  <2> DEFINE f == [i \in 0..0 |-> base]
  <2>1. f \in [0..0 -> V] /\ f[0] = base /\ 1..0 = {}
    OBVIOUS
  <2> HIDE DEF f
  <2>2. Starts(f) /\ Follows(f, 0)
    BY <2>1
  <2> QED
    BY <2>1, <2>2
<1>2. ASSUME NEW n \in Short
      PROVE  n + 1 \in Short
  <2> SUFFICES ASSUME n + 1 <= N
               PROVE  \E f \in [0..(n + 1) -> V] : Starts(f) /\ Follows(f, n + 1)
    <3>1. n + 1 \in Nat
      OBVIOUS
    <3> QED
      BY <3>1
  <2>1. n \in Nat /\ n <= N /\ n + 1 \in 1..N
    OBVIOUS
  <2>2. PICK f \in [0..n -> V] : Starts(f) /\ Follows(f, n)
    BY <2>1
  <2> DEFINE last == step[n + 1][f[n]]
             g == [i \in 0..(n + 1) |-> IF i = n + 1 THEN last ELSE f[i]]
  <2>3. last \in V
    <3>1. f[n] \in V
      BY <2>1, <2>2
    <3>2. step[n + 1] \in [V -> V]
      BY <2>1
    <3> QED
      BY <3>1, <3>2
  <2> HIDE DEF last
  <2>4. g \in [0..(n + 1) -> V]
    BY <2>1, <2>2, <2>3
  <2>5. (\A i \in 0..n : g[i] = f[i]) /\ g[n + 1] = last
    BY <2>1
  <2> HIDE DEF g
  <2>6. Starts(g)
    BY <2>1, <2>2, <2>5
  <2>7. ASSUME NEW i \in 1..(n + 1)
        PROVE  g[i] = step[i][g[i - 1]]
    <3>1. CASE i = n + 1
      <4>1. i - 1 = n /\ n \in 0..n
        BY <3>1, <2>1
      <4>2. g[i - 1] = f[n] /\ g[i] = last
        BY <4>1, <3>1, <2>5
      <4> QED
        BY <4>2, <3>1 DEF last
    <3>2. CASE i \in 1..n
      <4>1. i \in 0..n /\ i - 1 \in 0..n
        BY <3>2, <2>1
      <4>2. g[i] = f[i] /\ g[i - 1] = f[i - 1] /\ f[i] = step[i][f[i - 1]]
        BY <4>1, <2>2, <2>5, <3>2
      <4> QED
        BY <4>2
    <3> QED
      BY <2>1, <3>1, <3>2
  <2> QED
    BY <2>4, <2>6, <2>7
<1> HIDE DEF Short
<1>3. Short = Nat
  <2>1. Short \in SUBSET Nat
    BY DEF Short
  <2> QED
    BY <1>1, <1>2, <2>1, NatInduct
<1>4. N \in Short
  BY <1>3
<1> QED
  BY <1>4 DEF Short, Iterates
-----------------------------------------------------------------------------
(* The operator Only. *)

\* Only goes along the sequence, and appends what it finds in S.
Picks(picks, A, seq, S) ==
    /\ picks \in [0..Len(seq) -> Seq(A)]
    /\ Only(seq, S) = picks[Len(seq)]
    /\ picks[0] = <<>>
    /\ \A n \in 1..Len(seq) :
          picks[n] = IF seq[n] \in S THEN Append(picks[n - 1], seq[n]) ELSE picks[n - 1]
LEMMA OnlyPicks ==
    ASSUME NEW A, NEW seq \in Seq(A), NEW S
    PROVE  \E picks : Picks(picks, A, seq, S)
<1> DEFINE N == Len(seq)
           After(h, i) == IF i = 0 THEN <<>>
                          ELSE IF seq[i] \in S THEN Append(h[i - 1], seq[i]) ELSE h[i - 1]
           step == [n \in 1..N |-> [q \in Seq(A) |->
                        IF seq[n] \in S THEN Append(q, seq[n]) ELSE q]]
<1>1. N \in Nat /\ \A n \in 1..N : seq[n] \in A
  OBVIOUS
<1>2. step \in [1..N -> [Seq(A) -> Seq(A)]]
  <2>1. ASSUME NEW n \in 1..N, NEW q \in Seq(A)
        PROVE  (IF seq[n] \in S THEN Append(q, seq[n]) ELSE q) \in Seq(A)
    BY <1>1
  <2> QED
    BY <2>1
<1>3. \A n \in 1..N : \A q \in Seq(A) :
         step[n][q] = IF seq[n] \in S THEN Append(q, seq[n]) ELSE q
  OBVIOUS
<1>4. <<>> \in Seq(A)
  OBVIOUS
<1> HIDE DEF step, N
<1>5. PICK f : Iterates(f, Seq(A), N, <<>>, step)
  BY <1>1, <1>2, <1>4, Iteration
<1>51. f \in [0..N -> Seq(A)] /\ f[0] = <<>> /\ \A n \in 1..N : f[n] = step[n][f[n - 1]]
  BY <1>5 DEF Iterates
<1>6. ASSUME NEW n \in 1..N
      PROVE  f[n] = IF seq[n] \in S THEN Append(f[n - 1], seq[n]) ELSE f[n - 1]
  <2>1. n - 1 \in 0..N
    BY <1>1
  <2>2. f[n - 1] \in Seq(A)
    BY <2>1, <1>51
  <2> QED
    BY <1>3, <1>51, <2>2
<1>7. \A i \in 0..N : f[i] = After(f, i)
  <2>1. ASSUME NEW i \in 0..N PROVE i = 0 \/ (i \in 1..N /\ i # 0)
    BY <1>1
  <2> QED
    BY <1>51, <1>6, <2>1
<1>8. f = [i \in 0..N |-> After(f, i)]
  BY <1>51, <1>7
<1> DEFINE picks == CHOOSE h : h = [i \in 0..N |-> After(h, i)]
<1>9. picks = [i \in 0..N |-> After(picks, i)]
  BY <1>8
<1>10. Only(seq, S) = picks[N]
  BY DEF Only, N
<1> HIDE DEF picks
<1>11. \A i \in 0..N : picks[i] = After(picks, i)
  BY <1>9
<1>12. picks[0] = <<>>
  BY <1>1, <1>11
<1>13. ASSUME NEW n \in 1..N
       PROVE  picks[n] = IF seq[n] \in S THEN Append(picks[n - 1], seq[n]) ELSE picks[n - 1]
  <2>1. n \in 0..N /\ n # 0
    BY <1>1
  <2> QED
    BY <1>11, <2>1
<1>14. \A n \in 0..N : picks[n] \in Seq(A)
  <2> DEFINE Good == {n \in Nat : n <= N => picks[n] \in Seq(A)}
  <2>1. 0 \in Good
    BY <1>4, <1>12
  <2>2. ASSUME NEW n \in Good PROVE n + 1 \in Good
    <3> SUFFICES ASSUME n + 1 <= N PROVE picks[n + 1] \in Seq(A)
      OBVIOUS
    <3>1. n \in Nat /\ n <= N /\ n + 1 \in 1..N /\ (n + 1) - 1 = n
      BY <1>1
    <3>2. picks[n] \in Seq(A) /\ seq[n + 1] \in A
      BY <1>1, <3>1
    <3>3. picks[n + 1] = IF seq[n + 1] \in S THEN Append(picks[n], seq[n + 1]) ELSE picks[n]
      BY <1>13, <3>1
    <3> QED
      BY <3>2, <3>3
  <2>3. Good \in SUBSET Nat
    OBVIOUS
  <2> HIDE DEF Good
  <2>4. Good = Nat
    BY <2>1, <2>2, <2>3, NatInduct
  <2> QED
    BY <1>1, <2>4 DEF Good
<1>15. picks \in [0..N -> Seq(A)]
  <2>1. picks = [i \in 0..N |-> picks[i]]
    BY <1>9
  <2> QED
    BY <1>14, <2>1
<1> QED
  BY <1>10, <1>12, <1>13, <1>15 DEF N, Picks

\* Only picks the elements of seq that are in S, and nothing else.
LEMMA OnlyFacts ==
    ASSUME NEW A, NEW seq \in Seq(A), NEW S
    PROVE  /\ Only(seq, S) \in Seq(A)
           /\ Elements(Only(seq, S)) = Elements(seq) \cap S
<1> PICK picks : Picks(picks, A, seq, S)
  BY OnlyPicks
<1>1. /\ picks \in [0..Len(seq) -> Seq(A)]
      /\ Only(seq, S) = picks[Len(seq)]
      /\ picks[0] = <<>>
      /\ \A n \in 1..Len(seq) :
            picks[n] = IF seq[n] \in S THEN Append(picks[n - 1], seq[n]) ELSE picks[n - 1]
  BY DEF Picks
<1>2. Len(seq) \in Nat /\ DOMAIN seq = 1..Len(seq) /\ \A n \in 1..Len(seq) : seq[n] \in A
  OBVIOUS
<1> DEFINE Good == {n \in Nat : n <= Len(seq) =>
                       Elements(picks[n]) = {seq[j] : j \in 1..n} \cap S}
<1>3. 0 \in Good
  <2>1. Elements(picks[0]) = {} /\ {seq[j] : j \in 1..0} = {}
    BY <1>1 DEF Elements
  <2> QED
    BY <2>1
<1>4. ASSUME NEW n \in Good
      PROVE  n + 1 \in Good
  <2> SUFFICES ASSUME n + 1 <= Len(seq)
               PROVE  Elements(picks[n + 1]) = {seq[j] : j \in 1..(n + 1)} \cap S
    <3>1. n + 1 \in Nat
      OBVIOUS
    <3> QED
      BY <3>1
  <2>1. n \in Nat /\ n <= Len(seq) /\ n + 1 \in 1..Len(seq) /\ (n + 1) - 1 = n
        /\ n \in 0..Len(seq)
    BY <1>2
  <2>2. picks[n] \in Seq(A) /\ Elements(picks[n]) = {seq[j] : j \in 1..n} \cap S
    BY <1>1, <2>1
  <2>3. picks[n + 1] = IF seq[n + 1] \in S THEN Append(picks[n], seq[n + 1]) ELSE picks[n]
    BY <1>1, <2>1
  <2>4. seq[n + 1] \in A
    BY <1>2, <2>1
  <2>5. {seq[j] : j \in 1..(n + 1)} = {seq[j] : j \in 1..n} \cup {seq[n + 1]}
    <3>1. 1..(n + 1) = 1..n \cup {n + 1}
      BY <2>1
    <3> QED
      BY <3>1
  <2>6. Elements(Append(picks[n], seq[n + 1])) = Elements(picks[n]) \cup {seq[n + 1]}
    BY <2>2, <2>4, ElementsAppend
  <2> QED
    BY <2>2, <2>3, <2>4, <2>5, <2>6
<1> HIDE DEF Good
<1>5. Good = Nat
  <2>1. Good \in SUBSET Nat
    BY DEF Good
  <2> QED
    BY <1>3, <1>4, <2>1, NatInduct
<1>6. Elements(picks[Len(seq)]) = {seq[j] : j \in 1..Len(seq)} \cap S
  <2>1. Len(seq) \in Good /\ Len(seq) <= Len(seq)
    BY <1>2, <1>5
  <2> QED
    BY <2>1 DEF Good
<1>7. Only(seq, S) \in Seq(A)
  BY <1>1, <1>2
<1>8. Elements(seq) = {seq[j] : j \in 1..Len(seq)}
  BY <1>2 DEF Elements
<1> QED
  BY <1>1, <1>6, <1>7, <1>8

\* What Only picks is in order, and each of it stands at a place of its own.
Embeds(h, short, long) ==
    /\ h \in [1..Len(short) -> 1..Len(long)]
    /\ \A n \in 1..Len(short) : short[n] = long[h[n]]
    /\ \A m, n \in 1..Len(short) : m < n => h[m] < h[n]
LEMMA OnlyEmbeds ==
    ASSUME NEW A, NEW seq \in Seq(A), NEW S
    PROVE  /\ \E h : Embeds(h, Only(seq, S), seq)
           /\ Len(Only(seq, S)) <= Len(seq)
<1> PICK picks : Picks(picks, A, seq, S)
  BY OnlyPicks
<1>1. /\ picks \in [0..Len(seq) -> Seq(A)]
      /\ Only(seq, S) = picks[Len(seq)]
      /\ picks[0] = <<>>
      /\ \A n \in 1..Len(seq) :
            picks[n] = IF seq[n] \in S THEN Append(picks[n - 1], seq[n]) ELSE picks[n - 1]
  BY DEF Picks
<1>2. Len(seq) \in Nat /\ DOMAIN seq = 1..Len(seq) /\ \A n \in 1..Len(seq) : seq[n] \in A
  OBVIOUS
<1> DEFINE Into(h, n) ==
        /\ Len(picks[n]) <= n
        /\ h \in [1..Len(picks[n]) -> 1..n]
        /\ \A i \in 1..Len(picks[n]) : picks[n][i] = seq[h[i]]
        /\ \A i, j \in 1..Len(picks[n]) : i < j => h[i] < h[j]
           Good == {n \in Nat : n <= Len(seq) => \E h : Into(h, n)}
<1>3. 0 \in Good
  <2> DEFINE h == [i \in {} |-> 0]
  <2>1. Len(picks[0]) = 0 /\ 1..Len(picks[0]) = {}
    BY <1>1
  <2>2. h \in [{} -> 1..0]
    OBVIOUS
  <2> HIDE DEF h
  <2>3. Into(h, 0)
    BY <2>1, <2>2
  <2> QED
    BY <2>3
<1>4. ASSUME NEW n \in Good
      PROVE  n + 1 \in Good
  <2> SUFFICES ASSUME n + 1 <= Len(seq)
               PROVE  \E h : Into(h, n + 1)
    <3>1. n + 1 \in Nat
      OBVIOUS
    <3> QED
      BY <3>1
  <2>1. n \in Nat /\ n <= Len(seq) /\ n + 1 \in 1..Len(seq) /\ (n + 1) - 1 = n
        /\ n \in 0..Len(seq)
    BY <1>2
  <2>2. PICK h : Into(h, n)
    BY <2>1
  <2>3. picks[n + 1] = IF seq[n + 1] \in S THEN Append(picks[n], seq[n + 1]) ELSE picks[n]
    BY <1>1, <2>1
  <2>4. seq[n + 1] \in A /\ picks[n] \in Seq(A)
    BY <1>1, <1>2, <2>1
  <2> DEFINE L == Len(picks[n])
  <2>5. L \in Nat /\ L <= n
    BY <2>2, <2>4
  <2>6. CASE seq[n + 1] \notin S
    <3>1. picks[n + 1] = picks[n]
      BY <2>3, <2>6
    <3>2. h \in [1..L -> 1..(n + 1)]
      BY <2>1, <2>2, <2>5
    <3> QED
      BY <2>1, <2>2, <2>5, <3>1, <3>2
  <2>7. CASE seq[n + 1] \in S
    <3> HIDE DEF Good
    <3>1. /\ picks[n + 1] = Append(picks[n], seq[n + 1])
          /\ Len(picks[n + 1]) = L + 1
          /\ \A i \in 1..L : picks[n + 1][i] = picks[n][i]
          /\ picks[n + 1][L + 1] = seq[n + 1]
      BY <2>3, <2>4, <2>7
    <3>7. /\ h \in [1..L -> 1..n]
          /\ \A i \in 1..L : picks[n][i] = seq[h[i]]
          /\ \A i, j \in 1..L : i < j => h[i] < h[j]
      BY <2>2
    <3> HIDE DEF L
    <3> DEFINE g == [i \in 1..(L + 1) |-> IF i = L + 1 THEN n + 1 ELSE h[i]]
    <3>2. /\ \A i \in 1..L : g[i] = h[i] /\ h[i] \in 1..n
          /\ g[L + 1] = n + 1
      BY <2>5, <3>7
    <3>3. g \in [1..(L + 1) -> 1..(n + 1)]
      <4>1. ASSUME NEW i \in 1..(L + 1)
            PROVE  (IF i = L + 1 THEN n + 1 ELSE h[i]) \in 1..(n + 1)
        <5>1. i = L + 1 \/ i \in 1..L
          BY <2>5
        <5>2. i \in 1..L => h[i] \in 1..n
          BY <3>7
        <5> QED
          BY <2>1, <5>1, <5>2
      <4> QED
        BY <4>1
    <3> HIDE DEF g
    <3>4. ASSUME NEW i \in 1..(L + 1) PROVE picks[n + 1][i] = seq[g[i]]
      <4>1. i = L + 1 \/ i \in 1..L
        BY <2>5
      <4> QED
        BY <3>1, <3>2, <3>7, <4>1
    <3>5. ASSUME NEW i \in 1..(L + 1), NEW j \in 1..(L + 1), i < j PROVE g[i] < g[j]
      <4>1. i \in 1..L /\ (j = L + 1 \/ j \in 1..L)
        BY <2>5, <3>5
      <4>2. h[i] \in 1..n /\ g[i] = h[i]
        BY <3>2, <4>1
      <4>3. CASE j = L + 1
        BY <2>1, <3>2, <4>2, <4>3
      <4>4. CASE j \in 1..L
        BY <3>2, <3>5, <3>7, <4>1, <4>4
      <4> QED
        BY <4>1, <4>3, <4>4
    <3>6. L + 1 <= n + 1
      BY <2>1, <2>5
    <3>8. Into(g, n + 1)
      BY <3>1, <3>3, <3>4, <3>5, <3>6
    <3> QED
      BY <3>8
  <2> QED
    BY <2>6, <2>7
<1> HIDE DEF Good
<1>5. Good = Nat
  <2>1. Good \in SUBSET Nat
    BY DEF Good
  <2> QED
    BY <1>3, <1>4, <2>1, NatInduct
<1>6. PICK h : Into(h, Len(seq))
  <2>1. Len(seq) \in Good /\ Len(seq) <= Len(seq)
    BY <1>2, <1>5
  <2> QED
    BY <2>1 DEF Good
<1> QED
  BY <1>1, <1>6 DEF Embeds
=============================================================================
