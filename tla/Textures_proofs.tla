--------------------------- MODULE Textures_proofs ---------------------------
(****************************************************************************)
(* The texture service with any loaders, owners, workers and names, and any *)
(* capacities and limits.                                                    *)
(****************************************************************************)
EXTENDS Textures, Selection_proofs, FiniteSetTheorems, TLAPS

\* Where a name leads: what is registered under it or, while a load shadows it,
\* what that load will give back.
Leads(reg, pend, name, texture) ==
    \/ name \in DOMAIN reg /\ reg[name] = texture
    \/ name \in DOMAIN pend /\ pend[name].shadowed # NoShadow
       /\ pend[name].shadowed.texture = texture

\* A name is registered or loading, and a loaded one leads somewhere.  An alias
\* that has become the name of another texture leads no more to the one that was
\* moved there.
NamesOK(reg, pend, loaded) ==
    /\ DOMAIN reg \cap DOMAIN pend = {}
    /\ loaded \subseteq DOMAIN reg \cup {i \in DOMAIN pend : pend[i].shadowed # NoShadow}
    /\ \A i \in DOMAIN pend :
          pend[i].shadowed # NoShadow /\ pend[i].shadowed.alias \in loaded =>
              ~Leads(reg, pend, pend[i].shadowed.alias, pend[i].shadowed.texture)

\* What is registered was created; a request in flight is another one, and gives
\* back what was created.
ImagesOK(reg, pend, made, failed) ==
    /\ {reg[i] : i \in DOMAIN reg} = made
    /\ made \cap failed = {}
    /\ \A i \in DOMAIN pend :
          /\ pend[i].request_id \notin made \cup failed
          /\ pend[i].shadowed # NoShadow => pend[i].shadowed.texture \in made
    /\ \A i, j \in DOMAIN pend : pend[i].request_id = pend[j].request_id => i = j

RegistryOK ==
    /\ IsFiniteSet(DOMAIN registry) /\ IsFiniteSet(DOMAIN pending)
    /\ NamesOK(registry, pending, named)
    /\ ImagesOK(registry, pending, created, cancelled)
    /\ \A i \in DOMAIN pending : pending[i].request_id < next_request_id
    /\ \A r \in created \cup cancelled : r < next_request_id

\* What the processes rely on.
LoaderOK(ld) ==
    /\ ld.at \in {"resolving", "calling"} => ld.job \in Job
    /\ ld.at = "cached" => Len(ld.callbacks) = 1 /\ ld.callbacks[1].owner = ld.owner
RenderOK(rd) ==
    /\ rd.at \in {"matched", "uploaded"} => rd.job \in Job
    /\ rd.at # "calling" => rd.callbacks = <<>>
ProcessesOK == (\A l \in Loaders : LoaderOK(loader[l])) /\ RenderOK(render)

\* The places where a callback waits, and those that hold the callback c.
Slots == [kind : {"pending", "ready", "render", "loader"},
          at : Identifiers \cup Loaders \cup {"service"}, n : Nat \ {0}]
Same(s, t) == s.kind = t.kind /\ s.at = t.at /\ s.n = t.n
HasAt(callbacks, n, c) == n \in DOMAIN callbacks /\ callbacks[n].id = c
InPending(i, n, c) == i \in DOMAIN pending /\ HasAt(pending[i].callbacks, n, c)
InReady(n, c) ==
    n \in DOMAIN completions /\ IsReady(completions[n]) /\ completions[n].callback.id = c
InRender(n, c) == HasAt(render.callbacks, n, c)
InLoader(l, n, c) ==
    l \in Loaders /\ loader[l].at \in {"cached", "calling"} /\ HasAt(loader[l].callbacks, n, c)
Holds(s, c) ==
    \/ s.kind = "pending" /\ InPending(s.at, s.n, c)
    \/ s.kind = "ready" /\ s.at = "service" /\ InReady(s.n, c)
    \/ s.kind = "render" /\ s.at = "service" /\ InRender(s.n, c)
    \/ s.kind = "loader" /\ InLoader(s.at, s.n, c)

\* A callback is in one place, and was not called yet.
InOnePlace ==
    \A s, t \in Slots : \A c \in 1..MaxCallbacks : Holds(s, c) /\ Holds(t, c) => Same(s, t)
UncalledOK ==
    /\ \A s \in Slots : \A c \in 1..MaxCallbacks :
          Holds(s, c) => c < next_callback_id /\ called[c] = 0
    /\ \A c \in 1..MaxCallbacks : /\ called[c] <= 1
                                  /\ c >= next_callback_id => called[c] = 0

\* What an addon that loads nothing any more has left.
NoneOf(callbacks, o) == \A n \in DOMAIN callbacks : callbacks[n].owner # o
Gone(flight, o) == o \notin flight.owners /\ NoneOf(flight.callbacks, o)
NoneReady(comps, o) ==
    \A n \in DOMAIN comps : IsReady(comps[n]) => comps[n].callback.owner # o
QuietOK ==
    \A o \in quiet : /\ ~Loading(o)
                     /\ \A i \in DOMAIN pending : Gone(pending[i], o)
                     /\ o \notin cleaning => NoneReady(completions, o)

IInv ==
    /\ TypeOK /\ ProcessesOK
    /\ RegistryOK
    /\ InOnePlace /\ UncalledOK
    /\ QuietOK
-----------------------------------------------------------------------------
(* Functions of names. *)

LEMMA PutFacts ==
    \A f, x, v : /\ DOMAIN Put(f, x, v) = DOMAIN f \cup {x}
                 /\ Put(f, x, v)[x] = v
                 /\ \A y \in DOMAIN f : y # x => Put(f, x, v)[y] = f[y]
  BY DEF Put

LEMMA PutType ==
    ASSUME NEW V, NEW f, f \in [DOMAIN f -> V], NEW x, NEW v \in V
    PROVE  Put(f, x, v) \in [DOMAIN f \cup {x} -> V]
  BY DEF Put

LEMMA WithoutFacts ==
    \A f, x : /\ DOMAIN Without(f, x) = DOMAIN f \ {x}
              /\ \A y \in DOMAIN f : y # x => Without(f, x)[y] = f[y]
  BY DEF Without, Restrict

\* The names of reg once the alias has gone.
Kept(reg, shadowed) ==
    {i \in DOMAIN reg : ~(i = shadowed.alias /\ reg[i] = shadowed.texture)}

Restored(r, reg, i, shadowed) ==
    /\ DOMAIN r = Kept(reg, shadowed) \cup {i}
    /\ r[i] = shadowed.texture
    /\ \A y \in Kept(reg, shadowed) : r[y] = reg[y]
LEMMA RestoreFacts ==
    ASSUME NEW reg, NEW i, NEW shadowed, shadowed # NoShadow, i \notin DOMAIN reg
    PROVE  Restored(RestoreShadow(reg, i, shadowed), reg, i, shadowed)
<1> DEFINE gone == shadowed.alias \in DOMAIN reg /\ reg[shadowed.alias] = shadowed.texture
           kept == IF gone THEN Without(reg, shadowed.alias) ELSE reg
<1>1. RestoreShadow(reg, i, shadowed) = Put(kept, i, shadowed.texture)
  BY DEF RestoreShadow
<1>2. DOMAIN kept = Kept(reg, shadowed) /\ \A y \in Kept(reg, shadowed) : kept[y] = reg[y]
  <2>1. CASE gone
    <3>1. kept = Without(reg, shadowed.alias) /\ Kept(reg, shadowed) = DOMAIN reg \ {shadowed.alias}
      BY <2>1 DEF Kept
    <3> HIDE DEF kept
    <3> QED
      BY <3>1, WithoutFacts
  <2>2. CASE ~gone
    <3>1. kept = reg /\ Kept(reg, shadowed) = DOMAIN reg
      BY <2>2 DEF Kept
    <3> HIDE DEF kept
    <3> QED
      BY <3>1
  <2> QED
    BY <2>1, <2>2
<1> HIDE DEF kept
<1>3. i \notin Kept(reg, shadowed)
  BY DEF Kept
<1> QED
  BY <1>1, <1>2, <1>3 DEF Put, Restored

Registries == UNION {[D -> Requests] : D \in SUBSET Names}
LEMMA RegistryFacts ==
    \A r : r \in Registries <=> DOMAIN r \subseteq Names /\ r \in [DOMAIN r -> Requests]
<1>1. ASSUME NEW r, r \in Registries
      PROVE  DOMAIN r \subseteq Names /\ r \in [DOMAIN r -> Requests]
  <2>1. PICK D \in SUBSET Names : r \in [D -> Requests]
    BY <1>1 DEF Registries
  <2> QED
    BY <2>1
<1>2. ASSUME NEW r, DOMAIN r \subseteq Names, r \in [DOMAIN r -> Requests]
      PROVE  r \in Registries
  BY <1>2 DEF Registries
<1> QED
  BY <1>1, <1>2

LEMMA RestoreType ==
    ASSUME NEW reg \in Registries, NEW i \in Names, NEW shadowed,
           shadowed # NoShadow => shadowed.texture \in Requests
    PROVE  /\ RestoreShadow(reg, i, shadowed) \in Registries
           /\ DOMAIN RestoreShadow(reg, i, shadowed) \subseteq DOMAIN reg \cup {i}
<1> DEFINE V == Requests
<1> HIDE DEF V
<1>0. reg \in [DOMAIN reg -> V] /\ DOMAIN reg \subseteq Names
  BY RegistryFacts DEF V
<1>1. CASE shadowed = NoShadow \/ i \in DOMAIN reg
  BY <1>1 DEF RestoreShadow
<1>2. CASE shadowed # NoShadow /\ i \notin DOMAIN reg
  <2> DEFINE gone == shadowed.alias \in DOMAIN reg /\ reg[shadowed.alias] = shadowed.texture
             kept == IF gone THEN Without(reg, shadowed.alias) ELSE reg
  <2>1. RestoreShadow(reg, i, shadowed) = Put(kept, i, shadowed.texture)
    BY <1>2 DEF RestoreShadow
  <2>2. kept \in [DOMAIN kept -> V] /\ DOMAIN kept \subseteq DOMAIN reg
    <3>1. CASE gone
      <4>1. kept = Without(reg, shadowed.alias)
        BY <3>1
      <4> QED
        BY <1>0, <4>1 DEF Without, Restrict
    <3>2. CASE ~gone
      <4>1. kept = reg
        BY <3>2
      <4> HIDE DEF kept
      <4> QED
        BY <1>0, <4>1
    <3> QED
      BY <3>1, <3>2
  <2> HIDE DEF kept
  <2>3. Put(kept, i, shadowed.texture) \in [DOMAIN kept \cup {i} -> V]
    BY <1>2, <2>2, PutType DEF V
  <2>4. /\ RestoreShadow(reg, i, shadowed) \in [DOMAIN kept \cup {i} -> Requests]
        /\ DOMAIN kept \cup {i} \subseteq Names
    BY <1>0, <2>1, <2>2, <2>3 DEF V
  <2> QED
    BY <1>0, <2>2, <2>4 DEF Registries
<1> QED
  BY <1>1, <1>2

\* A request that fails or is cancelled gives its texture the name back: no loaded
\* name and no texture is lost.
LEMMA Dropped ==
    ASSUME NEW reg, NEW pend, NEW loaded, NEW made, NEW failed, NEW i \in DOMAIN pend,
           NamesOK(reg, pend, loaded), ImagesOK(reg, pend, made, failed)
    PROVE  LET r == RestoreShadow(reg, i, pend[i].shadowed)
               p == Without(pend, i)
           IN  /\ NamesOK(r, p, loaded)
               /\ ImagesOK(r, p, made, failed \cup {pend[i].request_id})
<1> DEFINE shadowed == pend[i].shadowed
           r == RestoreShadow(reg, i, shadowed)
           p == Without(pend, i)
<1>1. i \notin DOMAIN reg
  BY DEF NamesOK
<1>2. DOMAIN p = DOMAIN pend \ {i} /\ \A j \in DOMAIN p : p[j] = pend[j]
  BY WithoutFacts
<1>3. CASE shadowed = NoShadow
  <2>1. r = reg
    BY <1>3 DEF RestoreShadow
  <2>2. NamesOK(r, p, loaded)
    BY <1>2, <1>3, <2>1 DEF NamesOK, Leads
  <2>3. ImagesOK(r, p, made, failed \cup {pend[i].request_id})
    BY <1>2, <2>1 DEF ImagesOK
  <2> QED
    BY <2>2, <2>3
<1>4. CASE shadowed # NoShadow
  <2> DEFINE kept == Kept(reg, shadowed)
  <2>1. /\ DOMAIN r = kept \cup {i} /\ r[i] = shadowed.texture
        /\ \A y \in kept : r[y] = reg[y]
    <3>1. Restored(r, reg, i, shadowed)
      BY <1>1, <1>4, RestoreFacts
    <3> QED
      BY <3>1 DEF Restored
  <2>2. /\ kept \subseteq DOMAIN reg
        /\ \A y \in DOMAIN reg : y \notin kept => y = shadowed.alias /\ reg[y] = shadowed.texture
    BY DEF Kept
  <2>3. DOMAIN r \cap DOMAIN p = {}
    BY <1>2, <2>1, <2>2 DEF NamesOK
  <2>4. ASSUME NEW j \in loaded
        PROVE  j \in DOMAIN r \cup {k \in DOMAIN p : p[k].shadowed # NoShadow}
    <3>1. CASE j \in DOMAIN reg
      <4>1. j \in kept
        BY <1>4, <2>2, <3>1 DEF NamesOK, Leads
      <4> QED
        BY <2>1, <4>1
    <3>2. CASE j \in DOMAIN pend /\ pend[j].shadowed # NoShadow
      BY <1>2, <2>1, <3>2
    <3> QED
      BY <3>1, <3>2 DEF NamesOK
  <2>5. ASSUME NEW j \in DOMAIN p, p[j].shadowed # NoShadow, p[j].shadowed.alias \in loaded,
               Leads(r, p, p[j].shadowed.alias, p[j].shadowed.texture)
        PROVE  FALSE
    <3> DEFINE a == p[j].shadowed.alias
               x == p[j].shadowed.texture
    <3>1. j \in DOMAIN pend /\ pend[j].shadowed # NoShadow
          /\ pend[j].shadowed.alias = a /\ pend[j].shadowed.texture = x /\ a \in loaded
      BY <1>2, <2>5
    <3>2. ~Leads(reg, pend, a, x)
      BY <3>1 DEF NamesOK
    <3> HIDE DEF a, x
    <3>3. Leads(r, p, a, x)
      BY <2>5 DEF a, x
    <3> QED
      BY <1>2, <1>4, <2>1, <2>2, <3>2, <3>3 DEF Leads
  <2>6. NamesOK(r, p, loaded)
    BY <2>3, <2>4, <2>5 DEF NamesOK
  <2>7. {r[y] : y \in DOMAIN r} = made
    <3>1. shadowed.texture \in made /\ {reg[y] : y \in DOMAIN reg} = made
      BY <1>4 DEF ImagesOK
    <3>2. ASSUME NEW m \in made PROVE \E y \in DOMAIN r : r[y] = m
      <4>1. PICK y \in DOMAIN reg : reg[y] = m
        BY <3>1
      <4> QED
        BY <2>1, <2>2, <4>1
    <3>3. ASSUME NEW y \in DOMAIN r PROVE r[y] \in made
      BY <2>1, <2>2, <3>1
    <3> QED
      BY <3>2, <3>3
  <2>8. ImagesOK(r, p, made, failed \cup {pend[i].request_id})
    BY <1>2, <2>7 DEF ImagesOK
  <2> QED
    BY <2>6, <2>8
<1> QED
  BY <1>3, <1>4

\* All that is told of two requests apart is what they wait for.
LEMMA SameRequests ==
    ASSUME NEW reg, NEW p, NEW q, NEW loaded, NEW made, NEW failed, DOMAIN p = DOMAIN q,
           \A i \in DOMAIN p : p[i].shadowed = q[i].shadowed /\ p[i].request_id = q[i].request_id
    PROVE  /\ NamesOK(reg, p, loaded) => NamesOK(reg, q, loaded)
           /\ ImagesOK(reg, p, made, failed) => ImagesOK(reg, q, made, failed)
<1>1. ASSUME NamesOK(reg, p, loaded) PROVE NamesOK(reg, q, loaded)
  <2>1. \A name, x : Leads(reg, q, name, x) => Leads(reg, p, name, x)
    BY DEF Leads
  <2> QED
    BY <1>1, <2>1 DEF NamesOK
<1>2. ASSUME ImagesOK(reg, p, made, failed) PROVE ImagesOK(reg, q, made, failed)
  BY <1>2 DEF ImagesOK
<1> QED
  BY <1>1, <1>2

\* RestoreShadows gives one name back after the other.
Restores(f, order) ==
    /\ f[0] = registry
    /\ \A n \in 1..Len(order) :
          f[n] = RestoreShadow(f[n - 1], order[n], pending[order[n]].shadowed)
LEMMA RestoresInOrder ==
    ASSUME TypeOK, NEW order \in Seq(DOMAIN pending)
    PROVE  \E f \in [0..Len(order) -> Registries] :
              Restores(f, order) /\ RestoreShadows(order) = f[Len(order)]
<1> DEFINE N == Len(order)
           shadow(n) == pending[order[n]].shadowed
           After(h, n) == IF n = 0 THEN registry
                          ELSE RestoreShadow(h[n - 1], order[n], shadow(n))
           step == [n \in 1..N |-> [r \in Registries |-> RestoreShadow(r, order[n], shadow(n))]]
<1>1. N \in Nat /\ \A n \in 1..N : order[n] \in DOMAIN pending
  OBVIOUS
<1>2. ASSUME NEW n \in 1..N
      PROVE  order[n] \in Names /\ (shadow(n) # NoShadow => shadow(n).texture \in Requests)
  <2>1. order[n] \in DOMAIN pending
    BY <1>1
  <2>2. pending[order[n]] \in InFlight /\ order[n] \in Identifiers
    BY <2>1 DEF TypeOK
  <2> QED
    BY <2>2, NamesAreSequences DEF InFlight, Shadow, Names
<1>3. registry \in Registries
  BY RegistryFacts DEF TypeOK
<1>4. ASSUME NEW n \in 1..N, NEW r \in Registries
      PROVE  RestoreShadow(r, order[n], shadow(n)) \in Registries
  BY <1>2, RestoreType
<1>5. step \in [1..N -> [Registries -> Registries]]
  BY <1>4
<1>6. \A n \in 1..N : \A r \in Registries :
         step[n][r] = RestoreShadow(r, order[n], shadow(n))
  OBVIOUS
<1> HIDE DEF step, N
<1>7. PICK f : Iterates(f, Registries, N, registry, step)
  BY <1>1, <1>3, <1>5, Iteration
<1>8. /\ f \in [0..N -> Registries]
      /\ f[0] = registry
      /\ \A n \in 1..N : f[n] = step[n][f[n - 1]]
  BY <1>7 DEF Iterates
<1>9. ASSUME NEW n \in 1..N
      PROVE  f[n] = RestoreShadow(f[n - 1], order[n], shadow(n))
  <2>1. n - 1 \in 0..N
    BY <1>1
  <2>2. f[n - 1] \in Registries
    BY <1>8, <2>1
  <2> QED
    BY <1>6, <1>8, <2>2
<1>10. ASSUME NEW n \in 0..N PROVE f[n] = After(f, n)
  <2>1. n = 0 \/ (n # 0 /\ n \in 1..N)
    BY <1>1
  <2> QED
    BY <1>8, <1>9, <2>1
<1>11. f = [n \in 0..N |-> After(f, n)]
  BY <1>8, <1>10
<1> DEFINE restored == CHOOSE h : h = [n \in 0..N |-> After(h, n)]
<1>12. restored = [n \in 0..N |-> After(restored, n)]
  BY <1>11
<1>13. RestoreShadows(order) = restored[N]
  BY DEF RestoreShadows, N
<1> HIDE DEF restored
<1>14. \A n \in 0..N : restored[n] = After(restored, n)
  BY <1>12
<1>15. restored[0] = registry
  BY <1>1, <1>14
<1>16. ASSUME NEW n \in 1..N
       PROVE  restored[n] = RestoreShadow(restored[n - 1], order[n], shadow(n))
  <2>1. n \in 0..N /\ n # 0
    BY <1>1
  <2> QED
    BY <1>14, <2>1
<1>17. \A n \in 0..N : restored[n] \in Registries
  <2> DEFINE Good == {n \in Nat : n <= N => restored[n] \in Registries}
  <2>1. 0 \in Good
    BY <1>3, <1>15
  <2>2. ASSUME NEW n \in Good PROVE n + 1 \in Good
    <3> SUFFICES ASSUME n + 1 <= N PROVE restored[n + 1] \in Registries
      OBVIOUS
    <3>1. n \in Nat /\ n <= N /\ n + 1 \in 1..N /\ (n + 1) - 1 = n
      BY <1>1
    <3>2. restored[n] \in Registries
      BY <3>1
    <3> HIDE DEF Good
    <3>3. RestoreShadow(restored[n], order[n + 1], shadow(n + 1)) \in Registries
      BY <1>4, <3>1, <3>2
    <3>4. restored[n + 1] = RestoreShadow(restored[n], order[n + 1], shadow(n + 1))
      BY <1>16, <3>1
    <3> QED
      BY <3>3, <3>4
  <2>3. Good \in SUBSET Nat
    OBVIOUS
  <2> HIDE DEF Good
  <2>4. Good = Nat
    BY <2>1, <2>2, <2>3, NatInduct
  <2> QED
    BY <1>1, <2>4 DEF Good
<1>18. restored \in [0..N -> Registries]
  <2>1. restored = [n \in 0..N |-> restored[n]]
    BY <1>12
  <2> QED
    BY <1>17, <2>1
<1> QED
  BY <1>13, <1>15, <1>16, <1>18 DEF Restores, N

\* The requests that a cleanup drops, in whatever order, leave names and textures
\* right.
Rest(gone) == Restrict(pending, DOMAIN pending \ gone)
LEMMA DroppedAll ==
    ASSUME TypeOK, RegistryOK, NEW dropped \in SUBSET DOMAIN pending,
           NEW order \in Bijection(1..Cardinality(dropped), dropped)
    PROVE  /\ RestoreShadows(order) \in Registries
           /\ DOMAIN RestoreShadows(order) \subseteq DOMAIN registry \cup dropped
           /\ NamesOK(RestoreShadows(order), Rest(dropped), named)
           /\ ImagesOK(RestoreShadows(order), Rest(dropped), created,
                       cancelled \cup {pending[i].request_id : i \in dropped})
<1> DEFINE N == Cardinality(dropped)
           Done(n) == {order[k] : k \in 1..n}
           Ids(n) == {pending[i].request_id : i \in Done(n)}
<1>1. N \in Nat
  BY FS_Subset, FS_CardinalityType DEF RegistryOK
<1>2. /\ order \in [1..N -> dropped]
      /\ \A i \in dropped : \E k \in 1..N : order[k] = i
      /\ \A j, k \in 1..N : order[j] = order[k] => j = k
  BY DEF Bijection, Injection, Surjection, IsInjective
<1> HIDE DEF N
<1>3. order \in Seq(DOMAIN pending) /\ Len(order) = N
  BY <1>1, <1>2
<1>4. PICK f \in [0..N -> Registries] : Restores(f, order) /\ RestoreShadows(order) = f[N]
  BY <1>3, RestoresInOrder
<1>5. f[0] = registry /\ \A n \in 1..N : f[n] = RestoreShadow(f[n - 1], order[n],
                                                              pending[order[n]].shadowed)
  BY <1>3, <1>4 DEF Restores
<1> DEFINE Right(n) == /\ NamesOK(f[n], Rest(Done(n)), named)
                       /\ ImagesOK(f[n], Rest(Done(n)), created, cancelled \cup Ids(n))
                       /\ DOMAIN f[n] \subseteq DOMAIN registry \cup Done(n)
           Good == {n \in Nat : n <= N => Right(n)}
<1>6. 0 \in Good
  <2>1. Done(0) = {} /\ Ids(0) = {}
    OBVIOUS
  <2>2. DOMAIN Rest({}) = DOMAIN pending /\ \A i \in DOMAIN pending : Rest({})[i] = pending[i]
    BY DEF Rest, Restrict
  <2>3. NamesOK(registry, Rest({}), named) /\ ImagesOK(registry, Rest({}), created, cancelled)
    BY <2>2, SameRequests DEF RegistryOK
  <2>4. Right(0)
    BY <1>5, <2>1, <2>3
  <2> HIDE DEF Right
  <2> QED
    BY <2>4
<1>7. ASSUME NEW n \in Good
      PROVE  n + 1 \in Good
  <2> SUFFICES ASSUME n + 1 <= N PROVE Right(n + 1)
    <3> HIDE DEF Right
    <3> QED
      OBVIOUS
  <2>1. /\ n \in Nat /\ n <= N /\ n + 1 \in 1..N /\ (n + 1) - 1 = n
        /\ n \in 0..N /\ 1..(n + 1) = 1..n \cup {n + 1} /\ 1..n \subseteq 1..N
        /\ n + 1 \notin 1..n
    BY <1>1
  <2>2. Right(n)
    <3> HIDE DEF Right
    <3> QED
      BY <2>1
  <2> HIDE DEF Good
  <2> DEFINE i == order[n + 1]
             rest == Rest(Done(n))
  <2>3. i \in dropped /\ i \notin Done(n) /\ Done(n) \subseteq dropped
    BY <1>2, <2>1
  <2>4. Done(n + 1) = Done(n) \cup {i}
    BY <2>1
  <2>5. Ids(n + 1) = Ids(n) \cup {pending[i].request_id}
    BY <2>4
  <2>6. f[n + 1] = RestoreShadow(f[n], i, pending[i].shadowed)
    BY <1>5, <2>1
  <2>7. /\ NamesOK(f[n], rest, named)
        /\ ImagesOK(f[n], rest, created, cancelled \cup Ids(n))
        /\ DOMAIN f[n] \subseteq DOMAIN registry \cup Done(n)
    BY <2>2
  <2> HIDE DEF Done, Ids, i
  <2>8. i \in DOMAIN rest /\ rest[i] = pending[i]
    BY <2>3 DEF Rest, Restrict
  <2>9. Rest(Done(n + 1)) = Without(rest, i)
    BY <2>4 DEF Rest, Restrict, Without
  <2> HIDE DEF rest
  <2>10. /\ NamesOK(f[n + 1], Without(rest, i), named)
         /\ ImagesOK(f[n + 1], Without(rest, i), created,
                     (cancelled \cup Ids(n)) \cup {pending[i].request_id})
    <3> DEFINE reg == f[n]
               failed == cancelled \cup Ids(n)
    <3>1. i \in DOMAIN rest /\ NamesOK(reg, rest, named) /\ ImagesOK(reg, rest, created, failed)
      BY <2>7, <2>8
    <3> HIDE DEF reg, failed
    <3>2. /\ NamesOK(RestoreShadow(reg, i, rest[i].shadowed), Without(rest, i), named)
          /\ ImagesOK(RestoreShadow(reg, i, rest[i].shadowed), Without(rest, i), created,
                      failed \cup {rest[i].request_id})
      BY <3>1, Dropped
    <3> QED
      BY <2>6, <2>8, <3>2 DEF reg, failed
  <2>11. (cancelled \cup Ids(n)) \cup {pending[i].request_id} = cancelled \cup Ids(n + 1)
    BY <2>5
  <2>12. DOMAIN f[n + 1] \subseteq DOMAIN registry \cup Done(n + 1)
    <3>1. i \in Names /\ (pending[i].shadowed # NoShadow => pending[i].shadowed.texture \in Requests)
      BY <2>3, NamesAreSequences DEF TypeOK, InFlight, Shadow, Names
    <3>2. f[n] \in Registries
      BY <1>4, <2>1
    <3>3. DOMAIN f[n + 1] \subseteq DOMAIN f[n] \cup {i}
      BY <2>6, <3>1, <3>2, RestoreType
    <3> QED
      BY <2>4, <2>7, <3>3
  <2> QED
    BY <2>9, <2>10, <2>11, <2>12
<1> HIDE DEF Good
<1>8. Good = Nat
  <2>1. Good \in SUBSET Nat
    BY DEF Good
  <2> QED
    BY <1>6, <1>7, <2>1, NatInduct
<1>9. Right(N)
  <2> HIDE DEF Right
  <2> QED
    BY <1>1, <1>8 DEF Good
<1>10. Done(N) = dropped
  BY <1>2
<1>11. f[N] \in Registries
  BY <1>1, <1>4
<1> QED
  BY <1>4, <1>9, <1>10, <1>11

\* An alias is a name that is neither registered nor loading.
LEMMA AliasIsFree ==
    ASSUME IsFiniteSet(DOMAIN registry), IsFiniteSet(DOMAIN pending), NEW identifier \in Names
    PROVE  /\ Alias(identifier) \in Names
           /\ Alias(identifier) \notin DOMAIN registry \cup DOMAIN pending
<1> DEFINE used == DOMAIN registry \cup DOMAIN pending
           limit == Cardinality(used) + 1
           Free(n) == Append(identifier, n) \notin used
           free == {n \in 1..limit : Free(n)}
<1>1. IsFiniteSet(used) /\ Cardinality(used) \in Nat /\ limit \in Nat /\ Cardinality(used) < limit
  <2>1. IsFiniteSet(used)
    BY FS_Union
  <2> QED
    BY <2>1, FS_CardinalityType
<1>2. Alias(identifier) = Append(identifier, Min(free))
  BY DEF Alias
<1>3. identifier \in Seq(Nat)
  BY DEF Names
<1>4. free # {}
  <2> SUFFICES ASSUME free = {} PROVE FALSE
    OBVIOUS
  <2> DEFINE f == [n \in 1..limit |-> Append(identifier, n)]
  <2>1. f \in [1..limit -> used]
    OBVIOUS
  <2>2. IsFiniteSet(1..limit) /\ Cardinality(1..limit) = limit
    BY <1>1, FS_Interval
  <2>3. \A m, n \in 1..limit : f[m] = f[n] => m = n
    <3>1. ASSUME NEW m \in 1..limit, NEW n \in 1..limit, Append(identifier, m) = Append(identifier, n)
          PROVE  m = n
      <4>1. m \in Nat /\ n \in Nat
        BY <1>1
      <4>2. /\ Append(identifier, m)[Len(identifier) + 1] = m
            /\ Append(identifier, n)[Len(identifier) + 1] = n
        BY <1>3, <4>1
      <4> QED
        BY <3>1, <4>2
    <3> QED
      BY <3>1
  <2> HIDE DEF f, used, limit
  <2> QED
    BY <1>1, <2>1, <2>2, <2>3, FS_PigeonHole
<1> HIDE DEF used, limit
<1>5. PICK n \in free : \A m \in free : n <= m
  <2>1. free \in SUBSET Nat
    BY <1>1
  <2> HIDE DEF free
  <2> QED
    BY <1>4, <2>1, LeastNumber
<1>6. Min(free) \in free
  <2> HIDE DEF free
  <2> QED
    BY <1>5 DEF Min
<1>7. Min(free) \in Nat /\ Append(identifier, Min(free)) \notin used
  <2> DEFINE n0 == Min(free)
  <2>1. n0 \in free
    BY <1>6
  <2> HIDE DEF n0
  <2>2. n0 \in 1..limit /\ Append(identifier, n0) \notin used
    BY <2>1
  <2> QED
    BY <1>1, <2>2 DEF n0
<1> QED
  BY <1>2, <1>3, <1>7 DEF used, Names
-----------------------------------------------------------------------------
(* Types. *)

LoaderType == [at : {"idle", "cached", "resolving", "calling"}, owner : Owners, lazy : BOOLEAN,
               job : Job \cup {NoJob}, callbacks : Callbacks]
RenderType == [at : {"out", "matched", "uploaded", "calling"}, job : Job \cup {NoJob},
               ok : BOOLEAN, callbacks : Callbacks]
InFlights(p) ==
    /\ DOMAIN p \subseteq Identifiers /\ p \in [DOMAIN p -> InFlight]
    /\ \A i \in DOMAIN p : Len(p[i].callbacks) <= CallbackLimit

RegistryTypes == registry \in Registries
PendingTypes == InFlights(pending)
CounterTypes == next_request_id \in 1..MaxRequests + 1 /\ next_callback_id \in 1..MaxCallbacks + 1
JobTypes ==
    jobs \in [Workers -> Seq(Job)] /\ \A w \in Workers : Len(jobs[w]) <= WorkCapacity
CompletionTypes == completions \in Seq(Completion) /\ Len(completions) <= CompletionCapacity
LoaderTypes ==
    loader \in [Loaders -> LoaderType] /\ \A l \in Loaders : LoaderOK(loader[l])
RenderTypes == render \in RenderType /\ RenderOK(render)
ThreadTypes ==
    /\ worker \in [Workers -> Job \cup {NoJob}]
    /\ cleaning \in SUBSET Addons /\ stopping \in BOOLEAN
HistoryTypes ==
    /\ created \in SUBSET Requests /\ cancelled \in SUBSET Requests
    /\ named \in SUBSET Identifiers
    /\ called \in [1..MaxCallbacks -> Nat]
    /\ quiet \in SUBSET Addons

Types ==
    /\ RegistryTypes /\ PendingTypes /\ CounterTypes /\ JobTypes /\ CompletionTypes
    /\ LoaderTypes /\ RenderTypes /\ ThreadTypes /\ HistoryTypes
LEMMA TypeParts == Types <=> TypeOK /\ ProcessesOK
  BY RegistryFacts DEF Types, TypeOK, ProcessesOK, RegistryTypes, PendingTypes, CounterTypes,
     JobTypes, CompletionTypes, LoaderTypes, RenderTypes, ThreadTypes, HistoryTypes, InFlights,
     LoaderType, RenderType

LEMMA Constants ==
    /\ WorkCapacity \in Nat /\ CompletionCapacity \in Nat
    /\ CallbackLimit \in Nat /\ CallbackLimit >= 1
    /\ MaxRequests \in Nat /\ MaxCallbacks \in Nat
    /\ Host \in Owners /\ Addons \subseteq Owners
    /\ Identifiers \subseteq Names
    /\ <<>> \in Callbacks
  BY LimitsArePositive, BoundsAreNat, NamesAreSequences DEF Owners, Names, Callbacks

LEMMA Resting == NotLoading \in LoaderType /\ NotRendering \in RenderType
  BY Constants DEF NotLoading, NotRendering, LoaderType, RenderType

\* What is known of a request in flight.
LEMMA Entry ==
    ASSUME NEW p, InFlights(p), NEW i \in DOMAIN p
    PROVE  /\ p[i] \in InFlight /\ i \in Identifiers /\ i \in Names
           /\ p[i].request_id \in Requests /\ p[i].owners \in SUBSET Owners
           /\ p[i].callbacks \in Seq(Callback) /\ Len(p[i].callbacks) <= CallbackLimit
           /\ Len(p[i].callbacks) \in Nat
           /\ p[i].shadowed \in Shadow \cup {NoShadow}
           /\ p[i].shadowed # NoShadow => /\ p[i].shadowed.texture \in Requests
                                          /\ p[i].shadowed.alias \in Names
<1>1. p[i] \in InFlight /\ i \in Identifiers /\ Len(p[i].callbacks) <= CallbackLimit
  BY DEF InFlights
<1>2. /\ p[i].request_id \in Requests /\ p[i].owners \in SUBSET Owners
      /\ p[i].callbacks \in Seq(Callback) /\ p[i].shadowed \in Shadow \cup {NoShadow}
  BY <1>1 DEF InFlight, Callbacks
<1>3. p[i].shadowed # NoShadow => p[i].shadowed.texture \in Requests /\ p[i].shadowed.alias \in Names
  BY <1>2 DEF Shadow
<1> QED
  BY <1>1, <1>2, <1>3, Constants

LEMMA PutInFlight ==
    ASSUME NEW p, InFlights(p), NEW i \in Identifiers, NEW v \in InFlight,
           Len(v.callbacks) <= CallbackLimit
    PROVE  InFlights(Put(p, i, v))
<1>1. Put(p, i, v) \in [DOMAIN p \cup {i} -> InFlight]
  <2> DEFINE V == InFlight
  <2> HIDE DEF V
  <2>1. p \in [DOMAIN p -> V] /\ v \in V
    BY DEF InFlights, V
  <2> QED
    BY <2>1, PutType DEF V
<1>2. DOMAIN Put(p, i, v) = DOMAIN p \cup {i}
  BY PutFacts
<1>3. ASSUME NEW j \in DOMAIN p \cup {i}
      PROVE  Len(Put(p, i, v)[j].callbacks) <= CallbackLimit
  BY PutFacts DEF InFlights
<1> QED
  BY <1>1, <1>2, <1>3 DEF InFlights

LEMMA WithoutInFlight ==
    ASSUME NEW p, InFlights(p), NEW i
    PROVE  InFlights(Without(p, i))
<1>1. /\ DOMAIN Without(p, i) = DOMAIN p \ {i}
      /\ \A j \in DOMAIN p \ {i} : Without(p, i)[j] = p[j]
      /\ Without(p, i) = [j \in DOMAIN p \ {i} |-> p[j]]
  BY WithoutFacts DEF Without, Restrict
<1> QED
  BY <1>1 DEF InFlights

\* The callback of a load, if it has one, is new and its owner's.
Accepted(callbacks, owner) ==
    /\ callbacks \in Seq(Callback)
    /\ next_callback_id + Len(callbacks) \in 1..MaxCallbacks + 1
    /\ \/ callbacks = <<>> /\ Len(callbacks) = 0
       \/ /\ callbacks # <<>> /\ Len(callbacks) = 1
          /\ callbacks[1] = [id |-> next_callback_id, owner |-> owner]
          /\ next_callback_id \in 1..MaxCallbacks
LEMMA SubmittedFacts ==
    ASSUME CounterTypes, NEW owner \in Owners, NEW with_callback \in BOOLEAN,
           with_callback => next_callback_id <= MaxCallbacks
    PROVE  Accepted(Submitted(owner, with_callback), owner)
<1>1. next_callback_id \in 1..MaxCallbacks + 1 /\ next_callback_id \in Nat /\ MaxCallbacks \in Nat
  BY Constants DEF CounterTypes
<1>2. CASE with_callback
  <2> DEFINE c == [id |-> next_callback_id, owner |-> owner]
  <2>1. c \in Callback /\ next_callback_id \in 1..MaxCallbacks
    BY <1>1, <1>2 DEF Callback
  <2>2. Submitted(owner, with_callback) = <<c>>
    BY <1>2 DEF Submitted
  <2> HIDE DEF c
  <2>3. <<c>> \in Seq(Callback) /\ Len(<<c>>) = 1 /\ <<c>>[1] = c /\ <<c>> # <<>>
    BY <2>1
  <2> QED
    BY <1>1, <2>1, <2>2, <2>3 DEF Accepted, c
<1>3. CASE ~with_callback
  <2>1. Submitted(owner, with_callback) = <<>>
    BY <1>3 DEF Submitted
  <2> QED
    BY <1>1, <2>1, Constants DEF Accepted
<1> QED
  BY <1>2, <1>3

LEMMA JoinTypes ==
    ASSUME Types, NEW identifier \in Identifiers, NEW owner \in Owners,
           NEW lazy \in BOOLEAN, NEW callbacks, Accepted(callbacks, owner),
           Join(identifier, owner, lazy, callbacks)
    PROVE  RegistryTypes' /\ PendingTypes'
<1>1. RegistryTypes /\ InFlights(pending)
  BY DEF Types, PendingTypes
<1> DEFINE p == pending[identifier]
           attached == IF lazy THEN <<>> ELSE callbacks
           both == p.callbacks \o attached
<1>2. identifier \in DOMAIN pending /\ registry' = registry
  BY DEF Join
<1>3. /\ p \in InFlight /\ p.owners \in SUBSET Owners /\ p.callbacks \in Seq(Callback)
      /\ Len(p.callbacks) \in Nat /\ Len(p.callbacks) <= CallbackLimit
  BY <1>1, <1>2, Entry
<1>4. attached \in Seq(Callback) /\ Len(attached) \in Nat /\ (attached = <<>> => Len(attached) = 0)
  BY Constants DEF Accepted
<1>5. RegistryTypes'
  BY <1>1, <1>2 DEF RegistryTypes
<1>6. CASE pending' = pending
  BY <1>1, <1>5, <1>6 DEF PendingTypes, InFlights
<1>7. CASE /\ ~(Len(p.callbacks) + Len(attached) > CallbackLimit /\ attached # <<>>)
           /\ pending' = [pending EXCEPT ![identifier].callbacks = @ \o attached,
                                         ![identifier].owners = @ \cup {owner}]
  <2> DEFINE v == [p EXCEPT !.callbacks = both, !.owners = @ \cup {owner}]
  <2>1. both \in Seq(Callback) /\ Len(both) = Len(p.callbacks) + Len(attached)
    BY <1>3, <1>4
  <2>2. Len(both) <= CallbackLimit
    <3> DEFINE held == Len(p.callbacks)
               more == Len(attached)
    <3>1. ~(held + more > CallbackLimit /\ attached # <<>>)
      BY <1>7
    <3>2. /\ held \in Nat /\ held <= CallbackLimit /\ more \in Nat
          /\ (attached = <<>> => more = 0) /\ Len(both) = held + more
      BY <1>3, <1>4, <2>1
    <3> HIDE DEF held, more, both, attached
    <3> QED
      BY <3>1, <3>2, Constants
  <2> HIDE DEF both
  <2>3. v \in InFlight /\ v.callbacks = both
    BY <1>3, <2>1 DEF InFlight, Callbacks
  <2>4. pending' = [pending EXCEPT ![identifier] = v]
    BY <1>2, <1>7 DEF both
  <2> HIDE DEF v
  <2>5. /\ DOMAIN pending' = DOMAIN pending /\ pending'[identifier] = v
        /\ \A j \in DOMAIN pending : j # identifier => pending'[j] = pending[j]
        /\ pending' = [j \in DOMAIN pending |-> pending'[j]]
    BY <1>2, <2>4
  <2>6. \A j \in DOMAIN pending : pending'[j] \in InFlight /\ Len(pending'[j].callbacks) <= CallbackLimit
    BY <1>1, <2>2, <2>3, <2>5 DEF InFlights
  <2>7. InFlights(pending')
    BY <1>1, <2>5, <2>6 DEF InFlights
  <2> QED
    BY <1>5, <2>7 DEF PendingTypes
<1> QED
  BY <1>6, <1>7 DEF Join

LEMMA LoaderSet ==
    ASSUME LoaderTypes, NEW l \in Loaders, NEW ld \in LoaderType, LoaderOK(ld), SetLoader(l, ld)
    PROVE  /\ LoaderTypes'
           /\ loader'[l] = ld
           /\ \A k \in Loaders : k # l => loader'[k] = loader[k]
  BY DEF SetLoader, LoaderTypes

LEMMA IdleSet ==
    ASSUME LoaderTypes, NEW l \in Loaders, SetLoader(l, NotLoading)
    PROVE  LoaderTypes' /\ loader'[l].at = "idle" /\ loader'[l].callbacks = <<>>
<1>1. NotLoading \in LoaderType /\ LoaderOK(NotLoading)
      /\ NotLoading.at = "idle" /\ NotLoading.callbacks = <<>>
  BY Resting DEF LoaderOK, NotLoading
<1> QED
  BY <1>1, LoaderSet

LEMMA RenderOut ==
    ASSUME render' = NotRendering
    PROVE  RenderTypes' /\ render'.at = "out" /\ render'.callbacks = <<>>
<1>1. NotRendering \in RenderType /\ RenderOK(NotRendering)
      /\ NotRendering.at = "out" /\ NotRendering.callbacks = <<>>
  BY Resting DEF RenderOK, NotRendering
<1> QED
  BY <1>1 DEF RenderTypes

LEMMA FindCachedTypes ==
    ASSUME Types, NEW l \in Loaders, NEW identifier \in Identifiers, NEW owner \in Owners,
           NEW shadow \in BOOLEAN, NEW callbacks, Accepted(callbacks, owner),
           FindCached(l, identifier, owner, shadow, callbacks)
    PROVE  RegistryTypes' /\ PendingTypes' /\ LoaderTypes'
<1>1. RegistryTypes' /\ PendingTypes'
  BY DEF Types, FindCached, RegistryTypes, PendingTypes, InFlights
<1>2. CASE callbacks = <<>>
  BY <1>1, <1>2, IdleSet DEF FindCached, Types
<1>3. CASE callbacks # <<>>
  <2> DEFINE ld == [NotLoading EXCEPT !.at = "cached", !.owner = owner, !.callbacks = callbacks]
  <2>1. SetLoader(l, ld)
    BY <1>3 DEF FindCached
  <2>2. /\ Len(callbacks) = 1 /\ callbacks[1] = [id |-> next_callback_id, owner |-> owner]
        /\ callbacks \in Callbacks
    BY <1>3 DEF Accepted, Callbacks
  <2>3. ld \in LoaderType /\ LoaderOK(ld)
    <3>1. NotLoading \in LoaderType
      BY Resting
    <3>2. ld \in LoaderType
      BY <2>2, <3>1 DEF LoaderType
    <3>3. ld.at = "cached" /\ ld.owner = owner /\ ld.callbacks = callbacks
      BY DEF NotLoading
    <3>4. callbacks[1].owner = owner
      BY <2>2
    <3> HIDE DEF ld
    <3> QED
      BY <2>2, <3>2, <3>3, <3>4 DEF LoaderOK
  <2> HIDE DEF ld
  <2> QED
    BY <1>1, <2>1, <2>3, LoaderSet DEF Types
<1> QED
  BY <1>2, <1>3

\* A load that starts a request with its name, or with the alias that a texture
\* of this name moves to.
LEMMA StartTypes ==
    ASSUME Types, IsFiniteSet(DOMAIN registry), IsFiniteSet(DOMAIN pending),
           NEW l \in Loaders, NEW identifier \in Identifiers, NEW owner \in Owners,
           NEW shadow \in BOOLEAN, NEW lazy \in BOOLEAN, NEW callbacks, Accepted(callbacks, owner),
           StartRequest(l, identifier, owner, shadow, lazy, callbacks)
    PROVE  RegistryTypes' /\ PendingTypes' /\ LoaderTypes' /\ next_request_id' \in 1..MaxRequests + 1
<1> DEFINE shadows == shadow /\ identifier \in DOMAIN registry
           job == [identifier |-> identifier, request_id |-> next_request_id]
           shadowed == IF shadows
                       THEN [alias |-> Alias(identifier), texture |-> registry[identifier]]
                       ELSE NoShadow
           flight == [request_id |-> next_request_id, owners |-> {owner},
                      callbacks |-> callbacks, shadowed |-> shadowed]
           ld == [at |-> "resolving", owner |-> owner, lazy |-> lazy, job |-> job,
                  callbacks |-> callbacks]
<1>1. /\ next_request_id \in Requests /\ next_request_id' \in 1..MaxRequests + 1
      /\ identifier \in Names
  BY Constants DEF StartRequest, Types, CounterTypes, Requests
<1>2. /\ callbacks \in Callbacks /\ Len(callbacks) <= CallbackLimit
  <2>1. callbacks \in Callbacks
    BY DEF Accepted, Callbacks
  <2>2. Len(callbacks) \in 0..1
    BY DEF Accepted
  <2>3. CallbackLimit \in Nat /\ CallbackLimit >= 1
    BY Constants
  <2>4. Len(callbacks) <= CallbackLimit
    <3> DEFINE n == Len(callbacks)
    <3>1. n \in 0..1
      BY <2>2
    <3> HIDE DEF n
    <3>2. n <= CallbackLimit
      BY <2>3, <3>1
    <3> QED
      BY <3>2 DEF n
  <2> QED
    BY <2>1, <2>4
<1>3. job \in Job
  BY <1>1 DEF Job
<1>4. LoaderTypes'
  <2>1. ld \in LoaderType /\ LoaderOK(ld)
    <3> HIDE DEF job
    <3> QED
      BY <1>2, <1>3 DEF LoaderType, LoaderOK
  <2>2. SetLoader(l, ld)
    BY DEF StartRequest
  <2> HIDE DEF ld
  <2> QED
    BY <2>1, <2>2, LoaderSet DEF Types
<1>5. Alias(identifier) \in Names
  BY <1>1, AliasIsFree
<1>6. shadowed \in Shadow \cup {NoShadow} /\ (shadows => registry[identifier] \in Requests)
  BY <1>5, RegistryFacts DEF Types, RegistryTypes, Shadow
<1>7. PendingTypes'
  <2>1. flight \in InFlight /\ flight.callbacks = callbacks
    <3> HIDE DEF shadowed
    <3> QED
      BY <1>1, <1>2, <1>6 DEF InFlight
  <2>2. pending' = Put(pending, identifier, flight)
    BY DEF StartRequest
  <2> HIDE DEF flight
  <2> QED
    BY <1>2, <2>1, <2>2, PutInFlight DEF Types, PendingTypes
<1>8. RegistryTypes'
  <2>1. CASE shadows
    <3> DEFINE rest == Without(registry, identifier)
               V == Requests
    <3>1. registry' = Put(rest, Alias(identifier), registry[identifier])
      BY <2>1 DEF StartRequest
    <3> HIDE DEF V
    <3>2. rest \in [DOMAIN rest -> V] /\ DOMAIN rest \subseteq Names
      BY RegistryFacts DEF Types, RegistryTypes, Without, Restrict, V
    <3> HIDE DEF rest
    <3>3. Put(rest, Alias(identifier), registry[identifier]) \in
              [DOMAIN rest \cup {Alias(identifier)} -> V]
      BY <1>6, <2>1, <3>2, PutType DEF V
    <3> QED
      BY <1>5, <3>1, <3>2, <3>3 DEF V, RegistryTypes, Registries
  <2>2. CASE ~shadows
    BY <2>2 DEF StartRequest, RegistryTypes, Types
  <2> QED
    BY <2>1, <2>2
<1> QED
  BY <1>1, <1>4, <1>7, <1>8

\* A request leaves, and a texture may get its name back.
LEMMA RestoredTypes ==
    ASSUME Types, NEW i \in DOMAIN pending,
           pending' = Without(pending, i),
           registry' = RestoreShadow(registry, i, pending[i].shadowed)
    PROVE  RegistryTypes' /\ PendingTypes'
<1>1. InFlights(pending) /\ registry \in Registries
  BY DEF Types, PendingTypes, RegistryTypes
<1>2. InFlights(pending')
  BY <1>1, WithoutInFlight
<1>3. i \in Names /\ (pending[i].shadowed # NoShadow => pending[i].shadowed.texture \in Requests)
  BY <1>1, Entry
<1>4. registry' \in Registries
  BY <1>1, <1>3, RestoreType
<1> QED
  BY <1>2, <1>4 DEF RegistryTypes, PendingTypes

LEMMA FailReservedTypes ==
    ASSUME Types, NEW l \in Loaders, FailReserved(l)
    PROVE  RegistryTypes' /\ PendingTypes' /\ LoaderTypes' /\ cancelled' \in SUBSET Requests
<1> DEFINE job == loader[l].job
           i == job.identifier
<1>1. /\ loader[l] \in LoaderType /\ LoaderOK(loader[l]) /\ loader[l].at = "resolving"
      /\ cancelled \in SUBSET Requests
  BY DEF Types, LoaderTypes, FailReserved, HistoryTypes
<1>2. job \in Job /\ job.request_id \in Requests
  <2>1. job \in Job
    BY <1>1 DEF LoaderOK
  <2> QED
    BY <2>1 DEF Job
<1>3. CASE Matches(job)
  <2>1. i \in DOMAIN pending
    BY <1>3 DEF Matches
  <2>2. /\ registry' = RestoreShadow(registry, i, pending[i].shadowed)
        /\ pending' = Without(pending, i)
        /\ cancelled' = cancelled \cup {job.request_id}
    BY <1>3 DEF FailReserved
  <2>3. PICK excluded : SetLoader(l, [loader[l] EXCEPT
                            !.at = "calling",
                            !.callbacks = Only(pending[i].callbacks, Callback \ excluded)])
    BY <1>3 DEF FailReserved
  <2> DEFINE only == Only(pending[i].callbacks, Callback \ excluded)
             ld == [loader[l] EXCEPT !.at = "calling", !.callbacks = only]
  <2>4. only \in Callbacks
    <3>1. pending[i].callbacks \in Seq(Callback)
      BY <2>1, Entry DEF Types, PendingTypes
    <3> QED
      BY <3>1, OnlyFacts DEF Callbacks
  <2> HIDE DEF only
  <2>5. ld \in LoaderType /\ LoaderOK(ld)
    <3>1. ld \in LoaderType
      BY <1>1, <2>4 DEF LoaderType
    <3>2. ld.at = "calling" /\ ld.job = job
      BY <1>1 DEF LoaderType
    <3> HIDE DEF ld
    <3> QED
      BY <1>2, <3>1, <3>2 DEF LoaderOK
  <2>6. SetLoader(l, ld)
    BY <2>3 DEF only
  <2> HIDE DEF ld
  <2>7. LoaderTypes'
    BY <2>5, <2>6, LoaderSet DEF Types
  <2>8. RegistryTypes' /\ PendingTypes'
    BY <2>1, <2>2, RestoredTypes
  <2> QED
    BY <1>1, <1>2, <2>2, <2>7, <2>8
<1>4. CASE ~Matches(job)
  <2>1. SetLoader(l, NotLoading) /\ UNCHANGED <<registry, pending, cancelled>>
    BY <1>4 DEF FailReserved
  <2>2. LoaderTypes'
    BY <2>1, IdleSet DEF Types
  <2> QED
    BY <1>1, <2>1, <2>2 DEF Types, RegistryTypes, PendingTypes, InFlights
<1> QED
  BY <1>3, <1>4

\* What Finish does: it drops the request that it has a result for, or nothing.
Finished ==
    LET i == render.job.identifier
    IN  /\ i \in DOMAIN pending /\ pending[i].request_id = render.job.request_id
        /\ pending' = Without(pending, i)
        /\ render' = [render EXCEPT !.at = "calling", !.callbacks = pending[i].callbacks]
Succeeded ==
    LET i == render.job.identifier
    IN  /\ registry' = Put(registry, i, pending[i].request_id)
        /\ created' = created \cup {pending[i].request_id}
        /\ named' = named \cup {i} /\ cancelled' = cancelled
Failed ==
    LET i == render.job.identifier
    IN  /\ registry' = RestoreShadow(registry, i, pending[i].shadowed)
        /\ cancelled' = cancelled \cup {pending[i].request_id}
        /\ created' = created /\ named' = named
LEMMA FinishCases ==
    ASSUME Finish
    PROVE  \/ render' = NotRendering /\ UNCHANGED <<registry, pending, created, named, cancelled>>
           \/ Finished /\ Succeeded
           \/ Finished /\ Failed
<1>1. CASE Matches(render.job)
  <2>1. Finished
    BY <1>1 DEF Finish, Finished, Matches
  <2>2. pending[render.job.identifier].request_id = render.job.request_id
    BY <1>1 DEF Matches
  <2>3. Succeeded \/ Failed
    BY <1>1, <2>2 DEF Finish, Succeeded, Failed
  <2> QED
    BY <2>1, <2>3
<1>2. CASE ~Matches(render.job)
  BY <1>2 DEF Finish
<1> QED
  BY <1>1, <1>2

LEMMA FinishTypes ==
    ASSUME Types, Finish
    PROVE  /\ RegistryTypes' /\ PendingTypes' /\ RenderTypes'
           /\ created' \in SUBSET Requests /\ cancelled' \in SUBSET Requests
           /\ named' \in SUBSET Identifiers
<1> DEFINE i == render.job.identifier
<1>1. /\ render \in RenderType /\ InFlights(pending) /\ registry \in Registries
      /\ created \in SUBSET Requests /\ cancelled \in SUBSET Requests
      /\ named \in SUBSET Identifiers
  BY DEF Types, RegistryTypes, PendingTypes, RenderTypes, HistoryTypes
<1>2. CASE render' = NotRendering /\ UNCHANGED <<registry, pending, created, named, cancelled>>
  BY <1>1, <1>2, RenderOut DEF RegistryTypes, PendingTypes, InFlights
<1>3. CASE Finished /\ (Succeeded \/ Failed)
  <2>1. i \in DOMAIN pending /\ pending' = Without(pending, i)
    BY <1>3 DEF Finished
  <2>2. i \in Names /\ i \in Identifiers /\ pending[i].request_id \in Requests
        /\ pending[i].callbacks \in Seq(Callback)
    BY <1>1, <2>1, Entry
  <2>3. RenderTypes'
    <3> DEFINE rd == [render EXCEPT !.at = "calling", !.callbacks = pending[i].callbacks]
    <3>1. rd \in RenderType /\ rd.at = "calling"
      BY <1>1, <2>2 DEF RenderType, Callbacks
    <3>2. render' = rd
      BY <1>3 DEF Finished
    <3> HIDE DEF rd
    <3> QED
      BY <3>1, <3>2 DEF RenderTypes, RenderOK
  <2>4. CASE Succeeded
    <3> DEFINE id == pending[i].request_id
               V == Requests
    <3>1. registry' = Put(registry, i, id)
      BY <2>4 DEF Succeeded
    <3> HIDE DEF id, V
    <3>2. registry \in [DOMAIN registry -> V] /\ DOMAIN registry \subseteq Names /\ id \in V
      BY <1>1, <2>2, RegistryFacts DEF V, id
    <3>3. Put(registry, i, id) \in [DOMAIN registry \cup {i} -> V]
      BY <3>2, PutType
    <3>4. RegistryTypes'
      BY <2>2, <3>1, <3>2, <3>3 DEF RegistryTypes, Registries, V
    <3>5. PendingTypes'
      BY <1>1, <2>1, WithoutInFlight DEF PendingTypes
    <3> QED
      BY <1>1, <2>2, <2>3, <2>4, <3>4, <3>5 DEF Succeeded
  <2>5. CASE Failed
    <3>1. registry' = RestoreShadow(registry, i, pending[i].shadowed)
          /\ cancelled' = cancelled \cup {pending[i].request_id}
          /\ created' = created /\ named' = named
      BY <2>5 DEF Failed
    <3>2. RegistryTypes' /\ PendingTypes'
      BY <2>1, <3>1, RestoredTypes
    <3> QED
      BY <1>1, <2>2, <2>3, <3>1, <3>2
  <2> QED
    BY <1>3, <2>4, <2>5
<1> QED
  BY <1>2, <1>3, FinishCases

\* What CleanPending does to the requests: it drops some and leaves of the others
\* what is not o's.
Others(o) == {callback \in Callback : callback.owner # o}
Left(i, o) == [pending[i] EXCEPT !.callbacks = Only(@, Others(o)), !.owners = @ \ {o}]
Cleaned(o, dropped) ==
    /\ dropped \in SUBSET DOMAIN pending
    /\ pending' = [i \in DOMAIN pending \ dropped |-> Left(i, o)]
    /\ cancelled' = cancelled \cup {pending[i].request_id : i \in dropped}
    /\ \E order \in Bijection(1..Cardinality(dropped), dropped) :
          registry' = RestoreShadows(order)
LEMMA CleanPendingFacts ==
    ASSUME NEW o, CleanPending(o)
    PROVE  \E dropped : Cleaned(o, dropped)
<1> DEFINE left == [i \in DOMAIN pending |-> Left(i, o)]
           dropped == {i \in DOMAIN left : left[i].owners = {} /\ left[i].callbacks = <<>>}
<1>1. /\ pending' = Restrict(left, DOMAIN left \ dropped)
      /\ \E order \in Bijection(1..Cardinality(dropped), dropped) :
            registry' = RestoreShadows(order)
      /\ cancelled' = cancelled \cup {pending[i].request_id : i \in dropped}
  BY DEF CleanPending, Left, Others
<1>2. DOMAIN left = DOMAIN pending /\ dropped \in SUBSET DOMAIN pending
  OBVIOUS
<1>3. \A i \in DOMAIN pending : left[i] = Left(i, o)
  OBVIOUS
<1> HIDE DEF left, dropped
<1>4. pending' = [i \in DOMAIN pending \ dropped |-> left[i]]
  BY <1>1, <1>2 DEF Restrict
<1>5. pending' = [i \in DOMAIN pending \ dropped |-> Left(i, o)]
  BY <1>3, <1>4
<1> QED
  BY <1>1, <1>2, <1>5 DEF Cleaned

LEMMA LeftFacts ==
    ASSUME PendingTypes, NEW i \in DOMAIN pending, NEW o
    PROVE  /\ Left(i, o) \in InFlight
           /\ Left(i, o).request_id = pending[i].request_id
           /\ Left(i, o).shadowed = pending[i].shadowed
           /\ Left(i, o).owners = pending[i].owners \ {o}
           /\ Left(i, o).callbacks = Only(pending[i].callbacks, Others(o))
           /\ Len(Left(i, o).callbacks) <= CallbackLimit
<1> DEFINE only == Only(pending[i].callbacks, Others(o))
           v == [pending[i] EXCEPT !.callbacks = only, !.owners = @ \ {o}]
<1>1. /\ pending[i] \in InFlight /\ pending[i].owners \in SUBSET Owners
      /\ pending[i].callbacks \in Seq(Callback) /\ Len(pending[i].callbacks) <= CallbackLimit
      /\ Len(pending[i].callbacks) \in Nat
  BY Entry DEF PendingTypes
<1>2. only \in Seq(Callback) /\ Len(only) <= Len(pending[i].callbacks) /\ Len(only) \in Nat
  <2>1. only \in Seq(Callback)
    BY <1>1, OnlyFacts
  <2>2. Len(only) <= Len(pending[i].callbacks)
    BY <1>1, OnlyEmbeds
  <2> HIDE DEF only
  <2> QED
    BY <2>1, <2>2
<1>3. Left(i, o) = v
  BY DEF Left
<1>4. Len(only) <= CallbackLimit
  <2> HIDE DEF only
  <2> QED
    BY <1>1, <1>2, Constants
<1> HIDE DEF only
<1>5. /\ v \in InFlight /\ v.request_id = pending[i].request_id
      /\ v.shadowed = pending[i].shadowed /\ v.owners = pending[i].owners \ {o}
      /\ v.callbacks = only
  BY <1>1, <1>2 DEF InFlight, Callbacks
<1> HIDE DEF v
<1> QED
  BY <1>3, <1>4, <1>5 DEF only

LEMMA CleanedTypes ==
    ASSUME Types, RegistryOK, NEW o, NEW dropped, Cleaned(o, dropped)
    PROVE  /\ RegistryTypes' /\ PendingTypes' /\ cancelled' \in SUBSET Requests
           /\ DOMAIN registry' \subseteq DOMAIN registry \cup dropped
           /\ NamesOK(registry', pending', named)
           /\ ImagesOK(registry', pending', created, cancelled')
<1>1. /\ dropped \in SUBSET DOMAIN pending
      /\ pending' = [i \in DOMAIN pending \ dropped |-> Left(i, o)]
      /\ cancelled' = cancelled \cup {pending[i].request_id : i \in dropped}
  BY DEF Cleaned
<1>2. PICK order \in Bijection(1..Cardinality(dropped), dropped) :
              registry' = RestoreShadows(order)
  BY DEF Cleaned
<1>3. /\ registry' \in Registries
      /\ DOMAIN registry' \subseteq DOMAIN registry \cup dropped
      /\ NamesOK(registry', Rest(dropped), named)
      /\ ImagesOK(registry', Rest(dropped), created, cancelled')
  BY <1>1, <1>2, DroppedAll, TypeParts
<1>4. /\ DOMAIN pending' = DOMAIN pending \ dropped
      /\ \A i \in DOMAIN pending' : pending'[i] = Left(i, o) /\ i \in DOMAIN pending
  BY <1>1
<1>5. PendingTypes'
  <2>1. \A i \in DOMAIN pending' : pending'[i] \in InFlight /\ Len(pending'[i].callbacks) <= CallbackLimit
    BY <1>4, LeftFacts DEF Types
  <2>2. pending' = [i \in DOMAIN pending' |-> pending'[i]] /\ DOMAIN pending' \subseteq Identifiers
    BY <1>1, <1>4 DEF Types, PendingTypes, InFlights
  <2> QED
    BY <2>1, <2>2 DEF PendingTypes, InFlights
<1>6. /\ DOMAIN Rest(dropped) = DOMAIN pending'
      /\ \A i \in DOMAIN Rest(dropped) : /\ Rest(dropped)[i].shadowed = pending'[i].shadowed
                                         /\ Rest(dropped)[i].request_id = pending'[i].request_id
  <2>1. DOMAIN Rest(dropped) = DOMAIN pending' /\ \A i \in DOMAIN pending' : Rest(dropped)[i] = pending[i]
    BY <1>4 DEF Rest, Restrict
  <2> QED
    BY <1>4, <2>1, LeftFacts DEF Types
<1>7. /\ NamesOK(registry', pending', named)
      /\ ImagesOK(registry', pending', created, cancelled')
  BY <1>3, <1>6, SameRequests
<1>8. cancelled' \in SUBSET Requests
  <2>1. \A i \in dropped : pending[i].request_id \in Requests
    BY <1>1, Entry DEF Types, PendingTypes
  <2> QED
    BY <1>1, <2>1 DEF Types, HistoryTypes
<1> QED
  BY <1>3, <1>5, <1>7, <1>8 DEF RegistryTypes

LEMMA SameTypes ==
    ASSUME Types
    PROVE  /\ registry' = registry => RegistryTypes'
           /\ pending' = pending => PendingTypes'
           /\ next_request_id' = next_request_id /\ next_callback_id' = next_callback_id => CounterTypes'
           /\ jobs' = jobs => JobTypes'
           /\ completions' = completions => CompletionTypes'
           /\ loader' = loader => LoaderTypes'
           /\ render' = render => RenderTypes'
           /\ worker' = worker /\ cleaning' = cleaning /\ stopping' = stopping => ThreadTypes'
           /\ /\ created' = created /\ named' = named /\ cancelled' = cancelled
              /\ called' = called /\ quiet' = quiet
              => HistoryTypes'
<1>1. registry' = registry => RegistryTypes'
  BY DEF Types, RegistryTypes
<1>2. pending' = pending => PendingTypes'
  BY DEF Types, PendingTypes
<1>3. next_request_id' = next_request_id /\ next_callback_id' = next_callback_id => CounterTypes'
  BY DEF Types, CounterTypes
<1>4. jobs' = jobs => JobTypes'
  BY DEF Types, JobTypes
<1>5. completions' = completions => CompletionTypes'
  BY DEF Types, CompletionTypes
<1>6. loader' = loader => LoaderTypes'
  BY DEF Types, LoaderTypes
<1>7. render' = render => RenderTypes'
  BY DEF Types, RenderTypes
<1>8. worker' = worker /\ cleaning' = cleaning /\ stopping' = stopping => ThreadTypes'
  BY DEF Types, ThreadTypes
<1>9. /\ created' = created /\ named' = named /\ cancelled' = cancelled
      /\ called' = called /\ quiet' = quiet
      => HistoryTypes'
  BY DEF Types, HistoryTypes
<1> QED
  BY <1>1, <1>2, <1>3, <1>4, <1>5, <1>6, <1>7, <1>8, <1>9

LEMMA LoadTypes ==
    ASSUME Types, RegistryOK, NEW l \in Loaders, NEW identifier \in Identifiers, NEW owner \in Owners,
           NEW shadow \in BOOLEAN, NEW lazy \in BOOLEAN, NEW with_callback \in BOOLEAN,
           Load(l, identifier, owner, shadow, lazy, with_callback)
    PROVE  Types'
<1> DEFINE callbacks == Submitted(owner, with_callback)
<1>1. /\ with_callback => next_callback_id <= MaxCallbacks
      /\ next_callback_id' = next_callback_id + Len(callbacks)
      /\ \/ Join(identifier, owner, lazy, callbacks)
         \/ FindCached(l, identifier, owner, shadow, callbacks)
         \/ StartRequest(l, identifier, owner, shadow, lazy, callbacks)
      /\ quiet' = quiet \ {owner}
      /\ UNCHANGED <<queues, worker, render, cleaning, stopping, created, named, cancelled, called>>
  BY DEF Load
<1>2. Accepted(callbacks, owner)
  BY <1>1, SubmittedFacts DEF Types
<1> HIDE DEF callbacks
<1>3. /\ RegistryTypes' /\ PendingTypes' /\ LoaderTypes'
      /\ next_request_id' \in 1..MaxRequests + 1
  <2>1. CASE Join(identifier, owner, lazy, callbacks)
    <3>1. RegistryTypes' /\ PendingTypes'
      BY <1>2, <2>1, JoinTypes
    <3> QED
      BY <2>1, <3>1, SameTypes DEF Join, Types, CounterTypes
  <2>2. CASE FindCached(l, identifier, owner, shadow, callbacks)
    <3>1. RegistryTypes' /\ PendingTypes' /\ LoaderTypes'
      BY <1>2, <2>2, FindCachedTypes
    <3> QED
      BY <2>2, <3>1 DEF FindCached, Types, CounterTypes
  <2>3. CASE StartRequest(l, identifier, owner, shadow, lazy, callbacks)
    BY <1>2, <2>3, StartTypes DEF RegistryOK
  <2> QED
    BY <1>1, <2>1, <2>2, <2>3
<1>4. CounterTypes'
  BY <1>1, <1>2, <1>3 DEF Accepted, CounterTypes
<1>5. JobTypes' /\ CompletionTypes' /\ RenderTypes' /\ ThreadTypes'
  BY <1>1, SameTypes DEF queues
<1>6. HistoryTypes'
  BY <1>1 DEF Types, HistoryTypes
<1> QED
  BY <1>3, <1>4, <1>5, <1>6 DEF Types

LEMMA CallTypes ==
    ASSUME HistoryTypes, NEW callback \in Callback, Call(callback),
           UNCHANGED <<created, named, cancelled, quiet>>
    PROVE  HistoryTypes'
<1>1. callback.id \in 1..MaxCallbacks /\ called \in [1..MaxCallbacks -> Nat]
  BY DEF Callback, HistoryTypes
<1>2. called' = [called EXCEPT ![callback.id] = @ + 1]
  BY DEF Call
<1>3. called' \in [1..MaxCallbacks -> Nat]
  BY <1>1, <1>2
<1> QED
  BY <1>3 DEF HistoryTypes

\* Every step keeps the types, and what the processes rely on.
LEMMA TypesKept ==
    ASSUME Types, RegistryOK, [Next]_vars
    PROVE  Types'
<1>1. ASSUME NEW l \in Loaders, Submit(l) PROVE Types'
  BY <1>1, LoadTypes DEF Submit
<1>2. ASSUME NEW l \in Loaders, PushCached(l) PROVE Types'
  <2> DEFINE c == loader[l].callbacks[1]
  <2>1. c \in Callback
    <3>1. loader[l] \in LoaderType /\ Len(loader[l].callbacks) = 1
      BY <1>2 DEF PushCached, Types, LoaderTypes, LoaderOK
    <3> QED
      BY <3>1 DEF LoaderType, Callbacks
  <2>2. Ready(c) \in Completion
    BY <2>1 DEF Ready, Completion
  <2>3. completions \in Seq(Completion) /\ Len(completions) <= CompletionCapacity /\ CompletionCapacity \in Nat
    BY Constants DEF Types, CompletionTypes
  <2>4. CompletionTypes'
    <3>1. CASE Len(completions) < CompletionCapacity
      <4>1. completions' = Append(completions, Ready(c))
        BY <1>2, <3>1 DEF PushCached
      <4> QED
        BY <2>2, <2>3, <3>1, <4>1 DEF CompletionTypes
    <3>2. CASE ~(Len(completions) < CompletionCapacity)
      BY <1>2, <3>2, SameTypes DEF PushCached
    <3> QED
      BY <3>1, <3>2
  <2>5. LoaderTypes'
    BY <1>2, IdleSet DEF PushCached, Types
  <2> QED
    BY <1>2, <2>4, <2>5, SameTypes DEF PushCached, Types, state, history
<1>3. ASSUME NEW l \in Loaders, FailReserved(l) PROVE Types'
  <2>1. RegistryTypes' /\ PendingTypes' /\ LoaderTypes' /\ cancelled' \in SUBSET Requests
    BY <1>3, FailReservedTypes
  <2>2. UNCHANGED <<next_request_id, next_callback_id, queues, worker, render, cleaning,
                    stopping, created, named, called, quiet>>
    BY <1>3 DEF FailReserved
  <2>3. HistoryTypes'
    BY <2>1, <2>2 DEF Types, HistoryTypes
  <2> QED
    BY <2>1, <2>2, <2>3, SameTypes DEF Types, queues
<1>4. ASSUME NEW l \in Loaders, CallFailed(l) PROVE Types'
  <2>1. /\ loader[l] \in LoaderType /\ LoaderOK(loader[l]) /\ loader[l].at = "calling"
        /\ loader[l].callbacks \in Seq(Callback) /\ loader[l].job \in Job
    BY <1>4 DEF CallFailed, Types, LoaderTypes, LoaderType, Callbacks, LoaderOK
  <2>2. /\ LoaderTypes' /\ HistoryTypes'
    <3>1. CASE loader[l].callbacks = <<>>
      BY <1>4, <3>1, IdleSet, SameTypes DEF CallFailed, Types
    <3>2. CASE loader[l].callbacks # <<>>
      <4> DEFINE ld == [loader[l] EXCEPT !.callbacks = Tail(@)]
      <4>1. Head(loader[l].callbacks) \in Callback /\ Tail(loader[l].callbacks) \in Seq(Callback)
        BY <2>1, <3>2
      <4>2. ld \in LoaderType /\ ld.at = "calling" /\ ld.job = loader[l].job
        BY <2>1, <4>1 DEF LoaderType, Callbacks
      <4>3. SetLoader(l, ld) /\ Call(Head(loader[l].callbacks))
        BY <1>4, <3>2 DEF CallFailed
      <4> HIDE DEF ld
      <4>4. LoaderTypes'
        BY <2>1, <4>2, <4>3, LoaderSet DEF LoaderOK, Types
      <4>5. HistoryTypes'
        BY <1>4, <4>1, <4>3, CallTypes DEF CallFailed, Types
      <4> QED
        BY <4>4, <4>5
    <3> QED
      BY <3>1, <3>2
  <2> QED
    BY <1>4, <2>2, SameTypes DEF CallFailed, Types, state, queues
<1>5. ASSUME NEW l \in Loaders, NEW w \in Workers, QueueResolved(l, w) PROVE Types'
  <2>1. loader[l].job \in Job /\ jobs[w] \in Seq(Job) /\ Len(jobs[w]) < WorkCapacity
    BY <1>5 DEF QueueResolved, Types, LoaderTypes, LoaderOK, JobTypes
  <2>2. jobs' = [jobs EXCEPT ![w] = Append(@, loader[l].job)]
    BY <1>5 DEF QueueResolved
  <2>3. Append(jobs[w], loader[l].job) \in Seq(Job) /\ Len(Append(jobs[w], loader[l].job)) <= WorkCapacity
    BY <2>1, Constants
  <2>4. JobTypes'
    BY <2>2, <2>3 DEF Types, JobTypes
  <2>5. LoaderTypes'
    BY <1>5, IdleSet DEF QueueResolved, Types
  <2> QED
    BY <1>5, <2>4, <2>5, SameTypes DEF QueueResolved, Types, state, history
<1>6. ASSUME NEW w \in Workers, Take(w) PROVE Types'
  <2>1. jobs[w] \in Seq(Job) /\ jobs[w] # <<>> /\ Len(jobs[w]) <= WorkCapacity
    BY <1>6 DEF Take, Types, JobTypes
  <2>2. Head(jobs[w]) \in Job /\ Tail(jobs[w]) \in Seq(Job) /\ Len(Tail(jobs[w])) <= WorkCapacity
    BY <2>1, Constants
  <2>3. JobTypes'
    BY <1>6, <2>2 DEF Take, Types, JobTypes
  <2>4. ThreadTypes'
    BY <1>6, <2>2 DEF Take, Types, ThreadTypes
  <2> QED
    BY <1>6, <2>3, <2>4, SameTypes DEF Take, Types, state, history
<1>7. ASSUME NEW w \in Workers, Deliver(w) PROVE Types'
  <2>1. PICK ok \in BOOLEAN : completions' = Append(completions, Decoded(worker[w], ok))
    BY <1>7 DEF Deliver
  <2>2. worker[w] \in Job
    BY <1>7 DEF Deliver, Types, ThreadTypes
  <2>3. Decoded(worker[w], ok) \in Completion
    BY <2>2 DEF Decoded, Completion
  <2>4. CompletionTypes'
    BY <1>7, <2>1, <2>3, Constants DEF Deliver, Types, CompletionTypes
  <2>5. ThreadTypes'
    BY <1>7 DEF Deliver, Types, ThreadTypes
  <2> QED
    BY <1>7, <2>4, <2>5, SameTypes DEF Deliver, Types, state, history
<1>8. ASSUME Pop PROVE Types'
  <2> DEFINE c == Head(completions)
  <2>1. completions \in Seq(Completion) /\ completions # <<>> /\ Len(completions) <= CompletionCapacity
    BY <1>8 DEF Pop, Types, CompletionTypes
  <2>2. c \in Completion /\ Tail(completions) \in Seq(Completion)
        /\ Len(Tail(completions)) <= CompletionCapacity
    BY <2>1, Constants
  <2>3. CompletionTypes'
    BY <1>8, <2>2 DEF Pop, CompletionTypes
  <2>4. RenderTypes'
    <3>0. NotRendering \in RenderType
      BY Resting
    <3>1. CASE IsReady(c)
      <4> DEFINE one == <<c.callback>>
                 rd == [NotRendering EXCEPT !.at = "calling", !.callbacks = one]
      <4>1. one \in Callbacks
        BY <2>2, <3>1 DEF Completion, IsReady, Callbacks
      <4>3. render' = rd
        BY <1>8, <3>1 DEF Pop
      <4> HIDE DEF one
      <4>2. rd \in RenderType /\ rd.at = "calling"
        BY <3>0, <4>1 DEF RenderType, NotRendering
      <4> HIDE DEF rd
      <4> QED
        BY <4>2, <4>3 DEF RenderTypes, RenderOK
    <3>2. CASE ~IsReady(c) /\ Matches(c.job)
      <4> DEFINE rd == [NotRendering EXCEPT !.at = "matched", !.job = c.job, !.ok = c.ok]
      <4>1. c.job \in Job /\ c.ok \in BOOLEAN
        BY <2>2, <3>2 DEF Completion, IsReady
      <4>2. rd \in RenderType /\ rd.job = c.job /\ rd.callbacks = <<>>
        BY <3>0, <4>1 DEF RenderType, NotRendering
      <4>3. render' = rd
        BY <1>8, <3>2 DEF Pop
      <4> HIDE DEF rd
      <4> QED
        BY <4>1, <4>2, <4>3 DEF RenderTypes, RenderOK
    <3>3. CASE ~IsReady(c) /\ ~Matches(c.job)
      <4>1. render' = NotRendering
        BY <1>8, <3>3 DEF Pop
      <4> QED
        BY <4>1, RenderOut
    <3> QED
      BY <3>1, <3>2, <3>3
  <2> QED
    BY <1>8, <2>3, <2>4, SameTypes DEF Pop, RenderStep, Types
<1>9. ASSUME Upload PROVE Types'
  <2>1. PICK succeeds \in BOOLEAN :
                render' = [render EXCEPT !.at = "uploaded", !.ok = @ /\ succeeds]
    BY <1>9 DEF Upload
  <2>2. render \in RenderType /\ RenderOK(render) /\ render.at = "matched" /\ render.ok \in BOOLEAN
    BY <1>9 DEF Upload, Types, RenderTypes, RenderType
  <2>3. (render.ok /\ succeeds) \in BOOLEAN
    BY <2>2
  <2> DEFINE okay == render.ok /\ succeeds
             rd == [render EXCEPT !.at = "uploaded", !.ok = okay]
  <2>4. render' = rd
    BY <2>1
  <2> HIDE DEF okay
  <2>5. rd \in RenderType /\ rd.job = render.job /\ rd.callbacks = render.callbacks
        /\ rd.at = "uploaded"
    BY <2>2, <2>3 DEF RenderType, okay
  <2> HIDE DEF rd
  <2>6. RenderTypes'
    BY <2>2, <2>4, <2>5 DEF RenderTypes, RenderOK
  <2> QED
    BY <1>9, <2>6, SameTypes DEF Upload, RenderStep, Types
<1>10. ASSUME Finish PROVE Types'
  <2>1. /\ RegistryTypes' /\ PendingTypes' /\ RenderTypes'
        /\ created' \in SUBSET Requests /\ cancelled' \in SUBSET Requests
        /\ named' \in SUBSET Identifiers
    BY <1>10, FinishTypes
  <2>2. UNCHANGED <<next_request_id, next_callback_id, jobs, completions, loader, worker, cleaning,
                    stopping, quiet, called>>
    BY <1>10 DEF Finish, RenderStep
  <2>3. HistoryTypes'
    BY <2>1, <2>2 DEF Types, HistoryTypes
  <2> QED
    BY <2>1, <2>2, <2>3, SameTypes DEF Types
<1>11. ASSUME CallBack PROVE Types'
  <2>1. render \in RenderType /\ render.at = "calling" /\ render.callbacks \in Seq(Callback)
    BY <1>11 DEF CallBack, Types, RenderTypes, RenderType, Callbacks
  <2>2. RenderTypes' /\ HistoryTypes'
    <3>1. CASE render.callbacks = <<>>
      BY <1>11, <3>1, RenderOut, SameTypes DEF CallBack, RenderStep
    <3>2. CASE render.callbacks # <<>>
      <4> DEFINE rd == [render EXCEPT !.callbacks = Tail(@)]
      <4>1. Head(render.callbacks) \in Callback /\ Tail(render.callbacks) \in Seq(Callback)
        BY <2>1, <3>2
      <4>2. rd \in RenderType /\ rd.at = "calling"
        BY <2>1, <4>1 DEF RenderType, Callbacks
      <4>3. render' = rd /\ Call(Head(render.callbacks))
        BY <1>11, <3>2 DEF CallBack
      <4> HIDE DEF rd
      <4>4. RenderTypes'
        BY <4>2, <4>3 DEF RenderTypes, RenderOK
      <4>5. HistoryTypes'
        BY <1>11, <4>1, <4>3, CallTypes DEF CallBack, RenderStep, Types
      <4> QED
        BY <4>4, <4>5
    <3> QED
      BY <3>1, <3>2
  <2> QED
    BY <1>11, <2>2, SameTypes DEF CallBack, RenderStep, Types
<1>12. ASSUME NEW o \in Addons, CleanPending(o) PROVE Types'
  <2>1. PICK dropped : Cleaned(o, dropped)
    BY <1>12, CleanPendingFacts
  <2>2. RegistryTypes' /\ PendingTypes' /\ cancelled' \in SUBSET Requests
    BY <2>1, CleanedTypes
  <2>3. ThreadTypes'
    BY <1>12 DEF CleanPending, Types, ThreadTypes
  <2>4. HistoryTypes'
    BY <1>12, <2>2 DEF CleanPending, Types, HistoryTypes
  <2> QED
    BY <1>12, <2>2, <2>3, <2>4, SameTypes DEF CleanPending, Types, queues
<1>13. ASSUME NEW o \in Addons, CleanReady(o) PROVE Types'
  <2>1. PICK kept : completions' = Only(completions, kept)
    BY <1>13 DEF CleanReady
  <2>2. completions \in Seq(Completion) /\ Len(completions) <= CompletionCapacity
        /\ Len(completions) \in Nat /\ CompletionCapacity \in Nat
    BY Constants DEF Types, CompletionTypes
  <2>3. completions' \in Seq(Completion) /\ Len(completions') <= Len(completions)
    <3>1. completions' \in Seq(Completion)
      BY <2>1, <2>2, OnlyFacts
    <3>2. Len(Only(completions, kept)) <= Len(completions)
      BY <2>2, OnlyEmbeds
    <3> QED
      BY <2>1, <3>1, <3>2
  <2>4. CompletionTypes'
    BY <2>2, <2>3 DEF CompletionTypes
  <2>5. ThreadTypes'
    BY <1>13 DEF CleanReady, Types, ThreadTypes
  <2> QED
    BY <1>13, <2>4, <2>5, SameTypes DEF CleanReady, Types, state, history
<1>14. ASSUME Stop PROVE Types'
  <2>1. ThreadTypes'
    BY <1>14 DEF Stop, threads, Types, ThreadTypes
  <2> QED
    BY <1>14, <2>1, SameTypes DEF Stop, Types, state, queues, threads, history
<1>15. ASSUME UNCHANGED vars PROVE Types'
  BY <1>15, SameTypes DEF vars, state, queues, threads, history, Types
<1> QED
  BY <1>1, <1>2, <1>3, <1>4, <1>5, <1>6, <1>7, <1>8, <1>9, <1>10, <1>11, <1>12, <1>13, <1>14,
     <1>15 DEF Next, LoaderStep, Advance
-----------------------------------------------------------------------------
(* The registry. *)

\* A request for a name that is free takes its place.
LEMMA StartPlain ==
    ASSUME Types, RegistryOK, NEW i \in Identifiers, NEW flight \in InFlight,
           i \notin DOMAIN pending, i \notin DOMAIN registry,
           flight.request_id = next_request_id, flight.shadowed = NoShadow
    PROVE  /\ NamesOK(registry, Put(pending, i, flight), named)
           /\ ImagesOK(registry, Put(pending, i, flight), created, cancelled)
<1> DEFINE p == Put(pending, i, flight)
<1>1. /\ DOMAIN p = DOMAIN pending \cup {i} /\ p[i] = flight
      /\ \A j \in DOMAIN pending : p[j] = pending[j]
  BY DEF Put
<1> HIDE DEF p
<1>2. i \notin named
  BY DEF RegistryOK, NamesOK
<1>3. NamesOK(registry, p, named)
  <2>1. \A name, x : name \in named /\ Leads(registry, p, name, x) => Leads(registry, pending, name, x)
    BY <1>1, <1>2 DEF Leads
  <2>2. \A j \in DOMAIN p : p[j].shadowed # NoShadow => j \in DOMAIN pending
    BY <1>1
  <2> QED
    BY <1>1, <2>1, <2>2 DEF RegistryOK, NamesOK
<1>4. ImagesOK(registry, p, created, cancelled)
  <2>1. /\ next_request_id \in Nat /\ next_request_id \notin created \cup cancelled
        /\ \A j \in DOMAIN pending : pending[j].request_id # next_request_id
    BY Entry, Constants DEF RegistryOK, Types, CounterTypes, HistoryTypes, PendingTypes, Requests
  <2> QED
    BY <1>1, <2>1 DEF RegistryOK, ImagesOK
<1> QED
  BY <1>3, <1>4 DEF p

\* A request that shadows a texture moves it to an alias.
LEMMA StartShadowing ==
    ASSUME Types, RegistryOK, NEW i \in Identifiers, NEW flight \in InFlight, NEW alias \in Names,
           i \notin DOMAIN pending, i \in DOMAIN registry,
           alias \notin DOMAIN registry \cup DOMAIN pending,
           flight.request_id = next_request_id,
           flight.shadowed = [alias |-> alias, texture |-> registry[i]]
    PROVE  /\ NamesOK(Put(Without(registry, i), alias, registry[i]), Put(pending, i, flight), named)
           /\ ImagesOK(Put(Without(registry, i), alias, registry[i]), Put(pending, i, flight),
                       created, cancelled)
<1> DEFINE p == Put(pending, i, flight)
           r == Put(Without(registry, i), alias, registry[i])
           x == registry[i]
<1>1. /\ DOMAIN p = DOMAIN pending \cup {i} /\ p[i] = flight
      /\ \A j \in DOMAIN pending : p[j] = pending[j]
  BY DEF Put
<1>2. /\ DOMAIN r = (DOMAIN registry \ {i}) \cup {alias} /\ r[alias] = x
      /\ \A j \in DOMAIN registry : j # i => r[j] = registry[j]
  <2> DEFINE q == Without(registry, i)
  <2>1. DOMAIN q = DOMAIN registry \ {i} /\ \A j \in DOMAIN registry : j # i => q[j] = registry[j]
    BY WithoutFacts
  <2> HIDE DEF q
  <2>2. /\ DOMAIN Put(q, alias, x) = DOMAIN q \cup {alias} /\ Put(q, alias, x)[alias] = x
        /\ \A j \in DOMAIN q : j # alias => Put(q, alias, x)[j] = q[j]
    BY DEF Put
  <2> QED
    BY <2>1, <2>2 DEF q
<1>3. x \in Requests /\ flight.shadowed # NoShadow /\ flight.shadowed.texture = x
      /\ flight.shadowed.alias = alias
  <2>1. x \in Requests
    BY RegistryFacts DEF Types, RegistryTypes
  <2>2. x # 0
    BY <2>1 DEF Requests
  <2> QED
    BY <2>1, <2>2 DEF NoShadow
<1> HIDE DEF p, r, x
<1>4. alias \notin named /\ alias # i
  BY DEF RegistryOK, NamesOK
<1>5. NamesOK(r, p, named)
  <2>1. DOMAIN r \cap DOMAIN p = {}
    BY <1>1, <1>2 DEF RegistryOK, NamesOK
  <2>2. named \subseteq DOMAIN r \cup {j \in DOMAIN p : p[j].shadowed # NoShadow}
    BY <1>1, <1>2, <1>3 DEF RegistryOK, NamesOK
  <2>3. \A name, y : name \in named /\ Leads(r, p, name, y) => Leads(registry, pending, name, y)
    BY <1>1, <1>2, <1>3, <1>4 DEF Leads, x
  <2>4. ASSUME NEW j \in DOMAIN p, p[j].shadowed # NoShadow, p[j].shadowed.alias \in named
        PROVE  ~Leads(r, p, p[j].shadowed.alias, p[j].shadowed.texture)
    <3>1. j # i
      BY <1>1, <1>3, <1>4, <2>4
    <3>2. j \in DOMAIN pending /\ p[j] = pending[j]
      BY <1>1, <3>1
    <3>3. ~Leads(registry, pending, p[j].shadowed.alias, p[j].shadowed.texture)
      BY <2>4, <3>2 DEF RegistryOK, NamesOK
    <3> QED
      BY <2>3, <2>4, <3>3
  <2> QED
    BY <2>1, <2>2, <2>4 DEF NamesOK
<1>6. ImagesOK(r, p, created, cancelled)
  <2>1. /\ next_request_id \in Nat /\ next_request_id \notin created \cup cancelled
        /\ \A j \in DOMAIN pending : pending[j].request_id # next_request_id
    BY Entry, Constants DEF RegistryOK, Types, CounterTypes, HistoryTypes, PendingTypes, Requests
  <2>2. {registry[j] : j \in DOMAIN registry} = created
    BY DEF RegistryOK, ImagesOK
  <2>3. {r[j] : j \in DOMAIN r} = created
    <3>1. ASSUME NEW m \in created PROVE \E j \in DOMAIN r : r[j] = m
      <4>1. PICK j \in DOMAIN registry : registry[j] = m
        BY <2>2
      <4>2. CASE j = i
        BY <1>2, <4>1, <4>2 DEF x
      <4>3. CASE j # i
        BY <1>2, <4>1, <4>3
      <4> QED
        BY <4>2, <4>3
    <3>2. ASSUME NEW j \in DOMAIN r PROVE r[j] \in created
      <4>1. j = alias \/ (j \in DOMAIN registry /\ j # i)
        BY <1>2
      <4>2. \A k \in DOMAIN registry : registry[k] \in created
        BY <2>2
      <4> QED
        BY <1>2, <4>1, <4>2 DEF x
    <3> QED
      BY <3>1, <3>2
  <2>4. x \in created
    BY <2>2 DEF x
  <2> QED
    BY <1>1, <1>3, <2>1, <2>3, <2>4 DEF RegistryOK, ImagesOK
<1> QED
  BY <1>5, <1>6 DEF p, r, x

\* A request that succeeds puts its own texture under its name.
LEMMA Completed ==
    ASSUME Types, RegistryOK, NEW i \in DOMAIN pending
    PROVE  /\ NamesOK(Put(registry, i, pending[i].request_id), Without(pending, i), named \cup {i})
           /\ ImagesOK(Put(registry, i, pending[i].request_id), Without(pending, i),
                       created \cup {pending[i].request_id}, cancelled)
<1> DEFINE p == Without(pending, i)
           id == pending[i].request_id
           r == Put(registry, i, id)
<1>1. /\ DOMAIN p = DOMAIN pending \ {i}
      /\ \A j \in DOMAIN p : p[j] = pending[j]
  BY WithoutFacts
<1>2. i \notin DOMAIN registry
  BY DEF RegistryOK, NamesOK
<1>3. /\ DOMAIN r = DOMAIN registry \cup {i} /\ r[i] = id
      /\ \A j \in DOMAIN registry : r[j] = registry[j]
  <2> HIDE DEF id
  <2> QED
    BY <1>2 DEF Put
<1>4. /\ id \notin created \cup cancelled
      /\ \A j \in DOMAIN p : /\ p[j].request_id # id
                             /\ p[j].shadowed # NoShadow => p[j].shadowed.texture # id
  BY <1>1 DEF RegistryOK, ImagesOK
<1> HIDE DEF p, r, id
<1>5. NamesOK(r, p, named \cup {i})
  <2>1. DOMAIN r \cap DOMAIN p = {}
    BY <1>1, <1>3 DEF RegistryOK, NamesOK
  <2>2. named \cup {i} \subseteq DOMAIN r \cup {j \in DOMAIN p : p[j].shadowed # NoShadow}
    BY <1>1, <1>3 DEF RegistryOK, NamesOK
  <2>3. ASSUME NEW j \in DOMAIN p, p[j].shadowed # NoShadow, p[j].shadowed.alias \in named \cup {i}
        PROVE  ~Leads(r, p, p[j].shadowed.alias, p[j].shadowed.texture)
    <3> DEFINE a == p[j].shadowed.alias
               x == p[j].shadowed.texture
    <3>1. x # id
      BY <1>4, <2>3
    <3>2. a \in named => ~Leads(registry, pending, a, x)
      BY <1>1, <2>3 DEF RegistryOK, NamesOK
    <3>3. a \in named \cup {i}
      BY <2>3
    <3> HIDE DEF a, x
    <3>4. ~Leads(r, p, a, x)
      BY <1>1, <1>3, <3>1, <3>2, <3>3 DEF Leads
    <3> QED
      BY <3>4 DEF a, x
  <2> QED
    BY <2>1, <2>2, <2>3 DEF NamesOK
<1>6. ImagesOK(r, p, created \cup {id}, cancelled)
  <2>1. {registry[j] : j \in DOMAIN registry} = created
    BY DEF RegistryOK, ImagesOK
  <2>2. {r[j] : j \in DOMAIN r} = created \cup {id}
    <3>1. ASSUME NEW m \in created PROVE \E j \in DOMAIN r : r[j] = m
      <4>1. PICK j \in DOMAIN registry : registry[j] = m
        BY <2>1
      <4> QED
        BY <1>3, <4>1
    <3>2. ASSUME NEW j \in DOMAIN r PROVE r[j] \in created \cup {id}
      <4>1. \A k \in DOMAIN registry : registry[k] \in created
        BY <2>1
      <4> QED
        BY <1>3, <4>1
    <3>3. i \in DOMAIN r /\ r[i] = id
      BY <1>3
    <3> QED
      BY <3>1, <3>2, <3>3
  <2> QED
    BY <1>1, <1>4, <2>2 DEF RegistryOK, ImagesOK
<1> QED
  BY <1>5, <1>6 DEF p, r, id

LEMMA SameRegistry ==
    ASSUME RegistryOK, registry' = registry, DOMAIN pending' = DOMAIN pending,
           \A i \in DOMAIN pending : /\ pending'[i].shadowed = pending[i].shadowed
                                     /\ pending'[i].request_id = pending[i].request_id,
           created' = created, named' = named, cancelled' = cancelled,
           next_request_id' = next_request_id
    PROVE  RegistryOK'
<1>1. /\ NamesOK(registry, pending, named) /\ ImagesOK(registry, pending, created, cancelled)
  BY DEF RegistryOK
<1>2. /\ NamesOK(registry, pending', named) /\ ImagesOK(registry, pending', created, cancelled)
  BY <1>1, SameRequests
<1> QED
  BY <1>2 DEF RegistryOK

\* A request is dropped: it failed, and its texture gets its name back.
LEMMA DroppedRegistry ==
    ASSUME Types, RegistryOK, NEW i \in DOMAIN pending,
           pending' = Without(pending, i),
           registry' = RestoreShadow(registry, i, pending[i].shadowed),
           cancelled' = cancelled \cup {pending[i].request_id},
           created' = created, named' = named, next_request_id' = next_request_id
    PROVE  RegistryOK'
<1>1. /\ NamesOK(registry', pending', named) /\ ImagesOK(registry', pending', created, cancelled')
  <2>1. NamesOK(registry, pending, named) /\ ImagesOK(registry, pending, created, cancelled)
    BY DEF RegistryOK
  <2>2. LET r == RestoreShadow(registry, i, pending[i].shadowed)
            p == Without(pending, i)
        IN  /\ NamesOK(r, p, named)
            /\ ImagesOK(r, p, created, cancelled \cup {pending[i].request_id})
    BY ONLY <2>1, i \in DOMAIN pending, Dropped
  <2> QED
    BY <2>2
<1>2. /\ DOMAIN pending' = DOMAIN pending \ {i}
      /\ \A j \in DOMAIN pending' : pending'[j] = pending[j]
  BY WithoutFacts
<1>3. DOMAIN registry' \subseteq DOMAIN registry \cup {i}
  <2>1. i \in Names /\ (pending[i].shadowed # NoShadow => pending[i].shadowed.texture \in Requests)
        /\ registry \in Registries
    BY Entry DEF Types, PendingTypes, RegistryTypes
  <2> QED
    BY <2>1, RestoreType
<1>4. IsFiniteSet(DOMAIN registry') /\ IsFiniteSet(DOMAIN pending')
  BY <1>2, <1>3, FS_AddElement, FS_Subset DEF RegistryOK
<1> QED
  BY <1>1, <1>2, <1>4 DEF RegistryOK

LEMMA StartRegistry ==
    ASSUME Types, RegistryOK, NEW l \in Loaders, NEW i \in Identifiers, NEW owner \in Owners,
           NEW shadow \in BOOLEAN, NEW lazy \in BOOLEAN, NEW callbacks, Accepted(callbacks, owner),
           StartRequest(l, i, owner, shadow, lazy, callbacks),
           created' = created, named' = named, cancelled' = cancelled
    PROVE  RegistryOK'
<1> DEFINE shadows == shadow /\ i \in DOMAIN registry
           shadowed == IF shadows THEN [alias |-> Alias(i), texture |-> registry[i]] ELSE NoShadow
           flight == [request_id |-> next_request_id, owners |-> {owner},
                      callbacks |-> callbacks, shadowed |-> shadowed]
<1>1. /\ i \notin DOMAIN pending /\ (~shadows => i \notin DOMAIN registry)
      /\ next_request_id' = next_request_id + 1 /\ next_request_id \in Nat
      /\ pending' = Put(pending, i, flight)
  BY DEF StartRequest, Types, CounterTypes
<1>2. IsFiniteSet(DOMAIN registry) /\ IsFiniteSet(DOMAIN pending)
  BY DEF RegistryOK
<1>3. /\ RegistryTypes' /\ PendingTypes'
  BY <1>2, StartTypes
<1>4. /\ DOMAIN pending' = DOMAIN pending \cup {i} /\ pending'[i] = flight
      /\ \A j \in DOMAIN pending : pending'[j] = pending[j]
  BY <1>1 DEF Put
<1>5. flight \in InFlight /\ flight.request_id = next_request_id /\ flight.shadowed = shadowed
  <2>1. flight.request_id = next_request_id /\ flight.shadowed = shadowed
    OBVIOUS
  <2> HIDE DEF flight
  <2>2. flight \in InFlight
    BY <1>3, <1>4 DEF PendingTypes, InFlights
  <2> QED
    BY <2>1, <2>2
<1>6. i \in Names
  BY Constants
<1>7. /\ NamesOK(registry', pending', named) /\ ImagesOK(registry', pending', created, cancelled)
      /\ IsFiniteSet(DOMAIN registry')
  <2>1. CASE shadows
    <3>1. Alias(i) \in Names /\ Alias(i) \notin DOMAIN registry \cup DOMAIN pending
      BY <1>2, <1>6, AliasIsFree
    <3>2. registry' = Put(Without(registry, i), Alias(i), registry[i])
      BY <2>1 DEF StartRequest
    <3>3. flight.shadowed = [alias |-> Alias(i), texture |-> registry[i]]
      BY <1>5, <2>1
    <3>4. DOMAIN registry' = (DOMAIN registry \ {i}) \cup {Alias(i)}
      BY <3>2 DEF Put, Without, Restrict
    <3> HIDE DEF flight, shadowed
    <3>5. /\ NamesOK(registry', pending', named) /\ ImagesOK(registry', pending', created, cancelled)
      BY <1>1, <1>5, <2>1, <3>1, <3>2, <3>3, StartShadowing
    <3>6. IsFiniteSet(DOMAIN registry')
      <4>1. IsFiniteSet(DOMAIN registry \ {i})
        BY <1>2, FS_Subset
      <4> QED
        BY <3>4, <4>1, FS_AddElement
    <3> QED
      BY <3>5, <3>6
  <2>2. CASE ~shadows
    <3>1. registry' = registry /\ flight.shadowed = NoShadow
      BY <1>5, <2>2 DEF StartRequest
    <3> HIDE DEF flight, shadowed
    <3> QED
      BY <1>1, <1>2, <1>5, <2>2, <3>1, StartPlain
  <2> QED
    BY <2>1, <2>2
<1>8. IsFiniteSet(DOMAIN pending')
  BY <1>2, <1>4, FS_AddElement
<1>9. /\ \A j \in DOMAIN pending' : pending'[j].request_id < next_request_id'
      /\ \A r \in created \cup cancelled : r < next_request_id'
  <2> HIDE DEF flight
  <2>1. ASSUME NEW j \in DOMAIN pending PROVE pending[j].request_id < next_request_id + 1
    <3>1. pending[j].request_id \in Nat /\ pending[j].request_id < next_request_id
      BY Entry DEF RegistryOK, Types, PendingTypes, Requests
    <3> QED
      BY <1>1, <3>1
  <2>2. ASSUME NEW r \in created \cup cancelled PROVE r < next_request_id + 1
    <3>1. r \in Nat /\ r < next_request_id
      BY DEF RegistryOK, Types, HistoryTypes, Requests
    <3> QED
      BY <1>1, <3>1
  <2> QED
    BY <1>1, <1>4, <1>5, <2>1, <2>2
<1> QED
  BY <1>7, <1>8, <1>9 DEF RegistryOK

\* A cleaned-up registry has lost requests at most.
LEMMA CleanedRegistry ==
    ASSUME Types, RegistryOK, NEW o, NEW dropped, Cleaned(o, dropped),
           created' = created, named' = named, next_request_id' = next_request_id
    PROVE  RegistryOK'
<1>1. /\ DOMAIN registry' \subseteq DOMAIN registry \cup dropped
      /\ NamesOK(registry', pending', named) /\ ImagesOK(registry', pending', created, cancelled')
  BY CleanedTypes
<1>2. /\ dropped \in SUBSET DOMAIN pending /\ DOMAIN pending' = DOMAIN pending \ dropped
      /\ \A i \in DOMAIN pending' : pending'[i].request_id = pending[i].request_id
      /\ cancelled' = cancelled \cup {pending[i].request_id : i \in dropped}
  BY LeftFacts DEF Cleaned, Types
<1>3. IsFiniteSet(DOMAIN registry')
  <2>1. IsFiniteSet(DOMAIN registry \cup dropped)
    BY <1>2, FS_Subset, FS_Union DEF RegistryOK
  <2> QED
    BY <1>1, <2>1, FS_Subset
<1>4. IsFiniteSet(DOMAIN pending')
  BY <1>2, FS_Subset DEF RegistryOK
<1>5. /\ \A i \in DOMAIN pending' : pending'[i].request_id < next_request_id
      /\ \A r \in created \cup cancelled' : r < next_request_id
  BY <1>2 DEF RegistryOK
<1> QED
  BY <1>1, <1>3, <1>4, <1>5 DEF RegistryOK

LEMMA FinishRegistry ==
    ASSUME Types, RegistryOK, Finish
    PROVE  RegistryOK'
<1> DEFINE i == render.job.identifier
<1>0. next_request_id' = next_request_id
  BY DEF Finish, RenderStep
<1>1. CASE UNCHANGED <<registry, pending, created, named, cancelled>>
  BY <1>0, <1>1, SameRegistry
<1>2. CASE Finished /\ Failed
  <2>1. /\ i \in DOMAIN pending /\ pending' = Without(pending, i)
        /\ registry' = RestoreShadow(registry, i, pending[i].shadowed)
        /\ cancelled' = cancelled \cup {pending[i].request_id}
        /\ created' = created /\ named' = named
    BY <1>2 DEF Finished, Failed
  <2> HIDE DEF i
  <2> QED
    BY <1>0, <2>1, DroppedRegistry
<1>3. CASE Finished /\ Succeeded
  <2>1. /\ i \in DOMAIN pending /\ pending' = Without(pending, i)
        /\ registry' = Put(registry, i, pending[i].request_id)
        /\ created' = created \cup {pending[i].request_id}
        /\ named' = named \cup {i} /\ cancelled' = cancelled
    BY <1>3 DEF Finished, Succeeded
  <2> HIDE DEF i
  <2>2. NamesOK(registry', pending', named') /\ ImagesOK(registry', pending', created', cancelled')
    BY <2>1, Completed
  <2>3. /\ DOMAIN pending' = DOMAIN pending \ {i}
        /\ \A j \in DOMAIN pending' : pending'[j] = pending[j]
    BY <2>1, WithoutFacts
  <2>4. DOMAIN registry' = DOMAIN registry \cup {i}
    BY <2>1 DEF Put
  <2>5. IsFiniteSet(DOMAIN registry') /\ IsFiniteSet(DOMAIN pending')
    BY <2>3, <2>4, FS_AddElement, FS_RemoveElement DEF RegistryOK
  <2> QED
    BY <1>0, <2>1, <2>2, <2>3, <2>5 DEF RegistryOK
<1> QED
  BY <1>1, <1>2, <1>3, FinishCases

LEMMA RegistryKept ==
    ASSUME Types, RegistryOK, [Next]_vars
    PROVE  RegistryOK'
<1>1. ASSUME NEW l \in Loaders, NEW identifier \in Identifiers, NEW owner \in Owners,
             NEW shadow \in BOOLEAN, NEW lazy \in BOOLEAN, NEW with_callback \in BOOLEAN,
             Load(l, identifier, owner, shadow, lazy, with_callback)
      PROVE  RegistryOK'
  <2> DEFINE callbacks == Submitted(owner, with_callback)
  <2>1. /\ with_callback => next_callback_id <= MaxCallbacks
        /\ \/ Join(identifier, owner, lazy, callbacks)
           \/ FindCached(l, identifier, owner, shadow, callbacks)
           \/ StartRequest(l, identifier, owner, shadow, lazy, callbacks)
        /\ UNCHANGED <<created, named, cancelled>>
    BY <1>1 DEF Load
  <2>2. Accepted(callbacks, owner)
    BY <2>1, SubmittedFacts DEF Types
  <2> HIDE DEF callbacks
  <2>3. CASE Join(identifier, owner, lazy, callbacks)
    <3> DEFINE attached == IF lazy THEN <<>> ELSE callbacks
    <3>1. /\ registry' = registry /\ next_request_id' = next_request_id
          /\ \/ pending' = pending
             \/ pending' = [pending EXCEPT ![identifier].callbacks = @ \o attached,
                                           ![identifier].owners = @ \cup {owner}]
      BY <2>3 DEF Join
    <3> HIDE DEF attached
    <3>2. /\ DOMAIN pending' = DOMAIN pending
          /\ \A i \in DOMAIN pending : /\ pending'[i].shadowed = pending[i].shadowed
                                       /\ pending'[i].request_id = pending[i].request_id
      <4>1. \A i \in DOMAIN pending : pending[i] \in InFlight
        BY Entry DEF Types, PendingTypes
      <4> QED
        BY <3>1, <4>1 DEF InFlight
    <3> QED
      BY <2>1, <3>1, <3>2, SameRegistry
  <2>4. CASE FindCached(l, identifier, owner, shadow, callbacks)
    BY <2>1, <2>4, SameRegistry DEF FindCached
  <2>5. CASE StartRequest(l, identifier, owner, shadow, lazy, callbacks)
    BY <2>1, <2>2, <2>5, StartRegistry
  <2> QED
    BY <2>1, <2>3, <2>4, <2>5
<1>2. ASSUME NEW l \in Loaders, FailReserved(l)
      PROVE  RegistryOK'
  <2> DEFINE i == loader[l].job.identifier
  <2>1. next_request_id' = next_request_id /\ created' = created /\ named' = named
    BY <1>2 DEF FailReserved
  <2>2. CASE Matches(loader[l].job)
    <3>1. /\ i \in DOMAIN pending /\ pending' = Without(pending, i)
          /\ registry' = RestoreShadow(registry, i, pending[i].shadowed)
          /\ cancelled' = cancelled \cup {pending[i].request_id}
      BY <1>2, <2>2 DEF FailReserved, Matches
    <3> HIDE DEF i
    <3> QED
      BY <2>1, <3>1, DroppedRegistry
  <2>3. CASE ~Matches(loader[l].job)
    <3>1. UNCHANGED <<registry, pending, cancelled>>
      BY <1>2, <2>3 DEF FailReserved
    <3> QED
      BY <2>1, <3>1, SameRegistry
  <2> QED
    BY <2>2, <2>3
<1>3. ASSUME NEW o \in Addons, CleanPending(o)
      PROVE  RegistryOK'
  <2>1. PICK dropped : Cleaned(o, dropped)
    BY <1>3, CleanPendingFacts
  <2> QED
    BY <1>3, <2>1, CleanedRegistry DEF CleanPending
<1>4. ASSUME UNCHANGED <<registry, pending, next_request_id, created, named, cancelled>>
      PROVE  RegistryOK'
  BY <1>4, SameRegistry
<1>5. ASSUME NEW l \in Loaders, PushCached(l) \/ CallFailed(l) \/ \E w \in Workers : QueueResolved(l, w)
      PROVE  RegistryOK'
  BY <1>4, <1>5 DEF PushCached, CallFailed, QueueResolved, state, history
<1>6. ASSUME NEW w \in Workers, Take(w) \/ Deliver(w)
      PROVE  RegistryOK'
  BY <1>4, <1>6 DEF Take, Deliver, state, history
<1>7. ASSUME Pop \/ Upload \/ CallBack
      PROVE  RegistryOK'
  BY <1>4, <1>7 DEF Pop, Upload, CallBack, RenderStep
<1>8. ASSUME NEW o \in Addons, CleanReady(o)
      PROVE  RegistryOK'
  BY <1>4, <1>8 DEF CleanReady, state, history
<1>9. ASSUME Stop \/ UNCHANGED vars
      PROVE  RegistryOK'
  BY <1>4, <1>9 DEF Stop, vars, state, history
<1> QED
  BY <1>1, <1>2, <1>3, <1>5, <1>6, <1>7, <1>8, <1>9, FinishRegistry
     DEF Next, Submit, LoaderStep, Advance
-----------------------------------------------------------------------------
(* What a cleanup leaves. *)

\* Whatever Only leaves has been there.
LEMMA OnlySome ==
    ASSUME NEW A, NEW seq \in Seq(A), NEW S
    PROVE  \A n \in DOMAIN Only(seq, S) : /\ Only(seq, S)[n] \in S
                                          /\ \E m \in DOMAIN seq : Only(seq, S)[n] = seq[m]
<1> DEFINE only == Only(seq, S)
<1>1. Elements(only) = Elements(seq) \cap S
  BY OnlyFacts
<1> HIDE DEF only
<1>2. ASSUME NEW n \in DOMAIN only
      PROVE  only[n] \in S /\ \E m \in DOMAIN seq : only[n] = seq[m]
  <2>1. only[n] \in Elements(only)
    BY DEF Elements
  <2>2. only[n] \in Elements(seq) /\ only[n] \in S
    BY <1>1, <2>1
  <2> QED
    BY <2>2 DEF Elements
<1> QED
  BY <1>2 DEF only

LEMMA OnlyNone ==
    ASSUME NEW callbacks \in Seq(Callback), NEW S, NEW o
    PROVE  /\ NoneOf(callbacks, o) => NoneOf(Only(callbacks, S), o)
           /\ (\A c \in S : c.owner # o) => NoneOf(Only(callbacks, S), o)
<1> DEFINE only == Only(callbacks, S)
<1>1. \A n \in DOMAIN only : only[n] \in S /\ \E m \in DOMAIN callbacks : only[n] = callbacks[m]
  BY OnlySome
<1> HIDE DEF only
<1>2. /\ NoneOf(callbacks, o) => NoneOf(only, o)
      /\ (\A c \in S : c.owner # o) => NoneOf(only, o)
  BY <1>1 DEF NoneOf
<1> QED
  BY <1>2 DEF only

\* A step that brings an addon's nothing keeps it quiet.
LEMMA SameQuiet ==
    ASSUME QuietOK, quiet' \subseteq quiet,
           \A o \in quiet' : /\ Loading(o)' => Loading(o)
                             /\ \A i \in DOMAIN pending' : Gone(pending'[i], o)
                             /\ o \notin cleaning' =>
                                  /\ o \notin cleaning
                                  /\ NoneReady(completions, o) => NoneReady(completions', o)
    PROVE  QuietOK'
  BY DEF QuietOK

LEMMA LoaderQuiet ==
    ASSUME NEW l \in Loaders, \A k \in Loaders : k # l => loader'[k] = loader[k], NEW o,
           loader'[l].at = "idle" \/ loader'[l].owner # o
             \/ (loader[l].at # "idle" /\ loader'[l].owner = loader[l].owner)
    PROVE  Loading(o)' => Loading(o)
  BY DEF Loading, Idle

LEMMA LoadQuiet ==
    ASSUME Types, QuietOK, NEW l \in Loaders, NEW identifier \in Identifiers, NEW owner \in Owners,
           NEW shadow \in BOOLEAN, NEW lazy \in BOOLEAN, NEW with_callback \in BOOLEAN,
           Load(l, identifier, owner, shadow, lazy, with_callback)
    PROVE  QuietOK'
<1> DEFINE callbacks == Submitted(owner, with_callback)
<1>1. /\ with_callback => next_callback_id <= MaxCallbacks
      /\ \/ Join(identifier, owner, lazy, callbacks)
         \/ FindCached(l, identifier, owner, shadow, callbacks)
         \/ StartRequest(l, identifier, owner, shadow, lazy, callbacks)
      /\ quiet' = quiet \ {owner}
      /\ completions' = completions /\ cleaning' = cleaning
  BY DEF Load, queues
<1>2. Accepted(callbacks, owner)
  BY <1>1, SubmittedFacts DEF Types
<1> HIDE DEF callbacks
<1>3. \A n \in DOMAIN callbacks : callbacks[n].owner = owner
  BY <1>2 DEF Accepted
<1>4. ASSUME NEW o \in quiet'
      PROVE  (Loading(o)' => Loading(o)) /\ \A i \in DOMAIN pending' : Gone(pending'[i], o)
  <2>1. o \in quiet /\ o # owner /\ \A i \in DOMAIN pending : Gone(pending[i], o)
    BY <1>1 DEF QuietOK
  <2>2. CASE Join(identifier, owner, lazy, callbacks)
    <3> DEFINE attached == IF lazy THEN <<>> ELSE callbacks
    <3>1. /\ loader' = loader /\ identifier \in DOMAIN pending
          /\ \/ pending' = pending
             \/ pending' = [pending EXCEPT ![identifier].callbacks = @ \o attached,
                                           ![identifier].owners = @ \cup {owner}]
      BY <2>2 DEF Join
    <3>2. attached \in Seq(Callback) /\ NoneOf(attached, o)
      BY <1>2, <1>3, <2>1, Constants DEF Accepted, NoneOf, Callbacks
    <3> HIDE DEF attached
    <3>3. Loading(o)' => Loading(o)
      BY <3>1 DEF Loading, Idle
    <3>4. \A i \in DOMAIN pending : pending[i] \in InFlight
      BY Entry DEF Types, PendingTypes
    <3>5. NoneOf(pending[identifier].callbacks \o attached, o)
      <4> DEFINE held == pending[identifier].callbacks
      <4>1. held \in Seq(Callback) /\ NoneOf(held, o)
        BY <2>1, <3>1, Entry DEF Types, PendingTypes, Gone
      <4> HIDE DEF held
      <4>2. NoneOf(held \o attached, o)
        BY <3>2, <4>1 DEF NoneOf
      <4> QED
        BY <4>2 DEF held
    <3>6. ASSUME NEW i \in DOMAIN pending' PROVE Gone(pending'[i], o)
      <4>1. CASE pending' = pending
        BY <2>1, <4>1
      <4>2. CASE pending' = [pending EXCEPT ![identifier].callbacks = @ \o attached,
                                           ![identifier].owners = @ \cup {owner}]
        <5>1. i # identifier => i \in DOMAIN pending /\ pending'[i] = pending[i]
          BY <4>2
        <5>2. /\ pending'[identifier].callbacks = pending[identifier].callbacks \o attached
              /\ pending'[identifier].owners = pending[identifier].owners \cup {owner}
          BY <3>1, <3>4, <4>2 DEF InFlight
        <5>3. Gone(pending'[identifier], o)
          BY <2>1, <3>1, <3>5, <5>2 DEF Gone
        <5> QED
          BY <2>1, <5>1, <5>3
      <4> QED
        BY <3>1, <4>1, <4>2
    <3> QED
      BY <3>3, <3>6
  <2>3. CASE FindCached(l, identifier, owner, shadow, callbacks)
    <3>1. pending' = pending
      BY <2>3 DEF FindCached
    <3>2. loader \in [Loaders -> LoaderType]
      BY DEF Types, LoaderTypes
    <3>3. loader'[l].at = "idle" \/ loader'[l].owner = owner
      BY <2>3, <3>2 DEF FindCached, SetLoader, NotLoading
    <3>4. \A k \in Loaders : k # l => loader'[k] = loader[k]
      BY <2>3, <3>2 DEF FindCached, SetLoader
    <3> QED
      BY <2>1, <3>1, <3>3, <3>4, LoaderQuiet
  <2>4. CASE StartRequest(l, identifier, owner, shadow, lazy, callbacks)
    <3>1. loader \in [Loaders -> LoaderType]
      BY DEF Types, LoaderTypes
    <3>2. /\ loader'[l].owner = owner
          /\ \A k \in Loaders : k # l => loader'[k] = loader[k]
      BY <2>4, <3>1 DEF StartRequest, SetLoader
    <3>3. PICK flight : /\ pending' = Put(pending, identifier, flight)
                        /\ flight.owners = {owner} /\ flight.callbacks = callbacks
      BY <2>4 DEF StartRequest
    <3>4. Gone(flight, o)
      BY <1>3, <2>1, <3>3 DEF Gone, NoneOf
    <3>5. \A i \in DOMAIN pending' : Gone(pending'[i], o)
      BY <2>1, <3>3, <3>4 DEF Put
    <3> QED
      BY <2>1, <3>2, <3>5, LoaderQuiet
  <2> QED
    BY <1>1, <2>2, <2>3, <2>4
<1> QED
  BY <1>1, <1>4, SameQuiet

LEMMA CleanPendingQuiet ==
    ASSUME Types, QuietOK, NEW o \in Addons, CleanPending(o)
    PROVE  QuietOK'
<1>1. /\ cleaning' = cleaning \cup {o} /\ completions' = completions /\ loader' = loader
      /\ quiet' = IF Loading(o) THEN quiet ELSE quiet \cup {o}
  BY DEF CleanPending, queues
<1>2. PICK dropped : Cleaned(o, dropped)
  BY CleanPendingFacts
<1>3. \A i \in DOMAIN pending' : /\ i \in DOMAIN pending
                                 /\ pending'[i].owners = pending[i].owners \ {o}
                                 /\ pending'[i].callbacks = Only(pending[i].callbacks, Others(o))
  BY <1>2, LeftFacts DEF Cleaned, Types
<1>4. ASSUME NEW k \in quiet', NEW i \in DOMAIN pending' PROVE Gone(pending'[i], k)
  <2>1. pending[i].callbacks \in Seq(Callback)
    BY <1>3, Entry DEF Types, PendingTypes
  <2>2. k # o => Gone(pending[i], k)
    BY <1>1, <1>3 DEF QuietOK
  <2>3. NoneOf(Only(pending[i].callbacks, Others(o)), k)
    <3>1. \A c \in Others(o) : c.owner # o
      BY DEF Others
    <3> QED
      BY <2>1, <2>2, <3>1, OnlyNone DEF Gone
  <2> QED
    BY <1>3, <2>2, <2>3 DEF Gone
<1>5. \A k \in quiet' : ~Loading(k)' /\ (k \notin cleaning' => NoneReady(completions', k))
  <2>1. \A k : Loading(k)' <=> Loading(k)
    BY <1>1 DEF Loading, Idle
  <2> QED
    BY <1>1, <2>1 DEF QuietOK
<1> QED
  BY <1>4, <1>5 DEF QuietOK

\* Every step keeps what is gone away.
LEMMA QuietKept ==
    ASSUME Types, QuietOK, [Next]_vars
    PROVE  QuietOK'
<1>1. ASSUME NEW l \in Loaders, Submit(l) PROVE QuietOK'
  BY <1>1, LoadQuiet DEF Submit
<1>2. ASSUME NEW l \in Loaders, PushCached(l) PROVE QuietOK'
  <2>1. /\ pending' = pending /\ quiet' = quiet /\ cleaning' = cleaning
        /\ loader[l].at = "cached" /\ SetLoader(l, NotLoading)
    BY <1>2 DEF PushCached, state, history
  <2>2. loader[l] \in LoaderType /\ LoaderOK(loader[l]) /\ loader \in [Loaders -> LoaderType]
    BY DEF Types, LoaderTypes
  <2> DEFINE c == loader[l].callbacks[1]
  <2>3. c.owner = loader[l].owner
    BY <2>1, <2>2 DEF LoaderOK
  <2>4. \A o \in quiet : o # c.owner
    BY <2>1, <2>3 DEF QuietOK, Loading, Idle
  <2> HIDE DEF c
  <2>5. \A o : Loading(o)' => Loading(o)
    <3>1. loader'[l].at = "idle" /\ \A k \in Loaders : k # l => loader'[k] = loader[k]
      BY <2>1, <2>2 DEF SetLoader, NotLoading
    <3> QED
      BY <3>1, LoaderQuiet
  <2>6. ASSUME NEW o \in quiet, NoneReady(completions, o) PROVE NoneReady(completions', o)
    <3>1. completions \in Seq(Completion)
      BY DEF Types, CompletionTypes
    <3>2. completions' = completions \/ completions' = Append(completions, Ready(c))
      BY <1>2 DEF PushCached, c
    <3>3. Ready(c).callback = c
      BY DEF Ready
    <3>4. CASE completions' = Append(completions, Ready(c))
      <4> DEFINE e == Ready(c)
      <4>1. e.callback.owner # o /\ completions' = Append(completions, e)
        BY <2>4, <3>3, <3>4
      <4> HIDE DEF e
      <4>2. \A n \in DOMAIN completions' : (n \in DOMAIN completions /\ completions'[n] = completions[n])
                                           \/ completions'[n] = e
        BY <3>1, <4>1
      <4> QED
        BY <2>6, <4>1, <4>2 DEF NoneReady
    <3> QED
      BY <2>6, <3>2, <3>4
  <2> QED
    BY <2>1, <2>5, <2>6, SameQuiet DEF QuietOK
<1>3. ASSUME NEW l \in Loaders, FailReserved(l) PROVE QuietOK'
  <2>1. /\ quiet' = quiet /\ cleaning' = cleaning /\ completions' = completions
        /\ loader[l].at = "resolving" /\ loader \in [Loaders -> LoaderType]
    BY <1>3 DEF FailReserved, queues, Types, LoaderTypes
  <2>2. \/ pending' = pending /\ SetLoader(l, NotLoading)
        \/ /\ pending' = Without(pending, loader[l].job.identifier)
           /\ \E cs : SetLoader(l, [loader[l] EXCEPT !.at = "calling", !.callbacks = cs])
    BY <1>3 DEF FailReserved
  <2>3. \A i \in DOMAIN pending' : i \in DOMAIN pending /\ pending'[i] = pending[i]
    BY <2>2 DEF Without, Restrict
  <2>4. \A o : Loading(o)' => Loading(o)
    <3>1. \A k \in Loaders : k # l => loader'[k] = loader[k]
      BY <2>1, <2>2 DEF SetLoader
    <3>2. loader'[l].at = "idle" \/ loader'[l].owner = loader[l].owner
      <4>1. CASE SetLoader(l, NotLoading)
        BY <2>1, <4>1 DEF SetLoader, NotLoading
      <4>2. ASSUME NEW cs, SetLoader(l, [loader[l] EXCEPT !.at = "calling", !.callbacks = cs])
            PROVE  loader'[l].owner = loader[l].owner
        BY <2>1, <4>2 DEF SetLoader, LoaderType
      <4> QED
        BY <2>2, <4>1, <4>2
    <3> QED
      BY <2>1, <3>1, <3>2, LoaderQuiet
  <2> QED
    BY <2>1, <2>3, <2>4, SameQuiet DEF QuietOK
<1>4. ASSUME NEW l \in Loaders, CallFailed(l) \/ \E w \in Workers : QueueResolved(l, w)
      PROVE  QuietOK'
  <2>1. /\ pending' = pending /\ completions' = completions /\ quiet' = quiet
        /\ cleaning' = cleaning /\ loader[l].at \in {"calling", "resolving"}
        /\ loader \in [Loaders -> LoaderType]
        /\ \/ SetLoader(l, NotLoading)
           \/ SetLoader(l, [loader[l] EXCEPT !.callbacks = Tail(@)])
    BY <1>4 DEF CallFailed, QueueResolved, state, queues, history, Types, LoaderTypes
  <2>2. \A o : Loading(o)' => Loading(o)
    <3>1. \A k \in Loaders : k # l => loader'[k] = loader[k]
      BY <2>1 DEF SetLoader
    <3>2. loader'[l].at = "idle" \/ loader'[l].owner = loader[l].owner
      BY <2>1 DEF SetLoader, NotLoading, LoaderType
    <3> QED
      BY <2>1, <3>1, <3>2, LoaderQuiet
  <2> QED
    BY <2>1, <2>2, SameQuiet DEF QuietOK
<1>5. ASSUME UNCHANGED <<loader, pending, completions, quiet, cleaning>> PROVE QuietOK'
  BY <1>5 DEF QuietOK, Loading, Idle
<1>6. ASSUME NEW w \in Workers, Deliver(w) PROVE QuietOK'
  <2>1. PICK ok \in BOOLEAN : completions' = Append(completions, Decoded(worker[w], ok))
    BY <1>6 DEF Deliver
  <2>2. UNCHANGED <<loader, pending, quiet, cleaning>>
    BY <1>6 DEF Deliver, state, history
  <2> DEFINE e == Decoded(worker[w], ok)
  <2>3. ~IsReady(e) /\ completions' = Append(completions, e)
    BY <2>1 DEF Decoded, IsReady
  <2> HIDE DEF e
  <2>4. \A n \in DOMAIN completions' : (n \in DOMAIN completions /\ completions'[n] = completions[n])
                                       \/ completions'[n] = e
    BY <2>3 DEF Types, CompletionTypes
  <2>5. \A o : NoneReady(completions, o) => NoneReady(completions', o)
    BY <2>3, <2>4 DEF NoneReady
  <2>6. \A o : Loading(o)' => Loading(o)
    BY <2>2 DEF Loading, Idle
  <2> QED
    BY <2>2, <2>5, <2>6, SameQuiet DEF QuietOK
<1>7. ASSUME Pop PROVE QuietOK'
  <2>1. UNCHANGED <<loader, pending, quiet, cleaning>> /\ completions' = Tail(completions)
        /\ completions # <<>>
    BY <1>7 DEF Pop, RenderStep
  <2>2. \A n \in DOMAIN completions' : n + 1 \in DOMAIN completions /\ completions'[n] = completions[n + 1]
    BY <2>1 DEF Types, CompletionTypes
  <2>3. \A o : NoneReady(completions, o) => NoneReady(completions', o)
    BY <2>2 DEF NoneReady
  <2>4. \A o : Loading(o)' => Loading(o)
    BY <2>1 DEF Loading, Idle
  <2> QED
    BY <2>1, <2>3, <2>4, SameQuiet DEF QuietOK
<1>8. ASSUME Finish PROVE QuietOK'
  <2>1. UNCHANGED <<loader, completions, quiet, cleaning>>
    BY <1>8 DEF Finish, RenderStep
  <2>2. pending' = pending \/ pending' = Without(pending, render.job.identifier)
    BY <1>8 DEF Finish
  <2>3. \A i \in DOMAIN pending' : i \in DOMAIN pending /\ pending'[i] = pending[i]
    BY <2>2 DEF Without, Restrict
  <2>4. \A o : Loading(o)' => Loading(o)
    BY <2>1 DEF Loading, Idle
  <2> QED
    BY <2>1, <2>3, <2>4, SameQuiet DEF QuietOK
<1>9. ASSUME NEW o \in Addons, CleanReady(o) PROVE QuietOK'
  <2> DEFINE kept == {completion \in Elements(completions) :
                         ~(IsReady(completion) /\ completion.callback.owner = o)}
             only == Only(completions, kept)
  <2>1. UNCHANGED <<loader, pending, quiet>> /\ cleaning' = cleaning \ {o} /\ completions' = only
    BY <1>9 DEF CleanReady, state, history
  <2>2. \A k \in kept : ~(IsReady(k) /\ k.callback.owner = o)
    OBVIOUS
  <2>3. completions \in Seq(Completion)
    BY DEF Types, CompletionTypes
  <2> HIDE DEF kept
  <2>4. \A n \in DOMAIN only : only[n] \in kept /\ \E m \in DOMAIN completions : only[n] = completions[m]
    BY <2>3, OnlySome
  <2> HIDE DEF only
  <2>5. NoneReady(only, o) /\ \A k : NoneReady(completions, k) => NoneReady(only, k)
    BY <2>2, <2>4 DEF NoneReady
  <2>6. \A k : Loading(k)' <=> Loading(k)
    BY <2>1 DEF Loading, Idle
  <2> QED
    BY <2>1, <2>5, <2>6 DEF QuietOK
<1>10. ASSUME Upload \/ CallBack \/ Stop \/ (\E w \in Workers : Take(w)) \/ UNCHANGED vars PROVE QuietOK'
  BY <1>5, <1>10 DEF Upload, CallBack, Stop, Take, RenderStep, vars, state, queues, threads, history
<1> QED
  BY <1>1, <1>2, <1>3, <1>4, <1>6, <1>7, <1>8, <1>9, <1>10, CleanPendingQuiet
     DEF Next, LoaderStep, Advance
-----------------------------------------------------------------------------
(* The places of the callbacks. *)

Slot(kind, at, n) == [kind |-> kind, at |-> at, n |-> n]
Unchanged == /\ \A i, n, c : InPending(i, n, c)' => InPending(i, n, c)
             /\ \A n, c : InReady(n, c)' => InReady(n, c)
             /\ \A n, c : InRender(n, c)' => InRender(n, c)
             /\ \A l, n, c : InLoader(l, n, c)' => InLoader(l, n, c)

\* Whatever a slot holds after a step, another one held before it, or it is new.
Moves(from, new) ==
    \A s \in Slots : \A c \in 1..MaxCallbacks :
        Holds(s, c)' => \/ Holds(from[s], c)
                        \/ Same(s, new) /\ c = next_callback_id /\ c < next_callback_id'

\* Two slots that hold something come from two slots.
Apart(from) ==
    \A s, t \in Slots : \A c \in 1..MaxCallbacks :
        Holds(s, c)' /\ Holds(t, c)' /\ Same(from[s], from[t]) => Same(s, t)

LEMMA Moved ==
    ASSUME InOnePlace, UncalledOK, NEW from \in [Slots -> Slots], NEW new,
           Moves(from, new), Apart(from), next_callback_id \in Nat,
           next_callback_id' \in Nat, next_callback_id <= next_callback_id'
    PROVE  InOnePlace' /\ (called' = called => UncalledOK')
<1>1. ASSUME NEW s \in Slots, NEW t \in Slots, NEW c \in 1..MaxCallbacks,
             Holds(s, c)', Holds(t, c)'
      PROVE  Same(s, t)
  <2>1. \A u \in Slots : Holds(u, c) => c < next_callback_id
    BY DEF UncalledOK
  <2>2. from[s] \in Slots /\ from[t] \in Slots
    OBVIOUS
  <2>3. CASE c = next_callback_id
    <3>1. ~Holds(from[s], c) /\ ~Holds(from[t], c)
      BY <2>1, <2>2, <2>3
    <3>2. Same(s, new) /\ Same(t, new)
      BY <1>1, <3>1 DEF Moves
    <3> QED
      BY <3>2 DEF Same
  <2>4. CASE c # next_callback_id
    <3>1. Holds(from[s], c) /\ Holds(from[t], c)
      BY <1>1, <2>4 DEF Moves
    <3>2. Same(from[s], from[t])
      BY <2>2, <3>1 DEF InOnePlace
    <3> QED
      BY <1>1, <3>2 DEF Apart
  <2> QED
    BY <2>3, <2>4
<1>2. ASSUME called' = called PROVE UncalledOK'
  <2>1. ASSUME NEW s \in Slots, NEW c \in 1..MaxCallbacks, Holds(s, c)'
        PROVE  c < next_callback_id' /\ called[c] = 0
    <3>1. CASE Holds(from[s], c)
      <4>1. from[s] \in Slots
        OBVIOUS
      <4>2. c < next_callback_id /\ called[c] = 0 /\ c \in Int
        BY <3>1, <4>1 DEF UncalledOK
      <4> QED
        BY <4>2
    <3>2. CASE c = next_callback_id /\ c < next_callback_id'
      BY <3>2 DEF UncalledOK
    <3> QED
      BY <2>1, <3>1, <3>2 DEF Moves
  <2>2. ASSUME NEW c \in 1..MaxCallbacks
        PROVE  called[c] <= 1 /\ (c >= next_callback_id' => called[c] = 0)
    BY DEF UncalledOK
  <2> QED
    BY <1>2, <2>1, <2>2 DEF UncalledOK
<1> QED
  BY <1>1, <1>2 DEF InOnePlace

\* The one that is called leaves its slot.
LEMMA MovedCalled ==
    ASSUME Types, InOnePlace, UncalledOK, NEW from \in [Slots -> Slots], NEW new,
           Moves(from, new), Apart(from), next_callback_id' = next_callback_id,
           NEW d \in 1..MaxCallbacks, NEW h \in Slots, Holds(h, d),
           called' = [called EXCEPT ![d] = @ + 1],
           \A s \in Slots : \A c \in 1..MaxCallbacks : Holds(s, c)' => ~Same(from[s], h)
    PROVE  InOnePlace' /\ UncalledOK'
<1>1. next_callback_id \in Nat /\ called \in [1..MaxCallbacks -> Nat]
  BY DEF Types, CounterTypes, HistoryTypes
<1>2. InOnePlace'
  BY <1>1, Moved
<1>3. d < next_callback_id /\ called[d] = 0
  BY DEF UncalledOK
<1>4. called'[d] = 1 /\ \A c \in 1..MaxCallbacks : c # d => called'[c] = called[c]
  BY <1>1, <1>3
<1>5. ASSUME NEW s \in Slots, NEW c \in 1..MaxCallbacks, Holds(s, c)'
      PROVE  c < next_callback_id /\ called'[c] = 0
  <2>1. from[s] \in Slots
    OBVIOUS
  <2>2. Holds(from[s], c)
    BY <1>1, <1>5 DEF Moves
  <2>3. c # d
    BY <1>5, <2>1, <2>2 DEF InOnePlace
  <2> QED
    BY <1>4, <2>1, <2>2, <2>3 DEF UncalledOK
<1>6. ASSUME NEW c \in 1..MaxCallbacks
      PROVE  called'[c] <= 1 /\ (c >= next_callback_id => called'[c] = 0)
  <2>1. CASE c = d
    BY <1>1, <1>3, <1>4, <2>1
  <2>2. CASE c # d
    BY <1>4, <2>2 DEF UncalledOK
  <2> QED
    BY <2>1, <2>2
<1> QED
  BY <1>2, <1>5, <1>6 DEF UncalledOK

LEMMA StaysPut ==
    ASSUME Types, InOnePlace, UncalledOK, Unchanged, called' = called,
           next_callback_id' = next_callback_id
    PROVE  InOnePlace' /\ UncalledOK'
<1> DEFINE from == [s \in Slots |-> s]
<1>1. from \in [Slots -> Slots] /\ \A s \in Slots : from[s] = s
  OBVIOUS
<1> HIDE DEF from
<1>2. \A s \in Slots : \A c \in 1..MaxCallbacks : Holds(s, c)' => Holds(s, c)
  BY DEF Unchanged, Holds
<1>3. Moves(from, 0) /\ Apart(from)
  BY <1>1, <1>2 DEF Moves, Apart
<1>4. next_callback_id \in Nat
  BY DEF Types, CounterTypes
<1> QED
  BY <1>1, <1>3, <1>4, Moved

LEMMA SameHolds ==
    /\ pending' = pending => \A i, n, c : InPending(i, n, c)' => InPending(i, n, c)
    /\ completions' = completions => \A n, c : InReady(n, c)' => InReady(n, c)
    /\ render' = render => \A n, c : InRender(n, c)' => InRender(n, c)
    /\ loader' = loader => \A l, n, c : InLoader(l, n, c)' => InLoader(l, n, c)
<1>1. pending' = pending => \A i, n, c : InPending(i, n, c)' => InPending(i, n, c)
  BY DEF InPending, HasAt
<1>2. completions' = completions => \A n, c : InReady(n, c)' => InReady(n, c)
  BY DEF InReady
<1>3. render' = render => \A n, c : InRender(n, c)' => InRender(n, c)
  BY DEF InRender, HasAt
<1>4. loader' = loader => \A l, n, c : InLoader(l, n, c)' => InLoader(l, n, c)
  BY DEF InLoader, HasAt
<1> QED
  BY <1>1, <1>2, <1>3, <1>4

\* A request that left is in no slot, and the others are where they were.
LEMMA WithoutHolds ==
    ASSUME NEW i, pending' = Without(pending, i)
    PROVE  \A j, n, c : InPending(j, n, c)' => j # i /\ InPending(j, n, c)
<1>1. DOMAIN pending' = DOMAIN pending \ {i} /\ \A j \in DOMAIN pending' : pending'[j] = pending[j]
  BY WithoutFacts
<1> QED
  BY <1>1 DEF InPending, HasAt

\* A loader that is idle or resolving holds none.
LEMMA LoaderHolds ==
    ASSUME NEW l \in Loaders, \A k \in Loaders : k # l => loader'[k] = loader[k]
    PROVE  /\ \A k, n, c : k # l /\ InLoader(k, n, c)' => InLoader(k, n, c)
           /\ loader'[l].at \in {"idle", "resolving"} =>
                \A k, n, c : InLoader(k, n, c)' => k # l /\ InLoader(k, n, c)
  BY DEF InLoader, HasAt

\* A load puts its callback, if it has one, where none has been.
LEMMA NewPlace ==
    ASSUME Types, InOnePlace, UncalledOK, NEW new, called' = called,
           next_callback_id' \in Nat, next_callback_id <= next_callback_id',
           \A s \in Slots : \A c \in 1..MaxCallbacks :
              Holds(s, c)' => \/ Holds(s, c)
                              \/ Same(s, new) /\ c = next_callback_id /\ c < next_callback_id'
    PROVE  InOnePlace' /\ UncalledOK'
<1> DEFINE from == [s \in Slots |-> s]
<1>1. from \in [Slots -> Slots] /\ \A s \in Slots : from[s] = s
  OBVIOUS
<1> HIDE DEF from
<1>2. Moves(from, new) /\ Apart(from)
  BY <1>1 DEF Moves, Apart
<1>3. next_callback_id \in Nat
  BY DEF Types, CounterTypes
<1> QED
  BY <1>1, <1>2, <1>3, Moved

LEMMA LoadPlaces ==
    ASSUME Types, InOnePlace, UncalledOK,
           NEW l \in Loaders, NEW identifier \in Identifiers, NEW owner \in Owners,
           NEW shadow \in BOOLEAN, NEW lazy \in BOOLEAN, NEW with_callback \in BOOLEAN,
           Load(l, identifier, owner, shadow, lazy, with_callback)
    PROVE  InOnePlace' /\ UncalledOK'
<1> DEFINE callbacks == Submitted(owner, with_callback)
<1>1. /\ with_callback => next_callback_id <= MaxCallbacks
      /\ next_callback_id' = next_callback_id + Len(callbacks)
      /\ Idle(l)
      /\ \/ Join(identifier, owner, lazy, callbacks)
         \/ FindCached(l, identifier, owner, shadow, callbacks)
         \/ StartRequest(l, identifier, owner, shadow, lazy, callbacks)
      /\ completions' = completions /\ render' = render /\ called' = called
  BY DEF Load, queues
<1>2. Accepted(callbacks, owner)
  BY <1>1, SubmittedFacts DEF Types
<1> HIDE DEF callbacks
<1>3. next_callback_id' \in Nat /\ next_callback_id <= next_callback_id' /\ next_callback_id \in Nat
      /\ callbacks \in Seq(Callback)
  <2>1. Len(callbacks) \in Nat /\ next_callback_id \in Nat
    BY <1>2 DEF Accepted, Types, CounterTypes
  <2> QED
    BY <1>1, <1>2, <2>1 DEF Accepted
<1>4. \A n, c : HasAt(callbacks, n, c) => n = 1 /\ c = next_callback_id /\ c < next_callback_id'
  <2>1. CASE callbacks = <<>>
    BY <2>1 DEF HasAt
  <2>2. CASE callbacks # <<>>
    <3>1. Len(callbacks) = 1 /\ callbacks[1].id = next_callback_id /\ DOMAIN callbacks = 1..1
      BY <1>2, <1>3, <2>2 DEF Accepted
    <3>2. next_callback_id' = next_callback_id + 1
      BY <1>1, <3>1
    <3> QED
      BY <1>3, <3>1, <3>2 DEF HasAt
  <2> QED
    BY <2>1, <2>2
<1>5. loader \in [Loaders -> LoaderType]
  BY DEF Types, LoaderTypes
<1>6. CASE Join(identifier, owner, lazy, callbacks)
  <2> DEFINE attached == IF lazy THEN <<>> ELSE callbacks
             held == pending[identifier].callbacks
  <2>1. /\ loader' = loader /\ identifier \in DOMAIN pending
        /\ \/ pending' = pending
           \/ pending' = [pending EXCEPT ![identifier].callbacks = @ \o attached,
                                         ![identifier].owners = @ \cup {owner}]
    BY <1>6 DEF Join
  <2>2. attached \in Seq(Callback) /\ \A n, c : HasAt(attached, n, c) => HasAt(callbacks, n, c)
    BY <1>3, Constants DEF HasAt, Callbacks
  <2>3. held \in Seq(Callback) /\ pending[identifier] \in InFlight
    BY <2>1, Entry DEF Types, PendingTypes
  <2> HIDE DEF attached
  <2>4. ASSUME NEW n, NEW c, HasAt(held \o attached, n, c)
        PROVE  \/ HasAt(held, n, c)
               \/ n = Len(held) + 1 /\ c = next_callback_id /\ c < next_callback_id'
    <3> HIDE DEF held
    <3>1. n \in DOMAIN (held \o attached) /\ (held \o attached)[n].id = c
      BY <2>4 DEF HasAt
    <3>2. CASE n \in DOMAIN held
      BY <2>2, <2>3, <3>1, <3>2 DEF HasAt
    <3>3. CASE n \notin DOMAIN held
      <4>1. n - Len(held) \in DOMAIN attached /\ (held \o attached)[n] = attached[n - Len(held)]
            /\ n \in Nat /\ Len(held) \in Nat
        BY <2>2, <2>3, <3>1, <3>3
      <4>2. HasAt(callbacks, n - Len(held), c)
        BY <2>2, <3>1, <4>1 DEF HasAt
      <4>3. n - Len(held) = 1 /\ c = next_callback_id /\ c < next_callback_id'
        BY <1>4, <4>2
      <4> QED
        BY <4>1, <4>3
    <3> QED
      BY <3>2, <3>3
  <2>5. \A i, n, c : InPending(i, n, c)' =>
            \/ InPending(i, n, c)
            \/ i = identifier /\ n = Len(held) + 1 /\ c = next_callback_id /\ c < next_callback_id'
    <3>1. CASE pending' = pending
      BY <3>1, SameHolds
    <3>2. CASE pending' = [pending EXCEPT ![identifier].callbacks = @ \o attached,
                                         ![identifier].owners = @ \cup {owner}]
      <4>1. /\ DOMAIN pending' = DOMAIN pending
            /\ \A i \in DOMAIN pending : i # identifier => pending'[i] = pending[i]
        BY <3>2
      <4>2. pending'[identifier].callbacks = held \o attached
        BY <2>1, <2>3, <3>2 DEF InFlight
      <4> HIDE DEF held
      <4>3. ASSUME NEW i, NEW n, NEW c, InPending(i, n, c)'
            PROVE  \/ InPending(i, n, c)
                   \/ i = identifier /\ n = Len(held) + 1 /\ c = next_callback_id
                      /\ c < next_callback_id'
        <5>1. CASE i # identifier
          BY <4>1, <4>3, <5>1 DEF InPending, HasAt
        <5>2. CASE i = identifier
          <6>1. HasAt(held \o attached, n, c)
            BY <4>2, <4>3, <5>2 DEF InPending, HasAt
          <6> QED
            BY <2>1, <2>4, <5>2, <6>1 DEF InPending, held
        <5> QED
          BY <5>1, <5>2
      <4> QED
        BY <4>3
    <3> QED
      BY <2>1, <3>1, <3>2
  <2> DEFINE new == Slot("pending", identifier, Len(held) + 1)
  <2>6. ASSUME NEW s \in Slots, NEW c \in 1..MaxCallbacks, Holds(s, c)'
        PROVE  \/ Holds(s, c)
               \/ Same(s, new) /\ c = next_callback_id /\ c < next_callback_id'
    <3> HIDE DEF held
    <3>1. new.kind = "pending" /\ new.at = identifier /\ new.n = Len(held) + 1
      BY DEF Slot
    <3> HIDE DEF new
    <3> QED
      BY <1>1, <2>1, <2>5, <2>6, <3>1, SameHolds DEF Holds, Same
  <2> HIDE DEF new
  <2> QED
    BY <1>1, <1>3, <2>6, NewPlace
<1>7. CASE FindCached(l, identifier, owner, shadow, callbacks)
  <2> DEFINE new == Slot("loader", l, 1)
  <2>1. /\ pending' = pending
        /\ \A k \in Loaders : k # l => loader'[k] = loader[k]
        /\ loader'[l].callbacks = callbacks
    BY <1>5, <1>7 DEF FindCached, SetLoader, NotLoading
  <2>2. \A k, n, c : InLoader(k, n, c)' =>
            \/ InLoader(k, n, c)
            \/ k = l /\ n = 1 /\ c = next_callback_id /\ c < next_callback_id'
    BY <1>4, <2>1 DEF InLoader, HasAt
  <2>3. new.kind = "loader" /\ new.at = l /\ new.n = 1
    BY DEF Slot
  <2> HIDE DEF new
  <2>4. ASSUME NEW s \in Slots, NEW c \in 1..MaxCallbacks, Holds(s, c)'
        PROVE  \/ Holds(s, c)
               \/ Same(s, new) /\ c = next_callback_id /\ c < next_callback_id'
    BY <1>1, <2>1, <2>2, <2>3, <2>4, SameHolds DEF Holds, Same
  <2> QED
    BY <1>1, <1>3, <2>4, NewPlace
<1>8. CASE StartRequest(l, identifier, owner, shadow, lazy, callbacks)
  <2> DEFINE new == Slot("pending", identifier, 1)
  <2>1. /\ loader'[l].at = "resolving"
        /\ \A k \in Loaders : k # l => loader'[k] = loader[k]
    BY <1>5, <1>8 DEF StartRequest, SetLoader
  <2>2. \A k, n, c : InLoader(k, n, c)' => InLoader(k, n, c)
    BY <2>1, LoaderHolds
  <2>3. PICK flight : pending' = Put(pending, identifier, flight) /\ flight.callbacks = callbacks
    BY <1>8 DEF StartRequest
  <2>4. \A i, n, c : InPending(i, n, c)' =>
            \/ InPending(i, n, c)
            \/ i = identifier /\ n = 1 /\ c = next_callback_id /\ c < next_callback_id'
    <3>1. /\ DOMAIN pending' = DOMAIN pending \cup {identifier}
          /\ pending'[identifier].callbacks = callbacks
          /\ \A i \in DOMAIN pending : i # identifier => pending'[i] = pending[i]
      BY <2>3 DEF Put
    <3> QED
      BY <1>4, <3>1 DEF InPending, HasAt
  <2>5. new.kind = "pending" /\ new.at = identifier /\ new.n = 1
    BY DEF Slot
  <2> HIDE DEF new
  <2>6. ASSUME NEW s \in Slots, NEW c \in 1..MaxCallbacks, Holds(s, c)'
        PROVE  \/ Holds(s, c)
               \/ Same(s, new) /\ c = next_callback_id /\ c < next_callback_id'
    BY <1>1, <2>2, <2>4, <2>5, <2>6, SameHolds DEF Holds, Same
  <2> QED
    BY <1>1, <1>3, <2>6, NewPlace
<1> QED
  BY <1>1, <1>6, <1>7, <1>8

LEMMA SlotType ==
    ASSUME NEW kind \in {"pending", "ready", "render", "loader"},
           NEW at \in Identifiers \cup Loaders \cup {"service"}, NEW n \in Nat \ {0}
    PROVE  /\ Slot(kind, at, n) \in Slots
           /\ Slot(kind, at, n).kind = kind /\ Slot(kind, at, n).at = at /\ Slot(kind, at, n).n = n
  BY DEF Slot, Slots

\* Slots whose callbacks come from to's, all of the same kind and place.
Lifts(from, kind, at, to_kind, to_at, g) ==
    \A s \in Slots :
        IF s.kind = kind /\ s.at = at
        THEN from[s].kind = to_kind /\ from[s].at = to_at /\ from[s].n = g[s.n]
        ELSE from[s] = s
LEMMA Lifting ==
    ASSUME NEW kind \in {"pending", "ready", "render", "loader"},
           NEW to_kind \in {"pending", "ready", "render", "loader"},
           NEW at, NEW to_at \in Identifiers \cup Loaders \cup {"service"},
           NEW g \in [Nat \ {0} -> Nat \ {0}]
    PROVE  \E from \in [Slots -> Slots] : Lifts(from, kind, at, to_kind, to_at, g)
<1> DEFINE to(s) == Slot(to_kind, to_at, g[s.n])
           from == [s \in Slots |-> IF s.kind = kind /\ s.at = at THEN to(s) ELSE s]
<1>1. ASSUME NEW s \in Slots
      PROVE  to(s) \in Slots /\ to(s).kind = to_kind /\ to(s).at = to_at /\ to(s).n = g[s.n]
  <2>1. s.n \in Nat \ {0}
    BY DEF Slots
  <2>2. g[s.n] \in Nat \ {0}
    BY <2>1
  <2> DEFINE m == g[s.n]
  <2>3. m \in Nat \ {0}
    BY <2>2
  <2> HIDE DEF m
  <2>4. /\ Slot(to_kind, to_at, m) \in Slots /\ Slot(to_kind, to_at, m).kind = to_kind
        /\ Slot(to_kind, to_at, m).at = to_at /\ Slot(to_kind, to_at, m).n = m
    BY <2>3, SlotType
  <2> QED
    BY <2>4 DEF m
<1> HIDE DEF to
<1>2. from \in [Slots -> Slots]
  BY <1>1
<1>3. Lifts(from, kind, at, to_kind, to_at, g)
  BY <1>1 DEF Lifts
<1> QED
  BY <1>2, <1>3

\* Those that stand behind the first one move up.
Behind == [n \in Nat \ {0} |-> n + 1]
LEMMA TailHolds ==
    ASSUME NEW callbacks \in Seq(Callback), callbacks # <<>>
    PROVE  /\ \A n, c : HasAt(Tail(callbacks), n, c) => /\ n \in Nat \ {0}
                                                        /\ HasAt(callbacks, Behind[n], c)
           /\ HasAt(callbacks, 1, Head(callbacks).id)
           /\ Head(callbacks).id \in 1..MaxCallbacks
           /\ Behind \in [Nat \ {0} -> Nat \ {0}]
           /\ \A m, n \in Nat \ {0} : Behind[m] # 1 /\ (Behind[m] = Behind[n] => m = n)
<1>1. Behind \in [Nat \ {0} -> Nat \ {0}] /\ \A n \in Nat \ {0} : Behind[n] = n + 1
  BY DEF Behind
<1>2. ASSUME NEW n, NEW c, HasAt(Tail(callbacks), n, c)
      PROVE  n \in Nat \ {0} /\ HasAt(callbacks, n + 1, c)
  <2>1. /\ n \in 1..(Len(callbacks) - 1) /\ Tail(callbacks)[n] = callbacks[n + 1]
        /\ Len(callbacks) \in Nat
    BY <1>2 DEF HasAt
  <2> QED
    BY <1>2, <2>1 DEF HasAt
<1>3. Head(callbacks) \in Callback /\ Head(callbacks) = callbacks[1] /\ 1 \in DOMAIN callbacks
  OBVIOUS
<1>4. HasAt(callbacks, 1, Head(callbacks).id) /\ Head(callbacks).id \in 1..MaxCallbacks
  BY <1>3 DEF HasAt, Callback
<1>5. ASSUME NEW m \in Nat \ {0}, NEW n \in Nat \ {0}
      PROVE  Behind[m] # 1 /\ (Behind[m] = Behind[n] => m = n)
  <2>1. Behind[m] = m + 1 /\ Behind[n] = n + 1 /\ m \in Nat /\ n \in Nat /\ m # 0
    BY <1>1
  <2> QED
    BY <2>1
<1>6. \A n, c : HasAt(Tail(callbacks), n, c) => n \in Nat \ {0} /\ HasAt(callbacks, Behind[n], c)
  BY <1>1, <1>2
<1> QED
  BY <1>1, <1>4, <1>5, <1>6

\* Those that Only leaves stood at places of their own.
Origins(g, only, seq) ==
    /\ g \in [Nat \ {0} -> Nat \ {0}]
    /\ \A n \in DOMAIN only : g[n] \in DOMAIN seq /\ only[n] = seq[g[n]] /\ n \in Nat \ {0}
    /\ \A m, n \in DOMAIN only : g[m] = g[n] => m = n
LEMMA OnlyHolds ==
    ASSUME NEW A, NEW seq \in Seq(A), NEW S
    PROVE  \E g : Origins(g, Only(seq, S), seq)
<1> DEFINE only == Only(seq, S)
<1>1. PICK h : Embeds(h, only, seq)
  BY OnlyEmbeds
<1>2. only \in Seq(A)
  BY OnlyFacts
<1> HIDE DEF only
<1>3. /\ DOMAIN only = 1..Len(only) /\ DOMAIN seq = 1..Len(seq)
      /\ Len(only) \in Nat /\ Len(seq) \in Nat
  BY <1>2
<1>4. /\ h \in [1..Len(only) -> 1..Len(seq)]
      /\ \A n \in 1..Len(only) : only[n] = seq[h[n]]
      /\ \A m, n \in 1..Len(only) : m < n => h[m] < h[n]
  BY <1>1 DEF Embeds
<1> DEFINE g == [n \in Nat \ {0} |-> IF n \in 1..Len(only) THEN h[n] ELSE 1]
<1>5. g \in [Nat \ {0} -> Nat \ {0}] /\ \A n \in 1..Len(only) : g[n] = h[n]
  <2>1. \A n \in 1..Len(only) : h[n] \in Nat \ {0} /\ n \in Nat \ {0}
    BY <1>3, <1>4
  <2> QED
    BY <2>1
<1> HIDE DEF g
<1>6. \A n \in DOMAIN only : g[n] \in DOMAIN seq /\ only[n] = seq[g[n]] /\ n \in Nat \ {0}
  BY <1>3, <1>4, <1>5
<1>7. ASSUME NEW m \in DOMAIN only, NEW n \in DOMAIN only, g[m] = g[n] PROVE m = n
  <2>1. h[m] = h[n] /\ h[m] \in Nat /\ h[n] \in Nat /\ m \in Nat /\ n \in Nat
    BY <1>3, <1>4, <1>5, <1>7
  <2>2. ~(m < n) /\ ~(n < m)
    BY <1>3, <1>4, <2>1
  <2> QED
    BY <2>1, <2>2
<1> QED
  BY <1>5, <1>6, <1>7 DEF only, Origins

LEMMA PushCachedPlaces ==
    ASSUME Types, InOnePlace, UncalledOK, NEW l \in Loaders, PushCached(l)
    PROVE  InOnePlace' /\ UncalledOK'
<1> DEFINE last == Len(completions) + 1
           from == [s \in Slots |-> IF s.kind = "ready" /\ s.at = "service" /\ s.n = last
                                    THEN Slot("loader", l, 1) ELSE s]
           c0 == loader[l].callbacks[1]
<1>1. /\ loader[l].at = "cached" /\ SetLoader(l, NotLoading)
      /\ pending' = pending /\ render' = render /\ called' = called
      /\ next_callback_id' = next_callback_id
      /\ completions' = completions \/ completions' = Append(completions, Ready(c0))
  BY DEF PushCached, state, history
<1>2. /\ completions \in Seq(Completion) /\ loader \in [Loaders -> LoaderType]
      /\ LoaderOK(loader[l]) /\ next_callback_id \in Nat
  BY DEF Types, CompletionTypes, LoaderTypes, CounterTypes
<1>3. HasAt(loader[l].callbacks, 1, c0.id)
  <2>1. loader[l].callbacks \in Seq(Callback) /\ Len(loader[l].callbacks) = 1
    BY <1>1, <1>2 DEF LoaderOK, LoaderType, Callbacks
  <2>2. 1 \in DOMAIN loader[l].callbacks
    BY <2>1
  <2> QED
    BY <2>2 DEF HasAt
<1> HIDE DEF c0
<1>4. \A k, n, c : InLoader(k, n, c)' => k # l /\ InLoader(k, n, c)
  <2>1. loader'[l].at = "idle" /\ \A k \in Loaders : k # l => loader'[k] = loader[k]
    BY <1>1, <1>2 DEF SetLoader, NotLoading
  <2> QED
    BY <2>1, LoaderHolds
<1>5. \A n, c : InReady(n, c)' => InReady(n, c) \/ (n = last /\ c = c0.id)
  <2>1. CASE completions' = completions
    BY <2>1, SameHolds
  <2>2. CASE completions' = Append(completions, Ready(c0))
    <3> DEFINE e == Ready(c0)
    <3>1. e.callback.id = c0.id
      BY DEF Ready
    <3>2. completions' = Append(completions, e)
      BY <2>2
    <3> HIDE DEF e
    <3>3. \A n \in DOMAIN completions' :
             (n \in DOMAIN completions /\ completions'[n] = completions[n]) \/ (n = last /\ completions'[n] = e)
      BY <1>2, <3>2
    <3> QED
      BY <3>1, <3>3 DEF InReady
  <2> QED
    BY <1>1, <2>1, <2>2
<1>6. /\ Slot("loader", l, 1) \in Slots /\ Slot("loader", l, 1).kind = "loader"
      /\ Slot("loader", l, 1).at = l /\ Slot("loader", l, 1).n = 1
  BY SlotType
<1>7. /\ from \in [Slots -> Slots]
      /\ \A s \in Slots : IF s.kind = "ready" /\ s.at = "service" /\ s.n = last
                          THEN from[s].kind = "loader" /\ from[s].at = l /\ from[s].n = 1
                          ELSE from[s] = s
  BY <1>6
<1> HIDE DEF from, last
<1>8. Moves(from, 0)
  <2>1. ASSUME NEW s \in Slots, NEW c \in 1..MaxCallbacks, Holds(s, c)'
        PROVE  Holds(from[s], c)
    <3>1. CASE s.kind = "ready" /\ s.at = "service" /\ s.n = last /\ c = c0.id
      BY <1>1, <1>3, <1>7, <3>1 DEF Holds, InLoader
    <3>2. CASE s.kind = "ready" /\ s.at = "service" /\ InReady(s.n, c)
      <4>1. s.n # last
        BY <1>2, <3>2 DEF InReady, last
      <4> QED
        BY <1>7, <3>2, <4>1 DEF Holds
    <3>3. CASE s.kind # "ready"
      BY <1>1, <1>4, <1>7, <2>1, <3>3, SameHolds DEF Holds
    <3> QED
      BY <1>5, <2>1, <3>1, <3>2, <3>3 DEF Holds
  <2> QED
    BY <2>1 DEF Moves
<1>9. Apart(from)
  BY <1>4, <1>7 DEF Apart, Holds, Same
<1> QED
  BY <1>1, <1>2, <1>7, <1>8, <1>9, Moved

\* The callbacks of a request that is dropped go where they are called from.
LEMMA FailReservedPlaces ==
    ASSUME Types, InOnePlace, UncalledOK, NEW l \in Loaders, FailReserved(l)
    PROVE  InOnePlace' /\ UncalledOK'
<1> DEFINE i == loader[l].job.identifier
<1>1. /\ completions' = completions /\ render' = render /\ called' = called
      /\ next_callback_id' = next_callback_id /\ loader[l].at = "resolving"
  BY DEF FailReserved, queues
<1>2. loader \in [Loaders -> LoaderType] /\ next_callback_id \in Nat
  BY DEF Types, LoaderTypes, CounterTypes
<1>3. CASE ~Matches(loader[l].job)
  <2>1. pending' = pending /\ SetLoader(l, NotLoading)
    BY <1>3 DEF FailReserved
  <2>2. loader'[l].at = "idle" /\ \A k \in Loaders : k # l => loader'[k] = loader[k]
    BY <1>2, <2>1 DEF SetLoader, NotLoading
  <2>3. Unchanged
    BY <1>1, <2>1, <2>2, LoaderHolds, SameHolds DEF Unchanged
  <2> QED
    BY <1>1, <2>3, StaysPut
<1>4. CASE Matches(loader[l].job)
  <2>1. i \in DOMAIN pending /\ pending' = Without(pending, i)
    BY <1>4 DEF FailReserved, Matches
  <2>2. i \in Identifiers /\ pending[i].callbacks \in Seq(Callback)
    BY <2>1, Entry DEF Types, PendingTypes
  <2>3. PICK S : SetLoader(l, [loader[l] EXCEPT !.at = "calling",
                                                !.callbacks = Only(pending[i].callbacks, S)])
    BY <1>4 DEF FailReserved
  <2> DEFINE only == Only(pending[i].callbacks, S)
  <2>4. PICK g : Origins(g, only, pending[i].callbacks)
    BY <2>2, OnlyHolds
  <2>5. loader'[l].callbacks = only /\ \A k \in Loaders : k # l => loader'[k] = loader[k]
    BY <1>2, <2>3 DEF SetLoader, LoaderType, only
  <2> HIDE DEF i, only
  <2>6. PICK from \in [Slots -> Slots] : Lifts(from, "loader", l, "pending", i, g)
    BY <2>2, <2>4, Lifting DEF Origins
  <2>7. /\ \A k, n, c : InLoader(k, n, c)' => \/ k # l /\ InLoader(k, n, c)
                                              \/ k = l /\ n \in DOMAIN only /\ InPending(i, g[n], c)
        /\ \A j, n, c : InPending(j, n, c)' => j # i /\ InPending(j, n, c)
    <3>1. \A j, n, c : InPending(j, n, c)' => j # i /\ InPending(j, n, c)
      BY <2>1, WithoutHolds
    <3>2. ASSUME NEW n, NEW c, InLoader(l, n, c)' PROVE n \in DOMAIN only /\ InPending(i, g[n], c)
      BY <2>1, <2>4, <2>5, <3>2 DEF InLoader, InPending, HasAt, Origins
    <3>3. \A k, n, c : k # l /\ InLoader(k, n, c)' => InLoader(k, n, c)
      BY <2>5, LoaderHolds
    <3> QED
      BY <3>1, <3>2, <3>3
  <2>8. Moves(from, 0)
    <3>1. ASSUME NEW s \in Slots, NEW c \in 1..MaxCallbacks, Holds(s, c)'
          PROVE  Holds(from[s], c)
      BY <1>1, <2>6, <2>7, <3>1, SameHolds DEF Holds, Lifts
    <3> QED
      BY <3>1 DEF Moves
  <2>9. Apart(from)
    <3>1. ASSUME NEW s \in Slots, NEW t \in Slots, NEW c \in 1..MaxCallbacks,
                 Holds(s, c)', Holds(t, c)', Same(from[s], from[t])
          PROVE  Same(s, t)
      <4>1. s.kind = "loader" /\ s.at = l => s.n \in DOMAIN only
        BY <2>7, <3>1 DEF Holds
      <4>2. t.kind = "loader" /\ t.at = l => t.n \in DOMAIN only
        BY <2>7, <3>1 DEF Holds
      <4>3. /\ s.kind = "pending" => s.at # i
            /\ t.kind = "pending" => t.at # i
        BY <2>7, <3>1 DEF Holds
      <4> QED
        BY <2>4, <2>6, <3>1, <4>1, <4>2, <4>3 DEF Lifts, Same, Origins
    <3> QED
      BY <3>1 DEF Apart
  <2> QED
    BY <1>1, <1>2, <2>8, <2>9, Moved
<1> QED
  BY <1>3, <1>4

LEMMA FinishPlaces ==
    ASSUME Types, InOnePlace, UncalledOK, Finish
    PROVE  InOnePlace' /\ UncalledOK'
<1> DEFINE i == render.job.identifier
<1>1. /\ completions' = completions /\ loader' = loader /\ called' = called
      /\ next_callback_id' = next_callback_id /\ render.at = "uploaded"
  BY DEF Finish, RenderStep
<1>2. render \in RenderType /\ next_callback_id \in Nat
  BY DEF Types, RenderTypes, CounterTypes
<1>3. CASE render' = NotRendering /\ pending' = pending
  <2>1. \A n, c : ~InRender(n, c)'
    BY <1>3 DEF InRender, HasAt, NotRendering
  <2>2. Unchanged
    BY <1>1, <1>3, <2>1, SameHolds DEF Unchanged
  <2> QED
    BY <1>1, <2>2, StaysPut
<1>4. CASE Finished
  <2>1. i \in DOMAIN pending /\ pending' = Without(pending, i)
        /\ render'.callbacks = pending[i].callbacks
    BY <1>2, <1>4 DEF Finished, RenderType
  <2>2. i \in Identifiers /\ pending[i].callbacks \in Seq(Callback)
    BY <2>1, Entry DEF Types, PendingTypes
  <2> HIDE DEF i
  <2> DEFINE g == [n \in Nat \ {0} |-> n]
  <2>3. g \in [Nat \ {0} -> Nat \ {0}] /\ \A n \in Nat \ {0} : g[n] = n
    OBVIOUS
  <2> HIDE DEF g
  <2>4. PICK from \in [Slots -> Slots] : Lifts(from, "render", "service", "pending", i, g)
    BY <2>2, <2>3, Lifting
  <2>5. /\ \A n, c : InRender(n, c)' => InPending(i, n, c)
        /\ \A j, n, c : InPending(j, n, c)' => j # i /\ InPending(j, n, c)
    <3>1. \A j, n, c : InPending(j, n, c)' => j # i /\ InPending(j, n, c)
      BY <2>1, WithoutHolds
    <3> QED
      BY <2>1, <3>1 DEF InRender, InPending
  <2>6. \A s \in Slots : s.n \in Nat \ {0}
    BY DEF Slots
  <2>7. Moves(from, 0)
    <3>1. ASSUME NEW s \in Slots, NEW c \in 1..MaxCallbacks, Holds(s, c)'
          PROVE  Holds(from[s], c)
      BY <1>1, <2>3, <2>4, <2>5, <2>6, <3>1, SameHolds DEF Holds, Lifts
    <3> QED
      BY <3>1 DEF Moves
  <2>8. Apart(from)
    <3>1. ASSUME NEW s \in Slots, NEW t \in Slots, NEW c \in 1..MaxCallbacks,
                 Holds(s, c)', Holds(t, c)', Same(from[s], from[t])
          PROVE  Same(s, t)
      <4>1. /\ s.kind = "pending" => s.at # i
            /\ t.kind = "pending" => t.at # i
        BY <2>5, <3>1 DEF Holds
      <4> QED
        BY <2>3, <2>4, <2>6, <3>1, <4>1 DEF Lifts, Same
    <3> QED
      BY <3>1 DEF Apart
  <2> QED
    BY <1>1, <1>2, <2>7, <2>8, Moved
<1> QED
  BY <1>3, <1>4, FinishCases

LEMMA PopPlaces ==
    ASSUME Types, InOnePlace, UncalledOK, Pop
    PROVE  InOnePlace' /\ UncalledOK'
<1> DEFINE first == Head(completions)
           from == [s \in Slots |->
                       IF s.kind = "ready" THEN Slot("ready", "service", s.n + 1)
                       ELSE IF s.kind = "render" /\ s.n = 1 THEN Slot("ready", "service", 1)
                       ELSE s]
<1>1. /\ loader' = loader /\ pending' = pending /\ called' = called
      /\ next_callback_id' = next_callback_id /\ completions' = Tail(completions)
      /\ completions # <<>>
  BY DEF Pop, RenderStep
<1>2. completions \in Seq(Completion) /\ next_callback_id \in Nat
  BY DEF Types, CompletionTypes, CounterTypes
<1>3. \A n, c : InReady(n, c)' => n \in Nat \ {0} /\ InReady(n + 1, c)
  <2>1. \A n \in DOMAIN completions' : /\ n \in Nat \ {0} /\ n + 1 \in DOMAIN completions
                                       /\ completions'[n] = completions[n + 1]
    BY <1>1, <1>2
  <2> QED
    BY <2>1 DEF InReady
<1>4. \A n, c : InRender(n, c)' => n = 1 /\ InReady(1, c)
  <2>1. 1 \in DOMAIN completions /\ first = completions[1]
    BY <1>1, <1>2
  <2>2. CASE IsReady(first)
    <3> DEFINE one == <<first.callback>>
    <3>1. render' = [NotRendering EXCEPT !.at = "calling", !.callbacks = one]
      BY <2>2 DEF Pop
    <3>2. DOMAIN one = {1} /\ one[1] = first.callback
      OBVIOUS
    <3> HIDE DEF one, first
    <3>3. render'.callbacks = one
      BY <3>1 DEF NotRendering
    <3> QED
      BY <2>1, <2>2, <3>2, <3>3 DEF InRender, InReady, HasAt
  <2>3. CASE ~IsReady(first)
    <3>1. \/ render' = NotRendering
          \/ render' = [NotRendering EXCEPT !.at = "matched", !.job = first.job, !.ok = first.ok]
      BY <2>3 DEF Pop
    <3> DEFINE found == [NotRendering EXCEPT !.at = "matched", !.job = first.job, !.ok = first.ok]
    <3>2. found.callbacks = <<>>
      BY DEF NotRendering
    <3>3. NotRendering.callbacks = <<>>
      BY DEF NotRendering
    <3> HIDE DEF found
    <3>4. render'.callbacks = <<>>
      BY <3>1, <3>2, <3>3 DEF found
    <3> QED
      BY <3>4 DEF InRender, HasAt
  <2> QED
    BY <2>2, <2>3
<1>5. \A s \in Slots : s.n \in Nat \ {0} /\ s.n + 1 \in Nat \ {0} /\ s.n + 1 # 1
  BY DEF Slots
<1>6. \A n \in Nat \ {0} : /\ Slot("ready", "service", n) \in Slots
                           /\ Slot("ready", "service", n).kind = "ready"
                           /\ Slot("ready", "service", n).at = "service"
                           /\ Slot("ready", "service", n).n = n
  BY SlotType
<1>7. from \in [Slots -> Slots]
  BY <1>5, <1>6
<1>8. ASSUME NEW s \in Slots
      PROVE  /\ s.kind = "ready" => /\ from[s].kind = "ready" /\ from[s].at = "service"
                                    /\ from[s].n = s.n + 1
             /\ s.kind = "render" /\ s.n = 1 => /\ from[s].kind = "ready" /\ from[s].at = "service"
                                                /\ from[s].n = 1
             /\ s.kind \notin {"ready", "render"} => from[s] = s
  BY <1>5, <1>6
<1> HIDE DEF from, first
<1>9. Moves(from, 0)
  <2>1. ASSUME NEW s \in Slots, NEW c \in 1..MaxCallbacks, Holds(s, c)'
        PROVE  Holds(from[s], c)
    BY <1>1, <1>3, <1>4, <1>8, <2>1, SameHolds DEF Holds
  <2> QED
    BY <2>1 DEF Moves
<1>10. Apart(from)
  <2>1. ASSUME NEW s \in Slots, NEW t \in Slots, NEW c \in 1..MaxCallbacks,
               Holds(s, c)', Holds(t, c)', Same(from[s], from[t])
        PROVE  Same(s, t)
    <3>1. /\ s.kind = "render" => s.n = 1 /\ s.at = "service"
          /\ t.kind = "render" => t.n = 1 /\ t.at = "service"
          /\ s.kind = "ready" => s.at = "service"
          /\ t.kind = "ready" => t.at = "service"
      BY <1>4, <2>1 DEF Holds
    <3>2. s.n + 1 = t.n + 1 => s.n = t.n
      BY <1>5
    <3>3. s.kind \in {"pending", "ready", "render", "loader"} /\ t.kind \in {"pending", "ready", "render", "loader"}
      BY DEF Slots
    <3>4. /\ from[s].kind = from[t].kind /\ from[s].at = from[t].at /\ from[s].n = from[t].n
      BY <2>1 DEF Same
    <3> QED
      BY <1>5, <1>8, <3>1, <3>2, <3>3, <3>4 DEF Same
  <2> QED
    BY <2>1 DEF Apart
<1> QED
  BY <1>1, <1>2, <1>7, <1>9, <1>10, Moved

LEMMA CallBackPlaces ==
    ASSUME Types, InOnePlace, UncalledOK, CallBack
    PROVE  InOnePlace' /\ UncalledOK'
<1>1. /\ loader' = loader /\ pending' = pending /\ completions' = completions
      /\ next_callback_id' = next_callback_id
  BY DEF CallBack, RenderStep
<1>2. render \in RenderType /\ render.callbacks \in Seq(Callback)
  BY DEF Types, RenderTypes, RenderType, Callbacks
<1>3. CASE render.callbacks = <<>>
  <2>1. render' = NotRendering /\ called' = called
    BY <1>3 DEF CallBack
  <2>2. \A n, c : ~InRender(n, c)'
    BY <2>1 DEF InRender, HasAt, NotRendering
  <2>3. Unchanged
    BY <1>1, <2>2, SameHolds DEF Unchanged
  <2> QED
    BY <1>1, <2>1, <2>3, StaysPut
<1>4. CASE render.callbacks # <<>>
  <2> DEFINE d == Head(render.callbacks).id
             h == Slot("render", "service", 1)
  <2>1. called' = [called EXCEPT ![d] = @ + 1] /\ render'.callbacks = Tail(render.callbacks)
    BY <1>2, <1>4 DEF CallBack, Call, RenderType
  <2>2. /\ \A n, c : HasAt(Tail(render.callbacks), n, c) => /\ n \in Nat \ {0}
                                                            /\ HasAt(render.callbacks, Behind[n], c)
        /\ HasAt(render.callbacks, 1, d) /\ d \in 1..MaxCallbacks
        /\ Behind \in [Nat \ {0} -> Nat \ {0}]
        /\ \A m, n \in Nat \ {0} : Behind[m] # 1 /\ (Behind[m] = Behind[n] => m = n)
    BY <1>2, <1>4, TailHolds
  <2>3. PICK from \in [Slots -> Slots] : Lifts(from, "render", "service", "render", "service", Behind)
    BY <2>2, Lifting
  <2>4. h \in Slots /\ h.kind = "render" /\ h.at = "service" /\ h.n = 1
    BY SlotType
  <2> HIDE DEF d, h
  <2>5. \A n, c : InRender(n, c)' => n \in Nat \ {0} /\ InRender(Behind[n], c)
    BY <2>1, <2>2 DEF InRender
  <2>6. Moves(from, 0)
    <3>1. ASSUME NEW s \in Slots, NEW c \in 1..MaxCallbacks, Holds(s, c)'
          PROVE  Holds(from[s], c)
      BY <1>1, <2>3, <2>5, <3>1, SameHolds DEF Holds, Lifts
    <3> QED
      BY <3>1 DEF Moves
  <2>7. \A s \in Slots : s.n \in Nat \ {0}
    BY DEF Slots
  <2>8. Apart(from)
    BY <2>2, <2>3, <2>7 DEF Apart, Lifts, Same
  <2>9. \A s \in Slots : \A c \in 1..MaxCallbacks : Holds(s, c)' => ~Same(from[s], h)
    BY <2>2, <2>3, <2>4, <2>7 DEF Lifts, Same, Holds
  <2>10. Holds(h, d)
    BY <2>2, <2>4 DEF Holds, InRender
  <2> QED
    BY <1>1, <2>1, <2>2, <2>4, <2>6, <2>8, <2>9, <2>10, MovedCalled
<1> QED
  BY <1>3, <1>4

LEMMA CallFailedPlaces ==
    ASSUME Types, InOnePlace, UncalledOK, NEW l \in Loaders, CallFailed(l)
    PROVE  InOnePlace' /\ UncalledOK'
<1>1. /\ render' = render /\ pending' = pending /\ completions' = completions
      /\ next_callback_id' = next_callback_id /\ loader[l].at = "calling"
  BY DEF CallFailed, state, queues
<1>2. /\ loader \in [Loaders -> LoaderType] /\ loader[l].callbacks \in Seq(Callback)
  BY DEF Types, LoaderTypes, LoaderType, Callbacks
<1>3. CASE loader[l].callbacks = <<>>
  <2>1. SetLoader(l, NotLoading) /\ called' = called
    BY <1>3 DEF CallFailed
  <2>2. loader'[l].at = "idle" /\ \A k \in Loaders : k # l => loader'[k] = loader[k]
    BY <1>2, <2>1 DEF SetLoader, NotLoading
  <2>3. Unchanged
    BY <1>1, <2>2, LoaderHolds, SameHolds DEF Unchanged
  <2> QED
    BY <1>1, <2>1, <2>3, StaysPut
<1>4. CASE loader[l].callbacks # <<>>
  <2> DEFINE d == Head(loader[l].callbacks).id
             h == Slot("loader", l, 1)
  <2>1. /\ called' = [called EXCEPT ![d] = @ + 1]
        /\ loader'[l].callbacks = Tail(loader[l].callbacks)
        /\ \A k \in Loaders : k # l => loader'[k] = loader[k]
    <3> DEFINE later == Tail(loader[l].callbacks)
               record == [loader[l] EXCEPT !.callbacks = later]
    <3>1. called' = [called EXCEPT ![d] = @ + 1]
      BY <1>4 DEF CallFailed, Call
    <3>2. SetLoader(l, record)
      BY <1>4 DEF CallFailed
    <3> HIDE DEF later
    <3>3. record.callbacks = later
      BY <1>2 DEF LoaderType
    <3> HIDE DEF record
    <3>4. loader'[l] = record /\ \A k \in Loaders : k # l => loader'[k] = loader[k]
      BY <1>2, <3>2 DEF SetLoader
    <3> QED
      BY <3>1, <3>3, <3>4 DEF later
  <2>2. /\ \A n, c : HasAt(Tail(loader[l].callbacks), n, c) =>
                        n \in Nat \ {0} /\ HasAt(loader[l].callbacks, Behind[n], c)
        /\ HasAt(loader[l].callbacks, 1, d) /\ d \in 1..MaxCallbacks
        /\ Behind \in [Nat \ {0} -> Nat \ {0}]
        /\ \A m, n \in Nat \ {0} : Behind[m] # 1 /\ (Behind[m] = Behind[n] => m = n)
    BY <1>2, <1>4, TailHolds
  <2>3. PICK from \in [Slots -> Slots] : Lifts(from, "loader", l, "loader", l, Behind)
    BY <2>2, Lifting
  <2>4. h \in Slots /\ h.kind = "loader" /\ h.at = l /\ h.n = 1
    BY SlotType
  <2> HIDE DEF d, h
  <2>5. /\ \A n, c : InLoader(l, n, c)' => n \in Nat \ {0} /\ InLoader(l, Behind[n], c)
        /\ \A k, n, c : k # l /\ InLoader(k, n, c)' => InLoader(k, n, c)
    <3>1. \A n, c : InLoader(l, n, c)' => n \in Nat \ {0} /\ InLoader(l, Behind[n], c)
      BY <1>1, <2>1, <2>2 DEF InLoader
    <3>2. \A k, n, c : k # l /\ InLoader(k, n, c)' => InLoader(k, n, c)
      BY <2>1, LoaderHolds
    <3> QED
      BY <3>1, <3>2
  <2>6. Moves(from, 0)
    <3>1. ASSUME NEW s \in Slots, NEW c \in 1..MaxCallbacks, Holds(s, c)'
          PROVE  Holds(from[s], c)
      BY <1>1, <2>3, <2>5, <3>1, SameHolds DEF Holds, Lifts
    <3> QED
      BY <3>1 DEF Moves
  <2>7. \A s \in Slots : s.n \in Nat \ {0}
    BY DEF Slots
  <2>8. Apart(from)
    BY <2>2, <2>3, <2>7 DEF Apart, Lifts, Same
  <2>9. \A s \in Slots : \A c \in 1..MaxCallbacks : Holds(s, c)' => ~Same(from[s], h)
    BY <2>2, <2>3, <2>4, <2>7 DEF Lifts, Same, Holds
  <2>10. Holds(h, d)
    BY <1>1, <2>2, <2>4 DEF Holds, InLoader
  <2> QED
    BY <1>1, <2>1, <2>2, <2>4, <2>6, <2>8, <2>9, <2>10, MovedCalled
<1> QED
  BY <1>3, <1>4

\* What a cleanup leaves of the requests' callbacks stood at places of its own.
LEMMA CleanPendingPlaces ==
    ASSUME Types, InOnePlace, UncalledOK, NEW o \in Addons, CleanPending(o)
    PROVE  InOnePlace' /\ UncalledOK'
<1>1. /\ loader' = loader /\ render' = render /\ completions' = completions
      /\ next_callback_id' = next_callback_id /\ called' = called
  BY DEF CleanPending, queues
<1>2. PICK dropped : Cleaned(o, dropped)
  BY CleanPendingFacts
<1>3. \A i \in DOMAIN pending' : /\ i \in DOMAIN pending
                                 /\ pending'[i].callbacks = Only(pending[i].callbacks, Others(o))
  BY <1>2, LeftFacts DEF Cleaned, Types
<1> DEFINE G == [i \in DOMAIN pending' |->
                    CHOOSE g : Origins(g, pending'[i].callbacks, pending[i].callbacks)]
<1>4. ASSUME NEW i \in DOMAIN pending'
      PROVE  Origins(G[i], pending'[i].callbacks, pending[i].callbacks) /\ i \in Identifiers
  <2>1. pending[i].callbacks \in Seq(Callback) /\ i \in Identifiers
    BY <1>3, Entry DEF Types, PendingTypes
  <2>2. \E g : Origins(g, pending'[i].callbacks, pending[i].callbacks)
    <3> DEFINE only == Only(pending[i].callbacks, Others(o))
    <3>1. \E g : Origins(g, only, pending[i].callbacks)
      BY <2>1, OnlyHolds
    <3>2. pending'[i].callbacks = only
      BY <1>3
    <3> QED
      BY <3>1, <3>2
  <2> QED
    BY <2>1, <2>2
<1> HIDE DEF G
<1> DEFINE from == [s \in Slots |-> IF s.kind = "pending" /\ s.at \in DOMAIN pending'
                                    THEN Slot("pending", s.at, G[s.at][s.n]) ELSE s]
<1>5. ASSUME NEW s \in Slots, s.kind = "pending", s.at \in DOMAIN pending'
      PROVE  LET t == Slot("pending", s.at, G[s.at][s.n])
             IN  /\ t \in Slots /\ t.kind = "pending" /\ t.at = s.at /\ t.n = G[s.at][s.n]
  <2> DEFINE m == G[s.at][s.n]
  <2>1. m \in Nat \ {0} /\ s.at \in Identifiers
    BY <1>4, <1>5 DEF Slots, Origins
  <2> HIDE DEF m
  <2>2. /\ Slot("pending", s.at, m) \in Slots /\ Slot("pending", s.at, m).kind = "pending"
        /\ Slot("pending", s.at, m).at = s.at /\ Slot("pending", s.at, m).n = m
    BY <2>1, SlotType
  <2> QED
    BY <2>2 DEF m
<1>6. from \in [Slots -> Slots]
  BY <1>5
<1>7. ASSUME NEW s \in Slots
      PROVE  IF s.kind = "pending" /\ s.at \in DOMAIN pending'
             THEN from[s].kind = "pending" /\ from[s].at = s.at /\ from[s].n = G[s.at][s.n]
             ELSE from[s] = s
  BY <1>5
<1> HIDE DEF from
<1>8. \A i, n, c : InPending(i, n, c)' => /\ i \in DOMAIN pending' /\ n \in DOMAIN pending'[i].callbacks
                                          /\ InPending(i, G[i][n], c)
  <2>1. ASSUME NEW i, NEW n, NEW c, InPending(i, n, c)'
        PROVE  /\ i \in DOMAIN pending' /\ n \in DOMAIN pending'[i].callbacks
               /\ InPending(i, G[i][n], c)
    <3>1. i \in DOMAIN pending' /\ n \in DOMAIN pending'[i].callbacks /\ pending'[i].callbacks[n].id = c
      BY <2>1 DEF InPending, HasAt
    <3>2. G[i][n] \in DOMAIN pending[i].callbacks
          /\ pending'[i].callbacks[n] = pending[i].callbacks[G[i][n]]
      BY <1>4, <3>1 DEF Origins
    <3> QED
      BY <1>3, <3>1, <3>2 DEF InPending, HasAt
  <2> QED
    BY <2>1
<1>9. Moves(from, 0)
  <2>1. ASSUME NEW s \in Slots, NEW c \in 1..MaxCallbacks, Holds(s, c)'
        PROVE  Holds(from[s], c)
    BY <1>1, <1>7, <1>8, <2>1, SameHolds DEF Holds
  <2> QED
    BY <2>1 DEF Moves
<1>10. Apart(from)
  <2>1. ASSUME NEW s \in Slots, NEW t \in Slots, NEW c \in 1..MaxCallbacks,
               Holds(s, c)', Holds(t, c)', Same(from[s], from[t])
        PROVE  Same(s, t)
    <3>1. CASE s.kind # "pending" \/ t.kind # "pending"
      BY <1>7, <2>1, <3>1 DEF Same
    <3>2. CASE s.kind = "pending" /\ t.kind = "pending"
      <4>1. /\ s.at \in DOMAIN pending' /\ s.n \in DOMAIN pending'[s.at].callbacks
            /\ t.at \in DOMAIN pending' /\ t.n \in DOMAIN pending'[t.at].callbacks
        BY <1>8, <2>1, <3>2 DEF Holds
      <4>2. s.at = t.at /\ G[s.at][s.n] = G[t.at][t.n]
        BY <1>7, <2>1, <3>2, <4>1 DEF Same
      <4>3. s.n = t.n
        BY <1>4, <4>1, <4>2 DEF Origins
      <4> QED
        BY <3>2, <4>2, <4>3 DEF Same
    <3> QED
      BY <3>1, <3>2
  <2> QED
    BY <2>1 DEF Apart
<1>11. next_callback_id \in Nat
  BY DEF Types, CounterTypes
<1> QED
  BY <1>1, <1>6, <1>9, <1>10, <1>11, Moved

LEMMA CleanReadyPlaces ==
    ASSUME Types, InOnePlace, UncalledOK, NEW o \in Addons, CleanReady(o)
    PROVE  InOnePlace' /\ UncalledOK'
<1>1. /\ loader' = loader /\ render' = render /\ pending' = pending
      /\ next_callback_id' = next_callback_id /\ called' = called
  BY DEF CleanReady, state, history
<1>2. PICK kept : completions' = Only(completions, kept)
  BY DEF CleanReady
<1>3. completions \in Seq(Completion) /\ next_callback_id \in Nat
  BY DEF Types, CompletionTypes, CounterTypes
<1>4. PICK g : Origins(g, completions', completions)
  BY <1>2, <1>3, OnlyHolds
<1>5. /\ g \in [Nat \ {0} -> Nat \ {0}]
      /\ \A n \in DOMAIN completions' : g[n] \in DOMAIN completions /\ completions'[n] = completions[g[n]]
      /\ \A m, n \in DOMAIN completions' : g[m] = g[n] => m = n
  BY <1>4 DEF Origins
<1>6. PICK from \in [Slots -> Slots] : Lifts(from, "ready", "service", "ready", "service", g)
  BY <1>5, Lifting
<1>7. \A n, c : InReady(n, c)' => n \in DOMAIN completions' /\ InReady(g[n], c)
  BY <1>5 DEF InReady
<1>8. Moves(from, 0)
  <2>1. ASSUME NEW s \in Slots, NEW c \in 1..MaxCallbacks, Holds(s, c)'
        PROVE  Holds(from[s], c)
    BY <1>1, <1>6, <1>7, <2>1, SameHolds DEF Holds, Lifts
  <2> QED
    BY <2>1 DEF Moves
<1>9. Apart(from)
  <2>1. ASSUME NEW s \in Slots, NEW t \in Slots, NEW c \in 1..MaxCallbacks,
               Holds(s, c)', Holds(t, c)', Same(from[s], from[t])
        PROVE  Same(s, t)
    <3>1. /\ s.kind = "ready" => s.n \in DOMAIN completions' /\ s.at = "service"
          /\ t.kind = "ready" => t.n \in DOMAIN completions' /\ t.at = "service"
      BY <1>7, <2>1 DEF Holds
    <3> QED
      BY <1>5, <1>6, <2>1, <3>1 DEF Lifts, Same
  <2> QED
    BY <2>1 DEF Apart
<1> QED
  BY <1>1, <1>3, <1>6, <1>8, <1>9, Moved

\* Every step keeps each callback in one place.
LEMMA PlacesKept ==
    ASSUME Types, InOnePlace, UncalledOK, [Next]_vars
    PROVE  InOnePlace' /\ UncalledOK'
<1>1. ASSUME NEW l \in Loaders, Submit(l) PROVE InOnePlace' /\ UncalledOK'
  BY <1>1, LoadPlaces DEF Submit
<1>2. ASSUME NEW l \in Loaders, NEW w \in Workers, QueueResolved(l, w) PROVE InOnePlace' /\ UncalledOK'
  <2>1. /\ UNCHANGED <<pending, completions, render, called, next_callback_id>>
        /\ loader'[l].at = "idle" /\ \A k \in Loaders : k # l => loader'[k] = loader[k]
    BY <1>2 DEF QueueResolved, SetLoader, NotLoading, state, history, Types, LoaderTypes
  <2>2. Unchanged
    BY <2>1, LoaderHolds, SameHolds DEF Unchanged
  <2> QED
    BY <2>1, <2>2, StaysPut
<1>3. ASSUME NEW w \in Workers, Deliver(w) PROVE InOnePlace' /\ UncalledOK'
  <2>1. UNCHANGED <<pending, loader, render, called, next_callback_id>>
    BY <1>3 DEF Deliver, state, history
  <2>2. PICK ok \in BOOLEAN : completions' = Append(completions, Decoded(worker[w], ok))
    BY <1>3 DEF Deliver
  <2> DEFINE e == Decoded(worker[w], ok)
  <2>3. ~IsReady(e) /\ completions' = Append(completions, e)
    BY <2>2 DEF Decoded, IsReady
  <2> HIDE DEF e
  <2>4. \A n \in DOMAIN completions' : (n \in DOMAIN completions /\ completions'[n] = completions[n])
                                       \/ completions'[n] = e
    BY <2>3 DEF Types, CompletionTypes
  <2>5. \A n, c : InReady(n, c)' => InReady(n, c)
    BY <2>3, <2>4 DEF InReady
  <2>6. Unchanged
    BY <2>1, <2>5, SameHolds DEF Unchanged
  <2> QED
    BY <2>1, <2>6, StaysPut
<1>4. ASSUME Upload PROVE InOnePlace' /\ UncalledOK'
  <2>1. UNCHANGED <<pending, loader, completions, called, next_callback_id>>
    BY <1>4 DEF Upload, RenderStep
  <2>2. render'.callbacks = render.callbacks
    BY <1>4 DEF Upload, Types, RenderTypes, RenderType
  <2>3. Unchanged
    BY <2>1, <2>2, SameHolds DEF Unchanged, InRender, HasAt
  <2> QED
    BY <2>1, <2>3, StaysPut
<1>5. ASSUME UNCHANGED <<pending, loader, completions, render, called, next_callback_id>>
      PROVE  InOnePlace' /\ UncalledOK'
  BY <1>5, SameHolds, StaysPut DEF Unchanged
<1>6. ASSUME (\E w \in Workers : Take(w)) \/ Stop \/ UNCHANGED vars
      PROVE  InOnePlace' /\ UncalledOK'
  BY <1>5, <1>6 DEF Take, Stop, vars, state, queues, threads, history
<1> QED
  BY <1>1, <1>2, <1>3, <1>4, <1>6, PushCachedPlaces, FailReservedPlaces, CallFailedPlaces,
     PopPlaces, FinishPlaces, CallBackPlaces, CleanPendingPlaces, CleanReadyPlaces
     DEF Next, LoaderStep, Advance
-----------------------------------------------------------------------------
(* The invariant and what follows from it. *)

LEMMA InitTypes == Init => Types
<1> SUFFICES ASSUME Init PROVE Types
  OBVIOUS
<1>1. registry = <<>> /\ pending = <<>> /\ DOMAIN registry = {} /\ DOMAIN pending = {}
  BY DEF Init
<1>2. RegistryTypes /\ PendingTypes
  <2> DEFINE V == Requests
             F == InFlight
  <2> HIDE DEF V, F
  <2>1. registry \in [DOMAIN registry -> V] /\ pending \in [DOMAIN pending -> F]
    BY <1>1
  <2> QED
    BY <1>1, <2>1, RegistryFacts DEF RegistryTypes, PendingTypes, InFlights, V, F
<1>3. CounterTypes /\ JobTypes /\ CompletionTypes
  BY Constants DEF Init, CounterTypes, JobTypes, CompletionTypes
<1>4. loader = [l \in Loaders |-> NotLoading] /\ render = NotRendering
  BY DEF Init
<1>5. LoaderOK(NotLoading) /\ RenderOK(NotRendering)
  BY DEF LoaderOK, RenderOK, NotLoading, NotRendering
<1>6. LoaderTypes /\ RenderTypes
  BY <1>4, <1>5, Resting DEF LoaderTypes, RenderTypes
<1>7. ThreadTypes /\ HistoryTypes
  BY DEF Init, ThreadTypes, HistoryTypes
<1> QED
  BY <1>2, <1>3, <1>6, <1>7 DEF Types

LEMMA InitOK == Init => IInv
<1> SUFFICES ASSUME Init PROVE IInv
  OBVIOUS
<1>1. TypeOK /\ ProcessesOK
  BY InitTypes, TypeParts
<1>2. /\ DOMAIN registry = {} /\ DOMAIN pending = {} /\ DOMAIN completions = {}
      /\ named = {} /\ created = {} /\ cancelled = {} /\ quiet = {}
  BY DEF Init
<1>3. RegistryOK
  BY <1>2, FS_EmptySet DEF RegistryOK, NamesOK, ImagesOK, Leads
<1>4. DOMAIN render.callbacks = {} /\ \A l \in Loaders : loader[l].at = "idle"
  BY DEF Init, NotRendering, NotLoading
<1>5. \A s \in Slots : \A c : ~Holds(s, c)
  BY <1>2, <1>4 DEF Holds, InPending, InReady, InRender, InLoader, HasAt
<1>6. InOnePlace
  BY <1>5 DEF InOnePlace
<1>7. \A c \in 1..MaxCallbacks : called[c] = 0
  BY DEF Init
<1>8. UncalledOK
  BY <1>5, <1>7 DEF UncalledOK
<1>9. QuietOK
  BY <1>2 DEF QuietOK
<1> QED
  BY <1>1, <1>3, <1>6, <1>8, <1>9 DEF IInv

LEMMA Inductive == Spec => []IInv
<1>1. IInv /\ [Next]_vars => IInv'
  <2> SUFFICES ASSUME IInv, [Next]_vars PROVE IInv'
    OBVIOUS
  <2>1. Types
    BY TypeParts DEF IInv
  <2>2. Types' /\ RegistryOK' /\ InOnePlace' /\ UncalledOK' /\ QuietOK'
    BY <2>1, TypesKept, RegistryKept, PlacesKept, QuietKept DEF IInv
  <2>3. Types' => TypeOK' /\ ProcessesOK'
    BY TypeParts, PTL
  <2> QED
    BY <2>2, <2>3 DEF IInv
<1> QED
  BY <1>1, InitOK, PTL DEF Spec

\* The registry, the queues, the loads, the workers and advance hold what they
\* should; neither queue of the service outgrows its capacity, and no request
\* gathers more callbacks than max_callbacks_per_texture.
THEOREM TypeCorrect == Spec => []TypeOK
<1>1. IInv => TypeOK
  BY DEF IInv
<1> QED
  BY <1>1, Inductive, PTL

\* What waits somewhere occupies a slot.
LEMMA WaitingHolds ==
    ASSUME Types
    PROVE  /\ \A c \in Pending : c \in 1..MaxCallbacks
                                 /\ \E s \in Slots : s.kind = "pending" /\ Holds(s, c)
           /\ \A c \in ReadyToCall : c \in 1..MaxCallbacks
                                     /\ \E s \in Slots : s.kind = "ready" /\ Holds(s, c)
           /\ \A c \in Dispatched : c \in 1..MaxCallbacks
                                    /\ \E s \in Slots : s.kind \in {"render", "loader"} /\ Holds(s, c)
<1>1. \A cs \in Seq(Callback) : \A c \in WaitingIn(cs) :
          c \in 1..MaxCallbacks /\ \E n \in Nat \ {0} : HasAt(cs, n, c)
  <2>1. ASSUME NEW cs \in Seq(Callback), NEW c \in WaitingIn(cs)
        PROVE  c \in 1..MaxCallbacks /\ \E n \in Nat \ {0} : HasAt(cs, n, c)
    <3>1. PICK n \in DOMAIN cs : c = cs[n].id
      BY DEF WaitingIn
    <3>2. cs[n] \in Callback /\ n \in Nat \ {0}
      OBVIOUS
    <3>3. c \in 1..MaxCallbacks
      BY <3>1, <3>2 DEF Callback
    <3> QED
      BY <3>1, <3>2, <3>3 DEF HasAt
  <2> QED
    BY <2>1
<1>2. ASSUME NEW c \in Pending
      PROVE  c \in 1..MaxCallbacks /\ \E s \in Slots : s.kind = "pending" /\ Holds(s, c)
  <2>1. PICK i \in DOMAIN pending : c \in WaitingIn(pending[i].callbacks)
    BY DEF Pending
  <2>2. pending[i].callbacks \in Seq(Callback) /\ i \in Identifiers
    BY Entry DEF Types, PendingTypes
  <2>3. PICK n \in Nat \ {0} : HasAt(pending[i].callbacks, n, c)
    BY <1>1, <2>1, <2>2
  <2>4. /\ Slot("pending", i, n) \in Slots /\ Slot("pending", i, n).kind = "pending"
        /\ Slot("pending", i, n).at = i /\ Slot("pending", i, n).n = n
    BY <2>2, SlotType
  <2>5. Holds(Slot("pending", i, n), c)
    BY <2>3, <2>4 DEF Holds, InPending
  <2> QED
    BY <1>1, <2>1, <2>2, <2>4, <2>5
<1>3. ASSUME NEW c \in ReadyToCall
      PROVE  c \in 1..MaxCallbacks /\ \E s \in Slots : s.kind = "ready" /\ Holds(s, c)
  <2>1. PICK n \in DOMAIN completions : IsReady(completions[n]) /\ completions[n].callback.id = c
    BY DEF ReadyToCall, Elements
  <2>2. completions[n] \in Completion /\ n \in Nat \ {0}
    BY DEF Types, CompletionTypes
  <2>3. completions[n].callback \in Callback
    BY <2>1, <2>2 DEF Completion, IsReady
  <2>4. c \in 1..MaxCallbacks
    BY <2>1, <2>3 DEF Callback
  <2>5. /\ Slot("ready", "service", n) \in Slots /\ Slot("ready", "service", n).kind = "ready"
        /\ Slot("ready", "service", n).at = "service" /\ Slot("ready", "service", n).n = n
    BY <2>2, SlotType
  <2>6. Holds(Slot("ready", "service", n), c)
    BY <2>1, <2>5 DEF Holds, InReady
  <2> QED
    BY <2>4, <2>5, <2>6
<1>4. ASSUME NEW c \in Dispatched
      PROVE  /\ c \in 1..MaxCallbacks
             /\ \E s \in Slots : s.kind \in {"render", "loader"} /\ Holds(s, c)
  <2>1. CASE c \in WaitingIn(render.callbacks)
    <3>1. render.callbacks \in Seq(Callback)
      BY DEF Types, RenderTypes, RenderType, Callbacks
    <3>2. PICK n \in Nat \ {0} : HasAt(render.callbacks, n, c)
      BY <1>1, <2>1, <3>1
    <3>3. /\ Slot("render", "service", n) \in Slots /\ Slot("render", "service", n).kind = "render"
          /\ Slot("render", "service", n).at = "service" /\ Slot("render", "service", n).n = n
      BY SlotType
    <3>4. Holds(Slot("render", "service", n), c)
      BY <3>2, <3>3 DEF Holds, InRender
    <3> QED
      BY <1>1, <2>1, <3>1, <3>3, <3>4
  <2>2. CASE c \notin WaitingIn(render.callbacks)
    <3>1. PICK l \in Loaders : loader[l].at = "calling" /\ c \in WaitingIn(loader[l].callbacks)
      BY <2>2 DEF Dispatched
    <3>2. loader[l].callbacks \in Seq(Callback)
      BY DEF Types, LoaderTypes, LoaderType, Callbacks
    <3>3. PICK n \in Nat \ {0} : HasAt(loader[l].callbacks, n, c)
      BY <1>1, <3>1, <3>2
    <3>4. /\ Slot("loader", l, n) \in Slots /\ Slot("loader", l, n).kind = "loader"
          /\ Slot("loader", l, n).at = l /\ Slot("loader", l, n).n = n
      BY SlotType
    <3>5. Holds(Slot("loader", l, n), c)
      BY <3>1, <3>3, <3>4 DEF Holds, InLoader
    <3> QED
      BY <1>1, <3>1, <3>2, <3>4, <3>5
  <2> QED
    BY <2>1, <2>2
<1> QED
  BY <1>2, <1>3, <1>4

\* dispatch_callback calls what advance, a failed load or a cached texture takes
\* out of the service once at most, whoever loads, fails and cleans up meanwhile:
\* wherever a callback waits, it waits there only.
THEOREM CallbacksOnce == Spec => []CalledOnce
<1>1. IInv => CalledOnce
  <2> SUFFICES ASSUME IInv PROVE CalledOnce
    OBVIOUS
  <2>1. Types /\ InOnePlace /\ UncalledOK
    BY TypeParts DEF IInv
  <2>2. \A c \in 1..MaxCallbacks : called[c] <= 1
    BY <2>1 DEF UncalledOK
  <2>3. ASSUME NEW c \in Pending \cup ReadyToCall \cup Dispatched PROVE called[c] = 0
    <3>1. c \in 1..MaxCallbacks /\ \E s \in Slots : Holds(s, c)
      BY <2>1, WaitingHolds
    <3> QED
      BY <2>1, <3>1 DEF UncalledOK
  <2>4. ASSUME NEW c, c \in Pending, c \in ReadyToCall PROVE FALSE
    BY <2>1, <2>4, WaitingHolds DEF InOnePlace, Same
  <2>5. ASSUME NEW c, c \in Dispatched, c \in Pending \cup ReadyToCall PROVE FALSE
    BY <2>1, <2>5, WaitingHolds DEF InOnePlace, Same
  <2> QED
    BY <2>2, <2>3, <2>4, <2>5 DEF CalledOnce
<1> QED
  BY <1>1, Inductive, PTL

\* cleanup_owner_generation leaves no request and no ready callback of the addon,
\* although it takes two critical sections between which advance, the workers and
\* the loads of others go on.
THEOREM CleanupIsComplete == Spec => []CleanedUpIsGone
<1>1. IInv => CleanedUpIsGone
  BY DEF IInv, QuietOK, CleanedUpIsGone, Gone, NoneOf, NoneReady
<1> QED
  BY <1>1, Inductive, PTL

\* A request that fail_reserved, a failed upload or a cleanup gave up reaches the
\* registry no more, although its job is queued, decoded or uploaded.
THEOREM CancelledStaysOut == Spec => []CancelledNeverRegistered
<1>1. IInv => CancelledNeverRegistered
  BY DEF IInv, RegistryOK, ImagesOK, CancelledNeverRegistered, Registered
<1> QED
  BY <1>1, Inductive, PTL

\* shadow_texture and restore_shadow move textures between names and lose none.
THEOREM TexturesStay == Spec => []TexturesAreKept
<1>1. IInv => TexturesAreKept
  BY DEF IInv, RegistryOK, ImagesOK, TexturesAreKept, Registered
<1> QED
  BY <1>1, Inductive, PTL

\* A loaded name resolves or is loaded again: restore_shadow gives it back before
\* anybody can ask for it.
THEOREM NamesResolve == Spec => []NamesKeepResolving
<1>1. IInv => NamesKeepResolving
  BY DEF IInv, RegistryOK, NamesOK, NamesKeepResolving
<1> QED
  BY <1>1, Inductive, PTL
=============================================================================
