-------------------------- MODULE ZnsManager_proofs --------------------------
(***************************************************************************)
(* Proofs about ZnsManager, for every number of devices, zones, sizes and  *)
(* strategies.                                                             *)
(***************************************************************************)
EXTENDS ZnsManager, FiniteSetTheorems, NaturalsInduction, WellFoundedInduction, TLAPS

-----------------------------------------------------------------------------
(* Numbers.                                                                *)

\* A set of naturals that is not empty has a least element.
LEMMA NatMin ==
  ASSUME NEW T, T \subseteq Nat, T # {}
  PROVE  \E x \in T : \A y \in T : x <= y
<1>1. \E x \in T : \A y \in T : ~ (<<y, x>> \in OpToRel(<, Nat))
  BY NatLessThanWellFounded, WFMin
<1>2. \A x, y \in Nat : y < x => <<y, x>> \in OpToRel(<, Nat)
  BY Zenon DEF OpToRel
<1>3. \E R : /\ \E x \in T : \A y \in T : <<y, x>> \notin R
             /\ \A x, y \in Nat : y < x => <<y, x>> \in R
  BY <1>1, <1>2, Zenon
<1>4. PICK R : /\ \E x \in T : \A y \in T : <<y, x>> \notin R
               /\ \A x, y \in Nat : y < x => <<y, x>> \in R
  BY <1>3, Zenon
<1>5. PICK x \in T : \A y \in T : <<y, x>> \notin R
  BY <1>4, Zenon
<1>6. ASSUME NEW y \in T PROVE ~(y < x)
  BY <1>4, <1>5, Zenon
<1>7. ASSUME NEW y \in T PROVE x <= y
  <2>1. x \in Nat /\ y \in Nat /\ ~(y < x)
    BY <1>6
  <2> QED
    BY <2>1
<1> QED
  BY <1>7

LEMMA MinIs ==
  ASSUME NEW T, T \subseteq Nat, T # {}
  PROVE  Min(T) \in T
BY NatMin DEF Min

\* Induction, over the numbers that have a property.
LEMMA NatInd ==
  ASSUME NEW T, T \subseteq Nat, 0 \in T, \A n \in T : n + 1 \in T
  PROVE  T = Nat
<1> SUFFICES ASSUME Nat \ T # {} PROVE FALSE
  OBVIOUS
<1>1. PICK x \in Nat \ T : \A y \in Nat \ T : x <= y
  BY NatMin
<1>2. x # 0 /\ x - 1 \in Nat /\ x = (x - 1) + 1 /\ ~(x <= x - 1)
  BY <1>1
<1>3. x - 1 \in T
  BY <1>1, <1>2
<1> QED
  BY <1>1, <1>2, <1>3

-----------------------------------------------------------------------------
(* The numbers of zones divide HintCycle; that it is positive is enough.   *)

IsFactorial(f, N) == f = [n \in 0..N |-> IF n = 0 THEN 1 ELSE n * f[n - 1]]

LEMMA FactorialExists ==
  ASSUME NEW N \in Nat
  PROVE  \E f : IsFactorial(f, N)
<1> DEFINE T == {k \in Nat : \E f : IsFactorial(f, k)}
<1>1. 0 \in T
  <2>1. IsFactorial([n \in 0..0 |-> 1], 0)
    BY DEF IsFactorial
  <2> QED
    BY <2>1
<1>2. ASSUME NEW k \in T PROVE k + 1 \in T
  <2>1. PICK f : IsFactorial(f, k)
    OBVIOUS
  <2> DEFINE g == [n \in 0..(k + 1) |-> IF n <= k THEN f[n] ELSE (k + 1) * f[k]]
  <2>2. ASSUME NEW n \in 0..(k + 1)
        PROVE  g[n] = IF n = 0 THEN 1 ELSE n * g[n - 1]
    <3>1. CASE n = 0
      BY <3>1, <2>1 DEF IsFactorial
    <3>2. CASE n # 0 /\ n <= k
      BY <3>2, <2>1 DEF IsFactorial
    <3>3. CASE n = k + 1
      BY <3>3
    <3> QED
      BY <3>1, <3>2, <3>3
  <2>3. IsFactorial(g, k + 1)
    BY <2>2 DEF IsFactorial
  <2> HIDE DEF g
  <2> QED
    BY <2>3
<1>3. T \subseteq Nat
  OBVIOUS
<1> HIDE DEF T
<1>4. N \in T
  BY <1>1, <1>2, <1>3, NatInd
<1> QED
  BY <1>4 DEF T

LEMMA HintCyclePositive == HintCycle \in Nat /\ HintCycle > 0
<1>0. AllZones \in Nat
  BY ZnsAssumption
<1>1. \E f : f = [n \in 0..AllZones |-> IF n = 0 THEN 1 ELSE n * f[n - 1]]
  BY <1>0, FactorialExists DEF IsFactorial
<1> DEFINE factorial[n \in 0..AllZones] == IF n = 0 THEN 1 ELSE n * factorial[n - 1]
<1>2. factorial = [n \in 0..AllZones |-> IF n = 0 THEN 1 ELSE n * factorial[n - 1]]
  BY <1>1, Zenon
<1>3. HintCycle = factorial[AllZones]
  BY Zenon DEF HintCycle
<1> HIDE DEF factorial
<1> DEFINE T == {n \in Nat : n <= AllZones => factorial[n] \in Nat /\ factorial[n] > 0}
<1>4. 0 \in T
  BY <1>0, <1>2
<1>5. ASSUME NEW n \in T PROVE n + 1 \in T
  <2> SUFFICES ASSUME n + 1 <= AllZones
               PROVE  factorial[n + 1] \in Nat /\ factorial[n + 1] > 0
    OBVIOUS
  <2>1. n + 1 \in 0..AllZones /\ n + 1 # 0 /\ (n + 1) - 1 = n /\ n <= AllZones
    BY <1>0
  <2>2. factorial[n + 1] = (n + 1) * factorial[n]
    BY <1>2, <2>1
  <2>3. factorial[n] \in Nat /\ factorial[n] > 0
    BY <2>1
  <2>4. \A a, b \in Nat : a > 0 /\ b > 0 => a * b \in Nat /\ a * b > 0
    OBVIOUS
  <2> HIDE DEF T
  <2> QED
    BY <2>1, <2>2, <2>3, <2>4
<1>6. T \subseteq Nat
  OBVIOUS
<1> HIDE DEF T
<1>7. AllZones \in T
  BY <1>0, <1>4, <1>5, <1>6, NatInd
<1> QED
  BY <1>3, <1>7 DEF T

-----------------------------------------------------------------------------
(* Alignment.                                                              *)

\* A size is rounded up to a multiple of the alignment.
LEMMA AlignedSize ==
  ASSUME NEW n \in Nat
  PROVE  /\ align_size(n) \in Nat
         /\ n <= align_size(n)
         /\ \A m \in Nat : m % WriteAlignment = 0 => (m + align_size(n)) % WriteAlignment = 0
<1>0. WriteAlignment \in Nat /\ WriteAlignment > 0
  BY ZnsAssumption
<1> DEFINE q == (n + WriteAlignment - 1) \div WriteAlignment
           r == (n + WriteAlignment - 1) % WriteAlignment
<1>1. n + WriteAlignment - 1 \in Nat
  BY <1>0
<1>2. q \in Nat /\ r \in 0..(WriteAlignment - 1) /\ n + WriteAlignment - 1 = q * WriteAlignment + r
  BY <1>0, <1>1
<1>3. align_size(n) = q * WriteAlignment
  BY DEF align_size
<1> HIDE DEF q, r
<1>4. q * WriteAlignment \in Nat
  BY <1>0, <1>2
<1>5. ASSUME NEW m \in Nat, m % WriteAlignment = 0
      PROVE  (m + q * WriteAlignment) % WriteAlignment = 0
  <2>1. PICK k \in Nat : m = k * WriteAlignment
    <3>1. m \div WriteAlignment \in Nat /\ m = (m \div WriteAlignment) * WriteAlignment
      BY <1>0, <1>5
    <3> QED
      BY <3>1
  <2>2. m + q * WriteAlignment = (k + q) * WriteAlignment
    BY <2>1, <1>0, <1>2
  <2>3. ((k + q) * WriteAlignment) % WriteAlignment = 0
    BY <2>1, <1>0, <1>2
  <2> QED
    BY <2>2, <2>3
<1> QED
  BY <1>0, <1>1, <1>2, <1>3, <1>4, <1>5

-----------------------------------------------------------------------------
(* Dropping a zone from a list.                                            *)

drop(kept, i, id) == IF i = id THEN kept ELSE Append(kept, i)

IsWithout(f, ids, id, N) ==
  f = [n \in 0..N |-> IF n = 0 THEN <<>> ELSE drop(f[n - 1], ids[n], id)]

LEMMA WithoutExists ==
  ASSUME NEW ids, NEW id, NEW N \in Nat
  PROVE  \E f : IsWithout(f, ids, id, N)
<1> DEFINE T == {k \in Nat : \E f : IsWithout(f, ids, id, k)}
<1>1. 0 \in T
  <2>1. IsWithout([n \in 0..0 |-> <<>>], ids, id, 0)
    BY DEF IsWithout
  <2> QED
    BY <2>1
<1>2. ASSUME NEW k \in T PROVE k + 1 \in T
  <2>1. PICK f : IsWithout(f, ids, id, k)
    OBVIOUS
  <2> DEFINE g == [n \in 0..(k + 1) |-> IF n <= k THEN f[n] ELSE drop(f[k], ids[k + 1], id)]
  <2>2. ASSUME NEW n \in 0..(k + 1)
        PROVE  g[n] = IF n = 0 THEN <<>> ELSE drop(g[n - 1], ids[n], id)
    <3>1. CASE n = 0
      BY <3>1, <2>1 DEF IsWithout
    <3>2. CASE n # 0 /\ n <= k
      BY <3>2, <2>1 DEF IsWithout
    <3>3. CASE n = k + 1
      BY <3>3
    <3> QED
      BY <3>1, <3>2, <3>3
  <2>3. IsWithout(g, ids, id, k + 1)
    BY <2>2 DEF IsWithout
  <2> HIDE DEF g
  <2> QED
    BY <2>3
<1>3. T \subseteq Nat
  OBVIOUS
<1> HIDE DEF T
<1>4. N \in T
  BY <1>1, <1>2, <1>3, NatInd
<1> QED
  BY <1>4 DEF T

\* What going through N zones does, a zone at a time.
Drops(f, ids, id, N) ==
  f[0] = <<>> /\ \A n \in 1..N : f[n] = drop(f[n - 1], ids[n], id)

LEMMA WithoutFunction ==
  ASSUME NEW ids, NEW id, NEW N, N \in Nat, N = Len(ids)
  PROVE  \E f : Drops(f, ids, id, N) /\ Without(ids, id) = f[N]
<1>1. \E f : IsWithout(f, ids, id, N)
  BY WithoutExists
<1>2. \E f : f = [n \in 0..N |->
                  IF n = 0 THEN <<>>
                  ELSE IF ids[n] = id THEN f[n - 1] ELSE Append(f[n - 1], ids[n])]
  BY <1>1, Zenon DEF IsWithout, drop
<1> DEFINE kept[n \in 0..N] ==
             IF n = 0 THEN <<>>
             ELSE IF ids[n] = id THEN kept[n - 1] ELSE Append(kept[n - 1], ids[n])
<1>3. kept = [n \in 0..N |->
                IF n = 0 THEN <<>>
                ELSE IF ids[n] = id THEN kept[n - 1] ELSE Append(kept[n - 1], ids[n])]
  BY <1>2, Zenon
<1>4. Without(ids, id) = kept[N]
  BY Zenon DEF Without
<1> HIDE DEF kept
<1>5. kept = [n \in 0..N |-> IF n = 0 THEN <<>> ELSE drop(kept[n - 1], ids[n], id)]
  BY <1>3, Zenon DEF drop
<1>6. Drops(kept, ids, id, N)
  BY <1>5 DEF Drops
<1> QED
  BY <1>4, <1>6

\* The list s is what is left of the first n zones of ids without id.
IsLeft(s, ids, id, n, S) ==
  /\ s \in Seq(S)
  /\ Len(s) <= n
  /\ \A k \in 1..Len(s) : s[k] # id /\ \E m \in 1..n : s[k] = ids[m]
  /\ \A m \in 1..n : ids[m] # id => \E k \in 1..Len(s) : s[k] = ids[m]
  /\ \A j, k \in 1..Len(s) : s[j] = s[k] => j = k

\* A list without one of its zones has the other zones, each once.
LEMMA WithoutIs ==
  ASSUME NEW S, NEW ids \in Seq(S), NEW id, IsInjective(ids)
  PROVE  /\ Without(ids, id) \in Seq(S)
         /\ IsInjective(Without(ids, id))
         /\ ToSet(Without(ids, id)) = ToSet(ids) \ {id}
         /\ Len(Without(ids, id)) <= Len(ids)
<1> DEFINE N == Len(ids)
<1>1. /\ N \in Nat /\ N = Len(ids) /\ \A n \in 1..N : ids[n] \in S
      /\ \A m, n \in 1..N : ids[m] = ids[n] => m = n
  BY DEF IsInjective
<1>0. N \in Nat /\ N = Len(ids)
  OBVIOUS
<1>2. PICK f : Drops(f, ids, id, N) /\ Without(ids, id) = f[N]
  BY <1>0, WithoutFunction
<1> HIDE DEF N
<1> DEFINE T == {n \in Nat : n <= N => IsLeft(f[n], ids, id, n, S)}
<1>3. 0 \in T
  <2>1. f[0] = <<>>
    BY <1>2 DEF Drops
  <2>2. IsLeft(<<>>, ids, id, 0, S)
    BY DEF IsLeft
  <2> QED
    BY <2>1, <2>2
<1>4. ASSUME NEW n \in T PROVE n + 1 \in T
  <2> SUFFICES ASSUME n + 1 <= N PROVE IsLeft(f[n + 1], ids, id, n + 1, S)
    OBVIOUS
  <2>1. n \in Nat /\ (n + 1) - 1 = n /\ n + 1 \in 1..N /\ n <= N
    BY <1>1
  <2>2. f[n + 1] = drop(f[n], ids[n + 1], id)
    BY <1>2, <2>1 DEF Drops
  <2>3. IsLeft(f[n], ids, id, n, S) /\ ids[n + 1] \in S
    BY <2>1, <1>1
  <2>4. CASE ids[n + 1] = id
    BY <2>1, <2>2, <2>3, <2>4 DEF IsLeft, drop
  <2>5. CASE ids[n + 1] # id
    <3> DEFINE s == f[n]
               t == Append(s, ids[n + 1])
    <3>1. /\ f[n + 1] = t
          /\ t \in Seq(S) /\ Len(t) = Len(s) + 1 /\ t[Len(s) + 1] = ids[n + 1]
          /\ \A k \in 1..Len(s) : t[k] = s[k]
          /\ Len(s) \in Nat
      BY <2>2, <2>3, <2>5 DEF IsLeft, drop
    <3>2. IsLeft(s, ids, id, n, S)
      BY <2>3
    <3> HIDE DEF s, t
    <3>3. \A k \in 1..Len(t) : k \in 1..Len(s) \/ k = Len(s) + 1
      BY <3>1
    <3>4. ASSUME NEW k \in 1..Len(t) PROVE t[k] # id /\ \E m \in 1..(n + 1) : t[k] = ids[m]
      <4>1. CASE k \in 1..Len(s)
        <5>1. t[k] = s[k] /\ s[k] # id
          BY <4>1, <3>1, <3>2 DEF IsLeft
        <5>2. PICK m \in 1..n : s[k] = ids[m]
          BY <4>1, <3>2 DEF IsLeft
        <5>3. m \in 1..(n + 1)
          BY <2>1
        <5> QED
          BY <5>1, <5>2, <5>3
      <4>2. CASE k = Len(s) + 1
        <5>1. n + 1 \in 1..(n + 1)
          BY <2>1
        <5> QED
          BY <4>2, <5>1, <3>1, <2>5
      <4> QED
        BY <4>1, <4>2, <3>3
    <3>5. ASSUME NEW m \in 1..(n + 1), ids[m] # id PROVE \E k \in 1..Len(t) : t[k] = ids[m]
      <4>1. CASE m \in 1..n
        <5>1. PICK k \in 1..Len(s) : s[k] = ids[m]
          BY <4>1, <3>2, <3>5 DEF IsLeft
        <5>2. k \in 1..Len(t) /\ t[k] = s[k]
          BY <3>1
        <5> QED
          BY <5>1, <5>2
      <4>2. CASE m = n + 1
        <5>1. Len(s) + 1 \in 1..Len(t)
          BY <3>1
        <5> QED
          BY <4>2, <5>1, <3>1
      <4> QED
        BY <4>1, <4>2, <2>1
    <3>6. \A k \in 1..Len(s) : s[k] # ids[n + 1]
      BY <3>2, <2>1, <1>1 DEF IsLeft
    <3>7. \A j, k \in 1..Len(t) : t[j] = t[k] => j = k
      BY <3>1, <3>2, <3>3, <3>6 DEF IsLeft
    <3> QED
      BY <3>1, <3>2, <3>4, <3>5, <3>7, <2>1 DEF IsLeft
  <2> QED
    BY <2>4, <2>5
<1>5. T \subseteq Nat
  OBVIOUS
<1> HIDE DEF T
<1>6. N \in T
  BY <1>1, <1>3, <1>4, <1>5, NatInd
<1>7. IsLeft(f[N], ids, id, N, S)
  BY <1>1, <1>6 DEF T
<1>8. ToSet(ids) = {ids[m] : m \in 1..N}
  BY <1>1 DEF ToSet
<1>9. ToSet(f[N]) = {f[N][k] : k \in 1..Len(f[N])} /\ DOMAIN f[N] = 1..Len(f[N])
  BY <1>7 DEF ToSet, IsLeft
<1> DEFINE s == f[N]
<1>10. IsLeft(s, ids, id, N, S) /\ DOMAIN s = 1..Len(s) /\ Without(ids, id) = s
  BY <1>2, <1>7, <1>9
<1>11. ToSet(s) = ToSet(ids) \ {id}
  <2>1. ToSet(s) = {s[k] : k \in 1..Len(s)}
    BY <1>9
  <2> HIDE DEF s
  <2> QED
    BY <1>8, <1>10, <2>1 DEF IsLeft
<1> HIDE DEF s
<1>12. IsInjective(s)
  BY <1>10 DEF IsLeft, IsInjective
<1> QED
  BY <1>0, <1>10, <1>11, <1>12 DEF IsLeft

\* A list with a zone more that it did not have.
LEMMA WithOneMore ==
  ASSUME NEW S, NEW ids \in Seq(S), NEW id \in S, IsInjective(ids), id \notin ToSet(ids)
  PROVE  /\ Append(ids, id) \in Seq(S)
         /\ IsInjective(Append(ids, id))
         /\ ToSet(Append(ids, id)) = ToSet(ids) \union {id}
         /\ Len(Append(ids, id)) = Len(ids) + 1
<1> DEFINE more == Append(ids, id)
<1>1. /\ more \in Seq(S) /\ Len(more) = Len(ids) + 1 /\ more[Len(ids) + 1] = id
      /\ \A k \in 1..Len(ids) : more[k] = ids[k]
      /\ Len(ids) \in Nat /\ DOMAIN more = 1..Len(more) /\ DOMAIN ids = 1..Len(ids)
  OBVIOUS
<1> HIDE DEF more
<1>2. \A k \in 1..Len(more) : k \in 1..Len(ids) \/ k = Len(ids) + 1
  BY <1>1
<1>3. \A k \in 1..Len(ids) : ids[k] # id
  BY <1>1 DEF ToSet
<1>4. IsInjective(more)
  BY <1>1, <1>2, <1>3 DEF IsInjective
<1>5. ToSet(more) = ToSet(ids) \union {id}
  BY <1>1, <1>2 DEF ToSet
<1> QED
  BY <1>1, <1>4, <1>5 DEF more

-----------------------------------------------------------------------------
(* The invariant.                                                          *)

\* No two appends and no two collections are under way at a time.
Exclusive ==
  /\ \A v, w \in Writers : ~At(v, "idle") /\ ~At(w, "idle") => v = w
  /\ \A c, d \in Collectors : candidates[c] # {} /\ candidates[d] # {} => c = d

Allocating == {"insert", "push", "append", "record"}

Appends ==
  {NoAppend} \union [pc: {"count", "select"}, size: DataSizes]
             \union [pc: Allocating, size: DataSizes, id: Nat, seen: Zone]

ZonesAre == \E n \in Nat : Registered = 0..(n - 1)

Types ==
  /\ ZonesAre
  /\ zones \in [Registered -> Zone]
  /\ open_zone_ids \in Seq(Registered)
  /\ next_zone_hint \in 0..(HintCycle - 1)
  /\ strategy \in Strategies
  /\ writer \in [Writers -> Appends]
  /\ \A w \in Writers : writer[w].pc \in Allocating => writer[w].id \in Registered
  /\ candidates \in [Collectors -> SUBSET Registered]
  /\ live \subseteq Location /\ IsFiniteSet(live)

In(i) == {l \in live : l.zone = i}

\* Zones are written in whole blocks, and count the stripes in use.
ZonesInv ==
  \A i \in Registered :
    /\ zones[i].write_pointer % WriteAlignment = 0
    /\ zones[i].valid_stripes = Cardinality(In(i))

LiveInv ==
  /\ \A a, b \in live : a # b => ~Overlap(a, b)
  /\ \A l \in live :
       /\ l.zone \in Registered
       /\ zones[l.zone].state \in {"Open", "Full"}
       /\ l.offset + l.length <= zones[l.zone].write_pointer
       /\ l.offset % WriteAlignment = 0

\* Collectors that look for zones with nothing but garbage.
GarbageOnly == GarbagePercent = 100

\* What is to be collected is full, and if only garbage is collected, all of it garbage.
CandidatesInv ==
  \A c \in Collectors : \A i \in candidates[c] :
    zones[i].state = "Full" /\ (GarbageOnly => zones[i].valid_stripes = 0)

Opening == {writer[w].id : w \in {v \in Writers : At(v, "push")}}

OpenInv ==
  /\ IsInjective(open_zone_ids)
  /\ ToSet(open_zone_ids) = {i \in Registered : zones[i].state = "Open"} \ Opening
  /\ Len(open_zone_ids) <= MaxOpenZones

\* What the append w has seen is still so.
SeenIsTrue(w) ==
  LET id == writer[w].id  seen == writer[w].seen  n == align_size(writer[w].size) IN
  /\ writer[w].pc \in {"count", "select"} =>
       \A i \in Registered : zones[i].state = "Open" => ~has_space(zones[i], n)
  /\ writer[w].pc \in {"select", "insert", "push"} => Len(open_zone_ids) < MaxOpenZones
  /\ writer[w].pc \in Allocating => has_space(seen, n)
  /\ writer[w].pc = "insert" => zones[id] = seen /\ seen.state = "Empty"
  /\ writer[w].pc \in {"push", "append", "record"} =>
       /\ seen.state = "Open" /\ zones[id].state = "Open"
       /\ zones[id].write_pointer = seen.write_pointer

ZnsInv ==
  /\ Types /\ ZonesInv /\ LiveInv /\ CandidatesInv /\ OpenInv
  /\ \A w \in Writers : SeenIsTrue(w)

-----------------------------------------------------------------------------
(* Appends.                                                                *)

\* The fields of an append are those of its program counter.
LEMMA AppendTypes ==
  ASSUME NEW a \in Appends
  PROVE  /\ a.pc \in {"idle", "count", "select"} \union Allocating
         /\ a.pc # "idle" => a.size \in DataSizes /\ a.size \in Nat
         /\ a.pc \in Allocating => a.id \in Nat /\ a.seen \in Zone
<1>1. DataSizes \subseteq Nat
  BY ZnsAssumption
<1>2. CASE a = NoAppend
  BY <1>2 DEF NoAppend, Allocating
<1>3. CASE a \in [pc: {"count", "select"}, size: DataSizes]
  BY <1>1, <1>3 DEF Allocating
<1>4. CASE a \in [pc: Allocating, size: DataSizes, id: Nat, seen: Zone]
  BY <1>1, <1>4 DEF Allocating
<1> QED
  BY <1>2, <1>3, <1>4 DEF Appends

\* Another append than one that is or gets under way is idle.
LEMMA OthersAreIdle ==
  ASSUME NEW w \in Writers, NEW v \in Writers, v # w, Exclusive, Exclusive',
         NEW a, writer \in [Writers -> Appends], writer' = [writer EXCEPT ![w] = a],
         ~At(w, "idle") \/ a.pc # "idle"
  PROVE  writer'[v] = writer[v] /\ writer[v].pc = "idle"
BY DEF Exclusive, At

LEMMA IdleSeen ==
  ASSUME NEW w \in Writers, writer[w].pc = "idle"
  PROVE  SeenIsTrue(w)
BY DEF SeenIsTrue, Allocating

\* The zones being opened are those of the appends about to list one.
LEMMA OpeningIs ==
  ASSUME NEW w \in Writers, Exclusive
  PROVE  /\ At(w, "push") => Opening = {writer[w].id}
         /\ ~At(w, "idle") /\ ~At(w, "push") => Opening = {}
         /\ ~At(w, "idle") => \A v \in Writers : v # w => At(v, "idle")
BY DEF Exclusive, Opening, At

\* A step of one append that leaves zones and stripes alone.
LEMMA AppendStep ==
  ASSUME ZnsInv, Exclusive, Exclusive', NEW w \in Writers, NEW a \in Appends,
         writer' = [writer EXCEPT ![w] = a],
         ~At(w, "idle") \/ a.pc # "idle",
         a.pc \in Allocating => a.id \in Registered,
         UNCHANGED <<zones, strategy, candidates, live>>,
         next_zone_hint' \in 0..(HintCycle - 1),
         open_zone_ids' \in Seq(Registered), OpenInv', SeenIsTrue(w)'
  PROVE  ZnsInv'
<1>1. writer'[w] = a /\ \A v \in Writers : v # w => writer'[v] = writer[v]
  BY DEF ZnsInv, Types
<1>2. Types'
  <2>1. writer' \in [Writers -> Appends]
    BY DEF ZnsInv, Types
  <2>2. \A v \in Writers : writer'[v].pc \in Allocating => writer'[v].id \in Registered
    BY <1>1 DEF ZnsInv, Types
  <2> QED
    BY <2>1, <2>2 DEF ZnsInv, Types, ZonesAre, Registered
<1>3. ZonesInv' /\ LiveInv' /\ CandidatesInv'
  BY DEF ZnsInv, ZonesInv, LiveInv, CandidatesInv, In, Registered
<1>4. ASSUME NEW v \in Writers, v # w PROVE SeenIsTrue(v)'
  <2>1. writer'[v].pc = "idle"
    BY <1>4, OthersAreIdle DEF ZnsInv, Types
  <2> QED
    BY <2>1 DEF SeenIsTrue, Allocating
<1> QED
  BY <1>2, <1>3, <1>4 DEF ZnsInv

\* Without a zone being opened before or after, the list of open zones is as it was.
LEMMA OpenFrame ==
  ASSUME OpenInv, Opening' = Opening, UNCHANGED <<zones, open_zone_ids>>
  PROVE  OpenInv'
BY DEF OpenInv, Registered

LEMMA TypesFacts ==
  ASSUME Types
  PROVE  /\ \A i \in Registered : zones[i] \in Zone /\ i \in Nat
         /\ \A w \in Writers : writer[w] \in Appends
         /\ Len(open_zone_ids) \in Nat
         /\ \A k \in DOMAIN open_zone_ids : open_zone_ids[k] \in Registered
         /\ DOMAIN open_zone_ids \subseteq Nat
BY DEF Types, ZonesAre

LEMMA NoSpaceElsewhere ==
  ASSUME ZnsInv, NEW n,
         {k \in DOMAIN open_zone_ids : has_space(zones[open_zone_ids[k]], n)} = {},
         Opening = {}
  PROVE  \A i \in Registered : zones[i].state = "Open" => ~has_space(zones[i], n)
<1> SUFFICES ASSUME NEW i \in Registered, zones[i].state = "Open"
             PROVE  ~has_space(zones[i], n)
  OBVIOUS
<1>1. i \in ToSet(open_zone_ids)
  BY DEF ZnsInv, OpenInv
<1>2. PICK k \in DOMAIN open_zone_ids : open_zone_ids[k] = i
  BY <1>1 DEF ToSet
<1> QED
  BY <1>2

LEMMA AppendStripeInv ==
  ASSUME ZnsInv, Exclusive, Exclusive', NEW w \in Writers, NEW size \in DataSizes,
         append_stripe(w, size)
  PROVE  ZnsInv'
<1> DEFINE fits == {k \in DOMAIN open_zone_ids : has_space(zones[open_zone_ids[k]], align_size(size))}
           id == open_zone_ids[Min(fits)]
           a == IF fits # {} THEN Append_("append", size, id, zones[id])
                             ELSE [pc |-> "count", size |-> size]
<1>1. /\ At(w, "idle") /\ writer' = [writer EXCEPT ![w] = a]
      /\ UNCHANGED <<zones, open_zone_ids, next_zone_hint, strategy, candidates, live>>
  BY DEF append_stripe
<1>2. fits \subseteq Nat /\ fits \subseteq DOMAIN open_zone_ids
  BY TypesFacts DEF ZnsInv
<1>3. ASSUME fits # {}
      PROVE  /\ id \in Registered /\ id \in Nat /\ zones[id] \in Zone
             /\ has_space(zones[id], align_size(size))
             /\ zones[id].state = "Open"
  <2>1. Min(fits) \in fits
    BY <1>2, <1>3, MinIs
  <2>2. id \in Registered /\ id \in Nat /\ zones[id] \in Zone /\ id \in ToSet(open_zone_ids)
    BY <1>2, <2>1, TypesFacts DEF ZnsInv, ToSet
  <2>3. has_space(zones[id], align_size(size))
    BY <2>1
  <2> HIDE DEF id
  <2>4. zones[id].state = "Open"
    BY <2>2 DEF ZnsInv, OpenInv
  <2> QED
    BY <2>2, <2>3, <2>4
<1>4. fits # {} => a = Append_("append", size, id, zones[id])
  OBVIOUS
<1>5. fits = {} => a = [pc |-> "count", size |-> size]
  OBVIOUS
<1> HIDE DEF fits, id, a
<1>7. a.pc # "idle" /\ a.pc # "push" /\ a \in Appends /\ (a.pc \in Allocating => a.id \in Registered)
  BY <1>3, <1>4, <1>5 DEF Append_, Appends, Allocating
<1>8. writer'[w] = a /\ w \in DOMAIN writer
  BY <1>1 DEF ZnsInv, Types
<1>9. Opening' = {} /\ Opening = {}
  BY <1>1, <1>7, <1>8 DEF Opening, At, Exclusive, ZnsInv, Types
<1>10. OpenInv'
  BY <1>1, <1>9, OpenFrame DEF ZnsInv
<1>11. SeenIsTrue(w)'
  <2>1. CASE fits # {}
    BY <2>1, <1>1, <1>3, <1>4, <1>8 DEF SeenIsTrue, Append_, Allocating
  <2>2. CASE fits = {}
    <3>1. {k \in DOMAIN open_zone_ids : has_space(zones[open_zone_ids[k]], align_size(size))} = {}
      BY <2>2 DEF fits
    <3>2. \A i \in Registered : zones[i].state = "Open" => ~has_space(zones[i], align_size(size))
      BY <3>1, <1>9, NoSpaceElsewhere
    <3> QED
      BY <3>2, <2>2, <1>1, <1>5, <1>8 DEF SeenIsTrue, Allocating, Registered
  <2> QED
    BY <2>1, <2>2
<1> QED
  BY <1>1, <1>7, <1>10, <1>11, AppendStep DEF ZnsInv, Types

LEMMA CountOpenInv ==
  ASSUME ZnsInv, Exclusive, Exclusive', NEW w \in Writers, CountOpen(w)
  PROVE  ZnsInv'
<1> DEFINE a == IF Len(open_zone_ids) >= MaxOpenZones THEN NoAppend
                ELSE [writer[w] EXCEPT !.pc = "select"]
<1>1. /\ writer[w].pc = "count" /\ writer' = [writer EXCEPT ![w] = a]
      /\ UNCHANGED <<zones, open_zone_ids, next_zone_hint, strategy, candidates, live>>
  BY DEF CountOpen, Return, Goto, At
<1>2. writer[w] \in [pc: {"count", "select"}, size: DataSizes]
  BY <1>1, TypesFacts DEF ZnsInv, Appends, NoAppend, Allocating
<1>3. a \in Appends /\ a.pc \in {"idle", "select"}
  BY <1>2 DEF Appends, NoAppend
<1>4. a.pc = "select" => a.size = writer[w].size /\ Len(open_zone_ids) < MaxOpenZones
  BY <1>2, TypesFacts, ZnsAssumption DEF ZnsInv, NoAppend
<1> HIDE DEF a
<1>5. writer'[w] = a /\ w \in DOMAIN writer
  BY <1>1 DEF ZnsInv, Types
<1>6. Opening' = Opening
  BY <1>1, <1>3 DEF Opening, At, ZnsInv, Types
<1>7. OpenInv'
  BY <1>1, <1>6, OpenFrame DEF ZnsInv
<1>8. SeenIsTrue(w)
  BY DEF ZnsInv
<1>9. SeenIsTrue(w)'
  BY <1>1, <1>3, <1>4, <1>5, <1>8 DEF SeenIsTrue, Allocating, Registered
<1> QED
  BY <1>1, <1>3, <1>7, <1>9, AppendStep DEF ZnsInv, Types, At, Allocating

\* Every way to select takes a registered zone with space.
LEMMA SelectedIs ==
  ASSUME NEW n
  PROVE  strategy \in Strategies => Selected(n) \subseteq WithSpace(n)
BY ZnsAssumption
   DEF Selected, select_first_fit, select_best_fit, select_round_robin, select_device_balanced

LEMMA HintStep ==
  ASSUME NEW h \in 0..(HintCycle - 1)
  PROVE  (h + 1) % HintCycle \in 0..(HintCycle - 1)
BY HintCyclePositive

LEMMA SelectZoneInv ==
  ASSUME ZnsInv, Exclusive, Exclusive', NEW w \in Writers, SelectZone(w)
  PROVE  ZnsInv'
<1> DEFINE n == align_size(writer[w].size)
<1>1. /\ writer[w].pc = "select"
      /\ UNCHANGED <<zones, open_zone_ids, strategy, candidates, live>>
      /\ next_zone_hint' = IF strategy = "RoundRobin" /\ Registered # {}
                             THEN (next_zone_hint + 1) % HintCycle ELSE next_zone_hint
      /\ IF Selected(n) = {} THEN Return(w)
          ELSE \E i \in Selected(n) : Found(w, "insert", i, zones[i])
  BY DEF SelectZone, At
<1>2. next_zone_hint' \in 0..(HintCycle - 1)
  BY <1>1, HintStep DEF ZnsInv, Types
<1>3. SeenIsTrue(w) /\ w \in DOMAIN writer
  BY DEF ZnsInv, Types
<1>4. writer[w].size \in DataSizes
  BY <1>1, TypesFacts, AppendTypes DEF ZnsInv
<1>5. CASE Selected(n) = {}
  <2>1. writer' = [writer EXCEPT ![w] = NoAppend]
    BY <1>1, <1>5 DEF Return
  <2>2. NoAppend \in Appends /\ NoAppend.pc = "idle"
    BY DEF Appends, NoAppend
  <2>3. writer'[w] = NoAppend
    BY <2>1, <1>3
  <2>4. Opening' = Opening
    BY <2>1, <2>2, <1>1, <1>3 DEF Opening, At, ZnsInv, Types
  <2>5. OpenInv'
    BY <1>1, <2>4, OpenFrame DEF ZnsInv
  <2>6. SeenIsTrue(w)'
    BY <2>2, <2>3 DEF SeenIsTrue, Allocating
  <2> QED
    BY <1>1, <1>2, <2>1, <2>2, <2>5, <2>6, AppendStep DEF ZnsInv, Types, At, Allocating
<1>6. CASE Selected(n) # {}
  <2>1. PICK i \in Selected(n) : Found(w, "insert", i, zones[i])
    BY <1>1, <1>6
  <2> DEFINE a == Append_("insert", writer[w].size, i, zones[i])
  <2>2. writer' = [writer EXCEPT ![w] = a]
    BY <2>1 DEF Found
  <2>3. i \in Registered /\ has_space(zones[i], n)
    BY <2>1, SelectedIs DEF WithSpace, ZnsInv, Types
  <2>4. zones[i] \in Zone /\ i \in Nat
    BY <2>3, TypesFacts DEF ZnsInv
  <2>5. a \in Appends /\ a.pc = "insert" /\ a.id = i /\ a.seen = zones[i] /\ a.size = writer[w].size
    BY <2>4, <1>4 DEF Appends, Append_, Allocating
  <2> HIDE DEF a
  <2>6. zones[i].state = "Empty"
    <3>1. zones[i].state \in {"Empty", "Open"}
      BY <2>3 DEF has_space
    <3>2. zones[i].state # "Open"
      BY <2>3, <1>1, <1>3 DEF SeenIsTrue
    <3> QED
      BY <3>1, <3>2
  <2>7. writer'[w] = a
    BY <2>2, <1>3
  <2>8. Opening' = Opening
    BY <2>2, <2>5, <1>1, <1>3 DEF Opening, At, ZnsInv, Types
  <2>9. OpenInv'
    BY <1>1, <2>8, OpenFrame DEF ZnsInv
  <2>10. SeenIsTrue(w)'
    BY <1>1, <1>3, <2>3, <2>5, <2>6, <2>7 DEF SeenIsTrue, Allocating
  <2> QED
    BY <1>1, <1>2, <2>2, <2>3, <2>5, <2>9, <2>10, AppendStep DEF ZnsInv, Types, At, Allocating
<1> QED
  BY <1>5, <1>6

LEMMA PushOpenInv ==
  ASSUME ZnsInv, Exclusive, Exclusive', NEW w \in Writers, PushOpen(w)
  PROVE  ZnsInv'
<1> DEFINE id == writer[w].id
           a == [writer[w] EXCEPT !.pc = "append"]
<1>1. /\ writer[w].pc = "push"
      /\ writer' = [writer EXCEPT ![w] = a]
      /\ open_zone_ids' = Append(open_zone_ids, id)
      /\ UNCHANGED <<zones, next_zone_hint, strategy, candidates, live>>
  BY DEF PushOpen, At, Goto
<1>2. writer[w] \in [pc: Allocating, size: DataSizes, id: Nat, seen: Zone]
  BY <1>1, TypesFacts DEF ZnsInv, Appends, NoAppend
<1>3. /\ a \in Appends /\ a.pc = "append" /\ a.id = id
      /\ a.size = writer[w].size /\ a.seen = writer[w].seen
  BY <1>2 DEF Appends, Allocating
<1>4. id \in Registered
  BY <1>1 DEF ZnsInv, Types, Allocating
<1>5. SeenIsTrue(w) /\ w \in DOMAIN writer
  BY DEF ZnsInv, Types
<1> HIDE DEF a
<1>6. writer'[w] = a
  BY <1>1, <1>5
<1>7. Opening = {id}
  BY <1>1, OpeningIs DEF At
<1>8. Opening' = {}
  BY <1>1, <1>3, <1>6, OpeningIs DEF At, Opening, Exclusive, ZnsInv, Types
<1>9. zones[id].state = "Open" /\ Len(open_zone_ids) < MaxOpenZones
  BY <1>1, <1>5 DEF SeenIsTrue
<1>10. id \notin ToSet(open_zone_ids)
  BY <1>7 DEF ZnsInv, OpenInv
<1>11. /\ open_zone_ids' \in Seq(Registered)
       /\ IsInjective(open_zone_ids')
       /\ ToSet(open_zone_ids') = ToSet(open_zone_ids) \union {id}
       /\ Len(open_zone_ids') = Len(open_zone_ids) + 1
  BY <1>1, <1>4, <1>10, WithOneMore DEF ZnsInv, OpenInv, Types
<1>12. OpenInv'
  <2>1. ToSet(open_zone_ids') = {i \in Registered : zones[i].state = "Open"}
    BY <1>4, <1>7, <1>9, <1>11 DEF ZnsInv, OpenInv
  <2>2. Len(open_zone_ids') <= MaxOpenZones
    BY <1>9, <1>11, TypesFacts, ZnsAssumption DEF ZnsInv
  <2> QED
    BY <1>1, <1>8, <1>11, <2>1, <2>2 DEF OpenInv, Registered
<1>13. SeenIsTrue(w)'
  BY <1>1, <1>3, <1>5, <1>6 DEF SeenIsTrue, Allocating
<1> QED
  BY <1>1, <1>3, <1>4, <1>11, <1>12, <1>13, AppendStep DEF ZnsInv, Types, At

LEMMA AppendWriteInv ==
  ASSUME ZnsInv, Exclusive, Exclusive', NEW w \in Writers, do_append_write(w)
  PROVE  ZnsInv'
<1> DEFINE a == IF has_space(writer[w].seen, writer[w].size)
                  THEN [writer[w] EXCEPT !.pc = "record"] ELSE NoAppend
<1>1. /\ writer[w].pc = "append"
      /\ writer' = [writer EXCEPT ![w] = a]
      /\ UNCHANGED <<zones, open_zone_ids, next_zone_hint, strategy, candidates, live>>
  BY DEF do_append_write, At, Goto, Return
<1>2. writer[w] \in [pc: Allocating, size: DataSizes, id: Nat, seen: Zone]
  BY <1>1, TypesFacts DEF ZnsInv, Appends, NoAppend
<1>3. /\ a \in Appends /\ a.pc \in {"idle", "record"}
      /\ a.pc = "record" => /\ a.id = writer[w].id /\ a.size = writer[w].size
                            /\ a.seen = writer[w].seen
  BY <1>2 DEF Appends, Allocating, NoAppend
<1>4. writer[w].id \in Registered
  BY <1>1 DEF ZnsInv, Types, Allocating
<1>5. SeenIsTrue(w) /\ w \in DOMAIN writer
  BY DEF ZnsInv, Types
<1> HIDE DEF a
<1>6. writer'[w] = a
  BY <1>1, <1>5
<1>7. Opening' = Opening
  BY <1>1, <1>3 DEF Opening, At, ZnsInv, Types
<1>8. OpenInv'
  BY <1>1, <1>7, OpenFrame DEF ZnsInv
<1>9. SeenIsTrue(w)'
  BY <1>1, <1>3, <1>5, <1>6 DEF SeenIsTrue, Allocating
<1> QED
  BY <1>1, <1>3, <1>4, <1>8, <1>9, AppendStep DEF ZnsInv, Types, At, Allocating

-----------------------------------------------------------------------------
(* Opening and writing a zone.                                             *)

LEMMA SizeTypes == \A n \in DataSizes : n \in Nat /\ n > 0
<1>1. DataSizes \subseteq Nat \ {0}
  BY ZnsAssumption
<1> QED
  BY <1>1

LEMMA LocationTypes ==
  ASSUME NEW l \in Location
  PROVE  l.zone \in Nat /\ l.offset \in Nat /\ l.length \in Nat /\ l.length > 0
BY SizeTypes DEF Location

\* The stripes in use, by zone.
LEMMA InFacts ==
  ASSUME Types, NEW i
  PROVE  /\ IsFiniteSet(In(i)) /\ Cardinality(In(i)) \in Nat
         /\ In(i) = {} <=> Cardinality(In(i)) = 0
         /\ \A l \in live : l.zone \in Nat /\ l.offset \in Nat /\ l.length \in Nat /\ l.length > 0
<1>1. In(i) \subseteq live
  BY DEF In
<1>2. IsFiniteSet(In(i))
  BY <1>1, FS_Subset DEF Types
<1>3. \A l \in live : l.zone \in Nat /\ l.offset \in Nat /\ l.length \in Nat /\ l.length > 0
  BY LocationTypes DEF Types
<1> QED
  BY <1>2, <1>3, FS_CardinalityType, FS_EmptySet

LEMMA ZoneTypes ==
  ASSUME NEW z \in Zone
  PROVE  /\ z.write_pointer \in Nat /\ z.write_pointer <= ZoneSize /\ ZoneSize \in Nat
         /\ z.valid_stripes \in Nat /\ z.stripes_written \in Nat
         /\ z.state \in {"Empty", "Open", "Full"} /\ z.device \in Devices
BY ZnsAssumption DEF Zone

\* A zone with space has it between the write pointer and its end.
LEMMA SpaceIs ==
  ASSUME NEW z \in Zone, NEW n \in Nat
  PROVE  /\ has_space(z, n) => z.write_pointer + n <= ZoneSize
         /\ z.state \in {"Empty", "Open"} /\ z.write_pointer + n <= ZoneSize => has_space(z, n)
BY ZoneTypes DEF has_space, remaining_space

\* A zone that is opened has no stripes.
LEMMA MarkOpenInv ==
  ASSUME ZnsInv, Exclusive, Exclusive', NEW w \in Writers, MarkOpen(w)
  PROVE  ZnsInv'
<1> DEFINE id == writer[w].id
           z == [writer[w].seen EXCEPT !.state = "Open"]
           a == Append_("push", writer[w].size, id, z)
<1>1. /\ writer[w].pc = "insert"
      /\ zones' = [zones EXCEPT ![id] = z]
      /\ writer' = [writer EXCEPT ![w] = a]
      /\ UNCHANGED <<open_zone_ids, next_zone_hint, strategy, candidates, live>>
  BY DEF MarkOpen, Found, At
<1>2. writer[w] \in [pc: Allocating, size: DataSizes, id: Nat, seen: Zone]
  BY <1>1, TypesFacts DEF ZnsInv, Appends, NoAppend
<1>3. SeenIsTrue(w) /\ w \in DOMAIN writer
  BY DEF ZnsInv, Types
<1>4. id \in Registered /\ id \in Nat /\ zones[id] \in Zone
  BY <1>1, TypesFacts DEF ZnsInv, Types, Allocating
<1>5. /\ writer[w].seen = zones[id] /\ zones[id].state = "Empty"
      /\ Len(open_zone_ids) < MaxOpenZones
      /\ has_space(zones[id], align_size(writer[w].size))
  BY <1>1, <1>3 DEF SeenIsTrue, Allocating
<1>6. /\ z \in Zone /\ z.state = "Open" /\ z.write_pointer = zones[id].write_pointer
      /\ z.valid_stripes = zones[id].valid_stripes
  BY <1>4, <1>5 DEF Zone
<1> HIDE DEF z
<1>7. /\ a \in Appends /\ a.pc = "push" /\ a.id = id /\ a.seen = z /\ a.size = writer[w].size
  BY <1>2, <1>4, <1>6 DEF Appends, Append_, Allocating
<1>8. has_space(z, align_size(writer[w].size))
  BY <1>5, <1>6 DEF has_space, remaining_space
<1> HIDE DEF a
<1>9. writer'[w] = a /\ \A v \in Writers : v # w => writer'[v] = writer[v]
  BY <1>1, <1>3 DEF ZnsInv, Types
<1>10. /\ Registered' = Registered
       /\ zones'[id] = z /\ \A i \in Registered : i # id => zones'[i] = zones[i]
  BY <1>1, <1>4 DEF Registered
<1>11. Types'
  <2>1. writer' \in [Writers -> Appends]
    BY <1>1, <1>7 DEF ZnsInv, Types
  <2>2. \A v \in Writers : writer'[v].pc \in Allocating => writer'[v].id \in Registered
    BY <1>4, <1>7, <1>9 DEF ZnsInv, Types
  <2>3. zones' \in [Registered -> Zone]
    BY <1>1, <1>4, <1>6 DEF ZnsInv, Types
  <2> QED
    BY <1>1, <1>10, <2>1, <2>2, <2>3 DEF ZnsInv, Types, ZonesAre
<1>12. ASSUME NEW l \in live PROVE l.zone # id
  BY <1>5 DEF ZnsInv, LiveInv
<1>13. ZonesInv'
  BY <1>1, <1>6, <1>10, <1>4 DEF ZnsInv, ZonesInv, In
<1>14. LiveInv'
  BY <1>1, <1>10, <1>12 DEF ZnsInv, LiveInv
<1>15. CandidatesInv'
  <2> SUFFICES ASSUME NEW c \in Collectors, NEW i \in candidates[c]
               PROVE  zones'[i].state = "Full" /\ (GarbageOnly => zones'[i].valid_stripes = 0)
    BY <1>1 DEF CandidatesInv
  <2>1. zones[i].state = "Full" /\ (GarbageOnly => zones[i].valid_stripes = 0) /\ i \in Registered
    BY DEF ZnsInv, CandidatesInv, Types
  <2> QED
    BY <2>1, <1>5, <1>10
<1>16. Opening = {} /\ Opening' = {id}
  <2>1. Opening = {}
    BY <1>1, OpeningIs DEF At
  <2>2. writer'[w].pc = "push" /\ writer'[w].id = id
    BY <1>7, <1>9
  <2>3. \A v \in Writers : v # w => writer'[v].pc # "push"
    BY <2>2 DEF Exclusive, At
  <2> QED
    BY <2>1, <2>2, <2>3 DEF Opening, At
<1>17. OpenInv'
  <2>1. {i \in Registered : zones'[i].state = "Open"} \ {id}
          = {i \in Registered : zones[i].state = "Open"}
    BY <1>5, <1>6, <1>10
  <2> QED
    BY <1>1, <1>10, <1>16, <2>1 DEF ZnsInv, OpenInv
<1>18. SeenIsTrue(w)'
  BY <1>1, <1>5, <1>6, <1>7, <1>8, <1>9, <1>10 DEF SeenIsTrue, Allocating
<1>19. ASSUME NEW v \in Writers, v # w PROVE SeenIsTrue(v)'
  <2>1. writer'[v].pc = "idle"
    BY <1>1, <1>19, OthersAreIdle DEF ZnsInv, Types, At
  <2> QED
    BY <2>1 DEF SeenIsTrue, Allocating
<1> QED
  BY <1>11, <1>13, <1>14, <1>15, <1>17, <1>18, <1>19 DEF ZnsInv

LEMMA WrittenIs ==
  ASSUME NEW seen \in Zone, NEW size
  PROVE  LET z == Written(seen, size) IN
         /\ z.device = seen.device /\ z.write_pointer = seen.write_pointer + align_size(size)
         /\ z.stripes_written = seen.stripes_written + 1
         /\ z.valid_stripes = seen.valid_stripes + 1
         /\ z.state \in {seen.state, "Full"}
         /\ z = [device |-> z.device, write_pointer |-> z.write_pointer, state |-> z.state,
                 stripes_written |-> z.stripes_written, valid_stripes |-> z.valid_stripes]
<1> DEFINE wp == seen.write_pointer + align_size(size)
           z == Written(seen, size)
<1>1. z = [seen EXCEPT !.write_pointer = wp, !.stripes_written = seen.stripes_written + 1,
                       !.valid_stripes = seen.valid_stripes + 1,
                       !.state = IF ZoneSize - wp < WriteAlignment THEN "Full" ELSE seen.state]
  BY DEF Written
<1> HIDE DEF wp, z
<1>2. /\ z.device = seen.device /\ z.write_pointer = wp
      /\ z.stripes_written = seen.stripes_written + 1
      /\ z.valid_stripes = seen.valid_stripes + 1
      /\ z.state = IF ZoneSize - wp < WriteAlignment THEN "Full" ELSE seen.state
      /\ z = [device |-> z.device, write_pointer |-> z.write_pointer, state |-> z.state,
              stripes_written |-> z.stripes_written, valid_stripes |-> z.valid_stripes]
  BY <1>1 DEF Zone
<1>3. z.state \in {seen.state, "Full"}
  BY <1>2
<1> QED
  BY <1>2, <1>3 DEF wp, z

\* A stripe is written behind all others of its zone.
LEMMA RecordWriteInv ==
  ASSUME ZnsInv, Exclusive, Exclusive', NEW w \in Writers, record_write(w)
  PROVE  ZnsInv'
<1> DEFINE id == writer[w].id
           size == writer[w].size
           z == Written(zones[id], size)
           l == TargetOf(w)
<1>1. /\ writer[w].pc = "record"
      /\ zones' = [zones EXCEPT ![id] = z]
      /\ open_zone_ids' = IF z.state = "Full" THEN Without(open_zone_ids, id) ELSE open_zone_ids
      /\ live' = live \union {l}
      /\ writer' = [writer EXCEPT ![w] = NoAppend]
      /\ UNCHANGED <<next_zone_hint, strategy, candidates>>
  BY DEF record_write, Return, At
<1>2. writer[w] \in [pc: Allocating, size: DataSizes, id: Nat, seen: Zone]
  BY <1>1, TypesFacts DEF ZnsInv, Appends, NoAppend
<1>3. SeenIsTrue(w) /\ w \in DOMAIN writer
  BY DEF ZnsInv, Types
<1>4. id \in Registered /\ id \in Nat /\ zones[id] \in Zone
  BY <1>1, TypesFacts DEF ZnsInv, Types, Allocating
<1>5. /\ writer[w].seen.write_pointer = zones[id].write_pointer /\ zones[id].state = "Open"
      /\ has_space(writer[w].seen, align_size(size))
  BY <1>1, <1>3 DEF SeenIsTrue, Allocating
<1>6. /\ size \in Nat /\ size > 0 /\ align_size(size) \in Nat /\ size <= align_size(size)
      /\ \A m \in Nat : m % WriteAlignment = 0 => (m + align_size(size)) % WriteAlignment = 0
  BY <1>2, AlignedSize, SizeTypes
<1> DEFINE wp == zones[id].write_pointer
<1>7. wp \in Nat /\ wp + align_size(size) <= ZoneSize /\ wp % WriteAlignment = 0
  <2>1. wp + align_size(size) <= ZoneSize
    BY <1>2, <1>5, <1>6, SpaceIs
  <2> QED
    BY <2>1, <1>4, ZoneTypes DEF ZnsInv, ZonesInv
<1>8. /\ z \in Zone
      /\ z.write_pointer = wp + align_size(size)
      /\ z.valid_stripes = zones[id].valid_stripes + 1
      /\ z.state \in {"Open", "Full"}
  <2>1. /\ z.device = zones[id].device /\ z.write_pointer = wp + align_size(size)
        /\ z.stripes_written = zones[id].stripes_written + 1
        /\ z.valid_stripes = zones[id].valid_stripes + 1
        /\ z.state \in {zones[id].state, "Full"}
        /\ z = [device |-> z.device, write_pointer |-> z.write_pointer, state |-> z.state,
                stripes_written |-> z.stripes_written, valid_stripes |-> z.valid_stripes]
    BY <1>4, WrittenIs
  <2> HIDE DEF z
  <2>2. z.write_pointer \in 0..ZoneSize /\ z.stripes_written \in Nat /\ z.valid_stripes \in Nat
    BY <2>1, <1>4, <1>6, <1>7, ZoneTypes
  <2> QED
    BY <2>1, <2>2, <1>4, <1>5, ZoneTypes DEF Zone
<1>9. /\ l.zone = id /\ l.offset = wp /\ l.length = size /\ l \in Location
  BY <1>2, <1>4, <1>5, <1>7 DEF TargetOf, Location
<1>10. ASSUME NEW k \in live, k.zone = id PROVE k.offset + k.length <= wp
  BY <1>10 DEF ZnsInv, LiveInv
<1>11. l \notin live
  <2> SUFFICES ASSUME l \in live PROVE FALSE
    OBVIOUS
  <2>1. wp + size <= wp
    BY <1>9, <1>10
  <2> QED
    BY <2>1, <1>6, <1>7
<1>12. /\ Registered' = Registered
       /\ zones'[id] = z /\ \A i \in Registered : i # id => zones'[i] = zones[i]
  BY <1>1, <1>4 DEF Registered
<1>13. writer'[w] = NoAppend /\ \A v \in Writers : v # w => writer'[v] = writer[v]
  BY <1>1, <1>3 DEF ZnsInv, Types
<1> HIDE DEF z, l
<1>14. open_zone_ids \in Seq(Registered) /\ IsInjective(open_zone_ids)
  BY DEF ZnsInv, Types, OpenInv
<1>15. /\ open_zone_ids' \in Seq(Registered) /\ IsInjective(open_zone_ids')
       /\ z.state = "Full" => ToSet(open_zone_ids') = ToSet(open_zone_ids) \ {id}
       /\ z.state # "Full" => open_zone_ids' = open_zone_ids
       /\ Len(open_zone_ids') <= Len(open_zone_ids)
  <2>1. CASE z.state = "Full"
    BY <1>1, <1>14, <2>1, WithoutIs
  <2>2. CASE z.state # "Full"
    BY <1>1, <1>14, <2>2, TypesFacts DEF ZnsInv
  <2> QED
    BY <2>1, <2>2
<1>16. Types'
  <2>1. writer' \in [Writers -> Appends] /\ NoAppend.pc = "idle"
    BY <1>1 DEF ZnsInv, Types, Appends, NoAppend
  <2>2. \A v \in Writers : writer'[v].pc \in Allocating => writer'[v].id \in Registered
    BY <1>13, <2>1 DEF ZnsInv, Types, Allocating
  <2>3. zones' \in [Registered -> Zone]
    BY <1>1, <1>4, <1>8 DEF ZnsInv, Types
  <2>4. live' \subseteq Location /\ IsFiniteSet(live')
    BY <1>1, <1>9, FS_AddElement DEF ZnsInv, Types
  <2> QED
    BY <1>1, <1>12, <1>15, <2>1, <2>2, <2>3, <2>4 DEF ZnsInv, Types, ZonesAre
<1>17. ZonesInv'
  <2> SUFFICES ASSUME NEW i \in Registered
               PROVE  /\ zones'[i].write_pointer % WriteAlignment = 0
                      /\ zones'[i].valid_stripes = Cardinality(In(i)')
    BY <1>12 DEF ZonesInv
  <2>1. zones[i].write_pointer % WriteAlignment = 0 /\ zones[i].valid_stripes = Cardinality(In(i))
    BY DEF ZnsInv, ZonesInv
  <2>2. CASE i = id
    <3>1. In(i)' = In(i) \union {l} /\ l \notin In(i)
      BY <2>2, <1>1, <1>9, <1>11 DEF In
    <3>2. Cardinality(In(i)') = Cardinality(In(i)) + 1
      BY <3>1, InFacts, FS_AddElement DEF ZnsInv
    <3> QED
      BY <2>1, <2>2, <3>2, <1>6, <1>7, <1>8, <1>12
  <2>3. CASE i # id
    <3>1. In(i)' = In(i)
      BY <2>3, <1>1, <1>9 DEF In
    <3> QED
      BY <2>1, <2>3, <3>1, <1>12
  <2> QED
    BY <2>2, <2>3
<1>18. LiveInv'
  <2>1. ASSUME NEW k \in live PROVE ~Overlap(k, l) /\ ~Overlap(l, k)
    <3>1. k.zone # id \/ k.offset + k.length <= wp
      BY <1>10
    <3>2. k.offset \in Nat /\ k.length \in Nat
      BY InFacts DEF ZnsInv
    <3> QED
      BY <3>1, <3>2, <1>7, <1>9, <1>6 DEF Overlap
  <2>2. \A a, b \in live' : a # b => ~Overlap(a, b)
    BY <1>1, <2>1 DEF ZnsInv, LiveInv
  <2>3. ASSUME NEW k \in live
        PROVE  /\ k.zone \in Registered
               /\ zones'[k.zone].state \in {"Open", "Full"}
               /\ k.offset + k.length <= zones'[k.zone].write_pointer
               /\ k.offset % WriteAlignment = 0
    <3>1. /\ k.zone \in Registered
          /\ zones[k.zone].state \in {"Open", "Full"}
          /\ k.offset + k.length <= zones[k.zone].write_pointer
          /\ k.offset % WriteAlignment = 0
      BY DEF ZnsInv, LiveInv
    <3>2. k.offset \in Nat /\ k.length \in Nat
      BY InFacts DEF ZnsInv
    <3> QED
      BY <3>1, <3>2, <1>6, <1>7, <1>8, <1>12
  <2>4. /\ l.zone \in Registered
        /\ zones'[l.zone].state \in {"Open", "Full"}
        /\ l.offset + l.length <= zones'[l.zone].write_pointer
        /\ l.offset % WriteAlignment = 0
    BY <1>4, <1>6, <1>7, <1>8, <1>9, <1>12
  <2> QED
    BY <1>1, <1>12, <2>2, <2>3, <2>4 DEF LiveInv
<1>19. CandidatesInv'
  <2> SUFFICES ASSUME NEW c \in Collectors, NEW i \in candidates[c]
               PROVE  zones'[i].state = "Full" /\ (GarbageOnly => zones'[i].valid_stripes = 0)
    BY <1>1 DEF CandidatesInv
  <2>1. zones[i].state = "Full" /\ (GarbageOnly => zones[i].valid_stripes = 0) /\ i \in Registered
    BY DEF ZnsInv, CandidatesInv, Types
  <2> QED
    BY <2>1, <1>5, <1>12
<1>20. Opening = {} /\ Opening' = {}
  <2>1. \A v \in Writers : v # w => writer[v].pc = "idle"
    BY <1>1 DEF Exclusive, At
  <2> QED
    BY <1>1, <1>13, <2>1 DEF Opening, At, NoAppend
<1>21. OpenInv'
  <2>1. ToSet(open_zone_ids) = {i \in Registered : zones[i].state = "Open"}
    BY <1>20 DEF ZnsInv, OpenInv
  <2>2. ToSet(open_zone_ids') = {i \in Registered : zones'[i].state = "Open"}
    <3>1. CASE z.state = "Full"
      BY <2>1, <3>1, <1>5, <1>12, <1>15
    <3>2. CASE z.state # "Full"
      BY <2>1, <3>2, <1>5, <1>8, <1>12, <1>15
    <3> QED
      BY <3>1, <3>2
  <2>3. Len(open_zone_ids') <= MaxOpenZones
    <3>1. Len(open_zone_ids) \in Nat /\ Len(open_zone_ids') \in Nat
      BY <1>14, <1>15
    <3> QED
      BY <3>1, <1>15, ZnsAssumption DEF ZnsInv, OpenInv
  <2> QED
    BY <1>12, <1>15, <1>20, <2>2, <2>3 DEF OpenInv
<1>22. ASSUME NEW v \in Writers PROVE SeenIsTrue(v)'
  <2>1. writer'[v].pc = "idle"
    BY <1>1, <1>13 DEF Exclusive, At, NoAppend
  <2> QED
    BY <2>1 DEF SeenIsTrue, Allocating
<1> QED
  BY <1>16, <1>17, <1>18, <1>19, <1>21, <1>22 DEF ZnsInv

-----------------------------------------------------------------------------
(* Devices and garbage.                                                    *)

\* New zones are empty.
LEMMA RegisterInv ==
  ASSUME ZnsInv, NEW d \in Devices, register_device(d)
  PROVE  ZnsInv'
<1>1. PICK n \in Nat : Registered = 0..(n - 1)
  BY DEF ZnsInv, Types, ZonesAre
<1>2. Cardinality(Registered) = n
  <2>1. 0 \in Int /\ n - 1 \in Int /\ (0 > n - 1 => n = 0) /\ (n - 1) - 0 + 1 = n
    BY <1>1
  <2> QED
    BY <1>1, <2>1, FS_Interval
<1>3. ZonesOf[d] \in Nat /\ ZonesOf[d] > 0
  BY ZnsAssumption
<1>4. /\ zones' = [i \in 0..(n + ZonesOf[d] - 1) |-> IF i < n THEN zones[i] ELSE new(d)]
      /\ UNCHANGED <<open_zone_ids, next_zone_hint, strategy, writer, candidates, live>>
  <2> DEFINE k == Cardinality(Registered)
  <2>1. zones' = [i \in 0..(k + ZonesOf[d] - 1) |-> IF i < k THEN zones[i] ELSE new(d)]
    BY DEF register_device
  <2>2. k = n
    BY <1>2
  <2> HIDE DEF k
  <2>3. zones' = [i \in 0..(n + ZonesOf[d] - 1) |-> IF i < n THEN zones[i] ELSE new(d)]
    BY <2>1, <2>2
  <2>4. UNCHANGED <<open_zone_ids, next_zone_hint, strategy, writer, candidates, live>>
    BY DEF register_device
  <2> QED
    BY <2>3, <2>4
<1>5. /\ n + ZonesOf[d] \in Nat /\ Registered' = 0..(n + ZonesOf[d] - 1)
      /\ Registered \subseteq Registered'
  BY <1>1, <1>3, <1>4 DEF Registered
<1>6. ASSUME NEW i \in Registered PROVE zones'[i] = zones[i]
  BY <1>1, <1>4, <1>5
<1>7. ASSUME NEW i \in Registered', i \notin Registered
      PROVE  zones'[i] = new(d)
  BY <1>1, <1>4, <1>5, <1>7
<1>8. new(d) \in Zone /\ new(d).state = "Empty" /\ new(d).write_pointer = 0 /\ new(d).valid_stripes = 0
  BY ZnsAssumption DEF new, Zone
<1>9. zones' \in [Registered' -> Zone]
  <2>1. zones' = [i \in Registered' |-> zones'[i]]
    BY <1>4, <1>5
  <2>2. \A i \in Registered' : zones'[i] \in Zone
    BY <1>6, <1>7, <1>8, TypesFacts DEF ZnsInv
  <2> QED
    BY <2>1, <2>2
<1>10. Types'
  <2>1. ZonesAre'
    <3> DEFINE m == n + ZonesOf[d]
    <3>1. m \in Nat /\ Registered' = 0..(m - 1)
      BY <1>3, <1>5
    <3> HIDE DEF m
    <3> QED
      BY <3>1 DEF ZonesAre
  <2>2. open_zone_ids \in Seq(Registered')
    <3>1. open_zone_ids \in Seq(Registered) /\ Registered \subseteq Registered'
      BY <1>5 DEF ZnsInv, Types
    <3> QED
      BY <3>1
  <2>3. candidates \in [Collectors -> SUBSET Registered']
    BY <1>5 DEF ZnsInv, Types
  <2>4. \A w \in Writers : writer[w].pc \in Allocating => writer[w].id \in Registered'
    BY <1>5 DEF ZnsInv, Types
  <2> QED
    BY <1>4, <1>9, <2>1, <2>2, <2>3, <2>4 DEF ZnsInv, Types
<1>11. ZonesInv'
  <2> SUFFICES ASSUME NEW i \in Registered'
               PROVE  /\ zones'[i].write_pointer % WriteAlignment = 0
                      /\ zones'[i].valid_stripes = Cardinality(In(i)')
    BY DEF ZonesInv
  <2>1. In(i)' = In(i)
    BY <1>4 DEF In
  <2>2. CASE i \in Registered
    BY <1>6, <2>1, <2>2 DEF ZnsInv, ZonesInv
  <2>3. CASE i \notin Registered
    <3>1. In(i) = {}
      BY <2>3 DEF In, ZnsInv, LiveInv
    <3>2. 0 % WriteAlignment = 0
      BY ZnsAssumption
    <3> QED
      BY <1>7, <1>8, <2>1, <2>3, <3>1, <3>2, FS_EmptySet
  <2> QED
    BY <2>2, <2>3
<1>12. LiveInv'
  BY <1>4, <1>5, <1>6 DEF ZnsInv, LiveInv
<1>13. CandidatesInv'
  <2> SUFFICES ASSUME NEW c \in Collectors, NEW i \in candidates[c]
               PROVE  zones'[i].state = "Full" /\ (GarbageOnly => zones'[i].valid_stripes = 0)
    BY <1>4 DEF CandidatesInv
  <2>1. zones[i].state = "Full" /\ (GarbageOnly => zones[i].valid_stripes = 0) /\ i \in Registered
    BY DEF ZnsInv, CandidatesInv, Types
  <2> QED
    BY <2>1, <1>6
<1>14. OpenInv'
  <2>1. {i \in Registered' : zones'[i].state = "Open"} = {i \in Registered : zones[i].state = "Open"}
    BY <1>5, <1>6, <1>7, <1>8
  <2>2. Opening' = Opening
    BY <1>4 DEF Opening, At
  <2> QED
    BY <1>4, <2>1, <2>2 DEF ZnsInv, OpenInv
<1>15. ASSUME NEW w \in Writers PROVE SeenIsTrue(w)'
  <2>1. SeenIsTrue(w)
    BY DEF ZnsInv
  <2>2. writer[w].pc \in Allocating => writer[w].id \in Registered
    BY DEF ZnsInv, Types
  <2>3. writer[w].pc \in {"count", "select"} =>
          \A i \in Registered' : zones'[i].state = "Open"
            => ~has_space(zones'[i], align_size(writer[w].size))
    BY <2>1, <1>6, <1>7, <1>8 DEF SeenIsTrue
  <2>4. writer[w].pc \in Allocating => zones'[writer[w].id] = zones[writer[w].id]
    BY <2>2, <1>6
  <2> QED
    BY <1>4, <2>1, <2>3, <2>4 DEF SeenIsTrue, Allocating
<1> QED
  BY <1>10, <1>11, <1>12, <1>13, <1>14, <1>15 DEF ZnsInv

\* Garbage is counted where it is.
LEMMA InvalidateInv ==
  ASSUME ZnsInv, NEW l \in live, invalidate_location(l)
  PROVE  ZnsInv'
<1> DEFINE id == l.zone
           z == [zones[id] EXCEPT !.valid_stripes = IF @ = 0 THEN 0 ELSE @ - 1]
<1>1. /\ live' = live \ {l}
      /\ zones' = [zones EXCEPT ![id] = z]
      /\ UNCHANGED <<open_zone_ids, next_zone_hint, strategy, writer, candidates>>
  BY DEF invalidate_location
<1>2. id \in Registered /\ zones[id] \in Zone
  BY TypesFacts DEF ZnsInv, LiveInv
<1>3. /\ z \in Zone /\ z.state = zones[id].state /\ z.write_pointer = zones[id].write_pointer
      /\ z.valid_stripes = IF zones[id].valid_stripes = 0 THEN 0 ELSE zones[id].valid_stripes - 1
  BY <1>2 DEF Zone
<1> HIDE DEF z
<1>4. /\ Registered' = Registered
      /\ zones'[id] = z /\ \A i \in Registered : i # id => zones'[i] = zones[i]
  BY <1>1, <1>2 DEF Registered
<1>5. \A i \in Registered : /\ zones'[i].state = zones[i].state
                            /\ zones'[i].write_pointer = zones[i].write_pointer
  BY <1>3, <1>4
<1>6. Types'
  <2>1. zones' \in [Registered -> Zone]
    BY <1>1, <1>2, <1>3 DEF ZnsInv, Types
  <2>2. live' \subseteq Location /\ IsFiniteSet(live')
    BY <1>1, FS_RemoveElement DEF ZnsInv, Types
  <2> QED
    BY <1>1, <1>4, <2>1, <2>2 DEF ZnsInv, Types, ZonesAre
<1>7. ZonesInv'
  <2> SUFFICES ASSUME NEW i \in Registered
               PROVE  /\ zones'[i].write_pointer % WriteAlignment = 0
                      /\ zones'[i].valid_stripes = Cardinality(In(i)')
    BY <1>4 DEF ZonesInv
  <2>1. zones[i].write_pointer % WriteAlignment = 0 /\ zones[i].valid_stripes = Cardinality(In(i))
    BY DEF ZnsInv, ZonesInv
  <2>2. CASE i = id
    <3>1. In(i)' = In(i) \ {l} /\ l \in In(i)
      BY <2>2, <1>1 DEF In
    <3>2. IsFiniteSet(In(i)) /\ Cardinality(In(i)) \in Nat /\ Cardinality(In(i)) # 0
      BY <3>1, InFacts DEF ZnsInv
    <3>3. Cardinality(In(i)') = Cardinality(In(i)) - 1
      BY <3>1, <3>2, FS_RemoveElement
    <3> QED
      BY <2>1, <2>2, <3>2, <3>3, <1>3, <1>4, <1>5
  <2>3. CASE i # id
    <3>1. In(i)' = In(i)
      BY <2>3, <1>1 DEF In
    <3> QED
      BY <2>1, <2>3, <3>1, <1>4
  <2> QED
    BY <2>2, <2>3
<1>8. LiveInv'
  BY <1>1, <1>4, <1>5 DEF ZnsInv, LiveInv
<1>9. CandidatesInv'
  <2> SUFFICES ASSUME NEW c \in Collectors, NEW i \in candidates[c]
               PROVE  zones'[i].state = "Full" /\ (GarbageOnly => zones'[i].valid_stripes = 0)
    BY <1>1 DEF CandidatesInv
  <2>1. zones[i].state = "Full" /\ (GarbageOnly => zones[i].valid_stripes = 0) /\ i \in Registered
    BY DEF ZnsInv, CandidatesInv, Types
  <2> QED
    BY <2>1, <1>3, <1>4
<1>10. OpenInv'
  <2>1. {i \in Registered' : zones'[i].state = "Open"} = {i \in Registered : zones[i].state = "Open"}
    BY <1>4, <1>5
  <2>2. Opening' = Opening
    BY <1>1 DEF Opening, At
  <2> QED
    BY <1>1, <2>1, <2>2 DEF ZnsInv, OpenInv
<1>11. ASSUME NEW w \in Writers PROVE SeenIsTrue(w)'
  <2>1. SeenIsTrue(w)
    BY DEF ZnsInv
  <2>2. writer[w].pc \in Allocating => writer[w].id \in Registered
    BY DEF ZnsInv, Types
  <2>3. \A i \in Registered, n \in Nat : has_space(zones'[i], n) <=> has_space(zones[i], n)
    BY <1>5 DEF has_space, remaining_space
  <2>4. writer[w].pc \in {"count", "select"} =>
          \A i \in Registered : zones'[i].state = "Open"
            => ~has_space(zones'[i], align_size(writer[w].size))
    BY <2>1, <1>5 DEF SeenIsTrue, has_space, remaining_space
  <2>5. writer[w].pc = "insert" => zones'[writer[w].id] = zones[writer[w].id]
    <3> SUFFICES ASSUME writer[w].pc = "insert", writer[w].id = id PROVE FALSE
      BY <2>2, <1>4 DEF Allocating
    <3> QED
      BY <2>1 DEF SeenIsTrue, ZnsInv, LiveInv
  <2>6. writer[w].pc \in {"push", "append", "record"} =>
          /\ zones'[writer[w].id].state = zones[writer[w].id].state
          /\ zones'[writer[w].id].write_pointer = zones[writer[w].id].write_pointer
    BY <2>2, <1>5 DEF Allocating
  <2> QED
    BY <1>1, <1>4, <2>1, <2>4, <2>5, <2>6 DEF SeenIsTrue
<1> QED
  BY <1>6, <1>7, <1>8, <1>9, <1>10, <1>11 DEF ZnsInv

LEMMA FindInv ==
  ASSUME ZnsInv, NEW c \in Collectors, find_zones_for_gc(c)
  PROVE  ZnsInv'
<1>1. /\ candidates' = [candidates EXCEPT ![c] = {i \in Registered : should_reset(zones[i])}]
      /\ UNCHANGED <<zones, open_zone_ids, next_zone_hint, strategy, writer, live>>
  BY DEF find_zones_for_gc
<1>2. ASSUME NEW i \in Registered, should_reset(zones[i])
      PROVE  zones[i].state = "Full" /\ (GarbageOnly => zones[i].valid_stripes = 0)
  <2>1. zones[i].valid_stripes \in Nat /\ zones[i].stripes_written \in Nat
    BY TypesFacts, ZoneTypes DEF ZnsInv
  <2> QED
    BY <1>2, <2>1 DEF should_reset, GarbageOnly
<1>3. CandidatesInv'
  <2> SUFFICES ASSUME NEW d \in Collectors, NEW i \in candidates'[d]
               PROVE  zones[i].state = "Full" /\ (GarbageOnly => zones[i].valid_stripes = 0)
    BY <1>1 DEF CandidatesInv
  <2>1. CASE d = c
    BY <1>1, <1>2, <2>1 DEF ZnsInv, Types
  <2>2. CASE d # c
    BY <1>1, <2>2 DEF ZnsInv, Types, CandidatesInv
  <2> QED
    BY <2>1, <2>2
<1>4. Types'
  <2>1. candidates' \in [Collectors -> SUBSET Registered]
    BY <1>1 DEF ZnsInv, Types
  <2> QED
    BY <1>1, <2>1 DEF ZnsInv, Types, ZonesAre, Registered
<1>5. ZonesInv' /\ LiveInv' /\ OpenInv'
  BY <1>1 DEF ZnsInv, ZonesInv, LiveInv, OpenInv, In, Registered, Opening, At
<1>6. \A w \in Writers : SeenIsTrue(w)'
  BY <1>1 DEF ZnsInv, SeenIsTrue, Registered
<1> QED
  BY <1>3, <1>4, <1>5, <1>6 DEF ZnsInv

\* A collector resets a zone when the stripes in use there have been moved away.
MovesFirst ==
  \A c \in Collectors : \A i \in candidates[c] :
    reset_zone(c, i) => \A l \in live : l.zone # i

\* One that collects nothing but garbage has none to move.
LEMMA GarbageMovesFirst == GarbageOnly /\ ZnsInv => MovesFirst
<1> SUFFICES ASSUME GarbageOnly, ZnsInv, NEW c \in Collectors, NEW i \in candidates[c]
             PROVE  \A l \in live : l.zone # i
  BY DEF MovesFirst
<1>1. i \in Registered /\ zones[i].valid_stripes = 0
  BY DEF ZnsInv, CandidatesInv, Types
<1>2. Cardinality(In(i)) = 0
  BY <1>1 DEF ZnsInv, ZonesInv
<1>3. In(i) = {}
  BY <1>2, InFacts DEF ZnsInv
<1> QED
  BY <1>3 DEF In

\* No append is writing to a zone that is reset.
LEMMA ResetInv ==
  ASSUME ZnsInv, Exclusive, NEW c \in Collectors, NEW i \in candidates[c], reset_zone(c, i),
         \A l \in live : l.zone # i
  PROVE  ZnsInv'
<1> DEFINE z == new(zones[i].device)
<1>1. /\ candidates' = [candidates EXCEPT ![c] = @ \ {i}]
      /\ zones' = [zones EXCEPT ![i] = z]
      /\ open_zone_ids' = Without(open_zone_ids, i)
      /\ UNCHANGED <<next_zone_hint, strategy, writer, live>>
  BY DEF reset_zone
<1>2. /\ i \in Registered /\ zones[i] \in Zone
      /\ zones[i].state = "Full"
  BY TypesFacts DEF ZnsInv, CandidatesInv, Types
<1>3. z \in Zone /\ z.state = "Empty" /\ z.write_pointer = 0 /\ z.valid_stripes = 0
  BY <1>2, ZnsAssumption DEF new, Zone
<1> HIDE DEF z
<1>4. /\ Registered' = Registered
      /\ zones'[i] = z /\ \A j \in Registered : j # i => zones'[j] = zones[j]
  BY <1>1, <1>2 DEF Registered
<1>5. In(i) = {}
  BY DEF In
<1>6. \A l \in live : l.zone # i
  OBVIOUS
<1>7. /\ open_zone_ids' \in Seq(Registered) /\ IsInjective(open_zone_ids')
      /\ ToSet(open_zone_ids') = ToSet(open_zone_ids) \ {i}
      /\ Len(open_zone_ids') <= Len(open_zone_ids)
  BY <1>1, WithoutIs DEF ZnsInv, Types, OpenInv
<1>8. Len(open_zone_ids') \in Nat /\ Len(open_zone_ids) \in Nat
  BY <1>7 DEF ZnsInv, Types
<1>9. Types'
  <2>1. zones' \in [Registered -> Zone]
    BY <1>1, <1>2, <1>3 DEF ZnsInv, Types
  <2>2. candidates' \in [Collectors -> SUBSET Registered]
    BY <1>1 DEF ZnsInv, Types
  <2> QED
    BY <1>1, <1>4, <1>7, <2>1, <2>2 DEF ZnsInv, Types, ZonesAre
<1>10. ZonesInv'
  <2> SUFFICES ASSUME NEW j \in Registered
               PROVE  /\ zones'[j].write_pointer % WriteAlignment = 0
                      /\ zones'[j].valid_stripes = Cardinality(In(j)')
    BY <1>4 DEF ZonesInv
  <2>1. zones[j].write_pointer % WriteAlignment = 0 /\ zones[j].valid_stripes = Cardinality(In(j))
    BY DEF ZnsInv, ZonesInv
  <2>2. In(j)' = In(j)
    BY <1>1 DEF In
  <2>3. 0 % WriteAlignment = 0
    BY ZnsAssumption
  <2> QED
    BY <2>1, <2>2, <2>3, <1>3, <1>4, <1>5, FS_EmptySet
<1>11. LiveInv'
  BY <1>1, <1>4, <1>6 DEF ZnsInv, LiveInv
<1>12. CandidatesInv'
  <2> SUFFICES ASSUME NEW d \in Collectors, NEW j \in candidates'[d]
               PROVE  zones'[j].state = "Full" /\ (GarbageOnly => zones'[j].valid_stripes = 0)
    BY DEF CandidatesInv
  <2>1. j \in candidates[d] /\ j # i
    <3>1. CASE d = c
      BY <1>1, <3>1 DEF ZnsInv, Types
    <3>2. CASE d # c
      BY <1>1, <3>2 DEF ZnsInv, Types, Exclusive
    <3> QED
      BY <3>1, <3>2
  <2>2. zones[j].state = "Full" /\ (GarbageOnly => zones[j].valid_stripes = 0) /\ j \in Registered
    BY <2>1 DEF ZnsInv, CandidatesInv, Types
  <2> QED
    BY <2>1, <2>2, <1>4
<1>13. OpenInv'
  <2>1. {j \in Registered : zones'[j].state = "Open"} = {j \in Registered : zones[j].state = "Open"}
    BY <1>2, <1>3, <1>4
  <2>2. Opening' = Opening
    BY <1>1 DEF Opening, At
  <2>3. ToSet(open_zone_ids') = ToSet(open_zone_ids)
    BY <1>2, <1>7 DEF ZnsInv, OpenInv
  <2>4. Len(open_zone_ids') <= MaxOpenZones
    BY <1>7, <1>8, ZnsAssumption DEF ZnsInv, OpenInv
  <2> QED
    BY <1>4, <1>7, <2>1, <2>2, <2>3, <2>4 DEF ZnsInv, OpenInv
<1>14. ASSUME NEW w \in Writers PROVE SeenIsTrue(w)'
  <2>1. SeenIsTrue(w)
    BY DEF ZnsInv
  <2>2. writer[w].pc \in Allocating => writer[w].id \in Registered
    BY DEF ZnsInv, Types
  <2>3. writer[w].pc \in {"count", "select"} =>
          \A j \in Registered : zones'[j].state = "Open"
            => ~has_space(zones'[j], align_size(writer[w].size))
    BY <2>1, <1>3, <1>4 DEF SeenIsTrue
  <2>4. writer[w].pc \in Allocating => writer[w].id # i
    BY <2>1, <1>2 DEF SeenIsTrue, Allocating
  <2>5. writer[w].pc \in Allocating => zones'[writer[w].id] = zones[writer[w].id]
    BY <2>2, <2>4, <1>4
  <2>6. Len(open_zone_ids) < MaxOpenZones => Len(open_zone_ids') < MaxOpenZones
    BY <1>7, <1>8, ZnsAssumption
  <2> QED
    BY <1>1, <1>4, <2>1, <2>3, <2>5, <2>6 DEF SeenIsTrue, Allocating
<1> QED
  BY <1>9, <1>10, <1>11, <1>12, <1>13, <1>14 DEF ZnsInv

-----------------------------------------------------------------------------
(* The theorems.                                                           *)

LEMMA InitZnsInv == Init => ZnsInv
<1> SUFFICES ASSUME Init PROVE ZnsInv
  OBVIOUS
<1>1. Registered = {} /\ ToSet(open_zone_ids) = {} /\ live = {} /\ Len(open_zone_ids) = 0
  BY DEF Init, Registered, ToSet
<1>2. \A w \in Writers : writer[w].pc = "idle"
  BY DEF Init, NoAppend
<1>3. Types
  <2>1. ZonesAre
    <3>1. {} = 0..(0 - 1)
      OBVIOUS
    <3> QED
      BY <1>1, <3>1 DEF ZonesAre
  <2>2. zones \in [Registered -> Zone]
    BY <1>1 DEF Init, Registered
  <2>3. writer \in [Writers -> Appends]
    BY DEF Init, Appends
  <2>4. candidates \in [Collectors -> SUBSET Registered]
    BY DEF Init
  <2>5. 0 \in 0..(HintCycle - 1)
    BY HintCyclePositive
  <2>6. open_zone_ids \in Seq(Registered)
    BY DEF Init
  <2>7. IsFiniteSet(live)
    BY <1>1, FS_EmptySet
  <2> QED
    BY <1>2, <2>1, <2>2, <2>3, <2>4, <2>5, <2>6, <2>7 DEF Init, Types, Allocating
<1>4. ZonesInv /\ LiveInv
  BY <1>1 DEF ZonesInv, LiveInv
<1>5. CandidatesInv
  BY DEF Init, CandidatesInv
<1>6. OpenInv
  BY <1>1, ZnsAssumption DEF Init, OpenInv, IsInjective
<1>7. \A w \in Writers : SeenIsTrue(w)
  BY <1>2 DEF SeenIsTrue, Allocating
<1> QED
  BY <1>3, <1>4, <1>5, <1>6, <1>7 DEF ZnsInv

LEMMA StutterZnsInv == ZnsInv /\ UNCHANGED vars => ZnsInv'
<1> SUFFICES ASSUME ZnsInv, UNCHANGED vars PROVE ZnsInv'
  OBVIOUS
<1>1. Types'
  BY DEF ZnsInv, Types, ZonesAre, Registered, vars
<1>3. ZonesInv' /\ LiveInv' /\ CandidatesInv'
  BY DEF ZnsInv, ZonesInv, LiveInv, CandidatesInv, In, Registered, vars
<1>4. OpenInv'
  BY OpenFrame DEF ZnsInv, Opening, At, vars
<1>2. \A w \in Writers : SeenIsTrue(w)'
  BY DEF ZnsInv, SeenIsTrue, Registered, vars
<1> QED
  BY <1>1, <1>2, <1>3, <1>4 DEF ZnsInv

LEMMA NextZnsInv ==
  ZnsInv /\ Exclusive /\ Exclusive' /\ [Next]_vars /\ [MovesFirst]_vars => ZnsInv'
<1> SUFFICES ASSUME ZnsInv, Exclusive, Exclusive', [Next]_vars, [MovesFirst]_vars
             PROVE  ZnsInv'
  OBVIOUS
<1>1. ASSUME NEW d \in Devices, register_device(d) PROVE ZnsInv'
  BY <1>1, RegisterInv
<1>2. ASSUME NEW w \in Writers, NEW size \in DataSizes, append_stripe(w, size) PROVE ZnsInv'
  BY <1>2, AppendStripeInv
<1>3. ASSUME NEW w \in Writers, AllocateStep(w) PROVE ZnsInv'
  BY <1>3, CountOpenInv, SelectZoneInv, MarkOpenInv, PushOpenInv DEF AllocateStep
<1>4. ASSUME NEW w \in Writers, do_append_write(w) PROVE ZnsInv'
  BY <1>4, AppendWriteInv
<1>5. ASSUME NEW w \in Writers, record_write(w) PROVE ZnsInv'
  BY <1>5, RecordWriteInv
<1>6. ASSUME NEW l \in live, invalidate_location(l) PROVE ZnsInv'
  BY <1>6, InvalidateInv
<1>7. ASSUME NEW c \in Collectors, find_zones_for_gc(c) PROVE ZnsInv'
  BY <1>7, FindInv
<1>8. ASSUME NEW c \in Collectors, NEW i \in candidates[c], reset_zone(c, i) PROVE ZnsInv'
  <2>1. CASE MovesFirst
    BY <1>8, <2>1, ResetInv DEF MovesFirst
  <2>2. CASE UNCHANGED vars
    BY <2>2, StutterZnsInv
  <2> QED
    BY <2>1, <2>2
<1>9. CASE UNCHANGED vars
  BY <1>9, StutterZnsInv
<1> QED
  BY <1>1, <1>2, <1>3, <1>4, <1>5, <1>6, <1>7, <1>8, <1>9 DEF Next

LEMMA ZnsInvIsKept == Spec /\ []Exclusive /\ [][MovesFirst]_vars => []ZnsInv
<1>1. Init => ZnsInv
  BY InitZnsInv
<1>2. ZnsInv /\ Exclusive /\ Exclusive' /\ [Next]_vars /\ [MovesFirst]_vars => ZnsInv'
  BY NextZnsInv
<1> QED
  BY <1>1, <1>2, PTL DEF Spec

LEMMA ZnsInvTypeOK == ZnsInv => TypeOK
<1> SUFFICES ASSUME ZnsInv PROVE TypeOK
  OBVIOUS
<1>1. Registered = 0..(Cardinality(Registered) - 1)
  <2>1. PICK n \in Nat : Registered = 0..(n - 1)
    BY DEF ZnsInv, Types, ZonesAre
  <2>2. Cardinality(Registered) = n
    <3>1. 0 \in Int /\ n - 1 \in Int /\ (0 > n - 1 => n = 0) /\ (n - 1) - 0 + 1 = n
      BY <2>1
    <3> QED
      BY <2>1, <3>1, FS_Interval
  <2> QED
    BY <2>1, <2>2
<1>2. ASSUME NEW w \in Writers
      PROVE  /\ writer[w].pc \in {"idle", "count", "select", "insert", "push", "append", "record"}
             /\ ~At(w, "idle") => writer[w].size \in DataSizes
             /\ writer[w].pc \in {"insert", "push", "append", "record"} =>
                  writer[w].id \in Registered /\ writer[w].seen \in Zone
  <2>1. writer[w] \in Appends
    BY DEF ZnsInv, Types
  <2>2. writer[w].pc \in Allocating => writer[w].id \in Registered
    BY DEF ZnsInv, Types
  <2> QED
    BY <2>1, <2>2, AppendTypes DEF At, Allocating
<1> QED
  BY <1>1, <1>2 DEF ZnsInv, Types, TypeOK

\* While appends do not overlap, nor collections, and collectors move stripes away before
\* they reset a zone, stripes in use share no block with one another or with a write in
\* progress, and stay where they are, whatever the threshold and the strategy.
THEOREM StripesAreSafe ==
  Spec /\ []Exclusive /\ [][MovesFirst]_vars => []LiveStripesAreSafe
<1>1. Exclusive /\ ZnsInv => LiveStripesAreSafe
  <2> SUFFICES ASSUME Exclusive, ZnsInv PROVE LiveStripesAreSafe
    OBVIOUS
  <2>1. TypeOK
    BY ZnsInvTypeOK
  <2>2. LiveIsKept
    BY DEF ZnsInv, LiveInv, LiveIsKept
  <2>3. ASSUME NEW w \in Targeted, NEW l \in live PROVE ~Overlap(TargetOf(w), l)
    <3>1. /\ w \in Writers /\ writer[w].pc \in {"append", "record"} /\ SeenIsTrue(w)
      BY DEF Targeted, ZnsInv
    <3>2. /\ zones[writer[w].id].write_pointer = writer[w].seen.write_pointer
          /\ writer[w].id \in Registered
      BY <3>1 DEF SeenIsTrue, ZnsInv, Types, Allocating
    <3>3. l.zone = writer[w].id => l.offset + l.length <= writer[w].seen.write_pointer
      BY <3>2 DEF ZnsInv, LiveInv
    <3>4. l.offset \in Nat /\ l.length \in Nat
      BY InFacts DEF ZnsInv
    <3>5. writer[w].seen.write_pointer \in Nat
      BY <3>2, TypesFacts, ZoneTypes DEF ZnsInv
    <3> QED
      BY <3>3, <3>4, <3>5 DEF Overlap, TargetOf
  <2>4. \A v, w \in Targeted : v = w
    BY DEF Targeted, Exclusive, At
  <2>5. LocationsAreDisjoint
    BY <2>3, <2>4 DEF LocationsAreDisjoint, ZnsInv, LiveInv
  <2> QED
    BY <2>1, <2>2, <2>5 DEF LiveStripesAreSafe
<1> QED
  BY <1>1, ZnsInvIsKept, PTL

\* Under the same conditions what a zone counts as valid is what is in use in it, so that
\* the garbage ratio that decides on a reset is right.
THEOREM GarbageIsCounted ==
  Spec /\ []Exclusive /\ [][MovesFirst]_vars => []ValidStripesAreLive
<1>1. ZnsInv => ValidStripesAreLive
  BY DEF ZnsInv, ZonesInv, ValidStripesAreLive, In
<1> QED
  BY <1>1, ZnsInvIsKept, PTL

\* Under the same conditions every open zone is listed once, but for one just being
\* opened, and there are never more than the device allows.
THEOREM OpenZonesAreKnown ==
  Spec /\ []Exclusive /\ [][MovesFirst]_vars => []OpenZonesAreListed
<1>1. Exclusive /\ ZnsInv => OpenZonesAreListed
  <2> SUFFICES ASSUME Exclusive, ZnsInv PROVE OpenZonesAreListed
    OBVIOUS
  <2>1. Len(open_zone_ids) \in Nat /\ MaxOpenZones \in Nat
    BY TypesFacts, ZnsAssumption DEF ZnsInv
  <2>2. Len(open_zone_ids) + Cardinality(Opening) <= MaxOpenZones
    <3>1. CASE \E w \in Writers : At(w, "push")
      <4>1. PICK w \in Writers : At(w, "push")
        BY <3>1
      <4>2. Cardinality(Opening) = 1
        BY <4>1, OpeningIs, FS_Singleton
      <4>3. Len(open_zone_ids) < MaxOpenZones
        BY <4>1 DEF ZnsInv, SeenIsTrue, At
      <4> QED
        BY <2>1, <4>2, <4>3
    <3>2. CASE ~\E w \in Writers : At(w, "push")
      <4>1. Opening = {}
        BY <3>2 DEF Opening
      <4> QED
        BY <2>1, <4>1, FS_EmptySet DEF ZnsInv, OpenInv
    <3> QED
      BY <3>1, <3>2
  <2> QED
    BY <2>2 DEF OpenZonesAreListed, ZnsInv, OpenInv, Opening
<1> QED
  BY <1>1, ZnsInvIsKept, PTL

\* One appending thread and one collector of nothing but garbage, and all three hold with
\* nothing assumed of what they do.
OneEach ==
  /\ \A v, w \in Writers : v = w
  /\ \A c, d \in Collectors : c = d

THEOREM OneWriterIsSafe ==
  ASSUME GarbageOnly, OneEach
  PROVE  Spec => []LiveStripesAreSafe /\ []ValidStripesAreLive /\ []OpenZonesAreListed
<1>1. Exclusive
  BY DEF OneEach, Exclusive
<1>2. ZnsInv /\ [Next]_vars => ZnsInv'
  <2>1. Exclusive'
    BY DEF OneEach, Exclusive
  <2>2. ZnsInv => [MovesFirst]_vars
    BY GarbageMovesFirst
  <2> QED
    BY <1>1, <2>1, <2>2, NextZnsInv
<1>3. ZnsInv => MovesFirst
  BY GarbageMovesFirst
<1> QED
  BY <1>1, <1>2, <1>3, InitZnsInv, StripesAreSafe, GarbageIsCounted, OpenZonesAreKnown, PTL DEF Spec
=============================================================================
