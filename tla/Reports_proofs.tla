---------------------------- MODULE Reports_proofs ----------------------------
(***************************************************************************)
(* Proofs about what observes and reports, for every set of callers,       *)
(* policies, objects, counters and keys, and every bound:                  *)
(* MetricsWatcher, EcPolicyController, Statistics, MetricsCollector,       *)
(* ShardedMap and PolicyRules, each for itself and then as MC_Reports      *)
(* puts them side by side.                                                 *)
(***************************************************************************)
EXTENDS MC_Reports, FiniteSetTheorems, NaturalsInduction, WellFoundedInduction, TLAPS

-----------------------------------------------------------------------------
(* Numbers.                                                                *)

\* A set of naturals that is not empty has a least element.
LEMMA NatMin ==
  ASSUME NEW T, T \subseteq Nat, T # {}
  PROVE  \E x \in T : \A y \in T : x <= y
<1>1. \E x \in T : \A y \in T : ~ (<<y, x>> \in OpToRel(<, Nat))
  BY NatLessThanWellFounded, WFMin
<1>2. \A x, y \in Nat : y < x => <<y, x>> \in OpToRel(<, Nat)
  BY Zenon DEF OpToRel
<1>3. \E R : /\ \E x \in T : \A y \in T : <<y, x>> \notin R
             /\ \A x, y \in Nat : y < x => <<y, x>> \in R
  BY <1>1, <1>2, Zenon
<1>4. PICK R : /\ \E x \in T : \A y \in T : <<y, x>> \notin R
               /\ \A x, y \in Nat : y < x => <<y, x>> \in R
  BY <1>3, Zenon
<1>5. PICK x \in T : \A y \in T : <<y, x>> \notin R
  BY <1>4, Zenon
<1>6. ASSUME NEW y \in T PROVE ~(y < x)
  BY <1>4, <1>5, Zenon
<1>7. ASSUME NEW y \in T PROVE x <= y
  <2>1. x \in Nat /\ y \in Nat /\ ~(y < x)
    BY <1>6
  <2> QED
    BY <2>1
<1> QED
  BY <1>7

\* Induction, over the numbers that have a property.
LEMMA NatInd ==
  ASSUME NEW T, T \subseteq Nat, 0 \in T, \A n \in T : n + 1 \in T
  PROVE  T = Nat
<1> SUFFICES ASSUME Nat \ T # {} PROVE FALSE
  OBVIOUS
<1>1. PICK x \in Nat \ T : \A y \in Nat \ T : x <= y
  BY NatMin
<1>2. x # 0 /\ x - 1 \in Nat /\ x = (x - 1) + 1 /\ ~(x <= x - 1)
  BY <1>1
<1>3. x - 1 \in T
  BY <1>1, <1>2
<1> QED
  BY <1>1, <1>2, <1>3

-----------------------------------------------------------------------------
(* Sums over finite sets.                                                  *)

\* Induction over the subsets of a finite set that have a property.
LEMMA SetInd ==
  ASSUME NEW D, IsFiniteSet(D), NEW T, {} \in T,
         \A S \in SUBSET D : \A x \in D : S \in T /\ x \notin S => S \union {x} \in T
  PROVE  D \in T
<1> DEFINE N == {n \in Nat : \A S \in SUBSET D : Cardinality(S) = n => S \in T}
<1>1. \A S \in SUBSET D : IsFiniteSet(S) /\ Cardinality(S) \in Nat
  BY FS_Subset, FS_CardinalityType
<1>2. 0 \in N
  BY <1>1, FS_EmptySet
<1>3. ASSUME NEW n \in N PROVE n + 1 \in N
  <2>1. n \in Nat
    OBVIOUS
  <2>2. ASSUME NEW S \in SUBSET D, Cardinality(S) = n + 1 PROVE S \in T
    <3>1. S # {}
      BY <2>1, <2>2, FS_EmptySet
    <3>2. PICK x \in S : TRUE
      BY <3>1
    <3>3. Cardinality(S \ {x}) = n
      BY <1>1, <2>1, <2>2, <3>2, FS_RemoveElement
    <3>4. S \ {x} \in SUBSET D /\ x \in D /\ x \notin S \ {x}
      BY <3>2
    <3>5. S \ {x} \in T
      BY <3>3, <3>4
    <3>6. (S \ {x}) \union {x} \in T
      BY <3>4, <3>5
    <3> QED
      BY <3>2, <3>6
  <2> QED
    BY <2>1, <2>2
<1>4. N \subseteq Nat
  OBVIOUS
<1> HIDE DEF N
<1>5. N = Nat
  BY <1>2, <1>3, <1>4, NatInd
<1>6. Cardinality(D) \in N
  BY <1>1, <1>5
<1> QED
  BY <1>6 DEF N

PickOf(S) == CHOOSE x \in S : TRUE
Small(D, n) == {S \in SUBSET D : Cardinality(S) <= n}
Part(s, f, S) == IF S = {} THEN 0 ELSE f[PickOf(S)] + s[S \ {PickOf(S)}]

LEMMA SmallSets ==
  ASSUME NEW D, IsFiniteSet(D), NEW n \in Nat, NEW S \in Small(D, n + 1), S # {}
  PROVE  PickOf(S) \in S /\ S \ {PickOf(S)} \in Small(D, n)
<1>1. PickOf(S) \in S
  BY DEF PickOf
<1>2. IsFiniteSet(S) /\ Cardinality(S) \in Nat /\ Cardinality(S) <= n + 1 /\ S \in SUBSET D
  BY FS_Subset, FS_CardinalityType DEF Small
<1>3. Cardinality(S \ {PickOf(S)}) = Cardinality(S) - 1
  BY <1>1, <1>2, FS_RemoveElement
<1> QED
  BY <1>1, <1>2, <1>3 DEF Small

LEMMA PartsExist ==
  ASSUME NEW D, IsFiniteSet(D), NEW f \in [D -> Nat]
  PROVE  \E s \in [SUBSET D -> Nat] : \A S \in SUBSET D : s[S] = Part(s, f, S)
<1> DEFINE N == {n \in Nat : \E s \in [Small(D, n) -> Nat] :
                               \A S \in Small(D, n) : s[S] = Part(s, f, S)}
<1>1. \A S \in SUBSET D : IsFiniteSet(S) /\ Cardinality(S) \in Nat
  BY FS_Subset, FS_CardinalityType
<1>2. 0 \in N
  <2>1. Small(D, 0) = {{}}
    BY <1>1, FS_EmptySet DEF Small
  <2>2. [S \in Small(D, 0) |-> 0] \in [Small(D, 0) -> Nat]
    OBVIOUS
  <2>3. \A S \in Small(D, 0) : [R \in Small(D, 0) |-> 0][S] = Part([R \in Small(D, 0) |-> 0], f, S)
    BY <2>1 DEF Part
  <2> QED
    BY <2>2, <2>3
<1>3. ASSUME NEW n \in N PROVE n + 1 \in N
  <2>1. n \in Nat
    OBVIOUS
  <2>2. PICK s \in [Small(D, n) -> Nat] : \A S \in Small(D, n) : s[S] = Part(s, f, S)
    OBVIOUS
  <2> DEFINE g == [S \in Small(D, n + 1) |-> Part(s, f, S)]
  <2>3. \A S \in Small(D, n + 1) : S # {} =>
          PickOf(S) \in S /\ S \subseteq D /\ S \ {PickOf(S)} \in Small(D, n)
    BY <2>1, SmallSets DEF Small
  <2>4. \A S \in Small(D, n + 1) : Part(s, f, S) \in Nat
    BY <2>3 DEF Part
  <2>5. g \in [Small(D, n + 1) -> Nat]
    BY <2>4
  <2>6. \A S \in Small(D, n) : S \in Small(D, n + 1)
    BY <1>1, <2>1 DEF Small
  <2>7. \A S \in Small(D, n) : g[S] = s[S]
    BY <2>2, <2>6
  <2>8. \A S \in Small(D, n + 1) : g[S] = Part(s, f, S)
    OBVIOUS
  <2> HIDE DEF g
  <2>9. \A S \in Small(D, n + 1) : Part(g, f, S) = Part(s, f, S)
    BY <2>3, <2>7 DEF Part
  <2> QED
    BY <2>1, <2>5, <2>8, <2>9
<1>4. N \subseteq Nat
  OBVIOUS
<1> HIDE DEF N
<1>5. Cardinality(D) \in N
  BY <1>1, <1>2, <1>3, <1>4, NatInd
<1>6. Small(D, Cardinality(D)) = SUBSET D
  BY FS_Subset DEF Small
<1>7. PICK s \in [SUBSET D -> Nat] : \A S \in SUBSET D : s[S] = Part(s, f, S)
  BY <1>5, <1>6 DEF N
<1> QED
  BY <1>7

LEMMA PartsUnique ==
  ASSUME NEW D, IsFiniteSet(D), NEW f, NEW g,
         NEW s, \A S \in SUBSET D : s[S] = Part(s, f, S),
         NEW r, \A S \in SUBSET D : r[S] = Part(r, g, S),
         NEW E \in SUBSET D, \A x \in E : f[x] = g[x]
  PROVE  s[E] = r[E]
<1> DEFINE N == {n \in Nat : \A S \in Small(E, n) : s[S] = r[S]}
<1>1. \A S \in SUBSET E : IsFiniteSet(S) /\ Cardinality(S) \in Nat /\ S \in SUBSET D
  BY FS_Subset, FS_CardinalityType
<1>2. 0 \in N
  <2>1. Small(E, 0) = {{}}
    BY <1>1, FS_EmptySet DEF Small
  <2> QED
    BY <2>1 DEF Part
<1>3. ASSUME NEW n \in N PROVE n + 1 \in N
  <2>1. n \in Nat /\ \A S \in Small(E, n) : s[S] = r[S]
    OBVIOUS
  <2>2. ASSUME NEW S \in Small(E, n + 1), S # {} PROVE s[S] = r[S]
    <3>1. PickOf(S) \in S /\ S \ {PickOf(S)} \in Small(E, n) /\ S \in SUBSET E
      BY <1>1, <2>1, <2>2, SmallSets DEF Small
    <3>2. S \in SUBSET D
      BY <3>1
    <3> QED
      BY <2>1, <2>2, <3>1, <3>2 DEF Part
  <2>3. \A S \in Small(E, n + 1) : s[S] = r[S]
    BY <2>2 DEF Part
  <2> QED
    BY <2>1, <2>3
<1>4. N \subseteq Nat
  OBVIOUS
<1> HIDE DEF N
<1>5. Cardinality(E) \in N
  <2>1. N = Nat
    BY <1>2, <1>3, <1>4, NatInd
  <2> QED
    BY <1>1, <2>1
<1>6. E \in Small(E, Cardinality(E))
  BY <1>1 DEF Small
<1> QED
  BY <1>5, <1>6 DEF N

\* s has the sum of the values of f over each subset of D.
Adds(s, f, D) ==
  s \in [SUBSET D -> Nat] /\ \A S \in SUBSET D : s[S] = Part(s, f, S)

LEMMA SumExists ==
  ASSUME NEW D, IsFiniteSet(D), NEW f \in [D -> Nat]
  PROVE  \E s : Adds(s, f, D) /\ SumOf(f) = s[D]
<1>0. PICK r \in [SUBSET D -> Nat] : \A S \in SUBSET D : r[S] = Part(r, f, S)
  BY PartsExist
<1>1. r = [S \in SUBSET D |-> Part(r, f, S)]
  BY <1>0
<1>2. r = [S \in SUBSET DOMAIN f |->
        IF S = {} THEN 0 ELSE f[CHOOSE x \in S : TRUE] + r[S \ {CHOOSE x \in S : TRUE}]]
  BY <1>1, Zenon DEF Part, PickOf
<1>3. \E s : s = [S \in SUBSET DOMAIN f |->
        IF S = {} THEN 0 ELSE f[CHOOSE x \in S : TRUE] + s[S \ {CHOOSE x \in S : TRUE}]]
  BY <1>2, Zenon
<1> DEFINE sum[S \in SUBSET DOMAIN f] ==
             IF S = {} THEN 0
             ELSE LET x == CHOOSE x \in S : TRUE IN f[x] + sum[S \ {x}]
<1>4. sum = [S \in SUBSET DOMAIN f |->
        IF S = {} THEN 0 ELSE f[CHOOSE x \in S : TRUE] + sum[S \ {CHOOSE x \in S : TRUE}]]
  BY <1>3, Zenon
<1>5. SumOf(f) = sum[DOMAIN f]
  BY Zenon DEF SumOf
<1> HIDE DEF sum
<1>6. sum = [S \in SUBSET D |-> Part(sum, f, S)]
  BY <1>4, Zenon DEF Part, PickOf
<1>7. \A S \in SUBSET D : sum[S] = Part(sum, f, S)
  BY <1>6
<1>8. \A S \in SUBSET D : r[S] = Part(r, f, S)
  BY <1>0
<1>9. ASSUME NEW E \in SUBSET D PROVE sum[E] = r[E]
  BY <1>7, <1>8, PartsUnique
<1>10. sum = r
  BY <1>1, <1>6, <1>9
<1>11. Adds(r, f, D) /\ SumOf(f) = r[D]
  BY <1>5, <1>8, <1>10 DEF Adds
<1> QED
  BY <1>11

\* Any member may be taken out of a sum.
LEMMA AnyPart ==
  ASSUME NEW D, IsFiniteSet(D), NEW f \in [D -> Nat], NEW s, Adds(s, f, D)
  PROVE  \A S \in SUBSET D : \A y \in S : s[S] = f[y] + s[S \ {y}]
<1> DEFINE N == {n \in Nat : \A S \in Small(D, n) : \A y \in S : s[S] = f[y] + s[S \ {y}]}
<1>1. \A S \in SUBSET D : IsFiniteSet(S) /\ Cardinality(S) \in Nat
  BY FS_Subset, FS_CardinalityType
<1>2. 0 \in N
  BY <1>1, FS_EmptySet DEF Small
<1>3. ASSUME NEW n \in N PROVE n + 1 \in N
  <2>1. n \in Nat /\ \A S \in Small(D, n) : \A y \in S : s[S] = f[y] + s[S \ {y}]
    OBVIOUS
  <2>2. ASSUME NEW S \in Small(D, n + 1), NEW y \in S PROVE s[S] = f[y] + s[S \ {y}]
    <3> DEFINE x == PickOf(S)
    <3>1. x \in S /\ S \ {x} \in Small(D, n) /\ S \in SUBSET D
      BY <2>1, SmallSets DEF Small
    <3>2. s[S] = f[x] + s[S \ {x}]
      BY <3>1 DEF Adds, Part
    <3>3. CASE y = x
      BY <3>2, <3>3
    <3>4. CASE y # x
      <4>1. s[S \ {x}] = f[y] + s[(S \ {x}) \ {y}]
        BY <2>1, <3>1, <3>4
      <4>2. IsFiniteSet(S) /\ Cardinality(S \ {y}) = Cardinality(S) - 1 /\ Cardinality(S) \in Nat
        BY <1>1, <3>1, FS_RemoveElement
      <4>3. S \ {y} \in Small(D, n)
        BY <2>1, <3>1, <4>2 DEF Small
      <4>4. s[S \ {y}] = f[x] + s[(S \ {y}) \ {x}]
        BY <2>1, <3>1, <3>4, <4>3
      <4>5. (S \ {y}) \ {x} = (S \ {x}) \ {y}
        OBVIOUS
      <4>6. f[x] \in Nat /\ f[y] \in Nat /\ s[(S \ {x}) \ {y}] \in Nat
        BY <3>1 DEF Adds
      <4>7. s[(S \ {y}) \ {x}] = s[(S \ {x}) \ {y}]
        BY <4>5, Zenon
      <4> HIDE DEF x
      <4>8. PICK a : a = s[(S \ {x}) \ {y}]
        OBVIOUS
      <4>9. PICK b, c : b = f[x] /\ c = f[y]
        OBVIOUS
      <4>10. s[S] = b + (c + a) /\ s[S \ {y}] = b + a /\ a \in Nat /\ b \in Nat /\ c \in Nat
        BY <3>2, <4>1, <4>4, <4>6, <4>7, <4>8, <4>9
      <4>11. s[S] = c + s[S \ {y}]
        BY <4>10
      <4> QED
        BY <4>9, <4>11
    <3> QED
      BY <3>3, <3>4
  <2> QED
    BY <2>1, <2>2
<1>4. N \subseteq Nat
  OBVIOUS
<1> HIDE DEF N
<1>5. \A n \in Nat : n \in N
  BY <1>2, <1>3, <1>4, NatInd
<1>6. ASSUME NEW S \in SUBSET D, NEW y \in S PROVE s[S] = f[y] + s[S \ {y}]
  <2>1. Cardinality(S) \in N /\ S \in Small(D, Cardinality(S))
    BY <1>1, <1>5 DEF Small
  <2> QED
    BY <2>1 DEF N
<1> QED
  BY <1>6

LEMMA AddsUnique ==
  ASSUME NEW E, IsFiniteSet(E), NEW f, NEW g, NEW s, NEW r,
         \A S \in SUBSET E : s[S] = Part(s, f, S), \A S \in SUBSET E : r[S] = Part(r, g, S),
         \A x \in E : f[x] = g[x]
  PROVE  s[E] = r[E]
<1>1. E \in SUBSET E
  OBVIOUS
<1> QED
  BY <1>1, PartsUnique

LEMMA SumIsNat ==
  ASSUME NEW D, IsFiniteSet(D), NEW f \in [D -> Nat]
  PROVE  SumOf(f) \in Nat
<1>1. PICK s : Adds(s, f, D) /\ SumOf(f) = s[D]
  BY SumExists
<1> QED
  BY <1>1 DEF Adds

LEMMA SumEmpty ==
  ASSUME NEW f \in [{} -> Nat]
  PROVE  SumOf(f) = 0
<1>1. PICK s : Adds(s, f, {}) /\ SumOf(f) = s[{}]
  BY SumExists, FS_EmptySet
<1> QED
  BY <1>1 DEF Adds, Part

\* A sum without one of its summands.
LEMMA SumStep ==
  ASSUME NEW D, IsFiniteSet(D), NEW f \in [D -> Nat], NEW y \in D,
         NEW E, \A x : x \in E <=> x \in D /\ x # y,
         NEW g \in [E -> Nat], \A x \in E : f[x] = g[x]
  PROVE  /\ SumOf(f) \in Nat /\ SumOf(g) \in Nat
         /\ SumOf(f) = f[y] + SumOf(g)
<1>1. IsFiniteSet(E) /\ E \in SUBSET D /\ E = D \ {y}
  BY FS_Subset
<1>2. PICK s : Adds(s, f, D) /\ SumOf(f) = s[D]
  BY SumExists
<1>3. PICK r : Adds(r, g, E) /\ SumOf(g) = r[E]
  BY <1>1, SumExists
<1>4. \A S \in SUBSET E : s[S] = Part(s, f, S)
  BY <1>1, <1>2 DEF Adds
<1>5. \A S \in SUBSET E : r[S] = Part(r, g, S)
  BY <1>3 DEF Adds
<1>10. IsFiniteSet(E)
  BY <1>1
<1>11. s[E] = r[E]
  BY <1>4, <1>5, <1>10, AddsUnique
<1>8. s[D] = f[y] + s[E]
  BY <1>1, <1>2, AnyPart
<1>9. s[D] \in Nat /\ r[E] \in Nat
  BY <1>2, <1>3 DEF Adds
<1> QED
  BY <1>2, <1>3, <1>8, <1>9, <1>11

\* What one change of a value does to a sum.
LEMMA SumChange ==
  ASSUME NEW D, IsFiniteSet(D), NEW f \in [D -> Nat], NEW g \in [D -> Nat], NEW y \in D,
         \A x \in D : x # y => f[x] = g[x]
  PROVE  /\ SumOf(f) \in Nat /\ SumOf(g) \in Nat /\ f[y] <= SumOf(f)
         /\ SumOf(g) = (SumOf(f) - f[y]) + g[y]
<1>1. PICK E : E = D \ {y}
  OBVIOUS
<1>2. PICK h : h = [x \in E |-> f[x]]
  OBVIOUS
<1>3. h \in [E -> Nat] /\ \A x : x \in E <=> x \in D /\ x # y
  BY <1>1, <1>2
<1>4. \A x \in E : f[x] = h[x]
  BY <1>2
<1>5. \A x \in E : g[x] = h[x]
  BY <1>1, <1>2
<1>6. SumOf(f) \in Nat /\ SumOf(h) \in Nat /\ SumOf(f) = f[y] + SumOf(h)
  BY <1>3, <1>4, SumStep
<1>7. SumOf(g) \in Nat /\ SumOf(g) = g[y] + SumOf(h)
  BY <1>3, <1>5, SumStep
<1>8. f[y] \in Nat /\ g[y] \in Nat
  OBVIOUS
<1> QED
  BY <1>6, <1>7, <1>8

\* A sum of as many values as D has members, none of them more than cap.
LEMMA SumBound ==
  ASSUME NEW D, IsFiniteSet(D), NEW cap \in Nat, NEW f \in [D -> 0..cap]
  PROVE  SumOf(f) \in Nat /\ SumOf(f) <= cap * Cardinality(D)
<1> DEFINE On(S) == [x \in S |-> f[x]]
           T == {S \in SUBSET D : SumOf(On(S)) \in Nat /\ SumOf(On(S)) <= cap * Cardinality(S)}
<1>1. {} \in T
  <2>1. On({}) \in [{} -> Nat]
    OBVIOUS
  <2>2. SumOf(On({})) = 0
    BY <2>1, SumEmpty
  <2> QED
    BY <2>2, FS_EmptySet
<1>2. ASSUME NEW S \in SUBSET D, NEW y \in D, S \in T, y \notin S
      PROVE  S \union {y} \in T
  <2>1. IsFiniteSet(S) /\ Cardinality(S) \in Nat /\ Cardinality(S \union {y}) = Cardinality(S) + 1
        /\ IsFiniteSet(S \union {y})
    BY <1>2, FS_Subset, FS_CardinalityType, FS_AddElement
  <2>2. PICK R, u, v : R = S \union {y} /\ u = On(R) /\ v = On(S)
    OBVIOUS
  <2>3. /\ u \in [R -> Nat] /\ v \in [S -> Nat] /\ \A x \in S : u[x] = v[x]
        /\ u[y] \in 0..cap /\ y \in R /\ \A x : x \in S <=> x \in R /\ x # y
    BY <1>2, <2>2
  <2>4. SumOf(u) = u[y] + SumOf(v) /\ SumOf(u) \in Nat /\ SumOf(v) \in Nat
    BY <2>1, <2>2, <2>3, SumStep
  <2>5. PICK n \in Nat : n = Cardinality(S)
    BY <2>1
  <2>6. SumOf(v) <= cap * n
    BY <1>2, <2>2, <2>5
  <2>7. cap * (n + 1) = cap * n + cap /\ cap * n \in Nat
    OBVIOUS
  <2>8. SumOf(u) <= cap * (n + 1)
    BY <2>3, <2>4, <2>6, <2>7
  <2> QED
    BY <2>1, <2>2, <2>4, <2>5, <2>8
<1> HIDE DEF T
<1>3. \A S \in SUBSET D : \A x \in D : S \in T /\ x \notin S => S \union {x} \in T
  BY <1>2
<1>4. D \in T
  BY <1>1, <1>3, SetInd
<1>5. On(D) = f
  OBVIOUS
<1> QED
  BY <1>4, <1>5 DEF T

-----------------------------------------------------------------------------
(* The metrics watcher.                                                    *)

\* A query is answered after it was sent and not later than its timeout; a query
\* that is sent is for one of the names.
QueryInTime(a) ==
  /\ a.pc = "sent" => a.metric <= Metrics /\ a.sent <= now /\ now <= a.sent + QueryTimeout
  /\ a.pc = "sent" /\ a.result # NoResult => a.sent <= a.result.at /\ a.result.at <= now
  /\ a.pc # "sent" => a.result = NoResult

\* What a score that is kept stems from, and how long it is kept.
KeptInTime(e) ==
  e # NoEntry =>
    /\ e.score.kind = "samples" => e.expires <= e.score.at + CacheTtl + QueryTimeout
    /\ e.score.kind = "zero" => e.score.of # {"refused"}

WatcherInv ==
  /\ WatcherTypeOK
  /\ \A c \in Askers : QueryInTime(ask[c])
  /\ \A v \in Watched : KeptInTime(cache[v])
  /\ OutagesAreReported

\* What becomes of one call and of one entry: with such a step the invariant is
\* kept, because nothing else changes.
LEMMA WatcherInvKept ==
  ASSUME WatcherInv, NEW c \in Askers, NEW a \in AskStates, NEW v \in Watched, NEW e \in Entries,
         ask' = [ask EXCEPT ![c] = a], cache' = [cache EXCEPT ![v] = e],
         now' = now, healthy' \in BOOLEAN, asked' \in 0..MaxAsks,
         QueryInTime(a), KeptInTime(e),
         a.pc = "scored" /\ a.score.kind = "zero" => a.score.of # {"refused"}
  PROVE  WatcherInv'
<1>1. WatcherTypeOK'
  BY DEF WatcherInv, WatcherTypeOK
<1>2. \A d \in Askers : ask'[d] = IF d = c THEN a ELSE ask[d]
  BY DEF WatcherInv, WatcherTypeOK
<1>3. \A w \in Watched : cache'[w] = IF w = v THEN e ELSE cache[w]
  BY DEF WatcherInv, WatcherTypeOK
<1>4. \A d \in Askers : QueryInTime(ask[d])'
  BY <1>2 DEF WatcherInv, QueryInTime
<1>5. \A w \in Watched : KeptInTime(cache[w])'
  BY <1>3 DEF WatcherInv, KeptInTime
<1>6. OutagesAreReported'
  BY <1>2 DEF WatcherInv, OutagesAreReported
<1> QED
  BY <1>1, <1>4, <1>5, <1>6 DEF WatcherInv

\* A call that changes while the entries stay.
LEMMA WatcherCallKept ==
  ASSUME WatcherInv, NEW c \in Askers, NEW a \in AskStates,
         ask' = [ask EXCEPT ![c] = a], cache' = cache,
         now' = now, healthy' = healthy, asked' \in 0..MaxAsks,
         QueryInTime(a), a.pc = "scored" /\ a.score.kind = "zero" => a.score.of # {"refused"}
  PROVE  WatcherInv'
<1> DEFINE v == ask[c].volume
<1>1. v \in Watched /\ cache[v] \in Entries /\ KeptInTime(cache[v])
  BY DEF WatcherInv, WatcherTypeOK, AskStates
<1>2. cache' = [cache EXCEPT ![v] = cache[v]] /\ healthy' \in BOOLEAN
  BY DEF WatcherInv, WatcherTypeOK
<1> HIDE DEF v
<1> QED
  BY <1>1, <1>2, WatcherInvKept

LEMMA InitWatcherInv == WatcherInit => WatcherInv
<1> SUFFICES ASSUME WatcherInit PROVE WatcherInv
  OBVIOUS
<1>1. PICK v \in Watched : ask = [c \in Askers |-> [NewCall(v) EXCEPT !.pc = "idle"]]
  BY DEF WatcherInit
<1>2. NoResult = [outcome |-> "none", at |-> 0] /\ NoEntry \in Entries
  BY DEF NoResult, NoEntry, Entries
<1>3. [NewCall(v) EXCEPT !.pc = "idle"] \in AskStates
  BY <1>2, WatcherAssumption DEF NewCall, AskStates, Moments
<1>4. WatcherTypeOK
  BY <1>1, <1>2, <1>3, WatcherAssumption DEF WatcherInit, WatcherTypeOK, Moments
<1>5. \A c \in Askers : ask[c].pc = "idle" /\ ask[c].result = NoResult
  BY <1>1 DEF NewCall
<1> QED
  BY <1>4, <1>5 DEF WatcherInit, WatcherInv, QueryInTime, KeptInTime, OutagesAreReported

LEMMA NewCallIsOne ==
  ASSUME NEW v \in Watched
  PROVE  /\ NewCall(v) \in AskStates
         /\ NewCall(v).pc = "next" /\ NewCall(v).result = NoResult
         /\ [NewCall(v) EXCEPT !.pc = "idle"] \in AskStates
         /\ [NewCall(v) EXCEPT !.pc = "idle"].pc = "idle"
         /\ \A s \in Scores : /\ [NewCall(v) EXCEPT !.pc = "scored", !.score = s] \in AskStates
                              /\ [NewCall(v) EXCEPT !.pc = "scored", !.score = s].pc = "scored"
                              /\ [NewCall(v) EXCEPT !.pc = "scored", !.score = s].score = s
                              /\ [NewCall(v) EXCEPT !.pc = "scored", !.score = s].result = NoResult
<1>1. NewCall(v) \in AskStates /\ NewCall(v).pc = "next" /\ NewCall(v).result = NoResult
  BY WatcherAssumption DEF NewCall, AskStates, Moments
<1>2. ASSUME NEW a \in AskStates
      PROVE  [a EXCEPT !.pc = "idle"] \in AskStates /\ [a EXCEPT !.pc = "idle"].pc = "idle"
  BY DEF AskStates
<1>3. ASSUME NEW a \in AskStates, NEW s \in Scores
      PROVE  /\ [a EXCEPT !.pc = "scored", !.score = s] \in AskStates
             /\ [a EXCEPT !.pc = "scored", !.score = s].pc = "scored"
             /\ [a EXCEPT !.pc = "scored", !.score = s].score = s
             /\ [a EXCEPT !.pc = "scored", !.score = s].result = a.result
  BY DEF AskStates
<1> QED
  BY <1>1, <1>2, <1>3

\* An entry that is there has a score.
LEMMA KeptScore ==
  ASSUME NEW e \in Entries, e # NoEntry
  PROVE  e.score \in Scores /\ e.expires \in 0..(MaxTime + CacheTtl)
BY DEF Entries

\* A score is answered from the cache, or a query begun.
LEMMA GetHeatScoreKeeps ==
  ASSUME WatcherInv, NEW c \in Askers, NEW v \in Watched, GetHeatScore(c, v)
  PROVE  WatcherInv'
<1> DEFINE a == IF Usable(cache[v]) THEN [NewCall(v) EXCEPT !.pc = "scored", !.score = cache[v].score]
                ELSE NewCall(v)
<1>1. cache[v] \in Entries /\ KeptInTime(cache[v])
  BY DEF WatcherInv, WatcherTypeOK
<1>2. Usable(cache[v]) => cache[v].score \in Scores
  BY <1>1, KeptScore DEF Usable
<1>3. /\ a \in AskStates /\ a.pc # "sent" /\ a.result = NoResult
      /\ a.pc = "scored" => Usable(cache[v]) /\ a.score = cache[v].score
  BY <1>2, NewCallIsOne
<1>4. ask' = [ask EXCEPT ![c] = a] /\ asked' \in 0..MaxAsks
  BY WatcherAssumption DEF GetHeatScore, WatcherInv, WatcherTypeOK
<1>5. QueryInTime(a) /\ (a.pc = "scored" /\ a.score.kind = "zero" => a.score.of # {"refused"})
  BY <1>1, <1>3 DEF QueryInTime, KeptInTime, Usable
<1>6. cache' = cache /\ now' = now /\ healthy' = healthy
  BY DEF GetHeatScore
<1> HIDE DEF a
<1> QED
  BY <1>3, <1>4, <1>5, <1>6, WatcherCallKept

LEMMA SendKeeps ==
  ASSUME WatcherInv, NEW c \in Askers, Send(c)
  PROVE  WatcherInv'
<1> DEFINE a == [ask[c] EXCEPT !.pc = "sent", !.sent = now]
<1>1. ask[c] \in AskStates /\ now \in Moments /\ QueryInTime(ask[c]) /\ asked \in 0..MaxAsks
  BY DEF WatcherInv, WatcherTypeOK
<1>2. /\ a \in AskStates /\ a.pc = "sent" /\ a.sent = now /\ a.metric <= Metrics
      /\ a.result = NoResult
  BY <1>1 DEF Send, AskStates, QueryInTime
<1>3. QueryInTime(a)
  BY <1>1, <1>2, WatcherAssumption DEF QueryInTime, Moments
<1>4. ask' = [ask EXCEPT ![c] = a] /\ UNCHANGED <<now, cache, healthy, asked>>
  BY DEF Send
<1> HIDE DEF a
<1> QED
  BY <1>1, <1>2, <1>3, <1>4, WatcherCallKept

LEMMA EvaluateKeeps ==
  ASSUME WatcherInv, NEW c \in Askers, Evaluate(c)
  PROVE  WatcherInv'
<1>1. PICK outcome \in Outcomes :
        ask' = [ask EXCEPT ![c].result = [outcome |-> outcome, at |-> now]]
  BY DEF Evaluate
<1> DEFINE a == [ask[c] EXCEPT !.result = [outcome |-> outcome, at |-> now]]
<1>2. ask[c] \in AskStates /\ now \in Moments /\ QueryInTime(ask[c]) /\ asked \in 0..MaxAsks
  BY DEF WatcherInv, WatcherTypeOK
<1>3. /\ a \in AskStates /\ a.pc = "sent" /\ a.result.at = now
      /\ a.sent = ask[c].sent /\ a.metric = ask[c].metric
  BY <1>2 DEF Evaluate, AskStates
<1>4. QueryInTime(a)
  BY <1>2, <1>3, WatcherAssumption DEF QueryInTime, Moments, Evaluate
<1>5. ask' = [ask EXCEPT ![c] = a] /\ UNCHANGED <<now, cache, healthy, asked>>
  BY <1>1 DEF Evaluate
<1> HIDE DEF a
<1> QED
  BY <1>2, <1>3, <1>4, <1>5, WatcherCallKept

\* The call ends with a score or an error, and a score of samples was just kept.
LEMMA ConcludesWith ==
  ASSUME WatcherInv, NEW c \in Askers, NEW pc \in {"scored", "error"},
         NEW s \in Scores \union {NoEntry}, Concludes(c, pc, s)
  PROVE  \E a \in AskStates :
           /\ ask' = [ask EXCEPT ![c] = a] /\ QueryInTime(a) /\ a.pc = pc /\ a.score = s
<1> DEFINE a == [ask[c] EXCEPT !.pc = pc, !.score = s, !.sent = 0, !.metric = 1, !.result = NoResult]
<1>1. ask[c] \in AskStates
  BY DEF WatcherInv, WatcherTypeOK
<1>2. ask' = [ask EXCEPT ![c] = a]
  BY DEF Concludes
<1> DEFINE results == {NoResult} \union [outcome : Outcomes, at : Moments]
           scores == {NoEntry} \union Scores
<1> HIDE DEF results, scores
<1>0. /\ 0 \in Moments /\ 1 \in 1..(Metrics + 1) /\ NoResult \in results /\ s \in scores
      /\ AskStates = [pc : {"idle", "next", "sent", "scored", "error"}, volume : Watched,
                      metric : 1..(Metrics + 1), sent : Moments, result : results,
                      of : SUBSET Outcomes, score : scores]
  BY WatcherAssumption DEF Moments, results, scores, AskStates
<1>3. a \in AskStates /\ a.pc = pc /\ a.score = s /\ a.result = NoResult
  BY <1>0, <1>1
<1>4. QueryInTime(a)
  BY <1>3 DEF QueryInTime
<1> QED
  BY <1>2, <1>3, <1>4

LEMMA TakeSamplesKeeps ==
  ASSUME WatcherInv, NEW c \in Askers, TakeSamples(c)
  PROVE  WatcherInv'
<1> DEFINE s == [kind |-> "samples", at |-> ask[c].result.at, of |-> ask[c].of \union {"samples"}]
           e == [kind |-> "entry", score |-> s, expires |-> now + CacheTtl]
           v == ask[c].volume
<1>1. ask[c] \in AskStates /\ now \in Moments /\ QueryInTime(ask[c])
  BY DEF WatcherInv, WatcherTypeOK
<1>2. ask[c].pc = "sent" /\ ask[c].result # NoResult
  BY DEF TakeSamples, NoResult
<1>3. ask[c].result.at \in Moments /\ ask[c].of \subseteq Outcomes /\ v \in Watched
  BY <1>1, <1>2 DEF AskStates
<1>4. s \in Scores /\ s.kind = "samples" /\ s.at = ask[c].result.at
  BY <1>3 DEF Scores, Outcomes
<1>5. e \in Entries /\ e.score = s /\ e.expires = now + CacheTtl /\ e # NoEntry
  BY <1>1, <1>4, WatcherAssumption DEF Entries, Moments, NoEntry
<1>6. KeptInTime(e)
  <2>1. /\ ask[c].sent <= ask[c].result.at /\ now <= ask[c].sent + QueryTimeout
        /\ {ask[c].sent, ask[c].result.at, now} \subseteq Nat
    BY <1>1, <1>2, <1>3 DEF QueryInTime, AskStates, Moments
  <2>2. e.expires <= e.score.at + CacheTtl + QueryTimeout
    BY <2>1, <1>4, <1>5, WatcherAssumption
  <2> QED
    BY <2>2, <1>4, <1>5 DEF KeptInTime
<1>7. cache' = [cache EXCEPT ![v] = e] /\ Concludes(c, "scored", s) /\ UNCHANGED <<now, healthy, asked>>
  BY DEF TakeSamples, Keep
<1> HIDE DEF s, e, v
<1>8. PICK a \in AskStates :
        ask' = [ask EXCEPT ![c] = a] /\ QueryInTime(a) /\ a.pc = "scored" /\ a.score = s
  BY <1>4, <1>7, ConcludesWith
<1>9. healthy' \in BOOLEAN /\ asked' \in 0..MaxAsks
  BY <1>7 DEF WatcherInv, WatcherTypeOK
<1> QED
  BY <1>3, <1>4, <1>5, <1>6, <1>7, <1>8, <1>9, WatcherInvKept

\* The next name is tried: what the last query came to is noted.
LEMMA TryNextKeeps ==
  ASSUME WatcherInv, NEW c \in Askers, NEW outcome \in Outcomes, ask[c].pc = "sent",
         TryNext(c, outcome)
  PROVE  WatcherInv'
<1> DEFINE a == [ask[c] EXCEPT !.pc = "next", !.metric = @ + 1, !.result = NoResult, !.sent = 0,
                               !.of = @ \union {outcome}]
<1>1. ask[c] \in AskStates /\ QueryInTime(ask[c]) /\ asked \in 0..MaxAsks
  BY DEF WatcherInv, WatcherTypeOK
<1>2. /\ 0 \in Moments /\ ask[c].metric + 1 \in 1..(Metrics + 1)
      /\ ask[c].of \union {outcome} \subseteq Outcomes
  BY <1>1, WatcherAssumption DEF Moments, AskStates, QueryInTime
<1>3. a \in AskStates /\ a.pc = "next" /\ a.result = NoResult
  BY <1>1, <1>2 DEF AskStates
<1>4. QueryInTime(a)
  BY <1>3 DEF QueryInTime
<1>5. ask' = [ask EXCEPT ![c] = a] /\ UNCHANGED <<now, cache, healthy, asked>>
  BY DEF TryNext
<1> HIDE DEF a
<1> QED
  BY <1>1, <1>3, <1>4, <1>5, WatcherCallKept

LEMMA TakeOtherKeeps ==
  ASSUME WatcherInv, NEW c \in Askers, TakeOther(c)
  PROVE  WatcherInv'
BY TryNextKeeps DEF TakeOther

LEMMA QueryTimesOutKeeps ==
  ASSUME WatcherInv, NEW c \in Askers, QueryTimesOut(c)
  PROVE  WatcherInv'
BY TryNextKeeps DEF QueryTimesOut, Outcomes

\* All names were tried: an error, or a score of zero that stems from an answer.
LEMMA GiveUpKeeps ==
  ASSUME WatcherInv, NEW c \in Askers, GiveUp(c)
  PROVE  WatcherInv'
<1> DEFINE s == Zero(ask[c].of)
           e == [kind |-> "entry", score |-> s, expires |-> now + CacheTtl]
           v == ask[c].volume
<1>1. ask[c] \in AskStates /\ now \in Moments /\ v \in Watched /\ ask[c].of \subseteq Outcomes
  BY DEF WatcherInv, WatcherTypeOK, AskStates
<1>2. UNCHANGED <<now, healthy, asked>> /\ healthy' \in BOOLEAN /\ asked' \in 0..MaxAsks
  BY DEF GiveUp, WatcherInv, WatcherTypeOK
<1>3. CASE Reported(c)
  <2>1. Concludes(c, "error", NoEntry) /\ cache' = cache
    BY <1>3 DEF GiveUp
  <2>2. PICK a \in AskStates : ask' = [ask EXCEPT ![c] = a] /\ QueryInTime(a) /\ a.pc = "error"
    BY <2>1, ConcludesWith
  <2> QED
    BY <1>2, <2>1, <2>2, WatcherCallKept
<1>4. CASE ~Reported(c)
  <2>1. s \in Scores /\ s.kind = "zero" /\ s.of = ask[c].of
    BY <1>1 DEF Scores, Zero
  <2>2. s.of # {"refused"}
    BY <1>4, <2>1 DEF Reported
  <2>3. e \in Entries /\ e.score = s /\ e.expires = now + CacheTtl
    BY <1>1, <2>1, WatcherAssumption DEF Entries, Moments
  <2>4. KeptInTime(e)
    BY <2>1, <2>2, <2>3 DEF KeptInTime
  <2>5. cache' = [cache EXCEPT ![v] = e] /\ Concludes(c, "scored", s)
    BY <1>4 DEF GiveUp, Keep
  <2> HIDE DEF s, e, v
  <2>6. PICK a \in AskStates :
          ask' = [ask EXCEPT ![c] = a] /\ QueryInTime(a) /\ a.pc = "scored" /\ a.score = s
    BY <2>1, <2>5, ConcludesWith
  <2> QED
    BY <1>1, <1>2, <2>2, <2>3, <2>4, <2>5, <2>6, WatcherInvKept
<1> QED
  BY <1>3, <1>4

LEMMA TakeScoreKeeps ==
  ASSUME WatcherInv, NEW c \in Askers, TakeScore(c)
  PROVE  WatcherInv'
<1> DEFINE a == [NewCall(ask[c].volume) EXCEPT !.pc = "idle"]
<1>1. ask[c].volume \in Watched /\ ask \in [Askers -> AskStates] /\ asked \in 0..MaxAsks
  BY DEF WatcherInv, WatcherTypeOK, AskStates
<1>2. a \in AskStates /\ a.pc = "idle" /\ a.result = NoResult
  BY <1>1, NewCallIsOne DEF NewCall
<1>3. ask' = [ask EXCEPT ![c] = a] /\ UNCHANGED <<now, cache, healthy, asked>>
  BY <1>1 DEF TakeScore
<1>4. QueryInTime(a)
  BY <1>2 DEF QueryInTime
<1> HIDE DEF a
<1> QED
  BY <1>1, <1>2, <1>3, <1>4, WatcherCallKept

LEMMA InvalidateKeeps ==
  ASSUME WatcherInv, NEW v \in Watched, Invalidate(v)
  PROVE  WatcherInv'
<1>1. cache' = [cache EXCEPT ![v] = NoEntry] /\ UNCHANGED <<now, ask, healthy, asked>>
  BY DEF Invalidate
<1>2. WatcherTypeOK'
  BY <1>1 DEF WatcherInv, WatcherTypeOK, Entries
<1>3. \A w \in Watched : cache'[w] \in {cache[w], NoEntry}
  BY <1>1 DEF WatcherInv, WatcherTypeOK
<1>4. \A w \in Watched : KeptInTime(cache[w])'
  BY <1>3 DEF WatcherInv, KeptInTime
<1> QED
  BY <1>1, <1>2, <1>4 DEF WatcherInv, QueryInTime, OutagesAreReported

LEMMA HealthKeeps == WatcherInv /\ health_check => WatcherInv'
<1> SUFFICES ASSUME WatcherInv, health_check PROVE WatcherInv'
  OBVIOUS
<1>1. healthy' \in BOOLEAN /\ UNCHANGED <<now, cache, ask, asked>>
  BY DEF health_check
<1>2. WatcherTypeOK'
  BY <1>1 DEF WatcherInv, WatcherTypeOK
<1> QED
  BY <1>1, <1>2 DEF WatcherInv, QueryInTime, KeptInTime, OutagesAreReported

\* Time passes, but not beyond the timeout of a query.
LEMMA TickKeeps == WatcherInv /\ Tick => WatcherInv'
<1> SUFFICES ASSUME WatcherInv, Tick PROVE WatcherInv'
  OBVIOUS
<1>1. now \in Moments /\ now' = now + 1 /\ now < MaxTime /\ UNCHANGED <<cache, ask, healthy, asked>>
  BY DEF Tick, WatcherInv, WatcherTypeOK
<1>2. now' \in Moments
  BY <1>1, WatcherAssumption DEF Moments
<1>3. WatcherTypeOK'
  BY <1>1, <1>2 DEF WatcherInv, WatcherTypeOK
<1>4. ASSUME NEW c \in Askers PROVE QueryInTime(ask[c])'
  <2>1. QueryInTime(ask[c]) /\ ask[c] \in AskStates
    BY DEF WatcherInv, WatcherTypeOK
  <2>2. ask[c].pc = "sent" => now < ask[c].sent + QueryTimeout
    BY DEF Tick
  <2>3. ask[c].pc = "sent" /\ ask[c].result # NoResult => ask[c].result.at \in Nat
    BY <2>1 DEF AskStates, Moments
  <2>4. ask[c].sent \in Nat /\ now \in Nat
    BY <1>1, <2>1 DEF AskStates, Moments
  <2> QED
    BY <1>1, <2>1, <2>2, <2>3, <2>4, WatcherAssumption DEF QueryInTime
<1> QED
  BY <1>1, <1>3, <1>4 DEF WatcherInv, KeptInTime, OutagesAreReported

LEMMA WatcherInvStep == WatcherInv /\ [WatcherNext]_watcherVars => WatcherInv'
<1> SUFFICES ASSUME WatcherInv, [WatcherNext]_watcherVars PROVE WatcherInv'
  OBVIOUS
<1>1. ASSUME NEW c \in Askers, NEW v \in Watched, GetHeatScore(c, v) PROVE WatcherInv'
  BY <1>1, GetHeatScoreKeeps
<1>2. ASSUME NEW c \in Askers, Send(c) PROVE WatcherInv'
  BY <1>2, SendKeeps
<1>3. ASSUME NEW c \in Askers, Evaluate(c) PROVE WatcherInv'
  BY <1>3, EvaluateKeeps
<1>4. ASSUME NEW c \in Askers, TakeSamples(c) PROVE WatcherInv'
  BY <1>4, TakeSamplesKeeps
<1>5. ASSUME NEW c \in Askers, TakeOther(c) PROVE WatcherInv'
  BY <1>5, TakeOtherKeeps
<1>6. ASSUME NEW c \in Askers, QueryTimesOut(c) PROVE WatcherInv'
  BY <1>6, QueryTimesOutKeeps
<1>7. ASSUME NEW c \in Askers, GiveUp(c) PROVE WatcherInv'
  BY <1>7, GiveUpKeeps
<1>8. ASSUME NEW c \in Askers, TakeScore(c) PROVE WatcherInv'
  BY <1>8, TakeScoreKeeps
<1>9. ASSUME NEW v \in Watched, Invalidate(v) PROVE WatcherInv'
  BY <1>9, InvalidateKeeps
<1>10. CASE UNCHANGED watcherVars
  BY <1>10 DEF watcherVars, WatcherInv, WatcherTypeOK, QueryInTime, KeptInTime, OutagesAreReported
<1> QED
  BY <1>1, <1>2, <1>3, <1>4, <1>5, <1>6, <1>7, <1>8, <1>9, <1>10, HealthKeeps, TickKeeps DEF WatcherNext

\* A score is returned out of the cache while it is good, or with an answer in time.
LEMMA StepScoresAreRecent ==
  ASSUME WatcherInv, [WatcherNext]_watcherVars, NEW c \in Askers,
         ask[c].pc # "scored", ask'[c].pc = "scored", ask'[c].score.kind = "samples"
  PROVE  now - ask'[c].score.at <= CacheTtl + QueryTimeout
<1> USE DEF WatcherInv
<1>1. /\ ask \in [Askers -> AskStates] /\ cache \in [Watched -> Entries] /\ now \in Nat
      /\ CacheTtl \in Nat /\ QueryTimeout \in Nat
  BY WatcherAssumption DEF WatcherTypeOK, Moments
<1>2. ASSUME NEW v \in Watched, GetHeatScore(c, v)
      PROVE  now - ask'[c].score.at <= CacheTtl + QueryTimeout
  <2>1. Usable(cache[v]) /\ ask'[c].score = cache[v].score
    BY <1>1, <1>2, NewCallIsOne DEF GetHeatScore, NewCall
  <2>2. /\ cache[v] # NoEntry /\ now <= cache[v].expires
        /\ cache[v].score \in Scores /\ cache[v].expires \in Nat
    <3>1. cache[v] # NoEntry
      BY <2>1 DEF Usable
    <3>2. cache[v].score \in Scores /\ cache[v].expires \in 0..(MaxTime + CacheTtl)
      BY <1>1, <3>1, KeptScore
    <3> QED
      BY <1>1, <2>1, <3>1, <3>2, WatcherAssumption DEF Usable
  <2>3. cache[v].score.at \in Nat
    BY <2>2, WatcherAssumption DEF Scores, Moments
  <2>4. cache[v].expires <= cache[v].score.at + CacheTtl + QueryTimeout
    BY <2>1, <2>2 DEF KeptInTime
  <2> QED
    BY <1>1, <2>1, <2>2, <2>3, <2>4
<1>3. ASSUME TakeSamples(c)
      PROVE  now - ask'[c].score.at <= CacheTtl + QueryTimeout
  <2>1. /\ ask'[c].score.at = ask[c].result.at
        /\ ask[c].pc = "sent" /\ ask[c].result # NoResult
    BY <1>1, <1>3 DEF TakeSamples, Concludes, NoResult
  <2>2. QueryInTime(ask[c])
    OBVIOUS
  <2>3. ask[c].result.at \in Nat /\ ask[c].sent \in Nat
    BY <1>1, <2>1, WatcherAssumption DEF AskStates, Moments
  <2> QED
    BY <1>1, <2>1, <2>2, <2>3 DEF QueryInTime
<1>4. ASSUME Send(c) \/ Evaluate(c) \/ TakeOther(c) \/ QueryTimesOut(c) \/ TakeScore(c)
      PROVE  FALSE
  <2>1. Send(c) => ask'[c].pc = "sent"
    BY <1>1 DEF Send
  <2>2. Evaluate(c) => ask'[c].pc = ask[c].pc
    BY <1>1 DEF Evaluate
  <2>3. TakeOther(c) \/ QueryTimesOut(c) => ask'[c].pc = "next"
    <3>1. ASSUME NEW outcome, TryNext(c, outcome) PROVE ask'[c].pc = "next"
      BY <1>1, <3>1 DEF TryNext
    <3> QED
      BY <3>1 DEF TakeOther, QueryTimesOut
  <2>4. TakeScore(c) => ask'[c].pc = "idle"
    BY <1>1 DEF TakeScore, NewCall
  <2> QED
    BY <1>4, <2>1, <2>2, <2>3, <2>4
<1>5. ASSUME GiveUp(c) PROVE FALSE
  <2>1. ask'[c].pc = "error" \/ ask'[c].score = Zero(ask[c].of)
    <3>1. Concludes(c, "error", NoEntry) => ask'[c].pc = "error"
      BY <1>1 DEF Concludes
    <3>2. Concludes(c, "scored", Zero(ask[c].of)) => ask'[c].score = Zero(ask[c].of)
      BY <1>1 DEF Concludes
    <3> QED
      BY <1>5, <3>1, <3>2 DEF GiveUp
  <2> QED
    BY <2>1 DEF Zero
<1>6. ASSUME NEW d \in Askers, d # c,
             \/ \E v \in Watched : GetHeatScore(d, v)
             \/ Send(d) \/ Evaluate(d) \/ TakeSamples(d) \/ TakeOther(d) \/ QueryTimesOut(d)
             \/ GiveUp(d) \/ TakeScore(d)
      PROVE  ask'[c] = ask[c]
  BY <1>1, <1>6 DEF GetHeatScore, Send, Evaluate, TakeSamples, TakeOther, QueryTimesOut, GiveUp,
    TakeScore, TryNext, Concludes
<1>7. ASSUME (\E v \in Watched : Invalidate(v)) \/ health_check \/ Tick \/ UNCHANGED watcherVars
      PROVE  ask' = ask
  BY <1>7 DEF Invalidate, health_check, Tick, watcherVars
<1> QED
  BY <1>2, <1>3, <1>4, <1>5, <1>6, <1>7 DEF WatcherNext

\* Type correctness of the watcher for any number of callers in any interleaving.
THEOREM WatcherTypeCorrect == WatcherSpec => []WatcherTypeOK
<1>1. WatcherInv => WatcherTypeOK
  BY DEF WatcherInv
<1> QED
  BY <1>1, InitWatcherInv, WatcherInvStep, PTL DEF WatcherSpec

\* An outage of Prometheus is never taken for an idle volume, neither in the answer
\* of a query nor in one out of the cache (src/metrics/watcher.rs).
THEOREM OutagesStayReported == WatcherSpec => []OutagesAreReported
<1>1. WatcherInv => OutagesAreReported
  BY DEF WatcherInv
<1> QED
  BY <1>1, InitWatcherInv, WatcherInvStep, PTL DEF WatcherSpec

\* A score of samples that is returned is never older than the time to live and the
\* timeout together, whatever answers overtake each other.
THEOREM ScoresStayRecent == WatcherSpec => ScoresAreRecent
<1>1. WatcherInv /\ [WatcherNext]_watcherVars =>
        [\A c \in Askers :
           ask[c].pc # "scored" /\ ask'[c].pc = "scored" /\ ask'[c].score.kind = "samples"
           => now - ask'[c].score.at <= CacheTtl + QueryTimeout]_watcherVars
  BY StepScoresAreRecent
<1> QED
  BY <1>1, InitWatcherInv, WatcherInvStep, PTL DEF WatcherSpec, ScoresAreRecent

-----------------------------------------------------------------------------
(* The controller of ErasureCodingPolicies.                                *)

LEMMA EcNumbers ==
  /\ IsFiniteSet(Referrers) /\ IsFiniteSet(EcStripes)
  /\ Cardinality(Referrers) \in Nat /\ Cardinality(EcStripes) \in Nat
  /\ MaxWatched \in Nat /\ MaxEdits \in Nat /\ MaxErrors \in Nat /\ Total \in Nat
<1>1. /\ IsFiniteSet(Referrers) /\ IsFiniteSet(EcStripes)
      /\ MaxWatched \in Nat /\ MaxEdits \in Nat /\ MaxErrors \in Nat
  BY EcControllerAssumption
<1>2. Cardinality(Referrers) \in Nat /\ Cardinality(EcStripes) \in Nat
  BY <1>1, FS_CardinalityType
<1> QED
  BY <1>1, <1>2 DEF Total

\* What the controller counts is within what there is.
LEMMA VolumesInBounds ==
  ASSUME EcTypeOK, NEW e \in EcPolicies
  PROVE  count_active_volumes(e) \in 0..Total
<1>1. PICK D : D = {p \in Referrers : referrer[p].ec_policy_ref = e}
  OBVIOUS
<1>2. PICK f : f = [p \in D |-> referrer[p].watched]
  OBVIOUS
<1>3. /\ IsFiniteSet(D) /\ Cardinality(D) \in Nat /\ Cardinality(D) <= Cardinality(Referrers)
  BY <1>1, EcNumbers, FS_Subset, FS_CardinalityType
<1>4. f \in [D -> 0..MaxWatched]
  BY <1>1, <1>2 DEF EcTypeOK, Usages
<1>5. SumOf(f) \in Nat /\ SumOf(f) <= MaxWatched * Cardinality(D)
  BY <1>3, <1>4, EcNumbers, SumBound
<1>6. \A a, b, c \in Nat : a <= b => c * a <= c * b
  OBVIOUS
<1>7. MaxWatched * Cardinality(D) <= Total
  BY <1>3, <1>6, EcNumbers DEF Total
<1>8. MaxWatched * Cardinality(D) \in Nat
  BY <1>3, EcNumbers
<1>9. count_active_volumes(e) = SumOf(f)
  BY <1>1, <1>2 DEF count_active_volumes
<1> QED
  BY <1>5, <1>7, <1>8, <1>9, EcNumbers

LEMMA StripesInBounds ==
  ASSUME NEW S, S \subseteq EcStripes
  PROVE  Cardinality(S) \in StripeCounts
<1>1. Cardinality(S) \in Nat /\ Cardinality(S) <= Cardinality(EcStripes)
  BY EcNumbers, FS_Subset, FS_CardinalityType
<1> QED
  BY <1>1, EcNumbers DEF StripeCounts

LEMMA CountsInBounds ==
  ASSUME NEW e \in EcPolicies, NEW d \in Statuses
  PROVE  count_stripes(e, d) \in Statuses
<1>1. Cardinality(Counted(e)) \in StripeCounts
  BY StripesInBounds DEF Counted
<1>2. \A states : In(e, states) \in StripeCounts
  <2> TAKE states
  <2>1. {s \in Counted(e) : stripes[s].state \in states} \subseteq EcStripes
    BY DEF Counted
  <2> QED
    BY <2>1, StripesInBounds DEF In
<1> QED
  BY <1>1, <1>2 DEF count_stripes, Statuses

LEMMA UnreportedIs ==
  /\ Unreported \in Statuses /\ [Unreported EXCEPT !.phase = "Invalid"] \in Statuses
<1>1. 0 \in StripeCounts /\ 0 \in 0..Total
  BY EcNumbers DEF StripeCounts
<1> QED
  BY <1>1 DEF Unreported, Statuses, Phases

\* A reconciliation that moves on keeps the types.
LEMMA EcGoes ==
  ASSUME EcTypeOK, NEW e \in EcPolicies, NEW pc \in Pcs, NEW d \in Statuses, Goto(e, pc, d),
         Unchanged, UNCHANGED status, errors' \in 0..MaxErrors
  PROVE  EcTypeOK'
BY DEF EcTypeOK, Goto, Unchanged

LEMMA EcCalls ==
  ASSUME EcTypeOK, Succeeds \/ Fails
  PROVE  errors' \in 0..MaxErrors
BY EcNumbers DEF EcTypeOK, Succeeds, Fails

LEMMA ReconcileKeepsTypes ==
  ASSUME EcTypeOK, NEW e \in EcPolicies, Reconcile(e)
  PROVE  EcTypeOK'
<1>0. rec[e].draft \in Statuses
  BY DEF EcTypeOK
<1>1. CASE Start(e)
  <2>1. errors' \in 0..MaxErrors /\ Unchanged /\ UNCHANGED status
    BY <1>1, EcCalls DEF Start
  <2>2. \/ Goto(e, "usage", Unreported)
        \/ Goto(e, "volumes", [Unreported EXCEPT !.phase = "Invalid"])
    BY <1>1 DEF Start
  <2>3. "usage" \in Pcs /\ "volumes" \in Pcs
    BY DEF Pcs
  <2> QED
    BY <2>1, <2>2, <2>3, UnreportedIs, EcGoes
<1>2. CASE DecidePhase(e)
  <2>1. errors' \in 0..MaxErrors /\ Unchanged /\ UNCHANGED status
    BY <1>2, EcCalls DEF DecidePhase
  <2>2. PICK ph \in {"Active", "Ready"} : Goto(e, "volumes", [rec[e].draft EXCEPT !.phase = ph])
    BY <1>2 DEF DecidePhase
  <2>3. [rec[e].draft EXCEPT !.phase = ph] \in Statuses /\ "volumes" \in Pcs
    BY <1>0 DEF Statuses, Phases, Pcs
  <2> QED
    BY <2>1, <2>2, <2>3, EcGoes
<1>3. CASE CountVolumes(e)
  <2>1. errors' \in 0..MaxErrors /\ Unchanged /\ UNCHANGED status
    BY <1>3, EcCalls DEF CountVolumes
  <2>2. \/ Goto(e, "stripes", [rec[e].draft EXCEPT !.active_volumes = count_active_volumes(e)])
        \/ Goto(e, "stripes", rec[e].draft)
    BY <1>3 DEF CountVolumes
  <2>3. "stripes" \in Pcs
    BY DEF Pcs
  <2>4. [rec[e].draft EXCEPT !.active_volumes = count_active_volumes(e)] \in Statuses
    BY <1>0, VolumesInBounds DEF Statuses
  <2> QED
    BY <1>0, <2>1, <2>2, <2>3, <2>4, EcGoes
<1>4. CASE CountStripes(e)
  <2>1. errors' \in 0..MaxErrors /\ Unchanged /\ UNCHANGED status
    BY <1>4, EcCalls DEF CountStripes
  <2>2. Goto(e, "patch", count_stripes(e, rec[e].draft)) \/ Goto(e, "patch", rec[e].draft)
    BY <1>4 DEF CountStripes
  <2>3. "patch" \in Pcs /\ count_stripes(e, rec[e].draft) \in Statuses
    BY <1>0, CountsInBounds DEF Pcs
  <2> QED
    BY <1>0, <2>1, <2>2, <2>3, EcGoes
<1>5. CASE PatchStatus(e)
  <2>1. errors' \in 0..MaxErrors /\ Unchanged
    BY <1>5, EcCalls DEF PatchStatus
  <2>2. Waiting \in [pc : Pcs, draft : Statuses]
    BY UnreportedIs DEF Waiting, Pcs
  <2>3. rec' \in [EcPolicies -> [pc : Pcs, draft : Statuses]]
    BY <1>5, <2>2 DEF PatchStatus, EcTypeOK
  <2>4. status' \in [EcPolicies -> Statuses]
    BY <1>0, <1>5 DEF PatchStatus, EcTypeOK
  <2> QED
    BY <2>1, <2>3, <2>4 DEF EcTypeOK, Unchanged
<1> QED
  BY <1>1, <1>2, <1>3, <1>4, <1>5 DEF Reconcile

LEMMA EditKeepsTypes ==
  ASSUME EcTypeOK, Edit
  PROVE  EcTypeOK'
<1>1. edits' \in 0..MaxEdits
  BY EcNumbers DEF EcTypeOK, Edit
<1>2. spec' \in [EcPolicies -> Specs]
  BY DEF EcTypeOK, Edit
<1>3. referrer' \in [Referrers -> Usages]
  BY DEF EcTypeOK, Edit
<1>4. stripes' \in [EcStripes -> StripeObjects]
  BY DEF EcTypeOK, Edit
<1> QED
  BY <1>1, <1>2, <1>3, <1>4 DEF EcTypeOK, Edit

LEMMA EcInitTypes == EcInit => EcTypeOK
<1> SUFFICES ASSUME EcInit PROVE EcTypeOK
  OBVIOUS
<1>1. [ec_policy_ref |-> NoPolicy, watched |-> 0] \in Usages
  BY EcNumbers DEF Usages
<1>2. NoStripe \in StripeObjects
  BY DEF StripeObjects
<1>3. Waiting \in [pc : Pcs, draft : Statuses]
  BY UnreportedIs DEF Waiting, Pcs
<1> QED
  BY <1>1, <1>2, <1>3, UnreportedIs, EcNumbers DEF EcInit, EcTypeOK

LEMMA EcStep == EcTypeOK /\ [EcNext]_ecVars => EcTypeOK'
<1> SUFFICES ASSUME EcTypeOK, [EcNext]_ecVars PROVE EcTypeOK'
  OBVIOUS
<1>1. CASE Edit
  BY <1>1, EditKeepsTypes
<1>2. CASE \E e \in EcPolicies : Reconcile(e)
  BY <1>2, ReconcileKeepsTypes
<1>3. CASE UNCHANGED ecVars
  BY <1>3 DEF ecVars, EcTypeOK
<1> QED
  BY <1>1, <1>2, <1>3 DEF EcNext

-----------------------------------------------------------------------------
(* The metrics collector.                                                  *)

ThreadStates ==
  [pc : {"idle", "missed", "holds"}, name : Series \union {Idle.name}, id : Nat]

\* A name has a counter of its own, the one that threads hold for it; number 0 is none.
CollectorInv ==
  /\ \E n \in Nat : value \in [0..n -> Nat]
  /\ registry \in [Series -> DOMAIN value] /\ expected \in [Series -> Nat]
  /\ value[0] = 0
  /\ \A s, u \in Series : registry[s] = registry[u] /\ registry[s] # 0 => s = u
  /\ thread \in [Threads -> ThreadStates]
  /\ \A t \in Threads :
       /\ thread[t].pc # "idle" => thread[t].name \in Series
       /\ thread[t].pc = "holds" => thread[t].id = registry[thread[t].name] /\ thread[t].id # 0
  /\ IncrementsAreExported

LEMMA IdleThread == Idle \in ThreadStates /\ Idle.pc = "idle"
BY DEF Idle, ThreadStates

LEMMA CollectorBegins == CollectorInit => CollectorInv
<1> SUFFICES ASSUME CollectorInit PROVE CollectorInv
  OBVIOUS
<1>1. value \in [0..0 -> Nat] /\ value[0] = 0 /\ DOMAIN value = {0}
  BY DEF CollectorInit
<1>2. registry \in [Series -> DOMAIN value] /\ expected \in [Series -> Nat]
  BY <1>1 DEF CollectorInit
<1>3. \A s \in Series : registry[s] = 0 /\ expected[s] = 0
  BY DEF CollectorInit
<1>4. thread \in [Threads -> ThreadStates] /\ \A t \in Threads : thread[t].pc = "idle"
  BY IdleThread DEF CollectorInit
<1> QED
  BY <1>1, <1>2, <1>3, <1>4 DEF CollectorInv, IncrementsAreExported

LEMMA LooksUp ==
  ASSUME CollectorInv, NEW t \in Threads, NEW s \in Series, LookUpCounter(t, s)
  PROVE  CollectorInv'
<1>1. registry[s] \in Nat
  BY DEF CollectorInv
<1>2. PICK x : x = [pc |-> IF registry[s] = 0 THEN "missed" ELSE "holds", name |-> s, id |-> registry[s]]
  OBVIOUS
<1>3. x \in ThreadStates /\ x.name = s /\ x.id = registry[s] /\ (x.pc = "holds" => registry[s] # 0)
  BY <1>1, <1>2 DEF ThreadStates
<1>4. thread' = [thread EXCEPT ![t] = x] /\ UNCHANGED <<registry, value, expected>>
  BY <1>2 DEF LookUpCounter
<1>5. thread' \in [Threads -> ThreadStates]
  BY <1>3, <1>4 DEF CollectorInv
<1>6. \A u \in Threads :
        /\ thread'[u].pc # "idle" => thread'[u].name \in Series
        /\ thread'[u].pc = "holds" => thread'[u].id = registry[thread'[u].name] /\ thread'[u].id # 0
  BY <1>3, <1>4 DEF CollectorInv
<1> QED
  BY <1>4, <1>5, <1>6 DEF CollectorInv, IncrementsAreExported

LEMMA NewIdIs ==
  ASSUME NEW n \in Nat, value \in [0..n -> Nat]
  PROVE  NewId = n + 1
<1>1. IsFiniteSet(0..n) /\ Cardinality(0..n) = n + 1
  BY FS_Interval
<1> QED
  BY <1>1 DEF NewId

LEMMA Creates ==
  ASSUME CollectorInv, NEW t \in Threads, CreateCounter(t)
  PROVE  CollectorInv'
<1> DEFINE s == thread[t].name
           id == IF registry[s] = 0 THEN NewId ELSE registry[s]
<1>1. PICK n \in Nat : value \in [0..n -> Nat]
  BY DEF CollectorInv
<1>2. s \in Series /\ thread[t].pc = "missed"
  BY DEF CollectorInv, CreateCounter
<1>3. /\ registry' = [registry EXCEPT ![s] = id]
      /\ value' = [i \in DOMAIN value \union {id} |-> IF i \in DOMAIN value THEN value[i] ELSE 0]
      /\ thread' = [thread EXCEPT ![t].pc = "holds", ![t].id = id]
      /\ UNCHANGED <<begun, expected>>
  BY DEF CreateCounter
<1>4. NewId = n + 1
  BY <1>1, NewIdIs
<1>5. \A u \in Series : registry[u] \in 0..n
  BY <1>1 DEF CollectorInv
<1>6. id \in Nat /\ id # 0 /\ (id = n + 1 <=> registry[s] = 0) /\ (registry[s] # 0 => id = registry[s])
  BY <1>2, <1>4, <1>5
<1> HIDE DEF id, s
<1>7. PICK m \in Nat : /\ value' \in [0..m -> Nat] /\ n <= m /\ id \in 0..m
                       /\ \A i \in 0..n : value'[i] = value[i]
                       /\ (id = n + 1 => value'[id] = 0)
  <2>1. CASE registry[s] = 0
    <3>1. id = n + 1 /\ (0..n) \union {id} = 0..(n + 1)
      BY <1>6, <2>1
    <3>2. value' \in [0..(n + 1) -> Nat] /\ \A i \in 0..n : value'[i] = value[i]
      BY <1>1, <1>3, <3>1
    <3>3. value'[id] = 0 /\ n + 1 \in Nat /\ id \in 0..(n + 1)
      BY <1>1, <1>3, <3>1
    <3> QED
      BY <3>2, <3>3
  <2>2. CASE registry[s] # 0
    <3>1. id \in 0..n /\ (0..n) \union {id} = 0..n /\ id # n + 1
      BY <1>2, <1>5, <1>6, <2>2
    <3>2. value' \in [0..n -> Nat] /\ \A i \in 0..n : value'[i] = value[i]
      BY <1>1, <1>3, <3>1
    <3> QED
      BY <3>1, <3>2
  <2> QED
    BY <2>1, <2>2
<1>8. \A u \in Series : registry'[u] = IF u = s THEN id ELSE registry[u]
  BY <1>2, <1>3 DEF CollectorInv
<1>9. registry' \in [Series -> DOMAIN value'] /\ expected' \in [Series -> Nat] /\ value'[0] = 0
  <2>1. \A u \in Series : registry'[u] \in 0..m
    BY <1>5, <1>7, <1>8
  <2>2. DOMAIN registry' = Series /\ registry' = [u \in Series |-> registry'[u]]
    BY <1>3 DEF CollectorInv
  <2>3. value'[0] = 0
    BY <1>7 DEF CollectorInv
  <2> QED
    BY <1>3, <1>7, <2>1, <2>2, <2>3 DEF CollectorInv
<1>10. \A a, b \in Series : registry'[a] = registry'[b] /\ registry'[a] # 0 => a = b
  BY <1>2, <1>5, <1>6, <1>8 DEF CollectorInv
<1>11. thread' \in [Threads -> ThreadStates]
  <2>1. thread[t] \in ThreadStates /\ thread \in [Threads -> ThreadStates]
    BY DEF CollectorInv
  <2>2. [thread[t] EXCEPT !.pc = "holds", !.id = id] \in ThreadStates
    BY <1>6, <2>1 DEF ThreadStates
  <2>3. thread' = [thread EXCEPT ![t] = [thread[t] EXCEPT !.pc = "holds", !.id = id]]
    BY <1>3, <2>1
  <2> QED
    BY <2>1, <2>2, <2>3
<1>12. ASSUME NEW u \in Threads
       PROVE  /\ thread'[u].pc # "idle" => thread'[u].name \in Series
              /\ thread'[u].pc = "holds" => thread'[u].id = registry'[thread'[u].name] /\ thread'[u].id # 0
  <2>1. CASE u = t
    <3>1. thread'[u].name = s /\ thread'[u].id = id
      BY <1>3, <2>1 DEF CollectorInv, ThreadStates, s
    <3> QED
      BY <1>2, <1>6, <1>8, <3>1
  <2>2. CASE u # t
    <3>1. thread'[u] = thread[u]
      BY <1>3, <2>2 DEF CollectorInv
    <3>2. thread[u].pc = "holds" => registry'[thread[u].name] = registry[thread[u].name]
      BY <1>6, <1>8 DEF CollectorInv
    <3> QED
      BY <3>1, <3>2 DEF CollectorInv
  <2> QED
    BY <2>1, <2>2
<1>13. IncrementsAreExported'
  <2> SUFFICES ASSUME NEW u \in Series PROVE value'[registry'[u]] = expected'[u]
    BY DEF IncrementsAreExported
  <2>1. value[registry[u]] = expected[u] /\ expected'[u] = expected[u]
    BY <1>3 DEF CollectorInv, IncrementsAreExported
  <2>2. CASE u # s \/ registry[s] # 0
    <3>1. registry'[u] = registry[u]
      BY <1>6, <1>8, <2>2
    <3> QED
      BY <1>5, <1>7, <2>1, <3>1
  <2>3. CASE u = s /\ registry[s] = 0
    <3>1. value'[registry'[u]] = 0
      BY <1>6, <1>7, <1>8, <2>3
    <3> QED
      BY <2>1, <2>3, <3>1 DEF CollectorInv
  <2> QED
    BY <2>2, <2>3
<1> QED
  BY <1>7, <1>9, <1>10, <1>11, <1>12, <1>13 DEF CollectorInv

LEMMA Increments ==
  ASSUME CollectorInv, NEW t \in Threads, Inc(t)
  PROVE  CollectorInv'
<1> DEFINE s == thread[t].name
           id == thread[t].id
<1>1. PICK n \in Nat : value \in [0..n -> Nat]
  BY DEF CollectorInv
<1>2. s \in Series /\ id = registry[s] /\ id # 0 /\ id \in 0..n
  BY <1>1 DEF CollectorInv, Inc
<1>3. /\ value' = [value EXCEPT ![id] = @ + 1] /\ expected' = [expected EXCEPT ![s] = @ + 1]
      /\ thread' = [thread EXCEPT ![t] = Idle] /\ UNCHANGED registry
  BY DEF Inc
<1> HIDE DEF s, id
<1>4. value' \in [0..n -> Nat] /\ expected' \in [Series -> Nat] /\ DOMAIN value' = DOMAIN value
  BY <1>1, <1>2, <1>3 DEF CollectorInv
<1>5. value'[0] = 0
  BY <1>1, <1>2, <1>3 DEF CollectorInv
<1>6. thread' \in [Threads -> ThreadStates] /\ \A u \in Threads :
        /\ thread'[u].pc # "idle" => thread'[u].name \in Series
        /\ thread'[u].pc = "holds" => thread'[u].id = registry[thread'[u].name] /\ thread'[u].id # 0
  BY <1>3, IdleThread DEF CollectorInv
<1>7. IncrementsAreExported'
  <2> SUFFICES ASSUME NEW u \in Series PROVE value'[registry[u]] = expected'[u]
    BY <1>3 DEF IncrementsAreExported
  <2>1. value[registry[u]] = expected[u] /\ registry[u] \in 0..n
    BY <1>1 DEF CollectorInv, IncrementsAreExported
  <2>2. CASE u = s
    BY <1>1, <1>2, <1>3, <2>1, <2>2 DEF CollectorInv
  <2>3. CASE u # s
    <3>1. registry[u] # id
      BY <1>2, <2>3 DEF CollectorInv
    <3> QED
      BY <1>1, <1>2, <1>3, <2>1, <2>3, <3>1 DEF CollectorInv
  <2> QED
    BY <2>2, <2>3
<1> QED
  BY <1>3, <1>4, <1>5, <1>6, <1>7 DEF CollectorInv

LEMMA Resets ==
  ASSUME CollectorInv, NEW s \in Series, ResetCounter(s)
  PROVE  CollectorInv'
<1>1. PICK n \in Nat : value \in [0..n -> Nat]
  BY DEF CollectorInv
<1>2. registry[s] # 0 /\ registry[s] \in 0..n
  BY <1>1 DEF CollectorInv, ResetCounter
<1>3. /\ value' = [value EXCEPT ![registry[s]] = 0] /\ expected' = [expected EXCEPT ![s] = 0]
      /\ UNCHANGED <<registry, thread>>
  BY DEF ResetCounter
<1>4. value' \in [0..n -> Nat] /\ expected' \in [Series -> Nat] /\ DOMAIN value' = DOMAIN value
  BY <1>1, <1>2, <1>3 DEF CollectorInv
<1>5. value'[0] = 0
  BY <1>1, <1>2, <1>3 DEF CollectorInv
<1>7. IncrementsAreExported'
  <2> SUFFICES ASSUME NEW u \in Series PROVE value'[registry[u]] = expected'[u]
    BY <1>3 DEF IncrementsAreExported
  <2>1. value[registry[u]] = expected[u] /\ registry[u] \in 0..n
    BY <1>1 DEF CollectorInv, IncrementsAreExported
  <2>2. u # s => registry[u] # registry[s]
    BY <1>2 DEF CollectorInv
  <2> QED
    BY <1>1, <1>2, <1>3, <2>1, <2>2 DEF CollectorInv
<1> QED
  BY <1>3, <1>4, <1>5, <1>7 DEF CollectorInv

LEMMA CollectorStep == CollectorInv /\ [CollectorNext]_collectorVars => CollectorInv'
<1> SUFFICES ASSUME CollectorInv, [CollectorNext]_collectorVars PROVE CollectorInv'
  OBVIOUS
<1>1. CASE CollectorNext
  BY <1>1, LooksUp, Creates, Increments, Resets DEF CollectorNext
<1>2. CASE UNCHANGED collectorVars
  BY <1>2 DEF collectorVars, CollectorInv, IncrementsAreExported
<1> QED
  BY <1>1, <1>2

-----------------------------------------------------------------------------
(* The sharded map.                                                        *)

Contents == [MapKeys -> 0..MaxSize]
KeysIn(en, i) == {key \in MapKeys : en[key] > 0 /\ shard_index(key) = i}
BytesIn(en, i) == SumOf([key \in KeysIn(en, i) |-> en[key]])

MapCalls == [pc : {"idle", "clear", "insert"}, key : MapKeys \union {0}, left : SUBSET ShardIds]
Counts == [ShardIds -> 0..(MapWidth - 1)]

MapInv ==
  /\ entries \in Contents /\ count \in Counts /\ sizes \in Counts
  /\ mapCall \in [MapTasks -> MapCalls]
  /\ \A t \in MapTasks : mapCall[t].pc = "insert" => mapCall[t].key \in MapKeys
  /\ mapSeen \in [calls : Nat, resized : BOOLEAN]
  /\ EntriesAreCounted

LEMMA MapNumbers ==
  /\ ShardCount \in Nat \ {0} /\ MaxSize \in Nat \ {0} /\ MapWidth \in Nat \ {0}
  /\ MapKeys \subseteq Nat /\ IsFiniteSet(MapKeys) /\ Cardinality(MapKeys) \in Nat
  /\ MaxSize * Cardinality(MapKeys) < MapWidth /\ Cardinality(MapKeys) < MapWidth
  /\ \A key \in MapKeys : shard_index(key) \in ShardIds
<1>1. /\ ShardCount \in Nat \ {0} /\ MaxSize \in Nat \ {0} /\ MapWidth \in Nat \ {0}
      /\ MapKeys \subseteq Nat /\ IsFiniteSet(MapKeys)
      /\ Cardinality(MapKeys) * MaxSize < MapWidth
  BY MapAssumption
<1>2. Cardinality(MapKeys) \in Nat
  BY <1>1, FS_CardinalityType
<1>3. \A c, m \in Nat : m # 0 => c <= c * m /\ m * c = c * m
  <2> SUFFICES ASSUME NEW c \in Nat, NEW m \in Nat, m # 0 PROVE c <= c * m /\ m * c = c * m
    OBVIOUS
  <2>1. PICK k \in Nat : m = k + 1
    <3>1. m - 1 \in Nat /\ m = (m - 1) + 1
      OBVIOUS
    <3> QED
      BY <3>1
  <2>2. c * (k + 1) = c * k + c /\ c * k \in Nat
    OBVIOUS
  <2>3. c <= c * m
    BY <2>1, <2>2
  <2> QED
    BY <2>3
<1>4. \A key \in MapKeys : shard_index(key) \in ShardIds
  BY <1>1 DEF shard_index, ShardIds
<1>5. /\ Cardinality(MapKeys) <= Cardinality(MapKeys) * MaxSize
      /\ MaxSize * Cardinality(MapKeys) = Cardinality(MapKeys) * MaxSize
  BY <1>1, <1>2, <1>3
<1>6. PICK n \in Nat : n = Cardinality(MapKeys) * MaxSize
  BY <1>1, <1>2
<1>7. Cardinality(MapKeys) < MapWidth /\ MaxSize * Cardinality(MapKeys) < MapWidth
  <2>1. Cardinality(MapKeys) <= n /\ n < MapWidth
    BY <1>1, <1>5, <1>6
  <2> QED
    BY <1>1, <1>2, <1>5, <1>6, <2>1
<1> QED
  BY <1>1, <1>2, <1>4, <1>7

\* Entries and bytes of a shard fit the counters.
LEMMA ShardFits ==
  ASSUME NEW en \in Contents, NEW i
  PROVE  /\ IsFiniteSet(KeysIn(en, i))
         /\ Cardinality(KeysIn(en, i)) \in Nat /\ Cardinality(KeysIn(en, i)) < MapWidth
         /\ BytesIn(en, i) \in Nat /\ BytesIn(en, i) < MapWidth
         /\ [key \in KeysIn(en, i) |-> en[key]] \in [KeysIn(en, i) -> Nat]
<1>1. PICK D, f : D = KeysIn(en, i) /\ f = [key \in D |-> en[key]]
  OBVIOUS
<1>2. D \subseteq MapKeys /\ f \in [D -> 0..MaxSize] /\ f \in [D -> Nat]
  <2>1. D \subseteq MapKeys
    BY <1>1 DEF KeysIn
  <2>2. \A x \in D : en[x] \in 0..MaxSize
    BY <2>1 DEF Contents
  <2>3. \A x \in D : en[x] \in Nat
    BY <2>2, MapNumbers
  <2> QED
    BY <1>1, <2>1, <2>2, <2>3
<1>3. IsFiniteSet(D) /\ Cardinality(D) \in Nat /\ Cardinality(D) <= Cardinality(MapKeys)
  BY <1>2, MapNumbers, FS_Subset, FS_CardinalityType
<1>4. SumOf(f) \in Nat /\ SumOf(f) <= MaxSize * Cardinality(D)
  BY <1>2, <1>3, MapNumbers, SumBound
<1>5. \A a, b, c \in Nat : a <= b => c * a <= c * b /\ c * a \in Nat
  OBVIOUS
<1>6. PICK p, q \in Nat : p = MaxSize * Cardinality(D) /\ q = MaxSize * Cardinality(MapKeys)
  BY <1>3, MapNumbers
<1>7. p <= q
  BY <1>3, <1>5, <1>6, MapNumbers
<1>8. q < MapWidth
  BY <1>6, MapNumbers
<1>9. SumOf(f) < MapWidth
  <2>1. SumOf(f) <= p
    BY <1>4, <1>6
  <2> QED
    BY <1>4, <1>7, <1>8, <2>1, MapNumbers
<1>10. Cardinality(D) < MapWidth
  BY <1>3, MapNumbers
<1>11. BytesIn(en, i) = SumOf(f)
  BY <1>1 DEF BytesIn
<1> QED
  BY <1>1, <1>2, <1>3, <1>4, <1>9, <1>10, <1>11

\* fn has an entry that en has not: what this does to the shards.
Grown(en, fn, key, size) ==
  \A i : /\ i = shard_index(key) =>
              /\ Cardinality(KeysIn(fn, i)) = Cardinality(KeysIn(en, i)) + 1
              /\ BytesIn(fn, i) = BytesIn(en, i) + size
         /\ i # shard_index(key) =>
              KeysIn(fn, i) = KeysIn(en, i) /\ BytesIn(fn, i) = BytesIn(en, i)

LEMMA ShardGrows ==
  ASSUME NEW en \in Contents, NEW key \in MapKeys, NEW size \in 1..MaxSize, en[key] = 0,
         NEW fn \in Contents, fn = [en EXCEPT ![key] = size]
  PROVE  Grown(en, fn, key, size)
<1> SUFFICES ASSUME NEW i
    PROVE  /\ i = shard_index(key) =>
                /\ Cardinality(KeysIn(fn, i)) = Cardinality(KeysIn(en, i)) + 1
                /\ BytesIn(fn, i) = BytesIn(en, i) + size
           /\ i # shard_index(key) =>
                KeysIn(fn, i) = KeysIn(en, i) /\ BytesIn(fn, i) = BytesIn(en, i)
  BY DEF Grown
<1>1. size \in Nat /\ size > 0 /\ \A x \in MapKeys : fn[x] = IF x = key THEN size ELSE en[x]
  BY MapNumbers DEF Contents
<1>2. CASE i = shard_index(key)
  <2>1. PICK D, E : D = KeysIn(fn, i) /\ E = KeysIn(en, i)
    OBVIOUS
  <2>2. key \in D /\ key \notin E /\ \A x : x \in E <=> x \in D /\ x # key
    BY <1>1, <1>2, <2>1 DEF KeysIn
  <2>3. PICK f, g : f = [x \in D |-> fn[x]] /\ g = [x \in E |-> en[x]]
    OBVIOUS
  <2>4. /\ f \in [D -> Nat] /\ g \in [E -> Nat] /\ IsFiniteSet(D) /\ IsFiniteSet(E)
        /\ BytesIn(fn, i) = SumOf(f) /\ BytesIn(en, i) = SumOf(g)
    BY <2>1, <2>3, ShardFits DEF BytesIn
  <2>5. f[key] = size /\ \A x \in E : f[x] = g[x]
    BY <1>1, <2>1, <2>2, <2>3 DEF KeysIn
  <2>6. SumOf(f) = f[key] + SumOf(g) /\ SumOf(g) \in Nat
    BY <2>2, <2>4, <2>5, SumStep
  <2>7. D = E \union {key}
    BY <2>2
  <2>8. Cardinality(D) = Cardinality(E) + 1
    BY <2>2, <2>4, <2>7, FS_AddElement
  <2> QED
    BY <1>1, <1>2, <2>1, <2>4, <2>5, <2>6, <2>8
<1>3. CASE i # shard_index(key)
  <2>1. KeysIn(fn, i) = KeysIn(en, i)
    BY <1>1, <1>3 DEF KeysIn
  <2>2. [x \in KeysIn(fn, i) |-> fn[x]] = [x \in KeysIn(en, i) |-> en[x]]
    BY <1>1, <1>3, <2>1 DEF KeysIn
  <2> QED
    BY <1>3, <2>1, <2>2 DEF BytesIn
<1> QED
  BY <1>2, <1>3

\* EntriesAreCounted, said of any contents.
LEMMA CountedIs ==
  /\ EntriesAreCounted <=>
       \A i \in ShardIds : /\ count[i] = Cardinality(KeysIn(entries, i))
                           /\ ~mapSeen.resized => sizes[i] = BytesIn(entries, i)
  /\ EntriesAreCounted' <=>
       \A i \in ShardIds : /\ count'[i] = Cardinality(KeysIn(entries', i))
                           /\ ~mapSeen'.resized => sizes'[i] = BytesIn(entries', i)
BY Zenon DEF EntriesAreCounted, KeysOf, Present, KeysIn, BytesIn

LEMMA PutsCounts ==
  ASSUME MapInv, NEW key \in MapKeys, NEW size \in 1..MaxSize, ~Present(key), Puts(key, size),
         mapSeen'.resized = mapSeen.resized
  PROVE  /\ entries' \in Contents /\ count' \in Counts /\ sizes' \in Counts
         /\ EntriesAreCounted'
<1>1. PICK i \in ShardIds : i = shard_index(key)
  BY MapNumbers
<1>2. entries[key] = 0 /\ entries \in Contents
  <2>1. entries \in Contents /\ entries[key] \in 0..MaxSize /\ ~(entries[key] > 0)
    BY DEF MapInv, Contents, Present
  <2> QED
    BY <2>1, MapNumbers
<1>3. entries' \in Contents /\ entries' = [entries EXCEPT ![key] = size]
  BY <1>2, MapNumbers DEF Puts, Contents
<1>9. Grown(entries, entries', key, size)
  BY <1>2, <1>3, ShardGrows
<1>4. /\ count' = [count EXCEPT ![i] = (count[i] + 1) % MapWidth]
      /\ sizes' = [sizes EXCEPT ![i] = (sizes[i] + size) % MapWidth]
  BY <1>1 DEF Puts
<1>5. /\ count \in Counts /\ sizes \in Counts /\ size \in Nat
      /\ count[i] \in Nat /\ sizes[i] \in Nat
      /\ (count[i] + 1) % MapWidth \in 0..(MapWidth - 1)
      /\ (sizes[i] + size) % MapWidth \in 0..(MapWidth - 1)
  BY MapNumbers DEF MapInv, Counts
<1>6. count' \in Counts /\ sizes' \in Counts
  BY <1>4, <1>5 DEF Counts
<1>7. \A n \in Nat : n < MapWidth => n % MapWidth = n
  BY MapNumbers
<1>8. ASSUME NEW j \in ShardIds
      PROVE  /\ count'[j] = Cardinality(KeysIn(entries', j))
             /\ ~mapSeen'.resized => sizes'[j] = BytesIn(entries', j)
  <2>1. /\ count[j] = Cardinality(KeysIn(entries, j))
        /\ ~mapSeen.resized => sizes[j] = BytesIn(entries, j)
    BY CountedIs DEF MapInv
  <2>2. CASE j = i
    <3>1. /\ Cardinality(KeysIn(entries', i)) = count[i] + 1
          /\ ~mapSeen.resized => BytesIn(entries', i) = sizes[i] + size
      BY <1>1, <1>9, <2>1, <2>2 DEF Grown
    <3>2. /\ Cardinality(KeysIn(entries', i)) \in Nat /\ Cardinality(KeysIn(entries', i)) < MapWidth
          /\ BytesIn(entries', i) \in Nat /\ BytesIn(entries', i) < MapWidth
      BY <1>3, ShardFits
    <3>3. count'[i] = (count[i] + 1) % MapWidth /\ sizes'[i] = (sizes[i] + size) % MapWidth
      BY <1>4, <1>5 DEF Counts
    <3> QED
      BY <1>7, <2>1, <2>2, <3>1, <3>2, <3>3
  <2>3. CASE j # i
    <3>1. /\ KeysIn(entries', j) = KeysIn(entries, j) /\ BytesIn(entries', j) = BytesIn(entries, j)
      BY <1>1, <1>9, <2>3 DEF Grown
    <3>2. count'[j] = count[j] /\ sizes'[j] = sizes[j]
      BY <1>4, <1>5, <2>3 DEF Counts
    <3> QED
      BY <2>1, <3>1, <3>2
  <2> QED
    BY <2>2, <2>3
<1> QED
  BY <1>3, <1>6, <1>8, CountedIs

\* Taking away, modulo the width.
LEMMA TakesAway ==
  ASSUME NEW n \in Nat, NEW m \in Nat, n + m < MapWidth
  PROVE  (n + m + MapWidth - m) % MapWidth = n /\ (n + m + MapWidth - m) \in Nat
<1>1. MapWidth \in Nat \ {0}
  BY MapNumbers
<1>2. n + m + MapWidth - m = n + MapWidth
  BY <1>1
<1>3. n < MapWidth
  BY <1>1
<1>4. \A w \in Nat \ {0} : \A k \in Nat : k < w => (k + w) % w = k
  OBVIOUS
<1> QED
  BY <1>1, <1>2, <1>3, <1>4

LEMMA RemovesCounts ==
  ASSUME MapInv, NEW key \in MapKeys, NEW size \in 1..MaxSize, Present(key),
         entries' = [entries EXCEPT ![key] = 0],
         count' = [count EXCEPT ![shard_index(key)] = (@ + MapWidth - 1) % MapWidth],
         sizes' = [sizes EXCEPT ![shard_index(key)] = (@ + MapWidth - size) % MapWidth],
         mapSeen'.resized = (mapSeen.resized \/ size # entries[key])
  PROVE  /\ entries' \in Contents /\ count' \in Counts /\ sizes' \in Counts
         /\ EntriesAreCounted'
<1>1. PICK i \in ShardIds : i = shard_index(key)
  BY MapNumbers
<1>2. PICK old \in 1..MaxSize : old = entries[key]
  <2>1. entries[key] \in 0..MaxSize /\ entries[key] > 0
    BY DEF MapInv, Contents, Present
  <2> QED
    BY <2>1, MapNumbers
<1>3. entries \in Contents /\ entries' \in Contents /\ entries'[key] = 0
  BY MapNumbers DEF MapInv, Contents
<1>4. entries = [entries' EXCEPT ![key] = old]
  BY <1>2 DEF MapInv, Contents
<1>5. Grown(entries', entries, key, old)
  BY <1>3, <1>4, ShardGrows
<1>6. /\ count' = [count EXCEPT ![i] = (count[i] + MapWidth - 1) % MapWidth]
      /\ sizes' = [sizes EXCEPT ![i] = (sizes[i] + MapWidth - size) % MapWidth]
  BY <1>1
<1>7. /\ count \in Counts /\ sizes \in Counts /\ size \in Nat
      /\ count[i] \in Nat /\ sizes[i] \in Nat
      /\ (count[i] + MapWidth - 1) % MapWidth \in 0..(MapWidth - 1)
      /\ (sizes[i] + MapWidth - size) % MapWidth \in 0..(MapWidth - 1)
  <2>1. count \in Counts /\ sizes \in Counts /\ size \in Nat /\ count[i] \in Nat /\ sizes[i] \in Nat
    BY MapNumbers DEF MapInv, Counts
  <2>2. \A w \in Nat \ {0} : \A n, m \in Nat : (n + w - m) % w \in 0..(w - 1)
    OBVIOUS
  <2> QED
    BY <2>1, <2>2, MapNumbers
<1>8. count' \in Counts /\ sizes' \in Counts
  BY <1>6, <1>7 DEF Counts
<1>9. ASSUME NEW j \in ShardIds
      PROVE  /\ count'[j] = Cardinality(KeysIn(entries', j))
             /\ ~mapSeen'.resized => sizes'[j] = BytesIn(entries', j)
  <2>1. /\ count[j] = Cardinality(KeysIn(entries, j))
        /\ ~mapSeen.resized => sizes[j] = BytesIn(entries, j)
    BY CountedIs DEF MapInv
  <2>2. CASE j = i
    <3>1. PICK n, b \in Nat : n = Cardinality(KeysIn(entries', i)) /\ b = BytesIn(entries', i)
      BY <1>3, ShardFits
    <3>2. count[i] = n + 1 /\ (~mapSeen.resized => sizes[i] = b + old)
      BY <1>1, <1>5, <2>1, <2>2, <3>1 DEF Grown
    <3>3. n + 1 < MapWidth /\ (~mapSeen.resized => b + old < MapWidth)
      BY <1>3, <2>1, <2>2, <3>2, ShardFits
    <3>4. count'[i] = (count[i] + MapWidth - 1) % MapWidth
          /\ sizes'[i] = (sizes[i] + MapWidth - size) % MapWidth
      BY <1>6, <1>7 DEF Counts
    <3>5. count'[i] = n
      BY <3>1, <3>2, <3>3, <3>4, TakesAway
    <3>6. ASSUME ~mapSeen'.resized PROVE sizes'[i] = b
      <4>1. ~mapSeen.resized /\ size = old
        BY <1>2, <3>6
      <4> QED
        BY <1>2, <1>7, <3>1, <3>2, <3>3, <3>4, <4>1, TakesAway
    <3> QED
      BY <2>2, <3>1, <3>5, <3>6
  <2>3. CASE j # i
    <3>1. /\ KeysIn(entries', j) = KeysIn(entries, j) /\ BytesIn(entries', j) = BytesIn(entries, j)
      BY <1>1, <1>5, <2>3 DEF Grown
    <3>2. count'[j] = count[j] /\ sizes'[j] = sizes[j] /\ (~mapSeen'.resized => ~mapSeen.resized)
      BY <1>6, <1>7, <2>3 DEF Counts
    <3> QED
      BY <2>1, <3>1, <3>2
  <2> QED
    BY <2>2, <2>3
<1> QED
  BY <1>3, <1>8, <1>9, CountedIs

\* A shard that is emptied.
LEMMA EmptiesCounts ==
  ASSUME MapInv, NEW i \in ShardIds,
         entries' = [key \in MapKeys |-> IF shard_index(key) = i THEN 0 ELSE entries[key]],
         count' = [count EXCEPT ![i] = 0], sizes' = [sizes EXCEPT ![i] = 0], UNCHANGED mapSeen
  PROVE  /\ entries' \in Contents /\ count' \in Counts /\ sizes' \in Counts
         /\ EntriesAreCounted'
<1>1. entries' \in Contents /\ count' \in Counts /\ sizes' \in Counts
  BY MapNumbers DEF MapInv, Contents, Counts
<1>2. ASSUME NEW j \in ShardIds
      PROVE  /\ count'[j] = Cardinality(KeysIn(entries', j))
             /\ ~mapSeen'.resized => sizes'[j] = BytesIn(entries', j)
  <2>1. /\ count[j] = Cardinality(KeysIn(entries, j))
        /\ ~mapSeen.resized => sizes[j] = BytesIn(entries, j)
    BY CountedIs DEF MapInv
  <2>2. CASE j = i
    <3>1. KeysIn(entries', j) = {}
      BY <2>2 DEF KeysIn
    <3>2. \A f \in [{} -> Nat] : SumOf(f) = 0
      BY SumEmpty
    <3>3. Cardinality(KeysIn(entries', j)) = 0 /\ BytesIn(entries', j) = 0
      BY <3>1, <3>2, FS_EmptySet DEF BytesIn
    <3>4. count'[j] = 0 /\ sizes'[j] = 0
      BY <2>2 DEF MapInv, Counts
    <3> QED
      BY <3>3, <3>4
  <2>3. CASE j # i
    <3>1. KeysIn(entries', j) = KeysIn(entries, j)
      BY <2>3 DEF KeysIn
    <3>2. [key \in KeysIn(entries', j) |-> entries'[key]] = [key \in KeysIn(entries, j) |-> entries[key]]
      BY <2>3, <3>1 DEF KeysIn
    <3>3. BytesIn(entries', j) = BytesIn(entries, j)
      BY <3>2 DEF BytesIn
    <3>4. count'[j] = count[j] /\ sizes'[j] = sizes[j]
      BY <2>3 DEF MapInv, Counts
    <3> QED
      BY <2>1, <3>1, <3>3, <3>4
  <2> QED
    BY <2>2, <2>3
<1> QED
  BY <1>1, <1>2, CountedIs

LEMMA MapBegins == MapInit => MapInv
<1> SUFFICES ASSUME MapInit PROVE MapInv
  OBVIOUS
<1>1. /\ entries \in Contents /\ count \in Counts /\ sizes \in Counts
      /\ mapCall \in [MapTasks -> MapCalls] /\ \A t \in MapTasks : mapCall[t].pc = "idle"
      /\ mapSeen \in [calls : Nat, resized : BOOLEAN]
  BY MapNumbers DEF MapInit, Contents, Counts, MapCalls, NoMapCall
<1>2. ASSUME NEW i \in ShardIds
      PROVE  count[i] = Cardinality(KeysIn(entries, i)) /\ sizes[i] = BytesIn(entries, i)
  <2>1. KeysIn(entries, i) = {}
    BY DEF KeysIn, MapInit
  <2>2. \A f \in [{} -> Nat] : SumOf(f) = 0
    BY SumEmpty
  <2> QED
    BY <2>1, <2>2, FS_EmptySet DEF BytesIn, MapInit
<1> QED
  BY <1>1, <1>2, CountedIs DEF MapInv

\* Calls that leave the map alone.
LEMMA MapRests ==
  ASSUME MapInv, UNCHANGED <<entries, count, sizes>>,
         mapSeen.resized => mapSeen'.resized
  PROVE  /\ entries' \in Contents /\ count' \in Counts /\ sizes' \in Counts
         /\ EntriesAreCounted'
<1>1. ~mapSeen'.resized => ~mapSeen.resized
  OBVIOUS
<1>2. \A i \in ShardIds : /\ count'[i] = Cardinality(KeysIn(entries', i))
                          /\ ~mapSeen'.resized => sizes'[i] = BytesIn(entries', i)
  BY <1>1, CountedIs DEF MapInv
<1> QED
  BY <1>2, CountedIs DEF MapInv

LEMMA CallStates ==
  ASSUME MapInv, NEW t \in MapTasks, NEW to, mapCall' = [mapCall EXCEPT ![t] = to],
         to \in MapCalls, to.pc = "insert" => to.key \in MapKeys
  PROVE  /\ mapCall' \in [MapTasks -> MapCalls]
         /\ \A u \in MapTasks : mapCall'[u].pc = "insert" => mapCall'[u].key \in MapKeys
BY DEF MapInv

LEMMA NotedIs ==
  ASSUME MapInv, NEW resizes \in BOOLEAN, Noted(resizes)
  PROVE  /\ mapSeen' \in [calls : Nat, resized : BOOLEAN]
         /\ mapSeen'.resized = (mapSeen.resized \/ resizes)
<1>1. mapSeen \in [calls : Nat, resized : BOOLEAN]
  BY DEF MapInv
<1>2. (mapSeen.resized \/ resizes) \in BOOLEAN
  BY Zenon
<1>3. PICK n \in Nat, b \in BOOLEAN : n = mapSeen.calls + 1 /\ b = (mapSeen.resized \/ resizes)
  <2>1. mapSeen.calls + 1 \in Nat
    BY <1>1
  <2> QED
    BY <1>2, <2>1, Zenon
<1>4. mapSeen' = [mapSeen EXCEPT !.calls = n, !.resized = b]
  BY <1>3, Zenon DEF Noted
<1>5. mapSeen' \in [calls : Nat, resized : BOOLEAN] /\ mapSeen'.resized = b
  BY <1>1, <1>4
<1> QED
  BY <1>3, <1>5, Zenon

LEMMA MapStep == MapInv /\ [MapNext]_mapVars => MapInv'
<1> SUFFICES ASSUME MapInv, [MapNext]_mapVars PROVE MapInv'
  OBVIOUS
<1> USE DEF MapInv
<1>0. NoMapCall \in MapCalls /\ NoMapCall.pc = "idle"
  BY DEF NoMapCall, MapCalls
<1>1. ASSUME NEW t \in MapTasks, Insert(t) PROVE MapInv'
  <2>1. PICK key \in MapKeys, size \in 1..MaxSize :
          /\ IF Present(key)
               THEN UNCHANGED <<entries, count, sizes>> /\ Noted(size # entries[key])
               ELSE Puts(key, size) /\ Noted(FALSE)
          /\ UNCHANGED mapCall
    BY <1>1 DEF Insert
  <2>2. CASE Present(key)
    BY <2>1, <2>2, NotedIs, MapRests
  <2>3. CASE ~Present(key)
    BY <2>1, <2>3, NotedIs, PutsCounts
  <2> QED
    BY <2>2, <2>3
<1>2. ASSUME NEW t \in MapTasks, RemoveKey(t) PROVE MapInv'
  <2>1. PICK key \in MapKeys, size \in 1..MaxSize :
          /\ IF Present(key)
               THEN /\ entries' = [entries EXCEPT ![key] = 0]
                    /\ count' = [count EXCEPT ![shard_index(key)] = (@ + MapWidth - 1) % MapWidth]
                    /\ sizes' = [sizes EXCEPT ![shard_index(key)] = (@ + MapWidth - size) % MapWidth]
                    /\ Noted(size # entries[key])
               ELSE UNCHANGED <<entries, count, sizes>> /\ Noted(FALSE)
          /\ UNCHANGED mapCall
    BY <1>2 DEF RemoveKey
  <2>2. CASE Present(key)
    BY <2>1, <2>2, NotedIs, RemovesCounts
  <2>3. CASE ~Present(key)
    BY <2>1, <2>3, NotedIs, MapRests
  <2> QED
    BY <2>2, <2>3
<1>3. ASSUME NEW t \in MapTasks, GetOrInsertWith(t) PROVE MapInv'
  <2>1. PICK key \in MapKeys :
          /\ IF Present(key)
               THEN UNCHANGED mapCall
               ELSE mapCall' = [mapCall EXCEPT ![t] = [NoMapCall EXCEPT !.pc = "insert", !.key = key]]
          /\ Noted(FALSE) /\ UNCHANGED <<entries, count, sizes>>
    BY <1>3 DEF GetOrInsertWith
  <2>2. [NoMapCall EXCEPT !.pc = "insert", !.key = key] \in MapCalls
        /\ [NoMapCall EXCEPT !.pc = "insert", !.key = key].key = key
    BY DEF NoMapCall, MapCalls
  <2>3. /\ mapCall' \in [MapTasks -> MapCalls]
        /\ \A u \in MapTasks : mapCall'[u].pc = "insert" => mapCall'[u].key \in MapKeys
    BY <2>1, <2>2, CallStates
  <2> QED
    BY <2>1, <2>3, NotedIs, MapRests
<1>4. ASSUME NEW t \in MapTasks, InsertIfAbsent(t) PROVE MapInv'
  <2>1. /\ mapCall[t].pc = "insert" /\ mapCall[t].key \in MapKeys
        /\ IF Present(mapCall[t].key)
             THEN UNCHANGED <<entries, count, sizes>>
             ELSE \E size \in 1..MaxSize : Puts(mapCall[t].key, size)
        /\ mapCall' = [mapCall EXCEPT ![t] = NoMapCall] /\ UNCHANGED mapSeen
    BY <1>4 DEF InsertIfAbsent, Returns
  <2>2. /\ mapCall' \in [MapTasks -> MapCalls]
        /\ \A u \in MapTasks : mapCall'[u].pc = "insert" => mapCall'[u].key \in MapKeys
    BY <1>0, <2>1, CallStates
  <2>3. CASE Present(mapCall[t].key)
    BY <2>1, <2>2, <2>3, MapRests
  <2>4. CASE ~Present(mapCall[t].key)
    BY <2>1, <2>2, <2>4, PutsCounts
  <2> QED
    BY <2>3, <2>4
<1>5. ASSUME NEW t \in MapTasks, ClearMap(t) PROVE MapInv'
  <2>1. /\ mapCall' = [mapCall EXCEPT ![t] = [NoMapCall EXCEPT !.pc = "clear", !.left = ShardIds]]
        /\ Noted(FALSE) /\ UNCHANGED <<entries, count, sizes>>
    BY <1>5 DEF ClearMap
  <2>2. [NoMapCall EXCEPT !.pc = "clear", !.left = ShardIds] \in MapCalls
        /\ [NoMapCall EXCEPT !.pc = "clear", !.left = ShardIds].pc = "clear"
    BY DEF NoMapCall, MapCalls
  <2>3. /\ mapCall' \in [MapTasks -> MapCalls]
        /\ \A u \in MapTasks : mapCall'[u].pc = "insert" => mapCall'[u].key \in MapKeys
    BY <2>1, <2>2, CallStates
  <2> QED
    BY <2>1, <2>3, NotedIs, MapRests
<1>6. ASSUME NEW t \in MapTasks, ClearShard(t) PROVE MapInv'
  <2>1. PICK i \in mapCall[t].left :
          /\ mapCall[t].pc = "clear"
          /\ entries' = [key \in MapKeys |-> IF shard_index(key) = i THEN 0 ELSE entries[key]]
          /\ count' = [count EXCEPT ![i] = 0] /\ sizes' = [sizes EXCEPT ![i] = 0]
          /\ mapCall' = [mapCall EXCEPT ![t] =
                           IF @.left = {i} THEN NoMapCall ELSE [@ EXCEPT !.left = mapCall[t].left \ {i}]]
          /\ UNCHANGED mapSeen
    BY <1>6 DEF ClearShard
  <2>2. mapCall[t] \in MapCalls /\ i \in ShardIds
    BY DEF MapCalls
  <2>3. [mapCall[t] EXCEPT !.left = @ \ {i}] \in MapCalls
        /\ [mapCall[t] EXCEPT !.left = @ \ {i}].pc = "clear"
    BY <2>1, <2>2 DEF MapCalls
  <2>4. /\ mapCall' \in [MapTasks -> MapCalls]
        /\ \A u \in MapTasks : mapCall'[u].pc = "insert" => mapCall'[u].key \in MapKeys
    <3>1. PICK to : to = IF mapCall[t].left = {i} THEN NoMapCall
                         ELSE [mapCall[t] EXCEPT !.left = @ \ {i}]
      OBVIOUS
    <3>2. mapCall' = [mapCall EXCEPT ![t] = to]
      BY <2>1, <3>1, Zenon
    <3>3. to \in MapCalls /\ to.pc # "insert"
      BY <1>0, <2>3, <3>1
    <3> QED
      BY <3>2, <3>3, CallStates
  <2> QED
    BY <2>1, <2>2, <2>4, EmptiesCounts
<1>7. CASE UNCHANGED mapVars
  <2>1. EntriesAreCounted'
    BY <1>7, MapRests DEF mapVars
  <2> QED
    BY <1>7, <2>1 DEF mapVars
<1> QED
  BY <1>1, <1>2, <1>3, <1>4, <1>5, <1>6, <1>7 DEF MapNext

-----------------------------------------------------------------------------
(* The statistics.                                                         *)

NamesOf(k) == ToSet(Counters(k))

\* Agree, for the counters of any structure.
Related(v, rel) ==
  IF rel.exact THEN Sum(v, rel.whole) = Sum(v, rel.parts) ELSE Sum(v, rel.parts) <= Sum(v, rel.whole)
Keeps(k, v) ==
  \A rel \in Relations(k) : Related(v, rel)

LEMMA IsEqual ==
  ASSUME NEW v, NEW a, NEW b
  PROVE  Related(v, Equal(a, b)) <=> Sum(v, a) = Sum(v, b)
BY DEF Related, Equal

LEMMA IsAtLeast ==
  ASSUME NEW v, NEW a, NEW b, NEW x, NEW y, Sum(v, a) = x, Sum(v, b) = y
  PROVE  Related(v, AtLeast(a, b)) <=> y <= x
BY DEF Related, AtLeast

LEMMA OneSum ==
  ASSUME NEW v, NEW a, v[a] \in Nat
  PROVE  Sum(v, {a}) = v[a]
<1>1. PICK D, E : D = {a} /\ E = {}
  OBVIOUS
<1>2. PICK f, g : f = [c \in D |-> v[c]] /\ g = [c \in E |-> v[c]]
  OBVIOUS
<1>3. f \in [D -> Nat] /\ g \in [E -> Nat] /\ f[a] = v[a]
  BY <1>1, <1>2
<1>4. IsFiniteSet(D)
  BY <1>1, FS_Singleton
<1>5. a \in D /\ (\A x : x \in E <=> x \in D /\ x # a) /\ \A x \in E : f[x] = g[x]
  BY <1>1
<1>6. SumOf(f) = f[a] + SumOf(g)
  BY <1>3, <1>4, <1>5, SumStep
<1>7. SumOf(g) = 0
  BY <1>1, <1>3, SumEmpty
<1> QED
  BY <1>1, <1>2, <1>3, <1>6, <1>7 DEF Sum

LEMMA OneMore ==
  ASSUME NEW v, NEW S, IsFiniteSet(S), NEW a, a \notin S, \A c \in S \union {a} : v[c] \in Nat
  PROVE  Sum(v, S \union {a}) = v[a] + Sum(v, S)
<1>1. PICK D : D = S \union {a}
  OBVIOUS
<1>2. PICK f, g : f = [c \in D |-> v[c]] /\ g = [c \in S |-> v[c]]
  OBVIOUS
<1>3. f \in [D -> Nat] /\ g \in [S -> Nat] /\ f[a] = v[a]
  BY <1>1, <1>2
<1>4. IsFiniteSet(D)
  BY <1>1, FS_AddElement
<1>5. a \in D /\ (\A x : x \in S <=> x \in D /\ x # a) /\ \A x \in S : f[x] = g[x]
  BY <1>1, <1>2
<1>6. SumOf(f) = f[a] + SumOf(g)
  BY <1>3, <1>4, <1>5, SumStep
<1> QED
  BY <1>1, <1>2, <1>3, <1>6 DEF Sum

LEMMA TwoSum ==
  ASSUME NEW v, NEW a, NEW b, a # b, v[a] \in Nat, v[b] \in Nat
  PROVE  Sum(v, {a, b}) = v[a] + v[b]
<1>1. IsFiniteSet({b}) /\ {b} \union {a} = {a, b} /\ a \notin {b}
  BY FS_Singleton
<1>2. Sum(v, {b} \union {a}) = v[a] + Sum(v, {b})
  BY <1>1, OneMore
<1> QED
  BY <1>1, <1>2, OneSum

LEMMA ThreeSum ==
  ASSUME NEW v, NEW a, NEW b, NEW c, a # b, a # c, b # c, v[a] \in Nat, v[b] \in Nat, v[c] \in Nat
  PROVE  Sum(v, {a, b, c}) = v[a] + (v[b] + v[c])
<1>1. PICK D, E : D = {a, b, c} /\ E = {b, c}
  OBVIOUS
<1>2. IsFiniteSet({b} \union {c})
  BY FS_Singleton, FS_AddElement
<1>3. {b} \union {c} = E /\ E \union {a} = D /\ a \notin E /\ \A x \in E \union {a} : v[x] \in Nat
  BY <1>1
<1>4. IsFiniteSet(E)
  BY <1>2, <1>3
<1>5. Sum(v, E \union {a}) = v[a] + Sum(v, E)
  BY <1>3, <1>4, OneMore
<1>6. Sum(v, D) = v[a] + Sum(v, E)
  BY <1>3, <1>5
<1>7. Sum(v, E) = v[b] + v[c]
  BY <1>1, TwoSum
<1> QED
  BY <1>1, <1>6, <1>7

LEMMA IoStatistics ==
  /\ NamesOf("io") = {"reads", "writes", "bytes_read", "bytes_written", "read_errors",
       "write_errors"}
  /\ Recordings("io") = IoRecords
  /\ \A s \in IoRecords : s \subseteq NamesOf("io")
  /\ Counters("io") \in Seq(NamesOf("io")) /\ Counters("io") # << >>
  /\ \A v \in [NamesOf("io") -> Nat] :
       Keeps("io", v) <=> /\ v["reads"] = v["bytes_read"]
                          /\ v["writes"] = v["bytes_written"]
<1>1. Counters("io") = IoStats /\ Recordings("io") = IoRecords
  BY DEF Counters, Recordings
<1>2. NamesOf("io") = {"reads", "writes", "bytes_read", "bytes_written", "read_errors",
        "write_errors"}
  BY <1>1 DEF NamesOf, ToSet, IoStats
<1>3. Counters("io") \in Seq(NamesOf("io")) /\ Counters("io") # << >>
  <2>1. IoStats # << >> /\ IoStats \in Seq({"reads", "writes", "bytes_read", "bytes_written",
          "read_errors", "write_errors"})
    BY DEF IoStats
  <2> QED
    BY <1>1, <1>2, <2>1, Zenon
<1>4. \A s \in IoRecords : s \subseteq NamesOf("io")
  BY <1>2 DEF IoRecords
<1>5. ASSUME NEW v \in [NamesOf("io") -> Nat]
      PROVE  Keeps("io", v) <=> /\ v["reads"] = v["bytes_read"]
                                /\ v["writes"] = v["bytes_written"]
  <2>1. \A c \in NamesOf("io") : v[c] \in Nat
    OBVIOUS
  <2>2. Sum(v, {"reads"}) = v["reads"]
    BY <1>2, <2>1, OneSum
  <2>3. Sum(v, {"bytes_read"}) = v["bytes_read"]
    BY <1>2, <2>1, OneSum
  <2>4. Sum(v, {"writes"}) = v["writes"]
    BY <1>2, <2>1, OneSum
  <2>5. Sum(v, {"bytes_written"}) = v["bytes_written"]
    BY <1>2, <2>1, OneSum
  <2>6. Related(v, Equal({"reads"}, {"bytes_read"})) <=> v["reads"] = v["bytes_read"]
    BY <2>2, <2>3, IsEqual, Zenon
  <2>7. Related(v, Equal({"writes"}, {"bytes_written"})) <=> v["writes"] = v["bytes_written"]
    BY <2>4, <2>5, IsEqual, Zenon
  <2>8. Keeps("io", v) <=> /\ Related(v, Equal({"reads"}, {"bytes_read"}))
                           /\ Related(v, Equal({"writes"}, {"bytes_written"}))
    BY Zenon DEF Keeps, Relations
  <2> QED
    BY <2>6, <2>7, <2>8, Zenon
<1> QED
  BY <1>1, <1>2, <1>3, <1>4, <1>5, Zenon

LEMMA VolumeStatistics ==
  /\ NamesOf("volume") = {"bytes_written", "bytes_read", "stripes_created", "reads", "writes",
       "reconstructions", "read_errors", "write_errors"}
  /\ Recordings("volume") = VolumeRecords
  /\ \A s \in VolumeRecords : s \subseteq NamesOf("volume")
  /\ Counters("volume") \in Seq(NamesOf("volume")) /\ Counters("volume") # << >>
  /\ \A v \in [NamesOf("volume") -> Nat] :
       Keeps("volume", v) <=> /\ v["writes"] = v["stripes_created"]
                              /\ v["reconstructions"] <= v["reads"]
<1>1. Counters("volume") = VolumeStats /\ Recordings("volume") = VolumeRecords
  BY DEF Counters, Recordings
<1>2. NamesOf("volume") = {"bytes_written", "bytes_read", "stripes_created", "reads", "writes",
        "reconstructions", "read_errors", "write_errors"}
  BY <1>1 DEF NamesOf, ToSet, VolumeStats
<1>3. Counters("volume") \in Seq(NamesOf("volume")) /\ Counters("volume") # << >>
  <2>1. VolumeStats # << >> /\ VolumeStats \in Seq({"bytes_written", "bytes_read",
          "stripes_created", "reads", "writes", "reconstructions", "read_errors",
          "write_errors"})
    BY DEF VolumeStats
  <2> QED
    BY <1>1, <1>2, <2>1, Zenon
<1>4. \A s \in VolumeRecords : s \subseteq NamesOf("volume")
  BY <1>2 DEF VolumeRecords
<1>5. ASSUME NEW v \in [NamesOf("volume") -> Nat]
      PROVE  Keeps("volume", v) <=> /\ v["writes"] = v["stripes_created"]
                                    /\ v["reconstructions"] <= v["reads"]
  <2>1. \A c \in NamesOf("volume") : v[c] \in Nat
    OBVIOUS
  <2>2. Sum(v, {"writes"}) = v["writes"]
    BY <1>2, <2>1, OneSum
  <2>3. Sum(v, {"stripes_created"}) = v["stripes_created"]
    BY <1>2, <2>1, OneSum
  <2>4. Sum(v, {"reads"}) = v["reads"]
    BY <1>2, <2>1, OneSum
  <2>5. Sum(v, {"reconstructions"}) = v["reconstructions"]
    BY <1>2, <2>1, OneSum
  <2>6. Related(v, Equal({"writes"}, {"stripes_created"})) <=> v["writes"] =
         v["stripes_created"]
    BY <2>2, <2>3, IsEqual, Zenon
  <2>7. Related(v, AtLeast({"reads"}, {"reconstructions"})) <=> v["reconstructions"] <=
         v["reads"]
    BY <2>4, <2>5, IsAtLeast, Zenon
  <2>8. Keeps("volume", v) <=> /\ Related(v, Equal({"writes"}, {"stripes_created"}))
                               /\ Related(v, AtLeast({"reads"}, {"reconstructions"}))
    BY Zenon DEF Keeps, Relations
  <2> QED
    BY <2>6, <2>7, <2>8, Zenon
<1> QED
  BY <1>1, <1>2, <1>3, <1>4, <1>5, Zenon

LEMMA ProcessorStatistics ==
  /\ NamesOf("processor") = {"stripes_encoded", "stripes_decoded", "reconstructions",
       "bytes_encoded", "bytes_decoded"}
  /\ Recordings("processor") = ProcessorRecords
  /\ \A s \in ProcessorRecords : s \subseteq NamesOf("processor")
  /\ Counters("processor") \in Seq(NamesOf("processor")) /\ Counters("processor") # << >>
  /\ \A v \in [NamesOf("processor") -> Nat] :
       Keeps("processor", v) <=> /\ v["stripes_encoded"] = v["bytes_encoded"]
                                 /\ v["reconstructions"] <= v["stripes_decoded"]
<1>1. Counters("processor") = ProcessorStats /\ Recordings("processor") = ProcessorRecords
  BY DEF Counters, Recordings
<1>2. NamesOf("processor") = {"stripes_encoded", "stripes_decoded", "reconstructions",
        "bytes_encoded", "bytes_decoded"}
  BY <1>1 DEF NamesOf, ToSet, ProcessorStats
<1>3. Counters("processor") \in Seq(NamesOf("processor")) /\ Counters("processor") # << >>
  <2>1. ProcessorStats # << >> /\ ProcessorStats \in Seq({"stripes_encoded", "stripes_decoded",
          "reconstructions", "bytes_encoded", "bytes_decoded"})
    BY DEF ProcessorStats
  <2> QED
    BY <1>1, <1>2, <2>1, Zenon
<1>4. \A s \in ProcessorRecords : s \subseteq NamesOf("processor")
  BY <1>2 DEF ProcessorRecords
<1>5. ASSUME NEW v \in [NamesOf("processor") -> Nat]
      PROVE  Keeps("processor", v) <=> /\ v["stripes_encoded"] = v["bytes_encoded"]
                                       /\ v["reconstructions"] <= v["stripes_decoded"]
  <2>1. \A c \in NamesOf("processor") : v[c] \in Nat
    OBVIOUS
  <2>2. Sum(v, {"stripes_encoded"}) = v["stripes_encoded"]
    BY <1>2, <2>1, OneSum
  <2>3. Sum(v, {"bytes_encoded"}) = v["bytes_encoded"]
    BY <1>2, <2>1, OneSum
  <2>4. Sum(v, {"stripes_decoded"}) = v["stripes_decoded"]
    BY <1>2, <2>1, OneSum
  <2>5. Sum(v, {"reconstructions"}) = v["reconstructions"]
    BY <1>2, <2>1, OneSum
  <2>6. Related(v, Equal({"stripes_encoded"}, {"bytes_encoded"})) <=> v["stripes_encoded"] =
         v["bytes_encoded"]
    BY <2>2, <2>3, IsEqual, Zenon
  <2>7. Related(v, AtLeast({"stripes_decoded"}, {"reconstructions"})) <=> v["reconstructions"]
         <= v["stripes_decoded"]
    BY <2>4, <2>5, IsAtLeast, Zenon
  <2>8. Keeps("processor", v) <=> /\ Related(v, Equal({"stripes_encoded"}, {"bytes_encoded"}))
                                  /\ Related(v, AtLeast({"stripes_decoded"}, {"reconstructions"}))
    BY Zenon DEF Keeps, Relations
  <2> QED
    BY <2>6, <2>7, <2>8, Zenon
<1> QED
  BY <1>1, <1>2, <1>3, <1>4, <1>5, Zenon

LEMMA ReaderStatistics ==
  /\ NamesOf("reader") = {"reads_total", "reads_fast_path", "reads_degraded", "reads_failed",
       "bytes_read"}
  /\ Recordings("reader") = ReaderRecords
  /\ \A s \in ReaderRecords : s \subseteq NamesOf("reader")
  /\ Counters("reader") \in Seq(NamesOf("reader")) /\ Counters("reader") # << >>
  /\ \A v \in [NamesOf("reader") -> Nat] :
       Keeps("reader", v) <=>
          v["reads_total"] = v["reads_fast_path"] + (v["reads_degraded"] + v["reads_failed"])
<1>1. Counters("reader") = ReaderStats /\ Recordings("reader") = ReaderRecords
  BY DEF Counters, Recordings
<1>2. NamesOf("reader") = {"reads_total", "reads_fast_path", "reads_degraded", "reads_failed",
        "bytes_read"}
  BY <1>1 DEF NamesOf, ToSet, ReaderStats
<1>3. Counters("reader") \in Seq(NamesOf("reader")) /\ Counters("reader") # << >>
  <2>1. ReaderStats # << >> /\ ReaderStats \in Seq({"reads_total", "reads_fast_path",
          "reads_degraded", "reads_failed", "bytes_read"})
    BY DEF ReaderStats
  <2> QED
    BY <1>1, <1>2, <2>1, Zenon
<1>4. \A s \in ReaderRecords : s \subseteq NamesOf("reader")
  BY <1>2 DEF ReaderRecords
<1>5. ASSUME NEW v \in [NamesOf("reader") -> Nat]
      PROVE  Keeps("reader", v) <=>
          v["reads_total"] = v["reads_fast_path"] + (v["reads_degraded"] + v["reads_failed"])
  <2>1. \A c \in NamesOf("reader") : v[c] \in Nat
    OBVIOUS
  <2>2. Sum(v, {"reads_total"}) = v["reads_total"]
    BY <1>2, <2>1, OneSum
  <2>3. Sum(v, {"reads_fast_path", "reads_degraded", "reads_failed"}) = v["reads_fast_path"] +
         (v["reads_degraded"] + v["reads_failed"])
    BY <1>2, <2>1, ThreeSum
  <2>4. Related(v, Equal({"reads_total"}, {"reads_fast_path", "reads_degraded",
         "reads_failed"})) <=> v["reads_total"] = v["reads_fast_path"] + (v["reads_degraded"] +
         v["reads_failed"])
    BY <2>2, <2>3, IsEqual, Zenon
  <2>5. Keeps("reader", v) <=>
          Related(v, Equal({"reads_total"}, {"reads_fast_path", "reads_degraded", "reads_failed"}))
    BY Zenon DEF Keeps, Relations
  <2> QED
    BY <2>4, <2>5, Zenon
<1> QED
  BY <1>1, <1>2, <1>3, <1>4, <1>5, Zenon

LEMMA CompressionStatistics ==
  /\ NamesOf("compression") = {"attempted", "successful", "high_entropy", "poor_ratio",
       "output"}
  /\ Recordings("compression") = CompressionRecords
  /\ \A s \in CompressionRecords : s \subseteq NamesOf("compression")
  /\ Counters("compression") \in Seq(NamesOf("compression")) /\ Counters("compression") # << >>
  /\ \A v \in [NamesOf("compression") -> Nat] :
       Keeps("compression", v) <=>
          /\ v["attempted"] = v["output"]
          /\ v["successful"] + (v["high_entropy"] + v["poor_ratio"]) <= v["attempted"]
<1>1. Counters("compression") = CompressionStats /\ Recordings("compression") = CompressionRecords
  BY DEF Counters, Recordings
<1>2. NamesOf("compression") = {"attempted", "successful", "high_entropy", "poor_ratio",
        "output"}
  BY <1>1 DEF NamesOf, ToSet, CompressionStats
<1>3. Counters("compression") \in Seq(NamesOf("compression")) /\ Counters("compression") # << >>
  <2>1. CompressionStats # << >> /\ CompressionStats \in Seq({"attempted", "successful",
          "high_entropy", "poor_ratio", "output"})
    BY DEF CompressionStats
  <2> QED
    BY <1>1, <1>2, <2>1, Zenon
<1>4. \A s \in CompressionRecords : s \subseteq NamesOf("compression")
  BY <1>2 DEF CompressionRecords
<1>5. ASSUME NEW v \in [NamesOf("compression") -> Nat]
      PROVE  Keeps("compression", v) <=>
          /\ v["attempted"] = v["output"]
          /\ v["successful"] + (v["high_entropy"] + v["poor_ratio"]) <= v["attempted"]
  <2>1. \A c \in NamesOf("compression") : v[c] \in Nat
    OBVIOUS
  <2>2. Sum(v, {"attempted"}) = v["attempted"]
    BY <1>2, <2>1, OneSum
  <2>3. Sum(v, {"output"}) = v["output"]
    BY <1>2, <2>1, OneSum
  <2>4. Sum(v, {"successful", "high_entropy", "poor_ratio"}) = v["successful"] +
         (v["high_entropy"] + v["poor_ratio"])
    BY <1>2, <2>1, ThreeSum
  <2>5. Related(v, Equal({"attempted"}, {"output"})) <=> v["attempted"] = v["output"]
    BY <2>2, <2>3, IsEqual, Zenon
  <2>6. Related(v, AtLeast({"attempted"}, {"successful", "high_entropy", "poor_ratio"})) <=>
         v["successful"] + (v["high_entropy"] + v["poor_ratio"]) <= v["attempted"]
    BY <2>2, <2>4, IsAtLeast, Zenon
  <2>7. Keeps("compression", v) <=>
          /\ Related(v, Equal({"attempted"}, {"output"}))
          /\ Related(v, AtLeast({"attempted"}, {"successful", "high_entropy", "poor_ratio"}))
    BY Zenon DEF Keeps, Relations
  <2> QED
    BY <2>5, <2>6, <2>7, Zenon
<1> QED
  BY <1>1, <1>2, <1>3, <1>4, <1>5, Zenon

LEMMA DestageStatistics ==
  /\ NamesOf("destage") = {"completed", "bytes_destaged", "stripes_created", "failed",
       "encode_operations", "encode_failures", "shard_writes", "shard_write_failures"}
  /\ Recordings("destage") = DestageRecords
  /\ \A s \in DestageRecords : s \subseteq NamesOf("destage")
  /\ Counters("destage") \in Seq(NamesOf("destage")) /\ Counters("destage") # << >>
  /\ \A v \in [NamesOf("destage") -> Nat] :
       Keeps("destage", v) <=> /\ v["completed"] = v["stripes_created"]
                               /\ v["encode_failures"] <= v["encode_operations"]
                               /\ v["shard_write_failures"] <= v["shard_writes"]
<1>1. Counters("destage") = DestageStats /\ Recordings("destage") = DestageRecords
  BY DEF Counters, Recordings
<1>2. NamesOf("destage") = {"completed", "bytes_destaged", "stripes_created", "failed",
        "encode_operations", "encode_failures", "shard_writes", "shard_write_failures"}
  BY <1>1 DEF NamesOf, ToSet, DestageStats
<1>3. Counters("destage") \in Seq(NamesOf("destage")) /\ Counters("destage") # << >>
  <2>1. DestageStats # << >> /\ DestageStats \in Seq({"completed", "bytes_destaged",
          "stripes_created", "failed", "encode_operations", "encode_failures", "shard_writes",
          "shard_write_failures"})
    BY DEF DestageStats
  <2> QED
    BY <1>1, <1>2, <2>1, Zenon
<1>4. \A s \in DestageRecords : s \subseteq NamesOf("destage")
  BY <1>2 DEF DestageRecords
<1>5. ASSUME NEW v \in [NamesOf("destage") -> Nat]
      PROVE  Keeps("destage", v) <=> /\ v["completed"] = v["stripes_created"]
                                     /\ v["encode_failures"] <= v["encode_operations"]
                                     /\ v["shard_write_failures"] <= v["shard_writes"]
  <2>1. \A c \in NamesOf("destage") : v[c] \in Nat
    OBVIOUS
  <2>2. Sum(v, {"completed"}) = v["completed"]
    BY <1>2, <2>1, OneSum
  <2>3. Sum(v, {"stripes_created"}) = v["stripes_created"]
    BY <1>2, <2>1, OneSum
  <2>4. Sum(v, {"encode_operations"}) = v["encode_operations"]
    BY <1>2, <2>1, OneSum
  <2>5. Sum(v, {"encode_failures"}) = v["encode_failures"]
    BY <1>2, <2>1, OneSum
  <2>6. Sum(v, {"shard_writes"}) = v["shard_writes"]
    BY <1>2, <2>1, OneSum
  <2>7. Sum(v, {"shard_write_failures"}) = v["shard_write_failures"]
    BY <1>2, <2>1, OneSum
  <2>8. Related(v, Equal({"completed"}, {"stripes_created"})) <=> v["completed"] =
         v["stripes_created"]
    BY <2>2, <2>3, IsEqual, Zenon
  <2>9. Related(v, AtLeast({"encode_operations"}, {"encode_failures"})) <=> v["encode_failures"]
         <= v["encode_operations"]
    BY <2>4, <2>5, IsAtLeast, Zenon
  <2>10. Related(v, AtLeast({"shard_writes"}, {"shard_write_failures"})) <=>
         v["shard_write_failures"] <= v["shard_writes"]
    BY <2>6, <2>7, IsAtLeast, Zenon
  <2>11. Keeps("destage", v) <=> /\ Related(v, Equal({"completed"}, {"stripes_created"}))
                                 /\ Related(v, AtLeast({"encode_operations"}, {"encode_failures"}))
                                 /\ Related(v, AtLeast({"shard_writes"}, {"shard_write_failures"}))
    BY Zenon DEF Keeps, Relations
  <2> QED
    BY <2>8, <2>9, <2>10, <2>11, Zenon
<1> QED
  BY <1>1, <1>2, <1>3, <1>4, <1>5, Zenon

LEMMA ZnsStatistics ==
  /\ NamesOf("zns") = {"writes_total", "bytes_written", "resets_total", "bytes_reclaimed",
       "failures"}
  /\ Recordings("zns") = ZnsRecords
  /\ \A s \in ZnsRecords : s \subseteq NamesOf("zns")
  /\ Counters("zns") \in Seq(NamesOf("zns")) /\ Counters("zns") # << >>
  /\ \A v \in [NamesOf("zns") -> Nat] :
       Keeps("zns", v) <=> /\ v["writes_total"] = v["bytes_written"]
<1>1. Counters("zns") = ZnsStats /\ Recordings("zns") = ZnsRecords
  BY DEF Counters, Recordings
<1>2. NamesOf("zns") = {"writes_total", "bytes_written", "resets_total", "bytes_reclaimed",
        "failures"}
  BY <1>1 DEF NamesOf, ToSet, ZnsStats
<1>3. Counters("zns") \in Seq(NamesOf("zns")) /\ Counters("zns") # << >>
  <2>1. ZnsStats # << >> /\ ZnsStats \in Seq({"writes_total", "bytes_written", "resets_total",
          "bytes_reclaimed", "failures"})
    BY DEF ZnsStats
  <2> QED
    BY <1>1, <1>2, <2>1, Zenon
<1>4. \A s \in ZnsRecords : s \subseteq NamesOf("zns")
  BY <1>2 DEF ZnsRecords
<1>5. ASSUME NEW v \in [NamesOf("zns") -> Nat]
      PROVE  Keeps("zns", v) <=> /\ v["writes_total"] = v["bytes_written"]
  <2>1. \A c \in NamesOf("zns") : v[c] \in Nat
    OBVIOUS
  <2>2. Sum(v, {"writes_total"}) = v["writes_total"]
    BY <1>2, <2>1, OneSum
  <2>3. Sum(v, {"bytes_written"}) = v["bytes_written"]
    BY <1>2, <2>1, OneSum
  <2>4. Related(v, Equal({"writes_total"}, {"bytes_written"})) <=> v["writes_total"] =
         v["bytes_written"]
    BY <2>2, <2>3, IsEqual, Zenon
  <2>5. Keeps("zns", v) <=> /\ Related(v, Equal({"writes_total"}, {"bytes_written"}))
    BY Zenon DEF Keeps, Relations
  <2> QED
    BY <2>4, <2>5, Zenon
<1> QED
  BY <1>1, <1>2, <1>3, <1>4, <1>5, Zenon

LEMMA CacheStatistics ==
  /\ NamesOf("cache") = {"l1_misses", "l2_hits", "l2_misses", "l3_hits", "l3_misses"}
  /\ Recordings("cache") = CacheRecords
  /\ \A s \in CacheRecords : s \subseteq NamesOf("cache")
  /\ Counters("cache") \in Seq(NamesOf("cache")) /\ Counters("cache") # << >>
  /\ \A v \in [NamesOf("cache") -> Nat] :
       Keeps("cache", v) <=> /\ v["l1_misses"] = v["l2_hits"] + v["l2_misses"]
                             /\ v["l2_misses"] = v["l3_hits"] + v["l3_misses"]
<1>1. Counters("cache") = CacheMetrics /\ Recordings("cache") = CacheRecords
  BY DEF Counters, Recordings
<1>2. NamesOf("cache") = {"l1_misses", "l2_hits", "l2_misses", "l3_hits", "l3_misses"}
  BY <1>1 DEF NamesOf, ToSet, CacheMetrics
<1>3. Counters("cache") \in Seq(NamesOf("cache")) /\ Counters("cache") # << >>
  <2>1. CacheMetrics # << >> /\ CacheMetrics \in Seq({"l1_misses", "l2_hits", "l2_misses",
          "l3_hits", "l3_misses"})
    BY DEF CacheMetrics
  <2> QED
    BY <1>1, <1>2, <2>1, Zenon
<1>4. \A s \in CacheRecords : s \subseteq NamesOf("cache")
  BY <1>2 DEF CacheRecords
<1>5. ASSUME NEW v \in [NamesOf("cache") -> Nat]
      PROVE  Keeps("cache", v) <=> /\ v["l1_misses"] = v["l2_hits"] + v["l2_misses"]
                                   /\ v["l2_misses"] = v["l3_hits"] + v["l3_misses"]
  <2>1. \A c \in NamesOf("cache") : v[c] \in Nat
    OBVIOUS
  <2>2. Sum(v, {"l1_misses"}) = v["l1_misses"]
    BY <1>2, <2>1, OneSum
  <2>3. Sum(v, {"l2_hits", "l2_misses"}) = v["l2_hits"] + v["l2_misses"]
    BY <1>2, <2>1, TwoSum
  <2>4. Sum(v, {"l2_misses"}) = v["l2_misses"]
    BY <1>2, <2>1, OneSum
  <2>5. Sum(v, {"l3_hits", "l3_misses"}) = v["l3_hits"] + v["l3_misses"]
    BY <1>2, <2>1, TwoSum
  <2>6. Related(v, Equal({"l1_misses"}, {"l2_hits", "l2_misses"})) <=> v["l1_misses"] =
         v["l2_hits"] + v["l2_misses"]
    BY <2>2, <2>3, IsEqual, Zenon
  <2>7. Related(v, Equal({"l2_misses"}, {"l3_hits", "l3_misses"})) <=> v["l2_misses"] =
         v["l3_hits"] + v["l3_misses"]
    BY <2>4, <2>5, IsEqual, Zenon
  <2>8. Keeps("cache", v) <=> /\ Related(v, Equal({"l1_misses"}, {"l2_hits", "l2_misses"}))
                              /\ Related(v, Equal({"l2_misses"}, {"l3_hits", "l3_misses"}))
    BY Zenon DEF Keeps, Relations
  <2> QED
    BY <2>6, <2>7, <2>8, Zenon
<1> QED
  BY <1>1, <1>2, <1>3, <1>4, <1>5, Zenon

LEMMA HistogramStatistics ==
  /\ NamesOf("histogram") = {"le_1", "le_2", "sum", "count"}
  /\ Recordings("histogram") = HistogramRecords
  /\ \A s \in HistogramRecords : s \subseteq NamesOf("histogram")
  /\ Counters("histogram") \in Seq(NamesOf("histogram")) /\ Counters("histogram") # << >>
  /\ \A v \in [NamesOf("histogram") -> Nat] :
       Keeps("histogram", v) <=> /\ v["le_1"] <= v["le_2"]
                                 /\ v["le_2"] <= v["count"]
                                 /\ v["count"] = v["sum"]
<1>1. Counters("histogram") = Histogram /\ Recordings("histogram") = HistogramRecords
  BY DEF Counters, Recordings
<1>2. NamesOf("histogram") = {"le_1", "le_2", "sum", "count"}
  BY <1>1 DEF NamesOf, ToSet, Histogram
<1>3. Counters("histogram") \in Seq(NamesOf("histogram")) /\ Counters("histogram") # << >>
  <2>1. Histogram # << >> /\ Histogram \in Seq({"le_1", "le_2", "sum", "count"})
    BY DEF Histogram
  <2> QED
    BY <1>1, <1>2, <2>1, Zenon
<1>4. \A s \in HistogramRecords : s \subseteq NamesOf("histogram")
  BY <1>2 DEF HistogramRecords, Histogram
<1>5. ASSUME NEW v \in [NamesOf("histogram") -> Nat]
      PROVE  Keeps("histogram", v) <=> /\ v["le_1"] <= v["le_2"]
                                       /\ v["le_2"] <= v["count"]
                                       /\ v["count"] = v["sum"]
  <2>1. \A c \in NamesOf("histogram") : v[c] \in Nat
    OBVIOUS
  <2>2. Sum(v, {"le_2"}) = v["le_2"]
    BY <1>2, <2>1, OneSum
  <2>3. Sum(v, {"le_1"}) = v["le_1"]
    BY <1>2, <2>1, OneSum
  <2>4. Sum(v, {"count"}) = v["count"]
    BY <1>2, <2>1, OneSum
  <2>5. Sum(v, {"sum"}) = v["sum"]
    BY <1>2, <2>1, OneSum
  <2>6. Related(v, AtLeast({"le_2"}, {"le_1"})) <=> v["le_1"] <= v["le_2"]
    BY <2>2, <2>3, IsAtLeast, Zenon
  <2>7. Related(v, AtLeast({"count"}, {"le_2"})) <=> v["le_2"] <= v["count"]
    BY <2>4, <2>2, IsAtLeast, Zenon
  <2>8. Related(v, Equal({"count"}, {"sum"})) <=> v["count"] = v["sum"]
    BY <2>4, <2>5, IsEqual, Zenon
  <2>9. Keeps("histogram", v) <=> /\ Related(v, AtLeast({"le_2"}, {"le_1"}))
                                  /\ Related(v, AtLeast({"count"}, {"le_2"}))
                                  /\ Related(v, Equal({"count"}, {"sum"}))
    BY Zenon DEF Keeps, Relations
  <2> QED
    BY <2>6, <2>7, <2>8, <2>9, Zenon
<1> QED
  BY <1>1, <1>2, <1>3, <1>4, <1>5, Zenon

\* A recording keeps what holds of the counters, once all of it is added.
LEMMA RecordingKeeps ==
  ASSUME NEW k \in Structures, NEW additions \in Recordings(k),
         NEW v \in [NamesOf(k) -> Nat], NEW w \in [NamesOf(k) -> Nat],
         \A c \in NamesOf(k) : w[c] = IF c \in additions THEN v[c] + 1 ELSE v[c],
         Keeps(k, v)
  PROVE  Keeps(k, w)
<1>1. CASE k = "io"
  BY <1>1, IoStatistics DEF IoRecords
<1>2. CASE k = "volume"
  <2>1. \A c \in {"writes", "stripes_created", "reads", "reconstructions"} :
          v[c] \in Nat /\ w[c] = v[c] + (IF c \in additions THEN 1 ELSE 0)
    BY <1>2, VolumeStatistics
  <2>2. /\ "writes" \in additions <=> "stripes_created" \in additions
        /\ "reconstructions" \in additions => "reads" \in additions
    <3>1. additions \in VolumeRecords
      BY <1>2, VolumeStatistics, Zenon
    <3> QED
      BY <3>1 DEF VolumeRecords
  <2>3. /\ v["writes"] = v["stripes_created"]
        /\ v["reconstructions"] <= v["reads"]
    BY <1>2, VolumeStatistics
  <2>4. /\ w["writes"] = w["stripes_created"]
        /\ w["reconstructions"] <= w["reads"]
    BY <2>1, <2>2, <2>3
  <2> QED
    BY <1>2, <2>4, VolumeStatistics
<1>3. CASE k = "processor"
  <2>1. \A c \in {"stripes_encoded", "bytes_encoded", "stripes_decoded", "reconstructions"} :
          v[c] \in Nat /\ w[c] = v[c] + (IF c \in additions THEN 1 ELSE 0)
    BY <1>3, ProcessorStatistics
  <2>2. /\ "stripes_encoded" \in additions <=> "bytes_encoded" \in additions
        /\ "reconstructions" \in additions => "stripes_decoded" \in additions
    <3>1. additions \in ProcessorRecords
      BY <1>3, ProcessorStatistics, Zenon
    <3> QED
      BY <3>1 DEF ProcessorRecords
  <2>3. /\ v["stripes_encoded"] = v["bytes_encoded"]
        /\ v["reconstructions"] <= v["stripes_decoded"]
    BY <1>3, ProcessorStatistics
  <2>4. /\ w["stripes_encoded"] = w["bytes_encoded"]
        /\ w["reconstructions"] <= w["stripes_decoded"]
    BY <2>1, <2>2, <2>3
  <2> QED
    BY <1>3, <2>4, ProcessorStatistics
<1>4. CASE k = "reader"
  <2>1. \A c \in {"reads_total", "reads_fast_path", "reads_degraded", "reads_failed"} :
          v[c] \in Nat /\ w[c] = v[c] + (IF c \in additions THEN 1 ELSE 0)
    BY <1>4, ReaderStatistics
  <2>2. /\ "reads_total" \in additions <=>
             "reads_fast_path" \in additions \/ "reads_degraded" \in additions \/ "reads_failed" \in additions
        /\ ~("reads_fast_path" \in additions /\ "reads_degraded" \in additions)
        /\ ~("reads_fast_path" \in additions /\ "reads_failed" \in additions)
        /\ ~("reads_degraded" \in additions /\ "reads_failed" \in additions)
    <3>1. additions \in ReaderRecords
      BY <1>4, ReaderStatistics, Zenon
    <3> QED
      BY <3>1 DEF ReaderRecords
  <2>3. /\ v["reads_total"] = v["reads_fast_path"] + (v["reads_degraded"] + v["reads_failed"])
    BY <1>4, ReaderStatistics
  <2>4. /\ w["reads_total"] = w["reads_fast_path"] + (w["reads_degraded"] + w["reads_failed"])
    BY <2>1, <2>2, <2>3
  <2> QED
    BY <1>4, <2>4, ReaderStatistics
<1>5. CASE k = "compression"
  <2>1. \A c \in {"attempted", "output", "successful", "high_entropy", "poor_ratio"} :
          v[c] \in Nat /\ w[c] = v[c] + (IF c \in additions THEN 1 ELSE 0)
    BY <1>5, CompressionStatistics
  <2>2. /\ "attempted" \in additions <=> "output" \in additions
        /\ "successful" \in additions \/ "high_entropy" \in additions \/ "poor_ratio" \in additions =>
             "attempted" \in additions
        /\ ~("successful" \in additions /\ "high_entropy" \in additions)
        /\ ~("successful" \in additions /\ "poor_ratio" \in additions)
        /\ ~("high_entropy" \in additions /\ "poor_ratio" \in additions)
    <3>1. additions \in CompressionRecords
      BY <1>5, CompressionStatistics, Zenon
    <3> QED
      BY <3>1 DEF CompressionRecords
  <2>3. /\ v["attempted"] = v["output"]
        /\ v["successful"] + (v["high_entropy"] + v["poor_ratio"]) <= v["attempted"]
    BY <1>5, CompressionStatistics
  <2>4. /\ w["attempted"] = w["output"]
        /\ w["successful"] + (w["high_entropy"] + w["poor_ratio"]) <= w["attempted"]
    BY <2>1, <2>2, <2>3
  <2> QED
    BY <1>5, <2>4, CompressionStatistics
<1>6. CASE k = "destage"
    <2>1. \A c \in {"completed", "stripes_created", "encode_operations", "encode_failures",
                  "shard_writes", "shard_write_failures"} :
          v[c] \in Nat /\ w[c] = v[c] + (IF c \in additions THEN 1 ELSE 0)
    BY <1>6, DestageStatistics
  <2>2. /\ "completed" \in additions <=> "stripes_created" \in additions
        /\ "encode_failures" \in additions => "encode_operations" \in additions
        /\ "shard_write_failures" \in additions => "shard_writes" \in additions
    <3>1. additions \in DestageRecords
      BY <1>6, DestageStatistics, Zenon
    <3> QED
      BY <3>1 DEF DestageRecords
  <2>3. /\ v["completed"] = v["stripes_created"]
        /\ v["encode_failures"] <= v["encode_operations"]
        /\ v["shard_write_failures"] <= v["shard_writes"]
    BY <1>6, DestageStatistics
  <2>4. /\ w["completed"] = w["stripes_created"]
        /\ w["encode_failures"] <= w["encode_operations"]
        /\ w["shard_write_failures"] <= w["shard_writes"]
    BY <2>1, <2>2, <2>3
  <2> QED
    BY <1>6, <2>4, DestageStatistics
<1>7. CASE k = "zns"
  BY <1>7, ZnsStatistics DEF ZnsRecords
<1>8. CASE k = "cache"
  <2>1. \A c \in {"l1_misses", "l2_hits", "l2_misses", "l3_hits", "l3_misses"} :
          v[c] \in Nat /\ w[c] = v[c] + (IF c \in additions THEN 1 ELSE 0)
    BY <1>8, CacheStatistics
  <2>2. /\ "l1_misses" \in additions <=> "l2_hits" \in additions \/ "l2_misses" \in additions
        /\ ~("l2_hits" \in additions /\ "l2_misses" \in additions)
        /\ "l2_misses" \in additions <=> "l3_hits" \in additions \/ "l3_misses" \in additions
        /\ ~("l3_hits" \in additions /\ "l3_misses" \in additions)
    <3>1. additions \in CacheRecords
      BY <1>8, CacheStatistics, Zenon
    <3> QED
      BY <3>1 DEF CacheRecords
  <2>3. /\ v["l1_misses"] = v["l2_hits"] + v["l2_misses"]
        /\ v["l2_misses"] = v["l3_hits"] + v["l3_misses"]
    BY <1>8, CacheStatistics
  <2>4. /\ w["l1_misses"] = w["l2_hits"] + w["l2_misses"]
        /\ w["l2_misses"] = w["l3_hits"] + w["l3_misses"]
    BY <2>1, <2>2, <2>3
  <2> QED
    BY <1>8, <2>4, CacheStatistics
<1>9. CASE k = "histogram"
  <2>1. \A c \in {"le_2", "le_1", "count", "sum"} :
          v[c] \in Nat /\ w[c] = v[c] + (IF c \in additions THEN 1 ELSE 0)
    BY <1>9, HistogramStatistics
  <2>2. /\ "le_1" \in additions => "le_2" \in additions
        /\ "le_2" \in additions => "count" \in additions
        /\ "count" \in additions <=> "sum" \in additions
    <3>1. additions \in HistogramRecords
      BY <1>9, HistogramStatistics, Zenon
    <3> QED
      BY <3>1 DEF HistogramRecords, Histogram
  <2>3. /\ v["le_1"] <= v["le_2"]
        /\ v["le_2"] <= v["count"]
        /\ v["count"] = v["sum"]
    BY <1>9, HistogramStatistics
  <2>4. /\ w["le_1"] <= w["le_2"]
        /\ w["le_2"] <= w["count"]
        /\ w["count"] = w["sum"]
    BY <2>1, <2>2, <2>3
  <2> QED
    BY <1>9, <2>4, HistogramStatistics
<1> QED
  BY <1>1, <1>2, <1>3, <1>4, <1>5, <1>6, <1>7, <1>8, <1>9 DEF Structures

\* So does clearing all counters.
LEMMA ZeroKeeps ==
  ASSUME NEW k \in Structures, NEW v \in [NamesOf(k) -> Nat], \A c \in NamesOf(k) : v[c] = 0
  PROVE  Keeps(k, v)
<1>1. CASE k = "io"
  BY <1>1, IoStatistics
<1>2. CASE k = "volume"
  BY <1>2, VolumeStatistics
<1>3. CASE k = "processor"
  BY <1>3, ProcessorStatistics
<1>4. CASE k = "reader"
  BY <1>4, ReaderStatistics
<1>5. CASE k = "compression"
  BY <1>5, CompressionStatistics
<1>6. CASE k = "destage"
  BY <1>6, DestageStatistics
<1>7. CASE k = "zns"
  BY <1>7, ZnsStatistics
<1>8. CASE k = "cache"
  BY <1>8, CacheStatistics
<1>9. CASE k = "histogram"
  BY <1>9, HistogramStatistics
<1> QED
  BY <1>1, <1>2, <1>3, <1>4, <1>5, <1>6, <1>7, <1>8, <1>9 DEF Structures

LEMMA StructureIs ==
  ASSUME NEW k \in Structures
  PROVE  /\ Counters(k) \in Seq(NamesOf(k)) /\ Counters(k) # << >>
         /\ \A additions \in Recordings(k) : additions \subseteq NamesOf(k)
<1>1. CASE k = "io"
  BY <1>1, IoStatistics, Zenon
<1>2. CASE k = "volume"
  BY <1>2, VolumeStatistics, Zenon
<1>3. CASE k = "processor"
  BY <1>3, ProcessorStatistics, Zenon
<1>4. CASE k = "reader"
  BY <1>4, ReaderStatistics, Zenon
<1>5. CASE k = "compression"
  BY <1>5, CompressionStatistics, Zenon
<1>6. CASE k = "destage"
  BY <1>6, DestageStatistics, Zenon
<1>7. CASE k = "zns"
  BY <1>7, ZnsStatistics, Zenon
<1>8. CASE k = "cache"
  BY <1>8, CacheStatistics, Zenon
<1>9. CASE k = "histogram"
  BY <1>9, HistogramStatistics, Zenon
<1> QED
  BY <1>1, <1>2, <1>3, <1>4, <1>5, <1>6, <1>7, <1>8, <1>9 DEF Structures

\* The counters, with what recorders have yet to add to them.
Owing(c) == {r \in Recorders : c \in pending[r]}
Due == [c \in Names |-> counter[c] + Cardinality(Owing(c))]

Snaps == [todo : Seq(Names), seen : [Names -> Nat], start : [Names -> Nat]]

\* Recordings and resets that do not overlap keep what holds of the counters once all
\* is added.  During a reset nothing is owed, and what it has cleared is 0.
ResetInv ==
  ~torn => IF clearing = << >> THEN Keeps(kind, Due)
           ELSE /\ \A r \in Recorders : pending[r] = {}
                /\ \A c \in Names \ ToSet(clearing) : counter[c] = 0

\* No reset overlaps a snapshot, so that counters only grow during it.
SnapInv ==
  snap.seen # << >> =>
    /\ snap \in Snaps /\ clearing = << >>
    /\ \A c \in Names :
         /\ snap.start[c] <= counter[c]
         /\ c \notin ToSet(snap.todo) =>
              snap.start[c] <= snap.seen[c] /\ snap.seen[c] <= counter[c]

StatTypes ==
  /\ kind \in Structures /\ counter \in [Names -> Nat]
  /\ pending \in [Recorders -> SUBSET Names] /\ clearing \in Seq(Names)

StatInv == StatTypes /\ ResetInv /\ SnapInv

LEMMA StatNames == Names = NamesOf(kind) /\ (UNCHANGED kind => Names' = Names)
BY DEF Names, NamesOf

LEMMA OwingFinite ==
  ASSUME NEW c
  PROVE  IsFiniteSet(Owing(c)) /\ Cardinality(Owing(c)) \in Nat
<1>1. Owing(c) \subseteq Recorders
  BY DEF Owing
<1> QED
  BY <1>1, StatisticsAssumption, FS_Subset, FS_CardinalityType

LEMMA DueIs ==
  ASSUME StatTypes
  PROVE  Due \in [NamesOf(kind) -> Nat] /\ Due \in [Names -> Nat]
<1>1. \A c \in Names : counter[c] + Cardinality(Owing(c)) \in Nat
  BY OwingFinite DEF StatTypes
<1> QED
  BY <1>1, StatNames DEF Due

LEMMA StatBegins == StatisticsInit => StatInv
<1> SUFFICES ASSUME StatisticsInit PROVE StatInv
  OBVIOUS
<1>1. StatTypes
  BY StatisticsAssumption DEF StatisticsInit, StatTypes
<1>2. ResetInv
  <2>1. ASSUME NEW c \in Names PROVE Due[c] = 0
    <3>1. Owing(c) = {}
      BY DEF Owing, StatisticsInit
    <3> QED
      BY <3>1, FS_EmptySet DEF Due, StatisticsInit
  <2>2. Keeps(kind, Due)
    BY <1>1, <2>1, DueIs, StatNames, ZeroKeeps DEF StatTypes
  <2> QED
    BY <2>2 DEF ResetInv, StatisticsInit
<1>3. SnapInv
  BY DEF SnapInv, StatisticsInit, NoSnap
<1> QED
  BY <1>1, <1>2, <1>3 DEF StatInv

LEMMA RecordStep ==
  ASSUME StatInv, NEW r \in Recorders, Record(r)
  PROVE  StatInv'
<1>1. PICK additions \in Recordings(kind) :
        /\ pending' = [pending EXCEPT ![r] = additions]
        /\ pending[r] = {} /\ torn' = (torn \/ clearing # << >>)
        /\ UNCHANGED <<kind, counter, clearing, snap>>
  BY DEF Record
<1>2. Names' = Names /\ NamesOf(kind') = Names /\ NamesOf(kind) = Names
  BY <1>1, StatNames
<1>3. additions \subseteq Names /\ StatTypes
  BY <1>1, <1>2, StructureIs DEF StatTypes, StatInv
<1>4. StatTypes'
  BY <1>1, <1>2, <1>3 DEF StatTypes
<1>5. SnapInv'
  BY <1>1, <1>2 DEF StatInv, SnapInv, Snaps
<1>6. ASSUME ~torn' PROVE clearing' = << >> /\ Keeps(kind', Due')
  <2>1. ~torn /\ clearing = << >>
    BY <1>1, <1>6, Zenon
  <2>2. Keeps(kind, Due)
    BY <2>1 DEF StatInv, ResetInv
  <2>3. ASSUME NEW c \in Names
        PROVE  Due'[c] = IF c \in additions THEN Due[c] + 1 ELSE Due[c]
    <3>1. Due[c] = counter[c] + Cardinality(Owing(c)) /\ Due'[c] = counter[c] + Cardinality(Owing(c)')
      BY <1>1, <1>2 DEF Due
    <3>2. CASE c \in additions
      <4>1. Owing(c)' = Owing(c) \union {r} /\ r \notin Owing(c)
        BY <1>1, <3>2 DEF Owing, StatInv, StatTypes
      <4>2. Cardinality(Owing(c)') = Cardinality(Owing(c)) + 1 /\ Cardinality(Owing(c)) \in Nat
        BY <4>1, OwingFinite, FS_AddElement
      <4>3. counter[c] \in Nat
        BY <1>3 DEF StatTypes
      <4> QED
        BY <3>1, <3>2, <4>2, <4>3
    <3>3. CASE c \notin additions
      <4>1. Owing(c)' = Owing(c)
        BY <1>1, <3>3 DEF Owing, StatInv, StatTypes
      <4> QED
        BY <3>1, <3>3, <4>1
    <3> QED
      BY <3>2, <3>3
  <2>4. PICK v, w : v = Due /\ w = Due'
    OBVIOUS
  <2>5. v \in [NamesOf(kind) -> Nat] /\ w \in [NamesOf(kind) -> Nat]
    <3>1. Due \in [NamesOf(kind) -> Nat]
      BY <1>3, DueIs
    <3>2. \A c \in Names : Due'[c] \in Nat
      BY <1>2, <2>3, <3>1
    <3>3. Due' = [c \in Names |-> Due'[c]]
      BY <1>2 DEF Due
    <3> QED
      BY <1>2, <2>4, <3>1, <3>2, <3>3
  <2>6. Keeps(kind, w)
    <3>1. PICK k \in Structures : k = kind
      BY <1>3 DEF StatTypes
    <3>2. \A c \in NamesOf(k) : w[c] = IF c \in additions THEN v[c] + 1 ELSE v[c]
      BY <1>2, <2>3, <2>4, <3>1
    <3>3. Keeps(k, v) /\ additions \in Recordings(k)
      BY <2>2, <2>4, <3>1
    <3> QED
      BY <2>5, <3>1, <3>2, <3>3, RecordingKeeps
  <2> QED
    BY <1>1, <2>1, <2>4, <2>6
<1>7. ResetInv'
  BY <1>6 DEF ResetInv
<1> QED
  BY <1>4, <1>5, <1>7 DEF StatInv

LEMMA AddStep ==
  ASSUME StatInv, NEW r \in Recorders, Add(r)
  PROVE  StatInv'
<1>1. PICK c \in pending[r] :
        /\ counter' = [counter EXCEPT ![c] = counter[c] + 1]
        /\ pending' = [pending EXCEPT ![r] = pending[r] \ {c}]
        /\ UNCHANGED <<kind, clearing, snap, torn>>
  BY DEF Add
<1>2. Names' = Names /\ NamesOf(kind') = Names /\ NamesOf(kind) = Names
  BY <1>1, StatNames
<1>3. StatTypes /\ c \in Names
  BY DEF StatTypes, StatInv
<1>4. StatTypes'
  BY <1>1, <1>2, <1>3 DEF StatTypes
<1>5. SnapInv'
  <2>1. \A d \in Names : counter[d] \in Nat /\ counter'[d] \in Nat /\ counter[d] <= counter'[d]
    BY <1>1, <1>3 DEF StatTypes
  <2>2. SUFFICES ASSUME snap.seen # << >>
        PROVE  \A d \in Names :
                 /\ snap.start[d] <= counter'[d]
                 /\ d \notin ToSet(snap.todo) =>
                      snap.start[d] <= snap.seen[d] /\ snap.seen[d] <= counter'[d]
    BY <1>1, <1>2 DEF StatInv, SnapInv, Snaps
  <2>3. \A d \in Names : /\ snap.start[d] \in Nat /\ snap.seen[d] \in Nat
                         /\ snap.start[d] <= counter[d]
                         /\ d \notin ToSet(snap.todo) =>
                              snap.start[d] <= snap.seen[d] /\ snap.seen[d] <= counter[d]
    BY <2>2 DEF StatInv, SnapInv, Snaps
  <2> QED
    BY <2>1, <2>3
<1>6. ASSUME ~torn' PROVE clearing' = << >> /\ Keeps(kind', Due')
  <2>1. clearing = << >> /\ Keeps(kind, Due)
    BY <1>1, <1>3, <1>6 DEF StatInv, ResetInv
  <2>2. ASSUME NEW d \in Names
        PROVE  Due'[d] = Due[d]
    <3>1. Due[d] = counter[d] + Cardinality(Owing(d)) /\ Due'[d] = counter'[d] + Cardinality(Owing(d)')
      BY <1>2 DEF Due
    <3>2. CASE d = c
      <4>1. Owing(d)' = Owing(d) \ {r} /\ r \in Owing(d)
        BY <1>1, <3>2 DEF Owing, StatInv, StatTypes
      <4>2. Cardinality(Owing(d)') = Cardinality(Owing(d)) - 1 /\ Cardinality(Owing(d)) \in Nat
        BY <4>1, OwingFinite, FS_RemoveElement
      <4>3. counter[d] \in Nat /\ counter'[d] = counter[d] + 1
        BY <1>1, <1>3, <3>2 DEF StatTypes
      <4> QED
        BY <3>1, <4>2, <4>3
    <3>3. CASE d # c
      <4>1. Owing(d)' = Owing(d)
        BY <1>1, <3>3 DEF Owing, StatInv, StatTypes
      <4>2. counter'[d] = counter[d]
        BY <1>1, <1>3, <3>3 DEF StatTypes
      <4> QED
        BY <3>1, <4>1, <4>2
    <3> QED
      BY <3>2, <3>3
  <2>3. Due' = Due
    BY <1>2, <2>2 DEF Due
  <2> QED
    BY <1>1, <2>1, <2>3
<1>7. ResetInv'
  BY <1>6 DEF ResetInv
<1> QED
  BY <1>4, <1>5, <1>7 DEF StatInv

LEMMA BeginResetStep ==
  ASSUME StatInv, BeginReset
  PROVE  StatInv'
<1>1. /\ snap \in {NoSnap, Taken} /\ clearing' = Counters(kind)
      /\ torn' = (torn \/ \E r \in Recorders : pending[r] # {})
      /\ UNCHANGED <<kind, counter, pending, snap>>
  BY DEF BeginReset
<1>2. Names' = Names /\ NamesOf(kind') = Names /\ NamesOf(kind) = Names
  BY <1>1, StatNames
<1>3. StatTypes /\ clearing' \in Seq(Names) /\ clearing' # << >>
  BY <1>1, <1>2, StructureIs DEF StatTypes, StatInv
<1>4. StatTypes'
  BY <1>1, <1>2, <1>3 DEF StatTypes
<1>5. SnapInv'
  BY <1>1 DEF SnapInv, NoSnap, Taken
<1>6. Names \ ToSet(clearing') = {}
  BY <1>1 DEF Names
<1>7. ~torn' => \A r \in Recorders : pending[r] = {}
  BY <1>1, Zenon
<1>8. ResetInv'
  BY <1>1, <1>2, <1>3, <1>6, <1>7 DEF ResetInv
<1> QED
  BY <1>4, <1>5, <1>8 DEF StatInv

LEMMA TailIs ==
  ASSUME NEW S, NEW s \in Seq(S), s # << >>
  PROVE  /\ Head(s) \in S /\ Tail(s) \in Seq(S)
         /\ \A x \in ToSet(s) : x \in ToSet(Tail(s)) \/ x = Head(s)
<1>1. Head(s) \in S /\ Tail(s) \in Seq(S) /\ Len(s) \in Nat \ {0} /\ Len(Tail(s)) = Len(s) - 1
  OBVIOUS
<1>2. \A i \in 1..(Len(s) - 1) : Tail(s)[i] = s[i + 1]
  OBVIOUS
<1>3. ASSUME NEW i \in 1..Len(s) PROVE s[i] \in ToSet(Tail(s)) \/ s[i] = Head(s)
  <2>1. CASE i = 1
    BY <2>1
  <2>2. CASE i # 1
    <3>1. i - 1 \in 1..Len(Tail(s)) /\ (i - 1) + 1 = i
      BY <1>1, <2>2
    <3>2. Tail(s)[i - 1] = s[i]
      BY <1>1, <1>2, <3>1
    <3>3. DOMAIN Tail(s) = 1..Len(Tail(s))
      BY <1>1
    <3> QED
      BY <3>1, <3>2, <3>3 DEF ToSet
  <2> QED
    BY <2>1, <2>2
<1>4. DOMAIN s = 1..Len(s)
  OBVIOUS
<1> QED
  BY <1>1, <1>3, <1>4 DEF ToSet

LEMMA ClearStep ==
  ASSUME StatInv, Clear
  PROVE  StatInv'
<1>1. /\ clearing # << >> /\ counter' = [counter EXCEPT ![Head(clearing)] = 0]
      /\ clearing' = Tail(clearing) /\ UNCHANGED <<kind, pending, snap, torn>>
  BY DEF Clear
<1>2. Names' = Names /\ NamesOf(kind') = Names /\ NamesOf(kind) = Names
  BY <1>1, StatNames
<1>3. StatTypes
  BY DEF StatInv
<1>4. /\ Head(clearing) \in Names /\ clearing' \in Seq(Names)
      /\ \A x \in ToSet(clearing) : x \in ToSet(clearing') \/ x = Head(clearing)
  BY <1>1, <1>3, TailIs DEF StatTypes
<1>5. StatTypes'
  BY <1>1, <1>2, <1>3, <1>4 DEF StatTypes
<1>6. SnapInv'
  BY <1>1 DEF StatInv, SnapInv
<1>7. ASSUME ~torn'
      PROVE  /\ \A r \in Recorders : pending'[r] = {}
             /\ \A c \in Names \ ToSet(clearing') : counter'[c] = 0
  <2>1. /\ \A r \in Recorders : pending[r] = {}
        /\ \A c \in Names \ ToSet(clearing) : counter[c] = 0
    BY <1>1, <1>7 DEF StatInv, ResetInv
  <2>2. \A c \in Names : counter'[c] = IF c = Head(clearing) THEN 0 ELSE counter[c]
    BY <1>1, <1>3 DEF StatTypes
  <2> QED
    BY <1>1, <1>4, <2>1, <2>2
<1>8. ASSUME ~torn', clearing' = << >> PROVE Keeps(kind', Due')
  <2>1. ToSet(clearing') = {}
    BY <1>8 DEF ToSet
  <2>2. ASSUME NEW c \in Names PROVE Due'[c] = 0
    <3>1. Owing(c)' = {}
      BY <1>7, <1>8 DEF Owing
    <3>2. counter'[c] = 0
      BY <1>7, <1>8, <2>1
    <3> QED
      BY <1>2, <3>1, <3>2, FS_EmptySet DEF Due
  <2>3. PICK k, v : k \in Structures /\ k = kind /\ v = Due'
    BY <1>3 DEF StatTypes
  <2>4. v \in [NamesOf(k) -> Nat]
    <3>1. Due' = [c \in Names |-> Due'[c]]
      BY <1>2 DEF Due
    <3> QED
      BY <1>2, <2>2, <2>3, <3>1
  <2>5. Keeps(k, v)
    BY <1>2, <2>2, <2>3, <2>4, ZeroKeeps
  <2> QED
    BY <1>1, <2>3, <2>5
<1>9. ResetInv'
  BY <1>2, <1>7, <1>8 DEF ResetInv
<1> QED
  BY <1>5, <1>6, <1>9 DEF StatInv

LEMMA OthersStay ==
  ASSUME StatInv, UNCHANGED <<kind, counter, pending, clearing, torn>>
  PROVE  /\ StatTypes' /\ ResetInv' /\ Names' = Names /\ NamesOf(kind) = Names
         /\ StatTypes /\ Counters(kind) \in Seq(Names)
<1>1. Names' = Names /\ NamesOf(kind) = Names /\ StatTypes
  BY StatNames DEF StatInv
<1>2. \A c : Owing(c)' = Owing(c)
  BY DEF Owing
<1>3. Due' = Due
  BY <1>1, <1>2 DEF Due
<1>4. ResetInv'
  BY <1>1, <1>3 DEF StatInv, ResetInv
<1> QED
  BY <1>1, <1>4, StructureIs DEF StatTypes

LEMMA BeginSnapshotStep ==
  ASSUME StatInv, BeginSnapshot
  PROVE  StatInv'
<1>1. /\ clearing = << >> /\ UNCHANGED <<kind, counter, pending, clearing, records, torn>>
      /\ snap' = [todo |-> Counters(kind), seen |-> [c \in Names |-> 0], start |-> counter]
  BY DEF BeginSnapshot
<1>2. /\ StatTypes' /\ ResetInv' /\ Names' = Names
      /\ StatTypes /\ Counters(kind) \in Seq(Names)
  BY <1>1, OthersStay
<1>3. snap' \in Snaps /\ \A c \in Names : snap'.start[c] <= counter[c]
  BY <1>1, <1>2 DEF Snaps, StatTypes
<1>4. \A c \in Names : c \in ToSet(snap'.todo)
  BY <1>1 DEF Names
<1>5. SnapInv'
  BY <1>1, <1>2, <1>3, <1>4 DEF SnapInv, Snaps
<1> QED
  BY <1>2, <1>5 DEF StatInv

LEMMA ReadStep ==
  ASSUME StatInv, Read
  PROVE  StatInv'
<1>1. PICK h : h = Head(snap.todo)
  OBVIOUS
<1>2. /\ snap.seen # << >> /\ snap.todo # << >>
      /\ snap' = [snap EXCEPT !.todo = Tail(snap.todo), !.seen[h] = counter[h]]
      /\ UNCHANGED <<kind, counter, pending, clearing, records, torn>>
  BY <1>1 DEF Read
<1>3. /\ StatTypes' /\ ResetInv' /\ Names' = Names /\ StatTypes
  BY <1>2, OthersStay
<1>4. /\ snap \in Snaps /\ clearing = << >>
      /\ \A c \in Names :
           /\ snap.start[c] <= counter[c]
           /\ c \notin ToSet(snap.todo) =>
                snap.start[c] <= snap.seen[c] /\ snap.seen[c] <= counter[c]
  BY <1>2 DEF StatInv, SnapInv
<1>5. /\ h \in Names /\ Tail(snap.todo) \in Seq(Names)
      /\ \A x \in ToSet(snap.todo) : x \in ToSet(Tail(snap.todo)) \/ x = h
  <2>1. snap.todo \in Seq(Names)
    BY <1>4 DEF Snaps
  <2> QED
    BY <1>1, <1>2, <2>1, TailIs
<1>6. /\ snap' \in Snaps /\ snap'.todo = Tail(snap.todo) /\ snap'.start = snap.start
      /\ \A c \in Names : snap'.seen[c] = IF c = h THEN counter[c] ELSE snap.seen[c]
  BY <1>2, <1>3, <1>4, <1>5 DEF Snaps, StatTypes
<1>7. ASSUME NEW c \in Names
      PROVE  /\ snap'.start[c] <= counter[c]
             /\ c \notin ToSet(snap'.todo) =>
                  snap'.start[c] <= snap'.seen[c] /\ snap'.seen[c] <= counter[c]
  <2>1. counter[c] \in Nat
    BY <1>3 DEF StatTypes
  <2>2. CASE c = h
    BY <1>4, <1>6, <2>1, <2>2
  <2>3. CASE c # h
    BY <1>4, <1>5, <1>6, <2>3
  <2> QED
    BY <2>2, <2>3
<1>8. SnapInv'
  BY <1>2, <1>3, <1>4, <1>6, <1>7 DEF SnapInv, Snaps
<1> QED
  BY <1>3, <1>8 DEF StatInv

LEMMA EndSnapshotStep ==
  ASSUME StatInv, EndSnapshot
  PROVE  StatInv'
<1>1. snap' = Taken /\ UNCHANGED <<kind, counter, pending, clearing, records, torn>>
  BY DEF EndSnapshot
<1>2. StatTypes' /\ ResetInv'
  BY <1>1, OthersStay
<1>3. SnapInv'
  BY <1>1 DEF SnapInv, Taken, NoSnap
<1> QED
  BY <1>2, <1>3 DEF StatInv

LEMMA StatStep == StatInv /\ [StatisticsNext]_statVars => StatInv'
<1> SUFFICES ASSUME StatInv, [StatisticsNext]_statVars PROVE StatInv'
  OBVIOUS
<1>1. CASE StatisticsNext
  BY <1>1, RecordStep, AddStep, BeginResetStep, ClearStep, BeginSnapshotStep, ReadStep,
     EndSnapshotStep, Zenon DEF StatisticsNext
<1>2. CASE UNCHANGED statVars
  <2>1. UNCHANGED <<kind, counter, pending, clearing, torn>> /\ UNCHANGED snap
    BY <1>2 DEF statVars
  <2>2. StatTypes' /\ ResetInv' /\ Names' = Names
    BY <2>1, OthersStay
  <2>3. SnapInv'
    BY <2>1, <2>2 DEF StatInv, SnapInv, Snaps
  <2> QED
    BY <2>2, <2>3 DEF StatInv
<1> QED
  BY <1>1, <1>2

LEMMA AgreeIs ==
  ASSUME NEW v \in [NamesOf(kind) -> Nat], kind \in Structures, Keeps(kind, v)
  PROVE  Agree(v)
<1> SUFFICES ASSUME NEW rel \in Relations(kind)
    PROVE  IF rel.exact THEN Sum(v, rel.whole) = Sum(v, rel.parts)
           ELSE Sum(v, rel.whole) >= Sum(v, rel.parts)
  BY Zenon DEF Agree
<1>1. Related(v, rel)
  BY DEF Keeps
<1>2. PICK x, y : x = Sum(v, rel.whole) /\ y = Sum(v, rel.parts)
  OBVIOUS
<1>3. IF rel.exact THEN x = y ELSE y <= x
  BY <1>1, <1>2, Zenon DEF Related
<1>4. IF rel.exact THEN x = y ELSE x >= y
  BY <1>3
<1> QED
  BY <1>2, <1>4, Zenon

\* What the invariant says of the counters that others see.
LEMMA StatHolds == StatInv => TotalsAddUp /\ SnapshotsAreBounded
<1> SUFFICES ASSUME StatInv PROVE TotalsAddUp /\ SnapshotsAreBounded
  OBVIOUS
<1>1. StatTypes /\ NamesOf(kind) = Names
  BY StatNames DEF StatInv
<1>2. ASSUME ~torn, clearing = << >>, \A r \in Recorders : pending[r] = {} PROVE Agree(counter)
  <2>1. Keeps(kind, Due)
    BY <1>2 DEF StatInv, ResetInv
  <2>2. ASSUME NEW c \in Names PROVE Due[c] = counter[c]
    <3>1. Owing(c) = {} /\ counter[c] \in Nat
      BY <1>1, <1>2 DEF Owing, StatTypes
    <3> QED
      BY <3>1, FS_EmptySet DEF Due
  <2>3. Due = counter /\ counter \in [NamesOf(kind) -> Nat]
    <3>1. counter = [c \in Names |-> counter[c]] /\ Due = [c \in Names |-> Due[c]]
      BY <1>1 DEF StatTypes, Due
    <3>2. counter \in [NamesOf(kind) -> Nat]
      BY <1>1 DEF StatTypes
    <3> QED
      BY <2>2, <3>1, <3>2
  <2> QED
    BY <1>1, <2>1, <2>3, AgreeIs DEF StatTypes
<1>3. TotalsAddUp
  BY <1>2 DEF TotalsAddUp
<1>4. ASSUME snap.seen # << >>, snap.todo = << >>
      PROVE  \A c \in Names : snap.start[c] <= snap.seen[c] /\ snap.seen[c] <= counter[c]
  <2>1. ToSet(snap.todo) = {}
    BY <1>4 DEF ToSet
  <2> QED
    BY <1>4, <2>1 DEF StatInv, SnapInv
<1> QED
  BY <1>3, <1>4 DEF SnapshotsAreBounded

-----------------------------------------------------------------------------
(* The rules of a policy.                                                  *)

Tokens == {Number(n) : n \in Numbers} \union {Character(c) : c \in Characters}

GoodAt(text, j) ==
  IF text[j].kind = "number" THEN text[j].n < Width
  ELSE text[j].c \in DOMAIN Units /\ j > 1 /\ text[j - 1].kind = "number"
GoodUpTo(text, i) == \A j \in 1..i : GoodAt(text, j)

Weight(text, j) == text[j].n * IF j = Len(text) THEN 1 ELSE Units[text[j + 1].c]
Before(text, i) == {j \in DOMAIN text : text[j].kind = "number" /\ j < i}
\* What the numbers say whose units are among the first i tokens.
SaidBefore(text, i) == SumOf([j \in Before(text, i) |-> Weight(text, j)])

Accs == [num : {<< >>} \union {<<n>> : n \in Nat}, total : Nat, ok : BOOLEAN]

\* What the loop knows after i tokens.
ReadInv(text, i, acc) ==
  /\ acc \in Accs /\ (acc.ok <=> GoodUpTo(text, i))
  /\ acc.ok => /\ acc.num = IF i > 0 /\ text[i].kind = "number" THEN <<text[i].n>> ELSE << >>
               /\ SaidBefore(text, i) < Width => acc.total = SaidBefore(text, i)

LEMMA TextIs ==
  ASSUME NEW text \in Texts
  PROVE  /\ Len(text) \in Nat /\ DOMAIN text = 1..Len(text)
         /\ \A i \in 1..Len(text) :
              /\ text[i].kind \in {"number", "character"}
              /\ text[i].kind = "number" => text[i].n \in Nat
              /\ i < Len(text) /\ text[i].kind = "number" => text[i + 1].kind # "number"
<1>1. PICK k \in Nat : text \in [1..k -> Tokens]
  BY RulesAssumption DEF Texts, Tokens
<1>2. Len(text) = k /\ DOMAIN text = 1..k
  BY <1>1
<1>3. \A t \in Tokens : t.kind \in {"number", "character"} /\ (t.kind = "number" => t.n \in Nat)
  BY RulesAssumption DEF Tokens, Number, Character
<1>4. \A i \in 1..(Len(text) - 1) : ~(text[i].kind = "number" /\ text[i + 1].kind = "number")
  BY DEF Texts
<1> QED
  BY <1>1, <1>2, <1>3, <1>4

LEMMA UnitsAre ==
  /\ DOMAIN Units = {"h", "m", "s", "d"} /\ \A c \in DOMAIN Units : Units[c] \in Nat
BY DEF Units

LEMMA WeightIsNat ==
  ASSUME NEW text \in Texts, NEW i \in 0..Len(text), GoodUpTo(text, i), NEW j \in Before(text, i)
  PROVE  Weight(text, j) \in Nat
<1>1. j \in 1..Len(text) /\ j < i /\ text[j].kind = "number" /\ text[j].n \in Nat
      /\ j + 1 \in 1..i /\ j # Len(text) /\ text[j + 1].kind # "number"
  BY TextIs DEF Before
<1>2. text[j + 1].c \in DOMAIN Units
  BY <1>1 DEF GoodUpTo, GoodAt
<1>3. Units[text[j + 1].c] \in Nat
  BY <1>2, UnitsAre
<1> QED
  BY <1>1, <1>3 DEF Weight

LEMMA SaidIsNat ==
  ASSUME NEW text \in Texts, NEW i \in 0..Len(text), GoodUpTo(text, i)
  PROVE  /\ IsFiniteSet(Before(text, i)) /\ SaidBefore(text, i) \in Nat
         /\ [j \in Before(text, i) |-> Weight(text, j)] \in [Before(text, i) -> Nat]
<1>1. Before(text, i) \subseteq 1..Len(text) /\ Len(text) \in Nat
  BY TextIs DEF Before
<1>2. IsFiniteSet(Before(text, i))
  <2>1. PICK n \in Nat : n = Len(text)
    BY <1>1
  <2>2. IsFiniteSet(1..n)
    BY FS_Interval
  <2> QED
    BY <1>1, <2>1, <2>2, FS_Subset
<1>3. [j \in Before(text, i) |-> Weight(text, j)] \in [Before(text, i) -> Nat]
  BY WeightIsNat
<1> QED
  BY <1>2, <1>3, SumIsNat DEF SaidBefore

\* g has the values of f, but for that of y.
Without(D, f, y, E, g) ==
  /\ IsFiniteSet(D) /\ f \in [D -> Nat] /\ y \in D
  /\ E = D \ {y} /\ g \in [E -> Nat] /\ \A x \in E : f[x] = g[x]

LEMMA SumWithout ==
  ASSUME NEW D, NEW f, NEW y, NEW E, NEW g, Without(D, f, y, E, g)
  PROVE  SumOf(f) = f[y] + SumOf(g)
<1>1. IsFiniteSet(D) /\ f \in [D -> Nat] /\ y \in D
  BY DEF Without
<1>2. g \in [E -> Nat] /\ (\A x : x \in E <=> x \in D /\ x # y) /\ \A x \in E : f[x] = g[x]
  BY DEF Without
<1> QED
  BY <1>1, <1>2, SumStep

\* A number is said once its unit is read.
LEMMA SaidGrows ==
  ASSUME NEW text \in Texts, NEW i \in 0..(Len(text) - 1), GoodUpTo(text, i + 1)
  PROVE  SaidBefore(text, i + 1) =
           SaidBefore(text, i) + IF i > 0 /\ text[i].kind = "number" THEN Weight(text, i) ELSE 0
<1>1. Len(text) \in Nat /\ DOMAIN text = 1..Len(text) /\ i + 1 \in 0..Len(text) /\ i \in 0..Len(text)
  BY TextIs
<1>2. GoodUpTo(text, i)
  BY <1>1 DEF GoodUpTo
<1>3. PICK D, E : D = Before(text, i + 1) /\ E = Before(text, i)
  OBVIOUS
<1>4. PICK f, g : f = [j \in D |-> Weight(text, j)] /\ g = [j \in E |-> Weight(text, j)]
  OBVIOUS
<1>5. /\ f \in [D -> Nat] /\ g \in [E -> Nat] /\ IsFiniteSet(D)
      /\ SaidBefore(text, i + 1) = SumOf(f) /\ SaidBefore(text, i) = SumOf(g) /\ SumOf(g) \in Nat
  BY <1>1, <1>2, <1>3, <1>4, SaidIsNat DEF SaidBefore
<1>6. CASE i > 0 /\ text[i].kind = "number"
  <2>1. i \in D /\ \A j : j \in E <=> j \in D /\ j # i
    BY <1>1, <1>3, <1>6 DEF Before
  <2>2. f[i] = Weight(text, i) /\ \A j \in E : f[j] = g[j]
    BY <1>4, <2>1
  <2>3. f \in [D -> Nat] /\ g \in [E -> Nat] /\ IsFiniteSet(D)
    BY <1>5
  <2>4. i \in D /\ (\A j : j \in E <=> j \in D /\ j # i) /\ \A j \in E : f[j] = g[j]
    BY <2>1, <2>2
  <2>5. SumOf(f) = f[i] + SumOf(g)
    <3>1. Without(D, f, i, E, g)
      BY <2>3, <2>4 DEF Without
    <3> QED
      BY <3>1, SumWithout
  <2>6. f[i] \in Nat
    BY <2>3, <2>4
  <2> QED
    BY <1>5, <1>6, <2>2, <2>5, <2>6
<1>7. CASE ~(i > 0 /\ text[i].kind = "number")
  <2>1. D = E
    BY <1>1, <1>3, <1>7 DEF Before
  <2> QED
    BY <1>4, <1>5, <1>7, <2>1
<1> QED
  BY <1>6, <1>7

LEMMA BegunKnows ==
  ASSUME NEW text \in Texts
  PROVE  ReadInv(text, 0, Begun)
<1>1. Begun \in Accs /\ Begun.ok /\ Begun.num = << >> /\ Begun.total = 0
  BY DEF Begun, Accs
<1>2. GoodUpTo(text, 0)
  BY DEF GoodUpTo
<1>3. Before(text, 0) = {}
  BY TextIs DEF Before
<1>4. PICK f : f = [j \in Before(text, 0) |-> Weight(text, j)]
  OBVIOUS
<1>5. f \in [{} -> Nat]
  BY <1>3, <1>4
<1>6. SaidBefore(text, 0) = 0
  BY <1>4, <1>5, SumEmpty DEF SaidBefore
<1> QED
  BY <1>1, <1>2, <1>6 DEF ReadInv

LEMMA TakesKnows ==
  ASSUME NEW text \in Texts, NEW i \in 0..(Len(text) - 1), NEW acc, ReadInv(text, i, acc)
  PROVE  ReadInv(text, i + 1, Takes(acc, text[i + 1]))
<1>1. Len(text) \in Nat /\ i \in Nat /\ i + 1 \in 1..Len(text) /\ i \in 0..Len(text) /\ i + 1 > 0
  BY TextIs
<1>2. PICK token, next : token = text[i + 1] /\ next = Takes(acc, token)
  OBVIOUS
<1>3. /\ token.kind \in {"number", "character"}
      /\ token.kind = "number" => token.n \in Nat /\ ~(i > 0 /\ text[i].kind = "number")
      /\ i > 0 /\ text[i].kind = "number" => text[i].n \in Nat
  BY <1>1, <1>2, TextIs
<1>4. acc \in Accs /\ (acc.ok <=> GoodUpTo(text, i))
  BY DEF ReadInv
<1>5. GoodUpTo(text, i + 1) <=> GoodUpTo(text, i) /\ GoodAt(text, i + 1)
  BY <1>1 DEF GoodUpTo
<1>6. GoodAt(text, i + 1) <=>
        IF token.kind = "number" THEN token.n < Width
        ELSE token.c \in DOMAIN Units /\ i > 0 /\ text[i].kind = "number"
  BY <1>1, <1>2 DEF GoodAt
<1>7. CASE ~acc.ok
  <2>1. next = acc
    BY <1>2, <1>7 DEF Takes
  <2> QED
    BY <1>2, <1>4, <1>5, <1>7, <2>1 DEF ReadInv
<1>8. CASE acc.ok /\ token.kind = "number"
  <2>1. next = [acc EXCEPT !.num = <<token.n>>, !.ok = token.n < Width]
    BY <1>2, <1>8 DEF Takes
  <2>2. (token.n < Width) \in BOOLEAN /\ <<token.n>> \in {<<n>> : n \in Nat}
    BY <1>3, <1>8
  <2>3. next \in Accs /\ (next.ok <=> token.n < Width) /\ next.num = <<token.n>> /\ next.total = acc.total
    BY <1>4, <2>1, <2>2 DEF Accs
  <2>4. next.ok <=> GoodUpTo(text, i + 1)
    BY <1>4, <1>5, <1>6, <1>8, <2>3
  <2>5. next.ok => SaidBefore(text, i + 1) = SaidBefore(text, i) + 0
    BY <1>3, <1>8, <2>4, SaidGrows
  <2>6. next.ok => SaidBefore(text, i) \in Nat
    BY <1>1, <1>4, <1>8, SaidIsNat
  <2>7. SaidBefore(text, i) < Width => acc.total = SaidBefore(text, i)
    BY <1>8 DEF ReadInv
  <2>8. next.ok => (SaidBefore(text, i + 1) < Width => next.total = SaidBefore(text, i + 1))
    BY <2>3, <2>5, <2>6, <2>7
  <2> QED
    BY <1>1, <1>2, <1>8, <2>3, <2>4, <2>8 DEF ReadInv
<1>9. CASE acc.ok /\ token.kind # "number"
  <2>1. /\ acc.num = IF i > 0 /\ text[i].kind = "number" THEN <<text[i].n>> ELSE << >>
        /\ SaidBefore(text, i) < Width => acc.total = SaidBefore(text, i)
    BY <1>9 DEF ReadInv
  <2>2. acc.num = << >> <=> ~(i > 0 /\ text[i].kind = "number")
    BY <2>1
  <2>3. CASE acc.num = << >> \/ token.c \notin DOMAIN Units
    <3>1. next = [acc EXCEPT !.ok = FALSE]
      BY <1>2, <1>9, <2>3 DEF Takes
    <3>2. next \in Accs /\ ~next.ok
      BY <1>4, <3>1 DEF Accs
    <3> QED
      BY <1>2, <1>5, <1>6, <1>9, <2>2, <2>3, <3>2 DEF ReadInv
  <2>4. CASE acc.num # << >> /\ token.c \in DOMAIN Units
    <3>1. i > 0 /\ text[i].kind = "number" /\ text[i].n \in Nat /\ acc.num = <<text[i].n>>
      BY <1>3, <2>1, <2>2, <2>4
    <3>2. PICK n \in Nat, u \in Nat : n = text[i].n /\ u = Units[token.c]
      BY <2>4, <3>1, UnitsAre
    <3>3. next = [acc EXCEPT !.num = << >>, !.total = (acc.total + acc.num[1] * Units[token.c]) % Width]
      BY <1>2, <1>9, <2>4 DEF Takes
    <3>4. acc.num[1] = n /\ acc.total \in Nat /\ acc.ok \in BOOLEAN
      BY <1>4, <3>1, <3>2 DEF Accs
    <3>5. PICK p \in Nat : p = n * u
      BY <3>2
    <3>6. next = [acc EXCEPT !.num = << >>, !.total = (acc.total + p) % Width]
      BY <3>2, <3>3, <3>4, <3>5
    <3>7. (acc.total + p) % Width \in Nat
      BY <3>4, RulesAssumption
    <3>8. next \in Accs /\ next.ok /\ next.num = << >> /\ next.total = (acc.total + p) % Width
      BY <1>4, <1>9, <3>6, <3>7 DEF Accs
    <3>9. GoodUpTo(text, i + 1) /\ GoodUpTo(text, i)
      BY <1>4, <1>5, <1>6, <1>9, <2>4, <3>1
    <3>10. Weight(text, i) = p
      <4>1. i # Len(text) /\ text[i + 1] = token
        BY <1>1, <1>2
      <4> QED
        BY <3>2, <3>5, <4>1 DEF Weight
    <3>11. SaidBefore(text, i + 1) = SaidBefore(text, i) + p /\ SaidBefore(text, i) \in Nat
      BY <1>1, <3>1, <3>9, <3>10, SaidGrows, SaidIsNat
    <3>12. SaidBefore(text, i + 1) < Width => next.total = SaidBefore(text, i + 1)
      <4>1. \A a \in Nat : a + p < Width => (a + p) % Width = a + p /\ a < Width
        BY RulesAssumption
      <4> QED
        BY <2>1, <3>8, <3>11, <4>1
    <3> QED
      BY <1>1, <1>2, <1>9, <3>8, <3>9, <3>12 DEF ReadInv
  <2> QED
    BY <2>3, <2>4
<1> QED
  BY <1>7, <1>8, <1>9

Loop(r, text, n) ==
  r \in [0..n -> Accs] /\ \A i \in 0..n : r[i] = IF i = 0 THEN Begun ELSE Takes(r[i - 1], text[i])

LEMMA LoopsExist ==
  ASSUME NEW text \in Texts, NEW m \in 0..Len(text)
  PROVE  \E r : Loop(r, text, m)
<1> DEFINE N == {n \in Nat : n <= Len(text) =>
                    \E r : Loop(r, text, n) /\ \A i \in 0..n : ReadInv(text, i, r[i])}
<1>1. 0 \in N
  <2>1. PICK r : r = [i \in 0..0 |-> Begun]
    OBVIOUS
  <2>2. ReadInv(text, 0, Begun) /\ Begun \in Accs
    BY BegunKnows DEF ReadInv
  <2>3. r \in [0..0 -> Accs] /\ \A i \in 0..0 : i = 0 /\ r[i] = Begun
    BY <2>1, <2>2
  <2>4. Loop(r, text, 0) /\ \A i \in 0..0 : ReadInv(text, i, r[i])
    BY <2>2, <2>3 DEF Loop
  <2> QED
    BY <2>4
<1>2. ASSUME NEW n \in N PROVE n + 1 \in N
  <2>1. n \in Nat /\ Len(text) \in Nat
    BY TextIs
  <2>2. SUFFICES ASSUME n + 1 <= Len(text)
        PROVE  \E r : Loop(r, text, n + 1) /\ \A i \in 0..(n + 1) : ReadInv(text, i, r[i])
    BY <2>1
  <2>3. PICK r : Loop(r, text, n) /\ \A i \in 0..n : ReadInv(text, i, r[i])
    BY <2>1, <2>2
  <2>4. PICK next : next = Takes(r[n], text[n + 1])
    OBVIOUS
  <2>5. ReadInv(text, n + 1, next) /\ next \in Accs
    <3>1. n \in 0..(Len(text) - 1) /\ ReadInv(text, n, r[n])
      BY <2>1, <2>2, <2>3
    <3>2. ReadInv(text, n + 1, next)
      BY <2>4, <3>1, TakesKnows
    <3> QED
      BY <3>2 DEF ReadInv
  <2>6. PICK q : q = [i \in 0..(n + 1) |-> IF i <= n THEN r[i] ELSE next]
    OBVIOUS
  <2>7. q \in [0..(n + 1) -> Accs] /\ q[n + 1] = next /\ \A i \in 0..n : q[i] = r[i]
    BY <2>1, <2>3, <2>5, <2>6 DEF Loop
  <2>8. ASSUME NEW i \in 0..(n + 1)
        PROVE  /\ q[i] = IF i = 0 THEN Begun ELSE Takes(q[i - 1], text[i])
               /\ ReadInv(text, i, q[i])
    <3>1. CASE i = n + 1
      <4>1. i # 0 /\ i - 1 = n /\ n \in 0..n
        BY <2>1, <3>1
      <4> QED
        BY <2>4, <2>5, <2>7, <3>1, <4>1
    <3>2. CASE i # n + 1
      <4>1. i \in 0..n /\ (i # 0 => i - 1 \in 0..n)
        BY <2>1, <3>2
      <4> QED
        BY <2>3, <2>7, <4>1 DEF Loop
    <3> QED
      BY <3>1, <3>2
  <2> QED
    BY <2>7, <2>8 DEF Loop
<1>3. N \subseteq Nat
  OBVIOUS
<1> HIDE DEF N
<1>4. N = Nat
  BY <1>1, <1>2, <1>3, NatInd
<1>5. m \in N /\ m <= Len(text)
  BY <1>4, TextIs
<1> QED
  BY <1>5 DEF N

\* The loop knows at each of its turns what ReadInv says.
LEMMA LoopKnows ==
  ASSUME NEW text \in Texts, NEW r, Loop(r, text, Len(text))
  PROVE  ReadInv(text, Len(text), r[Len(text)])
<1> DEFINE N == {n \in Nat : n <= Len(text) => ReadInv(text, n, r[n])}
<1>1. 0 \in N
  <2>1. r[0] = Begun
    BY TextIs DEF Loop
  <2> QED
    BY <2>1, BegunKnows
<1>2. ASSUME NEW n \in N PROVE n + 1 \in N
  <2>1. n \in Nat /\ Len(text) \in Nat
    BY TextIs
  <2>2. SUFFICES ASSUME n + 1 <= Len(text) PROVE ReadInv(text, n + 1, r[n + 1])
    BY <2>1
  <2>3. n \in 0..(Len(text) - 1) /\ ReadInv(text, n, r[n])
    BY <2>1, <2>2
  <2>4. r[n + 1] = Takes(r[n], text[n + 1])
    <3>1. n + 1 \in 0..Len(text) /\ n + 1 # 0 /\ (n + 1) - 1 = n
      BY <2>1, <2>2
    <3> QED
      BY <3>1 DEF Loop
  <2> QED
    BY <2>3, <2>4, TakesKnows
<1>3. N \subseteq Nat
  OBVIOUS
<1> HIDE DEF N
<1>4. N = Nat
  BY <1>1, <1>2, <1>3, NatInd
<1>5. Len(text) \in N /\ Len(text) <= Len(text)
  BY <1>4, TextIs
<1> QED
  BY <1>5 DEF N

LEMMA ParseIs ==
  ASSUME NEW text \in Texts
  PROVE  \E r : /\ Loop(r, text, Len(text))
               /\ LET end == r[Len(text)]
                      total == (end.total + IF end.num = << >> THEN 0 ELSE end.num[1]) % Width
                  IN parse_duration(text) = IF end.ok /\ total > 0 THEN total ELSE Error
<1>1. Len(text) \in 0..Len(text)
  BY TextIs
<1>2. PICK r : Loop(r, text, Len(text))
  BY <1>1, LoopsExist
<1>3. r = [i \in 0..Len(text) |-> IF i = 0 THEN Begun ELSE Takes(r[i - 1], text[i])]
  BY <1>2 DEF Loop
<1>4. \E s : s = [i \in 0..Len(text) |-> IF i = 0 THEN Begun ELSE Takes(s[i - 1], text[i])]
  BY <1>3
<1> DEFINE read[i \in 0..Len(text)] == IF i = 0 THEN Begun ELSE Takes(read[i - 1], text[i])
<1>5. read = [i \in 0..Len(text) |-> IF i = 0 THEN Begun ELSE Takes(read[i - 1], text[i])]
  BY <1>4, Zenon
<1>6. LET end == read[Len(text)]
          total == (end.total + IF end.num = << >> THEN 0 ELSE end.num[1]) % Width
      IN parse_duration(text) = IF end.ok /\ total > 0 THEN total ELSE Error
  BY Zenon DEF parse_duration
<1> HIDE DEF read
<1>7. Len(text) \in Nat /\ \A i \in 0..Len(text) :
        /\ read[i] = IF i = 0 THEN Begun ELSE Takes(read[i - 1], text[i])
        /\ r[i] = IF i = 0 THEN Begun ELSE Takes(r[i - 1], text[i])
  BY <1>2, <1>5, TextIs DEF Loop
<1> DEFINE N == {n \in Nat : n <= Len(text) => read[n] = r[n]}
<1>8. 0 \in N
  BY <1>7
<1>9. ASSUME NEW n \in N PROVE n + 1 \in N
  <2>1. n \in Nat
    OBVIOUS
  <2>2. SUFFICES ASSUME n + 1 <= Len(text) PROVE read[n + 1] = r[n + 1]
    BY <2>1
  <2>3. n + 1 \in 0..Len(text) /\ n + 1 # 0 /\ (n + 1) - 1 = n /\ read[n] = r[n]
    BY <1>7, <2>1, <2>2
  <2> QED
    BY <1>7, <2>3
<1>10. N \subseteq Nat
  OBVIOUS
<1> HIDE DEF N
<1>11. N = Nat
  BY <1>8, <1>9, <1>10, NatInd
<1>12. read[Len(text)] = r[Len(text)]
  BY <1>7, <1>11 DEF N
<1> QED
  BY <1>2, <1>6, <1>12

\* A duration is taken for what it says.
LEMMA Understood ==
  ASSUME NEW text \in Texts
  PROVE  IF ~IsDuration(text) THEN parse_duration(text) = Error
         ELSE IF Says(text) = 0 THEN parse_duration(text) = Error
         ELSE Says(text) < Width => parse_duration(text) = Says(text)
<1>1. PICK k \in Nat : k = Len(text)
  BY TextIs
<1>2. PICK r : /\ Loop(r, text, Len(text))
               /\ LET end == r[Len(text)]
                      total == (end.total + IF end.num = << >> THEN 0 ELSE end.num[1]) % Width
                  IN parse_duration(text) = IF end.ok /\ total > 0 THEN total ELSE Error
  BY ParseIs
<1>3. PICK end : end = r[k]
  OBVIOUS
<1>4. ReadInv(text, k, end)
  BY <1>1, <1>2, <1>3, LoopKnows
<1>5. PICK last : last = IF end.num = << >> THEN 0 ELSE end.num[1]
  OBVIOUS
<1>6. parse_duration(text) = IF end.ok /\ (end.total + last) % Width > 0
                             THEN (end.total + last) % Width ELSE Error
  BY <1>1, <1>2, <1>3, <1>5
<1>7. end.ok <=> IsDuration(text)
  <2>1. IsDuration(text) <=> GoodUpTo(text, k)
    <3>1. DOMAIN text = 1..k
      BY <1>1, TextIs
    <3> QED
      BY <3>1, Zenon DEF IsDuration, GoodUpTo, GoodAt
  <2> QED
    BY <1>4, <2>1 DEF ReadInv
<1>8. CASE ~IsDuration(text)
  BY <1>6, <1>7, <1>8
<1>9. CASE IsDuration(text)
  <2>1. /\ end.ok /\ GoodUpTo(text, k) /\ end.total \in Nat
        /\ end.num = IF k > 0 /\ text[k].kind = "number" THEN <<text[k].n>> ELSE << >>
        /\ SaidBefore(text, k) < Width => end.total = SaidBefore(text, k)
    BY <1>4, <1>7, <1>9 DEF ReadInv, Accs
  <2>2. last \in Nat /\ last = IF k > 0 /\ text[k].kind = "number" THEN text[k].n ELSE 0
    <3>1. k > 0 /\ text[k].kind = "number" => text[k].n \in Nat
      BY <1>1, TextIs
    <3> QED
      BY <1>5, <2>1, <3>1
  <2>3. Says(text) = SaidBefore(text, k) + last /\ SaidBefore(text, k) \in Nat
    <3>1. PICK D, E : D = {i \in DOMAIN text : text[i].kind = "number"} /\ E = Before(text, k)
      OBVIOUS
    <3>2. PICK f, g : f = [i \in D |-> Weight(text, i)] /\ g = [i \in E |-> Weight(text, i)]
      OBVIOUS
    <3>3. Says(text) = SumOf(f) /\ SaidBefore(text, k) = SumOf(g)
      BY <3>1, <3>2, Zenon DEF Says, SaidBefore, Weight
    <3>4. k \in 0..Len(text) /\ DOMAIN text = 1..k
      BY <1>1, TextIs
    <3>5. IsFiniteSet(E) /\ SumOf(g) \in Nat /\ g \in [E -> Nat]
      BY <2>1, <3>1, <3>2, <3>3, <3>4, SaidIsNat
    <3>6. CASE k > 0 /\ text[k].kind = "number"
      <4>1. k \in D /\ E = D \ {k} /\ D = E \union {k} /\ \A i \in E : f[i] = g[i]
        BY <3>1, <3>2, <3>4, <3>6 DEF Before
      <4>2. f[k] = last
        <5>1. f[k] = text[k].n * 1
          BY <1>1, <3>2, <4>1 DEF Weight
        <5> QED
          BY <2>2, <3>6, <5>1
      <4>3. f \in [D -> Nat]
        <5>1. \A i \in D : f[i] \in Nat
          BY <2>2, <3>5, <4>1, <4>2
        <5>2. f = [i \in D |-> f[i]]
          BY <3>2
        <5> QED
          BY <5>1, <5>2
      <4>4. IsFiniteSet(D)
        BY <3>5, <4>1, FS_AddElement
      <4>5. Without(D, f, k, E, g)
        BY <3>5, <4>1, <4>3, <4>4 DEF Without
      <4>6. SumOf(f) = f[k] + SumOf(g)
        BY <4>5, SumWithout
      <4> QED
        BY <2>2, <3>3, <3>5, <4>2, <4>6
    <3>7. CASE ~(k > 0 /\ text[k].kind = "number")
      <4>1. D = E
        BY <3>1, <3>4, <3>7 DEF Before
      <4> QED
        BY <2>2, <3>2, <3>3, <3>5, <3>7, <4>1
    <3> QED
      BY <3>6, <3>7
  <2>4. \A a, b \in Nat : a + b < Width => (a + b) % Width = a + b /\ a < Width
    BY RulesAssumption
  <2>5. Says(text) < Width => (end.total + last) % Width = Says(text)
    BY <2>1, <2>2, <2>3, <2>4
  <2>6. 0 < Width
    BY RulesAssumption
  <2> QED
    BY <1>6, <1>9, <2>1, <2>2, <2>3, <2>5, <2>6
<1> QED
  BY <1>8, <1>9

\* The pool that is found.
LEMMA PoolFound ==
  ASSUME NEW pools, NEW k \in Nat, DOMAIN pools = 1..k, Len(pools) = k, NEW labels
  PROVE  LET found == find_pool_for_tier(pools, labels)
             suitable == {i \in DOMAIN pools : pools[i].online /\ HasLabels(labels, pools[i].labels)}
         IN IF suitable = {} THEN found = NoSuitablePool ELSE found \in suitable
<1>1. PICK S : S = {i \in DOMAIN pools : pools[i].online /\ HasLabels(labels, pools[i].labels)}
  OBVIOUS
<1>2. PICK T : T = S \union {k + 1}
  OBVIOUS
<1>3. T \subseteq Nat /\ T # {} /\ \A i \in S : i \in 1..k
  BY <1>1, <1>2
<1>4. PICK m \in T : \A y \in T : m <= y
  BY <1>3, NatMin
<1>5. Min(T) \in T /\ \A y \in T : Min(T) <= y
  BY <1>4, Zenon DEF Min
<1>6. find_pool_for_tier(pools, labels) = Min(T) % (k + 1)
  BY <1>1, <1>2 DEF find_pool_for_tier
<1>7. CASE S = {}
  <2>1. Min(T) = k + 1
    BY <1>2, <1>5, <1>7
  <2>2. (k + 1) % (k + 1) = 0
    OBVIOUS
  <2> QED
    BY <1>1, <1>6, <1>7, <2>1, <2>2 DEF NoSuitablePool
<1>8. CASE S # {}
  <2>1. PICK i \in S : TRUE
    BY <1>8
  <2>2. PICK found \in Nat : found = Min(T)
    BY <1>3, <1>5
  <2>3. i \in Nat /\ i \in T /\ i <= k /\ found <= i /\ found \in T
    <3>1. i \in 1..k
      BY <1>3, <2>1
    <3>2. i \in T
      BY <1>2, <2>1
    <3>3. found <= i /\ found \in T
      BY <1>5, <2>2, <3>2, Zenon
    <3> QED
      BY <3>1, <3>2, <3>3
  <2>4. found # k + 1 /\ found < k + 1
    BY <2>2, <2>3
  <2>5. found \in S /\ found % (k + 1) = found
    BY <1>2, <2>2, <2>3, <2>4
  <2> QED
    BY <1>1, <1>6, <1>8, <2>2, <2>5
<1> QED
  BY <1>7, <1>8

\* What was decided is what the rules say of what was asked.
RuleInv ==
  \/ rule = NoRule
  \/ \E text \in Texts : rule = [about |-> "duration", text |-> text, result |-> parse_duration(text)]
  \/ \E pools \in [1..MaxPools -> Pools], selector \in Selectors :
       rule = [about |-> "pool", pools |-> pools, selector |-> selector,
               result |-> find_pool_for_tier(pools, selector.match_labels)]

LEMMA RuleBegins == RulesInit => RuleInv
BY DEF RulesInit, RuleInv

LEMMA RuleStep == RuleInv /\ [RulesNext]_rule => RuleInv'
<1> SUFFICES ASSUME RuleInv, [RulesNext]_rule PROVE RuleInv'
  OBVIOUS
<1>1. CASE Understand
  <2>1. PICK text \in Texts :
          rule' = [about |-> "duration", text |-> text, result |-> parse_duration(text)]
    BY <1>1 DEF Understand
  <2> QED
    BY <2>1, Zenon DEF RuleInv
<1>2. CASE ChoosePool
  <2>1. PICK pools \in [1..MaxPools -> Pools], selector \in Selectors :
          rule' = [about |-> "pool", pools |-> pools, selector |-> selector,
                   result |-> find_pool_for_tier(pools, selector.match_labels)]
    BY <1>2 DEF ChoosePool
  <2> QED
    BY <2>1, Zenon DEF RuleInv
<1>3. CASE UNCHANGED rule
  BY <1>3, Zenon DEF RuleInv
<1> QED
  BY <1>1, <1>2, <1>3 DEF RulesNext

LEMMA RuleHolds == RuleInv => RulesAreKept
<1> SUFFICES ASSUME RuleInv PROVE RulesAreKept
  OBVIOUS
<1>1. CASE rule = NoRule
  BY <1>1 DEF RulesAreKept, DurationsAreUnderstood, PoolsAreSelected, NoRule
<1>2. ASSUME NEW text \in Texts,
             rule = [about |-> "duration", text |-> text, result |-> parse_duration(text)]
      PROVE  RulesAreKept
  <2>1. rule.about = "duration" /\ rule.text = text /\ rule.result = parse_duration(text)
    BY <1>2
  <2>2. DurationsAreUnderstood
    BY <2>1, Understood, Zenon DEF DurationsAreUnderstood
  <2>3. PoolsAreSelected
    BY <2>1 DEF PoolsAreSelected
  <2> QED
    BY <2>2, <2>3 DEF RulesAreKept
<1>3. ASSUME NEW pools \in [1..MaxPools -> Pools], NEW selector \in Selectors,
             rule = [about |-> "pool", pools |-> pools, selector |-> selector,
                     result |-> find_pool_for_tier(pools, selector.match_labels)]
      PROVE  RulesAreKept
  <2>1. /\ rule.about = "pool" /\ rule.pools = pools /\ rule.selector = selector
        /\ rule.result = find_pool_for_tier(pools, selector.match_labels)
    BY <1>3
  <2>2. MaxPools \in Nat /\ DOMAIN pools = 1..MaxPools /\ Len(pools) = MaxPools
    BY RulesAssumption
  <2>3. PICK labels : labels = selector.match_labels
    OBVIOUS
  <2>4. LET found == find_pool_for_tier(pools, labels)
            suitable == {i \in DOMAIN pools : pools[i].online /\ HasLabels(labels, pools[i].labels)}
        IN IF suitable = {} THEN found = NoSuitablePool ELSE found \in suitable
    BY <2>2, PoolFound
  <2>5. ASSUME selector.match_expressions = {}
        PROVE  {i \in DOMAIN pools : pools[i].online /\ matches(selector, pools[i].labels)}
             = {i \in DOMAIN pools : pools[i].online /\ HasLabels(labels, pools[i].labels)}
    BY <2>3, <2>5 DEF matches
  <2>6. PoolsAreSelected
    BY <2>1, <2>3, <2>4, <2>5, Zenon DEF PoolsAreSelected
  <2>7. DurationsAreUnderstood
    BY <2>1 DEF DurationsAreUnderstood
  <2> QED
    BY <2>6, <2>7 DEF RulesAreKept
<1> QED
  BY <1>1, <1>2, <1>3 DEF RuleInv

-----------------------------------------------------------------------------
(* The parts side by side.                                                 *)

ReportsInv == WatcherInv /\ EcTypeOK /\ StatInv /\ CollectorInv /\ RuleInv /\ MapInv

LEMMA ReportsBegin == Init => ReportsInv
BY InitWatcherInv, EcInitTypes, StatBegins, CollectorBegins, RuleBegins, MapBegins
   DEF Init, ReportsInv

\* One part takes a step, and the others do not.
LEMMA PartsStep ==
  [Next]_vars =>
    /\ [WatcherNext]_watcherVars /\ [EcNext]_ecVars /\ [StatisticsNext]_statVars
    /\ [CollectorNext]_collectorVars /\ [RulesNext]_rule /\ [MapNext]_mapVars
BY Zenon DEF Next, vars, Of, PolicySteps

LEMMA ReportsStep == ReportsInv /\ [Next]_vars => ReportsInv'
BY PartsStep, WatcherInvStep, EcStep, StatStep, CollectorStep, RuleStep, MapStep DEF ReportsInv

\* Volumes and stripes, recordings in every kind of statistics, increments of named
\* counters and entries of the shared map are counted once, however the tasks that
\* count them are interleaved.
THEOREM CountsStaySound == Spec => []CountsAreSound
<1>1. ReportsInv => CountsAreSound
  BY StatHolds DEF ReportsInv, WatcherInv, CollectorInv, MapInv, CountsAreSound
<1> QED
  BY <1>1, ReportsBegin, ReportsStep, PTL DEF Spec

\* Every duration a policy may hold is understood as what it says or refused, and the
\* pool found for a tier is online and one that the selector selects.
THEOREM RulesStayKept == Spec => []RulesAreKept
<1>1. ReportsInv => RulesAreKept
  BY RuleHolds DEF ReportsInv
<1> QED
  BY <1>1, ReportsBegin, ReportsStep, PTL DEF Spec
=============================================================================
