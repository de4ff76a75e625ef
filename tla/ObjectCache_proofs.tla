-------------------------- MODULE ObjectCache_proofs --------------------------
(***************************************************************************)
(* Proofs about ObjectCache, for every number of callers and keys, every   *)
(* capacity, mark and size, every policy and both ways of writing through. *)
(*   - Types: CacheOK, and for each action a lemma named after it (GetL1Is *)
(*     and so on) that says what the step does to the tiers, the call and  *)
(*     the history.  The rest is proved from these lemmas.                 *)
(*   - Extents: ExtentsOK, where the next bytes of L2's file may go.       *)
(*   - Agreement: AgreeOK, what a call that is in the middle of its work   *)
(*     knows of the tiers; StoredOK, where a version may have come from.   *)
(*   - Counters: SizesOK, the counters of bytes with the slack that calls  *)
(*     of clear leave in L1's; HitsOK, the counters of gets.               *)
(***************************************************************************)
EXTENDS ObjectCache, FiniteSetTheorems, NaturalsInduction, WellFoundedInduction, TLAPS

-----------------------------------------------------------------------------
(* Numbers.                                                                *)

\* A set of naturals that is not empty has a least element.
LEMMA NatMin ==
  ASSUME NEW T, T \subseteq Nat, T # {}
  PROVE  \E x \in T : \A y \in T : x <= y
<1>1. \E x \in T : \A y \in T : ~ (<<y, x>> \in OpToRel(<, Nat))
  BY NatLessThanWellFounded, WFMin
<1>2. \A x, y \in Nat : y < x => <<y, x>> \in OpToRel(<, Nat)
  BY Zenon DEF OpToRel
<1>3. \E R : /\ \E x \in T : \A y \in T : <<y, x>> \notin R
             /\ \A x, y \in Nat : y < x => <<y, x>> \in R
  BY <1>1, <1>2, Zenon
<1>4. PICK R : /\ \E x \in T : \A y \in T : <<y, x>> \notin R
               /\ \A x, y \in Nat : y < x => <<y, x>> \in R
  BY <1>3, Zenon
<1>5. PICK x \in T : \A y \in T : <<y, x>> \notin R
  BY <1>4, Zenon
<1>6. ASSUME NEW y \in T PROVE ~(y < x)
  BY <1>4, <1>5, Zenon
<1>7. ASSUME NEW y \in T PROVE x <= y
  <2>1. x \in Nat /\ y \in Nat /\ ~(y < x)
    BY <1>6
  <2> QED
    BY <2>1
<1> QED
  BY <1>7

\* Induction, over the numbers that have a property.
LEMMA NatInd ==
  ASSUME NEW T, T \subseteq Nat, 0 \in T, \A n \in T : n + 1 \in T
  PROVE  T = Nat
<1> SUFFICES ASSUME Nat \ T # {} PROVE FALSE
  OBVIOUS
<1>1. PICK x \in Nat \ T : \A y \in Nat \ T : x <= y
  BY NatMin
<1>2. x # 0 /\ x - 1 \in Nat /\ x = (x - 1) + 1 /\ ~(x <= x - 1)
  BY <1>1
<1>3. x - 1 \in T
  BY <1>1, <1>2
<1> QED
  BY <1>1, <1>2, <1>3

-----------------------------------------------------------------------------
(* Sums over finite sets.                                                  *)

\* Induction over the subsets of a finite set that have a property.
LEMMA SetInd ==
  ASSUME NEW D, IsFiniteSet(D), NEW T, {} \in T,
         \A S \in SUBSET D : \A x \in D : S \in T /\ x \notin S => S \union {x} \in T
  PROVE  D \in T
<1> DEFINE N == {n \in Nat : \A S \in SUBSET D : Cardinality(S) = n => S \in T}
<1>1. \A S \in SUBSET D : IsFiniteSet(S) /\ Cardinality(S) \in Nat
  BY FS_Subset, FS_CardinalityType
<1>2. 0 \in N
  BY <1>1, FS_EmptySet
<1>3. ASSUME NEW n \in N PROVE n + 1 \in N
  <2>1. n \in Nat
    OBVIOUS
  <2>2. ASSUME NEW S \in SUBSET D, Cardinality(S) = n + 1 PROVE S \in T
    <3>1. S # {}
      BY <2>1, <2>2, FS_EmptySet
    <3>2. PICK x \in S : TRUE
      BY <3>1
    <3>3. Cardinality(S \ {x}) = n
      BY <1>1, <2>1, <2>2, <3>2, FS_RemoveElement
    <3>4. S \ {x} \in SUBSET D /\ x \in D /\ x \notin S \ {x}
      BY <3>2
    <3>5. S \ {x} \in T
      BY <3>3, <3>4
    <3>6. (S \ {x}) \union {x} \in T
      BY <3>4, <3>5
    <3> QED
      BY <3>2, <3>6
  <2> QED
    BY <2>1, <2>2
<1>4. N \subseteq Nat
  OBVIOUS
<1> HIDE DEF N
<1>5. N = Nat
  BY <1>2, <1>3, <1>4, NatInd
<1>6. Cardinality(D) \in N
  BY <1>1, <1>5
<1> QED
  BY <1>6 DEF N

PickOf(S) == CHOOSE x \in S : TRUE
Small(D, n) == {S \in SUBSET D : Cardinality(S) <= n}
Part(s, f, S) == IF S = {} THEN 0 ELSE f[PickOf(S)] + s[S \ {PickOf(S)}]

LEMMA SmallSets ==
  ASSUME NEW D, IsFiniteSet(D), NEW n \in Nat, NEW S \in Small(D, n + 1), S # {}
  PROVE  PickOf(S) \in S /\ S \ {PickOf(S)} \in Small(D, n)
<1>1. PickOf(S) \in S
  BY DEF PickOf
<1>2. IsFiniteSet(S) /\ Cardinality(S) \in Nat /\ Cardinality(S) <= n + 1 /\ S \in SUBSET D
  BY FS_Subset, FS_CardinalityType DEF Small
<1>3. Cardinality(S \ {PickOf(S)}) = Cardinality(S) - 1
  BY <1>1, <1>2, FS_RemoveElement
<1> QED
  BY <1>1, <1>2, <1>3 DEF Small

LEMMA PartsExist ==
  ASSUME NEW D, IsFiniteSet(D), NEW f \in [D -> Nat]
  PROVE  \E s \in [SUBSET D -> Nat] : \A S \in SUBSET D : s[S] = Part(s, f, S)
<1> DEFINE N == {n \in Nat : \E s \in [Small(D, n) -> Nat] :
                               \A S \in Small(D, n) : s[S] = Part(s, f, S)}
<1>1. \A S \in SUBSET D : IsFiniteSet(S) /\ Cardinality(S) \in Nat
  BY FS_Subset, FS_CardinalityType
<1>2. 0 \in N
  <2>1. Small(D, 0) = {{}}
    BY <1>1, FS_EmptySet DEF Small
  <2>2. [S \in Small(D, 0) |-> 0] \in [Small(D, 0) -> Nat]
    OBVIOUS
  <2>3. \A S \in Small(D, 0) : [R \in Small(D, 0) |-> 0][S] = Part([R \in Small(D, 0) |-> 0], f, S)
    BY <2>1 DEF Part
  <2> QED
    BY <2>2, <2>3
<1>3. ASSUME NEW n \in N PROVE n + 1 \in N
  <2>1. n \in Nat
    OBVIOUS
  <2>2. PICK s \in [Small(D, n) -> Nat] : \A S \in Small(D, n) : s[S] = Part(s, f, S)
    OBVIOUS
  <2> DEFINE g == [S \in Small(D, n + 1) |-> Part(s, f, S)]
  <2>3. \A S \in Small(D, n + 1) : S # {} =>
          PickOf(S) \in S /\ S \subseteq D /\ S \ {PickOf(S)} \in Small(D, n)
    BY <2>1, SmallSets DEF Small
  <2>4. \A S \in Small(D, n + 1) : Part(s, f, S) \in Nat
    BY <2>3 DEF Part
  <2>5. g \in [Small(D, n + 1) -> Nat]
    BY <2>4
  <2>6. \A S \in Small(D, n) : S \in Small(D, n + 1)
    BY <1>1, <2>1 DEF Small
  <2>7. \A S \in Small(D, n) : g[S] = s[S]
    BY <2>2, <2>6
  <2>8. \A S \in Small(D, n + 1) : g[S] = Part(s, f, S)
    OBVIOUS
  <2> HIDE DEF g
  <2>9. \A S \in Small(D, n + 1) : Part(g, f, S) = Part(s, f, S)
    BY <2>3, <2>7 DEF Part
  <2> QED
    BY <2>1, <2>5, <2>8, <2>9
<1>4. N \subseteq Nat
  OBVIOUS
<1> HIDE DEF N
<1>5. Cardinality(D) \in N
  BY <1>1, <1>2, <1>3, <1>4, NatInd
<1>6. Small(D, Cardinality(D)) = SUBSET D
  BY FS_Subset DEF Small
<1>7. PICK s \in [SUBSET D -> Nat] : \A S \in SUBSET D : s[S] = Part(s, f, S)
  BY <1>5, <1>6 DEF N
<1> QED
  BY <1>7

LEMMA PartsUnique ==
  ASSUME NEW D, IsFiniteSet(D), NEW f, NEW g,
         NEW s, \A S \in SUBSET D : s[S] = Part(s, f, S),
         NEW r, \A S \in SUBSET D : r[S] = Part(r, g, S),
         NEW E \in SUBSET D, \A x \in E : f[x] = g[x]
  PROVE  s[E] = r[E]
<1> DEFINE N == {n \in Nat : \A S \in Small(E, n) : s[S] = r[S]}
<1>1. \A S \in SUBSET E : IsFiniteSet(S) /\ Cardinality(S) \in Nat /\ S \in SUBSET D
  BY FS_Subset, FS_CardinalityType
<1>2. 0 \in N
  <2>1. Small(E, 0) = {{}}
    BY <1>1, FS_EmptySet DEF Small
  <2> QED
    BY <2>1 DEF Part
<1>3. ASSUME NEW n \in N PROVE n + 1 \in N
  <2>1. n \in Nat /\ \A S \in Small(E, n) : s[S] = r[S]
    OBVIOUS
  <2>2. ASSUME NEW S \in Small(E, n + 1), S # {} PROVE s[S] = r[S]
    <3>1. PickOf(S) \in S /\ S \ {PickOf(S)} \in Small(E, n) /\ S \in SUBSET E
      BY <1>1, <2>1, <2>2, SmallSets DEF Small
    <3>2. S \in SUBSET D
      BY <3>1
    <3> QED
      BY <2>1, <2>2, <3>1, <3>2 DEF Part
  <2>3. \A S \in Small(E, n + 1) : s[S] = r[S]
    BY <2>2 DEF Part
  <2> QED
    BY <2>1, <2>3
<1>4. N \subseteq Nat
  OBVIOUS
<1> HIDE DEF N
<1>5. Cardinality(E) \in N
  <2>1. N = Nat
    BY <1>2, <1>3, <1>4, NatInd
  <2> QED
    BY <1>1, <2>1
<1>6. E \in Small(E, Cardinality(E))
  BY <1>1 DEF Small
<1> QED
  BY <1>5, <1>6 DEF N

\* s has the sum of the values of f over each subset of D.
Adds(s, f, D) ==
  s \in [SUBSET D -> Nat] /\ \A S \in SUBSET D : s[S] = Part(s, f, S)

LEMMA SumExists ==
  ASSUME NEW D, IsFiniteSet(D), NEW f \in [D -> Nat]
  PROVE  \E s : Adds(s, f, D) /\ SumOf(f) = s[D]
<1>0. PICK r \in [SUBSET D -> Nat] : \A S \in SUBSET D : r[S] = Part(r, f, S)
  BY PartsExist
<1>1. r = [S \in SUBSET D |-> Part(r, f, S)]
  BY <1>0
<1>2. r = [S \in SUBSET DOMAIN f |->
        IF S = {} THEN 0 ELSE f[CHOOSE x \in S : TRUE] + r[S \ {CHOOSE x \in S : TRUE}]]
  BY <1>1, Zenon DEF Part, PickOf
<1>3. \E s : s = [S \in SUBSET DOMAIN f |->
        IF S = {} THEN 0 ELSE f[CHOOSE x \in S : TRUE] + s[S \ {CHOOSE x \in S : TRUE}]]
  BY <1>2, Zenon
<1> DEFINE sum[S \in SUBSET DOMAIN f] ==
             IF S = {} THEN 0
             ELSE LET x == CHOOSE x \in S : TRUE IN f[x] + sum[S \ {x}]
<1>4. sum = [S \in SUBSET DOMAIN f |->
        IF S = {} THEN 0 ELSE f[CHOOSE x \in S : TRUE] + sum[S \ {CHOOSE x \in S : TRUE}]]
  BY <1>3, Zenon
<1>5. SumOf(f) = sum[DOMAIN f]
  BY Zenon DEF SumOf
<1> HIDE DEF sum
<1>6. sum = [S \in SUBSET D |-> Part(sum, f, S)]
  BY <1>4, Zenon DEF Part, PickOf
<1>7. \A S \in SUBSET D : sum[S] = Part(sum, f, S)
  BY <1>6
<1>8. \A S \in SUBSET D : r[S] = Part(r, f, S)
  BY <1>0
<1>9. ASSUME NEW E \in SUBSET D PROVE sum[E] = r[E]
  BY <1>7, <1>8, PartsUnique
<1>10. sum = r
  BY <1>1, <1>6, <1>9
<1>11. Adds(r, f, D) /\ SumOf(f) = r[D]
  BY <1>5, <1>8, <1>10 DEF Adds
<1> QED
  BY <1>11

\* Any member may be taken out of a sum.
LEMMA AnyPart ==
  ASSUME NEW D, IsFiniteSet(D), NEW f \in [D -> Nat], NEW s, Adds(s, f, D)
  PROVE  \A S \in SUBSET D : \A y \in S : s[S] = f[y] + s[S \ {y}]
<1> DEFINE N == {n \in Nat : \A S \in Small(D, n) : \A y \in S : s[S] = f[y] + s[S \ {y}]}
<1>1. \A S \in SUBSET D : IsFiniteSet(S) /\ Cardinality(S) \in Nat
  BY FS_Subset, FS_CardinalityType
<1>2. 0 \in N
  BY <1>1, FS_EmptySet DEF Small
<1>3. ASSUME NEW n \in N PROVE n + 1 \in N
  <2>1. n \in Nat /\ \A S \in Small(D, n) : \A y \in S : s[S] = f[y] + s[S \ {y}]
    OBVIOUS
  <2>2. ASSUME NEW S \in Small(D, n + 1), NEW y \in S PROVE s[S] = f[y] + s[S \ {y}]
    <3> DEFINE x == PickOf(S)
    <3>1. x \in S /\ S \ {x} \in Small(D, n) /\ S \in SUBSET D
      BY <2>1, SmallSets DEF Small
    <3>2. s[S] = f[x] + s[S \ {x}]
      BY <3>1 DEF Adds, Part
    <3>3. CASE y = x
      BY <3>2, <3>3
    <3>4. CASE y # x
      <4>1. s[S \ {x}] = f[y] + s[(S \ {x}) \ {y}]
        BY <2>1, <3>1, <3>4
      <4>2. IsFiniteSet(S) /\ Cardinality(S \ {y}) = Cardinality(S) - 1 /\ Cardinality(S) \in Nat
        BY <1>1, <3>1, FS_RemoveElement
      <4>3. S \ {y} \in Small(D, n)
        BY <2>1, <3>1, <4>2 DEF Small
      <4>4. s[S \ {y}] = f[x] + s[(S \ {y}) \ {x}]
        BY <2>1, <3>1, <3>4, <4>3
      <4>5. (S \ {y}) \ {x} = (S \ {x}) \ {y}
        OBVIOUS
      <4>6. f[x] \in Nat /\ f[y] \in Nat /\ s[(S \ {x}) \ {y}] \in Nat
        BY <3>1 DEF Adds
      <4>7. s[(S \ {y}) \ {x}] = s[(S \ {x}) \ {y}]
        BY <4>5, Zenon
      <4> HIDE DEF x
      <4>8. PICK a : a = s[(S \ {x}) \ {y}]
        OBVIOUS
      <4>9. PICK b, c : b = f[x] /\ c = f[y]
        OBVIOUS
      <4>10. s[S] = b + (c + a) /\ s[S \ {y}] = b + a /\ a \in Nat /\ b \in Nat /\ c \in Nat
        BY <3>2, <4>1, <4>4, <4>6, <4>7, <4>8, <4>9
      <4>11. s[S] = c + s[S \ {y}]
        BY <4>10
      <4> QED
        BY <4>9, <4>11
    <3> QED
      BY <3>3, <3>4
  <2> QED
    BY <2>1, <2>2
<1>4. N \subseteq Nat
  OBVIOUS
<1> HIDE DEF N
<1>5. \A n \in Nat : n \in N
  BY <1>2, <1>3, <1>4, NatInd
<1>6. ASSUME NEW S \in SUBSET D, NEW y \in S PROVE s[S] = f[y] + s[S \ {y}]
  <2>1. Cardinality(S) \in N /\ S \in Small(D, Cardinality(S))
    BY <1>1, <1>5 DEF Small
  <2> QED
    BY <2>1 DEF N
<1> QED
  BY <1>6

LEMMA AddsUnique ==
  ASSUME NEW E, IsFiniteSet(E), NEW f, NEW g, NEW s, NEW r,
         \A S \in SUBSET E : s[S] = Part(s, f, S), \A S \in SUBSET E : r[S] = Part(r, g, S),
         \A x \in E : f[x] = g[x]
  PROVE  s[E] = r[E]
<1>1. E \in SUBSET E
  OBVIOUS
<1> QED
  BY <1>1, PartsUnique

LEMMA SumIsNat ==
  ASSUME NEW D, IsFiniteSet(D), NEW f \in [D -> Nat]
  PROVE  SumOf(f) \in Nat
<1>1. PICK s : Adds(s, f, D) /\ SumOf(f) = s[D]
  BY SumExists
<1> QED
  BY <1>1 DEF Adds

LEMMA SumEmpty ==
  ASSUME NEW f \in [{} -> Nat]
  PROVE  SumOf(f) = 0
<1>1. PICK s : Adds(s, f, {}) /\ SumOf(f) = s[{}]
  BY SumExists, FS_EmptySet
<1> QED
  BY <1>1 DEF Adds, Part

\* A sum without one of its summands.
LEMMA SumStep ==
  ASSUME NEW D, IsFiniteSet(D), NEW f \in [D -> Nat], NEW y \in D,
         NEW E, \A x : x \in E <=> x \in D /\ x # y,
         NEW g \in [E -> Nat], \A x \in E : f[x] = g[x]
  PROVE  /\ SumOf(f) \in Nat /\ SumOf(g) \in Nat
         /\ SumOf(f) = f[y] + SumOf(g)
<1>1. IsFiniteSet(E) /\ E \in SUBSET D /\ E = D \ {y}
  BY FS_Subset
<1>2. PICK s : Adds(s, f, D) /\ SumOf(f) = s[D]
  BY SumExists
<1>3. PICK r : Adds(r, g, E) /\ SumOf(g) = r[E]
  BY <1>1, SumExists
<1>4. \A S \in SUBSET E : s[S] = Part(s, f, S)
  BY <1>1, <1>2 DEF Adds
<1>5. \A S \in SUBSET E : r[S] = Part(r, g, S)
  BY <1>3 DEF Adds
<1>10. IsFiniteSet(E)
  BY <1>1
<1>11. s[E] = r[E]
  BY <1>4, <1>5, <1>10, AddsUnique
<1>8. s[D] = f[y] + s[E]
  BY <1>1, <1>2, AnyPart
<1>9. s[D] \in Nat /\ r[E] \in Nat
  BY <1>2, <1>3 DEF Adds
<1> QED
  BY <1>2, <1>3, <1>8, <1>9, <1>11

LEMMA SumOneMore ==
  ASSUME NEW R, NEW S, NEW c, NEW u, NEW v, IsFiniteSet(R), c \in R,
         \A x : x \in S <=> x \in R /\ x # c,
         u \in [R -> Nat], v \in [S -> Nat], \A x \in S : u[x] = v[x]
  PROVE  SumOf(u) = u[c] + SumOf(v) /\ SumOf(u) \in Nat
BY SumStep

-----------------------------------------------------------------------------
(* The cache: bytes of a tier.                                             *)

Sized(f, D) ==
  /\ IsFiniteSet(D) /\ DOMAIN f = D
  /\ \A x \in D : f[x] # NoEntry => f[x].size \in Nat
SameSize(f, g, x) ==
  /\ f[x] = NoEntry <=> g[x] = NoEntry
  /\ f[x] # NoEntry => f[x].size = g[x].size

LEMMA BytesWithout ==
  ASSUME NEW D, NEW f, Sized(f, D), NEW k \in D
  PROVE  /\ BytesOf(f) \in Nat /\ SizeIn(f, k) \in Nat
         /\ SumOf([x \in Present(f) \ {k} |-> f[x].size]) \in Nat
         /\ BytesOf(f) = SizeIn(f, k) + SumOf([x \in Present(f) \ {k} |-> f[x].size])
<1> DEFINE P == Present(f)
           h == [x \in P |-> f[x].size]
           E == P \ {k}
           g == [x \in E |-> f[x].size]
<1>1. P \subseteq D /\ \A x \in P : f[x].size \in Nat /\ f[x] # NoEntry
  BY DEF Sized, Present
<1>2. IsFiniteSet(P) /\ IsFiniteSet(E)
  BY <1>1, FS_Subset, FS_RemoveElement DEF Sized
<1>3. h \in [P -> Nat] /\ g \in [E -> Nat] /\ \A x \in E : h[x] = g[x]
  BY <1>1
<1>4. BytesOf(f) = SumOf(h)
  BY DEF BytesOf
<1>5. CASE f[k] = NoEntry
  <2>1. E = P
    BY <1>1, <1>5
  <2>3. g = h
    BY <2>1
  <2>2. SumOf(h) \in Nat
    <3> HIDE DEF P, h, E, g
    <3> QED
      BY <1>2, <1>3, SumIsNat
  <2> QED
    BY <1>4, <1>5, <2>2, <2>3 DEF SizeIn
<1>6. CASE f[k] # NoEntry
  <2>1. k \in P
    BY <1>6 DEF Sized, Present
  <2>2. \A x : x \in E <=> x \in P /\ x # k
    OBVIOUS
  <2>3. h[k] = f[k].size
    BY <2>1
  <2> HIDE DEF P, h, E, g
  <2>4. SumOf(h) \in Nat /\ SumOf(g) \in Nat /\ SumOf(h) = h[k] + SumOf(g)
    BY <1>2, <1>3, <2>1, <2>2, SumStep
  <2>5. SizeIn(f, k) = f[k].size
    BY <1>6 DEF SizeIn
  <2>6. f[k].size \in Nat
    BY <1>1, <2>1
  <2> QED
    BY <1>4, <2>3, <2>4, <2>5, <2>6 DEF P, E, g
<1> QED
  BY <1>5, <1>6

\* What one change in a table does to its bytes.
LEMMA BytesChange ==
  ASSUME NEW D, NEW f, NEW g, Sized(f, D), Sized(g, D), NEW k \in D,
         \A x \in D : x # k => SameSize(f, g, x)
  PROVE  /\ BytesOf(f) \in Nat /\ SizeIn(f, k) \in Nat /\ SizeIn(f, k) <= BytesOf(f)
         /\ BytesOf(g) \in Nat /\ SizeIn(g, k) \in Nat
         /\ BytesOf(g) = BytesOf(f) - SizeIn(f, k) + SizeIn(g, k)
<1>1. Present(f) \ {k} = Present(g) \ {k}
  BY DEF Present, Sized, SameSize
<1>2. \A x \in Present(f) \ {k} : f[x].size = g[x].size
  BY DEF Present, Sized, SameSize
<1>3. [x \in Present(f) \ {k} |-> f[x].size] = [x \in Present(g) \ {k} |-> g[x].size]
  BY <1>1, <1>2
<1>4. PICK n : n = SumOf([x \in Present(f) \ {k} |-> f[x].size])
  OBVIOUS
<1>5. n = SumOf([x \in Present(g) \ {k} |-> g[x].size])
  BY <1>3, <1>4, Zenon
<1>6. /\ BytesOf(f) \in Nat /\ SizeIn(f, k) \in Nat /\ n \in Nat
      /\ BytesOf(f) = SizeIn(f, k) + n
  BY <1>4, BytesWithout, Zenon
<1>7. /\ BytesOf(g) \in Nat /\ SizeIn(g, k) \in Nat
      /\ BytesOf(g) = SizeIn(g, k) + n
  BY <1>5, BytesWithout, Zenon
<1> QED
  BY <1>6, <1>7

LEMMA NoBytes ==
  ASSUME NEW f, Present(f) = {}
  PROVE  BytesOf(f) = 0
<1>1. [x \in Present(f) |-> f[x].size] \in [{} -> Nat]
  OBVIOUS
<1> QED
  BY <1>1, SumEmpty DEF BytesOf

LEMMA SameBytes ==
  ASSUME NEW D, NEW f, NEW g, DOMAIN f = D, DOMAIN g = D, \A x \in D : SameSize(f, g, x)
  PROVE  BytesOf(g) = BytesOf(f)
<1>1. Present(f) = Present(g)
  BY DEF Present, SameSize
<1>2. \A x \in Present(f) : f[x].size = g[x].size
  BY DEF Present, SameSize
<1>3. [x \in Present(f) |-> f[x].size] = [x \in Present(g) |-> g[x].size]
  BY <1>1, <1>2
<1> QED
  BY <1>3, Zenon DEF BytesOf

\* The table f with the entries of S only.
Only(f, S) == [x \in DOMAIN f |-> IF x \in S THEN f[x] ELSE NoEntry]

LEMMA OnlyOneMore ==
  ASSUME NEW D, NEW f, Sized(f, D), NEW S \in SUBSET D, NEW k \in D, k \notin S
  PROVE  /\ BytesOf(Only(f, S)) \in Nat /\ SizeIn(f, k) \in Nat
         /\ BytesOf(Only(f, S \union {k})) = BytesOf(Only(f, S)) + SizeIn(f, k)
<1> DEFINE a == Only(f, S)
           b == Only(f, S \union {k})
<1>1. Sized(a, D) /\ Sized(b, D)
  BY DEF Sized, Only
<1>2. \A x \in D : x # k => SameSize(a, b, x)
  BY DEF Sized, Only, SameSize
<1>3. SizeIn(a, k) = 0 /\ SizeIn(b, k) = SizeIn(f, k)
  BY DEF Sized, Only, SizeIn
<1> HIDE DEF a, b
<1>4. BytesOf(b) = BytesOf(a) - SizeIn(a, k) + SizeIn(b, k) /\ BytesOf(a) \in Nat /\ SizeIn(b, k) \in Nat
  BY <1>1, <1>2, BytesChange
<1> QED
  BY <1>3, <1>4 DEF a, b

LEMMA BytesBound ==
  ASSUME NEW D, NEW f, Sized(f, D), NEW cap \in Nat,
         \A x \in D : f[x] # NoEntry => f[x].size <= cap
  PROVE  BytesOf(f) \in Nat /\ BytesOf(f) <= Cardinality(D) * cap
<1> DEFINE T == {S \in SUBSET D : BytesOf(Only(f, S)) \in Nat /\
                                  BytesOf(Only(f, S)) <= Cardinality(S) * cap}
<1>1. {} \in T
  <2>1. Present(Only(f, {})) = {}
    BY DEF Present, Only
  <2> QED
    BY <2>1, NoBytes, FS_EmptySet
<1>2. ASSUME NEW S \in SUBSET D, NEW k \in D, S \in T, k \notin S
      PROVE  S \union {k} \in T
  <2>1. IsFiniteSet(S) /\ Cardinality(S) \in Nat
    BY FS_Subset, FS_CardinalityType DEF Sized
  <2>2. Cardinality(S \union {k}) = Cardinality(S) + 1
    BY <1>2, <2>1, FS_AddElement
  <2>3. PICK n \in Nat : n = Cardinality(S)
    BY <2>1
  <2>4. SizeIn(f, k) \in Nat /\ SizeIn(f, k) <= cap
    BY DEF SizeIn, Sized
  <2>5. BytesOf(Only(f, S)) \in Nat /\ BytesOf(Only(f, S)) <= n * cap
    BY <1>2, <2>3
  <2>6. BytesOf(Only(f, S \union {k})) = BytesOf(Only(f, S)) + SizeIn(f, k)
    BY <1>2, OnlyOneMore
  <2>7. (n + 1) * cap = n * cap + cap /\ n * cap \in Nat
    BY <2>3
  <2>8. BytesOf(Only(f, S \union {k})) <= (n + 1) * cap /\ BytesOf(Only(f, S \union {k})) \in Nat
    BY <2>4, <2>5, <2>6, <2>7
  <2> QED
    BY <2>2, <2>3, <2>8
<1> HIDE DEF T
<1>3. D \in T
  <2>1. IsFiniteSet(D)
    BY DEF Sized
  <2>2. \A S \in SUBSET D : \A x \in D : S \in T /\ x \notin S => S \union {x} \in T
    BY <1>2
  <2> QED
    BY <1>1, <2>1, <2>2, SetInd
<1>4. BytesOf(Only(f, D)) = BytesOf(f)
  BY SameBytes DEF Only, Sized, SameSize
<1> QED
  BY <1>3, <1>4 DEF T

\* Candidates of L2: their sizes, and the index without them.
SizesOf(S) == [c \in S |-> c.size]
Hashed(S) == {c.hash : c \in S}
Without1(f, S) == [h \in DOMAIN f |-> IF h \in Hashed(S) THEN NoEntry ELSE f[h]]

LEMMA SizesOneMore ==
  ASSUME NEW C, IsFiniteSet(C), \A d \in C : d.size \in Nat, NEW S \in SUBSET C, NEW c \in C, c \notin S
  PROVE  /\ SumOf(SizesOf(S \union {c})) \in Nat
         /\ SumOf(SizesOf(S \union {c})) = c.size + SumOf(SizesOf(S))
<1>1. PICK R : R = S \union {c}
  OBVIOUS
<1>2. PICK u, v : u = SizesOf(R) /\ v = SizesOf(S)
  OBVIOUS
<1>3. IsFiniteSet(R) /\ c \in R /\ R \subseteq C
  BY <1>1, FS_Subset
<1>4. \A x : x \in S <=> x \in R /\ x # c
  BY <1>1
<1>5. u \in [R -> Nat] /\ v \in [S -> Nat] /\ u[c] = c.size
  BY <1>2, <1>3 DEF SizesOf
<1>6. \A x \in S : u[x] = v[x]
  BY <1>2, <1>4 DEF SizesOf
<1>7. SumOf(u) = u[c] + SumOf(v) /\ SumOf(u) \in Nat
  BY <1>3, <1>4, <1>5, <1>6, SumOneMore
<1> QED
  BY <1>1, <1>2, <1>5, <1>7

LEMMA CandidatesOut ==
  ASSUME NEW D, NEW f, Sized(f, D), NEW C, IsFiniteSet(C),
         \A c \in C : c.hash \in D /\ f[c.hash] # NoEntry /\ f[c.hash].size = c.size,
         \A c, d \in C : c.hash = d.hash => c = d
  PROVE  /\ SumOf(SizesOf(C)) \in Nat /\ BytesOf(Without1(f, C)) \in Nat
         /\ BytesOf(f) = BytesOf(Without1(f, C)) + SumOf(SizesOf(C))
<1> DEFINE T == {S \in SUBSET C : /\ SumOf(SizesOf(S)) \in Nat /\ BytesOf(Without1(f, S)) \in Nat
                                  /\ BytesOf(f) = BytesOf(Without1(f, S)) + SumOf(SizesOf(S))}
<1>0. \A c \in C : c.size \in Nat
  BY DEF Sized
<1>1. {} \in T
  <2>1. \A x \in D : SameSize(f, Without1(f, {}), x)
    BY DEF Without1, Hashed, SameSize, Sized
  <2>2. DOMAIN f = D /\ DOMAIN Without1(f, {}) = D
    BY DEF Sized, Without1
  <2>3. BytesOf(Without1(f, {})) = BytesOf(f)
    BY <2>1, <2>2, SameBytes
  <2>4. SizesOf({}) \in [{} -> Nat]
    BY DEF SizesOf
  <2>5. SumOf(SizesOf({})) = 0
    BY <2>4, SumEmpty
  <2>6. BytesOf(f) \in Nat
    <3>1. [x \in Present(f) |-> f[x].size] \in [Present(f) -> Nat] /\ IsFiniteSet(Present(f))
      BY FS_Subset DEF Present, Sized
    <3> QED
      BY <3>1, SumIsNat DEF BytesOf
  <2> QED
    BY <2>3, <2>5, <2>6
<1>2. ASSUME NEW S \in SUBSET C, NEW c \in C, S \in T, c \notin S
      PROVE  S \union {c} \in T
  <2> DEFINE R == S \union {c}
             a == Without1(f, S)
             b == Without1(f, R)
  <2>1. Sized(a, D) /\ Sized(b, D) /\ c.hash \in D
    BY DEF Sized, Without1
  <2>2. c.hash \notin Hashed(S)
    BY <1>2 DEF Hashed
  <2>3. \A x \in D : x # c.hash => SameSize(a, b, x)
    BY DEF Sized, Without1, SameSize, Hashed
  <2>4. SizeIn(a, c.hash) = c.size
    BY <2>1, <2>2 DEF SizeIn, Without1, Sized
  <2>5. SizeIn(b, c.hash) = 0
    <3>1. c.hash \in Hashed(R)
      BY DEF Hashed
    <3> QED
      BY <2>1, <3>1 DEF SizeIn, Without1, Sized
  <2>10. SumOf(SizesOf(R)) = c.size + SumOf(SizesOf(S)) /\ SumOf(SizesOf(R)) \in Nat
    BY <1>0, <1>2, SizesOneMore
  <2> HIDE DEF R, a, b
  <2>11. BytesOf(b) = BytesOf(a) - SizeIn(a, c.hash) + SizeIn(b, c.hash) /\ BytesOf(b) \in Nat
    BY <2>1, <2>3, BytesChange
  <2>12. BytesOf(f) = BytesOf(a) + SumOf(SizesOf(S)) /\ BytesOf(a) \in Nat /\ SumOf(SizesOf(S)) \in Nat
    BY <1>2 DEF a
  <2>13. BytesOf(f) = BytesOf(b) + SumOf(SizesOf(R))
    BY <1>0, <2>4, <2>5, <2>10, <2>11, <2>12
  <2> QED
    BY <2>10, <2>11, <2>13 DEF R, b
<1> HIDE DEF T
<1>3. \A S \in SUBSET C : \A x \in C : S \in T /\ x \notin S => S \union {x} \in T
  BY <1>2
<1>4. C \in T
  BY <1>1, <1>3, SetInd
<1> QED
  BY <1>4 DEF T

-----------------------------------------------------------------------------
(* The cache: types.                                                       *)

Hashes == {Hash[k] : k \in Keys}
CachedEntries == [ver : Versions, size : Sizes, ttl : BOOLEAN, count : Nat]
IndexEntries ==
  [ver : Versions, size : Sizes, ttl : BOOLEAN, count : Nat, file : Nat, offset : Nat]
StoredObjects == [ver : Versions, size : Sizes]
L1Candidates == [key : Keys, size : Sizes, expired : BOOLEAN]
CandidatesOfL2 == [hash : Hashes, size : Sizes]
Tiers == {"L1", "L2"}

Getting == {"get_l1", "drop_expired", "get_l2", "get_l3"}
Deleting == {"find_l1", "delete_l1", "delete_l2", "delete_l3"}
Filling == {"evict_l2", "alloc_l2", "insert_l2"}
Carrying == {"check_l1", "evict_l1", "insert_l1", "check_l2"} \union Filling
Clearing == {"zero_l1", "clear_l2"}
CallPcs == {"idle", "put_l3"} \union Getting \union Deleting \union Carrying \union Clearing

CacheCalls ==
  [pc : CallPcs, op : {"none", "get", "put", "delete", "clear"}, key : Keys \union {NoEntry},
   entry : CachedEntries \union {NoEntry}, cands : SUBSET (L1Candidates \union CandidatesOfL2),
   left : Nat]

\* What a call has when it is at a place in the code.
CacheCallOK(c) ==
  /\ c.pc = "idle" => c = Idle
  /\ c.key = NoEntry <=> c.pc \in {"idle"} \union Clearing
  /\ c.pc \in Carrying \union {"put_l3", "drop_expired", "delete_l1"} => c.entry # NoEntry
  /\ c.pc \in Getting => c.op = "get"
  /\ c.pc \in Deleting => c.op = "delete"
  /\ c.pc = "put_l3" => c.op = "put"
  /\ c.pc \in Carrying => c.op \in {"get", "put"}
  /\ c.pc \in Filling => c.entry.size \in MinEntrySize .. L2Capacity
  /\ c.pc = "evict_l1" => c.cands \subseteq L1Candidates
  /\ c.pc = "evict_l2" => c.cands \subseteq CandidatesOfL2 /\ IsFiniteSet(c.cands)

L1OK ==
  /\ l1 \in [map : [Keys -> CachedEntries \union {NoEntry}], size : 0 .. (Word - 1)]
  /\ \A k \in Keys : l1.map[k] # NoEntry => l1.map[k].size <= L1Capacity
L2OK ==
  /\ l2 \in [index : [Hashes -> IndexEntries \union {NoEntry}], size : 0 .. (Word - 1),
             file : Nat, offset : Nat]
  /\ \A h \in Hashes : l2.index[h] # NoEntry => l2.index[h].size \in MinEntrySize .. L2Capacity
Histories ==
  [next : Nat, ops : 0 .. MaxOps, gets : Nat, last : [Keys -> Versions \union {NoEntry}],
   stored : SUBSET Versions, excused : SUBSET Keys, drifted : SUBSET Tiers,
   crowded : SUBSET Tiers, crossed : BOOLEAN]
CallsOK ==
  calls \in [Callers -> CacheCalls] /\ \A t \in Callers : CacheCallOK(calls[t])

CacheOK ==
  /\ L1OK /\ L2OK /\ CallsOK /\ history \in Histories
  /\ l3 \in [Keys -> StoredObjects \union {NoEntry}]
  /\ metrics \in [DOMAIN NoMetrics -> Nat]

-----------------------------------------------------------------------------
(* The cache: its invariant.                                               *)

\* Versions that were put are new.
VersionsOK ==
  /\ history.next > Cardinality(Keys)
  /\ \A t \in Callers :
       /\ calls[t].op = "put" => calls[t].entry.ver > Cardinality(Keys)
       /\ calls[t].pc = "put_l3" => config.write_through
  /\ config.write_through \/ history.stored = 1 .. Cardinality(Keys)

\* With write-through, what is stored and what is carried to a tier was accepted by L3.
StoredOK ==
  /\ CachedWasStored
  /\ \A k \in Keys : l3[k] # NoEntry => l3[k].ver \in history.stored
  /\ \A t \in Callers : config.write_through /\ calls[t].pc \in Carrying =>
       calls[t].entry.ver \in history.stored

Putting(c) == c.op = "put" /\ c.pc \in Carrying

\* Copies of the object are its last version, and so is what L3 has if it should
\* have it; otherwise some tier has it.
KeyIsCurrent(k) ==
  LET last == history.last[k] IN
  /\ \A e \in {l1.map[k], l2.index[Hash[k]]} \ {NoEntry} : e.ver = last
  /\ config.write_through \/ last \in history.stored \cup {NoEntry} =>
       IF l3[k] = NoEntry THEN last = NoEntry ELSE l3[k].ver = last
  /\ last # NoEntry /\ OnlyCopy(k, last) => ~(l1.map[k] = NoEntry /\ l2.index[Hash[k]] = NoEntry)

\* What a get carries or still has to look at, and what a delete has done.
CallIsCurrent(c, k) ==
  LET last == history.last[k] IN
  /\ c.pc \in Carrying => c.entry.ver = last
  /\ c.pc = "get_l2" /\ last # NoEntry /\ OnlyCopy(k, last) => l2.index[Hash[k]] # NoEntry
  /\ c.pc = "get_l3" => last = NoEntry \/ ~OnlyCopy(k, last)
  /\ c.pc \in {"delete_l2", "delete_l3"} => l1.map[k] = NoEntry
  /\ c.pc = "delete_l3" => l2.index[Hash[k]] = NoEntry

CurrentOK(k) ==
  /\ \A t, u \in Busy(k) : t # u => calls[t].op = "get"
  /\ \A t \in Busy(k) : Putting(calls[t]) /\ config.write_through =>
       l3[k] # NoEntry /\ l3[k].ver = calls[t].entry.ver
  /\ (\A t \in Busy(k) : ~Putting(calls[t])) =>
       KeyIsCurrent(k) /\ \A t \in Busy(k) : CallIsCurrent(calls[t], k)

AgreeOK == \A k \in Keys \ history.excused : CurrentOK(k)

\* Extents of a file end where the next one begins.
ExtentsOK == ~history.crossed =>
  /\ ExtentsAreDisjoint
  /\ \A h \in Present(l2.index) : LET a == l2.index[h] IN
       a.file <= l2.file /\ (a.file = l2.file => a.offset + a.size <= l2.offset)
  /\ \A t \in Callers : calls[t].pc = "insert_l2" =>
       /\ calls[t].left + calls[t].entry.size = l2.offset
       /\ \A u \in Callers : calls[u].pc = "insert_l2" => u = t
       /\ \A h \in Present(l2.index) : LET a == l2.index[h] IN
            a.file = l2.file => a.offset + a.size <= calls[t].left

CallersAt(pcs) == {t \in Callers : calls[t].pc \in pcs}

\* Who fills a tier alone knows that there is room.
L1Bounded == "L1" \notin history.drifted \union history.crowded =>
  /\ 100 * BytesOf(l1.map) < HighPercent * L1Capacity + 100 * L1Capacity
  /\ \A t, u \in Callers : {calls[t].pc, calls[u].pc} \subseteq {"evict_l1", "insert_l1"} => t = u
  /\ \A t \in Callers :
       /\ calls[t].pc = "evict_l1" => Present(l1.map) \subseteq {c.key : c \in calls[t].cands}
       /\ calls[t].pc = "insert_l1" => 100 * BytesOf(l1.map) < HighPercent * L1Capacity
L2Bounded == "L2" \notin history.drifted \union history.crowded =>
  /\ BytesOf(l2.index) <= L2Capacity
  /\ \A t, u \in Callers : {calls[t].pc, calls[u].pc} \subseteq Filling => t = u
  /\ \A t \in Callers :
       /\ calls[t].pc = "evict_l2" => Present(l2.index) \subseteq Hashed(calls[t].cands)
       /\ calls[t].pc \in {"alloc_l2", "insert_l2"} =>
            BytesOf(l2.index) + calls[t].entry.size <= L2Capacity

\* An entry's count has grown with hits of L2 only.
CountIn(e) == e # NoEntry => 1 <= e.count /\ e.count <= 1 + metrics.l2_hit
HitsOK ==
  /\ GetsAreCounted /\ history.gets <= history.ops
  /\ \A k \in Keys : CountIn(l1.map[k])
  /\ \A h \in Hashes : CountIn(l2.index[h])
  /\ \A t \in Callers : CountIn(calls[t].entry)

-----------------------------------------------------------------------------
(* The cache: values.                                                      *)

LEMMA CacheNumbers ==
  /\ L1Capacity \in Nat \ {0} /\ Word \in Nat \ {0}
  /\ L2Capacity \in Nat /\ MinEntrySize \in Nat /\ MaxFileSize \in Nat /\ BatchSize \in Nat
  /\ MaxPuts \in Nat /\ MaxOps \in Nat
  /\ Sizes \subseteq Nat \ {0}
  /\ IsFiniteSet(Keys) /\ Cardinality(Keys) \in Nat
  /\ IsFiniteSet(Callers) /\ Cardinality(Callers) \in Nat
BY CacheAssumption, FS_CardinalityType

LEMMA VersionsAre ==
  /\ Versions = 1 .. (MaxPuts + Cardinality(Keys)) /\ Versions \subseteq Nat
  /\ 1 .. Cardinality(Keys) \subseteq Versions
BY CacheNumbers DEF Versions

LEMMA NoEntryIsNone ==
  /\ NoEntry \notin Keys /\ NoEntry \notin Versions /\ NoEntry \notin StoredObjects
  /\ NoEntry \notin CachedEntries /\ NoEntry \notin IndexEntries
<1>1. Sizes \subseteq Nat
  BY CacheNumbers
<1>2. StoredObjects \subseteq [ver : Nat, size : Nat]
  BY <1>1, VersionsAre DEF StoredObjects
<1>3. CachedEntries \subseteq [ver : Nat, size : Nat, ttl : BOOLEAN, count : Nat]
  BY <1>1, VersionsAre DEF CachedEntries
<1>4. IndexEntries \subseteq [ver : Nat, size : Nat, ttl : BOOLEAN, count : Nat,
                              file : Nat, offset : Nat]
  BY <1>1, VersionsAre DEF IndexEntries
<1> QED
  BY <1>2, <1>3, <1>4, NoEntryAssumption, VersionsAre

\* The history only gathers excuses.
LEMMA ExcuseIs ==
  ASSUME NEW h \in Histories, NEW K \in SUBSET Keys, NEW b \in BOOLEAN
  PROVE  LET g == Excuse(h, K, b) IN
         /\ g \in Histories
         /\ g.next = h.next /\ g.ops = h.ops /\ g.gets = h.gets /\ g.last = h.last
         /\ g.stored = h.stored /\ g.drifted = h.drifted /\ g.crowded = h.crowded
         /\ g.crossed = h.crossed
         /\ g.excused = IF b THEN h.excused \union K ELSE h.excused
BY DEF Histories, Excuse

LEMMA DriftIs ==
  ASSUME NEW h \in Histories, NEW i \in Tiers, NEW b \in BOOLEAN
  PROVE  LET g == Drift(h, i, b) IN
         /\ g \in Histories
         /\ g.next = h.next /\ g.ops = h.ops /\ g.gets = h.gets /\ g.last = h.last
         /\ g.stored = h.stored /\ g.excused = h.excused /\ g.crowded = h.crowded
         /\ g.crossed = h.crossed
         /\ g.drifted = IF b THEN h.drifted \union {i} ELSE h.drifted
BY DEF Histories, Drift

LEMMA CrowdIs ==
  ASSUME NEW h \in Histories, NEW i \in Tiers, NEW b \in BOOLEAN
  PROVE  LET g == Crowd(h, i, b) IN
         /\ g \in Histories
         /\ g.next = h.next /\ g.ops = h.ops /\ g.gets = h.gets /\ g.last = h.last
         /\ g.stored = h.stored /\ g.excused = h.excused /\ g.drifted = h.drifted
         /\ g.crossed = h.crossed
         /\ g.crowded = IF b THEN h.crowded \union {i} ELSE h.crowded
BY DEF Histories, Crowd

\* One caller moves on.
Moves(t, x) == calls' = [calls EXCEPT ![t] = x] /\ x \in CacheCalls /\ CacheCallOK(x)

LEMMA MovesKeep ==
  ASSUME CallsOK, NEW t \in Callers, NEW x, Moves(t, x)
  PROVE  /\ CallsOK' /\ calls'[t] = x /\ \A u \in Callers : u # t => calls'[u] = calls[u]
BY DEF CallsOK, Moves

LEMMA CallFacts ==
  ASSUME CallsOK, NEW t \in Callers
  PROVE  calls[t] \in CacheCalls /\ CacheCallOK(calls[t])
BY DEF CallsOK

LEMMA IdleIs == Idle \in CacheCalls /\ CacheCallOK(Idle)
BY NoEntryIsNone DEF Idle, CacheCalls, CacheCallOK, CallPcs, Getting, Deleting, Filling, Carrying, Clearing

LEMMA FinishMoves ==
  ASSUME CallsOK, NEW t \in Callers, Finish(t)
  PROVE  Moves(t, Idle)
BY IdleIs DEF Moves, Finish

LEMMA GotoIs ==
  ASSUME CallsOK, NEW t \in Callers, NEW p, Goto(t, p)
  PROVE  calls' = [calls EXCEPT ![t] = [calls[t] EXCEPT !.pc = p]]
BY DEF Goto, CallsOK

-----------------------------------------------------------------------------
(* The cache: what an action does to the calls, and the types it keeps.    *)

Others(t) == \A u \in Callers : u # t => calls'[u] = calls[u]

\* The call of t goes on at a place, with an entry.
Turns(t, pc, entry) ==
  /\ CallsOK' /\ Others(t)
  /\ calls'[t].pc = pc /\ calls'[t].op = calls[t].op /\ calls'[t].key = calls[t].key
  /\ calls'[t].entry = entry
Ends(t) == CallsOK' /\ Others(t) /\ calls'[t] = Idle
Starts(t, pc, op, key, entry) ==
  /\ CallsOK' /\ Others(t) /\ calls[t] = Idle
  /\ calls'[t].pc = pc /\ calls'[t].op = op /\ calls'[t].key = key
  /\ calls'[t].entry = entry

LEMMA FinishEnds ==
  ASSUME CallsOK, NEW t \in Callers, Finish(t)
  PROVE  Ends(t)
<1>1. Moves(t, Idle)
  BY FinishMoves
<1> QED
  BY <1>1, MovesKeep DEF Ends, Others

LEMMA MovesTurn ==
  ASSUME CallsOK, NEW t \in Callers, NEW x, Moves(t, x),
         x.op = calls[t].op, x.key = calls[t].key
  PROVE  Turns(t, x.pc, x.entry)
BY MovesKeep DEF Turns, Others

LEMMA MovesStart ==
  ASSUME CallsOK, NEW t \in Callers, NEW x, Moves(t, x), calls[t] = Idle
  PROVE  Starts(t, x.pc, x.op, x.key, x.entry)
BY MovesKeep DEF Starts, Others

\* A call that goes on at another place, with the same entry.
LEMMA GotoTurns ==
  ASSUME CallsOK, NEW t \in Callers, NEW p \in CallPcs, Goto(t, p),
         CacheCallOK([calls[t] EXCEPT !.pc = p])
  PROVE  Turns(t, p, calls[t].entry) /\ calls'[t].left = calls[t].left /\ calls'[t].cands = calls[t].cands
<1> DEFINE x == [calls[t] EXCEPT !.pc = p]
<1>1. calls[t] \in CacheCalls
  BY CallFacts
<1>2. x \in CacheCalls /\ x.pc = p /\ x.op = calls[t].op /\ x.key = calls[t].key
      /\ x.entry = calls[t].entry /\ x.left = calls[t].left /\ x.cands = calls[t].cands
  BY <1>1 DEF CacheCalls
<1>3. Moves(t, x)
  BY <1>2, GotoIs DEF Moves
<1> HIDE DEF x
<1>4. calls'[t] = x /\ Turns(t, x.pc, x.entry)
  BY <1>2, <1>3, MovesTurn, MovesKeep
<1> QED
  BY <1>2, <1>4

LEMMA NumbersStay ==
  ASSUME NEW a \in Int, NEW b \in Int
  PROVE  Minus(a, b) \in 0 .. (Word - 1) /\ Plus(a, b) \in 0 .. (Word - 1)
BY CacheNumbers DEF Minus, Plus

LEMMA EntryIs ==
  ASSUME NEW v \in Versions, NEW s \in Sizes, NEW b \in BOOLEAN
  PROVE  /\ Entry(v, s, b) \in CachedEntries /\ Entry(v, s, b) # NoEntry
         /\ Entry(v, s, b).ver = v /\ Entry(v, s, b).size = s /\ Entry(v, s, b).count = 1
<1>1. Entry(v, s, b) \in CachedEntries
  BY DEF Entry, CachedEntries
<1> QED
  BY <1>1, NoEntryIsNone DEF Entry

LEMMA CountKeeps ==
  ASSUME metrics \in [DOMAIN NoMetrics -> Nat], NEW N, Count(N)
  PROVE  /\ metrics' \in [DOMAIN NoMetrics -> Nat]
         /\ \A m \in DOMAIN NoMetrics : metrics'[m] = metrics[m] + (IF m \in N THEN 1 ELSE 0)
BY DEF Count

LEMMA CacheSizes ==
  ASSUME CacheOK
  PROVE  /\ l1.size \in Nat /\ l2.size \in Nat
         /\ \A e \in CachedEntries \union IndexEntries : e.size \in Nat /\ e.size \in Sizes
         /\ \A k \in Keys : SizeIn(l1.map, k) \in Nat
         /\ \A h \in Hashes : SizeIn(l2.index, h) \in Nat
<1>1. Sizes \subseteq Nat
  BY CacheNumbers
<1>2. \A e \in CachedEntries \union IndexEntries : e.size \in Nat /\ e.size \in Sizes
  BY <1>1 DEF CachedEntries, IndexEntries
<1>3. l1.size \in Nat /\ l2.size \in Nat
  BY CacheNumbers DEF CacheOK, L1OK, L2OK
<1>4. ASSUME NEW k \in Keys PROVE SizeIn(l1.map, k) \in Nat
  <2>1. l1.map[k] = NoEntry \/ l1.map[k] \in CachedEntries
    BY DEF CacheOK, L1OK
  <2> QED
    BY <1>2, <2>1 DEF SizeIn
<1>5. ASSUME NEW h \in Hashes PROVE SizeIn(l2.index, h) \in Nat
  <2>1. l2.index[h] = NoEntry \/ l2.index[h] \in IndexEntries
    BY DEF CacheOK, L2OK
  <2> QED
    BY <1>2, <2>1 DEF SizeIn
<1> QED
  BY <1>2, <1>3, <1>4, <1>5

LEMMA RemoveKeeps ==
  ASSUME L1OK, NEW k \in Keys, NEW s \in Sizes, l1' = RemoveFromL1(k, s)
  PROVE  /\ L1OK' /\ l1'.map = [l1.map EXCEPT ![k] = NoEntry] /\ l1'.size = Minus(l1.size, s)
<1>1. l1.size \in Int /\ s \in Int
  BY CacheNumbers DEF L1OK
<1>2. Minus(l1.size, s) \in 0 .. (Word - 1)
  BY <1>1, NumbersStay
<1> QED
  BY <1>2 DEF L1OK, RemoveFromL1

LEMMA OnlyCopiesAre ==
  ASSUME L1OK
  PROVE  /\ \A S : OnlyInL1(S) \in SUBSET Keys
         /\ \A S : OnlyInL2(S) \in SUBSET Keys
         /\ Present(l1.map) = {k \in Keys : l1.map[k] # NoEntry}
BY DEF OnlyInL1, OnlyInL2, Present, L1OK

LEMMA L2Domain ==
  ASSUME L2OK
  PROVE  Present(l2.index) = {h \in Hashes : l2.index[h] # NoEntry} /\ DOMAIN l2.index = Hashes
BY DEF Present, L2OK

\* What a caller at work has.
LEMMA CallHas ==
  ASSUME CallsOK, NEW t \in Callers
  PROVE  /\ calls[t].pc \in CallPcs
         /\ calls[t].pc \notin {"idle", "zero_l1", "clear_l2"} => calls[t].key \in Keys /\ Hash[calls[t].key] \in Hashes
         /\ calls[t].pc \in Carrying \union {"put_l3", "drop_expired", "delete_l1"} =>
              calls[t].entry \in CachedEntries /\ calls[t].entry # NoEntry
BY CallFacts DEF CacheCalls, CacheCallOK, Clearing, Hashes

\* A quiet action leaves the tiers alone.
LEMMA TiersKeep ==
  ASSUME CacheOK, CallsOK'
  PROVE  /\ (UNCHANGED l1 => L1OK') /\ (UNCHANGED l2 => L2OK')
         /\ (UNCHANGED history => history' \in Histories)
         /\ (UNCHANGED l3 => l3' \in [Keys -> StoredObjects \union {NoEntry}])
         /\ (UNCHANGED metrics => metrics' \in [DOMAIN NoMetrics -> Nat])
BY DEF CacheOK, L1OK, L2OK

LEMMA BeginIs ==
  ASSUME CacheOK, NEW t \in Callers, NEW k \in Keys, NEW op \in {"get", "delete"}, NEW p \in CallPcs,
         Begin(t, op, k), calls' = [calls EXCEPT ![t] = [Idle EXCEPT !.pc = p, !.op = op, !.key = k]],
         (op = "get" /\ p = "get_l1") \/ (op = "delete" /\ p = "find_l1")
  PROVE  CacheOK' /\ Starts(t, p, op, k, NoEntry)
<1> DEFINE x == [Idle EXCEPT !.pc = p, !.op = op, !.key = k]
           h == [history EXCEPT !.ops = @ + 1, !.gets = @ + (IF op = "get" THEN 1 ELSE 0)]
<1>1. x \in CacheCalls /\ x.pc = p /\ x.op = op /\ x.key = k /\ x.entry = NoEntry /\ k # NoEntry
  BY NoEntryIsNone DEF Idle, CacheCalls
<1>2. CacheCallOK(x)
  BY <1>1 DEF CacheCallOK, Carrying, Getting, Deleting, Filling, Clearing
<1>3. calls[t] = Idle
  BY CallFacts DEF Begin, At, CacheOK, CacheCallOK
<1>4. Moves(t, x)
  BY <1>1, <1>2 DEF Moves
<1>5. h \in Histories
  <2>1. history.ops \in 0 .. MaxOps /\ history.ops < MaxOps /\ history.gets \in Nat
    BY DEF Begin, CacheOK, Histories
  <2>2. history.ops + 1 \in 0 .. MaxOps /\ history.gets + (IF op = "get" THEN 1 ELSE 0) \in Nat
    BY <2>1, CacheNumbers
  <2> QED
    BY <2>2 DEF CacheOK, Histories
<1>6. history' \in Histories
  <2>1. history' = Excuse(h, {k}, Overlaps(k, op)) /\ Overlaps(k, op) \in BOOLEAN
    BY DEF Begin, Overlaps
  <2> HIDE DEF h
  <2> QED
    BY <1>5, <2>1, ExcuseIs
<1> HIDE DEF x
<1>7. Starts(t, p, op, k, NoEntry)
  BY <1>1, <1>3, <1>4, MovesStart DEF CacheOK
<1> QED
  BY <1>6, <1>7, TiersKeep DEF CacheOK, Begin, Starts

LEMMA BeginGetIs ==
  ASSUME CacheOK, NEW t \in Callers, BeginGet(t)
  PROVE  /\ CacheOK' /\ UNCHANGED <<config, l1, l2, l3, expired, metrics>>
         /\ \E k \in Keys : Begin(t, "get", k) /\ Starts(t, "get_l1", "get", k, NoEntry)
<1>1. PICK k \in Keys :
        /\ Begin(t, "get", k)
        /\ calls' = [calls EXCEPT ![t] = [Idle EXCEPT !.pc = "get_l1", !.op = "get", !.key = k]]
  BY DEF BeginGet
<1>2. "get_l1" \in CallPcs /\ "get" \in {"get", "delete"}
  BY DEF CallPcs, Getting
<1>3. CacheOK' /\ Starts(t, "get_l1", "get", k, NoEntry)
  BY <1>1, <1>2, BeginIs
<1> QED
  BY <1>1, <1>3 DEF Begin

LEMMA BeginDeleteIs ==
  ASSUME CacheOK, NEW t \in Callers, BeginDelete(t)
  PROVE  /\ CacheOK' /\ UNCHANGED <<config, l1, l2, l3, expired, metrics>>
         /\ \E k \in Keys : Begin(t, "delete", k) /\ Starts(t, "find_l1", "delete", k, NoEntry)
<1>1. PICK k \in Keys :
        /\ Begin(t, "delete", k)
        /\ calls' = [calls EXCEPT ![t] = [Idle EXCEPT !.pc = "find_l1", !.op = "delete", !.key = k]]
  BY DEF BeginDelete
<1>2. "find_l1" \in CallPcs
  BY DEF CallPcs, Deleting
<1>3. CacheOK' /\ Starts(t, "find_l1", "delete", k, NoEntry)
  BY <1>1, <1>2, BeginIs
<1> QED
  BY <1>1, <1>3 DEF Begin

\* What Begin says of the history.
LEMMA BeginHistory ==
  ASSUME CacheOK, NEW t, NEW op, NEW k \in Keys, Begin(t, op, k)
  PROVE  /\ history'.next = history.next /\ history'.last = history.last
         /\ history'.ops = history.ops + 1
         /\ history'.gets = history.gets + (IF op = "get" THEN 1 ELSE 0)
         /\ history'.stored = history.stored /\ history'.drifted = history.drifted
         /\ history'.crowded = history.crowded /\ history'.crossed = history.crossed
         /\ history'.excused = IF Overlaps(k, op) THEN history.excused \union {k} ELSE history.excused
BY DEF Begin, Excuse, CacheOK, Histories

LEMMA GetL1Is ==
  ASSUME CacheOK, NEW t \in Callers, GetL1(t)
  PROVE  LET e == l1.map[calls[t].key] IN
         /\ CacheOK' /\ UNCHANGED <<config, l1, l2, l3, expired, history>>
         /\ calls[t].pc = "get_l1" /\ calls[t].op = "get" /\ calls[t].key \in Keys
         /\ \/ e = NoEntry /\ Turns(t, "get_l2", calls[t].entry) /\ Count({"l1_miss"})
            \/ e # NoEntry /\ is_expired(e) /\ Turns(t, "drop_expired", e) /\ Count({"l1_miss"})
            \/ e # NoEntry /\ Ends(t) /\ Count({"l1_hit"})
<1> DEFINE e == l1.map[calls[t].key]
<1>1. /\ calls[t].pc = "get_l1" /\ calls[t].op = "get" /\ calls[t].key \in Keys
      /\ calls[t] \in CacheCalls /\ CacheCallOK(calls[t]) /\ calls[t].key # NoEntry
  BY CallFacts, CallHas DEF GetL1, At, CacheOK, CacheCallOK, Getting, Clearing
<1>2. CASE e = NoEntry
  <2>1. Goto(t, "get_l2") /\ Count({"l1_miss"})
    BY <1>2 DEF GetL1
  <2>2. "get_l2" \in CallPcs
    BY DEF CallPcs, Getting
  <2>3. CacheCallOK([calls[t] EXCEPT !.pc = "get_l2"])
    BY <1>1 DEF CacheCallOK, CacheCalls, Carrying, Getting, Deleting, Filling, Clearing
  <2>4. Turns(t, "get_l2", calls[t].entry)
    BY <2>1, <2>2, <2>3, GotoTurns DEF CacheOK
  <2>5. CallsOK' /\ metrics' \in [DOMAIN NoMetrics -> Nat]
    BY <2>1, <2>4, CountKeeps DEF Turns, CacheOK
  <2> QED
    BY <1>1, <1>2, <2>1, <2>4, <2>5, TiersKeep DEF GetL1, CacheOK
<1>3. CASE e # NoEntry /\ is_expired(e) /\ Count({"l1_miss"}) /\
           calls' = [calls EXCEPT ![t].pc = "drop_expired", ![t].entry = e]
  <2> DEFINE x == [calls[t] EXCEPT !.pc = "drop_expired", !.entry = e]
  <2>1. calls' = [calls EXCEPT ![t] = x]
    BY <1>3 DEF CacheOK, CallsOK
  <2>2. e \in CachedEntries
    BY <1>1, <1>3 DEF CacheOK, L1OK
  <2>3. /\ x \in CacheCalls /\ x.pc = "drop_expired" /\ x.op = calls[t].op /\ x.key = calls[t].key
        /\ x.entry = e
    BY <1>1, <2>2 DEF CacheCalls, CallPcs, Getting
  <2>4. CacheCallOK(x)
    BY <1>1, <1>3, <2>3 DEF CacheCallOK, Carrying, Getting, Deleting, Filling, Clearing
  <2>5. Moves(t, x)
    BY <2>1, <2>3, <2>4 DEF Moves
  <2> HIDE DEF x, e
  <2>6. Turns(t, "drop_expired", e)
    BY <2>3, <2>5, MovesTurn DEF CacheOK
  <2>7. CallsOK' /\ metrics' \in [DOMAIN NoMetrics -> Nat]
    BY <1>3, <2>6, CountKeeps DEF Turns, CacheOK
  <2> QED
    BY <1>1, <1>3, <2>6, <2>7, TiersKeep DEF GetL1, CacheOK, e
<1>4. CASE e # NoEntry /\ Finish(t) /\ Count({"l1_hit"})
  <2>1. Ends(t)
    BY <1>4, FinishEnds DEF CacheOK
  <2>2. CallsOK' /\ metrics' \in [DOMAIN NoMetrics -> Nat]
    BY <1>4, <2>1, CountKeeps DEF Ends, CacheOK
  <2> QED
    BY <1>1, <1>4, <2>1, <2>2, TiersKeep DEF GetL1, CacheOK
<1> QED
  BY <1>2, <1>3, <1>4 DEF GetL1

LEMMA DropExpiredIs ==
  ASSUME CacheOK, NEW t \in Callers, DropExpired(t)
  PROVE  LET k == calls[t].key  e == calls[t].entry IN
         /\ CacheOK' /\ UNCHANGED <<config, l2, l3, expired, metrics>>
         /\ calls[t].pc = "drop_expired" /\ calls[t].op = "get" /\ k \in Keys /\ e \in CachedEntries /\ e # NoEntry
         /\ l1'.map = [l1.map EXCEPT ![k] = NoEntry] /\ l1'.size = Minus(l1.size, e.size)
         /\ history' = Drift(Excuse(history, {k}, OnlyInL1({k}) # {}), "L1", ~RemovesItsSize(k, e.size))
         /\ Turns(t, "get_l2", NoEntry)
<1> DEFINE k == calls[t].key
           e == calls[t].entry
           x == [calls[t] EXCEPT !.pc = "get_l2", !.entry = NoEntry]
<1>1. /\ calls[t].pc = "drop_expired" /\ calls[t].op = "get" /\ k \in Keys
      /\ calls[t] \in CacheCalls /\ CacheCallOK(calls[t]) /\ k # NoEntry
      /\ e \in CachedEntries /\ e # NoEntry /\ e.size \in Sizes
  BY CallFacts, CallHas DEF DropExpired, At, CacheOK, CacheCallOK, Getting, Clearing, CachedEntries
<1>2. calls' = [calls EXCEPT ![t] = x]
  BY DEF DropExpired, CacheOK, CallsOK
<1>3. x \in CacheCalls /\ x.pc = "get_l2" /\ x.op = calls[t].op /\ x.key = calls[t].key /\ x.entry = NoEntry
  BY <1>1 DEF CacheCalls, CallPcs, Getting
<1>4. CacheCallOK(x)
  BY <1>1, <1>3 DEF CacheCallOK, Carrying, Getting, Deleting, Filling, Clearing
<1>5. Moves(t, x)
  BY <1>2, <1>3, <1>4 DEF Moves
<1> HIDE DEF x
<1>6. Turns(t, "get_l2", NoEntry)
  BY <1>3, <1>5, MovesTurn DEF CacheOK
<1>7. l1' = RemoveFromL1(k, e.size)
  BY DEF DropExpired
<1>8. history' = Drift(Excuse(history, {k}, OnlyInL1({k}) # {}), "L1", ~RemovesItsSize(k, e.size))
  BY DEF DropExpired
<1>9. history' \in Histories
  <2>1. Excuse(history, {k}, OnlyInL1({k}) # {}) \in Histories
    BY <1>1, ExcuseIs DEF CacheOK
  <2> QED
    BY <1>8, <2>1, DriftIs DEF Tiers, RemovesItsSize
<1>10. L1OK' /\ l1'.map = [l1.map EXCEPT ![k] = NoEntry] /\ l1'.size = Minus(l1.size, e.size)
  BY <1>1, <1>7, RemoveKeeps DEF CacheOK
<1> QED
  BY <1>1, <1>6, <1>8, <1>9, <1>10, TiersKeep DEF DropExpired, CacheOK, Turns

Ladder(tier) == IF tier = "L1" THEN "check_l1" ELSE "check_l2"

LEMMA CarryIs ==
  ASSUME CallsOK, NEW t \in Callers, calls[t].pc \in {"get_l2", "get_l3", "put_l3"},
         NEW tier, NEW e \in CachedEntries, Carry(t, tier, e)
  PROVE  Turns(t, Ladder(tier), e)
<1> DEFINE x == [calls[t] EXCEPT !.pc = Ladder(tier), !.entry = e]
<1>1. /\ calls[t] \in CacheCalls /\ CacheCallOK(calls[t])
      /\ calls[t].key # NoEntry /\ calls[t].op \in {"get", "put"} /\ e # NoEntry
  BY CallFacts, NoEntryIsNone DEF CacheCallOK, Getting, Clearing
<1>2. calls' = [calls EXCEPT ![t] = x]
  BY DEF Carry, CallsOK, Ladder
<1>3. /\ x \in CacheCalls /\ x.pc = Ladder(tier) /\ x.op = calls[t].op /\ x.key = calls[t].key
      /\ x.entry = e /\ x.pc \in {"check_l1", "check_l2"}
  BY <1>1 DEF CacheCalls, CallPcs, Carrying, Ladder
<1>4. CacheCallOK(x)
  BY <1>1, <1>3 DEF CacheCallOK, Carrying, Getting, Deleting, Filling, Clearing
<1>5. Moves(t, x)
  BY <1>2, <1>3, <1>4 DEF Moves
<1> HIDE DEF x
<1>6. Turns(t, x.pc, x.entry)
  BY <1>3, <1>5, MovesTurn
<1> QED
  BY <1>3, <1>6

LEMMA FromL2Is ==
  ASSUME NEW i \in IndexEntries
  PROVE  /\ FromL2(i, i.count + 1) \in CachedEntries
         /\ FromL2(i, i.count + 1).ver = i.ver /\ FromL2(i, i.count + 1).size = i.size
         /\ FromL2(i, i.count + 1).count = i.count + 1
BY DEF FromL2, IndexEntries, CachedEntries

LEMMA GetL2Is ==
  ASSUME CacheOK, NEW t \in Callers, GetL2(t)
  PROVE  LET h == Hash[calls[t].key]  i == l2.index[h] IN
         /\ CacheOK' /\ UNCHANGED <<config, l1, l3, expired, history>>
         /\ calls[t].pc = "get_l2" /\ calls[t].op = "get" /\ calls[t].key \in Keys /\ h \in Hashes
         /\ \/ i = NoEntry /\ UNCHANGED l2 /\ Turns(t, "get_l3", calls[t].entry) /\ Count({"l2_miss"})
            \/ /\ i # NoEntry /\ i \in IndexEntries
               /\ l2' = [l2 EXCEPT !.index[h].count = @ + 1]
               /\ \/ Turns(t, "check_l1", FromL2(i, i.count + 1)) /\ Count({"l2_hit", "l2_to_l1"})
                  \/ Ends(t) /\ Count({"l2_hit"})
<1> DEFINE h == Hash[calls[t].key]
           i == l2.index[h]
<1>1. /\ calls[t].pc = "get_l2" /\ calls[t].op = "get" /\ calls[t].key \in Keys /\ h \in Hashes
      /\ calls[t] \in CacheCalls /\ CacheCallOK(calls[t]) /\ calls[t].key # NoEntry
  BY CallFacts, CallHas DEF GetL2, At, CacheOK, CacheCallOK, Getting, Clearing
<1>2. CASE i = NoEntry
  <2>1. Goto(t, "get_l3") /\ Count({"l2_miss"}) /\ UNCHANGED l2
    BY <1>2 DEF GetL2
  <2>2. "get_l3" \in CallPcs
    BY DEF CallPcs, Getting
  <2>3. CacheCallOK([calls[t] EXCEPT !.pc = "get_l3"])
    BY <1>1 DEF CacheCallOK, CacheCalls, Carrying, Getting, Deleting, Filling, Clearing
  <2>4. Turns(t, "get_l3", calls[t].entry)
    BY <2>1, <2>2, <2>3, GotoTurns DEF CacheOK
  <2>5. CallsOK' /\ metrics' \in [DOMAIN NoMetrics -> Nat]
    BY <2>1, <2>4, CountKeeps DEF Turns, CacheOK
  <2> QED
    BY <1>1, <1>2, <2>1, <2>4, <2>5, TiersKeep DEF GetL2, CacheOK
<1>3. ASSUME i # NoEntry
      PROVE  /\ L2OK' /\ i \in IndexEntries /\ l2' = [l2 EXCEPT !.index[h].count = @ + 1]
             /\ \/ Carry(t, "L1", FromL2(i, i.count + 1)) /\ Count({"l2_hit", "l2_to_l1"})
                \/ Finish(t) /\ Count({"l2_hit"})
  <2>1. i \in IndexEntries
    BY <1>1, <1>3 DEF CacheOK, L2OK
  <2>2. l2' = [l2 EXCEPT !.index[h].count = @ + 1]
    BY <1>3 DEF GetL2
  <2>3. [i EXCEPT !.count = @ + 1] \in IndexEntries /\ [i EXCEPT !.count = @ + 1].size = i.size
    BY <2>1 DEF IndexEntries
  <2>4. L2OK'
    BY <1>1, <1>3, <2>2, <2>3 DEF CacheOK, L2OK
  <2>5. \/ Carry(t, "L1", FromL2(i, i.count + 1)) /\ Count({"l2_hit"} \cup {"l2_to_l1"})
        \/ Finish(t) /\ Count({"l2_hit"} \cup {})
    BY <1>3, Zenon DEF GetL2
  <2>6. {"l2_hit"} \cup {"l2_to_l1"} = {"l2_hit", "l2_to_l1"} /\ {"l2_hit"} \cup {} = {"l2_hit"}
    OBVIOUS
  <2>7. \/ Carry(t, "L1", FromL2(i, i.count + 1)) /\ Count({"l2_hit", "l2_to_l1"})
        \/ Finish(t) /\ Count({"l2_hit"})
    BY <2>5, <2>6, Zenon
  <2> QED
    BY <2>1, <2>2, <2>4, <2>7
<1>4. CASE i # NoEntry /\ Carry(t, "L1", FromL2(i, i.count + 1)) /\ Count({"l2_hit", "l2_to_l1"})
  <2>1. L2OK' /\ i \in IndexEntries /\ l2' = [l2 EXCEPT !.index[h].count = @ + 1]
    BY <1>3, <1>4
  <2>2. Turns(t, "check_l1", FromL2(i, i.count + 1))
    BY <1>1, <1>4, <2>1, CarryIs, FromL2Is DEF Ladder, CacheOK
  <2>3. CallsOK' /\ metrics' \in [DOMAIN NoMetrics -> Nat]
    BY <1>4, <2>2, CountKeeps DEF Turns, CacheOK
  <2> QED
    BY <1>1, <1>4, <2>1, <2>2, <2>3, TiersKeep DEF GetL2, CacheOK
<1>5. CASE i # NoEntry /\ Finish(t) /\ Count({"l2_hit"})
  <2>1. L2OK' /\ i \in IndexEntries /\ l2' = [l2 EXCEPT !.index[h].count = @ + 1]
    BY <1>3, <1>5
  <2>2. Ends(t)
    BY <1>5, FinishEnds DEF CacheOK
  <2>3. CallsOK' /\ metrics' \in [DOMAIN NoMetrics -> Nat]
    BY <1>5, <2>2, CountKeeps DEF Ends, CacheOK
  <2> QED
    BY <1>1, <1>5, <2>1, <2>2, <2>3, TiersKeep DEF GetL2, CacheOK
<1> QED
  BY <1>2, <1>3, <1>4, <1>5

Took(o) == Entry(o.ver, o.size, FALSE)

LEMMA GetL3Is ==
  ASSUME CacheOK, NEW t \in Callers, GetL3(t)
  PROVE  LET o == l3[calls[t].key] IN
         /\ CacheOK' /\ UNCHANGED <<config, l1, l2, l3, expired, history>>
         /\ calls[t].pc = "get_l3" /\ calls[t].op = "get" /\ calls[t].key \in Keys
         /\ \/ Ends(t) /\ Count({"l3_miss"})
            \/ o # NoEntry /\ Ends(t) /\ Count({"l3_hit"})
            \/ /\ o # NoEntry /\ o \in StoredObjects
               /\ \/ Turns(t, "check_l1", Took(o)) /\ Count({"l3_hit", "l3_to_l2", "l2_to_l1"})
                  \/ Turns(t, "check_l2", Took(o)) /\ Count({"l3_hit", "l3_to_l2"})
<1> DEFINE o == l3[calls[t].key]
           tier == target_tier(config.policy, 1, o.size)
<1>1. /\ calls[t].pc = "get_l3" /\ calls[t].op = "get" /\ calls[t].key \in Keys
      /\ calls[t] \in CacheCalls /\ CacheCallOK(calls[t]) /\ calls[t].key # NoEntry
  BY CallFacts, CallHas DEF GetL3, At, CacheOK, CacheCallOK, Getting, Clearing
<1>2. CASE Finish(t) /\ (Count({"l3_miss"}) \/ (o # NoEntry /\ Count({"l3_hit"})))
  <2>1. Ends(t)
    BY <1>2, FinishEnds DEF CacheOK
  <2>2. CallsOK' /\ metrics' \in [DOMAIN NoMetrics -> Nat]
    BY <1>2, <2>1, CountKeeps DEF Ends, CacheOK
  <2> QED
    BY <1>1, <1>2, <2>1, <2>2, TiersKeep DEF GetL3, CacheOK
<1>3. CASE /\ o # NoEntry /\ Carry(t, tier, Took(o)) /\ tier # "L3"
           /\ Count({"l3_hit", "l3_to_l2"} \cup IF tier = "L1" THEN {"l2_to_l1"} ELSE {})
  <2>1. o \in StoredObjects
    BY <1>1, <1>3 DEF CacheOK
  <2>2. Took(o) \in CachedEntries
    BY <2>1, EntryIs DEF StoredObjects, Took
  <2>3. Turns(t, Ladder(tier), Took(o))
    BY <1>1, <1>3, <2>2, CarryIs DEF CacheOK
  <2>4. CallsOK' /\ metrics' \in [DOMAIN NoMetrics -> Nat]
    BY <1>3, <2>3, CountKeeps DEF Turns, CacheOK
  <2>5. \/ Turns(t, "check_l1", Took(o)) /\ Count({"l3_hit", "l3_to_l2", "l2_to_l1"})
        \/ Turns(t, "check_l2", Took(o)) /\ Count({"l3_hit", "l3_to_l2"})
    <3>1. {"l3_hit", "l3_to_l2"} \cup {"l2_to_l1"} = {"l3_hit", "l3_to_l2", "l2_to_l1"}
          /\ {"l3_hit", "l3_to_l2"} \cup {} = {"l3_hit", "l3_to_l2"}
      OBVIOUS
    <3>2. CASE tier = "L1"
      <4>1. Turns(t, "check_l1", Took(o))
        BY <2>3, <3>2, Zenon DEF Ladder
      <4>2. Count({"l3_hit", "l3_to_l2", "l2_to_l1"})
        BY <1>3, <3>1, <3>2, Zenon
      <4> QED
        BY <4>1, <4>2
    <3>3. CASE tier # "L1"
      <4>1. Turns(t, "check_l2", Took(o))
        BY <2>3, <3>3, Zenon DEF Ladder
      <4>2. Count({"l3_hit", "l3_to_l2"})
        BY <1>3, <3>1, <3>3, Zenon
      <4> QED
        BY <4>1, <4>2
    <3> QED
      BY <3>2, <3>3
  <2> QED
    BY <1>1, <1>3, <2>1, <2>4, <2>5, TiersKeep DEF GetL3, CacheOK
<1> QED
  BY <1>2, <1>3, Zenon DEF GetL3, Took

LEMMA BeginPutIs ==
  ASSUME CacheOK, NEW t \in Callers, BeginPut(t)
  PROVE  \E k \in Keys, e \in CachedEntries :
         /\ CacheOK' /\ UNCHANGED <<config, l1, l2, l3, expired, metrics>>
         /\ e # NoEntry /\ e.ver = history.next /\ e.count = 1 /\ e.size \in Sizes
         /\ history.next \in Versions
         /\ history' = Excuse([history EXCEPT !.next = @ + 1], {k}, Overlaps(k, "put"))
         /\ \/ config.write_through /\ Starts(t, "put_l3", "put", k, e)
            \/ ~config.write_through /\ Starts(t, "check_l1", "put", k, e)
            \/ ~config.write_through /\ Starts(t, "check_l2", "put", k, e)
<1>1. PICK k \in Keys, size \in Sizes, ttl \in Ttls :
        LET e == Entry(history.next, size, ttl) IN
        /\ At(t, "idle")
        /\ history.next \in Versions
        /\ history' = Excuse([history EXCEPT !.next = @ + 1], {k}, Overlaps(k, "put"))
        /\ calls' = [calls EXCEPT ![t] =
             [Idle EXCEPT !.op = "put", !.key = k, !.entry = e,
                          !.pc = IF config.write_through THEN "put_l3"
                                 ELSE IF determine_target_tier(size) = "L1" THEN "check_l1"
                                 ELSE "check_l2"]]
        /\ UNCHANGED <<config, l1, l2, l3, expired, metrics>>
  BY DEF BeginPut
<1>2. PICK e : e = Entry(history.next, size, ttl)
  OBVIOUS
<1>3. PICK p : p = IF config.write_through THEN "put_l3"
                   ELSE IF determine_target_tier(size) = "L1" THEN "check_l1" ELSE "check_l2"
  OBVIOUS
<1>4. e \in CachedEntries /\ e # NoEntry /\ e.ver = history.next /\ e.size = size /\ e.count = 1
  <2>1. ttl \in BOOLEAN
    BY CacheAssumption
  <2> QED
    BY <1>1, <1>2, <2>1, EntryIs
<1> DEFINE x == [Idle EXCEPT !.op = "put", !.key = k, !.entry = e, !.pc = p]
<1>5. p \in {"put_l3", "check_l1", "check_l2"} /\ k # NoEntry
  BY <1>3, NoEntryIsNone
<1>6. x \in CacheCalls /\ x.pc = p /\ x.op = "put" /\ x.key = k /\ x.entry = e
  BY <1>4, <1>5 DEF Idle, CacheCalls, CallPcs, Carrying
<1>7. CacheCallOK(x)
  BY <1>4, <1>5, <1>6 DEF CacheCallOK, Carrying, Getting, Deleting, Filling, Clearing
<1>8. calls[t] = Idle
  BY <1>1, CallFacts DEF At, CacheOK, CacheCallOK
<1>9. Moves(t, x)
  BY <1>1, <1>2, <1>3, <1>6, <1>7 DEF Moves
<1> HIDE DEF x
<1>10. Starts(t, p, "put", k, e)
  BY <1>6, <1>8, <1>9, MovesStart DEF CacheOK
<1>11. history' \in Histories
  <2> DEFINE h == [history EXCEPT !.next = @ + 1]
  <2>1. h \in Histories
    BY DEF CacheOK, Histories
  <2>2. history' = Excuse(h, {k}, Overlaps(k, "put")) /\ Overlaps(k, "put") \in BOOLEAN
    BY <1>1 DEF Overlaps
  <2> HIDE DEF h
  <2> QED
    BY <2>1, <2>2, ExcuseIs
<1>12. CacheOK'
  BY <1>1, <1>10, <1>11, TiersKeep DEF CacheOK, Starts
<1>13. \/ config.write_through /\ Starts(t, "put_l3", "put", k, e)
       \/ ~config.write_through /\ Starts(t, "check_l1", "put", k, e)
       \/ ~config.write_through /\ Starts(t, "check_l2", "put", k, e)
  BY <1>3, <1>10, Zenon
<1>14. history' = Excuse([history EXCEPT !.next = @ + 1], {k}, Overlaps(k, "put"))
  BY <1>1
<1>15. UNCHANGED <<config, l1, l2, l3, expired, metrics>> /\ history.next \in Versions
  BY <1>1
<1> QED
  BY <1>4, <1>12, <1>13, <1>14, <1>15, Zenon

LEMMA PutL3Is ==
  ASSUME CacheOK, NEW t \in Callers, PutL3(t)
  PROVE  LET k == calls[t].key  e == calls[t].entry IN
         /\ CacheOK' /\ UNCHANGED <<config, l1, l2, expired, metrics>>
         /\ calls[t].pc = "put_l3" /\ calls[t].op = "put" /\ k \in Keys /\ e \in CachedEntries /\ e # NoEntry
         /\ \/ Ends(t) /\ UNCHANGED <<l3, history>>
            \/ /\ l3' = [l3 EXCEPT ![k] = [ver |-> e.ver, size |-> e.size]]
               /\ [ver |-> e.ver, size |-> e.size] \in StoredObjects
               /\ history' = [history EXCEPT !.stored = @ \cup {e.ver}]
               /\ Turns(t, "check_l1", e) \/ Turns(t, "check_l2", e)
<1> DEFINE k == calls[t].key
           e == calls[t].entry
<1>1. /\ calls[t].pc = "put_l3" /\ calls[t].op = "put" /\ k \in Keys /\ e \in CachedEntries /\ e # NoEntry
  BY CallFacts, CallHas DEF PutL3, At, CacheOK, CacheCallOK
<1>2. CASE Finish(t) /\ UNCHANGED <<l3, history>>
  <2>1. Ends(t)
    BY <1>2, FinishEnds DEF CacheOK
  <2> QED
    BY <1>1, <1>2, <2>1, TiersKeep DEF PutL3, CacheOK, Ends
<1>3. CASE /\ l3' = [l3 EXCEPT ![k] = [ver |-> e.ver, size |-> e.size]]
           /\ history' = [history EXCEPT !.stored = @ \cup {e.ver}]
           /\ Carry(t, determine_target_tier(e.size), e)
  <2>1. [ver |-> e.ver, size |-> e.size] \in StoredObjects /\ e.ver \in Versions
    BY <1>1 DEF CachedEntries, StoredObjects
  <2>2. l3' \in [Keys -> StoredObjects \union {NoEntry}] /\ history' \in Histories
    BY <1>1, <1>3, <2>1 DEF CacheOK, Histories
  <2>3. Turns(t, Ladder(determine_target_tier(e.size)), e)
    BY <1>1, <1>3, CarryIs DEF CacheOK
  <2>4. Turns(t, "check_l1", e) \/ Turns(t, "check_l2", e)
    BY <2>3, Zenon DEF Ladder
  <2> QED
    BY <1>1, <1>3, <2>1, <2>2, <2>3, <2>4, TiersKeep DEF PutL3, CacheOK, Turns
<1> QED
  BY <1>2, <1>3 DEF PutL3

LEMMA CandidatesAre ==
  ASSUME L1OK
  PROVE  /\ Candidates \in SUBSET L1Candidates
         /\ \A k \in Present(l1.map) : \E c \in Candidates : c.key = k
<1>1. ASSUME NEW k \in Present(l1.map) PROVE Candidate(k) \in L1Candidates /\ Candidate(k).key = k
  <2>1. k \in Keys /\ l1.map[k] \in CachedEntries
    BY DEF L1OK, Present
  <2>2. l1.map[k].size \in Sizes /\ is_expired(l1.map[k]) \in BOOLEAN
    BY <2>1 DEF CachedEntries, is_expired
  <2> QED
    BY <2>1, <2>2 DEF Candidate, L1Candidates
<1> QED
  BY <1>1 DEF Candidates

LEMMA CheckL1Is ==
  ASSUME CacheOK, NEW t \in Callers, CheckL1(t)
  PROVE  /\ CacheOK' /\ UNCHANGED <<config, l1, l2, l3, expired, metrics>>
         /\ calls[t].pc = "check_l1" /\ calls[t].key \in Keys
         /\ history' = Crowd(history, "L1",
                             \E u \in Callers : calls[u].pc \in {"evict_l1", "insert_l1"})
         /\ \/ should_evict /\ Turns(t, "evict_l1", calls[t].entry) /\ calls'[t].cands = Candidates
            \/ ~should_evict /\ Turns(t, "insert_l1", calls[t].entry)
<1>1. /\ calls[t].pc = "check_l1" /\ calls[t].key \in Keys
      /\ calls[t] \in CacheCalls /\ CacheCallOK(calls[t])
  BY CallFacts, CallHas DEF CheckL1, At, CacheOK
<1>2. history' = Crowd(history, "L1", \E u \in Callers : calls[u].pc \in {"evict_l1", "insert_l1"})
  BY DEF CheckL1
<1>3. history' \in Histories
  BY <1>2, CrowdIs DEF CacheOK, Tiers
<1>4. CASE should_evict
  <2> DEFINE x == [calls[t] EXCEPT !.pc = "evict_l1", !.cands = Candidates, !.left = BatchSize]
  <2>1. calls' = [calls EXCEPT ![t] = x]
    BY <1>4 DEF CheckL1, CacheOK, CallsOK
  <2>2. Candidates \in SUBSET L1Candidates
    BY CandidatesAre DEF CacheOK
  <2>3. /\ x \in CacheCalls /\ x.pc = "evict_l1" /\ x.op = calls[t].op /\ x.key = calls[t].key
        /\ x.entry = calls[t].entry /\ x.cands = Candidates
    BY <1>1, <2>2, CacheNumbers DEF CacheCalls, CallPcs, Carrying
  <2>4. CacheCallOK(x)
    BY <1>1, <2>2, <2>3 DEF CacheCallOK, Carrying, Getting, Deleting, Filling, Clearing
  <2>5. Moves(t, x)
    BY <2>1, <2>3, <2>4 DEF Moves
  <2> HIDE DEF x
  <2>6. Turns(t, "evict_l1", calls[t].entry) /\ calls'[t].cands = Candidates
    BY <2>3, <2>5, MovesTurn, MovesKeep DEF CacheOK
  <2> QED
    BY <1>1, <1>2, <1>3, <1>4, <2>6, TiersKeep DEF CheckL1, CacheOK, Turns
<1>5. CASE ~should_evict
  <2>1. Goto(t, "insert_l1") /\ "insert_l1" \in CallPcs
    BY <1>5 DEF CheckL1, CallPcs, Carrying
  <2>2. CacheCallOK([calls[t] EXCEPT !.pc = "insert_l1"])
    BY <1>1 DEF CacheCallOK, CacheCalls, Carrying, Getting, Deleting, Filling, Clearing
  <2>3. Turns(t, "insert_l1", calls[t].entry)
    BY <2>1, <2>2, GotoTurns DEF CacheOK
  <2> QED
    BY <1>1, <1>2, <1>3, <1>5, <2>3, TiersKeep DEF CheckL1, CacheOK, Turns
<1> QED
  BY <1>4, <1>5

EvictsL1(t, c) ==
  /\ c \in calls[t].cands /\ c \in L1Candidates
  /\ Turns(t, "evict_l1", calls[t].entry) /\ calls'[t].cands = calls[t].cands \ {c}
  /\ \/ l1.map[c.key] = NoEntry /\ UNCHANGED <<l1, history>>
     \/ /\ l1.map[c.key] # NoEntry
        /\ l1'.map = [l1.map EXCEPT ![c.key] = NoEntry] /\ l1'.size = Minus(l1.size, c.size)
        /\ history' = Drift(Excuse(history, {c.key}, OnlyInL1({c.key}) # {}),
                            "L1", ~RemovesItsSize(c.key, c.size))

LEMMA EvictL1Is ==
  ASSUME CacheOK, NEW t \in Callers, EvictL1(t)
  PROVE  /\ CacheOK' /\ UNCHANGED <<config, l2, l3, expired, metrics>>
         /\ calls[t].pc = "evict_l1" /\ calls[t].key \in Keys
         /\ \/ /\ ~should_continue_eviction \/ calls[t].cands = {} \/ calls[t].left = 0
               /\ Turns(t, "insert_l1", calls[t].entry) /\ UNCHANGED l1
               /\ history' = Crowd(history, "L1", should_continue_eviction /\ calls[t].left = 0)
            \/ \E c \in calls[t].cands : EvictsL1(t, c)
<1>1. /\ calls[t].pc = "evict_l1" /\ calls[t].key \in Keys
      /\ calls[t] \in CacheCalls /\ CacheCallOK(calls[t])
  BY CallFacts, CallHas DEF EvictL1, At, CacheOK
<1>2. calls[t].cands \subseteq L1Candidates /\ calls[t].left \in Nat
  BY <1>1 DEF CacheCallOK, CacheCalls
<1>3. CASE /\ ~should_continue_eviction \/ calls[t].cands = {} \/ calls[t].left = 0
           /\ calls' = [calls EXCEPT ![t].pc = "insert_l1", ![t].cands = {}, ![t].left = 0]
           /\ history' = Crowd(history, "L1", should_continue_eviction /\ calls[t].left = 0)
           /\ UNCHANGED l1
  <2> DEFINE x == [calls[t] EXCEPT !.pc = "insert_l1", !.cands = {}, !.left = 0]
  <2>1. calls' = [calls EXCEPT ![t] = x]
    BY <1>3 DEF CacheOK, CallsOK
  <2>3. /\ x \in CacheCalls /\ x.pc = "insert_l1" /\ x.op = calls[t].op /\ x.key = calls[t].key
        /\ x.entry = calls[t].entry
    BY <1>1 DEF CacheCalls, CallPcs, Carrying
  <2>4. CacheCallOK(x)
    BY <1>1, <2>3 DEF CacheCallOK, Carrying, Getting, Deleting, Filling, Clearing
  <2>5. Moves(t, x)
    BY <2>1, <2>3, <2>4 DEF Moves
  <2> HIDE DEF x
  <2>6. Turns(t, "insert_l1", calls[t].entry)
    BY <2>3, <2>5, MovesTurn DEF CacheOK
  <2>7. history' \in Histories
    BY <1>3, CrowdIs DEF CacheOK, Tiers
  <2> QED
    BY <1>1, <1>3, <2>6, <2>7, TiersKeep DEF EvictL1, CacheOK, Turns
<1>4. ASSUME NEW c \in calls[t].cands, NEW left \in Nat,
             calls' = [calls EXCEPT ![t].cands = @ \ {c}, ![t].left = left]
      PROVE  Turns(t, "evict_l1", calls[t].entry) /\ calls'[t].cands = calls[t].cands \ {c}
  <2> DEFINE x == [calls[t] EXCEPT !.cands = @ \ {c}, !.left = left]
  <2>1. calls' = [calls EXCEPT ![t] = x]
    BY <1>4 DEF CacheOK, CallsOK
  <2>3. /\ x \in CacheCalls /\ x.pc = "evict_l1" /\ x.op = calls[t].op /\ x.key = calls[t].key
        /\ x.entry = calls[t].entry /\ x.cands = calls[t].cands \ {c}
    BY <1>1 DEF CacheCalls
  <2>4. CacheCallOK(x)
    BY <1>1, <2>3 DEF CacheCallOK, Carrying, Getting, Deleting, Filling, Clearing
  <2>5. Moves(t, x)
    BY <2>1, <2>3, <2>4 DEF Moves
  <2> HIDE DEF x
  <2> QED
    BY <2>3, <2>5, MovesTurn, MovesKeep DEF CacheOK
<1>5. ASSUME calls[t].left > 0, NEW c \in Foremost(calls[t].cands),
             IF l1.map[c.key] = NoEntry
             THEN /\ calls' = [calls EXCEPT ![t].cands = @ \ {c}]
                  /\ UNCHANGED <<l1, history>>
             ELSE /\ calls' = [calls EXCEPT ![t].cands = @ \ {c}, ![t].left = @ - 1]
                  /\ l1' = RemoveFromL1(c.key, c.size)
                  /\ history' = Drift(Excuse(history, {c.key}, OnlyInL1({c.key}) # {}),
                                      "L1", ~RemovesItsSize(c.key, c.size))
      PROVE  CacheOK' /\ c \in calls[t].cands /\ EvictsL1(t, c)
  <2>1. c \in calls[t].cands /\ c \in L1Candidates /\ c.key \in Keys /\ c.size \in Sizes
    BY <1>2 DEF Foremost, L1Candidates
  <2>2. CASE l1.map[c.key] = NoEntry
    <3>1. calls' = [calls EXCEPT ![t].cands = @ \ {c}] /\ UNCHANGED <<l1, history>>
      BY <1>5, <2>2
    <3>2. calls' = [calls EXCEPT ![t].cands = @ \ {c}, ![t].left = calls[t].left]
      BY <1>1, <3>1 DEF CacheOK, CallsOK, CacheCalls
    <3>3. Turns(t, "evict_l1", calls[t].entry) /\ calls'[t].cands = calls[t].cands \ {c}
      BY <1>2, <1>4, <2>1, <3>2
    <3> QED
      BY <2>1, <2>2, <3>1, <3>3, TiersKeep DEF EvictL1, CacheOK, EvictsL1, Turns
  <2>3. CASE l1.map[c.key] # NoEntry
    <3>1. /\ calls' = [calls EXCEPT ![t].cands = @ \ {c}, ![t].left = calls[t].left - 1]
          /\ l1' = RemoveFromL1(c.key, c.size)
          /\ history' = Drift(Excuse(history, {c.key}, OnlyInL1({c.key}) # {}),
                              "L1", ~RemovesItsSize(c.key, c.size))
      BY <1>5, <2>3
    <3>2. calls[t].left - 1 \in Nat
      BY <1>2, <1>5
    <3>3. Turns(t, "evict_l1", calls[t].entry) /\ calls'[t].cands = calls[t].cands \ {c}
      BY <1>4, <2>1, <3>1, <3>2
    <3>4. /\ L1OK' /\ l1'.map = [l1.map EXCEPT ![c.key] = NoEntry] /\ l1'.size = Minus(l1.size, c.size)
      BY <2>1, <3>1, RemoveKeeps DEF CacheOK
    <3>5. history' \in Histories
      <4>1. Excuse(history, {c.key}, OnlyInL1({c.key}) # {}) \in Histories
        BY <2>1, ExcuseIs DEF CacheOK
      <4> QED
        BY <3>1, <4>1, DriftIs DEF Tiers, RemovesItsSize
    <3> QED
      BY <2>1, <2>3, <3>1, <3>3, <3>4, <3>5, TiersKeep DEF EvictL1, CacheOK, EvictsL1, Turns
  <2> QED
    BY <2>2, <2>3
<1>6. \/ /\ ~should_continue_eviction \/ calls[t].cands = {} \/ calls[t].left = 0
         /\ calls' = [calls EXCEPT ![t].pc = "insert_l1", ![t].cands = {}, ![t].left = 0]
         /\ history' = Crowd(history, "L1", should_continue_eviction /\ calls[t].left = 0)
         /\ UNCHANGED l1
      \/ /\ calls[t].left > 0
         /\ \E c \in Foremost(calls[t].cands) :
             IF l1.map[c.key] = NoEntry
             THEN /\ calls' = [calls EXCEPT ![t].cands = @ \ {c}]
                  /\ UNCHANGED <<l1, history>>
             ELSE /\ calls' = [calls EXCEPT ![t].cands = @ \ {c}, ![t].left = @ - 1]
                  /\ l1' = RemoveFromL1(c.key, c.size)
                  /\ history' = Drift(Excuse(history, {c.key}, OnlyInL1({c.key}) # {}),
                                      "L1", ~RemovesItsSize(c.key, c.size))
  BY Zenon DEF EvictL1
<1>7. UNCHANGED <<config, l2, l3, expired, metrics>>
  BY DEF EvictL1
<1> QED
  BY <1>1, <1>3, <1>5, <1>6, <1>7

\* What the end of a put or of a promotion says of the history.
Outcome(t, kept, tier) ==
  LET put == calls[t].op = "put"  k == calls[t].key IN
  /\ history' \in Histories
  /\ history'.next = history.next /\ history'.ops = history.ops /\ history'.gets = history.gets
  /\ history'.stored = history.stored /\ history'.drifted = history.drifted
  /\ history'.crowded = history.crowded /\ history'.crossed = history.crossed
  /\ history'.last = IF put THEN [history.last EXCEPT ![k] = calls[t].entry.ver] ELSE history.last
  /\ history'.excused = IF put /\ Shadows(k, kept, tier) THEN history.excused \union {k}
                        ELSE history.excused

LEMMA ReturnedIs ==
  ASSUME CacheOK, NEW t \in Callers, calls[t].key \in Keys, calls[t].entry \in CachedEntries,
         NEW kept \in BOOLEAN, NEW tier, history' = Returned(t, kept, tier)
  PROVE  Outcome(t, kept, tier)
<1> DEFINE h == [history EXCEPT !.last[calls[t].key] = calls[t].entry.ver]
           b == Shadows(calls[t].key, kept, tier)
<1>1. history \in Histories /\ calls[t].entry.ver \in Versions
  BY DEF CacheOK, CachedEntries
<1>2. CASE calls[t].op # "put"
  <2>1. history' = history
    BY <1>2 DEF Returned
  <2> QED
    BY <1>1, <1>2, <2>1 DEF Outcome
<1>3. CASE calls[t].op = "put"
  <2>1. history' = Excuse(h, {calls[t].key}, b) /\ b \in BOOLEAN
    BY <1>3 DEF Returned, Shadows
  <2>2. /\ h \in Histories /\ h.next = history.next /\ h.ops = history.ops /\ h.gets = history.gets
        /\ h.stored = history.stored /\ h.drifted = history.drifted /\ h.crowded = history.crowded
        /\ h.crossed = history.crossed /\ h.excused = history.excused
        /\ h.last = [history.last EXCEPT ![calls[t].key] = calls[t].entry.ver]
    BY <1>1 DEF Histories
  <2> HIDE DEF h, b
  <2>3. LET g == Excuse(h, {calls[t].key}, b) IN
         /\ g \in Histories
         /\ g.next = h.next /\ g.ops = h.ops /\ g.gets = h.gets /\ g.last = h.last
         /\ g.stored = h.stored /\ g.drifted = h.drifted /\ g.crowded = h.crowded
         /\ g.crossed = h.crossed
         /\ g.excused = IF b THEN h.excused \union {calls[t].key} ELSE h.excused
    <3>1. h \in Histories /\ b \in BOOLEAN /\ {calls[t].key} \in SUBSET Keys
      BY <2>1, <2>2
    <3> QED
      BY <3>1, ExcuseIs
  <2> QED
    BY <1>3, <2>1, <2>2, <2>3 DEF Outcome, b
<1> QED
  BY <1>2, <1>3

LEMMA InsertL1Is ==
  ASSUME CacheOK, NEW t \in Callers, InsertL1(t)
  PROVE  LET k == calls[t].key  e == calls[t].entry IN
         /\ CacheOK' /\ UNCHANGED <<config, l2, l3, expired, metrics>>
         /\ calls[t].pc = "insert_l1" /\ k \in Keys /\ e \in CachedEntries /\ e # NoEntry
         /\ calls[t].op \in {"get", "put"} /\ Ends(t)
         /\ \/ /\ e.size <= L1Capacity /\ Outcome(t, TRUE, "L1")
               /\ l1'.map = [l1.map EXCEPT ![k] = e]
               /\ l1'.size = Plus(l1.size, e.size - SizeIn(l1.map, k))
            \/ e.size > L1Capacity /\ Outcome(t, FALSE, "L1") /\ UNCHANGED l1
<1> DEFINE k == calls[t].key
           e == calls[t].entry
<1>1. /\ calls[t].pc = "insert_l1" /\ k \in Keys /\ e \in CachedEntries /\ e # NoEntry
      /\ calls[t].op \in {"get", "put"}
  BY CallFacts, CallHas DEF InsertL1, At, CacheOK, CacheCallOK, Carrying
<1>2. Ends(t)
  BY FinishEnds DEF InsertL1, CacheOK
<1>3. e.size \in Nat /\ L1Capacity \in Nat
  BY <1>1, CacheNumbers DEF CachedEntries
<1>4. CASE e.size <= L1Capacity
  <2>1. l1' = InsertIntoL1(k, e)
    BY <1>4 DEF InsertL1
  <2>2. l1.size \in Int /\ SizeIn(l1.map, k) \in Int
    BY <1>1, CacheSizes
  <2>3. l1.size \in Int /\ e.size - SizeIn(l1.map, k) \in Int
    BY <1>3, <2>2
  <2>4. Plus(l1.size, e.size - SizeIn(l1.map, k)) \in 0 .. (Word - 1)
    BY <2>3, NumbersStay
  <2>5. /\ l1'.map = [l1.map EXCEPT ![k] = e]
        /\ l1'.size = Plus(l1.size, e.size - SizeIn(l1.map, k))
        /\ L1OK'
    BY <1>1, <1>4, <2>1, <2>4 DEF InsertIntoL1, CacheOK, L1OK
  <2>6. history' = Returned(t, TRUE, "L1")
    BY <1>4, Zenon DEF InsertL1
  <2>7. Outcome(t, TRUE, "L1")
    BY <1>1, <2>6, ReturnedIs
  <2> QED
    BY <1>1, <1>2, <1>4, <2>5, <2>7, TiersKeep DEF InsertL1, CacheOK, Ends, Outcome
<1>5. CASE e.size > L1Capacity
  <2>1. UNCHANGED l1
    BY <1>3, <1>5 DEF InsertL1
  <2>2. ~(e.size <= L1Capacity)
    BY <1>3, <1>5
  <2>3. (e.size <= L1Capacity) = FALSE
    BY <2>2
  <2>6. history' = Returned(t, FALSE, "L1")
    BY <2>3, Zenon DEF InsertL1
  <2>7. Outcome(t, FALSE, "L1")
    BY <1>1, <2>6, ReturnedIs
  <2> QED
    BY <1>1, <1>2, <1>5, <2>1, <2>7, TiersKeep DEF InsertL1, CacheOK, Ends, Outcome
<1>6. e.size <= L1Capacity \/ e.size > L1Capacity
  BY <1>3
<1> QED
  BY <1>4, <1>5, <1>6, Zenon

LEMMA ImageIsFinite ==
  ASSUME NEW S, IsFiniteSet(S), NEW f, DOMAIN f = S
  PROVE  IsFiniteSet({f[x] : x \in S})
<1> DEFINE T == {f[x] : x \in S}
           g == [x \in S |-> f[x]]
<1>1. g \in Surjection(S, T)
  BY DEF Surjection
<1> QED
  BY <1>1, FS_Surjection

LEMMA L2CandidatesAre ==
  ASSUME L2OK
  PROVE  /\ L2Candidates \in SUBSET CandidatesOfL2 /\ IsFiniteSet(L2Candidates)
         /\ Present(l2.index) \subseteq Hashed(L2Candidates)
<1> DEFINE cand(h) == [hash |-> h, size |-> l2.index[h].size]
           cands == [h \in Present(l2.index) |-> cand(h)]
           hashes == [k \in Keys |-> Hash[k]]
<1>1. ASSUME NEW h \in Present(l2.index) PROVE h \in Hashes /\ cand(h) \in CandidatesOfL2
  <2>1. h \in Hashes /\ l2.index[h] \in IndexEntries
    BY DEF L2OK, Present
  <2> QED
    BY <2>1 DEF IndexEntries, CandidatesOfL2
<1>2. L2Candidates = {cand(h) : h \in Present(l2.index)}
  BY DEF L2Candidates
<1>3. IsFiniteSet(Hashes)
  <2>1. IsFiniteSet({hashes[k] : k \in Keys})
    BY CacheNumbers, ImageIsFinite
  <2> QED
    BY <2>1 DEF Hashes
<1>4. IsFiniteSet(Present(l2.index))
  BY <1>1, <1>3, FS_Subset
<1>5. IsFiniteSet(L2Candidates)
  <2>1. IsFiniteSet({cands[h] : h \in Present(l2.index)})
    BY <1>4, ImageIsFinite
  <2> QED
    BY <1>2, <2>1
<1>6. L2Candidates \in SUBSET CandidatesOfL2
  BY <1>1, <1>2
<1>7. \A h \in Present(l2.index) : cand(h) \in L2Candidates /\ cand(h).hash = h
  BY <1>2
<1> QED
  BY <1>5, <1>6, <1>7 DEF Hashed

Takes(e) == e.size >= MinEntrySize /\ e.size <= L2Capacity

LEMMA CheckL2Is ==
  ASSUME CacheOK, NEW t \in Callers, CheckL2(t)
  PROVE  LET k == calls[t].key  e == calls[t].entry IN
         /\ CacheOK' /\ UNCHANGED <<config, l1, l2, l3, expired, metrics>>
         /\ calls[t].pc = "check_l2" /\ k \in Keys /\ e \in CachedEntries /\ e # NoEntry
         /\ calls[t].op \in {"get", "put"}
         /\ \/ ~Takes(e) /\ Ends(t) /\ Outcome(t, FALSE, "L2")
            \/ /\ Takes(e) /\ l2.size + e.size > L2Capacity /\ Turns(t, "evict_l2", e)
               /\ calls'[t].cands = L2Candidates /\ history' = Crowd(history, "L2", FillingL2)
            \/ /\ Takes(e) /\ l2.size + e.size <= L2Capacity /\ Turns(t, "alloc_l2", e)
               /\ history' = Crowd(history, "L2", FillingL2)
<1> DEFINE k == calls[t].key
           e == calls[t].entry
<1>1. /\ calls[t].pc = "check_l2" /\ k \in Keys /\ e \in CachedEntries /\ e # NoEntry
      /\ calls[t].op \in {"get", "put"} /\ calls[t] \in CacheCalls /\ CacheCallOK(calls[t])
  BY CallFacts, CallHas DEF CheckL2, At, CacheOK, CacheCallOK, Carrying
<1>2. e.size \in Nat /\ L2Capacity \in Nat /\ MinEntrySize \in Nat /\ l2.size \in Int
  BY <1>1, CacheNumbers, CacheSizes
<1>3. UNCHANGED <<config, l1, l2, l3, expired, metrics>>
  BY DEF CheckL2
<1>4. CASE ~Takes(e)
  <2>1. Finish(t) /\ history' = Returned(t, FALSE, "L2")
    BY <1>4 DEF CheckL2, Takes
  <2>2. Ends(t) /\ Outcome(t, FALSE, "L2")
    BY <1>1, <2>1, FinishEnds, ReturnedIs DEF CacheOK
  <2> QED
    BY <1>1, <1>3, <1>4, <2>2, TiersKeep DEF CacheOK, Ends, Outcome
<1>5. CASE Takes(e) /\ l2.size + e.size > L2Capacity
  <2> DEFINE x == [calls[t] EXCEPT !.pc = "evict_l2", !.cands = L2Candidates]
  <2>1. /\ calls' = [calls EXCEPT ![t].pc = "evict_l2", ![t].cands = L2Candidates]
        /\ history' = Crowd(history, "L2", FillingL2)
    BY <1>5 DEF CheckL2, Takes
  <2>2. calls' = [calls EXCEPT ![t] = x]
    BY <2>1 DEF CacheOK, CallsOK
  <2>3. L2Candidates \in SUBSET CandidatesOfL2 /\ IsFiniteSet(L2Candidates)
    BY L2CandidatesAre DEF CacheOK
  <2>4. /\ x \in CacheCalls /\ x.pc = "evict_l2" /\ x.op = calls[t].op /\ x.key = calls[t].key
        /\ x.entry = e /\ x.cands = L2Candidates
    BY <1>1, <2>3 DEF CacheCalls, CallPcs, Carrying, Filling
  <2>5. e.size \in MinEntrySize .. L2Capacity
    BY <1>2, <1>5 DEF Takes
  <2>6. CacheCallOK(x)
    BY <1>1, <2>3, <2>4, <2>5 DEF CacheCallOK, Carrying, Getting, Deleting, Filling, Clearing
  <2>7. Moves(t, x)
    BY <2>2, <2>4, <2>6 DEF Moves
  <2> HIDE DEF x
  <2>8. Turns(t, "evict_l2", e) /\ calls'[t].cands = L2Candidates
    BY <2>4, <2>7, MovesTurn, MovesKeep DEF CacheOK
  <2>9. history' \in Histories
    BY <2>1, CrowdIs DEF CacheOK, Tiers, FillingL2
  <2> QED
    BY <1>1, <1>3, <1>5, <2>1, <2>8, <2>9, TiersKeep DEF CacheOK, Turns
<1>6. CASE Takes(e) /\ ~(l2.size + e.size > L2Capacity)
  <2>1. Goto(t, "alloc_l2") /\ history' = Crowd(history, "L2", FillingL2)
    BY <1>6 DEF CheckL2, Takes
  <2>2. e.size \in MinEntrySize .. L2Capacity
    BY <1>2, <1>6 DEF Takes
  <2>3. CacheCallOK([calls[t] EXCEPT !.pc = "alloc_l2"])
    BY <1>1, <2>2 DEF CacheCallOK, CacheCalls, Carrying, Getting, Deleting, Filling, Clearing
  <2>4. "alloc_l2" \in CallPcs
    BY DEF CallPcs, Carrying, Filling
  <2>5. Turns(t, "alloc_l2", e)
    BY <2>1, <2>3, <2>4, GotoTurns DEF CacheOK
  <2>6. history' \in Histories
    BY <2>1, CrowdIs DEF CacheOK, Tiers, FillingL2
  <2>7. l2.size + e.size <= L2Capacity
    BY <1>2, <1>6
  <2> QED
    BY <1>1, <1>3, <1>6, <2>1, <2>5, <2>6, <2>7, TiersKeep DEF CacheOK, Turns
<1> QED
  BY <1>4, <1>5, <1>6

LEMMA GoneIs ==
  ASSUME NEW C, NEW target, NEW S \in Gone(C, target)
  PROVE  /\ S \in SUBSET C
         /\ CounterWithout(S) <= target \/ S = C
<1>1. PICK o : /\ \E n : o \in [1 .. n -> C]
                /\ S = Range(o) /\ (CounterWithout(Range(o)) <= target \/ Range(o) = C)
  <2> DEFINE Reaches(R) == CounterWithout(R) <= target \/ R = C
             Orders == {o \in UNION {[1..n -> C] : n \in 0 .. Cardinality(C)} : IsInjective(o)}
  <2>1. S \in {Range(o) : o \in {o \in Orders :
          /\ Reaches(Range(o))
          /\ \A n \in DOMAIN o : ~Reaches({o[i] : i \in 1 .. (n - 1)})}}
    BY Zenon DEF Gone
  <2>2. PICK o \in Orders : S = Range(o) /\ Reaches(Range(o))
    BY <2>1, Zenon
  <2>3. \E n : o \in [1 .. n -> C]
    OBVIOUS
  <2> QED
    BY <2>2, <2>3
<1>2. Range(o) \subseteq C
  BY <1>1 DEF Range
<1> QED
  BY <1>1, <1>2

Taken(S) == {c \in S : l2.index[c.hash] # NoEntry}
Stale(S) == {c \in S : l2.index[c.hash] # NoEntry /\ l2.index[c.hash].size # c.size}

LEMMA CounterIs ==
  ASSUME CacheOK, NEW S \in SUBSET CandidatesOfL2, IsFiniteSet(S)
  PROVE  /\ CounterWithout(S) = Minus(l2.size, SumOf(SizesOf(Taken(S))))
         /\ SumOf(SizesOf(Taken(S))) \in Nat /\ CounterWithout(S) \in 0 .. (Word - 1)
         /\ IsFiniteSet(Taken(S)) /\ \A c \in Taken(S) : c \in S /\ c.size \in Nat
<1>1. CounterWithout(S) = Minus(l2.size, SumOf(SizesOf(Taken(S))))
  BY Zenon DEF CounterWithout, Taken, SizesOf
<1>2. IsFiniteSet(Taken(S)) /\ Taken(S) \in SUBSET CandidatesOfL2
  BY FS_Subset DEF Taken
<1>3. \A c \in Taken(S) : c \in S /\ c.size \in Nat
  BY <1>2, CacheNumbers DEF CandidatesOfL2, Taken
<1>4. SizesOf(Taken(S)) \in [Taken(S) -> Nat]
  BY <1>3 DEF SizesOf
<1>5. SumOf(SizesOf(Taken(S))) \in Nat
  BY <1>2, <1>4, SumIsNat
<1>6. l2.size \in Int /\ SumOf(SizesOf(Taken(S))) \in Int
  BY <1>5, CacheSizes
<1>7. Minus(l2.size, SumOf(SizesOf(Taken(S)))) \in 0 .. (Word - 1)
  BY <1>6, NumbersStay
<1> QED
  BY <1>1, <1>2, <1>3, <1>5, <1>7

EvictsL2(t, gone) ==
  LET e == calls[t].entry IN
  /\ gone \in SUBSET CandidatesOfL2 /\ IsFiniteSet(gone) /\ gone \subseteq calls[t].cands
  /\ CounterWithout(gone) <= L2Capacity - e.size \/ gone = calls[t].cands
  /\ l2'.size = CounterWithout(gone) /\ l2'.file = l2.file /\ l2'.offset = l2.offset
  /\ l2'.index = Without1(l2.index, gone)
  /\ history' = Drift(Excuse(history, OnlyInL2(Hashed(gone)), TRUE), "L2", Stale(gone) # {})

LEMMA EvictL2Is ==
  ASSUME CacheOK, NEW t \in Callers, EvictL2(t)
  PROVE  LET k == calls[t].key  e == calls[t].entry IN
         /\ CacheOK' /\ UNCHANGED <<config, l1, l3, expired, metrics>>
         /\ calls[t].pc = "evict_l2" /\ k \in Keys /\ e \in CachedEntries /\ e # NoEntry
         /\ Turns(t, "alloc_l2", e) /\ \E gone : EvictsL2(t, gone)
<1> DEFINE k == calls[t].key
           e == calls[t].entry
<1>1. /\ calls[t].pc = "evict_l2" /\ k \in Keys /\ e \in CachedEntries /\ e # NoEntry
      /\ calls[t] \in CacheCalls /\ CacheCallOK(calls[t])
  BY CallFacts, CallHas DEF EvictL2, At, CacheOK, Carrying, Filling
<1>2. calls[t].cands \subseteq CandidatesOfL2 /\ IsFiniteSet(calls[t].cands)
  BY <1>1 DEF CacheCallOK
<1>3. PICK gone \in Gone(calls[t].cands, L2Capacity - calls[t].entry.size) :
        /\ l2' = [l2 EXCEPT !.size = CounterWithout(gone),
                            !.index = [h \in DOMAIN l2.index |->
                               IF h \in {c.hash : c \in gone} THEN NoEntry ELSE l2.index[h]]]
        /\ history' = Drift(Excuse(history, OnlyInL2({c.hash : c \in gone}), TRUE), "L2",
             {c \in gone : l2.index[c.hash] # NoEntry /\ l2.index[c.hash].size # c.size} # {})
  BY Zenon DEF EvictL2
<1>4. /\ gone \subseteq calls[t].cands
      /\ CounterWithout(gone) <= L2Capacity - e.size \/ gone = calls[t].cands
  BY <1>3, GoneIs
<1>5. gone \in SUBSET CandidatesOfL2 /\ IsFiniteSet(gone)
  BY <1>2, <1>4, FS_Subset
<1>6. CounterWithout(gone) \in 0 .. (Word - 1)
  BY <1>5, CounterIs
<1>7. /\ l2' = [l2 EXCEPT !.size = CounterWithout(gone), !.index = Without1(l2.index, gone)]
      /\ history' = Drift(Excuse(history, OnlyInL2(Hashed(gone)), TRUE), "L2", Stale(gone) # {})
  BY <1>3, Zenon DEF Without1, Hashed, Stale
<1>8. /\ l2'.size = CounterWithout(gone) /\ l2'.file = l2.file /\ l2'.offset = l2.offset
      /\ l2'.index = Without1(l2.index, gone)
  BY <1>7 DEF CacheOK, L2OK
<1>9. Without1(l2.index, gone) \in [Hashes -> IndexEntries \union {NoEntry}]
      /\ \A h \in Hashes : Without1(l2.index, gone)[h] # NoEntry => Without1(l2.index, gone)[h] = l2.index[h]
  BY DEF Without1, CacheOK, L2OK
<1>10. L2OK'
  BY <1>6, <1>7, <1>9 DEF CacheOK, L2OK
<1>11. history' \in Histories
  <2>1. Excuse(history, OnlyInL2(Hashed(gone)), TRUE) \in Histories
    BY ExcuseIs, OnlyCopiesAre DEF CacheOK
  <2> QED
    BY <1>7, <2>1, DriftIs DEF Tiers
<1>12. EvictsL2(t, gone)
  BY <1>4, <1>5, <1>7, <1>8, Zenon DEF EvictsL2
<1> DEFINE x == [calls[t] EXCEPT !.pc = "alloc_l2", !.cands = {}]
<1>13. calls' = [calls EXCEPT ![t] = x]
  BY DEF EvictL2, CacheOK, CallsOK
<1>14. /\ x \in CacheCalls /\ x.pc = "alloc_l2" /\ x.op = calls[t].op /\ x.key = calls[t].key
       /\ x.entry = e
  BY <1>1 DEF CacheCalls, CallPcs, Carrying, Filling
<1>15. CacheCallOK(x)
  BY <1>1, <1>14 DEF CacheCallOK, Carrying, Getting, Deleting, Filling, Clearing
<1>16. Moves(t, x)
  BY <1>13, <1>14, <1>15 DEF Moves
<1> HIDE DEF x
<1>17. Turns(t, "alloc_l2", e)
  BY <1>14, <1>16, MovesTurn DEF CacheOK
<1> QED
  BY <1>1, <1>10, <1>11, <1>12, <1>17, TiersKeep DEF EvictL2, CacheOK, Turns

LEMMA AllocL2Is ==
  ASSUME CacheOK, NEW t \in Callers, AllocL2(t)
  PROVE  LET k == calls[t].key  e == calls[t].entry IN
         /\ CacheOK' /\ UNCHANGED <<config, l1, l3, expired, metrics>>
         /\ calls[t].pc = "alloc_l2" /\ k \in Keys /\ e \in CachedEntries /\ e # NoEntry
         /\ l2' = [l2 EXCEPT !.offset = @ + e.size] /\ l2'.index = l2.index /\ l2'.size = l2.size
         /\ l2'.file = l2.file /\ l2'.offset = l2.offset + e.size
         /\ Turns(t, "insert_l2", e) /\ calls'[t].left = l2.offset
         /\ history' = [history EXCEPT !.crossed = @ \/ \E u \in Callers : At(u, "insert_l2")]
<1> DEFINE k == calls[t].key
           e == calls[t].entry
           x == [calls[t] EXCEPT !.pc = "insert_l2", !.left = l2.offset]
<1>1. /\ calls[t].pc = "alloc_l2" /\ k \in Keys /\ e \in CachedEntries /\ e # NoEntry
      /\ calls[t] \in CacheCalls /\ CacheCallOK(calls[t]) /\ e.size \in Nat /\ l2.offset \in Nat
  BY CallFacts, CallHas, CacheSizes DEF AllocL2, At, CacheOK, L2OK, Carrying, Filling
<1>2. calls' = [calls EXCEPT ![t] = x]
  BY DEF AllocL2, CacheOK, CallsOK
<1>3. /\ x \in CacheCalls /\ x.pc = "insert_l2" /\ x.op = calls[t].op /\ x.key = calls[t].key
      /\ x.entry = e /\ x.left = l2.offset
  BY <1>1 DEF CacheCalls, CallPcs, Carrying, Filling
<1>4. CacheCallOK(x)
  BY <1>1, <1>3 DEF CacheCallOK, Carrying, Getting, Deleting, Filling, Clearing
<1>5. Moves(t, x)
  BY <1>2, <1>3, <1>4 DEF Moves
<1> HIDE DEF x
<1>6. Turns(t, "insert_l2", e) /\ calls'[t].left = l2.offset
  BY <1>3, <1>5, MovesTurn, MovesKeep DEF CacheOK
<1>7. l2' = [l2 EXCEPT !.offset = @ + e.size]
  BY DEF AllocL2
<1>8. /\ L2OK' /\ l2'.index = l2.index /\ l2'.size = l2.size
      /\ l2'.file = l2.file /\ l2'.offset = l2.offset + e.size
  BY <1>1, <1>7 DEF CacheOK, L2OK
<1>9. /\ history' = [history EXCEPT !.crossed = @ \/ \E u \in Callers : At(u, "insert_l2")]
      /\ history' \in Histories
  BY DEF AllocL2, CacheOK, Histories
<1> QED
  BY <1>1, <1>6, <1>7, <1>8, <1>9, TiersKeep DEF AllocL2, CacheOK, Turns

InsertsL2(t) ==
  LET e == calls[t].entry
      rotates == Rotates(calls[t].left, e.size)
      h == Hash[calls[t].key]
  IN
  /\ l2'.index = [l2.index EXCEPT ![h] = IndexEntry(e, l2.file, calls[t].left)]
  /\ l2'.size = Plus(l2.size, e.size - SizeIn(l2.index, h))
  /\ IF rotates THEN l2'.file = l2.file + 1 /\ l2'.offset = e.size
     ELSE l2'.file = l2.file /\ l2'.offset = l2.offset

LEMMA RotatedIs ==
  ASSUME NEW s \in Nat, NEW I, NEW N,
         l2 \in [index : I, size : N, file : Nat, offset : Nat]
  PROVE  /\ Rotated(s).index = l2.index /\ Rotated(s).size = l2.size
         /\ Rotated(s) \in [index : I, size : N, file : Nat, offset : Nat]
         /\ Rotated(s).file = l2.file + 1 /\ Rotated(s).offset = s
<1>1. PICK n : n = l2.file + 1
  OBVIOUS
<1>2. n \in Nat
  BY <1>1
<1>3. Rotated(s) = [l2 EXCEPT !.file = n, !.offset = s]
  BY <1>1, Zenon DEF Rotated
<1>4. PICK r : r = [l2 EXCEPT !.file = n, !.offset = s]
  OBVIOUS
<1>5. r.index = l2.index /\ r.size = l2.size /\ r.file = n /\ r.offset = s
  BY <1>4
<1>6. r \in [index : I, size : N, file : Nat, offset : Nat]
  BY <1>2, <1>4
<1> QED
  BY <1>1, <1>3, <1>4, <1>5, <1>6

LEMMA InsertL2Is ==
  ASSUME CacheOK, NEW t \in Callers, InsertL2(t)
  PROVE  LET k == calls[t].key  e == calls[t].entry IN
         /\ CacheOK' /\ UNCHANGED <<config, l1, l3, expired, metrics>>
         /\ calls[t].pc = "insert_l2" /\ k \in Keys /\ e \in CachedEntries /\ e # NoEntry
         /\ calls[t].op \in {"get", "put"} /\ Ends(t) /\ Outcome(t, TRUE, "L2") /\ InsertsL2(t)
         /\ IndexEntry(e, l2.file, calls[t].left) \in IndexEntries
<1> DEFINE k == calls[t].key
           e == calls[t].entry
           h == Hash[k]
           i == IndexEntry(e, l2.file, calls[t].left)
           rotated == IF Rotates(calls[t].left, e.size) THEN Rotated(e.size) ELSE l2
<1>1. /\ calls[t].pc = "insert_l2" /\ k \in Keys /\ e \in CachedEntries /\ e # NoEntry
      /\ calls[t].op \in {"get", "put"} /\ calls[t].left \in Nat /\ h \in Hashes
      /\ e.size \in MinEntrySize .. L2Capacity /\ e.size \in Nat
  BY CallFacts, CallHas, CacheSizes DEF InsertL2, At, CacheOK, CacheCallOK, CacheCalls, Carrying, Filling
<1>2. Ends(t)
  BY FinishEnds DEF InsertL2, CacheOK
<1>3. history' = Returned(t, TRUE, "L2")
  BY Zenon DEF InsertL2
<1>4. Outcome(t, TRUE, "L2")
  BY <1>1, <1>3, ReturnedIs
<1>5. i \in IndexEntries /\ i.size = e.size
  BY <1>1 DEF IndexEntry, IndexEntries, CachedEntries, CacheOK, L2OK
<1>6. l2' = InsertIntoL2(rotated, h, i)
  BY Zenon DEF InsertL2
<1>7. /\ rotated.index = l2.index /\ rotated.size = l2.size
      /\ rotated \in [index : [Hashes -> IndexEntries \union {NoEntry}], size : 0 .. (Word - 1),
                      file : Nat, offset : Nat]
      /\ IF Rotates(calls[t].left, e.size) THEN rotated.file = l2.file + 1 /\ rotated.offset = e.size
         ELSE rotated.file = l2.file /\ rotated.offset = l2.offset
  <2> DEFINE Tables == [index : [Hashes -> IndexEntries \union {NoEntry}], size : 0 .. (Word - 1),
                        file : Nat, offset : Nat]
  <2>1. l2 \in Tables
    BY DEF CacheOK, L2OK
  <2>2. /\ Rotated(e.size).index = l2.index /\ Rotated(e.size).size = l2.size
        /\ Rotated(e.size) \in Tables
        /\ Rotated(e.size).file = l2.file + 1 /\ Rotated(e.size).offset = e.size
    <3>1. e.size \in Nat
      BY <1>1
    <3> HIDE DEF e, rotated, i, h, k
    <3> QED
      BY <2>1, <3>1, RotatedIs, Zenon
  <2> HIDE DEF Tables
  <2>3. CASE Rotates(calls[t].left, e.size)
    <3>1. rotated = Rotated(e.size)
      BY <2>3, Zenon
    <3> QED
      BY <2>2, <2>3, <3>1, Zenon DEF Tables
  <2>4. CASE ~Rotates(calls[t].left, e.size)
    <3>1. rotated = l2
      BY <2>4, Zenon
    <3> QED
      BY <2>1, <2>4, <3>1, Zenon DEF Tables
  <2> QED
    BY <2>3, <2>4
<1> HIDE DEF rotated, i
<1>8. Plus(l2.size, e.size - SizeIn(l2.index, h)) \in 0 .. (Word - 1)
  <2>1. l2.size \in Int /\ e.size - SizeIn(l2.index, h) \in Int
    BY <1>1, CacheSizes
  <2> QED
    BY <2>1, NumbersStay
<1>9. /\ l2'.index = [l2.index EXCEPT ![h] = i]
      /\ l2'.size = Plus(l2.size, e.size - SizeIn(l2.index, h))
      /\ l2'.file = rotated.file /\ l2'.offset = rotated.offset
      /\ l2' \in [index : [Hashes -> IndexEntries \union {NoEntry}], size : 0 .. (Word - 1),
                  file : Nat, offset : Nat]
  BY <1>1, <1>5, <1>6, <1>7, <1>8 DEF InsertIntoL2
<1>10. L2OK'
  BY <1>1, <1>5, <1>9 DEF CacheOK, L2OK
<1>11. InsertsL2(t)
  BY <1>7, <1>9, Zenon DEF InsertsL2, i
<1> QED
  BY <1>1, <1>2, <1>4, <1>5, <1>10, <1>11, TiersKeep DEF InsertL2, CacheOK, Ends, Outcome, i

LEMMA FindL1Is ==
  ASSUME CacheOK, NEW t \in Callers, FindL1(t)
  PROVE  LET e == l1.map[calls[t].key] IN
         /\ CacheOK' /\ UNCHANGED <<config, l1, l2, l3, expired, metrics, history>>
         /\ calls[t].pc = "find_l1" /\ calls[t].op = "delete" /\ calls[t].key \in Keys
         /\ \/ e = NoEntry /\ Turns(t, "delete_l2", e)
            \/ e # NoEntry /\ Turns(t, "delete_l1", e)
<1> DEFINE e == l1.map[calls[t].key]
           p == IF e = NoEntry THEN "delete_l2" ELSE "delete_l1"
           x == [calls[t] EXCEPT !.pc = p, !.entry = e]
<1>1. /\ calls[t].pc = "find_l1" /\ calls[t].op = "delete" /\ calls[t].key \in Keys
      /\ calls[t] \in CacheCalls /\ CacheCallOK(calls[t]) /\ calls[t].key # NoEntry
      /\ e \in CachedEntries \union {NoEntry}
  BY CallFacts, CallHas DEF FindL1, At, CacheOK, CacheCallOK, Deleting, Clearing, L1OK
<1>2. calls' = [calls EXCEPT ![t] = x]
  BY DEF FindL1, CacheOK, CallsOK
<1>3. /\ x \in CacheCalls /\ x.pc = p /\ x.op = calls[t].op /\ x.key = calls[t].key /\ x.entry = e
      /\ p \in {"delete_l1", "delete_l2"}
  BY <1>1 DEF CacheCalls, CallPcs, Deleting
<1>4. CacheCallOK(x)
  BY <1>1, <1>3 DEF CacheCallOK, Carrying, Getting, Deleting, Filling, Clearing
<1>5. Moves(t, x)
  BY <1>2, <1>3, <1>4 DEF Moves
<1> HIDE DEF x
<1>6. Turns(t, p, e)
  BY <1>3, <1>5, MovesTurn DEF CacheOK
<1>7. \/ e = NoEntry /\ Turns(t, "delete_l2", e)
      \/ e # NoEntry /\ Turns(t, "delete_l1", e)
  BY <1>6, Zenon
<1> QED
  BY <1>1, <1>6, <1>7, TiersKeep DEF FindL1, CacheOK, Turns

LEMMA DeleteL1Is ==
  ASSUME CacheOK, NEW t \in Callers, DeleteL1(t)
  PROVE  LET k == calls[t].key  e == calls[t].entry IN
         /\ CacheOK' /\ UNCHANGED <<config, l2, l3, expired, metrics>>
         /\ calls[t].pc = "delete_l1" /\ calls[t].op = "delete" /\ k \in Keys
         /\ e \in CachedEntries /\ e # NoEntry
         /\ Turns(t, "delete_l2", NoEntry)
         /\ \/ l1.map[k] = NoEntry /\ UNCHANGED <<l1, history>>
            \/ /\ l1.map[k] # NoEntry
               /\ l1'.map = [l1.map EXCEPT ![k] = NoEntry] /\ l1'.size = Minus(l1.size, e.size)
               /\ history' = Drift(Excuse(history, {k}, OnlyInL1({k}) # {}),
                                   "L1", ~RemovesItsSize(k, e.size))
<1> DEFINE k == calls[t].key
           e == calls[t].entry
           x == [calls[t] EXCEPT !.pc = "delete_l2", !.entry = NoEntry]
<1>1. /\ calls[t].pc = "delete_l1" /\ calls[t].op = "delete" /\ k \in Keys
      /\ calls[t] \in CacheCalls /\ CacheCallOK(calls[t]) /\ k # NoEntry
      /\ e \in CachedEntries /\ e # NoEntry /\ e.size \in Sizes
  BY CallFacts, CallHas DEF DeleteL1, At, CacheOK, CacheCallOK, Deleting, Clearing, CachedEntries
<1>2. calls' = [calls EXCEPT ![t] = x]
  BY DEF DeleteL1, CacheOK, CallsOK
<1>3. x \in CacheCalls /\ x.pc = "delete_l2" /\ x.op = calls[t].op /\ x.key = calls[t].key /\ x.entry = NoEntry
  BY <1>1 DEF CacheCalls, CallPcs, Deleting
<1>4. CacheCallOK(x)
  BY <1>1, <1>3 DEF CacheCallOK, Carrying, Getting, Deleting, Filling, Clearing
<1>5. Moves(t, x)
  BY <1>2, <1>3, <1>4 DEF Moves
<1> HIDE DEF x
<1>6. Turns(t, "delete_l2", NoEntry)
  BY <1>3, <1>5, MovesTurn DEF CacheOK
<1>7. CASE l1.map[k] = NoEntry
  <2>1. UNCHANGED <<l1, history>>
    BY <1>7 DEF DeleteL1
  <2> QED
    BY <1>1, <1>6, <1>7, <2>1, TiersKeep DEF DeleteL1, CacheOK, Turns
<1>8. CASE l1.map[k] # NoEntry
  <2>1. /\ l1' = RemoveFromL1(k, e.size)
        /\ history' = Drift(Excuse(history, {k}, OnlyInL1({k}) # {}), "L1", ~RemovesItsSize(k, e.size))
    BY <1>8 DEF DeleteL1
  <2>2. history' \in Histories
    <3>1. Excuse(history, {k}, OnlyInL1({k}) # {}) \in Histories
      BY <1>1, ExcuseIs DEF CacheOK
    <3> QED
      BY <2>1, <3>1, DriftIs DEF Tiers, RemovesItsSize
  <2>3. L1OK' /\ l1'.map = [l1.map EXCEPT ![k] = NoEntry] /\ l1'.size = Minus(l1.size, e.size)
    BY <1>1, <2>1, RemoveKeeps DEF CacheOK
  <2> QED
    BY <1>1, <1>6, <1>8, <2>1, <2>2, <2>3, TiersKeep DEF DeleteL1, CacheOK, Turns
<1> QED
  BY <1>7, <1>8

LEMMA DeleteL2Is ==
  ASSUME CacheOK, NEW t \in Callers, DeleteL2(t)
  PROVE  LET h == Hash[calls[t].key] IN
         /\ CacheOK' /\ UNCHANGED <<config, l1, l3, expired, metrics>>
         /\ calls[t].pc = "delete_l2" /\ calls[t].op = "delete" /\ calls[t].key \in Keys /\ h \in Hashes
         /\ l2'.index = [l2.index EXCEPT ![h] = NoEntry] /\ l2'.file = l2.file /\ l2'.offset = l2.offset
         /\ l2'.size = Minus(l2.size, SizeIn(l2.index, h))
         /\ history' = Excuse(history, OnlyInL2({h}), TRUE)
         /\ Turns(t, "delete_l3", calls[t].entry)
<1> DEFINE h == Hash[calls[t].key]
<1>1. /\ calls[t].pc = "delete_l2" /\ calls[t].op = "delete" /\ calls[t].key \in Keys /\ h \in Hashes
      /\ calls[t] \in CacheCalls /\ CacheCallOK(calls[t]) /\ calls[t].key # NoEntry
  BY CallFacts, CallHas DEF DeleteL2, At, CacheOK, CacheCallOK, Deleting, Clearing
<1>2. Goto(t, "delete_l3") /\ "delete_l3" \in CallPcs
  BY DEF DeleteL2, CallPcs, Deleting
<1>3. CacheCallOK([calls[t] EXCEPT !.pc = "delete_l3"])
  BY <1>1 DEF CacheCallOK, CacheCalls, Carrying, Getting, Deleting, Filling, Clearing
<1>4. Turns(t, "delete_l3", calls[t].entry)
  BY <1>2, <1>3, GotoTurns DEF CacheOK
<1>5. l2' = [l2 EXCEPT !.index[h] = NoEntry, !.size = Minus(@, SizeIn(l2.index, h))]
  BY DEF DeleteL2
<1>6. Minus(l2.size, SizeIn(l2.index, h)) \in 0 .. (Word - 1)
  <2>1. l2.size \in Int /\ SizeIn(l2.index, h) \in Int
    BY <1>1, CacheSizes
  <2> QED
    BY <2>1, NumbersStay
<1>7. /\ L2OK' /\ l2'.index = [l2.index EXCEPT ![h] = NoEntry] /\ l2'.file = l2.file
      /\ l2'.offset = l2.offset /\ l2'.size = Minus(l2.size, SizeIn(l2.index, h))
  BY <1>1, <1>5, <1>6 DEF CacheOK, L2OK
<1>8. history' = Excuse(history, OnlyInL2({h}), TRUE)
  BY DEF DeleteL2
<1>9. history' \in Histories
  BY <1>8, ExcuseIs, OnlyCopiesAre DEF CacheOK
<1> QED
  BY <1>1, <1>4, <1>7, <1>8, <1>9, TiersKeep DEF DeleteL2, CacheOK, Turns

LEMMA DeleteL3Is ==
  ASSUME CacheOK, NEW t \in Callers, DeleteL3(t)
  PROVE  LET k == calls[t].key IN
         /\ CacheOK' /\ UNCHANGED <<config, l1, l2, expired, metrics>>
         /\ calls[t].pc = "delete_l3" /\ calls[t].op = "delete" /\ k \in Keys /\ Ends(t)
         /\ \/ UNCHANGED <<l3, history>>
            \/ /\ l3' = [l3 EXCEPT ![k] = NoEntry]
               /\ history' = [history EXCEPT !.last[k] = NoEntry]
<1> DEFINE k == calls[t].key
<1>1. /\ calls[t].pc = "delete_l3" /\ calls[t].op = "delete" /\ k \in Keys
  BY CallFacts, CallHas DEF DeleteL3, At, CacheOK, CacheCallOK, Deleting
<1>2. Ends(t)
  BY FinishEnds DEF DeleteL3, CacheOK
<1>3. \/ UNCHANGED <<l3, history>>
      \/ /\ l3' = [l3 EXCEPT ![k] = NoEntry]
         /\ history' = [history EXCEPT !.last[k] = NoEntry]
  BY DEF DeleteL3
<1>4. history' \in Histories /\ l3' \in [Keys -> StoredObjects \union {NoEntry}]
  <2>1. CASE UNCHANGED <<l3, history>>
    BY <2>1 DEF CacheOK
  <2>2. CASE l3' = [l3 EXCEPT ![k] = NoEntry] /\ history' = [history EXCEPT !.last[k] = NoEntry]
    BY <1>1, <2>2 DEF CacheOK, Histories
  <2> QED
    BY <1>3, <2>1, <2>2
<1> QED
  BY <1>1, <1>2, <1>3, <1>4, TiersKeep DEF DeleteL3, CacheOK, Ends

LEMMA BeginClearIs ==
  ASSUME CacheOK, NEW t \in Callers, BeginClear(t)
  PROVE  /\ CacheOK' /\ UNCHANGED <<config, l2, l3, expired, metrics>>
         /\ l1'.map = [k \in Keys |-> NoEntry] /\ l1'.size = l1.size
         /\ history.ops < MaxOps
         /\ history' = Excuse([history EXCEPT !.ops = @ + 1], OnlyInL1(Keys), TRUE)
         /\ Starts(t, "zero_l1", "clear", NoEntry, NoEntry)
<1> DEFINE x == [Idle EXCEPT !.pc = "zero_l1", !.op = "clear"]
           h == [history EXCEPT !.ops = @ + 1]
<1>1. x \in CacheCalls /\ x.pc = "zero_l1" /\ x.op = "clear" /\ x.key = NoEntry /\ x.entry = NoEntry
  BY DEF Idle, CacheCalls, CallPcs, Clearing
<1>2. CacheCallOK(x)
  BY <1>1 DEF CacheCallOK, Carrying, Getting, Deleting, Filling, Clearing
<1>3. calls[t] = Idle
  BY CallFacts DEF BeginClear, At, CacheOK, CacheCallOK
<1>4. Moves(t, x)
  BY <1>1, <1>2 DEF Moves, BeginClear
<1>5. h \in Histories /\ history.ops < MaxOps
  <2>1. history.ops \in 0 .. MaxOps /\ history.ops < MaxOps
    BY DEF BeginClear, CacheOK, Histories
  <2>2. history.ops + 1 \in 0 .. MaxOps
    BY <2>1, CacheNumbers
  <2> QED
    BY <2>1, <2>2 DEF CacheOK, Histories
<1>6. history' = Excuse(h, OnlyInL1(Keys), TRUE)
  BY DEF BeginClear
<1>7. OnlyInL1(Keys) \in SUBSET Keys
  BY OnlyCopiesAre DEF CacheOK
<1>8. history' \in Histories
  <2> HIDE DEF h
  <2> QED
    BY <1>5, <1>6, <1>7, ExcuseIs
<1>9. l1'.map = [k \in Keys |-> NoEntry] /\ l1'.size = l1.size /\ L1OK'
  BY DEF BeginClear, EmptyL1, CacheOK, L1OK
<1> HIDE DEF x
<1>10. Starts(t, "zero_l1", "clear", NoEntry, NoEntry)
  BY <1>1, <1>3, <1>4, MovesStart DEF CacheOK
<1> QED
  BY <1>5, <1>6, <1>8, <1>9, <1>10, TiersKeep DEF BeginClear, CacheOK, Starts

LEMMA ZeroL1Is ==
  ASSUME CacheOK, NEW t \in Callers, ZeroL1(t)
  PROVE  /\ CacheOK' /\ UNCHANGED <<config, l2, l3, expired, metrics>>
         /\ calls[t].pc = "zero_l1" /\ calls[t].key = NoEntry
         /\ l1'.map = l1.map /\ l1'.size = 0
         /\ history' = Drift(history, "L1", Present(l1.map) # {})
         /\ Turns(t, "clear_l2", calls[t].entry)
<1>1. /\ calls[t].pc = "zero_l1" /\ calls[t].key = NoEntry
      /\ calls[t] \in CacheCalls /\ CacheCallOK(calls[t])
  BY CallFacts DEF ZeroL1, At, CacheOK, CacheCallOK, Clearing
<1>2. Goto(t, "clear_l2") /\ "clear_l2" \in CallPcs
  BY DEF ZeroL1, CallPcs, Clearing
<1>3. CacheCallOK([calls[t] EXCEPT !.pc = "clear_l2"])
  BY <1>1 DEF CacheCallOK, CacheCalls, Carrying, Getting, Deleting, Filling, Clearing
<1>4. Turns(t, "clear_l2", calls[t].entry)
  BY <1>2, <1>3, GotoTurns DEF CacheOK
<1>5. L1OK' /\ l1'.map = l1.map /\ l1'.size = 0
  <2>1. 0 \in 0 .. (Word - 1)
    BY CacheNumbers
  <2> QED
    BY <2>1 DEF ZeroL1, CacheOK, L1OK
<1>6. history' = Drift(history, "L1", Present(l1.map) # {})
  BY DEF ZeroL1
<1>7. history' \in Histories
  BY <1>6, DriftIs DEF CacheOK, Tiers
<1> QED
  BY <1>1, <1>4, <1>5, <1>6, <1>7, TiersKeep DEF ZeroL1, CacheOK, Turns

LEMMA ClearL2Is ==
  ASSUME CacheOK, NEW t \in Callers, ClearL2(t)
  PROVE  /\ CacheOK' /\ UNCHANGED <<config, l1, l3, expired, metrics>>
         /\ calls[t].pc = "clear_l2" /\ calls[t].key = NoEntry
         /\ l2'.index = [h \in Hashes |-> NoEntry] /\ l2'.size = 0 /\ l2'.file = l2.file
         /\ l2'.offset = 0
         /\ history' = [Excuse(history, OnlyInL2(Hashes), TRUE)
                          EXCEPT !.crossed = @ \/ \E u \in Callers : At(u, "insert_l2")]
         /\ Ends(t)
<1>1. calls[t].pc = "clear_l2" /\ calls[t].key = NoEntry
  BY CallFacts DEF ClearL2, At, CacheOK, CacheCallOK, Clearing
<1>2. Ends(t)
  BY FinishEnds DEF ClearL2, CacheOK
<1>3. DOMAIN l2.index = Hashes
  BY L2Domain DEF CacheOK
<1>4. /\ L2OK' /\ l2'.index = [h \in Hashes |-> NoEntry] /\ l2'.size = 0 /\ l2'.file = l2.file
      /\ l2'.offset = 0
  <2>1. 0 \in 0 .. (Word - 1)
    BY CacheNumbers
  <2> QED
    BY <1>3, <2>1 DEF ClearL2, CacheOK, L2OK
<1>5. history' = [Excuse(history, OnlyInL2(Hashes), TRUE)
                    EXCEPT !.crossed = @ \/ \E u \in Callers : At(u, "insert_l2")]
  BY <1>3, Zenon DEF ClearL2
<1>6. Excuse(history, OnlyInL2(Hashes), TRUE) \in Histories
  BY ExcuseIs, OnlyCopiesAre DEF CacheOK
<1>7. history' \in Histories
  BY <1>5, <1>6 DEF Histories
<1> QED
  BY <1>1, <1>2, <1>4, <1>5, <1>7, TiersKeep DEF ClearL2, CacheOK, Ends

LEMMA ExpireIs ==
  ASSUME CacheOK, Expire
  PROVE  CacheOK' /\ UNCHANGED <<config, l1, l2, l3, calls, metrics, history>>
BY DEF Expire, CacheOK, L1OK, L2OK, CallsOK

-----------------------------------------------------------------------------
(* The cache: every step keeps the types.                                  *)

LEMMA CacheKeeps ==
  ASSUME CacheOK, [Next]_vars
  PROVE  CacheOK'
<1>1. CASE UNCHANGED vars
  BY <1>1 DEF vars, CacheOK, L1OK, L2OK, CallsOK
<1>2. CASE Expire
  BY <1>2, ExpireIs
<1>3. ASSUME NEW t \in Callers,
             BeginGet(t) \/ BeginPut(t) \/ BeginDelete(t) \/ BeginClear(t)
      PROVE  CacheOK'
  BY <1>3, BeginGetIs, BeginPutIs, BeginDeleteIs, BeginClearIs
<1>4. ASSUME NEW t \in Callers, Step(t)
      PROVE  CacheOK'
  <2>1. CASE GetL1(t) \/ DropExpired(t) \/ GetL2(t) \/ GetL3(t)
    BY <2>1, GetL1Is, DropExpiredIs, GetL2Is, GetL3Is
  <2>2. CASE PutL3(t) \/ CheckL1(t) \/ EvictL1(t) \/ InsertL1(t)
    BY <2>2, PutL3Is, CheckL1Is, EvictL1Is, InsertL1Is
  <2>3. CASE CheckL2(t) \/ EvictL2(t) \/ AllocL2(t) \/ InsertL2(t)
    BY <2>3, CheckL2Is, EvictL2Is, AllocL2Is, InsertL2Is
  <2>4. CASE FindL1(t) \/ DeleteL1(t) \/ DeleteL2(t) \/ DeleteL3(t) \/ ZeroL1(t) \/ ClearL2(t)
    BY <2>4, FindL1Is, DeleteL1Is, DeleteL2Is, DeleteL3Is, ZeroL1Is, ClearL2Is
  <2> QED
    BY <1>4, <2>1, <2>2, <2>3, <2>4 DEF Step
<1> QED
  BY <1>1, <1>2, <1>3, <1>4 DEF Next

-----------------------------------------------------------------------------
(* The cache: extents of L2's files.                                       *)

\* Where an entry of the index is.
Where(e) == <<e.file, e.offset, e.size>>

\* A step of t that takes no space in a file.
SameExtents(t) ==
  /\ \A h \in Hashes : l2'.index[h] # NoEntry =>
       l2.index[h] # NoEntry /\ Where(l2'.index[h]) = Where(l2.index[h])
  /\ l2'.file = l2.file /\ l2'.offset = l2.offset
  /\ history'.crossed = history.crossed
  /\ Others(t) /\ calls[t].pc # "insert_l2" /\ calls'[t].pc # "insert_l2"

EndsBefore(a, b) == a.offset + a.size <= b.offset \/ b.offset + b.size <= a.offset

\* The invariant, without the nested definitions.
LEMMA ExtentsAre ==
  ASSUME CacheOK
  PROVE  ExtentsOK <=> (~history.crossed =>
    /\ \A g, h \in Hashes : l2.index[g] # NoEntry /\ l2.index[h] # NoEntry /\ g # h
         /\ l2.index[g].file = l2.index[h].file => EndsBefore(l2.index[g], l2.index[h])
    /\ \A h \in Hashes : l2.index[h] # NoEntry =>
         /\ l2.index[h].file <= l2.file
         /\ l2.index[h].file = l2.file => l2.index[h].offset + l2.index[h].size <= l2.offset
    /\ \A t \in Callers : calls[t].pc = "insert_l2" =>
       /\ calls[t].left + calls[t].entry.size = l2.offset
       /\ \A u \in Callers : calls[u].pc = "insert_l2" => u = t
       /\ \A h \in Hashes : l2.index[h] # NoEntry /\ l2.index[h].file = l2.file =>
            l2.index[h].offset + l2.index[h].size <= calls[t].left)
<1>1. Present(l2.index) = {h \in Hashes : l2.index[h] # NoEntry}
  BY L2Domain DEF CacheOK
<1> QED
  BY <1>1 DEF ExtentsOK, ExtentsAreDisjoint, EndsBefore

LEMMA L2DomainNext ==
  ASSUME L2OK'
  PROVE  Present(l2'.index) = {h \in Hashes : l2'.index[h] # NoEntry} /\ DOMAIN l2'.index = Hashes
BY DEF Present, L2OK

LEMMA ExtentsAreNext ==
  ASSUME CacheOK'
  PROVE  ExtentsOK' <=> (~history'.crossed =>
    /\ \A g, h \in Hashes : l2'.index[g] # NoEntry /\ l2'.index[h] # NoEntry /\ g # h
         /\ l2'.index[g].file = l2'.index[h].file => EndsBefore(l2'.index[g], l2'.index[h])
    /\ \A h \in Hashes : l2'.index[h] # NoEntry =>
         /\ l2'.index[h].file <= l2'.file
         /\ l2'.index[h].file = l2'.file => l2'.index[h].offset + l2'.index[h].size <= l2'.offset
    /\ \A t \in Callers : calls'[t].pc = "insert_l2" =>
       /\ calls'[t].left + calls'[t].entry.size = l2'.offset
       /\ \A u \in Callers : calls'[u].pc = "insert_l2" => u = t
       /\ \A h \in Hashes : l2'.index[h] # NoEntry /\ l2'.index[h].file = l2'.file =>
            l2'.index[h].offset + l2'.index[h].size <= calls'[t].left)
<1>1. Present(l2'.index) = {h \in Hashes : l2'.index[h] # NoEntry}
  BY L2DomainNext DEF CacheOK
<1> QED
  BY <1>1 DEF ExtentsOK, ExtentsAreDisjoint, EndsBefore

LEMMA ExtentsStay ==
  ASSUME CacheOK, CacheOK', ExtentsOK, NEW t \in Callers, SameExtents(t)
  PROVE  ExtentsOK'
<1>1. \A h \in Hashes : l2'.index[h] # NoEntry =>
        /\ l2.index[h] # NoEntry /\ l2'.index[h].file = l2.index[h].file
        /\ l2'.index[h].offset = l2.index[h].offset /\ l2'.index[h].size = l2.index[h].size
  BY DEF SameExtents, Where
<1>2. \A u \in Callers : calls'[u].pc = "insert_l2" => u # t /\ calls'[u] = calls[u]
  BY DEF SameExtents, Others
<1>3. l2'.file = l2.file /\ l2'.offset = l2.offset /\ history'.crossed = history.crossed
  BY DEF SameExtents
<1> QED
  BY <1>1, <1>2, <1>3, ExtentsAre, ExtentsAreNext DEF EndsBefore

\* What a removal says of the history.
Removal(K, b, i, c) ==
  /\ history' \in Histories
  /\ history'.next = history.next /\ history'.ops = history.ops /\ history'.gets = history.gets
  /\ history'.last = history.last /\ history'.stored = history.stored
  /\ history'.crowded = history.crowded /\ history'.crossed = history.crossed
  /\ history'.excused = IF b THEN history.excused \union K ELSE history.excused
  /\ history'.drifted = IF c THEN history.drifted \union {i} ELSE history.drifted

LEMMA RemovalIs ==
  ASSUME history \in Histories, NEW K \in SUBSET Keys, NEW b \in BOOLEAN, NEW i \in Tiers,
         NEW c \in BOOLEAN, history' = Drift(Excuse(history, K, b), i, c)
  PROVE  Removal(K, b, i, c)
<1>1. PICK g : g = Excuse(history, K, b)
  OBVIOUS
<1>2. /\ g \in Histories
      /\ g.next = history.next /\ g.ops = history.ops /\ g.gets = history.gets /\ g.last = history.last
      /\ g.stored = history.stored /\ g.drifted = history.drifted /\ g.crowded = history.crowded
      /\ g.crossed = history.crossed
      /\ g.excused = IF b THEN history.excused \union K ELSE history.excused
  BY <1>1, ExcuseIs
<1>3. PICK h : h = Drift(g, i, c)
  OBVIOUS
<1>4. g \in Histories
  BY <1>2
<1>5. /\ h \in Histories
      /\ h.next = g.next /\ h.ops = g.ops /\ h.gets = g.gets /\ h.last = g.last
      /\ h.stored = g.stored /\ h.excused = g.excused /\ h.crowded = g.crowded
      /\ h.crossed = g.crossed
      /\ h.drifted = IF c THEN g.drifted \union {i} ELSE g.drifted
  BY <1>3, <1>4, DriftIs
<1>6. history' = h
  BY <1>1, <1>3
<1> QED
  BY <1>2, <1>5, <1>6 DEF Removal

LEMMA L1Removal ==
  ASSUME CacheOK, NEW k \in Keys, NEW s,
         history' = Drift(Excuse(history, {k}, OnlyInL1({k}) # {}), "L1", ~RemovesItsSize(k, s))
  PROVE  Removal({k}, OnlyInL1({k}) # {}, "L1", ~RemovesItsSize(k, s))
<1>1. (OnlyInL1({k}) # {}) \in BOOLEAN /\ (~RemovesItsSize(k, s)) \in BOOLEAN
      /\ {k} \in SUBSET Keys /\ "L1" \in Tiers
  BY DEF RemovesItsSize, Tiers
<1>2. history \in Histories
  BY DEF CacheOK
<1> QED
  BY <1>1, <1>2, RemovalIs

LEMMA L2Removal ==
  ASSUME CacheOK, NEW S, NEW c \in BOOLEAN,
         history' = Drift(Excuse(history, OnlyInL2(S), TRUE), "L2", c)
  PROVE  Removal(OnlyInL2(S), TRUE, "L2", c)
<1>1. OnlyInL2(S) \in SUBSET Keys /\ "L2" \in Tiers
  BY OnlyCopiesAre DEF CacheOK, Tiers
<1>2. history \in Histories
  BY DEF CacheOK
<1> QED
  BY <1>1, <1>2, RemovalIs

LEMMA ExtentsKeep1 ==
  ASSUME CacheOK, CacheOK', ExtentsOK, NEW t \in Callers,
         \/ BeginGet(t) \/ BeginDelete(t) \/ BeginPut(t) \/ BeginClear(t)
         \/ GetL1(t) \/ DropExpired(t) \/ GetL3(t) \/ PutL3(t) \/ CheckL1(t) \/ InsertL1(t)
         \/ CheckL2(t) \/ FindL1(t) \/ DeleteL1(t) \/ DeleteL3(t) \/ ZeroL1(t)
  PROVE  ExtentsOK'
<1>0. history \in Histories /\ Idle.pc = "idle"
  BY DEF CacheOK, Idle
<1>1. CASE BeginGet(t) \/ BeginDelete(t)
  <2>1. /\ UNCHANGED l2 /\ Others(t) /\ calls[t].pc # "insert_l2" /\ calls'[t].pc # "insert_l2"
        /\ history'.crossed = history.crossed
    BY <1>0, <1>1, BeginGetIs, BeginDeleteIs, BeginHistory DEF Starts
  <2>2. SameExtents(t)
    BY <2>1 DEF SameExtents
  <2> QED
    BY <2>2, ExtentsStay
<1>2. CASE BeginPut(t)
  <2>1. PICK k \in Keys, e \in CachedEntries :
         /\ UNCHANGED <<config, l1, l2, l3, expired, metrics>>
         /\ history' = Excuse([history EXCEPT !.next = @ + 1], {k}, Overlaps(k, "put"))
         /\ \/ config.write_through /\ Starts(t, "put_l3", "put", k, e)
            \/ ~config.write_through /\ Starts(t, "check_l1", "put", k, e)
            \/ ~config.write_through /\ Starts(t, "check_l2", "put", k, e)
    BY <1>2, BeginPutIs
  <2>2. history'.crossed = history.crossed
    BY <1>0, <2>1 DEF Excuse, Histories
  <2>3. Others(t) /\ calls[t].pc # "insert_l2" /\ calls'[t].pc # "insert_l2"
    BY <1>0, <2>1 DEF Starts
  <2>4. SameExtents(t)
    BY <2>1, <2>2, <2>3 DEF SameExtents
  <2> QED
    BY <2>4, ExtentsStay
<1>3. CASE BeginClear(t)
  <2>1. history'.crossed = history.crossed
    BY <1>0, <1>3, BeginClearIs DEF Excuse, Histories
  <2>2. SameExtents(t)
    BY <1>0, <1>3, <2>1, BeginClearIs DEF SameExtents, Starts
  <2> QED
    BY <2>2, ExtentsStay
<1>4. CASE GetL1(t)
  <2>1. SameExtents(t)
    BY <1>0, <1>4, GetL1Is DEF SameExtents, Turns, Ends
  <2> QED
    BY <2>1, ExtentsStay
<1>5. CASE DropExpired(t)
  <2>1. history'.crossed = history.crossed
    BY <1>5, DropExpiredIs, L1Removal DEF Removal
  <2>2. SameExtents(t)
    BY <1>5, <2>1, DropExpiredIs DEF SameExtents, Turns
  <2> QED
    BY <2>2, ExtentsStay
<1>6. CASE GetL3(t)
  <2>1. SameExtents(t)
    BY <1>0, <1>6, GetL3Is DEF SameExtents, Turns, Ends
  <2> QED
    BY <2>1, ExtentsStay
<1>7. CASE PutL3(t)
  <2>1. history'.crossed = history.crossed
    BY <1>0, <1>7, PutL3Is DEF Histories
  <2>2. SameExtents(t)
    BY <1>0, <1>7, <2>1, PutL3Is DEF SameExtents, Turns, Ends
  <2> QED
    BY <2>2, ExtentsStay
<1>8. CASE CheckL1(t)
  <2>1. history'.crossed = history.crossed
    BY <1>0, <1>8, CheckL1Is DEF Crowd, Histories
  <2>2. SameExtents(t)
    BY <1>8, <2>1, CheckL1Is DEF SameExtents, Turns
  <2> QED
    BY <2>2, ExtentsStay
<1>9. CASE InsertL1(t)
  <2>1. SameExtents(t)
    BY <1>0, <1>9, InsertL1Is DEF SameExtents, Ends, Outcome
  <2> QED
    BY <2>1, ExtentsStay
<1>10. CASE CheckL2(t)
  <2>1. history'.crossed = history.crossed
    BY <1>0, <1>10, CheckL2Is DEF Crowd, Histories, Outcome
  <2>2. SameExtents(t)
    BY <1>0, <1>10, <2>1, CheckL2Is DEF SameExtents, Turns, Ends
  <2> QED
    BY <2>2, ExtentsStay
<1>11. CASE FindL1(t)
  <2>1. SameExtents(t)
    BY <1>11, FindL1Is DEF SameExtents, Turns
  <2> QED
    BY <2>1, ExtentsStay
<1>12. CASE DeleteL1(t)
  <2>1. history'.crossed = history.crossed
    BY <1>12, DeleteL1Is, L1Removal DEF Removal
  <2>2. SameExtents(t)
    BY <1>12, <2>1, DeleteL1Is DEF SameExtents, Turns
  <2> QED
    BY <2>2, ExtentsStay
<1>13. CASE DeleteL3(t)
  <2>1. history'.crossed = history.crossed
    BY <1>0, <1>13, DeleteL3Is DEF Histories
  <2>2. SameExtents(t)
    BY <1>0, <1>13, <2>1, DeleteL3Is DEF SameExtents, Ends
  <2> QED
    BY <2>2, ExtentsStay
<1>14. CASE ZeroL1(t)
  <2>1. history'.crossed = history.crossed
    BY <1>0, <1>14, ZeroL1Is DEF Drift, Histories
  <2>2. SameExtents(t)
    BY <1>14, <2>1, ZeroL1Is DEF SameExtents, Turns
  <2> QED
    BY <2>2, ExtentsStay
<1> QED
  BY <1>1, <1>2, <1>3, <1>4, <1>5, <1>6, <1>7, <1>8, <1>9, <1>10, <1>11, <1>12, <1>13, <1>14

LEMMA EvictL1Quiet ==
  ASSUME CacheOK, NEW t \in Callers, EvictL1(t)
  PROVE  /\ UNCHANGED l2 /\ Others(t) /\ calls[t].pc = "evict_l1"
         /\ calls'[t].pc \in {"evict_l1", "insert_l1"} /\ history'.crossed = history.crossed
<1>0. history \in Histories
  BY DEF CacheOK
<1>1. CASE Turns(t, "insert_l1", calls[t].entry) /\
           history' = Crowd(history, "L1", should_continue_eviction /\ calls[t].left = 0)
  BY <1>0, <1>1, EvictL1Is DEF Turns, Crowd, Histories
<1>2. ASSUME NEW c, EvictsL1(t, c)
      PROVE  /\ Others(t) /\ calls'[t].pc = "evict_l1" /\ history'.crossed = history.crossed
  <2>1. c.key \in Keys
    BY <1>2 DEF EvictsL1, L1Candidates
  <2> QED
    BY <1>2, <2>1, L1Removal DEF EvictsL1, Turns, Removal
<1> QED
  BY <1>1, <1>2, EvictL1Is

LEMMA ExtentsKeep2 ==
  ASSUME CacheOK, CacheOK', ExtentsOK, NEW t \in Callers,
         EvictL1(t) \/ GetL2(t) \/ EvictL2(t) \/ DeleteL2(t)
  PROVE  ExtentsOK'
<1>0. history \in Histories /\ Idle.pc = "idle"
  BY DEF CacheOK, Idle
<1>1. CASE EvictL1(t)
  <2>1. SameExtents(t)
    BY <1>1, EvictL1Quiet DEF SameExtents
  <2> QED
    BY <2>1, ExtentsStay
<1>2. CASE GetL2(t)
  <2>1. \A h \in Hashes : l2'.index[h] # NoEntry =>
          l2.index[h] # NoEntry /\ Where(l2'.index[h]) = Where(l2.index[h])
    <3>1. CASE UNCHANGED l2
      BY <3>1
    <3>2. CASE ~UNCHANGED l2
      <4>1. PICK h \in Hashes : /\ l2.index[h] # NoEntry /\ l2.index[h] \in IndexEntries
                                /\ l2' = [l2 EXCEPT !.index[h].count = @ + 1]
        BY <1>2, <3>2, GetL2Is
      <4>2. Where([l2.index[h] EXCEPT !.count = @ + 1]) = Where(l2.index[h])
        BY <4>1 DEF IndexEntries, Where
      <4>3. l2'.index = [l2.index EXCEPT ![h] = [l2.index[h] EXCEPT !.count = @ + 1]]
        BY <4>1 DEF CacheOK, L2OK
      <4> QED
        BY <4>1, <4>2, <4>3 DEF CacheOK, L2OK
    <3> QED
      BY <3>1, <3>2
  <2>2. l2'.file = l2.file /\ l2'.offset = l2.offset
    BY <1>2, GetL2Is DEF CacheOK, L2OK
  <2>3. Others(t) /\ calls[t].pc # "insert_l2" /\ calls'[t].pc # "insert_l2" /\ UNCHANGED history
    BY <1>0, <1>2, GetL2Is DEF Turns, Ends
  <2>4. SameExtents(t)
    BY <2>1, <2>2, <2>3 DEF SameExtents
  <2> QED
    BY <2>4, ExtentsStay
<1>3. CASE EvictL2(t)
  <2>1. PICK gone : EvictsL2(t, gone)
    BY <1>3, EvictL2Is
  <2>2. (Stale(gone) # {}) \in BOOLEAN
    OBVIOUS
  <2>3. history'.crossed = history.crossed
    BY <2>1, <2>2, L2Removal DEF EvictsL2, Removal
  <2>4. \A h \in Hashes : l2'.index[h] # NoEntry => l2'.index[h] = l2.index[h]
    BY <2>1 DEF EvictsL2, Without1, CacheOK, L2OK
  <2>5. l2'.file = l2.file /\ l2'.offset = l2.offset
    BY <2>1 DEF EvictsL2
  <2>6. SameExtents(t)
    BY <1>3, <2>3, <2>4, <2>5, EvictL2Is DEF SameExtents, Turns
  <2> QED
    BY <2>6, ExtentsStay
<1>4. CASE DeleteL2(t)
  <2>1. history'.crossed = history.crossed
    BY <1>0, <1>4, DeleteL2Is DEF Excuse, Histories
  <2>2. \A h \in Hashes : l2'.index[h] # NoEntry => l2'.index[h] = l2.index[h]
    BY <1>4, DeleteL2Is DEF CacheOK, L2OK
  <2>3. SameExtents(t)
    BY <1>4, <2>1, <2>2, DeleteL2Is DEF SameExtents, Turns
  <2> QED
    BY <2>3, ExtentsStay
<1> QED
  BY <1>1, <1>2, <1>3, <1>4

LEMMA ExtentsKeep3 ==
  ASSUME CacheOK, CacheOK', ExtentsOK, NEW t \in Callers, AllocL2(t) \/ ClearL2(t)
  PROVE  ExtentsOK'
<1>0. history \in Histories /\ Idle.pc = "idle"
  BY DEF CacheOK, Idle
<1>1. CASE AllocL2(t)
  <2> DEFINE e == calls[t].entry
  <2>1. /\ l2'.index = l2.index /\ l2'.file = l2.file /\ l2'.offset = l2.offset + e.size
        /\ calls'[t].pc = "insert_l2" /\ calls'[t].entry = e /\ calls'[t].left = l2.offset
        /\ e \in CachedEntries /\ Others(t)
        /\ history' = [history EXCEPT !.crossed = @ \/ \E u \in Callers : At(u, "insert_l2")]
    BY <1>1, AllocL2Is DEF Turns
  <2>2. e.size \in Nat /\ l2.offset \in Nat
    BY <2>1, CacheSizes DEF CacheOK, L2OK
  <2>3. SUFFICES ASSUME ~history'.crossed PROVE ExtentsOK'
    BY ExtentsAreNext
  <2>4. ~history.crossed /\ \A u \in Callers : calls[u].pc # "insert_l2"
    BY <1>0, <2>1, <2>3 DEF Histories, At
  <2>5. \A u \in Callers : calls'[u].pc = "insert_l2" => u = t
    BY <2>1, <2>4 DEF Others
  <2>6. /\ \A g, h \in Hashes : l2.index[g] # NoEntry /\ l2.index[h] # NoEntry /\ g # h
             /\ l2.index[g].file = l2.index[h].file => EndsBefore(l2.index[g], l2.index[h])
        /\ \A h \in Hashes : l2.index[h] # NoEntry =>
             /\ l2.index[h].file <= l2.file
             /\ l2.index[h].file = l2.file => l2.index[h].offset + l2.index[h].size <= l2.offset
    BY <2>4, ExtentsAre
  <2>7. \A h \in Hashes : l2.index[h] # NoEntry =>
          l2.index[h].offset \in Nat /\ l2.index[h].size \in Nat
    BY CacheSizes DEF CacheOK, L2OK, IndexEntries
  <2> HIDE DEF e
  <2>8. \A h \in Hashes : l2.index[h] # NoEntry => (l2.index[h].file = l2.file =>
           l2.index[h].offset + l2.index[h].size <= l2.offset + e.size)
    BY <2>2, <2>6, <2>7
  <2> QED
    BY <2>1, <2>2, <2>5, <2>6, <2>8, ExtentsAreNext
<1>2. CASE ClearL2(t)
  <2>1. PICK g : g = Excuse(history, OnlyInL2(Hashes), TRUE)
    OBVIOUS
  <2>2. g \in Histories /\ g.crossed = history.crossed
    BY <1>0, <2>1, ExcuseIs, OnlyCopiesAre DEF CacheOK
  <2>3. history' = [g EXCEPT !.crossed = @ \/ \E u \in Callers : At(u, "insert_l2")]
    BY <1>2, <2>1, ClearL2Is
  <2>4. Ends(t) /\ \A h \in Hashes : l2'.index[h] = NoEntry
    BY <1>2, ClearL2Is
  <2>5. SUFFICES ASSUME ~history'.crossed PROVE ExtentsOK'
    BY ExtentsAreNext
  <2>6. \A u \in Callers : calls[u].pc # "insert_l2"
    BY <2>2, <2>3, <2>5 DEF Histories, At
  <2>7. \A u \in Callers : calls'[u].pc # "insert_l2"
    BY <1>0, <2>4, <2>6 DEF Ends, Others
  <2> QED
    BY <2>4, <2>7, ExtentsAreNext
<1> QED
  BY <1>1, <1>2

LEMMA ExtentsKeep4 ==
  ASSUME CacheOK, CacheOK', ExtentsOK, NEW t \in Callers, InsertL2(t)
  PROVE  ExtentsOK'
<1> DEFINE k == calls[t].key
           e == calls[t].entry
           h == Hash[k]
           i == IndexEntry(e, l2.file, calls[t].left)
<1>1. /\ calls[t].pc = "insert_l2" /\ k \in Keys /\ e \in CachedEntries /\ e # NoEntry
      /\ Ends(t) /\ Outcome(t, TRUE, "L2") /\ InsertsL2(t) /\ i \in IndexEntries /\ h \in Hashes
  BY InsertL2Is DEF Hashes
<1>2. i.file = l2.file /\ i.offset = calls[t].left /\ i.size = e.size
  BY DEF IndexEntry
<1>3. \A g \in Hashes : l2'.index[g] = IF g = h THEN i ELSE l2.index[g]
  BY <1>1 DEF InsertsL2, CacheOK, L2OK
<1>4. /\ e.size \in Nat /\ l2.offset \in Nat /\ l2.file \in Nat /\ calls[t].left \in Nat
      /\ \A g \in Hashes : l2.index[g] # NoEntry =>
           l2.index[g].offset \in Nat /\ l2.index[g].size \in Nat /\ l2.index[g].file \in Nat
  BY <1>1, CacheSizes, CallFacts DEF CacheOK, L2OK, IndexEntries, CacheCalls
<1>5. SUFFICES ASSUME ~history'.crossed PROVE ExtentsOK'
  BY ExtentsAreNext
<1>6. ~history.crossed
  BY <1>1, <1>5 DEF Outcome
<1>7. /\ \A f, g \in Hashes : l2.index[f] # NoEntry /\ l2.index[g] # NoEntry /\ f # g
           /\ l2.index[f].file = l2.index[g].file => EndsBefore(l2.index[f], l2.index[g])
      /\ \A g \in Hashes : l2.index[g] # NoEntry =>
           /\ l2.index[g].file <= l2.file
           /\ l2.index[g].file = l2.file => l2.index[g].offset + l2.index[g].size <= l2.offset
      /\ calls[t].left + e.size = l2.offset
      /\ \A u \in Callers : calls[u].pc = "insert_l2" => u = t
      /\ \A g \in Hashes : l2.index[g] # NoEntry /\ l2.index[g].file = l2.file =>
            l2.index[g].offset + l2.index[g].size <= calls[t].left
  BY <1>1, <1>6, ExtentsAre
<1>8. \A u \in Callers : calls'[u].pc # "insert_l2"
  BY <1>1, <1>7 DEF Ends, Others, Idle
<1>9. \/ l2'.file = l2.file + 1 /\ l2'.offset = e.size
      \/ l2'.file = l2.file /\ l2'.offset = l2.offset
  BY <1>1 DEF InsertsL2
<1> HIDE DEF i, e, h, k
<1>10. \A g \in Hashes : l2'.index[g] # NoEntry =>
         /\ l2'.index[g].file <= l2.file
         /\ l2'.index[g].file = l2.file => l2'.index[g].offset + l2'.index[g].size <= l2.offset
  BY <1>2, <1>3, <1>4, <1>7
<1>11. \A g \in Hashes : l2'.index[g] # NoEntry =>
         /\ l2'.index[g].file <= l2'.file
         /\ l2'.index[g].file = l2'.file => l2'.index[g].offset + l2'.index[g].size <= l2'.offset
  <2>1. \A g \in Hashes : l2'.index[g] # NoEntry => l2'.index[g].file \in Nat
    BY <1>2, <1>3, <1>4
  <2> QED
    BY <1>4, <1>9, <1>10, <2>1
<1>12. ASSUME NEW f \in Hashes, NEW g \in Hashes, l2'.index[f] # NoEntry, l2'.index[g] # NoEntry,
              f # g, l2'.index[f].file = l2'.index[g].file
       PROVE  EndsBefore(l2'.index[f], l2'.index[g])
  <2>1. CASE f # h /\ g # h
    BY <1>3, <1>7, <1>12, <2>1
  <2>2. CASE f = h
    <3>1. l2'.index[f] = i /\ l2'.index[g] = l2.index[g]
      BY <1>3, <1>12, <2>2
    <3>2. l2.index[g].offset + l2.index[g].size <= calls[t].left
      BY <1>2, <1>7, <1>12, <3>1
    <3> QED
      BY <1>2, <3>1, <3>2 DEF EndsBefore
  <2>3. CASE g = h
    <3>1. l2'.index[g] = i /\ l2'.index[f] = l2.index[f]
      BY <1>3, <1>12, <2>3
    <3>2. l2.index[f].offset + l2.index[f].size <= calls[t].left
      BY <1>2, <1>7, <1>12, <3>1
    <3> QED
      BY <1>2, <3>1, <3>2 DEF EndsBefore
  <2> QED
    BY <2>1, <2>2, <2>3
<1> QED
  BY <1>8, <1>11, <1>12, ExtentsAreNext

LEMMA ExtentsKeep ==
  ASSUME CacheOK, ExtentsOK, [Next]_vars
  PROVE  ExtentsOK'
<1>0. CacheOK'
  BY CacheKeeps
<1>1. CASE UNCHANGED vars
  BY <1>1 DEF vars, ExtentsOK, ExtentsAreDisjoint, Present
<1>2. CASE Expire
  <2>1. UNCHANGED <<l2, calls, history>>
    BY <1>2, ExpireIs
  <2> QED
    BY <2>1 DEF ExtentsOK, ExtentsAreDisjoint, Present
<1>3. ASSUME NEW t \in Callers, BeginGet(t) \/ BeginPut(t) \/ BeginDelete(t) \/ BeginClear(t) \/ Step(t)
      PROVE  ExtentsOK'
  BY <1>0, <1>3, ExtentsKeep1, ExtentsKeep2, ExtentsKeep3, ExtentsKeep4 DEF Step
<1> QED
  BY <1>1, <1>2, <1>3 DEF Next

-----------------------------------------------------------------------------
(* The cache: its first state.                                             *)

LEMMA FirstVersions ==
  /\ FirstVersion \in [Keys -> 1 .. Cardinality(Keys)]
  /\ FirstVersion \in [Keys -> Versions]
<1>1. PICK f : f \in Bijection(1 .. Cardinality(Keys), Keys)
  BY CacheNumbers, FS_CardinalityType DEF ExistsBijection
<1>2. PICK n : n = Cardinality(Keys)
  OBVIOUS
<1>3. f \in [1 .. n -> Keys] /\ \A k \in Keys : \E i \in 1 .. n : f[i] = k
  BY <1>1, <1>2 DEF Bijection, Surjection
<1> DEFINE g == [k \in Keys |-> CHOOSE i \in 1 .. n : f[i] = k]
<1>4. \A k \in Keys : g[k] \in 1 .. n /\ f[g[k]] = k
  BY <1>3
<1>5. g \in [Keys -> 1 .. n] /\ IsInjective(g)
  <2>1. g \in [Keys -> 1 .. n]
    BY <1>4
  <2> HIDE DEF g
  <2>2. DOMAIN g = Keys
    BY <2>1
  <2> QED
    BY <1>4, <2>1, <2>2 DEF IsInjective
<1>6. \E h \in [Keys -> 1 .. Cardinality(Keys)] : IsInjective(h)
  BY <1>2, <1>5
<1>7. FirstVersion \in [Keys -> 1 .. Cardinality(Keys)]
  BY <1>6, Zenon DEF FirstVersion
<1> QED
  BY <1>7, VersionsAre

LEMMA CacheBegins ==
  ASSUME Init
  PROVE  CacheOK /\ ExtentsOK
<1>1. L1OK
  BY CacheNumbers DEF Init, EmptyL1, L1OK
<1>2. L2OK /\ \A h \in Hashes : l2.index[h] = NoEntry
  BY CacheNumbers DEF Init, EmptyL2, L2OK, Hashes
<1>3. CallsOK /\ \A t \in Callers : calls[t] = Idle
  BY IdleIs DEF Init, CallsOK
<1>4. history \in Histories
  BY CacheNumbers, FirstVersions, VersionsAre DEF Init, Histories
<1>5. l3 \in [Keys -> StoredObjects \union {NoEntry}]
  <2>1. \A k \in Keys : InL3[k] # 0 => InL3[k] \in Sizes
    BY CacheAssumption
  <2>2. \A k \in Keys : StoredL3[k] \in StoredObjects \union {NoEntry}
    BY <2>1, FirstVersions DEF StoredL3, StoredObjects
  <2> QED
    BY <2>2 DEF Init, StoredL3
<1>6. metrics \in [DOMAIN NoMetrics -> Nat]
  BY DEF Init, NoMetrics
<1>7. CacheOK
  BY <1>1, <1>2, <1>3, <1>4, <1>5, <1>6 DEF CacheOK
<1>8. ExtentsOK
  BY <1>2, <1>3, <1>7, ExtentsAre DEF Idle
<1> QED
  BY <1>7, <1>8

\* No two entries of L2's index share bytes of a file, unless two callers took
\* space at once or a clear came between taking it and using it.
THEOREM ExtentsStayDisjoint == Spec => []ExtentsAreDisjoint
<1>1. Init => CacheOK /\ ExtentsOK
  BY CacheBegins
<1>2. CacheOK /\ ExtentsOK /\ [Next]_vars => (CacheOK /\ ExtentsOK)'
  BY CacheKeeps, ExtentsKeep
<1>3. ExtentsOK => ExtentsAreDisjoint
  BY DEF ExtentsOK, ExtentsAreDisjoint
<1> QED
  BY <1>1, <1>2, <1>3, PTL DEF Spec

-----------------------------------------------------------------------------
(* The cache: the tiers agree.                                             *)

\* What the tiers have of a key: a in L1, b in L2, o in L3, of the stored versions.
Only3(o, v) == o = NoEntry \/ o.ver # v
KeyFine(a, b, o, last, wt, stored) ==
  /\ a # NoEntry => a.ver = last
  /\ b # NoEntry => b.ver = last
  /\ wt \/ last \in stored \union {NoEntry} => IF o = NoEntry THEN last = NoEntry ELSE o.ver = last
  /\ last # NoEntry /\ Only3(o, last) => ~(a = NoEntry /\ b = NoEntry)
CallFine(c, a, b, o, last) ==
  /\ c.pc \in Carrying => c.entry.ver = last
  /\ c.pc = "get_l2" /\ last # NoEntry /\ Only3(o, last) => b # NoEntry
  /\ c.pc = "get_l3" => last = NoEntry \/ ~Only3(o, last)
  /\ c.pc \in {"delete_l2", "delete_l3"} => a = NoEntry
  /\ c.pc = "delete_l3" => b = NoEntry

\* A tier's copy stays, is given up while L3 has it, or is the last version.
CopyShrinks(a, x, o) ==
  /\ x # NoEntry => a # NoEntry /\ x.ver = a.ver
  /\ a # NoEntry /\ x = NoEntry => ~Only3(o, a.ver)
CopyFills(a, x, o, last) ==
  /\ x # NoEntry => (a # NoEntry /\ x.ver = a.ver) \/ x.ver = last
  /\ a # NoEntry /\ x = NoEntry => ~Only3(o, a.ver)

LEMMA KeyStays ==
  ASSUME NEW a, NEW b, NEW x, NEW y, NEW o, NEW last, NEW wt, NEW stored, NEW new,
         wt \/ new = stored,
         KeyFine(a, b, o, last, wt, stored), CopyFills(a, x, o, last), CopyFills(b, y, o, last)
  PROVE  KeyFine(x, y, o, last, wt, new)
BY DEF KeyFine, CopyFills, Only3

LEMMA CallStays ==
  ASSUME NEW c, NEW a, NEW b, NEW x, NEW y, NEW o, NEW last, NEW wt, NEW stored,
         KeyFine(a, b, o, last, wt, stored), CopyFills(a, x, o, last), CopyFills(b, y, o, last),
         CallFine(c, a, b, o, last),
         \/ c.pc \notin {"delete_l2", "delete_l3"}
         \/ CopyShrinks(a, x, o) /\ CopyShrinks(b, y, o)
  PROVE  CallFine(c, x, y, o, last)
BY DEF KeyFine, CallFine, CopyFills, CopyShrinks, Only3

LEMMA ShrinksFills ==
  ASSUME NEW a, NEW x, NEW o, NEW last, CopyShrinks(a, x, o)
  PROVE  CopyFills(a, x, o, last)
BY DEF CopyShrinks, CopyFills

LEMMA CurrentIs ==
  ASSUME NEW k \in Keys
  PROVE  CurrentOK(k) <=>
    /\ \A t, u \in Callers : calls[t].key = k /\ calls[u].key = k /\ t # u => calls[t].op = "get"
    /\ \A t \in Callers : calls[t].key = k /\ Putting(calls[t]) /\ config.write_through =>
         l3[k] # NoEntry /\ l3[k].ver = calls[t].entry.ver
    /\ (\A t \in Callers : calls[t].key = k => ~Putting(calls[t])) =>
         /\ KeyFine(l1.map[k], l2.index[Hash[k]], l3[k], history.last[k],
                    config.write_through, history.stored)
         /\ \A t \in Callers : calls[t].key = k =>
              CallFine(calls[t], l1.map[k], l2.index[Hash[k]], l3[k], history.last[k])
<1>1. KeyIsCurrent(k) <=> KeyFine(l1.map[k], l2.index[Hash[k]], l3[k], history.last[k],
                    config.write_through, history.stored)
  BY DEF KeyIsCurrent, KeyFine, OnlyCopy, Only3
<1>2. \A t \in Callers : CallIsCurrent(calls[t], k) <=>
        CallFine(calls[t], l1.map[k], l2.index[Hash[k]], l3[k], history.last[k])
  BY DEF CallIsCurrent, CallFine, OnlyCopy, Only3
<1>3. \A t : t \in Busy(k) <=> t \in Callers /\ calls[t].key = k
  BY DEF Busy
<1> QED
  BY <1>1, <1>2, <1>3, Zenon DEF CurrentOK

LEMMA CurrentIsNext ==
  ASSUME NEW k \in Keys
  PROVE  CurrentOK(k)' <=>
    /\ \A t, u \in Callers : calls'[t].key = k /\ calls'[u].key = k /\ t # u => calls'[t].op = "get"
    /\ \A t \in Callers : calls'[t].key = k /\ Putting(calls'[t]) /\ config'.write_through =>
         l3'[k] # NoEntry /\ l3'[k].ver = calls'[t].entry.ver
    /\ (\A t \in Callers : calls'[t].key = k => ~Putting(calls'[t])) =>
         /\ KeyFine(l1'.map[k], l2'.index[Hash[k]], l3'[k], history'.last[k],
                    config'.write_through, history'.stored)
         /\ \A t \in Callers : calls'[t].key = k =>
              CallFine(calls'[t], l1'.map[k], l2'.index[Hash[k]], l3'[k], history'.last[k])
<1>1. KeyIsCurrent(k)' <=> KeyFine(l1'.map[k], l2'.index[Hash[k]], l3'[k], history'.last[k],
                    config'.write_through, history'.stored)
  BY DEF KeyIsCurrent, KeyFine, OnlyCopy, Only3
<1>2. \A t \in Callers : CallIsCurrent(calls[t], k)' <=>
        CallFine(calls'[t], l1'.map[k], l2'.index[Hash[k]], l3'[k], history'.last[k])
  BY DEF CallIsCurrent, CallFine, OnlyCopy, Only3
<1>3. \A t : t \in Busy(k)' <=> t \in Callers /\ calls'[t].key = k
  BY DEF Busy
<1>4. CurrentOK(k)' <=>
  /\ \A t, u \in Busy(k)' : t # u => calls'[t].op = "get"
  /\ \A t \in Busy(k)' : Putting(calls'[t]) /\ config'.write_through =>
       l3'[k] # NoEntry /\ l3'[k].ver = calls'[t].entry.ver
  /\ (\A t \in Busy(k)' : ~Putting(calls'[t])) =>
       KeyIsCurrent(k)' /\ \A t \in Busy(k)' : CallIsCurrent(calls[t], k)'
  BY DEF CurrentOK, Putting
<1> QED
  BY <1>1, <1>2, <1>3, <1>4, Zenon

\* What a step leaves of a key.
SameKey(k) ==
  /\ config' = config /\ l3'[k] = l3[k] /\ history'.last[k] = history.last[k]
  /\ history'.stored = history.stored \/ config.write_through
Shrinks(k) ==
  /\ CopyShrinks(l1.map[k], l1'.map[k], l3[k])
  /\ CopyShrinks(l2.index[Hash[k]], l2'.index[Hash[k]], l3[k])
Fills(k) ==
  /\ CopyFills(l1.map[k], l1'.map[k], l3[k], history.last[k])
  /\ CopyFills(l2.index[Hash[k]], l2'.index[Hash[k]], l3[k], history.last[k])
AllGet(k) == \A u \in Callers : calls[u].key = k => calls[u].op = "get"

\* A step of a caller that is not at work on k.
LEMMA Elsewhere ==
  ASSUME NEW k \in Keys, NEW t \in Callers, CurrentOK(k), SameKey(k), Shrinks(k), Others(t),
         calls[t].key # k, calls'[t].key # k
  PROVE  CurrentOK(k)'
<1>1. \A u \in Callers : calls'[u].key = k => u # t /\ calls'[u] = calls[u]
  BY DEF Others
<1>2. \A u \in Callers : calls[u].key = k => u # t /\ calls'[u] = calls[u]
  BY DEF Others
<1>3. PICK a, b, x, y, o, last, wt, stored, new :
        /\ a = l1.map[k] /\ b = l2.index[Hash[k]] /\ x = l1'.map[k] /\ y = l2'.index[Hash[k]]
        /\ o = l3[k] /\ last = history.last[k] 
        /\ wt = config.write_through /\ stored = history.stored /\ new = history'.stored
  OBVIOUS
<1>4. wt \/ new = stored
  BY <1>3, Zenon DEF SameKey
<1>5. CopyShrinks(a, x, o) /\ CopyShrinks(b, y, o)
  BY <1>3, Zenon DEF Shrinks
<1>6. CopyFills(a, x, o, last) /\ CopyFills(b, y, o, last)
  BY <1>5, ShrinksFills, Zenon
<1>7. KeyFine(a, b, o, last, wt, stored) => KeyFine(x, y, o, last, wt, new)
  BY <1>4, <1>6, KeyStays, Zenon
<1>8. \A c : KeyFine(a, b, o, last, wt, stored) /\ CallFine(c, a, b, o, last) => CallFine(c, x, y, o, last)
  BY <1>5, <1>6, CallStays, Zenon
<1>9. l3'[k] = o /\ history'.last[k] = last /\ config' = config /\ config'.write_through = wt
  BY <1>3 DEF SameKey
<1>10. /\ \A r, u \in Callers : calls[r].key = k /\ calls[u].key = k /\ r # u => calls[r].op = "get"
       /\ \A r \in Callers : calls[r].key = k /\ Putting(calls[r]) /\ config.write_through =>
            o # NoEntry /\ o.ver = calls[r].entry.ver
       /\ (\A r \in Callers : calls[r].key = k => ~Putting(calls[r])) =>
            /\ KeyFine(a, b, o, last, wt, stored)
            /\ \A r \in Callers : calls[r].key = k => CallFine(calls[r], a, b, o, last)
  BY <1>3, CurrentIs, Zenon
<1>11. /\ \A r, u \in Callers : calls'[r].key = k /\ calls'[u].key = k /\ r # u => calls'[r].op = "get"
       /\ \A r \in Callers : calls'[r].key = k /\ Putting(calls'[r]) /\ config'.write_through =>
            o # NoEntry /\ o.ver = calls'[r].entry.ver
  BY <1>1, <1>9, <1>10
<1>12. ASSUME \A r \in Callers : calls'[r].key = k => ~Putting(calls'[r])
       PROVE  /\ KeyFine(x, y, o, last, wt, new)
              /\ \A r \in Callers : calls'[r].key = k => CallFine(calls'[r], x, y, o, last)
  <2>1. \A r \in Callers : calls[r].key = k => ~Putting(calls[r])
    BY <1>2, <1>12, Zenon
  <2> QED
    BY <1>1, <1>7, <1>8, <1>10, <2>1, Zenon
<1> QED
  BY <1>3, <1>9, <1>11, <1>12, CurrentIsNext, Zenon

\* A step of a get, or of a caller that begins one, while only gets are at work on k.
LEMMA AsGet ==
  ASSUME CallsOK, NEW k \in Keys, NEW t \in Callers, CurrentOK(k), SameKey(k), Fills(k), Others(t),
         AllGet(k),
         calls'[t].key = k => /\ calls'[t].op = "get"
                              /\ CallFine(calls'[t], l1'.map[k], l2'.index[Hash[k]], l3[k], history.last[k])
  PROVE  CurrentOK(k)'
<1>1. \A u \in Callers : u # t => calls'[u] = calls[u]
  BY DEF Others
<1>2. \A u \in Callers : calls'[u].key = k => calls'[u].op = "get" /\ ~Putting(calls'[u])
  BY <1>1 DEF AllGet, Putting
<1>3. \A u \in Callers : calls[u].key = k =>
        ~Putting(calls[u]) /\ calls[u].pc \notin {"delete_l2", "delete_l3"}
  BY CallFacts DEF AllGet, Putting, CacheCallOK, Deleting
<1>4. PICK a, b, x, y, o, last, wt, stored, new :
        /\ a = l1.map[k] /\ b = l2.index[Hash[k]] /\ x = l1'.map[k] /\ y = l2'.index[Hash[k]]
        /\ o = l3[k] /\ last = history.last[k] 
        /\ wt = config.write_through /\ stored = history.stored /\ new = history'.stored
  OBVIOUS
<1>5. wt \/ new = stored
  BY <1>4, Zenon DEF SameKey
<1>6. CopyFills(a, x, o, last) /\ CopyFills(b, y, o, last)
  BY <1>4, Zenon DEF Fills
<1>7. KeyFine(a, b, o, last, wt, stored) /\ \A u \in Callers : calls[u].key = k => CallFine(calls[u], a, b, o, last)
  BY <1>3, <1>4, CurrentIs, Zenon
<1>8. KeyFine(x, y, o, last, wt, new)
  BY <1>5, <1>6, <1>7, KeyStays, Zenon
<1>9. \A u \in Callers : calls[u].key = k => CallFine(calls[u], x, y, o, last)
  BY <1>3, <1>6, <1>7, CallStays, Zenon
<1>10. \A u \in Callers : calls'[u].key = k => CallFine(calls'[u], x, y, o, last)
  BY <1>1, <1>4, <1>9, Zenon
<1>11. l3'[k] = o /\ history'.last[k] = last /\ config' = config /\ config'.write_through = wt
  BY <1>4 DEF SameKey
<1> QED
  BY <1>2, <1>4, <1>8, <1>10, <1>11, CurrentIsNext, Zenon

\* A step after which t alone is at work on k, or nobody is.
LEMMA Alone ==
  ASSUME NEW k \in Keys, NEW t \in Callers, Others(t),
         \A u \in Callers : u # t => calls[u].key # k,
         IF calls'[t].key = k /\ Putting(calls'[t])
         THEN config'.write_through => l3'[k] # NoEntry /\ l3'[k].ver = calls'[t].entry.ver
         ELSE /\ KeyFine(l1'.map[k], l2'.index[Hash[k]], l3'[k], history'.last[k],
                    config'.write_through, history'.stored)
              /\ calls'[t].key = k =>
                   CallFine(calls'[t], l1'.map[k], l2'.index[Hash[k]], l3'[k], history'.last[k])
  PROVE  CurrentOK(k)'
<1>1. \A u \in Callers : calls'[u].key = k => u = t
  BY DEF Others
<1>2. CASE calls'[t].key = k /\ Putting(calls'[t])
  BY <1>1, <1>2, CurrentIsNext, Zenon
<1>3. CASE ~(calls'[t].key = k /\ Putting(calls'[t]))
  BY <1>1, <1>3, CurrentIsNext, Zenon
<1> QED
  BY <1>2, <1>3

\* Who is at work on a key with a get, and who is not.
LEMMA AllGetIs ==
  ASSUME NEW k \in Keys, NEW t \in Callers, CurrentOK(k), calls[t].key = k
  PROVE  /\ calls[t].op = "get" => AllGet(k)
         /\ calls[t].op # "get" => \A u \in Callers : u # t => calls[u].key # k
BY CurrentIs DEF AllGet

LEMMA NoPutIsFine ==
  ASSUME NEW k \in Keys, CurrentOK(k), \A u \in Callers : calls[u].key = k => ~Putting(calls[u])
  PROVE  /\ KeyFine(l1.map[k], l2.index[Hash[k]], l3[k], history.last[k],
                    config.write_through, history.stored)
         /\ \A u \in Callers : calls[u].key = k =>
              CallFine(calls[u], l1.map[k], l2.index[Hash[k]], l3[k], history.last[k])
BY CurrentIs

\* The keys a step is not about, and the one it is about.
LEMMA AgreeStep ==
  ASSUME AgreeOK, NEW t \in Callers, Others(t), history.excused \subseteq history'.excused,
         calls'[t].key \in {calls[t].key, NoEntry},
         \A k \in Keys \ history'.excused : k # calls[t].key => SameKey(k) /\ Shrinks(k),
         \A k \in Keys \ history'.excused : k = calls[t].key /\ CurrentOK(k) => CurrentOK(k)'
  PROVE  AgreeOK'
<1>1. SUFFICES ASSUME NEW k \in Keys, k \notin history'.excused PROVE CurrentOK(k)'
  BY DEF AgreeOK
<1>2. CurrentOK(k) /\ k \in Keys \ history'.excused
  BY <1>1 DEF AgreeOK
<1>3. CASE k = calls[t].key
  BY <1>2, <1>3
<1>4. CASE k # calls[t].key
  <2>1. SameKey(k) /\ Shrinks(k) /\ calls'[t].key # k
    BY <1>2, <1>4, NoEntryIsNone
  <2> QED
    BY <1>2, <1>4, <2>1, Elsewhere
<1> QED
  BY <1>3, <1>4

\* What a get knows of its key, and what it has to keep.
LEMMA GetKnows ==
  ASSUME NEW k \in Keys, NEW t \in Callers, CurrentOK(k), calls[t].key = k, calls[t].op = "get"
  PROVE  /\ KeyFine(l1.map[k], l2.index[Hash[k]], l3[k], history.last[k],
                    config.write_through, history.stored)
         /\ CallFine(calls[t], l1.map[k], l2.index[Hash[k]], l3[k], history.last[k])
<1>1. \A u \in Callers : calls[u].key = k => ~Putting(calls[u])
  BY AllGetIs DEF AllGet, Putting
<1> QED
  BY <1>1, NoPutIsFine

LEMMA GetStep ==
  ASSUME CallsOK, NEW k \in Keys, NEW t \in Callers, CurrentOK(k), calls[t].key = k, calls[t].op = "get",
         SameKey(k), Fills(k), Others(t),
         \/ calls'[t] = Idle
         \/ /\ calls'[t].op = "get"
            /\ CallFine(calls'[t], l1'.map[k], l2'.index[Hash[k]], l3[k], history.last[k])
  PROVE  CurrentOK(k)'
<1>1. AllGet(k)
  BY AllGetIs
<1>2. Idle.key # k
  BY NoEntryIsNone DEF Idle
<1> QED
  BY <1>1, <1>2, AsGet

\* What a delete, or a put before L3 has it, knows of its key.
LEMMA AloneKnows ==
  ASSUME NEW k \in Keys, NEW t \in Callers, CurrentOK(k), calls[t].key = k, calls[t].op # "get",
         ~Putting(calls[t])
  PROVE  /\ KeyFine(l1.map[k], l2.index[Hash[k]], l3[k], history.last[k],
                    config.write_through, history.stored)
         /\ CallFine(calls[t], l1.map[k], l2.index[Hash[k]], l3[k], history.last[k])
         /\ \A u \in Callers : u # t => calls[u].key # k
<1>1. \A u \in Callers : u # t => calls[u].key # k
  BY AllGetIs
<1>2. \A u \in Callers : calls[u].key = k => ~Putting(calls[u])
  BY <1>1
<1> QED
  BY <1>1, <1>2, NoPutIsFine

\* What a put that L3 has, or need not have, knows.
LEMMA PutKnows ==
  ASSUME NEW k \in Keys, NEW t \in Callers, CurrentOK(k), calls[t].key = k, Putting(calls[t])
  PROVE  /\ config.write_through => l3[k] # NoEntry /\ l3[k].ver = calls[t].entry.ver
         /\ \A u \in Callers : u # t => calls[u].key # k
<1>1. calls[t].op # "get"
  BY DEF Putting
<1> QED
  BY <1>1, AllGetIs, CurrentIs

LEMMA CopiesSame ==
  ASSUME NEW k, l1'.map[k] = l1.map[k], l2'.index[Hash[k]] = l2.index[Hash[k]]
  PROVE  Shrinks(k) /\ Fills(k)
BY DEF Shrinks, Fills, CopyShrinks, CopyFills

LEMMA FillsIs ==
  ASSUME NEW k, Shrinks(k)
  PROVE  Fills(k)
BY ShrinksFills, Zenon DEF Shrinks, Fills

LEMMA KeysSame ==
  ASSUME UNCHANGED <<config, l3, history>>
  PROVE  \A k : SameKey(k)
BY DEF SameKey

\* The copy of a key in L1 goes, or stays; it is excused if it was the only one.
LEMMA GoneFromL1 ==
  ASSUME CacheOK, NEW k \in Keys, NEW m \in Keys, l1'.map = [l1.map EXCEPT ![m] = NoEntry],
         l2'.index[Hash[k]] = l2.index[Hash[k]],
         OnlyInL1({m}) # {} => m \in history'.excused, k \notin history'.excused
  PROVE  Shrinks(k)
<1>1. l1'.map[k] = IF k = m THEN NoEntry ELSE l1.map[k]
  BY DEF CacheOK, L1OK
<1>2. k = m /\ l1.map[k] # NoEntry => ~Only3(l3[k], l1.map[k].ver)
  BY DEF OnlyInL1, Present, OnlyCopy, Only3, CacheOK, L1OK
<1> QED
  BY <1>1, <1>2 DEF Shrinks, CopyShrinks

LEMMA GoneFromL2 ==
  ASSUME CacheOK, NEW k \in Keys, NEW S,
         \A h \in Hashes : l2'.index[h] = IF h \in S THEN NoEntry ELSE l2.index[h],
         l1'.map[k] = l1.map[k],
         OnlyInL2(S) \subseteq history'.excused, k \notin history'.excused
  PROVE  Shrinks(k)
<1>1. Hash[k] \in Hashes
  BY DEF Hashes
<1>2. Hash[k] \in S /\ l2.index[Hash[k]] # NoEntry => ~Only3(l3[k], l2.index[Hash[k]].ver)
  BY DEF OnlyInL2, OnlyCopy, Only3
<1> QED
  BY <1>1, <1>2 DEF Shrinks, CopyShrinks

LEMMA GetL1Agrees ==
  ASSUME CacheOK, AgreeOK, NEW t \in Callers, GetL1(t)
  PROVE  AgreeOK'
<1> DEFINE m == calls[t].key
<1>1. /\ UNCHANGED <<config, l1, l2, l3, history>> /\ m \in Keys
      /\ calls[t].pc = "get_l1" /\ calls[t].op = "get"
      /\ \/ l1.map[m] = NoEntry /\ Turns(t, "get_l2", calls[t].entry)
         \/ l1.map[m] # NoEntry /\ Turns(t, "drop_expired", l1.map[m])
         \/ l1.map[m] # NoEntry /\ Ends(t)
  BY GetL1Is
<1>2. Others(t) /\ calls'[t].key \in {m, NoEntry}
  BY <1>1 DEF Turns, Ends, Idle
<1>3. \A k : SameKey(k) /\ Shrinks(k) /\ Fills(k)
  BY <1>1, KeysSame, CopiesSame
<1>4. ASSUME NEW k \in Keys, k = m, CurrentOK(k) PROVE CurrentOK(k)'
  <2>1. KeyFine(l1.map[k], l2.index[Hash[k]], l3[k], history.last[k],
                config.write_through, history.stored)
    BY <1>1, <1>4, GetKnows
  <2>3. CASE l1.map[m] = NoEntry /\ Turns(t, "get_l2", calls[t].entry)
    <3>1. CallFine(calls'[t], l1'.map[k], l2'.index[Hash[k]], l3[k], history.last[k])
      BY <1>1, <1>4, <2>1, <2>3 DEF CallFine, KeyFine, Turns, Carrying, Filling
    <3>2. calls'[t].op = "get"
      BY <1>1, <2>3 DEF Turns
    <3> QED
      BY <1>1, <1>2, <1>3, <1>4, <3>1, <3>2, GetStep DEF CacheOK
  <2>4. CASE Turns(t, "drop_expired", l1.map[m])
    <3>1. CallFine(calls'[t], l1'.map[k], l2'.index[Hash[k]], l3[k], history.last[k])
      BY <2>4 DEF CallFine, Turns, Carrying, Filling
    <3>2. calls'[t].op = "get"
      BY <1>1, <2>4 DEF Turns
    <3> QED
      BY <1>1, <1>2, <1>3, <1>4, <3>1, <3>2, GetStep DEF CacheOK
  <2>5. CASE Ends(t)
    BY <1>1, <1>2, <1>3, <1>4, <2>5, GetStep DEF CacheOK, Ends
  <2> QED
    BY <1>1, <2>3, <2>4, <2>5
<1> QED
  BY <1>1, <1>2, <1>3, <1>4, AgreeStep

LEMMA RemovalKeeps ==
  ASSUME NEW K, NEW b \in BOOLEAN, NEW i, NEW c, Removal(K, b, i, c), UNCHANGED <<config, l3>>
  PROVE  /\ history.excused \subseteq history'.excused /\ (b => K \subseteq history'.excused)
         /\ \A k : SameKey(k)
BY DEF Removal, SameKey

LEMMA DropExpiredAgrees ==
  ASSUME CacheOK, AgreeOK, NEW t \in Callers, DropExpired(t)
  PROVE  AgreeOK'
<1> DEFINE m == calls[t].key
<1>1. /\ UNCHANGED <<config, l2, l3>> /\ m \in Keys
      /\ calls[t].pc = "drop_expired" /\ calls[t].op = "get"
      /\ l1'.map = [l1.map EXCEPT ![m] = NoEntry] /\ Turns(t, "get_l2", NoEntry)
      /\ Removal({m}, OnlyInL1({m}) # {}, "L1", ~RemovesItsSize(m, calls[t].entry.size))
  BY DropExpiredIs, L1Removal
<1>2. Others(t) /\ calls'[t].key = m /\ calls'[t].pc = "get_l2" /\ calls'[t].op = "get"
  BY <1>1 DEF Turns
<1>3. /\ history.excused \subseteq history'.excused /\ (OnlyInL1({m}) # {} => m \in history'.excused)
      /\ \A k : SameKey(k)
  <2>1. (OnlyInL1({m}) # {}) \in BOOLEAN
    OBVIOUS
  <2> QED
    BY <1>1, <2>1, RemovalKeeps
<1>4. \A k \in Keys \ history'.excused : Shrinks(k)
  BY <1>1, <1>3, GoneFromL1
<1>5. ASSUME NEW k \in Keys \ history'.excused, k = m, CurrentOK(k) PROVE CurrentOK(k)'
  <2>1. KeyFine(l1.map[k], l2.index[Hash[k]], l3[k], history.last[k],
                config.write_through, history.stored)
    BY <1>1, <1>5, GetKnows
  <2>2. l1.map[k] # NoEntry => ~Only3(l3[k], l1.map[k].ver)
    BY <1>1, <1>4, <1>5 DEF Shrinks, CopyShrinks, CacheOK, L1OK
  <2>3. CallFine(calls'[t], l1'.map[k], l2'.index[Hash[k]], l3[k], history.last[k])
    BY <1>1, <1>2, <2>1, <2>2 DEF CallFine, KeyFine, Carrying, Filling
  <2>4. Fills(k)
    BY <1>4, <1>5, FillsIs
  <2> QED
    BY <1>1, <1>2, <1>3, <1>5, <2>3, <2>4, GetStep DEF CacheOK
<1> QED
  BY <1>1, <1>2, <1>3, <1>4, <1>5, AgreeStep

\* A hit of L2 counts: the copy stays.
LEMMA HitStays ==
  ASSUME CacheOK, NEW h \in Hashes, l2.index[h] \in IndexEntries,
         l2' = [l2 EXCEPT !.index[h].count = @ + 1]
  PROVE  /\ \A g \in Hashes : /\ l2'.index[g] = NoEntry <=> l2.index[g] = NoEntry
                              /\ l2'.index[g].ver = l2.index[g].ver /\ l2'.index[g].size = l2.index[g].size
         /\ l2'.index[h].count = l2.index[h].count + 1
         /\ \A g \in Hashes : g # h => l2'.index[g] = l2.index[g]
         /\ l2'.size = l2.size
<1>1. PICK e : e = [l2.index[h] EXCEPT !.count = @ + 1]
  OBVIOUS
<1>2. e \in IndexEntries /\ e.ver = l2.index[h].ver /\ e.size = l2.index[h].size
      /\ e.count = l2.index[h].count + 1
  BY <1>1 DEF IndexEntries
<1>3. l2'.index = [l2.index EXCEPT ![h] = e] /\ l2'.size = l2.size
  BY <1>1 DEF CacheOK, L2OK
<1>4. e # NoEntry /\ l2.index[h] # NoEntry
  BY <1>2, NoEntryIsNone
<1> QED
  BY <1>2, <1>3, <1>4 DEF CacheOK, L2OK

LEMMA GetL2Agrees ==
  ASSUME CacheOK, AgreeOK, NEW t \in Callers, GetL2(t)
  PROVE  AgreeOK'
<1> DEFINE m == calls[t].key
           h == Hash[m]
           i == l2.index[h]
<1>1. /\ UNCHANGED <<config, l1, l3, history>> /\ m \in Keys /\ h \in Hashes
      /\ calls[t].pc = "get_l2" /\ calls[t].op = "get"
      /\ \/ i = NoEntry /\ UNCHANGED l2 /\ Turns(t, "get_l3", calls[t].entry)
         \/ /\ i # NoEntry /\ i \in IndexEntries
            /\ l2' = [l2 EXCEPT !.index[h].count = @ + 1]
            /\ Turns(t, "check_l1", FromL2(i, i.count + 1)) \/ Ends(t)
  BY GetL2Is
<1>2. Others(t) /\ calls'[t].key \in {m, NoEntry}
  BY <1>1 DEF Turns, Ends, Idle
<1>3. \A k : SameKey(k)
  BY <1>1, KeysSame
<1>4. ASSUME NEW k \in Keys PROVE Shrinks(k) /\ Fills(k)
  <2>1. Hash[k] \in Hashes
    BY DEF Hashes
  <2>2. CASE UNCHANGED l2
    BY <1>1, <2>2, CopiesSame
  <2>3. CASE i \in IndexEntries /\ l2' = [l2 EXCEPT !.index[h].count = @ + 1]
    <3>1. /\ l2'.index[Hash[k]] = NoEntry <=> l2.index[Hash[k]] = NoEntry
          /\ l2'.index[Hash[k]].ver = l2.index[Hash[k]].ver
      BY <1>1, <2>1, <2>3, HitStays
    <3>2. Shrinks(k)
      BY <1>1, <3>1 DEF Shrinks, CopyShrinks
    <3> QED
      BY <3>2, FillsIs
  <2> QED
    BY <1>1, <2>2, <2>3
<1>5. ASSUME NEW k \in Keys, k = m, CurrentOK(k) PROVE CurrentOK(k)'
  <2>1. /\ KeyFine(l1.map[k], l2.index[Hash[k]], l3[k], history.last[k],
                   config.write_through, history.stored)
        /\ CallFine(calls[t], l1.map[k], l2.index[Hash[k]], l3[k], history.last[k])
    BY <1>1, <1>5, GetKnows
  <2>2. CASE i = NoEntry /\ UNCHANGED l2 /\ Turns(t, "get_l3", calls[t].entry)
    <3>1. CallFine(calls'[t], l1'.map[k], l2'.index[Hash[k]], l3[k], history.last[k])
      BY <1>1, <1>5, <2>1, <2>2 DEF CallFine, KeyFine, Turns, Carrying, Filling
    <3>2. calls'[t].op = "get"
      BY <1>1, <2>2 DEF Turns
    <3> QED
      BY <1>1, <1>2, <1>3, <1>4, <1>5, <3>1, <3>2, GetStep DEF CacheOK
  <2>3. CASE i # NoEntry /\ i \in IndexEntries /\ Turns(t, "check_l1", FromL2(i, i.count + 1))
    <3>1. FromL2(i, i.count + 1).ver = history.last[k]
      BY <1>5, <2>1, <2>3, FromL2Is DEF KeyFine
    <3>2. CallFine(calls'[t], l1'.map[k], l2'.index[Hash[k]], l3[k], history.last[k])
      BY <2>3, <3>1 DEF CallFine, Turns
    <3>3. calls'[t].op = "get"
      BY <1>1, <2>3 DEF Turns
    <3> QED
      BY <1>1, <1>2, <1>3, <1>4, <1>5, <3>2, <3>3, GetStep DEF CacheOK
  <2>4. CASE Ends(t)
    BY <1>1, <1>2, <1>3, <1>4, <1>5, <2>4, GetStep DEF CacheOK, Ends
  <2> QED
    BY <1>1, <2>2, <2>3, <2>4
<1> QED
  BY <1>1, <1>2, <1>3, <1>4, <1>5, AgreeStep

LEMMA GetL3Agrees ==
  ASSUME CacheOK, AgreeOK, NEW t \in Callers, GetL3(t)
  PROVE  AgreeOK'
<1> DEFINE m == calls[t].key
           o == l3[m]
<1>1. /\ UNCHANGED <<config, l1, l2, l3, history>> /\ m \in Keys
      /\ calls[t].pc = "get_l3" /\ calls[t].op = "get"
      /\ \/ Ends(t)
         \/ /\ o # NoEntry /\ o \in StoredObjects
            /\ Turns(t, "check_l1", Took(o)) \/ Turns(t, "check_l2", Took(o))
  BY GetL3Is
<1>2. Others(t) /\ calls'[t].key \in {m, NoEntry}
  BY <1>1 DEF Turns, Ends, Idle
<1>3. \A k : SameKey(k) /\ Shrinks(k) /\ Fills(k)
  BY <1>1, KeysSame, CopiesSame
<1>4. ASSUME NEW k \in Keys, k = m, CurrentOK(k) PROVE CurrentOK(k)'
  <2>1. /\ KeyFine(l1.map[k], l2.index[Hash[k]], l3[k], history.last[k],
                   config.write_through, history.stored)
        /\ CallFine(calls[t], l1.map[k], l2.index[Hash[k]], l3[k], history.last[k])
    BY <1>1, <1>4, GetKnows
  <2>2. CASE Ends(t)
    BY <1>1, <1>2, <1>3, <1>4, <2>2, GetStep DEF CacheOK, Ends
  <2>3. CASE /\ o # NoEntry /\ o \in StoredObjects
             /\ Turns(t, "check_l1", Took(o)) \/ Turns(t, "check_l2", Took(o))
    <3>1. o.ver \in Versions /\ o.size \in Sizes
      BY <2>3 DEF StoredObjects
    <3>2. o.ver = history.last[k]
      BY <1>1, <1>4, <2>1, <2>3, <3>1, NoEntryIsNone DEF CallFine, KeyFine, Only3
    <3>3. Took(o).ver = o.ver
      BY <3>1, EntryIs DEF Took
    <3>4. calls'[t].op = "get" /\ calls'[t].entry.ver = history.last[k]
          /\ calls'[t].pc \in {"check_l1", "check_l2"}
      BY <1>1, <2>3, <3>2, <3>3 DEF Turns
    <3>5. CallFine(calls'[t], l1'.map[k], l2'.index[Hash[k]], l3[k], history.last[k])
      BY <3>4 DEF CallFine
    <3> QED
      BY <1>1, <1>2, <1>3, <1>4, <3>4, <3>5, GetStep DEF CacheOK
  <2> QED
    BY <1>1, <2>2, <2>3
<1> QED
  BY <1>1, <1>2, <1>3, <1>4, AgreeStep

\* A call begins on a key: it overlaps no other, unless all of them are gets.
BeginsOn(t, k, op, p, e) ==
  /\ op \in {"get", "put", "delete"} /\ p \in {"get_l1", "find_l1", "put_l3", "check_l1", "check_l2"}
  /\ p = "get_l1" <=> op = "get"
  /\ p = "find_l1" <=> op = "delete"
  /\ config.write_through => p \notin {"check_l1", "check_l2"}
  /\ Starts(t, p, op, k, e) /\ UNCHANGED <<config, l1, l2, l3>>
  /\ history'.last = history.last /\ history'.stored = history.stored
  /\ history'.excused = IF Overlaps(k, op) THEN history.excused \union {k} ELSE history.excused

LEMMA BeginAgrees ==
  ASSUME CacheOK, AgreeOK, NEW t \in Callers, NEW k \in Keys, NEW op, NEW p, NEW e,
         BeginsOn(t, k, op, p, e)
  PROVE  AgreeOK'
<1>0. /\ op \in {"get", "put", "delete"} /\ p \in {"get_l1", "find_l1", "put_l3", "check_l1", "check_l2"}
      /\ p = "get_l1" <=> op = "get"
      /\ p = "find_l1" <=> op = "delete"
      /\ config.write_through => p \notin {"check_l1", "check_l2"}
      /\ Starts(t, p, op, k, e) /\ UNCHANGED <<config, l1, l2, l3>>
      /\ history'.last = history.last /\ history'.stored = history.stored
      /\ history'.excused = IF Overlaps(k, op) THEN history.excused \union {k} ELSE history.excused
  BY DEF BeginsOn
<1>1. SUFFICES ASSUME NEW m \in Keys, m \notin history'.excused PROVE CurrentOK(m)'
  BY DEF AgreeOK
<1>2. CurrentOK(m)
  BY <1>0, <1>1 DEF AgreeOK
<1>3. SameKey(m) /\ Shrinks(m) /\ Fills(m) /\ Others(t) /\ calls[t].key # m /\ calls'[t].key = k
      /\ calls'[t].pc = p /\ calls'[t].op = op
  BY <1>0, CopiesSame, NoEntryIsNone DEF SameKey, Starts, Idle
<1>4. CASE m # k
  BY <1>2, <1>3, <1>4, Elsewhere
<1>5. CASE m = k
  <2>1. ~Overlaps(k, op)
    BY <1>0, <1>1, <1>5
  <2>2. \A u \in Callers : calls[u].key = k => op = "get" /\ calls[u].op = "get"
    BY <1>0, <2>1 DEF Overlaps, Busy
  <2>3. \A u \in Callers : calls[u].key = m => ~Putting(calls[u])
    BY <1>5, <2>2 DEF Putting
  <2>4. KeyFine(l1.map[m], l2.index[Hash[m]], l3[m], history.last[m],
                config.write_through, history.stored)
    BY <1>2, <2>3, NoPutIsFine
  <2>5. CASE op = "get"
    <3>1. AllGet(m)
      BY <1>5, <2>2 DEF AllGet
    <3>2. CallFine(calls'[t], l1'.map[m], l2'.index[Hash[m]], l3[m], history.last[m])
      BY <1>0, <1>3, <2>5 DEF CallFine, Carrying, Filling
    <3> QED
      BY <1>0, <1>2, <1>3, <2>5, <3>1, <3>2, AsGet DEF CacheOK
  <2>6. CASE op # "get"
    <3>1. \A u \in Callers : u # t => calls[u].key # m
      BY <1>5, <2>2, <2>6
    <3>2. CASE p \in {"check_l1", "check_l2"}
      <4>1. ~config'.write_through
        BY <1>0, <3>2
      <4>2. calls'[t].key = m /\ Putting(calls'[t])
        BY <1>0, <1>3, <1>5, <2>6, <3>2 DEF Putting, Carrying
      <4> QED
        BY <1>3, <3>1, <4>1, <4>2, Alone
    <3>3. CASE p \notin {"check_l1", "check_l2"}
      <4>1. ~Putting(calls'[t])
        BY <1>0, <1>3, <3>3 DEF Putting, Carrying, Filling
      <4>2. CallFine(calls'[t], l1'.map[m], l2'.index[Hash[m]], l3'[m], history'.last[m])
        BY <1>0, <1>3, <3>3, <2>6 DEF CallFine, Carrying, Filling
      <4>3. KeyFine(l1'.map[m], l2'.index[Hash[m]], l3'[m], history'.last[m],
                    config'.write_through, history'.stored)
        BY <1>0, <2>4
      <4> QED
        BY <1>3, <3>1, <4>1, <4>2, <4>3, Alone
    <3> QED
      BY <3>2, <3>3
  <2> QED
    BY <2>5, <2>6
<1> QED
  BY <1>4, <1>5

LEMMA BeginsAgree ==
  ASSUME CacheOK, AgreeOK, NEW t \in Callers, BeginGet(t) \/ BeginDelete(t) \/ BeginPut(t)
  PROVE  AgreeOK'
<1>1. CASE BeginGet(t)
  <2>1. PICK k \in Keys : Begin(t, "get", k) /\ Starts(t, "get_l1", "get", k, NoEntry)
    BY <1>1, BeginGetIs
  <2>2. UNCHANGED <<config, l1, l2, l3>>
    BY <1>1, BeginGetIs
  <2>3. BeginsOn(t, k, "get", "get_l1", NoEntry)
    BY <2>1, <2>2, BeginHistory DEF BeginsOn
  <2> QED
    BY <2>3, BeginAgrees
<1>2. CASE BeginDelete(t)
  <2>1. PICK k \in Keys : Begin(t, "delete", k) /\ Starts(t, "find_l1", "delete", k, NoEntry)
    BY <1>2, BeginDeleteIs
  <2>2. UNCHANGED <<config, l1, l2, l3>>
    BY <1>2, BeginDeleteIs
  <2>3. BeginsOn(t, k, "delete", "find_l1", NoEntry)
    BY <2>1, <2>2, BeginHistory DEF BeginsOn
  <2> QED
    BY <2>3, BeginAgrees
<1>3. CASE BeginPut(t)
  <2>1. PICK k \in Keys, e \in CachedEntries :
         /\ UNCHANGED <<config, l1, l2, l3>>
         /\ history' = Excuse([history EXCEPT !.next = @ + 1], {k}, Overlaps(k, "put"))
         /\ \/ config.write_through /\ Starts(t, "put_l3", "put", k, e)
            \/ ~config.write_through /\ Starts(t, "check_l1", "put", k, e)
            \/ ~config.write_through /\ Starts(t, "check_l2", "put", k, e)
    BY <1>3, BeginPutIs
  <2>2. /\ history'.last = history.last /\ history'.stored = history.stored
        /\ history'.excused = IF Overlaps(k, "put") THEN history.excused \union {k} ELSE history.excused
    BY <2>1 DEF Excuse, CacheOK, Histories
  <2>3. CASE config.write_through /\ Starts(t, "put_l3", "put", k, e)
    <3>1. BeginsOn(t, k, "put", "put_l3", e)
      BY <2>1, <2>2, <2>3 DEF BeginsOn
    <3> QED
      BY <3>1, BeginAgrees
  <2>4. CASE ~config.write_through /\ Starts(t, "check_l1", "put", k, e)
    <3>1. BeginsOn(t, k, "put", "check_l1", e)
      BY <2>1, <2>2, <2>4 DEF BeginsOn
    <3> QED
      BY <3>1, BeginAgrees
  <2>5. CASE ~config.write_through /\ Starts(t, "check_l2", "put", k, e)
    <3>1. BeginsOn(t, k, "put", "check_l2", e)
      BY <2>1, <2>2, <2>5 DEF BeginsOn
    <3> QED
      BY <3>1, BeginAgrees
  <2> QED
    BY <2>1, <2>3, <2>4, <2>5
<1> QED
  BY <1>1, <1>2, <1>3

LEMMA PutL3Agrees ==
  ASSUME CacheOK, VersionsOK, AgreeOK, NEW t \in Callers, PutL3(t)
  PROVE  AgreeOK'
<1> DEFINE m == calls[t].key
           e == calls[t].entry
           o == [ver |-> e.ver, size |-> e.size]
<1>1. /\ UNCHANGED <<config, l1, l2>> /\ m \in Keys
      /\ calls[t].pc = "put_l3" /\ calls[t].op = "put"
      /\ \/ Ends(t) /\ UNCHANGED <<l3, history>>
         \/ /\ l3' = [l3 EXCEPT ![m] = o] /\ o \in StoredObjects
            /\ history' = [history EXCEPT !.stored = @ \cup {e.ver}]
            /\ Turns(t, "check_l1", e) \/ Turns(t, "check_l2", e)
  BY PutL3Is
<1>2. Others(t) /\ calls'[t].key \in {m, NoEntry}
  BY <1>1 DEF Turns, Ends, Idle
<1>3. config.write_through
  BY <1>1 DEF VersionsOK
<1>4. history.excused \subseteq history'.excused
  BY <1>1 DEF CacheOK, Histories
<1>5. ASSUME NEW k \in Keys, k # m PROVE SameKey(k) /\ Shrinks(k)
  <2>1. l3'[k] = l3[k] /\ history'.last[k] = history.last[k]
    BY <1>1, <1>5 DEF CacheOK, Histories
  <2> QED
    BY <1>1, <1>3, <2>1, CopiesSame DEF SameKey
<1>6. ASSUME NEW k \in Keys, k = m, CurrentOK(k) PROVE CurrentOK(k)'
  <2>1. ~Putting(calls[t]) /\ calls[t].op # "get"
    BY <1>1 DEF Putting, Carrying, Filling
  <2>2. /\ KeyFine(l1.map[k], l2.index[Hash[k]], l3[k], history.last[k],
                   config.write_through, history.stored)
        /\ \A u \in Callers : u # t => calls[u].key # k
    BY <1>6, <2>1, AloneKnows
  <2>3. CASE Ends(t) /\ UNCHANGED <<l3, history>>
    <3>1. calls'[t].key # k
      BY <2>3, NoEntryIsNone DEF Ends, Idle
    <3>2. KeyFine(l1'.map[k], l2'.index[Hash[k]], l3'[k], history'.last[k],
                  config'.write_through, history'.stored)
      BY <1>1, <2>2, <2>3
    <3> QED
      BY <1>2, <2>2, <3>1, <3>2, Alone
  <2>4. CASE /\ l3' = [l3 EXCEPT ![m] = o] /\ o \in StoredObjects
             /\ Turns(t, "check_l1", e) \/ Turns(t, "check_l2", e)
    <3>1. calls'[t].key = k /\ Putting(calls'[t]) /\ calls'[t].entry = e
      BY <1>1, <1>6, <2>4 DEF Turns, Putting, Carrying
    <3>2. l3'[k] = o
      BY <1>6, <2>4 DEF CacheOK
    <3>3. l3'[k] # NoEntry /\ l3'[k].ver = calls'[t].entry.ver
      BY <2>4, <3>1, <3>2, NoEntryIsNone
    <3> QED
      BY <1>2, <2>2, <3>1, <3>3, Alone
  <2> QED
    BY <1>1, <2>3, <2>4
<1> QED
  BY <1>1, <1>2, <1>4, <1>5, <1>6, AgreeStep

\* A call goes on to put an entry into a tier: on its own key, and on those of the others.
Carries(t) ==
  /\ calls[t].pc \in Carrying /\ calls'[t].pc \in Carrying
  /\ Turns(t, calls'[t].pc, calls[t].entry) /\ UNCHANGED <<config, l3>>
  /\ history.excused \subseteq history'.excused
  /\ history'.last = history.last /\ history'.stored = history.stored
  /\ \A k \in Keys \ history'.excused : Shrinks(k)

LEMMA CarriesAgree ==
  ASSUME CacheOK, AgreeOK, NEW t \in Callers, Carries(t)
  PROVE  AgreeOK'
<1> DEFINE m == calls[t].key
<1>1. /\ Others(t) /\ calls'[t].key = m /\ calls'[t].op = calls[t].op /\ calls'[t].entry = calls[t].entry
      /\ calls[t].pc \in Carrying /\ calls'[t].pc \in Carrying /\ calls[t].op \in {"get", "put"}
  BY CallFacts DEF Carries, Turns, CacheOK, CacheCallOK
<1>2. /\ history.excused \subseteq history'.excused /\ \A k : SameKey(k)
      /\ \A k \in Keys \ history'.excused : Shrinks(k)
  BY DEF Carries, SameKey
<1>3. ASSUME NEW k \in Keys \ history'.excused, k = m, CurrentOK(k) PROVE CurrentOK(k)'
  <2>1. Fills(k) /\ SameKey(k)
    BY <1>2, <1>3, FillsIs
  <2>2. CASE calls[t].op = "get"
    <3>1. CallFine(calls[t], l1.map[k], l2.index[Hash[k]], l3[k], history.last[k])
      BY <1>3, <2>2, GetKnows
    <3>2. CallFine(calls'[t], l1'.map[k], l2'.index[Hash[k]], l3[k], history.last[k])
      BY <1>1, <3>1 DEF CallFine, Carrying, Filling
    <3> QED
      BY <1>1, <1>3, <2>1, <2>2, <3>2, GetStep DEF CacheOK
  <2>3. CASE calls[t].op = "put"
    <3>1. Putting(calls[t]) /\ Putting(calls'[t])
      BY <1>1, <2>3 DEF Putting
    <3>2. /\ config.write_through => l3[k] # NoEntry /\ l3[k].ver = calls[t].entry.ver
          /\ \A u \in Callers : u # t => calls[u].key # k
      BY <1>3, <3>1, PutKnows
    <3>3. config'.write_through => l3'[k] # NoEntry /\ l3'[k].ver = calls'[t].entry.ver
      BY <1>1, <2>1, <3>2 DEF SameKey
    <3> QED
      BY <1>1, <1>3, <3>1, <3>2, <3>3, Alone
  <2> QED
    BY <1>1, <2>2, <2>3
<1> QED
  BY <1>1, <1>2, <1>3, AgreeStep

LEMMA CrowdKeeps ==
  ASSUME CacheOK, NEW i \in Tiers, NEW b \in BOOLEAN, history' = Crowd(history, i, b)
  PROVE  /\ history'.next = history.next /\ history'.ops = history.ops /\ history'.gets = history.gets
         /\ history'.last = history.last /\ history'.stored = history.stored
         /\ history'.excused = history.excused /\ history'.drifted = history.drifted
         /\ history'.crossed = history.crossed
         /\ history'.crowded = IF b THEN history.crowded \union {i} ELSE history.crowded
<1>1. history \in Histories
  BY DEF CacheOK
<1> QED
  BY <1>1, CrowdIs

LEMMA EvictsL1Agree ==
  ASSUME CacheOK, AgreeOK, NEW t \in Callers, CheckL1(t) \/ EvictL1(t)
  PROVE  AgreeOK'
<1>1. CASE CheckL1(t)
  <2>1. /\ UNCHANGED <<config, l1, l2, l3>> /\ calls[t].pc = "check_l1"
        /\ Turns(t, "evict_l1", calls[t].entry) \/ Turns(t, "insert_l1", calls[t].entry)
        /\ history' = Crowd(history, "L1", \E u \in Callers : calls[u].pc \in {"evict_l1", "insert_l1"})
    BY <1>1, CheckL1Is
  <2>2. history'.excused = history.excused /\ history'.last = history.last /\ history'.stored = history.stored
    BY <2>1, CrowdKeeps DEF Tiers
  <2>3. \A k : Shrinks(k)
    BY <2>1, CopiesSame
  <2>4. Carries(t)
    BY <2>1, <2>2, <2>3 DEF Carries, Carrying, Turns
  <2> QED
    BY <2>4, CarriesAgree
<1>2. CASE EvictL1(t)
  <2>1. UNCHANGED <<config, l2, l3>> /\ calls[t].pc = "evict_l1"
    BY <1>2, EvictL1Is
  <2>2. CASE /\ Turns(t, "insert_l1", calls[t].entry) /\ UNCHANGED l1
             /\ history' = Crowd(history, "L1", should_continue_eviction /\ calls[t].left = 0)
    <3>1. history'.excused = history.excused /\ history'.last = history.last /\ history'.stored = history.stored
      BY <2>2, CrowdKeeps DEF Tiers
    <3>2. \A k : Shrinks(k)
      BY <2>1, <2>2, CopiesSame
    <3>3. Carries(t)
      BY <2>1, <2>2, <3>1, <3>2 DEF Carries, Carrying, Turns
    <3> QED
      BY <3>3, CarriesAgree
  <2>3. ASSUME NEW c, EvictsL1(t, c) PROVE AgreeOK'
    <3>1. Turns(t, "evict_l1", calls[t].entry) /\ c.key \in Keys
      BY <2>3 DEF EvictsL1, L1Candidates
    <3>2. CASE UNCHANGED <<l1, history>>
      <4>1. \A k : Shrinks(k)
        BY <2>1, <3>2, CopiesSame
      <4>2. Carries(t)
        BY <2>1, <3>1, <3>2, <4>1 DEF Carries, Carrying, Turns
      <4> QED
        BY <4>2, CarriesAgree
    <3>3. CASE ~UNCHANGED <<l1, history>>
      <4>1. /\ l1'.map = [l1.map EXCEPT ![c.key] = NoEntry]
            /\ history' = Drift(Excuse(history, {c.key}, OnlyInL1({c.key}) # {}),
                                "L1", ~RemovesItsSize(c.key, c.size))
        BY <2>3, <3>3 DEF EvictsL1
      <4>2. Removal({c.key}, OnlyInL1({c.key}) # {}, "L1", ~RemovesItsSize(c.key, c.size))
        BY <3>1, <4>1, L1Removal
      <4>3. /\ history.excused \subseteq history'.excused
            /\ history'.last = history.last /\ history'.stored = history.stored
            /\ OnlyInL1({c.key}) # {} => c.key \in history'.excused
        BY <4>2 DEF Removal
      <4>4. \A k \in Keys \ history'.excused : Shrinks(k)
        BY <2>1, <3>1, <4>1, <4>3, GoneFromL1
      <4>5. Carries(t)
        BY <2>1, <3>1, <4>3, <4>4 DEF Carries, Carrying, Turns
      <4> QED
        BY <4>5, CarriesAgree
    <3> QED
      BY <3>2, <3>3
  <2> QED
    BY <1>2, <2>2, <2>3, EvictL1Is
<1> QED
  BY <1>1, <1>2

\* What a put leaves when it returns.
LEMMA PutFine ==
  ASSUME NEW a, NEW b, NEW o, NEW ver, NEW wt, NEW stored, ver # NoEntry,
         a # NoEntry => a.ver = ver, b # NoEntry => b.ver = ver,
         wt => o # NoEntry /\ o.ver = ver, wt \/ ver \notin stored,
         wt \/ a # NoEntry \/ b # NoEntry
  PROVE  KeyFine(a, b, o, ver, wt, stored)
BY DEF KeyFine, Only3

\* An entry has gone to a tier, or the tier has refused it.
Fits(t, kept, tier) ==
  LET k == calls[t].key  e == calls[t].entry IN
  /\ Outcome(t, kept, tier) /\ Ends(t) /\ UNCHANGED <<config, l3>>
  /\ calls[t].pc \in Carrying
  /\ \A j \in Keys : j # k => l1'.map[j] = l1.map[j] /\ l2'.index[Hash[j]] = l2.index[Hash[j]]
  /\ kept \/ (l1'.map[k] = l1.map[k] /\ l2'.index[Hash[k]] = l2.index[Hash[k]])
  /\ kept => \/ /\ tier = "L1" /\ l1'.map[k] # NoEntry /\ l1'.map[k].ver = e.ver
                /\ l2'.index[Hash[k]] = l2.index[Hash[k]]
             \/ /\ tier = "L2" /\ l2'.index[Hash[k]] # NoEntry /\ l2'.index[Hash[k]].ver = e.ver
                /\ l1'.map[k] = l1.map[k]

LEMMA FitsAgree ==
  ASSUME CacheOK, VersionsOK, AgreeOK, NEW t \in Callers, NEW kept \in BOOLEAN, NEW tier,
         Fits(t, kept, tier)
  PROVE  AgreeOK'
<1> DEFINE m == calls[t].key
           e == calls[t].entry
<1>1. /\ Others(t) /\ calls'[t] = Idle /\ calls[t].pc \in Carrying /\ m \in Keys
      /\ calls[t].op \in {"get", "put"} /\ e \in CachedEntries /\ e.ver \in Versions
      /\ UNCHANGED <<config, l3>> /\ history'.stored = history.stored
  <2>1. /\ calls[t].pc \in Carrying /\ Ends(t) /\ UNCHANGED <<config, l3>>
        /\ history'.stored = history.stored
    BY DEF Fits, Outcome
  <2>2. m \in Keys /\ e \in CachedEntries /\ calls[t].op \in {"get", "put"}
    BY <2>1, CallFacts, CallHas DEF CacheOK, CacheCallOK, Carrying, Filling, Clearing
  <2> QED
    BY <2>1, <2>2 DEF Ends, CachedEntries
<1>2. calls'[t].key \in {m, NoEntry} /\ calls'[t].key # m
  BY <1>1, NoEntryIsNone DEF Idle
<1>3. /\ history'.last = IF calls[t].op = "put" THEN [history.last EXCEPT ![m] = e.ver] ELSE history.last
      /\ history'.excused = IF calls[t].op = "put" /\ Shadows(m, kept, tier) THEN history.excused \union {m}
                            ELSE history.excused
  BY DEF Fits, Outcome
<1>4. ASSUME NEW k \in Keys, k # m PROVE SameKey(k) /\ Shrinks(k)
  <2>1. l1'.map[k] = l1.map[k] /\ l2'.index[Hash[k]] = l2.index[Hash[k]]
    BY <1>4 DEF Fits
  <2>2. history'.last[k] = history.last[k]
    BY <1>3, <1>4 DEF CacheOK, Histories
  <2> QED
    BY <1>1, <2>1, <2>2, CopiesSame DEF SameKey
<1>5. /\ kept \/ (l1'.map[m] = l1.map[m] /\ l2'.index[Hash[m]] = l2.index[Hash[m]])
      /\ kept => \/ /\ tier = "L1" /\ l1'.map[m] # NoEntry /\ l1'.map[m].ver = e.ver
                    /\ l2'.index[Hash[m]] = l2.index[Hash[m]]
                 \/ /\ tier = "L2" /\ l2'.index[Hash[m]] # NoEntry /\ l2'.index[Hash[m]].ver = e.ver
                    /\ l1'.map[m] = l1.map[m]
  BY DEF Fits
<1>6. ASSUME NEW k \in Keys \ history'.excused, k = m, CurrentOK(k) PROVE CurrentOK(k)'
  <2>1. CASE calls[t].op = "get"
    <3>1. SameKey(k)
      BY <1>1, <1>3, <2>1 DEF SameKey
    <3>2. e.ver = history.last[k]
      BY <1>1, <1>6, <2>1, GetKnows DEF CallFine
    <3>3. Fills(k)
      BY <1>5, <1>6, <3>2 DEF Fills, CopyFills
    <3> QED
      BY <1>1, <1>6, <2>1, <3>1, <3>3, GetStep DEF CacheOK
  <2>2. CASE calls[t].op = "put"
    <3>1. Putting(calls[t])
      BY <1>1, <2>2 DEF Putting
    <3>2. /\ config.write_through => l3[k] # NoEntry /\ l3[k].ver = e.ver
          /\ \A u \in Callers : u # t => calls[u].key # k
      BY <1>6, <3>1, PutKnows
    <3>3. ~Shadows(m, kept, tier)
      BY <1>3, <1>6, <2>2
    <3>4. e.ver # NoEntry
      BY <1>1, NoEntryIsNone
    <3>5. config.write_through \/ e.ver \notin history.stored
      BY <2>2, CacheNumbers DEF VersionsOK
    <3>6. history'.last[k] = e.ver
      BY <1>3, <1>6, <2>2 DEF CacheOK, Histories
    <3>7. /\ l1'.map[k] # NoEntry => l1'.map[k].ver = e.ver
          /\ l2'.index[Hash[k]] # NoEntry => l2'.index[Hash[k]].ver = e.ver
          /\ config.write_through \/ l1'.map[k] # NoEntry \/ l2'.index[Hash[k]] # NoEntry
      BY <1>5, <1>6, <3>3 DEF Shadows
    <3>8. KeyFine(l1'.map[k], l2'.index[Hash[k]], l3[k], e.ver, config.write_through, history.stored)
      BY <3>2, <3>4, <3>5, <3>7, PutFine
    <3>9. KeyFine(l1'.map[k], l2'.index[Hash[k]], l3'[k], history'.last[k],
                  config'.write_through, history'.stored)
      BY <1>1, <3>6, <3>8
    <3> QED
      BY <1>1, <1>2, <1>6, <3>2, <3>9, Alone
  <2> QED
    BY <1>1, <2>1, <2>2
<1>7. history.excused \subseteq history'.excused
  BY <1>3
<1> QED
  BY <1>1, <1>2, <1>4, <1>6, <1>7, AgreeStep

LEMMA InsertL1Agrees ==
  ASSUME CacheOK, VersionsOK, AgreeOK, NEW t \in Callers, InsertL1(t)
  PROVE  AgreeOK'
<1> DEFINE k == calls[t].key
           e == calls[t].entry
<1>1. /\ UNCHANGED <<config, l2, l3>> /\ calls[t].pc = "insert_l1" /\ k \in Keys /\ e # NoEntry /\ Ends(t)
      /\ \/ Outcome(t, TRUE, "L1") /\ l1'.map = [l1.map EXCEPT ![k] = e]
         \/ Outcome(t, FALSE, "L1") /\ UNCHANGED l1
  BY InsertL1Is
<1>2. calls[t].pc \in Carrying
  BY <1>1 DEF Carrying
<1>3. CASE Outcome(t, TRUE, "L1") /\ l1'.map = [l1.map EXCEPT ![k] = e]
  <2>1. \A j \in Keys : l1'.map[j] = IF j = k THEN e ELSE l1.map[j]
    BY <1>3 DEF CacheOK, L1OK
  <2>2. Fits(t, TRUE, "L1")
    BY <1>1, <1>2, <1>3, <2>1 DEF Fits
  <2> QED
    BY <2>2, FitsAgree
<1>4. CASE Outcome(t, FALSE, "L1") /\ UNCHANGED l1
  <2>1. Fits(t, FALSE, "L1")
    BY <1>1, <1>2, <1>4 DEF Fits
  <2> QED
    BY <2>1, FitsAgree
<1> QED
  BY <1>1, <1>3, <1>4

LEMMA CheckL2Agrees ==
  ASSUME CacheOK, VersionsOK, AgreeOK, NEW t \in Callers, CheckL2(t)
  PROVE  AgreeOK'
<1>1. /\ UNCHANGED <<config, l1, l2, l3>> /\ calls[t].pc = "check_l2"
      /\ \/ Ends(t) /\ Outcome(t, FALSE, "L2")
         \/ /\ Turns(t, "evict_l2", calls[t].entry) \/ Turns(t, "alloc_l2", calls[t].entry)
            /\ history' = Crowd(history, "L2", FillingL2)
  BY CheckL2Is
<1>2. calls[t].pc \in Carrying
  BY <1>1 DEF Carrying
<1>3. CASE Ends(t) /\ Outcome(t, FALSE, "L2")
  <2>1. Fits(t, FALSE, "L2")
    BY <1>1, <1>2, <1>3 DEF Fits
  <2> QED
    BY <2>1, FitsAgree
<1>4. CASE /\ Turns(t, "evict_l2", calls[t].entry) \/ Turns(t, "alloc_l2", calls[t].entry)
           /\ history' = Crowd(history, "L2", FillingL2)
  <2>1. FillingL2 \in BOOLEAN /\ "L2" \in Tiers
    BY DEF FillingL2, Tiers
  <2>2. history'.excused = history.excused /\ history'.last = history.last /\ history'.stored = history.stored
    BY <1>4, <2>1, CrowdKeeps
  <2>3. \A k : Shrinks(k)
    BY <1>1, CopiesSame
  <2>4. Carries(t)
    BY <1>1, <1>2, <1>4, <2>2, <2>3 DEF Carries, Carrying, Filling, Turns
  <2> QED
    BY <2>4, CarriesAgree
<1> QED
  BY <1>1, <1>3, <1>4

LEMMA EvictL2Agrees ==
  ASSUME CacheOK, AgreeOK, NEW t \in Callers, EvictL2(t)
  PROVE  AgreeOK'
<1>1. /\ UNCHANGED <<config, l1, l3>> /\ calls[t].pc = "evict_l2"
      /\ Turns(t, "alloc_l2", calls[t].entry) /\ \E gone : EvictsL2(t, gone)
  BY EvictL2Is
<1>2. PICK gone : EvictsL2(t, gone)
  BY <1>1
<1>3. /\ l2'.index = Without1(l2.index, gone)
      /\ history' = Drift(Excuse(history, OnlyInL2(Hashed(gone)), TRUE), "L2", Stale(gone) # {})
  BY <1>2 DEF EvictsL2
<1>4. Removal(OnlyInL2(Hashed(gone)), TRUE, "L2", Stale(gone) # {})
  <2>1. (Stale(gone) # {}) \in BOOLEAN
    OBVIOUS
  <2> QED
    BY <1>3, <2>1, L2Removal
<1>5. /\ history.excused \subseteq history'.excused
      /\ history'.last = history.last /\ history'.stored = history.stored
      /\ OnlyInL2(Hashed(gone)) \subseteq history'.excused
  BY <1>4 DEF Removal
<1>6. \A h \in Hashes : l2'.index[h] = IF h \in Hashed(gone) THEN NoEntry ELSE l2.index[h]
  BY <1>3, L2Domain DEF Without1, CacheOK
<1>7. \A k \in Keys \ history'.excused : Shrinks(k)
  BY <1>1, <1>5, <1>6, GoneFromL2
<1>8. Carries(t)
  BY <1>1, <1>5, <1>7 DEF Carries, Carrying, Filling, Turns
<1> QED
  BY <1>8, CarriesAgree

LEMMA AllocL2Agrees ==
  ASSUME CacheOK, AgreeOK, NEW t \in Callers, AllocL2(t)
  PROVE  AgreeOK'
<1>1. /\ UNCHANGED <<config, l1, l3>> /\ calls[t].pc = "alloc_l2" /\ l2'.index = l2.index
      /\ Turns(t, "insert_l2", calls[t].entry)
      /\ history' = [history EXCEPT !.crossed = @ \/ \E u \in Callers : At(u, "insert_l2")]
  BY AllocL2Is
<1>2. history'.excused = history.excused /\ history'.last = history.last /\ history'.stored = history.stored
  BY <1>1 DEF CacheOK, Histories
<1>3. \A k : Shrinks(k)
  BY <1>1, CopiesSame
<1>4. Carries(t)
  BY <1>1, <1>2, <1>3 DEF Carries, Carrying, Filling, Turns
<1> QED
  BY <1>4, CarriesAgree

LEMMA InsertL2Agrees ==
  ASSUME CacheOK, VersionsOK, AgreeOK, NEW t \in Callers, InsertL2(t)
  PROVE  AgreeOK'
<1> DEFINE k == calls[t].key
           e == calls[t].entry
           i == IndexEntry(e, l2.file, calls[t].left)
<1>1. /\ UNCHANGED <<config, l1, l3>> /\ calls[t].pc = "insert_l2" /\ k \in Keys /\ Ends(t)
      /\ Outcome(t, TRUE, "L2") /\ InsertsL2(t) /\ i \in IndexEntries
  BY InsertL2Is
<1>2. l2'.index = [l2.index EXCEPT ![Hash[k]] = i]
  BY <1>1 DEF InsertsL2
<1>3. i # NoEntry /\ i.ver = e.ver
  BY <1>1, NoEntryIsNone DEF IndexEntry
<1>4. \A j \in Keys : Hash[j] \in Hashes /\ (Hash[j] = Hash[k] => j = k)
  BY <1>1, CacheAssumption DEF Hashes
<1>5. \A j \in Keys : l2'.index[Hash[j]] = IF j = k THEN i ELSE l2.index[Hash[j]]
  BY <1>2, <1>4 DEF CacheOK, L2OK
<1>6. calls[t].pc \in Carrying
  BY <1>1 DEF Carrying, Filling
<1>7. Fits(t, TRUE, "L2")
  BY <1>1, <1>3, <1>5, <1>6 DEF Fits
<1> QED
  BY <1>7, FitsAgree

\* A step of a delete.
LEMMA DeleteStep ==
  ASSUME NEW k \in Keys, NEW t \in Callers, CurrentOK(k), calls[t].key = k, calls[t].op = "delete",
         SameKey(k), Shrinks(k), Others(t), calls'[t].key = k, calls'[t].op = "delete",
         calls'[t].pc \notin Carrying, calls'[t].pc \notin {"get_l2", "get_l3"},
         calls'[t].pc \in {"delete_l2", "delete_l3"} => l1'.map[k] = NoEntry,
         calls'[t].pc = "delete_l3" => l2'.index[Hash[k]] = NoEntry
  PROVE  CurrentOK(k)'
<1>1. /\ KeyFine(l1.map[k], l2.index[Hash[k]], l3[k], history.last[k],
                 config.write_through, history.stored)
      /\ \A u \in Callers : u # t => calls[u].key # k
  BY AloneKnows DEF Putting
<1>2. CopyFills(l1.map[k], l1'.map[k], l3[k], history.last[k])
      /\ CopyFills(l2.index[Hash[k]], l2'.index[Hash[k]], l3[k], history.last[k])
  BY FillsIs DEF Fills
<1>3. PICK a, b, x, y, o, last, wt, stored, new :
        /\ a = l1.map[k] /\ b = l2.index[Hash[k]] /\ x = l1'.map[k] /\ y = l2'.index[Hash[k]]
        /\ o = l3[k] /\ last = history.last[k]
        /\ wt = config.write_through /\ stored = history.stored /\ new = history'.stored
  OBVIOUS
<1>4. wt \/ new = stored
  BY <1>3, Zenon DEF SameKey
<1>10. CopyFills(a, x, o, last) /\ CopyFills(b, y, o, last) /\ KeyFine(a, b, o, last, wt, stored)
  BY <1>1, <1>2, <1>3, Zenon
<1>5. KeyFine(x, y, o, last, wt, new)
  BY <1>4, <1>10, KeyStays, Zenon
<1>6. l3'[k] = o /\ history'.last[k] = last /\ config' = config /\ config'.write_through = wt
  BY <1>3 DEF SameKey
<1>7. KeyFine(l1'.map[k], l2'.index[Hash[k]], l3'[k], history'.last[k],
                    config'.write_through, history'.stored)
  BY <1>3, <1>5, <1>6
<1>8. ~Putting(calls'[t])
  BY DEF Putting
<1>9. CallFine(calls'[t], l1'.map[k], l2'.index[Hash[k]], l3'[k], history'.last[k])
  BY DEF CallFine
<1> QED
  BY <1>1, <1>7, <1>8, <1>9, Alone

LEMMA FindL1Agrees ==
  ASSUME CacheOK, AgreeOK, NEW t \in Callers, FindL1(t)
  PROVE  AgreeOK'
<1> DEFINE m == calls[t].key
<1>1. /\ UNCHANGED <<config, l1, l2, l3, history>> /\ m \in Keys
      /\ calls[t].pc = "find_l1" /\ calls[t].op = "delete"
      /\ \/ l1.map[m] = NoEntry /\ Turns(t, "delete_l2", l1.map[m])
         \/ l1.map[m] # NoEntry /\ Turns(t, "delete_l1", l1.map[m])
  BY FindL1Is
<1>2. Others(t) /\ calls'[t].key = m /\ calls'[t].op = "delete"
      /\ calls'[t].pc \in {"delete_l1", "delete_l2"}
      /\ (calls'[t].pc = "delete_l2" => l1'.map[m] = NoEntry)
  BY <1>1 DEF Turns
<1>3. \A k : SameKey(k) /\ Shrinks(k)
  BY <1>1, KeysSame, CopiesSame
<1>4. ASSUME NEW k \in Keys, k = m, CurrentOK(k) PROVE CurrentOK(k)'
  <2>1. calls'[t].pc \notin Carrying /\ calls'[t].pc \notin {"get_l2", "get_l3"}
        /\ calls'[t].pc # "delete_l3"
    BY <1>2 DEF Carrying, Filling
  <2> QED
    BY <1>1, <1>2, <1>3, <1>4, <2>1, DeleteStep
<1> QED
  BY <1>1, <1>2, <1>3, <1>4, AgreeStep

LEMMA DeleteL1Agrees ==
  ASSUME CacheOK, AgreeOK, NEW t \in Callers, DeleteL1(t)
  PROVE  AgreeOK'
<1> DEFINE m == calls[t].key
           s == calls[t].entry.size
<1>1. /\ UNCHANGED <<config, l2, l3>> /\ m \in Keys
      /\ calls[t].pc = "delete_l1" /\ calls[t].op = "delete" /\ Turns(t, "delete_l2", NoEntry)
      /\ \/ l1.map[m] = NoEntry /\ UNCHANGED <<l1, history>>
         \/ /\ l1'.map = [l1.map EXCEPT ![m] = NoEntry]
            /\ history' = Drift(Excuse(history, {m}, OnlyInL1({m}) # {}), "L1", ~RemovesItsSize(m, s))
  BY DeleteL1Is
<1>2. Others(t) /\ calls'[t].key = m /\ calls'[t].op = "delete" /\ calls'[t].pc = "delete_l2"
  BY <1>1 DEF Turns
<1>3. calls'[t].pc \notin Carrying /\ calls'[t].pc \notin {"get_l2", "get_l3"}
        /\ calls'[t].pc # "delete_l3"
  BY <1>2 DEF Carrying, Filling
<1>4. CASE l1.map[m] = NoEntry /\ UNCHANGED <<l1, history>>
  <2>1. \A k : SameKey(k) /\ Shrinks(k)
    BY <1>1, <1>4, KeysSame, CopiesSame
  <2>2. ASSUME NEW k \in Keys, k = m, CurrentOK(k) PROVE CurrentOK(k)'
    BY <1>1, <1>2, <1>3, <1>4, <2>1, <2>2, DeleteStep
  <2> QED
    BY <1>1, <1>2, <1>4, <2>1, <2>2, AgreeStep
<1>5. CASE /\ l1'.map = [l1.map EXCEPT ![m] = NoEntry]
           /\ history' = Drift(Excuse(history, {m}, OnlyInL1({m}) # {}), "L1", ~RemovesItsSize(m, s))
  <2>1. Removal({m}, OnlyInL1({m}) # {}, "L1", ~RemovesItsSize(m, s))
    BY <1>1, <1>5, L1Removal
  <2>2. /\ history.excused \subseteq history'.excused /\ (OnlyInL1({m}) # {} => m \in history'.excused)
        /\ \A k : SameKey(k)
    <3>1. (OnlyInL1({m}) # {}) \in BOOLEAN
      OBVIOUS
    <3> QED
      BY <1>1, <2>1, <3>1, RemovalKeeps
  <2>3. \A k \in Keys \ history'.excused : Shrinks(k)
    BY <1>1, <1>5, <2>2, GoneFromL1
  <2>4. l1'.map[m] = NoEntry
    BY <1>1, <1>5 DEF CacheOK, L1OK
  <2>5. ASSUME NEW k \in Keys \ history'.excused, k = m, CurrentOK(k) PROVE CurrentOK(k)'
    BY <1>1, <1>2, <1>3, <2>2, <2>3, <2>4, <2>5, DeleteStep
  <2> QED
    BY <1>1, <1>2, <2>2, <2>3, <2>5, AgreeStep
<1> QED
  BY <1>1, <1>4, <1>5

LEMMA DeleteL2Agrees ==
  ASSUME CacheOK, AgreeOK, NEW t \in Callers, DeleteL2(t)
  PROVE  AgreeOK'
<1> DEFINE m == calls[t].key
           h == Hash[m]
<1>1. /\ UNCHANGED <<config, l1, l3>> /\ m \in Keys /\ h \in Hashes
      /\ calls[t].pc = "delete_l2" /\ calls[t].op = "delete"
      /\ l2'.index = [l2.index EXCEPT ![h] = NoEntry]
      /\ history' = Excuse(history, OnlyInL2({h}), TRUE)
      /\ Turns(t, "delete_l3", calls[t].entry)
  BY DeleteL2Is
<1>2. Others(t) /\ calls'[t].key = m /\ calls'[t].op = "delete" /\ calls'[t].pc = "delete_l3"
  BY <1>1 DEF Turns
<1>3. calls'[t].pc \notin Carrying /\ calls'[t].pc \notin {"get_l2", "get_l3"}
  BY <1>2 DEF Carrying, Filling
<1>4. history'.excused = history.excused \union OnlyInL2({h})
      /\ history'.last = history.last /\ history'.stored = history.stored
  BY <1>1, OnlyCopiesAre, ExcuseIs DEF CacheOK
<1>5. \A k : SameKey(k)
  BY <1>1, <1>4 DEF SameKey
<1>6. \A g \in Hashes : l2'.index[g] = IF g \in {h} THEN NoEntry ELSE l2.index[g]
  BY <1>1 DEF CacheOK, L2OK
<1>7. \A k \in Keys \ history'.excused : Shrinks(k)
  BY <1>1, <1>4, <1>6, GoneFromL2
<1>8. ASSUME NEW k \in Keys \ history'.excused, k = m, CurrentOK(k) PROVE CurrentOK(k)'
  <2>1. l1.map[k] = NoEntry
    <3>1. ~Putting(calls[t])
      BY <1>1 DEF Putting
    <3> QED
      BY <1>1, <1>8, <3>1, AloneKnows DEF CallFine
  <2>2. l1'.map[k] = NoEntry /\ l2'.index[Hash[k]] = NoEntry
    BY <1>1, <1>6, <1>8, <2>1
  <2> QED
    BY <1>1, <1>2, <1>3, <1>5, <1>7, <1>8, <2>2, DeleteStep
<1> QED
  BY <1>1, <1>2, <1>4, <1>5, <1>7, <1>8, AgreeStep

LEMMA DeleteL3Agrees ==
  ASSUME CacheOK, AgreeOK, NEW t \in Callers, DeleteL3(t)
  PROVE  AgreeOK'
<1> DEFINE m == calls[t].key
<1>1. /\ UNCHANGED <<config, l1, l2>> /\ m \in Keys
      /\ calls[t].pc = "delete_l3" /\ calls[t].op = "delete" /\ Ends(t)
      /\ \/ UNCHANGED <<l3, history>>
         \/ l3' = [l3 EXCEPT ![m] = NoEntry] /\ history' = [history EXCEPT !.last[m] = NoEntry]
  BY DeleteL3Is
<1>2. Others(t) /\ calls'[t].key \in {m, NoEntry} /\ calls'[t].key # m
  BY <1>1, NoEntryIsNone DEF Ends, Idle
<1>3. history'.excused = history.excused /\ history'.stored = history.stored
  BY <1>1 DEF CacheOK, Histories
<1>4. ASSUME NEW k \in Keys, k # m PROVE SameKey(k) /\ Shrinks(k)
  <2>1. l3'[k] = l3[k] /\ history'.last[k] = history.last[k]
    BY <1>1, <1>4 DEF CacheOK, Histories
  <2> QED
    BY <1>1, <1>3, <2>1, CopiesSame DEF SameKey
<1>5. ASSUME NEW k \in Keys, k = m, CurrentOK(k) PROVE CurrentOK(k)'
  <2>1. /\ KeyFine(l1.map[k], l2.index[Hash[k]], l3[k], history.last[k],
                   config.write_through, history.stored)
        /\ CallFine(calls[t], l1.map[k], l2.index[Hash[k]], l3[k], history.last[k])
        /\ \A u \in Callers : u # t => calls[u].key # k
    <3>1. ~Putting(calls[t])
      BY <1>1 DEF Putting
    <3> QED
      BY <1>1, <1>5, <3>1, AloneKnows
  <2>2. l1'.map[k] = NoEntry /\ l2'.index[Hash[k]] = NoEntry
    BY <1>1, <2>1 DEF CallFine
  <2>3. KeyFine(l1'.map[k], l2'.index[Hash[k]], l3'[k], history'.last[k],
                config'.write_through, history'.stored)
    <3>1. CASE UNCHANGED <<l3, history>>
      BY <1>1, <2>1, <3>1
    <3>2. CASE l3' = [l3 EXCEPT ![m] = NoEntry] /\ history' = [history EXCEPT !.last[m] = NoEntry]
      <4>1. l3'[k] = NoEntry /\ history'.last[k] = NoEntry
        BY <1>5, <3>2 DEF CacheOK, Histories
      <4> QED
        BY <2>2, <4>1 DEF KeyFine
    <3> QED
      BY <1>1, <3>1, <3>2
  <2> QED
    BY <1>2, <1>5, <2>1, <2>3, Alone
<1> QED
  BY <1>1, <1>2, <1>3, <1>4, <1>5, AgreeStep

\* A step of clear, which is about no key.
LEMMA ClearStep ==
  ASSUME AgreeOK, NEW t \in Callers, Others(t), history.excused \subseteq history'.excused,
         calls[t].key = NoEntry, calls'[t].key = NoEntry, UNCHANGED <<config, l3>>,
         history'.last = history.last, history'.stored = history.stored,
         \A k \in Keys \ history'.excused : Shrinks(k)
  PROVE  AgreeOK'
<1>1. \A k : SameKey(k)
  BY DEF SameKey
<1>2. \A k \in Keys : k # NoEntry
  BY NoEntryIsNone
<1> QED
  BY <1>1, <1>2, AgreeStep

LEMMA ClearsAgree ==
  ASSUME CacheOK, AgreeOK, NEW t \in Callers, BeginClear(t) \/ ZeroL1(t) \/ ClearL2(t)
  PROVE  AgreeOK'
<1>1. CASE BeginClear(t)
  <2>1. /\ UNCHANGED <<config, l2, l3>> /\ l1'.map = [k \in Keys |-> NoEntry]
        /\ history' = Excuse([history EXCEPT !.ops = @ + 1], OnlyInL1(Keys), TRUE)
        /\ Starts(t, "zero_l1", "clear", NoEntry, NoEntry)
    BY <1>1, BeginClearIs
  <2>2. /\ history'.excused = history.excused \union OnlyInL1(Keys)
        /\ history'.last = history.last /\ history'.stored = history.stored
    BY <2>1 DEF Excuse, CacheOK, Histories
  <2>3. Others(t) /\ calls[t].key = NoEntry /\ calls'[t].key = NoEntry
    BY <2>1 DEF Starts, Idle
  <2>4. ASSUME NEW k \in Keys, k \notin history'.excused PROVE Shrinks(k)
    <3>1. l1'.map[k] = NoEntry
      BY <2>1
    <3>2. l1.map[k] # NoEntry => ~Only3(l3[k], l1.map[k].ver)
      BY <2>2, <2>4 DEF OnlyInL1, Present, OnlyCopy, Only3, CacheOK, L1OK
    <3> QED
      BY <2>1, <3>1, <3>2 DEF Shrinks, CopyShrinks
  <2> QED
    BY <2>1, <2>2, <2>3, <2>4, ClearStep
<1>2. CASE ZeroL1(t)
  <2>1. /\ UNCHANGED <<config, l2, l3>> /\ l1'.map = l1.map /\ calls[t].key = NoEntry
        /\ history' = Drift(history, "L1", Present(l1.map) # {})
        /\ Turns(t, "clear_l2", calls[t].entry)
    BY <1>2, ZeroL1Is
  <2>2. /\ history'.excused = history.excused
        /\ history'.last = history.last /\ history'.stored = history.stored
    BY <2>1 DEF Drift, CacheOK, Histories
  <2>3. Others(t) /\ calls'[t].key = NoEntry
    BY <2>1 DEF Turns
  <2>4. \A k : Shrinks(k)
    BY <2>1, CopiesSame
  <2> QED
    BY <2>1, <2>2, <2>3, <2>4, ClearStep
<1>3. CASE ClearL2(t)
  <2>1. /\ UNCHANGED <<config, l1, l3>> /\ l2'.index = [h \in Hashes |-> NoEntry]
        /\ calls[t].key = NoEntry /\ Ends(t)
        /\ history' = [Excuse(history, OnlyInL2(Hashes), TRUE)
                          EXCEPT !.crossed = @ \/ \E u \in Callers : At(u, "insert_l2")]
    BY <1>3, ClearL2Is
  <2>2. /\ history'.excused = history.excused \union OnlyInL2(Hashes)
        /\ history'.last = history.last /\ history'.stored = history.stored
    BY <2>1 DEF Excuse, CacheOK, Histories
  <2>3. Others(t) /\ calls'[t].key = NoEntry
    BY <2>1 DEF Ends, Idle
  <2>4. \A h \in Hashes : l2'.index[h] = IF h \in Hashes THEN NoEntry ELSE l2.index[h]
    BY <2>1
  <2>5. \A k \in Keys \ history'.excused : Shrinks(k)
    BY <2>1, <2>2, <2>4, GoneFromL2
  <2> QED
    BY <2>1, <2>2, <2>3, <2>5, ClearStep
<1> QED
  BY <1>1, <1>2, <1>3

LEMMA AgreeKeeps ==
  ASSUME CacheOK, VersionsOK, AgreeOK, [Next]_vars
  PROVE  AgreeOK'
<1>1. CASE UNCHANGED <<config, l1, l2, l3, calls, history>>
  <2>1. \A k \in Keys : CurrentOK(k)' <=> CurrentOK(k)
    BY <1>1, CurrentIs, CurrentIsNext
  <2> QED
    BY <1>1, <2>1 DEF AgreeOK
<1>2. CASE UNCHANGED vars
  BY <1>1, <1>2 DEF vars
<1>3. CASE Expire
  BY <1>1, <1>3, ExpireIs
<1>4. ASSUME NEW t \in Callers,
             BeginGet(t) \/ BeginPut(t) \/ BeginDelete(t) \/ BeginClear(t)
      PROVE  AgreeOK'
  BY <1>4, BeginsAgree, ClearsAgree
<1>5. ASSUME NEW t \in Callers, Step(t)
      PROVE  AgreeOK'
  <2>1. CASE GetL1(t) \/ DropExpired(t) \/ GetL2(t) \/ GetL3(t)
    BY <2>1, GetL1Agrees, DropExpiredAgrees, GetL2Agrees, GetL3Agrees
  <2>2. CASE PutL3(t) \/ CheckL1(t) \/ EvictL1(t) \/ InsertL1(t)
    BY <2>2, PutL3Agrees, EvictsL1Agree, InsertL1Agrees
  <2>3. CASE CheckL2(t) \/ EvictL2(t) \/ AllocL2(t) \/ InsertL2(t)
    BY <2>3, CheckL2Agrees, EvictL2Agrees, AllocL2Agrees, InsertL2Agrees
  <2>4. CASE FindL1(t) \/ DeleteL1(t) \/ DeleteL2(t) \/ DeleteL3(t) \/ ZeroL1(t) \/ ClearL2(t)
    BY <2>4, FindL1Agrees, DeleteL1Agrees, DeleteL2Agrees, DeleteL3Agrees, ClearsAgree
  <2> QED
    BY <1>5, <2>1, <2>2, <2>3, <2>4 DEF Step
<1> QED
  BY <1>2, <1>3, <1>4, <1>5 DEF Next

-----------------------------------------------------------------------------
(* The cache: versions, and what L3 has accepted.                          *)

\* Where a version comes from that a step of t puts somewhere.
Known(t, v) ==
  \/ \E k \in Keys : l1.map[k] # NoEntry /\ l1.map[k].ver = v
  \/ \E h \in Hashes : l2.index[h] # NoEntry /\ l2.index[h].ver = v
  \/ \E k \in Keys : l3[k] # NoEntry /\ l3[k].ver = v
  \/ calls[t].pc \in Carrying /\ calls[t].entry.ver = v
  \/ v \in history'.stored

Known1(t) == \A k \in Keys : l1'.map[k] # NoEntry => Known(t, l1'.map[k].ver)
Known2(t) == \A h \in Hashes : l2'.index[h] # NoEntry => Known(t, l2'.index[h].ver)
Known3 == \A k \in Keys : l3'[k] # NoEntry =>
  (l3[k] # NoEntry /\ l3'[k].ver = l3[k].ver) \/ l3'[k].ver \in history'.stored
\* What is put, and what goes on.
KnownCall(t) ==
  /\ Others(t)
  /\ calls'[t].op = "put" => \/ calls'[t].entry.ver = history.next
                             \/ calls[t].op = "put" /\ calls'[t].entry = calls[t].entry
  /\ calls'[t].pc = "put_l3" => config.write_through
  /\ config.write_through /\ calls'[t].pc \in Carrying => Known(t, calls'[t].entry.ver)
KnownPast ==
  /\ config' = config /\ history.next <= history'.next
  /\ history.stored \subseteq history'.stored
  /\ config.write_through \/ history'.stored = history.stored

LEMMA StoredIs ==
  ASSUME CacheOK
  PROVE  StoredOK <=>
    /\ config.write_through =>
         /\ \A k \in Keys : l1.map[k] # NoEntry => l1.map[k].ver \in history.stored
         /\ \A h \in Hashes : l2.index[h] # NoEntry => l2.index[h].ver \in history.stored
    /\ \A k \in Keys : l3[k] # NoEntry => l3[k].ver \in history.stored
    /\ \A t \in Callers : config.write_through /\ calls[t].pc \in Carrying =>
         calls[t].entry.ver \in history.stored
BY L2Domain DEF StoredOK, CachedWasStored, Present, CacheOK, L1OK

LEMMA StoredIsNext ==
  ASSUME CacheOK'
  PROVE  StoredOK' <=>
    /\ config'.write_through =>
         /\ \A k \in Keys : l1'.map[k] # NoEntry => l1'.map[k].ver \in history'.stored
         /\ \A h \in Hashes : l2'.index[h] # NoEntry => l2'.index[h].ver \in history'.stored
    /\ \A k \in Keys : l3'[k] # NoEntry => l3'[k].ver \in history'.stored
    /\ \A t \in Callers : config'.write_through /\ calls'[t].pc \in Carrying =>
         calls'[t].entry.ver \in history'.stored
BY L2DomainNext DEF StoredOK, CachedWasStored, Present, CacheOK, L1OK

LEMMA KnownKeep ==
  ASSUME CacheOK, CacheOK', VersionsOK, StoredOK, NEW t \in Callers,
         Known1(t), Known2(t), Known3, KnownCall(t), KnownPast
  PROVE  VersionsOK' /\ StoredOK'
<1>1. \A v : config.write_through /\ Known(t, v) => v \in history'.stored
  BY StoredIs DEF Known, KnownPast
<1>2. history.next \in Nat /\ history'.next \in Nat /\ Cardinality(Keys) \in Nat
  BY CacheNumbers DEF CacheOK, Histories
<1>3. history'.next > Cardinality(Keys)
  BY <1>2 DEF VersionsOK, KnownPast
<1>4. \A u \in Callers : calls'[u].op = "put" => calls'[u].entry.ver > Cardinality(Keys)
  <2>1. SUFFICES ASSUME NEW u \in Callers, calls'[u].op = "put"
                 PROVE  calls'[u].entry.ver > Cardinality(Keys)
    OBVIOUS
  <2>2. CASE u = t
    BY <1>2, <2>1, <2>2 DEF KnownCall, VersionsOK
  <2>3. CASE u # t
    BY <2>1, <2>3 DEF KnownCall, Others, VersionsOK
  <2> QED
    BY <2>2, <2>3
<1>5. \A u \in Callers : calls'[u].pc = "put_l3" => config'.write_through
  BY DEF KnownCall, KnownPast, Others, VersionsOK
<1>6. config'.write_through \/ history'.stored = 1 .. Cardinality(Keys)
  BY DEF KnownPast, VersionsOK
<1>7. VersionsOK'
  BY <1>3, <1>4, <1>5, <1>6 DEF VersionsOK
<1>8. \A k \in Keys : l3'[k] # NoEntry => l3'[k].ver \in history'.stored
  BY StoredIs DEF Known3, KnownPast
<1>9. \A u \in Callers : config.write_through /\ calls'[u].pc \in Carrying =>
        calls'[u].entry.ver \in history'.stored
  BY <1>1, StoredIs DEF KnownCall, KnownPast, Others
<1>10. config.write_through =>
         /\ \A k \in Keys : l1'.map[k] # NoEntry => l1'.map[k].ver \in history'.stored
         /\ \A h \in Hashes : l2'.index[h] # NoEntry => l2'.index[h].ver \in history'.stored
  BY <1>1 DEF Known1, Known2
<1>11. config' = config
  BY DEF KnownPast
<1>12. StoredOK'
  BY <1>8, <1>9, <1>10, <1>11, StoredIsNext
<1> QED
  BY <1>7, <1>12

\* Tiers a step leaves alone, or takes entries out of.
LEMMA Known1Stays ==
  ASSUME NEW t, \A k \in Keys : l1'.map[k] # NoEntry =>
           l1.map[k] # NoEntry /\ l1'.map[k].ver = l1.map[k].ver
  PROVE  Known1(t)
BY DEF Known1, Known

LEMMA Known2Stays ==
  ASSUME NEW t, \A h \in Hashes : l2'.index[h] # NoEntry =>
           l2.index[h] # NoEntry /\ l2'.index[h].ver = l2.index[h].ver
  PROVE  Known2(t)
BY DEF Known2, Known

LEMMA KnownTiers ==
  ASSUME NEW t
  PROVE  /\ l1'.map = l1.map => Known1(t)
         /\ l2'.index = l2.index => Known2(t)
         /\ l3' = l3 => Known3
BY DEF Known1, Known2, Known3, Known

\* A call that carries nothing, or what it carried before.
LEMMA KnownCalls ==
  ASSUME CacheOK, CacheOK', NEW t \in Callers, Others(t),
         \/ Ends(t)
         \/ calls'[t].pc \notin Carrying \union {"put_l3"} /\ calls'[t].op # "put"
         \/ /\ calls[t].pc \in Carrying /\ calls'[t].pc # "put_l3"
            /\ calls'[t].op = calls[t].op /\ calls'[t].entry = calls[t].entry
  PROVE  KnownCall(t)
BY DEF KnownCall, Known, Ends, Idle, Carrying, Filling

LEMMA KnownHistory ==
  ASSUME CacheOK, config' = config, history'.stored = history.stored, history'.next = history.next
  PROVE  KnownPast
BY DEF KnownPast, CacheOK, Histories

AllKnown(t) == Known1(t) /\ Known2(t) /\ Known3 /\ KnownCall(t) /\ KnownPast

LEMMA GetsKnown ==
  ASSUME CacheOK, CacheOK', NEW t \in Callers,
         GetL1(t) \/ DropExpired(t) \/ GetL2(t) \/ GetL3(t)
  PROVE  AllKnown(t)
<1>1. CASE GetL1(t)
  <2>1. /\ UNCHANGED <<config, l1, l2, l3, history>> /\ calls[t].op = "get"
        /\ \/ Turns(t, "get_l2", calls[t].entry)
           \/ Turns(t, "drop_expired", l1.map[calls[t].key])
           \/ Ends(t)
    BY <1>1, GetL1Is
  <2>2. KnownCall(t)
    BY <2>1, KnownCalls DEF Turns, Ends, Carrying, Filling
  <2> QED
    BY <2>1, <2>2, KnownTiers, KnownHistory DEF AllKnown
<1>2. CASE DropExpired(t)
  <2> DEFINE m == calls[t].key
  <2>1. /\ UNCHANGED <<config, l2, l3>> /\ m \in Keys /\ calls[t].op = "get"
        /\ l1'.map = [l1.map EXCEPT ![m] = NoEntry] /\ Turns(t, "get_l2", NoEntry)
        /\ Removal({m}, OnlyInL1({m}) # {}, "L1", ~RemovesItsSize(m, calls[t].entry.size))
    BY <1>2, DropExpiredIs, L1Removal
  <2>2. KnownCall(t)
    BY <2>1, KnownCalls DEF Turns, Carrying, Filling
  <2>3. Known1(t)
    BY <2>1, Known1Stays DEF CacheOK, L1OK
  <2>4. KnownPast
    BY <2>1, KnownHistory DEF Removal
  <2> QED
    BY <2>1, <2>2, <2>3, <2>4, KnownTiers DEF AllKnown
<1>3. CASE GetL2(t)
  <2> DEFINE h == Hash[calls[t].key]
             i == l2.index[h]
  <2>1. /\ UNCHANGED <<config, l1, l3, history>> /\ h \in Hashes /\ calls[t].op = "get"
        /\ \/ UNCHANGED l2 /\ Turns(t, "get_l3", calls[t].entry)
           \/ /\ i # NoEntry /\ i \in IndexEntries
              /\ l2' = [l2 EXCEPT !.index[h].count = @ + 1]
              /\ Turns(t, "check_l1", FromL2(i, i.count + 1)) \/ Ends(t)
    BY <1>3, GetL2Is
  <2>2. Known1(t) /\ Known3 /\ KnownPast
    BY <2>1, KnownTiers, KnownHistory
  <2>3. Known2(t)
    <3>1. CASE UNCHANGED l2
      BY <3>1, KnownTiers
    <3>2. CASE i \in IndexEntries /\ l2' = [l2 EXCEPT !.index[h].count = @ + 1]
      <4>1. \A g \in Hashes : /\ l2'.index[g] = NoEntry <=> l2.index[g] = NoEntry
                              /\ l2'.index[g].ver = l2.index[g].ver
        BY <2>1, <3>2, HitStays
      <4> QED
        BY <4>1, Known2Stays
    <3> QED
      BY <2>1, <3>1, <3>2
  <2>4. KnownCall(t)
    <3>1. CASE Turns(t, "get_l3", calls[t].entry) \/ Ends(t)
      BY <2>1, <3>1, KnownCalls DEF Turns, Ends, Carrying, Filling
    <3>2. CASE i # NoEntry /\ i \in IndexEntries /\ Turns(t, "check_l1", FromL2(i, i.count + 1))
      <4>1. calls'[t].entry.ver = i.ver
        BY <3>2, FromL2Is DEF Turns
      <4> QED
        BY <2>1, <3>2, <4>1 DEF KnownCall, Known, Turns
    <3> QED
      BY <2>1, <3>1, <3>2
  <2> QED
    BY <2>2, <2>3, <2>4 DEF AllKnown
<1>4. CASE GetL3(t)
  <2> DEFINE o == l3[calls[t].key]
  <2>1. /\ UNCHANGED <<config, l1, l2, l3, history>> /\ calls[t].key \in Keys
        /\ calls[t].op = "get"
        /\ \/ Ends(t)
           \/ /\ o # NoEntry /\ o \in StoredObjects
              /\ Turns(t, "check_l1", Took(o)) \/ Turns(t, "check_l2", Took(o))
    BY <1>4, GetL3Is
  <2>2. Known1(t) /\ Known2(t) /\ Known3 /\ KnownPast
    BY <2>1, KnownTiers, KnownHistory
  <2>3. KnownCall(t)
    <3>1. CASE Ends(t)
      BY <2>1, <3>1, KnownCalls DEF Ends
    <3>2. CASE /\ o # NoEntry /\ o \in StoredObjects
               /\ Turns(t, "check_l1", Took(o)) \/ Turns(t, "check_l2", Took(o))
      <4>1. o.ver \in Versions /\ o.size \in Sizes
        BY <3>2 DEF StoredObjects
      <4>2. Took(o).ver = o.ver
        BY <4>1, EntryIs DEF Took
      <4>3. /\ calls'[t].entry.ver = o.ver /\ calls'[t].op = "get" /\ Others(t)
            /\ calls'[t].pc \in {"check_l1", "check_l2"}
        BY <2>1, <3>2, <4>2 DEF Turns
      <4> QED
        BY <2>1, <3>2, <4>3 DEF KnownCall, Known
    <3> QED
      BY <2>1, <3>1, <3>2
  <2> QED
    BY <2>2, <2>3 DEF AllKnown
<1> QED
  BY <1>1, <1>2, <1>3, <1>4

LEMMA BeginsKnown ==
  ASSUME CacheOK, CacheOK', NEW t \in Callers,
         BeginGet(t) \/ BeginPut(t) \/ BeginDelete(t) \/ BeginClear(t)
  PROVE  AllKnown(t)
<1>1. CASE BeginGet(t) \/ BeginDelete(t)
  <2>1. PICK k \in Keys, op \in {"get", "delete"}, p \in {"get_l1", "find_l1"} :
          /\ Begin(t, op, k) /\ Starts(t, p, op, k, NoEntry)
          /\ UNCHANGED <<config, l1, l2, l3>>
    BY <1>1, BeginGetIs, BeginDeleteIs
  <2>2. history'.stored = history.stored /\ history'.next = history.next
    BY <2>1, BeginHistory
  <2>3. KnownCall(t)
    BY <2>1, KnownCalls DEF Starts, Carrying, Filling
  <2> QED
    BY <2>1, <2>2, <2>3, KnownTiers, KnownHistory DEF AllKnown
<1>2. CASE BeginPut(t)
  <2>1. PICK k \in Keys, e \in CachedEntries :
         /\ UNCHANGED <<config, l1, l2, l3>> /\ e.ver = history.next
         /\ history' = Excuse([history EXCEPT !.next = @ + 1], {k}, Overlaps(k, "put"))
         /\ \/ config.write_through /\ Starts(t, "put_l3", "put", k, e)
            \/ ~config.write_through /\ Starts(t, "check_l1", "put", k, e)
            \/ ~config.write_through /\ Starts(t, "check_l2", "put", k, e)
    BY <1>2, BeginPutIs
  <2>2. history'.stored = history.stored /\ history'.next = history.next + 1
    BY <2>1 DEF Excuse, CacheOK, Histories
  <2>3. KnownPast
    BY <2>1, <2>2 DEF KnownPast, CacheOK, Histories
  <2>4. KnownCall(t)
    BY <2>1 DEF KnownCall, Starts, Carrying, Filling
  <2> QED
    BY <2>1, <2>3, <2>4, KnownTiers DEF AllKnown
<1>3. CASE BeginClear(t)
  <2>1. /\ UNCHANGED <<config, l2, l3>> /\ l1'.map = [k \in Keys |-> NoEntry]
        /\ history' = Excuse([history EXCEPT !.ops = @ + 1], OnlyInL1(Keys), TRUE)
        /\ Starts(t, "zero_l1", "clear", NoEntry, NoEntry)
    BY <1>3, BeginClearIs
  <2>2. history'.stored = history.stored /\ history'.next = history.next
    BY <2>1 DEF Excuse, CacheOK, Histories
  <2>3. KnownCall(t)
    BY <2>1, KnownCalls DEF Starts, Carrying, Filling
  <2>4. Known1(t)
    BY <2>1 DEF Known1
  <2> QED
    BY <2>1, <2>2, <2>3, <2>4, KnownTiers, KnownHistory DEF AllKnown
<1> QED
  BY <1>1, <1>2, <1>3

LEMMA PutsKnown ==
  ASSUME CacheOK, CacheOK', VersionsOK, NEW t \in Callers,
         PutL3(t) \/ CheckL1(t) \/ EvictL1(t) \/ InsertL1(t)
  PROVE  AllKnown(t)
<1>1. CASE PutL3(t)
  <2> DEFINE m == calls[t].key
             e == calls[t].entry
             o == [ver |-> e.ver, size |-> e.size]
  <2>1. /\ UNCHANGED <<config, l1, l2>> /\ m \in Keys
        /\ calls[t].pc = "put_l3" /\ calls[t].op = "put"
        /\ \/ Ends(t) /\ UNCHANGED <<l3, history>>
           \/ /\ l3' = [l3 EXCEPT ![m] = o]
              /\ history' = [history EXCEPT !.stored = @ \cup {e.ver}]
              /\ Turns(t, "check_l1", e) \/ Turns(t, "check_l2", e)
    BY <1>1, PutL3Is
  <2>2. Known1(t) /\ Known2(t)
    BY <2>1, KnownTiers
  <2>3. CASE Ends(t) /\ UNCHANGED <<l3, history>>
    <3>1. KnownCall(t)
      BY <2>3, KnownCalls DEF Ends
    <3> QED
      BY <2>1, <2>2, <2>3, <3>1, KnownTiers, KnownHistory DEF AllKnown
  <2>4. CASE /\ l3' = [l3 EXCEPT ![m] = o]
             /\ history' = [history EXCEPT !.stored = @ \cup {e.ver}]
             /\ Turns(t, "check_l1", e) \/ Turns(t, "check_l2", e)
    <3>1. history'.stored = history.stored \union {e.ver} /\ history'.next = history.next
          /\ history.next \in Nat
      BY <2>4 DEF CacheOK, Histories
    <3>2. config.write_through
      BY <2>1 DEF VersionsOK
    <3>3. KnownPast
      BY <2>1, <3>1, <3>2 DEF KnownPast
    <3>4. Known3
      BY <2>4, <3>1 DEF Known3, CacheOK
    <3>5. KnownCall(t)
      BY <2>1, <2>4, <3>1 DEF KnownCall, Known, Turns
    <3> QED
      BY <2>2, <3>3, <3>4, <3>5 DEF AllKnown
  <2> QED
    BY <2>1, <2>3, <2>4
<1>2. CASE CheckL1(t)
  <2>1. /\ UNCHANGED <<config, l1, l2, l3>> /\ calls[t].pc = "check_l1"
        /\ Turns(t, "evict_l1", calls[t].entry) \/ Turns(t, "insert_l1", calls[t].entry)
        /\ history' = Crowd(history, "L1", \E u \in Callers : calls[u].pc \in {"evict_l1", "insert_l1"})
    BY <1>2, CheckL1Is
  <2>2. history'.next = history.next /\ history'.stored = history.stored
    BY <2>1, CrowdKeeps DEF Tiers
  <2>3. KnownCall(t)
    BY <2>1, KnownCalls DEF Turns, Carrying
  <2> QED
    BY <2>1, <2>2, <2>3, KnownTiers, KnownHistory DEF AllKnown
<1>3. CASE EvictL1(t)
  <2>1. UNCHANGED <<config, l2, l3>> /\ calls[t].pc = "evict_l1"
    BY <1>3, EvictL1Is
  <2>2. CASE /\ Turns(t, "insert_l1", calls[t].entry) /\ UNCHANGED l1
             /\ history' = Crowd(history, "L1", should_continue_eviction /\ calls[t].left = 0)
    <3>1. history'.next = history.next /\ history'.stored = history.stored
      BY <2>2, CrowdKeeps DEF Tiers
    <3>2. KnownCall(t)
      BY <2>1, <2>2, KnownCalls DEF Turns, Carrying
    <3> QED
      BY <2>1, <2>2, <3>1, <3>2, KnownTiers, KnownHistory DEF AllKnown
  <2>3. ASSUME NEW c, EvictsL1(t, c) PROVE AllKnown(t)
    <3>1. Turns(t, "evict_l1", calls[t].entry) /\ c.key \in Keys
      BY <2>3 DEF EvictsL1, L1Candidates
    <3>2. KnownCall(t)
      BY <2>1, <3>1, KnownCalls DEF Turns, Carrying
    <3>3. CASE UNCHANGED <<l1, history>>
      BY <2>1, <3>2, <3>3, KnownTiers, KnownHistory DEF AllKnown
    <3>4. CASE ~UNCHANGED <<l1, history>>
      <4>1. /\ l1'.map = [l1.map EXCEPT ![c.key] = NoEntry]
            /\ history' = Drift(Excuse(history, {c.key}, OnlyInL1({c.key}) # {}),
                                "L1", ~RemovesItsSize(c.key, c.size))
        BY <2>3, <3>4 DEF EvictsL1
      <4>2. Removal({c.key}, OnlyInL1({c.key}) # {}, "L1", ~RemovesItsSize(c.key, c.size))
        BY <3>1, <4>1, L1Removal
      <4>3. history'.next = history.next /\ history'.stored = history.stored
        BY <4>2 DEF Removal
      <4>4. Known1(t)
        BY <3>1, <4>1, Known1Stays DEF CacheOK, L1OK
      <4> QED
        BY <2>1, <3>2, <4>3, <4>4, KnownTiers, KnownHistory DEF AllKnown
    <3> QED
      BY <3>3, <3>4
  <2> QED
    BY <1>3, <2>2, <2>3, EvictL1Is
<1>4. CASE InsertL1(t)
  <2> DEFINE k == calls[t].key
             e == calls[t].entry
  <2>1. /\ UNCHANGED <<config, l2, l3>> /\ calls[t].pc = "insert_l1" /\ k \in Keys /\ Ends(t)
        /\ \/ Outcome(t, TRUE, "L1") /\ l1'.map = [l1.map EXCEPT ![k] = e]
           \/ Outcome(t, FALSE, "L1") /\ UNCHANGED l1
    BY <1>4, InsertL1Is
  <2>2. history'.next = history.next /\ history'.stored = history.stored
    BY <2>1 DEF Outcome
  <2>3. KnownCall(t)
    BY <2>1, KnownCalls DEF Ends
  <2>4. Known1(t)
    BY <2>1, KnownTiers DEF Known1, Known, Carrying, CacheOK, L1OK
  <2> QED
    BY <2>1, <2>2, <2>3, <2>4, KnownTiers, KnownHistory DEF AllKnown
<1> QED
  BY <1>1, <1>2, <1>3, <1>4

LEMMA FillsKnown ==
  ASSUME CacheOK, CacheOK', NEW t \in Callers,
         CheckL2(t) \/ EvictL2(t) \/ AllocL2(t) \/ InsertL2(t)
  PROVE  AllKnown(t)
<1>1. CASE CheckL2(t)
  <2>1. /\ UNCHANGED <<config, l1, l2, l3>> /\ calls[t].pc = "check_l2"
        /\ \/ Ends(t) /\ Outcome(t, FALSE, "L2")
           \/ /\ Turns(t, "evict_l2", calls[t].entry) \/ Turns(t, "alloc_l2", calls[t].entry)
              /\ history' = Crowd(history, "L2", FillingL2)
    BY <1>1, CheckL2Is
  <2>2. FillingL2 \in BOOLEAN /\ "L2" \in Tiers
    BY DEF FillingL2, Tiers
  <2>3. history'.next = history.next /\ history'.stored = history.stored
    BY <2>1, <2>2, CrowdKeeps DEF Outcome
  <2>4. KnownCall(t)
    BY <2>1, KnownCalls DEF Ends, Turns, Carrying
  <2> QED
    BY <2>1, <2>3, <2>4, KnownTiers, KnownHistory DEF AllKnown
<1>2. CASE EvictL2(t)
  <2>1. /\ UNCHANGED <<config, l1, l3>> /\ calls[t].pc = "evict_l2"
        /\ Turns(t, "alloc_l2", calls[t].entry) /\ \E gone : EvictsL2(t, gone)
    BY <1>2, EvictL2Is
  <2>2. PICK gone : EvictsL2(t, gone)
    BY <2>1
  <2>3. /\ l2'.index = Without1(l2.index, gone)
        /\ history' = Drift(Excuse(history, OnlyInL2(Hashed(gone)), TRUE), "L2", Stale(gone) # {})
    BY <2>2 DEF EvictsL2
  <2>4. Removal(OnlyInL2(Hashed(gone)), TRUE, "L2", Stale(gone) # {})
    <3>1. (Stale(gone) # {}) \in BOOLEAN
      OBVIOUS
    <3> QED
      BY <2>3, <3>1, L2Removal
  <2>5. history'.next = history.next /\ history'.stored = history.stored
    BY <2>4 DEF Removal
  <2>6. Known2(t)
    BY <2>3, L2Domain, Known2Stays DEF Without1, CacheOK
  <2>7. KnownCall(t)
    BY <2>1, KnownCalls DEF Turns, Carrying, Filling
  <2> QED
    BY <2>1, <2>5, <2>6, <2>7, KnownTiers, KnownHistory DEF AllKnown
<1>3. CASE AllocL2(t)
  <2>1. /\ UNCHANGED <<config, l1, l3>> /\ calls[t].pc = "alloc_l2" /\ l2'.index = l2.index
        /\ Turns(t, "insert_l2", calls[t].entry)
        /\ history' = [history EXCEPT !.crossed = @ \/ \E u \in Callers : At(u, "insert_l2")]
    BY <1>3, AllocL2Is
  <2>2. history'.next = history.next /\ history'.stored = history.stored
    BY <2>1 DEF CacheOK, Histories
  <2>3. KnownCall(t)
    BY <2>1, KnownCalls DEF Turns, Carrying, Filling
  <2> QED
    BY <2>1, <2>2, <2>3, KnownTiers, KnownHistory DEF AllKnown
<1>4. CASE InsertL2(t)
  <2> DEFINE k == calls[t].key
             e == calls[t].entry
             i == IndexEntry(e, l2.file, calls[t].left)
  <2>1. /\ UNCHANGED <<config, l1, l3>> /\ calls[t].pc = "insert_l2" /\ k \in Keys /\ Ends(t)
        /\ Outcome(t, TRUE, "L2") /\ InsertsL2(t)
    BY <1>4, InsertL2Is
  <2>2. l2'.index = [l2.index EXCEPT ![Hash[k]] = i] /\ i.ver = e.ver
    BY <2>1 DEF InsertsL2, IndexEntry
  <2>3. history'.next = history.next /\ history'.stored = history.stored
    BY <2>1 DEF Outcome
  <2>4. KnownCall(t)
    BY <2>1, KnownCalls DEF Ends
  <2>5. Known2(t)
    BY <2>1, <2>2 DEF Known2, Known, Carrying, Filling, CacheOK, L2OK
  <2> QED
    BY <2>1, <2>3, <2>4, <2>5, KnownTiers, KnownHistory DEF AllKnown
<1> QED
  BY <1>1, <1>2, <1>3, <1>4

LEMMA DeletesKnown ==
  ASSUME CacheOK, CacheOK', NEW t \in Callers,
         FindL1(t) \/ DeleteL1(t) \/ DeleteL2(t) \/ DeleteL3(t)
  PROVE  AllKnown(t)
<1>1. CASE FindL1(t)
  <2>1. /\ UNCHANGED <<config, l1, l2, l3, history>> /\ calls[t].op = "delete"
        /\ \/ Turns(t, "delete_l2", l1.map[calls[t].key])
           \/ Turns(t, "delete_l1", l1.map[calls[t].key])
    BY <1>1, FindL1Is
  <2>2. KnownCall(t)
    BY <2>1, KnownCalls DEF Turns, Carrying, Filling
  <2> QED
    BY <2>1, <2>2, KnownTiers, KnownHistory DEF AllKnown
<1>2. CASE DeleteL1(t)
  <2> DEFINE m == calls[t].key
             s == calls[t].entry.size
  <2>1. /\ UNCHANGED <<config, l2, l3>> /\ m \in Keys
        /\ calls[t].op = "delete" /\ Turns(t, "delete_l2", NoEntry)
        /\ \/ UNCHANGED <<l1, history>>
           \/ /\ l1'.map = [l1.map EXCEPT ![m] = NoEntry]
              /\ history' = Drift(Excuse(history, {m}, OnlyInL1({m}) # {}), "L1", ~RemovesItsSize(m, s))
    BY <1>2, DeleteL1Is
  <2>2. KnownCall(t)
    BY <2>1, KnownCalls DEF Turns, Carrying, Filling
  <2>3. CASE UNCHANGED <<l1, history>>
    BY <2>1, <2>2, <2>3, KnownTiers, KnownHistory DEF AllKnown
  <2>4. CASE /\ l1'.map = [l1.map EXCEPT ![m] = NoEntry]
             /\ history' = Drift(Excuse(history, {m}, OnlyInL1({m}) # {}), "L1", ~RemovesItsSize(m, s))
    <3>1. Removal({m}, OnlyInL1({m}) # {}, "L1", ~RemovesItsSize(m, s))
      BY <2>1, <2>4, L1Removal
    <3>2. history'.next = history.next /\ history'.stored = history.stored
      BY <3>1 DEF Removal
    <3>3. Known1(t)
      BY <2>1, <2>4, Known1Stays DEF CacheOK, L1OK
    <3> QED
      BY <2>1, <2>2, <3>2, <3>3, KnownTiers, KnownHistory DEF AllKnown
  <2> QED
    BY <2>1, <2>3, <2>4
<1>3. CASE DeleteL2(t)
  <2> DEFINE h == Hash[calls[t].key]
  <2>1. /\ UNCHANGED <<config, l1, l3>> /\ h \in Hashes /\ calls[t].op = "delete"
        /\ l2'.index = [l2.index EXCEPT ![h] = NoEntry]
        /\ history' = Excuse(history, OnlyInL2({h}), TRUE)
        /\ Turns(t, "delete_l3", calls[t].entry)
    BY <1>3, DeleteL2Is
  <2>2. history'.next = history.next /\ history'.stored = history.stored
    BY <2>1 DEF Excuse, CacheOK, Histories
  <2>3. KnownCall(t)
    BY <2>1, KnownCalls DEF Turns, Carrying, Filling
  <2>4. Known2(t)
    BY <2>1, Known2Stays DEF CacheOK, L2OK
  <2> QED
    BY <2>1, <2>2, <2>3, <2>4, KnownTiers, KnownHistory DEF AllKnown
<1>4. CASE DeleteL3(t)
  <2> DEFINE m == calls[t].key
  <2>1. /\ UNCHANGED <<config, l1, l2>> /\ m \in Keys /\ Ends(t)
        /\ \/ UNCHANGED <<l3, history>>
           \/ l3' = [l3 EXCEPT ![m] = NoEntry] /\ history' = [history EXCEPT !.last[m] = NoEntry]
    BY <1>4, DeleteL3Is
  <2>2. history'.next = history.next /\ history'.stored = history.stored
    BY <2>1 DEF CacheOK, Histories
  <2>3. KnownCall(t)
    BY <2>1, KnownCalls DEF Ends
  <2>4. Known3
    BY <2>1, KnownTiers DEF Known3, CacheOK
  <2> QED
    BY <2>1, <2>2, <2>3, <2>4, KnownTiers, KnownHistory DEF AllKnown
<1> QED
  BY <1>1, <1>2, <1>3, <1>4

LEMMA ClearsKnown ==
  ASSUME CacheOK, CacheOK', NEW t \in Callers, ZeroL1(t) \/ ClearL2(t)
  PROVE  AllKnown(t)
<1>1. CASE ZeroL1(t)
  <2>1. /\ UNCHANGED <<config, l2, l3>> /\ l1'.map = l1.map
        /\ calls[t].pc = "zero_l1"
        /\ history' = Drift(history, "L1", Present(l1.map) # {})
        /\ Turns(t, "clear_l2", calls[t].entry)
    BY <1>1, ZeroL1Is
  <2>2. history'.next = history.next /\ history'.stored = history.stored
    BY <2>1 DEF Drift, CacheOK, Histories
  <2>3. KnownCall(t)
    BY <2>1 DEF KnownCall, Turns, Carrying, Filling
  <2> QED
    BY <2>1, <2>2, <2>3, KnownTiers, KnownHistory DEF AllKnown
<1>2. CASE ClearL2(t)
  <2>1. /\ UNCHANGED <<config, l1, l3>> /\ l2'.index = [h \in Hashes |-> NoEntry] /\ Ends(t)
        /\ history' = [Excuse(history, OnlyInL2(Hashes), TRUE)
                          EXCEPT !.crossed = @ \/ \E u \in Callers : At(u, "insert_l2")]
    BY <1>2, ClearL2Is
  <2>2. history'.next = history.next /\ history'.stored = history.stored
    BY <2>1 DEF Excuse, CacheOK, Histories
  <2>3. KnownCall(t)
    BY <2>1, KnownCalls DEF Ends
  <2>4. Known2(t)
    BY <2>1 DEF Known2
  <2> QED
    BY <2>1, <2>2, <2>3, <2>4, KnownTiers, KnownHistory DEF AllKnown
<1> QED
  BY <1>1, <1>2

LEMMA OriginsKeep ==
  ASSUME CacheOK, VersionsOK, StoredOK, [Next]_vars
  PROVE  VersionsOK' /\ StoredOK'
<1>1. CacheOK'
  BY CacheKeeps
<1>2. CASE UNCHANGED <<config, l1, l2, l3, calls, history>>
  <2>1. VersionsOK'
    BY <1>2 DEF VersionsOK
  <2>2. StoredOK'
    BY <1>1, <1>2, StoredIs, StoredIsNext
  <2> QED
    BY <2>1, <2>2
<1>3. CASE UNCHANGED vars
  BY <1>2, <1>3 DEF vars
<1>4. CASE Expire
  BY <1>2, <1>4, ExpireIs
<1>5. ASSUME NEW t \in Callers, AllKnown(t)
      PROVE  VersionsOK' /\ StoredOK'
  BY <1>1, <1>5, KnownKeep DEF AllKnown
<1>6. ASSUME NEW t \in Callers,
             BeginGet(t) \/ BeginPut(t) \/ BeginDelete(t) \/ BeginClear(t)
      PROVE  VersionsOK' /\ StoredOK'
  BY <1>1, <1>5, <1>6, BeginsKnown
<1>7. ASSUME NEW t \in Callers, Step(t)
      PROVE  VersionsOK' /\ StoredOK'
  <2>1. AllKnown(t)
    BY <1>1, <1>7, GetsKnown, PutsKnown, FillsKnown, DeletesKnown, ClearsKnown DEF Step
  <2> QED
    BY <1>5, <2>1
<1> QED
  BY <1>3, <1>4, <1>6, <1>7 DEF Next

LEMMA AgreeBegins ==
  ASSUME Init
  PROVE  VersionsOK /\ StoredOK /\ AgreeOK
<1>1. CacheOK
  BY CacheBegins
<1>2. /\ \A k \in Keys : l1.map[k] = NoEntry
      /\ \A h \in Hashes : l2.index[h] = NoEntry
      /\ \A t \in Callers : calls[t] = Idle
  BY DEF Init, EmptyL1, EmptyL2, Hashes
<1>3. /\ history.next = Cardinality(Keys) + 1 /\ history.stored = 1 .. Cardinality(Keys)
      /\ history.last = [k \in Keys |-> IF InL3[k] = 0 THEN NoEntry ELSE FirstVersion[k]]
      /\ l3 = [k \in Keys |-> IF InL3[k] = 0 THEN NoEntry ELSE [ver |-> FirstVersion[k], size |-> InL3[k]]]
  BY DEF Init, StoredL3
<1>4. VersionsOK
  BY <1>2, <1>3, CacheNumbers DEF VersionsOK, Idle
<1>5. \A k \in Keys : FirstVersion[k] \in 1 .. Cardinality(Keys) /\ FirstVersion[k] # NoEntry
  BY FirstVersions, NoEntryIsNone
<1>6. ASSUME NEW k \in Keys
      PROVE  IF history.last[k] = NoEntry THEN l3[k] = NoEntry
             ELSE /\ l3[k] # NoEntry /\ l3[k].ver = history.last[k]
                  /\ history.last[k] \in history.stored
  <2>1. CASE InL3[k] = 0
    BY <1>3, <2>1
  <2>2. CASE InL3[k] # 0
    <3>1. l3[k] = [ver |-> FirstVersion[k], size |-> InL3[k]] /\ history.last[k] = FirstVersion[k]
      BY <1>3, <2>2
    <3>2. InL3[k] \in Nat /\ FirstVersion[k] \in Nat
      <4>1. InL3[k] \in Sizes
        BY <2>2, CacheAssumption
      <4>2. InL3[k] \in Nat
        BY <4>1, CacheNumbers
      <4> QED
        BY <1>5, <4>2
    <3>3. l3[k] # NoEntry
      BY <3>1, <3>2, NoEntryAssumption
    <3> QED
      BY <1>3, <1>5, <3>1, <3>3
  <2> QED
    BY <2>1, <2>2
<1>7. StoredOK
  <2>1. \A k \in Keys : l3[k] # NoEntry => l3[k].ver \in history.stored
    BY <1>6
  <2>2. \A t \in Callers : calls[t].pc \notin Carrying
    BY <1>2 DEF Idle, Carrying, Filling
  <2> QED
    BY <1>1, <1>2, <2>1, <2>2, StoredIs
<1>8. ASSUME NEW k \in Keys PROVE CurrentOK(k)
  <2>1. \A t \in Callers : calls[t].key # k
    BY <1>2, NoEntryIsNone DEF Idle
  <2>2. Hash[k] \in Hashes
    BY DEF Hashes
  <2>3. KeyFine(l1.map[k], l2.index[Hash[k]], l3[k], history.last[k],
                config.write_through, history.stored)
    BY <1>2, <1>6, <2>2 DEF KeyFine, Only3
  <2> QED
    BY <2>1, <2>3, CurrentIs
<1>9. AgreeOK
  BY <1>8 DEF AgreeOK
<1> QED
  BY <1>4, <1>7, <1>9

\* While no operation on a key runs, every copy of it is the version put last, and
\* with write-through L3 has that version and nothing is cached that it did not
\* accept: for any number of callers and keys, any policy and any sizes.
THEOREM TiersStayAgreed == Spec => []TiersAgree
<1> DEFINE IInv == CacheOK /\ VersionsOK /\ StoredOK /\ AgreeOK
<1>1. Init => IInv
  BY CacheBegins, AgreeBegins
<1>2. IInv /\ [Next]_vars => IInv'
  BY CacheKeeps, OriginsKeep, AgreeKeeps
<1>3. IInv => TiersAgree
  <2>1. SUFFICES ASSUME IInv PROVE CopiesAreCurrent
    BY DEF StoredOK, TiersAgree
  <2>2. ASSUME NEW k \in Keys \ history.excused, Busy(k) = {} PROVE KeyIsCurrent(k)
    BY <2>1, <2>2 DEF AgreeOK, CurrentOK
  <2> QED
    BY <2>2 DEF CopiesAreCurrent, KeyIsCurrent
<1> QED
  BY <1>1, <1>2, <1>3, PTL DEF Spec

-----------------------------------------------------------------------------
(* The cache: hits, misses and the counts of the entries.                  *)

In(x, S) == IF x \in S THEN 1 ELSE 0
Moved(t, pcs) == In(calls'[t].pc, pcs) - In(calls[t].pc, pcs)
Added(m) == metrics'[m] - metrics[m]

LEMMA CallersCount ==
  ASSUME NEW pcs
  PROVE  /\ Cardinality(CallersAt(pcs)) \in Nat /\ IsFiniteSet(CallersAt(pcs))
         /\ Uncounted(pcs) = Cardinality(CallersAt(pcs))
<1>1. CallersAt(pcs) \subseteq Callers
  BY DEF CallersAt
<1>2. IsFiniteSet(CallersAt(pcs)) /\ Cardinality(CallersAt(pcs)) \in Nat
  BY <1>1, CacheNumbers, FS_Subset, FS_CardinalityType
<1> QED
  BY <1>2, Zenon DEF Uncounted, CallersAt

LEMMA OneCallerMoves ==
  ASSUME NEW t \in Callers, Others(t), NEW pcs
  PROVE  /\ Uncounted(pcs) \in Nat /\ Uncounted(pcs)' \in Nat
         /\ Uncounted(pcs)' = Uncounted(pcs) + Moved(t, pcs)
<1> DEFINE A == CallersAt(pcs)
           B == {u \in Callers : calls'[u].pc \in pcs}
<1>1. Uncounted(pcs) = Cardinality(A) /\ Cardinality(A) \in Nat /\ IsFiniteSet(A)
  BY CallersCount
<1>2. Uncounted(pcs)' = Cardinality(B)
  BY Zenon DEF Uncounted
<1>3. B \subseteq Callers /\ IsFiniteSet(B) /\ Cardinality(B) \in Nat
  <2>1. B \subseteq Callers
    OBVIOUS
  <2> QED
    BY <2>1, CacheNumbers, FS_Subset, FS_CardinalityType
<1>4. \A u \in Callers : u # t => (u \in A <=> u \in B)
  BY DEF Others, CallersAt
<1>5. /\ t \in A <=> calls[t].pc \in pcs
      /\ t \in B <=> calls'[t].pc \in pcs
      /\ A \subseteq Callers
  BY DEF CallersAt
<1> HIDE DEF A, B
<1>6. CASE calls[t].pc \in pcs /\ calls'[t].pc \notin pcs
  <2>1. B = A \ {t} /\ t \in A
    BY <1>3, <1>4, <1>5, <1>6
  <2>2. Cardinality(B) = Cardinality(A) - 1
    BY <1>1, <2>1, FS_RemoveElement
  <2> QED
    BY <1>1, <1>2, <1>3, <1>6, <2>2 DEF Moved, In
<1>7. CASE calls[t].pc \notin pcs /\ calls'[t].pc \in pcs
  <2>1. B = A \union {t} /\ t \notin A
    BY <1>3, <1>4, <1>5, <1>7
  <2>2. Cardinality(B) = Cardinality(A) + 1
    BY <1>1, <2>1, FS_AddElement
  <2> QED
    BY <1>1, <1>2, <1>3, <1>7, <2>2 DEF Moved, In
<1>8. CASE calls[t].pc \in pcs <=> calls'[t].pc \in pcs
  <2>1. A = B
    BY <1>3, <1>4, <1>5, <1>8
  <2>2. Moved(t, pcs) = 0
    BY <1>8 DEF Moved, In
  <2> QED
    BY <1>1, <1>2, <2>1, <2>2
<1> QED
  BY <1>6, <1>7, <1>8

\* What a step adds to the counters is what it counts.
Tally(t) ==
  /\ Others(t)
  /\ metrics'.l2_hit \in {metrics.l2_hit, metrics.l2_hit + 1}
  /\ Added("l1_hit") + Added("l1_miss") + Moved(t, {"get_l1"}) = history'.gets - history.gets
  /\ Added("l2_hit") + Added("l2_miss") + Moved(t, {"drop_expired", "get_l2"}) = Added("l1_miss")
  /\ Added("l3_hit") + Added("l3_miss") + Moved(t, {"get_l3"}) = Added("l2_miss")
  /\ Added("l3_to_l2") <= Added("l3_hit")
  /\ Added("l2_to_l1") <= Added("l2_hit") + Added("l3_hit")
  /\ history'.gets - history.gets <= history'.ops - history.ops

\* Where the count of an entry comes from.
Counted(t, n) ==
  \/ \E k \in Keys : l1.map[k] # NoEntry /\ l1.map[k].count = n
  \/ \E h \in Hashes : l2.index[h] # NoEntry /\ l2.index[h].count = n
  \/ calls[t].entry # NoEntry /\ calls[t].entry.count = n
  \/ n = 1
  \/ \E h \in Hashes : l2.index[h] # NoEntry /\ l2.index[h].count + 1 = n
                       /\ metrics'.l2_hit = metrics.l2_hit + 1
Counted1(t) == \A k \in Keys : l1'.map[k] # NoEntry => Counted(t, l1'.map[k].count)
Counted2(t) == \A h \in Hashes : l2'.index[h] # NoEntry => Counted(t, l2'.index[h].count)
CountedCall(t) == calls'[t].entry # NoEntry => Counted(t, calls'[t].entry.count)
AllCounted(t) == Tally(t) /\ Counted1(t) /\ Counted2(t) /\ CountedCall(t)

MetricNames == {"l1_hit", "l1_miss", "l2_hit", "l2_miss", "l3_hit", "l3_miss", "l3_to_l2", "l2_to_l1"}

LEMMA MetricsAre ==
  ASSUME metrics \in [DOMAIN NoMetrics -> Nat]
  PROVE  /\ metrics.l1_hit \in Nat /\ metrics.l1_miss \in Nat /\ metrics.l2_hit \in Nat
         /\ metrics.l2_miss \in Nat /\ metrics.l3_hit \in Nat /\ metrics.l3_miss \in Nat
         /\ metrics.l3_to_l2 \in Nat /\ metrics.l2_to_l1 \in Nat
<1>1. DOMAIN NoMetrics = MetricNames
  BY DEF NoMetrics, MetricNames
<1> QED
  BY <1>1 DEF MetricNames

LEMMA MetricsAreNext ==
  ASSUME (metrics \in [DOMAIN NoMetrics -> Nat])'
  PROVE  /\ metrics'.l1_hit \in Nat /\ metrics'.l1_miss \in Nat /\ metrics'.l2_hit \in Nat
         /\ metrics'.l2_miss \in Nat /\ metrics'.l3_hit \in Nat /\ metrics'.l3_miss \in Nat
         /\ metrics'.l3_to_l2 \in Nat /\ metrics'.l2_to_l1 \in Nat
<1>1. DOMAIN NoMetrics = MetricNames
  BY DEF NoMetrics, MetricNames
<1> QED
  BY <1>1 DEF MetricNames, NoMetrics

LEMMA TallyKeeps ==
  ASSUME CacheOK, CacheOK', GetsAreCounted, history.gets <= history.ops, NEW t \in Callers, Tally(t)
  PROVE  GetsAreCounted' /\ history'.gets <= history'.ops
<1>1. /\ metrics.l1_hit \in Nat /\ metrics.l1_miss \in Nat /\ metrics.l2_hit \in Nat
      /\ metrics.l2_miss \in Nat /\ metrics.l3_hit \in Nat /\ metrics.l3_miss \in Nat
      /\ metrics.l3_to_l2 \in Nat /\ metrics.l2_to_l1 \in Nat
  BY MetricsAre DEF CacheOK
<1>2. /\ metrics'.l1_hit \in Nat /\ metrics'.l1_miss \in Nat /\ metrics'.l2_hit \in Nat
      /\ metrics'.l2_miss \in Nat /\ metrics'.l3_hit \in Nat /\ metrics'.l3_miss \in Nat
      /\ metrics'.l3_to_l2 \in Nat /\ metrics'.l2_to_l1 \in Nat
  BY MetricsAreNext DEF CacheOK
<1>3. /\ history.gets \in Nat /\ history.ops \in Nat /\ history'.gets \in Nat /\ history'.ops \in Nat
  BY CacheNumbers DEF CacheOK, Histories
<1>4. \A pcs : /\ Uncounted(pcs) \in Nat /\ Uncounted(pcs)' \in Nat
               /\ Uncounted(pcs)' = Uncounted(pcs) + Moved(t, pcs)
  BY OneCallerMoves DEF Tally
<1>5. \A pcs : Moved(t, pcs) \in Int
  BY DEF Moved, In
<1>6. metrics'.l1_hit + metrics'.l1_miss + Uncounted({"get_l1"})' = history'.gets
  <2> DEFINE a == metrics.l1_hit  b == metrics.l1_miss  u == Uncounted({"get_l1"})
             c == metrics'.l1_hit  d == metrics'.l1_miss  v == Uncounted({"get_l1"})'
             m == Moved(t, {"get_l1"})  r == history.gets  s == history'.gets
  <2>1. a + b + u = r
    BY DEF GetsAreCounted
  <2>2. (c - a) + (d - b) + m = s - r
    BY DEF Tally, Added
  <2>3. v = u + m
    BY <1>4
  <2>4. a \in Nat /\ b \in Nat /\ c \in Nat /\ d \in Nat /\ r \in Nat /\ s \in Nat
    BY <1>1, <1>2, <1>3
  <2>5. u \in Nat /\ v \in Nat /\ m \in Int
    BY <1>4, <1>5
  <2>6. c + d + v = s
    <3> HIDE DEF a, b, c, d, m, r, s, u, v
    <3> QED
      BY <2>1, <2>2, <2>3, <2>4, <2>5
  <2> QED
    BY <2>6
<1>7. metrics'.l2_hit + metrics'.l2_miss + Uncounted({"drop_expired", "get_l2"})' = metrics'.l1_miss
  <2> DEFINE a == metrics.l2_hit  b == metrics.l2_miss  u == Uncounted({"drop_expired", "get_l2"})
             c == metrics'.l2_hit  d == metrics'.l2_miss  v == Uncounted({"drop_expired", "get_l2"})'
             m == Moved(t, {"drop_expired", "get_l2"})  r == metrics.l1_miss  s == metrics'.l1_miss
  <2>1. a + b + u = r
    BY DEF GetsAreCounted
  <2>2. (c - a) + (d - b) + m = s - r
    BY DEF Tally, Added
  <2>3. v = u + m
    BY <1>4
  <2>4. a \in Nat /\ b \in Nat /\ c \in Nat /\ d \in Nat /\ r \in Nat /\ s \in Nat
    BY <1>1, <1>2, <1>3
  <2>5. u \in Nat /\ v \in Nat /\ m \in Int
    BY <1>4, <1>5
  <2>6. c + d + v = s
    <3> HIDE DEF a, b, c, d, m, r, s, u, v
    <3> QED
      BY <2>1, <2>2, <2>3, <2>4, <2>5
  <2> QED
    BY <2>6
<1>8. metrics'.l3_hit + metrics'.l3_miss + Uncounted({"get_l3"})' = metrics'.l2_miss
  <2> DEFINE a == metrics.l3_hit  b == metrics.l3_miss  u == Uncounted({"get_l3"})
             c == metrics'.l3_hit  d == metrics'.l3_miss  v == Uncounted({"get_l3"})'
             m == Moved(t, {"get_l3"})  r == metrics.l2_miss  s == metrics'.l2_miss
  <2>1. a + b + u = r
    BY DEF GetsAreCounted
  <2>2. (c - a) + (d - b) + m = s - r
    BY DEF Tally, Added
  <2>3. v = u + m
    BY <1>4
  <2>4. a \in Nat /\ b \in Nat /\ c \in Nat /\ d \in Nat /\ r \in Nat /\ s \in Nat
    BY <1>1, <1>2, <1>3
  <2>5. u \in Nat /\ v \in Nat /\ m \in Int
    BY <1>4, <1>5
  <2>6. c + d + v = s
    <3> HIDE DEF a, b, c, d, m, r, s, u, v
    <3> QED
      BY <2>1, <2>2, <2>3, <2>4, <2>5
  <2> QED
    BY <2>6
<1>9. /\ metrics'.l3_to_l2 <= metrics'.l3_hit
      /\ metrics'.l2_to_l1 <= metrics'.l2_hit + metrics'.l3_hit
  BY <1>1, <1>2 DEF GetsAreCounted, Tally, Added
<1>10. history'.gets <= history'.ops
  BY <1>3 DEF Tally
<1> QED
  BY <1>6, <1>7, <1>8, <1>9, <1>10 DEF GetsAreCounted

LEMMA CountedKeep ==
  ASSUME CacheOK, CacheOK', HitsOK, NEW t \in Callers, AllCounted(t)
  PROVE  HitsOK'
<1>1. metrics.l2_hit \in Nat /\ metrics'.l2_hit \in Nat
  BY MetricsAre, MetricsAreNext DEF CacheOK
<1>2. metrics'.l2_hit >= metrics.l2_hit
  BY <1>1 DEF AllCounted, Tally
<1>3. /\ \A k \in Keys : l1.map[k] # NoEntry => l1.map[k].count \in Nat
      /\ \A h \in Hashes : l2.index[h] # NoEntry => l2.index[h].count \in Nat
      /\ \A u \in Callers : calls[u].entry # NoEntry => calls[u].entry.count \in Nat
  BY DEF CacheOK, L1OK, L2OK, CallsOK, CacheCalls, CachedEntries, IndexEntries
<1>4. \A n : Counted(t, n) => 1 <= n /\ n <= 1 + metrics'.l2_hit
  BY <1>1, <1>2, <1>3 DEF Counted, HitsOK, CountIn
<1>5. \A k \in Keys : CountIn(l1.map[k])'
  BY <1>4 DEF AllCounted, Counted1, CountIn
<1>6. \A h \in Hashes : CountIn(l2.index[h])'
  BY <1>4 DEF AllCounted, Counted2, CountIn
<1>7. \A u \in Callers : CountIn(calls[u].entry)'
  <2>1. SUFFICES ASSUME NEW u \in Callers PROVE CountIn(calls[u].entry)'
    OBVIOUS
  <2>2. CASE u = t
    BY <1>4, <2>2 DEF AllCounted, CountedCall, CountIn
  <2>3. CASE u # t
    BY <1>1, <1>2, <1>3, <2>3 DEF AllCounted, Tally, Others, HitsOK, CountIn
  <2> QED
    BY <2>2, <2>3
<1>8. GetsAreCounted' /\ history'.gets <= history'.ops
  BY TallyKeeps DEF AllCounted, HitsOK
<1> QED
  BY <1>5, <1>6, <1>7, <1>8 DEF HitsOK

\* A step that counts nothing.
LEMMA QuietTally ==
  ASSUME CacheOK, CacheOK', NEW t \in Callers, Others(t), metrics' = metrics,
         history'.gets = history.gets, history.ops <= history'.ops,
         \/ calls[t].pc \notin Getting /\ calls'[t].pc \notin Getting
         \/ calls[t].pc = "drop_expired" /\ calls'[t].pc = "get_l2"
  PROVE  Tally(t)
<1>1. /\ metrics.l1_hit \in Nat /\ metrics.l1_miss \in Nat /\ metrics.l2_hit \in Nat
      /\ metrics.l2_miss \in Nat /\ metrics.l3_hit \in Nat /\ metrics.l3_miss \in Nat
      /\ metrics.l3_to_l2 \in Nat /\ metrics.l2_to_l1 \in Nat
  BY MetricsAre DEF CacheOK
<1>2. /\ history.gets \in Nat /\ history.ops \in Nat /\ history'.gets \in Nat /\ history'.ops \in Nat
  BY CacheNumbers DEF CacheOK, Histories
<1>3. /\ Moved(t, {"get_l1"}) = 0 /\ Moved(t, {"drop_expired", "get_l2"}) = 0
      /\ Moved(t, {"get_l3"}) = 0
  BY DEF Moved, In, Getting
<1>4. /\ Added("l1_hit") = 0 /\ Added("l1_miss") = 0 /\ Added("l2_hit") = 0 /\ Added("l2_miss") = 0
      /\ Added("l3_hit") = 0 /\ Added("l3_miss") = 0 /\ Added("l3_to_l2") = 0 /\ Added("l2_to_l1") = 0
  BY <1>1 DEF Added
<1> QED
  BY <1>2, <1>3, <1>4 DEF Tally

LEMMA TiersCounted ==
  ASSUME NEW t
  PROVE  /\ l1'.map = l1.map => Counted1(t)
         /\ l2'.index = l2.index => Counted2(t)
BY DEF Counted1, Counted2, Counted

\* An entry goes, or stays.
LEMMA GoneCounted ==
  ASSUME NEW t
  PROVE  /\ (\A k \in Keys : l1'.map[k] # NoEntry => l1'.map[k] = l1.map[k]) => Counted1(t)
         /\ (\A h \in Hashes : l2'.index[h] # NoEntry => l2'.index[h] = l2.index[h]) => Counted2(t)
BY DEF Counted1, Counted2, Counted

\* A call goes on with its entry, or drops it.
LEMMA CallCounted ==
  ASSUME NEW t, Ends(t) \/ calls'[t].entry = calls[t].entry \/ calls'[t].entry = NoEntry
  PROVE  CountedCall(t)
BY DEF CountedCall, Counted, Ends, Idle

LEMMA GoesOnCounted ==
  ASSUME NEW t, NEW p, Turns(t, p, calls[t].entry)
  PROVE  Others(t) /\ calls'[t].pc = p /\ CountedCall(t)
BY CallCounted DEF Turns

LEMMA EndsCounted ==
  ASSUME NEW t, Ends(t)
  PROVE  Others(t) /\ calls'[t].pc = "idle" /\ CountedCall(t)
BY CallCounted DEF Ends, Idle

\* What a Count adds.
LEMMA CountAdds ==
  ASSUME CacheOK, NEW N, Count(N), NEW m \in MetricNames
  PROVE  Added(m) = In(m, N)
<1>1. DOMAIN NoMetrics = MetricNames
  BY DEF NoMetrics, MetricNames
<1>2. metrics'[m] = metrics[m] + (IF m \in N THEN 1 ELSE 0) /\ metrics[m] \in Nat
  BY <1>1, CountKeeps DEF CacheOK
<1> QED
  BY <1>2 DEF Added, In

LEMMA CountTally ==
  ASSUME CacheOK, CacheOK', NEW t \in Callers, Others(t), history' = history,
         NEW N, Count(N), NEW p, NEW q, p = calls[t].pc, q = calls'[t].pc,
         In("l1_hit", N) + In("l1_miss", N) + In(q, {"get_l1"}) = In(p, {"get_l1"}),
         In("l2_hit", N) + In("l2_miss", N) + In(q, {"drop_expired", "get_l2"})
           = In("l1_miss", N) + In(p, {"drop_expired", "get_l2"}),
         In("l3_hit", N) + In("l3_miss", N) + In(q, {"get_l3"}) = In("l2_miss", N) + In(p, {"get_l3"}),
         In("l3_to_l2", N) <= In("l3_hit", N),
         In("l2_to_l1", N) <= In("l2_hit", N) + In("l3_hit", N)
  PROVE  Tally(t)
<1>1. /\ Added("l1_hit") = In("l1_hit", N) /\ Added("l1_miss") = In("l1_miss", N)
      /\ Added("l2_hit") = In("l2_hit", N) /\ Added("l2_miss") = In("l2_miss", N)
      /\ Added("l3_hit") = In("l3_hit", N) /\ Added("l3_miss") = In("l3_miss", N)
      /\ Added("l3_to_l2") = In("l3_to_l2", N) /\ Added("l2_to_l1") = In("l2_to_l1", N)
  BY CountAdds DEF MetricNames
<1>2. \A x, S : In(x, S) \in {0, 1}
  BY DEF In
<1>3. history.gets \in Nat /\ history.ops \in Nat
  BY CacheNumbers DEF CacheOK, Histories
<1>4. history'.gets - history.gets = 0 /\ history'.ops - history.ops = 0
  BY <1>3
<1>5. metrics'.l2_hit \in {metrics.l2_hit, metrics.l2_hit + 1}
  <2>1. metrics.l2_hit \in Nat /\ metrics'.l2_hit \in Nat
    BY MetricsAre, MetricsAreNext DEF CacheOK
  <2>2. metrics'.l2_hit - metrics.l2_hit \in {0, 1}
    BY <1>1, <1>2 DEF Added
  <2> QED
    BY <2>1, <2>2
<1>6. /\ Moved(t, {"get_l1"}) = In(q, {"get_l1"}) - In(p, {"get_l1"})
      /\ Moved(t, {"drop_expired", "get_l2"}) = In(q, {"drop_expired", "get_l2"}) - In(p, {"drop_expired", "get_l2"})
      /\ Moved(t, {"get_l3"}) = In(q, {"get_l3"}) - In(p, {"get_l3"})
  BY DEF Moved
<1>7. Added("l1_hit") + Added("l1_miss") + Moved(t, {"get_l1"}) = history'.gets - history.gets
  BY <1>1, <1>2, <1>4, <1>6
<1>8. Added("l2_hit") + Added("l2_miss") + Moved(t, {"drop_expired", "get_l2"}) = Added("l1_miss")
  BY <1>1, <1>2, <1>6
<1>9. Added("l3_hit") + Added("l3_miss") + Moved(t, {"get_l3"}) = Added("l2_miss")
  BY <1>1, <1>2, <1>6
<1> QED
  BY <1>1, <1>4, <1>5, <1>7, <1>8, <1>9 DEF Tally

\* A hit or a miss of a tier ends the get or sends it on.
LEMMA GetsTally ==
  ASSUME CacheOK, CacheOK', NEW t \in Callers, Others(t), history' = history,
         \/ /\ calls[t].pc = "get_l1"
            /\ \/ Count({"l1_miss"}) /\ calls'[t].pc \in {"get_l2", "drop_expired"}
               \/ Count({"l1_hit"}) /\ calls'[t].pc = "idle"
         \/ /\ calls[t].pc = "get_l2"
            /\ \/ Count({"l2_miss"}) /\ calls'[t].pc = "get_l3"
               \/ Count({"l2_hit", "l2_to_l1"}) /\ calls'[t].pc = "check_l1"
               \/ Count({"l2_hit"}) /\ calls'[t].pc = "idle"
         \/ /\ calls[t].pc = "get_l3"
            /\ \/ Count({"l3_miss"}) /\ calls'[t].pc = "idle"
               \/ Count({"l3_hit"}) /\ calls'[t].pc = "idle"
               \/ Count({"l3_hit", "l3_to_l2", "l2_to_l1"}) /\ calls'[t].pc = "check_l1"
               \/ Count({"l3_hit", "l3_to_l2"}) /\ calls'[t].pc = "check_l2"
  PROVE  Tally(t)
<1>1. CASE Count({"l1_miss"}) /\ calls[t].pc = "get_l1" /\ calls'[t].pc \in {"get_l2", "drop_expired"}
  BY <1>1, CountTally DEF In
<1>2. CASE Count({"l1_hit"}) /\ calls[t].pc = "get_l1" /\ calls'[t].pc = "idle"
  BY <1>2, CountTally DEF In
<1>3. CASE Count({"l2_miss"}) /\ calls[t].pc = "get_l2" /\ calls'[t].pc = "get_l3"
  BY <1>3, CountTally DEF In
<1>4. CASE Count({"l2_hit", "l2_to_l1"}) /\ calls[t].pc = "get_l2" /\ calls'[t].pc = "check_l1"
  BY <1>4, CountTally DEF In
<1>5. CASE Count({"l2_hit"}) /\ calls[t].pc = "get_l2" /\ calls'[t].pc = "idle"
  BY <1>5, CountTally DEF In
<1>6. CASE Count({"l3_miss"}) /\ calls[t].pc = "get_l3" /\ calls'[t].pc = "idle"
  BY <1>6, CountTally DEF In
<1>7. CASE Count({"l3_hit"}) /\ calls[t].pc = "get_l3" /\ calls'[t].pc = "idle"
  BY <1>7, CountTally DEF In
<1>8. CASE Count({"l3_hit", "l3_to_l2", "l2_to_l1"}) /\ calls[t].pc = "get_l3" /\ calls'[t].pc = "check_l1"
  BY <1>8, CountTally DEF In
<1>9. CASE Count({"l3_hit", "l3_to_l2"}) /\ calls[t].pc = "get_l3" /\ calls'[t].pc = "check_l2"
  BY <1>9, CountTally DEF In
<1> QED
  BY <1>1, <1>2, <1>3, <1>4, <1>5, <1>6, <1>7, <1>8, <1>9

LEMMA GetsCounted ==
  ASSUME CacheOK, CacheOK', NEW t \in Callers,
         GetL1(t) \/ DropExpired(t) \/ GetL2(t) \/ GetL3(t)
  PROVE  AllCounted(t)
<1>1. CASE GetL1(t)
  <2> DEFINE m == calls[t].key
  <2>1. /\ UNCHANGED <<l1, l2, history>> /\ calls[t].pc = "get_l1" /\ m \in Keys
        /\ \/ Turns(t, "get_l2", calls[t].entry) /\ Count({"l1_miss"})
           \/ l1.map[m] # NoEntry /\ Turns(t, "drop_expired", l1.map[m]) /\ Count({"l1_miss"})
           \/ Ends(t) /\ Count({"l1_hit"})
    BY <1>1, GetL1Is
  <2>2. Others(t)
        /\ \/ Count({"l1_miss"}) /\ calls'[t].pc \in {"get_l2", "drop_expired"}
           \/ Count({"l1_hit"}) /\ calls'[t].pc = "idle"
    BY <2>1 DEF Turns, Ends, Idle
  <2>3. Tally(t)
    BY <2>1, <2>2, GetsTally
  <2>4. CountedCall(t)
    <3>1. CASE Turns(t, "get_l2", calls[t].entry) \/ Ends(t)
      BY <3>1, CallCounted DEF Turns
    <3>2. CASE l1.map[m] # NoEntry /\ Turns(t, "drop_expired", l1.map[m])
      BY <2>1, <3>2 DEF CountedCall, Counted, Turns
    <3> QED
      BY <2>1, <3>1, <3>2
  <2> QED
    BY <2>1, <2>3, <2>4, TiersCounted DEF AllCounted
<1>2. CASE DropExpired(t)
  <2> DEFINE m == calls[t].key
  <2>1. /\ UNCHANGED <<l2, metrics>> /\ m \in Keys /\ calls[t].pc = "drop_expired"
        /\ l1'.map = [l1.map EXCEPT ![m] = NoEntry] /\ Turns(t, "get_l2", NoEntry)
        /\ Removal({m}, OnlyInL1({m}) # {}, "L1", ~RemovesItsSize(m, calls[t].entry.size))
    BY <1>2, DropExpiredIs, L1Removal
  <2>2. CountedCall(t) /\ Others(t) /\ calls'[t].pc = "get_l2"
    BY <2>1, CallCounted DEF Turns
  <2>3. Counted1(t) /\ Counted2(t)
    BY <2>1, GoneCounted, TiersCounted DEF CacheOK, L1OK
  <2>4. history'.gets = history.gets /\ history.ops <= history'.ops
    BY <2>1, CacheNumbers DEF Removal, CacheOK, Histories
  <2>5. Tally(t)
    BY <2>1, <2>2, <2>4, QuietTally
  <2> QED
    BY <2>2, <2>3, <2>5 DEF AllCounted
<1>3. CASE GetL2(t)
  <2> DEFINE h == Hash[calls[t].key]
             i == l2.index[h]
  <2>1. /\ UNCHANGED <<l1, history>> /\ h \in Hashes /\ calls[t].pc = "get_l2"
        /\ \/ UNCHANGED l2 /\ Turns(t, "get_l3", calls[t].entry) /\ Count({"l2_miss"})
           \/ /\ i # NoEntry /\ i \in IndexEntries
              /\ l2' = [l2 EXCEPT !.index[h].count = @ + 1]
              /\ \/ Turns(t, "check_l1", FromL2(i, i.count + 1)) /\ Count({"l2_hit", "l2_to_l1"})
                 \/ Ends(t) /\ Count({"l2_hit"})
    BY <1>3, GetL2Is
  <2>2. Others(t)
        /\ \/ Count({"l2_miss"}) /\ calls'[t].pc = "get_l3"
           \/ Count({"l2_hit", "l2_to_l1"}) /\ calls'[t].pc = "check_l1"
           \/ Count({"l2_hit"}) /\ calls'[t].pc = "idle"
    BY <2>1 DEF Turns, Ends, Idle
  <2>3. Tally(t)
    BY <2>1, <2>2, GetsTally
  <2>4. CASE UNCHANGED l2 /\ Turns(t, "get_l3", calls[t].entry)
    BY <2>1, <2>3, <2>4, TiersCounted, CallCounted DEF AllCounted, Turns
  <2>5. CASE /\ i # NoEntry /\ i \in IndexEntries /\ l2' = [l2 EXCEPT !.index[h].count = @ + 1]
             /\ \/ Turns(t, "check_l1", FromL2(i, i.count + 1)) /\ Count({"l2_hit", "l2_to_l1"})
                \/ Ends(t) /\ Count({"l2_hit"})
    <3>1. metrics'.l2_hit = metrics.l2_hit + 1
      <4>1. DOMAIN NoMetrics = MetricNames
        BY DEF NoMetrics, MetricNames
      <4> QED
        BY <2>5, <4>1, CountKeeps DEF CacheOK, MetricNames
    <3>2. Counted(t, i.count + 1)
      BY <2>1, <2>5, <3>1 DEF Counted
    <3>3. Counted2(t)
      <4>1. /\ l2'.index[h].count = i.count + 1
            /\ \A g \in Hashes : g # h => l2'.index[g] = l2.index[g]
        BY <2>1, <2>5, HitStays
      <4> QED
        BY <3>2, <4>1 DEF Counted2, Counted
    <3>4. CountedCall(t)
      <4>1. CASE Ends(t)
        BY <4>1, CallCounted
      <4>2. CASE Turns(t, "check_l1", FromL2(i, i.count + 1))
        <5>1. calls'[t].entry.count = i.count + 1
          BY <2>5, <4>2, FromL2Is DEF Turns
        <5> QED
          BY <3>2, <5>1 DEF CountedCall
      <4> QED
        BY <2>5, <4>1, <4>2
    <3> QED
      BY <2>1, <2>3, <3>3, <3>4, TiersCounted DEF AllCounted
  <2> QED
    BY <2>1, <2>4, <2>5
<1>4. CASE GetL3(t)
  <2> DEFINE o == l3[calls[t].key]
  <2>1. /\ UNCHANGED <<l1, l2, history>> /\ calls[t].pc = "get_l3"
        /\ \/ Ends(t) /\ Count({"l3_miss"})
           \/ Ends(t) /\ Count({"l3_hit"})
           \/ /\ o \in StoredObjects
              /\ \/ Turns(t, "check_l1", Took(o)) /\ Count({"l3_hit", "l3_to_l2", "l2_to_l1"})
                 \/ Turns(t, "check_l2", Took(o)) /\ Count({"l3_hit", "l3_to_l2"})
    BY <1>4, GetL3Is
  <2>2. Others(t)
        /\ \/ Count({"l3_miss"}) /\ calls'[t].pc = "idle"
           \/ Count({"l3_hit"}) /\ calls'[t].pc = "idle"
           \/ Count({"l3_hit", "l3_to_l2", "l2_to_l1"}) /\ calls'[t].pc = "check_l1"
           \/ Count({"l3_hit", "l3_to_l2"}) /\ calls'[t].pc = "check_l2"
    BY <2>1 DEF Turns, Ends, Idle
  <2>3. Tally(t)
    BY <2>1, <2>2, GetsTally
  <2>4. CountedCall(t)
    <3>1. CASE Ends(t)
      BY <3>1, CallCounted
    <3>2. CASE /\ o \in StoredObjects
               /\ Turns(t, "check_l1", Took(o)) \/ Turns(t, "check_l2", Took(o))
      <4>1. Took(o).count = 1
        BY <3>2, EntryIs DEF Took, StoredObjects
      <4> QED
        BY <3>2, <4>1 DEF CountedCall, Counted, Turns
    <3> QED
      BY <2>1, <3>1, <3>2
  <2> QED
    BY <2>1, <2>3, <2>4, TiersCounted DEF AllCounted
<1> QED
  BY <1>1, <1>2, <1>3, <1>4

LEMMA BeginsCounted ==
  ASSUME CacheOK, CacheOK', NEW t \in Callers,
         BeginGet(t) \/ BeginPut(t) \/ BeginDelete(t) \/ BeginClear(t)
  PROVE  AllCounted(t)
<1>0. history.ops \in Nat /\ history.gets \in Nat
  BY CacheNumbers DEF CacheOK, Histories
<1>1. CASE BeginGet(t)
  <2>1. PICK k \in Keys : Begin(t, "get", k) /\ Starts(t, "get_l1", "get", k, NoEntry)
    BY <1>1, BeginGetIs
  <2>2. UNCHANGED <<l1, l2, metrics>>
    BY <1>1, BeginGetIs
  <2>3. history'.gets = history.gets + 1 /\ history'.ops = history.ops + 1
    BY <2>1, BeginHistory
  <2>4. /\ Others(t) /\ calls[t].pc = "idle" /\ calls'[t].pc = "get_l1" /\ calls'[t].entry = NoEntry
    BY <2>1 DEF Starts, Idle
  <2>5. /\ Moved(t, {"get_l1"}) = 1 /\ Moved(t, {"drop_expired", "get_l2"}) = 0
        /\ Moved(t, {"get_l3"}) = 0
    BY <2>4 DEF Moved, In
  <2>6. /\ Added("l1_hit") = 0 /\ Added("l1_miss") = 0 /\ Added("l2_hit") = 0 /\ Added("l2_miss") = 0
        /\ Added("l3_hit") = 0 /\ Added("l3_miss") = 0 /\ Added("l3_to_l2") = 0 /\ Added("l2_to_l1") = 0
    BY <2>2, MetricsAre DEF Added, CacheOK
  <2>7. history'.gets - history.gets = 1 /\ history'.ops - history.ops = 1
    BY <1>0, <2>3
  <2>8. Tally(t)
    BY <2>2, <2>4, <2>5, <2>6, <2>7 DEF Tally
  <2> QED
    BY <2>2, <2>4, <2>8, TiersCounted, CallCounted DEF AllCounted
<1>2. CASE BeginDelete(t)
  <2>1. PICK k \in Keys : Begin(t, "delete", k) /\ Starts(t, "find_l1", "delete", k, NoEntry)
    BY <1>2, BeginDeleteIs
  <2>2. UNCHANGED <<l1, l2, metrics>>
    BY <1>2, BeginDeleteIs
  <2>3. history'.gets = history.gets /\ history.ops <= history'.ops
    <3>1. history'.gets = history.gets + (IF "delete" = "get" THEN 1 ELSE 0)
          /\ history'.ops = history.ops + 1
      BY <2>1, BeginHistory
    <3> QED
      BY <1>0, <3>1
  <2>4. /\ Others(t) /\ calls[t].pc = "idle" /\ calls'[t].pc = "find_l1" /\ calls'[t].entry = NoEntry
    BY <2>1 DEF Starts, Idle
  <2>5. Tally(t)
    BY <2>2, <2>3, <2>4, QuietTally DEF Getting
  <2> QED
    BY <2>2, <2>4, <2>5, TiersCounted, CallCounted DEF AllCounted
<1>3. CASE BeginPut(t)
  <2>1. PICK k \in Keys, e \in CachedEntries :
         /\ UNCHANGED <<l1, l2, metrics>> /\ e.count = 1
         /\ history' = Excuse([history EXCEPT !.next = @ + 1], {k}, Overlaps(k, "put"))
         /\ \/ Starts(t, "put_l3", "put", k, e)
            \/ Starts(t, "check_l1", "put", k, e)
            \/ Starts(t, "check_l2", "put", k, e)
    BY <1>3, BeginPutIs
  <2>2. history'.gets = history.gets /\ history'.ops = history.ops
    BY <2>1 DEF Excuse, CacheOK, Histories
  <2>3. /\ Others(t) /\ calls[t].pc = "idle" /\ calls'[t].pc \notin Getting /\ calls'[t].entry = e
    BY <2>1 DEF Starts, Idle, Getting
  <2>4. Tally(t)
    <3>1. history.ops <= history'.ops /\ calls[t].pc \notin Getting /\ metrics' = metrics
      BY <1>0, <2>1, <2>2, <2>3 DEF Getting
    <3> QED
      BY <2>2, <2>3, <3>1, QuietTally
  <2>5. CountedCall(t)
    BY <2>1, <2>3 DEF CountedCall, Counted
  <2> QED
    BY <2>1, <2>4, <2>5, TiersCounted DEF AllCounted
<1>4. CASE BeginClear(t)
  <2>1. /\ UNCHANGED <<l2, metrics>> /\ l1'.map = [k \in Keys |-> NoEntry]
        /\ history' = Excuse([history EXCEPT !.ops = @ + 1], OnlyInL1(Keys), TRUE)
        /\ Starts(t, "zero_l1", "clear", NoEntry, NoEntry)
    BY <1>4, BeginClearIs
  <2>2. history'.gets = history.gets /\ history'.ops = history.ops + 1
    BY <2>1 DEF Excuse, CacheOK, Histories
  <2>3. /\ Others(t) /\ calls[t].pc = "idle" /\ calls'[t].pc = "zero_l1" /\ calls'[t].entry = NoEntry
    BY <2>1 DEF Starts, Idle
  <2>4. Tally(t)
    <3>1. history.ops <= history'.ops /\ calls[t].pc \notin Getting /\ calls'[t].pc \notin Getting
      BY <1>0, <2>2, <2>3 DEF Getting
    <3>2. metrics' = metrics
      BY <2>1
    <3> QED
      BY <2>2, <2>3, <3>1, <3>2, QuietTally
  <2>5. Counted1(t)
    BY <2>1 DEF Counted1
  <2> QED
    BY <2>1, <2>3, <2>4, <2>5, TiersCounted, CallCounted DEF AllCounted
<1> QED
  BY <1>1, <1>2, <1>3, <1>4

\* A step outside the gets, which leaves the operations begun.
LEMMA StepTally ==
  ASSUME CacheOK, CacheOK', NEW t \in Callers, Others(t), metrics' = metrics,
         history'.gets = history.gets, history'.ops = history.ops,
         calls[t].pc \notin Getting, calls'[t].pc \notin Getting
  PROVE  Tally(t)
<1>1. history.ops <= history'.ops
  BY CacheNumbers DEF CacheOK, Histories
<1> QED
  BY <1>1, QuietTally

LEMMA PutsCounted ==
  ASSUME CacheOK, CacheOK', NEW t \in Callers,
         PutL3(t) \/ CheckL1(t) \/ EvictL1(t) \/ InsertL1(t)
  PROVE  AllCounted(t)
<1>1. CASE PutL3(t)
  <2> DEFINE e == calls[t].entry
  <2>1. /\ UNCHANGED <<l1, l2, metrics>> /\ calls[t].pc = "put_l3"
        /\ \/ Ends(t) /\ UNCHANGED history
           \/ /\ history' = [history EXCEPT !.stored = @ \cup {e.ver}]
              /\ Turns(t, "check_l1", e) \/ Turns(t, "check_l2", e)
    BY <1>1, PutL3Is
  <2>2. history'.gets = history.gets /\ history'.ops = history.ops
    BY <2>1 DEF CacheOK, Histories
  <2>3. Others(t) /\ CountedCall(t) /\ calls'[t].pc \in {"idle", "check_l1", "check_l2"}
    BY <2>1, GoesOnCounted, EndsCounted
  <2>4. Tally(t)
    BY <2>1, <2>2, <2>3, StepTally DEF Getting
  <2> QED
    BY <2>1, <2>3, <2>4, TiersCounted DEF AllCounted
<1>2. CASE CheckL1(t)
  <2>1. /\ UNCHANGED <<l1, l2, metrics>> /\ calls[t].pc = "check_l1"
        /\ Turns(t, "evict_l1", calls[t].entry) \/ Turns(t, "insert_l1", calls[t].entry)
        /\ history' = Crowd(history, "L1", \E u \in Callers : calls[u].pc \in {"evict_l1", "insert_l1"})
    BY <1>2, CheckL1Is
  <2>2. history'.gets = history.gets /\ history'.ops = history.ops
    BY <2>1, CrowdKeeps DEF Tiers
  <2>3. Others(t) /\ CountedCall(t) /\ calls'[t].pc \in {"evict_l1", "insert_l1"}
    BY <2>1, GoesOnCounted
  <2>4. Tally(t)
    BY <2>1, <2>2, <2>3, StepTally DEF Getting
  <2> QED
    BY <2>1, <2>3, <2>4, TiersCounted DEF AllCounted
<1>3. CASE EvictL1(t)
  <2>1. UNCHANGED <<l2, metrics>> /\ calls[t].pc = "evict_l1"
    BY <1>3, EvictL1Is
  <2>2. CASE /\ Turns(t, "insert_l1", calls[t].entry) /\ UNCHANGED l1
             /\ history' = Crowd(history, "L1", should_continue_eviction /\ calls[t].left = 0)
    <3>1. history'.gets = history.gets /\ history'.ops = history.ops
      BY <2>2, CrowdKeeps DEF Tiers
    <3>2. Others(t) /\ CountedCall(t) /\ calls'[t].pc = "insert_l1"
      BY <2>2, GoesOnCounted
    <3>3. Tally(t)
      BY <2>1, <3>1, <3>2, StepTally DEF Getting
    <3> QED
      BY <2>1, <2>2, <3>2, <3>3, TiersCounted DEF AllCounted
  <2>3. ASSUME NEW c, EvictsL1(t, c) PROVE AllCounted(t)
    <3>1. Turns(t, "evict_l1", calls[t].entry) /\ c.key \in Keys
      BY <2>3 DEF EvictsL1, L1Candidates
    <3>2. Others(t) /\ CountedCall(t) /\ calls'[t].pc = "evict_l1"
      BY <3>1, GoesOnCounted
    <3>3. CASE UNCHANGED <<l1, history>>
      <4>1. Tally(t)
        BY <2>1, <3>2, <3>3, StepTally DEF Getting
      <4> QED
        BY <2>1, <3>2, <3>3, <4>1, TiersCounted DEF AllCounted
    <3>4. CASE ~UNCHANGED <<l1, history>>
      <4>1. /\ l1'.map = [l1.map EXCEPT ![c.key] = NoEntry]
            /\ history' = Drift(Excuse(history, {c.key}, OnlyInL1({c.key}) # {}),
                                "L1", ~RemovesItsSize(c.key, c.size))
        BY <2>3, <3>4 DEF EvictsL1
      <4>2. Removal({c.key}, OnlyInL1({c.key}) # {}, "L1", ~RemovesItsSize(c.key, c.size))
        BY <3>1, <4>1, L1Removal
      <4>3. history'.gets = history.gets /\ history'.ops = history.ops
        BY <4>2 DEF Removal
      <4>4. Counted1(t)
        BY <3>1, <4>1, GoneCounted DEF CacheOK, L1OK
      <4>5. Tally(t)
        BY <2>1, <3>2, <4>3, StepTally DEF Getting
      <4> QED
        BY <2>1, <3>2, <4>4, <4>5, TiersCounted DEF AllCounted
    <3> QED
      BY <3>3, <3>4
  <2> QED
    BY <1>3, <2>2, <2>3, EvictL1Is
<1>4. CASE InsertL1(t)
  <2> DEFINE k == calls[t].key
             e == calls[t].entry
  <2>1. /\ UNCHANGED <<l2, metrics>> /\ calls[t].pc = "insert_l1" /\ k \in Keys /\ Ends(t)
        /\ e # NoEntry
        /\ \/ Outcome(t, TRUE, "L1") /\ l1'.map = [l1.map EXCEPT ![k] = e]
           \/ Outcome(t, FALSE, "L1") /\ UNCHANGED l1
    BY <1>4, InsertL1Is
  <2>2. history'.gets = history.gets /\ history'.ops = history.ops
    BY <2>1 DEF Outcome
  <2>3. Others(t) /\ CountedCall(t) /\ calls'[t].pc = "idle"
    BY <2>1, EndsCounted
  <2>4. Tally(t)
    BY <2>1, <2>2, <2>3, StepTally DEF Getting
  <2>5. Counted1(t)
    BY <2>1, TiersCounted DEF Counted1, Counted, CacheOK, L1OK
  <2> QED
    BY <2>1, <2>3, <2>4, <2>5, TiersCounted DEF AllCounted
<1> QED
  BY <1>1, <1>2, <1>3, <1>4

LEMMA FillsCounted ==
  ASSUME CacheOK, CacheOK', NEW t \in Callers,
         CheckL2(t) \/ EvictL2(t) \/ AllocL2(t) \/ InsertL2(t)
  PROVE  AllCounted(t)
<1>1. CASE CheckL2(t)
  <2>1. /\ UNCHANGED <<l1, l2, metrics>> /\ calls[t].pc = "check_l2"
        /\ \/ Ends(t) /\ Outcome(t, FALSE, "L2")
           \/ /\ Turns(t, "evict_l2", calls[t].entry) \/ Turns(t, "alloc_l2", calls[t].entry)
              /\ history' = Crowd(history, "L2", FillingL2)
    BY <1>1, CheckL2Is
  <2>2. FillingL2 \in BOOLEAN /\ "L2" \in Tiers
    BY DEF FillingL2, Tiers
  <2>3. history'.gets = history.gets /\ history'.ops = history.ops
    BY <2>1, <2>2, CrowdKeeps DEF Outcome
  <2>4. Others(t) /\ CountedCall(t) /\ calls'[t].pc \in {"idle", "evict_l2", "alloc_l2"}
    BY <2>1, GoesOnCounted, EndsCounted
  <2>5. Tally(t)
    BY <2>1, <2>3, <2>4, StepTally DEF Getting
  <2> QED
    BY <2>1, <2>4, <2>5, TiersCounted DEF AllCounted
<1>2. CASE EvictL2(t)
  <2>1. /\ UNCHANGED <<l1, metrics>> /\ calls[t].pc = "evict_l2"
        /\ Turns(t, "alloc_l2", calls[t].entry) /\ \E gone : EvictsL2(t, gone)
    BY <1>2, EvictL2Is
  <2>2. PICK gone : EvictsL2(t, gone)
    BY <2>1
  <2>3. /\ l2'.index = Without1(l2.index, gone)
        /\ history' = Drift(Excuse(history, OnlyInL2(Hashed(gone)), TRUE), "L2", Stale(gone) # {})
    BY <2>2 DEF EvictsL2
  <2>4. Removal(OnlyInL2(Hashed(gone)), TRUE, "L2", Stale(gone) # {})
    <3>1. (Stale(gone) # {}) \in BOOLEAN
      OBVIOUS
    <3> QED
      BY <2>3, <3>1, L2Removal
  <2>5. history'.gets = history.gets /\ history'.ops = history.ops
    BY <2>4 DEF Removal
  <2>6. Counted2(t)
    BY <2>3, L2Domain, GoneCounted DEF Without1, CacheOK
  <2>7. Others(t) /\ CountedCall(t) /\ calls'[t].pc = "alloc_l2"
    BY <2>1, GoesOnCounted
  <2>8. Tally(t)
    BY <2>1, <2>5, <2>7, StepTally DEF Getting
  <2> QED
    BY <2>1, <2>6, <2>7, <2>8, TiersCounted DEF AllCounted
<1>3. CASE AllocL2(t)
  <2>1. /\ UNCHANGED <<l1, metrics>> /\ calls[t].pc = "alloc_l2" /\ l2'.index = l2.index
        /\ Turns(t, "insert_l2", calls[t].entry)
        /\ history' = [history EXCEPT !.crossed = @ \/ \E u \in Callers : At(u, "insert_l2")]
    BY <1>3, AllocL2Is
  <2>2. history'.gets = history.gets /\ history'.ops = history.ops
    BY <2>1 DEF CacheOK, Histories
  <2>3. Others(t) /\ CountedCall(t) /\ calls'[t].pc = "insert_l2"
    BY <2>1, GoesOnCounted
  <2>4. Tally(t)
    BY <2>1, <2>2, <2>3, StepTally DEF Getting
  <2> QED
    BY <2>1, <2>3, <2>4, TiersCounted DEF AllCounted
<1>4. CASE InsertL2(t)
  <2> DEFINE k == calls[t].key
             e == calls[t].entry
             i == IndexEntry(e, l2.file, calls[t].left)
  <2>1. /\ UNCHANGED <<l1, metrics>> /\ calls[t].pc = "insert_l2" /\ k \in Keys /\ Ends(t)
        /\ e # NoEntry /\ Outcome(t, TRUE, "L2") /\ InsertsL2(t)
    BY <1>4, InsertL2Is
  <2>2. l2'.index = [l2.index EXCEPT ![Hash[k]] = i] /\ i.count = e.count
    BY <2>1 DEF InsertsL2, IndexEntry
  <2>3. history'.gets = history.gets /\ history'.ops = history.ops
    BY <2>1 DEF Outcome
  <2>4. Others(t) /\ CountedCall(t) /\ calls'[t].pc = "idle"
    BY <2>1, EndsCounted
  <2>5. Tally(t)
    BY <2>1, <2>3, <2>4, StepTally DEF Getting
  <2>6. Counted2(t)
    BY <2>1, <2>2 DEF Counted2, Counted, CacheOK, L2OK
  <2> QED
    BY <2>1, <2>4, <2>5, <2>6, TiersCounted DEF AllCounted
<1> QED
  BY <1>1, <1>2, <1>3, <1>4

LEMMA DeletesCounted ==
  ASSUME CacheOK, CacheOK', NEW t \in Callers,
         FindL1(t) \/ DeleteL1(t) \/ DeleteL2(t) \/ DeleteL3(t)
  PROVE  AllCounted(t)
<1>1. CASE FindL1(t)
  <2> DEFINE m == calls[t].key
  <2>1. /\ UNCHANGED <<l1, l2, metrics, history>> /\ calls[t].pc = "find_l1" /\ m \in Keys
        /\ \/ Turns(t, "delete_l2", l1.map[m])
           \/ Turns(t, "delete_l1", l1.map[m])
    BY <1>1, FindL1Is
  <2>2. Others(t) /\ CountedCall(t) /\ calls'[t].pc \in {"delete_l1", "delete_l2"}
    BY <2>1 DEF Turns, CountedCall, Counted
  <2>3. Tally(t)
    BY <2>1, <2>2, StepTally DEF Getting
  <2> QED
    BY <2>1, <2>2, <2>3, TiersCounted DEF AllCounted
<1>2. CASE DeleteL1(t)
  <2> DEFINE m == calls[t].key
             s == calls[t].entry.size
  <2>1. /\ UNCHANGED <<l2, metrics>> /\ m \in Keys /\ calls[t].pc = "delete_l1"
        /\ Turns(t, "delete_l2", NoEntry)
        /\ \/ UNCHANGED <<l1, history>>
           \/ /\ l1'.map = [l1.map EXCEPT ![m] = NoEntry]
              /\ history' = Drift(Excuse(history, {m}, OnlyInL1({m}) # {}), "L1", ~RemovesItsSize(m, s))
    BY <1>2, DeleteL1Is
  <2>2. Others(t) /\ CountedCall(t) /\ calls'[t].pc = "delete_l2"
    BY <2>1, CallCounted DEF Turns
  <2>3. CASE UNCHANGED <<l1, history>>
    <3>1. Tally(t)
      BY <2>1, <2>2, <2>3, StepTally DEF Getting
    <3> QED
      BY <2>1, <2>2, <2>3, <3>1, TiersCounted DEF AllCounted
  <2>4. CASE /\ l1'.map = [l1.map EXCEPT ![m] = NoEntry]
             /\ history' = Drift(Excuse(history, {m}, OnlyInL1({m}) # {}), "L1", ~RemovesItsSize(m, s))
    <3>1. Removal({m}, OnlyInL1({m}) # {}, "L1", ~RemovesItsSize(m, s))
      BY <2>1, <2>4, L1Removal
    <3>2. history'.gets = history.gets /\ history'.ops = history.ops
      BY <3>1 DEF Removal
    <3>3. Counted1(t)
      BY <2>1, <2>4, GoneCounted DEF CacheOK, L1OK
    <3>4. Tally(t)
      BY <2>1, <2>2, <3>2, StepTally DEF Getting
    <3> QED
      BY <2>1, <2>2, <3>3, <3>4, TiersCounted DEF AllCounted
  <2> QED
    BY <2>1, <2>3, <2>4
<1>3. CASE DeleteL2(t)
  <2> DEFINE h == Hash[calls[t].key]
  <2>1. /\ UNCHANGED <<l1, metrics>> /\ h \in Hashes /\ calls[t].pc = "delete_l2"
        /\ l2'.index = [l2.index EXCEPT ![h] = NoEntry]
        /\ history' = Excuse(history, OnlyInL2({h}), TRUE)
        /\ Turns(t, "delete_l3", calls[t].entry)
    BY <1>3, DeleteL2Is
  <2>2. history'.gets = history.gets /\ history'.ops = history.ops
    BY <2>1 DEF Excuse, CacheOK, Histories
  <2>3. Others(t) /\ CountedCall(t) /\ calls'[t].pc = "delete_l3"
    BY <2>1, GoesOnCounted
  <2>4. Tally(t)
    BY <2>1, <2>2, <2>3, StepTally DEF Getting
  <2>5. Counted2(t)
    BY <2>1, GoneCounted DEF CacheOK, L2OK
  <2> QED
    BY <2>1, <2>3, <2>4, <2>5, TiersCounted DEF AllCounted
<1>4. CASE DeleteL3(t)
  <2> DEFINE m == calls[t].key
  <2>1. /\ UNCHANGED <<l1, l2, metrics>> /\ Ends(t) /\ calls[t].pc = "delete_l3"
        /\ \/ UNCHANGED <<l3, history>>
           \/ history' = [history EXCEPT !.last[m] = NoEntry]
    BY <1>4, DeleteL3Is
  <2>2. history'.gets = history.gets /\ history'.ops = history.ops
    BY <2>1 DEF CacheOK, Histories
  <2>3. Others(t) /\ CountedCall(t) /\ calls'[t].pc = "idle"
    BY <2>1, EndsCounted
  <2>4. Tally(t)
    BY <2>1, <2>2, <2>3, StepTally DEF Getting
  <2> QED
    BY <2>1, <2>3, <2>4, TiersCounted DEF AllCounted
<1> QED
  BY <1>1, <1>2, <1>3, <1>4

LEMMA ClearsCounted ==
  ASSUME CacheOK, CacheOK', NEW t \in Callers, ZeroL1(t) \/ ClearL2(t)
  PROVE  AllCounted(t)
<1>1. CASE ZeroL1(t)
  <2>1. /\ UNCHANGED <<l2, metrics>> /\ l1'.map = l1.map /\ calls[t].pc = "zero_l1"
        /\ history' = Drift(history, "L1", Present(l1.map) # {})
        /\ Turns(t, "clear_l2", calls[t].entry)
    BY <1>1, ZeroL1Is
  <2>2. history'.gets = history.gets /\ history'.ops = history.ops
    BY <2>1 DEF Drift, CacheOK, Histories
  <2>3. Others(t) /\ CountedCall(t) /\ calls'[t].pc = "clear_l2"
    BY <2>1, GoesOnCounted
  <2>4. Tally(t)
    BY <2>1, <2>2, <2>3, StepTally DEF Getting
  <2> QED
    BY <2>1, <2>3, <2>4, TiersCounted DEF AllCounted
<1>2. CASE ClearL2(t)
  <2>1. /\ UNCHANGED <<l1, metrics>> /\ calls[t].pc = "clear_l2"
        /\ l2'.index = [h \in Hashes |-> NoEntry] /\ Ends(t)
        /\ history' = [Excuse(history, OnlyInL2(Hashes), TRUE)
                          EXCEPT !.crossed = @ \/ \E u \in Callers : At(u, "insert_l2")]
    BY <1>2, ClearL2Is
  <2>2. history'.gets = history.gets /\ history'.ops = history.ops
    BY <2>1 DEF Excuse, CacheOK, Histories
  <2>3. Others(t) /\ CountedCall(t) /\ calls'[t].pc = "idle"
    BY <2>1, EndsCounted
  <2>4. Tally(t)
    BY <2>1, <2>2, <2>3, StepTally DEF Getting
  <2>5. Counted2(t)
    BY <2>1 DEF Counted2
  <2> QED
    BY <2>1, <2>3, <2>4, <2>5, TiersCounted DEF AllCounted
<1> QED
  BY <1>1, <1>2

LEMMA HitsKeep ==
  ASSUME CacheOK, HitsOK, [Next]_vars
  PROVE  HitsOK'
<1>1. CacheOK'
  BY CacheKeeps
<1>2. CASE UNCHANGED <<l1, l2, calls, metrics, history>>
  BY <1>2 DEF HitsOK, GetsAreCounted, Uncounted, CountIn
<1>3. CASE UNCHANGED vars
  BY <1>2, <1>3 DEF vars
<1>4. CASE Expire
  BY <1>2, <1>4, ExpireIs
<1>5. ASSUME NEW t \in Callers, AllCounted(t)
      PROVE  HitsOK'
  BY <1>1, <1>5, CountedKeep
<1>6. ASSUME NEW t \in Callers,
             BeginGet(t) \/ BeginPut(t) \/ BeginDelete(t) \/ BeginClear(t)
      PROVE  HitsOK'
  BY <1>1, <1>5, <1>6, BeginsCounted
<1>7. ASSUME NEW t \in Callers, Step(t)
      PROVE  HitsOK'
  <2>1. AllCounted(t)
    BY <1>1, <1>7, GetsCounted, PutsCounted, FillsCounted, DeletesCounted, ClearsCounted DEF Step
  <2> QED
    BY <1>5, <2>1
<1> QED
  BY <1>3, <1>4, <1>6, <1>7 DEF Next

-----------------------------------------------------------------------------
(* The cache: the bytes of L1.                                             *)

LEMMA ProductsAre ==
  ASSUME NEW a \in Nat, NEW b \in Nat, NEW k \in Nat
  PROVE  /\ a * k \in Nat /\ (a + 1) * k = a * k + k
         /\ a <= b => a * k <= b * k
         /\ a < b /\ k > 0 => a * k < b * k
<1>1. a * k \in Nat /\ (a + 1) * k = a * k + k
  OBVIOUS
<1>2. a <= b => a * k <= b * k
  OBVIOUS
<1>3. a < b /\ k > 0 => a * k < b * k
  OBVIOUS
<1> QED
  BY <1>1, <1>2, <1>3

\* What L1 can hold, and what calls of clear can be about to take off its counter.
Room1 == Cardinality(Keys) * L1Capacity
Clearers == Uncounted({"zero_l1"})
Bytes1 == BytesOf(l1.map)
Bytes1OK == "L1" \notin history.drifted =>
  \E n \in Nat : l1.size = Bytes1 + n /\ n <= Clearers * Room1

LEMMA L1Sized ==
  ASSUME CacheOK
  PROVE  Sized(l1.map, Keys)
<1>1. \A k \in Keys : l1.map[k] # NoEntry => l1.map[k] \in CachedEntries
  BY DEF CacheOK, L1OK
<1> QED
  BY <1>1, CacheSizes, CacheNumbers DEF Sized, CacheOK, L1OK

LEMMA L1SizedNext ==
  ASSUME CacheOK'
  PROVE  Sized(l1'.map, Keys)
<1>1. \A k \in Keys : l1'.map[k] # NoEntry => l1'.map[k] \in CachedEntries
  BY DEF CacheOK, L1OK
<1>2. \A e \in CachedEntries : e.size \in Nat
  BY CacheNumbers DEF CachedEntries
<1> QED
  BY <1>1, <1>2, CacheNumbers DEF Sized, CacheOK, L1OK

LEMMA Bytes1Fit ==
  ASSUME CacheOK
  PROVE  Bytes1 \in Nat /\ Bytes1 <= Room1 /\ Room1 \in Nat /\ l1.size \in Nat
<1>1. Sized(l1.map, Keys) /\ L1Capacity \in Nat
  BY L1Sized, CacheNumbers
<1>2. \A k \in Keys : l1.map[k] # NoEntry => l1.map[k].size <= L1Capacity
  BY DEF CacheOK, L1OK
<1>3. Bytes1 \in Nat /\ Bytes1 <= Room1
  BY <1>1, <1>2, BytesBound, Zenon DEF Bytes1, Room1
<1>4. Room1 \in Nat
  BY CacheNumbers, ProductsAre DEF Room1
<1> QED
  BY <1>3, <1>4, CacheSizes

LEMMA Bytes1FitNext ==
  ASSUME CacheOK'
  PROVE  Bytes1' \in Nat /\ Bytes1' <= Room1 /\ l1'.size \in Nat
<1>1. Sized(l1'.map, Keys) /\ L1Capacity \in Nat
  BY L1SizedNext, CacheNumbers
<1>2. \A k \in Keys : l1'.map[k] # NoEntry => l1'.map[k].size <= L1Capacity
  BY DEF CacheOK, L1OK
<1>3. BytesOf(l1'.map) \in Nat /\ BytesOf(l1'.map) <= Room1
  BY <1>1, <1>2, BytesBound, Zenon DEF Room1
<1>4. l1'.size \in Nat
  BY CacheNumbers DEF CacheOK, L1OK
<1> QED
  BY <1>3, <1>4 DEF Bytes1

\* The counter of L1 is below Word, with the slack of the calls of clear.
LEMMA SlackFits ==
  ASSUME NEW b \in Nat, b <= Room1, NEW n \in Nat, NEW z \in Nat, z <= Cardinality(Callers),
         n <= z * Room1
  PROVE  b + n < Word
<1>1. Room1 \in Nat /\ Cardinality(Callers) \in Nat /\ Word \in Nat
  BY CacheNumbers, ProductsAre DEF Room1
<1>2. z * Room1 <= Cardinality(Callers) * Room1 /\ z * Room1 \in Nat
      /\ (Cardinality(Callers) + 1) * Room1 = Cardinality(Callers) * Room1 + Room1
      /\ Cardinality(Callers) * Room1 \in Nat
  BY <1>1, ProductsAre
<1>3. (Cardinality(Callers) + 1) * Room1 < Word
  BY WordAssumption DEF Room1
<1>4. n <= Cardinality(Callers) * Room1
  BY <1>1, <1>2
<1> QED
  BY <1>1, <1>2, <1>3, <1>4

LEMMA ModIs ==
  ASSUME NEW x \in Nat, x < Word
  PROVE  x % Word = x
BY CacheNumbers

LEMMA ClearersAre ==
  ASSUME NEW t \in Callers, Others(t)
  PROVE  /\ Clearers \in Nat /\ Clearers' \in Nat /\ Clearers' = Clearers + Moved(t, {"zero_l1"})
BY OneCallerMoves DEF Clearers

LEMMA FewClearers == Clearers \in Nat /\ Clearers <= Cardinality(Callers)
<1>1. CallersAt({"zero_l1"}) \subseteq Callers /\ Clearers = Cardinality(CallersAt({"zero_l1"}))
  BY CallersCount DEF CallersAt, Clearers
<1> QED
  BY <1>1, CacheNumbers, FS_Subset, CallersCount

LEMMA Bytes1Next ==
  ASSUME "L1" \notin history'.drifted =>
           \E n \in Nat : l1'.size = Bytes1' + n /\ n <= Clearers' * Room1
  PROVE  Bytes1OK'
BY DEF Bytes1OK, Room1

\* What a step does to the map of L1 and its counter.
Calm1(t) ==
  /\ Others(t) /\ l1' = l1 /\ history.drifted \subseteq history'.drifted
  /\ calls[t].pc # "zero_l1"
Off1(t, k, s) ==
  /\ Others(t) /\ k \in Keys /\ s \in Nat
  /\ l1'.map = [l1.map EXCEPT ![k] = NoEntry] /\ l1'.size = Minus(l1.size, s)
  /\ history'.drifted = IF ~RemovesItsSize(k, s) THEN history.drifted \union {"L1"}
                        ELSE history.drifted
  /\ calls[t].pc # "zero_l1"
On1(t, k, e) ==
  /\ Others(t) /\ k \in Keys /\ e \in CachedEntries /\ e # NoEntry
  /\ l1'.map = [l1.map EXCEPT ![k] = e]
  /\ l1'.size = Plus(l1.size, e.size - SizeIn(l1.map, k))
  /\ history'.drifted = history.drifted
  /\ calls[t].pc # "zero_l1"
Clear1(t) ==
  /\ Others(t) /\ l1'.map = [k \in Keys |-> NoEntry] /\ l1'.size = l1.size
  /\ history'.drifted = history.drifted
  /\ calls[t].pc # "zero_l1" /\ calls'[t].pc = "zero_l1"
Zero1(t) ==
  /\ Others(t) /\ l1'.map = l1.map /\ l1'.size = 0
  /\ history'.drifted = IF Present(l1.map) # {} THEN history.drifted \union {"L1"}
                        ELSE history.drifted

LEMMA MoreClearers ==
  ASSUME NEW t \in Callers, Others(t), calls[t].pc # "zero_l1", NEW n \in Nat, n <= Clearers * Room1
  PROVE  /\ n <= Clearers' * Room1
         /\ calls'[t].pc = "zero_l1" => Clearers' = Clearers + 1
<1>1. /\ Clearers \in Nat /\ Clearers' \in Nat
      /\ Clearers' = Clearers + Moved(t, {"zero_l1"})
  BY ClearersAre
<1>2. Moved(t, {"zero_l1"}) = In(calls'[t].pc, {"zero_l1"})
  BY DEF Moved, In
<1>3. In(calls'[t].pc, {"zero_l1"}) \in {0, 1}
  BY DEF In
<1>4. Clearers <= Clearers'
  BY <1>1, <1>2, <1>3
<1>5. Room1 \in Nat
  BY CacheNumbers, ProductsAre DEF Room1
<1>6. Clearers * Room1 <= Clearers' * Room1 /\ Clearers * Room1 \in Nat /\ Clearers' * Room1 \in Nat
  BY <1>1, <1>4, <1>5, ProductsAre
<1>7. n <= Clearers' * Room1
  BY <1>6
<1> QED
  BY <1>1, <1>2, <1>7 DEF In

LEMMA Calm1Keeps ==
  ASSUME Bytes1OK, NEW t \in Callers, Calm1(t)
  PROVE  Bytes1OK'
<1>1. SUFFICES ASSUME "L1" \notin history'.drifted
               PROVE  \E n \in Nat : l1'.size = Bytes1' + n /\ n <= Clearers' * Room1
  BY Bytes1Next
<1>2. PICK n \in Nat : l1.size = Bytes1 + n /\ n <= Clearers * Room1
  BY <1>1 DEF Bytes1OK, Calm1
<1>3. n <= Clearers' * Room1
  BY <1>2, MoreClearers DEF Calm1
<1>4. l1'.size = Bytes1' + n
  BY <1>2 DEF Calm1, Bytes1
<1> QED
  BY <1>3, <1>4

LEMMA Slack1 ==
  ASSUME CacheOK, CacheOK', NEW n \in Nat, n <= Clearers * Room1
  PROVE  /\ Bytes1 + n < Word /\ Bytes1' + n < Word /\ Bytes1 \in Nat /\ Bytes1' \in Nat
<1>1. Bytes1 \in Nat /\ Bytes1 <= Room1 /\ Bytes1' \in Nat /\ Bytes1' <= Room1
  BY Bytes1Fit, Bytes1FitNext
<1>2. Clearers \in Nat /\ Clearers <= Cardinality(Callers)
  BY FewClearers
<1>3. Bytes1 + n < Word
  BY <1>1, <1>2, SlackFits
<1>4. Bytes1' + n < Word
  BY <1>1, <1>2, SlackFits
<1> QED
  BY <1>1, <1>3, <1>4

LEMMA Off1Keeps ==
  ASSUME CacheOK, CacheOK', Bytes1OK, NEW t \in Callers, NEW k, NEW s, Off1(t, k, s)
  PROVE  Bytes1OK'
<1>1. SUFFICES ASSUME "L1" \notin history'.drifted
               PROVE  \E n \in Nat : l1'.size = Bytes1' + n /\ n <= Clearers' * Room1
  BY Bytes1Next
<1>2. RemovesItsSize(k, s) /\ "L1" \notin history.drifted
  BY <1>1 DEF Off1
<1>3. PICK n \in Nat : l1.size = Bytes1 + n /\ n <= Clearers * Room1
  BY <1>2 DEF Bytes1OK
<1>4. n <= Clearers' * Room1
  BY <1>3, MoreClearers DEF Off1
<1>5. Sized(l1.map, Keys) /\ Sized(l1'.map, Keys) /\ DOMAIN l1.map = Keys
  BY L1Sized, L1SizedNext DEF Sized
<1>6. \A x \in Keys : x # k => SameSize(l1.map, l1'.map, x)
  BY <1>5 DEF Off1, SameSize
<1>7. k \in Keys /\ SizeIn(l1.map, k) = s /\ SizeIn(l1'.map, k) = 0 /\ s \in Nat
  BY <1>2, <1>5 DEF Off1, SizeIn, RemovesItsSize
<1>8. /\ BytesOf(l1.map) \in Nat /\ SizeIn(l1.map, k) <= BytesOf(l1.map)
      /\ BytesOf(l1'.map) = BytesOf(l1.map) - SizeIn(l1.map, k) + SizeIn(l1'.map, k)
  BY <1>5, <1>6, <1>7, BytesChange
<1>9. Bytes1' = Bytes1 - s /\ Bytes1 \in Nat /\ s <= Bytes1
  BY <1>7, <1>8 DEF Bytes1
<1>10. Bytes1 + n < Word
  BY <1>3, Slack1
<1>11. l1.size - s = Bytes1' + n /\ l1.size - s \in Nat /\ l1.size - s < Word
  BY <1>3, <1>7, <1>9, <1>10, CacheNumbers
<1>12. l1'.size = Bytes1' + n
  BY <1>11, ModIs DEF Off1, Minus
<1> QED
  BY <1>4, <1>12

LEMMA On1Keeps ==
  ASSUME CacheOK, CacheOK', Bytes1OK, NEW t \in Callers, NEW k, NEW e, On1(t, k, e)
  PROVE  Bytes1OK'
<1>1. SUFFICES ASSUME "L1" \notin history'.drifted
               PROVE  \E n \in Nat : l1'.size = Bytes1' + n /\ n <= Clearers' * Room1
  BY Bytes1Next
<1>2. "L1" \notin history.drifted
  BY <1>1 DEF On1
<1>3. PICK n \in Nat : l1.size = Bytes1 + n /\ n <= Clearers * Room1
  BY <1>2 DEF Bytes1OK
<1>4. n <= Clearers' * Room1
  BY <1>3, MoreClearers DEF On1
<1>5. Sized(l1.map, Keys) /\ Sized(l1'.map, Keys) /\ DOMAIN l1.map = Keys
  BY L1Sized, L1SizedNext DEF Sized
<1>6. \A x \in Keys : x # k => SameSize(l1.map, l1'.map, x)
  BY <1>5 DEF On1, SameSize
<1>7. k \in Keys /\ SizeIn(l1'.map, k) = e.size /\ e.size \in Nat
  <2>1. k \in Keys /\ SizeIn(l1'.map, k) = e.size /\ e \in CachedEntries
    BY <1>5 DEF On1, SizeIn
  <2> QED
    BY <2>1, CacheSizes
<1>8. /\ BytesOf(l1.map) \in Nat /\ SizeIn(l1.map, k) <= BytesOf(l1.map)
      /\ SizeIn(l1.map, k) \in Nat
      /\ BytesOf(l1'.map) = BytesOf(l1.map) - SizeIn(l1.map, k) + SizeIn(l1'.map, k)
  BY <1>5, <1>6, <1>7, BytesChange
<1>9. Bytes1' = Bytes1 - SizeIn(l1.map, k) + e.size /\ Bytes1 \in Nat /\ Bytes1' \in Nat
  <2>1. Bytes1' \in Nat
    BY Slack1, <1>3
  <2> QED
    BY <1>7, <1>8, <2>1 DEF Bytes1
<1>10. Bytes1' + n < Word
  BY <1>3, Slack1
<1>11. l1.size + (e.size - SizeIn(l1.map, k)) = Bytes1' + n /\ Bytes1' + n \in Nat
  BY <1>3, <1>7, <1>8, <1>9
<1>12. l1'.size = Bytes1' + n
  BY <1>10, <1>11, ModIs DEF On1, Plus
<1> QED
  BY <1>4, <1>12

LEMMA Clear1Keeps ==
  ASSUME CacheOK, CacheOK', Bytes1OK, NEW t \in Callers, Clear1(t)
  PROVE  Bytes1OK'
<1>1. SUFFICES ASSUME "L1" \notin history'.drifted
               PROVE  \E n \in Nat : l1'.size = Bytes1' + n /\ n <= Clearers' * Room1
  BY Bytes1Next
<1>2. PICK n \in Nat : l1.size = Bytes1 + n /\ n <= Clearers * Room1
  BY <1>1 DEF Bytes1OK, Clear1
<1>3. Present(l1'.map) = {}
  BY DEF Clear1, Present
<1>4. Bytes1' = 0
  BY <1>3, NoBytes DEF Bytes1
<1>5. Clearers' = Clearers + 1
  BY <1>2, MoreClearers DEF Clear1
<1>6. Bytes1 \in Nat /\ Bytes1 <= Room1 /\ Room1 \in Nat /\ Clearers \in Nat
  BY Bytes1Fit, FewClearers
<1>7. Clearers' * Room1 = Clearers * Room1 + Room1 /\ Clearers * Room1 \in Nat
  BY <1>5, <1>6, ProductsAre
<1>8. Bytes1 + n \in Nat /\ Bytes1 + n <= Clearers' * Room1
  BY <1>2, <1>6, <1>7
<1>9. l1'.size = Bytes1' + (Bytes1 + n)
  BY <1>2, <1>4, <1>6 DEF Clear1
<1> QED
  BY <1>8, <1>9

LEMMA Zero1Keeps ==
  ASSUME CacheOK, CacheOK', Bytes1OK, NEW t \in Callers, Zero1(t)
  PROVE  Bytes1OK'
<1>1. SUFFICES ASSUME "L1" \notin history'.drifted
               PROVE  \E n \in Nat : l1'.size = Bytes1' + n /\ n <= Clearers' * Room1
  BY Bytes1Next
<1>2. Present(l1'.map) = {}
  BY <1>1 DEF Zero1
<1>3. Bytes1' = 0 /\ l1'.size = 0
  BY <1>2, NoBytes DEF Bytes1, Zero1
<1>4. Clearers' \in Nat
  BY ClearersAre DEF Zero1
<1>5. Clearers' * Room1 \in Nat
  BY <1>4, Bytes1Fit, ProductsAre
<1> QED
  BY <1>3, <1>5

-----------------------------------------------------------------------------
(* The cache: which steps change which tier.                               *)

InL1 == {"evict_l1", "insert_l1"}
\* The marks of the tiers only grow.
MarksGrow == history.drifted \subseteq history'.drifted /\ history.crowded \subseteq history'.crowded
Still1(t) ==
  /\ Calm1(t) /\ MarksGrow /\ calls[t].pc \notin InL1 /\ calls'[t].pc \notin InL1
Still2(t) ==
  /\ Others(t) /\ l2'.index = l2.index /\ l2'.size = l2.size
  /\ MarksGrow /\ calls[t].pc \notin Filling /\ calls'[t].pc \notin Filling

LEMMA StillIs ==
  ASSUME NEW t, Others(t), MarksGrow
  PROVE  /\ UNCHANGED l1 /\ calls[t].pc \notin InL1 \union {"zero_l1"} /\ calls'[t].pc \notin InL1
              => Still1(t)
         /\ UNCHANGED l2 /\ calls[t].pc \notin Filling /\ calls'[t].pc \notin Filling
              => Still2(t)
BY DEF Still1, Still2, Calm1, MarksGrow

LEMMA GoesStill ==
  ASSUME NEW t, NEW p, NEW e, Turns(t, p, e)
  PROVE  Others(t) /\ calls'[t].pc = p /\ calls'[t].entry = e
BY DEF Turns

LEMMA EndsStill ==
  ASSUME NEW t, Ends(t)
  PROVE  Others(t) /\ calls'[t].pc = "idle"
BY DEF Ends, Idle

LEMMA StartsStill ==
  ASSUME NEW t, NEW p, NEW op, NEW k, NEW e, Starts(t, p, op, k, e)
  PROVE  Others(t) /\ calls[t].pc = "idle" /\ calls'[t].pc = p
BY DEF Starts, Idle

LEMMA MarksOfRemoval ==
  ASSUME NEW K, NEW b, NEW i, NEW c, Removal(K, b, i, c)
  PROVE  MarksGrow
BY DEF Removal, MarksGrow

LEMMA OutcomeMarks ==
  ASSUME NEW t, NEW kept, NEW tier, Outcome(t, kept, tier)
  PROVE  MarksGrow /\ history'.drifted = history.drifted /\ history'.crowded = history.crowded
BY DEF Outcome, MarksGrow

LEMMA CrowdMarks ==
  ASSUME CacheOK, NEW i \in Tiers, NEW b \in BOOLEAN, history' = Crowd(history, i, b)
  PROVE  /\ MarksGrow /\ history'.drifted = history.drifted
         /\ history'.crowded = IF b THEN history.crowded \union {i} ELSE history.crowded
<1>1. /\ history'.drifted = history.drifted
      /\ history'.crowded = IF b THEN history.crowded \union {i} ELSE history.crowded
  BY CrowdKeeps
<1> QED
  BY <1>1 DEF MarksGrow

LEMMA CallsStill ==
  ASSUME CacheOK, NEW t \in Callers,
         \/ BeginGet(t) \/ BeginDelete(t) \/ BeginPut(t)
         \/ GetL1(t) \/ GetL3(t) \/ PutL3(t) \/ FindL1(t) \/ DeleteL3(t)
  PROVE  Still1(t) /\ Still2(t)
<1>1. CASE BeginGet(t) \/ BeginDelete(t)
  <2>1. UNCHANGED <<l1, l2>>
    BY <1>1, BeginGetIs, BeginDeleteIs
  <2>2. \E k \in Keys, op \in {"get", "delete"}, p \in {"get_l1", "find_l1"} :
          Begin(t, op, k) /\ Starts(t, p, op, k, NoEntry)
    BY <1>1, BeginGetIs, BeginDeleteIs
  <2>3. PICK k \in Keys, op \in {"get", "delete"}, p \in {"get_l1", "find_l1"} :
          Begin(t, op, k) /\ Starts(t, p, op, k, NoEntry)
    BY <2>2
  <2>4. MarksGrow
    BY <2>3, BeginHistory DEF MarksGrow
  <2>5. Others(t) /\ calls[t].pc = "idle" /\ calls'[t].pc \in {"get_l1", "find_l1"}
    BY <2>3, StartsStill
  <2> QED
    BY <2>1, <2>4, <2>5, StillIs DEF InL1, Filling
<1>2. CASE BeginPut(t)
  <2>1. PICK k \in Keys, e \in CachedEntries :
         /\ UNCHANGED <<l1, l2>>
         /\ history' = Excuse([history EXCEPT !.next = @ + 1], {k}, Overlaps(k, "put"))
         /\ \/ Starts(t, "put_l3", "put", k, e)
            \/ Starts(t, "check_l1", "put", k, e)
            \/ Starts(t, "check_l2", "put", k, e)
    BY <1>2, BeginPutIs
  <2>2. MarksGrow
    BY <2>1 DEF Excuse, CacheOK, Histories, MarksGrow
  <2>3. Others(t) /\ calls[t].pc = "idle" /\ calls'[t].pc \in {"put_l3", "check_l1", "check_l2"}
    BY <2>1, StartsStill
  <2> QED
    BY <2>1, <2>2, <2>3, StillIs DEF InL1, Filling
<1>3. CASE GetL1(t)
  <2>1. /\ UNCHANGED <<l1, l2, history>> /\ calls[t].pc = "get_l1"
        /\ \/ Turns(t, "get_l2", calls[t].entry)
           \/ Turns(t, "drop_expired", l1.map[calls[t].key])
           \/ Ends(t)
    BY <1>3, GetL1Is
  <2>2. Others(t) /\ calls'[t].pc \in {"get_l2", "drop_expired", "idle"} /\ MarksGrow
    BY <2>1, GoesStill, EndsStill DEF MarksGrow
  <2> QED
    BY <2>1, <2>2, StillIs DEF InL1, Filling
<1>4. CASE GetL3(t)
  <2>1. /\ UNCHANGED <<l1, l2, history>> /\ calls[t].pc = "get_l3"
        /\ \/ Ends(t)
           \/ Turns(t, "check_l1", Took(l3[calls[t].key]))
           \/ Turns(t, "check_l2", Took(l3[calls[t].key]))
    BY <1>4, GetL3Is
  <2>2. Others(t) /\ calls'[t].pc \in {"check_l1", "check_l2", "idle"} /\ MarksGrow
    BY <2>1, GoesStill, EndsStill DEF MarksGrow
  <2> QED
    BY <2>1, <2>2, StillIs DEF InL1, Filling
<1>5. CASE PutL3(t)
  <2>1. /\ UNCHANGED <<l1, l2>> /\ calls[t].pc = "put_l3"
        /\ \/ Ends(t) /\ UNCHANGED history
           \/ /\ history' = [history EXCEPT !.stored = @ \cup {calls[t].entry.ver}]
              /\ Turns(t, "check_l1", calls[t].entry) \/ Turns(t, "check_l2", calls[t].entry)
    BY <1>5, PutL3Is
  <2>2. Others(t) /\ calls'[t].pc \in {"check_l1", "check_l2", "idle"}
    BY <2>1, GoesStill, EndsStill
  <2>3. MarksGrow
    BY <2>1 DEF CacheOK, Histories, MarksGrow
  <2> QED
    BY <2>1, <2>2, <2>3, StillIs DEF InL1, Filling
<1>6. CASE FindL1(t)
  <2>1. /\ UNCHANGED <<l1, l2, history>> /\ calls[t].pc = "find_l1"
        /\ \/ Turns(t, "delete_l2", l1.map[calls[t].key])
           \/ Turns(t, "delete_l1", l1.map[calls[t].key])
    BY <1>6, FindL1Is
  <2>2. Others(t) /\ calls'[t].pc \in {"delete_l1", "delete_l2"} /\ MarksGrow
    BY <2>1, GoesStill DEF MarksGrow
  <2> QED
    BY <2>1, <2>2, StillIs DEF InL1, Filling
<1>7. CASE DeleteL3(t)
  <2>1. /\ UNCHANGED <<l1, l2>> /\ calls[t].pc = "delete_l3" /\ Ends(t)
        /\ \/ UNCHANGED history
           \/ history' = [history EXCEPT !.last[calls[t].key] = NoEntry]
    BY <1>7, DeleteL3Is
  <2>2. Others(t) /\ calls'[t].pc = "idle"
    BY <2>1, EndsStill
  <2>3. MarksGrow
    BY <2>1 DEF CacheOK, Histories, MarksGrow
  <2> QED
    BY <2>1, <2>2, <2>3, StillIs DEF InL1, Filling
<1> QED
  BY <1>1, <1>2, <1>3, <1>4, <1>5, <1>6, <1>7

LEMMA L1Still ==
  ASSUME CacheOK, NEW t \in Callers,
         \/ GetL2(t) \/ CheckL2(t) \/ EvictL2(t) \/ AllocL2(t) \/ InsertL2(t)
         \/ DeleteL2(t) \/ ClearL2(t)
  PROVE  Still1(t)
<1>1. CASE GetL2(t)
  <2>1. /\ UNCHANGED <<l1, history>> /\ calls[t].pc = "get_l2"
        /\ \/ Turns(t, "get_l3", calls[t].entry) \/ Ends(t)
           \/ Turns(t, "check_l1", FromL2(l2.index[Hash[calls[t].key]], l2.index[Hash[calls[t].key]].count + 1))
    BY <1>1, GetL2Is
  <2>2. Others(t) /\ calls'[t].pc \in {"get_l3", "idle", "check_l1"} /\ MarksGrow
    BY <2>1, GoesStill, EndsStill DEF MarksGrow
  <2> QED
    BY <2>1, <2>2, StillIs DEF InL1
<1>2. CASE CheckL2(t)
  <2>1. /\ UNCHANGED l1 /\ calls[t].pc = "check_l2"
        /\ \/ Ends(t) /\ Outcome(t, FALSE, "L2")
           \/ /\ Turns(t, "evict_l2", calls[t].entry) \/ Turns(t, "alloc_l2", calls[t].entry)
              /\ history' = Crowd(history, "L2", FillingL2)
    BY <1>2, CheckL2Is
  <2>2. Others(t) /\ calls'[t].pc \in {"evict_l2", "idle", "alloc_l2"}
    BY <2>1, GoesStill, EndsStill
  <2>3. MarksGrow
    BY <2>1, OutcomeMarks, CrowdMarks DEF Tiers, FillingL2
  <2> QED
    BY <2>1, <2>2, <2>3, StillIs DEF InL1
<1>3. CASE EvictL2(t)
  <2>1. /\ UNCHANGED l1 /\ calls[t].pc = "evict_l2" /\ Turns(t, "alloc_l2", calls[t].entry)
        /\ \E gone : EvictsL2(t, gone)
    BY <1>3, EvictL2Is
  <2>2. PICK gone : EvictsL2(t, gone)
    BY <2>1
  <2>3. history' = Drift(Excuse(history, OnlyInL2(Hashed(gone)), TRUE), "L2", Stale(gone) # {})
    BY <2>2 DEF EvictsL2
  <2>4. Removal(OnlyInL2(Hashed(gone)), TRUE, "L2", Stale(gone) # {})
    BY <2>3, L2Removal
  <2>5. Others(t) /\ calls'[t].pc = "alloc_l2" /\ MarksGrow
    BY <2>1, <2>4, GoesStill, MarksOfRemoval
  <2> QED
    BY <2>1, <2>5, StillIs DEF InL1
<1>4. CASE AllocL2(t)
  <2>1. /\ UNCHANGED l1 /\ calls[t].pc = "alloc_l2" /\ Turns(t, "insert_l2", calls[t].entry)
        /\ history' = [history EXCEPT !.crossed = @ \/ \E u \in Callers : At(u, "insert_l2")]
    BY <1>4, AllocL2Is
  <2>2. Others(t) /\ calls'[t].pc = "insert_l2"
    BY <2>1, GoesStill
  <2>3. MarksGrow
    BY <2>1 DEF CacheOK, Histories, MarksGrow
  <2> QED
    BY <2>1, <2>2, <2>3, StillIs DEF InL1
<1>5. CASE InsertL2(t)
  <2>1. UNCHANGED l1 /\ calls[t].pc = "insert_l2" /\ Ends(t) /\ Outcome(t, TRUE, "L2")
    BY <1>5, InsertL2Is
  <2>2. Others(t) /\ calls'[t].pc = "idle" /\ MarksGrow
    BY <2>1, EndsStill, OutcomeMarks
  <2> QED
    BY <2>1, <2>2, StillIs DEF InL1
<1>6. CASE DeleteL2(t)
  <2>1. /\ UNCHANGED l1 /\ calls[t].pc = "delete_l2" /\ Turns(t, "delete_l3", calls[t].entry)
        /\ history' = Excuse(history, OnlyInL2({Hash[calls[t].key]}), TRUE)
    BY <1>6, DeleteL2Is
  <2>2. Others(t) /\ calls'[t].pc = "delete_l3"
    BY <2>1, GoesStill
  <2>3. MarksGrow
    BY <2>1 DEF Excuse, CacheOK, Histories, MarksGrow
  <2> QED
    BY <2>1, <2>2, <2>3, StillIs DEF InL1
<1>7. CASE ClearL2(t)
  <2>1. /\ UNCHANGED l1 /\ calls[t].pc = "clear_l2" /\ Ends(t)
        /\ history' = [Excuse(history, OnlyInL2(Hashes), TRUE)
                          EXCEPT !.crossed = @ \/ \E u \in Callers : At(u, "insert_l2")]
    BY <1>7, ClearL2Is
  <2>2. Others(t) /\ calls'[t].pc = "idle"
    BY <2>1, EndsStill
  <2>3. MarksGrow
    BY <2>1 DEF Excuse, CacheOK, Histories, MarksGrow
  <2> QED
    BY <2>1, <2>2, <2>3, StillIs DEF InL1
<1> QED
  BY <1>1, <1>2, <1>3, <1>4, <1>5, <1>6, <1>7

LEMMA L2Still ==
  ASSUME CacheOK, NEW t \in Callers,
         \/ DropExpired(t) \/ CheckL1(t) \/ EvictL1(t) \/ InsertL1(t)
         \/ DeleteL1(t) \/ BeginClear(t) \/ ZeroL1(t)
  PROVE  Still2(t)
<1>1. CASE DropExpired(t)
  <2> DEFINE k == calls[t].key
             s == calls[t].entry.size
  <2>1. /\ UNCHANGED l2 /\ calls[t].pc = "drop_expired" /\ k \in Keys
        /\ history' = Drift(Excuse(history, {k}, OnlyInL1({k}) # {}), "L1", ~RemovesItsSize(k, s))
        /\ Turns(t, "get_l2", NoEntry)
    BY <1>1, DropExpiredIs
  <2>2. Removal({k}, OnlyInL1({k}) # {}, "L1", ~RemovesItsSize(k, s))
    BY <2>1, L1Removal
  <2>3. Others(t) /\ calls'[t].pc = "get_l2" /\ MarksGrow
    BY <2>1, <2>2, GoesStill, MarksOfRemoval
  <2> QED
    BY <2>1, <2>3, StillIs DEF Filling
<1>2. CASE CheckL1(t)
  <2>1. /\ UNCHANGED l2 /\ calls[t].pc = "check_l1"
        /\ Turns(t, "evict_l1", calls[t].entry) \/ Turns(t, "insert_l1", calls[t].entry)
        /\ history' = Crowd(history, "L1", \E u \in Callers : calls[u].pc \in {"evict_l1", "insert_l1"})
    BY <1>2, CheckL1Is
  <2>2. Others(t) /\ calls'[t].pc \in {"evict_l1", "insert_l1"}
    BY <2>1, GoesStill
  <2>3. MarksGrow
    BY <2>1, CrowdMarks DEF Tiers
  <2> QED
    BY <2>1, <2>2, <2>3, StillIs DEF Filling
<1>3. CASE EvictL1(t)
  <2>1. UNCHANGED l2 /\ calls[t].pc = "evict_l1"
    BY <1>3, EvictL1Is
  <2>2. CASE /\ Turns(t, "insert_l1", calls[t].entry)
             /\ history' = Crowd(history, "L1", should_continue_eviction /\ calls[t].left = 0)
    <3>1. Others(t) /\ calls'[t].pc = "insert_l1"
      BY <2>2, GoesStill
    <3>2. MarksGrow
      BY <2>2, CrowdMarks DEF Tiers
    <3> QED
      BY <2>1, <3>1, <3>2, StillIs DEF Filling
  <2>3. ASSUME NEW c, EvictsL1(t, c) PROVE Still2(t)
    <3>1. Turns(t, "evict_l1", calls[t].entry) /\ c.key \in Keys
      BY <2>3 DEF EvictsL1, L1Candidates
    <3>2. Others(t) /\ calls'[t].pc = "evict_l1"
      BY <3>1, GoesStill
    <3>3. MarksGrow
      <4>1. CASE UNCHANGED <<l1, history>>
        BY <4>1 DEF MarksGrow
      <4>2. CASE ~UNCHANGED <<l1, history>>
        <5>1. history' = Drift(Excuse(history, {c.key}, OnlyInL1({c.key}) # {}),
                               "L1", ~RemovesItsSize(c.key, c.size))
          BY <2>3, <4>2 DEF EvictsL1
        <5>2. Removal({c.key}, OnlyInL1({c.key}) # {}, "L1", ~RemovesItsSize(c.key, c.size))
          BY <3>1, <5>1, L1Removal
        <5> QED
          BY <5>2, MarksOfRemoval
      <4> QED
        BY <4>1, <4>2
    <3> QED
      BY <2>1, <3>2, <3>3, StillIs DEF Filling
  <2> QED
    BY <1>3, <2>2, <2>3, EvictL1Is
<1>4. CASE InsertL1(t)
  <2>1. /\ UNCHANGED l2 /\ calls[t].pc = "insert_l1" /\ Ends(t)
        /\ Outcome(t, TRUE, "L1") \/ Outcome(t, FALSE, "L1")
    BY <1>4, InsertL1Is
  <2>2. Others(t) /\ calls'[t].pc = "idle" /\ MarksGrow
    BY <2>1, EndsStill, OutcomeMarks
  <2> QED
    BY <2>1, <2>2, StillIs DEF Filling
<1>5. CASE DeleteL1(t)
  <2> DEFINE k == calls[t].key
             s == calls[t].entry.size
  <2>1. /\ UNCHANGED l2 /\ k \in Keys /\ calls[t].pc = "delete_l1"
        /\ Turns(t, "delete_l2", NoEntry)
        /\ \/ UNCHANGED history
           \/ history' = Drift(Excuse(history, {k}, OnlyInL1({k}) # {}), "L1", ~RemovesItsSize(k, s))
    BY <1>5, DeleteL1Is
  <2>2. MarksGrow
    <3>1. CASE UNCHANGED history
      BY <3>1 DEF MarksGrow
    <3>2. CASE history' = Drift(Excuse(history, {k}, OnlyInL1({k}) # {}), "L1", ~RemovesItsSize(k, s))
      <4>1. Removal({k}, OnlyInL1({k}) # {}, "L1", ~RemovesItsSize(k, s))
        BY <2>1, <3>2, L1Removal
      <4> QED
        BY <4>1, MarksOfRemoval
    <3> QED
      BY <2>1, <3>1, <3>2
  <2>3. Others(t) /\ calls'[t].pc = "delete_l2"
    BY <2>1, GoesStill
  <2> QED
    BY <2>1, <2>2, <2>3, StillIs DEF Filling
<1>6. CASE BeginClear(t)
  <2>1. /\ UNCHANGED l2 /\ Starts(t, "zero_l1", "clear", NoEntry, NoEntry)
        /\ history' = Excuse([history EXCEPT !.ops = @ + 1], OnlyInL1(Keys), TRUE)
    BY <1>6, BeginClearIs
  <2>2. MarksGrow
    BY <2>1 DEF Excuse, CacheOK, Histories, MarksGrow
  <2>3. Others(t) /\ calls[t].pc = "idle" /\ calls'[t].pc = "zero_l1"
    BY <2>1, StartsStill
  <2> QED
    BY <2>1, <2>2, <2>3, StillIs DEF Filling
<1>7. CASE ZeroL1(t)
  <2>1. /\ UNCHANGED l2 /\ calls[t].pc = "zero_l1" /\ Turns(t, "clear_l2", calls[t].entry)
        /\ history' = Drift(history, "L1", Present(l1.map) # {})
    BY <1>7, ZeroL1Is
  <2>2. MarksGrow
    BY <2>1 DEF Drift, CacheOK, Histories, MarksGrow
  <2>3. Others(t) /\ calls'[t].pc = "clear_l2"
    BY <2>1, GoesStill
  <2> QED
    BY <2>1, <2>2, <2>3, StillIs DEF Filling
<1> QED
  BY <1>1, <1>2, <1>3, <1>4, <1>5, <1>6, <1>7

-----------------------------------------------------------------------------
(* The cache: L1's counter and bound.                                      *)

\* A step of a caller that is not filling L1: what L1 holds does not grow.
Lessens1(t) ==
  /\ MarksGrow /\ calls[t].pc \notin InL1 /\ calls'[t].pc \notin InL1
  /\ Calm1(t) \/ (\E k, s : Off1(t, k, s)) \/ Clear1(t) \/ Zero1(t)

LEMMA RemovalOff ==
  ASSUME CacheOK, NEW t \in Callers, NEW k \in Keys, NEW e \in CachedEntries, Others(t),
         l1'.map = [l1.map EXCEPT ![k] = NoEntry], l1'.size = Minus(l1.size, e.size),
         history' = Drift(Excuse(history, {k}, OnlyInL1({k}) # {}), "L1", ~RemovesItsSize(k, e.size)),
         calls[t].pc # "zero_l1"
  PROVE  Off1(t, k, e.size) /\ MarksGrow
<1>1. Removal({k}, OnlyInL1({k}) # {}, "L1", ~RemovesItsSize(k, e.size))
  BY L1Removal
<1>2. MarksGrow
  BY <1>1, MarksOfRemoval
<1>3. e.size \in Nat
  BY CacheSizes
<1>4. history'.drifted = IF ~RemovesItsSize(k, e.size) THEN history.drifted \union {"L1"}
                         ELSE history.drifted
  BY <1>1 DEF Removal
<1> QED
  BY <1>2, <1>3, <1>4 DEF Off1

LEMMA L1Lessens ==
  ASSUME CacheOK, CacheOK', NEW t \in Callers,
         Still1(t) \/ DropExpired(t) \/ DeleteL1(t) \/ BeginClear(t) \/ ZeroL1(t)
  PROVE  Lessens1(t)
<1>1. CASE Still1(t)
  BY <1>1 DEF Still1, Lessens1
<1>2. CASE DropExpired(t)
  <2> DEFINE k == calls[t].key
             e == calls[t].entry
  <2>1. /\ calls[t].pc = "drop_expired" /\ k \in Keys /\ e \in CachedEntries
        /\ history' = Drift(Excuse(history, {k}, OnlyInL1({k}) # {}), "L1", ~RemovesItsSize(k, e.size))
        /\ l1'.map = [l1.map EXCEPT ![k] = NoEntry] /\ l1'.size = Minus(l1.size, e.size)
        /\ Turns(t, "get_l2", NoEntry)
    BY <1>2, DropExpiredIs
  <2>2. Others(t) /\ calls'[t].pc = "get_l2"
    BY <2>1, GoesStill
  <2>3. Off1(t, k, e.size) /\ MarksGrow
    <3>1. calls[t].pc # "zero_l1"
      BY <2>1
    <3> QED
      BY <2>1, <2>2, <3>1, RemovalOff
  <2> QED
    BY <2>1, <2>2, <2>3 DEF Lessens1, InL1
<1>3. CASE DeleteL1(t)
  <2> DEFINE k == calls[t].key
             e == calls[t].entry
  <2>1. /\ k \in Keys /\ calls[t].pc = "delete_l1" /\ e \in CachedEntries
        /\ Turns(t, "delete_l2", NoEntry)
        /\ \/ UNCHANGED <<l1, history>>
           \/ /\ l1'.map = [l1.map EXCEPT ![k] = NoEntry] /\ l1'.size = Minus(l1.size, e.size)
              /\ history' = Drift(Excuse(history, {k}, OnlyInL1({k}) # {}), "L1",
                                  ~RemovesItsSize(k, e.size))
    BY <1>3, DeleteL1Is
  <2>2. Others(t) /\ calls'[t].pc = "delete_l2" /\ calls[t].pc # "zero_l1"
    BY <2>1, GoesStill
  <2>3. CASE UNCHANGED <<l1, history>>
    BY <2>1, <2>2, <2>3 DEF Lessens1, Calm1, MarksGrow, InL1
  <2>4. CASE ~UNCHANGED <<l1, history>>
    <3>1. Off1(t, k, e.size) /\ MarksGrow
      BY <2>1, <2>2, <2>4, RemovalOff
    <3> QED
      BY <2>1, <2>2, <3>1 DEF Lessens1, InL1
  <2> QED
    BY <2>3, <2>4
<1>4. CASE BeginClear(t)
  <2>1. /\ Starts(t, "zero_l1", "clear", NoEntry, NoEntry)
        /\ l1'.map = [k \in Keys |-> NoEntry] /\ l1'.size = l1.size
        /\ history' = Excuse([history EXCEPT !.ops = @ + 1], OnlyInL1(Keys), TRUE)
    BY <1>4, BeginClearIs
  <2>2. history'.drifted = history.drifted /\ history'.crowded = history.crowded
    BY <2>1 DEF Excuse, CacheOK, Histories
  <2>3. Others(t) /\ calls[t].pc = "idle" /\ calls'[t].pc = "zero_l1"
    BY <2>1, StartsStill
  <2>4. Clear1(t)
    BY <2>1, <2>2, <2>3 DEF Clear1
  <2> QED
    BY <2>2, <2>3, <2>4 DEF Lessens1, MarksGrow, InL1
<1>5. CASE ZeroL1(t)
  <2>1. /\ calls[t].pc = "zero_l1" /\ Turns(t, "clear_l2", calls[t].entry)
        /\ l1'.map = l1.map /\ l1'.size = 0
        /\ history' = Drift(history, "L1", Present(l1.map) # {})
    BY <1>5, ZeroL1Is
  <2>2. /\ history'.drifted = IF Present(l1.map) # {} THEN history.drifted \union {"L1"}
                              ELSE history.drifted
        /\ history'.crowded = history.crowded
    BY <2>1 DEF Drift, CacheOK, Histories
  <2>3. Others(t) /\ calls'[t].pc = "clear_l2"
    BY <2>1, GoesStill
  <2>4. Zero1(t)
    BY <2>1, <2>2, <2>3 DEF Zero1
  <2> QED
    BY <2>1, <2>2, <2>3, <2>4 DEF Lessens1, MarksGrow, InL1
<1> QED
  BY <1>1, <1>2, <1>3, <1>4, <1>5

LEMMA LessensBytes ==
  ASSUME CacheOK, CacheOK', Bytes1OK, NEW t \in Callers, Lessens1(t)
  PROVE  Bytes1OK'
BY Calm1Keeps, Off1Keeps, Clear1Keeps, Zero1Keeps DEF Lessens1

LEMMA NoMoreBytes ==
  ASSUME CacheOK, CacheOK', NEW t \in Callers,
         Calm1(t) \/ (\E k, s : Off1(t, k, s)) \/ Clear1(t) \/ Zero1(t)
  PROVE  /\ Bytes1 \in Nat /\ Bytes1' \in Nat /\ Bytes1' <= Bytes1
         /\ Present(l1'.map) \subseteq Present(l1.map) /\ Others(t)
<1>0. Bytes1 \in Nat /\ Bytes1' \in Nat
  BY Bytes1Fit, Bytes1FitNext
<1>1. CASE l1'.map = l1.map /\ Others(t)
  BY <1>0, <1>1 DEF Bytes1
<1>2. ASSUME NEW k, NEW s, Off1(t, k, s)
      PROVE  Bytes1' <= Bytes1 /\ Present(l1'.map) \subseteq Present(l1.map) /\ Others(t)
  <2>1. Sized(l1.map, Keys) /\ Sized(l1'.map, Keys) /\ DOMAIN l1.map = Keys /\ DOMAIN l1'.map = Keys
    BY L1Sized, L1SizedNext DEF Sized
  <2>2. \A x \in Keys : x # k => SameSize(l1.map, l1'.map, x)
    BY <1>2, <2>1 DEF Off1, SameSize
  <2>3. k \in Keys /\ SizeIn(l1'.map, k) = 0
    BY <1>2, <2>1 DEF Off1, SizeIn
  <2>4. /\ BytesOf(l1.map) \in Nat /\ SizeIn(l1.map, k) \in Nat /\ SizeIn(l1.map, k) <= BytesOf(l1.map)
        /\ BytesOf(l1'.map) = BytesOf(l1.map) - SizeIn(l1.map, k) + SizeIn(l1'.map, k)
    BY <2>1, <2>2, <2>3, BytesChange
  <2>5. Bytes1' <= Bytes1
    BY <2>3, <2>4 DEF Bytes1
  <2> QED
    BY <1>2, <2>1, <2>5 DEF Off1, Present
<1>3. CASE Clear1(t)
  <2>1. Present(l1'.map) = {} /\ Others(t)
    BY <1>3 DEF Clear1, Present
  <2>2. Bytes1' = 0
    BY <2>1, NoBytes DEF Bytes1
  <2> QED
    BY <1>0, <2>1, <2>2
<1>4. CASE Calm1(t) \/ Zero1(t)
  BY <1>1, <1>4 DEF Calm1, Zero1
<1> QED
  BY <1>0, <1>2, <1>3, <1>4

LEMMA Hundredfold ==
  ASSUME NEW a \in Nat, NEW b \in Nat, a <= b
  PROVE  100 * a <= 100 * b
OBVIOUS

LEMMA LessensBound ==
  ASSUME CacheOK, CacheOK', L1Bounded, NEW t \in Callers, Lessens1(t)
  PROVE  L1Bounded'
<1>1. /\ Bytes1 \in Nat /\ Bytes1' \in Nat /\ Bytes1' <= Bytes1
      /\ Present(l1'.map) \subseteq Present(l1.map) /\ Others(t)
  BY NoMoreBytes DEF Lessens1
<1>2. SUFFICES ASSUME "L1" \notin history'.drifted \union history'.crowded
               PROVE  /\ 100 * Bytes1' < HighPercent * L1Capacity + 100 * L1Capacity
                      /\ \A v, u \in Callers : {calls'[v].pc, calls'[u].pc} \subseteq InL1 => v = u
                      /\ \A v \in Callers :
                        /\ calls'[v].pc = "evict_l1" =>
                             Present(l1'.map) \subseteq {c.key : c \in calls'[v].cands}
                        /\ calls'[v].pc = "insert_l1" => 100 * Bytes1' < HighPercent * L1Capacity
  BY DEF L1Bounded, Bytes1, InL1
<1>3. "L1" \notin history.drifted \union history.crowded
  BY <1>2 DEF Lessens1, MarksGrow
<1>4. /\ 100 * Bytes1 < HighPercent * L1Capacity + 100 * L1Capacity
      /\ \A v, u \in Callers : {calls[v].pc, calls[u].pc} \subseteq InL1 => v = u
      /\ \A v \in Callers :
        /\ calls[v].pc = "evict_l1" =>
             Present(l1.map) \subseteq {c.key : c \in calls[v].cands}
        /\ calls[v].pc = "insert_l1" => 100 * Bytes1 < HighPercent * L1Capacity
  BY <1>3 DEF L1Bounded, Bytes1, InL1
<1>5. HighPercent * L1Capacity \in Nat /\ 100 * L1Capacity \in Nat
  BY CacheNumbers, CacheAssumption
<1>6. \A v \in Callers : calls'[v].pc \in InL1 => calls'[v] = calls[v]
  BY <1>1 DEF Others, Lessens1
<1>7. 100 * Bytes1' <= 100 * Bytes1
  <2>1. Bytes1 \in Nat /\ Bytes1' \in Nat /\ Bytes1' <= Bytes1
    BY <1>1
  <2> QED
    BY <2>1, Hundredfold
<1>8. 100 * Bytes1' < HighPercent * L1Capacity + 100 * L1Capacity
  BY <1>1, <1>4, <1>5, <1>7
<1>9. \A v, u \in Callers : {calls'[v].pc, calls'[u].pc} \subseteq InL1 => v = u
  BY <1>4, <1>6
<1>10. ASSUME NEW v \in Callers
       PROVE  /\ calls'[v].pc = "evict_l1" =>
                   Present(l1'.map) \subseteq {c.key : c \in calls'[v].cands}
              /\ calls'[v].pc = "insert_l1" => 100 * Bytes1' < HighPercent * L1Capacity
  <2>1. calls'[v].pc = "evict_l1" => calls'[v] = calls[v]
    BY <1>6 DEF InL1
  <2>2. calls'[v].pc = "insert_l1" => calls'[v] = calls[v]
    BY <1>6 DEF InL1
  <2>3. calls'[v].pc = "insert_l1" => 100 * Bytes1' < HighPercent * L1Capacity
    BY <1>1, <1>4, <1>5, <1>7, <2>2
  <2> QED
    BY <1>1, <1>4, <2>1, <2>3
<1> QED
  BY <1>8, <1>9, <1>10

LEMMA BoundedNext1 ==
  ASSUME "L1" \notin history'.drifted \union history'.crowded =>
           /\ 100 * Bytes1' < HighPercent * L1Capacity + 100 * L1Capacity
           /\ \A v, u \in Callers : {calls'[v].pc, calls'[u].pc} \subseteq InL1 => v = u
           /\ \A v \in Callers :
              /\ calls'[v].pc = "evict_l1" =>
                   Present(l1'.map) \subseteq {c.key : c \in calls'[v].cands}
              /\ calls'[v].pc = "insert_l1" => 100 * Bytes1' < HighPercent * L1Capacity
  PROVE  L1Bounded'
BY DEF L1Bounded, Bytes1, InL1

LEMMA BoundedNow1 ==
  ASSUME L1Bounded, "L1" \notin history.drifted \union history.crowded
  PROVE  /\ 100 * Bytes1 < HighPercent * L1Capacity + 100 * L1Capacity
         /\ \A v, u \in Callers : {calls[v].pc, calls[u].pc} \subseteq InL1 => v = u
         /\ \A v \in Callers :
              /\ calls[v].pc = "evict_l1" =>
                   Present(l1.map) \subseteq {c.key : c \in calls[v].cands}
              /\ calls[v].pc = "insert_l1" => 100 * Bytes1 < HighPercent * L1Capacity
BY DEF L1Bounded, Bytes1, InL1

LEMMA Marks1 ==
  /\ HighPercent * L1Capacity \in Nat /\ LowPercent * L1Capacity \in Nat /\ 100 * L1Capacity \in Nat
  /\ LowPercent * L1Capacity < HighPercent * L1Capacity /\ 0 < HighPercent * L1Capacity
<1>1. /\ LowPercent \in Nat /\ HighPercent \in Nat /\ LowPercent < HighPercent
      /\ L1Capacity \in Nat /\ L1Capacity > 0
  BY CacheAssumption, CacheNumbers
<1>2. HighPercent * L1Capacity \in Nat /\ LowPercent * L1Capacity \in Nat /\ 100 * L1Capacity \in Nat
  BY <1>1, ProductsAre
<1>3. LowPercent * L1Capacity < HighPercent * L1Capacity
  BY <1>1, ProductsAre
<1> QED
  BY <1>2, <1>3

\* A caller that fills L1 alone keeps what L1 holds below the mark.
LEMMA AloneKeeps1 ==
  ASSUME CacheOK, CacheOK', L1Bounded, NEW t \in Callers, Others(t), MarksGrow,
         calls[t].pc \in InL1 \union {"check_l1"},
         "L1" \notin history'.drifted \union history'.crowded,
         calls[t].pc = "check_l1" => \A u \in Callers : calls[u].pc \notin InL1,
         100 * Bytes1' < HighPercent * L1Capacity + 100 * L1Capacity,
         calls'[t].pc = "evict_l1" => Present(l1'.map) \subseteq {c.key : c \in calls'[t].cands},
         calls'[t].pc = "insert_l1" => 100 * Bytes1' < HighPercent * L1Capacity
  PROVE  L1Bounded'
<1>1. "L1" \notin history.drifted \union history.crowded
  BY DEF MarksGrow
<1>2. \A v, u \in Callers : {calls[v].pc, calls[u].pc} \subseteq InL1 => v = u
  BY <1>1, BoundedNow1
<1>3. \A u \in Callers : u # t => calls[u].pc \notin InL1
  BY <1>2
<1>4. \A u \in Callers : u # t => calls'[u].pc \notin InL1
  BY <1>3 DEF Others
<1>5. \A v, u \in Callers : {calls'[v].pc, calls'[u].pc} \subseteq InL1 => v = u
  BY <1>4
<1>6. ASSUME NEW v \in Callers
      PROVE  /\ calls'[v].pc = "evict_l1" =>
                  Present(l1'.map) \subseteq {c.key : c \in calls'[v].cands}
             /\ calls'[v].pc = "insert_l1" => 100 * Bytes1' < HighPercent * L1Capacity
  BY <1>4 DEF InL1
<1> QED
  BY <1>5, <1>6, BoundedNext1

LEMMA Counter1 ==
  ASSUME CacheOK, Bytes1OK, "L1" \notin history.drifted
  PROVE  Bytes1 \in Nat /\ l1.size \in Nat /\ 100 * Bytes1 <= 100 * l1.size
<1>1. PICK n \in Nat : l1.size = Bytes1 + n
  BY DEF Bytes1OK
<1>2. Bytes1 \in Nat /\ l1.size \in Nat
  BY Bytes1Fit
<1>3. Bytes1 <= l1.size
  BY <1>1, <1>2
<1> QED
  BY <1>2, <1>3, Hundredfold

LEMMA CheckL1Keeps ==
  ASSUME CacheOK, CacheOK', Bytes1OK, L1Bounded, NEW t \in Callers, CheckL1(t)
  PROVE  Bytes1OK' /\ L1Bounded'
<1>1. /\ UNCHANGED l1 /\ calls[t].pc = "check_l1"
      /\ \/ should_evict /\ Turns(t, "evict_l1", calls[t].entry) /\ calls'[t].cands = Candidates
         \/ ~should_evict /\ Turns(t, "insert_l1", calls[t].entry)
      /\ history' = Crowd(history, "L1", \E u \in Callers : calls[u].pc \in {"evict_l1", "insert_l1"})
  BY CheckL1Is
<1>2. /\ MarksGrow /\ history'.drifted = history.drifted
      /\ history'.crowded = IF \E u \in Callers : calls[u].pc \in {"evict_l1", "insert_l1"}
                            THEN history.crowded \union {"L1"} ELSE history.crowded
  BY <1>1, CrowdMarks DEF Tiers
<1>3. Others(t) /\ calls'[t].pc \in InL1
  BY <1>1, GoesStill DEF InL1
<1>4. Bytes1OK'
  BY <1>1, <1>2, <1>3, Calm1Keeps DEF Calm1, MarksGrow
<1>5. ASSUME "L1" \notin history'.drifted \union history'.crowded
      PROVE  L1Bounded'
  <2>1. \A u \in Callers : calls[u].pc \notin InL1
    BY <1>2, <1>5 DEF InL1
  <2>2. "L1" \notin history.drifted \union history.crowded
    BY <1>2, <1>5
  <2>3. Bytes1' = Bytes1 /\ Present(l1'.map) = Present(l1.map)
    BY <1>1 DEF Bytes1, Present
  <2>4. 100 * Bytes1' < HighPercent * L1Capacity + 100 * L1Capacity
    BY <2>2, <2>3, BoundedNow1
  <2>5. calls'[t].pc = "evict_l1" => Present(l1'.map) \subseteq {c.key : c \in calls'[t].cands}
    <3>1. calls'[t].pc = "evict_l1" => calls'[t].cands = Candidates
      BY <1>1, GoesStill
    <3>2. \A k \in Present(l1.map) : \E c \in Candidates : c.key = k
      BY CandidatesAre DEF CacheOK
    <3> QED
      BY <2>3, <3>1, <3>2
  <2>6. calls'[t].pc = "insert_l1" => 100 * Bytes1' < HighPercent * L1Capacity
    <3>1. calls'[t].pc = "insert_l1" => ~should_evict
      BY <1>1, GoesStill
    <3>2. ~should_evict => 100 * l1.size < HighPercent * L1Capacity
      <4>1. l1.size \in Nat
        BY Bytes1Fit
      <4> QED
        BY <4>1, Marks1 DEF should_evict
    <3>3. Bytes1 \in Nat /\ l1.size \in Nat /\ 100 * Bytes1 <= 100 * l1.size
      BY <2>2, Counter1
    <3> QED
      BY <2>3, <3>1, <3>2, <3>3, Marks1
  <2> QED
    BY <1>1, <1>2, <1>3, <1>5, <2>1, <2>4, <2>5, <2>6, AloneKeeps1
<1> QED
  BY <1>4, <1>5, BoundedNext1

LEMMA EvictL1Ends ==
  ASSUME CacheOK, CacheOK', Bytes1OK, L1Bounded, NEW t \in Callers,
         calls[t].pc = "evict_l1", Turns(t, "insert_l1", calls[t].entry), UNCHANGED l1,
         ~should_continue_eviction \/ calls[t].cands = {} \/ calls[t].left = 0,
         history' = Crowd(history, "L1", should_continue_eviction /\ calls[t].left = 0)
  PROVE  Bytes1OK' /\ L1Bounded'
<1>1. (should_continue_eviction /\ calls[t].left = 0) \in BOOLEAN
  BY DEF should_continue_eviction
<1>2. /\ MarksGrow /\ history'.drifted = history.drifted
      /\ history'.crowded = IF should_continue_eviction /\ calls[t].left = 0
                            THEN history.crowded \union {"L1"} ELSE history.crowded
  BY <1>1, CrowdMarks DEF Tiers
<1>3. Others(t) /\ calls'[t].pc = "insert_l1"
  BY GoesStill
<1>4. Bytes1OK'
  BY <1>2, <1>3, Calm1Keeps DEF Calm1, MarksGrow
<1>5. ASSUME "L1" \notin history'.drifted \union history'.crowded
      PROVE  L1Bounded'
  <2>1. ~should_continue_eviction \/ calls[t].cands = {}
    BY <1>2, <1>5
  <2>2. "L1" \notin history.drifted \union history.crowded
    BY <1>2, <1>5
  <2>3. Bytes1' = Bytes1 /\ Present(l1'.map) = Present(l1.map)
    BY DEF Bytes1, Present
  <2>4. 100 * Bytes1' < HighPercent * L1Capacity + 100 * L1Capacity
    BY <2>2, <2>3, BoundedNow1
  <2>5. 100 * Bytes1 < HighPercent * L1Capacity
    <3>1. CASE ~should_continue_eviction
      <4>1. l1.size \in Nat /\ LowPercent * L1Capacity \in Nat
        BY Bytes1Fit, Marks1
      <4>2. 100 * l1.size <= LowPercent * L1Capacity
        BY <3>1, <4>1 DEF should_continue_eviction
      <4>3. Bytes1 \in Nat /\ l1.size \in Nat /\ 100 * Bytes1 <= 100 * l1.size
        BY <2>2, Counter1
      <4> QED
        BY <4>2, <4>3, Marks1
    <3>2. CASE calls[t].cands = {}
      <4>1. Present(l1.map) \subseteq {c.key : c \in calls[t].cands}
        BY <2>2, BoundedNow1
      <4>2. Present(l1.map) = {}
        BY <3>2, <4>1
      <4>3. Bytes1 = 0
        BY <4>2, NoBytes DEF Bytes1
      <4> QED
        BY <4>3, Marks1
    <3> QED
      BY <2>1, <3>1, <3>2
  <2> QED
    BY <1>2, <1>3, <1>5, <2>3, <2>4, <2>5, AloneKeeps1 DEF InL1
<1> QED
  BY <1>4, <1>5, BoundedNext1

LEMMA EvictL1Goes ==
  ASSUME CacheOK, CacheOK', Bytes1OK, L1Bounded, NEW t \in Callers,
         calls[t].pc = "evict_l1", NEW c, EvictsL1(t, c)
  PROVE  Bytes1OK' /\ L1Bounded'
<1>1. /\ c.key \in Keys /\ c.size \in Sizes /\ c \in calls[t].cands
      /\ Turns(t, "evict_l1", calls[t].entry) /\ calls'[t].cands = calls[t].cands \ {c}
  BY DEF EvictsL1, L1Candidates
<1>2. Others(t) /\ calls'[t].pc = "evict_l1"
  BY <1>1, GoesStill
<1>3. MarksGrow /\ (Calm1(t) \/ Off1(t, c.key, c.size)) /\ c.key \notin Present(l1'.map)
  <2>1. CASE l1.map[c.key] = NoEntry /\ UNCHANGED <<l1, history>>
    BY <1>1, <1>2, <2>1 DEF MarksGrow, Calm1, Present
  <2>2. CASE ~(l1.map[c.key] = NoEntry /\ UNCHANGED <<l1, history>>)
    <3>1. /\ l1'.map = [l1.map EXCEPT ![c.key] = NoEntry] /\ l1'.size = Minus(l1.size, c.size)
          /\ history' = Drift(Excuse(history, {c.key}, OnlyInL1({c.key}) # {}),
                              "L1", ~RemovesItsSize(c.key, c.size))
      BY <2>2 DEF EvictsL1
    <3>2. Removal({c.key}, OnlyInL1({c.key}) # {}, "L1", ~RemovesItsSize(c.key, c.size))
      BY <1>1, <3>1, L1Removal
    <3>3. MarksGrow
      BY <3>2, MarksOfRemoval
    <3>4. history'.drifted = IF ~RemovesItsSize(c.key, c.size) THEN history.drifted \union {"L1"}
                             ELSE history.drifted
      BY <3>2 DEF Removal
    <3>5. c.size \in Nat
      BY <1>1, CacheNumbers
    <3>6. Off1(t, c.key, c.size)
      BY <1>1, <1>2, <3>1, <3>4, <3>5 DEF Off1
    <3>7. c.key \notin Present(l1'.map)
      BY <1>1, <3>1 DEF Present, CacheOK, L1OK
    <3> QED
      BY <3>3, <3>6, <3>7
  <2> QED
    BY <2>1, <2>2 DEF EvictsL1
<1>4. Bytes1OK'
  BY <1>3, Calm1Keeps, Off1Keeps
<1>5. /\ Bytes1 \in Nat /\ Bytes1' \in Nat /\ Bytes1' <= Bytes1
      /\ Present(l1'.map) \subseteq Present(l1.map)
  BY <1>3, NoMoreBytes
<1>6. ASSUME "L1" \notin history'.drifted \union history'.crowded
      PROVE  L1Bounded'
  <2>1. "L1" \notin history.drifted \union history.crowded
    BY <1>3, <1>6 DEF MarksGrow
  <2>2. 100 * Bytes1' < HighPercent * L1Capacity + 100 * L1Capacity
    <3>1. 100 * Bytes1 < HighPercent * L1Capacity + 100 * L1Capacity
      BY <2>1, BoundedNow1
    <3>2. Bytes1 \in Nat /\ Bytes1' \in Nat /\ Bytes1' <= Bytes1
      BY <1>5
    <3>3. 100 * Bytes1' <= 100 * Bytes1
      BY <3>2, Hundredfold
    <3> QED
      BY <3>1, <3>2, <3>3, Marks1
  <2>3. Present(l1.map) \subseteq {d.key : d \in calls[t].cands}
    BY <2>1, BoundedNow1
  <2>4. Present(l1'.map) \subseteq {d.key : d \in calls'[t].cands}
    BY <1>1, <1>3, <1>5, <2>3
  <2> QED
    BY <1>2, <1>3, <1>6, <2>2, <2>4, AloneKeeps1 DEF InL1
<1> QED
  BY <1>4, <1>6, BoundedNext1

LEMMA EvictL1Keeps ==
  ASSUME CacheOK, CacheOK', Bytes1OK, L1Bounded, NEW t \in Callers, EvictL1(t)
  PROVE  Bytes1OK' /\ L1Bounded'
<1>1. /\ calls[t].pc = "evict_l1"
      /\ \/ /\ ~should_continue_eviction \/ calls[t].cands = {} \/ calls[t].left = 0
            /\ Turns(t, "insert_l1", calls[t].entry) /\ UNCHANGED l1
            /\ history' = Crowd(history, "L1", should_continue_eviction /\ calls[t].left = 0)
         \/ \E c \in calls[t].cands : EvictsL1(t, c)
  BY EvictL1Is
<1>2. ASSUME NEW c \in calls[t].cands, EvictsL1(t, c) PROVE Bytes1OK' /\ L1Bounded'
  BY <1>1, <1>2, EvictL1Goes
<1> QED
  BY <1>1, <1>2, EvictL1Ends

LEMMA InsertL1Keeps ==
  ASSUME CacheOK, CacheOK', Bytes1OK, L1Bounded, NEW t \in Callers, InsertL1(t)
  PROVE  Bytes1OK' /\ L1Bounded'
<1> DEFINE k == calls[t].key
           e == calls[t].entry
<1>1. /\ calls[t].pc = "insert_l1" /\ k \in Keys /\ e \in CachedEntries /\ e # NoEntry /\ Ends(t)
      /\ \/ /\ e.size <= L1Capacity /\ Outcome(t, TRUE, "L1")
            /\ l1'.map = [l1.map EXCEPT ![k] = e]
            /\ l1'.size = Plus(l1.size, e.size - SizeIn(l1.map, k))
         \/ Outcome(t, FALSE, "L1") /\ UNCHANGED l1
  BY InsertL1Is
<1>2. Others(t) /\ calls'[t].pc = "idle"
  BY <1>1, EndsStill
<1>3. MarksGrow /\ history'.drifted = history.drifted
  BY <1>1, OutcomeMarks
<1>4. Calm1(t) \/ (On1(t, k, e) /\ e.size <= L1Capacity)
  BY <1>1, <1>2, <1>3 DEF Calm1, On1
<1>5. Bytes1OK'
  BY <1>4, Calm1Keeps, On1Keeps
<1>6. Bytes1 \in Nat /\ Bytes1' \in Nat /\ Bytes1' <= Bytes1 + L1Capacity
  <2>1. Bytes1 \in Nat /\ Bytes1' \in Nat /\ L1Capacity \in Nat
    BY Bytes1Fit, Bytes1FitNext, CacheNumbers
  <2>2. CASE Calm1(t)
    <3>1. Bytes1' = Bytes1
      BY <2>2 DEF Calm1, Bytes1
    <3> QED
      BY <2>1, <3>1
  <2>3. CASE On1(t, k, e) /\ e.size <= L1Capacity
    <3>1. Sized(l1.map, Keys) /\ Sized(l1'.map, Keys) /\ DOMAIN l1.map = Keys
      BY L1Sized, L1SizedNext DEF Sized
    <3>2. \A x \in Keys : x # k => SameSize(l1.map, l1'.map, x)
      BY <2>3, <3>1 DEF On1, SameSize
    <3>3. SizeIn(l1'.map, k) = e.size /\ e.size \in Nat /\ e.size <= L1Capacity
      <4>1. SizeIn(l1'.map, k) = e.size
        BY <1>1, <2>3, <3>1 DEF On1, SizeIn
      <4> QED
        BY <1>1, <2>3, <4>1, CacheSizes
    <3>4. /\ BytesOf(l1.map) \in Nat /\ SizeIn(l1.map, k) \in Nat
          /\ BytesOf(l1'.map) = BytesOf(l1.map) - SizeIn(l1.map, k) + SizeIn(l1'.map, k)
      BY <1>1, <3>1, <3>2, BytesChange
    <3> QED
      BY <2>1, <3>3, <3>4 DEF Bytes1
  <2> QED
    BY <1>4, <2>2, <2>3
<1>7. ASSUME "L1" \notin history'.drifted \union history'.crowded
      PROVE  L1Bounded'
  <2>1. "L1" \notin history.drifted \union history.crowded
    BY <1>3, <1>7 DEF MarksGrow
  <2>2. 100 * Bytes1 < HighPercent * L1Capacity
    BY <1>1, <2>1, BoundedNow1
  <2>3. 100 * Bytes1' < HighPercent * L1Capacity + 100 * L1Capacity
    <3>1. L1Capacity \in Nat /\ HighPercent * L1Capacity \in Nat
      BY CacheNumbers, Marks1
    <3> HIDE DEF k, e
    <3> QED
      BY <1>6, <2>2, <3>1
  <2> QED
    BY <1>1, <1>2, <1>3, <1>7, <2>3, AloneKeeps1 DEF InL1
<1> QED
  BY <1>5, <1>7, BoundedNext1

-----------------------------------------------------------------------------
(* The cache: L2's counter and bound.                                      *)

Bytes2 == BytesOf(l2.index)
Bytes2OK == "L2" \notin history.drifted => l2.size = Bytes2

LEMMA FewHashes ==
  IsFiniteSet(Hashes) /\ Cardinality(Hashes) \in Nat /\ Cardinality(Hashes) <= Cardinality(Keys)
<1> DEFINE f == [k \in Keys |-> Hash[k]]
<1>1. f \in Surjection(Keys, Hashes)
  BY DEF Surjection, Hashes
<1>2. IsFiniteSet(Keys)
  BY CacheNumbers
<1>3. IsFiniteSet(Hashes) /\ Cardinality(Hashes) <= Cardinality(Keys)
  BY <1>1, <1>2, FS_Surjection
<1> QED
  BY <1>3, FS_CardinalityType

LEMMA L2Sized ==
  ASSUME CacheOK
  PROVE  Sized(l2.index, Hashes) /\ DOMAIN l2.index = Hashes
<1>1. \A h \in Hashes : l2.index[h] # NoEntry => l2.index[h] \in IndexEntries
  BY DEF CacheOK, L2OK
<1>2. DOMAIN l2.index = Hashes
  BY DEF CacheOK, L2OK
<1> QED
  BY <1>1, <1>2, CacheSizes, FewHashes DEF Sized

LEMMA L2SizedNext ==
  ASSUME CacheOK'
  PROVE  Sized(l2'.index, Hashes) /\ DOMAIN l2'.index = Hashes
<1>1. \A h \in Hashes : l2'.index[h] # NoEntry => l2'.index[h] \in IndexEntries
  BY DEF CacheOK, L2OK, Hashes
<1>2. \A e \in IndexEntries : e.size \in Nat
  BY CacheNumbers DEF IndexEntries
<1>3. DOMAIN l2'.index = Hashes
  BY DEF CacheOK, L2OK, Hashes
<1> QED
  BY <1>1, <1>2, <1>3, FewHashes DEF Sized

LEMMA RoomFits ==
  ASSUME NEW b \in Nat, b <= Cardinality(Hashes) * L2Capacity
  PROVE  b < Word
<1>1. /\ Cardinality(Hashes) \in Nat /\ Cardinality(Keys) \in Nat /\ L2Capacity \in Nat /\ Word \in Nat
      /\ Cardinality(Hashes) <= Cardinality(Keys)
  BY FewHashes, CacheNumbers
<1>2. /\ Cardinality(Hashes) * L2Capacity <= Cardinality(Keys) * L2Capacity
      /\ Cardinality(Hashes) * L2Capacity \in Nat /\ Cardinality(Keys) * L2Capacity \in Nat
  BY <1>1, ProductsAre
<1>3. Cardinality(Keys) * L2Capacity < Word
  BY WordAssumption
<1> QED
  BY <1>1, <1>2, <1>3

LEMMA Bytes2Fit ==
  ASSUME CacheOK
  PROVE  Bytes2 \in Nat /\ Bytes2 < Word /\ l2.size \in Nat
<1>1. Sized(l2.index, Hashes) /\ L2Capacity \in Nat
  BY L2Sized, CacheNumbers
<1>2. \A h \in Hashes : l2.index[h] # NoEntry => l2.index[h].size <= L2Capacity
  BY CacheNumbers DEF CacheOK, L2OK
<1>3. Bytes2 \in Nat /\ Bytes2 <= Cardinality(Hashes) * L2Capacity
  BY <1>1, <1>2, BytesBound, Zenon DEF Bytes2
<1> QED
  BY <1>3, RoomFits, CacheSizes

LEMMA Bytes2FitNext ==
  ASSUME CacheOK'
  PROVE  Bytes2' \in Nat /\ Bytes2' < Word
<1>1. Sized(l2'.index, Hashes) /\ L2Capacity \in Nat
  BY L2SizedNext, CacheNumbers
<1>2. \A h \in Hashes : l2'.index[h] # NoEntry => l2'.index[h].size <= L2Capacity
  BY CacheNumbers DEF CacheOK, L2OK, Hashes
<1>3. BytesOf(l2'.index) \in Nat /\ BytesOf(l2'.index) <= Cardinality(Hashes) * L2Capacity
  BY <1>1, <1>2, BytesBound, Zenon
<1> QED
  BY <1>3, RoomFits DEF Bytes2

LEMMA BoundedNext2 ==
  ASSUME "L2" \notin history'.drifted \union history'.crowded =>
           /\ Bytes2' <= L2Capacity
           /\ \A v, u \in Callers : {calls'[v].pc, calls'[u].pc} \subseteq Filling => v = u
           /\ \A v \in Callers :
              /\ calls'[v].pc = "evict_l2" => Present(l2'.index) \subseteq Hashed(calls'[v].cands)
              /\ calls'[v].pc \in {"alloc_l2", "insert_l2"} =>
                   Bytes2' + calls'[v].entry.size <= L2Capacity
  PROVE  L2Bounded'
BY DEF L2Bounded, Bytes2

LEMMA BoundedNow2 ==
  ASSUME L2Bounded, "L2" \notin history.drifted \union history.crowded
  PROVE  /\ Bytes2 <= L2Capacity
         /\ \A v, u \in Callers : {calls[v].pc, calls[u].pc} \subseteq Filling => v = u
         /\ \A v \in Callers :
              /\ calls[v].pc = "evict_l2" => Present(l2.index) \subseteq Hashed(calls[v].cands)
              /\ calls[v].pc \in {"alloc_l2", "insert_l2"} =>
                   Bytes2 + calls[v].entry.size <= L2Capacity
BY DEF L2Bounded, Bytes2

\* A step of a caller that is not filling L2: what L2 holds does not grow.
Lessens2(t) ==
  /\ Others(t) /\ MarksGrow /\ calls[t].pc \notin Filling /\ calls'[t].pc \notin Filling
  /\ Present(l2'.index) \subseteq Present(l2.index) /\ Bytes2' <= Bytes2
  /\ l2.size = Bytes2 => l2'.size = Bytes2'

LEMMA LessensL2 ==
  ASSUME CacheOK, CacheOK', Bytes2OK, L2Bounded, NEW t \in Callers, Lessens2(t)
  PROVE  Bytes2OK' /\ L2Bounded'
<1>1. Bytes2OK'
  BY DEF Bytes2OK, Lessens2, MarksGrow
<1>2. ASSUME "L2" \notin history'.drifted \union history'.crowded
      PROVE  L2Bounded'
  <2>1. "L2" \notin history.drifted \union history.crowded
    BY <1>2 DEF Lessens2, MarksGrow
  <2>2. /\ Bytes2 <= L2Capacity
        /\ \A v, u \in Callers : {calls[v].pc, calls[u].pc} \subseteq Filling => v = u
    BY <2>1, BoundedNow2
  <2>3. \A v \in Callers : calls'[v].pc \in Filling => calls'[v] = calls[v]
    BY DEF Lessens2, Others
  <2>4. Bytes2 \in Nat /\ Bytes2' \in Nat /\ Bytes2' <= Bytes2 /\ L2Capacity \in Nat
    BY Bytes2Fit, Bytes2FitNext, CacheNumbers DEF Lessens2
  <2>5. Bytes2' <= L2Capacity
    BY <2>2, <2>4
  <2>6. \A v, u \in Callers : {calls'[v].pc, calls'[u].pc} \subseteq Filling => v = u
    BY <2>2, <2>3
  <2>7. ASSUME NEW v \in Callers
        PROVE  /\ calls'[v].pc = "evict_l2" => Present(l2'.index) \subseteq Hashed(calls'[v].cands)
               /\ calls'[v].pc \in {"alloc_l2", "insert_l2"} =>
                    Bytes2' + calls'[v].entry.size <= L2Capacity
    <3>1. calls'[v].pc \in {"evict_l2", "alloc_l2", "insert_l2"} => calls'[v] = calls[v]
      BY <2>3 DEF Filling
    <3>2. /\ calls[v].pc = "evict_l2" => Present(l2.index) \subseteq Hashed(calls[v].cands)
          /\ calls[v].pc \in {"alloc_l2", "insert_l2"} => Bytes2 + calls[v].entry.size <= L2Capacity
      BY <2>1, BoundedNow2
    <3>3. calls[v].pc \in {"alloc_l2", "insert_l2"} => calls[v].entry.size \in Nat
      <4>1. calls[v].pc \in {"alloc_l2", "insert_l2"} => calls[v].entry \in CachedEntries
        BY CallHas DEF CacheOK, Carrying, Filling
      <4> QED
        BY <4>1, CacheSizes
    <3>4. calls'[v].pc = "evict_l2" => Present(l2'.index) \subseteq Hashed(calls'[v].cands)
      BY <3>1, <3>2 DEF Lessens2
    <3>5. calls[v].pc \in {"alloc_l2", "insert_l2"} => Bytes2' + calls[v].entry.size <= L2Capacity
      BY <2>4, <3>2, <3>3
    <3> QED
      BY <3>1, <3>4, <3>5
  <2> QED
    BY <2>5, <2>6, <2>7, BoundedNext2
<1> QED
  BY <1>1, <1>2, BoundedNext2

LEMMA OneSizeStays ==
  ASSUME CacheOK, CacheOK', \A h \in Hashes : SameSize(l2.index, l2'.index, h)
  PROVE  Bytes2' = Bytes2 /\ Present(l2'.index) = Present(l2.index)
<1>1. DOMAIN l2.index = Hashes /\ DOMAIN l2'.index = Hashes
  BY L2Sized, L2SizedNext
<1>2. BytesOf(l2'.index) = BytesOf(l2.index)
  BY <1>1, SameBytes
<1> QED
  BY <1>1, <1>2 DEF Bytes2, Present, SameSize

Goes2(h) ==
  /\ h \in Hashes /\ l2'.index = [l2.index EXCEPT ![h] = NoEntry]
  /\ l2'.size = Minus(l2.size, SizeIn(l2.index, h))

LEMMA OneGoes ==
  ASSUME CacheOK, CacheOK', NEW h, Goes2(h)
  PROVE  /\ Bytes2' <= Bytes2 /\ Present(l2'.index) \subseteq Present(l2.index)
         /\ l2.size = Bytes2 => l2'.size = Bytes2'
<1>1. Sized(l2.index, Hashes) /\ Sized(l2'.index, Hashes) /\ DOMAIN l2.index = Hashes
  BY L2Sized, L2SizedNext
<1>2. \A x \in Hashes : x # h => SameSize(l2.index, l2'.index, x)
  BY <1>1 DEF SameSize, Goes2
<1>3. h \in Hashes /\ SizeIn(l2'.index, h) = 0
  BY <1>1 DEF SizeIn, Goes2
<1>4. /\ BytesOf(l2.index) \in Nat /\ SizeIn(l2.index, h) \in Nat /\ SizeIn(l2.index, h) <= BytesOf(l2.index)
      /\ BytesOf(l2'.index) = BytesOf(l2.index) - SizeIn(l2.index, h) + SizeIn(l2'.index, h)
  BY <1>1, <1>2, <1>3, BytesChange
<1>5. Bytes2 \in Nat /\ Bytes2' \in Nat /\ Bytes2' = Bytes2 - SizeIn(l2.index, h) /\ Bytes2' <= Bytes2
      /\ Bytes2' < Word
  BY <1>3, <1>4, Bytes2FitNext DEF Bytes2
<1>6. l2.size = Bytes2 => l2'.size = Bytes2'
  BY <1>5, ModIs DEF Minus, Goes2
<1>7. Present(l2'.index) \subseteq Present(l2.index)
  BY <1>1 DEF Present, Goes2
<1> QED
  BY <1>5, <1>6, <1>7

LEMMA L2Lessens ==
  ASSUME CacheOK, CacheOK', NEW t \in Callers, Still2(t) \/ GetL2(t) \/ DeleteL2(t) \/ ClearL2(t)
  PROVE  Lessens2(t)
<1>0. Bytes2 \in Nat /\ Bytes2' \in Nat
  BY Bytes2Fit, Bytes2FitNext
<1>1. CASE Still2(t)
  BY <1>0, <1>1 DEF Still2, Lessens2, Bytes2
<1>2. CASE GetL2(t)
  <2> DEFINE h == Hash[calls[t].key]
             i == l2.index[h]
  <2>1. /\ UNCHANGED history /\ calls[t].pc = "get_l2" /\ h \in Hashes
        /\ \/ UNCHANGED l2 /\ Turns(t, "get_l3", calls[t].entry)
           \/ /\ i \in IndexEntries /\ l2' = [l2 EXCEPT !.index[h].count = @ + 1]
              /\ Turns(t, "check_l1", FromL2(i, i.count + 1)) \/ Ends(t)
    BY <1>2, GetL2Is
  <2>2. Others(t) /\ calls'[t].pc \in {"get_l3", "idle", "check_l1"} /\ MarksGrow
    BY <2>1, GoesStill, EndsStill DEF MarksGrow
  <2>3. CASE UNCHANGED l2
    BY <1>0, <2>1, <2>2, <2>3 DEF Lessens2, Bytes2, Filling
  <2>4. CASE i \in IndexEntries /\ l2' = [l2 EXCEPT !.index[h].count = @ + 1]
    <3>1. /\ \A g \in Hashes : /\ l2'.index[g] = NoEntry <=> l2.index[g] = NoEntry
                               /\ l2'.index[g].size = l2.index[g].size
          /\ l2'.size = l2.size
      BY <2>1, <2>4, HitStays
    <3>2. \A g \in Hashes : SameSize(l2.index, l2'.index, g)
      BY <3>1 DEF SameSize
    <3>3. Bytes2' = Bytes2 /\ Present(l2'.index) = Present(l2.index)
      BY <3>2, OneSizeStays
    <3> QED
      BY <1>0, <2>1, <2>2, <3>1, <3>3 DEF Lessens2, Filling
  <2> QED
    BY <2>1, <2>3, <2>4
<1>3. CASE DeleteL2(t)
  <2> DEFINE h == Hash[calls[t].key]
  <2>1. /\ calls[t].pc = "delete_l2" /\ h \in Hashes
        /\ l2'.index = [l2.index EXCEPT ![h] = NoEntry]
        /\ l2'.size = Minus(l2.size, SizeIn(l2.index, h))
    BY <1>3, DeleteL2Is
  <2>2. Turns(t, "delete_l3", calls[t].entry)
    BY <1>3, DeleteL2Is
  <2>3. Others(t) /\ calls'[t].pc = "delete_l3"
    BY <2>2, GoesStill
  <2>4. MarksGrow
    BY <1>3, L1Still DEF Still1
  <2>5. /\ Bytes2' <= Bytes2 /\ Present(l2'.index) \subseteq Present(l2.index)
        /\ l2.size = Bytes2 => l2'.size = Bytes2'
    BY <2>1, OneGoes DEF Goes2
  <2> QED
    BY <2>1, <2>3, <2>4, <2>5 DEF Lessens2, Filling
<1>4. CASE ClearL2(t)
  <2>1. /\ calls[t].pc = "clear_l2" /\ l2'.index = [h \in Hashes |-> NoEntry] /\ l2'.size = 0
        /\ Ends(t)
    BY <1>4, ClearL2Is
  <2>2. Others(t) /\ calls'[t].pc = "idle"
    BY <2>1, EndsStill
  <2>3. MarksGrow
    BY <1>4, L1Still DEF Still1
  <2>4. Present(l2'.index) = {}
    BY <2>1 DEF Present
  <2>5. Bytes2' = 0
    BY <2>4, NoBytes DEF Bytes2
  <2> QED
    BY <1>0, <2>1, <2>2, <2>3, <2>4, <2>5 DEF Lessens2, Filling
<1> QED
  BY <1>1, <1>2, <1>3, <1>4

\* A caller that fills L2 alone keeps what L2 holds within its capacity.
LEMMA AloneKeeps2 ==
  ASSUME CacheOK, CacheOK', L2Bounded, NEW t \in Callers, Others(t), MarksGrow,
         calls[t].pc \in Filling \union {"check_l2"},
         "L2" \notin history'.drifted \union history'.crowded,
         calls[t].pc = "check_l2" => \A u \in Callers : calls[u].pc \notin Filling,
         Bytes2' <= L2Capacity,
         calls'[t].pc = "evict_l2" => Present(l2'.index) \subseteq Hashed(calls'[t].cands),
         calls'[t].pc \in {"alloc_l2", "insert_l2"} => Bytes2' + calls'[t].entry.size <= L2Capacity
  PROVE  L2Bounded'
<1>1. "L2" \notin history.drifted \union history.crowded
  BY DEF MarksGrow
<1>2. \A v, u \in Callers : {calls[v].pc, calls[u].pc} \subseteq Filling => v = u
  BY <1>1, BoundedNow2
<1>3. \A u \in Callers : u # t => calls[u].pc \notin Filling
  BY <1>2
<1>4. \A u \in Callers : u # t => calls'[u].pc \notin Filling
  BY <1>3 DEF Others
<1>5. \A v, u \in Callers : {calls'[v].pc, calls'[u].pc} \subseteq Filling => v = u
  BY <1>4
<1>6. ASSUME NEW v \in Callers
      PROVE  /\ calls'[v].pc = "evict_l2" => Present(l2'.index) \subseteq Hashed(calls'[v].cands)
             /\ calls'[v].pc \in {"alloc_l2", "insert_l2"} =>
                  Bytes2' + calls'[v].entry.size <= L2Capacity
  <2>1. CASE v = t
    BY <2>1
  <2>2. CASE v # t
    BY <1>4, <2>2 DEF Filling
  <2> QED
    BY <2>1, <2>2
<1> QED
  BY <1>5, <1>6, BoundedNext2

LEMMA EvictL2Counts ==
  ASSUME CacheOK, CacheOK', Bytes2OK, NEW t \in Callers, NEW gone, EvictsL2(t, gone),
         "L2" \notin history'.drifted
  PROVE  l2'.size = Bytes2' /\ "L2" \notin history.drifted
<1> DEFINE S == Taken(gone)
<1>1. /\ gone \in SUBSET CandidatesOfL2 /\ IsFiniteSet(gone)
      /\ l2'.size = CounterWithout(gone) /\ l2'.index = Without1(l2.index, gone)
      /\ history' = Drift(Excuse(history, OnlyInL2(Hashed(gone)), TRUE), "L2", Stale(gone) # {})
  BY DEF EvictsL2
<1>2. Removal(OnlyInL2(Hashed(gone)), TRUE, "L2", Stale(gone) # {})
  BY <1>1, L2Removal
<1>3. Stale(gone) = {} /\ "L2" \notin history.drifted
  BY <1>2 DEF Removal
<1>4. /\ CounterWithout(gone) = Minus(l2.size, SumOf(SizesOf(S)))
      /\ SumOf(SizesOf(S)) \in Nat /\ IsFiniteSet(S)
  BY <1>1, CounterIs
<1>5. Sized(l2.index, Hashes) /\ DOMAIN l2.index = Hashes
  BY L2Sized
<1>6. ASSUME NEW c \in S
      PROVE  /\ c \in CandidatesOfL2 /\ c.hash \in Hashes /\ l2.index[c.hash] # NoEntry
             /\ l2.index[c.hash].size = c.size
  BY <1>1, <1>3 DEF Taken, Stale, CandidatesOfL2
<1>7. ASSUME NEW c \in S, NEW d \in S, c.hash = d.hash PROVE c = d
  <2>1. c \in CandidatesOfL2 /\ d \in CandidatesOfL2 /\ c.size = d.size
    BY <1>6, <1>7
  <2> QED
    BY <1>7, <2>1 DEF CandidatesOfL2
<1>8. Without1(l2.index, gone) = Without1(l2.index, S)
  <2>1. \A h \in DOMAIN l2.index :
          (IF h \in Hashed(gone) THEN NoEntry ELSE l2.index[h])
            = (IF h \in Hashed(S) THEN NoEntry ELSE l2.index[h])
    BY DEF Hashed, Taken
  <2> QED
    BY <2>1, Zenon DEF Without1
<1> HIDE DEF S
<1>9. /\ BytesOf(Without1(l2.index, S)) \in Nat
      /\ BytesOf(l2.index) = BytesOf(Without1(l2.index, S)) + SumOf(SizesOf(S))
  BY <1>4, <1>5, <1>6, <1>7, CandidatesOut
<1>10. Bytes2' = BytesOf(Without1(l2.index, S))
  BY <1>1, <1>8 DEF Bytes2
<1>11. l2.size = Bytes2
  BY <1>3 DEF Bytes2OK
<1>12. l2.size - SumOf(SizesOf(S)) = Bytes2' /\ Bytes2' \in Nat /\ Bytes2' < Word
  BY <1>4, <1>9, <1>10, <1>11, Bytes2FitNext DEF Bytes2
<1>13. l2'.size = Bytes2'
  BY <1>1, <1>4, <1>12, ModIs DEF Minus
<1> QED
  BY <1>3, <1>13

LEMMA EvictL2Keeps ==
  ASSUME CacheOK, CacheOK', Bytes2OK, L2Bounded, NEW t \in Callers, EvictL2(t)
  PROVE  Bytes2OK' /\ L2Bounded'
<1> DEFINE e == calls[t].entry
<1>1. calls[t].pc = "evict_l2" /\ Turns(t, "alloc_l2", e) /\ e \in CachedEntries
      /\ \E gone : EvictsL2(t, gone)
  BY EvictL2Is
<1>2. PICK gone : EvictsL2(t, gone)
  BY <1>1
<1>3. /\ l2'.size = CounterWithout(gone) /\ l2'.index = Without1(l2.index, gone)
      /\ CounterWithout(gone) <= L2Capacity - e.size \/ gone = calls[t].cands
  BY <1>2 DEF EvictsL2
<1>4. Others(t) /\ calls'[t].pc = "alloc_l2" /\ calls'[t].entry = e
  BY <1>1, GoesStill
<1>5. MarksGrow
  BY L1Still DEF Still1
<1>6. Bytes2OK'
  BY <1>2, EvictL2Counts DEF Bytes2OK
<1>7. e.size \in Nat /\ e.size <= L2Capacity /\ L2Capacity \in Nat
  <2>1. e.size \in MinEntrySize .. L2Capacity
    BY <1>1 DEF CacheOK, CallsOK, CacheCallOK, Filling
  <2> QED
    BY <1>1, <2>1, CacheSizes, CacheNumbers
<1>8. ASSUME "L2" \notin history'.drifted \union history'.crowded
      PROVE  L2Bounded'
  <2>1. l2'.size = Bytes2' /\ Bytes2' \in Nat
    BY <1>2, <1>8, EvictL2Counts, Bytes2FitNext
  <2>2. Bytes2' + e.size <= L2Capacity
    <3>1. CASE CounterWithout(gone) <= L2Capacity - e.size
      <4>1. Bytes2' <= L2Capacity - e.size
        BY <1>3, <2>1, <3>1
      <4> HIDE DEF e
      <4> QED
        BY <1>7, <2>1, <4>1
    <3>2. CASE gone = calls[t].cands
      <4>1. "L2" \notin history.drifted \union history.crowded
        BY <1>5, <1>8 DEF MarksGrow
      <4>2. Present(l2.index) \subseteq Hashed(gone)
        BY <1>1, <3>2, <4>1, BoundedNow2
      <4>3. Present(l2'.index) = {}
        BY <1>3, <4>2 DEF Present, Without1
      <4>4. Bytes2' = 0
        BY <4>3, NoBytes DEF Bytes2
      <4> HIDE DEF e
      <4> QED
        BY <1>7, <4>4
    <3> QED
      BY <1>3, <3>1, <3>2
  <2>3. Bytes2' <= L2Capacity
    <3> HIDE DEF e
    <3> QED
      BY <1>7, <2>1, <2>2
  <2> QED
    BY <1>1, <1>4, <1>5, <1>8, <2>2, <2>3, AloneKeeps2 DEF Filling
<1> QED
  BY <1>6, <1>8, BoundedNext2

LEMMA CheckL2Keeps ==
  ASSUME CacheOK, CacheOK', Bytes2OK, L2Bounded, NEW t \in Callers, CheckL2(t)
  PROVE  Bytes2OK' /\ L2Bounded'
<1> DEFINE e == calls[t].entry
<1>1. /\ UNCHANGED l2 /\ calls[t].pc = "check_l2" /\ e \in CachedEntries
      /\ \/ Ends(t) /\ Outcome(t, FALSE, "L2")
         \/ /\ Turns(t, "evict_l2", e) /\ calls'[t].cands = L2Candidates
            /\ history' = Crowd(history, "L2", FillingL2)
         \/ /\ l2.size + e.size <= L2Capacity /\ Turns(t, "alloc_l2", e)
            /\ history' = Crowd(history, "L2", FillingL2)
  BY CheckL2Is
<1>2. CASE Ends(t) /\ Outcome(t, FALSE, "L2")
  <2>1. Others(t) /\ calls'[t].pc = "idle" /\ MarksGrow
    BY <1>2, EndsStill, OutcomeMarks
  <2>2. Still2(t)
    BY <1>1, <2>1 DEF Still2, Filling
  <2> QED
    BY <2>2, L2Lessens, LessensL2
<1>3. CASE /\ Turns(t, "evict_l2", e) \/ Turns(t, "alloc_l2", e)
           /\ history' = Crowd(history, "L2", FillingL2)
  <2>1. /\ MarksGrow /\ history'.drifted = history.drifted
        /\ history'.crowded = IF FillingL2 THEN history.crowded \union {"L2"} ELSE history.crowded
    BY <1>3, CrowdMarks DEF Tiers, FillingL2
  <2>2. Others(t) /\ calls'[t].pc \in {"evict_l2", "alloc_l2"} /\ calls'[t].entry = e
    BY <1>3, GoesStill
  <2>3. Bytes2' = Bytes2 /\ l2' = l2
    BY <1>1 DEF Bytes2
  <2>4. Bytes2OK'
    BY <2>1, <2>3 DEF Bytes2OK
  <2>5. ASSUME "L2" \notin history'.drifted \union history'.crowded
        PROVE  L2Bounded'
    <3>1. \A u \in Callers : calls[u].pc \notin Filling
      BY <2>1, <2>5 DEF FillingL2, Filling
    <3>2. "L2" \notin history.drifted \union history.crowded
      BY <2>1, <2>5
    <3>3. Bytes2' <= L2Capacity
      BY <2>3, <3>2, BoundedNow2
    <3>4. calls'[t].pc = "evict_l2" => Present(l2'.index) \subseteq Hashed(calls'[t].cands)
      <4>1. calls'[t].pc = "evict_l2" => calls'[t].cands = L2Candidates
        BY <1>1, GoesStill, EndsStill
      <4>2. Present(l2.index) \subseteq Hashed(L2Candidates)
        BY L2CandidatesAre DEF CacheOK
      <4> QED
        BY <2>3, <4>1, <4>2
    <3>5. calls'[t].pc \in {"alloc_l2", "insert_l2"} => Bytes2' + calls'[t].entry.size <= L2Capacity
      <4>1. calls'[t].pc = "alloc_l2" => l2.size + e.size <= L2Capacity
        BY <1>1, GoesStill, EndsStill
      <4>2. l2.size = Bytes2
        BY <3>2 DEF Bytes2OK
      <4> QED
        BY <2>2, <2>3, <4>1, <4>2
    <3> QED
      BY <1>1, <2>1, <2>2, <2>5, <3>1, <3>3, <3>4, <3>5, AloneKeeps2
  <2> QED
    BY <2>4, <2>5, BoundedNext2
<1> QED
  BY <1>1, <1>2, <1>3

LEMMA AllocL2Keeps ==
  ASSUME CacheOK, CacheOK', Bytes2OK, L2Bounded, NEW t \in Callers, AllocL2(t)
  PROVE  Bytes2OK' /\ L2Bounded'
<1>1. /\ calls[t].pc = "alloc_l2" /\ l2'.index = l2.index /\ l2'.size = l2.size
      /\ Turns(t, "insert_l2", calls[t].entry)
      /\ history' = [history EXCEPT !.crossed = @ \/ \E u \in Callers : At(u, "insert_l2")]
  BY AllocL2Is
<1>2. Others(t) /\ calls'[t].pc = "insert_l2" /\ calls'[t].entry = calls[t].entry
  BY <1>1, GoesStill
<1>3. history'.drifted = history.drifted /\ history'.crowded = history.crowded
  BY <1>1 DEF CacheOK, Histories
<1>4. Bytes2' = Bytes2
  BY <1>1 DEF Bytes2
<1>5. Bytes2OK'
  BY <1>1, <1>3, <1>4 DEF Bytes2OK
<1>6. ASSUME "L2" \notin history'.drifted \union history'.crowded
      PROVE  L2Bounded'
  <2>1. Bytes2 <= L2Capacity /\ Bytes2 + calls[t].entry.size <= L2Capacity
    BY <1>1, <1>3, <1>6, BoundedNow2
  <2>2. MarksGrow
    BY <1>3 DEF MarksGrow
  <2> QED
    BY <1>1, <1>2, <1>4, <1>6, <2>1, <2>2, AloneKeeps2 DEF Filling
<1> QED
  BY <1>5, <1>6, BoundedNext2

LEMMA InsertL2Keeps ==
  ASSUME CacheOK, CacheOK', Bytes2OK, L2Bounded, NEW t \in Callers, InsertL2(t)
  PROVE  Bytes2OK' /\ L2Bounded'
<1> DEFINE e == calls[t].entry
           h == Hash[calls[t].key]
           i == IndexEntry(e, l2.file, calls[t].left)
<1>1. /\ calls[t].pc = "insert_l2" /\ calls[t].key \in Keys /\ e \in CachedEntries
      /\ Ends(t) /\ Outcome(t, TRUE, "L2") /\ InsertsL2(t) /\ i \in IndexEntries
  BY InsertL2Is
<1>2. l2'.index = [l2.index EXCEPT ![h] = i] /\ l2'.size = Plus(l2.size, e.size - SizeIn(l2.index, h))
  BY <1>1 DEF InsertsL2
<1>3. h \in Hashes /\ i # NoEntry /\ i.size = e.size /\ e.size \in Nat
  BY <1>1, NoEntryIsNone, CacheSizes DEF Hashes, IndexEntry
<1>4. Others(t) /\ calls'[t].pc = "idle" /\ MarksGrow
      /\ history'.drifted = history.drifted /\ history'.crowded = history.crowded
  BY <1>1, EndsStill, OutcomeMarks
<1> HIDE DEF e, h, i
<1>5. Sized(l2.index, Hashes) /\ Sized(l2'.index, Hashes) /\ DOMAIN l2.index = Hashes
  BY L2Sized, L2SizedNext
<1>6. \A x \in Hashes : x # h => SameSize(l2.index, l2'.index, x)
  BY <1>2, <1>5 DEF SameSize
<1>7. SizeIn(l2'.index, h) = e.size
  BY <1>2, <1>3, <1>5 DEF SizeIn
<1>8. /\ BytesOf(l2.index) \in Nat /\ SizeIn(l2.index, h) \in Nat
      /\ BytesOf(l2'.index) = BytesOf(l2.index) - SizeIn(l2.index, h) + SizeIn(l2'.index, h)
  BY <1>3, <1>5, <1>6, BytesChange
<1>9. /\ Bytes2 \in Nat /\ Bytes2' \in Nat /\ Bytes2' < Word
      /\ Bytes2' = Bytes2 + (e.size - SizeIn(l2.index, h)) /\ Bytes2' <= Bytes2 + e.size
  BY <1>3, <1>7, <1>8, Bytes2FitNext DEF Bytes2
<1>10. Bytes2OK'
  BY <1>2, <1>4, <1>9, ModIs DEF Bytes2OK, Plus
<1>11. ASSUME "L2" \notin history'.drifted \union history'.crowded
       PROVE  L2Bounded'
  <2>1. Bytes2 + e.size <= L2Capacity
    BY <1>1, <1>4, <1>11, BoundedNow2 DEF e
  <2>2. Bytes2' <= L2Capacity
    BY <1>3, <1>9, <2>1, CacheNumbers
  <2> QED
    BY <1>1, <1>4, <1>11, <2>2, AloneKeeps2 DEF Filling
<1> QED
  BY <1>10, <1>11, BoundedNext2

-----------------------------------------------------------------------------
(* The cache: the counters.                                                *)

SizesOK == Bytes1OK /\ L1Bounded /\ Bytes2OK /\ L2Bounded

LEMMA SizesKeep ==
  ASSUME CacheOK, SizesOK, [Next]_vars
  PROVE  SizesOK'
<1>0. CacheOK' /\ Bytes1OK /\ L1Bounded /\ Bytes2OK /\ L2Bounded
  BY CacheKeeps DEF SizesOK
<1>1. CASE UNCHANGED <<l1, l2, calls, history>>
  BY <1>0, <1>1 DEF SizesOK, Bytes1OK, Bytes2OK, L1Bounded, L2Bounded, Bytes1, Bytes2,
                    Clearers, Uncounted, Room1
<1>2. CASE UNCHANGED vars
  BY <1>1, <1>2 DEF vars
<1>3. CASE Expire
  BY <1>1, <1>3, ExpireIs
<1>4. ASSUME NEW t \in Callers, Lessens1(t), Lessens2(t)
      PROVE  SizesOK'
  BY <1>0, <1>4, LessensBytes, LessensBound, LessensL2 DEF SizesOK
<1>5. ASSUME NEW t \in Callers, Still1(t), Still2(t)
      PROVE  SizesOK'
  BY <1>0, <1>4, <1>5, L1Lessens, L2Lessens
<1>6. ASSUME NEW t \in Callers,
             \/ BeginGet(t) \/ BeginDelete(t) \/ BeginPut(t)
             \/ GetL1(t) \/ GetL3(t) \/ PutL3(t) \/ FindL1(t) \/ DeleteL3(t)
      PROVE  SizesOK'
  BY <1>5, <1>6, CallsStill
<1>7. ASSUME NEW t \in Callers,
             DropExpired(t) \/ DeleteL1(t) \/ BeginClear(t) \/ ZeroL1(t)
      PROVE  SizesOK'
  <2>1. Still2(t)
    BY <1>7, L2Still
  <2> QED
    BY <1>0, <1>4, <1>7, <2>1, L1Lessens, L2Lessens
<1>8. ASSUME NEW t \in Callers, CheckL1(t) \/ EvictL1(t) \/ InsertL1(t)
      PROVE  SizesOK'
  <2>1. Still2(t)
    BY <1>8, L2Still
  <2>2. Bytes2OK' /\ L2Bounded'
    BY <1>0, <2>1, L2Lessens, LessensL2
  <2>3. Bytes1OK' /\ L1Bounded'
    BY <1>0, <1>8, CheckL1Keeps, EvictL1Keeps, InsertL1Keeps
  <2> QED
    BY <2>2, <2>3 DEF SizesOK
<1>9. ASSUME NEW t \in Callers, GetL2(t) \/ DeleteL2(t) \/ ClearL2(t)
      PROVE  SizesOK'
  <2>1. Still1(t)
    BY <1>9, L1Still
  <2> QED
    BY <1>0, <1>4, <1>9, <2>1, L1Lessens, L2Lessens
<1>10. ASSUME NEW t \in Callers, CheckL2(t) \/ EvictL2(t) \/ AllocL2(t) \/ InsertL2(t)
       PROVE  SizesOK'
  <2>1. Still1(t)
    BY <1>10, L1Still
  <2>2. Bytes1OK' /\ L1Bounded'
    BY <1>0, <2>1, L1Lessens, LessensBytes, LessensBound
  <2>3. Bytes2OK' /\ L2Bounded'
    BY <1>0, <1>10, CheckL2Keeps, EvictL2Keeps, AllocL2Keeps, InsertL2Keeps
  <2> QED
    BY <2>2, <2>3 DEF SizesOK
<1>11. ASSUME NEW t \in Callers, Step(t)
       PROVE  SizesOK'
  BY <1>6, <1>7, <1>8, <1>9, <1>10, <1>11 DEF Step
<1> QED
  BY <1>2, <1>3, <1>6, <1>7, <1>11 DEF Next

LEMMA CountersBegin ==
  ASSUME Init
  PROVE  SizesOK /\ HitsOK
<1>1. CacheOK
  BY CacheBegins
<1>2. /\ \A k \in Keys : l1.map[k] = NoEntry
      /\ \A h \in Hashes : l2.index[h] = NoEntry
      /\ l1.size = 0 /\ l2.size = 0 /\ history.gets = 0 /\ history.ops = 0
  BY DEF Init, EmptyL1, EmptyL2, Hashes
<1>3. \A t \in Callers : calls[t] = Idle
  BY DEF Init
<1>4. Present(l1.map) = {} /\ Present(l2.index) = {}
  BY <1>1, <1>2, L1Sized, L2Sized DEF Present, Sized
<1>5. Bytes1 = 0 /\ Bytes2 = 0
  BY <1>4, NoBytes DEF Bytes1, Bytes2
<1>6. ASSUME NEW pcs, "idle" \notin pcs PROVE Uncounted(pcs) = 0
  <2>1. {t \in Callers : calls[t].pc \in pcs} = {}
    BY <1>3, <1>6 DEF Idle
  <2> QED
    BY <2>1, FS_EmptySet DEF Uncounted
<1>7. Bytes1OK
  <2>1. Clearers = 0
    BY <1>6 DEF Clearers
  <2>2. 0 <= 0 * Room1
    BY Bytes1Fit, <1>1
  <2> QED
    BY <1>2, <1>5, <2>1, <2>2 DEF Bytes1OK
<1>8. Bytes2OK
  BY <1>2, <1>5 DEF Bytes2OK
<1>9. L1Bounded
  BY <1>3, <1>5, Marks1 DEF L1Bounded, Bytes1, Idle
<1>10. L2Bounded
  BY <1>3, <1>5, CacheNumbers DEF L2Bounded, Bytes2, Idle, Filling
<1>11. GetsAreCounted
  <2>1. /\ metrics.l1_hit = 0 /\ metrics.l1_miss = 0 /\ metrics.l2_hit = 0 /\ metrics.l2_miss = 0
        /\ metrics.l3_hit = 0 /\ metrics.l3_miss = 0 /\ metrics.l3_to_l2 = 0 /\ metrics.l2_to_l1 = 0
    BY DEF Init, NoMetrics
  <2>2. /\ Uncounted({"get_l1"}) = 0 /\ Uncounted({"drop_expired", "get_l2"}) = 0
        /\ Uncounted({"get_l3"}) = 0
    BY <1>6
  <2> QED
    BY <1>2, <2>1, <2>2 DEF GetsAreCounted
<1>12. HitsOK
  BY <1>2, <1>3, <1>11 DEF HitsOK, CountIn, Idle
<1> QED
  BY <1>7, <1>8, <1>9, <1>10, <1>12 DEF SizesOK

\* An entry is counted at most once more than there are operations.
LEMMA FewHits ==
  ASSUME CacheOK, HitsOK
  PROVE  metrics.l2_hit \in Nat /\ metrics.l2_hit <= MaxOps
<1>1. /\ metrics.l1_hit \in Nat /\ metrics.l1_miss \in Nat /\ metrics.l2_hit \in Nat
      /\ metrics.l2_miss \in Nat
  BY MetricsAre DEF CacheOK
<1>2. Uncounted({"get_l1"}) \in Nat /\ Uncounted({"drop_expired", "get_l2"}) \in Nat
  BY CallersCount
<1>3. /\ metrics.l1_hit + metrics.l1_miss + Uncounted({"get_l1"}) = history.gets
      /\ metrics.l2_hit + metrics.l2_miss + Uncounted({"drop_expired", "get_l2"}) = metrics.l1_miss
      /\ history.gets <= history.ops
  BY DEF HitsOK, GetsAreCounted
<1>4. history.gets \in Nat /\ history.ops \in Nat /\ history.ops <= MaxOps /\ MaxOps \in Nat
  BY CacheNumbers DEF CacheOK, Histories
<1> QED
  BY <1>1, <1>2, <1>3, <1>4

LEMMA EntriesAre ==
  ASSUME CacheOK, HitsOK, NEW e \in CachedEntries, CountIn(e), e # NoEntry
  PROVE  e \in Entries
<1>1. metrics.l2_hit \in Nat /\ metrics.l2_hit <= MaxOps /\ MaxOps \in Nat
  BY FewHits, CacheNumbers
<1>2. e.count \in Nat /\ 1 <= e.count /\ e.count <= 1 + metrics.l2_hit
  BY DEF CountIn, CachedEntries
<1>3. e.count \in 1 .. (MaxOps + 2)
  BY <1>1, <1>2
<1> QED
  BY <1>3 DEF CachedEntries, Entries

LEMMA CacheTypes ==
  ASSUME CacheOK, HitsOK
  PROVE  CacheTypeOK
<1>1. l1.map \in [Keys -> Entries \cup {NoEntry}]
  <2>1. l1.map \in [Keys -> CachedEntries \union {NoEntry}] /\ \A k \in Keys : CountIn(l1.map[k])
    BY DEF CacheOK, L1OK, HitsOK
  <2>2. \A k \in Keys : l1.map[k] \in Entries \cup {NoEntry}
    BY <2>1, EntriesAre
  <2> QED
    BY <2>1, <2>2
<1>2. {l1.size, l2.size} \subseteq 0 .. (Word - 1) /\ {l2.file, l2.offset} \subseteq Nat
  BY DEF CacheOK, L1OK, L2OK
<1>3. \A k \in Present(l1.map) : l1.map[k].size <= L1Capacity
  BY DEF CacheOK, L1OK, Present
<1>4. \A h \in Present(l2.index) : l2.index[h].size \in Sizes \cap (MinEntrySize .. L2Capacity)
  BY DEF CacheOK, L2OK, Present, IndexEntries
<1>5. ASSUME NEW t \in Callers PROVE CallTypeOK(calls[t])
  <2>1. calls[t] \in CacheCalls /\ CountIn(calls[t].entry)
    BY CallFacts DEF CacheOK, HitsOK
  <2>2. calls[t].entry \in CachedEntries \union {NoEntry} /\ calls[t].key \in Keys \union {NoEntry}
        /\ calls[t].left \in Nat /\ calls[t].op \in {"none", "get", "put", "delete", "clear"}
        /\ calls[t].pc \in CallPcs
    BY <2>1 DEF CacheCalls
  <2>3. calls[t].entry \in Entries \cup {NoEntry}
    BY <2>1, <2>2, EntriesAre
  <2> QED
    BY <2>2, <2>3 DEF CallTypeOK, CallPcs, Getting, Deleting, Carrying, Filling, Clearing
<1> QED
  BY <1>1, <1>2, <1>3, <1>4, <1>5 DEF CacheTypeOK

LEMMA SizesExact ==
  ASSUME CacheOK, SizesOK
  PROVE  SizesAreExact /\ CachesAreBounded
<1>1. ASSUME "L1" \notin history.drifted, \A t \in Callers : ~At(t, "zero_l1")
      PROVE  l1.size = BytesOf(l1.map)
  <2>1. PICK n \in Nat : l1.size = Bytes1 + n /\ n <= Clearers * Room1
    BY <1>1 DEF SizesOK, Bytes1OK
  <2>2. {t \in Callers : calls[t].pc \in {"zero_l1"}} = {}
    BY <1>1 DEF At
  <2>3. Clearers = 0
    BY <2>2, FS_EmptySet DEF Clearers, Uncounted
  <2>4. Room1 \in Nat /\ Bytes1 \in Nat
    BY Bytes1Fit
  <2>5. n = 0
    BY <2>1, <2>3, <2>4
  <2> QED
    BY <2>1, <2>4, <2>5 DEF Bytes1
<1>2. "L2" \notin history.drifted => l2.size = BytesOf(l2.index)
  BY DEF SizesOK, Bytes2OK, Bytes2
<1>3. SizesAreExact
  BY <1>1, <1>2 DEF SizesAreExact
<1>4. CachesAreBounded
  BY DEF SizesOK, L1Bounded, L2Bounded, CachesAreBounded
<1> QED
  BY <1>3, <1>4

\* What the tiers count is what they hold: each counter of bytes is the sizes of
\* its tier's entries unless a removal subtracted a size read earlier; while one
\* caller at a time fills them, L1 stays below the mark at which it evicts by less
\* than its capacity and L2 within its capacity; and every get is counted once.
THEOREM CountersStayExact == Spec => []CountersAreExact
<1> DEFINE IInv == CacheOK /\ SizesOK /\ HitsOK
<1>1. Init => IInv
  BY CacheBegins, CountersBegin
<1>2. IInv /\ [Next]_vars => IInv'
  BY CacheKeeps, SizesKeep, HitsKeep
<1>3. IInv => CountersAreExact
  <2>1. SUFFICES ASSUME IInv PROVE CountersAreExact
    OBVIOUS
  <2>2. GetsAreCounted
    BY <2>1 DEF HitsOK
  <2> QED
    BY <2>1, <2>2, CacheTypes, SizesExact DEF CountersAreExact
<1> QED
  BY <1>1, <1>2, <1>3, PTL DEF Spec
===============================================================================
