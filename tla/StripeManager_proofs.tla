------------------------ MODULE StripeManager_proofs ------------------------
(***************************************************************************)
(* Proofs about StripeManager, for every set of volumes and requests, every*)
(* size of stripes, batches and channel, and every bound.                  *)
(***************************************************************************)
EXTENDS StripeManager, Integers, FiniteSetTheorems, NaturalsInduction, WellFoundedInduction, TLAPS

-----------------------------------------------------------------------------
(* Numbers.                                                                *)

\* A set of naturals that is not empty has a least element.
LEMMA NatMin ==
  ASSUME NEW T, T \subseteq Nat, T # {}
  PROVE  \E x \in T : \A y \in T : x <= y
<1>1. \E x \in T : \A y \in T : ~ (<<y, x>> \in OpToRel(<, Nat))
  BY NatLessThanWellFounded, WFMin
<1>2. \A x, y \in Nat : y < x => <<y, x>> \in OpToRel(<, Nat)
  BY Zenon DEF OpToRel
<1>3. \E R : /\ \E x \in T : \A y \in T : <<y, x>> \notin R
             /\ \A x, y \in Nat : y < x => <<y, x>> \in R
  BY <1>1, <1>2, Zenon
<1>4. PICK R : /\ \E x \in T : \A y \in T : <<y, x>> \notin R
               /\ \A x, y \in Nat : y < x => <<y, x>> \in R
  BY <1>3, Zenon
<1>5. PICK x \in T : \A y \in T : <<y, x>> \notin R
  BY <1>4, Zenon
<1>6. ASSUME NEW y \in T PROVE ~(y < x)
  BY <1>4, <1>5, Zenon
<1>7. ASSUME NEW y \in T PROVE x <= y
  <2>1. x \in Nat /\ y \in Nat /\ ~(y < x)
    BY <1>6
  <2> QED
    BY <2>1
<1> QED
  BY <1>7

\* A set of integers that has elements and an upper bound has a greatest element.
LEMMA IntMax ==
  ASSUME NEW T, T \subseteq Int, T # {}, NEW b \in Int, \A x \in T : x <= b
  PROVE  \E x \in T : \A y \in T : y <= x
<1> DEFINE U == {n \in Nat : b - n \in T}
<1>1. U # {} /\ U \subseteq Nat
  <2>1. PICK x \in T : TRUE
    OBVIOUS
  <2>2. b - x \in Nat /\ b - (b - x) = x
    BY <2>1
  <2> QED
    BY <2>1, <2>2
<1> HIDE DEF U
<1>2. PICK n \in U : \A m \in U : n <= m
  BY <1>1, NatMin
<1>3. n \in Nat /\ b - n \in T
  BY <1>2 DEF U
<1>4. ASSUME NEW y \in T PROVE y <= b - n
  <2>1. y \in Int /\ y <= b
    OBVIOUS
  <2>2. b - y \in Nat /\ b - (b - y) = y
    BY <2>1
  <2>3. b - y \in U
    BY <2>2 DEF U
  <2>4. n <= b - y
    BY <2>3, <1>2
  <2> QED
    BY <2>1, <2>4, <1>3
<1> QED
  BY <1>3, <1>4

\* Induction, over the numbers that have a property.
LEMMA NatInd ==
  ASSUME NEW T, T \subseteq Nat, 0 \in T, \A n \in T : n + 1 \in T
  PROVE  T = Nat
<1> SUFFICES ASSUME Nat \ T # {} PROVE FALSE
  OBVIOUS
<1>1. PICK x \in Nat \ T : \A y \in Nat \ T : x <= y
  BY NatMin
<1>2. x # 0 /\ x - 1 \in Nat /\ x = (x - 1) + 1 /\ ~(x <= x - 1)
  BY <1>1
<1>3. x - 1 \in T
  BY <1>1, <1>2
<1> QED
  BY <1>1, <1>2, <1>3

-----------------------------------------------------------------------------
(* Sequences.                                                              *)

LEMMA SeqFacts ==
  ASSUME NEW S, NEW s \in Seq(S)
  PROVE  /\ Len(s) \in Nat /\ DOMAIN s = 1..Len(s) /\ \A k \in 1..Len(s) : s[k] \in S
         /\ ToSet(s) = {s[k] : k \in 1..Len(s)} /\ ToSet(s) \subseteq S
         /\ s = <<>> <=> Len(s) = 0
BY DEF ToSet

LEMMA EmptyIs ==
  ASSUME NEW s, DOMAIN s = {}
  PROVE  ToSet(s) = {} /\ IsInjective(s)
BY DEF ToSet, IsInjective

LEMMA EmptySequence ==
  ASSUME NEW s, s = <<>>
  PROVE  ToSet(s) = {} /\ IsInjective(s)
<1>1. DOMAIN s = {}
  OBVIOUS
<1> QED
  BY <1>1, EmptyIs

\* A sequence with one element more.
LEMMA AppendIs ==
  ASSUME NEW S, NEW s \in Seq(S), NEW x \in S
  PROVE  /\ Append(s, x) \in Seq(S) /\ Len(Append(s, x)) = Len(s) + 1
         /\ ToSet(Append(s, x)) = ToSet(s) \union {x}
         /\ IsInjective(s) /\ x \notin ToSet(s) => IsInjective(Append(s, x))
<1> DEFINE more == Append(s, x)
<1>1. /\ more \in Seq(S) /\ Len(more) = Len(s) + 1 /\ more[Len(s) + 1] = x
      /\ \A k \in 1..Len(s) : more[k] = s[k]
      /\ Len(s) \in Nat /\ DOMAIN more = 1..Len(more) /\ DOMAIN s = 1..Len(s)
  OBVIOUS
<1> HIDE DEF more
<1>2. \A k \in 1..Len(more) : k \in 1..Len(s) \/ k = Len(s) + 1
  BY <1>1
<1>3. x \notin ToSet(s) => \A k \in 1..Len(s) : s[k] # x
  BY <1>1 DEF ToSet
<1>4. IsInjective(s) /\ x \notin ToSet(s) => IsInjective(more)
  BY <1>1, <1>2, <1>3 DEF IsInjective
<1>5. ToSet(more) = ToSet(s) \union {x}
  BY <1>1, <1>2 DEF ToSet
<1> QED
  BY <1>1, <1>4, <1>5 DEF more

\* A sequence with another element in one place.
LEMMA ExceptIs ==
  ASSUME NEW S, NEW s, s \in Seq(S), NEW n, n \in DOMAIN s, NEW x, x \in S,
         NEW t, t = [s EXCEPT ![n] = x]
  PROVE  /\ t \in Seq(S) /\ Len(t) = Len(s) /\ DOMAIN t = DOMAIN s
         /\ t[n] = x /\ \A k \in DOMAIN s : k # n => t[k] = s[k]
OBVIOUS

\* A sequence without its head.
LEMMA TailIs ==
  ASSUME NEW S, NEW s \in Seq(S), s # <<>>
  PROVE  /\ Tail(s) \in Seq(S) /\ Head(s) \in S /\ Len(Tail(s)) = Len(s) - 1
         /\ ToSet(s) = ToSet(Tail(s)) \union {Head(s)}
         /\ IsInjective(s) => IsInjective(Tail(s)) /\ Head(s) \notin ToSet(Tail(s))
<1> DEFINE rest == Tail(s)
<1>1. /\ rest \in Seq(S) /\ Len(rest) = Len(s) - 1 /\ Head(s) = s[1] /\ s[1] \in S
      /\ \A k \in 1..Len(rest) : rest[k] = s[k + 1]
      /\ Len(s) \in Nat /\ Len(s) > 0 /\ DOMAIN rest = 1..Len(rest) /\ DOMAIN s = 1..Len(s)
  OBVIOUS
<1> HIDE DEF rest
<1>2. \A k \in 1..Len(s) : k = 1 \/ (k - 1 \in 1..Len(rest) /\ (k - 1) + 1 = k)
  BY <1>1
<1>3. \A k \in 1..Len(rest) : k + 1 \in 1..Len(s) /\ k + 1 # 1
  BY <1>1
<1>4. ASSUME IsInjective(s) PROVE IsInjective(rest)
  <2>1. ASSUME NEW j \in 1..Len(rest), NEW k \in 1..Len(rest), rest[j] = rest[k] PROVE j = k
    <3>1. j + 1 \in DOMAIN s /\ k + 1 \in DOMAIN s /\ s[j + 1] = s[k + 1]
      BY <1>1, <1>3, <2>1
    <3>2. j + 1 = k + 1
      BY <3>1, <1>4 DEF IsInjective
    <3> QED
      BY <3>2
  <2> QED
    BY <2>1, <1>1 DEF IsInjective
<1>5. IsInjective(s) => s[1] \notin ToSet(rest)
  <2> SUFFICES ASSUME IsInjective(s), s[1] \in ToSet(rest) PROVE FALSE
    OBVIOUS
  <2>1. PICK k \in 1..Len(rest) : rest[k] = s[1]
    BY <1>1 DEF ToSet
  <2>2. k + 1 \in DOMAIN s /\ 1 \in DOMAIN s /\ s[k + 1] = s[1] /\ k + 1 # 1
    BY <1>1, <1>3, <2>1
  <2> QED
    BY <2>2 DEF IsInjective
<1>6. ToSet(s) = ToSet(rest) \union {s[1]}
  <2>1. ASSUME NEW x \in ToSet(s) PROVE x \in ToSet(rest) \union {s[1]}
    <3>1. PICK k \in 1..Len(s) : x = s[k]
      BY <1>1 DEF ToSet
    <3>2. CASE k = 1
      BY <3>1, <3>2
    <3>3. CASE k - 1 \in 1..Len(rest) /\ (k - 1) + 1 = k
      <4>1. rest[k - 1] = x
        BY <1>1, <3>1, <3>3
      <4> QED
        BY <4>1, <1>1, <3>3 DEF ToSet
    <3> QED
      BY <1>2, <3>2, <3>3
  <2>2. \A x \in ToSet(rest) : x \in ToSet(s)
    BY <1>1, <1>3 DEF ToSet
  <2>3. s[1] \in ToSet(s)
    BY <1>1 DEF ToSet
  <2> QED
    BY <2>1, <2>2, <2>3
<1> QED
  BY <1>1, <1>4, <1>5, <1>6 DEF rest

\* A sequence taken apart.
LEMMA SplitIs ==
  ASSUME NEW S, NEW s \in Seq(S), NEW n \in 0..Len(s)
  PROVE  LET a == SubSeq(s, 1, n)  b == SubSeq(s, n + 1, Len(s)) IN
         /\ a \in Seq(S) /\ b \in Seq(S) /\ Len(a) = n
         /\ ToSet(s) = ToSet(a) \union ToSet(b)
         /\ IsInjective(s) =>
              IsInjective(a) /\ IsInjective(b) /\ ToSet(a) \intersect ToSet(b) = {}
<1> DEFINE a == SubSeq(s, 1, n)
           b == SubSeq(s, n + 1, Len(s))
<1>1. /\ a \in Seq(S) /\ Len(a) = n /\ \A k \in 1..n : a[k] = s[k]
      /\ b \in Seq(S) /\ Len(b) = Len(s) - n /\ \A k \in 1..(Len(s) - n) : b[k] = s[n + k]
      /\ Len(s) \in Nat /\ n \in Nat /\ n <= Len(s)
      /\ DOMAIN a = 1..n /\ DOMAIN b = 1..(Len(s) - n) /\ DOMAIN s = 1..Len(s)
  OBVIOUS
<1> HIDE DEF a, b
<1>2. \A k \in 1..Len(s) : k \in 1..n \/ (k - n \in 1..(Len(s) - n) /\ n + (k - n) = k)
  BY <1>1
<1>3. /\ \A k \in 1..n : k \in 1..Len(s)
      /\ \A k \in 1..(Len(s) - n) : n + k \in 1..Len(s) /\ n + k \notin 1..n
  BY <1>1
<1>4. ToSet(s) = ToSet(a) \union ToSet(b)
  <2>1. ASSUME NEW x \in ToSet(s) PROVE x \in ToSet(a) \union ToSet(b)
    <3>1. PICK k \in 1..Len(s) : x = s[k]
      BY <1>1 DEF ToSet
    <3>2. CASE k \in 1..n
      BY <1>1, <3>1, <3>2 DEF ToSet
    <3>3. CASE k - n \in 1..(Len(s) - n) /\ n + (k - n) = k
      <4>1. b[k - n] = x
        BY <1>1, <3>1, <3>3
      <4> QED
        BY <4>1, <1>1, <3>3 DEF ToSet
    <3> QED
      BY <1>2, <3>2, <3>3
  <2>2. \A x \in ToSet(a) : x \in ToSet(s)
    BY <1>1, <1>3 DEF ToSet
  <2>3. \A x \in ToSet(b) : x \in ToSet(s)
    BY <1>1, <1>3 DEF ToSet
  <2> QED
    BY <2>1, <2>2, <2>3
<1>5. ASSUME IsInjective(s)
      PROVE  IsInjective(a) /\ IsInjective(b) /\ ToSet(a) \intersect ToSet(b) = {}
  <2>1. IsInjective(a)
    BY <1>1, <1>3, <1>5 DEF IsInjective
  <2>2. ASSUME NEW j \in DOMAIN b, NEW k \in DOMAIN b, b[j] = b[k] PROVE j = k
    <3>1. n + j \in DOMAIN s /\ n + k \in DOMAIN s /\ s[n + j] = s[n + k]
      BY <1>1, <1>3, <2>2
    <3>2. n + j = n + k
      BY <3>1, <1>5 DEF IsInjective
    <3> QED
      BY <3>2, <1>1
  <2>3. ASSUME NEW j \in 1..n, NEW k \in 1..(Len(s) - n), a[j] = b[k] PROVE FALSE
    <3>1. j \in DOMAIN s /\ n + k \in DOMAIN s /\ s[j] = s[n + k] /\ j # n + k
      BY <1>1, <1>3, <2>3
    <3> QED
      BY <3>1, <1>5 DEF IsInjective
  <2>4. ToSet(a) \intersect ToSet(b) = {}
    BY <1>1, <2>3 DEF ToSet
  <2> QED
    BY <2>1, <2>2, <2>4 DEF IsInjective
<1> QED
  BY <1>1, <1>4, <1>5 DEF a, b

\* A sequence put together.
LEMMA ConcatIs ==
  ASSUME NEW S, NEW s \in Seq(S), NEW t \in Seq(S)
  PROVE  /\ s \o t \in Seq(S) /\ Len(s \o t) = Len(s) + Len(t)
         /\ \A k \in 1..Len(s) : (s \o t)[k] = s[k]
         /\ \A k \in 1..Len(t) : (s \o t)[Len(s) + k] = t[k]
         /\ ToSet(s \o t) = ToSet(s) \union ToSet(t)
         /\ IsInjective(s) /\ IsInjective(t) /\ ToSet(s) \intersect ToSet(t) = {}
              => IsInjective(s \o t)
<1> DEFINE c == s \o t
<1>1. /\ c \in Seq(S) /\ Len(c) = Len(s) + Len(t)
      /\ \A k \in 1..Len(s) : c[k] = s[k]
      /\ \A k \in 1..Len(t) : c[Len(s) + k] = t[k]
      /\ Len(s) \in Nat /\ Len(t) \in Nat
      /\ DOMAIN c = 1..(Len(s) + Len(t)) /\ DOMAIN s = 1..Len(s) /\ DOMAIN t = 1..Len(t)
  OBVIOUS
<1> HIDE DEF c
<1>2. \A k \in DOMAIN c : k \in 1..Len(s) \/ (k - Len(s) \in 1..Len(t) /\ Len(s) + (k - Len(s)) = k)
  BY <1>1
<1>3. /\ \A k \in 1..Len(s) : k \in DOMAIN c
      /\ \A k \in 1..Len(t) : Len(s) + k \in DOMAIN c
  BY <1>1
<1>4. ToSet(c) = ToSet(s) \union ToSet(t)
  <2>1. \A x \in ToSet(c) : x \in ToSet(s) \union ToSet(t)
    BY <1>1, <1>2 DEF ToSet
  <2>2. \A x \in ToSet(s) : x \in ToSet(c)
    BY <1>1, <1>3 DEF ToSet
  <2>3. \A x \in ToSet(t) : x \in ToSet(c)
    BY <1>1, <1>3 DEF ToSet
  <2> QED
    BY <2>1, <2>2, <2>3
<1>5. ASSUME IsInjective(s), IsInjective(t), ToSet(s) \intersect ToSet(t) = {}
      PROVE  IsInjective(c)
  <2>1. \A j \in 1..Len(s), k \in 1..Len(t) : s[j] # t[k]
    BY <1>1, <1>5 DEF ToSet
  <2>2. ASSUME NEW j \in DOMAIN c, NEW k \in DOMAIN c, c[j] = c[k] PROVE j = k
    <3>1. CASE j \in 1..Len(s) /\ k \in 1..Len(s)
      BY <3>1, <2>2, <1>1, <1>5 DEF IsInjective
    <3>2. CASE j \in 1..Len(s) /\ k - Len(s) \in 1..Len(t)
      BY <3>2, <2>1, <2>2, <1>1, <1>2
    <3>3. CASE j - Len(s) \in 1..Len(t) /\ k \in 1..Len(s)
      BY <3>3, <2>1, <2>2, <1>1, <1>2
    <3>4. CASE j - Len(s) \in 1..Len(t) /\ k - Len(s) \in 1..Len(t)
      <4>1. t[j - Len(s)] = t[k - Len(s)]
        BY <3>4, <2>2, <1>1, <1>2
      <4>2. j - Len(s) = k - Len(s)
        BY <3>4, <4>1, <1>1, <1>5 DEF IsInjective
      <4> QED
        BY <4>2, <1>1
    <3> QED
      BY <1>2, <3>1, <3>2, <3>3, <3>4
  <2> QED
    BY <2>2 DEF IsInjective
<1> QED
  BY <1>1, <1>4, <1>5 DEF c

-----------------------------------------------------------------------------
(* Cutting entries into stripes.                                           *)

LEMMA SizeIs == StripeSize \in Nat /\ StripeSize > 0 /\ NoLba \notin Nat
BY StripeManagerAssumption

Pieces == {p \in [start: Nat, data: Seq(Nat)] : p.data # <<>>}

\* A piece that has the block, where it belongs.
IsIn(b, p) == b \in p.start..(p.start + Len(p.data) - 1) /\ p.data[b - p.start + 1] = b

Accs == [data: Seq(Nat), start: Nat \union {NoLba}, made: Seq(Pieces)]
NoAcc == [data |-> <<>>, start |-> NoLba, made |-> <<>>]

Begun(acc, e) == IF acc.start = NoLba THEN e.start ELSE acc.start
Filled(acc, e) == acc.data \o [i \in 1..e.size |-> e.start + i - 1]

\* Cut, its two cases apart.
LEMMA CutIs ==
  ASSUME NEW acc, NEW e
  PROVE  /\ Len(Filled(acc, e)) >= StripeSize =>
              /\ Cut(acc, e).data = SubSeq(Filled(acc, e), StripeSize + 1, Len(Filled(acc, e)))
              /\ Cut(acc, e).start = NoLba
              /\ Cut(acc, e).made =
                   Append(acc.made, [start |-> Begun(acc, e),
                                     data |-> SubSeq(Filled(acc, e), 1, StripeSize)])
              /\ Cut(acc, e) = [data |-> Cut(acc, e).data, start |-> Cut(acc, e).start,
                                made |-> Cut(acc, e).made]
         /\ ~(Len(Filled(acc, e)) >= StripeSize) =>
              Cut(acc, e) = [acc EXCEPT !.data = Filled(acc, e), !.start = Begun(acc, e)]
BY DEF Cut, Begun, Filled

LEMMA FilledIs ==
  ASSUME NEW acc \in Accs, NEW e \in Entries
  PROVE  /\ Filled(acc, e) \in Seq(Nat) /\ Len(Filled(acc, e)) = Len(acc.data) + e.size
         /\ \A i \in 1..Len(acc.data) : Filled(acc, e)[i] = acc.data[i]
         /\ \A i \in 1..e.size : Filled(acc, e)[Len(acc.data) + i] = e.start + i - 1
<1> DEFINE more == [i \in 1..e.size |-> e.start + i - 1]
<1>1. acc.data \in Seq(Nat) /\ e.start \in Nat /\ e.size \in Nat
  BY DEF Accs, Entries
<1>2. more \in Seq(Nat) /\ Len(more) = e.size /\ \A i \in 1..e.size : more[i] = e.start + i - 1
  <2>1. \A i \in 1..e.size : e.start + i - 1 \in Nat
    BY <1>1
  <2>2. more \in [1..e.size -> Nat] /\ \A i \in 1..e.size : more[i] = e.start + i - 1
    BY <2>1
  <2>3. \A n \in Nat : \A m \in [1..n -> Nat] : m \in Seq(Nat) /\ Len(m) = n
    OBVIOUS
  <2> HIDE DEF more
  <2> QED
    BY <1>1, <2>2, <2>3
<1> HIDE DEF more
<1> DEFINE d == acc.data
<1>3. d \in Seq(Nat)
  BY <1>1
<1>4. Filled(acc, e) = d \o more
  BY DEF Filled, more
<1> HIDE DEF d
<1>5. /\ d \o more \in Seq(Nat) /\ Len(d \o more) = Len(d) + e.size
      /\ \A i \in 1..Len(d) : (d \o more)[i] = d[i]
      /\ \A i \in 1..e.size : (d \o more)[Len(d) + i] = more[i]
  BY <1>2, <1>3, ConcatIs
<1> QED
  BY <1>2, <1>4, <1>5 DEF d

LEMMA CutType ==
  ASSUME NEW acc \in Accs, NEW e \in Entries
  PROVE  Cut(acc, e) \in Accs
<1> DEFINE full == Filled(acc, e)
<1>1. full \in Seq(Nat)
  BY FilledIs
<1>2. Begun(acc, e) \in Nat
  BY DEF Begun, Accs, Entries
<1>3. CASE Len(full) >= StripeSize
  <2> HIDE DEF full
  <2>1. /\ SubSeq(full, StripeSize + 1, Len(full)) \in Seq(Nat)
        /\ SubSeq(full, 1, StripeSize) \in Seq(Nat)
        /\ SubSeq(full, 1, StripeSize) # <<>>
    BY <1>1, <1>3, SizeIs
  <2>2. [start |-> Begun(acc, e), data |-> SubSeq(full, 1, StripeSize)] \in Pieces
    BY <1>2, <2>1 DEF Pieces
  <2>3. acc.made \in Seq(Pieces)
    BY DEF Accs
  <2>4. Append(acc.made, [start |-> Begun(acc, e), data |-> SubSeq(full, 1, StripeSize)])
          \in Seq(Pieces)
    BY <2>2, <2>3
  <2>5. /\ Cut(acc, e).data \in Seq(Nat) /\ Cut(acc, e).start = NoLba
        /\ Cut(acc, e).made \in Seq(Pieces)
        /\ Cut(acc, e) = [data |-> Cut(acc, e).data, start |-> Cut(acc, e).start,
                          made |-> Cut(acc, e).made]
    BY <1>3, <2>1, <2>4, CutIs DEF full
  <2> QED
    BY <2>5 DEF Accs
<1>4. CASE ~(Len(full) >= StripeSize)
  <2>1. Cut(acc, e) = [acc EXCEPT !.data = full, !.start = Begun(acc, e)]
    BY <1>4, CutIs
  <2> HIDE DEF full
  <2> QED
    BY <1>1, <1>2, <2>1 DEF Accs
<1> QED
  BY <1>3, <1>4

\* The functions that Assembled is defined by, for the first N entries.
IsAssembly(f, entries, N) ==
  f = [n \in 0..N |-> IF n = 0 THEN NoAcc ELSE Cut(f[n - 1], entries[n])]

LEMMA AssemblyExists ==
  ASSUME NEW entries, NEW N \in Nat
  PROVE  \E f : IsAssembly(f, entries, N)
<1> DEFINE T == {k \in Nat : \E f : IsAssembly(f, entries, k)}
<1>1. 0 \in T
  <2>1. IsAssembly([n \in 0..0 |-> NoAcc], entries, 0)
    BY DEF IsAssembly
  <2> QED
    BY <2>1
<1>2. ASSUME NEW k \in T PROVE k + 1 \in T
  <2>1. PICK f : IsAssembly(f, entries, k)
    OBVIOUS
  <2> DEFINE g == [n \in 0..(k + 1) |-> IF n <= k THEN f[n] ELSE Cut(f[k], entries[k + 1])]
  <2>2. ASSUME NEW n \in 0..(k + 1)
        PROVE  g[n] = IF n = 0 THEN NoAcc ELSE Cut(g[n - 1], entries[n])
    <3>1. CASE n = 0
      BY <3>1, <2>1 DEF IsAssembly
    <3>2. CASE n # 0 /\ n <= k
      BY <3>2, <2>1 DEF IsAssembly
    <3>3. CASE n = k + 1
      BY <3>3
    <3> QED
      BY <3>1, <3>2, <3>3
  <2>3. IsAssembly(g, entries, k + 1)
    BY <2>2 DEF IsAssembly
  <2> HIDE DEF g
  <2> QED
    BY <2>3
<1>3. T \subseteq Nat
  OBVIOUS
<1> HIDE DEF T
<1>4. N \in T
  BY <1>1, <1>2, <1>3, NatInd
<1> QED
  BY <1>4 DEF T

\* What assembling N entries does, an entry at a time, and at the end.
Assembles(f, entries, N) ==
  f[0] = NoAcc /\ \A n \in 1..N : f[n] = Cut(f[n - 1], entries[n])

Closed(acc) ==
  IF acc.data # <<>> /\ acc.start # NoLba
    THEN Append(acc.made, [start |-> acc.start, data |-> acc.data])
    ELSE acc.made

LEMMA AssembledIs ==
  ASSUME NEW entries, NEW N, N \in Nat, N = Len(entries)
  PROVE  \E f : Assembles(f, entries, N) /\ Assembled(entries) = Closed(f[N])
<1>1. \E f : IsAssembly(f, entries, Len(entries))
  BY AssemblyExists
<1>2. \E f : f = [n \in 0..Len(entries) |-> IF n = 0 THEN [data |-> <<>>, start |-> NoLba, made |-> <<>>]
                                ELSE Cut(f[n - 1], entries[n])]
  BY <1>1, Zenon DEF IsAssembly, NoAcc
<1> DEFINE after[n \in 0..Len(entries)] ==
             IF n = 0 THEN [data |-> <<>>, start |-> NoLba, made |-> <<>>]
             ELSE Cut(after[n - 1], entries[n])
<1>3. after = [n \in 0..Len(entries) |-> IF n = 0 THEN [data |-> <<>>, start |-> NoLba, made |-> <<>>]
                             ELSE Cut(after[n - 1], entries[n])]
  BY <1>2, Zenon
<1>4. Assembled(entries) =
        IF after[Len(entries)].data # <<>> /\ after[Len(entries)].start # NoLba
          THEN Append(after[Len(entries)].made, [start |-> after[Len(entries)].start, data |-> after[Len(entries)].data])
          ELSE after[Len(entries)].made
  BY Zenon DEF Assembled
<1> HIDE DEF after
<1>5. after = [n \in 0..Len(entries) |-> IF n = 0 THEN NoAcc ELSE Cut(after[n - 1], entries[n])]
  BY <1>3, Zenon DEF NoAcc
<1>6. Assembles(after, entries, Len(entries))
  BY <1>5 DEF Assembles
<1>7. Assembled(entries) = Closed(after[Len(entries)])
  BY <1>4, Zenon DEF Closed
<1> QED
  BY <1>6, <1>7

LEMMA ClosedType ==
  ASSUME NEW acc \in Accs
  PROVE  /\ Closed(acc) \in Seq(Pieces)
         /\ ToSet(acc.made) \subseteq ToSet(Closed(acc))
         /\ acc.data # <<>> /\ acc.start # NoLba =>
              [start |-> acc.start, data |-> acc.data] \in ToSet(Closed(acc))
<1>1. acc.made \in Seq(Pieces)
  BY DEF Accs
<1>2. CASE acc.data # <<>> /\ acc.start # NoLba
  <2> DEFINE p == [start |-> acc.start, data |-> acc.data]
  <2>1. p \in Pieces
    BY <1>2 DEF Accs, Pieces
  <2>2. Closed(acc) = Append(acc.made, p)
    BY <1>2 DEF Closed
  <2> HIDE DEF p
  <2>3. Closed(acc) \in Seq(Pieces) /\ ToSet(Closed(acc)) = ToSet(acc.made) \union {p}
    BY <1>1, <2>1, <2>2, AppendIs
  <2> QED
    BY <2>3 DEF p
<1>3. CASE ~(acc.data # <<>> /\ acc.start # NoLba)
  BY <1>1, <1>3 DEF Closed
<1> QED
  BY <1>2, <1>3

LEMMA AssemblyType ==
  ASSUME NEW entries \in Seq(Entries), NEW f, Assembles(f, entries, Len(entries))
  PROVE  \A n \in 0..Len(entries) : f[n] \in Accs
<1> DEFINE N == Len(entries)
<1>1. N \in Nat /\ \A n \in 1..N : entries[n] \in Entries
  OBVIOUS
<1>2. Assembles(f, entries, N)
  OBVIOUS
<1> HIDE DEF N
<1> DEFINE T == {n \in Nat : n <= N => f[n] \in Accs}
<1>3. 0 \in T
  <2>1. NoAcc \in Accs
    BY DEF NoAcc, Accs
  <2>2. f[0] = NoAcc
    BY <1>2 DEF Assembles
  <2> QED
    BY <2>1, <2>2
<1>4. ASSUME NEW n \in T PROVE n + 1 \in T
  <2> SUFFICES ASSUME n + 1 <= N PROVE f[n + 1] \in Accs
    OBVIOUS
  <2>1. n \in Nat /\ (n + 1) - 1 = n /\ n + 1 \in 1..N /\ n <= N
    BY <1>1
  <2>2. f[n + 1] = Cut(f[n], entries[n + 1])
    BY <1>2, <2>1 DEF Assembles
  <2>3. f[n] \in Accs /\ entries[n + 1] \in Entries
    BY <1>1, <2>1
  <2> QED
    BY <2>2, <2>3, CutType
<1>5. T \subseteq Nat
  OBVIOUS
<1> HIDE DEF T
<1>6. T = Nat
  BY <1>3, <1>4, <1>5, NatInd
<1> QED
  BY <1>1, <1>6 DEF T, N

\* What is made of entries are stripes with blocks.
LEMMA AssembledType ==
  ASSUME NEW entries \in Seq(Entries)
  PROVE  Assembled(entries) \in Seq(Pieces)
<1> DEFINE N == Len(entries)
<1>1. N \in Nat /\ N = Len(entries)
  OBVIOUS
<1>2. PICK f : Assembles(f, entries, N) /\ Assembled(entries) = Closed(f[N])
  BY <1>1, AssembledIs
<1>3. f[N] \in Accs
  BY <1>1, <1>2, AssemblyType
<1> QED
  BY <1>2, <1>3, ClosedType

-----------------------------------------------------------------------------
(* Entries that fill stripes without exceeding one lose no block.          *)

LEMMA ModPlus ==
  ASSUME NEW x \in Nat, NEW y \in Nat
  PROVE  /\ x % StripeSize \in 0..(StripeSize - 1)
         /\ (x % StripeSize) + y < StripeSize => (x + y) % StripeSize = (x % StripeSize) + y
         /\ (x % StripeSize) + y = StripeSize => (x + y) % StripeSize = 0
<1> DEFINE q == x \div StripeSize
           r == x % StripeSize
<1>1. q \in Nat /\ r \in 0..(StripeSize - 1) /\ x = q * StripeSize + r
  BY SizeIs
<1> HIDE DEF q, r
<1>2. ASSUME NEW k \in Nat, NEW t \in 0..(StripeSize - 1)
      PROVE  (k * StripeSize + t) % StripeSize = t
  BY SizeIs
<1>3. ASSUME r + y < StripeSize PROVE (x + y) % StripeSize = r + y
  <2>1. x + y = q * StripeSize + (r + y) /\ r + y \in 0..(StripeSize - 1)
    BY <1>1, <1>3, SizeIs
  <2> QED
    BY <2>1, <1>1, <1>2
<1>4. ASSUME r + y = StripeSize PROVE (x + y) % StripeSize = 0
  <2>1. x + y = (q + 1) * StripeSize + 0 /\ 0 \in 0..(StripeSize - 1) /\ q + 1 \in Nat
    BY <1>1, <1>4, SizeIs
  <2> QED
    BY <2>1, <1>2
<1> QED
  BY <1>1, <1>3, <1>4 DEF r

\* Blocks in a row, each in its place.
InRow(data, start) == \A i \in 1..Len(data) : data[i] = start + i - 1

LEMMA RowIsIn ==
  ASSUME NEW p \in Pieces, InRow(p.data, p.start), NEW b \in Nat,
         p.start <= b, b < p.start + Len(p.data)
  PROVE  IsIn(b, p)
<1>1. p.start \in Nat /\ Len(p.data) \in Nat
  BY DEF Pieces
<1>2. b - p.start + 1 \in 1..Len(p.data) /\ b \in p.start..(p.start + Len(p.data) - 1)
  BY <1>1
<1>3. p.data[b - p.start + 1] = p.start + (b - p.start + 1) - 1
  BY <1>2 DEF InRow
<1> QED
  BY <1>1, <1>2, <1>3 DEF IsIn

\* After entries from the address a up to q the blocks before those in the batch are in
\* the stripes made, and the batch has the last ones, with their address.
Fits(acc, a, q) ==
  /\ a \in Nat /\ q \in Nat /\ a <= q
  /\ Len(acc.data) = (q - a) % StripeSize
  /\ acc.start = NoLba => acc.data = <<>>
  /\ acc.start # NoLba => acc.start + Len(acc.data) = q /\ InRow(acc.data, acc.start)
  /\ \A b \in a..(q - Len(acc.data) - 1) : \E p \in ToSet(acc.made) : IsIn(b, p)

LEMMA CutFits ==
  ASSUME NEW acc \in Accs, NEW e \in Entries, NEW a, Fits(acc, a, e.start),
         ((e.start - a) % StripeSize) + e.size <= StripeSize
  PROVE  Fits(Cut(acc, e), a, e.start + e.size)
<1> DEFINE q == e.start
           n == e.size
           d == Len(acc.data)
           full == Filled(acc, e)
           start == Begun(acc, e)
           cut == Cut(acc, e)
<1>1. /\ q \in Nat /\ n \in Nat /\ d \in Nat /\ a \in Nat /\ a <= q /\ q - a \in Nat
      /\ d = (q - a) % StripeSize /\ d + n <= StripeSize /\ d < StripeSize
      /\ (q + n) - a = (q - a) + n
  <2>1. q \in Nat /\ n \in Nat /\ d \in Nat /\ a \in Nat /\ a <= q /\ q - a \in Nat
        /\ d = (q - a) % StripeSize
    BY DEF Fits, Entries, Accs
  <2>2. (q - a) % StripeSize \in 0..(StripeSize - 1)
    BY <2>1, ModPlus
  <2> HIDE DEF q, n, d
  <2>3. d + n <= StripeSize
    BY <2>1 DEF q, n
  <2> QED
    BY <2>1, <2>2, <2>3, SizeIs
<1>2. /\ full \in Seq(Nat) /\ Len(full) = d + n
      /\ \A i \in 1..d : full[i] = acc.data[i]
      /\ \A i \in 1..n : full[d + i] = q + i - 1
  BY FilledIs
<1>3. start \in Nat /\ start + d = q
  <2>1. CASE acc.start = NoLba
    <3>1. acc.data = <<>>
      BY <2>1 DEF Fits
    <3> QED
      BY <2>1, <3>1, <1>1 DEF Begun
  <2>2. CASE acc.start # NoLba
    BY <2>2 DEF Begun, Fits, Accs
  <2> QED
    BY <2>1, <2>2
<1>4. \A i \in 1..d : acc.data[i] = start + i - 1
  <2>1. CASE acc.start = NoLba
    <3>1. d = 0
      BY <2>1 DEF Fits
    <3> QED
      BY <3>1
  <2>2. CASE acc.start # NoLba
    BY <2>2 DEF Begun, Fits, InRow
  <2> QED
    BY <2>1, <2>2
<1>5. \A b \in a..(q - d - 1) : \E p \in ToSet(acc.made) : IsIn(b, p)
  BY DEF Fits
<1>6. acc.made \in Seq(Pieces)
  BY DEF Accs
<1>7. /\ d + n < StripeSize => ((q + n) - a) % StripeSize = d + n
      /\ d + n = StripeSize => ((q + n) - a) % StripeSize = 0
  <2>1. /\ ((q - a) % StripeSize) + n < StripeSize =>
             ((q - a) + n) % StripeSize = ((q - a) % StripeSize) + n
        /\ ((q - a) % StripeSize) + n = StripeSize => ((q - a) + n) % StripeSize = 0
    BY <1>1, ModPlus
  <2> HIDE DEF q, n, d
  <2> QED
    BY <1>1, <2>1
<1>8. Len(full) >= StripeSize =>
        /\ cut.data = SubSeq(full, StripeSize + 1, Len(full)) /\ cut.start = NoLba
        /\ cut.made = Append(acc.made, [start |-> start, data |-> SubSeq(full, 1, StripeSize)])
  BY CutIs
<1>9. ~(Len(full) >= StripeSize) =>
         cut.data = full /\ cut.start = start /\ cut.made = acc.made
  <2>1. ~(Len(full) >= StripeSize) => cut = [acc EXCEPT !.data = full, !.start = start]
    BY CutIs
  <2> HIDE DEF full, start, cut
  <2> QED
    BY <2>1 DEF Accs
<1> SUFFICES Fits(cut, a, q + n)
  OBVIOUS
<1> HIDE DEF q, n, d, full, start, cut
<1>10. InRow(full, start)
  <2>1. ASSUME NEW i \in 1..Len(full) PROVE full[i] = start + i - 1
    <3>1. CASE i <= d
      <4>1. i \in 1..d
        BY <1>1, <3>1
      <4> QED
        BY <4>1, <1>2, <1>4
    <3>2. CASE i > d
      <4>1. i - d \in 1..n /\ d + (i - d) = i
        BY <1>1, <1>2, <3>2
      <4>2. full[i] = q + (i - d) - 1
        BY <4>1, <1>2
      <4> QED
        BY <4>1, <4>2, <1>1, <1>3
    <3> QED
      BY <3>1, <3>2, <1>1
  <2> QED
    BY <2>1 DEF InRow
<1>11. CASE d + n < StripeSize
  <2>1. cut.data = full /\ cut.start = start /\ cut.made = acc.made
    BY <1>1, <1>2, <1>9, <1>11, SizeIs
  <2>2. Len(cut.data) = ((q + n) - a) % StripeSize /\ start # NoLba
    BY <2>1, <1>2, <1>3, <1>7, <1>11, SizeIs
  <2>3. start + Len(full) = q + n /\ (q + n) - Len(full) - 1 = q - d - 1 /\ a <= q + n /\ q + n \in Nat
    <3>1. start + (d + n) = q + n /\ (q + n) - (d + n) - 1 = q - d - 1 /\ a <= q + n /\ q + n \in Nat
      BY <1>1, <1>3
    <3> QED
      BY <3>1, <1>2
  <2>4. \A b \in a..((q + n) - Len(cut.data) - 1) : \E p \in ToSet(cut.made) : IsIn(b, p)
    BY <2>1, <2>3, <1>5
  <2> QED
    BY <2>1, <2>2, <2>3, <2>4, <1>1, <1>10 DEF Fits
<1>12. CASE d + n = StripeSize
  <2> DEFINE p == [start |-> start, data |-> SubSeq(full, 1, StripeSize)]
  <2>1. SubSeq(full, 1, StripeSize) = full /\ SubSeq(full, StripeSize + 1, Len(full)) = <<>>
    BY <1>1, <1>2, <1>12, SizeIs
  <2>2. cut.data = <<>> /\ cut.start = NoLba /\ cut.made = Append(acc.made, p)
    BY <2>1, <1>1, <1>2, <1>8, <1>12
  <2>3. p \in Pieces /\ p.start = start /\ p.data = full
    BY <2>1, <1>1, <1>2, <1>3, <1>12, SizeIs DEF Pieces
  <2> HIDE DEF p
  <2>4. ToSet(cut.made) = ToSet(acc.made) \union {p}
    BY <2>2, <2>3, <1>6, AppendIs
  <2>5. Len(cut.data) = 0 /\ Len(cut.data) = ((q + n) - a) % StripeSize /\ q + n \in Nat /\ a <= q + n
    BY <2>2, <1>7, <1>12, <1>1
  <2>6. ASSUME NEW b \in a..((q + n) - Len(cut.data) - 1)
        PROVE  \E r \in ToSet(cut.made) : IsIn(b, r)
    <3>1. CASE b < start
      <4>1. b \in a..(q - d - 1)
        BY <2>5, <3>1, <1>1, <1>3
      <4> QED
        BY <4>1, <2>4, <1>5
    <3>2. CASE b >= start
      <4>1. b \in Nat /\ p.start <= b /\ b < p.start + Len(p.data)
        BY <2>3, <2>5, <3>2, <1>1, <1>2, <1>3
      <4>2. IsIn(b, p)
        BY <4>1, <2>3, <1>10, RowIsIn
      <4> QED
        BY <4>2, <2>4
    <3> QED
      BY <3>1, <3>2, <2>5, <1>1, <1>3
  <2> QED
    BY <2>2, <2>5, <2>6, <1>1 DEF Fits
<1> QED
  BY <1>1, <1>11, <1>12, SizeIs

\* Every block of entries that fill stripes without exceeding one is in what is made of them.
LEMMA AssembledHolds ==
  ASSUME NEW entries \in Seq(Entries), Even(entries), NEW b \in Blocks(entries)
  PROVE  \E p \in ToSet(Assembled(entries)) : IsIn(b, p)
<1> DEFINE N == Len(entries)
           a == entries[1].start
           q == [n \in 0..N |-> IF n = 0 THEN a ELSE entries[n].start + entries[n].size]
<1>1. /\ N \in Nat /\ N = Len(entries)
      /\ \A n \in 1..N : entries[n] \in Entries /\ entries[n].start \in Nat /\ entries[n].size \in Nat
  <2>1. N \in Nat /\ \A n \in 1..N : entries[n] \in Entries
    OBVIOUS
  <2>2. \A e \in Entries : e.start \in Nat /\ e.size \in Nat
    BY DEF Entries
  <2> QED
    BY <2>1, <2>2
<1>2. PICK f : Assembles(f, entries, N) /\ Assembled(entries) = Closed(f[N])
  BY <1>1, AssembledIs
<1>3. PICK i \in 1..N : b \in entries[i].start..(entries[i].start + entries[i].size - 1)
  BY <1>1 DEF Blocks, ToSet
<1>4. N > 0 /\ a \in Nat
  BY <1>1, <1>3
<1>5. \A n \in 0..N : f[n] \in Accs
  BY <1>2, AssemblyType
<1>6. q[0] = a /\ \A n \in 1..N : q[n] = entries[n].start + entries[n].size
  BY <1>1
<1>7. ASSUME NEW n \in 0..(N - 1)
      PROVE  /\ entries[n + 1].start = q[n]
             /\ ((entries[n + 1].start - a) % StripeSize) + entries[n + 1].size <= StripeSize
  <2>1. n + 1 \in 1..N
    BY <1>1
  <2>2. ((entries[n + 1].start - a) % StripeSize) + entries[n + 1].size <= StripeSize
    BY <2>1 DEF Even
  <2>3. CASE n = 0
    BY <2>2, <2>3, <1>6
  <2>4. CASE n # 0
    <3>1. n \in 1..(N - 1) /\ n \in 1..N
      BY <2>4, <1>1
    <3>2. entries[n + 1].start = entries[n].start + entries[n].size
      BY <3>1 DEF Even
    <3> QED
      BY <2>2, <3>1, <3>2, <1>6
  <2> QED
    BY <2>3, <2>4
<1> HIDE DEF q, a, N
<1> DEFINE T == {n \in Nat : n <= N =>
                   /\ Fits(f[n], a, q[n])
                   /\ \A j \in 1..n : a <= entries[j].start /\ entries[j].start + entries[j].size <= q[n]}
<1>8. 0 \in T
  <2>1. f[0] = NoAcc /\ NoAcc.data = <<>> /\ NoAcc.start = NoLba /\ Len(NoAcc.data) = 0
    BY <1>2 DEF Assembles, NoAcc
  <2>2. (a - a) % StripeSize = 0
    BY <1>4, SizeIs
  <2>3. a..(a - 0 - 1) = {}
    BY <1>4
  <2>4. Fits(NoAcc, a, a)
    BY <1>4, <2>1, <2>2, <2>3 DEF Fits
  <2> QED
    BY <2>1, <2>4, <1>6
<1>9. ASSUME NEW n \in T PROVE n + 1 \in T
  <2> SUFFICES ASSUME n + 1 <= N
               PROVE  /\ Fits(f[n + 1], a, q[n + 1])
                      /\ \A j \in 1..(n + 1) :
                           a <= entries[j].start /\ entries[j].start + entries[j].size <= q[n + 1]
    OBVIOUS
  <2>1. /\ n \in Nat /\ (n + 1) - 1 = n /\ n + 1 \in 1..N /\ n <= N
        /\ n \in 0..(N - 1) /\ n \in 0..N
    BY <1>1
  <2>2. f[n + 1] = Cut(f[n], entries[n + 1])
    BY <1>2, <2>1 DEF Assembles
  <2>3. f[n] \in Accs /\ entries[n + 1] \in Entries
    BY <1>1, <1>5, <2>1
  <2>4. /\ Fits(f[n], a, q[n])
        /\ \A j \in 1..n : a <= entries[j].start /\ entries[j].start + entries[j].size <= q[n]
    BY <2>1
  <2>5. /\ entries[n + 1].start = q[n]
        /\ ((entries[n + 1].start - a) % StripeSize) + entries[n + 1].size <= StripeSize
    BY <1>7, <2>1
  <2>6. q[n + 1] = entries[n + 1].start + entries[n + 1].size
    BY <1>6, <2>1
  <2>7. Fits(f[n + 1], a, q[n + 1])
    BY <2>2, <2>3, <2>4, <2>5, <2>6, CutFits
  <2>8. q[n] \in Nat /\ a <= q[n] /\ entries[n + 1].size \in Nat
    BY <2>4, <2>1, <1>1 DEF Fits
  <2>9. ASSUME NEW j \in 1..(n + 1)
        PROVE  a <= entries[j].start /\ entries[j].start + entries[j].size <= q[n + 1]
    <3>1. CASE j = n + 1
      BY <3>1, <2>5, <2>6, <2>8, <1>4
    <3>2. CASE j \in 1..n
      <4>1. a <= entries[j].start /\ entries[j].start + entries[j].size <= q[n] /\ j \in 1..N
        BY <2>1, <2>4, <3>2, <1>1
      <4> QED
        BY <4>1, <2>5, <2>6, <2>8, <1>1
    <3> QED
      BY <3>1, <3>2, <2>1
  <2> QED
    BY <2>7, <2>9
<1>10. T \subseteq Nat
  OBVIOUS
<1> HIDE DEF T
<1>11. N \in T
  BY <1>1, <1>8, <1>9, <1>10, NatInd
<1>12. /\ Fits(f[N], a, q[N])
       /\ \A j \in 1..N : a <= entries[j].start /\ entries[j].start + entries[j].size <= q[N]
  BY <1>1, <1>11 DEF T
<1> DEFINE acc == f[N]
<1>13. acc \in Accs /\ Fits(acc, a, q[N]) /\ Assembled(entries) = Closed(acc)
  BY <1>1, <1>2, <1>5, <1>12
<1> HIDE DEF acc
<1>14. b \in Nat /\ a <= b /\ b < q[N] /\ q[N] \in Nat /\ Len(acc.data) \in Nat
  <2>1. entries[i].start \in Nat /\ entries[i].size \in Nat /\ a <= entries[i].start
        /\ entries[i].start + entries[i].size <= q[N]
    BY <1>1, <1>12
  <2>2. q[N] \in Nat /\ Len(acc.data) \in Nat
    <3>1. q[N] \in Nat /\ acc.data \in Seq(Nat)
      BY <1>13 DEF Fits, Accs
    <3> QED
      BY <3>1
  <2>3. b \in Nat /\ a <= b /\ b < q[N]
    <3>1. PICK from, size, end : from = entries[i].start /\ size = entries[i].size /\ end = q[N]
      OBVIOUS
    <3>2. from \in Nat /\ size \in Nat /\ end \in Nat /\ a \in Nat /\ a <= from /\ from + size <= end
      BY <2>1, <2>2, <3>1, <1>4
    <3>3. b \in from..(from + size - 1)
      BY <3>1, <1>3
    <3> QED
      BY <3>1, <3>2, <3>3
  <2> QED
    BY <2>2, <2>3
<1>15. CASE b < q[N] - Len(acc.data)
  <2>1. b \in a..(q[N] - Len(acc.data) - 1)
    BY <1>4, <1>14, <1>15
  <2>2. \E p \in ToSet(acc.made) : IsIn(b, p)
    BY <2>1, <1>13 DEF Fits
  <2> QED
    BY <2>2, <1>13, ClosedType
<1>16. CASE ~(b < q[N] - Len(acc.data))
  <2> DEFINE p == [start |-> acc.start, data |-> acc.data]
  <2>1. acc.data # <<>> /\ acc.start # NoLba
    <3>1. acc.data # <<>>
      BY <1>14, <1>16
    <3> QED
      BY <3>1, <1>13 DEF Fits
  <2>2. acc.start \in Nat /\ acc.start + Len(acc.data) = q[N] /\ InRow(acc.data, acc.start)
    BY <2>1, <1>13 DEF Fits, Accs
  <2>3. p \in Pieces /\ p.start = acc.start /\ p.data = acc.data /\ p \in ToSet(Closed(acc))
    BY <2>1, <2>2, <1>13, ClosedType DEF Pieces, Accs
  <2> HIDE DEF p
  <2>4. p.start <= b /\ b < p.start + Len(p.data)
    BY <2>2, <2>3, <1>14, <1>16
  <2>5. IsIn(b, p)
    BY <2>2, <2>3, <2>4, <1>14, RowIsIn
  <2> QED
    BY <2>3, <2>5, <1>13
<1> QED
  BY <1>15, <1>16

LEMMA AssembledNothing ==
  ASSUME NEW entries, entries = <<>>
  PROVE  ToSet(Assembled(entries)) = {}
<1>1. 0 \in Nat /\ 0 = Len(entries)
  OBVIOUS
<1>2. PICK f : Assembles(f, entries, 0) /\ Assembled(entries) = Closed(f[0])
  BY <1>1, AssembledIs
<1>3. Assembled(entries) = <<>>
  BY <1>2 DEF Assembles, Closed, NoAcc
<1> QED
  BY <1>3, EmptySequence

-----------------------------------------------------------------------------
(* The invariant.                                                          *)

Numbers == 1..Len(submitted)

\* Stripes with blocks made before the stamp t.
Written(t) == {s \in Stripe : s.data # <<>> /\ s.stamp < t}

\* The state of a volume: every address leads to a stripe, and a stripe has the id under
\* which it is found.
IsState(state, t) ==
  /\ state = [next_stripe_id |-> state.next_stripe_id, lba_map |-> state.lba_map,
              stripes |-> state.stripes]
  /\ state.next_stripe_id \in 0..t
  /\ DOMAIN state.lba_map \subseteq Nat /\ DOMAIN state.stripes \subseteq Nat
  /\ state.lba_map \in [DOMAIN state.lba_map -> DOMAIN state.stripes]
  /\ state.stripes \in [DOMAIN state.stripes -> Written(t)]
  /\ \A i \in DOMAIN state.stripes : state.stripes[i].stripe_id = i

QueuesInv ==
  /\ dry_run \in BOOLEAN
  /\ submitted \in Seq(Requests)
  /\ outcome \in Seq(Outcomes) /\ Len(outcome) = Len(submitted)
  /\ channel \in Seq(Numbers) /\ pending \in Seq(Numbers) /\ batch \in Seq(Numbers)
  /\ Len(channel) <= ChannelCap /\ Len(batch) <= BatchSize

Destaging == {"create_stripe", "create_crd"}

JobTypes ==
  /\ job \in [pc: {"idle", "load_policy"} \union Destaging, num: Nat \union {NoRequest},
              todo: Seq(Pieces), errors: BOOLEAN]
  /\ job.pc = "idle" <=> job.num = NoRequest
  /\ job.pc = "create_crd" => job.todo # <<>>
  /\ job.num # NoRequest => job.num \in Numbers /\ submitted[job.num].vol \in DOMAIN volumes

\* Each request without an outcome is in one place.
HeldInv ==
  /\ IsInjective(channel) /\ IsInjective(pending) /\ IsInjective(batch)
  /\ ToSet(channel) \intersect ToSet(pending) = {}
  /\ ToSet(channel) \intersect ToSet(batch) = {}
  /\ ToSet(pending) \intersect ToSet(batch) = {}
  /\ job.num \notin ToSet(channel) \union ToSet(pending) \union ToSet(batch)
  /\ ToSet(channel) \union ToSet(pending) \union ToSet(batch)
       \union (IF job.num = NoRequest THEN {} ELSE {job.num})
     = {n \in DOMAIN outcome : outcome[n] = "queued"}

VolumesInv ==
  /\ stamp \in Nat /\ restarts \in Nat
  /\ DOMAIN volumes \subseteq Volumes
  /\ volumes = [v \in DOMAIN volumes |-> volumes[v]]
  /\ \A v \in DOMAIN volumes : IsState(volumes[v], stamp)
  /\ objects \in [Volumes -> SUBSET Written(stamp)]

\* Ids from next_stripe_id on are those of objects; until a restart there are none, and every
\* object is of a stripe in memory.
IdsInv ==
  /\ \A v \in Volumes : \A s, t \in objects[v] : s.stripe_id = t.stripe_id => s = t
  /\ \A v \in DOMAIN volumes : \A i \in DOMAIN volumes[v].stripes :
       i < volumes[v].next_stripe_id \/ volumes[v].stripes[i] \in objects[v]
  /\ restarts = 0 =>
       /\ \A v \in Volumes : v \notin DOMAIN volumes => objects[v] = {}
       /\ \A v \in DOMAIN volumes :
            /\ objects[v] \subseteq recorded(v)
            /\ \A i \in DOMAIN volumes[v].stripes : i < volumes[v].next_stripe_id

\* The map of addresses leads from where a stripe starts to the newest one that starts there.
LeadsToNewest(state) ==
  /\ \A a \in DOMAIN state.lba_map : state.stripes[state.lba_map[a]].start = a
  /\ \A i \in DOMAIN state.stripes :
       /\ state.stripes[i].start \in DOMAIN state.lba_map
       /\ state.stripes[i].stamp
            <= state.stripes[state.lba_map[state.stripes[i].start]].stamp

MapInv ==
  \A v \in DOMAIN volumes :
    IdsAreUniqueIn(v) /\ ListedByAge(v) => LeadsToNewest(volumes[v])

PiecesOf(n) == ToSet(Assembled(submitted[n].entries))

\* The piece p is a stripe of the volume v that is an object.
IsPersisted(p, v) == \E s \in objects[v] : s.start = p.start /\ s.data = p.data

\* While a request is destaged, what is not left to do is persisted, or an error is noted;
\* what is to be persisted is the first thing left to do.
JobInv ==
  job.pc \in Destaging =>
    LET v == submitted[job.num].vol
        id == volumes[v].next_stripe_id - 1
    IN  /\ \A p \in PiecesOf(job.num) :
             p \in ToSet(job.todo) \/ job.errors \/ IsPersisted(p, v)
        /\ job.pc = "create_crd" =>
             /\ id \in DOMAIN volumes[v].stripes
             /\ volumes[v].stripes[id].start = Head(job.todo).start
             /\ volumes[v].stripes[id].data = Head(job.todo).data

DoneInv ==
  \A n \in DOMAIN outcome : outcome[n] = "ok" =>
    \A p \in PiecesOf(n) : IsPersisted(p, submitted[n].vol)

RequestsInv == QueuesInv /\ JobTypes /\ HeldInv
MetadataInv == VolumesInv /\ IdsInv /\ MapInv
PersistedInv == JobInv /\ DoneInv

StripeInv == RequestsInv /\ MetadataInv /\ PersistedInv

-----------------------------------------------------------------------------
(* What steps leave alone.                                                 *)

LEMMA NumbersAre ==
  ASSUME QueuesInv
  PROVE  /\ DOMAIN outcome = Numbers /\ Numbers \subseteq Nat /\ NoRequest \notin Numbers
         /\ \A n \in Numbers : submitted[n] \in Requests
<1>1. Len(outcome) = Len(submitted) /\ DOMAIN outcome = 1..Len(outcome)
  BY DEF QueuesInv
<1>2. Numbers \subseteq Nat /\ \A n \in Numbers : submitted[n] \in Requests
  BY DEF QueuesInv, Numbers
<1> QED
  BY <1>1, <1>2, StripeManagerAssumption DEF Numbers

LEMMA RequestIs ==
  ASSUME NEW r \in Requests
  PROVE  r.vol \in Volumes /\ r.entries \in Seq(Entries)
BY StripeManagerAssumption

LEMMA NoJobIs ==
  /\ NoJob \in [pc: {"idle", "load_policy"} \union Destaging, num: Nat \union {NoRequest},
                todo: Seq(Pieces), errors: BOOLEAN]
  /\ NoJob.pc = "idle" /\ NoJob.num = NoRequest /\ NoJob.todo = <<>> /\ NoJob.errors = FALSE
BY DEF NoJob

\* The job goes on or ends, and volumes may become known.
LEMMA JobStep ==
  ASSUME JobTypes, QueuesInv, DOMAIN volumes \subseteq DOMAIN volumes', submitted' = submitted,
         \/ UNCHANGED job
         \/ job' = NoJob
  PROVE  JobTypes'
<1>1. CASE UNCHANGED job
  BY <1>1 DEF JobTypes, Numbers, Destaging
<1>2. CASE job' = NoJob
  BY <1>2, NoJobIs DEF JobTypes
<1> QED
  BY <1>1, <1>2

LEMMA MetadataFrame ==
  ASSUME MetadataInv, UNCHANGED <<volumes, objects, stamp, restarts>>
  PROVE  MetadataInv'
<1>1. VolumesInv'
  BY DEF MetadataInv, VolumesInv
<1>2. IdsInv'
  BY DEF MetadataInv, IdsInv, recorded
<1>3. MapInv'
  BY DEF MetadataInv, MapInv, IdsAreUniqueIn, ListedByAge, recorded
<1> QED
  BY <1>1, <1>2, <1>3 DEF MetadataInv

\* Nothing gets done, and no object goes.
LEMMA DoneFrame ==
  ASSUME DoneInv, QueuesInv,
         \A n \in DOMAIN outcome' : outcome'[n] = "ok" =>
           n \in DOMAIN outcome /\ outcome[n] = "ok" /\ submitted'[n] = submitted[n],
         \A v \in Volumes : objects[v] \subseteq objects'[v]
  PROVE  DoneInv'
<1> SUFFICES ASSUME NEW n \in DOMAIN outcome', outcome'[n] = "ok",
                    NEW p \in ToSet(Assembled(submitted'[n].entries))
             PROVE  \E s \in objects'[submitted'[n].vol] : s.start = p.start /\ s.data = p.data
  BY DEF DoneInv, PiecesOf, IsPersisted
<1>1. n \in DOMAIN outcome /\ outcome[n] = "ok" /\ submitted'[n] = submitted[n]
  OBVIOUS
<1>2. submitted[n].vol \in Volumes
  BY <1>1, NumbersAre, RequestIs
<1>3. \E s \in objects[submitted[n].vol] : s.start = p.start /\ s.data = p.data
  BY <1>1 DEF DoneInv, PiecesOf, IsPersisted
<1> QED
  BY <1>1, <1>2, <1>3

\* Nothing happens to what the job has done.
LEMMA JobFrame ==
  ASSUME JobInv, JobTypes, QueuesInv, UNCHANGED <<job, volumes, objects>>,
         \A n \in Numbers : submitted'[n] = submitted[n]
  PROVE  JobInv'
<1> SUFFICES ASSUME job.pc \in Destaging PROVE JobInv'
  BY DEF JobInv
<1>1. job.num \in Numbers
  BY DEF JobTypes, Destaging
<1>2. submitted'[job.num] = submitted[job.num]
  BY <1>1
<1> QED
  BY <1>2 DEF JobInv, PiecesOf, IsPersisted

\* A job ends, or one has not begun.
LEMMA JobRests ==
  ASSUME job'.pc \notin Destaging
  PROVE  JobInv'
BY DEF JobInv

-----------------------------------------------------------------------------
(* Requests on their way.                                                  *)

LEMMA SeqGrows ==
  ASSUME NEW S, NEW T, S \subseteq T, NEW s \in Seq(S)
  PROVE  s \in Seq(T)
OBVIOUS

LEMMA SubmitInv ==
  ASSUME StripeInv, NEW r \in Requests, Submit(r)
  PROVE  StripeInv'
<1> DEFINE n == Len(submitted) + 1
<1>1. QueuesInv /\ JobTypes /\ HeldInv
  BY DEF StripeInv, RequestsInv
<1>2. /\ submitted' = Append(submitted, r) /\ submitted' \in Seq(Requests)
      /\ Len(submitted') = n /\ Len(submitted) \in Nat
      /\ \A k \in Numbers : submitted'[k] = submitted[k]
  BY <1>1 DEF Submit, QueuesInv, Numbers
<1>3. Numbers' = Numbers \union {n} /\ n \in Nat \ Numbers /\ Numbers \subseteq Numbers' /\ n \in Numbers'
  BY <1>2 DEF Numbers
<1>4. /\ outcome' = Append(outcome, "queued") /\ outcome \in Seq(Outcomes)
      /\ Len(outcome) = Len(submitted) /\ "queued" \in Outcomes
  BY <1>1 DEF Submit, QueuesInv, Outcomes
<1>5. /\ outcome' \in Seq(Outcomes) /\ Len(outcome') = n
      /\ outcome'[n] = "queued" /\ \A k \in Numbers : outcome'[k] = outcome[k]
      /\ DOMAIN outcome' = Numbers' /\ DOMAIN outcome = Numbers
  BY <1>2, <1>4 DEF Numbers
<1>6. /\ channel' = Append(channel, n) /\ Len(channel) < ChannelCap
      /\ UNCHANGED <<dry_run, pending, batch, job, cached, volumes, objects, stamp, restarts>>
  BY DEF Submit, metadata
<1> HIDE DEF n
<1>7. channel \in Seq(Numbers') /\ pending \in Seq(Numbers') /\ batch \in Seq(Numbers')
  BY <1>1, <1>3, SeqGrows DEF QueuesInv
<1>8. /\ ToSet(channel) \subseteq Numbers /\ ToSet(pending) \subseteq Numbers
      /\ ToSet(batch) \subseteq Numbers
  BY <1>1, SeqFacts DEF QueuesInv
<1>9. /\ channel' \in Seq(Numbers') /\ Len(channel') = Len(channel) + 1
      /\ ToSet(channel') = ToSet(channel) \union {n} /\ IsInjective(channel')
  BY <1>1, <1>3, <1>6, <1>7, <1>8, AppendIs DEF HeldInv
<1>10. QueuesInv'
  <2>1. Len(channel') <= ChannelCap
    BY <1>6, <1>9, <1>7, StripeManagerAssumption
  <2> QED
    BY <1>1, <1>2, <1>5, <1>6, <1>7, <1>9, <2>1 DEF QueuesInv
<1>11. JobTypes'
  BY <1>1, <1>2, <1>3, <1>6 DEF JobTypes
<1>12. HeldInv'
  <2>1. job.num # n
    BY <1>1, <1>3, StripeManagerAssumption DEF JobTypes
  <2>2. {k \in DOMAIN outcome' : outcome'[k] = "queued"}
          = {k \in DOMAIN outcome : outcome[k] = "queued"} \union {n}
    BY <1>3, <1>5
  <2>3. UNCHANGED <<pending, batch, job>>
    BY <1>6
  <2> QED
    BY <1>1, <1>3, <1>8, <1>9, <2>1, <2>2, <2>3 DEF HeldInv
<1>13. JobInv'
  BY <1>1, <1>2, <1>6, JobFrame DEF StripeInv, PersistedInv
<1>14. DoneInv'
  <2>1. ASSUME NEW k \in DOMAIN outcome', outcome'[k] = "ok"
        PROVE  k \in DOMAIN outcome /\ outcome[k] = "ok" /\ submitted'[k] = submitted[k]
    BY <1>2, <1>3, <1>5, <2>1
  <2>2. \A v \in Volumes : objects[v] \subseteq objects'[v]
    BY <1>6
  <2> QED
    BY <1>1, <2>1, <2>2, DoneFrame DEF StripeInv, PersistedInv
<1>15. MetadataInv'
  BY <1>6, MetadataFrame DEF StripeInv
<1> QED
  BY <1>10, <1>11, <1>12, <1>13, <1>14, <1>15 DEF StripeInv, RequestsInv, PersistedInv

\* A step that moves requests about and leaves the rest alone.
LEMMA QueueStep ==
  ASSUME StripeInv, UNCHANGED <<dry_run, job, metadata, history>>,
         channel' \in Seq(Numbers), pending' \in Seq(Numbers), batch' \in Seq(Numbers),
         Len(channel') <= ChannelCap, Len(batch') <= BatchSize, HeldInv'
  PROVE  StripeInv'
<1>1. UNCHANGED <<dry_run, job, cached, volumes, objects, submitted, outcome, stamp, restarts>>
  BY DEF metadata, history
<1>2. QueuesInv /\ JobTypes
  BY DEF StripeInv, RequestsInv
<1>3. QueuesInv' /\ JobTypes'
  BY <1>1, <1>2, JobStep DEF QueuesInv, Numbers
<1>4. JobInv' /\ DoneInv'
  BY <1>1, <1>2, JobFrame, DoneFrame DEF StripeInv, PersistedInv
<1>5. MetadataInv'
  BY <1>1, MetadataFrame DEF StripeInv
<1> QED
  BY <1>3, <1>4, <1>5 DEF StripeInv, RequestsInv, PersistedInv

LEMMA ReceiveInv == StripeInv /\ Receive => StripeInv'
<1> SUFFICES ASSUME StripeInv, Receive PROVE StripeInv'
  OBVIOUS
<1>1. QueuesInv /\ HeldInv
  BY DEF StripeInv, RequestsInv
<1>2. /\ pending' = Append(pending, Head(channel)) /\ channel' = Tail(channel) /\ channel # <<>>
      /\ UNCHANGED <<dry_run, batch, job, metadata, history>>
  BY DEF Receive
<1>3. channel \in Seq(Numbers) /\ pending \in Seq(Numbers) /\ batch \in Seq(Numbers)
  BY <1>1 DEF QueuesInv
<1>4. /\ channel' \in Seq(Numbers) /\ Head(channel) \in Numbers
      /\ Len(channel') = Len(channel) - 1 /\ Len(channel) \in Nat
      /\ ToSet(channel) = ToSet(channel') \union {Head(channel)}
      /\ IsInjective(channel') /\ Head(channel) \notin ToSet(channel')
  BY <1>1, <1>2, <1>3, TailIs DEF HeldInv
<1>5. /\ pending' \in Seq(Numbers) /\ ToSet(pending') = ToSet(pending) \union {Head(channel)}
      /\ IsInjective(pending')
  BY <1>1, <1>2, <1>3, <1>4, AppendIs DEF HeldInv
<1>6. HeldInv'
  <2>1. UNCHANGED <<batch, job, outcome>>
    BY <1>2 DEF history
  <2> QED
    BY <1>1, <1>4, <1>5, <2>1 DEF HeldInv
<1>7. Len(channel') <= ChannelCap /\ Len(batch') <= BatchSize
  BY <1>1, <1>2, <1>4, StripeManagerAssumption DEF QueuesInv
<1>8. batch' \in Seq(Numbers)
  BY <1>2, <1>3
<1> QED
  BY <1>2, <1>4, <1>5, <1>6, <1>7, <1>8, QueueStep

\* How many requests a tick takes.
LEMMA TickTakes ==
  ASSUME QueuesInv
  PROVE  Min({Len(pending), BatchSize}) \in 0..Len(pending) /\ Min({Len(pending), BatchSize}) <= BatchSize
<1> DEFINE T == {Len(pending), BatchSize}
<1>1. T \subseteq Nat /\ T # {}
  BY StripeManagerAssumption DEF QueuesInv
<1>2. \E x \in T : \A y \in T : x <= y
  BY <1>1, NatMin
<1>3. Min(T) \in T /\ \A y \in T : Min(T) <= y
  BY <1>2, Zenon DEF Min
<1> QED
  BY <1>1, <1>3

LEMMA TickInv == StripeInv /\ Tick => StripeInv'
<1> SUFFICES ASSUME StripeInv, Tick PROVE StripeInv'
  OBVIOUS
<1> DEFINE n == Min({Len(pending), BatchSize})
<1>1. QueuesInv /\ HeldInv
  BY DEF StripeInv, RequestsInv
<1>2. /\ batch = <<>> /\ batch' = SubSeq(pending, 1, n)
      /\ pending' = SubSeq(pending, n + 1, Len(pending))
      /\ UNCHANGED <<dry_run, channel, job, metadata, history>>
  BY DEF Tick, Looping
<1>3. channel \in Seq(Numbers) /\ pending \in Seq(Numbers)
  BY <1>1 DEF QueuesInv
<1>4. n \in 0..Len(pending) /\ n <= BatchSize
  BY <1>1, TickTakes
<1> HIDE DEF n
<1>5. /\ batch' \in Seq(Numbers) /\ pending' \in Seq(Numbers) /\ Len(batch') = n
      /\ ToSet(pending) = ToSet(batch') \union ToSet(pending')
      /\ IsInjective(batch') /\ IsInjective(pending') /\ ToSet(batch') \intersect ToSet(pending') = {}
  BY <1>1, <1>2, <1>3, <1>4, SplitIs DEF HeldInv
<1>6. ToSet(batch) = {}
  BY <1>2, EmptySequence
<1>7. HeldInv'
  <2>1. UNCHANGED <<channel, job, outcome>>
    BY <1>2 DEF history
  <2> QED
    BY <1>1, <1>5, <1>6, <2>1 DEF HeldInv
<1>8. channel' \in Seq(Numbers) /\ Len(channel') <= ChannelCap /\ Len(batch') <= BatchSize
  BY <1>1, <1>2, <1>3, <1>4, <1>5 DEF QueuesInv
<1> QED
  BY <1>2, <1>5, <1>7, <1>8, QueueStep

-----------------------------------------------------------------------------
(* The destaging of a request begins and ends.                             *)

\* What is known of the request at the head of the batch.
LEMMA HeadOfBatch ==
  ASSUME StripeInv, batch # <<>>
  PROVE  /\ Tail(batch) \in Seq(Numbers) /\ Len(Tail(batch)) <= BatchSize
         /\ Head(batch) \in Numbers /\ outcome[Head(batch)] = "queued"
         /\ ToSet(batch) = ToSet(Tail(batch)) \union {Head(batch)}
         /\ IsInjective(Tail(batch)) /\ Head(batch) \notin ToSet(Tail(batch))
<1>1. batch \in Seq(Numbers) /\ Len(batch) <= BatchSize /\ IsInjective(batch)
  BY DEF StripeInv, RequestsInv, QueuesInv, HeldInv
<1>2. /\ Tail(batch) \in Seq(Numbers) /\ Len(Tail(batch)) = Len(batch) - 1
      /\ Head(batch) \in Numbers
      /\ ToSet(batch) = ToSet(Tail(batch)) \union {Head(batch)}
      /\ IsInjective(Tail(batch)) /\ Head(batch) \notin ToSet(Tail(batch))
  BY <1>1, TailIs
<1>3. Head(batch) \in {n \in DOMAIN outcome : outcome[n] = "queued"}
  BY <1>2 DEF StripeInv, RequestsInv, HeldInv
<1>4. Len(Tail(batch)) <= BatchSize
  BY <1>1, <1>2, StripeManagerAssumption
<1> QED
  BY <1>2, <1>3, <1>4

LEMMA TakeInv == StripeInv /\ Take => StripeInv'
<1> SUFFICES ASSUME StripeInv, Take PROVE StripeInv'
  OBVIOUS
<1> DEFINE num == Head(batch)
<1>1. QueuesInv /\ JobTypes /\ HeldInv /\ JobInv /\ DoneInv
  BY DEF StripeInv, RequestsInv, PersistedInv
<1>2. /\ job.pc = "idle" /\ batch # <<>> /\ batch' = Tail(batch)
      /\ UNCHANGED <<dry_run, channel, cached, volumes, objects>>
  BY DEF Take, metadata
<1>3. /\ batch' \in Seq(Numbers) /\ Len(batch') <= BatchSize
      /\ num \in Numbers /\ outcome[num] = "queued"
      /\ ToSet(batch) = ToSet(batch') \union {num}
      /\ IsInjective(batch') /\ num \notin ToSet(batch')
  BY <1>2, HeadOfBatch
<1>4. channel \in Seq(Numbers) /\ pending \in Seq(Numbers)
  BY <1>1 DEF QueuesInv
<1>5. DOMAIN outcome = Numbers /\ NoRequest \notin Numbers /\ job.num = NoRequest
  BY <1>1, <1>2, NumbersAre DEF JobTypes
<1>6. ASSUME submitted[num].entries = <<>>, Conclude(num, "ok"), UNCHANGED <<pending, job>>
      PROVE  StripeInv'
  <2>1. outcome' = [outcome EXCEPT ![num] = "ok"] /\ UNCHANGED <<submitted, stamp, restarts>>
    BY <1>6 DEF Conclude
  <2>2. /\ outcome' \in Seq(Outcomes) /\ Len(outcome') = Len(outcome) /\ DOMAIN outcome' = Numbers
        /\ outcome'[num] = "ok" /\ \A k \in Numbers : k # num => outcome'[k] = outcome[k]
    BY <2>1, <1>1, <1>3, <1>5 DEF QueuesInv, Outcomes, Numbers
  <2>3. QueuesInv'
    BY <2>1, <2>2, <1>1, <1>2, <1>3, <1>6 DEF QueuesInv, Numbers
  <2>4. HeldInv'
    <3>1. {k \in DOMAIN outcome' : outcome'[k] = "queued"}
            = {k \in DOMAIN outcome : outcome[k] = "queued"} \ {num}
      BY <2>2, <1>3, <1>5
    <3>2. UNCHANGED <<channel, pending, job>>
      BY <1>2, <1>6
    <3> QED
      BY <3>1, <3>2, <1>1, <1>3, <1>5 DEF HeldInv
  <2>5. DoneInv'
    <3>1. ASSUME NEW n \in Numbers, outcome'[n] = "ok",
                 NEW p \in ToSet(Assembled(submitted[n].entries))
          PROVE  \E s \in objects[submitted[n].vol] : s.start = p.start /\ s.data = p.data
      <4>1. CASE n = num
        BY <4>1, <1>6, <3>1, AssembledNothing
      <4>2. CASE n # num
        BY <4>2, <1>1, <1>5, <2>2, <3>1 DEF DoneInv, PiecesOf, IsPersisted
      <4> QED
        BY <4>1, <4>2
    <3> QED
      BY <3>1, <1>2, <2>1, <2>2 DEF DoneInv, PiecesOf, IsPersisted
  <2>6. JobTypes' /\ JobInv'
    BY <2>1, <1>1, <1>2, <1>6, JobStep, JobFrame
  <2>7. MetadataInv'
    BY <1>2, <2>1, MetadataFrame DEF StripeInv
  <2> QED
    BY <2>3, <2>4, <2>5, <2>6, <2>7 DEF StripeInv, RequestsInv, PersistedInv
<1>7. ASSUME Requeue(num), UNCHANGED job
      PROVE  StripeInv'
  <2>1. pending' = Append(pending, num) /\ UNCHANGED <<submitted, outcome, stamp, restarts>>
    BY <1>7 DEF Requeue, history
  <2>2. num \notin ToSet(pending)
    BY <1>1, <1>3 DEF HeldInv
  <2>3. /\ pending' \in Seq(Numbers) /\ ToSet(pending') = ToSet(pending) \union {num}
        /\ IsInjective(pending')
    BY <2>1, <2>2, <1>1, <1>3, <1>4, AppendIs DEF HeldInv
  <2>4. HeldInv'
    <3>1. UNCHANGED <<channel, outcome, job>>
      BY <1>2, <1>7, <2>1
    <3> QED
      BY <3>1, <2>3, <1>1, <1>3, <1>5 DEF HeldInv
  <2>5. channel' \in Seq(Numbers) /\ Len(channel') <= ChannelCap
    BY <1>1, <1>2 DEF QueuesInv
  <2>6. UNCHANGED <<dry_run, job, metadata, history>>
    BY <1>2, <1>7, <2>1 DEF metadata, history
  <2> QED
    BY <1>3, <2>3, <2>4, <2>5, <2>6, QueueStep
<1>8. ASSUME submitted[num].vol \in DOMAIN volumes,
             job' = [NoJob EXCEPT !.pc = "load_policy", !.num = num], UNCHANGED <<pending, history>>
      PROVE  StripeInv'
  <2>1. UNCHANGED <<submitted, outcome, stamp, restarts>>
    BY <1>8 DEF history
  <2>2. job' = [pc |-> "load_policy", num |-> num, todo |-> <<>>, errors |-> FALSE]
    BY <1>8 DEF NoJob
  <2>3. JobTypes'
    BY <2>1, <2>2, <1>2, <1>3, <1>5, <1>8, NumbersAre DEF JobTypes, Numbers
  <2>4. QueuesInv'
    BY <2>1, <1>1, <1>2, <1>3, <1>8 DEF QueuesInv, Numbers
  <2>5. HeldInv'
    <3>1. UNCHANGED <<channel, pending, outcome>> /\ job'.num = num
      BY <1>2, <1>8, <2>1, <2>2
    <3> QED
      BY <3>1, <1>1, <1>3, <1>5 DEF HeldInv
  <2>6. JobInv'
    BY <2>2, JobRests DEF Destaging
  <2>7. DoneInv'
    BY <2>1, <1>1, <1>2, DoneFrame
  <2>8. MetadataInv'
    BY <1>2, <2>1, MetadataFrame DEF StripeInv
  <2> QED
    BY <2>3, <2>4, <2>5, <2>6, <2>7, <2>8 DEF StripeInv, RequestsInv, PersistedInv
<1> QED
  BY <1>6, <1>7, <1>8 DEF Take

\* A request gets an outcome.
LEMMA OutcomeIs ==
  ASSUME QueuesInv, NEW n, n \in Numbers, NEW result, result \in Outcomes,
         outcome' = [outcome EXCEPT ![n] = result]
  PROVE  /\ outcome' \in Seq(Outcomes) /\ Len(outcome') = Len(outcome) /\ DOMAIN outcome' = Numbers
         /\ outcome'[n] = result /\ \A k \in Numbers : k # n => outcome'[k] = outcome[k]
<1>1. outcome \in Seq(Outcomes) /\ DOMAIN outcome = Numbers
  BY NumbersAre DEF QueuesInv
<1> QED
  BY <1>1, ExceptIs

\* The request of the job gets its outcome; if that is that all is well, all is persisted.
LEMMA ConcludeInv ==
  ASSUME StripeInv, job.pc # "idle", job' = NoJob,
         NEW result \in Outcomes \ {"queued"},
         outcome' = [outcome EXCEPT ![job.num] = result],
         result = "ok" => \A p \in PiecesOf(job.num) : IsPersisted(p, submitted[job.num].vol),
         UNCHANGED <<dry_run, channel, pending, batch, volumes, objects,
                     submitted, stamp, restarts>>
  PROVE  StripeInv'
<1> DEFINE num == job.num
<1>1. QueuesInv /\ JobTypes /\ HeldInv /\ DoneInv
  BY DEF StripeInv, RequestsInv, PersistedInv
<1>2. num \in Numbers /\ num # NoRequest
  BY <1>1 DEF JobTypes
<1>3. DOMAIN outcome = Numbers /\ NoRequest \notin Numbers
  BY <1>1, NumbersAre
<1>4. /\ outcome' \in Seq(Outcomes) /\ Len(outcome') = Len(outcome) /\ DOMAIN outcome' = Numbers
      /\ outcome'[num] = result /\ \A k \in Numbers : k # num => outcome'[k] = outcome[k]
  BY <1>1, <1>2, OutcomeIs
<1>5. QueuesInv'
  BY <1>1, <1>4 DEF QueuesInv, Numbers
<1>6. HeldInv'
  <2>1. {k \in DOMAIN outcome' : outcome'[k] = "queued"}
          = {k \in DOMAIN outcome : outcome[k] = "queued"} \ {num}
    BY <1>2, <1>3, <1>4
  <2>2. UNCHANGED <<channel, pending, batch>> /\ job'.num = NoRequest
    BY NoJobIs
  <2>3. NoRequest \notin ToSet(channel) \union ToSet(pending) \union ToSet(batch)
    BY <1>1, <1>3 DEF HeldInv
  <2> QED
    BY <2>1, <2>2, <2>3, <1>1, <1>2 DEF HeldInv
<1>7. DoneInv'
  <2>1. ASSUME NEW n \in Numbers, outcome'[n] = "ok", NEW p \in PiecesOf(n)
        PROVE  IsPersisted(p, submitted[n].vol)
    <3>1. CASE n = num
      BY <3>1, <1>4, <2>1
    <3>2. CASE n # num
      BY <3>2, <1>1, <1>3, <1>4, <2>1 DEF DoneInv
    <3> QED
      BY <3>1, <3>2
  <2> QED
    BY <2>1, <1>4 DEF DoneInv, PiecesOf, IsPersisted
<1>8. JobTypes' /\ JobInv'
  BY <1>1, JobStep, JobRests, NoJobIs DEF Destaging
<1>9. MetadataInv'
  BY MetadataFrame DEF StripeInv
<1> QED
  BY <1>5, <1>6, <1>7, <1>8, <1>9 DEF StripeInv, RequestsInv, PersistedInv

LEMMA LoadPolicyInv == StripeInv /\ LoadPolicy => StripeInv'
<1> SUFFICES ASSUME StripeInv, LoadPolicy PROVE StripeInv'
  OBVIOUS
<1>1. QueuesInv /\ JobTypes /\ HeldInv /\ JobInv /\ DoneInv
  BY DEF StripeInv, RequestsInv, PersistedInv
<1>2. /\ job.pc = "load_policy"
      /\ UNCHANGED <<dry_run, channel, pending, batch, volumes, objects>>
  BY DEF LoadPolicy, queues
<1>3. job.num \in Numbers /\ job.num # NoRequest
  BY <1>1, <1>2 DEF JobTypes
<1>4. ASSUME job' = NoJob, Conclude(job.num, "dry_run") PROVE StripeInv'
  <2>1. outcome' = [outcome EXCEPT ![job.num] = "dry_run"] /\ UNCHANGED <<submitted, stamp, restarts>>
    BY <1>4 DEF Conclude
  <2>2. "dry_run" \in Outcomes \ {"queued"} /\ "dry_run" # "ok"
    BY DEF Outcomes
  <2> QED
    BY <2>1, <2>2, <1>2, <1>4, ConcludeInv
<1>5. ASSUME job' = [job EXCEPT !.pc = "create_stripe",
                                !.todo = Assembled(submitted[job.num].entries)],
             UNCHANGED history
      PROVE  StripeInv'
  <2>1. UNCHANGED <<submitted, outcome, stamp, restarts>>
    BY <1>5 DEF history
  <2>2. submitted[job.num].entries \in Seq(Entries)
    BY <1>1, <1>3, NumbersAre, RequestIs
  <2>3. Assembled(submitted[job.num].entries) \in Seq(Pieces)
    BY <2>2, AssembledType
  <2> DEFINE made == Assembled(submitted[job.num].entries)
  <2>4. /\ job'.pc = "create_stripe" /\ job'.num = job.num /\ job'.todo = made
        /\ job' \in [pc: {"idle", "load_policy"} \union Destaging, num: Nat \union {NoRequest},
                     todo: Seq(Pieces), errors: BOOLEAN]
    <3>1. made \in Seq(Pieces)
      BY <2>3
    <3>2. job' = [job EXCEPT !.pc = "create_stripe", !.todo = made]
      BY <1>5
    <3> HIDE DEF made
    <3> QED
      BY <3>1, <3>2, <1>1 DEF JobTypes, Destaging
  <2>5. JobTypes'
    BY <2>1, <2>4, <1>1, <1>2, <1>3 DEF JobTypes, Numbers
  <2>6. QueuesInv'
    BY <2>1, <1>1, <1>2 DEF QueuesInv, Numbers
  <2>7. HeldInv'
    <3>1. UNCHANGED <<channel, pending, batch, outcome>> /\ job'.num = job.num
      BY <1>2, <2>1, <2>4
    <3> QED
      BY <3>1, <1>1 DEF HeldInv
  <2>8. JobInv'
    BY <2>1, <2>4 DEF JobInv, PiecesOf
  <2>9. DoneInv'
    BY <2>1, <1>1, <1>2, DoneFrame
  <2>10. MetadataInv'
    BY <1>2, <2>1, MetadataFrame DEF StripeInv
  <2> QED
    BY <2>5, <2>6, <2>7, <2>8, <2>9, <2>10 DEF StripeInv, RequestsInv, PersistedInv
<1> QED
  BY <1>4, <1>5 DEF LoadPolicy

LEMMA LoadPolicyFailsInv == StripeInv /\ LoadPolicyFails => StripeInv'
<1> SUFFICES ASSUME StripeInv, LoadPolicyFails PROVE StripeInv'
  OBVIOUS
<1>1. QueuesInv /\ JobTypes /\ HeldInv /\ DoneInv
  BY DEF StripeInv, RequestsInv, PersistedInv
<1>2. /\ job.pc = "load_policy" /\ job' = NoJob /\ pending' = Append(pending, job.num)
      /\ UNCHANGED <<dry_run, channel, batch, cached, volumes, objects,
                     submitted, outcome, stamp, restarts>>
  BY DEF LoadPolicyFails, Requeue, metadata, history
<1>3. job.num \in Numbers /\ job.num # NoRequest
  BY <1>1, <1>2 DEF JobTypes
<1>4. job.num \notin ToSet(pending) /\ pending \in Seq(Numbers) /\ IsInjective(pending)
  BY <1>1 DEF HeldInv, QueuesInv
<1>5. /\ pending' \in Seq(Numbers) /\ ToSet(pending') = ToSet(pending) \union {job.num}
      /\ IsInjective(pending')
  BY <1>2, <1>3, <1>4, AppendIs
<1>6. QueuesInv'
  BY <1>1, <1>2, <1>5 DEF QueuesInv, Numbers
<1>7. HeldInv'
  <2>1. UNCHANGED <<channel, batch, outcome>> /\ job'.num = NoRequest
    BY <1>2, NoJobIs
  <2>2. NoRequest \notin ToSet(channel) \union ToSet(pending) \union ToSet(batch) \union {job.num}
    BY <1>1, <1>3, NumbersAre DEF HeldInv
  <2> QED
    BY <2>1, <2>2, <1>1, <1>3, <1>5 DEF HeldInv
<1>8. JobTypes' /\ JobInv'
  BY <1>1, <1>2, JobStep, JobRests, NoJobIs DEF Destaging
<1>9. DoneInv'
  BY <1>1, <1>2, DoneFrame
<1>10. MetadataInv'
  BY <1>2, MetadataFrame DEF StripeInv
<1> QED
  BY <1>6, <1>7, <1>8, <1>9, <1>10 DEF StripeInv, RequestsInv, PersistedInv

LEMMA FinishInv == StripeInv /\ Finish => StripeInv'
<1> SUFFICES ASSUME StripeInv, Finish PROVE StripeInv'
  OBVIOUS
<1> DEFINE result == IF job.errors THEN "errors" ELSE "ok"
<1>1. JobTypes /\ JobInv
  BY DEF StripeInv, RequestsInv, PersistedInv
<1>2. /\ job.pc = "create_stripe" /\ job.todo = <<>> /\ job' = NoJob
      /\ outcome' = [outcome EXCEPT ![job.num] = result]
      /\ UNCHANGED <<dry_run, channel, pending, batch, volumes, objects,
                     submitted, stamp, restarts>>
  BY DEF Finish, Conclude, queues, metadata
<1>3. result \in Outcomes \ {"queued"}
  BY DEF Outcomes
<1>4. ASSUME result = "ok", NEW p \in PiecesOf(job.num)
      PROVE  IsPersisted(p, submitted[job.num].vol)
  <2>1. ~job.errors
    BY <1>4
  <2>2. p \notin ToSet(job.todo)
    BY <1>2, EmptySequence
  <2>3. job.pc \in Destaging
    BY <1>2 DEF Destaging
  <2> QED
    BY <2>1, <2>2, <2>3, <1>1, <1>4 DEF JobInv
<1> HIDE DEF result
<1> QED
  BY <1>2, <1>3, <1>4, ConcludeInv DEF Destaging

-----------------------------------------------------------------------------
(* Stripes are recorded.                                                   *)

\* A map with one more value keeps to the values it may have.
LEMMA InsertType ==
  ASSUME NEW x, NEW y, NEW f, NEW T, NEW g, g = insert(f, x, y), y \in T,
         \A z \in DOMAIN f : f[z] \in T
  PROVE  g \in [DOMAIN g -> T]
BY DEF insert

LEMMA WrittenGrows ==
  ASSUME NEW t \in Nat, NEW s \in Written(t)
  PROVE  s \in Written(t + 1) /\ s \in Stripe /\ s.data # <<>> /\ s.stamp < t
         /\ s.stripe_id \in Nat /\ s.start \in Nat /\ s.data \in Seq(Nat) /\ s.stamp \in Nat
BY DEF Written, Stripe

LEMMA AddStripeIs ==
  ASSUME NEW t \in Nat, NEW state, IsState(state, t),
         NEW s \in Written(t + 1), s.stripe_id = state.next_stripe_id,
         NEW new, new = add_stripe([state EXCEPT !.next_stripe_id = state.next_stripe_id + 1], s)
  PROVE  /\ IsState(new, t + 1)
         /\ new.next_stripe_id = state.next_stripe_id + 1
         /\ DOMAIN new.lba_map = DOMAIN state.lba_map \union {s.start}
         /\ new.lba_map[s.start] = s.stripe_id
         /\ \A a \in DOMAIN state.lba_map : a # s.start => new.lba_map[a] = state.lba_map[a]
         /\ DOMAIN new.stripes = DOMAIN state.stripes \union {s.stripe_id}
         /\ new.stripes[s.stripe_id] = s
         /\ \A i \in DOMAIN state.stripes : i # s.stripe_id => new.stripes[i] = state.stripes[i]
<1> DEFINE next == state.next_stripe_id
           old_map == state.lba_map
           old == state.stripes
           map == insert(old_map, s.start, s.stripe_id)
           stripes == insert(old, s.stripe_id, s)
<1>1. /\ state = [next_stripe_id |-> next, lba_map |-> old_map, stripes |-> old]
      /\ next \in 0..t /\ DOMAIN old_map \subseteq Nat /\ DOMAIN old \subseteq Nat
      /\ old_map \in [DOMAIN old_map -> DOMAIN old]
      /\ old \in [DOMAIN old -> Written(t)]
      /\ \A i \in DOMAIN old : old[i].stripe_id = i
  BY DEF IsState
<1> HIDE DEF next, old_map, old
<1>2. new = [next_stripe_id |-> next + 1, lba_map |-> map, stripes |-> stripes]
  <2>1. /\ [state EXCEPT !.next_stripe_id = next + 1].next_stripe_id = next + 1
        /\ [state EXCEPT !.next_stripe_id = next + 1].lba_map = old_map
        /\ [state EXCEPT !.next_stripe_id = next + 1].stripes = old
    BY <1>1
  <2>2. new = add_stripe([state EXCEPT !.next_stripe_id = next + 1], s)
    BY DEF next
  <2> QED
    BY <2>1, <2>2, Zenon DEF add_stripe
<1>3. /\ DOMAIN map = DOMAIN old_map \union {s.start} /\ map[s.start] = s.stripe_id
      /\ \A a \in DOMAIN old_map : a # s.start => map[a] = old_map[a]
  BY DEF insert
<1>4. /\ DOMAIN stripes = DOMAIN old \union {s.stripe_id} /\ stripes[s.stripe_id] = s
      /\ \A i \in DOMAIN old : i # s.stripe_id => stripes[i] = old[i]
  BY DEF insert
<1>6. map \in [DOMAIN map -> DOMAIN stripes]
  <2>1. s.stripe_id \in DOMAIN stripes /\ \A a \in DOMAIN old_map : old_map[a] \in DOMAIN stripes
    BY <1>1, <1>4
  <2> HIDE DEF stripes
  <2> QED
    BY <2>1, InsertType
<1>7. stripes \in [DOMAIN stripes -> Written(t + 1)]
  <2>1. s \in Written(t + 1) /\ \A i \in DOMAIN old : old[i] \in Written(t + 1)
    BY <1>1, WrittenGrows
  <2> QED
    BY <2>1, InsertType
<1> HIDE DEF map, stripes
<1>5. s.start \in Nat /\ s.stripe_id \in Nat
  BY DEF Written, Stripe
<1>8. \A i \in DOMAIN stripes : stripes[i].stripe_id = i
  BY <1>1, <1>4
<1>9. new.next_stripe_id = next + 1 /\ new.lba_map = map /\ new.stripes = stripes
      /\ next + 1 \in 0..(t + 1)
  BY <1>1, <1>2
<1>10. IsState(new, t + 1)
  <2>1. new = [next_stripe_id |-> new.next_stripe_id, lba_map |-> new.lba_map, stripes |-> new.stripes]
    BY <1>2, <1>9
  <2>2. DOMAIN map \subseteq Nat /\ DOMAIN stripes \subseteq Nat
    BY <1>1, <1>3, <1>4, <1>5
  <2> QED
    BY <2>1, <2>2, <1>6, <1>7, <1>8, <1>9 DEF IsState
<1> QED
  BY <1>3, <1>4, <1>9, <1>10 DEF next, old_map, old

LEMMA StateGrows ==
  ASSUME NEW t \in Nat, NEW state, IsState(state, t)
  PROVE  IsState(state, t + 1)
<1>1. state.stripes \in [DOMAIN state.stripes -> Written(t + 1)]
  BY WrittenGrows DEF IsState
<1>2. state.next_stripe_id \in 0..(t + 1)
  BY DEF IsState
<1> QED
  BY <1>1, <1>2 DEF IsState

\* What is known of the volume of the job.
LEMMA JobVolume ==
  ASSUME StripeInv, job.num # NoRequest, NEW v, v = submitted[job.num].vol
  PROVE  /\ job.num \in Numbers /\ v \in DOMAIN volumes /\ v \in Volumes
         /\ IsState(volumes[v], stamp) /\ stamp \in Nat
BY DEF StripeInv, RequestsInv, JobTypes, MetadataInv, VolumesInv

LEMMA CreateStripeInv == StripeInv /\ CreateStripe => StripeInv'
<1> SUFFICES ASSUME StripeInv, CreateStripe PROVE StripeInv'
  OBVIOUS
<1>0. PICK v : v = submitted[job.num].vol
  OBVIOUS
<1> DEFINE state == volumes[v]
           id == state.next_stripe_id
           s == [stripe_id |-> id, start |-> Head(job.todo).start,
                 data |-> Head(job.todo).data, stamp |-> stamp]
           new == add_stripe([state EXCEPT !.next_stripe_id = id + 1], s)
<1>1. QueuesInv /\ JobTypes /\ HeldInv /\ JobInv /\ DoneInv /\ VolumesInv /\ IdsInv /\ MapInv
  BY DEF StripeInv, RequestsInv, MetadataInv, PersistedInv
<1>2. /\ job.pc = "create_stripe" /\ job.todo # <<>>
      /\ volumes' = [volumes EXCEPT ![v] = new]
      /\ stamp' = stamp + 1
      /\ job' = [job EXCEPT !.pc = "create_crd"]
      /\ UNCHANGED <<dry_run, channel, pending, batch, objects, submitted, outcome, restarts>>
  <2>1. volumes' = [volumes EXCEPT ![v] = add_stripe([@ EXCEPT !.next_stripe_id = id + 1], s)]
    BY <1>0 DEF CreateStripe
  <2>2. volumes' = [volumes EXCEPT ![v] = new]
    BY <2>1
  <2> QED
    BY <2>2 DEF CreateStripe, queues
<1>3. job.num # NoRequest
  BY <1>1, <1>2 DEF JobTypes
<1>4. /\ job.num \in Numbers /\ v \in DOMAIN volumes /\ v \in Volumes
      /\ IsState(state, stamp) /\ stamp \in Nat
  BY <1>0, <1>3, JobVolume
<1>5. Head(job.todo) \in Pieces /\ job.todo \in Seq(Pieces)
  <2>1. job.todo \in Seq(Pieces)
    BY <1>1 DEF JobTypes
  <2> QED
    BY <2>1, <1>2, TailIs
<1>6. id \in 0..stamp /\ id \in Nat
  BY <1>4 DEF IsState
<1>7. /\ s \in Written(stamp + 1) /\ s.stripe_id = id /\ s.stamp = stamp
      /\ s.start = Head(job.todo).start /\ s.data = Head(job.todo).data
  BY <1>4, <1>5, <1>6 DEF Pieces, Written, Stripe
<1>8. /\ IsState(new, stamp + 1) /\ new.next_stripe_id = id + 1
      /\ DOMAIN new.lba_map = DOMAIN state.lba_map \union {s.start}
      /\ new.lba_map[s.start] = id
      /\ \A a \in DOMAIN state.lba_map : a # s.start => new.lba_map[a] = state.lba_map[a]
      /\ DOMAIN new.stripes = DOMAIN state.stripes \union {id}
      /\ new.stripes[id] = s
      /\ \A i \in DOMAIN state.stripes : i # id => new.stripes[i] = state.stripes[i]
  <2> HIDE DEF s, state, id
  <2>1. s.stripe_id = state.next_stripe_id
    BY <1>7 DEF id
  <2>2. new = add_stripe([state EXCEPT !.next_stripe_id = state.next_stripe_id + 1], s)
    BY DEF id
  <2> HIDE DEF new
  <2> QED
    BY <2>1, <2>2, <1>4, <1>7, AddStripeIs, SMTT(30) DEF id
<1> HIDE DEF state, id, s, new
<1>9. /\ DOMAIN volumes' = DOMAIN volumes /\ volumes'[v] = new
      /\ \A w \in DOMAIN volumes : w # v => volumes'[w] = volumes[w]
      /\ volumes' = [w \in DOMAIN volumes' |-> volumes'[w]]
  <2>1. volumes = [w \in DOMAIN volumes |-> volumes[w]]
    BY <1>1 DEF VolumesInv
  <2>2. volumes' = [volumes EXCEPT ![v] = new]
    BY <1>2
  <2> QED
    BY <2>1, <2>2, <1>4
<1>10. UNCHANGED <<objects, submitted, restarts>> /\ stamp' = stamp + 1
  BY <1>2
<1>11. VolumesInv'
  <2>1. \A w \in DOMAIN volumes' : IsState(volumes'[w], stamp')
    BY <1>1, <1>4, <1>8, <1>9, <1>10, StateGrows DEF VolumesInv
  <2>2. objects' \in [Volumes -> SUBSET Written(stamp')]
    <3>1. \A x \in Written(stamp) : x \in Written(stamp + 1)
      BY <1>4, WrittenGrows
    <3> QED
      BY <3>1, <1>1, <1>10 DEF VolumesInv
  <2> QED
    BY <2>1, <2>2, <1>1, <1>9, <1>10 DEF VolumesInv
<1>12. IdsInv'
  <2>1. \A w \in DOMAIN volumes' : \A i \in DOMAIN volumes'[w].stripes :
          i < volumes'[w].next_stripe_id \/ volumes'[w].stripes[i] \in objects'[w]
    <3>1. ASSUME NEW i \in DOMAIN new.stripes PROVE i < id + 1 \/ new.stripes[i] \in objects[v]
      <4>1. CASE i = id
        BY <4>1, <1>6
      <4>2. CASE i # id
        <5>1. i \in DOMAIN state.stripes /\ new.stripes[i] = state.stripes[i] /\ i \in Nat
          BY <4>2, <1>4, <1>8 DEF IsState
        <5>2. i < id \/ state.stripes[i] \in objects[v]
          BY <5>1, <1>1, <1>4 DEF IdsInv, state, id
        <5> QED
          BY <5>1, <5>2, <1>6
      <4> QED
        BY <4>1, <4>2
    <3> QED
      BY <3>1, <1>1, <1>8, <1>9, <1>10 DEF IdsInv
  <2>2. ASSUME restarts' = 0, NEW w \in DOMAIN volumes'
        PROVE  /\ objects'[w] \subseteq recorded(w)'
               /\ \A i \in DOMAIN volumes'[w].stripes : i < volumes'[w].next_stripe_id
    <3>1. CASE w # v
      BY <3>1, <2>2, <1>1, <1>9, <1>10 DEF IdsInv, recorded
    <3>2. CASE w = v
      <4>1. /\ \A i \in DOMAIN state.stripes : i < id
            /\ objects[v] \subseteq {state.stripes[i] : i \in DOMAIN state.stripes}
        BY <2>2, <1>1, <1>4, <1>10 DEF IdsInv, recorded, state, id
      <4>2. DOMAIN state.stripes \subseteq Nat
        BY <1>4 DEF IsState
      <4>3. \A i \in DOMAIN state.stripes : i # id /\ new.stripes[i] = state.stripes[i]
        BY <4>1, <4>2, <1>6, <1>8
      <4>4. objects[v] \subseteq {new.stripes[i] : i \in DOMAIN new.stripes}
        BY <4>1, <4>3, <1>8
      <4>5. \A i \in DOMAIN new.stripes : i < id + 1
        BY <4>1, <4>2, <1>6, <1>8
      <4> QED
        BY <3>2, <4>4, <4>5, <1>8, <1>9, <1>10 DEF recorded
    <3> QED
      BY <3>1, <3>2
  <2> QED
    BY <2>1, <2>2, <1>1, <1>9, <1>10 DEF IdsInv
<1>13. MapInv'
  <2>1. ASSUME NEW w \in DOMAIN volumes, w # v, IdsAreUniqueIn(w)', ListedByAge(w)'
        PROVE  LeadsToNewest(volumes'[w])
    <3>1. IdsAreUniqueIn(w) /\ ListedByAge(w)
      BY <2>1, <1>9, <1>10 DEF IdsAreUniqueIn, ListedByAge, recorded
    <3> QED
      BY <3>1, <2>1, <1>1, <1>9 DEF MapInv
  <2>2. ASSUME IdsAreUniqueIn(v)', ListedByAge(v)'
        PROVE  LeadsToNewest(new)
    <3>1. \A x, y \in objects[v] \union {new.stripes[i] : i \in DOMAIN new.stripes} :
             x.stripe_id = y.stripe_id => x = y
      BY <2>2, <1>4, <1>9, <1>10 DEF IdsAreUniqueIn, recorded
    <3>2. id \notin DOMAIN state.stripes
      <4> SUFFICES ASSUME id \in DOMAIN state.stripes PROVE FALSE
        OBVIOUS
      <4>1. state.stripes[id] \in objects[v]
        BY <1>1, <1>4, <1>6 DEF IdsInv, state, id
      <4>2. state.stripes[id].stripe_id = id /\ state.stripes[id] \in Written(stamp)
        BY <1>4 DEF IsState
      <4>3. new.stripes[id] = s /\ id \in DOMAIN new.stripes
        BY <1>8
      <4>4. s = state.stripes[id]
        BY <3>1, <4>1, <4>2, <4>3, <1>7
      <4> QED
        BY <4>2, <4>4, <1>4, <1>7 DEF Written
    <3>3. \A i \in DOMAIN state.stripes : i \in DOMAIN new.stripes /\ new.stripes[i] = state.stripes[i]
      BY <3>2, <1>8
    <3>4. IdsAreUniqueIn(v)
      <4>1. recorded(v) = {state.stripes[i] : i \in DOMAIN state.stripes}
        BY DEF recorded, state
      <4>2. recorded(v) \subseteq {new.stripes[i] : i \in DOMAIN new.stripes}
        BY <4>1, <3>3
      <4> QED
        BY <4>2, <3>1 DEF IdsAreUniqueIn
    <3>5. ListedByAge(v)
      BY <2>2, <1>10 DEF ListedByAge
    <3>6. LeadsToNewest(state)
      BY <3>4, <3>5, <1>1, <1>4 DEF MapInv, state
    <3>7. \A a \in DOMAIN state.lba_map :
             state.lba_map[a] \in DOMAIN state.stripes /\ state.lba_map[a] # id
      BY <3>2, <1>4 DEF IsState
    <3>8. \A i \in DOMAIN state.stripes : state.stripes[i].stamp < stamp /\ state.stripes[i].stamp \in Nat
      BY <1>4 DEF IsState, Written, Stripe
    <3>9. \A a \in DOMAIN new.lba_map : new.stripes[new.lba_map[a]].start = a
      BY <3>3, <3>6, <3>7, <1>8 DEF LeadsToNewest
    <3>10. ASSUME NEW i \in DOMAIN new.stripes
           PROVE  /\ new.stripes[i].start \in DOMAIN new.lba_map
                  /\ new.stripes[i].stamp <= new.stripes[new.lba_map[new.stripes[i].start]].stamp
      <4>1. CASE i = id
        <5>1. new.stripes[i] = s /\ new.lba_map[s.start] = id /\ s.start \in DOMAIN new.lba_map
          BY <4>1, <1>8
        <5> QED
          BY <5>1, <4>1, <1>4, <1>7
      <4>2. CASE i # id
        <5>1. i \in DOMAIN state.stripes /\ new.stripes[i] = state.stripes[i]
          BY <4>2, <1>8
        <5> DEFINE a == state.stripes[i].start
        <5>2. a \in DOMAIN state.lba_map
              /\ state.stripes[i].stamp <= state.stripes[state.lba_map[a]].stamp
          BY <5>1, <3>6 DEF LeadsToNewest
        <5>3. CASE a = s.start
          <6>1. new.stripes[new.lba_map[a]] = s
            BY <5>3, <1>8
          <6> QED
            BY <6>1, <5>1, <5>2, <3>8, <1>4, <1>7, <1>8
        <5>4. CASE a # s.start
          <6>1. new.lba_map[a] = state.lba_map[a]
            BY <5>2, <5>4, <1>8
          <6>2. new.stripes[new.lba_map[a]] = state.stripes[state.lba_map[a]]
            BY <6>1, <5>2, <3>3, <3>7
          <6> QED
            BY <6>2, <5>1, <5>2, <1>8
        <5> QED
          BY <5>3, <5>4
      <4> QED
        BY <4>1, <4>2
    <3> QED
      BY <3>9, <3>10 DEF LeadsToNewest
  <2>3. v \in DOMAIN volumes' /\ volumes'[v] = new
    BY <1>4, <1>9
  <2> QED
    BY <2>1, <2>2, <2>3, <1>9 DEF MapInv
<1>14. JobTypes'
  BY <1>1, <1>2, <1>9 DEF JobTypes, Numbers, Destaging
<1>15. QueuesInv' /\ HeldInv'
  <2>1. job'.num = job.num
    BY <1>1, <1>2 DEF JobTypes
  <2> QED
    BY <2>1, <1>1, <1>2 DEF QueuesInv, HeldInv, Numbers
<1>16. JobInv'
  <2>1. /\ job'.num = job.num /\ job'.todo = job.todo /\ job'.errors = job.errors
        /\ job.pc \in Destaging
    BY <1>1, <1>2 DEF JobTypes, Destaging
  <2>2. \A p \in PiecesOf(job.num) : p \in ToSet(job.todo) \/ job.errors \/ IsPersisted(p, v)
    BY <2>1, <1>0, <1>1 DEF JobInv
  <2>3. (id + 1) - 1 = id
    BY <1>6
  <2>4. volumes'[submitted'[job'.num].vol].next_stripe_id - 1 = id
    BY <2>1, <2>3, <1>0, <1>8, <1>9, <1>10
  <2>5. volumes'[submitted'[job'.num].vol].stripes = new.stripes
    BY <2>1, <1>0, <1>9, <1>10
  <2>6. id \in DOMAIN new.stripes /\ new.stripes[id].start = Head(job.todo).start
        /\ new.stripes[id].data = Head(job.todo).data
    BY <1>7, <1>8
  <2>7. ASSUME NEW p \in ToSet(Assembled(submitted'[job'.num].entries))
        PROVE  \/ p \in ToSet(job'.todo) \/ job'.errors
               \/ \E x \in objects'[v] : x.start = p.start /\ x.data = p.data
    BY <2>1, <2>2, <1>10 DEF PiecesOf, IsPersisted
  <2>8. submitted'[job'.num].vol = v
    BY <2>1, <1>0, <1>10
  <2> QED
    BY <2>1, <2>4, <2>5, <2>6, <2>7, <2>8 DEF JobInv, PiecesOf, IsPersisted
<1>17. DoneInv'
  BY <1>1, <1>2, DoneFrame
<1> QED
  BY <1>11, <1>12, <1>13, <1>14, <1>15, <1>16, <1>17
     DEF StripeInv, RequestsInv, MetadataInv, PersistedInv

LEMMA PersistInv == StripeInv /\ Persist => StripeInv'
<1> SUFFICES ASSUME StripeInv, Persist PROVE StripeInv'
  OBVIOUS
<1>0. PICK v : v = submitted[job.num].vol
  OBVIOUS
<1> DEFINE id == volumes[v].next_stripe_id - 1
           s == volumes[v].stripes[id]
<1>1. QueuesInv /\ JobTypes /\ HeldInv /\ JobInv /\ DoneInv /\ VolumesInv /\ IdsInv /\ MapInv
  BY DEF StripeInv, RequestsInv, MetadataInv, PersistedInv
<1>2. PICK failed \in BOOLEAN :
        /\ create_stripe_crd(v, s) \/ (failed /\ UNCHANGED objects)
        /\ job' = [job EXCEPT !.pc = "create_stripe", !.todo = Tail(@), !.errors = @ \/ failed]
  BY <1>0 DEF Persist
<1>3. /\ job.pc = "create_crd" /\ job.pc \in Destaging
      /\ UNCHANGED <<dry_run, channel, pending, batch, volumes, submitted, outcome, stamp, restarts>>
  BY DEF Persist, queues, history, Destaging
<1>4. job.num # NoRequest /\ job.todo # <<>> /\ job.todo \in Seq(Pieces)
  BY <1>1, <1>3 DEF JobTypes
<1>5. /\ job.num \in Numbers /\ v \in DOMAIN volumes /\ v \in Volumes
      /\ IsState(volumes[v], stamp)
  BY <1>0, <1>4, JobVolume
<1>6. /\ id \in DOMAIN volumes[v].stripes
      /\ s.start = Head(job.todo).start /\ s.data = Head(job.todo).data
  BY <1>0, <1>1, <1>3 DEF JobInv
<1>7. s \in Written(stamp) /\ s \in recorded(v)
  BY <1>5, <1>6 DEF IsState, recorded
<1>8. /\ Tail(job.todo) \in Seq(Pieces)
      /\ ToSet(job.todo) = ToSet(Tail(job.todo)) \union {Head(job.todo)}
  BY <1>4, TailIs
<1>9. /\ job'.pc = "create_stripe" /\ job'.num = job.num /\ job'.todo = Tail(job.todo)
      /\ job'.errors = (job.errors \/ failed)
      /\ job' \in [pc: {"idle", "load_policy"} \union Destaging, num: Nat \union {NoRequest},
                   todo: Seq(Pieces), errors: BOOLEAN]
  <2>1. job' = [job EXCEPT !.pc = "create_stripe", !.todo = Tail(job.todo),
                           !.errors = job.errors \/ failed]
    BY <1>2
  <2>2. job \in [pc: {"idle", "load_policy"} \union Destaging, num: Nat \union {NoRequest},
                 todo: Seq(Pieces), errors: BOOLEAN]
    BY <1>1 DEF JobTypes
  <2>3. (job.errors \/ failed) \in BOOLEAN
    OBVIOUS
  <2> QED
    BY <2>1, <2>2, <1>8 DEF Destaging
<1> HIDE DEF id, s
<1>10. \/ /\ \A o \in objects[v] : o.stripe_id # s.stripe_id
          /\ objects' = [objects EXCEPT ![v] = @ \union {s}]
       \/ failed /\ UNCHANGED objects
  BY <1>2 DEF create_stripe_crd
<1>11. objects' \in [Volumes -> SUBSET Written(stamp)] /\ \A w \in Volumes : objects[w] \subseteq objects'[w]
  BY <1>1, <1>5, <1>7, <1>10 DEF VolumesInv
<1>12. VolumesInv'
  BY <1>1, <1>3, <1>11 DEF VolumesInv
<1>13. IdsInv'
  <2>1. CASE UNCHANGED objects
    BY <2>1, <1>1, <1>3 DEF IdsInv, recorded
  <2>2. ASSUME \A o \in objects[v] : o.stripe_id # s.stripe_id,
               objects' = [objects EXCEPT ![v] = @ \union {s}]
        PROVE  IdsInv'
    <3>1. objects'[v] = objects[v] \union {s} /\ \A w \in Volumes : w # v => objects'[w] = objects[w]
      BY <2>2, <1>1, <1>5 DEF VolumesInv
    <3>2. \A w \in Volumes : \A x, y \in objects'[w] : x.stripe_id = y.stripe_id => x = y
      <4>1. ASSUME NEW x \in objects'[v], NEW y \in objects'[v], x.stripe_id = y.stripe_id
            PROVE  x = y
        BY <4>1, <2>2, <3>1, <1>1, <1>5 DEF IdsInv
      <4>2. ASSUME NEW w \in Volumes, w # v PROVE \A x, y \in objects'[w] : x.stripe_id = y.stripe_id => x = y
        BY <4>2, <3>1, <1>1 DEF IdsInv
      <4> QED
        BY <4>1, <4>2
    <3>3. \A w \in DOMAIN volumes : \A i \in DOMAIN volumes[w].stripes :
             i < volumes[w].next_stripe_id \/ volumes[w].stripes[i] \in objects'[w]
      BY <1>1, <1>11 DEF IdsInv, VolumesInv
    <3>4. ASSUME restarts = 0
          PROVE  /\ \A w \in Volumes : w \notin DOMAIN volumes => objects'[w] = {}
                 /\ \A w \in DOMAIN volumes : objects'[w] \subseteq recorded(w)
                 /\ \A w \in DOMAIN volumes : \A i \in DOMAIN volumes[w].stripes : i < volumes[w].next_stripe_id
      BY <3>1, <3>4, <1>1, <1>5, <1>7 DEF IdsInv, VolumesInv
    <3>5. UNCHANGED <<volumes, restarts>>
      BY <1>3
    <3> QED
      BY <3>2, <3>3, <3>4, <3>5 DEF IdsInv, recorded
  <2> QED
    BY <1>10, <2>1, <2>2
<1>14. MapInv'
  <2>1. UNCHANGED volumes
    BY <1>3
  <2>2. ASSUME NEW w \in DOMAIN volumes, IdsAreUniqueIn(w)', ListedByAge(w)'
        PROVE  LeadsToNewest(volumes[w])
    <3>1. w \in Volumes /\ objects[w] \subseteq objects'[w]
      BY <1>1, <1>11 DEF VolumesInv
    <3>2. IdsAreUniqueIn(w) /\ ListedByAge(w)
      BY <2>1, <2>2, <3>1 DEF IdsAreUniqueIn, ListedByAge, recorded
    <3> QED
      BY <3>2, <1>1 DEF MapInv
  <2> QED
    BY <2>1, <2>2 DEF MapInv
<1>15. JobTypes'
  BY <1>1, <1>3, <1>5, <1>9, <1>4, <1>0 DEF JobTypes, Numbers
<1>16. QueuesInv' /\ HeldInv'
  BY <1>1, <1>3, <1>9 DEF QueuesInv, HeldInv, Numbers
<1>17. JobInv'
  <2>1. \A p \in PiecesOf(job.num) : p \in ToSet(job.todo) \/ job.errors \/ IsPersisted(p, v)
    BY <1>0, <1>1, <1>3 DEF JobInv
  <2>2. failed \/ s \in objects'[v]
    BY <1>1, <1>5, <1>10 DEF VolumesInv
  <2>3. ASSUME NEW p \in ToSet(Assembled(submitted[job.num].entries))
        PROVE  \/ p \in ToSet(job'.todo) \/ job'.errors
               \/ \E x \in objects'[v] : x.start = p.start /\ x.data = p.data
    <3>1. CASE p = Head(job.todo)
      BY <3>1, <2>2, <1>6, <1>9
    <3>2. CASE p \in ToSet(Tail(job.todo)) \/ job.errors
      BY <3>2, <1>9
    <3>3. CASE IsPersisted(p, v)
      BY <3>3, <1>5, <1>11 DEF IsPersisted
    <3> QED
      BY <3>1, <3>2, <3>3, <2>1, <1>8 DEF PiecesOf
  <2>4. submitted'[job'.num] = submitted[job.num] /\ job'.pc # "create_crd"
    BY <1>3, <1>9
  <2> QED
    BY <2>3, <2>4, <1>0 DEF JobInv, PiecesOf, IsPersisted
<1>18. DoneInv'
  BY <1>1, <1>3, <1>11, DoneFrame
<1> QED
  BY <1>12, <1>13, <1>14, <1>15, <1>16, <1>17, <1>18
     DEF StripeInv, RequestsInv, MetadataInv, PersistedInv

LEMMA SyncInv ==
  ASSUME StripeInv, NEW v \in Volumes, sync_from_crds(v)
  PROVE  StripeInv'
<1> DEFINE ids == {o.stripe_id : o \in objects[v]}
           starts == {o.start : o \in objects[v]}
<1>1. QueuesInv /\ JobTypes /\ HeldInv /\ JobInv /\ DoneInv /\ VolumesInv /\ IdsInv /\ MapInv
  BY DEF StripeInv, RequestsInv, MetadataInv, PersistedInv
<1>2. /\ v \notin DOMAIN volumes
      /\ UNCHANGED <<dry_run, channel, pending, batch, job, objects,
                     submitted, outcome, stamp, restarts>>
  BY DEF sync_from_crds, queues, history
<1>3. PICK lba_map \in [starts -> ids], stripes \in [ids -> objects[v]] :
        /\ \A i \in ids : stripes[i].stripe_id = i
        /\ \A a \in starts :
             stripes[lba_map[a]].start = a /\ ListedLast(stripes[lba_map[a]], objects[v])
        /\ volumes' = insert(volumes, v, [next_stripe_id |-> NewState.next_stripe_id,
                                         lba_map |-> lba_map, stripes |-> stripes])
  BY DEF sync_from_crds
<1> DEFINE new == [next_stripe_id |-> 0, lba_map |-> lba_map, stripes |-> stripes]
<1>4. NewState.next_stripe_id = 0
  BY DEF NewState
<1>5. new.next_stripe_id = 0 /\ new.lba_map = lba_map /\ new.stripes = stripes
  OBVIOUS
<1>6. volumes' = insert(volumes, v, new)
  BY <1>3, <1>4, Zenon
<1>7. /\ objects[v] \subseteq Written(stamp) /\ stamp \in Nat
      /\ \A o \in objects[v] : o.stripe_id \in Nat /\ o.start \in Nat /\ o.stamp \in Nat
  BY <1>1 DEF VolumesInv, Written, Stripe
<1>8. /\ DOMAIN lba_map = starts /\ DOMAIN stripes = ids /\ ids \subseteq Nat /\ starts \subseteq Nat
      /\ \A a \in starts : lba_map[a] \in ids
      /\ \A i \in ids : stripes[i] \in objects[v] /\ stripes[i] \in Written(stamp)
  BY <1>3, <1>7
<1> HIDE DEF ids, starts
<1>9. IsState(new, stamp)
  <2>1. /\ new = [next_stripe_id |-> new.next_stripe_id, lba_map |-> new.lba_map,
                  stripes |-> new.stripes]
        /\ new.next_stripe_id \in 0..stamp
    BY <1>7
  <2>2. lba_map \in [DOMAIN lba_map -> DOMAIN stripes] /\ stripes \in [DOMAIN stripes -> Written(stamp)]
    BY <1>3, <1>8
  <2> HIDE DEF new
  <2> QED
    BY <2>1, <2>2, <1>3, <1>5, <1>8 DEF IsState
<1> HIDE DEF new
<1>10. /\ DOMAIN volumes' = DOMAIN volumes \union {v} /\ volumes'[v] = new
       /\ \A w \in DOMAIN volumes : w # v /\ volumes'[w] = volumes[w]
  BY <1>2, <1>6 DEF insert
<1>11. VolumesInv'
  <2>1. volumes' = [w \in DOMAIN volumes' |-> volumes'[w]]
    BY <1>6 DEF insert
  <2>2. \A w \in DOMAIN volumes' : IsState(volumes'[w], stamp)
    BY <1>1, <1>9, <1>10 DEF VolumesInv
  <2> QED
    BY <2>1, <2>2, <1>1, <1>2, <1>10 DEF VolumesInv
<1>12. IdsInv'
  <2>1. \A w \in DOMAIN volumes' : \A i \in DOMAIN volumes'[w].stripes :
          i < volumes'[w].next_stripe_id \/ volumes'[w].stripes[i] \in objects[w]
    BY <1>1, <1>5, <1>8, <1>10 DEF IdsInv
  <2>2. ASSUME restarts = 0, NEW w \in DOMAIN volumes'
        PROVE  /\ objects[w] \subseteq recorded(w)'
               /\ \A i \in DOMAIN volumes'[w].stripes : i < volumes'[w].next_stripe_id
    <3>1. CASE w = v
      <4>1. objects[v] = {}
        BY <2>2, <1>1, <1>2 DEF IdsInv
      <4>2. DOMAIN new.stripes = {}
        BY <4>1, <1>5, <1>8
      <4> QED
        BY <3>1, <4>1, <4>2, <1>10
    <3>2. CASE w # v
      BY <3>2, <2>2, <1>1, <1>10 DEF IdsInv, recorded
    <3> QED
      BY <3>1, <3>2
  <2> QED
    BY <2>1, <2>2, <1>1, <1>2, <1>10 DEF IdsInv
<1>13. MapInv'
  <2>1. ASSUME NEW w \in DOMAIN volumes, IdsAreUniqueIn(w)', ListedByAge(w)'
        PROVE  LeadsToNewest(volumes'[w])
    <3>1. IdsAreUniqueIn(w) /\ ListedByAge(w)
      BY <2>1, <1>2, <1>10 DEF IdsAreUniqueIn, ListedByAge, recorded
    <3> QED
      BY <3>1, <1>1, <1>10 DEF MapInv
  <2>2. ASSUME ListedByAge(v)' PROVE LeadsToNewest(new)
    <3>1. \A a \in DOMAIN lba_map : stripes[lba_map[a]].start = a
      BY <1>3, <1>8
    <3>2. ASSUME NEW i \in DOMAIN stripes
          PROVE  /\ stripes[i].start \in DOMAIN lba_map
                 /\ stripes[i].stamp <= stripes[lba_map[stripes[i].start]].stamp
      <4> DEFINE t == stripes[i]
                 a == t.start
                 m == stripes[lba_map[a]]
      <4>1. t \in objects[v]
        BY <1>8
      <4>2. a \in starts
        BY <4>1 DEF starts
      <4>3. m \in objects[v] /\ m.start = a /\ ListedLast(m, objects[v])
        BY <4>2, <1>3, <1>8
      <4> HIDE DEF t, m
      <4>4. ~(m.stamp < t.stamp)
        BY <4>1, <4>3, <2>2, <1>2 DEF ListedByAge, ListedLast
      <4>5. t.stamp <= m.stamp
        BY <4>1, <4>3, <4>4, <1>7
      <4> QED
        BY <4>2, <4>5, <1>8 DEF t, m
    <3> QED
      BY <3>1, <3>2, <1>5 DEF LeadsToNewest
  <2> QED
    BY <2>1, <2>2, <1>10 DEF MapInv
<1>14. QueuesInv' /\ HeldInv'
  BY <1>1, <1>2 DEF QueuesInv, HeldInv, Numbers
<1>15. JobTypes'
  BY <1>1, <1>2, <1>10, JobStep
<1>16. JobInv'
  <2> SUFFICES ASSUME job.pc \in Destaging PROVE JobInv'
    BY <1>2 DEF JobInv
  <2>1. submitted[job.num].vol \in DOMAIN volumes
    BY <1>1 DEF JobTypes, Destaging
  <2>2. volumes'[submitted[job.num].vol] = volumes[submitted[job.num].vol]
    BY <2>1, <1>10
  <2> QED
    BY <2>2, <1>1, <1>2 DEF JobInv, PiecesOf, IsPersisted
<1>17. DoneInv'
  BY <1>1, <1>2, DoneFrame
<1> QED
  BY <1>11, <1>12, <1>13, <1>14, <1>15, <1>16, <1>17
     DEF StripeInv, RequestsInv, MetadataInv, PersistedInv

-----------------------------------------------------------------------------
(* The invariant holds.                                                    *)

LEMMA RestartInv == StripeInv /\ Restart => StripeInv'
<1> SUFFICES ASSUME StripeInv, Restart PROVE StripeInv'
  OBVIOUS
<1>1. QueuesInv /\ DoneInv /\ VolumesInv /\ IdsInv
  BY DEF StripeInv, RequestsInv, MetadataInv, PersistedInv
<1>2. /\ channel' = <<>> /\ pending' = <<>> /\ batch' = <<>> /\ job' = NoJob
      /\ volumes' = Empty /\ restarts' = restarts + 1
      /\ UNCHANGED <<dry_run, objects, submitted, stamp>>
  BY DEF Restart
<1>3. outcome' = [n \in DOMAIN outcome |-> IF outcome[n] = "queued" THEN "dropped" ELSE outcome[n]]
  BY DEF Restart
<1>4. /\ outcome' \in Seq(Outcomes) /\ Len(outcome') = Len(outcome)
      /\ DOMAIN outcome' = DOMAIN outcome /\ \A n \in DOMAIN outcome : outcome'[n] # "queued"
      /\ \A n \in DOMAIN outcome : outcome'[n] = "ok" => outcome[n] = "ok"
  <2>1. outcome \in Seq(Outcomes) /\ DOMAIN outcome = 1..Len(outcome) /\ Len(outcome) \in Nat
    BY <1>1 DEF QueuesInv
  <2>2. \A n \in 1..Len(outcome) : outcome'[n] \in Outcomes
    BY <2>1, <1>3 DEF Outcomes
  <2> QED
    BY <2>1, <2>2, <1>3
<1>5. QueuesInv'
  <2>1. 0 <= ChannelCap /\ 0 <= BatchSize
    BY StripeManagerAssumption
  <2> QED
    BY <2>1, <1>1, <1>2, <1>4 DEF QueuesInv, Numbers
<1>6. JobTypes' /\ JobInv'
  BY <1>2, NoJobIs DEF JobTypes, JobInv, Destaging
<1>7. HeldInv'
  <2>1. ToSet(channel') = {} /\ ToSet(pending') = {} /\ ToSet(batch') = {}
        /\ IsInjective(channel') /\ IsInjective(pending') /\ IsInjective(batch')
    BY <1>2, EmptySequence
  <2>2. job'.num = NoRequest
    BY <1>2, NoJobIs
  <2>3. {n \in DOMAIN outcome' : outcome'[n] = "queued"} = {}
    BY <1>4
  <2> QED
    BY <2>1, <2>2, <2>3 DEF HeldInv
<1>8. DOMAIN volumes' = {} /\ volumes' = [v \in DOMAIN volumes' |-> volumes'[v]]
  BY <1>2 DEF Empty
<1>9. VolumesInv'
  BY <1>1, <1>2, <1>8 DEF VolumesInv
<1>10. IdsInv'
  <2>1. restarts' # 0
    BY <1>1, <1>2 DEF VolumesInv
  <2> QED
    BY <2>1, <1>1, <1>2, <1>8 DEF IdsInv
<1>11. MapInv'
  BY <1>8 DEF MapInv
<1>12. DoneInv'
  BY <1>1, <1>2, <1>4, DoneFrame
<1> QED
  BY <1>5, <1>6, <1>7, <1>9, <1>10, <1>11, <1>12
     DEF StripeInv, RequestsInv, MetadataInv, PersistedInv

LEMMA InitStripeInv == Init => StripeInv
<1> SUFFICES ASSUME Init PROVE StripeInv
  OBVIOUS
<1>1. /\ dry_run \in BOOLEAN /\ channel = <<>> /\ pending = <<>> /\ batch = <<>> /\ job = NoJob
      /\ submitted = <<>> /\ outcome = <<>>
  BY StripeManagerAssumption DEF Init
<1>2. /\ volumes = Empty /\ objects = [v \in Volumes |-> {}] /\ stamp = 0 /\ restarts = 0
  BY DEF Init
<1>3. QueuesInv
  <2>1. 0 <= ChannelCap /\ 0 <= BatchSize
    BY StripeManagerAssumption
  <2> QED
    BY <1>1, <2>1 DEF QueuesInv, Numbers
<1>4. JobTypes /\ JobInv
  BY <1>1, NoJobIs DEF JobTypes, JobInv, Destaging
<1>5. HeldInv
  <2>1. ToSet(channel) = {} /\ ToSet(pending) = {} /\ ToSet(batch) = {}
        /\ IsInjective(channel) /\ IsInjective(pending) /\ IsInjective(batch)
    BY <1>1, EmptySequence
  <2>2. DOMAIN outcome = {} /\ job.num = NoRequest
    BY <1>1, NoJobIs
  <2> QED
    BY <2>1, <2>2 DEF HeldInv
<1>6. DOMAIN volumes = {} /\ volumes = [v \in DOMAIN volumes |-> volumes[v]]
  BY <1>2 DEF Empty
<1>7. VolumesInv
  BY <1>2, <1>6 DEF VolumesInv
<1>8. IdsInv /\ MapInv
  BY <1>2, <1>6 DEF IdsInv, MapInv
<1>9. DoneInv
  BY <1>1 DEF DoneInv
<1> QED
  BY <1>3, <1>4, <1>5, <1>7, <1>8, <1>9 DEF StripeInv, RequestsInv, MetadataInv, PersistedInv

LEMMA NextStripeInv == StripeInv /\ [Next]_vars => StripeInv'
<1> SUFFICES ASSUME StripeInv, [Next]_vars PROVE StripeInv'
  OBVIOUS
<1>1. ASSUME NEW r \in Requests, Submit(r) PROVE StripeInv'
  BY <1>1, SubmitInv
<1>2. CASE Receive \/ Tick
  BY <1>2, ReceiveInv, TickInv
<1>3. CASE Destage
  BY <1>3, TakeInv, LoadPolicyInv, LoadPolicyFailsInv, CreateStripeInv, PersistInv, FinishInv
     DEF Destage
<1>4. ASSUME NEW v \in Volumes, sync_from_crds(v) PROVE StripeInv'
  BY <1>4, SyncInv
<1>5. CASE Restart
  BY <1>5, RestartInv
<1>6. CASE UNCHANGED vars
  <2>1. UNCHANGED <<dry_run, channel, pending, batch, job, metadata, history>>
    BY <1>6 DEF vars, queues
  <2>2. HeldInv'
    BY <2>1 DEF StripeInv, RequestsInv, HeldInv, history
  <2>3. /\ channel' \in Seq(Numbers) /\ pending' \in Seq(Numbers) /\ batch' \in Seq(Numbers)
        /\ Len(channel') <= ChannelCap /\ Len(batch') <= BatchSize
    BY <2>1 DEF StripeInv, RequestsInv, QueuesInv
  <2> QED
    BY <2>1, <2>2, <2>3, QueueStep
<1> QED
  BY <1>1, <1>2, <1>3, <1>4, <1>5, <1>6 DEF Next

LEMMA StripeInvIsKept == Spec => []StripeInv
<1> QED
  BY InitStripeInv, NextStripeInv, PTL DEF Spec

-----------------------------------------------------------------------------
(* Theorems.                                                               *)

\* Every request without an outcome is in exactly one of the channel, the queue, the batch
\* and the loop's hands, whatever is submitted, fails or is tried again, and through
\* restarts.
THEOREM RequestsStayInOnePlace == Spec => []RequestsAreKept
<1>1. StripeInv => RequestsAreKept
  <2> SUFFICES ASSUME StripeInv PROVE RequestsAreKept
    OBVIOUS
  <2> DEFINE last == IF job.num = NoRequest THEN <<>> ELSE <<job.num>>
  <2>1. QueuesInv /\ JobTypes /\ HeldInv
    BY DEF StripeInv, RequestsInv
  <2>2. channel \in Seq(Numbers) /\ pending \in Seq(Numbers) /\ batch \in Seq(Numbers)
    BY <2>1 DEF QueuesInv
  <2>3. /\ last \in Seq(Numbers) /\ IsInjective(last)
        /\ ToSet(last) = IF job.num = NoRequest THEN {} ELSE {job.num}
    <3>1. CASE job.num = NoRequest
      <4>1. last = <<>>
        BY <3>1
      <4> HIDE DEF last
      <4> QED
        BY <3>1, <4>1, EmptySequence
    <3>2. CASE job.num # NoRequest
      <4>1. last = <<job.num>> /\ job.num \in Numbers
        BY <3>2, <2>1 DEF JobTypes
      <4> HIDE DEF last
      <4>2. last \in Seq(Numbers) /\ DOMAIN last = {1} /\ last[1] = job.num
        BY <4>1
      <4> QED
        BY <3>2, <4>2 DEF ToSet, IsInjective
    <3> QED
      BY <3>1, <3>2
  <2> HIDE DEF last
  <2> DEFINE two == channel \o pending
             three == two \o batch
             four == three \o last
  <2>4. /\ two \in Seq(Numbers) /\ IsInjective(two)
        /\ ToSet(two) = ToSet(channel) \union ToSet(pending)
    BY <2>1, <2>2, ConcatIs DEF HeldInv
  <2> HIDE DEF two
  <2>5. /\ three \in Seq(Numbers) /\ IsInjective(three)
        /\ ToSet(three) = ToSet(channel) \union ToSet(pending) \union ToSet(batch)
    <3>1. ToSet(two) \intersect ToSet(batch) = {}
      BY <2>1, <2>4 DEF HeldInv
    <3> QED
      BY <3>1, <2>1, <2>2, <2>4, ConcatIs DEF HeldInv
  <2> HIDE DEF three
  <2>6. /\ IsInjective(four)
        /\ ToSet(four) = ToSet(channel) \union ToSet(pending) \union ToSet(batch) \union ToSet(last)
    <3>1. ToSet(three) \intersect ToSet(last) = {}
      BY <2>1, <2>3, <2>5 DEF HeldInv
    <3> QED
      BY <3>1, <2>3, <2>5, ConcatIs
  <2>7. four = channel \o pending \o batch \o (IF job.num = NoRequest THEN <<>> ELSE <<job.num>>)
    BY DEF two, three, last
  <2> HIDE DEF four
  <2>8. ToSet(four) = {n \in DOMAIN outcome : outcome[n] = "queued"}
    BY <2>1, <2>3, <2>6 DEF HeldInv
  <2> QED
    BY <2>6, <2>7, <2>8, Zenon DEF RequestsAreKept
<1> QED
  BY <1>1, StripeInvIsKept, PTL

\* A request said to have been destaged without an error is: each of its blocks is in a stripe
\* that is an object, where its address says, if its entries fill stripes without exceeding
\* them.
THEOREM DestagedStaysPersisted == Spec => []DestagedIsPersisted
<1>1. StripeInv => DestagedIsPersisted
  <2> SUFFICES ASSUME StripeInv, NEW n \in DOMAIN outcome, outcome[n] = "ok",
                      Even(submitted[n].entries), NEW b \in Blocks(submitted[n].entries)
               PROVE  \E s \in objects[submitted[n].vol] : Holds(s, b)
    BY DEF DestagedIsPersisted
  <2>1. QueuesInv /\ DoneInv /\ VolumesInv
    BY DEF StripeInv, RequestsInv, PersistedInv, MetadataInv
  <2>2. submitted[n].entries \in Seq(Entries)
    BY <2>1, NumbersAre, RequestIs
  <2>3. PICK p \in ToSet(Assembled(submitted[n].entries)) : IsIn(b, p)
    BY <2>2, AssembledHolds
  <2>4. PICK s \in objects[submitted[n].vol] : s.start = p.start /\ s.data = p.data
    BY <2>1, <2>3 DEF DoneInv, PiecesOf, IsPersisted
  <2> QED
    BY <2>3, <2>4 DEF Holds, Covers, IsIn
<1> QED
  BY <1>1, StripeInvIsKept, PTL

LEMMA StripeInvTypeOK == StripeInv => TypeOK
<1> SUFFICES ASSUME StripeInv PROVE TypeOK
  OBVIOUS
<1>1. QueuesInv /\ JobTypes /\ VolumesInv
  BY DEF StripeInv, RequestsInv, MetadataInv
<1>2. DOMAIN submitted = Numbers
  BY <1>1 DEF QueuesInv, Numbers
<1>3. \A q \in {channel, pending, batch} : q \in Seq(DOMAIN submitted)
  BY <1>1, <1>2 DEF QueuesInv
<1>4. /\ job.pc \in {"idle", "load_policy", "create_stripe", "create_crd"}
      /\ job.pc = "idle" <=> job.num = NoRequest
      /\ job.pc = "create_crd" => job.todo # <<>>
      /\ job.num # NoRequest => submitted[job.num].vol \in DOMAIN volumes
  BY <1>1 DEF JobTypes, Destaging
<1>5. ASSUME NEW v \in DOMAIN volumes
      PROVE  /\ v \in Volumes
             /\ volumes[v].next_stripe_id \in 0..stamp
             /\ \A a \in DOMAIN volumes[v].lba_map :
                  volumes[v].lba_map[a] \in DOMAIN volumes[v].stripes
             /\ \A i \in DOMAIN volumes[v].stripes :
                  volumes[v].stripes[i] \in Stripe /\ volumes[v].stripes[i].stripe_id = i
  <2>1. v \in Volumes /\ IsState(volumes[v], stamp)
    BY <1>1 DEF VolumesInv
  <2>2. \A x \in Written(stamp) : x \in Stripe
    BY DEF Written
  <2> QED
    BY <2>1, <2>2 DEF IsState
<1>6. \A v \in Volumes : objects[v] \subseteq Stripe
  BY <1>1 DEF VolumesInv, Written
<1> QED
  BY <1>1, <1>3, <1>4, <1>5, <1>6 DEF TypeOK, QueuesInv

\* A lookup finds the newest stripe, if the map leads from each start of a stripe to the
\* newest one there and stripes that overlap start at the same address.
LEMMA LookupIs ==
  ASSUME NEW state, NEW t, IsState(state, t), LeadsToNewest(state),
         NEW R, R = {state.stripes[i] : i \in DOMAIN state.stripes},
         \A x, y \in R :
           \/ x.start = y.start /\ Len(x.data) = Len(y.data)
           \/ \A i \in 1..Len(x.data) : ~Covers(y, x.start + i - 1),
         NEW s \in R, NEW i \in 1..Len(s.data), NEW b, b = s.start + i - 1
  PROVE  \E f \in find_stripe_for_lba(state, b) : Covers(f, b) /\ f.stamp >= s.stamp
<1> DEFINE starts == {a \in DOMAIN state.lba_map : a <= b}
           m == Max(starts)
           f == state.stripes[state.lba_map[m]]
<1>1. \A x \in R : /\ x.start \in Nat /\ x.stamp \in Nat /\ x.data \in Seq(Nat) /\ x.data # <<>>
                   /\ Len(x.data) \in Nat /\ Len(x.data) > 0
  <2>1. \A x \in R : x \in Written(t)
    BY DEF IsState
  <2>2. \A x \in Written(t) : x.start \in Nat /\ x.stamp \in Nat /\ x.data \in Seq(Nat) /\ x.data # <<>>
    BY DEF Written, Stripe
  <2> QED
    BY <2>1, <2>2
<1>2. b \in Nat /\ s.start <= b /\ b < s.start + Len(s.data)
  BY <1>1
<1>3. s.start \in DOMAIN state.lba_map /\ s.stamp <= state.stripes[state.lba_map[s.start]].stamp
  <2>1. PICK k \in DOMAIN state.stripes : s = state.stripes[k]
    OBVIOUS
  <2> QED
    BY <2>1 DEF LeadsToNewest
<1>4. s.start \in starts /\ starts \subseteq Int /\ \A a \in starts : a <= b
  BY <1>2, <1>3 DEF IsState
<1>5. m \in starts /\ \A a \in starts : a <= m
  <2> HIDE DEF starts
  <2>1. \E x \in starts : \A y \in starts : y <= x
    <3>1. starts \subseteq Int /\ starts # {} /\ b \in Int
      BY <1>2, <1>4
    <3> QED
      BY ONLY <3>1, <1>4, IntMax
  <2>2. \E x \in starts : \A y \in starts : x >= y
    BY <2>1, <1>4
  <2>3. Max(starts) \in starts /\ \A y \in starts : Max(starts) >= y
    BY <2>2, Zenon DEF Max
  <2> QED
    BY <2>3, <1>4
<1>6. find_stripe_for_lba(state, b) = {f}
  BY <1>4 DEF find_stripe_for_lba
<1> HIDE DEF starts, m
<1>7. m \in DOMAIN state.lba_map /\ m <= b /\ s.start <= m /\ m \in Nat
  BY <1>4, <1>5 DEF starts, IsState
<1>8. f \in R /\ f.start = m
  BY <1>7 DEF IsState, LeadsToNewest
<1> HIDE DEF f
<1>9. Covers(f, m)
  BY <1>1, <1>7, <1>8 DEF Covers
<1>10. s.start = f.start /\ Len(s.data) = Len(f.data)
  <2>1. m - s.start + 1 \in 1..Len(s.data) /\ s.start + (m - s.start + 1) - 1 = m
    <3>1. /\ s.start \in Nat /\ Len(s.data) \in Nat /\ b \in Nat /\ m \in Nat
          /\ s.start <= m /\ m <= b /\ b < s.start + Len(s.data)
      BY <1>1, <1>2, <1>7
    <3> QED
      BY ONLY <3>1
  <2>2. ~(\A k \in 1..Len(s.data) : ~Covers(f, s.start + k - 1))
    BY <2>1, <1>9
  <2> QED
    BY <2>2, <1>8
<1>11. Covers(f, b)
  BY <1>1, <1>2, <1>8, <1>10 DEF Covers
<1>12. f.stamp >= s.stamp
  BY <1>1, <1>3, <1>8, <1>10 DEF f
<1> QED
  BY <1>6, <1>11, <1>12

\* The metadata is well formed, gives no id twice before a restart, and as long as ids are
\* unique and names in the order of age, leads from each block to the newest stripe with it,
\* whatever is rewritten, fails or is loaded again from the objects.
THEOREM StripesStayFound == Spec => []StripesAreFound
<1>1. StripeInv => IdsAreUniqueUntilRestart
  <2> SUFFICES ASSUME StripeInv, restarts = 0, NEW v \in Volumes,
                      NEW s \in objects[v] \union (IF v \in DOMAIN volumes THEN recorded(v) ELSE {}),
                      NEW t \in objects[v] \union (IF v \in DOMAIN volumes THEN recorded(v) ELSE {}),
                      s.stripe_id = t.stripe_id
               PROVE  s = t
    BY DEF IdsAreUniqueUntilRestart, StripeIdsAreUnique, IdsAreUniqueIn
  <2>1. IdsInv /\ VolumesInv
    BY DEF StripeInv, MetadataInv
  <2>2. CASE v \in DOMAIN volumes
    <3>1. s \in recorded(v) /\ t \in recorded(v)
      BY <2>1, <2>2 DEF IdsInv
    <3>2. \A i \in DOMAIN volumes[v].stripes : volumes[v].stripes[i].stripe_id = i
      BY <2>1, <2>2 DEF VolumesInv, IsState
    <3> QED
      BY <3>1, <3>2 DEF recorded
  <2>3. CASE v \notin DOMAIN volumes
    BY <2>1, <2>3 DEF IdsInv
  <2> QED
    BY <2>2, <2>3
<1>2. StripeInv => LookupFindsNewest
  <2> SUFFICES ASSUME StripeInv, NEW v \in DOMAIN volumes, IdsAreUniqueIn(v), ListedByAge(v),
                      \A s, t \in recorded(v) :
                        \/ s.start = t.start /\ Len(s.data) = Len(t.data)
                        \/ \A i \in 1..Len(s.data) : ~Covers(t, s.start + i - 1),
                      NEW s \in recorded(v), NEW i \in 1..Len(s.data)
               PROVE  \E f \in find_stripe_for_lba(volumes[v], s.start + i - 1) :
                        Covers(f, s.start + i - 1) /\ f.stamp >= s.stamp
    BY DEF LookupFindsNewest
  <2>1. IsState(volumes[v], stamp) /\ LeadsToNewest(volumes[v])
    BY DEF StripeInv, MetadataInv, VolumesInv, MapInv
  <2>2. recorded(v) = {volumes[v].stripes[k] : k \in DOMAIN volumes[v].stripes}
    BY DEF recorded
  <2> QED
    BY <2>1, <2>2, LookupIs
<1>3. StripeInv => StripesAreFound
  BY <1>1, <1>2, StripeInvTypeOK DEF StripesAreFound
<1> QED
  BY <1>3, StripeInvIsKept, PTL
=============================================================================
