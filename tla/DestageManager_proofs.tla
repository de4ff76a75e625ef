----------------------- MODULE DestageManager_proofs -----------------------
(***************************************************************************)
(* Proofs about the metadata engine and what drives it, in two parts.      *)
(*   - MetadataEngine, for every number of blocks, every set of ranges and *)
(*     every bound.                                                        *)
(*   - DestageManager on top of it, for every set of writes, volumes and   *)
(*     tasks, every size of stripes, number of shards and permits, and     *)
(*     every bound.                                                        *)
(***************************************************************************)
EXTENDS DestageManager, Integers, FiniteSetTheorems, NaturalsInduction, WellFoundedInduction,
        SequenceTheorems, TLAPS

-----------------------------------------------------------------------------
(* Numbers.                                                                *)

\* A set of naturals that is not empty has a least element.
LEMMA NatMin ==
  ASSUME NEW T, T \subseteq Nat, T # {}
  PROVE  \E x \in T : \A y \in T : x <= y
<1>1. \E x \in T : \A y \in T : ~ (<<y, x>> \in OpToRel(<, Nat))
  BY NatLessThanWellFounded, WFMin
<1>2. \A x, y \in Nat : y < x => <<y, x>> \in OpToRel(<, Nat)
  BY Zenon DEF OpToRel
<1>3. \E R : /\ \E x \in T : \A y \in T : <<y, x>> \notin R
             /\ \A x, y \in Nat : y < x => <<y, x>> \in R
  BY <1>1, <1>2, Zenon
<1>4. PICK R : /\ \E x \in T : \A y \in T : <<y, x>> \notin R
               /\ \A x, y \in Nat : y < x => <<y, x>> \in R
  BY <1>3, Zenon
<1>5. PICK x \in T : \A y \in T : <<y, x>> \notin R
  BY <1>4, Zenon
<1>6. ASSUME NEW y \in T PROVE ~(y < x)
  BY <1>4, <1>5, Zenon
<1>7. ASSUME NEW y \in T PROVE x <= y
  <2>1. x \in Nat /\ y \in Nat /\ ~(y < x)
    BY <1>6
  <2> QED
    BY <2>1
<1> QED
  BY <1>7

\* A set of integers that has elements and an upper bound has a greatest element.
LEMMA IntMax ==
  ASSUME NEW T, T \subseteq Int, T # {}, NEW b \in Int, \A x \in T : x <= b
  PROVE  \E x \in T : \A y \in T : y <= x
<1> DEFINE U == {n \in Nat : b - n \in T}
<1>1. U # {} /\ U \subseteq Nat
  <2>1. PICK x \in T : TRUE
    OBVIOUS
  <2>2. b - x \in Nat /\ b - (b - x) = x
    BY <2>1
  <2> QED
    BY <2>1, <2>2
<1> HIDE DEF U
<1>2. PICK n \in U : \A m \in U : n <= m
  BY <1>1, NatMin
<1>3. n \in Nat /\ b - n \in T
  BY <1>2 DEF U
<1>4. ASSUME NEW y \in T PROVE y <= b - n
  <2>1. y \in Int /\ y <= b
    OBVIOUS
  <2>2. b - y \in Nat /\ b - (b - y) = y
    BY <2>1
  <2>3. b - y \in U
    BY <2>2 DEF U
  <2>4. n <= b - y
    BY <2>3, <1>2
  <2> QED
    BY <2>1, <2>4, <1>3
<1> QED
  BY <1>3, <1>4

\* Induction, over the numbers that have a property.
LEMMA NatInd ==
  ASSUME NEW T, T \subseteq Nat, 0 \in T, \A n \in T : n + 1 \in T
  PROVE  T = Nat
<1> SUFFICES ASSUME Nat \ T # {} PROVE FALSE
  OBVIOUS
<1>1. PICK x \in Nat \ T : \A y \in Nat \ T : x <= y
  BY NatMin
<1>2. x # 0 /\ x - 1 \in Nat /\ x = (x - 1) + 1 /\ ~(x <= x - 1)
  BY <1>1
<1>3. x - 1 \in T
  BY <1>1, <1>2
<1> QED
  BY <1>1, <1>2, <1>3

-----------------------------------------------------------------------------
(* Replay.                                                                 *)

\* The functions that replay is defined by, for the first N entries of a log.
IsReplay(f, map, log, N) ==
  f = [n \in 0..N |-> IF n = 0 THEN map ELSE apply_wal_entry(f[n - 1], log[n])]

LEMMA ReplayExists ==
  ASSUME NEW map, NEW log, NEW N \in Nat
  PROVE  \E f : IsReplay(f, map, log, N)
<1> DEFINE T == {k \in Nat : \E f : IsReplay(f, map, log, k)}
<1>1. 0 \in T
  <2>1. IsReplay([n \in 0..0 |-> map], map, log, 0)
    BY DEF IsReplay
  <2> QED
    BY <2>1
<1>2. ASSUME NEW k \in T PROVE k + 1 \in T
  <2>1. PICK f : IsReplay(f, map, log, k)
    OBVIOUS
  <2> DEFINE g == [n \in 0..(k + 1) |-> IF n <= k THEN f[n] ELSE apply_wal_entry(f[k], log[k + 1])]
  <2>2. ASSUME NEW n \in 0..(k + 1)
        PROVE  g[n] = IF n = 0 THEN map ELSE apply_wal_entry(g[n - 1], log[n])
    <3>1. CASE n = 0
      BY <3>1, <2>1 DEF IsReplay
    <3>2. CASE n # 0 /\ n <= k
      BY <3>2, <2>1 DEF IsReplay
    <3>3. CASE n = k + 1
      BY <3>3
    <3> QED
      BY <3>1, <3>2, <3>3
  <2>3. IsReplay(g, map, log, k + 1)
    BY <2>2 DEF IsReplay
  <2> HIDE DEF g
  <2> QED
    BY <2>3
<1>3. T \subseteq Nat
  OBVIOUS
<1> HIDE DEF T
<1>4. N \in T
  BY <1>1, <1>2, <1>3, NatInd
<1> QED
  BY <1>4 DEF T

\* What replaying N entries does, an entry at a time.
Replays(f, map, log, N) ==
  f[0] = map /\ \A n \in 1..N : f[n] = apply_wal_entry(f[n - 1], log[n])

LEMMA ReplayIs ==
  ASSUME NEW map, NEW log, NEW N, N \in Nat, N = Len(log)
  PROVE  \E f : Replays(f, map, log, N) /\ replay(map, log) = f[N]
<1>1. \E f : IsReplay(f, map, log, N)
  BY ReplayExists
<1>2. \E f : f = [n \in 0..N |-> IF n = 0 THEN map ELSE apply_wal_entry(f[n - 1], log[n])]
  BY <1>1, Zenon DEF IsReplay
<1> DEFINE after[n \in 0..N] == IF n = 0 THEN map ELSE apply_wal_entry(after[n - 1], log[n])
<1>3. after = [n \in 0..N |-> IF n = 0 THEN map ELSE apply_wal_entry(after[n - 1], log[n])]
  BY <1>2, Zenon
<1>4. replay(map, log) = after[N]
  BY Zenon DEF replay
<1> HIDE DEF after
<1>5. Replays(after, map, log, N)
  BY <1>3 DEF Replays
<1> QED
  BY <1>4, <1>5

LEMMA ReplayNothing ==
  ASSUME NEW map
  PROVE  replay(map, <<>>) = map
<1>1. 0 \in Nat /\ 0 = Len(<<>>)
  OBVIOUS
<1>2. PICK f : Replays(f, map, <<>>, 0) /\ replay(map, <<>>) = f[0]
  BY <1>1, ReplayIs
<1> QED
  BY <1>2 DEF Replays

\* Replaying a log with one more entry applies that entry last.
LEMMA ReplayAppend ==
  ASSUME NEW map, NEW S, NEW log \in Seq(S), NEW e \in S
  PROVE  replay(map, Append(log, e)) = apply_wal_entry(replay(map, log), e)
<1> DEFINE more == Append(log, e)
           N == Len(log)
<1>1. /\ N \in Nat /\ N + 1 \in Nat /\ N + 1 = Len(more) /\ more[N + 1] = e
      /\ \A n \in 1..N : more[n] = log[n]
  OBVIOUS
<1>2. PICK f : Replays(f, map, log, N) /\ replay(map, log) = f[N]
  BY <1>1, ReplayIs
<1> HIDE DEF more, N
<1>3. PICK g : Replays(g, map, more, N + 1) /\ replay(map, more) = g[N + 1]
  BY <1>1, ReplayIs
<1> DEFINE T == {n \in Nat : n <= N => f[n] = g[n]}
<1>4. 0 \in T
  BY <1>1, <1>2, <1>3 DEF Replays
<1>5. ASSUME NEW n \in T PROVE n + 1 \in T
  <2> SUFFICES ASSUME n + 1 <= N PROVE f[n + 1] = g[n + 1]
    OBVIOUS
  <2>1. n \in Nat /\ (n + 1) - 1 = n /\ n + 1 \in 1..(N + 1) /\ n + 1 \in 1..N /\ n <= N
    BY <1>1
  <2>2. f[n + 1] = apply_wal_entry(f[n], log[n + 1])
    BY <1>2, <2>1 DEF Replays
  <2>3. g[n + 1] = apply_wal_entry(g[n], more[n + 1])
    BY <1>3, <2>1 DEF Replays
  <2> QED
    BY <2>1, <2>2, <2>3, <1>1
<1>6. T \subseteq Nat
  OBVIOUS
<1> HIDE DEF T
<1>7. N \in T
  BY <1>1, <1>4, <1>5, <1>6, NatInd
<1>8. f[N] = g[N]
  BY <1>1, <1>7 DEF T
<1>9. g[N + 1] = apply_wal_entry(g[N], more[N + 1])
  <2>1. (N + 1) - 1 = N /\ N + 1 \in 1..(N + 1)
    BY <1>1
  <2> QED
    BY <1>3, <2>1 DEF Replays
<1> QED
  BY <1>1, <1>2, <1>3, <1>8, <1>9 DEF more

-----------------------------------------------------------------------------
(* The entries of a log after a sequence number.                           *)

keep(kept, entry, lsn) == IF entry.lsn > lsn THEN Append(kept, entry) ELSE kept

\* The functions that entries_after is defined by, for the first N entries of a log.
IsKept(f, log, lsn, N) ==
  f = [n \in 0..N |-> IF n = 0 THEN <<>> ELSE keep(f[n - 1], log[n], lsn)]

LEMMA KeptExists ==
  ASSUME NEW log, NEW lsn, NEW N \in Nat
  PROVE  \E f : IsKept(f, log, lsn, N)
<1> DEFINE T == {k \in Nat : \E f : IsKept(f, log, lsn, k)}
<1>1. 0 \in T
  <2>1. IsKept([n \in 0..0 |-> <<>>], log, lsn, 0)
    BY DEF IsKept
  <2> QED
    BY <2>1
<1>2. ASSUME NEW k \in T PROVE k + 1 \in T
  <2>1. PICK f : IsKept(f, log, lsn, k)
    OBVIOUS
  <2> DEFINE g == [n \in 0..(k + 1) |-> IF n <= k THEN f[n] ELSE keep(f[k], log[k + 1], lsn)]
  <2>2. ASSUME NEW n \in 0..(k + 1)
        PROVE  g[n] = IF n = 0 THEN <<>> ELSE keep(g[n - 1], log[n], lsn)
    <3>1. CASE n = 0
      BY <3>1, <2>1 DEF IsKept
    <3>2. CASE n # 0 /\ n <= k
      BY <3>2, <2>1 DEF IsKept
    <3>3. CASE n = k + 1
      BY <3>3
    <3> QED
      BY <3>1, <3>2, <3>3
  <2>3. IsKept(g, log, lsn, k + 1)
    BY <2>2 DEF IsKept
  <2> HIDE DEF g
  <2> QED
    BY <2>3
<1>3. T \subseteq Nat
  OBVIOUS
<1> HIDE DEF T
<1>4. N \in T
  BY <1>1, <1>2, <1>3, NatInd
<1> QED
  BY <1>4 DEF T

\* What going through N entries does, an entry at a time.
Keeps(f, log, lsn, N) ==
  f[0] = <<>> /\ \A n \in 1..N : f[n] = keep(f[n - 1], log[n], lsn)

LEMMA KeptIs ==
  ASSUME NEW log, NEW lsn, NEW N, N \in Nat, N = Len(log)
  PROVE  \E f : Keeps(f, log, lsn, N) /\ entries_after(log, lsn) = f[N]
<1>1. \E f : IsKept(f, log, lsn, N)
  BY KeptExists
<1>2. \E f : f = [n \in 0..N |->
                  IF n = 0 THEN <<>>
                  ELSE IF log[n].lsn > lsn THEN Append(f[n - 1], log[n]) ELSE f[n - 1]]
  BY <1>1, Zenon DEF IsKept, keep
<1> DEFINE kept[n \in 0..N] ==
             IF n = 0 THEN <<>>
             ELSE IF log[n].lsn > lsn THEN Append(kept[n - 1], log[n]) ELSE kept[n - 1]
<1>3. kept = [n \in 0..N |->
                IF n = 0 THEN <<>>
                ELSE IF log[n].lsn > lsn THEN Append(kept[n - 1], log[n]) ELSE kept[n - 1]]
  BY <1>2, Zenon
<1>4. entries_after(log, lsn) = kept[N]
  BY Zenon DEF entries_after
<1> HIDE DEF kept
<1>5. kept = [n \in 0..N |-> IF n = 0 THEN <<>> ELSE keep(kept[n - 1], log[n], lsn)]
  BY <1>3, Zenon DEF keep
<1>6. Keeps(kept, log, lsn, N)
  BY <1>5 DEF Keeps
<1> QED
  BY <1>4, <1>6

LEMMA NothingAfter ==
  ASSUME NEW lsn
  PROVE  entries_after(<<>>, lsn) = <<>>
<1>1. 0 \in Nat /\ 0 = Len(<<>>)
  OBVIOUS
<1>2. PICK f : Keeps(f, <<>>, lsn, 0) /\ entries_after(<<>>, lsn) = f[0]
  BY <1>1, KeptIs
<1> QED
  BY <1>2 DEF Keeps

\* The entries after a number are in a log of entries as well.
LEMMA AfterType ==
  ASSUME NEW S, NEW log \in Seq(S), NEW lsn
  PROVE  entries_after(log, lsn) \in Seq(S)
<1> DEFINE N == Len(log)
<1>1. N \in Nat /\ N = Len(log) /\ \A n \in 1..N : log[n] \in S
  OBVIOUS
<1>2. PICK f : Keeps(f, log, lsn, N) /\ entries_after(log, lsn) = f[N]
  BY <1>1, KeptIs
<1> HIDE DEF N
<1> DEFINE T == {n \in Nat : n <= N => f[n] \in Seq(S)}
<1>3. 0 \in T
  <2>1. f[0] = <<>> /\ <<>> \in Seq(S)
    BY <1>2 DEF Keeps
  <2> QED
    BY <2>1
<1>4. ASSUME NEW n \in T PROVE n + 1 \in T
  <2> SUFFICES ASSUME n + 1 <= N PROVE f[n + 1] \in Seq(S)
    OBVIOUS
  <2>1. n \in Nat /\ (n + 1) - 1 = n /\ n + 1 \in 1..N /\ n <= N
    BY <1>1
  <2>2. f[n + 1] = keep(f[n], log[n + 1], lsn)
    BY <1>2, <2>1 DEF Keeps
  <2>3. f[n] \in Seq(S) /\ log[n + 1] \in S
    BY <2>1, <1>1
  <2> QED
    BY <2>2, <2>3 DEF keep
<1>5. T \subseteq Nat
  OBVIOUS
<1> HIDE DEF T
<1>6. N \in T
  BY <1>1, <1>3, <1>4, <1>5, NatInd
<1> QED
  BY <1>1, <1>2, <1>6 DEF T

\* A log whose entries are not after a number has none after it.
LEMMA NoneAfter ==
  ASSUME NEW S, NEW log \in Seq(S), NEW lsn, \A n \in 1..Len(log) : ~(log[n].lsn > lsn)
  PROVE  entries_after(log, lsn) = <<>>
<1> DEFINE N == Len(log)
<1>1. N \in Nat /\ N = Len(log) /\ \A n \in 1..N : ~(log[n].lsn > lsn)
  OBVIOUS
<1>2. PICK f : Keeps(f, log, lsn, N) /\ entries_after(log, lsn) = f[N]
  BY <1>1, KeptIs
<1> HIDE DEF N
<1> DEFINE T == {n \in Nat : n <= N => f[n] = <<>>}
<1>3. 0 \in T
  BY <1>2 DEF Keeps
<1>4. ASSUME NEW n \in T PROVE n + 1 \in T
  <2> SUFFICES ASSUME n + 1 <= N PROVE f[n + 1] = <<>>
    OBVIOUS
  <2>1. n \in Nat /\ (n + 1) - 1 = n /\ n + 1 \in 1..N /\ n <= N
    BY <1>1
  <2>2. f[n + 1] = keep(f[n], log[n + 1], lsn)
    BY <1>2, <2>1 DEF Keeps
  <2>3. f[n] = <<>> /\ ~(log[n + 1].lsn > lsn)
    BY <2>1, <1>1
  <2> QED
    BY <2>2, <2>3 DEF keep
<1>5. T \subseteq Nat
  OBVIOUS
<1> HIDE DEF T
<1>6. N \in T
  BY <1>1, <1>3, <1>4, <1>5, NatInd
<1> QED
  BY <1>1, <1>2, <1>6 DEF T

\* One more entry is kept or not, after those that are kept.
LEMMA AfterAppend ==
  ASSUME NEW lsn, NEW S, NEW log \in Seq(S), NEW e \in S
  PROVE  entries_after(Append(log, e), lsn) = keep(entries_after(log, lsn), e, lsn)
<1> DEFINE more == Append(log, e)
           N == Len(log)
<1>1. /\ N \in Nat /\ N + 1 \in Nat /\ N + 1 = Len(more) /\ more[N + 1] = e
      /\ \A n \in 1..N : more[n] = log[n]
  OBVIOUS
<1>2. PICK f : Keeps(f, log, lsn, N) /\ entries_after(log, lsn) = f[N]
  BY <1>1, KeptIs
<1> HIDE DEF more, N
<1>3. PICK g : Keeps(g, more, lsn, N + 1) /\ entries_after(more, lsn) = g[N + 1]
  BY <1>1, KeptIs
<1> DEFINE T == {n \in Nat : n <= N => f[n] = g[n]}
<1>4. 0 \in T
  BY <1>1, <1>2, <1>3 DEF Keeps
<1>5. ASSUME NEW n \in T PROVE n + 1 \in T
  <2> SUFFICES ASSUME n + 1 <= N PROVE f[n + 1] = g[n + 1]
    OBVIOUS
  <2>1. n \in Nat /\ (n + 1) - 1 = n /\ n + 1 \in 1..(N + 1) /\ n + 1 \in 1..N /\ n <= N
    BY <1>1
  <2>2. f[n + 1] = keep(f[n], log[n + 1], lsn)
    BY <1>2, <2>1 DEF Keeps
  <2>3. g[n + 1] = keep(g[n], more[n + 1], lsn)
    BY <1>3, <2>1 DEF Keeps
  <2> QED
    BY <2>1, <2>2, <2>3, <1>1
<1>6. T \subseteq Nat
  OBVIOUS
<1> HIDE DEF T
<1>7. N \in T
  BY <1>1, <1>4, <1>5, <1>6, NatInd
<1>8. f[N] = g[N]
  BY <1>1, <1>7 DEF T
<1>9. g[N + 1] = keep(g[N], more[N + 1], lsn)
  <2>1. (N + 1) - 1 = N /\ N + 1 \in 1..(N + 1)
    BY <1>1
  <2> QED
    BY <1>3, <2>1 DEF Keeps
<1> QED
  BY <1>1, <1>2, <1>3, <1>8, <1>9 DEF more

-----------------------------------------------------------------------------
(* Maps whose ranges do not overlap.                                       *)

Maps == [LbaRange -> Locations \union {NoLoc}]

Disjoint(map) == \A r, s \in Keys(map) : overlaps(r, s) => r = s

LEMMA RangeType ==
  /\ \A r \in LbaRange : r.start \in Nat /\ r.end \in Nat /\ r.start < r.end /\ r.end <= Size
  /\ \A r, s \in LbaRange : r.start = s.start /\ r.end = s.end => r = s
  /\ \A m, n \in Nat : m < n /\ n <= Size => [start |-> m, end |-> n] \in LbaRange
BY EngineAssumption DEF LbaRange

\* Of ranges there is a last one, by start and then by end.
LEMMA GreatestExists ==
  ASSUME NEW S, S \subseteq LbaRange, S # {}
  PROVE  Greatest(S) \in S /\ \A s \in S : AtMost(s, Greatest(S))
<1> DEFINE T == {r.start : r \in S}
<1>1. T \subseteq Int /\ T # {} /\ Size \in Int /\ \A x \in T : x <= Size
  BY RangeType, EngineAssumption
<1> HIDE DEF T
<1>2. PICK x \in T : \A y \in T : y <= x
  BY <1>1, IntMax
<1> DEFINE U == {r.end : r \in {s \in S : s.start = x}}
<1>3. U \subseteq Int /\ U # {} /\ \A y \in U : y <= Size
  BY <1>2, RangeType DEF T
<1> HIDE DEF U
<1>4. PICK e \in U : \A y \in U : y <= e
  BY <1>1, <1>3, IntMax
<1>5. PICK r \in S : r.start = x /\ r.end = e
  BY <1>4 DEF U
<1>6. ASSUME NEW s \in S PROVE AtMost(s, r)
  <2>1. CASE s.start = x
    <3>1. s.end <= e
      BY <2>1, <1>4 DEF U
    <3> QED
      BY <2>1, <3>1, <1>5 DEF AtMost
  <2>2. CASE s.start # x
    <3>1. s.start <= x /\ s.start \in Nat /\ x \in Int
      BY <1>1, <1>2, RangeType DEF T
    <3> QED
      BY <2>2, <3>1, <1>5 DEF AtMost
  <2> QED
    BY <2>1, <2>2
<1> QED
  BY <1>6 DEF Greatest

\* When ranges do not overlap, lookup finds the range that contains the block.
LEMMA LookupIs ==
  ASSUME NEW map, Disjoint(map), NEW b \in Lbas
  PROVE  /\ \A k \in Keys(map) : contains(k, b) => lookup(map, b) = map[k]
         /\ (\A k \in Keys(map) : ~contains(k, b)) => lookup(map, b) = NoLoc
<1> DEFINE below == {r \in Keys(map) : r.start <= b}
           last == Greatest(below)
<1>1. b \in Nat
  BY EngineAssumption DEF Lbas
<1>2. Keys(map) \subseteq LbaRange
  BY DEF Keys
<1>3. lookup(map, b) = IF below # {} /\ contains(last, b) THEN map[last] ELSE NoLoc
  BY DEF lookup
<1>4. below # {} => last \in below /\ \A s \in below : AtMost(s, last)
  BY <1>2, GreatestExists
<1> HIDE DEF last
<1>5. ASSUME NEW k \in Keys(map), contains(k, b) PROVE lookup(map, b) = map[k]
  <2>1. k \in below
    BY <1>5, <1>1, <1>2, RangeType DEF contains
  <2>2. last \in Keys(map) /\ last.start <= b /\ AtMost(k, last)
    BY <2>1, <1>4
  <2>3. overlaps(k, last)
    BY <2>2, <1>5, <1>1, <1>2, RangeType DEF AtMost, contains, overlaps
  <2>4. k = last
    BY <2>2, <2>3 DEF Disjoint
  <2> QED
    BY <2>1, <2>4, <1>3, <1>5
<1>6. ASSUME \A k \in Keys(map) : ~contains(k, b) PROVE lookup(map, b) = NoLoc
  BY <1>3, <1>4, <1>6
<1> QED
  BY <1>5, <1>6

\* A lookup of a range finds the location that a lookup of the block finds, and no other.
LEMMA RangeLookupIs ==
  ASSUME NEW map, Disjoint(map), NEW query \in LbaRange, NEW b \in Lbas, contains(query, b)
  PROVE  {map[r] : r \in {k \in lookup_range(map, query) : contains(k, b)}}
           = {lookup(map, b)} \ {NoLoc}
<1> DEFINE found == {k \in lookup_range(map, query) : contains(k, b)}
<1>1. b \in Nat
  BY EngineAssumption DEF Lbas
<1>2. Keys(map) \subseteq LbaRange /\ \A k \in Keys(map) : map[k] # NoLoc
  BY DEF Keys
<1>3. found = {k \in Keys(map) : contains(k, b)}
  <2>1. ASSUME NEW k \in Keys(map), contains(k, b) PROVE k \in lookup_range(map, query)
    BY <2>1, <1>1, <1>2, RangeType DEF lookup_range, contains, overlaps
  <2>2. lookup_range(map, query) \subseteq Keys(map)
    BY DEF lookup_range
  <2> QED
    BY <2>1, <2>2
<1> HIDE DEF found
<1>4. ASSUME \E k \in Keys(map) : contains(k, b)
      PROVE  {map[r] : r \in found} = {lookup(map, b)} \ {NoLoc}
  <2>1. PICK k \in Keys(map) : contains(k, b)
    BY <1>4
  <2>2. ASSUME NEW m \in found PROVE map[m] = lookup(map, b)
    BY <1>3, LookupIs
  <2>3. k \in found /\ map[k] # NoLoc
    BY <2>1, <1>2, <1>3
  <2> QED
    BY <2>2, <2>3
<1>5. ASSUME \A k \in Keys(map) : ~contains(k, b)
      PROVE  {map[r] : r \in found} = {lookup(map, b)} \ {NoLoc}
  <2>1. lookup(map, b) = NoLoc /\ found = {}
    BY <1>5, <1>3, LookupIs
  <2> QED
    BY <2>1
<1>6. {map[r] : r \in found} = {lookup(map, b)} \ {NoLoc}
  BY <1>4, <1>5
<1> QED
  BY <1>6 DEF found

\* Nothing is found in an empty map.
LEMMA EmptyMapIs ==
  EmptyMap \in Maps /\ Keys(EmptyMap) = {} /\ Disjoint(EmptyMap)
    /\ \A b \in Lbas : lookup(EmptyMap, b) = NoLoc
<1>1. EmptyMap \in Maps /\ Keys(EmptyMap) = {}
  BY DEF EmptyMap, Maps, Keys
<1>2. Disjoint(EmptyMap)
  BY <1>1 DEF Disjoint
<1> QED
  BY <1>1, <1>2, LookupIs

\* A key is given another location, or is removed.
LEMMA ReplaceIs ==
  ASSUME NEW map \in Maps, Disjoint(map), NEW r \in LbaRange,
         NEW loc \in Locations \union {NoLoc},
         r \in Keys(map) \/ (\A k \in Keys(map) : ~overlaps(k, r))
  PROVE  LET new == [map EXCEPT ![r] = loc]
         IN  /\ new \in Maps /\ Disjoint(new) /\ Keys(new) \subseteq Keys(map) \union {r}
             /\ \A b \in Lbas : lookup(new, b) = IF contains(r, b) THEN loc ELSE lookup(map, b)
<1> DEFINE new == [map EXCEPT ![r] = loc]
<1>1. new \in Maps /\ new[r] = loc /\ \A s \in LbaRange : s # r => new[s] = map[s]
  BY DEF Maps
<1> HIDE DEF new
<1>2. /\ Keys(map) \subseteq LbaRange
      /\ \A s \in LbaRange : s # r => (s \in Keys(new) <=> s \in Keys(map))
      /\ r \in Keys(new) <=> loc # NoLoc
      /\ Keys(new) \subseteq Keys(map) \union {r}
  BY <1>1 DEF Keys
<1>3. Disjoint(new)
  <2>1. \A s \in Keys(map) : overlaps(s, r) \/ overlaps(r, s) => s = r
    BY <1>2, RangeType DEF Disjoint, overlaps
  <2> QED
    BY <2>1, <1>2 DEF Disjoint
<1>4. ASSUME NEW b \in Lbas
      PROVE  lookup(new, b) = IF contains(r, b) THEN loc ELSE lookup(map, b)
  <2> b \in Nat
    BY EngineAssumption DEF Lbas
  <2>1. CASE contains(r, b)
    <3>1. ASSUME NEW s \in Keys(new), contains(s, b) PROVE s = r
      <4>1. s = r \/ s \in Keys(map)
        BY <1>2
      <4>2. overlaps(s, r) /\ overlaps(r, s)
        BY <4>1, <3>1, <2>1, <1>2, RangeType DEF contains, overlaps
      <4> QED
        BY <4>1, <4>2 DEF Disjoint
    <3>2. CASE loc # NoLoc
      BY <3>2, <2>1, <1>1, <1>2, <1>3, LookupIs
    <3>3. CASE loc = NoLoc
      BY <3>1, <3>3, <2>1, <1>2, <1>3, LookupIs
    <3> QED
      BY <3>2, <3>3
  <2>2. CASE ~contains(r, b)
    <3>1. \A s \in LbaRange : contains(s, b) =>
            (s \in Keys(new) <=> s \in Keys(map)) /\ new[s] = map[s]
      BY <2>2, <1>1, <1>2
    <3>2. CASE \E s \in Keys(map) : contains(s, b)
      BY <3>1, <3>2, <2>2, <1>2, <1>3, LookupIs
    <3>3. CASE \A s \in Keys(map) : ~contains(s, b)
      <4>1. Keys(new) \subseteq LbaRange
        BY DEF Keys
      <4>2. \A s \in Keys(new) : ~contains(s, b)
        BY <3>1, <3>3, <4>1
      <4> QED
        BY <4>2, <3>3, <2>2, <1>3, LookupIs
    <3> QED
      BY <3>2, <3>3
  <2> QED
    BY <2>1, <2>2
<1> QED
  BY <1>1, <1>2, <1>3, <1>4 DEF new

-----------------------------------------------------------------------------
(* Splitting.                                                              *)

\* The range s is what r leaves of the range o: all of it, or the part before or
\* after r.
IsPart(s, o, r) ==
  \/ s = o /\ ~overlaps(o, r)
  \/ overlaps(o, r) /\ s.start = o.start /\ s.end = r.start
  \/ overlaps(o, r) /\ s.start = r.end /\ s.end = o.end

\* A key that is left of the map is a part of an old key, at its location.
LEMMA PartsOfKeys ==
  ASSUME NEW map \in Maps, Disjoint(map), NEW r \in LbaRange,
         NEW s \in Keys(handle_overlaps(map, r))
  PROVE  ~overlaps(s, r) /\ \E o \in Keys(map) : IsPart(s, o, r) /\ handle_overlaps(map, r)[s] = map[o]
<1> DEFINE mid == handle_overlaps(map, r)
           B == LeavesBefore(map, r, s)
           A == LeavesAfter(map, r, s)
<1>1. s \in LbaRange /\ mid[s] # NoLoc
  BY DEF Keys
<1>2. mid[s] = IF overlaps(s, r) THEN NoLoc
                ELSE IF B # {} THEN map[Greatest(B)]
                ELSE IF A # {} THEN map[Greatest(A)] ELSE map[s]
  BY <1>1 DEF handle_overlaps
<1> HIDE DEF mid
<1>3. ~overlaps(s, r)
  BY <1>1, <1>2 DEF overlaps
<1>4. B \subseteq Keys(map) /\ A \subseteq Keys(map) /\ Keys(map) \subseteq LbaRange
  BY DEF LeavesBefore, LeavesAfter, Keys
<1>5. CASE B # {}
  <2>1. Greatest(B) \in B
    BY <1>4, <1>5, GreatestExists
  <2>2. IsPart(s, Greatest(B), r)
    BY <2>1 DEF LeavesBefore, IsPart
  <2>3. mid[s] = map[Greatest(B)]
    BY <1>2, <1>3, <1>5 DEF overlaps
  <2> QED
    BY <1>3, <1>4, <2>1, <2>2, <2>3 DEF mid
<1>6. CASE B = {} /\ A # {}
  <2>1. Greatest(A) \in A
    BY <1>4, <1>6, GreatestExists
  <2>2. IsPart(s, Greatest(A), r)
    BY <2>1 DEF LeavesAfter, IsPart
  <2>3. mid[s] = map[Greatest(A)]
    BY <1>2, <1>3, <1>6
  <2> QED
    BY <1>3, <1>4, <2>1, <2>2, <2>3 DEF mid
<1>7. CASE B = {} /\ A = {}
  <2>1. mid[s] = map[s]
    BY <1>2, <1>3, <1>7
  <2>2. s \in Keys(map) /\ IsPart(s, s, r)
    BY <2>1, <1>1, <1>3 DEF Keys, IsPart
  <2> QED
    BY <1>3, <2>1, <2>2 DEF mid
<1> QED
  BY <1>5, <1>6, <1>7

\* What r does not cover of an old key is covered by a key that is left.
LEMMA PartsAreKept ==
  ASSUME NEW map \in Maps, Disjoint(map), NEW r \in LbaRange, NEW o \in Keys(map),
         NEW b \in Lbas, contains(o, b), ~contains(r, b)
  PROVE  \E s \in Keys(handle_overlaps(map, r)) : contains(s, b)
<1> DEFINE mid == handle_overlaps(map, r)
<1>1. b \in Nat /\ o \in LbaRange /\ Keys(map) \subseteq LbaRange /\ \A k \in Keys(map) : map[k] # NoLoc
  BY EngineAssumption DEF Lbas, Keys
<1>2. ASSUME NEW s \in LbaRange
      PROVE  mid[s] = IF overlaps(s, r) THEN NoLoc
                       ELSE IF LeavesBefore(map, r, s) # {}
                              THEN map[Greatest(LeavesBefore(map, r, s))]
                       ELSE IF LeavesAfter(map, r, s) # {}
                              THEN map[Greatest(LeavesAfter(map, r, s))]
                       ELSE map[s]
  BY DEF handle_overlaps
<1>3. ASSUME NEW s \in LbaRange, ~overlaps(s, r),
             \/ LeavesBefore(map, r, s) # {} \/ LeavesAfter(map, r, s) # {} \/ s \in Keys(map)
      PROVE  s \in Keys(mid)
  <2>1. LeavesBefore(map, r, s) \subseteq Keys(map) /\ LeavesAfter(map, r, s) \subseteq Keys(map)
    BY DEF LeavesBefore, LeavesAfter
  <2>2. LeavesBefore(map, r, s) # {} => Greatest(LeavesBefore(map, r, s)) \in Keys(map)
    BY <1>1, <2>1, GreatestExists
  <2>3. LeavesAfter(map, r, s) # {} => Greatest(LeavesAfter(map, r, s)) \in Keys(map)
    BY <1>1, <2>1, GreatestExists
  <2>4. mid[s] # NoLoc
    BY <1>1, <1>2, <1>3, <2>2, <2>3
  <2> HIDE DEF mid
  <2> QED
    BY <2>4 DEF Keys
<1> HIDE DEF mid
<1>4. CASE ~overlaps(o, r)
  BY <1>1, <1>3, <1>4 DEF mid
<1>5. CASE overlaps(o, r) /\ b < r.start
  <2> DEFINE s == [start |-> o.start, end |-> r.start]
  <2>1. /\ o.start \in Nat /\ r.start \in Nat /\ o.start <= b /\ b < r.start
        /\ r.start <= Size /\ Size \in Nat
    BY <1>1, <1>5, RangeType, EngineAssumption DEF contains
  <2>2. s \in LbaRange
    BY <2>1, <1>1, RangeType
  <2>3. ~overlaps(s, r) /\ contains(s, b)
    BY <2>1 DEF contains, overlaps
  <2>4. o \in LeavesBefore(map, r, s)
    BY <1>5 DEF LeavesBefore
  <2> HIDE DEF s
  <2> QED
    BY <2>2, <2>3, <2>4, <1>3 DEF mid
<1>6. CASE overlaps(o, r) /\ r.end <= b
  <2> DEFINE s == [start |-> r.end, end |-> o.end]
  <2>1. s \in LbaRange /\ ~overlaps(s, r) /\ contains(s, b)
    BY <1>1, <1>6, RangeType DEF contains, overlaps
  <2>2. o \in LeavesAfter(map, r, s)
    BY <1>6 DEF LeavesAfter
  <2> HIDE DEF s
  <2> QED
    BY <2>1, <2>2, <1>3 DEF mid
<1> QED
  BY <1>1, <1>4, <1>5, <1>6, RangeType DEF contains

\* Splitting leaves ranges that do not overlap, outside r, and changes what is found
\* for no block outside r.
LEMMA SplitIs ==
  ASSUME NEW map \in Maps, Disjoint(map), NEW r \in LbaRange
  PROVE  LET mid == handle_overlaps(map, r)
         IN  /\ mid \in Maps /\ Disjoint(mid) /\ \A k \in Keys(mid) : ~overlaps(k, r)
             /\ \A b \in Lbas : ~contains(r, b) => lookup(mid, b) = lookup(map, b)
             /\ (\A k \in Keys(map) : overlaps(k, r) => k = r) => Keys(mid) \subseteq Keys(map)
<1> DEFINE mid == handle_overlaps(map, r)
<1>1. Keys(map) \subseteq LbaRange /\ \A k \in Keys(map) : map[k] \in Locations
  BY DEF Keys, Maps
<1>2. /\ \A s \in Keys(mid) : ~overlaps(s, r)
      /\ \A s \in Keys(mid) : \E o \in Keys(map) : IsPart(s, o, r) /\ mid[s] = map[o]
  BY PartsOfKeys
<1>3. mid = [s \in LbaRange |-> mid[s]]
  BY DEF handle_overlaps
<1> HIDE DEF mid
<1>4. Keys(mid) \subseteq LbaRange /\ \A s \in LbaRange \ Keys(mid) : mid[s] = NoLoc
  BY DEF Keys
<1>5. mid \in Maps
  <2>1. ASSUME NEW s \in LbaRange PROVE mid[s] \in Locations \union {NoLoc}
    <3>1. CASE s \in Keys(mid)
      <4>1. PICK o \in Keys(map) : mid[s] = map[o]
        BY <3>1, <1>2
      <4> QED
        BY <4>1, <1>1
    <3>2. CASE s \notin Keys(mid)
      BY <3>2, <1>4
    <3> QED
      BY <3>1, <3>2
  <2> QED
    BY <2>1, <1>3 DEF Maps
<1>6. Disjoint(mid)
  <2> SUFFICES ASSUME NEW s \in Keys(mid), NEW u \in Keys(mid), overlaps(s, u) PROVE s = u
    BY DEF Disjoint
  <2>1. PICK o \in Keys(map) : IsPart(s, o, r)
    BY <1>2
  <2>2. PICK p \in Keys(map) : IsPart(u, p, r)
    BY <1>2
  <2>3. s \in LbaRange /\ u \in LbaRange /\ o \in LbaRange /\ p \in LbaRange
    BY <1>1, <1>4
  <2>4. overlaps(o, p)
    BY <2>1, <2>2, <2>3, RangeType DEF IsPart, overlaps
  <2>5. o = p
    BY <2>4 DEF Disjoint
  <2>6. s.start = u.start /\ s.end = u.end
    BY <2>1, <2>2, <2>3, <2>5, RangeType DEF IsPart, overlaps
  <2> QED
    BY <2>3, <2>6, RangeType
<1>7. ASSUME NEW b \in Lbas, ~contains(r, b) PROVE lookup(mid, b) = lookup(map, b)
  <2> b \in Nat
    BY EngineAssumption DEF Lbas
  <2>1. ASSUME NEW s \in Keys(mid), contains(s, b)
        PROVE  \E o \in Keys(map) : contains(o, b) /\ mid[s] = map[o]
    <3>1. PICK o \in Keys(map) : IsPart(s, o, r) /\ mid[s] = map[o]
      BY <1>2
    <3>2. s \in LbaRange /\ o \in LbaRange
      BY <1>1, <1>4
    <3>3. contains(o, b)
      BY <2>1, <3>1, <3>2, RangeType DEF IsPart, contains, overlaps
    <3> QED
      BY <3>1, <3>3
  <2>2. CASE \E o \in Keys(map) : contains(o, b)
    <3>1. PICK o \in Keys(map) : contains(o, b)
      BY <2>2
    <3>2. PICK s \in Keys(mid) : contains(s, b)
      BY <3>1, <1>7, PartsAreKept DEF mid
    <3>3. PICK p \in Keys(map) : contains(p, b) /\ mid[s] = map[p]
      BY <3>2, <2>1
    <3>4. lookup(map, b) = map[p] /\ lookup(mid, b) = mid[s]
      BY <3>2, <3>3, <1>6, LookupIs
    <3> QED
      BY <3>3, <3>4
  <2>3. CASE \A o \in Keys(map) : ~contains(o, b)
    <3>1. \A s \in Keys(mid) : ~contains(s, b)
      BY <2>1, <2>3
    <3> QED
      BY <3>1, <2>3, <1>6, LookupIs
  <2> QED
    BY <2>2, <2>3
<1>8. ASSUME \A k \in Keys(map) : overlaps(k, r) => k = r, NEW s \in Keys(mid)
      PROVE  s \in Keys(map)
  <2>1. PICK o \in Keys(map) : IsPart(s, o, r)
    BY <1>2
  <2>2. s \in LbaRange /\ ~overlaps(s, r) /\ o \in LbaRange
    BY <1>1, <1>2, <1>4
  <2>3. CASE overlaps(o, r)
    <3>1. o = r
      BY <2>3, <1>8
    <3> QED
      BY <3>1, <2>1, <2>2, <2>3, RangeType DEF IsPart, overlaps
  <2> QED
    BY <2>1, <2>3 DEF IsPart
<1> QED
  BY <1>2, <1>5, <1>6, <1>7, <1>8 DEF mid

\* A range is given a location, whatever was mapped where.
LEMMA InsertIs ==
  ASSUME NEW map \in Maps, Disjoint(map), NEW r \in LbaRange, NEW loc \in Locations
  PROVE  LET new == [handle_overlaps(map, r) EXCEPT ![r] = loc]
         IN  /\ new \in Maps /\ Disjoint(new)
             /\ \A b \in Lbas : lookup(new, b) = IF contains(r, b) THEN loc ELSE lookup(map, b)
             /\ (\A k \in Keys(map) : overlaps(k, r) => k = r) =>
                  Keys(new) \subseteq Keys(map) \union {r}
<1> DEFINE mid == handle_overlaps(map, r)
           new == [mid EXCEPT ![r] = loc]
<1>1. /\ mid \in Maps /\ Disjoint(mid) /\ \A k \in Keys(mid) : ~overlaps(k, r)
      /\ \A b \in Lbas : ~contains(r, b) => lookup(mid, b) = lookup(map, b)
      /\ (\A k \in Keys(map) : overlaps(k, r) => k = r) => Keys(mid) \subseteq Keys(map)
  BY SplitIs
<1> HIDE DEF mid
<1>2. /\ new \in Maps /\ Disjoint(new) /\ Keys(new) \subseteq Keys(mid) \union {r}
      /\ \A b \in Lbas : lookup(new, b) = IF contains(r, b) THEN loc ELSE lookup(mid, b)
  <2>1. loc \in Locations \union {NoLoc}
    OBVIOUS
  <2> HIDE DEF new
  <2>2. LET n == [mid EXCEPT ![r] = loc]
        IN  /\ n \in Maps /\ Disjoint(n) /\ Keys(n) \subseteq Keys(mid) \union {r}
            /\ \A b \in Lbas : lookup(n, b) = IF contains(r, b) THEN loc ELSE lookup(mid, b)
    BY <1>1, <2>1, ReplaceIs
  <2> QED
    BY <2>2 DEF new
<1> HIDE DEF new
<1>3. /\ new \in Maps /\ Disjoint(new)
      /\ \A b \in Lbas : lookup(new, b) = IF contains(r, b) THEN loc ELSE lookup(map, b)
      /\ (\A k \in Keys(map) : overlaps(k, r) => k = r) => Keys(new) \subseteq Keys(map) \union {r}
  BY <1>1, <1>2
<1> QED
  BY <1>3 DEF new, mid

-----------------------------------------------------------------------------
(* Type correctness.                                                       *)

\* What a call has at hand at each point.
WellFormedCall(c) ==
  /\ c.pc = "verify" => c.op = "update"
  /\ c.pc \in {"verify", "log", "push", "apply"} /\ c.op = "update" => c.old \in Locations
  /\ c.pc \in {"verify", "log", "push", "apply"} /\ c.op # "checkpoint" =>
       /\ c.range \in LbaRange
       /\ IF c.op = "delete" THEN c.loc = NoLoc ELSE c.loc \in Locations
  /\ c.pc \in {"apply", "verify"} => c.op # "checkpoint"
  /\ c.pc \in {"lsn", "snapshot", "write_slot", "switch_slot", "truncate"} => c.op = "checkpoint"
  /\ c.pc \in {"snapshot", "write_slot", "switch_slot", "log", "push", "truncate"}
       /\ c.op = "checkpoint" => c.ckpt \in Checkpoints

TypeInv == TypeOK /\ \A t \in Threads : WellFormedCall(thread[t])

\* One call moves on.
LEMMA CallType ==
  ASSUME TypeInv, NEW t \in Threads, NEW c \in Calls, WellFormedCall(c),
         thread' = [thread EXCEPT ![t] = c]
  PROVE  thread' \in [Threads -> Calls] /\ \A u \in Threads : WellFormedCall(thread'[u])
BY DEF TypeInv, TypeOK

\* Splitting brings in no other locations.
LEMMA SplitType ==
  ASSUME NEW V, NoLoc \in V, NEW map \in [LbaRange -> V], NEW r \in LbaRange
  PROVE  handle_overlaps(map, r) \in [LbaRange -> V]
<1> SUFFICES ASSUME NEW s \in LbaRange PROVE handle_overlaps(map, r)[s] \in V
  BY DEF handle_overlaps
<1> DEFINE B == LeavesBefore(map, r, s)
           A == LeavesAfter(map, r, s)
<1>1. B \subseteq LbaRange /\ A \subseteq LbaRange
  BY DEF LeavesBefore, LeavesAfter, Keys
<1>2. (B # {} => Greatest(B) \in LbaRange) /\ (A # {} => Greatest(A) \in LbaRange)
  BY <1>1, GreatestExists
<1>3. handle_overlaps(map, r)[s] \in {NoLoc, map[s]}
        \/ (B # {} /\ handle_overlaps(map, r)[s] = map[Greatest(B)])
        \/ (A # {} /\ handle_overlaps(map, r)[s] = map[Greatest(A)])
  BY DEF handle_overlaps
<1> QED
  BY <1>2, <1>3

\* Replay gives a map.
LEMMA ApplyType ==
  ASSUME NEW map \in Maps, NEW e \in Entries
  PROVE  apply_wal_entry(map, e) \in Maps
BY DEF apply_wal_entry, Maps, Entries, EntryTypes

\* What applying an entry keeps true of a map, replaying a log keeps true.
LEMMA ReplayIn ==
  ASSUME NEW M, NEW S, \A m \in M, e \in S : apply_wal_entry(m, e) \in M,
         NEW map \in M, NEW log \in Seq(S)
  PROVE  replay(map, log) \in M
<1> DEFINE N == Len(log)
<1>1. N \in Nat /\ N = Len(log) /\ \A n \in 1..N : log[n] \in S
  OBVIOUS
<1>2. PICK f : Replays(f, map, log, N) /\ replay(map, log) = f[N]
  BY <1>1, ReplayIs
<1> HIDE DEF N
<1> DEFINE T == {n \in Nat : n <= N => f[n] \in M}
<1>3. 0 \in T
  BY <1>2 DEF Replays
<1>4. ASSUME NEW n \in T PROVE n + 1 \in T
  <2> SUFFICES ASSUME n + 1 <= N PROVE f[n + 1] \in M
    OBVIOUS
  <2>1. n \in Nat /\ (n + 1) - 1 = n /\ n + 1 \in 1..N /\ n <= N
    BY <1>1
  <2>2. f[n + 1] = apply_wal_entry(f[n], log[n + 1])
    BY <1>2, <2>1 DEF Replays
  <2>3. f[n] \in M /\ log[n + 1] \in S
    BY <2>1, <1>1
  <2> QED
    BY <2>2, <2>3
<1>5. T \subseteq Nat
  OBVIOUS
<1> HIDE DEF T
<1>6. N \in T
  BY <1>1, <1>3, <1>4, <1>5, NatInd
<1> QED
  BY <1>1, <1>2, <1>6 DEF T

LEMMA ReplayType ==
  ASSUME NEW map \in Maps, NEW log \in Seq(Entries)
  PROVE  replay(map, log) \in Maps
BY ApplyType, ReplayIn

\* The map that a checkpoint and the entries after it give.
Recovered(c) == replay(c.mappings, entries_after(buffer, c.lsn))

LEMMA RecoverType ==
  ASSUME TypeInv
  PROVE  recover \in Maps
<1>1. buffer \in Seq(Entries) /\ load_latest_checkpoint \in Checkpoints \union {NoCheckpoint}
  BY DEF TypeInv, TypeOK, load_latest_checkpoint, Slots, other
<1>2. CASE load_latest_checkpoint = NoCheckpoint
  <2>1. entries_after(buffer, 0) \in Seq(Entries)
    BY <1>1, AfterType
  <2> QED
    BY <1>2, <2>1, EmptyMapIs, ReplayType DEF recover
<1>3. CASE load_latest_checkpoint # NoCheckpoint
  <2>1. /\ load_latest_checkpoint.mappings \in Maps
        /\ entries_after(buffer, load_latest_checkpoint.lsn) \in Seq(Entries)
    BY <1>1, <1>3, AfterType DEF Checkpoints, Maps
  <2> QED
    BY <1>3, <2>1, ReplayType DEF recover
<1> QED
  BY <1>2, <1>3

LEMMA IdleType == Idle \in Calls /\ WellFormedCall(Idle)
BY DEF Idle, Calls, Pcs, EntryTypes, WellFormedCall

LEMMA InitTypeInv == Init => TypeInv
<1> SUFFICES ASSUME Init PROVE TypeInv
  OBVIOUS
<1>1. l2p_map \in [LbaRange -> Locations \union {NoLoc}]
  BY EmptyMapIs DEF Init, Maps
<1>2. buffer \in Seq(Entries)
  BY DEF Init
<1>3. thread \in [Threads -> Calls] /\ \A t \in Threads : WellFormedCall(thread[t])
  BY IdleType DEF Init
<1>4. /\ generation \in 1..(MaxGeneration + 1) /\ current_lsn \in 1..(MaxLsn + 1)
      /\ epoch \in 0..MaxRestarts
  BY EngineAssumption DEF Init
<1> QED
  BY <1>1, <1>2, <1>3, <1>4 DEF Init, TypeInv, TypeOK, Slots

LEMMA CallTypeInv ==
  ASSUME TypeInv, NEW t \in Threads, Call(t)
  PROVE  TypeInv'
<1> USE DEF At, vars, durable, history
<1> generation \in Nat /\ epoch \in Nat /\ MaxGeneration \in Nat
  BY EngineAssumption DEF TypeInv, TypeOK
<1>1. ASSUME NEW r \in Requested, insert_mapping(t, r), generation <= MaxGeneration
      PROVE  TypeInv'
  <2> DEFINE c == [Idle EXCEPT !.pc = "log", !.op = "insert", !.range = r, !.loc = Drawn]
  <2>1. r \in LbaRange /\ Drawn \in Locations
    BY EngineAssumption DEF Drawn, Locations
  <2>2. c \in Calls /\ WellFormedCall(c)
    BY <2>1, IdleType DEF Idle, Calls, Pcs, EntryTypes, WellFormedCall
  <2>3. thread' = [thread EXCEPT ![t] = c] /\ generation' = generation + 1
    BY <1>1 DEF insert_mapping
  <2> HIDE DEF c
  <2>4. thread' \in [Threads -> Calls] /\ \A u \in Threads : WellFormedCall(thread'[u])
    BY <2>2, <2>3, CallType
  <2> QED
    BY <1>1, <2>3, <2>4 DEF TypeInv, TypeOK, insert_mapping
<1>2. ASSUME NEW r \in Keys(l2p_map), NEW old \in seen, update_mapping(t, r, old),
             generation <= MaxGeneration
      PROVE  TypeInv'
  <2> DEFINE c == [Idle EXCEPT !.pc = "verify", !.op = "update", !.range = r, !.loc = Drawn,
                               !.old = old]
  <2>1. r \in LbaRange /\ old \in Locations /\ Drawn \in Locations
    BY DEF Drawn, Locations, TypeInv, TypeOK, Keys
  <2>2. c \in Calls /\ WellFormedCall(c)
    BY <2>1, IdleType DEF Idle, Calls, Pcs, EntryTypes, WellFormedCall
  <2>3. thread' = [thread EXCEPT ![t] = c] /\ generation' = generation + 1
    BY <1>2 DEF update_mapping
  <2> HIDE DEF c
  <2>4. thread' \in [Threads -> Calls] /\ \A u \in Threads : WellFormedCall(thread'[u])
    BY <2>2, <2>3, CallType
  <2> QED
    BY <1>2, <2>3, <2>4 DEF TypeInv, TypeOK, update_mapping
<1>3. ASSUME NEW r \in Keys(l2p_map), delete_mapping(t, r) PROVE TypeInv'
  <2> DEFINE c == [Idle EXCEPT !.pc = "log", !.op = "delete", !.range = r]
  <2>1. r \in LbaRange
    BY DEF Keys
  <2>2. c \in Calls /\ WellFormedCall(c)
    BY <2>1, IdleType DEF Idle, Calls, Pcs, EntryTypes, WellFormedCall
  <2>3. thread' = [thread EXCEPT ![t] = c]
    BY <1>3 DEF delete_mapping
  <2> HIDE DEF c
  <2>4. thread' \in [Threads -> Calls] /\ \A u \in Threads : WellFormedCall(thread'[u])
    BY <2>2, <2>3, CallType
  <2> QED
    BY <1>3, <2>4 DEF TypeInv, TypeOK, delete_mapping
<1>4. ASSUME create_checkpoint(t) PROVE TypeInv'
  <2> DEFINE c == [Idle EXCEPT !.pc = "lsn"]
  <2>1. c \in Calls /\ WellFormedCall(c)
    BY IdleType DEF Idle, Calls, Pcs, EntryTypes, WellFormedCall
  <2>2. thread' = [thread EXCEPT ![t] = c]
    BY <1>4 DEF create_checkpoint
  <2> HIDE DEF c
  <2>3. thread' \in [Threads -> Calls] /\ \A u \in Threads : WellFormedCall(thread'[u])
    BY <2>1, <2>2, CallType
  <2> QED
    BY <1>4, <2>3 DEF TypeInv, TypeOK, create_checkpoint
<1> QED
  BY <1>1, <1>2, <1>3, <1>4 DEF Call

LEMMA StepTypeInv ==
  ASSUME TypeInv, NEW t \in Threads, Step(t)
  PROVE  TypeInv'
<1> USE DEF At, Goto, vars, durable, history
<1> DEFINE call == thread[t]
<1>0. call \in Calls /\ WellFormedCall(call)
  BY DEF TypeInv, TypeOK
<1>1. ASSUME NEW pc \in Pcs, thread' = [thread EXCEPT ![t].pc = pc],
             WellFormedCall([call EXCEPT !.pc = pc])
      PROVE  thread' \in [Threads -> Calls] /\ \A u \in Threads : WellFormedCall(thread'[u])
  <2>1. [call EXCEPT !.pc = pc] \in Calls
    BY <1>0 DEF Calls
  <2>2. thread' = [thread EXCEPT ![t] = [call EXCEPT !.pc = pc]]
    BY <1>1
  <2> QED
    BY <1>1, <2>1, <2>2, CallType
<1>2. CASE Verify(t)
  <2> DEFINE pc == IF /\ l2p_map[call.range] # NoLoc
                      /\ l2p_map[call.range].generation = call.old.generation
                   THEN "log" ELSE "idle"
  <2>1. pc \in Pcs /\ WellFormedCall([call EXCEPT !.pc = pc])
    BY <1>0, <1>2 DEF Verify, Pcs, Calls, WellFormedCall
  <2>2. thread' = [thread EXCEPT ![t].pc = pc]
    BY <1>2 DEF Verify
  <2> HIDE DEF pc
  <2>3. thread' \in [Threads -> Calls] /\ \A u \in Threads : WellFormedCall(thread'[u])
    BY <1>1, <2>1, <2>2
  <2> QED
    BY <1>2, <2>3 DEF Verify, TypeInv, TypeOK
<1>3. CASE DrawLsn(t)
  <2> DEFINE c == [call EXCEPT !.pc = "push", !.entry = current_lsn]
  <2>1. current_lsn \in Nat /\ current_lsn' \in 1..(MaxLsn + 1)
    BY <1>3, EngineAssumption DEF DrawLsn, TypeInv, TypeOK
  <2>2. c \in Calls /\ WellFormedCall(c)
    BY <1>0, <1>3, <2>1 DEF DrawLsn, Pcs, Calls, WellFormedCall
  <2>3. thread' = [thread EXCEPT ![t] = c]
    BY <1>3 DEF DrawLsn
  <2> HIDE DEF c
  <2>4. thread' \in [Threads -> Calls] /\ \A u \in Threads : WellFormedCall(thread'[u])
    BY <2>2, <2>3, CallType
  <2> QED
    BY <1>3, <2>1, <2>4 DEF DrawLsn, TypeInv, TypeOK
<1>4. CASE Push(t)
  <2> DEFINE e == [lsn |-> call.entry, type |-> call.op, range |-> call.range, loc |-> call.loc]
             pc == IF call.op = "checkpoint" THEN "truncate" ELSE "apply"
  <2>1. pc \in Pcs /\ WellFormedCall([call EXCEPT !.pc = pc])
    BY <1>0, <1>4 DEF Push, Pcs, Calls, WellFormedCall
  <2>2. thread' = [thread EXCEPT ![t].pc = pc] /\ buffer' = Append(buffer, e)
    BY <1>4 DEF Push
  <2>3. e \in Entries
    BY <1>0 DEF Calls, Entries
  <2> HIDE DEF pc, e
  <2>4. thread' \in [Threads -> Calls] /\ \A u \in Threads : WellFormedCall(thread'[u])
    BY <1>1, <2>1, <2>2
  <2>5. buffer' \in Seq(Entries)
    BY <2>2, <2>3 DEF TypeInv, TypeOK
  <2>6. content' \in [Lbas -> Locations \union {NoLoc}] /\ used' \subseteq LbaRange
    <3>1. CASE call.op = "checkpoint"
      BY <1>4, <3>1 DEF Push, TypeInv, TypeOK
    <3>2. CASE call.op # "checkpoint"
      <4>1. call.range \in LbaRange /\ call.loc \in Locations \union {NoLoc}
        BY <1>0, <1>4, <3>2 DEF Push, WellFormedCall, Calls
      <4>2. /\ content' = [b \in Lbas |-> IF contains(call.range, b) THEN call.loc ELSE content[b]]
            /\ used' = used \union {call.range}
        BY <1>4, <3>2 DEF Push
      <4> QED
        BY <4>1, <4>2 DEF TypeInv, TypeOK
    <3> QED
      BY <3>1, <3>2
  <2> QED
    BY <1>4, <2>4, <2>5, <2>6 DEF Push, TypeInv, TypeOK
<1>5. CASE Apply(t)
  <2> DEFINE pc == IF call.op = "delete" THEN "idle" ELSE "maybe_checkpoint"
  <2>1. pc \in Pcs /\ WellFormedCall([call EXCEPT !.pc = pc])
    BY <1>0, <1>5 DEF Apply, Pcs, Calls, WellFormedCall
  <2>2. thread' = [thread EXCEPT ![t].pc = pc]
    BY <1>5 DEF Apply
  <2> HIDE DEF pc
  <2>3. thread' \in [Threads -> Calls] /\ \A u \in Threads : WellFormedCall(thread'[u])
    BY <1>1, <2>1, <2>2
  <2>4. /\ call.range \in LbaRange /\ call.loc \in Locations \union {NoLoc}
        /\ call.op # "delete" => call.loc \in Locations
    BY <1>0, <1>5 DEF Apply, Calls, WellFormedCall
  <2>5. l2p_map \in Maps
    BY DEF TypeInv, TypeOK, Maps
  <2>6. handle_overlaps(l2p_map, call.range) \in Maps
    BY <2>4, <2>5, SplitType DEF Maps
  <2>7. l2p_map' \in Maps
    BY <1>5, <2>4, <2>5, <2>6 DEF Apply, Maps
  <2>8. seen' \subseteq Locations
    BY <1>5, <2>4 DEF Apply, TypeInv, TypeOK
  <2> QED
    BY <1>5, <2>3, <2>7, <2>8 DEF Apply, TypeInv, TypeOK, Maps
<1>6. CASE maybe_checkpoint(t)
  <2> DEFINE c == [Idle EXCEPT !.pc = "lsn"]
  <2>1. c \in Calls /\ WellFormedCall(c)
    BY IdleType DEF Idle, Calls, Pcs, EntryTypes, WellFormedCall
  <2>2. thread' = [thread EXCEPT ![t] = c] \/ thread' = [thread EXCEPT ![t] = Idle]
    BY <1>6 DEF maybe_checkpoint
  <2> HIDE DEF c
  <2>3. thread' \in [Threads -> Calls] /\ \A u \in Threads : WellFormedCall(thread'[u])
    BY <2>1, <2>2, IdleType, CallType
  <2> QED
    BY <1>6, <2>3 DEF maybe_checkpoint, TypeInv, TypeOK
<1>7. CASE ReadLsn(t)
  <2> DEFINE k == [lsn |-> current_lsn, mappings |-> EmptyMap]
             c == [call EXCEPT !.pc = "snapshot", !.ckpt = k]
  <2>1. k \in Checkpoints
    BY EmptyMapIs DEF Maps, Checkpoints, TypeInv, TypeOK
  <2> HIDE DEF k
  <2>2. c \in Calls /\ WellFormedCall(c)
    BY <1>0, <1>7, <2>1 DEF ReadLsn, Pcs, Calls, WellFormedCall
  <2>3. thread' = [thread EXCEPT ![t] = c]
    BY <1>7 DEF ReadLsn, k
  <2> HIDE DEF c
  <2>4. thread' \in [Threads -> Calls] /\ \A u \in Threads : WellFormedCall(thread'[u])
    BY <2>2, <2>3, CallType
  <2> QED
    BY <1>7, <2>4 DEF ReadLsn, TypeInv, TypeOK
<1>8. CASE Snapshot(t)
  <2> DEFINE c == [call EXCEPT !.pc = "write_slot", !.ckpt.mappings = l2p_map]
  <2>1. call.ckpt \in Checkpoints
    BY <1>0, <1>8 DEF Snapshot, WellFormedCall
  <2>2. [call.ckpt EXCEPT !.mappings = l2p_map] \in Checkpoints
    BY <2>1 DEF Checkpoints, TypeInv, TypeOK
  <2>3. c \in Calls /\ WellFormedCall(c)
    BY <1>0, <1>8, <2>2 DEF Snapshot, Pcs, Calls, WellFormedCall
  <2>4. thread' = [thread EXCEPT ![t] = c]
    BY <1>8 DEF Snapshot
  <2> HIDE DEF c
  <2>5. thread' \in [Threads -> Calls] /\ \A u \in Threads : WellFormedCall(thread'[u])
    BY <2>3, <2>4, CallType
  <2> QED
    BY <1>8, <2>5 DEF Snapshot, TypeInv, TypeOK
<1>9. CASE WriteSlot(t)
  <2> DEFINE c == [call EXCEPT !.pc = "switch_slot", !.range = NoLoc]
  <2>1. call.ckpt \in Checkpoints /\ call.op = "checkpoint"
    BY <1>0, <1>9 DEF WriteSlot, WellFormedCall
  <2>2. c \in Calls /\ WellFormedCall(c)
    BY <1>0, <1>9, <2>1 DEF WriteSlot, Pcs, Calls, WellFormedCall
  <2>3. thread' = [thread EXCEPT ![t] = c]
    BY <1>9 DEF WriteSlot
  <2> HIDE DEF c
  <2>4. thread' \in [Threads -> Calls] /\ \A u \in Threads : WellFormedCall(thread'[u])
    BY <2>2, <2>3, CallType
  <2>5. checkpoint' \in [Slots -> Checkpoints \union {NoCheckpoint}]
    BY <1>9, <2>1 DEF WriteSlot, TypeInv, TypeOK
  <2> QED
    BY <1>9, <2>4, <2>5 DEF WriteSlot, TypeInv, TypeOK
<1>10. CASE SwitchSlot(t)
  <2>1. WellFormedCall([call EXCEPT !.pc = "log"]) /\ "log" \in Pcs
    BY <1>0, <1>10 DEF SwitchSlot, Pcs, Calls, WellFormedCall
  <2>2. thread' \in [Threads -> Calls] /\ \A u \in Threads : WellFormedCall(thread'[u])
    BY <1>1, <1>10, <2>1 DEF SwitchSlot
  <2>3. active_slot' \in Slots
    BY <1>10 DEF SwitchSlot, TypeInv, TypeOK, Slots, other
  <2> QED
    BY <1>10, <2>2, <2>3 DEF SwitchSlot, TypeInv, TypeOK
<1>11. CASE Truncate(t)
  <2>1. thread' \in [Threads -> Calls] /\ \A u \in Threads : WellFormedCall(thread'[u])
    BY <1>11, IdleType, CallType DEF Truncate
  <2>2. buffer' \in Seq(Entries)
    BY <1>11, AfterType DEF Truncate, TypeInv, TypeOK
  <2> QED
    BY <1>11, <2>1, <2>2 DEF Truncate, TypeInv, TypeOK
<1> QED
  BY <1>2, <1>3, <1>4, <1>5, <1>6, <1>7, <1>8, <1>9, <1>10, <1>11 DEF Step

LEMMA RestartTypeInv ==
  ASSUME TypeInv, Restart
  PROVE  TypeInv'
<1> USE DEF vars, durable, history
<1>1. thread' \in [Threads -> Calls] /\ \A u \in Threads : WellFormedCall(thread'[u])
  BY IdleType DEF Restart
<1>2. l2p_map' \in Maps /\ recover \in Maps
  BY RecoverType DEF Restart
<1>3. seen' \subseteq Locations
  BY <1>2 DEF Restart, Keys, Maps
<1>4. generation' \in 1..(MaxGeneration + 1) /\ epoch' \in 0..MaxRestarts /\ cut' \in BOOLEAN
  BY EngineAssumption DEF Restart, TypeInv, TypeOK
<1> QED
  BY <1>1, <1>2, <1>3, <1>4 DEF Restart, TypeInv, TypeOK, Maps

\* A step that changes nothing.
LEMMA StutterTypeInv ==
  ASSUME TypeInv, UNCHANGED vars
  PROVE  TypeInv'
BY DEF TypeInv, TypeOK, vars, durable, history

LEMMA NextTypeInv == TypeInv /\ [Next]_vars => TypeInv'
BY CallTypeInv, StepTypeInv, RestartTypeInv, StutterTypeInv DEF Next

\* Every variable has its type, whichever threads call the engine, through every
\* interleaving and restart.
THEOREM TypeCorrect == Spec => []TypeOK
<1>1. TypeInv => TypeOK
  BY DEF TypeInv
<1> QED
  BY <1>1, InitTypeInv, NextTypeInv, PTL DEF Spec

-----------------------------------------------------------------------------
(* The inductive invariant, for calls that do not overlap.                 *)

\* One call at a time is in progress, from one thread or from several in turn.
Exclusive == \A t, u \in Threads : ~At(t, "idle") /\ ~At(u, "idle") => t = u

Intact == epoch = 0 \/ Recoverable

\* A change is under way: the key that an update or a deletion works on is still in
\* the map, as it was verified; what is applied has been logged.
ChangeInv(c) ==
  /\ c.pc \in {"log", "push", "apply"} /\ c.op \in {"update", "delete"} =>
       c.range \in Keys(l2p_map)
  /\ c.pc \in {"log", "push", "apply"} /\ c.op = "update" =>
       l2p_map[c.range].generation = c.old.generation
  /\ c.pc = "apply" => c.range \in used
  /\ c.pc = "push" => 0 < c.entry /\ c.entry < current_lsn

\* A checkpoint under way holds the map as it is, claims the number of its marker, and
\* is where recovery will look for it.
Marking(c) == c.op = "checkpoint" /\ c.pc \in {"log", "push", "truncate"}

CheckpointInv(c) ==
  /\ c.pc \in {"snapshot", "write_slot", "switch_slot"} \/ (Marking(c) /\ c.pc = "log") =>
       c.ckpt.lsn = current_lsn
  /\ Marking(c) /\ c.pc = "push" => c.entry = c.ckpt.lsn
  /\ Marking(c) /\ c.pc # "log" => \A i \in 1..Len(buffer) : buffer[i].lsn <= c.ckpt.lsn
  /\ c.pc \in {"write_slot", "switch_slot"} \/ Marking(c) => c.ckpt.mappings = l2p_map
  /\ c.pc = "switch_slot" => checkpoint[other(active_slot)] = c.ckpt
  /\ Marking(c) => checkpoint[active_slot] = c.ckpt

CallsInv == \A t \in Threads : ChangeInv(thread[t]) /\ CheckpointInv(thread[t])

\* Numbers in the log have been drawn; so has the number a checkpoint claims, unless
\* its marker is due, and a change is logged under a greater number.
LogInv ==
  /\ \A i \in 1..Len(buffer) : buffer[i].lsn < current_lsn
  /\ \A slot \in Slots : checkpoint[slot] # NoCheckpoint =>
       /\ checkpoint[slot].lsn <= current_lsn
       /\ ~cut /\ (\A t \in Threads : ~MarkerDue(t)) => checkpoint[slot].lsn < current_lsn
       /\ ~cut => \A t \in Threads : At(t, "push") /\ thread[t].op # "checkpoint" =>
                     checkpoint[slot].lsn < thread[t].entry

\* Before a restart all locations are of the first incarnation.
FirstEpoch(loc) == loc # NoLoc => loc.epoch = 0
EpochInv ==
  epoch = 0 =>
    /\ \A r \in LbaRange : FirstEpoch(l2p_map[r])
    /\ \A loc \in seen : FirstEpoch(loc)
    /\ \A t \in Threads : FirstEpoch(thread[t].loc) /\ FirstEpoch(thread[t].old)

\* Ranges that are aligned are not split.
KeysInv == Recoverable => Keys(l2p_map) \subseteq used

\* The block b is in the range of a change that is logged and not applied yet.
Pending(b) == \E t \in Threads : At(t, "apply") /\ contains(thread[t].range, b)

MapInv ==
  Intact =>
    /\ Disjoint(l2p_map)
    /\ \A b \in Lbas : ~Pending(b) => lookup(l2p_map, b) = content[b]
    /\ \A b \in Lbas, t \in Threads :
         At(t, "apply") /\ contains(thread[t].range, b) => content[b] = thread[t].loc

\* Recovery would give the ranges that were logged their last locations.
RecoverInv ==
  Recoverable =>
    /\ Keys(recover) \subseteq used
    /\ \A b \in Lbas : lookup(recover, b) = content[b]

EngineInv == TypeInv /\ CallsInv /\ LogInv /\ EpochInv /\ KeysInv /\ MapInv /\ RecoverInv

\* The step of one thread while the others are between two calls.
Alone(t) == \A u \in Threads \ {t} : thread[u].pc = "idle" /\ thread'[u] = thread[u]

LEMMA IdleInv ==
  ASSUME NEW t \in Threads, thread[t].pc = "idle"
  PROVE  ChangeInv(thread[t]) /\ CheckpointInv(thread[t])
BY DEF ChangeInv, CheckpointInv, Marking

\* Of calls that do not overlap, a step is taken by the only one.
LEMMA StepIsAlone ==
  ASSUME TypeInv, Exclusive, Exclusive', NEW t \in Threads, Call(t) \/ Step(t)
  PROVE  Alone(t)
<1> USE DEF At, Goto
<1>1. \A u \in Threads \ {t} : thread'[u] = thread[u]
  BY DEF TypeInv, TypeOK, Call, Step, insert_mapping, update_mapping, delete_mapping,
         create_checkpoint, Verify, DrawLsn, Push, Apply, maybe_checkpoint, ReadLsn, Snapshot,
         WriteSlot, SwitchSlot, Truncate
<1>2. CASE thread[t].pc # "idle"
  BY <1>1, <1>2 DEF Exclusive, Alone
<1>3. CASE thread[t].pc = "idle"
  <2>1. Call(t)
    BY <1>3 DEF Step, Verify, DrawLsn, Push, Apply, maybe_checkpoint, ReadLsn, Snapshot,
                WriteSlot, SwitchSlot, Truncate
  <2>2. thread'[t].pc # "idle"
    BY <2>1 DEF TypeInv, TypeOK, Call, insert_mapping, update_mapping, delete_mapping,
                create_checkpoint, Idle
  <2> QED
    BY <1>1, <2>2 DEF Exclusive, Alone
<1> QED
  BY <1>2, <1>3

LEMMA InitEngineInv == Init => EngineInv
<1> SUFFICES ASSUME Init PROVE EngineInv
  OBVIOUS
<1> USE DEF At
<1>1. TypeInv
  BY InitTypeInv
<1>2. CallsInv
  BY IdleInv DEF Init, Idle, CallsInv
<1>3. LogInv
  BY DEF Init, LogInv
<1>4. EpochInv
  BY DEF Init, EpochInv, FirstEpoch, EmptyMap, Idle
<1>5. KeysInv
  BY EmptyMapIs DEF Init, KeysInv
<1>6. MapInv
  BY EmptyMapIs DEF Init, MapInv, Idle
<1>7. recover = EmptyMap
  <2>1. load_latest_checkpoint = NoCheckpoint
    BY DEF Init, load_latest_checkpoint, other, Slots
  <2>2. recover = replay(EmptyMap, entries_after(<<>>, 0))
    BY <2>1 DEF recover, Init
  <2> QED
    BY <2>2, NothingAfter, ReplayNothing
<1>8. RecoverInv
  BY <1>7, EmptyMapIs DEF Init, RecoverInv
<1> QED
  BY <1>1, <1>2, <1>3, <1>4, <1>5, <1>6, <1>8 DEF EngineInv

\* Recovery depends on what is durable only.
LEMMA RecoverFrame ==
  ASSUME UNCHANGED <<buffer, checkpoint, active_slot>>
  PROVE  recover' = recover
BY DEF recover, load_latest_checkpoint

\* A step in memory that neither logs nor applies a change.
LEMMA LocalStep ==
  ASSUME EngineInv, NEW t \in Threads, Alone(t),
         UNCHANGED <<l2p_map, buffer, checkpoint, active_slot, history>>,
         thread[t].pc # "apply", thread'[t].pc # "apply"
  PROVE  KeysInv' /\ MapInv' /\ RecoverInv'
<1> USE DEF history, At
<1>1. Intact' = Intact /\ Recoverable' = Recoverable
  BY DEF Intact, Recoverable
<1>2. KeysInv'
  BY <1>1 DEF EngineInv, KeysInv
<1>3. \A u \in Threads : thread[u].pc # "apply" /\ thread'[u].pc # "apply"
  BY DEF Alone
<1>4. MapInv'
  BY <1>1, <1>3 DEF EngineInv, MapInv, Pending
<1>5. RecoverInv'
  BY <1>1, RecoverFrame DEF EngineInv, RecoverInv
<1> QED
  BY <1>2, <1>4, <1>5

\* The calls that are not in progress need nothing.
LEMMA OthersInv ==
  ASSUME NEW t \in Threads, Alone(t), ChangeInv(thread[t])', CheckpointInv(thread[t])'
  PROVE  CallsInv'
<1>1. ASSUME NEW u \in Threads \ {t} PROVE ChangeInv(thread[u])' /\ CheckpointInv(thread[u])'
  BY DEF Alone, ChangeInv, CheckpointInv, Marking
<1> QED
  BY <1>1 DEF CallsInv

LEMMA CallEngineInv ==
  ASSUME EngineInv, NEW t \in Threads, Call(t), Alone(t)
  PROVE  EngineInv'
<1> USE DEF At, durable, history
<1>1. TypeInv'
  BY CallTypeInv DEF EngineInv
<1>2. /\ thread[t].pc = "idle" /\ thread'[t].pc # "apply"
      /\ UNCHANGED <<l2p_map, current_lsn, buffer, checkpoint, active_slot, history>>
  <2>1. /\ thread[t].pc = "idle" /\ thread' = [thread EXCEPT ![t] = thread'[t]]
        /\ thread'[t].pc \in {"log", "verify", "lsn"}
        /\ UNCHANGED <<l2p_map, durable, history>>
    <3> USE DEF Idle, EngineInv, TypeInv, TypeOK
    <3>1. CASE \E r \in Requested : insert_mapping(t, r)
      BY <3>1 DEF insert_mapping
    <3>2. CASE \E r \in Keys(l2p_map), old \in seen : update_mapping(t, r, old)
      BY <3>2 DEF update_mapping
    <3>3. CASE \E r \in Keys(l2p_map) : delete_mapping(t, r)
      BY <3>3 DEF delete_mapping
    <3>4. CASE create_checkpoint(t)
      BY <3>4 DEF create_checkpoint
    <3> QED
      BY <3>1, <3>2, <3>3, <3>4 DEF Call
  <2> QED
    BY <2>1
<1>3. KeysInv' /\ MapInv' /\ RecoverInv'
  BY <1>2, LocalStep
<1>4. CASE \E r \in Requested : insert_mapping(t, r)
  <2>1. /\ thread'[t].pc = "log" /\ thread'[t].op = "insert" /\ thread'[t].loc = Drawn
        /\ thread'[t].old = NoLoc
    BY <1>4 DEF insert_mapping, Idle, EngineInv, TypeInv, TypeOK
  <2>2. ChangeInv(thread[t])' /\ CheckpointInv(thread[t])'
    BY <2>1 DEF ChangeInv, CheckpointInv, Marking
  <2>3. CallsInv'
    BY <2>2, OthersInv
  <2>4. LogInv'
    BY <1>2, <2>1 DEF EngineInv, LogInv, MarkerDue, Alone
  <2>5. EpochInv'
    BY <1>2, <2>1 DEF EngineInv, EpochInv, FirstEpoch, Drawn, Alone
  <2> QED
    BY <1>1, <1>3, <2>3, <2>4, <2>5 DEF EngineInv
<1>5. CASE \E r \in Keys(l2p_map), old \in seen : update_mapping(t, r, old)
  <2>1. /\ thread'[t].pc = "verify" /\ thread'[t].op = "update" /\ thread'[t].loc = Drawn
        /\ thread'[t].old \in seen
    BY <1>5 DEF update_mapping, Idle, EngineInv, TypeInv, TypeOK
  <2>2. ChangeInv(thread[t])' /\ CheckpointInv(thread[t])'
    BY <2>1 DEF ChangeInv, CheckpointInv, Marking
  <2>3. CallsInv'
    BY <2>2, OthersInv
  <2>4. LogInv'
    BY <1>2, <2>1 DEF EngineInv, LogInv, MarkerDue, Alone
  <2>5. EpochInv'
    BY <1>2, <2>1 DEF EngineInv, EpochInv, FirstEpoch, Drawn, Alone
  <2> QED
    BY <1>1, <1>3, <2>3, <2>4, <2>5 DEF EngineInv
<1>6. CASE \E r \in Keys(l2p_map) : delete_mapping(t, r)
  <2>1. /\ thread'[t].pc = "log" /\ thread'[t].op = "delete" /\ thread'[t].loc = NoLoc
        /\ thread'[t].old = NoLoc /\ thread'[t].range \in Keys(l2p_map)
    BY <1>6 DEF delete_mapping, Idle, EngineInv, TypeInv, TypeOK
  <2>2. ChangeInv(thread[t])' /\ CheckpointInv(thread[t])'
    BY <1>2, <2>1 DEF ChangeInv, CheckpointInv, Marking
  <2>3. CallsInv'
    BY <2>2, OthersInv
  <2>4. LogInv'
    BY <1>2, <2>1 DEF EngineInv, LogInv, MarkerDue, Alone
  <2>5. EpochInv'
    BY <1>2, <2>1 DEF EngineInv, EpochInv, FirstEpoch, Alone
  <2> QED
    BY <1>1, <1>3, <2>3, <2>4, <2>5 DEF EngineInv
<1>7. CASE create_checkpoint(t)
  <2>1. /\ thread'[t].pc = "lsn" /\ thread'[t].op = "checkpoint" /\ thread'[t].loc = NoLoc
        /\ thread'[t].old = NoLoc
    BY <1>7 DEF create_checkpoint, Idle, EngineInv, TypeInv, TypeOK
  <2>2. ChangeInv(thread[t])' /\ CheckpointInv(thread[t])'
    BY <2>1 DEF ChangeInv, CheckpointInv, Marking
  <2>3. CallsInv'
    BY <2>2, OthersInv
  <2>4. LogInv'
    BY <1>2, <2>1 DEF EngineInv, LogInv, MarkerDue, Alone
  <2>5. EpochInv'
    BY <1>2, <2>1 DEF EngineInv, EpochInv, FirstEpoch, Alone
  <2> QED
    BY <1>1, <1>3, <2>3, <2>4, <2>5 DEF EngineInv
<1> QED
  BY <1>4, <1>5, <1>6, <1>7 DEF Call

LEMMA LsnType ==
  ASSUME TypeInv
  PROVE  \A i \in 1..Len(buffer) : buffer[i].lsn \in Nat
<1>1. buffer \in Seq(Entries)
  BY DEF TypeInv, TypeOK
<1>2. \A i \in 1..Len(buffer) : buffer[i] \in Entries
  BY <1>1
<1> QED
  BY <1>2 DEF Entries

\* A step that leaves locations where they are.
LEMMA EpochFrame ==
  ASSUME EpochInv, NEW t \in Threads, Alone(t), UNCHANGED <<l2p_map, seen, epoch>>,
         thread'[t].loc \in {thread[t].loc, NoLoc}, thread'[t].old \in {thread[t].old, NoLoc}
  PROVE  EpochInv'
<1> SUFFICES ASSUME epoch = 0 PROVE \A u \in Threads : FirstEpoch(thread'[u].loc) /\ FirstEpoch(thread'[u].old)
  BY DEF EpochInv, FirstEpoch
<1>1. \A u \in Threads : FirstEpoch(thread[u].loc) /\ FirstEpoch(thread[u].old)
  BY DEF EpochInv
<1>2. FirstEpoch(NoLoc)
  BY DEF FirstEpoch
<1>3. FirstEpoch(thread'[t].loc) /\ FirstEpoch(thread'[t].old)
  BY <1>1, <1>2
<1>4. \A u \in Threads \ {t} : thread'[u] = thread[u]
  BY DEF Alone
<1> QED
  BY <1>1, <1>3, <1>4

\* An update goes on when the range still has the generation its caller expects.
LEMMA VerifyEngineInv ==
  ASSUME EngineInv, NEW t \in Threads, Verify(t), Alone(t)
  PROVE  EngineInv'
<1> USE DEF At, Goto, durable, history
<1>1. TypeInv'
  BY StepTypeInv DEF EngineInv, Step
<1>2. /\ thread[t].pc = "verify" /\ thread[t].op = "update"
      /\ UNCHANGED <<l2p_map, current_lsn, buffer, checkpoint, active_slot, history>>
      /\ thread'[t] = [thread[t] EXCEPT !.pc = thread'[t].pc]
      /\ \/ thread'[t].pc = "idle"
         \/ /\ thread'[t].pc = "log" /\ l2p_map[thread[t].range] # NoLoc
            /\ l2p_map[thread[t].range].generation = thread[t].old.generation
  BY DEF Verify, EngineInv, TypeInv, TypeOK, Calls, WellFormedCall
<1>3. thread[t] \in Calls /\ thread'[t] \in Calls /\ thread[t].range \in LbaRange
  BY <1>1, <1>2 DEF EngineInv, TypeInv, TypeOK, WellFormedCall
<1>4. KeysInv' /\ MapInv' /\ RecoverInv'
  BY <1>2, LocalStep
<1>5. /\ thread'[t].op = "update" /\ thread'[t].range = thread[t].range
      /\ thread'[t].loc = thread[t].loc /\ thread'[t].old = thread[t].old
  BY <1>2, <1>3 DEF Calls
<1>6. ChangeInv(thread[t])' /\ CheckpointInv(thread[t])'
  BY <1>2, <1>3, <1>5 DEF ChangeInv, CheckpointInv, Marking, Keys
<1>7. CallsInv'
  BY <1>6, OthersInv
<1>8. LogInv'
  BY <1>2, <1>5 DEF EngineInv, LogInv, MarkerDue, Alone
<1>9. EpochInv'
  BY <1>2, <1>5, EpochFrame DEF EngineInv
<1> QED
  BY <1>1, <1>4, <1>7, <1>8, <1>9 DEF EngineInv

\* A number is drawn: it is greater than those in the log, and than those that
\* checkpoints claim unless it is the marker's.
LEMMA DrawLsnEngineInv ==
  ASSUME EngineInv, NEW t \in Threads, DrawLsn(t), Alone(t)
  PROVE  EngineInv'
<1> USE DEF At, Goto, durable, history
<1>1. TypeInv'
  BY StepTypeInv DEF EngineInv, Step
<1>2. /\ thread[t].pc = "log" /\ current_lsn' = current_lsn + 1
      /\ UNCHANGED <<l2p_map, buffer, checkpoint, active_slot, history>>
      /\ thread[t] \in Calls /\ thread'[t] = [thread[t] EXCEPT !.pc = "push", !.entry = current_lsn]
  BY DEF DrawLsn, EngineInv, TypeInv, TypeOK
<1>3. /\ thread'[t].pc = "push" /\ thread'[t].entry = current_lsn
      /\ thread'[t].op = thread[t].op /\ thread'[t].range = thread[t].range
      /\ thread'[t].loc = thread[t].loc /\ thread'[t].old = thread[t].old
      /\ thread'[t].ckpt = thread[t].ckpt
  BY <1>2 DEF Calls
<1>4. KeysInv' /\ MapInv' /\ RecoverInv'
  BY <1>2, <1>3, LocalStep
<1>5. current_lsn \in Nat /\ current_lsn > 0
  BY DEF EngineInv, TypeInv, TypeOK
<1>6. ChangeInv(thread[t]) /\ CheckpointInv(thread[t])
  BY DEF EngineInv, CallsInv
<1> \A i \in 1..Len(buffer) : buffer[i].lsn \in Nat /\ buffer[i].lsn <= current_lsn
  BY <1>5, LsnType DEF EngineInv, LogInv
<1>7. ChangeInv(thread[t])' /\ CheckpointInv(thread[t])'
  BY <1>2, <1>3, <1>5, <1>6 DEF ChangeInv, CheckpointInv, Marking
<1>8. CallsInv'
  BY <1>7, OthersInv
<1>9. LogInv'
  <2>1. \A i \in 1..Len(buffer) : buffer[i].lsn \in Nat /\ buffer[i].lsn < current_lsn
    BY LsnType DEF EngineInv, LogInv
  <2>2. ASSUME NEW slot \in Slots, checkpoint[slot] # NoCheckpoint
        PROVE  /\ checkpoint[slot].lsn \in Nat /\ checkpoint[slot].lsn <= current_lsn
               /\ ~cut /\ thread[t].op # "checkpoint" => checkpoint[slot].lsn < current_lsn
    BY <1>2, <2>2 DEF EngineInv, TypeInv, TypeOK, Checkpoints, LogInv, MarkerDue, Alone
  <2>3. \A i \in 1..Len(buffer) : buffer[i].lsn < current_lsn + 1
    BY <2>1, <1>5
  <2>4. \A slot \in Slots : checkpoint[slot] # NoCheckpoint =>
          checkpoint[slot].lsn <= current_lsn + 1 /\ checkpoint[slot].lsn < current_lsn + 1
    BY <2>2, <1>5
  <2> QED
    BY <1>2, <1>3, <2>2, <2>3, <2>4 DEF LogInv, Alone
<1>10. EpochInv'
  BY <1>2, <1>3, EpochFrame DEF EngineInv
<1> QED
  BY <1>1, <1>4, <1>8, <1>9, <1>10 DEF EngineInv

LEMMA MaybeCheckpointEngineInv ==
  ASSUME EngineInv, NEW t \in Threads, maybe_checkpoint(t), Alone(t)
  PROVE  EngineInv'
<1> USE DEF At, Goto, durable, history
<1>1. TypeInv'
  BY StepTypeInv DEF EngineInv, Step
<1>2. /\ thread[t].pc = "maybe_checkpoint"
      /\ UNCHANGED <<l2p_map, current_lsn, buffer, checkpoint, active_slot, history>>
      /\ thread'[t].pc \in {"idle", "lsn"} /\ thread'[t].loc = NoLoc /\ thread'[t].old = NoLoc
      /\ thread'[t].op = "checkpoint"
  BY DEF maybe_checkpoint, Idle, EngineInv, TypeInv, TypeOK
<1>3. KeysInv' /\ MapInv' /\ RecoverInv'
  BY <1>2, LocalStep
<1>4. ChangeInv(thread[t])' /\ CheckpointInv(thread[t])'
  BY <1>2 DEF ChangeInv, CheckpointInv, Marking
<1>5. CallsInv'
  BY <1>4, OthersInv
<1>6. LogInv'
  BY <1>2 DEF EngineInv, LogInv, MarkerDue, Alone
<1>7. EpochInv'
  BY <1>2, EpochFrame DEF EngineInv
<1> QED
  BY <1>1, <1>3, <1>5, <1>6, <1>7 DEF EngineInv

LEMMA ReadLsnEngineInv ==
  ASSUME EngineInv, NEW t \in Threads, ReadLsn(t), Alone(t)
  PROVE  EngineInv'
<1> USE DEF At, Goto, durable, history
<1>1. TypeInv'
  BY StepTypeInv DEF EngineInv, Step
<1>2. /\ thread[t].pc = "lsn" /\ thread[t] \in Calls /\ thread[t].op = "checkpoint"
      /\ UNCHANGED <<l2p_map, current_lsn, buffer, checkpoint, active_slot, history>>
      /\ thread'[t] = [thread[t] EXCEPT !.pc = "snapshot",
                          !.ckpt = [lsn |-> current_lsn, mappings |-> EmptyMap]]
  BY DEF ReadLsn, EngineInv, TypeInv, TypeOK, WellFormedCall
<1>3. /\ thread'[t].pc = "snapshot" /\ thread'[t].ckpt.lsn = current_lsn
      /\ thread'[t].op = "checkpoint" /\ thread'[t].loc = thread[t].loc
      /\ thread'[t].old = thread[t].old
  BY <1>2 DEF Calls
<1>4. KeysInv' /\ MapInv' /\ RecoverInv'
  BY <1>2, <1>3, LocalStep
<1>5. ChangeInv(thread[t])' /\ CheckpointInv(thread[t])'
  BY <1>2, <1>3 DEF ChangeInv, CheckpointInv, Marking
<1>6. CallsInv'
  BY <1>5, OthersInv
<1>7. LogInv'
  BY <1>2, <1>3 DEF EngineInv, LogInv, MarkerDue, Alone
<1>8. EpochInv'
  BY <1>2, <1>3, EpochFrame DEF EngineInv
<1> QED
  BY <1>1, <1>4, <1>6, <1>7, <1>8 DEF EngineInv

LEMMA SnapshotEngineInv ==
  ASSUME EngineInv, NEW t \in Threads, Snapshot(t), Alone(t)
  PROVE  EngineInv'
<1> USE DEF At, Goto, durable, history
<1>1. TypeInv'
  BY StepTypeInv DEF EngineInv, Step
<1>2. /\ thread[t].pc = "snapshot" /\ thread[t] \in Calls /\ thread[t].op = "checkpoint"
      /\ thread[t].ckpt \in Checkpoints
      /\ UNCHANGED <<l2p_map, current_lsn, buffer, checkpoint, active_slot, history>>
      /\ thread'[t] = [thread[t] EXCEPT !.pc = "write_slot",
                          !.ckpt = [thread[t].ckpt EXCEPT !.mappings = l2p_map]]
  BY DEF Snapshot, EngineInv, TypeInv, TypeOK, WellFormedCall
<1>3. /\ thread'[t].pc = "write_slot" /\ thread'[t].ckpt.lsn = thread[t].ckpt.lsn
      /\ thread'[t].ckpt.mappings = l2p_map /\ thread'[t].op = "checkpoint"
      /\ thread'[t].loc = thread[t].loc /\ thread'[t].old = thread[t].old
  BY <1>2 DEF Calls, Checkpoints
<1>4. KeysInv' /\ MapInv' /\ RecoverInv'
  BY <1>2, <1>3, LocalStep
<1>5. thread[t].ckpt.lsn = current_lsn
  BY <1>2 DEF EngineInv, CallsInv, CheckpointInv
<1>6. ChangeInv(thread[t])' /\ CheckpointInv(thread[t])'
  BY <1>2, <1>3, <1>5 DEF ChangeInv, CheckpointInv, Marking
<1>7. CallsInv'
  BY <1>6, OthersInv
<1>8. LogInv'
  BY <1>2, <1>3 DEF EngineInv, LogInv, MarkerDue, Alone
<1>9. EpochInv'
  BY <1>2, <1>3, EpochFrame DEF EngineInv
<1> QED
  BY <1>1, <1>4, <1>7, <1>8, <1>9 DEF EngineInv

\* Recovery from a checkpoint that holds the map and claims the whole log.
LEMMA RecoverHeld ==
  ASSUME TypeInv, NEW lsn, \A i \in 1..Len(buffer) : buffer[i].lsn <= lsn, lsn \in Nat
  PROVE  replay(l2p_map, entries_after(buffer, lsn)) = l2p_map
<1>1. buffer \in Seq(Entries)
  BY DEF TypeInv, TypeOK
<1>2. \A i \in 1..Len(buffer) : ~(buffer[i].lsn > lsn)
  BY LsnType
<1>3. entries_after(buffer, lsn) = <<>>
  BY <1>1, <1>2, NoneAfter
<1> QED
  BY <1>3, ReplayNothing

\* When no change is pending the map itself is what recovery has to give.
LEMMA MapIsRecovered ==
  ASSUME EngineInv, Recoverable, \A t \in Threads : ~At(t, "apply")
  PROVE  Keys(l2p_map) \subseteq used /\ \A b \in Lbas : lookup(l2p_map, b) = content[b]
<1>1. Intact
  BY DEF Intact
<1>2. \A b \in Lbas : ~Pending(b)
  BY DEF Pending
<1> QED
  BY <1>1, <1>2 DEF EngineInv, KeysInv, MapInv

LEMMA Others == \A s \in Slots : other(s) \in Slots /\ other(s) # s /\ other(other(s)) = s
BY DEF Slots, other

\* The checkpoint goes to the slot that recovery does not use, unless it is the only one.
LEMMA WriteSlotEngineInv ==
  ASSUME EngineInv, NEW t \in Threads, WriteSlot(t), Alone(t)
  PROVE  EngineInv'
<1> USE DEF At, Goto, history
<1> DEFINE k == thread[t].ckpt
<1>1. TypeInv'
  BY StepTypeInv DEF EngineInv, Step
<1>2. /\ thread[t].pc = "write_slot" /\ thread[t] \in Calls /\ thread[t].op = "checkpoint"
      /\ k \in Checkpoints /\ k # NoCheckpoint
      /\ checkpoint' = [checkpoint EXCEPT ![other(active_slot)] = k]
      /\ UNCHANGED <<l2p_map, current_lsn, buffer, active_slot, history>>
      /\ thread'[t] = [thread[t] EXCEPT !.pc = "switch_slot", !.range = NoLoc]
  BY NullAssumption DEF WriteSlot, EngineInv, TypeInv, TypeOK, WellFormedCall
<1>3. /\ thread'[t].pc = "switch_slot" /\ thread'[t].ckpt = k
      /\ thread'[t].op = "checkpoint" /\ thread'[t].loc = thread[t].loc
      /\ thread'[t].old = thread[t].old
  BY <1>2 DEF Calls
<1>4. /\ active_slot \in Slots /\ checkpoint \in [Slots -> Checkpoints \union {NoCheckpoint}]
      /\ current_lsn \in Nat /\ k.lsn \in Nat
  BY <1>2 DEF EngineInv, TypeInv, TypeOK, Checkpoints
<1>5. k.lsn = current_lsn /\ k.mappings = l2p_map
  BY <1>2 DEF EngineInv, CallsInv, CheckpointInv
<1>6. /\ checkpoint'[other(active_slot)] = k /\ checkpoint'[active_slot] = checkpoint[active_slot]
      /\ \A slot \in Slots : checkpoint'[slot] \in {checkpoint[slot], k}
  BY <1>2, <1>4, Others
<1> HIDE DEF k
<1>7. ChangeInv(thread[t])' /\ CheckpointInv(thread[t])'
  BY <1>2, <1>3, <1>5, <1>6 DEF ChangeInv, CheckpointInv, Marking
<1>8. CallsInv'
  BY <1>7, OthersInv
<1>9. LogInv'
  <2>1. \A u \in Threads : thread'[u].pc # "push"
    BY <1>3 DEF Alone
  <2>2. MarkerDue(t)'
    BY <1>3 DEF MarkerDue
  <2>3. \A slot \in Slots : checkpoint'[slot] # NoCheckpoint => checkpoint'[slot].lsn <= current_lsn
    BY <1>4, <1>5, <1>6 DEF EngineInv, LogInv
  <2> QED
    BY <1>2, <2>1, <2>2, <2>3 DEF EngineInv, LogInv
<1>10. EpochInv'
  BY <1>2, <1>3, EpochFrame DEF EngineInv
<1>11. Intact' = Intact /\ Recoverable' = Recoverable
  BY <1>2 DEF Intact, Recoverable
<1>12. KeysInv'
  BY <1>2, <1>11 DEF EngineInv, KeysInv
<1>13. \A u \in Threads : thread[u].pc # "apply" /\ thread'[u].pc # "apply"
  BY <1>2, <1>3 DEF Alone
<1>14. MapInv'
  BY <1>2, <1>11, <1>13 DEF EngineInv, MapInv, Pending
<1>15. recover' = recover \/ recover' = l2p_map
  <2>1. CASE checkpoint[active_slot] # NoCheckpoint
    <3>1. load_latest_checkpoint' = load_latest_checkpoint
      BY <1>2, <1>6, <2>1 DEF load_latest_checkpoint
    <3> QED
      BY <1>2, <3>1 DEF recover
  <2>2. CASE checkpoint[active_slot] = NoCheckpoint
    <3>1. load_latest_checkpoint' = k
      BY <1>2, <1>6, <2>2 DEF load_latest_checkpoint
    <3>2. recover' = replay(k.mappings, entries_after(buffer, k.lsn))
      BY <1>2, <3>1 DEF recover
    <3>3. \A i \in 1..Len(buffer) : buffer[i].lsn <= k.lsn
      BY <1>4, <1>5, LsnType DEF EngineInv, LogInv
    <3> QED
      BY <3>2, <3>3, <1>4, <1>5, RecoverHeld DEF EngineInv
  <2> QED
    BY <2>1, <2>2
<1>16. RecoverInv'
  BY <1>2, <1>11, <1>13, <1>15, MapIsRecovered DEF EngineInv, RecoverInv
<1> QED
  BY <1>1, <1>8, <1>9, <1>10, <1>12, <1>14, <1>16 DEF EngineInv

\* From now on recovery uses the new checkpoint, which holds the map as it is.
LEMMA SwitchSlotEngineInv ==
  ASSUME EngineInv, NEW t \in Threads, SwitchSlot(t), Alone(t)
  PROVE  EngineInv'
<1> USE DEF At, Goto, history
<1> DEFINE k == thread[t].ckpt
<1>1. TypeInv'
  BY StepTypeInv DEF EngineInv, Step
<1>2. /\ thread[t].pc = "switch_slot" /\ thread[t] \in Calls /\ thread[t].op = "checkpoint"
      /\ k \in Checkpoints /\ k # NoCheckpoint
      /\ active_slot' = other(active_slot)
      /\ UNCHANGED <<l2p_map, current_lsn, buffer, checkpoint, history>>
      /\ thread'[t] = [thread[t] EXCEPT !.pc = "log"]
  BY NullAssumption DEF SwitchSlot, EngineInv, TypeInv, TypeOK, WellFormedCall
<1>3. /\ thread'[t].pc = "log" /\ thread'[t].ckpt = k
      /\ thread'[t].op = "checkpoint" /\ thread'[t].loc = thread[t].loc
      /\ thread'[t].old = thread[t].old
  BY <1>2 DEF Calls
<1>4. current_lsn \in Nat /\ k.lsn \in Nat
  BY <1>2 DEF EngineInv, TypeInv, TypeOK, Checkpoints
<1>5. k.lsn = current_lsn /\ k.mappings = l2p_map /\ checkpoint[other(active_slot)] = k
  BY <1>2 DEF EngineInv, CallsInv, CheckpointInv
<1> HIDE DEF k
<1>6. ChangeInv(thread[t])' /\ CheckpointInv(thread[t])'
  BY <1>2, <1>3, <1>5 DEF ChangeInv, CheckpointInv, Marking
<1>7. CallsInv'
  BY <1>6, OthersInv
<1>8. LogInv'
  <2>1. \A u \in Threads : thread'[u].pc # "push"
    BY <1>3 DEF Alone
  <2>2. MarkerDue(t)'
    BY <1>3 DEF MarkerDue
  <2> QED
    BY <1>2, <2>1, <2>2 DEF EngineInv, LogInv
<1>9. EpochInv'
  BY <1>2, <1>3, EpochFrame DEF EngineInv
<1>10. Intact' = Intact /\ Recoverable' = Recoverable
  BY <1>2 DEF Intact, Recoverable
<1>11. KeysInv'
  BY <1>2, <1>10 DEF EngineInv, KeysInv
<1>12. \A u \in Threads : thread[u].pc # "apply" /\ thread'[u].pc # "apply"
  BY <1>2, <1>3 DEF Alone
<1>13. MapInv'
  BY <1>2, <1>10, <1>12 DEF EngineInv, MapInv, Pending
<1>14. recover' = l2p_map
  <2>1. load_latest_checkpoint' = k
    BY <1>2, <1>5 DEF load_latest_checkpoint
  <2>2. recover' = replay(k.mappings, entries_after(buffer, k.lsn))
    BY <1>2, <2>1 DEF recover
  <2>3. \A i \in 1..Len(buffer) : buffer[i].lsn <= k.lsn
    BY <1>4, <1>5, LsnType DEF EngineInv, LogInv
  <2> QED
    BY <2>2, <2>3, <1>4, <1>5, RecoverHeld DEF EngineInv
<1>15. RecoverInv'
  BY <1>2, <1>10, <1>12, <1>14, MapIsRecovered DEF RecoverInv
<1> QED
  BY <1>1, <1>7, <1>8, <1>9, <1>11, <1>13, <1>15 DEF EngineInv

\* What the checkpoint claims is dropped: nothing that recovery needs.
LEMMA TruncateEngineInv ==
  ASSUME EngineInv, NEW t \in Threads, Truncate(t), Alone(t)
  PROVE  EngineInv'
<1> USE DEF At, Goto, history
<1> DEFINE k == thread[t].ckpt
<1>1. TypeInv'
  BY StepTypeInv DEF EngineInv, Step
<1>2. /\ thread[t].pc = "truncate" /\ thread[t].op = "checkpoint"
      /\ k \in Checkpoints /\ k # NoCheckpoint /\ k.lsn \in Nat
      /\ buffer' = entries_after(buffer, k.lsn)
      /\ UNCHANGED <<l2p_map, current_lsn, checkpoint, active_slot, history>>
      /\ thread'[t] = Idle
  BY NullAssumption DEF Truncate, EngineInv, TypeInv, TypeOK, WellFormedCall, Checkpoints
<1>3. /\ k.mappings = l2p_map /\ checkpoint[active_slot] = k
      /\ \A i \in 1..Len(buffer) : buffer[i].lsn <= k.lsn
  BY <1>2 DEF EngineInv, CallsInv, CheckpointInv, Marking
<1> HIDE DEF k
<1>4. buffer' = <<>>
  <2>1. buffer \in Seq(Entries) /\ \A i \in 1..Len(buffer) : buffer[i].lsn \in Nat
    BY LsnType DEF EngineInv, TypeInv, TypeOK
  <2>2. \A i \in 1..Len(buffer) : ~(buffer[i].lsn > k.lsn)
    BY <1>2, <1>3, <2>1
  <2> QED
    BY <1>2, <2>1, <2>2, NoneAfter
<1>5. thread'[t].pc = "idle" /\ thread'[t].loc = NoLoc /\ thread'[t].old = NoLoc
  BY <1>2 DEF Idle
<1>6. ChangeInv(thread[t])' /\ CheckpointInv(thread[t])'
  BY <1>5 DEF ChangeInv, CheckpointInv, Marking
<1>7. CallsInv'
  BY <1>6, OthersInv
<1>8. LogInv'
  <2>1. \A u \in Threads : thread'[u].pc # "push"
    BY <1>5 DEF Alone
  <2>2. \A u \in Threads : ~MarkerDue(u)
    BY <1>2 DEF MarkerDue, Alone
  <2>3. 1..Len(buffer') = {}
    BY <1>4
  <2> QED
    BY <1>2, <2>1, <2>2, <2>3 DEF EngineInv, LogInv
<1>9. EpochInv'
  BY <1>2, <1>5, EpochFrame DEF EngineInv
<1>10. Intact' = Intact /\ Recoverable' = Recoverable
  BY <1>2 DEF Intact, Recoverable
<1>11. KeysInv'
  BY <1>2, <1>10 DEF EngineInv, KeysInv
<1>12. \A u \in Threads : thread[u].pc # "apply" /\ thread'[u].pc # "apply"
  BY <1>2, <1>5 DEF Alone
<1>13. MapInv'
  BY <1>2, <1>10, <1>12 DEF EngineInv, MapInv, Pending
<1>14. recover' = l2p_map
  <2>1. load_latest_checkpoint' = k
    BY <1>2, <1>3 DEF load_latest_checkpoint
  <2>2. recover' = replay(k.mappings, entries_after(<<>>, k.lsn))
    BY <1>2, <1>4, <2>1 DEF recover
  <2> QED
    BY <2>2, <1>3, NothingAfter, ReplayNothing
<1>15. RecoverInv'
  BY <1>2, <1>10, <1>12, <1>14, MapIsRecovered DEF RecoverInv
<1> QED
  BY <1>1, <1>7, <1>8, <1>9, <1>11, <1>13, <1>15 DEF EngineInv

\* Recovery is the replay of what follows a checkpoint, or of all there is.
LEMMA RecoverIs ==
  ASSUME TypeInv, UNCHANGED <<checkpoint, active_slot>>
  PROVE  \E base \in Maps, from \in Nat :
           /\ recover = replay(base, entries_after(buffer, from))
           /\ recover' = replay(base, entries_after(buffer', from))
           /\ \/ from = 0
              \/ \E slot \in Slots : checkpoint[slot] # NoCheckpoint /\ from = checkpoint[slot].lsn
           /\ checkpoint[active_slot] # NoCheckpoint => from = checkpoint[active_slot].lsn
<1> DEFINE latest == load_latest_checkpoint
<1>1. latest' = latest
  BY DEF load_latest_checkpoint
<1>2. active_slot \in Slots /\ \A slot \in Slots : checkpoint[slot] \in Checkpoints \union {NoCheckpoint}
  BY DEF TypeInv, TypeOK
<1>3. CASE latest = NoCheckpoint
  <2>1. checkpoint[active_slot] = NoCheckpoint
    BY <1>3 DEF load_latest_checkpoint
  <2>2. /\ recover = replay(EmptyMap, entries_after(buffer, 0))
        /\ recover' = replay(EmptyMap, entries_after(buffer', 0))
    BY <1>1, <1>3 DEF recover
  <2> QED
    BY <2>1, <2>2, EmptyMapIs
<1>4. CASE latest # NoCheckpoint
  <2>1. PICK slot \in Slots : latest = checkpoint[slot] /\ checkpoint[slot] # NoCheckpoint
    BY <1>2, <1>4, Others DEF load_latest_checkpoint
  <2>2. latest \in Checkpoints
    BY <1>2, <2>1
  <2>3. latest.mappings \in Maps /\ latest.lsn \in Nat
    BY <2>2 DEF Checkpoints, Maps
  <2>4. /\ recover = replay(latest.mappings, entries_after(buffer, latest.lsn))
        /\ recover' = replay(latest.mappings, entries_after(buffer', latest.lsn))
    BY <1>1, <1>4 DEF recover
  <2>5. checkpoint[active_slot] # NoCheckpoint => latest = checkpoint[active_slot]
    BY DEF load_latest_checkpoint
  <2> HIDE DEF latest
  <2> QED
    BY <2>1, <2>3, <2>4, <2>5
<1> QED
  BY <1>3, <1>4

\* One more entry in the log is applied last, or is covered by the checkpoint.
LEMMA RecoverAppend ==
  ASSUME NEW base, NEW from, NEW log \in Seq(Entries), NEW e \in Entries
  PROVE  replay(base, entries_after(Append(log, e), from)) =
           IF e.lsn > from THEN apply_wal_entry(replay(base, entries_after(log, from)), e)
                           ELSE replay(base, entries_after(log, from))
<1>1. entries_after(Append(log, e), from) = keep(entries_after(log, from), e, from)
  BY AfterAppend
<1>2. entries_after(log, from) \in Seq(Entries)
  BY AfterType
<1>3. CASE e.lsn > from
  <2>1. entries_after(Append(log, e), from) = Append(entries_after(log, from), e)
    BY <1>1, <1>3 DEF keep
  <2>2. replay(base, Append(entries_after(log, from), e)) =
          apply_wal_entry(replay(base, entries_after(log, from)), e)
    BY <1>2, ReplayAppend
  <2> QED
    BY <1>3, <2>1, <2>2
<1>4. CASE ~(e.lsn > from)
  BY <1>1, <1>4 DEF keep
<1> QED
  BY <1>3, <1>4

\* A change, or the marker of a checkpoint, is logged.
LEMMA PushEngineInv ==
  ASSUME EngineInv, NEW t \in Threads, Push(t), Alone(t)
  PROVE  EngineInv'
<1> USE DEF At, Goto
<1> DEFINE c == thread[t]
           e == [lsn |-> c.entry, type |-> c.op, range |-> c.range, loc |-> c.loc]
<1>1. TypeInv'
  BY StepTypeInv DEF EngineInv, Step
<1>2. /\ c.pc = "push" /\ c \in Calls /\ WellFormedCall(c)
      /\ buffer' = Append(buffer, e) /\ buffer \in Seq(Entries)
      /\ UNCHANGED <<l2p_map, current_lsn, checkpoint, active_slot, epoch, cut, seen>>
      /\ thread'[t] = [c EXCEPT !.pc = IF c.op = "checkpoint" THEN "truncate" ELSE "apply"]
  BY DEF Push, EngineInv, TypeInv, TypeOK
<1>3. /\ thread'[t].pc = IF c.op = "checkpoint" THEN "truncate" ELSE "apply"
      /\ thread'[t].op = c.op /\ thread'[t].range = c.range /\ thread'[t].loc = c.loc
      /\ thread'[t].old = c.old /\ thread'[t].ckpt = c.ckpt
  BY <1>2 DEF Calls
<1>4. e \in Entries /\ e.lsn = c.entry /\ c.entry \in Nat /\ current_lsn \in Nat
  BY <1>2 DEF Calls, Entries, EngineInv, TypeInv, TypeOK
<1>5. ChangeInv(c) /\ CheckpointInv(c)
  BY DEF EngineInv, CallsInv
<1>6. 0 < c.entry /\ c.entry < current_lsn
  BY <1>2, <1>5 DEF ChangeInv
<1> HIDE DEF e
<1>7. /\ Len(buffer') = Len(buffer) + 1 /\ Len(buffer) \in Nat
      /\ \A i \in 1..Len(buffer') : (i \in 1..Len(buffer) /\ buffer'[i] = buffer[i]) \/ buffer'[i] = e
  BY <1>2, <1>4
<1>8. LogInv'
  <2>1. \A i \in 1..Len(buffer') : buffer'[i].lsn < current_lsn
    BY <1>4, <1>6, <1>7 DEF EngineInv, LogInv
  <2>2. \A u \in Threads : thread'[u].pc # "push"
    BY <1>3 DEF Alone
  <2>3. (\A u \in Threads : ~MarkerDue(u)') => \A u \in Threads : ~MarkerDue(u)
    BY <1>2 DEF MarkerDue, Alone
  <2> QED
    BY <1>2, <2>1, <2>2, <2>3 DEF EngineInv, LogInv
<1>9. EpochInv'
  BY <1>2, <1>3, EpochFrame DEF EngineInv
<1>10. PICK base \in Maps, from \in Nat :
         /\ recover = replay(base, entries_after(buffer, from))
         /\ recover' = replay(base, entries_after(buffer', from))
         /\ \/ from = 0
            \/ \E slot \in Slots : checkpoint[slot] # NoCheckpoint /\ from = checkpoint[slot].lsn
         /\ checkpoint[active_slot] # NoCheckpoint => from = checkpoint[active_slot].lsn
  BY <1>2, RecoverIs DEF EngineInv
<1>11. recover' = IF e.lsn > from THEN apply_wal_entry(recover, e) ELSE recover
  BY <1>2, <1>4, <1>10, RecoverAppend
<1>12. CASE c.op = "checkpoint"
  <2>1. UNCHANGED <<content, used>> /\ thread'[t].pc = "truncate"
    BY <1>2, <1>3, <1>12 DEF Push
  <2>2. /\ c.entry = c.ckpt.lsn /\ c.ckpt.mappings = l2p_map /\ checkpoint[active_slot] = c.ckpt
        /\ \A i \in 1..Len(buffer) : buffer[i].lsn <= c.ckpt.lsn
    BY <1>2, <1>5, <1>12 DEF CheckpointInv, Marking
  <2>3. \A i \in 1..Len(buffer') : buffer'[i].lsn <= c.ckpt.lsn
    BY <1>4, <1>7, <2>2
  <2>4. ChangeInv(thread[t])' /\ CheckpointInv(thread[t])'
    BY <1>2, <1>3, <1>12, <2>1, <2>2, <2>3 DEF ChangeInv, CheckpointInv, Marking
  <2>5. CallsInv'
    BY <2>4, OthersInv
  <2>6. Intact' = Intact /\ Recoverable' = Recoverable
    BY <1>2, <2>1 DEF Intact, Recoverable
  <2>7. KeysInv'
    BY <1>2, <2>1, <2>6 DEF EngineInv, KeysInv
  <2>8. \A u \in Threads : thread[u].pc # "apply" /\ thread'[u].pc # "apply"
    BY <1>2, <2>1 DEF Alone
  <2>9. MapInv'
    BY <1>2, <2>1, <2>6, <2>8 DEF EngineInv, MapInv, Pending
  <2>10. c.ckpt # NoCheckpoint
    BY <1>2, <1>12, NullAssumption DEF WellFormedCall
  <2>11. recover' = recover
    BY <1>4, <1>10, <1>11, <2>2, <2>10
  <2>12. RecoverInv'
    BY <2>1, <2>6, <2>11 DEF EngineInv, RecoverInv
  <2> QED
    BY <1>1, <1>8, <1>9, <2>5, <2>7, <2>9, <2>12 DEF EngineInv
<1>13. CASE c.op # "checkpoint"
  <2>1. /\ content' = [b \in Lbas |-> IF contains(c.range, b) THEN c.loc ELSE content[b]]
        /\ used' = used \union {c.range} /\ thread'[t].pc = "apply"
    BY <1>2, <1>3, <1>13 DEF Push
  <2>2. c.range \in LbaRange /\ c.loc \in Locations \union {NoLoc}
    BY <1>2, <1>13 DEF WellFormedCall, Calls
  <2>3. ChangeInv(thread[t])' /\ CheckpointInv(thread[t])'
    BY <1>2, <1>3, <1>5, <1>13, <2>1 DEF ChangeInv, CheckpointInv, Marking
  <2>4. CallsInv'
    BY <2>3, OthersInv
  <2>5. (Recoverable' => Recoverable) /\ (Intact' => Intact)
    BY <1>2, <2>1 DEF Intact, Recoverable
  <2>6. KeysInv'
    BY <1>2, <2>1, <2>5 DEF EngineInv, KeysInv
  <2>7. MapInv'
    <3> SUFFICES ASSUME Intact'
                 PROVE  /\ Disjoint(l2p_map)
                        /\ \A b \in Lbas : ~Pending(b)' => lookup(l2p_map, b) = content'[b]
                        /\ \A b \in Lbas, u \in Threads :
                             thread'[u].pc = "apply" /\ contains(thread'[u].range, b) =>
                               content'[b] = thread'[u].loc
      BY <1>2 DEF MapInv
    <3>1. \A u \in Threads : thread[u].pc # "apply" /\ (u # t => thread'[u].pc # "apply")
      BY <1>2 DEF Alone
    <3>2. Disjoint(l2p_map) /\ \A b \in Lbas : lookup(l2p_map, b) = content[b]
      BY <3>1, <2>5 DEF EngineInv, MapInv, Pending
    <3>3. \A b \in Lbas : ~Pending(b)' => ~contains(c.range, b)
      BY <1>3, <2>1 DEF Pending
    <3> QED
      BY <1>3, <2>1, <3>1, <3>2, <3>3
  <2>8. RecoverInv'
    <3> SUFFICES ASSUME Recoverable'
                 PROVE  /\ Keys(recover') \subseteq used'
                        /\ \A b \in Lbas : lookup(recover', b) = content'[b]
      BY DEF RecoverInv, Keys
    <3>1. Keys(recover) \subseteq used /\ \A b \in Lbas : lookup(recover, b) = content[b]
      BY <2>5 DEF EngineInv, RecoverInv
    <3>2. \A r, s \in used \union {c.range} : overlaps(r, s) => r = s
      BY <2>1 DEF Recoverable
    <3>3. recover \in Maps
      BY RecoverType DEF EngineInv
    <3>4. Disjoint(recover)
      BY <3>1, <3>2 DEF Disjoint
    <3>5. c.range \in Keys(recover) \/ \A k \in Keys(recover) : ~overlaps(k, c.range)
      BY <3>1, <3>2
    <3>6. ~cut
      BY <1>2, <2>5 DEF Recoverable
    <3>7. c.entry > from
      BY <1>2, <1>4, <1>6, <1>10, <1>13, <3>6 DEF EngineInv, LogInv
    <3>8. recover' = [recover EXCEPT ![c.range] = c.loc]
      <4>1. recover' = apply_wal_entry(recover, e)
        BY <1>4, <1>11, <3>7
      <4>2. e.type = c.op /\ e.range = c.range /\ e.loc = c.loc
        BY DEF e
      <4>3. c.op \in {"insert", "update"} \/ (c.op = "delete" /\ c.loc = NoLoc)
        BY <1>2, <1>13 DEF WellFormedCall, Calls, EntryTypes
      <4> QED
        BY <4>1, <4>2, <4>3 DEF apply_wal_entry
    <3>9. LET new == [recover EXCEPT ![c.range] = c.loc]
          IN  /\ new \in Maps /\ Disjoint(new) /\ Keys(new) \subseteq Keys(recover) \union {c.range}
              /\ \A b \in Lbas : lookup(new, b) = IF contains(c.range, b) THEN c.loc
                                                                        ELSE lookup(recover, b)
      BY <2>2, <3>3, <3>4, <3>5, ReplaceIs, ZenonT(40)
    <3> QED
      BY <2>1, <3>1, <3>8, <3>9
  <2> QED
    BY <1>1, <1>8, <1>9, <2>4, <2>6, <2>7, <2>8 DEF EngineInv
<1> QED
  BY <1>12, <1>13

\* The change is made in the map: the pending blocks are found at their new location,
\* and no other block moves.
LEMMA AppliedMap ==
  ASSUME EngineInv, NEW t \in Threads, Apply(t)
  PROVE  /\ l2p_map' \in Maps
         /\ Disjoint(l2p_map) =>
              /\ Disjoint(l2p_map')
              /\ \A b \in Lbas : lookup(l2p_map', b) =
                   IF contains(thread[t].range, b) THEN thread[t].loc ELSE lookup(l2p_map, b)
              /\ (\A k \in Keys(l2p_map) : overlaps(k, thread[t].range) => k = thread[t].range) =>
                   Keys(l2p_map') \subseteq Keys(l2p_map) \union {thread[t].range}
<1> USE DEF At, Goto
<1> DEFINE c == thread[t]
<1>1. /\ c.pc = "apply" /\ c \in Calls /\ WellFormedCall(c) /\ ChangeInv(c)
      /\ l2p_map' = IF c.op = "insert"
                    THEN [handle_overlaps(l2p_map, c.range) EXCEPT ![c.range] = c.loc]
                    ELSE [l2p_map EXCEPT ![c.range] = c.loc]
  BY DEF Apply, EngineInv, TypeInv, TypeOK, CallsInv
<1>2. /\ c.range \in LbaRange /\ c.loc \in Locations \union {NoLoc}
      /\ c.op \in {"insert", "update", "delete"} /\ (c.op = "insert" => c.loc \in Locations)
      /\ c.op # "insert" => c.range \in Keys(l2p_map)
  BY <1>1 DEF WellFormedCall, Calls, EntryTypes, ChangeInv
<1>3. l2p_map \in Maps /\ l2p_map' \in Maps
  BY StepTypeInv DEF EngineInv, Step, TypeInv, TypeOK, Maps
<1> HIDE DEF c
<1>4. CASE Disjoint(l2p_map) /\ c.op = "insert"
  <2>1. LET new == [handle_overlaps(l2p_map, c.range) EXCEPT ![c.range] = c.loc]
        IN  /\ new \in Maps /\ Disjoint(new)
            /\ \A b \in Lbas : lookup(new, b) = IF contains(c.range, b) THEN c.loc ELSE lookup(l2p_map, b)
            /\ (\A k \in Keys(l2p_map) : overlaps(k, c.range) => k = c.range) =>
                 Keys(new) \subseteq Keys(l2p_map) \union {c.range}
    BY <1>2, <1>3, <1>4, InsertIs
  <2> QED
    BY <1>1, <1>3, <1>4, <2>1 DEF c
<1>5. CASE Disjoint(l2p_map) /\ c.op # "insert"
  <2>1. LET new == [l2p_map EXCEPT ![c.range] = c.loc]
        IN  /\ new \in Maps /\ Disjoint(new) /\ Keys(new) \subseteq Keys(l2p_map) \union {c.range}
            /\ \A b \in Lbas : lookup(new, b) = IF contains(c.range, b) THEN c.loc ELSE lookup(l2p_map, b)
    BY <1>2, <1>3, <1>5, ReplaceIs, ZenonT(40)
  <2> QED
    BY <1>1, <1>3, <1>5, <2>1 DEF c
<1> QED
  BY <1>3, <1>4, <1>5

LEMMA ApplyEngineInv ==
  ASSUME EngineInv, NEW t \in Threads, Apply(t), Alone(t)
  PROVE  EngineInv'
<1> USE DEF At, Goto
<1> DEFINE c == thread[t]
<1>1. TypeInv'
  BY StepTypeInv DEF EngineInv, Step
<1>2. /\ c.pc = "apply" /\ c \in Calls /\ WellFormedCall(c) /\ ChangeInv(c)
      /\ UNCHANGED <<generation, current_lsn, buffer, checkpoint, active_slot, epoch, cut, content, used>>
      /\ thread'[t] = [c EXCEPT !.pc = IF c.op = "delete" THEN "idle" ELSE "maybe_checkpoint"]
      /\ seen' = IF c.op = "delete" THEN seen ELSE seen \union {c.loc}
  BY DEF Apply, EngineInv, TypeInv, TypeOK, CallsInv, durable
<1>3. /\ thread'[t].pc \in {"idle", "maybe_checkpoint"}
      /\ thread'[t].loc = c.loc /\ thread'[t].old = c.old
  BY <1>2 DEF Calls
<1>4. c.range \in LbaRange /\ c.range \in used /\ c.loc \in Locations \union {NoLoc}
  BY <1>2 DEF WellFormedCall, ChangeInv, Calls
<1>5. ChangeInv(thread[t])' /\ CheckpointInv(thread[t])'
  BY <1>3 DEF ChangeInv, CheckpointInv, Marking
<1>6. CallsInv'
  BY <1>5, OthersInv
<1>7. LogInv'
  <2>1. \A u \in Threads : ~MarkerDue(u) /\ thread'[u].pc # "push"
    BY <1>2, <1>3 DEF MarkerDue, Alone
  <2> QED
    BY <1>2, <2>1 DEF EngineInv, LogInv
<1>8. EpochInv'
  <2> SUFFICES ASSUME epoch = 0
               PROVE  /\ \A r \in LbaRange : FirstEpoch(l2p_map'[r])
                      /\ \A loc \in seen' : FirstEpoch(loc)
                      /\ \A u \in Threads : FirstEpoch(thread'[u].loc) /\ FirstEpoch(thread'[u].old)
    BY <1>2 DEF EpochInv, FirstEpoch
  <2> DEFINE V == {loc \in Locations \union {NoLoc} : FirstEpoch(loc)}
  <2>1. /\ \A r \in LbaRange : FirstEpoch(l2p_map[r])
        /\ \A loc \in seen : FirstEpoch(loc)
        /\ \A u \in Threads : FirstEpoch(thread[u].loc) /\ FirstEpoch(thread[u].old)
    BY DEF EngineInv, EpochInv
  <2>2. NoLoc \in V /\ l2p_map \in [LbaRange -> V] /\ c.loc \in V
    BY <1>4, <2>1 DEF FirstEpoch, EngineInv, TypeInv, TypeOK
  <2>3. handle_overlaps(l2p_map, c.range) \in [LbaRange -> V]
    BY <1>4, <2>2, SplitType
  <2>4. l2p_map' \in [LbaRange -> V]
    BY <1>4, <2>2, <2>3 DEF Apply
  <2>5. \A u \in Threads \ {t} : thread'[u] = thread[u]
    BY DEF Alone
  <2> QED
    BY <1>2, <1>3, <2>1, <2>4, <2>5
<1>9. Intact' = Intact /\ Recoverable' = Recoverable
  BY <1>2 DEF Intact, Recoverable
<1>10. KeysInv'
  <2> SUFFICES ASSUME Recoverable PROVE Keys(l2p_map') \subseteq used
    BY <1>2, <1>9 DEF KeysInv, Keys
  <2>1. Keys(l2p_map) \subseteq used
    BY DEF EngineInv, KeysInv
  <2>2. Disjoint(l2p_map) /\ \A k \in Keys(l2p_map) : overlaps(k, c.range) => k = c.range
    BY <1>4, <2>1 DEF Recoverable, Disjoint
  <2>3. Keys(l2p_map') \subseteq Keys(l2p_map) \union {c.range}
    BY <2>2, AppliedMap
  <2> QED
    BY <1>4, <2>1, <2>3
<1>11. MapInv'
  <2> SUFFICES ASSUME Intact
               PROVE  /\ Disjoint(l2p_map')
                      /\ \A b \in Lbas : lookup(l2p_map', b) = content[b]
                      /\ \A u \in Threads : thread'[u].pc # "apply"
    BY <1>2, <1>9 DEF MapInv, Disjoint
  <2>1. \A u \in Threads : thread'[u].pc # "apply" /\ (u # t => thread[u].pc # "apply")
    BY <1>3 DEF Alone
  <2>2. /\ Disjoint(l2p_map)
        /\ \A b \in Lbas : ~contains(c.range, b) => lookup(l2p_map, b) = content[b]
        /\ \A b \in Lbas : contains(c.range, b) => content[b] = c.loc
    BY <1>2, <2>1 DEF EngineInv, MapInv, Pending
  <2>3. /\ Disjoint(l2p_map')
        /\ \A b \in Lbas : lookup(l2p_map', b) = IF contains(c.range, b) THEN c.loc
                                                                     ELSE lookup(l2p_map, b)
    BY <2>2, AppliedMap
  <2> QED
    BY <2>1, <2>2, <2>3
<1>12. RecoverInv'
  BY <1>2, <1>9, RecoverFrame DEF EngineInv, RecoverInv
<1> QED
  BY <1>1, <1>6, <1>7, <1>8, <1>10, <1>11, <1>12 DEF EngineInv

\* A new engine starts with what recovery gives.
LEMMA RestartEngineInv ==
  ASSUME EngineInv, Restart
  PROVE  EngineInv'
<1> USE DEF At, durable
<1>1. TypeInv'
  BY RestartTypeInv DEF EngineInv
<1>2. /\ UNCHANGED <<current_lsn, buffer, checkpoint, active_slot, content, used>>
      /\ epoch' = epoch + 1 /\ epoch \in Nat /\ l2p_map' = recover
      /\ cut' = (cut \/ \E t \in Threads : MarkerDue(t))
      /\ \A t \in Threads : thread'[t].pc = "idle"
  BY DEF Restart, Idle, EngineInv, TypeInv, TypeOK
<1>3. CallsInv'
  BY <1>2 DEF CallsInv, ChangeInv, CheckpointInv, Marking
<1>4. LogInv'
  BY <1>2 DEF EngineInv, LogInv
<1>5. EpochInv'
  BY <1>2 DEF EpochInv
<1>6. Recoverable' => Recoverable
  BY <1>2 DEF Recoverable
<1> epoch' # 0
  BY <1>2
<1>7. recover' = recover
  BY <1>2, RecoverFrame
<1>8. RecoverInv'
  BY <1>2, <1>6, <1>7 DEF EngineInv, RecoverInv
<1>9. Recoverable => Keys(recover) \subseteq used /\ Disjoint(recover)
                       /\ \A b \in Lbas : lookup(recover, b) = content[b]
  BY DEF EngineInv, RecoverInv, Recoverable, Disjoint
<1>10. KeysInv'
  BY <1>2, <1>6, <1>9 DEF KeysInv
<1>11. MapInv'
  BY <1>2, <1>6, <1>9 DEF MapInv, Intact, Disjoint
<1> QED
  BY <1>1, <1>3, <1>4, <1>5, <1>8, <1>10, <1>11 DEF EngineInv

LEMMA StutterEngineInv ==
  ASSUME EngineInv, UNCHANGED vars
  PROVE  EngineInv'
<1> USE DEF vars, durable, history, At
<1>1. TypeInv'
  BY StutterTypeInv DEF EngineInv
<1>2. CallsInv' /\ LogInv' /\ EpochInv' /\ KeysInv' /\ MapInv'
  BY DEF EngineInv, CallsInv, ChangeInv, CheckpointInv, Marking, LogInv, MarkerDue, EpochInv,
         FirstEpoch, KeysInv, MapInv, Pending, Intact, Recoverable
<1>3. RecoverInv'
  BY RecoverFrame DEF EngineInv, RecoverInv, Recoverable
<1> QED
  BY <1>1, <1>2, <1>3 DEF EngineInv

LEMMA NextEngineInv == EngineInv /\ Exclusive /\ Exclusive' /\ [Next]_vars => EngineInv'
<1> SUFFICES ASSUME EngineInv, Exclusive, Exclusive', [Next]_vars PROVE EngineInv'
  OBVIOUS
<1>1. ASSUME NEW t \in Threads, Call(t) \/ Step(t) PROVE Alone(t)
  BY <1>1, StepIsAlone DEF EngineInv
<1>2. ASSUME NEW t \in Threads, Call(t) PROVE EngineInv'
  BY <1>1, <1>2, CallEngineInv
<1>3. ASSUME NEW t \in Threads, Step(t) PROVE EngineInv'
  BY <1>1, <1>3, VerifyEngineInv, DrawLsnEngineInv, PushEngineInv, ApplyEngineInv,
     MaybeCheckpointEngineInv, ReadLsnEngineInv, SnapshotEngineInv, WriteSlotEngineInv,
     SwitchSlotEngineInv, TruncateEngineInv DEF Step
<1> QED
  BY <1>2, <1>3, RestartEngineInv, StutterEngineInv DEF Next

LEMMA EngineInvIsKept == Spec /\ []Exclusive => []EngineInv
BY InitEngineInv, NextEngineInv, PTL DEF Spec

-----------------------------------------------------------------------------
(* Safety.                                                                 *)

LEMMA InvMapIsExact == EngineInv => MapIsExact
<1> SUFFICES ASSUME EngineInv PROVE MapIsExact
  OBVIOUS
<1>1. TypeOK
  BY DEF EngineInv, TypeInv
<1>2. RangesAreDisjoint
  BY DEF EngineInv, MapInv, Intact, Disjoint, RangesAreDisjoint
<1>3. ASSUME Intact, \A t \in Threads : At(t, "idle")
      PROVE  Disjoint(l2p_map) /\ \A b \in Lbas : lookup(l2p_map, b) = content[b]
  BY <1>3 DEF EngineInv, MapInv, Pending, At
<1>4. LookupFindsLast
  BY <1>3 DEF Intact, LookupFindsLast
<1>5. RangeLookupFindsLast
  BY <1>3, RangeLookupIs DEF Intact, RangeLookupFindsLast
<1> QED
  BY <1>1, <1>2, <1>4, <1>5 DEF MapIsExact

\* The map is exact: while calls do not overlap its keys never do, and between two
\* calls lookup and lookup_range find for every block what was logged last, through
\* all splits, updates, deletions, checkpoints and restarts.
THEOREM MapStaysExact == Spec /\ []Exclusive => []MapIsExact
BY EngineInvIsKept, InvMapIsExact, PTL

\* Recovery finds what was logged last, wherever the engine stops: in a write, or at any
\* step of a checkpoint, as long as ranges are aligned and no marker was lost.
THEOREM RecoveryIsComplete == Spec /\ []Exclusive => []RecoveryFindsLast
<1>1. EngineInv => RecoveryFindsLast
  BY DEF EngineInv, RecoverInv, RecoveryFindsLast
<1> QED
  BY <1>1, EngineInvIsKept, PTL

\* An update takes effect on the location its caller expected: the generation that was
\* verified before the entry was logged still stands when the map is changed.
THEOREM UpdatesAreNotStale == Spec /\ []Exclusive => NoStaleUpdate
<1>1. ASSUME EngineInv, epoch = 0, NEW t \in Threads, At(t, "apply"), thread[t].op = "update"
      PROVE  l2p_map[thread[t].range] = thread[t].old
  <2> DEFINE c == thread[t]
  <2>1. /\ c.old \in Locations /\ c.range \in LbaRange /\ l2p_map[c.range] # NoLoc
        /\ l2p_map[c.range].generation = c.old.generation
    BY <1>1 DEF EngineInv, TypeInv, WellFormedCall, CallsInv, ChangeInv, At, Keys
  <2>2. l2p_map[c.range] \in Locations
    BY <1>1, <2>1 DEF EngineInv, TypeInv, TypeOK
  <2>3. l2p_map[c.range].epoch = 0 /\ c.old.epoch = 0
    BY <1>1, <2>1, NullAssumption DEF EngineInv, EpochInv, FirstEpoch
  <2> QED
    BY <2>1, <2>2, <2>3 DEF Locations
<1>2. EngineInv => (epoch = 0 =>
        \A t \in Threads :
          At(t, "apply") /\ ~At(t, "apply")' /\ epoch' = epoch /\ thread[t].op = "update"
            => l2p_map[thread[t].range] = thread[t].old)
  BY <1>1
<1> QED
  BY <1>2, EngineInvIsKept, PTL DEF NoStaleUpdate

-----------------------------------------------------------------------------
(* Refinement.                                                             *)

LEMMA StoreBegins == Init => Store!Begin
<1> SUFFICES ASSUME Init PROVE Store!Begin
  OBVIOUS
<1>1. [b \in Lbas |-> lookup(l2p_map, b)] = [b \in Lbas |-> NoLoc]
  BY EmptyMapIs DEF Init
<1>2. content = [b \in Lbas |-> NoLoc] /\ (epoch = 0 \/ Recoverable) = TRUE
  BY DEF Init
<1> QED
  BY <1>1, <1>2 DEF Store!Begin

\* What lookups see, and the variables of the store.
Seen == [b \in Lbas |-> lookup(l2p_map, b)]
storeVars == <<Seen, content, Intact>>

\* The blocks of a range are a run.
LEMMA RangeIsRun ==
  ASSUME NEW r \in LbaRange
  PROVE  /\ r.start \in Lbas /\ r.end - 1 \in Lbas
         /\ Store!Run(r.start, r.end - 1) = {b \in Lbas : contains(r, b)}
<1>1. r.start \in Nat /\ r.end \in Nat /\ r.start < r.end /\ r.end <= Size
  BY RangeType
<1>2. r.start \in Lbas /\ r.end - 1 \in Lbas
  BY <1>1, EngineAssumption DEF Lbas
<1>3. \A b \in Lbas : r.start <= b /\ b <= r.end - 1 <=> contains(r, b)
  BY <1>1, EngineAssumption DEF Lbas, contains
<1> QED
  BY <1>2, <1>3 DEF Store!Run

\* Logging a change is the store's Log: the blocks of the range, and none else, are
\* given one location.
LEMMA PushMaps ==
  ASSUME EngineInv, NEW t \in Threads, Push(t)
  PROVE  Store!Log \/ UNCHANGED <<Seen, content>>
<1> DEFINE c == thread[t]
<1>1. c \in Calls /\ WellFormedCall(c) /\ c.pc = "push" /\ UNCHANGED l2p_map
  BY DEF Push, At, EngineInv, TypeInv, TypeOK
<1>2. Seen' = Seen
  BY <1>1 DEF Seen
<1>3. CASE c.op = "checkpoint"
  BY <1>2, <1>3 DEF Push
<1>4. CASE c.op # "checkpoint"
  <2>1. /\ c.range \in LbaRange
        /\ content' = [b \in Lbas |-> IF contains(c.range, b) THEN c.loc ELSE content[b]]
    BY <1>1, <1>4 DEF Push, WellFormedCall
  <2> DEFINE from == c.range.start
             to == c.range.end - 1
  <2>2. from \in Lbas /\ to \in Lbas /\ Store!Run(from, to) = {b \in Lbas : contains(c.range, b)}
    BY <2>1, RangeIsRun
  <2> HIDE DEF from, to
  <2>3. \A b \in Lbas \ Store!Run(from, to) : content'[b] = content[b]
    BY <2>1, <2>2
  <2>4. \A b, d \in Store!Run(from, to) : content'[b] = content'[d]
    BY <2>1, <2>2
  <2> QED
    BY <1>2, <2>2, <2>3, <2>4 DEF Store!Log, Seen
<1> QED
  BY <1>3, <1>4

\* Applying it is the store's Show: it is seen for all blocks of the range at once.
LEMMA ApplyMaps ==
  ASSUME EngineInv, NEW t \in Threads, Apply(t), Intact
  PROVE  Store!Show
<1> DEFINE c == thread[t]
<1>1. c \in Calls /\ WellFormedCall(c) /\ c.pc = "apply" /\ UNCHANGED content
  BY DEF Apply, At, EngineInv, TypeInv, TypeOK
<1>2. c.range \in LbaRange
  BY <1>1 DEF WellFormedCall
<1>3. Disjoint(l2p_map) /\ \A b \in Lbas : contains(c.range, b) => content[b] = c.loc
  BY <1>1 DEF EngineInv, MapInv, At
<1>4. \A b \in Lbas : lookup(l2p_map', b) = IF contains(c.range, b) THEN c.loc ELSE lookup(l2p_map, b)
  BY <1>3, AppliedMap
<1> DEFINE from == c.range.start
           to == c.range.end - 1
<1>5. from \in Lbas /\ to \in Lbas /\ Store!Run(from, to) = {b \in Lbas : contains(c.range, b)}
  BY <1>2, RangeIsRun
<1> HIDE DEF from, to
<1>6. Seen' = [b \in Lbas |-> IF b \in Store!Run(from, to) THEN content[b] ELSE Seen[b]]
  <2>1. \A b \in Lbas : Seen'[b] = IF b \in Store!Run(from, to) THEN content[b] ELSE Seen[b]
    BY <1>3, <1>4, <1>5 DEF Seen
  <2>2. Seen' = [b \in Lbas |-> Seen'[b]]
    BY DEF Seen
  <2> QED
    BY <2>1, <2>2
<1> QED
  BY <1>1, <1>5, <1>6 DEF Store!Show, Seen

\* A restart is the store's Recover.
LEMMA RestartMaps ==
  ASSUME EngineInv, Restart, Recoverable
  PROVE  Store!Recover
<1>1. UNCHANGED content /\ l2p_map' = recover
  BY DEF Restart
<1>2. \A b \in Lbas : lookup(recover, b) = content[b]
  BY DEF EngineInv, RecoverInv
<1>3. content = [b \in Lbas |-> content[b]]
  BY DEF EngineInv, TypeInv, TypeOK
<1>4. [b \in Lbas |-> lookup(l2p_map', b)] = content
  BY <1>1, <1>2, <1>3
<1> QED
  BY <1>1, <1>4 DEF Store!Recover

\* Every step of the engine is a step of the store, or is not seen there.
LEMMA StoreSteps ==
  ASSUME EngineInv, [Next]_vars
  PROVE  Store!Change \/ UNCHANGED storeVars
<1> SUFFICES ASSUME Intact'
             PROVE  \/ Intact /\ (Store!Log \/ Store!Show \/ Store!Recover)
                    \/ UNCHANGED storeVars
  BY DEF Store!Change, Intact
<1>1. CASE UNCHANGED vars
  BY <1>1 DEF vars, durable, history, storeVars, Seen, Intact, Recoverable
<1>2. ASSUME NEW t \in Threads, Call(t) PROVE UNCHANGED storeVars
  <2>1. UNCHANGED <<l2p_map, content, epoch, used, cut>>
    BY <1>2 DEF Call, insert_mapping, update_mapping, delete_mapping, create_checkpoint, durable,
                history
  <2> QED
    BY <2>1 DEF storeVars, Seen, Intact, Recoverable
<1>3. ASSUME NEW t \in Threads, Push(t)
      PROVE  Intact /\ (Store!Log \/ UNCHANGED storeVars)
  <2>1. UNCHANGED <<epoch, cut>> /\ used \subseteq used'
    BY <1>3 DEF Push
  <2>2. Intact
    BY <2>1 DEF Intact, Recoverable
  <2> QED
    BY <1>3, <2>2, PushMaps DEF storeVars
<1>4. ASSUME NEW t \in Threads, Apply(t) PROVE Intact /\ Store!Show
  <2>1. UNCHANGED <<epoch, used, cut>>
    BY <1>4 DEF Apply
  <2>2. Intact
    BY <2>1 DEF Intact, Recoverable
  <2> QED
    BY <1>4, <2>2, ApplyMaps
<1>5. ASSUME NEW t \in Threads, Step(t), ~Push(t), ~Apply(t) PROVE UNCHANGED storeVars
  <2>1. UNCHANGED <<l2p_map, content, epoch, used, cut>>
    BY <1>5 DEF Step, Verify, DrawLsn, maybe_checkpoint, ReadLsn, Snapshot, WriteSlot, SwitchSlot,
                Truncate, durable, history
  <2> QED
    BY <2>1 DEF storeVars, Seen, Intact, Recoverable
<1>6. CASE Restart
  <2>1. Recoverable
    BY <1>6 DEF Restart, Intact, Recoverable, EngineInv, TypeInv, TypeOK
  <2> QED
    BY <1>6, <2>1, RestartMaps DEF Intact
<1> QED
  BY <1>1, <1>2, <1>3, <1>4, <1>5, <1>6 DEF Next

\* The engine implements the store of blocks: changes are logged before they are seen,
\* are seen at once for the blocks of a range, and recovery comes back with what was
\* logged last.
THEOREM EngineImplementsStore == Spec /\ []Exclusive => ImplementsStore
<1>1. EngineInv /\ [Next]_vars =>
        [Store!Change]_<<[b \in Lbas |-> lookup(l2p_map, b)], content, epoch = 0 \/ Recoverable>>
  BY StoreSteps DEF storeVars, Seen, Intact
<1> QED
  BY <1>1, StoreBegins, EngineInvIsKept, PTL DEF Spec, ImplementsStore, Store!Promise

-----------------------------------------------------------------------------
(* One thread.                                                             *)

OneThread == \A t, u \in Threads : t = u

\* The calls of a single thread never overlap.
LEMMA OneThreadIsExclusive == OneThread => Exclusive
BY DEF OneThread, Exclusive

\* For a single thread, nothing has to be assumed of the calls.
THEOREM OneThreadIsSafe ==
  ASSUME OneThread
  PROVE  Spec => []MapIsExact /\ []RecoveryFindsLast /\ NoStaleUpdate /\ ImplementsStore
<1>1. Exclusive
  BY OneThreadIsExclusive
<1> QED
  BY <1>1, MapStaysExact, RecoveryIsComplete, UpdatesAreNotStale, EngineImplementsStore, PTL

-----------------------------------------------------------------------------
(* Sequences.                                                              *)

LEMMA SequenceIs ==
  ASSUME NEW S, NEW s \in Seq(S)
  PROVE  /\ Len(s) \in Nat /\ DOMAIN s = 1..Len(s) /\ \A k \in 1..Len(s) : s[k] \in S
         /\ ToSet(s) = {s[k] : k \in 1..Len(s)} /\ ToSet(s) \subseteq S
         /\ s = <<>> <=> Len(s) = 0
BY DEF ToSet

LEMMA EmptySequenceIs == ToSet(<<>>) = {} /\ IsInjective(<<>>)
<1>1. \A s : DOMAIN s = {} => ToSet(s) = {} /\ IsInjective(s)
  BY DEF ToSet, IsInjective
<1>2. DOMAIN <<>> = {}
  OBVIOUS
<1> QED
  BY <1>1, <1>2

\* A sequence with one element more.
LEMMA AppendIs ==
  ASSUME NEW S, NEW s \in Seq(S), NEW x \in S
  PROVE  /\ Append(s, x) \in Seq(S) /\ Len(Append(s, x)) = Len(s) + 1
         /\ ToSet(Append(s, x)) = ToSet(s) \union {x}
         /\ IsInjective(s) /\ x \notin ToSet(s) => IsInjective(Append(s, x))
<1> DEFINE more == Append(s, x)
<1>1. /\ more \in Seq(S) /\ Len(more) = Len(s) + 1 /\ more[Len(s) + 1] = x
      /\ \A k \in 1..Len(s) : more[k] = s[k]
      /\ Len(s) \in Nat /\ DOMAIN more = 1..Len(more) /\ DOMAIN s = 1..Len(s)
  OBVIOUS
<1> HIDE DEF more
<1>2. \A k \in 1..Len(more) : k \in 1..Len(s) \/ k = Len(s) + 1
  BY <1>1
<1>3. x \notin ToSet(s) => \A k \in 1..Len(s) : s[k] # x
  BY <1>1 DEF ToSet
<1>4. IsInjective(s) /\ x \notin ToSet(s) => IsInjective(more)
  BY <1>1, <1>2, <1>3 DEF IsInjective
<1>5. ToSet(more) = ToSet(s) \union {x}
  BY <1>1, <1>2 DEF ToSet
<1> QED
  BY <1>1, <1>4, <1>5 DEF more

\* A sequence without its head.
LEMMA TailIs ==
  ASSUME NEW S, NEW s \in Seq(S), s # <<>>
  PROVE  /\ Tail(s) \in Seq(S) /\ Head(s) \in S /\ Len(Tail(s)) = Len(s) - 1
         /\ ToSet(s) = ToSet(Tail(s)) \union {Head(s)}
         /\ IsInjective(s) => IsInjective(Tail(s)) /\ Head(s) \notin ToSet(Tail(s))
<1> DEFINE rest == Tail(s)
<1>1. /\ rest \in Seq(S) /\ Len(rest) = Len(s) - 1 /\ Head(s) = s[1] /\ s[1] \in S
      /\ \A k \in 1..Len(rest) : rest[k] = s[k + 1]
      /\ Len(s) \in Nat /\ Len(s) > 0 /\ DOMAIN rest = 1..Len(rest) /\ DOMAIN s = 1..Len(s)
  OBVIOUS
<1> HIDE DEF rest
<1>2. \A k \in 1..Len(s) : k = 1 \/ (k - 1 \in 1..Len(rest) /\ (k - 1) + 1 = k)
  BY <1>1
<1>3. \A k \in 1..Len(rest) : k + 1 \in 1..Len(s) /\ k + 1 # 1
  BY <1>1
<1>4. ASSUME IsInjective(s) PROVE IsInjective(rest)
  <2>1. ASSUME NEW j \in 1..Len(rest), NEW k \in 1..Len(rest), rest[j] = rest[k] PROVE j = k
    <3>1. j + 1 \in DOMAIN s /\ k + 1 \in DOMAIN s /\ s[j + 1] = s[k + 1]
      BY <1>1, <1>3, <2>1
    <3>2. j + 1 = k + 1
      BY <3>1, <1>4 DEF IsInjective
    <3> QED
      BY <3>2
  <2> QED
    BY <2>1, <1>1 DEF IsInjective
<1>5. IsInjective(s) => s[1] \notin ToSet(rest)
  <2> SUFFICES ASSUME IsInjective(s), s[1] \in ToSet(rest) PROVE FALSE
    OBVIOUS
  <2>1. PICK k \in 1..Len(rest) : rest[k] = s[1]
    BY <1>1 DEF ToSet
  <2>2. k + 1 \in DOMAIN s /\ 1 \in DOMAIN s /\ s[k + 1] = s[1] /\ k + 1 # 1
    BY <1>1, <1>3, <2>1
  <2> QED
    BY <2>2 DEF IsInjective
<1>6. ToSet(s) = ToSet(rest) \union {s[1]}
  <2>1. ASSUME NEW x \in ToSet(s) PROVE x \in ToSet(rest) \union {s[1]}
    <3>1. PICK k \in 1..Len(s) : x = s[k]
      BY <1>1 DEF ToSet
    <3>2. CASE k = 1
      BY <3>1, <3>2
    <3>3. CASE k - 1 \in 1..Len(rest) /\ (k - 1) + 1 = k
      <4>1. rest[k - 1] = x
        BY <1>1, <3>1, <3>3
      <4> QED
        BY <4>1, <1>1, <3>3 DEF ToSet
    <3> QED
      BY <1>2, <3>2, <3>3
  <2>2. \A x \in ToSet(rest) : x \in ToSet(s)
    BY <1>1, <1>3 DEF ToSet
  <2>3. s[1] \in ToSet(s)
    BY <1>1 DEF ToSet
  <2> QED
    BY <2>1, <2>2, <2>3
<1> QED
  BY <1>1, <1>4, <1>5, <1>6 DEF rest

\* A sequence taken apart.
LEMMA ExtractIs ==
  ASSUME NEW S, NEW s \in Seq(S), NEW n \in 0..Len(s)
  PROVE  LET a == SubSeq(s, 1, n)  b == SubSeq(s, n + 1, Len(s)) IN
         /\ a \in Seq(S) /\ b \in Seq(S) /\ Len(a) = n
         /\ ToSet(s) = ToSet(a) \union ToSet(b)
         /\ IsInjective(s) =>
              IsInjective(a) /\ IsInjective(b) /\ ToSet(a) \intersect ToSet(b) = {}
<1> DEFINE a == SubSeq(s, 1, n)
           b == SubSeq(s, n + 1, Len(s))
<1>1. /\ a \in Seq(S) /\ Len(a) = n /\ \A k \in 1..n : a[k] = s[k]
      /\ b \in Seq(S) /\ Len(b) = Len(s) - n /\ \A k \in 1..(Len(s) - n) : b[k] = s[n + k]
      /\ Len(s) \in Nat /\ n \in Nat /\ n <= Len(s)
      /\ DOMAIN a = 1..n /\ DOMAIN b = 1..(Len(s) - n) /\ DOMAIN s = 1..Len(s)
  OBVIOUS
<1> HIDE DEF a, b
<1>2. \A k \in 1..Len(s) : k \in 1..n \/ (k - n \in 1..(Len(s) - n) /\ n + (k - n) = k)
  BY <1>1
<1>3. /\ \A k \in 1..n : k \in 1..Len(s)
      /\ \A k \in 1..(Len(s) - n) : n + k \in 1..Len(s) /\ n + k \notin 1..n
  BY <1>1
<1>4. ToSet(s) = ToSet(a) \union ToSet(b)
  <2>1. ASSUME NEW x \in ToSet(s) PROVE x \in ToSet(a) \union ToSet(b)
    <3>1. PICK k \in 1..Len(s) : x = s[k]
      BY <1>1 DEF ToSet
    <3>2. CASE k \in 1..n
      BY <1>1, <3>1, <3>2 DEF ToSet
    <3>3. CASE k - n \in 1..(Len(s) - n) /\ n + (k - n) = k
      <4>1. b[k - n] = x
        BY <1>1, <3>1, <3>3
      <4> QED
        BY <4>1, <1>1, <3>3 DEF ToSet
    <3> QED
      BY <1>2, <3>2, <3>3
  <2>2. \A x \in ToSet(a) : x \in ToSet(s)
    BY <1>1, <1>3 DEF ToSet
  <2>3. \A x \in ToSet(b) : x \in ToSet(s)
    BY <1>1, <1>3 DEF ToSet
  <2> QED
    BY <2>1, <2>2, <2>3
<1>5. ASSUME IsInjective(s)
      PROVE  IsInjective(a) /\ IsInjective(b) /\ ToSet(a) \intersect ToSet(b) = {}
  <2>1. IsInjective(a)
    BY <1>1, <1>3, <1>5 DEF IsInjective
  <2>2. ASSUME NEW j \in DOMAIN b, NEW k \in DOMAIN b, b[j] = b[k] PROVE j = k
    <3>1. n + j \in DOMAIN s /\ n + k \in DOMAIN s /\ s[n + j] = s[n + k]
      BY <1>1, <1>3, <2>2
    <3>2. n + j = n + k
      BY <3>1, <1>5 DEF IsInjective
    <3> QED
      BY <3>2, <1>1
  <2>3. ASSUME NEW j \in 1..n, NEW k \in 1..(Len(s) - n), a[j] = b[k] PROVE FALSE
    <3>1. j \in DOMAIN s /\ n + k \in DOMAIN s /\ s[j] = s[n + k] /\ j # n + k
      BY <1>1, <1>3, <2>3
    <3> QED
      BY <3>1, <1>5 DEF IsInjective
  <2>4. ToSet(a) \intersect ToSet(b) = {}
    BY <1>1, <2>3 DEF ToSet
  <2> QED
    BY <2>1, <2>2, <2>4 DEF IsInjective
<1> QED
  BY <1>1, <1>4, <1>5 DEF a, b

-----------------------------------------------------------------------------
(* Stripes.                                                                *)

\* A set of naturals with an upper bound has its least and its greatest element in it.
LEMMA MinMaxIs ==
  ASSUME NEW T, T \subseteq Nat, T # {}, NEW n \in Nat, \A x \in T : x <= n
  PROVE  /\ Min(T) \in T /\ \A y \in T : Min(T) <= y
         /\ Max(T) \in T /\ \A y \in T : y <= Max(T)
<1>1. \E x \in T : \A y \in T : x <= y
  BY NatMin
<1>2. Min(T) \in T /\ \A y \in T : Min(T) <= y
  BY <1>1, Zenon DEF Min
<1>3. \E x \in T : \A y \in T : y <= x
  <2>1. T \subseteq Int /\ n \in Int
    OBVIOUS
  <2> QED
    BY <2>1, IntMax
<1>4. \E x \in T : \A y \in T : x >= y
  BY <1>3
<1>5. Max(T) \in T /\ \A y \in T : Max(T) >= y
  BY <1>4, Zenon DEF Max
<1>6. \A y \in T : y <= Max(T)
  BY <1>5
<1> QED
  BY <1>2, <1>5, <1>6

TaskTypes == [pc: TaskPcs, writes: Seq(Writes), shards: 0..TotalShards,
              loc: Locations \union {NoLoc}]

\* DestageTypeOK but for the engine and the permits.
PipelineTypes ==
  /\ mode \in Modes
  /\ journal \in Seq([vol: Volumes, range: LbaRange, loc: Locations \union {NoLoc}])
  /\ pending \in 0..Len(journal)
  /\ channel \in Seq(Writes)
  /\ buffers \in [Volumes -> Seq(Writes)]
  /\ tasks \in [Tasks -> TaskTypes]
  /\ looping \in BOOLEAN
  /\ trimmed \subseteq Writes /\ acked \subseteq Writes
  /\ raced \in BOOLEAN

\* The journal holds ranges.
LEMMA WriteType ==
  ASSUME PipelineTypes
  PROVE  /\ Len(journal) \in Nat /\ Writes \subseteq Nat /\ 0 \notin Writes
         /\ \A w \in Writes : /\ journal[w].vol \in Volumes
                              /\ RangeOf(w) \in LbaRange
                              /\ journal[w].loc \in Locations \union {NoLoc}
<1>1. journal \in Seq([vol: Volumes, range: LbaRange, loc: Locations \union {NoLoc}])
  BY DEF PipelineTypes
<1>2. Len(journal) \in Nat /\ Writes \subseteq Nat /\ 0 \notin Writes
  BY <1>1 DEF Writes
<1>3. ASSUME NEW w \in Writes
      PROVE  /\ journal[w].vol \in Volumes
             /\ RangeOf(w) \in LbaRange
             /\ journal[w].loc \in Locations \union {NoLoc}
  <2>1. w \in 1..Len(journal)
    BY DEF Writes
  <2>2. journal[w] \in [vol: Volumes, range: LbaRange, loc: Locations \union {NoLoc}]
    BY <1>1, <2>1, SequenceIs
  <2> QED
    BY <2>2 DEF RangeOf
<1> QED
  BY <1>2, <1>3

\* A stripe of any writes covers the range of each, and begins and ends with one.
LEMMA StripeRangeIs ==
  ASSUME PipelineTypes, NEW writes \in Seq(Writes), writes # <<>>
  PROVE  LET range == calculate_lba_range(writes) IN
         /\ range \in LbaRange
         /\ \A w \in ToSet(writes) : range.start <= RangeOf(w).start /\ RangeOf(w).end <= range.end
         /\ \E w \in ToSet(writes) : range.start = RangeOf(w).start
<1> DEFINE W == ToSet(writes)
           starts == {RangeOf(w).start : w \in W}
           ends == {RangeOf(w).end : w \in W}
           range == calculate_lba_range(writes)
<1>1. W # {} /\ W \subseteq Writes
  <2>1. writes[1] \in W
    BY SequenceIs DEF ToSet
  <2> QED
    BY <2>1, SequenceIs
<1> HIDE DEF W
<1>2. \A w \in W : RangeOf(w) \in LbaRange
  BY <1>1, WriteType
<1>3. /\ starts \subseteq Nat /\ starts # {} /\ Size \in Nat /\ \A x \in starts : x <= Size
      /\ ends \subseteq Nat /\ ends # {} /\ \A x \in ends : x <= Size
  BY <1>1, <1>2, RangeType, EngineAssumption
<1>4. range.start = Min(starts) /\ range.end = Max(ends) /\ range = [start |-> Min(starts), end |-> Max(ends)]
  BY DEF calculate_lba_range, W
<1>5. Min(starts) \in starts /\ \A y \in starts : Min(starts) <= y
  BY <1>3, MinMaxIs
<1>6. Max(ends) \in ends /\ \A y \in ends : y <= Max(ends)
  BY <1>3, MinMaxIs
<1> HIDE DEF range
<1>7. \A w \in W : range.start <= RangeOf(w).start /\ RangeOf(w).end <= range.end
  BY <1>4, <1>5, <1>6
<1>8. PICK w \in W : range.start = RangeOf(w).start
  BY <1>4, <1>5
<1>9. range.start \in Nat /\ range.end \in Nat /\ range.end <= Size
  BY <1>3, <1>4, <1>5, <1>6
<1>10. range.start < range.end
  BY <1>2, <1>7, <1>8, <1>9, RangeType
<1>11. range \in LbaRange
  BY <1>4, <1>9, <1>10, RangeType
<1> QED
  BY <1>7, <1>8, <1>11 DEF range, W

\* The function that Total is defined by.
IsSum(f, sizes, N) == f = [n \in 0..N |-> IF n = 0 THEN 0 ELSE f[n - 1] + sizes[n]]

LEMMA SumExists ==
  ASSUME NEW sizes, NEW N \in Nat
  PROVE  \E f : IsSum(f, sizes, N)
<1> DEFINE T == {k \in Nat : \E f : IsSum(f, sizes, k)}
<1>1. 0 \in T
  <2>1. IsSum([n \in 0..0 |-> 0], sizes, 0)
    BY DEF IsSum
  <2> QED
    BY <2>1
<1>2. ASSUME NEW k \in T PROVE k + 1 \in T
  <2>1. PICK f : IsSum(f, sizes, k)
    OBVIOUS
  <2> DEFINE g == [n \in 0..(k + 1) |-> IF n <= k THEN f[n] ELSE f[k] + sizes[k + 1]]
  <2>2. ASSUME NEW n \in 0..(k + 1) PROVE g[n] = IF n = 0 THEN 0 ELSE g[n - 1] + sizes[n]
    <3>1. CASE n = 0
      BY <3>1, <2>1 DEF IsSum
    <3>2. CASE n # 0 /\ n <= k
      BY <3>2, <2>1 DEF IsSum
    <3>3. CASE n = k + 1
      BY <3>3
    <3> QED
      BY <3>1, <3>2, <3>3
  <2>3. IsSum(g, sizes, k + 1)
    BY <2>2 DEF IsSum
  <2> HIDE DEF g
  <2> QED
    BY <2>3
<1>3. T \subseteq Nat
  OBVIOUS
<1> HIDE DEF T
<1>4. N \in T
  BY <1>1, <1>2, <1>3, NatInd
<1> QED
  BY <1>4 DEF T

\* What adding N sizes does, a size at a time.
Sums(f, sizes, N) == f[0] = 0 /\ \A n \in 1..N : f[n] = f[n - 1] + sizes[n]

LEMMA TotalIs ==
  ASSUME NEW sizes, NEW N, N \in Nat, N = Len(sizes)
  PROVE  \E f : Sums(f, sizes, N) /\ Total(sizes) = f[N]
<1>1. \E f : f = [n \in 0..N |-> IF n = 0 THEN 0 ELSE f[n - 1] + sizes[n]]
  BY SumExists, Zenon DEF IsSum
<1> DEFINE sum[n \in 0..N] == IF n = 0 THEN 0 ELSE sum[n - 1] + sizes[n]
<1>2. sum = [n \in 0..N |-> IF n = 0 THEN 0 ELSE sum[n - 1] + sizes[n]]
  BY <1>1, Zenon
<1>3. Total(sizes) = sum[N]
  BY Zenon DEF Total
<1> HIDE DEF sum
<1>4. Sums(sum, sizes, N)
  BY <1>2 DEF Sums
<1> QED
  BY <1>3, <1>4

\* No writes have no bytes; one write has its own.
LEMMA NoBytes == buffered_bytes(<<>>) = 0
<1> DEFINE sizes == [i \in 1..Len(<<>>) |-> length(<<>>[i])]
<1>1. sizes = <<>> /\ Len(sizes) = 0
  OBVIOUS
<1>2. buffered_bytes(<<>>) = Total(sizes)
  BY DEF buffered_bytes
<1> HIDE DEF sizes
<1>3. 0 \in Nat /\ 0 = Len(sizes)
  BY <1>1
<1>4. PICK f : Sums(f, sizes, 0) /\ Total(sizes) = f[0]
  BY <1>3, TotalIs
<1> QED
  BY <1>2, <1>4 DEF Sums

LEMMA OneWritesBytes ==
  ASSUME NEW w, length(w) \in Nat
  PROVE  buffered_bytes(<<w>>) = length(w)
<1>1. PICK sizes : sizes = [i \in 1..Len(<<w>>) |-> length(<<w>>[i])]
  OBVIOUS
<1>2. Len(<<w>>) = 1 /\ <<w>>[1] = w
  OBVIOUS
<1>3. Len(sizes) = 1 /\ sizes[1] = length(w)
  BY <1>1, <1>2
<1>4. buffered_bytes(<<w>>) = Total(sizes)
  BY <1>1 DEF buffered_bytes
<1>5. PICK N : N = 1 /\ N \in Nat /\ N = Len(sizes)
  BY <1>3
<1>6. PICK f : Sums(f, sizes, N) /\ Total(sizes) = f[N]
  BY <1>5, TotalIs
<1>7. Total(sizes) = f[1] /\ f[1] = f[0] + sizes[1]
  <2>1. 1 \in 1..N /\ 1 - 1 = 0
    BY <1>5
  <2> QED
    BY <1>5, <1>6, <2>1 DEF Sums
<1>8. f[0] = 0
  BY <1>6 DEF Sums
<1> QED
  BY <1>3, <1>4, <1>7, <1>8

\* A buffer that has a stripe gives at least one write to it, and no more than it has.
LEMMA ExtractedIs ==
  ASSUME NEW S, NEW writes \in Seq(S), is_stripe_ready(writes)
  PROVE  Extracted(writes) \in 1..Len(writes) /\ writes # <<>>
<1> DEFINE T == {n \in 1..Len(writes) : is_stripe_ready(SubSeq(writes, 1, n))}
<1>0. writes # <<>>
  BY NoBytes, DestageAssumption DEF is_stripe_ready
<1>1. SubSeq(writes, 1, Len(writes)) = writes /\ Len(writes) \in 1..Len(writes)
  BY <1>0
<1>2. T \subseteq Nat /\ \A x \in T : x <= Len(writes)
  BY <1>1
<1>3. Len(writes) \in T
  BY <1>1, Zenon
<1> HIDE DEF T
<1>4. Min(T) \in T
  BY <1>1, <1>2, <1>3, MinMaxIs
<1> QED
  BY <1>0, <1>4 DEF T, Extracted

-----------------------------------------------------------------------------
(* Type correctness.                                                       *)

TypesInv ==
  /\ TypeInv /\ PipelineTypes
  /\ \A t \in Tasks : tasks[t].pc # "free" => tasks[t].writes # <<>>

\* What a lookup returns.
LEMMA LookupType ==
  ASSUME NEW map \in Maps, NEW b
  PROVE  lookup(map, b) \in Locations \union {NoLoc}
<1> DEFINE below == {r \in Keys(map) : r.start <= b}
<1>1. below \subseteq LbaRange
  BY DEF Keys
<1>2. below # {} => Greatest(below) \in LbaRange
  BY <1>1, GreatestExists
<1>3. lookup(map, b) = IF below # {} /\ contains(Greatest(below), b) THEN map[Greatest(below)]
                                                                     ELSE NoLoc
  BY DEF lookup
<1> HIDE DEF below
<1> QED
  BY <1>2, <1>3 DEF Maps

LEMMA DrawnType == TypeInv => Drawn \in Locations
BY DEF Drawn, Locations, TypeInv, TypeOK

\* A call for any range, within the bound of generations.
LEMMA InsertTypeInv ==
  ASSUME TypeInv, NEW t \in Threads, NEW r \in LbaRange, insert_mapping(t, r),
         generation <= MaxGeneration
  PROVE  TypeInv'
<1> DEFINE c == [Idle EXCEPT !.pc = "log", !.op = "insert", !.range = r, !.loc = Drawn]
<1>1. c \in Calls /\ WellFormedCall(c)
  BY DrawnType, IdleType DEF Idle, Calls, Pcs, EntryTypes, WellFormedCall
<1>2. thread' = [thread EXCEPT ![t] = c] /\ generation' = generation + 1
  BY DEF insert_mapping
<1> HIDE DEF c
<1>3. thread' \in [Threads -> Calls] /\ \A u \in Threads : WellFormedCall(thread'[u])
  BY <1>1, <1>2, CallType
<1>4. generation' \in 1..(MaxGeneration + 1)
  BY <1>2, EngineAssumption DEF TypeInv, TypeOK
<1> QED
  BY <1>3, <1>4 DEF TypeInv, TypeOK, insert_mapping, durable, history

LEMMA UpdateTypeInv ==
  ASSUME TypeInv, NEW t \in Threads, NEW r \in LbaRange, NEW old \in Locations,
         update_mapping(t, r, old), generation <= MaxGeneration
  PROVE  TypeInv'
<1> DEFINE c == [Idle EXCEPT !.pc = "verify", !.op = "update", !.range = r, !.loc = Drawn,
                             !.old = old]
<1>1. c \in Calls /\ WellFormedCall(c)
  BY DrawnType, IdleType DEF Idle, Calls, Pcs, EntryTypes, WellFormedCall
<1>2. thread' = [thread EXCEPT ![t] = c] /\ generation' = generation + 1
  BY DEF update_mapping
<1> HIDE DEF c
<1>3. thread' \in [Threads -> Calls] /\ \A u \in Threads : WellFormedCall(thread'[u])
  BY <1>1, <1>2, CallType
<1>4. generation' \in 1..(MaxGeneration + 1)
  BY <1>2, EngineAssumption DEF TypeInv, TypeOK
<1> QED
  BY <1>3, <1>4 DEF TypeInv, TypeOK, update_mapping, durable, history

\* What a task's call is for.
LEMMA UpdateMetadataIs ==
  ASSUME TypesInv, NEW t \in Tasks, update_metadata(t)
  PROVE  /\ calculate_lba_range(tasks[t].writes) \in LbaRange /\ TypeInv'
         /\ \/ insert_mapping(t, calculate_lba_range(tasks[t].writes))
            \/ \E old \in Locations : update_mapping(t, calculate_lba_range(tasks[t].writes), old)
<1> DEFINE range == calculate_lba_range(tasks[t].writes)
           old == lookup(l2p_map, range.start)
<1>1. tasks[t].writes \in Seq(Writes) /\ tasks[t].writes # <<>>
  BY DEF TypesInv, PipelineTypes, TaskTypes, update_metadata, TaskAt
<1>2. range \in LbaRange
  BY <1>1, StripeRangeIs DEF TypesInv
<1>3. /\ generation <= MaxGeneration
      /\ IF old # NoLoc THEN update_mapping(t, range, old) ELSE insert_mapping(t, range)
  BY DEF update_metadata
<1>4. l2p_map \in Maps /\ TypeInv /\ t \in Threads
  BY DEF TypesInv, TypeInv, TypeOK, Maps, Tasks
<1>5. old \in Locations \union {NoLoc}
  BY <1>4, LookupType
<1> HIDE DEF range, old
<1>6. CASE old # NoLoc
  <2>1. update_mapping(t, range, old) /\ old \in Locations
    BY <1>3, <1>5, <1>6
  <2>2. TypeInv'
    BY <2>1, <1>2, <1>3, <1>4, UpdateTypeInv
  <2> QED
    BY <2>1, <2>2, <1>2 DEF range
<1>7. CASE old = NoLoc
  <2>1. insert_mapping(t, range)
    BY <1>3, <1>7
  <2>2. TypeInv'
    BY <2>1, <1>2, <1>3, <1>4, InsertTypeInv
  <2> QED
    BY <2>1, <2>2, <1>2 DEF range
<1> QED
  BY <1>6, <1>7

LEMMA FreeType == Free \in TaskTypes
BY DestageAssumption DEF Free, TaskTypes, TaskPcs, TotalShards

LEMMA InitTypesInv == DestageInit => TypesInv
<1> SUFFICES ASSUME DestageInit PROVE TypesInv
  OBVIOUS
<1>1. TypeInv
  BY InitTypeInv DEF DestageInit
<1>2. Free \in TaskTypes
  BY FreeType
<1>3. tasks \in [Tasks -> TaskTypes] /\ \A t \in Tasks : tasks[t].pc = "free"
  BY <1>2 DEF DestageInit, Free
<1>4. buffers \in [Volumes -> Seq(Writes)]
  BY DEF DestageInit
<1>5. journal \in Seq([vol: Volumes, range: LbaRange, loc: Locations \union {NoLoc}])
  BY DEF DestageInit
<1>6. pending \in 0..Len(journal) /\ channel \in Seq(Writes)
  BY DEF DestageInit
<1> QED
  BY <1>1, <1>3, <1>4, <1>5, <1>6 DEF DestageInit, TypesInv, PipelineTypes

\* Steps that leave the engine alone.
LEMMA EngineStays ==
  ASSUME TypeInv, UNCHANGED engine
  PROVE  TypeInv'
BY StutterTypeInv DEF engine

\* What a step of a task does to it.
Moves == {<<"acquire", "encode">>, <<"encode", "write">>, <<"write", "metadata">>,
          <<"metadata", "mapping">>, <<"mapping", "mapping">>, <<"mapping", "trim">>,
          <<"trim", "done">>, <<"encode", "failed">>, <<"write", "failed">>,
          <<"mapping", "failed">>}

TaskMove(old, new) ==
  /\ <<old.pc, new.pc>> \in Moves
  /\ new.writes = old.writes
  /\ new.loc = IF old.pc = "metadata" THEN Drawn ELSE old.loc
  /\ IF old.pc = "write" /\ new.pc = "metadata" THEN mode.dry_run \/ new.shards >= DataShards
                                                ELSE new.shards = old.shards

LEMMA GotoIs ==
  ASSUME PipelineTypes, NEW t \in Tasks, NEW pc \in TaskPcs, TaskGoto(t, pc),
         <<tasks[t].pc, pc>> \in Moves, tasks[t].pc \notin {"metadata", "write"} \/ pc = "failed"
  PROVE  \E c \in TaskTypes : tasks' = [tasks EXCEPT ![t] = c] /\ c.pc = pc /\ TaskMove(tasks[t], c)
<1> DEFINE c == [tasks[t] EXCEPT !.pc = pc]
<1>1. tasks[t] \in TaskTypes
  BY DEF PipelineTypes
<1>2. /\ c \in TaskTypes /\ c.pc = pc /\ c.writes = tasks[t].writes /\ c.shards = tasks[t].shards
      /\ c.loc = tasks[t].loc
  BY <1>1 DEF TaskTypes
<1>3. tasks' = [tasks EXCEPT ![t] = c]
  BY DEF TaskGoto
<1> HIDE DEF c
<1>4. <<tasks[t].pc, c.pc>> \in Moves
  BY <1>2
<1>5. ~(tasks[t].pc = "write" /\ c.pc = "metadata") /\ tasks[t].pc # "metadata"
  BY <1>2, <1>4 DEF Moves
<1> QED
  BY <1>2, <1>3, <1>4, <1>5 DEF TaskMove

LEMMA ShardsAreEnough ==
  ASSUME NEW failed \in 0..TotalShards, ~(failed > ParityShards)
  PROVE  TotalShards - failed \in 0..TotalShards /\ TotalShards - failed >= DataShards
BY DestageAssumption DEF TotalShards

LEMMA WriteShardsIs ==
  ASSUME PipelineTypes, NEW t \in Tasks, write_shards(t)
  PROVE  \E c \in TaskTypes : tasks' = [tasks EXCEPT ![t] = c] /\ TaskMove(tasks[t], c)
<1>1. tasks[t] \in TaskTypes /\ tasks[t].pc = "write"
  BY DEF PipelineTypes, write_shards, TaskAt
<1>2. CASE mode.dry_run
  <2> DEFINE c == [tasks[t] EXCEPT !.pc = "metadata"]
  <2>1. tasks' = [tasks EXCEPT ![t] = c]
    BY <1>2 DEF write_shards, TaskGoto
  <2>2. c \in TaskTypes /\ c.pc = "metadata" /\ c.writes = tasks[t].writes /\ c.loc = tasks[t].loc
    BY <1>1 DEF TaskTypes, TaskPcs
  <2> HIDE DEF c
  <2>3. TaskMove(tasks[t], c)
    BY <1>1, <1>2, <2>2 DEF TaskMove, Moves
  <2> QED
    BY <2>1, <2>2, <2>3
<1>3. ASSUME ~mode.dry_run, NEW failed \in 0..TotalShards, failed > ParityShards, Fail(t)
      PROVE  \E c \in TaskTypes : tasks' = [tasks EXCEPT ![t] = c] /\ TaskMove(tasks[t], c)
  BY <1>1, <1>3, GotoIs DEF Fail, TaskPcs, Moves
<1>4. ASSUME ~mode.dry_run, NEW failed \in 0..TotalShards, ~(failed > ParityShards),
             tasks' = [tasks EXCEPT ![t].pc = "metadata", ![t].shards = TotalShards - failed]
      PROVE  \E c \in TaskTypes : tasks' = [tasks EXCEPT ![t] = c] /\ TaskMove(tasks[t], c)
  <2>1. PICK n : n = TotalShards - failed
    OBVIOUS
  <2>2. n \in 0..TotalShards /\ n >= DataShards
    BY <1>4, <2>1, ShardsAreEnough
  <2> DEFINE c == [tasks[t] EXCEPT !.pc = "metadata", !.shards = n]
  <2>3. tasks' = [tasks EXCEPT ![t] = c]
    BY <1>4, <2>1
  <2>4. /\ c \in TaskTypes /\ c.pc = "metadata" /\ c.writes = tasks[t].writes
        /\ c.loc = tasks[t].loc /\ c.shards = n
    BY <1>1, <2>2 DEF TaskTypes, TaskPcs
  <2> HIDE DEF c
  <2>5. TaskMove(tasks[t], c)
    BY <1>1, <2>2, <2>4 DEF TaskMove, Moves
  <2> QED
    BY <2>3, <2>4, <2>5
<1> QED
  BY <1>2, <1>3, <1>4 DEF write_shards

LEMMA TaskStepIs ==
  ASSUME TypesInv, NEW t \in Tasks, acquire(t) \/ TaskStep(t)
  PROVE  /\ UNCHANGED others /\ TypeInv'
         /\ trimmed' = trimmed \/ trim_journal(t)
         /\ \E c \in TaskTypes : tasks' = [tasks EXCEPT ![t] = c] /\ TaskMove(tasks[t], c)
<1> USE DEF TaskAt
<1>0. PipelineTypes /\ TypeInv /\ t \in Threads /\ tasks[t] \in TaskTypes
  BY DEF TypesInv, PipelineTypes, Tasks
<1>1. CASE acquire(t)
  <2>1. tasks[t].pc = "acquire" /\ TaskGoto(t, "encode")
    BY <1>1 DEF acquire
  <2>2. \E c \in TaskTypes : tasks' = [tasks EXCEPT ![t] = c] /\ TaskMove(tasks[t], c)
    BY <1>0, <2>1, GotoIs DEF Moves, TaskPcs
  <2> QED
    BY <1>0, <1>1, <2>2, EngineStays DEF acquire, others
<1>2. CASE encode(t)
  <2>1. tasks[t].pc = "encode" /\ (TaskGoto(t, "write") \/ TaskGoto(t, "failed"))
    BY <1>2 DEF encode, Fail
  <2>2. \E c \in TaskTypes : tasks' = [tasks EXCEPT ![t] = c] /\ TaskMove(tasks[t], c)
    BY <1>0, <2>1, GotoIs DEF Moves, TaskPcs
  <2> QED
    BY <1>0, <1>2, <2>2, EngineStays DEF encode, others
<1>3. CASE write_shards(t)
  BY <1>0, <1>3, WriteShardsIs, EngineStays DEF write_shards, others
<1>4. CASE update_metadata(t)
  <2> DEFINE c == [tasks[t] EXCEPT !.pc = "mapping", !.loc = Drawn]
  <2>1. tasks' = [tasks EXCEPT ![t] = c] /\ tasks[t].pc = "metadata"
    BY <1>4 DEF update_metadata
  <2>2. Drawn \in Locations
    BY <1>0, DrawnType
  <2>3. /\ c \in TaskTypes /\ c.pc = "mapping" /\ c.writes = tasks[t].writes
        /\ c.shards = tasks[t].shards /\ c.loc = Drawn
    BY <1>0, <2>2 DEF TaskTypes, TaskPcs
  <2> HIDE DEF c
  <2>4. TaskMove(tasks[t], c)
    BY <2>1, <2>3 DEF TaskMove, Moves
  <2>5. TypeInv'
    BY <1>4, UpdateMetadataIs
  <2> QED
    BY <1>4, <2>1, <2>3, <2>4, <2>5 DEF update_metadata, others
<1>5. CASE MapStripe(t)
  <2>1. TypeInv' /\ tasks[t].pc = "mapping" /\ UNCHANGED <<others, trimmed>>
    BY <1>0, <1>5, StepTypeInv DEF MapStripe
  <2>2. UNCHANGED tasks \/ TaskGoto(t, "trim") \/ TaskGoto(t, "failed")
    BY <1>5 DEF MapStripe, Fail
  <2>3. CASE UNCHANGED tasks
    <3>1. tasks' = [tasks EXCEPT ![t] = tasks[t]]
      BY <1>0, <2>3 DEF PipelineTypes
    <3>2. TaskMove(tasks[t], tasks[t])
      BY <2>1 DEF TaskMove, Moves
    <3> QED
      BY <1>0, <2>1, <3>1, <3>2
  <2>4. CASE TaskGoto(t, "trim") \/ TaskGoto(t, "failed")
    BY <1>0, <2>1, <2>4, GotoIs DEF Moves, TaskPcs
  <2> QED
    BY <2>1, <2>2, <2>3, <2>4
<1>6. CASE trim_journal(t)
  <2>1. tasks[t].pc = "trim" /\ TaskGoto(t, "done")
    BY <1>6 DEF trim_journal
  <2>2. \E c \in TaskTypes : tasks' = [tasks EXCEPT ![t] = c] /\ TaskMove(tasks[t], c)
    BY <1>0, <2>1, GotoIs DEF Moves, TaskPcs
  <2> QED
    BY <1>0, <1>6, <2>2, EngineStays DEF trim_journal, others
<1> QED
  BY <1>1, <1>2, <1>3, <1>4, <1>5, <1>6 DEF TaskStep

\* The steps of a task, of any kind.
LEMMA TaskTypesInv ==
  ASSUME TypesInv, NEW t \in Tasks, acquire(t) \/ TaskStep(t)
  PROVE  TypesInv'
<1>1. /\ UNCHANGED <<channel, buffers, looping, mode, journal, pending, acked, raced>> /\ TypeInv'
      /\ trimmed' = trimmed \/ trim_journal(t)
  BY TaskStepIs DEF others
<1>2. PICK c \in TaskTypes : tasks' = [tasks EXCEPT ![t] = c] /\ TaskMove(tasks[t], c)
  BY TaskStepIs
<1>3. tasks \in [Tasks -> TaskTypes] /\ trimmed \subseteq Writes
  BY DEF TypesInv, PipelineTypes
<1>4. c.writes # <<>>
  <2>1. tasks[t].pc # "free" /\ c.writes = tasks[t].writes
    BY <1>2 DEF TaskMove, Moves
  <2> QED
    BY <2>1 DEF TypesInv
<1>5. tasks' \in [Tasks -> TaskTypes] /\ \A u \in Tasks : tasks'[u].pc # "free" => tasks'[u].writes # <<>>
  BY <1>2, <1>3, <1>4 DEF TypesInv
<1>6. trimmed' \subseteq Writes
  <2>1. tasks[t].writes \in Seq(Writes)
    BY <1>3 DEF TaskTypes
  <2>2. ToSet(tasks[t].writes) \subseteq Writes
    BY <2>1, SequenceIs
  <2> QED
    BY <1>1, <1>3, <2>2 DEF trim_journal
<1>7. Writes' = Writes /\ TaskTypes' = TaskTypes
  BY <1>1 DEF Writes, TaskTypes
<1> QED
  BY <1>1, <1>5, <1>6, <1>7 DEF TypesInv, PipelineTypes

\* The journal grows: what was a sequence of writes still is.
LEMMA WritesGrow ==
  ASSUME NEW V, NEW W, V \subseteq W
  PROVE  Seq(V) \subseteq Seq(W)
<1> SUFFICES ASSUME NEW s \in Seq(V) PROVE s \in Seq(W)
  OBVIOUS
<1>1. Len(s) \in Nat /\ DOMAIN s = 1..Len(s) /\ \A i \in 1..Len(s) : s[i] \in W
  OBVIOUS
<1>2. s = [i \in 1..Len(s) |-> s[i]]
  OBVIOUS
<1> QED
  BY <1>1, <1>2

LEMMA HostWriteTypesInv ==
  ASSUME TypesInv, NEW req \in Requests, HostWrite(req)
  PROVE  /\ TypesInv' /\ Len(journal') = Len(journal) + 1
         /\ \A w \in Writes : journal'[w] = journal[w]
         /\ journal'[Len(journal) + 1].vol = req.vol /\ journal'[Len(journal) + 1].range = req.range
         /\ mode.maps => journal'[Len(journal) + 1].loc = Drawn /\ insert_mapping(Host, req.range)
         /\ ~mode.maps => UNCHANGED engine
         /\ UNCHANGED <<pipeline, mode, acked>> /\ pending' = Len(journal) + 1 /\ pending = 0
         /\ raced' = (raced \/ \E w \in Underway : overlaps(RangeOf(w), req.range))
<1> DEFINE W == [vol: Volumes, range: LbaRange, loc: Locations \union {NoLoc}]
           n == Len(journal) + 1
<1>1. req.vol \in Volumes /\ req.range \in LbaRange /\ Host \in Threads
  BY DestageAssumption, EngineAssumption
<1>2. /\ journal \in Seq(W) /\ TypeInv /\ tasks \in [Tasks -> TaskTypes]
      /\ channel \in Seq(Writes) /\ buffers \in [Volumes -> Seq(Writes)]
      /\ trimmed \subseteq Writes /\ acked \subseteq Writes
  BY DEF TypesInv, PipelineTypes
<1>3. Drawn \in Locations
  BY <1>2, DrawnType
<1>4. generation <= MaxGeneration /\ pending' = n
  BY DEF HostWrite
<1>5. PICK e \in W : /\ journal' = Append(journal, e) /\ e.vol = req.vol /\ e.range = req.range
                     /\ mode.maps => e.loc = Drawn /\ insert_mapping(Host, req.range)
                     /\ ~mode.maps => UNCHANGED engine
  <2>1. CASE mode.maps
    <3> DEFINE e == [vol |-> req.vol, range |-> req.range, loc |-> Drawn]
    <3>1. e \in W /\ e.vol = req.vol /\ e.range = req.range /\ e.loc = Drawn
      BY <1>1, <1>3
    <3>2. journal' = Append(journal, e) /\ insert_mapping(Host, req.range)
      BY <2>1 DEF HostWrite
    <3> HIDE DEF e, W
    <3> QED
      BY <2>1, <3>1, <3>2
  <2>2. CASE ~mode.maps
    <3> DEFINE e == [vol |-> req.vol, range |-> req.range, loc |-> NoLoc]
    <3>1. e \in W /\ e.vol = req.vol /\ e.range = req.range
      BY <1>1
    <3>2. journal' = Append(journal, e) /\ UNCHANGED engine
      BY <2>2 DEF HostWrite
    <3> HIDE DEF e, W
    <3> QED
      BY <2>2, <3>1, <3>2
  <2> QED
    BY <2>1, <2>2
<1>6. TypeInv'
  <2>1. CASE mode.maps
    BY <1>1, <1>2, <1>4, <1>5, <2>1, InsertTypeInv
  <2>2. CASE ~mode.maps
    BY <1>2, <1>5, <2>2, EngineStays
  <2> QED
    BY <2>1, <2>2
<1> HIDE DEF W
<1>7. /\ journal' \in Seq(W) /\ Len(journal') = n /\ n \in Nat /\ journal'[n] = e
      /\ \A w \in 1..Len(journal) : journal'[w] = journal[w]
      /\ Writes \subseteq Writes'
  BY <1>2, <1>5 DEF Writes
<1>8. Seq(Writes) \subseteq Seq(Writes')
  BY <1>7, WritesGrow
<1>9. TaskTypes \subseteq TaskTypes'
  BY <1>8 DEF TaskTypes
<1>10. UNCHANGED <<pipeline, mode, acked>> /\ raced' = (raced \/ \E w \in Underway : overlaps(RangeOf(w), req.range))
       /\ pending = 0
  BY DEF HostWrite
<1>11. PipelineTypes'
  <2>1. channel' \in Seq(Writes') /\ buffers' \in [Volumes -> Seq(Writes')]
    BY <1>2, <1>8, <1>10 DEF pipeline
  <2>2. tasks' \in [Tasks -> TaskTypes']
    BY <1>2, <1>9, <1>10 DEF pipeline
  <2>3. pending' \in 0..Len(journal') /\ trimmed' \subseteq Writes' /\ acked' \subseteq Writes'
    BY <1>2, <1>4, <1>7, <1>10 DEF pipeline
  <2>4. raced' \in BOOLEAN
    BY <1>10
  <2> QED
    BY <1>7, <1>10, <2>1, <2>2, <2>3, <2>4 DEF TypesInv, PipelineTypes, pipeline, W
<1>12. TypesInv'
  BY <1>6, <1>10, <1>11 DEF TypesInv, pipeline
<1> QED
  BY <1>4, <1>5, <1>7, <1>10, <1>12 DEF Writes

\* The task that takes a stripe, and the writes it takes.
LEMMA ProcessIs ==
  ASSUME TypesInv, NEW v \in Volumes, process_ready_stripes(v)
  PROVE  /\ UNCHANGED <<engine, channel, permits, looping, trimmed, mode, journal, pending, acked, raced>>
         /\ \E t \in Tasks, n \in 1..Len(buffers[v]), c \in TaskTypes :
              /\ tasks[t].pc = "free" /\ tasks' = [tasks EXCEPT ![t] = c]
              /\ c.pc = "acquire" /\ c.shards = 0 /\ c.loc = NoLoc
              /\ c.writes = SubSeq(buffers[v], 1, n) /\ c.writes # <<>>
              /\ buffers' = [buffers EXCEPT ![v] = SubSeq(@, n + 1, Len(@))]
<1> DEFINE t == CHOOSE u \in Tasks : tasks[u].pc = "free"
           n == Extracted(buffers[v])
           c == [Free EXCEPT !.pc = "acquire", !.writes = SubSeq(buffers[v], 1, n)]
<1>1. t \in Tasks /\ tasks[t].pc = "free"
  BY DEF process_ready_stripes
<1>2. buffers[v] \in Seq(Writes) /\ is_stripe_ready(buffers[v])
  BY DEF process_ready_stripes, TypesInv, PipelineTypes
<1>3. n \in 1..Len(buffers[v])
  BY <1>2, ExtractedIs
<1>4. /\ tasks' = [tasks EXCEPT ![t] = c]
      /\ buffers' = [buffers EXCEPT ![v] = SubSeq(@, n + 1, Len(@))]
      /\ UNCHANGED <<engine, channel, permits, looping, trimmed, mode, journal, pending, acked, raced>>
  BY DEF process_ready_stripes
<1> HIDE DEF t, n
<1>5. SubSeq(buffers[v], 1, n) \in Seq(Writes) /\ Len(SubSeq(buffers[v], 1, n)) = n
  BY <1>2, <1>3
<1>6. SubSeq(buffers[v], 1, n) # <<>>
  BY <1>3, <1>5
<1>7. /\ c.pc = "acquire" /\ c.shards = 0 /\ c.loc = NoLoc /\ c.writes = SubSeq(buffers[v], 1, n)
  BY DEF Free
<1>8. c \in TaskTypes
  <2>1. Free \in TaskTypes
    BY FreeType
  <2> QED
    BY <1>5, <2>1 DEF TaskTypes, TaskPcs
<1> HIDE DEF c
<1> QED
  BY <1>1, <1>3, <1>4, <1>6, <1>7, <1>8

LEMMA ProcessTypesInv ==
  ASSUME TypesInv, NEW v \in Volumes, process_ready_stripes(v)
  PROVE  TypesInv'
<1>1. UNCHANGED <<engine, channel, permits, looping, trimmed, mode, journal, pending, acked, raced>>
  BY ProcessIs
<1>2. PICK t \in Tasks, n \in 1..Len(buffers[v]), c \in TaskTypes :
        /\ tasks' = [tasks EXCEPT ![t] = c] /\ c.writes # <<>>
        /\ buffers' = [buffers EXCEPT ![v] = SubSeq(@, n + 1, Len(@))]
  BY ProcessIs
<1>3. tasks \in [Tasks -> TaskTypes] /\ buffers \in [Volumes -> Seq(Writes)] /\ TypeInv
  BY DEF TypesInv, PipelineTypes
<1>4. tasks' \in [Tasks -> TaskTypes] /\ \A u \in Tasks : tasks'[u].pc # "free" => tasks'[u].writes # <<>>
  BY <1>2, <1>3 DEF TypesInv
<1>5. SubSeq(buffers[v], n + 1, Len(buffers[v])) \in Seq(Writes)
  BY <1>2, <1>3
<1>6. buffers' \in [Volumes -> Seq(Writes)]
  BY <1>2, <1>3, <1>5
<1>7. TypeInv' /\ Writes' = Writes /\ TaskTypes' = TaskTypes
  BY <1>1, <1>3, EngineStays DEF Writes, TaskTypes
<1> QED
  BY <1>1, <1>4, <1>6, <1>7 DEF TypesInv, PipelineTypes

\* After a restart tasks that were under way have failed.
LEMMA RestartIs ==
  ASSUME TypesInv, ProcessRestart
  PROVE  /\ tasks' \in [Tasks -> TaskTypes]
         /\ \A t \in Tasks :
              /\ tasks'[t].pc = IF tasks[t].pc \in {"free", "done"} THEN tasks[t].pc ELSE "failed"
              /\ tasks'[t].writes = tasks[t].writes /\ tasks'[t].shards = tasks[t].shards
              /\ tasks'[t].loc = tasks[t].loc
              /\ tasks[t].pc = "free" => tasks'[t] = tasks[t]
         /\ Restart /\ channel' = <<>> /\ buffers' = [v \in Volumes |-> <<>>]
         /\ permits' = MaxConcurrent /\ pending' = 0
         /\ UNCHANGED <<trimmed, mode, journal, acked, raced>>
<1>1. tasks \in [Tasks -> TaskTypes]
  BY DEF TypesInv, PipelineTypes
<1>2. tasks' = [t \in Tasks |->
        IF tasks[t].pc \in {"free", "done"} THEN tasks[t] ELSE [tasks[t] EXCEPT !.pc = "failed"]]
  BY DEF ProcessRestart
<1>3. \A t \in Tasks :
        /\ tasks'[t].pc = IF tasks[t].pc \in {"free", "done"} THEN tasks[t].pc ELSE "failed"
        /\ tasks'[t].writes = tasks[t].writes /\ tasks'[t].shards = tasks[t].shards
        /\ tasks'[t].loc = tasks[t].loc /\ tasks'[t] \in TaskTypes
        /\ tasks[t].pc = "free" => tasks'[t] = tasks[t]
  BY <1>1, <1>2 DEF TaskTypes, TaskPcs
<1> QED
  BY <1>2, <1>3 DEF ProcessRestart

LEMMA NextTypesInv == TypesInv /\ [DestageNext]_destageVars => TypesInv'
<1> SUFFICES ASSUME TypesInv, [DestageNext]_destageVars PROVE TypesInv'
  OBVIOUS
<1>0. TypeInv /\ PipelineTypes /\ Host \in Threads
  BY DestageAssumption DEF TypesInv
<1>1. ASSUME NEW req \in Requests, HostWrite(req) PROVE TypesInv'
  BY <1>1, HostWriteTypesInv
<1>2. CASE HostStep
  <2>1. TypeInv' /\ UNCHANGED <<pipeline, mode, journal, pending, acked, raced>>
    BY <1>0, <1>2, StepTypeInv DEF HostStep
  <2> QED
    BY <2>1 DEF TypesInv, PipelineTypes, pipeline, Writes, TaskTypes
<1>3. CASE submit_write
  <2>1. /\ channel' = Append(channel, pending) /\ acked' = acked \union {pending} /\ pending' = 0
        /\ pending # 0 /\ UNCHANGED <<engine, buffers, tasks, looping, trimmed, mode, journal, raced>>
    BY <1>3 DEF submit_write
  <2>2. pending \in Writes /\ channel \in Seq(Writes) /\ Len(journal) \in Nat
    BY <1>0, <2>1, WriteType DEF PipelineTypes, Writes
  <2>3. channel' \in Seq(Writes)
    BY <2>1, <2>2
  <2>4. TypeInv' /\ Writes' = Writes /\ TaskTypes' = TaskTypes
    BY <1>0, <2>1, EngineStays DEF Writes, TaskTypes
  <2> QED
    BY <2>1, <2>2, <2>3, <2>4 DEF TypesInv, PipelineTypes
<1>4. CASE buffer_write
  <2>1. /\ channel # <<>> /\ channel' = Tail(channel)
        /\ buffers' = [buffers EXCEPT ![journal[Head(channel)].vol] = Append(@, Head(channel))]
        /\ UNCHANGED <<engine, tasks, looping, trimmed, mode, journal, pending, acked, raced>>
    BY <1>4 DEF buffer_write
  <2>2. channel \in Seq(Writes) /\ buffers \in [Volumes -> Seq(Writes)]
    BY <1>0 DEF PipelineTypes
  <2>3. Head(channel) \in Writes /\ channel' \in Seq(Writes)
    BY <2>1, <2>2
  <2>4. journal[Head(channel)].vol \in Volumes
    BY <1>0, <2>3, WriteType
  <2>5. buffers' \in [Volumes -> Seq(Writes)]
    BY <2>1, <2>2, <2>3, <2>4
  <2>6. TypeInv' /\ Writes' = Writes /\ TaskTypes' = TaskTypes
    BY <1>0, <2>1, EngineStays DEF Writes, TaskTypes
  <2> QED
    BY <2>1, <2>3, <2>5, <2>6 DEF TypesInv, PipelineTypes
<1>5. ASSUME NEW v \in Volumes, process_ready_stripes(v) PROVE TypesInv'
  BY <1>5, ProcessTypesInv
<1>6. CASE shutdown
  <2>1. TypeInv'
    BY <1>0, <1>6, EngineStays DEF shutdown
  <2> QED
    BY <1>6, <2>1 DEF shutdown, TypesInv, PipelineTypes, Writes, TaskTypes
<1>7. ASSUME NEW t \in Tasks, acquire(t) \/ TaskStep(t) PROVE TypesInv'
  BY <1>7, TaskTypesInv
<1>8. CASE ProcessRestart
  <2>1. TypeInv'
    BY <1>0, <1>8, RestartTypeInv DEF ProcessRestart
  <2>2. /\ tasks' \in [Tasks -> TaskTypes] /\ channel' = <<>> /\ buffers' = [v \in Volumes |-> <<>>]
        /\ \A t \in Tasks : tasks'[t].pc # "free" => tasks[t].pc # "free"
        /\ \A t \in Tasks : tasks'[t].writes = tasks[t].writes
        /\ pending' = 0 /\ UNCHANGED <<trimmed, mode, journal, acked, raced>>
    BY <1>8, RestartIs
  <2>3. looping' \in BOOLEAN /\ channel' \in Seq(Writes) /\ buffers' \in [Volumes -> Seq(Writes)]
    BY <1>8, <2>2 DEF ProcessRestart
  <2>4. Writes' = Writes /\ TaskTypes' = TaskTypes /\ pending' \in 0..Len(journal')
    BY <1>0, <2>2, WriteType DEF Writes, TaskTypes
  <2> QED
    BY <2>1, <2>2, <2>3, <2>4 DEF TypesInv, PipelineTypes
<1>9. CASE UNCHANGED destageVars
  <2>1. TypeInv'
    BY <1>0, <1>9, EngineStays DEF destageVars
  <2> QED
    BY <1>9, <2>1 DEF destageVars, pipeline, TypesInv, PipelineTypes, Writes, TaskTypes
<1> QED
  BY <1>1, <1>2, <1>3, <1>4, <1>5, <1>6, <1>7, <1>8, <1>9 DEF DestageNext

-----------------------------------------------------------------------------
(* Permits.                                                                *)

Holders == {t \in Tasks : HoldsPermit(t)}
Holding == {"encode", "write", "metadata", "mapping", "trim"}

PermitsInv == permits \in Nat /\ permits + Cardinality(Holders) = MaxConcurrent

LEMMA TasksAreFinite == IsFiniteSet(Tasks) /\ Host \notin Tasks /\ Tasks \subseteq Threads
BY DestageAssumption, FS_Subset DEF Tasks

\* A task takes a permit, keeps it, or gives it back.
LEMMA PermitMoves ==
  ASSUME TypesInv, NEW t \in Tasks, acquire(t) \/ TaskStep(t)
  PROVE  \/ /\ tasks[t].pc \notin Holding /\ tasks'[t].pc \in Holding
            /\ permits > 0 /\ permits' = permits - 1
         \/ tasks[t].pc \in Holding /\ tasks'[t].pc \in Holding /\ permits' = permits
         \/ tasks[t].pc \in Holding /\ tasks'[t].pc \notin Holding /\ permits' = permits + 1
<1> USE DEF TaskAt, TaskGoto, Holding
<1>1. tasks \in [Tasks -> TaskTypes] /\ tasks[t] \in TaskTypes
  BY DEF TypesInv, PipelineTypes
<1>2. CASE acquire(t)
  BY <1>1, <1>2 DEF acquire, TaskTypes
<1>3. CASE encode(t)
  BY <1>1, <1>3 DEF encode, Fail, TaskTypes
<1>4. CASE write_shards(t)
  BY <1>1, <1>4 DEF write_shards, Fail, TaskTypes
<1>5. CASE update_metadata(t)
  BY <1>1, <1>5 DEF update_metadata, TaskTypes
<1>6. CASE MapStripe(t)
  BY <1>1, <1>6 DEF MapStripe, Fail, TaskTypes
<1>7. CASE trim_journal(t)
  BY <1>1, <1>7 DEF trim_journal, TaskTypes
<1> QED
  BY <1>2, <1>3, <1>4, <1>5, <1>6, <1>7 DEF TaskStep

LEMMA TaskPermitsInv ==
  ASSUME TypesInv, PermitsInv, NEW t \in Tasks, acquire(t) \/ TaskStep(t)
  PROVE  PermitsInv'
<1>1. \A u \in Tasks \ {t} : tasks'[u] = tasks[u]
  <2>1. PICK c \in TaskTypes : tasks' = [tasks EXCEPT ![t] = c]
    BY TaskStepIs
  <2> QED
    BY <2>1 DEF TypesInv, PipelineTypes
<1>2. IsFiniteSet(Holders) /\ permits \in Nat /\ Cardinality(Holders) \in Nat
  <2>1. Holders \subseteq Tasks
    BY DEF Holders
  <2>2. IsFiniteSet(Holders)
    BY <2>1, TasksAreFinite, FS_Subset
  <2> QED
    BY <2>2, FS_CardinalityType DEF PermitsInv
<1>3. CASE /\ tasks[t].pc \notin Holding /\ tasks'[t].pc \in Holding
           /\ permits > 0 /\ permits' = permits - 1
  <2>1. Holders' = Holders \union {t} /\ t \notin Holders
    BY <1>1, <1>3 DEF Holders, HoldsPermit, Holding
  <2>2. Cardinality(Holders') = Cardinality(Holders) + 1
    BY <1>2, <2>1, FS_AddElement
  <2> QED
    BY <1>2, <1>3, <2>2 DEF PermitsInv
<1>4. CASE tasks[t].pc \in Holding /\ tasks'[t].pc \in Holding /\ permits' = permits
  <2>1. Holders' = Holders
    BY <1>1, <1>4 DEF Holders, HoldsPermit, Holding
  <2> QED
    BY <1>4, <2>1 DEF PermitsInv
<1>5. CASE tasks[t].pc \in Holding /\ tasks'[t].pc \notin Holding /\ permits' = permits + 1
  <2>1. Holders' = Holders \ {t} /\ t \in Holders
    BY <1>1, <1>5 DEF Holders, HoldsPermit, Holding
  <2>2. Cardinality(Holders') = Cardinality(Holders) - 1
    BY <1>2, <2>1, FS_RemoveElement
  <2> QED
    BY <1>2, <1>5, <2>2 DEF PermitsInv
<1> QED
  BY <1>3, <1>4, <1>5, PermitMoves

LEMMA InitPermitsInv == DestageInit => PermitsInv
<1> SUFFICES ASSUME DestageInit PROVE PermitsInv
  OBVIOUS
<1>1. Holders = {} /\ permits = MaxConcurrent
  BY DEF DestageInit, Holders, HoldsPermit, Free
<1> QED
  BY <1>1, FS_EmptySet, DestageAssumption DEF PermitsInv

LEMMA NextPermitsInv == TypesInv /\ PermitsInv /\ [DestageNext]_destageVars => PermitsInv'
<1> SUFFICES ASSUME TypesInv, PermitsInv, [DestageNext]_destageVars PROVE PermitsInv'
  OBVIOUS
<1>1. ASSUME UNCHANGED <<tasks, permits>> PROVE PermitsInv'
  BY <1>1 DEF PermitsInv, Holders, HoldsPermit
<1>2. ASSUME NEW v \in Volumes, process_ready_stripes(v) PROVE PermitsInv'
  <2>1. PICK t \in Tasks, c \in TaskTypes :
          tasks[t].pc = "free" /\ tasks' = [tasks EXCEPT ![t] = c] /\ c.pc = "acquire"
    BY <1>2, ProcessIs
  <2>2. Holders' = Holders
    BY <2>1 DEF Holders, HoldsPermit, TypesInv, PipelineTypes
  <2>3. permits' = permits
    BY <1>2, ProcessIs
  <2> QED
    BY <2>2, <2>3 DEF PermitsInv
<1>3. ASSUME NEW t \in Tasks, acquire(t) \/ TaskStep(t) PROVE PermitsInv'
  BY <1>3, TaskPermitsInv
<1>4. CASE ProcessRestart
  <2>1. Holders' = {} /\ permits' = MaxConcurrent
    BY <1>4, RestartIs DEF Holders, HoldsPermit
  <2> QED
    BY <2>1, FS_EmptySet, DestageAssumption DEF PermitsInv
<1>5. ASSUME NEW req \in Requests, HostWrite(req) PROVE UNCHANGED <<tasks, permits>>
  BY <1>5 DEF HostWrite, pipeline
<1>6. HostStep \/ submit_write \/ buffer_write \/ shutdown \/ UNCHANGED destageVars
        => UNCHANGED <<tasks, permits>>
  BY DEF HostStep, submit_write, buffer_write, shutdown, destageVars, pipeline
<1> QED
  BY <1>1, <1>2, <1>3, <1>4, <1>5, <1>6 DEF DestageNext

-----------------------------------------------------------------------------
(* What is trimmed is stored.                                              *)

\* The writes that the host makes have one size, and a stripe is a number of them.
EvenSizes ==
  \E size, count \in Nat \ {0} :
    /\ \A req \in Requests : req.range.end - req.range.start = size
    /\ StripeSize = count * size

\* Nothing is beyond the last chunk: a stripe has every block of its writes.
StripesAreCopied ==
  \A t \in Tasks : tasks[t].pc # "free" =>
    \A w \in ToSet(tasks[t].writes), b \in Lbas :
      contains(RangeOf(w), b) => Aggregated(tasks[t].writes, w, b)

\* A task that goes on after its shards has enough of them.
ShardsInv ==
  \A t \in Tasks :
    tasks[t].pc \in {"metadata", "mapping", "trim", "done"} /\ ~mode.dry_run =>
      tasks[t].shards >= DataShards

Stored(w, t) ==
  /\ tasks[t].pc \in {"done", "failed"}
  /\ tasks[t].shards >= DataShards
  /\ \A b \in Lbas : contains(RangeOf(w), b) => Aggregated(tasks[t].writes, w, b)

\* Later writes of the journal change nothing for a stripe.
LEMMA BytesStay ==
  ASSUME NEW s \in Seq(Writes), \A w \in Writes : journal'[w] = journal[w]
  PROVE  buffered_bytes(s)' = buffered_bytes(s)
<1> DEFINE old == [i \in 1..Len(s) |-> length(s[i])]
           new == [i \in 1..Len(s) |-> journal'[s[i]].range.end - journal'[s[i]].range.start]
<1>1. \A i \in 1..Len(s) : s[i] \in Writes
  OBVIOUS
<1>2. old = new
  BY <1>1 DEF length, RangeOf
<1>3. buffered_bytes(s) = Total(old)
  BY DEF buffered_bytes
<1>4. buffered_bytes(s)' = Total(new)
  BY DEF buffered_bytes, length, RangeOf
<1> HIDE DEF old, new
<1> QED
  BY <1>2, <1>3, <1>4

LEMMA StripeStays ==
  ASSUME NEW s \in Seq(Writes), \A w \in Writes : journal'[w] = journal[w], NEW w, NEW b
  PROVE  Aggregated(s, w, b)' <=> Aggregated(s, w, b)
<1>1. ASSUME NEW i \in DOMAIN s
      PROVE  /\ buffered_bytes(SubSeq(s, 1, i - 1))' = buffered_bytes(SubSeq(s, 1, i - 1))
             /\ s[i] = w => RangeOf(w)' = RangeOf(w)
  <2>1. SubSeq(s, 1, i - 1) \in Seq(Writes) /\ s[i] \in Writes
    BY SequenceIs
  <2> QED
    BY <2>1, BytesStay DEF RangeOf
<1> QED
  BY <1>1 DEF Aggregated, contains

\* The writes that are there stay as they are.
LEMMA JournalGrows ==
  ASSUME TypesInv, [DestageNext]_destageVars
  PROVE  /\ Writes \subseteq Writes' /\ \A w \in Writes : journal'[w] = journal[w]
         /\ UNCHANGED journal \/ \E req \in Requests : HostWrite(req)
         /\ mode' = mode
<1>1. CASE UNCHANGED <<journal, mode>>
  BY <1>1 DEF Writes
<1>2. ASSUME NEW req \in Requests, HostWrite(req)
      PROVE  Writes \subseteq Writes' /\ (\A w \in Writes : journal'[w] = journal[w]) /\ mode' = mode
  BY <1>2, HostWriteTypesInv, WriteType DEF Writes, TypesInv
<1>3. ASSUME NEW t \in Tasks, acquire(t) \/ TaskStep(t) PROVE UNCHANGED <<journal, mode>>
  BY <1>3, TaskStepIs DEF others
<1>4. ASSUME NEW v \in Volumes, process_ready_stripes(v) PROVE UNCHANGED <<journal, mode>>
  BY <1>4 DEF process_ready_stripes
<1>5. HostStep \/ submit_write \/ buffer_write \/ shutdown \/ ProcessRestart \/ UNCHANGED destageVars
        => UNCHANGED <<journal, mode>>
  BY DEF HostStep, submit_write, buffer_write, shutdown, ProcessRestart, destageVars
<1> QED
  BY <1>1, <1>2, <1>3, <1>4, <1>5 DEF DestageNext

\* What a step does to a task: it is given a stripe, it moves on, or it fails.
LEMMA TaskChanges ==
  ASSUME TypesInv, [DestageNext]_destageVars, NEW t \in Tasks
  PROVE  \/ tasks'[t] = tasks[t]
         \/ /\ tasks[t].pc = "free" /\ tasks'[t].pc = "acquire" /\ tasks'[t].loc = NoLoc
            /\ \E v \in Volumes : process_ready_stripes(v)
         \/ TaskMove(tasks[t], tasks'[t]) /\ (acquire(t) \/ TaskStep(t))
         \/ /\ tasks[t].pc \notin {"free", "done"} /\ tasks'[t].pc = "failed" /\ ProcessRestart
            /\ tasks'[t].writes = tasks[t].writes /\ tasks'[t].shards = tasks[t].shards
            /\ tasks'[t].loc = tasks[t].loc
<1>0. tasks \in [Tasks -> TaskTypes]
  BY DEF TypesInv, PipelineTypes
<1>1. CASE UNCHANGED tasks
  BY <1>1
<1>2. ASSUME NEW v \in Volumes, process_ready_stripes(v)
      PROVE  tasks'[t] = tasks[t] \/ /\ tasks[t].pc = "free" /\ tasks'[t].pc = "acquire"
                                     /\ tasks'[t].loc = NoLoc
  <2>1. PICK u \in Tasks, c \in TaskTypes :
          /\ tasks[u].pc = "free" /\ tasks' = [tasks EXCEPT ![u] = c] /\ c.pc = "acquire"
          /\ c.loc = NoLoc
    BY <1>2, ProcessIs
  <2> QED
    BY <1>0, <2>1
<1>3. ASSUME NEW u \in Tasks, acquire(u) \/ TaskStep(u)
      PROVE  tasks'[t] = tasks[t] \/ (u = t /\ TaskMove(tasks[t], tasks'[t]))
  <2>1. PICK c \in TaskTypes : tasks' = [tasks EXCEPT ![u] = c] /\ TaskMove(tasks[u], c)
    BY <1>3, TaskStepIs
  <2>2. CASE u = t
    <3>1. tasks'[t] = c
      BY <1>0, <2>1, <2>2
    <3> QED
      BY <2>1, <2>2, <3>1
  <2>3. CASE u # t
    BY <1>0, <2>1, <2>3
  <2> QED
    BY <2>2, <2>3
<1>4. ASSUME ProcessRestart
      PROVE  \/ tasks'[t] = tasks[t]
             \/ /\ tasks[t].pc \notin {"free", "done"} /\ tasks'[t].pc = "failed"
                /\ tasks'[t].writes = tasks[t].writes /\ tasks'[t].shards = tasks[t].shards
                /\ tasks'[t].loc = tasks[t].loc
  BY <1>0, <1>4 DEF ProcessRestart, TaskTypes
<1>5. ASSUME NEW req \in Requests, HostWrite(req) PROVE UNCHANGED tasks
  BY <1>5 DEF HostWrite, pipeline
<1>6. HostStep \/ submit_write \/ buffer_write \/ shutdown \/ UNCHANGED destageVars
        => UNCHANGED tasks
  BY DEF HostStep, submit_write, buffer_write, shutdown, destageVars, pipeline
<1> QED
  BY <1>1, <1>2, <1>3, <1>4, <1>5, <1>6 DEF DestageNext

LEMMA NextShardsInv == TypesInv /\ ShardsInv /\ [DestageNext]_destageVars => ShardsInv'
<1> SUFFICES ASSUME TypesInv, ShardsInv, [DestageNext]_destageVars, NEW t \in Tasks,
                    tasks'[t].pc \in {"metadata", "mapping", "trim", "done"}, ~mode.dry_run
             PROVE  tasks'[t].shards >= DataShards
  BY JournalGrows DEF ShardsInv
<1>1. CASE tasks'[t] = tasks[t]
  BY <1>1 DEF ShardsInv
<1>2. CASE TaskMove(tasks[t], tasks'[t])
  BY <1>2 DEF TaskMove, Moves, ShardsInv
<1> QED
  BY <1>1, <1>2, TaskChanges

\* What has been stored stays stored.
LEMMA StoredStays ==
  ASSUME TypesInv, [DestageNext]_destageVars, NEW w \in Writes, NEW t \in Tasks, Stored(w, t)
  PROVE  Stored(w, t)'
<1>1. /\ tasks'[t].pc \in {"done", "failed"} /\ tasks'[t].shards = tasks[t].shards
      /\ tasks'[t].writes = tasks[t].writes
  BY TaskChanges DEF Stored, TaskMove, Moves
<1>2. PICK s : s = tasks[t].writes
  OBVIOUS
<1>3. s \in Seq(Writes)
  BY <1>2 DEF TypesInv, PipelineTypes, TaskTypes
<1>4. \A b \in Lbas : Aggregated(s, w, b)' <=> Aggregated(s, w, b)
  BY <1>3, StripeStays, JournalGrows
<1>5. RangeOf(w)' = RangeOf(w)
  BY JournalGrows DEF RangeOf
<1>6. ASSUME NEW b \in Lbas, contains(RangeOf(w), b)' PROVE Aggregated(s, w, b)'
  BY <1>2, <1>4, <1>5, <1>6 DEF Stored, contains
<1>7. \A b \in Lbas : contains(RangeOf(w), b)' => Aggregated(tasks[t].writes, w, b)'
  BY <1>1, <1>2, <1>6 DEF Aggregated
<1> QED
  BY <1>1, <1>7 DEF Stored

LEMMA NextTrimmedIsStored ==
  TypesInv /\ ShardsInv /\ StripesAreCopied /\ TrimmedIsStored /\ [DestageNext]_destageVars
    => TrimmedIsStored'
<1> SUFFICES ASSUME TypesInv, ShardsInv, StripesAreCopied, TrimmedIsStored,
                    [DestageNext]_destageVars, NEW w \in trimmed'
             PROVE  \E t \in Tasks : Stored(w, t)'
  BY DEF TrimmedIsStored, Stored
<1>1. CASE w \in trimmed
  <2>1. PICK t \in Tasks : Stored(w, t)
    BY <1>1 DEF TrimmedIsStored, Stored
  <2>2. w \in Writes
    BY <1>1 DEF TypesInv, PipelineTypes
  <2> QED
    BY <2>1, <2>2, StoredStays
<1>2. ASSUME w \notin trimmed, NEW t \in Tasks, trim_journal(t) PROVE Stored(w, t)'
  <2>1. /\ w \in ToSet(tasks[t].writes) /\ ~mode.dry_run /\ tasks[t].pc = "trim"
        /\ UNCHANGED journal
    BY <1>2 DEF trim_journal, TaskAt, others
  <2>2. tasks'[t].pc = "done" /\ tasks'[t].writes = tasks[t].writes /\ tasks'[t].shards = tasks[t].shards
    BY <1>2 DEF trim_journal, TaskGoto, TypesInv, PipelineTypes, TaskTypes
  <2>3. \A b \in Lbas : contains(RangeOf(w), b) => Aggregated(tasks[t].writes, w, b)
    BY <2>1 DEF StripesAreCopied
  <2>4. tasks[t].shards >= DataShards
    BY <2>1 DEF ShardsInv
  <2>5. PICK s : s = tasks[t].writes
    OBVIOUS
  <2>6. s \in Seq(Writes)
    BY <2>5 DEF TypesInv, PipelineTypes, TaskTypes
  <2>7. \A b \in Lbas : Aggregated(s, w, b)' <=> Aggregated(s, w, b)
    BY <2>6, StripeStays, JournalGrows
  <2>8. \A b \in Lbas : contains(RangeOf(w), b)' => Aggregated(s, w, b)'
    BY <2>1, <2>3, <2>5, <2>7 DEF RangeOf, contains
  <2>9. \A b \in Lbas : contains(RangeOf(w), b)' => Aggregated(tasks[t].writes, w, b)'
    BY <2>2, <2>5, <2>8 DEF Aggregated
  <2> QED
    BY <2>2, <2>4, <2>9 DEF Stored
<1>3. w \notin trimmed => \E t \in Tasks : trim_journal(t)
  <2>1. ASSUME NEW t \in Tasks, acquire(t) \/ TaskStep(t) PROVE trimmed' = trimmed \/ trim_journal(t)
    BY <2>1, TaskStepIs
  <2>2. ASSUME NEW req \in Requests, HostWrite(req) PROVE trimmed' = trimmed
    BY <2>2 DEF HostWrite, pipeline
  <2>3. ASSUME NEW v \in Volumes, process_ready_stripes(v) PROVE trimmed' = trimmed
    BY <2>3 DEF process_ready_stripes
  <2>4. HostStep \/ submit_write \/ buffer_write \/ shutdown \/ ProcessRestart \/ UNCHANGED destageVars
          => trimmed' = trimmed
    BY DEF HostStep, submit_write, buffer_write, shutdown, ProcessRestart, destageVars, pipeline
  <2> QED
    BY <2>1, <2>2, <2>3, <2>4 DEF DestageNext
<1> QED
  BY <1>1, <1>2, <1>3

\* What one has to know of the permits and the journal for this.
SoundInv == TypesInv /\ PermitsInv /\ ShardsInv /\ TrimmedIsStored

LEMMA InitSoundInv == DestageInit => SoundInv
<1> SUFFICES ASSUME DestageInit PROVE SoundInv
  OBVIOUS
<1>1. ShardsInv /\ TrimmedIsStored
  BY DEF DestageInit, Free, ShardsInv, TrimmedIsStored
<1> QED
  BY <1>1, InitTypesInv, InitPermitsInv DEF SoundInv

LEMMA NextSoundInv == SoundInv /\ StripesAreCopied /\ [DestageNext]_destageVars => SoundInv'
BY NextTypesInv, NextPermitsInv, NextShardsInv, NextTrimmedIsStored DEF SoundInv

LEMMA SoundIs == SoundInv => DestagesAreSound
<1> SUFFICES ASSUME SoundInv PROVE DestagesAreSound
  OBVIOUS
<1>1. permits \in 0..MaxConcurrent /\ DestagePermitsAreConserved
  <2>1. IsFiniteSet(Holders) /\ Cardinality(Holders) \in Nat
    <3>1. Holders \subseteq Tasks
      BY DEF Holders
    <3> QED
      BY <3>1, TasksAreFinite, FS_Subset, FS_CardinalityType
  <2>2. permits \in 0..MaxConcurrent
    BY <2>1, DestageAssumption DEF SoundInv, PermitsInv
  <2>3. DestagePermitsAreConserved
    BY DEF DestagePermitsAreConserved, Holders, SoundInv, PermitsInv
  <2> QED
    BY <2>2, <2>3
<1>2. DestageTypeOK
  BY <1>1 DEF SoundInv, TypesInv, TypeInv, PipelineTypes, DestageTypeOK, TaskTypes
<1> QED
  BY <1>1, <1>2 DEF DestagesAreSound, SoundInv

\* However destages end, and whatever is made of the engine meanwhile, permits are
\* held or free, and the journal lets go of a write only when a stripe with every block
\* of it has enough shards, if stripes have every block of their writes.
THEOREM DestagesSoundIfCopied ==
  DestageSpec /\ []StripesAreCopied => []DestagesAreSound
<1>1. DestageInit => SoundInv
  BY InitSoundInv
<1>2. SoundInv /\ StripesAreCopied /\ [DestageNext]_destageVars => SoundInv'
  BY NextSoundInv
<1>3. SoundInv => DestagesAreSound
  BY SoundIs
<1> QED
  BY <1>1, <1>2, <1>3, PTL DEF DestageSpec

\* The bytes of writes of one size.
LEMMA EvenBytes ==
  ASSUME NEW size \in Nat, NEW s \in Seq(Writes), \A w \in Writes : length(w) = size
  PROVE  buffered_bytes(s) = Len(s) * size
<1>1. PICK sizes : sizes = [i \in 1..Len(s) |-> length(s[i])]
  OBVIOUS
<1>2. \A i \in 1..Len(s) : s[i] \in Writes
  BY SequenceIs
<1>3. Len(s) \in Nat /\ Len(sizes) = Len(s) /\ \A i \in 1..Len(s) : sizes[i] = size
  BY <1>1, <1>2
<1>4. buffered_bytes(s) = Total(sizes)
  BY <1>1 DEF buffered_bytes
<1>5. PICK N : N = Len(s)
  OBVIOUS
<1>6. PICK f : Sums(f, sizes, N) /\ Total(sizes) = f[N]
  BY <1>3, <1>5, TotalIs
<1> DEFINE T == {n \in Nat : n <= N => f[n] = n * size}
<1>7. 0 \in T
  BY <1>6 DEF Sums
<1>8. ASSUME NEW n \in T PROVE n + 1 \in T
  <2>1. SUFFICES ASSUME n + 1 <= N PROVE f[n + 1] = (n + 1) * size
    OBVIOUS
  <2>2. f[n] = n * size /\ n + 1 \in 1..N /\ (n + 1) - 1 = n /\ N \in Nat
    BY <1>3, <1>5, <2>1
  <2>3. f[n + 1] = f[n] + sizes[n + 1]
    BY <1>6, <2>2 DEF Sums
  <2>4. sizes[n + 1] = size
    BY <1>3, <1>5, <2>2
  <2>5. n * size + size = (n + 1) * size
    OBVIOUS
  <2> QED
    BY <2>2, <2>3, <2>4, <2>5
<1>9. T = Nat
  <2>1. T \subseteq Nat
    OBVIOUS
  <2> HIDE DEF T
  <2> QED
    BY <1>7, <1>8, <2>1, NatInd
<1>10. N \in T
  BY <1>3, <1>5, <1>9
<1> QED
  BY <1>3, <1>4, <1>5, <1>6, <1>10

LEMMA Multiples ==
  ASSUME NEW size \in Nat \ {0}, NEW m \in Nat, NEW n \in Nat
  PROVE  /\ m * size \in Nat
         /\ m <= n => m * size <= n * size
         /\ m * size >= n * size => m >= n
         /\ m < n => m * size + size <= n * size
<1>1. m * size \in Nat /\ n * size \in Nat
  OBVIOUS
<1>2. ASSUME NEW j \in Nat, NEW k \in Nat, j < k PROVE j * size + size <= k * size
  <2>1. k - j - 1 \in Nat
    BY <1>2
  <2>2. (k - j - 1) * size \in Nat
    BY <2>1
  <2>3. k * size = j * size + size + (k - j - 1) * size
    OBVIOUS
  <2> QED
    BY <2>2, <2>3
<1>3. m < n => m * size + size <= n * size
  BY <1>2
<1>4. m <= n => m * size <= n * size
  BY <1>1, <1>3
<1>5. n > m => ~(m * size >= n * size)
  BY <1>1, <1>3
<1> QED
  BY <1>1, <1>3, <1>4, <1>5

\* Writes of one size, and no more of them in a task than fit.
EvenInv(size, count) ==
  /\ \A w \in Writes : length(w) = size
  /\ \A t \in Tasks : tasks[t].pc # "free" => Len(tasks[t].writes) <= count

\* A buffer that has a stripe gives just as many writes.
LEMMA EvenStripe ==
  ASSUME NEW size \in Nat \ {0}, NEW count \in Nat \ {0}, StripeSize = count * size,
         \A w \in Writes : length(w) = size, NEW s \in Seq(Writes), is_stripe_ready(s)
  PROVE  Extracted(s) <= count
<1> DEFINE T == {n \in 1..Len(s) : is_stripe_ready(SubSeq(s, 1, n))}
<1>1. buffered_bytes(s) = Len(s) * size /\ Len(s) \in Nat
  BY EvenBytes
<1>2. Len(s) >= count
  BY <1>1, Multiples DEF is_stripe_ready
<1>3. count \in 1..Len(s) /\ SubSeq(s, 1, count) \in Seq(Writes) /\ Len(SubSeq(s, 1, count)) = count
  BY <1>1, <1>2
<1>4. buffered_bytes(SubSeq(s, 1, count)) = count * size
  BY <1>3, EvenBytes
<1>5. count * size \in Nat
  BY Multiples
<1>6. count \in T
  BY <1>3, <1>4, <1>5 DEF is_stripe_ready
<1>7. T \subseteq Nat /\ \A x \in T : x <= Len(s)
  BY <1>1
<1> HIDE DEF T
<1>8. Min(T) <= count
  BY <1>1, <1>6, <1>7, MinMaxIs
<1> QED
  BY <1>8 DEF T, Extracted

LEMMA NextEvenInv ==
  ASSUME NEW size \in Nat \ {0}, NEW count \in Nat \ {0}, StripeSize = count * size,
         \A req \in Requests : req.range.end - req.range.start = size,
         TypesInv, EvenInv(size, count), [DestageNext]_destageVars
  PROVE  EvenInv(size, count)'
<1>1. ASSUME NEW w \in Writes' PROVE length(w)' = size
  <2>1. CASE w \in Writes
    <3>1. journal'[w] = journal[w] /\ length(w) = size
      BY <2>1, JournalGrows DEF EvenInv
    <3> QED
      BY <3>1 DEF length, RangeOf
  <2>2. CASE w \notin Writes
    <3>1. PICK req \in Requests : HostWrite(req)
      BY <2>2, JournalGrows DEF Writes
    <3>2. Len(journal') = Len(journal) + 1 /\ journal'[Len(journal) + 1].range = req.range
      BY <3>1, HostWriteTypesInv
    <3>3. w = Len(journal) + 1
      BY <2>2, <3>2, WriteType DEF Writes, TypesInv
    <3> QED
      BY <3>2, <3>3 DEF length, RangeOf
  <2> QED
    BY <2>1, <2>2
<1>2. ASSUME NEW t \in Tasks, tasks'[t].pc # "free" PROVE Len(tasks'[t].writes) <= count
  <2>1. CASE tasks'[t].writes = tasks[t].writes /\ tasks[t].pc # "free"
    BY <2>1 DEF EvenInv
  <2>2. ASSUME NEW v \in Volumes, process_ready_stripes(v), tasks[t].pc = "free"
        PROVE  Len(tasks'[t].writes) <= count
    <3>1. PICK u : u = CHOOSE x \in Tasks : tasks[x].pc = "free"
      OBVIOUS
    <3>2. PICK n : n = Extracted(buffers[v])
      OBVIOUS
    <3>3. buffers[v] \in Seq(Writes) /\ is_stripe_ready(buffers[v])
      BY <2>2 DEF process_ready_stripes, TypesInv, PipelineTypes
    <3>4. n \in 1..Len(buffers[v]) /\ n <= count
      BY <3>2, <3>3, ExtractedIs, EvenStripe DEF EvenInv
    <3>5. PICK c : c = [Free EXCEPT !.pc = "acquire", !.writes = SubSeq(buffers[v], 1, n)]
      OBVIOUS
    <3>6. tasks' = [tasks EXCEPT ![u] = c]
      BY <2>2, <3>1, <3>2, <3>5 DEF process_ready_stripes
    <3>7. Len(c.writes) = n
      BY <3>3, <3>4, <3>5 DEF Free
    <3>8. tasks'[t] = c
      BY <1>2, <2>2, <3>6 DEF TypesInv, PipelineTypes
    <3> QED
      BY <3>4, <3>7, <3>8
  <2>3. CASE TaskMove(tasks[t], tasks'[t])
    BY <2>1, <2>3 DEF TaskMove, Moves
  <2> QED
    BY <1>2, <2>1, <2>2, <2>3, TaskChanges
<1> QED
  BY <1>1, <1>2 DEF EvenInv

LEMMA EvenIsCopied ==
  ASSUME NEW size \in Nat \ {0}, NEW count \in Nat \ {0}, StripeSize = count * size,
         TypesInv, EvenInv(size, count)
  PROVE  StripesAreCopied
<1> SUFFICES ASSUME NEW t \in Tasks, tasks[t].pc # "free", NEW w \in ToSet(tasks[t].writes),
                    NEW b \in Lbas, contains(RangeOf(w), b)
             PROVE  Aggregated(tasks[t].writes, w, b)
  BY DEF StripesAreCopied
<1>1. PICK s : s = tasks[t].writes
  OBVIOUS
<1>2. s \in Seq(Writes) /\ Len(s) <= count /\ Len(s) \in Nat
  BY <1>1 DEF TypesInv, PipelineTypes, TaskTypes, EvenInv
<1>3. PICK i \in 1..Len(s) : s[i] = w
  BY <1>1, <1>2, SequenceIs
<1>4. i - 1 \in Nat /\ SubSeq(s, 1, i - 1) \in Seq(Writes) /\ Len(SubSeq(s, 1, i - 1)) = i - 1
  BY <1>2
<1>5. buffered_bytes(SubSeq(s, 1, i - 1)) = (i - 1) * size
  BY <1>4, EvenBytes DEF EvenInv
<1>6. (i - 1) * size + size <= count * size /\ (i - 1) * size \in Nat
  BY <1>2, <1>4, Multiples
<1>7. w \in Writes /\ length(w) = size
  BY <1>2, <1>3 DEF EvenInv
<1>8. b - RangeOf(w).start < size
  BY <1>7, WriteType, RangeType, EngineAssumption DEF TypesInv, length, contains, Lbas
<1>9. buffered_bytes(SubSeq(s, 1, i - 1)) + (b - RangeOf(w).start) < StripeSize
  <2>1. RangeOf(w).start \in Nat /\ b \in Int
    BY <1>7, WriteType, RangeType, EngineAssumption DEF TypesInv, Lbas
  <2> QED
    BY <1>5, <1>6, <1>8, <2>1
<1>10. i \in DOMAIN s
  BY <1>2
<1> QED
  BY <1>1, <1>3, <1>9, <1>10 DEF Aggregated

\* If the host's writes have one size, and a stripe is a number of them, destages are sound
\* without further ado.
THEOREM DestagesStaySound ==
  ASSUME EvenSizes
  PROVE  DestageSpec => []DestagesAreSound
<1>1. PICK size \in Nat \ {0}, count \in Nat \ {0} :
        /\ \A req \in Requests : req.range.end - req.range.start = size
        /\ StripeSize = count * size
  BY DEF EvenSizes
<1>2. DestageInit => SoundInv /\ EvenInv(size, count)
  <2>1. DestageInit => EvenInv(size, count)
    BY DEF DestageInit, EvenInv, Writes, Free
  <2> QED
    BY <2>1, InitSoundInv
<1>3. SoundInv /\ EvenInv(size, count) /\ [DestageNext]_destageVars
        => SoundInv' /\ EvenInv(size, count)'
  BY <1>1, NextSoundInv, NextEvenInv, EvenIsCopied DEF SoundInv
<1>4. SoundInv => DestagesAreSound
  BY SoundIs
<1> QED
  BY <1>2, <1>3, <1>4, PTL DEF DestageSpec

-----------------------------------------------------------------------------
(* What the engine does for a thread.                                      *)

\* A step of a call: on the way to the log, into the log, into the map, or in what comes
\* after the map.
Preparing(t) ==
  /\ thread[t].op # "checkpoint"
  /\ <<thread[t].pc, thread'[t].pc>> \in
       {<<"verify", "log">>, <<"verify", "idle">>, <<"log", "push">>}
  /\ UNCHANGED <<l2p_map, content, used>>

Logging(t) ==
  /\ thread[t].op # "checkpoint" /\ thread[t].pc = "push" /\ thread'[t].pc = "apply"
  /\ content' = [b \in Lbas |-> IF contains(thread[t].range, b) THEN thread[t].loc ELSE content[b]]
  /\ used' = used \union {thread[t].range}
  /\ UNCHANGED l2p_map

Applying(t) ==
  /\ thread[t].op # "checkpoint" /\ thread[t].pc = "apply"
  /\ thread'[t].pc = IF thread[t].op = "delete" THEN "idle" ELSE "maybe_checkpoint"
  /\ l2p_map' = IF thread[t].op = "insert"
                THEN [handle_overlaps(l2p_map, thread[t].range) EXCEPT ![thread[t].range] = thread[t].loc]
                ELSE [l2p_map EXCEPT ![thread[t].range] = thread[t].loc]
  /\ UNCHANGED <<content, used>>

SameCall(t) ==
  /\ thread'[t].op = thread[t].op /\ thread'[t].range = thread[t].range
  /\ thread'[t].loc = thread[t].loc

Finishing(t) ==
  /\ thread[t].op = "checkpoint" \/ thread[t].pc = "maybe_checkpoint"
  /\ thread'[t].op = "checkpoint" /\ thread'[t].pc \notin {"apply", "verify"}
  /\ UNCHANGED <<l2p_map, content, used>>

LEMMA EngineStepIs ==
  ASSUME TypeInv, NEW t \in Threads, Step(t)
  PROVE  /\ thread[t].pc # "idle" /\ \A u \in Threads \ {t} : thread'[u] = thread[u]
         /\ UNCHANGED <<generation, epoch, cut>>
         /\ \/ SameCall(t) /\ (Preparing(t) \/ Logging(t) \/ Applying(t))
            \/ Finishing(t)
<1> DEFINE c == thread[t]
<1>1. thread \in [Threads -> Calls] /\ c \in Calls /\ WellFormedCall(c)
  BY DEF TypeInv, TypeOK
<1>2. ASSUME NEW pc \in Pcs, Goto(t, pc)
      PROVE  thread'[t].pc = pc /\ SameCall(t) /\ \A u \in Threads \ {t} : thread'[u] = thread[u]
  BY <1>1, <1>2 DEF Goto, SameCall, Calls
<1>3. ASSUME NEW d, thread' = [thread EXCEPT ![t] = d]
      PROVE  thread'[t] = d /\ \A u \in Threads \ {t} : thread'[u] = thread[u]
  BY <1>1, <1>3
<1> USE DEF At
<1>4. CASE Verify(t)
  <2>1. PICK pc \in {"log", "idle"} : Goto(t, pc)
    BY <1>4 DEF Verify
  <2>2. c.op # "checkpoint" /\ c.pc = "verify"
    BY <1>1, <1>4 DEF Verify, WellFormedCall
  <2>3. thread'[t].pc = pc /\ SameCall(t) /\ \A u \in Threads \ {t} : thread'[u] = thread[u]
    BY <1>2, <2>1 DEF Pcs
  <2> QED
    BY <1>4, <2>2, <2>3 DEF Verify, Preparing, history
<1>5. CASE DrawLsn(t)
  <2>1. PICK d : d = [c EXCEPT !.pc = "push", !.entry = current_lsn]
    OBVIOUS
  <2>2. thread' = [thread EXCEPT ![t] = d]
    BY <1>5, <2>1 DEF DrawLsn
  <2>3. d.pc = "push" /\ d.op = c.op /\ d.range = c.range /\ d.loc = c.loc
    BY <1>1, <2>1 DEF Calls
  <2>4. thread'[t] = d /\ \A u \in Threads \ {t} : thread'[u] = thread[u]
    BY <1>3, <2>2
  <2>5. c.op # "checkpoint" => Preparing(t) /\ SameCall(t)
    BY <1>5, <2>3, <2>4 DEF DrawLsn, Preparing, SameCall, history
  <2>6. c.op = "checkpoint" => Finishing(t)
    BY <1>5, <2>3, <2>4 DEF DrawLsn, Finishing, history
  <2> QED
    BY <1>5, <2>4, <2>5, <2>6 DEF DrawLsn, history
<1>6. CASE Push(t)
  <2>1. PICK pc \in {"truncate", "apply"} : Goto(t, pc) /\ pc = IF c.op = "checkpoint" THEN "truncate" ELSE "apply"
    BY <1>6 DEF Push
  <2>2. thread'[t].pc = pc /\ SameCall(t) /\ \A u \in Threads \ {t} : thread'[u] = thread[u]
    BY <1>2, <2>1 DEF Pcs
  <2>3. c.pc = "push" /\ UNCHANGED <<generation, epoch, cut, l2p_map>>
    BY <1>6 DEF Push
  <2>4. CASE c.op = "checkpoint"
    <3>1. UNCHANGED <<content, used>>
      BY <1>6, <2>4 DEF Push
    <3>2. Finishing(t)
      BY <2>1, <2>2, <2>3, <2>4, <3>1 DEF Finishing, SameCall
    <3> QED
      BY <2>2, <2>3, <3>2
  <2>5. CASE c.op # "checkpoint"
    <3>1. /\ content' = [b \in Lbas |-> IF contains(c.range, b) THEN c.loc ELSE content[b]]
          /\ used' = used \union {c.range}
      BY <1>6, <2>5 DEF Push
    <3>2. Logging(t)
      BY <2>1, <2>2, <2>3, <2>5, <3>1 DEF Logging
    <3> QED
      BY <2>2, <2>3, <3>2
  <2> QED
    BY <2>4, <2>5
<1>7. CASE Apply(t)
  <2>1. PICK pc \in {"idle", "maybe_checkpoint"} :
          Goto(t, pc) /\ pc = IF c.op = "delete" THEN "idle" ELSE "maybe_checkpoint"
    BY <1>7 DEF Apply
  <2>2. thread'[t].pc = pc /\ SameCall(t) /\ \A u \in Threads \ {t} : thread'[u] = thread[u]
    BY <1>2, <2>1 DEF Pcs
  <2>3. /\ c.pc = "apply" /\ c.op # "checkpoint" /\ UNCHANGED <<generation, epoch, cut, content, used>>
        /\ l2p_map' = IF c.op = "insert"
                      THEN [handle_overlaps(l2p_map, c.range) EXCEPT ![c.range] = c.loc]
                      ELSE [l2p_map EXCEPT ![c.range] = c.loc]
    BY <1>1, <1>7 DEF Apply, WellFormedCall
  <2>4. Applying(t)
    BY <2>1, <2>2, <2>3 DEF Applying
  <2> QED
    BY <2>2, <2>3, <2>4
<1>8. CASE maybe_checkpoint(t)
  <2>1. PICK d : thread' = [thread EXCEPT ![t] = d] /\ d.op = "checkpoint" /\ d.pc \in {"lsn", "idle"}
    BY <1>8 DEF maybe_checkpoint, Idle
  <2>2. thread'[t] = d /\ \A u \in Threads \ {t} : thread'[u] = thread[u]
    BY <1>3, <2>1
  <2> QED
    BY <1>8, <2>1, <2>2 DEF maybe_checkpoint, Finishing, history
<1>9. CASE ReadLsn(t)
  <2>1. PICK d : d = [c EXCEPT !.pc = "snapshot", !.ckpt = [lsn |-> current_lsn, mappings |-> EmptyMap]]
    OBVIOUS
  <2>2. thread' = [thread EXCEPT ![t] = d] /\ c.op = "checkpoint" /\ c.pc = "lsn"
    BY <1>1, <1>9, <2>1 DEF ReadLsn, WellFormedCall
  <2>3. d.pc = "snapshot" /\ d.op = c.op
    BY <1>1, <2>1 DEF Calls
  <2>4. thread'[t] = d /\ \A u \in Threads \ {t} : thread'[u] = thread[u]
    BY <1>3, <2>2
  <2> QED
    BY <1>9, <2>2, <2>3, <2>4 DEF ReadLsn, Finishing, history
<1>10. CASE Snapshot(t)
  <2>1. c.op = "checkpoint" /\ c.ckpt \in Checkpoints /\ c.pc = "snapshot"
    BY <1>1, <1>10 DEF Snapshot, WellFormedCall
  <2>2. PICK d : d = [c EXCEPT !.pc = "write_slot", !.ckpt = [c.ckpt EXCEPT !.mappings = l2p_map]]
    OBVIOUS
  <2>3. thread' = [thread EXCEPT ![t] = d]
    BY <1>1, <1>10, <2>1, <2>2 DEF Snapshot, Calls
  <2>4. d.pc = "write_slot" /\ d.op = c.op
    BY <1>1, <2>2 DEF Calls
  <2>5. thread'[t] = d /\ \A u \in Threads \ {t} : thread'[u] = thread[u]
    BY <1>3, <2>3
  <2> QED
    BY <1>10, <2>1, <2>4, <2>5 DEF Snapshot, Finishing, history
<1>11. CASE WriteSlot(t)
  <2>1. PICK d : d = [c EXCEPT !.pc = "switch_slot", !.range = NoLoc]
    OBVIOUS
  <2>2. thread' = [thread EXCEPT ![t] = d] /\ c.op = "checkpoint" /\ c.pc = "write_slot"
    BY <1>1, <1>11, <2>1 DEF WriteSlot, WellFormedCall
  <2>3. d.pc = "switch_slot" /\ d.op = c.op
    BY <1>1, <2>1 DEF Calls
  <2>4. thread'[t] = d /\ \A u \in Threads \ {t} : thread'[u] = thread[u]
    BY <1>3, <2>2
  <2> QED
    BY <1>11, <2>2, <2>3, <2>4 DEF WriteSlot, Finishing, history
<1>12. CASE SwitchSlot(t)
  <2>1. c.op = "checkpoint" /\ c.pc = "switch_slot"
    BY <1>1, <1>12 DEF SwitchSlot, WellFormedCall
  <2>2. thread'[t].pc = "log" /\ SameCall(t) /\ \A u \in Threads \ {t} : thread'[u] = thread[u]
    BY <1>2, <1>12 DEF SwitchSlot, Pcs
  <2> QED
    BY <1>12, <2>1, <2>2 DEF SwitchSlot, Finishing, SameCall, history
<1>13. CASE Truncate(t)
  <2>1. c.op = "checkpoint" /\ c.pc = "truncate"
    BY <1>1, <1>13 DEF Truncate, WellFormedCall
  <2>2. thread' = [thread EXCEPT ![t] = Idle]
    BY <1>13 DEF Truncate
  <2>3. thread'[t] = Idle /\ \A u \in Threads \ {t} : thread'[u] = thread[u]
    BY <1>3, <2>2
  <2> QED
    BY <1>13, <2>1, <2>3 DEF Truncate, Finishing, Idle, history
<1> QED
  BY <1>4, <1>5, <1>6, <1>7, <1>8, <1>9, <1>10, <1>11, <1>12, <1>13 DEF Step

-----------------------------------------------------------------------------
(* A write is in one place.                                                *)

\* A task has a stripe once it is spawned, and a location once it maps.
PhaseInv ==
  \A t \in Tasks :
    /\ tasks[t].pc = "free" => tasks[t].writes = <<>>
    /\ tasks[t].pc \in {"free", "acquire", "encode", "write", "metadata"} => tasks[t].loc = NoLoc
    /\ tasks[t].pc \in {"mapping", "trim", "done"} => tasks[t].loc # NoLoc

LEMMA NextPhaseInv == TypesInv /\ PhaseInv /\ [DestageNext]_destageVars => PhaseInv'
<1> SUFFICES ASSUME TypesInv, PhaseInv, [DestageNext]_destageVars, NEW t \in Tasks
             PROVE  /\ tasks'[t].pc = "free" => tasks'[t].writes = <<>>
                    /\ tasks'[t].pc \in {"free", "acquire", "encode", "write", "metadata"} =>
                         tasks'[t].loc = NoLoc
                    /\ tasks'[t].pc \in {"mapping", "trim", "done"} => tasks'[t].loc # NoLoc
  BY DEF PhaseInv
<1>1. CASE tasks'[t] = tasks[t]
  BY <1>1 DEF PhaseInv
<1>2. CASE tasks'[t].pc = "acquire" /\ tasks'[t].loc = NoLoc
  BY <1>2
<1>3. CASE TaskMove(tasks[t], tasks'[t])
  <2>1. Drawn # NoLoc
    BY DrawnType, NullAssumption DEF TypesInv
  <2> QED
    BY <1>3, <2>1 DEF TaskMove, Moves, PhaseInv
<1>4. CASE tasks'[t].pc = "failed"
  BY <1>4
<1> QED
  BY <1>1, <1>2, <1>3, <1>4, TaskChanges

Places ==
  {<<"host", Host>>, <<"channel", Host>>}
    \union {<<"buffer", v>> : v \in Volumes} \union {<<"task", t>> : t \in Tasks}

\* The writes at a place.
Held(p) ==
  CASE p[1] = "host" -> {pending} \ {0}
    [] p[1] = "channel" -> ToSet(channel)
    [] p[1] = "buffer" -> ToSet(buffers[p[2]])
    [] p[1] = "task" -> ToSet(tasks[p[2]].writes)

Apart == \A p, q \in Places : p # q => Held(p) \intersect Held(q) = {}

PlacesInv ==
  /\ pending # 0 => pending = Len(journal)
  /\ IsInjective(channel) /\ \A v \in Volumes : IsInjective(buffers[v])
  /\ Apart
  /\ \A w \in trimmed : \E t \in Tasks : w \in ToSet(tasks[t].writes)

LEMMA PlaceIs ==
  /\ <<"host", Host>> \in Places /\ Held(<<"host", Host>>) = {pending} \ {0}
  /\ <<"channel", Host>> \in Places /\ Held(<<"channel", Host>>) = ToSet(channel)
  /\ \A v \in Volumes : <<"buffer", v>> \in Places /\ Held(<<"buffer", v>>) = ToSet(buffers[v])
  /\ \A t \in Tasks : <<"task", t>> \in Places /\ Held(<<"task", t>>) = ToSet(tasks[t].writes)
BY DEF Places, Held

\* Writes go from one place to another.
LEMMA MovedApart ==
  ASSUME Apart, NEW p \in Places, NEW q \in Places, p # q,
         \A o \in Places \ {p, q} : Held(o)' \subseteq Held(o),
         Held(p)' \subseteq Held(p), Held(q)' \subseteq Held(q) \union Held(p),
         Held(p)' \intersect Held(q)' = {}
  PROVE  Apart'
<1> SUFFICES ASSUME NEW o1 \in Places, NEW o2 \in Places, o1 # o2, NEW w,
                    w \in Held(o1)', w \in Held(o2)'
             PROVE  FALSE
  BY DEF Apart, Places
<1>1. w \in Held(o1) \/ (o1 = q /\ w \in Held(p))
  OBVIOUS
<1>2. w \in Held(o2) \/ (o2 = q /\ w \in Held(p))
  OBVIOUS
<1>3. \A a, b \in Places : w \in Held(a) /\ w \in Held(b) => a = b
  BY DEF Apart
<1>4. w \in Held(p)' /\ w \in Held(q)' => FALSE
  OBVIOUS
<1> QED
  BY <1>1, <1>2, <1>3, <1>4

LEMMA StayApart ==
  ASSUME Apart, \A o \in Places : Held(o)' \subseteq Held(o)
  PROVE  Apart'
<1> SUFFICES ASSUME NEW o1 \in Places, NEW o2 \in Places, o1 # o2, NEW w,
                    w \in Held(o1)', w \in Held(o2)'
             PROVE  FALSE
  BY DEF Apart, Places
<1> QED
  BY DEF Apart

LEMMA HeldAreWrites ==
  ASSUME TypesInv, NEW p \in Places
  PROVE  Held(p) \subseteq Writes
<1>1. CASE p = <<"host", Host>>
  <2>1. pending \in 0..Len(journal) /\ Len(journal) \in Nat
    BY WriteType DEF TypesInv, PipelineTypes
  <2>2. {pending} \ {0} \subseteq Writes
    BY <2>1 DEF Writes
  <2> QED
    BY <1>1, <2>2, PlaceIs
<1>2. CASE p = <<"channel", Host>>
  <2>1. channel \in Seq(Writes)
    BY DEF TypesInv, PipelineTypes
  <2> QED
    BY <1>2, <2>1, PlaceIs, SequenceIs
<1>3. ASSUME NEW v \in Volumes, p = <<"buffer", v>> PROVE Held(p) \subseteq Writes
  <2>1. buffers[v] \in Seq(Writes)
    BY DEF TypesInv, PipelineTypes
  <2>2. ToSet(buffers[v]) \subseteq Writes
    BY <2>1, SequenceIs
  <2> QED
    BY <1>3, <2>2, PlaceIs
<1>4. ASSUME NEW t \in Tasks, p = <<"task", t>> PROVE Held(p) \subseteq Writes
  <2>1. tasks[t].writes \in Seq(Writes)
    BY DEF TypesInv, PipelineTypes, TaskTypes
  <2>2. ToSet(tasks[t].writes) \subseteq Writes
    BY <2>1, SequenceIs
  <2> QED
    BY <1>4, <2>2, PlaceIs
<1> QED
  BY <1>1, <1>2, <1>3, <1>4 DEF Places

LEMMA HostWritePlacesInv ==
  ASSUME TypesInv, PlacesInv, NEW req \in Requests, HostWrite(req)
  PROVE  PlacesInv'
<1> DEFINE n == Len(journal) + 1
           p == <<"host", Host>>
<1>1. /\ pending = 0 /\ pending' = n /\ Len(journal') = n /\ n \notin Writes /\ n # 0
      /\ UNCHANGED <<channel, buffers, tasks, trimmed>>
  BY HostWriteTypesInv, WriteType DEF pipeline, TypesInv, Writes
<1>2. Held(p)' = {n}
  BY <1>1 DEF Held
<1>3. \A o \in Places \ {p} : Held(o)' = Held(o)
  BY <1>1 DEF Held, Places
<1>4. \A o \in Places : n \notin Held(o)
  BY <1>1, HeldAreWrites
<1>5. Apart'
  <2> SUFFICES ASSUME NEW o1 \in Places, NEW o2 \in Places, o1 # o2, NEW w,
                      w \in Held(o1)', w \in Held(o2)'
               PROVE  FALSE
    BY DEF Apart, Places
  <2> HIDE DEF n, p
  <2>1. CASE o1 = p \/ o2 = p
    BY <1>2, <1>3, <1>4, <2>1
  <2>2. CASE o1 # p /\ o2 # p
    BY <1>3, <2>2 DEF PlacesInv, Apart
  <2> QED
    BY <2>1, <2>2
<1> QED
  BY <1>1, <1>5 DEF PlacesInv

LEMMA SubmitPlacesInv ==
  ASSUME TypesInv, PlacesInv, submit_write
  PROVE  PlacesInv'
<1> DEFINE p == <<"host", Host>>
           q == <<"channel", Host>>
<1>1. /\ pending # 0 /\ channel' = Append(channel, pending) /\ pending' = 0
      /\ UNCHANGED <<buffers, tasks, trimmed, journal>>
  BY DEF submit_write
<1>2. channel \in Seq(Writes) /\ pending \in Writes
  BY <1>1, WriteType DEF TypesInv, PipelineTypes, Writes
<1>3. p \in Places /\ q \in Places /\ p # q
  BY PlaceIs
<1>4. Held(p) = {pending} /\ Held(p)' = {}
  BY <1>1 DEF Held
<1>5. ToSet(channel') = ToSet(channel) \union {pending}
  BY <1>1, <1>2, AppendIs
<1>6. Held(q) = ToSet(channel) /\ Held(q)' = ToSet(channel) \union {pending}
  BY <1>5 DEF Held
<1>7. \A o \in Places \ {p, q} : Held(o)' = Held(o)
  BY <1>1 DEF Held, Places
<1>8. pending \notin ToSet(channel)
  BY <1>3, <1>4, <1>6 DEF PlacesInv, Apart
<1>9. IsInjective(channel')
  BY <1>1, <1>2, <1>8, AppendIs DEF PlacesInv
<1> HIDE DEF p, q
<1>10. Apart'
  BY <1>3, <1>4, <1>6, <1>7, MovedApart DEF PlacesInv
<1> QED
  BY <1>1, <1>9, <1>10 DEF PlacesInv

LEMMA BufferPlacesInv ==
  ASSUME TypesInv, PlacesInv, buffer_write
  PROVE  PlacesInv'
<1>1. PICK w, v : w = Head(channel) /\ v = journal[w].vol
  OBVIOUS
<1>2. /\ channel # <<>> /\ channel' = Tail(channel)
      /\ buffers' = [buffers EXCEPT ![v] = Append(@, w)]
      /\ UNCHANGED <<tasks, trimmed, journal, pending>>
  BY <1>1 DEF buffer_write
<1>3. channel \in Seq(Writes) /\ buffers \in [Volumes -> Seq(Writes)]
  BY DEF TypesInv, PipelineTypes
<1>4. /\ w \in Writes /\ ToSet(channel) = ToSet(channel') \union {w}
      /\ IsInjective(channel') /\ w \notin ToSet(channel')
  BY <1>1, <1>2, <1>3, TailIs DEF PlacesInv
<1>5. v \in Volumes
  BY <1>1, <1>4, WriteType DEF TypesInv
<1> DEFINE p == <<"channel", Host>>
           q == <<"buffer", v>>
<1>6. p \in Places /\ q \in Places /\ p # q
  BY <1>5, PlaceIs
<1>7. Held(p) = ToSet(channel) /\ Held(q) = ToSet(buffers[v]) /\ Held(p)' = ToSet(channel')
  BY DEF Held
<1>8. w \notin ToSet(buffers[v])
  BY <1>4, <1>6, <1>7 DEF PlacesInv, Apart
<1>9. buffers'[v] = Append(buffers[v], w) /\ \A u \in Volumes \ {v} : buffers'[u] = buffers[u]
  BY <1>2, <1>3, <1>5
<1>10. ToSet(buffers'[v]) = ToSet(buffers[v]) \union {w} /\ IsInjective(buffers'[v])
  <2>1. buffers[v] \in Seq(Writes) /\ IsInjective(buffers[v])
    BY <1>3, <1>5 DEF PlacesInv
  <2> QED
    BY <2>1, <1>4, <1>8, <1>9, AppendIs
<1>11. Held(q)' = ToSet(buffers[v]) \union {w}
  BY <1>10 DEF Held
<1>12. \A o \in Places \ {p, q} : Held(o)' = Held(o)
  BY <1>2, <1>9 DEF Held, Places
<1>13. Held(p) \intersect Held(q) = {}
  BY <1>6 DEF PlacesInv, Apart
<1> HIDE DEF p, q
<1>14. Held(p)' \subseteq Held(p) /\ Held(q)' \subseteq Held(q) \union Held(p)
  BY <1>4, <1>7, <1>11
<1>15. Held(p)' \intersect Held(q)' = {}
  BY <1>4, <1>7, <1>11, <1>13
<1>16. Apart'
  BY <1>6, <1>12, <1>14, <1>15, MovedApart DEF PlacesInv
<1> QED
  BY <1>2, <1>4, <1>9, <1>10, <1>16 DEF PlacesInv

LEMMA ProcessPlacesInv ==
  ASSUME TypesInv, PhaseInv, PlacesInv, NEW v \in Volumes, process_ready_stripes(v)
  PROVE  PlacesInv'
<1>1. PICK t \in Tasks, n \in 1..Len(buffers[v]), c \in TaskTypes :
        /\ tasks[t].pc = "free" /\ tasks' = [tasks EXCEPT ![t] = c]
        /\ c.writes = SubSeq(buffers[v], 1, n)
        /\ buffers' = [buffers EXCEPT ![v] = SubSeq(@, n + 1, Len(@))]
  BY ProcessIs
<1>2. UNCHANGED <<channel, trimmed, journal, pending>>
  BY ProcessIs
<1>3. PICK a, b : a = SubSeq(buffers[v], 1, n) /\ b = SubSeq(buffers[v], n + 1, Len(buffers[v]))
  OBVIOUS
<1>4. buffers \in [Volumes -> Seq(Writes)] /\ tasks \in [Tasks -> TaskTypes]
  BY DEF TypesInv, PipelineTypes
<1>5. buffers[v] \in Seq(Writes) /\ n \in 0..Len(buffers[v])
  BY <1>4
<1>6. /\ ToSet(buffers[v]) = ToSet(a) \union ToSet(b) /\ ToSet(a) \intersect ToSet(b) = {}
      /\ IsInjective(b)
  BY <1>3, <1>5, ExtractIs DEF PlacesInv
<1>7. /\ tasks'[t].writes = a /\ \A u \in Tasks \ {t} : tasks'[u] = tasks[u]
      /\ buffers'[v] = b /\ \A u \in Volumes \ {v} : buffers'[u] = buffers[u]
  BY <1>1, <1>3, <1>4
<1> DEFINE p == <<"buffer", v>>
           q == <<"task", t>>
<1>8. p \in Places /\ q \in Places /\ p # q
  BY PlaceIs
<1>9. /\ Held(p) = ToSet(a) \union ToSet(b) /\ Held(p)' = ToSet(b)
      /\ Held(q)' = ToSet(a)
  BY <1>6, <1>7 DEF Held
<1>10. \A o \in Places \ {p, q} : Held(o)' = Held(o)
  BY <1>2, <1>7 DEF Held, Places
<1> HIDE DEF p, q
<1>11. Apart'
  <2>1. Held(p)' \subseteq Held(p) /\ Held(q)' \subseteq Held(q) \union Held(p)
    BY <1>9
  <2>2. Held(p)' \intersect Held(q)' = {}
    BY <1>6, <1>9
  <2> QED
    BY <1>8, <1>10, <2>1, <2>2, MovedApart DEF PlacesInv
<1>12. tasks[t].writes = <<>>
  BY <1>1 DEF PhaseInv
<1>13. ASSUME NEW w \in trimmed PROVE \E u \in Tasks : w \in ToSet(tasks'[u].writes)
  <2>1. PICK u \in Tasks : w \in ToSet(tasks[u].writes)
    BY DEF PlacesInv
  <2>2. u # t
    BY <1>12, <2>1, EmptySequenceIs
  <2> QED
    BY <1>7, <2>1, <2>2
<1> QED
  BY <1>2, <1>6, <1>7, <1>11, <1>13 DEF PlacesInv

LEMMA TaskPlacesInv ==
  ASSUME TypesInv, PlacesInv, NEW t \in Tasks, acquire(t) \/ TaskStep(t)
  PROVE  PlacesInv'
<1>1. UNCHANGED <<channel, buffers, journal, pending>>
  BY TaskStepIs DEF others
<1>2. \A u \in Tasks : tasks'[u].writes = tasks[u].writes
  <2>1. PICK c \in TaskTypes : tasks' = [tasks EXCEPT ![t] = c] /\ TaskMove(tasks[t], c)
    BY TaskStepIs
  <2> QED
    BY <2>1 DEF TaskMove, TypesInv, PipelineTypes
<1>3. \A o \in Places : Held(o)' = Held(o)
  BY <1>1, <1>2 DEF Held, Places
<1>4. Apart'
  BY <1>3, StayApart DEF PlacesInv
<1>5. trimmed' = trimmed \/ trim_journal(t)
  BY TaskStepIs
<1>6. ASSUME NEW w \in trimmed' PROVE \E u \in Tasks : w \in ToSet(tasks'[u].writes)
  <2>1. CASE w \in trimmed
    BY <1>2, <2>1 DEF PlacesInv
  <2>2. CASE trim_journal(t) /\ w \notin trimmed
    <3>1. w \in ToSet(tasks[t].writes)
      BY <2>2 DEF trim_journal
    <3> QED
      BY <1>2, <3>1
  <2> QED
    BY <1>5, <2>1, <2>2
<1> QED
  BY <1>1, <1>4, <1>6 DEF PlacesInv

LEMMA RestartPlacesInv ==
  ASSUME TypesInv, PlacesInv, ProcessRestart
  PROVE  PlacesInv'
<1>1. /\ \A t \in Tasks : tasks'[t].writes = tasks[t].writes
      /\ channel' = <<>> /\ buffers' = [v \in Volumes |-> <<>>] /\ pending' = 0
      /\ UNCHANGED <<trimmed, journal>>
  BY RestartIs
<1>2. \A o \in Places : Held(o)' \subseteq Held(o)
  BY <1>1, EmptySequenceIs DEF Held, Places
<1>3. Apart'
  BY <1>2, StayApart DEF PlacesInv
<1> QED
  BY <1>1, <1>3, EmptySequenceIs DEF PlacesInv

LEMMA NextPlacesInv ==
  TypesInv /\ PhaseInv /\ PlacesInv /\ [DestageNext]_destageVars => PlacesInv'
<1> SUFFICES ASSUME TypesInv, PhaseInv, PlacesInv, [DestageNext]_destageVars PROVE PlacesInv'
  OBVIOUS
<1>1. ASSUME UNCHANGED <<pending, journal, channel, buffers, tasks, trimmed>> PROVE PlacesInv'
  <2>1. \A o \in Places : Held(o)' = Held(o)
    BY <1>1 DEF Held
  <2>2. Apart'
    BY <2>1, StayApart DEF PlacesInv
  <2> QED
    BY <1>1, <2>2 DEF PlacesInv
<1>2. HostStep \/ shutdown \/ UNCHANGED destageVars
        => UNCHANGED <<pending, journal, channel, buffers, tasks, trimmed>>
  BY DEF HostStep, shutdown, destageVars, pipeline
<1> QED
  BY <1>1, <1>2, HostWritePlacesInv, SubmitPlacesInv, BufferPlacesInv, ProcessPlacesInv, TaskPlacesInv,
     RestartPlacesInv DEF DestageNext

-----------------------------------------------------------------------------
(* Later writes do not touch what is under way.                            *)

RaceInv ==
  ~raced => \A x \in Underway, w \in Writes : w > x => ~overlaps(RangeOf(x), RangeOf(w))

\* What is under way is somewhere, and comes from the host.
LEMMA UnderwayIs ==
  ASSUME TypesInv
  PROVE  /\ Underway \subseteq Writes
         /\ \A w \in Underway : \E p \in Places : w \in Held(p)
         /\ pending # 0 => pending \in Underway
         /\ \A t \in Tasks : HoldsWrites(t) => ToSet(tasks[t].writes) \subseteq Underway
<1>1. pending # 0 => pending \in Writes
  BY WriteType DEF TypesInv, PipelineTypes, Writes
<1>2. 0 \notin Writes
  BY WriteType DEF TypesInv
<1>3. \A w \in Underway : \E p \in Places : w \in Held(p)
  <2> SUFFICES ASSUME NEW w \in Underway PROVE \E p \in Places : w \in Held(p)
    OBVIOUS
  <2>1. \/ w \in ToSet(channel)
        \/ \E v \in Volumes : w \in ToSet(buffers[v])
        \/ \E t \in Tasks : w \in ToSet(tasks[t].writes)
        \/ w \in Writes /\ w = pending
    BY DEF Underway
  <2>2. w \in Writes /\ w = pending => w \in {pending} \ {0}
    BY <1>2
  <2> QED
    BY <2>1, <2>2, PlaceIs
<1>4. Underway \subseteq Writes
  BY <1>3, HeldAreWrites
<1>5. pending # 0 => pending \in Underway
  BY <1>1 DEF Underway
<1>6. ASSUME NEW t \in Tasks, HoldsWrites(t) PROVE ToSet(tasks[t].writes) \subseteq Underway
  BY <1>6 DEF Underway
<1> QED
  BY <1>3, <1>4, <1>5, <1>6

LEMMA LessUnderway ==
  ASSUME TypesInv, RaceInv, Underway' \subseteq Underway, UNCHANGED <<journal, raced>>
  PROVE  RaceInv'
BY DEF RaceInv, Writes, RangeOf, overlaps

LEMMA HostWriteRaceInv ==
  ASSUME TypesInv, RaceInv, NEW req \in Requests, HostWrite(req)
  PROVE  RaceInv'
<1> DEFINE n == Len(journal) + 1
<1>1. /\ UNCHANGED <<channel, buffers, tasks>> /\ pending' = n /\ n \notin Writes
      /\ Len(journal') = n /\ Writes' = Writes \union {n} /\ \A w \in Writes : n > w
      /\ \A w \in Writes : journal'[w] = journal[w]
      /\ journal'[n].range = req.range
      /\ raced' = (raced \/ \E w \in Underway : overlaps(RangeOf(w), req.range))
      /\ pending = 0
  BY HostWriteTypesInv, WriteType DEF pipeline, TypesInv, Writes
<1> HIDE DEF n
<1>2. Underway' \subseteq Underway \union {n}
  BY <1>1 DEF Underway, HoldsWrites
<1>3. Underway \subseteq Writes
  BY UnderwayIs
<1> SUFFICES ASSUME ~raced', NEW x \in Underway', NEW w \in Writes', w > x
             PROVE  ~overlaps(RangeOf(x), RangeOf(w))'
  BY DEF RaceInv
<1>4. Writes \subseteq Nat /\ n \in Nat
  BY WriteType DEF TypesInv, n
<1>5. x # n
  BY <1>1, <1>4
<1>6. x \in Underway /\ x \in Writes /\ journal'[x] = journal[x]
  BY <1>1, <1>2, <1>3, <1>5
<1>7. CASE w = n
  BY <1>1, <1>6, <1>7 DEF RangeOf, overlaps
<1>8. CASE w \in Writes
  BY <1>1, <1>6, <1>8 DEF RaceInv, RangeOf, overlaps
<1> QED
  BY <1>1, <1>7, <1>8

LEMMA NextRaceInv ==
  TypesInv /\ RaceInv /\ [DestageNext]_destageVars => RaceInv'
<1> SUFFICES ASSUME TypesInv, RaceInv, [DestageNext]_destageVars PROVE RaceInv'
  OBVIOUS
<1> USE DEF HoldsWrites
<1>1. ASSUME UNCHANGED <<channel, buffers, tasks, pending, journal, raced>> PROVE RaceInv'
  <2>1. Underway' = Underway
    BY <1>1 DEF Underway, Writes
  <2> QED
    BY <1>1, <2>1, LessUnderway
<1>2. CASE submit_write
  <2>1. /\ pending # 0 /\ channel' = Append(channel, pending) /\ pending' = 0
        /\ UNCHANGED <<buffers, tasks, journal, raced>>
    BY <1>2 DEF submit_write
  <2>2. channel \in Seq(Writes) /\ pending \in Writes /\ 0 \notin Writes
    BY <2>1, WriteType DEF TypesInv, PipelineTypes, Writes
  <2>3. ToSet(channel') = ToSet(channel) \union {pending}
    BY <2>1, <2>2, AppendIs
  <2>4. Underway' \subseteq Underway
    BY <2>1, <2>2, <2>3 DEF Underway, Writes
  <2> QED
    BY <2>1, <2>4, LessUnderway
<1>3. CASE buffer_write
  <2>1. PICK w, v : w = Head(channel) /\ v = journal[w].vol
    OBVIOUS
  <2>2. /\ channel # <<>> /\ channel' = Tail(channel)
        /\ buffers' = [buffers EXCEPT ![v] = Append(@, w)]
        /\ UNCHANGED <<tasks, journal, pending, raced>>
    BY <1>3, <2>1 DEF buffer_write
  <2>3. channel \in Seq(Writes) /\ buffers \in [Volumes -> Seq(Writes)]
    BY DEF TypesInv, PipelineTypes
  <2>4. w \in Writes /\ ToSet(channel) = ToSet(channel') \union {w}
    BY <2>1, <2>2, <2>3, TailIs
  <2>5. v \in Volumes
    BY <2>1, <2>4, WriteType DEF TypesInv
  <2>6. buffers'[v] = Append(buffers[v], w) /\ \A u \in Volumes \ {v} : buffers'[u] = buffers[u]
    BY <2>2, <2>3, <2>5
  <2>7. ToSet(buffers'[v]) = ToSet(buffers[v]) \union {w}
    BY <2>3, <2>4, <2>5, <2>6, AppendIs
  <2>8. \A u \in Volumes : ToSet(buffers'[u]) \subseteq ToSet(buffers[u]) \union {w}
    BY <2>6, <2>7
  <2>9. Underway' \subseteq Underway
    <3> SUFFICES ASSUME NEW x \in Underway' PROVE x \in Underway
      OBVIOUS
    <3>1. \/ x \in ToSet(channel')
          \/ \E u \in Volumes : x \in ToSet(buffers'[u])
          \/ \E t \in Tasks : HoldsWrites(t) /\ x \in ToSet(tasks[t].writes)
          \/ x \in Writes /\ x = pending
      BY <2>2 DEF Underway, Writes
    <3>2. x \in ToSet(channel') \/ x = w => x \in Underway
      BY <2>4 DEF Underway
    <3>3. ASSUME NEW u \in Volumes, x \in ToSet(buffers'[u]) PROVE x \in Underway
      BY <2>8, <3>2, <3>3 DEF Underway
    <3> QED
      BY <3>1, <3>2, <3>3 DEF Underway
  <2> QED
    BY <2>2, <2>9, LessUnderway
<1>4. ASSUME NEW v \in Volumes, process_ready_stripes(v) PROVE RaceInv'
  <2>1. PICK t \in Tasks, n \in 1..Len(buffers[v]), c \in TaskTypes :
          /\ tasks[t].pc = "free" /\ tasks' = [tasks EXCEPT ![t] = c]
          /\ c.writes = SubSeq(buffers[v], 1, n)
          /\ buffers' = [buffers EXCEPT ![v] = SubSeq(@, n + 1, Len(@))]
    BY <1>4, ProcessIs
  <2>2. UNCHANGED <<channel, journal, pending, raced>>
    BY <1>4, ProcessIs
  <2>3. PICK a, b : a = SubSeq(buffers[v], 1, n) /\ b = SubSeq(buffers[v], n + 1, Len(buffers[v]))
    OBVIOUS
  <2>4. buffers \in [Volumes -> Seq(Writes)] /\ tasks \in [Tasks -> TaskTypes]
    BY DEF TypesInv, PipelineTypes
  <2>5. ToSet(buffers[v]) = ToSet(a) \union ToSet(b)
    <3>1. buffers[v] \in Seq(Writes) /\ n \in 0..Len(buffers[v])
      BY <2>4
    <3> QED
      BY <2>3, <3>1, ExtractIs
  <2>6. /\ tasks'[t].writes = a /\ \A u \in Tasks \ {t} : tasks'[u] = tasks[u]
        /\ buffers'[v] = b /\ \A u \in Volumes \ {v} : buffers'[u] = buffers[u]
    BY <2>1, <2>3, <2>4
  <2>7. Underway' \subseteq Underway
    <3> SUFFICES ASSUME NEW w \in Underway' PROVE w \in Underway
      OBVIOUS
    <3>1. \/ w \in ToSet(channel)
          \/ \E u \in Volumes : w \in ToSet(buffers'[u])
          \/ \E u \in Tasks : tasks'[u].pc \notin {"free", "done", "failed"}
                                /\ w \in ToSet(tasks'[u].writes)
          \/ w \in Writes /\ w = pending
      BY <2>2 DEF Underway, Writes
    <3>2. ASSUME NEW u \in Volumes, w \in ToSet(buffers'[u]) PROVE w \in ToSet(buffers[u])
      BY <2>5, <2>6, <3>2
    <3>3. ASSUME NEW u \in Tasks, tasks'[u].pc \notin {"free", "done", "failed"},
                 w \in ToSet(tasks'[u].writes)
          PROVE  w \in Underway
      <4>1. CASE u = t
        BY <2>5, <2>6, <3>3, <4>1 DEF Underway
      <4>2. CASE u # t
        BY <2>6, <3>3, <4>2 DEF Underway
      <4> QED
        BY <4>1, <4>2
    <3> QED
      BY <3>1, <3>2, <3>3 DEF Underway
  <2> QED
    BY <2>2, <2>7, LessUnderway
<1>5. ASSUME \A t \in Tasks : /\ tasks'[t].writes = tasks[t].writes
                              /\ HoldsWrites(t)' => HoldsWrites(t),
             ToSet(channel') \subseteq ToSet(channel),
             \A v \in Volumes : ToSet(buffers'[v]) \subseteq ToSet(buffers[v]),
             pending' \in {0, pending}, UNCHANGED <<journal, raced>>
      PROVE  RaceInv'
  <2>1. 0 \notin Writes
    BY WriteType DEF TypesInv
  <2>2. Underway' \subseteq Underway
    BY <1>5, <2>1 DEF Underway, Writes
  <2> QED
    BY <1>5, <2>2, LessUnderway
<1>6. ASSUME NEW u \in Tasks, acquire(u) \/ TaskStep(u) PROVE RaceInv'
  <2>1. PICK c \in TaskTypes : tasks' = [tasks EXCEPT ![u] = c] /\ TaskMove(tasks[u], c)
    BY <1>6, TaskStepIs
  <2>2. \A t \in Tasks : /\ tasks'[t].writes = tasks[t].writes
                         /\ HoldsWrites(t)' => HoldsWrites(t)
    BY <2>1 DEF TaskMove, Moves, TypesInv, PipelineTypes
  <2>3. UNCHANGED <<channel, buffers, pending, journal, raced>>
    BY <1>6, TaskStepIs DEF others
  <2> QED
    BY <1>5, <2>2, <2>3
<1>7. CASE ProcessRestart
  <2>1. \A t \in Tasks : /\ tasks'[t].writes = tasks[t].writes
                         /\ HoldsWrites(t)' => HoldsWrites(t)
    BY <1>7, RestartIs
  <2>2. /\ channel' = <<>> /\ buffers' = [v \in Volumes |-> <<>>] /\ pending' = 0
        /\ UNCHANGED <<journal, raced>>
    BY <1>7, RestartIs
  <2> QED
    BY <1>5, <2>1, <2>2, EmptySequenceIs
<1>8. HostStep \/ shutdown \/ UNCHANGED destageVars
        => UNCHANGED <<channel, buffers, tasks, pending, journal, raced>>
  BY DEF HostStep, shutdown, destageVars, pipeline
<1> QED
  BY <1>1, <1>2, <1>3, <1>4, <1>6, <1>7, <1>8, HostWriteRaceInv DEF DestageNext

-----------------------------------------------------------------------------
(* What a thread maps, and to where.                                       *)

\* The host maps its write to the journal, a task its stripe to the cold store.
Active(t) == IF t = Host THEN pending # 0 /\ mode.maps ELSE tasks[t].pc \in {"mapping", "trim"}
RangeBy(t) == IF t = Host THEN RangeOf(pending) ELSE calculate_lba_range(tasks[t].writes)
LocBy(t) == IF t = Host THEN journal[pending].loc ELSE tasks[t].loc

\* They call the engine for that and nothing else.
OwnCall(t) ==
  thread[t].pc # "idle" /\ thread[t].op # "checkpoint" =>
    /\ thread[t].op \in {"insert", "update"}
    /\ thread[t].range = RangeBy(t) /\ thread[t].loc = LocBy(t)

OwnInv ==
  /\ thread[Host].pc # "idle" => pending # 0 /\ mode.maps
  /\ thread[Host].op # "update"
  /\ mode.maps => \A w \in Writes : journal[w].loc # NoLoc
  /\ \A t \in Tasks : tasks[t].pc = "mapping" <=> thread[t].pc # "idle"
  /\ \A t \in Threads : OwnCall(t)

LEMMA BusyIsActive ==
  ASSUME OwnInv, NEW t \in Threads, thread[t].pc # "idle"
  PROVE  Active(t)
BY DEF OwnInv, Active, Tasks

LEMMA RangeStays ==
  ASSUME NEW s \in Seq(Writes), \A w \in Writes : journal'[w] = journal[w]
  PROVE  calculate_lba_range(s)' = calculate_lba_range(s)
<1>1. ToSet(s) \subseteq Writes
  BY SequenceIs
<1>2. \A w \in ToSet(s) : RangeOf(w)' = RangeOf(w)
  BY <1>1 DEF RangeOf
<1>3. /\ {RangeOf(w)'.start : w \in ToSet(s)} = {RangeOf(w).start : w \in ToSet(s)}
      /\ {RangeOf(w)'.end : w \in ToSet(s)} = {RangeOf(w).end : w \in ToSet(s)}
  BY <1>2
<1> QED
  BY <1>3, Zenon DEF calculate_lba_range

\* A thread that keeps its write or its stripe keeps what it maps.
LEMMA ByStays ==
  ASSUME TypesInv, [DestageNext]_destageVars, NEW t \in Threads,
         t = Host => pending' = pending /\ pending # 0,
         t # Host => tasks'[t].writes = tasks[t].writes /\ tasks'[t].loc = tasks[t].loc
  PROVE  RangeBy(t)' = RangeBy(t) /\ LocBy(t)' = LocBy(t)
<1>1. CASE t = Host
  <2>1. pending \in Writes
    BY <1>1, WriteType DEF TypesInv, PipelineTypes, Writes
  <2>2. journal'[pending] = journal[pending]
    BY <2>1, JournalGrows
  <2> QED
    BY <1>1, <2>2 DEF RangeBy, LocBy, RangeOf
<1>2. CASE t # Host
  <2>1. PICK s : s = tasks[t].writes
    OBVIOUS
  <2>2. s \in Seq(Writes)
    BY <1>2, <2>1 DEF TypesInv, PipelineTypes, TaskTypes, Tasks
  <2>3. calculate_lba_range(s)' = calculate_lba_range(s)
    BY <2>2, RangeStays, JournalGrows
  <2>4. RangeBy(t) = calculate_lba_range(s)
    BY <1>2, <2>1 DEF RangeBy
  <2>5. RangeBy(t)' = calculate_lba_range(s)'
    BY <1>2, <2>1 DEF RangeBy, calculate_lba_range
  <2> QED
    BY <1>2, <2>3, <2>4, <2>5 DEF LocBy
<1> QED
  BY <1>1, <1>2

\* A thread that is not disturbed.
LEMMA OwnFrame ==
  ASSUME TypesInv, OwnInv, [DestageNext]_destageVars, NEW t \in Threads, thread'[t] = thread[t],
         thread[t].pc # "idle" => IF t = Host THEN pending' = pending ELSE tasks'[t] = tasks[t]
  PROVE  OwnCall(t)'
<1>1. CASE thread[t].pc = "idle"
  BY <1>1 DEF OwnCall
<1>2. CASE thread[t].pc # "idle"
  <2>1. t = Host => pending # 0
    BY <1>2 DEF OwnInv
  <2>2. RangeBy(t)' = RangeBy(t) /\ LocBy(t)' = LocBy(t)
    BY <1>2, <2>1, ByStays
  <2> QED
    BY <2>2 DEF OwnInv, OwnCall
<1> QED
  BY <1>1, <1>2

\* Steps that leave the engine and the tasks that use it alone.
LEMMA OwnStays ==
  ASSUME TypesInv, OwnInv, [DestageNext]_destageVars, UNCHANGED <<thread, mode>>,
         thread[Host].pc # "idle" => pending' = pending,
         \A t \in Tasks : \/ tasks'[t] = tasks[t]
                          \/ tasks[t].pc # "mapping" /\ tasks'[t].pc # "mapping",
         mode.maps => \A w \in Writes' : journal'[w].loc # NoLoc
  PROVE  OwnInv'
<1>1. ASSUME NEW t \in Threads PROVE OwnCall(t)'
  <2>1. thread[t].pc # "idle" => IF t = Host THEN pending' = pending ELSE tasks'[t] = tasks[t]
    BY DEF OwnInv, Tasks
  <2> QED
    BY <2>1, OwnFrame
<1> QED
  BY <1>1 DEF OwnInv

LEMMA HostWriteOwnInv ==
  ASSUME TypesInv, OwnInv, NEW req \in Requests, HostWrite(req)
  PROVE  OwnInv'
<1> DEFINE n == Len(journal) + 1
<1>0. [DestageNext]_destageVars
  BY DEF DestageNext
<1>1. /\ pending = 0 /\ pending' = n /\ Writes' = Writes \union {n}
      /\ \A w \in Writes : journal'[w] = journal[w]
      /\ journal'[n].range = req.range
      /\ mode.maps => journal'[n].loc = Drawn /\ insert_mapping(Host, req.range)
      /\ ~mode.maps => UNCHANGED engine
      /\ UNCHANGED <<tasks, mode>> /\ n # 0
  BY HostWriteTypesInv, WriteType DEF pipeline, TypesInv, Writes
<1> HIDE DEF n
<1>2. thread[Host].pc = "idle"
  BY <1>1 DEF OwnInv
<1>3. mode.maps => \A w \in Writes' : journal'[w].loc # NoLoc
  <2>1. Drawn # NoLoc
    BY DrawnType, NullAssumption DEF TypesInv
  <2> QED
    BY <1>1, <2>1 DEF OwnInv
<1>4. CASE ~mode.maps
  <2>1. UNCHANGED thread
    BY <1>1, <1>4 DEF engine, vars
  <2> QED
    BY <1>0, <1>1, <1>2, <1>3, <2>1, OwnStays
<1>5. CASE mode.maps
  <2>1. PICK c : c = [Idle EXCEPT !.pc = "log", !.op = "insert", !.range = req.range, !.loc = Drawn]
    OBVIOUS
  <2>2. thread' = [thread EXCEPT ![Host] = c]
    BY <1>1, <1>5, <2>1 DEF insert_mapping
  <2>3. c.pc = "log" /\ c.op = "insert" /\ c.range = req.range /\ c.loc = Drawn
    BY <2>1 DEF Idle
  <2>4. thread \in [Threads -> Calls] /\ Host \in Threads
    BY DestageAssumption DEF TypesInv, TypeInv, TypeOK
  <2>5. thread'[Host] = c /\ \A t \in Threads \ {Host} : thread'[t] = thread[t]
    BY <2>2, <2>4
  <2>6. RangeBy(Host)' = req.range /\ LocBy(Host)' = Drawn
    BY <1>1, <1>5 DEF RangeBy, LocBy, RangeOf
  <2>7. OwnCall(Host)'
    BY <2>3, <2>5, <2>6 DEF OwnCall
  <2>8. ASSUME NEW t \in Threads \ {Host} PROVE OwnCall(t)'
    BY <1>0, <1>1, <2>5, OwnFrame
  <2>9. \A t \in Tasks : tasks'[t].pc = "mapping" <=> thread'[t].pc # "idle"
    BY <1>1, <2>5 DEF OwnInv, Tasks
  <2>10. \A t \in Threads : OwnCall(t)'
    BY <2>7, <2>8
  <2> QED
    BY <1>1, <1>3, <1>5, <2>3, <2>5, <2>9, <2>10 DEF OwnInv
<1> QED
  BY <1>4, <1>5

\* A call moves on, or ends.
LEMMA OwnStep ==
  ASSUME TypesInv, OwnInv, [DestageNext]_destageVars, NEW t \in Threads, Step(t),
         IF t = Host THEN pending' = pending
                     ELSE tasks'[t].writes = tasks[t].writes /\ tasks'[t].loc = tasks[t].loc
  PROVE  OwnCall(t)' /\ (thread[t].op # "update" => thread'[t].op # "update")
<1>1. thread[t].pc # "idle" /\ (SameCall(t) \/ Finishing(t))
  BY EngineStepIs DEF TypesInv
<1>2. t = Host => pending # 0
  BY <1>1 DEF OwnInv
<1>3. RangeBy(t)' = RangeBy(t) /\ LocBy(t)' = LocBy(t)
  BY <1>2, ByStays
<1>4. CASE SameCall(t)
  BY <1>1, <1>3, <1>4 DEF SameCall, OwnInv, OwnCall
<1>5. CASE Finishing(t)
  BY <1>5 DEF Finishing, OwnCall
<1> QED
  BY <1>1, <1>4, <1>5

LEMMA HostStepOwnInv ==
  ASSUME TypesInv, OwnInv, HostStep
  PROVE  OwnInv'
<1>0. [DestageNext]_destageVars /\ Host \in Threads
  BY DestageAssumption DEF DestageNext
<1>1. Step(Host) /\ UNCHANGED <<tasks, mode, journal, pending>>
  BY DEF HostStep, pipeline
<1>2. OwnCall(Host)' /\ thread'[Host].op # "update"
  BY <1>0, <1>1, OwnStep DEF OwnInv
<1>3. \A t \in Threads \ {Host} : thread'[t] = thread[t]
  BY <1>0, <1>1, EngineStepIs DEF TypesInv
<1>4. \A t \in Threads \ {Host} : OwnCall(t)'
  BY <1>0, <1>1, <1>3, OwnFrame
<1>5. thread[Host].pc # "idle"
  BY <1>0, <1>1, EngineStepIs DEF TypesInv
<1>6. \A t \in Tasks : tasks'[t].pc = "mapping" <=> thread'[t].pc # "idle"
  BY <1>1, <1>3 DEF OwnInv, Tasks
<1>7. \A t \in Threads : OwnCall(t)'
  BY <1>2, <1>4
<1> QED
  BY <1>1, <1>2, <1>5, <1>6, <1>7 DEF OwnInv, Writes

\* What the engine's step means for the task.
LEMMA MapStripeIs ==
  ASSUME TypesInv, NEW t \in Tasks, MapStripe(t)
  PROVE  /\ Step(t) /\ tasks[t].pc = "mapping" /\ \A u \in Tasks \ {t} : tasks'[u] = tasks[u]
         /\ tasks'[t].writes = tasks[t].writes /\ tasks'[t].loc = tasks[t].loc
         /\ tasks'[t].shards = tasks[t].shards
         /\ tasks'[t].pc = IF thread'[t].pc # "idle" THEN "mapping"
                           ELSE IF thread[t].pc = "verify" THEN "failed" ELSE "trim"
<1>1. tasks \in [Tasks -> TaskTypes]
  BY DEF TypesInv, PipelineTypes
<1>2. Step(t) /\ tasks[t].pc = "mapping"
  BY DEF MapStripe, TaskAt
<1>3. CASE thread'[t].pc # "idle"
  BY <1>1, <1>2, <1>3 DEF MapStripe, At
<1>4. CASE thread'[t].pc = "idle" /\ thread[t].pc = "verify"
  <2>1. TaskGoto(t, "failed")
    BY <1>4 DEF MapStripe, At, Fail
  <2> QED
    BY <1>1, <1>2, <1>4, <2>1 DEF TaskGoto, TaskTypes
<1>5. CASE thread'[t].pc = "idle" /\ thread[t].pc # "verify"
  <2>1. TaskGoto(t, "trim")
    BY <1>5 DEF MapStripe, At
  <2> QED
    BY <1>1, <1>2, <1>5, <2>1 DEF TaskGoto, TaskTypes
<1> QED
  BY <1>3, <1>4, <1>5

LEMMA MapStripeOwnInv ==
  ASSUME TypesInv, OwnInv, NEW t \in Tasks, MapStripe(t)
  PROVE  OwnInv'
<1>0. [DestageNext]_destageVars /\ t \in Threads /\ t # Host /\ Host \in Threads
  BY DestageAssumption DEF DestageNext, TaskStep, Tasks
<1>1. UNCHANGED <<mode, journal, pending>>
  BY DEF MapStripe, others
<1>2. OwnCall(t)' /\ \A u \in Threads \ {t} : thread'[u] = thread[u]
  BY <1>0, MapStripeIs, OwnStep, EngineStepIs DEF TypesInv
<1>3. ASSUME NEW u \in Threads \ {t} PROVE OwnCall(u)'
  <2>1. u # Host => tasks'[u] = tasks[u]
    BY <1>3, MapStripeIs DEF Tasks
  <2> QED
    BY <1>0, <1>1, <1>2, <2>1, OwnFrame
<1>4. \A u \in Tasks : tasks'[u].pc = "mapping" <=> thread'[u].pc # "idle"
  BY <1>2, MapStripeIs DEF OwnInv, Tasks
<1>5. \A u \in Threads : OwnCall(u)'
  BY <1>2, <1>3
<1> QED
  BY <1>0, <1>1, <1>2, <1>4, <1>5 DEF OwnInv, Writes

\* The call of a task: for its stripe, to the location drawn now.
LEMMA UpdateCallIs ==
  ASSUME TypesInv, NEW t \in Tasks, update_metadata(t)
  PROVE  /\ thread[t].pc = "idle" /\ tasks[t].pc = "metadata"
         /\ thread'[t].pc \in {"verify", "log"} /\ thread'[t].op \in {"insert", "update"}
         /\ thread'[t].range = calculate_lba_range(tasks[t].writes) /\ thread'[t].loc = Drawn
         /\ \A u \in Threads \ {t} : thread'[u] = thread[u]
         /\ tasks'[t].pc = "mapping" /\ tasks'[t].loc = Drawn /\ tasks'[t].writes = tasks[t].writes
         /\ tasks'[t].shards = tasks[t].shards
         /\ \A u \in Tasks \ {t} : tasks'[u] = tasks[u]
         /\ UNCHANGED <<l2p_map, durable, history>> /\ UNCHANGED <<others, permits, trimmed>>
<1> DEFINE range == calculate_lba_range(tasks[t].writes)
<1>1. thread \in [Threads -> Calls] /\ t \in Threads /\ tasks \in [Tasks -> TaskTypes]
  BY DEF TypesInv, TypeInv, TypeOK, PipelineTypes, Tasks
<1>2. \/ insert_mapping(t, range)
      \/ \E old \in Locations : update_mapping(t, range, old)
  BY UpdateMetadataIs
<1>3. PICK c : /\ thread' = [thread EXCEPT ![t] = c] /\ c.pc \in {"verify", "log"}
               /\ c.op \in {"insert", "update"} /\ c.range = range /\ c.loc = Drawn
  <2> HIDE DEF range
  <2>1. CASE insert_mapping(t, range)
    <3> DEFINE c == [Idle EXCEPT !.pc = "log", !.op = "insert", !.range = range, !.loc = Drawn]
    <3>1. thread' = [thread EXCEPT ![t] = c]
      BY <2>1 DEF insert_mapping
    <3>2. c.pc = "log" /\ c.op = "insert" /\ c.range = range /\ c.loc = Drawn
      BY DEF Idle
    <3> HIDE DEF c
    <3> QED
      BY <3>1, <3>2
  <2>2. ASSUME NEW old \in Locations, update_mapping(t, range, old)
        PROVE  \E c : /\ thread' = [thread EXCEPT ![t] = c] /\ c.pc \in {"verify", "log"}
                      /\ c.op \in {"insert", "update"} /\ c.range = range /\ c.loc = Drawn
    <3> DEFINE c == [Idle EXCEPT !.pc = "verify", !.op = "update", !.range = range,
                                 !.loc = Drawn, !.old = old]
    <3>1. thread' = [thread EXCEPT ![t] = c]
      BY <2>2 DEF update_mapping
    <3>2. c.pc = "verify" /\ c.op = "update" /\ c.range = range /\ c.loc = Drawn
      BY DEF Idle
    <3> HIDE DEF c
    <3> QED
      BY <3>1, <3>2
  <2> QED
    BY <1>2, <2>1, <2>2
<1>4. /\ thread[t].pc = "idle" /\ UNCHANGED <<l2p_map, durable, history>>
  BY <1>2 DEF insert_mapping, update_mapping, At
<1>5. tasks' = [tasks EXCEPT ![t].pc = "mapping", ![t].loc = Drawn] /\ tasks[t].pc = "metadata"
      /\ UNCHANGED <<others, permits, trimmed>>
  BY DEF update_metadata, TaskAt
<1>6. thread'[t] = c /\ \A u \in Threads \ {t} : thread'[u] = thread[u]
  BY <1>1, <1>3
<1>7. /\ tasks'[t].pc = "mapping" /\ tasks'[t].loc = Drawn /\ tasks'[t].writes = tasks[t].writes
      /\ tasks'[t].shards = tasks[t].shards /\ \A u \in Tasks \ {t} : tasks'[u] = tasks[u]
  BY <1>1, <1>5 DEF TaskTypes
<1> QED
  BY <1>3, <1>4, <1>5, <1>6, <1>7

LEMMA UpdateOwnInv ==
  ASSUME TypesInv, OwnInv, NEW t \in Tasks, update_metadata(t)
  PROVE  OwnInv'
<1>0. [DestageNext]_destageVars /\ t \in Threads /\ t # Host /\ Host \in Threads
  BY DestageAssumption DEF DestageNext, TaskStep, Tasks
<1>1. UNCHANGED <<mode, journal, pending>>
  BY UpdateCallIs DEF others
<1>2. OwnCall(t)'
  <2>1. PICK s : s = tasks[t].writes
    OBVIOUS
  <2>2. s \in Seq(Writes) /\ tasks'[t].writes = s
    BY <2>1, UpdateCallIs DEF TypesInv, PipelineTypes, TaskTypes
  <2>3. calculate_lba_range(s)' = calculate_lba_range(s)
    BY <1>0, <2>2, RangeStays, JournalGrows
  <2>4. RangeBy(t)' = calculate_lba_range(s)'
    BY <1>0, <2>2 DEF RangeBy, calculate_lba_range
  <2>5. thread'[t].range = RangeBy(t)' /\ thread'[t].loc = LocBy(t)'
    BY <1>0, <2>1, <2>3, <2>4, UpdateCallIs DEF LocBy
  <2> QED
    BY <2>5, UpdateCallIs DEF OwnCall
<1>3. ASSUME NEW u \in Threads \ {t} PROVE OwnCall(u)'
  <2>1. thread'[u] = thread[u] /\ (u # Host => tasks'[u] = tasks[u])
    BY <1>3, UpdateCallIs DEF Tasks
  <2> QED
    BY <1>0, <1>1, <2>1, OwnFrame
<1>4. \A u \in Tasks : tasks'[u].pc = "mapping" <=> thread'[u].pc # "idle"
  BY UpdateCallIs DEF OwnInv, Tasks
<1>5. \A u \in Threads : OwnCall(u)'
  BY <1>2, <1>3
<1>6. thread'[Host] = thread[Host]
  BY <1>0, UpdateCallIs
<1> QED
  BY <1>1, <1>4, <1>5, <1>6 DEF OwnInv, Writes

LEMMA NextOwnInv == TypesInv /\ OwnInv /\ [DestageNext]_destageVars => OwnInv'
<1> SUFFICES ASSUME TypesInv, OwnInv, [DestageNext]_destageVars PROVE OwnInv'
  OBVIOUS
<1>1. ASSUME UNCHANGED <<engine, mode, journal>>,
             thread[Host].pc # "idle" => pending' = pending,
             \A t \in Tasks : \/ tasks'[t] = tasks[t]
                              \/ tasks[t].pc # "mapping" /\ tasks'[t].pc # "mapping"
      PROVE  OwnInv'
  <2>1. UNCHANGED <<thread, mode>> /\ Writes' = Writes
    BY <1>1 DEF engine, vars, Writes
  <2> QED
    BY <1>1, <2>1, OwnStays DEF OwnInv
<1>2. CASE submit_write
  <2>1. thread[Host].pc = "idle" /\ UNCHANGED <<engine, mode, journal, tasks>>
    BY <1>2 DEF submit_write, At
  <2> QED
    BY <1>1, <2>1
<1>3. CASE buffer_write \/ shutdown \/ UNCHANGED destageVars
  <2>1. UNCHANGED <<engine, mode, journal, tasks, pending>>
    BY <1>3 DEF buffer_write, shutdown, destageVars, pipeline
  <2> QED
    BY <1>1, <2>1
<1>4. ASSUME NEW v \in Volumes, process_ready_stripes(v) PROVE OwnInv'
  <2>1. UNCHANGED <<engine, mode, journal, pending>>
    BY <1>4, ProcessIs
  <2>2. \A t \in Tasks : \/ tasks'[t] = tasks[t]
                         \/ tasks[t].pc # "mapping" /\ tasks'[t].pc # "mapping"
    <3>1. PICK u \in Tasks, c \in TaskTypes :
            tasks[u].pc = "free" /\ tasks' = [tasks EXCEPT ![u] = c] /\ c.pc = "acquire"
      BY <1>4, ProcessIs
    <3> QED
      BY <3>1 DEF TypesInv, PipelineTypes
  <2> QED
    BY <1>1, <2>1, <2>2
<1>5. ASSUME NEW t \in Tasks, acquire(t) \/ encode(t) \/ write_shards(t) \/ trim_journal(t)
      PROVE  OwnInv'
  <2>1. UNCHANGED <<engine, mode, journal, pending>>
    BY <1>5 DEF acquire, encode, write_shards, trim_journal, others
  <2>2. tasks[t].pc \in {"acquire", "encode", "write", "trim"}
    BY <1>5 DEF acquire, encode, write_shards, trim_journal, TaskAt
  <2>3. PICK c \in TaskTypes : tasks' = [tasks EXCEPT ![t] = c] /\ TaskMove(tasks[t], c)
    BY <1>5, TaskStepIs DEF TaskStep
  <2>4. c.pc # "mapping"
    BY <2>2, <2>3 DEF TaskMove, Moves
  <2>5. \A u \in Tasks : \/ tasks'[u] = tasks[u]
                         \/ tasks[u].pc # "mapping" /\ tasks'[u].pc # "mapping"
    BY <2>2, <2>3, <2>4 DEF TypesInv, PipelineTypes
  <2> QED
    BY <1>1, <2>1, <2>5
<1>6. CASE ProcessRestart
  <2>1. /\ thread' = [t \in Threads |-> Idle]
        /\ \A t \in Tasks : tasks'[t].pc # "mapping"
        /\ UNCHANGED <<mode, journal>>
    BY <1>6, RestartIs DEF Restart
  <2>2. \A t \in Threads : thread'[t].pc = "idle" /\ thread'[t].op # "update"
    BY <2>1 DEF Idle
  <2>3. \A t \in Threads : OwnCall(t)'
    BY <2>2 DEF OwnCall
  <2> QED
    BY <2>1, <2>2, <2>3, DestageAssumption DEF OwnInv, Tasks, Writes
<1> QED
  BY <1>2, <1>3, <1>4, <1>5, <1>6, HostWriteOwnInv, HostStepOwnInv, MapStripeOwnInv, UpdateOwnInv
     DEF DestageNext, TaskStep

-----------------------------------------------------------------------------
(* The ranges of the map.                                                  *)

\* Aligned ranges are not split: what is a key of the map, of a checkpoint or of an entry
\* has been logged as it is.
UsedMaps == {m \in Maps : Keys(m) \subseteq used}
UsedEntries == {e \in Entries : e.type # "checkpoint" => e.range \in used}

UsedInv ==
  Recoverable =>
    /\ l2p_map \in UsedMaps
    /\ buffer \in Seq(UsedEntries)
    /\ \A slot \in Slots : checkpoint[slot] # NoCheckpoint => checkpoint[slot].mappings \in UsedMaps
    /\ \A t \in Threads : thread[t].ckpt # NoCheckpoint => thread[t].ckpt.mappings \in UsedMaps
    /\ \A t \in Threads : thread[t].pc = "apply" => thread[t].range \in used

LEMMA AlignedIsDisjoint ==
  ASSUME Recoverable, NEW m \in UsedMaps
  PROVE  Disjoint(m) /\ m \in Maps
BY DEF Recoverable, UsedMaps, Disjoint

\* An entry is replayed where its range was.
LEMMA ReplayUsed ==
  ASSUME TypeInv, Recoverable, NEW m \in UsedMaps, NEW e \in UsedEntries
  PROVE  /\ apply_wal_entry(m, e) \in UsedMaps
         /\ e.type \in {"insert", "update"} =>
              \A b \in Lbas : lookup(apply_wal_entry(m, e), b)
                                = IF contains(e.range, b) THEN e.loc ELSE lookup(m, b)
<1>1. Disjoint(m) /\ m \in Maps /\ Keys(m) \subseteq used
  BY AlignedIsDisjoint DEF UsedMaps
<1>2. e \in Entries /\ apply_wal_entry(m, e) \in Maps
  BY <1>1, ApplyType DEF UsedEntries
<1>3. Keys(m) \subseteq LbaRange
  BY DEF Keys
<1>4. CASE e.type \in {"insert", "update"}
  <2>1. apply_wal_entry(m, e) = [m EXCEPT ![e.range] = e.loc]
    BY <1>4 DEF apply_wal_entry
  <2>2. e.range \in used /\ e.loc \in Locations \union {NoLoc}
    BY <1>2, <1>4 DEF UsedEntries, Entries
  <2>3. \A k \in Keys(m) : overlaps(k, e.range) => k = e.range
    BY <1>1, <2>2 DEF Recoverable
  <2>4. PICK r, loc, new : r = e.range /\ loc = e.loc /\ new = [m EXCEPT ![r] = loc]
    OBVIOUS
  <2>5. r \in LbaRange /\ loc \in Locations \union {NoLoc}
    BY <2>2, <2>4 DEF TypeInv, TypeOK
  <2>6. r \in Keys(m) \/ \A k \in Keys(m) : ~overlaps(k, r)
    BY <2>3, <2>4
  <2>7. LET n == [m EXCEPT ![r] = loc]
        IN  /\ n \in Maps /\ Disjoint(n) /\ Keys(n) \subseteq Keys(m) \union {r}
            /\ \A b \in Lbas : lookup(n, b) = IF contains(r, b) THEN loc ELSE lookup(m, b)
    BY <1>1, <2>5, <2>6, ReplaceIs, ZenonT(40)
  <2>8. /\ Keys(new) \subseteq Keys(m) \union {r}
        /\ \A b \in Lbas : lookup(new, b) = IF contains(r, b) THEN loc ELSE lookup(m, b)
    BY <2>4, <2>7
  <2> QED
    BY <1>1, <1>2, <2>1, <2>2, <2>4, <2>8 DEF UsedMaps
<1>5. CASE e.type = "delete"
  <2>1. apply_wal_entry(m, e) = [m EXCEPT ![e.range] = NoLoc]
    BY <1>5 DEF apply_wal_entry
  <2>2. Keys(apply_wal_entry(m, e)) \subseteq Keys(m)
    BY <1>1, <2>1 DEF Keys, Maps
  <2> QED
    BY <1>1, <1>2, <1>5, <2>2 DEF UsedMaps
<1>6. CASE e.type = "checkpoint"
  BY <1>6 DEF apply_wal_entry
<1> QED
  BY <1>2, <1>4, <1>5, <1>6 DEF Entries, EntryTypes

LEMMA RecoverableBefore ==
  ASSUME used \subseteq used', cut => cut', Recoverable'
  PROVE  Recoverable
BY DEF Recoverable

LEMMA UsedGrows ==
  ASSUME used \subseteq used'
  PROVE  UsedMaps \subseteq UsedMaps' /\ UsedEntries \subseteq UsedEntries'
BY DEF UsedMaps, UsedEntries

LEMMA EmptyUsed == EmptyMap \in UsedMaps
BY EmptyMapIs DEF UsedMaps

\* So is what recovery builds.
LEMMA RecoverUsed ==
  ASSUME TypeInv, UsedInv, Recoverable
  PROVE  recover \in UsedMaps
<1>1. \A m \in UsedMaps, e \in UsedEntries : apply_wal_entry(m, e) \in UsedMaps
  BY ReplayUsed
<1>2. buffer \in Seq(UsedEntries)
  BY DEF UsedInv
<1>3. \A from : entries_after(buffer, from) \in Seq(UsedEntries)
  BY <1>2, AfterType
<1>4. active_slot \in Slots /\ other(active_slot) \in Slots
  BY Others DEF TypeInv, TypeOK
<1>5. load_latest_checkpoint # NoCheckpoint => load_latest_checkpoint.mappings \in UsedMaps
  BY <1>4 DEF load_latest_checkpoint, UsedInv
<1>6. CASE load_latest_checkpoint = NoCheckpoint
  <2>1. replay(EmptyMap, entries_after(buffer, 0)) \in UsedMaps
    BY <1>1, <1>3, EmptyUsed, ReplayIn
  <2> QED
    BY <1>6, <2>1 DEF recover
<1>7. CASE load_latest_checkpoint # NoCheckpoint
  <2>1. PICK m, from : m = load_latest_checkpoint.mappings /\ from = load_latest_checkpoint.lsn
    OBVIOUS
  <2>2. replay(m, entries_after(buffer, from)) \in UsedMaps
    BY <1>1, <1>3, <1>5, <1>7, <2>1, ReplayIn
  <2> QED
    BY <1>7, <2>1, <2>2 DEF recover
<1> QED
  BY <1>6, <1>7

\* A change of the map: the block has the new location, and no range is split.
LEMMA ApplyingIs ==
  ASSUME TypeInv, UsedInv, Recoverable, NEW t \in Threads, Applying(t),
         thread[t].op \in {"insert", "update"}
  PROVE  /\ l2p_map' \in UsedMaps
         /\ \A b \in Lbas : lookup(l2p_map', b) = IF contains(thread[t].range, b) THEN thread[t].loc
                                                                              ELSE lookup(l2p_map, b)
<1>1. PICK r, loc : r = thread[t].range /\ loc = thread[t].loc
  OBVIOUS
<1>2. r \in used /\ r \in LbaRange /\ loc \in Locations
  <2>1. thread[t].pc = "apply" /\ thread[t].op # "checkpoint" /\ WellFormedCall(thread[t])
    BY DEF Applying, TypeInv
  <2> QED
    BY <1>1, <2>1 DEF UsedInv, WellFormedCall
<1>3. l2p_map \in UsedMaps /\ l2p_map \in Maps /\ Disjoint(l2p_map) /\ Keys(l2p_map) \subseteq used
  BY AlignedIsDisjoint DEF UsedInv, UsedMaps
<1>4. \A k \in Keys(l2p_map) : overlaps(k, r) => k = r
  BY <1>2, <1>3 DEF Recoverable
<1>5. CASE thread[t].op = "insert"
  <2>1. l2p_map' = [handle_overlaps(l2p_map, r) EXCEPT ![r] = loc]
    BY <1>1, <1>5 DEF Applying
  <2>2. LET n == [handle_overlaps(l2p_map, r) EXCEPT ![r] = loc]
        IN  /\ n \in Maps /\ Disjoint(n)
            /\ \A b \in Lbas : lookup(n, b) = IF contains(r, b) THEN loc ELSE lookup(l2p_map, b)
            /\ (\A k \in Keys(l2p_map) : overlaps(k, r) => k = r) =>
                 Keys(n) \subseteq Keys(l2p_map) \union {r}
    BY <1>2, <1>3, InsertIs
  <2> QED
    BY <1>1, <1>2, <1>3, <1>4, <2>1, <2>2 DEF UsedMaps, Applying
<1>6. CASE thread[t].op = "update"
  <2>1. l2p_map' = [l2p_map EXCEPT ![r] = loc]
    BY <1>1, <1>6 DEF Applying
  <2>2. /\ r \in Keys(l2p_map) \/ \A k \in Keys(l2p_map) : ~overlaps(k, r)
        /\ loc \in Locations \union {NoLoc}
    BY <1>2, <1>4
  <2>3. LET n == [l2p_map EXCEPT ![r] = loc]
        IN  /\ n \in Maps /\ Disjoint(n) /\ Keys(n) \subseteq Keys(l2p_map) \union {r}
            /\ \A b \in Lbas : lookup(n, b) = IF contains(r, b) THEN loc ELSE lookup(l2p_map, b)
    BY <1>2, <1>3, <2>2, ReplaceIs, ZenonT(40)
  <2> QED
    BY <1>1, <1>2, <1>3, <2>1, <2>3 DEF UsedMaps, Applying
<1> QED
  BY <1>5, <1>6

\* A thread's call, and the checkpoint it holds.
UsedCall(c) ==
  /\ c.ckpt # NoCheckpoint => c.ckpt.mappings \in UsedMaps
  /\ c.pc = "apply" => c.range \in used

LEMMA UsedFrame ==
  ASSUME UsedInv, Recoverable, used \subseteq used', NEW t \in Threads,
         \A u \in Threads \ {t} : thread'[u] = thread[u], UsedCall(thread[t])',
         l2p_map' \in UsedMaps', buffer' \in Seq(UsedEntries'),
         \A slot \in Slots : checkpoint'[slot] # NoCheckpoint =>
           checkpoint'[slot].mappings \in UsedMaps
  PROVE  UsedInv'
<1>1. UsedMaps \subseteq UsedMaps'
  BY UsedGrows
<1>2. \A u \in Threads : UsedCall(thread[u])'
  BY <1>1 DEF UsedInv, UsedCall
<1> QED
  BY <1>1, <1>2 DEF UsedInv, UsedCall

LEMMA StepUsedInv ==
  ASSUME TypeInv, UsedInv, NEW t \in Threads, Step(t),
         thread[t].op \in {"insert", "update", "checkpoint"}
  PROVE  UsedInv'
<1> USE DEF At, Goto
<1> DEFINE c == thread[t]
<1>1. /\ c.pc # "idle" /\ \A u \in Threads \ {t} : thread'[u] = thread[u]
      /\ used \subseteq used' /\ cut' = cut
  BY EngineStepIs DEF Preparing, Logging, Applying, Finishing
<1>2. SUFFICES ASSUME Recoverable' PROVE UsedInv'
  BY DEF UsedInv
<1>3. Recoverable
  BY <1>1, <1>2, RecoverableBefore
<1>4. /\ l2p_map \in UsedMaps /\ buffer \in Seq(UsedEntries) /\ UsedCall(c)
      /\ \A slot \in Slots : checkpoint[slot] # NoCheckpoint => checkpoint[slot].mappings \in UsedMaps
  BY <1>3 DEF UsedInv, UsedCall
<1>5. /\ thread \in [Threads -> Calls] /\ c \in Calls /\ WellFormedCall(c)
      /\ checkpoint \in [Slots -> Checkpoints \union {NoCheckpoint}] /\ active_slot \in Slots
  BY DEF TypeInv, TypeOK
<1>6. ASSUME UNCHANGED <<l2p_map, buffer, checkpoint, used>>, UsedCall(thread[t])' PROVE UsedInv'
  BY <1>1, <1>3, <1>4, <1>6, UsedFrame, UsedGrows DEF UsedEntries
<1>7. ASSUME NEW pc \in Pcs, thread' = [thread EXCEPT ![t].pc = pc], pc # "apply", UNCHANGED used
      PROVE  UsedCall(thread[t])'
  BY <1>4, <1>5, <1>7 DEF UsedCall, UsedMaps, Calls
<1>8. CASE Verify(t)
  <2>1. PICK pc \in {"log", "idle"} : thread' = [thread EXCEPT ![t].pc = pc]
    BY <1>8 DEF Verify
  <2> QED
    BY <1>6, <1>7, <1>8, <2>1 DEF Verify, Pcs, durable, history
<1>9. CASE DrawLsn(t)
  <2>1. /\ thread' = [thread EXCEPT ![t].pc = "push", ![t].entry = current_lsn]
        /\ UNCHANGED <<l2p_map, buffer, checkpoint, used>>
    BY <1>9 DEF DrawLsn, history
  <2>2. thread'[t].pc = "push" /\ thread'[t].ckpt = c.ckpt
    BY <1>5, <2>1 DEF Calls
  <2> QED
    BY <1>4, <1>6, <2>1, <2>2 DEF UsedCall, UsedMaps
<1>10. CASE Push(t)
  <2>1. PICK e : e = [lsn |-> c.entry, type |-> c.op, range |-> c.range, loc |-> c.loc]
    OBVIOUS
  <2>2. /\ buffer' = Append(buffer, e) /\ UNCHANGED <<l2p_map, checkpoint>>
        /\ thread' = [thread EXCEPT ![t].pc = IF c.op = "checkpoint" THEN "truncate" ELSE "apply"]
        /\ c.op # "checkpoint" => used' = used \union {c.range}
    BY <1>10, <2>1 DEF Push
  <2>3. e \in Entries /\ e.type = c.op /\ e.range = c.range
    BY <1>5, <2>1 DEF Calls, Entries
  <2>4. e \in UsedEntries'
    BY <2>2, <2>3 DEF UsedEntries
  <2>5. buffer \in Seq(UsedEntries')
    BY <1>1, <1>4, UsedGrows, WritesGrow
  <2>6. buffer' \in Seq(UsedEntries')
    BY <2>2, <2>4, <2>5
  <2>7. /\ thread'[t].ckpt = c.ckpt /\ thread'[t].range = c.range
        /\ thread'[t].pc = "apply" => c.op # "checkpoint"
    BY <1>5, <2>2 DEF Calls
  <2>8. UsedCall(thread[t])'
    BY <1>1, <1>4, <2>2, <2>7, UsedGrows DEF UsedCall
  <2> QED
    BY <1>1, <1>3, <1>4, <2>2, <2>6, <2>8, UsedFrame, UsedGrows
<1>11. CASE Apply(t)
  <2>1. c.pc = "apply" /\ c.op # "checkpoint" /\ UNCHANGED <<used, buffer, checkpoint>>
    BY <1>5, <1>11 DEF Apply, WellFormedCall, durable
  <2>2. Applying(t)
    BY <2>1, EngineStepIs DEF Preparing, Logging, Finishing
  <2>3. l2p_map' \in UsedMaps
    BY <1>3, <2>1, <2>2, ApplyingIs
  <2>4. PICK pc \in {"idle", "maybe_checkpoint"} : thread' = [thread EXCEPT ![t].pc = pc]
    BY <1>11 DEF Apply
  <2>5. UsedCall(thread[t])'
    BY <1>7, <2>1, <2>4 DEF Pcs
  <2> QED
    BY <1>1, <1>3, <1>4, <2>1, <2>3, <2>5, UsedFrame DEF UsedMaps, UsedEntries
<1>12. CASE maybe_checkpoint(t) \/ Truncate(t)
  <2>1. PICK d : thread' = [thread EXCEPT ![t] = d] /\ d.ckpt = NoCheckpoint /\ d.pc # "apply"
    BY <1>12 DEF maybe_checkpoint, Truncate, Idle
  <2>2. thread'[t] = d
    BY <1>5, <2>1
  <2>3. UsedCall(thread[t])'
    BY <2>1, <2>2 DEF UsedCall
  <2>4. CASE maybe_checkpoint(t)
    BY <1>6, <2>3, <2>4 DEF maybe_checkpoint, durable, history
  <2>5. CASE Truncate(t)
    <3>1. buffer' = entries_after(buffer, c.ckpt.lsn) /\ UNCHANGED <<l2p_map, checkpoint, used>>
      BY <2>5 DEF Truncate, history
    <3>2. buffer' \in Seq(UsedEntries)
      BY <1>4, <3>1, AfterType
    <3> QED
      BY <1>1, <1>3, <1>4, <2>3, <3>1, <3>2, UsedFrame DEF UsedMaps, UsedEntries
  <2> QED
    BY <1>12, <2>4, <2>5
<1>13. CASE ReadLsn(t)
  <2>1. PICK k : k = [lsn |-> current_lsn, mappings |-> EmptyMap]
    OBVIOUS
  <2>2. /\ thread' = [thread EXCEPT ![t].pc = "snapshot", ![t].ckpt = k] /\ k.mappings = EmptyMap
        /\ UNCHANGED <<l2p_map, buffer, checkpoint, used>>
    BY <1>13, <2>1 DEF ReadLsn, durable, history
  <2>3. thread'[t].pc = "snapshot" /\ thread'[t].ckpt = k
    BY <1>5, <2>2 DEF Calls
  <2> QED
    BY <1>6, <2>2, <2>3, EmptyUsed DEF UsedCall, UsedMaps
<1>14. CASE Snapshot(t)
  <2>1. c.ckpt \in Checkpoints
    BY <1>5, <1>14 DEF Snapshot, WellFormedCall
  <2>2. PICK k : k = [c.ckpt EXCEPT !.mappings = l2p_map]
    OBVIOUS
  <2>3. /\ thread' = [thread EXCEPT ![t] = [c EXCEPT !.pc = "write_slot", !.ckpt = k]]
        /\ UNCHANGED <<l2p_map, buffer, checkpoint, used>>
    BY <1>5, <1>14, <2>1, <2>2 DEF Snapshot, durable, history, Calls
  <2>4. k.mappings = l2p_map
    BY <2>1, <2>2 DEF Checkpoints
  <2>5. thread'[t].pc = "write_slot" /\ thread'[t].ckpt = k
    BY <1>5, <2>3 DEF Calls
  <2> QED
    BY <1>4, <1>6, <2>3, <2>4, <2>5 DEF UsedCall, UsedMaps
<1>15. CASE WriteSlot(t)
  <2>1. c.ckpt \in Checkpoints /\ c.ckpt # NoCheckpoint
    BY <1>5, <1>15, NullAssumption DEF WriteSlot, WellFormedCall
  <2>2. /\ checkpoint' = [checkpoint EXCEPT ![other(active_slot)] = c.ckpt]
        /\ thread' = [thread EXCEPT ![t].pc = "switch_slot", ![t].range = NoLoc]
        /\ UNCHANGED <<l2p_map, buffer, used>>
    BY <1>15 DEF WriteSlot, history
  <2>3. thread'[t].pc = "switch_slot" /\ thread'[t].ckpt = c.ckpt
    BY <1>5, <2>2 DEF Calls
  <2>4. \A slot \in Slots : checkpoint'[slot] \in {checkpoint[slot], c.ckpt}
    BY <1>5, <2>2
  <2>5. \A slot \in Slots : checkpoint'[slot] # NoCheckpoint => checkpoint'[slot].mappings \in UsedMaps
    BY <1>4, <2>1, <2>4 DEF UsedCall
  <2>6. UsedCall(thread[t])'
    BY <1>4, <2>2, <2>3 DEF UsedCall, UsedMaps
  <2> QED
    BY <1>1, <1>3, <1>4, <2>2, <2>5, <2>6, UsedFrame DEF UsedMaps, UsedEntries
<1>16. CASE SwitchSlot(t)
  BY <1>6, <1>7, <1>16 DEF SwitchSlot, Pcs, history
<1> QED
  BY <1>8, <1>9, <1>10, <1>11, <1>12, <1>13, <1>14, <1>15, <1>16 DEF Step

\* A call that has just begun.
LEMMA BegunUsedInv ==
  ASSUME TypeInv, UsedInv, NEW t \in Threads, UNCHANGED <<l2p_map, durable, history>>,
         NEW c, thread' = [thread EXCEPT ![t] = c], c.ckpt = NoCheckpoint, c.pc # "apply"
  PROVE  UsedInv'
<1>1. UNCHANGED <<used, cut, buffer, checkpoint>>
  BY DEF durable, history
<1>2. Recoverable' = Recoverable /\ UsedMaps' = UsedMaps /\ UsedEntries' = UsedEntries
  BY <1>1 DEF Recoverable, UsedMaps, UsedEntries
<1>3. \A u \in Threads : thread'[u] = thread[u] \/ (thread'[u].ckpt = NoCheckpoint /\ thread'[u].pc # "apply")
  BY DEF TypeInv, TypeOK
<1> QED
  BY <1>1, <1>2, <1>3 DEF UsedInv

LEMMA NextUsedInv ==
  TypesInv /\ OwnInv /\ UsedInv /\ [DestageNext]_destageVars => UsedInv'
<1> SUFFICES ASSUME TypesInv, OwnInv, UsedInv, [DestageNext]_destageVars PROVE UsedInv'
  OBVIOUS
<1>0. TypeInv /\ Host \in Threads
  BY DestageAssumption DEF TypesInv
<1>1. ASSUME UNCHANGED engine PROVE UsedInv'
  <2>1. UNCHANGED <<l2p_map, used, cut, buffer, checkpoint, thread>>
    BY <1>1 DEF engine, vars, durable, history
  <2>2. Recoverable' = Recoverable /\ UsedMaps' = UsedMaps /\ UsedEntries' = UsedEntries
    BY <2>1 DEF Recoverable, UsedMaps, UsedEntries
  <2> QED
    BY <2>1, <2>2 DEF UsedInv
<1>2. ASSUME NEW t \in Threads, NEW r, insert_mapping(t, r) PROVE UsedInv'
  <2>1. PICK c : /\ thread' = [thread EXCEPT ![t] = c]
                 /\ c = [Idle EXCEPT !.pc = "log", !.op = "insert", !.range = r, !.loc = Drawn]
    BY <1>2 DEF insert_mapping
  <2>2. c.ckpt = NoCheckpoint /\ c.pc # "apply"
    BY <2>1 DEF Idle
  <2> QED
    BY <1>0, <1>2, <2>1, <2>2, BegunUsedInv DEF insert_mapping
<1>3. ASSUME NEW t \in Threads, NEW r, NEW old, update_mapping(t, r, old) PROVE UsedInv'
  <2>1. PICK c : /\ thread' = [thread EXCEPT ![t] = c]
                 /\ c = [Idle EXCEPT !.pc = "verify", !.op = "update", !.range = r, !.loc = Drawn,
                                     !.old = old]
    BY <1>3 DEF update_mapping
  <2>2. c.ckpt = NoCheckpoint /\ c.pc # "apply"
    BY <2>1 DEF Idle
  <2> QED
    BY <1>0, <1>3, <2>1, <2>2, BegunUsedInv DEF update_mapping
<1>4. ASSUME NEW t \in Threads, Step(t) PROVE UsedInv'
  <2>1. thread[t].op \in {"insert", "update", "checkpoint"}
    <3>1. thread[t].pc # "idle"
      BY <1>0, <1>4, EngineStepIs
    <3> QED
      BY <3>1 DEF OwnInv, OwnCall
  <2> QED
    BY <1>0, <1>4, <2>1, StepUsedInv
<1>5. ASSUME NEW req \in Requests, HostWrite(req) PROVE UsedInv'
  <2>1. insert_mapping(Host, req.range) \/ UNCHANGED engine
    BY <1>5 DEF HostWrite
  <2> QED
    BY <1>0, <1>1, <1>2, <2>1
<1>6. CASE HostStep
  BY <1>0, <1>4, <1>6 DEF HostStep
<1>7. submit_write \/ buffer_write \/ shutdown \/ UNCHANGED destageVars => UNCHANGED engine
  BY DEF submit_write, buffer_write, shutdown, destageVars
<1>8. \A v \in Volumes : process_ready_stripes(v) => UNCHANGED engine
  BY DEF process_ready_stripes
<1>9. ASSUME NEW t \in Tasks, acquire(t) \/ TaskStep(t) PROVE UsedInv'
  <2>0. t \in Threads
    BY DEF Tasks
  <2>1. CASE update_metadata(t)
    <3>1. \/ insert_mapping(t, calculate_lba_range(tasks[t].writes))
          \/ \E old \in Locations : update_mapping(t, calculate_lba_range(tasks[t].writes), old)
      BY <2>1, UpdateMetadataIs
    <3> QED
      BY <2>0, <1>2, <1>3, <3>1
  <2>2. CASE MapStripe(t)
    BY <2>0, <1>4, <2>2 DEF MapStripe
  <2>3. acquire(t) \/ encode(t) \/ write_shards(t) \/ trim_journal(t) => UNCHANGED engine
    BY DEF acquire, encode, write_shards, trim_journal
  <2> QED
    BY <1>1, <1>9, <2>1, <2>2, <2>3 DEF TaskStep
<1>10. CASE ProcessRestart
  <2>1. /\ l2p_map' = recover /\ UNCHANGED <<buffer, checkpoint, used>> /\ (cut => cut')
        /\ thread' = [t \in Threads |-> Idle]
    BY <1>10 DEF ProcessRestart, Restart, durable
  <2>2. SUFFICES ASSUME Recoverable' PROVE UsedInv'
    BY DEF UsedInv
  <2>3. used \subseteq used' /\ used' = used /\ buffer' = buffer /\ checkpoint' = checkpoint
    BY <2>1
  <2>4. Recoverable
    BY ONLY <2>1, <2>2, <2>3, RecoverableBefore
  <2>5. recover \in UsedMaps
    BY <1>0, <2>4, RecoverUsed
  <2>6. \A t \in Threads : thread'[t].ckpt = NoCheckpoint /\ thread'[t].pc # "apply"
    BY <2>1 DEF Idle
  <2>7. UsedMaps' = UsedMaps /\ UsedEntries' = UsedEntries
    BY <2>3 DEF UsedMaps, UsedEntries
  <2>8. /\ l2p_map' \in UsedMaps' /\ buffer' \in Seq(UsedEntries')
        /\ \A slot \in Slots : checkpoint'[slot] # NoCheckpoint =>
             checkpoint'[slot].mappings \in UsedMaps'
    BY <2>1, <2>3, <2>4, <2>5, <2>7 DEF UsedInv
  <2> QED
    BY <2>6, <2>8 DEF UsedInv
<1> QED
  BY <1>1, <1>5, <1>6, <1>7, <1>8, <1>9, <1>10 DEF DestageNext

-----------------------------------------------------------------------------
(* Reads find what they must.                                              *)

\* Each block between the ends of a stripe belongs to one of its writes.
StripesAreGapless ==
  \A t \in Tasks : tasks[t].pc # "free" =>
    \A b \in Lbas : contains(calculate_lba_range(tasks[t].writes), b) =>
      \E w \in ToSet(tasks[t].writes) : contains(RangeOf(w), b)

StripesAreWhole == StripesAreCopied /\ StripesAreGapless

\* What the theorem is about: no race, no dry run, and a log that recovery can use.
Quiet == ~raced /\ ~mode.dry_run /\ Recoverable

\* The change of a thread is in the log, and is in the map.
Logged(t) ==
  Active(t) /\ (thread[t].pc \in {"idle", "apply", "maybe_checkpoint"} \/ thread[t].op = "checkpoint")
Applied(t) ==
  Active(t) /\ (thread[t].pc \in {"idle", "maybe_checkpoint"} \/ thread[t].op = "checkpoint")

\* The location loc has the write w, or a later one, for the block b.
InJournal(loc, b, w) ==
  \E x \in Writes \ trimmed : x >= w /\ journal[x].loc = loc /\ contains(RangeOf(x), b)
InStripe(loc, b, w) ==
  \E t \in Tasks :
    /\ tasks[t].loc = loc
    /\ tasks[t].shards >= DataShards
    /\ \E x \in Writes : x >= w /\ Aggregated(tasks[t].writes, x, b)
FoundAt(loc, b, w) == loc # NoLoc /\ (InJournal(loc, b, w) \/ InStripe(loc, b, w))

\* While a thread changes the map nothing else touches its blocks; what must be found is
\* found in the map, and where recovery would lead.
MapsOwn(t) ==
  \A b \in Lbas : contains(RangeBy(t), b) =>
    /\ Logged(t) => content[b] = LocBy(t)
    /\ Applied(t) => lookup(l2p_map, b) = LocBy(t)
Found(w) ==
  \A b \in Lbas : contains(RangeOf(w), b) =>
    FoundAt(lookup(l2p_map, b), b, w) /\ FoundAt(content[b], b, w)
FoundInv ==
  Quiet => (\A t \in Threads : MapsOwn(t)) /\ (\A w \in MustBeFound : Found(w))

LEMMA FoundIs == FoundInv => WritesAreFoundUnlessRaced
BY DEF FoundInv, Quiet, WritesAreFoundUnlessRaced, WritesAreFound, Found, FoundAt, Finds, InJournal,
       InStripe

\* All that is known of the pipeline.
PipelineInv ==
  /\ TypesInv /\ ShardsInv /\ PhaseInv /\ PlacesInv /\ RaceInv /\ OwnInv /\ UsedInv

LEMMA MustBeWrites == TypesInv => MustBeFound \subseteq Writes /\ trimmed \subseteq Writes
BY DEF TypesInv, PipelineTypes, MustBeFound

\* A block that an active thread maps belongs to a write it holds.
LEMMA ActiveHas ==
  ASSUME PipelineInv, StripesAreGapless, NEW t \in Threads, Active(t), NEW b \in Lbas,
         contains(RangeBy(t), b)
  PROVE  LET p == IF t = Host THEN <<"host", Host>> ELSE <<"task", t>> IN
         p \in Places /\ \E w \in Underway : w \in Held(p) /\ contains(RangeOf(w), b)
<1>0. TypesInv
  BY DEF PipelineInv
<1>1. CASE t = Host
  <2>1. pending # 0 /\ pending \in Underway /\ contains(RangeOf(pending), b)
    BY <1>0, <1>1, UnderwayIs DEF Active, RangeBy
  <2> QED
    BY <1>1, <2>1, PlaceIs
<1>2. CASE t # Host
  <2>1. t \in Tasks /\ tasks[t].pc \in {"mapping", "trim"} /\ contains(calculate_lba_range(tasks[t].writes), b)
    BY <1>2 DEF Active, RangeBy, Tasks
  <2>2. PICK w \in ToSet(tasks[t].writes) : contains(RangeOf(w), b)
    BY <2>1 DEF StripesAreGapless
  <2>3. w \in Underway
    BY <1>0, <2>1, <2>2, UnderwayIs DEF HoldsWrites
  <2> QED
    BY <1>2, <2>1, <2>2, <2>3, PlaceIs
<1> QED
  BY <1>1, <1>2

\* Two writes under way share no block.
LEMMA UnderwayApart ==
  ASSUME PipelineInv, ~raced, NEW x \in Underway, NEW y \in Writes, NEW b \in Lbas,
         contains(RangeOf(x), b), contains(RangeOf(y), b)
  PROVE  x >= y
<1>1. x \in Writes /\ Writes \subseteq Nat
  BY UnderwayIs, WriteType DEF PipelineInv, TypesInv
<1>2. RangeOf(x) \in LbaRange /\ RangeOf(y) \in LbaRange /\ b \in Nat
  BY <1>1, WriteType, EngineAssumption DEF PipelineInv, TypesInv, Lbas
<1>3. overlaps(RangeOf(x), RangeOf(y))
  BY <1>2, RangeType DEF contains, overlaps
<1>4. ~(y > x)
  BY <1>3 DEF PipelineInv, RaceInv
<1> QED
  BY <1>1, <1>4

\* Two active threads map no block in common.
LEMMA ActiveApart ==
  ASSUME PipelineInv, ~raced, StripesAreGapless, NEW t \in Threads, NEW u \in Threads, t # u,
         Active(t), Active(u), NEW b \in Lbas, contains(RangeBy(t), b), contains(RangeBy(u), b)
  PROVE  FALSE
<1>1. PICK p \in Places, q \in Places, x \in Underway, y \in Underway :
        /\ p # q /\ x \in Held(p) /\ y \in Held(q)
        /\ contains(RangeOf(x), b) /\ contains(RangeOf(y), b)
  <2>1. PICK p : p = IF t = Host THEN <<"host", Host>> ELSE <<"task", t>>
    OBVIOUS
  <2>2. PICK q : q = IF u = Host THEN <<"host", Host>> ELSE <<"task", u>>
    OBVIOUS
  <2>3. p # q
    BY <2>1, <2>2
  <2>4. p \in Places /\ \E w \in Underway : w \in Held(p) /\ contains(RangeOf(w), b)
    BY <2>1, ActiveHas
  <2>5. q \in Places /\ \E w \in Underway : w \in Held(q) /\ contains(RangeOf(w), b)
    BY <2>2, ActiveHas
  <2> QED
    BY <2>3, <2>4, <2>5
<1>2. x \in Writes /\ y \in Writes /\ Writes \subseteq Nat
  BY UnderwayIs, WriteType DEF PipelineInv, TypesInv
<1>3. x >= y /\ y >= x
  BY <1>1, <1>2, UnderwayApart
<1>4. x = y
  BY <1>2, <1>3
<1> QED
  BY <1>1, <1>4 DEF PipelineInv, PlacesInv, Apart

\* The location of an active thread has each write for the blocks the thread maps.
LEMMA Supplies ==
  ASSUME PipelineInv, ~raced, ~mode.dry_run, StripesAreWhole, NEW t \in Threads, Active(t),
         NEW b \in Lbas, contains(RangeBy(t), b), NEW w \in Writes, contains(RangeOf(w), b)
  PROVE  FoundAt(LocBy(t), b, w) /\ (t # Host => InStripe(LocBy(t), b, w))
<1>0. TypesInv /\ Writes \subseteq Nat
  BY WriteType DEF PipelineInv, TypesInv
<1>1. CASE t = Host
  <2>1. pending \in Writes /\ pending \in Underway /\ contains(RangeOf(pending), b)
    BY <1>0, <1>1, UnderwayIs DEF Active, RangeBy
  <2>2. pending >= w
    BY <2>1, UnderwayApart
  <2>3. pending \notin trimmed
    <3>1. ASSUME NEW u \in Tasks, pending \in ToSet(tasks[u].writes) PROVE FALSE
      <4>1. pending \in Held(<<"task", u>>) /\ <<"task", u>> \in Places
        BY <3>1, PlaceIs
      <4>2. pending \in Held(<<"host", Host>>) /\ <<"host", Host>> \in Places
        BY <1>1, PlaceIs DEF Active
      <4> QED
        BY <4>1, <4>2 DEF PipelineInv, PlacesInv, Apart
    <3> QED
      BY <3>1 DEF PipelineInv, PlacesInv
  <2>4. journal[pending].loc # NoLoc
    BY <1>1, <2>1 DEF PipelineInv, OwnInv, Active
  <2> QED
    BY <1>1, <2>1, <2>2, <2>3, <2>4 DEF FoundAt, InJournal, LocBy
<1>2. CASE t # Host
  <2>1. t \in Tasks /\ tasks[t].pc \in {"mapping", "trim"} /\ contains(calculate_lba_range(tasks[t].writes), b)
    BY <1>2 DEF Active, RangeBy, Tasks
  <2>2. PICK x \in ToSet(tasks[t].writes) : contains(RangeOf(x), b)
    BY <2>1 DEF StripesAreWhole, StripesAreGapless
  <2>3. Aggregated(tasks[t].writes, x, b)
    BY <2>1, <2>2 DEF StripesAreWhole, StripesAreCopied
  <2>4. x \in Underway /\ x \in Writes
    BY <1>0, <2>1, <2>2, UnderwayIs DEF HoldsWrites
  <2>5. x >= w
    BY <2>2, <2>4, UnderwayApart
  <2>6. tasks[t].shards >= DataShards /\ tasks[t].loc # NoLoc
    BY <2>1 DEF PipelineInv, ShardsInv, PhaseInv
  <2> QED
    BY <1>2, <2>1, <2>3, <2>4, <2>5, <2>6 DEF FoundAt, InStripe, LocBy
<1> QED
  BY <1>1, <1>2

\* What a step does to the history; a quiet state has a quiet past.
LEMMA QuietBefore ==
  ASSUME TypesInv, [DestageNext]_destageVars, Quiet'
  PROVE  Quiet
<1>1. mode' = mode
  BY JournalGrows
<1>2. raced => raced'
  <2>1. ASSUME NEW req \in Requests, HostWrite(req) PROVE raced => raced'
    BY <2>1 DEF HostWrite
  <2>2. ASSUME NEW t \in Tasks, acquire(t) \/ TaskStep(t) PROVE raced' = raced
    BY <2>2, TaskStepIs DEF others
  <2>3. ASSUME NEW v \in Volumes, process_ready_stripes(v) PROVE raced' = raced
    BY <2>3 DEF process_ready_stripes
  <2>4. HostStep \/ submit_write \/ buffer_write \/ shutdown \/ ProcessRestart \/ UNCHANGED destageVars
          => raced' = raced
    BY DEF HostStep, submit_write, buffer_write, shutdown, ProcessRestart, destageVars
  <2> QED
    BY <2>1, <2>2, <2>3, <2>4 DEF DestageNext
<1>3. used \subseteq used' /\ (cut => cut')
  <2>1. UNCHANGED history => used \subseteq used' /\ (cut => cut')
    BY DEF history
  <2>2. ASSUME NEW t \in Threads, Step(t) PROVE used \subseteq used' /\ (cut => cut')
    BY <2>2, EngineStepIs DEF TypesInv, Preparing, Logging, Applying, Finishing
  <2>3. ASSUME NEW req \in Requests, HostWrite(req) PROVE UNCHANGED history
    BY <2>3 DEF HostWrite, insert_mapping, engine, vars
  <2>4. ASSUME NEW t \in Tasks, acquire(t) \/ TaskStep(t)
        PROVE  UNCHANGED history \/ Step(t)
    <3>1. update_metadata(t) => UNCHANGED history
      BY UpdateCallIs
    <3> QED
      BY <2>4, <3>1 DEF TaskStep, acquire, encode, write_shards, trim_journal, MapStripe, engine, vars
  <2>5. ASSUME NEW v \in Volumes, process_ready_stripes(v) PROVE UNCHANGED history
    BY <2>5 DEF process_ready_stripes, engine, vars
  <2>6. submit_write \/ buffer_write \/ shutdown \/ UNCHANGED destageVars => UNCHANGED history
    BY DEF submit_write, buffer_write, shutdown, destageVars, engine, vars
  <2>7. ProcessRestart => used \subseteq used' /\ (cut => cut')
    BY DEF ProcessRestart, Restart
  <2>8. HostStep => Step(Host) /\ Host \in Threads
    BY DestageAssumption DEF HostStep
  <2> QED
    BY <2>1, <2>2, <2>3, <2>4, <2>5, <2>6, <2>7, <2>8 DEF DestageNext, Tasks
<1> QED
  BY <1>1, <1>2, <1>3, RecoverableBefore DEF Quiet

\* What is found in a stripe is found there ever after, what is found in the journal until
\* it is trimmed.
LEMMA InStripeStays ==
  ASSUME TypesInv, PhaseInv, [DestageNext]_destageVars, NEW loc, loc # NoLoc, NEW b, NEW w \in Writes,
         InStripe(loc, b, w)
  PROVE  InStripe(loc, b, w)'
<1>1. PICK t \in Tasks, x \in Writes :
        /\ tasks[t].loc = loc /\ tasks[t].shards >= DataShards
        /\ x >= w /\ Aggregated(tasks[t].writes, x, b)
  BY DEF InStripe
<1>2. PICK s : s = tasks[t].writes
  OBVIOUS
<1>3. s \in Seq(Writes)
  BY <1>2 DEF TypesInv, PipelineTypes, TaskTypes
<1>4. tasks[t].pc \in {"mapping", "trim", "done", "failed"}
  BY <1>1 DEF PhaseInv, TypesInv, PipelineTypes, TaskTypes, TaskPcs
<1>5. tasks'[t].loc = loc /\ tasks'[t].shards = tasks[t].shards /\ tasks'[t].writes = s
  BY <1>1, <1>2, <1>4, TaskChanges DEF TaskMove, Moves
<1>6. Aggregated(s, x, b)'
  BY <1>1, <1>2, <1>3, StripeStays, JournalGrows
<1>7. Aggregated(tasks[t].writes, x, b)' /\ x \in Writes'
  BY <1>5, <1>6, JournalGrows DEF Aggregated
<1> QED
  BY <1>1, <1>5, <1>7 DEF InStripe

LEMMA InJournalStays ==
  ASSUME TypesInv, [DestageNext]_destageVars, NEW loc, NEW b, NEW w \in Writes,
         InJournal(loc, b, w), \A x \in trimmed' \ trimmed : ~contains(RangeOf(x), b)
  PROVE  InJournal(loc, b, w)'
<1>1. PICK x \in Writes \ trimmed : x >= w /\ journal[x].loc = loc /\ contains(RangeOf(x), b)
  BY DEF InJournal
<1>2. x \in Writes' /\ journal'[x] = journal[x]
  BY JournalGrows
<1>3. x \notin trimmed'
  BY <1>1
<1>4. contains(RangeOf(x), b)'
  BY <1>1, <1>2 DEF RangeOf, contains
<1> QED
  BY <1>1, <1>2, <1>3, <1>4 DEF InJournal

LEMMA FoundAtStays ==
  ASSUME TypesInv, PhaseInv, [DestageNext]_destageVars, NEW loc, NEW b, NEW w \in Writes,
         FoundAt(loc, b, w), \A x \in trimmed' \ trimmed : ~contains(RangeOf(x), b)
  PROVE  FoundAt(loc, b, w)'
BY InStripeStays, InJournalStays DEF FoundAt

\* A step that changes neither map.
LEMMA FoundStays ==
  ASSUME TypesInv, PhaseInv, [DestageNext]_destageVars, NEW w \in Writes, Found(w),
         UNCHANGED <<l2p_map, content, trimmed>>
  PROVE  Found(w)'
<1> SUFFICES ASSUME NEW b \in Lbas, contains(RangeOf(w), b)'
             PROVE  FoundAt(lookup(l2p_map, b), b, w)' /\ FoundAt(content[b], b, w)'
  BY DEF Found
<1>1. contains(RangeOf(w), b)
  BY JournalGrows DEF RangeOf, contains
<1>2. PICK loc, old : loc = lookup(l2p_map, b) /\ old = content[b]
  OBVIOUS
<1>3. FoundAt(loc, b, w) /\ FoundAt(old, b, w)
  BY <1>1, <1>2 DEF Found
<1>4. FoundAt(loc, b, w)' /\ FoundAt(old, b, w)'
  BY <1>3, FoundAtStays
<1>5. lookup(l2p_map, b)' = loc /\ content'[b] = old
  BY <1>2
<1> QED
  BY <1>4, <1>5 DEF FoundAt, InJournal, InStripe

\* A thread that is no further than before.
Stays(t) ==
  /\ Logged(t)' => Logged(t) /\ RangeBy(t)' = RangeBy(t) /\ LocBy(t)' = LocBy(t)
  /\ Applied(t)' => Applied(t)

LEMMA AppliedIsLogged == \A t \in Threads : Applied(t) => Logged(t)
BY DEF Applied, Logged

LEMMA NotActive == \A t \in Threads : ~Active(t)' => Stays(t)
BY DEF Stays, Applied, Logged

LEMMA MapsOwnStays ==
  ASSUME NEW t \in Threads, Stays(t), MapsOwn(t), UNCHANGED <<l2p_map, content>>
  PROVE  MapsOwn(t)'
<1> SUFFICES ASSUME NEW b \in Lbas, contains(RangeBy(t), b)'
             PROVE  (Logged(t)' => content'[b] = LocBy(t)') /\ (Applied(t)' => lookup(l2p_map, b)' = LocBy(t)')
  BY DEF MapsOwn
<1>1. Applied(t)' => Logged(t)'
  BY DEF Applied, Logged
<1>2. Logged(t)' => contains(RangeBy(t), b)
  BY DEF Stays, contains
<1> QED
  BY <1>1, <1>2 DEF Stays, MapsOwn

\* A thread that a step leaves alone.
LEMMA StaysIf ==
  ASSUME TypesInv, [DestageNext]_destageVars, NEW t \in Threads, thread'[t] = thread[t],
         Active(t)' => /\ Active(t)
                       /\ IF t = Host THEN pending' = pending
                          ELSE tasks'[t].writes = tasks[t].writes /\ tasks'[t].loc = tasks[t].loc
  PROVE  Stays(t)
<1>1. CASE ~Active(t)'
  BY <1>1, NotActive
<1>2. CASE Active(t)'
  <2>1. t = Host => pending # 0
    BY <1>2 DEF Active
  <2>2. RangeBy(t)' = RangeBy(t) /\ LocBy(t)' = LocBy(t)
    BY <1>2, <2>1, ByStays
  <2> QED
    BY <1>2, <2>2 DEF Stays, Logged, Applied
<1> QED
  BY <1>1, <1>2

\* A step that changes neither map, and gives nothing new to be found.
LEMMA FoundFrame ==
  ASSUME TypesInv, PhaseInv, [DestageNext]_destageVars, FoundInv, Quiet,
         UNCHANGED <<l2p_map, content, trimmed>>, MustBeFound' = MustBeFound,
         \A t \in Threads : Stays(t)
  PROVE  FoundInv'
<1>1. \A t \in Threads : MapsOwn(t)'
  BY MapsOwnStays DEF FoundInv
<1>2. \A w \in MustBeFound : Found(w)'
  BY MustBeWrites, FoundStays DEF FoundInv
<1> QED
  BY <1>1, <1>2 DEF FoundInv

\* The host draws a new location, and has not logged it.
LEMMA HostWriteFound ==
  ASSUME PipelineInv, FoundInv, Quiet, NEW req \in Requests, HostWrite(req)
  PROVE  FoundInv'
<1>0. [DestageNext]_destageVars /\ TypesInv /\ PhaseInv /\ Host \in Threads
  BY DestageAssumption DEF DestageNext, PipelineInv
<1>1. /\ UNCHANGED <<pipeline, mode, acked>>
      /\ mode.maps => insert_mapping(Host, req.range)
      /\ ~mode.maps => UNCHANGED engine
  BY <1>0, HostWriteTypesInv
<1>2. UNCHANGED <<l2p_map, content>> /\ \A t \in Threads \ {Host} : thread'[t] = thread[t]
  <2>1. thread \in [Threads -> Calls]
    BY <1>0 DEF TypesInv, TypeInv, TypeOK
  <2> QED
    BY <1>1, <2>1 DEF insert_mapping, history, engine, vars
<1>3. UNCHANGED <<tasks, trimmed>> /\ MustBeFound' = MustBeFound
  BY <1>1 DEF pipeline, MustBeFound
<1>4. Stays(Host)
  <2>1. CASE mode.maps
    <3>1. PICK c : c = [Idle EXCEPT !.pc = "log", !.op = "insert", !.range = req.range, !.loc = Drawn]
      OBVIOUS
    <3>2. c.pc = "log" /\ c.op = "insert"
      BY <3>1 DEF Idle
    <3>3. thread \in [Threads -> Calls] /\ thread' = [thread EXCEPT ![Host] = c]
      BY <1>0, <1>1, <2>1, <3>1 DEF insert_mapping, TypesInv, TypeInv, TypeOK
    <3>4. thread'[Host] = c
      BY <1>0, <3>3
    <3> QED
      BY <3>2, <3>4 DEF Stays, Logged, Applied
  <2>2. CASE ~mode.maps
    <3>1. ~Active(Host)'
      BY <1>1, <2>2 DEF Active
    <3> QED
      BY <1>0, <3>1, NotActive
  <2> QED
    BY <2>1, <2>2
<1>5. ASSUME NEW t \in Threads \ {Host} PROVE Stays(t)
  <2>1. Active(t)' => Active(t)
    BY <1>3, <1>5 DEF Active
  <2> QED
    BY <1>0, <1>2, <1>3, <2>1, StaysIf
<1> QED
  BY <1>0, <1>2, <1>3, <1>4, <1>5, FoundFrame

\* A write is submitted once its mapping is in the map.
LEMMA SubmitFound ==
  ASSUME PipelineInv, FoundInv, Quiet, StripesAreWhole, submit_write
  PROVE  FoundInv'
<1>0. [DestageNext]_destageVars /\ TypesInv /\ PhaseInv /\ Host \in Threads
  BY DestageAssumption DEF DestageNext, PipelineInv
<1>1. /\ UNCHANGED <<engine, tasks, trimmed, mode, journal>> /\ pending' = 0 /\ pending # 0
      /\ acked' = acked \union {pending} /\ thread[Host].pc = "idle"
  BY DEF submit_write, At
<1>2. UNCHANGED <<l2p_map, content, thread>>
  BY <1>1 DEF engine, vars, history
<1>3. ASSUME NEW t \in Threads PROVE Stays(t)
  <2>1. Active(t)' => Active(t) /\ t # Host
    BY <1>1 DEF Active
  <2> QED
    BY <1>0, <1>1, <1>2, <2>1, StaysIf
<1>4. \A t \in Threads : MapsOwn(t)'
  BY <1>2, <1>3, MapsOwnStays DEF FoundInv
<1>5. ASSUME NEW w \in MustBeFound' PROVE Found(w) /\ w \in Writes
  <2>1. CASE w \in MustBeFound
    BY <1>0, <2>1, MustBeWrites DEF FoundInv
  <2>2. CASE w \notin MustBeFound
    <3>1. mode.maps /\ w = pending
      BY <1>1, <2>2 DEF MustBeFound
    <3>2. Active(Host) /\ RangeBy(Host) = RangeOf(w) /\ Applied(Host) /\ Logged(Host)
      BY <1>1, <3>1 DEF Active, RangeBy, Applied, Logged
    <3>3. w \in Writes
      BY <1>0, <1>1, <3>1, UnderwayIs
    <3>4. ASSUME NEW b \in Lbas, contains(RangeOf(w), b)
          PROVE  FoundAt(lookup(l2p_map, b), b, w) /\ FoundAt(content[b], b, w)
      <4>1. content[b] = LocBy(Host) /\ lookup(l2p_map, b) = LocBy(Host)
        BY <1>0, <3>2, <3>4 DEF FoundInv, MapsOwn
      <4>2. FoundAt(LocBy(Host), b, w)
        BY <1>0, <3>2, <3>3, <3>4, Supplies DEF Quiet
      <4> QED
        BY <4>1, <4>2
    <3> QED
      BY <3>3, <3>4 DEF Found
  <2> QED
    BY <2>1, <2>2
<1>6. \A w \in MustBeFound' : Found(w)'
  BY <1>0, <1>1, <1>2, <1>5, FoundStays
<1> QED
  BY <1>4, <1>6 DEF FoundInv

\* What is trimmed has been mapped to its stripe.
LEMMA TrimFound ==
  ASSUME PipelineInv, FoundInv, Quiet, StripesAreWhole, NEW t \in Tasks, trim_journal(t)
  PROVE  FoundInv'
<1>0. [DestageNext]_destageVars /\ TypesInv /\ PhaseInv /\ t \in Threads /\ t # Host
  BY DestageAssumption DEF DestageNext, PipelineInv, TaskStep, Tasks
<1>1. PICK gone \in SUBSET ToSet(tasks[t].writes) : trimmed' = trimmed \union gone
  BY DEF trim_journal, Quiet
<1>2. /\ UNCHANGED <<engine, mode, journal, pending, acked>> /\ tasks[t].pc = "trim"
      /\ tasks' = [tasks EXCEPT ![t].pc = "done"]
  BY DEF trim_journal, TaskAt, TaskGoto, others
<1>3. tasks'[t].pc = "done" /\ \A u \in Tasks \ {t} : tasks'[u] = tasks[u]
  BY <1>0, <1>2 DEF TypesInv, PipelineTypes, TaskTypes
<1>4. UNCHANGED <<l2p_map, content, thread>>
  BY <1>2 DEF engine, vars, history
<1>5. ASSUME NEW u \in Threads PROVE Stays(u)
  <2>1. CASE u = t
    <3>1. ~Active(t)'
      BY <1>0, <1>3 DEF Active
    <3> QED
      BY <2>1, <3>1, NotActive
  <2>2. CASE u # t
    <3>1. u # Host => tasks'[u] = tasks[u]
      BY <1>3, <2>2 DEF Tasks
    <3>2. Active(u)' => Active(u)
      BY <1>2, <3>1 DEF Active
    <3> QED
      BY <1>0, <1>2, <1>4, <3>1, <3>2, StaysIf
  <2> QED
    BY <2>1, <2>2
<1>6. \A u \in Threads : MapsOwn(u)'
  BY <1>4, <1>5, MapsOwnStays DEF FoundInv
<1>7. Active(t) /\ Applied(t) /\ Logged(t)
  <2>1. thread[t].pc = "idle"
    BY <1>0, <1>2 DEF PipelineInv, OwnInv
  <2> QED
    BY <1>0, <1>2, <2>1 DEF Active, Applied, Logged
<1>8. PICK loc : loc = LocBy(t)
  OBVIOUS
<1>9. \A b \in Lbas : contains(RangeBy(t), b) => content[b] = loc /\ lookup(l2p_map, b) = loc
  BY <1>0, <1>7, <1>8 DEF FoundInv, MapsOwn
<1>10. \A x \in gone : \A b \in Lbas : contains(RangeOf(x), b) => contains(RangeBy(t), b)
  <2>1. PICK s : s = tasks[t].writes
    OBVIOUS
  <2>2. s \in Seq(Writes) /\ RangeBy(t) = calculate_lba_range(s) /\ PipelineTypes
    BY <1>0, <2>1 DEF TypesInv, PipelineTypes, TaskTypes, RangeBy, Tasks
  <2> SUFFICES ASSUME NEW x \in gone, NEW b \in Lbas, contains(RangeOf(x), b)
               PROVE  contains(RangeBy(t), b)
    OBVIOUS
  <2>3. x \in ToSet(s) /\ s # <<>>
    BY <2>1, EmptySequenceIs
  <2>4. PICK range : range = calculate_lba_range(s)
    OBVIOUS
  <2>5. range \in LbaRange /\ range.start <= RangeOf(x).start /\ RangeOf(x).end <= range.end
    BY <2>2, <2>3, <2>4, StripeRangeIs
  <2>6. x \in Writes
    BY <2>2, <2>3, SequenceIs
  <2>7. RangeOf(x) \in LbaRange /\ b \in Nat
    BY <2>2, <2>6, WriteType, EngineAssumption DEF Lbas
  <2>8. contains(range, b)
    BY <2>5, <2>7, RangeType DEF contains
  <2> QED
    BY <2>2, <2>4, <2>8
<1>11. gone \subseteq Writes /\ MustBeFound' \subseteq MustBeFound \union gone
  <2>1. ToSet(tasks[t].writes) \subseteq Writes
    BY <1>0, SequenceIs DEF TypesInv, PipelineTypes, TaskTypes
  <2> QED
    BY <1>1, <1>2, <2>1 DEF MustBeFound
<1>12. ASSUME NEW w \in MustBeFound', NEW b \in Lbas, contains(RangeOf(w), b)
       PROVE  FoundAt(lookup(l2p_map, b), b, w)' /\ FoundAt(content[b], b, w)'
  <2>0. w \in Writes
    BY <1>0, <1>11, MustBeWrites
  <2>1. PICK new, old : new = lookup(l2p_map, b) /\ old = content[b]
    OBVIOUS
  <2>2. lookup(l2p_map, b)' = new /\ content'[b] = old
    BY <1>4, <2>1
  <2>3. CASE contains(RangeBy(t), b)
    <3>1. InStripe(loc, b, w) /\ loc # NoLoc
      BY <1>0, <1>7, <1>8, <1>12, <2>0, <2>3, Supplies DEF Quiet, FoundAt
    <3>2. InStripe(loc, b, w)'
      BY <1>0, <2>0, <3>1, InStripeStays
    <3>3. FoundAt(loc, b, w)'
      BY <3>1, <3>2 DEF FoundAt
    <3>4. new = loc /\ old = loc
      BY <1>9, <2>1, <2>3
    <3>5. FoundAt(new, b, w)' /\ FoundAt(old, b, w)'
      BY <3>3, <3>4
    <3> QED
      BY <2>2, <3>5 DEF FoundAt, InJournal, InStripe
  <2>4. CASE ~contains(RangeBy(t), b)
    <3>1. \A x \in trimmed' \ trimmed : ~contains(RangeOf(x), b)
      BY <1>1, <1>10, <2>4
    <3>2. w \in MustBeFound
      BY <1>10, <1>11, <1>12, <2>4
    <3>3. FoundAt(new, b, w) /\ FoundAt(old, b, w)
      BY <1>12, <2>1, <3>2 DEF FoundInv, Found
    <3>4. FoundAt(new, b, w)' /\ FoundAt(old, b, w)'
      BY <1>0, <2>0, <3>1, <3>3, FoundAtStays
    <3> QED
      BY <2>2, <3>4 DEF FoundAt, InJournal, InStripe
  <2> QED
    BY <2>3, <2>4
<1>13. ASSUME NEW w \in MustBeFound' PROVE Found(w)'
  <2>1. w \in Writes
    BY <1>0, <1>11, MustBeWrites
  <2>2. \A b \in Lbas : contains(RangeOf(w), b)' => contains(RangeOf(w), b)
    BY <1>0, <2>1, JournalGrows DEF RangeOf, contains
  <2> QED
    BY <1>12, <1>13, <2>2 DEF Found
<1> QED
  BY <1>6, <1>13 DEF FoundInv

\* A change is logged: the blocks are the thread's own, and its location has their writes.
LEMMA LoggingFound ==
  ASSUME PipelineInv, FoundInv, Quiet, StripesAreWhole, [DestageNext]_destageVars,
         NEW t \in Threads, Active(t), Logging(t), SameCall(t), thread[t].range = RangeBy(t),
         thread[t].loc = LocBy(t), RangeBy(t)' = RangeBy(t), LocBy(t)' = LocBy(t),
         \A u \in Threads \ {t} : Stays(u), trimmed' = trimmed, MustBeFound' = MustBeFound
  PROVE  FoundInv'
<1>0. TypesInv /\ PhaseInv
  BY DEF PipelineInv
<1>1. PICK r, loc : r = RangeBy(t) /\ loc = LocBy(t)
  OBVIOUS
<1>2. /\ l2p_map' = l2p_map
      /\ \A b \in Lbas : content'[b] = IF contains(r, b) THEN loc ELSE content[b]
  BY <1>1 DEF Logging
<1>3. ASSUME NEW b \in Lbas PROVE lookup(l2p_map, b)' = lookup(l2p_map, b)
  BY <1>2
<1>4. MapsOwn(t)'
  <2>1. ~Applied(t)'
    BY DEF Applied, Logging, SameCall
  <2>2. \A b \in Lbas : contains(RangeBy(t), b)' => content'[b] = LocBy(t)'
    BY <1>1, <1>2 DEF contains
  <2> QED
    BY <2>1, <2>2 DEF MapsOwn
<1>5. ASSUME NEW u \in Threads \ {t} PROVE MapsOwn(u)'
  <2> SUFFICES ASSUME NEW b \in Lbas, contains(RangeBy(u), b)', Logged(u)'
               PROVE  content'[b] = LocBy(u)' /\ (Applied(u)' => lookup(l2p_map, b)' = LocBy(u)')
    BY AppliedIsLogged DEF MapsOwn, Applied, Logged
  <2>1. /\ Logged(u) /\ Active(u) /\ contains(RangeBy(u), b) /\ LocBy(u)' = LocBy(u)
        /\ Applied(u)' => Applied(u)
    BY DEF Stays, Logged, contains
  <2>2. ~contains(r, b)
    BY <1>1, <2>1, ActiveApart DEF Quiet, StripesAreWhole
  <2>3. content'[b] = content[b]
    BY <1>2, <2>2
  <2>4. content[b] = LocBy(u) /\ (Applied(u) => lookup(l2p_map, b) = LocBy(u))
    BY <2>1 DEF FoundInv, MapsOwn
  <2> QED
    BY <1>3, <2>1, <2>3, <2>4
<1>6. ASSUME NEW w \in MustBeFound PROVE Found(w)'
  <2>1. w \in Writes /\ Found(w)
    BY <1>0, MustBeWrites DEF FoundInv
  <2> SUFFICES ASSUME NEW b \in Lbas, contains(RangeOf(w), b)'
               PROVE  FoundAt(lookup(l2p_map, b), b, w)' /\ FoundAt(content[b], b, w)'
    BY DEF Found
  <2>2. contains(RangeOf(w), b)
    BY <2>1, JournalGrows, <1>0 DEF RangeOf, contains
  <2>3. PICK new, old : new = lookup(l2p_map, b) /\ old = content'[b]
    OBVIOUS
  <2>4. FoundAt(new, b, w) /\ FoundAt(content[b], b, w)
    BY <2>1, <2>2, <2>3 DEF Found
  <2>5. contains(r, b) => FoundAt(loc, b, w)
    BY <1>0, <1>1, <2>1, <2>2, Supplies DEF Quiet
  <2>6. FoundAt(old, b, w)
    BY <1>2, <2>3, <2>4, <2>5
  <2>7. FoundAt(new, b, w)' /\ FoundAt(old, b, w)'
    BY <1>0, <2>1, <2>4, <2>6, FoundAtStays
  <2>8. lookup(l2p_map, b)' = new
    BY <1>3, <2>3
  <2> QED
    BY <2>3, <2>7, <2>8 DEF FoundAt, InJournal, InStripe
<1> QED
  BY <1>4, <1>5, <1>6 DEF FoundInv

\* The change is made to the map: the same, with the map instead of the log.
LEMMA ApplyingFound ==
  ASSUME PipelineInv, FoundInv, Quiet, StripesAreWhole, [DestageNext]_destageVars,
         NEW t \in Threads, Active(t), Applying(t), SameCall(t), thread[t].range = RangeBy(t),
         thread[t].loc = LocBy(t), thread[t].op \in {"insert", "update"},
         RangeBy(t)' = RangeBy(t), LocBy(t)' = LocBy(t),
         \A u \in Threads \ {t} : Stays(u), trimmed' = trimmed, MustBeFound' = MustBeFound
  PROVE  FoundInv'
<1>0. TypesInv /\ TypeInv /\ PhaseInv /\ UsedInv /\ Recoverable
  BY DEF PipelineInv, Quiet, TypesInv
<1>1. PICK r, loc : r = RangeBy(t) /\ loc = LocBy(t)
  OBVIOUS
<1>2. /\ content' = content
      /\ \A b \in Lbas : lookup(l2p_map', b) = IF contains(r, b) THEN loc ELSE lookup(l2p_map, b)
  BY <1>0, <1>1, ApplyingIs DEF Applying
<1>3. ASSUME NEW b \in Lbas
      PROVE  lookup(l2p_map, b)' = IF contains(r, b) THEN loc ELSE lookup(l2p_map, b)
  BY <1>2 DEF lookup, Keys
<1>4. MapsOwn(t)'
  <2>1. Logged(t)
    BY DEF Logged, Applying
  <2>2. \A b \in Lbas : contains(RangeBy(t), b)' => contains(r, b)
    BY <1>1 DEF contains
  <2>3. \A b \in Lbas : contains(r, b) => content'[b] = loc /\ lookup(l2p_map, b)' = loc
    BY <1>1, <1>2, <1>3, <2>1 DEF FoundInv, MapsOwn
  <2> QED
    BY <1>1, <2>2, <2>3 DEF MapsOwn
<1>5. ASSUME NEW u \in Threads \ {t} PROVE MapsOwn(u)'
  <2> SUFFICES ASSUME NEW b \in Lbas, contains(RangeBy(u), b)', Logged(u)'
               PROVE  content'[b] = LocBy(u)' /\ (Applied(u)' => lookup(l2p_map, b)' = LocBy(u)')
    BY AppliedIsLogged DEF MapsOwn, Applied, Logged
  <2>1. /\ Logged(u) /\ Active(u) /\ contains(RangeBy(u), b) /\ LocBy(u)' = LocBy(u)
        /\ Applied(u)' => Applied(u)
    BY DEF Stays, Logged, contains
  <2>2. ~contains(r, b)
    BY <1>1, <2>1, ActiveApart DEF Quiet, StripesAreWhole
  <2>3. lookup(l2p_map, b)' = lookup(l2p_map, b)
    BY <1>3, <2>2
  <2>4. content[b] = LocBy(u) /\ (Applied(u) => lookup(l2p_map, b) = LocBy(u))
    BY <2>1 DEF FoundInv, MapsOwn
  <2> QED
    BY <1>2, <2>1, <2>3, <2>4
<1>6. ASSUME NEW w \in MustBeFound PROVE Found(w)'
  <2>1. w \in Writes /\ Found(w)
    BY <1>0, MustBeWrites DEF FoundInv
  <2> SUFFICES ASSUME NEW b \in Lbas, contains(RangeOf(w), b)'
               PROVE  FoundAt(lookup(l2p_map, b), b, w)' /\ FoundAt(content[b], b, w)'
    BY DEF Found
  <2>2. contains(RangeOf(w), b)
    BY <2>1, JournalGrows, <1>0 DEF RangeOf, contains
  <2>3. PICK new, old : /\ new = IF contains(r, b) THEN loc ELSE lookup(l2p_map, b)
                        /\ old = content[b]
    OBVIOUS
  <2>4. FoundAt(lookup(l2p_map, b), b, w) /\ FoundAt(old, b, w)
    BY <2>1, <2>2, <2>3 DEF Found
  <2>5. contains(r, b) => FoundAt(loc, b, w)
    BY <1>0, <1>1, <2>1, <2>2, Supplies DEF Quiet
  <2>6. FoundAt(new, b, w)
    BY <2>3, <2>4, <2>5
  <2>7. FoundAt(new, b, w)' /\ FoundAt(old, b, w)'
    BY <1>0, <2>1, <2>4, <2>6, FoundAtStays
  <2>8. lookup(l2p_map, b)' = new /\ content'[b] = old
    BY <1>2, <1>3, <2>3
  <2> QED
    BY <2>7, <2>8 DEF FoundAt, InJournal, InStripe
<1> QED
  BY <1>4, <1>5, <1>6 DEF FoundInv

\* The engine works for the host or for a task.
LEMMA EngineStepFound ==
  ASSUME PipelineInv, FoundInv, Quiet, StripesAreWhole, [DestageNext]_destageVars,
         NEW t \in Threads, Step(t), UNCHANGED <<trimmed, pending, mode, acked>>,
         \A u \in Tasks \ {t} : tasks'[u] = tasks[u],
         t # Host => /\ tasks'[t].writes = tasks[t].writes /\ tasks'[t].loc = tasks[t].loc
                     /\ thread[t].pc = "verify" /\ thread'[t].pc = "idle" => tasks'[t].pc = "failed"
  PROVE  FoundInv'
<1>0. TypesInv /\ TypeInv /\ PhaseInv /\ OwnInv
  BY DEF PipelineInv, TypesInv
<1>1. /\ thread[t].pc # "idle" /\ \A u \in Threads \ {t} : thread'[u] = thread[u]
      /\ \/ SameCall(t) /\ (Preparing(t) \/ Logging(t) \/ Applying(t))
         \/ Finishing(t)
  BY <1>0, EngineStepIs
<1>2. Active(t)
  BY <1>0, <1>1, BusyIsActive
<1>3. RangeBy(t)' = RangeBy(t) /\ LocBy(t)' = LocBy(t)
  BY <1>0, <1>2, ByStays DEF Active
<1>4. thread[t].op # "checkpoint" =>
        /\ thread[t].op \in {"insert", "update"}
        /\ thread[t].range = RangeBy(t) /\ thread[t].loc = LocBy(t)
  BY <1>0, <1>1 DEF OwnInv, OwnCall
<1>5. ASSUME NEW u \in Threads \ {t} PROVE Stays(u)
  <2>1. u # Host => tasks'[u] = tasks[u]
    BY <1>5 DEF Tasks
  <2>2. Active(u)' => Active(u)
    BY <2>1 DEF Active
  <2> QED
    BY <1>0, <1>1, <2>1, <2>2, StaysIf
<1>6. MustBeFound' = MustBeFound
  BY DEF MustBeFound
<1>7. CASE Preparing(t) /\ SameCall(t)
  <2>1. ~Logged(t)' /\ ~Applied(t)'
    <3>1. CASE thread'[t].pc # "idle"
      BY <1>7, <3>1 DEF Preparing, SameCall, Logged, Applied
    <3>2. CASE thread'[t].pc = "idle"
      <4>1. thread[t].pc = "verify" /\ thread[t].op = "update"
        BY <1>0, <1>7, <3>2 DEF Preparing, TypeInv, WellFormedCall
      <4>2. t # Host
        BY <1>0, <4>1 DEF OwnInv
      <4>3. ~Active(t)'
        BY <3>2, <4>1, <4>2 DEF Active
      <4> QED
        BY <4>3 DEF Logged, Applied
    <3> QED
      BY <3>1, <3>2
  <2>2. Stays(t) /\ UNCHANGED <<l2p_map, content>>
    BY <1>7, <2>1 DEF Stays, Preparing
  <2> QED
    BY <1>0, <1>5, <1>6, <2>2, FoundFrame
<1>8. CASE Finishing(t)
  <2>1. Logged(t) /\ Applied(t)
    BY <1>2, <1>8 DEF Finishing, Logged, Applied
  <2>2. Stays(t) /\ UNCHANGED <<l2p_map, content>>
    BY <1>3, <1>8, <2>1 DEF Stays, Finishing
  <2> QED
    BY <1>0, <1>5, <1>6, <2>2, FoundFrame
<1>9. CASE Logging(t) /\ SameCall(t)
  <2>1. thread[t].op # "checkpoint"
    BY <1>9 DEF Logging
  <2> QED
    BY <1>2, <1>3, <1>4, <1>5, <1>6, <1>9, <2>1, LoggingFound
<1>10. CASE Applying(t) /\ SameCall(t)
  <2>1. thread[t].op # "checkpoint"
    BY <1>10 DEF Applying
  <2> QED
    BY <1>2, <1>3, <1>4, <1>5, <1>6, <1>10, <2>1, ApplyingFound
<1> QED
  BY <1>1, <1>7, <1>8, <1>9, <1>10

\* The steps of tasks that do not run the engine or trim.
LEMMA TaskFound ==
  ASSUME PipelineInv, FoundInv, Quiet, NEW t \in Tasks,
         acquire(t) \/ encode(t) \/ write_shards(t) \/ update_metadata(t)
  PROVE  FoundInv'
<1>0. /\ [DestageNext]_destageVars /\ TypesInv /\ PhaseInv /\ t \in Threads /\ t # Host
      /\ acquire(t) \/ TaskStep(t)
  BY DestageAssumption DEF DestageNext, PipelineInv, TaskStep, Tasks
<1>1. PICK c \in TaskTypes : tasks' = [tasks EXCEPT ![t] = c] /\ TaskMove(tasks[t], c)
  BY <1>0, TaskStepIs
<1>2. \A u \in Tasks \ {t} : tasks'[u] = tasks[u]
  BY <1>1 DEF TypesInv, PipelineTypes
<1>3. UNCHANGED <<pending, mode, acked, trimmed>>
  BY DEF acquire, encode, write_shards, update_metadata, others
<1>4. UNCHANGED <<l2p_map, content>> /\ \A u \in Threads \ {t} : thread'[u] = thread[u]
  BY UpdateCallIs, <1>0 DEF acquire, encode, write_shards, engine, vars, history
<1>5. ASSUME NEW u \in Threads \ {t} PROVE Stays(u)
  <2>1. u # Host => tasks'[u] = tasks[u]
    BY <1>2, <1>5 DEF Tasks
  <2>2. Active(u)' => Active(u)
    BY <1>3, <2>1 DEF Active
  <2> QED
    BY <1>0, <1>3, <1>4, <2>1, <2>2, StaysIf
<1>6. Stays(t)
  <2>1. CASE update_metadata(t)
    <3>1. thread'[t].pc \in {"verify", "log"} /\ thread'[t].op \in {"insert", "update"}
      BY <1>0, <2>1, UpdateCallIs
    <3> QED
      BY <3>1 DEF Stays, Logged, Applied
  <2>2. CASE acquire(t) \/ encode(t) \/ write_shards(t)
    <3>1. tasks[t].pc \in {"acquire", "encode", "write"}
      BY <2>2 DEF acquire, encode, write_shards, TaskAt
    <3>2. tasks'[t] = c
      BY <1>0, <1>1 DEF TypesInv, PipelineTypes
    <3>4. c.pc \notin {"mapping", "trim"}
      BY <1>1, <3>1 DEF TaskMove, Moves
    <3>3. ~Active(t)'
      BY <1>0, <3>2, <3>4 DEF Active
    <3> QED
      BY <1>0, <3>3, NotActive
  <2> QED
    BY <2>1, <2>2
<1>7. MustBeFound' = MustBeFound
  BY <1>3 DEF MustBeFound
<1> QED
  BY <1>0, <1>3, <1>4, <1>5, <1>6, <1>7, FoundFrame

\* After a restart the map is what recovery builds, and nothing is under way.
LEMMA RestartFound ==
  ASSUME PipelineInv, FoundInv, Quiet, RecoveryFindsLast, ProcessRestart
  PROVE  FoundInv'
<1>0. [DestageNext]_destageVars /\ TypesInv /\ PhaseInv
  BY DEF DestageNext, PipelineInv
<1>1. /\ pending' = 0 /\ UNCHANGED <<trimmed, mode, acked, content>> /\ l2p_map' = recover
      /\ \A t \in Tasks : tasks'[t].pc \in {"free", "done", "failed"}
  BY <1>0 DEF ProcessRestart, Restart, TypesInv, PipelineTypes, TaskTypes
<1>2. ASSUME NEW t \in Threads PROVE MapsOwn(t)'
  <2>1. ~Active(t)'
    BY <1>1 DEF Active, Tasks
  <2> QED
    BY <2>1 DEF MapsOwn, Logged, Applied
<1>3. MustBeFound' = MustBeFound
  BY <1>1 DEF MustBeFound
<1>4. ASSUME NEW w \in MustBeFound PROVE Found(w)'
  <2>1. w \in Writes /\ Found(w)
    BY <1>0, MustBeWrites DEF FoundInv
  <2> SUFFICES ASSUME NEW b \in Lbas, contains(RangeOf(w), b)'
               PROVE  FoundAt(lookup(l2p_map, b), b, w)' /\ FoundAt(content[b], b, w)'
    BY DEF Found
  <2>2. contains(RangeOf(w), b)
    BY <2>1, JournalGrows, <1>0 DEF RangeOf, contains
  <2>3. PICK loc : loc = content[b]
    OBVIOUS
  <2>4. lookup(recover, b) = loc
    BY <2>3 DEF RecoveryFindsLast, Quiet
  <2>5. lookup(l2p_map, b)' = lookup(recover, b)
    BY <1>1 DEF lookup, Keys
  <2>6. FoundAt(loc, b, w)'
    BY <1>0, <1>1, <2>1, <2>2, <2>3, FoundAtStays DEF Found
  <2>7. lookup(l2p_map, b)' = loc /\ content'[b] = loc
    BY <1>1, <2>3, <2>4, <2>5
  <2> QED
    BY <2>6, <2>7 DEF FoundAt, InJournal, InStripe
<1> QED
  BY <1>2, <1>3, <1>4 DEF FoundInv

LEMMA NextFoundInv ==
  PipelineInv /\ FoundInv /\ StripesAreWhole /\ RecoveryFindsLast /\ [DestageNext]_destageVars
    => FoundInv'
<1> SUFFICES ASSUME PipelineInv, FoundInv, StripesAreWhole, RecoveryFindsLast,
                    [DestageNext]_destageVars, Quiet'
             PROVE  FoundInv'
  BY DEF FoundInv
<1>0. TypesInv /\ PhaseInv /\ Quiet /\ Host \in Threads /\ Host \notin Tasks
  BY QuietBefore, DestageAssumption DEF PipelineInv, Tasks
<1>1. CASE HostStep
  <2>1. Step(Host) /\ UNCHANGED <<trimmed, pending, mode, acked, tasks>>
    BY <1>1 DEF HostStep, pipeline
  <2> QED
    BY <1>0, <2>1, EngineStepFound
<1>2. ASSUME NEW t \in Tasks, MapStripe(t) PROVE FoundInv'
  <2>1. UNCHANGED <<trimmed, pending, mode, acked>> /\ t \in Threads
    BY <1>2 DEF MapStripe, others, Tasks
  <2> QED
    BY <1>0, <1>2, <2>1, MapStripeIs, EngineStepFound
<1>3. ASSUME UNCHANGED <<engine, trimmed, mode>>, MustBeFound' = MustBeFound, pending' = pending,
             \A t \in Tasks : tasks'[t] = tasks[t] \/ tasks'[t].pc = "acquire"
      PROVE  FoundInv'
  <2>1. UNCHANGED <<l2p_map, content, thread>>
    BY <1>3 DEF engine, vars, history
  <2>2. ASSUME NEW t \in Threads PROVE Stays(t)
    <3>1. Active(t)' => Active(t) /\ (t # Host => tasks'[t] = tasks[t])
      BY <1>3 DEF Active, Tasks
    <3> QED
      BY <1>0, <1>3, <2>1, <3>1, StaysIf
  <2> QED
    BY <1>0, <1>3, <2>1, <2>2, FoundFrame
<1>4. ASSUME NEW v \in Volumes, process_ready_stripes(v) PROVE FoundInv'
  <2>1. /\ UNCHANGED <<engine, trimmed, mode, pending, acked>>
        /\ \A t \in Tasks : tasks'[t] = tasks[t] \/ tasks'[t].pc = "acquire"
    <3>1. PICK t \in Tasks, c \in TaskTypes : tasks' = [tasks EXCEPT ![t] = c] /\ c.pc = "acquire"
      BY <1>0, <1>4, ProcessIs
    <3> QED
      BY <1>0, <1>4, <3>1, ProcessIs DEF TypesInv, PipelineTypes
  <2> QED
    BY <1>3, <2>1 DEF MustBeFound
<1>5. buffer_write \/ shutdown \/ UNCHANGED destageVars => FoundInv'
  <2>1. buffer_write \/ shutdown \/ UNCHANGED destageVars =>
          UNCHANGED <<engine, trimmed, mode, pending, acked, tasks>>
    BY DEF buffer_write, shutdown, destageVars, pipeline
  <2> QED
    BY <1>3, <2>1 DEF MustBeFound
<1>6. \A req \in Requests : HostWrite(req) => FoundInv'
  BY <1>0, HostWriteFound
<1>7. submit_write => FoundInv'
  BY <1>0, SubmitFound
<1>8. ASSUME NEW t \in Tasks, acquire(t) \/ TaskStep(t) PROVE FoundInv'
  BY <1>0, <1>2, <1>8, TaskFound, TrimFound DEF TaskStep
<1>9. ProcessRestart => FoundInv'
  BY <1>0, RestartFound
<1> QED
  BY <1>1, <1>4, <1>5, <1>6, <1>7, <1>8, <1>9 DEF DestageNext

LEMMA InitPipelineInv == DestageInit => PipelineInv /\ FoundInv
<1> SUFFICES ASSUME DestageInit PROVE PipelineInv /\ FoundInv
  OBVIOUS
<1>1. TypesInv
  BY InitTypesInv
<1>2. /\ journal = <<>> /\ pending = 0 /\ channel = <<>> /\ buffers = [v \in Volumes |-> <<>>]
      /\ tasks = [t \in Tasks |-> Free] /\ trimmed = {} /\ acked = {} /\ Host \in Threads
      /\ thread = [t \in Threads |-> Idle] /\ used = {} /\ buffer = <<>> /\ l2p_map = EmptyMap
      /\ checkpoint = [slot \in Slots |-> NoCheckpoint]
  BY DestageAssumption DEF DestageInit, Init
<1>3. Writes = {}
  BY <1>2 DEF Writes
<1>4. ShardsInv /\ PhaseInv
  BY <1>2 DEF ShardsInv, PhaseInv, Free
<1>5. \A p \in Places : Held(p) = {}
  BY <1>2, EmptySequenceIs DEF Held, Places, Free
<1>6. PlacesInv
  BY <1>2, <1>5, EmptySequenceIs DEF PlacesInv, Apart
<1>7. RaceInv
  BY <1>3 DEF RaceInv
<1>8. OwnInv
  BY <1>2, <1>3 DEF OwnInv, OwnCall, Idle, Free, Tasks
<1>9. UsedInv
  BY <1>2, EmptyUsed DEF UsedInv, Idle
<1>10. FoundInv
  <2>1. \A t \in Threads : ~Active(t)
    BY <1>2 DEF Active, Tasks, Free
  <2>2. MustBeFound = {}
    BY <1>2 DEF MustBeFound
  <2> QED
    BY <2>1, <2>2 DEF FoundInv, MapsOwn, Logged, Applied
<1> QED
  BY <1>1, <1>4, <1>6, <1>7, <1>8, <1>9, <1>10 DEF PipelineInv

LEMMA NextPipelineInv == PipelineInv /\ [DestageNext]_destageVars => PipelineInv'
BY NextTypesInv, NextShardsInv, NextPhaseInv, NextPlacesInv, NextRaceInv, NextOwnInv, NextUsedInv
   DEF PipelineInv

\* "data is already safely in cold store": every write that is trimmed, or mapped and
\* submitted, is found through the map, whatever fails and wherever the process stops, as
\* long as stripes have all that they are mapped for and recovery finds what was logged.
THEOREM WritesStayFound ==
  DestageSpec /\ []StripesAreWhole /\ []RecoveryFindsLast => []WritesAreFoundUnlessRaced
<1>1. DestageInit => PipelineInv /\ FoundInv
  BY InitPipelineInv
<1>2. PipelineInv /\ FoundInv /\ StripesAreWhole /\ RecoveryFindsLast /\ [DestageNext]_destageVars
        => PipelineInv' /\ FoundInv'
  BY NextPipelineInv, NextFoundInv
<1>3. FoundInv => WritesAreFoundUnlessRaced
  BY FoundIs
<1> QED
  BY <1>1, <1>2, <1>3, PTL DEF DestageSpec

-----------------------------------------------------------------------------
(* Recovery without automatic checkpoints.                                 *)

\* A call is not a checkpoint, and has drawn a number.
NoMarker(c) == (c.pc # "idle" => c.op # "checkpoint") /\ (c.pc = "push" => c.entry > 0)

NoMarkers ==
  /\ checkpoint = [slot \in Slots |-> NoCheckpoint]
  /\ \A t \in Threads : NoMarker(thread[t])

\* Recovery then replays all that is in the log.
LEMMA RecoverAll ==
  ASSUME TypeInv, NoMarkers
  PROVE  recover = replay(EmptyMap, entries_after(buffer, 0))
<1>1. active_slot \in Slots /\ other(active_slot) \in Slots
  BY Others DEF TypeInv, TypeOK
<1>2. load_latest_checkpoint = NoCheckpoint
  BY <1>1 DEF load_latest_checkpoint, NoMarkers
<1> QED
  BY <1>2 DEF recover

LEMMA SameRecovery ==
  ASSUME RecoveryFindsLast, UNCHANGED <<buffer, checkpoint, active_slot, content>>,
         used \subseteq used', cut => cut'
  PROVE  RecoveryFindsLast'
<1> SUFFICES ASSUME Recoverable', NEW b \in Lbas PROVE lookup(recover, b)' = content'[b]
  BY DEF RecoveryFindsLast
<1>1. Recoverable
  BY RecoverableBefore
<1>2. PICK m : m = recover
  OBVIOUS
<1>3. recover' = m
  BY <1>2, RecoverFrame
<1>4. lookup(m, b) = content[b]
  BY <1>1, <1>2 DEF RecoveryFindsLast
<1> QED
  BY <1>3, <1>4 DEF lookup, Keys

\* An entry is logged: recovery replays it last.
LEMMA PushRecovery ==
  ASSUME TypeInv, UsedInv, NoMarkers, RecoveryFindsLast, NEW t \in Threads, Push(t),
         thread[t].op \in {"insert", "update"}, checkpoint' = checkpoint, NoMarkers', TypeInv'
  PROVE  RecoveryFindsLast'
<1> SUFFICES ASSUME Recoverable', NEW b \in Lbas PROVE lookup(recover, b)' = content'[b]
  BY DEF RecoveryFindsLast
<1>1. PICK call : call = thread[t]
  OBVIOUS
<1>2. PICK e : e = [lsn |-> call.entry, type |-> call.op, range |-> call.range, loc |-> call.loc]
  OBVIOUS
<1>3. /\ call.pc = "push" /\ call \in Calls /\ call.range \in LbaRange /\ call.loc \in Locations
      /\ call.entry \in Nat /\ call.entry > 0 /\ call.op \in {"insert", "update"}
  <2>1. thread[t] \in Calls /\ WellFormedCall(thread[t]) /\ NoMarker(thread[t])
    BY DEF TypeInv, TypeOK, NoMarkers
  <2>2. call.pc = "push"
    BY <1>1 DEF Push, At
  <2> QED
    BY <1>1, <2>1, <2>2 DEF WellFormedCall, NoMarker, Calls
<1>4. e \in Entries
  BY <1>2, <1>3 DEF Entries, EntryTypes
<1>5. /\ buffer' = Append(buffer, e) /\ used' = used \union {call.range}
      /\ content'[b] = IF contains(call.range, b) THEN call.loc ELSE content[b]
      /\ cut' = cut
  BY <1>1, <1>2, <1>3 DEF Push
<1>6. Recoverable
  BY <1>5, RecoverableBefore
<1>7. PICK m : m = recover
  OBVIOUS
<1>8. /\ m \in Maps /\ Disjoint(m) /\ Keys(m) \subseteq used
      /\ \A a \in Lbas : lookup(m, a) = content[a]
  BY <1>6, <1>7, RecoverUsed, AlignedIsDisjoint DEF UsedMaps, RecoveryFindsLast
<1>9. recover' = apply_wal_entry(m, e)
  <2>1. buffer \in Seq(Entries)
    BY DEF TypeInv, TypeOK
  <2>2. recover = replay(EmptyMap, entries_after(buffer, 0))
    BY RecoverAll
  <2>3. recover' = replay(EmptyMap, entries_after(buffer', 0))
    <3>1. load_latest_checkpoint' = NoCheckpoint
      <4>1. active_slot' \in Slots /\ other(active_slot') \in Slots
        BY Others DEF TypeInv, TypeOK
      <4> QED
        BY <4>1 DEF load_latest_checkpoint, NoMarkers
    <3> QED
      BY <3>1 DEF recover
  <2>4. e.lsn > 0
    BY <1>2, <1>3
  <2> QED
    BY <1>4, <1>5, <1>7, <2>1, <2>2, <2>3, <2>4, RecoverAppend
<1>10. PICK r, loc : r = call.range /\ loc = call.loc
  OBVIOUS
<1>11. recover' = [m EXCEPT ![r] = loc]
  BY <1>2, <1>3, <1>9, <1>10 DEF apply_wal_entry
<1>12. \A k \in Keys(m) : overlaps(k, r) => k = r
  BY <1>5, <1>8, <1>10 DEF Recoverable
<1>13. r \in LbaRange /\ loc \in Locations \union {NoLoc} /\ (r \in Keys(m) \/ \A k \in Keys(m) : ~overlaps(k, r))
  BY <1>3, <1>10, <1>12
<1>14. LET n == [m EXCEPT ![r] = loc]
       IN  /\ n \in Maps /\ Disjoint(n) /\ Keys(n) \subseteq Keys(m) \union {r}
           /\ \A a \in Lbas : lookup(n, a) = IF contains(r, a) THEN loc ELSE lookup(m, a)
  BY <1>8, <1>13, ReplaceIs, ZenonT(40)
<1>15. PICK n : n = [m EXCEPT ![r] = loc]
  OBVIOUS
<1>16. lookup(n, b) = IF contains(r, b) THEN loc ELSE lookup(m, b)
  BY <1>14, <1>15
<1>17. recover' = n
  BY <1>11, <1>15
<1>18. lookup(recover, b)' = lookup(n, b)
  BY <1>17 DEF lookup, Keys
<1> QED
  BY <1>5, <1>8, <1>10, <1>16, <1>18

LEMMA StepRecovery ==
  ASSUME TypeInv, TypeInv', UsedInv, NoMarkers, RecoveryFindsLast, ~AutoCheckpoint, NEW t \in Threads,
         Step(t), thread[t].op \in {"insert", "update", "checkpoint"}
  PROVE  NoMarkers' /\ RecoveryFindsLast'
<1> USE DEF At, Goto
<1> DEFINE c == thread[t]
<1>1. c.pc # "idle" /\ \A u \in Threads \ {t} : thread'[u] = thread[u]
  BY EngineStepIs
<1>2. thread \in [Threads -> Calls] /\ c \in Calls /\ WellFormedCall(c) /\ NoMarker(c) /\ current_lsn \in 1..(MaxLsn + 1)
  BY DEF TypeInv, TypeOK, NoMarkers
<1>3. c.op # "checkpoint" /\ c.op \in {"insert", "update"}
  BY <1>1, <1>2 DEF NoMarker
<1>4. c.pc \notin {"lsn", "snapshot", "write_slot", "switch_slot", "truncate"}
  BY <1>2, <1>3 DEF WellFormedCall
<1>5. \/ Verify(t) \/ DrawLsn(t) \/ Push(t) \/ Apply(t) \/ maybe_checkpoint(t)
  BY <1>4 DEF Step, ReadLsn, Snapshot, WriteSlot, SwitchSlot, Truncate
<1>6. ASSUME NoMarker(thread'[t]), checkpoint' = checkpoint PROVE NoMarkers'
  BY <1>1, <1>6 DEF NoMarkers
<1>7. CASE Verify(t)
  <2>1. /\ thread'[t].pc \in {"log", "idle"} /\ thread'[t].op = c.op
        /\ UNCHANGED <<buffer, checkpoint, active_slot, content, used, cut>>
    BY <1>2, <1>7 DEF Verify, durable, history
  <2>2. NoMarker(thread'[t])
    BY <1>3, <2>1 DEF NoMarker
  <2> QED
    BY <1>6, <2>1, <2>2, SameRecovery
<1>8. CASE DrawLsn(t)
  <2>1. PICK d : d = [c EXCEPT !.pc = "push", !.entry = current_lsn]
    OBVIOUS
  <2>2. thread' = [thread EXCEPT ![t] = d]
    BY <1>8, <2>1 DEF DrawLsn
  <2>3. d.op = c.op /\ d.entry = current_lsn /\ d.pc = "push"
    BY <1>2, <2>1 DEF Calls
  <2>4. NoMarker(thread'[t])
    BY <1>2, <1>3, <2>2, <2>3 DEF NoMarker
  <2>5. UNCHANGED <<buffer, checkpoint, active_slot, content, used, cut>>
    BY <1>8 DEF DrawLsn, history
  <2> QED
    BY <1>6, <2>4, <2>5, SameRecovery
<1>9. CASE Push(t)
  <2>1. /\ thread'[t].pc = "apply" /\ thread'[t].op = c.op /\ checkpoint' = checkpoint
    BY <1>2, <1>3, <1>9 DEF Push
  <2>2. NoMarker(thread'[t])
    BY <1>3, <2>1 DEF NoMarker
  <2> QED
    BY <1>3, <1>6, <1>9, <2>1, <2>2, PushRecovery
<1>10. CASE Apply(t)
  <2>1. /\ thread'[t].pc = "maybe_checkpoint" /\ thread'[t].op = c.op
        /\ UNCHANGED <<buffer, checkpoint, active_slot, content, used, cut>>
    BY <1>2, <1>3, <1>10 DEF Apply, durable
  <2>2. NoMarker(thread'[t])
    BY <1>3, <2>1 DEF NoMarker
  <2> QED
    BY <1>6, <2>1, <2>2, SameRecovery
<1>11. CASE maybe_checkpoint(t)
  <2>1. thread' = [thread EXCEPT ![t] = Idle] /\ UNCHANGED <<buffer, checkpoint, active_slot, content, used, cut>>
    BY <1>11 DEF maybe_checkpoint, durable, history
  <2>2. NoMarker(thread'[t])
    BY <1>2, <2>1 DEF NoMarker, Idle
  <2> QED
    BY <1>6, <2>1, <2>2, SameRecovery
<1> QED
  BY <1>5, <1>7, <1>8, <1>9, <1>10, <1>11

LEMMA BegunRecovery ==
  ASSUME TypeInv, NoMarkers, RecoveryFindsLast, NEW t \in Threads, UNCHANGED <<durable, history>>,
         NEW c, thread' = [thread EXCEPT ![t] = c], c.op # "checkpoint", c.pc # "push"
  PROVE  NoMarkers' /\ RecoveryFindsLast'
<1>1. UNCHANGED <<buffer, checkpoint, active_slot, content, used, cut>>
  BY DEF durable, history
<1>2. \A u \in Threads : thread'[u] = thread[u] \/ NoMarker(thread'[u])
  BY DEF TypeInv, TypeOK, NoMarker
<1> QED
  BY <1>1, <1>2, SameRecovery DEF NoMarkers

LEMMA NextRecovery ==
  ASSUME ~AutoCheckpoint, PipelineInv, NoMarkers, RecoveryFindsLast, [DestageNext]_destageVars
  PROVE  NoMarkers' /\ RecoveryFindsLast'
<1>0. TypesInv /\ TypesInv' /\ TypeInv /\ TypeInv' /\ UsedInv /\ OwnInv /\ Host \in Threads
  BY NextTypesInv, DestageAssumption DEF TypesInv, PipelineInv
<1>1. ASSUME UNCHANGED engine PROVE NoMarkers' /\ RecoveryFindsLast'
  <2>1. UNCHANGED <<used, cut, buffer, checkpoint, thread, active_slot, content>>
    BY <1>1 DEF engine, vars, durable, history
  <2> QED
    BY <2>1, SameRecovery DEF NoMarkers
<1>2. ASSUME NEW t \in Threads, NEW r, insert_mapping(t, r) PROVE NoMarkers' /\ RecoveryFindsLast'
  <2>1. PICK c : /\ thread' = [thread EXCEPT ![t] = c]
                 /\ c = [Idle EXCEPT !.pc = "log", !.op = "insert", !.range = r, !.loc = Drawn]
    BY <1>2 DEF insert_mapping
  <2>2. c.op # "checkpoint" /\ c.pc # "push"
    BY <2>1 DEF Idle
  <2> QED
    BY <1>0, <1>2, <2>1, <2>2, BegunRecovery DEF insert_mapping
<1>3. ASSUME NEW t \in Threads, NEW r, NEW old, update_mapping(t, r, old)
      PROVE  NoMarkers' /\ RecoveryFindsLast'
  <2>1. PICK c : /\ thread' = [thread EXCEPT ![t] = c]
                 /\ c = [Idle EXCEPT !.pc = "verify", !.op = "update", !.range = r, !.loc = Drawn,
                                     !.old = old]
    BY <1>3 DEF update_mapping
  <2>2. c.op # "checkpoint" /\ c.pc # "push"
    BY <2>1 DEF Idle
  <2> QED
    BY <1>0, <1>3, <2>1, <2>2, BegunRecovery DEF update_mapping
<1>4. ASSUME NEW t \in Threads, Step(t) PROVE NoMarkers' /\ RecoveryFindsLast'
  <2>1. thread[t].pc # "idle"
    BY <1>0, <1>4, EngineStepIs
  <2>2. thread[t].op \in {"insert", "update", "checkpoint"}
    BY <1>0, <2>1 DEF OwnInv, OwnCall
  <2> QED
    BY <1>0, <1>4, <2>2, StepRecovery
<1>5. ASSUME NEW req \in Requests, HostWrite(req) PROVE NoMarkers' /\ RecoveryFindsLast'
  <2>1. insert_mapping(Host, req.range) \/ UNCHANGED engine
    BY <1>5 DEF HostWrite
  <2> QED
    BY <1>0, <1>1, <1>2, <2>1
<1>6. CASE HostStep
  BY <1>0, <1>4, <1>6 DEF HostStep
<1>7. submit_write \/ buffer_write \/ shutdown \/ UNCHANGED destageVars => UNCHANGED engine
  BY DEF submit_write, buffer_write, shutdown, destageVars
<1>8. \A v \in Volumes : process_ready_stripes(v) => UNCHANGED engine
  BY DEF process_ready_stripes
<1>9. ASSUME NEW t \in Tasks, acquire(t) \/ TaskStep(t) PROVE NoMarkers' /\ RecoveryFindsLast'
  <2>0. t \in Threads
    BY DEF Tasks
  <2>1. CASE update_metadata(t)
    <3>1. \/ insert_mapping(t, calculate_lba_range(tasks[t].writes))
          \/ \E old \in Locations : update_mapping(t, calculate_lba_range(tasks[t].writes), old)
      BY <1>0, <2>1, UpdateMetadataIs
    <3> QED
      BY <2>0, <1>2, <1>3, <3>1
  <2>2. CASE MapStripe(t)
    BY <2>0, <1>4, <2>2 DEF MapStripe
  <2>3. acquire(t) \/ encode(t) \/ write_shards(t) \/ trim_journal(t) => UNCHANGED engine
    BY DEF acquire, encode, write_shards, trim_journal
  <2> QED
    BY <1>1, <1>9, <2>1, <2>2, <2>3 DEF TaskStep
<1>10. CASE ProcessRestart
  <2>1. /\ UNCHANGED <<buffer, checkpoint, active_slot, content, used>> /\ (cut => cut')
        /\ thread' = [t \in Threads |-> Idle]
    BY <1>10 DEF ProcessRestart, Restart, durable
  <2>2. RecoveryFindsLast'
    BY <2>1, SameRecovery
  <2> QED
    BY <2>1, <2>2 DEF NoMarkers, NoMarker, Idle
<1> QED
  BY <1>1, <1>5, <1>6, <1>7, <1>8, <1>9, <1>10 DEF DestageNext

LEMMA InitRecovery == DestageInit => NoMarkers /\ RecoveryFindsLast
<1> SUFFICES ASSUME DestageInit PROVE NoMarkers /\ RecoveryFindsLast
  OBVIOUS
<1>1. /\ thread = [t \in Threads |-> Idle] /\ buffer = <<>> /\ content = [b \in Lbas |-> NoLoc]
      /\ checkpoint = [slot \in Slots |-> NoCheckpoint]
  BY DEF DestageInit, Init
<1>2. NoMarkers
  BY <1>1 DEF NoMarkers, NoMarker, Idle
<1>3. TypeInv
  BY InitTypesInv DEF TypesInv
<1>4. recover = replay(EmptyMap, entries_after(buffer, 0))
  BY <1>2, <1>3, RecoverAll
<1>5. recover = EmptyMap
  BY <1>1, <1>4, NothingAfter, ReplayNothing
<1> QED
  BY <1>1, <1>2, <1>5, EmptyMapIs DEF RecoveryFindsLast

\* The host and all destages use the engine at the same time; without automatic
\* checkpoints a restart still finds all that was logged.
THEOREM DestagingIsRecovered ==
  ASSUME ~AutoCheckpoint
  PROVE  DestageSpec => []RecoveryFindsLast
<1>1. DestageInit => PipelineInv /\ NoMarkers /\ RecoveryFindsLast
  BY InitPipelineInv, InitRecovery
<1>2. PipelineInv /\ NoMarkers /\ RecoveryFindsLast /\ [DestageNext]_destageVars
        => PipelineInv' /\ NoMarkers' /\ RecoveryFindsLast'
  BY NextPipelineInv, NextRecovery
<1> QED
  BY <1>1, <1>2, PTL DEF DestageSpec

-----------------------------------------------------------------------------
(* Stripes of one write.                                                   *)

\* The host writes just what fills a stripe.
WholeStripes == \A req \in Requests : req.range.end - req.range.start = StripeSize

LEMMA OneIsWhole ==
  ASSUME TypesInv, EvenInv(StripeSize, 1)
  PROVE  StripesAreWhole
<1>1. StripeSize \in Nat \ {0} /\ 1 \in Nat \ {0} /\ StripeSize = 1 * StripeSize
  BY DestageAssumption
<1>2. StripesAreCopied
  BY <1>1, EvenIsCopied
<1>3. ASSUME NEW t \in Tasks, tasks[t].pc # "free", NEW b \in Lbas,
             contains(calculate_lba_range(tasks[t].writes), b)
      PROVE  \E w \in ToSet(tasks[t].writes) : contains(RangeOf(w), b)
  <2>1. PICK s : s = tasks[t].writes
    OBVIOUS
  <2>2. s \in Seq(Writes) /\ s # <<>> /\ Len(s) <= 1
    BY <1>3, <2>1 DEF TypesInv, PipelineTypes, TaskTypes, EvenInv
  <2>3. Len(s) = 1 /\ s[1] \in Writes
    <3>1. PICK n : n = Len(s)
      OBVIOUS
    <3>2. n \in Nat /\ n # 0
      BY <2>2, <3>1, SequenceIs
    <3>3. n <= 1
      BY <2>2, <3>1
    <3>4. Len(s) = 1
      BY <3>1, <3>2, <3>3
    <3> QED
      BY <2>2, <3>4, SequenceIs
  <2>4. PICK w : w = s[1]
    OBVIOUS
  <2>5. ToSet(s) = {w}
    BY <2>2, <2>3, <2>4, SequenceIs
  <2>6. RangeOf(w) \in LbaRange
    BY <2>3, <2>4, WriteType DEF TypesInv
  <2>7. RangeOf(w).start \in Nat /\ RangeOf(w).end \in Nat
    BY <2>6, RangeType
  <2>8. Min({RangeOf(w).start}) = RangeOf(w).start /\ Max({RangeOf(w).end}) = RangeOf(w).end
    <3>1. PICK x, y : x = RangeOf(w).start /\ y = RangeOf(w).end
      OBVIOUS
    <3>2. \A n \in Nat : {n} \subseteq Nat /\ {n} # {} /\ \A k \in {n} : k <= n
      OBVIOUS
    <3>3. \A n \in Nat : Min({n}) \in {n} /\ Max({n}) \in {n}
      BY <3>2, MinMaxIs
    <3> QED
      BY <2>7, <3>1, <3>3
  <2>9. /\ {RangeOf(v).start : v \in ToSet(s)} = {RangeOf(w).start}
        /\ {RangeOf(v).end : v \in ToSet(s)} = {RangeOf(w).end}
    BY <2>5
  <2>10. calculate_lba_range(s) = [start |-> RangeOf(w).start, end |-> RangeOf(w).end]
    BY <2>8, <2>9 DEF calculate_lba_range
  <2>11. contains(RangeOf(w), b)
    BY <1>3, <2>1, <2>10 DEF contains
  <2> QED
    BY <2>1, <2>5, <2>11
<1> QED
  BY <1>2, <1>3 DEF StripesAreWhole, StripesAreGapless

\* If each write of the host fills a stripe, and checkpoints are made by hand, a write that
\* is trimmed, or mapped and submitted, stays found without further ado.
THEOREM WholeWritesStayFound ==
  ASSUME ~AutoCheckpoint, WholeStripes
  PROVE  DestageSpec => []WritesAreFoundUnlessRaced
<1>1. StripeSize \in Nat \ {0} /\ 1 \in Nat \ {0} /\ StripeSize = 1 * StripeSize
  BY DestageAssumption
<1>2. DestageInit => TypesInv /\ EvenInv(StripeSize, 1)
  <2>1. DestageInit => EvenInv(StripeSize, 1)
    BY DEF DestageInit, EvenInv, Writes, Free
  <2> QED
    BY <2>1, InitTypesInv
<1>3. TypesInv /\ EvenInv(StripeSize, 1) /\ [DestageNext]_destageVars
        => TypesInv' /\ EvenInv(StripeSize, 1)'
  BY <1>1, NextTypesInv, NextEvenInv DEF WholeStripes
<1>4. TypesInv /\ EvenInv(StripeSize, 1) => StripesAreWhole
  BY OneIsWhole
<1> QED
  BY <1>2, <1>3, <1>4, WritesStayFound, DestagingIsRecovered, PTL DEF DestageSpec
=============================================================================
