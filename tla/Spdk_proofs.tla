----------------------------- MODULE Spdk_proofs -----------------------------
(***************************************************************************)
(* Proofs about the SPDK data path beside the journal.                     *)
(*   - EcReader, for every number of readers, shards and losses, every     *)
(*     capacity of the channel of repairs and both settings of each        *)
(*     option;                                                             *)
(*   - DmaBuffers, for every width of sizes and every use of the pool;     *)
(*   - EcEngine on BlockDevice, for every number of tasks, volumes,        *)
(*     devices and shards: EngineInv below is inductive and implies that   *)
(*     acknowledged stripes are whole, that as many devices may fail as    *)
(*     there are parity shards, and that buffers and handles are tracked.  *)
(***************************************************************************)
EXTENDS EcReader, DmaBuffers, EcEngine, Integers, FiniteSetTheorems, NaturalsInduction,
        WellFoundedInduction, TLAPS

-----------------------------------------------------------------------------
(* Numbers.                                                                *)

\* A set of naturals that is not empty has a least element.
LEMMA NatMin ==
  ASSUME NEW T, T \subseteq Nat, T # {}
  PROVE  \E x \in T : \A y \in T : x <= y
<1>1. \E x \in T : \A y \in T : ~ (<<y, x>> \in OpToRel(<, Nat))
  BY NatLessThanWellFounded, WFMin
<1>2. \A x, y \in Nat : y < x => <<y, x>> \in OpToRel(<, Nat)
  BY Zenon DEF OpToRel
<1>3. \E R : /\ \E x \in T : \A y \in T : <<y, x>> \notin R
             /\ \A x, y \in Nat : y < x => <<y, x>> \in R
  BY <1>1, <1>2, Zenon
<1>4. PICK R : /\ \E x \in T : \A y \in T : <<y, x>> \notin R
               /\ \A x, y \in Nat : y < x => <<y, x>> \in R
  BY <1>3, Zenon
<1>5. PICK x \in T : \A y \in T : <<y, x>> \notin R
  BY <1>4, Zenon
<1>6. ASSUME NEW y \in T PROVE ~(y < x)
  BY <1>4, <1>5, Zenon
<1>7. ASSUME NEW y \in T PROVE x <= y
  <2>1. x \in Nat /\ y \in Nat /\ ~(y < x)
    BY <1>6
  <2> QED
    BY <2>1
<1> QED
  BY <1>7

\* Induction, over the numbers that have a property.
LEMMA NatInd ==
  ASSUME NEW T, T \subseteq Nat, 0 \in T, \A n \in T : n + 1 \in T
  PROVE  T = Nat
<1> SUFFICES ASSUME Nat \ T # {} PROVE FALSE
  OBVIOUS
<1>1. PICK x \in Nat \ T : \A y \in Nat \ T : x <= y
  BY NatMin
<1>2. x # 0 /\ x - 1 \in Nat /\ x = (x - 1) + 1 /\ ~(x <= x - 1)
  BY <1>1
<1>3. x - 1 \in T
  BY <1>1, <1>2
<1> QED
  BY <1>1, <1>2, <1>3

\* Of the members of a finite set of naturals, as many have fewer than n members
\* below them as n says, up to the size of the set.
LEMMA LowestMembers ==
  ASSUME NEW G, G \subseteq Nat, IsFiniteSet(G), NEW n \in Nat, n <= Cardinality(G)
  PROVE  Cardinality({j \in G : Cardinality({o \in G : o < j}) < n}) = n
<1> DEFINE Below(j) == {o \in G : o < j}
           rank == [j \in G |-> Cardinality(Below(j))]
           Low(m) == {j \in G : rank[j] < m}
           T == {m \in Nat : m <= Cardinality(G) => Cardinality(Low(m)) = m}
<1>1. Cardinality(G) \in Nat
  BY FS_CardinalityType
<1>2. ASSUME NEW j \in G
      PROVE  IsFiniteSet(Below(j)) /\ rank[j] = Cardinality(Below(j)) /\ rank[j] \in Nat
  BY FS_Subset, FS_CardinalityType
<1>3. ASSUME NEW j \in G, NEW k \in G, j < k PROVE rank[j] < rank[k]
  <2>0. j \in Nat /\ k \in Nat
    OBVIOUS
  <2>1. ASSUME NEW o \in Below(j) PROVE o \in Below(k)
    <3>1. o \in Nat /\ o \in G /\ o < j
      OBVIOUS
    <3>2. o < k
      BY <1>3, <2>0, <3>1
    <3> QED
      BY <3>1, <3>2
  <2>2. j \in Below(k) /\ j \notin Below(j)
    BY <1>3, <2>0
  <2> HIDE DEF Below
  <2>3. /\ Cardinality(Below(j)) <= Cardinality(Below(k))
        /\ Cardinality(Below(j)) = Cardinality(Below(k)) => Below(j) = Below(k)
    BY <1>2, <2>1, FS_Subset
  <2> QED
    BY <1>2, <2>2, <2>3
<1>4. n \in Nat /\ \A j \in G : rank[j] \in Nat /\ Cardinality(Below(j)) = rank[j]
  BY <1>2
<1> HIDE DEF rank
<1>5. 0 \in T
  <2>1. ASSUME NEW j \in Low(0) PROVE FALSE
    <3>1. j \in G /\ rank[j] < 0
      OBVIOUS
    <3>2. rank[j] \in Nat
      BY <1>4, <3>1
    <3> QED
      BY <3>1, <3>2
  <2> QED
    BY <2>1, FS_EmptySet
<1>6. ASSUME NEW m \in T PROVE m + 1 \in T
  <2> SUFFICES ASSUME m + 1 <= Cardinality(G) PROVE Cardinality(Low(m + 1)) = m + 1
    OBVIOUS
  <2>1. m \in Nat /\ m < Cardinality(G) /\ Cardinality(Low(m)) = m
    BY <1>1
  <2>2. IsFiniteSet(Low(m)) /\ Low(m) \subseteq G
    BY FS_Subset
  <2>3. G \ Low(m) # {}
    <3> HIDE DEF Low
    <3>1. Low(m) # G
      BY <1>1, <2>1
    <3> QED
      BY <2>2, <3>1
  <2>4. PICK x \in G \ Low(m) : \A y \in G \ Low(m) : x <= y
    <3> HIDE DEF Low
    <3> QED
      BY <2>3, NatMin
  <2>5. x \in Nat /\ x \in G /\ rank[x] \in Nat /\ m <= rank[x]
    <3>1. x \in G /\ ~(rank[x] < m)
      BY <2>4
    <3>2. x \in Nat /\ rank[x] \in Nat
      BY <1>4, <3>1
    <3> QED
      BY <2>1, <3>1, <3>2
  <2>6. ASSUME NEW j \in G, j < x PROVE rank[j] < m
    BY <1>4, <2>1, <2>4, <2>5, <2>6
  <2>7. ASSUME NEW j \in G, x < j PROVE m < rank[j]
    <3>1. rank[x] < rank[j]
      BY <1>3, <2>5, <2>7
    <3>2. rank[j] \in Nat
      BY <1>4
    <3> QED
      BY <2>1, <2>5, <3>1, <3>2
  <2>8. Below(x) = Low(m)
    <3>1. ASSUME NEW j \in G PROVE j < x <=> rank[j] < m
      <4>1. j \in Nat /\ rank[j] \in Nat
        BY <1>4
      <4>2. CASE j = x
        BY <2>1, <2>5, <4>2
      <4>3. CASE j < x
        BY <2>6, <4>3
      <4>4. CASE x < j
        BY <2>1, <2>5, <2>7, <4>1, <4>4
      <4> QED
        BY <2>5, <4>1, <4>2, <4>3, <4>4
    <3> QED
      BY <3>1
  <2>9. rank[x] = m
    BY <1>4, <2>1, <2>5, <2>8
  <2>10. Low(m + 1) = Low(m) \union {x}
    <3>1. ASSUME NEW j \in G PROVE rank[j] < m + 1 <=> rank[j] < m \/ j = x
      <4>1. j \in Nat /\ rank[j] \in Nat
        BY <1>4
      <4>2. CASE j = x
        BY <2>1, <2>9, <4>2
      <4>3. CASE j < x
        BY <2>1, <2>6, <4>1, <4>3
      <4>4. CASE x < j
        BY <2>1, <2>5, <2>7, <4>1, <4>4
      <4> QED
        BY <2>5, <4>1, <4>2, <4>3, <4>4
    <3> QED
      BY <2>5, <3>1
  <2>11. x \notin Low(m)
    BY <2>4
  <2> HIDE DEF Low
  <2> QED
    BY <2>1, <2>2, <2>10, <2>11, FS_AddElement
<1>7. T \subseteq Nat
  OBVIOUS
<1> HIDE DEF T
<1>8. n \in T
  BY <1>4, <1>5, <1>6, <1>7, NatInd
<1>9. Cardinality(Low(n)) = n
  BY <1>8 DEF T
<1>10. Low(n) = {j \in G : Cardinality({o \in G : o < j}) < n}
  BY <1>4
<1> QED
  BY <1>9, <1>10

-----------------------------------------------------------------------------
(* The reader.                                                             *)

Requests == [stripe : Stripes, missing : SUBSET Shards]
Results == {<< >>} \union [DataIndices -> Nat]
ReadStates ==
  [pc : {"idle", "gather", "done"}, stripe : Stripes \union {""}, pending : SUBSET Shards,
   got : SUBSET Shards, late : SUBSET Shards, path : {"none", "fast", "degraded", "failed"},
   data : Results]
Observations ==
  [reads : Nat, losses : Nat, asked : SUBSET Requests, full : BOOLEAN,
   lost : SUBSET (Stripes \X Shards)]

\* Types, and that a shard that is lost is remembered.
ReaderStateOK ==
  /\ config \in [fast : BOOLEAN, repair : BOOLEAN]
  /\ reads \in [Readers -> ReadStates]
  /\ lost \in [Stripes -> SUBSET Shards]
  /\ repairs \in Seq(Requests) /\ Len(repairs) <= RepairCap
  /\ observed \in Observations
  /\ \A s \in Stripes : \A i \in lost[s] : <<s, i>> \in observed.lost

\* Every shard of a read is on its way, there, late or lost.
ShardsKnown(read) ==
  \A i \in Shards : \/ i \in read.pending \union read.got \union read.late
                    \/ <<read.stripe, i>> \in observed.lost

\* What a read has found when it is over.
Concluded(read) ==
  /\ read.path \in {"fast", "degraded"} => read.data = [i \in DataIndices |-> i]
  /\ read.path = "failed" => Cardinality(read.got) < DataShards /\ read.pending = {}
  /\ read.path = "degraded" /\ triggers(read) =>
       \/ observed.full
       \/ [stripe |-> read.stripe, missing |-> Shards \ read.got] \in observed.asked

ReadOK(read) ==
  /\ read.pending \intersect read.got = {}
  /\ read.pc # "idle" => read.stripe \in Stripes /\ ShardsKnown(read)
  /\ read.pc \in {"idle", "gather"} => read.path = "none"
  /\ Concluded(read)

ReaderInv == ReaderStateOK /\ \A r \in Readers : ReadOK(reads[r])

LEMMA ShardSets ==
  /\ TotalShards \in Nat /\ Shards \subseteq Nat \ {0} /\ DataIndices \subseteq Shards
  /\ IsFiniteSet(Shards) /\ Cardinality(Shards) = TotalShards
  /\ \A T \in SUBSET Shards : IsFiniteSet(T) /\ Cardinality(T) \in Nat
<1>1. TotalShards \in Nat /\ TotalShards = DataShards + ParityShards
  BY EcReaderAssumption DEF TotalShards
<1>2. Shards \subseteq Nat \ {0} /\ DataIndices \subseteq Shards
  BY <1>1, EcReaderAssumption DEF Shards, DataIndices
<1>3. IsFiniteSet(Shards) /\ Cardinality(Shards) = TotalShards
  BY <1>1, FS_Interval DEF Shards
<1>4. ASSUME NEW T \in SUBSET Shards PROVE IsFiniteSet(T) /\ Cardinality(T) \in Nat
  BY <1>3, FS_Subset, FS_CardinalityType
<1> QED
  BY <1>1, <1>2, <1>3, <1>4

\* DataShards shards suffice for the codec, whichever they are.
LEMMA RecoveredIs ==
  ASSUME NEW read \in ReadStates, Suffices(read), NEW i
  PROVE  Recovered(read, i) = i
<1> DEFINE G == read.got
           used == {j \in G : Cardinality({o \in G : o < j}) < DataShards}
<1>1. G \in SUBSET Shards /\ Cardinality(G) >= DataShards /\ DataShards \in Nat
  BY EcReaderAssumption DEF ReadStates, Suffices
<1>2. IsFiniteSet(G) /\ Cardinality(G) \in Nat /\ G \subseteq Nat
  BY <1>1, ShardSets
<1>3. Shards \ erasures(read) = G
  BY <1>1 DEF erasures
<1>4. Cardinality(used) = DataShards
  BY <1>1, <1>2, LowestMembers
<1>5. \A j \in used : Buffer(read, j) = j
  BY DEF Buffer
<1>6. Recovered(read, i) =
        IF Cardinality(used) = DataShards /\ \A j \in used : Buffer(read, j) = j THEN i ELSE 0
  BY <1>3, Zenon DEF Recovered
<1> QED
  BY <1>4, <1>5, <1>6, Zenon

LEMMA CombinedIs ==
  ASSUME NEW read \in ReadStates, Suffices(read)
  PROVE  Combined(read) = [i \in DataIndices |-> i]
<1>1. \A i \in DataIndices : (IF i \in read.got THEN Buffer(read, i) ELSE Recovered(read, i)) = i
  BY RecoveredIs DEF Buffer
<1> QED
  BY <1>1 DEF Combined

\* With every shard there are more than enough.
LEMMA AllSuffice ==
  ASSUME NEW read, read.got = Shards
  PROVE  Suffices(read)
BY ShardSets, EcReaderAssumption DEF Suffices, TotalShards

LEMMA InitReaderInv == ReaderInit => ReaderInv
<1> SUFFICES ASSUME ReaderInit PROVE ReaderInv
  OBVIOUS
<1>1. NoRead \in ReadStates /\ ReadOK(NoRead)
  BY DEF NoRead, ReadStates, Results, ReadOK, Concluded
<1>2. repairs \in Seq(Requests) /\ Len(repairs) <= RepairCap
  BY EcReaderAssumption DEF ReaderInit
<1>3. observed \in Observations /\ lost \in [Stripes -> SUBSET Shards]
  BY DEF ReaderInit, Observations
<1>4. \A s \in Stripes : lost[s] = {}
  BY DEF ReaderInit
<1>5. reads \in [Readers -> ReadStates] /\ \A r \in Readers : reads[r] = NoRead
  BY <1>1 DEF ReaderInit
<1>6. config \in [fast : BOOLEAN, repair : BOOLEAN]
  BY DEF ReaderInit
<1> QED
  BY <1>1, <1>2, <1>3, <1>4, <1>5, <1>6 DEF ReaderInv, ReaderStateOK

\* What was observed only grows.
Grows ==
  /\ observed.asked \subseteq observed'.asked
  /\ observed.lost \subseteq observed'.lost
  /\ observed.full => observed'.full

LEMMA ReadStaysOK ==
  ASSUME NEW read, ReadOK(read), Grows, config' = config
  PROVE  ReadOK(read)'
<1>1. triggers(read)' <=> triggers(read)
  BY DEF triggers, missing_data
<1>2. (ShardsKnown(read) => ShardsKnown(read)')
  BY DEF ShardsKnown, Grows
<1>3. Concluded(read)'
  BY <1>1 DEF ReadOK, Concluded, Grows
<1> QED
  BY <1>2, <1>3 DEF ReadOK

\* One read changes, and what is remembered grows.
LEMMA ReadChanges ==
  ASSUME ReaderInv, NEW r \in Readers, NEW a \in ReadStates,
         reads' = [reads EXCEPT ![r] = a], ReadOK(a)',
         config' = config, lost' = lost,
         repairs' \in Seq(Requests), Len(repairs') <= RepairCap,
         observed' \in Observations, Grows
  PROVE  ReaderInv'
<1>1. ReaderStateOK'
  <2>1. \A s \in Stripes : \A i \in lost[s] : <<s, i>> \in observed'.lost
    BY DEF ReaderInv, ReaderStateOK, Grows
  <2> QED
    BY <2>1 DEF ReaderInv, ReaderStateOK
<1>2. \A q \in Readers : reads'[q] = IF q = r THEN a ELSE reads[q]
  BY DEF ReaderInv, ReaderStateOK
<1>3. ASSUME NEW q \in Readers PROVE ReadOK(reads[q])'
  <2>1. CASE q = r
    BY <1>2, <2>1 DEF ReadOK, ShardsKnown, Concluded, triggers, missing_data
  <2>2. CASE q # r
    <3>1. ReadOK(reads[q]) /\ reads'[q] = reads[q]
      BY <1>2, <2>2 DEF ReaderInv
    <3>2. PICK read : read = reads[q]
      OBVIOUS
    <3>3. ReadOK(read)'
      BY <3>1, <3>2, ReadStaysOK
    <3> QED
      BY <3>1, <3>2, <3>3 DEF ReadOK, ShardsKnown, Concluded, triggers, missing_data
  <2> QED
    BY <2>1, <2>2
<1> QED
  BY <1>1, <1>3 DEF ReaderInv

\* One read changes and nothing else does.
LEMMA OnlyReadChanges ==
  ASSUME ReaderInv, NEW r \in Readers, NEW a \in ReadStates,
         reads' = [reads EXCEPT ![r] = a], ReadOK(a),
         UNCHANGED <<config, lost, repairs, observed>>
  PROVE  ReaderInv'
<1>1. Grows /\ config' = config
  BY DEF Grows
<1>2. ReadOK(a)'
  BY <1>1, ReadStaysOK
<1>3. repairs' \in Seq(Requests) /\ Len(repairs') <= RepairCap /\ observed' \in Observations
  BY DEF ReaderInv, ReaderStateOK
<1> QED
  BY <1>1, <1>2, <1>3, ReadChanges

LEMMA ScatterKeeps ==
  ASSUME ReaderInv, NEW r \in Readers, ScatterGather(r)
  PROVE  ReaderInv'
<1>1. PICK s \in Stripes :
        reads' = [reads EXCEPT ![r] = [NoRead EXCEPT !.pc = "gather", !.stripe = s, !.pending = Shards]]
  BY DEF ScatterGather
<1> DEFINE a == [NoRead EXCEPT !.pc = "gather", !.stripe = s, !.pending = Shards]
<1>2. /\ a \in ReadStates /\ a.pc = "gather" /\ a.stripe = s /\ a.pending = Shards /\ a.got = {}
      /\ a.path = "none"
  BY DEF NoRead, ReadStates, Results
<1>3. reads' = [reads EXCEPT ![r] = a] /\ UNCHANGED <<config, lost, repairs>>
  BY <1>1 DEF ScatterGather
<1>4. observed \in Observations /\ observed' = [observed EXCEPT !.reads = @ + 1]
  BY DEF ReaderInv, ReaderStateOK, ScatterGather
<1>5. observed' \in Observations /\ Grows
  BY <1>4 DEF Observations, Grows
<1> HIDE DEF a
<1>6. ReadOK(a)
  BY <1>2 DEF ReadOK, ShardsKnown, Concluded
<1>7. ReadOK(a)'
  BY <1>3, <1>5, <1>6, ReadStaysOK
<1> QED
  BY <1>2, <1>3, <1>5, <1>7, ReadChanges DEF ReaderInv, ReaderStateOK

LEMMA ReadFields ==
  ASSUME ReaderInv, NEW r \in Readers
  PROVE  /\ reads[r] \in ReadStates /\ ReadOK(reads[r])
         /\ reads[r].pc # "idle" => reads[r].stripe \in Stripes
BY DEF ReaderInv, ReaderStateOK, ReadOK

\* A shard answers with data, or with the error of one that is lost.
LEMMA AnswerKeeps ==
  ASSUME ReaderInv, NEW r \in Readers, NEW i \in Shards, Answer(r, i)
  PROVE  ReaderInv'
<1> DEFINE read == reads[r]
           got == IF i \in lost[read.stripe] THEN read.got ELSE read.got \union {i}
           a == [read EXCEPT !.pending = @ \ {i}, !.got = got]
<1>1. /\ read \in ReadStates /\ ReadOK(read) /\ read.pc = "gather" /\ i \in read.pending
      /\ read.stripe \in Stripes
  BY ReadFields DEF Answer
<1>2. /\ a \in ReadStates /\ a.pc = "gather" /\ a.stripe = read.stripe
      /\ a.pending = read.pending \ {i} /\ a.got = got /\ a.late = read.late /\ a.path = "none"
  BY <1>1 DEF ReadStates, ReadOK
<1>3. reads' = [reads EXCEPT ![r] = a] /\ UNCHANGED <<config, lost, repairs, observed>>
  BY <1>1 DEF Answer, ReaderInv, ReaderStateOK
<1>4. i \in got \/ <<read.stripe, i>> \in observed.lost
  BY <1>1 DEF ReaderInv, ReaderStateOK
<1>5. read.got \subseteq got /\ got \subseteq read.got \union {i}
  OBVIOUS
<1> HIDE DEF a, got
<1>6. ReadOK(a)
  <2>1. a.pending \intersect a.got = {}
    BY <1>1, <1>2, <1>5 DEF ReadOK
  <2>2. ShardsKnown(a)
    BY <1>1, <1>2, <1>4, <1>5 DEF ReadOK, ShardsKnown
  <2> QED
    BY <1>1, <1>2, <2>1, <2>2 DEF ReadOK, Concluded
<1> QED
  BY <1>2, <1>3, <1>6, OnlyReadChanges


\* A shard that does not answer in time is late, unless it is lost anyway.
LEMMA ShardTimeoutKeeps ==
  ASSUME ReaderInv, NEW r \in Readers, NEW i \in Shards, ShardTimeout(r, i)
  PROVE  ReaderInv'
<1> DEFINE read == reads[r]
           late == Late(r, i)
           a == [read EXCEPT !.pending = @ \ {i}, !.late = late]
<1>1. /\ read \in ReadStates /\ ReadOK(read) /\ read.pc = "gather" /\ i \in read.pending
      /\ read.stripe \in Stripes
  BY ReadFields DEF ShardTimeout
<1>2. read.late \subseteq late /\ late \subseteq read.late \union {i}
  BY DEF Late
<1>3. i \in late \/ <<read.stripe, i>> \in observed.lost
  BY <1>1 DEF ReaderInv, ReaderStateOK, Late
<1> HIDE DEF late
<1>4. /\ a \in ReadStates /\ a.pc = "gather" /\ a.stripe = read.stripe
      /\ a.pending = read.pending \ {i} /\ a.got = read.got /\ a.late = late /\ a.path = "none"
  BY <1>1, <1>2 DEF ReadStates, ReadOK
<1>5. reads' = [reads EXCEPT ![r] = a] /\ UNCHANGED <<config, lost, repairs, observed>>
  BY <1>1 DEF ShardTimeout, ReaderInv, ReaderStateOK, late
<1> HIDE DEF a
<1>6. ReadOK(a)
  <2>1. a.pending \intersect a.got = {}
    BY <1>1, <1>4 DEF ReadOK
  <2>2. ShardsKnown(a)
    BY <1>1, <1>2, <1>3, <1>4 DEF ReadOK, ShardsKnown
  <2> QED
    BY <1>1, <1>4, <2>1, <2>2 DEF ReadOK, Concluded
<1> QED
  BY <1>4, <1>5, <1>6, OnlyReadChanges

\* The timeout of the whole read discards what was there: then all shards are late.
LEMMA ReadTimeoutKeeps ==
  ASSUME ReaderInv, NEW r \in Readers, ReadTimeout(r)
  PROVE  ReaderInv'
<1> DEFINE read == reads[r]
           a == [read EXCEPT !.pending = {}, !.got = {}, !.late = Shards]
<1>1. /\ read \in ReadStates /\ ReadOK(read) /\ read.pc = "gather"
      /\ read.stripe \in Stripes
  BY ReadFields DEF ReadTimeout
<1>2. /\ a \in ReadStates /\ a.pc = "gather" /\ a.stripe = read.stripe
      /\ a.pending = {} /\ a.got = {} /\ a.late = Shards /\ a.path = "none"
  BY <1>1 DEF ReadStates, ReadOK
<1>3. reads' = [reads EXCEPT ![r] = a] /\ UNCHANGED <<config, lost, repairs, observed>>
  BY <1>1 DEF ReadTimeout, ReaderInv, ReaderStateOK
<1> HIDE DEF a
<1>4. ReadOK(a)
  BY <1>1, <1>2 DEF ReadOK, ShardsKnown, Concluded
<1> QED
  BY <1>2, <1>3, <1>4, OnlyReadChanges

\* A read is over, with the path taken and the data.
LEMMA EndsReadIs ==
  ASSUME ReaderInv, NEW r \in Readers, reads[r].pc = "gather",
         NEW path \in {"fast", "degraded", "failed"}, NEW data \in Results,
         EndsRead(r, path, data)
  PROVE  \E a \in ReadStates :
           /\ reads' = [reads EXCEPT ![r] = a]
           /\ a.pc = "done" /\ a.stripe = reads[r].stripe /\ a.pending = reads[r].pending
           /\ a.got = reads[r].got /\ a.late = reads[r].late
           /\ a.path = path /\ a.data = data
<1> DEFINE a == [reads[r] EXCEPT !.pc = "done", !.path = path, !.data = data]
<1>1. reads[r] \in ReadStates /\ reads \in [Readers -> ReadStates]
  BY DEF ReaderInv, ReaderStateOK
<1>2. /\ a \in ReadStates
      /\ a.pc = "done" /\ a.stripe = reads[r].stripe /\ a.pending = reads[r].pending
      /\ a.got = reads[r].got /\ a.late = reads[r].late
      /\ a.path = path /\ a.data = data
  BY <1>1 DEF ReadStates
<1>3. reads' = [reads EXCEPT ![r] = a]
  BY <1>1 DEF EndsRead
<1> QED
  BY <1>2, <1>3

LEMMA FastPathKeeps ==
  ASSUME ReaderInv, NEW r \in Readers, FastPath(r)
  PROVE  ReaderInv'
<1>1. /\ reads[r] \in ReadStates /\ ReadOK(reads[r]) /\ reads[r].pc = "gather"
      /\ reads[r].got = Shards /\ reads[r].pending = {}
  BY ReadFields DEF FastPath
<1>2. Combined(reads[r]) = [i \in DataIndices |-> i]
  BY <1>1, AllSuffice, CombinedIs
<1>3. Combined(reads[r]) \in Results
  BY <1>2 DEF Results, DataIndices
<1>4. PICK a \in ReadStates :
           /\ reads' = [reads EXCEPT ![r] = a]
           /\ a.pc = "done" /\ a.stripe = reads[r].stripe /\ a.pending = reads[r].pending
           /\ a.got = reads[r].got /\ a.late = reads[r].late
           /\ a.path = "fast" /\ a.data = Combined(reads[r])
  BY <1>1, <1>3, EndsReadIs, Zenon DEF FastPath
<1>5. ReadOK(a)
  BY <1>1, <1>2, <1>4 DEF ReadOK, ShardsKnown, Concluded
<1> QED
  BY <1>4, <1>5, OnlyReadChanges DEF FastPath

LEMMA DegradedPathKeeps ==
  ASSUME ReaderInv, NEW r \in Readers, DegradedPath(r)
  PROVE  ReaderInv'
<1>1. /\ reads[r] \in ReadStates /\ ReadOK(reads[r]) /\ reads[r].pc = "gather"
      /\ reads[r].stripe \in Stripes
      /\ Suffices(reads[r]) /\ reads[r].pending = {}
  BY ReadFields DEF DegradedPath
<1>2. Combined(reads[r]) = [i \in DataIndices |-> i]
  BY <1>1, CombinedIs
<1>3. Combined(reads[r]) \in Results
  BY <1>2 DEF Results, DataIndices
<1>4. PICK a \in ReadStates :
           /\ reads' = [reads EXCEPT ![r] = a]
           /\ a.pc = "done" /\ a.stripe = reads[r].stripe /\ a.pending = reads[r].pending
           /\ a.got = reads[r].got /\ a.late = reads[r].late
           /\ a.path = "degraded" /\ a.data = Combined(reads[r])
  <2>1. EndsRead(r, "degraded", Combined(reads[r]))
    BY DEF DegradedPath
  <2>2. PICK path \in {"fast", "degraded", "failed"} : path = "degraded"
    OBVIOUS
  <2>3. PICK data \in Results : data = Combined(reads[r])
    BY <1>3
  <2>4. EndsRead(r, path, data)
    BY <2>1, <2>2, <2>3
  <2>5. \E a \in ReadStates :
           /\ reads' = [reads EXCEPT ![r] = a]
           /\ a.pc = "done" /\ a.stripe = reads[r].stripe /\ a.pending = reads[r].pending
           /\ a.got = reads[r].got /\ a.late = reads[r].late
           /\ a.path = path /\ a.data = data
    BY <1>1, <2>4, EndsReadIs
  <2> QED
    BY <2>2, <2>3, <2>5
<1> DEFINE request == [stripe |-> a.stripe, missing |-> Shards \ a.got]
<1>5. request \in Requests /\ request = [stripe |-> reads[r].stripe, missing |-> Shards \ reads[r].got]
  BY <1>1, <1>4 DEF Requests
<1>6. (triggers(a) <=> triggers(reads[r])) /\ config' = config /\ lost' = lost
  BY <1>4 DEF triggers, missing_data, DegradedPath
<1>7. /\ observed \in Observations /\ repairs \in Seq(Requests) /\ Len(repairs) <= RepairCap
      /\ Len(repairs) \in Nat /\ RepairCap \in Nat
  BY EcReaderAssumption DEF ReaderInv, ReaderStateOK
<1>8. ShardsKnown(a)
  BY <1>1, <1>4 DEF ReadOK, ShardsKnown
<1> HIDE DEF request
<1>9. CASE triggers(reads[r]) /\ HasRoom
  <2>1. /\ repairs' = Append(repairs, request)
        /\ observed' = [observed EXCEPT !.asked = @ \union {request}]
    BY <1>5, <1>9 DEF DegradedPath
  <2>2. repairs' \in Seq(Requests) /\ Len(repairs') <= RepairCap
    BY <1>5, <1>7, <1>9, <2>1 DEF HasRoom
  <2>3. /\ observed' \in Observations /\ Grows /\ request \in observed'.asked
    BY <1>5, <1>7, <2>1 DEF Observations, Grows
  <2>4. ShardsKnown(a)'
    BY <1>8, <2>3 DEF ShardsKnown, Grows
  <2>5. ReadOK(a)'
    BY <1>1, <1>2, <1>4, <2>3, <2>4 DEF ReadOK, Concluded, request
  <2> QED
    BY <1>4, <1>6, <2>2, <2>3, <2>5, ReadChanges
<1>10. CASE ~(triggers(reads[r]) /\ HasRoom)
  <2>1. repairs' = repairs
    BY <1>10 DEF DegradedPath
  <2>2. observed' = [observed EXCEPT !.full = @ \/ triggers(reads[r])]
    BY <1>10, Zenon DEF DegradedPath
  <2>3. triggers(reads[r]) \in BOOLEAN
    BY <1>1 DEF triggers, ReaderInv, ReaderStateOK
  <2>4. PICK full \in BOOLEAN : full = (observed.full \/ triggers(reads[r]))
    OBVIOUS
  <2>5. observed' = [observed EXCEPT !.full = full]
    BY <2>2, <2>4, Zenon
  <2>6. /\ observed' \in Observations /\ observed'.full = full
        /\ observed'.asked = observed.asked /\ observed'.lost = observed.lost
    BY <1>7, <2>5 DEF Observations
  <2>7. /\ observed.full => observed'.full
        /\ triggers(reads[r]) => observed'.full
    BY <2>4, <2>6, Zenon
  <2>8. Grows
    BY <2>6, <2>7 DEF Grows
  <2>9. ShardsKnown(a)'
    BY <1>8, <2>8 DEF ShardsKnown, Grows
  <2>10. triggers(a)' => observed'.full
    BY <1>6, <2>7 DEF triggers, missing_data
  <2>11. ReadOK(a)'
    BY <1>1, <1>2, <1>4, <2>9, <2>10 DEF ReadOK, Concluded
  <2> QED
    BY <1>4, <1>6, <1>7, <2>1, <2>6, <2>8, <2>11, ReadChanges
<1> QED
  BY <1>9, <1>10

LEMMA FailKeeps ==
  ASSUME ReaderInv, NEW r \in Readers, Fail(r)
  PROVE  ReaderInv'
<1>1. /\ reads[r] \in ReadStates /\ ReadOK(reads[r]) /\ reads[r].pc = "gather"
      /\ reads[r].stripe \in Stripes
      /\ ~Suffices(reads[r]) /\ reads[r].pending = {}
  BY ReadFields DEF Fail
<1>2. << >> \in Results
  BY DEF Results
<1>3. PICK a \in ReadStates :
           /\ reads' = [reads EXCEPT ![r] = a]
           /\ a.pc = "done" /\ a.stripe = reads[r].stripe /\ a.pending = reads[r].pending
           /\ a.got = reads[r].got /\ a.late = reads[r].late
           /\ a.path = "failed" /\ a.data = << >>
  <2>1. EndsRead(r, "failed", << >>)
    BY DEF Fail
  <2>2. PICK path \in {"fast", "degraded", "failed"} : path = "failed"
    OBVIOUS
  <2>3. PICK data \in Results : data = << >>
    BY <1>2
  <2>4. EndsRead(r, path, data)
    BY <2>1, <2>2, <2>3
  <2>5. \E a \in ReadStates :
           /\ reads' = [reads EXCEPT ![r] = a]
           /\ a.pc = "done" /\ a.stripe = reads[r].stripe /\ a.pending = reads[r].pending
           /\ a.got = reads[r].got /\ a.late = reads[r].late
           /\ a.path = path /\ a.data = data
    BY <1>1, <2>4, EndsReadIs
  <2> QED
    BY <2>2, <2>3, <2>5
<1>4. Cardinality(a.got) \in Nat /\ DataShards \in Nat
  BY ShardSets, EcReaderAssumption DEF ReadStates
<1>5. Cardinality(a.got) < DataShards
  BY <1>1, <1>3, <1>4 DEF Suffices
<1>6. ReadOK(a)
  BY <1>1, <1>3, <1>5 DEF ReadOK, ShardsKnown, Concluded
<1> QED
  BY <1>3, <1>6, OnlyReadChanges DEF Fail

LEMMA ReturnKeeps ==
  ASSUME ReaderInv, NEW r \in Readers, Return(r)
  PROVE  ReaderInv'
<1>1. NoRead \in ReadStates /\ ReadOK(NoRead)
  BY DEF NoRead, ReadStates, Results, ReadOK, Concluded
<1> QED
  BY <1>1, OnlyReadChanges DEF Return

\* Nothing changes of the reads.
LEMMA ReadsStay ==
  ASSUME ReaderInv, reads' = reads, config' = config, Grows, ReaderStateOK'
  PROVE  ReaderInv'
<1>1. ASSUME NEW q \in Readers PROVE ReadOK(reads[q])'
  <2>1. PICK read : read = reads[q]
    OBVIOUS
  <2>2. ReadOK(read)'
    BY <2>1, ReadStaysOK DEF ReaderInv
  <2> QED
    BY <2>1, <2>2 DEF ReadOK, ShardsKnown, Concluded, triggers, missing_data
<1> QED
  BY <1>1 DEF ReaderInv

LEMMA LoseKeeps ==
  ASSUME ReaderInv, Lose
  PROVE  ReaderInv'
<1>1. PICK s \in Stripes : \E i \in Shards \ lost[s] :
       /\ lost' = [lost EXCEPT ![s] = @ \union {i}]
       /\ observed' = [observed EXCEPT !.losses = @ + 1, !.lost = @ \union {<<s, i>>}]
  BY DEF Lose
<1>2. PICK i \in Shards :
       /\ lost' = [lost EXCEPT ![s] = @ \union {i}]
       /\ observed' = [observed EXCEPT !.losses = @ + 1, !.lost = @ \union {<<s, i>>}]
  BY <1>1
<1>3. observed \in Observations /\ lost \in [Stripes -> SUBSET Shards]
  BY DEF ReaderInv, ReaderStateOK
<1>4. observed' \in Observations /\ Grows /\ <<s, i>> \in observed'.lost
  <2>1. PICK known : known = observed.lost \union {<<s, i>>}
    OBVIOUS
  <2>2. known \in SUBSET (Stripes \X Shards) /\ observed.lost \subseteq known /\ <<s, i>> \in known
    BY <1>3, <2>1 DEF Observations
  <2>3. observed' = [observed EXCEPT !.losses = @ + 1, !.lost = known]
    BY <1>2, <2>1
  <2>4. PICK pairs : pairs = SUBSET (Stripes \X Shards)
    OBVIOUS
  <2>5. Observations = [reads : Nat, losses : Nat, asked : SUBSET Requests, full : BOOLEAN,
                        lost : pairs]
    BY <2>4 DEF Observations
  <2>6. known \in pairs
    BY <2>2, <2>4
  <2>7. observed' \in Observations /\ observed'.asked = observed.asked
        /\ observed'.lost = known /\ observed'.full = observed.full
    <3>1. PICK requests : requests = SUBSET Requests
      OBVIOUS
    <3>2. Observations = [reads : Nat, losses : Nat, asked : requests, full : BOOLEAN, lost : pairs]
      BY <2>5, <3>1
    <3>3. observed \in Observations /\ observed.losses \in Nat
      BY <1>3, <3>2
    <3>4. PICK losses \in Nat : losses = observed.losses + 1
      BY <3>3
    <3>5. observed' = [observed EXCEPT !.losses = losses, !.lost = known]
      BY <2>3, <3>4
    <3> QED
      BY <2>6, <3>2, <3>3, <3>5
  <2> QED
    BY <2>2, <2>7 DEF Grows
<1>5. lost' \in [Stripes -> SUBSET Shards]
  BY <1>2, <1>3
<1>6. \A t \in Stripes : \A j \in lost'[t] : <<t, j>> \in observed'.lost
  BY <1>2, <1>3, <1>4 DEF Grows, ReaderInv, ReaderStateOK
<1>7. ReaderStateOK'
  BY <1>4, <1>5, <1>6 DEF Lose, ReaderInv, ReaderStateOK
<1> QED
  BY <1>4, <1>7, ReadsStay DEF Lose

LEMMA RepairShardsKeeps ==
  ASSUME ReaderInv, RepairShards
  PROVE  ReaderInv'
<1> DEFINE request == Head(repairs)
<1>1. repairs \in Seq(Requests) /\ repairs # << >> /\ Len(repairs) <= RepairCap
  BY DEF ReaderInv, ReaderStateOK, RepairShards
<1>2. request \in Requests /\ repairs' \in Seq(Requests) /\ Len(repairs') = Len(repairs) - 1
  BY <1>1 DEF RepairShards
<1>3. Len(repairs') <= RepairCap
  BY <1>1, <1>2, EcReaderAssumption
<1> HIDE DEF request
<1>4. lost' = [lost EXCEPT ![request.stripe] = @ \ request.missing]
  BY DEF RepairShards, request
<1>5. /\ lost' \in [Stripes -> SUBSET Shards]
      /\ \A s \in Stripes : lost'[s] \subseteq lost[s]
  BY <1>2, <1>4 DEF ReaderInv, ReaderStateOK, Requests
<1>6. observed' = observed /\ config' = config /\ reads' = reads
  BY DEF RepairShards
<1>7. \A s \in Stripes : \A i \in lost'[s] : <<s, i>> \in observed'.lost
  BY <1>5, <1>6 DEF ReaderInv, ReaderStateOK
<1>8. ReaderStateOK'
  BY <1>2, <1>3, <1>5, <1>6, <1>7 DEF ReaderInv, ReaderStateOK
<1> QED
  BY <1>6, <1>8, ReadsStay DEF Grows

LEMMA ReaderInvStep == ReaderInv /\ [ReaderNext]_readerVars => ReaderInv'
<1> SUFFICES ASSUME ReaderInv, [ReaderNext]_readerVars PROVE ReaderInv'
  OBVIOUS
<1>1. ASSUME NEW r \in Readers, Read(r) PROVE ReaderInv'
  BY <1>1, ScatterKeeps, AnswerKeeps, ShardTimeoutKeeps, ReadTimeoutKeeps, FastPathKeeps,
     DegradedPathKeeps, FailKeeps, ReturnKeeps DEF Read
<1>2. CASE Lose
  BY <1>2, LoseKeeps
<1>3. CASE RepairShards
  BY <1>3, RepairShardsKeeps
<1>4. CASE UNCHANGED readerVars
  <2>1. Grows /\ ReaderStateOK'
    BY <1>4 DEF readerVars, Grows, ReaderInv, ReaderStateOK
  <2> QED
    BY <1>4, <2>1, ReadsStay DEF readerVars
<1> QED
  BY <1>1, <1>2, <1>3, <1>4 DEF ReaderNext

\* A read that had fewer than DataShards shards misses more than there is parity.
LEMMA FailedMissesMany ==
  ASSUME ReaderInv, NEW r \in Readers, reads[r].path = "failed"
  PROVE  Cardinality(reads[r].late \union {i \in Shards : <<reads[r].stripe, i>> \in observed.lost})
           > ParityShards
<1> DEFINE read == reads[r]
           out == read.late \union {i \in Shards : <<read.stripe, i>> \in observed.lost}
<1>1. /\ read \in ReadStates /\ ReadOK(read) /\ read.pc # "idle" /\ read.pending = {}
      /\ Cardinality(read.got) < DataShards
  BY ReadFields DEF ReadOK, Concluded
<1>2. out \subseteq Shards /\ read.got \subseteq Shards
  BY <1>1 DEF ReadStates
<1>3. Shards \ read.got \subseteq out
  BY <1>1 DEF ReadOK, ShardsKnown
<1> HIDE DEF out, read
<1>4. Cardinality(Shards) = Cardinality(Shards \ read.got) + Cardinality(read.got)
  <2>1. read.got \intersect (Shards \ read.got) = {} /\ (Shards \ read.got) \union read.got = Shards
    BY <1>2
  <2>2. IsFiniteSet(read.got) /\ IsFiniteSet(Shards \ read.got)
    BY <1>2, ShardSets
  <2>3. Cardinality((Shards \ read.got) \union read.got)
          = Cardinality(Shards \ read.got) + Cardinality(read.got) - Cardinality((Shards \ read.got) \intersect read.got)
    BY <2>2, FS_Union
  <2>4. Cardinality((Shards \ read.got) \intersect read.got) = 0
    BY <2>1, FS_EmptySet
  <2> QED
    BY <1>2, <2>1, <2>3, <2>4, ShardSets
<1>5. Cardinality(Shards \ read.got) <= Cardinality(out)
  BY <1>2, <1>3, ShardSets, FS_Subset
<1>6. /\ Cardinality(out) \in Nat /\ Cardinality(Shards \ read.got) \in Nat
      /\ Cardinality(read.got) \in Nat /\ Cardinality(Shards) = DataShards + ParityShards
      /\ DataShards \in Nat /\ ParityShards \in Nat
  BY <1>2, ShardSets, EcReaderAssumption DEF TotalShards
<1>7. Cardinality(out) > ParityShards
  BY <1>1, <1>4, <1>5, <1>6
<1> QED
  BY <1>7 DEF out, read

LEMMA ReaderInvImplies == ReaderInv => ReadsAreAnswered
<1> SUFFICES ASSUME ReaderInv PROVE ReadsAreAnswered
  OBVIOUS
<1>1. ReaderTypeOK
  <2>1. ASSUME NEW r \in Readers
        PROVE  /\ reads[r].pc \in {"idle", "gather", "done"}
               /\ reads[r].pending \subseteq Shards /\ reads[r].got \subseteq Shards
               /\ reads[r].pending \intersect reads[r].got = {}
    BY ReadFields DEF ReadStates, ReadOK
  <2>2. \A i \in DOMAIN repairs : repairs[i].stripe \in Stripes /\ repairs[i].missing \subseteq Shards
    <3>1. repairs \in Seq(Requests)
      BY DEF ReaderInv, ReaderStateOK
    <3>2. repairs \in [1..Len(repairs) -> Requests] /\ DOMAIN repairs = 1..Len(repairs)
      BY <3>1
    <3>3. \A i \in DOMAIN repairs : repairs[i] \in Requests
      BY <3>2
    <3> QED
      BY <3>3 DEF Requests
  <2> QED
    BY <2>1, <2>2 DEF ReaderTypeOK, ReaderInv, ReaderStateOK
<1>2. DataIsRestored
  BY ReadFields DEF DataIsRestored, ReadOK, Concluded
<1>3. LossesAreTolerated
  BY FailedMissesMany, Zenon DEF LossesAreTolerated
<1>4. MissingShardsAreReported
  BY ReadFields DEF MissingShardsAreReported, ReadOK, Concluded, triggers
<1> QED
  BY <1>1, <1>2, <1>3, <1>4 DEF ReadsAreAnswered

\* Whatever shards are missing and in whatever order the others come, a read gives
\* the data of its stripe, or fails because more than the parity was lost or late,
\* and asks for the repair of what it missed.
THEOREM ReadsStayAnswered == ReaderSpec => []ReadsAreAnswered
<1>1. ReaderInit => ReaderInv
  BY InitReaderInv
<1>2. ReaderInv /\ [ReaderNext]_readerVars => ReaderInv'
  BY ReaderInvStep
<1>3. ReaderInv => ReadsAreAnswered
  BY ReaderInvImplies
<1> QED
  BY <1>1, <1>2, <1>3, PTL DEF ReaderSpec


-----------------------------------------------------------------------------
(* DMA buffers.                                                            *)

PoolBuffers == [bytes : [1..BufferSize -> DmaBytes], zeroed : BOOLEAN]
HeldBuffers == [bytes : Seq(DmaBytes), zeroed : BOOLEAN]

\* Every buffer of the pool has the pool's size, whatever its bytes are.
DmaInv ==
  /\ pool \in Seq(PoolBuffers) /\ held \in Seq(HeldBuffers)
  /\ BuffersAreSound

LEMMA ByteBuffers ==
  ASSUME NEW n \in Nat, NEW b \in [1..n -> DmaBytes], NEW z \in BOOLEAN
  PROVE  /\ [bytes |-> b, zeroed |-> z] \in HeldBuffers
         /\ n = BufferSize => [bytes |-> b, zeroed |-> z] \in PoolBuffers
<1>1. b \in Seq(DmaBytes)
  OBVIOUS
<1> QED
  BY <1>1 DEF HeldBuffers, PoolBuffers

LEMMA ZeroedIs ==
  ASSUME NEW n \in Nat
  PROVE  Zeroed(n) \in HeldBuffers /\ (n = BufferSize => Zeroed(n) \in PoolBuffers)
<1>1. ZeroBytes(n) \in [1..n -> DmaBytes]
  BY DmaAssumption DEF ZeroBytes
<1> QED
  BY <1>1, ByteBuffers DEF Zeroed

LEMMA RawIs ==
  ASSUME NEW n \in Nat, NEW buf \in Raw(n)
  PROVE  buf \in HeldBuffers
BY ByteBuffers DEF Raw

\* What is zeroed before it is handed out holds nothing but zeros.
LEMMA CleanedIs ==
  ASSUME NEW buf \in PoolBuffers
  PROVE  Cleaned(buf) = Zeroed(BufferSize)
BY DmaAssumption DEF PoolBuffers, Cleaned, Filled, Zeroed, ZeroBytes

\* A size rounded up to blocks is 0 if the sum wraps.
LEMMA RoundedIs ==
  ASSUME NEW size \in Sizes, NEW block \in Blocks, PowerOfTwo(block)
  PROVE  LET n == Rounded(size, block) IN
         n > 0 => n % block = 0 /\ n >= size /\ n - size < block
<1> DEFINE total == size + block - 1
           sum == total % SizeWidth
           n == Rounded(size, block)
<1>1. /\ SizeWidth \in Nat /\ size \in Nat /\ size < SizeWidth
      /\ block \in Nat /\ block > 0 /\ block < SizeWidth
  BY DmaAssumption DEF PowerOfTwo
<1>2. total \in Nat
  BY <1>1
<1>3. sum \in Nat /\ n = sum - (sum % block)
  BY <1>1, <1>2 DEF Rounded
<1>4. sum % block \in Nat /\ sum % block < block /\ sum % block <= sum
  BY <1>1, <1>3
<1>5. CASE total < SizeWidth
  <2>1. sum = total
    BY <1>1, <1>2, <1>5
  <2>2. n % block = 0
    BY <1>1, <1>2, <1>3, <2>1
  <2> HIDE DEF sum
  <2>3. n >= size /\ n - size < block
    BY <1>1, <1>3, <1>4, <2>1
  <2> QED
    BY <2>2, <2>3
<1>6. CASE total >= SizeWidth
  <2>1. sum = total - SizeWidth
    BY <1>1, <1>2, <1>6
  <2>2. sum < block
    BY <1>1, <2>1
  <2>3. sum % block = sum
    BY <1>1, <1>3, <2>2
  <2>4. n = 0
    BY <1>3, <2>3
  <2> QED
    BY <2>4
<1> QED
  BY <1>1, <1>2, <1>5, <1>6

LEMMA HoldsKeeps ==
  ASSUME DmaInv, NEW buf \in HeldBuffers, Holds(buf)
  PROVE  held' \in Seq(HeldBuffers)
BY DEF DmaInv, Holds

LEMMA InitDmaInv == DmaInit => DmaInv
<1> SUFFICES ASSUME DmaInit PROVE DmaInv
  OBVIOUS
<1>1. Zeroed(BufferSize) \in PoolBuffers /\ InitialCount \in Nat
  BY DmaAssumption, ZeroedIs
<1>2. pool \in Seq(PoolBuffers) /\ held \in Seq(HeldBuffers)
  BY <1>1 DEF DmaInit
<1>3. dma.call = "none"
  BY DEF DmaInit
<1> QED
  BY <1>2, <1>3 DEF DmaInv, BuffersAreSound, PooledAreClean, AlignedAreLargeEnough

LEMMA OtherCalls ==
  ASSUME DmaInv, dma'.call \notin {"get", "new_aligned"},
         pool' \in Seq(PoolBuffers), held' \in Seq(HeldBuffers)
  PROVE  DmaInv'
BY DEF DmaInv, BuffersAreSound, PooledAreClean, AlignedAreLargeEnough

LEMMA NewAlignedKeeps ==
  ASSUME DmaInv, NewAligned
  PROVE  DmaInv'
<1>1. PICK size \in Sizes, block \in Blocks :
    LET n == Rounded(size, block) IN
    /\ dma' = [call |-> "new_aligned", size |-> size, block |-> block,
               got |-> IF PowerOfTwo(block) THEN n ELSE 0]
    /\ IF PowerOfTwo(block) /\ n \in 1..Small THEN \E buf \in Raw(n) : Holds(buf) ELSE UNCHANGED held
    /\ UNCHANGED pool
  BY DEF NewAligned
<1> DEFINE n == Rounded(size, block)
<1>2. held' \in Seq(HeldBuffers)
  <2>1. CASE PowerOfTwo(block) /\ n \in 1..Small
    <3>1. PICK buf \in Raw(n) : Holds(buf)
      BY <1>1, <2>1
    <3>2. n \in Nat
      BY <2>1 DEF Small
    <3> QED
      BY <3>1, <3>2, RawIs, HoldsKeeps
  <2>2. CASE ~(PowerOfTwo(block) /\ n \in 1..Small)
    BY <1>1, <2>2 DEF DmaInv
  <2> QED
    BY <2>1, <2>2
<1>3. pool' \in Seq(PoolBuffers) /\ dma'.call = "new_aligned"
  BY <1>1 DEF DmaInv
<1>4. AlignedAreLargeEnough'
  <2>1. CASE PowerOfTwo(block)
    <3>1. dma'.got = n /\ dma'.size = size /\ dma'.block = block
      BY <1>1, <2>1
    <3>2. n > 0 => n % block = 0 /\ n >= size /\ n - size < block
      BY <2>1, RoundedIs
    <3> QED
      BY <3>1, <3>2 DEF AlignedAreLargeEnough
  <2>2. CASE ~PowerOfTwo(block)
    <3>1. dma'.got = 0
      BY <1>1, <2>2
    <3> QED
      BY <3>1 DEF AlignedAreLargeEnough
  <2> QED
    BY <2>1, <2>2
<1> QED
  BY <1>2, <1>3, <1>4 DEF DmaInv, BuffersAreSound, PooledAreClean

LEMMA TouchKeeps ==
  ASSUME DmaInv, Touch
  PROVE  DmaInv'
<1>1. PICK h \in DOMAIN held :
       LET buf == held[h] IN
       \/ \E value \in DmaBytes :
            /\ held' = [held EXCEPT ![h] = Filled(buf, value)]
            /\ dma' = [call |-> "fill"]
       \/ \E data \in Datas :
            /\ Len(data) <= Len(buf.bytes)
            /\ held' = [held EXCEPT ![h] = Copied(buf, data)]
            /\ dma' = [call |-> "copy"]
       \/ \E data \in Datas :
            /\ held' = [held EXCEPT ![h] = WrittenThrough(buf, data)]
            /\ dma' = [call |-> "through"]
  BY DEF Touch
<1> DEFINE buf == held[h]
<1>2. held \in Seq(HeldBuffers) /\ buf \in HeldBuffers /\ pool' \in Seq(PoolBuffers)
  BY DEF DmaInv, Touch
<1>3. PICK n \in Nat : buf.bytes \in [1..n -> DmaBytes]
  BY <1>2 DEF HeldBuffers
<1>4. ASSUME NEW value \in DmaBytes PROVE Filled(buf, value) \in HeldBuffers
  <2>1. [i \in DOMAIN buf.bytes |-> value] \in [1..n -> DmaBytes] /\ (value = 0) \in BOOLEAN
    BY <1>3
  <2> QED
    BY <2>1, ByteBuffers DEF Filled
<1>5. ASSUME NEW data \in Datas PROVE Over(buf, data) \in [1..n -> DmaBytes]
  <2>1. PICK m \in Nat : data \in [1..m -> DmaBytes]
    BY DmaAssumption DEF Datas
  <2>2. Len(data) = m
    BY <2>1
  <2>3. ASSUME NEW i \in 1..n
        PROVE  (IF i <= Len(data) THEN data[i] ELSE buf.bytes[i]) \in DmaBytes
    BY <1>3, <2>1, <2>2
  <2> QED
    BY <1>3, <2>3 DEF Over
<1>6. ASSUME NEW data \in Datas
      PROVE  Copied(buf, data) \in HeldBuffers /\ WrittenThrough(buf, data) \in HeldBuffers
  <2>1. Copied(buf, data) \in HeldBuffers
    BY <1>5, ByteBuffers DEF Copied
  <2>2. PICK bytes \in Seq(DmaBytes) : bytes = Over(buf, data)
    BY <1>5
  <2>3. WrittenThrough(buf, data) = [buf EXCEPT !.bytes = bytes]
    BY <2>2 DEF WrittenThrough
  <2>4. WrittenThrough(buf, data) \in HeldBuffers
    BY <1>2, <2>3 DEF HeldBuffers
  <2> QED
    BY <2>1, <2>4
<1>7. \E b \in HeldBuffers : held' = [held EXCEPT ![h] = b]
  BY <1>1, <1>4, <1>6
<1>8. held' \in Seq(HeldBuffers)
  BY <1>2, <1>7
<1>9. dma'.call \notin {"get", "new_aligned"}
  BY <1>1
<1> QED
  BY <1>2, <1>8, <1>9, OtherCalls

LEMMA GetKeeps ==
  ASSUME DmaInv, Get
  PROVE  DmaInv'
<1> DEFINE buf == IF pool = << >> THEN Zeroed(BufferSize) ELSE Cleaned(pool[Len(pool)])
<1>1. buf = Zeroed(BufferSize)
  <2>1. CASE pool # << >>
    <3>1. pool[Len(pool)] \in PoolBuffers
      BY <2>1 DEF DmaInv
    <3> QED
      BY <2>1, <3>1, CleanedIs
  <2> QED
    BY <2>1
<1> HIDE DEF buf
<1>2. Holds(buf) /\ dma' = [call |-> "get", buf |-> buf]
  BY DEF Get, buf
<1>3. held' \in Seq(HeldBuffers)
  BY <1>1, <1>2, ZeroedIs, HoldsKeeps, DmaAssumption
<1>4. pool' \in Seq(PoolBuffers)
  BY DEF Get, DmaInv
<1> QED
  BY <1>1, <1>2, <1>3, <1>4 DEF DmaInv, BuffersAreSound, PooledAreClean, AlignedAreLargeEnough

LEMMA PutBackKeeps ==
  ASSUME DmaInv, PutBack
  PROVE  DmaInv'
<1>1. PICK h \in DOMAIN held :
    /\ held' = Without(held, h)
    /\ pool' = IF Fits(held[h]) THEN Append(pool, held[h]) ELSE pool
    /\ dma' = [call |-> "put"]
  BY DEF PutBack
<1>2. held \in Seq(HeldBuffers) /\ pool \in Seq(PoolBuffers) /\ held[h] \in HeldBuffers
      /\ h \in 1..Len(held) /\ Len(held) \in Nat
  BY DEF DmaInv
<1>3. held' \in Seq(HeldBuffers)
  <2>1. SubSeq(held, 1, h - 1) \in Seq(HeldBuffers) /\ SubSeq(held, h + 1, Len(held)) \in Seq(HeldBuffers)
    BY <1>2
  <2> QED
    BY <1>1, <2>1 DEF Without
<1>4. Fits(held[h]) => held[h] \in PoolBuffers
  <2>1. ASSUME Fits(held[h]) PROVE held[h].bytes \in [1..BufferSize -> DmaBytes]
    BY <1>2, <2>1, DmaAssumption DEF Fits, HeldBuffers
  <2> QED
    BY <1>2, <2>1 DEF HeldBuffers, PoolBuffers
<1>5. pool' \in Seq(PoolBuffers)
  BY <1>1, <1>2, <1>4
<1> QED
  BY <1>1, <1>3, <1>5, OtherCalls

LEMMA DmaInvStep == DmaInv /\ [DmaNext]_dmaVars => DmaInv'
<1> SUFFICES ASSUME DmaInv, [DmaNext]_dmaVars PROVE DmaInv'
  OBVIOUS
<1>1. CASE New
  <2>0. PICK n \in Sizes \cap 1..Small : \E buf \in Raw(n) \union {Zeroed(n)} : Holds(buf)
    BY <1>1 DEF New
  <2>1. PICK buf \in Raw(n) \union {Zeroed(n)} : Holds(buf)
    BY <2>0
  <2>2. n \in Nat
    BY <2>1 DEF Small
  <2>3. buf \in HeldBuffers
    BY <2>2, RawIs, ZeroedIs
  <2>4. held' \in Seq(HeldBuffers)
    BY <2>1, <2>3, HoldsKeeps
  <2> QED
    BY <1>1, <2>4, OtherCalls DEF New, DmaInv
<1>2. CASE UNCHANGED dmaVars
  BY <1>2 DEF dmaVars, DmaInv, BuffersAreSound, PooledAreClean, AlignedAreLargeEnough
<1> QED
  BY <1>1, <1>2, NewAlignedKeeps, TouchKeeps, GetKeeps, PutBackKeeps DEF DmaNext

\* A buffer from the pool is clean and has the pool's size whatever was done to it in
\* its last use, and an aligned buffer is large enough, also where the sum wraps.
THEOREM BuffersStaySound == DmaSpec => []BuffersAreSound
<1>1. DmaInv => BuffersAreSound
  BY DEF DmaInv
<1> QED
  BY <1>1, InitDmaInv, DmaInvStep, PTL DEF DmaSpec

-----------------------------------------------------------------------------
(* The engine: types and shapes.                                           *)

BlockContents == {Zeros} \union (Nat \X Nat \X Nat)
Handles == [device : Devices, blocks : [Offsets -> BlockContents]]
IoStates ==
  [at : {"none", "open", "absent", "opened", "mark", "failed"},
   device : Devices \union {""}, handle : Nat \union {NoHandle}]
VolumeStates == [devices : DeviceLists, next : Nat \ {0}, stripes : SUBSET Nat]
Grades == {"Healthy", "Degraded", "Critical"}
CallStates ==
  [op : {"none", "create", "encode", "write", "store", "locate", "read", "decode", "health", "check"},
   name : Names \union {""}, vol : Nat, stripe : Nat, devices : DeviceLists \union {<< >>},
   next : ShardIndices, shards : Seq(BlockContents), erased : SUBSET ShardIndices,
   todo : SUBSET Nat, worst : Grades]
PoolStates == [free : Nat, made : Nat, over : Nat, cap : Nat]
Histories ==
  [calls : Nat, changes : Nat, dropped : Nat, mismatches : Nat, gone : SUBSET Nat,
   failed : SUBSET Devices, reregistered : SUBSET Devices, crossed : SUBSET Devices]

\* A task that has a handle has one of the device it works on.
IoOK(c) ==
  /\ io[c].handle \in HandleIds \union {NoHandle}
  /\ io[c].at \in {"opened", "mark"} =>
       /\ io[c].handle \in HandleIds /\ stores[io[c].handle].device = io[c].device
       /\ io[c].device \in DOMAIN devices

DevicesOK ==
  /\ devices \in [DOMAIN devices -> BOOLEAN] /\ DOMAIN devices \subseteq Devices
  /\ handles \in [DOMAIN handles -> HandleIds] /\ DOMAIN handles \subseteq DOMAIN devices
  /\ \A d \in DOMAIN handles : stores[handles[d]].device = d
  /\ stores \in Seq(Handles)
  /\ faulty \subseteq Devices
  /\ io \in [Callers -> IoStates]
  /\ \A c \in Callers : IoOK(c)

VolumesOK ==
  /\ volumes \in Seq(VolumeStates)
  /\ \A v \in 1..Len(volumes) :
       /\ Len(volumes[v].devices) >= K + M
       /\ volumes[v].stripes \subseteq 1..(volumes[v].next - 1)
  /\ named \in [DOMAIN named -> 1..Len(volumes)] /\ DOMAIN named \subseteq Names

Writing == {"write", "store"}
Reading == {"locate", "read", "decode", "check"}

\* What a call knows of its volume and its stripe.
CallOK(c) ==
  LET call == calls[c] IN
  /\ call.op = "create" =>
       call.name \in Names /\ call.devices \in DeviceLists /\ Len(call.devices) >= K + M
  /\ call.op \in {"encode"} \union Writing \union Reading => call.vol \in 1..Len(volumes)
  /\ call.op \in Writing \union Reading => call.stripe \in 1..(volumes[call.vol].next - 1)
  /\ call.op \in {"write", "read", "check"} =>
       io[c].device = device_for_shard(call.vol, call.next)

EngineOK ==
  /\ DevicesOK /\ VolumesOK
  /\ calls \in [Callers -> CallStates]
  /\ \A c \in Callers : CallOK(c)
  /\ permits \in Nat
  /\ pools \in [data : PoolStates, parity : PoolStates]
  /\ history \in Histories

-----------------------------------------------------------------------------
(* The engine: permits, buffers and open devices.                          *)

Holding == {c \in Callers : calls[c].op \in {"write", "store", "read", "decode"}}

CountsOK ==
  /\ permits + Cardinality(Holding) = MaxConcurrent
  /\ pools.data.free <= pools.data.cap /\ pools.parity.free <= pools.parity.cap
  /\ BuffersAreReturned

\* A task does I/O in the middle of a call, and marks what it has opened.
Working == {"write", "read", "check"}
MarksOK ==
  /\ \A c \in Callers : io[c].at # "none" => calls[c].op \in Working
  /\ \A c \in Callers : io[c].at = "mark" => io[c].device \in DOMAIN handles \union history.crossed
  /\ OpenDevicesAreMarked

-----------------------------------------------------------------------------
(* The engine: stripes.                                                    *)

\* All shards of the stripe were written: it is in the metadata, or was when a call
\* that reads it began.
Finished(v, s) ==
  \/ s \in volumes[v].stripes
  \/ \E c \in Callers : calls[c].op \in Reading /\ calls[c].vol = v /\ calls[c].stripe = s

Writes(c, v, s) == calls[c].op \in Writing /\ calls[c].vol = v /\ calls[c].stripe = s

\* Shards a write has written.
Count(c) == IF calls[c].op = "write" THEN calls[c].next - 1 ELSE K + M

\* The shard can be read unless its device fails, and is what was written as long as
\* nothing happened that the engine does not notice.
ShardSafe(v, s, i) ==
  LET d == device_for_shard(v, i) IN
  /\ s \in Slots /\ d \in DOMAIN devices
  /\ Sound(v, s) => d \in DOMAIN handles /\ stores[handles[d]].blocks[s] = Shard(v, s, i)

StripesOK ==
  /\ \A v \in 1..Len(volumes) : \A s \in Nat :
       Finished(v, s) => \A i \in ShardIndices : ShardSafe(v, s, i)
  /\ \A c \in Callers : \A v \in 1..Len(volumes) : \A s \in Nat : Writes(c, v, s) =>
       /\ ~Finished(v, s)
       /\ \A e \in Callers : Writes(e, v, s) => e = c
       /\ \A i \in 1..Count(c) : ShardSafe(v, s, i)

-----------------------------------------------------------------------------
(* The engine: reads and reports of health.                                *)

\* What a call has read of its stripe, and that what it has not read failed.
FetchOK(c) ==
  LET call == calls[c] IN
  /\ call.op \in {"read", "check"} => io[c].at # "failed"
  /\ call.op \in Reading => \A i \in call.erased : device_for_shard(call.vol, i) \in history.failed
  /\ call.op = "locate" => call.next = 1 /\ call.shards = << >>
  /\ call.op = "read" => Len(call.shards) = call.next - 1
  /\ call.op = "decode" => Len(call.shards) = K + M
  /\ call.op \in {"locate", "read", "decode"} /\ Sound(call.vol, call.stripe) =>
       \A i \in 1..Len(call.shards) :
         i \in call.erased \/ call.shards[i] = Shard(call.vol, call.stripe, i)

Excused ==
  \/ history.gone # {} \/ ~(Cardinality(history.failed) <= M)
  \/ \E l \in DeviceLists : ~IsInjective(l)

HealthOK(c) ==
  LET call == calls[c] IN call.op \in {"health", "check"} =>
    /\ history.gone = {} => call.name \in DOMAIN named /\ call.todo \subseteq volumes[named[call.name]].stripes
    /\ call.worst = "Critical" => Excused

\* Devices that failed are remembered.
FailuresOK == faulty \subseteq history.failed /\ IsFiniteSet(history.failed)

ReportsOK ==
  /\ FailuresOK
  /\ \A c \in Callers : FetchOK(c) /\ HealthOK(c)

EngineInv == EngineOK /\ CountsOK /\ MarksOK /\ StripesOK /\ ReportsOK

-----------------------------------------------------------------------------
(* The engine: lemmas about its parts.                                     *)

LEMMA SmallerOf ==
  ASSUME NEW a \in Int, NEW b \in Int
  PROVE  Min({a, b}) = IF a <= b THEN a ELSE b
<1>1. \E x \in {a, b} : \A y \in {a, b} : x <= y
  OBVIOUS
<1>2. Min({a, b}) \in {a, b} /\ \A y \in {a, b} : Min({a, b}) <= y
  BY <1>1, Zenon DEF Min
<1>3. PICK m : m = Min({a, b})
  OBVIOUS
<1>4. m \in {a, b} /\ m <= a /\ m <= b
  BY <1>2, <1>3
<1>5. m = IF a <= b THEN a ELSE b
  BY <1>4
<1> QED
  BY <1>3, <1>5

LEMMA LargerOf ==
  ASSUME NEW a \in Int, NEW b \in Int
  PROVE  Max({a, b}) = IF a >= b THEN a ELSE b
<1>1. \E x \in {a, b} : \A y \in {a, b} : x >= y
  OBVIOUS
<1>2. Max({a, b}) \in {a, b} /\ \A y \in {a, b} : Max({a, b}) >= y
  BY <1>1, Zenon DEF Max
<1>3. PICK m : m = Max({a, b})
  OBVIOUS
<1>4. m \in {a, b} /\ m >= a /\ m >= b
  BY <1>2, <1>3
<1>5. m = IF a >= b THEN a ELSE b
  BY <1>4
<1> QED
  BY <1>3, <1>5

LEMMA EngineNumbers ==
  /\ K \in Nat /\ K > 0 /\ M \in Nat /\ M > 0 /\ K + M \in Nat
  /\ ShardIndices \subseteq Nat \ {0} /\ IsFiniteSet(ShardIndices) /\ Cardinality(ShardIndices) = K + M
  /\ \A i \in Nat : i \in ShardIndices <=> 1 <= i /\ i <= K + M
<1>1. K \in Nat /\ K > 0 /\ M \in Nat /\ M > 0 /\ K + M \in Nat
  BY EcEngineAssumption
<1>2. IsFiniteSet(ShardIndices) /\ Cardinality(ShardIndices) = K + M
  BY <1>1, FS_Interval DEF ShardIndices
<1> QED
  BY <1>1, <1>2 DEF ShardIndices

\* A volume has a device for every shard.
LEMMA DeviceIs ==
  ASSUME VolumesOK, NEW v \in 1..Len(volumes), NEW i \in ShardIndices
  PROVE  /\ device_for_shard(v, i) = volumes[v].devices[i]
         /\ i \in DOMAIN volumes[v].devices
         /\ device_for_shard(v, i) \in Devices
         /\ device_for_shard(v, i) \in Range(volumes[v].devices)
<1> DEFINE l == volumes[v].devices
<1>1. l \in Seq(Devices) /\ Len(l) >= K + M
  <2>1. volumes[v] \in VolumeStates /\ Len(l) >= K + M
    BY DEF VolumesOK
  <2>2. l \in DeviceLists
    BY <2>1 DEF VolumeStates
  <2> QED
    BY <2>1, <2>2, EcEngineAssumption, Zenon
<1>2. i \in Nat /\ 1 <= i /\ i <= K + M /\ K + M \in Nat /\ Len(l) \in Nat
  BY <1>1, EngineNumbers
<1> HIDE DEF l
<1>3. (i - 1) % Len(l) = i - 1
  BY <1>1, <1>2
<1>4. device_for_shard(v, i) = l[i] /\ i \in DOMAIN l
  <2>1. (i - 1) + 1 = i /\ i \in 1..Len(l) /\ DOMAIN l = 1..Len(l)
    BY <1>1, <1>2
  <2>2. device_for_shard(v, i) = l[((i - 1) % Len(l)) + 1]
    BY DEF device_for_shard, l
  <2> QED
    BY <1>3, <2>1, <2>2
<1>5. l[i] \in Devices /\ l[i] \in Range(l)
  BY <1>1, <1>4 DEF Range
<1> QED
  BY <1>4, <1>5 DEF l

-----------------------------------------------------------------------------
(* The engine: steps of the devices.                                       *)

\* Devices stay registered, handles keep their device, and a device gets no handle
\* but a new one.
DevicesGrow ==
  /\ DOMAIN devices \subseteq DOMAIN devices'
  /\ Len(stores) <= Len(stores')
  /\ \A h \in HandleIds : stores'[h].device = stores[h].device
  /\ \A d \in DOMAIN handles' :
       \/ d \in DOMAIN handles /\ handles'[d] = handles[d]
       \/ handles'[d] > Len(stores)

BlocksStay == \A h \in HandleIds : stores'[h].blocks = stores[h].blocks

\* Volumes keep their devices, and do not give out an id twice.
VolumesGrow ==
  /\ Len(volumes) <= Len(volumes')
  /\ \A v \in 1..Len(volumes) :
       volumes'[v].devices = volumes[v].devices /\ volumes[v].next <= volumes'[v].next

LEMMA StoreFacts ==
  ASSUME DevicesOK
  PROVE  /\ Len(stores) \in Nat /\ HandleIds = 1..Len(stores)
         /\ \A h \in HandleIds : stores[h] \in Handles
BY DEF DevicesOK, HandleIds

LEMMA DevicesStay ==
  ASSUME DevicesOK, UNCHANGED bdevVars
  PROVE  DevicesOK' /\ DevicesGrow /\ BlocksStay
<1>1. DevicesOK'
  BY DEF DevicesOK, IoOK, HandleIds, bdevVars
<1>2. DevicesGrow /\ BlocksStay
  BY StoreFacts DEF DevicesGrow, BlocksStay, bdevVars
<1> QED
  BY <1>1, <1>2

\* A task begins an operation or is done with one.
LEMMA IoChanges ==
  ASSUME DevicesOK, NEW c \in Callers, NEW x \in IoStates, x.at \notin {"opened", "mark"},
         x.handle = NoHandle, io' = [io EXCEPT ![c] = x],
         UNCHANGED <<devices, handles, stores, faulty>>
  PROVE  DevicesOK' /\ DevicesGrow /\ BlocksStay
<1>1. io' \in [Callers -> IoStates] /\ io'[c] = x /\ \A e \in Callers \ {c} : io'[e] = io[e]
  BY DEF DevicesOK
<1>2. ASSUME NEW e \in Callers PROVE IoOK(e)'
  <2>1. CASE e = c
    BY <1>1, <2>1 DEF IoOK
  <2>2. CASE e # c
    BY <1>1, <2>2 DEF IoOK, DevicesOK, HandleIds
  <2> QED
    BY <2>1, <2>2
<1>3. DevicesOK'
  BY <1>1, <1>2 DEF DevicesOK, HandleIds
<1>4. DevicesGrow /\ BlocksStay
  BY StoreFacts DEF DevicesGrow, BlocksStay
<1> QED
  BY <1>3, <1>4

LEMMA IoValues ==
  /\ NoIo \in IoStates /\ NoIo.at = "none" /\ NoIo.handle = NoHandle
  /\ \A d \in Devices : /\ Starts(d) \in IoStates /\ Starts(d).at = "open"
                        /\ Starts(d).device = d /\ Starts(d).handle = NoHandle
BY DEF NoIo, Starts, IoStates

\* The stores after a write: one block of one handle is new.
LEMMA WrittenIs ==
  ASSUME DevicesOK, NEW c \in Callers, NEW offset \in Slots, NEW shard \in BlockContents,
         io[c].at = "opened", stores' = Written(c, offset, shard)
  PROVE  /\ stores' \in Seq(Handles) /\ Len(stores') = Len(stores)
         /\ io[c].handle \in HandleIds /\ stores[io[c].handle].device = io[c].device
         /\ \A h \in HandleIds :
              /\ stores'[h].device = stores[h].device
              /\ \A o \in Offsets : stores'[h].blocks[o] =
                   IF h = io[c].handle /\ o = offset THEN shard ELSE stores[h].blocks[o]
<1> DEFINE k == io[c].handle
<1>1. k \in HandleIds /\ stores[k].device = io[c].device /\ stores[k] \in Handles /\ stores \in Seq(Handles)
  BY StoreFacts DEF DevicesOK, IoOK
<1>2. offset \in Offsets
  BY BlockDeviceAssumption
<1> DEFINE blocks == [stores[k].blocks EXCEPT ![offset] = shard]
           store == [stores[k] EXCEPT !.blocks = blocks]
<1>3. blocks \in [Offsets -> BlockContents]
      /\ \A o \in Offsets : blocks[o] = IF o = offset THEN shard ELSE stores[k].blocks[o]
  BY <1>1, <1>2 DEF Handles
<1>4. stores' = [stores EXCEPT ![k] = store]
  BY DEF Written
<1> HIDE DEF blocks
<1>5. store \in Handles /\ store.device = stores[k].device /\ store.blocks = blocks
  BY <1>1, <1>3 DEF Handles
<1> HIDE DEF store, k
<1>6. /\ stores' \in Seq(Handles) /\ Len(stores') = Len(stores)
      /\ \A h \in HandleIds : stores'[h] = IF h = k THEN store ELSE stores[h]
  BY <1>1, <1>4, <1>5 DEF HandleIds
<1>7. ASSUME NEW h \in HandleIds
      PROVE  /\ stores'[h].device = stores[h].device
             /\ \A o \in Offsets : stores'[h].blocks[o] =
                  IF h = k /\ o = offset THEN shard ELSE stores[h].blocks[o]
  <2>1. CASE h = k
    BY <1>3, <1>5, <1>6, <2>1
  <2>2. CASE h # k
    BY <1>6, <2>2
  <2> QED
    BY <2>1, <2>2
<1> QED
  BY <1>1, <1>6, <1>7 DEF k

LEMMA WriteDevices ==
  ASSUME DevicesOK, NEW c \in Callers, NEW offset \in Slots, NEW shard \in BlockContents,
         io[c].at = "opened", stores' = Written(c, offset, shard),
         NEW x \in IoStates, x.at \notin {"opened", "mark"},
         x.handle = NoHandle, io' = [io EXCEPT ![c] = x],
         UNCHANGED <<devices, handles, faulty>>
  PROVE  DevicesOK' /\ DevicesGrow
<1>1. io' \in [Callers -> IoStates] /\ io'[c] = x /\ \A e \in Callers \ {c} : io'[e] = io[e]
  BY DEF DevicesOK
<1>2. /\ stores' \in Seq(Handles) /\ Len(stores') = Len(stores)
      /\ \A h \in HandleIds : stores'[h].device = stores[h].device
  BY WrittenIs
<1>3. HandleIds' = HandleIds
  BY <1>2 DEF HandleIds
<1>4. ASSUME NEW e \in Callers PROVE IoOK(e)'
  <2>1. CASE e = c
    BY <1>1, <2>1 DEF IoOK
  <2>2. CASE e # c
    <3>1. IoOK(e) /\ io'[e] = io[e]
      BY <1>1, <2>2 DEF DevicesOK
    <3> QED
      BY <1>2, <1>3, <3>1 DEF IoOK
  <2> QED
    BY <2>1, <2>2
<1>5. \A d \in DOMAIN handles : handles[d] \in HandleIds /\ stores'[handles[d]].device = d
  BY <1>2 DEF DevicesOK
<1>6. DevicesOK'
  BY <1>1, <1>2, <1>3, <1>4, <1>5 DEF DevicesOK
<1>7. DevicesGrow
  BY <1>2, StoreFacts DEF DevicesGrow
<1> QED
  BY <1>6, <1>7


LEMMA LookUpDevices ==
  ASSUME DevicesOK, NEW c \in Callers, LookUp(c)
  PROVE  DevicesOK' /\ DevicesGrow /\ BlocksStay
<1> DEFINE d == io[c].device
<1>1. /\ io[c] \in IoStates /\ UNCHANGED <<devices, handles, stores, faulty>>
      /\ HandleIds' = HandleIds
  BY DEF LookUp, DevicesOK, HandleIds
<1>2. DevicesGrow /\ BlocksStay
  BY <1>1, StoreFacts DEF DevicesGrow, BlocksStay
<1>3. PICK x \in IoStates :
        /\ io' = [io EXCEPT ![c] = x] /\ x.device = d
        /\ IF d \in DOMAIN handles THEN x.at = "opened" /\ x.handle = handles[d]
           ELSE x.at = "absent" /\ x.handle = io[c].handle
  <2>1. CASE d \in DOMAIN handles
    <3>1. handles[d] \in Nat
      BY <2>1, StoreFacts DEF DevicesOK
    <3>2. PICK h \in Nat : h = handles[d]
      BY <3>1
    <3> DEFINE x == [io[c] EXCEPT !.at = "opened", !.handle = h]
    <3>3. x \in IoStates /\ x.device = d /\ x.at = "opened" /\ x.handle = h
      BY <1>1 DEF IoStates
    <3>4. io' = [io EXCEPT ![c] = x]
      BY <2>1, <3>2 DEF LookUp, DevicesOK
    <3> QED
      BY <2>1, <3>2, <3>3, <3>4
  <2>2. CASE d \notin DOMAIN handles
    <3> DEFINE x == [io[c] EXCEPT !.at = "absent"]
    <3>1. x \in IoStates /\ x.device = d /\ x.at = "absent" /\ x.handle = io[c].handle
      BY <1>1 DEF IoStates
    <3>2. io' = [io EXCEPT ![c] = x]
      BY <2>2 DEF LookUp, DevicesOK
    <3> QED
      BY <2>2, <3>1, <3>2
  <2> QED
    BY <2>1, <2>2
<1>4. io' \in [Callers -> IoStates] /\ io'[c] = x /\ \A e \in Callers \ {c} : io'[e] = io[e]
  BY <1>3 DEF DevicesOK
<1>5. ASSUME NEW e \in Callers PROVE IoOK(e)'
  <2>1. CASE e # c
    BY <1>1, <1>4, <2>1 DEF IoOK, DevicesOK
  <2>2. CASE e = c /\ d \in DOMAIN handles
    <3>1. handles[d] \in HandleIds /\ stores[handles[d]].device = d /\ d \in DOMAIN devices
      BY <2>2 DEF DevicesOK
    <3> QED
      BY <1>1, <1>3, <1>4, <2>2, <3>1 DEF IoOK
  <2>3. CASE e = c /\ d \notin DOMAIN handles
    <3>1. io[c].handle \in HandleIds \union {NoHandle}
      BY DEF DevicesOK, IoOK
    <3> QED
      BY <1>1, <1>3, <1>4, <2>3, <3>1 DEF IoOK
  <2> QED
    BY <2>1, <2>2, <2>3
<1>6. DevicesOK'
  BY <1>1, <1>4, <1>5 DEF DevicesOK
<1> QED
  BY <1>2, <1>6

LEMMA InstallDevices ==
  ASSUME DevicesOK, NEW c \in Callers, Install(c)
  PROVE  DevicesOK' /\ DevicesGrow /\ BlocksStay
<1> DEFINE d == io[c].device
           n == Len(stores) + 1
           store == [device |-> d, blocks |-> [o \in Offsets |-> Zeros]]
<1>1. /\ io[c] \in IoStates /\ d \in DOMAIN devices /\ d \in Devices /\ n \in Nat
      /\ stores' = Append(stores, store) /\ UNCHANGED <<devices, faulty>>
      /\ handles' = Inserted(handles, d, n)
      /\ stores \in Seq(Handles) /\ Len(stores) \in Nat
  BY DEF Install, DevicesOK
<1>2. store \in Handles /\ store.device = d
  BY <1>1 DEF Handles, BlockContents
<1> HIDE DEF store
<1>3. /\ stores' \in Seq(Handles) /\ Len(stores') = n /\ stores'[n] = store
      /\ \A h \in HandleIds : h \in Nat /\ h < n /\ stores'[h] = stores[h]
      /\ HandleIds' = HandleIds \union {n}
  BY <1>1, <1>2 DEF HandleIds
<1>4. DOMAIN handles' = DOMAIN handles \union {d}
      /\ \A e \in DOMAIN handles' : handles'[e] = IF e = d THEN n ELSE handles[e]
  BY <1>1 DEF Inserted
<1>5. handles' \in [DOMAIN handles' -> HandleIds']
  BY <1>1, <1>3, <1>4 DEF Inserted, DevicesOK
<1>6. \A e \in DOMAIN handles' : stores'[handles'[e]].device = e
  BY <1>2, <1>3, <1>4 DEF DevicesOK
<1>7. DevicesGrow /\ BlocksStay
  <2>1. n > Len(stores) /\ Len(stores) <= Len(stores')
    BY <1>1, <1>3
  <2>2. ASSUME NEW e \in DOMAIN handles'
        PROVE  \/ e \in DOMAIN handles /\ handles'[e] = handles[e]
               \/ handles'[e] > Len(stores)
    <3>1. CASE e = d
      BY <1>4, <2>1, <3>1
    <3>2. CASE e # d
      BY <1>4, <3>2
    <3> QED
      BY <3>1, <3>2
  <2>3. \A h \in HandleIds : stores'[h] = stores[h]
    BY <1>3
  <2> QED
    BY <1>1, <2>1, <2>2, <2>3 DEF DevicesGrow, BlocksStay
<1> DEFINE x == [io[c] EXCEPT !.at = "mark", !.handle = n]
<1>8. x \in IoStates /\ x.device = d /\ x.at = "mark" /\ x.handle = n
  BY <1>1 DEF IoStates
<1>9. io' = [io EXCEPT ![c] = x]
  BY DEF Install, DevicesOK
<1> HIDE DEF x
<1>10. io' \in [Callers -> IoStates] /\ io'[c] = x /\ \A e \in Callers \ {c} : io'[e] = io[e]
  BY <1>8, <1>9 DEF DevicesOK
<1>11. ASSUME NEW e \in Callers PROVE IoOK(e)'
  <2>1. CASE e = c
    BY <1>1, <1>2, <1>3, <1>8, <1>10, <2>1 DEF IoOK
  <2>2. CASE e # c
    <3>1. io'[e] = io[e] /\ IoOK(e)
      BY <1>10, <2>2 DEF DevicesOK
    <3> QED
      BY <1>1, <1>3, <3>1 DEF IoOK
  <2> QED
    BY <2>1, <2>2
<1>12. DOMAIN handles' \subseteq DOMAIN devices'
  BY <1>1, <1>4 DEF DevicesOK
<1>13. DevicesOK'
  BY <1>1, <1>3, <1>5, <1>6, <1>10, <1>11, <1>12 DEF DevicesOK
<1> QED
  BY <1>7, <1>13

LEMMA NotFoundDevices ==
  ASSUME DevicesOK, NEW c \in Callers, NotFound(c)
  PROVE  DevicesOK' /\ DevicesGrow /\ BlocksStay
<1>1. /\ io[c] \in IoStates /\ UNCHANGED <<devices, handles, stores, faulty>>
      /\ HandleIds' = HandleIds
  BY DEF NotFound, DevicesOK, HandleIds
<1>2. DevicesGrow /\ BlocksStay
  BY <1>1, StoreFacts DEF DevicesGrow, BlocksStay
<1> DEFINE x == [io[c] EXCEPT !.at = "failed"]
<1>3. x \in IoStates /\ x.at = "failed" /\ x.handle = io[c].handle
  BY <1>1 DEF IoStates
<1>4. io' = [io EXCEPT ![c] = x]
  BY DEF NotFound, DevicesOK
<1> HIDE DEF x
<1>5. io' \in [Callers -> IoStates] /\ io'[c] = x /\ \A e \in Callers \ {c} : io'[e] = io[e]
  BY <1>3, <1>4 DEF DevicesOK
<1>6. ASSUME NEW e \in Callers PROVE IoOK(e)'
  BY <1>1, <1>3, <1>5 DEF IoOK, DevicesOK
<1>7. DevicesOK'
  BY <1>1, <1>5, <1>6 DEF DevicesOK
<1> QED
  BY <1>2, <1>7

LEMMA MarkDevices ==
  ASSUME DevicesOK, NEW c \in Callers, Mark(c)
  PROVE  DevicesOK' /\ DevicesGrow /\ BlocksStay
<1>1. /\ io[c] \in IoStates /\ io[c].at = "mark" /\ UNCHANGED <<handles, stores, faulty>>
      /\ HandleIds' = HandleIds /\ devices' = [devices EXCEPT ![io[c].device] = TRUE]
      /\ devices \in [DOMAIN devices -> BOOLEAN]
  BY DEF Mark, DevicesOK, HandleIds
<1>2. DOMAIN devices' = DOMAIN devices /\ devices' \in [DOMAIN devices -> BOOLEAN]
  BY <1>1
<1>3. DevicesGrow /\ BlocksStay
  BY <1>1, <1>2, StoreFacts DEF DevicesGrow, BlocksStay
<1> DEFINE x == [io[c] EXCEPT !.at = "opened"]
<1>4. x \in IoStates /\ x.at = "opened" /\ x.handle = io[c].handle /\ x.device = io[c].device
  BY <1>1 DEF IoStates
<1>5. io' = [io EXCEPT ![c] = x]
  BY DEF Mark, DevicesOK
<1> HIDE DEF x
<1>6. io' \in [Callers -> IoStates] /\ io'[c] = x /\ \A e \in Callers \ {c} : io'[e] = io[e]
  BY <1>4, <1>5 DEF DevicesOK
<1>7. ASSUME NEW e \in Callers PROVE IoOK(e)'
  <2>1. IoOK(c) /\ IoOK(e)
    BY DEF DevicesOK
  <2> QED
    BY <1>1, <1>2, <1>4, <1>6, <2>1 DEF IoOK
<1>8. DevicesOK'
  BY <1>1, <1>2, <1>6, <1>7 DEF DevicesOK
<1> QED
  BY <1>3, <1>8

LEMMA OpenDevices ==
  ASSUME DevicesOK, NEW c \in Callers, Open(c)
  PROVE  DevicesOK' /\ DevicesGrow /\ BlocksStay
BY LookUpDevices, InstallDevices, NotFoundDevices, MarkDevices DEF Open

\* Devices that come, go and fail.
LEMMA TableIs ==
  ASSUME DevicesOK, DeviceChange
  PROVE  /\ stores' = stores /\ io' = io /\ HandleIds' = HandleIds
         /\ devices' \in [DOMAIN devices' -> BOOLEAN] /\ DOMAIN devices' \subseteq Devices
         /\ DOMAIN devices \subseteq DOMAIN devices'
         /\ handles' \in [DOMAIN handles' -> HandleIds] /\ DOMAIN handles' \subseteq DOMAIN handles
         /\ \A e \in DOMAIN handles' : handles'[e] = handles[e]
         /\ faulty' \subseteq Devices
<1>0. CloseAll \/ \E d \in Devices : Register(d) \/ Close(d) \/ Fault(d) \/ Repair(d)
  BY Zenon DEF DeviceChange
<1>1. PICK d : CloseAll \/ (d \in Devices /\ (Register(d) \/ Close(d) \/ Fault(d) \/ Repair(d)))
  BY <1>0, Zenon
<1>2. stores' = stores /\ io' = io /\ HandleIds' = HandleIds
  BY <1>1 DEF Register, Close, CloseAll, Fault, Repair, HandleIds
<1>3. /\ devices' \in [DOMAIN devices' -> BOOLEAN] /\ DOMAIN devices' \subseteq Devices
      /\ DOMAIN devices \subseteq DOMAIN devices'
  <2>1. CASE d \in Devices /\ Register(d)
    BY <2>1 DEF Register, Inserted, DevicesOK
  <2>2. CASE Close(d)
    BY <2>2 DEF Close, DevicesOK
  <2>3. CASE CloseAll
    BY <2>3 DEF CloseAll, DevicesOK
  <2>4. CASE Fault(d) \/ Repair(d)
    BY <2>4 DEF Fault, Repair, DevicesOK
  <2> QED
    BY <1>1, <2>1, <2>2, <2>3, <2>4
<1>4. /\ handles' \in [DOMAIN handles' -> HandleIds] /\ DOMAIN handles' \subseteq DOMAIN handles
      /\ \A e \in DOMAIN handles' : handles'[e] = handles[e]
  <2>1. CASE Close(d)
    BY <2>1 DEF Close, DevicesOK, Restrict
  <2>2. CASE CloseAll
    BY <2>2 DEF CloseAll, DevicesOK
  <2>3. CASE Register(d) \/ Fault(d) \/ Repair(d)
    BY <2>3 DEF Register, Fault, Repair, DevicesOK
  <2> QED
    BY <1>1, <2>1, <2>2, <2>3
<1>5. faulty' \subseteq Devices
  BY <1>1 DEF Register, Close, CloseAll, Fault, Repair, DevicesOK
<1> QED
  BY <1>2, <1>3, <1>4, <1>5

LEMMA TableDevices ==
  ASSUME DevicesOK, DeviceChange
  PROVE  DevicesOK' /\ DevicesGrow /\ BlocksStay
<1>1. DevicesGrow /\ BlocksStay
  BY TableIs, StoreFacts DEF DevicesGrow, BlocksStay
<1>2. ASSUME NEW e \in Callers PROVE IoOK(e)'
  BY TableIs DEF IoOK, DevicesOK
<1>3. \A e \in DOMAIN handles' : stores'[handles'[e]].device = e
  BY TableIs DEF DevicesOK
<1>4. DOMAIN handles' \subseteq DOMAIN devices'
  BY TableIs DEF DevicesOK
<1>5. DevicesOK'
  BY TableIs, <1>2, <1>3, <1>4 DEF DevicesOK
<1> QED
  BY <1>1, <1>5


-----------------------------------------------------------------------------
(* The engine: every step keeps types and shapes.                          *)

LEMMA CallValues ==
  /\ NoCall \in CallStates /\ NoCall.op = "none" /\ NoCall.next = 1 /\ NoCall.shards = << >>
  /\ NoCall.erased = {} /\ NoCall.worst = "Healthy" /\ NoCall.todo = {}
<1>1. 1 \in ShardIndices
  BY EngineNumbers
<1> QED
  BY <1>1 DEF NoCall, CallStates, Grades

LEMMA ListOfVolumes ==
  ASSUME NEW V \in Seq(VolumeStates)
  PROVE  /\ Len(V) \in Nat
         /\ \A v \in 1..Len(V) : /\ V[v] \in VolumeStates /\ V[v].next \in Nat /\ V[v].next > 0
                                 /\ V[v].devices \in DeviceLists
<1>1. Len(V) \in Nat /\ \A v \in 1..Len(V) : V[v] \in VolumeStates
  OBVIOUS
<1>2. \A x \in VolumeStates : x.next \in Nat /\ x.next > 0 /\ x.devices \in DeviceLists
  BY DEF VolumeStates
<1> QED
  BY <1>1, <1>2

LEMMA VolumesStay ==
  ASSUME VolumesOK, volumes' = volumes, named' = named
  PROVE  VolumesOK' /\ VolumesGrow
<1>1. Len(volumes) \in Nat /\ \A v \in 1..Len(volumes) : volumes[v].next \in Nat
  BY ListOfVolumes DEF VolumesOK
<1> QED
  BY <1>1 DEF VolumesOK, VolumesGrow

\* A call of which nothing changes stays well formed.
LEMMA CallStays ==
  ASSUME EngineOK, VolumesOK', VolumesGrow, NEW e \in Callers, calls'[e] = calls[e],
         io'[e].device = io[e].device
  PROVE  CallOK(e)'
<1> DEFINE call == calls[e]
<1>1. call \in CallStates /\ CallOK(e) /\ Len(volumes) \in Nat /\ Len(volumes') \in Nat
  BY DEF EngineOK, VolumesOK
<1>2. \A v \in 1..Len(volumes) :
        /\ v \in 1..Len(volumes') /\ volumes'[v].devices = volumes[v].devices
        /\ volumes[v].next \in Nat /\ volumes'[v].next \in Nat /\ volumes[v].next <= volumes'[v].next
  <2>1. /\ volumes \in Seq(VolumeStates) /\ volumes' \in Seq(VolumeStates)
    BY DEF EngineOK, VolumesOK
  <2>2. /\ \A v \in 1..Len(volumes) : volumes[v].next \in Nat
        /\ \A v \in 1..Len(volumes') : volumes'[v].next \in Nat
    BY <2>1, ListOfVolumes
  <2>3. \A v \in 1..Len(volumes) : v \in 1..Len(volumes')
    BY <1>1 DEF VolumesGrow
  <2> QED
    BY <2>2, <2>3 DEF VolumesGrow
<1>3. call.op = "create" =>
         call.name \in Names /\ call.devices \in DeviceLists /\ Len(call.devices) >= K + M
  BY <1>1 DEF CallOK
<1>4. call.op \in {"encode"} \union Writing \union Reading => call.vol \in 1..Len(volumes)
  BY <1>1 DEF CallOK
<1>5. call.op \in Writing \union Reading =>
        call.vol \in 1..Len(volumes) /\ call.stripe \in 1..(volumes[call.vol].next - 1)
  BY <1>1, <1>4 DEF CallOK
<1>6. call.op \in {"write", "read", "check"} =>
        call.vol \in 1..Len(volumes) /\ io[e].device = device_for_shard(call.vol, call.next)
  BY <1>1, <1>4 DEF CallOK, Writing, Reading
<1> HIDE DEF call
<1>7. call.op \in {"encode"} \union Writing \union Reading => call.vol \in 1..Len(volumes')
  BY <1>2, <1>4
<1>8. call.op \in Writing \union Reading => call.stripe \in 1..(volumes'[call.vol].next - 1)
  BY <1>2, <1>5
<1>9. call.op \in {"write", "read", "check"} =>
        io[e].device = device_for_shard(call.vol, call.next)'
  BY <1>2, <1>6 DEF device_for_shard, call
<1>10. calls'[e] = call
  BY DEF call
<1>11. device_for_shard(calls[e].vol, calls[e].next)' = device_for_shard(call.vol, call.next)'
  BY <1>10 DEF device_for_shard, call
<1> QED
  BY <1>3, <1>7, <1>8, <1>9, <1>10, <1>11 DEF CallOK

\* No call changes.
LEMMA CallsStay ==
  ASSUME EngineOK, calls' = calls, DevicesOK', VolumesOK', VolumesGrow,
         \A e \in Callers : io'[e].device = io[e].device,
         permits' \in Nat, pools' \in [data : PoolStates, parity : PoolStates], history' \in Histories
  PROVE  EngineOK'
<1>1. \A e \in Callers : CallOK(e)'
  BY CallStays
<1> QED
  BY <1>1 DEF EngineOK

\* One call changes.
LEMMA CallChanges ==
  ASSUME EngineOK, NEW c \in Callers, NEW a \in CallStates, calls' = [calls EXCEPT ![c] = a],
         DevicesOK', VolumesOK', VolumesGrow, CallOK(c)',
         \A e \in Callers \ {c} : io'[e] = io[e],
         permits' \in Nat, pools' \in [data : PoolStates, parity : PoolStates], history' \in Histories
  PROVE  EngineOK'
<1>1. calls \in [Callers -> CallStates]
  BY DEF EngineOK
<1>2. calls' \in [Callers -> CallStates] /\ \A e \in Callers \ {c} : calls'[e] = calls[e]
  BY <1>1
<1>3. ASSUME NEW e \in Callers PROVE CallOK(e)'
  BY <1>2, CallStays
<1> QED
  BY <1>2, <1>3 DEF EngineOK

\* A call that knows of no volume is well formed.
LEMMA FreeCall ==
  ASSUME NEW c \in Callers, calls'[c].op \in {"none", "health"}
  PROVE  CallOK(c)'
BY DEF CallOK, Writing, Reading

LEMMA VolumeCall ==
  ASSUME NEW c \in Callers, NEW a, calls'[c] = a, a.op \in {"encode", "store", "locate", "decode"},
         a.vol \in 1..Len(volumes'), a.op # "encode" => a.stripe \in 1..(volumes'[a.vol].next - 1)
  PROVE  CallOK(c)'
BY DEF CallOK, Writing, Reading

LEMMA ShardCall ==
  ASSUME NEW c \in Callers, NEW a, calls'[c] = a, a.op \in {"write", "read", "check"},
         a.vol \in 1..Len(volumes'), a.stripe \in 1..(volumes'[a.vol].next - 1),
         io'[c].device = device_for_shard(a.vol, a.next)'
  PROVE  CallOK(c)'
<1>1. device_for_shard(calls[c].vol, calls[c].next)' = device_for_shard(a.vol, a.next)'
  BY DEF device_for_shard
<1> QED
  BY <1>1 DEF CallOK, Writing, Reading

LEMMA HistoryGrows ==
  ASSUME history \in Histories, NEW n \in Nat, NEW m \in Nat, NEW S \in SUBSET Nat, NEW D \in SUBSET Devices
  PROVE  /\ [history EXCEPT !.calls = n] \in Histories
         /\ [history EXCEPT !.dropped = n] \in Histories
         /\ [history EXCEPT !.gone = S] \in Histories
         /\ [history EXCEPT !.changes = n] \in Histories
         /\ [history EXCEPT !.changes = n, !.gone = S] \in Histories
         /\ [history EXCEPT !.changes = n, !.mismatches = m] \in Histories
         /\ [history EXCEPT !.changes = n, !.reregistered = D] \in Histories
         /\ [history EXCEPT !.changes = n, !.crossed = D] \in Histories
         /\ [history EXCEPT !.changes = n, !.failed = D] \in Histories
<1>1. PICK sets : sets = SUBSET Devices
  OBVIOUS
<1>2. PICK ids : ids = SUBSET Nat
  OBVIOUS
<1>3. D \in sets /\ S \in ids
  BY <1>1, <1>2
<1>4. Histories = [calls : Nat, changes : Nat, dropped : Nat, mismatches : Nat, gone : ids,
                   failed : sets, reregistered : sets, crossed : sets]
  BY <1>1, <1>2 DEF Histories
<1>5. [history EXCEPT !.calls = n] \in Histories
  BY <1>4
<1>6. [history EXCEPT !.dropped = n] \in Histories
  BY <1>4
<1>7. [history EXCEPT !.gone = S] \in Histories
  BY <1>3, <1>4
<1>8. [history EXCEPT !.changes = n] \in Histories
  BY <1>4
<1>9. PICK changed \in Histories : changed = [history EXCEPT !.changes = n]
  BY <1>8
<1>10. [changed EXCEPT !.gone = S] \in Histories
  BY <1>3, <1>4
<1>11. [changed EXCEPT !.mismatches = m] \in Histories
  BY <1>4
<1>12. [changed EXCEPT !.reregistered = D] \in Histories
  BY <1>3, <1>4
<1>13. [changed EXCEPT !.crossed = D] \in Histories
  BY <1>3, <1>4
<1>14. [changed EXCEPT !.failed = D] \in Histories
  BY <1>3, <1>4
<1>15. /\ [history EXCEPT !.changes = n, !.gone = S] = [changed EXCEPT !.gone = S]
       /\ [history EXCEPT !.changes = n, !.mismatches = m] = [changed EXCEPT !.mismatches = m]
       /\ [history EXCEPT !.changes = n, !.reregistered = D] = [changed EXCEPT !.reregistered = D]
       /\ [history EXCEPT !.changes = n, !.crossed = D] = [changed EXCEPT !.crossed = D]
       /\ [history EXCEPT !.changes = n, !.failed = D] = [changed EXCEPT !.failed = D]
  BY <1>9
<1> QED
  BY <1>5, <1>6, <1>7, <1>8, <1>10, <1>11, <1>12, <1>13, <1>14, <1>15


LEMMA EngineFacts ==
  ASSUME EngineOK, NEW c \in Callers
  PROVE  /\ DevicesOK /\ VolumesOK /\ calls \in [Callers -> CallStates]
         /\ calls[c] \in CallStates /\ CallOK(c) /\ permits \in Nat
         /\ io \in [Callers -> IoStates] /\ io[c] \in IoStates
         /\ pools \in [data : PoolStates, parity : PoolStates] /\ history \in Histories
         /\ Len(volumes) \in Nat /\ history.calls \in Nat /\ history.changes \in Nat
         /\ history.mismatches \in Nat /\ history.dropped \in Nat
BY DEF EngineOK, DevicesOK, VolumesOK, Histories

\* Types and shapes stay, and devices and volumes only grow.
EngineStep == EngineOK' /\ DevicesGrow /\ VolumesGrow

LEMMA NamedIs ==
  ASSUME EngineOK, NEW n \in DOMAIN named
  PROVE  n \in Names /\ named[n] \in 1..Len(volumes) /\ named[n] \in Nat
BY DEF EngineOK, VolumesOK

\* Of a volume, the stripes in its metadata were given out.
LEMMA StripeIs ==
  ASSUME EngineOK, NEW v \in 1..Len(volumes), NEW s \in volumes[v].stripes
  PROVE  s \in Nat /\ s \in 1..(volumes[v].next - 1)
<1>1. volumes[v].next \in Nat /\ volumes[v].stripes \subseteq 1..(volumes[v].next - 1)
  BY ListOfVolumes DEF EngineOK, VolumesOK
<1> QED
  BY <1>1

LEMMA BeginsKeeps ==
  ASSUME EngineOK, NEW c \in Callers, NEW a \in CallStates, Begins(c, a), named' = named, CallOK(c)'
  PROVE  EngineStep /\ BlocksStay
<1>1. /\ calls' = [calls EXCEPT ![c] = a] /\ history' = [history EXCEPT !.calls = history.calls + 1]
      /\ UNCHANGED <<bdevVars, volumes, permits, pools>>
  BY DEF Begins, Becomes
<1>2. DevicesOK' /\ DevicesGrow /\ BlocksStay
  BY <1>1, EngineFacts, DevicesStay
<1>3. VolumesOK' /\ VolumesGrow
  BY <1>1, EngineFacts, VolumesStay
<1>4. history' \in Histories
  <2>1. history.calls + 1 \in Nat
    BY EngineFacts
  <2> QED
    BY <1>1, <2>1, EngineFacts, HistoryGrows
<1>5. EngineOK'
  BY <1>1, <1>2, <1>3, <1>4, EngineFacts, CallChanges DEF bdevVars
<1> QED
  BY <1>2, <1>3, <1>5 DEF EngineStep

LEMMA BeginCreateKeeps ==
  ASSUME EngineOK, NEW c \in Callers, BeginCreate(c)
  PROVE  EngineStep /\ BlocksStay
<1>1. PICK n \in Names \ DOMAIN named, l \in DeviceLists :
        /\ Len(l) >= K + M
        /\ Begins(c, [NoCall EXCEPT !.op = "create", !.name = n, !.devices = l])
        /\ UNCHANGED named
  BY DEF BeginCreate
<1> DEFINE a == [NoCall EXCEPT !.op = "create", !.name = n, !.devices = l]
<1>2. a \in CallStates /\ a.op = "create" /\ a.name = n /\ a.devices = l
  BY CallValues DEF CallStates
<1>3. calls'[c] = a
  BY <1>1, EngineFacts DEF Begins, Becomes
<1>4. CallOK(c)'
  BY <1>1, <1>2, <1>3 DEF CallOK, Writing, Reading
<1> QED
  BY <1>1, <1>2, <1>4, BeginsKeeps

LEMMA BeginWriteKeeps ==
  ASSUME EngineOK, NEW c \in Callers, BeginWrite(c)
  PROVE  EngineStep /\ BlocksStay
<1>1. PICK n \in DOMAIN named :
        Begins(c, [NoCall EXCEPT !.op = "encode", !.vol = named[n]]) /\ UNCHANGED named
  BY DEF BeginWrite
<1>2. PICK v \in 1..Len(volumes) : v = named[n] /\ v \in Nat
  BY NamedIs
<1> DEFINE a == [NoCall EXCEPT !.op = "encode", !.vol = v]
<1>3. a \in CallStates /\ a.op = "encode" /\ a.vol = v
  BY <1>2, CallValues DEF CallStates
<1>4. calls'[c] = a /\ volumes' = volumes
  BY <1>1, <1>2, EngineFacts DEF Begins, Becomes
<1>5. CallOK(c)'
  BY <1>3, <1>4, VolumeCall
<1> QED
  BY <1>1, <1>2, <1>3, <1>5, BeginsKeeps

LEMMA BeginReadKeeps ==
  ASSUME EngineOK, NEW c \in Callers, BeginRead(c)
  PROVE  EngineStep /\ BlocksStay
<1>1. PICK n \in DOMAIN named : \E s \in volumes[named[n]].stripes :
        Begins(c, [NoCall EXCEPT !.op = "locate", !.vol = named[n], !.stripe = s]) /\ UNCHANGED named
  BY DEF BeginRead
<1>2. PICK v \in 1..Len(volumes) : v = named[n] /\ v \in Nat
  BY NamedIs
<1>3. PICK s \in volumes[v].stripes :
        Begins(c, [NoCall EXCEPT !.op = "locate", !.vol = v, !.stripe = s]) /\ UNCHANGED named
  BY <1>1, <1>2
<1> DEFINE a == [NoCall EXCEPT !.op = "locate", !.vol = v, !.stripe = s]
<1>4. s \in Nat /\ s \in 1..(volumes[v].next - 1)
  BY StripeIs
<1>5. a \in CallStates /\ a.op = "locate" /\ a.vol = v /\ a.stripe = s
  BY <1>2, <1>4, CallValues DEF CallStates
<1>6. calls'[c] = a /\ volumes' = volumes
  BY <1>3, EngineFacts DEF Begins, Becomes
<1> HIDE DEF a
<1>7. CallOK(c)'
  <2>1. a.vol \in 1..Len(volumes') /\ a.stripe \in 1..(volumes'[a.vol].next - 1)
    BY <1>4, <1>5, <1>6
  <2> QED
    BY <1>5, <1>6, <2>1, VolumeCall
<1>8. Begins(c, a) /\ named' = named
  BY <1>3 DEF a
<1> QED
  BY <1>5, <1>7, <1>8, BeginsKeeps

LEMMA BeginHealthKeeps ==
  ASSUME EngineOK, NEW c \in Callers, BeginHealth(c)
  PROVE  EngineStep /\ BlocksStay
<1>1. PICK n \in DOMAIN named :
        /\ Begins(c, [NoCall EXCEPT !.op = "health", !.name = n, !.todo = volumes[named[n]].stripes])
        /\ UNCHANGED named
  BY DEF BeginHealth
<1>2. PICK todo \in SUBSET Nat : todo = volumes[named[n]].stripes
  BY NamedIs, StripeIs
<1> DEFINE a == [NoCall EXCEPT !.op = "health", !.name = n, !.todo = todo]
<1>3. n \in Names
  BY NamedIs
<1>4. a \in CallStates /\ a.op = "health"
  BY <1>2, <1>3, CallValues DEF CallStates
<1>5. calls'[c] = a
  BY <1>1, <1>2, EngineFacts DEF Begins, Becomes
<1>6. CallOK(c)'
  BY <1>4, <1>5, FreeCall
<1> QED
  BY <1>1, <1>2, <1>4, <1>6, BeginsKeeps


LEMMA EndIo ==
  ASSUME EngineOK, NEW c \in Callers, io' = [io EXCEPT ![c] = NoIo],
         UNCHANGED <<devices, handles, stores, faulty>>
  PROVE  DevicesOK' /\ DevicesGrow /\ BlocksStay /\ io'[c] = NoIo
         /\ \A e \in Callers \ {c} : io'[e] = io[e]
BY EngineFacts, IoValues, IoChanges

\* The next shard of a call is read or written.
LEMMA ShardIoIs ==
  ASSUME EngineOK, NEW c \in Callers, NEW call \in CallStates, NEW v \in 1..Len(volumes),
         NEW i \in ShardIndices, ShardIo(c, call, v, i)
  PROVE  \E a \in CallStates :
           /\ calls' = [calls EXCEPT ![c] = a] /\ a = [call EXCEPT !.next = i]
           /\ a.next = i /\ a.op = call.op /\ a.vol = call.vol /\ a.stripe = call.stripe
           /\ DevicesOK' /\ DevicesGrow /\ BlocksStay
           /\ io'[c] = Starts(device_for_shard(v, i))
           /\ \A e \in Callers \ {c} : io'[e] = io[e]
<1> DEFINE a == [call EXCEPT !.next = i]
           x == Starts(device_for_shard(v, i))
<1>1. a \in CallStates /\ a.next = i /\ a.op = call.op /\ a.vol = call.vol /\ a.stripe = call.stripe
  BY DEF CallStates
<1>2. device_for_shard(v, i) \in Devices
  BY EngineFacts, DeviceIs
<1>3. x \in IoStates /\ x.at = "open" /\ x.handle = NoHandle
  BY <1>2, IoValues
<1>4. calls' = [calls EXCEPT ![c] = a] /\ io' = [io EXCEPT ![c] = x]
      /\ UNCHANGED <<devices, handles, stores, faulty>>
  BY DEF ShardIo, Becomes
<1> HIDE DEF x, a
<1>5. DevicesOK' /\ DevicesGrow /\ BlocksStay
  BY <1>3, <1>4, EngineFacts, IoChanges
<1>6. io'[c] = x /\ \A e \in Callers \ {c} : io'[e] = io[e]
  BY <1>4, EngineFacts
<1> QED
  BY <1>1, <1>4, <1>5, <1>6 DEF a, x

LEMMA StoreVolumeKeeps ==
  ASSUME EngineOK, NEW c \in Callers, StoreVolume(c)
  PROVE  EngineStep /\ BlocksStay
<1> DEFINE n == calls[c].name
           l == calls[c].devices
           volume == [devices |-> l, next |-> 1, stripes |-> {}]
<1>1. /\ calls[c].op = "create" /\ volumes' = Append(volumes, volume)
      /\ named' = Inserted(named, n, Len(volumes) + 1)
      /\ calls' = [calls EXCEPT ![c] = NoCall]
      /\ history' = [history EXCEPT !.gone = IF n \in DOMAIN named THEN @ \union {named[n]} ELSE @]
      /\ UNCHANGED <<bdevVars, permits, pools>>
  BY DEF StoreVolume, Is, Becomes
<1>2. n \in Names /\ l \in DeviceLists /\ Len(l) >= K + M
  BY <1>1, EngineFacts DEF CallOK
<1>3. volume \in VolumeStates /\ volume.devices = l /\ volume.next = 1 /\ volume.stripes = {}
  BY <1>2 DEF VolumeStates
<1> HIDE DEF volume
<1>4. volumes \in Seq(VolumeStates) /\ Len(volumes) \in Nat
  BY EngineFacts DEF VolumesOK
<1>5. /\ volumes' \in Seq(VolumeStates) /\ Len(volumes') = Len(volumes) + 1
      /\ volumes'[Len(volumes) + 1] = volume
      /\ \A v \in 1..Len(volumes) : volumes'[v] = volumes[v]
  BY <1>1, <1>3, <1>4
<1>6. VolumesGrow
  <2>1. \A v \in 1..Len(volumes) : volumes[v].next \in Nat
    BY <1>4, ListOfVolumes
  <2> QED
    BY <1>4, <1>5, <2>1 DEF VolumesGrow
<1>7. VolumesOK'
  <2>1. DOMAIN named' = DOMAIN named \union {n} /\ DOMAIN named' \subseteq Names
    BY <1>1, <1>2, EngineFacts DEF Inserted, VolumesOK
  <2>2. named' \in [DOMAIN named' -> 1..Len(volumes')]
    <3>1. ASSUME NEW k \in DOMAIN named \union {n}
          PROVE  (IF k = n THEN Len(volumes) + 1 ELSE named[k]) \in 1..Len(volumes')
      <4>1. CASE k = n
        BY <1>4, <1>5, <4>1
      <4>2. CASE k # n
        <5>1. named[k] \in 1..Len(volumes)
          BY <4>2, NamedIs
        <5> QED
          BY <1>4, <1>5, <4>2, <5>1
      <4> QED
        BY <4>1, <4>2
    <3> HIDE DEF n
    <3> QED
      BY <1>1, <3>1 DEF Inserted
  <2>3. ASSUME NEW v \in 1..Len(volumes')
        PROVE  /\ Len(volumes'[v].devices) >= K + M
               /\ volumes'[v].stripes \subseteq 1..(volumes'[v].next - 1)
    <3>1. CASE v = Len(volumes) + 1
      BY <1>2, <1>3, <1>5, <3>1
    <3>2. CASE v # Len(volumes) + 1
      <4>1. v \in 1..Len(volumes)
        BY <1>4, <1>5, <3>2
      <4> QED
        BY <1>5, <4>1, EngineFacts DEF VolumesOK
    <3> QED
      BY <3>1, <3>2
  <2> QED
    BY <1>5, <2>1, <2>2, <2>3 DEF VolumesOK
<1>8. history' \in Histories
  <2>1. PICK gone \in SUBSET Nat : gone = IF n \in DOMAIN named THEN history.gone \union {named[n]} ELSE history.gone
    <3>1. history.gone \in SUBSET Nat
      BY EngineFacts DEF Histories
    <3> QED
      BY <3>1, NamedIs
  <2>2. history' = [history EXCEPT !.gone = gone]
    BY <1>1, <2>1
  <2> QED
    BY <2>1, <2>2, EngineFacts, HistoryGrows
<1>9. DevicesOK' /\ DevicesGrow /\ BlocksStay
  BY <1>1, EngineFacts, DevicesStay
<1>10. CallOK(c)'
  BY <1>1, EngineFacts, CallValues, FreeCall
<1>11. EngineOK'
  BY <1>1, <1>6, <1>7, <1>8, <1>9, <1>10, EngineFacts, CallValues, CallChanges DEF bdevVars
<1> QED
  BY <1>6, <1>9, <1>11 DEF EngineStep

\* What one volume gives out and loses.
LEMMA VolumeChanges ==
  ASSUME VolumesOK, NEW v \in 1..Len(volumes), NEW x \in VolumeStates,
         volumes' = [volumes EXCEPT ![v] = x], named' = named,
         x.devices = volumes[v].devices, volumes[v].next <= x.next,
         x.stripes \subseteq 1..(x.next - 1)
  PROVE  /\ VolumesOK' /\ VolumesGrow /\ volumes'[v] = x /\ Len(volumes') = Len(volumes)
         /\ \A w \in 1..Len(volumes) : w # v => volumes'[w] = volumes[w]
<1>1. volumes \in Seq(VolumeStates) /\ Len(volumes) \in Nat
  BY DEF VolumesOK
<1>2. volumes' \in Seq(VolumeStates) /\ Len(volumes') = Len(volumes) /\ volumes'[v] = x
      /\ \A w \in 1..Len(volumes) : w # v => volumes'[w] = volumes[w]
  BY <1>1
<1>3. \A w \in 1..Len(volumes) : volumes[w].next \in Nat
  BY <1>1, ListOfVolumes
<1>4. VolumesGrow
  BY <1>1, <1>2, <1>3 DEF VolumesGrow
<1>5. VolumesOK'
  BY <1>2 DEF VolumesOK
<1> QED
  BY <1>2, <1>4, <1>5

\* What get and put do to a pool.
LEMMA PoolIs ==
  ASSUME NEW p \in PoolStates, NEW n \in Nat
  PROVE  /\ Take(p, n) \in PoolStates /\ Put(p, n) \in PoolStates
         /\ Take(p, n).free = (IF p.free >= n THEN p.free - n ELSE 0)
         /\ Take(p, n).made = p.made + (IF p.free >= n THEN 0 ELSE n - p.free)
         /\ Take(p, n).over = p.over /\ Take(p, n).cap = p.cap
         /\ Put(p, n).free = (IF p.cap <= p.free + n THEN p.cap ELSE p.free + n)
         /\ Put(p, n).over = p.over + (IF p.free + n >= p.cap THEN p.free + n - p.cap ELSE 0)
         /\ Put(p, n).made = p.made /\ Put(p, n).cap = p.cap
<1>1. /\ p.free \in Nat /\ p.made \in Nat /\ p.over \in Nat /\ p.cap \in Nat
  BY DEF PoolStates
<1>2. /\ Max({0, p.free - n}) = IF p.free >= n THEN p.free - n ELSE 0
  <2>1. Max({0, p.free - n}) = IF 0 >= p.free - n THEN 0 ELSE p.free - n
    BY <1>1, LargerOf
  <2> QED
    BY <1>1, <2>1
<1>3. Max({0, n - p.free}) = IF p.free >= n THEN 0 ELSE n - p.free
  <2>1. Max({0, n - p.free}) = IF 0 >= n - p.free THEN 0 ELSE n - p.free
    BY <1>1, LargerOf
  <2> QED
    BY <1>1, <2>1
<1>4. Min({p.cap, p.free + n}) = IF p.cap <= p.free + n THEN p.cap ELSE p.free + n
  BY <1>1, SmallerOf
<1>5. Max({0, p.free + n - p.cap}) = IF p.free + n >= p.cap THEN p.free + n - p.cap ELSE 0
  <2>1. Max({0, p.free + n - p.cap}) = IF 0 >= p.free + n - p.cap THEN 0 ELSE p.free + n - p.cap
    BY <1>1, LargerOf
  <2> QED
    BY <1>1, <2>1
<1>6. PICK rest \in Nat : rest = IF p.free >= n THEN p.free - n ELSE 0
  BY <1>1
<1>7. PICK made \in Nat : made = p.made + (IF p.free >= n THEN 0 ELSE n - p.free)
  BY <1>1
<1>8. PICK free \in Nat : free = IF p.cap <= p.free + n THEN p.cap ELSE p.free + n
  BY <1>1
<1>9. PICK over \in Nat : over = p.over + (IF p.free + n >= p.cap THEN p.free + n - p.cap ELSE 0)
  BY <1>1
<1>10. Take(p, n) = [p EXCEPT !.free = rest, !.made = made]
  BY <1>2, <1>3, <1>6, <1>7 DEF Take
<1>11. Put(p, n) = [p EXCEPT !.free = free, !.over = over]
  BY <1>4, <1>5, <1>8, <1>9 DEF Put
<1>12. /\ Take(p, n) \in PoolStates /\ Take(p, n).free = rest /\ Take(p, n).made = made
       /\ Take(p, n).over = p.over /\ Take(p, n).cap = p.cap
  BY <1>10 DEF PoolStates
<1>13. /\ Put(p, n) \in PoolStates /\ Put(p, n).free = free /\ Put(p, n).over = over
       /\ Put(p, n).made = p.made /\ Put(p, n).cap = p.cap
  BY <1>11 DEF PoolStates
<1> QED
  BY <1>6, <1>7, <1>8, <1>9, <1>12, <1>13

LEMMA PoolsChange ==
  ASSUME pools \in [data : PoolStates, parity : PoolStates]
  PROVE  /\ pools.data \in PoolStates /\ pools.parity \in PoolStates
         /\ TakeShards \in [data : PoolStates, parity : PoolStates]
         /\ release_shards \in [data : PoolStates, parity : PoolStates]
<1>2. pools.data \in PoolStates /\ pools.parity \in PoolStates
  OBVIOUS
<1>3. K \in Nat /\ M \in Nat
  BY EngineNumbers
<1> QED
  BY PoolIs, <1>2, <1>3 DEF TakeShards, release_shards


LEMMA EncodeKeeps ==
  ASSUME EngineOK, NEW c \in Callers, Encode(c)
  PROVE  EngineStep /\ BlocksStay
<1>0. PICK v \in 1..Len(volumes) : v = calls[c].vol
  BY EngineFacts DEF Encode, Is, CallOK
<1>s. PICK s \in Nat : s = volumes[v].next
  BY EngineFacts, ListOfVolumes DEF VolumesOK
<1> DEFINE call == [calls[c] EXCEPT !.op = "write", !.stripe = s]
           x == [volumes[v] EXCEPT !.next = s + 1]
<1>1. /\ calls[c].op = "encode" /\ permits > 0 /\ permits' = permits - 1 /\ pools' = TakeShards
      /\ volumes' = [volumes EXCEPT ![v].next = @ + 1]
      /\ ShardIo(c, call, v, 1) /\ UNCHANGED <<named, history>>
  BY <1>0, <1>s DEF Encode, Is
<1>2. v \in 1..Len(volumes)
  OBVIOUS
<1>3. volumes \in Seq(VolumeStates) /\ volumes[v] \in VolumeStates /\ s \in Nat /\ s > 0
      /\ volumes[v].stripes \subseteq 1..(s - 1) /\ calls[c] \in CallStates
  BY <1>2, <1>s, EngineFacts, ListOfVolumes DEF VolumesOK
<1>4. x \in VolumeStates /\ x.next = s + 1 /\ x.devices = volumes[v].devices /\ x.stripes = volumes[v].stripes
  <2>1. s + 1 \in Nat \ {0}
    BY <1>3
  <2>2. PICK old \in VolumeStates : old = volumes[v]
    BY <1>3
  <2>3. PICK n \in Nat \ {0} : n = s + 1
    BY <2>1
  <2>4. PICK y \in VolumeStates : y = [old EXCEPT !.next = n]
    BY DEF VolumeStates
  <2>5. y.next = n /\ y.devices = old.devices /\ y.stripes = old.stripes
    BY <2>4 DEF VolumeStates
  <2> QED
    BY <2>2, <2>3, <2>4, <2>5
<1>5. volumes' = [volumes EXCEPT ![v] = x]
  BY <1>1, <1>2, <1>3, <1>s
<1>6. call \in CallStates /\ call.op = "write" /\ call.stripe = s /\ call.vol = v
  BY <1>0, <1>3 DEF CallStates
<1> HIDE DEF x, call
<1>7. x.stripes \subseteq 1..(x.next - 1) /\ volumes[v].next <= x.next
  <2>1. ASSUME NEW i \in x.stripes PROVE i \in 1..(x.next - 1)
    BY <1>3, <1>4
  <2> QED
    BY <1>3, <1>4, <1>s, <2>1
<1>8. VolumesOK' /\ VolumesGrow /\ volumes'[v] = x /\ Len(volumes') = Len(volumes)
  BY <1>1, <1>2, <1>4, <1>5, <1>7, EngineFacts, VolumeChanges
<1>9. 1 \in ShardIndices
  BY EngineNumbers
<1>10. PICK a \in CallStates :
           /\ calls' = [calls EXCEPT ![c] = a]
           /\ a.next = 1 /\ a.op = call.op /\ a.vol = call.vol /\ a.stripe = call.stripe
           /\ DevicesOK' /\ DevicesGrow /\ BlocksStay
           /\ io'[c] = Starts(device_for_shard(v, 1))
           /\ \A e \in Callers \ {c} : io'[e] = io[e]
  BY <1>1, <1>2, <1>6, <1>9, ShardIoIs
<1>11. CallOK(c)'
  <2>1. calls'[c] = a
    BY <1>10, EngineFacts
  <2>2. a.stripe \in 1..(volumes'[a.vol].next - 1)
    BY <1>3, <1>4, <1>6, <1>8, <1>10
  <2>3. io'[c].device = device_for_shard(v, 1)
    BY <1>2, <1>9, <1>10, IoValues, EngineFacts, DeviceIs
  <2>4. device_for_shard(v, 1)' = device_for_shard(v, 1)
    BY <1>4, <1>8 DEF device_for_shard
  <2>5. device_for_shard(a.vol, a.next)' = device_for_shard(v, 1)'
    BY <1>6, <1>10 DEF device_for_shard
  <2> QED
    BY <1>2, <1>6, <1>8, <1>10, <2>1, <2>2, <2>3, <2>4, <2>5, ShardCall
<1>12. permits' \in Nat /\ pools' \in [data : PoolStates, parity : PoolStates] /\ history' \in Histories
  BY <1>1, EngineFacts, PoolsChange
<1>13. EngineOK'
  BY <1>8, <1>10, <1>11, <1>12, CallChanges
<1> QED
  BY <1>8, <1>10, <1>13 DEF EngineStep

\* The first error ends a write.
LEMMA WriteFailsKeeps ==
  ASSUME EngineOK, NEW c \in Callers, WriteFails(c)
  PROVE  EngineStep /\ BlocksStay
<1>1. /\ permits' = permits + 1 /\ history' = [history EXCEPT !.dropped = history.dropped + 1]
      /\ calls' = [calls EXCEPT ![c] = NoCall] /\ io' = [io EXCEPT ![c] = NoIo]
      /\ UNCHANGED <<devices, handles, stores, faulty, volumes, named, pools>>
  BY DEF WriteFails, Ends, Becomes
<1>2. DevicesOK' /\ DevicesGrow /\ BlocksStay /\ \A e \in Callers \ {c} : io'[e] = io[e]
  BY <1>1, EndIo
<1>3. VolumesOK' /\ VolumesGrow
  BY <1>1, EngineFacts, VolumesStay
<1>4. CallOK(c)'
  BY <1>1, EngineFacts, CallValues, FreeCall
<1>5. history' \in Histories
  <2>1. history.dropped + 1 \in Nat
    BY EngineFacts
  <2> QED
    BY <1>1, <2>1, EngineFacts, HistoryGrows
<1>6. permits' \in Nat /\ pools' \in [data : PoolStates, parity : PoolStates]
  BY <1>1, EngineFacts
<1>7. EngineOK'
  BY <1>1, <1>2, <1>3, <1>4, <1>5, <1>6, CallValues, CallChanges
<1> QED
  BY <1>2, <1>3, <1>7 DEF EngineStep

\* A call goes on with its next shard, or with what comes after the last.
LEMMA NextShard ==
  ASSUME EngineOK, NEW c \in Callers, NEW call \in CallStates, call.vol \in 1..Len(volumes),
         NEW last \in CallStates,
         IF call.next < K + M
           THEN /\ Becomes(c, [call EXCEPT !.next = @ + 1])
                /\ io' = [io EXCEPT ![c] = Starts(device_for_shard(call.vol, call.next + 1))]
           ELSE Becomes(c, last) /\ io' = [io EXCEPT ![c] = NoIo]
  PROVE  \E a \in CallStates : \E x \in IoStates :
           /\ calls' = [calls EXCEPT ![c] = a] /\ io' = [io EXCEPT ![c] = x]
           /\ calls'[c] = a /\ io'[c] = x /\ \A e \in Callers \ {c} : io'[e] = io[e]
           /\ x.at \notin {"opened", "mark"} /\ x.handle = NoHandle
           /\ \/ /\ call.next < K + M /\ a = [call EXCEPT !.next = call.next + 1]
                 /\ call.next + 1 \in ShardIndices
                 /\ a.next = call.next + 1 /\ a.op = call.op /\ a.vol = call.vol
                 /\ a.stripe = call.stripe /\ a.shards = call.shards /\ a.erased = call.erased
                 /\ a.name = call.name /\ a.todo = call.todo /\ a.worst = call.worst
                 /\ x.at = "open" /\ x.device = device_for_shard(call.vol, call.next + 1)
              \/ call.next = K + M /\ a = last /\ x = NoIo
<1>1. calls \in [Callers -> CallStates] /\ io \in [Callers -> IoStates] /\ call.next \in ShardIndices
  BY EngineFacts DEF CallStates
<1>2. call.next \in Nat /\ 1 <= call.next /\ call.next <= K + M /\ K + M \in Nat
  BY <1>1, EngineNumbers
<1>3. CASE call.next < K + M
  <2> DEFINE a == [call EXCEPT !.next = call.next + 1]
             x == Starts(device_for_shard(call.vol, call.next + 1))
  <2>1. call.next + 1 \in ShardIndices
    BY <1>2, <1>3, EngineNumbers
  <2>2. /\ a \in CallStates /\ a.next = call.next + 1 /\ a.op = call.op /\ a.vol = call.vol
        /\ a.stripe = call.stripe /\ a.shards = call.shards /\ a.erased = call.erased
        /\ a.name = call.name /\ a.todo = call.todo /\ a.worst = call.worst
    BY <2>1 DEF CallStates
  <2>3. device_for_shard(call.vol, call.next + 1) \in Devices
    BY <2>1, EngineFacts, DeviceIs
  <2>4. x \in IoStates /\ x.at = "open" /\ x.handle = NoHandle
        /\ x.device = device_for_shard(call.vol, call.next + 1)
    BY <2>3, IoValues
  <2>5. calls' = [calls EXCEPT ![c] = a] /\ io' = [io EXCEPT ![c] = x]
    BY <1>3 DEF Becomes
  <2> HIDE DEF x
  <2>6. calls'[c] = a /\ io'[c] = x /\ \A e \in Callers \ {c} : io'[e] = io[e]
    BY <1>1, <2>5
  <2>7. x.at \notin {"opened", "mark"}
    BY <2>4
  <2> QED
    BY <1>3, <2>1, <2>2, <2>4, <2>5, <2>6, <2>7
<1>4. CASE ~(call.next < K + M)
  <2>1. call.next = K + M
    BY <1>2, <1>4
  <2>2. calls' = [calls EXCEPT ![c] = last] /\ io' = [io EXCEPT ![c] = NoIo]
    BY <1>4 DEF Becomes
  <2>3. calls'[c] = last /\ io'[c] = NoIo /\ \A e \in Callers \ {c} : io'[e] = io[e]
    BY <1>1, <2>2
  <2> QED
    BY <2>1, <2>2, <2>3, IoValues
<1> QED
  BY <1>3, <1>4


\* The call after the next shard of it was written.
LEMMA WriteShardIs ==
  ASSUME EngineOK, NEW c \in Callers, WriteShard(c)
  PROVE  \E a \in CallStates : \E x \in IoStates :
           /\ calls' = [calls EXCEPT ![c] = a] /\ io' = [io EXCEPT ![c] = x]
           /\ calls'[c] = a /\ io'[c] = x /\ \A e \in Callers \ {c} : io'[e] = io[e]
           /\ x.at \notin {"opened", "mark"} /\ x.handle = NoHandle
           /\ a.vol = calls[c].vol /\ a.stripe = calls[c].stripe
           /\ a.vol \in 1..Len(volumes) /\ a.stripe \in 1..(volumes[a.vol].next - 1)
           /\ \/ /\ calls[c].next < K + M /\ a.op = "write" /\ a.next = calls[c].next + 1
                 /\ calls[c].next + 1 \in ShardIndices
                 /\ x.at = "open" /\ x.device = device_for_shard(a.vol, a.next)
              \/ calls[c].next = K + M /\ a.op = "store" /\ x = NoIo
<1>1. PICK call \in CallStates : call = calls[c]
  BY EngineFacts
<1> DEFINE last == [call EXCEPT !.op = "store"]
<1>2. last \in CallStates /\ last.op = "store" /\ last.vol = call.vol /\ last.stripe = call.stripe
  BY DEF CallStates
<1>3. /\ call.op = "write" /\ call.vol \in 1..Len(volumes)
      /\ call.stripe \in 1..(volumes[call.vol].next - 1)
  BY <1>1, EngineFacts DEF WriteShard, Is, CallOK, Writing
<1>4. IF call.next < K + M
        THEN /\ Becomes(c, [call EXCEPT !.next = @ + 1])
             /\ io' = [io EXCEPT ![c] = Starts(device_for_shard(call.vol, call.next + 1))]
        ELSE Becomes(c, last) /\ io' = [io EXCEPT ![c] = NoIo]
  BY <1>1 DEF WriteShard
<1> HIDE DEF last
<1>5. PICK a \in CallStates, x \in IoStates :
           /\ calls' = [calls EXCEPT ![c] = a] /\ io' = [io EXCEPT ![c] = x]
           /\ calls'[c] = a /\ io'[c] = x /\ \A e \in Callers \ {c} : io'[e] = io[e]
           /\ x.at \notin {"opened", "mark"} /\ x.handle = NoHandle
           /\ \/ /\ call.next < K + M /\ a = [call EXCEPT !.next = call.next + 1]
                 /\ call.next + 1 \in ShardIndices
                 /\ a.next = call.next + 1 /\ a.op = call.op /\ a.vol = call.vol
                 /\ a.stripe = call.stripe /\ a.shards = call.shards /\ a.erased = call.erased
                 /\ a.name = call.name /\ a.todo = call.todo /\ a.worst = call.worst
                 /\ x.at = "open" /\ x.device = device_for_shard(call.vol, call.next + 1)
              \/ call.next = K + M /\ a = last /\ x = NoIo
  BY <1>2, <1>3, <1>4, NextShard
<1>6. /\ a.vol = call.vol /\ a.stripe = call.stripe
      /\ \/ /\ call.next < K + M /\ a.op = "write" /\ a.next = call.next + 1
            /\ call.next + 1 \in ShardIndices
            /\ x.at = "open" /\ x.device = device_for_shard(a.vol, a.next)
         \/ call.next = K + M /\ a.op = "store" /\ x = NoIo
  BY <1>2, <1>3, <1>5
<1> QED
  BY <1>1, <1>3, <1>5, <1>6

\* What is written, and where.
LEMMA WriteShardStores ==
  ASSUME EngineOK, NEW c \in Callers, WriteShard(c)
  PROVE  /\ calls[c].stripe \in Slots /\ io[c].at = "opened" /\ calls[c].op = "write"
         /\ Shard(calls[c].vol, calls[c].stripe, calls[c].next) \in BlockContents
         /\ stores' = Written(c, calls[c].stripe, Shard(calls[c].vol, calls[c].stripe, calls[c].next))
         /\ calls[c].next \in ShardIndices
         /\ io[c].device = device_for_shard(calls[c].vol, calls[c].next)
<1>1. calls[c] \in CallStates /\ CallOK(c)
  BY EngineFacts
<1>2. /\ calls[c].vol \in Nat /\ calls[c].stripe \in Nat /\ calls[c].next \in ShardIndices
      /\ calls[c].next \in Nat
  BY <1>1, EngineNumbers DEF CallStates
<1>3. Shard(calls[c].vol, calls[c].stripe, calls[c].next) \in BlockContents
  BY <1>2 DEF Shard, BlockContents
<1> QED
  BY <1>1, <1>2, <1>3 DEF WriteShard, Succeeds, Is, CallOK

LEMMA WriteShardKeeps ==
  ASSUME EngineOK, NEW c \in Callers, WriteShard(c)
  PROVE  EngineStep
<1>1. PICK a \in CallStates, x \in IoStates :
           /\ calls' = [calls EXCEPT ![c] = a] /\ io' = [io EXCEPT ![c] = x]
           /\ calls'[c] = a /\ io'[c] = x /\ \A e \in Callers \ {c} : io'[e] = io[e]
           /\ x.at \notin {"opened", "mark"} /\ x.handle = NoHandle
           /\ a.vol = calls[c].vol /\ a.stripe = calls[c].stripe
           /\ a.vol \in 1..Len(volumes) /\ a.stripe \in 1..(volumes[a.vol].next - 1)
           /\ \/ /\ calls[c].next < K + M /\ a.op = "write" /\ a.next = calls[c].next + 1
                 /\ calls[c].next + 1 \in ShardIndices
                 /\ x.at = "open" /\ x.device = device_for_shard(a.vol, a.next)
              \/ calls[c].next = K + M /\ a.op = "store" /\ x = NoIo
  BY WriteShardIs
<1>2. UNCHANGED <<devices, handles, faulty, volumes, named, permits, pools, history>>
  BY DEF WriteShard
<1>3. DevicesOK' /\ DevicesGrow
  <2>1. PICK offset \in Slots, shard \in BlockContents : stores' = Written(c, offset, shard)
    BY WriteShardStores
  <2>2. io[c].at = "opened" /\ DevicesOK
    BY WriteShardStores, EngineFacts
  <2> QED
    BY <1>1, <1>2, <2>1, <2>2, WriteDevices
<1>4. VolumesOK' /\ VolumesGrow
  BY <1>2, EngineFacts, VolumesStay
<1>5. CallOK(c)'
  <2>1. CASE a.op = "write"
    <3>1. device_for_shard(a.vol, a.next)' = device_for_shard(a.vol, a.next)
      BY <1>2 DEF device_for_shard
    <3> QED
      BY <1>1, <1>2, <2>1, <3>1, ShardCall
  <2>2. CASE a.op = "store"
    BY <1>1, <1>2, <2>2, VolumeCall
  <2> QED
    BY <1>1, <2>1, <2>2
<1>6. EngineOK'
  BY <1>1, <1>2, <1>3, <1>4, <1>5, EngineFacts, CallChanges
<1> QED
  BY <1>3, <1>4, <1>6 DEF EngineStep

LEMMA StoreMetadataKeeps ==
  ASSUME EngineOK, NEW c \in Callers, StoreMetadata(c)
  PROVE  EngineStep /\ BlocksStay
<1>0. PICK v \in 1..Len(volumes) : v = calls[c].vol
  BY EngineFacts DEF StoreMetadata, Is, CallOK, Writing
<1>1. PICK s \in 1..(volumes[v].next - 1) : s = calls[c].stripe
  BY <1>0, EngineFacts DEF StoreMetadata, Is, CallOK, Writing
<1>2. /\ volumes' = [volumes EXCEPT ![v].stripes = @ \union {s}]
      /\ pools' = release_shards /\ permits' = permits + 1 /\ calls' = [calls EXCEPT ![c] = NoCall]
      /\ UNCHANGED <<bdevVars, named, history>>
  BY <1>0, <1>1 DEF StoreMetadata, Becomes
<1>3. volumes \in Seq(VolumeStates) /\ volumes[v] \in VolumeStates /\ volumes[v].next \in Nat
      /\ volumes[v].stripes \subseteq 1..(volumes[v].next - 1) /\ volumes[v].stripes \in SUBSET Nat
  BY EngineFacts, ListOfVolumes DEF VolumesOK
<1>4. PICK stripes \in SUBSET Nat : stripes = volumes[v].stripes \union {s}
  <2>1. s \in Nat
    BY <1>3
  <2>2. volumes[v].stripes \union {s} \in SUBSET Nat
    BY <1>3, <2>1
  <2> QED
    BY <2>2
<1> DEFINE x == [volumes[v] EXCEPT !.stripes = stripes]
<1>5. x \in VolumeStates /\ x.next = volumes[v].next /\ x.devices = volumes[v].devices /\ x.stripes = stripes
  BY <1>3 DEF VolumeStates
<1>6. volumes' = [volumes EXCEPT ![v] = x]
  BY <1>2, <1>3, <1>4
<1> HIDE DEF x
<1>7. x.stripes \subseteq 1..(x.next - 1) /\ volumes[v].next <= x.next
  BY <1>3, <1>4, <1>5
<1>8. VolumesOK' /\ VolumesGrow
  BY <1>2, <1>5, <1>6, <1>7, EngineFacts, VolumeChanges
<1>9. DevicesOK' /\ DevicesGrow /\ BlocksStay
  BY <1>2, EngineFacts, DevicesStay
<1>10. CallOK(c)'
  BY <1>2, EngineFacts, CallValues, FreeCall
<1>11. permits' \in Nat /\ pools' \in [data : PoolStates, parity : PoolStates] /\ history' \in Histories
  BY <1>2, EngineFacts, PoolsChange
<1>12. EngineOK'
  BY <1>2, <1>8, <1>9, <1>10, <1>11, CallValues, CallChanges DEF bdevVars
<1> QED
  BY <1>8, <1>9, <1>12 DEF EngineStep

LEMMA LocateKeeps ==
  ASSUME EngineOK, NEW c \in Callers, Locate(c)
  PROVE  EngineStep /\ BlocksStay
<1>0. PICK old \in CallStates : old = calls[c]
  BY EngineFacts
<1>1. PICK call \in CallStates : call = [calls[c] EXCEPT !.op = "read"] /\ call.op = "read"
        /\ call.vol = calls[c].vol /\ call.stripe = calls[c].stripe
  <2> DEFINE a == [old EXCEPT !.op = "read"]
  <2>1. a \in CallStates /\ a.op = "read" /\ a.vol = old.vol /\ a.stripe = old.stripe
    BY DEF CallStates
  <2> QED
    BY <1>0, <2>1
<1>2. /\ calls[c].op = "locate" /\ permits > 0 /\ permits' = permits - 1
      /\ ShardIo(c, call, call.vol, 1) /\ UNCHANGED <<volumes, named, pools, history>>
  BY <1>1 DEF Locate, Is
<1>3. call.vol \in 1..Len(volumes) /\ call.stripe \in 1..(volumes[call.vol].next - 1)
  BY <1>1, <1>2, EngineFacts DEF CallOK, Reading
<1>4. 1 \in ShardIndices
  BY EngineNumbers
<1>5. PICK a \in CallStates :
           /\ calls' = [calls EXCEPT ![c] = a] /\ a.next = 1 /\ a.op = call.op /\ a.vol = call.vol
           /\ a.stripe = call.stripe /\ DevicesOK' /\ DevicesGrow /\ BlocksStay
           /\ io'[c] = Starts(device_for_shard(call.vol, 1))
           /\ \A e \in Callers \ {c} : io'[e] = io[e]
  BY <1>2, <1>3, <1>4, ShardIoIs
<1>6. VolumesOK' /\ VolumesGrow
  BY <1>2, EngineFacts, VolumesStay
<1>7. CallOK(c)'
  <2>1. calls'[c] = a
    BY <1>5, EngineFacts
  <2>2. io'[c].device = device_for_shard(call.vol, 1)
    BY <1>3, <1>4, <1>5, IoValues, EngineFacts, DeviceIs
  <2>3. device_for_shard(a.vol, a.next)' = device_for_shard(call.vol, 1)
    BY <1>2, <1>5 DEF device_for_shard
  <2> QED
    BY <1>1, <1>2, <1>3, <1>5, <2>1, <2>2, <2>3, ShardCall
<1>8. permits' \in Nat
  BY <1>2, EngineFacts
<1>9. EngineOK'
  BY <1>2, <1>5, <1>6, <1>7, <1>8, EngineFacts, CallChanges
<1> QED
  BY <1>5, <1>6, <1>9 DEF EngineStep

LEMMA FetchedIs ==
  ASSUME EngineOK, NEW c \in Callers, calls[c].op = "read", Done(c)
  PROVE  LET old == calls[c]
             new == Fetched(c, old)
         IN
         /\ new \in CallStates /\ new.op = "read" /\ new.vol = old.vol /\ new.stripe = old.stripe
         /\ new.next = old.next
         /\ Succeeds(c, old.stripe) =>
              /\ Content(c, old.stripe) \in BlockContents
              /\ new.shards = Append(old.shards, Content(c, old.stripe)) /\ new.erased = old.erased
         /\ ~Succeeds(c, old.stripe) =>
              new.shards = Append(old.shards, Zeros) /\ new.erased = old.erased \union {old.next}
<1>1. PICK old \in CallStates : old = calls[c]
  BY EngineFacts
<1>2. old.shards \in Seq(BlockContents) /\ old.next \in ShardIndices /\ old.erased \in SUBSET ShardIndices
  BY DEF CallStates
<1>3. CASE Succeeds(c, old.stripe)
  <2>1. io[c].handle \in HandleIds /\ old.stripe \in Offsets
    BY <1>3, EngineFacts, BlockDeviceAssumption DEF Succeeds, DevicesOK, IoOK
  <2>2. stores[io[c].handle] \in Handles
    BY <2>1, EngineFacts, StoreFacts
  <2>3. Content(c, old.stripe) \in BlockContents
    BY <2>1, <2>2 DEF Content, Handles
  <2>4. PICK shards \in Seq(BlockContents) : shards = Append(old.shards, Content(c, old.stripe))
    <3>1. PICK block \in BlockContents : block = Content(c, old.stripe)
      BY <2>3
    <3>2. Append(old.shards, block) \in Seq(BlockContents)
      BY <1>2
    <3> QED
      BY <3>1, <3>2
  <2>5. Fetched(c, old) = [old EXCEPT !.shards = shards]
    BY <1>3, <2>4 DEF Fetched
  <2>6. PICK new \in CallStates : new = Fetched(c, old)
    BY <2>5 DEF CallStates
  <2>7. /\ new.op = old.op /\ new.vol = old.vol /\ new.stripe = old.stripe
        /\ new.next = old.next /\ new.shards = shards /\ new.erased = old.erased
    BY <2>5, <2>6 DEF CallStates
  <2> QED
    BY <1>1, <1>3, <2>3, <2>4, <2>6, <2>7, Zenon
<1>4. CASE ~Succeeds(c, old.stripe)
  <2>1. PICK shards \in Seq(BlockContents) : shards = Append(old.shards, Zeros)
    <3>1. Zeros \in BlockContents
      BY DEF BlockContents
    <3>2. Append(old.shards, Zeros) \in Seq(BlockContents)
      BY <1>2, <3>1
    <3> QED
      BY <3>2
  <2>2. PICK erased \in SUBSET ShardIndices : erased = old.erased \union {old.next}
    BY <1>2
  <2>3. Fetched(c, old) = [old EXCEPT !.shards = shards, !.erased = erased]
    BY <1>4, <2>1, <2>2 DEF Fetched
  <2>4. PICK new \in CallStates : new = Fetched(c, old)
    BY <2>3 DEF CallStates
  <2>5. /\ new.op = old.op /\ new.vol = old.vol /\ new.stripe = old.stripe
        /\ new.next = old.next /\ new.shards = shards /\ new.erased = erased
    BY <2>3, <2>4 DEF CallStates
  <2> QED
    BY <1>1, <1>4, <2>1, <2>2, <2>4, <2>5, Zenon
<1> QED
  BY <1>3, <1>4


\* The call after the next shard of it was read.
LEMMA ReadShardIs ==
  ASSUME EngineOK, NEW c \in Callers, ReadShard(c)
  PROVE  LET new == Fetched(c, calls[c]) IN
         \E a \in CallStates : \E x \in IoStates :
           /\ calls' = [calls EXCEPT ![c] = a] /\ io' = [io EXCEPT ![c] = x]
           /\ calls'[c] = a /\ io'[c] = x /\ \A e \in Callers \ {c} : io'[e] = io[e]
           /\ x.at \notin {"opened", "mark"} /\ x.handle = NoHandle
           /\ a.vol = calls[c].vol /\ a.stripe = calls[c].stripe
           /\ a.vol \in 1..Len(volumes) /\ a.stripe \in 1..(volumes[a.vol].next - 1)
           /\ a.shards = new.shards /\ a.erased = new.erased
           /\ \/ /\ calls[c].next < K + M /\ a.op = "read" /\ a.next = calls[c].next + 1
                 /\ calls[c].next + 1 \in ShardIndices
                 /\ x.at = "open" /\ x.device = device_for_shard(a.vol, a.next)
              \/ calls[c].next = K + M /\ a.op = "decode" /\ x = NoIo
<1>0. calls[c].op = "read" /\ Done(c)
  BY DEF ReadShard, Is
<1>1. PICK call \in CallStates : call = Fetched(c, calls[c])
  BY <1>0, FetchedIs
<1>2. /\ call.op = "read" /\ call.vol = calls[c].vol /\ call.stripe = calls[c].stripe
      /\ call.next = calls[c].next
  BY <1>0, <1>1, FetchedIs
<1> DEFINE last == [call EXCEPT !.op = "decode"]
<1>3. last \in CallStates /\ last.op = "decode" /\ last.vol = call.vol /\ last.stripe = call.stripe
      /\ last.shards = call.shards /\ last.erased = call.erased
  BY DEF CallStates
<1>4. /\ call.vol \in 1..Len(volumes) /\ call.stripe \in 1..(volumes[call.vol].next - 1)
  BY <1>0, <1>2, EngineFacts DEF CallOK, Reading
<1>5. IF call.next < K + M
        THEN /\ Becomes(c, [call EXCEPT !.next = @ + 1])
             /\ io' = [io EXCEPT ![c] = Starts(device_for_shard(call.vol, call.next + 1))]
        ELSE Becomes(c, last) /\ io' = [io EXCEPT ![c] = NoIo]
  BY <1>1 DEF ReadShard
<1> HIDE DEF last
<1>6. PICK a \in CallStates, x \in IoStates :
           /\ calls' = [calls EXCEPT ![c] = a] /\ io' = [io EXCEPT ![c] = x]
           /\ calls'[c] = a /\ io'[c] = x /\ \A e \in Callers \ {c} : io'[e] = io[e]
           /\ x.at \notin {"opened", "mark"} /\ x.handle = NoHandle
           /\ \/ /\ call.next < K + M /\ a = [call EXCEPT !.next = call.next + 1]
                 /\ call.next + 1 \in ShardIndices
                 /\ a.next = call.next + 1 /\ a.op = call.op /\ a.vol = call.vol
                 /\ a.stripe = call.stripe /\ a.shards = call.shards /\ a.erased = call.erased
                 /\ a.name = call.name /\ a.todo = call.todo /\ a.worst = call.worst
                 /\ x.at = "open" /\ x.device = device_for_shard(call.vol, call.next + 1)
              \/ call.next = K + M /\ a = last /\ x = NoIo
  BY <1>3, <1>4, <1>5, NextShard
<1>7. /\ a.vol = call.vol /\ a.stripe = call.stripe
      /\ a.shards = call.shards /\ a.erased = call.erased
      /\ \/ /\ call.next < K + M /\ a.op = "read" /\ a.next = call.next + 1
            /\ call.next + 1 \in ShardIndices
            /\ x.at = "open" /\ x.device = device_for_shard(a.vol, a.next)
         \/ call.next = K + M /\ a.op = "decode" /\ x = NoIo
  BY <1>2, <1>3, <1>6
<1> QED
  BY <1>1, <1>2, <1>4, <1>6, <1>7

LEMMA ReadShardKeeps ==
  ASSUME EngineOK, NEW c \in Callers, ReadShard(c)
  PROVE  EngineStep /\ BlocksStay
<1>1. PICK a \in CallStates, x \in IoStates :
           /\ calls' = [calls EXCEPT ![c] = a] /\ io' = [io EXCEPT ![c] = x]
           /\ calls'[c] = a /\ io'[c] = x /\ \A e \in Callers \ {c} : io'[e] = io[e]
           /\ x.at \notin {"opened", "mark"} /\ x.handle = NoHandle
           /\ a.vol \in 1..Len(volumes) /\ a.stripe \in 1..(volumes[a.vol].next - 1)
           /\ \/ /\ a.op = "read"
                 /\ x.at = "open" /\ x.device = device_for_shard(a.vol, a.next)
              \/ a.op = "decode" /\ x = NoIo
  BY ReadShardIs
<1>2. UNCHANGED <<devices, handles, stores, faulty, volumes, named, permits, pools, history>>
  BY DEF ReadShard
<1>3. DevicesOK' /\ DevicesGrow /\ BlocksStay
  BY <1>1, <1>2, EngineFacts, IoChanges
<1>4. VolumesOK' /\ VolumesGrow
  BY <1>2, EngineFacts, VolumesStay
<1>5. CallOK(c)'
  <2>1. CASE a.op = "read"
    <3>1. device_for_shard(a.vol, a.next)' = device_for_shard(a.vol, a.next)
      BY <1>2 DEF device_for_shard
    <3> QED
      BY <1>1, <1>2, <2>1, <3>1, ShardCall
  <2>2. CASE a.op = "decode"
    BY <1>1, <1>2, <2>2, VolumeCall
  <2> QED
    BY <1>1, <2>1, <2>2
<1>6. EngineOK'
  BY <1>1, <1>2, <1>3, <1>4, <1>5, EngineFacts, CallChanges
<1> QED
  BY <1>3, <1>4, <1>6 DEF EngineStep

LEMMA DecodeKeeps ==
  ASSUME EngineOK, NEW c \in Callers, Decode(c)
  PROVE  EngineStep /\ BlocksStay
<1>1. /\ permits' = permits + 1 /\ calls' = [calls EXCEPT ![c] = NoCall]
      /\ UNCHANGED <<bdevVars, volumes, named, pools, history>>
  BY DEF Decode, Becomes
<1>2. DevicesOK' /\ DevicesGrow /\ BlocksStay
  BY <1>1, EngineFacts, DevicesStay
<1>3. VolumesOK' /\ VolumesGrow
  BY <1>1, EngineFacts, VolumesStay
<1>4. CallOK(c)'
  BY <1>1, EngineFacts, CallValues, FreeCall
<1>5. permits' \in Nat
  BY <1>1, EngineFacts
<1>6. EngineOK'
  BY <1>1, <1>2, <1>3, <1>4, <1>5, EngineFacts, CallValues, CallChanges DEF bdevVars
<1> QED
  BY <1>2, <1>3, <1>6 DEF EngineStep

LEMMA ReportKeeps ==
  ASSUME EngineOK, NEW c \in Callers, Report(c)
  PROVE  EngineStep /\ BlocksStay
<1>1. /\ calls' = [calls EXCEPT ![c] = NoCall]
      /\ UNCHANGED <<bdevVars, volumes, named, permits, pools, history>>
  BY DEF Report, Becomes
<1>2. DevicesOK' /\ DevicesGrow /\ BlocksStay
  BY <1>1, EngineFacts, DevicesStay
<1>3. VolumesOK' /\ VolumesGrow
  BY <1>1, EngineFacts, VolumesStay
<1>4. CallOK(c)'
  BY <1>1, EngineFacts, CallValues, FreeCall
<1>5. EngineOK'
  BY <1>1, <1>2, <1>3, <1>4, EngineFacts, CallValues, CallChanges DEF bdevVars
<1> QED
  BY <1>2, <1>3, <1>5 DEF EngineStep

\* The call after it has taken up a stripe: it checks the first shard, or the stripe
\* was gone.
LEMMA BeginStripeIs ==
  ASSUME EngineOK, NEW c \in Callers, BeginStripe(c)
  PROVE  \E s \in calls[c].todo : \E a \in CallStates :
           /\ calls' = [calls EXCEPT ![c] = a] /\ calls'[c] = a
           /\ a.name = calls[c].name /\ a.todo = calls[c].todo \ {s} /\ a.erased = {}
           /\ DevicesOK' /\ DevicesGrow /\ BlocksStay
           /\ \A e \in Callers \ {c} : io'[e] = io[e]
           /\ UNCHANGED <<devices, handles, stores, faulty>>
           /\ \/ /\ calls[c].name \in DOMAIN named /\ s \in volumes[named[calls[c].name]].stripes
                 /\ a.op = "check" /\ a.vol = named[calls[c].name] /\ a.stripe = s /\ a.next = 1
                 /\ a.worst = calls[c].worst
                 /\ io'[c] = Starts(device_for_shard(a.vol, 1))
              \/ /\ ~(calls[c].name \in DOMAIN named /\ s \in volumes[named[calls[c].name]].stripes)
                 /\ a.op = "health" /\ a.worst = "Critical" /\ io' = io
<1>1. PICK old \in CallStates : old = calls[c] /\ old.op = "health"
  BY EngineFacts DEF BeginStripe, Is
<1>2. PICK s \in old.todo :
    LET n == old.name
        call == [old EXCEPT !.todo = @ \ {s}, !.erased = {}]
    IN
    /\ IF n \in DOMAIN named /\ s \in volumes[named[n]].stripes
         THEN ShardIo(c, [call EXCEPT !.op = "check", !.vol = named[n], !.stripe = s],
                      named[n], 1)
         ELSE /\ Becomes(c, [call EXCEPT !.worst = "Critical"])
              /\ UNCHANGED bdevVars
    /\ UNCHANGED <<volumes, named, permits, pools, history>>
  BY <1>1 DEF BeginStripe
<1>3. old.todo \in SUBSET Nat /\ s \in Nat
  BY DEF CallStates
<1>4. PICK todo \in SUBSET Nat : todo = old.todo \ {s}
  BY <1>3
<1> DEFINE call == [old EXCEPT !.todo = todo, !.erased = {}]
<1>5. /\ call \in CallStates /\ call.name = old.name /\ call.todo = todo /\ call.erased = {}
      /\ call.worst = old.worst /\ call.op = "health"
  BY <1>1 DEF CallStates
<1>6. calls \in [Callers -> CallStates]
  BY EngineFacts
<1>7. CASE old.name \in DOMAIN named /\ s \in volumes[named[old.name]].stripes
  <2>1. PICK v \in 1..Len(volumes) : v = named[old.name] /\ v \in Nat
    BY <1>7, NamedIs
  <2> DEFINE check == [call EXCEPT !.op = "check", !.vol = v, !.stripe = s]
  <2>2. /\ check \in CallStates /\ check.name = old.name /\ check.todo = todo /\ check.erased = {}
        /\ check.worst = old.worst /\ check.op = "check" /\ check.vol = v /\ check.stripe = s
    BY <1>3, <1>5, <2>1 DEF CallStates
  <2>3. ShardIo(c, check, v, 1)
    BY <1>2, <1>4, <1>7, <2>1
  <2> HIDE DEF check
  <2>4. 1 \in ShardIndices
    BY EngineNumbers
  <2>5. PICK a \in CallStates :
           /\ calls' = [calls EXCEPT ![c] = a] /\ a = [check EXCEPT !.next = 1]
           /\ a.next = 1 /\ a.op = check.op /\ a.vol = check.vol /\ a.stripe = check.stripe
           /\ DevicesOK' /\ DevicesGrow /\ BlocksStay
           /\ io'[c] = Starts(device_for_shard(v, 1))
           /\ \A e \in Callers \ {c} : io'[e] = io[e]
    BY <2>2, <2>3, <2>4, ShardIoIs
  <2>6. a.name = check.name /\ a.todo = check.todo /\ a.erased = check.erased /\ a.worst = check.worst
    BY <2>2, <2>5 DEF CallStates
  <2>7. calls'[c] = a /\ UNCHANGED <<devices, handles, stores, faulty>>
    BY <1>6, <2>3, <2>5 DEF ShardIo
  <2>8. /\ s \in calls[c].todo
        /\ calls' = [calls EXCEPT ![c] = a] /\ calls'[c] = a
        /\ a.name = calls[c].name /\ a.todo = calls[c].todo \ {s} /\ a.erased = {}
    BY <1>1, <1>4, <2>2, <2>5, <2>6, <2>7
  <2>9. /\ calls[c].name \in DOMAIN named /\ s \in volumes[named[calls[c].name]].stripes
        /\ a.op = "check" /\ a.vol = named[calls[c].name] /\ a.stripe = s /\ a.next = 1
        /\ a.worst = calls[c].worst
        /\ io'[c] = Starts(device_for_shard(a.vol, 1))
    BY <1>1, <1>7, <2>1, <2>2, <2>5, <2>6
  <2> HIDE DEF call
  <2> QED
    BY <2>5, <2>7, <2>8, <2>9
<1>8. CASE ~(old.name \in DOMAIN named /\ s \in volumes[named[old.name]].stripes)
  <2> DEFINE a == [call EXCEPT !.worst = "Critical"]
  <2>1. /\ a \in CallStates /\ a.name = old.name /\ a.todo = todo /\ a.erased = {}
        /\ a.op = "health" /\ a.worst = "Critical"
    BY <1>5 DEF CallStates, Grades
  <2>2. calls' = [calls EXCEPT ![c] = a] /\ UNCHANGED bdevVars
    BY <1>2, <1>4, <1>8 DEF Becomes
  <2> HIDE DEF a
  <2>3. DevicesOK' /\ DevicesGrow /\ BlocksStay
    BY <2>2, EngineFacts, DevicesStay
  <2>4. calls'[c] = a /\ io' = io /\ UNCHANGED <<devices, handles, stores, faulty>>
    BY <1>6, <2>2 DEF bdevVars
  <2> QED
    BY <1>1, <1>4, <1>8, <2>1, <2>2, <2>3, <2>4
<1> QED
  BY <1>7, <1>8

LEMMA BeginStripeKeeps ==
  ASSUME EngineOK, NEW c \in Callers, BeginStripe(c)
  PROVE  EngineStep /\ BlocksStay
<1>1. PICK s \in calls[c].todo : \E a \in CallStates :
           /\ calls' = [calls EXCEPT ![c] = a] /\ calls'[c] = a
           /\ DevicesOK' /\ DevicesGrow /\ BlocksStay
           /\ \A e \in Callers \ {c} : io'[e] = io[e]
           /\ \/ /\ calls[c].name \in DOMAIN named /\ s \in volumes[named[calls[c].name]].stripes
                 /\ a.op = "check" /\ a.vol = named[calls[c].name] /\ a.stripe = s /\ a.next = 1
                 /\ io'[c] = Starts(device_for_shard(a.vol, 1))
              \/ a.op = "health"
  BY BeginStripeIs
<1>2. PICK a \in CallStates :
           /\ calls' = [calls EXCEPT ![c] = a] /\ calls'[c] = a
           /\ DevicesOK' /\ DevicesGrow /\ BlocksStay
           /\ \A e \in Callers \ {c} : io'[e] = io[e]
           /\ \/ /\ calls[c].name \in DOMAIN named /\ s \in volumes[named[calls[c].name]].stripes
                 /\ a.op = "check" /\ a.vol = named[calls[c].name] /\ a.stripe = s /\ a.next = 1
                 /\ io'[c] = Starts(device_for_shard(a.vol, 1))
              \/ a.op = "health"
  BY <1>1
<1>3. UNCHANGED <<volumes, named, permits, pools, history>>
  BY DEF BeginStripe
<1>4. VolumesOK' /\ VolumesGrow
  BY <1>3, EngineFacts, VolumesStay
<1>5. CallOK(c)'
  <2>1. CASE a.op = "health"
    BY <1>2, <2>1, FreeCall
  <2>2. CASE a.op # "health"
    <3>1. /\ a.op = "check" /\ a.vol \in 1..Len(volumes) /\ a.stripe \in volumes[a.vol].stripes
          /\ a.next = 1 /\ io'[c] = Starts(device_for_shard(a.vol, 1))
      BY <1>2, <2>2, NamedIs
    <3>2. a.stripe \in 1..(volumes[a.vol].next - 1)
      BY <3>1, StripeIs
    <3>3. 1 \in ShardIndices
      BY EngineNumbers
    <3>4. io'[c].device = device_for_shard(a.vol, 1)
      BY <3>1, <3>3, EngineFacts, DeviceIs, IoValues
    <3>5. device_for_shard(a.vol, a.next)' = device_for_shard(a.vol, 1)
      BY <1>3, <3>1 DEF device_for_shard
    <3> QED
      BY <1>2, <1>3, <3>1, <3>2, <3>4, <3>5, ShardCall
  <2> QED
    BY <2>1, <2>2
<1>6. EngineOK'
  BY <1>2, <1>3, <1>4, <1>5, EngineFacts, CallChanges
<1> QED
  BY <1>2, <1>4, <1>6 DEF EngineStep


\* The stripe was checked as far as this call has got.
Grade(call) == Worse(call.worst, Status(K + M - Cardinality(call.erased)))

LEMMA GradeIs ==
  ASSUME NEW call \in CallStates
  PROVE  Grade(call) \in Grades
BY DEF Grade, Worse, Grades

\* The call after the next shard of it was checked, and its I/O.
Checked(c, call, a, x) ==
  /\ call.erased = IF Succeeds(c, calls[c].stripe) THEN calls[c].erased
                   ELSE calls[c].erased \union {calls[c].next}
  /\ call.worst = calls[c].worst
  /\ calls' = [calls EXCEPT ![c] = a] /\ io' = [io EXCEPT ![c] = x]
  /\ calls'[c] = a /\ io'[c] = x /\ \A e \in Callers \ {c} : io'[e] = io[e]
  /\ x.at \notin {"opened", "mark"} /\ x.handle = NoHandle
  /\ a.name = calls[c].name /\ a.todo = calls[c].todo
  /\ a.vol = calls[c].vol /\ a.stripe = calls[c].stripe
  /\ a.vol \in 1..Len(volumes) /\ a.stripe \in 1..(volumes[a.vol].next - 1)
  /\ a.erased = call.erased
  /\ \/ /\ calls[c].next < K + M /\ a.op = "check" /\ a.next = calls[c].next + 1
        /\ calls[c].next + 1 \in ShardIndices
        /\ x.at = "open" /\ x.device = device_for_shard(a.vol, a.next)
        /\ a.worst = calls[c].worst
     \/ calls[c].next = K + M /\ a.op = "health" /\ x = NoIo /\ a.worst = Grade(call)

LEMMA CheckShardIs ==
  ASSUME EngineOK, NEW c \in Callers, CheckShard(c)
  PROVE  \E call \in CallStates, a \in CallStates, x \in IoStates : Checked(c, call, a, x)
<1>1. PICK old \in CallStates : old = calls[c] /\ old.op = "check"
  BY EngineFacts DEF CheckShard, Is
<1>2. old.erased \in SUBSET ShardIndices /\ old.next \in ShardIndices
  BY DEF CallStates
<1>3. PICK erased \in SUBSET ShardIndices :
        erased = IF Succeeds(c, old.stripe) THEN old.erased ELSE old.erased \union {old.next}
  BY <1>2
<1>4. PICK call \in CallStates :
        /\ call = IF Succeeds(c, old.stripe) THEN old ELSE [old EXCEPT !.erased = @ \union {old.next}]
        /\ call.op = "check" /\ call.vol = old.vol /\ call.stripe = old.stripe /\ call.next = old.next
        /\ call.name = old.name /\ call.todo = old.todo /\ call.worst = old.worst
        /\ call.erased = erased
  <2>1. CASE Succeeds(c, old.stripe)
    BY <1>1, <1>3, <2>1
  <2>2. CASE ~Succeeds(c, old.stripe)
    <3> DEFINE call == [old EXCEPT !.erased = erased]
    <3>1. call \in CallStates
      BY DEF CallStates
    <3>2. /\ call.op = "check" /\ call.vol = old.vol /\ call.stripe = old.stripe /\ call.next = old.next
          /\ call.name = old.name /\ call.todo = old.todo /\ call.worst = old.worst
          /\ call.erased = erased
      BY <1>1 DEF CallStates
    <3>3. call = [old EXCEPT !.erased = @ \union {old.next}]
      BY <1>3, <2>2
    <3> HIDE DEF call
    <3> QED
      BY <2>2, <3>1, <3>2, <3>3
  <2> QED
    BY <2>1, <2>2
<1>5. Grade(call) \in Grades /\ 1 \in ShardIndices
  BY GradeIs, EngineNumbers
<1>6. PICK grade \in Grades : grade = Grade(call)
  BY <1>5
<1> DEFINE last == [call EXCEPT !.op = "health", !.next = 1, !.worst = grade]
<1>7. /\ last \in CallStates /\ last.op = "health" /\ last.vol = call.vol /\ last.stripe = call.stripe
      /\ last.name = call.name /\ last.todo = call.todo /\ last.worst = grade /\ last.erased = call.erased
  BY <1>5 DEF CallStates
<1>8. /\ call.vol \in 1..Len(volumes) /\ call.stripe \in 1..(volumes[call.vol].next - 1)
  BY <1>1, <1>4, EngineFacts DEF CallOK, Reading
<1>9. IF call.next < K + M
        THEN /\ Becomes(c, [call EXCEPT !.next = @ + 1])
             /\ io' = [io EXCEPT ![c] = Starts(device_for_shard(call.vol, call.next + 1))]
        ELSE Becomes(c, last) /\ io' = [io EXCEPT ![c] = NoIo]
  BY <1>1, <1>4, <1>6 DEF CheckShard, Grade
<1> HIDE DEF last
<1>10. PICK a \in CallStates, x \in IoStates :
           /\ calls' = [calls EXCEPT ![c] = a] /\ io' = [io EXCEPT ![c] = x]
           /\ calls'[c] = a /\ io'[c] = x /\ \A e \in Callers \ {c} : io'[e] = io[e]
           /\ x.at \notin {"opened", "mark"} /\ x.handle = NoHandle
           /\ \/ /\ call.next < K + M /\ a = [call EXCEPT !.next = call.next + 1]
                 /\ call.next + 1 \in ShardIndices
                 /\ a.next = call.next + 1 /\ a.op = call.op /\ a.vol = call.vol
                 /\ a.stripe = call.stripe /\ a.shards = call.shards /\ a.erased = call.erased
                 /\ a.name = call.name /\ a.todo = call.todo /\ a.worst = call.worst
                 /\ x.at = "open" /\ x.device = device_for_shard(call.vol, call.next + 1)
              \/ call.next = K + M /\ a = last /\ x = NoIo
  BY <1>7, <1>8, <1>9, NextShard
<1>11. /\ a.vol = call.vol /\ a.stripe = call.stripe /\ a.erased = call.erased
       /\ a.name = call.name /\ a.todo = call.todo
       /\ \/ /\ call.next < K + M /\ a.op = "check" /\ a.next = call.next + 1
             /\ call.next + 1 \in ShardIndices
             /\ x.at = "open" /\ x.device = device_for_shard(a.vol, a.next)
             /\ a.worst = call.worst
          \/ call.next = K + M /\ a.op = "health" /\ x = NoIo /\ a.worst = grade
  BY <1>4, <1>7, <1>10
<1>12. /\ call.erased = IF Succeeds(c, calls[c].stripe) THEN calls[c].erased
                        ELSE calls[c].erased \union {calls[c].next}
       /\ call.worst = calls[c].worst
  BY <1>1, <1>3, <1>4
<1>13. /\ a.name = calls[c].name /\ a.todo = calls[c].todo
       /\ a.vol = calls[c].vol /\ a.stripe = calls[c].stripe
       /\ a.vol \in 1..Len(volumes) /\ a.stripe \in 1..(volumes[a.vol].next - 1)
  BY <1>1, <1>4, <1>8, <1>11
<1>14. \/ /\ calls[c].next < K + M /\ a.op = "check" /\ a.next = calls[c].next + 1
          /\ calls[c].next + 1 \in ShardIndices
          /\ x.at = "open" /\ x.device = device_for_shard(a.vol, a.next)
          /\ a.worst = calls[c].worst
       \/ calls[c].next = K + M /\ a.op = "health" /\ x = NoIo /\ a.worst = Grade(call)
  BY <1>1, <1>4, <1>6, <1>11
<1> QED
  BY <1>10, <1>11, <1>12, <1>13, <1>14 DEF Checked

LEMMA CheckShardKeeps ==
  ASSUME EngineOK, NEW c \in Callers, CheckShard(c)
  PROVE  EngineStep /\ BlocksStay
<1>1. PICK a \in CallStates, x \in IoStates :
           /\ calls' = [calls EXCEPT ![c] = a] /\ io' = [io EXCEPT ![c] = x]
           /\ calls'[c] = a /\ io'[c] = x /\ \A e \in Callers \ {c} : io'[e] = io[e]
           /\ x.at \notin {"opened", "mark"} /\ x.handle = NoHandle
           /\ a.vol \in 1..Len(volumes) /\ a.stripe \in 1..(volumes[a.vol].next - 1)
           /\ \/ /\ a.op = "check"
                 /\ x.at = "open" /\ x.device = device_for_shard(a.vol, a.next)
              \/ a.op = "health"
  <2>1. PICK old \in CallStates, new \in CallStates, at \in IoStates : Checked(c, old, new, at)
    BY CheckShardIs
  <2> QED
    BY <2>1 DEF Checked
<1>2. UNCHANGED <<devices, handles, stores, faulty, volumes, named, permits, pools, history>>
  BY DEF CheckShard
<1>3. DevicesOK' /\ DevicesGrow /\ BlocksStay
  BY <1>1, <1>2, EngineFacts, IoChanges
<1>4. VolumesOK' /\ VolumesGrow
  BY <1>2, EngineFacts, VolumesStay
<1>5. CallOK(c)'
  <2>1. CASE a.op = "check"
    <3>1. device_for_shard(a.vol, a.next)' = device_for_shard(a.vol, a.next)
      BY <1>2 DEF device_for_shard
    <3> QED
      BY <1>1, <1>2, <2>1, <3>1, ShardCall
  <2>2. CASE a.op = "health"
    BY <1>1, <2>2, FreeCall
  <2> QED
    BY <1>1, <2>1, <2>2
<1>6. EngineOK'
  BY <1>1, <1>2, <1>3, <1>4, <1>5, EngineFacts, CallChanges
<1> QED
  BY <1>3, <1>4, <1>6 DEF EngineStep

\* The task of an I/O step: nothing but its own operation changes, which stays on its
\* device.
LEMMA OpenIs ==
  ASSUME DevicesOK, NEW c \in Callers, Open(c)
  PROVE  /\ \A e \in Callers : io'[e].device = io[e].device
         /\ \A e \in Callers \ {c} : io'[e] = io[e]
         /\ faulty' = faulty /\ DOMAIN devices' = DOMAIN devices
<1>1. io \in [Callers -> IoStates] /\ io[c] \in IoStates
  BY DEF DevicesOK
<1>2. PICK x : io' = [io EXCEPT ![c] = x] /\ x.device = io[c].device
  <2>1. CASE LookUp(c) /\ io[c].device \in DOMAIN handles
    <3>1. io' = [io EXCEPT ![c] = [io[c] EXCEPT !.at = "opened", !.handle = handles[io[c].device]]]
      BY <1>1, <2>1 DEF LookUp
    <3>2. [io[c] EXCEPT !.at = "opened", !.handle = handles[io[c].device]].device = io[c].device
      BY <1>1 DEF IoStates
    <3> QED
      BY <3>1, <3>2
  <2>2. CASE LookUp(c) /\ io[c].device \notin DOMAIN handles
    <3>1. io' = [io EXCEPT ![c] = [io[c] EXCEPT !.at = "absent"]]
      BY <1>1, <2>2 DEF LookUp
    <3>2. [io[c] EXCEPT !.at = "absent"].device = io[c].device
      BY <1>1 DEF IoStates
    <3> QED
      BY <3>1, <3>2
  <2>3. CASE Install(c)
    <3>1. io' = [io EXCEPT ![c] = [io[c] EXCEPT !.at = "mark", !.handle = Len(stores) + 1]]
      BY <1>1, <2>3 DEF Install
    <3>2. [io[c] EXCEPT !.at = "mark", !.handle = Len(stores) + 1].device = io[c].device
      BY <1>1 DEF IoStates
    <3> QED
      BY <3>1, <3>2
  <2>4. CASE NotFound(c)
    <3>1. io' = [io EXCEPT ![c] = [io[c] EXCEPT !.at = "failed"]]
      BY <1>1, <2>4 DEF NotFound
    <3>2. [io[c] EXCEPT !.at = "failed"].device = io[c].device
      BY <1>1 DEF IoStates
    <3> QED
      BY <3>1, <3>2
  <2>5. CASE Mark(c)
    <3>1. io' = [io EXCEPT ![c] = [io[c] EXCEPT !.at = "opened"]]
      BY <1>1, <2>5 DEF Mark
    <3>2. [io[c] EXCEPT !.at = "opened"].device = io[c].device
      BY <1>1 DEF IoStates
    <3> QED
      BY <3>1, <3>2
  <2> QED
    BY <2>1, <2>2, <2>3, <2>4, <2>5 DEF Open
<1>3. faulty' = faulty /\ DOMAIN devices' = DOMAIN devices
  BY DEF Open, LookUp, Install, NotFound, Mark
<1> QED
  BY <1>1, <1>2, <1>3

LEMMA OpenDeviceKeeps ==
  ASSUME EngineOK, NEW c \in Callers, OpenDevice(c)
  PROVE  EngineStep /\ BlocksStay
<1>1. Open(c) /\ UNCHANGED <<volumes, named, calls, permits, pools, history>>
  BY DEF OpenDevice
<1>2. DevicesOK' /\ DevicesGrow /\ BlocksStay
  BY <1>1, EngineFacts, OpenDevices
<1>3. VolumesOK' /\ VolumesGrow
  BY <1>1, EngineFacts, VolumesStay
<1>4. \A e \in Callers : io'[e].device = io[e].device
  BY <1>1, EngineFacts, OpenIs
<1>5. EngineOK'
  BY <1>1, <1>2, <1>3, <1>4, EngineFacts, CallsStay
<1> QED
  BY <1>2, <1>3, <1>5 DEF EngineStep

LEMMA EngineValues ==
  ASSUME EngineOK
  PROVE  /\ DevicesOK /\ VolumesOK /\ permits \in Nat
         /\ pools \in [data : PoolStates, parity : PoolStates] /\ history \in Histories
         /\ history.changes + 1 \in Nat /\ history.mismatches \in Nat
         /\ history.gone \in SUBSET Nat /\ history.reregistered \in SUBSET Devices
         /\ history.crossed \in SUBSET Devices /\ history.failed \in SUBSET Devices
BY DEF EngineOK, Histories

LEMMA DeviceChangeKeeps ==
  ASSUME EngineOK, DeviceChange
  PROVE  EngineStep /\ BlocksStay
<1>1. UNCHANGED <<volumes, named, calls, permits, pools>>
  BY DEF DeviceChange
<1>2. DevicesOK' /\ DevicesGrow /\ BlocksStay
  BY EngineValues, TableDevices
<1>3. VolumesOK' /\ VolumesGrow
  BY <1>1, EngineValues, VolumesStay
<1>4. history' \in Histories
  <2> DEFINE n == history.changes + 1
             marking == {io[c].device : c \in {c \in Callers : io[c].at = "mark"}}
  <2>1. marking \subseteq Devices
    <3>1. ASSUME NEW c \in Callers, io[c].at = "mark" PROVE io[c].device \in Devices
      BY <3>1, EngineValues DEF DevicesOK, IoOK
    <3> QED
      BY <3>1
  <2>2. n \in Nat
    BY EngineValues
  <2>3. PICK d : \/ d \in Devices /\ history' = [history EXCEPT !.changes = @ + 1,
                      !.reregistered = IF d \in DOMAIN handles THEN @ \union {d} ELSE @]
                 \/ history' = [history EXCEPT !.changes = @ + 1, !.crossed = @ \union marking]
                 \/ d \in Devices /\ history' = [history EXCEPT !.changes = @ + 1, !.failed = @ \union {d}]
                 \/ history' = [history EXCEPT !.changes = @ + 1]
    BY DEF DeviceChange
  <2> HIDE DEF n, marking
  <2>4. CASE d \in Devices /\ history' = [history EXCEPT !.changes = @ + 1,
                      !.reregistered = IF d \in DOMAIN handles THEN @ \union {d} ELSE @]
    <3>1. PICK D \in SUBSET Devices :
            D = IF d \in DOMAIN handles THEN history.reregistered \union {d} ELSE history.reregistered
      BY <2>4, EngineValues
    <3>2. history' = [history EXCEPT !.changes = n, !.reregistered = D]
      BY <2>4, <3>1 DEF n
    <3> QED
      BY <2>2, <3>2, EngineValues, HistoryGrows
  <2>5. CASE history' = [history EXCEPT !.changes = @ + 1, !.crossed = @ \union marking]
    <3>1. PICK D \in SUBSET Devices : D = history.crossed \union marking
      BY <2>1, EngineValues
    <3>2. history' = [history EXCEPT !.changes = n, !.crossed = D]
      BY <2>5, <3>1 DEF n
    <3> QED
      BY <2>2, <3>2, EngineValues, HistoryGrows
  <2>6. CASE d \in Devices /\ history' = [history EXCEPT !.changes = @ + 1, !.failed = @ \union {d}]
    <3>1. PICK D \in SUBSET Devices : D = history.failed \union {d}
      BY <2>6, EngineValues
    <3>2. history' = [history EXCEPT !.changes = n, !.failed = D]
      BY <2>6, <3>1 DEF n
    <3> QED
      BY <2>2, <3>2, EngineValues, HistoryGrows
  <2>7. CASE history' = [history EXCEPT !.changes = @ + 1]
    <3>1. history' = [history EXCEPT !.changes = n]
      BY <2>7 DEF n
    <3> QED
      BY <2>2, <3>1, EngineValues, HistoryGrows
  <2> QED
    BY <2>3, <2>4, <2>5, <2>6, <2>7
<1>5. \A e \in Callers : io'[e].device = io[e].device
  BY EngineValues, TableIs
<1>6. EngineOK'
  BY <1>1, <1>2, <1>3, <1>4, <1>5, EngineValues, CallsStay
<1> QED
  BY <1>2, <1>3, <1>6 DEF EngineStep

LEMMA DeleteVolumeKeeps ==
  ASSUME EngineOK, DeleteVolume
  PROVE  EngineStep /\ BlocksStay
<1>1. PICK n \in DOMAIN named :
        /\ named' = Restrict(named, DOMAIN named \ {n})
        /\ history' = [history EXCEPT !.changes = @ + 1, !.gone = @ \union {named[n]}]
  BY DEF DeleteVolume
<1>2. UNCHANGED <<bdevVars, volumes, calls, permits, pools>>
  BY DEF DeleteVolume
<1>3. DevicesOK' /\ DevicesGrow /\ BlocksStay
  BY <1>2, EngineValues, DevicesStay
<1>4. VolumesOK' /\ VolumesGrow
  <2>1. /\ volumes \in Seq(VolumeStates) /\ Len(volumes) \in Nat
        /\ \A v \in 1..Len(volumes) : volumes[v].next \in Nat
    BY EngineValues, ListOfVolumes DEF VolumesOK
  <2>2. named' \in [DOMAIN named' -> 1..Len(volumes)] /\ DOMAIN named' \subseteq Names
    BY <1>1, EngineValues DEF VolumesOK, Restrict
  <2>3. VolumesGrow
    BY <1>2, <2>1 DEF VolumesGrow
  <2> QED
    BY <1>2, <2>2, <2>3, EngineValues DEF VolumesOK
<1>5. history' \in Histories
  <2>1. PICK S \in SUBSET Nat : S = history.gone \union {named[n]}
    BY EngineValues, NamedIs
  <2>2. PICK k \in Nat : k = history.changes + 1
    BY EngineValues
  <2>3. history' = [history EXCEPT !.changes = k, !.gone = S]
    BY <1>1, <2>1, <2>2
  <2> QED
    BY <2>3, EngineValues, HistoryGrows
<1>6. EngineOK'
  BY <1>2, <1>3, <1>4, <1>5, EngineValues, CallsStay DEF bdevVars
<1> QED
  BY <1>3, <1>4, <1>6 DEF EngineStep

LEMMA DeleteKeeps ==
  ASSUME EngineOK, Delete
  PROVE  EngineStep /\ BlocksStay
<1>1. PICK n \in DOMAIN named : \E s \in volumes[named[n]].stripes :
       /\ volumes' = [volumes EXCEPT ![named[n]].stripes = @ \ {s}]
       /\ history' = [history EXCEPT !.changes = @ + 1, !.gone = @ \union {named[n]}]
  BY DEF Delete
<1>2. PICK v \in 1..Len(volumes) : v = named[n] /\ v \in Nat
  BY NamedIs
<1>3. PICK s \in volumes[v].stripes :
       /\ volumes' = [volumes EXCEPT ![v].stripes = @ \ {s}]
       /\ history' = [history EXCEPT !.changes = @ + 1, !.gone = @ \union {v}]
  BY <1>1, <1>2
<1>4. UNCHANGED <<bdevVars, named, calls, permits, pools>>
  BY DEF Delete
<1>5. volumes \in Seq(VolumeStates) /\ volumes[v] \in VolumeStates /\ volumes[v].next \in Nat
      /\ volumes[v].stripes \subseteq 1..(volumes[v].next - 1) /\ volumes[v].stripes \in SUBSET Nat
  BY EngineValues, ListOfVolumes, StripeIs DEF VolumesOK
<1>6. PICK stripes \in SUBSET Nat : stripes = volumes[v].stripes \ {s}
  BY <1>5
<1> DEFINE x == [volumes[v] EXCEPT !.stripes = stripes]
<1>7. x \in VolumeStates /\ x.next = volumes[v].next /\ x.devices = volumes[v].devices /\ x.stripes = stripes
  BY <1>5 DEF VolumeStates
<1>8. volumes' = [volumes EXCEPT ![v] = x]
  BY <1>3, <1>5, <1>6
<1> HIDE DEF x
<1>9. x.stripes \subseteq 1..(x.next - 1) /\ volumes[v].next <= x.next
  BY <1>5, <1>6, <1>7
<1>10. VolumesOK' /\ VolumesGrow
  BY <1>4, <1>7, <1>8, <1>9, EngineValues, VolumeChanges
<1>11. DevicesOK' /\ DevicesGrow /\ BlocksStay
  BY <1>4, EngineValues, DevicesStay
<1>12. history' \in Histories
  <2>1. PICK S \in SUBSET Nat : S = history.gone \union {v}
    BY <1>2, EngineValues
  <2>2. PICK k \in Nat : k = history.changes + 1
    BY EngineValues
  <2>3. history' = [history EXCEPT !.changes = k, !.gone = S]
    BY <1>3, <2>1, <2>2
  <2> QED
    BY <2>3, EngineValues, HistoryGrows
<1>13. EngineOK'
  BY <1>4, <1>10, <1>11, <1>12, EngineValues, CallsStay DEF bdevVars
<1> QED
  BY <1>10, <1>11, <1>13 DEF EngineStep

LEMMA VerifyKeeps ==
  ASSUME EngineOK, Verify
  PROVE  EngineStep /\ BlocksStay
<1>1. PICK same \in BOOLEAN :
       /\ pools' = [pools EXCEPT !.parity = IF same THEN Put(Take(pools.parity, M), M) ELSE Take(pools.parity, M)]
       /\ history' = [history EXCEPT !.changes = @ + 1, !.mismatches = @ + IF same THEN 0 ELSE 1]
  BY DEF Verify
<1>2. UNCHANGED <<bdevVars, volumes, named, calls, permits>>
  BY DEF Verify
<1>3. DevicesOK' /\ DevicesGrow /\ BlocksStay
  BY <1>2, EngineValues, DevicesStay
<1>4. VolumesOK' /\ VolumesGrow
  BY <1>2, EngineValues, VolumesStay
<1>5. pools' \in [data : PoolStates, parity : PoolStates]
  <2>1. PICK taken \in PoolStates : taken = Take(pools.parity, M)
    BY EngineValues, PoolsChange, PoolIs, EngineNumbers
  <2>2. Put(taken, M) \in PoolStates
    BY PoolIs, EngineNumbers
  <2>3. PICK p \in PoolStates :
          p = IF same THEN Put(Take(pools.parity, M), M) ELSE Take(pools.parity, M)
    BY <2>1, <2>2
  <2> QED
    BY <1>1, <2>3, EngineValues
<1>6. history' \in Histories
  <2>1. PICK k \in Nat : k = history.changes + 1
    BY EngineValues
  <2>2. PICK m \in Nat : m = history.mismatches + IF same THEN 0 ELSE 1
    BY EngineValues
  <2>3. history' = [history EXCEPT !.changes = k, !.mismatches = m]
    BY <1>1, <2>1, <2>2
  <2> QED
    BY <2>3, EngineValues, HistoryGrows
<1>7. EngineOK'
  BY <1>2, <1>3, <1>4, <1>5, <1>6, EngineValues, CallsStay DEF bdevVars
<1> QED
  BY <1>3, <1>4, <1>7 DEF EngineStep

\* Every step keeps types and shapes, and all but the write of a shard the blocks.
LEMMA EngineNext ==
  ASSUME EngineOK, [Next]_vars
  PROVE  /\ EngineStep
         /\ (\A c \in Callers : ~WriteShard(c)) => BlocksStay
<1>1. ASSUME NEW c \in Callers, Call(c)
      PROVE  EngineStep /\ (WriteShard(c) \/ BlocksStay)
  BY <1>1, OpenDeviceKeeps, BeginCreateKeeps, StoreVolumeKeeps, BeginWriteKeeps, EncodeKeeps,
     WriteFailsKeeps, WriteShardKeeps, StoreMetadataKeeps, BeginReadKeeps, LocateKeeps,
     ReadShardKeeps, DecodeKeeps, BeginHealthKeeps, BeginStripeKeeps, CheckShardKeeps, ReportKeeps
     DEF Call
<1>2. CASE DeleteVolume \/ Delete \/ Verify \/ DeviceChange
  BY <1>2, DeleteVolumeKeeps, DeleteKeeps, VerifyKeeps, DeviceChangeKeeps
<1>3. CASE UNCHANGED vars
  <2>1. DevicesOK' /\ DevicesGrow /\ BlocksStay
    BY <1>3, EngineValues, DevicesStay DEF vars
  <2>2. VolumesOK' /\ VolumesGrow
    BY <1>3, EngineValues, VolumesStay DEF vars
  <2>3. EngineOK'
    BY <1>3, <2>1, <2>2, EngineValues, CallsStay DEF vars, bdevVars
  <2> QED
    BY <2>1, <2>2, <2>3 DEF EngineStep
<1> QED
  BY <1>1, <1>2, <1>3 DEF Next

-----------------------------------------------------------------------------
(* The engine: permits and buffers.                                        *)

Writers == {c \in Callers : calls[c].op \in Writing}
Holders == {"write", "store", "read", "decode"}

Balanced(p, out) == p.free + out + p.over = p.made

LEMMA BothBalanced ==
  ASSUME NEW p, NEW q, NEW a, NEW b
  PROVE  (\A r \in {[pool |-> p, out |-> a], [pool |-> q, out |-> b]} :
            r.pool.free + r.out + r.pool.over = r.pool.made)
         <=> Balanced(p, a) /\ Balanced(q, b)
BY DEF Balanced

\* The buffers calls have taken, those that were dropped and those of the pool are all
\* that were made.
LEMMA BuffersAre ==
  BuffersAreReturned <=>
    /\ Balanced(pools.data, K * (Cardinality(Writers) + history.dropped))
    /\ Balanced(pools.parity, M * (Cardinality(Writers) + history.dropped + history.mismatches))
BY BothBalanced DEF BuffersAreReturned, Writers, Writing

LEMMA BuffersAreNext ==
  BuffersAreReturned' <=>
    /\ Balanced(pools'.data, K * (Cardinality(Writers') + history'.dropped))
    /\ Balanced(pools'.parity, M * (Cardinality(Writers') + history'.dropped + history'.mismatches))
BY BothBalanced DEF BuffersAreReturned, Writers, Writing

LEMMA TakeBalances ==
  ASSUME NEW p \in PoolStates, NEW n \in Nat, NEW out \in Nat, Balanced(p, out), p.free <= p.cap
  PROVE  Balanced(Take(p, n), out + n) /\ Take(p, n).free <= Take(p, n).cap
<1>1. p.free \in Nat /\ p.made \in Nat /\ p.over \in Nat /\ p.cap \in Nat
  BY DEF PoolStates
<1>2. PICK q \in PoolStates : q = Take(p, n)
  BY PoolIs
<1>3. /\ q.free = (IF p.free >= n THEN p.free - n ELSE 0)
      /\ q.made = p.made + (IF p.free >= n THEN 0 ELSE n - p.free)
      /\ q.over = p.over /\ q.cap = p.cap
  BY <1>2, PoolIs
<1>4. Balanced(q, out + n) /\ q.free <= q.cap
  BY <1>1, <1>3 DEF Balanced
<1> QED
  BY <1>2, <1>4

LEMMA PutBalances ==
  ASSUME NEW p \in PoolStates, NEW n \in Nat, NEW rest \in Nat, Balanced(p, rest + n)
  PROVE  Balanced(Put(p, n), rest) /\ Put(p, n).free <= Put(p, n).cap
<1>1. p.free \in Nat /\ p.made \in Nat /\ p.over \in Nat /\ p.cap \in Nat
  BY DEF PoolStates
<1>2. PICK q \in PoolStates : q = Put(p, n)
  BY PoolIs
<1>3. /\ q.free = (IF p.cap <= p.free + n THEN p.cap ELSE p.free + n)
      /\ q.over = p.over + (IF p.free + n >= p.cap THEN p.free + n - p.cap ELSE 0)
      /\ q.made = p.made /\ q.cap = p.cap
  BY <1>2, PoolIs
<1>4. Balanced(q, rest) /\ q.free <= q.cap
  BY <1>1, <1>3 DEF Balanced
<1> QED
  BY <1>2, <1>4

\* How many calls hold a permit, and how many write.
LEMMA CountFacts ==
  /\ IsFiniteSet(Holding) /\ Cardinality(Holding) \in Nat /\ Holding \subseteq Callers
  /\ IsFiniteSet(Writers) /\ Cardinality(Writers) \in Nat /\ Writers \subseteq Callers
<1>1. Holding \subseteq Callers /\ Writers \subseteq Callers
  BY DEF Holding, Writers
<1>2. IsFiniteSet(Callers)
  BY BlockDeviceAssumption
<1> QED
  BY <1>1, <1>2, FS_Subset, FS_CardinalityType

LEMMA CallSets ==
  ASSUME EngineOK, NEW c \in Callers, NEW a, calls' = [calls EXCEPT ![c] = a]
  PROVE  /\ calls'[c] = a /\ \A e \in Callers \ {c} : calls'[e] = calls[e]
         /\ Holding' = (IF a.op \in Holders THEN Holding \union {c} ELSE Holding \ {c})
         /\ Writers' = (IF a.op \in Writing THEN Writers \union {c} ELSE Writers \ {c})
<1>1. calls'[c] = a /\ \A e \in Callers \ {c} : calls'[e] = calls[e]
  BY EngineFacts
<1> QED
  BY <1>1 DEF Holding, Holders, Writers

\* Holds for a step that neither takes a permit or buffers nor returns any.
LEMMA QuietCounts ==
  ASSUME CountsOK, Holding' = Holding, Writers' = Writers, permits' = permits, pools' = pools,
         history'.dropped = history.dropped, history'.mismatches = history.mismatches
  PROVE  CountsOK'
BY BuffersAre, BuffersAreNext DEF CountsOK

LEMMA QuietCall ==
  ASSUME EngineOK, CountsOK, NEW c \in Callers, NEW a, calls' = [calls EXCEPT ![c] = a],
         a.op \in Holders <=> calls[c].op \in Holders,
         a.op \in Writing <=> calls[c].op \in Writing,
         permits' = permits, pools' = pools,
         history'.dropped = history.dropped, history'.mismatches = history.mismatches
  PROVE  CountsOK'
<1>1. Holding' = Holding /\ Writers' = Writers
  BY CallSets DEF Holding, Holders, Writers
<1> QED
  BY <1>1, QuietCounts

\* The name of a step of a call before and after it, where it takes and returns nothing.
LEMMA QuietOps ==
  ASSUME EngineOK, NEW c \in Callers,
         \/ BeginCreate(c) \/ StoreVolume(c) \/ BeginWrite(c) \/ WriteShard(c) \/ BeginRead(c)
         \/ ReadShard(c) \/ BeginHealth(c) \/ BeginStripe(c) \/ CheckShard(c) \/ Report(c)
  PROVE  /\ \E a : /\ calls' = [calls EXCEPT ![c] = a]
                   /\ a.op \in Holders <=> calls[c].op \in Holders
                   /\ a.op \in Writing <=> calls[c].op \in Writing
         /\ permits' = permits /\ pools' = pools
         /\ history'.dropped = history.dropped /\ history'.mismatches = history.mismatches
<1>0. history \in Histories
  BY EngineFacts
<1>1. ASSUME NEW a, Begins(c, a), a.op \in {"create", "encode", "locate", "health"}
      PROVE  /\ calls' = [calls EXCEPT ![c] = a]
             /\ a.op \in Holders <=> calls[c].op \in Holders
             /\ a.op \in Writing <=> calls[c].op \in Writing
             /\ permits' = permits /\ pools' = pools
             /\ history'.dropped = history.dropped /\ history'.mismatches = history.mismatches
  <2>1. calls[c].op = "none" /\ calls' = [calls EXCEPT ![c] = a]
    BY <1>1, CallValues DEF Begins, Becomes
  <2>2. permits' = permits /\ pools' = pools
        /\ history'.dropped = history.dropped /\ history'.mismatches = history.mismatches
    BY <1>0, <1>1 DEF Begins, Histories
  <2> QED
    BY <1>1, <2>1, <2>2 DEF Holders, Writing
<1>2. CASE BeginCreate(c)
  <2>1. PICK n, l : Begins(c, [NoCall EXCEPT !.op = "create", !.name = n, !.devices = l])
    BY <1>2 DEF BeginCreate
  <2>2. [NoCall EXCEPT !.op = "create", !.name = n, !.devices = l].op = "create"
    BY DEF NoCall
  <2>3. PICK a : a = [NoCall EXCEPT !.op = "create", !.name = n, !.devices = l]
    OBVIOUS
  <2> QED
    BY <1>1, <2>1, <2>2, <2>3
<1>3. CASE BeginWrite(c)
  <2>1. PICK v : Begins(c, [NoCall EXCEPT !.op = "encode", !.vol = v])
    BY <1>3 DEF BeginWrite
  <2>2. [NoCall EXCEPT !.op = "encode", !.vol = v].op = "encode"
    BY DEF NoCall
  <2>3. PICK a : a = [NoCall EXCEPT !.op = "encode", !.vol = v]
    OBVIOUS
  <2> QED
    BY <1>1, <2>1, <2>2, <2>3
<1>4. CASE BeginRead(c)
  <2>1. PICK v, s : Begins(c, [NoCall EXCEPT !.op = "locate", !.vol = v, !.stripe = s])
    BY <1>4 DEF BeginRead
  <2>2. [NoCall EXCEPT !.op = "locate", !.vol = v, !.stripe = s].op = "locate"
    BY DEF NoCall
  <2>3. PICK a : a = [NoCall EXCEPT !.op = "locate", !.vol = v, !.stripe = s]
    OBVIOUS
  <2> QED
    BY <1>1, <2>1, <2>2, <2>3
<1>5. CASE BeginHealth(c)
  <2>1. PICK n, todo : Begins(c, [NoCall EXCEPT !.op = "health", !.name = n, !.todo = todo])
    BY <1>5 DEF BeginHealth
  <2>2. [NoCall EXCEPT !.op = "health", !.name = n, !.todo = todo].op = "health"
    BY DEF NoCall
  <2>3. PICK a : a = [NoCall EXCEPT !.op = "health", !.name = n, !.todo = todo]
    OBVIOUS
  <2> QED
    BY <1>1, <2>1, <2>2, <2>3
<1>6. CASE StoreVolume(c)
  <2>1. calls[c].op = "create" /\ calls' = [calls EXCEPT ![c] = NoCall] /\ permits' = permits /\ pools' = pools
    BY <1>6 DEF StoreVolume, Is, Becomes
  <2>2. history'.dropped = history.dropped /\ history'.mismatches = history.mismatches
    BY <1>0, <1>6 DEF StoreVolume, Histories
  <2> QED
    BY <2>1, <2>2, CallValues DEF Holders, Writing
<1>7. CASE WriteShard(c)
  <2>1. PICK a : calls' = [calls EXCEPT ![c] = a] /\ a.op \in {"write", "store"}
    BY <1>7, WriteShardIs
  <2>2. calls[c].op = "write" /\ permits' = permits /\ pools' = pools /\ history' = history
    BY <1>7 DEF WriteShard, Is
  <2> QED
    BY <2>1, <2>2 DEF Holders, Writing
<1>8. CASE ReadShard(c)
  <2>1. PICK a : calls' = [calls EXCEPT ![c] = a] /\ a.op \in {"read", "decode"}
    BY <1>8, ReadShardIs
  <2>2. calls[c].op = "read" /\ permits' = permits /\ pools' = pools /\ history' = history
    BY <1>8 DEF ReadShard, Is
  <2> QED
    BY <2>1, <2>2 DEF Holders, Writing
<1>9. CASE BeginStripe(c)
  <2>1. PICK a : calls' = [calls EXCEPT ![c] = a] /\ a.op \in {"health", "check"}
    BY <1>9, BeginStripeIs
  <2>2. calls[c].op = "health" /\ permits' = permits /\ pools' = pools /\ history' = history
    BY <1>9 DEF BeginStripe, Is
  <2> QED
    BY <2>1, <2>2 DEF Holders, Writing
<1>10. CASE CheckShard(c)
  <2>1. PICK a : calls' = [calls EXCEPT ![c] = a] /\ a.op \in {"health", "check"}
    <3>1. PICK old \in CallStates, new \in CallStates, at \in IoStates : Checked(c, old, new, at)
      BY <1>10, CheckShardIs
    <3> QED
      BY <3>1 DEF Checked
  <2>2. calls[c].op = "check" /\ permits' = permits /\ pools' = pools /\ history' = history
    BY <1>10 DEF CheckShard, Is
  <2> QED
    BY <2>1, <2>2 DEF Holders, Writing
<1>11. CASE Report(c)
  <2>1. calls' = [calls EXCEPT ![c] = NoCall] /\ calls[c].op = "health"
        /\ permits' = permits /\ pools' = pools /\ history' = history
    BY <1>11 DEF Report, Is, Becomes
  <2> QED
    BY <2>1, CallValues DEF Holders, Writing
<1> QED
  BY <1>2, <1>3, <1>4, <1>5, <1>6, <1>7, <1>8, <1>9, <1>10, <1>11

\* The call after it has encoded, with the id it was given.
Encoded(c, v, a) ==
  /\ calls[c].op = "encode" /\ v = calls[c].vol
  /\ calls' = [calls EXCEPT ![c] = a] /\ calls'[c] = a
  /\ a.op = "write" /\ a.vol = v /\ a.stripe = volumes[v].next /\ a.next = 1
  /\ \A e \in Callers \ {c} : io'[e] = io[e]
  /\ io'[c] = Starts(device_for_shard(v, 1))
  /\ Len(volumes') = Len(volumes)
  /\ \A w \in 1..Len(volumes) : volumes'[w].stripes = volumes[w].stripes

LEMMA EncodeIs ==
  ASSUME EngineOK, NEW c \in Callers, Encode(c)
  PROVE  \E v \in 1..Len(volumes), a \in CallStates : Encoded(c, v, a)
<1>0. PICK v \in 1..Len(volumes) : v = calls[c].vol
  BY EngineFacts DEF Encode, Is, CallOK
<1>1. PICK s \in Nat : s = volumes[v].next
  BY EngineFacts, ListOfVolumes DEF VolumesOK
<1>2. PICK old \in CallStates : old = calls[c]
  BY EngineFacts
<1> DEFINE call == [old EXCEPT !.op = "write", !.stripe = s]
<1>3. call \in CallStates /\ call.op = "write" /\ call.stripe = s /\ call.vol = v
  BY <1>0, <1>2 DEF CallStates
<1>4. calls[c].op = "encode" /\ ShardIo(c, call, v, 1) /\ volumes' = [volumes EXCEPT ![v].next = @ + 1]
  BY <1>0, <1>1, <1>2 DEF Encode, Is
<1> HIDE DEF call
<1>5. 1 \in ShardIndices
  BY EngineNumbers
<1>6. PICK a \in CallStates :
           /\ calls' = [calls EXCEPT ![c] = a]
           /\ a.next = 1 /\ a.op = call.op /\ a.vol = call.vol /\ a.stripe = call.stripe
           /\ io'[c] = Starts(device_for_shard(v, 1))
           /\ \A e \in Callers \ {c} : io'[e] = io[e]
  BY <1>3, <1>4, <1>5, ShardIoIs
<1>7. calls'[c] = a
  BY <1>6, EngineFacts
<1>8. /\ volumes \in Seq(VolumeStates)
      /\ \A w \in 1..Len(volumes) : volumes[w] \in VolumeStates
  BY EngineFacts, ListOfVolumes DEF VolumesOK
<1>9. Len(volumes') = Len(volumes) /\ \A w \in 1..Len(volumes) : volumes'[w].stripes = volumes[w].stripes
  <2> DEFINE x == [volumes[v] EXCEPT !.next = @ + 1]
  <2>1. x.stripes = volumes[v].stripes
    BY <1>8 DEF VolumeStates
  <2>2. volumes' = [volumes EXCEPT ![v] = x]
    BY <1>4
  <2> HIDE DEF x
  <2> QED
    BY <1>8, <2>1, <2>2
<1> QED
  BY <1>0, <1>1, <1>3, <1>4, <1>6, <1>7, <1>9 DEF Encoded

\* The call after it has its permit to read.
LEMMA LocateIs ==
  ASSUME EngineOK, NEW c \in Callers, Locate(c)
  PROVE  \E a \in CallStates :
           /\ calls[c].op = "locate"
           /\ calls' = [calls EXCEPT ![c] = a] /\ calls'[c] = a
           /\ a.op = "read" /\ a.vol = calls[c].vol /\ a.stripe = calls[c].stripe /\ a.next = 1
           /\ a.shards = calls[c].shards /\ a.erased = calls[c].erased
           /\ \A e \in Callers \ {c} : io'[e] = io[e]
           /\ io'[c] = Starts(device_for_shard(a.vol, 1))
<1>1. PICK old \in CallStates : old = calls[c]
  BY EngineFacts
<1> DEFINE call == [old EXCEPT !.op = "read"]
<1>2. /\ call \in CallStates /\ call.op = "read" /\ call.stripe = old.stripe /\ call.vol = old.vol
      /\ call.shards = old.shards /\ call.erased = old.erased
  BY DEF CallStates
<1>3. calls[c].op = "locate" /\ ShardIo(c, call, call.vol, 1)
  BY <1>1, <1>2 DEF Locate, Is
<1> HIDE DEF call
<1>4. 1 \in ShardIndices
  BY EngineNumbers
<1>5. call.vol \in 1..Len(volumes)
  BY <1>1, <1>2, <1>3, EngineFacts DEF CallOK, Reading
<1>6. PICK a \in CallStates :
           /\ calls' = [calls EXCEPT ![c] = a] /\ a = [call EXCEPT !.next = 1]
           /\ a.next = 1 /\ a.op = call.op /\ a.vol = call.vol /\ a.stripe = call.stripe
           /\ io'[c] = Starts(device_for_shard(call.vol, 1))
           /\ \A e \in Callers \ {c} : io'[e] = io[e]
  BY <1>2, <1>3, <1>4, <1>5, ShardIoIs
<1>7. a.shards = call.shards /\ a.erased = call.erased
  BY <1>6, <1>2 DEF CallStates
<1>8. calls'[c] = a
  BY <1>6, EngineFacts
<1> QED
  BY <1>1, <1>2, <1>3, <1>6, <1>7, <1>8

\* A call that takes a permit, or returns one.
LEMMA TakesPermit ==
  ASSUME EngineOK, CountsOK, NEW c \in Callers, NEW a, calls' = [calls EXCEPT ![c] = a],
         a.op \in Holders, calls[c].op \notin Holders, permits' = permits - 1
  PROVE  permits' + Cardinality(Holding') = MaxConcurrent
<1>1. Holding' = Holding \union {c} /\ c \notin Holding
  BY CallSets DEF Holding, Holders
<1>2. Cardinality(Holding') = Cardinality(Holding) + 1
  BY <1>1, CountFacts, FS_AddElement
<1> QED
  BY <1>2, CountFacts, EngineFacts, EcEngineAssumption DEF CountsOK

LEMMA ReturnsPermit ==
  ASSUME EngineOK, CountsOK, NEW c \in Callers, NEW a, calls' = [calls EXCEPT ![c] = a],
         a.op \notin Holders, calls[c].op \in Holders, permits' = permits + 1
  PROVE  permits' + Cardinality(Holding') = MaxConcurrent
<1>1. Holding' = Holding \ {c} /\ c \in Holding
  BY CallSets DEF Holding, Holders
<1>2. Cardinality(Holding') = Cardinality(Holding) - 1
  BY <1>1, CountFacts, FS_RemoveElement
<1> QED
  BY <1>2, CountFacts, EngineFacts, EcEngineAssumption DEF CountsOK

\* One more stripe takes K buffers for its data and M for its parity.
LEMMA OneMore ==
  ASSUME NEW k \in Nat, NEW w \in Nat, NEW d \in Nat
  PROVE  k * w \in Nat /\ k * (w + 1) = k * w + k /\ k * ((w + 1) + d) = k * (w + d) + k
         /\ k * (w + (d + 1)) = k * ((w + 1) + d)
<1>1. k * w \in Nat /\ k * (w + 1) = k * w + k
  OBVIOUS
<1>2. PICK n \in Nat : n = w + d
  OBVIOUS
<1>3. k * (n + 1) = k * n + k
  OBVIOUS
<1>4. (w + 1) + d = n + 1 /\ w + (d + 1) = n + 1
  BY <1>2
<1> QED
  BY <1>1, <1>2, <1>3, <1>4

LEMMA NumbersAre ==
  ASSUME EngineOK
  PROVE  /\ K \in Nat /\ M \in Nat /\ Cardinality(Writers) \in Nat
         /\ history.dropped \in Nat /\ history.mismatches \in Nat
         /\ pools.data \in PoolStates /\ pools.parity \in PoolStates
         /\ pools = [data |-> pools.data, parity |-> pools.parity]
<1>1. history \in Histories /\ pools \in [data : PoolStates, parity : PoolStates]
  BY EngineValues
<1> QED
  BY <1>1, EngineNumbers, CountFacts DEF Histories

LEMMA EncodeCounts ==
  ASSUME EngineOK, CountsOK, NEW c \in Callers, Encode(c)
  PROVE  CountsOK'
<1>1. PICK a \in CallStates :
        calls' = [calls EXCEPT ![c] = a] /\ a.op = "write" /\ calls[c].op = "encode"
  <2>1. PICK vol \in 1..Len(volumes), new \in CallStates : Encoded(c, vol, new)
    BY EncodeIs
  <2> QED
    BY <2>1 DEF Encoded
<1>2. permits' = permits - 1 /\ pools' = TakeShards /\ history' = history
  BY DEF Encode
<1>3. permits' + Cardinality(Holding') = MaxConcurrent
  BY <1>1, <1>2, TakesPermit DEF Holders
<1>4. Writers' = Writers \union {c} /\ c \notin Writers
  BY <1>1, CallSets DEF Writers, Writing
<1>5. Cardinality(Writers') = Cardinality(Writers) + 1
  BY <1>4, CountFacts, FS_AddElement
<1>6. PICK w \in Nat, d \in Nat, m \in Nat :
        w = Cardinality(Writers) /\ d = history.dropped /\ m = history.mismatches
  BY NumbersAre
<1>7. /\ Balanced(pools.data, K * (w + d)) /\ Balanced(pools.parity, M * (w + d + m))
      /\ pools.data.free <= pools.data.cap /\ pools.parity.free <= pools.parity.cap
  BY <1>6, BuffersAre DEF CountsOK
<1>8. /\ K * (w + d) \in Nat /\ K * (w + 1 + d) = K * (w + d) + K
      /\ M * (w + d + m) \in Nat /\ M * (w + 1 + d + m) = M * (w + d + m) + M
  <2>1. PICK n \in Nat : n = w + d
    OBVIOUS
  <2>2. PICK o \in Nat : o = w + d + m
    OBVIOUS
  <2>3. w + 1 + d = n + 1 /\ w + 1 + d + m = o + 1
    BY <2>1, <2>2
  <2>4. K * n \in Nat /\ K * (n + 1) = K * n + K /\ M * o \in Nat /\ M * (o + 1) = M * o + M
    BY NumbersAre, OneMore
  <2> QED
    BY <2>1, <2>2, <2>3, <2>4
<1>9. /\ Balanced(Take(pools.data, K), K * (w + d) + K) /\ Take(pools.data, K).free <= Take(pools.data, K).cap
      /\ Balanced(Take(pools.parity, M), M * (w + d + m) + M)
      /\ Take(pools.parity, M).free <= Take(pools.parity, M).cap
  BY <1>7, <1>8, NumbersAre, TakeBalances
<1>10. pools'.data = Take(pools.data, K) /\ pools'.parity = Take(pools.parity, M)
  BY <1>2 DEF TakeShards
<1>11. BuffersAreReturned'
  BY <1>2, <1>5, <1>6, <1>8, <1>9, <1>10, BuffersAreNext
<1> QED
  BY <1>3, <1>9, <1>10, <1>11 DEF CountsOK

LEMMA WriteFailsCounts ==
  ASSUME EngineOK, CountsOK, NEW c \in Callers, WriteFails(c)
  PROVE  CountsOK'
<1>1. /\ calls[c].op = "write" /\ permits' = permits + 1 /\ calls' = [calls EXCEPT ![c] = NoCall]
      /\ pools' = pools /\ history' = [history EXCEPT !.dropped = history.dropped + 1]
  BY DEF WriteFails, Is, Ends, Becomes
<1>2. permits' + Cardinality(Holding') = MaxConcurrent
  BY <1>1, CallValues, ReturnsPermit DEF Holders
<1>3. Writers' = Writers \ {c} /\ c \in Writers
  BY <1>1, CallValues, CallSets DEF Writers, Writing
<1>4. Cardinality(Writers') = Cardinality(Writers) - 1
  BY <1>3, CountFacts, FS_RemoveElement
<1>5. Cardinality(Writers') \in Nat
  BY <1>3, CountFacts, FS_Subset, FS_CardinalityType
<1>6. history'.dropped = history.dropped + 1 /\ history'.mismatches = history.mismatches
  BY <1>1, EngineValues DEF Histories
<1>7. /\ Cardinality(Writers') + history'.dropped = Cardinality(Writers) + history.dropped
      /\ Cardinality(Writers') + history'.dropped + history'.mismatches
           = Cardinality(Writers) + history.dropped + history.mismatches
  BY <1>4, <1>5, <1>6, NumbersAre
<1>8. BuffersAreReturned'
  BY <1>1, <1>7, BuffersAre, BuffersAreNext DEF CountsOK
<1> QED
  BY <1>1, <1>2, <1>8 DEF CountsOK

LEMMA StoreMetadataCounts ==
  ASSUME EngineOK, CountsOK, NEW c \in Callers, StoreMetadata(c)
  PROVE  CountsOK'
<1>1. /\ calls[c].op = "store" /\ permits' = permits + 1 /\ calls' = [calls EXCEPT ![c] = NoCall]
      /\ pools' = release_shards /\ history' = history
  BY DEF StoreMetadata, Is, Becomes
<1>2. permits' + Cardinality(Holding') = MaxConcurrent
  BY <1>1, CallValues, ReturnsPermit DEF Holders
<1>3. Writers' = Writers \ {c} /\ c \in Writers
  BY <1>1, CallValues, CallSets DEF Writers, Writing
<1>4. PICK w \in Nat, d \in Nat, m \in Nat :
        w = Cardinality(Writers') /\ d = history.dropped /\ m = history.mismatches
  BY <1>3, CountFacts, FS_Subset, FS_CardinalityType, NumbersAre
<1>5. Cardinality(Writers) = w + 1
  <2>1. Cardinality(Writers') = Cardinality(Writers) - 1
    BY <1>3, CountFacts, FS_RemoveElement
  <2> QED
    BY <1>4, <2>1, CountFacts
<1>6. /\ Balanced(pools.data, K * (w + 1 + d)) /\ Balanced(pools.parity, M * (w + 1 + d + m))
  BY <1>4, <1>5, BuffersAre DEF CountsOK
<1>7. /\ K * (w + d) \in Nat /\ K * (w + 1 + d) = K * (w + d) + K
      /\ M * (w + d + m) \in Nat /\ M * (w + 1 + d + m) = M * (w + d + m) + M
  <2>1. PICK n \in Nat : n = w + d
    OBVIOUS
  <2>2. PICK o \in Nat : o = w + d + m
    OBVIOUS
  <2>3. w + 1 + d = n + 1 /\ w + 1 + d + m = o + 1
    BY <2>1, <2>2
  <2>4. K * n \in Nat /\ K * (n + 1) = K * n + K /\ M * o \in Nat /\ M * (o + 1) = M * o + M
    BY NumbersAre, OneMore
  <2> QED
    BY <2>1, <2>2, <2>3, <2>4
<1>8. /\ Balanced(Put(pools.data, K), K * (w + d)) /\ Put(pools.data, K).free <= Put(pools.data, K).cap
      /\ Balanced(Put(pools.parity, M), M * (w + d + m))
      /\ Put(pools.parity, M).free <= Put(pools.parity, M).cap
  BY <1>6, <1>7, NumbersAre, PutBalances
<1>9. pools'.data = Put(pools.data, K) /\ pools'.parity = Put(pools.parity, M)
  BY <1>1 DEF release_shards
<1>10. BuffersAreReturned'
  BY <1>1, <1>4, <1>8, <1>9, BuffersAreNext
<1> QED
  BY <1>2, <1>8, <1>9, <1>10 DEF CountsOK

LEMMA VerifyCounts ==
  ASSUME EngineOK, CountsOK, Verify
  PROVE  CountsOK'
<1>1. PICK same \in BOOLEAN :
       /\ pools' = [pools EXCEPT !.parity = IF same THEN Put(Take(pools.parity, M), M) ELSE Take(pools.parity, M)]
       /\ history' = [history EXCEPT !.changes = @ + 1, !.mismatches = @ + IF same THEN 0 ELSE 1]
  BY DEF Verify
<1>2. permits' = permits /\ Holding' = Holding /\ Writers' = Writers
  BY DEF Verify, Holding, Writers
<1>3. PICK w \in Nat, d \in Nat, m \in Nat :
        w = Cardinality(Writers) /\ d = history.dropped /\ m = history.mismatches
  BY NumbersAre
<1>4. PICK o \in Nat : o = w + d + m
  OBVIOUS
<1>5. M * o \in Nat /\ M * (o + 1) = M * o + M
  BY NumbersAre, OneMore
<1>6. Balanced(pools.parity, M * o) /\ Balanced(pools.data, K * (w + d))
  BY <1>3, <1>4, BuffersAre DEF CountsOK
<1>7. PICK taken \in PoolStates : taken = Take(pools.parity, M)
  BY NumbersAre, PoolIs
<1>8. Balanced(taken, M * o + M) /\ taken.free <= taken.cap
  BY <1>5, <1>6, <1>7, NumbersAre, TakeBalances DEF CountsOK
<1>9. Balanced(Put(taken, M), M * o) /\ Put(taken, M).free <= Put(taken, M).cap
  BY <1>5, <1>8, NumbersAre, PutBalances
<1>10. pools'.data = pools.data /\ pools'.parity = IF same THEN Put(taken, M) ELSE taken
  BY <1>1, <1>7, NumbersAre
<1>11. history'.dropped = d /\ history'.mismatches = m + IF same THEN 0 ELSE 1
  BY <1>1, <1>3, EngineValues DEF Histories
<1>12. Balanced(pools'.parity, M * (w + d + history'.mismatches))
  <2>1. CASE same
    <3>1. w + d + history'.mismatches = o
      BY <1>4, <1>11, <2>1
    <3> QED
      BY <1>9, <1>10, <2>1, <3>1
  <2>2. CASE ~same
    <3>1. w + d + history'.mismatches = o + 1
      BY <1>4, <1>11, <2>2
    <3> QED
      BY <1>5, <1>8, <1>10, <2>2, <3>1
  <2> QED
    BY <2>1, <2>2
<1>13. BuffersAreReturned'
  BY <1>2, <1>3, <1>6, <1>10, <1>11, <1>12, BuffersAreNext
<1>14. pools'.data.free <= pools'.data.cap /\ pools'.parity.free <= pools'.parity.cap
  BY <1>8, <1>9, <1>10 DEF CountsOK
<1> QED
  BY <1>2, <1>13, <1>14 DEF CountsOK

LEMMA CountsNext ==
  ASSUME EngineOK, CountsOK, [Next]_vars
  PROVE  CountsOK'
<1>1. ASSUME NEW c \in Callers, Locate(c) PROVE CountsOK'
  <2>1. PICK a \in CallStates :
          calls' = [calls EXCEPT ![c] = a] /\ a.op = "read" /\ calls[c].op = "locate"
    BY <1>1, LocateIs
  <2>2. permits' = permits - 1 /\ pools' = pools /\ history' = history
    BY <1>1 DEF Locate
  <2>3. permits' + Cardinality(Holding') = MaxConcurrent
    BY <2>1, <2>2, TakesPermit DEF Holders
  <2>4. Writers' = Writers
    BY <2>1, CallSets DEF Writers, Writing
  <2> QED
    BY <2>2, <2>3, <2>4, BuffersAre, BuffersAreNext DEF CountsOK
<1>2. ASSUME NEW c \in Callers, Decode(c) PROVE CountsOK'
  <2>1. /\ calls' = [calls EXCEPT ![c] = NoCall] /\ calls[c].op = "decode"
        /\ permits' = permits + 1 /\ pools' = pools /\ history' = history
    BY <1>2 DEF Decode, Is, Becomes
  <2>2. permits' + Cardinality(Holding') = MaxConcurrent
    BY <2>1, CallValues, ReturnsPermit DEF Holders
  <2>3. Writers' = Writers
    BY <2>1, CallValues, CallSets DEF Writers, Writing
  <2> QED
    BY <2>1, <2>2, <2>3, BuffersAre, BuffersAreNext DEF CountsOK
<1>3. CASE DeleteVolume \/ Delete \/ DeviceChange
  <2>1. calls' = calls /\ permits' = permits /\ pools' = pools
    BY <1>3 DEF DeleteVolume, Delete, DeviceChange
  <2>2. history'.dropped = history.dropped /\ history'.mismatches = history.mismatches
    BY <1>3, EngineValues DEF DeleteVolume, Delete, DeviceChange, Histories
  <2> QED
    BY <2>1, <2>2, QuietCounts DEF Holding, Writers
<1>4. ASSUME NEW c \in Callers, Call(c) PROVE CountsOK'
  <2>1. CASE OpenDevice(c)
    BY <2>1, QuietCounts DEF OpenDevice, Holding, Writers
  <2>2. CASE \/ BeginCreate(c) \/ StoreVolume(c) \/ BeginWrite(c) \/ WriteShard(c) \/ BeginRead(c)
             \/ ReadShard(c) \/ BeginHealth(c) \/ BeginStripe(c) \/ CheckShard(c) \/ Report(c)
    BY <2>2, QuietOps, QuietCall
  <2>3. CASE Encode(c) \/ WriteFails(c) \/ StoreMetadata(c)
    BY <2>3, EncodeCounts, WriteFailsCounts, StoreMetadataCounts
  <2> QED
    BY <1>1, <1>2, <1>4, <2>1, <2>2, <2>3 DEF Call
<1>5. CASE UNCHANGED vars
  BY <1>5, QuietCounts DEF vars, Holding, Writers
<1> QED
  BY <1>3, <1>4, <1>5, VerifyCounts DEF Next

-----------------------------------------------------------------------------
(* The engine: which devices are shown as open.                            *)

HistoryKeeps ==
  history.reregistered \subseteq history'.reregistered /\ history.crossed \subseteq history'.crossed

LEMMA MarksStay ==
  ASSUME MarksOK, UNCHANGED <<devices, handles>>, HistoryKeeps, NEW c \in Callers,
         \A e \in Callers \ {c} : io'[e] = io[e] /\ calls'[e] = calls[e],
         io[c].at # "mark", io'[c].at # "mark", io'[c].at # "none" => calls'[c].op \in Working
  PROVE  MarksOK'
<1>1. \A e \in Callers : io'[e].at # "none" => calls'[e].op \in Working
  BY DEF MarksOK
<1>2. \A e \in Callers : io'[e].at = "mark" => io'[e] = io[e]
  OBVIOUS
<1>3. \A e \in Callers : io[e].at = "mark" => io'[e] = io[e]
  OBVIOUS
<1>4. \A e \in Callers : io'[e].at = "mark" => io'[e].device \in DOMAIN handles' \union history'.crossed
  BY <1>2 DEF MarksOK, HistoryKeeps
<1>5. OpenDevicesAreMarked'
  BY <1>3 DEF MarksOK, OpenDevicesAreMarked, HistoryKeeps
<1> QED
  BY <1>1, <1>4, <1>5 DEF MarksOK

LEMMA MarksSame ==
  ASSUME MarksOK, UNCHANGED <<devices, handles, io, calls>>, HistoryKeeps
  PROVE  MarksOK'
BY DEF MarksOK, OpenDevicesAreMarked, HistoryKeeps

\* The step of a call that begins, ends or waits, and so does no I/O.
LEMMA MarksIdle ==
  ASSUME EngineOK, MarksOK, NEW c \in Callers, NEW a, calls' = [calls EXCEPT ![c] = a],
         UNCHANGED bdevVars, HistoryKeeps, calls[c].op \notin Working
  PROVE  MarksOK'
<1>1. io[c].at = "none"
  BY DEF MarksOK
<1>2. \A e \in Callers \ {c} : calls'[e] = calls[e]
  BY CallSets
<1> QED
  BY <1>1, <1>2, MarksStay DEF bdevVars

LEMMA HistorySame ==
  ASSUME EngineOK, \/ history' = history
                   \/ history' = [history EXCEPT !.calls = @ + 1]
                   \/ history' = [history EXCEPT !.dropped = @ + 1]
                   \/ \E S : history' = [history EXCEPT !.gone = S]
                   \/ \E S : history' = [history EXCEPT !.changes = @ + 1, !.gone = S]
                   \/ \E n : history' = [history EXCEPT !.changes = @ + 1, !.mismatches = n]
  PROVE  HistoryKeeps /\ history'.failed = history.failed
<1>1. history \in Histories
  BY EngineValues
<1> QED
  BY <1>1 DEF HistoryKeeps, Histories

\* The steps of a call that do no I/O.
LEMMA IdleMarks ==
  ASSUME EngineOK, MarksOK, NEW c \in Callers,
         \/ BeginCreate(c) \/ StoreVolume(c) \/ BeginWrite(c) \/ StoreMetadata(c) \/ BeginRead(c)
         \/ Decode(c) \/ BeginHealth(c) \/ Report(c)
  PROVE  MarksOK'
<1>1. ASSUME NEW a, Begins(c, a) PROVE MarksOK'
  <2>1. calls[c].op = "none" /\ calls' = [calls EXCEPT ![c] = a] /\ UNCHANGED bdevVars
        /\ history' = [history EXCEPT !.calls = @ + 1]
    BY <1>1, CallValues DEF Begins, Becomes
  <2> QED
    BY <2>1, HistorySame, MarksIdle DEF Working
<1>2. CASE BeginCreate(c) \/ BeginWrite(c) \/ BeginRead(c) \/ BeginHealth(c)
  BY <1>1, <1>2 DEF BeginCreate, BeginWrite, BeginRead, BeginHealth
<1>3. CASE StoreVolume(c)
  <2>1. calls[c].op = "create" /\ calls' = [calls EXCEPT ![c] = NoCall] /\ UNCHANGED bdevVars
    BY <1>3 DEF StoreVolume, Is, Becomes
  <2>2. \E S : history' = [history EXCEPT !.gone = S]
    BY <1>3 DEF StoreVolume
  <2> QED
    BY <2>1, <2>2, HistorySame, MarksIdle DEF Working
<1>4. CASE StoreMetadata(c) \/ Decode(c) \/ Report(c)
  <2>1. calls[c].op \in {"store", "decode", "health"} /\ calls' = [calls EXCEPT ![c] = NoCall]
        /\ UNCHANGED bdevVars /\ history' = history
    BY <1>4 DEF StoreMetadata, Decode, Report, Is, Becomes
  <2> QED
    BY <2>1, HistorySame, MarksIdle DEF Working
<1> QED
  BY <1>2, <1>3, <1>4

\* The steps of a call that begin or end the I/O of a shard.
LEMMA ShardMarks ==
  ASSUME EngineOK, MarksOK, NEW c \in Callers,
         \/ Encode(c) \/ WriteFails(c) \/ WriteShard(c) \/ Locate(c) \/ ReadShard(c)
         \/ BeginStripe(c) \/ CheckShard(c)
  PROVE  MarksOK'
<1>1. UNCHANGED <<devices, handles>>
  <2>1. CASE Encode(c) \/ Locate(c)
    BY <2>1 DEF Encode, Locate, ShardIo
  <2>2. CASE WriteFails(c) \/ WriteShard(c) \/ ReadShard(c) \/ CheckShard(c)
    BY <2>2 DEF WriteFails, WriteShard, ReadShard, CheckShard
  <2>3. CASE BeginStripe(c)
    BY <2>3, BeginStripeIs
  <2> QED
    BY <2>1, <2>2, <2>3
<1>2. HistoryKeeps
  BY HistorySame DEF Encode, WriteFails, WriteShard, Locate, ReadShard, BeginStripe, CheckShard
<1>3. \A v \in 1..Len(volumes) : \A i \in ShardIndices : Starts(device_for_shard(v, i)).at = "open"
  BY EngineValues, DeviceIs, IoValues
<1>4. io[c].at # "mark"
  <2>1. CASE Encode(c) \/ Locate(c) \/ BeginStripe(c)
    <3>1. calls[c].op \notin Working
      BY <2>1 DEF Encode, Locate, BeginStripe, Is, Working
    <3> QED
      BY <3>1 DEF MarksOK
  <2>2. CASE WriteFails(c) \/ WriteShard(c) \/ ReadShard(c) \/ CheckShard(c)
    BY <2>2 DEF WriteFails, WriteShard, ReadShard, CheckShard, Done
  <2> QED
    BY <2>1, <2>2
<1>5. /\ \A e \in Callers \ {c} : io'[e] = io[e] /\ calls'[e] = calls[e]
      /\ io'[c].at # "mark" /\ (io'[c].at # "none" => calls'[c].op \in Working)
  <2>0. 1 \in ShardIndices
    BY EngineNumbers
  <2>1. CASE Encode(c)
    <3>1. PICK v \in 1..Len(volumes), a \in CallStates :
           /\ calls' = [calls EXCEPT ![c] = a] /\ calls'[c] = a /\ a.op = "write"
           /\ \A e \in Callers \ {c} : io'[e] = io[e]
           /\ io'[c] = Starts(device_for_shard(v, 1))
      <4>1. PICK vol \in 1..Len(volumes), new \in CallStates : Encoded(c, vol, new)
        BY <2>1, EncodeIs
      <4> QED
        BY <4>1 DEF Encoded
    <3> QED
      BY <1>3, <2>0, <3>1, CallSets DEF Working
  <2>2. CASE Locate(c)
    <3>1. PICK a \in CallStates :
           /\ calls[c].op = "locate"
           /\ calls' = [calls EXCEPT ![c] = a] /\ calls'[c] = a
           /\ a.op = "read" /\ a.vol = calls[c].vol
           /\ \A e \in Callers \ {c} : io'[e] = io[e]
           /\ io'[c] = Starts(device_for_shard(a.vol, 1))
      BY <2>2, LocateIs, Zenon
    <3>2. a.vol \in 1..Len(volumes)
      BY <3>1, EngineFacts DEF CallOK, Reading
    <3> QED
      BY <1>3, <2>0, <3>1, <3>2, CallSets DEF Working
  <2>3. CASE BeginStripe(c)
    <3>1. PICK a \in CallStates :
           /\ calls' = [calls EXCEPT ![c] = a] /\ calls'[c] = a
           /\ \A e \in Callers \ {c} : io'[e] = io[e]
           /\ \/ /\ calls[c].name \in DOMAIN named /\ a.vol = named[calls[c].name]
                 /\ a.op = "check" /\ io'[c] = Starts(device_for_shard(a.vol, 1))
              \/ a.op = "health" /\ io' = io
      BY <2>3, BeginStripeIs, Zenon
    <3>2. calls[c].op = "health"
      BY <2>3 DEF BeginStripe, Is
    <3>3. io[c].at = "none"
      BY <3>2 DEF MarksOK, Working
    <3>4. CASE a.op = "check"
      <4>1. a.vol \in 1..Len(volumes)
        BY <3>1, <3>4, NamedIs
      <4> QED
        BY <1>3, <2>0, <3>1, <3>4, <4>1, CallSets DEF Working
    <3>5. CASE a.op = "health"
      BY <3>1, <3>3, <3>5, CallSets
    <3> QED
      BY <3>1, <3>4, <3>5
  <2>4. CASE WriteShard(c)
    <3>1. PICK a \in CallStates, x \in IoStates :
           /\ calls' = [calls EXCEPT ![c] = a] /\ calls'[c] = a /\ io'[c] = x
           /\ \A e \in Callers \ {c} : io'[e] = io[e]
           /\ x.at \notin {"opened", "mark"} /\ (a.op = "write" \/ x = NoIo)
      BY <2>4, WriteShardIs
    <3> QED
      BY <3>1, CallSets, IoValues DEF Working
  <2>5. CASE ReadShard(c)
    <3>1. PICK a \in CallStates, x \in IoStates :
           /\ calls' = [calls EXCEPT ![c] = a] /\ calls'[c] = a /\ io'[c] = x
           /\ \A e \in Callers \ {c} : io'[e] = io[e]
           /\ x.at \notin {"opened", "mark"} /\ (a.op = "read" \/ x = NoIo)
      BY <2>5, ReadShardIs
    <3> QED
      BY <3>1, CallSets, IoValues DEF Working
  <2>6. CASE CheckShard(c)
    <3>1. PICK a \in CallStates, x \in IoStates :
           /\ calls' = [calls EXCEPT ![c] = a] /\ calls'[c] = a /\ io'[c] = x
           /\ \A e \in Callers \ {c} : io'[e] = io[e]
           /\ x.at \notin {"opened", "mark"} /\ (a.op = "check" \/ x = NoIo)
      <4>1. PICK old \in CallStates, new \in CallStates, at \in IoStates : Checked(c, old, new, at)
        BY <2>6, CheckShardIs
      <4> QED
        BY <4>1 DEF Checked
    <3> QED
      BY <3>1, CallSets, IoValues DEF Working
  <2>7. CASE WriteFails(c)
    <3>1. calls' = [calls EXCEPT ![c] = NoCall] /\ io' = [io EXCEPT ![c] = NoIo]
      BY <2>7 DEF WriteFails, Ends, Becomes
    <3> QED
      BY <3>1, CallSets, EngineFacts, IoValues
  <2> QED
    BY <2>1, <2>2, <2>3, <2>4, <2>5, <2>6, <2>7
<1> QED
  BY <1>1, <1>2, <1>4, <1>5, MarksStay

\* Opening a device: the task that put the handle into the table marks the device,
\* unless all was closed meanwhile.
LEMMA OpenMarks ==
  ASSUME EngineOK, MarksOK, NEW c \in Callers, OpenDevice(c)
  PROVE  MarksOK'
<1>1. calls' = calls /\ history' = history /\ Open(c)
  BY DEF OpenDevice
<1>2. io \in [Callers -> IoStates] /\ io[c] \in IoStates /\ devices \in [DOMAIN devices -> BOOLEAN]
  BY EngineFacts DEF DevicesOK
<1>3. \A e \in Callers \ {c} : io'[e] = io[e]
  BY <1>1, EngineFacts, OpenIs
<1>4. HistoryKeeps
  BY <1>1 DEF HistoryKeeps
<1>5. io[c].at # "none"
  BY <1>1 DEF Open, LookUp, Install, NotFound, Mark
<1>6. calls[c].op \in Working
  BY <1>5 DEF MarksOK
<1>7. CASE LookUp(c) \/ NotFound(c)
  <2>1. UNCHANGED <<devices, handles>> /\ io[c].at # "mark"
    BY <1>7 DEF LookUp, NotFound
  <2>2. io'[c].at # "mark"
    <3>1. CASE LookUp(c)
      <4>1. io'[c] = IF io[c].device \in DOMAIN handles
                       THEN [io[c] EXCEPT !.at = "opened", !.handle = handles[io[c].device]]
                       ELSE [io[c] EXCEPT !.at = "absent"]
        BY <1>2, <3>1 DEF LookUp
      <4> QED
        BY <1>2, <4>1 DEF IoStates
    <3>2. CASE NotFound(c)
      <4>1. io'[c] = [io[c] EXCEPT !.at = "failed"]
        BY <1>2, <3>2 DEF NotFound
      <4> QED
        BY <1>2, <4>1 DEF IoStates
    <3> QED
      BY <1>7, <3>1, <3>2
  <2> QED
    BY <1>1, <1>3, <1>4, <1>6, <2>1, <2>2, MarksStay
<1>8. CASE Install(c)
  <2> DEFINE d == io[c].device
  <2>1. /\ devices' = devices /\ handles' = Inserted(handles, d, Len(stores) + 1)
        /\ io[c].at = "absent" /\ io' = [io EXCEPT ![c].at = "mark", ![c].handle = Len(stores) + 1]
    BY <1>8 DEF Install
  <2>2. DOMAIN handles' = DOMAIN handles \union {d}
    BY <2>1 DEF Inserted
  <2>3. io'[c].at = "mark" /\ io'[c].device = d
    <3>1. io'[c] = [io[c] EXCEPT !.at = "mark", !.handle = Len(stores) + 1]
      BY <1>2, <2>1
    <3> QED
      BY <1>2, <3>1 DEF IoStates
  <2>4. \A e \in Callers : io'[e].at # "none" => calls'[e].op \in Working
    BY <1>1, <1>3, <1>6 DEF MarksOK
  <2>5. \A e \in Callers : io'[e].at = "mark" => io'[e].device \in DOMAIN handles' \union history'.crossed
    BY <1>1, <1>3, <2>2, <2>3 DEF MarksOK
  <2>6. OpenDevicesAreMarked'
    <3>1. ASSUME NEW b \in DOMAIN devices', b # d
          PROVE  \/ \E e \in Callers : io'[e].at = "mark" /\ io'[e].device = b
                 \/ b \in history'.reregistered \union history'.crossed
                 \/ devices'[b] = (b \in DOMAIN handles')
      <4>1. \A e \in Callers : io[e].at = "mark" => io'[e] = io[e]
        BY <1>3, <2>1
      <4>2. (b \in DOMAIN handles') = (b \in DOMAIN handles)
        BY <2>2, <3>1
      <4>3. \/ \E e \in Callers : io[e].at = "mark" /\ io[e].device = b
            \/ b \in history.reregistered \union history.crossed
            \/ devices[b] = (b \in DOMAIN handles)
        BY <2>1 DEF MarksOK, OpenDevicesAreMarked
      <4>4. devices[b] = (b \in DOMAIN handles) => devices'[b] = (b \in DOMAIN handles')
        BY <2>1, <4>2, Zenon
      <4> QED
        BY <1>1, <4>1, <4>3, <4>4, Zenon
    <3> QED
      BY <2>3, <3>1 DEF OpenDevicesAreMarked
  <2> QED
    BY <2>4, <2>5, <2>6 DEF MarksOK
<1>9. CASE Mark(c)
  <2> DEFINE d == io[c].device
  <2>1. /\ devices' = [devices EXCEPT ![d] = TRUE] /\ handles' = handles
        /\ io[c].at = "mark" /\ io' = [io EXCEPT ![c].at = "opened"]
    BY <1>9 DEF Mark
  <2>2. DOMAIN devices' = DOMAIN devices /\ \A b \in DOMAIN devices : devices'[b] = IF b = d THEN TRUE ELSE devices[b]
    BY <2>1
  <2>3. io'[c].at = "opened"
    <3>1. io'[c] = [io[c] EXCEPT !.at = "opened"]
      BY <1>2, <2>1
    <3> QED
      BY <1>2, <3>1 DEF IoStates
  <2>4. \A e \in Callers : io'[e].at # "none" => calls'[e].op \in Working
    BY <1>1, <1>3, <1>6 DEF MarksOK
  <2>5. \A e \in Callers : io'[e].at = "mark" => io'[e].device \in DOMAIN handles' \union history'.crossed
    BY <1>1, <1>3, <2>1, <2>3 DEF MarksOK
  <2>6. d \in DOMAIN handles \union history.crossed
    BY <2>1 DEF MarksOK
  <2>7. OpenDevicesAreMarked'
    <3>1. ASSUME NEW b \in DOMAIN devices', b # d
          PROVE  \/ \E e \in Callers : io'[e].at = "mark" /\ io'[e].device = b
                 \/ b \in history'.reregistered \union history'.crossed
                 \/ devices'[b] = (b \in DOMAIN handles')
      <4>1. \A e \in Callers : io[e].at = "mark" /\ io[e].device = b => io'[e] = io[e]
        BY <1>3, <3>1
      <4>2. devices'[b] = devices[b]
        BY <2>2, <3>1
      <4>3. \/ \E e \in Callers : io[e].at = "mark" /\ io[e].device = b
            \/ b \in history.reregistered \union history.crossed
            \/ devices[b] = (b \in DOMAIN handles)
        BY <2>2 DEF MarksOK, OpenDevicesAreMarked
      <4> QED
        BY <1>1, <2>1, <4>1, <4>2, <4>3
    <3>2. d \in DOMAIN devices' => d \in history'.crossed \/ devices'[d] = (d \in DOMAIN handles')
      <4>1. CASE d \in DOMAIN handles /\ d \in DOMAIN devices'
        <5>1. devices'[d] = TRUE
          BY <2>2, <4>1
        <5>2. (d \in DOMAIN handles') = TRUE
          BY <2>1, <4>1
        <5> QED
          BY <5>1, <5>2
      <4>2. CASE d \in history.crossed
        BY <1>1, <4>2
      <4> QED
        BY <2>6, <4>1, <4>2
    <3> QED
      BY <3>1, <3>2 DEF OpenDevicesAreMarked
  <2> QED
    BY <2>4, <2>5, <2>7 DEF MarksOK
<1> QED
  BY <1>1, <1>7, <1>8, <1>9 DEF Open

\* Devices that come and go: what is registered again, or was being opened when it was
\* closed, is remembered.
LEMMA TableMarks ==
  ASSUME EngineOK, MarksOK, DeviceChange
  PROVE  MarksOK'
<1>1. io' = io /\ calls' = calls
  BY EngineValues, TableIs DEF DeviceChange
<1>2. history \in Histories /\ devices \in [DOMAIN devices -> BOOLEAN] /\ DOMAIN handles \subseteq DOMAIN devices
  BY EngineValues DEF DevicesOK
<1>3. ASSUME NEW d \in Devices, Register(d), history' = [history EXCEPT !.changes = @ + 1,
               !.reregistered = IF d \in DOMAIN handles THEN @ \union {d} ELSE @]
      PROVE  MarksOK'
  <2>1. devices' = Inserted(devices, d, FALSE) /\ handles' = handles
    BY <1>3 DEF Register
  <2>2. \A b \in DOMAIN devices' : b = d \/ (b \in DOMAIN devices /\ devices'[b] = devices[b])
    BY <2>1 DEF Inserted
  <2>3. d \in DOMAIN devices' /\ devices'[d] = FALSE
    BY <2>1 DEF Inserted
  <2>4. /\ history'.crossed = history.crossed
        /\ history'.reregistered = IF d \in DOMAIN handles THEN history.reregistered \union {d}
                                   ELSE history.reregistered
    BY <1>2, <1>3 DEF Histories
  <2>5. ASSUME NEW b \in DOMAIN devices'
        PROVE  \/ \E c \in Callers : io'[c].at = "mark" /\ io'[c].device = b
               \/ b \in history'.reregistered \union history'.crossed
               \/ devices'[b] = (b \in DOMAIN handles')
    <3>1. CASE b # d
      <4>1. b \in DOMAIN devices /\ devices'[b] = devices[b]
        BY <2>2, <3>1
      <4>2. \/ \E c \in Callers : io[c].at = "mark" /\ io[c].device = b
            \/ b \in history.reregistered \union history.crossed
            \/ devices[b] = (b \in DOMAIN handles)
        BY <4>1 DEF MarksOK, OpenDevicesAreMarked
      <4>3. history.reregistered \subseteq history'.reregistered
        BY <2>4
      <4>4. devices[b] = (b \in DOMAIN handles) => devices'[b] = (b \in DOMAIN handles')
        BY <2>1, <4>1, Zenon
      <4> QED
        BY <1>1, <2>4, <4>2, <4>3, <4>4
    <3>2. CASE b = d /\ d \in DOMAIN handles
      BY <2>4, <3>2
    <3>3. CASE b = d /\ d \notin DOMAIN handles
      <4>1. (b \in DOMAIN handles') = FALSE
        BY <2>1, <3>3
      <4> QED
        BY <2>3, <3>3, <4>1, Zenon
    <3> QED
      BY <3>1, <3>2, <3>3
  <2> QED
    BY <1>1, <2>1, <2>4, <2>5 DEF MarksOK, OpenDevicesAreMarked
<1>4. ASSUME CloseAll \/ \E d \in Devices : Close(d),
             history' = [history EXCEPT !.changes = @ + 1,
               !.crossed = @ \union {io[c].device : c \in {c \in Callers : io[c].at = "mark"}}]
      PROVE  MarksOK'
  <2>1. /\ history'.crossed = history.crossed \union {io[c].device : c \in {c \in Callers : io[c].at = "mark"}}
        /\ history'.reregistered = history.reregistered
    BY <1>2, <1>4 DEF Histories
  <2>2. \A c \in Callers : io[c].at = "mark" => io[c].device \in history'.crossed
    BY <2>1
  <2>3. DOMAIN devices' = DOMAIN devices
    BY <1>4 DEF CloseAll, Close
  <2>4. ASSUME NEW b \in DOMAIN devices
        PROVE  \/ devices'[b] = FALSE /\ b \notin DOMAIN handles'
               \/ devices'[b] = devices[b] /\ (b \in DOMAIN handles') = (b \in DOMAIN handles)
    <3>1. CASE CloseAll
      BY <3>1 DEF CloseAll
    <3>2. ASSUME NEW d \in Devices, Close(d)
          PROVE  \/ devices'[b] = FALSE /\ b \notin DOMAIN handles'
                 \/ devices'[b] = devices[b] /\ (b \in DOMAIN handles') = (b \in DOMAIN handles)
      <4>1. devices' = [devices EXCEPT ![d] = FALSE] /\ DOMAIN handles' = DOMAIN handles \ {d}
        BY <3>2 DEF Close, Restrict
      <4>2. CASE b = d
        BY <4>1, <4>2
      <4>3. CASE b # d
        <5>1. devices'[b] = devices[b]
          BY <4>1, <4>3
        <5>2. (b \in DOMAIN handles') = (b \in DOMAIN handles)
          BY <4>1, <4>3
        <5> QED
          BY <5>1, <5>2, Zenon
      <4> QED
        BY <4>2, <4>3
    <3> QED
      BY <1>4, <3>1, <3>2
  <2>5. ASSUME NEW b \in DOMAIN devices'
        PROVE  \/ \E c \in Callers : io'[c].at = "mark" /\ io'[c].device = b
               \/ b \in history'.reregistered \union history'.crossed
               \/ devices'[b] = (b \in DOMAIN handles')
    <3>1. b \in DOMAIN devices
      BY <2>3
    <3>2. CASE devices'[b] = FALSE /\ b \notin DOMAIN handles'
      <4>1. (b \in DOMAIN handles') = FALSE
        BY <3>2
      <4> QED
        BY <3>2, <4>1, Zenon
    <3>3. CASE devices'[b] = devices[b] /\ (b \in DOMAIN handles') = (b \in DOMAIN handles)
      <4>1. \/ \E c \in Callers : io[c].at = "mark" /\ io[c].device = b
            \/ b \in history.reregistered \union history.crossed
            \/ devices[b] = (b \in DOMAIN handles)
        BY <3>1 DEF MarksOK, OpenDevicesAreMarked
      <4>2. devices[b] = (b \in DOMAIN handles) => devices'[b] = (b \in DOMAIN handles')
        BY <3>3, Zenon
      <4>3. b \in history.reregistered \union history.crossed => b \in history'.reregistered \union history'.crossed
        BY <2>1
      <4> QED
        BY <1>1, <4>1, <4>2, <4>3, Zenon
    <3> QED
      BY <2>4, <3>1, <3>2, <3>3
  <2>6. \A c \in Callers : io'[c].at = "mark" => io'[c].device \in DOMAIN handles' \union history'.crossed
    BY <1>1, <2>2
  <2>7. \A c \in Callers : io'[c].at # "none" => calls'[c].op \in Working
    BY <1>1 DEF MarksOK
  <2> QED
    BY <2>5, <2>6, <2>7 DEF MarksOK, OpenDevicesAreMarked
<1>5. ASSUME NEW d \in Devices, Fault(d) \/ Repair(d),
             \/ history' = [history EXCEPT !.changes = @ + 1]
             \/ history' = [history EXCEPT !.changes = @ + 1, !.failed = @ \union {d}]
      PROVE  MarksOK'
  <2>1. UNCHANGED <<devices, handles>>
    BY <1>5 DEF Fault, Repair
  <2>2. HistoryKeeps
    BY <1>2, <1>5 DEF HistoryKeeps, Histories
  <2> QED
    BY <1>1, <2>1, <2>2, MarksSame
<1>6. CASE \E d \in Devices : Register(d) /\ history' = [history EXCEPT !.changes = @ + 1,
          !.reregistered = IF d \in DOMAIN handles THEN @ \union {d} ELSE @]
  BY <1>3, <1>6
<1>7. CASE /\ \/ CloseAll
              \/ \E d \in Devices : Close(d)
           /\ history' = [history EXCEPT !.changes = @ + 1,
               !.crossed = @ \union {io[c].device : c \in {c \in Callers : io[c].at = "mark"}}]
  BY <1>4, <1>7
<1>8. CASE \/ \E d \in Devices : Fault(d) /\ history' = [history EXCEPT !.changes = @ + 1,
                !.failed = @ \union {d}]
           \/ \E d \in Devices : Repair(d) /\ history' = [history EXCEPT !.changes = @ + 1]
  BY <1>5, <1>8
<1> QED
  BY <1>6, <1>7, <1>8 DEF DeviceChange

LEMMA MarksNext ==
  ASSUME EngineOK, MarksOK, [Next]_vars
  PROVE  MarksOK'
<1>1. CASE DeleteVolume \/ Delete \/ Verify
  <2>1. UNCHANGED <<devices, handles, io, calls>>
    BY <1>1 DEF DeleteVolume, Delete, Verify, bdevVars
  <2>2. HistoryKeeps
    BY <1>1, HistorySame DEF DeleteVolume, Delete, Verify
  <2> QED
    BY <2>1, <2>2, MarksSame
<1>2. CASE UNCHANGED vars
  BY <1>2, MarksSame DEF vars, bdevVars, HistoryKeeps
<1>3. ASSUME NEW c \in Callers, Call(c) PROVE MarksOK'
  BY <1>3, IdleMarks, ShardMarks, OpenMarks DEF Call
<1> QED
  BY <1>1, <1>2, <1>3, TableMarks DEF Next

-----------------------------------------------------------------------------
(* The engine: what it holds.                                              *)

\* A pool begins with whole stripes of buffers, as many as it has room for.
LEMMA PoolStarts ==
  ASSUME NEW n \in Nat, n > 0
  PROVE  Pool(n) \in PoolStates /\ Balanced(Pool(n), 0) /\ Pool(n).free <= Pool(n).cap
<1>1. MaxConcurrent \in Nat /\ PoolSize \in Nat /\ PoolSize \div n \in Nat
  BY EcEngineAssumption
<1>2. PoolSize \div n <= PoolSize
  BY <1>1, EcEngineAssumption
<1>3. PICK m \in Nat : m = Min({MaxConcurrent, PoolSize \div n}) /\ m <= PoolSize
  BY <1>1, <1>2, SmallerOf
<1>4. n * m \in Nat /\ PoolSize * n \in Nat /\ n * m <= PoolSize * n
  <2>1. PICK k \in Nat : k = PoolSize - m
    BY <1>1, <1>3
  <2>2. PoolSize = m + k
    BY <1>1, <1>3, <2>1
  <2>3. (m + k) * n = n * m + n * k /\ n * k \in Nat /\ n * m \in Nat
    OBVIOUS
  <2> QED
    BY <2>2, <2>3
<1>5. PICK made \in Nat, cap \in Nat : made = n * m /\ cap = PoolSize * n
  BY <1>4
<1>6. Pool(n) = [free |-> made, made |-> made, over |-> 0, cap |-> cap]
  BY <1>3, <1>5 DEF Pool
<1> QED
  BY <1>4, <1>5, <1>6 DEF PoolStates, Balanced

LEMMA EngineStarts ==
  ASSUME Init
  PROVE  EngineOK
<1>1. DevicesOK
  <2>1. NoIo \in IoStates /\ NoIo.at = "none" /\ NoIo.handle = NoHandle
    BY IoValues
  <2>2. Known \subseteq Devices
    BY DEF Devices
  <2>3. << >> \in Seq(Handles) /\ DOMAIN << >> = {}
    OBVIOUS
  <2>4. handles \in [DOMAIN handles -> HandleIds] /\ DOMAIN handles = {}
    BY <2>3 DEF Init, BdevInit
  <2>5. devices \in [DOMAIN devices -> BOOLEAN] /\ DOMAIN devices = Known
    BY DEF Init, BdevInit
  <2>6. io \in [Callers -> IoStates]
    BY <2>1 DEF Init, BdevInit
  <2>7. \A c \in Callers : IoOK(c)
    BY <2>1 DEF Init, BdevInit, IoOK
  <2> QED
    BY <2>2, <2>3, <2>4, <2>5, <2>6, <2>7 DEF Init, BdevInit, DevicesOK
<1>2. VolumesOK
  <2>1. volumes = << >> /\ volumes \in Seq(VolumeStates) /\ Len(volumes) = 0
    BY DEF Init
  <2>2. named \in [DOMAIN named -> 1..Len(volumes)] /\ DOMAIN named = {}
    BY DEF Init
  <2> QED
    BY <2>1, <2>2 DEF VolumesOK
<1>3. calls \in [Callers -> CallStates] /\ \A c \in Callers : calls[c] = NoCall
  BY CallValues DEF Init
<1>4. \A c \in Callers : CallOK(c)
  BY <1>3, CallValues DEF CallOK, Writing, Reading
<1>5. permits \in Nat
  BY EcEngineAssumption DEF Init
<1>6. Pool(K) \in PoolStates /\ Pool(M) \in PoolStates
  BY PoolStarts, EngineNumbers
<1>7. pools \in [data : PoolStates, parity : PoolStates]
  BY <1>6 DEF Init
<1>8. history \in Histories
  BY DEF Init, Histories
<1> QED
  BY <1>1, <1>2, <1>3, <1>4, <1>5, <1>7, <1>8 DEF EngineOK

LEMMA CountsStart ==
  ASSUME Init
  PROVE  CountsOK /\ MarksOK
<1>1. \A c \in Callers : calls[c].op = "none" /\ io[c].at = "none"
  BY CallValues, IoValues DEF Init, BdevInit
<1>2. Holding = {} /\ Writers = {}
  BY <1>1 DEF Holding, Writers, Writing
<1>3. Cardinality(Holding) = 0 /\ Cardinality(Writers) = 0
  BY <1>2, FS_EmptySet
<1>4. permits + Cardinality(Holding) = MaxConcurrent
  BY <1>3, EcEngineAssumption DEF Init
<1>5. /\ pools.data = Pool(K) /\ pools.parity = Pool(M)
      /\ Balanced(Pool(K), 0) /\ Pool(K).free <= Pool(K).cap
      /\ Balanced(Pool(M), 0) /\ Pool(M).free <= Pool(M).cap
  BY PoolStarts, EngineNumbers DEF Init
<1>6. K * (Cardinality(Writers) + history.dropped) = 0
      /\ M * (Cardinality(Writers) + history.dropped + history.mismatches) = 0
  BY <1>3, EngineNumbers DEF Init
<1>7. BuffersAreReturned
  BY <1>5, <1>6, BuffersAre
<1>8. \A d \in DOMAIN devices : devices[d] = (d \in DOMAIN handles)
  <2> SUFFICES ASSUME NEW d \in DOMAIN devices PROVE devices[d] = (d \in DOMAIN handles)
    OBVIOUS
  <2>1. devices[d] = FALSE
    BY DEF Init, BdevInit
  <2>2. DOMAIN handles = {}
    BY DEF Init, BdevInit
  <2>3. (d \in DOMAIN handles) = FALSE
    BY <2>2
  <2> QED
    BY <2>1, <2>3, Zenon
<1>9. MarksOK
  BY <1>1, <1>8 DEF MarksOK, OpenDevicesAreMarked
<1> QED
  BY <1>4, <1>5, <1>7, <1>9 DEF CountsOK

\* Buffers and open devices stay accounted for, however calls, deletions, mismatches
\* and changes of devices interleave.
THEOREM ResourcesStayTracked == Spec => []ResourcesAreTracked
<1> DEFINE Inv == EngineOK /\ CountsOK /\ MarksOK
<1>1. Init => Inv
  BY EngineStarts, CountsStart
<1>2. Inv /\ [Next]_vars => Inv'
  <2>1. ASSUME Inv, [Next]_vars PROVE EngineOK'
    BY <2>1, EngineNext DEF EngineStep
  <2> QED
    BY <2>1, CountsNext, MarksNext
<1>3. Inv => ResourcesAreTracked
  BY DEF ResourcesAreTracked, CountsOK, MarksOK
<1> QED
  BY <1>1, <1>2, <1>3, PTL DEF Spec

-----------------------------------------------------------------------------
(* The engine: shards stay where they were written.                        *)

LEMMA CollidesStays ==
  ASSUME EngineOK, EngineStep, NEW v \in 1..Len(volumes), NEW s \in Nat, Collides(v, s)
  PROVE  Collides(v, s)'
<1>1. PICK w \in 1..Len(volumes) \ {v} :
        /\ volumes[w].next > s
        /\ Range(volumes[w].devices) \intersect Range(volumes[v].devices) # {}
  BY DEF Collides
<1>2. /\ Len(volumes) \in Nat /\ Len(volumes') \in Nat
      /\ volumes[w].next \in Nat /\ volumes'[w].next \in Nat
  <2>1. volumes \in Seq(VolumeStates) /\ volumes' \in Seq(VolumeStates)
    BY DEF EngineStep, EngineOK, VolumesOK
  <2>2. Len(volumes) \in Nat /\ Len(volumes') \in Nat /\ w \in 1..Len(volumes')
    BY <2>1 DEF EngineStep, VolumesGrow
  <2> QED
    BY <2>1, <2>2, ListOfVolumes
<1>3. /\ w \in 1..Len(volumes') \ {v} /\ volumes'[w].next > s
      /\ volumes'[w].devices = volumes[w].devices /\ volumes'[v].devices = volumes[v].devices
  BY <1>1, <1>2 DEF EngineStep, VolumesGrow
<1>4. Range(volumes'[w].devices) \intersect Range(volumes'[v].devices) # {}
  BY <1>1, <1>3
<1> QED
  BY <1>3, <1>4 DEF Collides

\* A device of the volume that has a second handle keeps a handle that is not in the
\* table.
LEMMA SplitStays ==
  ASSUME EngineOK, EngineStep, NEW v \in 1..Len(volumes), Split(v)
  PROVE  Split(v)'
<1>1. PICK h \in HandleIds :
        /\ stores[h].device \in Range(volumes[v].devices)
        /\ stores[h].device \notin DOMAIN handles \/ handles[stores[h].device] # h
  BY DEF Split
<1>2. PICK d : d = stores[h].device
  OBVIOUS
<1>3. Len(stores) \in Nat /\ h \in Nat /\ h <= Len(stores) /\ h \in HandleIds'
  <2>1. Len(stores) \in Nat /\ Len(stores') \in Nat
    BY DEF EngineStep, EngineOK, DevicesOK
  <2> QED
    BY <2>1 DEF EngineStep, DevicesGrow, HandleIds
<1>4. stores'[h].device = d /\ volumes'[v].devices = volumes[v].devices
  BY <1>2 DEF EngineStep, DevicesGrow, VolumesGrow
<1>5. d \notin DOMAIN handles' \/ handles'[d] # h
  BY <1>1, <1>2, <1>3 DEF EngineStep, DevicesGrow
<1> QED
  BY <1>1, <1>2, <1>3, <1>4, <1>5 DEF Split

LEMMA SoundWas ==
  ASSUME EngineOK, EngineStep, NEW v \in 1..Len(volumes), NEW s \in Nat, Sound(v, s)'
  PROVE  Sound(v, s)
<1>1. volumes'[v].devices = volumes[v].devices
  BY DEF EngineStep, VolumesGrow
<1>2. ~Collides(v, s)' /\ ~Split(v)' /\ IsInjective(volumes'[v].devices)
  BY DEF Sound
<1> QED
  BY <1>1, <1>2, CollidesStays, SplitStays DEF Sound

\* A handle of a device of a volume of which nothing goes unnoticed is the one in the
\* table.
LEMMA OneHandle ==
  ASSUME NEW v, NEW s, Sound(v, s), NEW h \in HandleIds,
         stores[h].device \in Range(volumes[v].devices)
  PROVE  stores[h].device \in DOMAIN handles /\ handles[stores[h].device] = h
BY DEF Sound, Split

LEMMA OneHandleNext ==
  ASSUME NEW v, NEW s, Sound(v, s)', NEW h \in HandleIds',
         stores'[h].device \in Range(volumes'[v].devices)
  PROVE  stores'[h].device \in DOMAIN handles' /\ handles'[stores'[h].device] = h
BY DEF Sound, Split

\* What a write puts at the place of a shard is that shard, or something the engine does
\* not notice.
LEMMA WritesItsOwn ==
  ASSUME EngineOK, NEW c \in Callers, WriteShard(c), NEW v \in 1..Len(volumes), NEW s \in Nat,
         NEW i \in ShardIndices, Sound(v, s), calls[c].stripe = s,
         io[c].device = device_for_shard(v, i)
  PROVE  calls[c].vol = v /\ calls[c].next = i
<1>1. /\ calls[c].vol \in 1..Len(volumes) /\ calls[c].stripe \in 1..(volumes[calls[c].vol].next - 1)
  BY WriteShardIs
<1>2. PICK w \in 1..Len(volumes) : w = calls[c].vol
  BY <1>1
<1>3. /\ io[c].device = device_for_shard(w, calls[c].next) /\ calls[c].next \in ShardIndices
  BY <1>2, WriteShardStores
<1>4. PICK j \in ShardIndices : j = calls[c].next
  BY <1>3
<1>5. volumes[w].next \in Nat
  BY EngineValues, ListOfVolumes DEF VolumesOK
<1>6. volumes[w].next > s
  BY <1>1, <1>2, <1>5
<1>7. /\ device_for_shard(v, i) = volumes[v].devices[i] /\ i \in DOMAIN volumes[v].devices
      /\ device_for_shard(v, i) \in Range(volumes[v].devices)
      /\ device_for_shard(w, j) \in Range(volumes[w].devices)
      /\ device_for_shard(w, j) = volumes[w].devices[j] /\ j \in DOMAIN volumes[w].devices
  BY EngineValues, DeviceIs
<1>8. w = v
  <2>1. Range(volumes[w].devices) \intersect Range(volumes[v].devices) # {}
    BY <1>3, <1>4, <1>7
  <2> QED
    BY <1>6, <2>1 DEF Sound, Collides
<1>9. volumes[v].devices[i] = volumes[v].devices[j] /\ IsInjective(volumes[v].devices)
  BY <1>3, <1>4, <1>7, <1>8 DEF Sound
<1>10. i = j
  BY <1>7, <1>8, <1>9 DEF IsInjective
<1> QED
  BY <1>2, <1>4, <1>8, <1>10

LEMMA ShardStays ==
  ASSUME EngineOK, [Next]_vars, NEW v \in 1..Len(volumes), NEW s \in Nat, NEW i \in ShardIndices,
         ShardSafe(v, s, i)
  PROVE  ShardSafe(v, s, i)'
<1>0. EngineStep /\ ((\A c \in Callers : ~WriteShard(c)) => BlocksStay)
  BY EngineNext
<1>1. PICK d \in Devices : d = device_for_shard(v, i) /\ d \in Range(volumes[v].devices)
  BY EngineValues, DeviceIs
<1>2. volumes'[v].devices = volumes[v].devices /\ device_for_shard(v, i)' = d
  <2>1. volumes'[v].devices = volumes[v].devices
    BY <1>0 DEF EngineStep, VolumesGrow
  <2> QED
    BY <1>1, <2>1 DEF device_for_shard
<1>3. s \in Slots /\ s \in Offsets /\ d \in DOMAIN devices'
  BY <1>0, <1>1, BlockDeviceAssumption DEF ShardSafe, EngineStep, DevicesGrow
<1>4. ASSUME Sound(v, s)'
      PROVE  d \in DOMAIN handles' /\ stores'[handles'[d]].blocks[s] = Shard(v, s, i)
  <2>1. Sound(v, s)
    BY <1>0, <1>4, SoundWas
  <2>2. d \in DOMAIN handles /\ stores[handles[d]].blocks[s] = Shard(v, s, i)
    BY <1>1, <2>1 DEF ShardSafe
  <2>3. PICK h \in HandleIds : h = handles[d] /\ stores[h].device = d
    BY <2>2, EngineValues DEF DevicesOK
  <2>4. h \in HandleIds' /\ stores'[h].device = d
    <3>1. Len(stores) \in Nat /\ Len(stores') \in Nat
      BY <1>0 DEF EngineStep, EngineOK, DevicesOK
    <3> QED
      BY <1>0, <2>3, <3>1 DEF EngineStep, DevicesGrow, HandleIds
  <2>5. d \in DOMAIN handles' /\ handles'[d] = h
    BY <1>1, <1>2, <1>4, <2>4, OneHandleNext
  <2>6. stores'[h].blocks[s] = Shard(v, s, i)
    <3>1. CASE \A c \in Callers : ~WriteShard(c)
      BY <1>0, <2>2, <2>3, <3>1 DEF BlocksStay
    <3>2. ASSUME NEW c \in Callers, WriteShard(c) PROVE stores'[h].blocks[s] = Shard(v, s, i)
      <4>1. PICK t \in Slots : t = calls[c].stripe
        BY <3>2, WriteShardStores
      <4>2. PICK shard \in BlockContents : shard = Shard(calls[c].vol, calls[c].stripe, calls[c].next)
        BY <3>2, WriteShardStores
      <4>3. io[c].at = "opened" /\ stores' = Written(c, t, shard)
        BY <3>2, <4>1, <4>2, WriteShardStores
      <4>4. /\ stores'[h].blocks[s] = IF h = io[c].handle /\ s = t THEN shard ELSE stores[h].blocks[s]
            /\ stores[io[c].handle].device = io[c].device
        BY <1>3, <4>3, EngineValues, WrittenIs
      <4>5. CASE h = io[c].handle /\ s = t
        <5>1. io[c].device = device_for_shard(v, i)
          BY <1>1, <2>3, <4>4, <4>5
        <5>2. calls[c].vol = v /\ calls[c].next = i
          BY <2>1, <3>2, <4>1, <4>5, <5>1, WritesItsOwn
        <5> QED
          BY <4>1, <4>2, <4>4, <4>5, <5>2
      <4>6. CASE ~(h = io[c].handle /\ s = t)
        BY <2>2, <2>3, <4>4, <4>6
      <4> QED
        BY <4>5, <4>6
    <3> QED
      BY <3>1, <3>2
  <2> QED
    BY <2>5, <2>6
<1> QED
  BY <1>2, <1>3, <1>4 DEF ShardSafe, Shard

\* A shard that was written is safe.
LEMMA WrittenIsSafe ==
  ASSUME EngineOK, NEW c \in Callers, WriteShard(c), NEW v \in 1..Len(volumes), v = calls[c].vol,
         NEW s, s = calls[c].stripe, NEW i \in ShardIndices, i = calls[c].next
  PROVE  ShardSafe(v, s, i)'
<1>0. EngineStep
  BY WriteShardKeeps
<1>1. PICK d \in Devices : d = device_for_shard(v, i) /\ d \in Range(volumes[v].devices)
  BY EngineValues, DeviceIs
<1>2. volumes'[v].devices = volumes[v].devices /\ device_for_shard(v, i)' = d
  <2>1. volumes'[v].devices = volumes[v].devices
    BY <1>0 DEF EngineStep, VolumesGrow
  <2> QED
    BY <1>1, <2>1 DEF device_for_shard
<1>3. PICK shard \in BlockContents : shard = Shard(v, s, i)
  BY WriteShardStores
<1>4. /\ s \in Slots /\ s \in Offsets /\ io[c].at = "opened" /\ io[c].device = d
      /\ stores' = Written(c, s, shard)
  BY <1>1, <1>3, WriteShardStores, BlockDeviceAssumption
<1>5. PICK h \in HandleIds : h = io[c].handle /\ stores[h].device = d /\ d \in DOMAIN devices
  BY <1>4, EngineValues DEF DevicesOK, IoOK
<1>6. h \in HandleIds' /\ stores'[h].device = d /\ stores'[h].blocks[s] = shard
  <2>1. Len(stores') = Len(stores) /\ stores'[h].device = stores[h].device /\ stores'[h].blocks[s] = shard
    BY <1>4, <1>5, EngineValues, WrittenIs
  <2> QED
    BY <1>5, <2>1 DEF HandleIds
<1>7. d \in DOMAIN devices'
  BY <1>0, <1>5 DEF EngineStep, DevicesGrow
<1>8. ASSUME Sound(v, s)' PROVE d \in DOMAIN handles' /\ handles'[d] = h
  BY <1>1, <1>2, <1>6, <1>8, OneHandleNext
<1> QED
  BY <1>2, <1>3, <1>4, <1>6, <1>7, <1>8 DEF ShardSafe, Shard

-----------------------------------------------------------------------------
(* The engine: which stripes are written and read.                         *)

\* The call a step leaves: it goes on with its stripe, takes up one that is in the
\* metadata, or has been given a new id.
Moves(c) ==
  LET old == calls[c]
      new == calls'[c]
  IN
  /\ \A e \in Callers \ {c} : calls'[e] = calls[e]
  /\ new.op \in Reading =>
       \/ old.op \in Reading /\ new.vol = old.vol /\ new.stripe = old.stripe
       \/ new.vol \in 1..Len(volumes) /\ new.stripe \in volumes[new.vol].stripes
  /\ new.op \in Writing =>
       \/ new = old
       \/ /\ WriteShard(c) /\ old.op = "write" /\ new.vol = old.vol /\ new.stripe = old.stripe
          /\ IF new.op = "write" THEN new.next = old.next + 1 ELSE old.next = K + M
       \/ /\ Encode(c) /\ new.op = "write" /\ new.next = 1
          /\ new.vol \in 1..Len(volumes) /\ new.stripe = volumes[new.vol].next

LEMMA CallMoves ==
  ASSUME EngineOK, NEW c \in Callers, Call(c)
  PROVE  Moves(c)
<1>1. CASE OpenDevice(c)
  BY <1>1, EngineFacts DEF OpenDevice, CallOK, Reading, Moves
<1>2. ASSUME NEW a, calls' = [calls EXCEPT ![c] = a], a.op \in {"none", "create", "encode", "health"}
      PROVE  Moves(c)
  BY <1>2, CallSets DEF Moves, Reading, Writing
<1>3. CASE BeginCreate(c) \/ BeginWrite(c) \/ BeginHealth(c)
  <2>1. PICK a : calls' = [calls EXCEPT ![c] = a] /\ a.op \in {"create", "encode", "health"}
    <3>1. CASE BeginCreate(c)
      <4>1. PICK n, l : calls' = [calls EXCEPT ![c] = [NoCall EXCEPT !.op = "create", !.name = n, !.devices = l]]
        BY <3>1 DEF BeginCreate, Begins, Becomes
      <4>2. [NoCall EXCEPT !.op = "create", !.name = n, !.devices = l].op = "create"
        BY DEF NoCall
      <4> QED
        BY <4>1, <4>2
    <3>2. CASE BeginWrite(c)
      <4>1. PICK v : calls' = [calls EXCEPT ![c] = [NoCall EXCEPT !.op = "encode", !.vol = v]]
        BY <3>2 DEF BeginWrite, Begins, Becomes
      <4>2. [NoCall EXCEPT !.op = "encode", !.vol = v].op = "encode"
        BY DEF NoCall
      <4> QED
        BY <4>1, <4>2
    <3>3. CASE BeginHealth(c)
      <4>1. PICK n, todo : calls' = [calls EXCEPT ![c] = [NoCall EXCEPT !.op = "health", !.name = n, !.todo = todo]]
        BY <3>3 DEF BeginHealth, Begins, Becomes
      <4>2. [NoCall EXCEPT !.op = "health", !.name = n, !.todo = todo].op = "health"
        BY DEF NoCall
      <4> QED
        BY <4>1, <4>2
    <3> QED
      BY <1>3, <3>1, <3>2, <3>3
  <2> QED
    BY <1>2, <2>1
<1>4. CASE StoreVolume(c) \/ StoreMetadata(c) \/ WriteFails(c) \/ Decode(c) \/ Report(c)
  <2>1. calls' = [calls EXCEPT ![c] = NoCall] /\ NoCall.op = "none"
    BY <1>4, CallValues DEF StoreVolume, StoreMetadata, WriteFails, Ends, Decode, Report, Becomes
  <2> QED
    BY <1>2, <2>1
<1>5. CASE BeginRead(c)
  <2>1. PICK n \in DOMAIN named : \E s \in volumes[named[n]].stripes :
          calls' = [calls EXCEPT ![c] = [NoCall EXCEPT !.op = "locate", !.vol = named[n], !.stripe = s]]
    BY <1>5 DEF BeginRead, Begins, Becomes
  <2>2. PICK v \in 1..Len(volumes) : v = named[n]
    BY NamedIs
  <2>3. PICK s \in volumes[v].stripes :
          calls' = [calls EXCEPT ![c] = [NoCall EXCEPT !.op = "locate", !.vol = v, !.stripe = s]]
    BY <2>1, <2>2
  <2> DEFINE a == [NoCall EXCEPT !.op = "locate", !.vol = v, !.stripe = s]
  <2>4. a.op = "locate" /\ a.vol = v /\ a.stripe = s
    BY DEF NoCall
  <2>5. calls' = [calls EXCEPT ![c] = a]
    BY <2>3
  <2> HIDE DEF a
  <2> QED
    BY <2>4, <2>5, CallSets DEF Moves, Reading, Writing
<1>6. CASE Locate(c)
  <2>1. PICK a : /\ calls[c].op = "locate" /\ calls' = [calls EXCEPT ![c] = a]
                 /\ a.op = "read" /\ a.vol = calls[c].vol /\ a.stripe = calls[c].stripe
    BY <1>6, LocateIs
  <2> QED
    BY <2>1, CallSets DEF Moves, Reading, Writing
<1>7. CASE ReadShard(c)
  <2>1. PICK a : /\ calls' = [calls EXCEPT ![c] = a] /\ a.op \in {"read", "decode"}
                 /\ a.vol = calls[c].vol /\ a.stripe = calls[c].stripe
    BY <1>7, ReadShardIs
  <2>2. calls[c].op = "read"
    BY <1>7 DEF ReadShard, Is
  <2> QED
    BY <2>1, <2>2, CallSets DEF Moves, Reading, Writing
<1>8. CASE CheckShard(c)
  <2>1. PICK a : /\ calls' = [calls EXCEPT ![c] = a] /\ a.op \in {"check", "health"}
                 /\ a.vol = calls[c].vol /\ a.stripe = calls[c].stripe
    <3>1. PICK old \in CallStates, new \in CallStates, at \in IoStates : Checked(c, old, new, at)
      BY <1>8, CheckShardIs
    <3> QED
      BY <3>1 DEF Checked
  <2>2. calls[c].op = "check"
    BY <1>8 DEF CheckShard, Is
  <2> QED
    BY <2>1, <2>2, CallSets DEF Moves, Reading, Writing
<1>9. CASE BeginStripe(c)
  <2>1. PICK a : /\ calls' = [calls EXCEPT ![c] = a]
                 /\ \/ /\ calls[c].name \in DOMAIN named /\ a.vol = named[calls[c].name]
                       /\ a.stripe \in volumes[a.vol].stripes /\ a.op = "check"
                    \/ a.op = "health"
    <3>1. PICK s \in calls[c].todo, a \in CallStates :
           /\ calls' = [calls EXCEPT ![c] = a]
           /\ \/ /\ calls[c].name \in DOMAIN named /\ s \in volumes[named[calls[c].name]].stripes
                 /\ a.op = "check" /\ a.vol = named[calls[c].name] /\ a.stripe = s
              \/ a.op = "health"
      BY <1>9, BeginStripeIs
    <3> QED
      BY <3>1
  <2> QED
    BY <2>1, NamedIs, CallSets DEF Moves, Reading, Writing
<1>10. CASE WriteShard(c)
  <2>1. PICK a : /\ calls' = [calls EXCEPT ![c] = a]
                 /\ a.vol = calls[c].vol /\ a.stripe = calls[c].stripe
                 /\ \/ a.op = "write" /\ a.next = calls[c].next + 1
                    \/ a.op = "store" /\ calls[c].next = K + M
    BY <1>10, WriteShardIs
  <2>2. calls[c].op = "write"
    BY <1>10 DEF WriteShard, Is
  <2> QED
    BY <1>10, <2>1, <2>2, CallSets DEF Moves, Reading, Writing
<1>11. CASE Encode(c)
  <2>1. PICK v \in 1..Len(volumes), a \in CallStates :
           /\ calls' = [calls EXCEPT ![c] = a]
           /\ a.op = "write" /\ a.vol = v /\ a.stripe = volumes[v].next /\ a.next = 1
    <3>1. PICK vol \in 1..Len(volumes), new \in CallStates : Encoded(c, vol, new)
      BY <1>11, EncodeIs
    <3> QED
      BY <3>1 DEF Encoded
  <2> QED
    BY <1>11, <2>1, CallSets DEF Moves, Reading, Writing
<1> QED
  BY <1>1, <1>3, <1>4, <1>5, <1>6, <1>7, <1>8, <1>9, <1>10, <1>11 DEF Call

\* The metadata of a volume gains the stripe of the write that ends, and no other.
MetadataGains ==
  /\ \A v \in 1..Len(volumes) : \A s \in volumes'[v].stripes :
       s \in volumes[v].stripes \/ \E c \in Callers : StoreMetadata(c) /\ Writes(c, v, s)
  /\ \A v \in 1..Len(volumes') : v \in 1..Len(volumes) \/ volumes'[v].stripes = {}

LEMMA MetadataMoves ==
  ASSUME EngineOK, [Next]_vars
  PROVE  MetadataGains
<1>0. volumes \in Seq(VolumeStates) /\ Len(volumes) \in Nat
      /\ \A v \in 1..Len(volumes) : volumes[v] \in VolumeStates
  BY EngineValues, ListOfVolumes DEF VolumesOK
<1>1. CASE volumes' = volumes
  BY <1>1 DEF MetadataGains
<1>2. ASSUME NEW c \in Callers, StoreVolume(c) PROVE MetadataGains
  <2> DEFINE x == [devices |-> calls[c].devices, next |-> 1, stripes |-> {}]
  <2>1. x.stripes = {}
    OBVIOUS
  <2>2. volumes' = Append(volumes, x)
    BY <1>2 DEF StoreVolume
  <2> HIDE DEF x
  <2>3. \A v \in 1..Len(volumes) : volumes'[v] = volumes[v]
    BY <1>0, <2>2
  <2>4. Len(volumes') = Len(volumes) + 1 /\ volumes'[Len(volumes) + 1] = x
    BY <1>0, <2>2
  <2> QED
    BY <1>0, <2>1, <2>3, <2>4 DEF MetadataGains
<1>3. ASSUME NEW c \in Callers, Encode(c) PROVE MetadataGains
  <2>1. Len(volumes') = Len(volumes) /\ \A w \in 1..Len(volumes) : volumes'[w].stripes = volumes[w].stripes
    <3>1. PICK vol \in 1..Len(volumes), new \in CallStates : Encoded(c, vol, new)
      BY <1>3, EncodeIs
    <3> QED
      BY <3>1 DEF Encoded
  <2> QED
    BY <2>1 DEF MetadataGains
<1>4. ASSUME NEW c \in Callers, StoreMetadata(c) PROVE MetadataGains
  <2>1. PICK w \in 1..Len(volumes) : w = calls[c].vol
    BY <1>4, EngineFacts DEF StoreMetadata, Is, CallOK, Writing
  <2>2. volumes' = [volumes EXCEPT ![w].stripes = @ \union {calls[c].stripe}] /\ calls[c].op = "store"
    BY <1>4, <2>1 DEF StoreMetadata, Is
  <2> DEFINE x == [volumes[w] EXCEPT !.stripes = @ \union {calls[c].stripe}]
  <2>3. x.stripes = volumes[w].stripes \union {calls[c].stripe}
    BY <1>0 DEF VolumeStates
  <2>4. volumes' = [volumes EXCEPT ![w] = x]
    BY <2>2
  <2> HIDE DEF x
  <2>5. Len(volumes') = Len(volumes) /\ \A v \in 1..Len(volumes) : volumes'[v] = IF v = w THEN x ELSE volumes[v]
    BY <1>0, <2>4
  <2>6. ASSUME NEW v \in 1..Len(volumes), NEW s \in volumes'[v].stripes
        PROVE  s \in volumes[v].stripes \/ (StoreMetadata(c) /\ Writes(c, v, s))
    <3>1. CASE v = w
      BY <1>4, <2>1, <2>2, <2>3, <2>5, <2>6, <3>1 DEF Writes, Writing
    <3>2. CASE v # w
      BY <2>5, <2>6, <3>2
    <3> QED
      BY <3>1, <3>2
  <2> QED
    BY <2>5, <2>6 DEF MetadataGains
<1>5. CASE Delete
  <2>1. PICK n \in DOMAIN named : \E s \in volumes[named[n]].stripes :
          volumes' = [volumes EXCEPT ![named[n]].stripes = @ \ {s}]
    BY <1>5 DEF Delete
  <2>2. PICK w \in 1..Len(volumes) : w = named[n]
    BY NamedIs
  <2>3. PICK s : volumes' = [volumes EXCEPT ![w].stripes = @ \ {s}]
    BY <2>1, <2>2
  <2> DEFINE x == [volumes[w] EXCEPT !.stripes = @ \ {s}]
  <2>4. x.stripes = volumes[w].stripes \ {s}
    BY <1>0 DEF VolumeStates
  <2>5. volumes' = [volumes EXCEPT ![w] = x]
    BY <2>3
  <2> HIDE DEF x
  <2>6. Len(volumes') = Len(volumes) /\ \A v \in 1..Len(volumes) : volumes'[v] = IF v = w THEN x ELSE volumes[v]
    BY <1>0, <2>5
  <2> QED
    BY <2>4, <2>6 DEF MetadataGains
<1>6. ASSUME NEW c \in Callers, Call(c) PROVE MetadataGains
  <2>1. CASE volumes' = volumes
    BY <1>1, <2>1
  <2>2. CASE StoreVolume(c) \/ Encode(c) \/ StoreMetadata(c)
    BY <1>2, <1>3, <1>4, <2>2
  <2>3. volumes' = volumes \/ StoreVolume(c) \/ Encode(c) \/ StoreMetadata(c)
    BY <1>6 DEF Call, OpenDevice, BeginCreate, BeginWrite, BeginRead, BeginHealth, Begins, WriteFails,
       WriteShard, Locate, ReadShard, Decode, BeginStripe, CheckShard, Report
  <2> QED
    BY <2>1, <2>2, <2>3
<1>7. CASE DeleteVolume \/ Verify \/ DeviceChange \/ UNCHANGED vars
  <2>1. volumes' = volumes
    BY <1>7 DEF DeleteVolume, Verify, DeviceChange, vars
  <2> QED
    BY <1>1, <2>1
<1> QED
  BY <1>5, <1>6, <1>7 DEF Next

LEMMA StepMoves ==
  ASSUME EngineOK, [Next]_vars
  PROVE  (\E c \in Callers : Call(c) /\ Moves(c)) \/ calls' = calls
BY CallMoves DEF Next, DeleteVolume, Delete, Verify, DeviceChange, vars

\* A stripe becomes finished by the end of its write.
LEMMA FinishedWas ==
  ASSUME EngineOK, [Next]_vars, NEW v \in 1..Len(volumes'), NEW s \in Nat, Finished(v, s)'
  PROVE  /\ v \in 1..Len(volumes)
         /\ Finished(v, s) \/ \E c \in Callers : StoreMetadata(c) /\ Writes(c, v, s)
<1>1. CASE s \in volumes'[v].stripes
  BY <1>1, MetadataMoves DEF MetadataGains, Finished
<1>2. ASSUME NEW e \in Callers, calls'[e].op \in Reading, calls'[e].vol = v, calls'[e].stripe = s
      PROVE  v \in 1..Len(volumes) /\ Finished(v, s)
  <2>1. CASE calls'[e] = calls[e]
    BY <1>2, <2>1, EngineFacts DEF CallOK, Finished
  <2>2. ASSUME Moves(e) PROVE v \in 1..Len(volumes) /\ Finished(v, s)
    <3>1. \/ calls[e].op \in Reading /\ calls[e].vol = v /\ calls[e].stripe = s
          \/ v \in 1..Len(volumes) /\ s \in volumes[v].stripes
      BY <1>2, <2>2 DEF Moves
    <3> QED
      BY <3>1, EngineFacts DEF CallOK, Finished
  <2>3. calls'[e] = calls[e] \/ Moves(e)
    BY StepMoves DEF Moves
  <2> QED
    BY <2>1, <2>2, <2>3
<1> QED
  BY <1>1, <1>2 DEF Finished

\* A call that writes a stripe wrote it before, or was just given its id.
LEMMA WritesWas ==
  ASSUME EngineOK, [Next]_vars, NEW c \in Callers, NEW v \in 1..Len(volumes'), NEW s \in Nat,
         Writes(c, v, s)'
  PROVE  /\ v \in 1..Len(volumes)
         /\ \/ Writes(c, v, s) /\ calls'[c] = calls[c]
            \/ /\ Writes(c, v, s) /\ WriteShard(c) /\ calls[c].op = "write"
               /\ IF calls'[c].op = "write" THEN calls'[c].next = calls[c].next + 1
                  ELSE calls[c].next = K + M
            \/ Encode(c) /\ s = volumes[v].next /\ calls'[c].op = "write" /\ calls'[c].next = 1
<1>1. calls'[c].op \in Writing /\ calls'[c].vol = v /\ calls'[c].stripe = s
  BY DEF Writes
<1>2. CASE calls'[c] = calls[c]
  BY <1>1, <1>2, EngineFacts DEF CallOK, Writes
<1>3. CASE Moves(c)
  <2>1. \/ calls'[c] = calls[c]
        \/ /\ WriteShard(c) /\ calls[c].op = "write" /\ calls[c].vol = v /\ calls[c].stripe = s
           /\ IF calls'[c].op = "write" THEN calls'[c].next = calls[c].next + 1
              ELSE calls[c].next = K + M
        \/ /\ Encode(c) /\ calls'[c].op = "write" /\ calls'[c].next = 1
           /\ v \in 1..Len(volumes) /\ s = volumes[v].next
    BY <1>1, <1>3 DEF Moves
  <2>2. calls[c].op = "write" /\ calls[c].vol = v /\ calls[c].stripe = s
        => Writes(c, v, s) /\ v \in 1..Len(volumes)
    BY EngineFacts DEF CallOK, Writes, Writing
  <2> QED
    BY <1>2, <2>1, <2>2
<1>4. calls'[c] = calls[c] \/ Moves(c)
  BY StepMoves DEF Moves
<1> QED
  BY <1>2, <1>3, <1>4

\* A stripe that is read or written has an id the volume gave out.
LEMMA GivenOut ==
  ASSUME EngineOK, NEW v \in 1..Len(volumes), NEW s \in Nat,
         Finished(v, s) \/ \E c \in Callers : Writes(c, v, s)
  PROVE  s < volumes[v].next /\ volumes[v].next \in Nat
<1>1. volumes[v].next \in Nat
  BY EngineValues, ListOfVolumes DEF VolumesOK
<1>2. s \in 1..(volumes[v].next - 1)
  <2>1. CASE s \in volumes[v].stripes
    BY <2>1, StripeIs
  <2>2. ASSUME NEW c \in Callers, calls[c].op \in Writing \union Reading, calls[c].vol = v, calls[c].stripe = s
        PROVE  s \in 1..(volumes[v].next - 1)
    BY <2>2, EngineFacts DEF CallOK
  <2> QED
    BY <2>1, <2>2 DEF Finished, Writes
<1> QED
  BY <1>1, <1>2

LEMMA StripesNext ==
  ASSUME EngineOK, StripesOK, [Next]_vars
  PROVE  StripesOK'
<1>1. ASSUME NEW v \in 1..Len(volumes'), NEW s \in Nat, Finished(v, s)', NEW i \in ShardIndices
      PROVE  ShardSafe(v, s, i)'
  <2>1. /\ v \in 1..Len(volumes)
        /\ Finished(v, s) \/ \E c \in Callers : StoreMetadata(c) /\ Writes(c, v, s)
    BY <1>1, FinishedWas
  <2>2. CASE Finished(v, s)
    BY <2>1, <2>2, ShardStays DEF StripesOK
  <2>3. ASSUME NEW c \in Callers, StoreMetadata(c), Writes(c, v, s) PROVE ShardSafe(v, s, i)'
    <3>1. Count(c) = K + M
      BY <2>3 DEF StoreMetadata, Is, Count
    <3>2. i \in 1..Count(c)
      BY <3>1 DEF ShardIndices
    <3>3. ShardSafe(v, s, i)
      BY <2>1, <2>3, <3>2 DEF StripesOK
    <3> QED
      BY <2>1, <3>3, ShardStays
  <2> QED
    BY <2>1, <2>2, <2>3
<1>2. ASSUME NEW c \in Callers, NEW v \in 1..Len(volumes'), NEW s \in Nat, Writes(c, v, s)'
      PROVE  /\ ~Finished(v, s)'
             /\ \A e \in Callers : Writes(e, v, s)' => e = c
             /\ \A i \in 1..Count(c)' : ShardSafe(v, s, i)'
  <2>0. /\ v \in 1..Len(volumes)
        /\ \/ Writes(c, v, s) /\ calls'[c] = calls[c]
           \/ /\ Writes(c, v, s) /\ WriteShard(c) /\ calls[c].op = "write"
              /\ IF calls'[c].op = "write" THEN calls'[c].next = calls[c].next + 1
                 ELSE calls[c].next = K + M
           \/ Encode(c) /\ s = volumes[v].next /\ calls'[c].op = "write" /\ calls'[c].next = 1
    BY <1>2, WritesWas
  <2>1. Encode(c) /\ s = volumes[v].next => ~Finished(v, s) /\ \A e \in Callers : ~Writes(e, v, s)
    <3>1. volumes[v].next \in Nat
      BY <2>0, EngineValues, ListOfVolumes DEF VolumesOK
    <3> QED
      BY <2>0, <3>1, GivenOut
  <2>3. \A e \in Callers : Writes(e, v, s)' => e = c
    <3>1. ASSUME NEW e \in Callers, Writes(e, v, s)', e # c PROVE FALSE
      <4>1. Writes(e, v, s) \/ (Encode(e) /\ s = volumes[v].next)
        BY <3>1, <1>2, WritesWas
      <4>2. Writes(c, v, s) \/ (Encode(c) /\ s = volumes[v].next)
        BY <2>0
      <4>3. CASE Writes(e, v, s) /\ Writes(c, v, s)
        BY <2>0, <3>1, <4>3 DEF StripesOK
      <4>4. CASE Encode(c) /\ s = volumes[v].next /\ Writes(e, v, s)
        BY <2>1, <4>4
      <4>5. CASE Encode(e) /\ s = volumes[v].next /\ Writes(c, v, s)
        <5>1. volumes[v].next \in Nat
          BY <2>0, EngineValues, ListOfVolumes DEF VolumesOK
        <5> QED
          BY <2>0, <4>5, <5>1, GivenOut
      <4>6. CASE Encode(e) /\ Encode(c)
        <5>1. calls'[e] = calls[e] \/ calls'[c] = calls[c]
          BY <3>1, <4>6, CallMoves DEF Moves, Call
        <5>2. calls[e].op = "encode" /\ calls[c].op = "encode"
          BY <4>6 DEF Encode, Is
        <5>3. calls'[e].op \in Writing /\ calls'[c].op \in Writing
          BY <1>2, <3>1 DEF Writes
        <5> QED
          BY <5>1, <5>2, <5>3 DEF Writing
      <4> QED
        BY <4>1, <4>2, <4>3, <4>4, <4>5, <4>6
    <3> QED
      BY <3>1
  <2>4. ~Finished(v, s)'
    <3>1. SUFFICES ASSUME Finished(v, s)' PROVE FALSE
      OBVIOUS
    <3>2. Finished(v, s) \/ \E e \in Callers : StoreMetadata(e) /\ Writes(e, v, s)
      BY <1>2, <3>1, FinishedWas
    <3>3. CASE Finished(v, s)
      BY <2>0, <2>1, <3>3 DEF StripesOK
    <3>4. ASSUME NEW e \in Callers, StoreMetadata(e), Writes(e, v, s) PROVE FALSE
      <4>1. CASE Writes(c, v, s)
        <5>1. e = c
          BY <2>0, <3>4, <4>1 DEF StripesOK
        <5>2. calls'[e] = NoCall
          BY <3>4, EngineFacts DEF StoreMetadata, Becomes
        <5>3. calls'[c].op \in Writing
          BY <1>2 DEF Writes
        <5> QED
          BY <5>1, <5>2, <5>3, CallValues DEF Writing
      <4>2. CASE Encode(c) /\ s = volumes[v].next
        BY <2>1, <3>4, <4>2
      <4> QED
        BY <2>0, <4>1, <4>2
    <3> QED
      BY <3>2, <3>3, <3>4
  <2>5. ASSUME NEW i \in 1..Count(c)' PROVE ShardSafe(v, s, i)'
    <3>0. calls[c] \in CallStates /\ calls[c].next \in Nat /\ calls[c].next \in ShardIndices
          /\ K + M \in Nat
      BY EngineFacts, EngineNumbers DEF CallStates
    <3>1. CASE Writes(c, v, s) /\ calls'[c] = calls[c]
      <4>1. i \in 1..Count(c) /\ i \in ShardIndices
        BY <2>5, <3>0, <3>1, EngineNumbers DEF Count, ShardIndices
      <4>2. ShardSafe(v, s, i)
        BY <2>0, <3>1, <4>1 DEF StripesOK
      <4> QED
        BY <2>0, <4>1, <4>2, ShardStays
    <3>2. CASE /\ Writes(c, v, s) /\ WriteShard(c) /\ calls[c].op = "write"
               /\ IF calls'[c].op = "write" THEN calls'[c].next = calls[c].next + 1
                  ELSE calls[c].next = K + M
      <4>1. Count(c) = calls[c].next - 1 /\ Count(c)' = calls[c].next
        BY <3>0, <3>2 DEF Count
      <4>2. i \in 1..Count(c) \/ i = calls[c].next
        BY <2>5, <3>0, <4>1
      <4>3. i \in ShardIndices
        BY <2>5, <3>0, <4>1 DEF ShardIndices
      <4>4. CASE i \in 1..Count(c)
        <5>1. ShardSafe(v, s, i)
          BY <2>0, <3>2, <4>4 DEF StripesOK
        <5> QED
          BY <2>0, <4>3, <5>1, ShardStays
      <4>5. CASE i = calls[c].next
        <5>1. v = calls[c].vol /\ s = calls[c].stripe
          BY <3>2 DEF Writes
        <5> QED
          BY <2>0, <3>2, <4>3, <4>5, <5>1, WrittenIsSafe
      <4> QED
        BY <4>2, <4>4, <4>5
    <3>3. CASE calls'[c].op = "write" /\ calls'[c].next = 1
      BY <2>5, <3>3 DEF Count
    <3> QED
      BY <2>0, <3>1, <3>2, <3>3
  <2> QED
    BY <2>3, <2>4, <2>5
<1> QED
  BY <1>1, <1>2 DEF StripesOK

-----------------------------------------------------------------------------
(* The engine: reads and reports of health.                                *)

FailuresGrow == history.failed \subseteq history'.failed /\ FailuresOK'

LEMMA FailuresNext ==
  ASSUME EngineOK, FailuresOK, [Next]_vars
  PROVE  FailuresGrow
<1>0. history \in Histories
  BY EngineValues
<1>1. CASE history'.failed = history.failed /\ faulty' = faulty
  BY <1>1 DEF FailuresGrow, FailuresOK
<1>2. ASSUME NEW c \in Callers, Call(c) PROVE history'.failed = history.failed /\ faulty' = faulty
  <2>1. faulty' = faulty
    <3>1. CASE OpenDevice(c)
      BY <3>1, EngineValues, OpenIs DEF OpenDevice
    <3>2. CASE BeginStripe(c)
      BY <3>2, BeginStripeIs
    <3>3. CASE BeginCreate(c) \/ BeginWrite(c) \/ BeginRead(c) \/ BeginHealth(c)
      BY <3>3 DEF BeginCreate, BeginWrite, BeginRead, BeginHealth, Begins, bdevVars
    <3>4. CASE StoreVolume(c) \/ StoreMetadata(c) \/ Decode(c) \/ Report(c)
      BY <3>4 DEF StoreVolume, StoreMetadata, Decode, Report, bdevVars
    <3>5. CASE Encode(c) \/ WriteFails(c) \/ WriteShard(c) \/ Locate(c) \/ ReadShard(c) \/ CheckShard(c)
      BY <3>5 DEF Encode, WriteFails, WriteShard, Locate, ReadShard, CheckShard, ShardIo
    <3> QED
      BY <1>2, <3>1, <3>2, <3>3, <3>4, <3>5 DEF Call
  <2>2. \/ history' = history
        \/ history' = [history EXCEPT !.calls = @ + 1]
        \/ history' = [history EXCEPT !.dropped = @ + 1]
        \/ \E S : history' = [history EXCEPT !.gone = S]
    <3>1. CASE BeginCreate(c) \/ BeginWrite(c) \/ BeginRead(c) \/ BeginHealth(c)
      BY <3>1 DEF BeginCreate, BeginWrite, BeginRead, BeginHealth, Begins
    <3>2. CASE StoreVolume(c) \/ WriteFails(c)
      BY <3>2 DEF StoreVolume, WriteFails
    <3>3. CASE \/ OpenDevice(c) \/ Encode(c) \/ WriteShard(c) \/ StoreMetadata(c) \/ Locate(c) \/ ReadShard(c)
               \/ Decode(c) \/ BeginStripe(c) \/ CheckShard(c) \/ Report(c)
      BY <3>3 DEF OpenDevice, Encode, WriteShard, StoreMetadata, Locate, ReadShard, Decode, BeginStripe,
         CheckShard, Report
    <3> QED
      BY <1>2, <3>1, <3>2, <3>3 DEF Call
  <2> QED
    BY <2>1, <2>2, HistorySame
<1>3. CASE DeleteVolume \/ Delete \/ Verify
  <2>1. faulty' = faulty
    BY <1>3 DEF DeleteVolume, Delete, Verify, bdevVars
  <2>2. history'.failed = history.failed
    BY <1>3, HistorySame DEF DeleteVolume, Delete, Verify
  <2> QED
    BY <1>1, <2>1, <2>2
<1>4. CASE DeviceChange
  <2>1. CASE history'.failed = history.failed /\ faulty' \subseteq faulty
    BY <2>1 DEF FailuresGrow, FailuresOK
  <2>2. CASE \E d \in Devices : Register(d) /\ history' = [history EXCEPT !.changes = @ + 1,
               !.reregistered = IF d \in DOMAIN handles THEN @ \union {d} ELSE @]
    BY <1>0, <2>1, <2>2 DEF Register, Histories
  <2>3. CASE /\ \/ CloseAll
                \/ \E d \in Devices : Close(d)
             /\ history' = [history EXCEPT !.changes = @ + 1,
                 !.crossed = @ \union {io[c].device : c \in {c \in Callers : io[c].at = "mark"}}]
    <3>1. faulty' = faulty
      BY <2>3 DEF CloseAll, Close
    <3>2. history'.failed = history.failed
      BY <1>0, <2>3 DEF Histories
    <3> QED
      BY <2>1, <3>1, <3>2
  <2>4. ASSUME NEW d \in Devices, Fault(d), history' = [history EXCEPT !.changes = @ + 1, !.failed = @ \union {d}]
        PROVE  FailuresGrow
    <3>1. history'.failed = history.failed \union {d} /\ faulty' = faulty \union {d}
      BY <1>0, <2>4 DEF Fault, Histories
    <3>2. IsFiniteSet(history'.failed)
      BY <3>1, FS_AddElement DEF FailuresOK
    <3> QED
      BY <3>1, <3>2 DEF FailuresGrow, FailuresOK
  <2>5. CASE \E d \in Devices : Repair(d) /\ history' = [history EXCEPT !.changes = @ + 1]
    BY <1>0, <2>1, <2>5 DEF Repair, Histories
  <2> QED
    BY <1>4, <2>2, <2>3, <2>4, <2>5 DEF DeviceChange
<1>5. CASE UNCHANGED vars
  BY <1>1, <1>5 DEF vars, bdevVars
<1> QED
  BY <1>1, <1>2, <1>3, <1>4, <1>5 DEF Next

\* As long as nothing is deleted and no volume replaced, names and stripes stay.
NamesStay ==
  /\ history.gone = {} /\ DOMAIN named \subseteq DOMAIN named'
  /\ \A n \in DOMAIN named : /\ named'[n] = named[n]
                             /\ volumes[named[n]].stripes \subseteq volumes'[named'[n]].stripes

LEMMA NothingGone ==
  ASSUME EngineOK, [Next]_vars, history'.gone = {}
  PROVE  NamesStay
<1>0. /\ history \in Histories /\ volumes \in Seq(VolumeStates) /\ Len(volumes) \in Nat
      /\ \A v \in 1..Len(volumes) : volumes[v] \in VolumeStates
  BY EngineValues, ListOfVolumes DEF VolumesOK
<1>1. CASE volumes' = volumes /\ named' = named /\ history'.gone = history.gone
  BY <1>1 DEF NamesStay
<1>2. ASSUME NEW c \in Callers, StoreVolume(c) PROVE NamesStay
  <2> DEFINE n == calls[c].name
  <2>1. history'.gone = IF n \in DOMAIN named THEN history.gone \union {named[n]} ELSE history.gone
    BY <1>0, <1>2 DEF StoreVolume, Histories
  <2>2. n \notin DOMAIN named /\ history.gone = {}
    BY <2>1
  <2>3. PICK x : volumes' = Append(volumes, x) /\ named' = Inserted(named, n, Len(volumes) + 1)
    BY <1>2 DEF StoreVolume
  <2>4. \A v \in 1..Len(volumes) : volumes'[v] = volumes[v]
    BY <1>0, <2>3
  <2>5. DOMAIN named \subseteq DOMAIN named' /\ \A k \in DOMAIN named : named'[k] = named[k]
    BY <2>2, <2>3 DEF Inserted
  <2> QED
    BY <2>2, <2>4, <2>5, NamedIs DEF NamesStay
<1>3. ASSUME NEW c \in Callers, Encode(c) PROVE NamesStay
  <2>1. named' = named /\ history' = history
    BY <1>3 DEF Encode
  <2>2. \A w \in 1..Len(volumes) : volumes'[w].stripes = volumes[w].stripes
    <3>1. PICK vol \in 1..Len(volumes), new \in CallStates : Encoded(c, vol, new)
      BY <1>3, EncodeIs
    <3> QED
      BY <3>1 DEF Encoded
  <2> QED
    BY <2>1, <2>2, NamedIs DEF NamesStay
<1>4. ASSUME NEW c \in Callers, StoreMetadata(c) PROVE NamesStay
  <2>1. PICK w \in 1..Len(volumes) : w = calls[c].vol
    BY <1>4, EngineFacts DEF StoreMetadata, Is, CallOK, Writing
  <2>2. volumes' = [volumes EXCEPT ![w].stripes = @ \union {calls[c].stripe}]
        /\ named' = named /\ history' = history
    BY <1>4, <2>1 DEF StoreMetadata
  <2> DEFINE x == [volumes[w] EXCEPT !.stripes = @ \union {calls[c].stripe}]
  <2>3. x.stripes = volumes[w].stripes \union {calls[c].stripe}
    BY <1>0 DEF VolumeStates
  <2>4. volumes' = [volumes EXCEPT ![w] = x]
    BY <2>2
  <2> HIDE DEF x
  <2>5. \A v \in 1..Len(volumes) : volumes'[v] = IF v = w THEN x ELSE volumes[v]
    BY <1>0, <2>4
  <2>6. \A v \in 1..Len(volumes) : volumes[v].stripes \subseteq volumes'[v].stripes
    BY <2>3, <2>5
  <2> QED
    BY <2>2, <2>6, NamedIs DEF NamesStay
<1>5. ASSUME DeleteVolume \/ Delete PROVE FALSE
  BY <1>0, <1>5 DEF DeleteVolume, Delete, Histories
<1>6. CASE Verify \/ DeviceChange \/ UNCHANGED vars
  <2>1. volumes' = volumes /\ named' = named
    BY <1>6 DEF Verify, DeviceChange, vars
  <2>2. history'.gone = history.gone
    BY <1>0, <1>6 DEF Verify, DeviceChange, vars, Histories
  <2> QED
    BY <1>1, <2>1, <2>2
<1>7. ASSUME NEW c \in Callers, Call(c) PROVE NamesStay
  <2>1. CASE volumes' = volumes /\ named' = named /\ \/ history' = history
                                                     \/ history' = [history EXCEPT !.calls = @ + 1]
                                                     \/ history' = [history EXCEPT !.dropped = @ + 1]
    <3>1. history'.gone = history.gone
      BY <1>0, <2>1 DEF Histories
    <3> QED
      BY <1>1, <2>1, <3>1
  <2>2. \/ /\ volumes' = volumes /\ named' = named
           /\ \/ history' = history
              \/ history' = [history EXCEPT !.calls = @ + 1]
              \/ history' = [history EXCEPT !.dropped = @ + 1]
        \/ StoreVolume(c) \/ Encode(c) \/ StoreMetadata(c)
    <3>1. CASE BeginCreate(c) \/ BeginWrite(c) \/ BeginRead(c) \/ BeginHealth(c)
      BY <3>1 DEF BeginCreate, BeginWrite, BeginRead, BeginHealth, Begins
    <3>2. CASE \/ OpenDevice(c) \/ WriteShard(c) \/ Locate(c) \/ ReadShard(c) \/ WriteFails(c)
               \/ Decode(c) \/ BeginStripe(c) \/ CheckShard(c) \/ Report(c)
      BY <3>2 DEF OpenDevice, WriteShard, Locate, ReadShard, WriteFails, Decode, BeginStripe,
         CheckShard, Report
    <3> QED
      BY <1>7, <3>1, <3>2 DEF Call
  <2> QED
    BY <1>2, <1>3, <1>4, <2>1, <2>2
<1> QED
  BY <1>5, <1>6, <1>7 DEF Next

\* A stripe that is being read was written completely.
LEMMA ReadableIs ==
  ASSUME EngineOK, StripesOK, NEW c \in Callers, calls[c].op \in Reading
  PROVE  /\ calls[c].vol \in 1..Len(volumes) /\ calls[c].stripe \in Nat /\ calls[c].next \in ShardIndices
         /\ \A i \in ShardIndices : ShardSafe(calls[c].vol, calls[c].stripe, i)
<1>1. /\ calls[c].vol \in 1..Len(volumes) /\ calls[c].stripe \in Nat /\ calls[c].next \in ShardIndices
  BY EngineFacts DEF CallOK, CallStates
<1>2. Finished(calls[c].vol, calls[c].stripe)
  BY DEF Finished
<1> QED
  BY <1>1, <1>2 DEF StripesOK

\* A shard that cannot be read is on a device that failed.
LEMMA FailsIsFailed ==
  ASSUME EngineOK, StripesOK, FailuresOK, NEW c \in Callers, FetchOK(c),
         calls[c].op \in {"read", "check"}, Done(c), ~Succeeds(c, calls[c].stripe)
  PROVE  device_for_shard(calls[c].vol, calls[c].next) \in history.failed
<1>1. calls[c].op \in Reading
  BY DEF Reading
<1>2. ShardSafe(calls[c].vol, calls[c].stripe, calls[c].next)
  BY <1>1, ReadableIs
<1>3. calls[c].stripe \in Slots
  BY <1>2 DEF ShardSafe
<1>4. io[c].at = "opened"
  BY DEF FetchOK, Done
<1>5. io[c].device \in faulty
  BY <1>3, <1>4 DEF Succeeds
<1>6. io[c].device = device_for_shard(calls[c].vol, calls[c].next)
  BY EngineFacts DEF CallOK
<1> QED
  BY <1>5, <1>6 DEF FailuresOK

\* A shard that can be read is what was written.
LEMMA ContentIs ==
  ASSUME EngineOK, StripesOK, NEW c \in Callers, calls[c].op = "read",
         Succeeds(c, calls[c].stripe), Sound(calls[c].vol, calls[c].stripe)
  PROVE  Content(c, calls[c].stripe) = Shard(calls[c].vol, calls[c].stripe, calls[c].next)
<1>1. calls[c].op \in Reading
  BY DEF Reading
<1>2. PICK v \in 1..Len(volumes), s \in Nat, i \in ShardIndices :
        v = calls[c].vol /\ s = calls[c].stripe /\ i = calls[c].next
  BY <1>1, ReadableIs
<1>3. PICK d \in Devices : d = device_for_shard(v, i) /\ d \in Range(volumes[v].devices)
  BY EngineValues, DeviceIs
<1>4. d \in DOMAIN handles /\ stores[handles[d]].blocks[s] = Shard(v, s, i)
  BY <1>1, <1>2, <1>3, ReadableIs DEF ShardSafe
<1>5. io[c].device = d
  BY <1>2, <1>3, EngineFacts DEF CallOK
<1>6. io[c].handle \in HandleIds /\ stores[io[c].handle].device = d
  BY <1>5, EngineFacts DEF Succeeds, DevicesOK, IoOK
<1>7. handles[d] = io[c].handle
  BY <1>2, <1>3, <1>6, OneHandle
<1> QED
  BY <1>2, <1>4, <1>7 DEF Content

LEMMA FetchStays ==
  ASSUME EngineOK, [Next]_vars, FailuresGrow, NEW c \in Callers, FetchOK(c), calls'[c] = calls[c],
         calls[c].op \in {"read", "check"} => io'[c].at # "failed"
  PROVE  FetchOK(c)'
<1>0. EngineStep
  BY EngineNext
<1>1. PICK call \in CallStates : call = calls[c] /\ calls'[c] = call
  BY EngineFacts
<1>2. call.op \in Reading =>
        /\ call.vol \in 1..Len(volumes) /\ call.stripe \in Nat
        /\ \A i : device_for_shard(call.vol, i)' = device_for_shard(call.vol, i)
  <2>1. call.op \in Reading => call.vol \in 1..Len(volumes) /\ call.stripe \in Nat
    BY <1>1, EngineFacts DEF CallOK, CallStates
  <2>2. \A v \in 1..Len(volumes) : volumes'[v].devices = volumes[v].devices
    BY <1>0 DEF EngineStep, VolumesGrow
  <2> QED
    BY <2>1, <2>2 DEF device_for_shard
<1>3. call.op \in Reading => \A i \in call.erased : device_for_shard(call.vol, i)' \in history'.failed
  BY <1>1, <1>2 DEF FetchOK, FailuresGrow
<1>4. call.op \in {"locate", "read", "decode"} /\ Sound(call.vol, call.stripe)' =>
        \A i \in 1..Len(call.shards) :
          i \in call.erased \/ call.shards[i] = Shard(call.vol, call.stripe, i)
  <2>1. call.op \in {"locate", "read", "decode"} => call.op \in Reading
    BY DEF Reading
  <2>2. call.op \in {"locate", "read", "decode"} /\ Sound(call.vol, call.stripe)' => Sound(call.vol, call.stripe)
    BY <1>0, <1>2, <2>1, SoundWas
  <2> QED
    BY <1>1, <2>2 DEF FetchOK
<1>5. /\ call.op \in {"read", "check"} => io'[c].at # "failed"
      /\ call.op = "locate" => call.next = 1 /\ call.shards = << >>
      /\ call.op = "read" => Len(call.shards) = call.next - 1
      /\ call.op = "decode" => Len(call.shards) = K + M
  BY <1>1 DEF FetchOK
<1>6. /\ Sound(calls[c].vol, calls[c].stripe)' <=> Sound(call.vol, call.stripe)'
      /\ \A i : device_for_shard(calls[c].vol, i)' = device_for_shard(call.vol, i)'
  BY <1>1 DEF Sound, Collides, Split, device_for_shard
<1> QED
  BY <1>1, <1>3, <1>4, <1>5, <1>6 DEF FetchOK, Shard

\* A call that reads no stripe, or begins to.
LEMMA NoFetch ==
  ASSUME NEW c \in Callers, calls'[c].op \notin Reading
  PROVE  FetchOK(c)'
BY DEF FetchOK, Reading

LEMMA BeginsFetch ==
  ASSUME EngineOK, NEW c \in Callers, calls'[c].erased = {},
         \/ calls'[c].op = "locate" /\ calls'[c].next = 1 /\ calls'[c].shards = << >>
         \/ calls'[c].op = "check" /\ io'[c].at # "failed"
  PROVE  FetchOK(c)'
BY DEF FetchOK

LEMMA OthersWait ==
  ASSUME EngineOK, NEW c \in Callers, Call(c), NEW e \in Callers, e # c
  PROVE  calls'[e] = calls[e] /\ io'[e] = io[e]
<1>1. calls'[e] = calls[e]
  BY CallMoves DEF Moves
<1>2. ASSUME OpenDevice(c) PROVE io'[e] = io[e]
  BY <1>2, EngineValues, OpenIs DEF OpenDevice
<1>3. ASSUME BeginStripe(c) PROVE io'[e] = io[e]
  BY <1>3, BeginStripeIs
<1>4. ASSUME BeginCreate(c) \/ BeginWrite(c) \/ BeginRead(c) \/ BeginHealth(c) PROVE io'[e] = io[e]
  BY <1>4 DEF BeginCreate, BeginWrite, BeginRead, BeginHealth, Begins, bdevVars
<1>5. ASSUME StoreVolume(c) \/ StoreMetadata(c) \/ Decode(c) \/ Report(c) PROVE io'[e] = io[e]
  BY <1>5 DEF StoreVolume, StoreMetadata, Decode, Report, bdevVars
<1>6. ASSUME Encode(c) PROVE io'[e] = io[e]
  <2>1. PICK vol \in 1..Len(volumes), new \in CallStates : Encoded(c, vol, new)
    BY <1>6, EncodeIs
  <2> QED
    BY <2>1 DEF Encoded
<1>7. ASSUME Locate(c) PROVE io'[e] = io[e]
  BY <1>7, LocateIs, Zenon
<1>8. ASSUME WriteShard(c) PROVE io'[e] = io[e]
  BY <1>8, WriteShardIs
<1>9. ASSUME ReadShard(c) PROVE io'[e] = io[e]
  BY <1>9, ReadShardIs
<1>10. ASSUME CheckShard(c) PROVE io'[e] = io[e]
  <2>1. PICK old \in CallStates, new \in CallStates, at \in IoStates : Checked(c, old, new, at)
    BY <1>10, CheckShardIs
  <2> QED
    BY <2>1 DEF Checked
<1>11. ASSUME WriteFails(c) PROVE io'[e] = io[e]
  <2>1. io \in [Callers -> IoStates]
    BY EngineFacts
  <2> QED
    BY <1>11, <2>1 DEF WriteFails, Ends
<1> QED
  BY <1>1, <1>2, <1>3, <1>4, <1>5, <1>6, <1>7, <1>8, <1>9, <1>10, <1>11 DEF Call

\* A device of a stripe that is read is found.
LEMMA OpensFetch ==
  ASSUME EngineOK, StripesOK, NEW c \in Callers, FetchOK(c), OpenDevice(c),
         calls[c].op \in {"read", "check"}
  PROVE  io'[c].at # "failed"
<1>1. io \in [Callers -> IoStates] /\ io[c] \in IoStates
  BY EngineFacts
<1>2. io[c].device \in DOMAIN devices
  <2>1. calls[c].op \in Reading /\ io[c].device = device_for_shard(calls[c].vol, calls[c].next)
    BY EngineFacts DEF CallOK, Reading
  <2> QED
    BY <2>1, ReadableIs DEF ShardSafe
<1>3. CASE LookUp(c)
  <2>1. io' = [io EXCEPT ![c] =
          IF io[c].device \in DOMAIN handles
            THEN [io[c] EXCEPT !.at = "opened", !.handle = handles[io[c].device]]
            ELSE [io[c] EXCEPT !.at = "absent"]]
    BY <1>3 DEF LookUp
  <2>2. io'[c].at \in {"opened", "absent"}
    BY <1>1, <2>1 DEF IoStates
  <2> QED
    BY <2>2
<1>4. CASE Install(c)
  <2>1. io' = [io EXCEPT ![c] = [io[c] EXCEPT !.at = "mark", !.handle = Len(stores) + 1]]
    BY <1>4 DEF Install
  <2>2. io'[c].at = "mark"
    BY <1>1, <2>1 DEF IoStates
  <2> QED
    BY <2>2
<1>5. CASE Mark(c)
  <2>1. io'[c].at = "opened"
    BY <1>1, <1>5 DEF Mark, IoStates
  <2> QED
    BY <2>1
<1> QED
  BY <1>2, <1>3, <1>4, <1>5 DEF OpenDevice, Open, NotFound

\* The shards of a call that are not erased are as they were encoded.
Agrees(call) ==
  \A i \in 1..Len(call.shards) :
    i \in call.erased \/ call.shards[i] = Shard(call.vol, call.stripe, i)

\* One shard more is read, or it is on a device that failed.
LEMMA FetchesOne ==
  ASSUME EngineOK, StripesOK, FailuresOK, NEW c \in Callers, FetchOK(c), calls[c].op = "read", Done(c)
  PROVE  LET old == calls[c]
             new == Fetched(c, old)
         IN
         /\ Len(new.shards) = old.next
         /\ \A i \in new.erased : device_for_shard(old.vol, i) \in history.failed
         /\ Sound(old.vol, old.stripe) => Agrees(new)
<1>1. PICK old \in CallStates : old = calls[c]
  BY EngineFacts
<1>2. /\ old.shards \in Seq(BlockContents) /\ old.next \in ShardIndices /\ old.next \in Nat
      /\ old.op = "read" /\ old.erased \in SUBSET ShardIndices
  BY <1>1, EngineNumbers DEF CallStates
<1>3. /\ Len(old.shards) = old.next - 1
      /\ \A i \in old.erased : device_for_shard(old.vol, i) \in history.failed
      /\ Sound(old.vol, old.stripe) => Agrees(old)
  BY <1>1, <1>2 DEF FetchOK, Reading, Agrees
<1>4. PICK new \in CallStates : new = Fetched(c, old)
  BY <1>1, FetchedIs
<1>5. /\ new.vol = old.vol /\ new.stripe = old.stripe
      /\ Succeeds(c, old.stripe) =>
           /\ Content(c, old.stripe) \in BlockContents
           /\ new.shards = Append(old.shards, Content(c, old.stripe)) /\ new.erased = old.erased
      /\ ~Succeeds(c, old.stripe) =>
           new.shards = Append(old.shards, Zeros) /\ new.erased = old.erased \union {old.next}
  BY <1>1, <1>4, FetchedIs
<1>6. PICK block \in BlockContents : /\ new.shards = Append(old.shards, block)
                                     /\ Succeeds(c, old.stripe) => block = Content(c, old.stripe)
  <2>1. Zeros \in BlockContents
    BY DEF BlockContents
  <2> QED
    BY <1>5, <2>1
<1>7. Len(new.shards) = old.next /\ Len(old.shards) \in Nat
      /\ new.shards[old.next] = block /\ \A i \in 1..Len(old.shards) : new.shards[i] = old.shards[i]
  BY <1>2, <1>3, <1>6
<1>8. \A i \in new.erased : device_for_shard(old.vol, i) \in history.failed
  <2>1. ~Succeeds(c, old.stripe) => device_for_shard(old.vol, old.next) \in history.failed
    BY <1>1, <1>2, FailsIsFailed
  <2> QED
    BY <1>3, <1>5, <2>1
<1>9. ASSUME Sound(old.vol, old.stripe) PROVE Agrees(new)
  <2>1. Succeeds(c, old.stripe) => block = Shard(old.vol, old.stripe, old.next)
    BY <1>1, <1>2, <1>6, <1>9, ContentIs
  <2>2. ASSUME NEW i \in 1..Len(new.shards)
        PROVE  i \in new.erased \/ new.shards[i] = Shard(new.vol, new.stripe, i)
    <3>1. CASE i = old.next
      BY <1>5, <1>7, <2>1, <3>1
    <3>2. CASE i # old.next
      <4>1. i \in 1..Len(old.shards)
        BY <1>2, <1>3, <1>7, <3>2
      <4>2. i \in old.erased \/ new.shards[i] = Shard(old.vol, old.stripe, i)
        BY <1>3, <1>7, <1>9, <4>1 DEF Agrees
      <4> QED
        BY <1>5, <4>2
    <3> QED
      BY <3>1, <3>2
  <2> QED
    BY <2>2 DEF Agrees
<1> QED
  BY <1>1, <1>4, <1>7, <1>8, <1>9

LEMMA ReadFetch ==
  ASSUME EngineOK, StripesOK, FailuresOK, FailuresGrow, [Next]_vars, NEW c \in Callers, FetchOK(c),
         ReadShard(c)
  PROVE  FetchOK(c)'
<1>0. EngineStep
  BY EngineNext
<1>1. calls[c].op = "read" /\ Done(c) /\ volumes' = volumes
  BY DEF ReadShard, Is
<1>2. PICK new : new = Fetched(c, calls[c])
  OBVIOUS
<1>3. PICK a \in CallStates, x \in IoStates :
        /\ calls'[c] = a /\ io'[c] = x /\ x.at \notin {"opened", "mark"}
        /\ a.vol = calls[c].vol /\ a.stripe = calls[c].stripe
        /\ a.vol \in 1..Len(volumes) /\ a.stripe \in 1..(volumes[a.vol].next - 1)
        /\ a.shards = new.shards /\ a.erased = new.erased
        /\ \/ calls[c].next < K + M /\ a.op = "read" /\ a.next = calls[c].next + 1 /\ x.at = "open"
           \/ calls[c].next = K + M /\ a.op = "decode" /\ x = NoIo
  BY <1>2, ReadShardIs
<1>4. /\ Len(a.shards) = calls[c].next
      /\ \A i \in a.erased : device_for_shard(a.vol, i) \in history.failed
      /\ Sound(a.vol, a.stripe) => \A i \in 1..Len(a.shards) :
            i \in a.erased \/ a.shards[i] = Shard(a.vol, a.stripe, i)
  <2>1. /\ Len(new.shards) = calls[c].next
        /\ \A i \in new.erased : device_for_shard(calls[c].vol, i) \in history.failed
        /\ Sound(calls[c].vol, calls[c].stripe) => Agrees(new)
    BY <1>1, <1>2, FetchesOne
  <2>2. new.vol = calls[c].vol /\ new.stripe = calls[c].stripe
    BY <1>1, <1>2, FetchedIs
  <2> QED
    BY <1>3, <2>1, <2>2 DEF Agrees
<1>5. \A i \in a.erased : device_for_shard(a.vol, i)' \in history'.failed
  BY <1>1, <1>4 DEF FailuresGrow, device_for_shard
<1>6. Sound(a.vol, a.stripe)' => Sound(a.vol, a.stripe)
  <2>1. a.stripe \in Nat
    BY DEF CallStates
  <2> QED
    BY <1>0, <1>3, <2>1, SoundWas
<1>7. /\ Sound(calls[c].vol, calls[c].stripe)' <=> Sound(a.vol, a.stripe)'
      /\ \A i : device_for_shard(calls[c].vol, i)' = device_for_shard(a.vol, i)'
  BY <1>3 DEF Sound, Collides, Split, device_for_shard
<1>8. a.op = "read" => io'[c].at # "failed" /\ Len(a.shards) = a.next - 1
  <2>1. calls[c].next \in Nat
    BY EngineFacts, EngineNumbers DEF CallStates
  <2> QED
    BY <1>3, <1>4, <2>1
<1>9. a.op = "decode" => Len(a.shards) = K + M
  BY <1>3, <1>4
<1> QED
  BY <1>3, <1>4, <1>5, <1>6, <1>7, <1>8, <1>9 DEF FetchOK, Shard

LEMMA LocateFetch ==
  ASSUME EngineOK, FailuresGrow, [Next]_vars, NEW c \in Callers, FetchOK(c), Locate(c)
  PROVE  FetchOK(c)'
<1>0. EngineStep /\ volumes' = volumes
  BY EngineNext DEF Locate
<1>1. calls[c].op = "locate" /\ calls[c] \in CallStates /\ calls[c].vol \in 1..Len(volumes)
      /\ calls[c].stripe \in Nat
  BY EngineFacts DEF Locate, Is, CallOK, Reading, CallStates
<1>2. PICK a : /\ calls'[c] = a /\ a.op = "read" /\ a.vol = calls[c].vol /\ a.stripe = calls[c].stripe
               /\ a.next = 1 /\ a.shards = calls[c].shards /\ a.erased = calls[c].erased
               /\ io'[c] = Starts(device_for_shard(a.vol, 1))
  BY LocateIs, Zenon
<1>3. calls[c].shards = << >> /\ \A i \in a.erased : device_for_shard(a.vol, i) \in history.failed
  BY <1>1, <1>2 DEF FetchOK, Reading
<1>4. io'[c].at = "open"
  BY <1>2 DEF Starts, NoIo
<1>5. \A i \in a.erased : device_for_shard(calls[c].vol, i)' \in history'.failed
  BY <1>0, <1>2, <1>3 DEF FailuresGrow, device_for_shard
<1> QED
  BY <1>2, <1>3, <1>4, <1>5 DEF FetchOK

LEMMA CheckFetch ==
  ASSUME EngineOK, StripesOK, FailuresOK, FailuresGrow, NEW c \in Callers, FetchOK(c), CheckShard(c)
  PROVE  FetchOK(c)'
<1>1. calls[c].op = "check" /\ Done(c) /\ volumes' = volumes
  BY DEF CheckShard, Is
<1>2. PICK call \in CallStates, a \in CallStates, x \in IoStates : Checked(c, call, a, x)
  BY CheckShardIs
<1>3. \A i \in calls[c].erased : device_for_shard(a.vol, i) \in history.failed
  BY <1>1, <1>2 DEF FetchOK, Reading, Checked
<1>4. ~Succeeds(c, calls[c].stripe) => device_for_shard(a.vol, calls[c].next) \in history.failed
  BY <1>1, <1>2, FailsIsFailed DEF Checked
<1>5. \A i \in a.erased : device_for_shard(calls[c].vol, i)' \in history'.failed
  BY <1>1, <1>2, <1>3, <1>4 DEF FailuresGrow, device_for_shard, Checked
<1> QED
  BY <1>2, <1>5 DEF FetchOK, Reading, Checked

\* What calls have read stays true, whatever fails, is written or is deleted.
LEMMA FetchNext ==
  ASSUME EngineOK, StripesOK, ReportsOK, [Next]_vars, NEW e \in Callers
  PROVE  FetchOK(e)'
<1>0. FetchOK(e) /\ FailuresOK /\ FailuresGrow
  BY FailuresNext DEF ReportsOK
<1>1. ASSUME calls'[e] = calls[e], io'[e] = io[e] PROVE FetchOK(e)'
  <2>1. calls[e].op \in {"read", "check"} => io'[e].at # "failed"
    BY <1>0, <1>1 DEF FetchOK
  <2> QED
    BY <1>0, <1>1, <2>1, FetchStays
<1>2. ASSUME NEW c \in Callers, Call(c), e # c PROVE FetchOK(e)'
  BY <1>1, <1>2, OthersWait
<1>3. ASSUME DeleteVolume \/ Delete \/ Verify \/ UNCHANGED vars PROVE FetchOK(e)'
  BY <1>1, <1>3 DEF DeleteVolume, Delete, Verify, vars, bdevVars
<1>4. ASSUME DeviceChange PROVE FetchOK(e)'
  BY <1>1, <1>4, EngineValues, TableIs DEF DeviceChange
<1>5. CASE OpenDevice(e)
  <2>1. calls'[e] = calls[e]
    BY <1>5 DEF OpenDevice
  <2> QED
    BY <1>0, <1>5, <2>1, OpensFetch, FetchStays
<1>6. CASE BeginCreate(e) \/ BeginWrite(e) \/ BeginHealth(e)
  <2>1. PICK a : calls' = [calls EXCEPT ![e] = a] /\ a.op \in {"create", "encode", "health"}
    <3>1. CASE BeginCreate(e)
      <4>1. PICK n, l : calls' = [calls EXCEPT ![e] = [NoCall EXCEPT !.op = "create", !.name = n, !.devices = l]]
        BY <3>1 DEF BeginCreate, Begins, Becomes
      <4>2. [NoCall EXCEPT !.op = "create", !.name = n, !.devices = l].op = "create"
        BY DEF NoCall
      <4> QED
        BY <4>1, <4>2
    <3>2. CASE BeginWrite(e)
      <4>1. PICK v : calls' = [calls EXCEPT ![e] = [NoCall EXCEPT !.op = "encode", !.vol = v]]
        BY <3>2 DEF BeginWrite, Begins, Becomes
      <4>2. [NoCall EXCEPT !.op = "encode", !.vol = v].op = "encode"
        BY DEF NoCall
      <4> QED
        BY <4>1, <4>2
    <3>3. CASE BeginHealth(e)
      <4>1. PICK n, todo : calls' = [calls EXCEPT ![e] = [NoCall EXCEPT !.op = "health", !.name = n, !.todo = todo]]
        BY <3>3 DEF BeginHealth, Begins, Becomes
      <4>2. [NoCall EXCEPT !.op = "health", !.name = n, !.todo = todo].op = "health"
        BY DEF NoCall
      <4> QED
        BY <4>1, <4>2
    <3> QED
      BY <1>6, <3>1, <3>2, <3>3
  <2>2. calls'[e].op \notin Reading
    BY <2>1, EngineFacts DEF Reading
  <2> QED
    BY <2>2, NoFetch
<1>7. CASE StoreVolume(e) \/ StoreMetadata(e) \/ WriteFails(e) \/ Decode(e) \/ Report(e)
  <2>1. calls' = [calls EXCEPT ![e] = NoCall] /\ NoCall.op = "none"
    BY <1>7, CallValues DEF StoreVolume, StoreMetadata, WriteFails, Ends, Decode, Report, Becomes
  <2>2. calls'[e].op \notin Reading
    BY <2>1, EngineFacts DEF Reading
  <2> QED
    BY <2>2, NoFetch
<1>8. CASE BeginRead(e)
  <2>1. PICK v, s : calls' = [calls EXCEPT ![e] = [NoCall EXCEPT !.op = "locate", !.vol = v, !.stripe = s]]
    BY <1>8 DEF BeginRead, Begins, Becomes
  <2>2. calls'[e] = [NoCall EXCEPT !.op = "locate", !.vol = v, !.stripe = s]
    BY <2>1, EngineFacts
  <2>3. calls'[e].op = "locate" /\ calls'[e].erased = {} /\ calls'[e].next = 1 /\ calls'[e].shards = << >>
    BY <2>2 DEF NoCall
  <2> QED
    BY <2>3, BeginsFetch
<1>9. CASE Encode(e)
  <2>1. calls'[e].op = "write"
    <3>1. PICK vol \in 1..Len(volumes), new \in CallStates : Encoded(e, vol, new)
      BY <1>9, EncodeIs
    <3> QED
      BY <3>1 DEF Encoded
  <2> QED
    BY <2>1, NoFetch DEF Reading
<1>10. CASE WriteShard(e)
  <2>1. calls'[e].op \in {"write", "store"}
    BY <1>10, WriteShardIs
  <2> QED
    BY <2>1, NoFetch DEF Reading
<1>11. CASE BeginStripe(e)
  <2>1. PICK a : /\ calls'[e] = a /\ a.erased = {}
                 /\ \/ a.op = "check" /\ io'[e] = Starts(device_for_shard(a.vol, 1))
                    \/ a.op = "health"
    BY <1>11, BeginStripeIs
  <2>2. a.op = "check" => io'[e].at # "failed"
    BY <2>1 DEF Starts, NoIo
  <2> QED
    BY <2>1, <2>2, NoFetch, BeginsFetch DEF Reading
<1>12. ASSUME Call(e) PROVE FetchOK(e)'
  BY <1>0, <1>12, <1>5, <1>6, <1>7, <1>8, <1>9, <1>10, <1>11, ReadFetch, LocateFetch, CheckFetch DEF Call
<1> QED
  BY <1>2, <1>3, <1>4, <1>12 DEF Next

\* Shards of a volume that has its devices once are erased by as many failed devices.
LEMMA ErasedFew ==
  ASSUME VolumesOK, FailuresOK, NEW v \in 1..Len(volumes), IsInjective(volumes[v].devices),
         NEW E \in SUBSET ShardIndices, \A i \in E : device_for_shard(v, i) \in history.failed
  PROVE  /\ IsFiniteSet(E) /\ Cardinality(E) \in Nat /\ Cardinality(history.failed) \in Nat
         /\ Cardinality(E) <= Cardinality(history.failed)
<1> DEFINE f == [i \in E |-> volumes[v].devices[i]]
<1>1. \A i \in E : /\ volumes[v].devices[i] \in history.failed
                   /\ i \in DOMAIN volumes[v].devices
  BY DeviceIs
<1>2. f \in [E -> history.failed]
  BY <1>1
<1>3. IsInjective(f)
  <2>1. \A a, b \in E : volumes[v].devices[a] = volumes[v].devices[b] => a = b
    BY <1>1 DEF IsInjective
  <2> QED
    BY <2>1 DEF IsInjective
<1>4. f \in Injection(E, history.failed)
  BY <1>2, <1>3 DEF Injection
<1> HIDE DEF f
<1>5. IsFiniteSet(history.failed)
  BY DEF FailuresOK
<1>6. IsFiniteSet(E) /\ Cardinality(E) <= Cardinality(history.failed)
  BY <1>4, <1>5, FS_Injection
<1> QED
  BY <1>5, <1>6, FS_CardinalityType

\* What excuses a report is not forgotten.
LEMMA ExcusedStays ==
  ASSUME EngineOK, FailuresOK, FailuresGrow, [Next]_vars, Excused
  PROVE  Excused'
<1>1. CASE history.gone # {}
  <2>1. history'.gone # {}
    BY <1>1, NothingGone DEF NamesStay
  <2> QED
    BY <2>1 DEF Excused
<1>2. CASE ~(Cardinality(history.failed) <= M)
  <2>1. /\ Cardinality(history.failed) \in Nat /\ Cardinality(history'.failed) \in Nat
        /\ Cardinality(history.failed) <= Cardinality(history'.failed)
    <3>1. IsFiniteSet(history.failed) /\ IsFiniteSet(history'.failed)
          /\ history.failed \in SUBSET history'.failed
      BY DEF FailuresGrow, FailuresOK
    <3> QED
      BY <3>1, FS_Subset, FS_CardinalityType
  <2>2. ~(Cardinality(history'.failed) <= M)
    BY <1>2, <2>1, EngineNumbers
  <2> QED
    BY <2>2 DEF Excused
<1>3. CASE \E l \in DeviceLists : ~IsInjective(l)
  BY <1>3 DEF Excused
<1> QED
  BY <1>1, <1>2, <1>3 DEF Excused

\* The call still looks at stripes of the volume that has its name.
LEMMA HealthStays ==
  ASSUME EngineOK, FailuresOK, FailuresGrow, [Next]_vars, NEW c \in Callers, HealthOK(c),
         calls'[c] = calls[c]
  PROVE  HealthOK(c)'
<1>1. ASSUME calls[c].op \in {"health", "check"}, history'.gone = {}
      PROVE  calls[c].name \in DOMAIN named' /\ calls[c].todo \subseteq volumes'[named'[calls[c].name]].stripes
  <2>1. NamesStay
    BY <1>1, NothingGone
  <2>2. calls[c].name \in DOMAIN named /\ calls[c].todo \subseteq volumes[named[calls[c].name]].stripes
    BY <1>1, <2>1 DEF HealthOK, NamesStay
  <2> QED
    BY <2>1, <2>2 DEF NamesStay
<1>2. calls[c].op \in {"health", "check"} /\ calls[c].worst = "Critical" => Excused'
  BY ExcusedStays DEF HealthOK
<1> QED
  BY <1>1, <1>2 DEF HealthOK

LEMMA NoHealth ==
  ASSUME NEW c \in Callers, calls'[c].op \notin {"health", "check"}
  PROVE  HealthOK(c)'
BY DEF HealthOK

LEMMA BeginHealthOK ==
  ASSUME EngineOK, NEW c \in Callers, BeginHealth(c)
  PROVE  HealthOK(c)'
<1>1. PICK n \in DOMAIN named :
        calls' = [calls EXCEPT ![c] = [NoCall EXCEPT !.op = "health", !.name = n,
                    !.todo = volumes[named[n]].stripes]]
        /\ named' = named /\ volumes' = volumes
  BY DEF BeginHealth, Begins, Becomes
<1> DEFINE a == [NoCall EXCEPT !.op = "health", !.name = n, !.todo = volumes[named[n]].stripes]
<1>2. a.name = n /\ a.todo = volumes[named[n]].stripes /\ a.worst = "Healthy"
  BY DEF NoCall
<1>3. calls'[c] = a
  BY <1>1, EngineFacts
<1> HIDE DEF a
<1> QED
  BY <1>1, <1>2, <1>3 DEF HealthOK

LEMMA BeginStripeHealth ==
  ASSUME EngineOK, FailuresOK, FailuresGrow, [Next]_vars, NEW c \in Callers, HealthOK(c), BeginStripe(c)
  PROVE  HealthOK(c)'
<1>1. calls[c].op = "health" /\ named' = named /\ volumes' = volumes /\ history' = history
  BY DEF BeginStripe, Is
<1>2. PICK s \in calls[c].todo, a \in CallStates :
           /\ calls'[c] = a
           /\ a.name = calls[c].name /\ a.todo = calls[c].todo \ {s}
           /\ \/ a.worst = calls[c].worst
              \/ ~(calls[c].name \in DOMAIN named /\ s \in volumes[named[calls[c].name]].stripes)
  BY BeginStripeIs
<1>3. history.gone = {} => calls[c].name \in DOMAIN named /\ calls[c].todo \subseteq volumes[named[calls[c].name]].stripes
  BY <1>1 DEF HealthOK
<1>4. calls[c].worst = "Critical" => Excused'
  BY <1>1, ExcusedStays DEF HealthOK
<1>5. a.worst = "Critical" => Excused'
  BY <1>1, <1>2, <1>3, <1>4 DEF Excused
<1>6. history'.gone = {} => a.name \in DOMAIN named' /\ a.todo \subseteq volumes'[named'[a.name]].stripes
  BY <1>1, <1>2, <1>3
<1> QED
  BY <1>2, <1>5, <1>6 DEF HealthOK

\* A stripe is graded critical only if more than M of its shards cannot be read.
LEMMA CriticalGrade ==
  ASSUME NEW call \in CallStates, Grade(call) = "Critical"
  PROVE  call.worst = "Critical" \/ ~(Cardinality(call.erased) <= M)
<1>1. IsFiniteSet(call.erased) /\ Cardinality(call.erased) \in Nat /\ Cardinality(call.erased) <= K + M
  <2>1. call.erased \in SUBSET ShardIndices
    BY DEF CallStates
  <2> QED
    BY <2>1, EngineNumbers, FS_Subset, FS_CardinalityType
<1>2. PICK n \in Nat : n = Cardinality(call.erased)
  BY <1>1
<1>3. n <= M => Status(K + M - n) # "Critical"
  BY <1>1, <1>2, EngineNumbers DEF Status
<1> QED
  BY <1>2, <1>3 DEF Grade, Worse

LEMMA CheckShardHealth ==
  ASSUME EngineOK, StripesOK, FailuresOK, FailuresGrow, [Next]_vars, NEW c \in Callers, HealthOK(c),
         FetchOK(c), CheckShard(c)
  PROVE  HealthOK(c)'
<1>1. calls[c].op = "check" /\ Done(c)
      /\ named' = named /\ volumes' = volumes /\ history' = history
  BY DEF CheckShard, Is
<1>2. PICK call \in CallStates, a \in CallStates, x \in IoStates : Checked(c, call, a, x)
  BY CheckShardIs
<1>3. calls[c].worst = "Critical" => Excused'
  BY <1>1, ExcusedStays DEF HealthOK
<1>4. ASSUME ~(Cardinality(call.erased) <= M) PROVE Excused'
  <2>1. PICK v \in 1..Len(volumes) : v = calls[c].vol
    BY <1>2 DEF Checked
  <2>2. \A i \in call.erased : device_for_shard(v, i) \in history.failed
    <3>1. \A i \in calls[c].erased : device_for_shard(v, i) \in history.failed
      BY <1>1, <2>1 DEF FetchOK, Reading
    <3>2. ~Succeeds(c, calls[c].stripe) => device_for_shard(v, calls[c].next) \in history.failed
      BY <1>1, <2>1, FailsIsFailed
    <3>3. call.erased = IF Succeeds(c, calls[c].stripe) THEN calls[c].erased
                        ELSE calls[c].erased \union {calls[c].next}
      BY <1>2 DEF Checked
    <3> QED
      BY <3>1, <3>2, <3>3
  <2>3. CASE IsInjective(volumes[v].devices)
    <3>1. call.erased \in SUBSET ShardIndices
      BY DEF CallStates
    <3>2. /\ Cardinality(call.erased) \in Nat /\ Cardinality(history.failed) \in Nat
          /\ Cardinality(call.erased) <= Cardinality(history.failed)
      BY <2>2, <2>3, <3>1, EngineValues, ErasedFew
    <3>3. ~(Cardinality(history.failed) <= M)
      BY <1>4, <3>2, EngineNumbers
    <3>4. Excused
      BY <3>3 DEF Excused
    <3> QED
      BY <3>4, ExcusedStays
  <2>4. CASE ~IsInjective(volumes[v].devices)
    <3>1. volumes[v].devices \in DeviceLists
      BY EngineValues, ListOfVolumes DEF VolumesOK
    <3> QED
      BY <2>4, <3>1 DEF Excused
  <2> QED
    BY <2>3, <2>4
<1>5. a.worst = "Critical" => Excused'
  <2>1. a.worst = calls[c].worst \/ a.worst = Grade(call)
    BY <1>2 DEF Checked
  <2>2. call.worst = calls[c].worst
    BY <1>2 DEF Checked
  <2> QED
    BY <1>3, <1>4, <2>1, <2>2, CriticalGrade
<1>6. history'.gone = {} => a.name \in DOMAIN named' /\ a.todo \subseteq volumes'[named'[a.name]].stripes
  <2>1. a.name = calls[c].name /\ a.todo = calls[c].todo
    BY <1>2 DEF Checked
  <2>2. calls[c].op \in {"health", "check"}
    BY <1>1
  <2> QED
    BY <1>1, <2>1, <2>2 DEF HealthOK
<1>7. calls'[c] = a
  BY <1>2 DEF Checked
<1> QED
  BY <1>5, <1>6, <1>7 DEF HealthOK

\* A report of health is about stripes of its volume, and critical only with an excuse.
LEMMA HealthNext ==
  ASSUME EngineOK, StripesOK, ReportsOK, [Next]_vars, NEW e \in Callers
  PROVE  HealthOK(e)'
<1>0. HealthOK(e) /\ FetchOK(e) /\ FailuresOK /\ FailuresGrow
  BY FailuresNext DEF ReportsOK
<1>1. ASSUME calls'[e] = calls[e] PROVE HealthOK(e)'
  BY <1>0, <1>1, HealthStays
<1>2. ASSUME NEW c \in Callers, Call(c), e # c PROVE HealthOK(e)'
  BY <1>1, <1>2, OthersWait
<1>3. ASSUME DeleteVolume \/ Delete \/ Verify \/ DeviceChange \/ UNCHANGED vars PROVE HealthOK(e)'
  BY <1>1, <1>3 DEF DeleteVolume, Delete, Verify, DeviceChange, vars
<1>4. CASE OpenDevice(e)
  BY <1>1, <1>4 DEF OpenDevice
<1>5. CASE BeginCreate(e) \/ BeginWrite(e) \/ BeginRead(e)
  <2>1. PICK a : calls' = [calls EXCEPT ![e] = a] /\ a.op \in {"create", "encode", "locate"}
    <3>1. CASE BeginCreate(e)
      <4>1. PICK n, l : calls' = [calls EXCEPT ![e] = [NoCall EXCEPT !.op = "create", !.name = n, !.devices = l]]
        BY <3>1 DEF BeginCreate, Begins, Becomes
      <4>2. [NoCall EXCEPT !.op = "create", !.name = n, !.devices = l].op = "create"
        BY DEF NoCall
      <4> QED
        BY <4>1, <4>2
    <3>2. CASE BeginWrite(e)
      <4>1. PICK v : calls' = [calls EXCEPT ![e] = [NoCall EXCEPT !.op = "encode", !.vol = v]]
        BY <3>2 DEF BeginWrite, Begins, Becomes
      <4>2. [NoCall EXCEPT !.op = "encode", !.vol = v].op = "encode"
        BY DEF NoCall
      <4> QED
        BY <4>1, <4>2
    <3>3. CASE BeginRead(e)
      <4>1. PICK v, s : calls' = [calls EXCEPT ![e] = [NoCall EXCEPT !.op = "locate", !.vol = v, !.stripe = s]]
        BY <3>3 DEF BeginRead, Begins, Becomes
      <4>2. [NoCall EXCEPT !.op = "locate", !.vol = v, !.stripe = s].op = "locate"
        BY DEF NoCall
      <4> QED
        BY <4>1, <4>2
    <3> QED
      BY <1>5, <3>1, <3>2, <3>3
  <2>2. calls'[e].op \notin {"health", "check"}
    BY <2>1, EngineFacts
  <2> QED
    BY <2>2, NoHealth
<1>6. CASE StoreVolume(e) \/ StoreMetadata(e) \/ WriteFails(e) \/ Decode(e) \/ Report(e)
  <2>1. calls' = [calls EXCEPT ![e] = NoCall] /\ NoCall.op = "none"
    BY <1>6, CallValues DEF StoreVolume, StoreMetadata, WriteFails, Ends, Decode, Report, Becomes
  <2>2. calls'[e].op \notin {"health", "check"}
    BY <2>1, EngineFacts
  <2> QED
    BY <2>2, NoHealth
<1>7. CASE Encode(e)
  <2>1. calls'[e].op = "write"
    <3>1. PICK vol \in 1..Len(volumes), new \in CallStates : Encoded(e, vol, new)
      BY <1>7, EncodeIs
    <3> QED
      BY <3>1 DEF Encoded
  <2> QED
    BY <2>1, NoHealth
<1>8. CASE Locate(e)
  <2>1. calls'[e].op = "read"
    BY <1>8, LocateIs, Zenon
  <2> QED
    BY <2>1, NoHealth
<1>9. CASE WriteShard(e) \/ ReadShard(e)
  <2>1. calls'[e].op \in {"write", "store"} \/ calls'[e].op \in {"read", "decode"}
    <3>1. CASE WriteShard(e)
      BY <3>1, WriteShardIs
    <3>2. CASE ReadShard(e)
      BY <3>2, ReadShardIs
    <3> QED
      BY <1>9, <3>1, <3>2
  <2> QED
    BY <2>1, NoHealth
<1>10. ASSUME Call(e) PROVE HealthOK(e)'
  BY <1>0, <1>10, <1>4, <1>5, <1>6, <1>7, <1>8, <1>9, BeginHealthOK, BeginStripeHealth, CheckShardHealth DEF Call
<1> QED
  BY <1>2, <1>3, <1>10 DEF Next

LEMMA ReportsNext ==
  ASSUME EngineOK, StripesOK, ReportsOK, [Next]_vars
  PROVE  ReportsOK'
BY FailuresNext, FetchNext, HealthNext DEF ReportsOK, FailuresGrow

LEMMA StripesStart ==
  ASSUME Init
  PROVE  StripesOK /\ ReportsOK
<1>1. \A c \in Callers : calls[c].op = "none"
  BY CallValues DEF Init
<1>2. volumes = << >> /\ 1..Len(volumes) = {}
  BY DEF Init
<1>3. StripesOK
  BY <1>1, <1>2 DEF StripesOK, Writes, Writing
<1>4. faulty = {} /\ history.failed = {}
  BY DEF Init, BdevInit
<1>5. FailuresOK
  BY <1>4, FS_EmptySet DEF FailuresOK
<1>6. \A c \in Callers : FetchOK(c) /\ HealthOK(c)
  BY <1>1 DEF FetchOK, HealthOK, Reading
<1> QED
  BY <1>3, <1>5, <1>6 DEF ReportsOK

-----------------------------------------------------------------------------
(* The engine: what the invariant says of writes, reads and faults.        *)

LEMMA InvariantStarts ==
  ASSUME Init
  PROVE  EngineInv
BY EngineStarts, CountsStart, StripesStart DEF EngineInv

LEMMA InvariantNext ==
  ASSUME EngineInv, [Next]_vars
  PROVE  EngineInv'
<1>1. EngineOK'
  BY EngineNext DEF EngineInv, EngineStep
<1> QED
  BY <1>1, CountsNext, MarksNext, StripesNext, ReportsNext DEF EngineInv

LEMMA TypesAre ==
  ASSUME EngineOK, CountsOK
  PROVE  EngineTypeOK
<1>1. BdevTypeOK
  <2>1. \A h \in HandleIds : DOMAIN stores[h].blocks = Offsets
    BY EngineValues, StoreFacts DEF Handles
  <2> QED
    BY <2>1, EngineValues DEF BdevTypeOK, DevicesOK, IoOK
<1>2. \A n \in DOMAIN named : n \in Names /\ named[n] \in 1..Len(volumes)
  BY NamedIs
<1>3. \A v \in 1..Len(volumes) : volumes[v].stripes \subseteq 1..(volumes[v].next - 1)
  BY EngineValues DEF VolumesOK
<1>4. permits \in 0..MaxConcurrent
  <2>1. Cardinality(Holding) \in Nat
    <3>1. Holding \in SUBSET Callers
      BY DEF Holding
    <3> QED
      BY <3>1, BlockDeviceAssumption, FS_Subset, FS_CardinalityType
  <2> QED
    BY <2>1, EngineValues, EcEngineAssumption DEF CountsOK
<1>5. \A p \in {pools.data, pools.parity} : p.free \in 0..p.cap
  <2>1. \A p \in {pools.data, pools.parity} : p \in PoolStates /\ p.free <= p.cap
    BY EngineValues DEF CountsOK
  <2> QED
    BY <2>1 DEF PoolStates
<1> QED
  BY <1>1, <1>2, <1>3, <1>4, <1>5 DEF EngineTypeOK

LEMMA StripesAre ==
  ASSUME EngineOK, StripesOK
  PROVE  StripesAreWhole
<1> SUFFICES ASSUME NEW v \in 1..Len(volumes), NEW s \in volumes[v].stripes, Sound(v, s),
                    NEW i \in ShardIndices
             PROVE  LET d == device_for_shard(v, i) IN
                    d \in DOMAIN handles /\ stores[handles[d]].blocks[s] = Shard(v, s, i)
  BY DEF StripesAreWhole
<1>1. s \in Nat /\ Finished(v, s)
  BY StripeIs DEF Finished
<1> QED
  BY <1>1 DEF StripesOK, ShardSafe

\* From shards of one stripe the codec recovers any other.
LEMMA ReconstructIs ==
  ASSUME ~MockCodec, NEW v \in Nat, NEW s \in Nat, NEW shards, NEW erased,
         NEW j \in ShardIndices \ erased,
         \A k \in ShardIndices \ erased : shards[k] = Shard(v, s, k), NEW i \in ShardIndices
  PROVE  reconstruct(shards, erased, i) = Shard(v, s, i)
<1> DEFINE seen == {shards[k] : k \in ShardIndices \ erased}
           a == CHOOSE x \in seen : TRUE
<1>1. \A x \in seen : x \in Nat \X Nat \X Nat /\ x[1] = v /\ x[2] = s
  BY EngineNumbers DEF Shard
<1>2. \A x, y \in seen : x # Zeros /\ y # Zeros /\ x[1] = y[1] /\ x[2] = y[2]
  BY <1>1, EcEngineAssumption
<1>3. seen # {}
  OBVIOUS
<1>4. reconstruct(shards, erased, i) = Shard(a[1], a[2], i)
  BY <1>2 DEF reconstruct
<1>5. a \in seen
  BY <1>3
<1> HIDE DEF a
<1> QED
  BY <1>1, <1>4, <1>5

\* What a call has read is what was written.
LEMMA ReadsAre ==
  ASSUME EngineOK, ReportsOK
  PROVE  ReadsReturnWrites
<1> SUFFICES ASSUME NEW c \in Callers, calls[c].op = "decode", Cardinality(calls[c].erased) <= M,
                    Sound(calls[c].vol, calls[c].stripe), calls[c].erased # {} => ~MockCodec
             PROVE  decode(calls[c].shards, calls[c].erased) = Stripe(calls[c].vol, calls[c].stripe)
  BY DEF ReadsReturnWrites
<1>1. PICK call \in CallStates : call = calls[c]
  BY EngineFacts
<1>2. call.vol \in Nat /\ call.stripe \in Nat /\ call.erased \in SUBSET ShardIndices
  BY DEF CallStates
<1>3. \A k \in ShardIndices \ call.erased : call.shards[k] = Shard(call.vol, call.stripe, k)
  <2>1. FetchOK(c)
    BY DEF ReportsOK
  <2>2. Len(call.shards) = K + M /\ Sound(call.vol, call.stripe)
    BY <1>1, <2>1 DEF FetchOK
  <2>3. \A k \in 1..Len(call.shards) : k \in call.erased \/ call.shards[k] = Shard(call.vol, call.stripe, k)
    BY <1>1, <2>1, <2>2 DEF FetchOK
  <2> QED
    BY <2>2, <2>3 DEF ShardIndices
<1>4. \E j \in ShardIndices : j \notin call.erased
  <2>1. Cardinality(ShardIndices) = K + M /\ K + M > M
    BY EngineNumbers
  <2>2. call.erased # ShardIndices
    BY <1>1, <2>1, EngineNumbers
  <2> QED
    BY <1>2, <2>2
<1>5. ASSUME NEW i \in 1..K
      PROVE  decode(call.shards, call.erased)[i] = Shard(call.vol, call.stripe, i)
  <2>1. i \in ShardIndices
    BY EngineNumbers
  <2>2. CASE i \in call.erased
    <3>1. ~MockCodec
      BY <1>1, <2>2
    <3>2. reconstruct(call.shards, call.erased, i) = Shard(call.vol, call.stripe, i)
      BY <1>2, <1>3, <1>4, <2>1, <3>1, ReconstructIs
    <3> QED
      BY <2>2, <3>2 DEF decode
  <2>3. CASE i \notin call.erased
    BY <1>3, <2>1, <2>3 DEF decode
  <2> QED
    BY <2>2, <2>3
<1>6. decode(call.shards, call.erased) = Stripe(call.vol, call.stripe)
  BY <1>5 DEF decode, Stripe
<1> QED
  BY <1>1, <1>6

LEMMA FaultsAre ==
  ASSUME EngineOK, ReportsOK
  PROVE  ToleratesFaults
<1> SUFFICES ASSUME Cardinality(history.failed) <= M, NEW c \in Callers
             PROVE  /\ Is(c, "decode") /\ IsInjective(volumes[calls[c].vol].devices)
                         => Cardinality(calls[c].erased) <= M
                    /\ Is(c, "health") /\ calls[c].worst = "Critical"
                         => history.gone # {} \/ \E l \in DeviceLists : ~IsInjective(l)
  BY DEF ToleratesFaults
<1>1. FetchOK(c) /\ HealthOK(c) /\ FailuresOK
  BY DEF ReportsOK
<1>2. ASSUME calls[c].op = "decode", IsInjective(volumes[calls[c].vol].devices)
      PROVE  Cardinality(calls[c].erased) <= M
  <2>1. PICK v \in 1..Len(volumes) : v = calls[c].vol
    BY <1>2, EngineFacts DEF CallOK, Reading
  <2>2. PICK E \in SUBSET ShardIndices : E = calls[c].erased
    BY EngineFacts DEF CallStates
  <2>3. \A i \in E : device_for_shard(v, i) \in history.failed
    BY <1>1, <1>2, <2>1, <2>2 DEF FetchOK, Reading
  <2>4. /\ Cardinality(E) \in Nat /\ Cardinality(history.failed) \in Nat
        /\ Cardinality(E) <= Cardinality(history.failed)
    BY <1>1, <1>2, <2>1, <2>3, EngineValues, ErasedFew
  <2> QED
    BY <2>2, <2>4, EngineNumbers
<1>3. calls[c].op = "health" /\ calls[c].worst = "Critical" => Excused
  BY <1>1 DEF HealthOK
<1> QED
  BY <1>2, <1>3 DEF Is, Excused

\* What was written stays on the devices and is what reads return, whatever fails, is
\* deleted, created again or runs at the same time, unless the engine's own checks do
\* not notice it (a device opened twice or closed, two volumes at one place).
THEOREM WritesStaySafe == Spec => []WritesAreSafe
<1>1. Init => EngineInv
  BY InvariantStarts
<1>2. EngineInv /\ [Next]_vars => EngineInv'
  BY InvariantNext
<1>3. EngineInv => WritesAreSafe
  BY TypesAre, StripesAre, ReadsAre DEF EngineInv, WritesAreSafe
<1> QED
  BY <1>1, <1>2, <1>3, PTL DEF Spec

\* As many devices as there are parity shards may fail without a read that has too few
\* shards or a stripe that is reported critical.
THEOREM FaultsStayTolerated == Spec => []ToleratesFaults
<1>1. Init => EngineInv
  BY InvariantStarts
<1>2. EngineInv /\ [Next]_vars => EngineInv'
  BY InvariantNext
<1>3. EngineInv => ToleratesFaults
  BY FaultsAre DEF EngineInv
<1> QED
  BY <1>1, <1>2, <1>3, PTL DEF Spec
=============================================================================
