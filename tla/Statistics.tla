------------------------------ MODULE Statistics ------------------------------
(***************************************************************************)
(* The statistics that the components keep: structures of atomic counters, *)
(* to which the tasks add without a lock, and which others read or reset   *)
(* one counter at a time.                                                  *)
(*                                                                         *)
(* All accesses are Ordering::Relaxed, so nothing keeps the additions of   *)
(* one recording in the order they are written: another thread may see any *)
(* of them first.  Sizes and durations, which are added as well, are taken *)
(* to be one unit per recording.                                           *)
(***************************************************************************)
EXTENDS Naturals, Sequences, FiniteSets, SequencesExt, Sums

CONSTANTS
  Recorders,   \* tasks that record
  Kinds,       \* structures that are looked at, each in behaviours of its own
  MaxRecords   \* bound: recordings

Structures ==
  {"io", "volume", "processor", "reader", "compression", "destage", "zns", "cache", "histogram"}

ASSUME StatisticsAssumption ==
  IsFiniteSet(Recorders) /\ Kinds \subseteq Structures /\ MaxRecords \in Nat

VARIABLES
  kind,      \* the structure of this behaviour
  counter,   \* its counters
  pending,   \* what each recorder has yet to add
  clearing,  \* what a reset has yet to clear
  snap,      \* the snapshot being taken
  records,   \* history: recordings
  torn       \* history: a reset overlapped a recording

statVars == <<kind, counter, pending, clearing, snap, records, torn>>

-----------------------------------------------------------------------------
(* The structures: their counters in the order in which they are read, and *)
(* what a recording may add to.                                            *)

IoStats == <<"reads", "writes", "bytes_read", "bytes_written", "read_errors", "write_errors">>
IoRecords ==
  {{"reads", "bytes_read"}, {"read_errors"}, {"writes", "bytes_written"}, {"write_errors"}}

VolumeStats ==
  <<"bytes_written", "bytes_read", "stripes_created", "reads", "writes", "reconstructions",
    "read_errors", "write_errors">>
VolumeRecords ==
  {{"writes", "bytes_written", "stripes_created"}, {"write_errors"}, {"reads", "bytes_read"},
   {"reads", "bytes_read", "reconstructions"}, {"read_errors"}}

\* Nothing adds to the errors.
ProcessorStats ==
  <<"stripes_encoded", "stripes_decoded", "reconstructions", "bytes_encoded", "bytes_decoded">>
ProcessorRecords ==
  {{"stripes_encoded", "bytes_encoded"}, {"stripes_decoded", "bytes_decoded"},
   {"reconstructions", "stripes_decoded", "bytes_decoded"}}

ReaderStats ==
  <<"reads_total", "reads_fast_path", "reads_degraded", "reads_failed", "bytes_read">>
ReaderRecords ==
  {{"reads_total", "reads_fast_path", "bytes_read"}, {"reads_total", "reads_degraded", "bytes_read"},
   {"reads_total", "reads_failed"}}

\* A chunk may be skipped for a reason that has no counter, or none that a snapshot
\* shows.
CompressionStats == <<"attempted", "successful", "high_entropy", "poor_ratio", "output">>
CompressionRecords ==
  {{"attempted", "output"} \union reason :
     reason \in {{}, {"successful"}, {"high_entropy"}, {"poor_ratio"}}}

DestageStats ==
  <<"completed", "bytes_destaged", "stripes_created", "failed", "encode_operations",
    "encode_failures", "shard_writes", "shard_write_failures">>
DestageRecords ==
  {{"completed", "bytes_destaged", "stripes_created"}, {"failed"}, {"encode_operations"},
   {"encode_operations", "encode_failures"}, {"shard_writes"},
   {"shard_writes", "shard_write_failures"}}

ZnsStats == <<"writes_total", "bytes_written", "resets_total", "bytes_reclaimed", "failures">>
ZnsRecords == {{"writes_total", "bytes_written"}, {"resets_total", "bytes_reclaimed"}, {"failures"}}

\* A get of the object cache records at each tier it comes to (a hit of L1 alone
\* relates to nothing and is left out, as are promotions).
CacheMetrics == <<"l1_misses", "l2_hits", "l2_misses", "l3_hits", "l3_misses">>
CacheRecords ==
  {{"l1_misses", "l2_hits"}, {"l1_misses", "l2_misses", "l3_misses"},
   {"l1_misses", "l2_misses", "l3_hits"}}

\* A value counts in every bucket whose boundary is not below it.
Histogram == <<"le_1", "le_2", "sum", "count">>
HistogramRecords ==
  {{"count", "sum"}} \union
  {{"count", "sum"} \union {Histogram[b] : b \in i..2} : i \in 1..2}

Counters(k) ==
  CASE k = "io" -> IoStats [] k = "volume" -> VolumeStats [] k = "processor" -> ProcessorStats
    [] k = "reader" -> ReaderStats [] k = "compression" -> CompressionStats
    [] k = "destage" -> DestageStats [] k = "zns" -> ZnsStats [] k = "cache" -> CacheMetrics
    [] k = "histogram" -> Histogram

Recordings(k) ==
  CASE k = "io" -> IoRecords [] k = "volume" -> VolumeRecords [] k = "processor" -> ProcessorRecords
    [] k = "reader" -> ReaderRecords [] k = "compression" -> CompressionRecords
    [] k = "destage" -> DestageRecords [] k = "zns" -> ZnsRecords [] k = "cache" -> CacheRecords
    [] k = "histogram" -> HistogramRecords

\* The structures with a reset, all counters of which are cleared.
Resettable == {"io", "processor", "cache"}

\* What must hold of the counters: the sum of some equals the sum of others, or
\* is not less.
Equal(a, b) == [whole |-> a, parts |-> b, exact |-> TRUE]
AtLeast(a, b) == [whole |-> a, parts |-> b, exact |-> FALSE]

Relations(k) ==
  CASE k = "io" -> {Equal({"reads"}, {"bytes_read"}), Equal({"writes"}, {"bytes_written"})}
    [] k = "volume" -> {Equal({"writes"}, {"stripes_created"}), AtLeast({"reads"}, {"reconstructions"})}
    [] k = "processor" -> {Equal({"stripes_encoded"}, {"bytes_encoded"}),
                           AtLeast({"stripes_decoded"}, {"reconstructions"})}
    [] k = "reader" -> {Equal({"reads_total"}, {"reads_fast_path", "reads_degraded", "reads_failed"})}
    [] k = "compression" -> {Equal({"attempted"}, {"output"}),
         AtLeast({"attempted"}, {"successful", "high_entropy", "poor_ratio"})}
    [] k = "destage" -> {Equal({"completed"}, {"stripes_created"}),
         AtLeast({"encode_operations"}, {"encode_failures"}),
         AtLeast({"shard_writes"}, {"shard_write_failures"})}
    [] k = "zns" -> {Equal({"writes_total"}, {"bytes_written"})}
    [] k = "cache" -> {Equal({"l1_misses"}, {"l2_hits", "l2_misses"}),
         Equal({"l2_misses"}, {"l3_hits", "l3_misses"})}
    [] k = "histogram" -> {AtLeast({"le_2"}, {"le_1"}), AtLeast({"count"}, {"le_2"}),
         Equal({"count"}, {"sum"})}

-----------------------------------------------------------------------------

Names == ToSet(Counters(kind))

NoSnap == [todo |-> << >>, seen |-> << >>, start |-> << >>]
Taken == [NoSnap EXCEPT !.todo = <<"taken">>]

Record(r) ==
  /\ pending[r] = {} /\ records < MaxRecords
  /\ records' = records + 1
  /\ \E additions \in Recordings(kind) : pending' = [pending EXCEPT ![r] = additions]
  /\ torn' = (torn \/ clearing # << >>)
  /\ UNCHANGED <<kind, counter, clearing, snap>>

\* fetch_add of 1.
Add(r) ==
  /\ \E c \in pending[r] :
       /\ counter' = [counter EXCEPT ![c] = @ + 1]
       /\ pending' = [pending EXCEPT ![r] = @ \ {c}]
  /\ UNCHANGED <<kind, clearing, snap, records, torn>>

\* reset stores 0 in one counter after another.
BeginReset ==
  /\ kind \in Resettable /\ clearing = << >> /\ snap \in {NoSnap, Taken}
  /\ \E c \in Names : counter[c] > 0
  /\ clearing' = Counters(kind)
  /\ torn' = (torn \/ \E r \in Recorders : pending[r] # {})
  /\ UNCHANGED <<kind, counter, pending, snap, records>>

Clear ==
  /\ clearing # << >>
  /\ counter' = [counter EXCEPT ![Head(clearing)] = 0]
  /\ clearing' = Tail(clearing)
  /\ UNCHANGED <<kind, pending, snap, records, torn>>

BeginSnapshot ==
  /\ snap = NoSnap /\ clearing = << >>
  /\ snap' = [todo |-> Counters(kind), seen |-> [c \in Names |-> 0], start |-> counter]
  /\ UNCHANGED <<kind, counter, pending, clearing, records, torn>>

Read ==
  /\ snap.seen # << >> /\ snap.todo # << >>
  /\ snap' = [snap EXCEPT !.todo = Tail(@), !.seen[Head(snap.todo)] = counter[Head(snap.todo)]]
  /\ UNCHANGED <<kind, counter, pending, clearing, records, torn>>

\* The snapshot is returned; one is enough in a behaviour.
EndSnapshot ==
  /\ snap.seen # << >> /\ snap.todo = << >>
  /\ snap' = Taken
  /\ UNCHANGED <<kind, counter, pending, clearing, records, torn>>

StatisticsInit ==
  /\ kind \in Kinds
  /\ counter = [c \in Names |-> 0]
  /\ pending = [r \in Recorders |-> {}] /\ clearing = << >> /\ snap = NoSnap
  /\ records = 0 /\ torn = FALSE

StatisticsNext ==
  \/ \E r \in Recorders : Record(r) \/ Add(r)
  \/ BeginReset \/ Clear \/ BeginSnapshot \/ Read \/ EndSnapshot

-----------------------------------------------------------------------------

Sum(values, names) == SumOf([c \in names |-> values[c]])

Agree(values) ==
  \A rel \in Relations(kind) :
    LET whole == Sum(values, rel.whole)
        parts == Sum(values, rel.parts)
    IN IF rel.exact THEN whole = parts ELSE whole >= parts

\* Whenever nobody is recording, the counters agree with each other: totals with
\* their parts, buckets with the count.  Only a reset that overlapped a recording
\* may have put them apart, and then for good.
TotalsAddUp ==
  ~torn /\ clearing = << >> /\ (\A r \in Recorders : pending[r] = {}) => Agree(counter)

\* A snapshot is not of any one moment, but each of its counters is between what
\* it was when the snapshot began and what it is when it ends.
SnapshotsAreBounded ==
  snap.seen # << >> /\ snap.todo = << >> =>
    \A c \in Names : snap.start[c] <= snap.seen[c] /\ snap.seen[c] <= counter[c]
=============================================================================
