-------------------------------- MODULE EcReader -------------------------------
(***************************************************************************)
(* Reads that fetch all shards of a stripe at once and reconstruct what is *)
(* missing (src/spdk/read_path.rs).  Shards answer in any order, with data *)
(* or an error, or not before their timeout; a timeout of the whole read   *)
(* may come before that of the last shards.                                *)
(*                                                                         *)
(* The shards themselves are not read from devices in the code yet: that a *)
(* shard is lost, and that a repair brings it back, comes from outside.    *)
(***************************************************************************)
EXTENDS Naturals, Sequences, FiniteSets

CONSTANTS
  Readers,       \* tasks that read
  Stripes,       \* stripes they read
  DataShards, ParityShards,
  RepairCap,     \* capacity of the channel of repairs
  MaxReads,      \* bound: reads
  MaxLosses      \* bound: shards that are lost

TotalShards == DataShards + ParityShards
Shards == 1..TotalShards
DataIndices == 1..DataShards

ASSUME EcReaderAssumption ==
  /\ DataShards \in Nat \ {0} /\ ParityShards \in Nat \ {0}
  /\ RepairCap \in Nat \ {0} /\ MaxReads \in Nat /\ MaxLosses \in Nat

VARIABLES
  config,    \* enable_fast_path and trigger_background_repair
  reads,     \* the reads in progress
  lost,      \* the shards that are lost, of each stripe
  repairs,   \* the channel of repairs
  observed   \* what the properties remember, and the counters of the bounds

readerVars == <<config, reads, lost, repairs, observed>>

NoRead == [pc |-> "idle", stripe |-> "", pending |-> {}, got |-> {}, late |-> {},
           path |-> "none", data |-> << >>]

ReaderTypeOK ==
  /\ config \in [fast: BOOLEAN, repair: BOOLEAN]
  /\ \A r \in Readers :
       /\ reads[r].pc \in {"idle", "gather", "done"}
       /\ reads[r].pending \subseteq Shards /\ reads[r].got \subseteq Shards
       /\ reads[r].pending \intersect reads[r].got = {}
  /\ lost \in [Stripes -> SUBSET Shards]
  /\ Len(repairs) <= RepairCap
  /\ \A i \in DOMAIN repairs : repairs[i].stripe \in Stripes /\ repairs[i].missing \subseteq Shards

-----------------------------------------------------------------------------
(* Fetching the shards.                                                    *)

\* scatter_gather_read: all reads are started together.
ScatterGather(r) ==
  \E s \in Stripes :
    /\ reads[r].pc = "idle" /\ observed.reads < MaxReads
    /\ reads' = [reads EXCEPT ![r] =
         [NoRead EXCEPT !.pc = "gather", !.stripe = s, !.pending = Shards]]
    /\ observed' = [observed EXCEPT !.reads = @ + 1]
    /\ UNCHANGED <<config, lost, repairs>>

\* read_single_shard: data, or an error of the device.
Answer(r, i) ==
  LET read == reads[r] IN
  /\ read.pc = "gather" /\ i \in read.pending
  /\ reads' = [reads EXCEPT ![r].pending = @ \ {i},
                 ![r].got = IF i \in lost[read.stripe] THEN @ ELSE @ \union {i}]
  /\ UNCHANGED <<config, lost, repairs, observed>>

\* A shard that is lost is not remembered as late as well.
Late(r, i) == reads[r].late \union ({i} \ lost[reads[r].stripe])

ShardTimeout(r, i) ==
  /\ reads[r].pc = "gather" /\ i \in reads[r].pending
  /\ reads' = [reads EXCEPT ![r].pending = @ \ {i}, ![r].late = Late(r, i)]
  /\ UNCHANGED <<config, lost, repairs, observed>>

\* The timeout of the whole read discards the shards that were there in time.
ReadTimeout(r) ==
  /\ reads[r].pc = "gather" /\ reads[r].pending # {}
  /\ reads' = [reads EXCEPT ![r].pending = {}, ![r].got = {}, ![r].late = Shards]
  /\ UNCHANGED <<config, lost, repairs, observed>>

-----------------------------------------------------------------------------
(* What becomes of the stripe.                                             *)

\* Buffers of the shards handed to the codec: an erased shard has no content.
Buffer(read, i) == IF i \in read.got THEN i ELSE 0

erasures(read) == Shards \ read.got

\* The codec recovers a shard from DataShards of those that are not erased.
Recovered(read, i) ==
  LET present == Shards \ erasures(read)
      used == {j \in present : Cardinality({o \in present : o < j}) < DataShards}
  IN IF Cardinality(used) = DataShards /\ \A j \in used : Buffer(read, j) = j THEN i ELSE 0

\* combine_data_shards, after reconstruct_missing_shards
Combined(read) ==
  [i \in DataIndices |-> IF i \in read.got THEN Buffer(read, i) ELSE Recovered(read, i)]

missing_data(read) == DataIndices \ read.got

triggers(read) == config.repair /\ missing_data(read) # {}

EndsRead(r, path, data) ==
  reads' = [reads EXCEPT ![r].pc = "done", ![r].path = path, ![r].data = data]

FastPath(r) ==
  /\ reads[r].pc = "gather" /\ reads[r].pending = {}
  /\ reads[r].got = Shards /\ config.fast
  /\ EndsRead(r, "fast", Combined(reads[r]))
  /\ UNCHANGED <<config, lost, repairs, observed>>

\* Mutant: one shard more than needed is asked for.
WantsMore(read) == Cardinality(read.got) > DataShards

Suffices(read) == Cardinality(read.got) >= DataShards

HasRoom == Len(repairs) < RepairCap

\* try_send: a request for which the channel has no room is dropped.
DegradedPath(r) ==
  LET read == reads[r]
      request == [stripe |-> read.stripe, missing |-> Shards \ read.got]
  IN
  /\ read.pc = "gather" /\ read.pending = {}
  /\ ~(read.got = Shards /\ config.fast) /\ Suffices(read)
  /\ EndsRead(r, "degraded", Combined(read))
  /\ IF triggers(read) /\ HasRoom
       THEN /\ repairs' = Append(repairs, request)
            /\ observed' = [observed EXCEPT !.asked = @ \union {request}]
       ELSE /\ UNCHANGED repairs
            /\ observed' = [observed EXCEPT !.full = @ \/ triggers(read)]
  /\ UNCHANGED <<config, lost>>

Fail(r) ==
  /\ reads[r].pc = "gather" /\ reads[r].pending = {}
  /\ ~(reads[r].got = Shards /\ config.fast) /\ ~Suffices(reads[r])
  /\ EndsRead(r, "failed", << >>)
  /\ UNCHANGED <<config, lost, repairs, observed>>

Return(r) ==
  /\ reads[r].pc = "done"
  /\ reads' = [reads EXCEPT ![r] = NoRead]
  /\ UNCHANGED <<config, lost, repairs, observed>>

-----------------------------------------------------------------------------
(* The outside: devices that lose shards, and the task that repairs them.  *)

Lose ==
  /\ observed.losses < MaxLosses
  /\ \E s \in Stripes : \E i \in Shards \ lost[s] :
       /\ lost' = [lost EXCEPT ![s] = @ \union {i}]
       /\ observed' = [observed EXCEPT !.losses = @ + 1, !.lost = @ \union {<<s, i>>}]
  /\ UNCHANGED <<config, reads, repairs>>

RepairShards ==
  /\ repairs # << >>
  /\ repairs' = Tail(repairs)
  /\ lost' = [lost EXCEPT ![Head(repairs).stripe] = @ \ Head(repairs).missing]
  /\ UNCHANGED <<config, reads, observed>>

ReaderInit ==
  /\ config \in [fast: BOOLEAN, repair: BOOLEAN]
  /\ reads = [r \in Readers |-> NoRead]
  /\ lost = [s \in Stripes |-> {}]
  /\ repairs = << >>
  /\ observed = [reads |-> 0, losses |-> 0, asked |-> {}, full |-> FALSE, lost |-> {}]

Read(r) ==
  \/ ScatterGather(r)
  \/ \E i \in Shards : Answer(r, i) \/ ShardTimeout(r, i)
  \/ ReadTimeout(r)
  \/ FastPath(r) \/ DegradedPath(r) \/ Fail(r) \/ Return(r)

ReaderNext == (\E r \in Readers : Read(r)) \/ Lose \/ RepairShards

ReaderSpec == ReaderInit /\ [][ReaderNext]_readerVars

-----------------------------------------------------------------------------
(* Properties.                                                             *)

\* Whatever shards are missing, data and parity, and in whatever order they
\* came, the data a read returns is that of the stripe.
DataIsRestored ==
  \A r \in Readers : reads[r].path \in {"fast", "degraded"} =>
    reads[r].data = [i \in DataIndices |-> i]

\* A read fails only if more shards than there is parity were lost or late; a
\* read that runs into its own timeout takes all of its shards to be late.
LossesAreTolerated ==
  \A r \in Readers : LET read == reads[r] IN
    read.path = "failed" =>
      Cardinality(read.late \union {i \in Shards : <<read.stripe, i>> \in observed.lost})
        > ParityShards

\* A read that had to reconstruct data has asked for the repair of all shards it
\* missed, unless the channel of repairs was full.
MissingShardsAreReported ==
  \A r \in Readers : LET read == reads[r] IN
    read.path = "degraded" /\ config.repair /\ missing_data(read) # {} =>
      \/ observed.full
      \/ [stripe |-> read.stripe, missing |-> Shards \ read.got] \in observed.asked

\* A read gives the data of its stripe or, only if too much is missing, an error, and
\* asks for the repair of what was missing.
ReadsAreAnswered ==
  ReaderTypeOK /\ DataIsRestored /\ LossesAreTolerated /\ MissingShardsAreReported

=============================================================================
