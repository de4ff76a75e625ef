--------------------------- MODULE DestageManager ---------------------------
(***************************************************************************)
(* The destage manager (src/spdk/destage_manager.rs) on top of the         *)
(* metadata engine: writes of the hot journal are assembled into stripes,  *)
(* the stripes encoded and written to the cold store, the map of blocks    *)
(* switched over, and the journal trimmed.                                 *)
(*                                                                         *)
(* A destage task is a thread of MetadataEngine.  So is the host, which is *)
(* not part of the repository: it puts a write into the journal, maps its  *)
(* range to the journal (insert_mapping is "for Hot Journal writes") or    *)
(* does not, and submits it.  The journal itself is durable; a write is    *)
(* known by its number.                                                    *)
(***************************************************************************)
EXTENDS MetadataEngine, SequencesExt

CONSTANTS
  Host,           \* the thread that writes; the other threads are destage tasks
  Volumes,
  Requests,       \* the writes the host makes: volume and range
  StripeSize,     \* stripe_data_size, in blocks
  DataShards,     \* k
  ParityShards,   \* m
  MaxConcurrent,  \* max_concurrent_destages
  Modes,          \* dry_run, and whether the host maps what it writes
  ChannelCap,     \* bound: capacity of the channel of writes
  MaxWrites       \* bound: writes of the host

Tasks == Threads \ {Host}
TotalShards == DataShards + ParityShards

ASSUME DestageAssumption ==
  /\ Host \in Threads /\ IsFiniteSet(Threads)
  /\ Requests \subseteq [vol: Volumes, range: Requested]
  /\ StripeSize \in Nat \ {0}
  /\ DataShards \in Nat \ {0} /\ ParityShards \in Nat \ {0}
  /\ MaxConcurrent \in Nat \ {0}
  /\ Modes \subseteq [dry_run: BOOLEAN, maps: BOOLEAN]
  /\ ChannelCap \in Nat \ {0} /\ MaxWrites \in Nat

VARIABLES
  mode,       \* the configuration
  journal,    \* the writes so far: volume, range and the location mapped, if any
  pending,    \* the write the host is about to submit, or 0
  channel,    \* write_tx, write_rx
  buffers,    \* assembly_buffers: the pending writes of each volume
  tasks,      \* the destage tasks
  permits,    \* free permits of destage_semaphore
  looping,    \* run has not ended
  trimmed,    \* writes whose journal space is released
  acked,      \* history: writes that have been submitted
  raced       \* history: a block was written again before its last write was destaged

engine == vars
pipeline == <<channel, buffers, tasks, permits, looping, trimmed>>
destageVars == <<engine, pipeline, mode, journal, pending, acked, raced>>

Writes == 1..Len(journal)

TaskPcs == {"free", "acquire", "encode", "write", "metadata", "mapping", "trim",
            "done", "failed"}
Free == [pc |-> "free", writes |-> <<>>, shards |-> 0, loc |-> NoLoc]

DestageTypeOK ==
  /\ TypeOK
  /\ mode \in Modes
  /\ journal \in Seq([vol: Volumes, range: LbaRange, loc: Locations \union {NoLoc}])
  /\ pending \in 0..Len(journal)
  /\ channel \in Seq(Writes)
  /\ buffers \in [Volumes -> Seq(Writes)]
  /\ tasks \in [Tasks -> [pc: TaskPcs, writes: Seq(Writes), shards: 0..TotalShards,
                          loc: Locations \union {NoLoc}]]
  /\ permits \in 0..MaxConcurrent
  /\ looping \in BOOLEAN
  /\ trimmed \subseteq Writes
  /\ acked \subseteq Writes
  /\ raced \in BOOLEAN

-----------------------------------------------------------------------------
(* Stripes.                                                                *)

RangeOf(w) == journal[w].range
length(w) == RangeOf(w).end - RangeOf(w).start

Total(sizes) ==
  LET sum[n \in 0..Len(sizes)] == IF n = 0 THEN 0 ELSE sum[n - 1] + sizes[n]
  IN sum[Len(sizes)]

\* The bytes of a sequence of writes, in blocks.
buffered_bytes(writes) == Total([i \in 1..Len(writes) |-> length(writes[i])])

is_stripe_ready(writes) == buffered_bytes(writes) >= StripeSize

\* The number of writes that leave the buffer for one stripe: the last may
\* exceed the stripe.
Extracted(writes) ==
  Min({n \in 1..Len(writes) : is_stripe_ready(SubSeq(writes, 1, n))})

\* From the first block of any of the writes to the last, whatever lies between.
calculate_lba_range(writes) ==
  [start |-> Min({RangeOf(w).start : w \in ToSet(writes)}),
   end |-> Max({RangeOf(w).end : w \in ToSet(writes)})]

\* aggregate_to_chunks copies the writes one after the other and ignores what
\* is beyond the last chunk: the write w is in the stripe for the block b.
Aggregated(writes, w, b) ==
  \E i \in DOMAIN writes :
    /\ writes[i] = w
    /\ contains(RangeOf(w), b)
    /\ buffered_bytes(SubSeq(writes, 1, i - 1)) + (b - RangeOf(w).start) < StripeSize

-----------------------------------------------------------------------------
(* The host.                                                               *)

HoldsWrites(t) == tasks[t].pc \notin {"free", "done", "failed"}

\* Writes that are on their way from the journal to the cold store.
Underway ==
  ToSet(channel) \union (UNION {ToSet(buffers[v]) : v \in Volumes})
    \union (UNION {ToSet(tasks[t].writes) : t \in {u \in Tasks : HoldsWrites(u)}})
    \union {w \in Writes : w = pending}

\* It writes to the journal and maps the range to it, if it maps at all.
HostWrite(req) ==
  /\ pending = 0
  /\ Len(journal) < MaxWrites /\ generation <= MaxGeneration
  /\ pending' = Len(journal) + 1
  /\ raced' = (raced \/ \E w \in Underway : overlaps(RangeOf(w), req.range))
  /\ IF mode.maps
       THEN /\ insert_mapping(Host, req.range)
            /\ journal' = Append(journal, [vol |-> req.vol, range |-> req.range, loc |-> Drawn])
       ELSE /\ UNCHANGED engine
            /\ journal' = Append(journal, [vol |-> req.vol, range |-> req.range, loc |-> NoLoc])
  /\ UNCHANGED <<pipeline, mode, acked>>

HostStep ==
  /\ Step(Host)
  /\ UNCHANGED <<pipeline, mode, journal, pending, acked, raced>>

\* It waits for room in the channel.
submit_write ==
  /\ pending # 0
  /\ At(Host, "idle")
  /\ Len(channel) < ChannelCap
  /\ channel' = Append(channel, pending)
  /\ acked' = acked \union {pending}
  /\ pending' = 0
  /\ UNCHANGED <<engine, buffers, tasks, permits, looping, trimmed, mode, journal, raced>>

-----------------------------------------------------------------------------
(* The loop.                                                               *)

\* A write goes to the buffer of its volume.
buffer_write ==
  /\ looping
  /\ channel # <<>>
  /\ buffers' = [buffers EXCEPT ![journal[Head(channel)].vol] = Append(@, Head(channel))]
  /\ channel' = Tail(channel)
  /\ UNCHANGED <<engine, tasks, permits, looping, trimmed, mode, journal, pending, acked, raced>>

\* At a tick the writes of a stripe are taken from a buffer that has enough of
\* them, and a task is spawned.
process_ready_stripes(v) ==
  LET t == CHOOSE t \in Tasks : tasks[t].pc = "free"
      n == Extracted(buffers[v])
  IN  /\ looping
      /\ is_stripe_ready(buffers[v])
      /\ \E u \in Tasks : tasks[u].pc = "free"
      /\ tasks' = [tasks EXCEPT ![t] =
           [Free EXCEPT !.pc = "acquire", !.writes = SubSeq(buffers[v], 1, n)]]
      /\ buffers' = [buffers EXCEPT ![v] = SubSeq(@, n + 1, Len(@))]
      /\ UNCHANGED <<engine, channel, permits, looping, trimmed, mode, journal, pending,
                     acked, raced>>

\* The tick after the flag is set ends the loop; tasks go on.
shutdown ==
  /\ looping
  /\ looping' = FALSE
  /\ UNCHANGED <<engine, channel, buffers, tasks, permits, trimmed, mode, journal, pending,
                 acked, raced>>

-----------------------------------------------------------------------------
(* A task.                                                                 *)

TaskAt(t, pc) == tasks[t].pc = pc
TaskGoto(t, pc) == tasks' = [tasks EXCEPT ![t].pc = pc]
others == <<channel, buffers, looping, mode, journal, pending, acked, raced>>

\* The permit is held until the task ends, whichever way.
acquire(t) ==
  /\ TaskAt(t, "acquire")
  /\ permits > 0
  /\ permits' = permits - 1
  /\ TaskGoto(t, "encode")
  /\ UNCHANGED <<engine, others, trimmed>>

Fail(t) == TaskGoto(t, "failed") /\ permits' = permits + 1

\* Aggregation and encoding, which is retried; buffers may not be allocated.
encode(t) ==
  /\ TaskAt(t, "encode")
  /\ \/ TaskGoto(t, "write") /\ UNCHANGED permits
     \/ Fail(t)
  /\ UNCHANGED <<engine, others, trimmed>>

\* Mutant: the number of failed shards is compared with that of all data shards.
WriteShardsTolerant(t) ==
  /\ TaskAt(t, "write")
  /\ IF mode.dry_run
       THEN TaskGoto(t, "metadata") /\ UNCHANGED permits
       ELSE \E failed \in 0..TotalShards :
              IF failed > DataShards
                THEN Fail(t)
                ELSE /\ tasks' = [tasks EXCEPT ![t].pc = "metadata",
                                               ![t].shards = TotalShards - failed]
                     /\ UNCHANGED permits
  /\ UNCHANGED <<engine, others, trimmed>>

\* Each shard is retried; as many may fail as there are parity shards.  In dry
\* run nothing is written, and the task goes on.
write_shards(t) ==
  /\ TaskAt(t, "write")
  /\ IF mode.dry_run
       THEN TaskGoto(t, "metadata") /\ UNCHANGED permits
       ELSE \E failed \in 0..TotalShards :
              IF failed > ParityShards
                THEN Fail(t)
                ELSE /\ tasks' = [tasks EXCEPT ![t].pc = "metadata",
                                               ![t].shards = TotalShards - failed]
                     /\ UNCHANGED permits
  /\ UNCHANGED <<engine, others, trimmed>>

\* The mapping to be replaced is looked up now, by the first block only.
update_metadata(t) ==
  LET range == calculate_lba_range(tasks[t].writes)
      stored_old == lookup(l2p_map, range.start)
  IN  /\ TaskAt(t, "metadata")
      /\ generation <= MaxGeneration
      /\ tasks' = [tasks EXCEPT ![t].pc = "mapping", ![t].loc = Drawn]
      /\ IF stored_old # NoLoc
           THEN update_mapping(t, range, stored_old)
           ELSE insert_mapping(t, range)
      /\ UNCHANGED <<others, permits, trimmed>>

\* Mutant: the journal is trimmed even if the mapping was refused.
MapStripeIgnoresErrors(t) ==
  /\ TaskAt(t, "mapping")
  /\ Step(t)
  /\ IF At(t, "idle")' THEN TaskGoto(t, "trim") ELSE UNCHANGED tasks
  /\ UNCHANGED <<others, permits, trimmed>>

\* The call of the metadata engine; a conflict fails the task.
MapStripe(t) ==
  /\ TaskAt(t, "mapping")
  /\ Step(t)
  /\ CASE ~At(t, "idle")' -> UNCHANGED <<tasks, permits>>
       [] At(t, "idle")' /\ At(t, "verify") -> Fail(t)
       [] At(t, "idle")' /\ ~At(t, "verify") -> TaskGoto(t, "trim") /\ UNCHANGED permits
  /\ UNCHANGED <<others, trimmed>>

\* Entry by entry; those that fail are left in the journal.
trim_journal(t) ==
  /\ TaskAt(t, "trim")
  /\ \E gone \in SUBSET ToSet(tasks[t].writes) :
       trimmed' = IF mode.dry_run THEN trimmed ELSE trimmed \union gone
  /\ TaskGoto(t, "done")
  /\ permits' = permits + 1
  /\ UNCHANGED <<engine, others>>

TaskStep(t) ==
  encode(t) \/ write_shards(t) \/ update_metadata(t) \/ MapStripe(t) \/ trim_journal(t)

\* The process ends: writes in the channel, in the buffers and in tasks are
\* forgotten, but what the journal and the cold store hold is not.
ProcessRestart ==
  /\ Restart
  /\ channel' = <<>>
  /\ buffers' = [v \in Volumes |-> <<>>]
  /\ tasks' = [t \in Tasks |->
       IF tasks[t].pc \in {"free", "done"} THEN tasks[t] ELSE [tasks[t] EXCEPT !.pc = "failed"]]
  /\ permits' = MaxConcurrent
  /\ looping' = TRUE
  /\ pending' = 0
  /\ UNCHANGED <<trimmed, mode, journal, acked, raced>>

DestageInit ==
  /\ Init
  /\ mode \in Modes
  /\ journal = <<>>
  /\ pending = 0
  /\ channel = <<>>
  /\ buffers = [v \in Volumes |-> <<>>]
  /\ tasks = [t \in Tasks |-> Free]
  /\ permits = MaxConcurrent
  /\ looping = TRUE
  /\ trimmed = {}
  /\ acked = {}
  /\ raced = FALSE

DestageNext ==
  \/ \E req \in Requests : HostWrite(req)
  \/ HostStep
  \/ submit_write
  \/ buffer_write
  \/ \E v \in Volumes : process_ready_stripes(v)
  \/ shutdown
  \/ \E t \in Tasks : acquire(t) \/ TaskStep(t)
  \/ ProcessRestart

DestageSpec == DestageInit /\ [][DestageNext]_destageVars

-----------------------------------------------------------------------------
(* Properties.                                                             *)

\* A read of the block b finds the write w or a later one: in the journal if it
\* is mapped there and not trimmed, or in a stripe with enough shards.
Finds(b, w) ==
  LET loc == lookup(l2p_map, b) IN
  /\ loc # NoLoc
  /\ \/ \E x \in Writes \ trimmed : x >= w /\ journal[x].loc = loc /\ contains(RangeOf(x), b)
     \/ \E t \in Tasks :
          /\ tasks[t].loc = loc
          /\ tasks[t].shards >= DataShards
          /\ \E x \in Writes : x >= w /\ Aggregated(tasks[t].writes, x, b)

\* The writes a read must find: those whose journal space is gone, and those
\* the host has mapped and submitted.
MustBeFound == trimmed \union {w \in acked : mode.maps}

\* "data is already safely in cold store": every write that is trimmed or mapped
\* is found through the map.
WritesAreFound ==
  \A w \in MustBeFound : \A b \in Lbas : contains(RangeOf(w), b) => Finds(b, w)

\* It is so through failures and restarts at any point as long as no block is
\* written again before its last write has been destaged, ranges are aligned and
\* no checkpoint loses its marker.  In dry run stripes are mapped that are not
\* written.
WritesAreFoundUnlessRaced == ~raced /\ ~mode.dry_run /\ Recoverable => WritesAreFound

\* "Only after successful write": the journal space of a write is released only
\* when a stripe with the write has enough shards and has been mapped.
TrimmedIsStored ==
  \A w \in trimmed : \E t \in Tasks :
    /\ tasks[t].pc \in {"done", "failed"}
    /\ tasks[t].shards >= DataShards
    /\ \A b \in Lbas : contains(RangeOf(w), b) => Aggregated(tasks[t].writes, w, b)

HoldsPermit(t) == tasks[t].pc \in {"encode", "write", "metadata", "mapping", "trim"}

\* However tasks end, max_concurrent_destages permits are held or free.
DestagePermitsAreConserved ==
  permits + Cardinality({t \in Tasks : HoldsPermit(t)}) = MaxConcurrent

\* However a destage ends, it lets go of what it held: of its permit always, of the
\* journal only for what is stored.
DestagesAreSound == DestageTypeOK /\ DestagePermitsAreConserved /\ TrimmedIsStored
=============================================================================
