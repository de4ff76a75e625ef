--------------------------- MODULE MetadataEngine ---------------------------
(***************************************************************************)
(* The metadata engine of the SPDK data path (src/spdk/metadata_engine.rs):*)
(* the map from ranges of logical blocks to physical locations, its        *)
(* write-ahead log, its checkpoints and its recovery.                      *)
(*                                                                         *)
(* The methods take &self and may be called from several threads; the map, *)
(* the log buffer and the checkpoint slots are behind locks of their own,  *)
(* so one action stands for the code between two lock acquisitions.        *)
(*                                                                         *)
(* The log buffer and the checkpoint slots stand for the regions of the    *)
(* blobstore they are written for: they survive a restart, what is in the  *)
(* fields of MetadataEngine itself does not.  Restart is `new` followed by *)
(* `recover`.                                                              *)
(***************************************************************************)
EXTENDS Naturals, Sequences

CONSTANTS
  Threads,        \* threads that call the engine
  Size,           \* number of logical blocks
  Requested,      \* the ranges callers pass
  AutoCheckpoint, \* auto_checkpoint
  MaxLsn,         \* bound: log sequence numbers
  MaxGeneration,  \* bound: generation numbers
  MaxRestarts,    \* bound: restarts
  NoLoc,          \* not mapped
  NoCheckpoint    \* an empty slot

Lbas == 0..(Size - 1)
LbaRange == {r \in [start: 0..Size, end: 0..Size] : r.start < r.end}

ASSUME EngineAssumption ==
  /\ Size \in Nat /\ MaxLsn \in Nat /\ MaxGeneration \in Nat /\ MaxRestarts \in Nat
  /\ Requested \subseteq LbaRange
  /\ AutoCheckpoint \in BOOLEAN

\* A physical location: its generation, and the incarnation of the engine that
\* was given it, which stands for the address.
Locations == [generation: Nat, epoch: Nat]

VARIABLES
  l2p_map,      \* the location of each range that is a key of the map
  generation,   \* the generation number to give out next
  current_lsn,  \* the sequence number to give out next
  buffer,       \* the write-ahead log
  checkpoint,   \* the two checkpoint slots
  active_slot,  \* the slot in use
  thread,       \* the call each thread is in
  epoch,        \* history: number of restarts
  cut,          \* history: a restart came between a checkpoint and its marker
  content,      \* history: the location last logged for each block
  used,         \* history: the ranges logged so far
  seen          \* history: the locations the map has held since the restart

durable == <<current_lsn, buffer, checkpoint, active_slot>>
history == <<epoch, cut, content, used, seen>>
vars == <<l2p_map, generation, durable, thread, history>>

-----------------------------------------------------------------------------
(* Ranges and maps.                                                        *)

contains(r, lba) == r.start <= lba /\ lba < r.end
overlaps(r, s) == r.start < s.end /\ s.start < r.end

\* Ord for LbaRange: by start, then by end.
AtMost(r, s) == r.start < s.start \/ (r.start = s.start /\ r.end <= s.end)
Greatest(S) == CHOOSE r \in S : \A s \in S : AtMost(s, r)

Keys(map) == {r \in LbaRange : map[r] # NoLoc}
EmptyMap == [r \in LbaRange |-> NoLoc]

\* Only the last range that starts at or before the block is looked at.
lookup(map, lba) ==
  LET below == {r \in Keys(map) : r.start <= lba}
  IN  IF below # {} /\ contains(Greatest(below), lba) THEN map[Greatest(below)] ELSE NoLoc

\* The ranges that start at or before the query, from the last one on, and those that
\* start in it; a range that starts where the query does is returned by both scans.
lookup_range(map, query) ==
  LET Before == {r \in Keys(map) : r.start <= query.start}
      From == {r \in Keys(map) : r.start >= query.start /\ r.start < query.end}
  IN {r \in Before \union From : overlaps(r, query)}

\* The ranges whose part before, or after, r is the range s.
LeavesBefore(map, r, s) ==
  {o \in Keys(map) : overlaps(o, r) /\ o.start = s.start /\ s.end = r.start}
LeavesAfter(map, r, s) ==
  {o \in Keys(map) : overlaps(o, r) /\ s.start = r.end /\ o.end = s.end}

\* Mutant: the part of an old range after the new one is not added back.
HandleOverlapsForgetsTail(map, r) ==
  [s \in LbaRange |->
     IF overlaps(s, r) THEN NoLoc
     ELSE IF LeavesBefore(map, r, s) # {} THEN map[Greatest(LeavesBefore(map, r, s))]
     ELSE map[s]]

\* Overlapping ranges go; what r does not cover of them is added back, later
\* ranges over earlier ones.
handle_overlaps(map, r) ==
  [s \in LbaRange |->
     IF overlaps(s, r) THEN NoLoc
     ELSE IF LeavesBefore(map, r, s) # {} THEN map[Greatest(LeavesBefore(map, r, s))]
     ELSE IF LeavesAfter(map, r, s) # {} THEN map[Greatest(LeavesAfter(map, r, s))]
     ELSE map[s]]

-----------------------------------------------------------------------------
(* Log and recovery.                                                       *)

EntryTypes == {"insert", "update", "delete", "checkpoint"}
Entries == [lsn: Nat, type: EntryTypes, range: LbaRange \union {NoLoc},
            loc: Locations \union {NoLoc}]

\* Mutant: a deletion is not replayed.
ReplayKeepsDeleted(map, entry) ==
  IF entry.type \in {"insert", "update"} THEN [map EXCEPT ![entry.range] = entry.loc] ELSE map

\* Replay puts ranges back as they were logged; it does not split others.
apply_wal_entry(map, entry) ==
  CASE entry.type \in {"insert", "update"} -> [map EXCEPT ![entry.range] = entry.loc]
    [] entry.type = "delete" -> [map EXCEPT ![entry.range] = NoLoc]
    [] entry.type = "checkpoint" -> map

entries_after(log, lsn) ==
  LET kept[n \in 0..Len(log)] ==
        IF n = 0 THEN <<>>
        ELSE IF log[n].lsn > lsn THEN Append(kept[n - 1], log[n]) ELSE kept[n - 1]
  IN kept[Len(log)]

\* The map after the entries of a log have been applied to it in order.
replay(map, log) ==
  LET after[n \in 0..Len(log)] ==
        IF n = 0 THEN map ELSE apply_wal_entry(after[n - 1], log[n])
  IN after[Len(log)]

Slots == {"A", "B"}
other(slot) == CHOOSE s \in Slots : s # slot

Checkpoints == [lsn: Nat, mappings: [LbaRange -> Locations \union {NoLoc}]]

ASSUME NullAssumption ==
  /\ NoLoc \notin Locations /\ NoLoc \notin LbaRange
  /\ NoCheckpoint \notin Checkpoints

\* The active slot, else the other one.
load_latest_checkpoint ==
  IF checkpoint[active_slot] # NoCheckpoint
    THEN checkpoint[active_slot]
    ELSE checkpoint[other(active_slot)]

\* The map that recovery builds in a new engine.
recover ==
  LET latest == load_latest_checkpoint IN
  IF latest = NoCheckpoint
    THEN replay(EmptyMap, entries_after(buffer, 0))
    ELSE replay(latest.mappings, entries_after(buffer, latest.lsn))

-----------------------------------------------------------------------------
(* Calls.                                                                  *)

Pcs == {"idle", "verify", "log", "push", "apply", "maybe_checkpoint", "lsn", "snapshot",
        "write_slot", "switch_slot", "truncate"}

Idle == [pc |-> "idle", op |-> "checkpoint", range |-> NoLoc, loc |-> NoLoc,
         old |-> NoLoc, entry |-> 0, ckpt |-> NoCheckpoint]

\* ckpt_lsn and the snapshot are kept together in ckpt.
Calls == [pc: Pcs, op: EntryTypes, range: LbaRange \union {NoLoc},
          loc: Locations \union {NoLoc}, old: Locations \union {NoLoc},
          entry: Nat, ckpt: Checkpoints \union {NoCheckpoint}]

TypeOK ==
  /\ l2p_map \in [LbaRange -> Locations \union {NoLoc}]
  /\ generation \in 1..(MaxGeneration + 1)
  /\ current_lsn \in 1..(MaxLsn + 1)
  /\ buffer \in Seq(Entries)
  /\ checkpoint \in [Slots -> Checkpoints \union {NoCheckpoint}]
  /\ active_slot \in Slots
  /\ thread \in [Threads -> Calls]
  /\ epoch \in 0..MaxRestarts
  /\ cut \in BOOLEAN
  /\ content \in [Lbas -> Locations \union {NoLoc}]
  /\ used \subseteq LbaRange
  /\ seen \subseteq Locations

At(t, pc) == thread[t].pc = pc
Goto(t, pc) == thread' = [thread EXCEPT ![t].pc = pc]

\* The location with the generation number the call has drawn.
Drawn == [generation |-> generation, epoch |-> epoch]

insert_mapping(t, r) ==
  /\ At(t, "idle")
  /\ generation' = generation + 1
  /\ thread' = [thread EXCEPT ![t] =
       [Idle EXCEPT !.pc = "log", !.op = "insert", !.range = r, !.loc = Drawn]]
  /\ UNCHANGED <<l2p_map, durable, history>>

\* The caller expects a location that a lookup has returned to it.
update_mapping(t, r, old) ==
  /\ At(t, "idle")
  /\ generation' = generation + 1
  /\ thread' = [thread EXCEPT ![t] =
       [Idle EXCEPT !.pc = "verify", !.op = "update", !.range = r, !.loc = Drawn,
                    !.old = old]]
  /\ UNCHANGED <<l2p_map, durable, history>>

\* Mutant: any mapping of the range passes.
VerifyPresence(t) ==
  /\ At(t, "verify")
  /\ Goto(t, IF l2p_map[thread[t].range] # NoLoc THEN "log" ELSE "idle")
  /\ UNCHANGED <<l2p_map, generation, durable, history>>

\* Under the read lock: the range is mapped and its generation is the expected.
Verify(t) ==
  LET current == l2p_map[thread[t].range] IN
  /\ At(t, "verify")
  /\ Goto(t, IF current # NoLoc /\ current.generation = thread[t].old.generation
             THEN "log" ELSE "idle")
  /\ UNCHANGED <<l2p_map, generation, durable, history>>

\* A range that is not mapped is an error.
delete_mapping(t, r) ==
  /\ At(t, "idle")
  /\ l2p_map[r] # NoLoc
  /\ thread' = [thread EXCEPT ![t] =
       [Idle EXCEPT !.pc = "log", !.op = "delete", !.range = r]]
  /\ UNCHANGED <<l2p_map, generation, durable, history>>

\* append draws the sequence number ...
DrawLsn(t) ==
  /\ At(t, "log")
  /\ current_lsn <= MaxLsn
  /\ current_lsn' = current_lsn + 1
  /\ thread' = [thread EXCEPT ![t].pc = "push", ![t].entry = current_lsn]
  /\ UNCHANGED <<l2p_map, generation, buffer, checkpoint, active_slot, history>>

\* ... and pushes the entry under the lock of the buffer.
Push(t) ==
  LET call == thread[t] IN
  /\ At(t, "push")
  /\ buffer' = Append(buffer, [lsn |-> call.entry, type |-> call.op,
                               range |-> call.range, loc |-> call.loc])
  /\ Goto(t, IF call.op = "checkpoint" THEN "truncate" ELSE "apply")
  /\ IF call.op = "checkpoint"
       THEN UNCHANGED <<content, used>>
       ELSE /\ content' = [b \in Lbas |-> IF contains(call.range, b) THEN call.loc
                                                                     ELSE content[b]]
            /\ used' = used \union {call.range}
  /\ UNCHANGED <<l2p_map, generation, current_lsn, checkpoint, active_slot, epoch, cut, seen>>

\* The map is changed under its write lock; only insert_mapping splits ranges.
Apply(t) ==
  LET call == thread[t] IN
  /\ At(t, "apply")
  /\ l2p_map' = IF call.op = "insert"
                THEN [handle_overlaps(l2p_map, call.range) EXCEPT ![call.range] = call.loc]
                ELSE [l2p_map EXCEPT ![call.range] = call.loc]
  /\ seen' = IF call.op = "delete" THEN seen ELSE seen \union {call.loc}
  /\ Goto(t, IF call.op = "delete" THEN "idle" ELSE "maybe_checkpoint")
  /\ UNCHANGED <<generation, durable, epoch, cut, content, used>>

\* A checkpoint is due by time or by count, or is not.
maybe_checkpoint(t) ==
  /\ At(t, "maybe_checkpoint")
  /\ \/ AutoCheckpoint /\ thread' = [thread EXCEPT ![t] = [Idle EXCEPT !.pc = "lsn"]]
     \/ thread' = [thread EXCEPT ![t] = Idle]
  /\ UNCHANGED <<l2p_map, generation, durable, history>>

create_checkpoint(t) ==
  /\ At(t, "idle")
  /\ thread' = [thread EXCEPT ![t] = [Idle EXCEPT !.pc = "lsn"]]
  /\ UNCHANGED <<l2p_map, generation, durable, history>>

\* Mutant: the checkpoint claims the entry after the next one as well.
ReadLsnTooFar(t) ==
  /\ At(t, "lsn")
  /\ thread' = [thread EXCEPT ![t].pc = "snapshot",
                              ![t].ckpt = [lsn |-> current_lsn + 1, mappings |-> EmptyMap]]
  /\ UNCHANGED <<l2p_map, generation, durable, history>>

\* The number the next entry will get: in the absence of other threads that of
\* the marker of this checkpoint.
ReadLsn(t) ==
  /\ At(t, "lsn")
  /\ thread' = [thread EXCEPT ![t].pc = "snapshot",
                              ![t].ckpt = [lsn |-> current_lsn, mappings |-> EmptyMap]]
  /\ UNCHANGED <<l2p_map, generation, durable, history>>

Snapshot(t) ==
  /\ At(t, "snapshot")
  /\ thread' = [thread EXCEPT ![t].pc = "write_slot", ![t].ckpt.mappings = l2p_map]
  /\ UNCHANGED <<l2p_map, generation, durable, history>>

\* The checkpoint goes to the slot that is not active ...
WriteSlot(t) ==
  /\ At(t, "write_slot")
  /\ checkpoint' = [checkpoint EXCEPT ![other(active_slot)] = thread[t].ckpt]
  /\ thread' = [thread EXCEPT ![t].pc = "switch_slot", ![t].range = NoLoc]
  /\ UNCHANGED <<l2p_map, generation, current_lsn, buffer, active_slot, history>>

\* ... which then becomes the active one; the marker is logged next.
SwitchSlot(t) ==
  /\ At(t, "switch_slot")
  /\ active_slot' = other(active_slot)
  /\ Goto(t, "log")
  /\ UNCHANGED <<l2p_map, generation, current_lsn, buffer, checkpoint, history>>

\* A checkpoint is in a slot, and the number it claims is not drawn yet.
MarkerDue(t) ==
  At(t, "switch_slot") \/ (At(t, "log") /\ thread[t].op = "checkpoint")

\* The entries the checkpoint claims are dropped, its own marker among them.
Truncate(t) ==
  /\ At(t, "truncate")
  /\ buffer' = entries_after(buffer, thread[t].ckpt.lsn)
  /\ thread' = [thread EXCEPT ![t] = Idle]
  /\ UNCHANGED <<l2p_map, generation, current_lsn, checkpoint, active_slot, history>>

\* The process ends at any point and a new engine recovers what was logged.
Restart ==
  /\ epoch < MaxRestarts
  /\ epoch' = epoch + 1
  /\ cut' = (cut \/ \E t \in Threads : MarkerDue(t))
  /\ l2p_map' = recover
  /\ seen' = {recover[r] : r \in Keys(recover)}
  /\ generation' = 1
  /\ thread' = [t \in Threads |-> Idle]
  /\ UNCHANGED <<durable, content, used>>

-----------------------------------------------------------------------------
Init ==
  /\ l2p_map = EmptyMap
  /\ generation = 1
  /\ current_lsn = 1
  /\ buffer = <<>>
  /\ checkpoint = [slot \in Slots |-> NoCheckpoint]
  /\ active_slot = "A"
  /\ thread = [t \in Threads |-> Idle]
  /\ epoch = 0
  /\ cut = FALSE
  /\ content = [b \in Lbas |-> NoLoc]
  /\ used = {}
  /\ seen = {}

\* The calls a thread may make, within the bounds.
Call(t) ==
  /\ current_lsn <= MaxLsn
  /\ \/ /\ generation <= MaxGeneration
        /\ \/ \E r \in Requested : insert_mapping(t, r)
           \/ \E r \in Keys(l2p_map), old \in seen : update_mapping(t, r, old)
     \/ \E r \in Keys(l2p_map) : delete_mapping(t, r)
     \/ create_checkpoint(t)

Step(t) ==
  \/ Verify(t) \/ DrawLsn(t) \/ Push(t) \/ Apply(t) \/ maybe_checkpoint(t)
  \/ ReadLsn(t) \/ Snapshot(t) \/ WriteSlot(t) \/ SwitchSlot(t) \/ Truncate(t)

Next == (\E t \in Threads : Call(t) \/ Step(t)) \/ Restart

Spec == Init /\ [][Next]_vars

-----------------------------------------------------------------------------
(* Properties.                                                             *)

\* What recovery relies on.  Ranges that were logged are equal or disjoint, as
\* with writes of a fixed alignment: recovery does not split ranges.  And no
\* checkpoint is without its marker: it claims a number which a restart at that
\* moment leaves to the next entry, and that entry is then skipped.
Recoverable ==
  /\ \A r, s \in used : overlaps(r, s) => r = s
  /\ ~cut

\* Lookup inspects a single key of the map, so keys must never overlap, however
\* ranges were split, moved and deleted.
RangesAreDisjoint ==
  (epoch = 0 \/ Recoverable) =>
    \A r, s \in Keys(l2p_map) : overlaps(r, s) => r = s

\* Between two calls a lookup finds the location last logged for the block,
\* for any overlap of the ranges that were written, moved and deleted.
LookupFindsLast ==
  (epoch = 0 \/ Recoverable) /\ (\A t \in Threads : At(t, "idle")) =>
    \A b \in Lbas : lookup(l2p_map, b) = content[b]

\* Between two calls a lookup of a range finds for each of its blocks the location
\* last logged for it, and no other: none is missed because its range starts before
\* the query or ends after it, or because it was split.
RangeLookupFindsLast ==
  (epoch = 0 \/ Recoverable) /\ (\A t \in Threads : At(t, "idle")) =>
    \A query \in LbaRange, b \in Lbas :
      contains(query, b) =>
        {l2p_map[r] : r \in {k \in lookup_range(l2p_map, query) : contains(k, b)}}
          = {content[b]} \ {NoLoc}

\* "Crash recovery via log replay": whatever the engine is doing when it stops,
\* checkpointing included, recovery finds every mapping that was logged.
RecoveryFindsLast ==
  Recoverable => \A b \in Lbas : lookup(recover, b) = content[b]

\* "Generation number prevents stale updates": at the moment an update takes
\* effect the range still has the location its caller expected.
NoStaleUpdate ==
  [][epoch = 0 =>
       \A t \in Threads :
         At(t, "apply") /\ ~At(t, "apply")' /\ epoch' = epoch /\ thread[t].op = "update"
           => l2p_map[thread[t].range] = thread[t].old]_vars

\* What lookups see, through every write, split, checkpoint and restart, is a simple
\* store of blocks: changes are logged before they are seen, are seen at once for all
\* blocks of a range, and recovery comes back with what was logged last.
Store == INSTANCE MappingStore WITH
  Blocks <- Lbas, None <- NoLoc,
  mapping <- [b \in Lbas |-> lookup(l2p_map, b)],
  logged <- content,
  intact <- epoch = 0 \/ Recoverable

ImplementsStore == Store!Promise

\* The map is exact: its ranges do not overlap, and whoever looks a block or a range up
\* finds what was logged last.
MapIsExact == TypeOK /\ RangesAreDisjoint /\ LookupFindsLast /\ RangeLookupFindsLast
=============================================================================
