# Verification of CouchEstor

CouchEstor is a Kubernetes operator that moves Mayastor volumes between storage tiers by
how hot they are, with a data path beside it: erasure coding, an object cache, and an
optional SPDK engine.  This directory holds TLA+ models of its parts, the TLC
configurations that check them, and theorems about them checked by TLAPS.

Paths such as `src/src/migrator/engine.rs` are those of the repository with a leading
`src/`: the crate is in `src/src/`, the documents in `src/docs/`.  `PROJECT.json` lists
the components, runs, mutants, hazards and theorems, and maps every definition to the
lines it models.

Contents: [1 The system](#1-the-system), [2 Plan](#2-plan),
[3 The models](#3-the-models), [4 The runs](#4-the-runs), [5 Fairness](#5-fairness),
[6 The proofs](#6-the-proofs), [7 What is not covered](#7-what-is-not-covered),
[8 Where code and documents disagree](#8-where-code-and-documents-disagree).

---

## 1. The system

### 1.1 Components

| Component | Source (`src/src/`) | State it keeps | Operations that change state | Model |
|---|---|---|---|---|
| Storage policy controller | `controller/storage_policy.rs` | `migration_semaphore`; status of each StoragePolicy | `reconcile`: list volumes, score, classify, wait for a permit, migrate, record | `StoragePolicyController` |
| Migrator | `migrator/engine.rs` | `active_migrations` | `migrate_volume`, `migrate_to_ec`, `migrate_from_ec` | `Migrator` |
| Mayastor resources | `crd/mayastor.rs` | `numReplicas`, topology, replicas of each volume | changed by the migrator's patches and by Mayastor's control plane (external) | `Migrator` |
| StoragePolicy resource | `crd/storage_policy.rs` | watermarks, tiers, totals, history | `parse_duration` and other pure rules | in part, `StoragePolicyController`, `PolicyRules` |
| Metrics watcher | `metrics/watcher.rs` | cache of heat scores, health flag | `get_heat_score`, health check, invalidation | `MetricsWatcher` |
| EC policy controller | `controller/ec_policy.rs` | status of each ErasureCodingPolicy | `reconcile`: validate, count volumes and stripes, patch | `EcPolicyController` |
| EC stripe manager | `ec/stripe_manager.rs` | channel, queue, batch | submit, loop, assemble stripes, create them, re-queue | `StripeManager` |
| EC metadata manager | `ec/metadata.rs`, `crd/erasure_coding.rs` | stripe ids, address map, cached policies, ECStripe objects | add a stripe, synchronise, load and refresh policies, update a status, delete | `StripeManager`, `Reconstruction` |
| Reconstruction engine | `ec/reconstruction.rs` | table of tasks, channel, semaphore | degraded read, queue, execute, cancel | `Reconstruction` |
| EC encoder | `ec/encoder.rs`, `adapters/reed_solomon.rs` | none | encode, decode, verify bytes | `ErasureCodec` (matrix "rs"); the adapter is not |
| Metadata engine | `spdk/metadata_engine.rs` | block map, write-ahead log, two checkpoint slots | insert, update, delete, checkpoint, recover | `MetadataEngine` |
| Destage manager | `spdk/destage_manager.rs` | channel, assembly buffers, tasks, semaphore | submit, buffer, tick, the five phases of a destage | `DestageManager` |
| ZNS manager | `spdk/zns.rs` | zones, list of open zones, hint | register, append, invalidate, collect, reset | `ZnsManager` |
| SPDK engine and block devices | `spdk/{ec_engine,bdev}.rs` | volumes, stripes, buffers; devices and handles | create, write, read, check, delete; open, close, register | `EcEngine` over `BlockDevice` |
| SPDK read path | `spdk/read_path.rs` | queue of repairs | scatter-gather read with a degraded path | `EcReader` |
| SPDK codecs and memory | `spdk/{stripe_processor,isal_codec,compression,dma_buf}.rs` | encoding matrix, pool of buffers | encode, reconstruct, verify, compress, allocate | `ErasureCodec`, `Compression`, `DmaBuffers` |
| Object cache | `rustfs/cache/{manager,l1,l2,l3,policy,entry}.rs` | three tiers and their counters | get with promotion, put, delete, clear, evict | `ObjectCache` |
| Cache sharding, compression | `rustfs/cache/{shard,metrics,compression}.rs` | shards behind locks, counters | insert, remove, clear, get or insert; record, reset | `ShardedMap`, `Statistics`; LZ4 is not |
| Object store monitoring | `rustfs/monitoring/*` | registry of counters | create, increment, reset | in part, `MetricsCollector`, `Statistics` |
| SPDK bindings | `spdk/{ffi,mock}.rs` | none | I/O | no: bindings |
| Hardware discovery | `hardware/discovery/*` | none | reads sysfs and tool output | no: pure input |
| Domain, adapters | `domain/*`, `adapters/*` | none | interfaces the binary does not call | no |
| Command line, servers | `main.rs`, `lib.rs` | options | wiring | in part: the options are constants |
| User interfaces, manifests | `src/web`, `src/flutter`, `src/deploy` | none | none | no |

### 1.2 How they interact

*Operator.*  `main.rs` starts one controller for StoragePolicies.  kube's controller never
runs two reconciliations of one policy at a time, but runs those of different policies
concurrently, on a multi-threaded runtime.  They share, through an `Arc`, one migrator and
one semaphore of `--max-concurrent-migrations` permits.  A reconciliation asks the watcher
for a score, checks `is_migrating`, waits for a permit, and calls the migrator, which
patches MayastorVolume objects and polls them.  The volumes change meanwhile: Mayastor's
control plane adds, rebuilds and removes replicas.

*Erasure coding.*  The stripe manager's loop and the reconstruction engine's loop are tasks
of the same process.  They share the metadata manager, whose maps are `DashMap`s, and
persist stripes as ECStripe objects.

*SPDK data path* (features `spdk`, `mock-spdk`; not wired into `main.rs`).  The destage
manager takes writes of the hot journal from a channel, assembles stripes, and for each
spawns a task that encodes it, writes its shards, switches the block map of the metadata
engine over and trims the journal.  The ZNS manager finds zones for stripes.  The metadata
engine is called by all of them under `&self`.  Beside that path stands the EC engine, which
places the shards of a volume's stripes on block devices of its own and encodes them with the
codec and pooled buffers, and the EC reader, which gathers shards, decodes what is missing and
asks for repairs.

*Object store.*  The cache manager puts an object through to the backend and keeps it in one
of two tiers in front of it; L1 is a sharded map.  All of it is called concurrently under
`&self`.

### 1.3 What is hard here, and what makes each part correct

*Controller and migrator.*  `active_migrations` is checked, an await happens, and only then
is it inserted into; the check made before the semaphore is stale when the permit arrives.
A migration is two patches minutes apart, the second computed from what was read before the
first; either patch may be applied and its answer lost; the wait between them may time out,
which leaves the volume's spec raised and redirected for the next attempt with another
target; the process may die between them.  *Correct*: a healthy volume never loses its last
synced replica; no migration leaves it with fewer replicas than its owner asked for; one
migration per volume; no entry and no permit is leaked; every reconciliation ends; dry run
and preservation mode change or remove nothing.

*Metadata engine.*  The log, the map and the slots are behind different locks.  *Correct*:
whatever sequence of overlapping inserts, moves and deletes ran, ranges stay disjoint (a
lookup inspects one key) and lookups find the last write; whatever the engine is doing when
it stops, recovery finds what was logged; an update applies only to the mapping its caller
saw.

*Destage manager.*  Five fallible phases under a permit, several tasks at once, a host that
goes on writing.  *Correct*: the journal lets go of a write only when enough shards of a
stripe with it are stored; every acknowledged write stays reachable through the map; permits
are conserved.

*ZNS manager.*  A zone is chosen, opened, written and accounted for in separate critical
sections; resets and garbage reports come in between.  *Correct*: stripes in use are
disjoint and never reset away; counts of valid stripes are exact; the list of open zones is
exact, because the limit is computed from it.

*Stripe manager.*  Requests go from a channel to a queue to a batch and on failure back to
the queue.  Objects are created with answers that may be lost; after a restart, memory is
rebuilt from objects.  *Correct*: a request is in one place until it is done, and is done in
the end; what ends without error is persisted; ids are unique; lookups find the newest
stripe.

*Reconstruction.*  A task is sent before it is entered into the table; callers, loop and
workers share a channel, the table and the permits, while stripes and policies change.
*Correct*: what a read had to reconstruct is queued for repair, every queued task ends, the
table tells what runs, a stripe is decoded with the parameters it was encoded with.

*Object cache.*  `get` reads one tier after the other and promotes after an await; `put` and
`delete` change tiers one by one; byte counters are atomics beside the maps.  *Correct*: copies
in the tiers agree when no write overlaps, nothing is cached that the backend refused, byte
counters are exact and eviction keeps the tiers bounded, files of L2 are not overwritten.

*SPDK engine, reader, codecs.*  Devices are opened, closed and fail under tasks that write
several shards one by one; shards answer late.  *Correct*: stripes in the metadata are whole,
reads return what was written with up to m shards lost, what is lost is reported, buffers come
back clean, and the arithmetic (padding, rounding, escapes, matrices) restores every byte.

*Watcher, EC policy controller, counters, rules.*  Answers arrive late, queries fail, several
requests make up one report.  *Correct*: scores are recent, an outage is not taken for an idle
volume, statuses settle on what is true, totals add up, a counter has one home.

---

## 2. Plan

Modules in the order of importance of what they guard:

1. `Migrator`: the operator's only writes to volumes.  **Done, with proofs.**
2. `StoragePolicyController`, which EXTENDS `Migrator` and composes with it by conjoining
   its actions (`Refuse`, `Accept`, `Step`, `Return`, `Restart`).  **Done, with proofs.**
3. `MetadataEngine`.  **Done, with proofs.**
4. `DestageManager`, which EXTENDS `MetadataEngine` and drives its operations; its tasks
   and the host are the engine's threads.  **Done, with proofs.**
5. `ZnsManager`.  **Done, with proofs.**
6. `StripeManager`, with the metadata manager it writes to.  **Done, with proofs.**
7. `ObjectCache`.  **Done, with proofs.**
8. `Reconstruction`, with the metadata manager it reads.  **Done, with proofs.**
9. `BlockDevice`, `EcEngine` on top of it, `EcReader`.  **Done, with proofs.**
10. `ErasureCodec`, `Compression`, `DmaBuffers`, `PolicyRules`: what computes.  **Done, with proofs
    about `DmaBuffers` and `PolicyRules`.**
11. `MetricsWatcher`, `EcPolicyController`, `Statistics`, `MetricsCollector`, `ShardedMap`.
    **Done, with proofs.**

Abstract specifications: `MappingStore` (a map from blocks to locations that changes at once),
which `MetadataEngine` is proved to implement; `Migrator` itself, which the controller is proved
to implement (section 6).  Still worth stating: a two-patch migration with the migrator's
promises and nothing else, and an idealised cache to compare `ObjectCache` with.

What is left after section 6: `Compression`, which has RECURSIVE operators, and `MC_EcReader`,
which reaches it, can have no theorems, and nothing is proved about `ErasureCodec`.  Section 6.13
lists the properties that stay with TLC.

The set of runs is kept small: components that share no state and are each of a few thousand
states (the codecs, the counters, the rules) are checked side by side in one run, and a
disagreement that needs no interleaving is described in section 8 without a run of its own.

---

## 3. The models

One action stands for the code between two awaits, or between two acquisitions of a lock or
accesses to a shared map: those are the points where tasks interleave.  A failing call is an
alternative of the action that makes it; a call whose answer may be lost has both outcomes
with and without its effect.  Variables whose comment says *history* exist for properties
only.  Definitions whose comment begins with *Mutant* are not part of a specification:
each is a plausible mistake in the code that breaks one property, and `PROJECT.json` pairs
them.

### 3.1 `Migrator`

| Model | Code |
|---|---|
| `mig[c]` | the locals of the call that caller `c` awaits; `pc` is the next await or map access |
| `active` | keys of `active_migrations` |
| `numReplicas`, `topology`, `replica` | `spec.numReplicas`, `spec.topology`, `status.replicas` of a MayastorVolume |
| `config` | `MigratorConfig`; chosen in `Init`, constant afterwards |
| `Refuse`, `Accept` | `is_migrating` and the early return of each entry point |
| `GetVolume(Fails)`, `Register` | reading the volume, first replica as source, "already there" shortcut, `insert` |
| `CheckPool`, `CountReplicas`, `ScaleUp`, `PollSync`, `SyncTimeout`, `ScaleDown` | `do_migrate`, await by await |
| `Cleanup` | `active_migrations.remove` after `do_migrate`, whatever it returned |
| `EcDryRun`, `EcCheckPool`, `EcPoolOffline`, `EcPoolGetFails` | `migrate_to_ec`, `migrate_from_ec`; the last leaves by `?`, past the removal |
| `Return`, `Restart` | the caller takes the result; the process dies and starts again |
| `AddReplica`, `FinishSync`, `RemoveSurplus`, `Fault`, `Repair` | Mayastor's control plane, external |

What Mayastor does is modelled from what the migrator relies on: it lowers `numReplicas` "to
remove the replica from the source pool" without naming that replica, so Mayastor must spare
the pool the topology names, and nothing else is promised: *any* other replica may be the
one that goes.

### 3.2 `StoragePolicyController`

Callers are the policies.  `rec[p]` is the reconciliation of `p`: volumes still to classify,
the one in hand, its tier and target, and the total read from the status.  `Classify` covers
score, tier, cooldown, `is_migrating` and pool lookup; `Acquire` the semaphore, with the
dry-run exit; `CallMigrator`, `Migrate`, `TakeResult` the migrator's steps under the permit;
`ReadStatus`, `PatchRecord` the read-modify-write of `record_migration_history`;
`UpdateStatus` the final patch, which replaces the whole status.  `DryRunPolicies` are those
whose `spec.dryRun` is set at times or always: both outcomes of `Acquire` are open to them.  A failed metrics query is
a score of 0 (`HeatScores`), as the code has it.

### 3.3 `MetadataEngine`

`l2p_map` is the BTreeMap as a function from ranges to locations; the log is a sequence of
entries; the slots are two checkpoints.  Operations are
`insert_mapping | Verify/update_mapping | VerifyPresence/delete_mapping`, then `DrawLsn`, `Push`, `Apply`;
checkpoints are `ReadLsn`, `Snapshot`, `WriteSlot`, `SwitchSlot`, marker, `Truncate`, in the
code's order.  `handle_overlaps`, `lookup` and `recover` are operators.  `Restart` keeps the
regions written to the blobstore and nothing else, then recovers.  `epoch` counts restarts,
`content` is what was last logged per block, `used` the ranges ever logged, `cut` whether a
restart fell between a checkpoint's slot and its marker.  `handle_overlaps` goes through its
cases by a chain of IF, in the order of the code's `else if`; `replay` and `entries_after` are
recursive functions, one entry of the log at a time.

`MappingStore` is what callers may rely on: a map from blocks to locations in which a run of
blocks changes at once, after the change was logged, and to which recovery returns.
`ImplementsStore` instantiates it with `mapping` as what `lookup` finds for each block,
`logged` as `content`, and `intact` as `epoch = 0 \/ Recoverable`; splits, checkpoints and
truncations are stutters.  TLC checks the refinement for one thread; section 6.3 proves it for
any threads whose calls do not overlap.

### 3.4 `DestageManager`

Adds the host's journal, the channel, a buffer per volume, tasks and permits.  `acquire`,
`encode`, `write_shards` (any number of shards may have been written when a task fails),
`update_metadata` followed by the engine's own steps, `trim_journal`.  `raced` records that a
block was written while an older write of it was under way; `trimmed`, `acked` and `pending`
what the journal has released and what the host was told.  `buffered_bytes`, which decides when
a stripe is ready, is the sum (`Total`) of the lengths of the buffered writes.

### 3.5 `ZnsManager`

`register_device`, an append in seven steps (`append_stripe`, `CountOpen`, `SelectZone`,
`MarkOpen`, `PushOpen`, `do_append_write`, `record_write`), `invalidate_location`,
`find_zones_for_gc`, `reset_zone`, the four selection strategies.  Offsets are in blocks of
a small zone, stripes need not divide it, alignment rounds sizes up.  `live` is the set of
stripes in use.  `next_zone_hint`, a counter of which only the remainder by the number of a
device's zones matters, is kept modulo `HintCycle`, a number that all those divide.

### 3.6 `StripeManager`

`Submit` (channel), `Receive` and `Tick` (the two branches of `select!`), `Take`,
`LoadPolicy(Fails)`, `CreateStripe` (memory), `Persist` (object: created, refused, or created
unanswered), `Finish` with the request's outcome and re-queueing, `sync_from_crds`,
`Restart`.  A block stands for its own address, so a stripe that holds data under the wrong
address is visible; `Assembled` models the assembly loop, overflow included.  Objects are listed
by name and names compare as text, so stripe 10 comes before stripe 9: `ListedBefore` is that
order, and the last object listed for an address is the one the map keeps.

### 3.7 `ObjectCache`

`Begin...` starts a call; then one action per tier and await: `GetL1 | DropExpired`, `GetL2`,
`GetL3` (with the promotion that the policy asks for), `PutL3` (write-through, which may be
refused), the L1 insertion in three steps (`should_evict`, eviction of a batch, insertion), the
L2 one in four (room, eviction, `fetch_add` of the offset with the rotation of the file,
index), `Delete...` tier by tier, `clear`.  Byte counters and `current_offset` are variables
beside the maps, as in the code.  An entry is a version, a size and whether it can expire.
`history.excused` collects the keys for which the code promises nothing (see the property),
`drifted`, `crowded` and `crossed` the races that make a counter, a bound or an extent wrong.

### 3.8 `Reconstruction`

Callers: `BeginRead`, `ReadPolicy`, `ReadStripe`, `EndRead`; `StartReconstruction`;
`SendTask` (waits for room), then `InsertTask` into the table, in this order; `Cancel`.  Loop:
`Receive`, `Tick`.  Workers: `Acquire`, `FindStripe`, `RebuildPolicy`, `Rebuild`, each of which
may fail or panic (`GivesUp`).  `Others` is what the rest of the operator does to the metadata:
`Sync`, `Destage`, `UpdateStatus`, `PatchStatus`, `DeleteObject`, `EditPolicy`, `Refresh`.
A stripe carries the parameters it was encoded with (`code`), which the program does not keep.
`ReconstructionAssumption` says of the objects an earlier run left that no two have one volume and
id (their names contain both) and that they were made with `InitialSpec`.

### 3.9 `BlockDevice`, `EcEngine`

`BlockDevice` is the manager of devices: `open` is look up, install, mark, under three locks;
a handle has a store of its own (`stores`), so a device opened twice has two.  `EcEngine`
EXTENDS it: a write takes a permit and buffers, encodes and draws the id, then opens and writes
one device after the other, and stores the metadata last; a read fetches shards and decodes; a
health check visits the shards of each stripe.  A block on a device is the triple of the volume
state, stripe and shard index it was written for, so mixed-up data is visible.  A volume that is
created again is a new state.  `MockCodec` chooses between the builds: the mock codec zeroes what
it should reconstruct.

### 3.10 `EcReader`

One read per reader: the shards it waits for, those it got, those late.  `Answer`,
`ShardTimeout`, `ReadTimeout`, then `FastPath`, `DegradedPath` (decode, ask for the repair with
`try_send`) or `Fail`.  `Lose` and `RepairShards` are the world.

### 3.11 `ErasureCodec`, `Compression`, `DmaBuffers`, `PolicyRules`

What computes.  The codec is the field, the matrices and the elimination with 8 elements in
place of 256, the padding and the rounding to the alignment; `Split`/`Concatenated` are those of
`EcEncoder`, and `Destaged` the parity the destage manager computes by itself.  `Compression` is
the run-length coder with its escapes and its header, with a base of 8 in place of 256.
`DmaBuffers` has the width of `usize` as `SizeWidth`.  `PolicyRules` has `parse_duration` over
tokens, with the width of `u64` as `Width`, and the selection of a pool by labels.

### 3.12 `MetricsWatcher`, `EcPolicyController`, `Statistics`, `MetricsCollector`, `ShardedMap`

`MetricsWatcher`: a request looks into the cache, sends the query of one metric after the other,
takes samples, an empty answer, an HTTP error or a timeout, and caches the score when it has one.
Time is a counter that does not pass a query's timeout.  `EcPolicyController`: read, validate,
count volumes, count stripes, patch, each with its own failure, which the code takes for zero.
`Statistics` has nine structures of counters (`Structures`) by what they have in common: recordings
add to several counters one by one, in any order since they are relaxed atomics; resets and snapshots
go through them in the code's order.  `MetricsCollector` and `ShardedMap` have the lookup under
a read lock and the creation under a later write lock.  `Sums` has the sum of a function's values,
which these modules and `ObjectCache` share.

The parts of 3.10 and 3.11, and those of 3.12 with the rules, share no state; `MC_EcReader` and
`MC_Reports` let one of them (`part`) take all the steps of a behaviour.

---

## 4. The runs

Every run of TLC explores its instance completely.

| Run | Instance | Distinct states | Shows |
|---|---|---|---|
| `Migrator_safety` | 1 caller, 1 volume, 3 pools, all kinds, all configurations, faults | 188 k | A healthy volume keeps a synced replica and its count through any chain of completed, aborted, retried and interrupted migrations with changing targets; the spec is the caller's while it waits; `active_migrations` is exact; preservation mode removes nothing and dry run writes nothing |
| `Migrator_loss` *(violation)* | 2 callers, 1 volume, 3 pools | – | Overlapping calls remove the last synced replica |
| `Controller_one` | 2 policies sharing a volume that may go to EC, one at times in dry run, 1 permit, fair | 76 k | The semaphore keeps migrations of one volume apart; permits are conserved; every reconciliation ends |
| `Metadata_crash` | 1 thread, 3 blocks, nested and shifted ranges, checkpoints, 1 restart | 1.24 M | Ranges stay disjoint, lookups find the last write, recovery finds what was logged, updates are not stale; `MappingStore` is implemented |
| `Destage_safety` | host and 2 tasks, 2 volumes, 2+1 shards, 1 permit, 3 writes, 1 restart | 1.80 M | What the journal released is stored and found; permits are conserved |
| `Zns_safety` | 1 writer, 1 collector, devices of 2 and 1 zones, all strategies | 134 k | Stripes in use are neither overwritten nor reset away; counts and the open list are exact |
| `Ec_stripes` | 2 volumes, 3 requests, batches of 2, 1 restart, dry run on and off, fair | 141 k | Requests are kept and served; what ends well is persisted; lookups find the newest stripe |
| `Cache_tiers` | 2 callers, 2 keys, 3 sizes, 3 policies, 2 puts, 2 calls | 2.11 M | Tiers agree where no write overlaps; nothing refused is cached; counters are exact and bound the tiers; extents are disjoint |
| `Reconstruction_tasks` | 2 callers, 2 tasks, 1 permit, channel of 1, 1 change, 3 policies' parameters, fair | 216 k | The table tells what runs; what was reconstructed is queued for repair; stripes are decoded as encoded; queued tasks end |
| `Spdk_engine` | 2 tasks, 4 calls, 3 devices and an unknown one, 2 names, 2+1 shards, 1 change | 1.86 M | Writes are whole and read back; m faults are tolerated; buffers and devices are accounted for |
| `Spdk_reads` | 2 readers of a 2+2 stripe; 9 codec configurations; 3 stretches of bytes; 1 buffer | 431 k | Reads restore the data and report what was missing; chunks, stripes and buffers come out as they should |
| `Reports` | 2 askers; 1 EC policy, 2 referrers, 2 stripes; 2 recorders; 2 threads; 4 tokens, 2 pools; 3 keys in 2 shards | 1.77 M | Scores are recent, outages are told, statuses settle, counts add up, rules are read right |

**Why the bounds are enough.**  *Migrator, ZNS*: no counter is bounded; the instances are
finite by themselves.  Three pools are the least with which a retry can pick a new target
while the old target and the source both have replicas; two callers are the least that
overlap.  *Controller*: `MaxTotal` bounds migrations counted between two status updates
(which reset the count); two policies contend for one permit, so that there is always a holder
and a waiter; more of both are left to the theorems of section 6.  *Metadata*: three blocks and
ranges that are nested, shifted and equal reach every branch of `handle_overlaps` and both scans
of `lookup_range`; five log numbers allow a checkpoint between writes, a truncation, a second
checkpoint in the other slot, and recovery from each; `MaxGeneration` bounds the drawn
generations.  *Destage*: 2+1 shards distinguish "all", "enough" and "too few"; three writes fill
a stripe and start another; one restart may fall anywhere.  *EC*: a channel of one and a batch of
two make both the sender wait and the queue outlive a batch; entries make exact, short and
excessive stripes.  *Cache*: the capacities hold one or two entries of the three sizes, so every
insertion may evict, and the third size does not fit into L1; two keys compete for them.
*Reconstruction*: with one permit and a channel of one, the loop, a worker and a sender all wait
for one another; the parameters 2+1 and 1+1 differ in both numbers and 0+1 is invalid.
*Engine*: the device lists `abc` and `cbx` overlap in another order and one device is not
registered; four calls are a create, two writes and a read or a check.  *Reader*: 2+2 is the
least in which data and parity may both be lost and the rest still suffice.  *Codec,
compression*: every combination of lost shards, every length up to the stripe, lengths around
each limit (1, 4, 7, 8) of bytes that are and are not markers.  *Reports*: `CacheTtl` and
`QueryTimeout` of 1 in four units of time let a score expire while a query is under way; four tokens
make a duration of two units; values of two sizes (`MaxSize`) let one replace another of its key.

`CHECK_DEADLOCK FALSE` stands in every configuration but those of the migrator, the controller
and the zones: log numbers, writes, requests, calls and restarts are bounded there, so an instance
stops when they are used up.

**Conditions in properties.**  A property with a condition says so because the code does not
promise more, and each condition is met by many states of the run:

- `Recoverable` (`MetadataEngine`): `recover` replays an insert without splitting ranges, and
  a checkpoint claims a log number which a restart before its marker gives to the next entry.
- `raced` (`DestageManager`): a rewrite under way is overwritten by the older stripe, see 8.
- `Healthy` (`Migrator`): once a replica of a volume has faulted by itself (`original` is then 0),
  a migration may lose its data or its count; the properties about data speak of the volumes
  where none has so far.
- `EcPoolGetFails` (`RegistrationIsExact`): the one exit that keeps the entry, see 8.
- `Even` (`StripeManager`): the excess over a stripe is kept without its address.
- `restarts = 0` (`IdsAreUniqueUntilRestart`) and the premise of `LookupFindsNewest` (ids are
  unique in the volume, names are listed by age): ids start over after a restart, and names are
  sorted as text, see 8.  Without that premise the property holds in instances with one restart
  and fails with two; the attempt to prove it showed this.
- `history.excused`, `drifted`, `crowded`, `crossed` (`ObjectCache`): keys whose copies a put
  leaves behind or whose operations overlap, and counters changed by two callers at once.
- `history.late`, `history.reread` (`Reconstruction`): entries put in after their task began, and
  policies read again after an edit.
- `Collides`, `Split`, device lists with a device twice (`EcEngine`): volumes that share a place
  on a device, a device opened twice or closed under a volume.
- `Misread` (`Compression`): two byte patterns the decoder takes for something else, see 8.
- One thread in `Metadata_crash` and one writer, one collector in `Zns_safety`: with two,
  the races listed in section 8 appear; the concurrent models are the same modules with
  larger sets.

---

## 5. Fairness

- `FairControllerSpec`, weak on `Reconcile(p)`, strong on `Acquire(p)`: every await of a
  reconciliation ends, because the API client has timeouts and the wait for the replica is inside
  `tokio::time::timeout` (`SyncTimeout` is always enabled during the wait); tokio's semaphore is
  first come, first served, so a waiter is passed over only finitely often.  Nothing is assumed of
  Mayastor, and nothing of when reconciliations start.
- `StripeManager!FairSpec`: weak on `Destage`, strong on `Receive` and `Tick` because
  `tokio::select!` picks at random among ready branches, and strong on `LoadPolicy` because
  the API server answers in the end.  Submission and registration need not happen.
- `Reconstruction!FairSpec`: weak on `Receive` and on the steps of each worker, strong on
  `Acquire`, again because the semaphore is fair.  The callers and the rest of the operator need
  not do anything.
- `MC_Reports!Fairness`: weak on the reconciliation of each ErasureCodingPolicy, which the
  controller repeats after each status patch and every few minutes; errors and edits are finite
  in number (`MaxErrors`, `MaxEdits`), which is what "once nothing changes" means.

The other runs check safety only; their specifications state no fairness.

---

## 6. The proofs

Everything in this section is checked by TLAPS for every value of the constants that satisfies
the named assumption of the module (`MigratorAssumption`, `ControllerAssumption`,
`EngineAssumption`, `NullAssumption`, `DestageAssumption`, `ZnsAssumption`,
`StripeManagerAssumption`, `ReconstructionAssumption`, `BlockDeviceAssumption`,
`EcEngineAssumption`, `EcReaderAssumption`, `DmaAssumption`, `CacheAssumption`, `WordAssumption`,
`NoEntryAssumption`, `WatcherAssumption`, `EcControllerAssumption`, `StatisticsAssumption`,
`CollectorAssumption`, `RulesAssumption`, `MapAssumption`): any sets of
callers, volumes, threads, devices and requests (finite where the code counts them), any sizes,
limits and bounds.  TLC evaluates each of these assumptions in the runs.  The column "needs" lists what a theorem supposes beyond that;
where it is a property of behaviours (`[]P` on the left of an implication), the text says which
callers keep it and what the code does otherwise.

### 6.1 `Operator_proofs`: the migrator

| Theorem | Statement | Needs |
|---|---|---|
| `TypeCorrect` | `Spec => []TypeInv` | – |
| `CountIsRestored` | `Spec => []NeverBelowOriginal` | – |
| `Exclusive` | `Spec => []AtMostOneMigrationPerVolume` | `Separate` |
| `SpecIsKept` | `Spec => []SpecIsTheCallers` | `Separate` |
| `NoDataLoss` | `Spec => []KeepsSyncedReplica` | `Separate` |
| `DryRunsWriteNothing` | `Spec => WritesNoSpec` | – |
| `ModesStayRespected` | `Spec => ModesAreRespected` | `Separate` |
| `RegistrationStaysExact` | `Spec => RegistrationIsExact` | `Separate` |

`Separate` says that no two policies select a common volume.  It cannot be dropped:
`Migrator_loss` is the counterexample.  It enters only through the state predicate
`NoOverlap` (two calls in progress are on different volumes), and the lemmas `SpecIsKeptWithoutOverlap`,
`NoDataLossWithoutOverlap`, `ModesWithoutOverlap` and `RegistryWithoutOverlap` are stated with
`[]NoOverlap`, so that the controller can establish it by other means.

- *Lemma `CallersDo`* classifies a caller's step by its effect on the counts
  (`CallerEffect`), and `MayastorDoes` does it for Mayastor; the invariants' proofs go by
  these few cases instead of the twenty actions.
- *`CountInv`* strengthens `NeverBelowOriginal`: the number of replicas, and the count any
  call in progress holds, are never below the original either.  The property alone is not
  inductive, because a call writes back what it read.
- *`DataInv`* explains why the synced replica survives.  A volume has a surplus replica only
  while its topology names a synced one, which Mayastor spares.  Scaling up makes no surplus,
  because since the count was taken at most one replica can have been added, and only where
  the old topology wanted one; scaling down makes one only when the target is synced.  The
  clause about `scale_up` is the part that a retry after an aborted migration needs.
- *`PreserveInv`* explains preservation mode, in which there is no scaling down: a volume asks for
  what it has or for one replica more, and while a call is about to scale up, at most the one
  replica that an aborted migration had asked for was added since it counted.  With overlapping calls
  it fails (TLC finds a behaviour of 22 steps with two callers): a call that has counted is overtaken
  by another one that raises the count, and takes it back when it scales up itself.
- *`RegistryInv`* is `MigratingIsRegistered`; `RegistryEffect` classifies what a step does to
  `active_migrations`.  That a migration which ends takes its volume out needs no `Separate`.

### 6.2 `Operator_proofs`: the controller

| Theorem | Statement | Needs |
|---|---|---|
| `ControllerTypeCorrect` | `ControllerSpec => []ControllerTypeOK` | – |
| `PermitsAreNeverLost` | `ControllerSpec => []PermitsAreConserved` | – |
| `LimitHolds` | `ControllerSpec => []MigrationsAreLimited` | – |
| `Implements` | `ControllerSpec => Spec` | – |
| `ControllerRestoresCounts` | `ControllerSpec => []NeverBelowOriginal` | – |
| `OnePermitExcludes` | `ControllerSpec => []AtMostOneMigrationPerVolume` | one permit |
| `OnePermitKeepsData` | `ControllerSpec => []KeepsSyncedReplica` | one permit |
| `OnePermitRespectsModes` | `ControllerSpec => ModesAreRespected /\ RegistrationIsExact` | one permit |
| `SeparatePoliciesKeepData` | `ControllerSpec => []KeepsSyncedReplica` | `Separate` |

`CtrlInv` adds to the types that the free permits and the holders add up, that a plan is
sound (its volume is one the policy selects, it has a target unless it goes to erasure
coding, there is room to count one more migration), and that the migrator works only for a
policy that waits for it with a permit.  The last clause carries the argument: it makes
`LimitHolds` follow from the permits, and with one permit it makes `NoOverlap` hold, from
which the data theorem of the migrator follows through `Implements`.  `PolicyEffect`
classifies what a policy's step does to its permit (keeps, takes, gives back), so that
counting the holders is done once.

`Implements` needs `CtrlInv` because a call whose target is no pool would not be a call that
`Migrator` allows.

### 6.3 `DestageManager_proofs`: the metadata engine

| Theorem | Statement | Needs |
|---|---|---|
| `TypeCorrect` | `Spec => []TypeOK` | – |
| `MapStaysExact` | `Spec /\ []Exclusive => []MapIsExact` | calls do not overlap |
| `RecoveryIsComplete` | `Spec /\ []Exclusive => []RecoveryFindsLast` | calls do not overlap |
| `UpdatesAreNotStale` | `Spec /\ []Exclusive => NoStaleUpdate` | calls do not overlap |
| `EngineImplementsStore` | `Spec /\ []Exclusive => ImplementsStore` | calls do not overlap |
| `OneThreadIsSafe` | the four properties, of `Spec` alone | `OneThread` |

`Exclusive` says that at most one call is in progress, from one thread or several in turn; a caller
that owns the engine, or holds a lock around it, keeps it.  Nothing in the engine enforces it
(every method takes `&self`), and it cannot be dropped: with two threads the races of section 8
(a stale update, an entry truncated before it is applied) break each of the four.  `DestageManager`
does overlap its calls; its theorems (6.4) do not use `Exclusive`.

`EngineInv` has the types and six parts.  *`CallsInv`* knows what a call in progress may rely on:
the key it verified is still there with the generation it saw, what it is about to apply is logged,
and a checkpoint under way holds the map as it is.  *`LogInv`* orders the log numbers: drawn before
logged, and no slot claims a number that is still to be given, except when its marker is due; it is
what makes a truncation harmless.  *`MapInv`* says that the map is disjoint and agrees with what was
logged, up to the one change that is logged and not yet applied.  *`RecoverInv`* says the same of
what `recover` would compute now, which has to hold in every state, because a restart may come in
any.  *`KeysInv`* and *`EpochInv`* serve these two: aligned ranges are not split, and before a
restart all generations are of this run.

The lemmas on `handle_overlaps` (what remains of a map when a range is put into it: disjoint keys,
every other block unchanged), on `lookup`, and on `replay` (an entry more at the end of the log, or
a prefix less that the checkpoint already has) are shared with 6.4.

### 6.4 `DestageManager_proofs`: the destage manager

| Theorem | Statement | Needs |
|---|---|---|
| `DestagesSoundIfCopied` | `DestageSpec /\ []StripesAreCopied => []DestagesAreSound` | a stripe has every block of its writes |
| `DestagesStaySound` | `DestageSpec => []DestagesAreSound` | `EvenSizes` |
| `WritesStayFound` | `DestageSpec /\ []StripesAreWhole /\ []RecoveryFindsLast => []WritesAreFoundUnlessRaced` | whole stripes, recovery |
| `DestagingIsRecovered` | `DestageSpec => []RecoveryFindsLast` | no automatic checkpoint |
| `WholeWritesStayFound` | `DestageSpec => []WritesAreFoundUnlessRaced` | no automatic checkpoint, `WholeStripes` |

Any number of tasks and the host call the engine at once, with restarts at any point.

What the theorems need is what the code leaves open.  A stripe whose last write exceeds it is not
*copied* (section 8), so the journal forgets blocks that no stripe has: `StripesAreCopied` excludes
just that, and `EvenSizes` (one size of writes, which divides the stripe) implies it.  The range
that is mapped goes from the least to the greatest block of a stripe, so writes between which there
is a *gap* map blocks they do not have: `StripesAreWhole` excludes that as well, and `WholeStripes`
(each write is a stripe) implies it.  In the instance of `Destage_safety` both hold in every state,
although one of its volumes has stripes of two writes.  `RecoveryFindsLast` is the engine's part:
`auto_checkpoint` is on by default (`src/src/spdk/metadata_engine.rs:721`), and a checkpoint taken
while another thread's entry is logged but not applied loses that entry, so the unconditional
theorem is about engines that checkpoint only when they are told to.  `WritesAreFoundUnlessRaced`
has the further premises of section 4; note that with a host that maps its writes and stripes of
several of them, `Recoverable` is false after the first stripe, so the theorem says most for whole
stripes and for hosts that leave the mapping to the manager.

The invariant `SoundInv` of the first two is `TypesInv`, `PermitsInv` (free permits and holders
add up), `ShardsInv` (a task that goes on after its shards has enough of them, and the same writes
as before) and `TrimmedIsStored`.  The other three rest on `PipelineInv` and `FoundInv`:

- *`PlacesInv`*: a write is in one place only, the channel, a buffer, or a task.  Without it, the
  stripe that maps a block could be another one than the stripe that is trimmed.
- *`RaceInv`*: unless `raced`, no write is of a block of an older one that is still under way.
- *`OwnInv`*: a thread's call to the engine is about the range and the location of what the thread
  holds; it replaces `Exclusive`, because it makes concurrent calls concern different blocks.
- *`UsedInv`*: if ranges are aligned, the keys of the map, of both slots and of a checkpoint under
  way are ranges that were logged, as they were logged: none was split.
- *`FoundInv`*: each block of a write that must be found is found in the map and in the log, or the
  thread that is mapping it has logged it (`MapsOwn`).  This is where the order of log, apply and
  trim enters: a write is trimmed after its mapping was applied.

### 6.5 `ZnsManager_proofs`

| Theorem | Statement | Needs |
|---|---|---|
| `StripesAreSafe` | `Spec /\ []Exclusive /\ [][MovesFirst]_vars => []LiveStripesAreSafe` | see below |
| `GarbageIsCounted` | the same `=> []ValidStripesAreLive` | see below |
| `OpenZonesAreKnown` | the same `=> []OpenZonesAreListed` | see below |
| `OneWriterIsSafe` | the three properties, of `Spec` alone | `GarbageOnly`, `OneEach` |

`Exclusive`: at most one append and at most one collection are in progress; appends, collections,
garbage reports and registrations still interleave step by step.  `MovesFirst`: a collector resets a
zone only when no stripe in use is left in it.  `reset_zone` leaves both to its callers (it only
checks that the zone is registered), and the repository has none, so the theorems say what a caller
must do.  `OneWriterIsSafe` shows a way to do it: one of each, and a collector that asks for zones of
nothing but garbage (`GarbagePercent = 100`), for which `MovesFirst` is proved.

`ZnsInv`: *`ZonesInv`* (whole blocks; the count of valid stripes is that of `live`), *`LiveInv`*
(stripes are disjoint, below the write pointer, in zones that are open or full),
*`CandidatesInv`* (a zone chosen for collection is full and stays so), *`OpenInv`* (the list has each
open zone once, except the one between `MarkOpen` and `PushOpen`, and is not longer than the limit)
and *`SeenIsTrue`* (what an append saw under an earlier lock is still so under the next).  The last
is the point of the proof: it is what a second writer would break.

### 6.6 `StripeManager_proofs`

| Theorem | Statement | Needs |
|---|---|---|
| `RequestsStayInOnePlace` | `Spec => []RequestsAreKept` | – |
| `DestagedStaysPersisted` | `Spec => []DestagedIsPersisted` | – |
| `StripesStayFound` | `Spec => []StripesAreFound` | – |

They hold of every behaviour, with any number of restarts, lost answers and refused objects; the
conditions are those inside the properties (section 4).

`StripeInv` has three parts.  *`RequestsInv`*: each request without an outcome is in one of channel,
queue, batch and job, once.  *`MetadataInv`*: the maps of a volume hold each other's keys
(`VolumesInv`), objects have ids of their own and, until a restart, are those of the stripes in
memory (`IdsInv`), and the map of addresses leads to the newest stripe with that start (`MapInv`,
under the premise of `LookupFindsNewest`).  *`PersistedInv`*: while a request is destaged, each of
its pieces is still to do, an object, or the cause of a noted error.  `DestagedIsPersisted` then
follows from the lemma that the pieces of a request whose entries are even contain every block of
it (`Assembled`), proved by induction over the entries.

### 6.7 `Reconstruction_proofs`

| Theorem | Statement | Needs |
|---|---|---|
| `ReconstructionInvariant` | `Spec => []ReconstructionInv` | – |
| `TasksStayTracked` | `Spec => []TasksAreTracked` | – |
| `ReadsStayRepaired` | `Spec => []DegradedReadsAreRepaired` | – |
| `DecodingStaysRight` | `Spec => []DecodedAsEncoded` | – |

They hold of every behaviour: stripes, objects and policies change under the callers and the
workers, tasks are cancelled, fail or panic, the loop may stop.  The conditions are those inside
the properties (`history.late`, `history.reread`, section 4).

`ReconstructionInv` adds to the types: *`PlacesInv`* (a task is with the one caller that sends it,
on the channel once, or with its worker; without it a worker could be spawned twice, or a task that
no one will send counted as sent), *`PermitsInv`* (permits and running workers add up; a worker that
gives up is the step that could break it), *`ProgressInv`* (besides `TableTellsProgress`, the entry
of a failed task stays InProgress, so that a step of another task cannot be mistaken for its) and
*`GenuineInv`*.  The last explains why the parameters fit although no stripe records them: every
copy of a stripe (in a volume, an object, a read in progress, a worker) and every copy of a policy's
spec (in the cache, a read, a worker) has the first parameters, until the policy is read after an
edit; and a volume never changes its policy, so the spec a caller loaded is that of the stripes it
had copied before.

### 6.8 `Spdk_proofs`: the engine

| Theorem | Statement | Needs |
|---|---|---|
| `ResourcesStayTracked` | `Spec => []ResourcesAreTracked` | – |
| `WritesStaySafe` | `Spec => []WritesAreSafe` | – |
| `FaultsStayTolerated` | `Spec => []ToleratesFaults` | – |

Any number of tasks use the engine at once, on devices that are registered, opened, closed, fail and
work again at any step.  `EcEngineAssumption` has the bound of the code's own validation
(`K + M <= 255`) and says that a zeroed block is not the block of a shard; `BlockDeviceAssumption`
says that there are finitely many tasks, so that they can be counted.  The conditions of the
statements are those inside the properties: `Sound` (no two volumes share a place on a device, no
device of the volume has been closed or opened twice) and `history.gone`.

`EngineInv` has five parts.  *`EngineOK`* is the types, with what each call in progress and each
I/O operation may rely on: the volume and shard it is at, the handle it was given, which may by then
be another one than the table's.  *`CountsOK`*: permits and the calls past acquiring one add up,
and buffers made are in a pool, out with a write, or dropped.  *`MarksOK`*: an operation that is
about to mark its device has put a handle into the table, unless the device was closed since.
*`StripesOK`* is the heart: it extends `StripesAreWhole` to the stripes a write has not finished
(each shard already written is where a read would look for it) and to those a call still reads
although they were deleted.  It needs in turn that a stripe's id is used by one write only and by
nothing that is finished, or the shards of one write could be replaced by those of another.
*`ReportsOK`* says of a read in progress that each shard it has is the stripe's, and of each
it lacks that the device failed at some time; so many lacking shards mean as many devices, since the
devices of a volume differ.  `history.failed` and not `faulty` is what counts: a device may fail for
one shard and work again before the next.

### 6.9 `Spdk_proofs`: reader and buffers

| Theorem | Statement | Needs |
|---|---|---|
| `ReadsStayAnswered` | `ReaderSpec => []ReadsAreAnswered` | – |
| `BuffersStaySound` | `DmaSpec => []BuffersAreSound` | – |

`ReaderInv` says that every shard of a read is on its way, there, late, or lost at some time
(`ShardsKnown`); a read fails only when nothing is on its way, so what it lacks is late or lost, and
if enough shards were there it would not have failed.  The lemmas are about choosing `DataShards` of
the shards that came (`NatMin` and the ranks of a finite set of numbers).

`DmaInv` has the sizes of the pool's buffers, whatever their bytes are, since `put` does not clean
them and `get` does.  `BuffersAreSound` is arithmetic on a word: the sum `size + block - 1` may wrap,
and the mask clears the low bits of what is left.  The lemmas show that a sum that wrapped
is less than a block, so that the mask leaves 0, which is refused (`DmaAssumption`: sizes fit the
word).

### 6.10 `ObjectCache_proofs`

| Theorem | Statement | Needs |
|---|---|---|
| `ExtentsStayDisjoint` | `Spec => []ExtentsAreDisjoint` | – |
| `TiersStayAgreed` | `Spec => []TiersAgree` | – |
| `CountersStayExact` | `Spec => []CountersAreExact` | – |

They hold for any number of callers and keys, under every policy, with write-through or without, and
whatever the backend refuses.  The conditions are those inside the properties: `history.excused` (keys
that a write overlapped, or of which a put left an older copy behind), `drifted`, `crowded` and
`crossed` (section 4).  Three assumptions on the constants carry them.  `CacheAssumption` has
`LowPercent < HighPercent`, which `L1Config` does not validate but its default and all its users
satisfy, and that different keys hash differently.  `WordAssumption` says that what a tier may hold,
and what calls of `clear` have still to take off L1's counter, fits the counter's 64 bits.
`NoEntryAssumption` says that the value that stands for `None` is no entry.

*`CacheOK`* is the types, with what a call has when it is at a place in the code (an entry while it
fills a tier, candidates while it evicts).  For each action a lemma `...Is` says what it does to the
calls and keeps of the types; the proofs of the invariants start from these and not from the
definitions.

- *`ExtentsOK`* adds to `ExtentsAreDisjoint` that every entry of the current file ends at or before
  `current_offset`, and, while a caller has taken its space and not entered it into the index, before
  that space.
- *`AgreeOK`* says, key by key, what a call in the middle knows of the tiers (`CallIsCurrent`): what a
  get carries to a tier is the last version; a get that missed L1 will find the object in L2 if that
  is its only copy; a delete has left nothing behind it.  While a put fills the tiers nothing is
  said of them except of L3, which has accepted the object already.  *`StoredOK`* and *`VersionsOK`*
  say where versions come from.
- *`SizesOK`* is about bytes.  L1's counter is the sum of the entries plus at most what L1 can hold for each
  `clear` that has emptied the map and not yet zeroed the counter (`Bytes1OK`); so it never is less
  than what is subtracted from it.  Who fills a tier alone knows that there is room (`L1Bounded`,
  `L2Bounded`): its candidates for eviction cover what the tier holds, and before it inserts, the tier
  is below the mark.  This is where `LowPercent < HighPercent` is needed: eviction stops at the low
  mark and the bound counts from the high one.
- *`HitsOK`* says that a get is counted once it is over, and that an entry's count is at most one more
  than the hits of L2, the only place that raises it: the counts stay within their type.

Sums over entries (`SumOf`) are recursive functions over sets; the lemmas `SetInd`, `SumOneMore`,
`BytesChange` and `CandidatesOut` say what adding, replacing or removing an entry does to a sum, by
induction over finite sets.

### 6.11 `Reports_proofs`

| Theorem | Statement | Needs |
|---|---|---|
| `WatcherTypeCorrect` | `WatcherSpec => []WatcherTypeOK` | – |
| `OutagesStayReported` | `WatcherSpec => []OutagesAreReported` | – |
| `ScoresStayRecent` | `WatcherSpec => ScoresAreRecent` | – |
| `CountsStaySound` | `Spec => []CountsAreSound` | – |
| `RulesStayKept` | `Spec => []RulesAreKept` | – |

The last two are of the specification of `MC_Reports`, in which one part takes the steps of a
behaviour, for all constants.  The assumptions are those of the code: recorders, threads and policies
are finite in number, `Kinds` are some of the nine structures, and what the keys of a sharded map can
hold at most fits a counter of 64 bits (`MapAssumption`).  `ReportsInv` puts the invariants of the
parts side by side:

- *`WatcherInv`* adds to the types `QueryInTime` (a query that waits was sent at most a timeout ago,
  and an answer that is there came after it was sent) and `KeptInTime` (an entry of the cache expires
  at most the time to live and a timeout after its samples were taken, and a score of zero was not
  computed after nothing but refused connections).  The answers of several callers may overtake each
  other on their way into the cache, so a bound on the age of what is returned cannot be read off the
  one step that returns it: it is the sum of how long a query may take and how long an entry is kept.
- *`StatInv`* is about the counters while recordings are under way.  `TotalsAddUp` speaks of quiet
  moments only; the relations of a structure hold at all times of what the counters will be once every
  recorder has added what it owes (`Due`), since each recording adds to both sides of a relation what
  keeps it (`RecordingKeeps`).  During a reset nothing is owed, or it is `torn`, and what it has cleared
  is 0 (`ResetInv`), so that all is 0 at its end.  `SnapInv` bounds a snapshot that is not finished:
  counters only grow during it, as the model lets no reset overlap it (section 7).
- *`CollectorInv`*: no two names share a counter, a thread that is about to add holds the counter that
  the registry has for its name, and the counters hold what was added since the reset.
- *`MapInv`*: the count of a shard is the number of its keys and, unless a value of another size was
  replaced, its bytes are their sum.  Both are at most what the keys can hold, so no counter wraps.
- *`RuleInv`*: what was decided is `parse_duration` or `find_pool_for_tier` of what was asked.  That a
  duration is understood is then a statement about the loop over the tokens: after `i` of them its
  total is that of the numbers whose units it has read, and the number it holds is the one just read
  (`ReadInv`, shown by induction over `i`); it is what the text says when all of that fits the word.

`Statistics`, `ShardedMap`, `EcPolicyController` and `PolicyRules` sum with `SumOf`; the lemmas
`SumExists`, `SumStep`, `SumChange`, `SumBound` and `SumWithout` say what a sum is, what a change of one
value does to it, and what bounds it.

### 6.12 What the proofs found

- Where guards of a CASE overlap, TLC takes the first and the prover any: `handle_overlaps`, the
  worse of two states in `EcEngine` and the target tier of `ObjectCache` are chains of IF, as the
  code has them.
- `LookupFindsNewest` had held without its premise only because of a bound of one restart.
- `WritesAreFoundUnlessRaced` and `DestagesAreSound` need stripes that are whole and copied; the
  instances satisfy this by their choice of requests, the code does not enforce it.
- The bound of L1 needs `LowPercent < HighPercent`, which no code checks: with the low mark above the
  high one, eviction that has begun would stop at once and the insertion go on without room.
- A sharded map's `size_bytes` is right only while what its keys can hold fits the counter: an
  assumption the bounded instance had made without saying so.
- The counts and the list of zones do not depend on the strategy, nor on the hint's value.

### 6.13 Out of the prover's reach

Liveness under fairness and ENABLED: `ReconcileEnds`, `RequestsAreServed`, `QueuedTasksEnd` and
`PoliciesSettle` are only model-checked.  Theorems that take an operator as a parameter cannot be
used, but a recursive function over the naturals can be reasoned about by induction over the set of
numbers that have a property (lemma `NatInd`), which is how `replay`, `Total`, `Assembled`, `Without`
and `HintCycle` are handled, and one over finite sets by induction over the set of subsets that have
it (`SetInd`), which is how `SumOf` is; the loop of `parse_duration` is a function over the positions
in the text.  What remains opaque are the folds and `SelectSeq` of the libraries and what is computed
by recursion over data.  So these invariants stay with TLC:

- `ChunksAreRestored`: `Compression` has RECURSIVE operators (`Runs`, `Unpack`), which no module with
  a theorem may reach;
- `StripesAreRestored`: the field and the elimination of `ErasureCodec`.

`ControllerTypeOK` and `MigrationsAreLimited` are
proved (`ControllerTypeCorrect`, `LimitHolds`) and need no run.

---

## 7. What is not covered

- Not modelled: hardware discovery (reads sysfs and tool output), event publishers, domain and
  adapters (interfaces the binary does not call), the health endpoint's flags
  (`rustfs/monitoring/health.rs`), the LZ4 compression manager of the cache (no caller), the
  bindings to SPDK and their mock, the servers of `main.rs`, user interfaces and manifests.
- *Migrator, controller*: log messages, events, requeue intervals, the bounded migration history,
  capacity arithmetic (it decides log lines only).
- *Metadata engine, destage manager*: the encoding of log entries and checkpoints, flush (its
  device write is a stub), the table of finished tasks.
- *ZNS manager*: `align_to_zone_boundary`, which nothing calls.
- *Stripe manager, reconstruction*: priorities of requests (never read), progress of tasks, the
  reads and writes of shards (stubs), `LbaStripeMap` (no caller).
- *Object cache*: ages of entries, the tiers' own hit counters, `exists`, the stubbed reads of L2,
  `EvictionPolicy` and demotion (no caller); collisions of `combined_hash` are assumed not to
  happen (`OwnHash`).
- *SPDK*: flush, batches, the entropy estimate, latencies; allocation failures, raw pointers and
  splitting of DMA buffers; the tables of ISA-L and of reed-solomon-erasure are external, their
  fields are smaller and their alignment is 2.
- *Watcher*: the sampling window, the bulk and range queries (no caller), the text of answers.
- *Counters*: gauges, averages, the export format; a snapshot overlapped by a reset, whose counters may be
  from before and after it; an addition is one unit.
- What the code does not contain is modelled from how it is used and marked external: Mayastor's
  control plane, the host of the SPDK data path, device faults.
- Time is modelled in the watcher only; elsewhere a timeout may happen at any moment of the wait, a
  tick whenever the loop is free, the end of a cooldown or of a time to live whenever one runs.

---

## 8. Where code and documents disagree

With a run (`findings` in `PROJECT.json`): `Migrator_loss`.  The others were met while modelling;
conditions in the properties (section 4) mark where they bite.

*Controller and migrator* (`controller/storage_policy.rs`, `migrator/engine.rs`):

- `storage_policy.rs:445`: the cooldown is computed from an annotation that no code writes, so it
  never applies; `src/docs/requirements/FUNCTIONAL_SPEC.md:36` says "Minimum time between
  migrations of same volume".
- `engine.rs:731`: a pool that cannot be read in `migrate_to_ec` leaves by `?` without
  `active_migrations.remove`; the volume counts as migrating until the restart
  (action `EcPoolGetFails`).
- `engine.rs:427` counts the replicas that exist, while the comment at `:568` speaks of the
  original count: a volume with a missing replica keeps the lower count.
- `storage_policy.rs:158`: a failed metrics query is a score of zero, which is a reason to
  move a volume to the cold tier; `FUNCTIONAL_SPEC.md:347` says "Retry with backoff" of an
  unreachable Prometheus.
- `engine.rs:14`: "Optional preservation mode never removes old replicas"; two overlapping calls may
  lower a count that one of them raised, and Mayastor then removes a replica (section 6.1).
- `storage_policy.rs:422`: the final status patch resets totals and history.
- Only `matchLabels` reach `find_pool_for_tier`: expressions of a selector are ignored.

*Metrics watcher* (`metrics/watcher.rs`): the cache is keyed by the volume alone, so policies with
different windows get each other's scores; a first metric that fails and a second that is empty
make a score of zero, cached for its time to live.

*Metadata engine* (`spdk/metadata_engine.rs`):

- `:975` promises that stale updates are refused, but `:999` compares under a read lock and
  the map is changed under a later write lock; with two threads an update may be stale.
- A restart between the checkpoint's slot and its marker makes recovery skip the next entry;
  replay does not split overlapping ranges; an entry logged but not yet applied when another
  thread takes a checkpoint is truncated; generations start at 1 again after recovery; the
  fallback slot is too old once the log is truncated.
- `lookup_range` returns an entry that starts where the query starts twice; the piece after a
  split keeps the location of the whole.

*Destage manager* (`spdk/destage_manager.rs`):

- `:1284`: the mapping the update expects is looked up when the update is made (the location of
  the destaged write, at `:1266`, is not used), so a newer write of the range passes the comparison
  and is replaced by the older stripe.  `WritesAreFound` without its condition fails in an instance
  with one block and two writes.
- The last write of a stripe may exceed it: the excess is trimmed but not stored.  The mapped
  range is from the least to the greatest block, gaps included.  With a host that maps each
  write, stripes of several writes always fail, because the update needs the exact key.
- The parity computed here (`:1447`) is not the codec's, so a lost data shard of a destaged stripe
  cannot be restored by the reader or the processor.
- Failed stripes are not tried again, the journal is not replayed after a restart, dry run
  still maps, the map has no volume id.

*ZNS manager* (`spdk/zns.rs`): two writers may get one offset; a zone whose rest is at least
the alignment but less than a stripe stays open for ever; `reset_zone` does not check again,
so two collectors may reset a zone that is in use again; `align_to_zone_boundary` need not give a
size that divides the zone, and divides by zero for a stripe larger than a zone.

*Erasure coding* (`ec/*.rs`):

- `metadata.rs:402`: `sync_from_crds` leaves `next_stripe_id` at 0, so after a restart new stripes
  take the ids of old ones; `metadata.rs:26` says "Unique stripe ID within the volume".
  `StripeIdsAreUnique` fails in an instance with one volume, two requests and a restart.  After a
  second restart, or with ten stripes, `sync_from_crds` may also bring back an older stripe of an
  address, because it adds the objects in the order of their names (`metadata.rs:402`).
- The excess over a stripe loses its address or is dropped at the end (`stripe_manager.rs:352`); a
  stripe is in memory before its object and stays when the object is refused (`:459`); an error
  inside a request does not queue it again (`:346`); the address lookup does not check a stripe's
  end (`metadata.rs:116`); nothing refreshes cached policies.
- Reconstruction: the task is sent before it is inserted (`reconstruction.rs:378`), a failed one
  stays in progress (`:455`), cancelling has no effect (`:587`), finished tasks are removed from a
  copy of the table (`:538`), a healthy status is set on a copy; `start_reconstruction` looks for
  the stripe id without the volume; a read of several stripes concatenates them in the order of a
  hash map; the decoder has the parameters of the volume's policy and panics on a stripe with more
  shards; `allow_degraded = false` refuses only the state Degraded.
- EC policy controller: stripes are counted by a label that `create_stripe_crd` does not set, so
  counts are 0; a volume watched by two policies counts twice; each patch has a new timestamp and
  so causes the next reconciliation at once, against "Requeue after 5 minutes".

*Object cache* (`rustfs/cache/*.rs`): a large `put` leaves the old entry in L1 (`manager.rs:189`);
`get` may promote what it read over a newer `put` or `delete` (`:158`); a `delete` that fails in L3
has already removed the key above (`:218`); `record_access` changes a copy, so with the built-in
policies nothing is ever promoted from L2 to L1; L2 does not check expiry and L3 loses it; a
replacement makes a shard's `size_bytes` drift (`shard.rs:105`).

*SPDK* (`spdk/*.rs`):

- Two `create_volume` of one name: the second replaces the first with its stripes
  (`ec_engine.rs:574`).  The offset of a shard ignores the volume (`:694`).  A write that fails
  leaves shards behind and drops its buffers; a verification that finds a mismatch keeps its
  parity buffers (`stripe_processor.rs:762`).  `checksum`, retries and `verify_reads` are not used.
- A store belongs to the handle: a device closed and opened again is empty, and two opens at once
  make two (`bdev.rs:786`).
- The reader waits for all shards although `read_path.rs:40` says "don't wait for parity"; its
  overall timeout discards the shards that came in time; a repair that finds the queue full is
  dropped without a count.
- The run-length decoder misreads a marker byte followed by data that looks like its argument and a
  long run at the very end of a chunk, such as 4096 equal bytes (`compression.rs:796`); the test at
  `:1032` compares sizes only.
- `new_aligned` (`dma_buf.rs:195`) wraps for sizes near 2^64; a pool may begin with more buffers
  than it takes back.  A comment of the codec says "AES polynomial", which 0x1D is not.

*Counters*: a reset that overlaps a recording leaves totals apart for good (`metrics.rs:286`,
`bdev.rs:370`); the reset of the collector resets counters only; `Gauge::dec` wraps.
