--------------------------- MODULE Reconstruction ----------------------------
(***************************************************************************)
(* Degraded reads and background rebuilds of erasure coded stripes         *)
(* (src/ec/reconstruction.rs), with the metadata and the policies they     *)
(* read (src/ec/metadata.rs) and the codec's rules (src/ec/encoder.rs).    *)
(*                                                                         *)
(* Callers read or ask for a rebuild; both queue tasks on a bounded        *)
(* channel and put them into the table of tasks afterwards.  One loop      *)
(* takes tasks off the channel and spawns a worker for each, which waits   *)
(* for a permit.  A step ends where the code awaits, and where the table   *)
(* or a counter is shared with a task that runs in parallel.               *)
(*                                                                         *)
(* A stripe carries the parameters it was encoded with, "code", which the  *)
(* program does not record: reads and rebuilds take the parameters of the  *)
(* policy the volume has.                                                  *)
(***************************************************************************)
EXTENDS Naturals, Sequences, FiniteSets

CONSTANTS
  Volumes, Policies,
  Callers,        \* tasks that read or ask for rebuilds
  Specs,          \* specs a policy may be given: data and parity shards
  InitialSpec,    \* the spec of every policy when the objects were made
  Ranges,         \* LbaRanges callers read
  Starts,         \* the range of each stripe, by its id
  Wants,          \* rebuilds callers ask for: volume, stripe id, missing shards
  Healths,        \* values of shard_health, with the state that goes along
  InitialObjects, \* the ECStripe objects an earlier run left
  Registered,     \* the volumes synchronised at the start, and their policy
  MaxConcurrent,  \* max_concurrent
  ChannelCap,     \* capacity of the task channel: 1000 in the code
  MaxTasks,       \* bound: tasks queued
  MaxCalls,       \* bound: calls of reads and rebuilds
  MaxChanges,     \* bound: changes of stripes and policies by others
  NoTask,         \* a caller has no task
  NoSpec          \* a policy is not cached

TaskIds == 0..(MaxTasks - 1)
States == {"Healthy", "Degraded", "Rebuilding", "Failed", "Writing"}
ShardStates == {"Healthy", "Missing", "Corrupted", "Rebuilding"}
Ids == DOMAIN Starts
Stripes == [vol: Volumes, id: Ids, policy: Policies, code: Specs,
            state: States, health: Seq(ShardStates)]

\* Objects have names of their own; those of an earlier run were made with InitialSpec.
ASSUME ReconstructionAssumption ==
  /\ Specs \subseteq [k: Nat, m: Nat] /\ InitialSpec \in Specs
  /\ NoSpec \notin Specs
  /\ Ids \subseteq Nat
  /\ \A h \in Healths : h.state \in States /\ h.shards \in Seq(ShardStates)
  /\ DOMAIN Registered \subseteq Volumes /\ Registered \in [DOMAIN Registered -> Policies]
  /\ InitialObjects \subseteq Stripes /\ \A o \in InitialObjects : o.code = InitialSpec
  /\ \A o, x \in InitialObjects : o.vol = x.vol /\ o.id = x.id => o = x
  /\ Wants \subseteq Volumes \X Nat \X SUBSET Nat
  /\ MaxConcurrent \in Nat \ {0} /\ ChannelCap \in Nat \ {0}
  /\ MaxTasks \in Nat /\ MaxCalls \in Nat /\ MaxChanges \in Nat
  /\ NoTask \notin TaskIds

VARIABLES
  volumes,   \* EcMetadataManager::volumes, those registered
  cached,    \* EcMetadataManager::policies
  cluster,   \* the specs of the policies in the cluster
  objects,   \* the ECStripe objects, as a set
  callers,   \* the calls in progress
  channel,   \* task_tx and task_rx: ids of tasks
  tasks,     \* what each task is for
  table,     \* active_tasks: the status of each task in it
  workers,   \* the spawned tasks
  permits,   \* semaphore
  loop,      \* the task that runs run()
  history    \* what the properties remember

metadata == <<volumes, cached, cluster, objects>>
queue == <<channel, tasks>>
pool == <<workers, permits, loop>>
vars == <<metadata, callers, queue, table, pool, history>>

\* insert, of the maps
insert(map, key, value) ==
  [k \in DOMAIN map \union {key} |-> IF k = key THEN value ELSE map[k]]

-----------------------------------------------------------------------------
(* Stripes and policies.                                                   *)

\* LbaRange::overlaps, for ranges that are half open
overlaps(r, s) == r.start < s.end /\ s.start < r.end

Stripe(v, id, p, code, h) ==
  [vol |-> v, id |-> id, policy |-> p, code |-> code,
   state |-> h.state, health |-> h.shards]

StripesOf(v) == volumes[v].stripes
find_stripes_in_range(v, r) == {s \in StripesOf(v) : overlaps(Starts[s.id], r)}
get_stripe(v, id) == {s \in StripesOf(v) : s.id = id}

\* A stripe that is added replaces the one of its id.
add_stripe(all, s) == {x \in all : x.id # s.id} \union {s}

Total(spec) == spec.k + spec.m
\* What EcDecoder::new and EcEncoder::new accept.
IsValid(spec) == spec.k > 0 /\ spec.m > 0 /\ Total(spec) <= 256

\* A shard without a health entry is taken to be healthy.
IsHealthy(s, i) == i > Len(s.health) \/ s.health[i] = "Healthy"
Missing(s) == {i \in 1..Total(s.code) : ~IsHealthy(s, i)}

Present(s, missing) == (1..Total(s.code)) \ missing
\* Indexing the vector of shards panics where a stripe has more shards than
\* the decoder; too few present shards are an error.
Panics(s, missing, spec) == ~(Present(s, missing) \subseteq 1..Total(spec))
Suffices(s, missing, spec) == Cardinality(Present(s, missing)) >= spec.k

-----------------------------------------------------------------------------
(* load_policy: the cache first, then the API server, which may fail.      *)

\* Mutant: the cache is not consulted.
LoadsAnew(p) == {cluster[p]}

Loads(p) == IF cached[p] # NoSpec THEN {cached[p]} ELSE {cluster[p]}

\* A spec that is read after an edit may not be the one stripes were made with.
Noted(p) ==
  IF cached[p] = NoSpec /\ cluster[p] # InitialSpec
    THEN [history EXCEPT !.reread = @ \union {p}] ELSE history

\* The policy's spec is got, and cached if it was not.
Got(p, spec) ==
  /\ spec \in Loads(p)
  /\ cached' = [cached EXCEPT ![p] = spec]
  /\ history' = Noted(p)

-----------------------------------------------------------------------------
(* Callers: handle_degraded_read and start_reconstruction.                 *)

Idle == [pc |-> "idle", vol |-> "", allow |-> FALSE, todo |-> {}, spec |-> NoSpec,
         rebuilt |-> {}, task |-> NoTask]

\* The beginning of queue_background_rebuild: next_task_id.fetch_add.
Queues(c, record, want) ==
  /\ Len(tasks) < MaxTasks
  /\ tasks' = Append(tasks, want)
  /\ callers' = [callers EXCEPT ![c] = [record EXCEPT !.pc = "send", !.task = Len(tasks)]]

Calls(c) ==
  /\ callers[c].pc = "idle" /\ history.calls < MaxCalls
  /\ history' = [history EXCEPT !.calls = @ + 1]
  /\ UNCHANGED <<metadata, channel, table, pool>>

\* The stripes are cloned under the lock of the volume; an unknown volume and a
\* range without stripes are errors.
BeginRead(c) ==
  \E v \in DOMAIN volumes, r \in Ranges, allow \in BOOLEAN :
    /\ Calls(c)
    /\ find_stripes_in_range(v, r) # {}
    /\ callers' = [callers EXCEPT ![c] = [Idle EXCEPT !.pc = "policy", !.vol = v,
                     !.allow = allow, !.todo = find_stripes_in_range(v, r)]]
    /\ UNCHANGED tasks

\* The call ends with an error; what it has queued stays queued.
Fails(c) ==
  callers' = [callers EXCEPT ![c] = [Idle EXCEPT !.rebuilt = callers[c].rebuilt]]

\* load_policy(policy_ref).await and EcDecoder::new.
ReadPolicy(c) ==
  LET p == volumes[callers[c].vol].policy IN
  /\ callers[c].pc = "policy"
  /\ \/ \E spec \in Loads(p) :
          /\ Got(p, spec)
          /\ IF IsValid(spec)
               THEN callers' = [callers EXCEPT ![c].pc = "stripes", ![c].spec = spec]
               ELSE Fails(c)
     \/ /\ cached[p] = NoSpec
        /\ Fails(c)
        /\ UNCHANGED <<cached, history>>
  /\ UNCHANGED <<volumes, cluster, objects, queue, table, pool>>

\* One turn of the loop over the stripes, which come in the order of a hash
\* map; read_stripe_shards finds the missing shards from the cloned status, and
\* a stripe that misses some is queued for a rebuild.
ReadStripe(c) ==
  LET self == callers[c] IN
  /\ self.pc = "stripes"
  /\ \E s \in self.todo :
       IF \/ s.state = "Degraded" /\ ~self.allow
          \/ Panics(s, Missing(s), self.spec)
          \/ ~Suffices(s, Missing(s), self.spec)
         THEN Fails(c) /\ UNCHANGED tasks
         ELSE LET read == [self EXCEPT !.todo = @ \ {s}] IN
              IF Missing(s) = {}
                THEN callers' = [callers EXCEPT ![c] = read] /\ UNCHANGED tasks
                ELSE Queues(c, [read EXCEPT !.rebuilt = @ \union {s}], <<s.vol, s.id, Missing(s)>>)
  /\ UNCHANGED <<metadata, channel, table, pool, history>>

\* The data of all stripes is returned; the caller is free again.
EndRead(c) ==
  /\ callers[c].pc = "stripes" /\ callers[c].todo = {}
  /\ callers' = [callers EXCEPT ![c] = [Idle EXCEPT !.rebuilt = callers[c].rebuilt]]
  /\ UNCHANGED <<metadata, queue, table, pool, history>>

\* A rebuild is taken to be under way if one of that stripe id is InProgress,
\* whatever its volume; otherwise a task is queued.
StartReconstruction(c) ==
  \E want \in Wants :
    LET found == {t \in DOMAIN table : table[t] = "InProgress" /\ tasks[t + 1][2] = want[2]} IN
    /\ Calls(c)
    /\ IF found = {}
         THEN Queues(c, Idle, want)
         ELSE callers' = [callers EXCEPT ![c] = Idle] /\ UNCHANGED tasks

-----------------------------------------------------------------------------
(* queue_background_rebuild.                                               *)

\* Mutant: try_send, which drops the task when the channel is full.
SendsIfRoom(c) ==
  /\ callers[c].pc = "send"
  /\ channel' = IF Len(channel) < ChannelCap THEN Append(channel, callers[c].task) ELSE channel
  /\ callers' = [callers EXCEPT ![c].pc = "insert"]
  /\ UNCHANGED <<metadata, tasks, table, pool, history>>

\* task_tx.send(task).await waits for room.
SendTask(c) ==
  /\ callers[c].pc = "send"
  /\ Len(channel) < ChannelCap
  /\ channel' = Append(channel, callers[c].task)
  /\ callers' = [callers EXCEPT ![c].pc = "insert"]
  /\ UNCHANGED <<metadata, tasks, table, pool, history>>

\* active_tasks.insert: Pending, even if a worker has the task already.
InsertTask(c) ==
  LET t == callers[c].task IN
  /\ callers[c].pc = "insert"
  /\ table' = insert(table, t, "Pending")
  /\ callers' = [callers EXCEPT ![c].pc = IF callers[c].spec = NoSpec THEN "idle" ELSE "stripes",
                                ![c].task = NoTask]
  /\ history' = IF t \in DOMAIN table THEN [history EXCEPT !.late = @ \union {t}] ELSE history
  /\ UNCHANGED <<metadata, queue, pool>>

\* Mutant: a task is cancelled whatever its status.
CancelsAny(t) ==
  /\ table' = [table EXCEPT ![t] = "Cancelled"]
  /\ UNCHANGED <<metadata, callers, queue, pool, history>>

\* cancel_task: only the table changes, the channel keeps the task.
Cancel(t) ==
  /\ table[t] = "Pending"
  /\ table' = [table EXCEPT ![t] = "Cancelled"]
  /\ UNCHANGED <<metadata, callers, queue, pool, history>>

-----------------------------------------------------------------------------
(* The loop and its workers.                                               *)

NoWorker == [pc |-> "none", stripe |-> {}, policy |-> "", spec |-> NoSpec]

\* One arm of the loop: a worker is spawned for each task received.
Receive ==
  /\ loop = "running" /\ channel # <<>>
  /\ workers' = [workers EXCEPT ![Head(channel)].pc = "spawned"]
  /\ channel' = Tail(channel)
  /\ UNCHANGED <<metadata, callers, tasks, table, permits, loop, history>>

\* The other arm: a tick after shutdown() ends the loop; check_degraded_stripes
\* only logs, so other ticks change nothing.
Tick ==
  /\ loop = "running"
  /\ loop' = "stopped"
  /\ UNCHANGED <<metadata, callers, queue, table, workers, permits, history>>

\* execute_task: a permit, then InProgress.
Acquire(t) ==
  /\ workers[t].pc = "spawned" /\ permits > 0
  /\ permits' = permits - 1
  /\ workers' = [workers EXCEPT ![t].pc = "running"]
  /\ table' = insert(table, t, "InProgress")
  /\ UNCHANGED <<metadata, callers, queue, loop, history>>

\* Mutant: a failed task keeps its permit.
KeepsPermit(t) ==
  workers' = [workers EXCEPT ![t] = [NoWorker EXCEPT !.pc = "failed"]] /\ UNCHANGED <<table, permits>>

\* An error or a panic drops the permit and leaves the table alone.
GivesUp(t) ==
  /\ workers' = [workers EXCEPT ![t] = [NoWorker EXCEPT !.pc = "failed"]]
  /\ permits' = permits + 1
  /\ UNCHANGED table

\* get_volume and get_stripe
FindStripe(t) ==
  LET v == tasks[t + 1][1]
      found == IF v \in DOMAIN volumes THEN get_stripe(v, tasks[t + 1][2]) ELSE {} IN
  /\ workers[t].pc = "running"
  /\ IF found = {}
       THEN GivesUp(t)
       ELSE /\ workers' = [workers EXCEPT ![t] = [pc |-> "policy", stripe |-> found,
                             policy |-> volumes[v].policy, spec |-> NoSpec]]
            /\ UNCHANGED <<table, permits>>
  /\ UNCHANGED <<metadata, callers, queue, loop, history>>

RebuildPolicy(t) ==
  LET p == workers[t].policy IN
  /\ workers[t].pc = "policy"
  /\ \/ \E spec \in Loads(p) :
          /\ Got(p, spec)
          /\ IF IsValid(spec)
               THEN /\ workers' = [workers EXCEPT ![t].pc = "rebuild", ![t].spec = spec]
                    /\ UNCHANGED <<table, permits>>
               ELSE GivesUp(t)
     \/ /\ cached[p] = NoSpec
        /\ GivesUp(t)
        /\ UNCHANGED <<cached, history>>
  /\ UNCHANGED <<volumes, cluster, objects, callers, queue, loop>>

\* The present shards are those the task does not call missing.  The stripe
\* that is set to Healthy at the end is a clone.  The entry of the table that
\* is removed later is one of a clone too.
Rebuild(t) ==
  LET s == CHOOSE x \in workers[t].stripe : TRUE
      missing == tasks[t + 1][3] IN
  /\ workers[t].pc = "rebuild"
  /\ IF \/ Panics(s, missing, workers[t].spec)
        \/ ~Suffices(s, missing, workers[t].spec)
        \/ ~(missing \subseteq 1..Total(workers[t].spec))
       THEN GivesUp(t)
       ELSE /\ workers' = [workers EXCEPT ![t] = [NoWorker EXCEPT !.pc = "completed"]]
            /\ permits' = permits + 1
            /\ table' = insert(table, t, "Completed")
  /\ UNCHANGED <<metadata, callers, queue, loop, history>>

-----------------------------------------------------------------------------
(* The metadata, as others change it.                                      *)

Changes ==
  /\ history.changes < MaxChanges
  /\ UNCHANGED <<callers, queue, table, pool>>

Changed == [history EXCEPT !.changes = @ + 1]

\* sync_from_crds: the objects of the volume are put into its state, which keeps
\* the policy it was first created with.
Sync(v, p) ==
  LET known == IF v \in DOMAIN volumes THEN volumes[v] ELSE [policy |-> p, stripes |-> {}]
      loaded == {o \in objects : o.vol = v} IN
  /\ v \in DOMAIN volumes => p = volumes[v].policy
  /\ Changes
  /\ volumes' = insert(volumes, v, [known EXCEPT !.stripes =
       {s \in @ : \A o \in loaded : o.id # s.id} \union loaded])
  /\ history' = Changed
  /\ UNCHANGED <<cached, cluster, objects>>

\* What destaging does to the metadata: the stripe is encoded with the policy
\* that is loaded, its object created and the stripe added.
Destage(v, id) ==
  LET p == volumes[v].policy IN
  /\ Changes
  /\ get_stripe(v, id) = {} /\ \A o \in objects : <<o.vol, o.id>> # <<v, id>>
  /\ \E spec \in Loads(p) :
       LET s == Stripe(v, id, p, spec, [state |-> "Healthy", shards |-> <<>>]) IN
       /\ IsValid(spec)
       /\ cached' = [cached EXCEPT ![p] = spec]
       /\ objects' = objects \union {s}
       /\ volumes' = [volumes EXCEPT ![v].stripes = add_stripe(@, s)]
       /\ history' = [Noted(p) EXCEPT !.changes = @ + 1]
  /\ UNCHANGED cluster

\* VolumeEcState::update_stripe_status, by whoever checks the shards.
UpdateStatus(v, h) ==
  /\ Changes
  /\ \E s \in StripesOf(v) :
       volumes' = [volumes EXCEPT ![v].stripes =
         add_stripe(@, [s EXCEPT !.state = h.state, !.health = h.shards])]
  /\ history' = Changed
  /\ UNCHANGED <<cached, cluster, objects>>

\* EcMetadataManager::update_stripe_status: the object's status.
PatchStatus(o, h) ==
  /\ Changes
  /\ objects' = (objects \ {o}) \union {[o EXCEPT !.state = h.state, !.health = h.shards]}
  /\ history' = Changed
  /\ UNCHANGED <<volumes, cached, cluster>>

\* delete_stripe_crd
DeleteObject(o) ==
  /\ Changes
  /\ objects' = objects \ {o}
  /\ history' = Changed
  /\ UNCHANGED <<volumes, cached, cluster>>

\* A user edits the policy.
EditPolicy(p, spec) ==
  /\ Changes /\ cluster[p] # spec
  /\ cluster' = [cluster EXCEPT ![p] = spec]
  /\ history' = Changed
  /\ UNCHANGED <<volumes, cached, objects>>

\* refresh_policies: every policy of the cluster replaces the one cached.
Refresh ==
  /\ Changes
  /\ cached' = cluster
  /\ history' = [Changed EXCEPT !.reread =
       @ \union {p \in Policies : cluster[p] # InitialSpec \/ cached[p] \notin {NoSpec, cluster[p]}}]
  /\ UNCHANGED <<volumes, cluster, objects>>

Others ==
  \/ \E v \in Volumes, p \in Policies : Sync(v, p)
  \/ \E v \in DOMAIN volumes, id \in DOMAIN Starts : Destage(v, id)
  \/ \E v \in DOMAIN volumes, h \in Healths : UpdateStatus(v, h)
  \/ \E o \in objects, h \in Healths : PatchStatus(o, h)
  \/ \E o \in objects : DeleteObject(o)
  \/ \E p \in Policies, spec \in Specs : EditPolicy(p, spec)
  \/ Refresh

-----------------------------------------------------------------------------
Init ==
  /\ volumes = [v \in DOMAIN Registered |->
                 [policy |-> Registered[v], stripes |-> {o \in InitialObjects : o.vol = v}]]
  /\ cached = [p \in Policies |-> NoSpec]
  /\ cluster \in [Policies -> Specs]
  /\ objects = InitialObjects
  /\ callers = [c \in Callers |-> Idle]
  /\ channel = <<>> /\ tasks = <<>>
  /\ table = [t \in {} |-> ""]
  /\ workers = [t \in TaskIds |-> NoWorker]
  /\ permits = MaxConcurrent /\ loop = "running"
  /\ history = [calls |-> 0, changes |-> 0, late |-> {}, reread |-> {}]

Call(c) == BeginRead(c) \/ StartReconstruction(c)

Continue(c) ==
  \/ ReadPolicy(c) \/ ReadStripe(c) \/ EndRead(c)
  \/ SendTask(c) \/ InsertTask(c)

Work(t) == FindStripe(t) \/ RebuildPolicy(t) \/ Rebuild(t)

Next ==
  \/ \E c \in Callers : Call(c) \/ Continue(c)
  \/ \E t \in DOMAIN table : Cancel(t)
  \/ Receive \/ Tick
  \/ \E t \in TaskIds : Acquire(t) \/ Work(t)
  \/ Others

Spec == Init /\ [][Next]_vars

\* The loop and the workers are tokio tasks that are always polled; the
\* semaphore is fair, so a worker that waits gets a permit in its turn.
FairSpec ==
  /\ Spec
  /\ WF_vars(Receive)
  /\ \A t \in TaskIds : WF_vars(Work(t)) /\ SF_vars(Acquire(t))

-----------------------------------------------------------------------------
Running(t) == workers[t].pc \in {"running", "policy", "rebuild"}
IsQueued(t) == \E i \in 1..Len(channel) : channel[i] = t

\* The variables have their types, and no more workers run than there are
\* permits (the semaphore of ReconstructionEngine::new).
ReconstructionTypeOK ==
  /\ \A v \in DOMAIN volumes : v \in Volumes /\ volumes[v].policy \in Policies
       /\ \A s \in volumes[v].stripes : s.vol = v /\ s.id \in DOMAIN Starts
            /\ get_stripe(v, s.id) = {s}
  /\ cached \in [Policies -> Specs \union {NoSpec}] /\ cluster \in [Policies -> Specs]
  /\ Len(channel) <= ChannelCap /\ \A i \in 1..Len(channel) : channel[i] < Len(tasks)
  /\ DOMAIN table \subseteq 0..(Len(tasks) - 1)
  /\ permits = MaxConcurrent - Cardinality({t \in TaskIds : Running(t)}) /\ permits >= 0

\* The table tells which tasks are executed: a task that runs is InProgress and
\* one that is InProgress runs or has failed, a completed one is Completed, and a
\* Cancelled one has not begun, unless its Pending entry came after its worker's
\* (queue_background_rebuild sends the task before it inserts the entry).
TableTellsProgress ==
  \A t \in TaskIds \ history.late :
    LET status == IF t \in DOMAIN table THEN table[t] ELSE "" IN
    /\ Running(t) => status = "InProgress"
    /\ workers[t].pc = "completed" => status = "Completed"
    /\ status = "InProgress" => Running(t) \/ workers[t].pc = "failed"
    /\ status = "Cancelled" => workers[t].pc \in {"none", "spawned"}

\* A read that had to reconstruct a stripe has left a task for it behind, with
\* the shards that were missing, which waits to be or has been executed, however
\* full the channel was and even if the read failed later.
DegradedReadsAreRepaired ==
  \A c \in Callers : \A s \in callers[c].rebuilt :
    \E t \in TaskIds :
      /\ t < Len(tasks) /\ tasks[t + 1] = <<s.vol, s.id, Missing(s)>>
      /\ \/ IsQueued(t) \/ workers[t].pc # "none"
         \/ callers[c].pc = "send" /\ callers[c].task = t

\* Stripes are decoded with the parameters they were encoded with, although
\* these are not kept with them: as long as no policy was read again after an
\* edit, and for stripes of the policy the volume was created with.
DecodedAsEncoded ==
  LET Fits(s, p, spec) == p \in history.reread \/ s.policy # p \/ spec = s.code IN
  /\ \A c \in Callers : callers[c].spec # NoSpec =>
       \A s \in callers[c].todo : Fits(s, volumes[s.vol].policy, callers[c].spec)
  /\ \A t \in TaskIds : workers[t].pc = "rebuild" =>
       \A s \in workers[t].stripe : Fits(s, workers[t].policy, workers[t].spec)

\* Every task on the channel is executed to an end, whatever fails, unless the
\* loop is stopped: no error keeps a permit.
QueuedTasksEnd ==
  \A t \in TaskIds :
    IsQueued(t) ~> (workers[t].pc \in {"completed", "failed"} \/ loop = "stopped")

\* Tasks are tracked: those that run hold the permits, and the table tells which do.
TasksAreTracked == ReconstructionTypeOK /\ TableTellsProgress
=============================================================================
