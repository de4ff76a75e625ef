---------------------------- MODULE StripeManager ----------------------------
(***************************************************************************)
(* The erasure coding stripe manager (src/ec/stripe_manager.rs) and the    *)
(* metadata it writes (src/ec/metadata.rs): requests to destage journal    *)
(* entries travel through a channel and a queue, are cut into stripes, and *)
(* every stripe is recorded in memory and then as an ECStripe object.      *)
(*                                                                         *)
(* One task runs the loop: it either moves a request from the channel to   *)
(* the queue or, on a tick, works a batch off.  A step ends where it       *)
(* awaits the API server or could be overtaken by the registration of a    *)
(* volume, which another task does by synchronising it from its objects.   *)
(*                                                                         *)
(* Data is counted in blocks, and a block stands for its own address: what *)
(* a stripe holds is the sequence of the addresses its blocks were written *)
(* to.                                                                     *)
(***************************************************************************)
EXTENDS Naturals, Sequences, FiniteSets, SequencesExt

CONSTANTS
  Volumes,      \* volumes that may use erasure coding
  Requests,     \* DestageRequests: a volume and its journal entries
  StripeSize,   \* stripe_size_bytes of the policy, in blocks
  BatchSize,    \* batch_size
  ChannelCap,   \* capacity of the channel of requests
  DryRuns,      \* the values dry_run may have
  NoLba,        \* current_lba_start is None
  NoRequest,    \* the loop destages nothing
  ListedBefore(_, _),  \* the order of the names of two stripes, which is not that of their
                       \* ids from the tenth on
  MaxRequests,  \* bound: requests submitted
  MaxRestarts   \* bound: restarts of the operator

Entries == [start: Nat, size: Nat]

ASSUME StripeManagerAssumption ==
  /\ \A r \in Requests : r.vol \in Volumes /\ r.entries \in Seq(Entries)
  /\ StripeSize \in Nat \ {0} /\ BatchSize \in Nat \ {0} /\ ChannelCap \in Nat \ {0}
  /\ DryRuns \subseteq BOOLEAN
  /\ NoLba \notin Nat
  /\ NoRequest \notin Nat
  /\ MaxRequests \in Nat /\ MaxRestarts \in Nat

VARIABLES
  dry_run,    \* StripeManagerConfig
  channel,    \* request_tx and request_rx
  pending,    \* pending_requests
  batch,      \* requests drained from pending
  job,        \* the request that is being destaged
  cached,     \* the policy is in EcMetadataManager's cache
  volumes,    \* EcMetadataManager::volumes
  objects,    \* the ECStripe objects of each volume
  submitted,  \* history: the requests, by number
  outcome,    \* history: what has become of each request
  stamp,      \* history: the number of stripes made
  restarts    \* restarts so far

queues == <<channel, pending, batch>>
metadata == <<cached, volumes, objects>>
history == <<submitted, outcome, stamp, restarts>>
vars == <<dry_run, queues, job, metadata, history>>

-----------------------------------------------------------------------------
(* Stripes.                                                                *)

\* A stripe with its blocks; "stamp" orders stripes by age.
Stripe == [stripe_id: Nat, start: Nat, data: Seq(Nat), stamp: Nat]

Covers(s, b) == b \in s.start..(s.start + Len(s.data) - 1)

\* A stripe answers for a block with the one written there.
Holds(s, b) == Covers(s, b) /\ s.data[b - s.start + 1] = b

Blocks(entries) ==
  UNION {e.start..(e.start + e.size - 1) : e \in ToSet(entries)}

\* One turn of the loop over the entries.  The overflow of a full batch is
\* kept without its address, and only one stripe is cut from an entry.
Cut(acc, e) ==
  LET start == IF acc.start = NoLba THEN e.start ELSE acc.start
      full == acc.data \o [i \in 1..e.size |-> e.start + i - 1] IN
  IF Len(full) >= StripeSize
    THEN [data |-> SubSeq(full, StripeSize + 1, Len(full)), start |-> NoLba,
          made |-> Append(acc.made, [start |-> start, data |-> SubSeq(full, 1, StripeSize)])]
    ELSE [acc EXCEPT !.data = full, !.start = start]

\* The stripes destage_volume makes of the entries of a request; what is left
\* in the batch becomes a partial stripe if its address is known.
Assembled(entries) ==
  LET after[n \in 0..Len(entries)] ==
        IF n = 0 THEN [data |-> <<>>, start |-> NoLba, made |-> <<>>]
        ELSE Cut(after[n - 1], entries[n])
      last == after[Len(entries)] IN
  IF last.data # <<>> /\ last.start # NoLba
    THEN Append(last.made, [start |-> last.start, data |-> last.data])
    ELSE last.made

\* Entries that continue each other and fill stripes without exceeding one.
Even(entries) ==
  /\ \A i \in 1..(Len(entries) - 1) : entries[i + 1].start = entries[i].start + entries[i].size
  /\ \A i \in 1..Len(entries) :
       LET offset == entries[i].start - entries[1].start IN
       (offset % StripeSize) + entries[i].size <= StripeSize

-----------------------------------------------------------------------------
(* VolumeEcState.                                                          *)

Empty == [x \in {} |-> 0]
NewState == [next_stripe_id |-> 0, lba_map |-> Empty, stripes |-> Empty]

\* HashMap::insert, and BTreeMap's.
insert(map, key, value) ==
  [x \in DOMAIN map \union {key} |-> IF x = key THEN value ELSE map[x]]

add_stripe(state, s) ==
  [next_stripe_id |-> state.next_stripe_id,
   lba_map |-> insert(state.lba_map, s.start, s.stripe_id),
   stripes |-> insert(state.stripes, s.stripe_id, s)]

\* The stripe with the largest start up to the address, if there is one.
find_stripe_for_lba(state, lba) ==
  LET starts == {a \in DOMAIN state.lba_map : a <= lba} IN
  IF starts = {} THEN {} ELSE {state.stripes[state.lba_map[Max(starts)]]}

recorded(v) == {volumes[v].stripes[i] : i \in DOMAIN volumes[v].stripes}

-----------------------------------------------------------------------------
(* The queue.                                                              *)

NoJob == [pc |-> "idle", num |-> NoRequest, todo |-> <<>>, errors |-> FALSE]

Looping == job.pc = "idle" /\ batch = <<>>

\* submit_request waits for room in the channel.
Submit(r) ==
  /\ Len(submitted) < MaxRequests
  /\ Len(channel) < ChannelCap
  /\ channel' = Append(channel, Len(submitted) + 1)
  /\ submitted' = Append(submitted, r)
  /\ outcome' = Append(outcome, "queued")
  /\ UNCHANGED <<dry_run, pending, batch, job, metadata, stamp, restarts>>

\* The loop's select: a request, or a tick of destage_interval.
Receive ==
  /\ Looping
  /\ channel # <<>>
  /\ pending' = Append(pending, Head(channel))
  /\ channel' = Tail(channel)
  /\ UNCHANGED <<dry_run, batch, job, metadata, history>>

\* Mutant: the batch is copied, not drained.
TickCopies ==
  /\ Looping
  /\ pending # <<>>
  /\ batch' = SubSeq(pending, 1, Min({Len(pending), BatchSize}))
  /\ UNCHANGED <<dry_run, channel, pending, job, metadata, history>>

\* process_pending_requests takes a batch off the queue.
Tick ==
  LET n == Min({Len(pending), BatchSize}) IN
  /\ Looping
  /\ pending # <<>>
  /\ batch' = SubSeq(pending, 1, n)
  /\ pending' = SubSeq(pending, n + 1, Len(pending))
  /\ UNCHANGED <<dry_run, channel, job, metadata, history>>

-----------------------------------------------------------------------------
(* destage_volume.                                                         *)

Conclude(num, result) ==
  /\ outcome' = [outcome EXCEPT ![num] = result]
  /\ UNCHANGED <<submitted, stamp, restarts>>

\* Mutant: a failed request goes to the head of the queue.
RequeueFirst(num) ==
  /\ pending' = <<num>> \o pending
  /\ UNCHANGED history

\* A request whose destaging returns an error is queued again.
Requeue(num) ==
  /\ pending' = Append(pending, num)
  /\ UNCHANGED history

\* A request without entries is done; one of an unknown volume fails.
Take ==
  /\ job.pc = "idle"
  /\ batch # <<>>
  /\ batch' = Tail(batch)
  /\ LET num == Head(batch)
         r == submitted[num] IN
     \/ /\ r.entries = <<>>
        /\ Conclude(num, "ok")
        /\ UNCHANGED <<pending, job>>
     \/ /\ r.entries # <<>>
        /\ r.vol \notin DOMAIN volumes
        /\ Requeue(num)
        /\ UNCHANGED job
     \/ /\ r.entries # <<>>
        /\ r.vol \in DOMAIN volumes
        /\ job' = [NoJob EXCEPT !.pc = "load_policy", !.num = num]
        /\ UNCHANGED <<pending, history>>
  /\ UNCHANGED <<dry_run, channel, metadata>>

\* The policy is cached or read; a dry run ends here.
LoadPolicy ==
  /\ job.pc = "load_policy"
  /\ cached' = TRUE
  /\ IF dry_run
       THEN job' = NoJob /\ Conclude(job.num, "dry_run")
       ELSE /\ job' = [job EXCEPT !.pc = "create_stripe",
                                  !.todo = Assembled(submitted[job.num].entries)]
            /\ UNCHANGED history
  /\ UNCHANGED <<dry_run, queues, volumes, objects>>

\* It cannot be read: the request fails.
LoadPolicyFails ==
  /\ job.pc = "load_policy"
  /\ ~cached
  /\ Requeue(job.num)
  /\ job' = NoJob
  /\ UNCHANGED <<dry_run, channel, batch, metadata>>

\* Mutant: the id is the number of addresses in the map.
CreateStripeCounts ==
  LET v == submitted[job.num].vol
      id == Cardinality(DOMAIN volumes[v].lba_map)
      s == [stripe_id |-> id, start |-> Head(job.todo).start,
            data |-> Head(job.todo).data, stamp |-> stamp] IN
  /\ job.pc = "create_stripe"
  /\ job.todo # <<>>
  /\ volumes' = [volumes EXCEPT ![v] = add_stripe([@ EXCEPT !.next_stripe_id = id + 1], s)]
  /\ stamp' = stamp + 1
  /\ job' = [job EXCEPT !.pc = "create_crd"]
  /\ UNCHANGED <<dry_run, queues, cached, objects, submitted, outcome, restarts>>

\* create_stripe, up to its await: the stripe gets an id and is recorded.
CreateStripe ==
  LET v == submitted[job.num].vol
      id == volumes[v].next_stripe_id
      s == [stripe_id |-> id, start |-> Head(job.todo).start,
            data |-> Head(job.todo).data, stamp |-> stamp] IN
  /\ job.pc = "create_stripe"
  /\ job.todo # <<>>
  /\ volumes' = [volumes EXCEPT ![v] = add_stripe([@ EXCEPT !.next_stripe_id = id + 1], s)]
  /\ stamp' = stamp + 1
  /\ job' = [job EXCEPT !.pc = "create_crd"]
  /\ UNCHANGED <<dry_run, queues, cached, objects, submitted, outcome, restarts>>

\* create_stripe_crd: an object's name is made of the volume and the stripe id,
\* so one that exists cannot be created again.
create_stripe_crd(v, s) ==
  /\ \A o \in objects[v] : o.stripe_id # s.stripe_id
  /\ objects' = [objects EXCEPT ![v] = @ \union {s}]

\* Mutant: the result is that of the last stripe.
PersistForgets ==
  LET v == submitted[job.num].vol
      s == volumes[v].stripes[volumes[v].next_stripe_id - 1] IN
  /\ job.pc = "create_crd"
  /\ \E failed \in BOOLEAN :
       /\ \/ create_stripe_crd(v, s)
          \/ failed /\ UNCHANGED objects
       /\ job' = [job EXCEPT !.pc = "create_stripe", !.todo = Tail(@), !.errors = failed]
  /\ UNCHANGED <<dry_run, queues, cached, volumes, history>>

\* The object of the stripe just recorded is created, with or without the
\* answer coming back, or not; an error is noted and the next stripe made.
Persist ==
  LET v == submitted[job.num].vol
      s == volumes[v].stripes[volumes[v].next_stripe_id - 1] IN
  /\ job.pc = "create_crd"
  /\ \E failed \in BOOLEAN :
       /\ \/ create_stripe_crd(v, s)
          \/ failed /\ UNCHANGED objects
       /\ job' = [job EXCEPT !.pc = "create_stripe", !.todo = Tail(@), !.errors = @ \/ failed]
  /\ UNCHANGED <<dry_run, queues, cached, volumes, history>>

\* All stripes were tried: the request is done, errors or not.
Finish ==
  /\ job.pc = "create_stripe"
  /\ job.todo = <<>>
  /\ Conclude(job.num, IF job.errors THEN "errors" ELSE "ok")
  /\ job' = NoJob
  /\ UNCHANGED <<dry_run, queues, metadata>>

Destage ==
  \/ Take \/ LoadPolicy \/ LoadPolicyFails \/ CreateStripe \/ Persist \/ Finish

-----------------------------------------------------------------------------
(* sync_from_crds, by which a volume becomes known; its caller is external.*)

\* load_volume_stripes lists no other object that starts at the same address after s.
ListedLast(s, stripes) ==
  \A t \in stripes : t.start = s.start => ~ListedBefore(s.stripe_id, t.stripe_id)

\* The objects of a volume are listed in the order of their names and added one by one:
\* each is found under its id, and of several that start at one address the last one listed
\* stays in the map.  next_stripe_id keeps its value.  Nothing makes stripes of a volume that
\* is not known yet, so the list is still true when it is recorded: listing and recording
\* are one step.
sync_from_crds(v) ==
  LET ids == {o.stripe_id : o \in objects[v]}
      starts == {o.start : o \in objects[v]}
  IN  /\ v \notin DOMAIN volumes
      /\ \E lba_map \in [starts -> ids], stripes \in [ids -> objects[v]] :
           /\ \A i \in ids : stripes[i].stripe_id = i
           /\ \A a \in starts :
                stripes[lba_map[a]].start = a /\ ListedLast(stripes[lba_map[a]], objects[v])
           /\ volumes' = insert(volumes, v, [next_stripe_id |-> NewState.next_stripe_id,
                                             lba_map |-> lba_map, stripes |-> stripes])
      /\ UNCHANGED <<dry_run, queues, job, cached, objects, history>>

-----------------------------------------------------------------------------
Init ==
  /\ dry_run \in DryRuns
  /\ channel = <<>> /\ pending = <<>> /\ batch = <<>>
  /\ job = NoJob
  /\ cached = FALSE
  /\ volumes = Empty
  /\ objects = [v \in Volumes |-> {}]
  /\ submitted = <<>> /\ outcome = <<>> /\ stamp = 0 /\ restarts = 0

\* The operator is started again: queues and memory are gone.
Restart ==
  /\ restarts < MaxRestarts
  /\ restarts' = restarts + 1
  /\ channel' = <<>> /\ pending' = <<>> /\ batch' = <<>>
  /\ job' = NoJob
  /\ cached' = FALSE
  /\ volumes' = Empty
  /\ outcome' = [n \in DOMAIN outcome |->
                   IF outcome[n] = "queued" THEN "dropped" ELSE outcome[n]]
  /\ UNCHANGED <<dry_run, objects, submitted, stamp>>

Next ==
  \/ \E r \in Requests : Submit(r)
  \/ Receive \/ Tick \/ Destage
  \/ \E v \in Volumes : sync_from_crds(v)
  \/ Restart

Spec == Init /\ [][Next]_vars

\* The loop goes on; select chooses at random among what is ready, so neither
\* side is passed over for ever; the API server answers in the end.
FairSpec ==
  /\ Spec
  /\ WF_vars(Destage) /\ SF_vars(LoadPolicy)
  /\ SF_vars(Receive) /\ SF_vars(Tick)

-----------------------------------------------------------------------------
(* Properties.                                                             *)

Outcomes == {"queued", "ok", "errors", "dry_run", "dropped"}

\* Queues hold numbers of requests, a job one with a stripe to make, and the
\* map of addresses of a volume leads to stripes that start there or did.
TypeOK ==
  /\ submitted \in Seq(Requests)
  /\ outcome \in Seq(Outcomes) /\ Len(outcome) = Len(submitted)
  /\ \A q \in {channel, pending, batch} : q \in Seq(DOMAIN submitted)
  /\ Len(channel) <= ChannelCap /\ Len(batch) <= BatchSize
  /\ job.pc \in {"idle", "load_policy", "create_stripe", "create_crd"}
  /\ job.pc = "idle" <=> job.num = NoRequest
  /\ job.pc = "create_crd" => job.todo # <<>>
  /\ job.num # NoRequest => submitted[job.num].vol \in DOMAIN volumes
  /\ \A v \in DOMAIN volumes :
       /\ v \in Volumes
       /\ volumes[v].next_stripe_id \in 0..stamp
       /\ \A a \in DOMAIN volumes[v].lba_map :
            volumes[v].lba_map[a] \in DOMAIN volumes[v].stripes
       /\ \A i \in DOMAIN volumes[v].stripes :
            volumes[v].stripes[i] \in Stripe /\ volumes[v].stripes[i].stripe_id = i
  /\ \A v \in Volumes : objects[v] \subseteq Stripe

\* Every request that has no outcome is in one place: it is neither lost
\* between the channel, the queue and the batch nor destaged twice.
RequestsAreKept ==
  LET held == channel \o pending \o batch
              \o (IF job.num = NoRequest THEN <<>> ELSE <<job.num>>) IN
  /\ IsInjective(held)
  /\ ToSet(held) = {n \in DOMAIN outcome : outcome[n] = "queued"}

\* "Unique stripe ID within the volume": no two stripes of a volume, recorded
\* in memory or as objects, share an id.
IdsAreUniqueIn(v) ==
  \A s, t \in objects[v] \union (IF v \in DOMAIN volumes THEN recorded(v) ELSE {}) :
    s.stripe_id = t.stripe_id => s = t

StripeIdsAreUnique == \A v \in Volumes : IdsAreUniqueIn(v)

\* Until the operator is restarted it never gives an id twice.
IdsAreUniqueUntilRestart == restarts = 0 => StripeIdsAreUnique

\* A request that ends without an error is persisted, each block where the map
\* says it is, and stays so through restarts and whatever reuses of ids: for
\* requests whose entries fill stripes without exceeding them.
DestagedIsPersisted ==
  \A n \in DOMAIN outcome :
    outcome[n] = "ok" /\ Even(submitted[n].entries) =>
      \A b \in Blocks(submitted[n].entries) :
        \E s \in objects[submitted[n].vol] : Holds(s, b)

\* Of the objects of a volume that start at one address the newest is listed last.
ListedByAge(v) ==
  \A s, t \in objects[v] :
    s.start = t.start /\ s.stamp < t.stamp => ListedBefore(s.stripe_id, t.stripe_id)

\* As long as ids are unique, names sorted by age and the stripes of a volume cut on one
\* grid, a lookup finds the newest stripe with the block: after rewrites, and after
\* restarts from the objects.
LookupFindsNewest ==
  \A v \in DOMAIN volumes :
    /\ IdsAreUniqueIn(v)
    /\ ListedByAge(v)
    /\ \A s, t \in recorded(v) :
         \/ s.start = t.start /\ Len(s.data) = Len(t.data)
         \/ \A i \in 1..Len(s.data) : ~Covers(t, s.start + i - 1)
    => \A s \in recorded(v) : \A i \in 1..Len(s.data) :
         LET b == s.start + i - 1 IN
         \E f \in find_stripe_for_lba(volumes[v], b) :
           Covers(f, b) /\ f.stamp >= s.stamp

Queued(n) == n \in DOMAIN outcome /\ outcome[n] = "queued"

\* A request of a known volume is done in the end, however many requests of
\* unknown volumes are tried again and again in front of it.
RequestsAreServed ==
  \A n \in 1..MaxRequests :
    (Queued(n) /\ submitted[n].vol \in DOMAIN volumes) ~> ~Queued(n)

\* The metadata of a volume leads to its stripes: under ids of their own, and for each
\* address to the newest one.
StripesAreFound == TypeOK /\ IdsAreUniqueUntilRestart /\ LookupFindsNewest
=============================================================================
