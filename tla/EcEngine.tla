------------------------------- MODULE EcEngine --------------------------------
(***************************************************************************)
(* The storage engine that encodes stripes and spreads their shards over   *)
(* block devices (src/spdk/ec_engine.rs), with the stripe processor and    *)
(* its buffer pools (src/spdk/stripe_processor.rs), the codec              *)
(* (src/spdk/isal_codec.rs) and the devices (BlockDevice).                 *)
(*                                                                         *)
(* Tasks create, delete, write, read and check volumes.  A step ends where *)
(* the code awaits, and between the steps of the devices.  A shard is      *)
(* known by the volume, the stripe and the index it was encoded for; a     *)
(* volume that is created again under its name is another volume state.    *)
(***************************************************************************)
EXTENDS BlockDevice, FiniteSetsExt

CONSTANTS
  Names,         \* names of volumes
  DeviceLists,   \* lists of devices callers create volumes with
  K, M,          \* data_shards and parity_shards
  MaxConcurrent, \* max_concurrent_ops
  PoolSize,      \* buffer_pool_size: 64 in the code
  MockCodec,     \* the build has no ISA-L library
  MaxCalls,      \* bound: calls of tasks that take several steps
  MaxChanges     \* bound: deletions, and changes of devices

ShardIndices == 1..(K + M)
StripeIds == 1..MaxCalls

ASSUME EcEngineAssumption ==
  /\ K \in Nat \ {0} /\ M \in Nat \ {0} /\ K + M <= 255
  /\ PoolSize \in Nat \ {0} /\ MaxConcurrent \in Nat \ {0}
  /\ \A l \in DeviceLists : l \in Seq(Devices)
  /\ MockCodec \in BOOLEAN /\ MaxCalls \in Nat /\ MaxChanges \in Nat
  /\ StripeIds \subseteq Offsets
  /\ Zeros \notin Nat \X Nat \X Nat

VARIABLES
  volumes,  \* every VolumeState made, also those that were deleted
  named,    \* EcStorageEngine::volumes: the index of the state of each name
  calls,    \* the calls in progress
  permits,  \* semaphore
  pools,    \* data_pool and parity_pool: buffers free, made, and dropped when full
  history   \* what the properties remember, and the counters the bounds use

vars == <<bdevVars, volumes, named, calls, permits, pools, history>>

-----------------------------------------------------------------------------
(* Buffers.                                                                *)

Pool(n) == [free |-> n * Min({MaxConcurrent, PoolSize \div n}),
            made |-> n * Min({MaxConcurrent, PoolSize \div n}),
            over |-> 0, cap |-> PoolSize * n]

\* get, n times: a pool that is empty makes new buffers.
Take(pool, n) ==
  [pool EXCEPT !.free = Max({0, @ - n}), !.made = @ + Max({0, n - pool.free})]

\* put, n times: what the pool has no room for is dropped.
Put(pool, n) ==
  [pool EXCEPT !.free = Min({pool.cap, @ + n}), !.over = @ + Max({0, pool.free + n - pool.cap})]

\* Mutant: every shard goes back to the data pool.
PutsInOne == [data |-> Put(pools.data, K + M), parity |-> pools.parity]

TakeShards == [data |-> Take(pools.data, K), parity |-> Take(pools.parity, M)]
release_shards == [data |-> Put(pools.data, K), parity |-> Put(pools.parity, M)]

-----------------------------------------------------------------------------
(* Stripes, shards and the codec.                                          *)

Shard(v, s, i) == <<v, s, i>>
Stripe(v, s) == [i \in 1..K |-> Shard(v, s, i)]
\* What a codec makes of shards that are not of one stripe.
Garbage == <<0, 0, 0>>

device_for_shard(v, i) == volumes[v].devices[((i - 1) % Len(volumes[v].devices)) + 1]

\* The codec recovers erased shards from K others, which agree if they were
\* encoded together; without the library it only clears them.
reconstruct(shards, erased, i) ==
  IF MockCodec THEN Zeros
  ELSE LET seen == {shards[j] : j \in ShardIndices \ erased} IN
       IF \A a, b \in seen : a # Zeros /\ b # Zeros /\ a[1] = b[1] /\ a[2] = b[2]
         THEN LET a == CHOOSE a \in seen : TRUE IN Shard(a[1], a[2], i)
         ELSE Garbage

decode(shards, erased) ==
  [i \in 1..K |-> IF i \in erased THEN reconstruct(shards, erased, i) ELSE shards[i]]

\* Mutant: as many shards as there are data shards do not suffice.
StatusStrict(healthy) ==
  CASE healthy = K + M -> "Healthy"
    [] healthy \in (K + 1)..(K + M - 1) -> "Degraded"
    [] OTHER -> "Critical"

\* status and can_reconstruct of a stripe that has this many shards that answer
Status(healthy) ==
  CASE healthy = K + M -> "Healthy"
    [] healthy \in K..(K + M - 1) -> "Degraded"
    [] OTHER -> "Critical"

-----------------------------------------------------------------------------
(* Calls.                                                                  *)

NoCall == [op |-> "none", name |-> "", vol |-> 0, stripe |-> 0, devices |-> << >>,
           next |-> 1, shards |-> << >>, erased |-> {}, todo |-> {}, worst |-> "Healthy"]

Is(c, op) == calls[c].op = op
Becomes(c, call) == calls' = [calls EXCEPT ![c] = call]

Begins(c, call) ==
  /\ calls[c] = NoCall /\ history.calls < MaxCalls
  /\ Becomes(c, call)
  /\ history' = [history EXCEPT !.calls = @ + 1]
  /\ UNCHANGED <<bdevVars, volumes, permits, pools>>

\* The next shard of the call is read or written.
ShardIo(c, call, v, i) ==
  /\ Becomes(c, [call EXCEPT !.next = i])
  /\ io' = [io EXCEPT ![c] = Starts(device_for_shard(v, i))]
  /\ UNCHANGED <<devices, handles, stores, faulty>>

Ends(c) ==
  /\ Becomes(c, NoCall)
  /\ io' = [io EXCEPT ![c] = NoIo]

\* create_volume: the name is looked up, and the state stored under another lock.
BeginCreate(c) ==
  \E n \in Names \ DOMAIN named, l \in DeviceLists :
    /\ Len(l) >= K + M
    /\ Begins(c, [NoCall EXCEPT !.op = "create", !.name = n, !.devices = l])
    /\ UNCHANGED named

\* A state stored under the name meanwhile is replaced, and its stripes are gone.
StoreVolume(c) ==
  LET n == calls[c].name IN
  /\ Is(c, "create")
  /\ volumes' = Append(volumes, [devices |-> calls[c].devices, next |-> 1, stripes |-> {}])
  /\ named' = Inserted(named, n, Len(volumes) + 1)
  /\ Becomes(c, NoCall)
  /\ history' = [history EXCEPT !.gone =
       IF n \in DOMAIN named THEN @ \union {named[n]} ELSE @]
  /\ UNCHANGED <<bdevVars, permits, pools>>

\* write: the volume is looked up before the permit is there.
BeginWrite(c) ==
  \E n \in DOMAIN named :
    /\ Begins(c, [NoCall EXCEPT !.op = "encode", !.vol = named[n]])
    /\ UNCHANGED named

\* Encodes, and begins with the first shard.  The processor has as many permits
\* as the engine, which makes its own never wait.
Encode(c) ==
  LET v == calls[c].vol IN
  /\ Is(c, "encode") /\ permits > 0
  /\ permits' = permits - 1
  /\ pools' = TakeShards
  /\ volumes' = [volumes EXCEPT ![v].next = @ + 1]
  /\ ShardIo(c, [calls[c] EXCEPT !.op = "write", !.stripe = volumes[v].next], v, 1)
  /\ UNCHANGED <<named, history>>

\* Mutant: a shard that cannot be written is passed over.
WriteGoesOn(c) ==
  LET call == calls[c] IN
  /\ Is(c, "write") /\ Done(c) /\ ~Succeeds(c, call.stripe)
  /\ IF call.next < K + M THEN ShardIo(c, call, call.vol, call.next + 1)
     ELSE /\ Becomes(c, [call EXCEPT !.op = "store"])
          /\ io' = [io EXCEPT ![c] = NoIo] /\ UNCHANGED <<devices, handles, stores, faulty>>
  /\ UNCHANGED <<volumes, named, permits, pools, history>>

\* The first error ends the call: shards written so far stay, and the buffers
\* are dropped.
WriteFails(c) ==
  /\ Is(c, "write") /\ Done(c) /\ ~Succeeds(c, calls[c].stripe)
  /\ permits' = permits + 1
  /\ history' = [history EXCEPT !.dropped = @ + 1]
  /\ Ends(c)
  /\ UNCHANGED <<devices, handles, stores, faulty, volumes, named, pools>>

WriteShard(c) ==
  LET call == calls[c] IN
  /\ Is(c, "write") /\ Done(c) /\ Succeeds(c, call.stripe)
  /\ stores' = Written(c, call.stripe, Shard(call.vol, call.stripe, call.next))
  /\ IF call.next < K + M
       THEN /\ Becomes(c, [call EXCEPT !.next = @ + 1])
            /\ io' = [io EXCEPT ![c] = Starts(device_for_shard(call.vol, call.next + 1))]
       ELSE /\ Becomes(c, [call EXCEPT !.op = "store"])
            /\ io' = [io EXCEPT ![c] = NoIo]
  /\ UNCHANGED <<devices, handles, faulty, volumes, named, permits, pools, history>>

\* The metadata goes into the state of the volume, deleted or not.
StoreMetadata(c) ==
  LET call == calls[c] IN
  /\ Is(c, "store")
  /\ volumes' = [volumes EXCEPT ![call.vol].stripes = @ \union {call.stripe}]
  /\ pools' = release_shards
  /\ permits' = permits + 1
  /\ Becomes(c, NoCall)
  /\ UNCHANGED <<bdevVars, named, history>>

\* read: the metadata is cloned before the permit is there.
BeginRead(c) ==
  \E n \in DOMAIN named : \E s \in volumes[named[n]].stripes :
    /\ Begins(c, [NoCall EXCEPT !.op = "locate", !.vol = named[n], !.stripe = s])
    /\ UNCHANGED named

Locate(c) ==
  /\ Is(c, "locate") /\ permits > 0
  /\ permits' = permits - 1
  /\ ShardIo(c, [calls[c] EXCEPT !.op = "read"], calls[c].vol, 1)
  /\ UNCHANGED <<volumes, named, pools, history>>

\* A shard that cannot be read is taken to be erased.
Fetched(c, call) ==
  IF Succeeds(c, call.stripe)
    THEN [call EXCEPT !.shards = Append(@, Content(c, call.stripe))]
    ELSE [call EXCEPT !.shards = Append(@, Zeros), !.erased = @ \union {call.next}]

ReadShard(c) ==
  LET call == Fetched(c, calls[c]) IN
  /\ Is(c, "read") /\ Done(c)
  /\ IF call.next < K + M
       THEN /\ Becomes(c, [call EXCEPT !.next = @ + 1])
            /\ io' = [io EXCEPT ![c] = Starts(device_for_shard(call.vol, call.next + 1))]
       ELSE /\ Becomes(c, [call EXCEPT !.op = "decode"])
            /\ io' = [io EXCEPT ![c] = NoIo]
  /\ UNCHANGED <<devices, handles, stores, faulty, volumes, named, permits, pools, history>>

\* Too many erasures are an error; the checksum is not compared.
Decode(c) ==
  /\ Is(c, "decode")
  /\ permits' = permits + 1
  /\ Becomes(c, NoCall)
  /\ UNCHANGED <<bdevVars, volumes, named, pools, history>>

\* get_volume_health: the ids of the stripes are copied.
BeginHealth(c) ==
  \E n \in DOMAIN named :
    /\ Begins(c, [NoCall EXCEPT !.op = "health", !.name = n,
                    !.todo = volumes[named[n]].stripes])
    /\ UNCHANGED named

\* check_stripe_health looks the volume and the stripe up again; one that is
\* gone counts as critical.
BeginStripe(c) ==
  \E s \in calls[c].todo :
    LET n == calls[c].name
        call == [calls[c] EXCEPT !.todo = @ \ {s}, !.erased = {}]
    IN
    /\ Is(c, "health")
    /\ IF n \in DOMAIN named /\ s \in volumes[named[n]].stripes
         THEN ShardIo(c, [call EXCEPT !.op = "check", !.vol = named[n], !.stripe = s],
                      named[n], 1)
         ELSE /\ Becomes(c, [call EXCEPT !.worst = "Critical"])
              /\ UNCHANGED bdevVars
    /\ UNCHANGED <<volumes, named, permits, pools, history>>

Worse(a, b) ==
  IF "Critical" \in {a, b} THEN "Critical"
  ELSE IF "Degraded" \in {a, b} THEN "Degraded" ELSE "Healthy"

CheckShard(c) ==
  LET call == IF Succeeds(c, calls[c].stripe) THEN calls[c]
              ELSE [calls[c] EXCEPT !.erased = @ \union {calls[c].next}]
  IN
  /\ Is(c, "check") /\ Done(c)
  /\ IF call.next < K + M
       THEN /\ Becomes(c, [call EXCEPT !.next = @ + 1])
            /\ io' = [io EXCEPT ![c] = Starts(device_for_shard(call.vol, call.next + 1))]
       ELSE /\ Becomes(c, [call EXCEPT !.op = "health", !.next = 1, !.worst =
                           Worse(@, Status(K + M - Cardinality(call.erased)))])
            /\ io' = [io EXCEPT ![c] = NoIo]
  /\ UNCHANGED <<devices, handles, stores, faulty, volumes, named, permits, pools, history>>

Report(c) ==
  /\ Is(c, "health") /\ calls[c].todo = {}
  /\ Becomes(c, NoCall)
  /\ UNCHANGED <<bdevVars, volumes, named, permits, pools, history>>

-----------------------------------------------------------------------------
(* Changes that take one step.                                             *)

Changes == history.changes < MaxChanges

DeleteVolume ==
  /\ Changes
  /\ \E n \in DOMAIN named :
       /\ named' = Restrict(named, DOMAIN named \ {n})
       /\ history' = [history EXCEPT !.changes = @ + 1,
                        !.gone = @ \union {named[n]}]
  /\ UNCHANGED <<bdevVars, volumes, calls, permits, pools>>

\* Only the metadata goes; the shards stay on the devices.
Delete ==
  /\ Changes
  /\ \E n \in DOMAIN named : \E s \in volumes[named[n]].stripes :
       /\ volumes' = [volumes EXCEPT ![named[n]].stripes = @ \ {s}]
       /\ history' = [history EXCEPT !.changes = @ + 1, !.gone = @ \union {named[n]}]
  /\ UNCHANGED <<bdevVars, named, calls, permits, pools>>

\* verify encodes into parity buffers; on a mismatch it does not return them.
Verify ==
  /\ Changes
  /\ \E same \in BOOLEAN :
       LET taken == Take(pools.parity, M) IN
       /\ pools' = [pools EXCEPT !.parity = IF same THEN Put(taken, M) ELSE taken]
       /\ history' = [history EXCEPT !.changes = @ + 1, !.mismatches = @ + IF same THEN 0 ELSE 1]
  /\ UNCHANGED <<bdevVars, volumes, named, calls, permits>>

DeviceChange ==
  /\ Changes
  /\ \/ \E d \in Devices : Register(d) /\ history' = [history EXCEPT !.changes = @ + 1,
          !.reregistered = IF d \in DOMAIN handles THEN @ \union {d} ELSE @]
     \/ /\ \/ CloseAll
           \/ \E d \in Devices : Close(d)
        /\ history' = [history EXCEPT !.changes = @ + 1,
             !.crossed = @ \union {io[c].device : c \in {c \in Callers : io[c].at = "mark"}}]
     \/ \E d \in Devices : Fault(d) /\ history' = [history EXCEPT !.changes = @ + 1,
          !.failed = @ \union {d}]
     \/ \E d \in Devices : Repair(d) /\ history' = [history EXCEPT !.changes = @ + 1]
  /\ UNCHANGED <<volumes, named, calls, permits, pools>>

-----------------------------------------------------------------------------
Init ==
  /\ BdevInit
  /\ volumes = << >>
  /\ named = << >>
  /\ calls = [c \in Callers |-> NoCall]
  /\ permits = MaxConcurrent
  /\ pools = [data |-> Pool(K), parity |-> Pool(M)]
  /\ history = [calls |-> 0, changes |-> 0, dropped |-> 0, mismatches |-> 0,
                gone |-> {}, failed |-> {}, reregistered |-> {}, crossed |-> {}]

OpenDevice(c) == Open(c) /\ UNCHANGED <<volumes, named, calls, permits, pools, history>>

Call(c) ==
  \/ OpenDevice(c)
  \/ BeginCreate(c) \/ StoreVolume(c)
  \/ BeginWrite(c) \/ Encode(c) \/ WriteFails(c) \/ WriteShard(c) \/ StoreMetadata(c)
  \/ BeginRead(c) \/ Locate(c) \/ ReadShard(c) \/ Decode(c)
  \/ BeginHealth(c) \/ BeginStripe(c) \/ CheckShard(c) \/ Report(c)

Next ==
  \/ \E c \in Callers : Call(c)
  \/ DeleteVolume \/ Delete \/ Verify \/ DeviceChange

Spec == Init /\ [][Next]_vars

-----------------------------------------------------------------------------
(* Properties.                                                             *)

\* Types of the engine's state, and of the devices below it.
EngineTypeOK ==
  /\ BdevTypeOK
  /\ \A n \in DOMAIN named : n \in Names /\ named[n] \in 1..Len(volumes)
  /\ \A v \in 1..Len(volumes) : volumes[v].stripes \subseteq 1..(volumes[v].next - 1)
  /\ permits \in 0..MaxConcurrent
  /\ \A p \in {pools.data, pools.parity} : p.free \in 0..p.cap

\* Two volume states write to one place: they have a device in common and both
\* have given out the id.  This includes a volume that was created again.
Collides(v, s) ==
  \E w \in 1..Len(volumes) \ {v} :
    /\ volumes[w].next > s
    /\ Range(volumes[w].devices) \intersect Range(volumes[v].devices) # {}

\* A device of the volume was opened more than once, or closed: what the handles
\* hold is not all that was written.
Split(v) ==
  \E h \in HandleIds : LET d == stores[h].device IN
    /\ d \in Range(volumes[v].devices)
    /\ d \notin DOMAIN handles \/ handles[d] # h

\* Nothing happened to the stripe that the engine does not notice.
Sound(v, s) == ~Collides(v, s) /\ ~Split(v) /\ IsInjective(volumes[v].devices)

\* Every stripe in the metadata has all of its shards on the devices, whatever
\* failed, was deleted or ran at the same time: write stores metadata last.
StripesAreWhole ==
  \A v \in 1..Len(volumes) : \A s \in volumes[v].stripes : Sound(v, s) =>
    \A i \in ShardIndices : LET d == device_for_shard(v, i) IN
      d \in DOMAIN handles /\ stores[handles[d]].blocks[s] = Shard(v, s, i)

\* A read returns what was written under the id although devices fail and come
\* back while its shards are read, and reconstructs with shards of the stripe.
ReadsReturnWrites ==
  \A c \in Callers : LET call == calls[c] IN
    /\ call.op = "decode" /\ Cardinality(call.erased) <= M
    /\ Sound(call.vol, call.stripe) /\ (call.erased # {} => ~MockCodec)
    => decode(call.shards, call.erased) = Stripe(call.vol, call.stripe)

\* As long as no more than M devices have failed, every read has enough shards
\* and no stripe is reported critical, unless stripes were deleted or their volume
\* replaced by one that was created at the same time.
ToleratesFaults ==
  Cardinality(history.failed) <= M =>
    \A c \in Callers :
      /\ Is(c, "decode") /\ IsInjective(volumes[calls[c].vol].devices)
           => Cardinality(calls[c].erased) <= M
      /\ Is(c, "health") /\ calls[c].worst = "Critical"
           => history.gone # {} \/ \E l \in DeviceLists : ~IsInjective(l)

\* Buffers are lost only where the code drops them: a write that fails drops
\* those of its stripe, a verification that finds a mismatch its parity, and a
\* pool that is full what is put into it.
BuffersAreReturned ==
  LET writing == Cardinality({c \in Callers : calls[c].op \in {"write", "store"}}) IN
  \A p \in {[pool |-> pools.data, out |-> K * (writing + history.dropped)],
            [pool |-> pools.parity, out |-> M * (writing + history.dropped + history.mismatches)]} :
    p.pool.free + p.out + p.pool.over = p.pool.made

\* list_devices shows a device as open exactly when there is a handle for it,
\* but for a device registered again and one closed while it was being opened.
OpenDevicesAreMarked ==
  \A d \in DOMAIN devices :
    \/ \E c \in Callers : io[c].at = "mark" /\ io[c].device = d
    \/ d \in history.reregistered \union history.crossed
    \/ devices[d] = (d \in DOMAIN handles)

\* What was acknowledged is on the devices and is what a read returns.
WritesAreSafe == EngineTypeOK /\ StripesAreWhole /\ ReadsReturnWrites

\* The engine keeps track of what it holds: buffers of its pools and open devices.
ResourcesAreTracked == BuffersAreReturned /\ OpenDevicesAreMarked
=============================================================================
