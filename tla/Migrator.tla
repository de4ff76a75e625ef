------------------------------ MODULE Migrator ------------------------------
(***************************************************************************)
(* The migrator of the operator (src/migrator/engine.rs) together with the *)
(* part of the Mayastor control plane it drives through the Kubernetes API.*)
(*                                                                         *)
(* A caller is one sequential task that calls the migrator: in the operator*)
(* the reconciliation of one StoragePolicy.  The three entry points        *)
(* migrate_volume, migrate_to_ec and migrate_from_ec are the kinds of a    *)
(* call.  One action stands for the code between two awaits, or between    *)
(* two accesses to active_migrations: those are the points where the tasks *)
(* of the multi-threaded runtime interleave.                               *)
(*                                                                         *)
(* Mayastor is external.  It adds a missing replica on the pool the        *)
(* topology names, synchronises it from a synced one, and removes surplus  *)
(* replicas, but never the one on the pool the topology names: this is     *)
(* what the migrator counts on when it lowers numReplicas "to remove the   *)
(* replica from the source pool" without naming that replica.              *)
(***************************************************************************)
EXTENDS Naturals, FiniteSets

CONSTANTS
  Callers,           \* tasks that call the migrator
  Volumes,           \* MayastorVolume objects
  Pools,             \* DiskPool objects
  MaySelect,         \* MaySelect[c]: the volumes caller c works on
  Kinds,             \* the entry points the callers use
  Configs,           \* the configurations the operator may be started with
  FaultyVolumes,     \* volumes whose replicas may fault
  NoPool,            \* no topology constraint, no target
  NoVolume           \* no call in progress

AllKinds == {"replicate", "to_ec", "from_ec"}

ASSUME MigratorAssumption ==
  /\ IsFiniteSet(Pools)
  /\ MaySelect \in [Callers -> SUBSET Volumes]
  /\ Kinds \subseteq AllKinds
  /\ Configs \subseteq [dry_run: BOOLEAN, preservation_mode: BOOLEAN]
  /\ FaultyVolumes \subseteq Volumes
  /\ NoPool \notin Pools
  /\ NoVolume \notin Volumes

VARIABLES
  config,       \* MigratorConfig, from the command line
  numReplicas,  \* spec.numReplicas of each volume
  topology,     \* the pool spec.topology includes
  replica,      \* status.replicas: the state of each volume's replica on a pool
  original,     \* history: numReplicas before the operator touched it, 0 after a fault
  active,       \* keys of active_migrations
  mig           \* the call each caller is in

cluster == <<config, numReplicas, topology, replica, original>>
vars == <<cluster, active, mig>>

-----------------------------------------------------------------------------
(* Cluster state.                                                          *)

ReplicaStates == {"absent", "rebuilding", "synced", "faulted"}

\* ReplicaStatus::is_synced: online and synced
is_synced(state) == state = "synced"

\* MayastorVolume::replicas
replicas(v) == {p \in Pools : replica[v][p] # "absent"}
Synced(v) == {p \in Pools : replica[v][p] = "synced"}

-----------------------------------------------------------------------------
(* State of a call.                                                        *)

Pcs == {"idle", "get_volume", "register", "analyze", "count", "scale_up",
        "wait_sync", "scale_down", "cleanup", "done"}

Idle == [pc |-> "idle", kind |-> "replicate", vol |-> NoVolume,
         target |-> NoPool, unchecked |-> {}, initial |-> 0, ok |-> FALSE]

Calls == [pc: Pcs, kind: AllKinds, vol: Volumes \union {NoVolume},
          target: Pools \union {NoPool}, unchecked: SUBSET Pools,
          initial: Nat, ok: BOOLEAN]

TypeOK ==
  /\ config \in Configs
  /\ numReplicas \in [Volumes -> Nat]
  /\ topology \in [Volumes -> Pools \union {NoPool}]
  /\ replica \in [Volumes -> [Pools -> ReplicaStates]]
  /\ original \in [Volumes -> Nat]
  /\ active \subseteq Volumes
  /\ mig \in [Callers -> Calls]

Goto(c, pc) == mig' = [mig EXCEPT ![c].pc = pc]
Finish(c, pc, ok) == mig' = [mig EXCEPT ![c].pc = pc, ![c].ok = ok]

At(c, pc) == mig[c].pc = pc

-----------------------------------------------------------------------------
(* The calls.                                                              *)

\* is_migrating and the early return of every entry point
is_migrating(v) == v \in active

\* The migrator refuses a volume that is registered.
Refuse(c, kind, v) ==
  /\ At(c, "idle")
  /\ is_migrating(v)
  /\ mig' = [mig EXCEPT ![c] = [Idle EXCEPT !.pc = "done", !.kind = kind, !.vol = v]]
  /\ UNCHANGED <<cluster, active>>

\* It goes on with one that is not; migrate_from_ec registers at once, the
\* others first await the volume.  migrate_to_ec checks a list of pools.
Accept(c, kind, v, target, targets) ==
  /\ At(c, "idle")
  /\ ~is_migrating(v)
  /\ mig' = [mig EXCEPT ![c] =
       [Idle EXCEPT !.pc = IF kind = "from_ec" THEN "register" ELSE "get_volume",
                    !.kind = kind, !.vol = v, !.target = target,
                    !.unchecked = targets]]
  /\ UNCHANGED <<cluster, active>>

Call(c) ==
  \E kind \in Kinds, v \in MaySelect[c] :
    \/ Refuse(c, kind, v)
    \/ kind # "to_ec" /\ \E p \in Pools : Accept(c, kind, v, p, {p})
    \/ kind = "to_ec" /\ \E P \in (SUBSET Pools) \ {{}} : Accept(c, kind, v, NoPool, P)

\* The volume cannot be read, or lists no replica.
GetVolumeFails(c) ==
  /\ At(c, "get_volume")
  /\ Finish(c, "done", FALSE)
  /\ UNCHANGED <<cluster, active>>

\* The first replica listed is the source; the order of the list is Mayastor's.
GetVolume(c) ==
  LET v == mig[c].vol IN
  /\ At(c, "get_volume")
  /\ \E source \in replicas(v) :
       IF mig[c].kind = "replicate" /\ source = mig[c].target
         THEN Finish(c, "done", TRUE)
         ELSE Goto(c, "register")
  /\ UNCHANGED <<cluster, active>>

\* DashMap::insert, which replaces the entry of an earlier call.
Register(c) ==
  /\ At(c, "register")
  /\ active' = active \union {mig[c].vol}
  /\ Goto(c, "analyze")
  /\ UNCHANGED cluster

\* Mutant: a bad pool returns past the call to remove.
CheckPoolLeaks(c) ==
  /\ At(c, "analyze")
  /\ mig[c].kind = "replicate"
  /\ \/ Goto(c, "count")
     \/ Finish(c, "done", FALSE)
  /\ UNCHANGED <<cluster, active>>

\* The target pool of migrate_volume is online, missing or offline.
CheckPool(c) ==
  /\ At(c, "analyze")
  /\ mig[c].kind = "replicate"
  /\ \/ Goto(c, "count")
     \/ Finish(c, "cleanup", FALSE)
  /\ UNCHANGED <<cluster, active>>

\* The erasure coding calls stop after registration in a dry run.
EcDryRun(c) ==
  /\ At(c, "analyze")
  /\ mig[c].kind # "replicate"
  /\ config.dry_run
  /\ Finish(c, "done", TRUE)
  /\ active' = active \ {mig[c].vol}
  /\ UNCHANGED cluster

\* They check their pools one by one; encoding, distribution and the creation
\* of replicas are simulated, so the call completes with the last pool.
EcCheckPool(c) ==
  /\ At(c, "analyze")
  /\ mig[c].kind # "replicate"
  /\ ~config.dry_run
  /\ \E p \in mig[c].unchecked :
       IF mig[c].unchecked = {p}
         THEN /\ Finish(c, "done", TRUE)
              /\ active' = active \ {mig[c].vol}
         ELSE /\ mig' = [mig EXCEPT ![c].unchecked = @ \ {p}]
              /\ UNCHANGED active
  /\ UNCHANGED cluster

\* A pool is offline: the volume is unregistered.
EcPoolOffline(c) ==
  /\ At(c, "analyze")
  /\ mig[c].kind # "replicate"
  /\ ~config.dry_run
  /\ Finish(c, "done", FALSE)
  /\ active' = active \ {mig[c].vol}
  /\ UNCHANGED cluster

\* A pool cannot be read: the `?` returns past the call to remove.
EcPoolGetFails(c) ==
  /\ At(c, "analyze")
  /\ mig[c].kind # "replicate"
  /\ ~config.dry_run
  /\ Finish(c, "done", FALSE)
  /\ UNCHANGED <<cluster, active>>

\* do_migrate reads the volume again and counts the replicas its status lists.
CountReplicas(c) ==
  LET v == mig[c].vol IN
  /\ At(c, "count")
  /\ \/ Finish(c, "cleanup", FALSE)
     \/ mig' = [mig EXCEPT ![c].initial = Cardinality(replicas(v)),
                           ![c].pc = IF config.dry_run THEN "cleanup" ELSE "scale_up",
                           ![c].ok = config.dry_run]
  /\ UNCHANGED <<cluster, active>>

\* Mutant: the patch does not set the topology.
PatchScaleUpAnywhere(c) ==
  /\ numReplicas' = [numReplicas EXCEPT ![mig[c].vol] = mig[c].initial + 1]
  /\ UNCHANGED <<config, topology, replica, original>>

\* The merge patch that asks for one more replica, on the target pool.
PatchScaleUp(c) ==
  LET v == mig[c].vol IN
  /\ numReplicas' = [numReplicas EXCEPT ![v] = mig[c].initial + 1]
  /\ topology' = [topology EXCEPT ![v] = mig[c].target]
  /\ UNCHANGED <<config, replica, original>>

\* An error is reported for a patch that was applied or not.
ScaleUp(c) ==
  /\ At(c, "scale_up")
  /\ \/ PatchScaleUp(c) /\ Goto(c, "wait_sync")
     \/ PatchScaleUp(c) /\ Finish(c, "cleanup", FALSE)
     \/ UNCHANGED cluster /\ Finish(c, "cleanup", FALSE)
  /\ UNCHANGED active

\* Mutant: preservation mode is not consulted.
PollSyncNeverPreserves(c) ==
  /\ At(c, "wait_sync")
  /\ is_synced(replica[mig[c].vol][mig[c].target])
  /\ Goto(c, "scale_down")
  /\ UNCHANGED <<cluster, active>>

\* A poll that finds the replica on the target pool synced; the others, failed
\* reads included, change nothing.
PollSync(c) ==
  /\ At(c, "wait_sync")
  /\ is_synced(replica[mig[c].vol][mig[c].target])
  /\ IF config.preservation_mode
       THEN Finish(c, "cleanup", TRUE)
       ELSE Goto(c, "scale_down")
  /\ UNCHANGED <<cluster, active>>

\* Mutant: a timeout goes on to remove the old replica.
SyncTimeoutGoesOn(c) ==
  /\ At(c, "wait_sync")
  /\ Goto(c, "scale_down")
  /\ UNCHANGED <<cluster, active>>

\* Mutant: the wait has no timeout.
SyncTimeoutNever(c) == At(c, "idle") /\ UNCHANGED vars

\* sync_timeout: abort; numReplicas keeps the value ScaleUp gave it.
SyncTimeout(c) ==
  /\ At(c, "wait_sync")
  /\ Finish(c, "cleanup", FALSE)
  /\ UNCHANGED <<cluster, active>>

\* Mutant: the old replica and the new one are both taken off the count.
PatchScaleDownTwice(c) ==
  /\ numReplicas' = [numReplicas EXCEPT ![mig[c].vol] = mig[c].initial - 1]
  /\ UNCHANGED <<config, topology, replica, original>>

\* The merge patch that takes the count back.
PatchScaleDown(c) ==
  /\ numReplicas' = [numReplicas EXCEPT ![mig[c].vol] = mig[c].initial]
  /\ UNCHANGED <<config, topology, replica, original>>

ScaleDown(c) ==
  /\ At(c, "scale_down")
  /\ \/ PatchScaleDown(c) /\ Finish(c, "cleanup", TRUE)
     \/ PatchScaleDown(c) /\ Finish(c, "cleanup", FALSE)
     \/ UNCHANGED cluster /\ Finish(c, "cleanup", FALSE)
  /\ UNCHANGED active

\* migrate_volume unregisters the volume whatever do_migrate returned.
Cleanup(c) ==
  /\ At(c, "cleanup")
  /\ active' = active \ {mig[c].vol}
  /\ Goto(c, "done")
  /\ UNCHANGED cluster

\* The caller takes the result.
Return(c) ==
  /\ At(c, "done")
  /\ mig' = [mig EXCEPT ![c] = Idle]
  /\ UNCHANGED <<cluster, active>>

\* What a call does by itself once it has begun.
Step(c) ==
  \/ GetVolume(c) \/ GetVolumeFails(c) \/ Register(c)
  \/ CheckPool(c) \/ CountReplicas(c) \/ ScaleUp(c)
  \/ PollSync(c) \/ SyncTimeout(c) \/ ScaleDown(c) \/ Cleanup(c)
  \/ EcDryRun(c) \/ EcCheckPool(c) \/ EcPoolOffline(c) \/ EcPoolGetFails(c)

\* The operator process dies and is started again: nothing it held survives.
Restart ==
  /\ active' = {}
  /\ mig' = [c \in Callers |-> Idle]
  /\ UNCHANGED cluster

-----------------------------------------------------------------------------
(* Mayastor (external).                                                    *)

SetReplica(v, p, state) ==
  /\ replica' = [replica EXCEPT ![v][p] = state]
  /\ original' = [original EXCEPT ![v] = IF state = "faulted" THEN 0 ELSE @]
  /\ UNCHANGED <<config, numReplicas, topology, active, mig>>

\* A volume short of replicas gets one, on the pool the topology allows.
AddReplica(v, p) ==
  /\ Cardinality(replicas(v)) < numReplicas[v]
  /\ topology[v] \in {p, NoPool}
  /\ replica[v][p] = "absent"
  /\ SetReplica(v, p, "rebuilding")

\* A replica is rebuilt from a synced one.
FinishSync(v, p) ==
  /\ replica[v][p] = "rebuilding"
  /\ Synced(v) # {}
  /\ SetReplica(v, p, "synced")

\* A surplus replica is removed, never the one on the pool the topology names.
RemoveSurplus(v, p) ==
  /\ Cardinality(replicas(v)) > numReplicas[v]
  /\ p # topology[v]
  /\ replica[v][p] # "absent"
  /\ SetReplica(v, p, "absent")

\* A replica faults while another one is synced; it is rebuilt or discarded.
Fault(v, p) ==
  /\ v \in FaultyVolumes
  /\ replica[v][p] = "synced"
  /\ Synced(v) # {p}
  /\ SetReplica(v, p, "faulted")

Repair(v, p) ==
  /\ replica[v][p] = "faulted"
  /\ \/ SetReplica(v, p, "rebuilding")
     \/ SetReplica(v, p, "absent")

Mayastor ==
  \E v \in Volumes, p \in Pools :
    \/ AddReplica(v, p) \/ FinishSync(v, p) \/ RemoveSurplus(v, p)
    \/ Fault(v, p) \/ Repair(v, p)

-----------------------------------------------------------------------------
\* Healthy volumes at the start: as many synced replicas as the spec asks for.
Init ==
  /\ config \in Configs
  /\ replica \in [Volumes -> [Pools -> {"absent", "synced"}]]
  /\ \A v \in Volumes : Synced(v) # {}
  /\ numReplicas = [v \in Volumes |-> Cardinality(replicas(v))]
  /\ original = numReplicas
  /\ topology = [v \in Volumes |-> NoPool]
  /\ active = {}
  /\ mig = [c \in Callers |-> Idle]

Next ==
  \/ \E c \in Callers : Call(c) \/ Step(c) \/ Return(c)
  \/ Mayastor
  \/ Restart

Spec == Init /\ [][Next]_vars

-----------------------------------------------------------------------------
(* Properties.                                                             *)

\* The volumes of which no replica has faulted so far.
Healthy == {v \in Volumes : original[v] > 0}

\* Calls that have registered their volume and not yet unregistered it.
Registered(c) ==
  mig[c].pc \in {"analyze", "count", "scale_up", "wait_sync", "scale_down", "cleanup"}

\* No volume is in two migrations at once: what active_migrations is for.
AtMostOneMigrationPerVolume ==
  \A c, d \in Callers :
    Registered(c) /\ Registered(d) /\ mig[c].vol = mig[d].vol => c = d

\* A volume that is being migrated answers true to is_migrating, until the
\* migration is over: no early unregistration by anyone else.
MigratingIsRegistered ==
  \A c \in Callers : Registered(c) => is_migrating(mig[c].vol)

\* A migration that ends, whichever way, leaves its volume unregistered, so that the
\* next one is not refused; but for one to or from erasure coding whose pool could not
\* be read.
UnregistersItsVolume ==
  [][\A c \in Callers :
       Registered(c) /\ ~Registered(c)' => mig[c].vol \notin active' \/ EcPoolGetFails(c)]_vars

\* "Old replica removed ONLY after new replica reports Synced state": whatever
\* aborts, retries, lost answers and restarts happen, a volume that starts
\* healthy keeps a synced one until a replica faults by itself.
KeepsSyncedReplica == \A v \in Healthy : Synced(v) # {}

\* "Reduce replica count back to original": no migration leaves a volume with
\* fewer replicas asked for than its owner asked for, unless one has faulted.
NeverBelowOriginal ==
  \A v \in Healthy : numReplicas[v] >= original[v]

\* While a call waits for its replica and lowers the count, the volume's spec
\* is the one it wrote: no other call has redirected the topology or moved
\* the count under it.
SpecIsTheCallers ==
  \A c \in Callers :
    mig[c].pc \in {"wait_sync", "scale_down"} =>
      /\ topology[mig[c].vol] = mig[c].target
      /\ numReplicas[mig[c].vol] = mig[c].initial + 1

\* "Optional preservation mode never removes old replicas": none goes away,
\* also not when a migration is aborted and tried again with another target.
NeverRemovesReplicas ==
  [][config.preservation_mode =>
       \A v \in Healthy : replicas(v) \subseteq replicas(v)']_vars

\* "Dry-run completed (no changes made)": no spec is ever patched.
WritesNoSpec == [][config.dry_run => UNCHANGED <<numReplicas, topology>>]_vars

\* active_migrations is exact: it has every volume that is being migrated, and a
\* migration that ends takes its volume out.
RegistrationIsExact == []MigratingIsRegistered /\ UnregistersItsVolume

\* The two modes of the command line do what they promise.
ModesAreRespected == NeverRemovesReplicas /\ WritesNoSpec
=============================================================================
