---------------------- MODULE StoragePolicyController ----------------------
(***************************************************************************)
(* The StoragePolicy controller (src/controller/storage_policy.rs) on top  *)
(* of the migrator.  The callers of Migrator are the policies: the kube    *)
(* controller never runs two reconciliations of one policy at a time, but  *)
(* those of different policies run concurrently and share the migrator and *)
(* the semaphore of --max-concurrent-migrations.                           *)
(*                                                                         *)
(* A reconciliation works through the volumes of the policy's storage      *)
(* class.  Its steps are separated by its awaits.                          *)
(***************************************************************************)
EXTENDS Migrator

CONSTANTS
  MaxConcurrent,    \* permits of migration_semaphore
  DryRunPolicies,   \* policies whose spec.dryRun is set, at times or always
  EcVolumes,        \* volumes that volume_qualifies_for_ec accepts
  TierPools,        \* the pools that match the selector of each tier
  High, Warm, Low,  \* the IOPS watermarks; Warm = 0 disables the warm tier
  IopsValues,       \* the heat scores a volume may have
  MaxTotal          \* bound: migrations counted between two status updates

Tiers == {"hot", "warm", "cold"}

ASSUME ControllerAssumption ==
  /\ IsFiniteSet(Callers)
  /\ {"replicate", "to_ec"} \subseteq Kinds
  /\ MaxConcurrent \in Nat \ {0}
  /\ DryRunPolicies \subseteq Callers
  /\ EcVolumes \subseteq Volumes
  /\ TierPools \in [Tiers -> SUBSET Pools]
  /\ High \in Nat /\ Warm \in Nat /\ Low \in Nat
  /\ IopsValues \subseteq Nat
  /\ MaxTotal \in Nat

VARIABLES
  permits,    \* free permits of migration_semaphore
  rec,        \* the reconciliation of each policy
  total,      \* status.totalMigrations of each policy
  annotated   \* volumes whose last-migration annotation is within the cooldown

controller == <<permits, rec, total, annotated>>
ctrlVars == <<vars, controller>>

RecPcs == {"idle", "next", "acquire", "call", "migrating", "record", "patch_record"}

Resting == [pc |-> "idle", todo |-> {}, vol |-> NoVolume, tier |-> "cold",
            target |-> NoPool, seen |-> 0]

Reconciliations ==
  [pc: RecPcs, todo: SUBSET Volumes, vol: Volumes \union {NoVolume}, tier: Tiers,
   target: Pools \union {NoPool}, seen: 0..MaxTotal]

ControllerTypeOK ==
  /\ permits \in 0..MaxConcurrent
  /\ rec \in [Callers -> Reconciliations]
  /\ total \in [Callers -> 0..MaxTotal]
  /\ annotated \subseteq Volumes

-----------------------------------------------------------------------------
(* Decisions.                                                              *)

\* The tier a heat score asks for; between the bands a volume stays where it is.
IsTier(tier, iops) ==
  CASE tier = "hot"  -> iops >= High
    [] tier = "warm" -> iops < High /\ Warm > 0 /\ Low < iops /\ iops < Warm
    [] tier = "cold" -> iops < High /\ iops <= Low

\* Only the annotation counts, and nothing in the operator writes it.
should_migrate(v) == v \notin annotated

UsesEc(tier, v) == tier = "cold" /\ v \in EcVolumes

\* A failed query, such as an unreachable Prometheus, yields a score of zero.
HeatScores == IopsValues \union {0}

-----------------------------------------------------------------------------
(* The reconciliation.                                                     *)

RecAt(p, pc) == rec[p].pc = pc
RecGoto(p, pc) == rec' = [rec EXCEPT ![p].pc = pc]

\* Leave the current volume and go on with the others.
NextOne(p) == [rec[p] EXCEPT !.pc = "next", !.vol = NoVolume, !.target = NoPool,
                             !.tier = "cold", !.seen = 0]

\* List the volumes of the storage class; a failed list ends the reconciliation.
StartReconcile(p) ==
  /\ RecAt(p, "idle")
  /\ rec' = [rec EXCEPT ![p] = [Resting EXCEPT !.pc = "next", !.todo = MaySelect[p]]]
  /\ UNCHANGED <<vars, permits, total, annotated>>

\* v is taken up, to be migrated to target.
Planned(p, v, tier, target) ==
  [rec[p] EXCEPT !.pc = "acquire", !.todo = @ \ {v}, !.vol = v, !.tier = tier,
                 !.target = target]

\* The volume stays in its tier, is cooling down, has no pool to go to or is
\* being migrated.
Skip(p, v, iops) ==
  /\ \/ \A tier \in Tiers : ~IsTier(tier, iops)
     \/ ~should_migrate(v)
     \/ \E tier \in Tiers : IsTier(tier, iops) /\ ~UsesEc(tier, v)
     \/ is_migrating(v)
  /\ rec' = [rec EXCEPT ![p] = [NextOne(p) EXCEPT !.todo = @ \ {v}]]

\* It is to be migrated, to a pool of its tier that find_pool_for_tier returns;
\* for erasure coding the pool is looked up after the permit is acquired.
Plan(p, v, iops) ==
  \E tier \in Tiers :
    /\ IsTier(tier, iops)
    /\ should_migrate(v)
    /\ ~is_migrating(v)
    /\ \E target \in IF UsesEc(tier, v) THEN {NoPool} ELSE TierPools[tier] :
         rec' = [rec EXCEPT ![p] = Planned(p, v, tier, target)]

Classify(p) ==
  /\ RecAt(p, "next")
  /\ \E v \in rec[p].todo, iops \in HeatScores : Skip(p, v, iops) \/ Plan(p, v, iops)
  /\ UNCHANGED <<vars, permits, total, annotated>>

\* The permit is dropped at the end of the block, where nothing has been done.
SkipDryRun(p) ==
  /\ p \in DryRunPolicies
  /\ rec' = [rec EXCEPT ![p] = NextOne(p)]
  /\ UNCHANGED permits

\* Mutant: the permit is dropped as soon as it is acquired.
AcquireDrops(p) ==
  /\ RecAt(p, "acquire")
  /\ permits > 0
  /\ SkipDryRun(p) \/ RecGoto(p, "call")
  /\ UNCHANGED <<vars, permits, total, annotated>>

\* The permit is held to the end of the block.
Acquire(p) ==
  /\ RecAt(p, "acquire")
  /\ permits > 0
  /\ \/ SkipDryRun(p)
     \/ RecGoto(p, "call") /\ permits' = permits - 1
  /\ UNCHANGED <<vars, total, annotated>>

\* migrate_volume or, for a cold volume that qualifies, migrate_to_ec with one
\* pool of the cold tier, or with a pool name that need not exist.
CallMigrator(p) ==
  LET v == rec[p].vol IN
  /\ RecAt(p, "call")
  /\ RecGoto(p, "migrating")
  /\ IF UsesEc(rec[p].tier, v)
       THEN \/ Refuse(p, "to_ec", v)
            \/ \E q \in Pools : Accept(p, "to_ec", v, NoPool, {q})
       ELSE \/ Refuse(p, "replicate", v)
            \/ Accept(p, "replicate", v, rec[p].target, {rec[p].target})
  /\ UNCHANGED <<permits, total, annotated>>

\* Without a selector for cold pools there is nothing to encode to.
NoEcPools(p) ==
  /\ RecAt(p, "call")
  /\ UsesEc(rec[p].tier, rec[p].vol)
  /\ rec' = [rec EXCEPT ![p] = NextOne(p)]
  /\ permits' = permits + 1
  /\ UNCHANGED <<vars, total, annotated>>

Migrate(p) ==
  /\ Step(p)
  /\ UNCHANGED <<permits, rec, total, annotated>>

\* Mutant: the permit of a failed migration is not given back.
TakeResultLeaks(p) ==
  /\ Return(p)
  /\ IF mig[p].ok
       THEN RecGoto(p, "record")
       ELSE rec' = [rec EXCEPT ![p] = NextOne(p)]
  /\ UNCHANGED <<permits, total, annotated>>

\* Only an Ok result is recorded; an Err is logged.
TakeResult(p) ==
  /\ Return(p)
  /\ IF mig[p].ok
       THEN RecGoto(p, "record") /\ UNCHANGED permits
       ELSE rec' = [rec EXCEPT ![p] = NextOne(p)] /\ permits' = permits + 1
  /\ UNCHANGED <<total, annotated>>

\* record_migration_history reads the status ...
ReadStatus(p) ==
  /\ RecAt(p, "record")
  /\ \/ /\ total[p] < MaxTotal
        /\ rec' = [rec EXCEPT ![p].pc = "patch_record", ![p].seen = total[p]]
        /\ UNCHANGED permits
     \/ /\ rec' = [rec EXCEPT ![p] = NextOne(p)]
        /\ permits' = permits + 1
  /\ UNCHANGED <<vars, total, annotated>>

\* ... and patches it; the history is patched along with the total.
PatchRecord(p) ==
  /\ RecAt(p, "patch_record")
  /\ total' \in {total, [total EXCEPT ![p] = rec[p].seen + 1]}
  /\ rec' = [rec EXCEPT ![p] = NextOne(p)]
  /\ permits' = permits + 1
  /\ UNCHANGED <<vars, annotated>>

\* The last patch replaces the whole status; the fields reconcile does not fill
\* in have their defaults, so the totals and the history start over.
UpdateStatus(p) ==
  /\ RecAt(p, "next")
  /\ rec[p].todo = {}
  /\ total' \in {total, [total EXCEPT ![p] = 0]}
  /\ rec' = [rec EXCEPT ![p] = Resting]
  /\ UNCHANGED <<vars, permits, annotated>>

Reconcile(p) ==
  \/ Classify(p) \/ CallMigrator(p) \/ NoEcPools(p) \/ Migrate(p) \/ TakeResult(p)
  \/ ReadStatus(p) \/ PatchRecord(p) \/ UpdateStatus(p)

OperatorRestart ==
  /\ Restart
  /\ permits' = MaxConcurrent
  /\ rec' = [p \in Callers |-> Resting]
  /\ UNCHANGED <<total, annotated>>

\* The cooldown of a volume runs out.
CooldownOver ==
  \E v \in annotated :
    /\ annotated' = annotated \ {v}
    /\ UNCHANGED <<vars, permits, rec, total>>

ControllerInit ==
  /\ Init
  /\ permits = MaxConcurrent
  /\ rec = [p \in Callers |-> Resting]
  /\ total = [p \in Callers |-> 0]
  /\ annotated \in SUBSET Volumes

ControllerNext ==
  \/ \E p \in Callers : StartReconcile(p) \/ Acquire(p) \/ Reconcile(p)
  \/ Mayastor /\ UNCHANGED controller
  \/ OperatorRestart
  \/ CooldownOver

ControllerSpec == ControllerInit /\ [][ControllerNext]_ctrlVars

\* Tokio's semaphore is first come, first served: a reconciliation that waits
\* for a permit gets one of those that become free again and again.
FairControllerSpec ==
  /\ ControllerSpec
  /\ \A p \in Callers : WF_ctrlVars(Reconcile(p)) /\ SF_ctrlVars(Acquire(p))

-----------------------------------------------------------------------------
(* Properties.                                                             *)

HoldsPermit(p) == rec[p].pc \in {"call", "migrating", "record", "patch_record"}

\* No permit leaks and none is invented, whichever way a migration ends.
PermitsAreConserved ==
  permits + Cardinality({p \in Callers : HoldsPermit(p)}) = MaxConcurrent

\* --max-concurrent-migrations bounds the migrations the migrator is running.
MigrationsAreLimited ==
  Cardinality({p \in Callers : Registered(p)}) <= MaxConcurrent

\* Every reconciliation ends: no policy waits for ever for a permit or for a
\* migration that another policy's duplicate disturbs.
ReconcileEnds == \A p \in Callers : ~RecAt(p, "idle") ~> RecAt(p, "idle")
=============================================================================
