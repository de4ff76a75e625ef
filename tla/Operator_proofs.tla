--------------------------- MODULE Operator_proofs ---------------------------
(***************************************************************************)
(* Proofs about the operator, in two parts.                                *)
(*   - Migrator, for every set of callers, volumes and pools.              *)
(*   - StoragePolicyController, for every finite set of policies, every    *)
(*     number of permits, and all volumes, pools and tiers.  The theorem   *)
(*     Implements lets what is shown of the migrator under any callers     *)
(*     hold for the controller.                                            *)
(***************************************************************************)
EXTENDS StoragePolicyController, FiniteSetTheorems, TLAPS

-----------------------------------------------------------------------------
(* The migrator.                                                           *)

USE DEF At

-----------------------------------------------------------------------------
(* Type correctness.                                                       *)

\* Only a call in progress works on a volume, one its caller selects; from the
\* first read of the volume on, migrate_volume has a target pool.
WellFormed ==
  \A c \in Callers :
    /\ mig[c].pc # "idle" => mig[c].vol \in MaySelect[c] /\ mig[c].kind \in Kinds
    /\ mig[c].pc \in {"count", "scale_up", "wait_sync", "scale_down", "cleanup"} =>
         mig[c].kind = "replicate"
    /\ mig[c].kind = "replicate" /\ mig[c].pc \notin {"idle", "done"} =>
         mig[c].target \in Pools

TypeInv == TypeOK /\ WellFormed

\* Counting replicas gives a natural number.
LEMMA CountIsNat ==
  ASSUME NEW v \in Volumes
  PROVE  IsFiniteSet(replicas(v)) /\ Cardinality(replicas(v)) \in Nat
<1>1. replicas(v) \subseteq Pools
  BY DEF replicas
<1>2. IsFiniteSet(replicas(v))
  BY <1>1, FS_Subset, MigratorAssumption
<1> QED
  BY <1>2, FS_CardinalityType

LEMMA InitTypeInv == Init => TypeInv
<1> SUFFICES ASSUME Init PROVE TypeInv
  OBVIOUS
<1>1. \A v \in Volumes : Cardinality(replicas(v)) \in Nat
  BY CountIsNat
<1>2. numReplicas \in [Volumes -> Nat] /\ original \in [Volumes -> Nat]
  BY <1>1 DEF Init
<1>3. replica \in [Volumes -> [Pools -> ReplicaStates]]
  BY DEF Init, ReplicaStates
<1>4. Idle \in Calls
  BY DEF Idle, Calls, Pcs, AllKinds
<1>5. mig \in [Callers -> Calls]
  BY <1>4 DEF Init
<1>6. WellFormed
  BY DEF Init, WellFormed, Idle
<1> QED
  BY <1>2, <1>3, <1>5, <1>6 DEF Init, TypeInv, TypeOK

\* What one caller may do to its own call.
LEMMA CallTypeInv ==
  ASSUME TypeInv, NEW c \in Callers, NEW r \in Calls,
         r.pc # "idle" => r.vol \in MaySelect[c] /\ r.kind \in Kinds,
         r.pc \in {"count", "scale_up", "wait_sync", "scale_down", "cleanup"} =>
           r.kind = "replicate",
         r.kind = "replicate" /\ r.pc \notin {"idle", "done"} => r.target \in Pools,
         mig' = [mig EXCEPT ![c] = r]
  PROVE  mig' \in [Callers -> Calls] /\ WellFormed'
BY DEF TypeInv, TypeOK, WellFormed

\* What Goto and Finish do to a call: they move its program counter.
Moves(c, pc) ==
  /\ mig' \in [Callers -> Calls]
  /\ mig'[c].pc = pc
  /\ mig'[c].kind = mig[c].kind
  /\ mig'[c].vol = mig[c].vol
  /\ mig'[c].target = mig[c].target
  /\ mig'[c].initial = mig[c].initial
  /\ \A d \in Callers \ {c} : mig'[d] = mig[d]

LEMMA GotoMoves ==
  ASSUME TypeOK, NEW c \in Callers, NEW pc \in Pcs, Goto(c, pc)
  PROVE  Moves(c, pc)
<1>1. mig[c] \in Calls /\ mig \in [Callers -> Calls]
  BY DEF TypeOK
<1>2. mig' = [mig EXCEPT ![c] = [mig[c] EXCEPT !.pc = pc]]
  BY DEF Goto
<1>3. [mig[c] EXCEPT !.pc = pc] \in Calls
  BY <1>1 DEF Calls
<1> QED
  BY <1>1, <1>2, <1>3 DEF Moves, Calls

LEMMA FinishMoves ==
  ASSUME TypeOK, NEW c \in Callers, NEW pc \in Pcs, NEW ok \in BOOLEAN,
         Finish(c, pc, ok)
  PROVE  Moves(c, pc)
<1>1. mig[c] \in Calls /\ mig \in [Callers -> Calls]
  BY DEF TypeOK
<1>2. mig' = [mig EXCEPT ![c] = [[mig[c] EXCEPT !.pc = pc] EXCEPT !.ok = ok]]
  BY <1>1 DEF Finish
<1>3. [[mig[c] EXCEPT !.pc = pc] EXCEPT !.ok = ok] \in Calls
  BY <1>1 DEF Calls
<1> QED
  BY <1>1, <1>2, <1>3 DEF Moves, Calls

LEMMA MovesWellFormed ==
  ASSUME TypeInv, NEW c \in Callers, NEW pc \in Pcs, Moves(c, pc),
         mig[c].pc \notin {"idle", "done"},
         pc \in {"count", "scale_up", "wait_sync", "scale_down", "cleanup"} =>
           mig[c].kind = "replicate"
  PROVE  mig' \in [Callers -> Calls] /\ WellFormed'
BY DEF TypeInv, TypeOK, WellFormed, Moves

LEMMA StepTypeInv == TypeInv /\ [Next]_vars => TypeInv'
<1> SUFFICES ASSUME TypeInv, [Next]_vars PROVE TypeInv'
  OBVIOUS
<1> USE DEF TypeInv
<1>1. ASSUME NEW c \in Callers, Call(c) PROVE TypeInv'
  <2>1. ASSUME NEW kind \in Kinds, NEW v \in MaySelect[c], Refuse(c, kind, v)
        PROVE  TypeInv'
    <3> DEFINE r == [Idle EXCEPT !.pc = "done", !.kind = kind, !.vol = v]
    <3>1. r \in Calls /\ r.pc = "done" /\ r.vol = v /\ r.kind = kind
      BY <2>1, MigratorAssumption DEF Calls, Idle, Pcs
    <3>2. mig' = [mig EXCEPT ![c] = r]
      BY <2>1 DEF Refuse
    <3> HIDE DEF r
    <3>3. mig' \in [Callers -> Calls] /\ WellFormed'
      BY <3>1, <3>2, CallTypeInv
    <3> QED
      BY <3>3, <2>1 DEF TypeOK, Refuse, cluster
  <2>2. ASSUME NEW kind \in Kinds, NEW v \in MaySelect[c],
               NEW p \in Pools \union {NoPool}, NEW P \in SUBSET Pools,
               kind = "replicate" => p \in Pools,
               Accept(c, kind, v, p, P)
        PROVE  TypeInv'
    <3> DEFINE r == [Idle EXCEPT
                       !.pc = IF kind = "from_ec" THEN "register" ELSE "get_volume",
                       !.kind = kind, !.vol = v, !.target = p, !.unchecked = P]
    <3>1. /\ r \in Calls /\ r.pc \in {"register", "get_volume"}
          /\ r.vol = v /\ r.kind = kind /\ r.target = p
      BY <2>2, MigratorAssumption DEF Calls, Idle, Pcs
    <3>2. mig' = [mig EXCEPT ![c] = r]
      BY <2>2 DEF Accept
    <3> HIDE DEF r
    <3>3. mig' \in [Callers -> Calls] /\ WellFormed'
      BY <3>1, <3>2, <2>2, CallTypeInv
    <3> QED
      BY <3>3, <2>2 DEF TypeOK, Accept, cluster
  <2> QED
    BY <1>1, <2>1, <2>2 DEF Call
<1>2. ASSUME NEW c \in Callers, Step(c) PROVE TypeInv'
  <2> DEFINE v == mig[c].vol
             Typed == mig' \in [Callers -> Calls] /\ WellFormed'
  <2> USE DEF cluster
  <2>1. /\ mig[c] \in Calls
        /\ \A pc \in Pcs : Goto(c, pc) => Moves(c, pc)
        /\ \A pc \in Pcs, ok \in BOOLEAN : Finish(c, pc, ok) => Moves(c, pc)
    BY GotoMoves, FinishMoves DEF TypeOK
  <2>2. mig[c].pc # "idle" => v \in Volumes
    BY MigratorAssumption DEF WellFormed
  <2>3. ASSUME NEW pc \in Pcs, Moves(c, pc), mig[c].pc \notin {"idle", "done"},
               pc \in {"count", "scale_up", "wait_sync", "scale_down", "cleanup"} =>
                 mig[c].kind = "replicate"
        PROVE  Typed
    BY <2>3, MovesWellFormed
  <2> HIDE DEF Typed
  <2>4. CASE GetVolume(c) \/ GetVolumeFails(c)
    <3>1. Typed
      BY <2>4, <2>1, <2>3 DEF GetVolume, GetVolumeFails, Pcs
    <3> QED
      BY <2>4, <3>1 DEF GetVolume, GetVolumeFails, Typed, TypeOK
  <2>5. CASE Register(c)
    <3>1. Typed
      BY <2>5, <2>1, <2>3 DEF Register, Pcs
    <3> QED
      BY <2>5, <2>2, <3>1 DEF Register, Typed, TypeOK
  <2>6. CASE CheckPool(c)
    <3>1. Typed
      BY <2>6, <2>1, <2>3 DEF CheckPool, Pcs
    <3> QED
      BY <2>6, <3>1 DEF CheckPool, Typed, TypeOK
  <2>7. CASE EcDryRun(c) \/ EcPoolOffline(c) \/ EcPoolGetFails(c)
    <3>1. Typed
      BY <2>7, <2>1, <2>3 DEF EcDryRun, EcPoolOffline, EcPoolGetFails, Pcs
    <3> QED
      BY <2>7, <3>1 DEF EcDryRun, EcPoolOffline, EcPoolGetFails, Typed, TypeOK
  <2>8. CASE EcCheckPool(c)
    <3>1. ASSUME Finish(c, "done", TRUE) PROVE Typed
      BY <2>8, <3>1, <2>1, <2>3 DEF EcCheckPool, Pcs
    <3>2. ASSUME ~Finish(c, "done", TRUE) PROVE Typed
      <4>1. PICK p \in Pools : mig' = [mig EXCEPT ![c] =
                                  [mig[c] EXCEPT !.unchecked = mig[c].unchecked \ {p}]]
        BY <2>8, <2>1, <3>2 DEF EcCheckPool, Calls
      <4> DEFINE r == [mig[c] EXCEPT !.unchecked = mig[c].unchecked \ {p}]
      <4>2. /\ r \in Calls /\ r.pc = mig[c].pc /\ r.vol = mig[c].vol
            /\ r.kind = mig[c].kind /\ r.target = mig[c].target
        BY <2>1 DEF Calls
      <4> HIDE DEF r
      <4>3. mig' = [mig EXCEPT ![c] = r]
        BY <4>1 DEF r
      <4> QED
        BY <4>2, <4>3, CallTypeInv DEF WellFormed, Typed
    <3>3. Typed
      BY <3>1, <3>2, <2>8, <2>1, <2>3 DEF EcCheckPool, Pcs
    <3> QED
      BY <2>8, <3>3 DEF EcCheckPool, Typed, TypeOK
  <2>9. CASE CountReplicas(c)
    <3>1. Cardinality(replicas(v)) \in Nat
      BY <2>9, <2>2, CountIsNat DEF CountReplicas
    <3>2. ASSUME Finish(c, "cleanup", FALSE) PROVE Typed
      BY <2>9, <3>2, <2>1, <2>3 DEF CountReplicas, Pcs, WellFormed
    <3>3. ASSUME ~Finish(c, "cleanup", FALSE) PROVE Typed
      <4> DEFINE r == [mig[c] EXCEPT !.initial = Cardinality(replicas(v)),
                                     !.pc = IF config.dry_run THEN "cleanup" ELSE "scale_up",
                                     !.ok = config.dry_run]
      <4>1. mig' = [mig EXCEPT ![c] = r]
        BY <2>9, <2>1, <3>3 DEF CountReplicas, TypeOK
      <4>2. /\ r \in Calls /\ r.pc \in {"cleanup", "scale_up"} /\ r.vol = mig[c].vol
            /\ r.kind = mig[c].kind /\ r.target = mig[c].target
        BY <2>1, <3>1, MigratorAssumption DEF Calls, Pcs, TypeOK
      <4> HIDE DEF r
      <4> QED
        BY <2>9, <4>1, <4>2, CallTypeInv DEF WellFormed, Typed, CountReplicas
    <3>4. Typed
      BY <3>2, <3>3
    <3> QED
      BY <2>9, <3>4 DEF CountReplicas, Typed, TypeOK
  <2>10. CASE ScaleUp(c)
    <3>1. Typed
      BY <2>10, <2>1, <2>3 DEF ScaleUp, Pcs, WellFormed
    <3>2. mig[c].initial + 1 \in Nat /\ mig[c].target \in Pools \union {NoPool}
      BY <2>1 DEF Calls
    <3> QED
      BY <2>10, <2>2, <3>1, <3>2 DEF ScaleUp, PatchScaleUp, Typed, TypeOK
  <2>11. CASE PollSync(c) \/ SyncTimeout(c)
    <3>1. Typed
      BY <2>11, <2>1, <2>3 DEF PollSync, SyncTimeout, Pcs, WellFormed
    <3> QED
      BY <2>11, <3>1 DEF PollSync, SyncTimeout, Typed, TypeOK
  <2>12. CASE ScaleDown(c)
    <3>1. Typed
      BY <2>12, <2>1, <2>3 DEF ScaleDown, Pcs, WellFormed
    <3>2. mig[c].initial \in Nat
      BY <2>1 DEF Calls
    <3> QED
      BY <2>12, <2>2, <3>1, <3>2 DEF ScaleDown, PatchScaleDown, Typed, TypeOK
  <2>13. CASE Cleanup(c)
    <3>1. Typed
      BY <2>13, <2>1, <2>3 DEF Cleanup, Pcs
    <3> QED
      BY <2>13, <3>1 DEF Cleanup, Typed, TypeOK
  <2> QED
    BY <1>2, <2>4, <2>5, <2>6, <2>7, <2>8, <2>9, <2>10, <2>11, <2>12, <2>13 DEF Step
<1>3. ASSUME NEW c \in Callers, Return(c) PROVE TypeInv'
  BY <1>3 DEF Return, Idle, TypeOK, WellFormed, cluster, Calls, Pcs, AllKinds
<1>4. CASE Restart
  BY <1>4 DEF Restart, Idle, TypeOK, WellFormed, cluster, Calls, Pcs, AllKinds
<1>5. CASE Mayastor
  <2>1. PICK w \in Volumes, p \in Pools, state \in ReplicaStates : SetReplica(w, p, state)
    BY <1>5 DEF Mayastor, AddReplica, FinishSync, RemoveSurplus, Fault, Repair, ReplicaStates
  <2> QED
    BY <2>1 DEF SetReplica, TypeOK, WellFormed
<1>6. CASE UNCHANGED vars
  BY <1>6 DEF vars, cluster, TypeOK, WellFormed
<1> QED
  BY <1>1, <1>2, <1>3, <1>4, <1>5, <1>6 DEF Next

\* The variables of the model always have their types, and a call that has
\* begun has a volume its caller selects.
THEOREM TypeCorrect == Spec => []TypeInv
BY InitTypeInv, StepTypeInv, PTL DEF Spec
-----------------------------------------------------------------------------
(* What the steps do to the counts: the facts the invariants below need.   *)

\* The call of c keeps its volume, its target and its count.
SameCall(c) ==
  /\ mig'[c].vol = mig[c].vol
  /\ mig'[c].target = mig[c].target
  /\ mig'[c].initial = mig[c].initial

\* A caller leaves the other calls alone and, apart from the two patches, the
\* cluster; it passes through the states in which the counts matter in order.
CallerEffect(c) ==
  /\ \A d \in Callers \ {c} : mig'[d] = mig[d]
  /\ \/ /\ UNCHANGED cluster
        /\ mig'[c].pc \notin {"scale_up", "wait_sync", "scale_down"}
     \/ /\ UNCHANGED cluster
        /\ mig[c].pc = "count" /\ mig'[c].pc = "scale_up"
        /\ mig'[c].vol = mig[c].vol
        /\ mig'[c].target = mig[c].target
        /\ mig'[c].initial = Cardinality(replicas(mig[c].vol))
     \/ /\ PatchScaleUp(c)
        /\ mig[c].pc = "scale_up" /\ mig'[c].pc \in {"wait_sync", "cleanup"}
        /\ SameCall(c)
     \/ /\ UNCHANGED cluster
        /\ mig[c].pc = "wait_sync" /\ mig'[c].pc = "scale_down"
        /\ mig[c].target \in Synced(mig[c].vol)
        /\ SameCall(c)
     \/ /\ PatchScaleDown(c)
        /\ mig[c].pc = "scale_down" /\ mig'[c].pc = "cleanup"
        /\ SameCall(c)

LEMMA CallersDo ==
  ASSUME TypeInv, NEW c \in Callers, Call(c) \/ Step(c) \/ Return(c)
  PROVE  CallerEffect(c)
<1> USE DEF CallerEffect, SameCall
<1>1. /\ mig \in [Callers -> Calls]
      /\ mig[c] \in Calls
      /\ \A pc \in Pcs : Goto(c, pc) => Moves(c, pc)
      /\ \A pc \in Pcs, ok \in BOOLEAN : Finish(c, pc, ok) => Moves(c, pc)
  BY GotoMoves, FinishMoves DEF TypeInv, TypeOK
<1>2. CASE Call(c)
  <2>1. UNCHANGED cluster
    BY <1>2 DEF Call, Refuse, Accept
  <2>2. ASSUME NEW kind, NEW v, Refuse(c, kind, v)
        PROVE  /\ \A d \in Callers \ {c} : mig'[d] = mig[d]
               /\ mig'[c].pc = "done"
    BY <2>2, <1>1 DEF Refuse, Idle
  <2>3. ASSUME NEW kind, NEW v, NEW p, NEW P, Accept(c, kind, v, p, P)
        PROVE  /\ \A d \in Callers \ {c} : mig'[d] = mig[d]
               /\ mig'[c].pc \in {"register", "get_volume"}
    BY <2>3, <1>1 DEF Accept, Idle
  <2> QED
    BY <2>1, <2>2, <2>3, <1>2 DEF Call
<1>3. CASE Return(c)
  BY <1>3, <1>1 DEF Return, Idle
<1>4. CASE GetVolume(c) \/ GetVolumeFails(c) \/ Register(c) \/ CheckPool(c) \/ Cleanup(c)
  BY <1>4, <1>1 DEF GetVolume, GetVolumeFails, Register, CheckPool, Cleanup, Moves, Pcs
<1>5. CASE EcDryRun(c) \/ EcPoolOffline(c) \/ EcPoolGetFails(c) \/ SyncTimeout(c)
  BY <1>5, <1>1 DEF EcDryRun, EcPoolOffline, EcPoolGetFails, SyncTimeout, Moves, Pcs
<1>6. CASE EcCheckPool(c)
  <2>1. CASE Finish(c, "done", TRUE)
    BY <2>1, <1>6, <1>1 DEF EcCheckPool, Moves, Pcs
  <2>2. CASE ~Finish(c, "done", TRUE)
    <3>1. PICK p : mig' = [mig EXCEPT ![c].unchecked = @ \ {p}]
      BY <2>2, <1>6 DEF EcCheckPool
    <3>2. mig'[c].pc = "analyze" /\ \A d \in Callers \ {c} : mig'[d] = mig[d]
      BY <3>1, <1>6, <1>1 DEF EcCheckPool, Calls
    <3> QED
      BY <3>2, <1>6 DEF EcCheckPool
  <2> QED
    BY <2>1, <2>2
<1>7. CASE CountReplicas(c)
  <2>1. CASE Finish(c, "cleanup", FALSE)
    BY <2>1, <1>7, <1>1 DEF CountReplicas, Moves, Pcs
  <2>2. CASE ~Finish(c, "cleanup", FALSE)
    <3> DEFINE k == Cardinality(replicas(mig[c].vol))
    <3>1. mig' = [mig EXCEPT ![c] = [mig[c] EXCEPT
                    !.initial = k,
                    !.pc = IF config.dry_run THEN "cleanup" ELSE "scale_up",
                    !.ok = config.dry_run]]
      BY <2>2, <1>7, <1>1 DEF CountReplicas
    <3> HIDE DEF k
    <3>2. /\ mig'[c].pc = IF config.dry_run THEN "cleanup" ELSE "scale_up"
          /\ mig'[c].initial = k
          /\ mig'[c].vol = mig[c].vol /\ mig'[c].target = mig[c].target
          /\ \A d \in Callers \ {c} : mig'[d] = mig[d]
      BY <3>1, <1>1 DEF Calls
    <3> QED
      BY <3>2, <1>7 DEF k, CountReplicas
  <2> QED
    BY <2>1, <2>2
<1>8. CASE ScaleUp(c)
  BY <1>8, <1>1 DEF ScaleUp, Moves, Pcs
<1>9. CASE PollSync(c)
  <2>1. ~config.preservation_mode => mig[c].target \in Synced(mig[c].vol)
    <3>1. mig[c].target \in Pools
      BY <1>9 DEF PollSync, TypeInv, WellFormed
    <3> QED
      BY <3>1, <1>9 DEF PollSync, is_synced, Synced
  <2> QED
    BY <2>1, <1>9, <1>1 DEF PollSync, Moves, Pcs
<1>10. CASE ScaleDown(c)
  BY <1>10, <1>1 DEF ScaleDown, Moves, Pcs
<1> QED
  BY <1>2, <1>3, <1>4, <1>5, <1>6, <1>7, <1>8, <1>9, <1>10 DEF Step

NoneFaulted == \A v \in Healthy, p \in Pools : replica[v][p] # "faulted"

\* What Mayastor does to the replicas of one volume; it leaves the others alone.
MayastorEffect(v, p) ==
  /\ UNCHANGED <<numReplicas, topology, mig>>
  /\ Healthy' \subseteq Healthy /\ \A w \in Healthy' : original'[w] = original[w]
  /\ \A w \in Volumes \ {v} : replicas(w)' = replicas(w) /\ Synced(w)' = Synced(w)
  /\ v \in Healthy' =>
     \/ /\ Cardinality(replicas(v)) < numReplicas[v]
        /\ topology[v] \in {p, NoPool}
        /\ p \notin replicas(v)
        /\ replicas(v)' = replicas(v) \union {p}
        /\ Synced(v)' = Synced(v)
     \/ /\ replicas(v)' = replicas(v)
        /\ Synced(v)' = Synced(v) \union {p}
     \/ /\ Cardinality(replicas(v)) > numReplicas[v]
        /\ p # topology[v]
        /\ p \in replicas(v)
        /\ replicas(v)' = replicas(v) \ {p}
        /\ Synced(v)' = Synced(v) \ {p}

LEMMA MayastorDoes ==
  ASSUME TypeInv, NoneFaulted, Mayastor
  PROVE  \E v \in Volumes, p \in Pools : MayastorEffect(v, p)
<1>1. /\ replica \in [Volumes -> [Pools -> ReplicaStates]]
      /\ original \in [Volumes -> Nat]
  BY DEF TypeInv, TypeOK
<1>2. PICK v \in Volumes, p \in Pools :
        \/ AddReplica(v, p) \/ FinishSync(v, p) \/ RemoveSurplus(v, p)
        \/ Fault(v, p) \/ Repair(v, p)
  BY DEF Mayastor
<1>3. /\ UNCHANGED <<numReplicas, topology, mig>>
      /\ Healthy' \subseteq Healthy /\ \A w \in Healthy' : original'[w] = original[w]
  <2>1. PICK state \in ReplicaStates : SetReplica(v, p, state)
    BY <1>2 DEF AddReplica, FinishSync, RemoveSurplus, Fault, Repair, ReplicaStates
  <2> QED
    BY <2>1, <1>1 DEF SetReplica, Healthy
<1>4. \A w \in Volumes \ {v} : replicas(w)' = replicas(w) /\ Synced(w)' = Synced(w)
  BY <1>1, <1>2 DEF AddReplica, FinishSync, RemoveSurplus, Fault, Repair,
                     SetReplica, replicas, Synced
<1>5. CASE AddReplica(v, p)
  <2>1. replica' = [replica EXCEPT ![v][p] = "rebuilding"] /\ replica[v][p] = "absent"
    BY <1>5 DEF AddReplica, SetReplica
  <2>2. \A q \in Pools : replica'[v][q] = IF q = p THEN "rebuilding" ELSE replica[v][q]
    BY <2>1, <1>1
  <2>3. replicas(v)' = replicas(v) \union {p} /\ p \notin replicas(v)
    BY <2>1, <2>2 DEF replicas
  <2>4. Synced(v)' = Synced(v)
    BY <2>1, <2>2 DEF Synced
  <2> QED
    BY <2>3, <2>4, <1>3, <1>4, <1>5 DEF AddReplica, MayastorEffect
<1>6. CASE FinishSync(v, p)
  BY <1>1, <1>3, <1>4, <1>6 DEF FinishSync, SetReplica, replicas, Synced, MayastorEffect
<1>7. CASE RemoveSurplus(v, p)
  <2>1. replica' = [replica EXCEPT ![v][p] = "absent"] /\ replica[v][p] # "absent"
    BY <1>7 DEF RemoveSurplus, SetReplica
  <2>2. \A q \in Pools : replica'[v][q] = IF q = p THEN "absent" ELSE replica[v][q]
    BY <2>1, <1>1
  <2>3. replicas(v)' = replicas(v) \ {p} /\ p \in replicas(v)
    BY <2>1, <2>2 DEF replicas
  <2>4. Synced(v)' = Synced(v) \ {p}
    BY <2>1, <2>2 DEF Synced
  <2> QED
    BY <2>3, <2>4, <1>3, <1>4, <1>7 DEF RemoveSurplus, MayastorEffect
<1>8. CASE v \notin Healthy'
  BY <1>3, <1>4, <1>8 DEF MayastorEffect
<1>9. v \in Healthy' => ~Fault(v, p) /\ ~Repair(v, p)
  BY <1>1, <1>3 DEF Healthy, NoneFaulted, Fault, Repair, SetReplica
<1> QED
  BY <1>2, <1>5, <1>6, <1>7, <1>8, <1>9
-----------------------------------------------------------------------------
(* No migration asks for fewer replicas than the owner did.                *)

\* The count a call works with was read when the volume had at least its
\* original replicas, and Mayastor removes none below the count in the spec.
CountInv ==
  /\ TypeInv
  /\ NoneFaulted
  /\ \A v \in Healthy :
       original[v] <= numReplicas[v] /\ original[v] <= Cardinality(replicas(v))
  /\ \A c \in Callers :
       mig[c].vol \in Healthy /\ mig[c].pc \in {"scale_up", "wait_sync", "scale_down"} =>
         original[mig[c].vol] <= mig[c].initial

\* One replica more or less changes the count by one.
LEMMA CountChanges ==
  ASSUME NEW v \in Volumes, NEW p \in Pools
  PROVE  /\ p \notin replicas(v) =>
              Cardinality(replicas(v) \union {p}) = Cardinality(replicas(v)) + 1
         /\ p \in replicas(v) =>
              Cardinality(replicas(v) \ {p}) = Cardinality(replicas(v)) - 1
BY CountIsNat, FS_AddElement, FS_RemoveElement

LEMMA NoneFaultedStep ==
  ASSUME TypeInv, NoneFaulted, [Next]_vars
  PROVE  NoneFaulted'
<1>1. CASE UNCHANGED <<replica, original>>
  BY <1>1 DEF NoneFaulted, Healthy
<1>2. ASSUME NEW c \in Callers, CallerEffect(c) PROVE UNCHANGED <<replica, original>>
  BY <1>2 DEF CallerEffect, PatchScaleUp, PatchScaleDown, cluster
<1>3. CASE Mayastor
  <2>1. PICK v \in Volumes, p \in Pools, s \in ReplicaStates : SetReplica(v, p, s)
    BY <1>3 DEF Mayastor, AddReplica, FinishSync, RemoveSurplus, Fault, Repair,
                ReplicaStates
  <2> QED
    BY <2>1 DEF SetReplica, TypeInv, TypeOK, NoneFaulted, Healthy
<1> QED
  BY <1>1, <1>2, <1>3, CallersDo DEF Next, Restart, cluster, vars

LEMMA CountInvInit == Init => CountInv
<1> SUFFICES ASSUME Init PROVE CountInv
  OBVIOUS
<1>1. TypeInv
  BY InitTypeInv
<1>2. NoneFaulted
  BY DEF Init, NoneFaulted, Healthy
<1>3. \A v \in Volumes : numReplicas[v] = Cardinality(replicas(v)) /\ original[v] = numReplicas[v]
  BY DEF Init
<1>4. \A v \in Volumes : Cardinality(replicas(v)) \in Nat
  BY CountIsNat
<1> QED
  BY <1>1, <1>2, <1>3, <1>4 DEF CountInv, Init, Idle, Healthy

LEMMA CountInvStep == CountInv /\ [Next]_vars => CountInv'
<1> SUFFICES ASSUME CountInv, [Next]_vars PROVE CountInv'
  OBVIOUS
<1>1. TypeInv' /\ NoneFaulted'
  BY StepTypeInv, NoneFaultedStep DEF CountInv
<1> DEFINE
     k(v) == Cardinality(replicas(v))
     Volume(v) == original[v] <= numReplicas[v] /\ original[v] <= k(v)
     Caller(d) == mig[d].vol \in Healthy
                    /\ mig[d].pc \in {"scale_up", "wait_sync", "scale_down"} =>
                    original[mig[d].vol] <= mig[d].initial
<1>2. (\A v \in Healthy : Volume(v)) /\ (\A d \in Callers : Caller(d))
  BY DEF CountInv
<1>3. SUFFICES (\A v \in Healthy' : Volume(v)') /\ (\A d \in Callers : Caller(d)')
  BY <1>1 DEF CountInv
<1>4. /\ numReplicas \in [Volumes -> Nat] /\ original \in [Volumes -> Nat]
      /\ \A v \in Volumes : k(v) \in Nat
      /\ \A d \in Callers : mig[d].initial \in Nat
      /\ Healthy \subseteq Volumes
      /\ \A d \in Callers : mig[d].pc # "idle" => mig[d].vol \in Volumes
  BY CountIsNat, MigratorAssumption DEF CountInv, TypeInv, TypeOK, WellFormed, Calls, Healthy
<1>5. ASSUME NEW c \in Callers, CallerEffect(c)
      PROVE  (\A v \in Healthy' : Volume(v)') /\ (\A d \in Callers : Caller(d)')
  <2>1. UNCHANGED <<original, replica, Healthy>>
    BY <1>5 DEF CallerEffect, PatchScaleUp, PatchScaleDown, cluster, Healthy
  <2>2. \A v \in Volumes : k(v)' = k(v)
    BY <2>1 DEF replicas
  <2> HIDE DEF k
  <2>3. CASE UNCHANGED cluster
    <3>1. Caller(c)'
      BY <1>5, <2>1, <2>2, <2>3, <1>2, <1>4
         DEF CallerEffect, SameCall, PatchScaleUp, PatchScaleDown, cluster, k
    <3> QED
      BY <3>1, <1>5, <2>1, <2>2, <2>3, <1>2, <1>4 DEF CallerEffect, cluster
  <2>4. CASE PatchScaleUp(c) /\ mig[c].pc = "scale_up" /\ SameCall(c)
    BY <1>5, <2>1, <2>2, <2>4, <1>2, <1>4 DEF CallerEffect, PatchScaleUp, SameCall
  <2>5. CASE PatchScaleDown(c) /\ mig[c].pc = "scale_down" /\ SameCall(c)
    BY <1>5, <2>1, <2>2, <2>5, <1>2, <1>4 DEF CallerEffect, PatchScaleDown, SameCall
  <2> QED
    BY <1>5, <2>3, <2>4, <2>5 DEF CallerEffect
<1>6. CASE Mayastor
  <2>1. PICK v \in Volumes, p \in Pools : MayastorEffect(v, p)
    BY <1>6, MayastorDoes DEF CountInv
  <2>2. \A w \in Volumes \ {v} : k(w)' = k(w)
    BY <2>1 DEF MayastorEffect
  <2>3. ASSUME v \in Healthy'
        PROVE  \/ k(v)' \in {k(v), k(v) + 1}
               \/ k(v) > numReplicas[v] /\ k(v)' = k(v) - 1
    BY <2>1, <2>3, CountChanges DEF MayastorEffect
  <2> HIDE DEF k
  <2>4. v \in Healthy' => Volume(v)'
    BY <2>1, <2>3, <1>2, <1>4 DEF MayastorEffect
  <2> QED
    BY <2>1, <2>2, <2>4, <1>2, <1>4 DEF MayastorEffect
<1>7. CASE Restart \/ UNCHANGED vars
  BY <1>7, <1>2 DEF Restart, Idle, vars, cluster, replicas, Healthy
<1> QED
  BY <1>5, <1>6, <1>7, CallersDo DEF Next, CountInv

\* Whatever is aborted, retried, duplicated or lost in a restart, and for any
\* overlap of the callers' volumes: until one of its replicas faults, a volume is
\* never left with fewer replicas asked for than at the start.
THEOREM CountIsRestored == Spec => []NeverBelowOriginal
<1>1. CountInv => NeverBelowOriginal
  BY DEF CountInv, NeverBelowOriginal, TypeInv, TypeOK, Healthy
<1>2. Spec => []CountInv
  BY CountInvInit, CountInvStep, PTL DEF Spec
<1> QED
  BY <1>1, <1>2, PTL
-----------------------------------------------------------------------------
(* Callers that share no volume exclude each other.                        *)

\* No two policies select the same volume.
Separate ==
  \A c, d \in Callers : MaySelect[c] \cap MaySelect[d] # {} => c = d

\* No two calls in progress work on the same volume.
NoOverlap ==
  \A c, d \in Callers :
    mig[c].pc # "idle" /\ mig[d].pc # "idle" /\ mig[c].vol = mig[d].vol => c = d

LEMMA SeparateCallers == ASSUME Separate PROVE TypeInv => NoOverlap
BY DEF Separate, NoOverlap, TypeInv, WellFormed

LEMMA NoOverlapExcludes == NoOverlap => AtMostOneMigrationPerVolume
BY DEF NoOverlap, AtMostOneMigrationPerVolume, Registered

\* With separate policies a volume is in at most one migration: the check of
\* active_migrations and the insertion need not be one step then.
THEOREM Exclusive == ASSUME Separate PROVE Spec => []AtMostOneMigrationPerVolume
BY SeparateCallers, NoOverlapExcludes, TypeCorrect, PTL

SpecInv == TypeInv /\ SpecIsTheCallers

LEMMA SpecInvStep == NoOverlap /\ SpecInv /\ [Next]_vars => SpecInv'
<1> SUFFICES ASSUME NoOverlap, SpecInv, [Next]_vars PROVE SpecInv'
  OBVIOUS
<1>1. TypeInv'
  BY StepTypeInv DEF SpecInv
<1> DEFINE Caller(d) ==
      mig[d].pc \in {"wait_sync", "scale_down"} =>
        /\ topology[mig[d].vol] = mig[d].target
        /\ numReplicas[mig[d].vol] = mig[d].initial + 1
<1>2. \A d \in Callers : Caller(d)
  BY DEF SpecInv, SpecIsTheCallers
<1>3. SUFFICES \A d \in Callers : Caller(d)'
  BY <1>1 DEF SpecInv, SpecIsTheCallers
<1>4. /\ numReplicas \in [Volumes -> Nat]
      /\ topology \in [Volumes -> Pools \union {NoPool}]
      /\ \A d \in Callers : mig[d].pc # "idle" => mig[d].vol \in Volumes
  BY MigratorAssumption DEF SpecInv, TypeInv, TypeOK, WellFormed
<1>5. ASSUME NEW c \in Callers, CallerEffect(c)
      PROVE  \A d \in Callers : Caller(d)'
  <2>1. Caller(c)'
    BY <1>5, <1>2, <1>4 DEF CallerEffect, SameCall, PatchScaleUp, cluster
  <2>2. ASSUME NEW d \in Callers \ {c} PROVE Caller(d)'
    <3>1. mig'[d] = mig[d]
      BY <1>5 DEF CallerEffect
    <3>2. CASE UNCHANGED cluster
      BY <3>1, <3>2, <1>2 DEF cluster
    <3>3. CASE ~UNCHANGED cluster /\ mig[d].pc # "idle"
      <4>1. mig[c].pc # "idle" /\ mig[d].vol # mig[c].vol
        BY <1>5, <3>3 DEF CallerEffect, NoOverlap
      <4> QED
        BY <1>5, <3>1, <3>3, <4>1, <1>2, <1>4
           DEF CallerEffect, PatchScaleUp, PatchScaleDown
    <3> QED
      BY <3>1, <3>2, <3>3
  <2> QED
    BY <2>1, <2>2
<1>6. CASE Mayastor
  <2>1. UNCHANGED <<numReplicas, topology, mig>>
    BY <1>6 DEF Mayastor, AddReplica, FinishSync, RemoveSurplus, Fault, Repair, SetReplica
  <2> QED
    BY <2>1, <1>2
<1>7. CASE Restart \/ UNCHANGED vars
  BY <1>7, <1>2 DEF Restart, Idle, vars, cluster
<1> QED
  BY <1>5, <1>6, <1>7, CallersDo DEF Next, SpecInv

\* While calls on the same volume do not overlap, nobody redirects or resizes a
\* volume while a call waits for its replica, even when replicas fault.
LEMMA SpecIsKeptWithoutOverlap == Spec /\ []NoOverlap => []SpecIsTheCallers
<1>1. Init => SpecInv
  BY InitTypeInv DEF SpecInv, SpecIsTheCallers, Init, Idle
<1>2. SpecInv => SpecIsTheCallers
  BY DEF SpecInv
<1> QED
  BY <1>1, <1>2, SpecInvStep, PTL DEF Spec

\* With separate policies no call's target or count is changed under it.
THEOREM SpecIsKept == ASSUME Separate PROVE Spec => []SpecIsTheCallers
BY SpecIsKeptWithoutOverlap, SeparateCallers, TypeCorrect, PTL

-----------------------------------------------------------------------------
(* No data loss.                                                           *)

\* Why the synced replica survives.  A surplus exists only on a volume whose
\* topology names a synced replica, which Mayastor spares; scaling up creates
\* no surplus, because since the count was taken at most one replica can have
\* been added; scaling down creates one only when the target is synced.
DataInv ==
  /\ SpecInv
  /\ NoneFaulted
  /\ \A v \in Healthy :
       /\ Synced(v) # {}
       /\ Cardinality(replicas(v)) > numReplicas[v] => topology[v] \in Synced(v)
       /\ topology[v] = NoPool => Cardinality(replicas(v)) >= numReplicas[v]
  /\ \A c \in Callers :
       LET v == mig[c].vol IN
       v \in Healthy =>
       /\ mig[c].pc = "scale_up" =>
            \/ Cardinality(replicas(v)) <= mig[c].initial
            \/ /\ Cardinality(replicas(v)) = mig[c].initial + 1
               /\ \/ topology[v] \in replicas(v)
                  \/ Cardinality(replicas(v)) >= numReplicas[v]
       /\ mig[c].pc = "scale_down" => mig[c].target \in Synced(v)

LEMMA DataInvStep == NoOverlap /\ DataInv /\ [Next]_vars => DataInv'
<1> SUFFICES ASSUME NoOverlap, DataInv, [Next]_vars PROVE DataInv'
  OBVIOUS
<1>1. SpecInv' /\ NoneFaulted'
  BY SpecInvStep, NoneFaultedStep DEF DataInv, SpecInv
<1> DEFINE
     k(v) == Cardinality(replicas(v))
     Volume(v) ==
       /\ Synced(v) # {}
       /\ k(v) > numReplicas[v] => topology[v] \in Synced(v)
       /\ topology[v] = NoPool => k(v) >= numReplicas[v]
     Up(d) == mig[d].vol \in Healthy /\ mig[d].pc = "scale_up" =>
       \/ k(mig[d].vol) <= mig[d].initial
       \/ /\ k(mig[d].vol) = mig[d].initial + 1
          /\ \/ topology[mig[d].vol] \in replicas(mig[d].vol)
             \/ k(mig[d].vol) >= numReplicas[mig[d].vol]
     Down(d) == mig[d].vol \in Healthy /\ mig[d].pc = "scale_down" =>
       mig[d].target \in Synced(mig[d].vol)
     Goal == /\ \A v \in Healthy : Volume(v)
             /\ \A d \in Callers : Up(d) /\ Down(d)
<1>2. Goal
  BY DEF DataInv
<1>3. SUFFICES Goal'
  BY <1>1 DEF DataInv
<1>4. /\ numReplicas \in [Volumes -> Nat]
      /\ topology \in [Volumes -> Pools \union {NoPool}]
      /\ \A v \in Volumes : k(v) \in Nat
      /\ \A v \in Volumes : Synced(v) \subseteq Pools /\ replicas(v) \subseteq Pools
      /\ \A d \in Callers : mig[d].initial \in Nat
      /\ \A d \in Callers : mig[d].pc # "idle" => mig[d].vol \in Volumes
      /\ \A d \in Callers :
           mig[d].pc \in {"scale_up", "wait_sync", "scale_down"} => mig[d].target \in Pools
      /\ NoPool \notin Pools
      /\ Healthy \subseteq Volumes
  BY CountIsNat, MigratorAssumption
     DEF DataInv, SpecInv, TypeInv, TypeOK, WellFormed, Calls, Synced, replicas, Healthy
<1>5. \A d \in Callers : mig[d].pc \in {"wait_sync", "scale_down"} =>
        /\ topology[mig[d].vol] = mig[d].target
        /\ numReplicas[mig[d].vol] = mig[d].initial + 1
  BY DEF DataInv, SpecInv, SpecIsTheCallers
<1>6. \A c, d \in Callers :
        mig[c].pc # "idle" /\ mig[d].pc # "idle" /\ mig[c].vol = mig[d].vol => c = d
  BY DEF NoOverlap
<1>7. ASSUME NEW c \in Callers, CallerEffect(c) PROVE Goal'
  <2>1. UNCHANGED <<replica, Healthy>>
    BY <1>7 DEF CallerEffect, PatchScaleUp, PatchScaleDown, cluster, Healthy
  <2>2. \A v \in Volumes : /\ k(v)' = k(v)
                           /\ Synced(v)' = Synced(v)
                           /\ replicas(v)' = replicas(v)
    BY <2>1 DEF replicas, Synced
  <2> HIDE DEF k
  <2>3. CASE UNCHANGED cluster
    <3>1. \A v \in Healthy' : Volume(v)'
      BY <2>1, <2>2, <2>3, <1>2, <1>4 DEF cluster
    <3>2. Up(c)' /\ Down(c)'
      BY <1>7, <2>1, <2>2, <2>3, <1>2, <1>4
         DEF CallerEffect, SameCall, PatchScaleUp, PatchScaleDown, cluster, k
    <3>3. ASSUME NEW d \in Callers \ {c} PROVE Up(d)' /\ Down(d)'
      BY <1>7, <2>1, <2>2, <2>3, <1>2, <1>4 DEF CallerEffect, cluster
    <3> QED
      BY <3>1, <3>2, <3>3
  <2>4. ASSUME PatchScaleUp(c) \/ PatchScaleDown(c),
               mig[c].pc \in {"scale_up", "scale_down"},
               NEW d \in Callers \ {c}
        PROVE  Up(d)' /\ Down(d)'
    <3>1. mig'[d] = mig[d]
      BY <1>7 DEF CallerEffect
    <3>2. CASE mig[d].pc # "idle"
      <4>1. mig[d].vol # mig[c].vol /\ mig[d].vol \in Volumes /\ mig[c].vol \in Volumes
        BY <2>4, <3>2, <1>6, <1>4
      <4>2. /\ numReplicas'[mig[d].vol] = numReplicas[mig[d].vol]
            /\ topology'[mig[d].vol] = topology[mig[d].vol]
        BY <4>1, <2>4, <1>4 DEF PatchScaleUp, PatchScaleDown
      <4> QED
        BY <3>1, <4>1, <4>2, <2>1, <2>2, <1>2
    <3> QED
      BY <3>1, <3>2
  <2>5. CASE /\ PatchScaleUp(c)
             /\ mig[c].pc = "scale_up" /\ mig'[c].pc \in {"wait_sync", "cleanup"}
    <3>1. /\ mig[c].vol \in Healthy => k(mig[c].vol) <= mig[c].initial + 1
          /\ mig[c].vol \in Volumes
      BY <2>5, <1>2, <1>4
    <3>2. \A v \in Healthy' : Volume(v)'
      BY <2>1, <2>5, <2>2, <3>1, <1>2, <1>4 DEF PatchScaleUp
    <3> QED
      BY <3>2, <2>4, <2>5
  <2>6. CASE /\ PatchScaleDown(c)
             /\ mig[c].pc = "scale_down" /\ mig'[c].pc = "cleanup"
    <3>1. /\ mig[c].vol \in Healthy => topology[mig[c].vol] \in Synced(mig[c].vol)
          /\ mig[c].vol \in Volumes
      BY <2>6, <1>2, <1>4, <1>5
    <3>2. \A v \in Healthy' : Volume(v)'
      BY <2>1, <2>6, <2>2, <3>1, <1>2, <1>4 DEF PatchScaleDown
    <3> QED
      BY <3>2, <2>4, <2>6
  <2> QED
    BY <1>7, <2>3, <2>5, <2>6 DEF CallerEffect
<1>8. CASE Mayastor
  <2>1. PICK v \in Volumes, p \in Pools : MayastorEffect(v, p)
    BY <1>8, MayastorDoes DEF DataInv, SpecInv
  <2>2. UNCHANGED <<numReplicas, topology, mig>> /\ Healthy' \subseteq Healthy
    BY <2>1 DEF MayastorEffect
  <2>3. \A w \in Volumes \ {v} : /\ k(w)' = k(w)
                                 /\ Synced(w)' = Synced(w)
                                 /\ replicas(w)' = replicas(w)
    BY <2>1 DEF MayastorEffect
  <2>4. CASE /\ k(v) < numReplicas[v]
             /\ topology[v] = p
             /\ k(v)' = k(v) + 1
             /\ p \in replicas(v)' /\ p \notin replicas(v)
             /\ Synced(v)' = Synced(v)
    <3> HIDE DEF k
    <3>1. v \in Healthy' => Volume(v)'
      BY <2>2, <2>4, <1>2, <1>4
    <3>2. ASSUME NEW d \in Callers, mig[d].vol = v PROVE Up(d)' /\ Down(d)'
      BY <2>2, <2>4, <3>2, <1>2, <1>4
    <3>3. ASSUME NEW d \in Callers, mig[d].vol # v PROVE Up(d)' /\ Down(d)'
      BY <2>2, <2>3, <3>3, <1>2, <1>4
    <3> QED
      BY <2>2, <2>3, <3>1, <3>2, <3>3, <1>2, <1>4
  <2>5. CASE /\ k(v)' = k(v)
             /\ replicas(v)' = replicas(v)
             /\ Synced(v)' = Synced(v) \union {p}
    <3> HIDE DEF k
    <3>1. v \in Healthy' => Volume(v)'
      BY <2>2, <2>5, <1>2, <1>4
    <3>2. ASSUME NEW d \in Callers, mig[d].vol = v PROVE Up(d)' /\ Down(d)'
      BY <2>2, <2>5, <3>2, <1>2, <1>4
    <3>3. ASSUME NEW d \in Callers, mig[d].vol # v PROVE Up(d)' /\ Down(d)'
      BY <2>2, <2>3, <3>3, <1>2, <1>4
    <3> QED
      BY <2>2, <2>3, <3>1, <3>2, <3>3, <1>2, <1>4
  <2>6. CASE /\ k(v) > numReplicas[v]
             /\ p # topology[v]
             /\ k(v)' = k(v) - 1
             /\ replicas(v)' = replicas(v) \ {p}
             /\ Synced(v)' = Synced(v) \ {p}
    <3> HIDE DEF k
    <3>1. v \in Healthy' => Volume(v)'
      BY <2>2, <2>6, <1>2, <1>4
    <3>2. ASSUME NEW d \in Callers, mig[d].vol = v PROVE Up(d)' /\ Down(d)'
      BY <2>2, <2>6, <3>2, <1>2, <1>4, <1>5
    <3>3. ASSUME NEW d \in Callers, mig[d].vol # v PROVE Up(d)' /\ Down(d)'
      BY <2>2, <2>3, <3>3, <1>2, <1>4
    <3> QED
      BY <2>2, <2>3, <3>1, <3>2, <3>3, <1>2, <1>4
  <2>7. v \in Healthy /\ topology[v] = NoPool => ~(k(v) < numReplicas[v])
    BY <1>2, <1>4
  <2>8. CASE v \notin Healthy'
    <3> HIDE DEF k
    <3>1. ASSUME NEW d \in Callers, mig[d].vol = v PROVE Up(d)' /\ Down(d)'
      BY <2>2, <2>8, <3>1
    <3>2. ASSUME NEW d \in Callers, mig[d].vol # v PROVE Up(d)' /\ Down(d)'
      BY <2>2, <2>3, <3>2, <1>2, <1>4
    <3> QED
      BY <2>2, <2>3, <2>8, <3>1, <3>2, <1>2, <1>4
  <2> QED
    BY <2>1, <2>4, <2>5, <2>6, <2>7, <2>8, CountChanges DEF MayastorEffect
<1>9. CASE Restart \/ UNCHANGED vars
  BY <1>9, <1>2 DEF Restart, Idle, vars, cluster, replicas, Synced, Healthy
<1> QED
  BY <1>7, <1>8, <1>9, CallersDo DEF Next, DataInv, SpecInv

\* While calls on the same volume do not overlap, a synced replica survives.
LEMMA NoDataLossWithoutOverlap == Spec /\ []NoOverlap => []KeepsSyncedReplica
<1>1. Init => DataInv
  <2> SUFFICES ASSUME Init PROVE DataInv
    OBVIOUS
  <2>1. TypeInv /\ SpecIsTheCallers /\ NoneFaulted
    BY InitTypeInv DEF SpecIsTheCallers, Init, Idle, NoneFaulted, Healthy
  <2>2. \A v \in Volumes : Cardinality(replicas(v)) \in Nat
    BY CountIsNat
  <2> QED
    BY <2>1, <2>2 DEF Init, Idle, DataInv, SpecInv, Healthy
<1>2. DataInv => KeepsSyncedReplica
  BY DEF DataInv, KeepsSyncedReplica, Healthy
<1> QED
  BY <1>1, <1>2, DataInvStep, PTL DEF Spec

\* The guarantee the migrator is built for, for separate policies: through any
\* sequence of completed, aborted, retried and interrupted migrations, every
\* volume keeps a synced replica until one faults by itself.
THEOREM NoDataLoss == ASSUME Separate PROVE Spec => []KeepsSyncedReplica
BY NoDataLossWithoutOverlap, SeparateCallers, TypeCorrect, PTL

-----------------------------------------------------------------------------
(* The modes of the command line.                                          *)

\* No call comes to the first patch in a dry run, nor to the second in
\* preservation mode.
LEMMA ModesAreHeeded ==
  ASSUME TypeInv, NEW c \in Callers, Call(c) \/ Step(c) \/ Return(c)
  PROVE  /\ mig'[c].pc = "scale_up" => ~config.dry_run
         /\ mig'[c].pc = "scale_down" => ~config.preservation_mode
<1>1. CallerEffect(c)
  BY CallersDo
<1>2. /\ mig \in [Callers -> Calls] /\ mig[c] \in Calls
      /\ \A pc \in Pcs, ok \in BOOLEAN : Finish(c, pc, ok) => Moves(c, pc)
      /\ \A pc \in Pcs : Goto(c, pc) => Moves(c, pc)
  BY GotoMoves, FinishMoves DEF TypeInv, TypeOK
<1>3. ASSUME mig'[c].pc = "scale_up" PROVE ~config.dry_run
  <2>1. mig[c].pc = "count" /\ mig'[c].pc # "idle"
    BY <1>1, <1>3 DEF CallerEffect
  <2>2. ~Call(c) /\ ~Return(c)
    BY <2>1 DEF Call, Refuse, Accept, Return
  <2>3. CountReplicas(c)
    BY <2>1, <2>2 DEF Step, GetVolume, GetVolumeFails, Register, CheckPool, ScaleUp, PollSync,
                      SyncTimeout, ScaleDown, Cleanup, EcDryRun, EcCheckPool, EcPoolOffline,
                      EcPoolGetFails
  <2>4. CASE Finish(c, "cleanup", FALSE)
    BY <2>4, <1>2, <1>3 DEF Moves, Pcs
  <2>5. CASE ~Finish(c, "cleanup", FALSE)
    <3>1. mig' = [mig EXCEPT ![c] = [mig[c] EXCEPT
                    !.initial = Cardinality(replicas(mig[c].vol)),
                    !.pc = IF config.dry_run THEN "cleanup" ELSE "scale_up",
                    !.ok = config.dry_run]]
      BY <2>3, <2>5, <1>2 DEF CountReplicas
    <3>2. mig'[c].pc = IF config.dry_run THEN "cleanup" ELSE "scale_up"
      BY <3>1, <1>2 DEF Calls
    <3> QED
      BY <3>2, <1>3
  <2> QED
    BY <2>4, <2>5
<1>4. ASSUME mig'[c].pc = "scale_down" PROVE ~config.preservation_mode
  <2>1. mig[c].pc = "wait_sync"
    BY <1>1, <1>4 DEF CallerEffect
  <2>2. ~Call(c) /\ ~Return(c)
    BY <2>1 DEF Call, Refuse, Accept, Return
  <2>3. PollSync(c) \/ SyncTimeout(c)
    BY <2>1, <2>2 DEF Step, GetVolume, GetVolumeFails, Register, CheckPool, CountReplicas,
                      ScaleUp, ScaleDown, Cleanup, EcDryRun, EcCheckPool, EcPoolOffline,
                      EcPoolGetFails
  <2>4. ~Finish(c, "cleanup", TRUE) /\ ~Finish(c, "cleanup", FALSE)
    BY <1>2, <1>4 DEF Moves, Pcs
  <2> QED
    BY <2>3, <2>4 DEF PollSync, SyncTimeout
<1> QED
  BY <1>3, <1>4

\* In a dry run no call is between the patches.
DryInv ==
  /\ TypeInv
  /\ config.dry_run =>
       \A c \in Callers : mig[c].pc \notin {"scale_up", "wait_sync", "scale_down"}

LEMMA DryInvStep ==
  DryInv /\ [Next]_vars =>
    DryInv' /\ (config.dry_run => UNCHANGED <<numReplicas, topology>>)
<1> SUFFICES ASSUME DryInv, [Next]_vars
             PROVE  DryInv' /\ (config.dry_run => UNCHANGED <<numReplicas, topology>>)
  OBVIOUS
<1>1. TypeInv'
  BY StepTypeInv DEF DryInv
<1>2. ASSUME NEW c \in Callers, Call(c) \/ Step(c) \/ Return(c)
      PROVE  DryInv' /\ (config.dry_run => UNCHANGED <<numReplicas, topology>>)
  <2>1. CallerEffect(c) /\ (mig'[c].pc = "scale_up" => ~config.dry_run)
    BY <1>2, CallersDo, ModesAreHeeded DEF DryInv
  <2>2. config' = config /\ \A d \in Callers \ {c} : mig'[d] = mig[d]
    BY <2>1 DEF CallerEffect, PatchScaleUp, PatchScaleDown, cluster
  <2>3. ASSUME config.dry_run
        PROVE  /\ UNCHANGED <<numReplicas, topology>>
               /\ mig'[c].pc \notin {"scale_up", "wait_sync", "scale_down"}
    BY <2>1, <2>3 DEF DryInv, CallerEffect, cluster
  <2> QED
    BY <1>1, <2>2, <2>3 DEF DryInv
<1>3. CASE Mayastor
  <2>1. UNCHANGED <<config, numReplicas, topology, mig>>
    BY <1>3 DEF Mayastor, AddReplica, FinishSync, RemoveSurplus, Fault, Repair, SetReplica
  <2> QED
    BY <1>1, <2>1 DEF DryInv
<1>4. CASE Restart \/ UNCHANGED vars
  BY <1>1, <1>4 DEF DryInv, Restart, Idle, vars, cluster
<1> QED
  BY <1>2, <1>3, <1>4 DEF Next

LEMMA DryInvInit == Init => DryInv
BY InitTypeInv DEF DryInv, Init, Idle

\* Whatever calls overlap, a dry run patches no spec.
THEOREM DryRunsWriteNothing == Spec => WritesNoSpec
<1>1. DryInv /\ [Next]_vars => [config.dry_run => UNCHANGED <<numReplicas, topology>>]_vars
  BY DryInvStep
<1> QED
  BY <1>1, DryInvInit, DryInvStep, PTL DEF Spec, WritesNoSpec

\* Why preservation mode removes nothing: without scaling down a volume asks for what it
\* has or for one replica more, also when a migration is aborted and tried again; and
\* since a call counted, at most the one replica the volume then wanted was added.
PreserveInv ==
  /\ TypeInv /\ NoneFaulted
  /\ config.preservation_mode =>
       /\ \A v \in Healthy :
            /\ Cardinality(replicas(v)) <= numReplicas[v]
            /\ numReplicas[v] <= Cardinality(replicas(v)) + 1
       /\ \A c \in Callers :
            /\ mig[c].pc # "scale_down"
            /\ mig[c].vol \in Healthy /\ mig[c].pc = "scale_up" =>
                 /\ mig[c].initial <= Cardinality(replicas(mig[c].vol))
                 /\ Cardinality(replicas(mig[c].vol)) <= mig[c].initial + 1
                 /\ numReplicas[mig[c].vol] <= mig[c].initial + 1

Preserves == \A v \in Healthy : replicas(v) \subseteq replicas(v)'

LEMMA PreserveInvInit == Init => PreserveInv
<1> SUFFICES ASSUME Init PROVE PreserveInv
  OBVIOUS
<1>1. TypeInv /\ NoneFaulted
  BY InitTypeInv DEF Init, NoneFaulted, Healthy
<1>2. \A v \in Volumes : Cardinality(replicas(v)) \in Nat /\ numReplicas[v] = Cardinality(replicas(v))
  BY CountIsNat DEF Init
<1> QED
  BY <1>1, <1>2 DEF PreserveInv, Init, Idle, Healthy

LEMMA PreserveInvStep ==
  NoOverlap /\ PreserveInv /\ [Next]_vars =>
    PreserveInv' /\ (config.preservation_mode => Preserves)
<1> SUFFICES ASSUME NoOverlap, PreserveInv, [Next]_vars
             PROVE  PreserveInv' /\ (config.preservation_mode => Preserves)
  OBVIOUS
<1>1. TypeInv' /\ NoneFaulted'
  BY StepTypeInv, NoneFaultedStep DEF PreserveInv
<1>2. config' = config
  <2>1. ASSUME NEW c \in Callers, CallerEffect(c) PROVE config' = config
    BY <2>1 DEF CallerEffect, PatchScaleUp, PatchScaleDown, cluster
  <2> QED
    BY <2>1, CallersDo DEF PreserveInv, Next, Mayastor, AddReplica, FinishSync, RemoveSurplus,
                           Fault, Repair, SetReplica, Restart, vars, cluster
<1>3. CASE ~config.preservation_mode
  BY <1>1, <1>2, <1>3 DEF PreserveInv
<1>4. CASE config.preservation_mode
  <2> DEFINE
       k(v) == Cardinality(replicas(v))
       Volume(v) == k(v) <= numReplicas[v] /\ numReplicas[v] <= k(v) + 1
       Caller(d) ==
         /\ mig[d].pc # "scale_down"
         /\ mig[d].vol \in Healthy /\ mig[d].pc = "scale_up" =>
              /\ mig[d].initial <= k(mig[d].vol) /\ k(mig[d].vol) <= mig[d].initial + 1
              /\ numReplicas[mig[d].vol] <= mig[d].initial + 1
  <2>1. (\A v \in Healthy : Volume(v)) /\ (\A d \in Callers : Caller(d))
    BY <1>4 DEF PreserveInv
  <2>2. SUFFICES (\A v \in Healthy' : Volume(v)') /\ (\A d \in Callers : Caller(d)') /\ Preserves
    BY <1>1 DEF PreserveInv
  <2>3. /\ numReplicas \in [Volumes -> Nat] /\ original \in [Volumes -> Nat]
        /\ \A v \in Volumes : k(v) \in Nat
        /\ \A d \in Callers : mig[d].initial \in Nat
        /\ Healthy \subseteq Volumes
        /\ \A d \in Callers : mig[d].pc # "idle" => mig[d].vol \in Volumes
    BY CountIsNat, MigratorAssumption DEF PreserveInv, TypeInv, TypeOK, WellFormed, Calls, Healthy
  <2>4. ASSUME NEW c \in Callers, Call(c) \/ Step(c) \/ Return(c)
        PROVE  (\A v \in Healthy' : Volume(v)') /\ (\A d \in Callers : Caller(d)') /\ Preserves
    <3>1. CallerEffect(c) /\ mig'[c].pc # "scale_down"
      BY <2>4, <1>4, CallersDo, ModesAreHeeded DEF PreserveInv
    <3>2. UNCHANGED <<original, replica, Healthy>>
      BY <3>1 DEF CallerEffect, PatchScaleUp, PatchScaleDown, cluster, Healthy
    <3>3. (\A v \in Volumes : k(v)' = k(v)) /\ Preserves
      BY <3>2 DEF replicas, Preserves
    <3> HIDE DEF k
    <3>4. CASE UNCHANGED cluster
      <4>1. Caller(c)'
        <5>1. CASE mig'[c].pc = "scale_up"
          <6>1. /\ mig[c].pc = "count" /\ mig'[c].vol = mig[c].vol
                /\ mig'[c].initial = k(mig[c].vol)
            BY <3>1, <5>1 DEF CallerEffect, k
          <6> QED
            BY <6>1, <3>1, <3>2, <3>3, <3>4, <2>1, <2>3 DEF cluster
        <5>2. CASE mig'[c].pc # "scale_up"
          BY <5>2, <3>1
        <5> QED
          BY <5>1, <5>2
      <4> QED
        BY <4>1, <3>1, <3>2, <3>3, <3>4, <2>1, <2>3 DEF CallerEffect, cluster
    <3>5. CASE PatchScaleUp(c) /\ mig[c].pc = "scale_up" /\ SameCall(c) /\ mig'[c].pc # "scale_up"
      <4>1. \A v \in Healthy' : Volume(v)'
        BY <3>2, <3>3, <3>5, <2>1, <2>3 DEF PatchScaleUp
      <4>2. ASSUME NEW d \in Callers \ {c}, mig[d].pc = "scale_up"
            PROVE  mig'[d] = mig[d] /\ mig[d].vol # mig[c].vol
        BY <3>1, <3>5, <4>2 DEF CallerEffect, NoOverlap
      <4>3. \A d \in Callers \ {c} : mig'[d] = mig[d]
        BY <3>1 DEF CallerEffect
      <4> QED
        BY <4>1, <4>2, <4>3, <3>1, <3>2, <3>3, <3>5, <2>1, <2>3 DEF PatchScaleUp
    <3>6. mig[c].pc # "scale_down"
      BY <2>1
    <3> QED
      BY <3>1, <3>3, <3>4, <3>5, <3>6 DEF CallerEffect
  <2>5. CASE Mayastor
    <3>1. PICK v \in Volumes, p \in Pools : MayastorEffect(v, p)
      BY <2>5, MayastorDoes DEF PreserveInv
    <3>2. \A w \in Volumes \ {v} : k(w)' = k(w)
      BY <3>1 DEF MayastorEffect
    <3>3. ASSUME v \in Healthy' PROVE k(v)' \in {k(v), k(v) + 1} /\ k(v)' <= numReplicas[v]
      <4>1. k(v) <= numReplicas[v] /\ k(v) \in Nat /\ numReplicas[v] \in Nat
        BY <3>1, <3>3, <2>1, <2>3 DEF MayastorEffect
      <4>2. \/ k(v) < numReplicas[v] /\ k(v)' = k(v) + 1
            \/ k(v)' = k(v)
            \/ k(v) > numReplicas[v]
        BY <3>1, <3>3, CountChanges DEF MayastorEffect
      <4> HIDE DEF k
      <4> QED
        BY <4>1, <4>2
    <3>4. Preserves
      <4>1. replica \in [Volumes -> [Pools -> ReplicaStates]]
        BY DEF PreserveInv, TypeInv, TypeOK
      <4>2. PICK w \in Volumes, q \in Pools :
              \/ AddReplica(w, q) \/ FinishSync(w, q) \/ RemoveSurplus(w, q)
              \/ Fault(w, q) \/ Repair(w, q)
        BY <2>5 DEF Mayastor
      <4>3. \A v2 \in Healthy : v2 # w => replicas(v2)' = replicas(v2)
        BY <4>1, <4>2, <2>3 DEF AddReplica, FinishSync, RemoveSurplus, Fault, Repair, SetReplica,
                                replicas
      <4>4. ASSUME w \in Healthy PROVE replicas(w) \subseteq replicas(w)'
        <5>1. ~RemoveSurplus(w, q)
          BY <4>4, <2>1, <2>3 DEF RemoveSurplus
        <5>2. ~Repair(w, q)
          BY <4>4 DEF Repair, PreserveInv, NoneFaulted
        <5>3. PICK state \in {"rebuilding", "synced", "faulted"} : SetReplica(w, q, state)
          BY <4>2, <5>1, <5>2 DEF AddReplica, FinishSync, Fault
        <5> QED
          BY <4>1, <5>3 DEF SetReplica, replicas
      <4> QED
        BY <4>3, <4>4, Zenon DEF Preserves
    <3> HIDE DEF k
    <3>5. v \in Healthy' => Volume(v)'
      BY <3>1, <3>3, <2>1, <2>3 DEF MayastorEffect
    <3> QED
      BY <3>1, <3>2, <3>3, <3>4, <3>5, <2>1, <2>3 DEF MayastorEffect
  <2>6. CASE Restart \/ UNCHANGED vars
    <3>1. UNCHANGED <<replica, numReplicas, original>>
      BY <2>6 DEF Restart, vars, cluster
    <3>2. UNCHANGED Healthy /\ Preserves /\ \A v \in Volumes : replicas(v)' = replicas(v)
      BY <3>1 DEF Healthy, Preserves, replicas
    <3>3. \A v \in Healthy' : Volume(v)'
      BY <3>1, <3>2, <2>1, <2>3
    <3>4. CASE Restart
      BY <3>2, <3>3, <3>4 DEF Restart, Idle
    <3>5. CASE UNCHANGED vars
      BY <3>1, <3>2, <3>3, <3>5, <2>1, <2>3 DEF vars
    <3> QED
      BY <3>4, <3>5, <2>6
  <2> QED
    BY <2>4, <2>5, <2>6 DEF Next
<1> QED
  BY <1>3, <1>4

\* While calls on the same volume do not overlap, the modes keep their promises.
LEMMA ModesWithoutOverlap == Spec /\ []NoOverlap => ModesAreRespected
<1>1. NoOverlap /\ PreserveInv /\ [Next]_vars =>
        [config.preservation_mode => \A v \in Healthy : replicas(v) \subseteq replicas(v)']_vars
  BY PreserveInvStep DEF Preserves
<1>2. Spec /\ []NoOverlap => NeverRemovesReplicas
  BY <1>1, PreserveInvInit, PreserveInvStep, PTL DEF Spec, NeverRemovesReplicas
<1> QED
  BY <1>2, DryRunsWriteNothing, PTL DEF ModesAreRespected

\* Preservation mode removes no replica and a dry run patches no spec, with separate
\* policies and whatever is aborted, retried and interrupted.  Overlapping calls in
\* preservation mode may lower a count that another one has raised.
THEOREM ModesStayRespected == ASSUME Separate PROVE Spec => ModesAreRespected
BY ModesWithoutOverlap, SeparateCallers, TypeCorrect, PTL

-----------------------------------------------------------------------------
(* What active_migrations knows.                                           *)

RegistryInv == TypeInv /\ MigratingIsRegistered

\* What a caller does to the registration of its volume.
RegistryEffect(c) ==
  /\ \A d \in Callers \ {c} : mig'[d] = mig[d]
  /\ \/ /\ active' = active
        /\ Registered(c)' => Registered(c) /\ mig'[c].vol = mig[c].vol
        /\ Registered(c) /\ ~Registered(c)' => EcPoolGetFails(c)
     \/ /\ active' = active \union {mig[c].vol} /\ mig'[c].vol = mig[c].vol
        /\ ~Registered(c)
     \/ /\ active' = active \ {mig[c].vol}
        /\ Registered(c) /\ ~Registered(c)'

LEMMA CallersRegister ==
  ASSUME TypeInv, NEW c \in Callers, Call(c) \/ Step(c) \/ Return(c)
  PROVE  RegistryEffect(c)
<1>1. /\ mig \in [Callers -> Calls] /\ mig[c] \in Calls
      /\ \A pc \in Pcs : Goto(c, pc) => Moves(c, pc)
      /\ \A pc \in Pcs, ok \in BOOLEAN : Finish(c, pc, ok) => Moves(c, pc)
      /\ \A d \in Callers \ {c} : mig'[d] = mig[d]
  BY GotoMoves, FinishMoves, CallersDo DEF TypeInv, TypeOK, CallerEffect
<1> USE DEF RegistryEffect, Registered
<1>2. CASE Call(c)
  <2>1. active' = active
    BY <1>2 DEF Call, Refuse, Accept
  <2>2. ASSUME NEW kind, NEW v, Refuse(c, kind, v) PROVE mig'[c].pc = "done" /\ mig[c].pc = "idle"
    BY <2>2, <1>1 DEF Refuse, Idle
  <2>3. ASSUME NEW kind, NEW v, NEW p, NEW P, Accept(c, kind, v, p, P)
        PROVE  mig'[c].pc \in {"register", "get_volume"} /\ mig[c].pc = "idle"
    BY <2>3, <1>1 DEF Accept, Idle
  <2>4. ~Registered(c)' /\ ~Registered(c)
    BY <2>2, <2>3, <1>2 DEF Call
  <2> QED
    BY <1>1, <2>1, <2>4
<1>3. CASE Return(c)
  BY <1>3, <1>1 DEF Return, Idle
<1>4. CASE GetVolume(c) \/ GetVolumeFails(c) \/ Register(c) \/ CheckPool(c) \/ Cleanup(c)
  BY <1>4, <1>1 DEF GetVolume, GetVolumeFails, Register, CheckPool, Cleanup, Moves, Pcs
<1>5. CASE EcDryRun(c) \/ EcPoolOffline(c) \/ EcPoolGetFails(c)
  BY <1>5, <1>1 DEF EcDryRun, EcPoolOffline, EcPoolGetFails, Moves, Pcs
<1>6. CASE EcCheckPool(c)
  <2>1. CASE Finish(c, "done", TRUE) /\ active' = active \ {mig[c].vol}
    BY <2>1, <1>6, <1>1 DEF EcCheckPool, Moves, Pcs
  <2>2. CASE active' = active /\ \E p : mig' = [mig EXCEPT ![c].unchecked = @ \ {p}]
    <3>1. mig'[c].pc = mig[c].pc /\ mig'[c].vol = mig[c].vol
      BY <2>2, <1>1 DEF Calls
    <3> QED
      BY <3>1, <2>2, <1>1
  <2> QED
    BY <2>1, <2>2, <1>6 DEF EcCheckPool
<1>7. CASE CountReplicas(c)
  <2>1. active' = active /\ mig[c].pc = "count"
    BY <1>7 DEF CountReplicas
  <2>2. CASE Finish(c, "cleanup", FALSE)
    BY <2>1, <2>2, <1>1 DEF Moves, Pcs
  <2>3. CASE ~Finish(c, "cleanup", FALSE)
    <3>1. mig' = [mig EXCEPT ![c] = [mig[c] EXCEPT
                    !.initial = Cardinality(replicas(mig[c].vol)),
                    !.pc = IF config.dry_run THEN "cleanup" ELSE "scale_up",
                    !.ok = config.dry_run]]
      BY <1>7, <2>3, <1>1 DEF CountReplicas
    <3>2. mig'[c].pc \in {"cleanup", "scale_up"} /\ mig'[c].vol = mig[c].vol
      BY <3>1, <1>1 DEF Calls
    <3> QED
      BY <3>2, <2>1, <1>1
  <2> QED
    BY <2>2, <2>3
<1>8. CASE ScaleUp(c) \/ PollSync(c) \/ SyncTimeout(c) \/ ScaleDown(c)
  BY <1>8, <1>1 DEF ScaleUp, PollSync, SyncTimeout, ScaleDown, Moves, Pcs
<1> QED
  BY <1>2, <1>3, <1>4, <1>5, <1>6, <1>7, <1>8 DEF Step

\* A migration that ends takes its own volume out, however calls overlap.
LEMMA EndsUnregister ==
  TypeInv /\ [Next]_vars =>
    [\A c \in Callers :
       Registered(c) /\ ~Registered(c)' => mig[c].vol \notin active' \/ EcPoolGetFails(c)]_vars
<1> SUFFICES ASSUME TypeInv, [Next]_vars, NEW c \in Callers, Registered(c), ~Registered(c)'
             PROVE  mig[c].vol \notin active' \/ EcPoolGetFails(c)
  OBVIOUS
<1>1. ASSUME NEW d \in Callers, Call(d) \/ Step(d) \/ Return(d)
      PROVE  mig[c].vol \notin active' \/ EcPoolGetFails(c)
  BY <1>1, CallersRegister DEF RegistryEffect, Registered
<1>2. ~Mayastor /\ ~UNCHANGED vars
  BY DEF Mayastor, AddReplica, FinishSync, RemoveSurplus, Fault, Repair, SetReplica, Registered,
         vars
<1> QED
  BY <1>1, <1>2 DEF Next, Restart

LEMMA RegistryInvStep == NoOverlap /\ RegistryInv /\ [Next]_vars => RegistryInv'
<1> SUFFICES ASSUME NoOverlap, RegistryInv, [Next]_vars, NEW c \in Callers, Registered(c)'
             PROVE  mig'[c].vol \in active'
  BY StepTypeInv DEF RegistryInv, MigratingIsRegistered, is_migrating
<1>1. ASSUME NEW d \in Callers, Call(d) \/ Step(d) \/ Return(d) PROVE mig'[c].vol \in active'
  <2>1. RegistryEffect(d)
    BY <1>1, CallersRegister DEF RegistryInv
  <2>2. CASE c = d
    BY <2>1, <2>2 DEF RegistryEffect, RegistryInv, MigratingIsRegistered, is_migrating
  <2>3. CASE c # d
    <3>1. mig'[c] = mig[c] /\ Registered(c) /\ mig[c].vol \in active
      BY <2>1, <2>3 DEF RegistryEffect, RegistryInv, MigratingIsRegistered, is_migrating, Registered
    <3>2. Registered(d) => mig[d].vol # mig[c].vol
      BY <2>3, <3>1 DEF NoOverlap, Registered
    <3> QED
      BY <2>1, <3>1, <3>2 DEF RegistryEffect
  <2> QED
    BY <2>2, <2>3
<1>2. CASE Mayastor \/ UNCHANGED vars
  <2>1. UNCHANGED <<mig, active>>
    BY <1>2 DEF Mayastor, AddReplica, FinishSync, RemoveSurplus, Fault, Repair, SetReplica, vars
  <2> QED
    BY <2>1 DEF RegistryInv, MigratingIsRegistered, is_migrating, Registered
<1>3. ~Restart
  BY DEF Restart, Idle, Registered
<1> QED
  BY <1>1, <1>2, <1>3 DEF Next

\* While calls on the same volume do not overlap, active_migrations is exact.
LEMMA RegistryWithoutOverlap == Spec /\ []NoOverlap => RegistrationIsExact
<1>1. Init => RegistryInv
  BY InitTypeInv DEF RegistryInv, MigratingIsRegistered, Registered, Init, Idle
<1>2. RegistryInv => TypeInv /\ MigratingIsRegistered
  BY DEF RegistryInv
<1> QED
  BY <1>1, <1>2, RegistryInvStep, EndsUnregister, PTL
     DEF Spec, RegistrationIsExact, UnregistersItsVolume

\* With separate policies active_migrations has every volume that is being migrated, and
\* a migration that ends takes its volume out, but for the exit that a pool that cannot be
\* read takes in the calls about erasure coding.
THEOREM RegistrationStaysExact == ASSUME Separate PROVE Spec => RegistrationIsExact
BY RegistryWithoutOverlap, SeparateCallers, TypeCorrect, PTL

-----------------------------------------------------------------------------
(* The controller.                                                         *)

-----------------------------------------------------------------------------
(* The invariant.                                                          *)

Holding(r) == r.pc \in {"call", "migrating", "record", "patch_record"}
Holders == {p \in Callers : HoldsPermit(p)}

\* A reconciliation of p works on volumes p selects, has a target unless the
\* volume goes to erasure coding, and has room to count one more migration.
WellPlanned(p, r) ==
  /\ r \in Reconciliations
  /\ r.todo \subseteq MaySelect[p]
  /\ r.pc \in {"acquire", "call"} =>
       /\ r.vol \in MaySelect[p]
       /\ UsesEc(r.tier, r.vol) \/ r.target \in Pools
  /\ r.pc = "patch_record" => r.seen + 1 <= MaxTotal

\* The migrator works only for a policy that waits for it with a permit.
CtrlInv ==
  /\ TypeInv
  /\ ControllerTypeOK
  /\ PermitsAreConserved
  /\ \A p \in Callers :
       /\ WellPlanned(p, rec[p])
       /\ mig[p].pc # "idle" => rec[p].pc = "migrating"

LEMMA HoldersFinite == IsFiniteSet(Holders) /\ Cardinality(Holders) \in Nat
<1>1. IsFiniteSet(Holders)
  BY FS_Subset, ControllerAssumption DEF Holders
<1> QED
  BY <1>1, FS_CardinalityType

\* A reconciliation at rest, or between two volumes, holds nothing.
LEMMA RestingIsWellPlanned ==
  ASSUME NEW p \in Callers, NEW todo \in SUBSET MaySelect[p], NEW pc \in {"idle", "next"},
         NEW r, r = [Resting EXCEPT !.pc = pc, !.todo = todo]
  PROVE  WellPlanned(p, r) /\ ~Holding(r)
<1>1. r = [pc |-> pc, todo |-> todo, vol |-> NoVolume, tier |-> "cold",
           target |-> NoPool, seen |-> 0]
  BY DEF Resting
<1>2. todo \in SUBSET Volumes
  BY MigratorAssumption
<1>3. 0 \in 0..MaxTotal
  BY ControllerAssumption
<1>4. r \in Reconciliations
  BY <1>1, <1>2, <1>3 DEF Reconciliations, RecPcs, Tiers
<1> QED
  BY <1>1, <1>4 DEF WellPlanned, Holding

LEMMA NextOneIsWellPlanned ==
  ASSUME NEW p \in Callers, WellPlanned(p, rec[p]), NEW todo \in SUBSET rec[p].todo,
         NEW r, r \in {NextOne(p), [NextOne(p) EXCEPT !.todo = todo]}
  PROVE  WellPlanned(p, r) /\ r.pc = "next"
<1>1. rec[p] \in Reconciliations /\ rec[p].todo \subseteq MaySelect[p]
  BY DEF WellPlanned
<1>2. todo \in SUBSET Volumes /\ todo \subseteq MaySelect[p]
  BY <1>1 DEF Reconciliations
<1>3. 0 \in 0..MaxTotal /\ "next" \in RecPcs /\ "cold" \in Tiers
  BY ControllerAssumption DEF RecPcs, Tiers
<1>4. NextOne(p) \in Reconciliations /\ NextOne(p).pc = "next"
  BY <1>1, <1>3 DEF NextOne, Reconciliations
<1>5. NextOne(p).todo = rec[p].todo
  BY <1>1 DEF NextOne, Reconciliations
<1>6. CASE r = NextOne(p)
  BY <1>1, <1>4, <1>5, <1>6 DEF WellPlanned
<1>7. CASE r = [NextOne(p) EXCEPT !.todo = todo]
  <2>1. r \in Reconciliations /\ r.pc = "next" /\ r.todo = todo
    BY <1>2, <1>4, <1>7 DEF Reconciliations
  <2> QED
    BY <1>2, <2>1 DEF WellPlanned
<1> QED
  BY <1>6, <1>7

\* A volume is planned: what its reconciliation looks like.
LEMMA PlannedFields ==
  ASSUME NEW p \in Callers, rec[p] \in Reconciliations, NEW v \in Volumes, NEW tier \in Tiers,
         NEW target \in Pools \union {NoPool}, NEW r, r = Planned(p, v, tier, target)
  PROVE  /\ r \in Reconciliations
         /\ r.pc = "acquire" /\ r.todo = rec[p].todo \ {v}
         /\ r.vol = v /\ r.tier = tier /\ r.target = target
BY DEF Planned, Reconciliations, RecPcs

LEMMA InitCtrlInv == ControllerInit => CtrlInv
<1> SUFFICES ASSUME ControllerInit PROVE CtrlInv
  OBVIOUS
<1>1. TypeInv
  BY InitTypeInv DEF ControllerInit
<1>2. \A p \in Callers : WellPlanned(p, Resting) /\ ~Holding(Resting)
  BY MigratorAssumption, ControllerAssumption
     DEF WellPlanned, Resting, Reconciliations, RecPcs, Tiers, Holding
<1>3. ControllerTypeOK
  BY <1>2, ControllerAssumption DEF ControllerInit, ControllerTypeOK, WellPlanned
<1>4. Holders = {}
  BY <1>2 DEF ControllerInit, Holders, HoldsPermit, Holding
<1>5. PermitsAreConserved
  BY <1>4, FS_EmptySet, ControllerAssumption DEF PermitsAreConserved, ControllerInit, Holders
<1>6. \A p \in Callers : WellPlanned(p, rec[p]) /\ mig[p].pc = "idle"
  BY <1>2 DEF ControllerInit, Init, Idle
<1> QED
  BY <1>1, <1>3, <1>5, <1>6 DEF CtrlInv

-----------------------------------------------------------------------------
(* What a policy does by itself.                                           *)

\* Its reconciliation stays well planned; a permit is taken, kept or given back
\* as the states before and after demand; the calls of others are left alone.
PolicyEffect(p) ==
  /\ rec' = [rec EXCEPT ![p] = rec'[p]]
  /\ WellPlanned(p, rec'[p])
  /\ \/ (Holding(rec'[p]) <=> Holding(rec[p])) /\ permits' = permits
     \/ Holding(rec'[p]) /\ ~Holding(rec[p]) /\ permits > 0 /\ permits' = permits - 1
     \/ ~Holding(rec'[p]) /\ Holding(rec[p]) /\ permits' = permits + 1
  /\ \A d \in Callers \ {p} : mig'[d] = mig[d]
  /\ mig'[p].pc # "idle" => rec'[p].pc = "migrating"
  /\ total' \in [Callers -> 0..MaxTotal]
  /\ annotated' = annotated

\* The controller's call is one that Migrator allows.
LEMMA CallMigratorCalls ==
  ASSUME NEW p \in Callers, WellPlanned(p, rec[p]), CallMigrator(p)
  PROVE  Call(p)
<1>1. rec[p].vol \in MaySelect[p]
  BY DEF CallMigrator, RecAt, WellPlanned
<1>2. CASE UsesEc(rec[p].tier, rec[p].vol)
  <2>1. \A q \in Pools : {q} \in (SUBSET Pools) \ {{}}
    OBVIOUS
  <2> QED
    BY <1>1, <1>2, <2>1, ControllerAssumption DEF CallMigrator, Call
<1>3. CASE ~UsesEc(rec[p].tier, rec[p].vol)
  <2>1. rec[p].target \in Pools
    BY <1>3 DEF CallMigrator, RecAt, WellPlanned
  <2> QED
    BY <1>1, <1>3, <2>1, ControllerAssumption DEF CallMigrator, Call
<1> QED
  BY <1>2, <1>3

LEMMA PoliciesDo ==
  ASSUME CtrlInv, NEW p \in Callers, StartReconcile(p) \/ Acquire(p) \/ Reconcile(p)
  PROVE  PolicyEffect(p)
<1> USE DEF RecAt, HoldsPermit
<1>1. /\ WellPlanned(p, rec[p]) /\ rec[p] \in Reconciliations
      /\ mig[p].pc # "idle" => rec[p].pc = "migrating"
      /\ rec \in [Callers -> Reconciliations]
      /\ total \in [Callers -> 0..MaxTotal] /\ annotated \subseteq Volumes
      /\ TypeInv /\ mig \in [Callers -> Calls]
  BY DEF CtrlInv, WellPlanned, ControllerTypeOK, TypeInv, TypeOK
<1>2. ASSUME NEW r, WellPlanned(p, r), rec' = [rec EXCEPT ![p] = r]
      PROVE  rec'[p] = r /\ rec' = [rec EXCEPT ![p] = rec'[p]] /\ WellPlanned(p, rec'[p])
  BY <1>1, <1>2
<1>3. ASSUME NEW r \in {NextOne(p)} \union {[NextOne(p) EXCEPT !.todo = rec[p].todo \ {v}] : v \in Volumes}
      PROVE  WellPlanned(p, r) /\ ~Holding(r) /\ r.pc # "migrating"
  BY <1>1, NextOneIsWellPlanned DEF Holding
<1>4. CASE StartReconcile(p)
  <2>1. WellPlanned(p, [Resting EXCEPT !.pc = "next", !.todo = MaySelect[p]])
        /\ ~Holding([Resting EXCEPT !.pc = "next", !.todo = MaySelect[p]])
    BY RestingIsWellPlanned
  <2> QED
    BY <1>1, <1>2, <1>4, <2>1 DEF StartReconcile, PolicyEffect, Holding, vars
<1>5. CASE Acquire(p)
  <2>1. CASE SkipDryRun(p)
    BY <1>1, <1>2, <1>3, <1>5, <2>1 DEF Acquire, SkipDryRun, PolicyEffect, Holding, vars
  <2>2. CASE RecGoto(p, "call") /\ permits' = permits - 1
    <3>1. WellPlanned(p, [rec[p] EXCEPT !.pc = "call"])
      BY <1>1, <1>5 DEF WellPlanned, Acquire, Reconciliations, RecPcs
    <3>2. rec' = [rec EXCEPT ![p] = [rec[p] EXCEPT !.pc = "call"]]
      BY <1>1, <2>2 DEF RecGoto
    <3>3. rec'[p].pc = "call" /\ rec[p].pc = "acquire"
      BY <1>1, <1>2, <1>5, <3>1, <3>2 DEF Acquire, Reconciliations
    <3> QED
      BY <1>1, <1>2, <1>5, <2>2, <3>1, <3>2, <3>3 DEF Acquire, PolicyEffect, Holding, vars
  <2> QED
    BY <1>5, <2>1, <2>2 DEF Acquire
<1>6. CASE Classify(p)
  <2>1. rec[p].pc = "next" /\ ~Holding(rec[p]) /\ mig[p].pc = "idle"
    BY <1>1, <1>6 DEF Classify, Holding
  <2>2. PICK v \in rec[p].todo, iops \in HeatScores : Skip(p, v, iops) \/ Plan(p, v, iops)
    BY <1>6 DEF Classify
  <2>3. v \in Volumes /\ v \in MaySelect[p]
    BY <1>1 DEF WellPlanned, Reconciliations
  <2>4. CASE Skip(p, v, iops)
    <3>1. rec' = [rec EXCEPT ![p] = [NextOne(p) EXCEPT !.todo = rec[p].todo \ {v}]]
      BY <1>1, <2>4 DEF Skip, NextOne, Reconciliations
    <3> QED
      BY <1>1, <1>2, <1>3, <1>6, <2>1, <2>3, <3>1 DEF Classify, PolicyEffect, vars
  <2>5. CASE Plan(p, v, iops)
    <3>1. PICK tier \in Tiers, target \in Pools \union {NoPool} :
            /\ UsesEc(tier, v) \/ target \in Pools
            /\ rec' = [rec EXCEPT ![p] = Planned(p, v, tier, target)]
      BY <1>1, <2>5, ControllerAssumption DEF Plan
    <3>2. PICK r : r = Planned(p, v, tier, target)
      OBVIOUS
    <3>3. /\ r \in Reconciliations
          /\ r.pc = "acquire" /\ r.todo = rec[p].todo \ {v}
          /\ r.vol = v /\ r.tier = tier /\ r.target = target
      BY <1>1, <2>3, <3>2, PlannedFields
    <3>4. WellPlanned(p, r)
      BY <1>1, <2>3, <3>1, <3>3 DEF WellPlanned
    <3>5. rec' = [rec EXCEPT ![p] = r]
      BY <3>1, <3>2
    <3> QED
      BY <1>1, <1>2, <1>6, <2>1, <3>3, <3>4, <3>5 DEF Classify, PolicyEffect, Holding, vars
  <2> QED
    BY <2>2, <2>4, <2>5
<1>7. ASSUME Call(p) \/ Step(p) \/ Return(p)
      PROVE  \A d \in Callers \ {p} : mig'[d] = mig[d]
  BY <1>1, <1>7, CallersDo DEF CallerEffect
<1>8. CASE CallMigrator(p)
  <2>1. Call(p)
    BY <1>1, <1>8, CallMigratorCalls
  <2>2. WellPlanned(p, [rec[p] EXCEPT !.pc = "migrating"])
    BY <1>1, <1>8 DEF WellPlanned, CallMigrator, Reconciliations, RecPcs
  <2>3. rec' = [rec EXCEPT ![p] = [rec[p] EXCEPT !.pc = "migrating"]]
    BY <1>1, <1>8 DEF CallMigrator, RecGoto
  <2>4. rec'[p].pc = "migrating" /\ rec[p].pc = "call"
    BY <1>1, <1>2, <1>8, <2>2, <2>3 DEF CallMigrator, Reconciliations
  <2> QED
    BY <1>1, <1>2, <1>7, <1>8, <2>1, <2>2, <2>3, <2>4
       DEF CallMigrator, PolicyEffect, Holding
<1>9. CASE Migrate(p)
  <2>1. mig[p].pc # "idle"
    BY <1>9 DEF At, Migrate, Step, GetVolume, GetVolumeFails, Register, CheckPool, CountReplicas,
                ScaleUp, PollSync, SyncTimeout, ScaleDown, Cleanup, EcDryRun, EcCheckPool,
                EcPoolOffline, EcPoolGetFails
  <2>2. rec' = [rec EXCEPT ![p] = rec[p]]
    BY <1>1, <1>9 DEF Migrate
  <2> QED
    BY <1>1, <1>2, <1>7, <1>9, <2>1, <2>2 DEF Migrate, PolicyEffect
<1>10. CASE TakeResult(p)
  <2>1. Return(p) /\ mig[p].pc = "done" /\ rec[p].pc = "migrating"
    BY <1>1, <1>10 DEF At, TakeResult, Return
  <2>2. mig'[p].pc = "idle"
    BY <1>1, <2>1 DEF Return, Idle
  <2>3. CASE mig[p].ok
    <3>1. WellPlanned(p, [rec[p] EXCEPT !.pc = "record"])
      BY <1>1 DEF WellPlanned, Reconciliations, RecPcs
    <3>2. rec' = [rec EXCEPT ![p] = [rec[p] EXCEPT !.pc = "record"]]
      BY <1>1, <1>10, <2>3 DEF TakeResult, RecGoto
    <3>3. rec'[p].pc = "record"
      BY <1>1, <1>2, <3>1, <3>2 DEF Reconciliations
    <3> QED
      BY <1>1, <1>2, <1>7, <1>10, <2>1, <2>2, <2>3, <3>1, <3>2, <3>3
         DEF TakeResult, PolicyEffect, Holding
  <2>4. CASE ~mig[p].ok
    BY <1>1, <1>2, <1>3, <1>7, <1>10, <2>1, <2>2, <2>4 DEF TakeResult, PolicyEffect, Holding
  <2> QED
    BY <2>3, <2>4
<1>11. CASE NoEcPools(p) \/ PatchRecord(p)
  <2>1. total' \in [Callers -> 0..MaxTotal]
    <3>1. CASE PatchRecord(p)
      <4>1. rec[p].seen + 1 \in 0..MaxTotal
        BY <1>1, <3>1, ControllerAssumption DEF PatchRecord, WellPlanned, Reconciliations
      <4> QED
        BY <1>1, <3>1, <4>1 DEF PatchRecord
    <3> QED
      BY <1>1, <1>11, <3>1 DEF NoEcPools
  <2>2. Holding(rec[p]) /\ rec[p].pc # "migrating"
    BY <1>11 DEF NoEcPools, PatchRecord, Holding
  <2> QED
    BY <1>1, <1>2, <1>3, <1>11, <2>1, <2>2 DEF NoEcPools, PatchRecord, PolicyEffect, vars
<1>12. CASE ReadStatus(p)
  <2>1. rec[p].pc = "record" /\ Holding(rec[p])
    BY <1>12 DEF ReadStatus, Holding
  <2>2. CASE rec' = [rec EXCEPT ![p] = NextOne(p)] /\ permits' = permits + 1
    BY <1>1, <1>2, <1>3, <1>12, <2>1, <2>2 DEF ReadStatus, PolicyEffect, vars
  <2>3. CASE /\ total[p] < MaxTotal
             /\ rec' = [rec EXCEPT ![p].pc = "patch_record", ![p].seen = total[p]]
             /\ UNCHANGED permits
    <3>1. PICK r : r = [rec[p] EXCEPT !.pc = "patch_record", !.seen = total[p]]
      OBVIOUS
    <3>2. r \in Reconciliations /\ r.pc = "patch_record" /\ r.seen = total[p] /\ r.todo = rec[p].todo
      BY <1>1, <3>1 DEF Reconciliations, RecPcs
    <3>3. total[p] + 1 <= MaxTotal
      BY <1>1, <2>3, ControllerAssumption
    <3>4. WellPlanned(p, r) /\ Holding(r)
      BY <1>1, <3>2, <3>3 DEF WellPlanned, Holding
    <3>5. rec' = [rec EXCEPT ![p] = r]
      BY <1>1, <2>3, <3>1
    <3> QED
      BY <1>1, <1>2, <1>12, <2>1, <2>3, <3>4, <3>5 DEF ReadStatus, PolicyEffect, vars
  <2> QED
    BY <1>12, <2>2, <2>3 DEF ReadStatus
<1>13. CASE UpdateStatus(p)
  <2>1. rec[p].pc = "next" /\ ~Holding(rec[p])
    BY <1>13 DEF UpdateStatus, Holding
  <2>2. WellPlanned(p, Resting) /\ ~Holding(Resting)
    BY MigratorAssumption, ControllerAssumption
       DEF WellPlanned, Resting, Reconciliations, RecPcs, Tiers, Holding
  <2>3. total' \in [Callers -> 0..MaxTotal]
    BY <1>1, <1>13, ControllerAssumption DEF UpdateStatus
  <2> QED
    BY <1>1, <1>2, <1>13, <2>1, <2>2, <2>3 DEF UpdateStatus, PolicyEffect, vars
<1> QED
  BY <1>4, <1>5, <1>6, <1>8, <1>9, <1>10, <1>11, <1>12, <1>13 DEF Reconcile

-----------------------------------------------------------------------------
(* The permits.                                                            *)

LEMMA PolicyKeepsPermits ==
  ASSUME CtrlInv, NEW p \in Callers, PolicyEffect(p)
  PROVE  permits' \in 0..MaxConcurrent /\ PermitsAreConserved'
<1>1. /\ rec \in [Callers -> Reconciliations]
      /\ permits \in Nat /\ MaxConcurrent \in Nat
      /\ permits + Cardinality(Holders) = MaxConcurrent
  BY ControllerAssumption DEF CtrlInv, ControllerTypeOK, PermitsAreConserved, Holders
<1>2. \A q \in Callers : HoldsPermit(q) <=> Holding(rec[q])
  BY DEF HoldsPermit, Holding
<1>3. \A q \in Callers : HoldsPermit(q)' <=> Holding(rec'[q])
  BY DEF HoldsPermit, Holding
<1>4. \A q \in Callers \ {p} : rec'[q] = rec[q]
  BY <1>1 DEF PolicyEffect
<1>5. SUFFICES /\ permits' \in Nat
               /\ permits' + Cardinality(Holders') = MaxConcurrent
               /\ Cardinality(Holders') \in Nat
  BY <1>1 DEF PermitsAreConserved, Holders
<1>6. CASE (Holding(rec'[p]) <=> Holding(rec[p])) /\ permits' = permits
  <2>1. Holders' = Holders
    BY <1>2, <1>3, <1>4, <1>6 DEF Holders
  <2> QED
    BY <1>1, <1>6, <2>1, HoldersFinite
<1>7. CASE Holding(rec'[p]) /\ ~Holding(rec[p]) /\ permits > 0 /\ permits' = permits - 1
  <2>1. Holders' = Holders \union {p} /\ p \notin Holders
    BY <1>2, <1>3, <1>4, <1>7 DEF Holders
  <2>2. Cardinality(Holders') = Cardinality(Holders) + 1
    BY <2>1, HoldersFinite, FS_AddElement
  <2> QED
    BY <1>1, <1>7, <2>2, HoldersFinite
<1>8. CASE ~Holding(rec'[p]) /\ Holding(rec[p]) /\ permits' = permits + 1
  <2>1. Holders' = Holders \ {p} /\ p \in Holders
    BY <1>2, <1>3, <1>4, <1>8 DEF Holders
  <2>2. Cardinality(Holders') = Cardinality(Holders) - 1
    BY <2>1, HoldersFinite, FS_RemoveElement
  <2>3. Cardinality(Holders') \in Nat
    BY <2>1, HoldersFinite, FS_RemoveElement, FS_CardinalityType
  <2> QED
    BY <1>1, <1>8, <2>2, <2>3, HoldersFinite
<1> QED
  BY <1>6, <1>7, <1>8 DEF PolicyEffect

-----------------------------------------------------------------------------
(* The controller drives the migrator as Migrator allows.                  *)

LEMMA StepsMap == CtrlInv /\ [ControllerNext]_ctrlVars => [Next]_vars
<1> SUFFICES ASSUME CtrlInv, [ControllerNext]_ctrlVars PROVE [Next]_vars
  OBVIOUS
<1>1. ASSUME NEW p \in Callers, CallMigrator(p) PROVE Call(p)
  BY <1>1, CallMigratorCalls DEF CtrlInv
<1>2. ASSUME NEW p \in Callers, StartReconcile(p) \/ Acquire(p) \/ Reconcile(p) PROVE [Next]_vars
  BY <1>1, <1>2
     DEF StartReconcile, Acquire, Reconcile, Classify, NoEcPools, Migrate, TakeResult,
         ReadStatus, PatchRecord, UpdateStatus, Next
<1>3. CASE OperatorRestart \/ CooldownOver
  BY <1>3 DEF OperatorRestart, CooldownOver, Next
<1> QED
  BY <1>2, <1>3 DEF ControllerNext, Next, ctrlVars

LEMMA CtrlInvStep == CtrlInv /\ [ControllerNext]_ctrlVars => CtrlInv'
<1> SUFFICES ASSUME CtrlInv, [ControllerNext]_ctrlVars PROVE CtrlInv'
  OBVIOUS
<1>1. TypeInv'
  BY StepsMap, StepTypeInv DEF CtrlInv
<1>2. ASSUME NEW p \in Callers, PolicyEffect(p) PROVE CtrlInv'
  <2>1. permits' \in 0..MaxConcurrent /\ PermitsAreConserved'
    BY <1>2, PolicyKeepsPermits
  <2>2. rec \in [Callers -> Reconciliations]
    BY DEF CtrlInv, ControllerTypeOK
  <2>3. rec'[p] \in Reconciliations
    BY <1>2 DEF PolicyEffect, WellPlanned
  <2>4. rec' \in [Callers -> Reconciliations]
    BY <1>2, <2>2, <2>3 DEF PolicyEffect
  <2>5. ControllerTypeOK'
    BY <1>2, <2>1, <2>4 DEF PolicyEffect, ControllerTypeOK, CtrlInv
  <2>6. ASSUME NEW q \in Callers \ {p}
        PROVE  WellPlanned(q, rec[q])' /\ (mig[q].pc # "idle" => rec[q].pc = "migrating")'
    <3>1. rec'[q] = rec[q] /\ mig'[q] = mig[q]
      BY <1>2, <2>2 DEF PolicyEffect
    <3> QED
      BY <3>1 DEF CtrlInv, WellPlanned, UsesEc
  <2>7. WellPlanned(p, rec[p])' /\ (mig[p].pc # "idle" => rec[p].pc = "migrating")'
    BY <1>2 DEF PolicyEffect, WellPlanned, UsesEc
  <2> QED
    BY <1>1, <2>1, <2>5, <2>6, <2>7 DEF CtrlInv
<1>3. CASE OperatorRestart
  <2>1. \A p \in Callers : WellPlanned(p, Resting) /\ ~Holding(Resting)
    BY MigratorAssumption, ControllerAssumption
       DEF WellPlanned, Resting, Reconciliations, RecPcs, Tiers, Holding
  <2>2. \A p \in Callers : rec'[p] = Resting /\ mig'[p] = Idle
    BY <1>3 DEF OperatorRestart, Restart
  <2>3. Holders' = {}
    BY <2>1, <2>2 DEF Holders, HoldsPermit, Holding
  <2>4. PermitsAreConserved'
    BY <1>3, <2>3, FS_EmptySet, ControllerAssumption
       DEF PermitsAreConserved, OperatorRestart, Holders
  <2>5. ControllerTypeOK'
    BY <1>3, <2>1, ControllerAssumption DEF OperatorRestart, ControllerTypeOK, CtrlInv, WellPlanned
  <2>6. \A p \in Callers : WellPlanned(p, rec[p])' /\ mig'[p].pc = "idle"
    BY <2>1, <2>2 DEF WellPlanned, UsesEc, Idle
  <2> QED
    BY <1>1, <2>4, <2>5, <2>6 DEF CtrlInv
<1>4. CASE Mayastor /\ UNCHANGED controller
  <2>1. mig' = mig
    BY <1>4 DEF Mayastor, AddReplica, FinishSync, RemoveSurplus, Fault, Repair, SetReplica
  <2> QED
    BY <1>1, <1>4, <2>1
       DEF controller, CtrlInv, ControllerTypeOK, PermitsAreConserved, HoldsPermit, WellPlanned, UsesEc
<1>5. CASE CooldownOver \/ UNCHANGED ctrlVars
  <2>1. UNCHANGED <<permits, rec, total, mig>>
    BY <1>5 DEF CooldownOver, ctrlVars, controller, vars
  <2>2. annotated' \subseteq Volumes
    BY <1>5 DEF CooldownOver, ctrlVars, controller, CtrlInv, ControllerTypeOK
  <2> QED
    BY <1>1, <2>1, <2>2
       DEF CtrlInv, ControllerTypeOK, PermitsAreConserved, HoldsPermit, WellPlanned, UsesEc
<1> QED
  BY <1>2, <1>3, <1>4, <1>5, PoliciesDo DEF ControllerNext

-----------------------------------------------------------------------------
(* Theorems.                                                               *)

\* The variables of the controller always have their types.
THEOREM ControllerTypeCorrect == ControllerSpec => []ControllerTypeOK
<1>1. CtrlInv => ControllerTypeOK
  BY DEF CtrlInv
<1> QED
  BY <1>1, InitCtrlInv, CtrlInvStep, PTL DEF ControllerSpec

\* However a migration ends, and through dry runs, failures, restarts and any
\* interleaving of the policies, the permit of migration_semaphore comes back.
THEOREM PermitsAreNeverLost == ControllerSpec => []PermitsAreConserved
<1>1. CtrlInv => PermitsAreConserved
  BY DEF CtrlInv
<1> QED
  BY <1>1, InitCtrlInv, CtrlInvStep, PTL DEF ControllerSpec

\* The migrator never runs more migrations than --max-concurrent-migrations.
THEOREM LimitHolds == ControllerSpec => []MigrationsAreLimited
<1>1. ASSUME CtrlInv PROVE MigrationsAreLimited
  <2> DEFINE Running == {p \in Callers : Registered(p)}
  <2>1. Running \subseteq Holders
    BY <1>1 DEF CtrlInv, Registered, Holders, HoldsPermit
  <2>2. Cardinality(Running) <= Cardinality(Holders) /\ Cardinality(Running) \in Nat
    BY <2>1, HoldersFinite, FS_Subset, FS_CardinalityType
  <2>3. /\ permits \in Nat /\ MaxConcurrent \in Nat
        /\ permits + Cardinality(Holders) = MaxConcurrent
    BY <1>1, ControllerAssumption DEF CtrlInv, ControllerTypeOK, PermitsAreConserved, Holders
  <2> QED
    BY <2>2, <2>3, HoldersFinite DEF MigrationsAreLimited
<1> QED
  BY <1>1, InitCtrlInv, CtrlInvStep, PTL DEF ControllerSpec

\* The controller composed with the migrator is an instance of the migrator with
\* arbitrary callers: what is proved of Spec holds of it.
THEOREM Implements == ControllerSpec => Spec
<1>1. ControllerInit => Init
  BY DEF ControllerInit
<1> QED
  BY <1>1, InitCtrlInv, CtrlInvStep, StepsMap, PTL DEF ControllerSpec, Spec

\* Two policies that both hold a permit need two of them.
LEMMA OnePermitNoOverlap == ASSUME MaxConcurrent = 1 PROVE CtrlInv => NoOverlap
<1> SUFFICES ASSUME CtrlInv, NEW c \in Callers, NEW d \in Callers,
                    mig[c].pc # "idle", mig[d].pc # "idle", c # d
             PROVE  FALSE
  BY DEF NoOverlap
<1>1. {c, d} \subseteq Holders
  BY DEF CtrlInv, Holders, HoldsPermit
<1>2. Cardinality({c, d}) <= Cardinality(Holders)
  BY <1>1, HoldersFinite, FS_Subset
<1>3. Cardinality({c, d}) = 2
  <2>1. IsFiniteSet({c}) /\ Cardinality({c}) = 1
    BY FS_Singleton
  <2>2. Cardinality({c} \union {d}) = Cardinality({c}) + 1
    BY <2>1, FS_AddElement
  <2>3. {c, d} = {c} \union {d}
    OBVIOUS
  <2> QED
    BY <2>1, <2>2, <2>3
<1>4. permits \in Nat /\ permits + Cardinality(Holders) = 1
  BY DEF CtrlInv, ControllerTypeOK, PermitsAreConserved, Holders
<1> QED
  BY <1>2, <1>3, <1>4, HoldersFinite

\* With one permit the semaphore does what active_migrations does not: even
\* policies that select the same volumes never migrate one at the same time.
THEOREM OnePermitExcludes ==
  ASSUME MaxConcurrent = 1 PROVE ControllerSpec => []AtMostOneMigrationPerVolume
BY InitCtrlInv, CtrlInvStep, OnePermitNoOverlap, NoOverlapExcludes, PTL DEF ControllerSpec

\* With one permit no volume loses its last synced replica, whatever the
\* policies select.
THEOREM OnePermitKeepsData ==
  ASSUME MaxConcurrent = 1 PROVE ControllerSpec => []KeepsSyncedReplica
<1>1. ControllerSpec => []NoOverlap
  BY InitCtrlInv, CtrlInvStep, OnePermitNoOverlap, PTL DEF ControllerSpec
<1> QED
  BY <1>1, Implements, NoDataLossWithoutOverlap, PTL

\* With one permit the modes keep their promises and active_migrations is exact, whatever
\* the policies select.
THEOREM OnePermitRespectsModes ==
  ASSUME MaxConcurrent = 1 PROVE ControllerSpec => ModesAreRespected /\ RegistrationIsExact
<1>1. ControllerSpec => []NoOverlap
  BY InitCtrlInv, CtrlInvStep, OnePermitNoOverlap, PTL DEF ControllerSpec
<1> QED
  BY <1>1, Implements, ModesWithoutOverlap, RegistryWithoutOverlap, PTL

\* With any number of permits, policies that select no common volume keep the
\* data, and any policies at all keep the replica counts.
THEOREM SeparatePoliciesKeepData ==
  ASSUME Separate PROVE ControllerSpec => []KeepsSyncedReplica
BY Implements, NoDataLoss, PTL

THEOREM ControllerRestoresCounts == ControllerSpec => []NeverBelowOriginal
BY Implements, CountIsRestored, PTL
=============================================================================
