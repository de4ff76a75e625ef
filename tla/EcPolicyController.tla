-------------------------- MODULE EcPolicyController --------------------------
(***************************************************************************)
(* The controller of ErasureCodingPolicy resources                         *)
(* (src/controller/ec_policy.rs), with the resources it reads              *)
(* (src/crd/erasure_coding.rs): it validates a policy, counts the volumes  *)
(* and the stripes that use it, and reports both in the policy's status.   *)
(*                                                                         *)
(* Each list and the patch is a call to the API server, between which      *)
(* others change what is listed.  The controller keeps nothing between two *)
(* reconciliations.                                                        *)
(***************************************************************************)
EXTENDS Naturals, FiniteSets, Sums

CONSTANTS
  EcPolicies,   \* ErasureCodingPolicies
  Referrers,    \* StoragePolicies
  EcStripes,    \* names of ECStripe objects
  Specs,        \* specs a policy may have
  NoPolicy,     \* the ec_policy_ref of a StoragePolicy without one
  MaxWatched,   \* bound: volumes a StoragePolicy watches
  MaxEdits,     \* bound: changes of objects
  MaxErrors     \* bound: calls to the API server that fail

ASSUME EcControllerAssumption ==
  /\ IsFiniteSet(EcPolicies) /\ IsFiniteSet(Referrers) /\ IsFiniteSet(EcStripes)
  /\ NoPolicy \notin EcPolicies
  /\ MaxWatched \in Nat /\ MaxEdits \in Nat /\ MaxErrors \in Nat

VARIABLES
  spec,      \* the spec of each ErasureCodingPolicy
  referrer,  \* of each StoragePolicy: ec_policy_ref and status.watched_volumes
  stripes,   \* the ECStripe objects
  status,    \* the status of each ErasureCodingPolicy
  rec,       \* the reconciliations
  edits,     \* history: changes made
  errors     \* history: calls that failed

ecVars == <<spec, referrer, stripes, status, rec, edits, errors>>

KiB == 1024

\* ErasureCodingPolicy::validate; checked_add of two u8.  A policy without a
\* journal has journal = [replication |-> 1, threshold |-> 0].
validate(s) ==
  /\ s.data_shards > 0 /\ s.parity_shards > 0
  /\ s.stripe_size \in (64 * KiB)..(64 * KiB * KiB)
  /\ s.data_shards + s.parity_shards < 2 ^ 8
  /\ s.journal.replication > 0 /\ s.journal.threshold <= 100

StripeStates == {"Healthy", "Degraded", "Rebuilding", "Failed", "Writing"}

\* An object without a status has the state "none"; labelled says that it has the
\* label policy=<policy_ref>.
NoStripe == [policy_ref |-> NoPolicy, labelled |-> FALSE, state |-> "none"]
StripeObjects ==
  {NoStripe} \union
  [policy_ref : EcPolicies, labelled : BOOLEAN, state : StripeStates \union {"none"}]

Usages == [ec_policy_ref : EcPolicies \union {NoPolicy}, watched : 0..MaxWatched]

Phases == {"Pending", "Ready", "Invalid", "Active"}
Total == MaxWatched * Cardinality(Referrers)
StripeCounts == 0..Cardinality(EcStripes)
Statuses ==
  [phase : Phases, active_volumes : 0..Total, total : StripeCounts, healthy : StripeCounts,
   degraded : StripeCounts, rebuilding : StripeCounts]
Unreported ==
  [phase |-> "Pending", active_volumes |-> 0, total |-> 0, healthy |-> 0, degraded |-> 0,
   rebuilding |-> 0]

\* A reconciliation: its step and the status it puts together.
Waiting == [pc |-> "waiting", draft |-> Unreported]
Pcs == {"waiting", "usage", "volumes", "stripes", "patch"}

EcTypeOK ==
  /\ spec \in [EcPolicies -> Specs]
  /\ referrer \in [Referrers -> Usages]
  /\ stripes \in [EcStripes -> StripeObjects]
  /\ status \in [EcPolicies -> Statuses]
  /\ rec \in [EcPolicies -> [pc : Pcs, draft : Statuses]]
  /\ edits \in 0..MaxEdits /\ errors \in 0..MaxErrors

-----------------------------------------------------------------------------
(* What is counted.                                                        *)

\* Volumes of the StoragePolicies that refer to e; one that two of them watch
\* counts twice.
count_active_volumes(e) ==
  SumOf([p \in {p \in Referrers : referrer[p].ec_policy_ref = e} |-> referrer[p].watched])

\* Stripes are listed by label and then filtered by what they refer to.
Counted(e) == {s \in EcStripes : stripes[s].labelled /\ stripes[s].policy_ref = e}
In(e, states) == Cardinality({s \in Counted(e) : stripes[s].state \in states})

count_stripes(e, draft) ==
  [draft EXCEPT !.total = Cardinality(Counted(e)), !.healthy = In(e, {"Healthy"}),
                !.degraded = In(e, {"Degraded", "Failed", "Writing", "none"}),
                !.rebuilding = In(e, {"Rebuilding"})]

-----------------------------------------------------------------------------
(* The reconciliation.                                                     *)

Unchanged == UNCHANGED <<spec, referrer, stripes, edits>>

Goto(e, pc, draft) == rec' = [rec EXCEPT ![e] = [pc |-> pc, draft |-> draft]]

\* A call to the API server succeeds, or fails while the bound allows it.
Succeeds == UNCHANGED errors
Fails == errors < MaxErrors /\ errors' = errors + 1

\* Requeued after 300 s, or triggered by a change of the object.
Start(e) ==
  /\ rec[e].pc = "waiting"
  /\ IF validate(spec[e])
       THEN Goto(e, "usage", Unreported)
       ELSE Goto(e, "volumes", [Unreported EXCEPT !.phase = "Invalid"])
  /\ Succeeds /\ Unchanged /\ UNCHANGED status

\* The first count decides on the phase; a failed list counts as none.
DecidePhase(e) ==
  /\ rec[e].pc = "usage"
  /\ \/ /\ Succeeds
        /\ Goto(e, "volumes", [rec[e].draft EXCEPT
             !.phase = IF count_active_volumes(e) > 0 THEN "Active" ELSE "Ready"])
     \/ Fails /\ Goto(e, "volumes", [rec[e].draft EXCEPT !.phase = "Ready"])
  /\ Unchanged /\ UNCHANGED status

\* The second one is what is reported.
CountVolumes(e) ==
  /\ rec[e].pc = "volumes"
  /\ \/ /\ Succeeds
        /\ Goto(e, "stripes", [rec[e].draft EXCEPT !.active_volumes = count_active_volumes(e)])
     \/ Fails /\ Goto(e, "stripes", rec[e].draft)
  /\ Unchanged /\ UNCHANGED status

CountStripes(e) ==
  /\ rec[e].pc = "stripes"
  /\ \/ Succeeds /\ Goto(e, "patch", count_stripes(e, rec[e].draft))
     \/ Fails /\ Goto(e, "patch", rec[e].draft)
  /\ Unchanged /\ UNCHANGED status

\* Mutant: a reconciliation is not repeated unless its object changes.
PatchesOnce(e) ==
  /\ rec[e].pc = "patch"
  /\ \/ Succeeds /\ status' = [status EXCEPT ![e] = rec[e].draft]
     \/ Fails /\ UNCHANGED status
  /\ UNCHANGED rec
  /\ Unchanged

\* The result of the patch is ignored.
PatchStatus(e) ==
  /\ rec[e].pc = "patch"
  /\ \/ Succeeds /\ status' = [status EXCEPT ![e] = rec[e].draft]
     \/ Fails /\ UNCHANGED status
  /\ rec' = [rec EXCEPT ![e] = Waiting]
  /\ Unchanged

Reconcile(e) ==
  Start(e) \/ DecidePhase(e) \/ CountVolumes(e) \/ CountStripes(e) \/ PatchStatus(e)

\* Users edit specs, the StoragePolicy controller reports how many volumes it
\* watches, and stripes come, go and change their states.
Edit ==
  /\ edits < MaxEdits /\ edits' = edits + 1
  /\ \/ /\ \E e \in EcPolicies, s \in Specs : s # spec[e] /\ spec' = [spec EXCEPT ![e] = s]
        /\ UNCHANGED <<referrer, stripes>>
     \/ /\ \E p \in Referrers, u \in Usages : u # referrer[p] /\ referrer' = [referrer EXCEPT ![p] = u]
        /\ UNCHANGED <<spec, stripes>>
     \/ /\ \E s \in EcStripes, o \in StripeObjects : o # stripes[s] /\ stripes' = [stripes EXCEPT ![s] = o]
        /\ UNCHANGED <<spec, referrer>>
  /\ UNCHANGED <<status, rec, errors>>

EcInit ==
  /\ spec \in [EcPolicies -> Specs]
  /\ referrer = [p \in Referrers |-> [ec_policy_ref |-> NoPolicy, watched |-> 0]]
  /\ stripes = [s \in EcStripes |-> NoStripe]
  /\ status = [e \in EcPolicies |-> Unreported]
  /\ rec = [e \in EcPolicies |-> Waiting]
  /\ edits = 0 /\ errors = 0

EcNext == Edit \/ \E e \in EcPolicies : Reconcile(e)

-----------------------------------------------------------------------------

\* What the status should say of e.
IsTrueOf(e) ==
  /\ status[e].phase = IF ~validate(spec[e]) THEN "Invalid"
                       ELSE IF count_active_volumes(e) > 0 THEN "Active" ELSE "Ready"
  /\ status[e].active_volumes = count_active_volumes(e)
  /\ status[e].total = Cardinality(Counted(e))
  /\ status[e].total = status[e].healthy + status[e].degraded + status[e].rebuilding

\* Once nothing changes and the API server answers, the status of every policy
\* comes to be true and stays so, whatever a reconciliation read half-way through
\* a change, and although errors are counted as zero and the patch's is ignored.
StatusSettles == <>[](\A e \in EcPolicies : IsTrueOf(e))
=============================================================================
