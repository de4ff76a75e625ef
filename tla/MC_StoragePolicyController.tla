------------------- MODULE MC_StoragePolicyController -------------------
(* Instances of StoragePolicyController for TLC. *)
EXTENDS StoragePolicyController, TLC

CONSTANTS p1, p2, c1, c2, c3

\* Every policy selects every volume: they share a storage class.
EveryVolume == [c \in Callers |-> Volumes]

\* The warm tier shares the pool of the hot one.
HotWarmCold ==
  [tier \in Tiers |-> CASE tier = "cold" -> {p2} [] OTHER -> {p1}]

\* The policies that carry out migrations.
SameRole == Permutations({c1, c2, c3})

DefaultConfig == {[dry_run |-> FALSE, preservation_mode |-> FALSE]}
DryRunConfig == {[dry_run |-> TRUE, preservation_mode |-> FALSE]}
=============================================================================
