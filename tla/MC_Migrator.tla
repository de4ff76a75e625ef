---------------------------- MODULE MC_Migrator ----------------------------
(* Instances of Migrator for TLC. *)
EXTENDS Migrator, TLC

\* Two policies may select the same storage class, hence the same volumes.
EveryVolume == [c \in Callers |-> Volumes]

\* The command line may ask for a dry run, for preservation mode, or for both.
AnyConfig == [dry_run: BOOLEAN, preservation_mode: BOOLEAN]

\* The default: migrations are carried out and old replicas removed.
DefaultConfig == {[dry_run |-> FALSE, preservation_mode |-> FALSE]}

Interchangeable == Permutations(Pools)
=============================================================================
