--------------------------- MODULE MC_ObjectCache ---------------------------
(* Instances of ObjectCache for TLC. *)
EXTENDS ObjectCache, TLC

CONSTANTS k1, k2, c1, c2

OwnHash == [k \in Keys |-> k]

\* What L3 returns goes to L2, and from there to L1.
Stepwise == [l1_threshold |-> 2, l2_threshold |-> 1, l2_min_size |-> 0, l1_max_size |-> 20000,
             eager |-> FALSE]

Config(p, auto, through) == [policy |-> p, auto_promotion |-> auto, write_through |-> through]

ThreeConfigs == {Config(balanced, TRUE, FALSE), Config(aggressive, TRUE, TRUE),
                 Config(Stepwise, TRUE, TRUE)}

OneStored == [k \in Keys |-> IF k = k1 THEN 20000 ELSE 0]

Interchangeable == Permutations({c1, c2})
=============================================================================
