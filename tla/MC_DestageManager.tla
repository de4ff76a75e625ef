------------------------- MODULE MC_DestageManager -------------------------
(* Instances of DestageManager for TLC. *)
EXTENDS DestageManager, TLC

CONSTANTS v1, v2

Blocks(a, b) == [start |-> a, end |-> b]

\* One volume writes halves of a stripe, the other whole stripes.
Mixed == {[vol |-> v1, range |-> Blocks(0, 1)], [vol |-> v1, range |-> Blocks(1, 2)],
          [vol |-> v2, range |-> Blocks(2, 4)]}
MixedRanges == {req.range : req \in Mixed}

\* One volume writes one stripe again and again.
Rewrites == {[vol |-> v1, range |-> Blocks(0, 1)]}
RewrittenRanges == {req.range : req \in Rewrites}

AnyMode == [dry_run: BOOLEAN, maps: BOOLEAN]
Mapped == {[dry_run |-> FALSE, maps |-> TRUE]}
=============================================================================
