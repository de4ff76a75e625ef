-------------------------- MODULE MC_StripeManager --------------------------
(* Instances of StripeManager for TLC. *)
EXTENDS StripeManager

CONSTANTS v1, v2

E(start, size) == [start |-> start, size |-> size]

\* Stripes of two blocks: for one volume entries that make a stripe and a
\* partial one, for the other entries that exceed a stripe, or none.
Mixed ==
  {[vol |-> v1, entries |-> <<E(0, 2), E(2, 1)>>]}
    \union {[vol |-> v2, entries |-> s] : s \in {<<E(0, 1), E(1, 2)>>, <<>>}}

\* Fewer than ten stripes are made.
ByNumber(i, j) == i < j

\* One stripe, again and again.
Rewritten == {[vol |-> v1, entries |-> <<E(0, 2)>>]}
=============================================================================
