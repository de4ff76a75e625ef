-------------------------------- MODULE Sums --------------------------------
(***************************************************************************)
(* Sums of the values of a function, as a recursive function and not as a  *)
(* fold, so that they can be reasoned about by induction over its domain.  *)
(***************************************************************************)
EXTENDS Naturals

SumOf(f) ==
  LET sum[S \in SUBSET DOMAIN f] ==
        IF S = {} THEN 0
        ELSE LET x == CHOOSE x \in S : TRUE IN f[x] + sum[S \ {x}]
  IN  sum[DOMAIN f]
=============================================================================
