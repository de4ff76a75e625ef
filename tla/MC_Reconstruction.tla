------------------------- MODULE MC_Reconstruction ---------------------------
(***************************************************************************)
(* An instance of Reconstruction: two volumes whose stripes have the same  *)
(* ids, policies whose spec may be edited to one with fewer shards or to   *)
(* an invalid one, one permit and room for one task in the channel.        *)
(***************************************************************************)
EXTENDS Reconstruction, TLC

\* Callers are interchangeable: no fairness and no temporal property names one.
MCSymmetry == Permutations(Callers)

TwoPlusOne == [k |-> 2, m |-> 1]
MCSpecs == {TwoPlusOne, [k |-> 1, m |-> 1], [k |-> 0, m |-> 1]}

MCStarts == (0 :> [start |-> 0, end |-> 2]) @@ (1 :> [start |-> 2, end |-> 4])
MCRanges == {[start |-> 1, end |-> 3]}

Whole == [state |-> "Healthy", shards |-> <<>>]
OneLost == [state |-> "Degraded", shards |-> <<"Missing", "Healthy", "Healthy">>]
TwoLost == [state |-> "Failed", shards |-> <<"Missing", "Corrupted", "Healthy">>]
MCHealths == {Whole, OneLost}

\* Stripe 1 of "v1" is still to be destaged.
MCObjects == {Stripe("v1", 0, "p", TwoPlusOne, OneLost), Stripe("v2", 0, "p", TwoPlusOne, TwoLost)}
MCRegistered == "v1" :> "p"
MCWants == {<<"v1", 0, {1}>>, <<"v2", 0, {1, 2}>>}

=============================================================================
