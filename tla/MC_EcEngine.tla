------------------------------ MODULE MC_EcEngine -------------------------------
(***************************************************************************)
(* An instance of EcEngine: two volumes on lists of devices that overlap,  *)
(* one of which names a device that is not registered at first, two data   *)
(* shards and one of parity, and devices with room for two stripes.        *)
(***************************************************************************)
EXTENDS EcEngine, TLC

\* Tasks are interchangeable, and so are names of volumes: nothing names one and
\* there is no temporal property.
MCSymmetry == Permutations(Callers) \union Permutations(Names)

MCLists == {<<"a", "b", "c">>, <<"c", "b", "x">>}

=============================================================================
