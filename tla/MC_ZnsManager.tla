--------------------------- MODULE MC_ZnsManager ----------------------------
(* Instances of ZnsManager for TLC. *)
EXTENDS ZnsManager, TLC

CONSTANTS d1, d2

TwoDevices == d1 :> 2 @@ d2 :> 1
AllStrategies == {"FirstFit", "BestFit", "RoundRobin", "DeviceBalanced"}
=============================================================================
