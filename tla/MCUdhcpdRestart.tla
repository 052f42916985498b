--------------------------- MODULE MCUdhcpdRestart ---------------------------
(* Instances of UdhcpdRestart for TLC.                                     *)
EXTENDS UdhcpdRestart, TLC

CONSTANTS a, b

NoStatic == [m \in Mac |-> 0]
Clients == Permutations({a, b})
=============================================================================
