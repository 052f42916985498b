------------------------------ MODULE MCUdhcpd ------------------------------
(* Instances of Udhcpd for TLC.  Pools that contain 256 hold one address   *)
(* that ends in .0 (256) and one that ends in .255 (255).                  *)
EXTENDS Udhcpd, TLC

CONSTANTS a, b, c

NoStatic == [m \in Mac |-> 0]
StaticOutside == [m \in Mac |-> IF m = c THEN 260 ELSE 0]
Clients == Permutations({a, b})
=============================================================================
