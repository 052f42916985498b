------------------------------ MODULE MCUdhcpc ------------------------------
(* Instances of Udhcpc for TLC.                                            *)
EXTENDS Udhcpc, TLC

None == -1
\* No option, too short, odd, too long.
LeaseTimes == {None, 1, 11, 20}
=============================================================================
