----------------------------- MODULE MCRunsvdir -----------------------------
(* Instances of Runsvdir for TLC.                                          *)
EXTENDS Runsvdir

CONSTANTS a, b, d, e

\* One service is in both directories, by a link.
Linked == {[x \in {d, e} |-> IF x = d THEN {a, b} ELSE {b}]}
=============================================================================
