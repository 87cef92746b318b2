------------------------------ MODULE MCOctal ------------------------------
(* Octal on small instances. *)
EXTENDS Octal

CONSTANTS w1, w2

\* A writer for each port, or all of them on one.
OneEach == [w \in Writers |-> IF w = w1 THEN 0 ELSE 1]
SamePort == [w \in Writers |-> 0]

=============================================================================
