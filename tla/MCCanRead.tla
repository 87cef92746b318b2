----------------------------- MODULE MCCanRead -----------------------------
(* CanRead on small instances. *)
EXTENDS CanRead

CONSTANTS r1, r2, a, b

\* Two tasks that ask for the same identifier, or for one each.
SameId == [r \in Readers |-> a]
OneEach == [r \in Readers |-> IF r = r1 THEN a ELSE b]

=============================================================================
