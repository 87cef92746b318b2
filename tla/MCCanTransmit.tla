---------------------------- MODULE MCCanTransmit ----------------------------
(* CanTransmit on small instances. *)
EXTENDS CanTransmit, TLC

\* Tasks that send the same kind of message, and shells, are interchangeable.
Symmetry ==
  Permutations(Writers \ RtrWriters) \cup Permutations(RtrWriters) \cup Permutations(Shells)

=============================================================================
