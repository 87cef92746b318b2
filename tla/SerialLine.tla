----------------------------- MODULE SerialLine -----------------------------
(***************************************************************************)
(* What a serial driver promises of its output lines: the characters that  *)
(* are written, numbered as they are accepted, go out on their line one by *)
(* one, in that order, none lost, none twice and none that was not written.*)
(***************************************************************************)
EXTENDS Naturals

CONSTANT Lines

VARIABLES
  accepted,  \* how many characters were written to each line
  sent       \* the number of the last one that went out

Init == accepted = [l \in Lines |-> 0] /\ sent = [l \in Lines |-> 0]

Accept(l) == accepted' = [accepted EXCEPT ![l] = @ + 1] /\ UNCHANGED sent

Emit(l) ==
  /\ sent[l] < accepted[l]
  /\ sent' = [sent EXCEPT ![l] = @ + 1]
  /\ UNCHANGED accepted

Next == \E l \in Lines : Accept(l) \/ Emit(l)

Spec == Init /\ [][Next]_<<accepted, sent>>

=============================================================================
