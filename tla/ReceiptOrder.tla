---------------------------- MODULE ReceiptOrder ----------------------------
(***************************************************************************)
(* What the receive path of a CAN bus promises about the frames that come  *)
(* in, numbered as they arrive: frames may be lost, but those that are     *)
(* handled are handled once each and in the order of arrival, and none is  *)
(* handled that did not arrive.                                            *)
(***************************************************************************)
EXTENDS Naturals

VARIABLES
  arrived,  \* how many frames came in
  handled   \* the number of the last one that was handled

Init == arrived = 0 /\ handled = 0

Arrive == arrived' = arrived + 1 /\ UNCHANGED handled

Handle == handled' \in handled + 1 .. arrived /\ UNCHANGED arrived

Next == Arrive \/ Handle

Spec == Init /\ [][Next]_<<arrived, handled>>

=============================================================================
