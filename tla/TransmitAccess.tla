--------------------------- MODULE TransmitAccess ---------------------------
(***************************************************************************)
(* What canWrite() promises of the transmit registers of a bus             *)
(* (drvTip810/drvTip810.c, drvTip810.html): they have one owner at a time. *)
(* A task obtains them when nobody has them, hands them to the chip with   *)
(* its message in them, and only the chip's notice that the message is out *)
(* makes them free again.                                                  *)
(***************************************************************************)
CONSTANTS Writers,    \* the tasks that call canWrite()
          Free, Chip  \* the owners that are not tasks, different from each other

VARIABLE owner

Init == owner = Free

Obtain(w) == owner = Free /\ owner' = w

Send(w) == owner = w /\ owner' = Chip

Release == owner = Chip /\ owner' = Free

Next == (\E w \in Writers : Obtain(w) \/ Send(w)) \/ Release

Spec == Init /\ [][Next]_owner

=============================================================================
