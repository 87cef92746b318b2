------------------------------- MODULE MCIp520 -------------------------------
(* Ip520 on small instances.                                               *)
EXTENDS Ip520, TLC

MCChars == (0 :> 4) @@ (1 :> 2)

MCOpts == {[bits |-> 2, local |-> FALSE]}

=============================================================================
