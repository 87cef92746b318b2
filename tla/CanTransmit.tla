----------------------------- MODULE CanTransmit -----------------------------
(***************************************************************************)
(* The transmit side of one TIP810 CAN bus (drvTip810/drvTip810.c).        *)
(*                                                                         *)
(* Tasks call canWrite().  The binary event txSem stands for the right to  *)
(* use the chip's transmit registers: canWrite() takes it, copies the      *)
(* message register by register (putTxMessage) and commands the chip to    *)
(* transmit; the interrupt routine t810ISR gives it back when the chip     *)
(* says the frame is out.  The event is also signalled when the chip goes  *)
(* bus-off, when its receiver overruns, and by canBusRestart() and         *)
(* canBusReset(), whoever is using the registers at that moment.           *)
(*                                                                         *)
(* Atomicity.  Every register access and every event operation of a task   *)
(* is a step.  t810ISR runs at interrupt level on a uniprocessor: no task  *)
(* moves while isr # "off", but the chip, which is hardware, does.         *)
(*                                                                         *)
(* The receive branch of t810ISR touches neither txSem nor the transmit    *)
(* registers; the receive path has its own module.  The counters are not   *)
(* read by any code here and are left out.                                 *)
(***************************************************************************)
EXTENDS Naturals, FiniteSets

CONSTANTS
  Writers,     \* tasks that call canWrite()
  RtrWriters,  \* those whose message is a remote request: it carries no data
  Shells,      \* tasks that call canBusStop/canBusRestart/canBusReset
  Commands,    \* the bus commands the shells use
  ChipFaults,  \* the faults the bus shows: bus error, bus-off, receiver overrun
  None,        \* no writer: the buffer after power-up
  Free, Chip   \* owners of the transmit registers that are not tasks

ASSUME TransmitAssumption ==
  /\ RtrWriters \subseteq Writers
  /\ Commands \subseteq {"stop", "restart", "reset"}
  /\ ChipFaults \subseteq {"error", "off", "overrun"}
  /\ {None, Free, Chip} \cap Writers = {}
  /\ Free # Chip

VARIABLES
  pc,            \* where each writer is in canWrite()
  txSem,         \* the transmit event is full
  shell,         \* where each shell is in its bus command
  stopped,       \* canBusStop() was called, and no restart or reset since
  isr,           \* where t810ISR is, "off" when it is not running
  intSource,     \* its local copy of the interrupt register
  told,          \* the status last passed to the canSignal() callbacks
  resetRequest,  \* control register, RR: the chip is held in reset
  interrupt,     \* interrupt register: cleared by reading it
  busStatus,     \* status register, BS and ES bits
  tbs,           \* status register, TBS: the transmit buffer is released
  txBuffer       \* transmit buffer: whose bytes each part holds

taskVars == <<pc, txSem, shell, stopped>>
isrVars  == <<isr, intSource, told>>
chipVars == <<resetRequest, interrupt, busStatus, tbs, txBuffer>>
vars     == <<taskVars, isrVars, chipVars>>

-----------------------------------------------------------------------------
(* The registers, as the driver uses them.                                 *)

Sources == {"OI", "EI", "TI"}
Steps   == {"idle", "wait", "check", "busy", "data", "descriptor0", "descriptor1", "command"}

\* Steps of canWrite() taken with the right to the transmit registers.
Inside == {"check", "busy", "data", "descriptor0", "descriptor1", "command"}

\* The registers take bytes and commands when the chip runs and its transmit
\* buffer is released; otherwise what is written is lost.
Accepting == tbs /\ ~resetRequest

\* Setting RR aborts a transmission, releases the transmit buffer and withdraws
\* the pending transmit and overrun interrupts.
EnterReset ==
  /\ resetRequest' = TRUE
  /\ tbs' = TRUE
  /\ interrupt' = interrupt \cap {"EI"}

\* Whose frame the transmit buffer holds, if it is of one piece.
Whole(b) == /\ b.descriptor0 = b.descriptor1
            /\ b.descriptor1 \notin RtrWriters => b.data = b.descriptor1

-----------------------------------------------------------------------------
\* The device table, as t810Create fills it in: nobody transmits.
t810Create ==
  /\ pc = [w \in Writers |-> "idle"]
  /\ txSem = TRUE
  /\ told = "ok"
  /\ txBuffer = [data |-> None, descriptor0 |-> None, descriptor1 |-> None]

\* The interrupt routine is connected and the chip leaves the reset state.
t810Initialise ==
  /\ isr = "off"
  /\ intSource = {}
  /\ resetRequest = FALSE
  /\ interrupt = {}
  /\ busStatus = "ok"
  /\ tbs = TRUE

Init ==
  /\ t810Create
  /\ t810Initialise
  /\ shell = [s \in Shells |-> "idle"]
  /\ stopped = FALSE

-----------------------------------------------------------------------------
(* canWrite().                                                             *)

\* Tasks run when the interrupt routine does not.
Goto(w, from, to) ==
  /\ isr = "off"
  /\ pc[w] = from
  /\ pc' = [pc EXCEPT ![w] = to]

\* A call whose bus or message is refused returns before it touches any of this
\* state: the calls here are those that pass the argument checks.
Call(w) ==
  /\ Goto(w, "idle", "wait")
  /\ UNCHANGED <<txSem, shell, stopped, isrVars, chipVars>>

\* Mutant: the wait does not empty the event.
TakeAndLeave(w) ==
  /\ Goto(w, "wait", "check")
  /\ txSem
  /\ UNCHANGED <<txSem, shell, stopped, isrVars, chipVars>>

\* epicsEventWaitWithTimeout(txSem) succeeds ...
Take(w) ==
  /\ Goto(w, "wait", "check")
  /\ txSem
  /\ txSem' = FALSE
  /\ UNCHANGED <<shell, stopped, isrVars, chipVars>>

\* ... or the caller's time is up first.
TimeOut(w) ==
  /\ Goto(w, "wait", "idle")
  /\ ~txSem
  /\ UNCHANGED <<txSem, shell, stopped, isrVars, chipVars>>

\* The status register is read: is the transmit buffer released?
Check(w) ==
  /\ Goto(w, "check", IF tbs THEN "data" ELSE "busy")
  /\ UNCHANGED <<txSem, shell, stopped, isrVars, chipVars>>

\* It is not: S_t810_transmitterBusy is returned.
GiveBack(w) ==
  /\ Goto(w, "busy", "idle")
  /\ txSem' = TRUE
  /\ UNCHANGED <<shell, stopped, isrVars, chipVars>>

\* putTxMessage: the data bytes (a remote request has none), the two
\* descriptor bytes, the transmission request.
Store(b, w, part) == IF Accepting THEN [b EXCEPT ![part] = w] ELSE b

\* Mutant: descriptor0 is forgotten.
PutDataOnly(w) ==
  /\ Goto(w, "data", "descriptor1")
  /\ txBuffer' = IF w \in RtrWriters THEN txBuffer ELSE Store(txBuffer, w, "data")
  /\ UNCHANGED <<txSem, shell, stopped, isrVars, resetRequest, interrupt, busStatus, tbs>>

PutData(w) ==
  /\ Goto(w, "data", "descriptor0")
  /\ txBuffer' = IF w \in RtrWriters THEN txBuffer ELSE Store(txBuffer, w, "data")
  /\ UNCHANGED <<txSem, shell, stopped, isrVars, resetRequest, interrupt, busStatus, tbs>>

PutDescriptor0(w) ==
  /\ Goto(w, "descriptor0", "descriptor1")
  /\ txBuffer' = Store(txBuffer, w, "descriptor0")
  /\ UNCHANGED <<txSem, shell, stopped, isrVars, resetRequest, interrupt, busStatus, tbs>>

PutDescriptor1(w) ==
  /\ Goto(w, "descriptor1", "command")
  /\ txBuffer' = Store(txBuffer, w, "descriptor1")
  /\ UNCHANGED <<txSem, shell, stopped, isrVars, resetRequest, interrupt, busStatus, tbs>>

\* Mutant: the message is copied and the command forgotten.
TransmitNothing(w) ==
  /\ Goto(w, "command", "idle")
  /\ UNCHANGED <<txSem, shell, stopped, isrVars, chipVars>>

Transmit(w) ==
  /\ Goto(w, "command", "idle")
  /\ tbs' = (tbs /\ ~Accepting)
  /\ UNCHANGED <<txSem, shell, stopped, isrVars, resetRequest, interrupt, busStatus, txBuffer>>

canWrite(w) ==
  \/ Call(w) \/ Take(w) \/ TimeOut(w) \/ Check(w) \/ GiveBack(w)
  \/ PutData(w) \/ PutDescriptor0(w) \/ PutDescriptor1(w) \/ Transmit(w)

-----------------------------------------------------------------------------
(* canBusStop(), canBusRestart() and canBusReset(), from the shell.        *)

Shell(s, from, to) ==
  /\ isr = "off"
  /\ shell[s] = from
  /\ shell' = [shell EXCEPT ![s] = to]

canBusStop(s) ==
  /\ "stop" \in Commands
  /\ Shell(s, "idle", "idle")
  /\ EnterReset
  /\ stopped' = TRUE
  /\ UNCHANGED <<pc, txSem, isrVars, busStatus, txBuffer>>

\* The control register is rewritten first, then the event is signalled.
canBusRestart(s) ==
  /\ "restart" \in Commands
  /\ Shell(s, "idle", "restartSignal")
  /\ resetRequest' = FALSE
  /\ stopped' = FALSE
  /\ UNCHANGED <<pc, txSem, isrVars, interrupt, busStatus, tbs, txBuffer>>

RestartSignal(s) ==
  /\ Shell(s, "restartSignal", "idle")
  /\ txSem' = TRUE
  /\ UNCHANGED <<pc, stopped, isrVars, chipVars>>

\* The event is signalled first, then the control register is rewritten.
canBusReset(s) ==
  /\ "reset" \in Commands
  /\ Shell(s, "idle", "resetSignal")
  /\ EnterReset
  /\ UNCHANGED <<pc, txSem, stopped, isrVars, busStatus, txBuffer>>

ResetSignal(s) ==
  /\ Shell(s, "resetSignal", "resetRun")
  /\ txSem' = TRUE
  /\ UNCHANGED <<pc, stopped, isrVars, chipVars>>

ResetRun(s) ==
  /\ Shell(s, "resetRun", "idle")
  /\ resetRequest' = FALSE
  /\ stopped' = FALSE
  /\ UNCHANGED <<pc, txSem, isrVars, interrupt, busStatus, tbs, txBuffer>>

busCommand(s) ==
  \/ canBusStop(s) \/ canBusRestart(s) \/ RestartSignal(s)
  \/ canBusReset(s) \/ ResetSignal(s) \/ ResetRun(s)

-----------------------------------------------------------------------------
(* t810ISR: entry, overrun, rescan, error, transmit.                       *)

\* Reading the interrupt register clears it.
IsrEnter ==
  /\ isr = "off"
  /\ interrupt # {}
  /\ isr' = "overrun"
  /\ intSource' = interrupt
  /\ interrupt' = {}
  /\ UNCHANGED <<taskVars, told, resetRequest, busStatus, tbs, txBuffer>>

\* canBusStop() and canBusRestart(): the chip is reset, and the event signalled.
IsrOverrun ==
  /\ isr = "overrun"
  /\ \/ /\ "OI" \in intSource
        /\ isr' = "rescan"
        /\ resetRequest' = FALSE
        /\ tbs' = TRUE
        /\ interrupt' = interrupt \cap {"EI"}
        /\ txSem' = TRUE
     \/ /\ "OI" \notin intSource
        /\ isr' = "error"
        /\ UNCHANGED <<resetRequest, tbs, interrupt, txSem>>
  /\ UNCHANGED <<pc, shell, stopped, intSource, told, busStatus, txBuffer>>

\* The first reading is overwritten by the second.
IsrRescan ==
  /\ isr = "rescan"
  /\ isr' = "error"
  /\ intSource' = interrupt
  /\ interrupt' = {}
  /\ UNCHANGED <<taskVars, told, resetRequest, busStatus, tbs, txBuffer>>

\* Mutant: the bus-off branch does not signal the event.
IsrErrorMute ==
  /\ isr = "error"
  /\ isr' = "transmit"
  /\ told' = IF "EI" \in intSource THEN busStatus ELSE told
  /\ resetRequest' = (resetRequest /\ ~("EI" \in intSource /\ busStatus = "off"))
  /\ UNCHANGED <<pc, txSem, shell, stopped, intSource, interrupt, busStatus, tbs, txBuffer>>

\* Mutant: the bus-off branch leaves the chip in reset.
IsrErrorNoRestart ==
  /\ isr = "error"
  /\ isr' = "transmit"
  /\ told' = IF "EI" \in intSource THEN busStatus ELSE told
  /\ txSem' = (txSem \/ ("EI" \in intSource /\ busStatus = "off"))
  /\ UNCHANGED <<pc, shell, stopped, intSource, resetRequest, interrupt, busStatus, tbs, txBuffer>>

\* Mutant: every error interrupt is treated like bus-off.
IsrErrorAnyStatus ==
  /\ isr = "error"
  /\ isr' = "transmit"
  /\ told' = IF "EI" \in intSource THEN busStatus ELSE told
  /\ txSem' = (txSem \/ "EI" \in intSource)
  /\ resetRequest' = (resetRequest /\ "EI" \notin intSource)
  /\ UNCHANGED <<pc, shell, stopped, intSource, interrupt, busStatus, tbs, txBuffer>>

\* Mutant: the callbacks are not told that the bus is well again.
IsrErrorOnlyBad ==
  /\ isr = "error"
  /\ isr' = "transmit"
  /\ told' = IF "EI" \in intSource /\ busStatus # "ok" THEN busStatus ELSE told
  /\ UNCHANGED <<pc, txSem, shell, stopped, intSource, resetRequest, interrupt, busStatus, tbs,
                 txBuffer>>

\* Mutant: the default case is missing, and the callbacks get what nothing has set.
IsrErrorUnset ==
  /\ isr = "error"
  /\ isr' = "transmit"
  /\ told' = IF "EI" \in intSource THEN (IF busStatus = "ok" THEN "unset" ELSE busStatus) ELSE told
  /\ UNCHANGED <<pc, txSem, shell, stopped, intSource, resetRequest, interrupt, busStatus, tbs,
                 txBuffer>>

\* The status register is read now, and the callbacks are given what it says.
IsrError ==
  /\ isr = "error"
  /\ isr' = "transmit"
  /\ told' = IF "EI" \in intSource THEN busStatus ELSE told
  /\ \/ /\ "EI" \in intSource /\ busStatus = "off"
        /\ txSem' = TRUE
        /\ resetRequest' = FALSE
     \/ /\ ~("EI" \in intSource /\ busStatus = "off")
        /\ UNCHANGED <<txSem, resetRequest>>
  /\ UNCHANGED <<pc, shell, stopped, intSource, interrupt, busStatus, tbs, txBuffer>>

\* Mutant: the event is signalled whatever the interrupt was.
IsrTransmitUnmasked ==
  /\ isr = "transmit"
  /\ isr' = "off"
  /\ txSem' = TRUE
  /\ intSource' = {}
  /\ UNCHANGED <<pc, shell, stopped, told, chipVars>>

\* Mutant: the event is not signalled.
IsrTransmitMute ==
  /\ isr = "transmit"
  /\ isr' = "off"
  /\ intSource' = {}
  /\ UNCHANGED <<pc, txSem, shell, stopped, told, chipVars>>

\* The routine returns and its local copy is gone.
IsrTransmit ==
  /\ isr = "transmit"
  /\ isr' = "off"
  /\ txSem' = (txSem \/ "TI" \in intSource)
  /\ intSource' = {}
  /\ UNCHANGED <<pc, shell, stopped, told, chipVars>>

t810ISR == IsrEnter \/ IsrOverrun \/ IsrRescan \/ IsrError \/ IsrTransmit

-----------------------------------------------------------------------------
(* The chip and the bus.                                                   *)

ChipSent ==
  /\ ~tbs
  /\ busStatus # "off"
  /\ tbs' = TRUE
  /\ interrupt' = interrupt \cup {"TI"}
  /\ UNCHANGED <<taskVars, isrVars, resetRequest, busStatus, txBuffer>>

\* The error status bit follows the error counters, both ways.
ChipError ==
  /\ "error" \in ChipFaults
  /\ ~resetRequest
  /\ busStatus # "off"
  /\ busStatus' = IF busStatus = "ok" THEN "error" ELSE "ok"
  /\ interrupt' = interrupt \cup {"EI"}
  /\ UNCHANGED <<taskVars, isrVars, resetRequest, tbs, txBuffer>>

\* Errors while it transmits drive the chip off the bus: it puts itself in reset.
ChipBusOff ==
  /\ "off" \in ChipFaults
  /\ ~tbs
  /\ busStatus = "error"
  /\ busStatus' = "off"
  /\ resetRequest' = TRUE
  /\ tbs' = TRUE
  /\ interrupt' = (interrupt \cap {"EI"}) \cup {"EI"}
  /\ UNCHANGED <<taskVars, isrVars, txBuffer>>

\* Out of reset, it rejoins the bus after the idle sequences the standard asks for.
ChipBusOn ==
  /\ busStatus = "off"
  /\ ~resetRequest
  /\ busStatus' = "ok"
  /\ interrupt' = interrupt \cup {"EI"}
  /\ UNCHANGED <<taskVars, isrVars, resetRequest, tbs, txBuffer>>

ChipOverrun ==
  /\ "overrun" \in ChipFaults
  /\ ~resetRequest
  /\ interrupt' = interrupt \cup {"OI"}
  /\ UNCHANGED <<taskVars, isrVars, resetRequest, busStatus, tbs, txBuffer>>

chip == ChipSent \/ ChipError \/ ChipBusOff \/ ChipBusOn \/ ChipOverrun

-----------------------------------------------------------------------------
Next ==
  \/ \E w \in Writers : canWrite(w)
  \/ \E s \in Shells : busCommand(s)
  \/ t810ISR
  \/ chip

Spec == Init /\ [][Next]_vars

(***************************************************************************)
(* Fairness.  A task in the middle of a call is scheduled again (strongly: *)
(* interrupts come and go while it is ready), and epicsEvent serves its    *)
(* waiters in turn.  A pending interrupt is served and the routine runs to *)
(* its end.  The chip finishes a transmission it keeps the bus for, and    *)
(* rejoins the bus.  Nothing makes a task call, a wait time out, or a      *)
(* fault happen.                                                           *)
(***************************************************************************)
Fairness ==
  /\ \A w \in Writers :
       SF_vars(Take(w) \/ Check(w) \/ GiveBack(w) \/ PutData(w)
                \/ PutDescriptor0(w) \/ PutDescriptor1(w) \/ Transmit(w))
  /\ \A s \in Shells : SF_vars(RestartSignal(s) \/ ResetSignal(s) \/ ResetRun(s))
  /\ WF_vars(t810ISR)
  /\ WF_vars(ChipSent)
  /\ WF_vars(ChipBusOn)

FairSpec == Spec /\ Fairness

-----------------------------------------------------------------------------
(* Properties.                                                             *)

TypeOK ==
  /\ pc \in [Writers -> Steps]
  /\ txSem \in BOOLEAN
  /\ shell \in [Shells -> {"idle", "restartSignal", "resetSignal", "resetRun"}]
  /\ stopped \in BOOLEAN
  /\ isr \in {"off", "overrun", "rescan", "error", "transmit"}
  /\ intSource \subseteq Sources
  /\ told \in {"ok", "error", "off"}
  /\ resetRequest \in BOOLEAN
  /\ interrupt \subseteq Sources
  /\ busStatus \in {"ok", "error", "off"}
  /\ tbs \in BOOLEAN
  /\ txBuffer \in [data : Writers \cup {None}, descriptor0 : Writers \cup {None},
                   descriptor1 : Writers \cup {None}]

\* No overrun, no bus-off, and nobody stops, restarts or resets the bus.
Quiet == Commands = {} /\ ChipFaults \subseteq {"error"}

(***************************************************************************)
(* canWrite() "obtains exclusive access to the transmit registers": no two *)
(* tasks are between the wait on txSem and the transmission request.       *)
(***************************************************************************)
ExclusiveAccess ==
  \A v, w \in Writers : pc[v] \in Inside /\ pc[w] \in Inside => v = w

(***************************************************************************)
(* A frame on the bus is one caller's message: its descriptor bytes and,   *)
(* unless it is a remote request, its data were written by the same        *)
(* putTxMessage().                                                         *)
(***************************************************************************)
WholeFrame == ~tbs => Whole(txBuffer)

(***************************************************************************)
(* canWrite() never finds the transmit buffer locked once it has txSem:    *)
(* S_t810_transmitterBusy means "transmit buffer unexpectedly busy".       *)
(***************************************************************************)
NeverBusy == \A w \in Writers : pc[w] # "busy"

(***************************************************************************)
(* canWrite() returns 0 only in a step in which the chip takes over that   *)
(* very message: it is whole, the caller's, and now being sent.            *)
(***************************************************************************)
SentWhatWasAsked ==
  [][\A w \in Writers :
        pc[w] = "command" /\ pc'[w] = "idle"
          => tbs /\ ~tbs' /\ Whole(txBuffer') /\ txBuffer'.descriptor1 = w]_vars

(***************************************************************************)
(* The right to transmit is never lost: txSem is full, or somebody has it  *)
(* who will signal it - a task in canWrite(), the chip until its transmit  *)
(* interrupt is served, a restart under way, or whoever ends the reset     *)
(* state the chip is held in.                                              *)
(***************************************************************************)
SignalComing ==
  \/ \E w \in Writers : pc[w] \in Inside
  \/ ~tbs
  \/ "TI" \in interrupt
  \/ isr \in {"overrun", "error", "transmit"} /\ "TI" \in intSource
  \/ \E s \in Shells : shell[s] = "restartSignal"
  \/ resetRequest

NoLostToken == txSem \/ SignalComing

(***************************************************************************)
(* canBusStop() "holds the pca82c200 chip in the reset state, which        *)
(* prevents it from sending".  The code promises less: a stopped chip that *)
(* is not off the bus stays in reset, and without a message, until         *)
(* canBusRestart() or canBusReset(), whatever interrupts were pending or   *)
(* being served and whatever canWrite() was doing.  The bus-off branch of  *)
(* t810ISR clears RR whoever set it, and then nothing holds the chip.      *)
(***************************************************************************)
StopHolds ==
  [][stopped' => \/ resetRequest' /\ tbs'
                 \/ stopped /\ (busStatus = "off" \/ ~resetRequest)]_vars

(***************************************************************************)
(* What that page says: a stopped chip is in reset and sends nothing.  True *)
(* where the chip never goes off the bus.                                  *)
(***************************************************************************)
StopSilences == stopped => resetRequest /\ tbs

(***************************************************************************)
(* When the interrupt routine is idle and no error interrupt is pending,   *)
(* the canSignal() callbacks have been told the status the chip is in,     *)
(* however often it changed while they were being told.  Only where the    *)
(* receiver does not overrun: the rescan after an overrun forgets an error *)
(* interrupt that was read with it, and the callbacks do not hear of it.   *)
(***************************************************************************)
ListenersInformed ==
  isr = "off" /\ "EI" \notin interrupt => told = busStatus

(***************************************************************************)
(* Unless the bus is stopped, the transmitter always becomes available     *)
(* again, whatever the bus and the shells do: no canWrite() that waits     *)
(* forever is left waiting for a signal that nobody will give.             *)
(***************************************************************************)
TransmitterComesBack == []<>(txSem \/ stopped)

(***************************************************************************)
(* Without faults and bus commands every canWrite() returns.               *)
(***************************************************************************)
EveryWriteReturns == \A w \in Writers : pc[w] # "idle" ~> pc[w] = "idle"

(***************************************************************************)
(* "If the chip goes to the Bus Off state, the driver will attempt to      *)
(* restart it": the chip rejoins the bus, also when an overrun makes the   *)
(* interrupt routine forget the error interrupt that it had read.          *)
(***************************************************************************)
RecoversFromBusOff == busStatus = "off" ~> busStatus # "off" \/ stopped

\* Who owns the transmit registers, as TransmitAccess sees it.
Owner ==
  IF \E w \in Writers : pc[w] \in Inside
  THEN CHOOSE w \in Writers : pc[w] \in Inside
  ELSE IF txSem THEN Free ELSE Chip

Access == INSTANCE TransmitAccess WITH owner <- Owner

(***************************************************************************)
(* canWrite() and the transmit interrupt keep the access protocol.         *)
(***************************************************************************)
AccessProtocol == Access!Spec

=============================================================================
