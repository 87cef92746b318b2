------------------------------- MODULE Octal -------------------------------
(***************************************************************************)
(* The octal serial driver on one IP module (tyGSOctal/tyGSOctal.c).       *)
(*                                                                         *)
(* The ty library keeps a ring of characters per port.  When it has        *)
(* something to send and the last request for a character (tyITx) came     *)
(* back empty, it calls tyGSOctalStartup, which sends one character and    *)
(* unmasks the transmit interrupt; the interrupt routine sends the others  *)
(* and masks the interrupt when tyITx has no more.  The mask register of   *)
(* the SCC2698 serves two ports and cannot be read: the driver changes a   *)
(* copy of it and writes that.                                             *)
(*                                                                         *)
(* Atomicity.  One processor, and the interrupt line is a level: no task   *)
(* takes a step while an enabled interrupt is pending or the interrupt     *)
(* routine runs.  What the code does with interrupts locked is one step.   *)
(* The UART goes on at any time.                                           *)
(*                                                                         *)
(* The ty library is not part of this repository: it is modelled from how  *)
(* the driver uses it.  Baud rates, character formats, flow control and    *)
(* the counters are left out.                                              *)
(***************************************************************************)
EXTENDS Naturals, FiniteSets

CONSTANTS
  LastPort,   \* ports are numbered from 0 to this one, 7 in the code
  Writers,    \* tasks that write to ports
  PortOf,     \* PortOf[w]: the port writer w uses
  EchoPorts,  \* RS-232 ports whose input the ty library echoes
  RingSize,   \* what the write ring of a port holds
  CharLimit,  \* bound: how many characters a port is given to send
  None        \* no writer

Ports == 0 .. LastPort

ASSUME OctalAssumption ==
  /\ LastPort \in Nat
  /\ PortOf \in [Writers -> Ports]
  /\ EchoPorts \subseteq Ports
  /\ RingSize \in Nat \ {0}
  /\ CharLimit \in Nat
  /\ None \notin Writers

VARIABLES
  mode,       \* the kind of the module
  create,     \* how far the creation of each port's device has come
  pc,         \* where each writer is in tyGSOctalWrite()
  writing,    \* ty library: who holds the mutex of a port
  busy,       \* ty library: wrtState.busy, the last tyITx gave a character
  put,        \* ty library: how many characters went into the ring
  taken,      \* ty library: how many tyITx took out of it
  imrCopy,    \* qt->imr: what the interrupt mask registers should hold
  irqEnable,  \* ports whose transmit interrupt the driver may unmask
  scan,       \* qt->scan: the port served last
  isr,        \* where tyGSOctalInt is, "off" when it is not running
  step,       \* its loop variable scan
  work,       \* what it found to do for the port it looks at
  rebooted,   \* tyGSOctalRebootHook() has run
  imr,        \* interrupt mask registers
  thr,        \* transmit holding register, 0 when empty
  shift,      \* transmit shift register, 0 when empty
  sent,       \* the last character on the line
  rxFull,     \* a received character is waiting
  rxError,    \* error bits of the status register
  rxOn,       \* the receiver is enabled
  rts         \* RTSN is asserted: on RS-485, the line driver is on

tyVars   == <<writing, busy, put, taken>>
modVars  == <<mode, create, irqEnable, rebooted>>
isrVars  == <<isr, step, work, scan>>
txVars   == <<thr, shift, sent>>
rxVars   == <<rxFull, rxError, rxOn>>
vars     == <<modVars, pc, tyVars, imrCopy, isrVars, imr, txVars, rxVars, rts>>

-----------------------------------------------------------------------------
Kinds == {"rx", "tx"}

\* The ports of the block a port belongs to: they share a mask register.
Block(p) == {q \in Ports : q \div 2 = p \div 2}

\* The mask registers after that of p's block is written from copy c.
MaskWritten(c, p) == {b \in imr : b[2] \notin Block(p)} \cup {b \in c : b[2] \in Block(p)}

\* What a port asks for, whether it is unmasked or not.
Raised(p) == {k \in Kinds : \/ k = "rx" /\ rxFull[p]
                            \/ k = "tx" /\ thr[p] = 0 /\ create[p] # "new"}

Pending == ~rebooted /\ \E p \in Ports : \E k \in Raised(p) : <<k, p>> \in imr

\* Tasks run when the interrupt routine does not.
TaskRuns == isr = "off" /\ ~Pending

Init ==
  /\ mode \in {"RS232", "RS485"}
  /\ create = [p \in Ports |-> "new"]
  /\ pc = [w \in Writers |-> "idle"]
  /\ writing = [p \in Ports |-> None]
  /\ busy = [p \in Ports |-> FALSE]
  /\ put = [p \in Ports |-> 0]
  /\ taken = [p \in Ports |-> 0]
  /\ imrCopy = {}
  /\ irqEnable = {}
  /\ scan = 0
  /\ isr = "off"
  /\ step = 0
  /\ work = {}
  /\ rebooted = FALSE
  /\ imr = {}
  /\ thr = [p \in Ports |-> 0]
  /\ shift = [p \in Ports |-> 0]
  /\ sent = [p \in Ports |-> 0]
  /\ rxFull = [p \in Ports |-> FALSE]
  /\ rxError = [p \in Ports |-> FALSE]
  /\ rxOn = [p \in Ports |-> FALSE]
  /\ rts = [p \in Ports |-> FALSE]

-----------------------------------------------------------------------------
(* tyGSOctalDevCreate().                                                   *)

\* Mutant: the mask register is written from the new bit alone.
InitChannelAlone(p) ==
  /\ TaskRuns
  /\ create[p] = "new"
  /\ create' = [create EXCEPT ![p] = "init"]
  /\ irqEnable' = irqEnable \cup {p}
  /\ imrCopy' = {b \in imrCopy : b[2] \notin Block(p)} \cup {<<"rx", p>>}
  /\ imr' = MaskWritten(imrCopy', p)
  /\ rxOn' = [rxOn EXCEPT ![p] = TRUE]
  /\ UNCHANGED <<mode, rebooted, pc, tyVars, isrVars, txVars, rxFull, rxError, rts>>

\* The channel is reset, its receive interrupt unmasked, its transmitter and its
\* receiver enabled.
tyGSOctalInitChannel(p) ==
  /\ TaskRuns
  /\ create[p] = "new"
  /\ create' = [create EXCEPT ![p] = "init"]
  /\ irqEnable' = irqEnable \cup {p}
  /\ imrCopy' = imrCopy \cup {<<"rx", p>>}
  /\ imr' = MaskWritten(imrCopy', p)
  /\ rxOn' = [rxOn EXCEPT ![p] = TRUE]
  /\ UNCHANGED <<mode, rebooted, pc, tyVars, isrVars, txVars, rxFull, rxError, rts>>

\* dev->created, then the device gets its name: or it does not, and stays created.
MarkCreated(p) ==
  /\ TaskRuns
  /\ create[p] = "init"
  /\ \E result \in {"created", "nameless"} : create' = [create EXCEPT ![p] = result]
  /\ UNCHANGED <<mode, irqEnable, rebooted, pc, tyVars, imrCopy, isrVars, imr, txVars, rxVars,
                 rts>>

Created(p) == create[p] \in {"created", "nameless"}

tyGSOctalDevCreate(p) == tyGSOctalInitChannel(p) \/ MarkCreated(p)

-----------------------------------------------------------------------------
(* tyGSOctalStartup(), with interrupts locked.                             *)

\* Mutant: the transmit interrupt stays masked.
StartupMasked(p, n, t) ==
  \/ /\ t < n
     /\ taken' = [taken EXCEPT ![p] = t + 1]
     /\ busy' = [busy EXCEPT ![p] = TRUE]
     /\ thr' = IF thr[p] = 0 THEN [thr EXCEPT ![p] = t + 1] ELSE thr
     /\ UNCHANGED <<imrCopy, imr>>
  \/ /\ t = n
     /\ busy' = [busy EXCEPT ![p] = FALSE]
     /\ UNCHANGED <<imrCopy, imr, taken, thr>>

\* Mutant: a character is taken before the library is asked whether it has one.
StartupUnasked(p, n, t) ==
  /\ taken' = [taken EXCEPT ![p] = t + 1]
  /\ busy' = [busy EXCEPT ![p] = TRUE]
  /\ thr' = IF thr[p] = 0 THEN [thr EXCEPT ![p] = t + 1] ELSE thr
  /\ imrCopy' = imrCopy \cup {<<"tx", p>>}
  /\ imr' = MaskWritten(imrCopy', p)

\* tyITx gives a character, or none; the transmit interrupt follows.  The ring
\* holds the characters after t, up to n.
Startup(p, n, t) ==
  \/ /\ t < n
     /\ taken' = [taken EXCEPT ![p] = t + 1]
     /\ busy' = [busy EXCEPT ![p] = TRUE]
     /\ thr' = IF thr[p] = 0 THEN [thr EXCEPT ![p] = t + 1] ELSE thr
     /\ imrCopy' = IF p \in irqEnable THEN imrCopy \cup {<<"tx", p>>} ELSE imrCopy
     /\ imr' = MaskWritten(imrCopy', p)
  \/ /\ t = n
     /\ busy' = [busy EXCEPT ![p] = FALSE]
     /\ imrCopy' = IF p \in irqEnable THEN imrCopy \ {<<"tx", p>>} ELSE imrCopy
     /\ imr' = MaskWritten(imrCopy', p)
     /\ UNCHANGED <<taken, thr>>

-----------------------------------------------------------------------------
(* tyGSOctalWrite(), and tyWrite() inside it.                              *)

Goto(w, from, to) ==
  /\ TaskRuns
  /\ pc[w] = from
  /\ pc' = [pc EXCEPT ![w] = to]

\* Only a device with a name can be opened.
Call(w) ==
  /\ Goto(w, "idle", IF mode = "RS485" THEN "on" ELSE "lock")
  /\ create[PortOf[w]] = "created"
  /\ UNCHANGED <<modVars, tyVars, imrCopy, isrVars, imr, txVars, rxVars, rts>>

\* RS-485: the receiver is disabled and the line driver switched on.
LineOn(w) ==
  /\ Goto(w, "on", "lock")
  /\ rxOn' = [rxOn EXCEPT ![PortOf[w]] = FALSE]
  /\ rts' = [rts EXCEPT ![PortOf[w]] = TRUE]
  /\ UNCHANGED <<modVars, tyVars, imrCopy, isrVars, imr, txVars, rxFull, rxError>>

Lock(w) ==
  /\ Goto(w, "lock", "loop")
  /\ writing[PortOf[w]] = None
  /\ writing' = [writing EXCEPT ![PortOf[w]] = w]
  /\ UNCHANGED <<modVars, busy, put, taken, imrCopy, isrVars, imr, txVars, rxVars, rts>>

\* While the buffer has more: a character goes into the ring, when there is room.
Put(w) ==
  /\ Goto(w, "loop", "start")
  /\ put[PortOf[w]] < CharLimit
  /\ put[PortOf[w]] - taken[PortOf[w]] < RingSize
  /\ put' = [put EXCEPT ![PortOf[w]] = @ + 1]
  /\ UNCHANGED <<modVars, writing, busy, taken, imrCopy, isrVars, imr, txVars, rxVars, rts>>

\* The transmitter is started unless it is busy.
Start(w) ==
  /\ Goto(w, "start", IF busy[PortOf[w]] THEN "loop" ELSE "startup")
  /\ busy' = [busy EXCEPT ![PortOf[w]] = TRUE]
  /\ UNCHANGED <<modVars, writing, put, taken, imrCopy, isrVars, imr, txVars, rxVars, rts>>

tyGSOctalStartup(w) ==
  /\ Goto(w, "startup", "loop")
  /\ Startup(PortOf[w], put[PortOf[w]], taken[PortOf[w]])
  /\ UNCHANGED <<modVars, writing, put, isrVars, shift, sent, rxVars, rts>>

Unlock(w) ==
  /\ Goto(w, "loop", IF mode = "RS485" THEN "empty" ELSE "idle")
  /\ writing' = [writing EXCEPT ![PortOf[w]] = None]
  /\ UNCHANGED <<modVars, busy, put, taken, imrCopy, isrVars, imr, txVars, rxVars, rts>>

\* Mutant: TxRDY is taken for TxEMT.
EmptyWhenReady(w) ==
  /\ Goto(w, "empty", "over")
  /\ thr[PortOf[w]] = 0
  /\ UNCHANGED <<modVars, tyVars, imrCopy, isrVars, imr, txVars, rxVars, rts>>

\* RS-485: the status register says TxEMT ...
Empty(w) ==
  /\ Goto(w, "empty", "over")
  /\ thr[PortOf[w]] = 0 /\ shift[PortOf[w]] = 0
  /\ UNCHANGED <<modVars, tyVars, imrCopy, isrVars, imr, txVars, rxVars, rts>>

\* ... and the line is turned round.
LineOff(w) ==
  /\ Goto(w, "over", "idle")
  /\ rxOn' = [rxOn EXCEPT ![PortOf[w]] = TRUE]
  /\ rts' = [rts EXCEPT ![PortOf[w]] = FALSE]
  /\ UNCHANGED <<modVars, tyVars, imrCopy, isrVars, imr, txVars, rxFull, rxError>>

tyGSOctalWrite(w) ==
  \/ Call(w) \/ LineOn(w) \/ Lock(w) \/ Put(w) \/ Start(w) \/ tyGSOctalStartup(w)
  \/ Unlock(w) \/ Empty(w) \/ LineOff(w)

-----------------------------------------------------------------------------
(* tyGSOctalInt(), up to the port that has work.                           *)

Current == (scan + step) % (LastPort + 1)

IsrEnter ==
  /\ isr = "off"
  /\ Pending
  /\ isr' = "scan"
  /\ step' = 1
  /\ UNCHANGED <<modVars, pc, tyVars, imrCopy, work, scan, imr, txVars, rxVars, rts>>

\* Mutant: interrupts that are masked count, too.
IsrScanRaised ==
  /\ isr = "scan"
  /\ \/ /\ step > LastPort + 1
        /\ isr' = "off"
        /\ step' = 0
        /\ UNCHANGED work
     \/ /\ step <= LastPort + 1
        /\ ~Created(Current)
        /\ step' = step + 1
        /\ UNCHANGED <<isr, work>>
     \/ /\ step <= LastPort + 1
        /\ Created(Current)
        /\ isr' = "read"
        /\ work' = Raised(Current) \cup (IF rxError[Current] THEN {"error"} ELSE {})
        /\ UNCHANGED step
  /\ UNCHANGED <<modVars, pc, tyVars, imrCopy, scan, imr, txVars, rxVars, rts>>

\* The status registers of the next port are read, or all ports have been looked at.
IsrScan ==
  /\ isr = "scan"
  /\ \/ /\ step > LastPort + 1
        /\ isr' = "off"
        /\ step' = 0
        /\ UNCHANGED work
     \/ /\ step <= LastPort + 1
        /\ ~Created(Current)
        /\ step' = step + 1
        /\ UNCHANGED <<isr, work>>
     \/ /\ step <= LastPort + 1
        /\ Created(Current)
        /\ isr' = "read"
        /\ work' = {k \in Raised(Current) : <<k, Current>> \in imrCopy}
                     \cup (IF rxError[Current] THEN {"error"} ELSE {})
        /\ UNCHANGED step
  /\ UNCHANGED <<modVars, pc, tyVars, imrCopy, scan, imr, txVars, rxVars, rts>>

\* The library gets the character, and may answer by sending one: an echo.
IsrRead ==
  /\ isr = "read"
  /\ isr' = "send"
  /\ rxFull' = [rxFull EXCEPT ![Current] = @ /\ "rx" \notin work]
  /\ \/ /\ "rx" \in work /\ Current \in EchoPorts /\ mode = "RS232"
        /\ put[Current] < CharLimit
        /\ put[Current] - taken[Current] < RingSize
        /\ put' = [put EXCEPT ![Current] = @ + 1]
        /\ \/ busy[Current] /\ UNCHANGED <<busy, taken, thr, imrCopy, imr>>
           \/ ~busy[Current] /\ Startup(Current, put[Current] + 1, taken[Current])
     \/ UNCHANGED <<put, busy, taken, thr, imrCopy, imr>>
  /\ UNCHANGED <<modVars, pc, writing, step, work, scan, shift, sent, rxError, rxOn, rts>>

IsrSend ==
  /\ isr = "send"
  /\ isr' = "end"
  /\ \/ /\ "tx" \in work
        /\ taken[Current] < put[Current]
        /\ taken' = [taken EXCEPT ![Current] = @ + 1]
        /\ thr' = [thr EXCEPT ![Current] = taken'[Current]]
        /\ UNCHANGED <<busy, imrCopy, imr>>
     \/ /\ "tx" \in work
        /\ taken[Current] = put[Current]
        /\ busy' = [busy EXCEPT ![Current] = FALSE]
        /\ imrCopy' = IF Current \in irqEnable THEN imrCopy \ {<<"tx", Current>>} ELSE imrCopy
        /\ imr' = MaskWritten(imrCopy', Current)
        /\ UNCHANGED <<taken, thr>>
     \/ /\ "tx" \notin work
        /\ UNCHANGED <<taken, thr, busy, imrCopy, imr>>
  /\ UNCHANGED <<modVars, pc, writing, put, step, work, scan, shift, sent, rxVars, rts>>

\* Mutant: the scan starts with the same port each time.
IsrEndKeepScan ==
  /\ isr = "end"
  /\ rxError' = [rxError EXCEPT ![Current] = @ /\ "error" \notin work]
  /\ IF work # {} THEN isr' = "off" /\ step' = 0 ELSE isr' = "scan" /\ step' = step + 1
  /\ work' = {}
  /\ UNCHANGED <<modVars, pc, tyVars, imrCopy, scan, imr, txVars, rxFull, rxOn, rts>>

\* Errors are reset; the routine leaves after a port that had work.
IsrEnd ==
  /\ isr = "end"
  /\ rxError' = [rxError EXCEPT ![Current] = @ /\ "error" \notin work]
  /\ \/ /\ work # {}
        /\ isr' = "off"
        /\ scan' = Current
        /\ step' = 0
     \/ /\ work = {}
        /\ isr' = "scan"
        /\ step' = step + 1
        /\ UNCHANGED scan
  /\ work' = {}
  /\ UNCHANGED <<modVars, pc, tyVars, imrCopy, imr, txVars, rxFull, rxOn, rts>>

tyGSOctalInt == IsrEnter \/ IsrScan \/ IsrRead \/ IsrSend \/ IsrEnd

-----------------------------------------------------------------------------
(* tyGSOctalRebootHook(): the masks are cleared, the carrier told to       *)
(* disable the interrupts of the slot.                                     *)

tyGSOctalRebootHook ==
  /\ TaskRuns
  /\ ~rebooted
  /\ rebooted' = TRUE
  /\ irqEnable' = {p \in irqEnable : ~Created(p)}
  /\ imr' = {b \in imr : \A p \in Block(b[2]) : ~Created(p)}
  /\ UNCHANGED <<mode, create, pc, tyVars, imrCopy, isrVars, txVars, rxVars, rts>>

-----------------------------------------------------------------------------
(* The UART and the lines.                                                 *)

Load(p) ==
  /\ thr[p] # 0 /\ shift[p] = 0
  /\ shift' = [shift EXCEPT ![p] = thr[p]]
  /\ thr' = [thr EXCEPT ![p] = 0]
  /\ UNCHANGED <<modVars, pc, tyVars, imrCopy, isrVars, imr, sent, rxVars, rts>>

ShiftOut(p) ==
  /\ shift[p] # 0
  /\ sent' = [sent EXCEPT ![p] = shift[p]]
  /\ shift' = [shift EXCEPT ![p] = 0]
  /\ UNCHANGED <<modVars, pc, tyVars, imrCopy, isrVars, imr, thr, rxVars, rts>>

Receive(p) ==
  /\ rxOn[p]
  /\ rxFull' = [rxFull EXCEPT ![p] = TRUE]
  /\ rxError' = [rxError EXCEPT ![p] = @ \/ rxFull[p]]
  /\ UNCHANGED <<modVars, pc, tyVars, imrCopy, isrVars, imr, txVars, rxOn, rts>>

uart(p) == Load(p) \/ ShiftOut(p) \/ Receive(p)

-----------------------------------------------------------------------------
Next ==
  \/ \E p \in Ports : tyGSOctalDevCreate(p) \/ uart(p)
  \/ \E w \in Writers : tyGSOctalWrite(w)
  \/ tyGSOctalInt
  \/ tyGSOctalRebootHook

Spec == Init /\ [][Next]_vars

(***************************************************************************)
(* Fairness.  A task in the middle of a write is scheduled again           *)
(* (strongly: interrupts come and go).  A pending interrupt is served, and *)
(* the UART sends what it holds.                                           *)
(***************************************************************************)
Fairness ==
  /\ \A w \in Writers : SF_vars(tyGSOctalWrite(w) /\ pc[w] # "idle")
  /\ WF_vars(tyGSOctalInt)
  /\ \A p \in Ports : WF_vars(Load(p)) /\ WF_vars(ShiftOut(p))

FairSpec == Spec /\ Fairness

-----------------------------------------------------------------------------
(* Properties.                                                             *)

TypeOK ==
  /\ mode \in {"RS232", "RS485"}
  /\ create \in [Ports -> {"new", "init", "created", "nameless"}]
  /\ pc \in [Writers -> {"idle", "on", "lock", "loop", "start", "startup", "empty", "over"}]
  /\ writing \in [Ports -> Writers \cup {None}]
  /\ busy \in [Ports -> BOOLEAN]
  /\ put \in [Ports -> 0 .. CharLimit]
  /\ taken \in [Ports -> 0 .. CharLimit]
  /\ imrCopy \subseteq Kinds \X Ports
  /\ irqEnable \subseteq Ports
  /\ scan \in Ports
  /\ isr \in {"off", "scan", "read", "send", "end"}
  /\ step \in 0 .. LastPort + 2
  /\ work \subseteq Kinds \cup {"error"}
  /\ rebooted \in BOOLEAN
  /\ imr \subseteq Kinds \X Ports
  /\ thr \in [Ports -> 0 .. CharLimit]
  /\ shift \in [Ports -> 0 .. CharLimit]
  /\ sent \in [Ports -> 0 .. CharLimit]
  /\ rxFull \in [Ports -> BOOLEAN]
  /\ rxError \in [Ports -> BOOLEAN]
  /\ rxOn \in [Ports -> BOOLEAN]
  /\ rts \in [Ports -> BOOLEAN]

Line == INSTANCE SerialLine WITH Lines <- Ports, accepted <- put, sent <- sent

(***************************************************************************)
(* Every port is a SerialLine: neither the startup routine, which takes a  *)
(* character before it looks at the transmitter, nor the interrupt         *)
(* routine, which acts on a status it read before the library could start  *)
(* the transmitter, drops a character or writes over one.                  *)
(***************************************************************************)
NothingLost == Line!Spec

(***************************************************************************)
(* A character in the ring has a transmit interrupt to send it, or a task  *)
(* on its way to start the transmitter.                                    *)
(***************************************************************************)
Armed ==
  \A p \in Ports :
    taken[p] < put[p] /\ ~rebooted =>
      \/ <<"tx", p>> \in imr
      \/ \E w \in Writers : PortOf[w] = p /\ pc[w] \in {"start", "startup"}

(***************************************************************************)
(* On RS-485 the line driver is on as long as a character of the write is  *)
(* in the transmitter: "make sure all data sent".                          *)
(***************************************************************************)
LineDriven ==
  mode = "RS485" => \A p \in Ports : thr[p] # 0 \/ shift[p] # 0 => rts[p]

(***************************************************************************)
(* What is written is sent, on every port, when interrupts leave the tasks *)
(* time to run and the writers pause: CharLimit makes them stop.           *)
(***************************************************************************)
EveryCharSent ==
  []<>TaskRuns => \A p \in Ports : []<>(sent[p] = put[p] \/ rebooted)

(***************************************************************************)
(* A character that was received is read, however many the other ports     *)
(* receive: the scan starts after the port served last ("enforce           *)
(* fairness").  A port whose device is not marked as created is not read.  *)
(***************************************************************************)
EveryPortServed ==
  \A p \in Ports : rxFull[p] /\ Created(p) ~> ~rxFull[p] \/ rebooted

=============================================================================
