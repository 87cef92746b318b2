-------------------------------- MODULE Ip520 --------------------------------
(***************************************************************************)
(* The IP520 serial driver on one IP module (ip520/ip520.c): eight         *)
(* XR16C850 UARTs, each with a FIFO in either direction.  The transmitter  *)
(* is started, and kept going by the interrupt routine, with up to a FIFO  *)
(* of characters at a time; the routine goes round the ports until none    *)
(* has work.  The settings of a port may change while it sends.            *)
(*                                                                         *)
(* Atomicity.  What the code does with interrupts locked is one step of a  *)
(* task.  The interrupt routine may come between any two steps of the      *)
(* tasks, and no task runs before it ends; the UARTs go on at any time.    *)
(*                                                                         *)
(* The ty library is modelled from how the driver uses it, as in Octal.    *)
(* The RS-485 code is left out: no module of that type is accepted.  Error *)
(* messages and counters are left out.  The tables of modules, and the     *)
(* reboot hook, are in Startup.                                            *)
(***************************************************************************)
EXTENDS Integers, Sequences

CONSTANTS
  LastPort,   \* ports are numbered from 0 to this one, 7 in the code
  Tuned,      \* ports whose settings change after they were created
  EchoPorts,  \* ports whose input the ty library echoes
  Bauds,      \* rates that are asked for
  Opts,       \* option words that are asked for: [bits, local]
  FifoSize,   \* 64
  RingSize,   \* what the write ring of a port holds
  CharLimit,  \* bound: characters each port is given to send
  InputLimit, \* bound: characters the module receives
  TuneLimit   \* bound: changes of the settings

Ports == 0 .. LastPort

ASSUME Ip520Assumption ==
  /\ LastPort \in Nat
  /\ Tuned \subseteq Ports /\ EchoPorts \subseteq Ports
  /\ FifoSize \in Nat \ {0} /\ RingSize \in Nat \ {0}
  /\ Bauds \subseteq Nat /\ Opts \subseteq [bits : 0 .. 255, local : BOOLEAN]
  /\ CharLimit \in [Ports -> Nat] /\ InputLimit \in Nat /\ TuneLimit \in Nat

VARIABLES
  create,     \* how far the creation of each port's device has come
  pc,         \* where the task that writes to a port is in tyWrite()
  busy,       \* ty library: wrtState.busy, the last tyITx gave a character
  put,        \* ty library: how many characters went into the ring
  taken,      \* ty library: how many tyITx took out of it
  dev,        \* the rate and options the driver has noted for a port
  reg,        \* the settings in the registers of the UART
  ier,        \* its interrupt enable register, "rx" and "tx"
  tx,         \* its transmit FIFO
  shift,      \* its transmit shift register, 0 when empty
  sent,       \* the last character on the line
  rx,         \* how many characters are in its receive FIFO
  received,   \* how many came in, at all ports
  isr,        \* where IP520Int is, "off" when it is not running
  scan,       \* the port it looks at
  saw,        \* what it read there: [tx, empty, data], and whether there was work
  tuned       \* how often settings were changed

tyVars   == <<busy, put, taken>>
txVars   == <<tx, shift, sent>>
rxVars   == <<rx, received>>
setVars  == <<dev, reg, tuned>>
isrVars  == <<isr, scan, saw>>
vars     == <<create, pc, tyVars, setVars, ier, txVars, rxVars, isrVars>>

-----------------------------------------------------------------------------
(* Settings.  lcr holds the character format, or EFRBank, which exposes    *)
(* the enhanced registers; saved is savedlcr; efr is bit 4 of EFR, without *)
(* which MCR bit 7, the division of the clock by four, cannot be changed.  *)

EFRBank == 191

Divisor == [b \in {1200, 2400, 4800, 9600, 19200, 38400, 57600, 115200, 230400} |->
              IF b = 57600 THEN 4 ELSE 921600 \div b]

Reset == [lcr |-> 0, saved |-> 0, efr |-> FALSE, fifo |-> FALSE, flow |-> FALSE, trigger |-> 8,
          div4 |-> FALSE, divisor |-> 0]

EFROn(r) == [r EXCEPT !.saved = r.lcr, !.lcr = EFRBank, !.efr = TRUE]

\* With another bank selected the write goes to the FIFO control register, and
\* bit 4 stays on.
EFROff(r) == [r EXCEPT !.efr = r.lcr # EFRBank, !.lcr = r.saved]

\* MCR is written with the bank closed, and EFROff comes after that.
SetClock(r, baud) ==
  LET on == [EFROn(r) EXCEPT !.lcr = r.lcr] IN
  EFROff([on EXCEPT !.div4 = IF on.efr THEN baud = 57600 ELSE @])

\* In a port that has this rate already nothing is written.  A rate that is
\* not supported is found out after the clock has been set.
IP520BaudSet(s, baud) ==
  LET off == SetClock(s.reg, baud) IN
  CASE s.dev.baud = baud -> s
    [] s.dev.baud # baud /\ baud \in DOMAIN Divisor ->
         [dev |-> [s.dev EXCEPT !.baud = baud], reg |-> [off EXCEPT !.divisor = Divisor[baud]]]
    [] OTHER -> [s EXCEPT !.reg = off]

Trigger(baud, flow) ==
  CASE baud <= 9600 -> 60
    [] baud > 9600 /\ (flow \/ baud = 19200) -> 56
    [] baud >= 115200 /\ ~flow -> 8
    [] OTHER -> 16

\* The FIFOs are emptied on the way.
IP520OptsSet(s, opts) ==
  [dev |-> [s.dev EXCEPT !.opts = opts],
   reg |-> EFROff([EFROn([s.reg EXCEPT !.lcr = opts.bits, !.fifo = TRUE,
                                       !.trigger = Trigger(s.dev.baud, ~opts.local)])
                   EXCEPT !.flow = ~opts.local])]

CS8 == [bits |-> 3, local |-> TRUE]
Settings(p) == [dev |-> dev[p], reg |-> reg[p]]

-----------------------------------------------------------------------------
TaskRuns == isr = "off"

Init ==
  /\ create = [p \in Ports |-> "new"]
  /\ pc = [p \in Ports |-> "idle"]
  /\ busy = [p \in Ports |-> FALSE]
  /\ put = [p \in Ports |-> 0] /\ taken = [p \in Ports |-> 0]
  /\ dev = [p \in Ports |-> [baud |-> 0, opts |-> CS8]]
  /\ reg = [p \in Ports |-> Reset]
  /\ ier = [p \in Ports |-> {}]
  /\ tx = [p \in Ports |-> <<>>] /\ shift = [p \in Ports |-> 0] /\ sent = [p \in Ports |-> 0]
  /\ rx = [p \in Ports |-> 0] /\ received = 0
  /\ isr = "off" /\ scan = 0
  /\ saw = [tx |-> FALSE, empty |-> FALSE, data |-> FALSE, work |-> FALSE]
  /\ tuned = 0

\* The settings of p become s, and its FIFOs are empty.
Written(p, s) ==
  /\ dev' = [dev EXCEPT ![p] = s.dev]
  /\ reg' = [reg EXCEPT ![p] = s.reg]
  /\ tx' = [tx EXCEPT ![p] = <<>>]
  /\ rx' = [rx EXCEPT ![p] = 0]

IP520InitChannel(p) ==
  /\ TaskRuns /\ create[p] = "new"
  /\ create' = [create EXCEPT ![p] = "init"]
  /\ Written(p, IP520OptsSet(IP520BaudSet(Settings(p), 9600), CS8))
  /\ ier' = [ier EXCEPT ![p] = {"rx"}]
  /\ UNCHANGED <<pc, tyVars, tuned, shift, sent, received, isrVars>>

MarkCreated(p) ==
  /\ TaskRuns /\ create[p] = "init"
  /\ create' = [create EXCEPT ![p] = "created"]
  /\ UNCHANGED <<pc, tyVars, setVars, ier, txVars, rxVars, isrVars>>

IP520DevCreate(p) == IP520InitChannel(p) \/ MarkCreated(p)

Tune(p) == /\ TaskRuns /\ create[p] = "created" /\ p \in Tuned
           /\ tuned < TuneLimit
           /\ tuned' = tuned + 1
           /\ UNCHANGED <<create, pc, tyVars, ier, shift, sent, received, isrVars>>

\* Mutant: the rate is set and nothing else.
IoctlBaudOnly(p) ==
  Tune(p) /\ \/ \E b \in Bauds \ {dev[p].baud} : Written(p, IP520BaudSet(Settings(p), b))
             \/ \E o \in Opts : Written(p, IP520OptsSet(Settings(p), o))

\* FIOBAUDRATE and SIO_BAUD_SET, which do nothing for the rate the port has, and
\* SIO_HW_OPTS_SET.
IP520Ioctl(p) ==
  Tune(p) /\ \/ \E b \in Bauds \ {dev[p].baud} :
                  Written(p, IP520OptsSet(IP520BaudSet(Settings(p), b), dev[p].opts))
             \/ \E o \in Opts : Written(p, IP520OptsSet(Settings(p), o))

IP520Config(p) ==
  Tune(p) /\ \E b \in Bauds, o \in Opts : Written(p, IP520OptsSet(IP520BaudSet(Settings(p), b), o))

-----------------------------------------------------------------------------
(* Sending.  The ring of p holds the characters after taken, up to n.      *)

\* Mutant: one more is taken than the ring holds.
FillUnasked(p, n) ==
  LET m == IF n + 1 - taken[p] < FifoSize THEN n + 1 ELSE taken[p] + FifoSize IN
  /\ taken' = [taken EXCEPT ![p] = m]
  /\ tx' = [tx EXCEPT ![p] = SubSeq(@ \o [i \in 1 .. m - taken[p] |-> taken[p] + i], 1, FifoSize)]
  /\ busy' = [busy EXCEPT ![p] = n - taken[p] >= FifoSize]

\* Up to FifoSize characters go into the FIFO, and are lost if it has no room;
\* the library is left busy unless it was asked for one it did not have.
Fill(p, n) ==
  LET m == IF n - taken[p] < FifoSize THEN n ELSE taken[p] + FifoSize
      all == tx[p] \o [i \in 1 .. m - taken[p] |-> taken[p] + i]
  IN
  /\ taken' = [taken EXCEPT ![p] = m]
  /\ tx' = [tx EXCEPT ![p] = SubSeq(all, 1, IF Len(all) < FifoSize THEN Len(all) ELSE FifoSize)]
  /\ busy' = [busy EXCEPT ![p] = n - taken[p] >= FifoSize]

TxInterrupt(p, on) == ier' = [ier EXCEPT ![p] = IF on THEN @ \cup {"tx"} ELSE @ \ {"tx"}]

\* Mutant: the FIFO is filled whatever is in it.
TxStartupBlind(p, n) == Fill(p, n) /\ TxInterrupt(p, n - taken[p] >= FifoSize)

\* Mutant: nothing taken counts as nothing there.
TxStartupMute(p, n) ==
  \/ tx[p] = <<>> /\ Fill(p, n) /\ TxInterrupt(p, n - taken[p] >= FifoSize)
  \/ tx[p] # <<>> /\ TxInterrupt(p, FALSE) /\ UNCHANGED <<taken, tx, busy>>

\* Nothing is taken while the FIFO has characters, and the interrupt enabled.
IP520TxStartup(p, n) ==
  \/ tx[p] = <<>> /\ Fill(p, n) /\ TxInterrupt(p, n - taken[p] >= FifoSize)
  \/ tx[p] # <<>> /\ TxInterrupt(p, TRUE) /\ busy' = [busy EXCEPT ![p] = TRUE] /\ UNCHANGED <<taken, tx>>

Goto(p, from, to) ==
  /\ TaskRuns /\ create[p] = "created"
  /\ pc[p] = from /\ pc' = [pc EXCEPT ![p] = to]
  /\ UNCHANGED <<create, setVars, shift, sent, rxVars, isrVars>>

\* tyWrite: a character goes into the ring, and the transmitter is started
\* unless it is busy.
Put(p) ==
  /\ Goto(p, "idle", "start")
  /\ put[p] < CharLimit[p] /\ put[p] - taken[p] < RingSize
  /\ put' = [put EXCEPT ![p] = @ + 1]
  /\ UNCHANGED <<busy, taken, ier, tx>>

Start(p) ==
  /\ Goto(p, "start", IF busy[p] THEN "idle" ELSE "startup")
  /\ busy' = [busy EXCEPT ![p] = TRUE]
  /\ UNCHANGED <<put, taken, ier, tx>>

Startup(p) ==
  /\ Goto(p, "startup", "idle")
  /\ IP520TxStartup(p, put[p])
  /\ UNCHANGED put

IP520Write(p) == Put(p) \/ Start(p) \/ Startup(p)

-----------------------------------------------------------------------------
(* IP520Int().                                                             *)

Pending == \E p \in Ports : ("rx" \in ier[p] /\ rx[p] > 0) \/ ("tx" \in ier[p] /\ tx[p] = <<>>)

IsrEnter ==
  /\ isr = "off" /\ Pending
  /\ isr' = "look" /\ scan' = 0
  /\ UNCHANGED <<create, pc, tyVars, setVars, ier, txVars, rxVars, saw>>

\* The registers of the next port are read, or the last port has been passed.
IsrLook ==
  /\ isr = "look"
  /\ \/ scan > LastPort /\ isr' = "off" /\ UNCHANGED <<scan, saw>>
     \/ scan <= LastPort /\ create[scan] # "created" /\ scan' = scan + 1 /\ UNCHANGED <<isr, saw>>
     \/ /\ scan <= LastPort /\ create[scan] = "created"
        /\ isr' = "serve"
        /\ saw' = [tx |-> "tx" \in ier[scan], empty |-> tx[scan] = <<>>, data |-> rx[scan] > 0, work |-> FALSE]
        /\ UNCHANGED scan
  /\ UNCHANGED <<create, pc, tyVars, setVars, ier, txVars, rxVars>>

\* A character for the library, which may answer by sending one, an echo; then
\* the line status is read again.
IsrRead ==
  /\ isr = "serve" /\ saw.data
  /\ rx' = [rx EXCEPT ![scan] = @ - 1]
  /\ \/ /\ scan \in EchoPorts /\ put[scan] < CharLimit[scan] /\ put[scan] - taken[scan] < RingSize
        /\ put' = [put EXCEPT ![scan] = @ + 1]
        /\ \/ busy[scan] /\ UNCHANGED <<busy, taken, ier, tx>>
           \/ ~busy[scan] /\ IP520TxStartup(scan, put[scan] + 1)
     \/ UNCHANGED <<tyVars, ier, tx>>
  /\ saw' = [saw EXCEPT !.empty = tx'[scan] = <<>>, !.data = rx'[scan] > 0, !.work = TRUE]
  /\ UNCHANGED <<create, pc, setVars, shift, sent, received, isr, scan>>

\* With the enable register as it was when the port was looked at.  After work
\* the port is looked at again.
IsrSend ==
  /\ isr = "serve" /\ ~saw.data
  /\ \/ /\ saw.tx /\ saw.empty
        /\ Fill(scan, put[scan])
        /\ ier' = IF put[scan] - taken[scan] < FifoSize THEN [ier EXCEPT ![scan] = @ \ {"tx"}] ELSE ier
        /\ UNCHANGED scan
     \/ /\ ~(saw.tx /\ saw.empty)
        /\ scan' = IF saw.work THEN scan ELSE scan + 1
        /\ UNCHANGED <<taken, tx, busy, ier>>
  /\ isr' = "look"
  /\ UNCHANGED <<create, pc, put, setVars, shift, sent, rxVars, saw>>

IP520Int == IsrEnter \/ IsrLook \/ IsrRead \/ IsrSend

-----------------------------------------------------------------------------
(* The UARTs.                                                              *)

Load(p) ==
  /\ tx[p] # <<>> /\ shift[p] = 0
  /\ shift' = [shift EXCEPT ![p] = Head(tx[p])]
  /\ tx' = [tx EXCEPT ![p] = Tail(@)]
  /\ UNCHANGED <<create, pc, tyVars, setVars, ier, sent, rxVars, isrVars>>

ShiftOut(p) ==
  /\ shift[p] # 0
  /\ sent' = [sent EXCEPT ![p] = shift[p]]
  /\ shift' = [shift EXCEPT ![p] = 0]
  /\ UNCHANGED <<create, pc, tyVars, setVars, ier, tx, rxVars, isrVars>>

Receive(p) ==
  /\ create[p] # "new" /\ received < InputLimit /\ rx[p] < FifoSize
  /\ rx' = [rx EXCEPT ![p] = @ + 1]
  /\ received' = received + 1
  /\ UNCHANGED <<create, pc, tyVars, setVars, ier, txVars, isrVars>>

-----------------------------------------------------------------------------
Next ==
  \/ \E p \in Ports : \/ IP520DevCreate(p) \/ IP520Ioctl(p) \/ IP520Config(p)
                      \/ IP520Write(p) \/ Load(p) \/ ShiftOut(p) \/ Receive(p)
  \/ IP520Int

Spec == Init /\ [][Next]_vars

(***************************************************************************)
(* Fairness.  A task in the middle of a write is scheduled again           *)
(* (strongly: interrupts come and go), a pending interrupt is served, and  *)
(* the UART sends what it holds.                                           *)
(***************************************************************************)
Fairness ==
  /\ \A p \in Ports : SF_vars(Start(p) \/ Startup(p)) /\ WF_vars(Load(p)) /\ WF_vars(ShiftOut(p))
  /\ WF_vars(IP520Int)

FairSpec == Spec /\ Fairness

-----------------------------------------------------------------------------
(* Properties.                                                             *)

\* The library never gives more than it was given, the line never shows what it
\* did not give, and a FIFO holds its characters in the order they were taken.
TypeOK ==
  /\ \A p \in Ports : /\ create[p] \in {"new", "init", "created"} /\ pc[p] \in {"idle", "start", "startup"}
                      /\ sent[p] <= taken[p] /\ taken[p] <= put[p] /\ put[p] <= CharLimit[p]
                      /\ Len(tx[p]) <= FifoSize /\ \A i \in 2 .. Len(tx[p]) : tx[p][i] = tx[p][i - 1] + 1
                      /\ rx[p] <= received /\ ier[p] \subseteq {"rx", "tx"}
  /\ isr \in {"off", "look", "serve"} /\ scan \in 0 .. LastPort + 1 /\ tuned <= TuneLimit

Line == INSTANCE SerialLine WITH
          Lines <- Ports \ Tuned,
          accepted <- [p \in Ports \ Tuned |-> put[p]],
          sent <- [p \in Ports \ Tuned |-> sent[p]]

\* A port whose settings are left alone is a SerialLine, whatever is done to the
\* others of the module: neither IP520TxStartup, called by a task or for an echo
\* in the middle of the interrupt routine, nor the interrupt routine, which acts
\* on registers it read before, puts characters into a FIFO that has no room.
NothingLost == Line!Spec

\* The driver's idea of a port is what the UART does: character format, flow
\* control, divisor and trigger level are those of dev->opts and dev->baud after
\* any sequence of calls, the failed ones included, and the bank of the enhanced
\* registers is closed ("Always call after IP520BaudSet").
SettingsHold ==
  \A p \in Ports : create[p] # "new" =>
    LET r == reg[p] IN
    /\ r.lcr = dev[p].opts.bits /\ r.flow = ~dev[p].opts.local /\ r.fifo /\ ~r.efr
    /\ r.divisor = Divisor[dev[p].baud] /\ r.trigger = Trigger(dev[p].baud, r.flow)

\* "Only 57600 requires MCR bit#7 = 1": that rate, and no other, has the clock
\* divided by four.
ClockDivided == \A p \in Ports : create[p] # "new" => (reg[p].div4 <=> dev[p].baud = 57600)

\* No character stays behind in a ring or a FIFO, also when the settings change
\* while characters are on their way; and a port whose settings are left alone
\* has sent the last one it was given.
EveryCharSent ==
  \A p \in Ports : []<>(/\ taken[p] = put[p] /\ tx[p] = <<>> /\ shift[p] = 0
                        /\ p \in Tuned \/ sent[p] = put[p])

=============================================================================
