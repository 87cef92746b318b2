----------------------------- MODULE CanRecords -----------------------------
(***************************************************************************)
(* The CAN device supports of the EPICS records (drvTip810/dev*Can.c,      *)
(* devSiWiener.c) on one bus: ai, bi, mbbi, mbbiDirect and Wiener stringin *)
(* records, which ask for a value with a remote request and wait for the   *)
(* answer, and ao, bo, mbbo and mbboDirect records, which send one.        *)
(*                                                                         *)
(* The private status of a record is written by canRecvTask when a message *)
(* comes, by the bus callback, which does not hold the record's lock, and  *)
(* by whoever processes the record.  The timer of a request asks for a     *)
(* callback that processes the record, and so does the answer.             *)
(*                                                                         *)
(* Tasks: "scan" stands for scan tasks and clients, which go through       *)
(* dbProcess; "callback" runs the records' callbacks and I/O Intr scans;   *)
(* "bus" runs the bus callbacks.  canRecvTask is above all of them, so what *)
(* it does for a message is one step; so is what the interrupt routine     *)
(* does for a change of the bus status.  The record supports, the          *)
(* callback queues and the timers are EPICS base: modelled from how the    *)
(* device supports use them.                                               *)
(*                                                                         *)
(* Left out: memory exhaustion, and records whose initialisation returned  *)
(* an error (only silenced ones are processed).                            *)
(***************************************************************************)
EXTENDS RecordData

CONSTANTS
  Records,
  Configs,        \* databases: canSilenceErrors, and for each record its kind,
                  \* address (INST_IO or not), NOBT, whether it is scanned by
                  \* I/O Intr, and (a bound) the values sent to or by it
  Signals,        \* which changes of status the bus has
  IoLimit,        \* bound: I/O Intr scans waiting for a record
  BusLimit,       \* bound: callbacks waiting for one bus
  CallbackLimit,  \* bound: scans and signals stop while a record has so many
  None            \* no record

Tasks == {"scan", "callback", "bus"}

ASSUME RecordsAssumption == /\ None \notin Records /\ IsFiniteSet(Records)
                            /\ Signals \subseteq {"ok", "error", "off"}
                            /\ \A c \in Configs : c.silence \in BOOLEAN

\* Databases whose addresses and values mean what their writer meant by them.
LegalDatabases ==
  \A c \in Configs : \A r \in Records : Attaches(c.db[r]) =>
    /\ Proper(c.db[r])
    /\ \A q \in Records \ {r} :
         /\ Attaches(c.db[q]) /\ {c.db[r].kind, c.db[q].kind} \subseteq Inputs
         /\ Identifier(c.db[r].addr) = Identifier(c.db[q].addr)
         => Apart(c.db[r], c.db[q])

VARIABLES
  rec,        \* the records of this database
  silence,    \* canSilenceErrors
  running,    \* interruptAccept
  attached,   \* how far the initialisation of each record has come
  inp,        \* its address as canIoParse left it (out in the outputs)
  privates,   \* firstPrivate of the bus structure of each kind
  handlers,   \* the driver's pmsgHandler lists, one per identifier, as one
  status,     \* private status
  data,       \* private data, <<>> until there is some
  pact,       \* the record waits for its answer
  timer,      \* its timer is armed
  queued,     \* callbacks asked for
  ioQueued,   \* I/O Intr scans asked for
  val,        \* its value in a sequence, <<>> until there is one
  sevr,       \* it is in INVALID alarm
  pc,         \* where each task is
  on,         \* the record it processes
  busStatus,  \* status in the bus structure of each kind
  busQueued,  \* bus callbacks asked for, per kind
  walk,       \* records that the bus callback still has to do
  walking,    \* the kind it does
  sent,       \* the data an output record sent last
  meant,      \* what the sender of the last message meant for each record
  reply       \* what ended the wait of each record's last request

config   == <<rec, silence>>
lists    == <<running, attached, inp, privates, handlers>>
private  == <<status, data>>
queues   == <<timer, queued, ioQueued>>
record   == <<pact, val, sevr, sent>>
busVars  == <<busStatus, busQueued, walk, walking>>
taskVars == <<pc, on>>
ghosts   == <<meant, reply>>
vars == <<config, lists, private, queues, record, busVars, taskVars, ghosts>>

Kind(r) == rec[r].kind
IsInput(r) == Kind(r) \in Inputs
Kinds == Inputs \cup Outputs

\* A task that has got the lock of a record and not yet given it back.
Holds(t, r) == on[t] = r /\ pc[t] \notin {"idle", "process", "dbProcess"}
Unlocked(r) == \A t \in Tasks : ~Holds(t, r)

Init ==
  /\ \E c \in Configs : rec = c.db /\ silence = c.silence
  /\ running = FALSE
  /\ attached = [r \in Records |-> "new"]
  /\ inp = [r \in Records |-> [good |-> FALSE]]
  /\ privates = [k \in Kinds |-> <<>>]
  /\ handlers = <<>>
  /\ status = [r \in Records |-> "NO_ALARM"]
  /\ data = [r \in Records |-> <<>>]
  /\ pact = [r \in Records |-> FALSE]
  /\ timer = [r \in Records |-> FALSE]
  /\ queued = [r \in Records |-> 0]
  /\ ioQueued = [r \in Records |-> 0]
  /\ val = [r \in Records |-> IF IsInput(r) THEN <<>> ELSE <<0>>]
  /\ sevr = [r \in Records |-> FALSE]
  /\ pc = [t \in Tasks |-> "idle"]
  /\ on = [t \in Tasks |-> None]
  /\ busStatus = [k \in Kinds |-> "NO_ALARM"]
  /\ busQueued = [k \in Kinds |-> 0]
  /\ walk = <<>>
  /\ walking = "ai"
  /\ sent = [r \in Records |-> <<>>]
  /\ meant = [r \in Records |-> <<>>]
  /\ reply = [r \in Records |-> "none"]

-----------------------------------------------------------------------------
(* iocInit: one task initialises the records, then interrupts are          *)
(* accepted.  Messages and signals before that are ignored by the          *)
(* handlers.                                                               *)

\* The common part of the init_record routines: the record joins the list of
\* its bus and kind and the handlers of its identifier, if it is a legal one.
Attach(r, k) ==
  /\ ~running /\ attached[r] = "new" /\ Kind(r) = k
  /\ inp' = [inp EXCEPT ![r] = CanIoParse(rec[r].addr)]
  /\ IF rec[r].instIo /\ inp'[r].good /\ ParameterGood(k, inp'[r].parameter)
     THEN /\ attached' = [attached EXCEPT ![r] = "ok"]
          /\ privates' = [privates EXCEPT ![k] = <<r>> \o @]
          /\ handlers' = IF inp'[r].identifier < 2048 THEN Append(handlers, r) ELSE handlers
          /\ UNCHANGED pact
     ELSE /\ attached' = [attached EXCEPT ![r] = IF rec[r].instIo /\ silence THEN "silenced" ELSE "failed"]
          /\ pact' = [pact EXCEPT ![r] = rec[r].instIo /\ silence]
          /\ UNCHANGED <<privates, handlers>>
  /\ UNCHANGED <<config, running, private, queues, val, sevr, sent, busVars, taskVars, ghosts>>

InitAi(r)         == Attach(r, "ai")
InitBi(r)         == Attach(r, "bi")
InitMbbi(r)       == Attach(r, "mbbi")
InitMbbiDirect(r) == Attach(r, "mbbiDirect")
InitSi(r)         == Attach(r, "si")
InitAo(r)         == Attach(r, "ao")
InitBo(r)         == Attach(r, "bo")
InitMbbo(r)       == Attach(r, "mbbo")
InitMbboDirect(r) == Attach(r, "mbboDirect")

InitRecord(r) == \/ InitAi(r) \/ InitBi(r) \/ InitMbbi(r) \/ InitMbbiDirect(r) \/ InitSi(r)
                 \/ InitAo(r) \/ InitBo(r) \/ InitMbbo(r) \/ InitMbboDirect(r)

AcceptInterrupts ==
  /\ ~running /\ \A r \in Records : attached[r] # "new"
  /\ running' = TRUE
  /\ UNCHANGED <<config, attached, inp, privates, handlers, private, queues, record, busVars, taskVars, ghosts>>

-----------------------------------------------------------------------------
(* canRecvTask, the interrupt routine and the timer.                       *)

Handlers(id) == {handlers[i] : i \in {j \in DOMAIN handlers : inp[handlers[j]].identifier = id}}

\* The identifier the writer of an address means.
MeantFor(r) == Identifier(rec[r].addr)

\* The bytes by which the other node tells record r the value v.
Tells(r, v) ==
  LET io == inp[r] IN
  CASE Kind(r) = "ai" -> LET d == AoMessage(io, v) IN
                         [i \in {j + io.offset : j \in DOMAIN d} |-> d[i - io.offset]]
    [] Kind(r) = "bi" -> BoMessage(io, v)
    [] Kind(r) = "mbbi" -> MbboMessage(io, rec[r].nobt, v)
    [] Kind(r) = "mbbiDirect" -> MbboDirectMessage(io, rec[r].nobt, v)
    [] Kind(r) = "si" -> [i \in 0 .. 7 |-> IF i < io.offset THEN io.parameter ELSE v]

\* What record r should make of it.
Meaning(r, v) ==
  CASE Kind(r) = "si" -> [i \in 0 .. 7 - inp[r].offset |-> v]
    [] Kind(r) = "ai" -> IF inp[r].paramStr = "float" /\ v = 1 THEN 0 ELSE v
    [] OTHER -> v

\* One message for several records holds the bits of each.
Wire(S, v) == [i \in UNION {DOMAIN Tells(r, v[r]) : r \in S} |->
                 SumFunction([r \in S |-> IF i \in DOMAIN Tells(r, v[r]) THEN Tells(r, v[r])[i] ELSE 0])]

\* What the message handler of record r stores.
Stored(r, d) ==
  CASE Kind(r) = "ai" -> AiMessage(inp[r], d)
    [] Kind(r) = "bi" -> BiMessage(inp[r], d)
    [] Kind(r) = "mbbi" -> MbbiMessage(inp[r], d)
    [] Kind(r) = "mbbiDirect" -> MbbiDirectMessage(inp[r], d)
    [] Kind(r) = "si" -> SiMessage(inp[r], d)

Takes(r, id, d) == r \in Handlers(id) /\ IsInput(r) /\ (Kind(r) = "si" => SiAccepts(inp[r], d))

\* The message handlers of all the records that take a message: an I/O Intr
\* record is scanned, a record that waits for its answer is called back.
Handle(id, d) ==
  LET takes == {r \in Records : Takes(r, id, d)}
      scans == {r \in takes : rec[r].ioEvent}
      wakes == {r \in takes \ scans : status[r] = "TIMEOUT"}
  IN  /\ data' = [r \in Records |-> IF r \in takes THEN <<Stored(r, d)>> ELSE data[r]]
      /\ status' = [r \in Records |-> IF r \in scans \cup wakes THEN "NO_ALARM" ELSE status[r]]
      /\ ioQueued' = [r \in Records |-> IF r \in scans THEN ioQueued[r] + 1 ELSE ioQueued[r]]
      /\ timer' = [r \in Records |-> timer[r] /\ r \notin wakes]
      /\ queued' = [r \in Records |-> IF r \in wakes THEN queued[r] + 1 ELSE queued[r]]
      /\ reply' = [r \in Records |-> IF r \in wakes THEN "message" ELSE reply[r]]

\* Another node sends values to the records S: a Wiener string is for one.
Receive(S, v) ==
  LET id == MeantFor(CHOOSE r \in S : TRUE) IN
  /\ running /\ id < 2048
  /\ \A r \in S : ioQueued[r] < IoLimit /\ v[r] \in rec[r].values
  /\ Handle(id, Wire(S, v))
  /\ meant' = [r \in Records |-> IF r \in S THEN <<Meaning(r, v[r])>> ELSE meant[r]]
  /\ UNCHANGED <<config, lists, record, busVars, taskVars>>

SameMessage(r) == {q \in Records : attached[q] = "ok" /\ IsInput(q) /\ MeantFor(q) = MeantFor(r)}

ReceiveData == \E r \in {q \in Records : attached[q] = "ok" /\ IsInput(q)} :
  \E S \in IF Kind(r) = "si" THEN {{r}} ELSE {SameMessage(r)} :
    \E v \in [S -> UNION {rec[q].values : q \in S}] : Receive(S, v)

\* aoMessage() and its like: a remote request makes an I/O Intr output send.
ReceiveRequest(r) ==
  LET scans == {q \in Handlers(MeantFor(r)) : ~IsInput(q) /\ rec[q].ioEvent} IN
  /\ running /\ scans # {}
  /\ \A q \in scans : ioQueued[q] < IoLimit
  /\ status' = [q \in Records |-> IF q \in scans THEN "NO_ALARM" ELSE status[q]]
  /\ ioQueued' = [q \in Records |-> IF q \in scans THEN ioQueued[q] + 1 ELSE ioQueued[q]]
  /\ UNCHANGED <<config, lists, data, timer, queued, record, busVars, taskVars, ghosts>>

\* busSignal() of every kind that has a record on the bus.
BusSignal(s) ==
  LET told == {k \in Kinds : privates[k] # <<>>} IN
  /\ running /\ told # {} /\ \A r \in Records : queued[r] < CallbackLimit
  /\ s # "ok" => \A k \in told : busQueued[k] < BusLimit
  /\ busStatus' = [k \in Kinds |-> IF k \notin told THEN busStatus[k]
                                   ELSE IF s = "ok" THEN "NO_ALARM" ELSE "COMM"]
  /\ busQueued' = [k \in Kinds |-> IF k \in told /\ s # "ok" THEN busQueued[k] + 1 ELSE busQueued[k]]
  /\ UNCHANGED <<config, lists, private, queues, record, walk, walking, taskVars, ghosts>>

\* The timer queue requests the callback of the record.
TimerExpires(r) ==
  /\ timer[r]
  /\ timer' = [timer EXCEPT ![r] = FALSE]
  /\ queued' = [queued EXCEPT ![r] = @ + 1]
  /\ UNCHANGED <<config, lists, private, ioQueued, record, busVars, taskVars, ghosts>>

-----------------------------------------------------------------------------
(* How the tasks come to process a record.                                 *)

Go(t, r, p) == pc' = [pc EXCEPT ![t] = p] /\ on' = [on EXCEPT ![t] = r]

\* A scan or a client: dbProcess, for an output with a new value.
Scan(r) ==
  /\ running /\ pc["scan"] = "idle" /\ attached[r] # "failed" /\ queued[r] < CallbackLimit
  /\ Go("scan", r, "dbProcess")
  /\ UNCHANGED <<config, lists, private, queues, record, busVars, ghosts>>

\* Mutants: the callback runs unasked; it goes through dbProcess.
TakeCallbackUnasked(r) ==
  /\ pc["callback"] = "idle"
  /\ queued' = [queued EXCEPT ![r] = @ - 1]
  /\ Go("callback", r, "process")
  /\ UNCHANGED <<config, lists, private, timer, ioQueued, record, busVars, ghosts>>

TakeCallbackThroughDb(r) ==
  /\ pc["callback"] = "idle" /\ queued[r] > 0
  /\ queued' = [queued EXCEPT ![r] = @ - 1]
  /\ Go("callback", r, "dbProcess")
  /\ UNCHANGED <<config, lists, private, timer, ioQueued, record, busVars, ghosts>>

\* ProcessCallback(): it does not look whether the record waits.
TakeCallback(r) ==
  /\ pc["callback"] = "idle" /\ queued[r] > 0
  /\ queued' = [queued EXCEPT ![r] = @ - 1]
  /\ Go("callback", r, "process")
  /\ UNCHANGED <<config, lists, private, timer, ioQueued, record, busVars, ghosts>>

TakeIoScan(r) ==
  /\ pc["callback"] = "idle" /\ ioQueued[r] > 0
  /\ ioQueued' = [ioQueued EXCEPT ![r] = @ - 1]
  /\ Go("callback", r, "dbProcess")
  /\ UNCHANGED <<config, lists, private, timer, queued, record, busVars, ghosts>>

\* busCallback(): the list is walked from the record added last.
TakeBusCallback(k) ==
  /\ pc["bus"] = "idle" /\ walk = <<>> /\ busQueued[k] > 0
  /\ busQueued' = [busQueued EXCEPT ![k] = @ - 1]
  /\ walk' = privates[k] /\ walking' = k
  /\ UNCHANGED <<config, lists, private, queues, record, busStatus, taskVars, ghosts>>

\* It writes the private status before it has the lock, and the status the
\* bus has by now.
busCallback ==
  /\ pc["bus"] = "idle" /\ walk # <<>>
  /\ LET r == Head(walk) IN
     /\ status' = [status EXCEPT ![r] = busStatus[walking]]
     /\ reply' = [reply EXCEPT ![r] = IF pact[r] /\ busStatus[walking] = "NO_ALARM" THEN "recovery" ELSE @]
     /\ Go("bus", r, "process")
  /\ walk' = Tail(walk)
  /\ UNCHANGED <<config, lists, data, queues, record, busStatus, busQueued, walking, meant>>

\* The lock of the record, for a task that may process it: dbProcess goes no
\* further when the record waits.
Locks(t) == /\ pc[t] \in {"process", "dbProcess"} /\ Unlocked(on[t])
            /\ pc[t] = "dbProcess" => ~pact[on[t]]

Refused(t) ==
  /\ pc[t] = "dbProcess" /\ Unlocked(on[t]) /\ pact[on[t]]
  /\ Go(t, None, "idle")
  /\ UNCHANGED <<config, lists, private, queues, record, busVars, ghosts>>

\* The record is done: no longer waiting, in alarm or not, and unlocked.
Complete(t, alarm) ==
  /\ pact' = [pact EXCEPT ![on[t]] = FALSE]
  /\ sevr' = [sevr EXCEPT ![on[t]] = alarm]
  /\ Go(t, None, "idle")

-----------------------------------------------------------------------------
(* Input records: read_ai() and its like.                                  *)

\* The switch on the private status.
Read(t, k, value(_)) ==
  LET r == on[t] IN
  /\ Locks(t) /\ Kind(r) = k
  /\ \/ /\ status[r] # "NO_ALARM"
        /\ Go(t, r, "alarm") /\ UNCHANGED <<pact, sevr, val>>
     \/ /\ status[r] = "NO_ALARM" /\ (pact[r] \/ rec[r].ioEvent)
        /\ val' = [val EXCEPT ![r] = IF data[r] = <<>> THEN <<>> ELSE <<value(data[r][1])>>]
        /\ Complete(t, FALSE)
     \/ /\ status[r] = "NO_ALARM" /\ ~pact[r] /\ ~rec[r].ioEvent
        /\ Go(t, r, "request") /\ UNCHANGED <<pact, sevr, val>>
  /\ UNCHANGED <<config, lists, private, queues, sent, busVars, ghosts>>

ReadAi(t)   == Read(t, "ai", LAMBDA d : AiValue(inp[on[t]], d))
ReadBi(t)   == Read(t, "bi", LAMBDA d : BiValue(inp[on[t]], d))
ReadMbbi(t) == Read(t, "mbbi", LAMBDA d : MbbiValue(inp[on[t]], rec[on[t]].nobt, d))
ReadMbbiDirect(t) == Read(t, "mbbiDirect", LAMBDA d : MbbiDirectValue(inp[on[t]], rec[on[t]].nobt, d))
ReadSi(t)   == Read(t, "si", LAMBDA d : d)

ReadInput(t) == ReadAi(t) \/ ReadBi(t) \/ ReadMbbi(t) \/ ReadMbbiDirect(t) \/ ReadSi(t)

\* Mutant: the private status is cleared and no alarm raised.
ForgetAlarm(t) ==
  /\ pc[t] = "alarm"
  /\ status' = [status EXCEPT ![on[t]] = "NO_ALARM"]
  /\ Complete(t, FALSE)
  /\ UNCHANGED <<config, lists, data, queues, val, sent, busVars, ghosts>>

\* The alarm is raised and the private status cleared; the same in the outputs.
RaiseAlarm(t) ==
  /\ pc[t] = "alarm"
  /\ status' = [status EXCEPT ![on[t]] = "NO_ALARM"]
  /\ Complete(t, TRUE)
  /\ UNCHANGED <<config, lists, data, queues, val, sent, busVars, ghosts>>

\* Mutant: the private status stays as it is.
SuspendAlone(t) ==
  /\ pc[t] = "request"
  /\ pact' = [pact EXCEPT ![on[t]] = TRUE]
  /\ reply' = [reply EXCEPT ![on[t]] = "none"]
  /\ Go(t, on[t], "timer")
  /\ UNCHANGED <<config, lists, private, queues, val, sevr, sent, busVars, meant>>

\* The record will wait: PACT and the status say so before the timer runs.
Suspend(t) ==
  /\ pc[t] = "request"
  /\ pact' = [pact EXCEPT ![on[t]] = TRUE]
  /\ status' = [status EXCEPT ![on[t]] = "TIMEOUT"]
  /\ reply' = [reply EXCEPT ![on[t]] = "none"]
  /\ Go(t, on[t], "timer")
  /\ UNCHANGED <<config, lists, data, queues, val, sevr, sent, busVars, meant>>

\* The timer, and canWrite() of the request, whose result nobody looks at.
SendRequest(t) ==
  /\ pc[t] = "timer"
  /\ timer' = [timer EXCEPT ![on[t]] = TRUE]
  /\ Go(t, None, "idle")
  /\ UNCHANGED <<config, lists, private, queued, ioQueued, record, busVars, ghosts>>

-----------------------------------------------------------------------------
(* Output records: write_ao() and its like.                                *)

\* A client changes the value under the lock of the record.
NewValue(t, r) ==
  \/ t = "scan" /\ \E v \in rec[r].values : val' = [val EXCEPT ![r] = <<v>>]
  \/ t # "scan" /\ UNCHANGED val

\* The value goes out, or the record is in alarm: canWrite() may time out.
Write(t, k, refused(_), message(_)) ==
  LET r == on[t] IN
  /\ Locks(t) /\ Kind(r) = k
  /\ NewValue(t, r)
  /\ \/ /\ status[r] # "NO_ALARM"
        /\ Go(t, r, "alarm") /\ UNCHANGED <<pact, sevr, sent>>
     \/ /\ status[r] = "NO_ALARM" /\ ~refused(val'[r][1]) /\ inp[r].identifier < 2048
        /\ sent' = [sent EXCEPT ![r] = <<message(val'[r][1])>>]
        /\ Complete(t, FALSE)
     \/ /\ status[r] = "NO_ALARM"
        /\ Complete(t, TRUE) /\ UNCHANGED sent
  /\ UNCHANGED <<config, lists, private, queues, busVars, ghosts>>

WriteAo(t)   == Write(t, "ao", LAMBDA v : AoRefused(inp[on[t]], v), LAMBDA v : AoMessage(inp[on[t]], v))
WriteBo(t)   == Write(t, "bo", LAMBDA v : FALSE, LAMBDA v : BoMessage(inp[on[t]], v))
WriteMbbo(t) == Write(t, "mbbo", LAMBDA v : FALSE, LAMBDA v : MbboMessage(inp[on[t]], rec[on[t]].nobt, v))
WriteMbboDirect(t) == Write(t, "mbboDirect", LAMBDA v : FALSE,
                            LAMBDA v : MbboDirectMessage(inp[on[t]], rec[on[t]].nobt, v))

WriteOutput(t) == WriteAo(t) \/ WriteBo(t) \/ WriteMbbo(t) \/ WriteMbboDirect(t)

-----------------------------------------------------------------------------
Process(t) == \/ Refused(t) \/ ReadInput(t) \/ WriteOutput(t) \/ RaiseAlarm(t)
              \/ Suspend(t) \/ SendRequest(t)

Next ==
  \/ \E r \in Records : \/ InitRecord(r) \/ Scan(r) \/ TakeCallback(r) \/ TakeIoScan(r)
                        \/ TimerExpires(r) \/ ReceiveRequest(r)
  \/ AcceptInterrupts \/ ReceiveData \/ busCallback
  \/ \E k \in Kinds : TakeBusCallback(k)
  \/ \E s \in Signals : BusSignal(s)
  \/ \E t \in Tasks : Process(t)

Spec == Init /\ [][Next]_vars

-----------------------------------------------------------------------------
(* Properties.                                                             *)

\* Private status, processing and callback state have their types, a task that
\* is under way has a record, and the bus callback walks over records only.
TypeOK ==
  /\ running \in BOOLEAN /\ silence \in BOOLEAN
  /\ attached \in [Records -> {"new", "ok", "silenced", "failed"}]
  /\ status \in [Records -> {"NO_ALARM", "TIMEOUT", "COMM"}]
  /\ pact \in [Records -> BOOLEAN] /\ timer \in [Records -> BOOLEAN] /\ sevr \in [Records -> BOOLEAN]
  /\ queued \in [Records -> Nat] /\ ioQueued \in [Records -> Nat]
  /\ pc \in [Tasks -> {"idle", "process", "dbProcess", "alarm", "request", "timer"}]
  /\ on \in [Tasks -> Records \cup {None}] /\ \A t \in Tasks : pc[t] # "idle" => on[t] \in Records
  /\ busStatus \in [Kinds -> {"NO_ALARM", "COMM"}] /\ busQueued \in [Kinds -> Nat]
  /\ walk \in Seq(Records) /\ walking \in Kinds
  /\ reply \in [Records -> {"none", "message", "recovery"}]

\* What is still going to complete a record that waits: its timer, a callback,
\* or a task that does not look at PACT.
Pending(r) ==
  \/ timer[r] \/ queued[r] > 0
  \/ \E t \in Tasks : on[t] = r /\ pc[t] \in {"process", "alarm", "timer"}

\* A record that waits for an answer is never left waiting: PACT refuses every
\* scan, so something that does not look at it must be on the way, whatever
\* answers, bus errors and timeouts have met (read_ai, aiMessage, busCallback).
NeverStuck == \A r \in Records : attached[r] = "ok" /\ pact[r] => Pending(r)

\* When nobody processes an I/O Intr input, its value is the one that the last
\* message meant for it, whatever bus errors came between (aiMessage, read_ai).
LatestValue ==
  \A r \in Records :
    /\ attached[r] = "ok" /\ IsInput(r) /\ rec[r].ioEvent /\ ioQueued[r] = 0
    /\ \A t \in Tasks : on[t] # r
    => val[r] = meant[r]

\* What an output sends for a value: too small for a float is zero.
Rounded(r, v) == IF Kind(r) = "ao" /\ inp[r].paramStr = "float" /\ v = 1 THEN 0 ELSE v

\* What an input record with the same address would read.
ReadBack(r, d) ==
  LET io == [inp[r] EXCEPT !.offset = IF Kind(r) = "ao" THEN 0 ELSE @] IN
  CASE Kind(r) = "ao" -> AiValue(io, AiMessage(io, d))
    [] Kind(r) = "bo" -> BiValue(io, BiMessage(io, d))
    [] OTHER -> MbbiValue(io, rec[r].nobt, MbbiMessage(io, d))

\* An output record that nobody processes has sent its value so that an input
\* with the same address reads it, or says by its alarm that it did not; also
\* when a bus error takes the place of a write (write_ao, busCallback).
OutputOrAlarm ==
  \A r \in Records :
    ~IsInput(r) /\ attached[r] = "ok" /\ (\A t \in Tasks : ~Holds(t, r)) /\ sent[r] # <<>>
      => sevr[r] \/ ReadBack(r, sent[r][1]) = Rounded(r, val[r][1])

\* A record that has waited ends without an alarm only when its answer has
\* come, with the value of the last message, or when the bus has recovered
\* from an error before the bus callback ran (read_ai, aiMessage).
FreshData ==
  [][\A r \in Records : pact[r] /\ ~pact'[r] /\ ~sevr'[r] =>
       reply[r] # "none" /\ (reply[r] = "message" => val'[r] = meant[r])]_vars

\* Record processing is suspended until the relevant reply is received: so the
\* documentation of the device support, and not the code after an error.
SuspendedUntilReply ==
  [][\A r \in Records : pact[r] /\ ~pact'[r] /\ ~sevr'[r] => reply[r] = "message"]_vars

=============================================================================
