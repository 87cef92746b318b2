------------------------------ MODULE CanRead ------------------------------
(***************************************************************************)
(* The receive side of one TIP810 CAN bus (drvTip810/drvTip810.c).         *)
(*                                                                         *)
(* The chip holds received frames in two buffers.  t810ISR copies a frame  *)
(* out of it into receiptQueue, without waiting when the queue is full.    *)
(* canRecvTask takes the frames out one by one, runs the callbacks that    *)
(* are registered, and gives the frame to a canRead() that waits for its   *)
(* identifier: preadBuffer points to that caller's message buffer, rxSem   *)
(* tells it that the frame is there.  canRead() sends a remote request out *)
(* of the same message buffer that the reply is copied into.               *)
(*                                                                         *)
(* Atomicity.  canRecvTask runs at epicsThreadPriorityHigh.  On one        *)
(* processor a task of lower priority runs only when canRecvTask waits on  *)
(* the empty queue; a task of higher priority (the shell) runs between any *)
(* two of its steps.  t810ISR interrupts both, and the chip interrupts     *)
(* nobody: it just goes on.                                                *)
(*                                                                         *)
(* canWrite() is one step here, which sends or fails: CanTransmit looks    *)
(* inside.  So are the error and transmit branches of t810ISR, which do    *)
(* not touch this state.  The counters are left out.                       *)
(***************************************************************************)
EXTENDS Naturals, Sequences

CONSTANTS
  Readers,      \* tasks that call canRead()
  HighReaders,  \* those with a higher priority than canRecvTask
  Ids,          \* message identifiers
  Wants,        \* Wants[r]: the identifier reader r asks for
  QueueSize,    \* RECV_Q_SIZE
  FrameLimit,   \* bound: how many frames come in
  None          \* the null pointer

ASSUME ReadAssumption ==
  /\ HighReaders \subseteq Readers
  /\ Wants \in [Readers -> Ids]
  /\ QueueSize \in Nat \ {0}
  /\ FrameLimit \in Nat
  /\ None \notin Readers

VARIABLES
  pc,           \* where each reader is in canRead()
  buffer,       \* its message buffer
  readSem,      \* who holds the mutex
  preadBuffer,  \* whose buffer waits for a message
  rxSem,        \* the message arrival event is full
  recv,         \* where canRecvTask is
  rmsg,         \* the message it works on
  target,       \* the copy of preadBuffer it may hold in a register
  queue,        \* receiptQueue
  isr,          \* where t810ISR is, "off" when it is not running
  intSource,    \* its local copy of the interrupt register
  interrupt,    \* interrupt register: cleared by reading it
  rxFifo,       \* the chip's receive buffers
  frames        \* how many frames came in

readVars == <<pc, buffer, readSem>>
recvVars == <<recv, rmsg, target>>
isrVars  == <<isr, intSource>>
chipVars == <<interrupt, rxFifo>>
vars     == <<readVars, preadBuffer, rxSem, recvVars, queue, isrVars, chipVars, frames>>

-----------------------------------------------------------------------------
Sources == {"OI", "RI"}

\* A message: its identifier, whether it is a remote request, and what data it
\* carries: that of the n-th frame that came in, or the caller's own (0).
Message == [id : Ids, rtr : BOOLEAN, n : 0 .. FrameLimit]

\* The pca82c200 has two receive buffers.
RxBuffers == 2

\* The device table, as t810Create fills it in: nobody reads.
t810Create ==
  /\ pc = [r \in Readers |-> "idle"]
  /\ buffer = [r \in Readers |-> [id |-> Wants[r], rtr |-> FALSE, n |-> 0]]
  /\ readSem = None
  /\ preadBuffer = None
  /\ rxSem = FALSE

\* The queue is made, canRecvTask started (what is in its rmsg nobody knows), the
\* interrupt routine connected and the chip let run.
t810Initialise ==
  /\ queue = <<>>
  /\ recv = "get"
  /\ rmsg \in {[id |-> i, rtr |-> FALSE, n |-> 0] : i \in Ids}
  /\ target = None
  /\ isr = "off"
  /\ intSource = {}
  /\ interrupt = {}
  /\ rxFifo = <<>>

Init ==
  /\ t810Create
  /\ t810Initialise
  /\ frames = 0

-----------------------------------------------------------------------------
(* canRead().                                                              *)

Runs(r) ==
  /\ isr = "off"
  /\ r \in HighReaders \/ recv = "crashed" \/ (recv = "get" /\ queue = <<>>)

Goto(r, from, to) ==
  /\ Runs(r)
  /\ pc[r] = from
  /\ pc' = [pc EXCEPT ![r] = to]

\* A call with a bad bus or a bad message returns before it touches this state.
Call(r) ==
  /\ Goto(r, "idle", "lock")
  /\ buffer' = [buffer EXCEPT ![r] = [id |-> Wants[r], rtr |-> FALSE, n |-> 0]]
  /\ UNCHANGED <<readSem, preadBuffer, rxSem, recvVars, queue, isrVars, chipVars, frames>>

Lock(r) ==
  /\ Goto(r, "lock", "publish")
  /\ readSem = None
  /\ readSem' = r
  /\ UNCHANGED <<buffer, preadBuffer, rxSem, recvVars, queue, isrVars, chipVars, frames>>

Publish(r) ==
  /\ Goto(r, "publish", "request")
  /\ preadBuffer' = r
  /\ UNCHANGED <<buffer, readSem, rxSem, recvVars, queue, isrVars, chipVars, frames>>

Request(r) ==
  /\ Goto(r, "request", "write")
  /\ buffer' = [buffer EXCEPT ![r].rtr = TRUE]
  /\ UNCHANGED <<readSem, preadBuffer, rxSem, recvVars, queue, isrVars, chipVars, frames>>

\* canWrite() puts what the buffer holds now on the bus ...
Write(r) ==
  /\ Goto(r, "write", "wait")
  /\ UNCHANGED <<buffer, readSem, preadBuffer, rxSem, recvVars, queue, isrVars, chipVars, frames>>

\* ... or returns an error.
WriteFails(r) ==
  /\ Goto(r, "write", "clear")
  /\ UNCHANGED <<buffer, readSem, preadBuffer, rxSem, recvVars, queue, isrVars, chipVars, frames>>

GetReply(r) ==
  /\ Goto(r, "wait", "good")
  /\ rxSem
  /\ rxSem' = FALSE
  /\ UNCHANGED <<buffer, readSem, preadBuffer, recvVars, queue, isrVars, chipVars, frames>>

TimeOut(r) ==
  /\ Goto(r, "wait", "clear")
  /\ ~rxSem
  /\ UNCHANGED <<buffer, readSem, preadBuffer, rxSem, recvVars, queue, isrVars, chipVars, frames>>

\* Mutant: the pointer is left behind.
ClearNothing(r) ==
  /\ Goto(r, "clear", "drain")
  /\ UNCHANGED <<buffer, readSem, preadBuffer, rxSem, recvVars, queue, isrVars, chipVars, frames>>

Clear(r) ==
  /\ Goto(r, "clear", "drain")
  /\ preadBuffer' = None
  /\ UNCHANGED <<buffer, readSem, rxSem, recvVars, queue, isrVars, chipVars, frames>>

\* Mutant: the event is left as it is.
DrainNothing(r) ==
  /\ Goto(r, "drain", "bad")
  /\ UNCHANGED <<buffer, readSem, preadBuffer, rxSem, recvVars, queue, isrVars, chipVars, frames>>

Drain(r) ==
  /\ Goto(r, "drain", "bad")
  /\ rxSem' = FALSE
  /\ UNCHANGED <<buffer, readSem, preadBuffer, recvVars, queue, isrVars, chipVars, frames>>

\* Mutant: the mutex is kept when an error is returned.
UnlockGood(r) ==
  /\ Goto(r, "good", "idle") \/ Goto(r, "bad", "idle")
  /\ readSem' = IF pc[r] = "good" THEN None ELSE readSem
  /\ UNCHANGED <<buffer, preadBuffer, rxSem, recvVars, queue, isrVars, chipVars, frames>>

\* The call returns, 0 or an error.
Unlock(r) ==
  /\ Goto(r, "good", "idle") \/ Goto(r, "bad", "idle")
  /\ readSem' = None
  /\ UNCHANGED <<buffer, preadBuffer, rxSem, recvVars, queue, isrVars, chipVars, frames>>

canRead(r) ==
  \/ Call(r) \/ Lock(r) \/ Publish(r) \/ Request(r) \/ Write(r) \/ WriteFails(r)
  \/ GetReply(r) \/ TimeOut(r) \/ Clear(r) \/ Drain(r) \/ Unlock(r)

-----------------------------------------------------------------------------
(* canRecvTask: t810RecvTask.                                              *)

RecvGoto(from, to) == isr = "off" /\ recv = from /\ recv' = to

\* Mutant: the newest message is taken.
RecvGetNewest ==
  /\ RecvGoto("get", "test")
  /\ queue # <<>>
  /\ rmsg' = queue[Len(queue)]
  /\ queue' = SubSeq(queue, 1, Len(queue) - 1)
  /\ UNCHANGED <<readVars, preadBuffer, rxSem, target, isrVars, chipVars, frames>>

RecvGet ==
  /\ RecvGoto("get", "test")
  /\ queue # <<>>
  /\ rmsg' = Head(queue)
  /\ queue' = Tail(queue)
  /\ UNCHANGED <<readVars, preadBuffer, rxSem, target, isrVars, chipVars, frames>>

\* Mutant: the null pointer is not looked for.
RecvTestNothing ==
  /\ RecvGoto("test", "compare")
  /\ target' = preadBuffer
  /\ UNCHANGED <<readVars, preadBuffer, rxSem, rmsg, queue, isrVars, chipVars, frames>>

\* The callbacks of the identifier have run.  Is a canRead() waiting?
RecvTest ==
  /\ RecvGoto("test", IF preadBuffer = None THEN "get" ELSE "compare")
  /\ target' = preadBuffer
  /\ UNCHANGED <<readVars, preadBuffer, rxSem, rmsg, queue, isrVars, chipVars, frames>>

\* The pointer is not volatile: the next two steps use the value read above or
\* read it again.  A null pointer is the end of the task.
Pointer(t) == t = target \/ t = preadBuffer

RecvCrash ==
  /\ RecvGoto("compare", "crashed") \/ RecvGoto("copy", "crashed")
  /\ Pointer(None)
  /\ target' = None
  /\ UNCHANGED <<readVars, preadBuffer, rxSem, rmsg, queue, isrVars, chipVars, frames>>

\* Does it wait for this identifier?
RecvCompare(t) ==
  /\ Pointer(t)
  /\ \/ /\ RecvGoto("compare", "copy")
        /\ buffer[t].id = rmsg.id
        /\ target' = t
     \/ /\ RecvGoto("compare", "get")
        /\ buffer[t].id # rmsg.id
        /\ target' = None
  /\ UNCHANGED <<readVars, preadBuffer, rxSem, rmsg, queue, isrVars, chipVars, frames>>

RecvCopy(t) ==
  /\ Pointer(t)
  /\ RecvGoto("copy", "clear")
  /\ buffer' = [buffer EXCEPT ![t] = rmsg]
  /\ UNCHANGED <<pc, readSem, preadBuffer, rxSem, rmsg, target, queue, isrVars, chipVars, frames>>

RecvClear ==
  /\ RecvGoto("clear", "signal")
  /\ preadBuffer' = None
  /\ UNCHANGED <<readVars, rxSem, rmsg, target, queue, isrVars, chipVars, frames>>

RecvSignal ==
  /\ RecvGoto("signal", "get")
  /\ rxSem' = TRUE
  /\ target' = None
  /\ UNCHANGED <<readVars, preadBuffer, rmsg, queue, isrVars, chipVars, frames>>

t810RecvTask ==
  \/ RecvGet \/ RecvTest \/ RecvCrash \/ RecvClear \/ RecvSignal
  \/ \E t \in Readers : RecvCompare(t) \/ RecvCopy(t)

-----------------------------------------------------------------------------
(* t810ISR: entry, overrun, rescan, receive.                               *)

IsrEnter ==
  /\ isr = "off"
  /\ interrupt # {}
  /\ isr' = "overrun"
  /\ intSource' = interrupt
  /\ interrupt' = {}
  /\ UNCHANGED <<readVars, preadBuffer, rxSem, recvVars, queue, rxFifo, frames>>

\* canBusStop() and canBusRestart(): the chip forgets what it has received.
IsrOverrun ==
  /\ isr = "overrun"
  /\ \/ /\ "OI" \in intSource
        /\ isr' = "rescan"
        /\ interrupt' = {}
        /\ rxFifo' = <<>>
     \/ /\ "OI" \notin intSource
        /\ isr' = "receive"
        /\ UNCHANGED chipVars
  /\ UNCHANGED <<readVars, preadBuffer, rxSem, recvVars, queue, intSource, frames>>

\* Mutant: the interrupt register is not read again.
IsrRescanNothing ==
  /\ isr = "rescan"
  /\ isr' = "receive"
  /\ UNCHANGED <<readVars, preadBuffer, rxSem, recvVars, queue, intSource, chipVars, frames>>

IsrRescan ==
  /\ isr = "rescan"
  /\ isr' = "receive"
  /\ intSource' = interrupt
  /\ interrupt' = {}
  /\ UNCHANGED <<readVars, preadBuffer, rxSem, recvVars, queue, rxFifo, frames>>

\* Mutant: the queue has no end.
TrySendAlways(m) == queue' = Append(queue, m)

\* epicsMessageQueueTrySend: a full queue drops the new message.
TrySend(m) == queue' = IF Len(queue) < QueueSize THEN Append(queue, m) ELSE queue

\* Releasing the chip's buffer brings up the frame in the other one, if any.
IsrReceive ==
  /\ isr = "receive"
  /\ isr' = "off"
  /\ intSource' = {}
  /\ \/ /\ "RI" \in intSource
        /\ TrySend(Head(rxFifo))
        /\ rxFifo' = Tail(rxFifo)
        /\ interrupt' = IF Tail(rxFifo) = <<>> THEN interrupt ELSE interrupt \cup {"RI"}
     \/ /\ "RI" \notin intSource
        /\ UNCHANGED <<queue, chipVars>>
  /\ UNCHANGED <<readVars, preadBuffer, rxSem, recvVars, frames>>

t810ISR == IsrEnter \/ IsrOverrun \/ IsrRescan \/ IsrReceive

-----------------------------------------------------------------------------
(* The chip takes a frame off the bus: any node may send any frame, a reply,  *)
(* a request for the same identifier, or something nobody asked for.          *)

ChipReceive(i, remote) ==
  /\ frames < FrameLimit
  /\ frames' = frames + 1
  /\ \/ /\ Len(rxFifo) < RxBuffers
        /\ rxFifo' = Append(rxFifo, [id |-> i, rtr |-> remote, n |-> frames + 1])
        /\ interrupt' = IF rxFifo = <<>> THEN interrupt \cup {"RI"} ELSE interrupt
     \/ /\ Len(rxFifo) = RxBuffers
        /\ interrupt' = interrupt \cup {"OI"}
        /\ UNCHANGED rxFifo
  /\ UNCHANGED <<readVars, preadBuffer, rxSem, recvVars, queue, isrVars>>

-----------------------------------------------------------------------------
Next ==
  \/ \E r \in Readers : canRead(r)
  \/ t810RecvTask
  \/ t810ISR
  \/ \E i \in Ids, remote \in BOOLEAN : ChipReceive(i, remote)

Spec == Init /\ [][Next]_vars

(***************************************************************************)
(* Fairness.  A task in the middle of a call, and canRecvTask, are         *)
(* scheduled again (strongly: interrupts, and canRecvTask for the others,  *)
(* take the processor away and give it back), and a wait with a time limit *)
(* ends.  A pending interrupt is served and the routine runs to its end.   *)
(* Nothing makes a task call or a frame come in.                           *)
(***************************************************************************)
Fairness ==
  /\ \A r \in Readers :
       SF_vars(Lock(r) \/ Publish(r) \/ Request(r) \/ Write(r) \/ WriteFails(r)
                \/ GetReply(r) \/ TimeOut(r) \/ Clear(r) \/ Drain(r) \/ Unlock(r))
  /\ SF_vars(t810RecvTask)
  /\ WF_vars(t810ISR)

FairSpec == Spec /\ Fairness

-----------------------------------------------------------------------------
(* Properties.                                                             *)

\* Steps of canRead() taken with the mutex.
Locked == {"publish", "request", "write", "wait", "clear", "drain", "good", "bad"}

TypeOK ==
  /\ pc \in [Readers -> Locked \cup {"idle", "lock"}]
  /\ buffer \in [Readers -> Message]
  /\ readSem \in Readers \cup {None}
  /\ preadBuffer \in Readers \cup {None}
  /\ rxSem \in BOOLEAN
  /\ recv \in {"get", "test", "compare", "copy", "clear", "signal", "crashed"}
  /\ rmsg \in Message
  /\ target \in Readers \cup {None}
  /\ queue \in Seq(Message) /\ Len(queue) <= QueueSize
  /\ isr \in {"off", "overrun", "rescan", "receive"}
  /\ intSource \subseteq Sources
  /\ interrupt \subseteq Sources
  /\ rxFifo \in Seq(Message) /\ Len(rxFifo) <= RxBuffers
  /\ frames \in 0 .. FrameLimit

(***************************************************************************)
(* canRead() returns 0 only with a message of the identifier it was asked  *)
(* for, one that came in from the bus: never with its own request, which   *)
(* is what a signal left over from an earlier call would make it return.   *)
(***************************************************************************)
ReadSound ==
  \A r \in Readers : pc[r] = "good" => buffer[r].id = Wants[r] /\ buffer[r].n > 0

(***************************************************************************)
(* When nobody is in canRead() nothing of an earlier call is left behind:  *)
(* neither the pointer to its buffer nor the signal of a reply that came   *)
(* as its time ran out.                                                    *)
(***************************************************************************)
NoLeftovers == readSem = None => preadBuffer = None /\ ~rxSem

(***************************************************************************)
(* canRecvTask never copies a message to a null pointer, nor into the      *)
(* buffer of a canRead() that has returned.                                *)
(***************************************************************************)
NoWildCopy == recv = "copy" => preadBuffer # None /\ pc[preadBuffer] \in Locked

(***************************************************************************)
(* canRead() "sends a CANbus Remote Transmission Request": what goes out   *)
(* is a remote request, whatever comes in while it waits to send it.       *)
(***************************************************************************)
SendsRequest == [][\A r \in Readers : Write(r) => buffer[r].rtr]_vars

(***************************************************************************)
(* A frame in the chip's receive buffer has an interrupt coming, or being  *)
(* served, that will fetch it; and t810ISR never copies out an empty       *)
(* buffer, however frames, overruns and the reset that an overrun leads to *)
(* follow on one another.                                                  *)
(***************************************************************************)
Fetching == isr \in {"overrun", "receive"} /\ "RI" \in intSource

ReceiverServed == rxFifo # <<>> <=> "RI" \in interrupt \/ Fetching

Receipt == INSTANCE ReceiptOrder WITH arrived <- frames, handled <- rmsg.n

(***************************************************************************)
(* The interrupt routine, the queue and canRecvTask handle frames in the   *)
(* order in which they arrive, none of them twice.                         *)
(***************************************************************************)
InOrder == Receipt!Spec

(***************************************************************************)
(* Every canRead() with a time limit returns, also when others use it.     *)
(***************************************************************************)
EveryReadReturns == \A r \in Readers : pc[r] # "idle" ~> pc[r] = "idle"

(***************************************************************************)
(* A message in receiptQueue is handled in the end.                        *)
(***************************************************************************)
EveryMessageHandled ==
  \A n \in 1 .. FrameLimit :
    (\E k \in DOMAIN queue : queue[k].n = n) ~> rmsg.n = n

=============================================================================
