---------------------------- MODULE CanReadProofs ----------------------------
(***************************************************************************)
(* Proofs about CanRead, for any number of readers, identifiers and        *)
(* frames, and a queue of any size.                                        *)
(***************************************************************************)
EXTENDS CanRead, TLAPS

USE DEF readVars, recvVars, isrVars, chipVars

-----------------------------------------------------------------------------
(***************************************************************************)
(* The chip's receive buffers.  The type of what t810ISR puts in the queue *)
(* depends on there being a frame to take: types and FetchInv go together. *)
(***************************************************************************)
FetchInv ==
  /\ ReceiverServed
  /\ ~("RI" \in interrupt /\ Fetching)
  /\ isr = "off" => intSource = {}

ReceiverInv == TypeOK /\ FetchInv

LEMMA InitReceiverInv == Init => ReceiverInv
<1> SUFFICES ASSUME Init PROVE ReceiverInv
    OBVIOUS
<1> USE DEF Init, t810Create, t810Initialise
<1>1. pc \in [Readers -> Locked \cup {"idle", "lock"}]
  OBVIOUS
<1>2. \A i \in Ids : [id |-> i, rtr |-> FALSE, n |-> 0] \in Message
  BY ReadAssumption DEF Message
<1>3. buffer \in [Readers -> Message] /\ rmsg \in Message
  BY <1>2, ReadAssumption
<1>4. queue \in Seq(Message) /\ Len(queue) <= QueueSize /\ rxFifo \in Seq(Message)
      /\ Len(rxFifo) <= RxBuffers
  BY ReadAssumption DEF RxBuffers
<1>5. frames \in 0 .. FrameLimit
  BY ReadAssumption
<1>6. TypeOK
  BY <1>1, <1>3, <1>4, <1>5 DEF TypeOK
<1> QED BY <1>6 DEF ReceiverInv, FetchInv, ReceiverServed, Fetching

LEMMA NextReceiverInv == ReceiverInv /\ [Next]_vars => ReceiverInv'
<1> SUFFICES ASSUME ReceiverInv, [Next]_vars PROVE ReceiverInv'
    OBVIOUS
<1>t. TypeOK
  BY DEF ReceiverInv
<1>1. ASSUME NEW r \in Readers, canRead(r) PROVE ReceiverInv'
  <2>1. UNCHANGED <<recvVars, queue, isrVars, chipVars, frames>>
    BY <1>1 DEF canRead, Call, Lock, Publish, Request, Write, WriteFails, GetReply, TimeOut,
                Clear, Drain, Unlock
  <2>2. pc' \in [Readers -> Locked \cup {"idle", "lock"}]
    BY <1>1, <1>t DEF canRead, Call, Lock, Publish, Request, Write, WriteFails, GetReply,
                TimeOut, Clear, Drain, Unlock, Goto, TypeOK, Locked
  <2>3. buffer' \in [Readers -> Message]
    <3>1. CASE Call(r)
      BY <3>1, <1>t, ReadAssumption DEF Call, TypeOK, Message
    <3>2. CASE Request(r)
      BY <3>2, <1>t DEF Request, TypeOK, Message
    <3>3. CASE UNCHANGED buffer
      BY <3>3, <1>t DEF TypeOK
    <3> QED BY <1>1, <3>1, <3>2, <3>3 DEF canRead, Lock, Publish, Write, WriteFails, GetReply,
                TimeOut, Clear, Drain, Unlock
  <2>4. readSem' \in Readers \cup {None} /\ preadBuffer' \in Readers \cup {None}
        /\ rxSem' \in BOOLEAN
    BY <1>1, <1>t, Zenon DEF canRead, Call, Lock, Publish, Request, Write, WriteFails,
                GetReply, TimeOut, Clear, Drain, Unlock, TypeOK
  <2> QED BY <2>1, <2>2, <2>3, <2>4, <1>t DEF ReceiverInv, FetchInv, ReceiverServed, Fetching,
                TypeOK
<1>2. CASE t810RecvTask
  <2>1. UNCHANGED <<pc, readSem, isrVars, chipVars, frames>>
    BY <1>2 DEF t810RecvTask, RecvGet, RecvTest, RecvCrash, RecvCompare, RecvCopy, RecvClear,
                RecvSignal
  <2>2. recv' \in {"get", "test", "compare", "copy", "clear", "signal", "crashed"}
    BY <1>2 DEF t810RecvTask, RecvGet, RecvTest, RecvCrash, RecvCompare, RecvCopy, RecvClear,
                RecvSignal, RecvGoto
  <2>3. target' \in Readers \cup {None} /\ preadBuffer' \in Readers \cup {None}
        /\ rxSem' \in BOOLEAN
    BY <1>2, <1>t, Zenon DEF t810RecvTask, RecvGet, RecvTest, RecvCrash, RecvCompare, RecvCopy,
                RecvClear, RecvSignal, TypeOK
  <2>4. rmsg' \in Message /\ queue' \in Seq(Message) /\ Len(queue') <= QueueSize
    <3>1. CASE RecvGet
      BY <3>1, <1>t, ReadAssumption DEF RecvGet, TypeOK
    <3>2. CASE UNCHANGED <<rmsg, queue>>
      BY <3>2, <1>t DEF TypeOK
    <3> QED BY <1>2, <3>1, <3>2 DEF t810RecvTask, RecvTest, RecvCrash, RecvCompare, RecvCopy,
                RecvClear, RecvSignal
  <2>5. buffer' \in [Readers -> Message]
    BY <1>2, <1>t DEF t810RecvTask, RecvGet, RecvTest, RecvCrash, RecvCompare, RecvCopy,
                RecvClear, RecvSignal, TypeOK
  <2> QED BY <2>1, <2>2, <2>3, <2>4, <2>5, <1>t DEF ReceiverInv, FetchInv, ReceiverServed,
                Fetching, TypeOK
<1>3. CASE t810ISR
  <2>0. UNCHANGED <<readVars, preadBuffer, rxSem, recvVars, frames>>
    BY <1>3 DEF t810ISR, IsrEnter, IsrOverrun, IsrRescan, IsrReceive
  <2>1. CASE IsrEnter
    BY <2>1, <2>0, <1>t DEF IsrEnter, ReceiverInv, FetchInv, ReceiverServed, Fetching, TypeOK
  <2>2. CASE IsrOverrun
    <3>1. rxFifo' \in Seq(Message) /\ Len(rxFifo') <= RxBuffers
      <4>1. CASE rxFifo' = <<>> BY <4>1 DEF RxBuffers
      <4>2. CASE rxFifo' = rxFifo BY <4>2, <1>t DEF TypeOK
      <4> QED BY <2>2, <4>1, <4>2 DEF IsrOverrun
    <3> QED BY <2>2, <2>0, <3>1, <1>t DEF IsrOverrun, ReceiverInv, FetchInv, ReceiverServed,
                Fetching, TypeOK
  <2>3. CASE IsrRescan
    BY <2>3, <2>0, <1>t DEF IsrRescan, ReceiverInv, FetchInv, ReceiverServed, Fetching, TypeOK
  <2>4. CASE IsrReceive
    <3>1. CASE "RI" \in intSource
      <4>1. isr = "receive" /\ isr' = "off" /\ intSource' = {} /\ TrySend(Head(rxFifo))
            /\ rxFifo' = Tail(rxFifo)
            /\ interrupt' = IF Tail(rxFifo) = <<>> THEN interrupt ELSE interrupt \cup {"RI"}
        BY <2>4, <3>1 DEF IsrReceive
      <4>2. rxFifo # <<>> /\ "RI" \notin interrupt
        BY <4>1, <3>1 DEF ReceiverInv, FetchInv, ReceiverServed, Fetching
      <4>3. Head(rxFifo) \in Message /\ rxFifo' \in Seq(Message) /\ Len(rxFifo') <= RxBuffers
        BY <4>1, <4>2, <1>t DEF TypeOK, RxBuffers
      <4>4. queue' \in Seq(Message) /\ Len(queue') <= QueueSize
        BY <4>1, <4>3, <1>t, ReadAssumption DEF TrySend, TypeOK
      <4>5. interrupt' \subseteq Sources
        BY <4>1, <1>t DEF TypeOK, Sources
      <4>6. TypeOK'
        BY <4>1, <4>3, <4>4, <4>5, <2>0, <1>t DEF TypeOK
      <4>7. FetchInv'
        BY <4>1, <4>2 DEF FetchInv, ReceiverServed, Fetching
      <4> QED BY <4>6, <4>7 DEF ReceiverInv
    <3>2. CASE "RI" \notin intSource
      BY <2>4, <3>2, <2>0, <1>t DEF IsrReceive, ReceiverInv, FetchInv, ReceiverServed, Fetching,
                TypeOK
    <3> QED BY <3>1, <3>2
  <2> QED BY <1>3, <2>1, <2>2, <2>3, <2>4 DEF t810ISR
<1>4. ASSUME NEW i \in Ids, NEW remote \in BOOLEAN, ChipReceive(i, remote) PROVE ReceiverInv'
  <2>0. UNCHANGED <<readVars, preadBuffer, rxSem, recvVars, queue, isrVars>>
        /\ frames' = frames + 1 /\ frames' \in 0 .. FrameLimit
    BY <1>4, <1>t, ReadAssumption DEF ChipReceive, TypeOK
  <2>1. CASE Len(rxFifo) < RxBuffers
    <3> DEFINE m == [id |-> i, rtr |-> remote, n |-> frames + 1]
    <3>1. m \in Message
      BY <2>0 DEF Message
    <3>2. rxFifo' = Append(rxFifo, m)
          /\ interrupt' = IF rxFifo = <<>> THEN interrupt \cup {"RI"} ELSE interrupt
      BY <1>4, <2>1 DEF ChipReceive
    <3> HIDE DEF m
    <3>3. rxFifo' \in Seq(Message) /\ Len(rxFifo') <= RxBuffers /\ rxFifo' # <<>>
      BY <3>1, <3>2, <2>1, <1>t DEF TypeOK, RxBuffers
    <3>4. interrupt' \subseteq Sources
      BY <3>2, <1>t DEF TypeOK, Sources
    <3>5. TypeOK'
      BY <2>0, <3>3, <3>4, <1>t DEF TypeOK
    <3>6. FetchInv'
      BY <2>0, <3>2, <3>3 DEF ReceiverInv, FetchInv, ReceiverServed, Fetching
    <3> QED BY <3>5, <3>6 DEF ReceiverInv
  <2>2. CASE ~(Len(rxFifo) < RxBuffers)
    <3>1. rxFifo' = rxFifo /\ interrupt' = interrupt \cup {"OI"}
      BY <1>4, <2>2 DEF ChipReceive
    <3> QED BY <2>0, <3>1, <1>t DEF ReceiverInv, FetchInv, ReceiverServed, Fetching, TypeOK,
                Sources
  <2> QED BY <2>1, <2>2
<1>5. CASE UNCHANGED vars
  BY <1>5 DEF vars, ReceiverInv, FetchInv, ReceiverServed, Fetching, TypeOK
<1> QED BY <1>1, <1>2, <1>3, <1>4, <1>5 DEF Next

LEMMA ReceiverInvariant == Spec => []ReceiverInv
<1> QED BY InitReceiverInv, NextReceiverInv, PTL DEF Spec

(***************************************************************************)
(* Every variable of the receive path keeps its type.                      *)
(***************************************************************************)
THEOREM ReadTypeCorrect == Spec => []TypeOK
<1>1. ReceiverInv => TypeOK BY DEF ReceiverInv
<1> QED BY <1>1, ReceiverInvariant, PTL

(***************************************************************************)
(* No frame is stranded in the chip, and none is fetched that is not       *)
(* there, whatever comes in while the interrupt routine runs.              *)
(***************************************************************************)
THEOREM ChipIsServed == Spec => []ReceiverServed
<1>1. ReceiverInv => ReceiverServed BY DEF ReceiverInv, FetchInv
<1> QED BY <1>1, ReceiverInvariant, PTL

-----------------------------------------------------------------------------
(***************************************************************************)
(* The order of the frames: from the message canRecvTask works on, through *)
(* the queue and the chip's buffers, to the last one that came in.         *)
(***************************************************************************)
Ascending(s) == \A j, k \in 1 .. Len(s) : j < k => s[j].n < s[k].n

Above(s, n) == \A k \in 1 .. Len(s) : n < s[k].n

UpTo(s, n) == \A k \in 1 .. Len(s) : s[k].n <= n

OrderInv ==
  /\ ReceiverInv
  /\ Ascending(queue) /\ Ascending(rxFifo)
  /\ \A j \in 1 .. Len(queue), k \in 1 .. Len(rxFifo) : queue[j].n < rxFifo[k].n
  /\ Above(queue, rmsg.n) /\ Above(rxFifo, rmsg.n)
  /\ UpTo(queue, frames) /\ UpTo(rxFifo, frames) /\ rmsg.n <= frames

\* What taking the first element off a sequence, or adding one, does.
LEMMA TailElements ==
  ASSUME NEW s \in Seq(Message), s # <<>>
  PROVE  /\ Tail(s) \in Seq(Message)
         /\ Len(Tail(s)) = Len(s) - 1
         /\ Head(s) = s[1]
         /\ \A k \in 1 .. Len(Tail(s)) : Tail(s)[k] = s[k + 1]
  OBVIOUS

LEMMA AppendElements ==
  ASSUME NEW s \in Seq(Message), NEW m \in Message
  PROVE  /\ Append(s, m) \in Seq(Message)
         /\ Len(Append(s, m)) = Len(s) + 1
         /\ \A k \in 1 .. Len(s) : Append(s, m)[k] = s[k]
         /\ Append(s, m)[Len(s) + 1] = m
  OBVIOUS

\* The numbers of the messages of a sequence are numbers.
LEMMA Numbers ==
  ASSUME NEW s \in Seq(Message), NEW k \in 1 .. Len(s)
  PROVE  s[k] \in Message /\ s[k].n \in Nat
<1>1. s[k] \in Message
  OBVIOUS
<1> QED BY <1>1, ReadAssumption DEF Message

LEMMA TailOrder ==
  ASSUME NEW s \in Seq(Message), s # <<>>, NEW n, NEW f,
         Ascending(s), Above(s, n), UpTo(s, f)
  PROVE  /\ Ascending(Tail(s))
         /\ Above(Tail(s), Head(s).n) /\ Above(Tail(s), n) /\ UpTo(Tail(s), f)
         /\ \A k \in 1 .. Len(Tail(s)) : k + 1 \in 1 .. Len(s) /\ Tail(s)[k] = s[k + 1]
         /\ n < Head(s).n /\ Head(s).n <= f /\ Head(s) = s[1] /\ 1 \in 1 .. Len(s)
<1>1. Len(s) \in Nat /\ Len(s) > 0 /\ Len(Tail(s)) = Len(s) - 1 /\ Head(s) = s[1]
  BY TailElements
<1>2. ASSUME NEW k \in 1 .. Len(Tail(s))
      PROVE  k + 1 \in 1 .. Len(s) /\ Tail(s)[k] = s[k + 1] /\ 1 < k + 1
  BY <1>1, TailElements
<1>3. 1 \in 1 .. Len(s)
  BY <1>1
<1>4. ASSUME NEW j \in 1 .. Len(Tail(s)), NEW k \in 1 .. Len(Tail(s)), j < k
      PROVE  Tail(s)[j].n < Tail(s)[k].n
  <2>1. j + 1 < k + 1
    BY <1>2, <1>4
  <2> QED BY <1>2, <2>1 DEF Ascending
<1>5. ASSUME NEW k \in 1 .. Len(Tail(s))
      PROVE  Head(s).n < Tail(s)[k].n /\ n < Tail(s)[k].n /\ Tail(s)[k].n <= f
  BY <1>1, <1>2, <1>3 DEF Ascending, Above, UpTo
<1>6. n < Head(s).n /\ Head(s).n <= f
  BY <1>1, <1>3 DEF Above, UpTo
<1> QED BY <1>1, <1>2, <1>3, <1>4, <1>5, <1>6 DEF Ascending, Above, UpTo

LEMMA AppendOrder ==
  ASSUME NEW s \in Seq(Message), NEW m \in Message, NEW n, NEW f,
         Ascending(s), Above(s, n), UpTo(s, f), n < m.n, m.n <= f,
         \A k \in 1 .. Len(s) : s[k].n < m.n
  PROVE  /\ Ascending(Append(s, m))
         /\ Above(Append(s, m), n) /\ UpTo(Append(s, m), f)
         /\ \A k \in 1 .. Len(Append(s, m)) :
              Append(s, m)[k] = m \/ (k \in 1 .. Len(s) /\ Append(s, m)[k] = s[k])
<1> DEFINE t == Append(s, m)
<1>1. Len(s) \in Nat /\ Len(t) = Len(s) + 1 /\ t[Len(s) + 1] = m
      /\ \A k \in 1 .. Len(s) : t[k] = s[k]
  BY AppendElements
<1> HIDE DEF t
<1>2. ASSUME NEW k \in 1 .. Len(t)
      PROVE  k = Len(s) + 1 \/ k \in 1 .. Len(s)
  BY <1>1
<1>3. ASSUME NEW k \in 1 .. Len(t)
      PROVE  (k = Len(s) + 1 /\ t[k] = m) \/ (k \in 1 .. Len(s) /\ t[k] = s[k])
  BY <1>1, <1>2
<1>4. ASSUME NEW j \in 1 .. Len(t), NEW k \in 1 .. Len(t), j < k
      PROVE  t[j].n < t[k].n
  <2>1. j \in 1 .. Len(s) /\ t[j] = s[j]
    <3>1. j # Len(s) + 1
      BY <1>1, <1>4
    <3> QED BY <3>1, <1>3
  <2> QED BY <1>3, <1>4, <2>1 DEF Ascending
<1>5. Above(t, n) /\ UpTo(t, f)
  BY <1>3 DEF Above, UpTo
<1> QED BY <1>3, <1>4, <1>5 DEF t, Ascending

LEMMA InitOrderInv == Init => OrderInv
<1> SUFFICES ASSUME Init PROVE OrderInv
    OBVIOUS
<1>1. Len(queue) = 0 /\ Len(rxFifo) = 0 /\ rmsg.n = 0 /\ frames = 0
  BY DEF Init, t810Create, t810Initialise
<1> QED BY <1>1, InitReceiverInv DEF OrderInv, Ascending, Above, UpTo

LEMMA NextOrderInv == OrderInv /\ [Next]_vars => OrderInv'
<1> SUFFICES ASSUME OrderInv, [Next]_vars PROVE OrderInv'
    OBVIOUS
<1>t. ReceiverInv /\ ReceiverInv' /\ TypeOK
  BY NextReceiverInv DEF OrderInv, ReceiverInv
<1>n. rmsg.n \in Nat /\ frames \in Nat
  BY <1>t, ReadAssumption DEF TypeOK, Message
<1>s. queue \in Seq(Message) /\ rxFifo \in Seq(Message)
  BY <1>t DEF TypeOK
<1>0. CASE UNCHANGED <<rmsg, queue, rxFifo, frames>>
  BY <1>0, <1>t DEF OrderInv, Ascending, Above, UpTo
<1>1. CASE RecvGet
  <2>1. queue # <<>> /\ rmsg' = Head(queue) /\ queue' = Tail(queue)
        /\ UNCHANGED <<rxFifo, frames>>
    BY <1>1 DEF RecvGet
  <2>2. /\ Ascending(queue') /\ Above(queue', rmsg'.n) /\ UpTo(queue', frames)
        /\ \A k \in 1 .. Len(queue') : k + 1 \in 1 .. Len(queue) /\ queue'[k] = queue[k + 1]
        /\ rmsg' = queue[1] /\ 1 \in 1 .. Len(queue) /\ rmsg'.n <= frames
    BY <2>1, <1>s, TailOrder DEF OrderInv
  <2>3. \A j \in 1 .. Len(queue'), k \in 1 .. Len(rxFifo) : queue'[j].n < rxFifo[k].n
    BY <2>2 DEF OrderInv
  <2>4. Above(rxFifo, rmsg'.n)
    BY <2>2 DEF OrderInv, Above
  <2> QED BY <2>1, <2>2, <2>3, <2>4, <1>t DEF OrderInv
<1>2. CASE IsrOverrun
  <2>1. rxFifo' = <<>> \/ rxFifo' = rxFifo
    BY <1>2 DEF IsrOverrun
  <2>2. UNCHANGED <<rmsg, queue, frames>>
    BY <1>2 DEF IsrOverrun
  <2> QED BY <2>1, <2>2, <1>t DEF OrderInv, Ascending, Above, UpTo
<1>3. CASE IsrReceive
  <2>1. UNCHANGED <<rmsg, frames>>
    BY <1>3 DEF IsrReceive
  <2>2. CASE "RI" \notin intSource
    BY <1>3, <2>1, <2>2, <1>t DEF IsrReceive, OrderInv, Ascending, Above, UpTo
  <2>3. CASE "RI" \in intSource
    <3>1. rxFifo # <<>> /\ rxFifo' = Tail(rxFifo) /\ TrySend(Head(rxFifo))
      BY <1>3, <2>3, <1>t DEF IsrReceive, ReceiverInv, FetchInv, ReceiverServed, Fetching
    <3>2. /\ Ascending(rxFifo') /\ Above(rxFifo', Head(rxFifo).n) /\ Above(rxFifo', rmsg.n)
          /\ UpTo(rxFifo', frames)
          /\ \A k \in 1 .. Len(rxFifo') : k + 1 \in 1 .. Len(rxFifo) /\ rxFifo'[k] = rxFifo[k + 1]
          /\ Head(rxFifo) = rxFifo[1] /\ 1 \in 1 .. Len(rxFifo)
          /\ rmsg.n < Head(rxFifo).n /\ Head(rxFifo).n <= frames
      BY <3>1, <1>s, TailOrder DEF OrderInv
    <3>3. \A j \in 1 .. Len(queue), k \in 1 .. Len(rxFifo') : queue[j].n < rxFifo'[k].n
      BY <3>2 DEF OrderInv
    <3>4. CASE queue' = queue
      BY <2>1, <3>2, <3>3, <3>4, <1>t DEF OrderInv
    <3>5. CASE queue' = Append(queue, Head(rxFifo))
      <4>1. Head(rxFifo) \in Message
        BY <3>2, <1>s
      <4>2. \A j \in 1 .. Len(queue) : queue[j].n < Head(rxFifo).n
        BY <3>2 DEF OrderInv
      <4>3. /\ Ascending(queue') /\ Above(queue', rmsg.n) /\ UpTo(queue', frames)
            /\ \A k \in 1 .. Len(queue') :
                 queue'[k] = Head(rxFifo) \/ (k \in 1 .. Len(queue) /\ queue'[k] = queue[k])
        BY <3>2, <3>5, <4>1, <4>2, <1>s, AppendOrder DEF OrderInv
      <4>4. \A j \in 1 .. Len(queue'), k \in 1 .. Len(rxFifo') : queue'[j].n < rxFifo'[k].n
        BY <3>2, <3>3, <4>3 DEF Above
      <4> QED BY <2>1, <3>2, <4>3, <4>4, <1>t DEF OrderInv
    <3> QED BY <3>1, <3>4, <3>5 DEF TrySend
  <2> QED BY <2>2, <2>3
<1>4. ASSUME NEW i \in Ids, NEW remote \in BOOLEAN, ChipReceive(i, remote) PROVE OrderInv'
  <2>1. UNCHANGED <<rmsg, queue>> /\ frames' = frames + 1
    BY <1>4 DEF ChipReceive
  <2>2. UpTo(queue, frames + 1) /\ UpTo(rxFifo, frames + 1)
    <3>1. ASSUME NEW k \in 1 .. Len(queue) PROVE queue[k].n <= frames + 1
      BY <1>s, <1>n, Numbers DEF OrderInv, UpTo
    <3>2. ASSUME NEW k \in 1 .. Len(rxFifo) PROVE rxFifo[k].n <= frames + 1
      BY <1>s, <1>n, Numbers DEF OrderInv, UpTo
    <3> QED BY <3>1, <3>2 DEF UpTo
  <2>3. CASE rxFifo' = rxFifo
    <3>1. rmsg'.n <= frames'
      BY <2>1, <1>n DEF OrderInv
    <3>2. UpTo(queue', frames') /\ UpTo(rxFifo', frames')
      BY <2>1, <2>2, <2>3
    <3>3. /\ Ascending(queue') /\ Ascending(rxFifo')
          /\ Above(queue', rmsg'.n) /\ Above(rxFifo', rmsg'.n)
          /\ \A j \in 1 .. Len(queue'), k \in 1 .. Len(rxFifo') : queue'[j].n < rxFifo'[k].n
      BY <2>1, <2>3 DEF OrderInv
    <3> QED BY <3>1, <3>2, <3>3, <1>t DEF OrderInv
  <2>4. CASE rxFifo' # rxFifo
    <3> DEFINE m == [id |-> i, rtr |-> remote, n |-> frames + 1]
    <3>1. rxFifo' = Append(rxFifo, m) /\ m.n = frames + 1
      BY <1>4, <2>4 DEF ChipReceive
    <3>2. m \in Message
      BY <2>1, <1>t DEF ReceiverInv, TypeOK, Message
    <3> HIDE DEF m
    <3>3. \A k \in 1 .. Len(rxFifo) : rxFifo[k].n < m.n
      BY <3>1, <1>s, <1>n, Numbers DEF OrderInv, UpTo
    <3>4. \A k \in 1 .. Len(queue) : queue[k].n < m.n
      BY <3>1, <1>s, <1>n, Numbers DEF OrderInv, UpTo
    <3>5. rmsg.n < m.n /\ m.n <= frames + 1
      BY <3>1, <1>n DEF OrderInv
    <3>6. /\ Ascending(rxFifo') /\ Above(rxFifo', rmsg.n) /\ UpTo(rxFifo', frames + 1)
          /\ \A k \in 1 .. Len(rxFifo') :
               rxFifo'[k] = m \/ (k \in 1 .. Len(rxFifo) /\ rxFifo'[k] = rxFifo[k])
      BY <2>2, <3>1, <3>2, <3>3, <3>5, <1>s, AppendOrder DEF OrderInv
    <3>7. \A j \in 1 .. Len(queue), k \in 1 .. Len(rxFifo') : queue[j].n < rxFifo'[k].n
      BY <3>4, <3>6 DEF OrderInv
    <3> QED BY <2>1, <2>2, <3>6, <3>7, <1>t, <1>n DEF OrderInv
  <2> QED BY <2>3, <2>4
<1> QED
  <2>1. CASE \E r \in Readers : canRead(r)
    BY <2>1, <1>0 DEF canRead, Call, Lock, Publish, Request, Write, WriteFails, GetReply,
                TimeOut, Clear, Drain, Unlock
  <2>2. CASE t810RecvTask
    BY <2>2, <1>0, <1>1 DEF t810RecvTask, RecvTest, RecvCrash, RecvCompare, RecvCopy,
                RecvClear, RecvSignal
  <2>3. CASE t810ISR
    BY <2>3, <1>0, <1>2, <1>3 DEF t810ISR, IsrEnter, IsrRescan
  <2>4. CASE UNCHANGED vars
    BY <2>4, <1>0 DEF vars
  <2> QED BY <2>1, <2>2, <2>3, <2>4, <1>4 DEF Next

LEMMA OrderInvariant == Spec => []OrderInv
<1> QED BY InitOrderInv, NextOrderInv, PTL DEF Spec

(***************************************************************************)
(* The receive path implements ReceiptOrder: what is handled is handled    *)
(* once and in the order of arrival, whatever is lost to a full queue or   *)
(* to an overrun, and whatever the priorities.                             *)
(***************************************************************************)
THEOREM ReceiptInOrder == Spec => InOrder
<1>1. Init => Receipt!Init
  BY DEF Init, t810Create, t810Initialise, Receipt!Init
<1>2. OrderInv /\ [Next]_vars => [Receipt!Next]_<<frames, rmsg.n>>
  <2> SUFFICES ASSUME OrderInv, [Next]_vars PROVE [Receipt!Next]_<<frames, rmsg.n>>
    OBVIOUS
  <2>t. TypeOK
    BY DEF OrderInv, ReceiverInv
  <2>0. CASE UNCHANGED <<frames, rmsg>>
    BY <2>0
  <2>1. CASE RecvGet
    <3>1. queue # <<>> /\ rmsg' = Head(queue) /\ frames' = frames
      BY <2>1 DEF RecvGet
    <3>2. queue \in Seq(Message)
      BY <2>t DEF TypeOK
    <3>3. rmsg.n < rmsg'.n /\ rmsg'.n <= frames /\ Head(queue) \in Message
      BY <3>1, <3>2, TailOrder DEF OrderInv
    <3>4. rmsg.n \in Nat /\ rmsg'.n \in Nat /\ frames \in Nat
      BY <3>1, <3>3, <2>t, ReadAssumption DEF TypeOK, Message
    <3>5. Receipt!Handle
      BY <3>1, <3>3, <3>4 DEF Receipt!Handle
    <3> QED BY <3>5 DEF Receipt!Next
  <2>2. ASSUME NEW i \in Ids, NEW remote \in BOOLEAN, ChipReceive(i, remote)
        PROVE  Receipt!Next
    BY <2>2 DEF ChipReceive, Receipt!Next, Receipt!Arrive
  <2>3. CASE \E r \in Readers : canRead(r)
    BY <2>3, <2>0 DEF canRead, Call, Lock, Publish, Request, Write, WriteFails, GetReply,
                TimeOut, Clear, Drain, Unlock
  <2>4. CASE t810RecvTask
    BY <2>4, <2>0, <2>1 DEF t810RecvTask, RecvTest, RecvCrash, RecvCompare, RecvCopy,
                RecvClear, RecvSignal
  <2>5. CASE t810ISR
    BY <2>5, <2>0 DEF t810ISR, IsrEnter, IsrOverrun, IsrRescan, IsrReceive
  <2>6. CASE UNCHANGED vars
    BY <2>6, <2>0 DEF vars
  <2> QED BY <2>2, <2>3, <2>4, <2>5, <2>6 DEF Next
<1> QED BY <1>1, <1>2, OrderInvariant, PTL DEF Spec, InOrder, Receipt!Spec

-----------------------------------------------------------------------------
(***************************************************************************)
(* Handing a message to a canRead(), when every reader has a lower         *)
(* priority than canRecvTask.  From the moment the task sees the pointer   *)
(* to the moment it signals the event no reader moves; the event is full   *)
(* only while the reader whose buffer was filled has yet to look at it.    *)
(***************************************************************************)
Awaiting == {"request", "write", "wait", "clear"}

HandoffInv ==
  /\ OrderInv
  /\ \A r \in Readers : buffer[r].id = Wants[r]
  /\ \A r \in Readers : pc[r] \in Locked <=> readSem = r
  /\ preadBuffer # None => pc[preadBuffer] \in Awaiting
  /\ recv # "crashed"
  /\ recv # "get" => rmsg.n > 0
  /\ recv \in {"compare", "copy", "clear"} => target # None /\ preadBuffer = target
  /\ recv = "copy" => buffer[target].id = rmsg.id
  /\ recv \in {"clear", "signal"} => buffer[target].n > 0
  /\ recv = "signal" => target # None /\ preadBuffer = None /\ pc[target] \in Awaiting
  /\ rxSem => /\ preadBuffer = None
              /\ recv # "signal"
              /\ \E r \in Readers : pc[r] \in Awaiting \cup {"drain"} /\ buffer[r].n > 0
  /\ \A r \in Readers : pc[r] = "good" => buffer[r].n > 0

LEMMA InitHandoffInv == Init => HandoffInv
<1> SUFFICES ASSUME Init PROVE HandoffInv
    OBVIOUS
<1>1. OrderInv
  BY InitOrderInv
<1>2. \A r \in Readers : buffer[r].id = Wants[r] /\ pc[r] = "idle" /\ readSem # r
  BY ReadAssumption DEF Init, t810Create, t810Initialise
<1> QED BY <1>1, <1>2 DEF HandoffInv, Init, t810Create, t810Initialise, Locked

LEMMA NextHandoffInv ==
  ASSUME HighReaders = {}
  PROVE  HandoffInv /\ [Next]_vars => HandoffInv'
<1> SUFFICES ASSUME HandoffInv, [Next]_vars PROVE HandoffInv'
    OBVIOUS
<1>o. OrderInv /\ OrderInv'
  BY NextOrderInv DEF HandoffInv
<1>t. TypeOK /\ TypeOK'
  BY <1>o DEF OrderInv, ReceiverInv
<1>1. ASSUME NEW r \in Readers, canRead(r) PROVE HandoffInv'
  <2>0. recv = "get" /\ recv' = recv /\ rmsg' = rmsg /\ target' = target
    BY <1>1 DEF HandoffInv, canRead, Call, Lock, Publish, Request, Write, WriteFails, GetReply,
                TimeOut, Clear, Drain, Unlock, Goto, Runs
  <2>1. pc \in [Readers -> Locked \cup {"idle", "lock"}] /\ buffer \in [Readers -> Message]
        /\ None \notin Readers
    BY <1>t, ReadAssumption DEF TypeOK
  <2> USE <1>o, <2>0, <2>1 DEF HandoffInv, Goto, Locked, Awaiting
  <2>2. CASE Call(r)
    <3>1. buffer' = [buffer EXCEPT ![r] = [id |-> Wants[r], rtr |-> FALSE, n |-> 0]]
          /\ pc[r] = "idle" /\ pc' = [pc EXCEPT ![r] = "lock"]
          /\ UNCHANGED <<readSem, preadBuffer, rxSem>>
      BY <2>2 DEF Call
    <3>2. \A q \in Readers : buffer'[q].id = Wants[q] /\ (q # r => buffer'[q] = buffer[q])
      BY <3>1
    <3> QED BY <3>1, <3>2
  <2>3. CASE Lock(r)
    BY <2>3 DEF Lock
  <2>4. CASE Publish(r)
    <3>1. ~rxSem
      BY <2>4, ReadAssumption DEF Publish
    <3>2. preadBuffer' = r /\ pc' = [pc EXCEPT ![r] = "request"] /\ pc[r] = "publish"
          /\ UNCHANGED <<buffer, readSem, rxSem>>
      BY <2>4 DEF Publish
    <3> QED BY <3>1, <3>2
  <2>5. CASE Request(r)
    <3>1. buffer' = [buffer EXCEPT ![r].rtr = TRUE] /\ pc[r] = "request"
          /\ pc' = [pc EXCEPT ![r] = "write"] /\ UNCHANGED <<readSem, preadBuffer, rxSem>>
      BY <2>5 DEF Request
    <3>2. \A q \in Readers : buffer'[q].id = buffer[q].id /\ buffer'[q].n = buffer[q].n
      BY <3>1 DEF Message
    <3> QED BY <3>1, <3>2
  <2>6. CASE Write(r) \/ WriteFails(r) \/ TimeOut(r)
    <3>1. /\ pc[r] \in {"write", "wait"}
          /\ \E to \in {"wait", "clear"} : pc' = [pc EXCEPT ![r] = to]
          /\ UNCHANGED <<buffer, readSem, preadBuffer, rxSem>>
      BY <2>6 DEF Write, WriteFails, TimeOut
    <3> QED BY <3>1
  <2>7. CASE GetReply(r)
    BY <2>7 DEF GetReply
  <2>8. CASE Clear(r)
    BY <2>8 DEF Clear
  <2>9. CASE Drain(r)
    BY <2>9 DEF Drain
  <2>10. CASE Unlock(r)
    <3>1. /\ pc[r] \in {"good", "bad"} /\ pc' = [pc EXCEPT ![r] = "idle"]
          /\ readSem' = None /\ UNCHANGED <<buffer, preadBuffer, rxSem>>
      BY <2>10 DEF Unlock
    <3>2. ~rxSem
      BY <3>1
    <3> QED BY <3>1, <3>2
  <2> QED BY <1>1, <2>2, <2>3, <2>4, <2>5, <2>6, <2>7, <2>8, <2>9, <2>10 DEF canRead
<1>2. CASE t810RecvTask
  <2>1. pc' = pc /\ readSem' = readSem
    BY <1>2 DEF t810RecvTask, RecvGet, RecvTest, RecvCrash, RecvCompare, RecvCopy, RecvClear,
                RecvSignal
  <2>2. buffer \in [Readers -> Message] /\ None \notin Readers
        /\ target \in Readers \cup {None} /\ preadBuffer \in Readers \cup {None}
    BY <1>t, ReadAssumption DEF TypeOK
  <2> USE <1>o, <2>1, <2>2 DEF HandoffInv, RecvGoto
  <2>3. CASE RecvGet
    <3>1. queue # <<>> /\ rmsg' = Head(queue) /\ queue \in Seq(Message) /\ rmsg \in Message
      BY <2>3, <1>t DEF RecvGet, TypeOK
    <3>2. rmsg.n < rmsg'.n /\ rmsg' \in Message
      BY <3>1, TailOrder DEF OrderInv
    <3>3. rmsg'.n > 0
      BY <3>1, <3>2, ReadAssumption DEF Message
    <3> QED BY <2>3, <3>3 DEF RecvGet
  <2>4. CASE RecvTest
    BY <2>4 DEF RecvTest
  <2>5. CASE RecvCrash
    BY <2>5 DEF RecvCrash, Pointer
  <2>6. ASSUME NEW t \in Readers, RecvCompare(t) PROVE HandoffInv'
    BY <2>6 DEF RecvCompare, Pointer
  <2>7. ASSUME NEW t \in Readers, RecvCopy(t) PROVE HandoffInv'
    <3>1. t = target /\ recv = "copy" /\ recv' = "clear"
          /\ buffer' = [buffer EXCEPT ![t] = rmsg]
          /\ UNCHANGED <<rmsg, target, preadBuffer, rxSem>>
      BY <2>7 DEF RecvCopy, Pointer
    <3>2. \A q \in Readers : buffer'[q].id = Wants[q] /\ (q # t => buffer'[q] = buffer[q])
                             /\ buffer'[t] = rmsg
      BY <3>1
    <3> QED BY <3>1, <3>2
  <2>8. CASE RecvClear
    BY <2>8 DEF RecvClear
  <2>9. CASE RecvSignal
    BY <2>9 DEF RecvSignal
  <2> QED BY <1>2, <2>3, <2>4, <2>5, <2>6, <2>7, <2>8, <2>9 DEF t810RecvTask
<1>3. CASE UNCHANGED <<readVars, preadBuffer, rxSem, recvVars>>
  BY <1>3, <1>o DEF HandoffInv
<1> QED
  <2>1. CASE t810ISR
    BY <2>1, <1>3 DEF t810ISR, IsrEnter, IsrOverrun, IsrRescan, IsrReceive
  <2>2. CASE \E i \in Ids, remote \in BOOLEAN : ChipReceive(i, remote)
    BY <2>2, <1>3 DEF ChipReceive
  <2>3. CASE UNCHANGED vars
    BY <2>3, <1>3 DEF vars
  <2> QED BY <1>1, <1>2, <2>1, <2>2, <2>3 DEF Next

LEMMA HandoffInvariant ==
  ASSUME HighReaders = {}
  PROVE  Spec => []HandoffInv
<1> QED BY InitHandoffInv, NextHandoffInv, PTL DEF Spec

(***************************************************************************)
(* When every reader has a lower priority than canRecvTask, a canRead()    *)
(* that returns 0 returns a message that came in for its identifier.       *)
(***************************************************************************)
THEOREM ReadReturnsMessage ==
  ASSUME HighReaders = {}
  PROVE  Spec => []ReadSound
<1>1. HandoffInv => ReadSound
  BY DEF HandoffInv, ReadSound
<1> QED BY <1>1, HandoffInvariant, PTL

(***************************************************************************)
(* ... and it leaves nothing behind for the next call to trip over, even   *)
(* when the message came in just as its time ran out ...                   *)
(***************************************************************************)
THEOREM ReadLeavesNothing ==
  ASSUME HighReaders = {}
  PROVE  Spec => []NoLeftovers
<1>1. HandoffInv => NoLeftovers
  <2> SUFFICES ASSUME HandoffInv, readSem = None PROVE preadBuffer = None /\ ~rxSem
    BY DEF NoLeftovers
  <2>1. \A r \in Readers : pc[r] \notin Locked
    BY ReadAssumption DEF HandoffInv
  <2>2. preadBuffer \in Readers \cup {None}
    BY DEF HandoffInv, OrderInv, ReceiverInv, TypeOK
  <2> QED BY <2>1, <2>2 DEF HandoffInv, Locked, Awaiting
<1> QED BY <1>1, HandoffInvariant, PTL

(***************************************************************************)
(* ... and canRecvTask writes only to the buffer of a call that is still   *)
(* under way.                                                              *)
(***************************************************************************)
THEOREM CopiesToCaller ==
  ASSUME HighReaders = {}
  PROVE  Spec => []NoWildCopy
<1>1. HandoffInv => NoWildCopy
  BY DEF HandoffInv, NoWildCopy, Awaiting, Locked
<1> QED BY <1>1, HandoffInvariant, PTL

=============================================================================
