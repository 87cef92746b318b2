-------------------------- MODULE CanRecordsProofs --------------------------
(***************************************************************************)
(* Theorems about CanRecords, for any database, any set of records and any *)
(* bounds: types, and that no record is left waiting.                      *)
(***************************************************************************)
EXTENDS CanRecords, TLAPS

\* Nothing happens before interrupts are accepted.
Still == /\ \A t \in Tasks : pc[t] = "idle"
         /\ \A r \in Records : ~timer[r] /\ queued[r] = 0 /\ ioQueued[r] = 0
         /\ \A k \in Kinds : busQueued[k] = 0
         /\ walk = <<>>

\* A record that has not been initialised does not wait, and there are none once
\* interrupts are accepted; the lists of the busses hold records.
Setup == /\ \A r \in Records : attached[r] = "new" => ~pact[r] /\ ~running
         /\ ~running => Still
         /\ privates \in [Kinds -> Seq(Records)]

Inv == TypeOK /\ Setup /\ NeverStuck

USE DEF Tasks

-----------------------------------------------------------------------------
(* The steps of a task, freed of what they do to values.                   *)

\* One task goes on with its record or is done; the record may stop waiting.
Moves(t, p) == pc' = [pc EXCEPT ![t] = p] /\ on' = on
Ends(t, b) == /\ pc' = [pc EXCEPT ![t] = "idle"] /\ on' = [on EXCEPT ![t] = None]
              /\ pact' = [pact EXCEPT ![on[t]] = FALSE] /\ sevr' = [sevr EXCEPT ![on[t]] = b]

ProcessStep(t) ==
  \/ pc[t] \in {"process", "dbProcess"} /\ Moves(t, "alarm") /\ UNCHANGED <<pact, sevr>>
  \/ pc[t] \in {"process", "dbProcess"} /\ ~pact[on[t]] /\ Moves(t, "request") /\ UNCHANGED <<pact, sevr>>
  \/ pc[t] \in {"process", "dbProcess"} /\ \E b \in BOOLEAN : Ends(t, b)

\* Whatever is read or written, a record that is processed is one of these cases.
LEMMA Cases ==
  ASSUME TypeOK, NEW t \in Tasks, pc[t] \in {"process", "dbProcess"},
         \/ Go(t, on[t], "alarm") /\ UNCHANGED <<pact, sevr>>
         \/ ~pact[on[t]] /\ Go(t, on[t], "request") /\ UNCHANGED <<pact, sevr>>
         \/ Complete(t, TRUE) \/ Complete(t, FALSE)
  PROVE  ProcessStep(t)
<1>1. CASE Go(t, on[t], "alarm") /\ UNCHANGED <<pact, sevr>>
  BY <1>1 DEF TypeOK, Go, ProcessStep, Moves
<1>2. CASE ~pact[on[t]] /\ Go(t, on[t], "request") /\ UNCHANGED <<pact, sevr>>
  BY <1>2 DEF TypeOK, Go, ProcessStep, Moves
<1>3. CASE Complete(t, TRUE) \/ Complete(t, FALSE)
  BY <1>3 DEF Complete, Go, ProcessStep, Ends
<1> QED BY <1>1, <1>2, <1>3

LEMMA InputSteps ==
  ASSUME TypeOK, NEW t \in Tasks, ReadInput(t)
  PROVE  ProcessStep(t) /\ UNCHANGED <<config, lists, private, queues, busVars, ghosts>>
<1>1. CASE ReadAi(t)
  BY <1>1, Cases DEF ReadAi, Read, Locks
<1>2. CASE ReadBi(t)
  BY <1>2, Cases DEF ReadBi, Read, Locks
<1>3. CASE ReadMbbi(t)
  BY <1>3, Cases DEF ReadMbbi, Read, Locks
<1>4. CASE ReadMbbiDirect(t)
  BY <1>4, Cases DEF ReadMbbiDirect, Read, Locks
<1>5. CASE ReadSi(t)
  BY <1>5, Cases DEF ReadSi, Read, Locks
<1> QED BY <1>1, <1>2, <1>3, <1>4, <1>5 DEF ReadInput

LEMMA OutputSteps ==
  ASSUME TypeOK, NEW t \in Tasks, WriteOutput(t)
  PROVE  ProcessStep(t) /\ UNCHANGED <<config, lists, private, queues, busVars, ghosts>>
<1>1. CASE WriteAo(t)
  <2>1. Locks(t) /\ UNCHANGED <<config, lists, private, queues, busVars, ghosts>>
    BY <1>1 DEF WriteAo, Write
  <2>2. \/ Go(t, on[t], "alarm") /\ UNCHANGED <<pact, sevr>>
        \/ Complete(t, TRUE) \/ Complete(t, FALSE)
    BY <1>1 DEF WriteAo, Write, Go, Complete
  <2> QED BY <2>1, <2>2, Cases DEF Locks
<1>2. CASE WriteBo(t)
  <2>1. Locks(t) /\ UNCHANGED <<config, lists, private, queues, busVars, ghosts>>
    BY <1>2 DEF WriteBo, Write
  <2>2. \/ Go(t, on[t], "alarm") /\ UNCHANGED <<pact, sevr>>
        \/ Complete(t, TRUE) \/ Complete(t, FALSE)
    BY <1>2 DEF WriteBo, Write, Go, Complete
  <2> QED BY <2>1, <2>2, Cases DEF Locks
<1>3. CASE WriteMbbo(t)
  <2>1. Locks(t) /\ UNCHANGED <<config, lists, private, queues, busVars, ghosts>>
    BY <1>3 DEF WriteMbbo, Write
  <2>2. \/ Go(t, on[t], "alarm") /\ UNCHANGED <<pact, sevr>>
        \/ Complete(t, TRUE) \/ Complete(t, FALSE)
    BY <1>3 DEF WriteMbbo, Write, Go, Complete
  <2> QED BY <2>1, <2>2, Cases DEF Locks
<1>4. CASE WriteMbboDirect(t)
  <2>1. Locks(t) /\ UNCHANGED <<config, lists, private, queues, busVars, ghosts>>
    BY <1>4 DEF WriteMbboDirect, Write
  <2>2. \/ Go(t, on[t], "alarm") /\ UNCHANGED <<pact, sevr>>
        \/ Complete(t, TRUE) \/ Complete(t, FALSE)
    BY <1>4 DEF WriteMbboDirect, Write, Go, Complete
  <2> QED BY <2>1, <2>2, Cases DEF Locks
<1> QED BY <1>1, <1>2, <1>3, <1>4 DEF WriteOutput

-----------------------------------------------------------------------------
(* Types, and no record left waiting.                                      *)

LEMMA InitInv == Init => Inv
<1> SUFFICES ASSUME Init PROVE Inv
  OBVIOUS
<1>1. TypeOK
  <2>1. running \in BOOLEAN /\ silence \in BOOLEAN
    BY RecordsAssumption DEF RecordsAssumption, Init
  <2>2. /\ attached \in [Records -> {"new", "ok", "silenced", "failed"}]
        /\ status \in [Records -> {"NO_ALARM", "TIMEOUT", "COMM"}]
        /\ pact \in [Records -> BOOLEAN] /\ timer \in [Records -> BOOLEAN] /\ sevr \in [Records -> BOOLEAN]
        /\ queued \in [Records -> Nat] /\ ioQueued \in [Records -> Nat]
        /\ reply \in [Records -> {"none", "message", "recovery"}]
    BY DEF Init
  <2>3. /\ pc \in [Tasks -> {"idle", "process", "dbProcess", "alarm", "request", "timer"}]
        /\ on \in [Tasks -> Records \cup {None}] /\ \A t \in Tasks : pc[t] = "idle"
    BY DEF Init
  <2>4. busStatus \in [Kinds -> {"NO_ALARM", "COMM"}] /\ busQueued \in [Kinds -> Nat]
    BY DEF Init
  <2>5. walk \in Seq(Records) /\ walking \in Kinds
    BY DEF Init, Kinds, Inputs
  <2> QED BY <2>1, <2>2, <2>3, <2>4, <2>5 DEF TypeOK
<1>2. Setup
  BY DEF Init, Setup, Still
<1>3. NeverStuck
  BY DEF Init, NeverStuck
<1> QED BY <1>1, <1>2, <1>3 DEF Inv

\* A record that waits keeps what it waits for unless it stops waiting.
LEMMA StuckByTask ==
  ASSUME Inv, NEW t \in Tasks, ProcessStep(t), UNCHANGED <<config, lists, private, queues, busVars, ghosts>>
  PROVE  Inv'
<1>1. PICK p \in {"alarm", "request", "idle"}, r \in Records :
        /\ on[t] = r /\ pc[t] \in {"process", "dbProcess"} /\ pc' = [pc EXCEPT ![t] = p]
        /\ \/ p = "alarm" /\ on' = on /\ UNCHANGED <<pact, sevr>>
           \/ p = "request" /\ ~pact[r] /\ on' = on /\ UNCHANGED <<pact, sevr>>
           \/ /\ p = "idle" /\ on' = [on EXCEPT ![t] = None] /\ pact' = [pact EXCEPT ![r] = FALSE]
              /\ \E b \in BOOLEAN : sevr' = [sevr EXCEPT ![r] = b]
  <2>1. on[t] \in Records
    BY DEF Inv, TypeOK, ProcessStep
  <2> QED BY <2>1 DEF ProcessStep, Moves, Ends
<1> HIDE DEF ProcessStep
<1> USE DEF Inv, config, lists, private, queues, busVars, ghosts
<1>2. TypeOK'
  <2>1. pact' \in [Records -> BOOLEAN] /\ sevr' \in [Records -> BOOLEAN]
    <3>1. CASE UNCHANGED <<pact, sevr>>
      BY <3>1 DEF TypeOK
    <3>2. CASE pact' = [pact EXCEPT ![r] = FALSE] /\ \E b \in BOOLEAN : sevr' = [sevr EXCEPT ![r] = b]
      BY <3>2 DEF TypeOK
    <3> QED BY <1>1, <3>1, <3>2
  <2>2. pc' \in [Tasks -> {"idle", "process", "dbProcess", "alarm", "request", "timer"}]
    BY <1>1 DEF TypeOK
  <2>3. on' \in [Tasks -> Records \cup {None}] /\ \A u \in Tasks : pc'[u] # "idle" => on'[u] \in Records
    BY <1>1 DEF TypeOK
  <2> QED BY <2>1, <2>2, <2>3 DEF TypeOK
<1>3. Setup'
  BY <1>1 DEF Setup, Still, TypeOK
<1>4. NeverStuck'
  <2> SUFFICES ASSUME NEW q \in Records, attached[q] = "ok", pact'[q]
               PROVE  Pending(q)'
    BY DEF NeverStuck
  <2>1. pact[q] /\ (p = "idle" => q # r) /\ (p = "request" => q # r)
    BY <1>1 DEF TypeOK
  <2>2. CASE timer[q] \/ queued[q] > 0
    BY <2>2 DEF Pending
  <2>3. ASSUME NEW u \in Tasks, on[u] = q, pc[u] \in {"process", "alarm", "timer"}
        PROVE  Pending(q)'
    <3>1. on'[u] = q /\ pc'[u] \in {"process", "alarm", "timer"}
      BY <1>1, <2>1, <2>3 DEF TypeOK
    <3> QED BY <3>1 DEF Pending
  <2> QED BY <2>1, <2>2, <2>3 DEF NeverStuck, Pending
<1> QED BY <1>2, <1>3, <1>4

-----------------------------------------------------------------------------
(* The other actions.  Most disturb a few of these parts of the invariant. *)

RecordTypes == /\ running \in BOOLEAN /\ silence \in BOOLEAN
               /\ attached \in [Records -> {"new", "ok", "silenced", "failed"}]
               /\ pact \in [Records -> BOOLEAN] /\ sevr \in [Records -> BOOLEAN]
StatusTypes == status \in [Records -> {"NO_ALARM", "TIMEOUT", "COMM"}]
ReplyTypes  == reply \in [Records -> {"none", "message", "recovery"}]
QueueTypes  == timer \in [Records -> BOOLEAN] /\ queued \in [Records -> Nat] /\ ioQueued \in [Records -> Nat]
TaskTypes   == /\ pc \in [Tasks -> {"idle", "process", "dbProcess", "alarm", "request", "timer"}]
               /\ on \in [Tasks -> Records \cup {None}] /\ \A t \in Tasks : pc[t] # "idle" => on[t] \in Records
BusTypes    == /\ busStatus \in [Kinds -> {"NO_ALARM", "COMM"}] /\ busQueued \in [Kinds -> Nat]
               /\ walk \in Seq(Records) /\ walking \in Kinds

LEMMA Parts ==
  /\ Inv => RecordTypes /\ StatusTypes /\ ReplyTypes /\ QueueTypes /\ TaskTypes /\ BusTypes /\ Setup /\ NeverStuck
  /\ RecordTypes' /\ StatusTypes' /\ ReplyTypes' /\ QueueTypes' /\ TaskTypes' /\ BusTypes' /\ Setup' /\ NeverStuck'
       => Inv'
  BY DEF Inv, TypeOK, RecordTypes, StatusTypes, ReplyTypes, QueueTypes, TaskTypes, BusTypes

LEMMA InitStep ==
  ASSUME Inv, NEW r \in Records, NEW k \in Kinds, Attach(r, k)
  PROVE  Inv'
<1> USE DEF Attach, config, queues, busVars, taskVars, ghosts
<1>1. RecordTypes'
  BY Parts DEF RecordTypes
<1>2. StatusTypes' /\ ReplyTypes' /\ QueueTypes' /\ TaskTypes' /\ BusTypes'
  BY Parts DEF StatusTypes, ReplyTypes, QueueTypes, TaskTypes, BusTypes, private
<1>3. Setup'
  <2>1. privates' \in [Kinds -> Seq(Records)]
    <3>1. privates \in [Kinds -> Seq(Records)]
      BY Parts DEF Setup
    <3>2. <<r>> \o privates[k] \in Seq(Records)
      BY <3>1
    <3>3. privates' = privates \/ privates' = [privates EXCEPT ![k] = <<r>> \o @]
      OBVIOUS
    <3> HIDE DEF Attach
    <3> QED BY <3>1, <3>2, <3>3
  <2>2. \A q \in Records : attached'[q] = "new" => ~pact'[q]
    BY Parts DEF Setup, RecordTypes
  <2>3. ~running' /\ Still'
    BY Parts DEF Setup, Still
  <2> QED BY <2>1, <2>2, <2>3 DEF Setup
<1>4. NeverStuck'
  BY Parts DEF NeverStuck, Pending, Setup, RecordTypes
<1> QED BY <1>1, <1>2, <1>3, <1>4, Parts

\* A task takes up a record: it was idle, so nothing relied on it.
LEMMA TaskStarts ==
  ASSUME Inv, NEW t \in Tasks, pc[t] = "idle", NEW r \in Records, NEW p \in {"process", "dbProcess"}, Go(t, r, p),
         UNCHANGED <<attached, pact, timer>>,
         \A q \in Records : queued[q] > 0 => queued'[q] > 0 \/ (q = r /\ p = "process")
  PROVE  TaskTypes' /\ NeverStuck'
<1>1. TaskTypes'
  BY Parts DEF TaskTypes, Go
<1>2. ASSUME NEW q \in Records, attached[q] = "ok", pact[q]
      PROVE  Pending(q)'
  <2>1. CASE q = r /\ p = "process"
    BY <2>1, Parts DEF Pending, Go, TaskTypes
  <2>2. CASE timer[q] \/ (queued[q] > 0 /\ ~(q = r /\ p = "process"))
    BY <2>2 DEF Pending
  <2>3. ASSUME NEW u \in Tasks, on[u] = q, pc[u] \in {"process", "alarm", "timer"}
        PROVE  Pending(q)'
    <3>1. u # t /\ on'[u] = q /\ pc'[u] = pc[u]
      BY <2>3, Parts DEF Go, TaskTypes
    <3> QED BY <2>3, <3>1 DEF Pending
  <2> QED BY <1>2, <2>1, <2>2, <2>3, Parts DEF NeverStuck, Pending
<1> QED BY <1>1, <1>2 DEF NeverStuck

LEMMA ScanStep ==
  ASSUME Inv, NEW r \in Records, Scan(r) \/ TakeCallback(r) \/ TakeIoScan(r)
  PROVE  Inv'
<1> USE DEF config, lists, private, record, busVars, ghosts
<1>1. TaskTypes' /\ NeverStuck'
  <2>1. CASE Scan(r)
    BY <2>1, TaskStarts, Parts DEF Scan, queues
  <2>2. CASE TakeCallback(r)
    BY <2>2, TaskStarts, Parts DEF TakeCallback, QueueTypes
  <2>3. CASE TakeIoScan(r)
    BY <2>3, TaskStarts, Parts DEF TakeIoScan
  <2> QED BY <2>1, <2>2, <2>3
<1>2. QueueTypes'
  BY Parts DEF QueueTypes, Scan, TakeCallback, TakeIoScan, queues
<1>3. RecordTypes' /\ StatusTypes' /\ ReplyTypes' /\ BusTypes'
  BY Parts DEF Scan, TakeCallback, TakeIoScan, RecordTypes, StatusTypes, ReplyTypes, BusTypes
<1>4. running
  BY Parts DEF Scan, TakeCallback, TakeIoScan, Setup, Still, QueueTypes
<1>5. Setup'
  BY <1>4, Parts DEF Scan, TakeCallback, TakeIoScan, Setup
<1> QED BY <1>1, <1>2, <1>3, <1>5, Parts

LEMMA BusWalkStep ==
  ASSUME Inv, busCallback
  PROVE  Inv'
<1> DEFINE r == Head(walk)
<1> USE DEF busCallback, config, lists, queues
<1>1. walk # <<>> /\ walk \in Seq(Records) /\ walking \in Kinds /\ busStatus \in [Kinds -> {"NO_ALARM", "COMM"}]
  BY Parts DEF BusTypes
<1>2. r \in Records /\ Tail(walk) \in Seq(Records)
  BY <1>1
<1>3. TaskTypes' /\ NeverStuck'
  BY <1>2, TaskStarts DEF Tasks, record
<1>4. StatusTypes' /\ ReplyTypes'
  BY <1>1, <1>2, Parts DEF StatusTypes, ReplyTypes
<1>5. RecordTypes' /\ QueueTypes' /\ BusTypes' /\ Setup'
  BY <1>1, <1>2, Parts DEF RecordTypes, QueueTypes, BusTypes, Setup, Still, record
<1> QED BY <1>3, <1>4, <1>5, Parts

\* Who waits goes on waiting, for the same or for a callback asked for.
LEMMA KeepsWaiting ==
  ASSUME Inv, UNCHANGED <<attached, pact, pc, on>>,
         \A q \in Records : timer[q] \/ queued[q] > 0 => timer'[q] \/ queued'[q] > 0
  PROVE  NeverStuck' /\ TaskTypes'
  BY Parts DEF NeverStuck, Pending, TaskTypes

LEMMA MessageStep ==
  ASSUME Inv, running, NEW id, NEW d, Handle(id, d), UNCHANGED <<config, lists, record, busVars, taskVars>>
  PROVE  Inv'
<1> USE DEF config, lists, record, busVars, taskVars
<1>1. PICK scans \in SUBSET Records, wakes \in SUBSET Records :
        /\ status' = [r \in Records |-> IF r \in scans \cup wakes THEN "NO_ALARM" ELSE status[r]]
        /\ ioQueued' = [r \in Records |-> IF r \in scans THEN ioQueued[r] + 1 ELSE ioQueued[r]]
        /\ timer' = [r \in Records |-> timer[r] /\ r \notin wakes]
        /\ queued' = [r \in Records |-> IF r \in wakes THEN queued[r] + 1 ELSE queued[r]]
        /\ reply' = [r \in Records |-> IF r \in wakes THEN "message" ELSE reply[r]]
  <2> DEFINE takes == {r \in Records : Takes(r, id, d)}
             scanned == {r \in takes : rec[r].ioEvent}
             woken == {r \in takes \ scanned : status[r] = "TIMEOUT"}
  <2>1. scanned \in SUBSET Records /\ woken \in SUBSET Records
    OBVIOUS
  <2>2. /\ status' = [r \in Records |-> IF r \in scanned \cup woken THEN "NO_ALARM" ELSE status[r]]
        /\ ioQueued' = [r \in Records |-> IF r \in scanned THEN ioQueued[r] + 1 ELSE ioQueued[r]]
        /\ timer' = [r \in Records |-> timer[r] /\ r \notin woken]
        /\ queued' = [r \in Records |-> IF r \in woken THEN queued[r] + 1 ELSE queued[r]]
        /\ reply' = [r \in Records |-> IF r \in woken THEN "message" ELSE reply[r]]
    BY DEF Handle
  <2> HIDE DEF scanned, woken
  <2> QED BY <2>1, <2>2
<1>2. NeverStuck' /\ TaskTypes'
  BY <1>1, KeepsWaiting, Parts DEF QueueTypes
<1>3. QueueTypes'
  BY <1>1, Parts DEF QueueTypes
<1>4. StatusTypes' /\ ReplyTypes'
  BY <1>1, Parts DEF StatusTypes, ReplyTypes
<1>5. RecordTypes' /\ BusTypes' /\ Setup'
  BY Parts DEF RecordTypes, BusTypes, Setup
<1> QED BY <1>2, <1>3, <1>4, <1>5, Parts

LEMMA EventStep ==
  ASSUME Inv,
         \/ AcceptInterrupts \/ \E s \in Signals : BusSignal(s)
         \/ \E k \in Kinds : TakeBusCallback(k)
         \/ \E r \in Records : ReceiveRequest(r) \/ TimerExpires(r)
  PROVE  Inv'
<1> USE DEF config, lists, private, queues, record, busVars, taskVars, ghosts
<1>1. CASE AcceptInterrupts
  <2>1. NeverStuck' /\ TaskTypes'
    BY <1>1, KeepsWaiting DEF AcceptInterrupts
  <2> QED BY <1>1, <2>1, Parts DEF AcceptInterrupts, Still, RecordTypes, StatusTypes, ReplyTypes, QueueTypes, BusTypes, Setup
<1>2. ASSUME NEW s \in Signals, BusSignal(s)
      PROVE  Inv'
  <2>1. NeverStuck' /\ TaskTypes'
    BY <1>2, KeepsWaiting DEF BusSignal
  <2>2. BusTypes'
    BY <1>2, Parts DEF BusSignal, BusTypes
  <2> QED BY <1>2, <2>1, <2>2, Parts DEF BusSignal, RecordTypes, StatusTypes, ReplyTypes, QueueTypes, Setup
<1>3. ASSUME NEW k \in Kinds, TakeBusCallback(k)
      PROVE  Inv'
  <2>1. NeverStuck' /\ TaskTypes'
    BY <1>3, KeepsWaiting DEF TakeBusCallback
  <2>2. BusTypes'
    BY <1>3, Parts DEF TakeBusCallback, BusTypes, Setup
  <2>3. Setup'
    BY <1>3, Parts DEF TakeBusCallback, Setup, Still, BusTypes
  <2> QED BY <1>3, <2>1, <2>2, <2>3, Parts DEF TakeBusCallback, RecordTypes, StatusTypes, ReplyTypes, QueueTypes
<1>4. ASSUME NEW r \in Records, ReceiveRequest(r)
      PROVE  Inv'
  <2>1. NeverStuck' /\ TaskTypes'
    BY <1>4, KeepsWaiting DEF ReceiveRequest
  <2>2. StatusTypes' /\ QueueTypes'
    BY <1>4, Parts DEF ReceiveRequest, StatusTypes, QueueTypes
  <2> QED BY <1>4, <2>1, <2>2, Parts DEF ReceiveRequest, RecordTypes, ReplyTypes, BusTypes, Setup
<1>5. ASSUME NEW r \in Records, TimerExpires(r)
      PROVE  Inv'
  <2>1. NeverStuck' /\ TaskTypes'
    BY <1>5, KeepsWaiting, Parts DEF TimerExpires, QueueTypes
  <2>2. QueueTypes'
    BY <1>5, Parts DEF TimerExpires, QueueTypes
  <2> QED BY <1>5, <2>1, <2>2, Parts DEF TimerExpires, RecordTypes, StatusTypes, ReplyTypes, BusTypes, Setup, Still
<1> QED BY <1>1, <1>2, <1>3, <1>4, <1>5

LEMMA TaskStep ==
  ASSUME Inv, NEW t \in Tasks, Process(t)
  PROVE  Inv'
<1> DEFINE r == on[t]
<1> USE DEF config, lists, queues, busVars
<1>0. running
  <2>1. pc[t] # "idle"
    BY DEF Process, Refused, ReadInput, WriteOutput, RaiseAlarm, Suspend, SendRequest, ReadAi, ReadBi, ReadMbbi,
           ReadMbbiDirect, ReadSi, Read, WriteAo, WriteBo, WriteMbbo, WriteMbboDirect, Write, Locks
  <2> QED BY <2>1, Parts DEF Setup, Still
<1>1. CASE ReadInput(t) \/ WriteOutput(t)
  BY <1>1, InputSteps, OutputSteps, StuckByTask DEF Inv
<1>2. ASSUME NEW u \in Tasks, u # t
      PROVE  Refused(t) \/ RaiseAlarm(t) \/ Suspend(t) \/ SendRequest(t) => on'[u] = on[u] /\ pc'[u] = pc[u]
  BY <1>2, Parts DEF Refused, RaiseAlarm, Suspend, SendRequest, Complete, Go, TaskTypes
<1>3. CASE Refused(t)
  <2>1. TaskTypes'
    BY <1>3, Parts DEF Refused, Go, TaskTypes
  <2>2. NeverStuck'
    BY <1>2, <1>3, Parts DEF Refused, NeverStuck, Pending, record
  <2> QED BY <1>0, <1>3, <2>1, <2>2, Parts
          DEF Refused, RecordTypes, StatusTypes, ReplyTypes, QueueTypes, BusTypes, Setup, record, private, ghosts
<1>4. CASE RaiseAlarm(t)
  <2>1. r \in Records
    BY <1>4, Parts DEF RaiseAlarm, TaskTypes
  <2>2. TaskTypes' /\ StatusTypes' /\ RecordTypes'
    BY <1>4, <2>1, Parts DEF RaiseAlarm, Complete, Go, TaskTypes, StatusTypes, RecordTypes
  <2>3. NeverStuck'
    <3> SUFFICES ASSUME NEW q \in Records, attached[q] = "ok", pact'[q]
                 PROVE  Pending(q)'
      BY <1>4 DEF RaiseAlarm, NeverStuck
    <3>1. pact[q] /\ q # r
      BY <1>4, <2>1, Parts DEF RaiseAlarm, Complete, RecordTypes
    <3>2. CASE timer[q] \/ queued[q] > 0
      BY <1>4, <3>2 DEF RaiseAlarm, Pending
    <3>3. ASSUME NEW u \in Tasks, on[u] = q, pc[u] \in {"process", "alarm", "timer"}
          PROVE  Pending(q)'
      <4>1. u # t
        BY <3>1, <3>3
      <4>2. on'[u] = q /\ pc'[u] \in {"process", "alarm", "timer"}
        BY <1>2, <1>4, <3>3, <4>1
      <4> QED BY <4>2 DEF Pending
    <3> QED BY <3>1, <3>2, <3>3, Parts DEF NeverStuck, Pending
  <2>4. Setup'
    BY <1>0, <1>4, <2>1, Parts DEF RaiseAlarm, Complete, Setup, RecordTypes
  <2> QED BY <1>4, <2>2, <2>3, <2>4, Parts DEF RaiseAlarm, ReplyTypes, QueueTypes, BusTypes, ghosts
<1>5. CASE Suspend(t)
  <2>1. r \in Records /\ on' = on /\ pc' = [pc EXCEPT ![t] = "timer"]
    BY <1>5, Parts DEF Suspend, Go, TaskTypes
  <2>2. TaskTypes' /\ StatusTypes' /\ RecordTypes' /\ ReplyTypes'
    BY <1>5, <2>1, Parts DEF Suspend, TaskTypes, StatusTypes, RecordTypes, ReplyTypes
  <2>3. NeverStuck'
    <3> SUFFICES ASSUME NEW q \in Records, attached[q] = "ok", pact'[q]
                 PROVE  Pending(q)'
      BY <1>5 DEF Suspend, NeverStuck
    <3>1. CASE q = r
      BY <2>1, <3>1, Parts DEF Pending, TaskTypes
    <3>2. CASE q # r
      <4>1. pact[q]
        BY <1>5, <3>2, Parts DEF Suspend, RecordTypes
      <4> QED BY <1>2, <1>5, <3>2, <4>1, Parts DEF Suspend, NeverStuck, Pending
    <3> QED BY <3>1, <3>2
  <2>4. QueueTypes' /\ BusTypes'
    BY <1>5, Parts DEF Suspend, QueueTypes, BusTypes
  <2>5. Setup'
    BY <1>0, <1>5, <2>1, Parts DEF Suspend, Setup
  <2> QED BY <2>2, <2>3, <2>4, <2>5, Parts
<1>6. CASE SendRequest(t)
  <2>1. r \in Records
    BY <1>6, Parts DEF SendRequest, TaskTypes
  <2>2. TaskTypes' /\ QueueTypes'
    BY <1>6, <2>1, Parts DEF SendRequest, Go, TaskTypes, QueueTypes
  <2>3. NeverStuck'
    <3> SUFFICES ASSUME NEW q \in Records, attached[q] = "ok", pact[q]
                 PROVE  Pending(q)'
      BY <1>6 DEF SendRequest, NeverStuck, record
    <3>1. CASE q = r
      BY <1>6, <2>1, <3>1, Parts DEF SendRequest, Pending, QueueTypes
    <3>2. CASE q # r
      BY <1>2, <1>6, <3>2, Parts DEF SendRequest, NeverStuck, Pending, QueueTypes
    <3> QED BY <3>1, <3>2
  <2>4. RecordTypes' /\ StatusTypes' /\ ReplyTypes'
    BY <1>6, Parts DEF SendRequest, RecordTypes, StatusTypes, ReplyTypes, record, private, ghosts
  <2>5. BusTypes'
    BY <1>6, Parts DEF SendRequest, BusTypes
  <2>6. Setup'
    BY <1>0, <1>6, Parts DEF SendRequest, Setup, record
  <2> QED BY <2>2, <2>3, <2>4, <2>5, <2>6, Parts
<1> QED BY <1>1, <1>3, <1>4, <1>5, <1>6 DEF Process

LEMMA Stutter == Inv /\ UNCHANGED vars => Inv'
<1> SUFFICES ASSUME Inv, UNCHANGED vars PROVE Inv'
  OBVIOUS
<1>1. UNCHANGED <<config, lists, private, queues, record, busVars, taskVars, ghosts>>
  BY DEF vars
<1>2. RecordTypes' /\ StatusTypes' /\ ReplyTypes' /\ QueueTypes'
  BY <1>1, Parts DEF RecordTypes, StatusTypes, ReplyTypes, QueueTypes,
                     config, lists, private, queues, record, ghosts
<1>3. TaskTypes' /\ BusTypes'
  BY <1>1, Parts DEF TaskTypes, BusTypes, busVars, taskVars
<1>4. Setup'
  BY <1>1, Parts DEF Setup, Still, lists, queues, record, busVars, taskVars
<1>5. NeverStuck'
  BY <1>1, Parts DEF NeverStuck, Pending, lists, queues, record, taskVars
<1> QED BY <1>2, <1>3, <1>4, <1>5, Parts

LEMMA NextInv == Inv /\ [Next]_vars => Inv'
<1> SUFFICES ASSUME Inv, [Next]_vars PROVE Inv'
  OBVIOUS
<1>1. ASSUME NEW r \in Records, InitRecord(r)
      PROVE  Inv'
  BY <1>1, InitStep DEF InitRecord, InitAi, InitBi, InitMbbi, InitMbbiDirect, InitSi, InitAo, InitBo,
                        InitMbbo, InitMbboDirect, Kinds, Inputs, Outputs
<1>2. CASE ReceiveData
  BY <1>2, MessageStep DEF ReceiveData, Receive
<1>3. CASE busCallback
  BY <1>3, BusWalkStep
<1>4. ASSUME NEW t \in Tasks, Process(t)
      PROVE  Inv'
  BY <1>4, TaskStep
<1>5. CASE UNCHANGED vars
  BY <1>5, Stutter
<1> QED BY <1>1, <1>2, <1>3, <1>4, <1>5, ScanStep, EventStep DEF Next

\* The records' status, processing and callback state keep their types, whatever
\* the database, the messages and the bus (dev*Can.c).
THEOREM RecordTypesHold == Spec => []TypeOK
<1>1. Inv => TypeOK
  BY DEF Inv
<1> QED BY <1>1, InitInv, NextInv, PTL DEF Spec

\* A record that waits for its answer always has a timer, a callback or a task on
\* the way that ends the wait (read_ai, aiMessage, ProcessCallback, busCallback).
THEOREM NoRecordStuck == Spec => []NeverStuck
<1>1. Inv => NeverStuck
  BY DEF Inv
<1> QED BY <1>1, InitInv, NextInv, PTL DEF Spec

=============================================================================
