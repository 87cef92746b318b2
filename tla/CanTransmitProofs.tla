-------------------------- MODULE CanTransmitProofs --------------------------
(***************************************************************************)
(* Proofs about CanTransmit, for any number of writers and shells.         *)
(***************************************************************************)
EXTENDS CanTransmit, TLAPS

\* The definitions an action is made of.
USE DEF Goto, Shell, EnterReset, Accepting, Store

-----------------------------------------------------------------------------
LEMMA InitTypeOK == Init => TypeOK
<1> SUFFICES ASSUME Init PROVE TypeOK
    OBVIOUS
<1>1. pc \in [Writers -> Steps] BY DEF Init, t810Create, t810Initialise, Steps
<1>2. txSem \in BOOLEAN /\ stopped \in BOOLEAN /\ resetRequest \in BOOLEAN /\ tbs \in BOOLEAN
  BY Zenon DEF Init, t810Create, t810Initialise
<1>3. shell \in [Shells -> {"idle", "restartSignal", "resetSignal", "resetRun"}]
  BY DEF Init, t810Create, t810Initialise
<1>4. txBuffer \in [data : Writers \cup {None}, descriptor0 : Writers \cup {None},
                    descriptor1 : Writers \cup {None}]
  BY DEF Init, t810Create, t810Initialise
<1> QED BY <1>1, <1>2, <1>3, <1>4 DEF Init, t810Create, t810Initialise, TypeOK

LEMMA NextTypeOK == TypeOK /\ [Next]_vars => TypeOK'
<1> SUFFICES ASSUME TypeOK, [Next]_vars PROVE TypeOK'
    OBVIOUS
<1> USE DEF TypeOK, Steps, Sources, taskVars, isrVars, chipVars
<1>1. ASSUME NEW w \in Writers, canWrite(w) PROVE TypeOK'
  <2>1. CASE Call(w) BY <2>1 DEF Call
  <2>2. CASE Take(w) BY <2>2 DEF Take
  <2>3. CASE TimeOut(w) BY <2>3 DEF TimeOut
  <2>4. CASE Check(w) BY <2>4 DEF Check
  <2>5. CASE GiveBack(w) BY <2>5 DEF GiveBack
  <2>6. CASE PutData(w) BY <2>6 DEF PutData
  <2>7. CASE PutDescriptor0(w) BY <2>7 DEF PutDescriptor0
  <2>8. CASE PutDescriptor1(w) BY <2>8 DEF PutDescriptor1
  <2>9. CASE Transmit(w) BY <2>9 DEF Transmit
  <2> QED BY <1>1, <2>1, <2>2, <2>3, <2>4, <2>5, <2>6, <2>7, <2>8, <2>9 DEF canWrite
<1>2. ASSUME NEW s \in Shells, busCommand(s) PROVE TypeOK'
  BY <1>2 DEF busCommand, canBusStop, canBusRestart, RestartSignal, canBusReset,
              ResetSignal, ResetRun
<1>3. CASE t810ISR
  BY <1>3 DEF t810ISR, IsrEnter, IsrOverrun, IsrRescan, IsrError, IsrTransmit
<1>4. CASE chip
  BY <1>4 DEF chip, ChipSent, ChipError, ChipBusOff, ChipBusOn, ChipOverrun
<1>5. CASE UNCHANGED vars
  BY <1>5 DEF vars
<1> QED BY <1>1, <1>2, <1>3, <1>4, <1>5 DEF Next

(***************************************************************************)
(* Every variable of the transmit path keeps its type.                     *)
(***************************************************************************)
THEOREM TypeCorrect == Spec => []TypeOK
<1>1. Init => TypeOK BY InitTypeOK
<1>2. TypeOK /\ [Next]_vars => TypeOK' BY NextTypeOK
<1> QED BY <1>1, <1>2, PTL DEF Spec

-----------------------------------------------------------------------------
(***************************************************************************)
(* The token.  The rescan branch of the interrupt routine throws away what *)
(* it had read, a transmit interrupt included: what saves the token there  *)
(* is that canBusRestart() has just signalled txSem and no task can have   *)
(* taken it since.                                                         *)
(***************************************************************************)
TokenInv ==
  /\ TypeOK
  /\ NoLostToken
  /\ isr = "rescan" => txSem
  /\ \A s \in Shells : shell[s] \in {"idle", "restartSignal"}

LEMMA NextTokenInv ==
  ASSUME "reset" \notin Commands
  PROVE  TokenInv /\ [Next]_vars => TokenInv'
<1> SUFFICES ASSUME TokenInv, [Next]_vars PROVE TokenInv'
    OBVIOUS
<1>0. TypeOK /\ TypeOK' BY NextTypeOK DEF TokenInv
<1>6. \A s \in Shells : shell'[s] \in {"idle", "restartSignal"}
  <2>1. ASSUME NEW s \in Shells, busCommand(s) PROVE shell' # shell =>
               \E t \in {"idle", "restartSignal"} : shell' = [shell EXCEPT ![s] = t]
    BY <2>1 DEF TokenInv, busCommand, canBusStop, canBusRestart, RestartSignal, canBusReset,
                ResetSignal, ResetRun
  <2>2. shell' # shell => \E s \in Shells : busCommand(s)
    BY DEF Next, vars, taskVars, isrVars, chipVars, canWrite, Call, Take, TimeOut, Check,
           GiveBack, PutData, PutDescriptor0, PutDescriptor1, Transmit, t810ISR, IsrEnter,
           IsrOverrun, IsrRescan, IsrError, IsrTransmit, chip, ChipSent, ChipError,
           ChipBusOff, ChipBusOn, ChipOverrun
  <2> QED BY <2>1, <2>2, <1>0 DEF TokenInv, TypeOK
<1> SUFFICES NoLostToken' /\ (isr = "rescan" => txSem)'
    BY <1>0, <1>6 DEF TokenInv
<1> USE DEF TokenInv, NoLostToken, SignalComing, taskVars, isrVars, chipVars
<1>1. ASSUME NEW w \in Writers, canWrite(w)
      PROVE  NoLostToken' /\ (isr = "rescan" => txSem)'
  <2> isr = "off" /\ isr' = "off" /\ interrupt' = interrupt /\ intSource' = intSource
      /\ shell' = shell /\ resetRequest' = resetRequest
    BY <1>1 DEF canWrite, Call, Take, TimeOut, Check, GiveBack, PutData, PutDescriptor0,
                PutDescriptor1, Transmit
  <2> w \in DOMAIN pc BY <1>0 DEF TypeOK
  <2>1. CASE Call(w) \/ TimeOut(w)
    <3>1. \A v \in Writers : pc[v] \in Inside => pc'[v] \in Inside
      BY <2>1, <1>0 DEF Call, TimeOut, Inside, TypeOK
    <3> QED BY <2>1, <3>1 DEF Call, TimeOut
  <2>2. CASE Take(w) \/ Check(w) \/ PutData(w) \/ PutDescriptor0(w) \/ PutDescriptor1(w)
    <3>1. pc'[w] \in Inside
      BY <2>2, <1>0 DEF Take, Check, PutData, PutDescriptor0, PutDescriptor1, Inside, TypeOK
    <3> QED BY <3>1
  <2>3. CASE GiveBack(w)
    BY <2>3 DEF GiveBack
  <2>4. CASE Transmit(w)
    BY <2>4, <1>0 DEF Transmit, TypeOK
  <2> QED BY <1>1, <2>1, <2>2, <2>3, <2>4 DEF canWrite
<1>2. ASSUME NEW s \in Shells, busCommand(s)
      PROVE  NoLostToken' /\ (isr = "rescan" => txSem)'
  <2>1. CASE canBusStop(s) BY <2>1 DEF canBusStop
  <2>2. CASE canBusRestart(s) BY <2>2, <1>0 DEF canBusRestart, TypeOK
  <2>3. CASE RestartSignal(s) BY <2>3 DEF RestartSignal
  <2>4. CASE ResetSignal(s) BY <2>4 DEF ResetSignal
  <2> QED BY <1>2, <2>1, <2>2, <2>3, <2>4 DEF busCommand, canBusReset, ResetRun
<1>3. CASE t810ISR
  <2>1. CASE IsrEnter BY <2>1 DEF IsrEnter
  <2>2. CASE IsrOverrun BY <2>2 DEF IsrOverrun
  <2>3. CASE IsrRescan BY <2>3 DEF IsrRescan
  <2>4. CASE IsrError BY <2>4 DEF IsrError
  <2>5. CASE IsrTransmit BY <2>5, <1>0 DEF IsrTransmit, TypeOK
  <2> QED BY <1>3, <2>1, <2>2, <2>3, <2>4, <2>5 DEF t810ISR
<1>4. CASE chip
  <2>1. CASE ChipSent BY <2>1 DEF ChipSent
  <2>2. CASE ChipError \/ ChipBusOn \/ ChipOverrun
    BY <2>2 DEF ChipError, ChipBusOn, ChipOverrun
  <2>3. CASE ChipBusOff BY <2>3 DEF ChipBusOff
  <2> QED BY <1>4, <2>1, <2>2, <2>3 DEF chip
<1>5. CASE UNCHANGED vars
  BY <1>5 DEF vars
<1> QED BY <1>1, <1>2, <1>3, <1>4, <1>5 DEF Next

(***************************************************************************)
(* As long as nobody calls canBusReset(), the right to transmit is never   *)
(* lost, whatever the bus does and whoever stops and restarts it.          *)
(***************************************************************************)
THEOREM TokenNeverLost ==
  ASSUME "reset" \notin Commands
  PROVE  Spec => []NoLostToken
<1>1. Init => TokenInv
  BY InitTypeOK DEF Init, t810Create, t810Initialise, TokenInv, NoLostToken
<1>2. TokenInv /\ [Next]_vars => TokenInv'
  BY NextTokenInv
<1>3. TokenInv => NoLostToken
  BY DEF TokenInv
<1> QED BY <1>1, <1>2, <1>3, PTL DEF Spec

-----------------------------------------------------------------------------
(***************************************************************************)
(* The quiet bus.  The right to transmit is in one place: txSem, a task in *)
(* canWrite(), the chip, the transmit interrupt, or the interrupt          *)
(* routine's copy of it; and the parts of the transmit buffer that the     *)
(* task has got to are its own.                                            *)
(***************************************************************************)
Calm ==
  /\ \A s \in Shells : shell[s] = "idle"
  /\ ~resetRequest
  /\ busStatus # "off"
  /\ isr # "rescan"
  /\ "OI" \notin interrupt
  /\ "OI" \notin intSource
  /\ isr = "off" => intSource = {}

OneToken ==
  /\ txSem => \A w \in Writers : pc[w] \notin Inside
  /\ txSem \/ (\E w \in Writers : pc[w] \in Inside)
       => tbs /\ "TI" \notin interrupt /\ "TI" \notin intSource
  /\ ~tbs => "TI" \notin interrupt /\ "TI" \notin intSource
  /\ "TI" \in interrupt => "TI" \notin intSource

Progress ==
  \A w \in Writers :
    /\ pc[w] \in {"descriptor0", "descriptor1", "command"} /\ w \notin RtrWriters
         => txBuffer.data = w
    /\ pc[w] \in {"descriptor1", "command"} => txBuffer.descriptor0 = w
    /\ pc[w] = "command" => txBuffer.descriptor1 = w

QuietInv ==
  /\ TypeOK
  /\ Calm
  /\ ExclusiveAccess
  /\ NeverBusy
  /\ OneToken
  /\ Progress
  /\ WholeFrame

LEMMA InitQuietInv == Init => QuietInv
<1> SUFFICES ASSUME Init PROVE QuietInv
    OBVIOUS
<1>1. \A w \in Writers : pc[w] = "idle" BY DEF Init, t810Create, t810Initialise
<1>2. \A s \in Shells : shell[s] = "idle" BY DEF Init, t810Create, t810Initialise
<1> QED
  BY <1>1, <1>2, InitTypeOK
     DEF Init, t810Create, t810Initialise, QuietInv, Calm, ExclusiveAccess, NeverBusy,
         OneToken, Progress, WholeFrame, Inside

LEMMA NextQuietInv ==
  ASSUME Quiet
  PROVE  QuietInv /\ [Next]_vars => QuietInv'
<1> SUFFICES ASSUME QuietInv, [Next]_vars PROVE QuietInv'
    OBVIOUS
<1>0. TypeOK /\ TypeOK' BY NextTypeOK DEF QuietInv
<1> USE DEF QuietInv, taskVars, isrVars, chipVars
<1>1. ASSUME NEW w \in Writers, canWrite(w) PROVE QuietInv'
  <2>0. /\ isr = "off" /\ UNCHANGED <<shell, isr, intSource, resetRequest, busStatus, interrupt>>
        /\ pc' = [pc EXCEPT ![w] = pc'[w]]
    BY <1>1, <1>0 DEF canWrite, Call, Take, TimeOut, Check, GiveBack, PutData,
                      PutDescriptor0, PutDescriptor1, Transmit, TypeOK
  <2>1. Calm' BY <2>0 DEF Calm
  <2>2. ASSUME UNCHANGED txSem \/ ~txSem', UNCHANGED tbs, pc[w] \in Inside, pc'[w] \in Inside,
               pc'[w] # "busy"
        PROVE  ExclusiveAccess' /\ NeverBusy' /\ OneToken'
    BY <2>0, <2>2, <1>0 DEF ExclusiveAccess, NeverBusy, OneToken, TypeOK
  <2>3. CASE Call(w) \/ TimeOut(w)
    <3>1. pc[w] \notin Inside /\ pc'[w] \notin Inside /\ UNCHANGED <<txSem, tbs, txBuffer>>
      BY <2>3, <1>0 DEF Call, TimeOut, Inside, TypeOK
    <3>2. ExclusiveAccess' /\ NeverBusy' /\ OneToken'
      BY <2>0, <3>1, <1>0 DEF ExclusiveAccess, NeverBusy, OneToken, TypeOK, Inside
    <3>3. Progress' /\ WholeFrame'
      BY <2>0, <3>1, <1>0 DEF Progress, WholeFrame, Whole, TypeOK, Inside
    <3> QED BY <1>0, <2>1, <3>2, <3>3
  <2>4. CASE Take(w)
    <3>1. txSem /\ ~txSem' /\ pc'[w] = "check" /\ UNCHANGED <<tbs, txBuffer>>
      BY <2>4, <1>0 DEF Take, TypeOK
    <3>2. ExclusiveAccess' /\ NeverBusy' /\ OneToken'
      BY <2>0, <3>1, <1>0 DEF ExclusiveAccess, NeverBusy, OneToken, TypeOK, Inside
    <3>3. Progress' /\ WholeFrame'
      BY <2>0, <3>1, <1>0 DEF Progress, WholeFrame, Whole, TypeOK, Inside
    <3> QED BY <1>0, <2>1, <3>2, <3>3
  <2>5. CASE Check(w)
    <3>1. pc[w] = "check" /\ pc'[w] = "data" /\ UNCHANGED <<txSem, tbs, txBuffer>>
      BY <2>5, <1>0 DEF Check, TypeOK, OneToken, Inside
    <3>2. ExclusiveAccess' /\ NeverBusy' /\ OneToken'
      BY <2>2, <3>1 DEF Inside
    <3>3. Progress' /\ WholeFrame'
      BY <2>0, <3>1, <1>0 DEF Progress, WholeFrame, Whole, TypeOK
    <3> QED BY <1>0, <2>1, <3>2, <3>3
  <2>6. CASE PutData(w)
    <3>1. /\ pc[w] = "data" /\ pc'[w] = "descriptor0" /\ UNCHANGED <<txSem, tbs>>
          /\ tbs
          /\ txBuffer' = IF w \in RtrWriters THEN txBuffer ELSE [txBuffer EXCEPT !["data"] = w]
      BY <2>6, <1>0 DEF PutData, TypeOK, OneToken, Inside, Calm
    <3>2. ExclusiveAccess' /\ NeverBusy' /\ OneToken'
      BY <2>2, <3>1 DEF Inside
    <3>3. WholeFrame'
      BY <3>1 DEF WholeFrame
    <3>4. \A v \in Writers : v # w => pc'[v] \notin Inside
      BY <2>0, <3>1, <1>0 DEF ExclusiveAccess, Inside, TypeOK
    <3>5. Progress'
      BY <2>0, <3>1, <3>4, <1>0 DEF Progress, TypeOK, Inside
    <3> QED BY <1>0, <2>1, <3>2, <3>3, <3>5
  <2>7. CASE PutDescriptor0(w)
    <3>1. /\ pc[w] = "descriptor0" /\ pc'[w] = "descriptor1" /\ UNCHANGED <<txSem, tbs>>
          /\ tbs
          /\ txBuffer' = [txBuffer EXCEPT !["descriptor0"] = w]
      BY <2>7, <1>0 DEF PutDescriptor0, TypeOK, OneToken, Inside, Calm
    <3>2. ExclusiveAccess' /\ NeverBusy' /\ OneToken'
      BY <2>2, <3>1 DEF Inside
    <3>3. WholeFrame'
      BY <3>1 DEF WholeFrame
    <3>4. \A v \in Writers : v # w => pc'[v] \notin Inside
      BY <2>0, <3>1, <1>0 DEF ExclusiveAccess, Inside, TypeOK
    <3>5. Progress'
      BY <2>0, <3>1, <3>4, <1>0 DEF Progress, TypeOK, Inside
    <3> QED BY <1>0, <2>1, <3>2, <3>3, <3>5
  <2>8. CASE PutDescriptor1(w)
    <3>1. /\ pc[w] = "descriptor1" /\ pc'[w] = "command" /\ UNCHANGED <<txSem, tbs>>
          /\ tbs
          /\ txBuffer' = [txBuffer EXCEPT !["descriptor1"] = w]
      BY <2>8, <1>0 DEF PutDescriptor1, TypeOK, OneToken, Inside, Calm
    <3>2. ExclusiveAccess' /\ NeverBusy' /\ OneToken'
      BY <2>2, <3>1 DEF Inside
    <3>3. WholeFrame'
      BY <3>1 DEF WholeFrame
    <3>4. \A v \in Writers : v # w => pc'[v] \notin Inside
      BY <2>0, <3>1, <1>0 DEF ExclusiveAccess, Inside, TypeOK
    <3>5. Progress'
      BY <2>0, <3>1, <3>4, <1>0 DEF Progress, TypeOK, Inside
    <3> QED BY <1>0, <2>1, <3>2, <3>3, <3>5
  <2>9. CASE Transmit(w)
    <3>1. /\ pc[w] = "command" /\ pc'[w] = "idle" /\ UNCHANGED <<txSem, txBuffer>>
          /\ tbs /\ ~tbs' /\ ~txSem
      BY <2>9, <1>0 DEF Transmit, TypeOK, OneToken, Inside, Calm
    <3>2. \A v \in Writers : pc'[v] \notin Inside
      BY <2>0, <3>1, <1>0 DEF ExclusiveAccess, Inside, TypeOK
    <3>3. ExclusiveAccess' /\ NeverBusy' /\ Progress'
      BY <3>2 DEF ExclusiveAccess, NeverBusy, Progress, Inside
    <3>4. OneToken'
      BY <2>0, <3>1, <3>2 DEF OneToken, Inside
    <3>5. WholeFrame'
      BY <3>1 DEF Progress, WholeFrame, Whole
    <3> QED BY <1>0, <2>1, <3>3, <3>4, <3>5
  <2> QED BY <1>1, <2>3, <2>4, <2>5, <2>6, <2>7, <2>8, <2>9 DEF canWrite, GiveBack, NeverBusy
<1>2. ASSUME NEW s \in Shells, busCommand(s) PROVE QuietInv'
  BY <1>2 DEF Quiet, Calm, busCommand, canBusStop, canBusRestart, RestartSignal, canBusReset,
              ResetSignal, ResetRun
<1>3. CASE t810ISR
  <2>1. /\ UNCHANGED <<pc, shell, resetRequest, busStatus, tbs, txBuffer>>
        /\ Calm'
    BY <1>3 DEF Calm, t810ISR, IsrEnter, IsrOverrun, IsrRescan, IsrError, IsrTransmit
  <2>2. ExclusiveAccess' /\ NeverBusy' /\ Progress' /\ WholeFrame'
    BY <2>1 DEF ExclusiveAccess, NeverBusy, Progress, WholeFrame
  <2>3. OneToken'
    <3>1. CASE IsrEnter BY <3>1 DEF IsrEnter, OneToken, Calm
    <3>2. CASE IsrOverrun BY <3>2 DEF IsrOverrun, OneToken, Calm
    <3>3. CASE IsrError BY <3>3 DEF IsrError, OneToken, Calm
    <3>4. CASE IsrTransmit BY <3>4, <1>0 DEF IsrTransmit, OneToken, TypeOK
    <3> QED BY <1>3, <3>1, <3>2, <3>3, <3>4 DEF t810ISR, IsrRescan, Calm
  <2> QED BY <1>0, <2>1, <2>2, <2>3
<1>4. CASE chip
  <2>1. /\ UNCHANGED <<pc, txSem, shell, intSource, resetRequest, txBuffer>>
        /\ tbs => tbs'
        /\ Calm'
    BY <1>4 DEF Quiet, Calm, chip, ChipSent, ChipError, ChipBusOff, ChipBusOn, ChipOverrun
  <2>2. ExclusiveAccess' /\ NeverBusy' /\ Progress' /\ WholeFrame'
    BY <2>1, <1>0 DEF ExclusiveAccess, NeverBusy, Progress, WholeFrame, TypeOK
  <2>3. OneToken'
    BY <1>4, <1>0 DEF Quiet, OneToken, Calm, chip, ChipSent, ChipError, ChipBusOff, ChipBusOn,
                ChipOverrun, TypeOK
  <2> QED BY <1>0, <2>1, <2>2, <2>3
<1>5. CASE UNCHANGED vars
  BY <1>5 DEF vars, Calm, ExclusiveAccess, NeverBusy, OneToken, Progress, WholeFrame, TypeOK
<1> QED BY <1>1, <1>2, <1>3, <1>4, <1>5 DEF Next

LEMMA QuietInvariant ==
  ASSUME Quiet
  PROVE  Spec => []QuietInv
<1>1. QuietInv /\ [Next]_vars => QuietInv'
  BY NextQuietInv
<1> QED BY InitQuietInv, <1>1, PTL DEF Spec

(***************************************************************************)
(* On a quiet bus canWrite() has exclusive access to the transmit          *)
(* registers, for any number of tasks.                                     *)
(***************************************************************************)
THEOREM Exclusion ==
  ASSUME Quiet
  PROVE  Spec => []ExclusiveAccess
<1>1. QuietInv => ExclusiveAccess BY DEF QuietInv
<1> QED BY <1>1, QuietInvariant, PTL

(***************************************************************************)
(* On a quiet bus no frame mixes two callers' messages.                    *)
(***************************************************************************)
THEOREM FramesAreWhole ==
  ASSUME Quiet
  PROVE  Spec => []WholeFrame
<1>1. QuietInv => WholeFrame BY DEF QuietInv
<1> QED BY <1>1, QuietInvariant, PTL

(***************************************************************************)
(* On a quiet bus canWrite() never returns S_t810_transmitterBusy.         *)
(***************************************************************************)
THEOREM NeverFindsBusy ==
  ASSUME Quiet
  PROVE  Spec => []NeverBusy
<1>1. QuietInv => NeverBusy BY DEF QuietInv
<1> QED BY <1>1, QuietInvariant, PTL

(***************************************************************************)
(* On a quiet bus canWrite() returns 0 only as the chip takes over the     *)
(* caller's own message.                                                   *)
(***************************************************************************)
THEOREM SendsWhatWasAsked ==
  ASSUME Quiet
  PROVE  Spec => SentWhatWasAsked
<1> DEFINE Handover ==
      \A w \in Writers : pc[w] = "command" /\ pc'[w] = "idle"
        => tbs /\ ~tbs' /\ Whole(txBuffer') /\ txBuffer'.descriptor1 = w
<1>1. QuietInv /\ [Next]_vars => [Handover]_vars
  <2> SUFFICES ASSUME QuietInv, Next, NEW w \in Writers, pc[w] = "command", pc'[w] = "idle"
               PROVE  tbs /\ ~tbs' /\ Whole(txBuffer') /\ txBuffer'.descriptor1 = w
    BY DEF QuietInv
  <2> USE DEF QuietInv, taskVars, isrVars, chipVars
  <2>1. Transmit(w)
    <3>1. \E v \in Writers : canWrite(v)
      BY DEF Next, busCommand, canBusStop, canBusRestart, RestartSignal, canBusReset,
             ResetSignal, ResetRun, t810ISR, IsrEnter, IsrOverrun, IsrRescan, IsrError,
             IsrTransmit, chip, ChipSent, ChipError, ChipBusOff, ChipBusOn, ChipOverrun
    <3>2. PICK v \in Writers : canWrite(v) BY <3>1
    <3>3. pc' = [pc EXCEPT ![v] = pc'[v]]
      BY <3>2 DEF canWrite, Call, Take, TimeOut, Check, GiveBack, PutData, PutDescriptor0,
                  PutDescriptor1, Transmit, TypeOK
    <3>4. v = w BY <3>3 DEF TypeOK
    <3> QED
      BY <3>2, <3>4 DEF canWrite, Call, Take, TimeOut, Check, GiveBack, PutData,
                        PutDescriptor0, PutDescriptor1
  <2>2. tbs /\ ~resetRequest BY DEF OneToken, Inside, Calm
  <2>3. Whole(txBuffer) /\ txBuffer.descriptor1 = w BY DEF Progress, Whole
  <2> QED BY <2>1, <2>2, <2>3 DEF Transmit
<1>2. Spec => [][Handover]_vars
  BY <1>1, QuietInvariant, PTL DEF Spec
<1> QED BY <1>2 DEF SentWhatWasAsked

-----------------------------------------------------------------------------
(***************************************************************************)
(* On a quiet bus the driver implements the access protocol of             *)
(* TransmitAccess: its owner is the task inside canWrite(), nobody when    *)
(* txSem is full, the chip otherwise.                                      *)
(***************************************************************************)
LEMMA OwnerInside ==
  ASSUME ExclusiveAccess, NEW w \in Writers, pc[w] \in Inside
  PROVE  Owner = w
BY DEF Owner, ExclusiveAccess

LEMMA OwnerOutside ==
  ASSUME \A w \in Writers : pc[w] \notin Inside
  PROVE  Owner = IF txSem THEN Free ELSE Chip
BY DEF Owner

THEOREM ImplementsAccess ==
  ASSUME Quiet
  PROVE  Spec => AccessProtocol
<1>1. Init => Access!Init
  <2> SUFFICES ASSUME Init PROVE Owner = Free
    BY DEF Access!Init
  <2>1. \A w \in Writers : pc[w] \notin Inside BY DEF Init, t810Create, t810Initialise, Inside
  <2> QED BY <2>1, OwnerOutside DEF Init, t810Create, t810Initialise
<1>2. QuietInv /\ QuietInv' /\ [Next]_vars => [Access!Next]_Owner
  <2> SUFFICES ASSUME QuietInv, QuietInv', [Next]_vars
               PROVE  Access!Next \/ UNCHANGED Owner
    OBVIOUS
  <2> USE DEF QuietInv, taskVars, isrVars, chipVars
  <2>1. ASSUME UNCHANGED <<pc, txSem>> PROVE UNCHANGED Owner
    BY <2>1 DEF Owner
  <2>2. ASSUME NEW w \in Writers, canWrite(w) PROVE Access!Next \/ UNCHANGED Owner
    <3>0. pc' = [pc EXCEPT ![w] = pc'[w]]
      BY <2>2 DEF canWrite, Call, Take, TimeOut, Check, GiveBack, PutData, PutDescriptor0,
                  PutDescriptor1, Transmit, TypeOK
    <3>1. CASE Call(w) \/ TimeOut(w)
      <4>1. \A v \in Writers : pc'[v] \in Inside <=> pc[v] \in Inside
        BY <3>1 DEF Call, TimeOut, Inside, TypeOK
      <4>2. UNCHANGED txSem BY <3>1 DEF Call, TimeOut
      <4> QED
        <5>1. CASE \E v \in Writers : pc[v] \in Inside
          <6>1. PICK v \in Writers : pc[v] \in Inside BY <5>1
          <6>2. Owner = v BY <6>1, OwnerInside
          <6>3. Owner' = v BY <6>1, <4>1 DEF Owner, ExclusiveAccess
          <6> QED BY <6>2, <6>3
        <5>2. CASE \A v \in Writers : pc[v] \notin Inside
          BY <5>2, <4>1, <4>2 DEF Owner
        <5> QED BY <5>1, <5>2
    <3>2. CASE Take(w)
      <4>1. Owner = Free BY <3>2, OwnerOutside DEF Take, OneToken
      <4>2. pc'[w] \in Inside BY <3>2 DEF Take, Inside, TypeOK
      <4>3. Owner' = w BY <4>2 DEF Owner, ExclusiveAccess
      <4> QED BY <4>1, <4>3 DEF Access!Next, Access!Obtain
    <3>3. CASE Check(w) \/ PutData(w) \/ PutDescriptor0(w) \/ PutDescriptor1(w)
      <4>1. pc[w] \in Inside /\ pc'[w] \in Inside
        BY <3>3 DEF Check, PutData, PutDescriptor0, PutDescriptor1, Inside, TypeOK
      <4>2. Owner = w BY <4>1, OwnerInside
      <4>3. Owner' = w BY <4>1 DEF Owner, ExclusiveAccess
      <4> QED BY <4>2, <4>3
    <3>4. CASE Transmit(w)
      <4>1. pc[w] \in Inside /\ pc'[w] \notin Inside BY <3>4 DEF Transmit, Inside, TypeOK
      <4>2. Owner = w BY <4>1, OwnerInside
      <4>3. ~txSem' BY <3>4, <4>1 DEF Transmit, OneToken
      <4>4. \A v \in Writers : pc'[v] \notin Inside
        BY <3>0, <4>1 DEF ExclusiveAccess, TypeOK
      <4>5. Owner' = Chip BY <4>3, <4>4 DEF Owner
      <4> QED BY <4>2, <4>5 DEF Access!Next, Access!Send
    <3> QED BY <2>2, <3>1, <3>2, <3>3, <3>4 DEF canWrite, GiveBack, NeverBusy
  <2>3. ASSUME NEW s \in Shells, busCommand(s) PROVE Access!Next \/ UNCHANGED Owner
    BY <2>3 DEF Quiet, Calm, busCommand, canBusStop, canBusRestart, RestartSignal,
                canBusReset, ResetSignal, ResetRun
  <2>4. CASE t810ISR
    <3>1. CASE IsrTransmit /\ "TI" \in intSource
      <4>1. \A v \in Writers : pc[v] \notin Inside /\ pc'[v] \notin Inside
        BY <3>1 DEF IsrTransmit, OneToken
      <4>2. ~txSem /\ txSem' BY <3>1 DEF IsrTransmit, OneToken
      <4>3. Owner = Chip BY <4>1, <4>2, OwnerOutside
      <4>4. Owner' = Free BY <4>1, <4>2 DEF Owner
      <4> QED BY <4>3, <4>4 DEF Access!Next, Access!Release
    <3>2. CASE IsrTransmit /\ "TI" \notin intSource
      BY <3>2, <2>1 DEF IsrTransmit, TypeOK
    <3>3. CASE IsrEnter \/ IsrOverrun \/ IsrRescan \/ IsrError
      BY <3>3, <2>1 DEF IsrEnter, IsrOverrun, IsrRescan, IsrError, Calm
    <3> QED BY <2>4, <3>1, <3>2, <3>3 DEF t810ISR
  <2>5. CASE chip
    BY <2>5, <2>1 DEF chip, ChipSent, ChipError, ChipBusOff, ChipBusOn, ChipOverrun
  <2>6. CASE UNCHANGED vars
    BY <2>6, <2>1 DEF vars
  <2> QED BY <2>2, <2>3, <2>4, <2>5, <2>6 DEF Next
<1> QED BY <1>1, <1>2, QuietInvariant, PTL DEF Spec, AccessProtocol, Access!Spec

-----------------------------------------------------------------------------
(***************************************************************************)
(* The chip in reset.  An overrun interrupt that the routine has read was  *)
(* raised by a running chip: no task can have stopped it since, and the    *)
(* chip puts itself in reset only when it goes off the bus.                *)
(***************************************************************************)
ResetInv ==
  /\ TypeOK
  /\ resetRequest => tbs /\ "OI" \notin interrupt
  /\ isr = "overrun" /\ "OI" \in intSource /\ resetRequest => busStatus = "off"

LEMMA NextResetInv == ResetInv /\ [Next]_vars => ResetInv'
<1> SUFFICES ASSUME ResetInv, [Next]_vars PROVE ResetInv'
  OBVIOUS
<1>0. TypeOK /\ TypeOK' BY NextTypeOK DEF ResetInv
<1> USE DEF ResetInv, taskVars, isrVars, chipVars
<1>1. ASSUME NEW w \in Writers, canWrite(w) PROVE ResetInv'
  BY <1>0, <1>1 DEF canWrite, Call, Take, TimeOut, Check, GiveBack, PutData, PutDescriptor0,
                    PutDescriptor1, Transmit, Goto, Accepting, Store, TypeOK
<1>2. ASSUME NEW s \in Shells, busCommand(s) PROVE ResetInv'
  BY <1>0, <1>2 DEF busCommand, canBusStop, canBusRestart, RestartSignal, canBusReset,
                    ResetSignal, ResetRun, EnterReset, Shell
<1>3. CASE t810ISR
  BY <1>0, <1>3 DEF t810ISR, IsrEnter, IsrOverrun, IsrRescan, IsrError, IsrTransmit
<1>4. CASE chip
  BY <1>0, <1>4 DEF chip, ChipSent, ChipError, ChipBusOff, ChipBusOn, ChipOverrun
<1>5. CASE UNCHANGED vars
  BY <1>0, <1>5 DEF vars
<1> QED BY <1>1, <1>2, <1>3, <1>4, <1>5 DEF Next

(***************************************************************************)
(* StopHolds: whatever the faults, a stopped bus stays in reset and silent *)
(* until a restart or a reset, unless the chip was off the bus.            *)
(***************************************************************************)
THEOREM StoppedStaysStopped == Spec => StopHolds
<1> DEFINE Held == stopped' => \/ resetRequest' /\ tbs'
                               \/ stopped /\ (busStatus = "off" \/ ~resetRequest)
<1>1. Init => ResetInv
  BY InitTypeOK DEF Init, t810Create, t810Initialise, ResetInv
<1>2. ResetInv /\ ResetInv' /\ [Next]_vars => [Held]_vars
  <2> SUFFICES ASSUME ResetInv, ResetInv', Next PROVE Held
    OBVIOUS
  <2> USE DEF ResetInv, taskVars, isrVars, chipVars
  <2>1. ASSUME NEW w \in Writers, canWrite(w) PROVE Held
    BY <2>1 DEF canWrite, Call, Take, TimeOut, Check, GiveBack, PutData, PutDescriptor0,
                PutDescriptor1, Transmit
  <2>2. ASSUME NEW s \in Shells, busCommand(s) PROVE Held
    BY <2>2 DEF busCommand, canBusStop, canBusRestart, RestartSignal, canBusReset,
                ResetSignal, ResetRun, EnterReset
  <2>3. CASE t810ISR
    BY <2>3 DEF t810ISR, IsrEnter, IsrOverrun, IsrRescan, IsrError, IsrTransmit, TypeOK
  <2>4. CASE chip
    BY <2>4 DEF chip, ChipSent, ChipError, ChipBusOff, ChipBusOn, ChipOverrun
  <2> QED BY <2>1, <2>2, <2>3, <2>4 DEF Next
<1>3. ResetInv /\ [Next]_vars => ResetInv'
  BY NextResetInv
<1> QED BY <1>1, <1>2, <1>3, PTL DEF Spec, StopHolds

(***************************************************************************)
(* Where the chip does not go bus-off the promise of the page is kept.     *)
(***************************************************************************)
StopInv == ResetInv /\ busStatus # "off" /\ StopSilences

(***************************************************************************)
(* StopSilences: if the chip never goes bus-off, what canBusStop() stopped *)
(* is in reset and silent until a restart or a reset.                      *)
(***************************************************************************)
THEOREM StoppedIsSilent ==
  ASSUME "off" \notin ChipFaults
  PROVE  Spec => []StopSilences
<1>1. Init => StopInv
  BY InitTypeOK DEF Init, t810Create, t810Initialise, StopInv, ResetInv, StopSilences
<1>2. StopInv /\ [Next]_vars => StopInv'
  <2> SUFFICES ASSUME StopInv, [Next]_vars PROVE StopInv'
    OBVIOUS
  <2>0. ResetInv /\ ResetInv' BY NextResetInv DEF StopInv
  <2> USE DEF StopInv, ResetInv, StopSilences, taskVars, isrVars, chipVars
  <2>1. ASSUME NEW w \in Writers, canWrite(w) PROVE StopInv'
    BY <2>0, <2>1 DEF canWrite, Call, Take, TimeOut, Check, GiveBack, PutData, PutDescriptor0,
                      PutDescriptor1, Transmit, TypeOK
  <2>2. ASSUME NEW s \in Shells, busCommand(s) PROVE StopInv'
    BY <2>0, <2>2 DEF busCommand, canBusStop, canBusRestart, RestartSignal, canBusReset,
                      ResetSignal, ResetRun, EnterReset
  <2>3. CASE t810ISR
    BY <2>0, <2>3 DEF t810ISR, IsrEnter, IsrOverrun, IsrRescan, IsrError, IsrTransmit
  <2>4. CASE chip
    BY <2>0, <2>4 DEF chip, ChipSent, ChipError, ChipBusOff, ChipBusOn, ChipOverrun
  <2>5. CASE UNCHANGED vars
    BY <2>0, <2>5 DEF vars
  <2> QED BY <2>1, <2>2, <2>3, <2>4, <2>5 DEF Next
<1>3. StopInv => StopSilences
  BY DEF StopInv
<1> QED BY <1>1, <1>2, <1>3, PTL DEF Spec

-----------------------------------------------------------------------------
(***************************************************************************)
(* The error callbacks.  A status the callbacks have not been given has an *)
(* error interrupt pending, or one that the routine has read and not yet   *)
(* come to act on.  Only the overrun branch can forget that one.           *)
(***************************************************************************)
ListenInv ==
  /\ isr # "rescan"
  /\ "OI" \notin interrupt
  /\ "OI" \notin intSource
  /\ \/ told = busStatus
     \/ "EI" \in interrupt
     \/ isr \in {"overrun", "error"} /\ "EI" \in intSource

(***************************************************************************)
(* If the receiver never overruns, the canSignal() callbacks are told of   *)
(* every status the chip settles in, bus-off included.                     *)
(***************************************************************************)
THEOREM CallbacksInformed ==
  ASSUME "overrun" \notin ChipFaults
  PROVE  Spec => []ListenersInformed
<1>1. Init => ListenInv
  BY DEF Init, t810Create, t810Initialise, ListenInv
<1>2. ListenInv /\ [Next]_vars => ListenInv'
  <2> SUFFICES ASSUME ListenInv, [Next]_vars PROVE ListenInv'
    OBVIOUS
  <2> USE DEF ListenInv, taskVars, isrVars, chipVars
  <2>1. ASSUME NEW w \in Writers, canWrite(w) PROVE ListenInv'
    BY <2>1 DEF canWrite, Call, Take, TimeOut, Check, GiveBack, PutData, PutDescriptor0,
                PutDescriptor1, Transmit
  <2>2. ASSUME NEW s \in Shells, busCommand(s) PROVE ListenInv'
    BY <2>2 DEF busCommand, canBusStop, canBusRestart, RestartSignal, canBusReset,
                ResetSignal, ResetRun
  <2>3. CASE t810ISR
    BY <2>3 DEF t810ISR, IsrEnter, IsrOverrun, IsrRescan, IsrError, IsrTransmit
  <2>4. CASE chip
    BY <2>4 DEF chip, ChipSent, ChipError, ChipBusOff, ChipBusOn, ChipOverrun
  <2>5. CASE UNCHANGED vars
    BY <2>5 DEF vars
  <2> QED BY <2>1, <2>2, <2>3, <2>4, <2>5 DEF Next
<1>3. ListenInv => ListenersInformed
  BY DEF ListenInv, ListenersInformed
<1> QED BY <1>1, <1>2, <1>3, PTL DEF Spec

=============================================================================
