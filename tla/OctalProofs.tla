---------------------------- MODULE OctalProofs ----------------------------
(***************************************************************************)
(* Proofs about Octal, for any number of ports, writers and characters and *)
(* any size of the ring: its types, Armed, NothingLost, and LineDriven     *)
(* when no two tasks write to one port.                                    *)
(***************************************************************************)
EXTENDS Octal, TLAPS

Serving == isr \in {"read", "send", "end"}

Tx(p) == <<"tx", p>>

\* A writer is about to call tyGSOctalStartup for port p, or decides whether to.
Starter(p) == \E w \in Writers : PortOf[w] = p /\ pc[w] = "startup"
Starting(p) == \E w \in Writers : PortOf[w] = p /\ pc[w] \in {"start", "startup"}

\* What has left the holding register last.
Front(p) == IF shift[p] # 0 THEN shift[p] ELSE sent[p]

-----------------------------------------------------------------------------
(* The inductive invariant.                                                *)

\* The interrupt routine serves a port that exists.
ServingInv == Serving => step <= LastPort + 1 /\ Created(Current)

\* Who is inside tyWrite() holds the mutex of the port.
MutexInv ==
  \A w \in Writers :
    /\ pc[w] \in {"loop", "start", "startup"} => writing[PortOf[w]] = w
    /\ pc[w] # "idle" => create[PortOf[w]] = "created"

\* Until the reboot hook runs, the mask registers hold what their copy says.
MaskInv ==
  /\ rebooted => isr = "off"
  /\ ~rebooted => imr = imrCopy /\ \A p \in Ports : create[p] # "new" => p \in irqEnable

\* A port that is not busy, or is about to be started, has an empty transmitter
\* and no transmit interrupt, not even one the interrupt routine has already seen.
Idle(p) ==
  /\ Starter(p) => busy[p]
  /\ ~busy[p] \/ Starter(p) =>
       /\ thr[p] = 0
       /\ Tx(p) \notin imrCopy
       /\ isr \in {"read", "send"} /\ p = Current => "tx" \notin work

\* The interrupt routine has work for the transmitter only when there is room.
RoomInv == isr \in {"read", "send"} /\ "tx" \in work => thr[Current] = 0

\* The characters between the ring and the line are the next ones.
Data(p) ==
  /\ shift[p] # 0 => shift[p] = sent[p] + 1
  /\ thr[p] # 0 => thr[p] = Front(p) + 1
  /\ taken[p] = (IF thr[p] # 0 THEN thr[p] ELSE Front(p))
  /\ taken[p] <= put[p]

\* A busy port has its interrupt, or a writer that is about to start it; and
\* so has one with characters in its ring.
Watched(p) ==
  ~rebooted =>
    /\ busy[p] => Tx(p) \in imrCopy \/ Starter(p)
    /\ taken[p] < put[p] => Tx(p) \in imrCopy \/ Starting(p)

IdleInv == \A p \in Ports : Idle(p)
DataInv == \A p \in Ports : Data(p)
WatchedInv == \A p \in Ports : Watched(p)

Inv ==
  /\ TypeOK /\ ServingInv /\ MutexInv /\ MaskInv
  /\ IdleInv /\ RoomInv /\ DataInv /\ WatchedInv

-----------------------------------------------------------------------------
(* Lemmas about the operators.                                             *)

\* The interrupt routine looks at a port.
LEMMA CurrentPort ==
  ASSUME TypeOK
  PROVE  Current \in Ports
  <1>1. scan \in Nat /\ step \in Nat /\ LastPort \in Nat
    BY OctalAssumption DEF OctalAssumption, TypeOK, Ports
  <1>2. (scan + step) % (LastPort + 1) \in 0 .. LastPort
    BY <1>1
  <1> QED BY <1>2 DEF Current, Ports

\* Writing a mask register leaves only bits of the mask.
LEMMA MaskWrittenType ==
  ASSUME imr \subseteq Kinds \X Ports,
         NEW c, c \subseteq Kinds \X Ports,
         NEW p \in Ports
  PROVE  MaskWritten(c, p) \subseteq Kinds \X Ports
  BY DEF MaskWritten

\* A copy that differs from the registers in bits of one port is what the
\* registers hold once the block of that port is written.
LEMMA MaskWrittenCopy ==
  ASSUME imr \subseteq Kinds \X Ports,
         NEW p \in Ports,
         NEW d, d \subseteq Kinds \X {p},
         NEW c, c = imr \cup d \/ c = imr \ d
  PROVE  MaskWritten(c, p) = c
  <1>1. p \in Block(p)
    BY DEF Block
  <1>2. \A b \in d : b[2] = p
    OBVIOUS
  <1>3. \A b : b[2] \notin Block(p) => (b \in c <=> b \in imr)
    BY <1>1, <1>2
  <1> QED BY <1>3 DEF MaskWritten

-----------------------------------------------------------------------------
(* The types.                                                              *)

LEMMA InitTypes == Init => TypeOK /\ ServingInv
  <1> SUFFICES ASSUME Init PROVE TypeOK /\ ServingInv
    OBVIOUS
  <1>1. 0 \in Ports /\ 0 \in 0 .. CharLimit /\ 0 \in 0 .. LastPort + 2
    BY OctalAssumption DEF OctalAssumption, Ports
  <1>2. TypeOK
    BY <1>1 DEF Init, TypeOK
  <1>3. ServingInv
    BY DEF Init, ServingInv, Serving
  <1> QED BY <1>2, <1>3

\* What tyGSOctalStartup leaves has the right types.
LEMMA StartupTypes ==
  ASSUME TypeOK, NEW p \in Ports,
         NEW n \in 0 .. CharLimit, NEW t \in 0 .. CharLimit,
         Startup(p, n, t), taken[p] = t
  PROVE  /\ busy' \in [Ports -> BOOLEAN]
         /\ taken' \in [Ports -> 0 .. CharLimit]
         /\ thr' \in [Ports -> 0 .. CharLimit]
         /\ imrCopy' \subseteq Kinds \X Ports
         /\ imr' \subseteq Kinds \X Ports
  <1>1. CharLimit \in Nat
    BY OctalAssumption DEF OctalAssumption
  <1>2. imrCopy' \subseteq Kinds \X Ports
    BY DEF Startup, TypeOK, Kinds
  <1>3. imr' \subseteq Kinds \X Ports
    BY <1>2, MaskWrittenType DEF Startup, TypeOK
  <1>4. busy' \in [Ports -> BOOLEAN]
    BY DEF Startup, TypeOK
  <1>5. t < n => t + 1 \in 0 .. CharLimit
    BY <1>1
  <1>6. taken' \in [Ports -> 0 .. CharLimit]
    BY <1>5 DEF Startup, TypeOK
  <1>7. thr' \in [Ports -> 0 .. CharLimit]
    BY <1>5 DEF Startup, TypeOK
  <1> QED BY <1>2, <1>3, <1>4, <1>6, <1>7

LEMMA TypesNext ==
  ASSUME TypeOK, ServingInv, [Next]_vars
  PROVE  TypeOK'
  <1> USE OctalAssumption DEF OctalAssumption
  <1>1. ASSUME NEW p \in Ports, tyGSOctalInitChannel(p)
        PROVE  TypeOK'
    <2>1. imrCopy' \subseteq Kinds \X Ports
      BY <1>1 DEF tyGSOctalInitChannel, TypeOK, Kinds
    <2>2. imr' \subseteq Kinds \X Ports
      BY <1>1, <2>1, MaskWrittenType DEF tyGSOctalInitChannel, TypeOK
    <2> QED BY <1>1, <2>1, <2>2 DEF tyGSOctalInitChannel, TypeOK, tyVars, isrVars, txVars
  <1>2. ASSUME NEW p \in Ports, MarkCreated(p)
        PROVE  TypeOK'
    BY <1>2 DEF MarkCreated, TypeOK, tyVars, isrVars, txVars, rxVars
  <1>3. ASSUME NEW w \in Writers, Call(w)
        PROVE  TypeOK'
    BY <1>3 DEF Call, Goto, TypeOK, modVars, tyVars, isrVars, txVars, rxVars
  <1>4. ASSUME NEW w \in Writers, LineOn(w)
        PROVE  TypeOK'
    BY <1>4 DEF LineOn, Goto, TypeOK, modVars, tyVars, isrVars, txVars, rxVars
  <1>5. ASSUME NEW w \in Writers, Lock(w)
        PROVE  TypeOK'
    BY <1>5 DEF Lock, Goto, TypeOK, modVars, tyVars, isrVars, txVars, rxVars
  <1>6. ASSUME NEW w \in Writers, Put(w)
        PROVE  TypeOK'
    BY <1>6 DEF Put, Goto, TypeOK, modVars, tyVars, isrVars, txVars, rxVars
  <1>7. ASSUME NEW w \in Writers, Start(w)
        PROVE  TypeOK'
    BY <1>7 DEF Start, Goto, TypeOK, modVars, tyVars, isrVars, txVars, rxVars
  <1>8. ASSUME NEW w \in Writers, tyGSOctalStartup(w)
        PROVE  TypeOK'
    <2>1. PortOf[w] \in Ports /\ put[PortOf[w]] \in 0 .. CharLimit
             /\ taken[PortOf[w]] \in 0 .. CharLimit
      BY DEF TypeOK
    <2>2. Startup(PortOf[w], put[PortOf[w]], taken[PortOf[w]])
      BY <1>8 DEF tyGSOctalStartup
    <2> QED BY <1>8, <2>1, <2>2, StartupTypes
           DEF tyGSOctalStartup, Goto, TypeOK, modVars, isrVars, rxVars
  <1>9. ASSUME NEW w \in Writers, Unlock(w)
        PROVE  TypeOK'
    BY <1>9 DEF Unlock, Goto, TypeOK, modVars, tyVars, isrVars, txVars, rxVars
  <1>10. ASSUME NEW w \in Writers, Empty(w)
        PROVE  TypeOK'
    BY <1>10 DEF Empty, Goto, TypeOK, modVars, tyVars, isrVars, txVars, rxVars
  <1>11. ASSUME NEW w \in Writers, LineOff(w)
        PROVE  TypeOK'
    BY <1>11 DEF LineOff, Goto, TypeOK, modVars, tyVars, isrVars, txVars, rxVars
  <1>12. CASE IsrEnter
    BY <1>12, CurrentPort DEF IsrEnter, Raised, TypeOK, ServingInv, Serving, Kinds, modVars, tyVars, isrVars, txVars, rxVars
  <1>13. CASE IsrScan
    <2>1. step' \in 0 .. LastPort + 2
      BY <1>13 DEF IsrScan, TypeOK
    <2>2. work' \subseteq Kinds \cup {"error"} /\ isr' \in {"off", "scan", "read"}
      BY <1>13 DEF IsrScan, TypeOK, Raised
    <2> QED BY <1>13, <2>1, <2>2 DEF IsrScan, TypeOK, modVars, tyVars, txVars, rxVars
  <1>14. CASE IsrRead
    <2>1. Current \in Ports
      BY CurrentPort
    <2>2. CASE UNCHANGED <<put, busy, taken, thr, imrCopy, imr>>
      BY <1>14, <2>1, <2>2 DEF IsrRead, TypeOK, modVars
    <2>3. CASE /\ put[Current] < CharLimit
               /\ put' = [put EXCEPT ![Current] = @ + 1]
               /\ busy[Current] /\ UNCHANGED <<busy, taken, thr, imrCopy, imr>>
      BY <1>14, <2>1, <2>3 DEF IsrRead, TypeOK, modVars
    <2>4. CASE /\ put[Current] < CharLimit
               /\ put' = [put EXCEPT ![Current] = @ + 1]
               /\ Startup(Current, put[Current] + 1, taken[Current])
      <3>1. put[Current] + 1 \in 0 .. CharLimit /\ taken[Current] \in 0 .. CharLimit
        BY <2>1, <2>4 DEF TypeOK
      <3> QED BY <1>14, <2>1, <2>4, <3>1, StartupTypes DEF IsrRead, TypeOK, modVars
    <2> QED BY <1>14, <2>2, <2>3, <2>4 DEF IsrRead
  <1>15. CASE IsrSend
    <2>1. Current \in Ports
      BY CurrentPort
    <2>2. imrCopy' \subseteq Kinds \X Ports
      BY <1>15 DEF IsrSend, TypeOK
    <2>3. imr' \subseteq Kinds \X Ports
      BY <1>15, <2>1, <2>2, MaskWrittenType DEF IsrSend, TypeOK
    <2>4. busy' \in [Ports -> BOOLEAN]
      BY <1>15 DEF IsrSend, TypeOK
    <2>5. /\ taken[Current] \in 0 .. CharLimit /\ put[Current] \in 0 .. CharLimit
          /\ taken[Current] < put[Current] => taken[Current] + 1 \in 0 .. CharLimit
      BY <2>1 DEF TypeOK
    <2>6. taken' \in [Ports -> 0 .. CharLimit]
      BY <1>15, <2>5 DEF IsrSend, TypeOK
    <2>7. thr' \in [Ports -> 0 .. CharLimit]
      BY <1>15, <2>1, <2>6 DEF IsrSend, TypeOK
    <2> QED BY <1>15, <2>2, <2>3, <2>4, <2>6, <2>7 DEF IsrSend, TypeOK, modVars, rxVars
  <1>16. CASE IsrEnd
    BY <1>16, CurrentPort DEF IsrEnd, TypeOK, ServingInv, Serving, modVars, tyVars, isrVars, txVars, rxVars
  <1>17. CASE tyGSOctalRebootHook
    BY <1>17 DEF tyGSOctalRebootHook, TypeOK, modVars, tyVars, isrVars, txVars, rxVars
  <1>18. ASSUME NEW p \in Ports, Load(p)
        PROVE  TypeOK'
    BY <1>18 DEF Load, TypeOK, modVars, tyVars, isrVars, txVars, rxVars
  <1>19. ASSUME NEW p \in Ports, ShiftOut(p)
        PROVE  TypeOK'
    BY <1>19 DEF ShiftOut, TypeOK, modVars, tyVars, isrVars, txVars, rxVars
  <1>20. ASSUME NEW p \in Ports, Receive(p)
        PROVE  TypeOK'
    BY <1>20 DEF Receive, TypeOK, modVars, tyVars, isrVars, txVars, rxVars
  <1>21. CASE UNCHANGED vars
    BY <1>21 DEF TypeOK, vars, modVars, tyVars, isrVars, txVars, rxVars
  <1> QED BY <1>1, <1>2, <1>3, <1>4, <1>5, <1>6, <1>7, <1>8, <1>9, <1>10, <1>11, <1>12, <1>13, <1>14, <1>15, <1>16, <1>17, <1>18, <1>19, <1>20, <1>21
    DEF Next, tyGSOctalDevCreate, tyGSOctalWrite, tyGSOctalInt, uart

-----------------------------------------------------------------------------
(* Who does what.                                                          *)

TaskStep == TaskRuns /\ UNCHANGED isrVars
IsrStep == IsrEnter \/ IsrScan \/ IsrRead \/ IsrSend \/ IsrEnd
UartStep == UNCHANGED <<modVars, pc, tyVars, imrCopy, isrVars, imr, rts>>

\* A step is one of a task, of the interrupt routine or of the UART.
LEMMA Steps ==
  ASSUME [Next]_vars
  PROVE  TaskStep \/ IsrStep \/ UartStep
  <1>1. ASSUME NEW p \in Ports, tyGSOctalDevCreate(p) PROVE TaskStep
    BY <1>1 DEF tyGSOctalDevCreate, tyGSOctalInitChannel, MarkCreated, TaskStep
  <1>2. ASSUME NEW w \in Writers, tyGSOctalWrite(w) PROVE TaskStep
    BY <1>2 DEF tyGSOctalWrite, Call, LineOn, Lock, Put, Start, tyGSOctalStartup, Unlock,
                Empty, LineOff, Goto, TaskStep
  <1>3. ASSUME NEW p \in Ports, uart(p) PROVE UartStep
    BY <1>3 DEF uart, Load, ShiftOut, Receive, UartStep
  <1>4. CASE tyGSOctalInt
    BY <1>4 DEF tyGSOctalInt, IsrStep
  <1>5. CASE tyGSOctalRebootHook
    BY <1>5 DEF tyGSOctalRebootHook, TaskStep
  <1>6. CASE UNCHANGED vars
    BY <1>6 DEF vars, UartStep
  <1> QED BY <1>1, <1>2, <1>3, <1>4, <1>5, <1>6 DEF Next

-----------------------------------------------------------------------------
(* The interrupt routine serves a port that exists.                        *)

LEMMA ServingNext ==
  ASSUME TypeOK, ServingInv, [Next]_vars
  PROVE  ServingInv'
  <1>1. CASE TaskStep
    BY <1>1 DEF TaskStep, TaskRuns, isrVars, ServingInv, Serving
  <1>2. CASE UartStep
    BY <1>2 DEF UartStep, isrVars, modVars, ServingInv, Serving, Created, Current
  <1>3. CASE IsrEnter \/ IsrEnd
    BY <1>3 DEF IsrEnter, IsrEnd, ServingInv, Serving
  <1>4. CASE IsrScan
    <2>1. scan' = scan /\ create' = create
      BY <1>4 DEF IsrScan, modVars
    <2>2. CASE isr' = "read"
      <3>1. step' = step /\ step <= LastPort + 1 /\ Created(Current)
        BY <1>4, <2>2 DEF IsrScan
      <3> QED BY <2>1, <3>1 DEF ServingInv, Created, Current
    <2> QED BY <1>4, <2>2 DEF IsrScan, ServingInv, Serving
  <1>5. CASE IsrRead \/ IsrSend
    <2>1. scan' = scan /\ step' = step /\ create' = create /\ Serving
      BY <1>5 DEF IsrRead, IsrSend, modVars, Serving
    <2> QED BY <2>1 DEF ServingInv, Created, Current
  <1> QED BY Steps, <1>1, <1>2, <1>3, <1>4, <1>5 DEF IsrStep

-----------------------------------------------------------------------------
(* Writers exclude each other.                                             *)

LEMMA MutexNext ==
  ASSUME TypeOK, MutexInv, [Next]_vars
  PROVE  MutexInv'
  <1> USE OctalAssumption DEF OctalAssumption
  <1>1. CASE UNCHANGED <<pc, writing, create>>
    BY <1>1 DEF MutexInv
  <1>2. ASSUME NEW p \in Ports, tyGSOctalDevCreate(p)
        PROVE  MutexInv'
    <2>1. \A q \in Ports : create[q] = "created" => create'[q] = "created"
      BY <1>2 DEF tyGSOctalDevCreate, tyGSOctalInitChannel, MarkCreated, TypeOK
    <2>2. UNCHANGED <<pc, writing>>
      BY <1>2 DEF tyGSOctalDevCreate, tyGSOctalInitChannel, MarkCreated, tyVars
    <2> QED BY <2>1, <2>2 DEF MutexInv, TypeOK
  <1>3. ASSUME NEW w \in Writers, tyGSOctalWrite(w)
        PROVE  MutexInv'
    <2>1. UNCHANGED create
      BY <1>3 DEF tyGSOctalWrite, Call, LineOn, Lock, Put, Start, tyGSOctalStartup, Unlock,
                  Empty, LineOff, modVars
    <2>2. CASE Call(w)
      BY <2>1, <2>2 DEF Call, Goto, MutexInv, TypeOK, tyVars
    <2>3. CASE LineOn(w) \/ Empty(w) \/ LineOff(w)
      BY <2>1, <2>3 DEF LineOn, Empty, LineOff, Goto, MutexInv, TypeOK, tyVars
    <2>4. CASE Lock(w)
      BY <2>1, <2>4 DEF Lock, Goto, MutexInv, TypeOK
    <2>5. CASE Put(w) \/ Start(w) \/ tyGSOctalStartup(w)
      BY <2>1, <2>5 DEF Put, Start, tyGSOctalStartup, Goto, MutexInv, TypeOK
    <2>6. CASE Unlock(w)
      BY <2>1, <2>6 DEF Unlock, Goto, MutexInv, TypeOK
    <2> QED BY <1>3, <2>2, <2>3, <2>4, <2>5, <2>6 DEF tyGSOctalWrite
  <1>4. CASE tyGSOctalInt
    BY <1>1, <1>4 DEF tyGSOctalInt, IsrEnter, IsrScan, IsrRead, IsrSend, IsrEnd, modVars, tyVars
  <1>5. CASE tyGSOctalRebootHook
    BY <1>1, <1>5 DEF tyGSOctalRebootHook, tyVars
  <1>6. ASSUME NEW p \in Ports, uart(p)
        PROVE  MutexInv'
    BY <1>1, <1>6 DEF uart, Load, ShiftOut, Receive, modVars, tyVars
  <1>7. CASE UNCHANGED vars
    BY <1>1, <1>7 DEF vars, modVars, tyVars
  <1> QED BY <1>2, <1>3, <1>4, <1>5, <1>6, <1>7 DEF Next

-----------------------------------------------------------------------------
(* The mask registers and their copy.                                      *)

\* tyGSOctalStartup writes what the copy says.
LEMMA StartupMask ==
  ASSUME TypeOK, NEW p \in Ports, NEW n, NEW t,
         imr = imrCopy, Startup(p, n, t)
  PROVE  imr' = imrCopy'
  <1>1. {Tx(p)} \subseteq Kinds \X {p} /\ {} \subseteq Kinds \X {p}
    BY DEF Tx, Kinds
  <1>2. \E d : d \subseteq Kinds \X {p} /\ (imrCopy' = imr \cup d \/ imrCopy' = imr \ d)
    <2>1. CASE p \in irqEnable
      BY <1>1, <2>1 DEF Startup, Tx
    <2>2. CASE p \notin irqEnable
      <3>1. imrCopy' = imr \cup {}
        BY <2>2 DEF Startup
      <3> QED BY <1>1, <3>1
    <2> QED BY <2>1, <2>2
  <1>3. imr' = MaskWritten(imrCopy', p)
    BY DEF Startup
  <1> QED BY <1>2, <1>3, MaskWrittenCopy DEF TypeOK

LEMMA MaskNext ==
  ASSUME TypeOK, ServingInv, MaskInv, [Next]_vars
  PROVE  MaskInv'
  <1>1. CASE UNCHANGED <<rebooted, isr, imr, imrCopy, create, irqEnable>>
    BY <1>1 DEF MaskInv
  <1>2. ASSUME NEW p \in Ports, tyGSOctalInitChannel(p)
        PROVE  MaskInv'
    <2>1. ~rebooted => imr' = imrCopy'
      <3>1. {<<"rx", p>>} \subseteq Kinds \X {p}
        BY DEF Kinds
      <3> QED BY <1>2, <3>1, MaskWrittenCopy DEF tyGSOctalInitChannel, MaskInv, TypeOK
    <2>2. ~rebooted => \A q \in Ports : create'[q] # "new" => q \in irqEnable'
      BY <1>2 DEF tyGSOctalInitChannel, MaskInv, TypeOK
    <2> QED BY <1>2, <2>1, <2>2 DEF tyGSOctalInitChannel, MaskInv, isrVars
  <1>3. ASSUME NEW p \in Ports, MarkCreated(p)
        PROVE  MaskInv'
    BY <1>3 DEF MarkCreated, MaskInv, TypeOK, isrVars
  <1>4. ASSUME NEW w \in Writers, tyGSOctalStartup(w)
        PROVE  MaskInv'
    <2>1. PortOf[w] \in Ports
      BY OctalAssumption DEF OctalAssumption
    <2> QED BY <1>4, <2>1, StartupMask DEF tyGSOctalStartup, MaskInv, modVars, isrVars
  <1>5. ASSUME NEW w \in Writers, tyGSOctalWrite(w), ~tyGSOctalStartup(w)
        PROVE  MaskInv'
    BY <1>1, <1>5 DEF tyGSOctalWrite, Call, LineOn, Lock, Put, Start, Unlock, Empty, LineOff,
                      modVars, isrVars
  <1>6. CASE IsrEnter
    BY <1>6 DEF IsrEnter, Pending, MaskInv, modVars
  <1>7. CASE IsrScan \/ IsrEnd
    BY <1>7 DEF IsrScan, IsrEnd, MaskInv, modVars
  <1>8. CASE IsrRead
    <2>1. Current \in Ports
      BY CurrentPort
    <2>2. imr = imrCopy /\ UNCHANGED modVars /\ ~rebooted
      BY <1>8 DEF IsrRead, MaskInv
    <2>3. imr' = imrCopy'
      <3>1. CASE UNCHANGED <<imr, imrCopy>>
        BY <2>2, <3>1
      <3>2. CASE Startup(Current, put[Current] + 1, taken[Current])
        BY <2>1, <2>2, <3>2, StartupMask
      <3> QED BY <1>8, <3>1, <3>2 DEF IsrRead
    <2> QED BY <2>2, <2>3 DEF MaskInv, modVars
  <1>9. CASE IsrSend
    <2>1. Current \in Ports
      BY CurrentPort
    <2>2. imr = imrCopy /\ UNCHANGED modVars /\ ~rebooted
      BY <1>9 DEF IsrSend, MaskInv
    <2>3. Current \in irqEnable
      BY <1>9, <2>1, <2>2 DEF IsrSend, MaskInv, ServingInv, Serving, Created
    <2>4. imr' = imrCopy'
      <3>1. CASE UNCHANGED <<imr, imrCopy>>
        BY <2>2, <3>1
      <3>2. CASE imrCopy' = imrCopy \ {Tx(Current)} /\ imr' = MaskWritten(imrCopy', Current)
        <4>1. {Tx(Current)} \subseteq Kinds \X {Current}
          BY DEF Tx, Kinds
        <4> QED BY <2>1, <2>2, <3>2, <4>1, MaskWrittenCopy DEF TypeOK
      <3> QED BY <1>9, <2>3, <3>1, <3>2 DEF IsrSend, Tx
    <2> QED BY <2>2, <2>4 DEF MaskInv, modVars
  <1>10. CASE tyGSOctalRebootHook
    BY <1>10 DEF tyGSOctalRebootHook, TaskRuns, MaskInv, isrVars
  <1>11. ASSUME NEW p \in Ports, uart(p)
         PROVE  MaskInv'
    BY <1>1, <1>11 DEF uart, Load, ShiftOut, Receive, modVars, isrVars
  <1>12. CASE UNCHANGED vars
    BY <1>1, <1>12 DEF vars, modVars, isrVars
  <1> QED BY <1>2, <1>3, <1>4, <1>5, <1>6, <1>7, <1>8, <1>9, <1>10, <1>11, <1>12
    DEF Next, tyGSOctalDevCreate, tyGSOctalInt

-----------------------------------------------------------------------------
(* Ports that are not busy.                                                *)

\* A writer that starts a port is the only one that does.
LEMMA OneStarter ==
  ASSUME TypeOK, MutexInv, NEW w \in Writers,
         pc[w] = "startup", pc' = [pc EXCEPT ![w] = "loop"]
  PROVE  ~Starter(PortOf[w])'
  BY DEF MutexInv, TypeOK, Starter

\* The starters of a port do not change when nobody's pc becomes or was "startup".
LEMMA StarterSame ==
  ASSUME TypeOK, NEW w \in Writers, NEW to, to # "startup",
         pc' = [pc EXCEPT ![w] = to], pc[w] # "startup"
  PROVE  \A p \in Ports : Starter(p)' <=> Starter(p)
  BY DEF TypeOK, Starter

LEMMA IdleNext ==
  ASSUME Inv, [Next]_vars
  PROVE  IdleInv'
  <1> SUFFICES ASSUME NEW q \in Ports PROVE Idle(q)'
    BY DEF IdleInv
  <1> USE DEF Inv
  <1>q. Idle(q)
    BY DEF IdleInv
  <1>1. ASSUME UNCHANGED <<busy, thr>>, Starter(q)' <=> Starter(q),
               Tx(q) \in imrCopy' => Tx(q) \in imrCopy,
               isr' \notin {"read", "send"}
        PROVE  Idle(q)'
    BY <1>q, <1>1 DEF Idle, Tx
  <1>2. ASSUME NEW p \in Ports, tyGSOctalDevCreate(p)
        PROVE  Idle(q)'
    <2>1. Tx(q) \in imrCopy' => Tx(q) \in imrCopy
      BY <1>2 DEF tyGSOctalDevCreate, tyGSOctalInitChannel, MarkCreated, Tx
    <2>2. UNCHANGED <<busy, thr, pc>> /\ isr' = "off"
      BY <1>2 DEF tyGSOctalDevCreate, tyGSOctalInitChannel, MarkCreated, TaskRuns, tyVars,
                  isrVars, txVars
    <2> QED BY <1>1, <2>1, <2>2 DEF Starter
  <1>3. ASSUME NEW w \in Writers, tyGSOctalWrite(w), ~Start(w), ~tyGSOctalStartup(w)
        PROVE  Idle(q)'
    <2>1. PICK to \in {"on", "lock", "loop", "start", "empty", "over", "idle"} :
            pc' = [pc EXCEPT ![w] = to] /\ pc[w] # "startup"
      BY <1>3 DEF tyGSOctalWrite, Call, LineOn, Lock, Put, Unlock, Empty, LineOff, Goto
    <2>2. Starter(q)' <=> Starter(q)
      BY <2>1, StarterSame
    <2>3. UNCHANGED <<busy, thr, imrCopy>> /\ isr' = "off"
      BY <1>3 DEF tyGSOctalWrite, Call, LineOn, Lock, Put, Unlock, Empty, LineOff, Goto,
                  TaskRuns, tyVars, isrVars, txVars
    <2> QED BY <1>1, <2>2, <2>3
  <1>4. ASSUME NEW w \in Writers, Start(w)
        PROVE  Idle(q)'
    <2>1. /\ UNCHANGED <<thr, imrCopy>> /\ isr' = "off"
          /\ busy' = [busy EXCEPT ![PortOf[w]] = TRUE]
      BY <1>4 DEF Start, Goto, TaskRuns, isrVars, txVars
    <2>2. CASE busy[PortOf[w]]
      <3>1. Starter(q)' <=> Starter(q)
        BY <1>4, <2>2, StarterSame DEF Start, Goto
      <3>2. busy' = busy
        BY <2>1, <2>2 DEF TypeOK
      <3> QED BY <1>1, <2>1, <3>1, <3>2
    <2>3. CASE ~busy[PortOf[w]] /\ q = PortOf[w]
      BY <1>q, <2>1, <2>3 DEF Idle, Tx, TypeOK
    <2>4. CASE ~busy[PortOf[w]] /\ q # PortOf[w]
      <3>1. Starter(q)' <=> Starter(q)
        BY <1>4, <2>4 DEF Start, Goto, Starter, TypeOK
      <3> QED BY <1>q, <2>1, <2>4, <3>1 DEF Idle, Tx, TypeOK
    <2> QED BY <2>2, <2>3, <2>4
  <1>5. ASSUME NEW w \in Writers, tyGSOctalStartup(w)
        PROVE  Idle(q)'
    <2> DEFINE p == PortOf[w]
    <2>1. p \in Ports
      BY OctalAssumption DEF OctalAssumption
    <2>2. /\ pc[w] = "startup" /\ pc' = [pc EXCEPT ![w] = "loop"] /\ isr' = "off"
          /\ Startup(p, put[p], taken[p])
      BY <1>5 DEF tyGSOctalStartup, Goto, TaskRuns, isrVars
    <2>3. CASE q = p
      <3>1. ~Starter(q)' /\ Starter(q)
        BY <2>2, <2>3, OneStarter DEF Starter
      <3>2. thr[q] = 0 /\ Tx(q) \notin imrCopy
        BY <1>q, <3>1 DEF Idle
      <3>3. busy'[q] \/ (thr' = thr /\ imrCopy' \subseteq imrCopy)
        BY <2>2, <2>3 DEF Startup, TypeOK
      <3> QED BY <2>2, <3>1, <3>2, <3>3 DEF Idle, Tx
    <2>4. CASE q # p
      <3>1. Starter(q)' <=> Starter(q)
        BY <2>2, <2>4 DEF Starter, TypeOK
      <3>2. busy'[q] = busy[q] /\ thr'[q] = thr[q] /\ (Tx(q) \in imrCopy' => Tx(q) \in imrCopy)
        BY <2>1, <2>2, <2>4 DEF Startup, Tx, TypeOK
      <3> QED BY <1>q, <2>2, <3>1, <3>2 DEF Idle, Tx
    <2> QED BY <2>3, <2>4
  <1>6. CASE IsrEnter \/ IsrEnd
    BY <1>1, <1>6 DEF IsrEnter, IsrEnd, Starter, tyVars, txVars
  <1>7. CASE IsrScan
    <2>1. UNCHANGED <<busy, thr, pc, imrCopy, scan>>
      BY <1>7 DEF IsrScan, tyVars, txVars
    <2>2. CASE isr' = "read"
      <3>1. Current' = Current /\ ("tx" \in work' => Tx(Current) \in imrCopy)
        BY <1>7, <2>1, <2>2 DEF IsrScan, Current, Tx
      <3> QED BY <1>q, <2>1, <3>1 DEF Idle, Starter, Tx
    <2>3. CASE isr' # "read"
      BY <1>1, <1>7, <2>1, <2>3 DEF IsrScan, Starter
    <2> QED BY <2>2, <2>3
  <1>8. CASE IsrRead
    <2>1. Current \in Ports
      BY CurrentPort
    <2>2. Current' = Current /\ work' = work /\ isr = "read" /\ (Starter(q)' <=> Starter(q))
      BY <1>8 DEF IsrRead, Current, Starter
    <2>3. CASE UNCHANGED <<busy, thr, imrCopy>>
      BY <1>q, <2>2, <2>3 DEF Idle, Tx
    <2>4. CASE ~busy[Current] /\ Startup(Current, put[Current] + 1, taken[Current])
      <3>1. CASE q = Current
        <4>1. thr[q] = 0 /\ Tx(q) \notin imrCopy /\ "tx" \notin work /\ ~Starter(q)
          BY <1>q, <2>2, <2>4, <3>1 DEF Idle
        <4>2. busy'[q] \/ (thr' = thr /\ imrCopy' \subseteq imrCopy)
          BY <2>4, <3>1 DEF Startup, TypeOK
        <4> QED BY <2>2, <4>1, <4>2 DEF Idle, Tx
      <3>2. CASE q # Current
        <4>1. /\ busy'[q] = busy[q] /\ thr'[q] = thr[q]
              /\ Tx(q) \in imrCopy' => Tx(q) \in imrCopy
          BY <2>1, <2>4, <3>2 DEF Startup, Tx, TypeOK
        <4> QED BY <1>q, <2>2, <3>2, <4>1 DEF Idle, Tx
      <3> QED BY <3>1, <3>2
    <2> QED BY <1>8, <2>3, <2>4 DEF IsrRead
  <1>9. CASE IsrSend
    <2>1. Current \in Ports /\ Created(Current)
      BY <1>9, CurrentPort DEF IsrSend, ServingInv, Serving
    <2>2. Current \in irqEnable
      BY <1>9, <2>1 DEF IsrSend, MaskInv, Created
    <2>3. isr = "send" /\ isr' = "end" /\ (Starter(q)' <=> Starter(q))
      BY <1>9 DEF IsrSend, Starter
    <2>4. CASE UNCHANGED <<busy, thr, imrCopy>>
      BY <1>1, <2>3, <2>4
    <2>5. CASE /\ "tx" \in work
               /\ thr' = [thr EXCEPT ![Current] = taken'[Current]]
               /\ UNCHANGED <<busy, imrCopy>>
      <3>1. CASE q = Current
        BY <1>q, <2>3, <2>5, <3>1 DEF Idle, Tx
      <3>2. CASE q # Current
        BY <1>q, <2>3, <2>5, <3>2 DEF Idle, Tx, TypeOK
      <3> QED BY <3>1, <3>2
    <2>6. CASE /\ "tx" \in work
               /\ busy' = [busy EXCEPT ![Current] = FALSE]
               /\ imrCopy' = imrCopy \ {Tx(Current)}
               /\ thr' = thr
      <3>1. CASE q = Current
        <4>1. thr[q] = 0 /\ ~Starter(q)
          BY <1>q, <2>3, <2>6, <3>1 DEF RoomInv, Idle
        <4> QED BY <2>3, <2>6, <3>1, <4>1 DEF Idle, Tx
      <3>2. CASE q # Current
        BY <1>q, <2>3, <2>6, <3>2 DEF Idle, Tx, TypeOK
      <3> QED BY <3>1, <3>2
    <2> QED BY <1>9, <2>2, <2>4, <2>5, <2>6 DEF IsrSend, Tx
  <1>10. CASE tyGSOctalRebootHook
    <2>1. UNCHANGED <<busy, thr, pc, imrCopy>> /\ isr' = "off"
      BY <1>10 DEF tyGSOctalRebootHook, TaskRuns, tyVars, isrVars, txVars
    <2> QED BY <1>1, <2>1 DEF Starter
  <1>11. ASSUME UNCHANGED <<busy, pc, imrCopy, isr, work, scan, step>>,
                thr'[q] = thr[q] \/ thr'[q] = 0
         PROVE  Idle(q)'
    <2>1. Current' = Current /\ (Starter(q)' <=> Starter(q))
      BY <1>11 DEF Current, Starter
    <2> QED BY <1>q, <1>11, <2>1 DEF Idle, Tx
  <1>12. ASSUME NEW p \in Ports, uart(p)
         PROVE  Idle(q)'
    BY <1>11, <1>12 DEF uart, Load, ShiftOut, Receive, tyVars, isrVars, txVars, TypeOK
  <1>13. CASE UNCHANGED vars
    BY <1>11, <1>13 DEF vars, tyVars, isrVars, txVars
  <1> QED BY <1>2, <1>3, <1>4, <1>5, <1>6, <1>7, <1>8, <1>9, <1>10, <1>12, <1>13
    DEF Next, tyGSOctalInt

-----------------------------------------------------------------------------
(* What the interrupt routine has seen of the transmitter still holds.     *)

LEMMA RoomNext ==
  ASSUME Inv, [Next]_vars
  PROVE  RoomInv'
  <1> USE DEF Inv
  <1>1. CASE TaskStep
    BY <1>1 DEF TaskStep, TaskRuns, isrVars, RoomInv
  <1>2. CASE IsrEnter \/ IsrSend \/ IsrEnd
    BY <1>2 DEF IsrEnter, IsrSend, IsrEnd, RoomInv
  <1>3. CASE IsrScan
    <2>1. CASE isr' = "read"
      <3>1. Current' = Current /\ ("tx" \in work' => thr[Current] = 0) /\ thr' = thr
        BY <1>3, <2>1 DEF IsrScan, Raised, Current, txVars
      <3> QED BY <3>1 DEF RoomInv
    <2> QED BY <1>3, <2>1 DEF IsrScan, RoomInv
  <1>4. CASE IsrRead
    <2>1. Current' = Current /\ work' = work /\ isr = "read" /\ Current \in Ports
      BY <1>4, CurrentPort DEF IsrRead, Current
    <2>2. CASE busy[Current] \/ thr' = thr
      BY <1>4, <2>1, <2>2 DEF IsrRead, RoomInv
    <2>3. CASE ~busy[Current]
      BY <2>1, <2>3 DEF IdleInv, Idle, RoomInv
    <2> QED BY <2>2, <2>3
  <1>5. ASSUME NEW p \in Ports, uart(p)
        PROVE  RoomInv'
    <2>1. /\ isr' = isr /\ work' = work /\ Current' = Current /\ Current \in Ports
          /\ thr'[Current] = thr[Current] \/ thr'[Current] = 0
      BY <1>5, CurrentPort DEF uart, Load, ShiftOut, Receive, isrVars, txVars, Current, TypeOK
    <2> QED BY <2>1 DEF RoomInv
  <1>6. CASE UNCHANGED vars
    BY <1>6 DEF vars, isrVars, txVars, RoomInv, Current
  <1>7. ASSUME NEW p \in Ports, tyGSOctalDevCreate(p)
        PROVE  TaskStep
    BY <1>7 DEF tyGSOctalDevCreate, tyGSOctalInitChannel, MarkCreated, TaskStep
  <1>8. ASSUME NEW w \in Writers, tyGSOctalWrite(w)
        PROVE  TaskStep
    BY <1>8 DEF tyGSOctalWrite, Call, LineOn, Lock, Put, Start, tyGSOctalStartup, Unlock,
                Empty, LineOff, Goto, TaskStep
  <1>9. ASSUME tyGSOctalRebootHook
        PROVE  TaskStep
    BY <1>9 DEF tyGSOctalRebootHook, TaskStep
  <1> QED BY <1>1, <1>2, <1>3, <1>4, <1>5, <1>6, <1>7, <1>8, <1>9 DEF Next, tyGSOctalInt

-----------------------------------------------------------------------------
(* Characters between the ring and the line.                               *)

\* tyGSOctalStartup keeps the characters in order when the transmitter is empty.
LEMMA StartupData ==
  ASSUME TypeOK, NEW p \in Ports, NEW n \in Nat, Data(p), thr[p] = 0, put[p] <= n,
         Startup(p, n, taken[p]), put' = [put EXCEPT ![p] = n], UNCHANGED <<shift, sent>>
  PROVE  \A q \in Ports : Data(q) => Data(q)'
  <1> SUFFICES ASSUME NEW q \in Ports, Data(q) PROVE Data(q)'
    OBVIOUS
  <1> USE OctalAssumption DEF OctalAssumption
  <1>1. CASE q # p
    BY <1>1 DEF Startup, Data, Front, TypeOK
  <1>2. CASE q = p
    <2>1. /\ taken[p] \in Nat /\ shift[p] \in Nat /\ sent[p] \in Nat /\ put[p] \in Nat
          /\ taken[p] = Front(p) /\ Front(p)' = Front(p) /\ put'[p] = n
      BY DEF TypeOK, Data, Front
    <2>2. CASE taken[p] < n
      <3>1. taken'[p] = taken[p] + 1 /\ thr'[p] = taken[p] + 1
        BY <2>1, <2>2 DEF Startup, TypeOK
      <3> QED BY <1>2, <2>1, <2>2, <3>1 DEF Data
    <2>3. CASE taken[p] = n
      BY <1>2, <2>1, <2>3 DEF Startup, Data
    <2> QED BY <2>2, <2>3 DEF Startup
  <1> QED BY <1>1, <1>2

LEMMA DataNext ==
  ASSUME Inv, [Next]_vars
  PROVE  DataInv'
  <1> SUFFICES ASSUME NEW q \in Ports PROVE Data(q)'
    BY DEF DataInv
  <1> USE OctalAssumption DEF OctalAssumption, Inv
  <1>q. /\ Data(q)
        /\ put[q] \in Nat /\ taken[q] \in Nat /\ thr[q] \in Nat /\ shift[q] \in Nat
        /\ sent[q] \in Nat
    BY DEF DataInv, TypeOK
  <1>1. ASSUME UNCHANGED <<taken, thr, shift, sent>>, put'[q] \in Nat, put[q] <= put'[q]
        PROVE  Data(q)'
    BY <1>q, <1>1 DEF Data, Front
  <1>2. ASSUME NEW p \in Ports, tyGSOctalDevCreate(p)
        PROVE  Data(q)'
    BY <1>q, <1>1, <1>2 DEF tyGSOctalDevCreate, tyGSOctalInitChannel, MarkCreated, tyVars,
                            txVars
  <1>3. ASSUME NEW w \in Writers, tyGSOctalWrite(w), ~Put(w), ~tyGSOctalStartup(w)
        PROVE  Data(q)'
    BY <1>q, <1>1, <1>3 DEF tyGSOctalWrite, Call, LineOn, Lock, Start, Unlock, Empty, LineOff,
                            tyVars, txVars
  <1>4. ASSUME NEW w \in Writers, Put(w)
        PROVE  Data(q)'
    BY <1>q, <1>1, <1>4 DEF Put, txVars, TypeOK
  <1>5. ASSUME NEW w \in Writers, tyGSOctalStartup(w)
        PROVE  Data(q)'
    <2> DEFINE p == PortOf[w]
    <2>1. p \in Ports /\ put[p] \in Nat /\ put' = [put EXCEPT ![p] = put[p]]
      BY <1>5 DEF tyGSOctalStartup, TypeOK
    <2>2. thr[p] = 0
      BY <1>5, <2>1 DEF tyGSOctalStartup, Goto, IdleInv, Idle, Starter
    <2>3. Data(p) /\ Startup(p, put[p], taken[p]) /\ UNCHANGED <<shift, sent>>
      BY <1>5, <2>1 DEF tyGSOctalStartup, DataInv
    <2>4. put[p] <= put[p] /\ TypeOK
      BY <2>1
    <2>5. \A r \in Ports : Data(r) => Data(r)'
      BY <2>1, <2>2, <2>3, <2>4, StartupData
    <2> QED BY <1>q, <2>5
  <1>6. CASE IsrEnter \/ IsrScan \/ IsrEnd
    BY <1>q, <1>1, <1>6 DEF IsrEnter, IsrScan, IsrEnd, tyVars, txVars
  <1>7. CASE IsrRead
    <2>1. Current \in Ports /\ UNCHANGED <<shift, sent>> /\ put[Current] \in Nat
      BY <1>7, CurrentPort DEF IsrRead, TypeOK
    <2>2. CASE UNCHANGED <<taken, thr>> /\ (put' = put \/ put' = [put EXCEPT ![Current] = @ + 1])
      <3>1. put'[q] = put[q] \/ put'[q] = put[q] + 1
        BY <2>1, <2>2 DEF TypeOK
      <3>2. put'[q] \in Nat /\ put[q] <= put'[q]
        BY <1>q, <3>1
      <3> QED BY <1>1, <2>1, <2>2, <3>2
    <2>3. CASE /\ ~busy[Current]
               /\ Startup(Current, put[Current] + 1, taken[Current])
               /\ put' = [put EXCEPT ![Current] = put[Current] + 1]
      <3>1. thr[Current] = 0 /\ Data(Current)
        BY <2>1, <2>3 DEF IdleInv, Idle, DataInv
      <3>2. put[Current] + 1 \in Nat /\ put[Current] <= put[Current] + 1 /\ TypeOK
        BY <2>1
      <3>3. \A r \in Ports : Data(r) => Data(r)'
        BY <2>1, <2>3, <3>1, <3>2, StartupData
      <3> QED BY <1>q, <3>3
    <2> QED BY <1>7, <2>2, <2>3 DEF IsrRead
  <1>8. CASE IsrSend
    <2>1. Current \in Ports
      BY CurrentPort
    <2>2. CASE UNCHANGED <<taken, thr>>
      <3>1. UNCHANGED <<put, shift, sent>>
        BY <1>8 DEF IsrSend
      <3> QED BY <1>q, <1>1, <2>2, <3>1
    <2>3. CASE /\ "tx" \in work
               /\ taken[Current] < put[Current]
               /\ taken' = [taken EXCEPT ![Current] = @ + 1]
               /\ thr' = [thr EXCEPT ![Current] = taken'[Current]]
      <3>1. UNCHANGED <<put, shift, sent>>
        BY <1>8 DEF IsrSend
      <3>2. CASE q # Current
        BY <1>q, <2>3, <3>1, <3>2 DEF Data, Front, TypeOK
      <3>3. CASE q = Current
        <4>1. thr[q] = 0 /\ taken[q] = Front(q) /\ Front(q)' = Front(q)
          BY <1>8, <1>q, <2>3, <3>1, <3>3 DEF IsrSend, RoomInv, Data, Front
        <4>2. taken'[q] = taken[q] + 1 /\ thr'[q] = taken[q] + 1 /\ taken[q] < put[q]
          BY <2>3, <3>3 DEF TypeOK
        <4> QED BY <1>q, <3>1, <4>1, <4>2 DEF Data
      <3> QED BY <3>2, <3>3
    <2> QED BY <1>8, <2>2, <2>3 DEF IsrSend
  <1>9. CASE tyGSOctalRebootHook
    BY <1>q, <1>1, <1>9 DEF tyGSOctalRebootHook, tyVars, txVars
  <1>10. ASSUME NEW p \in Ports, Load(p)
         PROVE  Data(q)'
    BY <1>q, <1>10 DEF Load, tyVars, Data, Front, TypeOK
  <1>11. ASSUME NEW p \in Ports, ShiftOut(p)
         PROVE  Data(q)'
    BY <1>q, <1>11 DEF ShiftOut, tyVars, Data, Front, TypeOK
  <1>12. ASSUME NEW p \in Ports, Receive(p)
         PROVE  Data(q)'
    BY <1>q, <1>1, <1>12 DEF Receive, tyVars, txVars
  <1>13. CASE UNCHANGED vars
    BY <1>q, <1>1, <1>13 DEF vars, tyVars, txVars
  <1> QED BY <1>2, <1>3, <1>4, <1>5, <1>6, <1>7, <1>8, <1>9, <1>10, <1>11, <1>12, <1>13
    DEF Next, tyGSOctalInt, uart

-----------------------------------------------------------------------------
(* Characters in a ring are going to be sent.                              *)

\* tyGSOctalStartup unmasks the interrupt of a port with characters.
LEMMA StartupWatched ==
  ASSUME TypeOK, NEW p \in Ports, p \in irqEnable, NEW n, NEW t,
         Startup(p, n, t), t = taken[p]
  PROVE  \/ busy'[p] /\ Tx(p) \in imrCopy'
         \/ ~busy'[p] /\ taken'[p] = n
  <1>1. CASE t < n
    BY <1>1 DEF Startup, Tx, TypeOK
  <1> QED BY <1>1 DEF Startup, TypeOK

LEMMA WatchedNext ==
  ASSUME Inv, [Next]_vars
  PROVE  WatchedInv'
  <1> SUFFICES ASSUME NEW q \in Ports, ~rebooted, ~rebooted' PROVE Watched(q)'
    <2>1. rebooted => rebooted'
      BY DEF Next, tyGSOctalDevCreate, tyGSOctalInitChannel, MarkCreated, tyGSOctalWrite, Call,
             LineOn, Lock, Put, Start, tyGSOctalStartup, Unlock, Empty, LineOff, tyGSOctalInt,
             IsrEnter, IsrScan, IsrRead, IsrSend, IsrEnd, tyGSOctalRebootHook, uart, Load,
             ShiftOut, Receive, vars, modVars
    <2> QED BY <2>1 DEF WatchedInv, Watched
  <1> USE OctalAssumption DEF OctalAssumption, Inv
  <1>q. /\ busy[q] => Tx(q) \in imrCopy \/ Starter(q)
        /\ taken[q] < put[q] => Tx(q) \in imrCopy \/ Starting(q)
        /\ put[q] \in Nat /\ taken[q] \in Nat
    BY DEF WatchedInv, Watched, TypeOK
  <1>1. ASSUME busy'[q] => busy[q], UNCHANGED <<taken, put>>,
               Starter(q) => Starter(q)', Starting(q) => Starting(q)',
               Tx(q) \in imrCopy => Tx(q) \in imrCopy'
        PROVE  Watched(q)'
    BY <1>q, <1>1 DEF Watched, Tx
  <1>2. ASSUME NEW p \in Ports, tyGSOctalDevCreate(p)
        PROVE  Watched(q)'
    BY <1>1, <1>2 DEF tyGSOctalDevCreate, tyGSOctalInitChannel, MarkCreated, tyVars, Starter,
                      Starting
  <1>3. ASSUME NEW w \in Writers, tyGSOctalWrite(w), ~Put(w), ~Start(w), ~tyGSOctalStartup(w)
        PROVE  Watched(q)'
    <2>1. pc[w] \notin {"start", "startup"} /\ (\E to : pc' = [pc EXCEPT ![w] = to])
      BY <1>3 DEF tyGSOctalWrite, Call, LineOn, Lock, Unlock, Empty, LineOff, Goto
    <2>2. (Starter(q) => Starter(q)') /\ (Starting(q) => Starting(q)')
      BY <2>1 DEF Starter, Starting, TypeOK
    <2>3. UNCHANGED <<busy, taken, put, imrCopy>>
      BY <1>3 DEF tyGSOctalWrite, Call, LineOn, Lock, Unlock, Empty, LineOff, tyVars
    <2> QED BY <1>1, <2>2, <2>3
  <1>4. ASSUME NEW w \in Writers, Put(w)
        PROVE  Watched(q)'
    <2>1. /\ pc[w] = "loop" /\ pc' = [pc EXCEPT ![w] = "start"]
          /\ put' = [put EXCEPT ![PortOf[w]] = @ + 1]
          /\ UNCHANGED <<busy, taken, imrCopy>>
      BY <1>4 DEF Put, Goto
    <2>2. (Starter(q) => Starter(q)') /\ (Starting(q) => Starting(q)')
      BY <2>1 DEF Starter, Starting, TypeOK
    <2>3. q = PortOf[w] => Starting(q)'
      BY <2>1 DEF Starting, TypeOK
    <2>4. q # PortOf[w] => put'[q] = put[q]
      BY <2>1 DEF TypeOK
    <2> QED BY <1>q, <2>1, <2>2, <2>3, <2>4 DEF Watched, Tx
  <1>5. ASSUME NEW w \in Writers, Start(w)
        PROVE  Watched(q)'
    <2> DEFINE p == PortOf[w]
    <2>1. /\ pc[w] = "start"
          /\ pc' = [pc EXCEPT ![w] = IF busy[p] THEN "loop" ELSE "startup"]
          /\ busy' = [busy EXCEPT ![p] = TRUE]
          /\ UNCHANGED <<put, taken, imrCopy>>
      BY <1>5 DEF Start, Goto
    <2>2. CASE q # p
      <3>1. (Starter(q) => Starter(q)') /\ (Starting(q) => Starting(q)') /\ busy'[q] = busy[q]
        BY <2>1, <2>2 DEF Starter, Starting, TypeOK
      <3> QED BY <1>1, <2>1, <3>1
    <2>3. CASE q = p /\ busy[p]
      <3>1. ~Starter(q)
        BY <2>1, <2>3 DEF Starter, MutexInv
      <3> QED BY <1>q, <2>1, <2>3, <3>1 DEF Watched, Tx
    <2>4. CASE q = p /\ ~busy[p]
      <3>1. Starter(q)' /\ Starting(q)'
        BY <2>1, <2>4 DEF Starter, Starting, TypeOK
      <3> QED BY <3>1 DEF Watched
    <2> QED BY <2>2, <2>3, <2>4
  <1>6. ASSUME NEW w \in Writers, tyGSOctalStartup(w)
        PROVE  Watched(q)'
    <2> DEFINE p == PortOf[w]
    <2>1. /\ pc[w] = "startup" /\ pc' = [pc EXCEPT ![w] = "loop"]
          /\ Startup(p, put[p], taken[p]) /\ put' = put
      BY <1>6 DEF tyGSOctalStartup, Goto
    <2>2. CASE q = p
      <3>1. p \in irqEnable
        BY <2>1 DEF MutexInv, MaskInv
      <3> QED BY <1>q, <2>1, <2>2, <3>1, StartupWatched DEF Watched, Tx
    <2>3. CASE q # p
      <3>1. (Starter(q) => Starter(q)') /\ (Starting(q) => Starting(q)')
        BY <2>1, <2>3 DEF Starter, Starting, TypeOK
      <3>2. /\ busy'[q] = busy[q] /\ taken'[q] = taken[q]
            /\ Tx(q) \in imrCopy => Tx(q) \in imrCopy'
        BY <2>1, <2>3 DEF Startup, Tx, TypeOK
      <3> QED BY <1>q, <2>1, <3>1, <3>2 DEF Watched, Tx
    <2> QED BY <2>2, <2>3
  <1>7. CASE IsrEnter \/ IsrScan \/ IsrEnd
    BY <1>1, <1>7 DEF IsrEnter, IsrScan, IsrEnd, tyVars, Starter, Starting
  <1>8. CASE IsrRead
    <2>1. Current \in Ports /\ Created(Current) /\ pc' = pc
      BY <1>8, CurrentPort DEF IsrRead, ServingInv, Serving
    <2>2. Current \in irqEnable /\ (Starter(q)' <=> Starter(q)) /\ (Starting(q)' <=> Starting(q))
      BY <2>1 DEF MaskInv, Created, Starter, Starting
    <2>3. CASE UNCHANGED <<put, busy, taken, imrCopy>>
      BY <1>1, <2>2, <2>3
    <2>4. CASE /\ busy[Current] /\ UNCHANGED <<busy, taken, imrCopy>>
               /\ put' = [put EXCEPT ![Current] = @ + 1]
      <3>1. CASE q = Current
        <4>1. Starter(q) => Starting(q)
          BY DEF Starter, Starting
        <4> QED BY <1>q, <2>2, <2>4, <3>1, <4>1 DEF Watched, Tx
      <3>2. CASE q # Current
        BY <1>q, <2>2, <2>4, <3>2 DEF Watched, Tx, TypeOK
      <3> QED BY <3>1, <3>2
    <2>5. CASE /\ Startup(Current, put[Current] + 1, taken[Current])
               /\ put' = [put EXCEPT ![Current] = @ + 1]
      <3>1. CASE q = Current
        <4>1. put'[q] = put[q] + 1
          BY <2>5, <3>1 DEF TypeOK
        <4> QED BY <1>q, <2>1, <2>2, <2>5, <3>1, <4>1, StartupWatched DEF Watched, Tx
      <3>2. CASE q # Current
        <4>1. /\ busy'[q] = busy[q] /\ taken'[q] = taken[q] /\ put'[q] = put[q]
              /\ Tx(q) \in imrCopy => Tx(q) \in imrCopy'
          BY <2>5, <3>2 DEF Startup, Tx, TypeOK
        <4> QED BY <1>q, <2>2, <4>1 DEF Watched, Tx
      <3> QED BY <3>1, <3>2
    <2> QED BY <1>8, <2>3, <2>4, <2>5 DEF IsrRead
  <1>9. CASE IsrSend
    <2>1. Current \in Ports /\ pc' = pc /\ put' = put
      BY <1>9, CurrentPort DEF IsrSend
    <2>2. (Starter(q)' <=> Starter(q)) /\ (Starting(q)' <=> Starting(q))
      BY <2>1 DEF Starter, Starting
    <2>3. CASE UNCHANGED <<busy, taken, imrCopy>>
      BY <1>1, <2>1, <2>2, <2>3
    <2>4. CASE /\ taken[Current] < put[Current]
               /\ taken' = [taken EXCEPT ![Current] = @ + 1]
               /\ UNCHANGED <<busy, imrCopy>>
      <3>1. taken'[q] < put[q] => taken[q] < put[q]
        BY <1>q, <2>1, <2>4 DEF TypeOK
      <3> QED BY <1>q, <2>1, <2>2, <2>4, <3>1 DEF Watched, Tx
    <2>5. CASE /\ taken[Current] = put[Current]
               /\ busy' = [busy EXCEPT ![Current] = FALSE]
               /\ imrCopy' = imrCopy \ {Tx(Current)} \/ imrCopy' = imrCopy
               /\ taken' = taken
      <3>1. CASE q = Current
        BY <1>q, <2>1, <2>5, <3>1 DEF Watched, TypeOK
      <3>2. CASE q # Current
        BY <1>q, <2>1, <2>2, <2>5, <3>2 DEF Watched, Tx, TypeOK
      <3> QED BY <3>1, <3>2
    <2> QED BY <1>9, <2>3, <2>4, <2>5 DEF IsrSend, Tx
  <1>10. CASE tyGSOctalRebootHook
    BY <1>10 DEF tyGSOctalRebootHook
  <1>11. ASSUME NEW p \in Ports, uart(p)
         PROVE  Watched(q)'
    BY <1>1, <1>11 DEF uart, Load, ShiftOut, Receive, tyVars, Starter, Starting
  <1>12. CASE UNCHANGED vars
    BY <1>1, <1>12 DEF vars, tyVars, Starter, Starting
  <1> QED BY <1>2, <1>3, <1>4, <1>5, <1>6, <1>7, <1>8, <1>9, <1>10, <1>11, <1>12
    DEF Next, tyGSOctalInt

-----------------------------------------------------------------------------
(* The invariant, and what follows from it.                                *)

LEMMA InitInv == Init => Inv
  <1> SUFFICES ASSUME Init PROVE Inv
    OBVIOUS
  <1>1. TypeOK /\ ServingInv
    BY InitTypes
  <1>2. MutexInv /\ MaskInv /\ RoomInv
    BY OctalAssumption DEF OctalAssumption, Init, MutexInv, MaskInv, RoomInv
  <1>3. IdleInv
    BY DEF Init, IdleInv, Idle, Starter
  <1>4. DataInv
    BY DEF Init, DataInv, Data, Front
  <1>5. WatchedInv
    BY DEF Init, WatchedInv, Watched
  <1> QED BY <1>1, <1>2, <1>3, <1>4, <1>5 DEF Inv

LEMMA NextInv ==
  ASSUME Inv, [Next]_vars
  PROVE  Inv'
  BY TypesNext, ServingNext, MutexNext, MaskNext, IdleNext, RoomNext, DataNext, WatchedNext
  DEF Inv

LEMMA Invariance == Spec => []Inv
  BY InitInv, NextInv, PTL DEF Spec

\* Every variable of the driver keeps its type.
THEOREM TypesSafe == Spec => []TypeOK
  <1>1. Inv => TypeOK
    BY DEF Inv
  <1> QED BY <1>1, Invariance, PTL

\* A character in a ring has the transmit interrupt unmasked or a writer about to
\* start the transmitter, as long as nobody reboots: no character is stuck.
THEOREM ArmedSafe == Spec => []Armed
  <1>1. Inv => Armed
    BY DEF Inv, WatchedInv, Watched, MaskInv, Armed, Starting, Tx
  <1> QED BY <1>1, Invariance, PTL

-----------------------------------------------------------------------------
(* Every port is a serial line.                                            *)

LEMMA LineStep ==
  ASSUME Inv, [Next]_vars
  PROVE  Line!Next \/ UNCHANGED <<put, sent>>
  <1>1. ASSUME NEW p \in Ports, tyGSOctalDevCreate(p)
        PROVE  UNCHANGED <<put, sent>>
    BY <1>1 DEF tyGSOctalDevCreate, tyGSOctalInitChannel, MarkCreated, tyVars, txVars
  <1>2. ASSUME NEW w \in Writers, tyGSOctalWrite(w), ~Put(w)
        PROVE  UNCHANGED <<put, sent>>
    BY <1>2 DEF tyGSOctalWrite, Call, LineOn, Lock, Start, tyGSOctalStartup, Unlock, Empty,
                LineOff, tyVars, txVars
  <1>3. ASSUME NEW w \in Writers, Put(w)
        PROVE  Line!Next
    <2>1. PortOf[w] \in Ports
      BY OctalAssumption DEF OctalAssumption
    <2>2. Line!Accept(PortOf[w])
      BY <1>3 DEF Put, txVars, Line!Accept
    <2> QED BY <2>1, <2>2 DEF Line!Next
  <1>4. CASE IsrEnter \/ IsrScan \/ IsrSend \/ IsrEnd \/ tyGSOctalRebootHook \/ UNCHANGED vars
    BY <1>4 DEF IsrEnter, IsrScan, IsrSend, IsrEnd, tyGSOctalRebootHook, vars, tyVars, txVars
  <1>5. CASE IsrRead
    <2>1. Current \in Ports
      BY CurrentPort DEF Inv
    <2>2. CASE put' = [put EXCEPT ![Current] = @ + 1]
      <3>1. Line!Accept(Current)
        BY <1>5, <2>2 DEF IsrRead, Line!Accept
      <3> QED BY <2>1, <3>1 DEF Line!Next
    <2> QED BY <1>5, <2>2 DEF IsrRead
  <1>6. ASSUME NEW p \in Ports, ShiftOut(p)
        PROVE  Line!Next
    <2>1. /\ shift[p] # 0 /\ sent' = [sent EXCEPT ![p] = shift[p]] /\ put' = put
          /\ shift[p] \in Nat /\ thr[p] \in Nat /\ sent[p] \in Nat /\ put[p] \in Nat
      BY <1>6 DEF ShiftOut, tyVars, Inv, TypeOK
    <2>2. /\ shift[p] = sent[p] + 1 /\ (thr[p] # 0 => thr[p] = shift[p] + 1)
          /\ taken[p] = (IF thr[p] # 0 THEN thr[p] ELSE shift[p])
          /\ taken[p] <= put[p]
      BY <2>1 DEF Inv, DataInv, Data, Front
    <2>3. sent[p] < put[p]
      BY <2>1, <2>2
    <2>4. Line!Emit(p)
      BY <2>1, <2>2, <2>3 DEF Line!Emit
    <2> QED BY <2>4 DEF Line!Next
  <1>7. ASSUME NEW p \in Ports, Load(p) \/ Receive(p)
        PROVE  UNCHANGED <<put, sent>>
    BY <1>7 DEF Load, Receive, tyVars, txVars
  <1> QED BY <1>1, <1>2, <1>3, <1>4, <1>5, <1>6, <1>7 DEF Next, tyGSOctalInt, uart

\* The driver implements a serial line on every port: the characters that went
\* into the ring go out one by one and in order, whatever starts the transmitter.
THEOREM NothingLostSafe == Spec => NothingLost
  <1>1. Init => Line!Init
    BY DEF Init, Line!Init
  <1>2. Inv /\ [Next]_vars => [Line!Next]_<<put, sent>>
    BY LineStep
  <1> QED BY <1>1, <1>2, Invariance, PTL DEF Spec, NothingLost, Line!Spec

-----------------------------------------------------------------------------
(* One writer a port keeps the line driven.                                *)

SoleWriters == \A v, w \in Writers : PortOf[v] = PortOf[w] => v = w

\* A writer between switching the line driver on and finding the transmitter empty.
Using(p) ==
  \E w \in Writers :
    PortOf[w] = p /\ pc[w] \in {"lock", "loop", "start", "startup", "empty"}

\* Whoever may put a character into the transmitter has the line driver on; a
\* writer that is about to turn the line round leaves nobody who may.
Driven(p) ==
  mode = "RS485" =>
    /\ \/ thr[p] # 0 \/ shift[p] # 0 \/ Using(p) \/ (busy[p] /\ ~rebooted)
       => rts[p]
    /\ \A w \in Writers :
         PortOf[w] = p /\ pc[w] = "over" =>
           thr[p] = 0 /\ shift[p] = 0 /\ (~busy[p] \/ rebooted)

DrivenInv == \A p \in Ports : Driven(p)

LEMMA InitDriven == Init => DrivenInv
  BY DEF Init, DrivenInv, Driven, Using

LEMMA DrivenNext ==
  ASSUME SoleWriters, Inv, DrivenInv, [Next]_vars
  PROVE  DrivenInv'
  <1> SUFFICES ASSUME NEW q \in Ports, mode' = "RS485" PROVE Driven(q)'
    BY DEF DrivenInv, Driven
  <1> USE OctalAssumption DEF OctalAssumption, Inv
  <1>m. mode = "RS485"
    BY DEF Next, tyGSOctalDevCreate, tyGSOctalInitChannel, MarkCreated, tyGSOctalWrite, Call,
           LineOn, Lock, Put, Start, tyGSOctalStartup, Unlock, Empty, LineOff, tyGSOctalInt,
           IsrEnter, IsrScan, IsrRead, IsrSend, IsrEnd, tyGSOctalRebootHook, uart, Load,
           ShiftOut, Receive, vars, modVars
  <1>q. Driven(q)
    BY DEF DrivenInv
  <1>1. ASSUME UNCHANGED <<thr, shift, pc, rts>>,
               rebooted => rebooted', busy'[q] => busy[q]
        PROVE  Driven(q)'
    BY <1>m, <1>q, <1>1 DEF Driven, Using
  <1>2. ASSUME NEW p \in Ports, tyGSOctalDevCreate(p)
        PROVE  Driven(q)'
    BY <1>1, <1>2 DEF tyGSOctalDevCreate, tyGSOctalInitChannel, MarkCreated, tyVars, txVars
  <1>3. ASSUME NEW w \in Writers, tyGSOctalWrite(w), PortOf[w] # q
        PROVE  Driven(q)'
    <2>1. pc' = [pc EXCEPT ![w] = pc'[w]] /\ UNCHANGED <<rebooted, shift>>
      BY <1>3 DEF tyGSOctalWrite, Call, LineOn, Lock, Put, Start, tyGSOctalStartup, Unlock,
                  Empty, LineOff, Goto, modVars, txVars, TypeOK
    <2>2. busy'[q] = busy[q] /\ thr'[q] = thr[q] /\ rts'[q] = rts[q]
      BY <1>3 DEF tyGSOctalWrite, Call, LineOn, Lock, Put, Start, tyGSOctalStartup, Startup,
                  Unlock, Empty, LineOff, tyVars, txVars, TypeOK
    <2>3. (Using(q)' <=> Using(q))
      BY <1>3, <2>1 DEF Using, TypeOK
    <2>4. \A v \in Writers : PortOf[v] = q => pc'[v] = pc[v]
      BY <1>3, <2>1 DEF TypeOK
    <2> QED BY <1>m, <1>q, <2>1, <2>2, <2>3, <2>4 DEF Driven
  <1>4. ASSUME NEW w \in Writers, Call(w), PortOf[w] = q
        PROVE  Driven(q)'
    <2>1. /\ pc' = [pc EXCEPT ![w] = "on"]
          /\ UNCHANGED <<rebooted, shift, thr, busy, rts>>
      BY <1>m, <1>4 DEF Call, Goto, modVars, tyVars, txVars
    <2>2. Using(q)' => Using(q)
      BY <2>1 DEF Using, TypeOK
    <2>3. \A v \in Writers : pc'[v] = "over" => pc[v] = "over"
      BY <2>1 DEF TypeOK
    <2> QED BY <1>m, <1>q, <2>1, <2>2, <2>3 DEF Driven
  <1>5. ASSUME NEW w \in Writers, LineOn(w), PortOf[w] = q
        PROVE  Driven(q)'
    <2>1. rts'[q] /\ pc' = [pc EXCEPT ![w] = "lock"] /\ UNCHANGED <<rebooted, shift, thr, busy>>
      BY <1>5 DEF LineOn, Goto, modVars, tyVars, txVars, TypeOK
    <2>2. \A v \in Writers : pc'[v] = "over" => pc[v] = "over"
      BY <2>1 DEF TypeOK
    <2> QED BY <1>m, <1>q, <2>1, <2>2 DEF Driven
  <1>6. ASSUME NEW w \in Writers, PortOf[w] = q,
               Lock(w) \/ Put(w) \/ Start(w) \/ tyGSOctalStartup(w) \/ Unlock(w)
        PROVE  Driven(q)'
    <2>1. /\ pc[w] \in {"lock", "loop", "start", "startup"} /\ rts' = rts
          /\ \E to \in {"loop", "start", "startup", "empty"} : pc' = [pc EXCEPT ![w] = to]
      BY <1>m, <1>6 DEF Lock, Put, Start, tyGSOctalStartup, Unlock, Goto
    <2>2. rts'[q]
      BY <1>m, <1>q, <1>6, <2>1 DEF Driven, Using
    <2>3. \A v \in Writers : PortOf[v] = q => pc'[v] # "over"
      BY <1>6, <2>1 DEF SoleWriters, TypeOK
    <2> QED BY <2>2, <2>3 DEF Driven
  <1>7. ASSUME NEW w \in Writers, Empty(w), PortOf[w] = q
        PROVE  Driven(q)'
    <2>1. /\ pc[w] = "empty" /\ pc' = [pc EXCEPT ![w] = "over"] /\ TaskRuns
          /\ thr[q] = 0 /\ shift[q] = 0
          /\ UNCHANGED <<thr, shift, busy, rts, rebooted>>
      BY <1>7 DEF Empty, Goto, modVars, tyVars, txVars
    <2>2. CASE ~rebooted
      <3>1. create[q] = "created"
        BY <1>7, <2>1 DEF MutexInv
      <3>2. Tx(q) \notin imr
        <4>1. "tx" \in Raised(q)
          BY <2>1, <3>1 DEF Raised, Kinds
        <4>2. ~Pending
          BY <2>1 DEF TaskRuns
        <4> QED BY <2>2, <4>1, <4>2 DEF Pending, Tx
      <3>3. ~Starter(q)
        BY <1>7, <2>1 DEF Starter, SoleWriters
      <3>4. ~busy[q]
        BY <2>2, <3>2, <3>3 DEF MaskInv, WatchedInv, Watched
      <3>5. Using(q)
        BY <1>7, <2>1 DEF Using
      <3> QED BY <1>m, <1>q, <2>1, <3>4, <3>5 DEF Driven
    <2>3. CASE rebooted
      <3>1. Using(q)
        BY <1>7, <2>1 DEF Using
      <3> QED BY <1>m, <1>q, <2>1, <2>3, <3>1 DEF Driven
    <2> QED BY <2>2, <2>3
  <1>8. ASSUME NEW w \in Writers, LineOff(w), PortOf[w] = q
        PROVE  Driven(q)'
    <2>1. /\ pc[w] = "over" /\ pc' = [pc EXCEPT ![w] = "idle"]
          /\ UNCHANGED <<thr, shift, busy, rebooted>>
      BY <1>8 DEF LineOff, Goto, modVars, tyVars, txVars
    <2>2. thr[q] = 0 /\ shift[q] = 0 /\ (~busy[q] \/ rebooted)
      BY <1>m, <1>q, <1>8, <2>1 DEF Driven
    <2>3. ~Using(q)' /\ (\A v \in Writers : PortOf[v] = q => pc'[v] # "over")
      BY <1>8, <2>1 DEF Using, SoleWriters, TypeOK
    <2> QED BY <2>1, <2>2, <2>3 DEF Driven
  <1>9. CASE IsrEnter \/ IsrScan \/ IsrEnd
    BY <1>1, <1>9 DEF IsrEnter, IsrScan, IsrEnd, modVars, tyVars, txVars
  <1>10. CASE IsrRead
    <2>1. UNCHANGED <<thr, busy>>
      BY <1>m, <1>10 DEF IsrRead
    <2> QED BY <1>1, <1>10, <2>1 DEF IsrRead, modVars
  <1>11. CASE IsrSend
    <2>1. Current \in Ports /\ UNCHANGED <<shift, pc, rts, rebooted>> /\ ~rebooted
      BY <1>11, CurrentPort DEF IsrSend, modVars, rxVars, MaskInv
    <2>2. CASE thr' = thr
      <3>1. busy'[q] => busy[q]
        BY <1>11, <2>1 DEF IsrSend, TypeOK
      <3> QED BY <1>1, <2>1, <2>2, <3>1
    <2>3. CASE /\ "tx" \in work
               /\ thr' = [thr EXCEPT ![Current] = taken'[Current]]
               /\ busy' = busy
      <3>1. CASE q = Current
        <4>1. busy[q]
          BY <1>11, <2>3, <3>1 DEF IsrSend, IdleInv, Idle
        <4>2. rts[q] /\ (\A v \in Writers : PortOf[v] = q => pc[v] # "over")
          BY <1>m, <1>q, <2>1, <4>1 DEF Driven
        <4> QED BY <2>1, <4>2 DEF Driven
      <3>2. CASE q # Current
        <4>1. thr'[q] = thr[q]
          BY <2>3, <3>2 DEF TypeOK
        <4> QED BY <1>m, <1>q, <2>1, <2>3, <4>1 DEF Driven, Using
      <3> QED BY <3>1, <3>2
    <2> QED BY <1>11, <2>2, <2>3 DEF IsrSend
  <1>12. CASE tyGSOctalRebootHook
    BY <1>1, <1>12 DEF tyGSOctalRebootHook, tyVars, txVars
  <1>13. ASSUME NEW p \in Ports, Load(p) \/ ShiftOut(p)
         PROVE  Driven(q)'
    <2>1. /\ UNCHANGED <<pc, rts, busy, rebooted>>
          /\ thr'[q] # 0 \/ shift'[q] # 0 => thr[q] # 0 \/ shift[q] # 0
      BY <1>13 DEF Load, ShiftOut, modVars, tyVars, TypeOK
    <2> QED BY <1>m, <1>q, <2>1 DEF Driven, Using
  <1>14. ASSUME NEW p \in Ports, Receive(p)
         PROVE  Driven(q)'
    BY <1>1, <1>14 DEF Receive, modVars, tyVars, txVars
  <1>15. CASE UNCHANGED vars
    BY <1>1, <1>15 DEF vars, modVars, tyVars, txVars
  <1> QED BY <1>2, <1>3, <1>4, <1>5, <1>6, <1>7, <1>8, <1>9, <1>10, <1>11, <1>12, <1>13,
             <1>14, <1>15
    DEF Next, tyGSOctalWrite, tyGSOctalInt, uart

\* With at most one writer to a port, the RS-485 line driver is on while the
\* transmitter holds a character: the spin on TxEMT waits for the whole write.
THEOREM LineDrivenSafe == SoleWriters /\ Spec => []LineDriven
  <1>1. DrivenInv => LineDriven
    BY DEF DrivenInv, Driven, LineDriven
  <1>2. SoleWriters /\ Inv /\ DrivenInv /\ [Next]_vars => DrivenInv'
    BY DrivenNext
  <1>3. CASE SoleWriters
    <2>1. Inv /\ DrivenInv /\ [Next]_vars => DrivenInv'
      BY <1>2, <1>3
    <2> QED BY <1>1, <2>1, InitDriven, Invariance, PTL DEF Spec
  <1>4. CASE ~SoleWriters
    BY <1>4
  <1> QED BY <1>3, <1>4

=============================================================================
