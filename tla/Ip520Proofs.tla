----------------------------- MODULE Ip520Proofs -----------------------------
(***************************************************************************)
(* Theorems about Ip520, for any number of ports, any FIFO and ring size,  *)
(* and any settings that are asked for.                                    *)
(***************************************************************************)
EXTENDS Ip520, SequenceTheorems, TLAPS

USE DEF Ports

-----------------------------------------------------------------------------
(* The settings of a port.                                                 *)

Divisors == {Divisor[b] : b \in DOMAIN Divisor}
Options == Opts \cup {CS8}

DevType == [baud : Nat, opts : Options]
RegType == [lcr : 0 .. 255, saved : 0 .. 255, efr : BOOLEAN, fifo : BOOLEAN, flow : BOOLEAN,
            trigger : {8, 16, 56, 60}, div4 : BOOLEAN, divisor : Divisors \cup {0}]

\* The divisor is the one of the noted rate, which has one.
Timed(s) == s.dev.baud \in DOMAIN Divisor /\ s.reg.divisor = Divisor[s.dev.baud]

\* Everything but the divisor is what the noted options and rate ask for.
Opted(s) ==
  /\ s.reg.lcr = s.dev.opts.bits /\ s.reg.flow = ~s.dev.opts.local /\ s.reg.fifo /\ ~s.reg.efr
  /\ s.reg.trigger = Trigger(s.dev.baud, s.reg.flow)

SettingsInv ==
  /\ create \in [Ports -> {"new", "init", "created"}]
  /\ dev \in [Ports -> DevType] /\ reg \in [Ports -> RegType]
  /\ \A p \in Ports : IF create[p] = "new" THEN dev[p].baud = 0
                      ELSE Timed(Settings(p)) /\ Opted(Settings(p))

\* Opening and closing the bank of the enhanced registers, field by field.
LEMMA BankOpen ==
  ASSUME NEW r \in RegType
  PROVE  /\ EFROn(r) \in RegType
         /\ EFROn(r).saved = r.lcr /\ EFROn(r).lcr = EFRBank /\ EFROn(r).efr = TRUE
         /\ EFROn(r).fifo = r.fifo /\ EFROn(r).trigger = r.trigger /\ EFROn(r).divisor = r.divisor
<1>1. EFRBank \in 0 .. 255 /\ r.lcr \in 0 .. 255
  BY DEF EFRBank, RegType
<1> QED BY <1>1 DEF EFROn, RegType

LEMMA BankClosed ==
  ASSUME NEW r \in RegType
  PROVE  /\ EFROff(r) \in RegType
         /\ EFROff(r).lcr = r.saved /\ (r.lcr = EFRBank => EFROff(r).efr = FALSE)
         /\ EFROff(r).fifo = r.fifo /\ EFROff(r).trigger = r.trigger /\ EFROff(r).divisor = r.divisor
         /\ EFROff(r).flow = r.flow
<1>1. PICK b \in BOOLEAN : b = (r.lcr # EFRBank)
  OBVIOUS
<1>2. EFROff(r) = [r EXCEPT !.efr = b, !.lcr = r.saved]
  BY <1>1, Zenon DEF EFROff
<1>3. r.saved \in 0 .. 255
  BY DEF RegType
<1>4. /\ EFROff(r) \in RegType /\ EFROff(r).lcr = r.saved /\ EFROff(r).efr = b
      /\ EFROff(r).fifo = r.fifo /\ EFROff(r).trigger = r.trigger /\ EFROff(r).divisor = r.divisor
      /\ EFROff(r).flow = r.flow
  BY <1>2, <1>3 DEF RegType
<1>5. r.lcr = EFRBank => b = FALSE
  BY <1>1
<1> QED BY <1>4, <1>5

LEMMA OptionTypes == /\ Options \subseteq [bits : 0 .. 255, local : BOOLEAN]
                     /\ CS8 \in Options
<1>1. CS8 \in [bits : 0 .. 255, local : BOOLEAN]
  BY DEF CS8
<1>2. Opts \subseteq [bits : 0 .. 255, local : BOOLEAN]
  BY Ip520Assumption DEF Ip520Assumption
<1> QED BY <1>1, <1>2 DEF Options

LEMMA DivisorRates == 9600 \in DOMAIN Divisor /\ DOMAIN Divisor \subseteq Nat /\ 0 \notin DOMAIN Divisor
  BY DEF Divisor

SetType == [dev : DevType, reg : RegType]

LEMMA ClockSet ==
  ASSUME NEW r \in RegType, NEW baud \in Nat
  PROVE  SetClock(r, baud) \in RegType /\ SetClock(r, baud).divisor = r.divisor
<1> DEFINE fast == baud = 57600
           on  == [EFROn(r) EXCEPT !.lcr = r.lcr]
           set == [on EXCEPT !.div4 = IF on.efr THEN fast ELSE @]
<1>2. SetClock(r, baud) = EFROff(set)
  BY DEF SetClock
<1>4. fast \in BOOLEAN
  OBVIOUS
<1> HIDE DEF fast
<1>1. on \in RegType /\ on.divisor = r.divisor /\ on.efr = TRUE
  <2>1. r.lcr \in 0 .. 255
    BY DEF RegType
  <2>2. EFROn(r) \in RegType /\ EFROn(r).efr = TRUE /\ EFROn(r).divisor = r.divisor
    BY BankOpen
  <2>3. on \in RegType /\ on.divisor = r.divisor
    BY <2>1, <2>2 DEF RegType
  <2>4. on.efr = EFROn(r).efr
    BY <2>1, <2>2 DEF RegType
  <2> HIDE DEF on
  <2> QED BY <2>2, <2>3, <2>4
<1> HIDE DEF on
<1>3. set \in RegType /\ set.divisor = r.divisor
  <2>1. set = [on EXCEPT !.div4 = fast]
    BY <1>1
  <2> QED BY <1>1, <1>4, <2>1 DEF RegType
<1> HIDE DEF set
<1> QED BY <1>2, <1>3, BankClosed

\* IP520BaudSet keeps a port with a rate on that rate or moves it to the new one;
\* from a port without a rate it needs one that is supported.
LEMMA BaudSet ==
  ASSUME NEW s \in SetType, NEW baud \in Nat, Timed(s) \/ (baud \in DOMAIN Divisor /\ s.dev.baud = 0)
  PROVE  /\ IP520BaudSet(s, baud) \in SetType
         /\ Timed(IP520BaudSet(s, baud))
<1> DEFINE off == SetClock(s.reg, baud)
<1>1. off \in RegType /\ off.divisor = s.reg.divisor
  BY ClockSet DEF SetType
<1>2. \/ s.dev.baud = baud /\ IP520BaudSet(s, baud) = s
      \/ /\ s.dev.baud # baud /\ baud \in DOMAIN Divisor
         /\ IP520BaudSet(s, baud) = [dev |-> [s.dev EXCEPT !.baud = baud],
                                     reg |-> [off EXCEPT !.divisor = Divisor[baud]]]
      \/ /\ s.dev.baud # baud /\ baud \notin DOMAIN Divisor
         /\ IP520BaudSet(s, baud) = [s EXCEPT !.reg = off]
  BY DEF IP520BaudSet
<1> HIDE DEF off, Divisor
<1>3. CASE s.dev.baud = baud
  BY <1>2, <1>3, DivisorRates
<1>4. CASE s.dev.baud # baud /\ baud \in DOMAIN Divisor
  <2>1. Divisor[baud] \in Divisors
    BY <1>4 DEF Divisors
  <2> QED BY <1>1, <1>2, <1>4, <2>1 DEF SetType, DevType, RegType, Timed
<1>5. CASE s.dev.baud # baud /\ baud \notin DOMAIN Divisor
  BY <1>1, <1>2, <1>5 DEF SetType, Timed
<1> QED BY <1>3, <1>4, <1>5

LEMMA OptsSet ==
  ASSUME NEW s \in SetType, Timed(s), NEW opts \in Options
  PROVE  /\ IP520OptsSet(s, opts) \in SetType
         /\ Timed(IP520OptsSet(s, opts)) /\ Opted(IP520OptsSet(s, opts))
<1> DEFINE t  == Trigger(s.dev.baud, ~opts.local)
           r0 == [s.reg EXCEPT !.lcr = opts.bits, !.fifo = TRUE, !.trigger = t]
           r1 == EFROn(r0)
           r2 == [r1 EXCEPT !.flow = ~opts.local]
           r3 == EFROff(r2)
<1>1. opts.bits \in 0 .. 255 /\ opts.local \in BOOLEAN
  BY OptionTypes
<1>2. t \in {8, 16, 56, 60}
  BY <1>1 DEF Trigger, SetType, DevType
<1> HIDE DEF t
<1>3. r0 \in RegType /\ r0.lcr = opts.bits /\ r0.fifo = TRUE /\ r0.trigger = t /\ r0.divisor = s.reg.divisor
  BY <1>1, <1>2 DEF SetType, RegType
<1> HIDE DEF r0
<1>4. /\ r1 \in RegType /\ r1.saved = opts.bits /\ r1.lcr = EFRBank /\ r1.fifo = TRUE /\ r1.trigger = t
      /\ r1.divisor = s.reg.divisor
  BY <1>3, BankOpen
<1> HIDE DEF r1
<1>5. /\ r2 \in RegType /\ r2.saved = opts.bits /\ r2.lcr = EFRBank /\ r2.fifo = TRUE /\ r2.trigger = t
      /\ r2.divisor = s.reg.divisor /\ r2.flow = ~opts.local
  <2>1. PICK b \in BOOLEAN : b = ~opts.local
    BY <1>1, Zenon
  <2>2. r2 = [r1 EXCEPT !.flow = b]
    BY <2>1, Zenon
  <2>3. r2 \in RegType /\ r2.flow = b
    BY <1>4, <2>2 DEF RegType
  <2>4. r2.saved = r1.saved /\ r2.lcr = r1.lcr /\ r2.fifo = r1.fifo /\ r2.trigger = r1.trigger /\ r2.divisor = r1.divisor
    BY <1>4, <2>2 DEF RegType
  <2>5. r2.flow = ~opts.local
    BY <2>1, <2>3, Zenon
  <2> HIDE DEF r2
  <2> QED BY <1>4, <2>3, <2>4, <2>5
<1> HIDE DEF r2
<1>6. /\ r3 \in RegType /\ r3.lcr = opts.bits /\ r3.fifo = TRUE /\ r3.efr = FALSE /\ r3.trigger = t
      /\ r3.divisor = s.reg.divisor /\ r3.flow = ~opts.local
  BY <1>5, BankClosed
<1>7. IP520OptsSet(s, opts) = [dev |-> [s.dev EXCEPT !.opts = opts], reg |-> r3]
  BY DEF IP520OptsSet, r3, r2, r1, r0, t
<1> HIDE DEF r3
<1>8. [s.dev EXCEPT !.opts = opts] \in DevType
  BY DEF SetType, DevType
<1> HIDE DEF Divisor, Options
<1> QED BY <1>6, <1>7, <1>8 DEF SetType, DevType, Timed, Opted, t

\* The settings of one port are written, and it counts as a port that has some.
LEMMA WrittenStep ==
  ASSUME SettingsInv, NEW p \in Ports, NEW s \in SetType, Written(p, s), Timed(s), Opted(s),
         (create' = create /\ create[p] # "new") \/ create' = [create EXCEPT ![p] = "init"]
  PROVE  SettingsInv'
<1>1. dev' \in [Ports -> DevType] /\ reg' \in [Ports -> RegType]
  BY DEF SettingsInv, Written, SetType
<1>2. create' \in [Ports -> {"new", "init", "created"}] /\ create'[p] # "new"
  BY DEF SettingsInv
<1>3. ASSUME NEW q \in Ports
      PROVE  IF create'[q] = "new" THEN dev'[q].baud = 0 ELSE Timed(Settings(q)') /\ Opted(Settings(q)')
  <2>1. CASE q = p
    <3>1. Settings(q)' = [dev |-> s.dev, reg |-> s.reg]
      BY <2>1 DEF Settings, Written, SettingsInv
    <3>2. Settings(q)' = s
      BY <3>1 DEF SetType
    <3> QED BY <1>2, <2>1, <3>2
  <2>2. CASE q # p
    <3>1. dev'[q] = dev[q] /\ reg'[q] = reg[q] /\ create'[q] = create[q]
      BY <2>2 DEF Written, SettingsInv
    <3> QED BY <3>1 DEF Settings, SettingsInv
  <2> QED BY <2>1, <2>2
<1> QED BY <1>1, <1>2, <1>3 DEF SettingsInv, Timed, Opted, Settings

LEMMA SettingsInit == Init => SettingsInv
<1>1. Reset \in RegType
  BY DEF Reset, RegType
<1>2. [baud |-> 0, opts |-> CS8] \in DevType
  BY OptionTypes DEF DevType
<1> QED BY <1>1, <1>2 DEF Init, SettingsInv

LEMMA SettingsStep == SettingsInv /\ [Next]_vars => SettingsInv'
<1> SUFFICES ASSUME SettingsInv, [Next]_vars PROVE SettingsInv'
  OBVIOUS
<1> USE DEF tyVars, setVars, txVars, rxVars, isrVars
<1>1. ASSUME UNCHANGED <<create, dev, reg>>
      PROVE  SettingsInv'
  BY <1>1 DEF SettingsInv, Timed, Opted, Settings
<1>2. ASSUME NEW p \in Ports
      PROVE  Settings(p) \in SetType /\ (create[p] # "new" => Timed(Settings(p)))
  BY DEF SettingsInv, Settings, SetType
<1>3. ASSUME NEW p \in Ports, IP520InitChannel(p)
      PROVE  SettingsInv'
  <2>1. Settings(p).dev.baud = 0
    BY <1>3 DEF IP520InitChannel, SettingsInv, Settings
  <2>2. IP520BaudSet(Settings(p), 9600) \in SetType /\ Timed(IP520BaudSet(Settings(p), 9600))
    BY <1>2, <2>1, BaudSet, DivisorRates
  <2> DEFINE s == IP520OptsSet(IP520BaudSet(Settings(p), 9600), CS8)
  <2>3. s \in SetType /\ Timed(s) /\ Opted(s)
    BY <2>2, OptsSet, OptionTypes
  <2>4. Written(p, s) /\ create' = [create EXCEPT ![p] = "init"]
    BY <1>3 DEF IP520InitChannel
  <2> HIDE DEF s
  <2> QED BY <2>3, <2>4, WrittenStep
<1>4. ASSUME NEW p \in Ports, MarkCreated(p)
      PROVE  SettingsInv'
  BY <1>4 DEF MarkCreated, SettingsInv, Timed, Opted, Settings
<1>5. ASSUME NEW p \in Ports, IP520Ioctl(p)
      PROVE  SettingsInv'
  <2>1. create[p] # "new" /\ create' = create
    BY <1>5 DEF IP520Ioctl, Tune
  <2>2. ASSUME NEW b \in Bauds, Written(p, IP520OptsSet(IP520BaudSet(Settings(p), b), dev[p].opts))
        PROVE  SettingsInv'
    <3>1. b \in Nat /\ dev[p].opts \in Options
      BY Ip520Assumption DEF Ip520Assumption, SettingsInv, DevType
    <3> QED BY <1>2, <2>1, <2>2, <3>1, BaudSet, OptsSet, WrittenStep
  <2>3. ASSUME NEW o \in Opts, Written(p, IP520OptsSet(Settings(p), o))
        PROVE  SettingsInv'
    BY <1>2, <2>1, <2>3, OptsSet, WrittenStep DEF Options
  <2> QED BY <1>5, <2>2, <2>3 DEF IP520Ioctl
<1>6. ASSUME NEW p \in Ports, IP520Config(p)
      PROVE  SettingsInv'
  <2>1. create[p] # "new" /\ create' = create
    BY <1>6 DEF IP520Config, Tune
  <2>2. PICK b \in Bauds, o \in Opts : Written(p, IP520OptsSet(IP520BaudSet(Settings(p), b), o))
    BY <1>6 DEF IP520Config
  <2>3. b \in Nat
    BY Ip520Assumption DEF Ip520Assumption
  <2> QED BY <1>2, <2>1, <2>2, <2>3, BaudSet, OptsSet, WrittenStep DEF Options
<1>7. ASSUME NEW p \in Ports, IP520Write(p) \/ Load(p) \/ ShiftOut(p) \/ Receive(p)
      PROVE  SettingsInv'
  BY <1>1, <1>7 DEF IP520Write, Put, Start, Startup, Goto, Load, ShiftOut, Receive
<1>8. CASE IP520Int
  BY <1>1, <1>8 DEF IP520Int, IsrEnter, IsrLook, IsrRead, IsrSend
<1>9. CASE UNCHANGED vars
  BY <1>1, <1>9 DEF vars
<1> QED BY <1>3, <1>4, <1>5, <1>6, <1>7, <1>8, <1>9 DEF Next, IP520DevCreate

\* After any sequence of rate and option calls, refused rates included, the UART
\* is set as the driver has noted (IP520BaudSet, IP520OptsSet).
THEOREM SettingsAreNoted == Spec => []SettingsHold
<1>1. SettingsInv => SettingsHold
  BY DEF SettingsInv, SettingsHold, Timed, Opted, Settings
<1> QED BY <1>1, SettingsInit, SettingsStep, PTL DEF Spec

-----------------------------------------------------------------------------
(* The characters of a port.                                               *)

\* Those after a, up to b.
Run(a, b) == [i \in 1 .. b - a |-> a + i]

LEMMA RunFacts ==
  ASSUME NEW a \in Nat, NEW b \in Nat, a <= b
  PROVE  /\ Run(a, b) \in Seq(Nat) /\ Len(Run(a, b)) = b - a
         /\ (Run(a, b) = <<>> <=> a = b)
         /\ a < b => Head(Run(a, b)) = a + 1 /\ Tail(Run(a, b)) = Run(a + 1, b)
<1>1. Run(a, b) \in Seq(Nat) /\ Len(Run(a, b)) = b - a
  BY DEF Run
<1>2. Run(a, b) = <<>> <=> a = b
  BY <1>1, EmptySeq
<1>3. ASSUME a < b
      PROVE  Head(Run(a, b)) = a + 1 /\ Tail(Run(a, b)) = Run(a + 1, b)
  <2>1. Head(Run(a, b)) = a + 1
    BY <1>1, <1>3 DEF Run
  <2>2. /\ Tail(Run(a, b)) \in Seq(Nat) /\ Len(Tail(Run(a, b))) = (b - a) - 1
        /\ \A i \in 1 .. (b - a) - 1 : Tail(Run(a, b))[i] = Run(a, b)[i + 1]
    BY <1>1, <1>2, <1>3, HeadTailProperties
  <2>3. Run(a + 1, b) \in Seq(Nat) /\ Len(Run(a + 1, b)) = (b - a) - 1
    BY <1>3 DEF Run
  <2>4. ASSUME NEW i \in 1 .. (b - a) - 1
        PROVE  Run(a, b)[i + 1] = Run(a + 1, b)[i]
    BY <1>3 DEF Run
  <2>5. Tail(Run(a, b)) = Run(a + 1, b)
    BY <2>2, <2>3, <2>4, SeqEqual
  <2> QED BY <2>1, <2>5
<1> QED BY <1>1, <1>2, <1>3

LEMMA RunEmpty == \A a \in Nat : Run(a, a) = <<>>
  BY RunFacts

Types ==
  /\ create \in [Ports -> {"new", "init", "created"}] /\ pc \in [Ports -> {"idle", "start", "startup"}]
  /\ put \in [Ports -> Nat] /\ taken \in [Ports -> Nat] /\ sent \in [Ports -> Nat] /\ shift \in [Ports -> Nat]
  /\ tx \in [Ports -> Seq(Nat)] /\ rx \in [Ports -> Nat] /\ received \in Nat
  /\ ier \in [Ports -> SUBSET {"rx", "tx"}] /\ tuned \in 0 .. TuneLimit
  /\ isr \in {"off", "look", "serve"} /\ scan \in 0 .. LastPort + 1
  /\ saw \in [tx : BOOLEAN, empty : BOOLEAN, data : BOOLEAN, work : BOOLEAN]

\* The port that the interrupt routine serves has a device, and what the routine
\* read there still holds: only the UART moves meanwhile, which empties the
\* transmit FIFO and fills the other.
Serve ==
  isr = "serve" => /\ scan \in Ports /\ create[scan] = "created"
                   /\ saw.empty => tx[scan] = <<>>
                   /\ saw.data => rx[scan] > 0

\* What has been taken is in the FIFO from some character on, and before it in
\* the shift register or on the line; in a port that is not tuned nothing is
\* missing between them.
Chars(p, a) ==
  /\ a <= taken[p] /\ taken[p] <= put[p] /\ put[p] <= CharLimit[p]
  /\ tx[p] = Run(a, taken[p]) /\ Len(tx[p]) <= FifoSize
  /\ sent[p] <= a /\ shift[p] <= a
  /\ p \notin Tuned /\ shift[p] = 0 => sent[p] = a
  /\ p \notin Tuned /\ shift[p] # 0 => shift[p] = a /\ sent[p] + 1 = a

Data(p) == /\ \E a \in Nat : Chars(p, a)
           /\ rx[p] <= received
           /\ create[p] # "created" => put[p] = 0

LineInv == Types /\ Serve /\ \A p \in Ports : Data(p)

\* An empty FIFO takes the next characters of the ring, up to its size.
LEMMA FillStep ==
  ASSUME Types, NEW p \in Ports, NEW n \in Nat, taken[p] <= n, tx[p] = <<>>, Fill(p, n)
  PROVE  \E m \in Nat : /\ taken[p] <= m /\ m <= n /\ m - taken[p] <= FifoSize
                        /\ taken' = [taken EXCEPT ![p] = m]
                        /\ tx' = [tx EXCEPT ![p] = Run(taken[p], m)]
<1> DEFINE m   == IF n - taken[p] < FifoSize THEN n ELSE taken[p] + FifoSize
           all == tx[p] \o [i \in 1 .. m - taken[p] |-> taken[p] + i]
<1>1. FifoSize \in Nat \ {0} /\ taken[p] \in Nat
  BY Ip520Assumption DEF Ip520Assumption, Types
<1>2. m \in Nat /\ taken[p] <= m /\ m <= n /\ m - taken[p] <= FifoSize
  BY <1>1
<1>3. /\ taken' = [taken EXCEPT ![p] = m]
      /\ tx' = [tx EXCEPT ![p] = SubSeq(all, 1, IF Len(all) < FifoSize THEN Len(all) ELSE FifoSize)]
  BY DEF Fill
<1>4. all = <<>> \o Run(taken[p], m)
  BY DEF Run
<1> HIDE DEF m, all
<1>5. Run(taken[p], m) \in Seq(Nat) /\ Len(Run(taken[p], m)) = m - taken[p]
  BY <1>1, <1>2, RunFacts
<1>6. all = Run(taken[p], m)
  BY <1>4, <1>5
<1>7. (IF Len(all) < FifoSize THEN Len(all) ELSE FifoSize) = Len(all)
  BY <1>1, <1>2, <1>5, <1>6
<1>8. SubSeq(all, 1, Len(all)) = all
  BY <1>5, <1>6
<1> QED BY <1>2, <1>3, <1>6, <1>7, <1>8

LEMMA LineInit == Init => LineInv
<1> SUFFICES ASSUME Init PROVE LineInv
  OBVIOUS
<1>1. LastPort \in Nat /\ TuneLimit \in Nat /\ FifoSize \in Nat /\ \A p \in Ports : CharLimit[p] \in Nat
  BY Ip520Assumption DEF Ip520Assumption
<1>2. Types
  BY <1>1 DEF Init, Types
<1>3. Serve
  BY DEF Init, Serve
<1>4. ASSUME NEW p \in Ports
      PROVE  Data(p)
  <2>1. Run(0, 0) = <<>> /\ Len(<<>>) = 0
    BY RunFacts
  <2>2. Chars(p, 0)
    BY <1>1, <2>1 DEF Init, Chars
  <2> QED BY <2>2 DEF Init, Data
<1> QED BY <1>2, <1>3, <1>4 DEF LineInv

\* A port whose characters are not touched.
LEMMA SameChars ==
  ASSUME NEW q \in Ports, Data(q),
         put'[q] = put[q], taken'[q] = taken[q], tx'[q] = tx[q], shift'[q] = shift[q], sent'[q] = sent[q],
         rx'[q] <= received', create'[q] = create[q] \/ create'[q] = "created"
  PROVE  Data(q)'
<1>1. PICK a \in Nat : Chars(q, a)
  BY DEF Data
<1>2. Chars(q, a)'
  BY <1>1 DEF Chars
<1> QED BY <1>2 DEF Data

\* A port whose FIFO is filled when it is empty.
LEMMA FilledChars ==
  ASSUME Types, NEW p \in Ports, Data(p), NEW n \in Nat, tx[p] = <<>>, Fill(p, n),
         put[p] <= n, n <= CharLimit[p], put'[p] = n, shift' = shift, sent' = sent,
         rx'[p] <= received', create[p] = "created", create' = create
  PROVE  Data(p)' /\ taken' \in [Ports -> Nat] /\ tx' \in [Ports -> Seq(Nat)]
<1>1. PICK a \in Nat : Chars(p, a)
  BY DEF Data
<1>2. /\ a = taken[p] /\ taken[p] \in Nat /\ put[p] \in Nat
      /\ sent[p] \in Nat /\ shift[p] \in Nat /\ CharLimit[p] \in Nat
      /\ FifoSize \in Nat
  BY <1>1, RunFacts, Ip520Assumption DEF Chars, Types, Ip520Assumption
<1>3. PICK m \in Nat : /\ taken[p] <= m /\ m <= n /\ m - taken[p] <= FifoSize
                       /\ taken' = [taken EXCEPT ![p] = m]
                       /\ tx' = [tx EXCEPT ![p] = Run(taken[p], m)]
  BY <1>1, <1>2, FillStep DEF Chars
<1>4. Run(taken[p], m) \in Seq(Nat) /\ Len(Run(taken[p], m)) = m - taken[p]
  BY <1>2, <1>3, RunFacts
<1>5. taken' \in [Ports -> Nat] /\ tx' \in [Ports -> Seq(Nat)]
  BY <1>3, <1>4 DEF Types
<1>6. taken'[p] = m /\ tx'[p] = Run(a, m)
  BY <1>2, <1>3 DEF Types
<1>7. Chars(p, a)'
  BY <1>1, <1>2, <1>3, <1>4, <1>6 DEF Chars
<1> QED BY <1>5, <1>7 DEF Data

\* A port whose FIFOs are emptied by a change of its settings.
LEMMA FlushedChars ==
  ASSUME Types, NEW p \in Ports, Data(p), p \in Tuned \/ put[p] = 0,
         put'[p] = put[p], taken'[p] = taken[p], tx'[p] = <<>>, shift'[p] = shift[p], sent'[p] = sent[p],
         rx'[p] = 0, received' = received, create'[p] = create[p] \/ create[p] = "new"
  PROVE  Data(p)'
<1>1. PICK a \in Nat : Chars(p, a)
  BY DEF Data
<1>2. /\ taken[p] \in Nat /\ put[p] \in Nat /\ received \in Nat /\ FifoSize \in Nat
      /\ sent[p] \in Nat /\ shift[p] \in Nat
  BY Ip520Assumption DEF Types, Ip520Assumption
<1>3. Run(taken[p], taken[p]) = <<>> /\ Len(<<>>) = 0
  BY <1>2, RunEmpty
<1>4. Chars(p, taken[p])'
  <2>1. /\ a <= taken[p] /\ taken[p] <= put[p] /\ put[p] <= CharLimit[p] /\ sent[p] <= a /\ shift[p] <= a
    BY <1>1 DEF Chars
  <2>2. CASE p \in Tuned
    BY <1>2, <1>3, <2>1, <2>2 DEF Chars
  <2>3. CASE put[p] = 0
    <3>1. taken[p] = 0 /\ sent[p] = 0 /\ shift[p] = 0
      BY <1>2, <2>1, <2>3
    <3> QED BY <1>2, <1>3, <2>1, <3>1 DEF Chars
  <2> QED BY <2>2, <2>3
<1>5. create'[p] # "created" => put'[p] = 0
  BY DEF Data
<1> QED BY <1>2, <1>4, <1>5 DEF Data

LEMMA WriteStep ==
  ASSUME LineInv, NEW p \in Ports, IP520Write(p)
  PROVE  LineInv'
<1> USE DEF tyVars, setVars, txVars, rxVars, isrVars
<1>1. Types /\ Serve /\ \A q \in Ports : Data(q)
  BY DEF LineInv
<1>2. /\ isr = "off" /\ create[p] = "created" /\ create' = create /\ shift' = shift /\ sent' = sent
      /\ rx' = rx /\ received' = received /\ isr' = isr /\ scan' = scan /\ saw' = saw /\ tuned' = tuned
      /\ pc' \in [Ports -> {"idle", "start", "startup"}]
  BY <1>1 DEF IP520Write, Put, Start, Startup, Goto, Types, TaskRuns
<1>3. \A q \in Ports : rx'[q] <= received' /\ CharLimit[q] \in Nat
  BY <1>1, <1>2, Ip520Assumption DEF Data, Ip520Assumption
<1>4. Serve'
  BY <1>2 DEF Serve
<1>5. CASE Put(p)
  <2>1. /\ put' = [put EXCEPT ![p] = @ + 1] /\ taken' = taken /\ tx' = tx /\ ier' = ier /\ put[p] < CharLimit[p]
    BY <1>5 DEF Put
  <2>2. Types'
    BY <1>1, <1>2, <2>1 DEF Types
  <2>3. ASSUME NEW q \in Ports
        PROVE  Data(q)'
    <3>1. CASE q # p
      BY <1>1, <1>2, <1>3, <2>1, <3>1, SameChars DEF Types
    <3>2. CASE q = p
      <4>1. PICK a \in Nat : Chars(p, a)
        BY <1>1 DEF Data
      <4>2. put'[p] = put[p] + 1 /\ put[p] \in Nat /\ taken[p] \in Nat
        BY <1>1, <2>1 DEF Types
      <4>3. Chars(p, a)'
        BY <1>2, <1>3, <2>1, <4>1, <4>2 DEF Chars
      <4> QED BY <1>2, <1>3, <3>2, <4>3 DEF Data
    <3> QED BY <3>1, <3>2
  <2> QED BY <1>4, <2>2, <2>3 DEF LineInv
<1>6. CASE Start(p) \/ (Startup(p) /\ tx[p] # <<>>)
  <2>1. put' = put /\ taken' = taken /\ tx' = tx /\ ier' \in [Ports -> SUBSET {"rx", "tx"}]
    BY <1>1, <1>6 DEF Start, Startup, IP520TxStartup, TxInterrupt, Types
  <2>2. Types'
    BY <1>1, <1>2, <2>1 DEF Types
  <2> QED BY <1>1, <1>2, <1>3, <1>4, <2>1, <2>2, SameChars DEF LineInv
<1>7. CASE Startup(p) /\ tx[p] = <<>>
  <2>1. put' = put /\ Fill(p, put[p]) /\ ier' \in [Ports -> SUBSET {"rx", "tx"}]
    BY <1>1, <1>7 DEF Startup, IP520TxStartup, TxInterrupt, Types
  <2>2. put[p] \in Nat /\ put[p] <= CharLimit[p]
    BY <1>1 DEF Types, Data, Chars
  <2>3. Data(p)' /\ taken' \in [Ports -> Nat] /\ tx' \in [Ports -> Seq(Nat)]
    BY <1>1, <1>2, <1>3, <1>7, <2>1, <2>2, FilledChars
  <2>4. Types'
    BY <1>1, <1>2, <2>1, <2>3 DEF Types
  <2>5. \A q \in Ports \ {p} : taken'[q] = taken[q] /\ tx'[q] = tx[q]
    BY <1>1, <2>1 DEF Fill, Types
  <2>6. \A q \in Ports \ {p} : Data(q)'
    BY <1>1, <1>2, <1>3, <2>1, <2>5, SameChars
  <2> QED BY <1>4, <2>3, <2>4, <2>6 DEF LineInv
<1> QED BY <1>5, <1>6, <1>7 DEF IP520Write

LEMMA SetStep ==
  ASSUME LineInv, NEW p \in Ports, IP520DevCreate(p) \/ IP520Ioctl(p) \/ IP520Config(p)
  PROVE  LineInv'
<1> USE DEF tyVars, setVars, txVars, rxVars, isrVars
<1>1. Types /\ Serve /\ \A q \in Ports : Data(q)
  BY DEF LineInv
<1>2. /\ isr = "off" /\ pc' = pc /\ put' = put /\ taken' = taken /\ shift' = shift /\ sent' = sent
      /\ received' = received /\ isr' = isr /\ scan' = scan /\ saw' = saw
  BY DEF IP520DevCreate, IP520InitChannel, MarkCreated, IP520Ioctl, IP520Config, Tune, TaskRuns
<1>3. Serve'
  BY <1>2 DEF Serve
<1>4. CASE MarkCreated(p)
  <2>1. create' = [create EXCEPT ![p] = "created"] /\ ier' = ier /\ tx' = tx /\ rx' = rx /\ tuned' = tuned
    BY <1>4 DEF MarkCreated
  <2>2. Types'
    BY <1>1, <1>2, <2>1 DEF Types
  <2>3. ASSUME NEW q \in Ports
        PROVE  Data(q)'
    <3>1. rx'[q] <= received' /\ (create'[q] = create[q] \/ create'[q] = "created")
      BY <1>1, <1>2, <2>1 DEF Data, Types
    <3> QED BY <1>1, <1>2, <2>1, <3>1, SameChars
  <2> QED BY <1>3, <2>2, <2>3 DEF LineInv
<1>5. CASE IP520InitChannel(p) \/ IP520Ioctl(p) \/ IP520Config(p)
  <2>1. \E s : Written(p, s)
    BY <1>5 DEF IP520InitChannel, IP520Ioctl, IP520Config
  <2>2. tx' = [tx EXCEPT ![p] = <<>>] /\ rx' = [rx EXCEPT ![p] = 0]
    BY <2>1 DEF Written
  <2>3. /\ create' \in [Ports -> {"new", "init", "created"}]
        /\ \A q \in Ports \ {p} : create'[q] = create[q]
        /\ create'[p] = create[p] \/ create[p] = "new"
    <3>0. create \in [Ports -> {"new", "init", "created"}]
      BY <1>1 DEF Types
    <3>1. CASE IP520InitChannel(p)
      BY <3>0, <3>1 DEF IP520InitChannel
    <3>2. CASE IP520Ioctl(p) \/ IP520Config(p)
      BY <3>0, <3>2 DEF IP520Ioctl, IP520Config, Tune
    <3> QED BY <1>5, <3>1, <3>2
  <2>4. p \in Tuned \/ put[p] = 0
    <3>1. CASE IP520InitChannel(p)
      BY <1>1, <3>1 DEF IP520InitChannel, Data
    <3>2. CASE IP520Ioctl(p) \/ IP520Config(p)
      BY <3>2 DEF IP520Ioctl, IP520Config, Tune
    <3> QED BY <1>5, <3>1, <3>2
  <2>5. ier' \in [Ports -> SUBSET {"rx", "tx"}] /\ tuned' \in 0 .. TuneLimit
    <3>1. CASE IP520InitChannel(p)
      BY <1>1, <3>1 DEF IP520InitChannel, Types
    <3>2. CASE IP520Ioctl(p) \/ IP520Config(p)
      <4>1. ier' = ier /\ tuned < TuneLimit /\ tuned' = tuned + 1
        BY <3>2 DEF IP520Ioctl, IP520Config, Tune
      <4> QED BY <1>1, <4>1, Ip520Assumption DEF Types, Ip520Assumption
    <3> QED BY <1>5, <3>1, <3>2
  <2>6. Types'
    BY <1>1, <1>2, <2>2, <2>3, <2>5 DEF Types
  <2>7. Data(p)'
    BY <1>1, <1>2, <2>2, <2>3, <2>4, FlushedChars DEF Types
  <2>8. ASSUME NEW q \in Ports \ {p}
        PROVE  Data(q)'
    <3>1. tx'[q] = tx[q] /\ rx'[q] <= received'
      BY <1>1, <1>2, <2>2 DEF Types, Data
    <3> QED BY <1>1, <1>2, <2>3, <3>1, SameChars
  <2> QED BY <1>3, <2>6, <2>7, <2>8 DEF LineInv
<1> QED BY <1>4, <1>5 DEF IP520DevCreate

LEMMA UartStep ==
  ASSUME LineInv, NEW p \in Ports, Load(p) \/ ShiftOut(p) \/ Receive(p)
  PROVE  LineInv'
<1> USE DEF tyVars, setVars, txVars, rxVars, isrVars
<1>1. Types /\ Serve /\ \A q \in Ports : Data(q)
  BY DEF LineInv
<1>2. /\ create' = create /\ pc' = pc /\ put' = put /\ taken' = taken /\ ier' = ier
      /\ isr' = isr /\ scan' = scan /\ saw' = saw /\ tuned' = tuned
  BY DEF Load, ShiftOut, Receive
<1>3. PICK a \in Nat : Chars(p, a)
  BY <1>1 DEF Data
<1>4. /\ taken[p] \in Nat /\ put[p] \in Nat /\ sent[p] \in Nat /\ shift[p] \in Nat /\ rx[p] \in Nat
      /\ received \in Nat /\ FifoSize \in Nat
  BY <1>1, Ip520Assumption DEF Types, Ip520Assumption
<1>5. CASE Load(p)
  <2>1. /\ tx[p] # <<>> /\ shift[p] = 0 /\ sent' = sent /\ rx' = rx /\ received' = received
        /\ shift' = [shift EXCEPT ![p] = Head(tx[p])] /\ tx' = [tx EXCEPT ![p] = Tail(@)]
    BY <1>5 DEF Load
  <2>0. a <= taken[p] /\ tx[p] = Run(a, taken[p])
    BY <1>3 DEF Chars
  <2>2. a < taken[p]
    <3>1. a # taken[p]
      BY <1>4, <2>0, <2>1, RunEmpty
    <3> QED BY <1>4, <2>0, <3>1
  <2>3. /\ Head(tx[p]) = a + 1 /\ Tail(tx[p]) = Run(a + 1, taken[p])
        /\ Run(a + 1, taken[p]) \in Seq(Nat) /\ Len(Run(a + 1, taken[p])) = taken[p] - (a + 1)
        /\ Len(Run(a, taken[p])) = taken[p] - a
    <3>1. a + 1 \in Nat /\ a + 1 <= taken[p]
      BY <1>4, <2>2
    <3>2. /\ Head(Run(a, taken[p])) = a + 1 /\ Tail(Run(a, taken[p])) = Run(a + 1, taken[p])
          /\ Len(Run(a, taken[p])) = taken[p] - a
      BY <1>4, <2>0, <2>2, RunFacts
    <3>3. Run(a + 1, taken[p]) \in Seq(Nat) /\ Len(Run(a + 1, taken[p])) = taken[p] - (a + 1)
      BY <1>4, <3>1, RunFacts
    <3> QED BY <2>0, <3>2, <3>3
  <2>4. shift'[p] = a + 1 /\ tx'[p] = Run(a + 1, taken[p])
    BY <1>1, <2>1, <2>3 DEF Types
  <2>5. Types'
    <3>1. tx \in [Ports -> Seq(Nat)] /\ shift \in [Ports -> Nat]
      BY <1>1 DEF Types
    <3>2. tx' = [tx EXCEPT ![p] = Run(a + 1, taken[p])] /\ shift' = [shift EXCEPT ![p] = a + 1]
      BY <2>1, <2>3
    <3>3. tx' \in [Ports -> Seq(Nat)]
      BY <2>3, <3>1, <3>2
    <3>4. shift' \in [Ports -> Nat]
      BY <3>1, <3>2
    <3> QED BY <1>1, <1>2, <2>1, <3>3, <3>4 DEF Types
  <2>6. Serve'
    <3>1. scan # p \/ isr # "serve" \/ ~saw.empty
      BY <1>1, <2>1 DEF Serve
    <3>2. \A q \in Ports \ {p} : tx'[q] = tx[q]
      BY <1>1, <2>1 DEF Types
    <3> QED BY <1>1, <1>2, <2>1, <3>1, <3>2 DEF Serve
  <2>7. Chars(p, a + 1)'
    <3>1. /\ a + 1 <= taken'[p] /\ taken'[p] <= put'[p] /\ put'[p] <= CharLimit[p]
          /\ sent'[p] <= a + 1 /\ shift'[p] <= a + 1
      BY <1>2, <1>3, <1>4, <2>1, <2>2, <2>4 DEF Chars
    <3>2. tx'[p] = Run(a + 1, taken'[p]) /\ Len(tx'[p]) <= FifoSize
      BY <1>2, <1>3, <1>4, <2>0, <2>2, <2>3, <2>4 DEF Chars
    <3>3. shift'[p] # 0 /\ (p \notin Tuned => shift'[p] = a + 1 /\ sent'[p] + 1 = a + 1)
      BY <1>3, <2>1, <2>4 DEF Chars
    <3> QED BY <3>1, <3>2, <3>3 DEF Chars
  <2>8. Data(p)'
    BY <1>1, <1>2, <2>1, <2>7 DEF Data
  <2>9. \A q \in Ports \ {p} : Data(q)'
    BY <1>1, <1>2, <2>1, SameChars DEF Types, Data
  <2> QED BY <2>5, <2>6, <2>8, <2>9 DEF LineInv
<1>6. CASE ShiftOut(p)
  <2>1. /\ shift[p] # 0 /\ sent' = [sent EXCEPT ![p] = shift[p]] /\ shift' = [shift EXCEPT ![p] = 0]
        /\ tx' = tx /\ rx' = rx /\ received' = received
    BY <1>6 DEF ShiftOut
  <2>2. Types' /\ Serve'
    BY <1>1, <1>2, <2>1 DEF Types, Serve
  <2>3. shift'[p] = 0 /\ sent'[p] = shift[p]
    BY <1>1, <2>1 DEF Types
  <2>4. Chars(p, a)'
    BY <1>2, <1>3, <1>4, <2>1, <2>3 DEF Chars
  <2>5. Data(p)'
    BY <1>1, <1>2, <2>1, <2>4 DEF Data
  <2>6. \A q \in Ports \ {p} : Data(q)'
    BY <1>1, <1>2, <2>1, SameChars DEF Types, Data
  <2> QED BY <2>2, <2>5, <2>6 DEF LineInv
<1>7. CASE Receive(p)
  <2>1. rx' = [rx EXCEPT ![p] = @ + 1] /\ received' = received + 1 /\ tx' = tx /\ shift' = shift /\ sent' = sent
    BY <1>7 DEF Receive
  <2>5. rx \in [Ports -> Nat] /\ \A q \in Ports : rx[q] <= received
    BY <1>1 DEF Types, Data
  <2>2. \A q \in Ports : rx'[q] >= rx[q] /\ rx'[q] <= received' /\ rx'[q] \in Nat
    BY <1>4, <2>1, <2>5
  <2>3. Types'
    <3>1. rx' \in [Ports -> Nat] /\ received' \in Nat
      BY <1>4, <2>1, <2>5
    <3> QED BY <1>1, <1>2, <2>1, <3>1 DEF Types
  <2>4. Serve'
    BY <1>1, <1>2, <2>1, <2>2 DEF Serve, Types
  <2> QED BY <1>1, <1>2, <2>1, <2>2, <2>3, <2>4, SameChars DEF LineInv
<1> QED BY <1>5, <1>6, <1>7

LEMMA IsrStep ==
  ASSUME LineInv, IP520Int
  PROVE  LineInv'
<1> USE DEF tyVars, setVars, txVars, rxVars, isrVars
<1>1. Types /\ Serve /\ \A q \in Ports : Data(q)
  BY DEF LineInv
<1>2. LastPort \in Nat /\ FifoSize \in Nat /\ \A p \in Ports : CharLimit[p] \in Nat
  BY Ip520Assumption DEF Ip520Assumption
<1>3. CASE IsrEnter
  <2>1. Types' /\ Serve'
    <3>1. isr' = "look" /\ scan' = 0 /\ 0 \in 0 .. LastPort + 1
      BY <1>2, <1>3 DEF IsrEnter
    <3> QED BY <1>1, <1>3, <3>1 DEF IsrEnter, Types, Serve
  <2> QED BY <1>1, <1>3, <2>1, SameChars DEF IsrEnter, LineInv, Data
<1>4. CASE IsrLook
  <2>1. \A q \in Ports : Data(q)'
    BY <1>1, <1>4, SameChars DEF IsrLook, Data
  <2>2. CASE isr' # "serve"
    <3>0. scan \in 0 .. LastPort + 1
      BY <1>1 DEF Types
    <3>3. \/ isr' = "off" /\ scan' = scan /\ saw' = saw
          \/ isr' = "look" /\ scan <= LastPort /\ scan' = scan + 1 /\ saw' = saw
      BY <1>4, <2>2 DEF IsrLook
    <3>1. isr' \in {"off", "look"} /\ scan' \in 0 .. LastPort + 1 /\ saw' = saw
      BY <1>2, <3>0, <3>3
    <3>2. Types' /\ Serve'
      BY <1>1, <1>4, <2>2, <3>1 DEF IsrLook, Types, Serve
    <3> QED BY <2>1, <3>2 DEF LineInv
  <2>3. CASE isr' = "serve"
    <3> DEFINE t == "tx" \in ier[scan]
               e == tx[scan] = <<>>
               d == rx[scan] > 0
    <3>1. t \in BOOLEAN /\ e \in BOOLEAN /\ d \in BOOLEAN
      OBVIOUS
    <3>2. scan' = scan /\ scan \in Ports /\ create[scan] = "created"
      BY <1>1, <1>2, <1>4, <2>3 DEF IsrLook, Types
    <3>3. saw' = [tx |-> t, empty |-> e, data |-> d, work |-> FALSE]
      BY <1>4, <2>3 DEF IsrLook
    <3>4. (e => tx[scan] = <<>>) /\ (d => rx[scan] > 0)
      OBVIOUS
    <3> HIDE DEF t, e, d
    <3>5. saw' \in [tx : BOOLEAN, empty : BOOLEAN, data : BOOLEAN, work : BOOLEAN]
      BY <3>1, <3>3
    <3>6. saw'.empty = e /\ saw'.data = d
      BY <3>3
    <3>7. Types'
      BY <1>1, <1>4, <2>3, <3>2, <3>5 DEF IsrLook, Types
    <3>8. Serve'
      BY <1>4, <3>2, <3>4, <3>6 DEF IsrLook, Serve
    <3> QED BY <2>1, <3>7, <3>8 DEF LineInv
  <2> QED BY <2>2, <2>3
<1>5. CASE IsrRead
  <2>0. PICK c \in Ports : c = scan
    BY <1>1, <1>5 DEF IsrRead, Serve
  <2>1. /\ c \in Ports /\ create[c] = "created" /\ isr = "serve" /\ rx[c] > 0 /\ rx[c] \in Nat
    BY <1>1, <1>5, <2>0 DEF IsrRead, Serve, Types
  <2>2. /\ create' = create /\ pc' = pc /\ shift' = shift /\ sent' = sent /\ received' = received
        /\ isr' = isr /\ scan' = scan /\ tuned' = tuned /\ rx' = [rx EXCEPT ![c] = @ - 1]
    BY <1>5, <2>0 DEF IsrRead
  <2>3. rx' \in [Ports -> Nat] /\ \A q \in Ports : rx'[q] <= received'
    BY <1>1, <2>1, <2>2 DEF Types, Data
  <2> DEFINE e == tx'[c] = <<>>
             d == rx'[c] > 0
  <2>4. e \in BOOLEAN /\ d \in BOOLEAN /\ (e => tx'[c] = <<>>) /\ (d => rx'[c] > 0)
    OBVIOUS
  <2>5. saw' = [saw EXCEPT !.empty = e, !.data = d, !.work = TRUE]
    BY <1>5, <2>0 DEF IsrRead
  <2> HIDE DEF e, d
  <2>6. saw' \in [tx : BOOLEAN, empty : BOOLEAN, data : BOOLEAN, work : BOOLEAN] /\ saw'.empty = e /\ saw'.data = d
    BY <1>1, <2>4, <2>5 DEF Types
  <2>7. Serve'
    BY <2>0, <2>1, <2>2, <2>4, <2>6 DEF Serve
  <2>8. \/ /\ taken' = taken /\ tx' = tx /\ ier' \in [Ports -> SUBSET {"rx", "tx"}]
           /\ \/ put' = put
              \/ put[c] < CharLimit[c] /\ put' = [put EXCEPT ![c] = @ + 1]
        \/ /\ tx[c] = <<>> /\ Fill(c, put[c] + 1) /\ ier' \in [Ports -> SUBSET {"rx", "tx"}]
           /\ put[c] < CharLimit[c] /\ put' = [put EXCEPT ![c] = @ + 1]
    <3>1. CASE put' = put /\ taken' = taken /\ tx' = tx /\ ier' = ier
      BY <1>1, <3>1 DEF Types
    <3>2. CASE put[c] < CharLimit[c] /\ put' = [put EXCEPT ![c] = @ + 1] /\ UNCHANGED <<taken, ier, tx>>
      BY <1>1, <3>2 DEF Types
    <3>3. CASE put[c] < CharLimit[c] /\ put' = [put EXCEPT ![c] = @ + 1] /\ IP520TxStartup(c, put[c] + 1)
      <4>1. ier \in [Ports -> SUBSET {"rx", "tx"}]
        BY <1>1 DEF Types
      <4>2. ier' \in [Ports -> SUBSET {"rx", "tx"}]
        BY <3>3, <4>1 DEF IP520TxStartup, TxInterrupt
      <4>3. \/ taken' = taken /\ tx' = tx
            \/ tx[c] = <<>> /\ Fill(c, put[c] + 1)
        BY <3>3 DEF IP520TxStartup
      <4> QED BY <3>3, <4>2, <4>3
    <3>4. \/ put[c] < CharLimit[c] /\ put' = [put EXCEPT ![c] = @ + 1] /\ UNCHANGED <<busy, taken, ier, tx>>
          \/ put[c] < CharLimit[c] /\ put' = [put EXCEPT ![c] = @ + 1] /\ IP520TxStartup(c, put[c] + 1)
          \/ UNCHANGED <<put, taken, ier, tx>>
      BY <1>5, <2>0 DEF IsrRead
    <3> QED BY <3>1, <3>2, <3>3, <3>4
  <2>9. CASE put' = put /\ taken' = taken /\ tx' = tx /\ ier' \in [Ports -> SUBSET {"rx", "tx"}]
    <3>1. Types'
      BY <1>1, <2>2, <2>3, <2>6, <2>9 DEF Types
    <3> QED BY <1>1, <2>2, <2>3, <2>7, <2>9, <3>1, SameChars DEF LineInv
  <2>10. CASE /\ put[c] < CharLimit[c] /\ put' = [put EXCEPT ![c] = @ + 1]
              /\ taken' = taken /\ tx' = tx /\ ier' \in [Ports -> SUBSET {"rx", "tx"}]
    <3>1. Types'
      <4>1. put \in [Ports -> Nat] /\ put' = [put EXCEPT ![c] = put[c] + 1]
        BY <1>1, <2>10 DEF Types
      <4>2. put' \in [Ports -> Nat]
        BY <4>1
      <4> QED BY <1>1, <2>2, <2>3, <2>6, <2>10, <4>2 DEF Types
    <3>2. PICK a \in Nat : Chars(c, a)
      BY <1>1, <2>1 DEF Data
    <3>3. put'[c] = put[c] + 1 /\ put[c] \in Nat /\ taken[c] \in Nat /\ CharLimit[c] \in Nat
      BY <1>1, <1>2, <2>1, <2>10 DEF Types
    <3>4. \E b \in Nat : Chars(c, b)'
      <4>1. /\ a <= taken'[c] /\ taken'[c] <= put'[c] /\ put'[c] <= CharLimit[c]
        BY <2>10, <3>2, <3>3 DEF Chars
      <4> QED BY <2>2, <2>10, <3>2, <4>1 DEF Chars
    <3>5. Data(c)'
      BY <2>1, <2>2, <2>3, <3>4 DEF Data
    <3>6. \A q \in Ports \ {c} : put'[q] = put[q]
      BY <1>1, <2>10 DEF Types
    <3>7. \A q \in Ports \ {c} : Data(q)'
      BY <1>1, <2>2, <2>3, <2>10, <3>6, SameChars
    <3> QED BY <2>7, <3>1, <3>5, <3>7 DEF LineInv
  <2>11. CASE /\ tx[c] = <<>> /\ Fill(c, put[c] + 1) /\ ier' \in [Ports -> SUBSET {"rx", "tx"}]
              /\ put[c] < CharLimit[c] /\ put' = [put EXCEPT ![c] = @ + 1]
    <3>1. put'[c] = put[c] + 1 /\ put[c] + 1 \in Nat /\ put[c] <= put[c] + 1 /\ put[c] + 1 <= CharLimit[c]
      <4>1. put \in [Ports -> Nat] /\ put[c] \in Nat /\ CharLimit[c] \in Nat
        BY <1>1, <1>2, <2>1 DEF Types
      <4> QED BY <2>1, <2>11, <4>1
    <3>2. Data(c)' /\ taken' \in [Ports -> Nat] /\ tx' \in [Ports -> Seq(Nat)]
      BY <1>1, <2>1, <2>2, <2>3, <2>11, <3>1, FilledChars
    <3>6. put' \in [Ports -> Nat] /\ ier' \in [Ports -> SUBSET {"rx", "tx"}]
      <4>1. put \in [Ports -> Nat] /\ put' = [put EXCEPT ![c] = put[c] + 1]
        BY <1>1, <2>11 DEF Types
      <4> QED BY <2>11, <3>1, <4>1
    <3>3. Types'
      BY <1>1, <2>2, <2>3, <2>6, <3>2, <3>6 DEF Types
    <3>4. \A q \in Ports \ {c} : put'[q] = put[q] /\ taken'[q] = taken[q] /\ tx'[q] = tx[q]
      BY <1>1, <2>1, <2>11 DEF Types, Fill
    <3>5. \A q \in Ports \ {c} : Data(q)'
      BY <1>1, <2>2, <2>3, <3>4, SameChars
    <3> QED BY <2>7, <3>2, <3>3, <3>5 DEF LineInv
  <2> QED BY <2>8, <2>9, <2>10, <2>11
<1>6. CASE IsrSend
  <2>0. PICK c \in Ports : c = scan
    BY <1>1, <1>6 DEF IsrSend, Serve
  <2>1. /\ c \in Ports /\ create[c] = "created" /\ isr = "serve" /\ isr' = "look"
    BY <1>1, <1>6, <2>0 DEF IsrSend, Serve
  <2>2. /\ create' = create /\ pc' = pc /\ put' = put /\ shift' = shift /\ sent' = sent /\ rx' = rx
        /\ received' = received /\ saw' = saw /\ tuned' = tuned
    BY <1>6 DEF IsrSend
  <2>3. Serve'
    BY <2>1 DEF Serve
  <2>4. \A q \in Ports : rx'[q] <= received'
    BY <1>1, <2>2 DEF Data
  <2>5. CASE taken' = taken /\ tx' = tx /\ ier' = ier /\ scan' \in {scan, scan + 1}
    <3>1. scan' \in 0 .. LastPort + 1
      BY <1>2, <2>0, <2>1, <2>5
    <3>2. Types'
      BY <1>1, <2>1, <2>2, <2>5, <3>1 DEF Types
    <3> QED BY <1>1, <2>2, <2>3, <2>4, <2>5, <3>2, SameChars DEF LineInv
  <2>6. CASE /\ tx[c] = <<>> /\ Fill(c, put[c]) /\ scan' = scan
             /\ ier' \in [Ports -> SUBSET {"rx", "tx"}]
    <3>1. put[c] \in Nat /\ put[c] <= CharLimit[c]
      BY <1>1, <2>1 DEF Types, Data, Chars
    <3>2. Data(c)' /\ taken' \in [Ports -> Nat] /\ tx' \in [Ports -> Seq(Nat)]
      BY <1>1, <2>1, <2>2, <2>4, <2>6, <3>1, FilledChars
    <3>3. Types'
      BY <1>1, <2>0, <2>1, <2>2, <2>6, <3>2 DEF Types
    <3>4. \A q \in Ports \ {c} : taken'[q] = taken[q] /\ tx'[q] = tx[q]
      BY <1>1, <2>1, <2>6 DEF Types, Fill
    <3>5. \A q \in Ports \ {c} : Data(q)'
      BY <1>1, <2>2, <2>4, <3>4, SameChars
    <3> QED BY <2>3, <3>2, <3>3, <3>5 DEF LineInv
  <2>7. \/ taken' = taken /\ tx' = tx /\ ier' = ier /\ scan' \in {scan, scan + 1}
        \/ /\ saw.empty /\ Fill(c, put[c]) /\ scan' = scan
           /\ ier' = ier \/ ier' = [ier EXCEPT ![c] = @ \ {"tx"}]
    BY <1>6, <2>0 DEF IsrSend
  <2>8. saw.empty => tx[c] = <<>>
    BY <1>1, <2>0, <2>1 DEF Serve
  <2>9. ier' = ier \/ ier' = [ier EXCEPT ![c] = @ \ {"tx"}] => ier' \in [Ports -> SUBSET {"rx", "tx"}]
    BY <1>1, <2>1 DEF Types
  <2> QED BY <2>5, <2>6, <2>7, <2>8, <2>9
<1> QED BY <1>3, <1>4, <1>5, <1>6 DEF IP520Int

LEMMA LineNext == LineInv /\ [Next]_vars => LineInv'
<1> SUFFICES ASSUME LineInv, [Next]_vars PROVE LineInv'
  OBVIOUS
<1>1. CASE UNCHANGED vars
  <2>1. Types' /\ Serve'
    BY <1>1 DEF LineInv, vars, Types, Serve, tyVars, setVars, txVars, rxVars, isrVars
  <2> QED BY <1>1, <2>1, SameChars DEF LineInv, Data, vars, tyVars, setVars, txVars, rxVars, isrVars
<1> QED BY <1>1, WriteStep, SetStep, UartStep, IsrStep DEF Next

\* Counts, FIFOs and the interrupt routine keep their types, and a FIFO its order,
\* for any number of ports and whatever is written, received and set.
THEOREM Ip520Types == Spec => []TypeOK
<1>1. LineInv => TypeOK
  <2> SUFFICES ASSUME LineInv PROVE TypeOK
    OBVIOUS
  <2>1. ASSUME NEW p \in Ports
        PROVE  /\ sent[p] <= taken[p] /\ taken[p] <= put[p] /\ put[p] <= CharLimit[p] /\ rx[p] <= received
               /\ Len(tx[p]) <= FifoSize /\ \A i \in 2 .. Len(tx[p]) : tx[p][i] = tx[p][i - 1] + 1
    <3>1. PICK a \in Nat : Chars(p, a)
      BY DEF LineInv, Data
    <3>2. taken[p] \in Nat /\ sent[p] \in Nat
      BY DEF LineInv, Types
    <3>3. tx[p] = Run(a, taken[p]) /\ Len(tx[p]) = taken[p] - a
      BY <3>1, <3>2, RunFacts DEF Chars
    <3>4. ASSUME NEW i \in 2 .. Len(tx[p])
          PROVE  tx[p][i] = tx[p][i - 1] + 1
      <4>1. i \in 1 .. taken[p] - a /\ i - 1 \in 1 .. taken[p] - a
        BY <3>2, <3>3
      <4> QED BY <3>2, <3>3, <4>1 DEF Run
    <3> QED BY <3>1, <3>2, <3>4 DEF Chars, LineInv, Data
  <2> QED BY <2>1 DEF LineInv, Types, TypeOK
<1> QED BY <1>1, LineInit, LineNext, PTL DEF Spec

\* Every step of the driver is one of the line, for the ports whose settings are
\* left alone.
LEMMA LineStep ==
  ASSUME LineInv, [Next]_vars
  PROVE  \/ \E p \in Ports \ Tuned : Line!Accept(p) \/ Line!Emit(p)
         \/ \A p \in Ports \ Tuned : put'[p] = put[p] /\ sent'[p] = sent[p]
<1> USE DEF tyVars, setVars, txVars, rxVars, isrVars
<1>1. Types
  BY DEF LineInv
<1>2. ASSUME NEW p \in Ports, put' = [put EXCEPT ![p] = @ + 1], sent' = sent
      PROVE  \/ p \in Ports \ Tuned /\ Line!Accept(p)
             \/ \A q \in Ports \ Tuned : put'[q] = put[q] /\ sent'[q] = sent[q]
  BY <1>1, <1>2 DEF Types, Line!Accept
<1>3. ASSUME NEW p \in Ports, ShiftOut(p)
      PROVE  \/ p \in Ports \ Tuned /\ Line!Emit(p)
             \/ \A q \in Ports \ Tuned : put'[q] = put[q] /\ sent'[q] = sent[q]
  <2>1. shift[p] # 0 /\ sent' = [sent EXCEPT ![p] = shift[p]] /\ put' = put
    BY <1>3 DEF ShiftOut
  <2>2. CASE p \in Tuned
    BY <1>1, <2>1, <2>2 DEF Types
  <2>3. CASE p \notin Tuned
    <3>1. PICK a \in Nat : Chars(p, a)
      BY DEF LineInv, Data
    <3>2. shift[p] = sent[p] + 1 /\ sent[p] < put[p]
      BY <1>1, <2>1, <2>3, <3>1 DEF Chars, Types
    <3> QED BY <1>1, <2>1, <2>3, <3>2 DEF Types, Line!Emit
  <2> QED BY <2>2, <2>3
<1>4. ASSUME NEW p \in Ports,
             IP520DevCreate(p) \/ IP520Ioctl(p) \/ IP520Config(p) \/ Start(p) \/ Startup(p) \/ Load(p) \/ Receive(p)
      PROVE  put' = put /\ sent' = sent
  BY <1>4 DEF IP520DevCreate, IP520InitChannel, MarkCreated, IP520Ioctl, IP520Config, Tune, Start, Startup, Goto,
              Load, Receive
<1>5. ASSUME NEW p \in Ports, Put(p)
      PROVE  put' = [put EXCEPT ![p] = @ + 1] /\ sent' = sent
  BY <1>5 DEF Put, Goto
<1>6. CASE IsrEnter \/ IsrLook \/ IsrSend \/ UNCHANGED vars
  BY <1>6 DEF IsrEnter, IsrLook, IsrSend, vars
<1>7. CASE IsrRead
  <2>1. scan \in Ports
    BY <1>7 DEF LineInv, Serve, IsrRead
  <2>2. sent' = sent /\ (put' = put \/ put' = [put EXCEPT ![scan] = @ + 1])
    BY <1>7 DEF IsrRead
  <2> QED BY <1>2, <2>1, <2>2
<1> QED BY <1>2, <1>3, <1>4, <1>5, <1>6, <1>7 DEF Next, IP520Write, IP520Int

\* The driver implements a serial line on every port whose settings are left
\* alone: what went into the ring goes out once and in order, whoever fills the
\* FIFO and whatever is done to the other ports.
THEOREM NothingLostInFifo == Spec => NothingLost
<1>1. Init => Line!Init
  BY DEF Init, Line!Init
<1>2. LineInv /\ [Next]_vars
      => [Line!Next]_<<[p \in Ports \ Tuned |-> put[p]], [p \in Ports \ Tuned |-> sent[p]]>>
  BY LineStep DEF Line!Next
<1> QED BY <1>1, <1>2, LineInit, LineNext, PTL DEF Spec, NothingLost, Line!Spec

=============================================================================
