----------------------------- MODULE CarrierData -----------------------------
(***************************************************************************)
(* What the carrier drivers compute from their parameters: the checks and  *)
(* the address ranges of each initialise routine, the addresses baseAddr   *)
(* returns, and the interrupt commands; and the ID PROM of a module        *)
(* (drvIpac.c, drvVipc310.c, drvVipc610.c, drvVipc616.c, drvTvme200.c,     *)
(* drvIpMv162.c, drvXy9660.c, drvHy8002.c, drvAtc40.c).                    *)
(*                                                                         *)
(* Addresses are [am, at]: bytes in A16 and on the ISA bus, units of 1 KB  *)
(* in A24 and A32, of 64 KB in the memory of the MVME162, offsets in its   *)
(* IP registers ("ipic").  An initialise routine is a sequence of steps:   *)
(* a check that must hold, a range claimed with devRegisterAddress, or a   *)
(* change to the board; the first step that fails ends it, and what the    *)
(* earlier steps did stays.                                                *)
(***************************************************************************)
EXTENDS Integers, Sequences, FiniteSets, FiniteSetsExt, SequencesExt

NULL == [am |-> "NULL", at |-> 0]
At(am, at) == [am |-> am, at |-> at]
Spaces == {"ID", "IO", "IO32", "Mem"}

Need(c) == [do |-> IF c THEN "pass" ELSE "fail"]
Claim(am, at, size) == [do |-> "claim", am |-> am, at |-> at, size |-> size]
Drop(am, at) == [do |-> "drop", am |-> am, at |-> at]
Do(what) == [do |-> what]
Steps(s, cond) == IF cond THEN s ELSE <<>>

\* Two steps, First(i) and Second(i), for each i in 1 .. n.
TwoEach(n, First(_), Second(_)) ==
  [j \in 1 .. 2 * n |-> IF j % 2 = 1 THEN First((j + 1) \div 2) ELSE Second(j \div 2)]

-----------------------------------------------------------------------------
(* Conversions.                                                            *)

\* scanf %i: hexadecimal only after 0x.  A number as it was typed is
\* [prefix, dec, hex]: whether it has the 0x, and its value either way.
ScanInt(n) == IF n.prefix THEN n.hex ELSE n.dec

Bit(n, b) == (n \div 2 ^ b) % 2 = 1

\* n & ~m on the bits that K addresses in A24 have.
AndNot(n, m) ==
  LET bits[b \in 0 .. 16] ==
        IF b = 0 THEN 0 ELSE bits[b - 1] + IF Bit(n, b - 1) /\ ~Bit(m, b - 1) THEN 2 ^ (b - 1) ELSE 0
  IN  bits[16]

-----------------------------------------------------------------------------
(* GreenSpring VIPC carriers.  p.args counts the parameters given.         *)

VipcIo(p) == IF p.args = 0 THEN 24576 ELSE ScanInt(p.io)

\* The memory of a card: slots of size K each, decoded from Origin, of which
\* only what lies at or above base can be reached.
Memory(am, base, size) == [am |-> am, base |-> base, size |-> size]
Origin(m, n) == IF m.am = "A24" /\ m.size # 0 THEN AndNot(m.base, m.size * n - 1) ELSE m.base
ClaimMemory(m, n) == Steps(<<Claim(m.am, m.base, Origin(m, n) + m.size * n - m.base)>>, m.size # 0)
SlotMemory(m, n, slot) ==
  LET addr == Origin(m, n) + m.size * slot
  IN  IF m.size = 0 \/ addr < m.base THEN NULL ELSE At(m.am, addr)

SizeLegal(size) == size \in 0 .. 2048 /\ size % 64 = 0
Size24(p, k) == IF p.args = k THEN p.size ELSE 0

Memory310(p) == Memory("A24", VipcIo(p) \div 4, Size24(p, 2))
Init310(p) ==
  <<Need(p.args = 0 \/ (VipcIo(p) <= 65024 /\ VipcIo(p) % 512 = 0 /\ SizeLegal(Size24(p, 2)))),
    Claim("A16", VipcIo(p), 512)>> \o ClaimMemory(Memory310(p), 2)

\* Address line 9 is part of the memory address only.
Io610(p) == (VipcIo(p) \div 1024) * 1024
Memory610(p) == Memory("A24", VipcIo(p) \div 4, Size24(p, 2))

\* Mutant: the last slot is left out of the range claimed.
Init610Short(p) ==
  <<Need(p.args = 0 \/ (VipcIo(p) <= 64512 /\ VipcIo(p) % 512 = 0 /\ SizeLegal(Size24(p, 2)))),
    Claim("A16", Io610(p), 1024)>> \o ClaimMemory(Memory610(p), 3)

Init610(p) ==
  <<Need(p.args = 0 \/ (VipcIo(p) <= 64512 /\ VipcIo(p) % 512 = 0 /\ SizeLegal(Size24(p, 2)))),
    Claim("A16", Io610(p), 1024)>> \o ClaimMemory(Memory610(p), 4)

\* Two parameters: 8 MB to a slot in A32; three: A24 with the size given.
Memory616(p) ==
  CASE p.args = 0 -> Memory("A32", 3407872, 8192)
    [] p.args = 1 -> Memory("A24", 0, 0)
    [] p.args = 2 -> Memory("A32", p.mem, 8192)
    [] p.args = 3 -> Memory("A24", p.mem, p.size)
Init616(p) ==
  <<Need(p.args = 0 \/ (/\ VipcIo(p) <= 64512 /\ VipcIo(p) % 1024 = 0
                        /\ p.args = 2 => p.mem % 32768 = 0
                        /\ p.args = 3 => p.mem % 128 = 0 /\ p.mem < 16384
                        /\ SizeLegal(Size24(p, 3)))),
    Claim("A16", VipcIo(p), 1024)>> \o ClaimMemory(Memory616(p), 4)

-----------------------------------------------------------------------------
(* TEWS TVME200: p.s is the sequence of the six switches.                  *)

TvmeIo(p) == p.s[1] * 4096 + p.s[2] * 256
TvmeMemory(p) ==
  LET base == (p.s[5] * 16 + p.s[6]) * 64 IN
  CASE p.s[4] = 0 -> Memory("A24", base, 0)
    [] p.s[4] \in 1 .. 7 -> Memory("A24", base, 16 * 2 ^ p.s[4])
    [] p.s[4] = 15 -> Memory("A32", base * 256, 8192)
    [] OTHER -> Memory("none", 0, 0)
InitTvme200(p) ==
  LET m == TvmeMemory(p) IN
  <<Need(Len(p.s) = 6), Need(p.s[2] % 4 = 0 /\ p.s[3] < 5), Claim("A16", TvmeIo(p), 1024),
    Do("levels"), Need(m.am # "none"), Need(m.size # 0 => m.base % (m.size * 4) = 0)>>
  \o Steps(<<Claim(m.am, m.base, m.size * 4)>>, m.size # 0)

\* tvmeIrqs: the levels of interrupts 0 and 1 of each slot for each setting of S3.
TvmeIrqs ==
  << <<0, 0, 0, 0, 0, 0, 0, 0>>, <<1, 2, 3, 4, 5, 6, 7, 0>>, <<4, 5, 2, 1, 4, 5, 2, 1>>,
     <<6, 4, 3, 1, 6, 4, 3, 1>>, <<1, 1, 2, 2, 3, 3, 4, 4>> >>

\* Without memory the pointer is still that of the register space.
TvmeMem(p, slot) ==
  LET m == TvmeMemory(p) IN
  IF m.size = 0 THEN At("A16", TvmeIo(p)) ELSE At(m.am, m.base + m.size * slot)

-----------------------------------------------------------------------------
(* Motorola MVME162: p.reset, and p.opts, the settings in the order given. *)

OptLegal(o, top) ==
  CASE o.opt = "m" -> /\ o.base >= top /\ o.aligned /\ o.size \in 64 .. 16384
                      /\ (o.base * 64 + o.size) % 4194304 <= 4193280
    [] o.opt = "l" -> o.l1 \in 0 .. 7 /\ o.l2 \in 0 .. 7
    [] o.opt = "r" -> o.time \in 0 .. 8
    [] o.opt = "w" -> o.width \in {8, 16} \/ (o.width = 32 /\ o.slot % 2 = 0)
InitMv162(p) ==
  <<Need(p.there)>> \o Steps(<<Do("reset")>>, p.reset) \o <<Do("clear")>>
  \o TwoEach(Len(p.opts), LAMBDA i : Need(OptLegal(p.opts[i], p.top)),
                          LAMBDA i : [do |-> "option", o |-> p.opts[i]])

-----------------------------------------------------------------------------
(* Acromag AVME-9660, 9668: p.mem, the memory settings in the order given. *)

InitXy9660(p) ==
  <<Need(p.given), Claim("A16", p.io, 1024), Need(p.level \in 0 .. 7), Need(p.there), Do("quiet")>>
  \o Steps(<<Do("reset")>>, p.reset) \o <<Do("arm")>>
  \o TwoEach(Len(p.mem),
             LAMBDA i : Need(p.mem[i].mb \in {1, 2, 4, 8} /\ p.mem[i].base % (p.mem[i].mb * 1024) = 0),
             LAMBDA i : Claim("A24", p.mem[i].base, p.mem[i].mb * 1024))

XyMem(p, slot) ==
  LET s == {i \in DOMAIN p.mem : p.mem[i].slot = slot}
  IN  IF s = {} THEN NULL ELSE At("A24", p.mem[Max(s)].base)

-----------------------------------------------------------------------------
(* Hytec 8002, 8004: p.membase is -1 when it is not given, ipclk too.      *)

ScanParm(p) ==
  /\ p.slot \in 0 .. 21 /\ p.level \in 0 .. 7
  /\ p.ipmem \in {1, 2, 4, 8}
  /\ p.membase # -1 => p.membase >= 0 /\ p.membase + p.ipmem * 64 <= 65535
  /\ p.ipclk \in {-1, 8, 32} /\ p.roak \in {0, 1}

\* checkVMEprom(): the board is there and says it is an 8002 or an 8004.
CheckVMEprom(p) == p.there /\ p.model \in {8002, 8004}

HyBase(p) ==
  IF p.membase >= 0 THEN p.membase * 64
  ELSE p.slot * (CASE p.ipmem = 1 -> 4096 [] p.ipmem = 2 -> 8192 [] OTHER -> 131072)

InitHy8002(p) ==
  <<Need(ScanParm(p)), Need(~(p.ipmem = 2 /\ p.slot > 15)), Need(~(p.ipmem = 4 /\ p.membase < 0)),
    Claim("A16", p.slot * 2048, 2048)>>
  \o Steps(<<Drop("A16", p.slot * 2048), Need(FALSE)>>, ~CheckVMEprom(p))
  \o <<Claim("A24", p.slot * 512, 2), Need(p.membase >= 0 => p.membase % (p.ipmem * 64) = 0),
       Claim("A32", HyBase(p), p.ipmem * 4096), Do("quiet"), Do("arm")>>

-----------------------------------------------------------------------------
(* GreenSpring ATC40: what sscanf found; memory sizes but 0x4000 are refused. *)

InitAtc40(p) == <<Need(p.args < 2 \/ p.size = 16384), Need(p.args < 3 \/ p.irq \in 0 .. 15), Do("list")>>
AtcIrq(p) == IF p.args < 3 THEN 11 ELSE p.irq

-----------------------------------------------------------------------------
(* The carrier tables.                                                     *)

VipcKinds == {"VIPC310", "VIPC610", "VIPC610-01", "VIPC616", "VIPC616-01"}
Kinds == VipcKinds \cup {"TVME200", "MVME162", "AVME96xx", "Hy8002", "ATC40"}

\* What the parameters are made of: numbers, switches, settings in a list.
Parameters(p) ==
  /\ p.kind \in VipcKinds => p.args \in 0 .. 3 /\ {ScanInt(p.io), p.mem, p.size} \subseteq Int
  /\ p.kind = "TVME200" => p.s \in Seq(0 .. 15) /\ Len(p.s) >= 6
  /\ p.kind = "MVME162" => Len(p.opts) \in Nat
  /\ p.kind = "AVME96xx" => p.io \in Int /\ p.mem \in Seq([slot : 0 .. 3, mb : Int, base : Int])
  /\ p.kind = "Hy8002" => {p.slot, p.membase, p.ipmem} \subseteq Int

numberSlots(kind) == CASE kind = "null" -> 0 [] kind = "VIPC310" -> 2 [] OTHER -> 4

initialise(p) ==
  CASE p.kind = "VIPC310" -> Init310(p)
    [] p.kind \in {"VIPC610", "VIPC610-01"} -> Init610(p)
    [] p.kind \in {"VIPC616", "VIPC616-01"} -> Init616(p)
    [] p.kind = "TVME200" -> InitTvme200(p)
    [] p.kind = "MVME162" -> InitMv162(p)
    [] p.kind = "AVME96xx" -> InitXy9660(p)
    [] p.kind = "Hy8002" -> InitHy8002(p)
    [] p.kind = "ATC40" -> InitAtc40(p)

IoBase(p) ==
  CASE p.kind \in {"VIPC310", "VIPC616", "VIPC616-01"} -> At("A16", VipcIo(p))
    [] p.kind \in {"VIPC610", "VIPC610-01"} -> At("A16", Io610(p))
    [] p.kind = "TVME200" -> At("A16", TvmeIo(p))
    [] p.kind = "MVME162" -> At("ipic", 0)
    [] p.kind = "AVME96xx" -> At("A16", p.io)
    [] p.kind = "Hy8002" -> At("A16", p.slot * 2048)
    [] p.kind = "ATC40" -> At("ISA", p.io)

\* baseAddr() of each driver; ipic is the address table of the MVME162.
baseAddr(p, slot, space, ipic) ==
  LET io == IoBase(p) IN
  CASE space = "IO" -> At(io.am, io.at + 256 * slot)
    [] space = "ID" -> At(io.am, io.at + 256 * slot + 128)
    [] space = "IO32" -> IF p.kind = "MVME162" /\ slot % 2 = 0 THEN At("ipic", 1024 + 128 * slot) ELSE NULL
    [] space = "Mem" ->
         CASE p.kind = "VIPC310" -> SlotMemory(Memory310(p), 2, slot)
           [] p.kind \in {"VIPC610", "VIPC610-01"} -> SlotMemory(Memory610(p), 4, slot)
           [] p.kind \in {"VIPC616", "VIPC616-01"} -> SlotMemory(Memory616(p), 4, slot)
           [] p.kind = "TVME200" -> TvmeMem(p, slot)
           [] p.kind = "MVME162" -> ipic[slot]
           [] p.kind = "AVME96xx" -> XyMem(p, slot)
           [] p.kind = "Hy8002" -> At("A32", HyBase(p) + p.ipmem * 1024 * slot)
           [] p.kind = "ATC40" -> At("ISA", p.io + 2048 * (slot + 1))

-----------------------------------------------------------------------------
(* Interrupt commands.  The state of a board: the level of each line       *)
(* <<slot, number>>, the lines it lets through, its global enable, the     *)
(* edge-triggered lines and the slots it clocks at 32 MHz.                 *)

Lines == (0 .. 3) \X {0, 1}

Done(b) == [status |-> "OK", value |-> 0, board |-> b, cpu |-> {}, reset |-> {}]
NotImplemented(b) == [Done(b) EXCEPT !.status = "notImplemented"]

Levels310 == <<4, 5, 2, 1>>
Levels610 == <<1, 2, 3, 4, 5, 6, 7, 0>>
Levels01  == <<4, 5, 2, 1, 4, 5, 2, 1>>
FixedLevel(kind, l) ==
  (CASE kind = "VIPC310" -> Levels310 [] kind \in {"VIPC610", "VIPC616"} -> Levels610 [] OTHER -> Levels01)
    [2 * l[1] + l[2] + 1]

IrqVipc(kind, b, l, cmd) ==
  CASE cmd[1] = "GetLevel" -> [Done(b) EXCEPT !.value = FixedLevel(kind, l)]
    [] cmd[1] = "Enable" -> [Done(b) EXCEPT !.cpu = {FixedLevel(kind, l)}]
    [] OTHER -> NotImplemented(b)
Irq610(kind, b, l, cmd) == IrqVipc(kind, b, l, cmd)
Irq616(kind, b, l, cmd) == IrqVipc(kind, b, l, cmd)

IrqTvme200(b, l, cmd) ==
  CASE cmd[1] = "Level" -> Done([b EXCEPT !.level[l] = cmd[2]])
    [] cmd[1] = "GetLevel" -> [Done(b) EXCEPT !.value = b.level[l]]
    [] cmd[1] = "Enable" -> [Done(b) EXCEPT !.cpu = {b.level[l]}]
    [] cmd[1] = "Poll" -> Done(b)
    [] cmd[1] = "slotReset" -> [Done(b) EXCEPT !.reset = {l[1]}]
    [] OTHER -> NotImplemented(b)

IrqMv162(b, l, cmd) ==
  CASE cmd[1] = "Level" -> Done([b EXCEPT !.level[l] = cmd[2]])
    [] cmd[1] = "GetLevel" -> [Done(b) EXCEPT !.value = b.level[l]]
    [] cmd[1] = "Enable" -> Done([b EXCEPT !.on = @ \cup {l}])
    [] cmd[1] = "Disable" -> Done([b EXCEPT !.on = @ \ {l}])
    [] cmd[1] = "SetEdge" -> Done([b EXCEPT !.edge = @ \cup {l}])
    [] cmd[1] = "SetLevel" -> Done([b EXCEPT !.edge = @ \ {l}])
    [] cmd[1] \in {"Poll", "Clear"} -> Done(b)
    [] OTHER -> NotImplemented(b)

IrqXy9660(b, l, cmd) ==
  CASE cmd[1] = "GetLevel" -> [Done(b) EXCEPT !.value = b.level[l]]
    [] cmd[1] = "Enable" -> Done([b EXCEPT !.on = @ \cup {l}])
    [] cmd[1] = "Disable" -> Done([b EXCEPT !.on = @ \ {l}])
    [] cmd[1] \in {"Poll", "Clear"} -> Done(b)
    [] OTHER -> NotImplemented(b)

IrqHy8002(b, l, cmd) ==
  CASE cmd[1] = "GetLevel" -> [Done(b) EXCEPT !.value = b.level[l]]
    [] cmd[1] = "Enable" -> Done([b EXCEPT !.on = @ \cup {l}])
    [] cmd[1] = "Disable" -> Done([b EXCEPT !.on = @ \ {l}])
    [] cmd[1] = "Poll" -> Done(b)
    [] OTHER -> NotImplemented(b)

IrqAtc40(p, b, cmd) ==
  CASE cmd[1] = "GetLevel" -> [Done(b) EXCEPT !.value = AtcIrq(p)]
    [] cmd[1] = "Enable" -> [Done([b EXCEPT !.gie = TRUE]) EXCEPT !.cpu = {AtcIrq(p)}]
    [] OTHER -> NotImplemented(b)

irqCmd(p, b, l, cmd) ==
  CASE p.kind = "VIPC310" -> IrqVipc(p.kind, b, l, cmd)
    [] p.kind \in {"VIPC610", "VIPC610-01"} -> Irq610(p.kind, b, l, cmd)
    [] p.kind \in {"VIPC616", "VIPC616-01"} -> Irq616(p.kind, b, l, cmd)
    [] p.kind = "TVME200" -> IrqTvme200(b, l, cmd)
    [] p.kind = "MVME162" -> IrqMv162(b, l, cmd)
    [] p.kind = "AVME96xx" -> IrqXy9660(b, l, cmd)
    [] p.kind = "Hy8002" -> IrqHy8002(b, l, cmd)
    [] p.kind = "ATC40" -> IrqAtc40(p, b, cmd)

-----------------------------------------------------------------------------
(* ID PROMs: sequences of 16-bit words; what lies behind them reads as 0.  *)

Word(prom, i) == IF i < Len(prom) THEN prom[i + 1] ELSE 0
Low(w) == w % 256
XorSet(a, b) == (a \cup b) \ (a \cap b)

\* The register of the CRC is the set of its one bits; the polynomial is 0x11021.
Shifted(crc, bit) ==
  LET c == {b + 1 : b \in IF bit THEN XorSet(crc, {15}) ELSE crc}
  IN  IF 16 \in c THEN XorSet(c, {16, 12, 5, 0}) ELSE c
Upto(n) == [k \in 1 .. n |-> k - 1]
WordIn(crc, w, bits) == FoldLeft(LAMBDA c, k : Shifted(c, Bit(w, bits - 1 - k)), crc, Upto(bits))
\* (The union of one set: it has TLC evaluate the register word by word.)
Crc(prom, length, bits, skip) ==
  FoldLeft(LAMBDA crc, i : UNION {WordIn(c, IF i = skip THEN 0 ELSE Word(prom, i), bits) : c \in {crc}},
           0 .. 15, Upto(length))
Inverted(crc, bits) == MapThenSumSet(LAMBDA b : 2 ^ b, (0 .. bits - 1) \ crc)
checkCRC_8(prom, length) == Inverted(Crc(prom, length, 8, 11), 8)
checkCRC16(prom, length) == Inverted(Crc(prom, length, 16, 12), 16)

\* ipcCheckId(): "IPAC", "IPAH" or "VITA4 ".
Format1(prom) == Low(Word(prom, 1)) = 80
ipcCheckId(prom) ==
  /\ Low(Word(prom, 0)) = 73
  /\ IF Format1(prom) THEN Low(Word(prom, 2)) = 65 /\ Low(Word(prom, 3)) \in {67, 72}
     ELSE Word(prom, 0) = 22089 /\ Word(prom, 1) = 21569 /\ Word(prom, 2) = 13344

\* ipmValidate() after ipmCheck().
PromValid(prom, manufacturer, model) ==
  LET bad == IF Format1(prom)
             THEN checkCRC_8(prom, Low(Word(prom, 10))) # Low(Word(prom, 11))
             ELSE Word(prom, 12) # 0 /\ Word(prom, 12) # checkCRC16(prom, Word(prom, 11))
      other == IF Format1(prom)
               THEN Low(Word(prom, 4)) # manufacturer \/ Low(Word(prom, 5)) # model
               ELSE Low(Word(prom, 3)) * 65536 + Word(prom, 4) # manufacturer \/ Word(prom, 5) # model
  IN  IF bad THEN "badCRC" ELSE IF other THEN "badModule" ELSE "OK"

\* What the Hytec and Acromag drivers read to choose the clock of a slot.
Wants32MHz(prom) ==
  /\ ipcCheckId(prom)
  /\ IF Format1(prom) THEN Low(Word(prom, 3)) = 72
     ELSE ~Bit(Word(prom, 10), 0) /\ Bit(Word(prom, 10), 2)

=============================================================================
