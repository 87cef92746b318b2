------------------------------ MODULE MCStartup ------------------------------
(* Machines and startup scripts for Startup.                               *)
EXTENDS Startup

-----------------------------------------------------------------------------
(* ID PROMs.                                                               *)

Sealed1(words) == Append(words, checkCRC_8(Append(words, 0), 12))
Sealed2(words) == Append(words, checkCRC16(Append(words, 0), 13))
Prom1(manufacturer, model) == Sealed1(<<73, 80, 65, 67, manufacturer, model, 1, 0, 0, 0, 12>>)
Prom2(manufacturer, model) == Sealed2(<<22089, 21569, 13344, 0, manufacturer, model, 1, 0, 0, 0, 4, 13>>)
Tip810 == Prom1(179, 1)
Octal232 == Prom1(240, 34)
OctalV4 == Prom2(240, 34)
Ip520 == Prom1(163, 36)

Flip(prom, i, b) == [prom EXCEPT ![i] = IF Bit(@, b) THEN @ - 2 ^ b ELSE @ + 2 ^ b]
Genuine(prom) == [prom |-> prom, good |-> TRUE]
\* (Of the wrong lengths only those up to 16 words.)
Flawed(prom, bits) ==
  LET n == Len(prom) - 1
      flips == {Flip(prom, x[1], x[2]) : x \in (DOMAIN prom) \X (0 .. bits - 1)}
  IN  {[prom |-> p, good |-> FALSE] : p \in {q \in flips : q[n] <= 16}}

-----------------------------------------------------------------------------
(* Carriers.                                                               *)

Hex(dec, hex) == [prefix |-> TRUE, dec |-> dec, hex |-> hex]
Vipc(kind, args, io, mem, size) == [kind |-> kind, args |-> args, io |-> Hex(0, io), mem |-> mem, size |-> size]
Tvme(s) == [kind |-> "TVME200", s |-> s]
Mv162(opts) == [kind |-> "MVME162", there |-> TRUE, reset |-> TRUE, top |-> 64, opts |-> opts]
MemOption(slot, base) == [opt |-> "m", slot |-> slot, base |-> base, aligned |-> TRUE, size |-> 64]
LevelOption(slot, level) == [opt |-> "l", slot |-> slot, l1 |-> level, l2 |-> level]
WideOption(slot) == [opt |-> "w", slot |-> slot, width |-> 32]
Acromag(io, level, mem) ==
  [kind |-> "AVME96xx", given |-> TRUE, io |-> io, level |-> level, there |-> TRUE, reset |-> TRUE, model |-> 9660, mem |-> mem]
Hytec(slot, level, ipmem, membase) ==
  [kind |-> "Hy8002", slot |-> slot, level |-> level, ipmem |-> ipmem, membase |-> membase, ipclk |-> -1, roak |-> 0,
   there |-> TRUE, model |-> 8004]
Atc40(io) == [kind |-> "ATC40", args |-> 1, io |-> io, size |-> 16384, irq |-> 11]

-----------------------------------------------------------------------------
(* Calls.                                                                  *)

Add(p) == [op |-> "add", p |-> p]
CanCreate(name, card, slot, vec, rate) ==
  [op |-> "t810Create", name |-> name, card |-> card, slot |-> slot, vec |-> vec, rate |-> rate]
CanInit == [op |-> "t810Initialise"]
OctalDrv(max) == [op |-> "tyGSOctalDrv", max |-> max]
OctalInit(id, vec, card, slot) ==
  [op |-> "tyGSOctalModuleInit", id |-> id, type |-> "232", vec |-> vec, card |-> card, slot |-> slot]
OctalDev(id, port) == [op |-> "tyGSOctalDevCreate", id |-> id, port |-> port]
OctalAll(id) == [op |-> "tyGSOctalDevCreateAll", id |-> id]
Ip520Drv(max) == [op |-> "IP520Drv", max |-> max]
Ip520Init(id, vec, card, slot) ==
  [op |-> "IP520ModuleInit", id |-> id, type |-> "232", vec |-> vec, card |-> card, slot |-> slot]
Ip520Dev(id, port) == [op |-> "IP520DevCreate", id |-> id, port |-> port]
Ip520All(id) == [op |-> "IP520DevCreateAll", id |-> id]
Irq(card, slot, n, cmd, v) == [op |-> "irq", card |-> card, slot |-> slot, n |-> <<n, <<cmd, v>>>>]
Connect(card, slot, vec, isr) == [op |-> "connect", card |-> card, slot |-> slot, vec |-> vec, isr |-> isr]

\* A machine with the boards that the script adds, and modules on board p.
World(p, mods, script) ==
  [boards |-> [b \in {IoBase(c.p) : c \in {d \in script : d.op = "add" /\ d.p.kind \in Kinds}} |->
                 (CHOOSE c \in script : c.op = "add" /\ c.p.kind \in Kinds /\ IoBase(c.p) = b).p.kind],
   plugged |-> [m \in {<<IoBase(p), i - 1>> : i \in {j \in DOMAIN mods : mods[j].prom # <<>>}} |-> mods[m[2] + 1]],
   script |-> script, attachFails |-> FALSE, jam |-> FALSE]
Empty == [prom |-> <<>>, good |-> TRUE]

-----------------------------------------------------------------------------

(* The machines.                                                           *)

Vipc610 == Vipc("VIPC610", 2, 24576, 0, 64)
AcromagA == Acromag(32768, 5, <<[slot |-> 0, mb |-> 1, base |-> 2048], [slot |-> 1, mb |-> 2, base |-> 4096]>>)
HytecA == Hytec(3, 4, 1, 64)
TvmeA == Tvme(<<4, 0, 1, 3, 2, 0>>)
Mv162A == Mv162(<<MemOption(0, 128), MemOption(1, 129), LevelOption(0, 3), LevelOption(1, 4)>>)
Mv162B == Mv162(<<MemOption(0, 128), MemOption(1, 129), WideOption(0), LevelOption(0, 3)>>)
Sockets == {Vipc610, AcromagA, HytecA, TvmeA, Mv162A, Mv162B, Atc40(655360)}

\* One module table: duplicates, failures, blank and spare entries.
Serials(p) ==
  World(p, <<Genuine(Octal232), Genuine(OctalV4)>>,
        {Add(p), OctalDrv(3), OctalInit("A", 96, 0, 0), OctalInit("B", 96, 0, 1), OctalInit("B", 97, 0, 1), OctalDev("B", 1)})

\* Modules of different kinds on one carrier; the vector 98 is wanted twice.
Simple == <<Genuine(Octal232), Genuine(Tip810), Genuine(Ip520)>>
MixedCan(p) ==
  World(p, Simple, {Add(p), CanCreate("c", 0, 1, 98, 500), CanInit, OctalDrv(1), OctalInit("A", 98, 0, 0), OctalAll("A")})
MixedIp520(p) ==
  World(p, Simple, {Add(p), Ip520Drv(2), Ip520Init("I", 99, 0, 2), Ip520Init("I", 300, 0, 2), Ip520Dev("I", 0), Ip520All("I")})
TwoCans(p) ==
  World(p, <<Genuine(Tip810), Genuine(Tip810)>>,
        {Add(p), CanCreate("c", 0, 0, 96, 500), CanCreate("c", 0, 1, 96, -1000), CanCreate("d", 0, 1, 96, 125),
         CanCreate("d", 0, 2, 96, 125), CanInit})

\* A table of one entry, full: what comes after it is beyond it.
FullOctal(p) ==
  World(p, <<Genuine(Octal232), Genuine(OctalV4)>>,
        {Add(p), OctalDrv(1), OctalInit("A", 96, 0, 0), OctalInit("B", 97, 0, 1), OctalDev("A", 0), OctalDev("B", 1)})
FullIp520(p) ==
  World(p, <<Genuine(Ip520), Genuine(Ip520)>>,
        {Add(p), Ip520Drv(1), Ip520Init("I", 99, 0, 0), Ip520Init("J", 100, 0, 1), Ip520Dev("I", 0), Ip520Dev("J", 1)})

\* The TVME200 as it leaves the factory has no memory: a vector lost on the TIP810 in slot 0.
Factory == Tvme(<<6, 0, 1, 0, 13, 0>>)
Lost ==
  World(Factory, <<Genuine(Tip810), Genuine(OctalV4)>>,
        {Add(Factory), CanCreate("c", 0, 0, 97, 500), CanInit, OctalDrv(1), OctalInit("A", 98, 0, 1), OctalAll("A")})

\* Carriers side by side: ranges that meet, and more carriers than there is room for.
Bad == [kind |-> "bad"]
Beside(ps) == World(Vipc610, <<>>, {Add(p) : p \in ps})
Besides ==
  {Beside({Vipc610, Vipc("VIPC310", 2, 24064, 0, 256), Vipc("VIPC610-01", 2, 26112, 0, 128), Vipc("VIPC616", 3, 25600, 6144, 64), Bad}),
   Beside({AcromagA, Tvme(<<8, 4, 2, 6, 2, 0>>), Vipc("VIPC616-01", 3, 34816, 2176, 256), HytecA, Hytec(4, 2, 2, -1)}),
   Beside({Vipc("VIPC616", 2, 1024, 65536, 0), Tvme(<<1, 0, 3, 15, 0, 1>>), Hytec(2, 4, 8, 1024), Hytec(15, 1, 2, -1), Hytec(16, 1, 2, -1)}),
   Beside({Mv162(<<MemOption(0, 32)>>), Mv162A, Atc40(655360), Vipc("VIPC310", 0, 0, 0, 0), Vipc("VIPC310", 1, 25088, 0, 0)}),
   Beside({Tvme(<<6, 0, 4, 9, 2, 0>>), Tvme(<<6, 1, 4, 0, 2, 0>>), [HytecA EXCEPT !.there = FALSE], [HytecA EXCEPT !.ipclk = 32],
           [AcromagA EXCEPT !.model = 9668]})}

\* Every interrupt command, and vectors connected and taken back by hand.
Commands == {"GetLevel", "Enable", "Disable", "Poll", "SetEdge", "SetLevel", "Clear", "slotReset"}
ByHand(p) ==
  World(p, Simple, {Add(p), Irq(0, 1, 0, "Level", 2)} \cup {Irq(0, 1, 0, cmd, 0) : cmd \in Commands} \cup {Irq(0, 1, 2, "Enable", 0)})
Other(i) == [driver |-> "other", index |-> i]
Vectored(p) ==
  World(p, Simple, {Add(p), Add(Bad), Connect(0, 1, 255, Other(1)), Connect(0, 2, 255, Other(2)), Connect(0, 1, 255, Nobody),
                    Connect(1, 7, 40, Other(1)), Connect(0, -1, 40, Other(1))})

\* A PROM with one bit wrong.
Flaws ==
  {World(Vipc610, <<m>>, {Add(Vipc610), CanCreate("c", 0, 0, 96, 500)}) : m \in Flawed(Tip810, 8)}
  \cup {World(Vipc610, <<m>>, {Add(Vipc610), Ip520Drv(1), Ip520Init("I", 99, 0, 0)}) : m \in Flawed(Ip520, 8)}
  \cup {World(Vipc610, <<m>>, {Add(Vipc610), OctalDrv(1), OctalInit("A", 96, 0, 0)}) : m \in Flawed(OctalV4, 16)}

MCWorlds ==
  {Serials(p) : p \in Sockets \cup {Factory}} \cup {FullOctal(Vipc610), FullIp520(TvmeA), Lost} \cup {MixedCan(p) : p \in {HytecA, Atc40(655360)}}
  \cup {MixedIp520(p) : p \in {Vipc610, Atc40(655360)}}
  \cup {[MixedCan(Atc40(655360)) EXCEPT !.jam = TRUE], [MixedCan(Atc40(655360)) EXCEPT !.attachFails = TRUE]}
  \cup {TwoCans(Vipc610)} \cup Besides \cup {ByHand(p) : p \in {TvmeA, Mv162A, AcromagA}}
  \cup {Vectored(p) : p \in {Vipc610, Atc40(655360)}} \cup Flaws

\* What a theorem asks of the machines.
ASSUME MCFlawsFound == FlawsFound

-----------------------------------------------------------------------------
(* Machines for the configurations that show what the code does not keep.  *)

FactoryWorlds == {Serials(Factory)}
RepeatWorlds == {Serials(Vipc610)}

=============================================================================
