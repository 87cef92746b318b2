------------------------------- MODULE Carriers -------------------------------
(***************************************************************************)
(* The carrier registry of drvIpac.c and the carrier boards under it: the  *)
(* table of carriers, the bus addresses claimed, the interrupt state of    *)
(* every board, and what the ipm calls of a module driver find there.      *)
(*                                                                         *)
(* A board is named by the address of its registers, a module by its board *)
(* and slot.  world is the machine: which modules are plugged in where,    *)
(* with which ID PROM, and which calls the startup script may make; it     *)
(* never changes.                                                          *)
(***************************************************************************)
EXTENDS CarrierData

CONSTANT IPAC_MAX_CARRIERS

ASSUME CarrierAssumption == IPAC_MAX_CARRIERS \in Nat \ {0}

VARIABLES
  world,      \* boards: their kinds; plugged: the ID PROMs; calls; top-level choices
  carriers,   \* carriers.info: sequence of [driver, p]; carrier numbers start at 0
  latest,     \* carriers.latest
  regions,    \* the ranges registered with devLib
  boards,     \* interrupt state of every board
  modules,    \* of every module: its vector register, and what of it may interrupt
  cpuLevels,  \* interrupt levels the processor listens to
  ipic,       \* static tables of the MVME162 driver: [mem, men, initialised]
  hooks       \* exit and reboot hooks

busVars == <<carriers, latest, regions, boards, modules, cpuLevels, ipic, hooks>>

USHRT_MAX == 65535
number == Len(carriers)
Info(card) == carriers[card + 1]

Modules == DOMAIN world.plugged
ColdModule == [vec |-> 255, on |-> {}]
ColdBoard == [level |-> [l \in Lines |-> 0], on |-> {}, gie |-> FALSE, edge |-> {}, fast |-> {}]

CarriersInit ==
  /\ carriers = <<>> /\ latest = USHRT_MAX
  /\ regions = {} /\ cpuLevels = {} /\ hooks = {}
  /\ boards = [b \in DOMAIN world.boards |-> ColdBoard]
  /\ modules = [m \in Modules |-> ColdModule]
  /\ ipic = [mem |-> [s \in 0 .. 3 |-> NULL], men |-> {}, initialised |-> FALSE]

-----------------------------------------------------------------------------
(* devLib: a range is claimed by one board, inside its address space.      *)

SpaceSize(am) == CASE am = "A16" -> 65536 [] am = "A24" -> 16384 [] am = "A32" -> 4194304

Overlap(r, s) == r.am = s.am /\ r.at < s.at + s.size /\ s.at < r.at + r.size

Claimable(rs, r) == r.at + r.size <= SpaceSize(r.am) /\ \A s \in rs : ~Overlap(r, s)

-----------------------------------------------------------------------------
(* What an initialise routine does to its board.                           *)

\* The slots a board clocks at 32 MHz: a 9668, or an 8004 that is not told how.
Fast(p) ==
  CASE p.kind = "Hy8002" /\ p.ipclk = 32 -> 0 .. 3
    [] p.model \in {9668, 8004} /\ (p.kind = "Hy8002" => p.ipclk = -1) ->
         {s \in 0 .. 3 : <<IoBase(p), s>> \in Modules /\ Wants32MHz(world.plugged[<<IoBase(p), s>>].prom)}
    [] OTHER -> {}

\* The MVME162 driver stores each setting as it reads it.
Option(a, o) ==
  CASE o.opt = "m" -> [a EXCEPT !.ipic.mem[o.slot] = At("local", o.base), !.ipic.men = @ \cup {o.slot}]
    [] o.opt = "l" -> [a EXCEPT !.board.level[<<o.slot, 0>>] = o.l1, !.board.level[<<o.slot, 1>>] = o.l2]
    [] o.opt = "w" -> [a EXCEPT !.ipic.men = IF o.width = 32 THEN @ \ {o.slot + 1} ELSE @]
    [] OTHER -> a

Program(p, a, s) ==
  CASE s.do = "levels" -> [a EXCEPT !.board.level = [l \in Lines |-> TvmeIrqs[p.s[3] + 1][2 * l[1] + l[2] + 1]]]
    [] s.do = "reset" -> [a EXCEPT !.reset = 0 .. 3]
    [] s.do = "quiet" -> [a EXCEPT !.board.on = {}, !.board.gie = FALSE, !.board.fast = {}]
    [] s.do = "clear" -> [a EXCEPT !.board = ColdBoard, !.ipic.men = {}]
    [] s.do = "option" -> Option(a, s.o)
    [] s.do = "arm" -> [a EXCEPT !.board.level = [l \in Lines |-> p.level], !.board.gie = TRUE,
                                 !.board.fast = Fast(p), !.cpu = {p.level}, !.hook = {<<"board", IoBase(p)>>}]
    [] s.do = "list" -> [a EXCEPT !.board.gie = FALSE, !.hook = {<<"board", IoBase(p)>>}]

\* One step of an initialise routine, unless an earlier one failed.
Step(p, a, s) ==
  IF ~a.ok THEN a ELSE
  CASE s.do = "pass" -> a
    [] s.do = "fail" -> [a EXCEPT !.ok = FALSE]
    [] s.do = "claim" -> LET r == [am |-> s.am, at |-> s.at, size |-> s.size] IN
         IF Claimable(a.regions, r) THEN [a EXCEPT !.regions = @ \cup {r}] ELSE [a EXCEPT !.ok = FALSE]
    [] s.do = "drop" -> [a EXCEPT !.regions = {r \in @ : r.am # s.am \/ r.at # s.at}]
    [] OTHER -> Program(p, a, s)

Begun(p) ==
  [ok |-> ~(p.kind = "MVME162" /\ ipic.initialised), regions |-> regions, board |-> boards[IoBase(p)],
   cpu |-> {}, reset |-> {}, hook |-> {}, ipic |-> ipic]

Initialised(p) ==
  LET steps == initialise(p)
      after[n \in 0 .. Len(steps)] == IF n = 0 THEN Begun(p) ELSE Step(p, after[n - 1], steps[n])
  IN  after[Len(steps)]

-----------------------------------------------------------------------------
(* ipacAddCarrier(): the number is taken and the null carrier entered      *)
(* before the driver is asked.                                             *)

Number(driver, p) ==
  /\ latest' = number
  /\ carriers' = Append(carriers, [driver |-> driver, p |-> p])

Reset(ms) == [m \in Modules |-> IF m \in ms THEN ColdModule ELSE modules[m]]

\* What the routine did to its board stays when it fails, too.
Effects(p, a) ==
  /\ regions' = a.regions
  /\ ipic' = [a.ipic EXCEPT !.initialised = @ \/ (a.ok /\ p.kind = "MVME162")]
  /\ boards' = [boards EXCEPT ![IoBase(p)] = a.board]
  /\ modules' = Reset({<<IoBase(p), s>> : s \in a.reset})
  /\ cpuLevels' = cpuLevels \cup a.cpu
  /\ hooks' = hooks \cup a.hook

AddDriver(p) ==
  LET a == Initialised(p) IN Number(IF a.ok THEN p.kind ELSE "null", p) /\ Effects(p, a)

ipacAddCarrier(p) ==
  \/ /\ number >= IPAC_MAX_CARRIERS
     /\ latest' = USHRT_MAX
     /\ UNCHANGED <<carriers, regions, boards, modules, cpuLevels, ipic, hooks>>
  \/ /\ number < IPAC_MAX_CARRIERS /\ p.kind \notin Kinds   \* no table, or a bad one
     /\ Number("null", p)
     /\ UNCHANGED <<regions, boards, modules, cpuLevels, ipic, hooks>>
  \/ /\ number < IPAC_MAX_CARRIERS /\ p.kind \in Kinds
     /\ AddDriver(p)

-----------------------------------------------------------------------------
(* The ipm calls.                                                          *)

LegalCard(card) == card \in 0 .. number - 1
LegalSlot(card, slot) == LegalCard(card) /\ slot \in 0 .. numberSlots(Info(card).driver) - 1

ModuleAt(card, slot) == <<IoBase(Info(card).p), slot>>

ipmBaseAddr(card, slot, space) ==
  IF LegalSlot(card, slot) THEN baseAddr(Info(card).p, slot, space, ipic.mem) ELSE NULL

ipmCheck(card, slot) ==
  CASE ~LegalSlot(card, slot) -> "badAddress"
    [] LegalSlot(card, slot) /\ ModuleAt(card, slot) \notin Modules -> "noModule"
    [] OTHER -> IF ipcCheckId(world.plugged[ModuleAt(card, slot)].prom) THEN "OK" ELSE "noIpacId"

\* Mutant: a module of the right type is accepted without a look at its checksum.
ipmValidateIds(card, slot, manufacturer, model) ==
  LET prom == world.plugged[ModuleAt(card, slot)].prom IN
  IF ipmCheck(card, slot) # "OK" THEN ipmCheck(card, slot)
  ELSE IF Low(Word(prom, 4)) = manufacturer /\ Low(Word(prom, 5)) = model THEN "OK" ELSE "badModule"

ipmValidate(card, slot, manufacturer, model) ==
  IF ipmCheck(card, slot) # "OK" THEN ipmCheck(card, slot)
  ELSE PromValid(world.plugged[ModuleAt(card, slot)].prom, manufacturer, model)

\* The board state and processor levels after a sequence of commands <<line, cmd>>.
Command(p, slot, a, n) ==
  LET r == irqCmd(p, a.board, <<slot, n[1]>>, n[2])
  IN  [board |-> r.board, cpu |-> a.cpu \cup r.cpu, reset |-> a.reset \cup r.reset]

Commanded(card, slot, b, ns) ==
  LET after[n \in 0 .. Len(ns)] ==
        IF n = 0 THEN [board |-> b, cpu |-> {}, reset |-> {}] ELSE Command(Info(card).p, slot, after[n - 1], ns[n])
  IN  after[Len(ns)]

\* ipmIrqCmd(), called once for each member of ns.
LegalLines(card, slot, ns) == LegalSlot(card, slot) /\ \A i \in DOMAIN ns : ns[i][1] \in {0, 1}
ipmIrqCmd(card, slot, ns) ==
  IF LegalLines(card, slot, ns)
  THEN LET b == IoBase(Info(card).p)
           a == Commanded(card, slot, boards[b], ns)
       IN  boards' = [boards EXCEPT ![b] = a.board] /\ cpuLevels' = cpuLevels \cup a.cpu
  ELSE UNCHANGED <<boards, cpuLevels>>

\* The modules those calls reset.
ResetBy(card, slot, ns) ==
  IF LegalLines(card, slot, ns)
  THEN {<<IoBase(Info(card).p), s>> : s \in Commanded(card, slot, boards[IoBase(Info(card).p)], ns).reset}
  ELSE {}

\* Whether a board hands interrupt n of a slot on to the processor.
LevelOf(b, l) == IF world.boards[b] \in VipcKinds THEN FixedLevel(world.boards[b], l) ELSE boards[b].level[l]

Passes(b, l, attached) ==
  LET kind == world.boards[b] IN
  CASE kind \in VipcKinds \cup {"TVME200"} -> LevelOf(b, l) \in cpuLevels \ {0}
    [] kind = "MVME162" -> l \in boards[b].on /\ LevelOf(b, l) # 0
    [] kind \in {"AVME96xx", "Hy8002"} ->
         l \in boards[b].on /\ boards[b].gie /\ LevelOf(b, l) \in cpuLevels \ {0}
    [] kind = "ATC40" -> boards[b].gie /\ attached

=============================================================================
