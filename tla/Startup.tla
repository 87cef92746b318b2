-------------------------------- MODULE Startup --------------------------------
(***************************************************************************)
(* Bringing the modules up and down: the startup script that adds carriers *)
(* and registers TIP810, Octal and IP520 modules on them, the interrupt    *)
(* vectors they connect, the dispatcher of the ATC40 carriers, and the     *)
(* exit and reboot hooks (drvIpac.c, drvAtc40.c, drvTip810.c, tyGSOctal.c, *)
(* ip520.c).  What the drivers do once a port or a CAN bus runs is in      *)
(* CanTransmit, CanRead, Octal and Ip520.                                  *)
(*                                                                         *)
(* The shell makes the calls of world.script in any order, CallLimit of    *)
(* them at most.  A reboot may come between any two steps.                 *)
(***************************************************************************)
EXTENDS Carriers

CONSTANTS
  CallLimit,  \* calls the shell makes
  Worlds      \* machines and scripts to start with

ASSUME CallAssumption == CallLimit \in Nat

Registers == {"t810Create", "tyGSOctalModuleInit", "IP520ModuleInit"}
Creates == {"tyGSOctalDevCreate", "tyGSOctalDevCreateAll", "IP520DevCreate", "IP520DevCreateAll"}

\* The boards that the script adds are there, and those with modules are of the
\* kind that it takes them for; the module drivers are given vectors and names;
\* and the interrupts of a module that a driver takes up are left to the driver.
LegalWorld(w) ==
  LET Calls(ops) == {c \in w.script : c.op \in ops}
      Added == {c \in Calls({"add"}) : c.p.kind \in Kinds} IN
  /\ \A c \in Added :
       /\ Parameters(c.p) /\ IoBase(c.p) \in DOMAIN w.boards
       /\ \A m \in DOMAIN w.plugged : m[1] = IoBase(c.p) => w.boards[m[1]] = c.p.kind
  /\ \A c \in Calls(Registers) : c.vec \in Int
  /\ \A c \in Calls({"tyGSOctalDrv", "IP520Drv"}) : c.max \in Nat
  /\ \A c \in Calls((Creates \cup Registers) \ {"t810Create"}) : c.id # "NULL"
  /\ \A c \in Calls({"irq", "connect"}), d \in Calls(Registers) : c.card # d.card \/ c.slot # d.slot

ASSUME WorldAssumption == \A w \in Worlds : LegalWorld(w)

VARIABLES
  vme,       \* VMEbus vector table: the routine behind each vector
  atc,       \* intDispatchTable of the ATC40 driver
  attached,  \* whether the ISA interrupt has the ATC40 routine (all carriers on one level)
  can,       \* the list of TIP810 devices, in the order created
  started,   \* t810Initialise ran
  tty,       \* the module tables of the two serial drivers
  pc,        \* the port tyGSOctalDevCreate or a call like it is at
  calls,     \* calls made
  phase      \* "up", "rebooting", "down", or "crashed"

startVars == <<vme, atc, attached, can, started, tty, pc, calls, phase>>
vars == <<world, busVars, startVars>>

Vectors == 0 .. 255
Ports == 0 .. 7
Serial == {"octal", "ip520"}
Routine(driver, index) == [driver |-> driver, index |-> index]
Nobody == Routine("none", 0)
Idle == [drv |-> "none", mod |-> 0, port |-> 0, all |-> FALSE, hot |-> FALSE]

\* A module table as calloc leaves it: every entry is carrier 0, slot 0, no name.
Blank == [id |-> "NULL", card |-> 0, slot |-> 0, vec |-> 0, ready |-> FALSE, created |-> {}]

StartupInit ==
  /\ CarriersInit
  /\ vme = <<>> /\ atc = <<>> /\ attached = FALSE
  /\ can = <<>> /\ started = FALSE
  /\ tty = [d \in Serial |-> [installed |-> FALSE, last |-> 0, table |-> <<>>]]
  /\ pc = Idle /\ calls = 0 /\ phase = "up"

\* The shell makes a call.
Shell == /\ phase = "up" /\ pc = Idle /\ calls < CallLimit
         /\ calls' = calls + 1

-----------------------------------------------------------------------------
(* ipmIntConnect().  The slot is not compared with the carrier's, and a    *)
(* carrier without a routine of its own, the null one too, has the vector  *)
(* connected on the VMEbus.  atc holds the entries of intDispatchTable     *)
(* that are not those of a new table.                                      *)

Set(f, v, x) == [u \in DOMAIN f \cup {v} |-> IF u = v THEN x ELSE f[u]]
Unset(f, v) == [u \in DOMAIN f \ {v} |-> f[u]]
Connection(status, v, a, att) == [status |-> status, vme |-> v, atc |-> a, attached |-> att]

Entry(isr, card, slot) == [isr |-> isr, card |-> card, slot |-> slot]
Owned(vec) == vec \in DOMAIN atc /\ atc[vec].isr.driver # "quiet"

\* Mutant: whoever comes last has the vector.
intVecConnectLast(card, slot, vec, isr) ==
  IF isr = Nobody THEN Connection("OK", vme, Unset(atc, vec), attached)
  ELSE Connection("OK", vme, Set(atc, vec, Entry(isr, card, slot)), attached \/ ~world.attachFails)

\* A failure to attach to the ISA interrupt is only logged.
intVecConnectLocked(card, slot, vec, isr) ==
  CASE ~Owned(vec) /\ isr = Nobody -> Connection("OK", vme, atc, attached)
    [] Owned(vec) /\ (atc[vec].card # card \/ atc[vec].slot # slot) ->
         Connection("vectorInUse", vme, atc, attached)
    [] Owned(vec) /\ atc[vec].card = card /\ atc[vec].slot = slot /\ isr = Nobody ->
         Connection("OK", vme, Unset(atc, vec), attached)
    [] OTHER ->
         Connection("OK", vme, Set(atc, vec, Entry(isr, card, slot)), attached \/ ~world.attachFails)

ipmIntConnect(card, slot, vec, isr) ==
  IF ~(LegalCard(card) /\ slot >= 0 /\ vec \in Vectors) THEN Connection("badAddress", vme, atc, attached)
  ELSE IF Info(card).driver = "ATC40" THEN intVecConnectLocked(card, slot, vec, isr)
  ELSE IF vec \in DOMAIN vme THEN Connection("vectorInUse", vme, atc, attached)
  ELSE Connection("OK", Set(vme, vec, isr), atc, attached)

Connected(c) == vme' = c.vme /\ atc' = c.atc /\ attached' = c.attached

\* The routine a vector leads to from a board.
Handler(b, vec) ==
  LET table == IF world.boards[b] = "ATC40" THEN [v \in DOMAIN atc |-> atc[v].isr] ELSE vme
  IN  IF vec \in DOMAIN table THEN table[vec] ELSE Nobody

-----------------------------------------------------------------------------
(* Calls of the shell to the carrier layer itself.                         *)

AddCarrier(c) ==
  /\ c.op = "add" /\ Shell
  /\ ipacAddCarrier(c.p)
  /\ UNCHANGED <<world, vme, atc, attached, can, started, tty, pc, phase>>

IrqCommand(c) ==
  /\ c.op = "irq" /\ Shell
  /\ ipmIrqCmd(c.card, c.slot, <<c.n>>)
  /\ modules' = Reset(ResetBy(c.card, c.slot, <<c.n>>))
  /\ UNCHANGED <<world, carriers, latest, regions, ipic, hooks, vme, atc, attached, can, started, tty, pc, phase>>

IntConnect(c) ==
  /\ c.op = "connect" /\ Shell
  /\ Connected(ipmIntConnect(c.card, c.slot, c.vec, c.isr))
  /\ UNCHANGED <<world, busVars, can, started, tty, pc, phase>>

-----------------------------------------------------------------------------
(* TIP810 modules.                                                         *)

BusRates == {5, 10, 20, 50, 100, 125, 250, 500, 1000, 1600, -125, -250, -500, -1000}
Board(card) == IoBase(Info(card).p)
Place(e) == <<Board(e.card), e.slot>>

\* Mutant: only the place of a device has to be new.
t810CreateAnyName(c) ==
  /\ c.op = "t810Create" /\ Shell
  /\ IF /\ ipmValidate(c.card, c.slot, 179, 1) = "OK"
        /\ c.rate \in BusRates
        /\ \A i \in DOMAIN can : can[i].card # c.card \/ can[i].slot # c.slot
     THEN /\ can' = Append(can, [name |-> c.name, card |-> c.card, slot |-> c.slot, vec |-> c.vec, ready |-> FALSE])
          /\ modules' = [modules EXCEPT ![<<Board(c.card), c.slot>>].on = {}]
     ELSE UNCHANGED <<can, modules>>
  /\ UNCHANGED <<world, carriers, latest, regions, boards, cpuLevels, ipic, hooks,
                 vme, atc, attached, started, tty, pc, phase>>

t810Create(c) ==
  /\ c.op = "t810Create" /\ Shell
  /\ IF /\ ipmValidate(c.card, c.slot, 179, 1) = "OK"
        /\ c.rate \in BusRates
        /\ \A i \in DOMAIN can : can[i].name # c.name /\ (can[i].card # c.card \/ can[i].slot # c.slot)
     THEN /\ can' = Append(can, [name |-> c.name, card |-> c.card, slot |-> c.slot, vec |-> c.vec, ready |-> FALSE])
          /\ modules' = [modules EXCEPT ![<<Board(c.card), c.slot>>].on = {}]
     ELSE UNCHANGED <<can, modules>>
  /\ UNCHANGED <<world, carriers, latest, regions, boards, cpuLevels, ipic, hooks,
                 vme, atc, attached, started, tty, pc, phase>>

EnableOne == <<<<0, <<"Enable", 0>>>>>>

\* iocInit calls it once.  The exit hook comes before the devices.
t810Initialise(c) ==
  /\ c.op = "t810Initialise" /\ Shell /\ ~started
  /\ started' = TRUE
  /\ hooks' = hooks \cup {<<"can">>}
  /\ pc' = [Idle EXCEPT !.drv = "can", !.mod = 1]
  /\ UNCHANGED <<world, carriers, latest, regions, boards, modules, cpuLevels, ipic,
                 vme, atc, attached, can, tty, phase>>

\* One device of the list: whether or not the vector could be connected, it is
\* written to the module, the interrupt enabled and the chip started.
InitDevice ==
  LET i == pc.mod
      d == can[i]
      r == ipmIntConnect(d.card, d.slot, d.vec, Routine("can", i))
  IN
  /\ phase = "up" /\ pc.drv = "can" /\ i <= Len(can)
  /\ Connected(r)
  /\ ipmIrqCmd(d.card, d.slot, EnableOne)
  /\ modules' = [modules EXCEPT ![Place(d)] = [vec |-> d.vec % 256, on |-> {0}]]
  /\ can' = [can EXCEPT ![i].ready = r.status = "OK"]
  /\ pc' = [pc EXCEPT !.mod = i + 1]
  /\ UNCHANGED <<world, carriers, latest, regions, ipic, hooks, started, tty, calls, phase>>

InitialiseDone ==
  /\ phase = "up" /\ pc.drv = "can" /\ pc.mod > Len(can)
  /\ pc' = Idle
  /\ UNCHANGED <<world, busVars, vme, atc, attached, can, started, tty, calls, phase>>

-----------------------------------------------------------------------------
(* The serial drivers keep their modules in a table of maxModules entries. *)
(* An entry beyond the last is filled in before anything can fail, and     *)
(* stays filled in when something does.                                    *)

BothLines == <<<<0, <<"Enable", 0>>>>, <<1, <<"Enable", 0>>>>, <<0, <<"statActive", 0>>>>>>

\* The entries that count.  last may be beyond the table: what a driver reads
\* there it may take for anything, or the system ends.
Counted(t) == {i \in DOMAIN t.table : i <= t.last}
Beyond(t) == t.last > Len(t.table)
Known(t, card, slot) == \E i \in Counted(t) : t.table[i].card = card /\ t.table[i].slot = slot

\* Driver installation, the same in both drivers.
Install(drv, max) ==
  IF tty[drv].installed THEN UNCHANGED <<tty, hooks>>
  ELSE /\ tty' = [tty EXCEPT ![drv] = [installed |-> TRUE, last |-> 0, table |-> [i \in 1 .. max |-> Blank]]]
       /\ hooks' = hooks \cup {<<drv>>}

tyGSOctalDrv(c) ==
  /\ c.op = "tyGSOctalDrv" /\ Shell
  /\ Install("octal", c.max)
  /\ UNCHANGED <<world, carriers, latest, regions, boards, modules, cpuLevels, ipic,
                 vme, atc, attached, can, started, pc, phase>>

IP520Drv(c) ==
  /\ c.op = "IP520Drv" /\ Shell
  /\ Install("ip520", c.max)
  /\ UNCHANGED <<world, carriers, latest, regions, boards, modules, cpuLevels, ipic,
                 vme, atc, attached, can, started, pc, phase>>

OctalModel ==
  [type \in {"232", "422", "485"} |-> CASE type = "232" -> 34 [] type = "422" -> 42 [] type = "485" -> 72]
NewEntry(c) == [Blank EXCEPT !.id = c.id, !.card = c.card, !.slot = c.slot, !.vec = c.vec]

\* The vector, in the memory of the module: without memory the call fails.
OctalVector(card, slot) ==
  LET addr == ipmBaseAddr(card, slot, "Mem") IN
  IF addr = NULL \/ (Info(card).driver = "MVME162" /\ slot \notin ipic.men) THEN "fails"
  ELSE IF addr.am = "A16" THEN "lost"      \* a register of the carrier's I/O space
  ELSE "written"

\* Of a TVME200 without memory that register is the first of the module in slot 0:
\* of a TIP810 its control register, with the interrupt enables in bits 1 to 4.
IsTip810(prom) == Low(Word(prom, 4)) = 179 /\ Low(Word(prom, 5)) = 1
LoseVector(card, vec) ==
  LET m == <<Board(card), 0>> IN
  IF m \in Modules /\ IsTip810(world.plugged[m].prom)
  THEN [modules EXCEPT ![m].on = IF (vec % 32) \div 2 = 0 THEN {} ELSE {0}]
  ELSE modules

\* An entry is taken for known by its carrier and slot alone; the call still
\* returns, and consumes, the next entry of the table, whether or not it is in it.
tyGSOctalModuleInit(c) ==
  LET t == tty["octal"]
      n == t.last + 1
      new == NewEntry(c)
      probe == OctalVector(c.card, c.slot)
      r == ipmIntConnect(c.card, c.slot, c.vec, Routine("octal", n))
      good == /\ t.installed /\ c.type \in DOMAIN OctalModel
              /\ ipmValidate(c.card, c.slot, 240, OctalModel[c.type]) = "OK"
      known == Known(t, c.card, c.slot)
  IN
  /\ c.op = "tyGSOctalModuleInit" /\ Shell
  /\ \/ /\ ~good \/ (~known /\ n > Len(t.table))
        /\ UNCHANGED <<tty, modules, vme, atc, attached, boards, cpuLevels, phase>>
     \/ /\ good /\ (known \/ Beyond(t))
        /\ tty' = [tty EXCEPT !["octal"].last = n]
        /\ UNCHANGED <<modules, vme, atc, attached, boards, cpuLevels, phase>>
     \/ /\ good /\ ~known /\ Beyond(t)
        /\ phase' = "crashed"
        /\ UNCHANGED <<tty, modules, vme, atc, attached, boards, cpuLevels>>
     \/ /\ good /\ ~known /\ n <= Len(t.table)
        /\ modules' = CASE probe = "written" -> [modules EXCEPT ![<<Board(c.card), c.slot>>].vec = c.vec % 256]
                        [] probe = "lost" -> LoseVector(c.card, c.vec)
                        [] OTHER -> modules
        /\ IF probe # "fails" THEN Connected(r) ELSE UNCHANGED <<vme, atc, attached>>
        /\ IF probe # "fails" /\ r.status = "OK"
           THEN /\ ipmIrqCmd(c.card, c.slot, BothLines)
                /\ tty' = [tty EXCEPT !["octal"].last = n, !["octal"].table[n] = [new EXCEPT !.ready = TRUE]]
           ELSE /\ tty' = [tty EXCEPT !["octal"].table[n] = new]
                /\ UNCHANGED <<boards, cpuLevels>>
        /\ UNCHANGED phase
  /\ UNCHANGED <<world, carriers, latest, regions, ipic, hooks, can, started, pc>>

\* The vector goes into a register of each port, whose interrupts are turned off.
IP520ModuleInit(c) ==
  LET t == tty["ip520"]
      n == t.last + 1
      r == ipmIntConnect(c.card, c.slot, c.vec, Routine("ip520", n))
      good == t.installed /\ c.type = "232" /\ ipmValidate(c.card, c.slot, 163, 36) = "OK"
      known == Known(t, c.card, c.slot)
  IN
  /\ c.op = "IP520ModuleInit" /\ Shell
  /\ \/ /\ ~good \/ (~known /\ n > Len(t.table))
        /\ UNCHANGED <<tty, modules, vme, atc, attached, boards, cpuLevels, phase>>
     \/ /\ good /\ (known \/ Beyond(t))
        /\ tty' = [tty EXCEPT !["ip520"].last = n]
        /\ UNCHANGED <<modules, vme, atc, attached, boards, cpuLevels, phase>>
     \/ /\ good /\ ~known /\ Beyond(t)
        /\ phase' = "crashed"
        /\ UNCHANGED <<tty, modules, vme, atc, attached, boards, cpuLevels>>
     \/ /\ good /\ ~known /\ n <= Len(t.table)
        /\ modules' = [modules EXCEPT ![<<Board(c.card), c.slot>>] = [vec |-> c.vec % 256, on |-> {}]]
        /\ Connected(r)
        /\ IF r.status = "OK" THEN ipmIrqCmd(c.card, c.slot, BothLines) ELSE UNCHANGED <<boards, cpuLevels>>
        /\ tty' = [tty EXCEPT !["ip520"].last = IF r.status = "OK" THEN n ELSE @,
                              !["ip520"].table[n] = [NewEntry(c) EXCEPT !.ready = r.status = "OK"]]
        /\ UNCHANGED phase
  /\ UNCHANGED <<world, carriers, latest, regions, ipic, hooks, can, started, pc>>

-----------------------------------------------------------------------------
(* Creating ports.  The channel interrupts before it is marked as created. *)

\* The entry FindQT comes back with, 0 for none.  strcmp with the name of a blank
\* entry, a null pointer, or with what lies beyond the table, is undefined: the
\* shell crashes, or goes on (as long as it is not taken for a name that is equal).
FindQT(t, id) ==
  LET same == {i \in Counted(t) : t.table[i].id = id} IN IF same = {} THEN 0 ELSE Min(same)
MeetsNull(t, id) ==
  \/ \E i \in Counted(t) : t.table[i].id = "NULL" /\ (FindQT(t, id) = 0 \/ i < FindQT(t, id))
  \/ FindQT(t, id) = 0 /\ Beyond(t)

FindModule(drv, c, port, all) ==
  LET mod == FindQT(tty[drv], c.id)
      go == mod # 0 /\ port \in Ports /\ (all \/ port \notin tty[drv].table[mod].created)
  IN
  /\ Shell
  /\ \/ phase' = phase /\ pc' = IF go THEN [drv |-> drv, mod |-> mod, port |-> port, all |-> all, hot |-> FALSE] ELSE Idle
     \/ MeetsNull(tty[drv], c.id) /\ phase' = "crashed" /\ pc' = Idle
  /\ UNCHANGED <<world, busVars, vme, atc, attached, can, started, tty>>

tyGSOctalDevCreate(c)    == c.op = "tyGSOctalDevCreate" /\ FindModule("octal", c, c.port, FALSE)
tyGSOctalDevCreateAll(c) == c.op = "tyGSOctalDevCreateAll" /\ FindModule("octal", c, 0, TRUE)
IP520DevCreate(c)        == c.op = "IP520DevCreate" /\ FindModule("ip520", c, c.port, FALSE)
IP520DevCreateAll(c)     == c.op = "IP520DevCreateAll" /\ FindModule("ip520", c, 0, TRUE)

Here == tty[pc.drv].table[pc.mod]
NextPort == IF pc.all /\ pc.port < 7 THEN [pc EXCEPT !.port = @ + 1, !.hot = FALSE] ELSE Idle

SkipPort ==
  /\ phase = "up" /\ pc.drv \in Serial /\ ~pc.hot /\ pc.port \in Here.created
  /\ pc' = NextPort
  /\ UNCHANGED <<world, busVars, vme, atc, attached, can, started, tty, calls, phase>>

InitChannel(drv) ==
  /\ phase = "up" /\ pc.drv = drv /\ ~pc.hot /\ pc.port \notin Here.created
  /\ modules' = [modules EXCEPT ![Place(Here)].on = @ \cup {pc.port}]
  /\ pc' = [pc EXCEPT !.hot = TRUE]
  /\ UNCHANGED <<world, carriers, latest, regions, boards, cpuLevels, ipic, hooks,
                 vme, atc, attached, can, started, tty, calls, phase>>

tyGSOctalInitChannel == InitChannel("octal")
IP520InitChannel     == InitChannel("ip520")

MarkCreated ==
  /\ phase = "up" /\ pc.drv \in Serial /\ pc.hot
  /\ tty' = [tty EXCEPT ![pc.drv].table[pc.mod].created = @ \cup {pc.port}]
  /\ pc' = NextPort
  /\ UNCHANGED <<world, busVars, vme, atc, attached, can, started, calls, phase>>

-----------------------------------------------------------------------------
(* Interrupts of an ATC40: the active lines of one board, in one pass.     *)

Ready(b) == {s \in 0 .. 3 : <<b, s>> \in Modules /\ modules[<<b, s>>].on # {}}
Active(b) == {l \in Lines : l[1] \in Ready(b)}

\* The first interrupt on a vector nobody connected makes it a quiet one.
atc40UnexpectedVecISR(b, lines) ==
  LET stray == {modules[<<b, l[1]>>].vec : l \in lines} \ DOMAIN atc
  IN  atc' = [v \in DOMAIN atc \cup stray |-> IF v \in stray THEN Entry(Routine("quiet", v), -1, -1) ELSE atc[v]]

\* With debugAtc40InterruptJam any line that is not active afterwards, its
\* bit is then set, leaves the interrupts off.
atc40ISR(b) ==
  /\ phase \in {"up", "rebooting"} /\ world.boards[b] = "ATC40" /\ attached /\ boards[b].gie
  /\ \E lines \in SUBSET Active(b), still \in {{}, Lines} :
       /\ lines # {}
       /\ atc40UnexpectedVecISR(b, lines)
       /\ boards' = [boards EXCEPT ![b].gie = ~(world.jam /\ still # Lines)]
  /\ UNCHANGED <<world, carriers, latest, regions, modules, cpuLevels, ipic, hooks,
                 vme, attached, can, started, tty, pc, calls, phase>>

-----------------------------------------------------------------------------
(* Going down: the hooks run, in an order the drivers do not control.      *)

Reboot ==
  /\ phase = "up"
  /\ phase' = "rebooting"
  /\ UNCHANGED <<world, busVars, vme, atc, attached, can, started, tty, pc, calls>>

Hook(h) == phase = "rebooting" /\ h \in hooks /\ hooks' = hooks \ {h}

BoardHook(b) ==
  /\ Hook(<<"board", b>>)
  /\ boards' = [boards EXCEPT ![b].gie = FALSE]
  /\ UNCHANGED <<world, carriers, latest, regions, modules, cpuLevels, ipic,
                 vme, atc, attached, can, started, tty, pc, calls, phase>>

\* What a hook goes through: the entries that count, and beyond the table what it
\* takes for any carrier and slot.  A wild pointer to a port is the end.
Entries(drv) == SubSeq(tty[drv].table, 1, Min({tty[drv].last, Len(tty[drv].table)}))
Strays == {[Blank EXCEPT !.card = k, !.slot = s] : k \in 0 .. number, s \in 0 .. 3}
Visits(drv) == {Entries(drv) \o rest : rest \in [1 .. tty[drv].last - Len(tty[drv].table) -> Strays]}
BothOff == <<<<0, <<"Disable", 0>>>>, <<1, <<"Disable", 0>>>>, <<0, <<"statUnused", 0>>>>>>
DisableOne(bs, e) ==
  IF LegalSlot(e.card, e.slot) THEN [bs EXCEPT ![Board(e.card)] = Commanded(e.card, e.slot, @, BothOff).board]
  ELSE bs
Disabled(es) ==
  LET after[n \in 0 .. Len(es)] == IF n = 0 THEN boards ELSE DisableOne(after[n - 1], es[n])
  IN  after[Len(es)]

\* It turns off the interrupts of the ports that were created: in the Octal
\* UART one mask serves two of them.
Quiet(es, Off(_)) ==
  /\ modules' = [m \in Modules |-> [modules[m] EXCEPT !.on =
       @ \ UNION {Off(p) : p \in UNION {es[i].created : i \in {j \in DOMAIN es : es[j].created # {} /\ Place(es[j]) = m}}}]]
  /\ boards' = Disabled(es)
  /\ UNCHANGED <<world, carriers, latest, regions, cpuLevels, ipic,
                 vme, atc, attached, can, started, tty, pc, calls, phase>>

HookCrash(drv) ==
  /\ Beyond(tty[drv])
  /\ phase' = "crashed"
  /\ UNCHANGED <<world, carriers, latest, regions, boards, modules, cpuLevels, ipic,
                 vme, atc, attached, can, started, tty, pc, calls>>

BlockOf(p) == {q \in Ports : q \div 2 = p \div 2}

\* Mutant: one module too few.
OctalHookShort ==
  Hook(<<"octal">>) /\ Quiet(SubSeq(Entries("octal"), 1, Len(Entries("octal")) - 1), BlockOf)

tyGSOctalRebootHook ==
  /\ Hook(<<"octal">>)
  /\ (\E es \in Visits("octal") : Quiet(es, BlockOf)) \/ HookCrash("octal")

IP520RebootHook ==
  /\ Hook(<<"ip520">>)
  /\ (\E es \in Visits("ip520") : Quiet(es, LAMBDA p : {p})) \/ HookCrash("ip520")

t810Shutdown ==
  /\ Hook(<<"can">>)
  /\ modules' = [m \in Modules |-> IF \E i \in DOMAIN can : Place(can[i]) = m
                                   THEN [modules[m] EXCEPT !.on = {}] ELSE modules[m]]
  /\ UNCHANGED <<world, carriers, latest, regions, boards, cpuLevels, ipic,
                 vme, atc, attached, can, started, tty, pc, calls, phase>>

Down ==
  /\ phase = "rebooting" /\ hooks = {}
  /\ phase' = "down"
  /\ UNCHANGED <<world, busVars, vme, atc, attached, can, started, tty, pc, calls>>

-----------------------------------------------------------------------------
Call(c) ==
  \/ AddCarrier(c) \/ IrqCommand(c) \/ IntConnect(c)
  \/ t810Create(c) \/ t810Initialise(c)
  \/ tyGSOctalDrv(c) \/ tyGSOctalModuleInit(c) \/ tyGSOctalDevCreate(c) \/ tyGSOctalDevCreateAll(c)
  \/ IP520Drv(c) \/ IP520ModuleInit(c) \/ IP520DevCreate(c) \/ IP520DevCreateAll(c)

Hooks ==
  \/ tyGSOctalRebootHook \/ IP520RebootHook \/ t810Shutdown
  \/ \E b \in DOMAIN world.boards : BoardHook(b)

Next ==
  \/ \E c \in world.script : Call(c)
  \/ InitDevice \/ InitialiseDone
  \/ SkipPort \/ tyGSOctalInitChannel \/ IP520InitChannel \/ MarkCreated
  \/ \E b \in DOMAIN world.boards : atc40ISR(b)
  \/ Reboot \/ Hooks \/ Down

Init == world \in Worlds /\ StartupInit
Spec == Init /\ [][Next]_vars

-----------------------------------------------------------------------------
(* Properties.                                                             *)

\* Nothing stops the shell from adding an ATC40 board a second time, under another
\* number: the ATC40 driver claims no addresses, and turns the interrupts off.
AddedOnce ==
  \A k, l \in 0 .. number - 1 :
    Info(k).driver = "ATC40" /\ Info(l).driver = "ATC40" /\ k # l => Board(k) # Board(l)

\* The tables are well formed: the latest carrier is the last one or none, no two
\* TIP810 devices share a name or a place, and vectors are those the bus has.
TypeOK ==
  /\ number <= IPAC_MAX_CARRIERS /\ latest \in {number - 1, USHRT_MAX}
  /\ \A i \in DOMAIN carriers : carriers[i].driver \in Kinds \cup {"null"}
  /\ \A m \in Modules : modules[m].vec \in Vectors /\ modules[m].on \subseteq Ports
  /\ DOMAIN vme \subseteq Vectors /\ DOMAIN atc \subseteq Vectors /\ attached \in BOOLEAN
  /\ \A i, j \in DOMAIN can : i # j => can[i].name # can[j].name /\ (AddedOnce => Place(can[i]) # Place(can[j]))
  /\ \A d \in Serial : tty[d].last \in Nat
  /\ phase \in {"up", "rebooting", "down", "crashed"} /\ calls \in 0 .. CallLimit

\* The bytes of a module on a carrier.  A memory of size 0 is MemoryOrNull's matter.
Size(p, slot) ==
  CASE p.kind = "VIPC310" -> Memory310(p).size
    [] p.kind \in {"VIPC610", "VIPC610-01"} -> Memory610(p).size
    [] p.kind \in {"VIPC616", "VIPC616-01"} -> Memory616(p).size
    [] p.kind = "TVME200" -> TvmeMemory(p).size
    [] p.kind = "AVME96xx" -> 1024 * p.mem[Max({i \in DOMAIN p.mem : p.mem[i].slot = slot})].mb
    [] p.kind = "Hy8002" -> 1024 * p.ipmem
Cards == {k \in 0 .. number - 1 : Info(k).driver \notin {"null", "MVME162", "ATC40"}}
Windows == {[card |-> x[1], slot |-> x[2], space |-> x[3], at |-> ipmBaseAddr(x[1], x[2], x[3])] :
              x \in Cards \X (0 .. 3) \X {"ID", "IO", "Mem"}}
Bytes(w) == [am |-> w.at.am, at |-> w.at.at, size |-> IF w.space = "Mem" THEN Size(Info(w.card).p, w.slot) ELSE 128]
Real == {w \in Windows : w.at # NULL /\ Bytes(w).size > 0}

\* Every address a VME carrier hands out is inside a range it has registered, and
\* no two modules, of the same or of different carriers, share an address.
WindowsDistinct ==
  /\ \A w \in Real : \E r \in regions : r.am = Bytes(w).am /\ r.at <= Bytes(w).at
                                       /\ Bytes(w).at + Bytes(w).size <= r.at + r.size
  /\ \A w, v \in Real : w # v => ~Overlap(Bytes(w), Bytes(v))

\* A TVME200 with its memory switch at 0.
Bare(card) == Info(card).driver = "TVME200" /\ TvmeMemory(Info(card).p).size = 0

\* As the header of baseAddr in every carrier driver has it: "The requested
\* address, or NULL if the module has no memory".
MemoryOrNull ==
  \A k \in 0 .. number - 1, s \in 0 .. 3 : Bare(k) => ipmBaseAddr(k, s, "Mem") = NULL

\* An Octal module on a TVME200 without memory never gets its vector, and a line that
\* the carrier has at level 0 is off.
Served(e, driver, i) ==
  LET b == Board(e.card) IN
  /\ modules[Place(e)].vec = e.vec \/ (driver = "octal" /\ Bare(e.card))
  /\ Handler(b, e.vec) = Routine(driver, i)
  /\ \A n \in IF driver = "can" THEN {0} ELSE {0, 1} :
       world.boards[b] = "ATC40" \/ LevelOf(b, <<e.slot, n>>) # 0 => Passes(b, <<e.slot, n>>, attached)

\* While the system is up, an interrupt of a module whose driver has connected its
\* vector reaches the driver's routine with the module's own number: the module
\* gives that vector, the vector leads to the routine, and the carrier and the
\* processor let it through.  Later calls, for other modules, failed ones and
\* repeated ones, do not change that.  It is about what a driver has set up, not
\* about what it has returned: see ReportedGood.
ModuleServed ==
  phase = "up" /\ ~world.attachFails /\ ~world.jam /\ AddedOnce =>
    /\ \A i \in DOMAIN can : can[i].ready => Served(can[i], "can", i)
    /\ \A d \in Serial : \A i \in Counted(tty[d]) : tty[d].table[i].ready => Served(tty[d].table[i], d, i)

\* As the header of ModuleInit in both serial drivers has it: "Index into module
\* table, or ERROR if [...] the device already exists".  Every index that
\* was returned, and last counts them, is that of an entry whose module was set up.
ReportedGood ==
  \A d \in Serial : \A i \in 1 .. tty[d].last : i \in DOMAIN tty[d].table /\ tty[d].table[i].ready

\* Manufacturer and model of the modules that each driver takes, and what the
\* checksums are there for: no driver takes a PROM that is not the one its maker
\* wrote for one of its own.
Types == [can |-> {<<179, 1>>}, octal |-> {<<240, 34>>, <<240, 42>>, <<240, 72>>}, ip520 |-> {<<163, 36>>}]
Drivers == {"can", "octal", "ip520"}
FlawsFound ==
  \A w \in Worlds : \A m \in DOMAIN w.plugged : ~w.plugged[m].good =>
    \A d \in Drivers : \A x \in Types[d] :
      ~(ipcCheckId(w.plugged[m].prom) /\ PromValid(w.plugged[m].prom, x[1], x[2]) = "OK")

\* No driver has taken up a module whose ID PROM differs from the one its maker
\* wrote: a PROM with one wrong bit is never taken for a good one.
PromTrusted ==
  /\ \A i \in DOMAIN can : world.plugged[Place(can[i])].good
  /\ \A d \in Serial : \A i \in DOMAIN tty[d].table : tty[d].table[i].ready => world.plugged[Place(tty[d].table[i])].good

\* Once the hooks have run, in whatever order and whenever the reboot came, no
\* created port and no TIP810 that was started interrupts any more, unless a hook
\* crashed beyond its table.  (A port between its initialisation and its creation
\* is not among them: no hook looks for it.)
RebootQuiet ==
  phase = "down" =>
    /\ started => \A i \in DOMAIN can : modules[Place(can[i])].on = {}
    /\ \A d \in Serial : \A i \in Counted(tty[d]) :
         tty[d].table[i].created # {} => tty[d].table[i].created \cap modules[Place(tty[d].table[i])].on = {}
    /\ \A b \in DOMAIN boards : ~boards[b].gie

=============================================================================
