# Models and proofs of the IndustryPack drivers

This directory holds TLA+ models of the `ipac` repository (IndustryPack carrier
and module drivers for EPICS), TLC configurations that check them on small
instances, and theorems about them that TLAPS proves for every value of the
constants. `PROJECT.json` lists the runs, the theorems, which lines of the source
each definition stands for, the hazards of the code, and what was found.

    tlc -config CanTransmit_quiet.cfg MCCanTransmit     model-check one run
    tlapm CanTransmitProofs.tla                         check one module of proofs

## The system

| part | source | state | operations |
|---|---|---|---|
| carrier registry | `drvIpac/drvIpac.c` | table of carriers, latest number | `ipacAddCarrier`, `ipmCheck`, `ipmValidate`, `ipmBaseAddr`, `ipmIrqCmd`, `ipmIntConnect` |
| carrier drivers | `drvIpac/drv{Atc40,Hy8002,Xy9660,Tvme200,Vipc310,Vipc610,Vipc616,IpMv162}.c` | addresses, interrupt levels; Atc40: a dispatch table | `initialise`, `baseAddr`, `irqCmd`, `intConnect` |
| CAN transmitter | `drvTip810/drvTip810.c` | `txSem`, the chip's transmit buffer and its control, status and interrupt registers | `canWrite`, `canBusStop`, `canBusRestart`, `canBusReset`, `t810ISR` |
| CAN receiver | same | `receiptQueue`, `readSem`, `preadBuffer`, `rxSem`, the chip's two receive buffers | `canRead`, `t810RecvTask`, `t810ISR` |
| CAN callback lists | same | a list per identifier, a list for bus errors | `canMessage`, `canMsgDelete`, `canSignal`, `doCallbacks` |
| CAN device life cycle | same | list of devices | `t810Create`, `t810Initialise`, `t810Shutdown`, `canOpen`, `canIoParse` |
| CAN records | `drvTip810/dev*Can.c`, `devSiWiener.c`, `devBiTip810.c` | private status and data, timer, callback per record; status per bus | `init_*`, `read_*`, `write_*`, `*Message`, `busSignal`, `busCallback` |
| octal serial driver | `tyGSOctal/tyGSOctal.c`, `tyGSOctal_RTEMS.c` | module table, per-block interrupt mask, ty devices | `tyGSOctalDrv`, `ModuleInit`, `DevCreate`, `Int`, `Startup`, `Write`, reboot hook |
| IP520 serial driver | `ip520/ip520.c` | module table, ty devices, noted settings, saved LCR | the same operations, rate and option changes, FIFO service loop |

| module | models | composed with |
|---|---|---|
| `CanTransmit`, `CanRead` | the CAN driver at work, one bus | implement `TransmitAccess`, `ReceiptOrder` |
| `RecordData`, `CanRecords` | addresses and conversions of the CAN records; their processing | `CanRecords` EXTENDS `RecordData` |
| `CarrierData`, `Carriers`, `Startup` | what each carrier driver computes; the registry and the boards; module drivers coming up and going down on them | each EXTENDS the one before |
| `Octal`, `Ip520` | the two serial drivers at work, one module | both implement `SerialLine` |
| `MC*` | the instances for TLC | EXTENDS the module it instantiates |
| `*Proofs` | theorems | EXTENDS the module they are about |

How they interact. Carrier drivers are registered first and get a number each.
Module drivers (TIP810, octal, IP520) find their board by carrier and slot
number through the `ipm*` calls and connect an interrupt routine. The CAN records
call `canWrite` and register callbacks, which `canRecvTask` runs for messages
and the interrupt routine for bus status. Tasks, interrupt routines and chips
share the driver state without a common lock: on one processor an interrupt
routine is not interrupted by tasks, and `canRecvTask` is not by tasks of a lower
priority, and the code relies on both.

What is hard, part by part, and what makes each part correct:

* **CAN transmitter** - one binary event is both a lock and a completion
  signal, and five places signal it. Correct when two tasks never share the
  registers, frames are whole, the event always comes back, nothing but a bus-off
  wakes a stopped bus, and the listeners know the status of the chip.
* **CAN receiver** - a pointer to a caller's buffer is shared with a task of
  higher priority, replies race time limits, the chip and the queue overflow.
  Correct when a read returns what it asked for, nothing is left over for the
  next call, nothing is copied to a stale pointer, frames keep their order, and
  the chip's buffer never stays full without an interrupt.
* **Callback lists** - edited by one task while walked by another or by the
  interrupt routine. Correct when no registration is lost and no deleted handler
  is called.
* **Records** - the answer, the timer, a bus error and processing meet in one
  status field. Correct when no record is left waiting, a record ends with the
  value that was sent or with an alarm, and an alarm is not forgotten.
* **Registry and carriers** - failures must not shift or alias carrier numbers,
  windows must not overlap, commands must not undo each other. Correct when a module
  whose vector its driver has connected is served, whatever is called before and after.
* **Life cycle** - each step may fail, and calls may come twice, too early or
  too late. Correct when the hooks leave no interrupt on.
* **Octal and IP520** - the ty library starts the transmitter and the interrupt
  routine stops it, the one through a mask that cannot be read back, the other
  through a FIFO that is filled on status read earlier. Correct when no character is
  lost or stuck and no interrupt is left unserved; in the IP520, when the
  registers stay what the driver thinks they are.

## Plan

Done, in this order:

1. `CanTransmit`, `TransmitAccess`, `CanTransmitProofs`.
2. `CanRead`, `ReceiptOrder`, `CanReadProofs`.
3. `Octal`, `SerialLine`, `OctalProofs`.
4. `RecordData`, `CanRecords`: the records of a bus with timer, callback task,
   `canRecvTask` and interrupt routine.
5. `CarrierData`, `Carriers`, `Startup`: the registry and all carrier drivers, the
   ID PROMs, the module tables of the drivers, the ATC40 dispatcher, the hooks.
6. `Ip520`, `Ip520Proofs`; `CanRecordsProofs`.
7. `RecordDataProofs`, `CanRecordValuesProofs`: the values of the records.
8. `StartupProofs`: the tables, windows, PROMs and hooks of `Startup`.
9. `ModulesAreServed` there: what a command of a carrier driver leaves enabled, and who holds a
   vector, added to `StartupInv`.

Open:

10. `CanHandlers`: the callback lists edited while they are walked, for which no
   caller exists in the repository yet.
11. Rate, format and RTS settings of the octal driver; its RTEMS variant.

No module that is proved about declares a RECURSIVE operator.

## CanTransmit

Models the transmit side of one bus. Tasks (`Writers`) are in `canWrite` at the
step `pc` says; each register access and each event operation is one step.
`Shells` give the bus commands. `t810ISR` is five steps: entry (reads and thereby
clears the interrupt register), overrun, rescan, error, transmit. The chip is
`ChipSent`, `ChipError`, `ChipBusOff`, `ChipBusOn`, `ChipOverrun`.

| code | model |
|---|---|
| `pdevice->txSem` | `txSem` (a binary event: signalling a full one does nothing) |
| `pchip->control` RR | `resetRequest` |
| `pchip->status` TBS; BS and ES | `tbs`; `busStatus` |
| `pchip->interrupt`, `intSource` | `interrupt`, `intSource` |
| `pchip->txBuffer` | `txBuffer`: whose bytes the data and the two descriptors are |
| status given to the `canSignal` callbacks | `told` |

What is assumed of the hardware (pca82c200): reading the interrupt register
clears it; while TBS is clear or RR is set, writes to the transmit buffer and the
transmission request are ignored; RR aborts a transmission, releases the
transmit buffer and withdraws the pending transmit and overrun interrupts, but
not the error interrupt; only a transmission after the error status leads to
bus-off, and bus-off sets RR. One processor: no task moves during `t810ISR`; the
chip does.

Simplified: message arguments are those that pass the checks (a refused call
touches nothing). The counters are left out. The two ways in which the overrun branch
changes the control register are one step, since nothing but the chip can move in
between and the chip is in reset.

Runs:

| run | instance | shows |
|---|---|---|
| `can_transmit_quiet` | 3 writers, one of them sending remote requests; error interrupts | `ExclusiveAccess`, `WholeFrame`, `NeverBusy`, `SentWhatWasAsked`, refinement of `TransmitAccess`, `EveryWriteReturns` |
| `can_transmit_faults` | 2 writers; errors, bus-off, overrun | `NoLostToken`, `TransmitterComesBack`, `RecoversFromBusOff` |
| `can_transmit_commands` | 2 writers, 2 shells with all three commands; errors, bus-off | `StopHolds`, `ListenersInformed` |
| `can_transmit_reset` | 1 writer, 1 shell that resets | violated: `NoLostToken` |

Three writers are one in the registers, one in the wait and one that overtakes it;
two are enough where the third would only wait. Nothing in this model counts, so the
instances have no other bound and the runs explore every behaviour.

Fairness: a task in mid-call runs again (strong, since interrupts take the
processor away and give it back) and the event serves its waiters in turn; a
pending interrupt is served; the chip finishes a transmission and rejoins the
bus. No fairness on calls, time limits, faults or shells' decisions.
`TransmitterComesBack` and `RecoversFromBusOff` hold although the rescan after an
overrun forgets interrupt bits: the restart in that same branch makes up for both.

## CanRead

Models the receive side of one bus: `canRead` step by step for each of
`Readers`, `t810RecvTask` step by step, the receive and overrun branches of
`t810ISR`, and a chip that takes any frame off the bus at any time.

| code | model |
|---|---|
| `*pmessage` of a caller | `buffer[r]`: identifier, rtr, and the number of the frame its data came with (0: the caller's own) |
| `readSem`, `preadBuffer`, `rxSem` | the same names |
| `receiptQueue`, `rmsg` | `queue`, `rmsg` |
| the value of `preadBuffer` in a register | `target` |
| the chip's receive buffers | `rxFifo` |

Priorities. `canRecvTask` runs at `epicsThreadPriorityHigh` (90). A reader below
it runs only while it waits on the empty queue; `HighReaders` (the shell runs at
91) run between any two of its steps. `preadBuffer` is not volatile and is named
four times in four lines: `Pointer` lets each use be the value read before or
the one now in memory.

Assumed of the chip: two receive buffers; a frame that finds both full is lost
and raises the overrun interrupt; releasing a buffer shows the frame in the
other one and raises the receive interrupt again; reset empties both and
withdraws their interrupts. `canWrite` is one step that sends or fails. The
callbacks of the message are not run.

| run | instance | shows |
|---|---|---|
| `can_read_calls` | 2 readers of one identifier below `canRecvTask`, 2 frames of 2 identifiers, with or without rtr | `ReadSound`, `NoLeftovers`, `NoWildCopy`, `EveryReadReturns`, `EveryMessageHandled` |
| `can_read_overload` | a reader above and one below, a queue of 2, 4 frames | `TypeOK`, `ReceiverServed`, refinement of `ReceiptOrder` |
| `can_read_request` | 1 reader below, 2 frames | violated: `SendsRequest` |

Bounds. `FrameLimit` caps the frames that come in. Two frames are a reply that
is too late and one for the next call, which is what leftovers need; four frames
overflow a queue of two and the two buffers of the chip, and overrun it.
`QueueSize` is 2 in the runs and 1000 in the code; the theorems hold for any.

Fairness: as above, for readers in mid-call and for `canRecvTask`; a wait with a
time limit ends. A time limit of -1 is outside `EveryReadReturns`. So is a bus
that keeps `canRecvTask` busy for ever: `FrameLimit` makes the traffic finite, and
without it readers below `canRecvTask` may starve, as the priorities intend.

## Octal

Models one octal serial module with any number of ports: the interrupt routine
step by step, `tyGSOctalStartup`, `tyGSOctalWrite` with the ty library's `tyWrite`
inside it, the creation of devices, the reboot hook, and the UART. Characters are
numbered in the order in which they enter the ring of their port.

| code | model |
|---|---|
| `dev->created` and the device's name in the I/O system | `create[p]`: new, init (the channel works), created, nameless (`iosDevAdd` failed) |
| `qt->imr[]`, the mask registers of the chip | `imrCopy`, `imr`: pairs of kind and port; a write covers the block of a port |
| `dev->irqEnable` | `irqEnable`: the ports for which it is not 0 |
| `qt->scan`, the loop variable, `isr` and `sr` of a port | `scan`, `step`, `work` |
| write ring of the ty library, its busy flag and mutex | `put - taken`, `busy`, `writing` |
| THR, shift register, the line; RTSN | `thr`, `shift`, `sent`; `rts` |

Assumed. The ty library is not in the repository: `tyWrite` holds a mutex, puts
characters into the ring one by one and calls the startup routine when it was not
busy; `tyITx` takes the next one, or reports an empty ring and the port as no
longer busy; `tyIRd` may echo. XON/XOFF, baud rates and character formats are left out.
The interrupt line is a level, and an enabled interrupt that is pending comes
before any task: a character time is far longer than the interrupt latency, so
that TxRDY has been served before TxEMT can be set. What runs with interrupts
locked is one step. The receiver holds one character here and three in the chip;
only an overrun sets an error bit.

| run | instance | shows |
|---|---|---|
| `octal_lines` | 2 ports of one block; RS-232 with echo, or RS-485; a writer on port 0, endless input on both | `Armed`, `LineDriven`, refinement of `SerialLine`, `EveryCharSent`, `EveryPortServed` |

Bounds. A port gets at most `CharLimit` = 3 characters to send through a ring of
2: enough for a full ring, for one character each in the ring, the holding
register and the shift register, and for a transmitter that runs dry and is
started again. Two ports are what a mask register serves.

Fairness: a task in the middle of a write is scheduled again, a pending interrupt is
served, and the UART shifts out what it holds; nothing is assumed of input, calls
or device creation. `EveryCharSent` is under the condition that tasks run again
and again, since input without end takes the whole processor. `EveryPortServed`
is without that condition, and about ports whose device has been created: a
character that comes in between `tyGSOctalInitChannel` and `dev->created = TRUE`
keeps the interrupt pending for ever, because the interrupt routine skips that
port. The model shows this livelock; no run is about it.

## CanRecords

`RecordData` has `canIoParse`, the parameter checks of the `init_record` routines and
the conversions of every record type both ways, as operators. `CanRecords` is the
database on one bus.

| code | model |
|---|---|
| `pcanXx->status`, `data` (private status and data) | `status[r]`, `data[r]` |
| `prec->pact`, `val`, `sevr` | `pact`, `val`, `sevr` (INVALID or not) |
| the request's timer; `callbackRequest` of the record | `timer[r]`; `queued[r]` |
| `scanIoRequest` | `ioQueued[r]` |
| `pcanBus->status`, `firstPrivate`, its callback | `busStatus`, `privates`, `busQueued`, per kind of record |
| the list of handlers of an identifier | `handlers` and the identifiers in `inp` |
| `dbScanLock` | `Holds`, `Unlocked` |
| `read_xx`: switch on status, alarm, request, timer | `ReadAi` ... `ReadSi`, `RaiseAlarm`, `Suspend`, `SendRequest` |
| `write_xx` | `WriteAo` ... `WriteMbboDirect` |
| `xxMessage`, `busSignal`, `busCallback` | `ReceiveData`, `ReceiveRequest`, `BusSignal`, `TakeBusCallback`, `busCallback` |

Tasks: one for scan tasks and clients (`dbProcess`), one for callbacks, one for the
callbacks of the bus. A record's steps interleave with messages, timers and signals between any two
of them; `canRecvTask` is above all three, so its handlers are one step.
`meant` is what the sender of the last message meant, `reply` what ended a wait: they
are read by properties only. EPICS base is modelled from how the device supports use it.

| run | instance | shows |
|---|---|---|
| `can_records_bus` | 34 databases of one or two records: every kind, each width and sign of an analogue value, two fields of one byte, requests and I/O Intr, bad addresses with and without `canSilenceErrors` | `TypeOK`, `NeverStuck`, `LatestValue`, `OutputOrAlarm`, `FreshData` |

Bounds. `CallbackLimit`, `IoLimit` and `BusLimit` are 1: scans and bus signals stop
while a callback of the same kind waits. One of each is what a late answer, an expired timer and
a bus callback need to meet in one record. Values are the ends of each range. The run does not
state fairness: `NeverStuck` is the safety half of "every record completes".

`CanRecords_recovery.cfg` is a further configuration, of one temporal property that the
pages of the driver suggest and the code does not keep: "record processing is
suspended until the relevant reply is received" (`devCan.html`). When the bus has
recovered before the bus callback runs, `busCallback` copies NO_ALARM into the status of a
record that waits (`devAiCan.c:456`), and the record completes with its old
value and without an alarm. TLC finds `SuspendedUntilReply` violated; `FreshData` states what does hold.

Seen while modelling, true of the model and not stated as properties:

* an address without a timeout gives -1, and the timer then expires at once, where the page says
  that an indefinite delay is permitted;
* an answer that comes as the timer expires asks for a second callback, which sends a request nobody
  asked for, or ends the next wait early with a TIMEOUT;
* COMM, written by `busCallback` between the switch and the assignment of TIMEOUT or NO_ALARM, is lost;
* an analogue full scale of 1 or 2 gives the mask 0; bo and mbbo use the offset that the page says they ignore;
* an identifier above 2047 is not registered, and nobody looks at the result;
* a stringin with I/O Intr that is processed before its first message reads data that was never set;
* `aiMessage` does not look at the length of the message (outside the model: the sender sends what is read).

## Carriers and Startup

`CarrierData` has what each carrier driver computes: the steps of `initialise`,
`baseAddr`, the interrupt commands, and the two CRCs over an ID PROM bit by bit.
`Carriers` has the registry, the claimed bus addresses and the state of the boards. `Startup` has
the module drivers' tables, the vectors and the hooks. The startup script makes
its calls in any order, and a reboot may come at any time.

| code | model |
|---|---|
| `carriers.info`, `latest` | `carriers`, `latest`; the null table is the driver "null" |
| devLib's registered ranges | `regions` |
| level, enable, edge and clock registers of a board; GIE | `boards` |
| a module's vector register and its enabled interrupts | `modules` |
| `intDispatchTable`; `intConnected` of the ISA levels | `atc`; `attached`, one flag: all ATC40 carriers of a world are on one level |
| `devConnectInterruptVME` | `vme` |
| the list of TIP810 devices | `can` |
| `tyGSOctalModules`, `tyGSOctalLastModule`, the same in ip520.c | `tty` |
| the MVME162 driver's static tables | `ipic` |
| `rebootHookAdd`, `epicsAtExit` | `hooks`, run in any order in phase "rebooting" |

`ipacAddCarrier`, `ipmIrqCmd`, `ipmIntConnect`, `t810Create`, `t810Initialise` (device
by device), `...Drv`, `...ModuleInit`, `...DevCreate`, `...DevCreateAll` (channel by channel), the
ATC40 interrupt routine, and each hook are actions. `world` is the machine and never changes:
boards, modules with their PROMs, the script.

Assumed: a script line means what its author typed (numbers with or without the 0x
prefix that `%i` looks at); a board answers or does not, by the world; two boards do
not have one address. `LegalWorld` says what else the author of a script sees to: the carriers
of the script are of the kind of the board at their address if it has modules, and calls by hand go to places
that no driver is given. Two flags of a world, an ISA level that cannot be attached and a jammed interrupt line, are
exceptions in `ModuleServed`: there the code logs and goes on (`drvAtc40.c:576`).

A repeated `ModuleInit` returns, and counts, an entry without asking whether the table has it
(`tyGSOctal.c:370`, `ip520.c:358`): the test for a full table is made for new modules only. So `last` may be beyond
the table, which is then what the code reads: `FindQT` may take it for a name that differs or crash
(`MeetsNull`), a new `ModuleInit` may find its slot there or not (`Beyond`), and a reboot hook may
take it for modules at any carrier and slot (`Strays`), or follow a wild pointer (`HookCrash`). A crash is the phase
"crashed", which has no step out of it. A name beyond the table that equals the one looked for is left out.

| run | instance | shows |
|---|---|---|
| `startup` | 3 carriers at most, 6 calls, some 400 machines: serial modules on every kind of carrier, mixed modules that want one vector, two TIP810, carriers whose ranges meet, every interrupt command, vectors connected by hand, a table counted past its end, a TVME200 without memory, and every ID PROM that differs from a genuine one in a bit | `TypeOK`, `WindowsDistinct`, `ModuleServed`, `PromTrusted`, `RebootQuiet` |

Bounds. Three carriers are enough for one, one beside it and a full table (the code
has 21). Six calls are a whole script of every world here. Of the PROMs with a
wrong length word, those are tried that claim at most 16 words. Deadlock is off
because a script ends.

`Startup_memory.cfg` is a further configuration: a TVME200 with its memory switch at 0 hands out
its I/O base as memory address (`drvTvme200.c:236`), although the header of the function says "The requested
address, or NULL if the module has no memory"; `tyGSOctalModuleInit` then writes the vector into a register of the module in slot 0
and reports success. TLC finds `MemoryOrNull` violated. Where a TIP810 is in that slot the write may turn its
interrupts on before `t810Initialise` has connected them (`LoseVector`).

`Startup_returns.cfg` is another: `ReportedGood` says that every index a `ModuleInit` has returned is that
of a module it has set up, as its header has it ("RETURNS: Index into module table, or ERROR if the driver is not
installed, the channel is invalid, or the device already exists", `tyGSOctal.c:220`, `ip520.c:220`). TLC finds it
violated by a second call for a known slot. `ModuleServed` is therefore about what the drivers have set up and not
about what they have returned; the same goes for the 0 that `t810Initialise` returns after a device other
than the last has failed.

Seen while modelling:

* parameters documented as hexadecimal with an optional 0x are read with `%i` (VIPC310, 610, 616), so that
  "1000,512" is rejected; the commas that ATC40's page shows make `sscanf` stop after the address;
  Hy8002 refuses the last block of MEMBASE; VIPC sizes that are multiples of 64 KB but not powers of two are accepted;
* an `initialise` that fails late leaves its ranges claimed, so that a second attempt fails, and in the Xy9660 the interrupts enabled;
* `ipmIntConnect` on a carrier that failed connects the vector and checks no slot;
* a failed `ModuleInit` keeps its entry, which a later duplicate makes visible: its ports have a vector that the module does not give;
* `FindQT` compares with a null name in a blank entry;
* nothing refuses the same ATC40 twice: it claims no range, and the second `initialise` turns the
  interrupts of the first off (`pDev->intEnable = 0`, `drvAtc40.c:328`); `ModuleServed` is about scripts that add each carrier once (`AddedOnce`);
* `t810Initialise` goes on after a failed connect, and its result is that of the last device.

## Ip520

Models one IP520 module at work: the interrupt routine that goes round the ports until
none has work, `IP520TxStartup` from a task or from an echo, channel initialisation, and the rate
and option calls down to the register banks.

| code | model |
|---|---|
| `dev->created`, `baud`, `opts` | `create[p]`, `dev[p]` |
| LCR, EFR bit 4, FCR, MCR bit 7, DLL/DLM, RTS/CTS flow control | `reg[p]`; `savedlcr` is `reg[p].saved` |
| IER | `ier[p]` |
| the two FIFOs, the shift register, the line | `tx`, `rx`, `shift`, `sent` |
| write ring and busy flag of the ty library | `put - taken`, `busy` |
| locals of `IP520Int`: port, lsr, ier, whether there was work | `scan`, `saw` |

`savedlcr` is one variable for all ports in the code; it is part of each port here because
every caller locks interrupts around its use. The same library and chip assumptions as in
`Octal` hold. `EFROff` after a rate change comes when LCR is already restored, so that it writes
to FCR and EFR bit 4 stays on until `IP520OptsSet` closes the bank: the model does the same, and
`SettingsHold` says that no call ends in that state.

| run | instance | shows |
|---|---|---|
| `ip520_lines` | 2 ports: one with echo and 4 characters, one whose settings change and 2 characters | `TypeOK`, `SettingsHold`, refinement of `SerialLine`, `EveryCharSent` |
| `ip520_baud` | 1 port, rates 57600 and 300 | violated: `ClockDivided` |

Bounds. FIFO and ring hold 2 (64 and 512 in the code): 4 characters fill both. `InputLimit`
is needed: input without end keeps `IP520Int` from ever ending. One change of settings
at any point of the transmission; `SettingsHold` is proved for any number. Deadlock is off
because the characters run out. Changes of settings empty both FIFOs, so characters under way are lost on that port: `SerialLine`
and the second half of `EveryCharSent` are about ports left alone.

Fairness: a task in the middle of a write runs again (strong), a pending interrupt is
served, the UART loads and shifts (weak). Nothing of calls, input or device creation.

Left out: the RS-485 code (no module of that type is accepted); that a port between its
initialisation and `created` is skipped with its interrupt on is as in `Octal`.

## What is proved

The theorems hold for any sets of tasks, any number of ports and any queue or ring
size, any database, any machine and startup script. Constants are restricted only by the named assumptions of the
modules (`TransmitAssumption`, `ReadAssumption`, `OctalAssumption`, `RecordsAssumption`, `Ip520Assumption`: the
token values are distinct, commands and faults are the known ones, each writer has a
port, option words have eight bits; `CarrierAssumption`, `CallAssumption`: the limits are numbers;
`WorldAssumption`: every machine is a `LegalWorld`, see above, which TLC evaluates on those of the run).

`CanTransmitProofs`:

* `TypeCorrect` - the type invariant.
* `TokenNeverLost` - `NoLostToken`, if no shell uses `canBusReset`. The
  inductive invariant `TokenInv` adds where a task can be while the chip is in reset.
* `Exclusion`, `FramesAreWhole`, `NeverFindsBusy`, `SendsWhatWasAsked`,
  `ImplementsAccess` - under `Quiet` (no commands, no bus-off, no overrun). The
  properties are not inductive: a second task could enter if the token were full
  while somebody is inside or while a transmit interrupt is on its way. `QuietInv`
  says that the token is in exactly one place (the event, a task, the
  chip, the interrupt) and how far the buffer has been filled by the task that has it.
* `StoppedStaysStopped` - `StopHolds`, for any faults: once in reset, a stopped chip is let out by
  `canBusRestart`, `canBusReset` or a bus-off only, and a task never gets its message into it.
* `StoppedIsSilent` - `StopSilences`, the word of the page, where the chip does not go
  bus-off. With bus-off the code breaks it: the error branch clears RR whoever set it.
* `CallbacksInformed` - `ListenersInformed` where the receiver does not overrun
  (the rescan forgets the error interrupt).

`CanReadProofs`:

* `ReadTypeCorrect`, `ChipIsServed` - `ReceiverInv`: types, and a frame in the
  chip exactly when its interrupt is pending or being served.
* `ReceiptInOrder` - the frames in the chip, the queue and `rmsg` are strictly
  ascending (`OrderInv`), so that every step of `t810RecvTask` that takes one is a
  `Handle` of `ReceiptOrder` and the others change nothing it sees.
* `ReadReturnsMessage`, `ReadLeavesNothing`, `CopiesToCaller` - if no reader is
  above `canRecvTask`. `HandoffInv` ties `readSem`, `preadBuffer`, `rxSem`,
  `target` and the steps of both tasks together: where they can be when a lower
  task runs at all is the heart of the argument.

`OctalProofs`:

* `TypesSafe`, `ArmedSafe`, `NothingLostSafe` - from one inductive invariant, `Inv`.
  `Armed` alone is not inductive: `Watched` adds that a busy port has its
  interrupt or a writer on its way to start it. That a startup never drops the
  character it took is `Idle`: a port that is not busy, or is about to be
  started, has an empty transmitter and no transmit interrupt, not even one that
  the interrupt routine has already read. `Data` says which characters the
  registers hold, `MaskInv` that the registers agree with their copy until the reboot.
* `LineDrivenSafe` - `LineDriven` under `SoleWriters`: no two tasks write to one
  port. `Driven` says who may still put a character into the transmitter.

`CanRecordsProofs`:

* `RecordTypesHold`, `NoRecordStuck` - `Inv` is `TypeOK`, `NeverStuck` and `Setup`. `NeverStuck` is
  inductive but for the initialisation: `Setup` says that a record which is not yet
  initialised does not wait, and that before interrupts are accepted nothing is queued. Every
  step then either leaves what a waiting record has pending, or turns one kind of pending
  thing into another, or completes the record: a timer into a callback (`TimerExpires`, `Handle`), a
  callback into a task (`TakeCallback`), and a task that processes the record ends
  the wait unless it is the one that starts it, which arms the timer last. `ProcessStep` frees the nine
  read and write routines of their values.

`RecordDataProofs`:

* `AnalogueRoundTrip` - what `write_ao` sends, `aiMessage` and `read_ai` get back, for every full
  scale, width, sign and offset; `FieldMessage` - the same of a field of bits. `FieldOfSum` is
  the lemma for several records in one byte: each reads its own bits of the sum.
  The conversions are sums over finite sets and powers of two, and the facts about those
  (`SumFacts`, `SumSplit`, `PowerAdds`) are proved by induction in a form without a predicate
  (`InductionOverNat`, `SubsetInduction`): every set of numbers with 0 and all successors is
  all of them, from a least element of the others.

`CanRecordValuesProofs`: for databases that are legal (`LegalDatabases`). That is what an author of a
database has to see to himself, for no code does: an address gives the
identifier it is written with (a sum below 65536), a value fits in the full scale or the field, and two
inputs with one identifier use different bytes or bits (`Proper`, `Apart` of `RecordData`). Bad addresses
are legal. TLC evaluates the formula on the databases of the run (`MCConfigsAreLegal`).

* `InputsHaveLatestValue` (`LatestValue`), `OutputsSentOrInAlarm` (`OutputOrAlarm`),
  `WaitsEndWithFreshData` (`FreshData`) - from `ValuesInv`. `LatestValue` is about records that nobody
  processes, so the invariant has to say what is under way: an I/O Intr input that lacks its latest
  value is going to be read, and when its status is not NO_ALARM twice, or a task is
  about to raise the alarm (`Coming`), since that read is spent on the alarm.
  `Sending` is `OutputOrAlarm` with the same allowance. `MeantData` says that the private data
  is what the last message meant, which is the round trip above; `Answered` that the
  status of a waiting record is NO_ALARM only after an answer or the recovery of the bus;
  `Waits` who can wait at all; `Silent` that records which were not attached stay out of it all.

`Ip520Proofs`:

* `SettingsAreNoted` - `SettingsHold`, from `SettingsInv`: a port has no rate before
  it is initialised, and afterwards the divisor is that of its rate and all else what its options ask for.
  The lemmas follow one register through opening and closing the bank. `ClockDivided` is not
  provable, and `ip520_baud` shows why.
* `Ip520Types`, `NothingLostInFifo` - `LineInv`: the FIFO of a port holds the characters
  from some number to the last one taken (`Chars`), and what `IP520Int` read
  of the port it serves still holds when it acts on it (`Serve`), since only the UART moves meanwhile.
  So no FIFO is filled unless it is empty.

`StartupProofs`: the invariant `StartupInv` is made of three, each inductive given those before it. The
routines of a carrier driver are a recursive function over steps; what holds after any number of them is proved by
induction over the steps (`InductionUpTo`), once, and then instantiated for each of the eight drivers.

* `BusInv` is about the registry: every number that is not the null carrier stands for the parameters it
  was added with, its ranges are among the claimed ones, and claimed ranges do not overlap. So two carriers that work
  cannot use one address, and the proof of `AddressesApart` (`WindowsDistinct`) is then about one carrier at a
  time: each window lies inside one of its own ranges, and the windows of its slots do not meet.
* `DeviceInv` is about the drivers' tables: who is in them has been accepted at its place, no place is in two entries
  that count, a blank entry has no ports, and `pc` points into a table.
* `QuietInv` says that whatever could interrupt has a hook that is registered and has not run yet. `RebootQuiet` is only its
  last moment: in every earlier one the hooks that are left have to cover what is still on. `DownIsQuiet`. A hook that goes
  beyond its table turns off more or crashes (then nothing is down, and nothing claimed), but never leaves out an entry of its own.
* `WellFormed` (`TypeOK`) adds the vectors and the list of TIP810 devices; how far a driver counts has no bound; `OnlyGenuineModules` (`PromTrusted`) has the hypothesis `FlawsFound`:
  the CRC finds the flaws of the machine's PROMs. What a checksum over any words finds is an induction over data and not
  provable here; TLC has evaluated `FlawsFound` on all machines of the run, which have every PROM that differs from a
  genuine one in a bit (`MCFlawsFound`). What the theorem adds is that there is no way into a table round the check.
* `ModulesAreServed` (`ModuleServed`) - from `ServedInv`, the furthest-reaching one. An entry that is ready `Stands`: its
  driver accepts the module at that place, the module gives the vector, the vector is `Linked` to the routine with the
  entry's own number (and, with an ATC40, with the card and slot that alone may take it back), and board
  and processor let its lines through (`Lets`). Each step is about one slot of one carrier; `StandsElsewhere` is that
  it disturbs no other, `StandsNew` that a module which has just been taken up stands. What is left
  is carriers added meanwhile: `BusyBoard` says that `ipacAddCarrier` leaves the board of a carrier that works as it was,
  because the routine fails at the claim of its registers (`Early`) or, of the MVME162, before it; that the ATC40
  routine does not is why `ModuleServed` asks for `AddedOnce`.
  The Acromag and Hytec routines set the levels of all slots at once, when the carrier is added: `CarriersArmed`.
  There is no hypothesis on the machine. What `Served` leaves out by name is the vector of an Octal on a TVME200
  without memory, which goes to a register in the I/O space of the carrier, and lines that the carrier has
  at level 0; `ModuleServed` leaves out an ISA level that cannot be attached, a jammed line, and an ATC40 added twice.

Only model-checked: all liveness properties, which are beyond this prover together with
ENABLED. Every invariant of a passing run is stated by a theorem.

## What was found

Runs that TLC finds violated:

* `can_transmit_reset`: `canBusReset` signals `txSem` before it ends the reset state
  (`drvTip810.c:822`); a writer in between loses the right to transmit for good.
* `can_read_request`: `canRead` sends its request out of the buffer that it has already published for
  the reply (`drvTip810.c:1358`): an early frame turns the request into a data frame.
* `ip520_baud`: a rate that is not supported is found out after the clock division has been
  changed (`ip520.c:719`): the port goes on at another rate than the driver notes, and asking for the
  noted rate changes nothing.

Further configurations that TLC finds violated, of properties that hold elsewhere or that a
comment or page suggests; run them by hand:

* `CanTransmit_overrun.cfg`: a receiver overrun signals `txSem` while a task is inside `putTxMessage`
  (`drvTip810.c:567`, `895`): two tasks share the registers.
* `Octal_rs485.cfg`: `tyGSOctalWrite` turns an RS-485 line round outside of the mutex of `tyWrite`
  (`tyGSOctal.c:627`): with two writers one cuts off the other.
* `CanTransmit_stop.cfg`: the interrupt of a bus-off takes a bus that was stopped out of reset
  (`drvTip810.c:601`), where the page says that `canBusStop` "Holds the pca82c200 chip [...] in the reset state"
  (`drvTip810.html:1212`): `StopSilences`.
* `CanRecords_recovery.cfg`, `Startup_memory.cfg` and `Startup_returns.cfg`: see above.

Seen in the models without a run: a `canRead` from the shell can make `canRecvTask` use a null pointer or a buffer
that was returned; a remote request from another node counts as the reply to `canRead`; a
character that comes in while its octal port is being created keeps the interrupt
pending; and the lists under `CanRecords` and `Carriers and Startup`.

## Not modelled

* Editing the callback lists while they are walked (`canMsgDelete`, a late `canMessage`), `canSignal`
  callbacks other than the records': no caller in the repository does it after `iocInit`.
* Calls to a bus between `t810Create` and `t810Initialise`; `canTest`.
* `devBiTip810.c`: reads a status bit, no state of its own.
* Rate, character format and RTS settings of the octal driver (`tyGSOctalBaudSet`,
  `OptsSet`, ioctl, Config); XON/XOFF.
* `tyGSOctal_RTEMS.c`: the same scan and mask on termios instead of the ty library.
* Statistics counters, reports (`ipacHy8002CarrierInfo` among them), iocsh registration, messages, build files.

`PROJECT.json` says for each component what is missing, and for each hazard without a
property why.
