# GetSetGo: models, checks and proofs

GetSetGo is a C framework for small controllers on FreeRTOS: queues, serial
ports, a task manager on software timers, non-volatile memory, system variables,
a command line, Modbus, CAN and device drivers, with ports for STM32 and a
Windows simulator. This directory holds TLA+ models of its core, the TLC runs
that check them on small instances, and TLAPS proofs for every instance.
Paths below are relative to `src/GetSetGo/`.

Every module is translated from the C source. `PROJECT.json` maps each
definition to the lines it stands for, lists the hazards of the code with the
properties that cover them, and the findings.

## 1. Inventory

### Modelled

| part | state it keeps | operations | who calls whom |
|---|---|---|---|
| queue object (`sys/queue`) | buffer, length, unit size, `count`, `todo`, `done`, type | init, insert, delete, peek | called by anyone, no locking |
| serial port (`services/serial`) | driver handlers, `ownershipMutex`, `ownerTask`, receive ring, `rxCount`, counting semaphore | open, close, register handlers, acquire, release, owner query, send, receive, receive interrupt | tasks above, UART driver and its interrupt below |
| task manager (`services/taskman`) | `taskRegistry`, `taskmgr_mutex`, one FreeRTOS timer per task | create, delete, enable, disable, change period, timer callback, housekeeping | clients in any task; callbacks in the timer daemon |
| non-volatile memory (`sys/nvm/nvm.c`) with the EEPROM (`device/24cXX`) | device record, `nvmMutex`, mounted and busy flags, the cells | mount, unmount, read, write | system variables above, I2C below |
| system variables (`services/svar`) | tables of values, module registry, one mutex | register, set, set string, reset one or all, load at start-up | Modbus registers, CAN and application above, non-volatile memory below |
| Modbus master (`connectivity/modbus`) | query list, query and request queues, slave table, the task's state and its pointers, response timer, receive queue and buffers | register and remove queries and slaves, timer handler, task, receive interrupt | application above, UART and register interface below |
| Modbus register interface (`modbus_register_interface.c`) | the values registers stand for, the place in the frame | store an answer, fill a write | Modbus master above, system variables below |
| CANopen's SDO server and client (`cbus/canopen/301`) | state, toggle, offsets, buffer or fifo, timer, `CANrxNew` of each end | both receive functions, both process functions, initiate, abort, close | CAN threads, object dictionary |
| CANopen's NMT (`CO_NMT_Heartbeat.c`) | operating state, command, heartbeat timer | receive, process, set the heartbeat time | process and receive threads |
| CAN bus (`cbus`, `drv/stm32/CAN`) | receive and send queues | receive interrupt, receive and send threads, `CO_CANsend`, dispatch | controller below, CANopen above |
| command line, debug log, real-time clock, IO, flash (`services/cli`, `debug`, `rtc`, `io`, `device/w25qXX`) | line buffer and queue; message buffer, stream; date and time; filters and debounce times; mutex and transfer | interrupt and task; log and send; count and set; sample; read, write, erase | serial ports below the first two, the tick interrupt, the io task, SPI |

What is hard in them, and what makes each correct:

* **Queue object**: three counters updated independently over wrap-around, two
  disciplines and re-initialisation. Correct when it is a bounded FIFO or LIFO and
  never touches memory outside the buffer.
* **Serial port**: the lock and the signature `ownerTask` are written in two steps
  in both directions, and read without the lock; a mutex that is not recursive can
  time out under its own owner. Correct when one task at a time is inside the
  port and the lock can always be given back. The **receive ring** is filled by an
  interrupt that ignores the task's mutex, and `rxCount--` is not atomic. Correct
  when bytes are neither overwritten nor reordered, and none is lost while the
  race does not happen.
* **Task manager**: a registry under a mutex, timers under a queue of commands to a
  daemon, and callbacks in that daemon that change the registry under a critical
  section the mutex holders do not take. Correct when slots and timers stay in
  step, no command reaches freed memory, flags tell the truth about timers, and
  deleted slots come back.
* **Non-volatile memory**: a write is many bus transfers under one mutex, each of
  which may fail and must not cross a page. Correct when tasks see an atomic
  memory whose failed writes leave a prefix.
* **System variables**: the value is stored under one mutex and written to the device
  after it is given back, under another; callbacks set further variables. Correct
  when memory, device and what callbacks were told agree whenever no call is under
  way, and a restart loads a value that was set.
* **SDO**: two state machines, each with a receive function in another thread, over a
  network that loses, doubles and delays; sub-blocks are repeated from the middle.
  Correct when what an end reports as done has arrived, and no end is stuck.
* **CAN, NMT, command line, debug log**: a producer and a consumer of different
  priority share a queue and a flag that is not part of it. **Clock, IO, flash,
  registers**: carries, ranges and pointers at their limits.
* **Modbus master**: time, a line, an interrupt, a timer handler and a task that
  returns to IDLE in the middle of an exchange. Correct when exchanges do not
  overlap, each ends, and an answer reaches the registers that were asked for.

### Not modelled

* The rest of CANopenNode under `cbus/canopen` (emergency, SYNC, PDO, TIME, LSS, SRDO,
  heartbeat consumer, node guarding, gateway, storage, LEDs): third-party code that
  `CO_driver_target.h` switches off. The firmware builds NMT with the heartbeat
  producer and the segmented SDO server; `Sdo` covers block transfers and the client too.
* `cbuslw`: a copy of `cbus` that differs in `cbus_svar.c` alone. What is shown of the
  original holds for the copy; the map names the original. Together the two copies are
  46 of the repository's 63 thousand lines, which is why the share mapped stays small.
* Modbus slave: unfinished; its receive context is never set and its last states
  are empty.
* ESP8266: does not build against the serial driver (`SER_flushRxBuffer` and
  `SER_sendString` no longer exist), and nothing calls it.
* UART, SPI, I2C, ADC, GPIO, LCD1602: register access and one HAL transfer per call
  under a mutex, pin writes in fixed order. The one transfer that outlives its call, the
  UART's transmission by interrupt, is part of `DebugLog`.
* `sys/core`, `sys/fault`, the rest of `sys/sys.c`, ports and `gsg_*.h`: initialisation
  before the scheduler runs, macros and definitions; the modules use what they mean.
* `sys/nvm/NVM_rtos.c` (superseded, does not build), `utilities/stream` (does not
  compile), event, fslite and parsers (no bodies), sysinfo (formatting).
* `svar_gen_script.py` and the simulator: not part of the running firmware.
* `Junk/`: abandoned versions.

## 2. Plan

Done, in this order: the core (`SysQueue`, `SerialPort`, `SerialRx`, `TaskMgr`, `Nvm`,
`ModbusMaster`), then `Svar` over the promise of `Nvm`, `Sdo`, and the services.

Proved, in this order: `SysQueue`, `SerialPort`, `SerialRx`, `Nvm`, then `Svar`, `TaskMgr`,
`ModbusMaster`, the services and the buffers of `Sdo`.

Then the downloads of `Sdo`, and its uploads. None of these modules uses a RECURSIVE operator.

Runs stay few: one per question. Some properties that a stronger one implies, or that a
proof settles, are stated in the modules and no longer part of a run: section 4.

## 3. Modules

### SysQueue (BoundedQueue, MCServices, ServicesProofs)

A cell of `buffer` is one unit; `_QUE_Insert`, `_QUE_Delete` and `_QUE_Peek` copy
whole units. Bytes appear only in `PeekOffset`, which keeps the C type: the offset
is computed modulo 2^16, and a read that does not start on a unit is `Torn`. One
cell past the longest queue stands for the memory behind the buffer.
A peek takes an `nth` that is not negative: of the C type `int16_t` the code refuses
none below 0 (`sys_queue.c:146`), and would read in front of the buffer.
`BoundedQueue` is the abstract specification: a sequence with a capacity and a
discipline, whose operations return what the C functions promise. `Refines` maps
`Items`, the units from the oldest to the newest, to it.

### SerialPort (MCServices, ServicesProofs)

One port, any tasks. Calls are split where another task may run: between the take
of `ownershipMutex` and the write of `ownerTask`, between its clearing and the
give, and around a transfer. `SER_openPort` and `SER_closePort` are setup code and
atomic, between uses. `state` is only ever assigned `SERIAL_PORT_INVALID`; the
model keeps that, and `MaxOpens` bounds how often the port is opened without a
close: 1 for the properties that need a disciplined caller, 2 for the finding.

### SerialRx (SerialRxProofs)

The ring of an open port. The task is split at each access to shared state, the
load and the store of `rxCount--` apart; the interrupt is atomic with respect to
the task and may come between any two steps. That one task at a time is inside is
`ExclusiveUse` of SerialPort. A byte is its arrival number, so order and loss are
visible. `raced` remembers an arrival inside a pop, anywhere from the take of the semaphore
to the comparison of the counts: there a byte's count may be lost, or the place of the byte
popped (`SERIAL.c:266`), and `NothingLost` promises nothing from then on.

### TaskMgr (MCTaskMgr, TaskMgrProofs)

`op[c]` is what a client is in the middle of while it holds the mutex, `daemon` the
same for the timer daemon, `cmds` FreeRTOS's command queue. A command posted with
`portMAX_DELAY` waits for room; `xTimerDelete(.., 0)` is dropped when there is none.
An active timer may expire at any time. `DaemonFirst` says whether the daemon has
the highest priority, in which case it runs before a client goes on.
`TASKMGR_getPeriodicity` changes nothing and has no action.

### Nvm (AtomicNvm, MCNvm, NvmProofs)

`accessNvmCell` as refusal, lock, one step per chunk (or one read), return. Three
devices: dummy memory, a chip that wraps in its page, a flat one. A bus error may
hit before or after the chip has taken a chunk. `InChip` is EE_writeData's own
bounds check. `AtomicNvm` is what tasks may rely on; `Refines` maps its cells to
`settled`, the cells when the mutex was last given.

### ModbusMaster (MCModbusMaster, ModbusMasterProofs)

One master port after `MB_startPort`. The application's calls, the timer's handler
slot by slot, the task state by state, time and the line. A frame is the query it
answers, sent in two parts, and passes the length and CRC checks when a buffer
holds exactly the two parts of one frame; noise is a byte of no frame. The gap that ends a
frame (`FrameGap`) cannot come while an answer in time is on its way, unless a byte of noise
came ahead of it and started the gap's timer. `registers`
remembers which query's answer was last written to the registers a query names.
Task and timer handler may preempt each other anywhere. Not modelled:
`MB_destroyPort`, the register data in frames, several receive contexts, and the
interframe timer, which RESET always zeroes before it is consulted. A response timer
started at tick 0, once in 2^32 ticks, counts as not running (`modbus_master.c:136`); it is
left out too.

### Svar (MCSvar, SvarProofs)

Registration, set, set string, reset and reset of a module, each split where it gives
or takes a mutex: look-up, store under `svarMutex`, write to the device unit by unit
from the variable itself, callback. Applications chain variables: a callback may set a
further one, though never while a module is reset, when `svarMutex` is held. The device keeps what `AtomicNvm` promises except that the value is read while it is
written, because `NVM_writeData` is handed a pointer. `fail` is a device that refuses,
`powerLoss` a restart in the middle of anything. A load gives what the device holds, or part
of it and the default behind, when a read fails: nobody looks at its result (`svar.c:207`,
216), nor is `setCb` called for what was loaded. `dirty` remembers that the last access to the
device for a variable failed. A value is a sequence of units so that a half-written one is
visible.

### Sdo (MCSdo, MCSdoText, SdoProofs, SdoTransferProofs)

`cli` and `srv` are the two records of the C code, `toSrv` and `toCli` the frames
under way. A process function is one step that takes a frame, looks at its timers and
sends at most one; the receive functions are steps of their own. A CRC is the sequence
of the bytes it was computed over, so equal CRCs mean equal data. Silence on both sides
precedes a timeout, except for the `MaxFaults` early ones; a fault may also lose
or double a frame, or abort. Segments of two bytes, an
expedited one, stand for 7 and 4, and `Cap` for the 127 segments a sub-block has at most;
`Buf` and `Fifo` are small enough to fill up, and large enough to have room for `Cap`.
More faults than a sequence number and a toggle bit can tell apart are not claimed.
`OrderlySpec` is the same system on a bus that doubles no frame, with an application that
starts a transfer only when nothing is left of the last one; on it transfers are proved.
A frame that arrives where a segment of a sub-block is expected and is none has its command
byte taken for the number. The model takes it for a number that is not due (`OutOfTurn`):
byte by byte, an old segment's command could be the one number that is.

### CanBus, Nmt

`CanBus` is the path of a frame: controller fifo, interrupt, `rxQueue`, receive thread,
dispatch; and `CO_CANsend`, `txQueue`, send thread, mailboxes. `Nmt` extends it: the
receive thread sets `internalCommand`, the process thread executes and clears it in
separate steps, and compares the state with the remembered one on its next call.

### Cli, DebugLog, Rtc, Io, Flash, ModbusRegs (MCServices, ServicesProofs)

Each a page. `Cli`: interrupt, queue, notification, task, line buffer with what earlier
lines left; a command is looked up by its name cut to `NameSize`. `DebugLog`: loggers, their
buffer and mutex, stream, task, and the UART, whose interrupt reads the task's buffer
character by character and goes on after the task's timeout (`TransmitTimeout`). `Rtc`: the
carry against a count of days. `Io`: one analog channel, with gain and offset that change at
will, and one digital, the levels seen kept as a ghost. `Flash`: the device ignores commands
while busy or not write-enabled and only clears bits; each transfer may fail before or after
the device has taken it; sums wrap at `AddressSpace`, so that calls outside the memory (`~Fits`) go
ahead as they do in the code, to cells the model has not. `ModbusRegs`: the loops over a table of every kind of register, the two pointers
moved apart as in the code.

`MCServices` instances all of them with `SysQueue`, `CanBus`, `Nmt` and `SerialPort`. They share nothing, so the
initial state picks one `part` and their states add up instead of multiplying.

## 4. Runs

| run | shows |
|---|---|
| `serial_rx` | Ring of 3 cells, 5 bytes, requests up to 2: counts, order, nothing overwritten; nothing lost without the race. |
| `taskmgr` | Two clients, three slots, a periodic task and a one-shot, the daemon first, under fairness: ownership, commands, flags, reclaiming; no deadlock. |
| `taskmgr_slow` | The daemon at any time and a command queue of two that fills up: `DisabledIsStopped`. |
| `nvm` | Two tasks, five cells, pages of two, three devices, bus errors, remounts, under fairness: exact writes, atomicity, every access returns. |
| `modbus` | Two reads and a write of one slave and a coil query of another, answers in time, late, exceptional, cut, absent, no noise: `OneOutstanding`, `AnswersGoHome`, where answers in time end up, and `MatchedAnswers`, where late ones may. |
| `modbus_fault` | Finding: a query of an unknown slave resets a port that has no receive context. |
| `modbus_live` | Queues of one entry and a byte of noise, under fairness: every exchange ends, an aperiodic query leaves the list. |
| `svar` | Two tasks, two modules, three variables of which one is persistent, watched and chained to another: `DeviceAgrees`, `CallbackUpToDate`, and under fairness `CallsReturn`; `SurvivesPowerLoss`: a value whose write had ended is the value the module starts with again, if the load can read it. The module that is reset is the one saved and watched. |
| `svar_strings` | Finding: a string set through `SVAR_Set` loses its buffer. |
| `sdo` | Two transfers out of eleven kinds, sub-blocks of at most two segments, one fault (89 thousand states): `DownloadsArrive`, `UploadsArrive`, `SubBlocksFit`, and under fairness `TransfersEnd`, `ServerFreed`. |
| `sdo_text` | Finding: of a text as long as the server's buffer the zero is uploaded too. |
| `services` | One service to a behaviour (344 thousand states): of queue objects of 0 to 3 units over two values, both disciplines, re-initialised at any time, `CountersAgree` and the refinement of `BoundedQueue` (`QueueRefines`); `CliRuns` (a line typed is run, live, and lines typed ahead in order), `LogInOrder`, `RtcCounts`, `FilteredWithin`, `Debounced`, `FlashDoes`, `RegsOwnWords`, `CanInOrder`, `StatesReported`, and of a serial port with four tasks `OwnerHoldsMutex`, `ExclusiveUse`, `NoOrphanLock`. |

Still stated in the modules but in no run: the type invariants and `RingInOrder` that
section 5 proves; `FreeSlotsAreClean`, `FreshBuffers`, `NeverNull`, `NoOverrun` and
`StringsEnd`, which TLC found to hold and which gave way to properties that say more; and
`OpenedOnce`, `UniqueIds`, `AperiodicOnce`, `NoCommandLost`, `NoArgsLeftOver`,
`RejectedSkipsOwn`, `SecondsInTime`, which do not hold: section 6.

Each property of a passing run has a seeded fault of the code that breaks it under
the same configuration (the definitions commented "Seeded fault" or "mutant").

**Bounds.**
* `services`, the queue object: three units are the first size at which the wrap of both indexes, a full
  queue and an interior peek differ; the buffer starts with arbitrary contents.
* `services`, the port: an owner, one blocked on acquire, one on the owner query, one caught
  between mutex and signature; a fifth would repeat one of them. The theorems
  remove the bound.
* `serial_rx`: five bytes go round a ring of three cells and overfill it; a request of
  two returns full or after a timeout. The theorems remove the bounds.
* `taskmgr`: one slot for housekeeping and two for users, so that a hole in front of a
  used slot exists; a command queue of 4 has room for what the slots can owe, so that no
  delete is dropped there, and of 2 (`taskmgr_slow`) has not. With that queue
  `TimersAreOwned` fails: createTask's delete of a timer it could not start is lost
  (`taskmgr.c:118`). Period 9 rounds to 0, the one-shot. `Touched` limits
  which ids are deleted, enabled and so on. `taskmgr_slow` omits period changes: see
  section 7. It does not check deadlock, because there the system really stops.
* `nvm`: requests start on, before and across a boundary and end on and past the last
  cell; five cells leave a last page that is half outside the device. That every access
  returns does not tell that the lock is given back, as its take times out; the invariant
  of `NvmProofs` does: who holds it has a request under way.
* `modbus`: one list slot (so that a query replaces another), queues of two, two
  application calls. `Lateness` is chosen in the initial state, so that a behaviour
  has either only timely answers or possibly late ones. Two calls suffice to
  register, then remove or dismiss, in the middle of an exchange. `modbus_live` shrinks
  the queues to one entry so that requests to remove a query are really dropped;
  `AperiodicLeaves` says that the query leaves in the end, not how often it was sent.
* `svar`: two units for each value, so that a value can be half written; two slots for
  two modules; a chain of one callback. Calls are not counted: the state space is
  finite without it. The string has three units, so that a part of it can be set. `m1`,
  which may be reset, holds the variable that is saved and watched, so that the write and the
  callback happen inside `svarMutex`. A callback called there that sets a variable would wait
  for its own task for ever (`svar.c:874`): `CallsReturn` is of applications without one.
* `sdo`: objects of one, four and nine bytes over a server buffer of eight and a client
  fifo of six, and a `Cap` of two, so that expedited, segmented and block transfers, several
  sub-blocks, refills of the buffer, and a buffer with room for more than the largest
  sub-block all happen; two transfers, so that leftovers of one meet the next.
* `services`: in the cfg, per part. Three lines, typed when the terminal likes, over a
  queue of five characters, which two of them may fill; one has a command with arguments, one
  a name that is found once it is cut, one a name nobody has. Four messages over a stream that
  holds two and a half; three flash calls with a failure, three of the nine outside what fits,
  over pages, sectors and blocks of 4, 2, 4 and 8 units (each divides the next); readings from
  one calibration to another of negative gain;
  two queries of registers of every kind; frames received and sent beyond both queues;
  samples of 0 to 7. `Rtc` starts at, or is set to, the seconds before a carry.

**Fairness.** Safety needs none. `TaskMgr`: a client inside a call goes on (FreeRTOS
schedules ready tasks), the daemon serves its queue, and an active timer expires
again and again; strong fairness, because commands served in between disable the
expiry, and FreeRTOS looks at its list of timers between batches. `Nvm`: a task
inside an access goes on; which transfers fail is left open. `ModbusMaster`: the
task and the timer handler are scheduled, the periodic timer fires, time passes
for a running timer, bytes sent arrive. Neither clients' calls nor noise are fair. `Svar`: a task
inside a call goes on; strong, because the mutex it waits for may be taken again and
again by the other, and FreeRTOS serves waiting tasks in order. `Sdo`: both process
functions are called in their loops, receive functions follow a frame, and with
silence on both sides timers run out; frames are delivered unless lost. `services`:
the interrupt and the task of the command line run; what is typed is left open.

## 5. Proofs

All theorems are of the form `Spec => ...` for every value of the constants, from
the module's named assumption. Where a theorem needs more, the hypothesis is named here.

* `SerialRxProofs`: `CountsAreSafe`, `RingStaysInOrder`, `PopsAreInOrder`, `UnreadIsKept`,
  `NothingIsLost`, for any ring, any number of bytes and any requests; the last as long as no
  byte arrives inside a pop. The invariant adds `PopInFlight` (what the
  task has loaded is bounded by what the ring holds) and `PopsBehind` (the byte popped
  last has arrived). The interrupt's step is one lemma, `Advance` and `Copy` one each.
* `NvmProofs`: `TypeCorrect`, `WritesAreExact`, `Refinement`, for any tasks, requests,
  sizes and page size. The invariant is `WriteInProgress` with the fact that only the
  holder of the mutex has made progress. A chunk extends the written prefix by
  exactly its length since it never crosses a boundary.

* `SvarProofs`: `CallbacksCatchUp`, `DeviceKeepsUp`, `WrittenSurvives`, for any tasks, modules
  and variables, and a power loss anywhere. `Sound` says of each kind of call what it holds
  and how far it has come; `Agreed`, of each persistent variable, that what is written is
  what memory holds unless some task is about to write it from its start again. The last
  two theorems assume `PersistentStringsEnd`: whoever sets a persistent string ends it,
  since a device that is read back ends it itself. Both speak of a variable only while its
  last access to the device, the load included, did not fail, and the first of callbacks made
  since the load.
* `TaskMgrProofs`: `TypeCorrect`, and under hypotheses `CommandsFindTheirTimers`,
  `SlotsKeepTimers`, `OwnershipHolds`, `EnabledTasksRun`, `DisabledTasksStop`, for any clients, slots, ids and
  periods. `Inv` describes, slot by slot and timer by timer, which of the two is ahead:
  the queue holds at most one command that is no delete and nothing behind a delete of
  the same timer (`QueueOK`); `CallOK`, `DaemonOK` and `StaleOK` say what a call, the daemon
  and a timer on its way out may rely on. `Accounted` adds that a live timer has a slot
  or a delete, `SwitchInv` that flag and timer agree but for the command under way.
  Hypotheses, all of them conditions outside `taskmgr.c`: `DaemonFirst`
  (the daemon's priority is set in a FreeRTOSConfig.h the repository does not have; with
  a slower daemon the system can deadlock) and `PeriodicTouched` (no client deletes,
  switches or re-times a one-shot, whose callback frees its slot without the mutex);
  for `OwnershipHolds` a queue as long as there are timers (`SlotsKeepTimers`, its half about
  slots, does without), for `EnabledTasksRun` that
  no client touches the housekeeping task, for `DisabledTasksStop` no period changes. What
  happens otherwise is said in sections 4 and 7. `DaemonFirst` serves the argument: run
  `taskmgr_slow` checks `DisabledIsStopped` without it, and TLC finds `EnabledRuns` and
  `CommandsReachLiveTimers` to hold under the same bounds.
* `ModbusMasterProofs`: `TypeCorrect`, `ExchangesAreSound` (`NeverNull` and `FreshBuffers`),
  `AnswersAreWrittenHome`, `AnswersAreMatched`, `OneAtATime`, for any slaves, queries, queue
  lengths and calls. `Inv` ties the task's state to its pointers (`ExchangeOK`), the parts
  in the receive queue, the buffer and on the line to the query in process
  (`BufferOK`, `LineOK`), and, where answers beat the timeout and no noise has come,
  everything under way to the one query that waits (`InTime`). `NeverNull` is of the states from
  the taking of a query to the parsing of the answer; RESET is not one of them. `AnswersAreMatched`,
  which needs neither hypothesis, is of slave and type; sizes are not compared.
* `ServicesProofs`, one invariant per service:
  * `QueueTypeCorrect`, `QueueCountersAgree`, `NeverOverruns`, `QueueIsBounded`: the queue object, for
    any length and unit size. The inductive invariant is types and agreement of `todo`, `done`
    and `count`, without which the index of the next write is not known to be free. Each step
    maps `Items` to an append, a removal at one end, or a stutter. `QueueIsBounded` also assumes
    `MaxLength * UnitSize =< 65536`, the range of the offset in `_QUE_Peek`; beyond it the
    statement is false.
  * `OwnershipIsLocked`, `UseIsExclusive`, `LockIsNeverOrphaned`: a serial port, for any set of
    tasks, assuming `MaxOpens = 1`. The invariant adds to the three properties that a task inside
    a transfer is the owner, and that one between the steps of a call holds the mutex.
  * `SecondsAreCounted`: date and time are a calendar day and a time of day, and name the
    day and second counted; the lemmas are about `DaysBefore` and leap years. Dates are
    assumed to be set to days of the calendar, which `RTC_SetDate` does not check; the
    year is unbounded, in the code it has 16 bits.
  * `StatesAreReported`: outside a call of the process function, the last heartbeat told the
    current or the previous state.
  * `LogsAreInOrder`: port, port buffer, stream and log buffer, read in this order, are sorted
    (`PipeInOrder`), as long as no transmission has outlasted its timeout.
  * `FramesAreInOrder`: each queue is sorted, what is further on the way is older, and mailboxes,
    queue and wire have no frame in common.
  * `FilterStaysWithin`: the conversion of counts to values is monotone in both its roundings,
    upwards or downwards by the sign of the gain, and a weighted mean rounded towards 0 stays between its two arguments. Weights up to
    1000, which `IO_ConfigureAnalogEMA` checks.
  * `LevelsHaveLasted`: the elapsed time is `k` periods exactly when the last `k` readings differ
    from the state. `Depth`, the model's memory of readings, covers the debounce times.
  * `CallsDoAsTheySay`: while a call is under way its range up to `address` is as asked and
    everything else as it was (`Active`); sectors and blocks are whole (`PassedBy`). It is of
    calls that fit (`Fits`): inside the memory, and in whole sectors for the smart erase, neither
    of which the code checks completely. Blocks are multiples of the 4 KB sector.
  * `RegistersHaveTheirWords`: the pointer into the frame is one more than the registers done
    (`AtOwnWords`), and the registers behind it have their words. A query that begins or ends
    in the middle of a long, which the code does not refuse, is left out, and so is one with a
    value out of range, a flag that may not be written or a register that may not be read: those
    branches lose the place in the frame.

* `SdoProofs`: `SdoInvariant`, `SegmentsHaveRoom` (`SubBlocksFit`) and `BuffersHold`, for any
  dictionary, jobs and buffer sizes, and any number of faults. They assume `SdoAssumption`: the
  sizes the build insists on (`CO_SDOserver.c:28`, `CO_SDOclient.c:27`), and that a segment is
  no shorter than expedited data. That a sub-block fits is not inductive. `SdoInv` says, state
  by state, what an end may rely on (`SrvAt`, `CliAt`): while a block is taken there is room for
  every segment still to come, on the server for the end of a text besides; a block that is
  sent can go back to the last segment confirmed; after the answer to a request the object is
  at hand and the place in it is no further than its length. Since either end may be in any
  state when a stale frame, a second copy or an abort arrives, each process function is cut
  into take, send and abort, and every piece keeps the invariant on its own (`SrvTakeOK`,
  `SrvSendOK`, `CliTakeOK`, ...). `SdoInv` holds on the run of the model checker with two faults too.

* `SdoTransferProofs`: `DownloadsAreWhole` (`DownloadsArrive`), for any dictionary, jobs and buffer
  sizes, and any number of frames lost, timeouts, early ones too, aborts and closes. It is about
  `OrderlySpec`: a toggle bit does not tell a frame from a second copy of the one before the
  last, nor an answer to this transfer from one to the last of the same object, so with
  doubled frames and enough faults `DownloadsArrive` is false. And it assumes that the jobs are
  `Fitting`: a string without zeros and not empty, unsized expedited data as long as the object,
  of which the server takes its own length. That the object holds the data in the end is far
  from inductive. `ArriveInv` says what both ends and the bus hold between them, by where the
  client is: it has asked (`Waiting`: the question, the server about to answer, the answer, or
  nothing any more), it is about to ask (`Ready`), it sends a block (`Blocks`, where frames are
  many and only the CRC tells), or it is done (`Arrived`). In each, what the server has written
  and buffers is as much of the data as the client has sent and had confirmed (`SrvDown`,
  `CliHas`), and a server that was left behind by an earlier question says nothing that counts
  (`Mute`). The steps are summed up first, end by end (`Took`, `Gave`), and then put together
  with what is under way. TLC found `ArriveInv` to hold on the run's transfers, with up to
  three faults, before it was proved.

  And `UploadsAreWhole` (`UploadsArrive`), of `OrderlySpec` too. It assumes `TextsFit`: of a
  string longer than the server's buffer a text can end where the buffer is full, and then
  comes with a zero too many (`CO_SDOserver.c:543`, run `sdo_text`). `UploadInv` has three
  parts. What the server has (`SrvUp`): it has read the value up to `Reach`; in segments it has
  sent it up to `tran` and its buffer holds exactly what is between, and in blocks, which go
  back as far as was not confirmed, its CRC is over all it has read. What the client has
  (`CliUpHas`): in segments what it holds, handed out or still in the fifo, is the first `tran`
  bytes; in a block only its CRC is known to be over what it holds, as segments come twice, in
  another transfer's place or not at all. And what is under way (`Up`): in segments one
  question or one answer, with the toggle bit both agree on and the part that comes next; in a
  block any number of frames, but an end carries the CRC of the whole value, and the client
  believes no other; and the server does not change the value while the client is busy. So one
  argument, of places, holds for segments and another, of checksums, for blocks; the steps are
  again summed up end by end (`TookUp`, `GaveUp`, `AnswerTaken`) before they meet.

Only model-checked: every liveness property, which is outside the prover's reach, and
`CliRuns`, of which half is one. What the passing runs check besides is stated by theorems.

## 6. Findings

`PROJECT.json` quotes the line of each. With a run: a string variable set through
`SVAR_Set` keeps the caller's pointer (`svar.c:237`); the Modbus master faults when its first
query names an unknown slave (`modbus_master.c:216`); the SDO server sends the zero of a text that
is as long as its buffer (`CO_SDOserver.c:547`). Stated in a module, where TLC finds
them violated when they are put into a cfg: an open serial port is not protected from a
second open (`OpenedOnce`); duplicate task ids after a deletion (`UniqueIds`); an aperiodic
Modbus query is sent more than once (`AperiodicOnce`); a value out of range shifts the
registers behind it (`RejectedSkipsOwn`); a command without arguments is passed a rest of
an earlier line (`NoArgsLeftOver`); an NMT command can be cleared unread (`NoCommandLost`);
the clock counts a second every 1001 ticks (`SecondsInTime`). Without a property: a BOOL
is stored as 0 where the comment speaks of commands (`svar.c:417`); the erase callback
does not choose sector sizes (`flash.c:328`); the CAN send that a comment calls
blocking does not wait (`can.c:137`).

## 7. Further observations

Seen while modelling:

* `TASKMGR_updatePeriodicity` starts the timer of a disabled or deleted task
  (`taskmgr.c:229`), so `DisabledIsStopped` fails once updates are allowed.
* With a daemon of lower priority than its clients, a client that waits for room in
  the command queue with the mutex held and a daemon that waits for the mutex
  deadlock (`taskmgr.c:155`).
* A late Modbus answer is taken for the answer to the next query of the same slave
  and function (`modbus_frame.c:150`); `MatchedAnswers` is as much as holds. A byte of noise
  ahead of an answer ends the exchange after the gap (`modbus_master.c:149`), and makes a late
  answer of one that was in time.
* A byte that arrives in the middle of a pop hides it (`SERIAL.c:266`): the byte popped is
  overwritten by the next.
* A noise byte marks the slave in process as connected (`modbus_master.c:199`,
  against the comment at `modbus_frame.c:158`).
* A slave unregistered between look-up and frame is sent a write of zeros
  (`modbus_frame.c:102`); answers with input registers are never stored (172).
* `MB_masterUnregisterQuery` returns `GSG_NOT_FOUND` even when it queued the removal
  (`modbus_master.c:519`).
* `_QUE_Peek` reads the wrong unit in buffers of more than 65536 bytes
  (`sys_queue.c:144`).
* System variables: persistent variables of category RUNTIME are never written to the
  device; `readOnly` is never checked; a blank device is loaded without validation; a read
  that fails at the load leaves the default in memory and nobody is told (`svar.c:207`); no
  `setCb` is called for what was loaded;
  `SVAR_ResetModule` calls `setCb` with the mutex held, and a callback that comes
  back to the service waits for itself (`svar.c:874`).
* Modbus registers: strings come back with the bytes of each word swapped between
  `mb_regRead` and `mb_regWrite`; a 32-bit register that may not be read does not count in
  `mb_regRead`; it checks only `holdingRegistersCount`; a flags register that may not
  be accessed does not move the pointer. `RegsOwnWords` leaves these out by name.
* Command line: newlines typed ahead share one notification and leave the task a line
  behind; a line as long as the queue loses its newline; a module name of ten
  characters never matches, and a longer one typed for a name of nine does, with arguments
  from its middle (`cli.c:134`); `CLI_rxIsrProxy` counts a byte before it asks whether there
  was one.
* Debug log: `DEBUG_setPort` during a send makes the task release the other port.
* Flash: `FLASH_eraseSectorSmart` wraps for a size that is no multiple of 4 KB: it erases
  on over what follows and does not end (`flash.c:316`). An address and a size whose sum wraps
  pass the checks (`flash.c:131`, 189, 261, 339).
* IO: a channel is published before its fields are set, and two configurers may take the
  same slot; `debounceElapsedMs` wraps for debounce times near 65535 ms.
* CAN: `CBUS_CAN_BITRATE` is passed as `firstHBTime_ms`; frames of equal identifier may
  overtake each other in the mailboxes.
* UART: a transmission is not aborted when its writer's timeout ends (`uart.c:157`). It
  goes on from a buffer the writer fills anew, so that the log repeats and mixes characters,
  and the completion it gives lets the next write return before its own transmission has
  ended. `LogInOrder` rests on the timeout being long enough, as `debug.c:33` demands.
