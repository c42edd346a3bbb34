----------------------------- MODULE MCServices -----------------------------
(* The services that share nothing with each other, one to a behaviour: the *)
(* part that runs is picked at the start.                                   *)
EXTENDS Integers, Sequences

CONSTANTS RxSize, LineSize, Lines, Newline, Space, Nul, NameSize, Commands, MaxLines
VARIABLES sent, left, early, dropped, cliRxQueue, notified, reading, bufferIndex, buffer, ran
C == INSTANCE Cli
cliVars == <<sent, left, early, dropped, cliRxQueue, notified, reading, bufferIndex, buffer, ran>>

CONSTANTS Logger, MsgLen, ChunkLen, StreamSize, MaxLogs
VARIABLES debugLogMutex, msg, offset, debugMsgBuff, debugStream, debugPort, txBuffer, txLen,
          sending, txNext, txLeft, txCplt, timedOut, portOut, logs
D == INSTANCE DebugLog
debugVars == <<debugLogMutex, msg, offset, debugMsgBuff, debugStream, debugPort, txBuffer, txLen,
               sending, txNext, txLeft, txCplt, timedOut, portOut, logs>>

CONSTANTS Second, SetDates, SetTimes, MaxSeconds
VARIABLES date, time, elapsed, day, second, seconds
R == INSTANCE Rtc
rtcVars == <<date, time, elapsed, day, second, seconds>>

CONSTANTS Period, MaxCount, Vref, Gain, Precision, Calibrations, DefaultAlpha, DebounceTimes,
          Alphas, Depth
VARIABLES rawCount, filteredCount, minCount, maxCount, anaValue, minValue, maxValue,
          firstSample, emaAlpha, calibration, usedCalibration, state, debounceElapsedMs,
          debounceTimeMs, levels
I == INSTANCE Io
ioVars == <<rawCount, filteredCount, minCount, maxCount, anaValue, minValue, maxValue,
            firstSample, emaAlpha, calibration, usedCalibration, state, debounceElapsedMs,
            debounceTimeMs, levels>>

CONSTANTS Capacity, PageSize, Sector4K, Sector32K, Sector64K, AddressSpace, Chunk, Calls, MaxCalls,
          MaxFaults
VARIABLES cells, enabled, busy, call, flashAt, address, remaining, data, before, result,
          calls, flashFaults
F == INSTANCE Flash
flashVars == <<cells, enabled, busy, call, flashAt, address, remaining, data, before, result,
               calls, flashFaults>>

CONSTANTS Table, Queries, MaxQueries
VARIABLES value, rxFrame, txFrame, query, doing, regToDo, frame, rejected, queries
M == INSTANCE ModbusRegs
regVars == <<value, rxFrame, txFrame, query, doing, regToDo, frame, rejected, queries>>

CONSTANTS FifoLen, Mailboxes, RxLength, TxLength, rxArray, Arrivals, MaxArrived, MaxQueued,
          Controls, HbTimes, FirstHBTime, MaxRuns, MaxFaultChanges, MaxWrites
VARIABLES fifo, rxQueue, txQueue, mailbox, arrived, queued, dispatched, wire,
          NMTcontrol, operatingState, operatingStatePrev, HBproducerTime, HBproducerTimer,
          internalCommand, nmtAt, NMTstateCpy, faulty, lastHb, unheard, runs, changes, writes
B == INSTANCE CanBus
\* The node has the shortest queues: the long ones are what the parts "canrx" and
\* "cantx" are for.
N == INSTANCE Nmt WITH FifoLen <- 1, Mailboxes <- 1, RxLength <- 1, TxLength <- 1, MaxArrived <- 2,
       Arrivals <- {f \in Arrivals : f.ident # "else"}
busVars  == <<fifo, rxQueue, txQueue, mailbox, arrived, queued, dispatched, wire>>
nodeVars == <<NMTcontrol, operatingState, operatingStatePrev, HBproducerTime, HBproducerTimer,
              internalCommand, nmtAt, NMTstateCpy, faulty, lastHb, unheard, runs, changes, writes>>

CONSTANTS Task, NULL, Free, MaxOpens
VARIABLES sendData, portState, ownershipMutex, ownerTask, opens, portAt
P == INSTANCE SerialPort WITH state <- portState, mutex <- ownershipMutex, owner <- ownerTask,
       pc <- portAt
portVars == <<sendData, portState, ownershipMutex, ownerTask, opens, portAt>>

CONSTANTS Value, Zero, Torn, MaxLength, UnitSize
VARIABLES queueBuffer, length, queueCount, todo, done, type, ret, queueData
Q == INSTANCE SysQueue WITH buffer <- queueBuffer, count <- queueCount, data <- queueData
queueVars == <<queueBuffer, length, queueCount, todo, done, type, ret, queueData>>

----------------------------------------------------------------------------
\* The application sets the clock to a day of the calendar and a time of the day,
\* which RTC_SetDate and RTC_SetTime do not check.
MonthLength == <<31, 28, 31, 30, 31, 30, 31, 31, 30, 31, 30, 31>>
CalendarDay(d) ==
  /\ d \in [year : Nat, month : 1..12, day : 1..31]
  /\ d.day <= MonthLength[d.month] + (IF d.month = 2 /\ R!Leap(d.year) THEN 1 ELSE 0)
TimeOfDay(t) == t \in [hours : 0..23, minutes : 0..59, seconds : 0..59]

ASSUME RtcAssumption ==
  /\ \A d \in SetDates : CalendarDay(d)
  /\ \A t \in SetTimes : TimeOfDay(t)

ASSUME IoAssumption ==
  /\ MaxCount \in Nat \ {0} /\ Vref \in Nat /\ Gain \in Nat /\ Precision \in Nat
  /\ Calibrations \subseteq [gain : Int, offset : Int]
  /\ DefaultAlpha \in 0..1000 /\ Alphas \subseteq 0..1000
  /\ Period \in Nat \ {0} /\ Depth \in Nat \ {0}
  /\ \A t \in DebounceTimes : t \in Nat /\ t <= Depth * Period

\* FLASH_chipErase has no range.
ASSUME FlashAssumption ==
  /\ Capacity \in Nat \ {0} /\ PageSize \in Nat \ {0} /\ Chunk \in Nat \ {0}
  /\ AddressSpace \in Nat /\ Capacity < AddressSpace
  /\ Sector4K \in Nat \ {0}
  /\ Sector32K \in Nat \ {0} /\ Sector32K % Sector4K = 0
  /\ Sector64K \in Nat \ {0} /\ Sector64K % Sector4K = 0
  /\ \A c \in Calls :
       /\ c \in [op : {"read", "write", "erase", "smart", "chip"}, addr : Nat, size : Nat]
       /\ c.op = "chip" => c.addr = 0 /\ c.size = Capacity

\* A long has two entries, and a query divides none.
ASSUME RegsAssumption ==
  /\ Table \in Seq([type : {"byte", "word", "long", "flags", "text"}, write : BOOLEAN,
                     read : BOOLEAN, validate : BOOLEAN, max : Nat])
  /\ \A a \in M!Longs : a + 1 \in DOMAIN Table \ M!Longs
  /\ \A q \in Queries :
       /\ q \in (Nat \ {0}) \X (Nat \ {0}) /\ q[1] + q[2] - 1 \in DOMAIN Table \ M!Longs
       /\ q[1] - 1 \notin M!Longs

ASSUME DebugAssumption == MsgLen \in Nat /\ ChunkLen \in Nat /\ StreamSize \in Nat

ASSUME CanAssumption == FifoLen \in Nat \ {0} /\ RxLength \in Nat

ASSUME NmtAssumption == HbTimes \subseteq Nat /\ FirstHBTime \in Nat

ASSUME PortAssumption ==
  NULL # Free /\ Task \cap {NULL, Free} = {} /\ MaxOpens \in Nat \ {0}

\* A unit, a length and a unit size are what their C types hold.
ASSUME QueueAssumption ==
  /\ Zero \notin Value
  /\ Torn \notin Value \cup {Zero}
  /\ MaxLength \in Nat /\ 0 < MaxLength /\ MaxLength =< 65535
  /\ UnitSize \in Nat /\ 0 < UnitSize /\ UnitSize =< 255

VARIABLE part
vars == <<part, cliVars, debugVars, rtcVars, ioVars, flashVars, regVars, busVars, nodeVars,
          portVars, queueVars>>

Parts == {"cli", "debug", "rtc", "analog", "digital", "flash", "regs", "canrx", "cantx", "nmt",
          "port", "queue"}

Init == part \in Parts /\ C!Init /\ D!Init /\ R!Init /\ I!Init /\ F!Init /\ M!Init /\ P!Init
        /\ Q!Init
        /\ (part # "queue" => length = 0 /\ type = 0 /\ queueBuffer = [c \in Q!Cells |-> Zero])
        /\ IF part = "nmt" THEN N!Init ELSE N!Init /\ NMTcontrol = {} /\ HBproducerTime = 2

\* Nothing moves but the variables of p.
Only(p) ==
  /\ part = p /\ UNCHANGED part
  /\ IF p = "cli" THEN TRUE ELSE UNCHANGED cliVars
  /\ IF p = "debug" THEN TRUE ELSE UNCHANGED debugVars
  /\ IF p = "rtc" THEN TRUE ELSE UNCHANGED rtcVars
  /\ IF p \in {"analog", "digital"} THEN TRUE ELSE UNCHANGED ioVars
  /\ IF p = "flash" THEN TRUE ELSE UNCHANGED flashVars
  /\ IF p = "regs" THEN TRUE ELSE UNCHANGED regVars
  /\ IF p = "port" THEN TRUE ELSE UNCHANGED portVars
  /\ IF p = "queue" THEN TRUE ELSE UNCHANGED queueVars
  /\ IF p \in {"canrx", "cantx"} THEN UNCHANGED nodeVars
     ELSE IF p = "nmt" THEN TRUE ELSE UNCHANGED <<busVars, nodeVars>>

CliNext   == Only("cli") /\ C!Next
DebugNext == Only("debug") /\ D!Next
RtcNext   == Only("rtc") /\ R!Next
AnalogNext  == Only("analog") /\ I!AnalogNext
DigitalNext == Only("digital") /\ I!DigitalNext
FlashNext == Only("flash") /\ F!Next
RegsNext  == Only("regs") /\ M!Next
CanNext   == (Only("canrx") /\ B!ReceiveNext) \/ (Only("cantx") /\ B!SendNext)
NmtNext   == Only("nmt") /\ N!Next
PortNext  == Only("port") /\ P!Next
QueueNext == Only("queue") /\ Q!Next

Next == CliNext \/ DebugNext \/ RtcNext \/ AnalogNext \/ DigitalNext \/ FlashNext \/ RegsNext
        \/ CanNext \/ NmtNext \/ PortNext \/ QueueNext

\* The interrupt and the task of the command line run.
CliRun == Only("cli") /\ (C!CLI_rxISR \/ C!NotifyWait \/ C!Receive)

Spec == Init /\ [][Next]_vars
FairSpec == Spec /\ WF_vars(CliRun)

----------------------------------------------------------------------------
CONSTANTS Letter, Digit
Typed == {<<Letter, Space, Digit>>, <<Letter, Letter>>, <<Digit>>}
Names == {<<Letter>>}

DateOf(y, m, d) == [year |-> y, month |-> m, day |-> d]
Dates == {DateOf(1999, 12, 31), DateOf(2000, 2, 28), DateOf(2023, 2, 28), DateOf(2024, 2, 28),
          DateOf(2024, 2, 29), DateOf(2100, 2, 28), DateOf(2024, 4, 30), DateOf(2024, 7, 30),
          DateOf(2024, 8, 31)}
TimeOf(h, m, s) == [hours |-> h, minutes |-> m, seconds |-> s]
Times == {TimeOf(23, 59, 59), TimeOf(11, 59, 58), TimeOf(0, 9, 59)}

Settings == {[gain |-> -1500, offset |-> 250]}

CallOf(o, f, n) == [op |-> o, addr |-> f, size |-> n]
FlashCalls == {CallOf("write", 1, 6), CallOf("write", 4, 4), CallOf("read", 2, 7),
               CallOf("erase", 2, 6), CallOf("smart", 6, 10), CallOf("smart", 0, 16),
               CallOf("chip", 0, 16), CallOf("erase", 14, 20), CallOf("smart", 0, 3)}

RegOf(t, w, r, v, m) == [type |-> t, write |-> w, read |-> r, validate |-> v, max |-> m]
Yes == TRUE
No == FALSE
\* The second entry of a long is never looked at.
Registers == <<RegOf("word", Yes, Yes, Yes, 2),
               RegOf("long", Yes, Yes, Yes, 13), RegOf("word", No, No, No, 0),
               RegOf("long", No, Yes, No, 0), RegOf("word", No, No, No, 0),
               RegOf("word", Yes, Yes, No, 0), RegOf("text", Yes, Yes, No, 0),
               RegOf("byte", No, Yes, No, 0), RegOf("flags", Yes, Yes, No, 0),
               RegOf("word", Yes, No, No, 0)>>
Ranges == {<<1, 10>>, <<2, 5>>, <<6, 4>>}

FrameOf(i, d) == [ident |-> i, data |-> d]
Frames == {FrameOf("nmt", "ENTER_OPERATIONAL"), FrameOf("nmt", "ENTER_STOPPED"),
           FrameOf("sdo", "data"), FrameOf("else", "data")}
EntryOf(c, i) == [callback |-> c, idents |-> i]
Entries == <<EntryOf("CO_NMT_receive", {"nmt"}), EntryOf("NULL", {"nmt", "sdo", "else"}),
             EntryOf("CO_SDO_receive", {"sdo"})>>
ControlSets == {{}, {"STARTUP_TO_OPERATIONAL", "ERR_ON_ERR_REG", "ERR_TO_STOPPED"},
                {"ERR_ON_ERR_REG", "ERR_FREE_TO_OPERATIONAL"}}

\* Lines are taken whole and in order, with their arguments, and every line typed
\* after those before it have run is run in the end (cli.c:58 and cli.c:108).
CliRuns == C!CliRuns
\* The log on the port is parts of messages, in order (debug.c:120).
LogInOrder == D!LogInOrder
\* A count of the clock is a second of the calendar (rtc.c:52).
RtcCounts == R!RtcCounts
\* The filtered count and the value stay in their limits (io.c:120).
FilteredWithin == I!FilteredWithin
\* The state of a pin follows only a level that lasted (io.c:206).
Debounced == I!Debounced
\* A call of the flash does what it reports (flash.c:187).
FlashDoes == F!FlashDoes
\* Each register is stored from and sent in its own words
\* (modbus_register_interface.c:38).
RegsOwnWords == M!RegsOwnWords
\* Frames reach their callbacks in order, and leave once (CO_driver_stm32.c:133).
CanInOrder == B!CanInOrder
\* A node tells every state it has been in (CO_NMT_Heartbeat.c:176).
StatesReported == N!StatesReported
\* The owner of a serial port holds its mutex (SERIAL.c:155).
OwnerHoldsMutex == P!OwnerHoldsMutex
\* One task at a time is inside a serial port (SERIAL.c:199).
ExclusiveUse == P!ExclusiveUse
\* Whoever holds a port's mutex can give it back (SERIAL.c:170).
NoOrphanLock == P!NoOrphanLock
\* The three counters of a queue object agree (sys_queue.c:58).
CountersAgree == Q!IndexesAgree
\* A queue object is a bounded FIFO or LIFO (sys_queue.c:144).
QueueRefines == Q!Refines
=============================================================================
