---------------------------- MODULE ModbusMaster -----------------------------
(***************************************************************************)
(* connectivity/modbus: one Modbus master port after MB_startPort.  The    *)
(* application queues requests to add and remove queries; the port's timer *)
(* walks the query list and queues what is due; the port's task takes one  *)
(* query at a time, transmits it, collects the answer's bytes that the     *)
(* receive interrupt queues, and writes the registers the query names.     *)
(*                                                                         *)
(* A frame on the line is the query it answers, sent in two parts; a       *)
(* buffer passes the length and CRC checks exactly when it holds the two   *)
(* parts of one frame and nothing else.  Registers remember which query's  *)
(* answer was last written to them.                                        *)
(*                                                                         *)
(* External: FreeRTOS queues and the software timer, the slaves, the line. *)
(* The task and the timer's handler may preempt each other between any two *)
(* steps, which covers either order of their priorities.  Slaves are       *)
(* registered by one task.  One receive context, of the one phy in use.    *)
(***************************************************************************)
EXTENDS Integers, Sequences

CONSTANTS Query,         \* the mb_master_query_t objects of the application
          Slave,         \* its modbus_slave_info_t objects
          None,          \* NULL
          SlaveOf,       \* query->slaveId, as the object with that id
          TypeOf,        \* query->type
          PeriodOf,      \* query->periodicity
          AtStart,       \* slaves registered before the task first runs
          Wired,         \* slaves whose phy has a receive context
          ListLen,       \* MODBUS_MASTER_QUERY_LIST_LENGTH
          QueryQueueLen, \* MODBUS_MASTER_QUERY_QUEUE_LENGTH
          ConfigLen,     \* MODBUS_CONFIG_REQUEST_QUEUE_LENGTH
          MaxSlaves,     \* MODBUS_MASTER_MAX_SLAVES
          RxLen,         \* MODBUS_PORT_RX_BUFFER_SIZE, in parts of frames
          Ops,           \* the calls the application makes
          MaxCalls,      \* bound: how many of them
          MaxNoise,      \* bound: bytes no slave sent
          Lateness       \* {0}: every answer beats the response timeout,
                         \* {1}: it may come later, {0, 1}: either

ASSUME ModbusMasterAssumption ==
  /\ None \notin Query \cup Slave
  /\ SlaveOf \in [Query -> Slave]
  /\ TypeOf \in [Query -> {"read_holding", "read_input", "write_holding", "coils"}]
  /\ PeriodOf \in [Query -> {"disabled", "aperiodic", "periodic"}]
  /\ AtStart \in Seq(Slave) /\ Len(AtStart) =< MaxSlaves
  /\ Wired \subseteq Slave
  /\ {ListLen, QueryQueueLen, ConfigLen, MaxSlaves, RxLen} \subseteq Nat \ {0}
  /\ Ops \subseteq {"register", "unregister", "enroll", "dismiss"}
  /\ MaxCalls \in Nat /\ MaxNoise \in Nat
  /\ Lateness \subseteq 0..1

VARIABLES queryList, queryQueue, configQueue,
          slave,        \* port->slave
          connected,    \* status.connected of each slave
          state,        \* port->state
          current,      \* queryInProcess
          inProcess,    \* slaveInProcess
          ctx,          \* 0: the task's ctx is NULL
          waiting,      \* 1: slaveResponseTimer runs
          elapsed,      \* 1: for longer than the response timeout
          tx,           \* port->tx_buffer: the query it asks
          rxQueue,      \* the receive context's queue
          rxBuffer,     \* port->rx_buffer
          handler,      \* where mbMasterQueryTimerHandler is
          wire,         \* parts of answers not yet received
          late,         \* 1: on this line answers may be late
          registers,    \* the query whose answer each query's registers hold
          owed,         \* times an aperiodic query was registered but not sent,
                        \* -1 once it was sent more often
          calls, noise

list  == <<queryList, handler>>
table == <<slave, connected>>
task  == <<current, inProcess, ctx, waiting, tx>>
line  == <<rxQueue, wire, late, noise>>
vars  == <<queryList, queryQueue, configQueue, slave, connected, state, current,
           inProcess, ctx, waiting, elapsed, tx, rxQueue, rxBuffer, handler,
           wire, late, registers, owed, calls, noise>>

Slots   == 1..ListLen
Noise   == [query |-> None, kind |-> "noise", part |-> 0]
Asleep  == [at |-> 0, removing |-> None]

Init ==
  /\ queryList = [i \in Slots |-> None]
  /\ queryQueue = <<>> /\ configQueue = <<>>
  /\ slave = [i \in 1..MaxSlaves |->
                IF i =< Len(AtStart) THEN AtStart[i] ELSE None]
  /\ connected = [s \in Slave |-> 0]
  /\ state = "idle" /\ current = None /\ inProcess = None
  /\ ctx = 0 /\ waiting = 0 /\ elapsed = 0
  /\ tx = None /\ rxQueue = <<>> /\ rxBuffer = <<>>
  /\ handler = Asleep
  /\ wire = <<>> /\ late \in Lateness
  /\ registers = [q \in Query |-> None]
  /\ owed = [q \in Query |-> 0]
  /\ calls = 0 /\ noise = 0

-----------------------------------------------------------------------------
(* The application.                                                        *)
(* xQueueSend(configRqstQueHandle, ..., 0): dropped when the queue is full *)
Ask(type, q) ==
  configQueue' = IF Len(configQueue) < ConfigLen
                 THEN Append(configQueue, [type |-> type, query |-> q])
                 ELSE configQueue

Call(op) == /\ op \in Ops
            /\ calls < MaxCalls /\ calls' = calls + 1

MB_masterRegisterQuery(q) ==
  /\ Call("register")
  /\ Ask("add", q)
  /\ owed' = [owed EXCEPT ![q] =
                IF configQueue' # configQueue THEN @ + 1 ELSE @]
  /\ UNCHANGED <<list, queryQueue, table, state, task, elapsed, rxBuffer, line,
                 registers>>

MB_masterUnregisterQuery(q) ==
  /\ Call("unregister")
  /\ Ask("remove", q)
  /\ UNCHANGED <<list, queryQueue, table, state, task, elapsed, rxBuffer, line,
                 registers, owed>>

(* The comparison reads ->id of empty slots as well; no slave has the id   *)
(* found there.                                                            *)
Registered(s) == \E i \in DOMAIN slave : slave[i] = s

MB_masterRegisterSlave(s) ==
  /\ Call("enroll")
  /\ IF ~Registered(s) /\ Registered(None)
     THEN LET i == CHOOSE j \in DOMAIN slave :
                     /\ slave[j] = None
                     /\ \A k \in 1..j - 1 : slave[k] # None
          IN /\ slave' = [slave EXCEPT ![i] = s]
             /\ connected' = [connected EXCEPT ![s] = 0]
     ELSE UNCHANGED table
  /\ UNCHANGED <<list, queryQueue, configQueue, state, task, elapsed, rxBuffer,
                 line, registers, owed>>

MB_masterUnregisterSlave(s) ==
  /\ Call("dismiss")
  /\ slave' = [i \in DOMAIN slave |-> IF slave[i] = s THEN None ELSE slave[i]]
  /\ UNCHANGED <<list, queryQueue, configQueue, connected, state, task, elapsed,
                 rxBuffer, line, registers, owed>>

Application ==
  \/ \E q \in Query : MB_masterRegisterQuery(q) \/ MB_masterUnregisterQuery(q)
  \/ \E s \in Slave : MB_masterRegisterSlave(s) \/ MB_masterUnregisterSlave(s)

-----------------------------------------------------------------------------
(* The port's timer: mbMasterQueryTimerHandler, one slot at a time.        *)
After(i) == IF i = ListLen THEN Asleep ELSE [at |-> i + 1, removing |-> None]

TimerFires ==
  /\ handler = Asleep
  /\ handler' = [at |-> 1, removing |-> None]
  /\ UNCHANGED <<queryList, queryQueue, configQueue, table, state, task, elapsed,
                 rxBuffer, line, registers, owed, calls>>

Visiting == handler.at # 0 /\ handler.removing = None

(* How much of a period has elapsed is not modelled.                       *)
Due(q) == q # None /\ PeriodOf[q] # "disabled"

Skip ==
  /\ Visiting
  /\ Due(queryList[handler.at]) => PeriodOf[queryList[handler.at]] = "periodic"
  /\ handler' = After(handler.at)
  /\ UNCHANGED <<queryList, queryQueue, configQueue, table, state, task, elapsed,
                 rxBuffer, line, registers, owed, calls>>

(* A query that finds the queue full is lost until it is due again.        *)
Enqueue ==
  /\ Visiting
  /\ LET q == queryList[handler.at]
     IN /\ Due(q)
        /\ queryQueue' = IF Len(queryQueue) < QueryQueueLen
                         THEN Append(queryQueue, q) ELSE queryQueue
        /\ handler' = IF PeriodOf[q] = "aperiodic"
                      THEN [handler EXCEPT !.removing = q]
                      ELSE After(handler.at)
  /\ UNCHANGED <<queryList, configQueue, table, state, task, elapsed, rxBuffer,
                 line, registers, owed, calls>>

(* Seeded fault: asks to add the query it means to remove.                 *)
RemoveAddsAgain ==
  /\ handler.removing # None
  /\ Ask("add", handler.removing)
  /\ handler' = After(handler.at)
  /\ UNCHANGED <<queryList, queryQueue, table, state, task, elapsed, rxBuffer,
                 line, registers, owed, calls>>

RemoveAperiodic ==
  /\ handler.removing # None
  /\ Ask("remove", handler.removing)
  /\ handler' = After(handler.at)
  /\ UNCHANGED <<queryList, queryQueue, table, state, task, elapsed, rxBuffer,
                 line, registers, owed, calls>>

mbMasterQueryTimerHandler == Skip \/ Enqueue \/ RemoveAperiodic

-----------------------------------------------------------------------------
(* The port's task: modbusMasterTaskHandler.                               *)
(* The first slot that holds `old' is given `new'; none if there is none.  *)
Replace(old, new) ==
  queryList' =
    [i \in Slots |-> IF queryList[i] = old /\ \A j \in 1..i - 1 : queryList[j] # old
                     THEN new ELSE queryList[i]]

(* xTimerStop and xTimerStart around the change reach the timer as one     *)
(* restart; they do not stop a handler that is running.                    *)
mb_masterProcessConfigRequest ==
  /\ state = "idle" /\ configQueue # <<>>
  /\ LET r == Head(configQueue)
     IN IF r.type = "add" THEN Replace(None, r.query) ELSE Replace(r.query, None)
  /\ configQueue' = Tail(configQueue)
  /\ UNCHANGED <<handler, queryQueue, table, state, task, elapsed, rxBuffer, line,
                 registers, owed, calls>>

(* Seeded fault: takes a query while an answer is awaited.                 *)
LeaveIdleEager ==
  /\ state = "idle" /\ configQueue = <<>>
  /\ state' = "query_waiting"
  /\ UNCHANGED <<list, queryQueue, configQueue, table, task, elapsed, rxBuffer,
                 line, registers, owed, calls>>

LeaveIdle ==
  /\ state = "idle" /\ configQueue = <<>>
  /\ state' = IF waiting = 1 THEN "rx_waiting" ELSE "query_waiting"
  /\ UNCHANGED <<list, queryQueue, configQueue, table, task, elapsed, rxBuffer,
                 line, registers, owed, calls>>

mbGetSlaveInfo(s) == IF Registered(s) THEN s ELSE None

NoQuery ==
  /\ state = "query_waiting" /\ queryQueue = <<>>
  /\ state' = "idle"
  /\ UNCHANGED <<list, queryQueue, configQueue, table, task, elapsed, rxBuffer,
                 line, registers, owed, calls>>

(* Seeded fault: the look-up's NULL is not checked.                        *)
TakeUnchecked ==
  /\ state = "query_waiting" /\ queryQueue # <<>>
  /\ LET q == Head(queryQueue)
     IN /\ current' = q
        /\ inProcess' = mbGetSlaveInfo(SlaveOf[q])
  /\ state' = "tx_processing"
  /\ queryQueue' = Tail(queryQueue)
  /\ UNCHANGED <<list, configQueue, table, ctx, waiting, tx, elapsed, rxBuffer,
                 line, registers, owed, calls>>

TakeQuery ==
  /\ state = "query_waiting" /\ queryQueue # <<>>
  /\ LET q == Head(queryQueue)
     IN /\ current' = q
        /\ inProcess' = mbGetSlaveInfo(SlaveOf[q])
  /\ state' = IF inProcess' = None THEN "reset" ELSE "tx_processing"
  /\ queryQueue' = Tail(queryQueue)
  /\ UNCHANGED <<list, configQueue, table, ctx, waiting, tx, elapsed, rxBuffer,
                 line, registers, owed, calls>>

(* A query about coils or discrete inputs suspends the task for good, or   *)
(* spins.                                                                  *)
mbTxGenFrame ==
  /\ state = "tx_processing"
  /\ ctx' = IF inProcess \in Wired THEN 1 ELSE 0
  /\ IF ctx' = 0 THEN state' = "reset" /\ UNCHANGED tx
     ELSE IF TypeOf[current] = "coils" THEN state' = "suspended" /\ UNCHANGED tx
     ELSE /\ state' = "transmitting"
          /\ tx' = current
  /\ UNCHANGED <<list, queryQueue, configQueue, table, current, inProcess, waiting,
                 elapsed, rxBuffer, line, registers, owed, calls>>

Frame(q, kind) == <<[query |-> q, kind |-> kind, part |-> 1],
                    [query |-> q, kind |-> kind, part |-> 2]>>

(* The slave may answer with data, with an exception, or not at all.       *)
Answers(q) == {<<>>} \cup {Frame(q, kind) : kind \in {"data", "exception"}}

(* The tick count the timer starts from is not 0.  Once in 2^32 ticks it    *)
(* is, and the task then takes the timer for stopped while it waits.       *)
mbPhySendData ==
  /\ state = "transmitting"
  /\ \E a \in Answers(tx) :
       /\ Len(wire \o a) =< RxLen \/ a = <<>>
       /\ wire' = wire \o a
  /\ waiting' = 1 /\ elapsed' = 0
  /\ owed' = [owed EXCEPT ![tx] =
                IF PeriodOf[tx] = "aperiodic" /\ @ >= 0
                THEN @ - 1 ELSE @]
  /\ state' = "rx_waiting"
  /\ UNCHANGED <<list, queryQueue, configQueue, table, current, inProcess, ctx,
                 tx, rxBuffer, rxQueue, late, noise, registers, calls>>

FirstByte ==
  /\ state = "rx_waiting" /\ rxQueue # <<>>
  /\ rxBuffer' = Append(rxBuffer, Head(rxQueue))
  /\ rxQueue' = Tail(rxQueue)
  /\ state' = "rx_collecting"
  /\ UNCHANGED <<list, queryQueue, configQueue, table, task, elapsed, wire, late, noise,
                 registers, owed, calls>>

(* Seeded fault: the buffer's size is not checked.                         *)
NextUnchecked ==
  /\ state = "rx_collecting" /\ rxQueue # <<>>
  /\ rxBuffer' = Append(rxBuffer, Head(rxQueue))
  /\ rxQueue' = Tail(rxQueue)
  /\ UNCHANGED <<list, queryQueue, configQueue, table, state, task, elapsed, wire,
                 late, noise, registers, owed, calls>>

NextByte ==
  /\ state = "rx_collecting" /\ rxQueue # <<>>
  /\ rxBuffer' = IF Len(rxBuffer) < RxLen THEN Append(rxBuffer, Head(rxQueue))
                 ELSE rxBuffer
  /\ rxQueue' = Tail(rxQueue)
  /\ UNCHANGED <<list, queryQueue, configQueue, table, state, task, elapsed, wire,
                 late, noise, registers, owed, calls>>

(* The inter-byte timeout.  A slave in time also sends without gaps, but a  *)
(* byte of noise ahead of its answer starts the timeout all the same, and  *)
(* the rest then meets later exchanges.                                    *)
FrameGap ==
  /\ state = "rx_collecting" /\ rxQueue = <<>>
  /\ late = 1 \/ noise > 0 \/ wire = <<>>
  /\ state' = "rx_processing"
  /\ UNCHANGED <<list, queryQueue, configQueue, table, task, elapsed, rxBuffer,
                 line, registers, owed, calls>>

(* Seeded fault: the timeout does not wait for its time.                   *)
TimeoutEarly ==
  /\ state = "rx_waiting" /\ rxQueue = <<>>
  /\ waiting' = 0
  /\ IF rxBuffer = <<>>
     THEN /\ connected' = [connected EXCEPT ![inProcess] = 0]
          /\ state' = "reset"
     ELSE UNCHANGED <<connected, state>>
  /\ UNCHANGED <<list, queryQueue, configQueue, slave, current, inProcess, ctx, tx,
                 elapsed, rxBuffer, line, registers, owed, calls>>

(* Seeded fault: the test for an empty buffer is inverted.                 *)
TimeoutSwapped ==
  /\ state = "rx_waiting" /\ rxQueue = <<>> /\ elapsed = 1
  /\ waiting' = 0
  /\ IF rxBuffer # <<>>
     THEN /\ connected' = [connected EXCEPT ![inProcess] = 0]
          /\ state' = "reset"
     ELSE UNCHANGED <<connected, state>>
  /\ UNCHANGED <<list, queryQueue, configQueue, slave, current, inProcess, ctx, tx,
                 elapsed, rxBuffer, line, registers, owed, calls>>

(* The timer alone: with bytes in the buffer the state stays as it is.     *)
ResponseTimeout ==
  /\ state = "rx_waiting" /\ rxQueue = <<>> /\ elapsed = 1
  /\ waiting' = 0
  /\ IF rxBuffer = <<>>
     THEN /\ connected' = [connected EXCEPT ![inProcess] = 0]
          /\ state' = "reset"
     ELSE UNCHANGED <<connected, state>>
  /\ UNCHANGED <<list, queryQueue, configQueue, slave, current, inProcess, ctx, tx,
                 elapsed, rxBuffer, line, registers, owed, calls>>

StillWaiting ==
  /\ state = "rx_waiting" /\ rxQueue = <<>> /\ elapsed = 0
  /\ state' = "idle"
  /\ UNCHANGED <<list, queryQueue, configQueue, table, task, elapsed, rxBuffer,
                 line, registers, owed, calls>>

(* mbRxFrameParse: length and CRC, slave id, function code.  Only the      *)
(* answer to a read of holding registers is written anywhere, to the       *)
(* address of the query in process.                                        *)
Intact(f) == Len(f) = 2 /\ f = Frame(f[1].query, f[1].kind)

(* Seeded fault: the function code is not compared.                        *)
AcceptedAnyType(f) ==
  /\ Intact(f)
  /\ SlaveOf[f[1].query] = SlaveOf[current]
  /\ mbGetSlaveInfo(SlaveOf[current]) # None
  /\ f[1].kind = "data"

Accepted(f) ==
  /\ Intact(f)
  /\ SlaveOf[f[1].query] = SlaveOf[current]
  /\ mbGetSlaveInfo(SlaveOf[current]) # None
  /\ f[1].kind = "data" /\ TypeOf[f[1].query] = TypeOf[tx]

mbRxFrameParse ==
  /\ state = "rx_processing"
  /\ waiting' = 0
  /\ registers' = IF Accepted(rxBuffer) /\ TypeOf[tx] = "read_holding"
                  THEN [registers EXCEPT ![current] = rxBuffer[1].query]
                  ELSE registers
  /\ connected' = [connected EXCEPT ![inProcess] = 1]
  /\ state' = "reset"
  /\ UNCHANGED <<list, queryQueue, configQueue, slave, current, inProcess, ctx, tx,
                 elapsed, rxBuffer, line, owed, calls>>

(* Seeded fault: the receive buffer is not emptied.                        *)
ResetKeepsBuffer ==
  /\ state = "reset"
  /\ waiting' = 0 /\ current' = None /\ inProcess' = None
  /\ IF ctx = 0 THEN state' = "fault" /\ UNCHANGED <<rxQueue, rxBuffer, tx>>
     ELSE /\ state' = "idle"
          /\ rxQueue' = <<>> /\ rxBuffer' = rxBuffer /\ tx' = None
  /\ UNCHANGED <<list, queryQueue, configQueue, table, ctx, elapsed, wire, late, noise,
                 registers, owed, calls>>

(* xQueueReset(ctx->rxQueueHandle) with ctx NULL is a hard fault.          *)
Reset ==
  /\ state = "reset"
  /\ waiting' = 0 /\ current' = None /\ inProcess' = None
  /\ IF ctx = 0 THEN state' = "fault" /\ UNCHANGED <<rxQueue, rxBuffer, tx>>
     ELSE /\ state' = "idle"
          /\ rxQueue' = <<>> /\ rxBuffer' = <<>> /\ tx' = None
  /\ UNCHANGED <<list, queryQueue, configQueue, table, ctx, elapsed, wire, late, noise,
                 registers, owed, calls>>

modbusMasterTaskHandler ==
  \/ mb_masterProcessConfigRequest \/ LeaveIdle
  \/ NoQuery \/ TakeQuery
  \/ mbTxGenFrame \/ mbPhySendData
  \/ FirstByte \/ NextByte \/ FrameGap \/ ResponseTimeout \/ StillWaiting
  \/ mbRxFrameParse \/ Reset

-----------------------------------------------------------------------------
(* Time and the line.                                                      *)
(* A slave in time has its whole answer received before the timeout.       *)
Elapse ==
  /\ waiting = 1 /\ elapsed = 0
  /\ late = 1 \/ wire = <<>>
  /\ elapsed' = 1
  /\ UNCHANGED <<list, queryQueue, configQueue, table, state, task, rxBuffer, line,
                 registers, owed, calls>>

(* MB_phyRxByteISRCallback: a byte that finds the queue full is lost.      *)
Queued(b) == rxQueue' = IF Len(rxQueue) < RxLen THEN Append(rxQueue, b) ELSE rxQueue

MB_phyRxByteISRCallback ==
  /\ wire # <<>>
  /\ Queued(Head(wire))
  /\ wire' = Tail(wire)
  /\ UNCHANGED <<list, queryQueue, configQueue, table, state, task, elapsed,
                 rxBuffer, late, noise, registers, owed, calls>>

NoiseByte ==
  /\ noise < MaxNoise /\ noise' = noise + 1
  /\ Queued(Noise)
  /\ UNCHANGED <<list, queryQueue, configQueue, table, state, task, elapsed,
                 rxBuffer, wire, late, registers, owed, calls>>

Line == Elapse \/ MB_phyRxByteISRCallback \/ NoiseByte

Next == Application \/ TimerFires \/ mbMasterQueryTimerHandler
        \/ modbusMasterTaskHandler \/ Line

Spec == Init /\ [][Next]_vars

(* The task and the timer service are scheduled, the timer is periodic,    *)
(* time passes and what was sent arrives.                                  *)
FairSpec == Spec /\ WF_vars(modbusMasterTaskHandler)
                 /\ WF_vars(TimerFires) /\ WF_vars(mbMasterQueryTimerHandler)
                 /\ WF_vars(Elapse) /\ WF_vars(MB_phyRxByteISRCallback)
-----------------------------------------------------------------------------
States == {"idle", "query_waiting", "tx_processing", "transmitting", "rx_waiting",
           "rx_collecting", "rx_processing", "reset", "suspended", "fault"}

Kinds == {"data", "exception", "noise"}
Parts == [query : Query \cup {None}, kind : Kinds, part : 0..2]

(* Every variable keeps the shape modbus.h gives it, the queues their      *)
(* lengths and the buffer its size.                                        *)
TypeOK ==
  /\ queryList \in [Slots -> Query \cup {None}]
  /\ queryQueue \in Seq(Query) /\ Len(queryQueue) =< QueryQueueLen
  /\ configQueue \in Seq([type : {"add", "remove"}, query : Query])
  /\ Len(configQueue) =< ConfigLen
  /\ slave \in [1..MaxSlaves -> Slave \cup {None}]
  /\ connected \in [Slave -> 0..1]
  /\ state \in States
  /\ current \in Query \cup {None} /\ inProcess \in Slave \cup {None}
  /\ {ctx, waiting, elapsed} \subseteq 0..1
  /\ tx \in Query \cup {None}
  /\ {rxQueue, rxBuffer, wire} \subseteq Seq(Parts)
  /\ Len(rxQueue) =< RxLen /\ Len(rxBuffer) =< RxLen
  /\ handler \in [at : 0..ListLen, removing : Query \cup {None}]
  /\ registers \in [Query -> Query \cup {None}]
  /\ owed \in [Query -> -1..MaxCalls]
  /\ late \in 0..1 /\ calls \in 0..MaxCalls /\ noise \in 0..MaxNoise

(* Whatever answers arrived and were cut short before, the task never      *)
(* reaches a state that uses the slave in process or the receive context   *)
(* without having one (lines 112, 144, 168, 199).                          *)
NeverNull ==
  /\ state \in {"tx_processing", "transmitting", "rx_waiting", "rx_collecting",
                "rx_processing"} => inProcess # None /\ current # None
  /\ state \in {"transmitting", "rx_waiting", "rx_collecting", "rx_processing"}
       => ctx = 1
  /\ waiting = 1 => inProcess # None

(* When a frame is built nothing of the exchange before is left in either  *)
(* buffer: an old byte would spoil the next answer's CRC, an old frame     *)
(* would be sent again where mb_regRead declines to fill it.               *)
FreshBuffers ==
  /\ state \in {"tx_processing", "transmitting"} => rxBuffer = <<>>
  /\ state = "tx_processing" => tx = None

(* With slaves that answer in time and no noise on the line so far, the    *)
(* registers a query names only ever receive the answer to that query,     *)
(* although frames carry no address and the task returns to IDLE, and its  *)
(* queues, in the middle of an exchange.                                   *)
AnswersGoHome == late = 0 /\ noise = 0 => \A q \in Query : registers[q] \in {q, None}

(* However late answers are, and whatever noise surrounds them, registers  *)
(* receive only the answer of the query's own slave to a query of the same *)
(* type: the most that the id and the function code can promise.           *)
MatchedAnswers ==
  \A q \in Query :
    registers[q] # None => /\ SlaveOf[registers[q]] = SlaveOf[q]
                           /\ TypeOf[registers[q]] = TypeOf[q]
                           /\ TypeOf[q] = "read_holding"

(* No frame is transmitted while the answer to another is awaited, the     *)
(* half-duplex line's rule.                                                *)
OneOutstanding == [][mbPhySendData => waiting = 0 /\ rxBuffer = <<>>]_vars

(* Every exchange ends: a slave that never answers, or answers in pieces,  *)
(* does not keep the task from the next query.                             *)
ExchangeEnds == (waiting = 1) ~> (waiting = 0 /\ state = "query_waiting")

Listed(q) == \E i \in Slots : queryList[i] = q

(* "Remove the query if it's aperiodic, freeing up a slot" (374): once     *)
(* listed, an aperiodic query's slot is freed, even when the request to    *)
(* remove it finds the queue of requests full.                             *)
AperiodicLeaves ==
  \A q \in Query : PeriodOf[q] = "aperiodic" => (Listed(q) ~> ~Listed(q))

(* An aperiodic query goes out at most once for each time it was           *)
(* registered.  It does not: the timer queues it again until the task has  *)
(* come back to IDLE and processed the request to remove it.               *)
AperiodicOnce == \A q \in Query : owed[q] >= 0

(* "Reset to idle state" (213): a query that cannot be sent resets the     *)
(* port.  It does not while the task has no receive context yet.           *)
ResetIsSafe == state # "fault"
=============================================================================
