------------------------- MODULE ModbusMasterProofs -------------------------
(***************************************************************************)
(* Proofs about ModbusMaster for every set of queries and slaves, every    *)
(* length of the queues and the buffer, with any calls of the application, *)
(* noise on the line, and answers in time or not.                          *)
(***************************************************************************)
EXTENDS ModbusMaster, SequenceTheorems, TLAPS

(* What the line can carry: noise, or a part of the answer to a query.     *)
Part == {Noise} \cup [query : Query, kind : {"data", "exception"}, part : 1..2]

(* The shapes of TypeOK.  What is owed never passes the number of calls.   *)
ListsOK ==
  /\ queryList \in [Slots -> Query \cup {None}]
  /\ queryQueue \in Seq(Query) /\ Len(queryQueue) =< QueryQueueLen
  /\ configQueue \in Seq([type : {"add", "remove"}, query : Query])
  /\ Len(configQueue) =< ConfigLen
  /\ handler \in [at : 0..ListLen, removing : Query \cup {None}]

TablesOK ==
  /\ slave \in [1..MaxSlaves -> Slave \cup {None}]
  /\ connected \in [Slave -> 0..1]

CountsOK ==
  /\ owed \in [Query -> Int]
  /\ calls \in 0..MaxCalls
  /\ \A q \in Query : -1 =< owed[q] /\ owed[q] =< calls

LineOK ==
  /\ rxQueue \in Seq(Part) /\ rxBuffer \in Seq(Part) /\ wire \in Seq(Part)
  /\ Len(rxQueue) =< RxLen /\ Len(rxBuffer) =< RxLen
  /\ late \in 0..1 /\ noise \in 0..MaxNoise

(* The port's state and what the task may rely on in it.  The query in     *)
(* process and its slave stay while the answer is awaited, whichever       *)
(* states the task passes through in the meantime.                         *)
Sending   == {"tx_processing", "transmitting"}
Receiving == {"rx_waiting", "rx_collecting", "rx_processing"}

ExchangeOK ==
  /\ state \in States
  /\ current \in Query \cup {None} /\ inProcess \in Slave \cup {None}
  /\ tx \in Query \cup {None}
  /\ ctx \in 0..1 /\ waiting \in 0..1 /\ elapsed \in 0..1
  /\ state \in Sending => inProcess \in Slave /\ current \in Query
  /\ state \in Receiving => waiting = 1
  /\ waiting = 1 \/ state = "transmitting"
       => /\ inProcess \in Slave /\ current \in Query
          /\ tx = current /\ ctx = 1
  /\ state \in Sending \cup {"query_waiting"} => waiting = 0
  /\ waiting = 0 /\ state \in {"idle", "query_waiting", "tx_processing"} => tx = None

BufferOK ==
  state \notin {"rx_collecting", "rx_processing", "reset", "fault"} => rxBuffer = <<>>

(* On a line where answers are in time and no noise came, all that is on   *)
(* its way or received belongs to the frame in the transmit buffer, and    *)
(* nothing is on its way once the timeout has passed or the exchange ended. *)
Only(parts, q) == \A i \in 1..Len(parts) : parts[i].query \in {q, None}

InTime ==
  late = 0 /\ noise = 0 =>
    /\ elapsed = 1 \/ waiting = 0 \/ state \in {"rx_processing", "reset"} => wire = <<>>
    /\ Only(wire, tx) /\ Only(rxQueue, tx) /\ Only(rxBuffer, tx)

RegistersOK == registers \in [Query -> Query \cup {None}]

Inv ==
  /\ ListsOK /\ TablesOK /\ CountsOK /\ LineOK /\ ExchangeOK /\ BufferOK /\ InTime
  /\ RegistersOK /\ MatchedAnswers /\ AnswersGoHome

(***************************************************************************)
(* The parts on the line.                                                  *)
(***************************************************************************)
LEMMA Joined ==
  ASSUME NEW s \in Seq(Part), NEW p \in Part
  PROVE  /\ Append(s, p) \in Seq(Part) /\ Len(Append(s, p)) = Len(s) + 1
         /\ \A q : Only(s, q) /\ p.query \in {q, None} => Only(Append(s, p), q)
BY AppendProperties DEF Only

LEMMA Taken ==
  ASSUME NEW s \in Seq(Part), s # <<>>
  PROVE  /\ Head(s) \in Part
         /\ Tail(s) \in Seq(Part) /\ Len(Tail(s)) = Len(s) - 1
         /\ \A q : Only(s, q) => Only(Tail(s), q) /\ Head(s).query \in {q, None}
<1>1. Len(s) \in Nat \ {0} /\ Tail(s) \in Seq(Part) /\ Len(Tail(s)) = Len(s) - 1
      /\ Head(s) = s[1] /\ \A i \in 1..Len(Tail(s)) : Tail(s)[i] = s[i + 1]
  BY HeadTailProperties
<1>2. s[1] \in Part
  BY <1>1
<1>3. ASSUME NEW q, Only(s, q)
      PROVE  Only(Tail(s), q) /\ Head(s).query \in {q, None}
  BY <1>1, <1>3 DEF Only
<1> QED
  BY <1>1, <1>2, <1>3

LEMMA Sent ==
  ASSUME NEW s \in Seq(Part), NEW q \in Query, NEW a \in Answers(q)
  PROVE  /\ s \o a \in Seq(Part)
         /\ Only(s, q) => Only(s \o a, q)
<1>1. a \in Seq(Part) /\ Only(a, q)
  <2>1. CASE a = <<>>
    BY <2>1 DEF Only
  <2>2. ASSUME NEW kind \in {"data", "exception"}, a = Frame(q, kind)
        PROVE  a \in Seq(Part) /\ Only(a, q)
    BY <2>2 DEF Frame, Part, Only
  <2> QED
    BY <2>1, <2>2 DEF Answers
<1>2. /\ s \o a \in Seq(Part) /\ Len(s \o a) = Len(s) + Len(a)
      /\ \A i \in 1..Len(s) + Len(a) :
           (s \o a)[i] = IF i =< Len(s) THEN s[i] ELSE a[i - Len(s)]
  BY <1>1, ConcatProperties
<1>3. ASSUME Only(s, q)
      PROVE  Only(s \o a, q)
  <2> SUFFICES ASSUME NEW i \in 1..Len(s \o a)
               PROVE  (s \o a)[i].query \in {q, None}
    BY DEF Only
  <2>1. CASE i =< Len(s)
    BY <1>2, <1>3, <2>1, LenProperties DEF Only
  <2>2. CASE ~(i =< Len(s))
    <3>1. i - Len(s) \in 1..Len(a)
      BY <1>1, <1>2, <2>2, LenProperties
    <3> QED
      BY <1>1, <1>2, <2>2, <3>1, LenProperties DEF Only
  <2> QED
    BY <2>1, <2>2
<1> QED
  BY <1>2, <1>3

(* A buffer that passes the length and CRC checks holds a query's answer.  *)
LEMMA IntactIsAnswer ==
  ASSUME NEW f \in Seq(Part), Intact(f)
  PROVE  f[1].query \in Query /\ 1 \in 1..Len(f)
<1>1. f[1] \in Part /\ f[1].part = 1 /\ Len(f) = 2
  <2>1. Len(f) = 2 /\ f[1] \in Part
    BY DEF Intact
  <2>2. f[1] = Frame(f[1].query, f[1].kind)[1]
    BY DEF Intact
  <2>3. f[1].part = 1
    BY <2>2 DEF Frame
  <2> QED
    BY <2>1, <2>3
<1> QED
  BY <1>1 DEF Part, Noise

LEMMA InitInv == Init => Inv
<1> SUFFICES ASSUME Init PROVE Inv
  OBVIOUS
<1> USE ModbusMasterAssumption DEF Init
<1>1. ListsOK
  BY DEF ListsOK, Asleep, Slots
<1>2. TablesOK
  BY DEF TablesOK
<1>3. CountsOK /\ LineOK
  BY DEF CountsOK, LineOK
<1>4. ExchangeOK /\ BufferOK
  BY DEF ExchangeOK, BufferOK, States, Sending, Receiving
<1>5. InTime
  BY DEF InTime, Only
<1>6. RegistersOK /\ MatchedAnswers /\ AnswersGoHome
  BY DEF RegistersOK, MatchedAnswers, AnswersGoHome
<1> QED
  BY <1>1, <1>2, <1>3, <1>4, <1>5, <1>6 DEF Inv

(***************************************************************************)
(* The queues, the query list and the timer's walk over it.                *)
(***************************************************************************)
lists == <<queryList, queryQueue, configQueue, handler>>

LEMMA Asked ==
  ASSUME NEW type \in {"add", "remove"}, NEW q \in Query, ListsOK, Ask(type, q)
  PROVE  /\ configQueue' \in Seq([type : {"add", "remove"}, query : Query])
         /\ Len(configQueue') =< ConfigLen
<1> DEFINE r == [type |-> type, query |-> q]
<1>1. r \in [type : {"add", "remove"}, query : Query]
  OBVIOUS
<1>2. configQueue' = IF Len(configQueue) < ConfigLen THEN Append(configQueue, r)
                     ELSE configQueue
  BY DEF Ask
<1> DEFINE R == [type : {"add", "remove"}, query : Query]
<1>3. configQueue \in Seq(R) /\ Len(configQueue) =< ConfigLen /\ ConfigLen \in Nat
  BY ModbusMasterAssumption DEF ListsOK
<1> HIDE DEF r, R
<1>4. Append(configQueue, r) \in Seq(R) /\ Len(Append(configQueue, r)) = Len(configQueue) + 1
  BY <1>1, <1>3, AppendProperties DEF R
<1>5. configQueue' \in Seq(R) /\ Len(configQueue') =< ConfigLen
  BY <1>2, <1>3, <1>4
<1> QED
  BY <1>5 DEF R

LEMMA WalkOn ==
  ASSUME NEW i \in 0..ListLen
  PROVE  After(i) \in [at : 0..ListLen, removing : Query \cup {None}]
BY ModbusMasterAssumption DEF After, Asleep

LEMMA ListsInv ==
  ASSUME ListsOK, [Next]_vars
  PROVE  ListsOK'
<1> USE ModbusMasterAssumption DEF ListsOK
<1>0. CASE UNCHANGED lists
  BY <1>0 DEF lists, Slots
<1>1. ASSUME NEW q \in Query,
             MB_masterRegisterQuery(q) \/ MB_masterUnregisterQuery(q)
      PROVE  ListsOK'
  <2>1. UNCHANGED <<queryList, queryQueue, handler>>
    BY <1>1 DEF MB_masterRegisterQuery, MB_masterUnregisterQuery, list
  <2>2. Ask("add", q) \/ Ask("remove", q)
    BY <1>1 DEF MB_masterRegisterQuery, MB_masterUnregisterQuery
  <2> QED
    BY <2>1, <2>2, Asked
<1>2. CASE TimerFires
  BY <1>2 DEF TimerFires
<1>3. CASE Skip
  BY <1>3, WalkOn DEF Skip, Visiting
<1>4. CASE Enqueue
  <2> DEFINE q == queryList[handler.at]
  <2>1. handler.at \in 1..ListLen /\ q \in Query \cup {None}
    BY <1>4 DEF Enqueue, Visiting, Slots
  <2>2. q \in Query
    BY <1>4, <2>1 DEF Enqueue, Due
  <2>3. queryQueue' \in Seq(Query) /\ Len(queryQueue') =< QueryQueueLen
    BY <1>4, <2>2 DEF Enqueue
  <2>4. \/ handler' = [handler EXCEPT !.removing = q]
        \/ handler' = After(handler.at)
    BY <1>4 DEF Enqueue
  <2>5. handler' \in [at : 0..ListLen, removing : Query \cup {None}]
    <3>1. After(handler.at) \in [at : 0..ListLen, removing : Query \cup {None}]
      BY <2>1, WalkOn
    <3>2. [handler EXCEPT !.removing = q] \in [at : 0..ListLen, removing : Query \cup {None}]
      BY <2>2
    <3> QED
      BY <2>4, <3>1, <3>2
  <2> QED
    BY <1>4, <2>3, <2>5 DEF Enqueue
<1>5. CASE RemoveAperiodic
  <2>1. handler.removing \in Query
    BY <1>5 DEF RemoveAperiodic
  <2>2. handler' = After(handler.at) /\ Ask("remove", handler.removing)
        /\ UNCHANGED <<queryList, queryQueue>>
    BY <1>5 DEF RemoveAperiodic
  <2>3. handler' \in [at : 0..ListLen, removing : Query \cup {None}]
    BY <2>2, WalkOn
  <2>4. /\ configQueue' \in Seq([type : {"add", "remove"}, query : Query])
        /\ Len(configQueue') =< ConfigLen
    BY <2>1, <2>2, Asked
  <2> QED
    BY <2>2, <2>3, <2>4
<1>6. CASE mb_masterProcessConfigRequest
  <2> DEFINE R == [type : {"add", "remove"}, query : Query]
  <2>a. configQueue \in Seq(R) /\ configQueue # <<>> /\ Len(configQueue) =< ConfigLen
        /\ ConfigLen \in Nat
    BY <1>6 DEF mb_masterProcessConfigRequest
  <2> HIDE DEF R
  <2>b. Head(configQueue) \in R /\ Tail(configQueue) \in Seq(R)
        /\ Len(Tail(configQueue)) =< ConfigLen
    BY <2>a, HeadTailProperties
  <2>1. Head(configQueue) \in [type : {"add", "remove"}, query : Query]
        /\ Tail(configQueue) \in Seq([type : {"add", "remove"}, query : Query])
        /\ Len(Tail(configQueue)) =< ConfigLen
    BY <2>b DEF R
  <2>2. ASSUME NEW old, NEW new \in Query \cup {None}, Replace(old, new)
        PROVE  queryList' \in [Slots -> Query \cup {None}]
    BY <2>2 DEF Replace
  <2>3. queryList' \in [Slots -> Query \cup {None}]
    BY <1>6, <2>1, <2>2 DEF mb_masterProcessConfigRequest
  <2> QED
    BY <1>6, <2>1, <2>3 DEF mb_masterProcessConfigRequest
<1>7. CASE TakeQuery
  <2>1. Tail(queryQueue) \in Seq(Query) /\ Len(Tail(queryQueue)) =< QueryQueueLen
    BY <1>7, HeadTailProperties DEF TakeQuery
  <2> QED
    BY <1>7, <2>1 DEF TakeQuery, list
<1>8. CASE \E s \in Slave : MB_masterRegisterSlave(s) \/ MB_masterUnregisterSlave(s)
  BY <1>0, <1>8 DEF MB_masterRegisterSlave, MB_masterUnregisterSlave, list, lists
<1>9. CASE LeaveIdle \/ NoQuery \/ mbTxGenFrame \/ mbPhySendData \/ FirstByte \/ NextByte
  BY <1>0, <1>9 DEF LeaveIdle, NoQuery, mbTxGenFrame, mbPhySendData, FirstByte, NextByte,
                    list, lists
<1>10. CASE FrameGap \/ ResponseTimeout \/ StillWaiting \/ mbRxFrameParse \/ Reset
  BY <1>0, <1>10 DEF FrameGap, ResponseTimeout, StillWaiting, mbRxFrameParse, Reset,
                     list, lists
<1>11. CASE Line
  BY <1>0, <1>11 DEF Line, Elapse, MB_phyRxByteISRCallback, NoiseByte, list, lists
<1>12. CASE UNCHANGED vars
  BY <1>0, <1>12 DEF vars, lists
<1> QED
  BY <1>1, <1>2, <1>3, <1>4, <1>5, <1>6, <1>7, <1>8, <1>9, <1>10, <1>11, <1>12
     DEF Next, Application, mbMasterQueryTimerHandler, modbusMasterTaskHandler

(***************************************************************************)
(* The slaves.  The task marks only the slave in process, which it has.    *)
(***************************************************************************)
LEMMA TablesInv ==
  ASSUME TablesOK, ExchangeOK, [Next]_vars
  PROVE  TablesOK'
<1> USE ModbusMasterAssumption DEF TablesOK
<1>0. CASE UNCHANGED table
  BY <1>0 DEF table
<1>1. ASSUME NEW s \in Slave, MB_masterRegisterSlave(s)
      PROVE  TablesOK'
  <2>1. CASE UNCHANGED table
    BY <1>0, <2>1
  <2>2. CASE ~UNCHANGED table
    <3>1. PICK i : /\ slave' = [slave EXCEPT ![i] = s]
                   /\ connected' = [connected EXCEPT ![s] = 0]
      BY <1>1, <2>2 DEF MB_masterRegisterSlave
    <3>2. slave' \in [1..MaxSlaves -> Slave \cup {None}]
      BY <3>1
    <3>3. connected' \in [Slave -> 0..1]
      BY <3>1
    <3> QED
      BY <3>2, <3>3
  <2> QED
    BY <2>1, <2>2
<1>2. ASSUME NEW s \in Slave, MB_masterUnregisterSlave(s)
      PROVE  TablesOK'
  BY <1>2 DEF MB_masterUnregisterSlave
<1>3. CASE ResponseTimeout \/ mbRxFrameParse
  <2>1. UNCHANGED slave
    BY <1>3 DEF ResponseTimeout, mbRxFrameParse
  <2>2. \/ UNCHANGED connected
        \/ connected' = [connected EXCEPT ![inProcess] = 0]
        \/ connected' = [connected EXCEPT ![inProcess] = 1]
    BY <1>3 DEF ResponseTimeout, mbRxFrameParse
  <2>3. connected' \in [Slave -> 0..1]
    BY <2>2
  <2> QED
    BY <2>1, <2>3
<1>4. CASE \E q \in Query : MB_masterRegisterQuery(q) \/ MB_masterUnregisterQuery(q)
  BY <1>0, <1>4 DEF MB_masterRegisterQuery, MB_masterUnregisterQuery
<1>5. CASE TimerFires \/ mbMasterQueryTimerHandler \/ Line
  BY <1>0, <1>5 DEF TimerFires, mbMasterQueryTimerHandler, Skip, Enqueue, RemoveAperiodic,
                    Line, Elapse, MB_phyRxByteISRCallback, NoiseByte
<1>6. CASE mb_masterProcessConfigRequest \/ LeaveIdle \/ NoQuery \/ TakeQuery
           \/ mbTxGenFrame \/ mbPhySendData
  BY <1>0, <1>6 DEF mb_masterProcessConfigRequest, LeaveIdle, NoQuery, TakeQuery,
                    mbTxGenFrame, mbPhySendData
<1>7. CASE FirstByte \/ NextByte \/ FrameGap \/ StillWaiting \/ Reset
  BY <1>0, <1>7 DEF FirstByte, NextByte, FrameGap, StillWaiting, Reset
<1>8. CASE UNCHANGED vars
  BY <1>0, <1>8 DEF vars, table
<1> QED
  BY <1>1, <1>2, <1>3, <1>4, <1>5, <1>6, <1>7, <1>8
     DEF Next, Application, mbMasterQueryTimerHandler, modbusMasterTaskHandler

(***************************************************************************)
(* What is owed.  A registration that is taken counts one up, and is a     *)
(* call; a frame that is sent counts one down, once below nothing.         *)
(***************************************************************************)
LEMMA CountsInv ==
  ASSUME CountsOK, ExchangeOK, [Next]_vars
  PROVE  CountsOK'
<1> USE ModbusMasterAssumption DEF CountsOK
<1>0. CASE UNCHANGED <<owed, calls>>
  BY <1>0
<1>1. ASSUME NEW q \in Query, MB_masterRegisterQuery(q)
      PROVE  CountsOK'
  <2>1. calls' = calls + 1 /\ calls < MaxCalls
    BY <1>1 DEF MB_masterRegisterQuery, Call
  <2>2. owed' = [owed EXCEPT ![q] = owed[q] + 1] \/ owed' = [owed EXCEPT ![q] = owed[q]]
    BY <1>1 DEF MB_masterRegisterQuery
  <2>3. owed' \in [Query -> Int]
    BY <2>2
  <2>4. ASSUME NEW p \in Query
        PROVE  -1 =< owed'[p] /\ owed'[p] =< calls'
    <3>1. owed'[p] = owed[p] \/ owed'[p] = owed[p] + 1
      BY <2>2
    <3>2. owed[p] \in Int /\ -1 =< owed[p] /\ owed[p] =< calls /\ calls \in Nat
      OBVIOUS
    <3> QED
      BY <2>1, <3>1, <3>2
  <2> QED
    BY <2>1, <2>3, <2>4
<1>2. CASE \/ \E q \in Query : MB_masterUnregisterQuery(q)
           \/ \E s \in Slave : MB_masterRegisterSlave(s) \/ MB_masterUnregisterSlave(s)
  <2>1. owed' = owed /\ calls' = calls + 1 /\ calls < MaxCalls
    BY <1>2 DEF MB_masterUnregisterQuery, MB_masterRegisterSlave, MB_masterUnregisterSlave,
                Call
  <2> QED
    BY <2>1
<1>3. CASE mbPhySendData
  <2>1. calls' = calls
    BY <1>3 DEF mbPhySendData
  <2>2. \/ owed' = [owed EXCEPT ![tx] = owed[tx]]
        \/ owed' = [owed EXCEPT ![tx] = owed[tx] - 1] /\ owed[tx] >= 0
    BY <1>3 DEF mbPhySendData
  <2>3. tx \in Query
    BY <1>3 DEF mbPhySendData, ExchangeOK
  <2>4. owed' \in [Query -> Int]
    BY <2>2, <2>3
  <2>5. ASSUME NEW p \in Query
        PROVE  -1 =< owed'[p] /\ owed'[p] =< calls
    <3>1. owed'[p] = owed[p] \/ (owed'[p] = owed[p] - 1 /\ owed[p] >= 0)
      BY <2>2, <2>3
    <3>2. owed[p] \in Int /\ -1 =< owed[p] /\ owed[p] =< calls /\ calls \in Nat
      OBVIOUS
    <3> QED
      BY <3>1, <3>2
  <2> QED
    BY <2>1, <2>4, <2>5
<1>4. CASE TimerFires \/ mbMasterQueryTimerHandler \/ Line
  BY <1>0, <1>4 DEF TimerFires, mbMasterQueryTimerHandler, Skip, Enqueue, RemoveAperiodic,
                    Line, Elapse, MB_phyRxByteISRCallback, NoiseByte
<1>5. CASE mb_masterProcessConfigRequest \/ LeaveIdle \/ NoQuery \/ TakeQuery
           \/ mbTxGenFrame
  BY <1>0, <1>5 DEF mb_masterProcessConfigRequest, LeaveIdle, NoQuery, TakeQuery,
                    mbTxGenFrame
<1>6. CASE FirstByte \/ NextByte \/ FrameGap \/ ResponseTimeout \/ StillWaiting
           \/ mbRxFrameParse \/ Reset
  BY <1>0, <1>6 DEF FirstByte, NextByte, FrameGap, ResponseTimeout, StillWaiting,
                    mbRxFrameParse, Reset
<1>7. CASE UNCHANGED vars
  BY <1>0, <1>7 DEF vars
<1> QED
  BY <1>1, <1>2, <1>3, <1>4, <1>5, <1>6, <1>7
     DEF Next, Application, mbMasterQueryTimerHandler, modbusMasterTaskHandler

(***************************************************************************)
(* The exchange.                                                           *)
(***************************************************************************)
LEMMA ExchangeInv ==
  ASSUME ListsOK, ExchangeOK, BufferOK, [Next]_vars
  PROVE  ExchangeOK' /\ BufferOK'
<1> USE ModbusMasterAssumption DEF ExchangeOK, BufferOK, Sending, Receiving, States
<1>0. CASE UNCHANGED <<state, current, inProcess, tx, ctx, waiting, elapsed, rxBuffer>>
  BY <1>0
<1>1. CASE Application
  BY <1>0, <1>1 DEF Application, MB_masterRegisterQuery, MB_masterUnregisterQuery,
                    MB_masterRegisterSlave, MB_masterUnregisterSlave, task
<1>2. CASE TimerFires \/ mbMasterQueryTimerHandler
  BY <1>0, <1>2 DEF TimerFires, mbMasterQueryTimerHandler, Skip, Enqueue, RemoveAperiodic,
                    task
<1>3. CASE mb_masterProcessConfigRequest
  BY <1>0, <1>3 DEF mb_masterProcessConfigRequest, task
<1>4. CASE LeaveIdle
  BY <1>4 DEF LeaveIdle, task
<1>5. CASE NoQuery
  BY <1>5 DEF NoQuery, task
<1>6. CASE TakeQuery
  <2>1. current' \in Query /\ UNCHANGED <<ctx, waiting, tx, elapsed, rxBuffer>>
    BY <1>6, HeadTailProperties DEF TakeQuery, ListsOK
  <2>2. inProcess' \in Slave \cup {None}
    BY <1>6, <2>1, HeadTailProperties DEF TakeQuery, mbGetSlaveInfo, ListsOK
  <2>3. /\ state = "query_waiting"
        /\ state' = IF inProcess' = None THEN "reset" ELSE "tx_processing"
    BY <1>6 DEF TakeQuery
  <2> QED
    BY <2>1, <2>2, <2>3
<1>7. CASE mbTxGenFrame
  <2>1. /\ state = "tx_processing" /\ ctx' \in 0..1
        /\ UNCHANGED <<current, inProcess, waiting, elapsed, rxBuffer>>
    BY <1>7 DEF mbTxGenFrame
  <2>2. \/ state' = "reset" /\ UNCHANGED tx
        \/ state' = "suspended" /\ UNCHANGED tx
        \/ state' = "transmitting" /\ tx' = current /\ ctx' = 1
    BY <1>7, <2>1 DEF mbTxGenFrame
  <2> QED
    BY <2>1, <2>2
<1>8. CASE mbPhySendData
  BY <1>8 DEF mbPhySendData
<1>9. CASE FirstByte \/ NextByte \/ FrameGap
  BY <1>9 DEF FirstByte, NextByte, FrameGap, task
<1>10. CASE ResponseTimeout
  BY <1>10 DEF ResponseTimeout
<1>11. CASE StillWaiting
  BY <1>11 DEF StillWaiting, task
<1>15. CASE mbRxFrameParse
  <2>1. /\ waiting' = 0 /\ state' = "reset"
        /\ UNCHANGED <<current, inProcess, ctx, tx, elapsed, rxBuffer>>
    BY <1>15 DEF mbRxFrameParse
  <2> QED
    BY <2>1
<1>12. CASE Reset
  BY <1>12 DEF Reset
<1>13. CASE Line
  BY <1>13 DEF Line, Elapse, MB_phyRxByteISRCallback, NoiseByte, task
<1>14. CASE UNCHANGED vars
  BY <1>0, <1>14 DEF vars
<1> QED
  BY <1>1, <1>2, <1>3, <1>4, <1>5, <1>6, <1>7, <1>8, <1>9, <1>10, <1>11, <1>12, <1>13,
     <1>14, <1>15 DEF Next, modbusMasterTaskHandler

(***************************************************************************)
(* The line and what was received from it.                                 *)
(***************************************************************************)
(* A byte that arrives belongs where the queue's other bytes do.           *)
LEMMA QueuedOK ==
  ASSUME LineOK, NEW b \in Part, Queued(b)
  PROVE  /\ rxQueue' \in Seq(Part) /\ Len(rxQueue') =< RxLen
         /\ \A q : Only(rxQueue, q) /\ b.query \in {q, None} => Only(rxQueue', q)
<1>1. rxQueue \in Seq(Part) /\ Len(rxQueue) =< RxLen /\ RxLen \in Nat
  BY ModbusMasterAssumption DEF LineOK
<1>2. CASE Len(rxQueue) < RxLen
  <2>1. rxQueue' = Append(rxQueue, b)
    BY <1>2 DEF Queued
  <2> QED
    BY <1>1, <1>2, <2>1, Joined
<1>3. CASE ~(Len(rxQueue) < RxLen)
  BY <1>1, <1>3 DEF Queued
<1> QED
  BY <1>2, <1>3

LEMMA LineInv ==
  ASSUME LineOK, ExchangeOK, BufferOK, [Next]_vars
  PROVE  LineOK'
<1> USE ModbusMasterAssumption DEF LineOK
<1>0. CASE UNCHANGED <<rxQueue, rxBuffer, wire, late, noise>>
  BY <1>0
<1>1. CASE Application
  BY <1>0, <1>1 DEF Application, MB_masterRegisterQuery, MB_masterUnregisterQuery,
                    MB_masterRegisterSlave, MB_masterUnregisterSlave, line
<1>2. CASE TimerFires \/ mbMasterQueryTimerHandler
  BY <1>0, <1>2 DEF TimerFires, mbMasterQueryTimerHandler, Skip, Enqueue, RemoveAperiodic,
                    line
<1>3. CASE mb_masterProcessConfigRequest \/ LeaveIdle \/ NoQuery \/ TakeQuery
           \/ mbTxGenFrame
  BY <1>0, <1>3 DEF mb_masterProcessConfigRequest, LeaveIdle, NoQuery, TakeQuery,
                    mbTxGenFrame, line
<1>4. CASE mbPhySendData
  <2>1. tx \in Query /\ UNCHANGED <<rxQueue, rxBuffer, late, noise>>
    BY <1>4 DEF mbPhySendData, ExchangeOK
  <2>2. PICK a \in Answers(tx) : wire' = wire \o a
    BY <1>4 DEF mbPhySendData
  <2>3. wire' \in Seq(Part)
    BY <2>1, <2>2, Sent
  <2> QED
    BY <2>1, <2>3
<1>5. CASE FirstByte \/ NextByte
  <2>1. /\ rxQueue # <<>> /\ rxQueue' = Tail(rxQueue)
        /\ \/ rxBuffer' = Append(rxBuffer, Head(rxQueue)) /\ Len(rxBuffer) < RxLen
           \/ rxBuffer' = rxBuffer
        /\ UNCHANGED <<wire, late, noise>>
    <3>1. CASE FirstByte
      <4>1. rxBuffer = <<>> /\ Len(rxBuffer) < RxLen
        BY <3>1 DEF FirstByte, BufferOK
      <4> QED
        BY <3>1, <4>1 DEF FirstByte
    <3>2. CASE NextByte
      BY <3>2 DEF NextByte
    <3> QED
      BY <1>5, <3>1, <3>2
  <2>2. rxQueue' \in Seq(Part) /\ Len(rxQueue') =< RxLen /\ Head(rxQueue) \in Part
    BY <2>1, Taken, LenProperties
  <2>3. rxBuffer' \in Seq(Part) /\ Len(rxBuffer') =< RxLen
    <3>1. CASE rxBuffer' = rxBuffer
      BY <3>1
    <3>2. CASE rxBuffer' = Append(rxBuffer, Head(rxQueue)) /\ Len(rxBuffer) < RxLen
      <4>1. Len(rxBuffer) \in Nat /\ RxLen \in Nat
        BY LenProperties
      <4> QED
        BY <2>2, <3>2, <4>1, Joined
    <3> QED
      BY <2>1, <3>1, <3>2
  <2> QED
    BY <2>1, <2>2, <2>3
<1>6. CASE FrameGap \/ ResponseTimeout \/ StillWaiting \/ mbRxFrameParse
  BY <1>0, <1>6 DEF FrameGap, ResponseTimeout, StillWaiting, mbRxFrameParse, line
<1>7. CASE Reset
  <2>1. /\ \/ rxQueue' = <<>> /\ rxBuffer' = <<>>
           \/ UNCHANGED <<rxQueue, rxBuffer>>
        /\ UNCHANGED <<wire, late, noise>>
    BY <1>7 DEF Reset
  <2>2. CASE rxQueue' = <<>> /\ rxBuffer' = <<>>
    <3>1. <<>> \in Seq(Part) /\ Len(<<>>) = 0 /\ 0 =< RxLen
      BY EmptySeq
    <3> QED
      BY <2>1, <2>2, <3>1
  <2>3. CASE UNCHANGED <<rxQueue, rxBuffer>>
    BY <2>1, <2>3
  <2> QED
    BY <2>1, <2>2, <2>3
<1>8. CASE Elapse
  BY <1>0, <1>8 DEF Elapse, line
<1>9. CASE MB_phyRxByteISRCallback
  <2>1. Head(wire) \in Part /\ wire' \in Seq(Part)
    BY <1>9, Taken DEF MB_phyRxByteISRCallback
  <2>2. rxQueue' \in Seq(Part) /\ Len(rxQueue') =< RxLen
    BY <1>9, <2>1, QueuedOK DEF MB_phyRxByteISRCallback
  <2> QED
    BY <1>9, <2>1, <2>2 DEF MB_phyRxByteISRCallback
<1>10. CASE NoiseByte
  <2>1. Noise \in Part
    BY DEF Part
  <2>2. rxQueue' \in Seq(Part) /\ Len(rxQueue') =< RxLen
    BY <1>10, <2>1, QueuedOK DEF NoiseByte
  <2>3. noise' \in 0..MaxNoise
    BY <1>10 DEF NoiseByte
  <2> QED
    BY <1>10, <2>2, <2>3 DEF NoiseByte
<1>11. CASE UNCHANGED vars
  BY <1>0, <1>11 DEF vars
<1> QED
  BY <1>1, <1>2, <1>3, <1>4, <1>5, <1>6, <1>7, <1>8, <1>9, <1>10, <1>11
     DEF Next, modbusMasterTaskHandler, Line

(***************************************************************************)
(* Whether answers are in time never changes, and noise is never undone.   *)
(***************************************************************************)
LEMMA LineKeeps ==
  ASSUME LineOK, [Next]_vars
  PROVE  late' = late /\ (noise' = 0 => noise = 0)
<1>1. late' = late
  BY DEF Next, Application, TimerFires, mbMasterQueryTimerHandler, Skip, Enqueue,
         RemoveAperiodic, MB_masterRegisterQuery, MB_masterUnregisterQuery,
         MB_masterRegisterSlave, MB_masterUnregisterSlave, modbusMasterTaskHandler,
         mb_masterProcessConfigRequest, LeaveIdle, NoQuery, TakeQuery, mbTxGenFrame,
         mbPhySendData, FirstByte, NextByte, FrameGap, ResponseTimeout, StillWaiting,
         mbRxFrameParse, Reset, Line, Elapse, MB_phyRxByteISRCallback, NoiseByte, line, vars
<1>2. noise' = noise \/ noise' = noise + 1
  BY DEF Next, Application, TimerFires, mbMasterQueryTimerHandler, Skip, Enqueue,
         RemoveAperiodic, MB_masterRegisterQuery, MB_masterUnregisterQuery,
         MB_masterRegisterSlave, MB_masterUnregisterSlave, modbusMasterTaskHandler,
         mb_masterProcessConfigRequest, LeaveIdle, NoQuery, TakeQuery, mbTxGenFrame,
         mbPhySendData, FirstByte, NextByte, FrameGap, ResponseTimeout, StillWaiting,
         mbRxFrameParse, Reset, Line, Elapse, MB_phyRxByteISRCallback, NoiseByte, line, vars
<1>3. noise \in Nat
  BY ModbusMasterAssumption DEF LineOK
<1> QED
  BY <1>1, <1>2, <1>3

(***************************************************************************)
(* What arrives in time.  Bytes move from the line through the queue into  *)
(* the buffer and change neither whose they are nor, but for the frame the *)
(* task sends, whose frame is in the transmit buffer; that one is replaced *)
(* when both are empty.                                                    *)
(***************************************************************************)
LEMMA InTimeInv ==
  ASSUME LineOK, ExchangeOK, BufferOK, InTime, [Next]_vars
  PROVE  InTime'
<1> SUFFICES ASSUME late' = 0, noise' = 0
             PROVE  /\ \/ elapsed' = 1
                       \/ waiting' = 0
                       \/ state' \in {"rx_processing", "reset"}
                       => wire' = <<>>
                    /\ Only(wire', tx') /\ Only(rxQueue', tx') /\ Only(rxBuffer', tx')
  BY DEF InTime, Only
<1>a. late = 0 /\ noise = 0
  BY LineKeeps
<1>b. /\ elapsed = 1 \/ waiting = 0 \/ state \in {"rx_processing", "reset"} => wire = <<>>
      /\ Only(wire, tx) /\ Only(rxQueue, tx) /\ Only(rxBuffer, tx)
  BY <1>a DEF InTime
<1>c. \A q : Only(<<>>, q)
  BY DEF Only
<1>d. /\ rxQueue \in Seq(Part) /\ rxBuffer \in Seq(Part) /\ wire \in Seq(Part)
      /\ waiting \in 0..1 /\ elapsed \in 0..1
  BY DEF LineOK, ExchangeOK
<1>0. CASE UNCHANGED <<rxQueue, rxBuffer, wire, tx, elapsed, waiting, state>>
  BY <1>0, <1>b
<1>1. CASE Application
  BY <1>0, <1>1 DEF Application, MB_masterRegisterQuery, MB_masterUnregisterQuery,
                    MB_masterRegisterSlave, MB_masterUnregisterSlave, line, task
<1>2. CASE TimerFires \/ mbMasterQueryTimerHandler
  BY <1>0, <1>2 DEF TimerFires, mbMasterQueryTimerHandler, Skip, Enqueue, RemoveAperiodic,
                    line, task
<1>3. CASE mb_masterProcessConfigRequest \/ LeaveIdle \/ NoQuery \/ StillWaiting
  BY <1>3, <1>b DEF mb_masterProcessConfigRequest, LeaveIdle, NoQuery, StillWaiting, line,
                    task
<1>4. CASE TakeQuery
  <2>1. waiting = 0 /\ UNCHANGED <<rxQueue, rxBuffer, wire, tx, elapsed, waiting>>
    BY <1>4 DEF TakeQuery, ExchangeOK, line
  <2> QED
    BY <2>1, <1>b
<1>5. CASE mbTxGenFrame
  <2>1. /\ waiting = 0 /\ tx = None /\ wire = <<>> /\ rxBuffer = <<>>
        /\ UNCHANGED <<rxQueue, rxBuffer, wire, elapsed, waiting>>
    BY <1>5, <1>b DEF mbTxGenFrame, ExchangeOK, BufferOK, Sending, line
  <2>2. Only(rxQueue, tx')
    BY <2>1, <1>b DEF Only
  <2> QED
    BY <2>1, <2>2, <1>b, <1>c
<1>6. CASE mbPhySendData
  <2>1. /\ tx \in Query /\ state' = "rx_waiting" /\ waiting' = 1 /\ elapsed' = 0
        /\ UNCHANGED <<rxQueue, rxBuffer, tx>>
    BY <1>6 DEF mbPhySendData, ExchangeOK
  <2>2. PICK a \in Answers(tx) : wire' = wire \o a
    BY <1>6 DEF mbPhySendData
  <2>3. Only(wire', tx)
    BY <2>1, <2>2, <1>b, <1>d, Sent
  <2> QED
    BY <2>1, <2>3, <1>b
<1>7. CASE FirstByte \/ NextByte
  <2>1. /\ rxQueue # <<>> /\ rxQueue' = Tail(rxQueue)
        /\ rxBuffer' \in {Append(rxBuffer, Head(rxQueue)), rxBuffer}
        /\ state' = "rx_collecting"
        /\ UNCHANGED <<wire, tx, elapsed, waiting>>
    BY <1>7 DEF FirstByte, NextByte, task
  <2>2. Only(rxQueue', tx) /\ Head(rxQueue) \in Part /\ Head(rxQueue).query \in {tx, None}
    BY <2>1, <1>b, <1>d, Taken
  <2>3. Only(rxBuffer', tx)
    BY <2>1, <2>2, <1>b, <1>d, Joined
  <2> QED
    BY <2>1, <2>2, <2>3, <1>b
<1>8. CASE FrameGap
  BY <1>8, <1>a, <1>b DEF FrameGap, line, task
<1>9. CASE ResponseTimeout
  BY <1>9, <1>b DEF ResponseTimeout, line
<1>10. CASE mbRxFrameParse
  <2>1. /\ state = "rx_processing"
        /\ UNCHANGED <<rxQueue, rxBuffer, wire, tx, elapsed>>
    BY <1>10 DEF mbRxFrameParse, line
  <2> QED
    BY <2>1, <1>b
<1>11. CASE Reset
  <2>1. /\ state = "reset" /\ wire' = wire
        /\ \/ UNCHANGED <<rxQueue, rxBuffer, tx>>
           \/ rxQueue' = <<>> /\ rxBuffer' = <<>>
    BY <1>11 DEF Reset
  <2> QED
    BY <2>1, <1>b, <1>c
<1>12. CASE Elapse
  BY <1>12, <1>a, <1>b DEF Elapse, line, task
<1>13. CASE MB_phyRxByteISRCallback
  <2>1. /\ wire # <<>> /\ wire' = Tail(wire) /\ Queued(Head(wire))
        /\ UNCHANGED <<rxBuffer, tx, elapsed, waiting, state>>
    BY <1>13 DEF MB_phyRxByteISRCallback, task
  <2>2. Only(wire', tx) /\ Head(wire) \in Part /\ Head(wire).query \in {tx, None}
    BY <2>1, <1>b, <1>d, Taken
  <2>3. Only(rxQueue', tx)
    BY <2>1, <2>2, <1>b, QueuedOK
  <2> QED
    BY <2>1, <2>2, <2>3, <1>b
<1>14. CASE NoiseByte
  BY <1>14, <1>a DEF NoiseByte
<1>15. CASE UNCHANGED vars
  BY <1>0, <1>15 DEF vars
<1> QED
  BY <1>1, <1>2, <1>3, <1>4, <1>5, <1>6, <1>7, <1>8, <1>9, <1>10, <1>11, <1>12, <1>13,
     <1>14, <1>15 DEF Next, modbusMasterTaskHandler, Line

(***************************************************************************)
(* The registers, which only a frame that was accepted changes.            *)
(***************************************************************************)
LEMMA RegistersInv ==
  ASSUME LineOK, ExchangeOK, InTime, RegistersOK, MatchedAnswers, AnswersGoHome,
         [Next]_vars
  PROVE  RegistersOK' /\ MatchedAnswers' /\ AnswersGoHome'
<1> USE ModbusMasterAssumption
<1>a. late' = late /\ (noise' = 0 => noise = 0)
  BY LineKeeps
<1>1. CASE UNCHANGED registers
  BY <1>1, <1>a DEF RegistersOK, MatchedAnswers, AnswersGoHome
<1>2. CASE mbRxFrameParse /\ ~UNCHANGED registers
  <2> DEFINE from == rxBuffer[1].query
  <2>1. /\ Accepted(rxBuffer) /\ TypeOf[tx] = "read_holding"
        /\ registers' = [registers EXCEPT ![current] = from]
        /\ state = "rx_processing"
    BY <1>2 DEF mbRxFrameParse
  <2>2. current \in Query /\ tx = current
    BY <2>1 DEF ExchangeOK, Receiving
  <2>3. from \in Query /\ 1 \in 1..Len(rxBuffer)
    BY <2>1, IntactIsAnswer DEF Accepted, LineOK
  <2>4. SlaveOf[from] = SlaveOf[current] /\ TypeOf[from] = TypeOf[current]
        /\ TypeOf[current] = "read_holding"
    BY <2>1, <2>2 DEF Accepted
  <2>5. late = 0 /\ noise = 0 => from = current
    BY <2>2, <2>3 DEF InTime, Only
  <2> HIDE DEF from
  <2>6. RegistersOK'
    BY <2>1, <2>2, <2>3 DEF RegistersOK
  <2>7. \A q \in Query : registers'[q] = IF q = current THEN from ELSE registers[q]
    BY <2>1, <2>2 DEF RegistersOK
  <2>8. MatchedAnswers'
    BY <2>4, <2>7 DEF MatchedAnswers
  <2>9. AnswersGoHome'
    BY <2>5, <2>7, <1>a DEF AnswersGoHome
  <2> QED
    BY <2>6, <2>8, <2>9
<1>3. mbRxFrameParse \/ UNCHANGED registers
  BY DEF Next, Application, TimerFires, mbMasterQueryTimerHandler, Skip, Enqueue,
         RemoveAperiodic, MB_masterRegisterQuery, MB_masterUnregisterQuery,
         MB_masterRegisterSlave, MB_masterUnregisterSlave, modbusMasterTaskHandler,
         mb_masterProcessConfigRequest, LeaveIdle, NoQuery, TakeQuery, mbTxGenFrame,
         mbPhySendData, FirstByte, NextByte, FrameGap, ResponseTimeout, StillWaiting,
         Reset, Line, Elapse, MB_phyRxByteISRCallback, NoiseByte, vars
<1> QED
  BY <1>1, <1>2, <1>3

(***************************************************************************)
(* The theorems.                                                           *)
(***************************************************************************)
LEMMA NextInv == Inv /\ [Next]_vars => Inv'
BY ListsInv, TablesInv, CountsInv, LineInv, ExchangeInv, InTimeInv, RegistersInv DEF Inv

LEMMA InvIsTyped == Inv => TypeOK
<1> SUFFICES ASSUME Inv PROVE TypeOK
  OBVIOUS
<1> USE ModbusMasterAssumption DEF Inv
<1>1. Part \subseteq Parts
  BY DEF Part, Parts, Noise, Kinds
<1>2. {rxQueue, rxBuffer, wire} \subseteq Seq(Parts)
  BY <1>1, SeqMonotonic DEF LineOK
<1>3. owed \in [Query -> -1..MaxCalls]
  BY DEF CountsOK
<1>4. {ctx, waiting, elapsed} \subseteq 0..1
  BY DEF ExchangeOK
<1> QED
  BY <1>2, <1>3, <1>4 DEF TypeOK, ListsOK, TablesOK, CountsOK, LineOK, ExchangeOK, RegistersOK

(* Every variable of the port keeps its shape, and the queues and the      *)
(* buffer their lengths, for the calls, the timer and the task of          *)
(* modbus_master.c in any order.                                           *)
THEOREM TypeCorrect == Spec => []TypeOK
<1>1. Spec => []Inv
  BY InitInv, NextInv, PTL DEF Spec
<1> QED
  BY <1>1, InvIsTyped, PTL

(* From the moment a query is taken to the parsing of its answer, the task *)
(* has the slave and the query it uses, and the receive context from the   *)
(* transmission on, and it starts an exchange with both buffers empty: the *)
(* shortcuts of modbus_master.c, which passes through IDLE while it waits  *)
(* and resets from several states, never leave one of them behind.  The    *)
(* reset is not among those states: it does use a context the task may not *)
(* have (line 216, run modbus_fault).                                      *)
THEOREM ExchangesAreSound == Spec => [](NeverNull /\ FreshBuffers)
<1>1. Spec => []Inv
  BY InitInv, NextInv, PTL DEF Spec
<1>2. Inv => NeverNull /\ FreshBuffers
  <2> SUFFICES ASSUME Inv PROVE NeverNull /\ FreshBuffers
    OBVIOUS
  <2>1. NeverNull
    BY ModbusMasterAssumption DEF Inv, ExchangeOK, NeverNull, Sending, Receiving
  <2>2. FreshBuffers
    BY DEF Inv, ExchangeOK, BufferOK, FreshBuffers, Sending
  <2> QED
    BY <2>1, <2>2
<1> QED
  BY <1>1, <1>2, PTL

(* With slaves that answer in time, and as long as no noise came, an       *)
(* answer is only ever written to the registers of the query it answers    *)
(* (modbus_master.c:199).  A byte of noise ahead of an answer ends the     *)
(* exchange early, and the answer may then pass for that to a later query  *)
(* of the same slave and type.                                             *)
THEOREM AnswersAreWrittenHome == Spec => []AnswersGoHome
<1>1. Spec => []Inv
  BY InitInv, NextInv, PTL DEF Spec
<1>2. Inv => AnswersGoHome
  BY DEF Inv
<1> QED
  BY <1>1, <1>2, PTL

(* However late answers come and whatever noise surrounds them, registers  *)
(* receive only an answer of the query's own slave to a query of its type. *)
(* Nothing is said of the answer's size, which the code does not compare.  *)
THEOREM AnswersAreMatched == Spec => []MatchedAnswers
<1>1. Spec => []Inv
  BY InitInv, NextInv, PTL DEF Spec
<1>2. Inv => MatchedAnswers
  BY DEF Inv
<1> QED
  BY <1>1, <1>2, PTL

(* A frame is transmitted only when no answer is awaited and nothing of an *)
(* earlier one is in the buffer (modbus_master.c:144).                     *)
THEOREM OneAtATime == Spec => OneOutstanding
<1>1. Spec => []Inv
  BY InitInv, NextInv, PTL DEF Spec
<1>2. Inv => (mbPhySendData => waiting = 0 /\ rxBuffer = <<>>)
  BY DEF Inv, ExchangeOK, BufferOK, Sending, mbPhySendData
<1>3. Inv /\ [Next]_vars => [mbPhySendData => waiting = 0 /\ rxBuffer = <<>>]_vars
  BY <1>2
<1>4. Spec => [][mbPhySendData => waiting = 0 /\ rxBuffer = <<>>]_vars
  BY <1>1, <1>3, PTL DEF Spec
<1> QED
  BY <1>4 DEF OneOutstanding
=============================================================================
