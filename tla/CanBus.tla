------------------------------- MODULE CanBus -------------------------------
(* The queues of a CAN node: the driver's interrupt, drv/stm32/CAN, the two *)
(* threads of connectivity/cbus, and CO_CANsend and CO_CANrxDispatch of     *)
(* CO_driver_stm32.c between them and the CANopen stack.  The controller    *)
(* and the bus are external.  A frame has an identifier, its data and, for  *)
(* the properties, a number.                                                *)
EXTENDS Integers, Sequences

CONSTANTS
  FifoLen, Mailboxes,        \* of the controller
  RxLength, TxLength,        \* CBUS_RX_QUEUE_LENGTH, CBUS_TX_QUEUE_LENGTH
  rxArray,     \* [callback, idents]: an entry not set up has no callback and,
               \* its mask being 0, matches every identifier
  Arrivals,    \* the frames other nodes send, without their number
  MaxArrived, MaxQueued      \* bounds: frames received, frames sent

VARIABLES
  fifo, rxQueue,
  txQueue,
  mailbox,     \* what the controller has still to send, in order of request
  arrived, queued,           \* ghost: frames received and sent so far
  dispatched,  \* ghost: [number, ident, to] of each callback
  wire         \* ghost: the numbers of the frames on the bus

rxVars  == <<fifo, rxQueue, arrived, dispatched>>
txVars  == <<txQueue, mailbox, queued, wire>>
canVars == <<rxVars, txVars>>

CanInit ==
  /\ fifo = <<>> /\ rxQueue = <<>> /\ txQueue = <<>> /\ mailbox = <<>>
  /\ arrived = 0 /\ queued = 0
  /\ dispatched = <<>> /\ wire = <<>>

----------------------------------------------------------------------------
(* Receiving *)

\* A full controller drops the frame or its last one: a setting outside this
\* repository.
Arrive ==
  /\ arrived < MaxArrived
  /\ arrived' = arrived + 1
  /\ \E f \in Arrivals :
       LET frame == [ident |-> f.ident, data |-> f.data, number |-> arrived + 1]
       IN  IF Len(fifo) < FifoLen THEN fifo' = Append(fifo, frame)
           ELSE fifo' \in {fifo, [fifo EXCEPT ![FifoLen] = frame]}
  /\ UNCHANGED <<rxQueue, dispatched, txVars>>

Least(a, b) == IF a < b THEN a ELSE b

\* The interrupt empties the controller; what the queue has no room for is gone.
HAL_CAN_RxFifo1MsgPendingCallback ==
  /\ fifo # <<>> /\ fifo' = <<>>
  /\ rxQueue' = rxQueue \o SubSeq(fifo, 1, Least(Len(fifo), RxLength - Len(rxQueue)))
  /\ UNCHANGED <<arrived, dispatched, txVars>>

MatchesUnset(entry, ident) == ident \in entry.idents                 \* mutant

Matches(entry, ident) == entry.callback # "NULL" /\ ident \in entry.idents

\* The callbacks the frame goes to: the first that matches, or none.
CO_CANrxDispatch(frame) ==
  {rxArray[i].callback : i \in {k \in DOMAIN rxArray :
     /\ Matches(rxArray[k], frame.ident)
     /\ \A j \in 1..k - 1 : ~Matches(rxArray[j], frame.ident)}}

\* cbusRxThread, up to the callback.
Receive(callback) ==
  /\ rxQueue # <<>> /\ rxQueue' = Tail(rxQueue)
  /\ callback \in IF CO_CANrxDispatch(Head(rxQueue)) = {} THEN {"none"}
                                                          ELSE CO_CANrxDispatch(Head(rxQueue))
  /\ dispatched' = IF callback = "none" THEN dispatched
                   ELSE Append(dispatched, [number |-> Head(rxQueue).number,
                                            ident |-> Head(rxQueue).ident, to |-> callback])
  /\ UNCHANGED <<fifo, arrived, txVars>>

----------------------------------------------------------------------------
(* Sending *)

\* A full queue makes the caller wait.
CO_CANsend(ident, data) ==
  /\ Len(txQueue) < TxLength
  /\ queued' = queued + 1
  /\ txQueue' = Append(txQueue, [ident |-> ident, data |-> data, number |-> queued + 1])
  /\ UNCHANGED <<mailbox, wire, rxVars>>

CBUS_sendData(ident) == queued < MaxQueued /\ CO_CANsend(ident, "data")

\* HAL_CAN_AddTxMessage does not wait: without a free mailbox the frame that
\* the thread took from the queue is gone.
cbusTxThread ==
  /\ txQueue # <<>> /\ txQueue' = Tail(txQueue)
  /\ mailbox' = IF Len(mailbox) < Mailboxes THEN Append(mailbox, Head(txQueue)) ELSE mailbox
  /\ UNCHANGED <<queued, wire, rxVars>>

\* Which mailbox goes first depends on identifiers, numbers of mailboxes and
\* a setting outside this repository.
Transmit ==
  /\ \E i \in DOMAIN mailbox :
       /\ mailbox' = SubSeq(mailbox, 1, i - 1) \o SubSeq(mailbox, i + 1, Len(mailbox))
       /\ wire' = Append(wire, mailbox[i].number)
  /\ UNCHANGED <<txQueue, queued, rxVars>>

\* The callbacks change nothing here.
CallbackNames == {rxArray[i].callback : i \in DOMAIN rxArray} \union {"none"}
ReceiveNext ==
  Arrive \/ HAL_CAN_RxFifo1MsgPendingCallback \/ \E callback \in CallbackNames : Receive(callback)
SendNext == CBUS_sendData("app") \/ cbusTxThread \/ Transmit

----------------------------------------------------------------------------
(* Properties *)

\* The frames of the bus reach the callbacks in their order and at most once,
\* each the one that was registered for its identifier, whatever entries of
\* the array are not set up; and no frame is sent twice.
CanInOrder ==
  /\ \A i, j \in DOMAIN dispatched : i < j => dispatched[i].number < dispatched[j].number
  /\ \A i \in DOMAIN dispatched : \E k \in DOMAIN rxArray :
       /\ rxArray[k].callback = dispatched[i].to /\ rxArray[k].callback # "NULL"
       /\ dispatched[i].ident \in rxArray[k].idents
  /\ \A i, j \in DOMAIN wire : i # j => wire[i] # wire[j]
=============================================================================
