--------------------------------- MODULE Nmt ---------------------------------
(* The state of a CANopen node and its heartbeat, CO_NMT_Heartbeat.c, over  *)
(* the queues of CanBus: the receive thread sets the command, the process   *)
(* thread, of lower priority, executes it.  Nothing but heartbeats is sent; *)
(* the errors of the emergency object are external.                         *)
EXTENDS CanBus

CONSTANTS
  Controls,    \* values of NMTcontrol, sets of its CO_NMT_* flags
  HbTimes,     \* values of "Producer heartbeat time", in calls of CO_process
  FirstHBTime,
  MaxRuns, MaxFaultChanges, MaxWrites  \* bounds: calls, changes of the errors,
                             \* writes of the heartbeat time

VARIABLES
  NMTcontrol, operatingState, operatingStatePrev, HBproducerTime, HBproducerTimer,
  internalCommand,
  nmtAt,       \* where CO_NMT_process is: "out", "command", "clear"
  NMTstateCpy,
  faulty,      \* an error that NMTcontrol may be set to react to
  lastHb,      \* ghost: the state of the last heartbeat
  unheard,     \* ghost: commands received and not looked at
  runs, changes, writes

nodeVars == <<NMTcontrol, operatingState, operatingStatePrev, HBproducerTime, HBproducerTimer,
              internalCommand, nmtAt, NMTstateCpy, faulty, lastHb, unheard, runs, changes,
              writes>>
vars == <<canVars, nodeVars>>

Init ==
  /\ CanInit
  /\ NMTcontrol \in Controls /\ HBproducerTime \in HbTimes
  /\ operatingState = "INITIALIZING" /\ operatingStatePrev = "INITIALIZING"
  /\ HBproducerTimer = Least(FirstHBTime, HBproducerTime)
  /\ internalCommand = "NO_COMMAND" /\ nmtAt = "out" /\ NMTstateCpy = "INITIALIZING"
  /\ faulty = FALSE
  /\ lastHb = "none" /\ unheard = {} /\ runs = 0 /\ changes = 0 /\ writes = 0

----------------------------------------------------------------------------
(* The receive thread *)

\* A command that was not executed yet is overwritten.
CO_NMT_receive ==
  /\ Receive("CO_NMT_receive")
  /\ internalCommand' = Head(rxQueue).data
  /\ unheard' = {Head(rxQueue).number}
  /\ UNCHANGED <<NMTcontrol, operatingState, operatingStatePrev, HBproducerTime, HBproducerTimer,
                 nmtAt, NMTstateCpy, faulty, lastHb, runs, changes, writes>>

OtherReceive ==
  /\ \E callback \in CallbackNames \ {"CO_NMT_receive"} : Receive(callback)
  /\ UNCHANGED nodeVars

----------------------------------------------------------------------------
(* CO_NMT_process, in the process thread *)

Heartbeat(time) ==
  \/ operatingState = "INITIALIZING"
  \/ HBproducerTime # 0 /\ (time = 0 \/ operatingState # operatingStatePrev)

SelfStart ==
  IF operatingState # "INITIALIZING" THEN operatingState
  ELSE IF "STARTUP_TO_OPERATIONAL" \in NMTcontrol THEN "OPERATIONAL" ELSE "PRE_OPERATIONAL"

StateSentWith(time) ==
  IF Heartbeat(time)
  THEN /\ CO_CANsend("hb", operatingState)
       /\ lastHb' = operatingState
       /\ HBproducerTimer' = IF operatingState = "INITIALIZING" THEN time ELSE HBproducerTime
  ELSE HBproducerTimer' = time /\ UNCHANGED <<lastHb, canVars>>

Elapse == IF HBproducerTimer > 1 THEN HBproducerTimer - 1 ELSE 0

SendHeartbeat ==
  /\ nmtAt = "out" /\ runs < MaxRuns
  /\ nmtAt' = "command" /\ runs' = runs + 1
  /\ StateSentWith(Elapse)
  /\ NMTstateCpy' = SelfStart /\ operatingStatePrev' = SelfStart
  /\ UNCHANGED <<NMTcontrol, operatingState, HBproducerTime, internalCommand, faulty, unheard,
                 changes, writes>>

Commanded(command) ==
  CASE command = "ENTER_OPERATIONAL" -> "OPERATIONAL"
    [] command = "ENTER_STOPPED" -> "STOPPED"
    [] command = "ENTER_PRE_OPERATIONAL" -> "PRE_OPERATIONAL"
    [] OTHER -> NMTstateCpy

\* The command is read here and cleared in a later step: the receive thread
\* may run in between.
ReadCommand ==
  /\ nmtAt = "command"
  /\ nmtAt' = IF internalCommand = "NO_COMMAND" THEN "errors" ELSE "clear"
  /\ NMTstateCpy' = Commanded(internalCommand)
  /\ unheard' = {}
  /\ UNCHANGED <<NMTcontrol, operatingState, operatingStatePrev, HBproducerTime, HBproducerTimer,
                 internalCommand, faulty, lastHb, runs, changes, writes, canVars>>

ClearCommand ==
  /\ nmtAt = "clear" /\ nmtAt' = "errors"
  /\ internalCommand' = "NO_COMMAND"
  /\ UNCHANGED <<NMTcontrol, operatingState, operatingStatePrev, HBproducerTime, HBproducerTimer,
                 NMTstateCpy, faulty, lastHb, unheard, runs, changes, writes, canVars>>

AfterErrors ==
  LET reacts == faulty /\ "ERR_ON_ERR_REG" \in NMTcontrol
  IN  IF NMTstateCpy = "OPERATIONAL" /\ reacts
      THEN IF "ERR_TO_STOPPED" \in NMTcontrol THEN "STOPPED" ELSE "PRE_OPERATIONAL"
      ELSE IF NMTstateCpy = "PRE_OPERATIONAL" /\ ~reacts
              /\ "ERR_FREE_TO_OPERATIONAL" \in NMTcontrol
      THEN "OPERATIONAL" ELSE NMTstateCpy

EndProcessRemembers ==                              \* mutant
  /\ nmtAt = "errors" /\ nmtAt' = "out"
  /\ operatingState' = AfterErrors /\ operatingStatePrev' = AfterErrors
  /\ UNCHANGED <<NMTcontrol, HBproducerTime, HBproducerTimer, internalCommand, NMTstateCpy,
                 faulty, lastHb, unheard, runs, changes, writes, canVars>>

EndProcess ==
  /\ nmtAt = "errors" /\ nmtAt' = "out"
  /\ operatingState' = AfterErrors
  /\ UNCHANGED <<NMTcontrol, operatingStatePrev, HBproducerTime, HBproducerTimer,
                 internalCommand, NMTstateCpy, faulty, lastHb, unheard, runs, changes, writes,
                 canVars>>

\* The SDO server, in the same thread, writes object 1017.
OD_write_1017 ==
  /\ nmtAt = "out" /\ operatingState # "INITIALIZING"
  /\ writes < MaxWrites /\ writes' = writes + 1
  /\ HBproducerTime' \in HbTimes /\ HBproducerTimer' = 0
  /\ UNCHANGED <<NMTcontrol, operatingState, operatingStatePrev, internalCommand, nmtAt,
                 NMTstateCpy, faulty, lastHb, unheard, runs, changes, canVars>>

ErrorChanges ==
  /\ changes < MaxFaultChanges /\ changes' = changes + 1
  /\ faulty' = ~faulty
  /\ UNCHANGED <<NMTcontrol, operatingState, operatingStatePrev, HBproducerTime, HBproducerTimer,
                 internalCommand, nmtAt, NMTstateCpy, lastHb, unheard, runs, writes, canVars>>

Next ==
  \/ CO_NMT_receive \/ OtherReceive
  \/ SendHeartbeat \/ ReadCommand \/ ClearCommand \/ EndProcess
  \/ OD_write_1017 \/ ErrorChanges
  \/ (Arrive \/ HAL_CAN_RxFifo1MsgPendingCallback \/ cbusTxThread \/ Transmit) /\ UNCHANGED nodeVars

----------------------------------------------------------------------------
(* Properties *)

\* A node that sends heartbeats tells every state it has been in before it
\* leaves it, when commands, errors and writes of the heartbeat time come in
\* any order.  The one it may leave untold is the first, which its boot-up
\* message announces.
StatesReported ==
  [][operatingState' # operatingState /\ HBproducerTime # 0 =>
       lastHb = operatingState \/ lastHb = "INITIALIZING"]_vars

\* CO_NMT_Heartbeat.c:207 "process internal NMT commands, received from
\* CO_NMT_receive()": each one that no other follows.  It fails: one that comes
\* between the look and the reset is gone.
NoCommandLost == internalCommand = "NO_COMMAND" => unheard = {}
=============================================================================
