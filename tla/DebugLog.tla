------------------------------ MODULE DebugLog ------------------------------
(* The debug log, services/debug: tasks format their messages into one      *)
(* buffer under a mutex and put them into a stream; the debug task sends    *)
(* the stream to the port, from a buffer which the interrupt of the UART    *)
(* reads character by character (UART/uart.c).  The stream buffer and the   *)
(* mutex of FreeRTOS are external.  The port is the log's own: nobody else  *)
(* sends on it.                                                             *)
EXTENDS Integers, Sequences

CONSTANTS
  Logger,      \* tasks that log
  MsgLen,      \* the length of a message, at most DEBUG_MSG_MAX_LEN - 1
  ChunkLen,    \* DEBUG_MSG_MAX_LEN, what the task takes at a time
  StreamSize,  \* DEBUG_TX_BUFF_SIZE
  MaxLogs      \* bound: messages

VARIABLES
  debugLogMutex,  \* the loggers that hold it: never more than one
  msg,            \* logger -> the message it is called with, or 0
  offset,         \* logger -> how much of it is formatted
  debugMsgBuff, debugStream,
  debugPort,      \* TRUE once DEBUG_setPort gave it one
  txBuffer, txLen, \* what the task took out of the stream, and how much of it
  sending,        \* the task in its loop: "no", it "got" some, it "wait"s for the UART
  txNext, txLeft, \* the interrupt's place in txBuffer, and what it has left to send
  txCplt,         \* the semaphore it gives at the end
  timedOut,       \* ghost: a transmission outlasted DEBUG_PORT_TX_TIMEOUT_MS
  portOut,        \* ghost: what the port sent
  logs            \* ghost: messages so far

vars == <<debugLogMutex, msg, offset, debugMsgBuff, debugStream, debugPort, txBuffer, txLen,
          sending, txNext, txLeft, txCplt, timedOut, portOut, logs>>
loggerVars == <<debugLogMutex, msg, offset, debugMsgBuff, logs>>
uartVars == <<txNext, txLeft, txCplt, timedOut, portOut>>
taskVars == <<debugPort, txBuffer, txLen, sending, uartVars>>

Init ==
  /\ debugLogMutex = {}
  /\ msg = [l \in Logger |-> 0] /\ offset = [l \in Logger |-> 0]
  /\ debugMsgBuff = [i \in 1..MsgLen |-> <<0, 0>>] /\ debugStream = <<>>
  /\ debugPort = FALSE /\ sending = "no"
  /\ txBuffer = [i \in 1..ChunkLen |-> <<0, 0>>] /\ txLen = 0
  /\ txNext = 1 /\ txLeft = 0 /\ txCplt = 0
  /\ timedOut = FALSE /\ portOut = <<>> /\ logs = 0

----------------------------------------------------------------------------
(* debugLog and debugLogRaw, by logger l *)

Enter(l) ==
  /\ logs' = logs + 1
  /\ msg' = [msg EXCEPT ![l] = logs + 1]
  /\ offset' = [offset EXCEPT ![l] = 0]
  /\ debugLogMutex' = debugLogMutex \union {l}
  /\ UNCHANGED <<debugMsgBuff, debugStream, taskVars>>

TakeMutexOrGoOn(l) == msg[l] = 0 /\ logs < MaxLogs /\ Enter(l)      \* mutant

\* After the 10 or 100 ticks without the mutex the message is dropped.
TakeMutex(l) ==
  /\ msg[l] = 0 /\ logs < MaxLogs /\ debugLogMutex = {}
  /\ Enter(l)

\* The parts of the message follow each other in the buffer; a character is
\* the message it is of and its place there.
Format(l) ==
  /\ msg[l] # 0 /\ offset[l] < MsgLen
  /\ debugMsgBuff' = [debugMsgBuff EXCEPT ![offset[l] + 1] = <<msg[l], offset[l] + 1>>]
  /\ offset' = [offset EXCEPT ![l] = @ + 1]
  /\ UNCHANGED <<debugLogMutex, msg, logs, debugStream, taskVars>>

\* xStreamBufferSend waits until all of the message fits and puts it in, or
\* after 10 ticks as much of it as fits; then the mutex is given back.
StreamSend(l) ==
  LET room == StreamSize - Len(debugStream)
      n    == IF MsgLen < room THEN MsgLen ELSE room
  IN  /\ msg[l] # 0 /\ offset[l] = MsgLen
      /\ debugStream' = debugStream \o SubSeq(debugMsgBuff, 1, n)
      /\ debugLogMutex' = debugLogMutex \ {l}
      /\ msg' = [msg EXCEPT ![l] = 0]
      /\ UNCHANGED <<offset, debugMsgBuff, logs, taskVars>>

----------------------------------------------------------------------------
(* debugTask, and the application that gives it a port *)

\* What it receives goes to the front of the buffer, over what was there.
StreamReceive ==
  LET n == IF Len(debugStream) < ChunkLen THEN Len(debugStream) ELSE ChunkLen
  IN  /\ sending = "no" /\ n > 0
      /\ txBuffer' = [i \in 1..ChunkLen |-> IF i <= n THEN debugStream[i] ELSE txBuffer[i]]
      /\ debugStream' = SubSeq(debugStream, n + 1, Len(debugStream))
      /\ txLen' = n /\ sending' = "got"
      /\ UNCHANGED <<loggerVars, debugPort, uartVars>>

\* UART_writeData.  The UART is given the buffer itself, and only the place and the
\* length are copied.  Without a port, or with the UART still at work, the characters
\* are gone.
TransmitStart ==
  /\ sending = "got"
  /\ IF debugPort /\ txLeft = 0
     THEN sending' = "wait" /\ txNext' = 1 /\ txLeft' = txLen
     ELSE sending' = "no" /\ UNCHANGED <<txNext, txLeft>>
  /\ UNCHANGED <<loggerVars, debugStream, debugPort, txBuffer, txLen, txCplt, timedOut, portOut>>

\* The character is the one that stands in the buffer now.
TxInterrupt ==
  /\ txLeft > 0
  /\ portOut' = Append(portOut, txBuffer[txNext])
  /\ txNext' = txNext + 1 /\ txLeft' = txLeft - 1
  /\ txCplt' = IF txLeft = 1 THEN 1 ELSE txCplt
  /\ UNCHANGED <<loggerVars, debugStream, debugPort, txBuffer, txLen, sending, timedOut>>

TransmitDone ==
  /\ sending = "wait" /\ txCplt = 1
  /\ txCplt' = 0 /\ sending' = "no"
  /\ UNCHANGED <<loggerVars, debugStream, debugPort, txBuffer, txLen, txNext, txLeft, timedOut,
                 portOut>>

\* The task looks at no result, and the transmission goes on.
TransmitTimeout ==
  /\ sending = "wait" /\ txCplt = 0
  /\ sending' = "no" /\ timedOut' = TRUE
  /\ UNCHANGED <<loggerVars, debugStream, debugPort, txBuffer, txLen, txNext, txLeft, txCplt,
                 portOut>>

DEBUG_setPort ==
  /\ ~debugPort /\ debugLogMutex = {}
  /\ debugPort' = TRUE
  /\ UNCHANGED <<loggerVars, debugStream, txBuffer, txLen, sending, uartVars>>

Log(l) == TakeMutex(l) \/ Format(l) \/ StreamSend(l)
DebugTask == StreamReceive \/ TransmitStart \/ TransmitDone \/ TransmitTimeout
Next == (\E l \in Logger : Log(l)) \/ DebugTask \/ TxInterrupt \/ DEBUG_setPort

----------------------------------------------------------------------------
(* Properties *)

\* However the loggers, the debug task and the interrupt interleave, what the port
\* sends is parts of messages in their order: pieces may be missing where the stream
\* was full or there was no port yet, but nothing is repeated, and no character of one
\* message stands among those of another.  It rests on DEBUG_PORT_TX_TIMEOUT_MS, which
\* "must cover the time to shift out DEBUG_MSG_MAX_LEN bytes" (debug.c:33): after the
\* first transmission that outlasts it the code promises nothing.
LogInOrder ==
  ~timedOut => \A i \in 1..Len(portOut) - 1 :
    LET c == portOut[i] d == portOut[i + 1]
    IN  c[1] < d[1] \/ (c[1] = d[1] /\ c[2] < d[2])
=============================================================================
