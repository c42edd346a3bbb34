----------------------------- MODULE SerialPort -----------------------------
(***************************************************************************)
(* services/serial/SERIAL.c: who may use a serial port.  A port is opened  *)
(* and closed by setup code, acquired and released by tasks, and lends its *)
(* transmit driver and its receive ring to the task in `ownerTask'.  Each  *)
(* call is split where another task may run: between taking or giving      *)
(* ownershipMutex and writing ownerTask, and around the driver.            *)
(*                                                                         *)
(* A semaphore is external (FreeRTOS): free or held by one task; a take    *)
(* either succeeds or, while somebody holds it, times out.                 *)
(***************************************************************************)
EXTENDS Integers, FiniteSets

CONSTANTS Task,        \* the tasks that use the port
          NULL,
          Free,        \* ownershipMutex exists and nobody holds it
          MaxOpens     \* calls of SER_openPort between two SER_closePort

VARIABLES sendData,    \* port->sendData: NULL or a handler
          state,       \* port->state
          mutex,       \* ownershipMutex: NULL, Free or its holder
          owner,       \* ownerTask
          opens,       \* successful SER_openPort since the last SER_closePort
          pc           \* where each task is

vars == <<sendData, state, mutex, owner, opens, pc>>

(* What a task is doing: nothing with the port, blocked on the mutex in    *)
(* SER_acquirePort or SER_getPortOwner, between the take of the mutex and  *)
(* the write of ownerTask, between the clearing of ownerTask and the give, *)
(* holding the mutex in SER_getPortOwner, in the transmit driver, in the   *)
(* receive loop.                                                           *)
Steps == {"idle", "waiting", "wantsOwner", "acquiring", "releasing", "asking",
          "sending", "receiving"}

Init ==
  /\ sendData = NULL
  /\ state = "INVALID"
  /\ mutex = NULL
  /\ owner = NULL
  /\ opens = 0
  /\ pc = [t \in Task |-> "idle"]

Move(t, from, to) ==
  /\ pc[t] = from
  /\ pc' = [pc EXCEPT ![t] = to]

-----------------------------------------------------------------------------
(* Setup code.                                                             *)
SER_registerHandlers ==
  /\ sendData' = "handler"
  /\ UNCHANGED <<state, mutex, owner, opens, pc>>

(* state is only ever SERIAL_PORT_INVALID, so the first check never        *)
(* rejects; a port that is open gets a second, free, ownershipMutex.       *)
(* MaxOpens bounds how often the caller opens without closing.             *)
SER_openPort ==
  /\ opens < MaxOpens
  /\ state = "INVALID"
  /\ sendData # NULL
  /\ state' = "INVALID"
  /\ \/ /\ mutex' = Free
        /\ opens' = opens + 1
        /\ UNCHANGED sendData
     \/ /\ mutex' = NULL   \* a semaphore could not be created: SER_closePort
        /\ opens' = 0
        /\ sendData' = NULL
  /\ UNCHANGED <<owner, pc>>

(* Seeded fault: the owner is reset from the wrong field.                  *)
SER_closePortWrongField ==
  /\ mutex = Free
  /\ \A t \in Task : pc[t] = "idle"
  /\ mutex' = NULL
  /\ state' = "INVALID"
  /\ sendData' = NULL
  /\ opens' = 0
  /\ owner' = mutex
  /\ UNCHANGED pc

(* The caller closes a port nobody uses; ownerTask is not reset.           *)
SER_closePort ==
  /\ mutex = Free
  /\ \A t \in Task : pc[t] = "idle"
  /\ mutex' = NULL
  /\ state' = "INVALID"
  /\ sendData' = NULL
  /\ opens' = 0
  /\ UNCHANGED <<owner, pc>>

-----------------------------------------------------------------------------
(* xSemaphoreTake of ownershipMutex: block, then get it or time out.       *)
Block(t, from, at) ==
  /\ mutex # NULL
  /\ Move(t, from, at)
  /\ UNCHANGED <<sendData, state, mutex, owner, opens>>

Take(t, from, to) ==
  /\ mutex = Free
  /\ mutex' = t
  /\ Move(t, from, to)
  /\ UNCHANGED <<sendData, state, owner, opens>>

Timeout(t) ==
  /\ mutex # Free
  /\ Move(t, "waiting", "idle") \/ Move(t, "wantsOwner", "idle")
  /\ UNCHANGED <<sendData, state, mutex, owner, opens>>

(* SER_acquirePort: take the mutex, then sign as the owner.  The owner may *)
(* call it again: the mutex is not recursive, so that call times out.      *)
AcquireWait(t) == Block(t, "idle", "waiting")
AcquireTake(t) == Take(t, "waiting", "acquiring")

AcquireSign(t) ==
  /\ owner' = t
  /\ Move(t, "acquiring", "idle")
  /\ UNCHANGED <<sendData, state, mutex, opens>>

(* Seeded fault: the mutex is given while ownerTask still names the task.  *)
ReleaseKeepsOwner(t) ==
  /\ owner = t
  /\ Move(t, "idle", "releasing")
  /\ UNCHANGED <<sendData, state, mutex, owner, opens>>

(* SER_releasePort: only the owner's call has an effect.                   *)
ReleaseClear(t) ==
  /\ owner = t
  /\ owner' = NULL
  /\ Move(t, "idle", "releasing")
  /\ UNCHANGED <<sendData, state, mutex, opens>>

ReleaseGive(t) ==
  /\ mutex' = Free
  /\ Move(t, "releasing", "idle")
  /\ UNCHANGED <<sendData, state, owner, opens>>

(* SER_getPortOwner borrows the mutex to read ownerTask.                   *)
AskWait(t) == Block(t, "idle", "wantsOwner")
AskTake(t) == Take(t, "wantsOwner", "asking")

(* Seeded fault: one return path of SER_getPortOwner keeps the mutex.      *)
AskForgets(t) ==
  /\ Move(t, "asking", "idle")
  /\ UNCHANGED <<sendData, state, mutex, owner, opens>>

AskGive(t) ==
  /\ mutex' = Free
  /\ Move(t, "asking", "idle")
  /\ UNCHANGED <<sendData, state, owner, opens>>

(* Seeded fault: SER_sendData does not look at ownerTask.                  *)
SendUnchecked(t) ==
  /\ sendData # NULL
  /\ Move(t, "idle", "sending")
  /\ UNCHANGED <<sendData, state, mutex, owner, opens>>

(* SER_sendData and SER_receiveData check ownerTask once, on entry; the    *)
(* other outcome is GSG_BUSY.                                              *)
SendBegin(t) ==
  /\ sendData # NULL
  /\ owner = t
  /\ Move(t, "idle", "sending")
  /\ UNCHANGED <<sendData, state, mutex, owner, opens>>

ReceiveBegin(t) ==
  /\ owner = t
  /\ Move(t, "idle", "receiving")
  /\ UNCHANGED <<sendData, state, mutex, owner, opens>>

UseEnd(t) ==
  /\ Move(t, "sending", "idle") \/ Move(t, "receiving", "idle")
  /\ UNCHANGED <<sendData, state, mutex, owner, opens>>

TaskStep(t) ==
  \/ Timeout(t)
  \/ AcquireWait(t) \/ AcquireTake(t) \/ AcquireSign(t)
  \/ ReleaseClear(t) \/ ReleaseGive(t)
  \/ AskWait(t) \/ AskTake(t) \/ AskGive(t)
  \/ SendBegin(t) \/ ReceiveBegin(t) \/ UseEnd(t)

Next ==
  \/ SER_registerHandlers
  \/ SER_openPort
  \/ SER_closePort
  \/ \E t \in Task : TaskStep(t)

Spec == Init /\ [][Next]_vars

-----------------------------------------------------------------------------
Using == {"sending", "receiving"}
Holding == {"acquiring", "releasing", "asking"}

TypeOK ==
  /\ sendData \in {NULL, "handler"}
  /\ state = "INVALID"
  /\ mutex \in Task \cup {NULL, Free}
  /\ owner \in Task \cup {NULL}
  /\ opens \in 0..MaxOpens
  /\ pc \in [Task -> Steps]

(* The signature and the lock agree although they are written in separate  *)
(* steps: a task named by ownerTask holds ownershipMutex.                  *)
OwnerHoldsMutex == \A t \in Task : owner = t => mutex = t

(* Two tasks are never inside the port's driver or ring together, although *)
(* SER_sendData and SER_receiveData only look at ownerTask on entry.       *)
ExclusiveUse ==
  \A t, u \in Task : pc[t] \in Using /\ pc[u] \in Using => t = u

(* Whoever holds the mutex will be able to give it back: it is signed as   *)
(* the owner or about to sign or give.                                     *)
NoOrphanLock ==
  \A t \in Task : mutex = t => owner = t \/ pc[t] \in Holding

(* SERIAL.c:11 "Port already open": opening an open port is rejected.      *)
OpenedOnce == opens =< 1
=============================================================================
