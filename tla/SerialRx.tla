------------------------------ MODULE SerialRx ------------------------------
(***************************************************************************)
(* services/serial/SERIAL.c: the receive ring of an open port, filled by   *)
(* the receive interrupt (_pushByteIntoRxBuffer) and emptied by the one    *)
(* task that owns the port (SER_receiveData, _popDataFromRxBuffer); that   *)
(* there is only one is ExclusiveUse of SerialPort.                        *)
(*                                                                         *)
(* The interrupt runs as a whole between two steps of the task.  It does   *)
(* not take rxBufferMutex, so the task is split at every access to what    *)
(* they share, `rxCount--' into its load and its store included.  A byte   *)
(* is the number of its arrival; 0 is a byte nobody received.              *)
(***************************************************************************)
EXTENDS Integers, Sequences

CONSTANTS Size,          \* rxBuffSize
          MaxBytes,      \* bytes that arrive in one behaviour
          MaxRequest     \* largest requestedLength

ASSUME RxAssumption ==
  /\ Size \in Nat \ {0}
  /\ MaxBytes \in Nat
  /\ MaxRequest \in Nat

VARIABLES rxBuffer, rxHead, rxTail, rxCount,
          sema,          \* rxDataCountSema
          pc, before, requested, count,
          loaded,        \* the register of rxCount--
          data,          \* the caller's buffer
          arrived,       \* history: bytes that arrived
          raced,         \* history: 1 once one arrived while one was popped
          last,          \* history: the byte popped last
          accepted,      \* history: bytes the interrupt stored
          handed         \* history: bytes reported to callers

ring    == <<rxBuffer, rxHead, rxTail, rxCount, sema>>
reader  == <<pc, before, requested, count, loaded, data>>
history == <<arrived, raced, last, accepted, handed>>
vars    == <<ring, reader, history>>

(* Seeded fault: the index does not restart at 0.                          *)
SuccNoWrap(i) == i + 1

Succ(i) == (i + 1) % Size

Init ==
  /\ rxBuffer = [c \in 0..Size - 1 |-> 0]
  /\ rxHead = 0 /\ rxTail = 0 /\ rxCount = 0 /\ sema = 0
  /\ pc = "idle" /\ before = 0 /\ requested = 0 /\ count = 0 /\ loaded = 0
  /\ data = [i \in 0..MaxRequest |-> 0]
  /\ arrived = 0 /\ raced = 0 /\ last = 0 /\ accepted = <<>> /\ handed = <<>>

-----------------------------------------------------------------------------
(* SER_rxByteIsrCallback.  MaxBytes ends a behaviour's arrivals.           *)
InsidePop == {"taken", "check", "copy", "advance", "load", "store", "compare"}

ByteArrives ==
  /\ arrived < MaxBytes
  /\ arrived' = arrived + 1
  /\ raced' = IF pc \in InsidePop THEN 1 ELSE raced

(* Seeded fault: the interrupt does not check for a full ring.             *)
PushWhenFull ==
  /\ ByteArrives
  /\ rxBuffer' = [rxBuffer EXCEPT ![rxHead] = arrived']
  /\ rxHead' = Succ(rxHead)
  /\ rxCount' = IF rxCount < Size THEN rxCount + 1 ELSE rxCount
  /\ sema' = IF sema < Size THEN sema + 1 ELSE sema
  /\ accepted' = Append(accepted, arrived')
  /\ UNCHANGED <<rxTail, reader, last, handed>>

_pushByteIntoRxBuffer ==
  /\ ByteArrives
  /\ Succ(rxHead) # rxTail
  /\ rxBuffer' = [rxBuffer EXCEPT ![rxHead] = arrived']
  /\ rxHead' = Succ(rxHead)
  /\ rxCount' = IF rxCount < Size THEN rxCount + 1 ELSE rxCount
  /\ sema' = IF sema < Size THEN sema + 1 ELSE sema
  /\ accepted' = Append(accepted, arrived')
  /\ UNCHANGED <<rxTail, reader, last, handed>>

DropByte ==
  /\ ByteArrives
  /\ Succ(rxHead) = rxTail
  /\ UNCHANGED <<ring, reader, last, accepted, handed>>

-----------------------------------------------------------------------------
(* SER_receiveData and the pop of one byte it calls.                       *)
At(from, to) == pc = from /\ pc' = to

SER_receiveData(n) ==
  /\ At("idle", "loop")
  /\ requested' = n
  /\ count' = 0
  /\ data' = [i \in 0..MaxRequest |-> 0]
  /\ UNCHANGED <<ring, before, loaded, history>>

TakeSemaphore ==
  /\ count < requested
  /\ sema > 0
  /\ sema' = sema - 1
  /\ At("loop", "taken")
  /\ UNCHANGED <<rxBuffer, rxHead, rxTail, rxCount>>
  /\ UNCHANGED <<before, requested, count, loaded, data, history>>

(* Seeded fault: a request that times out half-way reports no byte.        *)
ReturnOnlyFull ==
  /\ count = requested \/ sema = 0
  /\ At("loop", "idle")
  /\ handed' = IF count = requested
                 THEN handed \o [i \in 1..count |-> data[i - 1]] ELSE handed
  /\ UNCHANGED <<ring, before, requested, count, loaded, data>>
  /\ UNCHANGED <<arrived, raced, last, accepted>>

(* The loop ends with a full request or with a semaphore that timed out.   *)
Return ==
  /\ count = requested \/ sema = 0
  /\ At("loop", "idle")
  /\ handed' = handed \o [i \in 1..count |-> data[i - 1]]
  /\ UNCHANGED <<ring, before, requested, count, loaded, data>>
  /\ UNCHANGED <<arrived, raced, last, accepted>>

ReadBefore ==
  /\ before' = rxCount
  /\ At("taken", "check")
  /\ UNCHANGED <<ring, requested, count, loaded, data, history>>

CheckCount ==
  /\ pc = "check"
  /\ pc' = IF rxCount = 0 THEN "compare" ELSE "copy"
  /\ UNCHANGED <<ring, before, requested, count, loaded, data, history>>

(* Seeded fault: the tail moves before the byte is copied.                 *)
CopyNext ==
  /\ data' = [data EXCEPT ![count] = rxBuffer[Succ(rxTail)]]
  /\ last' = rxBuffer[Succ(rxTail)]
  /\ At("copy", "advance")
  /\ UNCHANGED <<ring, before, requested, count, loaded>>
  /\ UNCHANGED <<arrived, raced, accepted, handed>>

Copy ==
  /\ data' = [data EXCEPT ![count] = rxBuffer[rxTail]]
  /\ last' = rxBuffer[rxTail]
  /\ At("copy", "advance")
  /\ UNCHANGED <<ring, before, requested, count, loaded>>
  /\ UNCHANGED <<arrived, raced, accepted, handed>>

Advance ==
  /\ rxTail' = Succ(rxTail)
  /\ At("advance", "load")
  /\ UNCHANGED <<rxBuffer, rxHead, rxCount, sema>>
  /\ UNCHANGED <<before, requested, count, loaded, data, history>>

LoadCount ==
  /\ loaded' = rxCount
  /\ At("load", "store")
  /\ UNCHANGED <<ring, before, requested, count, data, history>>

(* Seeded fault: the pop does not count.                                   *)
StoreUncounted ==
  /\ rxCount' = loaded
  /\ At("store", "compare")
  /\ UNCHANGED <<rxBuffer, rxHead, rxTail, sema>>
  /\ UNCHANGED <<before, requested, count, loaded, data, history>>

StoreCount ==
  /\ rxCount' = loaded - 1
  /\ At("store", "compare")
  /\ UNCHANGED <<rxBuffer, rxHead, rxTail, sema>>
  /\ UNCHANGED <<before, requested, count, loaded, data, history>>

CompareCount ==
  /\ count' = IF before # rxCount THEN count + 1 ELSE count
  /\ At("compare", "loop")
  /\ UNCHANGED <<ring, before, requested, loaded, data, history>>

Reader ==
  \/ \E n \in 0..MaxRequest : SER_receiveData(n)
  \/ TakeSemaphore \/ Return
  \/ ReadBefore \/ CheckCount \/ Copy \/ Advance
  \/ LoadCount \/ StoreCount \/ CompareCount

Next == _pushByteIntoRxBuffer \/ DropByte \/ Reader

Spec == Init /\ [][Next]_vars

-----------------------------------------------------------------------------
(* Stored bytes the task has not popped, and the cell of the i-th of them. *)
Unread ==
  IF rxHead >= rxTail THEN rxHead - rxTail ELSE rxHead - rxTail + Size

UnreadCell(i) == IF rxTail + i < Size THEN rxTail + i ELSE rxTail + i - Size

TypeOK ==
  /\ rxBuffer \in [0..Size - 1 -> 0..MaxBytes]
  /\ rxHead \in 0..Size - 1
  /\ rxTail \in 0..Size - 1
  /\ rxCount \in 0..Size
  /\ sema \in 0..Size
  /\ pc \in {"idle", "loop"} \cup InsidePop
  /\ before \in 0..Size
  /\ requested \in 0..MaxRequest
  /\ count \in 0..requested
  /\ loaded \in 0..Size
  /\ data \in [0..MaxRequest -> 0..MaxBytes]
  /\ arrived \in 0..MaxBytes
  /\ raced \in 0..1
  /\ last \in 0..MaxBytes
  /\ accepted \in Seq(1..MaxBytes)
  /\ handed \in Seq(0..MaxBytes)

(* rxCount and the semaphore may fall behind the bytes stored, since an    *)
(* arrival between the load and the store of rxCount-- is forgotten, but   *)
(* they never run ahead: a pop that sees a count finds a byte, and no      *)
(* give on the semaphore is lost because it is at its maximum.             *)
CountsNeverAhead ==
  /\ rxCount =< Unread + (IF pc \in {"load", "store"} THEN 1 ELSE 0)
  /\ sema + (IF pc \in {"taken", "check", "copy", "advance"} THEN 1 ELSE 0)
       =< Unread
  /\ pc \in {"copy", "advance"} => rxCount > 0

(* The bytes waiting in the ring, oldest first, are in order of arrival    *)
(* and later than every byte popped before.                                *)
RingInOrder ==
  /\ \A i, j \in 0..Size - 1 :
       i < j /\ j < Unread
         => rxBuffer[UnreadCell(i)] < rxBuffer[UnreadCell(j)]
  /\ \A i \in 0..Size - 1 :
       i < Unread => /\ rxBuffer[UnreadCell(i)] \in 1..arrived
                     /\ pc # "advance" => last < rxBuffer[UnreadCell(i)]

(* A pop takes a byte that did arrive, after every byte popped before it.  *)
PopsInOrder == [][last' # last => last < last' /\ last' =< arrived]_vars

(* The interrupt, which takes no lock, never writes a cell that holds a    *)
(* byte the task has not popped, one it is copying included, and never     *)
(* makes the ring look emptier: bytes leave it only where the task moves   *)
(* the tail.                                                               *)
UnreadKept ==
  [][/\ \A i \in 0..Size - 1 :
          i < Unread => rxBuffer'[UnreadCell(i)] = rxBuffer[UnreadCell(i)]
     /\ Unread' < Unread => pc = "advance"]_vars

(* As long as no byte arrives inside a pop, every byte stored is in        *)
(* exactly one place: reported to a caller, in the caller's buffer, or in  *)
(* the ring; and between calls the three counts of the ring agree.         *)
NothingLost ==
  raced = 0 /\ pc \in {"idle", "loop"} =>
    /\ rxCount = Unread /\ sema = Unread
    /\ accepted =
         handed
           \o (IF pc = "loop" THEN [i \in 1..count |-> data[i - 1]] ELSE <<>>)
           \o [i \in 1..Unread |-> rxBuffer[UnreadCell(i - 1)]]
=============================================================================
