------------------------------ MODULE SysQueue ------------------------------
(***************************************************************************)
(* sys/queue/sys_queue.c: a queue object over a caller's buffer of equal   *)
(* units, used as a ring (FIFO) or as a stack (LIFO).  A unit is one value *)
(* of `buffer'; the bytes of a unit appear only where _QUE_Peek computes a *)
(* byte offset in a uint16_t.  `buffer' is the memory from the caller's    *)
(* pointer on: the cells from `length' on belong to somebody else.         *)
(***************************************************************************)
EXTENDS Integers, Sequences

CONSTANTS Value,      \* the units callers store
          Zero,       \* a unit whose bytes are all 0x00
          Torn,       \* a unit read across two cells
          MaxLength,  \* the largest length given to QUE_Init
          UnitSize    \* unit_size

VARIABLES buffer, length, count, todo, done, type,
          ret,        \* what the last call returned
          data        \* the unit behind the caller's `data' pointer

vars == <<buffer, length, count, todo, done, type, ret, data>>

Cells == 0..MaxLength   \* one cell past the largest queue, to see an overrun
Unit  == Value \cup {Zero, Torn}

(* QUE_Init does not clear the buffer, so it may hold anything.            *)
Init ==
  /\ buffer \in [Cells -> Value \cup {Zero}]
  /\ length \in 0..MaxLength
  /\ type \in {0, 1}
  /\ count = 0
  /\ todo = 0
  /\ done = 0
  /\ ret = "PASS"
  /\ data = Zero

QUE_Init(len, typ) ==
  /\ length' = len
  /\ type' = typ
  /\ count' = 0
  /\ todo' = 0
  /\ done' = 0
  /\ ret' = "PASS"
  /\ UNCHANGED <<buffer, data>>

Fail ==
  /\ ret' = "FAIL"
  /\ UNCHANGED <<buffer, length, count, todo, done, type, data>>

(* An index one past the end restarts at 0.                                *)
Wrap(i) == IF i = length THEN 0 ELSE i

(* Seeded fault: the guard admits one item too many.                       *)
InsertOneTooMany(v) ==
  \/ /\ count =< length
     /\ buffer' = [buffer EXCEPT ![todo] = v]
     /\ count' = count + 1
     /\ todo' = IF type = 0 THEN Wrap(todo + 1) ELSE todo + 1
     /\ ret' = "PASS"
     /\ UNCHANGED <<length, done, type, data>>
  \/ /\ count > length
     /\ Fail

Insert(v) ==
  \/ /\ count < length
     /\ buffer' = [buffer EXCEPT ![todo] = v]
     /\ count' = count + 1
     /\ todo' = IF type = 0 THEN Wrap(todo + 1) ELSE todo + 1
     /\ ret' = "PASS"
     /\ UNCHANGED <<length, done, type, data>>
  \/ /\ count = length
     /\ Fail

(* Seeded fault: nothing checks that there is an item.                     *)
TakeFromUnchecked(cell) ==
  /\ count' = count - 1
  /\ data' = buffer[cell]
  /\ buffer' = [buffer EXCEPT ![cell] = Zero]
  /\ ret' = "PASS"
  /\ UNCHANGED <<length, type>>

TakeFrom(cell) ==
  /\ count > 0
  /\ count' = count - 1
  /\ data' = buffer[cell]
  /\ buffer' = [buffer EXCEPT ![cell] = Zero]
  /\ ret' = "PASS"
  /\ UNCHANGED <<length, type>>

DeleteFifo ==
  /\ type = 0
  /\ TakeFrom(done)
  /\ done' = Wrap(done + 1)
  /\ UNCHANGED todo

(* Seeded fault: a pop reads below the top but leaves the top in place.    *)
DeleteLifoKeepsTop ==
  /\ type = 1
  /\ TakeFrom(todo - 1)
  /\ UNCHANGED <<todo, done>>

DeleteLifo ==
  /\ type = 1
  /\ TakeFrom(todo - 1)
  /\ todo' = todo - 1
  /\ UNCHANGED done

Delete ==
  \/ DeleteFifo
  \/ DeleteLifo
  \/ /\ count = 0
     /\ Fail

-----------------------------------------------------------------------------
(* _QUE_Peek.  The two while loops step an index nth times around the ring; *)
(* nth < count =< length, so each wraps at most once.                      *)
StepForward(nth) ==
  IF done + nth >= length THEN done + nth - length ELSE done + nth

(* Seeded fault: no wrap-around on the way back.                           *)
StepBackNoWrap(nth) == (IF todo # 0 THEN todo ELSE length) - nth - 1

StepBack(nth) ==
  LET ptr == IF todo # 0 THEN todo ELSE length
  IN  (IF ptr - nth > 0 THEN ptr - nth ELSE ptr - nth + length) - 1

PeekCell(nth, dir) ==
  IF type = 0
    THEN IF dir = 1 THEN StepForward(nth) ELSE StepBack(nth)
    ELSE IF dir = 1 THEN todo - nth - 1 ELSE nth

(* offset is a uint16_t, the product is not.                               *)
PeekOffset(nth, dir) == (PeekCell(nth, dir) * UnitSize) % 65536

(* The unit that starts at a byte offset.                                  *)
UnitAt(offset) ==
  IF \E c \in Cells : c * UnitSize = offset
    THEN buffer[CHOOSE c \in Cells : c * UnitSize = offset]
    ELSE Torn

(* Of an nth below 0, which the code does not refuse (line 146), nothing   *)
(* is said.                                                                *)
Peek(nth, dir) ==
  \/ /\ nth < count
     /\ data' = UnitAt(PeekOffset(nth, dir))
     /\ ret' = "PASS"
     /\ UNCHANGED <<buffer, length, count, todo, done, type>>
  \/ /\ nth >= count
     /\ Fail

Next ==
  \/ \E len \in 0..MaxLength, typ \in {0, 1} : QUE_Init(len, typ)
  \/ \E v \in Value : Insert(v)
  \/ Delete
  \/ \E nth \in 0..MaxLength, dir \in {0, 1} : Peek(nth, dir)

Spec == Init /\ [][Next]_vars

-----------------------------------------------------------------------------
(* The cell of the i-th oldest item.                                       *)
Slot(i) ==
  IF type = 1 THEN i - 1
  ELSE IF done + i - 1 < length THEN done + i - 1 ELSE done + i - 1 - length

Items == [i \in 1..count |-> buffer[Slot(i)]]

Abs == INSTANCE BoundedQueue
         WITH items <- Items, capacity <- length, discipline <- type

(* Every variable holds a value of its C type and the counters stay inside *)
(* the buffer.                                                             *)
TypeOK ==
  /\ buffer \in [Cells -> Unit]
  /\ length \in 0..MaxLength
  /\ type \in {0, 1}
  /\ count \in 0..length
  /\ todo \in 0..length
  /\ done \in 0..length
  /\ ret \in {"PASS", "FAIL"}
  /\ data \in Unit

(* The three counters _QUE_Insert and _QUE_Delete update independently     *)
(* agree: in a ring, todo is count cells after done; in a stack, todo is   *)
(* the height and done is never used.                                      *)
IndexesAgree ==
  /\ type = 0 /\ length > 0 =>
       /\ done < length
       /\ todo = IF done + count < length THEN done + count
                                         ELSE done + count - length
  /\ type = 1 => done = 0 /\ todo = count

(* Memory after the buffer is never written, by any sequence of calls and  *)
(* re-initialisations with shorter or longer lengths.                      *)
NoOverrun ==
  [][\A c \in Cells : c >= length => buffer'[c] = buffer[c]]_vars

(* The object behaves as the bounded FIFO or LIFO of BoundedQueue, every   *)
(* result and every unit handed out included, those of _QUE_Peek from      *)
(* either end too.                                                         *)
Refines == Abs!ASpec
=============================================================================
