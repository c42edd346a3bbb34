---------------------------- MODULE BoundedQueue ----------------------------
(***************************************************************************)
(* What sys/queue promises its callers: a bounded collection that hands    *)
(* its items back oldest first (FIFO) or newest first (LIFO), refuses an   *)
(* insertion when full and a removal or a look when there is no such item, *)
(* and that can be looked into from either end without changing it.        *)
(***************************************************************************)
EXTENDS Integers, Sequences

CONSTANTS Value,      \* the items callers store
          MaxLength   \* the largest capacity a caller asks for

VARIABLES items,      \* the stored items, oldest first
          capacity,   \* how many items fit
          discipline, \* 0: FIFO, 1: LIFO
          ret,        \* what the last call returned
          data        \* the caller's output cell

avars == <<items, capacity, discipline, ret, data>>

AInit ==
  /\ items = <<>>
  /\ capacity \in 0..MaxLength
  /\ discipline \in {0, 1}
  /\ ret = "PASS"

AReset(n, d) ==
  /\ items' = <<>>
  /\ capacity' = n
  /\ discipline' = d
  /\ ret' = "PASS"
  /\ data' = data

AInsert(v) ==
  /\ ret' = IF Len(items) < capacity THEN "PASS" ELSE "FAIL"
  /\ items' = IF Len(items) < capacity THEN Append(items, v) ELSE items
  /\ UNCHANGED <<capacity, discipline, data>>

ARefuse ==
  /\ ret' = "FAIL"
  /\ UNCHANGED <<items, capacity, discipline, data>>

ADelete ==
  \/ /\ items = <<>>
     /\ ARefuse
  \/ /\ items # <<>>
     /\ IF discipline = 0
          THEN data' = items[1] /\ items' = Tail(items)
          ELSE /\ data' = items[Len(items)]
               /\ items' = SubSeq(items, 1, Len(items) - 1)
     /\ ret' = "PASS"
     /\ UNCHANGED <<capacity, discipline>>

(* The n-th item counted from the end that Delete takes from (dir = 1), or *)
(* from the opposite end.                                                  *)
Nth(n, dir) ==
  IF (dir = 1) = (discipline = 0) THEN items[n + 1] ELSE items[Len(items) - n]

APeek(n, dir) ==
  \/ /\ n >= Len(items)
     /\ ARefuse
  \/ /\ n < Len(items)
     /\ data' = Nth(n, dir)
     /\ ret' = "PASS"
     /\ UNCHANGED <<items, capacity, discipline>>

ANext ==
  \/ \E n \in 0..MaxLength, d \in {0, 1} : AReset(n, d)
  \/ \E v \in Value : AInsert(v)
  \/ ADelete
  \/ \E n \in 0..MaxLength, dir \in {0, 1} : APeek(n, dir)

ASpec == AInit /\ [][ANext]_avars
=============================================================================
