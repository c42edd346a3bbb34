----------------------------- MODULE AtomicNvm -----------------------------
(***************************************************************************)
(* What a non-volatile memory promises the tasks that share it: a read     *)
(* sees no write half done, a write that reports success is in the cells   *)
(* whole and touches no other, and one that reports failure has left the   *)
(* first so many units of its data behind.                                 *)
(***************************************************************************)
EXTENDS Integers, Sequences

CONSTANTS Task, Idle

VARIABLES cells,  \* the memory, as tasks can see it
          op,     \* each task's request, or Idle
          ret     \* each task's last result, <<>> during a request

avars == <<cells, op, ret>>

Overlay(c, a, d) ==
  [i \in DOMAIN c |-> IF a =< i /\ i < a + Len(d) THEN d[i - a + 1] ELSE c[i]]

Slice(c, a, n) == [i \in 1..n |-> c[a + i - 1]]

Return(t, res) ==
  /\ op[t] # Idle
  /\ op' = [op EXCEPT ![t] = Idle]
  /\ ret' = [ret EXCEPT ![t] = res]

AInit ==
  /\ op = [t \in Task |-> Idle]
  /\ ret = [t \in Task |-> <<>>]

ABegin(t) ==
  /\ op[t] = Idle
  /\ \A u \in Task \ {t} : op'[u] = op[u]
  /\ ret' = [ret EXCEPT ![t] = <<>>]
  /\ UNCHANGED cells

AError(t) ==
  /\ Return(t, <<"ERROR">>)
  /\ \/ UNCHANGED cells
     \/ /\ op[t].acc = "write"
        /\ \E k \in 0..Len(op[t].data) :
             cells' = Overlay(cells, op[t].addr, SubSeq(op[t].data, 1, k))

AWrite(t) ==
  /\ Return(t, <<"SUCCESS">>)
  /\ op[t].acc = "write"
  /\ cells' = Overlay(cells, op[t].addr, op[t].data)

ARead(t) ==
  /\ op[t] # Idle
  /\ op[t].acc = "read"
  /\ Return(t, <<"SUCCESS", Slice(cells, op[t].addr, op[t].length)>>)
  /\ UNCHANGED cells

(* A dummy memory starts anew.                                             *)
AClear ==
  /\ op = [t \in Task |-> Idle]
  /\ \A i \in DOMAIN cells : cells'[i] = 0
  /\ DOMAIN cells' = DOMAIN cells
  /\ UNCHANGED <<op, ret>>

ANext ==
  \/ \E t \in Task : ABegin(t) \/ AError(t) \/ AWrite(t) \/ ARead(t)
  \/ AClear

ASpec == AInit /\ [][ANext]_avars
=============================================================================
