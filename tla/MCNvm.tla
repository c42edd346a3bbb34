------------------------------- MODULE MCNvm -------------------------------
(***************************************************************************)
(* Requests for Nvm on five cells in pages of two: writes that start and   *)
(* end inside pages and on their boundaries and cover up to three pages,   *)
(* reads of all cells, and requests that accessNvmCell refuses.  The data  *)
(* of a write shows the order of its units.                                *)
(***************************************************************************)
EXTENDS Nvm

Write(a, n) ==
  [acc |-> "write", addr |-> a, length |-> n, data |-> [i \in 1..n |-> i % 3]]

ReadOf(a, n) == [acc |-> "read", addr |-> a, length |-> n]

SomeRequests ==
  {Write(0, 2), Write(1, 4), Write(3, 2), Write(3, 3), Write(2, 0),
   ReadOf(0, 5), ReadOf(5, 1)}
=============================================================================
