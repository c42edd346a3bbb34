----------------------------- MODULE MCSdoText -----------------------------
(* One string of eight bytes, whose text ends where the server's buffer is  *)
(* full, uploaded by segments or by blocks.                                 *)
EXTENDS Sdo

CONSTANTS label

Objects == [o \in Obj |-> <<1, 2, 3, 4, 5, 6, 0, 7>>]

Transfers ==
  {[op |-> "upload", obj |-> label, blk |-> b, ind |-> 0, data |-> <<>>] : b \in {0, 1}}
=============================================================================
