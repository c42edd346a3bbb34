------------------------------- MODULE MCSdo -------------------------------
(* Two numbers, one small enough to be expedited, and a string; downloads   *)
(* and uploads of each, by segments and by blocks.                          *)
EXTENDS Sdo

CONSTANTS small, large, label

Objects == [o \in Obj |-> IF o = small THEN <<1>> ELSE IF o = large THEN <<1, 2, 3, 4, 5, 6, 7, 8, 9>>
                          ELSE <<4, 5, 0, 6>>]

Get(o, b) == [op |-> "upload", obj |-> o, blk |-> b, ind |-> 0, data |-> <<>>]
Put(o, b, n, d) == [op |-> "download", obj |-> o, blk |-> b, ind |-> n, data |-> d]

Transfers ==
  {Get(large, 0), Get(large, 1), Get(label, 0), Get(label, 1), Get(small, 0),
   Put(small, 0, 1, <<9>>), Put(small, 0, 0, <<2>>), 
   Put(large, 0, 0, <<5, 6, 7, 8, 9, 4, 3, 2, 1>>), Put(large, 1, 9, <<4, 3, 2, 1, 9, 8, 7, 6, 5>>),
   Put(large, 0, 4, <<5, 6, 7, 8>>), Put(label, 1, 0, <<7, 8, 9>>)}

ASSUME TransfersFit == \A j \in Jobs : j.op = "download" => Fitting(j)

ASSUME TextsAreRead == TextsFit
=============================================================================
