------------------------------ MODULE MCSvar ------------------------------
(* A small application: a setting, saved and watched, which is reset with   *)
(* its module; in another module a mirror, only kept in memory, whose       *)
(* callback sets the setting, and a name.                                   *)
EXTENDS Svar

CONSTANTS setting, mirror, name, m1, m2, t1, t2

Tables == [m \in {m1, m2} |-> IF m = m1 THEN <<setting>> ELSE <<mirror, name>>]
Kinds == [v \in Var |-> IF v = name THEN "string" ELSE "number"]
Widths == [v \in Var |-> 2]
Sets == [v \in Var |-> IF v = mirror THEN {} ELSE {<<1, 1>>}]
Chained == [v \in Var |-> IF v = mirror THEN setting ELSE None]
=============================================================================
