--------------------------- MODULE MCModbusMaster ----------------------------
(* Small instances of ModbusMaster.                                        *)
EXTENDS ModbusMaster, TLC

CONSTANTS q1, q2, q3, q4, s1, s2

(* Two reads of one slave that only the address tells apart, a write of    *)
(* the same slave, and a query the other slave cannot be asked.            *)
SlaveIds == (q1 :> s1) @@ (q2 :> s1) @@ (q3 :> s1) @@ (q4 :> s2)
Types    == (q1 :> "read_holding") @@ (q2 :> "read_holding")
              @@ (q3 :> "write_holding") @@ (q4 :> "coils")
Periods  == (q1 :> "periodic") @@ (q2 :> "aperiodic")
              @@ (q3 :> "aperiodic") @@ (q4 :> "aperiodic")

(* The first two of them.                                                  *)
TwoReads == [q \in {q1, q2} |-> s1]
ReadType == [q \in {q1, q2} |-> Types[q]]
ReadPeriod == [q \in {q1, q2} |-> Periods[q]]

One  == <<s1>>
Both == <<s1, s2>>
=============================================================================
