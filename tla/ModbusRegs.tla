----------------------------- MODULE ModbusRegs -----------------------------
(* The registers a Modbus master keeps of a slave, connectivity/modbus:     *)
(* the answer to a read is stored into them by mb_regWrite, a write query   *)
(* is filled from them by mb_regRead, register by register, with a pointer  *)
(* into the frame that both move on their own.  A word is two bytes, a byte *)
(* here a bit; the slave and the application are external.                  *)
EXTENDS Integers, Sequences

CONSTANTS
  Table,       \* address -> [type, read, write, validate, max]
  Queries,     \* the ranges the application asks for, <<address, count>>,
               \* which divide no long
  MaxQueries   \* bound: queries

Word == 0..3
Longs == {a \in DOMAIN Table : Table[a].type = "long"}
Size(reg) == IF reg.type = "long" THEN 2 ELSE 1

VARIABLES
  value,       \* address -> its register, a long's two words as a pair
  rxFrame, txFrame,   \* the words of the two buffers
  query,       \* <<address, count>>
  doing,       \* "idle", "mb_regWrite", "mb_regRead", "stored" or "filled"
  regToDo, frame,     \* the register and the place in the frame
  rejected,    \* ghost: a value was out of range
  queries      \* ghost: queries so far

vars == <<value, rxFrame, txFrame, query, doing, regToDo, frame, rejected, queries>>

Init ==
  /\ value = [a \in DOMAIN Table |-> IF a \in Longs THEN <<0, 0>> ELSE 0]
  /\ rxFrame = [a \in DOMAIN Table |-> 0] /\ txFrame = rxFrame
  /\ query = <<1, 0>> /\ doing = "idle"
  /\ regToDo = 0 /\ frame = 1
  /\ rejected = FALSE /\ queries = 0

\* What a register holds after these words: one flag is set or cleared, an
\* 8 bit value loses its upper byte.
Stored(reg, old, w, next) ==
  CASE reg.type = "long"  -> <<w, next>>
    [] reg.type = "byte"  -> w % 2
    [] reg.type = "flags" -> LET bit == 2 ^ (w % 2)
                             IN  IF w >= 2 THEN old + (IF (old \div bit) % 2 = 0 THEN bit ELSE 0)
                                           ELSE old - (IF (old \div bit) % 2 = 1 THEN bit ELSE 0)
    [] OTHER -> w

Ask(q, how) ==
  /\ doing \in {"idle", "stored", "filled"} /\ queries < MaxQueries
  /\ queries' = queries + 1
  /\ query' = q /\ doing' = how
  /\ regToDo' = 0 /\ frame' = 1 /\ rejected' = FALSE

\* An answer to a read arrives.
mbRxFrameParse ==
  /\ \E q \in Queries, words \in [1..2 -> Word] :
       /\ Ask(q, "mb_regWrite")
       /\ rxFrame' = [i \in DOMAIN rxFrame |-> IF i <= q[2] THEN words[1 + (i % 2)] ELSE rxFrame[i]]
  /\ UNCHANGED <<value, txFrame>>

\* A write query is sent, after the application has set a register.
mbTxGenFrame ==
  /\ \E q \in Queries, w \in Word :
       /\ Ask(q, "mb_regRead")
       /\ value' = [value EXCEPT ![q[1]] = Stored(Table[q[1]], value[q[1]], w, 3 - w)]
  /\ UNCHANGED <<rxFrame, txFrame>>

----------------------------------------------------------------------------
Reg == Table[query[1] + regToDo]

\* A flag that may not be accessed does not move the pointer.
Skipped(reg) == IF reg.type = "flags" THEN 0 ELSE Size(reg)

Move(registers, words) ==
  /\ regToDo' = regToDo + registers
  /\ frame' = frame + words

At(words, i) == IF i \in DOMAIN words THEN words[i] ELSE 0

\* The words a register is sent as; of a text the two bytes change places.
Sent(reg, val) ==
  CASE reg.type = "long" -> val
    [] reg.type = "text" -> <<2 * (val % 2) + val \div 2>>
    [] OTHER -> <<val>>

InRange(reg, val) ==
  reg.validate /\ reg.type \in {"byte", "word", "long"} =>
    IF reg.type = "long" THEN 4 * val[1] + val[2] <= reg.max ELSE val <= reg.max

WriteRegOneWord ==                                  \* mutant
  /\ doing = "mb_regWrite" /\ regToDo < query[2]
  /\ LET a == query[1] + regToDo
         new == Stored(Reg, value[a], At(rxFrame, frame), At(rxFrame, frame + 1))
     IN  IF ~Reg.write
         THEN Move(1, Skipped(Reg)) /\ UNCHANGED <<value, rejected>>
         ELSE IF ~InRange(Reg, new)
         THEN rejected' = TRUE /\ Move(1, 0) /\ UNCHANGED value
         ELSE value' = [value EXCEPT ![a] = new] /\ Move(Size(Reg), Size(Reg)) /\ UNCHANGED rejected
  /\ UNCHANGED <<rxFrame, txFrame, query, doing, queries>>

\* One turn of the loop of mb_regWrite.  A value out of range is left out and
\* the pointer stays on it.
WriteReg ==
  /\ doing = "mb_regWrite" /\ regToDo < query[2]
  /\ LET a == query[1] + regToDo
         new == Stored(Reg, value[a], At(rxFrame, frame), At(rxFrame, frame + 1))
     IN  IF ~Reg.write
         THEN Move(Size(Reg), Skipped(Reg)) /\ UNCHANGED <<value, rejected>>
         ELSE IF ~InRange(Reg, new)
         THEN rejected' = TRUE /\ Move(1, 0) /\ UNCHANGED value
         ELSE value' = [value EXCEPT ![a] = new] /\ Move(Size(Reg), Size(Reg)) /\ UNCHANGED rejected
  /\ UNCHANGED <<rxFrame, txFrame, query, doing, queries>>

\* One turn of the loop of mb_regRead: a register that may not be read leaves
\* what an earlier frame had in its place.
ReadReg ==
  /\ doing = "mb_regRead" /\ regToDo < query[2]
  /\ IF ~Reg.read
     THEN Move(1, Skipped(Reg)) /\ UNCHANGED txFrame
     ELSE LET words == Sent(Reg, value[query[1] + regToDo])
          IN  /\ txFrame' = [i \in DOMAIN txFrame |->
                               IF i - frame + 1 \in DOMAIN words THEN words[i - frame + 1]
                               ELSE txFrame[i]]
              /\ Move(Size(Reg), Size(Reg))
  /\ UNCHANGED <<value, rxFrame, query, doing, rejected, queries>>

Done ==
  /\ doing \in {"mb_regWrite", "mb_regRead"} /\ regToDo >= query[2]
  /\ doing' = IF doing = "mb_regWrite" THEN "stored" ELSE "filled"
  /\ UNCHANGED <<value, rxFrame, txFrame, query, regToDo, frame, rejected, queries>>

Next == mbRxFrameParse \/ mbTxGenFrame \/ WriteReg \/ ReadReg \/ Done

----------------------------------------------------------------------------
(* Properties *)

Starts == {a \in query[1]..query[1] + query[2] - 1 : a - 1 \notin Longs}
Place(a) == a - query[1] + 1
\* The ranges in which no skipped flag shifts the rest.
Writable == \A a \in Starts : Table[a].write \/ Table[a].type # "flags"
Readable == \A a \in Starts : Table[a].read

\* Every register of the range is stored from, and sent in, the words of its
\* own address, whatever stands before it: unless a value was out of range, a
\* flag of a range to store may not be written, or a register of a range to
\* send may not be read.  Those three branches do forget to move on.
RegsOwnWords ==
  /\ doing = "stored" /\ ~rejected /\ Writable => \A a \in Starts :
       LET w == rxFrame[Place(a)] IN
       Table[a].write => CASE Table[a].type \in {"word", "text"} -> value[a] = w
                           [] Table[a].type = "byte" -> value[a] = w % 2
                           [] Table[a].type = "long" -> value[a] = <<w, rxFrame[Place(a) + 1]>>
                           [] OTHER -> (value[a] \div 2 ^ (w % 2)) % 2 = w \div 2
  /\ doing = "filled" /\ Readable => \A a \in Starts :
       CASE Table[a].type = "long" -> <<txFrame[Place(a)], txFrame[Place(a) + 1]>> = value[a]
         [] Table[a].type = "text" -> txFrame[Place(a)] \div 2 = value[a] % 2
         [] OTHER -> txFrame[Place(a)] = value[a]

\* modbus_register_interface.c:134 "Move to the next register": the registers
\* after one whose value is out of range still get their own words.  It fails.
RejectedSkipsOwn == doing = "stored" /\ Writable => \A a \in Starts :
  Table[a].write /\ Table[a].type = "word" /\ ~Table[a].validate => value[a] = rxFrame[Place(a)]
=============================================================================
