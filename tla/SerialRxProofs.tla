--------------------------- MODULE SerialRxProofs ---------------------------
(***************************************************************************)
(* Proofs about SerialRx for every ring size, request and number of bytes, *)
(* with bytes arriving at any point of a pop.                              *)
(***************************************************************************)
EXTENDS SerialRx, SequenceTheorems, TLAPS

(* What holds inside a pop: the counter it saw cannot have been zero, and  *)
(* the value it loaded is still covered by the ring when it is stored.     *)
PopInFlight ==
  /\ pc \in InsidePop => count < requested
  /\ pc = "load" => rxCount > 0
  /\ pc = "store" => /\ loaded > 0 /\ loaded =< rxCount
                     /\ loaded =< Unread + 1

(* The last byte popped did arrive, and is the oldest one in the ring until *)
(* the tail moves past it.                                                 *)
PopsBehind ==
  /\ last =< arrived
  /\ pc = "advance" => last = rxBuffer[rxTail]

Inv ==
  TypeOK /\ CountsNeverAhead /\ RingInOrder /\ PopInFlight /\ PopsBehind

(* Moving an index of the ring by one, without the remainder.              *)
LEMMA SuccIs ==
  ASSUME NEW i \in 0..Size - 1
  PROVE  Succ(i) = IF i + 1 < Size THEN i + 1 ELSE 0
<1>1. CASE i + 1 < Size
  BY <1>1, RxAssumption DEF Succ
<1>2. CASE i + 1 = Size
  BY <1>2, RxAssumption DEF Succ
<1> QED
  BY <1>1, <1>2, RxAssumption

LEMMA UnreadType ==
  ASSUME TypeOK
  PROVE  /\ Unread \in 0..Size - 1
         /\ \A k \in 0..Size - 1 : UnreadCell(k) \in 0..Size - 1
         /\ Unread > 0 => rxHead # rxTail
BY RxAssumption DEF Unread, UnreadCell, TypeOK

LEMMA InitInv == Init => Inv
<1> SUFFICES ASSUME Init PROVE Inv
  OBVIOUS
<1> USE RxAssumption DEF Init
<1>1. TypeOK
  BY EmptySeq DEF TypeOK, InsidePop
<1>2. CountsNeverAhead /\ RingInOrder /\ PopInFlight /\ PopsBehind
  BY DEF CountsNeverAhead, RingInOrder, PopInFlight, PopsBehind, Unread, InsidePop
<1> QED
  BY <1>1, <1>2 DEF Inv

(* An arrival: the new byte is the latest, in a cell outside the unread    *)
(* ones, and every count grows with the ring.                              *)
LEMMA PushInv ==
  ASSUME Inv, _pushByteIntoRxBuffer
  PROVE  Inv'
<1> USE RxAssumption DEF Inv
<1>1. /\ rxHead' \in 0..Size - 1
      /\ rxHead' = IF rxHead + 1 < Size THEN rxHead + 1 ELSE 0
      /\ rxHead' # rxTail
  <2>1. rxHead \in 0..Size - 1
    BY DEF TypeOK
  <2>2. Succ(rxHead) = IF rxHead + 1 < Size THEN rxHead + 1 ELSE 0
    BY <2>1, SuccIs
  <2>3. rxHead' = Succ(rxHead) /\ rxHead' # rxTail
    BY DEF _pushByteIntoRxBuffer
  <2> QED
    BY ONLY <2>1, <2>2, <2>3, RxAssumption
<1>2. /\ UNCHANGED <<rxTail, reader, last, handed>>
      /\ arrived' = arrived + 1 /\ arrived' \in 1..MaxBytes
      /\ rxBuffer' = [rxBuffer EXCEPT ![rxHead] = arrived']
  BY DEF _pushByteIntoRxBuffer, ByteArrives, TypeOK
<1>3. Unread' = Unread + 1 /\ Unread \in 0..Size - 2
  BY <1>1, <1>2 DEF Unread, TypeOK
<1>4. rxCount' = rxCount + 1 /\ sema' = sema + 1
  BY <1>3, SMTT(60) DEF _pushByteIntoRxBuffer, CountsNeverAhead, TypeOK
<1>5. TypeOK'
  <2>1. accepted' \in Seq(1..MaxBytes)
    BY <1>2, AppendProperties DEF _pushByteIntoRxBuffer, TypeOK
  <2>2. raced' \in 0..1
    BY DEF _pushByteIntoRxBuffer, ByteArrives, TypeOK
  <2> QED
    BY <1>1, <1>2, <1>3, <1>4, <2>1, <2>2 DEF TypeOK, reader, CountsNeverAhead
<1>6. CountsNeverAhead' /\ PopInFlight'
  BY <1>2, <1>3, <1>4 DEF CountsNeverAhead, PopInFlight, reader, TypeOK
<1>7. RingInOrder'
  <2>1. \A k \in 0..Size - 1 : UnreadCell(k)' = UnreadCell(k)
    BY <1>2 DEF UnreadCell
  <2>2. UnreadCell(Unread) = rxHead
    BY <1>3 DEF Unread, UnreadCell, TypeOK
  <2>3. \A k \in 0..Size - 1 :
          k < Unread => /\ UnreadCell(k) # rxHead
                        /\ UnreadCell(k) \in 0..Size - 1
    BY DEF Unread, UnreadCell, TypeOK
  <2>4. \A k \in 0..Size - 1 :
          k < Unread' => rxBuffer'[UnreadCell(k)'] =
                           IF k = Unread THEN arrived' ELSE rxBuffer[UnreadCell(k)]
    <3> SUFFICES ASSUME NEW k \in 0..Size - 1, k < Unread'
                 PROVE  rxBuffer'[UnreadCell(k)'] =
                          IF k = Unread THEN arrived' ELSE rxBuffer[UnreadCell(k)]
      OBVIOUS
    <3>1. UnreadCell(k)' = UnreadCell(k)
      BY <2>1
    <3>2. DOMAIN rxBuffer = 0..Size - 1 /\ rxHead \in 0..Size - 1
      BY DEF TypeOK
    <3>3. CASE k = Unread
      BY ONLY <1>2, <2>2, <3>1, <3>2, <3>3
    <3>4. CASE k # Unread
      <4>1. k < Unread
        BY ONLY <1>3, <3>4, k < Unread', k \in 0..Size - 1
      <4> QED
        BY ONLY <1>2, <2>3, <3>1, <3>2, <3>4, <4>1, k \in 0..Size - 1
    <3> QED
      BY ONLY <3>3, <3>4
  <2>a. \A k \in 0..Size - 1 :
          k < Unread => /\ rxBuffer[UnreadCell(k)] \in 1..arrived
                        /\ pc # "advance" => last < rxBuffer[UnreadCell(k)]
    BY DEF RingInOrder
  <2>b. arrived \in Nat /\ last \in Nat /\ last =< arrived /\ pc' = pc
    BY <1>2 DEF TypeOK, PopsBehind, reader
  <2>5. \A j, k \in 0..Size - 1 :
          j < k /\ k < Unread'
            => rxBuffer'[UnreadCell(j)'] < rxBuffer'[UnreadCell(k)']
    <3> SUFFICES ASSUME NEW j \in 0..Size - 1, NEW k \in 0..Size - 1,
                        j < k, k < Unread'
                 PROVE  rxBuffer'[UnreadCell(j)'] < rxBuffer'[UnreadCell(k)']
      OBVIOUS
    <3>1. j < Unread /\ rxBuffer'[UnreadCell(j)'] = rxBuffer[UnreadCell(j)]
      BY <1>3, <2>4
    <3>2. CASE k = Unread
      BY <1>2, <1>3, <2>4, <2>a, <2>b, <3>1, <3>2
    <3>3. CASE k < Unread
      BY <1>3, <2>4, <3>1, <3>3 DEF RingInOrder
    <3> QED
      BY <1>3, <3>2, <3>3
  <2>6. \A k \in 0..Size - 1 :
          k < Unread' => /\ rxBuffer'[UnreadCell(k)'] \in 1..arrived'
                         /\ pc' # "advance" => last' < rxBuffer'[UnreadCell(k)']
    BY <1>2, <1>3, <2>4, <2>a, <2>b
  <2> QED
    BY <2>5, <2>6 DEF RingInOrder
<1>8. PopsBehind'
  <2>1. pc = "advance" => rxHead # rxTail
    BY UnreadType DEF CountsNeverAhead, TypeOK
  <2> QED
    BY <1>2, <2>1 DEF PopsBehind, TypeOK, reader
<1> QED
  BY <1>5, <1>6, <1>7, <1>8

(* Popping the oldest byte.                                                *)
LEMMA AdvanceInv ==
  ASSUME Inv, Advance
  PROVE  Inv'
<1> USE RxAssumption DEF Inv
<1>a. Unread \in 0..Size - 1
  BY UnreadType
<1>1. /\ rxTail' \in 0..Size - 1
      /\ rxTail' = IF rxTail + 1 < Size THEN rxTail + 1 ELSE 0
  BY SuccIs DEF Advance, TypeOK
<1>2. /\ UNCHANGED <<rxBuffer, rxHead, rxCount, sema, history>>
      /\ UNCHANGED <<before, requested, count, loaded, data>>
      /\ pc = "advance" /\ pc' = "load"
  BY DEF Advance, At
<1>3. Unread > 0 /\ rxCount > 0 /\ sema < Unread /\ rxCount =< Unread
  <2>1. sema \in Nat /\ rxCount \in Nat
    BY DEF TypeOK
  <2> QED
    BY <1>a, <1>2, <2>1 DEF CountsNeverAhead
<1>4. Unread' = Unread - 1
  BY <1>1, <1>2, <1>3 DEF Unread, TypeOK
<1>5. TypeOK'
  BY <1>1, <1>2 DEF TypeOK, InsidePop, history
<1>6. CountsNeverAhead' /\ PopInFlight' /\ PopsBehind'
  BY <1>a, <1>2, <1>3, <1>4
  DEF CountsNeverAhead, PopInFlight, PopsBehind, TypeOK, InsidePop, history
<1>7. \A k \in 0..Size - 1 :
        k < Unread' => /\ k + 1 \in 0..Size - 1 /\ k + 1 < Unread
                       /\ UnreadCell(k)' = UnreadCell(k + 1)
  <2>1. \A k \in 0..Size - 1 :
          k < Unread' => k + 1 \in 0..Size - 1 /\ k + 1 < Unread
    BY <1>4, UnreadType
  <2>2. \A k \in 0..Size - 1 :
          k + 1 < Size => UnreadCell(k)' = UnreadCell(k + 1)
    BY <1>1 DEF UnreadCell, TypeOK
  <2> QED
    BY <2>1, <2>2
<1>8. \A k \in 0..Size - 1 :
        k < Unread' => last < rxBuffer[UnreadCell(k + 1)]
  <2>1. last = rxBuffer[UnreadCell(0)]
    BY <1>2, <1>3 DEF PopsBehind, UnreadCell, TypeOK
  <2> QED
    BY <1>3, <1>7, <2>1 DEF RingInOrder
<1>9. RingInOrder'
  <2>1. \A j, k \in 0..Size - 1 :
          j < k /\ k < Unread'
            => rxBuffer'[UnreadCell(j)'] < rxBuffer'[UnreadCell(k)']
    <3> SUFFICES ASSUME NEW j \in 0..Size - 1, NEW k \in 0..Size - 1,
                        j < k, k < Unread'
                 PROVE  rxBuffer'[UnreadCell(j)'] < rxBuffer'[UnreadCell(k)']
      OBVIOUS
    <3>1. j < Unread' /\ j + 1 < k + 1
      BY <1>4, UnreadType
    <3> QED
      BY <1>2, <1>7, <3>1 DEF RingInOrder
  <2>2. \A k \in 0..Size - 1 :
          k < Unread' => /\ rxBuffer'[UnreadCell(k)'] \in 1..arrived'
                         /\ last' < rxBuffer'[UnreadCell(k)']
    BY <1>2, <1>7, <1>8 DEF RingInOrder, history
  <2> QED
    BY <2>1, <2>2 DEF RingInOrder
<1> QED
  BY <1>5, <1>6, <1>9

(* The steps that move neither index nor any cell: the order in the ring   *)
(* is untouched.                                                           *)
LEMMA RingKept ==
  ASSUME Inv, UNCHANGED <<rxBuffer, rxHead, rxTail, arrived, last>>,
         pc' # "advance", pc # "advance"
  PROVE  RingInOrder' /\ PopsBehind' /\ Unread' = Unread
BY DEF Inv, RingInOrder, PopsBehind, Unread, UnreadCell

LEMMA CopyInv ==
  ASSUME Inv, Copy
  PROVE  Inv'
<1> USE RxAssumption DEF Inv
<1>1. /\ UNCHANGED <<ring, before, requested, count, loaded, arrived>>
      /\ UNCHANGED <<accepted, handed>>
      /\ pc = "copy" /\ pc' = "advance" /\ last' = rxBuffer[rxTail]
      /\ raced' = raced
      /\ data' = [data EXCEPT ![count] = rxBuffer[rxTail]]
  BY DEF Copy, At
<1>2. Unread' = Unread /\ Unread > 0
  BY <1>1 DEF Unread, ring, CountsNeverAhead, TypeOK
<1>3. rxBuffer[rxTail] \in 1..arrived
  BY <1>2 DEF RingInOrder, UnreadCell, TypeOK
<1>4. TypeOK'
  BY <1>1, <1>3 DEF TypeOK, InsidePop, ring
<1>5. CountsNeverAhead' /\ PopInFlight' /\ PopsBehind'
  BY <1>1, <1>2, <1>3
  DEF CountsNeverAhead, PopInFlight, PopsBehind, TypeOK, InsidePop, ring
<1>6. RingInOrder'
  BY <1>1, <1>2 DEF RingInOrder, UnreadCell, ring
<1> QED
  BY <1>4, <1>5, <1>6

(* The other steps of the task.                                            *)
LEMMA ReaderInv ==
  ASSUME Inv, Reader, ~Copy, ~Advance
  PROVE  Inv'
<1> USE RxAssumption
    DEF Inv, TypeOK, CountsNeverAhead, PopInFlight, At, InsidePop, ring, history
<1>1. ASSUME NEW n \in 0..MaxRequest, SER_receiveData(n)
      PROVE  Inv'
  BY <1>1, RingKept, SMTT(60) DEF SER_receiveData
<1>2. CASE TakeSemaphore
  BY <1>2, RingKept, SMTT(60) DEF TakeSemaphore
<1>3. CASE Return
  <2>1. handed' \in Seq(0..MaxBytes)
    <3> DEFINE chunk == [i \in 1..count |-> data[i - 1]]
    <3>1. count \in Nat /\ chunk \in [1..count -> 0..MaxBytes]
      OBVIOUS
    <3>2. chunk \in Seq(0..MaxBytes)
      BY <3>1, SeqDef
    <3> QED
      BY <1>3, <3>2, ConcatProperties DEF Return
  <2> QED
    BY <1>3, <2>1, RingKept DEF Return
<1>4. CASE ReadBefore
  BY <1>4, RingKept DEF ReadBefore, Unread
<1>5. CASE CheckCount
  BY <1>5 DEF CheckCount, Unread, RingInOrder, UnreadCell, PopsBehind
<1>6. CASE LoadCount
  BY <1>6, RingKept, SMTT(30) DEF LoadCount, Unread
<1>7. CASE StoreCount
  BY <1>7, RingKept DEF StoreCount, Unread
<1>8. CASE CompareCount
  BY <1>8, RingKept DEF CompareCount, Unread
<1> QED
  BY <1>1, <1>2, <1>3, <1>4, <1>5, <1>6, <1>7, <1>8 DEF Reader

LEMMA DropInv ==
  ASSUME Inv, DropByte
  PROVE  Inv'
<1>1. /\ arrived \in Nat /\ arrived' = arrived + 1 /\ arrived' \in 0..MaxBytes
      /\ UNCHANGED <<ring, reader, last, accepted, handed>>
  BY RxAssumption DEF Inv, TypeOK, DropByte, ByteArrives
<1> USE <1>1 DEF Inv, ring, reader
<1>2. TypeOK'
  <2>1. raced' \in 0..1
    BY DEF DropByte, ByteArrives, TypeOK
  <2> QED
    BY <2>1 DEF TypeOK
<1>3. CountsNeverAhead' /\ PopInFlight'
  BY DEF CountsNeverAhead, PopInFlight, Unread
<1>4. PopsBehind'
  BY DEF PopsBehind, TypeOK
<1>5. RingInOrder'
  BY DEF RingInOrder, Unread, UnreadCell
<1> QED
  BY <1>2, <1>3, <1>4, <1>5

LEMMA Invariance == Spec => []Inv
<1>1. Inv /\ [Next]_vars => Inv'
  <2>1. CASE UNCHANGED vars
    BY <2>1
    DEF Inv, vars, ring, reader, history, TypeOK, CountsNeverAhead,
        PopInFlight, PopsBehind, RingInOrder, Unread, UnreadCell
  <2> QED
    BY <2>1, PushInv, DropInv, CopyInv, AdvanceInv, ReaderInv DEF Next
<1> QED
  BY <1>1, InitInv, PTL DEF Spec

(* Neither rxCount nor the semaphore ever promises a byte that is not in   *)
(* the ring, whatever the size and whenever bytes arrive.                  *)
THEOREM CountsAreSafe == Spec => []CountsNeverAhead
BY Invariance, PTL DEF Inv

(* The waiting bytes are always the latest ones, in order of arrival.      *)
THEOREM RingStaysInOrder == Spec => []RingInOrder
BY Invariance, PTL DEF Inv

(* Every pop takes a byte that arrived, later than those popped before.    *)
THEOREM PopsAreInOrder == Spec => PopsInOrder
<1>1. Inv /\ [Next]_vars => [last' # last => last < last' /\ last' =< arrived]_vars
  <2> SUFFICES ASSUME Inv, Next, last' # last
               PROVE  last < last' /\ last' =< arrived
    OBVIOUS
  <2>1. Copy
    BY DEF Next, Reader, _pushByteIntoRxBuffer, DropByte, SER_receiveData,
           TakeSemaphore, Return, ReadBefore, CheckCount, Advance, LoadCount,
           StoreCount, CompareCount, history
  <2>2. Unread > 0 /\ pc = "copy" /\ last' = rxBuffer[rxTail]
    <3>1. pc = "copy" /\ last' = rxBuffer[rxTail]
      BY <2>1 DEF Copy, At
    <3>2. TypeOK /\ CountsNeverAhead
      BY DEF Inv
    <3>3. rxCount \in Nat /\ sema \in Nat /\ Unread \in Nat
      BY <3>2, UnreadType, RxAssumption DEF TypeOK
    <3> QED
      BY ONLY <3>1, <3>2, <3>3 DEF CountsNeverAhead
  <2>3. UnreadCell(0) = rxTail /\ 0 \in 0..Size - 1
    BY RxAssumption DEF Inv, TypeOK, UnreadCell
  <2> QED
    BY <2>2, <2>3 DEF Inv, RingInOrder
<1> QED
  BY <1>1, Invariance, PTL DEF Spec, PopsInOrder

(* The interrupt writes only the cell behind the unread ones, and only the *)
(* task's move of the tail makes them fewer.                               *)
THEOREM UnreadIsKept == Spec => UnreadKept
<1> DEFINE KeepsUnread ==
      /\ \A i \in 0..Size - 1 :
           i < Unread => rxBuffer'[UnreadCell(i)] = rxBuffer[UnreadCell(i)]
      /\ Unread' < Unread => pc = "advance"
<1>1. ASSUME Inv, _pushByteIntoRxBuffer
      PROVE  KeepsUnread
  <2>1. /\ rxHead \in 0..Size - 1 /\ rxTail \in 0..Size - 1
        /\ rxBuffer \in [0..Size - 1 -> 0..MaxBytes]
    BY <1>1 DEF Inv, TypeOK
  <2>2. /\ rxHead' = IF rxHead + 1 < Size THEN rxHead + 1 ELSE 0
        /\ rxHead' # rxTail /\ rxTail' = rxTail
        /\ rxBuffer' = [rxBuffer EXCEPT ![rxHead] = arrived']
    BY <1>1, <2>1, SuccIs DEF _pushByteIntoRxBuffer
  <2>3. \A i \in 0..Size - 1 :
          i < Unread => UnreadCell(i) # rxHead /\ UnreadCell(i) \in 0..Size - 1
    BY <2>1, RxAssumption DEF Unread, UnreadCell
  <2>4. Unread' >= Unread /\ Unread' \in Int /\ Unread \in Int
    BY <2>1, <2>2, RxAssumption DEF Unread
  <2> QED
    BY <2>1, <2>2, <2>3, <2>4
<1>2. ASSUME Inv, UNCHANGED <<rxBuffer, rxHead, rxTail>>
      PROVE  KeepsUnread
  BY <1>2, UnreadType, RxAssumption DEF Inv, Unread
<1>3. ASSUME Inv, Advance
      PROVE  KeepsUnread
  BY <1>3 DEF Advance, At
<1>4. Inv /\ [Next]_vars => [KeepsUnread]_vars
  <2> SUFFICES ASSUME Inv, Next
               PROVE  KeepsUnread
    OBVIOUS
  <2>1. \/ _pushByteIntoRxBuffer \/ Advance
        \/ UNCHANGED <<rxBuffer, rxHead, rxTail>>
    BY DEF Next, Reader, DropByte, SER_receiveData, TakeSemaphore, Return,
           ReadBefore, CheckCount, Copy, LoadCount, StoreCount, CompareCount, ring
  <2> QED
    BY ONLY <2>1, <1>1, <1>2, <1>3, Inv
<1> QED
  BY <1>4, Invariance, PTL DEF Spec, UnreadKept

-----------------------------------------------------------------------------
(* Nothing is lost. The bytes accepted are, in order: those handed over,   *)
(* those popped in the present call, and those in the ring. Inside a pop   *)
(* that no arrival has interrupted, the counts are where the pop left them. *)
Popped ==
  IF pc = "idle" THEN 0
  ELSE IF pc \in {"load", "store", "compare"} THEN count + 1 ELSE count

InBuffer == [i \in 1..Popped |-> data[i - 1]]
InRing   == [i \in 1..Unread |-> rxBuffer[UnreadCell(i - 1)]]

CountsAgree ==
  /\ rxCount = Unread + (IF pc \in {"load", "store"} THEN 1 ELSE 0)
  /\ sema = Unread - (IF pc \in {"taken", "check", "copy", "advance"} THEN 1 ELSE 0)
  /\ pc \in {"check", "copy", "advance"} => before = rxCount
  /\ pc \in {"load", "store", "compare"} => before = Unread + 1
  /\ pc = "store" => loaded = rxCount
  /\ pc = "advance" => data[count] = rxBuffer[rxTail]

Kept == raced = 0 => CountsAgree /\ accepted = handed \o InBuffer \o InRing

Byte == 0..MaxBytes

LEMMA FunIsSeq ==
  ASSUME NEW S, NEW n \in Nat, NEW f \in [1..n -> S]
  PROVE  f \in Seq(S) /\ Len(f) = n
<1>1. f \in Seq(S)
  BY SeqDef
<1>2. DOMAIN f = 1..n /\ DOMAIN f = 1..Len(f) /\ Len(f) \in Nat
  BY <1>1, LenProperties
<1> QED
  BY <1>1, <1>2

(* Concatenation under a name the provers do not expand.                   *)
Cat(a, b) == a \o b

LEMMA CatAssociative ==
  ASSUME NEW S, NEW a \in Seq(S), NEW b \in Seq(S), NEW c \in Seq(S)
  PROVE  /\ Cat(a, b) \in Seq(S)
         /\ Cat(Cat(a, b), c) = Cat(a, Cat(b, c))
<1>1. a \o b \in Seq(S)
  BY ConcatProperties
<1>2. (a \o b) \o c = a \o (b \o c)
  BY ConcatAssociative, Z3
<1> QED
  BY ONLY <1>1, <1>2, Zenon DEF Cat

LEMMA LastOfThree ==
  ASSUME NEW S, NEW a \in Seq(S), NEW b \in Seq(S), NEW c \in Seq(S), NEW e \in S
  PROVE  (a \o b \o c) \o <<e>> = a \o b \o (c \o <<e>>)
<1>1. <<e>> \in Seq(S) /\ a \o b \in Seq(S)
  BY ConcatProperties
<1> QED
  BY <1>1, ConcatAssociative

Parts ==
  /\ InBuffer \in Seq(Byte) /\ Len(InBuffer) = Popped /\ Popped \in 0..MaxRequest
  /\ InRing \in Seq(Byte) /\ Len(InRing) = Unread /\ Unread \in 0..Size - 1
  /\ accepted \in Seq(Byte) /\ handed \in Seq(Byte)
  /\ rxBuffer \in [0..Size - 1 -> Byte] /\ data \in [0..MaxRequest -> Byte]

LEMMA PartsAreSeqs == Inv => Parts
<1> SUFFICES ASSUME Inv PROVE Parts
  OBVIOUS
<1> USE RxAssumption
<1>1. Popped \in 0..MaxRequest
  BY DEF Inv, TypeOK, PopInFlight, Popped, InsidePop
<1>2. data \in [0..MaxRequest -> Byte] /\ rxBuffer \in [0..Size - 1 -> Byte]
  BY DEF Inv, TypeOK, Byte
<1>3. InBuffer \in [1..Popped -> Byte]
  BY <1>1, <1>2 DEF InBuffer
<1>4. Unread \in 0..Size - 1 /\ \A k \in 0..Size - 1 : UnreadCell(k) \in 0..Size - 1
  BY UnreadType DEF Inv
<1>5. InRing \in [1..Unread -> Byte]
  <2>1. \A i \in 1..Unread : rxBuffer[UnreadCell(i - 1)] \in Byte
    <3> TAKE i \in 1..Unread
    <3>1. i - 1 \in 0..Size - 1
      BY <1>4
    <3> QED
      BY <1>2, <1>4, <3>1
  <2> QED
    BY <2>1 DEF InRing
<1>6. accepted \in Seq(1..MaxBytes) /\ handed \in Seq(Byte) /\ 1..MaxBytes \subseteq Byte
  BY DEF Inv, TypeOK, Byte
<1>7. accepted \in Seq(Byte)
  BY <1>6, SeqMonotonic
<1>8. /\ InBuffer \in Seq(Byte) /\ Len(InBuffer) = Popped
      /\ InRing \in Seq(Byte) /\ Len(InRing) = Unread
  <2>1. Popped \in Nat /\ Unread \in Nat
    BY <1>1, <1>4
  <2> QED
    BY <1>3, <1>5, <2>1, FunIsSeq
<1> QED
  BY <1>1, <1>2, <1>4, <1>6, <1>7, <1>8 DEF Parts

LEMMA InitKept == Init => Kept
<1> SUFFICES ASSUME Init PROVE Kept
  OBVIOUS
<1> USE RxAssumption
<1>1. Popped = 0 /\ Unread = 0
  BY DEF Init, Popped, Unread
<1>2. InBuffer = <<>> /\ InRing = <<>>
  BY <1>1 DEF InBuffer, InRing
<1>3. accepted = handed \o InBuffer \o InRing
  BY <1>2, EmptySeq, ConcatEmptySeq DEF Init
<1>4. CountsAgree
  BY <1>1 DEF Init, CountsAgree
<1> QED
  BY <1>3, <1>4 DEF Kept

(* An arrival between pops is added to the ring's end; one inside a pop    *)
(* sets raced.                                                             *)
LEMMA PushKept ==
  ASSUME Inv, Kept, _pushByteIntoRxBuffer
  PROVE  Kept'
<1> SUFFICES ASSUME raced' = 0
             PROVE  CountsAgree' /\ accepted' = handed' \o InBuffer' \o InRing'
  BY DEF Kept
<1> USE RxAssumption
<1>0. Parts /\ Parts'
  <2>1. Inv'
    BY PushInv
  <2> QED
    BY <2>1, PartsAreSeqs, PTL
<1>1. raced = 0 /\ pc \in {"idle", "loop"} /\ pc' = pc
  BY DEF Inv, TypeOK, _pushByteIntoRxBuffer, ByteArrives, InsidePop, reader
<1>2. /\ rxHead \in 0..Size - 1 /\ rxTail \in 0..Size - 1
      /\ rxBuffer \in [0..Size - 1 -> 0..MaxBytes]
      /\ rxCount \in 0..Size /\ sema \in 0..Size
  BY DEF Inv, TypeOK
<1>3. /\ rxHead' = IF rxHead + 1 < Size THEN rxHead + 1 ELSE 0
      /\ rxHead' # rxTail /\ rxTail' = rxTail
      /\ rxBuffer' = [rxBuffer EXCEPT ![rxHead] = arrived']
  BY <1>2, SuccIs DEF _pushByteIntoRxBuffer
<1>4. Unread' = Unread + 1 /\ Unread \in 0..Size - 2 /\ UnreadCell(Unread) = rxHead
  BY <1>2, <1>3 DEF Unread, UnreadCell
<1>5. CountsAgree'
  <2>1. rxCount = Unread /\ sema = Unread
    BY <1>1, <1>4 DEF Kept, CountsAgree
  <2>2. rxCount' = rxCount + 1 /\ sema' = sema + 1
    BY <2>1, <1>4 DEF _pushByteIntoRxBuffer
  <2> QED
    BY <1>1, <1>4, <2>1, <2>2 DEF CountsAgree
<1>6. InBuffer' = InBuffer /\ handed' = handed
  BY <1>1 DEF _pushByteIntoRxBuffer, reader, InBuffer, Popped
<1>7. arrived' \in Byte
  BY DEF Inv, TypeOK, _pushByteIntoRxBuffer, ByteArrives, Byte
<1>8. InRing' = Append(InRing, arrived')
  <2>1. \A k \in 0..Size - 1 :
          /\ UnreadCell(k)' = UnreadCell(k)
          /\ k < Unread => UnreadCell(k) # rxHead /\ UnreadCell(k) \in 0..Size - 1
    BY <1>2, <1>3 DEF Unread, UnreadCell
  <2>2. /\ InRing \in Seq(Byte) /\ Len(InRing) = Unread
        /\ Append(InRing, arrived') \in Seq(Byte)
        /\ Len(Append(InRing, arrived')) = Unread + 1
        /\ \A i \in 1..Unread : Append(InRing, arrived')[i] = InRing[i]
        /\ Append(InRing, arrived')[Unread + 1] = arrived'
    <3>1. InRing \in Seq(Byte) /\ Len(InRing) = Unread
      BY <1>0 DEF Parts
    <3> QED
      BY ONLY <1>7, <3>1, AppendProperties
  <2>3. InRing' \in Seq(Byte) /\ Len(InRing') = Unread'
    BY <1>0 DEF Parts
  <2>4. \A i \in 1..Unread + 1 : InRing'[i] = Append(InRing, arrived')[i]
    <3> SUFFICES ASSUME NEW i \in 1..Unread + 1
                 PROVE  InRing'[i] = Append(InRing, arrived')[i]
      OBVIOUS
    <3>1. i - 1 \in 0..Size - 1 /\ InRing'[i] = rxBuffer'[UnreadCell(i - 1)']
      BY <1>4 DEF InRing
    <3>2. CASE i = Unread + 1
      BY <1>2, <1>3, <1>4, <2>1, <2>2, <3>1, <3>2
    <3>3. CASE i \in 1..Unread
      <4>1. InRing[i] = rxBuffer[UnreadCell(i - 1)]
        BY <3>3 DEF InRing
      <4>2. i - 1 < Unread
        BY <1>4, <3>3
      <4> QED
        BY <1>2, <1>3, <2>1, <2>2, <3>1, <3>3, <4>1, <4>2
    <3> QED
      <4>1. i = Unread + 1 \/ i \in 1..Unread
        BY <1>4
      <4> QED
        BY <3>2, <3>3, <4>1
  <2> QED
    BY <1>4, <2>2, <2>3, <2>4, SeqEqual
<1>9. accepted' = Append(accepted, arrived')
  BY DEF _pushByteIntoRxBuffer
<1> QED
  <2>1. accepted = handed \o InBuffer \o InRing
    BY <1>1 DEF Kept
  <2>2. /\ handed \in Seq(Byte) /\ InBuffer \in Seq(Byte)
        /\ InRing \in Seq(Byte) /\ accepted \in Seq(Byte)
    BY <1>0 DEF Parts
  <2>3. /\ Append(accepted, arrived') = accepted \o <<arrived'>>
        /\ Append(InRing, arrived') = InRing \o <<arrived'>>
    BY ONLY <1>7, <2>2, AppendIsConcat
  <2>4. (handed \o InBuffer \o InRing) \o <<arrived'>>
          = handed \o InBuffer \o (InRing \o <<arrived'>>)
    BY ONLY <1>7, <2>2, LastOfThree, SMTT(30)
  <2> QED
    BY <1>5, <1>6, <1>8, <1>9, <2>1, <2>3, <2>4

(* A step that moves no byte keeps the equation of the sequences.          *)
Still == UNCHANGED <<raced, accepted, handed, InBuffer, InRing>>

LEMMA StillKept ==
  ASSUME Kept, Still, raced = 0 => CountsAgree'
  PROVE  Kept'
BY DEF Kept, Still

(* The byte of a pop that moves the tail is the first of the ring and      *)
(* becomes the last of the caller's buffer.                                *)
LEMMA AdvanceKept ==
  ASSUME Inv, Kept, Advance
  PROVE  Kept'
<1> SUFFICES ASSUME raced' = 0
             PROVE  CountsAgree' /\ accepted' = handed' \o InBuffer' \o InRing'
  BY DEF Kept
<1> USE RxAssumption
<1>0. Parts /\ Parts'
  <2>1. Inv'
    BY AdvanceInv
  <2> QED
    BY <2>1, PartsAreSeqs, PTL
<1>1. /\ raced = 0 /\ pc = "advance" /\ pc' = "load"
      /\ CountsAgree /\ accepted = handed \o InBuffer \o InRing
  BY DEF Advance, At, history, Kept
<1>2. /\ rxHead \in 0..Size - 1 /\ rxTail \in 0..Size - 1
      /\ rxCount \in 0..Size /\ sema \in 0..Size
      /\ count \in 0..MaxRequest
  BY DEF Inv, TypeOK
<1>3. /\ rxTail' = IF rxTail + 1 < Size THEN rxTail + 1 ELSE 0
      /\ UNCHANGED <<rxBuffer, rxHead, rxCount, sema, before, count, loaded>>
      /\ UNCHANGED <<data, accepted, handed>>
  BY <1>2, SuccIs DEF Advance, history
<1>4. Unread \in 0..Size - 1 /\ Unread > 0 /\ Unread' = Unread - 1
  <2>1. rxHead # rxTail
    BY <1>1, <1>2 DEF Inv, CountsNeverAhead, Unread
  <2> QED
    BY <1>2, <1>3, <2>1 DEF Unread
<1>5. CountsAgree'
  BY <1>1, <1>2, <1>3, <1>4 DEF CountsAgree
<1> DEFINE e == data[count]
<1>6. e \in Byte /\ e = rxBuffer[rxTail]
  BY <1>0, <1>1, <1>2 DEF CountsAgree, Parts
<1>7. /\ handed \in Seq(Byte)
      /\ InBuffer \in Seq(Byte) /\ Len(InBuffer) = count
      /\ InBuffer' \in Seq(Byte) /\ Len(InBuffer') = count + 1
      /\ InRing \in Seq(Byte) /\ Len(InRing) = Unread
      /\ InRing' \in Seq(Byte) /\ Len(InRing') = Unread - 1
  BY <1>0, <1>1, <1>3, <1>4 DEF Parts, Popped
<1> HIDE DEF e
<1>8. /\ <<e>> \in Seq(Byte) /\ Len(<<e>>) = 1 /\ <<e>>[1] = e
  BY <1>6
<1>9. InBuffer' = InBuffer \o <<e>>
  <2>1. \A i \in 1..count + 1 : InBuffer'[i] = data[i - 1]
    BY <1>1, <1>3 DEF InBuffer, Popped
  <2>2. \A i \in 1..count : InBuffer[i] = data[i - 1]
    BY <1>1 DEF InBuffer, Popped
  <2>3. /\ InBuffer \o <<e>> \in Seq(Byte)
        /\ Len(InBuffer \o <<e>>) = count + 1
        /\ \A i \in 1..count + 1 :
             (InBuffer \o <<e>>)[i] = IF i =< count THEN InBuffer[i] ELSE e
    BY ONLY <1>2, <1>7, <1>8, ConcatProperties, SMTT(30)
  <2>4. \A i \in 1..count + 1 : InBuffer'[i] = (InBuffer \o <<e>>)[i]
    BY ONLY <1>2, <2>1, <2>2, <2>3 DEF e
  <2> QED
    BY ONLY <1>7, <2>3, <2>4, SeqEqual
<1>10. InRing = <<e>> \o InRing'
  <2>1. \A i \in 1..Unread : InRing[i] = rxBuffer[UnreadCell(i - 1)]
    BY DEF InRing
  <2>2. \A i \in 1..Unread - 1 : InRing'[i] = rxBuffer[UnreadCell(i)]
    <3>1. \A i \in 1..Unread - 1 : UnreadCell(i - 1)' = UnreadCell(i)
      BY <1>2, <1>3, <1>4 DEF UnreadCell
    <3> QED
      BY <1>3, <1>4, <3>1 DEF InRing
  <2>3. UnreadCell(0) = rxTail
    BY <1>2 DEF UnreadCell
  <2>4. /\ <<e>> \o InRing' \in Seq(Byte)
        /\ Len(<<e>> \o InRing') = Unread
        /\ \A i \in 1..Unread :
             (<<e>> \o InRing')[i] = IF i =< 1 THEN e ELSE InRing'[i - 1]
    BY ONLY <1>4, <1>7, <1>8, ConcatProperties
  <2>5. \A i \in 1..Unread : InRing[i] = (<<e>> \o InRing')[i]
    <3> TAKE i \in 1..Unread
    <3>1. CASE i = 1
      BY <1>4, <1>6, <2>1, <2>3, <2>4, <3>1
    <3>2. CASE i # 1
      <4>1. i - 1 \in 1..Unread - 1
        BY <1>4, <3>2
      <4> QED
        BY <1>4, <2>1, <2>2, <2>4, <3>2, <4>1
    <3> QED
      BY <3>1, <3>2
  <2> QED
    BY ONLY <1>7, <2>4, <2>5, SeqEqual
<1> DEFINE one == <<e>>
<1>11. one \in Seq(Byte) /\ InBuffer' = InBuffer \o one /\ InRing = one \o InRing'
  BY <1>8, <1>9, <1>10
<1> HIDE DEF one
<1>12. accepted = handed \o InBuffer' \o InRing'
  <2>1. accepted = Cat(Cat(handed, InBuffer), InRing)
    BY <1>1 DEF Cat
  <2>2. handed \in Seq(Byte) /\ InBuffer \in Seq(Byte) /\ InRing' \in Seq(Byte)
    BY <1>7
  <2>3. InBuffer' = Cat(InBuffer, one) /\ InRing = Cat(one, InRing')
    BY <1>11 DEF Cat
  <2>4. accepted = Cat(Cat(handed, InBuffer'), InRing')
    BY ONLY <1>11, <2>1, <2>2, <2>3, CatAssociative
  <2> QED
    BY <2>4 DEF Cat
<1> QED
  BY <1>3, <1>5, <1>12

(* A call that ends hands over what it popped.                             *)
LEMMA ReturnKept ==
  ASSUME Inv, Kept, Return
  PROVE  Kept'
<1> SUFFICES ASSUME raced' = 0
             PROVE  CountsAgree' /\ accepted' = handed' \o InBuffer' \o InRing'
  BY DEF Kept
<1>1. /\ CountsAgree /\ accepted = handed \o InBuffer \o InRing
      /\ pc = "loop" /\ pc' = "idle" /\ accepted' = accepted
      /\ UNCHANGED <<rxBuffer, rxHead, rxTail, rxCount, sema>>
  BY DEF Return, At, Kept, ring
<1>2. handed' = handed \o InBuffer /\ InBuffer' = <<>> /\ InRing' = InRing
  <2>1. Popped = count /\ Popped' = 0
    BY <1>1 DEF Popped
  <2>2. InBuffer' = <<>>
    BY <2>1 DEF InBuffer
  <2>3. handed' = handed \o InBuffer
    BY <2>1 DEF Return, InBuffer
  <2> QED
    BY <1>1, <2>2, <2>3 DEF InRing, Unread, UnreadCell
<1>3. handed \o InBuffer \in Seq(Byte)
  BY PartsAreSeqs, ConcatProperties DEF Parts
<1>4. handed' \o InBuffer' = handed \o InBuffer
  BY <1>2, <1>3, ConcatEmptySeq
<1>5. CountsAgree'
  BY <1>1 DEF CountsAgree, Unread
<1> QED
  BY <1>1, <1>2, <1>4, <1>5

LEMMA NextKept ==
  ASSUME Inv, Kept, [Next]_vars
  PROVE  Kept'
<1> USE RxAssumption
<1>0. Parts
  BY PartsAreSeqs
<1>1. /\ count \in Nat /\ count =< MaxRequest /\ Unread \in Nat
      /\ rxCount \in Nat /\ sema \in Nat /\ raced \in 0..1
  BY <1>0 DEF Inv, TypeOK, Parts
<1>2. CASE _pushByteIntoRxBuffer
  BY <1>2, PushKept
<1>3. CASE DropByte
  <2> SUFFICES ASSUME raced' = 0
               PROVE  CountsAgree' /\ accepted' = handed' \o InBuffer' \o InRing'
    BY DEF Kept
  <2>1. /\ raced = 0 /\ UNCHANGED <<ring, reader, accepted, handed>>
    BY <1>1, <1>3 DEF DropByte, ByteArrives
  <2> QED
    BY <2>1 DEF Kept, CountsAgree, InBuffer, InRing, Popped, Unread, UnreadCell,
                ring, reader
<1>4. CASE \E n \in 0..MaxRequest : SER_receiveData(n)
  <2>1. Still
    <3>1. pc = "idle" /\ pc' = "loop" /\ count' = 0 /\ UNCHANGED <<ring, history>>
      BY <1>4 DEF SER_receiveData, At
    <3>2. InBuffer = <<>> /\ InBuffer' = <<>>
      BY <3>1 DEF InBuffer, Popped
    <3> QED
      BY <3>1, <3>2 DEF Still, InRing, Unread, UnreadCell, ring, history
  <2>2. raced = 0 => CountsAgree'
    BY <1>4 DEF Kept, CountsAgree, SER_receiveData, At, Unread, ring
  <2> QED
    BY <2>1, <2>2, StillKept
<1>5. CASE TakeSemaphore
  <2>1. Still
    BY <1>5 DEF TakeSemaphore, At, Still, InBuffer, InRing, Popped, Unread, UnreadCell, history
  <2>2. raced = 0 => CountsAgree'
    BY <1>1, <1>5 DEF Kept, CountsAgree, TakeSemaphore, At, Unread
  <2> QED
    BY <2>1, <2>2, StillKept
<1>6. CASE Return
  BY <1>6, ReturnKept
<1>7. CASE ReadBefore
  <2>1. Still
    BY <1>7 DEF ReadBefore, At, Still, InBuffer, InRing, Popped, Unread, UnreadCell, ring, history
  <2>2. raced = 0 => CountsAgree'
    BY <1>1, <1>7 DEF Kept, CountsAgree, ReadBefore, At, Unread, ring
  <2> QED
    BY <2>1, <2>2, StillKept
<1>8. CASE CheckCount
  <2> SUFFICES ASSUME raced = 0
               PROVE  Still /\ CountsAgree'
    BY <1>8, StillKept DEF Kept, CheckCount, history
  <2>1. CountsAgree /\ pc = "check" /\ rxCount # 0
    BY <1>1, <1>8 DEF Kept, CountsAgree, CheckCount
  <2>2. pc' = "copy" /\ UNCHANGED <<ring, before, count, loaded, data, history>>
    BY <1>8, <2>1 DEF CheckCount
  <2>3. Still
    BY <2>1, <2>2 DEF Still, InBuffer, InRing, Popped, Unread, UnreadCell, ring, history
  <2> QED
    BY <2>1, <2>2, <2>3 DEF CountsAgree, Unread, ring
<1>9. CASE Copy
  <2>1. /\ pc = "copy" /\ pc' = "advance" /\ UNCHANGED <<ring, before, count, loaded>>
        /\ data' = [data EXCEPT ![count] = rxBuffer[rxTail]]
        /\ UNCHANGED <<raced, accepted, handed>>
    BY <1>9 DEF Copy, At
  <2>2. InBuffer' = InBuffer
    <3>1. \A i \in 1..count : data'[i - 1] = data[i - 1]
      BY <1>0, <1>1, <2>1 DEF Parts
    <3> QED
      BY <1>1, <2>1, <3>1 DEF InBuffer, Popped
  <2>3. Still
    BY <2>1, <2>2 DEF Still, InRing, Unread, UnreadCell, ring
  <2>4. data'[count'] = rxBuffer'[rxTail']
    BY <1>0, <1>1, <2>1 DEF Parts, ring
  <2>5. raced = 0 => CountsAgree'
    BY <2>1, <2>4 DEF Kept, CountsAgree, Unread, ring
  <2> QED
    BY <2>3, <2>5, StillKept
<1>10. CASE Advance
  BY <1>10, AdvanceKept
<1>11. CASE LoadCount
  <2>1. Still
    BY <1>11 DEF LoadCount, At, Still, InBuffer, InRing, Popped, Unread, UnreadCell, ring, history
  <2>2. raced = 0 => CountsAgree'
    BY <1>11 DEF Kept, CountsAgree, LoadCount, At, Unread, ring
  <2> QED
    BY <2>1, <2>2, StillKept
<1>12. CASE StoreCount
  <2>1. Still
    BY <1>12 DEF StoreCount, At, Still, InBuffer, InRing, Popped, Unread, UnreadCell, history
  <2>2. raced = 0 => CountsAgree'
    BY <1>1, <1>12 DEF Kept, CountsAgree, StoreCount, At, Unread
  <2> QED
    BY <2>1, <2>2, StillKept
<1>13. CASE CompareCount
  <2> SUFFICES ASSUME raced = 0
               PROVE  Still /\ CountsAgree'
    BY <1>13, StillKept DEF Kept, CompareCount, history
  <2>1. CountsAgree /\ pc = "compare" /\ before # rxCount
    BY <1>1, <1>13 DEF Kept, CountsAgree, CompareCount, At
  <2>2. /\ pc' = "loop" /\ count' = count + 1
        /\ UNCHANGED <<ring, data, history>>
    BY <1>13, <2>1 DEF CompareCount, At
  <2>3. Still
    BY <2>1, <2>2 DEF Still, InBuffer, InRing, Popped, Unread, UnreadCell, ring, history
  <2> QED
    BY <2>1, <2>2, <2>3 DEF CountsAgree, Unread, ring
<1>14. CASE UNCHANGED vars
  BY <1>14 DEF vars, ring, reader, history, Kept, CountsAgree, InBuffer, InRing,
               Popped, Unread, UnreadCell
<1> QED
  BY ONLY [Next]_vars, <1>2, <1>3, <1>4, <1>5, <1>6, <1>7, <1>8, <1>9, <1>10,
          <1>11, <1>12, <1>13, <1>14 DEF Next, Reader

(* Kept says of every step of a pop what NothingLost says between pops.    *)
LEMMA KeptNothingLost == Inv /\ Kept => NothingLost
<1> SUFFICES ASSUME Inv, Kept, raced = 0, pc \in {"idle", "loop"}
             PROVE  /\ rxCount = Unread /\ sema = Unread
                    /\ accepted =
                         handed
                           \o (IF pc = "loop" THEN [i \in 1..count |-> data[i - 1]] ELSE <<>>)
                           \o [i \in 1..Unread |-> rxBuffer[UnreadCell(i - 1)]]
  BY DEF NothingLost
<1>1. CountsAgree /\ accepted = handed \o InBuffer \o InRing
  BY DEF Kept
<1>2. rxCount = Unread /\ sema = Unread
  BY <1>1, PartsAreSeqs DEF CountsAgree, Parts
<1>3. InBuffer = IF pc = "loop" THEN [i \in 1..count |-> data[i - 1]] ELSE <<>>
  <2>1. CASE pc = "loop"
    BY <2>1 DEF InBuffer, Popped
  <2>2. CASE pc = "idle"
    <3>1. Popped = 0
      BY <2>2 DEF Popped
    <3> QED
      BY <2>2, <3>1 DEF InBuffer
  <2> QED
    BY <2>1, <2>2
<1> QED
  BY <1>1, <1>2, <1>3 DEF InRing

(* As long as no byte arrives inside a pop, from the taking of the         *)
(* semaphore to the comparison of the counts, every byte the interrupt     *)
(* stored is with the callers, in the current call's buffer or in the      *)
(* ring, in the order of arrival, and the ring's three counts agree.  One  *)
(* that does arrive there may be lost, and so may the byte just popped.    *)
THEOREM NothingIsLost == Spec => []NothingLost
<1>1. Inv /\ Kept /\ [Next]_vars => Kept'
  BY NextKept
<1>2. Spec => []Kept
  BY <1>1, InitKept, Invariance, PTL DEF Spec
<1> QED
  BY <1>2, KeptNothingLost, Invariance, PTL
=============================================================================
