----------------------------- MODULE NvmProofs -----------------------------
(***************************************************************************)
(* Proofs about Nvm for any tasks, device and page size.  The core is the  *)
(* lemma that a chunk never leaves its page, so that the chip's wrap-      *)
(* around never shows; from it follows what memory holds between chunks,   *)
(* and from that the refinement.                                           *)
(***************************************************************************)
EXTENDS Nvm, TLAPS

LEMMA InPage ==
  ASSUME NEW a \in Nat, NEW i \in Nat, i < ToBoundary(a)
  PROVE  ((a \div pageSize) * pageSize) + ((a + i) % pageSize) = a + i
  BY NvmAssumption DEF ToBoundary

LEMMA BoundaryAhead ==
  ASSUME NEW a \in Nat
  PROVE  ToBoundary(a) \in Nat /\ ToBoundary(a) > 0
  BY NvmAssumption DEF ToBoundary

-----------------------------------------------------------------------------
(* What the holder of the mutex knows: its request is one that             *)
(* accessNvmCell accepted, and it has written or read as far as it counts. *)
Holds(t) ==
  /\ op[t] \in Requests
  /\ Valid(op[t])
  /\ op[t].acc = "write" => /\ written =< op[t].length
                            /\ got = <<>>
  /\ op[t].acc = "read" =>
       /\ written = 0
       /\ got = <<>> \/ got = Atomic!Slice(settled, op[t].addr, op[t].length)

Inv ==
  /\ TypeOK
  /\ WriteInProgress
  /\ \A t \in Task : mutex = t => Holds(t)
  /\ mutex = Free => written = 0 /\ got = <<>>

(* The holder's request, taken apart.                                      *)
LEMMA HolderWrites ==
  ASSUME Inv, NEW t \in Task, mutex = t, op[t].acc = "write"
  PROVE  /\ op[t].addr \in Nat /\ op[t].length \in Nat
         /\ op[t].addr + op[t].length =< Size
         /\ op[t].data \in Seq(Nat) /\ Len(op[t].data) = op[t].length
         /\ written \in Nat /\ written =< op[t].length
         /\ mem = Atomic!Overlay(settled, op[t].addr, SubSeq(op[t].data, 1, written))
  BY NvmAssumption DEF Inv, TypeOK, WriteInProgress, Holds, Valid, endAddress

(* The chip wraps no unit of a transfer of n units to address a.           *)
Straight(a, n) == \A i \in 0..n - 1 : Target(a, i) = a + i

LEMMA ChunkFits ==
  ASSUME Inv, NEW t \in Task, Writing(t)
  PROVE  /\ writeLength(t) \in Nat /\ writeLength(t) > 0
         /\ written + writeLength(t) =< op[t].length
         /\ Straight(writeAddress(t), writeLength(t))
<1>1. /\ op[t].addr \in Nat /\ op[t].length \in Nat
      /\ written \in Nat /\ written =< op[t].length
  BY HolderWrites DEF Writing
<1>2. remainingLength(t) \in Nat /\ remainingLength(t) > 0
      /\ writeAddress(t) \in Nat
  BY <1>1 DEF Writing, remainingLength, writeAddress
<1>3. ToBoundary(writeAddress(t)) \in Nat /\ ToBoundary(writeAddress(t)) > 0
  BY <1>2, BoundaryAhead
<1>4. writeLength(t) \in Nat /\ writeLength(t) > 0
      /\ writeLength(t) =< remainingLength(t)
  BY <1>2, <1>3 DEF writeLength
<1>5. device.kind = "paged" => writeLength(t) =< ToBoundary(writeAddress(t))
  BY <1>2, <1>3 DEF writeLength, Inv, TypeOK, Devices
<1>6. ASSUME NEW i \in 0..writeLength(t) - 1
      PROVE  Target(writeAddress(t), i) = writeAddress(t) + i
  <2>1. i \in Nat /\ i < writeLength(t)
    BY <1>4
  <2>2. CASE device.kind = "paged"
    BY <2>1, <2>2, <1>2, <1>3, <1>4, <1>5, InPage DEF Target
  <2>3. CASE device.kind # "paged"
    BY <2>3 DEF Target
  <2> QED  BY <2>2, <2>3
<1> QED  BY <1>1, <1>4, <1>6 DEF remainingLength, Straight

(* The first k units of d laid over s at address a, cell by cell.          *)
LaidUnit(x, a, d, k, c) == IF a =< c /\ c < a + k THEN d[c - a + 1] ELSE x

Laid(s, a, d, k) == [c \in Cells |-> LaidUnit(s[c], a, d, k, c)]

LEMMA OverlayPrefix ==
  ASSUME NEW s \in [Cells -> Nat], NEW d \in Seq(Nat), NEW a \in Nat,
         NEW k \in Nat, k =< Len(d)
  PROVE  Atomic!Overlay(s, a, SubSeq(d, 1, k)) = Laid(s, a, d, k)
<1>1. /\ Len(SubSeq(d, 1, k)) = k
      /\ \A i \in 1..k : SubSeq(d, 1, k)[i] = d[i]
  OBVIOUS
<1>2. ASSUME NEW c \in Cells, a =< c, c < a + k
      PROVE  SubSeq(d, 1, k)[c - a + 1] = d[c - a + 1]
  <2>1. c - a + 1 \in 1..k
    BY <1>2, NvmAssumption DEF Cells
  <2> QED  BY <2>1, <1>1
<1>3. DOMAIN s = Cells
  OBVIOUS
<1> HIDE DEF Cells
<1>4. Atomic!Overlay(s, a, SubSeq(d, 1, k)) =
        [c \in Cells |-> IF a =< c /\ c < a + k
                           THEN SubSeq(d, 1, k)[c - a + 1] ELSE s[c]]
  BY <1>1, <1>3 DEF Atomic!Overlay
<1> QED  BY <1>2, <1>4, Zenon DEF Laid, LaidUnit

(* What a transfer of n units to address a leaves in cell c, which held m. *)
Landed(m, a, d, w, n, c) ==
  IF \E i \in 0..n - 1 : Target(a, i) = c
    THEN d[w + 1 + (CHOOSE i \in 0..n - 1 :
                      /\ Target(a, i) = c
                      /\ \A j \in 0..n - 1 : Target(a, j) = c => j =< i)]
    ELSE m

(* The units of one transfer, each at its target, on top of the units      *)
(* written before it.                                                      *)
LEMMA UnitsLand ==
  ASSUME NEW d, NEW x, NEW a \in Nat, NEW w \in Nat, NEW n \in Nat,
         Straight(a + w, n),
         NEW c \in Int
  PROVE  Landed(LaidUnit(x, a, d, w, c), a + w, d, w, n, c)
           = LaidUnit(x, a, d, w + n, c)
<1> USE DEF Landed, LaidUnit, Straight
<1> DEFINE P(i) == Target(a + w, i) = c /\ \A j \in 0..n - 1 : Target(a + w, j) = c => j =< i
<1>1. CASE \E i \in 0..n - 1 : Target(a + w, i) = c
  <2>1. PICK i \in 0..n - 1 : Target(a + w, i) = c
    BY <1>1
  <2>2. c = a + w + i
    BY <2>1
  <2>3. \A j \in 0..n - 1 : Target(a + w, j) = c <=> j = i
    BY <2>2
  <2>4. (CHOOSE k \in 0..n - 1 : P(k)) = i
    <3>1. P(i) /\ \A k \in 0..n - 1 : P(k) => k = i
      BY <2>1, <2>3
    <3> HIDE DEF P
    <3> QED  BY <3>1, <2>1
  <2>5. w + 1 + i = c - a + 1 /\ a =< c /\ c < a + (w + n)
    BY <2>2
  <2> QED  BY <1>1, <2>4, <2>5
<1>2. CASE ~\E i \in 0..n - 1 : Target(a + w, i) = c
  <2>1. ~(a + w =< c /\ c < a + w + n)
    <3>1. SUFFICES ASSUME a + w =< c, c < a + w + n PROVE FALSE
      OBVIOUS
    <3>2. c - (a + w) \in 0..n - 1 /\ a + w + (c - (a + w)) = c
      BY <3>1
    <3> QED  BY <3>2, <1>2
  <2>2. (a =< c /\ c < a + w) <=> (a =< c /\ c < a + (w + n))
    BY <2>1
  <2> QED  BY <1>2, <2>2
<1> QED  BY <1>1, <1>2

(* One transfer extends what is written by its chunk.                      *)
LEMMA ChunkExtends ==
  ASSUME Inv, NEW t \in Task, Writing(t)
  PROVE  Transferred(t) =
           Atomic!Overlay(settled, op[t].addr,
                          SubSeq(op[t].data, 1, written + writeLength(t)))
<1>1. /\ op[t].addr \in Nat /\ op[t].length \in Nat
      /\ op[t].data \in Seq(Nat) /\ Len(op[t].data) = op[t].length
      /\ written \in Nat /\ written =< op[t].length
      /\ mem = Atomic!Overlay(settled, op[t].addr, SubSeq(op[t].data, 1, written))
  BY HolderWrites DEF Writing
<1>2. /\ writeLength(t) \in Nat /\ written + writeLength(t) =< op[t].length
      /\ Straight(op[t].addr + written, writeLength(t))
  BY ChunkFits DEF writeAddress
<1>3. settled \in [Cells -> Nat]
  BY DEF Inv, TypeOK
<1>a. written =< Len(op[t].data) /\ written + writeLength(t) =< Len(op[t].data)
  BY <1>1, <1>2
<1>b. /\ op[t].data \in Seq(Nat) /\ op[t].addr \in Nat
      /\ written \in Nat /\ written + writeLength(t) \in Nat
  BY <1>1, <1>2
<1>4. mem = Laid(settled, op[t].addr, op[t].data, written)
  BY <1>1, <1>3, <1>a, <1>b, OverlayPrefix
<1>5. written + writeLength(t) \in Nat
  BY <1>1, <1>2
<1>6. Atomic!Overlay(settled, op[t].addr,
                     SubSeq(op[t].data, 1, written + writeLength(t)))
        = Laid(settled, op[t].addr, op[t].data, written + writeLength(t))
  BY <1>3, <1>a, <1>b, OverlayPrefix
<1>7. ASSUME NEW c \in Cells
      PROVE  Landed(mem[c], op[t].addr + written, op[t].data, written,
                    writeLength(t), c)
             = LaidUnit(settled[c], op[t].addr, op[t].data,
                        written + writeLength(t), c)
  <2>1. mem[c] = LaidUnit(settled[c], op[t].addr, op[t].data, written, c)
    BY <1>4 DEF Laid
  <2>2. c \in Int
    BY DEF Cells
  <2> QED  BY <1>1, <1>2, <2>1, <2>2, UnitsLand
<1>8. Transferred(t) =
        [c \in Cells |-> Landed(mem[c], op[t].addr + written, op[t].data,
                                written, writeLength(t), c)]
  BY DEF Transferred, writeAddress, Landed
<1> QED  BY <1>6, <1>7, <1>8 DEF Laid

LEMMA LaidUnitTyped ==
  ASSUME NEW x \in Nat, NEW d \in Seq(Nat), NEW a \in Nat, NEW k \in Nat,
         k =< Len(d), NEW c \in Int
  PROVE  LaidUnit(x, a, d, k, c) \in Nat
<1>1. CASE a =< c /\ c < a + k
  <2>1. c - a + 1 \in 1..Len(d)
    BY <1>1
  <2> QED  BY <1>1, <2>1 DEF LaidUnit
<1> QED  BY <1>1 DEF LaidUnit

(* So memory keeps its type.                                               *)
LEMMA ChunkTyped ==
  ASSUME Inv, NEW t \in Task, Writing(t)
  PROVE  Transferred(t) \in [Cells -> Nat]
<1>1. /\ op[t].addr \in Nat /\ op[t].length \in Nat
      /\ op[t].data \in Seq(Nat) /\ Len(op[t].data) = op[t].length
      /\ written \in Nat
  BY HolderWrites DEF Writing
<1>2. writeLength(t) \in Nat /\ written + writeLength(t) =< op[t].length
  BY ChunkFits
<1>3. settled \in [Cells -> Nat]
  BY DEF Inv, TypeOK
<1>4. Transferred(t) =
        Laid(settled, op[t].addr, op[t].data, written + writeLength(t))
  <2>1. /\ written + writeLength(t) \in Nat
        /\ written + writeLength(t) =< Len(op[t].data)
    BY <1>1, <1>2
  <2> QED  BY <1>1, <1>3, <2>1, ChunkExtends, OverlayPrefix
<1>5. ASSUME NEW c \in Cells
      PROVE  LaidUnit(settled[c], op[t].addr, op[t].data,
                      written + writeLength(t), c) \in Nat
  <2>1. c \in Int /\ settled[c] \in Nat
    BY <1>3 DEF Cells
  <2>2. /\ written + writeLength(t) \in Nat
        /\ written + writeLength(t) =< Len(op[t].data)
    BY <1>1, <1>2
  <2> QED  BY <1>1, <2>1, <2>2, LaidUnitTyped
<1> QED  BY <1>4, <1>5 DEF Laid

-----------------------------------------------------------------------------
LEMMA Initially == Init => Inv
<1> SUFFICES ASSUME Init PROVE Inv
  OBVIOUS
<1>1. Zeros \in [Cells -> Nat]
  BY DEF Zeros
<1>2. \A t \in Task : mutex # t
  BY NvmAssumption DEF Init
<1>3. TypeOK
  BY <1>1, <1>2 DEF Init, TypeOK
<1>4. WriteInProgress
  BY <1>2 DEF Init, WriteInProgress
<1> QED  BY <1>2, <1>3, <1>4 DEF Init, Inv

(* The steps before the lock and without it leave the holder alone.        *)
LEMMA OutsideLock ==
  ASSUME Inv,
         \/ NVM_Init \/ NVM_DeInit
         \/ \E t \in Task : Refuse(t) \/ \E r \in Requests : Begin(t, r)
  PROVE  Inv'
<1>1. CASE NVM_Init
  <2>1. \A t \in Task : mutex # t
    BY <1>1, NvmAssumption DEF NVM_Init, Quiet, Inv, Holds
  <2>2. mem' \in [Cells -> Nat]
    BY <1>1 DEF NVM_Init, Zeros, Inv, TypeOK
  <2>3. TypeOK'
    BY <1>1, <2>1, <2>2 DEF NVM_Init, Inv, TypeOK
  <2>4. WriteInProgress'
    BY <1>1, <2>1 DEF NVM_Init, Inv, WriteInProgress
  <2> QED  BY <1>1, <2>1, <2>3, <2>4 DEF NVM_Init, Inv
<1>2. CASE NVM_DeInit
  <2>1. \A t \in Task : mutex # t
    BY <1>2, NvmAssumption DEF NVM_DeInit, Quiet, Inv, Holds
  <2> QED  BY <1>2, <2>1 DEF NVM_DeInit, Inv, TypeOK, WriteInProgress
<1>3. ASSUME NEW u \in Task, Refuse(u) PROVE Inv'
  <2>1. op' \in [Task -> Requests \cup {Idle}]
    BY <1>3 DEF Refuse, Return, Inv, TypeOK
  <2>2. \A t \in Task : mutex = t => op'[t] = op[t]
    BY <1>3 DEF Refuse, Return, Inv, TypeOK
  <2> QED  BY <1>3, <2>1, <2>2
       DEF Refuse, Inv, TypeOK, WriteInProgress, Holds, Valid
<1>4. ASSUME NEW u \in Task, NEW r \in Requests, Begin(u, r) PROVE Inv'
  <2>1. op' \in [Task -> Requests \cup {Idle}]
    BY <1>4 DEF Begin, Inv, TypeOK
  <2>2. \A t \in Task : mutex = t => op'[t] = op[t]
    BY <1>4, NvmAssumption DEF Begin, Inv, TypeOK, Holds
  <2> QED  BY <1>4, <2>1, <2>2
       DEF Begin, Inv, TypeOK, WriteInProgress, Holds, Valid
<1> QED  BY <1>1, <1>2, <1>3, <1>4

(* Taking the lock: nothing is written or read yet.                        *)
LEMMA NoneWritten ==
  ASSUME Inv, NEW t \in Task, Valid(op[t]), op[t] # Idle, op[t].acc = "write"
  PROVE  Atomic!Overlay(settled, op[t].addr, SubSeq(op[t].data, 1, 0)) = settled
<1>1. /\ op[t].data \in Seq(Nat) /\ op[t].addr \in Nat
      /\ settled \in [Cells -> Nat]
  BY NvmAssumption DEF Inv, TypeOK
<1>2. Atomic!Overlay(settled, op[t].addr, SubSeq(op[t].data, 1, 0))
        = Laid(settled, op[t].addr, op[t].data, 0)
  BY <1>1, OverlayPrefix
<1>3. \A c \in Cells : LaidUnit(settled[c], op[t].addr, op[t].data, 0, c) = settled[c]
  BY <1>1 DEF LaidUnit, Cells
<1> QED  BY <1>1, <1>2, <1>3 DEF Laid

LEMMA TakingLock ==
  ASSUME Inv, NEW u \in Task, getNvmLock(u)
  PROVE  Inv'
<1>1. /\ mutex = Free /\ written = 0 /\ got = <<>> /\ mem = settled
      /\ op[u] \in Requests /\ Valid(op[u])
  BY DEF getNvmLock, Inv, TypeOK, WriteInProgress
<1>2. \A t \in Task : mutex' = t <=> t = u
  BY DEF getNvmLock
<1>3. TypeOK'
  BY <1>1, <1>2 DEF getNvmLock, Inv, TypeOK, Valid
<1>4. op[u].acc = "write" =>
        settled = Atomic!Overlay(settled, op[u].addr, SubSeq(op[u].data, 1, written))
  BY <1>1, NoneWritten DEF getNvmLock
<1>5. WriteInProgress'
  BY <1>1, <1>2, <1>4, NvmAssumption DEF getNvmLock, WriteInProgress
<1>6. Holds(u)'
  BY <1>1, NvmAssumption DEF getNvmLock, Holds, Valid
<1> QED  BY <1>2, <1>3, <1>5, <1>6, NvmAssumption DEF Inv, getNvmLock

LEMMA Transferring ==
  ASSUME Inv, NEW u \in Task, WriteChunk(u)
  PROVE  Inv'
<1>1. /\ Writing(u) /\ mutex = u /\ op[u].acc = "write"
      /\ op[u] \in Requests /\ Valid(op[u]) /\ got = <<>>
  BY DEF WriteChunk, Writing, Inv, Holds
<1>2. /\ mem' = Transferred(u) /\ written' = written + writeLength(u)
      /\ UNCHANGED <<device, mounted, busy, mutex, op, got, ret, settled>>
  BY DEF WriteChunk
<1>3. /\ writeLength(u) \in Nat /\ written + writeLength(u) =< op[u].length
      /\ written \in Nat
  BY <1>1, ChunkFits, HolderWrites
<1>4. TypeOK'
  BY <1>1, <1>2, <1>3, ChunkTyped DEF Inv, TypeOK, Valid
<1>5. WriteInProgress'
  BY <1>1, <1>2, ChunkExtends, NvmAssumption DEF WriteInProgress
<1>6. Holds(u)'
  BY <1>1, <1>2, <1>3 DEF Holds, Valid
<1> QED  BY <1>1, <1>2, <1>4, <1>5, <1>6, NvmAssumption DEF Inv

LEMMA Fetching ==
  ASSUME Inv, NEW u \in Task, Read(u)
  PROVE  Inv'
<1>1. /\ mutex = u /\ op[u].acc = "read" /\ written = 0 /\ mem = settled
      /\ op[u] \in Requests /\ Valid(op[u])
  BY DEF Read, Reading, Inv, Holds, WriteInProgress
<1>2. got' = Atomic!Slice(settled, op[u].addr, op[u].length)
  BY <1>1 DEF Read, Atomic!Slice
<1>3. TypeOK'
  BY DEF Read, Inv, TypeOK, Valid
<1>4. WriteInProgress'
  BY DEF Read, Inv, WriteInProgress
<1>5. Holds(u)'
  BY <1>1, <1>2 DEF Read, Holds, Valid
<1> QED  BY <1>1, <1>3, <1>4, <1>5, NvmAssumption DEF Inv, Read

(* Every end of an access gives the lock back with memory as it then is.   *)
LEMMA Releasing ==
  ASSUME Inv, NEW u \in Task, NEW res,
         mutex = u, releaseNvmLock, Return(u, res),
         mem' \in [Cells -> Nat], busy' \in 0..2, UNCHANGED <<device, mounted>>
  PROVE  Inv'
<1>1. \A t \in Task : mutex' # t
  BY NvmAssumption DEF releaseNvmLock
<1>2. op' \in [Task -> Requests \cup {Idle}]
  BY DEF Return, Inv, TypeOK
<1>3. TypeOK'
  BY <1>1, <1>2 DEF releaseNvmLock, Inv, TypeOK
<1>4. WriteInProgress'
  BY <1>1 DEF releaseNvmLock, WriteInProgress
<1> QED  BY <1>1, <1>3, <1>4 DEF Inv, releaseNvmLock

LEMMA Ending ==
  ASSUME Inv, NEW u \in Task,
         WriteFails(u) \/ WriteDone(u) \/ ReadFails(u) \/ ReadDone(u)
  PROVE  Inv'
<1>1. mem \in [Cells -> Nat] /\ busy \in 0..2
  BY DEF Inv, TypeOK
<1>2. CASE WriteFails(u)
  <2>1. mem' \in [Cells -> Nat]
    BY <1>1, <1>2, ChunkTyped DEF WriteFails
  <2> QED  BY <1>1, <1>2, <2>1, Releasing DEF WriteFails, Writing
<1>3. CASE WriteDone(u)
  BY <1>1, <1>3, Releasing DEF WriteDone
<1>4. CASE ReadFails(u)
  BY <1>1, <1>4, Releasing DEF ReadFails, Reading
<1>5. CASE ReadDone(u)
  BY <1>1, <1>5, Releasing DEF ReadDone
<1> QED  BY <1>2, <1>3, <1>4, <1>5

LEMMA Step == Inv /\ [Next]_vars => Inv'
<1> SUFFICES ASSUME Inv, [Next]_vars PROVE Inv'
  OBVIOUS
<1>1. CASE UNCHANGED vars
  <2>1. TypeOK' /\ WriteInProgress'
    BY <1>1 DEF vars, Inv, TypeOK, WriteInProgress, Valid
  <2>2. \A t \in Task : mutex' = t => Holds(t)'
    BY <1>1 DEF vars, Inv, Holds, Valid
  <2> QED  BY <1>1, <2>1, <2>2 DEF vars, Inv
<1>2. CASE Next
  BY <1>2, OutsideLock, TakingLock, Transferring, Fetching, Ending
  DEF Next, Access
<1> QED  BY <1>1, <1>2

(* Between any two transfers of any write, memory is what it was when the  *)
(* lock was last given, overlaid with the units counted as written.        *)
THEOREM Invariance == Spec => []Inv
  BY Initially, Step, PTL DEF Spec

THEOREM TypeCorrect == Spec => []TypeOK
<1>1. Inv => TypeOK
  BY DEF Inv
<1> QED  BY <1>1, Invariance, PTL

THEOREM WritesAreExact == Spec => []WriteInProgress
<1>1. Inv => WriteInProgress
  BY DEF Inv
<1> QED  BY <1>1, Invariance, PTL

-----------------------------------------------------------------------------
(* Refinement: an access takes effect when it gives the lock back.         *)
LEMMA ErrorMaps ==
  ASSUME NEW u \in Task, op[u] # Idle, Return(u, <<"ERROR">>),
         \/ UNCHANGED settled
         \/ /\ op[u].acc = "write"
            /\ \E k \in 0..Len(op[u].data) :
                 settled' = Atomic!Overlay(settled, op[u].addr,
                                           SubSeq(op[u].data, 1, k))
  PROVE  Atomic!AError(u)
  BY DEF Return, Atomic!AError, Atomic!Return

LEMMA FailedWriteMaps ==
  ASSUME Inv, NEW u \in Task, WriteFails(u)
  PROVE  Atomic!AError(u)
<1>1. /\ Writing(u) /\ mutex = u /\ op[u].acc = "write" /\ op[u] # Idle
      /\ settled' = mem'
  BY NvmAssumption DEF WriteFails, Writing, releaseNvmLock, Inv, Holds
<1>2. /\ written \in Nat /\ op[u].length \in Nat /\ written =< op[u].length
      /\ Len(op[u].data) = op[u].length
      /\ mem = Atomic!Overlay(settled, op[u].addr, SubSeq(op[u].data, 1, written))
  BY <1>1, HolderWrites
<1>3. CASE mem' = mem
  <2>1. written \in 0..Len(op[u].data)
    BY <1>2
  <2> QED  BY <1>1, <1>2, <1>3, <2>1, ErrorMaps DEF WriteFails
<1>4. CASE mem' = Transferred(u)
  <2>1. written + writeLength(u) \in 0..Len(op[u].data)
    BY <1>1, <1>2, ChunkFits
  <2>2. settled' = Atomic!Overlay(settled, op[u].addr,
                     SubSeq(op[u].data, 1, written + writeLength(u)))
    BY <1>1, <1>4, ChunkExtends
  <2> QED  BY <1>1, <2>1, <2>2, ErrorMaps DEF WriteFails
<1> QED  BY <1>3, <1>4 DEF WriteFails

LEMMA DoneWriteMaps ==
  ASSUME Inv, NEW u \in Task, WriteDone(u)
  PROVE  Atomic!AWrite(u)
<1>1. /\ mutex = u /\ op[u].acc = "write" /\ op[u] # Idle
      /\ settled' = mem /\ written = op[u].length
  <2>1. op[u].length \in Nat /\ written \in Nat
    BY HolderWrites DEF WriteDone
  <2> QED  BY <2>1, NvmAssumption
           DEF WriteDone, releaseNvmLock, remainingLength, Inv, Holds
<1>2. /\ op[u].data \in Seq(Nat) /\ Len(op[u].data) = op[u].length
      /\ mem = Atomic!Overlay(settled, op[u].addr, SubSeq(op[u].data, 1, written))
  BY <1>1, HolderWrites
<1>3. SubSeq(op[u].data, 1, Len(op[u].data)) = op[u].data
  BY <1>2
<1> QED  BY <1>1, <1>2, <1>3
         DEF WriteDone, Return, Atomic!AWrite, Atomic!Return

LEMMA DoneReadMaps ==
  ASSUME Inv, NEW u \in Task, ReadDone(u)
  PROVE  Atomic!ARead(u)
<1>1. /\ mutex = u /\ op[u].acc = "read" /\ op[u] # Idle
      /\ settled' = mem /\ mem = settled
      /\ got = Atomic!Slice(settled, op[u].addr, op[u].length)
  BY NvmAssumption
  DEF ReadDone, releaseNvmLock, Inv, Holds, WriteInProgress
<1> QED  BY <1>1 DEF ReadDone, Return, Atomic!ARead, Atomic!Return

LEMMA MountMaps ==
  ASSUME Inv, NVM_Init
  PROVE  Atomic!AClear \/ UNCHANGED Atomic!avars
<1>1. /\ op = [t \in Task |-> Idle] /\ settled \in [Cells -> Nat]
      /\ UNCHANGED <<op, ret>> /\ settled' = mem'
  BY DEF NVM_Init, Quiet, Inv, TypeOK
<1>2. mem = settled
  BY <1>1, NvmAssumption DEF Inv, TypeOK, Holds, WriteInProgress
<1>3. CASE mem' = mem
  BY <1>1, <1>2, <1>3 DEF Atomic!avars
<1>4. CASE mem' = Zeros
  BY <1>1, <1>4 DEF Zeros, Atomic!AClear
<1> QED  BY <1>3, <1>4 DEF NVM_Init

LEMMA StepMaps == Inv /\ [Next]_vars => [Atomic!ANext]_(Atomic!avars)
<1> SUFFICES ASSUME Inv, [Next]_vars
             PROVE  Atomic!ANext \/ UNCHANGED Atomic!avars
  OBVIOUS
<1> USE DEF Atomic!ANext
<1>1. CASE NVM_Init
  BY <1>1, MountMaps
<1>2. CASE NVM_DeInit \/ UNCHANGED vars
  BY <1>2 DEF NVM_DeInit, vars, Atomic!avars
<1>3. ASSUME NEW u \in Task, NEW r \in Requests, Begin(u, r)
      PROVE  Atomic!ABegin(u)
  BY <1>3 DEF Begin, Inv, TypeOK, Atomic!ABegin
<1>4. ASSUME NEW u \in Task, Refuse(u) PROVE Atomic!AError(u)
  BY <1>4, ErrorMaps DEF Refuse
<1>5. ASSUME NEW u \in Task, getNvmLock(u) \/ WriteChunk(u) \/ Read(u)
      PROVE  UNCHANGED Atomic!avars
  BY <1>5 DEF getNvmLock, WriteChunk, Read, Atomic!avars
<1>6. ASSUME NEW u \in Task, ReadFails(u) PROVE Atomic!AError(u)
  <2>1. op[u] # Idle /\ mem = settled
    BY <1>6, NvmAssumption DEF ReadFails, Reading, Inv, Holds, WriteInProgress
  <2> QED  BY <1>6, <2>1, ErrorMaps DEF ReadFails, releaseNvmLock
<1> QED  BY <1>1, <1>2, <1>3, <1>4, <1>5, <1>6, FailedWriteMaps, DoneWriteMaps,
            DoneReadMaps DEF Next, Access

(* Tasks that share the device see an atomic memory, for any page size,    *)
(* any requests and any bus errors.                                        *)
THEOREM Refinement == Spec => Refines
<1>1. Init => Atomic!AInit
  BY DEF Init, Atomic!AInit
<1> QED  BY <1>1, StepMaps, Invariance, PTL DEF Spec, Refines, Atomic!ASpec
=============================================================================
