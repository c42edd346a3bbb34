-------------------------------- MODULE Nvm --------------------------------
(***************************************************************************)
(* sys/nvm/nvm.c under FreeRTOS: a non-volatile memory device shared by    *)
(* tasks through a mutex, its writes cut at page boundaries, over the      *)
(* EEPROM of device/24cXX/eeprom.c or a dummy memory in RAM.               *)
(*                                                                         *)
(* External: the EEPROM chip wraps inside its page a write that crosses a  *)
(* boundary; a bus error may come before or after the chip has the data.   *)
(***************************************************************************)
EXTENDS Integers, Sequences

CONSTANTS Task,
          Free, Idle,
          Size,        \* the device's cells; startAddress is 0
          ChipSize,    \* the EEPROM's
          pageSize,
          Requests     \* what tasks ask for

ASSUME NvmAssumption ==
  /\ Free \notin Task
  /\ Size \in Nat \ {0} /\ ChipSize \in Nat /\ pageSize \in Nat \ {0}
  /\ \A r \in Requests :
       /\ r # Idle /\ r.addr \in Nat /\ r.length \in Nat
       /\ r.acc \in {"read", "write"}
       /\ r.acc = "write" => r.data \in Seq(Nat) /\ Len(r.data) = r.length

Cells      == 0..Size - 1
endAddress == Size - 1

VARIABLES device,    \* constant fields of the device: its kind and rollover flag
          mem,       \* the cells as the chip, or the dummy memory, has them
          mounted, busy,
          mutex,     \* nvmMutex: Free or its holder
          op,        \* each task's request, or Idle
          written,   \* units of the holder's data already written
          got,       \* what the holder's read has returned
          ret,       \* each task's last result, <<>> during a request
          settled    \* history: the cells when nvmMutex was last given

vars == <<device, mem, mounted, busy, mutex, op, written, got, ret, settled>>

(* A device whose chip wraps inside a page has handlePageRollOver set.     *)
Devices ==
  {d \in [kind : {"dummy", "paged", "flat"}, handlePageRollOver : {0, 1}] :
     d.kind = "paged" => d.handlePageRollOver = 1}

Zeros == [i \in Cells |-> 0]

Init ==
  /\ device \in Devices
  /\ mem = Zeros
  /\ mounted = 0 /\ busy = 0
  /\ mutex = Free
  /\ op = [t \in Task |-> Idle]
  /\ written = 0 /\ got = <<>>
  /\ ret = [t \in Task |-> <<>>]
  /\ settled = mem

-----------------------------------------------------------------------------
(* Mounting, with no access under way.                                     *)
Quiet == \A t \in Task : op[t] = Idle

NVM_Init ==
  /\ Quiet
  /\ mounted' = 1
  /\ busy' = 0
  /\ mem' = IF device.kind = "dummy" THEN Zeros ELSE mem
  /\ settled' = mem'
  /\ UNCHANGED <<device, mutex, op, written, got, ret>>

NVM_DeInit ==
  /\ Quiet
  /\ mounted' = 0
  /\ UNCHANGED <<device, mem, busy, mutex, op, written, got, ret, settled>>

-----------------------------------------------------------------------------
(* accessNvmCell.                                                          *)
Begin(t, r) ==
  /\ op[t] = Idle
  /\ op' = [op EXCEPT ![t] = r]
  /\ ret' = [ret EXCEPT ![t] = <<>>]
  /\ UNCHANGED <<device, mem, mounted, busy, mutex, written, got, settled>>

Valid(r) ==
  /\ mounted = 1
  /\ r.addr =< endAddress
  /\ r.length # 0
  /\ r.length =< endAddress - r.addr + 1

Return(t, res) ==
  /\ op' = [op EXCEPT ![t] = Idle]
  /\ ret' = [ret EXCEPT ![t] = res]

(* Arguments refused, or the lock not free within its timeout.             *)
Refuse(t) ==
  /\ op[t] # Idle /\ mutex # t
  /\ ~Valid(op[t]) \/ mutex # Free
  /\ Return(t, <<"ERROR">>)
  /\ UNCHANGED <<device, mem, mounted, busy, mutex, written, got, settled>>

(* Seeded fault: reads do without the lock.                                *)
LockWritesOnly(t) ==
  /\ op[t] # Idle
  /\ Valid(op[t])
  /\ mutex = Free \/ op[t].acc = "read"
  /\ mutex' = t
  /\ busy' = IF op[t].acc = "write" THEN 2 ELSE 1
  /\ UNCHANGED <<device, mem, mounted, op, written, got, ret, settled>>

getNvmLock(t) ==
  /\ op[t] # Idle
  /\ Valid(op[t])
  /\ mutex = Free
  /\ mutex' = t
  /\ busy' = IF op[t].acc = "write" THEN 2 ELSE 1
  /\ UNCHANGED <<device, mem, mounted, op, written, got, ret, settled>>

(* The function's variables end with it.                                   *)
releaseNvmLock ==
  /\ mutex' = Free
  /\ settled' = mem'
  /\ written' = 0
  /\ got' = <<>>

(* Writing.                                                                *)
writeAddress(t) == op[t].addr + written
remainingLength(t) == op[t].length - written

(* Seeded faults: every chunk is a whole page; the boundary is rounded up, *)
(* so that it is no distance away from an address on it.                   *)
ToBoundaryWhole(a) == pageSize

ToBoundaryRounded(a) == ((a + pageSize - 1) \div pageSize) * pageSize - a

(* The distance to the next page boundary.                                 *)
ToBoundary(a) == ((a \div pageSize) + 1) * pageSize - a

writeLength(t) ==
  IF /\ device.handlePageRollOver = 1
     /\ remainingLength(t) > ToBoundary(writeAddress(t))
    THEN ToBoundary(writeAddress(t)) ELSE remainingLength(t)

(* Where the chip puts the i-th unit of a transfer that starts at a.       *)
Target(a, i) ==
  IF device.kind = "paged"
    THEN ((a \div pageSize) * pageSize) + ((a + i) % pageSize) ELSE a + i

(* Unit i of the transfer is unit written + i of the caller's data.        *)
Transferred(t) ==
  LET a == writeAddress(t)
      n == writeLength(t)
  IN  [c \in Cells |->
         IF \E i \in 0..n - 1 : Target(a, i) = c
           THEN op[t].data[written + 1 +
                  (CHOOSE i \in 0..n - 1 :
                     /\ Target(a, i) = c
                     /\ \A j \in 0..n - 1 : Target(a, j) = c => j =< i)]
           ELSE mem[c]]

Writing(t) == mutex = t /\ op[t].acc = "write" /\ remainingLength(t) > 0

InChip(t) ==
  device.kind = "dummy" \/ writeAddress(t) + writeLength(t) =< ChipSize

WriteChunk(t) ==
  /\ Writing(t)
  /\ InChip(t)
  /\ mem' = Transferred(t)
  /\ written' = written + writeLength(t)
  /\ UNCHANGED <<device, mounted, busy, mutex, op, got, ret, settled>>

(* Seeded fault: the failed write does not give the lock back.             *)
WriteFailsLocked(t) ==
  /\ Writing(t)
  /\ device.kind # "dummy"
  /\ Return(t, <<"ERROR">>)
  /\ UNCHANGED <<device, mem, mounted, busy, mutex, written, got, settled>>

(* The error path gives the lock back and leaves busy as it is.            *)
WriteFails(t) ==
  /\ Writing(t)
  /\ device.kind # "dummy"
  /\ mem' = mem \/ (InChip(t) /\ mem' = Transferred(t))
  /\ Return(t, <<"ERROR">>)
  /\ releaseNvmLock
  /\ UNCHANGED <<device, mounted, busy>>

WriteDone(t) ==
  /\ mutex = t /\ op[t].acc = "write" /\ remainingLength(t) = 0
  /\ busy' = 0
  /\ Return(t, <<"SUCCESS">>)
  /\ UNCHANGED mem
  /\ releaseNvmLock
  /\ UNCHANGED <<device, mounted>>

(* Reading: the chip reads on across pages.                                *)
Reading(t) == mutex = t /\ op[t].acc = "read" /\ got = <<>>

InChipToRead(t) ==
  device.kind = "dummy" \/ op[t].addr + op[t].length =< ChipSize

Read(t) ==
  /\ Reading(t)
  /\ InChipToRead(t)
  /\ got' = [i \in 1..op[t].length |-> mem[op[t].addr + i - 1]]
  /\ UNCHANGED <<device, mem, mounted, busy, mutex, op, written, ret, settled>>

ReadFails(t) ==
  /\ Reading(t)
  /\ device.kind # "dummy"
  /\ UNCHANGED mem
  /\ Return(t, <<"ERROR">>)
  /\ releaseNvmLock
  /\ UNCHANGED <<device, mounted, busy>>

ReadDone(t) ==
  /\ mutex = t /\ op[t].acc = "read" /\ got # <<>>
  /\ busy' = 0
  /\ Return(t, <<"SUCCESS", got>>)
  /\ UNCHANGED mem
  /\ releaseNvmLock
  /\ UNCHANGED <<device, mounted>>

-----------------------------------------------------------------------------
Access(t) ==
  \/ Refuse(t) \/ getNvmLock(t)
  \/ WriteChunk(t) \/ WriteFails(t) \/ WriteDone(t)
  \/ Read(t) \/ ReadFails(t) \/ ReadDone(t)

Next ==
  \/ NVM_Init \/ NVM_DeInit
  \/ \E t \in Task : Access(t) \/ \E r \in Requests : Begin(t, r)

Spec == Init /\ [][Next]_vars

(* A task inside accessNvmCell goes on; how it fares on the bus is open.   *)
FairSpec == Spec /\ \A t \in Task : WF_vars(Access(t))

-----------------------------------------------------------------------------
TypeOK ==
  /\ device \in Devices
  /\ mem \in [Cells -> Nat]
  /\ settled \in [Cells -> Nat]
  /\ mounted \in {0, 1}
  /\ busy \in 0..2
  /\ mutex \in Task \cup {Free}
  /\ op \in [Task -> Requests \cup {Idle}]
  /\ written \in Nat
  /\ \A t \in Task : mutex = t => op[t] # Idle /\ Valid(op[t])

Atomic == INSTANCE AtomicNvm WITH cells <- settled

(* Cutting a write at the page boundaries loses nothing and repeats        *)
(* nothing: at every moment the holder's write has changed exactly the     *)
(* cells of the units it has counted as written, and the chip has wrapped  *)
(* none of them; nobody else has changed a cell.                           *)
WriteInProgress ==
  /\ mutex = Free => mem = settled
  /\ \A t \in Task : mutex = t =>
       mem = IF op[t].acc = "write"
               THEN Atomic!Overlay(settled, op[t].addr,
                                   SubSeq(op[t].data, 1, written))
               ELSE settled

(* Tasks that share the device see an atomic memory, whose failed writes   *)
(* leave a prefix of their data, although a write is many transfers.       *)
Refines == Atomic!ASpec

(* Every access returns: no path through accessNvmCell keeps the lock or   *)
(* goes round for ever.                                                    *)
AccessReturns == \A t \in Task : op[t] # Idle ~> op[t] = Idle
=============================================================================
