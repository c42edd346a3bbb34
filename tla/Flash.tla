------------------------------- MODULE Flash -------------------------------
(* The serial flash, device/w25qXX: reads, writes page by page and erases   *)
(* sector by sector or block by block, under a mutex.  The device is        *)
(* external: it is busy after each command, ignores what comes while it is  *)
(* busy or not enabled, programs within a page and only clears bits.        *)
EXTENDS Integers, Sequences

CONSTANTS
  Capacity, PageSize, Sector4K, Sector32K, Sector64K,   \* in units of data
  AddressSpace,   \* 2^32: addresses and sizes are uint32_t
  Chunk,       \* what one transfer reads
  Calls,       \* the calls they make, [op, addr, size]
  MaxCalls, MaxFaults   \* bounds: calls, failed transfers and timeouts

Idle == [op |-> "none", addr |-> 0, size |-> 0]
Address == 0..Capacity - 1

VARIABLES
  cells, enabled, busy,      \* the device: 1 is erased
  call,        \* the call of the task that holds the mutex, or Idle
  flashAt,     \* "wait", "enable", "command" or "transfer"
  address, remaining, data,
  before,      \* ghost: the cells when it took the mutex
  result,      \* ghost: the last call, its outcome, the cells around it
  calls, flashFaults

vars == <<cells, enabled, busy, call, flashAt, address, remaining, data, before,
          result, calls, flashFaults>>
device == <<cells, enabled, busy>>
job    == <<call, before, calls>>

Init ==
  /\ cells = [a \in Address |-> 1] /\ enabled = FALSE /\ busy = FALSE
  /\ call = Idle /\ flashAt = "wait"
  /\ address = 0 /\ remaining = 0 /\ data = <<>>
  /\ before = cells
  /\ result = [call |-> Idle, ok |-> FALSE, before |-> cells, after |-> cells, data |-> <<>>]
  /\ calls = 0 /\ flashFaults = 0

----------------------------------------------------------------------------
(* The device *)

Ready == busy /\ busy' = FALSE
         /\ UNCHANGED <<cells, enabled, job, flashAt, address, remaining, data, result, flashFaults>>

Range(from, size) == from..from + size - 1

\* A page program that passes the end of its page goes on at its start.
InPage(from, size) ==
  LET page == from - (from % PageSize)
  IN  {page + ((from + i) % PageSize) : i \in 0..size - 1}

\* The device has no cells behind its capacity: such an address is one of the first.
Accept(set, bit) ==
  IF enabled /\ ~busy
  THEN /\ cells' = [a \in Address |-> IF \E x \in set : x % Capacity = a THEN bit ELSE cells[a]]
       /\ enabled' = FALSE /\ busy' = TRUE
  ELSE UNCHANGED device

----------------------------------------------------------------------------
(* The calls *)

\* The sum may pass the end of its type.
Valid(c) ==
  /\ (c.addr + c.size) % AddressSpace <= Capacity
  /\ c.op \in {"erase", "smart"} => c.size > 0 /\ c.addr % Sector4K = 0
  /\ c.op = "erase" => c.size % Sector4K = 0

\* A call with nothing to do returns at once.
Begin(c) ==
  /\ call = Idle /\ calls < MaxCalls /\ Valid(c) /\ c.size > 0
  /\ call' = c /\ before' = cells /\ calls' = calls + 1
  /\ flashAt' = "wait" /\ address' = c.addr /\ remaining' = c.size /\ data' = <<>>
  /\ UNCHANGED <<device, result, flashFaults>>

Return(ok) ==
  /\ call' = Idle
  /\ result' = [call |-> call, ok |-> ok, before |-> before, after |-> cells', data |-> data]
  /\ UNCHANGED <<before, calls, flashAt, address, remaining, data>>

\* A transfer fails, or the device is not ready in time.
Fail ==
  /\ call # Idle /\ flashFaults < MaxFaults
  /\ flashFaults' = flashFaults + 1
  /\ UNCHANGED device
  /\ Return(FALSE)

WaitNot ==                                          \* mutant
  /\ call # Idle /\ flashAt = "wait" /\ remaining > 0
  /\ flashAt' = IF call.op = "read" THEN "transfer" ELSE "enable"
  /\ UNCHANGED <<device, job, address, remaining, data, result, flashFaults>>

\* _flash_wait_ready before each command.
_flash_wait_ready ==
  /\ call # Idle /\ flashAt = "wait" /\ remaining > 0 /\ ~busy
  /\ flashAt' = IF call.op = "read" THEN "transfer" ELSE "enable"
  /\ UNCHANGED <<device, job, address, remaining, data, result, flashFaults>>

\* And after the last.
Finish ==
  /\ call # Idle /\ flashAt = "wait" /\ remaining = 0 /\ (call.op # "read" => ~busy)
  /\ UNCHANGED <<device, flashFaults>>
  /\ Return(TRUE)

_flash_write_enable ==
  /\ call # Idle /\ flashAt = "enable"
  /\ enabled' = (enabled \/ ~busy)
  /\ flashAt' = "command"
  /\ UNCHANGED <<cells, busy, job, address, remaining, data, result, flashFaults>>

ToWrite ==
  LET bytesInPage == PageSize - (address % PageSize)
  IN  IF remaining > bytesInPage THEN bytesInPage ELSE remaining

EraseSize ==
  IF call.op = "chip" THEN Capacity
  ELSE IF call.op = "smart" /\ address % Sector64K = 0 /\ remaining >= Sector64K THEN Sector64K
  ELSE IF call.op = "smart" /\ address % Sector32K = 0 /\ remaining >= Sector32K THEN Sector32K
  ELSE Sector4K

Advance(n) ==
  /\ address' = (address + n) % AddressSpace /\ remaining' = (remaining - n) % AddressSpace
  /\ flashAt' = "wait"

\* FLASH_writeData, FLASH_eraseSector, FLASH_eraseSectorSmart, FLASH_chipErase.
Command ==
  /\ call # Idle /\ flashAt = "command"
  /\ LET n == IF call.op = "write" THEN ToWrite ELSE EraseSize
     IN  /\ IF call.op = "write" THEN Accept(InPage(address, n), 0)
                                 ELSE Accept(Range(address - (address % n), n), 1)
         /\ Advance(n)
  /\ UNCHANGED <<job, data, result, flashFaults>>

\* A command whose transfer fails may still have reached the device.
CommandFails ==
  /\ call # Idle /\ flashAt = "command" /\ flashFaults < MaxFaults
  /\ flashFaults' = flashFaults + 1
  /\ IF call.op = "write" THEN Accept(InPage(address, ToWrite), 0)
                          ELSE Accept(Range(address - (address % EraseSize), EraseSize), 1)
  /\ Return(FALSE)

\* FLASH_readData: a busy device answers with nothing.
Transfer ==
  LET n == IF remaining > Chunk THEN Chunk ELSE remaining
  IN  /\ call # Idle /\ flashAt = "transfer"
      /\ data' = data \o [i \in 1..n |-> IF busy THEN 2 ELSE cells[(address + i - 1) % Capacity]]
      /\ address' = (address + n) % AddressSpace /\ remaining' = remaining - n
      /\ flashAt' = IF remaining = n THEN "wait" ELSE "transfer"
      /\ UNCHANGED <<device, job, result, flashFaults>>

Next ==
  \/ \E c \in Calls : Begin(c)
  \/ Ready \/ _flash_wait_ready \/ _flash_write_enable \/ Command \/ Transfer
  \/ Finish \/ Fail \/ CommandFails

----------------------------------------------------------------------------
(* Properties *)

\* A call whose range is on the device.  The checks let two more pass: one whose sum wraps,
\* and a smart erase of no whole sectors, whose remainder never becomes 0.
Fits(c) ==
  /\ c.addr + c.size <= Capacity
  /\ c.op = "smart" => c.size % Sector4K = 0

\* A call that fits and reports success has done all of what it was asked, and one that
\* failed has touched nothing outside its range, whatever calls that do not fit came before.
FlashDoes ==
  LET c == result.call
      asked == IF c.op = "write" THEN 0 ELSE 1
  IN  Fits(c) =>
      /\ \A a \in Address :
           /\ a \notin Range(c.addr, c.size) => result.after[a] = result.before[a]
           /\ a \in Range(c.addr, c.size) /\ c.op = "read" => result.after[a] = result.before[a]
           /\ a \in Range(c.addr, c.size) /\ c.op # "read" /\ result.ok => result.after[a] = asked
      /\ c.op = "read" /\ result.ok =>
           result.data = [i \in 1..c.size |-> result.before[c.addr + i - 1]]
=============================================================================
