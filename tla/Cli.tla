-------------------------------- MODULE Cli --------------------------------
(* The command line, services/cli: the interrupt of the port queues the     *)
(* characters and notifies the task at the end of a line; the task takes    *)
(* them from the queue into its line buffer and runs the command, if the    *)
(* table has it.  The terminal, which ends a line in one newline and may    *)
(* type the next before the last has run, is external.                      *)
EXTENDS Integers, SequencesExt

CONSTANTS
  RxSize,      \* CLI_RX_BUFF_SIZE, the length of the queue
  LineSize,    \* CLI_INPUT_LINE_SIZE, the line buffer without its last 0
  Lines,       \* what the terminal may send, without the newline
  Newline, Space, Nul,
  NameSize,    \* CLI_MODULE_NAME_SIZE - 1, what the task compares of a name
  Commands,    \* the names in cliDescrTable
  MaxLines     \* bound: lines sent

VARIABLES
  sent,        \* ghost: the lines sent so far
  left,        \* what the terminal has still to send of the last one
  early,       \* ghost: a line was begun before those before it had run
  dropped,     \* ghost: the queue was full once
  cliRxQueue, notified,
  reading,     \* the task is in the loop that takes a line
  bufferIndex,
  buffer,      \* keeps what earlier lines left behind
  ran          \* ghost: for each line taken, its text and what was passed on

taskVars == <<notified, reading, bufferIndex, buffer, ran>>
vars == <<sent, left, early, dropped, cliRxQueue, taskVars>>

Init ==
  /\ sent = <<>> /\ left = <<>> /\ early = FALSE /\ dropped = FALSE /\ cliRxQueue = <<>>
  /\ notified = FALSE /\ reading = FALSE /\ bufferIndex = 0
  /\ buffer = [i \in 1..LineSize + 1 |-> Nul]
  /\ ran = <<>>

----------------------------------------------------------------------------
(* The terminal and the interrupt *)

Send(l) ==
  /\ left = <<>> /\ Len(sent) < MaxLines
  /\ sent' = Append(sent, l)
  /\ left' = Append(l, Newline)
  /\ early' = (early \/ Len(ran) < Len(sent))
  /\ UNCHANGED <<dropped, cliRxQueue, taskVars>>

\* A full queue drops the character, and the task is notified all the same.
CLI_rxISR ==
  /\ left # <<>>
  /\ left' = Tail(left)
  /\ IF Len(cliRxQueue) < RxSize
     THEN cliRxQueue' = Append(cliRxQueue, Head(left)) /\ UNCHANGED dropped
     ELSE dropped' = TRUE /\ UNCHANGED cliRxQueue
  /\ notified' = (notified \/ Head(left) = Newline)
  /\ UNCHANGED <<sent, early, reading, bufferIndex, buffer, ran>>

----------------------------------------------------------------------------
(* The task *)

Text(b, from) ==   \* the string that starts at b[from]
  LET end == CHOOSE i \in from..Len(b) : b[i] = Nul /\ \A j \in from..i - 1 : b[j] # Nul
  IN  SubSeq(b, from, end - 1)

\* strtok: the first space after the leading ones becomes the end of the name.
Split(b) ==
  LET names  == {i \in 1..Len(b) : b[i] # Space}
      start  == CHOOSE i \in names : \A j \in names : i <= j
      spaces == {i \in start..Len(Text(b, 1)) : b[i] = Space}
  IN  IF spaces = {} THEN b ELSE [b EXCEPT ![CHOOSE i \in spaces : \A j \in spaces : i <= j] = Nul]

\* The name the task looks for: a longer one is cut, and may then be found.
Name(c) == SubSeq(Text(c, 1), 1, IF Len(Text(c, 1)) < NameSize THEN Len(Text(c, 1)) ELSE NameSize)

\* The command gets what follows its name and one more character.  A line with
\* a name the table does not have is reported and forgotten.
Run(b) ==
  LET c    == Split(b)
      args == Len(Name(c)) + 2
  IN  /\ buffer' = c
      /\ ran' = Append(ran, [line |-> Text(b, 1),
                             args |-> IF Name(c) \in Commands /\ args <= Len(c)
                                      THEN Text(c, args) ELSE <<>>])

Full(index) == index > LineSize

NotifyWaitNoReset ==                                \* mutant
  /\ ~reading /\ notified
  /\ notified' = FALSE /\ reading' = TRUE
  /\ UNCHANGED <<sent, left, early, dropped, cliRxQueue, bufferIndex, buffer, ran>>

NotifyWait ==
  /\ ~reading /\ notified
  /\ notified' = FALSE /\ reading' = TRUE /\ bufferIndex' = 0
  /\ UNCHANGED <<sent, left, early, dropped, cliRxQueue, buffer, ran>>

Receive ==
  LET index == bufferIndex + 1
  IN  /\ reading /\ cliRxQueue # <<>>
      /\ cliRxQueue' = Tail(cliRxQueue)
      /\ bufferIndex' = index
      /\ IF Full(index) \/ Head(cliRxQueue) = Newline
         THEN reading' = FALSE /\ Run([buffer EXCEPT ![index] = Nul])
         ELSE buffer' = [buffer EXCEPT ![index] = Head(cliRxQueue)] /\ UNCHANGED <<reading, ran>>
      /\ UNCHANGED <<sent, left, early, dropped, notified>>

Next == (\E l \in Lines : Send(l)) \/ CLI_rxISR \/ NotifyWait \/ Receive

----------------------------------------------------------------------------
(* Properties *)

\* cli.c:146 "Pass the rest of the command line to the callback": and without
\* arguments it gets none.  It fails: what follows the name then is the rest
\* of an earlier line.
NoArgsLeftOver == \A i \in DOMAIN ran : ~Contains(ran[i].line, Space) => ran[i].args = <<>>

NameEnd(l)   == IF Contains(l, Space) THEN SelectInSeq(l, LAMBDA c : c = Space) ELSE Len(l) + 1
Arguments(l) == SubSeq(l, NameEnd(l) + 1, Len(l))
Known(l)     == NameEnd(l) - 1 <= NameSize /\ SubSeq(l, 1, NameEnd(l) - 1) \in Commands

\* As long as the queue has room, lines are taken whole and in order, however
\* early the next is typed, and a command gets the arguments it was typed with,
\* if there are any.  A line typed after those before it have run is run in the
\* end; one typed earlier may be left in the queue until the next is typed, as
\* two notifications become one.
CliRuns ==
  /\ [](~dropped => \A j \in DOMAIN ran :
                      /\ j <= Len(sent) /\ ran[j].line = sent[j]
                      /\ Known(sent[j]) /\ Contains(sent[j], Space)
                           => ran[j].args = Arguments(sent[j]))
  /\ \A i \in 1..MaxLines : (Len(sent) = i /\ ~early) ~> (Len(ran) >= i)
=============================================================================
