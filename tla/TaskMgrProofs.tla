---------------------------- MODULE TaskMgrProofs ----------------------------
(***************************************************************************)
(* Proofs about TaskMgr for any clients, tasks, timers and length of the   *)
(* command queue.                                                          *)
(***************************************************************************)
EXTENDS TaskMgr, FiniteSetTheorems, WellFoundedInduction, TLAPS

SlotRecord ==
  [function : {"NULL", "user", "houseKeepingTask"}, periodicityMs : Nat,
   id : Id \cup {0}, timer : Timers \cup {0},
   inUse : {0, 1}, enabled : {0, 1}, pendingDelete : {0, 1}]

TimerRecord == [slot : Slots, reload : BOOLEAN, state : {"dead", "dormant", "active"}]

CmdRecord == [cmd : {"start", "stop", "change", "delete"}, timer : Timers \cup {0}]

(* The steps of a call before its command to the timer is posted, if it    *)
(* posts one, and the ones after it.                                       *)
Before == {"create", "createStart", "createScrap",
           "delete", "deleteStop", "enable", "disable", "update"}
Marks  == {"enableMark", "disableMark", "updateMark"}

OpRecord == [step : {"idle"} \cup Before \cup Marks, id : Id \cup {0},
             slot : Slots, ms : Nat]

DaemonRecord == [step : {"idle", "ran", "hkLock", "hkScan", "discard"},
                 slot : Slots, timer : Timers \cup {0}]

(* Types, the mutex's owner, and the arguments of the calls under way.     *)
Typed ==
  /\ taskRegistry \in [Slots -> SlotRecord]
  /\ timer \in [Timers -> TimerRecord]
  /\ cmds \in Seq(CmdRecord) /\ Len(cmds) =< QueueLen
  /\ op \in [Client -> OpRecord]
  /\ daemon \in DaemonRecord
  /\ mutex \in Client \cup {Free, Daemon}
  /\ mutex = Daemon <=> daemon.step = "hkScan"
  /\ \A c \in Client :
       /\ op[c] # Idle <=> mutex = c
       /\ op[c] # Idle <=> op[c].step # "idle"
       /\ op[c].step = "create" => op[c].id \in Id
       /\ op[c].step \in {"delete", "enable", "disable", "update"} =>
            op[c].id \in Touched
       /\ op[c].step = "delete" => op[c].id # TASKMGR_HOUSEKEEPING_TASK_ID
       /\ op[c].step \in {"update", "updateMark"} => op[c].ms \in NewPeriods

LEMMA MinIs ==
  ASSUME NEW S \in SUBSET Nat, S # {}
  PROVE  Min(S) \in S /\ \A x \in S : Min(S) <= x
<1>1. PICK m \in S : \A x \in S : ~(<<x, m>> \in OpToRel(<, Nat))
  BY NatLessThanWellFounded, WFMin
<1>2. \A x \in S : ~(x < m)
  <2> SUFFICES ASSUME NEW x \in S, x < m PROVE FALSE
    OBVIOUS
  <2>1. <<x, m>> \in Nat \X Nat
    BY ONLY S \in SUBSET Nat, m \in S, x \in S
  <2>2. <<x, m>>[1] = x /\ <<x, m>>[2] = m
    OBVIOUS
  <2> QED
    BY <1>1, <2>1, <2>2, Zenon DEF OpToRel
<1>3. \A x \in S : m <= x
  BY <1>2
<1> QED
  BY <1>3 DEF Min

LEMMA Constants ==
  /\ 0 \in Slots /\ 1 \in Timers /\ Slots \subseteq Nat /\ Timers \subseteq Nat
  /\ 0 \notin Timers
  /\ Free \notin Client /\ Daemon \notin Client /\ Free # Daemon
  /\ Id \subseteq Nat /\ Touched \subseteq Id /\ NewPeriods \subseteq Nat
  /\ \A id \in Id : Period[id] \in Nat
BY TaskMgrAssumption DEF Slots, Timers, Free, Daemon

LEMMA RoundPeriod ==
  ASSUME NEW ms \in Nat
  PROVE  /\ _taskmgr_roundPeriod(ms) \in Nat
         /\ ms >= 10 => _taskmgr_roundPeriod(ms) # 0
BY DEF _taskmgr_roundPeriod

LEMMA FillIs ==
  ASSUME NEW c \in Client, Typed, Candidates(op[c].id) # {}
  PROVE  /\ SlotToFill(c) \in Slots
         /\ taskRegistry[SlotToFill(c)].inUse = 0 \/ taskRegistry[SlotToFill(c)].id = op[c].id
BY MinIs, Constants DEF SlotToFill, Candidates

LEMMA FoundIs ==
  ASSUME NEW id, InUse(id) # {}
  PROVE  /\ Min(InUse(id)) \in Slots
         /\ taskRegistry[Min(InUse(id))].inUse = 1
         /\ taskRegistry[Min(InUse(id))].id = id
BY MinIs, Constants DEF InUse

LEMMA DeadIs ==
  ASSUME DeadTimers # {}
  PROVE  Min(DeadTimers) \in Timers /\ timer[Min(DeadTimers)].state = "dead"
BY MinIs, Constants DEF DeadTimers

LEMMA DoomedIs ==
  ASSUME Doomed # {}
  PROVE  /\ Min(Doomed) \in Slots /\ taskRegistry[Min(Doomed)].inUse = 1
         /\ taskRegistry[Min(Doomed)].pendingDelete = 1
BY MinIs, Constants DEF Doomed

LEMMA PostTyped ==
  ASSUME Typed, NEW cmd \in {"start", "stop", "change", "delete"},
         NEW h \in Timers \cup {0}, ~Full, Post(cmd, h)
  PROVE  cmds' \in Seq(CmdRecord) /\ Len(cmds') =< QueueLen
<1>1. [cmd |-> cmd, timer |-> h] \in CmdRecord
  BY DEF CmdRecord
<1> QED
  BY <1>1, TaskMgrAssumption DEF Typed, Post, Full

(* What the updates of a slot, and of the registry at a slot, yield.       *)
LEMMA SlotRecords ==
  ASSUME NEW r \in SlotRecord
  PROVE  /\ EmptySlot \in SlotRecord /\ Retired(r) \in SlotRecord
         /\ [r EXCEPT !.pendingDelete = 1, !.enabled = 0] \in SlotRecord
         /\ [r EXCEPT !.enabled = 0] \in SlotRecord
         /\ [r EXCEPT !.enabled = 1] \in SlotRecord
<1>1. EmptySlot \in SlotRecord
  BY DEF SlotRecord, EmptySlot
<1>2. Retired(r) \in SlotRecord
  BY DEF SlotRecord, Retired
<1>3. [r EXCEPT !.pendingDelete = 1, !.enabled = 0] \in SlotRecord
  BY DEF SlotRecord
<1>4. [r EXCEPT !.enabled = 0] \in SlotRecord /\ [r EXCEPT !.enabled = 1] \in SlotRecord
  BY DEF SlotRecord
<1> QED
  BY ONLY <1>1, <1>2, <1>3, <1>4

LEMMA PeriodRecord ==
  ASSUME NEW r \in SlotRecord, NEW ms \in Nat
  PROVE  [r EXCEPT !.periodicityMs = ms] \in SlotRecord
BY DEF SlotRecord

LEMMA FilledRecord ==
  ASSUME NEW r \in SlotRecord, NEW ms \in Nat, NEW id \in Id, NEW h \in Timers
  PROVE  [r EXCEPT !.function = "user", !.periodicityMs = ms, !.id = id,
                   !.inUse = 1, !.enabled = 1, !.timer = h] \in SlotRecord
BY DEF SlotRecord

LEMMA RegistryAt ==
  ASSUME NEW f \in [Slots -> SlotRecord], NEW s \in Slots, NEW r \in SlotRecord
  PROVE  /\ [f EXCEPT ![s] = r] \in [Slots -> SlotRecord]
         /\ [f EXCEPT ![s] = r][s] = r
         /\ \A t \in Slots \ {s} : [f EXCEPT ![s] = r][t] = f[t]
OBVIOUS

LEMMA DaemonRecords ==
  ASSUME NEW d \in DaemonRecord,
         NEW step \in {"idle", "ran", "hkLock", "hkScan", "discard"}
  PROVE  /\ [d EXCEPT !.step = step] \in DaemonRecord
         /\ [d EXCEPT !.step = step].step = step
         /\ [d EXCEPT !.step = step].slot = d.slot
         /\ [d EXCEPT !.step = step].timer = d.timer
         /\ Resting \in DaemonRecord /\ Resting.step = "idle"
BY Constants DEF DaemonRecord, Resting

-----------------------------------------------------------------------------
(* The actions that rewrite a slot in place, as one new record.            *)
Rewrites(s, r) ==
  /\ s \in Slots /\ r \in SlotRecord
  /\ taskRegistry' = [taskRegistry EXCEPT ![s] = r]
  /\ taskRegistry' \in [Slots -> SlotRecord]
  /\ taskRegistry'[s] = r
  /\ \A t \in Slots \ {s} : taskRegistry'[t] = taskRegistry[t]

LEMMA DeleteMarkIs ==
  ASSUME Typed, NEW c \in Client, DeleteMark(c)
  PROVE  LET s == Min(InUse(op[c].id))
         IN  Rewrites(s, [taskRegistry[s] EXCEPT !.pendingDelete = 1, !.enabled = 0])
<1> DEFINE s == Min(InUse(op[c].id))
           r == [taskRegistry[s] EXCEPT !.pendingDelete = 1, !.enabled = 0]
<1>1. s \in Slots
  BY FoundIs DEF DeleteMark, Found
<1>2. taskRegistry' = [taskRegistry EXCEPT ![s].pendingDelete = 1, ![s].enabled = 0]
  BY DEF DeleteMark
<1> HIDE DEF s
<1>3. r \in SlotRecord
  BY <1>1, SlotRecords DEF Typed
<1>4. taskRegistry' = [taskRegistry EXCEPT ![s] = r]
  BY <1>2
<1> QED
  BY <1>1, <1>3, <1>4, RegistryAt DEF Typed, Rewrites, s

LEMMA FlagMarkIs ==
  ASSUME Typed, NEW c \in Client
  PROVE  LET s == op[c].slot
         IN  /\ EnableMark(c) => Rewrites(s, [taskRegistry[s] EXCEPT !.enabled = 1])
             /\ DisableMark(c) => Rewrites(s, [taskRegistry[s] EXCEPT !.enabled = 0])
<1> DEFINE s == op[c].slot
<1>1. s \in Slots /\ taskRegistry[s] \in SlotRecord
  BY DEF Typed, OpRecord
<1>2. /\ EnableMark(c) => taskRegistry' = [taskRegistry EXCEPT ![s].enabled = 1]
      /\ DisableMark(c) => taskRegistry' = [taskRegistry EXCEPT ![s].enabled = 0]
  BY DEF EnableMark, DisableMark
<1> HIDE DEF s
<1>3. CASE EnableMark(c)
  <2> DEFINE r == [taskRegistry[s] EXCEPT !.enabled = 1]
  <2>1. r \in SlotRecord /\ taskRegistry' = [taskRegistry EXCEPT ![s] = r]
    BY <1>1, <1>2, <1>3, SlotRecords
  <2> HIDE DEF r
  <2>2. Rewrites(s, r)
    BY <1>1, <2>1, RegistryAt DEF Typed, Rewrites
  <2> QED
    BY <1>3, <2>2 DEF s, r, EnableMark, DisableMark, Doing
<1>4. CASE DisableMark(c)
  <2> DEFINE r == [taskRegistry[s] EXCEPT !.enabled = 0]
  <2>1. r \in SlotRecord /\ taskRegistry' = [taskRegistry EXCEPT ![s] = r]
    BY <1>1, <1>2, <1>4, SlotRecords
  <2> HIDE DEF r
  <2>2. Rewrites(s, r)
    BY <1>1, <2>1, RegistryAt DEF Typed, Rewrites
  <2> QED
    BY <1>4, <2>2 DEF s, r, EnableMark, DisableMark, Doing
<1> QED
  BY <1>3, <1>4

LEMMA UpdateMarkIs ==
  ASSUME Typed, NEW c \in Client, UpdateMark(c)
  PROVE  LET s == op[c].slot
             p == _taskmgr_roundPeriod(op[c].ms)
         IN  p \in Nat /\ Rewrites(s, [taskRegistry[s] EXCEPT !.periodicityMs = p])
<1> DEFINE s == op[c].slot
           p == _taskmgr_roundPeriod(op[c].ms)
           r == [taskRegistry[s] EXCEPT !.periodicityMs = p]
<1>1. s \in Slots /\ taskRegistry[s] \in SlotRecord /\ p \in Nat
  BY RoundPeriod DEF Typed, OpRecord
<1>2. taskRegistry' = [taskRegistry EXCEPT ![s].periodicityMs = p]
  BY DEF UpdateMark
<1> HIDE DEF s, p
<1>3. r \in SlotRecord
  BY <1>1, PeriodRecord
<1>4. taskRegistry' = [taskRegistry EXCEPT ![s] = r]
  BY <1>2
<1> HIDE DEF r
<1>5. Rewrites(s, r)
  BY <1>1, <1>3, <1>4, RegistryAt DEF Typed, Rewrites
<1> QED
  BY <1>1, <1>5 DEF s, p, r

LEMMA FinishIs ==
  ASSUME Typed, Finish, taskRegistry[daemon.slot].periodicityMs = 0
  PROVE  Rewrites(daemon.slot, Retired(taskRegistry[daemon.slot]))
<1>1. daemon.slot \in Slots /\ taskRegistry[daemon.slot] \in SlotRecord
  BY DEF Typed, DaemonRecord
<1>2. taskRegistry' = [taskRegistry EXCEPT ![daemon.slot] = Retired(taskRegistry[daemon.slot])]
  BY DEF Finish
<1>3. Retired(taskRegistry[daemon.slot]) \in SlotRecord
  BY <1>1, SlotRecords
<1> QED
  BY <1>1, <1>2, <1>3, RegistryAt DEF Typed, Rewrites

-----------------------------------------------------------------------------
LEMMA InitTyped == Init => Typed
<1> SUFFICES ASSUME Init PROVE Typed
  OBVIOUS
<1> USE DEF Init
<1>1. taskRegistry \in [Slots -> SlotRecord]
  BY Constants DEF SlotRecord, EmptySlot, HkPeriod, TASKMGR_HOUSEKEEPING_TASK_ID
<1>2. timer \in [Timers -> TimerRecord]
  BY Constants DEF TimerRecord, NoTimer
<1>3. cmds \in Seq(CmdRecord) /\ Len(cmds) =< QueueLen
  BY Constants, TaskMgrAssumption DEF CmdRecord
<1>4. op \in [Client -> OpRecord]
  BY Constants DEF OpRecord, Idle
<1> QED
  BY <1>1, <1>2, <1>3, <1>4, Constants DEF Typed, Idle, Resting, DaemonRecord

(* What a step of a client that holds the mutex does to the calls: it goes *)
(* on to another step, or returns.                                         *)
LEMMA ReturnTyped ==
  ASSUME Typed, NEW c \in Client, op[c] # Idle, Return(c),
         taskRegistry' \in [Slots -> SlotRecord], timer' \in [Timers -> TimerRecord],
         cmds' \in Seq(CmdRecord) /\ Len(cmds') =< QueueLen, UNCHANGED daemon
  PROVE  Typed'
BY Constants DEF Typed, Return, OpRecord, Idle

LEMMA GoOnTyped ==
  ASSUME Typed, NEW c \in Client, op[c] # Idle,
         NEW step \in {"createStart", "createScrap", "deleteStop"} \cup Marks,
         step = "updateMark" => op[c].step = "update",
         NEW s \in Slots, GoOn(c, step, s),
         taskRegistry' \in [Slots -> SlotRecord], timer' \in [Timers -> TimerRecord],
         cmds' \in Seq(CmdRecord) /\ Len(cmds') =< QueueLen, UNCHANGED daemon
  PROVE  Typed'
<1>1. op' = [op EXCEPT ![c].step = step, ![c].slot = s] /\ mutex' = mutex
  BY DEF GoOn
<1>2. op' \in [Client -> OpRecord]
  <2>1. step \in {"idle"} \cup Before \cup Marks /\ op \in [Client -> OpRecord]
    BY DEF Before, Marks, Typed
  <2> QED
    BY ONLY <1>1, <2>1 DEF OpRecord
<1>3. /\ \A d \in Client \ {c} : op'[d] = op[d]
      /\ op'[c].step = step /\ op'[c].ms = op[c].ms /\ op'[c] # Idle
  BY <1>1 DEF Typed, OpRecord, Idle, Marks
<1> QED
  BY <1>1, <1>2, <1>3 DEF Typed, Idle, Marks

LEMMA CallTyped ==
  ASSUME Typed, NEW c \in Client, NEW call \in Calls, Call(c, call)
  PROVE  Typed'
<1>1. call \in OpRecord /\ call.step \notin {"idle"} \cup Marks
  BY Constants DEF Calls, OpRecord, Before, Marks
<1>2. /\ call.step = "create" => call.id \in Id
      /\ call.step \in {"delete", "enable", "disable", "update"} => call.id \in Touched
      /\ call.step = "update" => call.ms \in NewPeriods
  BY DEF Calls
<1>3. /\ op' = [op EXCEPT ![c] = call] /\ mutex' = c /\ mutex = Free /\ op[c] = Idle
      /\ call.step = "delete" => call.id # TASKMGR_HOUSEKEEPING_TASK_ID
      /\ UNCHANGED <<taskRegistry, timer, cmds, daemon>>
  BY DEF Call
<1> QED
  BY <1>1, <1>2, <1>3, Constants DEF Typed, Idle, Marks

LEMMA ProceedFacts ==
  ASSUME NEW c \in Client, Proceed(c)
  PROVE  op[c] # Idle /\ ClientMayRun /\ UNCHANGED daemon
<1>1. ClientMayRun /\ op[c].step # "idle"
  <2>1. CASE \/ CreateRejected(c) \/ CreateNoTimer(c) \/ CreateFill(c)
             \/ CreateStart(c) \/ CreateUnstarted(c) \/ CreateScrap(c)
    BY <2>1 DEF CreateRejected, CreateNoTimer, CreateFill, CreateStart, CreateUnstarted,
                CreateScrap, Doing
  <2>2. CASE NotFound(c) \/ DeleteMark(c) \/ DeleteStop(c) \/ SendCommand(c)
    BY <2>2 DEF NotFound, DeleteMark, DeleteStop, SendCommand, Send, Doing, Found
  <2>3. CASE EnableMark(c) \/ DisableMark(c) \/ UpdateMark(c)
    BY <2>3 DEF EnableMark, DisableMark, UpdateMark, Doing
  <2> QED
    BY <2>1, <2>2, <2>3 DEF Proceed
<1>2. UNCHANGED daemon
  BY DEF Proceed, CreateRejected, CreateNoTimer, CreateFill, CreateStart, CreateUnstarted,
         CreateScrap, NotFound, DeleteMark, DeleteStop, SendCommand, Send, EnableMark,
         DisableMark, UpdateMark, Stop
<1> QED
  BY <1>1, <1>2 DEF Idle

LEMMA ProceedTyped ==
  ASSUME Typed, NEW c \in Client, Proceed(c)
  PROVE  Typed'
<1>0. op[c] \in OpRecord /\ Typed /\ EmptySlot \in SlotRecord
  BY DEF Typed, EmptySlot, SlotRecord
<1>1. op[c] # Idle
  BY ProceedFacts
<1>2. \A s \in Slots : taskRegistry[s].timer \in Timers \cup {0}
  BY DEF Typed, SlotRecord
<1>3. op[c].slot \in Slots
  BY <1>0 DEF OpRecord
<1>4. CASE CreateRejected(c) \/ NotFound(c)
  BY <1>0, <1>1, <1>4, ReturnTyped DEF CreateRejected, NotFound, Stop, Typed
<1>5. CASE CreateNoTimer(c)
  <2>1. taskRegistry' \in [Slots -> SlotRecord]
    BY <1>0, <1>5, FillIs DEF CreateNoTimer, Typed
  <2> QED
    BY <1>1, <1>5, <2>1, ReturnTyped DEF CreateNoTimer, Typed
<1>6. CASE CreateFill(c)
  <2> DEFINE s == SlotToFill(c)
             h == Min(DeadTimers)
             p == _taskmgr_roundPeriod(Period[op[c].id])
  <2>1. s \in Slots /\ h \in Timers /\ op[c].id \in Id
    BY <1>6, FillIs, DeadIs DEF CreateFill, Doing, Typed
  <2>2. p \in Nat
    BY <2>1, RoundPeriod, Constants
  <2>3. /\ taskRegistry' = [taskRegistry EXCEPT ![s] = Filled(s, op[c].id, h)]
        /\ timer' = [timer EXCEPT ![h] = [slot |-> s, state |-> "dormant", reload |-> p # 0]]
        /\ GoOn(c, "createStart", s) /\ UNCHANGED <<cmds, daemon>>
    BY <1>6 DEF CreateFill
  <2>4. Filled(s, op[c].id, h) \in SlotRecord
    <3>1. taskRegistry[s] \in SlotRecord
      BY <2>1 DEF Typed
    <3> HIDE DEF s, h, p
    <3> QED
      BY <2>1, <2>2, <3>1, FilledRecord DEF Filled, p
  <2>5. [slot |-> s, state |-> "dormant", reload |-> p # 0] \in TimerRecord
    BY <2>1 DEF TimerRecord
  <2> HIDE DEF s, h, p
  <2>6. taskRegistry' \in [Slots -> SlotRecord] /\ timer' \in [Timers -> TimerRecord]
    BY <2>3, <2>4, <2>5 DEF Typed
  <2> QED
    BY <1>1, <2>1, <2>3, <2>6, GoOnTyped DEF Typed
<1>7. CASE CreateStart(c)
  BY <1>1, <1>2, <1>3, <1>7, PostTyped, ReturnTyped DEF CreateStart, Typed
<1>8. CASE CreateUnstarted(c)
  BY <1>1, <1>3, <1>8, GoOnTyped DEF CreateUnstarted, Typed
<1>9. CASE CreateScrap(c)
  <2>1. taskRegistry' \in [Slots -> SlotRecord]
    BY <1>0, <1>3, <1>9 DEF CreateScrap, Typed
  <2>2. cmds' \in Seq(CmdRecord) /\ Len(cmds') =< QueueLen
    BY <1>2, <1>3, <1>9, PostTyped DEF CreateScrap, PostOrDrop, Typed
  <2> QED
    BY <1>1, <1>9, <2>1, <2>2, ReturnTyped DEF CreateScrap, Typed
<1>10. CASE DeleteMark(c)
  <2>1. Min(InUse(op[c].id)) \in Slots
    BY <1>10, FoundIs DEF DeleteMark, Found
  <2>2. taskRegistry' \in [Slots -> SlotRecord]
    BY <1>10, DeleteMarkIs DEF Rewrites
  <2> QED
    BY <1>1, <1>10, <2>1, <2>2, GoOnTyped DEF DeleteMark, Typed
<1>11. CASE DeleteStop(c)
  BY <1>1, <1>2, <1>3, <1>11, PostTyped, ReturnTyped DEF DeleteStop, Typed
<1>12. CASE SendCommand(c)
  <2> SUFFICES ASSUME NEW step \in {"enable", "disable", "update"},
                      NEW cmd \in {"start", "stop", "change"}, NEW mark \in Marks,
                      mark = "updateMark" => step = "update",
                      Send(c, step, cmd, mark)
               PROVE  Typed'
    BY <1>12 DEF SendCommand, Marks
  <2>1. Min(InUse(op[c].id)) \in Slots
    BY FoundIs DEF Send, Found
  <2>2. cmds' \in Seq(CmdRecord) /\ Len(cmds') =< QueueLen
    BY <1>2, <2>1, PostTyped DEF Send
  <2> QED
    BY <1>1, <2>1, <2>2, GoOnTyped DEF Send, Typed, Found, Doing
<1>13. CASE EnableMark(c) \/ DisableMark(c)
  <2>1. taskRegistry' \in [Slots -> SlotRecord]
    BY <1>13, FlagMarkIs DEF Rewrites
  <2> QED
    BY <1>1, <1>13, <2>1, ReturnTyped DEF EnableMark, DisableMark, Typed
<1>14. CASE UpdateMark(c)
  <2>2. taskRegistry' \in [Slots -> SlotRecord]
    BY <1>14, UpdateMarkIs DEF Rewrites
  <2> QED
    BY <1>1, <1>14, <2>2, ReturnTyped DEF UpdateMark, Typed
<1> QED
  BY <1>4, <1>5, <1>6, <1>7, <1>8, <1>9, <1>10, <1>11, <1>12, <1>13, <1>14 DEF Proceed

LEMMA DaemonTyped ==
  ASSUME Typed, DaemonStep \/ \E h \in Timers : Expire(h)
  PROVE  Typed'
<1>1. CASE ExecCommand
  <2>1. cmds' \in Seq(CmdRecord) /\ Len(cmds') =< QueueLen
    BY <1>1, TaskMgrAssumption DEF ExecCommand, Typed
  <2>2. Head(cmds) \in CmdRecord
    BY <1>1 DEF ExecCommand, Typed
  <2>3. After(Head(cmds).cmd) \in {"dead", "dormant", "active"}
    BY DEF After
  <2>4. timer' \in [Timers -> TimerRecord]
    BY <1>1, <2>3 DEF ExecCommand, Typed, TimerRecord
  <2> QED
    BY <1>1, <2>1, <2>4 DEF ExecCommand, Typed
<1>2. CASE HkLock \/ HkDone
  <2>1. /\ [daemon EXCEPT !.step = "hkScan"] \in DaemonRecord
        /\ [daemon EXCEPT !.step = "ran"] \in DaemonRecord
        /\ [daemon EXCEPT !.step = "hkScan"].step = "hkScan"
        /\ [daemon EXCEPT !.step = "ran"].step = "ran"
    BY DaemonRecords DEF Typed
  <2> QED
    BY <1>2, <2>1, Constants DEF HkLock, HkDone, Typed
<1>3. CASE HkReclaim
  <2>1. Min(Doomed) \in Slots
    BY <1>3, DoomedIs DEF HkReclaim
  <2>2. taskRegistry' \in [Slots -> SlotRecord]
    BY <1>3, <2>1 DEF HkReclaim, Typed, SlotRecord, EmptySlot
  <2>3. cmds' \in Seq(CmdRecord) /\ Len(cmds') =< QueueLen
    BY <1>3, <2>1, PostTyped DEF HkReclaim, Typed, SlotRecord
  <2> QED
    BY <1>3, <2>2, <2>3 DEF HkReclaim, Typed
<1>4. CASE Finish
  <2>2. taskRegistry' \in [Slots -> SlotRecord]
    BY <1>4, FinishIs DEF Typed, Finish, Rewrites
  <2>3. daemon' \in DaemonRecord /\ daemon'.step \in {"idle", "discard"}
    <3>1. /\ [daemon EXCEPT !.step = "discard"] \in DaemonRecord
          /\ [daemon EXCEPT !.step = "discard"].step = "discard"
          /\ Resting \in DaemonRecord /\ Resting.step = "idle"
      BY DaemonRecords DEF Typed
    <3> QED
      BY <1>4, <3>1 DEF Finish
  <2> QED
    BY <1>4, <2>2, <2>3 DEF Finish, Typed
<1>5. CASE Discard
  <2>1. daemon.timer \in Timers \cup {0}
    BY DEF Typed, DaemonRecord
  <2>2. cmds' \in Seq(CmdRecord) /\ Len(cmds') =< QueueLen
    BY <1>5, <2>1, PostTyped DEF Discard, PostOrDrop, Typed
  <2>3. daemon' \in DaemonRecord /\ daemon'.step = "idle"
    BY <1>5, Constants DEF Discard, Resting, DaemonRecord
  <2> QED
    BY <1>5, <2>2, <2>3 DEF Discard, Typed
<1>6. CASE \E h \in Timers : Expire(h)
  <2> PICK h \in Timers : Expire(h)
    BY <1>6
  <2>1. timer' \in [Timers -> TimerRecord]
    BY DEF Expire, Typed, TimerRecord
  <2>2. daemon' \in DaemonRecord /\ daemon'.step \in {"idle", "ran", "hkLock"}
    BY Constants DEF Expire, Typed, TimerRecord, DaemonRecord, Resting
  <2>3. daemon.step # "hkScan"
    BY DEF Expire, Resting
  <2> QED
    BY <2>1, <2>2, <2>3 DEF Expire, Typed
<1> QED
  BY <1>1, <1>2, <1>3, <1>4, <1>5, <1>6 DEF DaemonStep

LEMMA AlwaysTyped == Spec => []Typed
<1>1. Typed /\ [Next]_vars => Typed'
  <2> SUFFICES ASSUME Typed, [Next]_vars PROVE Typed'
    OBVIOUS
  <2>1. CASE UNCHANGED vars
    BY <2>1 DEF vars, Typed
  <2>2. CASE Next
    BY <2>2, CallTyped, ProceedTyped, DaemonTyped DEF Next
  <2> QED
    BY <2>1, <2>2
<1> QED
  BY InitTyped, <1>1, PTL DEF Spec

-----------------------------------------------------------------------------
(* The queue as a timer sees it.                                           *)
NoCommands(h)  == \A k \in DOMAIN cmds : cmds[k].timer # h
OnlyDeletes(h) == \A k \in DOMAIN cmds : cmds[k].timer = h => cmds[k].cmd = "delete"
Deleted(h)     == \E k \in DOMAIN cmds : cmds[k].timer = h /\ cmds[k].cmd = "delete"

AllDeletes == \A k \in DOMAIN cmds : cmds[k].cmd = "delete"

AtMostOneOther ==
  \A j, k \in DOMAIN cmds : cmds[j].cmd # "delete" /\ cmds[k].cmd # "delete" => j = k

NoneBehindDelete ==
  \A j, k \in DOMAIN cmds :
    j < k /\ cmds[j].cmd = "delete" => cmds[k].timer # cmds[j].timer

LEMMA QueueViews ==
  ASSUME NEW h
  PROVE  /\ NoCommands(h) => OnlyDeletes(h) /\ ~Deleted(h)
         /\ AllDeletes => OnlyDeletes(h)
         /\ OnlyDeletes(h) /\ ~Deleted(h) => NoCommands(h)
BY DEF NoCommands, OnlyDeletes, Deleted, AllDeletes

LEMMA SameCommands ==
  ASSUME cmds' = cmds
  PROVE  /\ \A h \in Timers \cup {0} : /\ NoCommands(h)' <=> NoCommands(h)
                                       /\ OnlyDeletes(h)' <=> OnlyDeletes(h)
                                       /\ Deleted(h)' <=> Deleted(h)
         /\ AllDeletes' <=> AllDeletes
         /\ AtMostOneOther' <=> AtMostOneOther
         /\ NoneBehindDelete' <=> NoneBehindDelete
BY DEF NoCommands, OnlyDeletes, Deleted, AllDeletes, AtMostOneOther, NoneBehindDelete

LEMMA PostShape ==
  ASSUME Typed, NEW cmd \in {"start", "stop", "change", "delete"},
         NEW h \in Timers \cup {0}, Post(cmd, h)
  PROVE  \E n \in Nat :
           /\ n \notin DOMAIN cmds /\ n \in DOMAIN cmds'
           /\ \A k : k \in DOMAIN cmds' <=> k \in DOMAIN cmds \/ k = n
           /\ \A k \in DOMAIN cmds : k < n /\ ~(n < k) /\ cmds'[k] = cmds[k]
           /\ DOMAIN cmds \subseteq Nat
           /\ cmds'[n].cmd = cmd /\ cmds'[n].timer = h
<1> DEFINE e == [cmd |-> cmd, timer |-> h]
           n == Len(cmds) + 1
<1>1. e \in CmdRecord /\ e.cmd = cmd /\ e.timer = h
  BY DEF CmdRecord
<1>2. cmds \in Seq(CmdRecord) /\ cmds' = Append(cmds, e)
  BY DEF Typed, Post
<1> HIDE DEF e
<1>3. /\ n \in Nat \ {0} /\ DOMAIN cmds = 1..n - 1 /\ DOMAIN cmds' = 1..n
      /\ cmds'[n].cmd = cmd /\ cmds'[n].timer = h
      /\ \A k \in DOMAIN cmds : cmds'[k] = cmds[k]
  BY <1>1, <1>2
<1> HIDE DEF n
<1>4. /\ n \notin DOMAIN cmds /\ n \in DOMAIN cmds' /\ n \in Nat
      /\ \A k : k \in DOMAIN cmds' <=> k \in DOMAIN cmds \/ k = n
      /\ \A k \in DOMAIN cmds : k < n /\ ~(n < k)
      /\ DOMAIN cmds \subseteq Nat
  BY ONLY <1>3
<1> QED
  BY <1>3, <1>4

LEMMA PostFacts ==
  ASSUME Typed, NEW cmd \in {"start", "stop", "change", "delete"},
         NEW h \in Timers \cup {0}, Post(cmd, h)
  PROVE  /\ \A g \in Timers \cup {0} :
              /\ NoCommands(g)' <=> NoCommands(g) /\ g # h
              /\ OnlyDeletes(g)' <=> OnlyDeletes(g) /\ (g = h => cmd = "delete")
              /\ Deleted(g)' <=> Deleted(g) \/ (g = h /\ cmd = "delete")
         /\ AllDeletes /\ cmd = "delete" => AllDeletes'
         /\ AllDeletes => AtMostOneOther'
         /\ AtMostOneOther /\ cmd = "delete" => AtMostOneOther'
         /\ NoneBehindDelete /\ ~Deleted(h) => NoneBehindDelete'
<1>1. PICK n \in Nat :
        /\ n \notin DOMAIN cmds /\ n \in DOMAIN cmds'
        /\ \A k : k \in DOMAIN cmds' <=> k \in DOMAIN cmds \/ k = n
        /\ \A k \in DOMAIN cmds : k < n /\ ~(n < k) /\ cmds'[k] = cmds[k]
        /\ DOMAIN cmds \subseteq Nat
        /\ cmds'[n].cmd = cmd /\ cmds'[n].timer = h
  BY PostShape
<1>2. \A g \in Timers \cup {0} :
              /\ NoCommands(g)' <=> NoCommands(g) /\ g # h
              /\ OnlyDeletes(g)' <=> OnlyDeletes(g) /\ (g = h => cmd = "delete")
              /\ Deleted(g)' <=> Deleted(g) \/ (g = h /\ cmd = "delete")
  BY <1>1 DEF NoCommands, OnlyDeletes, Deleted
<1>3. /\ AllDeletes /\ cmd = "delete" => AllDeletes'
      /\ AllDeletes => AtMostOneOther'
      /\ AtMostOneOther /\ cmd = "delete" => AtMostOneOther'
  BY <1>1 DEF AllDeletes, AtMostOneOther
<1>4. NoneBehindDelete /\ ~Deleted(h) => NoneBehindDelete'
  BY <1>1 DEF NoneBehindDelete, Deleted
<1> QED
  BY <1>2, <1>3, <1>4

LEMMA TailShape ==
  ASSUME Typed, cmds # <<>>, cmds' = Tail(cmds)
  PROVE  /\ \A k \in DOMAIN cmds' : k + 1 \in DOMAIN cmds /\ cmds'[k] = cmds[k + 1]
         /\ \A k \in DOMAIN cmds : k # 1 => k - 1 \in DOMAIN cmds' /\ cmds'[k - 1] = cmds[k]
         /\ 1 \in DOMAIN cmds /\ cmds[1] = Head(cmds) /\ Head(cmds) \in CmdRecord
         /\ DOMAIN cmds \subseteq Nat /\ DOMAIN cmds' \subseteq Nat
         /\ \A k \in DOMAIN cmds' : k >= 1
<1>1. cmds \in Seq(CmdRecord) /\ cmds # <<>> /\ cmds' = Tail(cmds)
  BY DEF Typed
<1>2. /\ Len(cmds) \in Nat /\ Len(cmds) >= 1 /\ DOMAIN cmds = 1..Len(cmds)
      /\ DOMAIN cmds' = 1..Len(cmds) - 1
      /\ \A k \in DOMAIN cmds' : cmds'[k] = cmds[k + 1]
      /\ Head(cmds) = cmds[1] /\ Head(cmds) \in CmdRecord
  BY <1>1
<1> QED
  BY <1>2

LEMMA TailFacts ==
  ASSUME Typed, cmds # <<>>, cmds' = Tail(cmds),
         NEW h, NEW cmd, h = Head(cmds).timer, cmd = Head(cmds).cmd
  PROVE  /\ h \in Timers \cup {0} /\ cmd \in {"start", "stop", "change", "delete"}
         /\ \A g \in Timers \cup {0} : g # h =>
              /\ NoCommands(g)' <=> NoCommands(g)
              /\ OnlyDeletes(g)' <=> OnlyDeletes(g)
              /\ Deleted(g)' <=> Deleted(g)
         /\ ~NoCommands(h) /\ (Deleted(h)' => Deleted(h))
         /\ cmd # "delete" => ~OnlyDeletes(h) /\ (Deleted(h)' <=> Deleted(h))
         /\ cmd = "delete" => Deleted(h) /\ (NoneBehindDelete => NoCommands(h)')
         /\ AllDeletes => AllDeletes'
         /\ AtMostOneOther => AtMostOneOther'
         /\ AtMostOneOther /\ cmd # "delete" => AllDeletes'
         /\ NoneBehindDelete => NoneBehindDelete'
<1>3. h \in Timers \cup {0} /\ cmd \in {"start", "stop", "change", "delete"}
  BY TailShape DEF CmdRecord
<1>4. /\ \A k \in DOMAIN cmds' : k + 1 \in DOMAIN cmds /\ cmds'[k] = cmds[k + 1]
      /\ \A k \in DOMAIN cmds : k # 1 => k - 1 \in DOMAIN cmds' /\ cmds'[k - 1] = cmds[k]
      /\ 1 \in DOMAIN cmds /\ cmds[1].timer = h /\ cmds[1].cmd = cmd
      /\ DOMAIN cmds \subseteq Nat /\ DOMAIN cmds' \subseteq Nat
      /\ \A k \in DOMAIN cmds' : k >= 1
  BY TailShape
<1>5. \A g \in Timers \cup {0} : NoCommands(g) => NoCommands(g)'
  BY <1>4 DEF NoCommands
<1>6. \A g \in Timers \cup {0} : NoCommands(g)' /\ g # h => NoCommands(g)
  <2> SUFFICES ASSUME NEW g \in Timers \cup {0}, NoCommands(g)', g # h,
                      NEW k \in DOMAIN cmds, cmds[k].timer = g
               PROVE  FALSE
    BY DEF NoCommands
  <2>1. k # 1 /\ k - 1 \in DOMAIN cmds' /\ cmds'[k - 1] = cmds[k]
    BY <1>4
  <2> QED
    BY <2>1 DEF NoCommands
<1>7. \A g \in Timers \cup {0} : OnlyDeletes(g) => OnlyDeletes(g)'
  BY <1>4 DEF OnlyDeletes
<1>8. \A g \in Timers \cup {0} : OnlyDeletes(g)' /\ g # h => OnlyDeletes(g)
  <2> SUFFICES ASSUME NEW g \in Timers \cup {0}, OnlyDeletes(g)', g # h,
                      NEW k \in DOMAIN cmds, cmds[k].timer = g
               PROVE  cmds[k].cmd = "delete"
    BY DEF OnlyDeletes
  <2>1. k # 1 /\ k - 1 \in DOMAIN cmds' /\ cmds'[k - 1] = cmds[k]
    BY <1>4
  <2> QED
    BY <2>1 DEF OnlyDeletes
<1>9. \A g \in Timers \cup {0} : Deleted(g)' => Deleted(g)
  BY <1>4 DEF Deleted
<1>10. \A g \in Timers \cup {0} : Deleted(g) /\ (g # h \/ cmd # "delete") => Deleted(g)'
  BY <1>4, ZenonT(40) DEF Deleted
<1>11. ~NoCommands(h) /\ (cmd # "delete" => ~OnlyDeletes(h)) /\ (cmd = "delete" => Deleted(h))
  BY <1>4 DEF NoCommands, OnlyDeletes, Deleted
<1>12. cmd = "delete" /\ NoneBehindDelete => NoCommands(h)'
  <2> SUFFICES ASSUME cmd = "delete", NoneBehindDelete, NEW k \in DOMAIN cmds', cmds'[k].timer = h
               PROVE  FALSE
    BY DEF NoCommands
  <2>1. 1 < k + 1 /\ k + 1 \in DOMAIN cmds /\ cmds[k + 1].timer = h
    BY <1>4
  <2> QED
    BY <1>4, <2>1 DEF NoneBehindDelete
<1>13. AllDeletes => AllDeletes'
  BY <1>4 DEF AllDeletes
<1>14. AtMostOneOther => AtMostOneOther'
  <2> SUFFICES ASSUME AtMostOneOther, NEW j \in DOMAIN cmds', NEW k \in DOMAIN cmds',
                      cmds'[j].cmd # "delete", cmds'[k].cmd # "delete"
               PROVE  j = k
    BY DEF AtMostOneOther
  <2>1. j + 1 = k + 1
    BY <1>4 DEF AtMostOneOther
  <2> QED
    BY <1>4, <2>1
<1>15. AtMostOneOther /\ cmd # "delete" => AllDeletes'
  <2> SUFFICES ASSUME AtMostOneOther, cmd # "delete", NEW k \in DOMAIN cmds',
                      cmds'[k].cmd # "delete"
               PROVE  FALSE
    BY DEF AllDeletes
  <2>1. k + 1 = 1
    BY <1>4 DEF AtMostOneOther
  <2> QED
    BY <1>4, <2>1
<1>16. NoneBehindDelete => NoneBehindDelete'
  <2> SUFFICES ASSUME NoneBehindDelete, NEW j \in DOMAIN cmds', NEW k \in DOMAIN cmds',
                      j < k, cmds'[j].cmd = "delete"
               PROVE  cmds'[k].timer # cmds'[j].timer
    BY DEF NoneBehindDelete
  <2>1. j + 1 < k + 1 /\ j + 1 \in DOMAIN cmds /\ k + 1 \in DOMAIN cmds
    BY <1>4
  <2> QED
    BY <1>4, <2>1 DEF NoneBehindDelete
<1>17. \A g \in Timers \cup {0} : g # h =>
              /\ NoCommands(g)' <=> NoCommands(g)
              /\ OnlyDeletes(g)' <=> OnlyDeletes(g)
              /\ Deleted(g)' <=> Deleted(g)
  BY <1>5, <1>6, <1>7, <1>8, <1>9, <1>10
<1>18. (Deleted(h)' => Deleted(h)) /\ (cmd # "delete" => (Deleted(h)' <=> Deleted(h)))
  BY <1>3, <1>9, <1>10
<1> QED
  BY <1>3, <1>11, <1>12, <1>13, <1>14, <1>15, <1>16, <1>17, <1>18

-----------------------------------------------------------------------------
(* What is assumed of the system: the daemon has the highest priority, and *)
(* one-shots are left alone: what clients delete, enable, disable or       *)
(* re-time is a periodic task and stays one.                               *)
PeriodicTouched ==
  /\ \A id \in Touched : Period[id] >= 10
  /\ \A ms \in NewPeriods : ms >= 10

Used(s)    == taskRegistry[s].inUse = 1
TimerOf(s) == taskRegistry[s].timer
OneShot(s) == taskRegistry[s].periodicityMs = 0
Owned(h)   == \E s \in Slots : Used(s) /\ TimerOf(s) = h
Quiet(h)   == timer[h].state # "active" /\ OnlyDeletes(h)

(* The commands: all to live timers, none behind a delete of its timer; a  *)
(* call starts when none waits, so one at most is other than a delete.     *)
QueueOK ==
  /\ \A h \in Timers \cup {0} : ~NoCommands(h) => h \in Timers /\ Live(h)
  /\ NoneBehindDelete /\ AtMostOneOther
  /\ (\E c \in Client : op[c].step \in Before) => AllDeletes

(* A slot in use and its timer belong to each other, and the timer is not  *)
(* being deleted.  A one-shot is not being deleted either, and its timer,  *)
(* once started, is sent nothing more.                                     *)
SlotOK(s) ==
  IF Used(s)
    THEN /\ TimerOf(s) \in Timers
         /\ Live(TimerOf(s)) /\ timer[TimerOf(s)].slot = s
         /\ ~Deleted(TimerOf(s))
         /\ timer[TimerOf(s)].reload <=> ~OneShot(s)
         /\ taskRegistry[s].function # "NULL"
         /\ taskRegistry[s].function = "houseKeepingTask" <=> s = 0
         /\ OneShot(s) =>
              /\ taskRegistry[s].id \notin Touched
              /\ taskRegistry[s].pendingDelete = 0
              /\ timer[TimerOf(s)].state = "active" => NoCommands(TimerOf(s))
    ELSE taskRegistry[s].pendingDelete = 0

HousekeepingOK ==
  /\ Used(0) /\ ~OneShot(0)
  /\ taskRegistry[0].id = TASKMGR_HOUSEKEEPING_TASK_ID
  /\ taskRegistry[0].pendingDelete = 0

(* A timer no slot owns never expires again, or is about to be deleted     *)
(* while its old slot is still empty.                                      *)
StaleOK(h) ==
  Live(h) /\ ~Owned(h) =>
    \/ Quiet(h)
    \/ /\ Deleted(h) /\ mutex \notin Client
       /\ taskRegistry[timer[h].slot].function = "NULL"

(* The slot a call works on stays in use under it.                         *)
CallOK(c) ==
  LET s == op[c].slot
  IN  /\ op[c].step \in {"deleteStop"} \cup Marks => Used(s) /\ ~OneShot(s)
      /\ op[c].step = "deleteStop" => s # 0
      /\ op[c].step \in {"createStart", "createScrap"} =>
           /\ Used(s) /\ s # 0
           /\ timer[TimerOf(s)].state = "dormant" /\ NoCommands(TimerOf(s))
           /\ ~(daemon.step = "ran" /\ daemon.slot = s)

(* So does the one whose task the daemon runs; a one-shot's timer has then *)
(* stopped, and is sent nothing before its delete.                         *)
DaemonOK ==
  /\ daemon.step \in {"ran", "hkLock", "hkScan"} =>
       Used(daemon.slot) /\ TimerOf(daemon.slot) = daemon.timer
  /\ daemon.step \in {"hkLock", "hkScan"} => daemon.slot = 0
  /\ daemon.step = "ran" /\ OneShot(daemon.slot) => Quiet(daemon.timer)
  /\ daemon.step = "discard" =>
       /\ daemon.timer \in Timers /\ Live(daemon.timer)
       /\ ~Owned(daemon.timer) /\ NoCommands(daemon.timer)

Inv ==
  /\ Typed /\ QueueOK /\ HousekeepingOK /\ DaemonOK
  /\ \A s \in Slots : SlotOK(s)
  /\ \A h \in Timers : StaleOK(h)
  /\ \A c \in Client : CallOK(c)

LEMMA InitInv == Init => Inv
<1> SUFFICES ASSUME Init PROVE Inv
  OBVIOUS
<1> USE DEF Init
<1>1. Typed
  BY InitTyped
<1>2. /\ cmds \in Seq(CmdRecord) /\ Len(cmds) = 1 /\ DOMAIN cmds = {1}
      /\ cmds[1].timer = 1 /\ cmds[1].cmd = "start"
  <2>1. cmds = <<[cmd |-> "start", timer |-> 1]>> /\ cmds \in Seq(CmdRecord)
    BY <1>1 DEF Typed
  <2> QED
    BY ONLY <2>1
<1>3. QueueOK
  BY <1>1, <1>2, Constants DEF QueueOK, NoCommands, NoneBehindDelete, AtMostOneOther, Idle,
     Before, Live
<1>4. \A s \in Slots : SlotOK(s)
  <2> SUFFICES ASSUME NEW s \in Slots PROVE SlotOK(s)
    OBVIOUS
  <2>1. CASE s = 0
    BY <1>2, <2>1, Constants
       DEF SlotOK, Used, TimerOf, OneShot, Live, Deleted, HkPeriod
  <2>2. CASE s # 0
    BY <2>2 DEF SlotOK, Used, EmptySlot
  <2> QED
    BY <2>1, <2>2
<1>5. HousekeepingOK
  BY Constants DEF HousekeepingOK, Used, OneShot, HkPeriod
<1>6. \A h \in Timers : StaleOK(h)
  <2> SUFFICES ASSUME NEW h \in Timers PROVE StaleOK(h)
    OBVIOUS
  <2>1. CASE h = 1
    BY <2>1, Constants DEF StaleOK, Owned, Used, TimerOf
  <2>2. CASE h # 1
    BY <2>2 DEF StaleOK, Live, NoTimer
  <2> QED
    BY <2>1, <2>2
<1>7. DaemonOK /\ \A c \in Client : CallOK(c)
  BY DEF DaemonOK, CallOK, Idle, Resting, Marks
<1> QED
  BY <1>1, <1>3, <1>4, <1>5, <1>6, <1>7 DEF Inv

-----------------------------------------------------------------------------
(* The timers of two slots differ, and slots and timers tell each other.   *)
LEMMA TimersDiffer ==
  ASSUME Inv, NEW s \in Slots, NEW t \in Slots, Used(s), Used(t), TimerOf(s) = TimerOf(t)
  PROVE  s = t
BY DEF Inv, SlotOK

(* A client goes on only when the daemon waits: with an empty queue, or    *)
(* for the mutex the client holds.                                         *)
LEMMA ClientFacts ==
  ASSUME Inv, DaemonFirst, NEW c \in Client, ClientMayRun, op[c] # Idle
  PROVE  /\ mutex = c /\ \A d \in Client \ {c} : op[d] = Idle
         /\ daemon.step \in {"idle", "hkLock"}
         /\ daemon.step = "idle" => cmds = <<>>
         /\ daemon.step = "hkLock" => daemon.slot = 0
<1>1. mutex = c /\ \A d \in Client \ {c} : op[d] = Idle
  BY DEF Inv, Typed
<1>2. daemon.step # "hkScan" /\ daemon \in DaemonRecord
  BY <1>1, Constants DEF Inv, Typed
<1>3. ~DaemonRunnable
  BY DEF ClientMayRun
<1>4. daemon.step \in {"idle", "hkLock"} /\ (daemon.step = "idle" => cmds = <<>>)
  BY <1>2, <1>3 DEF DaemonRunnable, DaemonRecord
<1> QED
  BY <1>1, <1>4 DEF Inv, DaemonOK

LiveTargets == \A h \in Timers \cup {0} : ~NoCommands(h) => h \in Timers /\ Live(h)

(* While a client holds the mutex no stale timer is active.                *)
StaleQuiet == \A h \in Timers : Live(h) /\ ~Owned(h) => Quiet(h)

LEMMA ClientCloses ==
  ASSUME Inv, DaemonFirst, NEW c \in Client, ClientMayRun, op[c] # Idle,
         UNCHANGED daemon, \A d \in Client \ {c} : op'[d] = op[d], Typed',
         LiveTargets', NoneBehindDelete', AtMostOneOther',
         op'[c].step \in Before => AllDeletes',
         HousekeepingOK', TimerOf(0)' = TimerOf(0),
         \A s \in Slots : SlotOK(s)', StaleQuiet', CallOK(c)'
  PROVE  Inv'
<1>1. QueueOK'
  BY ClientFacts DEF QueueOK, LiveTargets, Idle, Before
<1>2. \A d \in Client : CallOK(d)'
  BY ClientFacts DEF CallOK, Idle, Marks
<1>3. \A h \in Timers : StaleOK(h)'
  BY DEF StaleOK, StaleQuiet
<1>4. DaemonOK'
  BY ClientFacts DEF DaemonOK, Inv, HousekeepingOK
<1> QED
  BY <1>1, <1>2, <1>3, <1>4 DEF Inv

LEMMA ClientStarts ==
  ASSUME Inv, mutex \in Client
  PROVE  StaleQuiet /\ LiveTargets
BY DEF Inv, StaleOK, StaleQuiet, QueueOK, LiveTargets

(* What survives a step that leaves slots, timers and queue alone.         *)
LEMMA SameViews ==
  ASSUME UNCHANGED <<taskRegistry, timer, cmds>>
  PROVE  /\ \A s \in Slots : SlotOK(s)' <=> SlotOK(s)
         /\ \A h \in Timers \cup {0} : /\ Live(h)' <=> Live(h)
                                       /\ Owned(h)' <=> Owned(h)
                                       /\ Quiet(h)' <=> Quiet(h)
                                       /\ NoCommands(h)' <=> NoCommands(h)
                                       /\ Deleted(h)' <=> Deleted(h)
         /\ HousekeepingOK' <=> HousekeepingOK
         /\ StaleQuiet' <=> StaleQuiet
         /\ LiveTargets' <=> LiveTargets
<1>1. \A h \in Timers \cup {0} : /\ Live(h)' <=> Live(h)
                                 /\ Owned(h)' <=> Owned(h)
                                 /\ Quiet(h)' <=> Quiet(h)
                                 /\ NoCommands(h)' <=> NoCommands(h)
                                 /\ Deleted(h)' <=> Deleted(h)
  BY SameCommands DEF Live, Owned, Used, TimerOf, Quiet
<1>2. \A s \in Slots : SlotOK(s)' <=> SlotOK(s)
  BY <1>1 DEF SlotOK, Used, TimerOf, OneShot
<1>3. HousekeepingOK' <=> HousekeepingOK
  BY DEF HousekeepingOK, Used, OneShot
<1>4. (StaleQuiet' <=> StaleQuiet) /\ (LiveTargets' <=> LiveTargets)
  BY <1>1 DEF StaleQuiet, LiveTargets
<1> QED
  BY <1>1, <1>2, <1>3, <1>4

LEMMA ReturnFacts ==
  ASSUME Typed, NEW c \in Client, Return(c)
  PROVE  /\ \A d \in Client \ {c} : op'[d] = op[d]
         /\ op'[c].step \notin Before /\ CallOK(c)'
BY DEF Typed, Return, Idle, Before, CallOK, Marks

LEMMA GoOnFacts ==
  ASSUME Typed, NEW c \in Client, NEW step, NEW s, GoOn(c, step, s)
  PROVE  /\ \A d \in Client \ {c} : op'[d] = op[d]
         /\ op'[c].step = step /\ op'[c].slot = s
BY DEF Typed, GoOn, OpRecord

LEMMA StopInv ==
  ASSUME Inv, DaemonFirst, NEW c \in Client, CreateRejected(c) \/ NotFound(c)
  PROVE  Inv'
<1>1. Return(c) /\ UNCHANGED <<taskRegistry, timer, cmds, daemon>>
  BY DEF CreateRejected, NotFound, Stop
<1>2. Proceed(c)
  BY DEF Proceed
<1>3. mutex \in Client
  BY <1>2, ClientFacts, ProceedFacts
<1> QED
  BY <1>1, <1>2, <1>3, ProceedFacts, ClientCloses, ClientStarts, SameViews, SameCommands,
     ReturnFacts, ProceedTyped DEF Inv, QueueOK, TimerOf

LEMMA CreateUnstartedInv ==
  ASSUME Inv, DaemonFirst, NEW c \in Client, CreateUnstarted(c)
  PROVE  Inv'
<1>1. /\ GoOn(c, "createScrap", op[c].slot) /\ op[c].step = "createStart"
      /\ UNCHANGED <<taskRegistry, timer, cmds, daemon>>
  BY DEF CreateUnstarted, Doing
<1>2. Proceed(c)
  BY DEF Proceed
<1>3. mutex \in Client /\ Typed'
  BY <1>2, ClientFacts, ProceedFacts, ProceedTyped DEF Inv
<1>4. AllDeletes
  BY <1>1 DEF Inv, QueueOK, Before
<1>5. CallOK(c)'
  <2>1. /\ op'[c].step = "createScrap" /\ op'[c].slot = op[c].slot
        /\ op[c].slot \in Slots
    BY <1>1, GoOnFacts DEF Inv, Typed, OpRecord
  <2>2. CallOK(c) /\ TimerOf(op[c].slot) \in Timers
    BY <1>1, <2>1 DEF Inv, SlotOK, CallOK
  <2> QED
    BY <1>1, <2>1, <2>2, SameCommands DEF CallOK, Used, TimerOf, Marks
<1>6. \A d \in Client \ {c} : op'[d] = op[d]
  BY <1>1, GoOnFacts DEF Inv
<1> QED
  BY <1>1, <1>2, <1>3, <1>4, <1>5, <1>6, ProceedFacts, ClientCloses, ClientStarts, SameViews,
     SameCommands DEF Inv, QueueOK, TimerOf

(* A command other than a delete, sent to the timer of a slot in use.      *)
LEMMA SendKeeps ==
  ASSUME Inv, StaleQuiet, AllDeletes, NEW s \in Slots, Used(s),
         ~OneShot(s) \/ timer[TimerOf(s)].state = "dormant",
         NEW cmd \in {"start", "stop", "change"}, Post(cmd, TimerOf(s)),
         UNCHANGED <<taskRegistry, timer>>
  PROVE  /\ LiveTargets' /\ NoneBehindDelete' /\ AtMostOneOther'
         /\ HousekeepingOK' /\ TimerOf(0)' = TimerOf(0)
         /\ \A t \in Slots : SlotOK(t)'
         /\ StaleQuiet'
<1> PICK h \in Timers : h = TimerOf(s)
  BY DEF Inv, SlotOK
<1>1. /\ SlotOK(s) /\ Live(h) /\ ~Deleted(h) /\ Typed
      /\ LiveTargets /\ NoneBehindDelete /\ HousekeepingOK /\ Post(cmd, h)
      /\ \A t \in Slots \ {s} : Used(t) => TimerOf(t) # h
      /\ ~OneShot(s) \/ timer[h].state = "dormant"
  BY TimersDiffer DEF Inv, SlotOK, QueueOK, LiveTargets
<1>2. /\ \A g \in Timers \cup {0} :
           /\ NoCommands(g)' <=> NoCommands(g) /\ g # h
           /\ g # h => (OnlyDeletes(g)' <=> OnlyDeletes(g))
           /\ Deleted(g)' <=> Deleted(g)
      /\ NoneBehindDelete' /\ AtMostOneOther'
  BY <1>1, PostFacts
<1>3. \A g \in Timers : (Live(g)' <=> Live(g)) /\ (Owned(g)' <=> Owned(g))
  BY DEF Live, Owned, Used, TimerOf
<1>4. \A t \in Slots : SlotOK(t)'
  <2> SUFFICES ASSUME NEW t \in Slots PROVE SlotOK(t)'
    OBVIOUS
  <2>1. SlotOK(t)
    BY DEF Inv
  <2>2. CASE t = s
    BY <1>1, <1>2, <1>3, <2>1, <2>2 DEF SlotOK, Used, TimerOf, OneShot
  <2>3. CASE t # s
    BY <1>1, <1>2, <1>3, <2>1, <2>3 DEF SlotOK, Used, TimerOf, OneShot
  <2> QED
    BY <2>2, <2>3
<1>5. StaleQuiet'
  <2>1. Owned(h)
    BY DEF Owned
  <2> QED
    BY <1>2, <1>3, <2>1 DEF StaleQuiet, Quiet
<1>6. LiveTargets'
  BY <1>1, <1>2, <1>3, Constants DEF LiveTargets
<1>7. HousekeepingOK' /\ TimerOf(0)' = TimerOf(0)
  BY <1>1 DEF HousekeepingOK, Used, OneShot, TimerOf
<1> QED
  BY <1>2, <1>4, <1>5, <1>6, <1>7

(* A slot in use whose flags or period change, but not the kind of task.   *)
LEMMA MarkKeeps ==
  ASSUME Inv, StaleQuiet, NEW s \in Slots, Used(s), ~OneShot(s), NEW r, Rewrites(s, r),
         r.inUse = 1, r.timer = TimerOf(s), r.periodicityMs # 0,
         r.function = taskRegistry[s].function, r.id = taskRegistry[s].id,
         s = 0 => r.pendingDelete = 0,
         UNCHANGED <<timer, cmds>>
  PROVE  /\ LiveTargets' /\ NoneBehindDelete' /\ (AtMostOneOther' <=> AtMostOneOther)
         /\ HousekeepingOK' /\ TimerOf(0)' = TimerOf(0)
         /\ \A t \in Slots : SlotOK(t)'
         /\ StaleQuiet'
<1>1. /\ taskRegistry'[s] = r /\ \A t \in Slots \ {s} : taskRegistry'[t] = taskRegistry[t]
      /\ LiveTargets /\ NoneBehindDelete /\ HousekeepingOK
  BY DEF Rewrites, Inv, QueueOK, LiveTargets
<1>2. /\ \A g \in Timers \cup {0} : /\ NoCommands(g)' <=> NoCommands(g)
                                    /\ OnlyDeletes(g)' <=> OnlyDeletes(g)
                                    /\ Deleted(g)' <=> Deleted(g)
                                    /\ Live(g)' <=> Live(g)
      /\ NoneBehindDelete' <=> NoneBehindDelete
      /\ AtMostOneOther' <=> AtMostOneOther
  BY SameCommands DEF Live
<1>3. \A t \in Slots : (Used(t)' <=> Used(t)) /\ TimerOf(t)' = TimerOf(t)
                       /\ (OneShot(t)' <=> OneShot(t))
  BY <1>1 DEF Used, TimerOf, OneShot
<1>4. \A g \in Timers : Owned(g)' <=> Owned(g)
  BY <1>3 DEF Owned
<1>5. \A t \in Slots : SlotOK(t)'
  <2> SUFFICES ASSUME NEW t \in Slots PROVE SlotOK(t)'
    OBVIOUS
  <2>1. SlotOK(t)
    BY DEF Inv
  <2> QED
    BY <1>1, <1>2, <1>3, <2>1 DEF SlotOK, Used
<1>6. StaleQuiet'
  BY <1>2, <1>4 DEF StaleQuiet, Quiet
<1>7. LiveTargets'
  BY <1>1, <1>2 DEF LiveTargets
<1>8. HousekeepingOK' /\ TimerOf(0)' = TimerOf(0)
  BY <1>1, <1>3, Constants DEF HousekeepingOK
<1> QED
  BY <1>1, <1>2, <1>5, <1>6, <1>7, <1>8

LEMMA ProceedStarts ==
  ASSUME Inv, DaemonFirst, NEW c \in Client, Proceed(c)
  PROVE  /\ op[c] # Idle /\ ClientMayRun /\ UNCHANGED daemon /\ Typed /\ Typed'
         /\ StaleQuiet /\ LiveTargets /\ NoneBehindDelete /\ AtMostOneOther
         /\ op[c].step \in Before => AllDeletes
         /\ CallOK(c) /\ op[c].slot \in Slots
         /\ daemon.step # "ran"
BY ProceedFacts, ProceedTyped, ClientFacts, ClientStarts DEF Inv, QueueOK, Typed, OpRecord

LEMMA CreateStartInv ==
  ASSUME Inv, DaemonFirst, NEW c \in Client, CreateStart(c)
  PROVE  Inv'
<1>1. Proceed(c)
  BY DEF Proceed
<1>2. /\ op[c].step = "createStart" /\ Post("start", TimerOf(op[c].slot)) /\ Return(c)
      /\ UNCHANGED <<taskRegistry, timer>>
  BY DEF CreateStart, Doing, TimerOf
<1>3. Used(op[c].slot) /\ timer[TimerOf(op[c].slot)].state = "dormant" /\ AllDeletes
  BY <1>1, <1>2, ProceedStarts DEF CallOK, Before
<1> QED
  BY <1>1, <1>2, <1>3, ProceedStarts, SendKeeps, ReturnFacts, ClientCloses

LEMMA DeleteStopInv ==
  ASSUME Inv, DaemonFirst, NEW c \in Client, DeleteStop(c)
  PROVE  Inv'
<1>1. Proceed(c)
  BY DEF Proceed
<1>2. /\ op[c].step = "deleteStop" /\ Post("stop", TimerOf(op[c].slot)) /\ Return(c)
      /\ UNCHANGED <<taskRegistry, timer>>
  BY DEF DeleteStop, Doing, TimerOf
<1>3. Used(op[c].slot) /\ ~OneShot(op[c].slot) /\ AllDeletes
  BY <1>1, <1>2, ProceedStarts DEF CallOK, Before
<1> QED
  BY <1>1, <1>2, <1>3, ProceedStarts, SendKeeps, ReturnFacts, ClientCloses

(* The slot found by its id holds a periodic task.                         *)
LEMMA FoundPeriodic ==
  ASSUME Inv, NEW c \in Client, InUse(op[c].id) # {},
         op[c].step \in {"delete", "enable", "disable", "update"}
  PROVE  LET s == Min(InUse(op[c].id))
         IN  /\ s \in Slots /\ Used(s) /\ ~OneShot(s)
             /\ op[c].step = "delete" => s # 0
BY FoundIs DEF Inv, Typed, SlotOK, HousekeepingOK, Used

LEMMA SendCommandInv ==
  ASSUME Inv, DaemonFirst, NEW c \in Client, SendCommand(c)
  PROVE  Inv'
<1>1. Proceed(c)
  BY DEF Proceed
<1> SUFFICES ASSUME NEW step \in {"enable", "disable", "update"},
                    NEW cmd \in {"start", "stop", "change"}, NEW mark \in Marks,
                    Send(c, step, cmd, mark)
             PROVE  Inv'
  BY DEF SendCommand, Marks
<1> DEFINE s == Min(InUse(op[c].id))
<1>2. /\ op[c].step = step /\ InUse(op[c].id) # {}
      /\ Post(cmd, TimerOf(s)) /\ GoOn(c, mark, s)
      /\ UNCHANGED <<taskRegistry, timer>>
  BY DEF Send, Found, Doing, TimerOf
<1>3. s \in Slots /\ Used(s) /\ ~OneShot(s)
  BY <1>2, FoundPeriodic
<1> HIDE DEF s
<1>4. AllDeletes
  BY <1>1, <1>2, ProceedStarts DEF Before
<1>5. /\ \A d \in Client \ {c} : op'[d] = op[d]
      /\ op'[c].step = mark /\ op'[c].slot = s
  BY <1>2, GoOnFacts DEF Inv
<1>6. CallOK(c)' /\ op'[c].step \notin Before
  BY <1>2, <1>3, <1>5 DEF CallOK, Used, OneShot, Marks, Before
<1> QED
  BY <1>1, <1>2, <1>3, <1>4, <1>5, <1>6, ProceedStarts, SendKeeps, ClientCloses

LEMMA DeleteMarkInv ==
  ASSUME Inv, DaemonFirst, NEW c \in Client, DeleteMark(c)
  PROVE  Inv'
<1>1. Proceed(c)
  BY DEF Proceed
<1> DEFINE s == Min(InUse(op[c].id))
           r == [taskRegistry[s] EXCEPT !.pendingDelete = 1, !.enabled = 0]
<1>2. /\ op[c].step = "delete" /\ InUse(op[c].id) # {} /\ GoOn(c, "deleteStop", s)
      /\ UNCHANGED <<timer, cmds>>
  BY DEF DeleteMark, Found, Doing
<1>3. s \in Slots /\ Used(s) /\ ~OneShot(s) /\ s # 0
  BY <1>2, FoundPeriodic
<1>4. Rewrites(s, r)
  BY DeleteMarkIs DEF Inv
<1> HIDE DEF s
<1>5. /\ r.inUse = 1 /\ r.timer = TimerOf(s) /\ r.periodicityMs # 0
      /\ r.function = taskRegistry[s].function /\ r.id = taskRegistry[s].id
  BY <1>3 DEF Used, OneShot, TimerOf, Inv, Typed, SlotRecord
<1> HIDE DEF r
<1>6. AllDeletes /\ AllDeletes'
  BY <1>1, <1>2, ProceedStarts, SameCommands DEF Before
<1>7. /\ \A d \in Client \ {c} : op'[d] = op[d]
      /\ op'[c].step = "deleteStop" /\ op'[c].slot = s
  BY <1>2, GoOnFacts DEF Inv
<1>8. CallOK(c)'
  BY <1>3, <1>4, <1>5, <1>7 DEF CallOK, Rewrites, Used, OneShot, Marks
<1> QED
  BY <1>1, <1>2, <1>3, <1>4, <1>5, <1>6, <1>7, <1>8, ProceedStarts, MarkKeeps, ClientCloses

LEMMA MarkInv ==
  ASSUME Inv, DaemonFirst, PeriodicTouched, NEW c \in Client,
         EnableMark(c) \/ DisableMark(c) \/ UpdateMark(c)
  PROVE  Inv'
<1>1. Proceed(c)
  BY DEF Proceed
<1> DEFINE s == op[c].slot
<1>2. op[c].step \in Marks /\ Return(c) /\ UNCHANGED <<timer, cmds>>
  BY DEF EnableMark, DisableMark, UpdateMark, Doing, Marks
<1>3. s \in Slots /\ Used(s) /\ ~OneShot(s)
  BY <1>1, <1>2, ProceedStarts DEF CallOK
<1>4. PICK r : /\ Rewrites(s, r)
               /\ r.inUse = 1 /\ r.timer = TimerOf(s) /\ r.periodicityMs # 0
               /\ r.function = taskRegistry[s].function /\ r.id = taskRegistry[s].id
               /\ r.pendingDelete = taskRegistry[s].pendingDelete
  <2>1. taskRegistry[s] \in SlotRecord
    BY <1>3 DEF Inv, Typed
  <2>2. CASE EnableMark(c) \/ DisableMark(c)
    <3> PICK bit \in {0, 1} : Rewrites(s, [taskRegistry[s] EXCEPT !.enabled = bit])
      BY <2>2, FlagMarkIs DEF Inv
    <3> WITNESS [taskRegistry[s] EXCEPT !.enabled = bit]
    <3> QED
      BY <1>3, <2>1 DEF Used, OneShot, TimerOf, SlotRecord
  <2>3. CASE UpdateMark(c)
    <3> DEFINE p == _taskmgr_roundPeriod(op[c].ms)
    <3>1. op[c].ms >= 10 /\ op[c].ms \in Nat
      BY <2>3, Constants DEF UpdateMark, Doing, Inv, Typed, PeriodicTouched
    <3>2. p # 0 /\ Rewrites(s, [taskRegistry[s] EXCEPT !.periodicityMs = p])
      BY <2>3, <3>1, RoundPeriod, UpdateMarkIs DEF Inv
    <3> HIDE DEF p
    <3> WITNESS [taskRegistry[s] EXCEPT !.periodicityMs = p]
    <3> QED
      BY <1>3, <2>1, <3>2 DEF Used, TimerOf, SlotRecord
  <2> QED
    BY <2>2, <2>3
<1>5. s = 0 => r.pendingDelete = 0
  BY <1>4 DEF Inv, HousekeepingOK
<1> HIDE DEF s
<1> QED
  BY <1>1, <1>2, <1>3, <1>4, <1>5, ProceedStarts, MarkKeeps, ReturnFacts, ClientCloses

-----------------------------------------------------------------------------
(* Slots emptied and filled.                                               *)
LEMMA FillFacts ==
  ASSUME Inv, NEW c \in Client, Candidates(op[c].id) # {},
         taskRegistry[SlotToFill(c)].inUse = 0
  PROVE  /\ SlotToFill(c) \in Slots /\ ~Used(SlotToFill(c)) /\ SlotToFill(c) # 0
         /\ taskRegistry[SlotToFill(c)].pendingDelete = 0
BY FillIs DEF Inv, Used, HousekeepingOK, SlotOK

LEMMA EmptyIs ==
  /\ EmptySlot.inUse = 0 /\ EmptySlot.pendingDelete = 0 /\ EmptySlot.function = "NULL"
  /\ EmptySlot \in SlotRecord
BY DEF EmptySlot, SlotRecord

(* A slot that is not housekeeping's becomes empty while the timers and    *)
(* their commands stay as they are.                                        *)
LEMMA EmptiedSlot ==
  ASSUME Typed, NEW s \in Slots, taskRegistry' = [taskRegistry EXCEPT ![s] = EmptySlot]
  PROVE  /\ taskRegistry'[s] = EmptySlot /\ ~Used(s)'
         /\ \A t \in Slots \ {s} :
              /\ taskRegistry'[t] = taskRegistry[t]
              /\ Used(t)' <=> Used(t)
              /\ TimerOf(t)' = TimerOf(t)
              /\ OneShot(t)' <=> OneShot(t)
         /\ \A h \in Timers : Owned(h)' <=> \E t \in Slots \ {s} : Used(t) /\ TimerOf(t) = h
<1>1. /\ taskRegistry'[s] = EmptySlot
      /\ \A t \in Slots \ {s} : taskRegistry'[t] = taskRegistry[t]
  BY DEF Typed
<1>2. /\ ~Used(s)'
      /\ \A t \in Slots \ {s} :
              /\ Used(t)' <=> Used(t)
              /\ TimerOf(t)' = TimerOf(t)
              /\ OneShot(t)' <=> OneShot(t)
  BY <1>1, EmptyIs DEF Used, TimerOf, OneShot
<1> QED
  BY <1>1, <1>2 DEF Owned

LEMMA CreateNoTimerInv ==
  ASSUME Inv, DaemonFirst, NEW c \in Client, CreateNoTimer(c)
  PROVE  Inv'
<1>1. Proceed(c)
  BY DEF Proceed
<1> PICK s \in Slots : s = SlotToFill(c)
  BY FillFacts DEF CreateNoTimer
<1>2. /\ op[c].step = "create" /\ Return(c)
      /\ taskRegistry' = [taskRegistry EXCEPT ![s] = EmptySlot]
      /\ UNCHANGED <<timer, cmds>>
  BY DEF CreateNoTimer, Doing
<1>3. s \in Slots /\ ~Used(s) /\ s # 0
  BY FillFacts DEF CreateNoTimer
<1>4. /\ taskRegistry'[s] = EmptySlot /\ ~Used(s)'
      /\ \A t \in Slots \ {s} :
              /\ taskRegistry'[t] = taskRegistry[t]
              /\ Used(t)' <=> Used(t)
              /\ TimerOf(t)' = TimerOf(t)
              /\ OneShot(t)' <=> OneShot(t)
      /\ \A h \in Timers : Owned(h)' <=> Owned(h)
  BY <1>2, <1>3, EmptiedSlot DEF Inv, Owned
<1>5. /\ \A g \in Timers \cup {0} : /\ NoCommands(g)' <=> NoCommands(g)
                                    /\ OnlyDeletes(g)' <=> OnlyDeletes(g)
                                    /\ Deleted(g)' <=> Deleted(g)
                                    /\ Live(g)' <=> Live(g)
      /\ NoneBehindDelete' <=> NoneBehindDelete
      /\ AtMostOneOther' <=> AtMostOneOther
  BY <1>2, SameCommands DEF Live
<1>6. \A t \in Slots : SlotOK(t)'
  <2> SUFFICES ASSUME NEW t \in Slots PROVE SlotOK(t)'
    OBVIOUS
  <2>1. CASE t = s
    BY <1>4, <2>1, EmptyIs DEF SlotOK
  <2>2. CASE t # s
    BY <1>2, <1>4, <1>5, <2>2 DEF Inv, SlotOK
  <2> QED
    BY <2>1, <2>2
<1>7. StaleQuiet' /\ LiveTargets'
  BY <1>1, <1>2, <1>4, <1>5, ProceedStarts DEF StaleQuiet, Quiet, LiveTargets
<1>8. HousekeepingOK' /\ TimerOf(0)' = TimerOf(0)
  BY <1>3, <1>4, Constants DEF Inv, HousekeepingOK
<1> QED
  BY <1>1, <1>2, <1>5, <1>6, <1>7, <1>8, ProceedStarts, ReturnFacts, ClientCloses

LEMMA CreateScrapInv ==
  ASSUME Inv, DaemonFirst, NEW c \in Client, CreateScrap(c)
  PROVE  Inv'
<1>1. Proceed(c)
  BY DEF Proceed
<1> PICK s \in Slots : s = op[c].slot
  BY <1>1, ProceedStarts
<1>2. /\ op[c].step = "createScrap" /\ Return(c)
      /\ taskRegistry' = [taskRegistry EXCEPT ![s] = EmptySlot]
      /\ PostOrDrop("delete", TimerOf(s))
      /\ UNCHANGED timer
  BY DEF CreateScrap, Doing, TimerOf
<1>3. /\ s \in Slots /\ Used(s) /\ s # 0 /\ timer[TimerOf(s)].state = "dormant"
      /\ NoCommands(TimerOf(s)) /\ SlotOK(s) /\ AllDeletes
  BY <1>1, <1>2, ProceedStarts DEF CallOK, Inv, Before
<1> PICK h \in Timers : h = TimerOf(s)
  BY <1>3 DEF SlotOK
<1>4. /\ taskRegistry'[s] = EmptySlot /\ ~Used(s)'
      /\ \A t \in Slots \ {s} :
              /\ taskRegistry'[t] = taskRegistry[t]
              /\ Used(t)' <=> Used(t)
              /\ TimerOf(t)' = TimerOf(t)
              /\ OneShot(t)' <=> OneShot(t)
              /\ Used(t) => TimerOf(t) # h
      /\ \A g \in Timers : g # h => (Owned(g)' <=> Owned(g))
  <2>1. \A t \in Slots \ {s} : Used(t) => TimerOf(t) # h
    BY <1>3, TimersDiffer
  <2>2. \A g \in Timers : g # h =>
          (Owned(g) <=> \E t \in Slots \ {s} : Used(t) /\ TimerOf(t) = g)
    BY DEF Owned
  <2> QED
    BY <1>2, <2>1, <2>2, EmptiedSlot DEF Inv
<1>5. /\ \A g \in Timers \cup {0} : /\ g # h => (NoCommands(g)' <=> NoCommands(g))
                                    /\ OnlyDeletes(g)' <=> OnlyDeletes(g)
                                    /\ g # h => (Deleted(g)' <=> Deleted(g))
                                    /\ Live(g)' <=> Live(g)
      /\ NoneBehindDelete' /\ AtMostOneOther'
  <2>1. ~Deleted(h) /\ NoneBehindDelete /\ AtMostOneOther /\ Typed
    BY <1>3, QueueViews DEF Inv, QueueOK
  <2>2. CASE Full
    BY <1>2, <2>1, <2>2, SameCommands DEF Live, PostOrDrop
  <2>3. CASE ~Full
    <3>1. Post("delete", h)
      BY <1>2, <2>3 DEF PostOrDrop
    <3> QED
      BY <1>2, <2>1, <3>1, PostFacts DEF Live
  <2> QED
    BY <2>2, <2>3
<1>6. \A t \in Slots : SlotOK(t)'
  <2> SUFFICES ASSUME NEW t \in Slots PROVE SlotOK(t)'
    OBVIOUS
  <2>1. CASE t = s
    BY <1>4, <2>1, EmptyIs DEF SlotOK
  <2>2. CASE t # s
    BY <1>2, <1>4, <1>5, <2>2 DEF Inv, SlotOK
  <2> QED
    BY <2>1, <2>2
<1>7. StaleQuiet'
  <2>1. Quiet(h)'
    BY <1>2, <1>3, <1>5, QueueViews DEF Quiet
  <2> QED
    BY <1>1, <1>2, <1>4, <1>5, <2>1, ProceedStarts DEF StaleQuiet, Quiet
<1>8. LiveTargets'
  BY <1>1, <1>2, <1>3, <1>5, ProceedStarts DEF LiveTargets, SlotOK
<1>9. HousekeepingOK' /\ TimerOf(0)' = TimerOf(0)
  BY <1>3, <1>4, Constants DEF Inv, HousekeepingOK
<1> QED
  BY <1>1, <1>2, <1>5, <1>6, <1>7, <1>8, <1>9, ProceedStarts, ReturnFacts, ClientCloses

LEMMA CreateFillInv ==
  ASSUME Inv, DaemonFirst, PeriodicTouched, NEW c \in Client, CreateFill(c)
  PROVE  Inv'
<1>1. Proceed(c)
  BY DEF Proceed
<1> PICK s \in Slots : s = SlotToFill(c)
  BY FillFacts DEF CreateFill
<1> DEFINE id == op[c].id
           p == _taskmgr_roundPeriod(Period[id])
           k == [slot |-> s, state |-> "dormant", reload |-> p # 0]
<1> PICK h \in Timers : h = Min(DeadTimers) /\ timer[h].state = "dead"
  BY DeadIs DEF CreateFill
<1> DEFINE r == Filled(s, id, h)
<1>2. /\ op[c].step = "create" /\ GoOn(c, "createStart", s)
      /\ taskRegistry' = [taskRegistry EXCEPT ![s] = r]
      /\ timer' = [timer EXCEPT ![h] = k]
      /\ UNCHANGED cmds
  BY DEF CreateFill, Doing
<1>3. /\ s \in Slots /\ ~Used(s) /\ s # 0
      /\ taskRegistry[s].pendingDelete = 0
  BY FillFacts DEF CreateFill
<1>4. id \in Id /\ p \in Nat /\ (p = 0 => id \notin Touched)
  <2>1. id \in Id
    BY <1>2 DEF Inv, Typed
  <2> QED
    BY <2>1, Constants, RoundPeriod DEF PeriodicTouched
<1>5. /\ r.inUse = 1 /\ r.timer = h /\ r.periodicityMs = p /\ r.function = "user"
      /\ r.id = id /\ r.pendingDelete = 0
  <2> HIDE DEF id, p
  <2> QED
    BY <1>3, <1>4 DEF Filled, p, Inv, Typed, SlotRecord
<1>6. k.slot = s /\ k.state = "dormant" /\ (k.reload <=> p # 0)
  OBVIOUS
<1> HIDE DEF id, p, k, r
<1>7. /\ taskRegistry'[s] = r /\ \A t \in Slots \ {s} : taskRegistry'[t] = taskRegistry[t]
      /\ timer'[h] = k /\ \A g \in Timers \ {h} : timer'[g] = timer[g]
  BY <1>2, <1>3 DEF Inv, Typed
<1>8. /\ \A g \in Timers \cup {0} : /\ NoCommands(g)' <=> NoCommands(g)
                                    /\ OnlyDeletes(g)' <=> OnlyDeletes(g)
                                    /\ Deleted(g)' <=> Deleted(g)
      /\ NoneBehindDelete' <=> NoneBehindDelete
      /\ AtMostOneOther' <=> AtMostOneOther
      /\ AllDeletes' <=> AllDeletes
  BY <1>2, SameCommands
<1>9. NoCommands(h) /\ ~Deleted(h) /\ ~Live(h)
  BY <1>1, ProceedStarts, QueueViews DEF LiveTargets, Live
<1>10. /\ \A t \in Slots \ {s} : /\ Used(t)' <=> Used(t)
                                 /\ TimerOf(t)' = TimerOf(t)
                                 /\ OneShot(t)' <=> OneShot(t)
                                 /\ Used(t) => TimerOf(t) # h
       /\ Used(s)' /\ TimerOf(s)' = h /\ (OneShot(s)' <=> p = 0)
       /\ \A g \in Timers \ {h} : Live(g)' <=> Live(g)
       /\ Live(h)'
  BY <1>5, <1>6, <1>7, <1>9 DEF Used, TimerOf, OneShot, Live, Inv, SlotOK
<1>11. \A t \in Slots : SlotOK(t)'
  <2> SUFFICES ASSUME NEW t \in Slots PROVE SlotOK(t)'
    OBVIOUS
  <2>1. CASE t = s
    BY <1>3, <1>4, <1>5, <1>6, <1>7, <1>8, <1>9, <1>10, <2>1 DEF SlotOK
  <2>2. CASE t # s
    BY <1>7, <1>8, <1>10, <2>2 DEF Inv, SlotOK
  <2> QED
    BY <2>1, <2>2
<1>12. StaleQuiet'
  <2> SUFFICES ASSUME NEW g \in Timers, Live(g)', ~Owned(g)' PROVE Quiet(g)'
    BY DEF StaleQuiet
  <2>1. g # h
    BY <1>3, <1>10 DEF Owned
  <2>2. Live(g) /\ ~Owned(g)
    BY <1>3, <1>10, <2>1 DEF Owned
  <2> QED
    BY <1>1, <1>7, <1>8, <2>1, <2>2, ProceedStarts DEF StaleQuiet, Quiet
<1>13. LiveTargets'
  BY <1>1, <1>8, <1>10, ProceedStarts, Constants DEF LiveTargets
<1>14. HousekeepingOK' /\ TimerOf(0)' = TimerOf(0)
  BY <1>3, <1>7, <1>10, Constants DEF Inv, HousekeepingOK
<1>15. /\ \A d \in Client \ {c} : op'[d] = op[d]
       /\ op'[c].step = "createStart" /\ op'[c].slot = s
  BY <1>2, GoOnFacts DEF Inv
<1>16. CallOK(c)'
  <2>1. daemon'.step # "ran"
    BY <1>1, ProceedStarts
  <2>2. timer'[h].state = "dormant" /\ NoCommands(h)'
    BY <1>6, <1>7, <1>8, <1>9
  <2> QED
    BY <1>3, <1>10, <1>15, <2>1, <2>2 DEF CallOK, Marks
<1> QED
  BY <1>1, <1>2, <1>8, <1>11, <1>12, <1>13, <1>14, <1>15, <1>16, ProceedStarts, ClientCloses
     DEF Before

LEMMA CallInv ==
  ASSUME Inv, DaemonFirst, NEW c \in Client, NEW call \in Calls, Call(c, call)
  PROVE  Inv'
<1>1. /\ mutex = Free /\ op' = [op EXCEPT ![c] = call] /\ ClientMayRun
      /\ UNCHANGED <<taskRegistry, timer, cmds, daemon>>
  BY DEF Call
<1>2. Typed'
  BY CallTyped DEF Inv
<1>3. daemon.step = "idle" /\ cmds = <<>>
  BY <1>1, Constants DEF ClientMayRun, DaemonRunnable, Inv, Typed, DaemonRecord
<1>4. \A d \in Client : CallOK(d)'
  <2>1. call.step \notin Marks \cup {"createStart", "createScrap", "deleteStop"}
    BY DEF Calls, Marks
  <2>2. \A d \in Client : op'[d].step = "idle" \/ op'[d] = call
    BY <1>1, Constants DEF Inv, Typed
  <2> QED
    BY <2>1, <2>2 DEF CallOK, Marks
<1>5. AllDeletes' /\ \A h \in Timers : ~Deleted(h)
  BY <1>1, <1>3 DEF AllDeletes, Deleted
<1>6. \A h \in Timers : StaleOK(h)'
  BY <1>1, <1>5, SameViews DEF Inv, StaleOK
<1>7. QueueOK'
  BY <1>1, <1>5, SameViews, SameCommands DEF Inv, QueueOK
<1>8. DaemonOK'
  BY <1>1, <1>3 DEF DaemonOK
<1> QED
  BY <1>1, <1>2, <1>4, <1>6, <1>7, <1>8, SameViews DEF Inv

-----------------------------------------------------------------------------
(* The daemon.                                                             *)
LEMMA ExecCommandInv ==
  ASSUME Inv, ExecCommand
  PROVE  Inv'
<1> PICK h \in Timers \cup {0}, cmd \in {"start", "stop", "change", "delete"} :
       h = Head(cmds).timer /\ cmd = Head(cmds).cmd
  <2>1. Head(cmds) \in CmdRecord
    BY DEF ExecCommand, Inv, Typed
  <2> QED
    BY <2>1 DEF CmdRecord
<1>1. /\ Typed /\ cmds # <<>> /\ cmds' = Tail(cmds) /\ daemon = Resting
      /\ timer' = [timer EXCEPT ![h].state = After(cmd)]
      /\ UNCHANGED <<taskRegistry, mutex, op, daemon>>
  BY DEF ExecCommand, Inv
<1>0. UNCHANGED <<taskRegistry, mutex, op, daemon>>
  BY DEF ExecCommand
<1>2. Typed'
  BY DaemonTyped DEF DaemonStep, Inv
<1>3. /\ \A g \in Timers \cup {0} : g # h =>
              /\ NoCommands(g)' <=> NoCommands(g)
              /\ OnlyDeletes(g)' <=> OnlyDeletes(g)
              /\ Deleted(g)' <=> Deleted(g)
      /\ ~NoCommands(h) /\ (Deleted(h)' => Deleted(h))
      /\ cmd # "delete" => ~OnlyDeletes(h) /\ (Deleted(h)' <=> Deleted(h))
      /\ cmd = "delete" => Deleted(h) /\ NoCommands(h)'
      /\ AllDeletes => AllDeletes'
      /\ AtMostOneOther' /\ NoneBehindDelete'
      /\ cmd # "delete" => AllDeletes'
  <2>1. AtMostOneOther /\ NoneBehindDelete
    BY DEF Inv, QueueOK
  <2> QED
    BY <1>1, <2>1, TailFacts
<1>4. h \in Timers /\ Live(h)
  BY <1>3 DEF Inv, QueueOK
<1>5. /\ timer'[h].state = After(cmd) /\ timer'[h].slot = timer[h].slot
      /\ timer'[h].reload = timer[h].reload
      /\ \A g \in Timers \ {h} : timer'[g] = timer[g]
  BY <1>1, <1>4 DEF Inv, Typed, TimerRecord
<1>6. /\ cmd = "delete" => ~Live(h)'
      /\ cmd # "delete" => Live(h)'
      /\ \A g \in Timers \ {h} : Live(g)' <=> Live(g)
  BY <1>5 DEF Live, After
<1>7. /\ \A s \in Slots :
           /\ Used(s)' <=> Used(s)
           /\ TimerOf(s)' = TimerOf(s)
           /\ OneShot(s)' <=> OneShot(s)
      /\ \A g \in Timers : Owned(g)' <=> Owned(g)
  <2>1. taskRegistry' = taskRegistry
    BY <1>1
  <2> QED
    BY ONLY <2>1 DEF Used, TimerOf, OneShot, Owned
<1>8. QueueOK'
  <2>1. (\E c \in Client : op[c].step \in Before)' => AllDeletes'
    BY <1>1, <1>3 DEF Inv, QueueOK
  <2>2. \A g \in Timers \cup {0} : ~NoCommands(g)' => g \in Timers /\ Live(g)'
    BY <1>3, <1>4, <1>6 DEF Inv, QueueOK
  <2> QED
    BY <1>3, <2>1, <2>2 DEF QueueOK
<1>9. \A s \in Slots : SlotOK(s)'
  <2> SUFFICES ASSUME NEW s \in Slots PROVE SlotOK(s)'
    OBVIOUS
  <2>1. SlotOK(s)
    BY DEF Inv
  <2>2. CASE Used(s) /\ TimerOf(s) = h
    <3>1. cmd # "delete" /\ ~Deleted(h)'
      BY <1>3, <2>1, <2>2 DEF SlotOK
    <3>2. NoCommands(h)'
      BY <1>3, <3>1 DEF AllDeletes, Deleted, NoCommands
    <3> QED
      BY <1>0, <1>4, <1>5, <1>6, <1>7, <2>1, <2>2, <3>1, <3>2 DEF SlotOK
  <2>3. CASE ~Used(s) \/ TimerOf(s) # h
    BY <1>0, <1>3, <1>5, <1>6, <1>7, <2>1, <2>3 DEF SlotOK
  <2> QED
    BY <2>2, <2>3
<1>10. HousekeepingOK'
  BY <1>0, <1>7, Constants DEF Inv, HousekeepingOK
<1>11. \A g \in Timers : StaleOK(g)'
  <2> SUFFICES ASSUME NEW g \in Timers, Live(g)', ~Owned(g)'
               PROVE  StaleOK(g)'
    BY DEF StaleOK
  <2>1. CASE g # h
    BY <1>1, <1>3, <1>5, <1>6, <1>7, <2>1 DEF Inv, StaleOK, Quiet
  <2>2. CASE g = h
    <3>1. cmd # "delete" /\ ~OnlyDeletes(h) /\ (Deleted(h)' <=> Deleted(h)) /\ Live(h)
      BY <1>3, <1>4, <1>6, <2>2
    <3>2. ~Owned(h) /\ StaleOK(h)
      BY <1>7, <2>2 DEF Inv
    <3> QED
      BY <1>1, <1>5, <2>2, <3>1, <3>2 DEF StaleOK, Quiet
  <2> QED
    BY <2>1, <2>2
<1>12. \A c \in Client : CallOK(c)'
  <2> SUFFICES ASSUME NEW c \in Client PROVE CallOK(c)'
    OBVIOUS
  <2> PICK s \in Slots : s = op[c].slot
    BY DEF Inv, Typed, OpRecord
  <2>1. CallOK(c) /\ SlotOK(s) /\ op'[c] = op[c]
    BY <1>1 DEF Inv
  <2>2. CASE op[c].step \in {"createStart", "createScrap"}
    <3> PICK g \in Timers : g = TimerOf(s)
      BY <2>1, <2>2 DEF CallOK, SlotOK
    <3>1. g # h
      BY <1>3, <2>1, <2>2 DEF CallOK
    <3> QED
      BY <1>0, <1>3, <1>5, <1>7, <2>1, <2>2, <3>1 DEF CallOK, Marks
  <2>3. CASE op[c].step \notin {"createStart", "createScrap"}
    BY <1>0, <1>7, <2>1, <2>3 DEF CallOK
  <2> QED
    BY <2>2, <2>3
<1>13. DaemonOK'
  BY <1>1 DEF DaemonOK, Resting
<1> QED
  BY <1>2, <1>8, <1>9, <1>10, <1>11, <1>12, <1>13 DEF Inv

LEMMA HkLockInv ==
  ASSUME Inv, HkLock
  PROVE  Inv'
<1>1. /\ daemon.step = "hkLock" /\ mutex' = Daemon /\ mutex = Free
      /\ daemon' = [daemon EXCEPT !.step = "hkScan"]
      /\ UNCHANGED <<taskRegistry, timer, cmds, op>>
  BY DEF HkLock
<1>2. Typed'
  BY DaemonTyped DEF DaemonStep, Inv
<1>3. /\ daemon'.step = "hkScan" /\ daemon'.slot = daemon.slot
      /\ daemon'.timer = daemon.timer
  BY <1>1, DaemonRecords DEF Inv, Typed
<1>4. DaemonOK'
  BY <1>1, <1>3 DEF Inv, DaemonOK, Used, TimerOf, OneShot
<1>5. \A c \in Client : CallOK(c)'
  <2> SUFFICES ASSUME NEW c \in Client PROVE CallOK(c)'
    OBVIOUS
  <2>1. op'[c].step = "idle"
    BY <1>1, Constants DEF Inv, Typed
  <2> QED
    BY <2>1 DEF CallOK, Marks
<1>6. \A h \in Timers : StaleOK(h)'
  BY <1>1, Constants, SameViews DEF Inv, StaleOK
<1>7. QueueOK'
  BY <1>1, SameViews, SameCommands DEF Inv, QueueOK
<1> QED
  BY <1>1, <1>2, <1>4, <1>5, <1>6, <1>7, SameViews DEF Inv

LEMMA HkDoneInv ==
  ASSUME Inv, HkDone
  PROVE  Inv'
<1>1. /\ daemon.step = "hkScan" /\ mutex' = Free
      /\ daemon' = [daemon EXCEPT !.step = "ran"]
      /\ UNCHANGED <<taskRegistry, timer, cmds, op>>
  BY DEF HkDone
<1>2. Typed'
  BY DaemonTyped DEF DaemonStep, Inv
<1>3. /\ daemon'.step = "ran" /\ daemon'.slot = daemon.slot
      /\ daemon'.timer = daemon.timer
  BY <1>1, DaemonRecords DEF Inv, Typed
<1>4. DaemonOK'
  BY <1>1, <1>3 DEF Inv, DaemonOK, HousekeepingOK, Used, TimerOf, OneShot
<1>5. \A c \in Client : CallOK(c)'
  <2> SUFFICES ASSUME NEW c \in Client PROVE CallOK(c)'
    OBVIOUS
  <2>1. op'[c].step = "idle"
    BY <1>1, Constants DEF Inv, Typed
  <2> QED
    BY <2>1 DEF CallOK, Marks
<1>6. \A h \in Timers : StaleOK(h)'
  BY <1>1, Constants, SameViews DEF Inv, StaleOK
<1>7. QueueOK'
  BY <1>1, SameViews, SameCommands DEF Inv, QueueOK
<1> QED
  BY <1>1, <1>2, <1>4, <1>5, <1>6, <1>7, SameViews DEF Inv

LEMMA HkReclaimInv ==
  ASSUME Inv, HkReclaim
  PROVE  Inv'
<1> PICK s \in Slots : /\ s = Min(Doomed) /\ Used(s) /\ taskRegistry[s].pendingDelete = 1
  BY DoomedIs DEF HkReclaim, Used
<1> PICK h \in Timers : h = TimerOf(s)
  BY DEF Inv, SlotOK
<1>1. /\ daemon.step = "hkScan" /\ Post("delete", h)
      /\ taskRegistry' = [taskRegistry EXCEPT ![s] = EmptySlot]
  BY DEF HkReclaim, TimerOf
<1>0. UNCHANGED <<mutex, timer, op, daemon>>
  BY DEF HkReclaim
<1>2. Typed'
  BY DaemonTyped DEF DaemonStep, Inv
<1>3. /\ SlotOK(s) /\ Live(h) /\ ~Deleted(h) /\ timer[h].slot = s /\ s # 0
      /\ mutex = Daemon /\ \A c \in Client : op[c].step = "idle"
  BY <1>1, Constants DEF Inv, SlotOK, HousekeepingOK, Typed
<1>4. /\ taskRegistry'[s] = EmptySlot /\ ~Used(s)'
      /\ \A t \in Slots \ {s} :
           /\ taskRegistry'[t] = taskRegistry[t]
           /\ Used(t)' <=> Used(t)
           /\ TimerOf(t)' = TimerOf(t)
           /\ OneShot(t)' <=> OneShot(t)
           /\ Used(t) => TimerOf(t) # h
      /\ \A g \in Timers : g # h => (Owned(g)' <=> Owned(g))
  <2>1. \A t \in Slots \ {s} : Used(t) => TimerOf(t) # h
    BY TimersDiffer
  <2>2. \A g \in Timers : g # h =>
          (Owned(g) <=> \E t \in Slots \ {s} : Used(t) /\ TimerOf(t) = g)
    BY DEF Owned
  <2> QED
    BY <1>1, <2>1, <2>2, EmptiedSlot DEF Inv
<1>5. /\ \A g \in Timers \cup {0} :
           /\ NoCommands(g)' <=> NoCommands(g) /\ g # h
           /\ OnlyDeletes(g)' <=> OnlyDeletes(g)
           /\ Deleted(g)' <=> Deleted(g) \/ g = h
      /\ NoneBehindDelete' /\ AtMostOneOther'
  BY <1>1, <1>3, PostFacts DEF Inv, QueueOK
<1>6. \A g \in Timers : Live(g)' <=> Live(g)
  BY <1>0 DEF Live
<1>7. \A t \in Slots : SlotOK(t)'
  <2> SUFFICES ASSUME NEW t \in Slots PROVE SlotOK(t)'
    OBVIOUS
  <2>1. CASE t = s
    BY <1>4, <2>1, EmptyIs DEF SlotOK
  <2>2. CASE t # s
    BY <1>0, <1>4, <1>5, <1>6, <2>2 DEF Inv, SlotOK
  <2> QED
    BY <2>1, <2>2
<1>8. \A g \in Timers : StaleOK(g)'
  <2> SUFFICES ASSUME NEW g \in Timers PROVE StaleOK(g)'
    OBVIOUS
  <2>1. mutex' \notin Client /\ StaleOK(g)
    BY <1>0, <1>3, Constants DEF Inv
  <2>2. timer'[g] = timer[g] /\ timer[g].slot \in Slots
    BY <1>0 DEF Inv, Typed, TimerRecord
  <2>3. taskRegistry[timer[g].slot].function = "NULL" =>
          taskRegistry'[timer[g].slot].function = "NULL"
    BY <1>4, <2>2, EmptyIs
  <2>4. CASE g = h
    BY <1>3, <1>4, <1>5, <2>1, <2>2, <2>4, EmptyIs DEF StaleOK
  <2>5. CASE g # h
    BY <1>4, <1>5, <1>6, <2>1, <2>2, <2>3, <2>5 DEF StaleOK, Quiet
  <2> QED
    BY <2>4, <2>5
<1>9. QueueOK'
  <2>1. \A c \in Client : op'[c].step \notin Before
    BY <1>0, <1>3 DEF Before
  <2> QED
    BY <1>3, <1>5, <1>6, <2>1 DEF QueueOK, Inv
<1>10. HousekeepingOK' /\ TimerOf(0)' = TimerOf(0)
  BY <1>3, <1>4, Constants DEF Inv, HousekeepingOK
<1>11. \A c \in Client : CallOK(c)'
  BY <1>0, <1>3 DEF CallOK, Marks
<1>12. DaemonOK'
  BY <1>0, <1>1, <1>10 DEF Inv, DaemonOK, HousekeepingOK
<1> QED
  BY <1>2, <1>7, <1>8, <1>9, <1>10, <1>11, <1>12 DEF Inv

LEMMA FinishInv ==
  ASSUME Inv, Finish
  PROVE  Inv'
<1>0. Typed' /\ daemon.step = "ran" /\ UNCHANGED <<mutex, timer, cmds, op>>
  BY DaemonTyped DEF DaemonStep, Inv, Finish
<1>1. CASE taskRegistry[daemon.slot].periodicityMs # 0
  <2>1. daemon' = Resting /\ UNCHANGED taskRegistry
    BY <1>1 DEF Finish
  <2>2. DaemonOK' /\ \A c \in Client : CallOK(c)'
    <3>1. daemon'.step = "idle"
      BY <2>1 DEF Resting
    <3>2. DaemonOK'
      BY <3>1 DEF DaemonOK
    <3>3. \A c \in Client : CallOK(c)'
      <4> SUFFICES ASSUME NEW c \in Client PROVE CallOK(c)'
        OBVIOUS
      <4> PICK t \in Slots : t = op[c].slot
        BY DEF Inv, Typed, OpRecord
      <4>1. CallOK(c) /\ SlotOK(t) /\ op' = op /\ timer' = timer /\ taskRegistry' = taskRegistry
        BY <1>0, <2>1 DEF Inv
      <4>2. \A g \in Timers : NoCommands(g)' <=> NoCommands(g)
        BY <1>0, SameCommands
      <4> QED
        BY <3>1, <4>1, <4>2 DEF CallOK, SlotOK, Used, OneShot, TimerOf
    <3> QED
      BY <3>2, <3>3
  <2>3. \A h \in Timers : StaleOK(h)'
    BY <1>0, <2>1, SameViews DEF Inv, StaleOK
  <2>4. QueueOK'
    BY <1>0, <2>1, SameViews, SameCommands DEF Inv, QueueOK
  <2> QED
    BY <1>0, <2>1, <2>2, <2>3, <2>4, SameViews DEF Inv
<1>2. CASE taskRegistry[daemon.slot].periodicityMs = 0
  <2> PICK s \in Slots : s = daemon.slot
    BY DEF Inv, Typed, DaemonRecord
  <2>1. /\ Used(s) /\ OneShot(s) /\ SlotOK(s) /\ s # 0
        /\ TimerOf(s) = daemon.timer /\ Quiet(daemon.timer)
    BY <1>0, <1>2 DEF Inv, DaemonOK, OneShot, HousekeepingOK
  <2> PICK h \in Timers : h = TimerOf(s)
    BY <2>1 DEF SlotOK
  <2> DEFINE r == Retired(taskRegistry[s])
  <2>2. /\ taskRegistry'[s] = r /\ \A t \in Slots \ {s} : taskRegistry'[t] = taskRegistry[t]
    BY <1>2, FinishIs DEF Inv, Rewrites
  <2>3. r.inUse = 0 /\ r.pendingDelete = 0 /\ r.function = taskRegistry[s].function
    BY <2>1 DEF Retired, SlotOK, Inv, Typed, SlotRecord
  <2> HIDE DEF r
  <2>4. daemon'.step = "discard" /\ daemon'.timer = h
    <3>1. daemon' = [daemon EXCEPT !.step = "discard"] /\ daemon \in DaemonRecord
      BY <1>2 DEF Finish, Inv, Typed
    <3> QED
      BY <2>1, <3>1, DaemonRecords
  <2>5. /\ ~Used(s)'
        /\ \A t \in Slots \ {s} :
             /\ Used(t)' <=> Used(t)
             /\ TimerOf(t)' = TimerOf(t)
             /\ OneShot(t)' <=> OneShot(t)
             /\ Used(t) => TimerOf(t) # h
    BY <2>1, <2>2, <2>3, TimersDiffer DEF Used, TimerOf, OneShot
  <2>6. ~Owned(h)' /\ \A g \in Timers : g # h => (Owned(g)' <=> Owned(g))
    BY <2>5 DEF Owned
  <2>7. /\ \A g \in Timers \cup {0} :
             /\ NoCommands(g)' <=> NoCommands(g)
             /\ OnlyDeletes(g)' <=> OnlyDeletes(g)
             /\ Deleted(g)' <=> Deleted(g)
             /\ Live(g)' <=> Live(g)
        /\ NoneBehindDelete' <=> NoneBehindDelete
        /\ AtMostOneOther' <=> AtMostOneOther
        /\ AllDeletes' <=> AllDeletes
    BY <1>0, SameCommands DEF Live
  <2>8. /\ Live(h) /\ NoCommands(h) /\ Quiet(h) /\ timer[h].state # "active"
    BY <2>1, QueueViews DEF SlotOK, Quiet
  <2>9. \A t \in Slots : SlotOK(t)'
    <3> SUFFICES ASSUME NEW t \in Slots PROVE SlotOK(t)'
      OBVIOUS
    <3>1. CASE t = s
      BY <2>2, <2>3, <2>5, <3>1 DEF SlotOK
    <3>2. CASE t # s
      BY <1>0, <2>2, <2>5, <2>7, <3>2 DEF Inv, SlotOK
    <3> QED
      BY <3>1, <3>2
  <2>10. \A g \in Timers : StaleOK(g)'
    <3> SUFFICES ASSUME NEW g \in Timers PROVE StaleOK(g)'
      OBVIOUS
    <3>1. timer'[g] = timer[g] /\ timer[g].slot \in Slots
      BY <1>0 DEF Inv, Typed, TimerRecord
    <3>2. taskRegistry'[timer[g].slot].function = taskRegistry[timer[g].slot].function
      BY <2>2, <2>3, <3>1
    <3>3. CASE g = h
      BY <2>7, <2>8, <3>1, <3>3 DEF StaleOK, Quiet
    <3>4. CASE g # h
      BY <1>0, <2>6, <2>7, <3>1, <3>2, <3>4 DEF Inv, StaleOK, Quiet
    <3> QED
      BY <3>3, <3>4
  <2>11. QueueOK'
    BY <1>0, <2>7 DEF QueueOK, Inv
  <2>12. HousekeepingOK'
    BY <2>1, <2>2, <2>5, Constants DEF Inv, HousekeepingOK
  <2>13. \A c \in Client : CallOK(c)'
    <3> SUFFICES ASSUME NEW c \in Client PROVE CallOK(c)'
      OBVIOUS
    <3> PICK t \in Slots : t = op[c].slot
      BY DEF Inv, Typed, OpRecord
    <3>1. CallOK(c) /\ SlotOK(t) /\ op' = op /\ timer' = timer
      BY <1>0 DEF Inv
    <3>2. CASE t = s
      BY <1>0, <2>1, <3>1, <3>2 DEF CallOK
    <3>3. CASE t # s
      BY <2>4, <2>5, <2>7, <3>1, <3>3 DEF CallOK, SlotOK
    <3> QED
      BY <3>2, <3>3
  <2>14. DaemonOK'
    BY <2>4, <2>6, <2>7, <2>8 DEF DaemonOK
  <2> QED
    BY <1>0, <2>9, <2>10, <2>11, <2>12, <2>13, <2>14 DEF Inv
<1> QED
  BY <1>1, <1>2

LEMMA DiscardInv ==
  ASSUME Inv, Discard
  PROVE  Inv'
<1> PICK h \in Timers : h = daemon.timer
  BY DEF Discard, Inv, DaemonOK
<1>0. Typed' /\ UNCHANGED <<taskRegistry, mutex, timer, op>>
  BY DaemonTyped DEF DaemonStep, Inv, Discard
<1>1. /\ Live(h) /\ ~Owned(h) /\ NoCommands(h) /\ ~Deleted(h) /\ Quiet(h)
  BY QueueViews DEF Discard, Inv, DaemonOK, StaleOK
<1>2. daemon'.step = "idle" /\ PostOrDrop("delete", h)
  BY DEF Discard, Resting
<1>3. /\ \A g \in Timers \cup {0} :
           /\ g # h => (NoCommands(g)' <=> NoCommands(g))
           /\ OnlyDeletes(g)' <=> OnlyDeletes(g)
           /\ g # h => (Deleted(g)' <=> Deleted(g))
           /\ Deleted(g) => Deleted(g)'
      /\ NoneBehindDelete' /\ AtMostOneOther' /\ (AllDeletes => AllDeletes')
  <2>1. NoneBehindDelete /\ AtMostOneOther /\ Typed
    BY DEF Inv, QueueOK
  <2>2. CASE Full
    BY <1>2, <2>1, <2>2, SameCommands DEF PostOrDrop
  <2>3. CASE ~Full
    <3>1. Post("delete", h)
      BY <1>2, <2>3 DEF PostOrDrop
    <3> QED
      BY <1>1, <2>1, <3>1, PostFacts
  <2> QED
    BY <2>2, <2>3
<1>4. /\ \A t \in Slots :
           /\ Used(t)' <=> Used(t)
           /\ TimerOf(t)' = TimerOf(t)
           /\ OneShot(t)' <=> OneShot(t)
           /\ Used(t) => TimerOf(t) # h
      /\ \A g \in Timers : (Live(g)' <=> Live(g)) /\ (Owned(g)' <=> Owned(g))
  BY <1>0, <1>1 DEF Used, TimerOf, OneShot, Owned, Live
<1>5. \A t \in Slots : SlotOK(t)'
  BY <1>0, <1>3, <1>4 DEF Inv, SlotOK
<1>6. \A g \in Timers : StaleOK(g)'
  <2> SUFFICES ASSUME NEW g \in Timers PROVE StaleOK(g)'
    OBVIOUS
  <2> QED
    BY <1>0, <1>3, <1>4 DEF Inv, StaleOK, Quiet
<1>7. QueueOK'
  BY <1>0, <1>1, <1>3, <1>4 DEF QueueOK, Inv
<1>8. HousekeepingOK'
  BY <1>0, <1>4, Constants DEF Inv, HousekeepingOK
<1>9. \A c \in Client : CallOK(c)'
  <2> SUFFICES ASSUME NEW c \in Client PROVE CallOK(c)'
    OBVIOUS
  <2> PICK t \in Slots : t = op[c].slot
    BY DEF Inv, Typed, OpRecord
  <2>1. CallOK(c) /\ SlotOK(t) /\ op' = op /\ timer' = timer
    BY <1>0 DEF Inv
  <2> QED
    BY <1>2, <1>3, <1>4, <2>1 DEF CallOK, SlotOK
<1>10. DaemonOK'
  BY <1>2 DEF DaemonOK
<1> QED
  BY <1>0, <1>5, <1>6, <1>7, <1>8, <1>9, <1>10 DEF Inv

LEMMA ExpireInv ==
  ASSUME Inv, NEW h \in Timers, Expire(h)
  PROVE  Inv'
<1> PICK s \in Slots : s = timer[h].slot
  BY DEF Inv, Typed, TimerRecord
<1>0. Typed' /\ UNCHANGED <<taskRegistry, mutex, cmds, op>>
  BY DaemonTyped DEF Inv, Expire
<1>1. /\ daemon.step = "idle" /\ timer[h].state = "active" /\ Live(h)
      /\ timer' = IF timer[h].reload THEN timer
                  ELSE [timer EXCEPT ![h].state = "dormant"]
  BY DEF Expire, Resting, Live
<1>2. /\ \A g \in Timers \ {h} : timer'[g] = timer[g]
      /\ timer'[h].slot = s /\ (timer'[h].reload <=> timer[h].reload)
      /\ timer'[h].state \in {"active", "dormant"}
      /\ ~timer[h].reload => timer'[h].state = "dormant"
  <2>1. timer \in [Timers -> TimerRecord]
    BY DEF Inv, Typed
  <2> QED
    BY <1>1, <2>1 DEF TimerRecord
<1>3. \A g \in Timers : Live(g)' <=> Live(g)
  BY <1>1, <1>2 DEF Live
<1>4. /\ \A t \in Slots :
           /\ Used(t)' <=> Used(t)
           /\ TimerOf(t)' = TimerOf(t)
           /\ OneShot(t)' <=> OneShot(t)
      /\ \A g \in Timers : Owned(g)' <=> Owned(g)
  BY <1>0 DEF Used, TimerOf, OneShot, Owned
<1>5. /\ \A g \in Timers \cup {0} :
           /\ NoCommands(g)' <=> NoCommands(g)
           /\ OnlyDeletes(g)' <=> OnlyDeletes(g)
           /\ Deleted(g)' <=> Deleted(g)
      /\ NoneBehindDelete' <=> NoneBehindDelete
      /\ AtMostOneOther' <=> AtMostOneOther
      /\ AllDeletes' <=> AllDeletes
  BY <1>0, SameCommands
<1>6. Owned(h) => Used(s) /\ TimerOf(s) = h
  BY DEF Owned, Inv, SlotOK
<1>7. taskRegistry[s].function # "NULL" => Owned(h)
  BY <1>1 DEF Inv, StaleOK, Quiet
<1>8. \A t \in Slots : SlotOK(t)'
  <2> SUFFICES ASSUME NEW t \in Slots PROVE SlotOK(t)'
    OBVIOUS
  <2>1. SlotOK(t)
    BY DEF Inv
  <2>2. CASE TimerOf(t) = h
    BY <1>0, <1>1, <1>2, <1>3, <1>4, <1>5, <2>1, <2>2 DEF SlotOK
  <2>3. CASE TimerOf(t) # h
    BY <1>0, <1>2, <1>3, <1>4, <1>5, <2>1, <2>3 DEF SlotOK
  <2> QED
    BY <2>2, <2>3
<1>9. \A g \in Timers : StaleOK(g)'
  <2> SUFFICES ASSUME NEW g \in Timers PROVE StaleOK(g)'
    OBVIOUS
  <2>1. StaleOK(g) /\ timer'[g].slot = timer[g].slot
    BY <1>2 DEF Inv
  <2>2. timer[g].state # "active" => timer'[g].state # "active"
    BY <1>1, <1>2
  <2> QED
    BY <1>0, <1>3, <1>4, <1>5, <2>1, <2>2 DEF StaleOK, Quiet
<1>10. QueueOK'
  BY <1>0, <1>3, <1>5 DEF QueueOK, Inv
<1>11. HousekeepingOK'
  BY <1>0, <1>4, Constants DEF Inv, HousekeepingOK
<1>12. \/ daemon' = Resting
       \/ /\ daemon' = [step |-> "ran", slot |-> s, timer |-> h]
          /\ taskRegistry[s].function = "user"
       \/ /\ daemon' = [step |-> "hkLock", slot |-> s, timer |-> h]
          /\ taskRegistry[s].function = "houseKeepingTask"
  BY DEF Expire, Inv, Typed, SlotRecord
<1>13. \/ daemon'.step = "idle"
       \/ /\ daemon'.step = "ran" /\ daemon'.slot = s /\ daemon'.timer = h
          /\ Used(s) /\ TimerOf(s) = h
       \/ /\ daemon'.step = "hkLock" /\ daemon'.slot = s /\ daemon'.timer = h
          /\ Used(s) /\ TimerOf(s) = h /\ s = 0
  BY <1>6, <1>7, <1>12 DEF Resting, Inv, SlotOK
<1>14. \A c \in Client : CallOK(c)'
  <2> SUFFICES ASSUME NEW c \in Client PROVE CallOK(c)'
    OBVIOUS
  <2> PICK t \in Slots : t = op[c].slot
    BY DEF Inv, Typed, OpRecord
  <2>1. CallOK(c) /\ SlotOK(t) /\ op' = op
    BY <1>0 DEF Inv
  <2>2. CASE op[c].step \in {"createStart", "createScrap"}
    <3>1. TimerOf(t) # h /\ TimerOf(t) \in Timers
      BY <1>1, <2>1, <2>2 DEF CallOK, SlotOK
    <3>2. ~(daemon'.step = "ran" /\ daemon'.slot = t)
      BY <1>13, <3>1
    <3> QED
      BY <1>2, <1>4, <1>5, <2>1, <2>2, <3>1, <3>2 DEF CallOK, Marks
  <2>3. CASE op[c].step \notin {"createStart", "createScrap"}
    BY <1>4, <2>1, <2>3 DEF CallOK
  <2> QED
    BY <2>2, <2>3
<1>15. DaemonOK'
  <2>1. Used(s) /\ TimerOf(s) = h /\ OneShot(s) => Quiet(h)'
    <3> SUFFICES ASSUME Used(s), TimerOf(s) = h, OneShot(s) PROVE Quiet(h)'
      OBVIOUS
    <3>1. ~timer[h].reload /\ NoCommands(h)
      BY <1>1 DEF Inv, SlotOK
    <3> QED
      BY <1>2, <1>5, <3>1, QueueViews DEF Quiet
  <2> QED
    BY <1>4, <1>13, <2>1 DEF DaemonOK
<1> QED
  BY <1>0, <1>8, <1>9, <1>10, <1>11, <1>14, <1>15 DEF Inv

LEMMA NextInv ==
  ASSUME DaemonFirst, PeriodicTouched, Inv, [Next]_vars
  PROVE  Inv'
<1>1. CASE \E c \in Client, call \in Calls : Call(c, call)
  BY <1>1, CallInv
<1>2. CASE \E c \in Client : Proceed(c)
  BY <1>2, StopInv, CreateNoTimerInv, CreateFillInv, CreateStartInv, CreateUnstartedInv,
     CreateScrapInv, DeleteMarkInv, DeleteStopInv, SendCommandInv, MarkInv DEF Proceed
<1>3. CASE DaemonStep
  BY <1>3, ExecCommandInv, HkLockInv, HkReclaimInv, HkDoneInv, FinishInv, DiscardInv
     DEF DaemonStep
<1>4. CASE \E h \in Timers : Expire(h)
  BY <1>4, ExpireInv
<1>5. CASE UNCHANGED vars
  <2>1. UNCHANGED <<taskRegistry, mutex, timer, cmds, op, daemon>>
    BY <1>5 DEF vars
  <2>2. Typed' /\ HousekeepingOK' /\ \A s \in Slots : SlotOK(s)'
    BY <2>1, SameViews DEF Inv, Typed
  <2>3. QueueOK' /\ \A h \in Timers : StaleOK(h)'
    BY <2>1, SameViews, SameCommands DEF Inv, QueueOK, StaleOK
  <2>4. DaemonOK' /\ \A c \in Client : CallOK(c)'
    BY <2>1 DEF Inv, DaemonOK, CallOK, Used, TimerOf, OneShot, Quiet, Live, Owned,
       NoCommands, OnlyDeletes
  <2> QED
    BY <2>2, <2>3, <2>4 DEF Inv
<1> QED
  BY <1>1, <1>2, <1>3, <1>4, <1>5 DEF Next

LEMMA AlwaysInv ==
  ASSUME DaemonFirst, PeriodicTouched
  PROVE  Spec => []Inv
<1>1. Inv /\ [Next]_vars => Inv'
  BY NextInv
<1> QED
  BY InitInv, <1>1, PTL DEF Spec

-----------------------------------------------------------------------------
(* Handles, slots and queued commands stay in range and the queue within   *)
(* configTIMER_QUEUE_LENGTH, with any priorities and any use of one-shots. *)
THEOREM TypeCorrect == Spec => []TypeOK
<1>1. Typed => TypeOK
  BY DEF Typed, TypeOK, SlotRecord, TimerRecord
<1> QED
  BY AlwaysTyped, <1>1, PTL

(* xTimerStart, xTimerStop, xTimerChangePeriod and xTimerDelete only ever  *)
(* name a timer that still exists when the daemon gets to the command, if  *)
(* the daemon runs first and no client touches a one-shot.                 *)
THEOREM CommandsFindTheirTimers ==
  ASSUME DaemonFirst, PeriodicTouched
  PROVE  Spec => []CommandsReachLiveTimers
<1>1. Inv => CommandsReachLiveTimers
  <2> SUFFICES ASSUME Inv, NEW k \in DOMAIN cmds
               PROVE  /\ cmds[k].timer \in Timers /\ Live(cmds[k].timer)
                      /\ \A j \in 1..k - 1 : cmds[j] # [cmd |-> "delete", timer |-> cmds[k].timer]
    BY DEF CommandsReachLiveTimers
  <2>1. cmds \in Seq(CmdRecord) /\ k \in 1..Len(cmds) /\ Len(cmds) \in Nat
        /\ DOMAIN cmds = 1..Len(cmds)
    BY DEF Inv, Typed
  <2>2. cmds[k].timer \in Timers \cup {0}
    <3>1. cmds[k] \in CmdRecord
      BY <2>1
    <3> QED
      BY <3>1 DEF CmdRecord
  <2>3. cmds[k].timer \in Timers /\ Live(cmds[k].timer)
    BY <2>2 DEF Inv, QueueOK, NoCommands
  <2>4. \A j \in 1..k - 1 : j \in DOMAIN cmds /\ j < k
    BY <2>1
  <2>5. \A j \in 1..k - 1 : cmds[j] # [cmd |-> "delete", timer |-> cmds[k].timer]
    BY <2>4 DEF Inv, QueueOK, NoneBehindDelete
  <2> QED
    BY <2>3, <2>5
<1> QED
  BY AlwaysInv, <1>1, PTL

-----------------------------------------------------------------------------
(* Every live timer has an owner, or its delete on the way.                *)
Accounted ==
  \A h \in Timers : Live(h) =>
    Owned(h) \/ Deleted(h) \/ (daemon.step = "discard" /\ daemon.timer = h)

(* Commands wait for different timers, or are the one that is no delete,   *)
(* which stands for housekeeping's timer, never deleted: a queue as long   *)
(* as there are timers has room whenever some other timer has no command.  *)
LEMMA RoomForOne ==
  ASSUME Inv, QueueLen >= MaxTimers, NEW h \in Timers, NoCommands(h), TimerOf(0) # h
  PROVE  ~Full
<1> DEFINE n == Len(cmds)
           f == [k \in 1..n |-> IF cmds[k].cmd = "delete" THEN cmds[k].timer ELSE TimerOf(0)]
<1>1. /\ cmds \in Seq(CmdRecord) /\ n \in Nat /\ DOMAIN cmds = 1..n
      /\ \A k \in 1..n : cmds[k] \in CmdRecord
  BY DEF Inv, Typed
<1>2. TimerOf(0) \in Timers /\ ~Deleted(TimerOf(0))
  BY Constants DEF Inv, HousekeepingOK, SlotOK
<1>3. \A k \in 1..n : cmds[k].timer \in Timers /\ cmds[k].timer # h
  <2> SUFFICES ASSUME NEW k \in 1..n PROVE cmds[k].timer \in Timers /\ cmds[k].timer # h
    OBVIOUS
  <2>1. cmds[k].timer \in Timers \cup {0}
    BY <1>1 DEF CmdRecord
  <2> QED
    BY <1>1, <2>1 DEF Inv, QueueOK, NoCommands
<1>4. \A j, k \in 1..n :
        cmds[j].cmd = "delete" /\ cmds[k].cmd = "delete" /\ cmds[j].timer = cmds[k].timer => j = k
  BY <1>1 DEF Inv, QueueOK, NoneBehindDelete
<1>5. \A j, k \in 1..n : cmds[j].cmd # "delete" /\ cmds[k].cmd # "delete" => j = k
  BY <1>1 DEF Inv, QueueOK, AtMostOneOther
<1>6. \A k \in 1..n : cmds[k].cmd = "delete" => cmds[k].timer # TimerOf(0)
  BY <1>1, <1>2 DEF Deleted
<1> HIDE DEF n
<1>7. f \in Injection(1..n, Timers \ {h})
  <2>1. f \in [1..n -> Timers \ {h}]
    BY <1>2, <1>3
  <2>2. \A j, k \in 1..n : f[j] = f[k] => j = k
    BY <1>4, <1>5, <1>6
  <2> QED
    BY <2>1, <2>2 DEF Injection, IsInjective
<1>8. /\ IsFiniteSet(Timers \ {h}) /\ Cardinality(Timers \ {h}) = MaxTimers - 1
      /\ Cardinality(1..n) = n
  <2>1. /\ IsFiniteSet(1..MaxTimers) /\ Cardinality(1..MaxTimers) = MaxTimers
        /\ Cardinality(1..n) = n
    BY <1>1, TaskMgrAssumption, FS_Interval
  <2> QED
    BY <2>1, FS_RemoveElement DEF Timers
<1>9. n =< MaxTimers - 1
  BY <1>7, <1>8, FS_Injection
<1> QED
  <2>0. MaxTimers \in Nat /\ QueueLen \in Nat /\ QueueLen >= MaxTimers /\ n \in Nat
    BY <1>1, TaskMgrAssumption
  <2>1. n < QueueLen
    BY ONLY <1>9, <2>0
  <2> QED
    BY <2>0, <2>1 DEF Full, n

LEMMA AccountedKept ==
  ASSUME Accounted, daemon.step # "discard",
         \A h \in Timers : /\ Live(h)' => Live(h)
                           /\ Owned(h) => Owned(h)'
                           /\ Deleted(h) => Deleted(h)'
  PROVE  Accounted'
BY DEF Accounted

LEMMA OwnedKept ==
  ASSUME \A s \in Slots : taskRegistry'[s].inUse = taskRegistry[s].inUse
                         /\ taskRegistry'[s].timer = taskRegistry[s].timer
  PROVE  \A h \in Timers : Owned(h)' <=> Owned(h)
BY DEF Owned, Used, TimerOf

LEMMA PostKeeps ==
  ASSUME Typed, NEW cmd \in {"start", "stop", "change", "delete"},
         NEW h \in Timers \cup {0}, Post(cmd, h)
  PROVE  /\ \A g \in Timers : Deleted(g) => Deleted(g)'
         /\ cmd = "delete" => Deleted(h)'
BY PostFacts

LEMMA ClientAccounts ==
  ASSUME Inv, Accounted, DaemonFirst, PeriodicTouched, QueueLen >= MaxTimers,
         NEW c \in Client, Proceed(c)
  PROVE  Accounted'
<1>0. Typed /\ daemon.step # "discard" /\ Inv' /\ UNCHANGED daemon
  <2>1. daemon.step # "discard"
    BY ProceedFacts, ClientFacts
  <2>2. Inv'
    BY NextInv DEF Next
  <2> QED
    BY <2>1, <2>2, ProceedFacts DEF Inv
<1>1. CASE UNCHANGED <<taskRegistry, timer, cmds>>
  BY <1>0, <1>1, SameViews, AccountedKept
<1>2. CASE CreateNoTimer(c)
  <2> PICK s \in Slots : s = SlotToFill(c) /\ ~Used(s)
    BY <1>2, FillFacts DEF CreateNoTimer
  <2>1. taskRegistry' = [taskRegistry EXCEPT ![s] = EmptySlot] /\ UNCHANGED <<timer, cmds>>
    BY <1>2 DEF CreateNoTimer
  <2>2. \A h \in Timers : Owned(h)' <=> Owned(h)
    BY <1>0, <2>1, EmptiedSlot DEF Owned
  <2> QED
    BY <1>0, <2>1, <2>2, SameCommands, AccountedKept DEF Live
<1>3. CASE CreateFill(c)
  <2> PICK s \in Slots : s = SlotToFill(c) /\ ~Used(s)
    BY <1>3, FillFacts DEF CreateFill
  <2> PICK h \in Timers : h = Min(DeadTimers)
    BY <1>3, DeadIs DEF CreateFill
  <2> DEFINE r == Filled(s, op[c].id, h)
  <2>1. /\ taskRegistry' = [taskRegistry EXCEPT ![s] = r] /\ UNCHANGED cmds
        /\ \A g \in Timers \ {h} : timer'[g] = timer[g]
    BY <1>3 DEF CreateFill, Inv, Typed
  <2>2. r.inUse = 1 /\ r.timer = h
    BY DEF Filled, Inv, Typed, SlotRecord
  <2> HIDE DEF r
  <2>3. Owned(h)' /\ \A g \in Timers : Owned(g) => Owned(g)'
    BY <1>0, <2>1, <2>2 DEF Typed, Owned, Used, TimerOf
  <2>4. \A g \in Timers \ {h} : Live(g)' <=> Live(g)
    BY <2>1 DEF Live
  <2> QED
    BY <1>0, <2>1, <2>3, <2>4, SameCommands DEF Accounted
<1>4. CASE CreateStart(c) \/ DeleteStop(c) \/ SendCommand(c)
  <2> PICK s \in Slots, cmd \in {"start", "stop", "change"} :
         Post(cmd, TimerOf(s)) /\ UNCHANGED <<taskRegistry, timer>>
    <3>1. op[c].slot \in Slots
      BY <1>0 DEF Typed, OpRecord
    <3> QED
      BY <1>4, <3>1, FoundIs
         DEF CreateStart, DeleteStop, SendCommand, Send, Found, TimerOf
  <2> PICK h \in Timers \cup {0} : h = TimerOf(s)
    BY <1>0 DEF Typed, SlotRecord, TimerOf
  <2> QED
    BY <1>0, PostKeeps, OwnedKept, AccountedKept DEF Live
<1>5. CASE CreateScrap(c)
  <2> PICK s \in Slots : s = op[c].slot
    BY <1>0 DEF Typed, OpRecord
  <2>1. /\ taskRegistry' = [taskRegistry EXCEPT ![s] = EmptySlot]
        /\ PostOrDrop("delete", TimerOf(s)) /\ UNCHANGED timer
        /\ op[c].step = "createScrap"
    BY <1>5 DEF CreateScrap, Doing, TimerOf
  <2>2. CallOK(c) /\ SlotOK(s) /\ SlotOK(0)
    BY Constants DEF Inv
  <2> PICK h \in Timers : h = TimerOf(s)
    BY <2>1, <2>2 DEF CallOK, SlotOK
  <2>3. NoCommands(h) /\ TimerOf(0) # h
    BY <2>1, <2>2, TimersDiffer, Constants DEF CallOK, Inv, HousekeepingOK
  <2>4. Post("delete", h)
    BY <2>1, <2>3, RoomForOne DEF PostOrDrop
  <2>5. Deleted(h)' /\ \A g \in Timers : Deleted(g) => Deleted(g)'
    BY <1>0, <2>4, PostKeeps
  <2>6. \A g \in Timers \ {h} : Owned(g) => Owned(g)'
    BY <1>0, <2>1, EmptiedSlot DEF Owned
  <2> QED
    BY <1>0, <2>1, <2>5, <2>6 DEF Accounted, Live
<1>6. CASE DeleteMark(c) \/ EnableMark(c) \/ DisableMark(c) \/ UpdateMark(c)
  <2>1. PICK s, r : /\ Rewrites(s, r) /\ r.inUse = taskRegistry[s].inUse
                    /\ r.timer = taskRegistry[s].timer
    <3>1. CASE DeleteMark(c)
      <4> DEFINE s == Min(InUse(op[c].id))
                 r == [taskRegistry[s] EXCEPT !.pendingDelete = 1, !.enabled = 0]
      <4>1. Rewrites(s, r)
        BY <1>0, <3>1, DeleteMarkIs
      <4> HIDE DEF s
      <4>2. taskRegistry[s] \in SlotRecord
        BY <1>0, <4>1 DEF Typed, Rewrites
      <4>3. r.inUse = taskRegistry[s].inUse /\ r.timer = taskRegistry[s].timer
        BY <4>2 DEF SlotRecord
      <4> HIDE DEF r
      <4> QED
        BY <4>1, <4>3
    <3>2. CASE EnableMark(c) \/ DisableMark(c)
      <4> DEFINE s == op[c].slot
      <4>1. PICK bit \in {0, 1} : Rewrites(s, [taskRegistry[s] EXCEPT !.enabled = bit])
        BY <1>0, <3>2, FlagMarkIs
      <4> HIDE DEF s
      <4>2. taskRegistry[s] \in SlotRecord
        BY <1>0, <4>1 DEF Typed, Rewrites
      <4> QED
        BY <4>1, <4>2 DEF SlotRecord
    <3>3. CASE UpdateMark(c)
      <4> DEFINE s == op[c].slot
                 p == _taskmgr_roundPeriod(op[c].ms)
                 r == [taskRegistry[s] EXCEPT !.periodicityMs = p]
      <4>1. p \in Nat /\ Rewrites(s, r)
        BY <1>0, <3>3, UpdateMarkIs
      <4> HIDE DEF s, p
      <4>2. taskRegistry[s] \in SlotRecord
        BY <1>0, <4>1 DEF Typed, Rewrites
      <4>3. r.inUse = taskRegistry[s].inUse /\ r.timer = taskRegistry[s].timer
        BY <4>1, <4>2 DEF SlotRecord
      <4> HIDE DEF r
      <4> QED
        BY <4>1, <4>3
    <3> QED
      BY <1>6, <3>1, <3>2, <3>3
  <2>2. \A t \in Slots : /\ taskRegistry'[t].inUse = taskRegistry[t].inUse
                         /\ taskRegistry'[t].timer = taskRegistry[t].timer
    BY <2>1 DEF Rewrites
  <2>3. UNCHANGED <<timer, cmds>>
    BY <1>6 DEF DeleteMark, EnableMark, DisableMark, UpdateMark
  <2> QED
    BY <1>0, <2>2, <2>3, OwnedKept, SameCommands, AccountedKept DEF Live
<1> QED
  BY <1>1, <1>2, <1>3, <1>4, <1>5, <1>6
     DEF Proceed, CreateRejected, CreateUnstarted, NotFound, Stop

LEMMA DaemonAccounts ==
  ASSUME Inv, Accounted, QueueLen >= MaxTimers, DaemonStep \/ \E h \in Timers : Expire(h)
  PROVE  Accounted'
<1>0. Typed
  BY DEF Inv
<1>1. CASE HkLock \/ HkDone
  BY <1>1, SameViews, AccountedKept DEF HkLock, HkDone
<1>2. CASE ExecCommand
  <2> PICK h \in Timers \cup {0}, cmd \in {"start", "stop", "change", "delete"} :
         h = Head(cmds).timer /\ cmd = Head(cmds).cmd
    <3>1. Head(cmds) \in CmdRecord
      BY <1>0, <1>2 DEF ExecCommand, Typed
    <3> QED
      BY <3>1 DEF CmdRecord
  <2>1. /\ cmds # <<>> /\ cmds' = Tail(cmds) /\ daemon.step # "discard"
        /\ timer' = [timer EXCEPT ![h].state = After(cmd)]
        /\ UNCHANGED taskRegistry
    BY <1>2 DEF ExecCommand, Resting
  <2>2. \A g \in Timers : Deleted(g) => Deleted(g)' \/ (g = h /\ cmd = "delete")
    BY <1>0, <2>1, TailFacts
  <2>3. \A g \in Timers : Owned(g)' <=> Owned(g)
    BY <2>1, OwnedKept
  <2>4. h \in Timers /\ Live(h)
    BY <1>0, <2>1, TailFacts DEF Inv, QueueOK
  <2>5. /\ \A g \in Timers \ {h} : Live(g)' <=> Live(g)
        /\ cmd = "delete" => ~Live(h)'
    BY <1>0, <2>1, <2>4 DEF Live, Typed, TimerRecord, After
  <2> QED
    BY <2>1, <2>2, <2>3, <2>4, <2>5 DEF Accounted
<1>3. CASE HkReclaim
  <2> PICK s \in Slots : s = Min(Doomed) /\ Used(s)
    BY <1>3, DoomedIs DEF HkReclaim, Used
  <2> PICK h \in Timers : h = TimerOf(s)
    BY DEF Inv, SlotOK
  <2>1. /\ taskRegistry' = [taskRegistry EXCEPT ![s] = EmptySlot]
        /\ Post("delete", h) /\ UNCHANGED timer /\ daemon.step = "hkScan"
    BY <1>3 DEF HkReclaim, TimerOf
  <2>2. Deleted(h)' /\ \A g \in Timers : Deleted(g) => Deleted(g)'
    BY <1>0, <2>1, PostKeeps
  <2>3. \A g \in Timers \ {h} : Owned(g) => Owned(g)'
    BY <1>0, <2>1, EmptiedSlot DEF Owned
  <2> QED
    BY <2>1, <2>2, <2>3 DEF Accounted, Live
<1>4. CASE Finish
  <2>1. /\ daemon.step = "ran" /\ UNCHANGED <<timer, cmds>>
    BY <1>4 DEF Finish
  <2>2. CASE taskRegistry[daemon.slot].periodicityMs # 0
    BY <1>4, <2>1, <2>2, SameViews, AccountedKept DEF Finish
  <2>3. CASE taskRegistry[daemon.slot].periodicityMs = 0
    <3> PICK s \in Slots : s = daemon.slot
      BY <1>0 DEF Typed, DaemonRecord
    <3>1. TimerOf(s) = daemon.timer /\ Rewrites(s, Retired(taskRegistry[s]))
      BY <1>0, <1>4, <2>1, <2>3, FinishIs DEF Inv, DaemonOK
    <3>2. \A t \in Slots \ {s} : taskRegistry'[t] = taskRegistry[t]
      BY <3>1 DEF Rewrites
    <3>3. \A g \in Timers : Owned(g) => Owned(g)' \/ g = daemon.timer
      BY <3>1, <3>2 DEF Owned, Used, TimerOf
    <3>4. daemon'.step = "discard" /\ daemon'.timer = daemon.timer
      <4>1. daemon' = [daemon EXCEPT !.step = "discard"] /\ daemon \in DaemonRecord
        BY <1>0, <1>4, <2>3 DEF Finish, Typed
      <4> QED
        BY <4>1, DaemonRecords
    <3> QED
      BY <2>1, <3>3, <3>4, SameCommands DEF Accounted, Live
  <2> QED
    BY <2>2, <2>3
<1>5. CASE Discard
  <2> PICK h \in Timers : h = daemon.timer
    BY <1>5 DEF Discard, Inv, DaemonOK
  <2>1. NoCommands(h) /\ TimerOf(0) # h
    BY <1>5, Constants DEF Discard, Inv, DaemonOK, HousekeepingOK, Owned
  <2>2. Post("delete", h) /\ UNCHANGED <<taskRegistry, timer>>
    BY <1>5, <2>1, RoomForOne DEF Discard, PostOrDrop
  <2>3. Deleted(h)' /\ \A g \in Timers : Deleted(g) => Deleted(g)'
    BY <1>0, <2>2, PostKeeps
  <2> QED
    BY <2>2, <2>3, OwnedKept DEF Accounted, Live
<1>6. CASE \E h \in Timers : Expire(h)
  <2> PICK h \in Timers : Expire(h)
    BY <1>6
  <2>1. daemon.step # "discard" /\ UNCHANGED <<taskRegistry, cmds>>
    BY DEF Expire, Resting
  <2>2. \A g \in Timers : Live(g)' => Live(g)
    BY <1>0 DEF Expire, Live, Typed, TimerRecord
  <2> QED
    BY <2>1, <2>2, SameCommands, OwnedKept, AccountedKept
<1> QED
  BY <1>1, <1>2, <1>3, <1>4, <1>5, <1>6 DEF DaemonStep

(* However short the command queue, and so whatever deletes it drops: a    *)
(* slot in use has a live timer of its own, which points back at it.       *)
THEOREM SlotsKeepTimers ==
  ASSUME DaemonFirst, PeriodicTouched
  PROVE  Spec => []SlotsHaveTimers
<1>1. Inv => SlotsHaveTimers
  BY Constants DEF Inv, SlotOK, Used, TimerOf, SlotsHaveTimers
<1> QED
  BY AlwaysInv, <1>1, PTL

(* Nor is there a live timer without a slot, but one whose delete is on    *)
(* its way, if the queue is as long as there are timers.  With a shorter   *)
(* one createTask's delete of a timer it could not start, or the           *)
(* callback's of a finished one-shot, may find the queue full and be lost. *)
THEOREM OwnershipHolds ==
  ASSUME DaemonFirst, PeriodicTouched, QueueLen >= MaxTimers
  PROVE  Spec => []TimersAreOwned
<1>1. Init => Accounted
  BY Constants DEF Init, Accounted, Live, NoTimer, Owned, Used, TimerOf
<1>2. Inv /\ Accounted /\ [Next]_vars => Accounted'
  <2> SUFFICES ASSUME Inv, Accounted, [Next]_vars PROVE Accounted'
    OBVIOUS
  <2>1. CASE \E c \in Client, call \in Calls : Call(c, call)
    <3>1. daemon.step # "discard" /\ UNCHANGED <<taskRegistry, timer, cmds>>
      BY <2>1 DEF Call, ClientMayRun, DaemonRunnable
    <3> QED
      BY <3>1, SameViews, AccountedKept
  <2>2. CASE UNCHANGED vars
    BY <2>2, SameViews DEF vars, Accounted
  <2>3. CASE \E c \in Client : Proceed(c)
    BY <2>3, ClientAccounts
  <2>4. CASE DaemonStep \/ \E h \in Timers : Expire(h)
    BY <2>4, DaemonAccounts
  <2> QED
    BY <2>1, <2>2, <2>3, <2>4 DEF Next
<1>3. Inv /\ Accounted => TimersAreOwned
  <2> SUFFICES ASSUME Inv, Accounted PROVE TimersAreOwned
    OBVIOUS
  <2>1. SlotsHaveTimers
    BY Constants DEF Inv, SlotOK, Used, TimerOf, SlotsHaveTimers
  <2>2. \A h \in Timers : Live(h) =>
          \/ \E s \in Slots : taskRegistry[s].inUse = 1 /\ taskRegistry[s].timer = h
          \/ \E k \in DOMAIN cmds : cmds[k] = [cmd |-> "delete", timer |-> h]
          \/ daemon.step = "discard" /\ daemon.timer = h
    <3> SUFFICES ASSUME NEW h \in Timers, Deleted(h)
                 PROVE  \E k \in DOMAIN cmds : cmds[k] = [cmd |-> "delete", timer |-> h]
      BY DEF Accounted, Owned, Used, TimerOf
    <3>1. PICK k \in DOMAIN cmds : cmds[k].timer = h /\ cmds[k].cmd = "delete"
      BY DEF Deleted
    <3>2. cmds[k] \in CmdRecord
      BY DEF Inv, Typed
    <3>3. cmds[k] = [cmd |-> "delete", timer |-> h]
      BY <3>1, <3>2 DEF CmdRecord
    <3> QED
      BY <3>3
  <2> QED
    BY <2>1, <2>2 DEF TimersAreOwned
<1> QED
  BY AlwaysInv, <1>1, <1>2, <1>3, PTL DEF Spec
-----------------------------------------------------------------------------
(* What a timer will be once its commands are served.                      *)
Will(h, st) ==
  /\ NoCommands(h) => timer[h].state = st
  /\ \A k \in DOMAIN cmds : cmds[k].timer = h => After(cmds[k].cmd) = st

LEMMA WillKept ==
  ASSUME UNCHANGED cmds, NEW h, NEW st, timer'[h].state = timer[h].state
  PROVE  Will(h, st)' <=> Will(h, st)
BY DEF Will, NoCommands

LEMMA PostWill ==
  ASSUME Typed, NEW cmd \in {"start", "stop", "change", "delete"},
         NEW h \in Timers \cup {0}, Post(cmd, h), UNCHANGED timer, NEW st
  PROVE  /\ \A g \in Timers \ {h} : Will(g, st) => Will(g, st)'
         /\ NoCommands(h) /\ After(cmd) = st => Will(h, st)'
<1>1. PICK n \in Nat :
        /\ n \notin DOMAIN cmds /\ n \in DOMAIN cmds'
        /\ \A k : k \in DOMAIN cmds' <=> k \in DOMAIN cmds \/ k = n
        /\ \A k \in DOMAIN cmds : k < n /\ ~(n < k) /\ cmds'[k] = cmds[k]
        /\ DOMAIN cmds \subseteq Nat
        /\ cmds'[n].cmd = cmd /\ cmds'[n].timer = h
  BY PostShape
<1>2. \A g \in Timers \ {h} : NoCommands(g)' => NoCommands(g)
  BY PostFacts
<1>3. ~NoCommands(h)'
  BY PostFacts
<1> QED
  BY <1>1, <1>2, <1>3 DEF Will, NoCommands

LEMMA ExecWill ==
  ASSUME Inv, ExecCommand, NEW st, NEW g \in Timers, Will(g, st)
  PROVE  Will(g, st)'
<1> PICK h \in Timers \cup {0}, cmd \in {"start", "stop", "change", "delete"} :
       h = Head(cmds).timer /\ cmd = Head(cmds).cmd
  BY TailFacts DEF ExecCommand, Inv
<1>1. /\ cmds # <<>> /\ cmds' = Tail(cmds) /\ Typed
      /\ timer' = [timer EXCEPT ![h].state = After(cmd)]
  BY DEF ExecCommand, Inv
<1>2. \A k \in DOMAIN cmds' : cmds'[k].timer = g => After(cmds'[k].cmd) = st
  BY <1>1, TailShape DEF Will
<1>3. NoCommands(g)' => timer'[g].state = st
  <2>1. CASE g = h
    <3>1. After(cmd) = st
      BY <1>1, <2>1, TailShape DEF Will
    <3>2. timer[g] \in TimerRecord /\ timer'[g] = [timer[g] EXCEPT !.state = After(cmd)]
      BY <1>1, <2>1 DEF Typed
    <3> QED
      BY <3>1, <3>2 DEF TimerRecord
  <2>2. CASE g # h
    <3>1. NoCommands(g)' <=> NoCommands(g)
      BY <1>1, <2>2, TailFacts
    <3>2. timer'[g] = timer[g]
      BY <1>1, <2>2 DEF Typed
    <3> QED
      BY <3>1, <3>2 DEF Will
  <2> QED
    BY <2>1, <2>2
<1> QED
  BY <1>2, <1>3 DEF Will

(* The steps between a change of a slot's flag and of its timer.           *)
Open == {"createStart", "createScrap", "deleteStop", "enableMark", "disableMark"}

Steady(s) ==
  /\ Used(s)
  /\ ~(daemon.step = "ran" /\ daemon.slot = s /\ OneShot(s))
  /\ \A c \in Client : ~(op[c].step \in Open /\ op[c].slot = s)

Shows(bit) == IF bit = 1 THEN "active" ELSE "dormant"

Switched(bit) ==
  \A s \in Slots : Steady(s) /\ taskRegistry[s].enabled = bit => Will(TimerOf(s), Shows(bit))

HalfSwitched(c) ==
  LET s == op[c].slot
  IN  /\ op[c].step = "createStart" => taskRegistry[s].enabled = 1
      /\ op[c].step = "deleteStop" => taskRegistry[s].enabled = 0
      /\ op[c].step = "enableMark" => Will(TimerOf(s), "active")
      /\ op[c].step = "disableMark" =>
           Will(TimerOf(s), "dormant") /\ (TASKMGR_HOUSEKEEPING_TASK_ID \notin Touched => s # 0)
      /\ op[c].step \in {"update", "updateMark"} => "update" \in Ops

HousekeepingOn ==
  TASKMGR_HOUSEKEEPING_TASK_ID \notin Touched => taskRegistry[0].enabled = 1

SwitchInv(bit) ==
  /\ Switched(bit) /\ HousekeepingOn
  /\ \A c \in Client : HalfSwitched(c)

SlotKept(t) ==
  /\ taskRegistry'[t].inUse = taskRegistry[t].inUse
  /\ taskRegistry'[t].timer = taskRegistry[t].timer
  /\ taskRegistry'[t].enabled = taskRegistry[t].enabled

(* A call's step on slot s and its timer h, if on any.                     *)
LEMMA ClientSwitches ==
  ASSUME Inv, DaemonFirst, NEW c \in Client, Proceed(c),
         NEW bit, SwitchInv(bit), NEW s, NEW h,
         \A d \in Client \ {c} : op'[d] = op[d],
         op[c].step \in Open => op[c].slot = s,
         \A t \in Slots \ {s} : SlotKept(t),
         \A t \in Slots \ {s} : Used(t) => TimerOf(t) # h,
         \A g \in Timers \ {h} : Will(g, Shows(bit)) => Will(g, Shows(bit))',
         HalfSwitched(c)',
         s = 0 => HousekeepingOn',
         s \in Slots =>
           (Steady(s)' /\ taskRegistry'[s].enabled = bit => Will(TimerOf(s), Shows(bit))')
  PROVE  SwitchInv(bit)'
<1>1. \A d \in Client \ {c} : op[d].step = "idle"
  BY ProceedFacts, ClientFacts DEF Idle
<1>2. \A d \in Client : HalfSwitched(d)'
  BY <1>1 DEF HalfSwitched
<1>3. HousekeepingOn'
  BY Constants DEF HousekeepingOn, SwitchInv, SlotKept
<1>4. \A t \in Slots \ {s} :
        Steady(t)' /\ taskRegistry'[t].enabled = bit => Will(TimerOf(t), Shows(bit))'
  <2> SUFFICES ASSUME NEW t \in Slots \ {s}, Steady(t)', taskRegistry'[t].enabled = bit
               PROVE  Will(TimerOf(t), Shows(bit))'
    OBVIOUS
  <2>1. SlotKept(t) /\ Used(t) /\ taskRegistry[t].enabled = bit /\ TimerOf(t)' = TimerOf(t)
    BY DEF SlotKept, Steady, Used, TimerOf
  <2>2. Steady(t)
    BY <1>1, <2>1, ProceedFacts, ClientFacts DEF Steady, Open
  <2>3. Will(TimerOf(t), Shows(bit))
    BY <2>1, <2>2 DEF SwitchInv, Switched
  <2> PICK g \in Timers : g = TimerOf(t) /\ g # h
    BY <2>1 DEF Inv, SlotOK
  <2>4. Will(g, Shows(bit))'
    BY <2>3
  <2> QED
    BY <2>1, <2>4 DEF Will
<1> QED
  BY <1>2, <1>3, <1>4 DEF SwitchInv, Switched

(* A call's step on slot s that disturbs no timer.                         *)
LEMMA TimersKeptSwitch ==
  ASSUME Inv, DaemonFirst, NEW c \in Client, Proceed(c),
         NEW bit, SwitchInv(bit), NEW s, UNCHANGED <<timer, cmds>>,
         \A d \in Client \ {c} : op'[d] = op[d],
         op[c].step \in Open => op[c].slot = s,
         \A t \in Slots \ {s} : SlotKept(t),
         HalfSwitched(c)',
         s = 0 => HousekeepingOn',
         s \in Slots =>
           (Steady(s)' /\ taskRegistry'[s].enabled = bit => Will(TimerOf(s), Shows(bit))')
  PROVE  SwitchInv(bit)'
<1> PICK h : h = 0
  OBVIOUS
<1>1. \A t \in Slots \ {s} : Used(t) => TimerOf(t) # h
  BY Constants DEF Inv, SlotOK
<1>2. \A g \in Timers \ {h} : Will(g, Shows(bit)) => Will(g, Shows(bit))'
  BY WillKept
<1> QED
  BY <1>1, <1>2, ClientSwitches

(* A step of the daemon that ends the steadiness of slot s, if of any, and *)
(* disturbs the timer h, if any.                                           *)
LEMMA DaemonSwitches ==
  ASSUME Inv, NEW bit \in {0, 1}, SwitchInv(bit), UNCHANGED op, NEW s, NEW h,
         \A c \in Client : op[c].step \in Open => op[c].slot # s,
         s # 0, s \in Slots => ~Steady(s)',
         \A t \in Slots \ {s} : SlotKept(t),
         \A t \in Slots \ {s} : Steady(t)' => Steady(t),
         \A t \in Slots \ {s} : Used(t) => TimerOf(t) # h,
         \A st \in {"active", "dormant"} : \A g \in Timers \ {h} : Will(g, st) => Will(g, st)'
  PROVE  SwitchInv(bit)'
<1>1. \A t \in Slots \ {s} : \A st \in {"active", "dormant"} :
        Used(t) /\ Will(TimerOf(t), st) => Will(TimerOf(t), st)'
  <2> SUFFICES ASSUME NEW t \in Slots \ {s}, NEW st \in {"active", "dormant"},
                      Used(t), Will(TimerOf(t), st)
               PROVE  Will(TimerOf(t), st)'
    OBVIOUS
  <2>1. TimerOf(t)' = TimerOf(t)
    BY DEF SlotKept, TimerOf
  <2> PICK g \in Timers : g = TimerOf(t) /\ g # h
    BY DEF Inv, SlotOK
  <2>2. Will(g, st)'
    OBVIOUS
  <2> QED
    BY <2>1, <2>2 DEF Will
<1>2. HousekeepingOn'
  BY Constants DEF HousekeepingOn, SwitchInv, SlotKept
<1>3. \A t \in Slots :
        Steady(t)' /\ taskRegistry'[t].enabled = bit => Will(TimerOf(t), Shows(bit))'
  <2> SUFFICES ASSUME NEW t \in Slots \ {s}, Steady(t)', taskRegistry'[t].enabled = bit
               PROVE  Will(TimerOf(t), Shows(bit))'
    OBVIOUS
  <2>1. Steady(t) /\ Used(t) /\ taskRegistry[t].enabled = bit
    BY DEF SlotKept, Steady
  <2>2. Will(TimerOf(t), Shows(bit)) /\ Shows(bit) \in {"active", "dormant"}
    BY <2>1 DEF SwitchInv, Switched, Shows
  <2> PICK st \in {"active", "dormant"} : st = Shows(bit)
    BY <2>2
  <2> QED
    BY <1>1, <2>1, <2>2
<1>4. \A c \in Client : HalfSwitched(c)'
  <2> SUFFICES ASSUME NEW c \in Client PROVE HalfSwitched(c)'
    OBVIOUS
  <2> PICK t \in Slots : t = op[c].slot
    BY DEF Inv, Typed, OpRecord
  <2>1. HalfSwitched(c) /\ CallOK(c)
    BY DEF SwitchInv, Inv
  <2>2. CASE op[c].step \in Open
    <3>1. t # s /\ Used(t) /\ SlotKept(t)
      BY <2>1, <2>2 DEF CallOK, Open, Marks
    <3> QED
      BY <1>1, <2>1, <2>2, <3>1 DEF HalfSwitched, SlotKept, Open
  <2>3. CASE op[c].step \notin Open
    BY <2>1, <2>3 DEF HalfSwitched, Open
  <2> QED
    BY <2>2, <2>3
<1> QED
  BY <1>2, <1>3, <1>4 DEF SwitchInv, Switched

(* A call starts or ends, or goes on, without touching slots or timers.    *)
LEMMA CallSwitches ==
  ASSUME Inv, NEW bit \in {0, 1}, SwitchInv(bit), NEW c \in Client, NEW call \in Calls,
         Call(c, call)
  PROVE  SwitchInv(bit)'
<1>1. /\ op' = [op EXCEPT ![c] = call] /\ op[c] = Idle
      /\ UNCHANGED <<taskRegistry, timer, cmds, daemon>>
      /\ call.step = "update" => "update" \in Ops
  BY DEF Call
<1>2. call.step \in {"create", "delete", "enable", "disable", "update"}
  BY DEF Calls
<1>3. /\ \A d \in Client \ {c} : op'[d] = op[d]
      /\ op'[c] = call /\ op[c].step = "idle"
  BY <1>1 DEF Inv, Typed, Idle
<1>4. \A h, st : Will(h, st)' <=> Will(h, st)
  BY <1>1, WillKept
<1>5. \A d \in Client : HalfSwitched(d)'
  <2> SUFFICES ASSUME NEW d \in Client PROVE HalfSwitched(d)'
    OBVIOUS
  <2>1. CASE d = c
    BY <1>1, <1>2, <1>3, <2>1 DEF HalfSwitched
  <2>2. CASE d # c
    <3> PICK s : s = op[d].slot
      OBVIOUS
    <3> PICK h : h = TimerOf(s)
      OBVIOUS
    <3>1. TimerOf(s)' = h /\ op'[d] = op[d]
      BY <1>1, <1>3, <2>2 DEF TimerOf
    <3>2. \A st : Will(TimerOf(s), st) => Will(TimerOf(s), st)'
      BY <1>1, <3>1, WillKept DEF Will, NoCommands
    <3> QED
      BY <1>1, <3>1, <3>2 DEF SwitchInv, HalfSwitched
  <2> QED
    BY <2>1, <2>2
<1>6. Switched(bit)'
  <2>1. \A t \in Slots : Steady(t)' => Steady(t)
    BY <1>1, <1>2, <1>3 DEF Steady, Used, OneShot, Open
  <2>2. \A t \in Slots : Will(TimerOf(t), Shows(bit)) => Will(TimerOf(t), Shows(bit))'
    BY <1>1 DEF Will, NoCommands, TimerOf
  <2> QED
    BY <1>1, <2>1, <2>2 DEF SwitchInv, Switched
<1>7. HousekeepingOn'
  BY <1>1 DEF SwitchInv, HousekeepingOn
<1> QED
  BY <1>5, <1>6, <1>7 DEF SwitchInv

LEMMA ReturnSwitches ==
  ASSUME Inv, NEW c \in Client, Return(c)
  PROVE  /\ \A d \in Client \ {c} : op'[d] = op[d]
         /\ op'[c].step = "idle" /\ HalfSwitched(c)'
BY DEF Inv, Typed, Return, Idle, HalfSwitched

LEMMA ProceedSwitches ==
  ASSUME Inv, DaemonFirst, PeriodicTouched, NEW bit \in {0, 1}, SwitchInv(bit),
         bit = 0 => "update" \notin Ops, NEW c \in Client, Proceed(c)
  PROVE  SwitchInv(bit)'
<1>0. /\ Typed /\ AtMostOneOther /\ CallOK(c) /\ HalfSwitched(c) /\ op[c].slot \in Slots
      /\ daemon' = daemon
  BY ProceedStarts DEF SwitchInv
<1>1. CASE CreateRejected(c) \/ NotFound(c) \/ CreateUnstarted(c)
  <2> PICK s \in Slots : s = op[c].slot
    BY <1>0
  <2>1. UNCHANGED <<taskRegistry, timer, cmds>>
    BY <1>1 DEF CreateRejected, NotFound, CreateUnstarted, Stop
  <2>2. /\ \A d \in Client \ {c} : op'[d] = op[d]
        /\ HalfSwitched(c)'
        /\ op[c].step \in Open => op'[c].step = "createScrap" /\ op'[c].slot = s
    <3>1. CASE CreateUnstarted(c)
      <4>1. GoOn(c, "createScrap", s)
        BY <3>1 DEF CreateUnstarted
      <4> QED
        BY <1>0, <4>1, GoOnFacts DEF HalfSwitched
    <3>2. CASE CreateRejected(c) \/ NotFound(c)
      BY <3>2, ReturnSwitches DEF CreateRejected, NotFound, Stop, Doing, Open
    <3> QED
      BY <1>1, <3>1, <3>2
  <2>3. \A t \in Slots : SlotKept(t)
    BY <2>1 DEF SlotKept
  <2>4. Steady(s)' /\ taskRegistry'[s].enabled = bit => Will(TimerOf(s), Shows(bit))'
    <3>1. Steady(s)' => Steady(s)
      <4>1. \A d \in Client \ {c} : op[d].step \notin Open
        BY ProceedFacts, ClientFacts DEF Idle, Open
      <4> QED
        BY <1>0, <2>1, <2>2, <4>1 DEF Steady, Used, OneShot, Open
    <3>2. Will(TimerOf(s), Shows(bit)) => Will(TimerOf(s), Shows(bit))'
      BY <2>1 DEF Will, NoCommands, TimerOf
    <3> QED
      BY <2>1, <3>1, <3>2 DEF SwitchInv, Switched
  <2>5. HousekeepingOn'
    BY <2>1 DEF SwitchInv, HousekeepingOn
  <2> QED
    BY <2>1, <2>2, <2>3, <2>4, <2>5, TimersKeptSwitch
<1>2. CASE CreateNoTimer(c)
  <2> PICK s \in Slots : s = SlotToFill(c) /\ ~Used(s) /\ s # 0
    BY <1>2, FillFacts DEF CreateNoTimer
  <2>1. /\ taskRegistry' = [taskRegistry EXCEPT ![s] = EmptySlot] /\ UNCHANGED <<timer, cmds>>
        /\ Return(c) /\ op[c].step = "create"
    BY <1>2 DEF CreateNoTimer, Doing
  <2>2. ~Used(s)' /\ \A t \in Slots \ {s} : SlotKept(t)
    BY <1>0, <2>1, EmptiedSlot DEF SlotKept
  <2> QED
    BY <2>1, <2>2, ReturnSwitches, TimersKeptSwitch DEF Open, Steady
<1>3. CASE CreateFill(c)
  <2> PICK s \in Slots : s = SlotToFill(c) /\ ~Used(s) /\ s # 0
    BY <1>3, FillFacts DEF CreateFill
  <2> PICK h \in Timers : h = Min(DeadTimers) /\ ~Live(h)
    BY <1>3, DeadIs DEF CreateFill, Live
  <2> DEFINE r == Filled(s, op[c].id, h)
  <2>1. /\ taskRegistry' = [taskRegistry EXCEPT ![s] = r] /\ UNCHANGED cmds
        /\ \A g \in Timers \ {h} : timer'[g] = timer[g]
        /\ op[c].step = "create" /\ GoOn(c, "createStart", s)
    BY <1>3 DEF CreateFill, Inv, Typed, Doing
  <2>2. r.enabled = 1
    BY DEF Filled, Inv, Typed, SlotRecord
  <2> HIDE DEF r
  <2>3. taskRegistry'[s] = r /\ \A t \in Slots \ {s} : SlotKept(t)
    BY <1>0, <2>1 DEF Typed, SlotKept
  <2>4. \A t \in Slots \ {s} : Used(t) => TimerOf(t) # h
    BY DEF Inv, SlotOK
  <2>5. \A g \in Timers \ {h} : Will(g, Shows(bit)) => Will(g, Shows(bit))'
    BY <2>1, WillKept
  <2>6. /\ \A d \in Client \ {c} : op'[d] = op[d]
        /\ op'[c].step = "createStart" /\ op'[c].slot = s
    BY <1>0, <2>1, GoOnFacts
  <2>7. HalfSwitched(c)' /\ ~Steady(s)'
    BY <2>2, <2>3, <2>6 DEF HalfSwitched, Steady, Open
  <2> QED
    BY <2>1, <2>3, <2>4, <2>5, <2>6, <2>7, ClientSwitches DEF Open
<1>4. CASE CreateScrap(c)
  <2> PICK s \in Slots : s = op[c].slot
    BY <1>0
  <2>1. /\ taskRegistry' = [taskRegistry EXCEPT ![s] = EmptySlot]
        /\ PostOrDrop("delete", TimerOf(s)) /\ UNCHANGED timer
        /\ op[c].step = "createScrap" /\ Return(c)
    BY <1>4 DEF CreateScrap, Doing, TimerOf
  <2>2. Used(s) /\ s # 0
    BY <1>0, <2>1 DEF CallOK
  <2> PICK h \in Timers : h = TimerOf(s)
    BY <2>2 DEF Inv, SlotOK
  <2>3. ~Used(s)' /\ \A t \in Slots \ {s} : SlotKept(t)
    BY <1>0, <2>1, EmptiedSlot DEF SlotKept
  <2>4. \A t \in Slots \ {s} : Used(t) => TimerOf(t) # h
    BY <2>2, TimersDiffer
  <2>5. \A g \in Timers \ {h} : Will(g, Shows(bit)) => Will(g, Shows(bit))'
    BY <1>0, <2>1, WillKept, PostWill DEF PostOrDrop
  <2> QED
    BY <2>1, <2>2, <2>3, <2>4, <2>5, ReturnSwitches, ClientSwitches DEF Open, Steady
<1>5. CASE CreateStart(c) \/ DeleteStop(c)
  <2> PICK s \in Slots : s = op[c].slot
    BY <1>0
  <2> PICK cmd \in {"start", "stop"} : cmd = IF op[c].step = "createStart" THEN "start" ELSE "stop"
    OBVIOUS
  <2>1. /\ UNCHANGED <<taskRegistry, timer>> /\ Return(c) /\ Post(cmd, TimerOf(s))
        /\ \/ op[c].step = "createStart" /\ cmd = "start"
           \/ op[c].step = "deleteStop" /\ cmd = "stop"
    BY <1>5 DEF CreateStart, DeleteStop, Doing, TimerOf
  <2>2. /\ Used(s) /\ AllDeletes
        /\ taskRegistry[s].enabled = IF cmd = "start" THEN 1 ELSE 0
    BY <1>0, <2>1, ProceedStarts DEF CallOK, HalfSwitched, Before
  <2> PICK h \in Timers : h = TimerOf(s) /\ ~Deleted(h)
    BY <2>2 DEF Inv, SlotOK
  <2>3. NoCommands(h)
    BY <2>2, QueueViews
  <2>4. \A t \in Slots \ {s} : Used(t) => TimerOf(t) # h
    BY <2>2, TimersDiffer
  <2>5. \A g \in Timers \ {h} : Will(g, Shows(bit)) => Will(g, Shows(bit))'
    BY <1>0, <2>1, PostWill
  <2>6. taskRegistry'[s].enabled = bit => Will(TimerOf(s), Shows(bit))'
    <3> SUFFICES ASSUME taskRegistry[s].enabled = bit PROVE Will(TimerOf(s), Shows(bit))'
      BY <2>1
    <3>1. After(cmd) = Shows(bit)
      BY <2>2 DEF After, Shows
    <3>2. Will(h, Shows(bit))'
      BY <1>0, <2>1, <2>3, <3>1, PostWill
    <3> QED
      BY <2>1, <3>2 DEF Will, TimerOf
  <2>7. \A t \in Slots : SlotKept(t)
    BY <2>1 DEF SlotKept
  <2>8. HousekeepingOn'
    BY <2>1 DEF SwitchInv, HousekeepingOn
  <2> QED
    BY <2>1, <2>4, <2>5, <2>6, <2>7, <2>8, ReturnSwitches, ClientSwitches
<1>6. CASE SendCommand(c)
  <2> PICK step \in {"enable", "disable", "update"},
           cmd \in {"start", "stop", "change"}, mark \in Marks :
         /\ Send(c, step, cmd, mark)
         /\ mark = "enableMark" => cmd = "start"
         /\ mark = "disableMark" => cmd = "stop"
         /\ mark = "updateMark" => cmd = "change" /\ step = "update"
    BY <1>6 DEF SendCommand, Marks
  <2> PICK s : s = Min(InUse(op[c].id))
    OBVIOUS
  <2>1. /\ op[c].step = step /\ InUse(op[c].id) # {}
        /\ Post(cmd, TimerOf(s)) /\ GoOn(c, mark, s)
        /\ UNCHANGED <<taskRegistry, timer>>
    BY DEF Send, Found, Doing, TimerOf
  <2>2. /\ s \in Slots /\ Used(s) /\ taskRegistry[s].id = op[c].id /\ op[c].id \in Touched
        /\ AllDeletes
    BY <1>0, <2>1, FoundIs, ProceedStarts DEF Typed, Used, Before
  <2> PICK h \in Timers : h = TimerOf(s) /\ ~Deleted(h)
    BY <2>2 DEF Inv, SlotOK
  <2>3. NoCommands(h)
    BY <2>2, QueueViews
  <2>4. \A t \in Slots \ {s} : Used(t) => TimerOf(t) # h
    BY <2>2, TimersDiffer
  <2>5. \A g \in Timers \ {h} : Will(g, Shows(bit)) => Will(g, Shows(bit))'
    BY <1>0, <2>1, PostWill
  <2>6. Will(h, After(cmd))' /\ TimerOf(s)' = h
    BY <1>0, <2>1, <2>3, PostWill DEF TimerOf
  <2>7. /\ \A d \in Client \ {c} : op'[d] = op[d]
        /\ op'[c].step = mark /\ op'[c].slot = s
    BY <1>0, <2>1, GoOnFacts
  <2>8. mark = "updateMark" => "update" \in Ops
    BY <1>0, <2>1 DEF HalfSwitched
  <2>9. HalfSwitched(c)'
    <3>1. mark = "enableMark" => Will(h, "active")'
      BY <2>6 DEF After
    <3>2. mark = "disableMark" => Will(h, "dormant")'
      BY <2>6 DEF After
    <3>3. TASKMGR_HOUSEKEEPING_TASK_ID \notin Touched => s # 0
      BY <2>2 DEF Inv, HousekeepingOK
    <3>4. Will(TimerOf(s), "active")' <=> Will(h, "active")'
      BY <2>6 DEF Will
    <3>5. Will(TimerOf(s), "dormant")' <=> Will(h, "dormant")'
      BY <2>6 DEF Will
    <3> QED
      BY <2>7, <2>8, <3>1, <3>2, <3>3, <3>4, <3>5 DEF HalfSwitched, Marks
  <2>10. Steady(s)' /\ taskRegistry'[s].enabled = bit => Will(TimerOf(s), Shows(bit))'
    <3>1. Steady(s)' => mark = "updateMark"
      BY <2>7 DEF Steady, Open, Marks
    <3>2. mark = "updateMark" => After(cmd) = Shows(bit)
      BY <2>8 DEF After, Shows
    <3> QED
      BY <2>6, <3>1, <3>2 DEF Will
  <2>11. \A t \in Slots : SlotKept(t)
    BY <2>1 DEF SlotKept
  <2>12. HousekeepingOn'
    BY <2>1 DEF SwitchInv, HousekeepingOn
  <2> QED
    BY <2>1, <2>4, <2>5, <2>7, <2>9, <2>10, <2>11, <2>12, ClientSwitches DEF Open
<1>7. CASE DeleteMark(c)
  <2> PICK s : s = Min(InUse(op[c].id))
    OBVIOUS
  <2> DEFINE r == [taskRegistry[s] EXCEPT !.pendingDelete = 1, !.enabled = 0]
  <2>1. /\ op[c].step = "delete" /\ InUse(op[c].id) # {} /\ GoOn(c, "deleteStop", s)
        /\ UNCHANGED <<timer, cmds>>
    BY <1>7 DEF DeleteMark, Found, Doing
  <2>2. s \in Slots /\ s # 0
    BY <2>1, FoundPeriodic
  <2>3. Rewrites(s, r)
    BY <1>0, <1>7, DeleteMarkIs
  <2>4. r.enabled = 0
    BY <1>0, <2>2 DEF Typed, SlotRecord
  <2> HIDE DEF r
  <2>5. taskRegistry'[s].enabled = 0 /\ \A t \in Slots \ {s} : SlotKept(t)
    BY <2>3, <2>4 DEF Rewrites, SlotKept
  <2>6. /\ \A d \in Client \ {c} : op'[d] = op[d]
        /\ op'[c].step = "deleteStop" /\ op'[c].slot = s
    BY <1>0, <2>1, GoOnFacts
  <2>7. HalfSwitched(c)' /\ ~Steady(s)'
    BY <2>5, <2>6 DEF HalfSwitched, Steady, Open
  <2>8. op[c].step \notin Open
    BY <2>1 DEF Open
  <2> QED
    BY <2>1, <2>2, <2>5, <2>6, <2>7, <2>8, TimersKeptSwitch
<1>8. CASE EnableMark(c) \/ DisableMark(c)
  <2> PICK s \in Slots : s = op[c].slot
    BY <1>0
  <2> PICK flag \in {0, 1} : flag = IF op[c].step = "enableMark" THEN 1 ELSE 0
    OBVIOUS
  <2> DEFINE r == [taskRegistry[s] EXCEPT !.enabled = flag]
  <2>1. /\ UNCHANGED <<timer, cmds>> /\ Return(c)
        /\ taskRegistry' = [taskRegistry EXCEPT ![s].enabled = flag]
        /\ \/ op[c].step = "enableMark" /\ flag = 1
           \/ op[c].step = "disableMark" /\ flag = 0
    BY <1>8 DEF EnableMark, DisableMark, Doing
  <2>2. taskRegistry[s] \in SlotRecord /\ taskRegistry' = [taskRegistry EXCEPT ![s] = r]
    BY <1>0, <2>1 DEF Typed
  <2>3. r.enabled = flag /\ r.timer = TimerOf(s)
    BY <2>2 DEF SlotRecord, TimerOf
  <2> HIDE DEF r
  <2>4. taskRegistry'[s] = r /\ \A t \in Slots \ {s} : SlotKept(t)
    BY <1>0, <2>2 DEF Typed, SlotKept
  <2>5. taskRegistry'[s].enabled = bit => Will(TimerOf(s), Shows(bit))'
    <3> SUFFICES ASSUME flag = bit PROVE Will(TimerOf(s), Shows(bit))'
      BY <2>3, <2>4
    <3>1. Will(TimerOf(s), Shows(bit))
      BY <1>0, <2>1 DEF HalfSwitched, Shows
    <3>2. TimerOf(s)' = TimerOf(s)
      BY <2>3, <2>4 DEF TimerOf
    <3> QED
      BY <2>1, <3>1, <3>2 DEF Will, NoCommands
  <2>6. s = 0 => HousekeepingOn'
    BY <1>0, <2>1, <2>3, <2>4 DEF HousekeepingOn, HalfSwitched
  <2>7. /\ \A d \in Client \ {c} : op'[d] = op[d]
        /\ HalfSwitched(c)'
    BY <2>1, ReturnSwitches
  <2> QED
    BY <2>1, <2>4, <2>5, <2>6, <2>7, TimersKeptSwitch
<1>9. CASE UpdateMark(c)
  <2> PICK s \in Slots : s = op[c].slot
    BY <1>0
  <2> DEFINE p == _taskmgr_roundPeriod(op[c].ms)
             r == [taskRegistry[s] EXCEPT !.periodicityMs = p]
  <2>1. /\ UNCHANGED <<timer, cmds>> /\ Return(c) /\ op[c].step = "updateMark"
        /\ p \in Nat /\ Rewrites(s, r)
    BY <1>0, <1>9, UpdateMarkIs DEF UpdateMark, Doing
  <2> HIDE DEF p
  <2>2. /\ r.inUse = taskRegistry[s].inUse /\ r.timer = taskRegistry[s].timer
        /\ r.enabled = taskRegistry[s].enabled
    BY <1>0, <2>1 DEF Typed, SlotRecord
  <2> HIDE DEF r
  <2>3. \A t \in Slots : SlotKept(t)
    BY <2>1, <2>2 DEF Rewrites, SlotKept
  <2>4. \A t \in Slots : Will(TimerOf(t), Shows(bit)) => Will(TimerOf(t), Shows(bit))'
    BY <2>1, <2>3 DEF SlotKept, Will, NoCommands, TimerOf
  <2>5. Steady(s)' => Steady(s)
    <3>1. \A d \in Client \ {c} : op[d].step \notin Open
      BY ProceedFacts, ClientFacts DEF Idle, Open
    <3>2. daemon.step # "ran" /\ (Used(s)' <=> Used(s))
      BY <2>3, ProceedFacts, ClientFacts DEF SlotKept, Used
    <3> QED
      BY <2>1, <3>1, <3>2 DEF Steady, Open
  <2>6. Steady(s)' /\ taskRegistry'[s].enabled = bit => Will(TimerOf(s), Shows(bit))'
    BY <2>3, <2>4, <2>5 DEF SwitchInv, Switched, SlotKept
  <2>7. HousekeepingOn'
    BY <2>3, Constants DEF SwitchInv, HousekeepingOn, SlotKept
  <2>8. /\ \A d \in Client \ {c} : op'[d] = op[d]
        /\ HalfSwitched(c)'
    BY <2>1, ReturnSwitches
  <2> QED
    BY <2>1, <2>3, <2>6, <2>7, <2>8, TimersKeptSwitch
<1> QED
  BY <1>1, <1>2, <1>3, <1>4, <1>5, <1>6, <1>7, <1>8, <1>9 DEF Proceed

LEMMA SlotsKeptSwitch ==
  ASSUME Inv, NEW bit \in {0, 1}, SwitchInv(bit), UNCHANGED op, NEW h,
         \A t \in Slots : SlotKept(t) /\ (Steady(t)' => Steady(t)),
         \A t \in Slots : Used(t) => TimerOf(t) # h,
         \A st \in {"active", "dormant"} : \A g \in Timers \ {h} : Will(g, st) => Will(g, st)'
  PROVE  SwitchInv(bit)'
<1> PICK s : s = -1
  OBVIOUS
<1>1. s \notin Slots /\ s # 0
  BY Constants
<1>2. \A c \in Client : op[c].step \in Open => op[c].slot # s
  BY <1>1 DEF Inv, Typed, OpRecord
<1>3. /\ s \in Slots => ~Steady(s)'
      /\ \A t \in Slots \ {s} : SlotKept(t)
      /\ \A t \in Slots \ {s} : Steady(t)' => Steady(t)
      /\ \A t \in Slots \ {s} : Used(t) => TimerOf(t) # h
  BY <1>1
<1> QED
  BY <1>1, <1>2, <1>3, DaemonSwitches, ZenonT(40)

(* When no timer is disturbed either.                                      *)
LEMMA AllKeptSwitch ==
  ASSUME Inv, NEW bit \in {0, 1}, SwitchInv(bit), UNCHANGED op,
         \A t \in Slots : SlotKept(t) /\ (Steady(t)' => Steady(t)),
         \A st \in {"active", "dormant"} : \A g \in Timers : Will(g, st) => Will(g, st)'
  PROVE  SwitchInv(bit)'
<1> PICK h : h = 0
  OBVIOUS
<1>1. \A t \in Slots : Used(t) => TimerOf(t) # h
  BY Constants DEF Inv, SlotOK
<1> QED
  BY <1>1, SlotsKeptSwitch

LEMMA DaemonStepSwitches ==
  ASSUME Inv, NEW bit \in {0, 1}, SwitchInv(bit), DaemonStep \/ \E h \in Timers : Expire(h)
  PROVE  SwitchInv(bit)'
<1>0. /\ Typed /\ DaemonOK /\ HousekeepingOK /\ daemon \in DaemonRecord
      /\ \A c \in Client : /\ op[c].slot \in Slots /\ CallOK(c)
                           /\ op[c].step # "idle" => mutex = c
      /\ \A t \in Slots : Used(t) => TimerOf(t) # 0
  BY Constants DEF Inv, Typed, OpRecord, SlotOK
<1>1. CASE ExecCommand
  <2>1. UNCHANGED <<taskRegistry, op, daemon>>
    BY <1>1 DEF ExecCommand
  <2>2. \A t \in Slots : SlotKept(t) /\ (Steady(t)' => Steady(t))
    BY <2>1 DEF SlotKept, Steady, Used, OneShot
  <2>3. \A st \in {"active", "dormant"} : \A g \in Timers : Will(g, st) => Will(g, st)'
    BY <1>1, ExecWill
  <2> QED
    BY <2>1, <2>2, <2>3, AllKeptSwitch
<1>2. CASE HkLock \/ HkDone \/ Discard
  <2> PICK h : h = IF Discard THEN daemon.timer ELSE 0
    OBVIOUS
  <2>1. /\ UNCHANGED <<taskRegistry, op, timer>>
        /\ daemon.step # "ran"
    BY <1>2 DEF HkLock, HkDone, Discard
  <2>2. \A t \in Slots : SlotKept(t) /\ (Steady(t)' => Steady(t))
    BY <2>1 DEF SlotKept, Steady, Used, OneShot
  <2>3. \A st \in {"active", "dormant"} : \A g \in Timers \ {h} : Will(g, st) => Will(g, st)'
    <3>1. CASE UNCHANGED cmds
      BY <2>1, <3>1, WillKept
    <3>2. CASE Discard /\ ~UNCHANGED cmds
      <4>1. h \in Timers /\ Post("delete", h)
        BY <1>0, <3>2 DEF Discard, PostOrDrop, DaemonOK
      <4> QED
        BY <1>0, <2>1, <4>1, PostWill
    <3> QED
      BY <1>2, <3>1, <3>2 DEF HkLock, HkDone
  <2>4. \A t \in Slots : Used(t) => TimerOf(t) # h
    BY <1>0 DEF Discard, DaemonOK, Owned
  <2> QED
    BY <2>1, <2>2, <2>3, <2>4, SlotsKeptSwitch
<1>3. CASE HkReclaim
  <2> PICK s \in Slots : s = Min(Doomed) /\ Used(s) /\ s # 0
    BY <1>0, <1>3, DoomedIs DEF HkReclaim, Used, HousekeepingOK
  <2> PICK h \in Timers : h = TimerOf(s)
    BY DEF Inv, SlotOK
  <2>1. /\ taskRegistry' = [taskRegistry EXCEPT ![s] = EmptySlot]
        /\ Post("delete", h) /\ UNCHANGED <<timer, op, daemon>> /\ daemon.step = "hkScan"
    BY <1>3 DEF HkReclaim, TimerOf
  <2>2. /\ ~Used(s)'
        /\ \A t \in Slots \ {s} : SlotKept(t) /\ (Used(t)' <=> Used(t))
    BY <1>0, <2>1, EmptiedSlot DEF SlotKept
  <2>3. ~Steady(s)' /\ \A t \in Slots \ {s} : Steady(t)' => Steady(t)
    BY <2>1, <2>2 DEF Steady
  <2>4. \A t \in Slots \ {s} : Used(t) => TimerOf(t) # h
    BY TimersDiffer
  <2>5. \A st \in {"active", "dormant"} : \A g \in Timers \ {h} : Will(g, st) => Will(g, st)'
    BY <1>0, <2>1, PostWill
  <2>6. \A c \in Client : op[c].step \notin Open
    BY <1>0, <2>1, Constants DEF Typed, Open
  <2> QED
    BY <2>1, <2>2, <2>3, <2>4, <2>5, <2>6, DaemonSwitches
<1>4. CASE Finish
  <2>1. daemon.step = "ran" /\ UNCHANGED <<timer, cmds, op>>
    BY <1>4 DEF Finish
  <2>2. \A st \in {"active", "dormant"} : \A g \in Timers : Will(g, st) => Will(g, st)'
    BY <2>1, WillKept
  <2>3. CASE taskRegistry[daemon.slot].periodicityMs # 0
    <3>1. daemon' = Resting /\ UNCHANGED taskRegistry
      BY <1>4, <2>3 DEF Finish
    <3>2. \A t \in Slots : SlotKept(t) /\ (Steady(t)' => Steady(t))
      BY <2>1, <2>3, <3>1 DEF SlotKept, Steady, Used, OneShot
    <3> QED
      BY <2>1, <2>2, <3>2, AllKeptSwitch
  <2>4. CASE taskRegistry[daemon.slot].periodicityMs = 0
    <3> PICK s \in Slots : s = daemon.slot
      BY <1>0 DEF DaemonRecord
    <3>1. s # 0 /\ OneShot(s) /\ Rewrites(s, Retired(taskRegistry[s]))
      BY <1>0, <1>4, <2>4, FinishIs DEF HousekeepingOK, OneShot
    <3>2. Retired(taskRegistry[s]).inUse = 0
      <4>1. taskRegistry[s] \in SlotRecord
        BY <1>0 DEF Typed
      <4> QED
        BY <4>1 DEF SlotRecord, Retired
    <3>3. ~Used(s)' /\ \A t \in Slots \ {s} : taskRegistry'[t] = taskRegistry[t]
      BY <3>1, <3>2 DEF Rewrites, Used
    <3>4. \A t \in Slots \ {s} : SlotKept(t)
      BY <3>3 DEF SlotKept
    <3>5. ~Steady(s)' /\ \A t \in Slots \ {s} : Steady(t)' => Steady(t)
      BY <2>1, <3>3 DEF Steady, Used
    <3>6. \A c \in Client : op[c].step \in Open => op[c].slot # s
      BY <1>0, <2>1, <3>1 DEF CallOK, Open, Marks
    <3> PICK none : none = 0
      OBVIOUS
    <3>7. /\ \A t \in Slots \ {s} : Used(t) => TimerOf(t) # none
          /\ \A st \in {"active", "dormant"} : \A g \in Timers \ {none} :
               Will(g, st) => Will(g, st)'
      BY <1>0, <2>2
    <3>8. UNCHANGED op /\ s # 0
      BY <2>1, <3>1
    <3> QED
      BY <3>4, <3>5, <3>6, <3>7, <3>8, DaemonSwitches
  <2> QED
    BY <2>3, <2>4
<1>5. CASE \E h \in Timers : Expire(h)
  <2> PICK h \in Timers : Expire(h)
    BY <1>5
  <2>1. /\ daemon.step = "idle" /\ UNCHANGED <<taskRegistry, cmds, op>>
        /\ timer[h].state = "active"
        /\ \A g \in Timers \ {h} : timer'[g] = timer[g]
        /\ timer[h].reload => UNCHANGED timer
    BY <1>0 DEF Expire, Resting, Typed
  <2>2. \A t \in Slots : SlotKept(t) /\ (Steady(t)' => Steady(t))
    BY <2>1 DEF SlotKept, Steady, Used, OneShot
  <2>3. \A st \in {"active", "dormant"} : \A g \in Timers \ {h} : Will(g, st) => Will(g, st)'
    BY <2>1, WillKept
  <2>4. CASE timer[h].reload
    <3>1. \A st \in {"active", "dormant"} : \A g \in Timers : Will(g, st) => Will(g, st)'
      BY <2>1, <2>4, WillKept
    <3> QED
      BY <2>1, <2>2, <3>1, AllKeptSwitch
  <2>5. CASE ~Owned(h)
    <3>1. \A t \in Slots : Used(t) => TimerOf(t) # h
      BY <2>5 DEF Owned
    <3> QED
      BY <2>1, <2>2, <2>3, <3>1, SlotsKeptSwitch
  <2>6. CASE ~timer[h].reload /\ Owned(h)
    <3> PICK s \in Slots : Used(s) /\ TimerOf(s) = h
      BY <2>6 DEF Owned
    <3>1. /\ timer[h].slot = s /\ OneShot(s) /\ s # 0
          /\ taskRegistry[s].function = "user"
      <4>1. SlotOK(s) /\ taskRegistry[s] \in SlotRecord
        BY DEF Inv, Typed
      <4> QED
        BY <1>0, <2>6, <4>1 DEF SlotOK, SlotRecord, HousekeepingOK
    <3>2. daemon' = [step |-> "ran", slot |-> s, timer |-> h]
      BY <3>1 DEF Expire
    <3>3. ~Steady(s)'
      BY <2>1, <3>1, <3>2 DEF Steady, OneShot
    <3>4. \A t \in Slots \ {s} : Used(t) => TimerOf(t) # h
      BY TimersDiffer
    <3>5. \A c \in Client : op[c].step \in Open => op[c].slot # s
      BY <1>0, <2>1, <3>1 DEF CallOK, Open, Marks
    <3>6. UNCHANGED op /\ s # 0
      BY <2>1, <3>1
    <3>7. \A t \in Slots \ {s} : SlotKept(t) /\ (Steady(t)' => Steady(t))
      BY <2>2
    <3> QED
      BY <2>3, <3>3, <3>4, <3>5, <3>6, <3>7, DaemonSwitches
  <2> QED
    BY <2>4, <2>5, <2>6
<1> QED
  BY <1>1, <1>2, <1>3, <1>4, <1>5 DEF DaemonStep

LEMMA SwitchIsInductive ==
  ASSUME DaemonFirst, PeriodicTouched, NEW bit \in {0, 1}, bit = 0 => "update" \notin Ops
  PROVE  /\ Init => SwitchInv(bit)
         /\ Inv /\ SwitchInv(bit) /\ [Next]_vars => SwitchInv(bit)'
<1>1. Init => SwitchInv(bit)
  <2> SUFFICES ASSUME Init PROVE SwitchInv(bit)
    OBVIOUS
  <2> USE DEF Init
  <2>1. /\ DOMAIN cmds = {1} /\ cmds[1].timer = 1 /\ cmds[1].cmd = "start"
    BY ONLY cmds = <<[cmd |-> "start", timer |-> 1]>>
  <2>2. \A s \in Slots : Used(s) => s = 0 /\ TimerOf(s) = 1 /\ taskRegistry[s].enabled = 1
    BY DEF Used, TimerOf, EmptySlot
  <2>3. Will(1, "active")
    BY <2>1 DEF Will, NoCommands, After
  <2> QED
    BY <2>2, <2>3, Constants
       DEF SwitchInv, Switched, Steady, Shows, HousekeepingOn, HalfSwitched, Idle
<1>2. Inv /\ SwitchInv(bit) /\ [Next]_vars => SwitchInv(bit)'
  <2> SUFFICES ASSUME Inv, SwitchInv(bit), [Next]_vars PROVE SwitchInv(bit)'
    OBVIOUS
  <2>1. CASE UNCHANGED vars
    <3>1. \A t \in Slots : SlotKept(t) /\ (Steady(t)' => Steady(t))
      BY <2>1 DEF vars, SlotKept, Steady, Used, OneShot
    <3>2. \A st \in {"active", "dormant"} : \A g \in Timers : Will(g, st) => Will(g, st)'
      BY <2>1, WillKept DEF vars
    <3> QED
      BY <2>1, <3>1, <3>2, AllKeptSwitch DEF vars
  <2> QED
    BY <2>1, CallSwitches, ProceedSwitches, DaemonStepSwitches DEF Next
<1> QED
  BY <1>1, <1>2

(* The timer's state once the queue is served.                             *)
LEMMA OutcomeIs ==
  ASSUME Inv, NEW s \in Slots, Used(s), NEW st, Will(TimerOf(s), st)
  PROVE  Outcome(TimerOf(s)) = st
<1> DEFINE h == TimerOf(s)
           sent == {k \in DOMAIN cmds : cmds[k].timer = h}
<1>1. CASE sent = {}
  BY <1>1 DEF Outcome, Will, NoCommands
<1>2. CASE sent # {}
  <2>1. ~Deleted(h) /\ AtMostOneOther
    BY DEF Inv, SlotOK, QueueOK
  <2>2. \A j, k \in sent : j = k
    BY <2>1 DEF Deleted, AtMostOneOther
  <2>3. sent \subseteq Nat
    BY DEF Inv, Typed
  <2>4. PICK k \in sent : sent = {k}
    BY <1>2, <2>2
  <2> HIDE DEF h
  <2>5. Max(sent) = k
    BY <2>3, <2>4 DEF Max
  <2> QED
    BY <1>2, <2>4, <2>5 DEF Outcome, Will, h
<1> QED
  BY <1>1, <1>2

LEMMA SettledIsSteady ==
  ASSUME Inv, NEW s \in Slots, Settled(s)
  PROVE  Steady(s) /\ Used(s)
BY Constants DEF Settled, Steady, Used, Inv, Typed, Open

(* A task shown as enabled does run: between calls its timer is active or  *)
(* will be once its commands are served; and housekeeping stays in its     *)
(* slot, enabled.  The daemon must run first, and clients may touch        *)
(* periodic tasks only, housekeeping's own id not among them.              *)
THEOREM EnabledTasksRun ==
  ASSUME DaemonFirst, PeriodicTouched, TASKMGR_HOUSEKEEPING_TASK_ID \notin Touched
  PROVE  Spec => []EnabledRuns
<1>1. Init => SwitchInv(1)
  BY SwitchIsInductive
<1>2. Inv /\ SwitchInv(1) /\ [Next]_vars => SwitchInv(1)'
  BY SwitchIsInductive
<1>3. Inv /\ SwitchInv(1) => EnabledRuns
  <2> SUFFICES ASSUME Inv, SwitchInv(1) PROVE EnabledRuns
    OBVIOUS
  <2>1. \A s \in Slots : Settled(s) /\ taskRegistry[s].enabled = 1 =>
          Outcome(taskRegistry[s].timer) = "active"
    BY SettledIsSteady, OutcomeIs DEF SwitchInv, Switched, Shows, TimerOf
  <2>2. taskRegistry[0].function = "houseKeepingTask" /\ taskRegistry[0].enabled = 1
    BY Constants DEF Inv, SlotOK, HousekeepingOK, SwitchInv, HousekeepingOn
  <2> QED
    BY <2>1, <2>2 DEF EnabledRuns
<1> QED
  BY AlwaysInv, <1>1, <1>2, <1>3, PTL DEF Spec

(* A task shown as disabled, or deleted, is stopped: between calls its     *)
(* timer is dormant or will be once its commands are served.  The daemon   *)
(* must run first, clients may touch periodic tasks only, and none may     *)
(* change a period: that starts a dormant timer, and the task with it.     *)
THEOREM DisabledTasksStop ==
  ASSUME DaemonFirst, PeriodicTouched, "update" \notin Ops
  PROVE  Spec => []DisabledIsStopped
<1>1. Init => SwitchInv(0)
  BY SwitchIsInductive
<1>2. Inv /\ SwitchInv(0) /\ [Next]_vars => SwitchInv(0)'
  BY SwitchIsInductive
<1>3. Inv /\ SwitchInv(0) => DisabledIsStopped
  <2> SUFFICES ASSUME Inv, SwitchInv(0), NEW s \in Slots, Settled(s), taskRegistry[s].enabled = 0
               PROVE  Outcome(TimerOf(s)) = "dormant"
    BY DEF DisabledIsStopped, TimerOf
  <2>1. Will(TimerOf(s), "dormant")
    BY SettledIsSteady DEF SwitchInv, Switched, Shows
  <2> QED
    BY <2>1, SettledIsSteady, OutcomeIs
<1> QED
  BY AlwaysInv, <1>1, <1>2, <1>3, PTL DEF Spec
=============================================================================
