------------------------------ MODULE TaskMgr -------------------------------
(***************************************************************************)
(* services/taskman/taskmgr.c: a registry of tasks, each run by a software *)
(* timer.  Client tasks create, delete, enable, disable and re-time tasks  *)
(* under taskmgr_mutex; the timer daemon runs the tasks' functions and the *)
(* housekeeping task, which is one of them.                                *)
(*                                                                         *)
(* External (FreeRTOS): timers are changed by commands in a bounded queue  *)
(* that the daemon executes one by one; a sender waits while the queue is  *)
(* full, the daemon included, or gives up at once (create, and the delete  *)
(* of a finished one-shot).  When a timer expires is not modelled: an      *)
(* active one may.                                                         *)
(***************************************************************************)
EXTENDS Integers, Sequences, FiniteSetsExt, TLC

CONSTANTS Client,       \* the tasks that call TASKMGR_*
          MaxTasks,     \* TASKMGR_MAX_TASKS
          MaxTimers,    \* timers the heap has room for
          QueueLen,     \* configTIMER_QUEUE_LENGTH
          Period,       \* periods asked of TASKMGR_createTask, by id
          Touched,      \* ids clients delete, enable, disable or re-time
          NewPeriods,   \* periods asked of TASKMGR_updatePeriodicity
          Ops,          \* the operations clients use
          DaemonFirst   \* the daemon has the highest priority

TASKMGR_HOUSEKEEPING_TASK_ID == 0
HkPeriod == 100
Id == DOMAIN Period
Free   == "free"
Daemon == "daemon"

ASSUME TaskMgrAssumption ==
  /\ MaxTasks \in Nat \ {0} /\ MaxTimers \in Nat \ {0} /\ QueueLen \in Nat \ {0}
  /\ \A id \in Id : id \in Nat /\ Period[id] \in Nat
  /\ Touched \subseteq Id
  /\ NewPeriods \subseteq Nat
  /\ Ops \subseteq {"create", "delete", "enable", "disable", "update"}
  /\ DaemonFirst \in BOOLEAN
  /\ Client \cap {Free, Daemon} = {}

Slots  == 0..MaxTasks - 1
Timers == 1..MaxTimers

VARIABLES taskRegistry, mutex, timer, cmds,
          op,           \* what each client is in the middle of
          daemon        \* what the timer daemon is in the middle of

vars == <<taskRegistry, mutex, timer, cmds, op, daemon>>

EmptySlot ==
  [function |-> "NULL", periodicityMs |-> 0, id |-> 0, timer |-> 0,
   inUse |-> 0, enabled |-> 0, pendingDelete |-> 0]

NoTimer == [slot |-> 0, reload |-> FALSE, state |-> "dead"]
Idle    == [step |-> "idle", id |-> 0, slot |-> 0, ms |-> 0]
Resting == [step |-> "idle", slot |-> 0, timer |-> 0]

_taskmgr_roundPeriod(ms) == (ms \div 10) * 10

(* After TASKMGR_Init: the housekeeping task in slot 0, its timer started. *)
Init ==
  /\ taskRegistry =
       [s \in Slots |->
          IF s # 0 THEN EmptySlot
          ELSE [function |-> "houseKeepingTask", periodicityMs |-> HkPeriod,
                id |-> TASKMGR_HOUSEKEEPING_TASK_ID, timer |-> 1,
                inUse |-> 1, enabled |-> 1, pendingDelete |-> 0]]
  /\ timer = [h \in Timers |->
                IF h # 1 THEN NoTimer
                ELSE [slot |-> 0, reload |-> TRUE, state |-> "dormant"]]
  /\ cmds = <<[cmd |-> "start", timer |-> 1]>>
  /\ mutex = Free
  /\ op = [c \in Client |-> Idle]
  /\ daemon = Resting

-----------------------------------------------------------------------------
(* The queue of timer commands.                                            *)
Full == Len(cmds) = QueueLen

Post(cmd, h) == cmds' = Append(cmds, [cmd |-> cmd, timer |-> h])

(* What the daemon would do next without waiting for anybody.              *)
DaemonRunnable ==
  CASE daemon.step = "idle"    -> cmds # <<>>
    [] daemon.step = "hkLock"  -> mutex = Free
    [] daemon.step = "hkScan"  -> ~Full
    [] OTHER                   -> TRUE

ClientMayRun == DaemonFirst => ~DaemonRunnable

-----------------------------------------------------------------------------
(* Clients.  Every call takes the mutex, waiting as long as it takes.      *)
Calls ==
  [step : {"create"}, id : Id, slot : {0}, ms : {0}]
    \cup [step : {"delete", "enable", "disable"}, id : Touched, slot : {0}, ms : {0}]
    \cup [step : {"update"}, id : Touched, slot : {0}, ms : NewPeriods]

Call(c, call) ==
  /\ ClientMayRun
  /\ call.step = "delete" => call.id # TASKMGR_HOUSEKEEPING_TASK_ID
  /\ call.step \in Ops
  /\ op[c] = Idle
  /\ mutex = Free
  /\ mutex' = c
  /\ op' = [op EXCEPT ![c] = call]
  /\ UNCHANGED <<taskRegistry, timer, cmds, daemon>>

Return(c) ==
  /\ mutex' = Free
  /\ op' = [op EXCEPT ![c] = Idle]

Doing(c, step) == ClientMayRun /\ op[c].step = step

GoOn(c, step, s) ==
  /\ op' = [op EXCEPT ![c].step = step, ![c].slot = s]
  /\ UNCHANGED mutex

(* The slots createTask stops its scan at: a free one, or one that is in   *)
(* use under the same id; the first of them decides.                       *)
Candidates(id) ==
  {s \in Slots : taskRegistry[s].inUse = 0 \/ taskRegistry[s].id = id}

DeadTimers == {h \in Timers : timer[h].state = "dead"}

(* Seeded fault: an early return that keeps the lock.                      *)
StopLocked(c) ==
  /\ op' = [op EXCEPT ![c] = Idle]
  /\ UNCHANGED <<taskRegistry, mutex, timer, cmds, daemon>>

(* A call that ends without having changed anything.                       *)
Stop(c) == Return(c) /\ UNCHANGED <<taskRegistry, timer, cmds, daemon>>

CreateRejected(c) ==
  /\ Doing(c, "create")
  /\ LET found == Candidates(op[c].id)
     IN  found # {} => taskRegistry[Min(found)].inUse = 1
  /\ Stop(c)

SlotToFill(c) == Min(Candidates(op[c].id))

CreateNoTimer(c) ==
  /\ Doing(c, "create")
  /\ Candidates(op[c].id) # {}
  /\ taskRegistry[SlotToFill(c)].inUse = 0
  /\ DeadTimers = {}
  /\ taskRegistry' = [taskRegistry EXCEPT ![SlotToFill(c)] = EmptySlot]
  /\ Return(c)
  /\ UNCHANGED <<timer, cmds, daemon>>

(* The slot as createTask leaves it: pendingDelete is not written.         *)
Filled(s, id, h) ==
  [taskRegistry[s] EXCEPT
     !.function = "user", !.periodicityMs = _taskmgr_roundPeriod(Period[id]),
     !.id = id, !.inUse = 1, !.enabled = 1, !.timer = h]

CreateFill(c) ==
  /\ Doing(c, "create")
  /\ Candidates(op[c].id) # {}
  /\ taskRegistry[SlotToFill(c)].inUse = 0
  /\ DeadTimers # {}
  /\ LET s == SlotToFill(c)
         h == Min(DeadTimers)
     IN  /\ taskRegistry' = [taskRegistry EXCEPT ![s] = Filled(s, op[c].id, h)]
         /\ timer' = [timer EXCEPT ![h] =
              [slot |-> s, state |-> "dormant",
               reload |-> _taskmgr_roundPeriod(Period[op[c].id]) # 0]]
         /\ GoOn(c, "createStart", s)
  /\ UNCHANGED <<cmds, daemon>>

CreateStart(c) ==
  /\ Doing(c, "createStart")
  /\ ~Full
  /\ Post("start", taskRegistry[op[c].slot].timer)
  /\ Return(c)
  /\ UNCHANGED <<taskRegistry, timer, daemon>>

CreateUnstarted(c) ==
  /\ Doing(c, "createStart")
  /\ Full
  /\ GoOn(c, "createScrap", op[c].slot)
  /\ UNCHANGED <<taskRegistry, timer, cmds, daemon>>

(* xTimerDelete(timer, 0): posted if there is room by now, or else dropped. *)
PostOrDrop(cmd, h) == IF Full THEN UNCHANGED cmds ELSE Post(cmd, h)

CreateScrap(c) ==
  /\ Doing(c, "createScrap")
  /\ PostOrDrop("delete", taskRegistry[op[c].slot].timer)
  /\ taskRegistry' = [taskRegistry EXCEPT ![op[c].slot] = EmptySlot]
  /\ Return(c)
  /\ UNCHANGED <<timer, daemon>>

(* The other calls work on the first slot in use under the id.             *)
InUse(id) ==
  {s \in Slots : taskRegistry[s].inUse = 1 /\ taskRegistry[s].id = id}

NotFound(c) ==
  /\ ClientMayRun
  /\ op[c].step \in {"delete", "enable", "disable", "update"}
  /\ InUse(op[c].id) = {}
  /\ Stop(c)

Found(c, step) == Doing(c, step) /\ InUse(op[c].id) # {}

DeleteMark(c) ==
  /\ Found(c, "delete")
  /\ LET s == Min(InUse(op[c].id))
     IN  /\ taskRegistry' = [taskRegistry EXCEPT ![s].pendingDelete = 1,
                                                 ![s].enabled = 0]
         /\ GoOn(c, "deleteStop", s)
  /\ UNCHANGED <<timer, cmds, daemon>>

DeleteStop(c) ==
  /\ Doing(c, "deleteStop")
  /\ ~Full
  /\ Post("stop", taskRegistry[op[c].slot].timer)
  /\ Return(c)
  /\ UNCHANGED <<taskRegistry, timer, daemon>>

(* enable, disable and update send their command first, waiting while the  *)
(* queue is full, and write the slot afterwards.                           *)
Send(c, step, cmd, markStep) ==
  /\ Found(c, step)
  /\ ~Full
  /\ LET s == Min(InUse(op[c].id))
     IN  /\ Post(cmd, taskRegistry[s].timer)
         /\ GoOn(c, markStep, s)
  /\ UNCHANGED <<taskRegistry, timer, daemon>>

SendCommand(c) ==
  \/ Send(c, "enable", "start", "enableMark")
  \/ Send(c, "disable", "stop", "disableMark")
  \/ Send(c, "update", "change", "updateMark")

(* Seeded fault: the timer is started, the slot not marked.                *)
EnableUnmarked(c) ==
  /\ Doing(c, "enableMark")
  /\ Return(c)
  /\ UNCHANGED <<taskRegistry, timer, cmds, daemon>>

EnableMark(c) ==
  /\ Doing(c, "enableMark")
  /\ taskRegistry' = [taskRegistry EXCEPT ![op[c].slot].enabled = 1]
  /\ Return(c)
  /\ UNCHANGED <<timer, cmds, daemon>>

(* Seeded fault: the timer is stopped, the slot still says enabled.        *)
DisableUnmarked(c) ==
  /\ Doing(c, "disableMark")
  /\ Return(c)
  /\ UNCHANGED <<taskRegistry, timer, cmds, daemon>>

DisableMark(c) ==
  /\ Doing(c, "disableMark")
  /\ taskRegistry' = [taskRegistry EXCEPT ![op[c].slot].enabled = 0]
  /\ Return(c)
  /\ UNCHANGED <<timer, cmds, daemon>>

UpdateMark(c) ==
  /\ Doing(c, "updateMark")
  /\ taskRegistry' = [taskRegistry EXCEPT
       ![op[c].slot].periodicityMs = _taskmgr_roundPeriod(op[c].ms)]
  /\ Return(c)
  /\ UNCHANGED <<timer, cmds, daemon>>

-----------------------------------------------------------------------------
(* The timer daemon.                                                       *)
After(cmd) ==
  CASE cmd = "stop" -> "dormant" [] cmd = "delete" -> "dead" [] OTHER -> "active"

ExecCommand ==
  /\ daemon = Resting
  /\ cmds # <<>>
  /\ timer' = [timer EXCEPT ![Head(cmds).timer].state = After(Head(cmds).cmd)]
  /\ cmds' = Tail(cmds)
  /\ UNCHANGED <<taskRegistry, mutex, op, daemon>>

(* _taskmgr_timerCallback up to the call of the task's function.  What a   *)
(* user's function does is its own business.                               *)
Expire(h) ==
  /\ daemon = Resting
  /\ timer[h].state = "active"
  /\ timer' = IF timer[h].reload THEN timer
              ELSE [timer EXCEPT ![h].state = "dormant"]
  /\ daemon' =
       CASE taskRegistry[timer[h].slot].function = "NULL" -> Resting
         [] taskRegistry[timer[h].slot].function = "user" ->
              [step |-> "ran", slot |-> timer[h].slot, timer |-> h]
         [] OTHER ->
              [step |-> "hkLock", slot |-> timer[h].slot, timer |-> h]
  /\ UNCHANGED <<taskRegistry, mutex, cmds, op>>

HkLock ==
  /\ daemon.step = "hkLock"
  /\ mutex = Free
  /\ mutex' = Daemon
  /\ daemon' = [daemon EXCEPT !.step = "hkScan"]
  /\ UNCHANGED <<taskRegistry, timer, cmds, op>>

(* Seeded fault: the scan ends one slot early.                             *)
DoomedShort ==
  {s \in Slots : /\ s < MaxTasks - 1
                 /\ taskRegistry[s].inUse = 1 /\ taskRegistry[s].pendingDelete = 1}

Doomed ==
  {s \in Slots : taskRegistry[s].inUse = 1 /\ taskRegistry[s].pendingDelete = 1}

(* Seeded faults: the slot is left as it was, or only taken out of use.    *)
HkReclaimKeepsSlot ==
  /\ daemon.step = "hkScan"
  /\ Doomed # {}
  /\ ~Full
  /\ Post("delete", taskRegistry[Min(Doomed)].timer)
  /\ UNCHANGED <<taskRegistry, mutex, timer, op, daemon>>

HkReclaimPartly ==
  /\ daemon.step = "hkScan"
  /\ Doomed # {}
  /\ ~Full
  /\ Post("delete", taskRegistry[Min(Doomed)].timer)
  /\ taskRegistry' = [taskRegistry EXCEPT ![Min(Doomed)].inUse = 0]
  /\ UNCHANGED <<mutex, timer, op, daemon>>

(* One turn of houseKeepingTask's loop.  The daemon, which alone empties   *)
(* the queue, waits here while it is full.                                 *)
HkReclaim ==
  /\ daemon.step = "hkScan"
  /\ Doomed # {}
  /\ ~Full
  /\ Post("delete", taskRegistry[Min(Doomed)].timer)
  /\ taskRegistry' = [taskRegistry EXCEPT ![Min(Doomed)] = EmptySlot]
  /\ UNCHANGED <<mutex, timer, op, daemon>>

HkDone ==
  /\ daemon.step = "hkScan"
  /\ Doomed = {}
  /\ mutex' = Free
  /\ daemon' = [daemon EXCEPT !.step = "ran"]
  /\ UNCHANGED <<taskRegistry, timer, cmds, op>>

(* The rest of the callback, after the task's function has returned.       *)
Retired(slot) == [slot EXCEPT !.enabled = 0, !.inUse = 0, !.timer = 0]

Finish ==
  /\ daemon.step = "ran"
  /\ IF taskRegistry[daemon.slot].periodicityMs # 0
     THEN daemon' = Resting /\ UNCHANGED taskRegistry
     ELSE /\ taskRegistry' =
               [taskRegistry EXCEPT ![daemon.slot] = Retired(@)]
          /\ daemon' = [daemon EXCEPT !.step = "discard"]
  /\ UNCHANGED <<mutex, timer, cmds, op>>

(* Seeded fault: the one-shot's timer is never deleted.                    *)
DiscardForgets ==
  /\ daemon.step = "discard"
  /\ daemon' = Resting
  /\ UNCHANGED <<taskRegistry, mutex, timer, cmds, op>>

Discard ==
  /\ daemon.step = "discard"
  /\ PostOrDrop("delete", daemon.timer)
  /\ daemon' = Resting
  /\ UNCHANGED <<taskRegistry, mutex, timer, op>>

-----------------------------------------------------------------------------
Proceed(c) ==
  \/ CreateRejected(c) \/ CreateNoTimer(c) \/ CreateFill(c)
  \/ CreateStart(c) \/ CreateUnstarted(c) \/ CreateScrap(c)
  \/ NotFound(c)
  \/ DeleteMark(c) \/ DeleteStop(c)
  \/ SendCommand(c) \/ EnableMark(c) \/ DisableMark(c) \/ UpdateMark(c)

DaemonStep ==
  ExecCommand \/ HkLock \/ HkReclaim \/ HkDone \/ Finish \/ Discard

Next ==
  \/ \E c \in Client, call \in Calls : Call(c, call)
  \/ \E c \in Client : Proceed(c)
  \/ DaemonStep
  \/ \E h \in Timers : Expire(h)

Spec == Init /\ [][Next]_vars

(* A call that holds the mutex goes on, the daemon serves its queue, and   *)
(* an active timer expires again and again: FreeRTOS looks at the timers   *)
(* between any two batches of commands.                                    *)
FairSpec ==
  /\ Spec
  /\ \A c \in Client : WF_vars(Proceed(c))
  /\ WF_vars(DaemonStep)
  /\ \A h \in Timers : SF_vars(Expire(h))

-----------------------------------------------------------------------------
(* Type invariant: handles, slots and queued commands stay in range, and   *)
(* the daemon's queue never exceeds configTIMER_QUEUE_LENGTH.              *)
TypeOK ==
  /\ \A s \in Slots :
       /\ taskRegistry[s].function \in {"NULL", "user", "houseKeepingTask"}
       /\ taskRegistry[s].id \in Id \cup {0}
       /\ taskRegistry[s].timer \in Timers \cup {0}
       /\ {taskRegistry[s].inUse, taskRegistry[s].enabled,
           taskRegistry[s].pendingDelete} \subseteq {0, 1}
  /\ mutex \in Client \cup {Free, Daemon}
  /\ timer \in [Timers -> [slot : Slots, reload : BOOLEAN,
                            state : {"dead", "dormant", "active"}]]
  /\ Len(cmds) =< QueueLen
  /\ \A c \in Client : op[c] # Idle <=> mutex = c

Live(h) == timer[h].state # "dead"

(* A slot in use has a live timer of its own that points back at it.       *)
SlotsHaveTimers ==
  \A s \in Slots : taskRegistry[s].inUse = 1 =>
    /\ taskRegistry[s].timer # 0
    /\ Live(taskRegistry[s].timer)
    /\ timer[taskRegistry[s].timer].slot = s

(* Timers and slots never come apart, whoever is interrupted where: nor is  *)
(* there a live timer nobody's slot names, but one whose delete is on its   *)
(* way.  Create and the callback give xTimerDelete no time to wait, so that *)
(* part is lost when the queue is full: it is stated of a queue that never  *)
(* is, having room for a command of every timer.                            *)
TimersAreOwned ==
  /\ SlotsHaveTimers
  /\ \A h \in Timers : Live(h) =>
       \/ \E s \in Slots : taskRegistry[s].inUse = 1 /\ taskRegistry[s].timer = h
       \/ \E k \in DOMAIN cmds : cmds[k] = [cmd |-> "delete", timer |-> h]
       \/ daemon.step = "discard" /\ daemon.timer = h

(* No command is ever sent to a timer that is freed when the daemon gets   *)
(* to it: none names a dead timer, and none stands behind a delete of the  *)
(* same timer.                                                             *)
CommandsReachLiveTimers ==
  \A k \in DOMAIN cmds :
    /\ cmds[k].timer \in Timers /\ Live(cmds[k].timer)
    /\ \A j \in 1..k - 1 : cmds[j] # [cmd |-> "delete", timer |-> cmds[k].timer]

(* What a timer will be once the daemon has served its queue.              *)
Outcome(h) ==
  LET sent == {k \in DOMAIN cmds : cmds[k].timer = h}
  IN  IF sent = {} THEN timer[h].state ELSE After(cmds[Max(sent)].cmd)

Settled(s) ==
  /\ mutex = Free /\ taskRegistry[s].inUse = 1
  /\ ~(daemon.step = "ran" /\ daemon.slot = s)

(* A task shown as enabled does run: between calls its timer is active, or *)
(* will be when the queue is served.  For slot 0 it says that housekeeping *)
(* is never lost.                                                          *)
EnabledRuns ==
  /\ \A s \in Slots : Settled(s) /\ taskRegistry[s].enabled = 1 =>
       Outcome(taskRegistry[s].timer) = "active"
  /\ taskRegistry[0].function = "houseKeepingTask"
  /\ taskRegistry[0].enabled = 1

(* A disabled or deleted task is stopped: between calls its timer is       *)
(* dormant, or will be when the queue is served.                           *)
DisabledIsStopped ==
  \A s \in Slots : Settled(s) /\ taskRegistry[s].enabled = 0 =>
    Outcome(taskRegistry[s].timer) = "dormant"

(* A free slot carries no delete request: createTask does not clear        *)
(* pendingDelete, so a stale one would cost the slot's next task its life. *)
FreeSlotsAreClean ==
  \A s \in Slots : taskRegistry[s].inUse = 0 => taskRegistry[s].pendingDelete = 0

(* Housekeeping reclaims every deleted task's slot, in the end.            *)
DeletedIsReclaimed ==
  \A s \in Slots :
    taskRegistry[s].pendingDelete = 1 ~> taskRegistry[s].inUse = 0

(* createTask's comment: "Task with the same ID already exists" is an      *)
(* error, so no two tasks in use share an id.                              *)
UniqueIds ==
  \A s, t \in Slots :
    /\ taskRegistry[s].inUse = 1 /\ taskRegistry[t].inUse = 1
    /\ taskRegistry[s].id = taskRegistry[t].id
    => s = t
=============================================================================
