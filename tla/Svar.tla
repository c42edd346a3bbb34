------------------------------- MODULE Svar -------------------------------
(***************************************************************************)
(* The system variables: tables of named values, each kept in memory and,  *)
(* when it is persistent, in a non-volatile memory too (svar.c).           *)
(*                                                                         *)
(* Every call looks its variable up without a lock, stores under the one   *)
(* mutex of the service, and then, with the mutex given back, writes the   *)
(* variable to the device and calls the application's setCb. The device    *)
(* has a mutex of its own (Nvm.tla) and is handed a POINTER to the value,  *)
(* so that each unit of the value is read when it is written.              *)
(***************************************************************************)
EXTENDS Integers, Sequences, SequencesExt

CONSTANTS Task, Var, Module,
          None, Free,
          Table,       \* the variables of each module, in order
          Kind,        \* "number", "bool" or "string", of each variable
          Width,       \* the units of each variable's value
          Base,        \* a unit is a number below Base; 0 ends a string
          Persistent,  \* the variables with flags.persistent
          Runtime,     \* those of category SVAR_CAT_RUNTIME
          Watched,     \* those with a setCb
          Writable,    \* those with flags.maxWritable and defWritable
          Chain,       \* the variable that the setCb of one sets, or None
          Registrar,   \* the task that registers the modules at start
          Resettable,  \* the modules SVAR_ResetModule is called for
          SlotCount,   \* SVAR_MAX_MODULES
          Inputs,      \* what tasks set each variable to
          Ops,         \* the calls that tasks make
          CanWrites    \* the strings the CAN bus writes (cbusSvarWrite)

VARIABLES registry, \* svarModulesRegistry
          value,    \* sv->value; of a string, the characters it points to
          def,      \* sv->def
          high,     \* sv->max of a number
          home,     \* whose memory sv->value.str points to: "own" or "caller"
          device,   \* what the non-volatile memory holds at sv->nvmAddr
          mutex,    \* the task inside svarMutex, or Free
          nvm,      \* the task inside the device's mutex, or Free
          job,      \* what each task is doing
          told,     \* what each setCb was given last; <<>> if not since the load
          loaded,   \* history: the value each variable was loaded with
          dirty     \* 1 when the last access to the device for a variable failed

vars == <<registry, value, def, high, home, device, mutex, nvm, job, told, loaded, dirty>>

Unit == 0..(Base - 1)
Value(v) == [1..Width[v] -> Unit]
Strings == {v \in Var : Kind[v] = "string"}
Saved == Persistent \ Runtime
Zero(v) == [i \in 1..Width[v] |-> 0]
Ones(v) == [i \in 1..Width[v] |-> Base - 1]

\* Each variable belongs to one module, and what a setCb passes on to another
\* variable is of that variable's size.
ASSUME SvarAssumption ==
  /\ None \notin Var \cup Module /\ Free \notin Task
  /\ SlotCount \in Nat /\ Base \in Nat \ {0}
  /\ Width \in [Var -> Nat \ {0}]
  /\ Persistent \cup Watched \subseteq Var
  /\ Table \in [Module -> Seq(Var)]
  /\ \A m, o \in Module, v \in Var :
       Contains(Table[m], v) /\ Contains(Table[o], v) => m = o
  /\ \A v \in Var : Inputs[v] \subseteq Value(v)
  /\ \A v \in Var :
       Chain[v] # None => Chain[v] \in Var /\ Width[Chain[v]] = Width[v]

\* the number in a value, its first unit the least significant
Num(w) == FoldRight(LAMBDA u, n : u + Base * n, w, 0)

idle == [pc |-> "idle", var |-> None, new |-> <<>>, n |-> 0, rest |-> <<>>, slot |-> 0]

At(t, s) == job[t].pc = s
Goto(t, s) == job' = [job EXCEPT ![t].pc = s]

Init ==
  /\ registry = [i \in 1..SlotCount |-> None]
  /\ value = [v \in Var |-> Zero(v)]
  /\ def = value
  /\ high = [v \in Var |-> Num(Ones(v))]
  /\ home = [v \in Var |-> "own"]
  /\ device = [v \in Var |-> Ones(v)]     \* an erased memory
  /\ mutex = Free /\ nvm = Free
  /\ job = [t \in Task |-> idle]
  /\ told = [v \in Watched |-> <<>>]
  /\ loaded = value
  /\ dirty = [v \in Var |-> 1]

-----------------------------------------------------------------------------
\* _getSvarFromId: the variables of the modules in the registry

Registered == {registry[i] : i \in 1..SlotCount} \ {None}
Found(v) == \E m \in Registered : Contains(Table[m], v)

\* _copyToUnion: a BOOL and a CHECK_BOX are always given a 0
_copyToUnion(v, x) == IF Kind[v] = "bool" THEN Zero(v) ELSE x

\* _validate; the lower limit of a number is 0 here
_validate(v, x) == Kind[v] = "number" => Num(x) =< high[v]

\* A string is ended at its last character, whatever was copied into it.
Ended(v, x) == IF Kind[v] = "string" THEN [x EXCEPT ![Width[v]] = 0] ELSE x

\* _nvmRead: nobody looks at its result. Where it fails after n units, those
\* behind them keep the default that was copied there before.
_nvmRead(v, n) == Ended(v, [i \in 1..Width[v] |-> IF i =< n THEN device[v][i] ELSE def[v][i]])

InitModuleDefaults(m, read) ==
  value' = [v \in Var |-> IF Contains(Table[m], v) THEN Ended(v, def[v]) ELSE value[v]]

\* _initModule: the defaults, and over them what the device gives; no setCb
\* is called. read[v] is how many units of v the device gives.
_initModule(m, read) ==
  value' = [v \in Var |->
    IF ~Contains(Table[m], v) THEN value[v]
    ELSE IF v \in Persistent THEN _nvmRead(v, read[v]) ELSE Ended(v, def[v])]

\* SVAR_registerModule: the free slot is looked for before the lock is taken
RegisterScan(t, m) ==
  /\ At(t, "idle") /\ t = Registrar /\ m \notin Registered
  /\ \E i \in 1..SlotCount :
       /\ registry[i] = None
       /\ \A k \in 1..(i - 1) : registry[k] # None
       /\ job' = [job EXCEPT ![t] = [idle EXCEPT !.pc = "fill", !.slot = i, !.rest = Table[m]]]
  /\ UNCHANGED <<registry, value, def, high, home, device, mutex, nvm, told, loaded, dirty>>

\* how much of each variable a load reads: all, unless the device fails or
\* its mutex is not got in time
Reads(m) ==
  {read \in [Var -> UNION {0..Width[v] : v \in Var}] : \A v \in Var :
     IF Contains(Table[m], v) /\ v \in Persistent
       THEN /\ read[v] =< Width[v]
            /\ read[v] < Width[v] => "fail" \in Ops
            /\ read[v] > 0 => nvm = Free
       ELSE read[v] = Width[v]}

\* registry entry, defaults and device contents, under the mutex
RegisterFill(t) ==
  /\ At(t, "fill") /\ mutex = Free
  /\ \E m \in Module :
       /\ Table[m] = job[t].rest
       /\ registry' = [registry EXCEPT ![job[t].slot] = m]
       /\ \E read \in Reads(m) :
            /\ _initModule(m, read)
            /\ dirty' = [v \in Var |-> IF read[v] < Width[v] THEN 1 ELSE dirty[v]]
       /\ told' = [v \in Watched |-> IF Contains(Table[m], v) THEN <<>> ELSE told[v]]
       /\ loaded' = [v \in Var |-> IF Contains(Table[m], v) THEN value'[v] ELSE loaded[v]]
  /\ job' = [job EXCEPT ![t] = idle]
  /\ UNCHANGED <<def, high, home, device, mutex, nvm>>

-----------------------------------------------------------------------------
\* What follows a store: the write to the device, the callback, the next one

AfterTell(t, rest) == IF mutex = t THEN [idle EXCEPT !.pc = "loop", !.rest = rest] ELSE idle

AfterWriteQuiet(t, j) ==
  IF j.var \in Watched /\ dirty[j.var] = 0 THEN [j EXCEPT !.pc = "tell", !.n = 0]
  ELSE AfterTell(t, j.rest)

AfterWrite(t, j) ==
  IF j.var \in Watched THEN [j EXCEPT !.pc = "tell", !.n = 0] ELSE AfterTell(t, j.rest)

AfterStoreShared(t, j) ==
  LET k == [j EXCEPT !.n = 0, !.new = <<>>]
  IN  IF j.var \in Saved /\ ~\E u \in Task : At(u, "copy") /\ job[u].var = j.var
      THEN [k EXCEPT !.pc = "write"] ELSE AfterWrite(t, k)

AfterStore(t, j) ==
  LET k == [j EXCEPT !.n = 0, !.new = <<>>]
  IN  IF j.var \in Saved THEN [k EXCEPT !.pc = "write"] ELSE AfterWrite(t, k)

\* SVAR_Set up to _setValue: found, copied and in range
SVAR_Set(t, v, x) ==
  /\ "set" \in Ops /\ At(t, "idle") /\ Found(v)
  /\ v \in Strings => v \in CanWrites
  /\ _validate(v, _copyToUnion(v, x))
  /\ job' = [job EXCEPT ![t] = [idle EXCEPT !.pc = "store", !.var = v, !.new = _copyToUnion(v, x)]]
  /\ UNCHANGED <<registry, value, def, high, home, device, mutex, nvm, told, loaded, dirty>>

CopyLenUnreserved(v, offset, len) ==
  IF len < Width[v] - offset THEN len ELSE Width[v] - offset

\* the characters SVAR_SetString takes: one place is kept for the NUL
CopyLen(v, offset, len) ==
  IF len < (Width[v] - 1) - offset THEN len ELSE (Width[v] - 1) - offset

\* SVAR_SetString up to the lock; its data is len times the character c
SVAR_SetString(t, v, c, offset, len) ==
  /\ "setString" \in Ops /\ At(t, "idle") /\ Found(v) /\ v \in Strings
  /\ offset < Width[v] - 1
  /\ job' = [job EXCEPT ![t] = [idle EXCEPT !.pc = "storeString", !.var = v, !.n = offset,
                                  !.new = [i \in 1..CopyLen(v, offset, len) |-> c]]]
  /\ UNCHANGED <<registry, value, def, high, home, device, mutex, nvm, told, loaded, dirty>>

\* _setValue, for a string the pointer to the caller's characters. Whoever
\* calls from a setCb that ResetModule called holds the mutex and waits here.
_setValue(t) ==
  LET v == job[t].var IN
  /\ At(t, "store") /\ mutex = Free
  /\ value' = [value EXCEPT ![v] = job[t].new]
  /\ home' = IF v \in Strings THEN [home EXCEPT ![v] = "caller"] ELSE home
  /\ job' = [job EXCEPT ![t] = AfterStore(t, @)]
  /\ UNCHANGED <<registry, def, high, device, mutex, nvm, told, loaded, dirty>>

\* the memcpy of SVAR_SetString and the NUL behind it
StoreString(t) ==
  LET v == job[t].var
      at == job[t].n
      new == job[t].new
  IN  /\ At(t, "storeString") /\ mutex = Free
      /\ value' = [value EXCEPT ![v] = [i \in 1..Width[v] |->
                     IF at < i /\ i =< at + Len(new) THEN new[i - at]
                     ELSE IF i = at + Len(new) + 1 THEN 0 ELSE @[i]]]
      /\ job' = [job EXCEPT ![t] = AfterStore(t, @)]
      /\ UNCHANGED <<registry, def, high, home, device, mutex, nvm, told, loaded, dirty>>

ResetOnlyStores(t, v) ==
  /\ "reset" \in Ops /\ At(t, "idle") /\ mutex = Free /\ Found(v)
  /\ value' = [value EXCEPT ![v] = Ended(v, def[v])]
  /\ UNCHANGED <<registry, def, high, home, device, mutex, nvm, job, told, loaded, dirty>>

\* SVAR_Reset: here the look-up is inside the lock
SVAR_Reset(t, v) ==
  /\ "reset" \in Ops /\ At(t, "idle") /\ mutex = Free /\ Found(v)
  /\ value' = [value EXCEPT ![v] = Ended(v, def[v])]
  /\ job' = [job EXCEPT ![t] = AfterStore(t, [idle EXCEPT !.var = v])]
  /\ UNCHANGED <<registry, def, high, home, device, mutex, nvm, told, loaded, dirty>>

\* SVAR_ResetModule keeps the mutex over its writes and its callbacks
SVAR_ResetModule(t, m) ==
  /\ "resetModule" \in Ops /\ At(t, "idle") /\ mutex = Free /\ m \in Resettable
  /\ mutex' = t
  /\ job' = [job EXCEPT ![t] = [idle EXCEPT !.pc = "loop", !.rest = Table[m]]]
  /\ UNCHANGED <<registry, value, def, high, home, device, nvm, told, loaded, dirty>>

ResetNext(t) ==
  /\ At(t, "loop") /\ job[t].rest # <<>>
  /\ LET v == Head(job[t].rest) IN
     /\ value' = [value EXCEPT ![v] = Ended(v, def[v])]
     /\ job' = [job EXCEPT ![t] =
                  AfterStore(t, [@ EXCEPT !.var = v, !.rest = Tail(job[t].rest)])]
  /\ UNCHANGED <<registry, def, high, home, device, mutex, nvm, told, loaded, dirty>>

ResetDoneKeeps(t) ==
  /\ At(t, "loop") /\ job[t].rest = <<>>
  /\ job' = [job EXCEPT ![t] = idle]
  /\ UNCHANGED <<registry, value, def, high, home, device, mutex, nvm, told, loaded, dirty>>

ResetDone(t) ==
  /\ At(t, "loop") /\ job[t].rest = <<>>
  /\ mutex' = Free
  /\ job' = [job EXCEPT ![t] = idle]
  /\ UNCHANGED <<registry, value, def, high, home, device, nvm, told, loaded, dirty>>

-----------------------------------------------------------------------------
\* _nvmWrite: NVM_writeData under the device's mutex, unit by unit

WriteBegin(t) ==
  /\ At(t, "write") /\ nvm = Free
  /\ nvm' = t
  /\ dirty' = [dirty EXCEPT ![job[t].var] = 0]
  /\ job' = [job EXCEPT ![t].pc = "copy", ![t].n = 1]
  /\ UNCHANGED <<registry, value, def, high, home, device, mutex, told, loaded>>

\* the unit written is the one sv->value holds at this moment
WriteUnit(t) ==
  LET v == job[t].var
      n == job[t].n
      last == n = Width[v]
  IN  /\ At(t, "copy")
      /\ device' = [device EXCEPT ![v][n] = value[v][n]]
      /\ nvm' = IF last THEN Free ELSE nvm
      /\ job' = [job EXCEPT ![t] = IF last THEN AfterWrite(t, @) ELSE [@ EXCEPT !.n = n + 1]]
      /\ UNCHANGED <<registry, value, def, high, home, mutex, told, loaded, dirty>>

\* a lock not got in time or a device that fails: nobody looks at the result
WriteFail(t) ==
  /\ "fail" \in Ops
  /\ At(t, "write") \/ At(t, "copy")
  /\ nvm' = IF nvm = t THEN Free ELSE nvm
  /\ dirty' = [dirty EXCEPT ![job[t].var] = 1]
  /\ job' = [job EXCEPT ![t] = AfterWrite(t, @)]
  /\ UNCHANGED <<registry, value, def, high, home, device, mutex, told, loaded>>

\* setCb(&sv->value), outside the mutex but in SVAR_ResetModule; it may
\* itself set another variable to the value it was given
SetCallback(t) ==
  LET v == job[t].var
      w == Chain[v]
  IN  /\ At(t, "tell")
      /\ told' = [told EXCEPT ![v] = value[v]]
      /\ job' = [job EXCEPT ![t] =
                   IF w # None /\ Found(w) /\ _validate(w, _copyToUnion(w, value[v]))
                   THEN [@ EXCEPT !.pc = "store", !.var = w, !.new = _copyToUnion(w, value[v])]
                   ELSE AfterTell(t, @.rest)]
      /\ UNCHANGED <<registry, value, def, high, home, device, mutex, nvm, loaded, dirty>>

\* SVAR_SetMax: neither checked nor applied to the value
SVAR_SetMax(t, v, x) ==
  /\ "limits" \in Ops /\ At(t, "idle") /\ mutex = Free /\ Found(v) /\ v \in Writable
  /\ high' = [high EXCEPT ![v] = Num(x)]
  /\ UNCHANGED <<registry, value, def, home, device, mutex, nvm, job, told, loaded, dirty>>

\* SVAR_SetDefault
SVAR_SetDefault(t, v, x) ==
  /\ "limits" \in Ops /\ At(t, "idle") /\ mutex = Free /\ Found(v) /\ v \in Writable
  /\ def' = [def EXCEPT ![v] = x]
  /\ UNCHANGED <<registry, value, high, home, device, mutex, nvm, job, told, loaded, dirty>>

\* Power is lost and comes back. Memory is gone: the registry is empty, so no
\* call reaches a variable before it is loaded, and value keeps, for the
\* properties only, what memory held of the variables written whole.
PowerLoss ==
  /\ "powerLoss" \in Ops
  /\ registry' = [i \in 1..SlotCount |-> None]
  /\ mutex' = Free /\ nvm' = Free
  /\ dirty' = [v \in Var |->
                 IF \E t \in Task : job[t].var = v /\ (At(t, "write") \/ At(t, "copy"))
                 THEN 1 ELSE dirty[v]]
  /\ def' = [v \in Var |-> Zero(v)]
  /\ high' = [v \in Var |-> Num(Ones(v))]
  /\ job' = [t \in Task |-> idle]
  /\ home' = [v \in Var |-> "own"]
  /\ value' = [v \in Var |-> IF v \in Saved /\ dirty'[v] = 0 THEN value[v] ELSE Zero(v)]
  /\ told' = [v \in Watched |-> <<>>]
  /\ loaded' = [v \in Var |-> Zero(v)]
  /\ UNCHANGED device

Continue(t) ==
  \/ RegisterFill(t) \/ _setValue(t) \/ StoreString(t) \/ ResetNext(t) \/ ResetDone(t)
  \/ WriteBegin(t) \/ WriteUnit(t) \/ WriteFail(t) \/ SetCallback(t)

Begin(t) ==
  \/ \E m \in Module : RegisterScan(t, m) \/ SVAR_ResetModule(t, m)
  \/ \E v \in Var : SVAR_Reset(t, v)
  \/ \E v \in Var : \E x \in Inputs[v] :
       SVAR_Set(t, v, x) \/ SVAR_SetMax(t, v, x) \/ SVAR_SetDefault(t, v, x)
  \/ \E v \in Strings, c \in Unit \ {0}, offset \in 0..2, len \in 1..3 :
       SVAR_SetString(t, v, c, offset, len)

Next == PowerLoss \/ \E t \in Task : Begin(t) \/ Continue(t)

Spec == Init /\ [][Next]_vars

\* The scheduler runs every task, and a mutex is given to the waiting tasks
\* in the order of their waiting.
FairSpec == Spec /\ \A t \in Task : SF_vars(Continue(t))

-----------------------------------------------------------------------------
TypeOK ==
  /\ registry \in [1..SlotCount -> Module \cup {None}]
  /\ \A v \in Var : {value[v], def[v], device[v], loaded[v]} \subseteq Value(v)
  /\ \A v \in Watched : told[v] \in Value(v) \cup {<<>>}
  /\ high \in [Var -> Nat]
  /\ home \in [Var -> {"own", "caller"}]
  /\ mutex \in Task \cup {Free} /\ nvm \in Task \cup {Free}
  /\ dirty \in [Var -> 0..1]

Busy(v, states) == \E t \in Task : job[t].var = v /\ job[t].pc \in states

\* Storing and writing are two critical sections, and of two tasks either may
\* write last (_nvmWrite after _setValue). Still the device ends with what
\* memory holds: once no write of a variable is under way, and the last access
\* to the device for it, its load or a write, did not fail, the two agree.
DeviceAgrees ==
  \A v \in Saved :
    Found(v) /\ dirty[v] = 0 /\ ~Busy(v, {"write", "copy"}) => device[v] = value[v]

\* However the calls of setCb of two tasks are ordered, the last one is given
\* the value the variable is left with; without one since the load, which
\* calls none, the variable is as it was loaded.
CallbackUpToDate ==
  \A v \in Watched :
    Found(v) /\ ~Busy(v, {"write", "copy", "tell"}) =>
      value[v] = IF told[v] = <<>> THEN loaded[v] ELSE told[v]

\* A string has an end within its buffer, at whatever offset and with whatever
\* length the calls of SVAR_SetString follow one another.
StringsEnd == \A v \in Strings : Found(v) => \E i \in 1..Width[v] : value[v][i] = 0

\* A value whose write had ended when power was lost is the value the module
\* starts with again, if the load can read it.
SurvivesPowerLoss ==
  [][\A v \in Saved :
       ~Found(v) /\ Found(v)' /\ dirty[v] = 0 /\ dirty'[v] = 0 => value'[v] = value[v]]_vars

\* Every call returns: no task waits for ever for the service's mutex or for
\* the device's, although SVAR_ResetModule takes the second, and calls the
\* callbacks, inside the first. No callback it calls sets a variable itself.
CallsReturn == \A t \in Task : ~At(t, "idle") ~> At(t, "idle")

\* svar.c:500 "value.str points to the svar's RAM buffer"
StringsKeepBuffers == \A v \in Strings : home[v] = "own"
=============================================================================
