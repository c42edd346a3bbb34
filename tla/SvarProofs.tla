----------------------------- MODULE SvarProofs -----------------------------
(***************************************************************************)
(* Proofs about Svar for every table of variables, every set of tasks and  *)
(* every choice of calls, with writes that fail and power that is lost at  *)
(* any step.                                                               *)
(***************************************************************************)
EXTENDS Svar, SequenceTheorems, TLAPS

States == {"idle", "fill", "store", "storeString", "write", "copy", "tell", "loop"}
OnVar  == {"store", "storeString", "write", "copy", "tell"}

Jobs == [pc : States, var : Var \cup {None}, new : Seq(Unit), n : Nat,
         rest : Seq(Var), slot : Nat]

TypeInv ==
  /\ registry \in [1..SlotCount -> Module \cup {None}]
  /\ value \in [Var -> Seq(Unit)] /\ def \in [Var -> Seq(Unit)]
  /\ device \in [Var -> Seq(Unit)] /\ told \in [Watched -> Seq(Unit)]
  /\ \A v \in Var : /\ value[v] \in Value(v) /\ def[v] \in Value(v)
                    /\ device[v] \in Value(v)
  /\ \A v \in Watched : told[v] \in Value(v) \cup {<<>>}
  /\ dirty \in [Var -> {0, 1}]
  /\ job \in [Task -> Jobs]

(* What a task at each step of a call relies on: the device's mutex is     *)
(* held exactly while copying, the variable was found in the registry or   *)
(* the service's mutex, which registration needs too, is held, and a       *)
(* module about to be registered still has its free slot.                  *)
JobOK(t) ==
  /\ job[t].pc \in OnVar <=> job[t].var # None
  /\ At(t, "store") => job[t].new \in Value(job[t].var)
  /\ At(t, "storeString") => job[t].n + Len(job[t].new) < Width[job[t].var]
  /\ At(t, "write") \/ At(t, "copy") => job[t].var \in Saved
  /\ At(t, "copy") <=> nvm = t
  /\ At(t, "copy") => job[t].n \in 1..Width[job[t].var]
  /\ At(t, "tell") => job[t].var \in Watched
  /\ At(t, "loop") => mutex = t
  /\ job[t].pc \in OnVar => Found(job[t].var) \/ mutex = t
  /\ At(t, "fill") =>
       /\ t = Registrar /\ job[t].slot \in 1..SlotCount
       /\ registry[job[t].slot] = None
       /\ \E m \in Module \ Registered : Table[m] = job[t].rest

Sound == TypeInv /\ \A t \in Task : JobOK(t)

-----------------------------------------------------------------------------
LEMMA FunIsSeq ==
  ASSUME NEW S, NEW n \in Nat, NEW f \in [1..n -> S]
  PROVE  f \in Seq(S) /\ Len(f) = n
<1>1. f \in Seq(S)
  BY SeqDef
<1>2. DOMAIN f = 1..n /\ DOMAIN f = 1..Len(f) /\ Len(f) \in Nat
  BY <1>1, LenProperties
<1> QED
  BY <1>1, <1>2

LEMMA ValueIsSeq ==
  ASSUME NEW v \in Var, NEW x \in Value(v)
  PROVE  x \in Seq(Unit) /\ Len(x) = Width[v]
<1>1. Width[v] \in Nat /\ x \in [1..Width[v] -> Unit]
  BY SvarAssumption DEF Value
<1> QED
  BY <1>1, FunIsSeq

LEMMA Constants ==
  /\ 0 \in Unit /\ Base - 1 \in Unit
  /\ \A v \in Var : Zero(v) \in Value(v) /\ Ones(v) \in Value(v)
BY SvarAssumption DEF Unit, Zero, Ones, Value

LEMMA IdleIsJob == idle \in Jobs
BY EmptySeq DEF idle, Jobs, States

(* What is ended is still a value.                                         *)
LEMMA EndedIsValue ==
  ASSUME NEW v \in Var, NEW x \in Value(v)
  PROVE  /\ Ended(v, x) \in Value(v) /\ Ended(v, x) \in Seq(Unit)
         /\ Kind[v] = "string" => Ended(v, x)[Width[v]] = 0
<1>1. Width[v] \in Nat \ {0} /\ x \in [1..Width[v] -> Unit] /\ 0 \in Unit
  BY Constants, SvarAssumption DEF Value
<1>2. [x EXCEPT ![Width[v]] = 0] \in [1..Width[v] -> Unit]
  BY <1>1
<1>3. Ended(v, x) \in Value(v)
  BY <1>1, <1>2 DEF Ended, Value
<1>4. Kind[v] = "string" => Ended(v, x)[Width[v]] = 0
  BY <1>1 DEF Ended
<1> QED
  BY <1>3, <1>4, ValueIsSeq

(* Where a task goes once a variable is stored, or written.                *)
Resumes(t, k) == k.pc = (IF mutex = t THEN "loop" ELSE "idle") /\ k.var = None

Tells(t, v, k) ==
  IF v \in Watched THEN k.pc = "tell" /\ k.var = v ELSE Resumes(t, k)

LEMMA AfterTellIs ==
  ASSUME NEW t \in Task, NEW r \in Seq(Var)
  PROVE  AfterTell(t, r) \in Jobs /\ Resumes(t, AfterTell(t, r))
BY IdleIsJob DEF AfterTell, Resumes, idle, Jobs, States

LEMMA AfterWriteIs ==
  ASSUME NEW t \in Task, NEW j \in Jobs
  PROVE  AfterWrite(t, j) \in Jobs /\ Tells(t, j.var, AfterWrite(t, j))
<1>1. CASE j.var \in Watched
  BY <1>1 DEF AfterWrite, Tells, Jobs, States
<1>2. CASE j.var \notin Watched
  <2>1. j.rest \in Seq(Var)
    BY DEF Jobs
  <2> QED
    BY <1>2, <2>1, AfterTellIs DEF AfterWrite, Tells
<1> QED
  BY <1>1, <1>2

LEMMA AfterStoreIs ==
  ASSUME NEW t \in Task, NEW j \in Jobs
  PROVE  /\ AfterStore(t, j) \in Jobs
         /\ IF j.var \in Saved
              THEN AfterStore(t, j).pc = "write" /\ AfterStore(t, j).var = j.var
              ELSE Tells(t, j.var, AfterStore(t, j))
<1> DEFINE k == [j EXCEPT !.n = 0, !.new = <<>>]
<1>1. k \in Jobs /\ k.var = j.var
  BY EmptySeq DEF Jobs
<1>2. CASE j.var \in Saved
  BY <1>1, <1>2 DEF AfterStore, Jobs, States
<1>3. CASE j.var \notin Saved
  <2>1. AfterStore(t, j) = AfterWrite(t, k)
    BY <1>3 DEF AfterStore
  <2> HIDE DEF k
  <2> QED
    BY <1>1, <1>3, <2>1, AfterWriteIs
<1> QED
  BY <1>2, <1>3

-----------------------------------------------------------------------------
(* A step of one task disturbs no other, unless it gives or takes a mutex  *)
(* of the other's.                                                         *)
Alone(t) ==
  \A u \in Task \ {t} :
    job'[u] = job[u] /\ (nvm' = u <=> nvm = u) /\ (mutex' = u <=> mutex = u)

LEMMA OthersOK ==
  ASSUME Sound, NEW t \in Task, Alone(t), UNCHANGED registry
  PROVE  \A u \in Task \ {t} : JobOK(u)'
BY DEF Sound, JobOK, Alone, At, Found, Registered

LEMMA JobChanges ==
  ASSUME Sound, NEW t \in Task, NEW k \in Jobs, job' = [job EXCEPT ![t] = k]
  PROVE  job' \in [Task -> Jobs] /\ job'[t] = k /\ \A u \in Task \ {t} : job'[u] = job[u]
BY DEF Sound, TypeInv

(* The task is where it may be after a store: writing, telling or done.    *)
LEMMA StoredOK ==
  ASSUME Sound, NEW t \in Task, NEW j \in Jobs, j.var \in Var,
         Found(j.var) \/ mutex = t, nvm # t,
         job' = [job EXCEPT ![t] = AfterStore(t, j)],
         UNCHANGED <<registry, mutex, nvm>>
  PROVE  job' \in [Task -> Jobs] /\ \A u \in Task : JobOK(u)'
<1> DEFINE k == AfterStore(t, j)
<1>1. /\ k \in Jobs
      /\ IF j.var \in Saved THEN k.pc = "write" /\ k.var = j.var ELSE Tells(t, j.var, k)
  BY AfterStoreIs
<1> HIDE DEF k
<1>2. job' \in [Task -> Jobs] /\ job'[t] = k /\ \A u \in Task \ {t} : job'[u] = job[u]
  BY <1>1, JobChanges DEF k
<1>3. \A u \in Task \ {t} : JobOK(u)'
  BY <1>2, OthersOK DEF Alone
<1>4. JobOK(t)'
  BY <1>1, <1>2, SvarAssumption DEF JobOK, At, Tells, Resumes, OnVar, Found, Registered
<1> QED
  BY <1>2, <1>3, <1>4

LEMMA WrittenOK ==
  ASSUME Sound, NEW t \in Task, NEW j \in Jobs, j.var \in Var,
         Found(j.var) \/ mutex = t, nvm' # t, nvm = t => nvm' = Free, nvm # t => nvm' = nvm,
         job' = [job EXCEPT ![t] = AfterWrite(t, j)],
         UNCHANGED <<registry, mutex>>
  PROVE  job' \in [Task -> Jobs] /\ \A u \in Task : JobOK(u)'
<1> DEFINE k == AfterWrite(t, j)
<1>1. k \in Jobs /\ Tells(t, j.var, k)
  BY AfterWriteIs
<1> HIDE DEF k
<1>2. job' \in [Task -> Jobs] /\ job'[t] = k /\ \A u \in Task \ {t} : job'[u] = job[u]
  BY <1>1, JobChanges DEF k
<1>3. \A u \in Task \ {t} : JobOK(u)'
  BY <1>2, OthersOK, SvarAssumption DEF Alone
<1>4. JobOK(t)'
  BY <1>1, <1>2, SvarAssumption DEF JobOK, At, Tells, Resumes, OnVar, Found, Registered
<1> QED
  BY <1>2, <1>3, <1>4

(* A step that only moves on a task that holds no mutex of the device's.   *)
LEMMA MovedOK ==
  ASSUME Sound, NEW t \in Task, NEW k \in Jobs,
         job' = [job EXCEPT ![t] = k],
         UNCHANGED <<registry, nvm>>,
         \A u \in Task \ {t} : mutex' = u <=> mutex = u,
         job' \in [Task -> Jobs] /\ job'[t] = k => JobOK(t)'
  PROVE  job' \in [Task -> Jobs] /\ \A u \in Task : JobOK(u)'
<1>1. job' \in [Task -> Jobs] /\ job'[t] = k /\ \A u \in Task \ {t} : job'[u] = job[u]
  BY JobChanges
<1>2. \A u \in Task \ {t} : JobOK(u)'
  BY <1>1, OthersOK DEF Alone
<1> QED
  BY <1>1, <1>2

LEMMA InitSound == Init => Sound
<1> SUFFICES ASSUME Init PROVE Sound
  OBVIOUS
<1>1. \A v \in Var : Zero(v) \in Seq(Unit) /\ Ones(v) \in Seq(Unit)
  BY Constants, ValueIsSeq
<1>2. TypeInv
  BY <1>1, Constants, IdleIsJob, EmptySeq, SvarAssumption DEF Init, TypeInv
<1>3. \A t \in Task : JobOK(t)
  BY SvarAssumption DEF Init, JobOK, At, idle, OnVar
<1> QED
  BY <1>2, <1>3 DEF Sound

LEMMA RegisterScanSound ==
  ASSUME Sound, NEW t \in Task, NEW m \in Module, RegisterScan(t, m)
  PROVE  Sound'
<1> PICK i \in 1..SlotCount :
       /\ registry[i] = None
       /\ job' = [job EXCEPT ![t] = [idle EXCEPT !.pc = "fill", !.slot = i, !.rest = Table[m]]]
  BY DEF RegisterScan
<1> DEFINE k == [idle EXCEPT !.pc = "fill", !.slot = i, !.rest = Table[m]]
<1>1. /\ k \in Jobs /\ k.pc = "fill" /\ k.var = None /\ k.slot = i /\ k.rest = Table[m]
      /\ m \notin Registered /\ t = Registrar /\ At(t, "idle") /\ nvm # t
      /\ UNCHANGED <<registry, value, def, high, home, device, mutex, nvm, told, loaded, dirty>>
  <2>1. Table[m] \in Seq(Var) /\ i \in Nat
    BY SvarAssumption
  <2>2. /\ k \in Jobs /\ k.pc = "fill" /\ k.var = None /\ k.slot = i
        /\ k.rest = Table[m]
    BY <2>1, EmptySeq DEF idle, Jobs, States
  <2> HIDE DEF k
  <2> QED
    BY <2>2 DEF RegisterScan, Sound, JobOK, At
<1> HIDE DEF k
<1>2. job' \in [Task -> Jobs] /\ job'[t] = k => JobOK(t)'
  <2> SUFFICES ASSUME job'[t] = k PROVE JobOK(t)'
    OBVIOUS
  <2>1. /\ registry' = registry /\ nvm' # t /\ registry[i] = None
        /\ t = Registrar /\ Registered' = Registered /\ m \in Module \ Registered
    BY <1>1 DEF Registered
  <2>2. /\ job'[t].pc = "fill" /\ job'[t].var = None /\ job'[t].slot = i
        /\ job'[t].rest = Table[m]
    BY <1>1
  <2> QED
    BY ONLY <2>1, <2>2, i \in 1..SlotCount DEF JobOK, At, OnVar
<1>3. job' \in [Task -> Jobs] /\ \A u \in Task : JobOK(u)'
  BY <1>1, <1>2, MovedOK DEF k
<1> QED
  BY <1>1, <1>3 DEF Sound, TypeInv

(* While a module is registered nobody holds the service's mutex, so that  *)
(* nobody holds a variable of it.                                          *)
Filled(m) ==
  /\ Registered' = Registered \cup {m}
  /\ \A v \in Var : Contains(Table[m], v) =>
       ~Found(v) /\ \A u \in Task : job[u].var # v
  /\ \A v \in Var : Contains(Table[m], v) =>
       IF v \in Persistent
         THEN \E n \in 0..Width[v] :
                value'[v] = _nvmRead(v, n) /\ (n < Width[v] => dirty'[v] = 1)
         ELSE value'[v] = Ended(v, def[v])
  /\ \A v \in Var : ~Contains(Table[m], v) => value'[v] = value[v] /\ dirty'[v] = dirty[v]
  /\ \A v \in Var : dirty'[v] = 1 \/ dirty'[v] = dirty[v]
  /\ \A v \in Watched : Contains(Table[m], v) => told'[v] = <<>> /\ loaded'[v] = value'[v]
  /\ \A v \in Watched : ~Contains(Table[m], v) => told'[v] = told[v] /\ loaded'[v] = loaded[v]
  /\ value' = [v \in Var |-> value'[v]]
  /\ dirty' = [v \in Var |-> dirty'[v]]
  /\ told' = [v \in Watched |-> told'[v]]

LEMMA FillFacts ==
  ASSUME Sound, NEW t \in Task, RegisterFill(t)
  PROVE  \E m \in Module :
           /\ registry' = [registry EXCEPT ![job[t].slot] = m]
           /\ job[t].slot \in 1..SlotCount
           /\ Filled(m)
<1> PICK m \in Module : \E read \in Reads(m) :
       /\ Table[m] = job[t].rest
       /\ registry' = [registry EXCEPT ![job[t].slot] = m]
       /\ _initModule(m, read)
       /\ dirty' = [v \in Var |-> IF read[v] < Width[v] THEN 1 ELSE dirty[v]]
       /\ told' = [v \in Watched |-> IF Contains(Table[m], v) THEN <<>> ELSE told[v]]
       /\ loaded' = [v \in Var |-> IF Contains(Table[m], v) THEN value'[v] ELSE loaded[v]]
  BY DEF RegisterFill
<1> PICK read \in Reads(m) :
       /\ _initModule(m, read)
       /\ dirty' = [v \in Var |-> IF read[v] < Width[v] THEN 1 ELSE dirty[v]]
  OBVIOUS
<1> PICK o \in Module \ Registered : Table[o] = job[t].rest
  BY DEF Sound, JobOK, RegisterFill
<1>1. registry[job[t].slot] = None /\ mutex = Free
  BY DEF Sound, JobOK, RegisterFill
<1>2. /\ job[t].slot \in 1..SlotCount /\ m # None
      /\ registry \in [1..SlotCount -> Module \cup {None}]
  BY SvarAssumption DEF Sound, TypeInv, JobOK, RegisterFill
<1>3. Registered' = Registered \cup {m}
  BY <1>1, <1>2 DEF Registered
<1>4. \A v \in Var : Contains(Table[m], v) => ~Found(v)
  <2> SUFFICES ASSUME NEW v \in Var, Contains(Table[m], v), Found(v)
               PROVE  FALSE
    OBVIOUS
  <2>1. PICK n \in Registered : Contains(Table[n], v)
    BY DEF Found
  <2>2. n \in Module
    BY <1>2, <2>1 DEF Registered
  <2>3. n = m /\ o = m
    BY <2>1, <2>2, SvarAssumption
  <2> QED
    BY <2>1, <2>3
<1>5. \A v \in Var : Contains(Table[m], v) => \A u \in Task : job[u].var # v
  <2> SUFFICES ASSUME NEW v \in Var, Contains(Table[m], v), NEW u \in Task, job[u].var = v
               PROVE  FALSE
    OBVIOUS
  <2>1. JobOK(u) /\ v # None
    BY SvarAssumption DEF Sound
  <2>2. Found(v) \/ mutex = u
    BY <2>1 DEF JobOK
  <2> QED
    BY <1>1, <1>4, <2>2, SvarAssumption
<1>6. /\ value' = [v \in Var |-> value'[v]] /\ dirty' = [v \in Var |-> dirty'[v]]
      /\ told' = [v \in Watched |-> told'[v]]
      /\ \A v \in Var : value'[v] =
           IF ~Contains(Table[m], v) THEN value[v]
           ELSE IF v \in Persistent THEN _nvmRead(v, read[v]) ELSE Ended(v, def[v])
  BY DEF _initModule
<1>7. \A v \in Var :
        IF Contains(Table[m], v) /\ v \in Persistent
          THEN read[v] \in 0..Width[v] ELSE read[v] = Width[v]
  <2> SUFFICES ASSUME NEW v \in Var, Contains(Table[m], v), v \in Persistent
               PROVE  read[v] \in 0..Width[v]
    BY DEF Reads
  <2>1. PICK w \in Var : read[v] \in 0..Width[w]
    BY DEF Reads
  <2>2. read[v] =< Width[v] /\ Width[v] \in Nat /\ Width[w] \in Nat
    BY SvarAssumption DEF Reads
  <2> QED
    BY <2>1, <2>2
<1>8. \A v \in Var : /\ Width[v] \in Nat
                     /\ dirty'[v] = IF read[v] < Width[v] THEN 1 ELSE dirty[v]
  BY SvarAssumption
<1>9. \A v \in Watched :
        IF Contains(Table[m], v) THEN told'[v] = <<>> /\ loaded'[v] = value'[v]
        ELSE told'[v] = told[v] /\ loaded'[v] = loaded[v]
  BY SvarAssumption
<1>10. Filled(m)
  BY <1>3, <1>4, <1>5, <1>6, <1>7, <1>8, <1>9 DEF Filled
<1> QED
  BY <1>2, <1>10

LEMMA ReadIsValue ==
  ASSUME Sound, NEW v \in Var, NEW n \in Nat
  PROVE  /\ _nvmRead(v, n) \in Value(v)
         /\ Kind[v] = "string" => _nvmRead(v, n)[Width[v]] = 0
<1> DEFINE x == [i \in 1..Width[v] |-> IF i =< n THEN device[v][i] ELSE def[v][i]]
<1>1. device[v] \in [1..Width[v] -> Unit] /\ def[v] \in [1..Width[v] -> Unit]
  BY DEF Sound, TypeInv, Value
<1>2. x \in Value(v)
  BY <1>1 DEF Value
<1>3. _nvmRead(v, n) = Ended(v, x)
  BY DEF _nvmRead
<1> HIDE DEF x
<1> QED
  BY <1>2, <1>3, EndedIsValue

LEMMA RegisterFillSound ==
  ASSUME Sound, NEW t \in Task, RegisterFill(t)
  PROVE  Sound'
<1> PICK m \in Module :
       /\ registry' = [registry EXCEPT ![job[t].slot] = m]
       /\ job[t].slot \in 1..SlotCount
       /\ Filled(m)
  BY FillFacts
<1>1. /\ At(t, "fill") /\ t = Registrar /\ job' = [job EXCEPT ![t] = idle]
      /\ UNCHANGED <<def, high, home, device, mutex, nvm>>
  BY DEF RegisterFill, Sound, JobOK
<1>2. job' \in [Task -> Jobs] /\ job'[t] = idle /\ \A u \in Task \ {t} : job'[u] = job[u]
  BY <1>1, IdleIsJob, JobChanges
<1>3. \A u \in Task : JobOK(u)'
  <2> SUFFICES ASSUME NEW u \in Task
               PROVE  JobOK(u)'
    OBVIOUS
  <2>1. JobOK(u)
    BY DEF Sound
  <2>2. \A v : Found(v) => Found(v)'
    BY DEF Found, Filled
  <2>3. CASE u = t
    BY <1>1, <1>2, <2>1, <2>3 DEF JobOK, At, idle, OnVar
  <2>4. CASE u # t
    BY <1>1, <1>2, <2>1, <2>2, <2>4 DEF JobOK, At
  <2> QED
    BY <2>3, <2>4
<1>4. \A v \in Var : value'[v] \in Value(v)
  <2> SUFFICES ASSUME NEW v \in Var
               PROVE  value'[v] \in Value(v)
    OBVIOUS
  <2>1. Width[v] \in Nat /\ def[v] \in Value(v) /\ value[v] \in Value(v)
    BY SvarAssumption DEF Sound, TypeInv
  <2>2. \A n \in 0..Width[v] : _nvmRead(v, n) \in Value(v)
    BY <2>1, ReadIsValue
  <2>3. Ended(v, def[v]) \in Value(v)
    BY <2>1, EndedIsValue
  <2> QED
    BY <2>1, <2>2, <2>3 DEF Filled
<1>5. \A v \in Watched : told'[v] \in Value(v) \cup {<<>>}
  BY DEF Filled, Sound, TypeInv
<1>6. value' \in [Var -> Seq(Unit)] /\ told' \in [Watched -> Seq(Unit)]
  <2>1. \A v \in Var : value'[v] \in Seq(Unit)
    BY <1>4, ValueIsSeq
  <2>2. \A v \in Watched : told'[v] \in Seq(Unit)
    <3> SUFFICES ASSUME NEW v \in Watched PROVE told'[v] \in Seq(Unit)
      OBVIOUS
    <3>1. v \in Var /\ (told'[v] \in Value(v) \/ told'[v] = <<>>)
      BY <1>5, SvarAssumption
    <3>2. told'[v] \in Value(v) => told'[v] \in Seq(Unit)
      BY <3>1, ValueIsSeq
    <3>3. <<>> \in Seq(Unit)
      BY EmptySeq
    <3> QED
      BY <3>1, <3>2, <3>3
  <2>3. value' = [v \in Var |-> value'[v]] /\ told' = [v \in Watched |-> told'[v]]
    BY DEF Filled
  <2> QED
    BY <2>1, <2>2, <2>3
<1>7. registry' \in [1..SlotCount -> Module \cup {None}]
  BY DEF Sound, TypeInv
<1>8. dirty' \in [Var -> {0, 1}]
  <2>1. \A v \in Var : dirty'[v] \in {0, 1}
    BY DEF Filled, Sound, TypeInv
  <2>2. dirty' = [v \in Var |-> dirty'[v]]
    BY DEF Filled
  <2> QED
    BY <2>1, <2>2
<1> QED
  BY <1>1, <1>2, <1>3, <1>4, <1>5, <1>6, <1>7, <1>8 DEF Sound, TypeInv

LEMMA SetSound ==
  ASSUME Sound, NEW t \in Task, NEW v \in Var, NEW x \in Inputs[v], SVAR_Set(t, v, x)
  PROVE  Sound'
<1> DEFINE k == [idle EXCEPT !.pc = "store", !.var = v, !.new = _copyToUnion(v, x)]
<1>1. _copyToUnion(v, x) \in Value(v)
  BY Constants, SvarAssumption DEF _copyToUnion
<1>2. k \in Jobs /\ k.pc = "store" /\ k.var = v /\ k.new = _copyToUnion(v, x)
  BY <1>1, ValueIsSeq, EmptySeq DEF idle, Jobs, States
<1>3. /\ Found(v) /\ At(t, "idle") /\ nvm # t
      /\ job' = [job EXCEPT ![t] = k]
      /\ UNCHANGED <<registry, value, def, high, home, device, mutex, nvm, told, loaded, dirty>>
  BY DEF SVAR_Set, Sound, JobOK, At
<1> HIDE DEF k
<1>4. job' \in [Task -> Jobs] /\ job'[t] = k => JobOK(t)'
  <2> SUFFICES ASSUME job'[t] = k PROVE JobOK(t)'
    OBVIOUS
  <2>1. /\ job'[t].pc = "store" /\ job'[t].var = v /\ job'[t].new = _copyToUnion(v, x)
        /\ nvm' # t /\ v # None
    BY <1>2, <1>3, SvarAssumption
  <2>2. Found(v)'
    BY <1>3 DEF Found, Registered
  <2> QED
    BY ONLY <1>1, <2>1, <2>2 DEF JobOK, At, OnVar
<1>5. job' \in [Task -> Jobs] /\ \A u \in Task : JobOK(u)'
  BY <1>2, <1>3, <1>4, MovedOK
<1> QED
  BY <1>3, <1>5 DEF Sound, TypeInv

LEMMA SetStringSound ==
  ASSUME Sound, NEW t \in Task, NEW v \in Strings, NEW c \in Unit \ {0},
         NEW offset \in 0..2, NEW len \in 1..3, SVAR_SetString(t, v, c, offset, len)
  PROVE  Sound'
<1> DEFINE new == [i \in 1..CopyLen(v, offset, len) |-> c]
           k == [idle EXCEPT !.pc = "storeString", !.var = v, !.n = offset, !.new = new]
<1>1. /\ v \in Var /\ Width[v] \in Nat /\ offset < Width[v] - 1
      /\ CopyLen(v, offset, len) \in Nat
      /\ offset + CopyLen(v, offset, len) < Width[v]
  BY SvarAssumption DEF SVAR_SetString, CopyLen, Strings
<1>2. new \in Seq(Unit) /\ Len(new) = CopyLen(v, offset, len)
  BY <1>1, FunIsSeq
<1> HIDE DEF new
<1>3. k \in Jobs /\ k.pc = "storeString" /\ k.var = v /\ k.new = new /\ k.n = offset
  <2>1. offset \in Nat /\ <<>> \in Seq(Var)
    BY EmptySeq
  <2> QED
    BY ONLY <1>1, <1>2, <2>1 DEF idle, Jobs, States
<1>4. /\ Found(v) /\ At(t, "idle") /\ nvm # t
      /\ job' = [job EXCEPT ![t] = k]
      /\ UNCHANGED <<registry, value, def, high, home, device, mutex, nvm, told, loaded, dirty>>
  BY DEF SVAR_SetString, Sound, JobOK, At, new
<1> HIDE DEF k
<1>5. job' \in [Task -> Jobs] /\ job'[t] = k => JobOK(t)'
  BY <1>1, <1>2, <1>3, <1>4, SvarAssumption, ZenonT(40) DEF JobOK, At, OnVar, Found, Registered
<1>6. job' \in [Task -> Jobs] /\ \A u \in Task : JobOK(u)'
  BY <1>3, <1>4, <1>5, MovedOK
<1> QED
  BY <1>4, <1>6 DEF Sound, TypeInv

(* A variable v is stored: memory changes there, the task moves on, and    *)
(* nothing else changes. What the four stores have in common.              *)
Stores(t, v) ==
  /\ t \in Task /\ v \in Var
  /\ ~At(t, "copy") /\ ~At(t, "write") /\ ~At(t, "tell")
  /\ nvm # t /\ (Found(v) \/ mutex = t)
  /\ \E x \in Value(v) : value' = [value EXCEPT ![v] = x]
  /\ \E j \in Jobs : j.var = v /\ job' = [job EXCEPT ![t] = AfterStore(t, j)]
  /\ UNCHANGED <<registry, def, device, mutex, nvm, told, loaded, dirty>>

LEMMA StoresSound ==
  ASSUME Sound, NEW t, NEW v, Stores(t, v)
  PROVE  Sound'
<1>1. job' \in [Task -> Jobs] /\ \A u \in Task : JobOK(u)'
  BY StoredOK DEF Stores
<1>2. PICK x \in Value(v) : value' = [value EXCEPT ![v] = x]
  BY DEF Stores
<1>3. v \in Var /\ x \in Seq(Unit)
  BY ValueIsSeq DEF Stores
<1>4. value' \in [Var -> Seq(Unit)] /\ \A w \in Var : value'[w] \in Value(w)
  BY <1>2, <1>3 DEF Sound, TypeInv
<1> QED
  BY <1>1, <1>4 DEF Stores, Sound, TypeInv

LEMMA SetValueStores ==
  ASSUME Sound, NEW t \in Task, _setValue(t)
  PROVE  Stores(t, job[t].var) /\ value'[job[t].var] = job[t].new
<1>1. /\ At(t, "store") /\ job[t] \in Jobs /\ JobOK(t)
      /\ value \in [Var -> Seq(Unit)]
  BY DEF Sound, TypeInv, _setValue
<1>2. /\ job[t].var \in Var /\ job[t].new \in Value(job[t].var)
      /\ Found(job[t].var) \/ (mutex = t /\ nvm # t)
  BY <1>1 DEF JobOK, At, OnVar, Jobs
<1> QED
  BY <1>1, <1>2 DEF Stores, _setValue, At, Sound, TypeInv, JobOK

LEMMA StoreStringStores ==
  ASSUME Sound, NEW t \in Task, StoreString(t)
  PROVE  Stores(t, job[t].var)
<1> DEFINE v == job[t].var
           at == job[t].n
           new == job[t].new
           x == [i \in 1..Width[v] |->
                   IF at < i /\ i =< at + Len(new) THEN new[i - at]
                   ELSE IF i = at + Len(new) + 1 THEN 0 ELSE value[v][i]]
<1>1. /\ At(t, "storeString") /\ job[t] \in Jobs /\ JobOK(t)
      /\ value \in [Var -> Seq(Unit)]
  BY DEF Sound, TypeInv, StoreString
<1>2. /\ v \in Var /\ at \in Nat /\ new \in Seq(Unit)
      /\ Found(v) \/ mutex = t
      /\ nvm # t /\ Width[v] \in Nat /\ value[v] \in Value(v)
  BY <1>1, SvarAssumption DEF JobOK, At, OnVar, Jobs, Sound, TypeInv
<1>3. x \in Value(v)
  <2> SUFFICES ASSUME NEW i \in 1..Width[v]
               PROVE  x[i] \in Unit
    BY DEF Value
  <2>1. CASE at < i /\ i =< at + Len(new)
    BY <1>2, <2>1
  <2>2. CASE i = at + Len(new) + 1
    BY <1>2, <2>2, Constants
  <2>3. CASE ~(at < i /\ i =< at + Len(new)) /\ i # at + Len(new) + 1
    BY <1>2, <2>3 DEF Value
  <2> QED
    BY <2>1, <2>2, <2>3
<1>4. value' = [value EXCEPT ![v] = x]
  BY <1>1, <1>2 DEF StoreString
<1> HIDE DEF x
<1> QED
  BY <1>1, <1>2, <1>3, <1>4 DEF Stores, StoreString, At

LEMMA ResetStores ==
  ASSUME Sound, NEW t \in Task, NEW v \in Var, SVAR_Reset(t, v)
  PROVE  Stores(t, v) /\ value'[v] = Ended(v, def[v])
<1> DEFINE j == [idle EXCEPT !.var = v]
<1>1. j \in Jobs /\ j.var = v
  BY EmptySeq DEF idle, Jobs, States
<1>2. Ended(v, def[v]) \in Value(v) /\ value \in [Var -> Seq(Unit)] /\ nvm # t
  BY EndedIsValue DEF Sound, TypeInv, JobOK, SVAR_Reset, At
<1> HIDE DEF j
<1> QED
  BY <1>1, <1>2 DEF Stores, SVAR_Reset, At, j

LEMMA ResetNextStores ==
  ASSUME Sound, NEW t \in Task, ResetNext(t)
  PROVE  /\ Stores(t, Head(job[t].rest))
         /\ value'[Head(job[t].rest)] =
              Ended(Head(job[t].rest), def[Head(job[t].rest)])
<1> DEFINE v == Head(job[t].rest)
           j == [job[t] EXCEPT !.var = v, !.rest = Tail(job[t].rest)]
<1>1. /\ job[t] \in Jobs /\ job[t].rest \in Seq(Var) /\ job[t].rest # <<>>
      /\ At(t, "loop") /\ mutex = t
  BY DEF Sound, TypeInv, Jobs, ResetNext, JobOK
<1>2. v \in Var /\ Tail(job[t].rest) \in Seq(Var)
  BY <1>1, HeadTailProperties
<1>3. j \in Jobs /\ j.var = v
  BY <1>1, <1>2 DEF Jobs
<1>4. Ended(v, def[v]) \in Value(v) /\ value \in [Var -> Seq(Unit)] /\ nvm # t
  BY <1>1, <1>2, EndedIsValue DEF Sound, TypeInv, JobOK, At
<1>5. /\ value' = [value EXCEPT ![v] = Ended(v, def[v])]
      /\ job' = [job EXCEPT ![t] = AfterStore(t, j)]
      /\ UNCHANGED <<registry, def, device, mutex, nvm, told, loaded, dirty>>
  BY DEF ResetNext
<1> HIDE DEF j, v
<1>6. Stores(t, v) /\ value'[v] = Ended(v, def[v])
  BY <1>1, <1>2, <1>3, <1>4, <1>5 DEF Stores, At
<1> QED
  BY <1>6 DEF v

LEMMA ResetModuleSound ==
  ASSUME Sound, NEW t \in Task, NEW m \in Module, SVAR_ResetModule(t, m)
  PROVE  Sound'
<1> DEFINE k == [idle EXCEPT !.pc = "loop", !.rest = Table[m]]
<1>1. k \in Jobs /\ k.pc = "loop" /\ k.var = None
  <2>1. Table[m] \in Seq(Var)
    BY SvarAssumption
  <2> QED
    BY <2>1, EmptySeq DEF idle, Jobs, States
<1>2. /\ At(t, "idle") /\ mutex = Free /\ mutex' = t /\ nvm # t
      /\ job' = [job EXCEPT ![t] = k]
      /\ UNCHANGED <<registry, value, def, high, home, device, nvm, told, loaded, dirty>>
  BY DEF SVAR_ResetModule, Sound, JobOK, At
<1> HIDE DEF k
<1>3. job' \in [Task -> Jobs] /\ job'[t] = k => JobOK(t)'
  BY <1>1, <1>2 DEF JobOK, At, OnVar
<1>4. job' \in [Task -> Jobs] /\ \A u \in Task : JobOK(u)'
  BY <1>1, <1>2, <1>3, MovedOK, SvarAssumption
<1> QED
  BY <1>2, <1>4 DEF Sound, TypeInv

LEMMA ResetDoneSound ==
  ASSUME Sound, NEW t \in Task, ResetDone(t)
  PROVE  Sound'
<1>1. idle \in Jobs /\ idle.pc = "idle" /\ idle.var = None
  BY IdleIsJob DEF idle
<1>2. /\ mutex = t /\ mutex' = Free /\ nvm # t
      /\ job' = [job EXCEPT ![t] = idle]
      /\ UNCHANGED <<registry, value, def, high, home, device, nvm, told, loaded, dirty>>
  BY DEF ResetDone, Sound, JobOK, At
<1>3. job' \in [Task -> Jobs] /\ job'[t] = idle => JobOK(t)'
  BY <1>1, <1>2 DEF JobOK, At, OnVar
<1>4. job' \in [Task -> Jobs] /\ \A u \in Task : JobOK(u)'
  BY <1>1, <1>2, <1>3, MovedOK, SvarAssumption
<1> QED
  BY <1>2, <1>4 DEF Sound, TypeInv

LEMMA WriteBeginSound ==
  ASSUME Sound, NEW t \in Task, WriteBegin(t)
  PROVE  Sound'
<1> DEFINE k == [job[t] EXCEPT !.pc = "copy", !.n = 1]
<1>1. job[t] \in Jobs /\ JobOK(t) /\ At(t, "write") /\ nvm = Free
  BY DEF Sound, TypeInv, WriteBegin
<1>2. k \in Jobs /\ k.pc = "copy" /\ k.var = job[t].var /\ k.n = 1
  BY <1>1 DEF Jobs, States
<1>3. /\ nvm' = t /\ dirty' = [dirty EXCEPT ![job[t].var] = 0]
      /\ job' = [job EXCEPT ![t] = k]
      /\ UNCHANGED <<registry, value, def, high, home, device, mutex, told, loaded>>
  BY DEF WriteBegin
<1> HIDE DEF k
<1>4. job' \in [Task -> Jobs] /\ job'[t] = k /\ \A u \in Task \ {t} : job'[u] = job[u]
  BY <1>2, <1>3, JobChanges
<1>5. \A u \in Task \ {t} : JobOK(u)'
  BY <1>1, <1>3, <1>4, OthersOK, SvarAssumption DEF Alone
<1>6. JobOK(t)'
  <2>1. job[t].var \in Saved /\ job[t].var \in Var /\ 1 \in 1..Width[job[t].var]
    BY <1>1, SvarAssumption DEF JobOK, Saved
  <2> QED
    BY <1>1, <1>2, <1>3, <1>4, <2>1, SvarAssumption DEF JobOK, At, OnVar, Found, Registered
<1>7. dirty' \in [Var -> {0, 1}]
  BY <1>3 DEF Sound, TypeInv
<1> QED
  BY <1>3, <1>4, <1>5, <1>6, <1>7 DEF Sound, TypeInv

LEMMA WriteUnitSound ==
  ASSUME Sound, NEW t \in Task, WriteUnit(t)
  PROVE  Sound'
<1> DEFINE v == job[t].var
           n == job[t].n
<1>1. job[t] \in Jobs /\ JobOK(t) /\ At(t, "copy") /\ nvm = t
  BY DEF Sound, TypeInv, WriteUnit, JobOK
<1>2. /\ v \in Saved /\ v \in Var /\ n \in 1..Width[v] /\ Width[v] \in Nat
      /\ Found(v) \/ mutex = t
  BY <1>1, SvarAssumption DEF JobOK, Saved, At, OnVar
<1>3. /\ device' = [device EXCEPT ![v][n] = value[v][n]]
      /\ UNCHANGED <<registry, value, def, high, home, mutex, told, loaded, dirty>>
  BY DEF WriteUnit
<1>4. device' \in [Var -> Seq(Unit)] /\ \A w \in Var : device'[w] \in Value(w)
  <2>1. [device[v] EXCEPT ![n] = value[v][n]] \in Value(v)
    BY <1>2 DEF Sound, TypeInv, Value
  <2>2. device' = [device EXCEPT ![v] = [device[v] EXCEPT ![n] = value[v][n]]]
    BY <1>2, <1>3 DEF Sound, TypeInv
  <2>3. [device[v] EXCEPT ![n] = value[v][n]] \in Seq(Unit)
    BY <1>2, <2>1, ValueIsSeq
  <2> QED
    BY <1>2, <2>1, <2>2, <2>3 DEF Sound, TypeInv
<1>5. job' \in [Task -> Jobs] /\ \A u \in Task : JobOK(u)'
  <2>1. CASE n = Width[v]
    <3>1. nvm' = Free /\ job' = [job EXCEPT ![t] = AfterWrite(t, job[t])]
      BY <2>1 DEF WriteUnit
    <3> QED
      BY <1>1, <1>2, <1>3, <3>1, WrittenOK, SvarAssumption
  <2>2. CASE n # Width[v]
    <3> DEFINE k == [job[t] EXCEPT !.n = n + 1]
    <3>1. /\ k \in Jobs /\ k.pc = "copy" /\ k.var = v /\ k.n = n + 1
      BY <1>1, <1>2 DEF Jobs, At
    <3>2. nvm' = nvm /\ job' = [job EXCEPT ![t] = k]
      BY <2>2 DEF WriteUnit
    <3> HIDE DEF k
    <3>3. job' \in [Task -> Jobs] /\ job'[t] = k => JobOK(t)'
      BY <1>1, <1>2, <1>3, <2>2, <3>1, <3>2, SvarAssumption DEF JobOK, At, OnVar, Found, Registered
    <3> QED
      BY <1>3, <3>1, <3>2, <3>3, MovedOK
  <2> QED
    BY <2>1, <2>2
<1> QED
  BY <1>3, <1>4, <1>5 DEF Sound, TypeInv

LEMMA WriteFailSound ==
  ASSUME Sound, NEW t \in Task, WriteFail(t)
  PROVE  Sound'
<1>1. /\ job[t] \in Jobs /\ JobOK(t) /\ (At(t, "write") \/ At(t, "copy"))
      /\ nvm' = (IF nvm = t THEN Free ELSE nvm)
      /\ dirty' = [dirty EXCEPT ![job[t].var] = 1]
      /\ job' = [job EXCEPT ![t] = AfterWrite(t, job[t])]
      /\ UNCHANGED <<registry, value, def, high, home, device, mutex, told, loaded>>
  BY DEF Sound, TypeInv, WriteFail
<1>2. job[t].var \in Var /\ (Found(job[t].var) \/ mutex = t)
  BY <1>1, SvarAssumption DEF JobOK, Saved, At, OnVar
<1>3. job' \in [Task -> Jobs] /\ \A u \in Task : JobOK(u)'
  BY <1>1, <1>2, WrittenOK, SvarAssumption
<1>4. dirty' \in [Var -> {0, 1}]
  BY <1>1 DEF Sound, TypeInv
<1> QED
  BY <1>1, <1>3, <1>4 DEF Sound, TypeInv

LEMMA SetCallbackSound ==
  ASSUME Sound, NEW t \in Task, SetCallback(t)
  PROVE  Sound'
<1> DEFINE v == job[t].var
           w == Chain[v]
           k == [job[t] EXCEPT !.pc = "store", !.var = w, !.new = _copyToUnion(w, value[v])]
<1>1. /\ job[t] \in Jobs /\ JobOK(t) /\ At(t, "tell") /\ nvm # t
      /\ v \in Watched /\ v \in Var /\ job[t].rest \in Seq(Var)
  BY SvarAssumption DEF Sound, TypeInv, SetCallback, JobOK, At, Jobs
<1>2. /\ told' = [told EXCEPT ![v] = value[v]]
      /\ UNCHANGED <<registry, value, def, high, home, device, mutex, nvm, loaded, dirty>>
  BY DEF SetCallback
<1>3. told' \in [Watched -> Seq(Unit)] /\ \A x \in Watched : told'[x] \in Value(x) \cup {<<>>}
  BY <1>1, <1>2 DEF Sound, TypeInv
<1>4. job' \in [Task -> Jobs] /\ \A u \in Task : JobOK(u)'
  <2>1. CASE w # None /\ Found(w) /\ job' = [job EXCEPT ![t] = k]
    <3>1. w \in Var /\ _copyToUnion(w, value[v]) \in Value(w)
      BY <1>1, <2>1, Constants, SvarAssumption DEF _copyToUnion, Value, Sound, TypeInv
    <3>2. /\ k \in Jobs /\ k.pc = "store" /\ k.var = w
          /\ k.new = _copyToUnion(w, value[v])
      BY <1>1, <3>1, ValueIsSeq DEF Jobs, States
    <3> HIDE DEF k
    <3>3. job' \in [Task -> Jobs] /\ job'[t] = k => JobOK(t)'
      <4> SUFFICES ASSUME job'[t] = k
                   PROVE  JobOK(t)'
        OBVIOUS
      <4> PICK c \in Var : c = w
        BY <3>1
      <4>1. Found(c)' /\ nvm' # t /\ c # None
        BY <1>1, <1>2, <2>1 DEF Found, Registered
      <4>2. job'[t].pc = "store" /\ job'[t].var = c /\ job'[t].new \in Value(c)
        BY <3>1, <3>2
      <4> QED
        BY ONLY <4>1, <4>2 DEF JobOK, At, OnVar
    <3> QED
      BY <1>2, <2>1, <3>2, <3>3, MovedOK
  <2>2. CASE job' = [job EXCEPT ![t] = AfterTell(t, job[t].rest)]
    <3> DEFINE a == AfterTell(t, job[t].rest)
    <3>1. a \in Jobs /\ Resumes(t, a)
      BY <1>1, AfterTellIs
    <3> HIDE DEF a
    <3>2. job' \in [Task -> Jobs] /\ job'[t] = a => JobOK(t)'
      BY <1>1, <1>2, <3>1 DEF JobOK, At, OnVar, Resumes
    <3> QED
      BY <1>2, <2>2, <3>1, <3>2, MovedOK DEF a
  <2> QED
    BY <2>1, <2>2 DEF SetCallback
<1> QED
  BY <1>2, <1>3, <1>4 DEF Sound, TypeInv

LEMMA LimitsSound ==
  ASSUME Sound, NEW t \in Task, NEW v \in Var, NEW x \in Inputs[v],
         SVAR_SetMax(t, v, x) \/ SVAR_SetDefault(t, v, x)
  PROVE  Sound'
<1>1. /\ def' = def \/ def' = [def EXCEPT ![v] = x]
      /\ UNCHANGED <<registry, value, home, device, mutex, nvm, job, told, loaded, dirty>>
  BY DEF SVAR_SetMax, SVAR_SetDefault
<1>2. x \in Value(v) /\ x \in Seq(Unit)
  BY ValueIsSeq, SvarAssumption
<1>3. def' \in [Var -> Seq(Unit)] /\ \A w \in Var : def'[w] \in Value(w)
  BY <1>1, <1>2 DEF Sound, TypeInv
<1>4. \A u \in Task : JobOK(u)'
  BY <1>1 DEF Sound, JobOK, At, Found, Registered
<1> QED
  BY <1>1, <1>3, <1>4 DEF Sound, TypeInv

LEMMA PowerLossSound ==
  ASSUME Sound, PowerLoss
  PROVE  Sound'
<1>1. /\ registry' = [i \in 1..SlotCount |-> None]
      /\ mutex' = Free /\ nvm' = Free /\ job' = [t \in Task |-> idle]
      /\ def' = [v \in Var |-> Zero(v)] /\ told' = [v \in Watched |-> <<>>]
      /\ device' = device
  BY DEF PowerLoss
<1>2. dirty' \in [Var -> {0, 1}]
  BY DEF PowerLoss, Sound, TypeInv
<1>3. /\ \A v \in Var : value'[v] = value[v] \/ value'[v] = Zero(v)
      /\ value' = [v \in Var |-> value'[v]]
  BY DEF PowerLoss
<1>4. \A v \in Var : Zero(v) \in Value(v) /\ Zero(v) \in Seq(Unit)
  BY Constants, ValueIsSeq
<1>5. \A v \in Var : value'[v] \in Value(v) /\ value'[v] \in Seq(Unit)
  BY <1>3, <1>4 DEF Sound, TypeInv
<1>6. value' \in [Var -> Seq(Unit)]
  BY <1>3, <1>5
<1>7. def' \in [Var -> Seq(Unit)] /\ told' \in [Watched -> Seq(Unit)]
  BY <1>1, <1>4, EmptySeq, SvarAssumption
<1>8. \A v \in Watched : v \in Var
  BY SvarAssumption
<1>9. TypeInv'
  BY <1>1, <1>2, <1>4, <1>5, <1>6, <1>7, <1>8, IdleIsJob DEF TypeInv, Sound
<1>10. \A t \in Task : JobOK(t)'
  BY <1>1, SvarAssumption DEF JobOK, At, idle, OnVar
<1> QED
  BY <1>9, <1>10 DEF Sound

LEMMA NextSound == Sound /\ [Next]_vars => Sound'
<1> SUFFICES ASSUME Sound, [Next]_vars
             PROVE  Sound'
  OBVIOUS
<1>1. CASE PowerLoss
  BY <1>1, PowerLossSound
<1>2. ASSUME NEW t \in Task, Begin(t)
      PROVE  Sound'
  BY <1>2, RegisterScanSound, ResetModuleSound, ResetStores, StoresSound, SetSound,
     LimitsSound, SetStringSound DEF Begin
<1>3. ASSUME NEW t \in Task, Continue(t)
      PROVE  Sound'
  BY <1>3, RegisterFillSound, SetValueStores, StoreStringStores, ResetNextStores,
     StoresSound, ResetDoneSound, WriteBeginSound, WriteUnitSound, WriteFailSound,
     SetCallbackSound DEF Continue
<1>4. CASE UNCHANGED vars
  BY <1>4 DEF vars, Sound, TypeInv, JobOK, At, Found, Registered
<1> QED
  BY ONLY [Next]_vars, <1>1, <1>2, <1>3, <1>4 DEF Next

LEMMA Soundness == Spec => []Sound
BY InitSound, NextSound, PTL DEF Spec

-----------------------------------------------------------------------------
(* The steps that matter to a variable: the four stores, registration, the *)
(* write to the device, the callback and the loss of power. All the others *)
(* only move a task that is not inside a write or a callback.              *)
AfterStored == {"write", "copy", "tell"}

Calm(t) ==
  /\ UNCHANGED <<registry, value, device, told, loaded, dirty>>
  /\ \A u \in Task \ {t} : job'[u] = job[u]
  /\ job[t].pc \notin AfterStored /\ job'[t].pc \notin AfterStored

StepKind ==
  \/ \E t \in Task : Calm(t)
  \/ \E t, v : Stores(t, v)
  \/ \E t \in Task : RegisterFill(t) \/ WriteBegin(t) \/ WriteUnit(t)
                     \/ WriteFail(t) \/ SetCallback(t)
  \/ PowerLoss
  \/ UNCHANGED vars

LEMMA StepKinds ==
  ASSUME Sound, [Next]_vars
  PROVE  StepKind
<1>0. job \in [Task -> Jobs]
  BY DEF Sound, TypeInv
<1>1. ASSUME NEW t \in Task, Begin(t)
      PROVE  StepKind
  <2>1. CASE \E m \in Module : RegisterScan(t, m)
    <3>1. Calm(t)
      BY <1>0, <2>1 DEF Calm, RegisterScan, At, AfterStored, idle
    <3> QED
      BY <3>1 DEF StepKind
  <2>2. CASE \E m \in Module : SVAR_ResetModule(t, m)
    <3>1. Calm(t)
      BY <1>0, <2>2 DEF Calm, SVAR_ResetModule, At, AfterStored, idle
    <3> QED
      BY <3>1 DEF StepKind
  <2>3. CASE \E v \in Var : SVAR_Reset(t, v)
    BY <2>3, ResetStores DEF StepKind
  <2>4. CASE \E v \in Var : \E x \in Inputs[v] : SVAR_Set(t, v, x)
    <3>1. Calm(t)
      BY <1>0, <2>4 DEF Calm, SVAR_Set, At, AfterStored, idle
    <3> QED
      BY <3>1 DEF StepKind
  <2>5. CASE \E v \in Var : \E x \in Inputs[v] : SVAR_SetMax(t, v, x) \/ SVAR_SetDefault(t, v, x)
    <3>1. Calm(t)
      BY <1>0, <2>5 DEF Calm, SVAR_SetMax, SVAR_SetDefault, At, AfterStored
    <3> QED
      BY <3>1 DEF StepKind
  <2>6. CASE \E v \in Strings, c \in Unit \ {0}, offset \in 0..2, len \in 1..3 :
               SVAR_SetString(t, v, c, offset, len)
    <3>1. Calm(t)
      BY <1>0, <2>6 DEF Calm, SVAR_SetString, At, AfterStored, idle
    <3> QED
      BY <3>1 DEF StepKind
  <2> QED
    BY <1>1, <2>1, <2>2, <2>3, <2>4, <2>5, <2>6 DEF Begin
<1>2. ASSUME NEW t \in Task, ResetDone(t)
      PROVE  StepKind
  <2>1. Calm(t)
    BY <1>0, <1>2 DEF Calm, ResetDone, At, AfterStored, idle
  <2> QED
    BY <2>1 DEF StepKind
<1>3. ASSUME NEW t \in Task, Continue(t)
      PROVE  StepKind
  BY <1>2, <1>3, SetValueStores, StoreStringStores, ResetNextStores DEF Continue, StepKind
<1> QED
  BY <1>1, <1>3 DEF Next, StepKind

(* What a store leaves behind.                                             *)
LEMMA StoresLeaves ==
  ASSUME Sound, NEW t, NEW v, Stores(t, v)
  PROVE  /\ job[t].pc \notin AfterStored
         /\ \A u \in Task \ {t} : job'[u] = job[u]
         /\ \A w \in Var \ {v} : value'[w] = value[w]
         /\ v \in Saved => job'[t].pc = "write" /\ job'[t].var = v
         /\ v \in Watched => job'[t].pc \in {"write", "tell"} /\ job'[t].var = v
         /\ job'[t].pc \in AfterStored => job'[t].var = v
         /\ job'[t].pc \notin {"copy", "store"}
<1> PICK j \in Jobs : j.var = v /\ job' = [job EXCEPT ![t] = AfterStore(t, j)]
  BY DEF Stores
<1>1. t \in Task /\ AfterStore(t, j) \in Jobs
  BY AfterStoreIs DEF Stores
<1>2. job'[t] = AfterStore(t, j) /\ \A u \in Task \ {t} : job'[u] = job[u]
  BY <1>1, JobChanges
<1>3. /\ v \in Saved => job'[t].pc = "write" /\ job'[t].var = v
      /\ v \notin Saved => Tells(t, v, job'[t])
  BY <1>1, <1>2, AfterStoreIs
<1>4. \A w \in Var \ {v} : value'[w] = value[w]
  BY DEF Stores, Sound, TypeInv
<1> QED
  BY <1>2, <1>3, <1>4 DEF Stores, AfterStored, At, Tells, Resumes

(* What the end of a write leaves behind.                                  *)
LEMMA WriteLeaves ==
  ASSUME Sound, NEW t \in Task, job' = [job EXCEPT ![t] = AfterWrite(t, job[t])]
  PROVE  /\ Tells(t, job[t].var, job'[t])
         /\ \A u \in Task \ {t} : job'[u] = job[u]
         /\ job'[t].pc \notin {"write", "copy", "store"}
<1>1. job[t] \in Jobs
  BY DEF Sound, TypeInv
<1>2. AfterWrite(t, job[t]) \in Jobs /\ Tells(t, job[t].var, AfterWrite(t, job[t]))
  BY <1>1, AfterWriteIs
<1>3. job'[t] = AfterWrite(t, job[t]) /\ \A u \in Task \ {t} : job'[u] = job[u]
  BY <1>2, JobChanges
<1> QED
  BY <1>2, <1>3 DEF Tells, Resumes

(* A unit written is the last one, or the write goes on.                   *)
LEMMA UnitLeaves ==
  ASSUME Sound, NEW t \in Task, WriteUnit(t)
  PROVE  /\ \A u \in Task \ {t} : job'[u] = job[u]
         /\ IF job[t].n = Width[job[t].var]
              THEN Tells(t, job[t].var, job'[t]) /\ job'[t].pc \notin {"write", "copy", "store"}
              ELSE /\ job'[t].pc = "copy" /\ job'[t].var = job[t].var
                   /\ job'[t].n = job[t].n + 1
<1>1. job[t] \in Jobs /\ job \in [Task -> Jobs] /\ job[t].pc = "copy"
  BY DEF Sound, TypeInv, WriteUnit, At
<1>2. CASE job[t].n = Width[job[t].var]
  <2>1. job' = [job EXCEPT ![t] = AfterWrite(t, job[t])]
    BY <1>2 DEF WriteUnit
  <2> QED
    BY <1>2, <2>1, WriteLeaves
<1>3. CASE job[t].n # Width[job[t].var]
  <2>1. job' = [job EXCEPT ![t] = [job[t] EXCEPT !.n = job[t].n + 1]]
    BY <1>3 DEF WriteUnit
  <2> QED
    BY <1>1, <1>3, <2>1 DEF Jobs
<1> QED
  BY <1>2, <1>3

LEMMA CallbackLeaves ==
  ASSUME Sound, NEW t \in Task, SetCallback(t)
  PROVE  /\ \A u \in Task \ {t} : job'[u] = job[u]
         /\ job'[t].pc \notin AfterStored
         /\ job'[t].pc = "store" => /\ job'[t].var = Chain[job[t].var]
                                    /\ job[t].var \in Var
<1>1. /\ job[t] \in Jobs /\ job \in [Task -> Jobs] /\ job[t].pc = "tell"
      /\ job[t].var \in Var /\ job[t].rest \in Seq(Var)
  BY SvarAssumption DEF Sound, TypeInv, SetCallback, At, JobOK, Jobs
<1>2. CASE job' = [job EXCEPT ![t] = AfterTell(t, job[t].rest)]
  <2>1. Resumes(t, AfterTell(t, job[t].rest))
    BY <1>1, AfterTellIs
  <2> QED
    BY <1>1, <1>2, <2>1 DEF Resumes, AfterStored
<1>3. CASE \E x : job' = [job EXCEPT ![t] =
             [job[t] EXCEPT !.pc = "store", !.var = Chain[job[t].var], !.new = x]]
  BY <1>1, <1>3 DEF AfterStored, Jobs
<1> QED
  BY <1>2, <1>3 DEF SetCallback

-----------------------------------------------------------------------------
(* The application knows the value: it was told it, or it was loaded.      *)
Known(v) == value[v] = IF told[v] = <<>> THEN loaded[v] ELSE told[v]

LEMMA NextUpToDate == Sound /\ CallbackUpToDate /\ [Next]_vars => CallbackUpToDate'
<1> SUFFICES ASSUME Sound, CallbackUpToDate, [Next]_vars,
                    NEW v \in Watched, Found(v)', ~Busy(v, AfterStored)'
             PROVE  Known(v)'
  BY DEF CallbackUpToDate, AfterStored, Known
<1>0. /\ v \in Var
      /\ Found(v) /\ ~Busy(v, AfterStored) => Known(v)
      /\ job \in [Task -> Jobs] /\ told \in [Watched -> Seq(Unit)]
      /\ \A t \in Task : job'[t].var = v => job'[t].pc \notin AfterStored
  BY SvarAssumption DEF CallbackUpToDate, Known, AfterStored, Busy, Sound, TypeInv
<1>1. ASSUME NEW t \in Task, Calm(t)
      PROVE  Known(v)'
  BY <1>0, <1>1 DEF Calm, Found, Registered, Busy, Known
<1>2. ASSUME NEW t, NEW w, Stores(t, w)
      PROVE  Known(v)'
  <2>1. v # w
    <3>1. w \in Watched => job'[t].pc \in {"write", "tell"} /\ job'[t].var = w
      BY <1>2, StoresLeaves
    <3>2. t \in Task
      BY <1>2 DEF Stores
    <3> QED
      BY <1>0, <3>1, <3>2 DEF AfterStored
  <2>2. ~Busy(v, AfterStored)
    BY <1>0, <1>2, StoresLeaves DEF Busy
  <2> QED
    BY <1>0, <1>2, <2>1, <2>2, StoresLeaves DEF Stores, Found, Registered, Known
<1>3. ASSUME NEW t \in Task, RegisterFill(t)
      PROVE  Known(v)'
  <2> PICK m \in Module : Filled(m)
    BY <1>3, FillFacts
  <2>1. CASE ~Contains(Table[m], v)
    <3>1. Found(v)
      BY <2>1 DEF Found, Filled
    <3>2. ~Busy(v, AfterStored)
      <4>1. job' = [job EXCEPT ![t] = idle] /\ job[t].pc = "fill"
        BY <1>3 DEF RegisterFill, At
      <4> QED
        BY <1>0, <4>1 DEF Busy, AfterStored
    <3> QED
      BY <1>0, <2>1, <3>1, <3>2 DEF Known, Filled
  <2>2. CASE Contains(Table[m], v)
    BY <1>0, <2>2 DEF Known, Filled
  <2> QED
    BY <2>1, <2>2
<1>4. ASSUME NEW t \in Task, WriteBegin(t)
      PROVE  Known(v)'
  <2>1. /\ job' = [job EXCEPT ![t] = [job[t] EXCEPT !.pc = "copy", !.n = 1]]
        /\ job[t] \in Jobs
    BY <1>0, <1>4 DEF WriteBegin
  <2>2. job'[t].var = job[t].var /\ job'[t].pc = "copy"
    BY <1>0, <2>1 DEF Jobs
  <2>3. ~Busy(v, AfterStored)
    BY <1>0, <2>1, <2>2 DEF Busy, AfterStored
  <2> QED
    BY <1>0, <1>4, <2>3 DEF WriteBegin, Found, Registered, Known
<1>5. ASSUME NEW t \in Task, WriteUnit(t)
      PROVE  Known(v)'
  <2>1. job[t].var # v
    BY <1>0, <1>5, UnitLeaves DEF Tells, AfterStored
  <2>2. ~Busy(v, AfterStored)
    BY <1>0, <1>5, <2>1, UnitLeaves DEF Busy
  <2> QED
    BY <1>0, <1>5, <2>2 DEF WriteUnit, Found, Registered, Known
<1>6. ASSUME NEW t \in Task, WriteFail(t)
      PROVE  Known(v)'
  <2>1. job' = [job EXCEPT ![t] = AfterWrite(t, job[t])]
    BY <1>6 DEF WriteFail
  <2>2. job[t].var # v
    BY <1>0, <2>1, WriteLeaves DEF Tells, AfterStored
  <2>3. ~Busy(v, AfterStored)
    BY <1>0, <2>1, <2>2, WriteLeaves DEF Busy
  <2> QED
    BY <1>0, <1>6, <2>3 DEF WriteFail, Found, Registered, Known
<1>7. ASSUME NEW t \in Task, SetCallback(t)
      PROVE  Known(v)'
  <2>1. told' = [told EXCEPT ![job[t].var] = value[job[t].var]] /\ value' = value
    BY <1>7 DEF SetCallback
  <2>2. CASE job[t].var = v
    <3>1. Len(value[v]) = Width[v] /\ Width[v] \in Nat \ {0}
      BY <1>0, ValueIsSeq, SvarAssumption DEF Sound, TypeInv
    <3>2. value[v] # <<>>
      BY <3>1, EmptySeq
    <3> QED
      BY <1>0, <2>1, <2>2, <3>2 DEF Known
  <2>3. CASE job[t].var # v
    <3>1. ~Busy(v, AfterStored)
      BY <1>0, <1>7, <2>3, CallbackLeaves DEF Busy
    <3> QED
      BY <1>0, <1>7, <2>1, <2>3, <3>1 DEF SetCallback, Found, Registered, Known
  <2> QED
    BY <2>2, <2>3
<1>8. CASE PowerLoss
  BY <1>8 DEF PowerLoss, Found, Registered
<1>9. CASE UNCHANGED vars
  BY <1>0, <1>9 DEF vars, Found, Registered, Busy, Known
<1> QED
  BY <1>1, <1>2, <1>3, <1>4, <1>5, <1>6, <1>7, <1>8, <1>9, StepKinds DEF StepKind

(* However the calls of setCb are ordered, once none is on its way the     *)
(* last one was given the value the variable has; without one since the    *)
(* load, which calls none, the variable is as it was loaded.               *)
THEOREM CallbacksCatchUp == Spec => []CallbackUpToDate
<1>1. Init => CallbackUpToDate
  BY DEF Init, CallbackUpToDate
<1> QED
  BY <1>1, NextUpToDate, Soundness, PTL DEF Spec

-----------------------------------------------------------------------------
(* A persistent string is set to what ends within its buffer: by calls     *)
(* that pass such strings and by SVAR_SetString, not by the callback of    *)
(* another variable.                                                       *)
SavedStrings == Strings \cap Saved
IsEnded(v, x) == x[Width[v]] = 0

PersistentStringsEnd ==
  \A v \in SavedStrings :
    /\ v \in CanWrites \cup Writable => \A x \in Inputs[v] : IsEnded(v, x)
    /\ \A u \in Var : Chain[u] # v

(* The last unit of a persistent string is never anything but its end, so  *)
(* that reading it back from the device changes nothing.                   *)
Ends ==
  /\ \A v \in SavedStrings : IsEnded(v, value[v]) /\ IsEnded(v, def[v])
  /\ \A t \in Task :
       At(t, "store") /\ job[t].var \in SavedStrings => IsEnded(job[t].var, job[t].new)

(* While nobody is about to write a variable from its start, the units     *)
(* already written are those in memory.                                    *)
Agree(v) ==
  dirty[v] = 0 /\ ~Busy(v, {"write"}) =>
    /\ ~Busy(v, {"copy"}) => device[v] = value[v]
    /\ \A t \in Task : At(t, "copy") /\ job[t].var = v =>
         \A i \in 1..(job[t].n - 1) : device[v][i] = value[v][i]

Agreed == Ends /\ \A v \in Saved : Agree(v)

LEMMA InitAgreed == Init => Agreed
<1> SUFFICES ASSUME Init PROVE Agreed
  OBVIOUS
<1>1. \A v \in Var : IsEnded(v, Zero(v))
  BY SvarAssumption DEF IsEnded, Zero
<1>2. Ends
  BY <1>1 DEF Init, Ends, SavedStrings, Strings, At, idle
<1>3. \A v \in Saved : Agree(v)
  BY SvarAssumption DEF Init, Agree, Saved
<1> QED
  BY <1>2, <1>3 DEF Agreed

LEMMA EndsNoStore ==
  ASSUME Ends, NEW t \in Task, \A u \in Task \ {t} : job'[u] = job[u],
         job'[t].pc # "store", UNCHANGED <<value, def>>
  PROVE  Ends'
BY DEF Ends, At, IsEnded

LEMMA StoresEnds ==
  ASSUME Sound, Ends, NEW t, NEW v, Stores(t, v),
         v \in SavedStrings => IsEnded(v, value'[v])
  PROVE  Ends'
<1>1. \A w \in SavedStrings : IsEnded(w, value'[w])
  <2> SUFFICES ASSUME NEW w \in SavedStrings PROVE IsEnded(w, value'[w])
    OBVIOUS
  <2>1. w \in Var /\ IsEnded(w, value[w])
    BY DEF SavedStrings, Strings, Ends
  <2>2. CASE w = v
    BY <2>2
  <2>3. CASE w # v
    BY <2>1, <2>3, StoresLeaves DEF IsEnded
  <2> QED
    BY <2>2, <2>3
<1>2. \A w \in SavedStrings : IsEnded(w, def'[w])
  BY DEF Ends, Stores
<1>3. \A u \in Task : job'[u].pc = "store" => job'[u] = job[u]
  BY StoresLeaves DEF Stores
<1> QED
  BY <1>1, <1>2, <1>3 DEF Ends, At, IsEnded

LEMMA NextEnds ==
  ASSUME PersistentStringsEnd, Sound, Ends, [Next]_vars
  PROVE  Ends'
<1>0. job \in [Task -> Jobs] /\ value \in [Var -> Seq(Unit)] /\ def \in [Var -> Seq(Unit)]
  BY DEF Sound, TypeInv
<1>1. ASSUME NEW t \in Task, NEW m \in Module, RegisterScan(t, m) \/ SVAR_ResetModule(t, m)
      PROVE  Ends'
  <2>1. /\ \A u \in Task \ {t} : job'[u] = job[u]
        /\ job'[t].pc # "store" /\ UNCHANGED <<value, def>>
    BY <1>0, <1>1 DEF RegisterScan, SVAR_ResetModule, idle
  <2> QED
    BY <2>1, EndsNoStore
<1>2. ASSUME NEW t \in Task, NEW v \in Var, SVAR_Reset(t, v)
      PROVE  Ends'
  <2>1. Stores(t, v) /\ value'[v] = Ended(v, def[v])
    BY <1>2, ResetStores
  <2>2. v \in SavedStrings => IsEnded(v, value'[v])
    BY <2>1, EndedIsValue DEF IsEnded, SavedStrings, Strings, Sound, TypeInv
  <2> QED
    BY <2>1, <2>2, StoresEnds
<1>3. ASSUME NEW t \in Task, NEW v \in Var, NEW x \in Inputs[v], SVAR_Set(t, v, x)
      PROVE  Ends'
  <2> DEFINE k == [idle EXCEPT !.pc = "store", !.var = v, !.new = _copyToUnion(v, x)]
  <2>1. k.var = v /\ k.new = _copyToUnion(v, x)
    BY DEF idle
  <2>2. job' = [job EXCEPT ![t] = k] /\ UNCHANGED <<value, def>>
    BY <1>3 DEF SVAR_Set
  <2> HIDE DEF k
  <2>3. v \in SavedStrings => IsEnded(v, _copyToUnion(v, x))
    BY <1>3 DEF PersistentStringsEnd, SVAR_Set, SavedStrings, _copyToUnion, Strings
  <2> QED
    BY <1>0, <2>1, <2>2, <2>3 DEF Ends, At, IsEnded
<1>4. ASSUME NEW t \in Task, NEW v \in Var, NEW x \in Inputs[v],
             SVAR_SetMax(t, v, x) \/ SVAR_SetDefault(t, v, x)
      PROVE  Ends'
  <2>1. /\ v \in Writable /\ UNCHANGED <<value, job>>
        /\ def' = def \/ def' = [def EXCEPT ![v] = x]
    BY <1>4 DEF SVAR_SetMax, SVAR_SetDefault
  <2>2. v \in SavedStrings => IsEnded(v, x)
    BY <2>1 DEF PersistentStringsEnd
  <2>3. \A w \in SavedStrings : IsEnded(w, def'[w])
    BY <1>0, <2>1, <2>2 DEF Ends, SavedStrings, Strings, IsEnded
  <2> QED
    BY <2>1, <2>3 DEF Ends, At, IsEnded
<1>5. ASSUME NEW t \in Task, NEW v \in Strings, NEW c, NEW offset, NEW len,
             SVAR_SetString(t, v, c, offset, len)
      PROVE  Ends'
  <2>1. /\ \A u \in Task \ {t} : job'[u] = job[u]
        /\ job'[t].pc # "store" /\ UNCHANGED <<value, def>>
    BY <1>0, <1>5 DEF SVAR_SetString, idle
  <2> QED
    BY <2>1, EndsNoStore
<1>6. ASSUME NEW t \in Task, RegisterFill(t)
      PROVE  Ends'
  <2> PICK m \in Module : Filled(m)
    BY <1>6, FillFacts
  <2>1. \A w \in SavedStrings : IsEnded(w, value'[w])
    <3> SUFFICES ASSUME NEW w \in SavedStrings PROVE IsEnded(w, value'[w])
      OBVIOUS
    <3>1. /\ w \in Var /\ w \in Persistent /\ IsEnded(w, value[w])
          /\ Kind[w] = "string" /\ Width[w] \in Nat
      BY SvarAssumption DEF SavedStrings, Strings, Saved, Ends
    <3>2. \A n \in 0..Width[w] : IsEnded(w, _nvmRead(w, n))
      BY <3>1, ReadIsValue DEF IsEnded
    <3> QED
      BY <3>1, <3>2 DEF Filled, IsEnded
  <2>2. /\ \A u \in Task \ {t} : job'[u] = job[u]
        /\ job'[t].pc # "store" /\ def' = def
    BY <1>0, <1>6 DEF RegisterFill, idle
  <2> QED
    BY <2>1, <2>2 DEF Ends, At, IsEnded
<1>7. ASSUME NEW t \in Task, _setValue(t)
      PROVE  Ends'
  <2>1. Stores(t, job[t].var) /\ value'[job[t].var] = job[t].new /\ At(t, "store")
    BY <1>7, SetValueStores DEF _setValue
  <2>2. job[t].var \in SavedStrings => IsEnded(job[t].var, value'[job[t].var])
    BY <2>1 DEF Ends, IsEnded
  <2> QED
    BY <2>1, <2>2, StoresEnds
<1>8. ASSUME NEW t \in Task, StoreString(t)
      PROVE  Ends'
  <2> DEFINE v == job[t].var
             at == job[t].n
             new == job[t].new
  <2>1. Stores(t, v) /\ At(t, "storeString") /\ JobOK(t)
    BY <1>8, StoreStringStores DEF StoreString, Sound
  <2>2. /\ v \in Var /\ Width[v] \in Nat \ {0} /\ at \in Nat /\ Len(new) \in Nat
        /\ at + Len(new) < Width[v]
    <3>1. job[t] \in Jobs
      BY <1>0
    <3>2. at \in Nat /\ new \in Seq(Unit)
      BY <3>1 DEF Jobs
    <3>3. v \in Var /\ at + Len(new) < Width[v]
      BY <2>1 DEF Stores, JobOK
    <3> QED
      BY <3>2, <3>3, LenProperties, SvarAssumption
  <2>3. value'[v] = [i \in 1..Width[v] |->
                   IF at < i /\ i =< at + Len(new) THEN new[i - at]
                   ELSE IF i = at + Len(new) + 1 THEN 0 ELSE value[v][i]]
    BY <1>0, <1>8, <2>2 DEF StoreString
  <2>4. value'[v][Width[v]] = 0 \/ value'[v][Width[v]] = value[v][Width[v]]
    BY <2>2, <2>3
  <2>5. v \in SavedStrings => IsEnded(v, value'[v])
    BY <2>4 DEF Ends, IsEnded
  <2> QED
    BY <2>1, <2>5, StoresEnds
<1>9. ASSUME NEW t \in Task, ResetNext(t)
      PROVE  Ends'
  <2> DEFINE v == Head(job[t].rest)
  <2>1. Stores(t, v) /\ value'[v] = Ended(v, def[v])
    BY <1>9, ResetNextStores
  <2>2. v \in SavedStrings => IsEnded(v, value'[v])
    BY <2>1, EndedIsValue DEF IsEnded, SavedStrings, Strings, Sound, TypeInv
  <2> QED
    BY <2>1, <2>2, StoresEnds
<1>10. ASSUME NEW t \in Task, ResetDone(t)
       PROVE  Ends'
  <2>1. /\ \A u \in Task \ {t} : job'[u] = job[u]
        /\ job'[t].pc # "store" /\ UNCHANGED <<value, def>>
    BY <1>0, <1>10 DEF ResetDone, idle
  <2> QED
    BY <2>1, EndsNoStore
<1>11. ASSUME NEW t \in Task, WriteBegin(t)
       PROVE  Ends'
  <2>1. job' = [job EXCEPT ![t] = [job[t] EXCEPT !.pc = "copy", !.n = 1]]
    BY <1>11 DEF WriteBegin
  <2>2. /\ \A u \in Task \ {t} : job'[u] = job[u]
        /\ job'[t].pc # "store" /\ UNCHANGED <<value, def>>
    BY <1>0, <1>11, <2>1 DEF WriteBegin, Jobs
  <2> QED
    BY <2>2, EndsNoStore
<1>12. ASSUME NEW t \in Task, WriteUnit(t)
       PROVE  Ends'
  <2>1. UNCHANGED <<value, def>>
    BY <1>12 DEF WriteUnit
  <2> QED
    BY <1>12, <2>1, UnitLeaves, EndsNoStore
<1>13. ASSUME NEW t \in Task, WriteFail(t)
       PROVE  Ends'
  <2>1. UNCHANGED <<value, def>> /\ job' = [job EXCEPT ![t] = AfterWrite(t, job[t])]
    BY <1>13 DEF WriteFail
  <2> QED
    BY <2>1, WriteLeaves, EndsNoStore
<1>14. ASSUME NEW t \in Task, SetCallback(t)
       PROVE  Ends'
  <2>1. job'[t].pc = "store" => job'[t].var \notin SavedStrings
    BY <1>14, CallbackLeaves DEF PersistentStringsEnd
  <2>2. UNCHANGED <<value, def>> /\ \A u \in Task \ {t} : job'[u] = job[u]
    BY <1>14, CallbackLeaves DEF SetCallback
  <2> QED
    BY <2>1, <2>2 DEF Ends, At, IsEnded
<1>15. CASE PowerLoss
  <2>1. \A v \in Var : IsEnded(v, Zero(v))
    BY SvarAssumption DEF IsEnded, Zero
  <2>2. /\ \A v \in Var : def'[v] = Zero(v) /\ (value'[v] = value[v] \/ value'[v] = Zero(v))
        /\ \A u \in Task : job'[u].pc = "idle"
    BY <1>15 DEF PowerLoss, idle
  <2> QED
    BY <2>1, <2>2 DEF Ends, IsEnded, At, SavedStrings, Strings
<1>16. CASE UNCHANGED vars
  BY <1>16 DEF vars, Ends, At, IsEnded
<1>17. ASSUME NEW t \in Task, Begin(t)
       PROVE  Ends'
  BY <1>1, <1>2, <1>3, <1>4, <1>5, <1>17 DEF Begin
<1>18. ASSUME NEW t \in Task, Continue(t)
       PROVE  Ends'
  BY <1>6, <1>7, <1>8, <1>9, <1>10, <1>11, <1>12, <1>13, <1>14, <1>18 DEF Continue
<1> QED
  BY ONLY [Next]_vars, <1>15, <1>16, <1>17, <1>18 DEF Next

(* Nothing of v moves where v is neither stored, loaded nor written.       *)
LEMMA AgreeStays ==
  ASSUME NEW v \in Var, Agree(v), UNCHANGED <<value[v], device[v], dirty[v]>>,
         \A u \in Task :
           \/ job'[u] = job[u]
           \/ /\ job[u].var # v \/ job[u].pc \notin {"write", "copy"}
              /\ job'[u].var # v \/ job'[u].pc \notin {"write", "copy"}
  PROVE  Agree(v)'
<1>1. /\ Busy(v, {"write"}) <=> Busy(v, {"write"})'
      /\ Busy(v, {"copy"}) <=> Busy(v, {"copy"})'
  BY DEF Busy
<1>2. \A t \in Task : (At(t, "copy") /\ job[t].var = v)' =>
        job'[t] = job[t] /\ At(t, "copy") /\ job[t].var = v
  BY DEF At
<1> QED
  BY <1>1, <1>2 DEF Agree

(* A device that holds what memory held gives it back.                     *)
LEMMA WholeRead ==
  ASSUME Sound, Ends, NEW v \in Saved, v \in Var, device[v] = value[v]
  PROVE  _nvmRead(v, Width[v]) = value[v]
<1> DEFINE x == [i \in 1..Width[v] |-> IF i =< Width[v] THEN device[v][i] ELSE def[v][i]]
<1>1. device[v] \in [1..Width[v] -> Unit] /\ Width[v] \in Nat \ {0}
  BY SvarAssumption DEF Sound, TypeInv, Value
<1>2. x = device[v]
  <2>1. \A i \in 1..Width[v] : i =< Width[v]
    BY <1>1
  <2>2. x = [i \in 1..Width[v] |-> device[v][i]]
    BY <2>1
  <2> QED
    BY <1>1, <2>2
<1>3. _nvmRead(v, Width[v]) = Ended(v, x)
  BY DEF _nvmRead
<1> HIDE DEF x
<1>4. CASE Kind[v] = "string"
  <2>1. device[v][Width[v]] = 0
    BY <1>4 DEF Ends, SavedStrings, Strings, IsEnded
  <2> QED
    BY <1>1, <1>2, <1>3, <2>1 DEF Ended
<1>5. CASE Kind[v] # "string"
  BY <1>2, <1>3, <1>5 DEF Ended
<1> QED
  BY <1>4, <1>5

LEMMA NextAgree ==
  ASSUME Sound, Agreed, [Next]_vars, NEW v \in Saved
  PROVE  Agree(v)'
<1>0. /\ v \in Var /\ Agree(v) /\ v \in Persistent
      /\ job \in [Task -> Jobs] /\ value \in [Var -> Seq(Unit)]
      /\ device \in [Var -> Seq(Unit)] /\ dirty \in [Var -> {0, 1}]
      /\ value[v] \in Value(v) /\ device[v] \in Value(v) /\ Width[v] \in Nat \ {0}
  BY SvarAssumption DEF Saved, Agreed, Sound, TypeInv
<1>1. ASSUME NEW t \in Task, Calm(t)
      PROVE  Agree(v)'
  BY <1>0, <1>1, AgreeStays DEF Calm, AfterStored
<1>2. ASSUME NEW t, NEW w, Stores(t, w)
      PROVE  Agree(v)'
  <2>1. CASE v = w
    <3>1. Busy(v, {"write"})'
      <4>1. w \in Saved => job'[t].pc = "write" /\ job'[t].var = w
        BY <1>2, StoresLeaves
      <4>2. t \in Task
        BY <1>2 DEF Stores
      <4> QED
        BY <2>1, <4>1, <4>2 DEF Busy
    <3> QED
      BY <3>1 DEF Agree
  <2>2. CASE v # w
    <3>1. /\ t \in Task /\ value'[v] = value[v] /\ device' = device /\ dirty' = dirty
          /\ \A u \in Task \ {t} : job'[u] = job[u]
          /\ job[t].pc \notin AfterStored /\ (job'[t].pc \in AfterStored => job'[t].var = w)
      BY <1>0, <1>2, <2>2, StoresLeaves DEF Stores
    <3> QED
      BY <1>0, <2>2, <3>1, AgreeStays DEF AfterStored
  <2> QED
    BY <2>1, <2>2
<1>3. ASSUME NEW t \in Task, RegisterFill(t)
      PROVE  Agree(v)'
  <2> PICK m \in Module : Filled(m)
    BY <1>3, FillFacts
  <2>1. /\ \A u \in Task \ {t} : job'[u] = job[u]
        /\ job[t].pc = "fill" /\ job'[t].pc = "idle" /\ device' = device
    BY <1>0, <1>3 DEF RegisterFill, idle, At
  <2>2. CASE ~Contains(Table[m], v)
    <3>1. value'[v] = value[v] /\ dirty'[v] = dirty[v]
      BY <1>0, <2>2 DEF Filled
    <3> QED
      BY <1>0, <2>1, <3>1, AgreeStays
  <2>3. CASE Contains(Table[m], v) /\ dirty'[v] = 0
    <3>1. dirty[v] = 0 /\ value'[v] = _nvmRead(v, Width[v])
      <4>1. dirty[v] = 0 \/ dirty'[v] # dirty[v]
        BY <2>3
      <4>2. PICK n \in 0..Width[v] :
              value'[v] = _nvmRead(v, n) /\ (n < Width[v] => dirty'[v] = 1)
        BY <1>0, <2>3 DEF Filled
      <4>3. n = Width[v]
        BY <1>0, <2>3, <4>2
      <4> QED
        BY <1>0, <2>3, <4>1, <4>2, <4>3 DEF Filled
    <3>2. device[v] = value[v]
      BY <1>0, <2>3, <3>1 DEF Agree, Busy, Filled
    <3>3. value'[v] = value[v]
      BY <1>0, <3>1, <3>2, WholeRead DEF Agreed
    <3> QED
      BY <1>0, <2>1, <3>1, <3>3, <2>3, AgreeStays
  <2>4. CASE dirty'[v] # 0
    BY <2>4 DEF Agree
  <2> QED
    BY <2>2, <2>3, <2>4
<1>4. ASSUME NEW t \in Task, WriteBegin(t)
      PROVE  Agree(v)'
  <2>1. /\ job' = [job EXCEPT ![t] = [job[t] EXCEPT !.pc = "copy", !.n = 1]]
        /\ dirty' = [dirty EXCEPT ![job[t].var] = 0]
        /\ UNCHANGED <<value, device>> /\ nvm = Free
    BY <1>4 DEF WriteBegin
  <2>2. /\ job'[t].pc = "copy" /\ job'[t].var = job[t].var /\ job'[t].n = 1
        /\ \A u \in Task \ {t} : job'[u] = job[u]
    BY <1>0, <2>1 DEF Jobs
  <2>3. CASE job[t].var = v
    <3>1. \A u \in Task : ~At(u, "copy")
      BY <2>1, SvarAssumption DEF Sound, JobOK
    <3>2. Busy(v, {"copy"})'
      BY <2>2, <2>3 DEF Busy
    <3>3. \A u \in Task : At(u, "copy")' => job'[u].n = 1
      BY <2>2, <3>1 DEF At
    <3> QED
      BY <3>2, <3>3 DEF Agree
  <2>4. CASE job[t].var # v
    <3>1. dirty'[v] = dirty[v]
      BY <1>0, <2>1, <2>4
    <3> QED
      BY <1>0, <2>1, <2>2, <2>4, <3>1, AgreeStays
  <2> QED
    BY <2>3, <2>4
<1>5. ASSUME NEW t \in Task, WriteUnit(t)
      PROVE  Agree(v)'
  <2> DEFINE w == job[t].var
             n == job[t].n
  <2>1. /\ device' = [device EXCEPT ![w][n] = value[w][n]]
        /\ UNCHANGED <<value, dirty>> /\ At(t, "copy")
    BY <1>5 DEF WriteUnit
  <2>2. /\ nvm = t /\ w \in Var /\ n \in 1..Width[w]
        /\ \A u \in Task \ {t} : ~At(u, "copy")
    BY <2>1, SvarAssumption DEF Sound, JobOK, Saved
  <2>3. CASE w # v
    <3>1. device'[v] = device[v]
      BY <1>0, <2>1, <2>2, <2>3
    <3>2. job'[t].var # v \/ job'[t].pc \notin {"write", "copy"}
      BY <1>5, <2>3, UnitLeaves
    <3> QED
      BY <1>0, <1>5, <2>1, <2>3, <3>1, <3>2, UnitLeaves, AgreeStays
  <2>4. CASE w = v
    <3> SUFFICES ASSUME dirty[v] = 0, ~Busy(v, {"write"})'
                 PROVE  /\ ~Busy(v, {"copy"})' => device'[v] = value[v]
                        /\ \A u \in Task : At(u, "copy")' /\ job'[u].var = v =>
                             \A i \in 1..(job'[u].n - 1) : device'[v][i] = value[v][i]
      BY <2>1 DEF Agree
    <3>1. ~Busy(v, {"write"})
      BY <1>5, <2>1, UnitLeaves DEF Busy, At
    <3>2. \A i \in 1..(n - 1) : device[v][i] = value[v][i]
      BY <1>0, <2>1, <2>4, <3>1 DEF Agree
    <3>3. /\ DOMAIN device'[v] = 1..Width[v] /\ device'[v][n] = value[v][n]
          /\ \A i \in 1..Width[v] : i # n => device'[v][i] = device[v][i]
          /\ device'[v] = [device[v] EXCEPT ![n] = value[v][n]]
      BY <1>0, <2>1, <2>2, <2>4 DEF Value
    <3>4. \A i \in 1..n : device'[v][i] = value[v][i]
      <4> SUFFICES ASSUME NEW i \in 1..n PROVE device'[v][i] = value[v][i]
        OBVIOUS
      <4>1. n \in 1..Width[v] /\ Width[v] \in Nat
        BY <1>0, <2>2, <2>4
      <4>2. i = n \/ (i \in 1..(n - 1) /\ i \in 1..Width[v] /\ i # n)
        BY <4>1
      <4> QED
        BY <3>2, <3>3, <4>2
    <3>5. CASE n = Width[v]
      <4>1. device'[v] = value[v]
        BY <1>0, <3>3, <3>4, <3>5 DEF Value
      <4>2. \A u \in Task : ~At(u, "copy")'
        BY <1>5, <2>2, <2>4, <3>5, UnitLeaves DEF At
      <4> QED
        BY <4>1, <4>2
    <3>6. CASE n # Width[v]
      <4>1. job'[t].pc = "copy" /\ job'[t].var = v /\ job'[t].n = n + 1
        BY <1>5, <2>4, <3>6, UnitLeaves
      <4>2. \A u \in Task \ {t} : ~At(u, "copy")'
        BY <1>5, <2>2, UnitLeaves DEF At
      <4>3. Busy(v, {"copy"})'
        BY <4>1 DEF Busy
      <4>4. \A i \in 1..(job'[t].n - 1) : device'[v][i] = value[v][i]
        BY <2>2, <3>4, <4>1
      <4> QED
        BY <4>2, <4>3, <4>4
    <3> QED
      BY <3>5, <3>6
  <2> QED
    BY <2>3, <2>4
<1>6. ASSUME NEW t \in Task, WriteFail(t)
      PROVE  Agree(v)'
  <2>1. /\ job' = [job EXCEPT ![t] = AfterWrite(t, job[t])]
        /\ dirty' = [dirty EXCEPT ![job[t].var] = 1]
        /\ UNCHANGED <<value, device>>
    BY <1>6 DEF WriteFail
  <2>2. CASE job[t].var = v
    BY <1>0, <2>1, <2>2 DEF Agree
  <2>3. CASE job[t].var # v
    <3>1. dirty'[v] = dirty[v]
      BY <1>0, <2>1, <2>3
    <3> QED
      BY <1>0, <2>1, <2>3, <3>1, WriteLeaves, AgreeStays
  <2> QED
    BY <2>2, <2>3
<1>7. ASSUME NEW t \in Task, SetCallback(t)
      PROVE  Agree(v)'
  <2>1. UNCHANGED <<value, device, dirty>> /\ job[t].pc = "tell"
    BY <1>7 DEF SetCallback, At
  <2> QED
    BY <1>0, <1>7, <2>1, CallbackLeaves, AgreeStays DEF AfterStored
<1>8. CASE PowerLoss
  <2>1. /\ \A u \in Task : job'[u].pc = "idle"
        /\ device' = device
        /\ dirty'[v] = 0 => /\ dirty[v] = 0 /\ value'[v] = value[v]
                            /\ ~Busy(v, {"write"}) /\ ~Busy(v, {"copy"})
    BY <1>0, <1>8 DEF PowerLoss, idle, Busy, At
  <2>2. dirty'[v] = 0 => device'[v] = value'[v]
    <3>1. dirty[v] = 0 /\ ~Busy(v, {"write"}) /\ ~Busy(v, {"copy"}) => device[v] = value[v]
      BY <1>0 DEF Agree
    <3> QED
      BY <2>1, <3>1
  <2> QED
    BY <2>1, <2>2 DEF Agree, At
<1>9. CASE UNCHANGED vars
  BY <1>0, <1>9, AgreeStays DEF vars
<1> QED
  BY <1>1, <1>2, <1>3, <1>4, <1>5, <1>6, <1>7, <1>8, <1>9, StepKinds DEF StepKind

LEMMA Agreement ==
  ASSUME PersistentStringsEnd
  PROVE  Spec => []Agreed
<1>1. Sound /\ Agreed /\ [Next]_vars => Agreed'
  BY NextEnds, NextAgree DEF Agreed
<1> QED
  BY <1>1, InitAgreed, Soundness, PTL DEF Spec

(* Once no write of a variable is under way and the last one did not fail, *)
(* the device holds what memory holds, whichever of two tasks wrote last;  *)
(* so too after a load that could read it.                                 *)
THEOREM DeviceKeepsUp ==
  ASSUME PersistentStringsEnd
  PROVE  Spec => []DeviceAgrees
<1>1. Agreed => DeviceAgrees
  BY DEF Agreed, Agree, DeviceAgrees, Busy
<1> QED
  BY <1>1, Agreement, PTL

(* A value whose write had ended when power was lost is the value its      *)
(* module starts with again, if the load can read it.                      *)
THEOREM WrittenSurvives ==
  ASSUME PersistentStringsEnd
  PROVE  Spec => SurvivesPowerLoss
<1> DEFINE Survives ==
      \A v \in Saved : ~Found(v) /\ Found(v)' /\ dirty[v] = 0 /\ dirty'[v] = 0 => value'[v] = value[v]
<1>1. Sound /\ Agreed /\ [Next]_vars => [Survives]_vars
  <2> SUFFICES ASSUME Sound, Agreed, Next, NEW v \in Saved, ~Found(v), Found(v)',
                      dirty[v] = 0, dirty'[v] = 0
               PROVE  value'[v] = value[v]
    OBVIOUS
  <2>1. PICK t \in Task : RegisterFill(t)
    <3>1. registry' # registry
      BY DEF Found, Registered
    <3>2. ~PowerLoss
      <4>1. Found(v)' => Registered' # {}
        BY DEF Found
      <4>2. PowerLoss => Registered' = {}
        BY DEF PowerLoss, Registered
      <4> QED
        BY <4>1, <4>2
    <3> QED
      BY <3>1, <3>2, StepKinds DEF StepKind, Calm, Stores, WriteBegin, WriteUnit, WriteFail,
         SetCallback, vars
  <2>2. PICK m \in Module : Filled(m)
    BY <2>1, FillFacts
  <2>3. v \in Var /\ v \in Persistent /\ Contains(Table[m], v)
    BY <2>2, SvarAssumption DEF Saved, Found, Filled
  <2>4. device[v] = value[v]
    BY <2>2, <2>3 DEF Agreed, Agree, Busy, Filled
  <2>5. PICK n \in 0..Width[v] :
          value'[v] = _nvmRead(v, n) /\ (n < Width[v] => dirty'[v] = 1)
    BY <2>2, <2>3 DEF Filled
  <2>6. n = Width[v]
    BY <2>3, <2>5, SvarAssumption
  <2> QED
    BY <2>3, <2>4, <2>5, <2>6, WholeRead DEF Agreed
<1> QED
  BY <1>1, Agreement, Soundness, PTL DEF Spec, SurvivesPowerLoss
=============================================================================
