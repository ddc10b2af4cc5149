------------------------ MODULE WorkspacePassProofs ------------------------
(***************************************************************************)
(* TypeOK, GivenUpIsStuck, NothingLost and RestIsCurrent for every set of  *)
(* files, every size of the pool and every number of passes.               *)
(*                                                                         *)
(* A worker is finished because it was retired, because the queue is       *)
(* empty, because the pass was told to stop or because it was refused a    *)
(* thread (WorkerOK); the last worker of the pool is retired only with no  *)
(* replacement left (PassOK): so a pass all of whose workers have stopped  *)
(* has an empty queue, no replacement, or was refused a thread.            *)
(* What a closed file lacks is owed to it at any time by a recomputation   *)
(* that has yet to read it or has read its text on disk, or by a pass that *)
(* has yet to list it, still queues it or holds a result of that text      *)
(* (OwedInv): with everything over, nothing is owed and nothing lacks.     *)
(***************************************************************************)
EXTENDS WorkspacePass, FiniteSetTheorems, TLAPS

Before == {"none", "config", "swap", "uncancel", "list"}
Driven == {"poll", "harvest", "watch", "retire", "confirm"}
Result == [file : File, text : Nat]
PassType == [pc : Before \cup Driven \cup {"ended"}, queue : SUBSET File,
             results : SUBSET Result, skipped : SUBSET File, slots : Nat,
             spent : 0..MaxReplacements, at : Slot \cup {0}, seen : File \cup {Idle},
             stopped : BOOLEAN]
WorkerPc == {"none", "loop", "fetch", "analyse", "push", "finished"}
WorkerType == [pc : WorkerPc, file : File \cup {Idle}, on : File \cup {Idle}, text : Nat,
               retired : BOOLEAN, counted : BOOLEAN, refused : BOOLEAN]
JobType == [id : Nat, file : File, pc : {"start", "read", "check", "store"}, text : Nat]

EnvOK ==
    /\ enabled \in BOOLEAN /\ started \in BOOLEAN /\ cancel \in BOOLEAN
    /\ reload \in {"idle", "start", "stop", "cancel"} /\ clears \in Nat
    /\ disk \in [File -> Nat] /\ buffer \in [File -> Nat] /\ store \in [File -> Nat]
    /\ jobs \subseteq JobType /\ edits \in Nat /\ closes \in Nat
    /\ told \subseteq Pass /\ odd \subseteq File

\* A worker w of the pass r.
WorkerOK(p, r, w) ==
    /\ w.pc \in {"analyse", "push"} <=> w.on # Idle
    /\ w.file # Idle => w.pc = "analyse" /\ w.on = w.file
    /\ w.counted => w.retired /\ \/ w.pc \in {"analyse", "push"} /\ w.on \in r.skipped
                                 \/ w.pc = "finished"
    /\ w.pc = "finished" => w.retired \/ w.refused \/ r.queue = {} \/ p \in told

\* What has stopped, or never lived.
Done(w) == w.counted \/ w.pc \in {"none", "finished"}
Blamed(r) == \A x \in r.results : x.file \in r.skipped

\* A pass r with its workers ws.
PassOK(p, r, ws) ==
    /\ r.slots <= Workers + r.spent
    /\ \A i \in Slot : i > r.slots => ws[i].pc = "none" /\ ~ws[i].counted
    /\ \A i \in Slot : i <= r.slots => ws[i].pc # "none"
    /\ r.pc \in Before => r.slots = 0 /\ r.queue = {} /\ r.results = {}
    /\ r.pc \in {"retire", "confirm"} => /\ r.at \in Slot /\ r.at <= r.slots /\ r.seen # Idle
                                         /\ ~r.stopped
    /\ r.pc = "confirm" => ws[r.at].retired
    /\ r.pc \in Driven =>
          /\ r.slots \in Slot
          /\ \/ r.spent = MaxReplacements \/ ~ws[r.slots].retired
             \/ r.pc = "confirm" /\ r.at = r.slots
    /\ cancel /\ r.pc \in Driven \cup {"list"} => p \in told
    /\ r.pc \in {"harvest", "watch"} /\ r.stopped => \A i \in Slot : Done(ws[i])
    /\ r.pc = "watch" /\ r.stopped => Blamed(r)
    /\ r.pc = "ended" /\ p \notin told =>
          /\ Blamed(r) /\ \A i \in Slot : Done(ws[i])
          /\ r.queue # {} => r.spent = MaxReplacements \/ \E i \in Slot : ws[i].refused

OK(p) == PassOK(p, pass[p], worker[p]) /\ \A i \in Slot : WorkerOK(p, pass[p], worker[p][i])

IInv == /\ EnvOK
        /\ pass \in [Pass -> PassType] /\ worker \in [Pass -> [Slot -> WorkerType]]
        /\ \A p \in Pass : OK(p)

----------------------------------------------------------------------------
(* The properties follow.                                                  *)

LEMMA FieldTypes ==
  ASSUME PassAssumption, IInv, NEW p \in Pass
  PROVE  /\ pass[p] \in PassType /\ worker[p] \in [Slot -> WorkerType] /\ OK(p)
         /\ \A i \in Slot : worker[p][i] \in WorkerType
         /\ Workers \in Nat /\ Workers > 0 /\ MaxReplacements \in Nat /\ Slot \subseteq Nat
  BY DEF IInv, PassAssumption, Slot

LEMMA Implied == ASSUME PassAssumption, IInv PROVE TypeOK /\ GivenUpIsStuck /\ NothingLost
<1>1. ASSUME NEW p \in Pass
      PROVE  /\ pass[p].queue \subseteq File /\ pass[p].skipped \subseteq File
             /\ pass[p].slots <= Workers + pass[p].spent /\ pass[p].spent <= MaxReplacements
  BY FieldTypes DEF PassType, OK, PassOK
<1>2. TypeOK
  BY <1>1 DEF TypeOK, IInv, EnvOK
<1>3. GivenUpIsStuck
  BY FieldTypes DEF GivenUpIsStuck, OK, WorkerOK
<1>4. ASSUME NEW p \in Pass, pass[p].pc = "ended", p \notin told
      PROVE  /\ \A r \in pass[p].results : r.file \in pass[p].skipped
             /\ \A i \in Slot : worker[p][i].on # Idle => worker[p][i].on \in pass[p].skipped
             /\ pass[p].queue # {} => \/ pass[p].spent = MaxReplacements
                                      \/ \E i \in Slot : worker[p][i].refused
  <2>1. OK(p)
    BY FieldTypes
  <2>2. Blamed(pass[p]) /\ \A i \in Slot : Done(worker[p][i])
    BY <1>4, <2>1 DEF OK, PassOK
  <2>3. ASSUME NEW i \in Slot, worker[p][i].on # Idle PROVE worker[p][i].on \in pass[p].skipped
    BY <2>1, <2>2, <2>3 DEF OK, WorkerOK, Done
  <2>4. pass[p].queue # {} => \/ pass[p].spent = MaxReplacements
                              \/ \E i \in Slot : worker[p][i].refused
    BY <1>4, <2>1 DEF OK, PassOK
  <2> QED
    BY <2>2, <2>3, <2>4 DEF Blamed
<1>5. NothingLost
  BY <1>4 DEF NothingLost
<1> QED
  BY <1>2, <1>3, <1>5

----------------------------------------------------------------------------
(* What a step leaves of the passes it is not about.                       *)

LEMMA Elsewhere ==
  ASSUME NEW p \in Pass, OK(p), pass'[p] = pass[p], worker'[p] = worker[p], told \subseteq told',
         cancel' => cancel \/ p \in told' \/ ~Running(p)
  PROVE  OK(p)'
<1>1. PassOK(p, pass[p], worker[p])'
  BY DEF OK, PassOK, Running, Driven, Blamed, Done
<1>2. ASSUME NEW i \in Slot PROVE WorkerOK(p, pass[p], worker[p][i])'
  BY DEF OK, WorkerOK
<1> QED
  BY <1>1, <1>2 DEF OK

\* A step of the rest of the program.
LEMMA EnvStep ==
  ASSUME IInv, EnvOK', UNCHANGED <<pass, worker>>, told \subseteq told',
         cancel' => cancel \/ \A p \in Pass : p \in told' \/ ~Running(p)
  PROVE  IInv'
  BY Elsewhere DEF IInv

\* A step of the task of one pass.
LEMMA PassStep ==
  ASSUME IInv, NEW p \in Pass, NEW r \in PassType, pass' = [pass EXCEPT ![p] = r],
         worker' = worker, EnvOK', told \subseteq told', cancel' => cancel,
         PassOK(p, r, worker[p])', \A i \in Slot : WorkerOK(p, r, worker[p][i])'
  PROVE  IInv'
<1>1. pass' \in [Pass -> PassType] /\ pass'[p] = r /\ \A q \in Pass \ {p} : pass'[q] = pass[q]
  BY DEF IInv
<1>2. worker' \in [Pass -> [Slot -> WorkerType]]
  BY DEF IInv
<1>3. OK(p)'
  BY <1>1 DEF OK, PassOK, WorkerOK
<1>4. ASSUME NEW q \in Pass \ {p} PROVE OK(q)'
  BY <1>1, Elsewhere DEF IInv
<1> QED
  BY <1>1, <1>2, <1>3, <1>4 DEF IInv

\* A step that also changes the workers of the pass.
LEMMA PoolStep ==
  ASSUME PassAssumption, IInv, NEW p \in Pass, NEW r \in PassType,
         NEW ws \in [Slot -> WorkerType], pass' = [pass EXCEPT ![p] = r],
         worker' = [worker EXCEPT ![p] = ws], EnvOK', UNCHANGED <<told, cancel>>,
         PassOK(p, r, ws), \A j \in Slot : WorkerOK(p, r, ws[j])
  PROVE  IInv'
<1>1. pass' \in [Pass -> PassType] /\ pass'[p] = r /\ \A q \in Pass \ {p} : pass'[q] = pass[q]
  BY DEF IInv
<1>2. /\ worker' \in [Pass -> [Slot -> WorkerType]] /\ worker'[p] = ws
      /\ \A q \in Pass \ {p} : worker'[q] = worker[q]
  BY DEF IInv
<1>3. OK(p)'
  BY <1>1, <1>2 DEF OK, PassOK, WorkerOK
<1>4. ASSUME NEW q \in Pass \ {p} PROVE OK(q)'
  BY <1>1, <1>2, Elsewhere DEF IInv
<1> QED
  BY <1>1, <1>2, <1>3, <1>4 DEF IInv

\* What is left alone by a step of a pass or of a worker.
LEMMA EnvStays ==
  ASSUME EnvOK, UNCHANGED <<setting, texts, store, jobs, counters, told, odd>>
  PROVE  EnvOK' /\ told \subseteq told' /\ cancel' = cancel /\ told' = told
  BY DEF EnvOK, setting, texts, counters

----------------------------------------------------------------------------
(* The editor, the recomputations and the setting.                         *)

LEMMA InitOK == ASSUME PassAssumption, Init PROVE IInv
<1>1. EnvOK
  <2>1. disk \in [File -> Nat] /\ buffer \in [File -> Nat] /\ store \in [File -> Nat]
    BY DEF Init, NoText
  <2> QED
    BY <2>1 DEF Init, EnvOK
<1>2. NoWorker \in WorkerType /\ NoWorker.pc = "none" /\ NoWorker.on = Idle
      /\ NoWorker.file = Idle /\ ~NoWorker.counted
  BY DEF NoWorker, WorkerType, WorkerPc, NoText, Idle
<1>3. worker = [p \in Pass |-> [i \in Slot |-> NoWorker]]
  BY DEF Init
<1>4. worker \in [Pass -> [Slot -> WorkerType]]
      /\ \A p \in Pass : \A i \in Slot : worker[p][i] = NoWorker
  BY <1>2, <1>3
<1> DEFINE first == [NoPass EXCEPT !.pc = "config"]
<1>a. /\ NoPass \in PassType /\ NoPass.pc = "none" /\ NoPass.slots = 0
      /\ NoPass.queue = {} /\ NoPass.results = {} /\ NoPass.spent = 0
  <2>1. 0 \in 0..MaxReplacements
    BY DEF PassAssumption
  <2> QED
    BY <2>1 DEF NoPass, PassType, Before, Idle
<1>5. /\ first \in PassType /\ first.pc = "config" /\ first.slots = 0
      /\ first.queue = {} /\ first.results = {} /\ first.spent = 0
  BY <1>a DEF PassType, Before
<1>6. pass = [p \in Pass |-> IF p = 1 THEN first ELSE NoPass]
  BY DEF Init
<1> HIDE DEF first
<1>7. ASSUME NEW p \in Pass PROVE OK(p)
  <2>1. /\ pass[p].pc \in {"none", "config"} /\ pass[p].slots = 0 /\ pass[p].spent = 0
        /\ pass[p].queue = {} /\ pass[p].results = {}
    BY <1>a, <1>5, <1>6
  <2>a. \A i \in Slot : ~(i <= pass[p].slots)
    BY <2>1 DEF Slot
  <2>2. PassOK(p, pass[p], worker[p])
    BY <1>2, <1>4, <2>1, <2>a DEF PassOK, Driven, Before, PassAssumption
  <2>3. \A i \in Slot : WorkerOK(p, pass[p], worker[p][i])
    BY <1>2, <1>4 DEF WorkerOK
  <2> QED
    BY <2>2, <2>3 DEF OK
<1>8. pass \in [Pass -> PassType]
  BY <1>a, <1>5, <1>6
<1> QED
  BY <1>1, <1>4, <1>7, <1>8 DEF IInv

LEMMA ReadsType ==
  ASSUME PassAssumption, EnvOK, NEW f \in File PROVE Reads(f) \in Nat
  BY DEF EnvOK, Reads

LEMMA EditorStep ==
  ASSUME PassAssumption, IInv, NEW f \in File, Open(f) \/ Edit(f) \/ Save(f) \/ Close(f)
  PROVE  IInv'
<1>0. EnvOK
  BY DEF IInv
<1>1. CASE Open(f)
  BY <1>0, <1>1, EnvStep DEF Open, EnvOK, setting, counters
<1>2. CASE Edit(f)
  BY <1>0, <1>2, EnvStep DEF Edit, EnvOK, setting
<1>3. CASE Save(f)
  BY <1>0, <1>3, EnvStep DEF Save, EnvOK, setting, counters
<1>4. CASE Close(f)
  <2>1. [id |-> closes, file |-> f, pc |-> "start", text |-> NoText] \in JobType
    BY <1>0 DEF EnvOK, JobType, NoText
  <2>2. jobs' \subseteq JobType
    BY <1>0, <1>4, <2>1 DEF Close, EnvOK
  <2>3. buffer' \in [File -> Nat] /\ closes' \in Nat
    BY <1>0, <1>4 DEF Close, EnvOK, NoText
  <2> QED
    BY <1>0, <1>4, <2>2, <2>3, EnvStep DEF Close, EnvOK, setting
<1> QED
  BY <1>1, <1>2, <1>3, <1>4

LEMMA JobStep ==
  ASSUME PassAssumption, IInv, NEW j \in jobs, Recomputing(j)
  PROVE  IInv'
<1>0. EnvOK /\ j \in JobType
  BY DEF IInv, EnvOK
\* A job that goes on.
<1>a. ASSUME NEW k \in JobType, Becomes(j, k),
             UNCHANGED <<setting, texts, store, pass, worker, counters, told, odd>>
      PROVE  IInv'
  BY <1>0, <1>a, EnvStep DEF Becomes, EnvOK, setting, texts, counters
<1>b. ASSUME jobs' = jobs \ {j},
             UNCHANGED <<setting, texts, store, pass, worker, counters, told, odd>>
      PROVE  IInv'
  BY <1>0, <1>b, EnvStep DEF EnvOK, setting, texts, counters
<1>1. CASE JobStart(j)
  <2>1. [j EXCEPT !.pc = "read"] \in JobType
    BY <1>0 DEF JobType
  <2> QED
    BY <1>1, <1>a, <1>b, <2>1 DEF JobStart
<1>2. CASE JobRead(j)
  <2>1. PICK x \in Nat : x = IF j.file \in Panics THEN NoText ELSE Reads(j.file)
    BY <1>0, ReadsType DEF JobType, NoText
  <2>2. [j EXCEPT !.pc = "check", !.text = x] \in JobType
    BY <1>0 DEF JobType
  <2> QED
    BY <1>2, <1>a, <2>1, <2>2 DEF JobRead
<1>3. CASE JobCheck(j)
  <2>1. [j EXCEPT !.pc = "store"] \in JobType
    BY <1>0 DEF JobType
  <2> QED
    BY <1>3, <1>a, <1>b, <2>1 DEF JobCheck
<1>4. CASE JobStore(j)
  <2>1. j.file \in File /\ j.text \in Nat
    BY <1>0 DEF JobType
  <2>2. store' \in [File -> Nat] /\ jobs' \subseteq JobType /\ odd' \subseteq File
    BY <1>0, <1>4, <2>1 DEF JobStore, EnvOK
  <2> QED
    BY <1>0, <1>4, <2>2, EnvStep DEF JobStore, EnvOK, setting, texts, counters
<1> QED
  BY <1>1, <1>2, <1>3, <1>4 DEF Recomputing

LEMMA SettingStep ==
  ASSUME PassAssumption, IInv, Toggle \/ StopOnReload \/ Cancel \/ ClearAll
  PROVE  IInv'
<1>0. EnvOK
  BY DEF IInv
<1>1. CASE Toggle
  BY <1>0, <1>1, EnvStep DEF Toggle, EnvOK, texts
<1>4. CASE StopOnReload
  BY <1>0, <1>4, EnvStep DEF StopOnReload, EnvOK, texts, counters
<1>2. CASE Cancel
  <2>1. told \subseteq told' /\ \A p \in Pass : p \in told' \/ ~Running(p)
    BY <1>2 DEF Cancel
  <2>2. EnvOK'
    BY <1>0, <1>2 DEF Cancel, EnvOK, texts, counters
  <2> QED
    BY <1>2, <2>1, <2>2, EnvStep DEF Cancel
<1>3. CASE ClearAll
  <2>1. clears' \in Nat
    BY <1>0, <1>3 DEF ClearAll, EnvOK
  <2>2. store' \in [File -> Nat]
    BY <1>3 DEF ClearAll, NoText
  <2>3. odd' \subseteq File
    BY <1>0, <1>3 DEF ClearAll, EnvOK
  <2> QED
    BY <1>0, <1>3, <2>1, <2>2, <2>3, EnvStep DEF ClearAll, EnvOK, texts, counters
<1> QED
  BY <1>1, <1>2, <1>3, <1>4

----------------------------------------------------------------------------
(* A pass begins.                                                          *)

LEMMA EarlyStep ==
  ASSUME PassAssumption, IInv, NEW p \in Pass, pass[p].pc \in Before,
         NEW pc \in (Before \ {"none"}) \cup {"ended"}, pass' = [pass EXCEPT ![p].pc = pc],
         worker' = worker, EnvOK', told' = told, cancel' => cancel, pc = "list" => ~cancel'
  PROVE  IInv'
<1>0. pass[p] \in PassType /\ worker[p] \in [Slot -> WorkerType] /\ OK(p)
  BY FieldTypes
<1>1. PICK r \in PassType : r = [pass[p] EXCEPT !.pc = pc]
  BY <1>0 DEF PassType
<1>2. /\ r.pc = pc /\ r.queue = pass[p].queue /\ r.results = pass[p].results
      /\ r.skipped = pass[p].skipped /\ r.slots = pass[p].slots /\ r.spent = pass[p].spent
  BY <1>0, <1>1 DEF PassType
<1>3. pass' = [pass EXCEPT ![p] = r]
  BY <1>1
<1>4. PassOK(p, r, worker[p])'
  <2>1. /\ r.slots = 0 /\ r.queue = {} /\ r.results = {} /\ r.slots <= Workers + r.spent
        /\ \A i \in Slot : worker[p][i].pc = "none" /\ ~worker[p][i].counted
    BY <1>0, <1>2, FieldTypes DEF OK, PassOK, Slot
  <2>a. \A i \in Slot : ~(i <= r.slots)
    BY <2>1 DEF Slot
  <2>2. r.pc \notin Driven /\ r.pc \notin {"retire", "confirm", "harvest", "watch"}
    BY <1>2 DEF Driven, Before
  <2>3. cancel' => r.pc # "list"
    BY <1>2
  <2> QED
    BY <2>1, <2>a, <2>2, <2>3 DEF PassOK, Done, Blamed
<1>5. \A i \in Slot : WorkerOK(p, r, worker[p][i])'
  BY <1>0, <1>2 DEF OK, WorkerOK
<1> QED
  BY <1>3, <1>4, <1>5, PassStep

LEMMA BeginStep ==
  ASSUME PassAssumption, IInv,
         StartOnReload \/ \E p \in Pass : ReadConfig(p) \/ Swap(p) \/ Uncancel(p)
  PROVE  IInv'
<1>0. EnvOK
  BY DEF IInv
<1> USE DEF Before
<1>1. CASE StartOnReload
  <2>1. EnvOK' /\ UNCHANGED <<told, cancel, worker>>
    BY <1>0, <1>1 DEF StartOnReload, EnvOK, texts, counters
  <2>2. CASE pass' = pass
    BY <2>1, <2>2, EnvStep
  <2>3. ASSUME NEW p \in Unused, pass' = [pass EXCEPT ![p].pc = "config"] PROVE IInv'
    <3>1. p \in Pass /\ pass[p].pc \in Before
      BY DEF Unused
    <3>2. "config" \in (Before \ {"none"}) \cup {"ended"} /\ "config" # "list"
      OBVIOUS
    <3> QED
      BY <2>1, <2>3, <3>1, <3>2, EarlyStep
  <2> QED
    BY <1>1, <2>2, <2>3 DEF StartOnReload
<1>2. ASSUME NEW p \in Pass, ReadConfig(p) PROVE IInv'
  <2>1. EnvOK' /\ cancel' = cancel /\ told' = told
    BY <1>0, <1>2, EnvStays DEF ReadConfig
  <2>2. PICK pc \in {"swap", "ended"} : pass' = [pass EXCEPT ![p].pc = pc]
    BY <1>2 DEF ReadConfig
  <2> QED
    BY <1>2, <2>1, <2>2, EarlyStep DEF ReadConfig
<1>3. ASSUME NEW p \in Pass, Swap(p) PROVE IInv'
  <2>1. EnvOK' /\ cancel' = cancel /\ told' = told
    BY <1>0, <1>3 DEF Swap, EnvOK, texts, counters
  <2>2. PICK pc \in {"uncancel", "ended"} : pass' = [pass EXCEPT ![p].pc = pc]
    BY <1>3 DEF Swap
  <2> QED
    <3>1. worker' = worker /\ pass[p].pc = "swap"
      BY <1>3 DEF Swap
    <3> QED
      BY <2>1, <2>2, <3>1, EarlyStep
<1>4. ASSUME NEW p \in Pass, Uncancel(p) PROVE IInv'
  <2>1. EnvOK' /\ ~cancel' /\ told' = told
    BY <1>0, <1>4 DEF Uncancel, EnvOK, texts, counters
  <2> QED
    BY <1>4, <2>1, EarlyStep DEF Uncancel
<1> QED
  BY <1>1, <1>2, <1>3, <1>4

LEMMA SpawnedType ==
  /\ Spawned \in WorkerType /\ Spawned.pc = "loop" /\ Spawned.on = Idle /\ Spawned.file = Idle
  /\ ~Spawned.retired /\ ~Spawned.counted
  /\ NoWorker \in WorkerType /\ NoWorker.pc = "none" /\ NoWorker.on = Idle
  /\ NoWorker.file = Idle /\ ~NoWorker.counted
  BY DEF Spawned, NoWorker, WorkerType, WorkerPc, NoText, Idle

\* A thread that was refused leaves a finished slot behind.
LEMMA SpawnType ==
  ASSUME NEW i \in Slot, NEW refused
  PROVE  /\ Spawn(i, refused) \in WorkerType /\ Spawn(i, refused).on = Idle
         /\ Spawn(i, refused).file = Idle /\ Spawn(i, refused).pc \in {"loop", "finished"}
         /\ ~Spawn(i, refused).retired /\ ~Spawn(i, refused).counted
         /\ Spawn(i, refused).pc = "finished" => Spawn(i, refused).refused
<1>1. /\ Unspawned \in WorkerType /\ Unspawned.pc = "finished" /\ Unspawned.on = Idle
      /\ Unspawned.file = Idle /\ ~Unspawned.retired /\ ~Unspawned.counted
      /\ Unspawned.refused
  BY DEF Unspawned, NoWorker, WorkerType, WorkerPc, NoText, Idle
<1> QED
  BY <1>1, SpawnedType DEF Spawn

LEMMA ListStep == ASSUME PassAssumption, IInv, NEW p \in Pass, List(p) PROVE IInv'
<1>r. PICK refused \in SUBSET Refused :
        LET files == {f \in File : ~IsOpen(f)}
            count == IF Cardinality(files) < Workers THEN Cardinality(files) ELSE Workers
        IN  worker' = [worker EXCEPT ![p] =
               [i \in Slot |-> IF i <= count THEN Spawn(i, refused) ELSE NoWorker]]
  BY DEF List
<1> DEFINE files == {f \in File : ~IsOpen(f)}
<1> DEFINE n == IF Cardinality(files) < Workers THEN Cardinality(files) ELSE Workers
<1> DEFINE ws == [i \in Slot |-> IF i <= n THEN Spawn(i, refused) ELSE NoWorker]
<1> DEFINE e == [pass[p] EXCEPT !.pc = IF files = {} THEN "ended" ELSE "poll",
                                !.queue = files, !.slots = n]
<1>0. /\ pass[p] \in PassType /\ worker[p] \in [Slot -> WorkerType] /\ OK(p)
      /\ Workers \in Nat /\ Workers > 0 /\ MaxReplacements \in Nat /\ Slot \subseteq Nat
  BY FieldTypes
<1>1. /\ pass[p].pc = "list" /\ pass' = [pass EXCEPT ![p] = e]
      /\ worker' = [worker EXCEPT ![p] = ws]
      /\ UNCHANGED <<setting, texts, store, jobs, counters, told, odd>>
  BY <1>r DEF List
<1>2. files \subseteq File /\ n \in Nat /\ n <= Workers /\ (files = {} <=> n = 0)
  <2>1. IsFiniteSet(files)
    BY FS_Subset DEF PassAssumption
  <2>2. Cardinality(files) \in Nat /\ (Cardinality(files) = 0 <=> files = {})
    BY <2>1, FS_CardinalityType, FS_EmptySet
  <2> QED
    BY <1>0, <2>2
<1>a. /\ ws \in [Slot -> WorkerType]
      /\ \A i \in Slot : ws[i] = IF i <= n THEN Spawn(i, refused) ELSE NoWorker
  BY SpawnedType, SpawnType
<1> HIDE DEF files, n, ws
<1>b. PICK r \in PassType : r = e
  BY <1>0, <1>2 DEF PassType, Driven
<1>3. /\ r.pc = (IF files = {} THEN "ended" ELSE "poll") /\ r.queue = files /\ r.slots = n
      /\ r.results = pass[p].results /\ r.spent = pass[p].spent
  BY <1>0, <1>b DEF PassType
<1> HIDE DEF e
<1>4. /\ r.results = {} /\ (cancel => p \in told) /\ r.spent \in Nat
  BY <1>0, <1>1, <1>3 DEF OK, PassOK, Before, PassType
<1>5. PassOK(p, r, ws)
  <2>1. CASE files = {}
    <3>1. \A i \in Slot : ws[i].pc = "none" /\ ~ws[i].counted
      <4>1. \A i \in Slot : ~(i <= 0)
        BY DEF Slot
      <4> QED
        BY <1>2, <1>a, <2>1, <4>1, SpawnedType
    <3>2. r.pc = "ended" /\ r.slots = 0 /\ r.queue = {}
      BY <1>2, <1>3, <2>1
    <3>3. \A i \in Slot : ~(i <= r.slots)
      BY <3>2 DEF Slot
    <3> QED
      BY <3>3, <1>0, <1>4, <3>1, <3>2 DEF PassOK, Before, Driven, Done, Blamed
  <2>2. CASE files # {}
    <3>1. n \in Slot /\ ~ws[n].retired
      <4>1. n \in Slot
        <5>1. n \in Nat /\ n # 0 /\ n <= Workers
          BY <1>2, <2>2
        <5> QED
          BY <1>0, <5>1 DEF Slot
      <4> QED
        BY <1>2, <1>a, <4>1, SpawnType
    <3>2. \A i \in Slot : i > n => ws[i].pc = "none" /\ ~ws[i].counted
      <4>1. \A i \in Slot : i > n => ~(i <= n)
        BY <1>0, <1>2
      <4> QED
        BY <1>a, <4>1, SpawnedType
    <3>3. r.pc = "poll" /\ r.slots = n /\ n <= Workers + r.spent
      <4>1. r.pc = "poll" /\ r.slots = n
        BY <1>3, <2>2
      <4>2. n <= Workers /\ n \in Nat /\ Workers \in Nat /\ r.spent \in Nat
        BY <1>0, <1>2, <1>4
      <4>3. n <= Workers + r.spent
        BY <4>2
      <4> QED
        BY <4>1, <4>3
    <3>a. \A i \in Slot : i <= n => ws[i].pc # "none"
      BY <1>a, SpawnType
    <3>4. /\ r.slots \in Slot /\ ~ws[r.slots].retired /\ r.slots <= Workers + r.spent
          /\ \A i \in Slot : i <= r.slots => ws[i].pc # "none"
          /\ \A i \in Slot : i > r.slots => ws[i].pc = "none" /\ ~ws[i].counted
      BY <3>1, <3>2, <3>3, <3>a
    <3> QED
      BY <1>4, <3>3, <3>4 DEF PassOK, Before, Driven
  <2> QED
    BY <2>1, <2>2
<1>6. \A j \in Slot : WorkerOK(p, r, ws[j])
  BY <1>a, SpawnedType, SpawnType DEF WorkerOK
<1>7. EnvOK' /\ told' = told /\ cancel' = cancel
  BY <1>1, EnvStays DEF IInv
<1> QED
  BY <1>1, <1>a, <1>b, <1>5, <1>6, <1>7, PoolStep

----------------------------------------------------------------------------
(* A pass is driven.                                                       *)

LEMMA SlotFacts ==
  ASSUME PassAssumption, IInv, NEW p \in Pass, pass[p].pc \in Driven
  PROVE  /\ pass[p].slots \in Slot /\ Live(p) \subseteq Slot
         /\ \A i \in Slot : i \notin Live(p) => Done(worker[p][i])
<1>1. pass[p].slots \in Slot /\ OK(p) /\ pass[p].slots \in Nat
  BY FieldTypes DEF OK, PassOK, Slot
<1>2. Live(p) \subseteq Slot /\ \A i \in Slot : i \notin Live(p) => i > pass[p].slots
  <2>1. Workers + MaxReplacements \in Nat
    BY DEF PassAssumption
  <2> QED
    BY <1>1, <2>1 DEF Live, Slot
<1> QED
  BY <1>1, <1>2 DEF OK, PassOK, Done

LEMMA PollStep == ASSUME PassAssumption, IInv, NEW p \in Pass, Poll(p) PROVE IInv'
<1>0. /\ pass[p] \in PassType /\ worker[p] \in [Slot -> WorkerType] /\ OK(p)
      /\ pass[p].pc \in Driven
  BY FieldTypes DEF Poll, Driven
<1>1. PICK b \in BOOLEAN : b = \A i \in Live(p) : Stopped(p, i)
  OBVIOUS
<1>2. PICK r \in PassType : r = [pass[p] EXCEPT !.pc = "harvest", !.stopped = b]
  BY <1>0 DEF PassType, Driven
<1>3. /\ r.pc = "harvest" /\ r.stopped = b /\ r.queue = pass[p].queue
      /\ r.skipped = pass[p].skipped /\ r.slots = pass[p].slots /\ r.spent = pass[p].spent
  BY <1>0, <1>2 DEF PassType
<1>4. pass' = [pass EXCEPT ![p] = r]
  BY <1>1, <1>2 DEF Poll
<1>5. worker' = worker /\ EnvOK' /\ told' = told /\ cancel' = cancel
  BY EnvStays DEF Poll, IInv
<1>6. b => \A i \in Slot : Done(worker[p][i])
  BY <1>0, <1>1, SlotFacts DEF Stopped, Done
<1>7. PassOK(p, r, worker[p])'
  BY <1>0, <1>3, <1>5, <1>6 DEF OK, PassOK, Before, Driven, Done, Poll
<1>8. \A i \in Slot : WorkerOK(p, r, worker[p][i])'
  BY <1>0, <1>3, <1>5 DEF OK, WorkerOK
<1> QED
  BY <1>4, <1>5, <1>7, <1>8, PassStep

LEMMA HarvestStep == ASSUME PassAssumption, IInv, NEW p \in Pass, Harvest(p) PROVE IInv'
<1>0. /\ pass[p] \in PassType /\ worker[p] \in [Slot -> WorkerType] /\ OK(p)
      /\ pass[p].pc = "harvest" /\ EnvOK
  BY FieldTypes DEF Harvest, IInv
<1>1. PICK r \in PassType : r = [pass[p] EXCEPT !.pc = "watch", !.results = {}]
  BY <1>0 DEF PassType, Driven
<1>2. /\ r.pc = "watch" /\ r.stopped = pass[p].stopped /\ r.queue = pass[p].queue
      /\ r.skipped = pass[p].skipped /\ r.slots = pass[p].slots /\ r.spent = pass[p].spent
      /\ r.results = {}
  BY <1>0, <1>1 DEF PassType
<1>3. pass' = [pass EXCEPT ![p] = r]
  BY <1>1 DEF Harvest
<1>4. worker' = worker /\ told' = told /\ cancel' = cancel
  BY DEF Harvest, setting
<1>5. EnvOK'
  <2> DEFINE kept == {x \in pass[p].results : ~IsOpen(x.file)}
  <2>1. kept \subseteq Result
    BY <1>0 DEF PassType
  <2>2. store' = [f \in File |-> IF \E x \in kept : x.file = f
                                 THEN (CHOOSE x \in kept : x.file = f).text ELSE store[f]]
        /\ odd' = odd \cup {x.file : x \in {y \in kept : Late(y.file, y.text)}}
    BY DEF Harvest
  <2> HIDE DEF kept
  <2>3. ASSUME NEW f \in File, \E x \in kept : x.file = f
        PROVE  (CHOOSE x \in kept : x.file = f).text \in Nat
    <3>1. (CHOOSE x \in kept : x.file = f) \in Result
      BY <2>1, <2>3
    <3> QED
      BY <3>1 DEF Result
  <2>4. store' \in [File -> Nat]
    BY <1>0, <2>2, <2>3 DEF EnvOK
  <2>5. odd' \subseteq File
    BY <1>0, <2>1, <2>2 DEF EnvOK, Result
  <2> QED
    BY <1>0, <2>4, <2>5 DEF Harvest, EnvOK, setting, texts, counters
<1>6. PassOK(p, r, worker[p])'
  BY <1>0, <1>2, <1>4 DEF OK, PassOK, Before, Driven, Done, Blamed
<1>7. \A i \in Slot : WorkerOK(p, r, worker[p][i])'
  BY <1>0, <1>2, <1>4 DEF OK, WorkerOK
<1> QED
  BY <1>3, <1>4, <1>5, <1>6, <1>7, PassStep

\* A worker past its deadline is one that has not stopped.
LEMMA TimeoutStep == ASSUME PassAssumption, IInv, NEW p \in Pass, Timeout(p) PROVE IInv'
<1>0. /\ pass[p] \in PassType /\ worker[p] \in [Slot -> WorkerType] /\ OK(p)
      /\ pass[p].pc = "watch" /\ pass[p].pc \in Driven
  BY FieldTypes DEF Timeout, Driven
<1>1. PICK i \in Live(p) :
        /\ ~worker[p][i].counted /\ worker[p][i].file # Idle
        /\ pass' = [pass EXCEPT ![p] = [@ EXCEPT !.pc = "retire", !.at = i,
                                                 !.seen = worker[p][i].file]]
  BY DEF Timeout
<1>2. i \in Slot /\ i <= pass[p].slots /\ worker[p][i] \in WorkerType
  BY <1>0, <1>1, SlotFacts DEF Live
<1>3. PICK r \in PassType :
        r = [pass[p] EXCEPT !.pc = "retire", !.at = i, !.seen = worker[p][i].file]
  BY <1>0, <1>2 DEF PassType, Driven, WorkerType
<1>4. /\ r.pc = "retire" /\ r.stopped = pass[p].stopped /\ r.queue = pass[p].queue
      /\ r.skipped = pass[p].skipped /\ r.slots = pass[p].slots /\ r.spent = pass[p].spent
      /\ r.at = i /\ r.seen = worker[p][i].file
  BY <1>0, <1>3 DEF PassType
<1>5. pass' = [pass EXCEPT ![p] = r]
  BY <1>1, <1>3
<1>6. worker' = worker /\ EnvOK' /\ told' = told /\ cancel' = cancel
  BY EnvStays DEF Timeout, IInv
<1>7. ~Done(worker[p][i])
  BY <1>0, <1>1, <1>2 DEF OK, WorkerOK, Done
<1>8. ~pass[p].stopped
  BY <1>0, <1>2, <1>7 DEF OK, PassOK
<1>9. PassOK(p, r, worker[p])'
  BY <1>0, <1>1, <1>2, <1>4, <1>6, <1>8 DEF OK, PassOK, Before, Driven
<1>10. \A j \in Slot : WorkerOK(p, r, worker[p][j])'
  BY <1>0, <1>4, <1>6 DEF OK, WorkerOK
<1> QED
  BY <1>5, <1>6, <1>9, <1>10, PassStep

LEMMA RetireStep == ASSUME PassAssumption, IInv, NEW p \in Pass, Retire(p) PROVE IInv'
<1>0. /\ pass[p] \in PassType /\ worker[p] \in [Slot -> WorkerType] /\ OK(p)
      /\ pass[p].pc = "retire"
  BY FieldTypes DEF Retire
<1>1. PICK i \in Slot : i = pass[p].at
  BY <1>0 DEF OK, PassOK
<1>2. PICK w \in WorkerType : w = [worker[p][i] EXCEPT !.retired = TRUE]
  BY <1>0 DEF WorkerType
<1>3. /\ w.pc = worker[p][i].pc /\ w.on = worker[p][i].on /\ w.file = worker[p][i].file
      /\ w.counted = worker[p][i].counted /\ w.retired
  BY <1>0, <1>2 DEF WorkerType
<1>4. PICK ws \in [Slot -> WorkerType] : ws = [worker[p] EXCEPT ![i] = w]
  BY <1>0
<1>5. worker' = [worker EXCEPT ![p] = ws]
  BY <1>1, <1>2, <1>4 DEF Retire
<1>6. ws[i] = w /\ \A j \in Slot \ {i} : ws[j] = worker[p][j]
  BY <1>0, <1>4
<1>7. PICK r \in PassType : r = [pass[p] EXCEPT !.pc = "confirm"]
  BY <1>0 DEF PassType, Driven
<1>8. /\ r.pc = "confirm" /\ r.stopped = pass[p].stopped /\ r.queue = pass[p].queue
      /\ r.skipped = pass[p].skipped /\ r.slots = pass[p].slots /\ r.spent = pass[p].spent
      /\ r.at = i /\ r.seen = pass[p].seen
  BY <1>0, <1>1, <1>7 DEF PassType
<1>9. pass' = [pass EXCEPT ![p] = r]
  BY <1>7 DEF Retire
<1>10. EnvOK' /\ told' = told /\ cancel' = cancel
  BY EnvStays DEF Retire, IInv
<1>11. \A j \in Slot : WorkerOK(p, r, ws[j])
  BY <1>0, <1>3, <1>6, <1>8 DEF OK, WorkerOK
<1>12. PassOK(p, r, ws)
  <2>1. \A j \in Slot : /\ ws[j].pc = worker[p][j].pc /\ ws[j].counted = worker[p][j].counted
                        /\ j # i => ws[j].retired = worker[p][j].retired
    BY <1>3, <1>6
  <2> QED
    BY <1>0, <1>1, <1>3, <1>6, <1>8, <2>1 DEF OK, PassOK, Before, Driven
<1> QED
  BY <1>5, <1>9, <1>10, <1>11, <1>12, PoolStep

LEMMA CountStep == ASSUME PassAssumption, IInv, NEW p \in Pass, Count(p) PROVE IInv'
<1>0. /\ pass[p] \in PassType /\ worker[p] \in [Slot -> WorkerType] /\ OK(p)
      /\ pass[p].pc = "watch" /\ EnvOK
  BY FieldTypes DEF Count, IInv
<1>1. PICK pc \in {"ended", "poll"} : pc = IF pass[p].stopped \/ cancel THEN "ended" ELSE "poll"
  OBVIOUS
<1>2. PICK r \in PassType : r = [pass[p] EXCEPT !.pc = pc]
  BY <1>0 DEF PassType, Driven
<1>3. /\ r.pc = pc /\ r.stopped = pass[p].stopped /\ r.queue = pass[p].queue
      /\ r.skipped = pass[p].skipped /\ r.slots = pass[p].slots /\ r.spent = pass[p].spent
      /\ r.results = pass[p].results
  BY <1>0, <1>2 DEF PassType
<1>4. pass' = [pass EXCEPT ![p] = r]
  BY <1>1, <1>2 DEF Count
<1>5. /\ worker' = worker /\ cancel' = cancel /\ told \subseteq told'
      /\ cancel => p \in told'
  BY DEF Count, setting
<1>6. EnvOK'
  BY <1>0 DEF Count, EnvOK, setting, texts, counters
<1>7. PassOK(p, r, worker[p])'
  <2>1. CASE pc = "poll"
    BY <1>0, <1>3, <1>5, <2>1 DEF OK, PassOK, Before, Driven
  <2>2. CASE pc = "ended" /\ cancel
    BY <1>0, <1>3, <1>5, <2>2 DEF OK, PassOK, Before, Driven
  <2>3. CASE pc = "ended" /\ ~cancel
    <3>1. pass[p].stopped
      BY <1>1, <2>3
    <3>2. Blamed(pass[p]) /\ \A i \in Slot : Done(worker[p][i])
      BY <1>0, <3>1 DEF OK, PassOK
    <3>3. pass[p].slots \in Slot
          /\ (pass[p].spent = MaxReplacements \/ ~worker[p][pass[p].slots].retired)
      BY <1>0 DEF OK, PassOK, Driven
    <3>4. ASSUME p \notin told', pass[p].queue # {}
          PROVE  pass[p].spent = MaxReplacements \/ \E i \in Slot : worker[p][i].refused
      <4>1. p \notin told
        BY <1>5, <3>4
      <4>2. WorkerOK(p, pass[p], worker[p][pass[p].slots]) /\ Done(worker[p][pass[p].slots])
        BY <1>0, <3>2, <3>3 DEF OK
      <4>3. ASSUME ~worker[p][pass[p].slots].retired, ~worker[p][pass[p].slots].refused
            PROVE  worker[p][pass[p].slots].pc = "none"
        BY <3>4, <4>1, <4>2, <4>3 DEF WorkerOK, Done
      <4>4. worker[p][pass[p].slots].pc # "none"
        <5>1. pass[p].slots <= pass[p].slots
          BY <1>0 DEF PassType
        <5> QED
          BY <1>0, <3>3, <5>1 DEF OK, PassOK
      <4> QED
        BY <3>3, <4>3, <4>4
    <3> QED
      BY <1>0, <1>3, <1>5, <2>3, <3>2, <3>4 DEF OK, PassOK, Before, Driven, Blamed
  <2> QED
    BY <2>1, <2>2, <2>3
<1>8. \A i \in Slot : WorkerOK(p, r, worker[p][i])'
  BY <1>0, <1>3, <1>5 DEF OK, WorkerOK
<1> QED
  BY <1>4, <1>5, <1>6, <1>7, <1>8, PassStep

LEMMA ConfirmStep == ASSUME PassAssumption, IInv, NEW p \in Pass, Confirm(p) PROVE IInv'
<1>0. /\ pass[p] \in PassType /\ worker[p] \in [Slot -> WorkerType] /\ OK(p)
      /\ pass[p].pc = "confirm" /\ Slot \subseteq Nat
      /\ Workers \in Nat /\ MaxReplacements \in Nat
      /\ pass[p].slots \in Nat /\ pass[p].spent \in Nat /\ pass[p].spent <= MaxReplacements
  BY FieldTypes DEF Confirm, PassType
<1>r. PICK refused \in SUBSET Refused :
        LET n == pass[p].slots + 1
            more == Budget(p)
        IN  worker' = [worker EXCEPT ![p] = [k \in Slot |->
               IF k = pass[p].at /\ Stuck(p) THEN [worker[p][k] EXCEPT !.counted = TRUE]
               ELSE IF k = n /\ more THEN Spawn(k, refused) ELSE worker[p][k]]]
  BY DEF Confirm
<1>1. PICK i \in Slot : i = pass[p].at
  BY <1>0 DEF OK, PassOK
<1>2. /\ i <= pass[p].slots /\ pass[p].seen \in File /\ ~pass[p].stopped
      /\ worker[p][i].retired /\ pass[p].slots <= Workers + pass[p].spent
      /\ pass[p].slots \in Slot
  BY <1>0, <1>1 DEF OK, PassOK, PassType, Driven
<1>3. PICK n \in Nat : n = pass[p].slots + 1
  BY <1>0
<1>4. PICK more \in BOOLEAN : more <=> Budget(p)
  <2>1. Budget(p) \in BOOLEAN
    BY <1>0 DEF Budget
  <2>2. CASE Budget(p)
    BY <2>2
  <2>3. CASE ~Budget(p)
    BY <2>3
  <2> QED
    BY <2>2, <2>3
<1>a. more => pass[p].spent < MaxReplacements
  BY <1>4 DEF Budget
<1>b. ~more => pass[p].spent = MaxReplacements
  <2>1. ~more => ~(pass[p].spent < MaxReplacements)
    BY <1>4 DEF Budget
  <2> QED
    BY <1>0, <2>1
<1>5. more => n \in Slot /\ n # i /\ n > i
  <2>1. ASSUME more PROVE n <= Workers + MaxReplacements /\ n >= 1
    <3>1. pass[p].spent < MaxReplacements
      BY <1>a, <2>1
    <3> QED
      BY <1>0, <1>2, <1>3, <3>1
  <2>2. n # i /\ n > i
    BY <1>0, <1>2, <1>3
  <2> QED
    BY <1>0, <2>1, <2>2 DEF Slot
<1>6. PICK stuck \in BOOLEAN : stuck = Stuck(p)
  BY DEF Stuck
<1>7. PICK skipped \in SUBSET File :
        skipped = IF stuck THEN pass[p].skipped \cup {pass[p].seen} ELSE pass[p].skipped
  BY <1>0, <1>2 DEF PassType
<1>8. PICK slots \in Nat : slots = IF more THEN n ELSE pass[p].slots
  BY <1>0
<1>9. PICK spent \in 0..MaxReplacements :
        spent = IF more THEN pass[p].spent + 1 ELSE pass[p].spent
  <2>1. CASE more
    BY <1>0, <1>a, <2>1
  <2>2. CASE ~more
    BY <1>0, <2>2
  <2> QED
    BY <2>1, <2>2
<1>10. PICK r \in PassType :
         r = [pass[p] EXCEPT !.pc = "watch", !.at = 0, !.seen = Idle, !.skipped = skipped,
                             !.slots = slots, !.spent = spent]
  BY <1>0 DEF PassType, Driven
<1>11. /\ r.pc = "watch" /\ r.stopped = pass[p].stopped /\ r.queue = pass[p].queue
       /\ r.skipped = skipped /\ r.slots = slots /\ r.spent = spent
  BY <1>0, <1>10 DEF PassType
<1>12. pass' = [pass EXCEPT ![p] = r]
  <2> DEFINE e == [pass[p] EXCEPT !.pc = "watch", !.at = 0, !.seen = Idle,
                     !.skipped = IF Stuck(p) THEN pass[p].skipped \cup {pass[p].seen}
                                             ELSE pass[p].skipped,
                     !.slots = IF Budget(p) THEN pass[p].slots + 1 ELSE pass[p].slots,
                     !.spent = IF Budget(p) THEN pass[p].spent + 1 ELSE pass[p].spent]
  <2>1. pass' = [pass EXCEPT ![p] = e]
    BY Zenon DEF Confirm
  <2>2. skipped = IF Stuck(p) THEN pass[p].skipped \cup {pass[p].seen} ELSE pass[p].skipped
    BY <1>6, <1>7
  <2>3. slots = IF Budget(p) THEN pass[p].slots + 1 ELSE pass[p].slots
    BY <1>3, <1>4, <1>8
  <2>4. spent = IF Budget(p) THEN pass[p].spent + 1 ELSE pass[p].spent
    BY <1>4, <1>9
  <2>5. e = r
    BY <1>10, <2>2, <2>3, <2>4
  <2> QED
    BY <2>1, <2>5
<1>13. PICK w \in WorkerType : w = [worker[p][i] EXCEPT !.counted = TRUE]
  BY <1>0 DEF WorkerType
<1>14. /\ w.pc = worker[p][i].pc /\ w.on = worker[p][i].on /\ w.file = worker[p][i].file
       /\ w.counted /\ w.retired = worker[p][i].retired
  BY <1>0, <1>13 DEF WorkerType
<1>15. PICK ws \in [Slot -> WorkerType] :
         ws = [k \in Slot |-> IF k = i /\ stuck THEN w
                              ELSE IF k = n /\ more THEN Spawn(k, refused) ELSE worker[p][k]]
  BY <1>0, SpawnType
<1>16. \A k \in Slot : ws[k] = IF k = i /\ stuck THEN w
                               ELSE IF k = n /\ more THEN Spawn(k, refused) ELSE worker[p][k]
  BY <1>15
<1>17. worker' = [worker EXCEPT ![p] = ws]
  <2>1. \A k \in Slot : (IF k = i /\ stuck THEN [worker[p][k] EXCEPT !.counted = TRUE]
                         ELSE IF k = n /\ more THEN Spawn(k, refused) ELSE worker[p][k]) = ws[k]
    BY <1>13, <1>16
  <2>2. worker' = [worker EXCEPT ![p] = [k \in Slot |->
                     IF k = i /\ stuck THEN [worker[p][k] EXCEPT !.counted = TRUE]
                     ELSE IF k = n /\ more THEN Spawn(k, refused) ELSE worker[p][k]]]
    BY <1>r, <1>1, <1>3, <1>4, <1>6
  <2>3. ws = [k \in Slot |-> IF k = i /\ stuck THEN [worker[p][k] EXCEPT !.counted = TRUE]
                             ELSE IF k = n /\ more THEN Spawn(k, refused) ELSE worker[p][k]]
    BY <1>15, <2>1
  <2> QED
    BY <2>2, <2>3
<1>18. EnvOK' /\ told' = told /\ cancel' = cancel
  BY EnvStays DEF Confirm, IInv
<1>19. ASSUME NEW j \in Slot PROVE WorkerOK(p, r, ws[j])
  <2>0. WorkerOK(p, pass[p], worker[p][j])
    BY <1>0 DEF OK
  <2>1. CASE j = i /\ stuck
    <3>1. ws[j] = w /\ worker[p][i].file = pass[p].seen
      BY <1>1, <1>6, <1>16, <2>1 DEF Stuck
    <3>2. worker[p][i].pc = "analyse" /\ worker[p][i].on = pass[p].seen
      BY <1>0, <1>1, <2>0, <2>1, <3>1 DEF OK, PassOK, WorkerOK
    <3>3. pass[p].seen \in r.skipped
      BY <1>7, <1>11, <2>1
    <3> QED
      BY <1>2, <1>14, <2>0, <2>1, <3>1, <3>2, <3>3 DEF WorkerOK
  <2>2. CASE ~(j = i /\ stuck) /\ j = n /\ more
    <3>1. ws[j] = Spawn(j, refused)
      BY <1>16, <2>2
    <3> QED
      BY <3>1, SpawnType DEF WorkerOK
  <2>3. CASE ~(j = i /\ stuck) /\ ~(j = n /\ more)
    <3>1. ws[j] = worker[p][j] /\ pass[p].skipped \subseteq r.skipped
      BY <1>7, <1>11, <1>16, <2>3
    <3> QED
      BY <1>11, <2>0, <3>1 DEF WorkerOK
  <2> QED
    BY <2>1, <2>2, <2>3
<1>20. PassOK(p, r, ws)
  <2>1. slots <= Workers + spent /\ slots \in Slot
    BY <1>0, <1>2, <1>3, <1>5, <1>8, <1>9
  <2>2. ASSUME NEW j \in Slot, j > slots PROVE ws[j].pc = "none" /\ ~ws[j].counted
    <3>1. j > pass[p].slots /\ j # i /\ (more => j # n)
      BY <1>0, <1>2, <1>3, <1>8, <2>2
    <3> QED
      BY <1>0, <1>16, <3>1 DEF OK, PassOK
  <2>3. ASSUME NEW j \in Slot, j <= slots PROVE ws[j].pc # "none"
    <3>1. j <= pass[p].slots \/ (j = n /\ more)
      BY <1>0, <1>3, <1>8, <2>3
    <3>2. CASE j <= pass[p].slots
      BY <1>0, <1>14, <1>16, <3>2, SpawnType DEF OK, PassOK
    <3>3. CASE j = n /\ more
      BY <1>5, <1>16, <3>3, SpawnType
    <3> QED
      BY <3>1, <3>2, <3>3
  <2>4. spent = MaxReplacements \/ ~ws[slots].retired
    <3>1. CASE more
      BY <1>5, <1>8, <1>16, <3>1, SpawnType
    <3>2. CASE ~more
      BY <1>b, <1>9, <3>2
    <3> QED
      BY <3>1, <3>2
  <2>5. cancel => p \in told
    BY <1>0 DEF OK, PassOK, Driven
  <2> QED
    BY <1>2, <1>11, <2>1, <2>2, <2>3, <2>4, <2>5 DEF PassOK, Before, Driven
<1> QED
  BY <1>12, <1>17, <1>18, <1>19, <1>20, PoolStep

----------------------------------------------------------------------------
(* A worker goes on.                                                       *)

\* A live worker that looks at the flags is retired or its pass was told.
LEMMA LoopEnds ==
  ASSUME PassAssumption, IInv, NEW p \in Pass, NEW i \in Slot,
         worker[p][i].pc \notin {"none", "finished"}, Loop(worker[p][i]) = "finished"
  PROVE  worker[p][i].retired \/ p \in told
<1>0. OK(p) /\ pass[p] \in PassType /\ Slot \subseteq Nat
  BY FieldTypes
<1>1. SUFFICES ASSUME ~worker[p][i].retired, cancel PROVE p \in told
  BY DEF Loop
<1>2. pass[p].pc \notin Before
  <2>1. ~(i > pass[p].slots)
    BY <1>0 DEF OK, PassOK
  <2> QED
    BY <1>0, <2>1 DEF OK, PassOK, Slot
<1>3. ~Done(worker[p][i])
  BY <1>0, <1>1 DEF OK, WorkerOK, Done
<1> QED
  BY <1>0, <1>1, <1>2, <1>3 DEF OK, PassOK, PassType

LEMMA WorkStep ==
  ASSUME PassAssumption, IInv, NEW p \in Pass, NEW i \in Slot, NEW w \in WorkerType,
         NEW r \in PassType, pass' = [pass EXCEPT ![p] = r],
         worker' = [worker EXCEPT ![p] = [worker[p] EXCEPT ![i] = w]],
         EnvOK', UNCHANGED <<told, cancel>>,
         r.pc = pass[p].pc, r.slots = pass[p].slots, r.spent = pass[p].spent,
         r.at = pass[p].at, r.seen = pass[p].seen, r.stopped = pass[p].stopped,
         r.skipped = pass[p].skipped, r.queue \subseteq pass[p].queue,
         worker[p][i].pc \notin {"none", "finished"}, w.pc # "none",
         w.retired = worker[p][i].retired, w.counted = worker[p][i].counted,
         w.refused = worker[p][i].refused,
         WorkerOK(p, r, w), w.counted /\ Blamed(pass[p]) => Blamed(r)
  PROVE  IInv'
<1>0. pass[p] \in PassType /\ worker[p] \in [Slot -> WorkerType] /\ OK(p) /\ Slot \subseteq Nat
  BY FieldTypes
<1>1. PICK ws \in [Slot -> WorkerType] : ws = [worker[p] EXCEPT ![i] = w]
  BY <1>0
<1>2. ws[i] = w /\ \A j \in Slot \ {i} : ws[j] = worker[p][j]
  BY <1>0, <1>1
<1>3. i <= pass[p].slots /\ ~(i > pass[p].slots)
  BY <1>0 DEF OK, PassOK, PassType
<1>4. pass[p].pc \notin Before
  BY <1>0, <1>3 DEF OK, PassOK, Slot
<1>5. \A j \in Slot : WorkerOK(p, r, ws[j])
  BY <1>0, <1>2 DEF OK, WorkerOK
<1>6. (\A j \in Slot : Done(worker[p][j])) => w.counted /\ \A j \in Slot : Done(ws[j])
  BY <1>2 DEF Done
<1>7. PassOK(p, r, ws)
  <2>1. \A j \in Slot : /\ ws[j].retired = worker[p][j].retired
                        /\ ws[j].refused = worker[p][j].refused
    BY <1>2
  <2>2. \A j \in Slot : j > r.slots => ws[j].pc = "none" /\ ~ws[j].counted
    BY <1>0, <1>2, <1>3 DEF OK, PassOK
  <2>3. \A j \in Slot : j <= r.slots => ws[j].pc # "none"
    BY <1>0, <1>2 DEF OK, PassOK
  <2>4. /\ r.pc \in {"harvest", "watch"} /\ r.stopped => \A j \in Slot : Done(ws[j])
        /\ r.pc = "watch" /\ r.stopped => Blamed(r)
    BY <1>0, <1>6 DEF OK, PassOK
  <2>5. r.pc = "ended" /\ p \notin told =>
          /\ Blamed(r) /\ \A j \in Slot : Done(ws[j])
          /\ r.queue # {} => r.spent = MaxReplacements \/ \E j \in Slot : ws[j].refused
    BY <1>0, <1>6, <2>1 DEF OK, PassOK
  <2> QED
    BY <1>0, <1>4, <2>1, <2>2, <2>3, <2>4, <2>5 DEF OK, PassOK
<1> QED
  BY <1>1, <1>5, <1>7, PoolStep

\* What a step of a worker finds, and leaves of the rest.
LEMMA WorkerFacts ==
  ASSUME PassAssumption, IInv, NEW p \in Pass, NEW i \in Slot
  PROVE  /\ pass[p] \in PassType /\ worker[p][i] \in WorkerType /\ EnvOK
         /\ WorkerOK(p, pass[p], worker[p][i])
         /\ pass = [pass EXCEPT ![p] = pass[p]]
<1>1. pass \in [Pass -> PassType] /\ EnvOK
  BY DEF IInv
<1>2. pass = [pass EXCEPT ![p] = pass[p]]
  BY <1>1
<1> QED
  BY <1>1, <1>2, FieldTypes DEF OK

LEMMA StartStep ==
  ASSUME PassAssumption, IInv, NEW p \in Pass, NEW i \in Slot, Start(p, i) PROVE IInv'
<1>0. /\ pass[p] \in PassType /\ worker[p][i] \in WorkerType /\ worker[p][i].pc = "loop"
      /\ WorkerOK(p, pass[p], worker[p][i]) /\ pass = [pass EXCEPT ![p] = pass[p]]
  BY WorkerFacts DEF Start
<1>1. PICK pc \in {"finished", "fetch"} : pc = Loop(worker[p][i])
  BY DEF Loop
<1>2. PICK w \in WorkerType : w = [worker[p][i] EXCEPT !.pc = pc]
  BY <1>0 DEF WorkerType, WorkerPc
<1>3. /\ w.pc = pc /\ w.on = worker[p][i].on /\ w.file = worker[p][i].file
      /\ w.counted = worker[p][i].counted /\ w.retired = worker[p][i].retired
      /\ w.refused = worker[p][i].refused
  BY <1>0, <1>2 DEF WorkerType
<1>4. worker' = [worker EXCEPT ![p] = [worker[p] EXCEPT ![i] = w]] /\ pass' = pass
  BY <1>1, <1>2 DEF Start
<1>5. EnvOK' /\ told' = told /\ cancel' = cancel
  BY EnvStays DEF Start, IInv
<1>6. pc = "finished" => w.retired \/ p \in told
  BY <1>0, <1>1, <1>3, LoopEnds
<1>7. WorkerOK(p, pass[p], w)
  BY <1>0, <1>3, <1>6 DEF WorkerOK
<1> QED
  BY <1>0, <1>3, <1>4, <1>5, <1>7, WorkStep

LEMMA FetchStep ==
  ASSUME PassAssumption, IInv, NEW p \in Pass, NEW i \in Slot, Fetch(p, i) PROVE IInv'
<1>0. /\ pass[p] \in PassType /\ worker[p][i] \in WorkerType /\ worker[p][i].pc = "fetch"
      /\ WorkerOK(p, pass[p], worker[p][i]) /\ pass = [pass EXCEPT ![p] = pass[p]] /\ EnvOK
  BY WorkerFacts DEF Fetch
<1>1. EnvOK' /\ told' = told /\ cancel' = cancel
  BY <1>0, EnvStays DEF Fetch
<1>2. CASE pass[p].queue = {}
  <2>1. PICK w \in WorkerType : w = [worker[p][i] EXCEPT !.pc = "finished"]
    BY <1>0 DEF WorkerType, WorkerPc
  <2>2. /\ w.pc = "finished" /\ w.on = worker[p][i].on /\ w.file = worker[p][i].file
        /\ w.counted = worker[p][i].counted /\ w.retired = worker[p][i].retired
        /\ w.refused = worker[p][i].refused
    BY <1>0, <2>1 DEF WorkerType
  <2>3. worker' = [worker EXCEPT ![p] = [worker[p] EXCEPT ![i] = w]] /\ pass' = pass
    BY <1>2, <2>1 DEF Fetch
  <2>4. WorkerOK(p, pass[p], w)
    BY <1>0, <1>2, <2>2 DEF WorkerOK
  <2> QED
    BY <1>0, <1>1, <2>2, <2>3, <2>4, WorkStep
<1>3. CASE pass[p].queue # {}
  <2>1. PICK f \in pass[p].queue :
          /\ pass' = [pass EXCEPT ![p].queue = @ \ {f}]
          /\ worker' = [worker EXCEPT ![p][i] = [@ EXCEPT !.pc = "analyse", !.file = f,
                                                          !.on = f, !.text = Reads(f)]]
    BY <1>3 DEF Fetch
  <2>2. f \in File /\ f # Idle /\ Reads(f) \in Nat
    BY <1>0, ReadsType DEF PassType, PassAssumption, Idle
  <2>3. PICK w \in WorkerType : w = [worker[p][i] EXCEPT !.pc = "analyse", !.file = f,
                                                         !.on = f, !.text = Reads(f)]
    BY <1>0, <2>2 DEF WorkerType, WorkerPc
  <2>4. /\ w.pc = "analyse" /\ w.on = f /\ w.file = f
        /\ w.counted = worker[p][i].counted /\ w.retired = worker[p][i].retired
        /\ w.refused = worker[p][i].refused
    BY <1>0, <2>3 DEF WorkerType
  <2>5. PICK r \in PassType : r = [pass[p] EXCEPT !.queue = pass[p].queue \ {f}]
    BY <1>0 DEF PassType
  <2>6. /\ r.pc = pass[p].pc /\ r.slots = pass[p].slots /\ r.spent = pass[p].spent
        /\ r.at = pass[p].at /\ r.seen = pass[p].seen /\ r.stopped = pass[p].stopped
        /\ r.skipped = pass[p].skipped /\ r.queue \subseteq pass[p].queue
        /\ r.results = pass[p].results
    BY <1>0, <2>5 DEF PassType
  <2>7. pass' = [pass EXCEPT ![p] = r]
    BY <2>1, <2>5
  <2>8. worker' = [worker EXCEPT ![p] = [worker[p] EXCEPT ![i] = w]]
    BY <2>1, <2>3
  <2>9. WorkerOK(p, r, w)
    BY <1>0, <2>2, <2>4, <2>6 DEF WorkerOK
  <2> QED
    BY <1>0, <1>1, <2>4, <2>6, <2>7, <2>8, <2>9, WorkStep DEF Blamed
<1> QED
  BY <1>2, <1>3

LEMMA AnalyseStep ==
  ASSUME PassAssumption, IInv, NEW p \in Pass, NEW i \in Slot, Analyse(p, i) PROVE IInv'
<1>0. /\ pass[p] \in PassType /\ worker[p][i] \in WorkerType /\ worker[p][i].pc = "analyse"
      /\ WorkerOK(p, pass[p], worker[p][i]) /\ pass = [pass EXCEPT ![p] = pass[p]]
  BY WorkerFacts DEF Analyse
<1>1. PICK w \in WorkerType : w = [worker[p][i] EXCEPT !.pc = "push", !.file = Idle]
  BY <1>0 DEF WorkerType, WorkerPc
<1>2. /\ w.pc = "push" /\ w.on = worker[p][i].on /\ w.file = Idle
      /\ w.counted = worker[p][i].counted /\ w.retired = worker[p][i].retired
      /\ w.refused = worker[p][i].refused
  BY <1>0, <1>1 DEF WorkerType
<1>3. worker' = [worker EXCEPT ![p] = [worker[p] EXCEPT ![i] = w]] /\ pass' = pass
  BY <1>1 DEF Analyse
<1>4. EnvOK' /\ told' = told /\ cancel' = cancel
  BY EnvStays DEF Analyse, IInv
<1>5. WorkerOK(p, pass[p], w)
  BY <1>0, <1>2 DEF WorkerOK
<1> QED
  BY <1>0, <1>2, <1>3, <1>4, <1>5, WorkStep

\* The result of a worker that was given up on is of a file that is blamed.
LEMMA PushStep ==
  ASSUME PassAssumption, IInv, NEW p \in Pass, NEW i \in Slot, Push(p, i) PROVE IInv'
<1>0. /\ pass[p] \in PassType /\ worker[p][i] \in WorkerType /\ worker[p][i].pc = "push"
      /\ WorkerOK(p, pass[p], worker[p][i])
  BY WorkerFacts DEF Push
<1>1. worker[p][i].on \in File /\ worker[p][i].text \in Nat
  BY <1>0 DEF WorkerOK, WorkerType
<1>2. PICK pc \in {"finished", "fetch"} : pc = Loop(worker[p][i])
  BY DEF Loop
<1>3. PICK w \in WorkerType : w = [worker[p][i] EXCEPT !.pc = pc, !.on = Idle, !.text = NoText]
  BY <1>0 DEF WorkerType, WorkerPc, NoText
<1>4. /\ w.pc = pc /\ w.on = Idle /\ w.file = worker[p][i].file
      /\ w.counted = worker[p][i].counted /\ w.retired = worker[p][i].retired
      /\ w.refused = worker[p][i].refused
  BY <1>0, <1>3 DEF WorkerType
<1>5. worker' = [worker EXCEPT ![p] = [worker[p] EXCEPT ![i] = w]]
  BY <1>2, <1>3 DEF Push
<1>6. PICK results \in SUBSET Result :
        results = IF worker[p][i].on \in Panics THEN pass[p].results
                  ELSE pass[p].results \cup {[file |-> worker[p][i].on,
                                              text |-> worker[p][i].text]}
  <2>1. [file |-> worker[p][i].on, text |-> worker[p][i].text] \in Result
    BY <1>1 DEF Result
  <2>2. pass[p].results \in SUBSET Result
    BY <1>0 DEF PassType
  <2> QED
    BY <2>1, <2>2
<1>7. PICK r \in PassType : r = [pass[p] EXCEPT !.results = results]
  BY <1>0 DEF PassType
<1>8. /\ r.pc = pass[p].pc /\ r.slots = pass[p].slots /\ r.spent = pass[p].spent
      /\ r.at = pass[p].at /\ r.seen = pass[p].seen /\ r.stopped = pass[p].stopped
      /\ r.skipped = pass[p].skipped /\ r.queue = pass[p].queue /\ r.results = results
  BY <1>0, <1>7 DEF PassType
<1>9. pass' = [pass EXCEPT ![p] = r]
  BY <1>6, <1>7 DEF Push
<1>10. EnvOK' /\ told' = told /\ cancel' = cancel
  BY EnvStays DEF Push, IInv
<1>11. pc = "finished" => w.retired \/ p \in told
  BY <1>0, <1>2, <1>4, LoopEnds
<1>12. w.counted => w.retired /\ worker[p][i].on \in pass[p].skipped
  BY <1>0, <1>4 DEF WorkerOK
<1>13. w.counted => pc = "finished"
  BY <1>2, <1>4, <1>12 DEF Loop
<1>14. WorkerOK(p, r, w)
  BY <1>0, <1>2, <1>4, <1>8, <1>11, <1>12, <1>13 DEF WorkerOK
<1>15. w.counted /\ Blamed(pass[p]) => Blamed(r)
  BY <1>6, <1>8, <1>12 DEF Blamed
<1> QED
  BY <1>0, <1>4, <1>5, <1>8, <1>9, <1>10, <1>14, <1>15, WorkStep

----------------------------------------------------------------------------
(* Every step.                                                             *)

LEMMA TypeStep == ASSUME PassAssumption, IInv, [Next]_vars PROVE IInv'
<1>1. CASE UNCHANGED vars
  <2>1. EnvOK' /\ UNCHANGED <<pass, worker, told, cancel>>
    BY <1>1 DEF IInv, EnvOK, vars, setting, texts, counters
  <2> QED
    BY <2>1, EnvStep
<1>2. ASSUME NEW f \in File, Open(f) \/ Edit(f) \/ Save(f) \/ Close(f) PROVE IInv'
  BY <1>2, EditorStep
<1>3. ASSUME NEW j \in jobs, Recomputing(j) PROVE IInv'
  BY <1>3, JobStep
<1>4. CASE Toggle \/ Reloading \/ ClearAll
  BY <1>4, SettingStep, BeginStep DEF Reloading
<1>5. ASSUME NEW p \in Pass, Beginning(p) PROVE IInv'
  BY <1>5, BeginStep, ListStep DEF Beginning
<1>6. ASSUME NEW p \in Pass, Driving(p) \/ Timeout(p) PROVE IInv'
  BY <1>6, PollStep, HarvestStep, RetireStep, ConfirmStep, CountStep, TimeoutStep DEF Driving
<1>7. ASSUME NEW p \in Pass, NEW i \in Slot, Working(p, i) \/ Analyse(p, i) PROVE IInv'
  BY <1>7, StartStep, FetchStep, PushStep, AnalyseStep DEF Working
<1> QED
  BY <1>1, <1>2, <1>3, <1>4, <1>5, <1>6, <1>7 DEF Next

LEMMA Inductive == Spec => []IInv
<1>1. Init => IInv
  BY InitOK, PassAssumption
<1>2. IInv /\ [Next]_vars => IInv'
  BY TypeStep, PassAssumption
<1> QED
  BY <1>1, <1>2, PTL DEF Spec

\* The queue, the blamed files and the replacements of a pass stay within what
\* the pool was given: a worker is replaced at most MaxReplacements times.
THEOREM TypeCorrect == Spec => []TypeOK
<1>1. IInv => TypeOK
  BY Implied, PassAssumption
<1> QED
  BY <1>1, Inductive, PTL

\* A worker that was given up on is in a file that is blamed, or at its end:
\* the flag is set before the slot is looked at a second time
\* (WorkerSlot::retire_on), so it claims no further file.
THEOREM TheStuckAreBlamed == Spec => []GivenUpIsStuck
<1>1. IInv => GivenUpIsStuck
  BY Implied, PassAssumption
<1> QED
  BY <1>1, Inductive, PTL

\* A pass that ends by itself has harvested what its workers pushed, because
\* it counts them before it harvests (drive_native_pass), and leaves files in
\* the queue only without replacements.
THEOREM ResultsAreHarvested == Spec => []NothingLost
<1>1. IInv => NothingLost
  BY Implied, PassAssumption
<1> QED
  BY <1>1, Inductive, PTL

----------------------------------------------------------------------------
(* What a closed file lacks is owed to it by a recomputation or a pass.    *)

JobOwes(j, f) == j.file = f /\ (j.pc \in {"start", "read"} \/ j.text = disk[f])
PassOwes(p, f) ==
    \/ pass[p].pc \in {"uncancel", "list"}
    \/ f \in pass[p].queue \cup pass[p].skipped
    \/ \E i \in Slot : worker[p][i].on = f /\ worker[p][i].text = disk[f]
    \/ \E r \in pass[p].results : r.file = f /\ r.text = disk[f]
Owed(f) ==
    \/ ~started \/ told # {} \/ store[f] = disk[f]
    \/ \E j \in jobs : JobOwes(j, f)
    \/ \E p \in Pass : PassOwes(p, f)
OwedInv == \A f \in File \ (odd \cup Panics) : ~IsOpen(f) => Owed(f)

LEMMA OwedAtRest == ASSUME PassAssumption, IInv, OwedInv PROVE RestIsCurrent
<1>1. SUFFICES ASSUME Over, started, NEW f \in File \ (odd \cup Panics), ~IsOpen(f), Checked(f)
               PROVE  store[f] = disk[f]
  BY DEF RestIsCurrent
<1>2. told = {} /\ jobs = {} /\ f # Idle
  BY <1>1 DEF Checked, Over, PassAssumption, Idle, IInv, EnvOK
<1>3. ASSUME NEW p \in Pass PROVE ~PassOwes(p, f)
  <2>1. OK(p) /\ pass[p].pc \in {"none", "ended"} /\ f \notin pass[p].queue \cup pass[p].skipped
    BY <1>1, FieldTypes DEF Over, Checked
  <2>2. Blamed(pass[p]) \/ pass[p].results = {}
    BY <1>2, <2>1 DEF OK, PassOK, Before
  <2>3. ASSUME NEW i \in Slot PROVE worker[p][i].on # f
    <3>1. CASE pass[p].pc = "none"
      <4>1. pass[p].slots = 0 /\ i > 0
        BY <2>1, <3>1 DEF OK, PassOK, Before, Slot
      <4>2. worker[p][i].pc = "none"
        BY <2>1, <4>1 DEF OK, PassOK
      <4> QED
        BY <1>2, <2>1, <4>2 DEF OK, WorkerOK
    <3>2. CASE pass[p].pc = "ended"
      BY <1>2, <2>1, <3>2, Implied DEF NothingLost
    <3> QED
      BY <2>1, <3>1, <3>2
  <2> QED
    BY <2>1, <2>2, <2>3 DEF PassOwes, Blamed
<1> QED
  BY <1>1, <1>2, <1>3 DEF OwedInv, Owed

\* Nothing owed is dropped.
LEMMA OwedStays ==
  ASSUME NEW f \in File, ~IsOpen(f) => Owed(f), disk'[f] = disk[f], ~IsOpen(f)' => ~IsOpen(f),
         store'[f] = store[f] \/ store'[f] = disk[f], started' => started, told \subseteq told',
         \A j \in jobs : JobOwes(j, f) => Owed(f)', \A p \in Pass : PassOwes(p, f) => Owed(f)'
  PROVE  ~IsOpen(f)' => Owed(f)'
  BY DEF Owed

\* The step of a pass, or of one of its workers, that drops nothing.
LEMMA PassKeeps ==
  ASSUME OwedInv, NEW p \in Pass, \A q \in Pass \ {p} : pass'[q] = pass[q] /\ worker'[q] = worker[q],
         UNCHANGED <<texts, store, jobs>>, started' => started, told \subseteq told', odd \subseteq odd',
         \A f \in File \ (odd' \cup Panics) : ~IsOpen(f) /\ PassOwes(p, f) => Owed(f)'
  PROVE  OwedInv'
<1>1. SUFFICES ASSUME NEW f \in File \ (odd' \cup Panics), ~IsOpen(f)' PROVE Owed(f)'
  BY DEF OwedInv
<1>2. ~IsOpen(f) /\ Owed(f) /\ disk'[f] = disk[f] /\ store'[f] = store[f]
  BY <1>1 DEF OwedInv, texts, IsOpen
<1>3. ASSUME NEW q \in Pass, PassOwes(q, f) PROVE Owed(f)'
  <2>1. CASE q = p
    BY <1>1, <1>2, <1>3, <2>1
  <2>2. CASE q # p
    <3>1. PassOwes(q, f)'
      BY <1>2, <1>3, <2>2 DEF PassOwes
    <3> QED
      BY <3>1 DEF Owed
  <2> QED
    BY <2>1, <2>2
<1>4. ASSUME NEW j \in jobs, JobOwes(j, f) PROVE Owed(f)'
  BY <1>2, <1>4 DEF Owed, JobOwes
<1> QED
  BY <1>2, <1>3, <1>4 DEF Owed

\* Passes and workers are left alone.
LEMMA OthersKeep ==
  ASSUME UNCHANGED <<pass, worker>>, NEW f \in File, disk'[f] = disk[f], NEW p \in Pass, PassOwes(p, f)
  PROVE  Owed(f)'
<1>1. PassOwes(p, f)'
  BY DEF PassOwes
<1> QED
  BY <1>1 DEF Owed

LEMMA EditorOwes ==
  ASSUME IInv, OwedInv, NEW f \in File, Open(f) \/ Edit(f) \/ Save(f) \/ Close(f)
  PROVE  OwedInv'
<1>0. /\ disk \in [File -> Nat] /\ buffer \in [File -> Nat] /\ closes \in Nat
      /\ UNCHANGED <<pass, worker, store, started, told, odd>> /\ jobs \subseteq jobs'
  BY DEF IInv, EnvOK, Open, Edit, Save, Close, setting
<1>1. \A g \in File \ {f} : disk'[g] = disk[g] /\ buffer'[g] = buffer[g]
  BY <1>0 DEF Open, Edit, Save, Close
<1>2. ASSUME NEW g \in File \ (odd \cup Panics), g # f \/ Open(f), ~IsOpen(g)' PROVE Owed(g)'
  <2>1. ~IsOpen(g) /\ Owed(g) /\ disk'[g] = disk[g]
    BY <1>0, <1>1, <1>2 DEF OwedInv, IsOpen, Open
  <2>2. \A j \in jobs : JobOwes(j, g) => Owed(g)'
    BY <1>0, <2>1 DEF JobOwes, Owed
  <2>3. \A p \in Pass : PassOwes(p, g) => Owed(g)'
    BY <1>0, <2>1, OthersKeep
  <2> QED
    BY <1>0, <1>2, <2>1, <2>2, <2>3, OwedStays
<1>3. ASSUME ~IsOpen(f)', ~Open(f) PROVE Owed(f)'
  <2>1. ~Save(f)
    BY <1>0, <1>3 DEF Save, IsOpen
  <2>2. ~Edit(f)
    <3>1. edits \in Nat
      BY DEF IInv, EnvOK
    <3> QED
      BY <1>0, <1>3, <3>1 DEF Edit, IsOpen, NoText
  <2>3. PICK j \in jobs' : j = [id |-> closes, file |-> f, pc |-> "start", text |-> NoText]
    BY <1>3, <2>1, <2>2 DEF Close
  <2>4. JobOwes(j, f)'
    BY <2>3 DEF JobOwes
  <2> QED
    BY <2>4 DEF Owed
<1> QED
  BY <1>0, <1>2, <1>3 DEF OwedInv

\* A recomputation goes on as long as it is owed, or the work is switched off.
LEMMA JobGoesOn ==
  ASSUME PassAssumption, IInv, OwedInv, NEW j \in jobs, JobStart(j) \/ JobRead(j) \/ JobCheck(j)
  PROVE  OwedInv'
<1>0. /\ UNCHANGED <<pass, worker, store, started, told, odd, disk, buffer>> /\ j \in JobType
      /\ disk \in [File -> Nat] /\ jobs \ {j} \subseteq jobs'
  BY DEF JobStart, JobRead, JobCheck, setting, texts, IInv, EnvOK, Becomes
<1>1. SUFFICES ASSUME NEW f \in File \ (odd \cup Panics), ~IsOpen(f) PROVE Owed(f)'
  BY <1>0 DEF OwedInv, IsOpen
<1>2. ASSUME JobOwes(j, f) PROVE Owed(f)'
  <2>0. j.file = f
    BY <1>2 DEF JobOwes
  <2>1. CASE JobStart(j) /\ ~started
    BY <1>0, <2>1 DEF Owed
  <2>2. CASE (JobStart(j) /\ started) \/ JobRead(j) \/ JobCheck(j)
    <3>1. PICK k \in jobs' : /\ k.file = f
                             /\ k.pc = "read" \/ k.text = disk[f]
      <4>1. CASE JobStart(j) /\ started
        <5>1. [j EXCEPT !.pc = "read"] \in jobs'
          BY <4>1 DEF JobStart, Becomes
        <5>2. [j EXCEPT !.pc = "read"].file = f /\ [j EXCEPT !.pc = "read"].pc = "read"
          BY <1>0, <2>0 DEF JobType
        <5> QED
          BY <5>1, <5>2
      <4>2. CASE JobRead(j)
        <5>1. [j EXCEPT !.pc = "check", !.text = disk[f]] \in jobs'
          BY <1>1, <2>0, <4>2 DEF JobRead, Becomes, Reads
        <5>2. /\ [j EXCEPT !.pc = "check", !.text = disk[f]].file = f
              /\ [j EXCEPT !.pc = "check", !.text = disk[f]].text = disk[f]
          BY <1>0, <2>0 DEF JobType
        <5> QED
          BY <5>1, <5>2
      <4>3. CASE JobCheck(j)
        <5>1. [j EXCEPT !.pc = "store"] \in jobs' /\ j.text = disk[f]
          BY <1>1, <1>2, <2>0, <4>3 DEF JobCheck, Becomes, JobOwes
        <5>2. [j EXCEPT !.pc = "store"].file = f /\ [j EXCEPT !.pc = "store"].text = j.text
          BY <1>0, <2>0 DEF JobType
        <5> QED
          BY <5>1, <5>2
      <4> QED
        BY <2>2, <4>1, <4>2, <4>3
    <3>2. JobOwes(k, f)'
      BY <1>0, <3>1 DEF JobOwes
    <3> QED
      BY <3>2 DEF Owed
  <2> QED
    BY <2>1, <2>2
<1>3. ASSUME NEW k \in jobs, k # j, JobOwes(k, f) PROVE Owed(f)'
  <2>1. k \in jobs' /\ JobOwes(k, f)'
    BY <1>0, <1>3 DEF JobOwes
  <2> QED
    BY <2>1 DEF Owed
<1>4. \A p \in Pass : PassOwes(p, f) => Owed(f)'
  BY <1>0, OthersKeep
<1> QED
  BY <1>0, <1>1, <1>2, <1>3, <1>4 DEF OwedInv, Owed

\* What is stored late without anything left to repair it is odd.
LEMMA JobStoreOwes ==
  ASSUME IInv, OwedInv, NEW j \in jobs, JobStore(j) PROVE OwedInv'
<1>0. /\ UNCHANGED <<pass, worker, started, told, disk, buffer>> /\ j \in JobType
      /\ store \in [File -> Nat] /\ jobs' = jobs \ {j} /\ odd \subseteq odd'
      /\ store' = [store EXCEPT ![j.file] = j.text]
  BY DEF JobStore, setting, texts, IInv, EnvOK
<1>1. SUFFICES ASSUME NEW f \in File \ (odd' \cup Panics), ~IsOpen(f)' PROVE Owed(f)'
  BY DEF OwedInv
<1>2. ~IsOpen(f) /\ Owed(f)
  BY <1>0, <1>1 DEF OwedInv, IsOpen
<1>3. ASSUME NEW k \in jobs, k # j, JobOwes(k, f) PROVE Owed(f)'
  <2>1. k \in jobs' /\ JobOwes(k, f)'
    BY <1>0, <1>3 DEF JobOwes
  <2> QED
    BY <2>1 DEF Owed
<1>4. CASE j.file = f
  <2>1. CASE j.text = disk[f]
    BY <1>0, <1>4, <2>1 DEF Owed
  <2>2. CASE j.text # disk[f]
    <3>1. ~Late(f, j.text)
      BY <1>1, <1>4 DEF JobStore
    <3>2. PICK k \in jobs : JobOwes(k, f)
      BY <1>2, <2>2, <3>1 DEF Late, Repairs, JobOwes
    <3>3. k # j
      BY <2>2, <3>2 DEF JobStore, JobOwes
    <3> QED
      BY <1>3, <3>2, <3>3
  <2> QED
    BY <2>1, <2>2
<1>5. CASE j.file # f
  <2>1. store'[f] = store[f] /\ ~JobOwes(j, f)
    BY <1>0, <1>5 DEF JobOwes
  <2>2. \A p \in Pass : PassOwes(p, f) => Owed(f)'
    BY <1>0, OthersKeep
  <2> QED
    BY <1>0, <1>2, <1>3, <2>1, <2>2 DEF Owed
<1> QED
  BY <1>4, <1>5

\* Switched off, nothing is owed; on again, a pass starts before `started`.
LEMMA SettingOwes ==
  ASSUME IInv, OwedInv, Toggle \/ StopOnReload \/ Cancel \/ ClearAll
  PROVE  OwedInv'
<1>0. /\ UNCHANGED <<pass, worker, disk, buffer, jobs>> /\ odd \subseteq odd' /\ told \subseteq told'
      /\ started' => started
  BY DEF Toggle, StopOnReload, Cancel, ClearAll, texts
<1>1. SUFFICES ASSUME NEW f \in File \ (odd' \cup Panics), ~IsOpen(f)' PROVE Owed(f)'
  BY DEF OwedInv
<1>2. ~IsOpen(f) /\ Owed(f)
  BY <1>0, <1>1 DEF OwedInv, IsOpen
<1>3. ~started' \/ store'[f] = store[f]
  BY <1>1 DEF Toggle, StopOnReload, Cancel, ClearAll, NoText
<1>4. \A p \in Pass : PassOwes(p, f) => Owed(f)'
  BY <1>0, OthersKeep
<1>5. \A j \in jobs : JobOwes(j, f) => Owed(f)'
  BY <1>0 DEF JobOwes, Owed
<1> QED
  BY <1>0, <1>2, <1>3, <1>4, <1>5 DEF Owed

\* A pass whose pc moves and whose work stays.
LEMMA PcMoves ==
  ASSUME IInv, OwedInv, NEW p \in Pass, NEW r \in PassType, pass' = [pass EXCEPT ![p] = r],
         r.pc \in {"uncancel", "list"} \/ pass[p].pc \notin {"uncancel", "list"},
         pass[p].queue \cup pass[p].skipped \subseteq r.queue \cup r.skipped,
         pass[p].results \subseteq r.results,
         \A q \in Pass \ {p} : worker'[q] = worker[q],
         \A i \in Slot : worker[p][i].on # Idle => /\ worker'[p][i].on = worker[p][i].on
                                                   /\ worker'[p][i].text = worker[p][i].text,
         PassAssumption, UNCHANGED <<texts, store, jobs, odd>>, started' => started, told \subseteq told'
  PROVE  OwedInv'
<1>1. pass'[p] = r /\ \A q \in Pass \ {p} : pass'[q] = pass[q]
  BY DEF IInv
<1>2. ASSUME NEW f \in File, PassOwes(p, f) PROVE Owed(f)'
  <2>1. disk'[f] = disk[f] /\ f # Idle
    BY DEF texts, PassAssumption, Idle
  <2>2. PassOwes(p, f)'
    BY <1>1, <1>2, <2>1 DEF PassOwes
  <2> QED
    BY <2>2 DEF Owed
<1> QED
  BY <1>1, <1>2, PassKeeps

LEMMA StartReloadOwes ==
  ASSUME PassAssumption, IInv, OwedInv, StartOnReload PROVE OwedInv'
<1>1. UNCHANGED <<texts, store, jobs, odd, worker, started, told>>
  BY DEF StartOnReload
<1>2. CASE pass' = pass
  <2>1. SUFFICES ASSUME NEW f \in File \ (odd \cup Panics), ~IsOpen(f) PROVE Owed(f)'
    BY <1>1 DEF OwedInv, IsOpen, texts
  <2> QED
    BY <1>1, <1>2, <2>1 DEF OwedInv, Owed, PassOwes, JobOwes, texts
<1>3. CASE pass' # pass
  <2>1. PICK p \in Pass : pass[p].pc = "none" /\ pass' = [pass EXCEPT ![p].pc = "config"]
    BY <1>3 DEF StartOnReload, Unused
  <2>2. pass[p] \in PassType
    BY DEF IInv
  <2>3. PICK r \in PassType : r = [pass[p] EXCEPT !.pc = "config"]
    BY <2>2 DEF PassType, Before
  <2>4. r.queue = pass[p].queue /\ r.skipped = pass[p].skipped /\ r.results = pass[p].results
    BY <2>2, <2>3 DEF PassType
  <2> QED
    BY <1>1, <2>1, <2>3, <2>4, PcMoves
<1> QED
  BY <1>2, <1>3

LEMMA BeginningOwes ==
  ASSUME PassAssumption, IInv, OwedInv, NEW p \in Pass, Beginning(p) PROVE OwedInv'
<1>0. pass[p] \in PassType /\ OK(p) /\ Slot \subseteq Nat /\ worker \in [Pass -> [Slot -> WorkerType]]
  BY FieldTypes DEF IInv
<1>1. CASE ReadConfig(p) \/ Swap(p) \/ Uncancel(p)
  <2>1. PICK pc \in {"swap", "ended", "uncancel", "list"} :
          /\ pass' = [pass EXCEPT ![p].pc = pc]
          /\ pass[p].pc = "uncancel" => pc = "list"
          /\ pass[p].pc \in {"config", "swap", "uncancel"}
          /\ started' = started \/ pc = "uncancel"
    BY <1>1 DEF ReadConfig, Swap, Uncancel, setting
  <2>2. PICK r \in PassType : r = [pass[p] EXCEPT !.pc = pc]
    BY <1>0, <2>1 DEF PassType, Before
  <2>3. /\ r.pc = pc /\ r.queue = pass[p].queue /\ r.skipped = pass[p].skipped
        /\ r.results = pass[p].results /\ pass' = [pass EXCEPT ![p] = r]
    BY <1>0, <2>1, <2>2 DEF PassType
  <2>4. UNCHANGED <<texts, store, jobs, odd, worker, told>>
    BY <1>1 DEF ReadConfig, Swap, Uncancel
  <2>5. CASE started' = started
    BY <2>1, <2>3, <2>4, <2>5, PcMoves
  <2>6. CASE pc = "uncancel"
    <3>1. pass'[p].pc = "uncancel"
      BY <2>3, <2>6 DEF IInv
    <3> QED
      BY <3>1 DEF OwedInv, Owed, PassOwes
  <2> QED
    BY <2>1, <2>5, <2>6
<1>2. CASE List(p)
  <2>1. /\ pass[p].slots = 0 /\ \A i \in Slot : worker[p][i].on = Idle
    <3>1. pass[p].slots = 0
      BY <1>0, <1>2 DEF List, OK, PassOK, Before
    <3>2. \A i \in Slot : worker[p][i].pc = "none"
      BY <1>0, <3>1 DEF OK, PassOK, Slot
    <3> QED
      BY <1>0, <3>1, <3>2 DEF OK, WorkerOK
  <2>2. /\ UNCHANGED <<texts, store, jobs, odd, told, started>>
        /\ \A q \in Pass \ {p} : worker'[q] = worker[q] /\ pass'[q] = pass[q]
        /\ pass'[p].queue = {f \in File : ~IsOpen(f)}
    BY <1>0, <1>2 DEF List, setting, IInv, PassType
  <2>3. ASSUME NEW f \in File, ~IsOpen(f) PROVE Owed(f)'
    <3>1. PassOwes(p, f)'
      BY <2>2, <2>3 DEF PassOwes
    <3> QED
      BY <3>1 DEF Owed
  <2> QED
    BY <2>2, <2>3, PassKeeps
<1> QED
  BY <1>1, <1>2 DEF Beginning

LEMMA DrivingOwes ==
  ASSUME PassAssumption, IInv, OwedInv, NEW p \in Pass,
         Poll(p) \/ Retire(p) \/ Confirm(p) \/ Count(p) \/ Timeout(p)
  PROVE  OwedInv'
<1>0. /\ pass[p] \in PassType /\ OK(p) /\ Slot \subseteq Nat /\ pass[p].slots \in Nat
      /\ worker \in [Pass -> [Slot -> WorkerType]] /\ pass \in [Pass -> PassType] /\ IInv'
  BY FieldTypes, PollStep, RetireStep, ConfirmStep, CountStep, TimeoutStep DEF IInv, PassType
<1>1. /\ UNCHANGED <<texts, store, jobs, odd, started>> /\ told \subseteq told'
  BY DEF Poll, Retire, Confirm, Count, Timeout, setting
<1>2. /\ pass[p].pc \notin {"uncancel", "list"}
      /\ pass' = [pass EXCEPT ![p] = pass'[p]] /\ pass'[p] \in PassType
      /\ pass'[p].queue = pass[p].queue /\ pass[p].skipped \subseteq pass'[p].skipped
      /\ pass'[p].results = pass[p].results
  <2>1. pass'[p] \in PassType
    BY <1>0 DEF IInv
  <2>2. CASE Poll(p)
    BY <1>0, <2>1, <2>2 DEF Poll, PassType
  <2>3. CASE Retire(p)
    BY <1>0, <2>1, <2>3 DEF Retire, PassType
  <2>4. CASE Count(p)
    BY <1>0, <2>1, <2>4 DEF Count, PassType
  <2>5. CASE Timeout(p)
    <3>1. PICK i \in Live(p) :
            /\ pass' = [pass EXCEPT ![p] = [@ EXCEPT !.pc = "retire", !.at = i,
                                                     !.seen = worker[p][i].file]]
            /\ pass[p].pc = "watch"
      BY <2>5 DEF Timeout
    <3> DEFINE t == [pass[p] EXCEPT !.pc = "retire", !.at = i, !.seen = worker[p][i].file]
    <3>a. pass' = [pass EXCEPT ![p] = t] /\ pass'[p] = t
      BY <1>0, <3>1
    <3>2. t.queue = pass[p].queue /\ t.results = pass[p].results /\ t.skipped = pass[p].skipped
      BY <1>0 DEF PassType
    <3> HIDE DEF t
    <3> QED
      BY <2>1, <3>1, <3>a, <3>2
  <2>6. CASE Confirm(p)
    <3> DEFINE t == [pass[p] EXCEPT !.pc = "watch", !.at = 0, !.seen = Idle,
                       !.skipped = IF Stuck(p) THEN pass[p].skipped \cup {pass[p].seen}
                                               ELSE pass[p].skipped,
                       !.slots = IF Budget(p) THEN pass[p].slots + 1 ELSE pass[p].slots,
                       !.spent = IF Budget(p) THEN pass[p].spent + 1 ELSE pass[p].spent]
    <3>1. pass' = [pass EXCEPT ![p] = t] /\ pass[p].pc = "confirm"
      BY <2>6, Zenon DEF Confirm
    <3>2. pass'[p] = t
      BY <1>0, <3>1
    <3>3. t.queue = pass[p].queue /\ t.results = pass[p].results /\ pass[p].skipped \subseteq t.skipped
      BY <1>0 DEF PassType
    <3> HIDE DEF t
    <3> QED
      BY <2>1, <3>1, <3>2, <3>3
  <2> QED
    BY <2>2, <2>3, <2>4, <2>5, <2>6
<1>3. \A q \in Pass \ {p} : worker'[q] = worker[q]
  BY <1>0 DEF Poll, Retire, Confirm, Count, Timeout
<1>4. ASSUME NEW i \in Slot, worker[p][i].on # Idle
      PROVE  worker'[p][i].on = worker[p][i].on /\ worker'[p][i].text = worker[p][i].text
  <2>0. worker[p][i] \in WorkerType
    BY <1>0
  <2>1. CASE Poll(p) \/ Count(p) \/ Timeout(p)
    BY <2>1 DEF Poll, Count, Timeout
  <2>2. CASE Retire(p)
    BY <1>0, <2>0, <2>2 DEF Retire, WorkerType
  <2>3. CASE Confirm(p)
    <3>1. i # pass[p].slots + 1
      <4>1. i = pass[p].slots + 1 => worker[p][i].pc = "none"
        BY <1>0 DEF OK, PassOK
      <4> QED
        BY <1>0, <1>4, <4>1 DEF OK, WorkerOK
    <3>2. worker'[p][i] \in {worker[p][i], [worker[p][i] EXCEPT !.counted = TRUE]}
      BY <1>0, <2>3, <3>1 DEF Confirm
    <3> QED
      BY <2>0, <3>2 DEF WorkerType
  <2> QED
    BY <2>1, <2>2, <2>3
<1> QED
  BY <1>1, <1>2, <1>3, <1>4, PcMoves

\* The result that is stored is one of the text on disk, or it is odd, or a
\* recomputation will repair it.
LEMMA HarvestOwes ==
  ASSUME PassAssumption, IInv, OwedInv, NEW p \in Pass, Harvest(p) PROVE OwedInv'
<1>0. /\ pass \in [Pass -> PassType] /\ pass[p] \in PassType
      /\ UNCHANGED <<texts, worker, jobs, told, started>>
  BY DEF Harvest, IInv, setting
<1> DEFINE kept == {r \in pass[p].results : ~IsOpen(r.file)}
<1>1. /\ store' = [f \in File |-> IF \E r \in kept : r.file = f
                                  THEN (CHOOSE r \in kept : r.file = f).text ELSE store[f]]
      /\ odd' = odd \cup {r.file : r \in {r \in kept : Late(r.file, r.text)}}
  BY DEF Harvest
<1>2. /\ pass'[p].queue = pass[p].queue /\ pass'[p].skipped = pass[p].skipped
      /\ pass[p].pc = "harvest" /\ \A q \in Pass \ {p} : pass'[q] = pass[q]
  BY <1>0 DEF Harvest, PassType
<1>3. SUFFICES ASSUME NEW f \in File \ (odd' \cup Panics), ~IsOpen(f)' PROVE Owed(f)'
  BY DEF OwedInv
<1>4. ~IsOpen(f) /\ Owed(f) /\ disk' = disk
  BY <1>0, <1>1, <1>3 DEF OwedInv, IsOpen, texts
<1>5. ASSUME NEW j \in jobs, JobOwes(j, f) PROVE Owed(f)'
  BY <1>0, <1>4, <1>5 DEF Owed, JobOwes
<1>6. CASE \E r \in pass[p].results : r.file = f
  <2>1. PICK r \in kept : r.file = f /\ store'[f] = r.text
    <3>1. \E r \in kept : r.file = f
      BY <1>4, <1>6
    <3> DEFINE c == CHOOSE r \in kept : r.file = f
    <3>2. c \in kept /\ c.file = f
      BY <3>1
    <3>3. store'[f] = c.text
      BY <1>1, <3>1
    <3> QED
      BY <3>2, <3>3
  <2>2. ~Late(f, r.text)
    BY <1>1, <1>3, <2>1
  <2>3. CASE r.text = disk[f]
    BY <1>4, <2>1, <2>3 DEF Owed
  <2>4. CASE r.text # disk[f]
    <3>1. \E j \in jobs : JobOwes(j, f)
      BY <1>4, <2>2, <2>4 DEF Late, Repairs, JobOwes
    <3> QED
      BY <1>5, <3>1
  <2> QED
    BY <2>3, <2>4
<1>7. CASE ~\E r \in pass[p].results : r.file = f
  <2>1. store'[f] = store[f]
    BY <1>1, <1>7
  <2>2. ASSUME NEW q \in Pass, PassOwes(q, f) PROVE Owed(f)'
    <3>1. PassOwes(q, f)'
      <4>1. CASE q = p
        BY <1>0, <1>2, <1>4, <1>7, <2>2, <4>1 DEF PassOwes
      <4>2. CASE q # p
        BY <1>0, <1>2, <1>4, <2>2, <4>2 DEF PassOwes
      <4> QED
        BY <4>1, <4>2
    <3> QED
      BY <3>1 DEF Owed
  <2> QED
    BY <1>0, <1>4, <1>5, <2>1, <2>2 DEF Owed
<1> QED
  BY <1>6, <1>7

\* The file that is claimed is read, and its result pushed.
LEMMA WorkingOwes ==
  ASSUME PassAssumption, IInv, OwedInv, NEW p \in Pass, NEW i \in Slot,
         Working(p, i) \/ Analyse(p, i)
  PROVE  OwedInv'
<1> DEFINE w == worker[p][i]
<1>0. /\ pass \in [Pass -> PassType] /\ pass[p] \in PassType /\ w \in WorkerType
      /\ worker \in [Pass -> [Slot -> WorkerType]] /\ WorkerOK(p, pass[p], w)
      /\ UNCHANGED <<texts, store, jobs, odd, told, started>>
  BY WorkerFacts DEF Working, Start, Fetch, Push, Analyse, IInv, setting
<1>1. /\ \A q \in Pass \ {p} : pass'[q] = pass[q] /\ worker'[q] = worker[q]
      /\ \A k \in Slot \ {i} : worker'[p][k] = worker[p][k]
  <2>1. CASE Start(p, i)
    BY <1>0, <2>1 DEF Start
  <2>2. CASE Fetch(p, i)
    <3>1. CASE pass[p].queue = {}
      BY <1>0, <2>2, <3>1 DEF Fetch
    <3>2. CASE pass[p].queue # {}
      <4>1. PICK g \in pass[p].queue :
              /\ pass' = [pass EXCEPT ![p].queue = @ \ {g}]
              /\ worker' = [worker EXCEPT ![p][i] = [@ EXCEPT !.pc = "analyse", !.file = g,
                                                              !.on = g, !.text = Reads(g)]]
        BY <2>2, <3>2 DEF Fetch
      <4> QED
        BY <1>0, <4>1
    <3> QED
      BY <3>1, <3>2
  <2>3. CASE Push(p, i)
    BY <1>0, <2>3 DEF Push
  <2>4. CASE Analyse(p, i)
    BY <1>0, <2>4 DEF Analyse
  <2> QED
    BY <2>1, <2>2, <2>3, <2>4 DEF Working
<1>b. ASSUME \A f \in File \ (odd \cup Panics) : ~IsOpen(f) /\ PassOwes(p, f) => PassOwes(p, f)'
      PROVE  OwedInv'
  <2>1. \A f \in File \ (odd' \cup Panics) : ~IsOpen(f) /\ PassOwes(p, f) => Owed(f)'
    BY <1>0, <1>b DEF Owed
  <2>2. /\ UNCHANGED <<texts, store, jobs>> /\ (started' => started)
        /\ told \subseteq told' /\ odd \subseteq odd'
    BY <1>0
  <2> QED
    BY <1>1, <2>1, <2>2, PassKeeps
<1>2. SUFFICES ASSUME NEW f \in File \ (odd \cup Panics), ~IsOpen(f), PassOwes(p, f) PROVE PassOwes(p, f)'
  BY <1>b
<1>a. f # Idle /\ disk'[f] = disk[f]
  BY <1>0 DEF PassAssumption, Idle, texts
<1>3. CASE Start(p, i) \/ Analyse(p, i)
  <2>1. pass' = pass /\ worker'[p][i].on = w.on /\ worker'[p][i].text = w.text
    BY <1>0, <1>3 DEF Start, Analyse, WorkerType
  <2> QED
    BY <1>1, <1>2, <1>a, <2>1 DEF PassOwes
<1>4. CASE Fetch(p, i)
  <2>1. w.on = Idle
    BY <1>0, <1>4 DEF Fetch, WorkerOK
  <2>2. CASE pass[p].queue = {}
    <3>1. pass' = pass
      BY <1>4, <2>2 DEF Fetch
    <3> QED
      BY <1>1, <1>2, <1>a, <2>1, <3>1 DEF PassOwes
  <2>3. CASE pass[p].queue # {}
    <3>1. PICK g \in pass[p].queue :
            /\ pass' = [pass EXCEPT ![p].queue = @ \ {g}]
            /\ worker' = [worker EXCEPT ![p][i] = [@ EXCEPT !.pc = "analyse", !.file = g,
                                                            !.on = g, !.text = Reads(g)]]
      BY <2>3, <1>4 DEF Fetch
    <3>2. worker'[p][i].on = g /\ worker'[p][i].text = Reads(g)
      BY <1>0, <3>1 DEF WorkerType
    <3>3. /\ pass'[p].pc = pass[p].pc /\ pass'[p].queue = pass[p].queue \ {g}
          /\ pass'[p].skipped = pass[p].skipped /\ pass'[p].results = pass[p].results
      BY <1>0, <3>1 DEF PassType
    <3>4. g = f => worker'[p][i].text = disk[f]
      BY <1>2, <3>2 DEF Reads
    <3> QED
      BY <1>1, <1>2, <1>a, <2>1, <3>2, <3>3, <3>4 DEF PassOwes
  <2> QED
    BY <2>2, <2>3
<1>5. CASE Push(p, i)
  <2>1. /\ pass'[p].pc = pass[p].pc /\ pass'[p].queue = pass[p].queue
        /\ pass'[p].skipped = pass[p].skipped
        /\ pass'[p].results = IF w.on \in Panics THEN pass[p].results
                              ELSE pass[p].results \cup {[file |-> w.on, text |-> w.text]}
    BY <1>0, <1>5 DEF Push, PassType
  <2>2. CASE w.on = f /\ w.text = disk[f]
    <3>1. PICK r \in pass'[p].results : r = [file |-> f, text |-> disk[f]]
      BY <1>2, <2>1, <2>2
    <3>2. r.file = f /\ r.text = disk'[f]
      BY <1>a, <3>1
    <3> QED
      BY <3>2 DEF PassOwes
  <2>3. CASE ~(w.on = f /\ w.text = disk[f])
    BY <1>1, <1>2, <1>a, <2>1, <2>3 DEF PassOwes
  <2> QED
    BY <2>2, <2>3
<1> QED
  BY <1>3, <1>4, <1>5 DEF Working

LEMMA OwedStep == ASSUME PassAssumption, IInv, OwedInv, [Next]_vars PROVE OwedInv'
<1>1. CASE UNCHANGED vars
  <2>1. UNCHANGED <<disk, buffer, store, pass, worker, jobs, started, told, odd>>
    BY <1>1 DEF vars, setting, texts
  <2> QED
    BY <2>1 DEF OwedInv, Owed, JobOwes, PassOwes, IsOpen
<1>2. ASSUME NEW f \in File, Open(f) \/ Edit(f) \/ Save(f) \/ Close(f) PROVE OwedInv'
  BY <1>2, EditorOwes
<1>3. ASSUME NEW j \in jobs, Recomputing(j) PROVE OwedInv'
  BY <1>3, JobGoesOn, JobStoreOwes DEF Recomputing
<1>4. CASE Toggle \/ Reloading \/ ClearAll
  BY <1>4, SettingOwes, StartReloadOwes DEF Reloading
<1>5. ASSUME NEW p \in Pass, Beginning(p) PROVE OwedInv'
  BY <1>5, BeginningOwes
<1>6. ASSUME NEW p \in Pass, Driving(p) \/ Timeout(p) PROVE OwedInv'
  BY <1>6, DrivingOwes, HarvestOwes DEF Driving
<1>7. ASSUME NEW p \in Pass, NEW i \in Slot, Working(p, i) \/ Analyse(p, i) PROVE OwedInv'
  BY <1>7, WorkingOwes
<1> QED
  BY <1>1, <1>2, <1>3, <1>4, <1>5, <1>6, <1>7 DEF Next

\* With everything over, what is stored for a closed file that no pass gave up
\* on is of its text on disk: a close asks for a recomputation from disk
\* (recompute_workspace_diags_for_closed_file), a pass lists what is closed, and
\* neither drops a file on the way.
THEOREM ClosedFilesRestCurrent == Spec => []RestIsCurrent
<1>1. Init => OwedInv
  BY DEF Init, OwedInv, Owed
<1>2. IInv /\ OwedInv /\ [Next]_vars => OwedInv'
  BY OwedStep, PassAssumption
<1>3. IInv /\ OwedInv => RestIsCurrent
  BY OwedAtRest, PassAssumption
<1> QED
  BY <1>1, <1>2, <1>3, Inductive, PTL DEF Spec

=============================================================================
