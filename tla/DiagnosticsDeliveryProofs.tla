--------------------- MODULE DiagnosticsDeliveryProofs ---------------------
(***************************************************************************)
(* What holds of DiagnosticsDelivery for every value of its constants:     *)
(* type correctness, that `Unchanged` is only answered for the set the     *)
(* client holds, that the worker never sleeps through a request, and, of   *)
(* the files opened after startup and not closed since, that they rest     *)
(* fresh and that their merges only move forward.                          *)
(***************************************************************************)
EXTENDS DiagnosticsDelivery, TLAPS

-----------------------------------------------------------------------------
(* Type correctness, one lemma per action: the parts of TypeOK the action  *)
(* touches, then the ones it leaves alone.                                 *)

LEMMA ScheduleType ==
    ASSUME NEW by \in Caller, NEW v \in Nat, NEW S \in SUBSET File,
           calls \subseteq Call, Schedule(by, v, S)
    PROVE  calls' \subseteq Call
  BY DEF Schedule, Call

LEMMA OpenType ==
    ASSUME TypeOK, NEW f \in File, Open(f)
    PROVE  TypeOK'
<1>1. DocumentTypes'
  BY DEF TypeOK, DocumentTypes, Open, HandlerStep, docVars, loopVars,
        parseVars
<1>2. QueueTypes'
  <2>1. calls' \subseteq Call
    BY ScheduleType DEF TypeOK, QueueTypes, Open, Caller
  <2> QED  BY <2>1 DEF TypeOK, QueueTypes, Open, workerVars
<1>3. ClientTypes'
  BY DEF TypeOK, ClientTypes, Open, Touched, clientVars, refreshVars
<1>4. TaskTypes' /\ CacheTypes'
  BY DEF TypeOK, Open, TaskTypes, CacheTypes, sourceVars, fullVars
<1> QED  BY <1>1, <1>2, <1>3, <1>4 DEF TypeOK

LEMMA EditType ==
    ASSUME TypeOK, NEW f \in File, Edit(f)
    PROVE  TypeOK'
<1>1. DocumentTypes'
  BY DEF TypeOK, DocumentTypes, Edit, docVars, loopVars, parseVars
<1>2. ClientTypes'
  BY DEF TypeOK, ClientTypes, Edit, Touched, clientVars, refreshVars
<1>3. QueueTypes' /\ TaskTypes' /\ CacheTypes'
  BY DEF TypeOK, Edit, QueueTypes, TaskTypes, CacheTypes, queueVars,
        workerVars, sourceVars, fullVars
<1> QED  BY <1>1, <1>2, <1>3 DEF TypeOK

LEMMA SaveType ==
    ASSUME TypeOK, NEW f \in File, Save(f)
    PROVE  TypeOK'
<1>1. DocumentTypes'
  BY DEF TypeOK, DocumentTypes, Save, HandlerStep, parseVars
<1>2. QueueTypes'
  <2>1. calls' \subseteq Call
    BY ScheduleType DEF TypeOK, QueueTypes, Save, Caller
  <2> QED  BY <2>1 DEF TypeOK, QueueTypes, DocumentTypes, Save, workerVars
<1>3. TaskTypes' /\ CacheTypes' /\ ClientTypes'
  BY DEF TypeOK, Save, TaskTypes, CacheTypes, ClientTypes, sourceVars,
        fullVars, clientVars, refreshVars
<1> QED  BY <1>1, <1>2, <1>3 DEF TypeOK

LEMMA SaveAffectsType ==
    ASSUME TypeOK, SaveAffects
    PROVE  TypeOK'
<1>1. DocumentTypes'
  BY DEF TypeOK, DocumentTypes, SaveAffects, HandlerStep, OpenFiles, docVars,
        parseVars
<1>2. QueueTypes' /\ TaskTypes' /\ CacheTypes' /\ ClientTypes'
  BY DEF TypeOK, SaveAffects, QueueTypes, TaskTypes, CacheTypes, ClientTypes,
        queueVars, workerVars, sourceVars, fullVars, clientVars, refreshVars
<1> QED  BY <1>1, <1>2 DEF TypeOK

LEMMA CloseType ==
    ASSUME TypeOK, NEW f \in File, Close(f)
    PROVE  TypeOK'
<1>1. DocumentTypes'
  BY DEF TypeOK, DocumentTypes, Close, HandlerStep, docVars, loopVars,
        parseVars
<1>2. ClientTypes'
  BY DEF TypeOK, ClientTypes, Close, clientVars, refreshVars
<1>3. QueueTypes' /\ TaskTypes' /\ CacheTypes'
  BY DEF TypeOK, Close, QueueTypes, TaskTypes, CacheTypes, queueVars,
        workerVars, sourceVars, fullVars
<1> QED  BY <1>1, <1>2, <1>3 DEF TypeOK

LEMMA ParseCheckType ==
    ASSUME TypeOK, NEW t \in parses \cup committing, ParseCheck(t)
    PROVE  TypeOK'
<1>1. DocumentTypes'
  BY DEF TypeOK, DocumentTypes, ParseCheck, docVars, loopVars, parseVars
<1>2. QueueTypes' /\ TaskTypes' /\ CacheTypes' /\ ClientTypes'
  BY DEF TypeOK, ParseCheck, QueueTypes, TaskTypes, CacheTypes, ClientTypes,
        queueVars, workerVars, sourceVars, fullVars, clientVars, refreshVars
<1> QED  BY <1>1, <1>2 DEF TypeOK

LEMMA ParseCommitType ==
    ASSUME TypeOK, NEW t \in parses \cup committing, ParseCommit(t)
    PROVE  TypeOK'
<1>1. DocumentTypes'
  BY DEF TypeOK, DocumentTypes, ParseCommit, docVars, loopVars, parseVars
<1>2. QueueTypes'
  <2>1. t[1] \in File /\ t[2] \in Nat
    BY DEF TypeOK, DocumentTypes
  <2>2. calls' \subseteq Call
    BY <2>1, ScheduleType DEF TypeOK, QueueTypes, ParseCommit, Caller
  <2> QED  BY <2>2 DEF TypeOK, QueueTypes, ParseCommit, workerVars
<1>3. TaskTypes' /\ CacheTypes' /\ ClientTypes'
  BY DEF TypeOK, ParseCommit, TaskTypes, CacheTypes, ClientTypes, sourceVars,
        fullVars, clientVars, refreshVars
<1> QED  BY <1>1, <1>2, <1>3 DEF TypeOK

LEMMA SaveInvalidateType ==
    ASSUME TypeOK, SaveInvalidate
    PROVE  TypeOK'
<1>1. DocumentTypes'
  BY DEF TypeOK, DocumentTypes, SaveInvalidate, HandlerStep, docVars,
        loopVars, parseVars
<1>2. CacheTypes'
  BY DEF TypeOK, CacheTypes, SaveInvalidate, sourceVars, fullVars
<1>3. QueueTypes' /\ TaskTypes' /\ ClientTypes'
  BY DEF TypeOK, SaveInvalidate, QueueTypes, TaskTypes, ClientTypes,
        queueVars, workerVars, clientVars, refreshVars
<1> QED  BY <1>1, <1>2, <1>3 DEF TypeOK

LEMMA SaveRequeueType ==
    ASSUME TypeOK, SaveRequeue
    PROVE  TypeOK'
<1>1. DocumentTypes'
  BY DEF TypeOK, DocumentTypes, SaveRequeue, HandlerStep, docVars, parseVars
<1>2. QueueTypes'
  <2>1. calls' \subseteq Call
    BY ScheduleType DEF TypeOK, DocumentTypes, QueueTypes, SaveRequeue, Caller
  <2> QED  BY <2>1 DEF TypeOK, QueueTypes, SaveRequeue, DocumentTypes, workerVars
<1>3. TaskTypes' /\ CacheTypes' /\ ClientTypes'
  BY DEF TypeOK, SaveRequeue, TaskTypes, CacheTypes, ClientTypes, sourceVars,
        fullVars, clientVars, refreshVars
<1> QED  BY <1>1, <1>2, <1>3 DEF TypeOK

LEMMA CloseCachesType ==
    ASSUME TypeOK, CloseCaches
    PROVE  TypeOK'
<1>1. DocumentTypes'
  BY DEF TypeOK, DocumentTypes, CloseCaches, HandlerStep, docVars, loopVars,
        parseVars
<1>2. QueueTypes'
  BY DEF TypeOK, QueueTypes, CloseCaches, Without, queueVars, workerVars
<1>3. CacheTypes'
  BY DEF TypeOK, CacheTypes, CloseCaches, Without, sourceVars, fullVars
<1>4. TaskTypes' /\ ClientTypes'
  BY DEF TypeOK, CloseCaches, TaskTypes, ClientTypes, clientVars, refreshVars
<1> QED  BY <1>1, <1>2, <1>3, <1>4 DEF TypeOK

LEMMA CloseFullType ==
    ASSUME TypeOK, CloseFull
    PROVE  TypeOK'
<1>1. DocumentTypes'
  BY DEF TypeOK, DocumentTypes, CloseFull, HandlerStep, docVars, loopVars,
        parseVars
<1>2. CacheTypes'
  BY DEF TypeOK, CacheTypes, CloseFull, sourceVars, fullVars
<1>3. QueueTypes' /\ TaskTypes' /\ ClientTypes'
  BY DEF TypeOK, CloseFull, QueueTypes, TaskTypes, ClientTypes, queueVars,
        workerVars, clientVars, refreshVars
<1> QED  BY <1>1, <1>2, <1>3 DEF TypeOK

LEMMA ClosePublishType ==
    ASSUME TypeOK, ClosePublish
    PROVE  TypeOK'
<1>1. DocumentTypes'
  BY DEF TypeOK, DocumentTypes, ClosePublish, HandlerStep, docVars, loopVars,
        parseVars
<1>2. ClientTypes'
  BY DEF TypeOK, ClientTypes, ClosePublish, SignalRefresh, EmptySet,
        MergedSet, DocumentTypes, clientVars, refreshVars
<1>3. QueueTypes' /\ TaskTypes' /\ CacheTypes'
  BY DEF TypeOK, ClosePublish, QueueTypes, TaskTypes, CacheTypes, queueVars,
        workerVars, sourceVars, fullVars
<1> QED  BY <1>1, <1>2, <1>3 DEF TypeOK

LEMMA BecomeReadyType ==
    ASSUME TypeOK, BecomeReady
    PROVE  TypeOK'
<1>1. QueueTypes'
  BY DEF TypeOK, QueueTypes, BecomeReady, queueVars, workerVars
<1>2. DocumentTypes' /\ TaskTypes' /\ CacheTypes' /\ ClientTypes'
  BY DEF TypeOK, BecomeReady, DocumentTypes, TaskTypes, CacheTypes,
        ClientTypes, docVars, loopVars, parseVars, sourceVars, fullVars,
        clientVars, refreshVars
<1> QED  BY <1>1, <1>2 DEF TypeOK

LEMMA CatchUpSnapshotType ==
    ASSUME TypeOK, CatchUpSnapshot
    PROVE  TypeOK'
<1>1. QueueTypes'
  BY DEF TypeOK, QueueTypes, CatchUpSnapshot, DocumentTypes, OpenFiles,
        Passer, queueVars, workerVars
<1>2. DocumentTypes' /\ TaskTypes' /\ CacheTypes' /\ ClientTypes'
  BY DEF TypeOK, CatchUpSnapshot, DocumentTypes, TaskTypes, CacheTypes,
        ClientTypes, docVars, loopVars, parseVars, sourceVars, fullVars,
        clientVars, refreshVars
<1> QED  BY <1>1, <1>2 DEF TypeOK

LEMMA WorkerWakeType ==
    ASSUME TypeOK, WorkerWake
    PROVE  TypeOK'
<1>1. QueueTypes'
  BY DEF TypeOK, QueueTypes, WorkerWake, queueVars, workerVars
<1>2. DocumentTypes' /\ TaskTypes' /\ CacheTypes' /\ ClientTypes'
  BY DEF TypeOK, WorkerWake, DocumentTypes, TaskTypes, CacheTypes,
        ClientTypes, docVars, loopVars, parseVars, sourceVars, fullVars,
        clientVars, refreshVars
<1> QED  BY <1>1, <1>2 DEF TypeOK

LEMMA WorkerDebounceType ==
    ASSUME TypeOK, WorkerDebounce
    PROVE  TypeOK'
<1>1. QueueTypes'
  BY DEF TypeOK, QueueTypes, WorkerDebounce, queueVars, workerVars
<1>2. DocumentTypes' /\ TaskTypes' /\ CacheTypes' /\ ClientTypes'
  BY DEF TypeOK, WorkerDebounce, DocumentTypes, TaskTypes, CacheTypes,
        ClientTypes, docVars, loopVars, parseVars, sourceVars, fullVars,
        clientVars, refreshVars
<1> QED  BY <1>1, <1>2 DEF TypeOK

LEMMA WorkerTakeType ==
    ASSUME TypeOK, WorkerTake
    PROVE  TypeOK'
<1>1. QueueTypes'
  BY DEF TypeOK, QueueTypes, WorkerTake, Passer, queueVars, workerVars
<1>2. DocumentTypes' /\ TaskTypes' /\ CacheTypes' /\ ClientTypes'
  BY DEF TypeOK, WorkerTake, DocumentTypes, TaskTypes, CacheTypes,
        ClientTypes, docVars, loopVars, parseVars, sourceVars, fullVars,
        clientVars, refreshVars
<1> QED  BY <1>1, <1>2 DEF TypeOK

LEMMA WorkerDoneType ==
    ASSUME TypeOK, WorkerDone
    PROVE  TypeOK'
<1>1. QueueTypes'
  BY DEF TypeOK, QueueTypes, WorkerDone, queueVars, workerVars
<1>2. DocumentTypes' /\ TaskTypes' /\ CacheTypes' /\ ClientTypes'
  BY DEF TypeOK, WorkerDone, DocumentTypes, TaskTypes, CacheTypes,
        ClientTypes, docVars, loopVars, parseVars, sourceVars, fullVars,
        clientVars, refreshVars
<1> QED  BY <1>1, <1>2 DEF TypeOK

LEMMA NextFileType ==
    ASSUME TypeOK, NEW p \in Passer, NEW f \in File, NextFile(p, f)
    PROVE  TypeOK'
<1>1. QueueTypes'
  <2>1. todo' \in [Passer -> SUBSET File] /\ startup' = startup
        /\ workerPc' = workerPc /\ fullRequested' = fullRequested
    BY DEF TypeOK, QueueTypes, NextFile
  <2>2. CASE p = "catchup"
    <3>1. Schedule("catchup", 0, {f}) /\ snap' = [snap EXCEPT ![f] = 0]
      BY <2>2 DEF NextFile
    <3>2. calls' \subseteq Call
      BY <3>1, ScheduleType DEF TypeOK, QueueTypes, Caller
    <3> QED  BY <2>1, <3>1, <3>2 DEF TypeOK, QueueTypes, NextFile
  <2>3. CASE p # "catchup"
    BY <2>1, <2>3 DEF TypeOK, QueueTypes, NextFile
  <2> QED  BY <2>2, <2>3
<1>2. TaskTypes'
  BY DEF TypeOK, TaskTypes, NextFile, DocumentTypes, QueueTypes, Task, Step,
        Holding, Merger, Passer
<1>3. DocumentTypes' /\ CacheTypes' /\ ClientTypes'
  BY DEF TypeOK, NextFile, DocumentTypes, CacheTypes, ClientTypes, docVars,
        loopVars, parseVars, sourceVars, fullVars, clientVars, refreshVars
<1> QED  BY <1>1, <1>2, <1>3 DEF TypeOK

LEMMA PassBeginType ==
    ASSUME TypeOK, NEW p \in Passer, NEW f \in File, PassBegin(p, f)
    PROVE  TypeOK'
<1>1. QueueTypes'
  BY DEF TypeOK, QueueTypes, PassBegin, queueVars, workerVars
<1>2. TaskTypes'
  BY DEF TypeOK, TaskTypes, PassBegin, QueueTypes, Task, Step, Holding,
        Merger, Passer
<1>3. DocumentTypes' /\ CacheTypes' /\ ClientTypes'
  BY DEF TypeOK, PassBegin, DocumentTypes, CacheTypes, ClientTypes, docVars,
        loopVars, parseVars, sourceVars, fullVars, clientVars, refreshVars
<1> QED  BY <1>1, <1>2, <1>3 DEF TypeOK

LEMMA BlockingStepType ==
    ASSUME TypeOK, NEW p \in Passer, NEW f \in File, BlockingStep(p, f)
    PROVE  TypeOK'
<1>1. TaskTypes'
  BY DEF TypeOK, TaskTypes, BlockingStep, Task, Step, Holding, Merger, Passer
<1>2. DocumentTypes' /\ QueueTypes' /\ CacheTypes' /\ ClientTypes'
  BY DEF TypeOK, BlockingStep, DocumentTypes, QueueTypes, CacheTypes,
        ClientTypes, docVars, loopVars, parseVars, queueVars, workerVars,
        sourceVars, fullVars, clientVars, refreshVars
<1> QED  BY <1>1, <1>2 DEF TypeOK

LEMMA CheckFastType ==
    ASSUME TypeOK, NEW p \in Passer, NEW f \in File, CheckFast(p, f)
    PROVE  TypeOK'
<1>1. TaskTypes'
  BY DEF TypeOK, TaskTypes, CheckFast, IfOpen, Idle, EmptySet, MergedSet,
        Task, Step, Holding, Merger, Passer
<1>2. DocumentTypes' /\ QueueTypes' /\ CacheTypes' /\ ClientTypes'
  BY DEF TypeOK, CheckFast, DocumentTypes, QueueTypes, CacheTypes,
        ClientTypes, docVars, loopVars, parseVars, queueVars, workerVars,
        sourceVars, fullVars, clientVars, refreshVars
<1> QED  BY <1>1, <1>2 DEF TypeOK

LEMMA StoreFastType ==
    ASSUME TypeOK, NEW p \in Passer, NEW f \in File, StoreFast(p, f)
    PROVE  TypeOK'
<1>1. TaskTypes'
  BY DEF TypeOK, TaskTypes, StoreFast, Task, Step, Holding, Merger, Passer
<1>2. CacheTypes'
  BY DEF TypeOK, CacheTypes, StoreFast, TaskTypes, Task, Merger, Passer,
        sourceVars, fullVars
<1>3. DocumentTypes' /\ QueueTypes' /\ ClientTypes'
  BY DEF TypeOK, StoreFast, DocumentTypes, QueueTypes, ClientTypes, docVars,
        loopVars, parseVars, queueVars, workerVars, clientVars, refreshVars
<1> QED  BY <1>1, <1>2, <1>3 DEF TypeOK

LEMMA AwaitType ==
    ASSUME TypeOK, NEW p \in Passer, NEW f \in File, Await(p, f)
    PROVE  TypeOK'
<1>1. QueueTypes'
  BY DEF TypeOK, QueueTypes, Await, TaskTypes, Task, Merger, Passer,
        queueVars, workerVars
<1>2. TaskTypes'
  BY DEF TypeOK, TaskTypes, Await, IfOpen, Idle, EmptySet, MergedSet, Task,
        Step, Holding, Merger, Passer
<1>3. DocumentTypes' /\ CacheTypes' /\ ClientTypes'
  BY DEF TypeOK, Await, DocumentTypes, CacheTypes, ClientTypes, docVars,
        loopVars, parseVars, sourceVars, fullVars, clientVars, refreshVars
<1> QED  BY <1>1, <1>2, <1>3 DEF TypeOK

LEMMA StoreSlowType ==
    ASSUME TypeOK, NEW p \in Passer, NEW f \in File, StoreSlow(p, f)
    PROVE  TypeOK'
<1>1. TaskTypes'
  BY DEF TypeOK, TaskTypes, StoreSlow, Task, Step, Holding, Merger, Passer
<1>2. CacheTypes'
  BY DEF TypeOK, CacheTypes, StoreSlow, TaskTypes, Task, Merger, Passer,
        sourceVars, fullVars
<1>3. DocumentTypes' /\ QueueTypes' /\ ClientTypes'
  BY DEF TypeOK, StoreSlow, DocumentTypes, QueueTypes, ClientTypes, docVars,
        loopVars, parseVars, queueVars, workerVars, clientVars, refreshVars
<1> QED  BY <1>1, <1>2, <1>3 DEF TypeOK

LEMMA ToolStartType ==
    ASSUME TypeOK, NEW f \in File, ToolStart(f)
    PROVE  TypeOK'
<1>1. TaskTypes'
  <2>1. ASSUME NEW t \in Task, NEW c \in Nat
        PROVE  [t EXCEPT !.pc = "run", !.job = {f}, !.content = c] \in Task
    <3>1. [t EXCEPT !.pc = "run"] \in Task
      BY <2>1 DEF Task, Step
    <3>2. ASSUME NEW u \in Task PROVE [u EXCEPT !.job = {f}, !.content = c] \in Task
      BY <2>1, <3>2 DEF Task
    <3> QED  BY <3>1, <3>2
  <2>2. "tool" \in Merger /\ text[f] \in Nat /\ task["tool"] \in Task
    BY DEF Merger, TypeOK, DocumentTypes, TaskTypes
  <2> DEFINE t == [task["tool"] EXCEPT !.pc = "run", !.job = {f},
                                       !.content = text[f]]
  <2>3. t \in Task
    BY <2>1, <2>2
  <2>4. task' = [task EXCEPT !["tool"] = t] /\ toolRuns' = toolRuns + 1
    BY DEF ToolStart
  <2> HIDE DEF t
  <2> QED  BY <2>2, <2>3, <2>4 DEF TypeOK, TaskTypes
<1>2. DocumentTypes' /\ QueueTypes' /\ CacheTypes' /\ ClientTypes'
  BY DEF TypeOK, ToolStart, DocumentTypes, QueueTypes, CacheTypes,
        ClientTypes, docVars, loopVars, parseVars, queueVars, workerVars,
        sourceVars, fullVars, clientVars, refreshVars
<1> QED  BY <1>1, <1>2 DEF TypeOK

LEMMA ToolExitType ==
    ASSUME TypeOK, NEW f \in File, ToolExit(f)
    PROVE  TypeOK'
<1>1. TaskTypes'
  BY DEF TypeOK, TaskTypes, ToolExit, IfOpen, Idle, EmptySet, MergedSet, Task,
        Step, Holding, Merger, Passer
<1>2. DocumentTypes' /\ QueueTypes' /\ CacheTypes' /\ ClientTypes'
  BY DEF TypeOK, ToolExit, DocumentTypes, QueueTypes, CacheTypes, ClientTypes,
        docVars, loopVars, parseVars, queueVars, workerVars, sourceVars,
        fullVars, clientVars, refreshVars
<1> QED  BY <1>1, <1>2 DEF TypeOK

LEMMA ToolStoreType ==
    ASSUME TypeOK, NEW f \in File, ToolStore(f)
    PROVE  TypeOK'
<1>1. TaskTypes'
  <2>1. ASSUME NEW t \in Task
        PROVE  [t EXCEPT !.pc = "fetch", !.phase = "slow"] \in Task
    BY <2>1 DEF Task, Step, Holding
  <2>2. "tool" \in Merger /\ task["tool"] \in Task
    BY DEF Merger, TypeOK, TaskTypes
  <2> QED  BY <2>1, <2>2 DEF TypeOK, TaskTypes, ToolStore
<1>2. CacheTypes'
  BY DEF TypeOK, CacheTypes, ToolStore, TaskTypes, Task, Merger, sourceVars,
        fullVars
<1>3. DocumentTypes' /\ QueueTypes' /\ ClientTypes'
  BY DEF TypeOK, ToolStore, DocumentTypes, QueueTypes, ClientTypes, docVars,
        loopVars, parseVars, queueVars, workerVars, clientVars, refreshVars
<1> QED  BY <1>1, <1>2, <1>3 DEF TypeOK

LEMMA MergeFetchType ==
    ASSUME TypeOK, NEW m \in Merger, NEW f \in File, MergeFetch(m, f)
    PROVE  TypeOK'
<1>1. TaskTypes'
  BY DEF TypeOK, TaskTypes, MergeFetch, CacheTypes, Task, Step, Holding,
        Merger, Passer
<1>2. DocumentTypes' /\ QueueTypes' /\ CacheTypes' /\ ClientTypes'
  BY DEF TypeOK, MergeFetch, DocumentTypes, QueueTypes, CacheTypes,
        ClientTypes, docVars, loopVars, parseVars, queueVars, workerVars,
        sourceVars, fullVars, clientVars, refreshVars
<1> QED  BY <1>1, <1>2 DEF TypeOK

LEMMA MergeAcquireType ==
    ASSUME TypeOK, NEW m \in Merger, NEW f \in File, MergeAcquire(m, f)
    PROVE  TypeOK'
<1>1. TaskTypes'
  BY DEF TypeOK, TaskTypes, MergeAcquire, CacheTypes, MergedSet, Task, Step,
        Holding, Merger, Passer
<1>2. DocumentTypes' /\ QueueTypes' /\ CacheTypes' /\ ClientTypes'
  BY DEF TypeOK, MergeAcquire, DocumentTypes, QueueTypes, CacheTypes,
        ClientTypes, docVars, loopVars, parseVars, queueVars, workerVars,
        sourceVars, fullVars, clientVars, refreshVars
<1> QED  BY <1>1, <1>2 DEF TypeOK

LEMMA MergeReadType ==
    ASSUME TypeOK, NEW m \in Merger, NEW f \in File, MergeRead(m, f)
    PROVE  TypeOK'
<1>1. TaskTypes'
  <2> DEFINE g == [task[m].got EXCEPT !.slow = lastSlow[f], !.tool = lastTool[f]]
             t == [task[m] EXCEPT !.pc = "commit", !.got = g]
  <2>1. task[m] \in Task /\ lastSlow[f] \in Nat /\ lastTool[f] \in Nat
    BY DEF TypeOK, TaskTypes, CacheTypes
  <2>2. g \in MergedSet
    BY <2>1 DEF Task, MergedSet
  <2>3. t \in Task
    BY <2>1, <2>2 DEF Task, Step, Holding
  <2>4. task' = [task EXCEPT ![m] = t]
    BY DEF MergeRead, TypeOK, TaskTypes
  <2> QED  BY <2>3, <2>4 DEF TypeOK, TaskTypes, MergeRead
<1>2. DocumentTypes' /\ QueueTypes' /\ CacheTypes' /\ ClientTypes'
  BY DEF TypeOK, MergeRead, DocumentTypes, QueueTypes, CacheTypes,
        ClientTypes, docVars, loopVars, parseVars, queueVars, workerVars,
        sourceVars, fullVars, clientVars, refreshVars
<1> QED  BY <1>1, <1>2 DEF TypeOK

LEMMA IdleType == Idle \in Task
  BY DEF Idle, Task, Step, EmptySet, MergedSet

LEMMA MergedType == ASSUME NEW t \in Task PROVE Merged(t) \in Task
<1>1. EmptySet \in MergedSet
  BY DEF EmptySet, MergedSet
<1>2. [t EXCEPT !.pc = "await", !.lock = 0, !.got = EmptySet] \in Task
  BY <1>1 DEF Task, Step, Holding
<1> QED  BY <1>2, IdleType DEF Merged

LEMMA MergeCommitType ==
    ASSUME TypeOK, NEW m \in Merger, NEW f \in File, MergeCommit(m, f)
    PROVE  TypeOK'
<1>1. TaskTypes'
  <2> DEFINE t == IF pullMode THEN Merged(task[m])
                  ELSE [task[m] EXCEPT !.pc = "publish", !.lock = 0]
  <2>1. task[m] \in Task
    BY DEF TypeOK, TaskTypes
  <2>2. [task[m] EXCEPT !.pc = "publish", !.lock = 0] \in Task
    BY <2>1 DEF Task, Step, Holding
  <2>3. t \in Task
    BY <2>1, <2>2, MergedType
  <2> QED  BY <2>3 DEF TypeOK, TaskTypes, MergeCommit
<1>2. CacheTypes'
  BY DEF TypeOK, CacheTypes, MergeCommit, NewId, TaskTypes, Task, sourceVars,
        fullVars
<1>3. ClientTypes'
  BY DEF TypeOK, ClientTypes, MergeCommit, clientVars, refreshVars
<1>4. DocumentTypes' /\ QueueTypes'
  BY DEF TypeOK, MergeCommit, DocumentTypes, QueueTypes, docVars, loopVars,
        parseVars, queueVars, workerVars
<1> QED  BY <1>1, <1>2, <1>3, <1>4 DEF TypeOK

LEMMA MergePublishType ==
    ASSUME TypeOK, NEW m \in Merger, NEW f \in File, MergePublish(m, f)
    PROVE  TypeOK'
<1>1. TaskTypes'
  BY MergedType DEF TypeOK, TaskTypes, MergePublish
<1>2. ClientTypes'
  BY DEF TypeOK, ClientTypes, MergePublish, TaskTypes, Task, clientVars,
        refreshVars
<1>3. DocumentTypes' /\ QueueTypes' /\ CacheTypes'
  BY DEF TypeOK, MergePublish, DocumentTypes, QueueTypes, CacheTypes, docVars,
        loopVars, parseVars, queueVars, workerVars, sourceVars, fullVars
<1> QED  BY <1>1, <1>2, <1>3 DEF TypeOK

LEMMA RefreshSendType ==
    ASSUME TypeOK, RefreshSend
    PROVE  TypeOK'
<1>1. ClientTypes'
  BY DEF TypeOK, ClientTypes, RefreshSend, clientVars, refreshVars
<1>2. DocumentTypes' /\ QueueTypes' /\ TaskTypes' /\ CacheTypes'
  BY DEF TypeOK, RefreshSend, DocumentTypes, QueueTypes, TaskTypes,
        CacheTypes, docVars, loopVars, parseVars, queueVars, workerVars,
        sourceVars, fullVars
<1> QED  BY <1>1, <1>2 DEF TypeOK

LEMMA RefreshAnswerType ==
    ASSUME TypeOK, RefreshAnswer
    PROVE  TypeOK'
<1>1. ClientTypes'
  BY DEF TypeOK, ClientTypes, RefreshAnswer, OpenFiles, clientVars,
        refreshVars
<1>2. DocumentTypes' /\ QueueTypes' /\ TaskTypes' /\ CacheTypes'
  BY DEF TypeOK, RefreshAnswer, DocumentTypes, QueueTypes, TaskTypes,
        CacheTypes, docVars, loopVars, parseVars, queueVars, workerVars,
        sourceVars, fullVars
<1> QED  BY <1>1, <1>2 DEF TypeOK

LEMMA PullUnchangedType ==
    ASSUME TypeOK, NEW f \in File, PullUnchanged(f)
    PROVE  TypeOK'
<1>1. ClientTypes'
  BY DEF TypeOK, ClientTypes, PullUnchanged, clientVars, refreshVars
<1>2. DocumentTypes' /\ QueueTypes' /\ TaskTypes' /\ CacheTypes'
  BY DEF TypeOK, PullUnchanged, DocumentTypes, QueueTypes, TaskTypes,
        CacheTypes, docVars, loopVars, parseVars, queueVars, workerVars,
        sourceVars, fullVars
<1> QED  BY <1>1, <1>2 DEF TypeOK

LEMMA PullCheckType ==
    ASSUME TypeOK, NEW f \in File, PullCheck(f)
    PROVE  TypeOK'
<1>1. DocumentTypes'
  BY DEF TypeOK, DocumentTypes, PullCheck, HandlerStep, docVars, loopVars,
        parseVars
<1>2. ClientTypes'
  BY DEF TypeOK, ClientTypes, PullCheck, clientVars, refreshVars
<1>3. QueueTypes' /\ TaskTypes' /\ CacheTypes'
  BY DEF TypeOK, PullCheck, QueueTypes, TaskTypes, CacheTypes, queueVars,
        workerVars, sourceVars, fullVars
<1> QED  BY <1>1, <1>2, <1>3 DEF TypeOK

LEMMA PullTriggerType ==
    ASSUME TypeOK, PullTrigger
    PROVE  TypeOK'
<1>1. DocumentTypes'
  BY DEF TypeOK, DocumentTypes, PullTrigger, HandlerStep, docVars, loopVars,
        parseVars
<1>2. QueueTypes'
  <2>1. CASE UNCHANGED calls
    BY <2>1 DEF TypeOK, QueueTypes, PullTrigger, workerVars
  <2>2. ASSUME NEW S \in SUBSET File, Schedule("pull", 0, S) PROVE QueueTypes'
    <3>1. calls' \subseteq Call
      BY <2>2, ScheduleType DEF TypeOK, QueueTypes, Caller
    <3> QED  BY <3>1 DEF TypeOK, QueueTypes, PullTrigger, workerVars
  <2>3. \/ UNCHANGED calls
        \/ \E S \in SUBSET File : Schedule("pull", 0, S)
    BY DEF PullTrigger, TypeOK, DocumentTypes
  <2> QED  BY <2>1, <2>2, <2>3
<1>3. TaskTypes' /\ CacheTypes' /\ ClientTypes'
  BY DEF TypeOK, PullTrigger, TaskTypes, CacheTypes, ClientTypes, sourceVars,
        fullVars, clientVars, refreshVars
<1> QED  BY <1>1, <1>2, <1>3 DEF TypeOK

LEMMA PullReplyType ==
    ASSUME TypeOK, PullReply
    PROVE  TypeOK'
<1>1. DocumentTypes'
  BY DEF TypeOK, DocumentTypes, PullReply, HandlerStep, docVars, loopVars,
        parseVars
<1>2. ClientTypes'
  BY DEF TypeOK, ClientTypes, PullReply, CachedOrEmpty, EmptySet, MergedSet,
        DocumentTypes, CacheTypes, clientVars, refreshVars
<1>3. QueueTypes' /\ TaskTypes' /\ CacheTypes'
  BY DEF TypeOK, PullReply, QueueTypes, TaskTypes, CacheTypes, queueVars,
        workerVars, sourceVars, fullVars
<1> QED  BY <1>1, <1>2, <1>3 DEF TypeOK

LEMMA AtType ==
    ASSUME NEW c \in calls, NEW step \in {"version", "notify"}, calls \subseteq Call,
           At(c, step)
    PROVE  calls' \subseteq Call
<1>1. [c EXCEPT !.pc = step] \in Call
  BY DEF Call
<1> QED  BY <1>1 DEF At

LEMMA CallType ==
    ASSUME TypeOK, NEW c \in calls, CallStep(c)
    PROVE  TypeOK'
<1>1. pending' \subseteq File /\ moved' \in BOOLEAN /\ permit' \in BOOLEAN
      /\ calls' \subseteq Call
  <2>0. /\ pending \subseteq File /\ moved \in BOOLEAN /\ permit \in BOOLEAN
        /\ calls \subseteq Call /\ c.files \subseteq File
    BY DEF TypeOK, QueueTypes, Call
  <2>1. CASE CallQueue(c)
    <3>1. CASE Ready
      <4>1. At(c, IF c.by = "pull" THEN "notify" ELSE "version")
        BY <2>1, <3>1 DEF CallQueue
      <4>2. calls' \subseteq Call
        BY <2>0, <4>1, AtType
      <4> QED  BY <2>0, <2>1, <3>1, <4>2 DEF CallQueue
    <3>2. CASE ~Ready
      BY <2>0, <2>1, <3>2 DEF CallQueue
    <3> QED  BY <3>1, <3>2
  <2>2. CASE CallBump(c)
    <3>1. calls' \subseteq Call
      BY <2>0, <2>2, AtType DEF CallBump
    <3> QED  BY <2>0, <2>2, <3>1 DEF CallBump
  <2>3. CASE CallNotify(c)
    BY <2>0, <2>3 DEF CallNotify
  <2> QED  BY <2>1, <2>2, <2>3 DEF CallStep, CallSteps
<1>2. QueueTypes'
  BY <1>1 DEF TypeOK, QueueTypes, CallStep, workerVars
<1>3. DocumentTypes' /\ TaskTypes' /\ CacheTypes' /\ ClientTypes'
  BY DEF TypeOK, CallStep, DocumentTypes, TaskTypes, CacheTypes, ClientTypes,
        docVars, loopVars, parseVars, sourceVars, fullVars, clientVars,
        refreshVars
<1> QED  BY <1>2, <1>3 DEF TypeOK

LEMMA InitType == Init => TypeOK
<1> SUFFICES ASSUME Init PROVE TypeOK
  OBVIOUS
<1>1. DocumentTypes
  BY DeliveryAssumption DEF Init, DocumentTypes, HandlerStep
<1>2. QueueTypes
  BY DEF Init, QueueTypes
<1>3. TaskTypes
  BY IdleType DEF Init, TaskTypes
<1>4. CacheTypes
  BY DEF Init, CacheTypes
<1>5. ClientTypes
  BY DEF Init, ClientTypes, EmptySet, MergedSet
<1> QED  BY <1>1, <1>2, <1>3, <1>4, <1>5 DEF TypeOK

LEMMA StutterType == TypeOK /\ UNCHANGED vars => TypeOK'
<1> SUFFICES ASSUME TypeOK, UNCHANGED vars PROVE TypeOK'
  OBVIOUS
<1>1. DocumentTypes' /\ QueueTypes'
  BY DEF TypeOK, vars, DocumentTypes, QueueTypes, docVars, loopVars, parseVars,
         queueVars, workerVars
<1>2. TaskTypes' /\ CacheTypes' /\ ClientTypes'
  BY DEF TypeOK, vars, TaskTypes, CacheTypes, ClientTypes, sourceVars,
         fullVars, clientVars, refreshVars
<1> QED  BY <1>1, <1>2 DEF TypeOK

LEMMA NextType == TypeOK /\ Next => TypeOK'
<1> SUFFICES ASSUME TypeOK, Next PROVE TypeOK'
  OBVIOUS
<1>1. ASSUME NEW f \in File, Open(f) \/ Edit(f) \/ Save(f) \/ Close(f)
      PROVE  TypeOK'
  BY <1>1, OpenType, EditType, SaveType, CloseType
<1>2. CASE ParseStep
  BY <1>2, ParseCheckType, ParseCommitType DEF ParseStep
<1>3. CASE HandlerStepNext
  BY <1>3, SaveAffectsType, SaveInvalidateType, SaveRequeueType, CloseCachesType,
     CloseFullType, ClosePublishType DEF HandlerStepNext
<1>4. CASE BecomeReady \/ CatchUpSnapshot
  BY <1>4, BecomeReadyType, CatchUpSnapshotType
<1>5. CASE WorkerStep
  BY <1>5, WorkerWakeType, WorkerDebounceType, WorkerTakeType, WorkerDoneType
     DEF WorkerStep
<1>6. ASSUME NEW p \in Passer, NEW f \in File,
             NextFile(p, f) \/ PassStep(p, f) \/ BlockingStep(p, f)
      PROVE  TypeOK'
  BY <1>6, NextFileType, PassBeginType, CheckFastType, StoreFastType, AwaitType,
     StoreSlowType, BlockingStepType DEF PassStep
<1>7. ASSUME NEW f \in File, ToolStart(f) \/ ToolStep(f) PROVE TypeOK'
  BY <1>7, ToolStartType, ToolExitType, ToolStoreType DEF ToolStep
<1>8. ASSUME NEW m \in Merger, NEW f \in File, MergeStep(m, f) PROVE TypeOK'
  BY <1>8, MergeFetchType, MergeAcquireType, MergeReadType, MergeCommitType,
     MergePublishType DEF MergeStep
<1>9. CASE RefreshSend \/ RefreshAnswer
  BY <1>9, RefreshSendType, RefreshAnswerType
<1>10. ASSUME NEW f \in File, PullStart(f) PROVE TypeOK'
  BY <1>10, PullUnchangedType, PullCheckType DEF PullStart
<1>11. CASE PullStep
  BY <1>11, PullTriggerType, PullReplyType DEF PullStep
<1>12. ASSUME NEW c \in calls, CallStep(c) PROVE TypeOK'
  BY <1>12, CallType
<1> QED
  BY <1>1, <1>2, <1>3, <1>4, <1>5, <1>6, <1>7, <1>8, <1>9, <1>10, <1>11, <1>12 DEF Next

\* Every reachable state has the declared shape.
THEOREM TypeCorrect == Spec => []TypeOK
<1>1. TypeOK /\ [Next]_vars => TypeOK'
  BY NextType, StutterType
<1> QED  BY InitType, <1>1, PTL DEF Spec

-----------------------------------------------------------------------------
(* The worker's queue.                                                     *)

\* The invariant, of one file: it is not queued, or somebody wakes the worker.
Woken(f) ==
    \/ permit \/ workerPc \in {"sleep", "take"}
    \/ \E c \in calls : f \in c.files /\ c.pc \in {"version", "notify"}

\* Queueing comes before bumping and notifying, and a call that has queued
\* its files stays until it has notified.
LEMMA CallWakes ==
    ASSUME TypeOK, NoLostWakeup, NEW c \in calls, CallSteps(c), workerPc' = workerPc
    PROVE  NoLostWakeup'
<1>0. SUFFICES ASSUME NEW f \in pending' PROVE Woken(f)'
  BY DEF NoLostWakeup, Woken
<1> DEFINE next == IF c.by = "pull" THEN "notify" ELSE "version"
           d == IF c.pc = "queue" THEN [c EXCEPT !.pc = next] ELSE [c EXCEPT !.pc = "notify"]
<1>1. d.files = c.files /\ d.pc \in {"version", "notify"}
  BY DEF TypeOK, QueueTypes, Call
<1>2. f \in pending => Woken(f)
  BY DEF NoLostWakeup, Woken
<1> HIDE DEF d
<1>3. CASE CallQueue(c)
  <2>1. CASE Ready
    <3>1. pending' = pending \cup c.files /\ permit' = permit
          /\ calls' = (calls \ {c}) \cup {d} /\ c.pc = "queue"
      BY <1>3, <2>1 DEF CallQueue, At, d
    <3>2. CASE f \in c.files
      BY <1>1, <3>1, <3>2 DEF Woken
    <3>3. CASE f \notin c.files
      BY <1>2, <3>1, <3>3 DEF Woken
    <3> QED  BY <3>2, <3>3
  <2>2. CASE ~Ready
    BY <1>2, <1>3, <2>2 DEF CallQueue, Woken
  <2> QED  BY <2>1, <2>2
<1>4. CASE CallBump(c)
  <2>1. pending' = pending /\ permit' = permit /\ calls' = (calls \ {c}) \cup {d}
    BY <1>4 DEF CallBump, At, d
  <2> QED  BY <1>1, <1>2, <2>1 DEF Woken
<1>5. CASE CallNotify(c)
  BY <1>5 DEF CallNotify, Woken
<1> QED  BY <1>3, <1>4, <1>5 DEF CallSteps

\* A step that queues nothing, wakes nobody up, and ends no call.
LEMMA NothingWakes ==
    ASSUME NoLostWakeup, UNCHANGED <<pending, permit, workerPc>>, calls \subseteq calls'
    PROVE  NoLostWakeup'
  BY DEF NoLostWakeup

\* A queued file always has a permit stored for it, a worker on its way to
\* the queue, or a call that has queued it and not yet notified
\* (schedule_diagnostics, and Notified::await and mem::take in
\* diagnostic_worker).
THEOREM WakeupsAreKept == Spec => []NoLostWakeup
<1>1. Init => NoLostWakeup
  BY DEF Init, NoLostWakeup
<1>2. TypeOK /\ NoLostWakeup /\ [Next]_vars => NoLostWakeup'
  <2> SUFFICES ASSUME TypeOK, NoLostWakeup, [Next]_vars PROVE NoLostWakeup'
    OBVIOUS
  <2> USE DEF queueVars, workerVars, Schedule
  <2>1. ASSUME NEW f \in File, Open(f) \/ Edit(f) \/ Save(f) \/ Close(f)
        PROVE  NoLostWakeup'
    BY <2>1, NothingWakes DEF Open, Edit, Save, Close
  <2>2. CASE ParseStep
    BY <2>2, NothingWakes DEF ParseStep, ParseCheck, ParseCommit
  <2>3. CASE HandlerStepNext
    BY <2>3, NothingWakes DEF HandlerStepNext, SaveAffects, SaveInvalidate, SaveRequeue,
                CloseCaches, CloseFull, ClosePublish
  <2>4. CASE BecomeReady \/ CatchUpSnapshot
    BY <2>4, NothingWakes DEF BecomeReady, CatchUpSnapshot
  <2>5. CASE WorkerStep
    BY <2>5 DEF NoLostWakeup, WorkerStep, WorkerWake, WorkerDebounce, WorkerTake, WorkerDone
  <2>6. ASSUME NEW p \in Passer, NEW f \in File,
               NextFile(p, f) \/ PassStep(p, f) \/ BlockingStep(p, f)
        PROVE  NoLostWakeup'
    <3>1. CASE NextFile(p, f)
      BY <3>1, NothingWakes DEF NextFile
    <3>2. CASE PassStep(p, f) \/ BlockingStep(p, f)
      BY <3>2, NothingWakes DEF PassStep, PassBegin, BlockingStep, CheckFast, StoreFast,
                  Await, StoreSlow
    <3> QED  BY <2>6, <3>1, <3>2
  <2>7. ASSUME NEW f \in File, ToolStart(f) \/ ToolStep(f) PROVE NoLostWakeup'
    BY <2>7, NothingWakes DEF ToolStart, ToolStep, ToolExit, ToolStore
  <2>8. ASSUME NEW m \in Merger, NEW f \in File, MergeStep(m, f)
        PROVE  NoLostWakeup'
    BY <2>8, NothingWakes DEF MergeStep, MergeFetch, MergeAcquire, MergeRead, MergeCommit,
                MergePublish
  <2>9. CASE RefreshSend \/ RefreshAnswer
    BY <2>9, NothingWakes DEF RefreshSend, RefreshAnswer
  <2>10. ASSUME NEW f \in File, PullStart(f) PROVE NoLostWakeup'
    BY <2>10, NothingWakes DEF PullStart, PullUnchanged, PullCheck
  <2>11. CASE PullStep
    BY <2>11, NothingWakes DEF PullStep, PullTrigger, PullReply
  <2>12. ASSUME NEW c \in calls, CallStep(c) PROVE NoLostWakeup'
    BY <2>12, CallWakes DEF CallStep
  <2>13. CASE UNCHANGED vars
    BY <2>13, NothingWakes DEF vars
  <2> QED
    BY <2>1, <2>2, <2>3, <2>4, <2>5, <2>6, <2>7, <2>8, <2>9, <2>10, <2>11,
       <2>12, <2>13 DEF Next
<1> QED  BY <1>1, <1>2, TypeCorrect, PTL DEF Spec

-----------------------------------------------------------------------------
(* The client's reports.                                                   *)

\* Ids only grow, so an id the client holds is never handed out again: the
\* strengthening UnchangedIsSound needs.
IdsInUse == \A f \in File : resultId[f] <= seq /\ held[f] <= seq

ReportInv == TypeOK /\ IdsInUse /\ UnchangedIsSound

LEMMA MergeCommitReport ==
    ASSUME ReportInv, NEW m \in Merger, NEW f \in File, MergeCommit(m, f)
    PROVE  IdsInUse' /\ UnchangedIsSound'
<1>1. held' = held /\ heldSet' = heldSet
  BY DEF MergeCommit, clientVars
<1> USE DEF ReportInv, TypeOK, CacheTypes, ClientTypes
<1>2. CASE lastFull[f] = task[m].got
  <2>1. UNCHANGED fullVars
    BY <1>2 DEF MergeCommit
  <2> QED  BY <1>1, <2>1 DEF fullVars, IdsInUse, UnchangedIsSound, SameId
<1>3. CASE lastFull[f] # task[m].got
  <2>1. /\ seq' = seq + 1
        /\ resultId' = [resultId EXCEPT ![f] = seq + 1]
        /\ \A g \in File \ {f} : lastFull'[g] = lastFull[g]
    BY <1>3 DEF MergeCommit, NewId
  <2>2. IdsInUse'
    BY <1>1, <2>1 DEF IdsInUse
  <2>3. ~SameId(f)'
    BY <1>1, <2>1 DEF IdsInUse, SameId
  <2>4. ASSUME NEW g \in File \ {f}, SameId(g)'
        PROVE  heldSet'[g] = lastFull'[g]
    BY <1>1, <2>1, <2>4 DEF SameId, UnchangedIsSound
  <2> QED  BY <2>2, <2>3, <2>4 DEF UnchangedIsSound
<1> QED  BY <1>2, <1>3

LEMMA PullReplyReport ==
    ASSUME ReportInv, PullReply
    PROVE  IdsInUse' /\ UnchangedIsSound'
<1>1. UNCHANGED fullVars
  BY DEF PullReply
<1>2. ASSUME NEW f \in File \ subject
      PROVE  held'[f] = held[f] /\ heldSet'[f] = heldSet[f]
  BY <1>2 DEF PullReply
<1>3. ASSUME NEW f \in subject, f \in File
      PROVE  held'[f] = resultId[f] /\ heldSet'[f] = CachedOrEmpty(f)
  BY <1>3 DEF PullReply
<1>4. IdsInUse'
  BY <1>1, <1>2, <1>3 DEF fullVars, IdsInUse, ReportInv
<1>5. ASSUME NEW f \in File, SameId(f)' PROVE heldSet'[f] = lastFull'[f]
  BY <1>1, <1>2, <1>3, <1>5
     DEF fullVars, SameId, CachedOrEmpty, ReportInv, UnchangedIsSound
<1> QED  BY <1>4, <1>5 DEF UnchangedIsSound

\* The steps that drop a set, or its id, leave nothing to answer `Unchanged`.
LEMMA DropReport ==
    ASSUME ReportInv, SaveInvalidate \/ CloseCaches \/ CloseFull
    PROVE  IdsInUse' /\ UnchangedIsSound'
<1>1. seq' = seq /\ held' = held /\ heldSet' = heldSet
  BY DEF SaveInvalidate, CloseCaches, CloseFull, fullVars, clientVars
<1>2. \A f \in File : resultId'[f] \in {0, resultId[f]}
  BY DEF SaveInvalidate, CloseCaches, CloseFull, Without
<1>3. \A f \in File : lastFull'[f] \in {NoSet, lastFull[f]}
  BY DEF SaveInvalidate, CloseCaches, CloseFull
<1>4. IdsInUse'
  BY <1>1, <1>2 DEF IdsInUse, ReportInv, TypeOK, CacheTypes
<1>5. ASSUME NEW f \in File, SameId(f)' PROVE heldSet'[f] = lastFull'[f]
  BY <1>1, <1>2, <1>3, <1>5 DEF SameId, ReportInv, UnchangedIsSound
<1> QED  BY <1>4, <1>5 DEF UnchangedIsSound

LEMMA OtherReport ==
    ASSUME ReportInv, UNCHANGED <<fullVars, held, heldSet>>
    PROVE  IdsInUse' /\ UnchangedIsSound'
  BY DEF fullVars, ReportInv, IdsInUse, UnchangedIsSound, SameId

LEMMA ReportStep ==
    ASSUME ReportInv, [Next]_vars
    PROVE  IdsInUse' /\ UnchangedIsSound'
<1> DEFINE Good == IdsInUse' /\ UnchangedIsSound'
<1>1. ASSUME NEW f \in File, Open(f) \/ Edit(f) \/ Save(f) \/ Close(f)
      PROVE  Good
  <2>1. CASE Open(f) \/ Edit(f)
    BY <2>1, OtherReport DEF Open, Edit
  <2>2. CASE Save(f)
    BY <2>2, OtherReport DEF Save, clientVars
  <2>3. CASE Close(f)
    BY <2>3, OtherReport DEF Close
  <2> QED  BY <1>1, <2>1, <2>2, <2>3
<1>2. CASE ParseStep
  BY <1>2, OtherReport DEF ParseStep, ParseCheck, ParseCommit, clientVars
<1>3. CASE HandlerStepNext
  <2>1. CASE SaveAffects \/ SaveRequeue \/ ClosePublish
    BY <2>1, OtherReport DEF SaveAffects, SaveRequeue, ClosePublish, clientVars
  <2> QED  BY <1>3, <2>1, DropReport DEF HandlerStepNext
<1>4. CASE BecomeReady \/ CatchUpSnapshot
  BY <1>4, OtherReport DEF BecomeReady, CatchUpSnapshot, clientVars
<1>5. CASE WorkerStep
  BY <1>5, OtherReport DEF WorkerStep, WorkerWake, WorkerDebounce,
                           WorkerTake, WorkerDone, clientVars
<1>6. ASSUME NEW p \in Passer, NEW f \in File,
             NextFile(p, f) \/ PassStep(p, f) \/ BlockingStep(p, f)
      PROVE  Good
  BY <1>6, OtherReport DEF NextFile, PassStep, PassBegin, BlockingStep,
               CheckFast, StoreFast, Await, StoreSlow, clientVars
<1>7. ASSUME NEW f \in File, ToolStart(f) \/ ToolStep(f) PROVE Good
  BY <1>7, OtherReport DEF ToolStart, ToolStep, ToolExit, ToolStore, clientVars
<1>8. ASSUME NEW m \in Merger, NEW f \in File, MergeStep(m, f) PROVE Good
  <2>1. CASE MergeCommit(m, f)
    BY <2>1, MergeCommitReport
  <2>2. CASE MergeFetch(m, f) \/ MergeAcquire(m, f) \/ MergeRead(m, f)
               \/ MergePublish(m, f)
    BY <2>2, OtherReport DEF MergeFetch, MergeAcquire, MergeRead,
                             MergePublish, clientVars
  <2> QED  BY <1>8, <2>1, <2>2 DEF MergeStep
<1>9. CASE RefreshSend \/ RefreshAnswer
  BY <1>9, OtherReport DEF RefreshSend, RefreshAnswer, clientVars
<1>10. ASSUME NEW f \in File, PullStart(f) PROVE Good
  BY <1>10, OtherReport DEF PullStart, PullUnchanged, PullCheck
<1>11. CASE PullStep
  <2>1. CASE PullTrigger
    BY <2>1, OtherReport DEF PullTrigger, clientVars
  <2> QED  BY <1>11, <2>1, PullReplyReport DEF PullStep
<1>12. ASSUME NEW c \in calls, CallStep(c) PROVE Good
  BY <1>12, OtherReport DEF CallStep, clientVars
<1>13. CASE UNCHANGED vars
  BY <1>13, OtherReport DEF vars, clientVars
<1> QED
  BY <1>1, <1>2, <1>3, <1>4, <1>5, <1>6, <1>7, <1>8, <1>9, <1>10,
     <1>11, <1>12, <1>13 DEF Next

\* `Unchanged` is only answered for the set the client already holds.
THEOREM UnchangedAnswersAreSound == Spec => []UnchangedIsSound
<1>1. Init => ReportInv
  BY InitType DEF Init, ReportInv, IdsInUse, UnchangedIsSound, SameId
<1>2. ReportInv /\ [Next]_vars => ReportInv'
  BY ReportStep, NextType, StutterType DEF ReportInv
<1>3. ReportInv => UnchangedIsSound
  BY DEF ReportInv
<1> QED  BY <1>1, <1>2, <1>3, PTL DEF Spec

-----------------------------------------------------------------------------
(* What rests is fresh.  A file opened after startup and not closed since  *)
(* has one native pass at a time and one assemble lock: Steady.            *)

Passing == {"begin", "fast", "store-fast", "await", "store-slow"}
Closing == {"close-caches", "close-full"}

\* The first time that f is open, or before it.
Steady(f) ==
    /\ f \notin StartupFiles /\ lockGen[f] = 0
    /\ ~(handler \in Closing /\ f \in subject)

\* Where the handlers and the tasks are, whatever the file.
JobsOK ==
    \A m \in Merger : /\ task[m].pc = "idle" => task[m] = Idle
                      /\ \A f, g \in task[m].job : f = g
                      /\ pullMode => task[m].pc # "publish"
LocksOK ==
    /\ handler \in Closing => \A f \in subject : text[f] = 0
    /\ handler = "close-publish" => \A f \in subject : lockGen[f] # 0
LateFiles ==
    \A f \in File \ StartupFiles :
        /\ startup # "caughtup" => text[f] = 0
        /\ f \notin todo["catchup"] /\ f \notin task["catchup"].job
GlobalInv ==
    /\ JobsOK /\ LocksOK /\ LateFiles
    /\ workerPc # "run" => todo["worker"] = {}
    /\ \A f \in File : text[f] <= clock

\* Nothing is known of a file that was never open.
Unopened(f) ==
    /\ \A m \in Merger : f \notin task[m].job
    /\ lastFast[f] = 0 /\ lastSlow[f] = 0 /\ lastFull[f] = NoSet /\ fullRequested[f] = 0

\* The worker with f in hand.
InHand(f) == f \in task["worker"].job
WorkerOK(f) ==
    LET t == task["worker"]
    IN  InHand(f) =>
          /\ t.content <= text[f] /\ lastFast[f] <= t.content /\ lastSlow[f] <= t.content
          /\ t.pc \notin {"begin", "fast", "store-fast"} => lastFast[f] = t.content
          /\ t.phase = "slow" => t.pc \notin Passing /\ lastSlow[f] = t.content
          /\ t.blocking = "none" => t.pc = "begin"
          /\ t.pc = "store-slow" => t.blocking = "slow"

\* Merges of f, one at a time: what a merge has read lies between the merged
\* set and the caches.
MergerOK(m, f) ==
    LET t == task[m]
    IN  f \in t.job =>
          /\ t.lock = 0
          /\ t.pc \in Holding =>
                /\ t.got.fast <= lastFast[f]
                /\ lastFull[f] # NoSet => lastFull[f].fast <= t.got.fast
          /\ t.pc = "commit" =>
                /\ t.got.slow <= lastSlow[f]
                /\ lastFull[f] # NoSet => lastFull[f].slow <= t.got.slow
Alone(f) ==
    \A m, n \in Merger : Holds(m, f, 0) /\ Holds(n, f, 0) => m = n
SetOK(f) ==
    /\ lastFast[f] <= text[f] /\ lastSlow[f] <= text[f]
    /\ lastFull[f] # NoSet =>
          lastFull[f].fast <= lastFast[f] /\ lastFull[f].slow <= lastSlow[f]

\* What is still owed to f, and by whom.
Called(f) == \E c \in calls : c.pc = "queue" /\ f \in c.files
Queued(f) == <<f, text[f]>> \in parses \cup committing \/ Called(f) \/ f \in pending \/ f \in todo["worker"]
Invalidated(f) == handler = "save-requeue" /\ f \in subject
InPass(f) == InHand(f) /\ task["worker"].phase = "fast"
ReadsFast(m, f) ==
    /\ f \in task[m].job
    /\ \/ task[m].pc \in {"fetch", "acquire"}
       \/ task[m].pc \in Holding /\ task[m].got.fast = lastFast[f]
ReadsSlow(m, f) ==
    /\ f \in task[m].job
    /\ \/ task[m].pc \in {"fetch", "acquire", "read"}
       \/ task[m].pc = "commit" /\ task[m].got.slow = lastSlow[f]
Coming(f) == Queued(f) \/ Invalidated(f) \/ InPass(f)

Computed(f) ==
    \/ Queued(f) \/ (InHand(f) /\ task["worker"].content = text[f])
    \/ lastFast[f] = text[f] /\ lastSlow[f] = text[f]
FastMerged(f) ==
    \/ lastFull[f] # NoSet /\ lastFull[f].fast = lastFast[f]
    \/ Coming(f) \/ \E m \in Merger : ReadsFast(m, f)
SlowMerged(f) ==
    \/ lastFull[f] # NoSet /\ lastFull[f].slow = lastSlow[f]
    \/ Coming(f) \/ \E m \in Merger : ReadsSlow(m, f)
RequestKept(f) ==
    fullRequested[f] # 0 => Queued(f) \/ (InHand(f) /\ task["worker"].pc = "begin")
Pulling(f) == handler \in {"pull-check", "pull-reply"} /\ f \in subject
Displayed(f) ==
    pullMode => \/ lastFull[f] = NoSet \/ shown[f] = lastFull[f]
                \/ f \in stale \/ refresh \/ inFlight \/ Pulling(f)

FileInv(f) ==
    Steady(f) =>
        /\ text[f] = 0 => Unopened(f)
        /\ WorkerOK(f) /\ (\A m \in Merger : MergerOK(m, f)) /\ Alone(f) /\ SetOK(f)
        /\ text[f] # 0 => /\ Computed(f) /\ FastMerged(f) /\ SlowMerged(f)
                          /\ RequestKept(f) /\ Displayed(f)

FreshInv == GlobalInv /\ \A f \in File : FileInv(f)

-----------------------------------------------------------------------------
(* What a step leaves of the files it is not about.                        *)

Unmoved(g) ==
    /\ text'[g] = text[g] /\ lockGen'[g] = lockGen[g] /\ fullRequested'[g] = fullRequested[g]
    /\ lastFast'[g] = lastFast[g] /\ lastSlow'[g] = lastSlow[g] /\ lastFull'[g] = lastFull[g]
    /\ Steady(g)' => Steady(g)
    /\ Queued(g) => Queued(g)'
    /\ Invalidated(g) => Invalidated(g)' \/ Queued(g)'
    /\ text[g] # 0 /\ Displayed(g) => Displayed(g)'

LEMMA UnmovedFile ==
    ASSUME NEW g \in File, FileInv(g), Unmoved(g),
           \A m \in Merger : g \in task[m].job \cup task'[m].job => task'[m] = task[m]
    PROVE  FileInv(g)'
<1>0. SUFFICES ASSUME Steady(g)' PROVE
        /\ text'[g] = 0 => Unopened(g)'
        /\ WorkerOK(g)' /\ (\A m \in Merger : MergerOK(m, g)') /\ Alone(g)' /\ SetOK(g)'
        /\ text'[g] # 0 => /\ Computed(g)' /\ FastMerged(g)' /\ SlowMerged(g)'
                           /\ RequestKept(g)' /\ Displayed(g)'
  BY DEF FileInv
<1>1. /\ text[g] = 0 => Unopened(g)
      /\ WorkerOK(g) /\ (\A m \in Merger : MergerOK(m, g)) /\ Alone(g) /\ SetOK(g)
      /\ text[g] # 0 => /\ Computed(g) /\ FastMerged(g) /\ SlowMerged(g)
                        /\ RequestKept(g) /\ Displayed(g)
  BY <1>0 DEF FileInv, Unmoved
<1>2. \A m \in Merger : (g \in task'[m].job <=> g \in task[m].job)
                        /\ (g \in task[m].job => task'[m] = task[m])
  OBVIOUS
<1>a. "worker" \in Merger
  BY DEF Merger, Passer
<1>3. text'[g] = 0 => Unopened(g)'
  BY <1>1, <1>2 DEF Unmoved, Unopened
<1>4. WorkerOK(g)'
  BY <1>1, <1>2, <1>a DEF Unmoved, WorkerOK, InHand
<1>5. \A m \in Merger : MergerOK(m, g)'
  BY <1>1, <1>2 DEF Unmoved, MergerOK
<1>6. Alone(g)'
  BY <1>1, <1>2 DEF Alone, Holds
<1>7. SetOK(g)'
  BY <1>1 DEF Unmoved, SetOK
<1>8. ASSUME text'[g] # 0 PROVE Computed(g)' /\ FastMerged(g)' /\ SlowMerged(g)'
                                /\ RequestKept(g)' /\ Displayed(g)'
  <2>1. text[g] # 0
    BY <1>8 DEF Unmoved
  <2>2. Computed(g)'
    BY <1>1, <1>2, <1>a, <2>1 DEF Unmoved, Computed, InHand
  <2>3. Coming(g) => Coming(g)'
    BY <1>2, <1>a DEF Unmoved, Coming, InPass, InHand
  <2>4. FastMerged(g)'
    BY <1>1, <1>2, <2>1, <2>3 DEF Unmoved, FastMerged, ReadsFast
  <2>5. SlowMerged(g)'
    BY <1>1, <1>2, <2>1, <2>3 DEF Unmoved, SlowMerged, ReadsSlow
  <2>6. RequestKept(g)'
    BY <1>1, <1>2, <1>a, <2>1 DEF Unmoved, RequestKept, InHand
  <2>7. Displayed(g)'
    BY <1>1, <2>1 DEF Unmoved
  <2> QED
    BY <2>2, <2>4, <2>5, <2>6, <2>7
<1> QED
  BY <1>3, <1>4, <1>5, <1>6, <1>7, <1>8

\* A step of one task, on file f.
LEMMA TaskMoves ==
    ASSUME FreshInv, NEW m \in Merger, NEW f \in File, NEW t \in Task,
           task' = [task EXCEPT ![m] = t], task \in [Merger -> Task],
           task[m].job \subseteq {f}, t.job \subseteq {f},
           t.pc = "idle" => t = Idle, pullMode => t.pc # "publish",
           m = "catchup" => t.job \subseteq task[m].job \cup StartupFiles,
           UNCHANGED <<pullMode, text, clock, handler, subject, startup, workerPc, lockGen>>,
           \A p \in Passer : todo'[p] \subseteq todo[p],
           \A g \in File \ {f} : Unmoved(g), FileInv(f)'
    PROVE  FreshInv'
<1>1. task'[m] = t /\ \A n \in Merger \ {m} : task'[n] = task[n]
  OBVIOUS
<1>2. JobsOK'
  BY <1>1 DEF FreshInv, GlobalInv, JobsOK
<1>3. LocksOK'
  BY DEF FreshInv, GlobalInv, LocksOK
<1>4. LateFiles'
  <2>1. "catchup" \in Merger /\ "catchup" \in Passer /\ "worker" \in Passer
    BY DEF Merger, Passer
  <2> QED
    BY <1>1, <2>1 DEF FreshInv, GlobalInv, LateFiles
<1>5. workerPc' # "run" => todo'["worker"] = {}
  BY DEF FreshInv, GlobalInv, Passer
<1>6. ASSUME NEW g \in File \ {f} PROVE FileInv(g)'
  BY <1>1, <1>6, UnmovedFile DEF FreshInv
<1> QED
  BY <1>2, <1>3, <1>4, <1>5, <1>6 DEF FreshInv, GlobalInv

\* A step that touches no task.
LEMMA NoTaskMoves ==
    ASSUME FreshInv, UNCHANGED task, GlobalInv', \A g \in File : Unmoved(g) \/ FileInv(g)'
    PROVE  FreshInv'
  BY UnmovedFile DEF FreshInv

-----------------------------------------------------------------------------
(* The editor, the scheduling and the client.                              *)

LEMMA Scheduled ==
    ASSUME NEW by, NEW v, NEW S, Schedule(by, v, S)
    PROVE  calls \subseteq calls' /\ \A f \in S : Called(f)'
<1> DEFINE c == [by |-> by, of |-> v, files |-> S, pc |-> "queue"]
<1>1. calls' = calls \cup {c} /\ c.pc = "queue" /\ c.files = S
  BY DEF Schedule
<1> HIDE DEF c
<1> QED  BY <1>1 DEF Called

\* A queued file needs nothing else.
LEMMA QueuedFile ==
    ASSUME TypeOK, NEW f \in File, FileInv(f), Steady(f), text[f] # 0,
           UNCHANGED <<task, lastFast, lastSlow>>, lastFull'[f] = lastFull[f],
           text'[f] \in Nat, text[f] <= text'[f], Queued(f)', Displayed(f)'
    PROVE  FileInv(f)'
<1>1. /\ WorkerOK(f) /\ (\A m \in Merger : MergerOK(m, f)) /\ Alone(f) /\ SetOK(f)
      /\ text[f] \in Nat /\ lastFast[f] \in Nat /\ lastSlow[f] \in Nat
      /\ "worker" \in Merger
      /\ \A m \in Merger : task[m] \in Task
  BY DEF FileInv, TypeOK, DocumentTypes, CacheTypes, TaskTypes, Merger, Passer
<1>2. text'[f] # 0
  BY <1>1
<1>3. WorkerOK(f)'
  <2>1. task["worker"].content \in Nat
    BY <1>1 DEF Task
  <2> QED
    BY <1>1, <2>1 DEF WorkerOK, InHand
<1>4. (\A m \in Merger : MergerOK(m, f)') /\ Alone(f)'
  BY <1>1 DEF MergerOK, Alone, Holds
<1>5. SetOK(f)'
  BY <1>1 DEF SetOK
<1>6. Computed(f)' /\ FastMerged(f)' /\ SlowMerged(f)' /\ RequestKept(f)'
  BY DEF Computed, FastMerged, SlowMerged, RequestKept, Coming
<1> QED
  BY <1>2, <1>3, <1>4, <1>5, <1>6 DEF FileInv

LEMMA OpenFresh ==
    ASSUME TypeOK, FreshInv, NEW f \in File, Open(f) PROVE FreshInv'
<1>0. /\ text \in [File -> Nat] /\ clock \in Nat /\ handler = "idle" /\ text[f] = 0
      /\ text' = [text EXCEPT ![f] = clock + 1] /\ clock' = clock + 1
      /\ f \in StartupFiles \/ startup = "caughtup"
      /\ UNCHANGED <<pullMode, handler, subject, parses, committing, startup, pending, task, todo,
                     workerPc, lockGen, lastFast, lastSlow, lastFull, fullRequested, shown, refresh,
                     inFlight>>
      /\ stale \subseteq stale' /\ Schedule("service", 0, {f})
  BY DEF TypeOK, DocumentTypes, Open, Listening, IsOpen, loopVars, parseVars, workerVars,
         sourceVars, fullVars, refreshVars, Touched
<1>a. calls \subseteq calls' /\ Called(f)'
  BY <1>0, Scheduled
<1>1. GlobalInv'
  <2>1. JobsOK' /\ LocksOK'
    BY <1>0 DEF FreshInv, GlobalInv, JobsOK, LocksOK, Closing
  <2>2. LateFiles'
    BY <1>0 DEF FreshInv, GlobalInv, LateFiles
  <2>3. \A g \in File : text'[g] <= clock'
    BY <1>0 DEF FreshInv, GlobalInv
  <2> QED
    BY <1>0, <2>1, <2>2, <2>3 DEF FreshInv, GlobalInv
<1>2. ASSUME NEW g \in File \ {f} PROVE Unmoved(g)
  BY <1>0, <1>a DEF Unmoved, Steady, Queued, Called, Invalidated, Displayed, Pulling
<1>3. FileInv(f)'
  <2>1. SUFFICES ASSUME Steady(f)' PROVE FileInv(f)'
    BY DEF FileInv
  <2>2. Steady(f) /\ Unopened(f)
    BY <1>0, <2>1 DEF Steady, FreshInv, FileInv
  <2>3. /\ \A m \in Merger : f \notin task'[m].job
        /\ text'[f] # 0 /\ lastFast'[f] = 0 /\ lastSlow'[f] = 0 /\ lastFull'[f] = NoSet
        /\ fullRequested'[f] = 0 /\ text'[f] \in Nat /\ Queued(f)'
    BY <1>0, <1>a, <2>2 DEF Unopened, Queued
  <2>4. WorkerOK(f)' /\ (\A m \in Merger : MergerOK(m, f)') /\ Alone(f)' /\ SetOK(f)'
    BY <2>3 DEF WorkerOK, InHand, MergerOK, Alone, Holds, SetOK, Merger, Passer
  <2>5. Computed(f)' /\ FastMerged(f)' /\ SlowMerged(f)' /\ RequestKept(f)' /\ Displayed(f)'
    BY <2>3 DEF Computed, FastMerged, SlowMerged, RequestKept, Displayed, Coming
  <2> QED
    BY <2>3, <2>4, <2>5 DEF FileInv
<1> QED
  BY <1>0, <1>1, <1>2, <1>3, NoTaskMoves

LEMMA EditFresh ==
    ASSUME TypeOK, FreshInv, NEW f \in File, Edit(f) PROVE FreshInv'
<1>0. /\ text \in [File -> Nat] /\ clock \in Nat /\ handler = "idle" /\ text[f] # 0
      /\ text' = [text EXCEPT ![f] = clock + 1] /\ clock' = clock + 1
      /\ UNCHANGED <<pullMode, handler, subject, committing, startup, pending, calls, task, todo, workerPc,
                     lockGen, lastFast, lastSlow, lastFull, fullRequested, shown, refresh,
                     inFlight>>
      /\ stale \subseteq stale' /\ parses' = parses \cup {<<f, clock + 1>>}
  BY DEF TypeOK, DocumentTypes, Edit, Listening, IsOpen, loopVars, workerVars, sourceVars,
         fullVars, refreshVars, queueVars, Touched
<1>1. GlobalInv'
  <2>1. JobsOK' /\ LocksOK'
    BY <1>0 DEF FreshInv, GlobalInv, JobsOK, LocksOK, Closing
  <2>2. LateFiles'
    BY <1>0 DEF FreshInv, GlobalInv, LateFiles
  <2>3. \A g \in File : text'[g] <= clock'
    BY <1>0 DEF FreshInv, GlobalInv
  <2> QED
    BY <1>0, <2>1, <2>2, <2>3 DEF FreshInv, GlobalInv
<1>2. ASSUME NEW g \in File \ {f} PROVE Unmoved(g)
  BY <1>0 DEF Unmoved, Steady, Queued, Called, Invalidated, Displayed, Pulling
<1>3. FileInv(f)'
  <2>1. SUFFICES ASSUME Steady(f)' PROVE FileInv(f)'
    BY DEF FileInv
  <2>2. Steady(f) /\ FileInv(f)
    BY <1>0, <2>1 DEF Steady, FreshInv
  <2>3. text'[f] = clock + 1 /\ text[f] <= clock /\ text[f] \in Nat
    BY <1>0 DEF FreshInv, GlobalInv
  <2>4. Queued(f)'
    BY <1>0, <2>3 DEF Queued
  <2>5. Displayed(f)'
    BY <1>0, <2>2 DEF FileInv, Displayed, Pulling
  <2>6. text'[f] \in Nat /\ text[f] <= text'[f]
    BY <1>0, <2>3
  <2> QED
    BY <1>0, <2>2, <2>4, <2>5, <2>6, QueuedFile
<1> QED
  BY <1>0, <1>1, <1>2, <1>3, NoTaskMoves

LEMMA ParseFresh ==
    ASSUME TypeOK, FreshInv, NEW t \in parses \cup committing, ParseCheck(t) \/ ParseCommit(t)
    PROVE  FreshInv'
<1>0. /\ UNCHANGED <<pullMode, text, clock, handler, subject, startup, task, todo, workerPc, lockGen,
                     lastFast, lastSlow, lastFull, fullRequested, shown, stale, refresh, inFlight,
                     pending>>
      /\ calls \subseteq calls'
  BY Scheduled DEF ParseCheck, ParseCommit, docVars, loopVars, workerVars, sourceVars, fullVars,
         clientVars, refreshVars, queueVars
<1>1. GlobalInv'
  BY <1>0 DEF FreshInv, GlobalInv, JobsOK, LocksOK, LateFiles
<1>2. ASSUME NEW g \in File PROVE Unmoved(g)
  <2>1. Queued(g) => Queued(g)'
    <3>1. CASE ParseCheck(t)
      BY <1>0, <3>1 DEF ParseCheck, Queued, Called
    <3>2. CASE ParseCommit(t)
      <4>1. committing' = committing \ {t} /\ parses' = parses /\ Called(t[1])'
        BY <3>2, Scheduled DEF ParseCommit
      <4> QED
        BY <1>0, <4>1 DEF Queued, Called
    <3> QED
      BY <3>1, <3>2
  <2> QED
    BY <1>0, <2>1 DEF Unmoved, Steady, Invalidated, Displayed, Pulling
<1> QED
  BY <1>0, <1>1, <1>2, NoTaskMoves

LEMMA SaveFresh ==
    ASSUME TypeOK, FreshInv, NEW f \in File, Save(f) PROVE FreshInv'
<1>0. /\ text \in [File -> Nat] /\ handler = "idle" /\ text[f] # 0
      /\ fullRequested \in [File -> Nat] /\ fullRequested' = [fullRequested EXCEPT ![f] = text[f]]
      /\ UNCHANGED <<pullMode, text, clock, parses, committing, startup, pending, task, todo,
                     workerPc, lockGen, lastFast, lastSlow, lastFull, shown, stale, refresh, inFlight>>
      /\ handler' = "save-affected" /\ Schedule("service", 0, {f})
  BY DEF TypeOK, DocumentTypes, QueueTypes, Save, Listening, IsOpen, docVars, parseVars, workerVars,
         sourceVars, fullVars, clientVars, refreshVars
<1>a. calls \subseteq calls' /\ Called(f)'
  BY <1>0, Scheduled
<1>1. GlobalInv'
  BY <1>0 DEF FreshInv, GlobalInv, JobsOK, LocksOK, LateFiles, Closing
<1>2. ASSUME NEW g \in File \ {f} PROVE Unmoved(g)
  BY <1>0, <1>a DEF Unmoved, Steady, Queued, Called, Invalidated, Displayed, Pulling, Closing
<1>3. FileInv(f)'
  <2>1. SUFFICES ASSUME Steady(f)' PROVE FileInv(f)'
    BY DEF FileInv
  <2>2. Steady(f) /\ FileInv(f)
    BY <1>0, <2>1 DEF Steady, FreshInv, Closing
  <2>4. Queued(f)'
    BY <1>a DEF Queued
  <2>5. Displayed(f)'
    BY <1>0, <2>2 DEF FileInv, Displayed, Pulling
  <2> QED
    BY <1>0, <2>2, <2>4, <2>5, QueuedFile
<1> QED
  BY <1>0, <1>1, <1>2, <1>3, NoTaskMoves

\* The affected files are only worked out.
LEMMA SaveAffectsFresh ==
    ASSUME TypeOK, FreshInv, SaveAffects PROVE FreshInv'
<1>0. /\ handler = "save-affected" /\ handler' \in {"idle", "save-invalidate"}
      /\ UNCHANGED <<pullMode, text, clock, parses, committing, startup, pending, calls, task, todo,
                     workerPc, fullRequested, lockGen, lastFast, lastSlow, lastFull, shown, stale,
                     refresh, inFlight>>
  BY DEF SaveAffects, docVars, parseVars, workerVars, sourceVars, fullVars, clientVars,
         refreshVars, queueVars
<1>1. GlobalInv'
  BY <1>0 DEF FreshInv, GlobalInv, JobsOK, LocksOK, LateFiles, Closing
<1>2. ASSUME NEW g \in File PROVE Unmoved(g)
  BY <1>0 DEF Unmoved, Steady, Queued, Called, Invalidated, Displayed, Pulling, Closing
<1> QED
  BY <1>0, <1>1, <1>2, NoTaskMoves

\* The set goes, and the next step queues the file.
LEMMA SaveInvalidateFresh ==
    ASSUME TypeOK, FreshInv, SaveInvalidate PROVE FreshInv'
<1>0. /\ handler = "save-invalidate" /\ handler' = "save-requeue"
      /\ UNCHANGED <<pullMode, text, clock, subject, parses, committing, startup, pending, calls, task, todo,
                     workerPc, fullRequested, lockGen, lastFast, lastSlow, shown, stale, refresh,
                     inFlight>>
      /\ \A g \in File : lastFull'[g] = IF g \in subject THEN NoSet ELSE lastFull[g]
  BY DEF SaveInvalidate, docVars, loopVars, parseVars, workerVars,
         sourceVars, fullVars, clientVars, refreshVars, queueVars
<1>1. GlobalInv'
  BY <1>0 DEF FreshInv, GlobalInv, JobsOK, LocksOK, LateFiles, Closing
<1>2. ASSUME NEW g \in File \ subject PROVE Unmoved(g)
  BY <1>0 DEF Unmoved, Steady, Queued, Called, Invalidated, Displayed, Pulling, Closing
<1>3. ASSUME NEW g \in File, g \in subject PROVE FileInv(g)'
  <2>1. SUFFICES ASSUME Steady(g)' PROVE FileInv(g)'
    BY DEF FileInv
  <2>2. Steady(g) /\ FileInv(g)
    BY <1>0, <2>1 DEF Steady, FreshInv, Closing
  <2>3. lastFull'[g] = NoSet /\ Invalidated(g)'
    BY <1>0, <1>3 DEF Invalidated
  <2>4. text[g] = 0 => Unopened(g)'
    BY <1>0, <2>2, <2>3 DEF FileInv, Unopened
  <2>5. WorkerOK(g)' /\ (\A m \in Merger : MergerOK(m, g)') /\ Alone(g)' /\ SetOK(g)'
    BY <1>0, <2>2, <2>3 DEF FileInv, WorkerOK, InHand, MergerOK, Alone, Holds, SetOK
  <2>6. text[g] # 0 => Computed(g)' /\ RequestKept(g)'
    BY <1>0, <2>2 DEF FileInv, Computed, RequestKept, Queued, Called, InHand
  <2>7. FastMerged(g)' /\ SlowMerged(g)' /\ Displayed(g)'
    BY <2>3 DEF FastMerged, SlowMerged, Coming, Displayed
  <2> QED
    BY <1>0, <2>4, <2>5, <2>6, <2>7 DEF FileInv
<1> QED
  BY <1>0, <1>1, <1>2, <1>3, NoTaskMoves

LEMMA SaveRequeueFresh ==
    ASSUME TypeOK, FreshInv, SaveRequeue PROVE FreshInv'
<1>0. /\ handler = "save-requeue" /\ handler' = "idle" /\ text \in [File -> Nat]
      /\ UNCHANGED <<pullMode, text, clock, parses, committing, startup, pending, task, todo,
                     workerPc, lockGen, lastFast, lastSlow, lastFull, shown, stale, refresh,
                     inFlight>>
      /\ \A g \in File : fullRequested'[g] = IF g \in subject THEN text[g] ELSE fullRequested[g]
      /\ Schedule("service", 0, subject)
  BY DEF SaveRequeue, docVars, parseVars, workerVars, TypeOK, DocumentTypes,
         sourceVars, fullVars, clientVars, refreshVars
<1>a. calls \subseteq calls' /\ \A g \in subject : Called(g)'
  BY <1>0, Scheduled
<1>1. GlobalInv'
  BY <1>0 DEF FreshInv, GlobalInv, JobsOK, LocksOK, LateFiles, Closing
<1>2. ASSUME NEW g \in File \ subject PROVE Unmoved(g)
  BY <1>0, <1>a DEF Unmoved, Steady, Queued, Called, Invalidated, Displayed, Pulling, Closing
<1>3. ASSUME NEW g \in File, g \in subject PROVE FileInv(g)'
  <2>1. SUFFICES ASSUME Steady(g)' PROVE FileInv(g)'
    BY DEF FileInv
  <2>2. Steady(g) /\ FileInv(g)
    BY <1>0, <2>1 DEF Steady, FreshInv, Closing
  <2>3. CASE text[g] = 0
    <3>1. Unopened(g)'
      BY <1>0, <1>3, <2>2, <2>3 DEF FileInv, Unopened
    <3>2. WorkerOK(g)' /\ (\A m \in Merger : MergerOK(m, g)') /\ Alone(g)' /\ SetOK(g)'
      BY <1>0, <2>2 DEF FileInv, WorkerOK, InHand, MergerOK, Alone, Holds, SetOK
    <3> QED
      BY <1>0, <2>3, <3>1, <3>2 DEF FileInv
  <2>4. CASE text[g] # 0
    <3>2. Queued(g)'
      BY <1>a, <1>3 DEF Queued
    <3>3. Displayed(g)'
      BY <1>0, <2>2, <2>4 DEF FileInv, Displayed, Pulling
    <3> QED
      BY <1>0, <2>2, <2>4, <3>2, <3>3, QueuedFile
  <2> QED
    BY <2>3, <2>4
<1> QED
  BY <1>0, <1>1, <1>2, <1>3, NoTaskMoves

\* From here to its last step a close leaves the file unsteady.
LEMMA CloseFresh ==
    ASSUME TypeOK, FreshInv, NEW f \in File, Close(f) PROVE FreshInv'
<1>0. /\ text \in [File -> Nat] /\ handler = "idle" /\ text' = [text EXCEPT ![f] = 0]
      /\ handler' = "close-caches" /\ subject' = {f} /\ stale' = stale \ {f}
      /\ UNCHANGED <<pullMode, clock, parses, committing, startup, pending, calls, task, todo, workerPc,
                     fullRequested, lockGen, lastFast, lastSlow, lastFull, shown, refresh, inFlight>>
  BY DEF TypeOK, DocumentTypes, Close, Listening, parseVars, workerVars, sourceVars,
         fullVars, refreshVars, queueVars
<1>1. GlobalInv'
  <2>1. \A g \in File : text'[g] = IF g = f THEN 0 ELSE text[g]
    BY <1>0
  <2>2. clock \in Nat
    BY DEF TypeOK, DocumentTypes
  <2> QED
    BY <1>0, <2>1, <2>2 DEF FreshInv, GlobalInv, JobsOK, LocksOK, LateFiles, Closing
<1>2. ASSUME NEW g \in File \ {f} PROVE Unmoved(g)
  BY <1>0 DEF Unmoved, Steady, Queued, Called, Invalidated, Displayed, Pulling, Closing
<1>3. FileInv(f)'
  BY <1>0 DEF FileInv, Steady, Closing
<1> QED
  BY <1>0, <1>1, <1>2, <1>3, NoTaskMoves

LEMMA CloseStepFresh ==
    ASSUME TypeOK, FreshInv, CloseCaches \/ CloseFull \/ ClosePublish PROVE FreshInv'
<1>0. /\ handler \in Closing \cup {"close-publish"} /\ lockGen \in [File -> Nat]
      /\ handler = "close-caches" => handler' = "close-full" /\ subject' = subject
      /\ handler = "close-full" => /\ handler' = "close-publish" /\ subject' = subject
                                   /\ \A g \in subject : lockGen'[g] # 0
      /\ handler = "close-publish" => handler' = "idle" /\ subject' = {} /\ lockGen' = lockGen
      /\ UNCHANGED <<pullMode, text, clock, parses, committing, startup, pending, calls, task, todo,
                     workerPc, stale, inFlight>>
      /\ refresh => refresh'
      /\ \A g \in File \ subject :
            /\ fullRequested'[g] = fullRequested[g] /\ lastFast'[g] = lastFast[g]
            /\ lastSlow'[g] = lastSlow[g] /\ lastFull'[g] = lastFull[g] /\ shown'[g] = shown[g]
            /\ lockGen'[g] = lockGen[g]
  <2>1. lockGen \in [File -> Nat] /\ subject \subseteq File
    BY DEF TypeOK, CacheTypes, DocumentTypes
  <2>2. CASE CloseCaches
    BY <2>1, <2>2 DEF CloseCaches, Closing, Without, docVars, parseVars, workerVars, queueVars,
       sourceVars, fullVars, clientVars, refreshVars
  <2>3. CASE CloseFull
    BY <2>1, <2>3 DEF CloseFull, Closing, docVars, parseVars, workerVars, queueVars,
       sourceVars, fullVars, clientVars, refreshVars
  <2>4. CASE ClosePublish
    BY <2>1, <2>4 DEF ClosePublish, Closing, SignalRefresh, docVars, parseVars, workerVars, queueVars,
       sourceVars, fullVars, clientVars, refreshVars
  <2> QED
    BY <2>2, <2>3, <2>4
<1>1. GlobalInv'
  BY <1>0 DEF FreshInv, GlobalInv, JobsOK, LocksOK, LateFiles, Closing
<1>2. ASSUME NEW g \in File \ subject PROVE Unmoved(g)
  BY <1>0 DEF Unmoved, Steady, Queued, Called, Invalidated, Displayed, Pulling, Closing
<1>3. ASSUME NEW g \in File, g \in subject PROVE FileInv(g)'
  BY <1>0, <1>3 DEF FileInv, Steady, Closing, FreshInv, GlobalInv, LocksOK
<1> QED
  BY <1>0, <1>1, <1>2, <1>3, NoTaskMoves

\* The catch-up task is given none of the files opened after it.
LEMMA StartupFresh ==
    ASSUME TypeOK, FreshInv, BecomeReady \/ CatchUpSnapshot PROVE FreshInv'
<1>0. /\ startup # "caughtup" /\ todo \in [Passer -> SUBSET File]
      /\ UNCHANGED <<pullMode, text, clock, handler, subject, parses, committing, pending, calls, task,
                     workerPc, fullRequested, lockGen, lastFast, lastSlow, lastFull, shown,
                     stale, refresh, inFlight>>
      /\ todo' = todo \/ todo' = [todo EXCEPT !["catchup"] = OpenFiles]
  BY DEF BecomeReady, CatchUpSnapshot, docVars, loopVars, parseVars, workerVars, queueVars, sourceVars,
         fullVars, clientVars, refreshVars, TypeOK, QueueTypes
<1>1. todo'["worker"] = todo["worker"] /\ todo'["catchup"] \subseteq todo["catchup"] \cup OpenFiles
  BY <1>0 DEF Passer
<1>2. LateFiles'
  BY <1>0, <1>1 DEF FreshInv, GlobalInv, LateFiles, OpenFiles, IsOpen
<1>3. GlobalInv'
  BY <1>0, <1>1, <1>2 DEF FreshInv, GlobalInv, JobsOK, LocksOK
<1>4. ASSUME NEW g \in File PROVE Unmoved(g)
  BY <1>0, <1>1 DEF Unmoved, Steady, Queued, Called, Invalidated, Displayed, Pulling
<1> QED
  BY <1>0, <1>3, <1>4, NoTaskMoves

LEMMA WorkerFresh ==
    ASSUME TypeOK, FreshInv, WorkerStep PROVE FreshInv'
<1>0. /\ UNCHANGED <<pullMode, text, clock, handler, subject, parses, committing, startup, calls, task,
                     fullRequested, lockGen, lastFast, lastSlow, lastFull, shown, stale, refresh,
                     inFlight>>
      /\ todo \in [Passer -> SUBSET File]
      /\ \/ workerPc # "run" /\ UNCHANGED <<todo, pending>>
         \/ workerPc # "run" /\ workerPc' = "run"
            /\ todo' = [todo EXCEPT !["worker"] = pending] /\ pending' = {}
         \/ todo["worker"] = {} /\ UNCHANGED <<todo, pending>>
  BY DEF WorkerStep, WorkerWake, WorkerDebounce, WorkerTake, WorkerDone, docVars, loopVars, parseVars,
         workerVars, queueVars, sourceVars, fullVars, clientVars, refreshVars, TypeOK, QueueTypes
<1>1. /\ todo'["catchup"] = todo["catchup"]
      /\ workerPc' # "run" => todo'["worker"] = {}
      /\ pending \cup todo["worker"] \subseteq pending' \cup todo'["worker"]
  BY <1>0 DEF Passer, FreshInv, GlobalInv
<1>2. GlobalInv'
  BY <1>0, <1>1 DEF FreshInv, GlobalInv, JobsOK, LocksOK, LateFiles
<1>3. ASSUME NEW g \in File PROVE Unmoved(g)
  BY <1>0, <1>1 DEF Unmoved, Steady, Queued, Called, Invalidated, Displayed, Pulling
<1> QED
  BY <1>0, <1>2, <1>3, NoTaskMoves

\* A pull shows the cached set, whether it is sent or held already.
LEMMA PullFresh ==
    ASSUME TypeOK, UnchangedIsSound, FreshInv,
           \/ PullStep \/ RefreshSend \/ RefreshAnswer
           \/ \E f \in File : PullStart(f)
    PROVE  FreshInv'
<1>0. /\ UNCHANGED <<pullMode, text, clock, parses, committing, startup, task, todo, workerPc,
                     fullRequested, lockGen, lastFast, lastSlow, lastFull, pending>>
      /\ calls \subseteq calls'
      /\ \/ UNCHANGED <<handler, subject>>
         \/ handler \in {"idle", "pull-check", "pull-reply"}
            /\ handler' \in {"idle", "pull-check", "pull-reply"}
  BY DEF PullStep, PullTrigger, PullReply, RefreshSend, RefreshAnswer, PullStart, PullUnchanged,
         PullCheck, Listening, Schedule, docVars, loopVars, parseVars, workerVars, queueVars, sourceVars,
         fullVars
<1>1. GlobalInv'
  BY <1>0 DEF FreshInv, GlobalInv, JobsOK, LocksOK, LateFiles, Closing
<1>2. ASSUME NEW g \in File, text[g] # 0, Displayed(g) PROVE Displayed(g)'
  <2>0. shown \in [File -> MergedSet] /\ subject \subseteq File
    BY DEF TypeOK, ClientTypes, DocumentTypes
  <2>1. CASE PullTrigger
    BY <1>2, <2>1 DEF PullTrigger, Displayed, Pulling, fullVars, clientVars, refreshVars
  <2>2. CASE PullReply
    BY <1>2, <2>0, <2>2 DEF PullReply, Displayed, Pulling, CachedOrEmpty, fullVars, refreshVars
  <2>3. CASE RefreshSend
    BY <1>2, <2>3 DEF RefreshSend, Displayed, Pulling, loopVars, fullVars, clientVars
  <2>4. CASE RefreshAnswer
    BY <1>2, <2>4 DEF RefreshAnswer, Displayed, OpenFiles, IsOpen
  <2>5. ASSUME NEW f \in File, PullUnchanged(f) PROVE Displayed(g)'
    BY <1>2, <2>0, <2>5 DEF PullUnchanged, Displayed, Pulling, UnchangedIsSound, loopVars, fullVars,
       refreshVars
  <2>6. ASSUME NEW f \in File, PullCheck(f) PROVE Displayed(g)'
    BY <1>2, <2>6 DEF PullCheck, Listening, Displayed, Pulling, fullVars, refreshVars
  <2> QED
    BY <2>1, <2>2, <2>3, <2>4, <2>5, <2>6 DEF PullStep, PullStart
<1>3. ASSUME NEW g \in File PROVE Unmoved(g)
  BY <1>0, <1>2 DEF Unmoved, Steady, Queued, Called, Invalidated, Closing
<1> QED
  BY <1>0, <1>1, <1>3, NoTaskMoves

\* A call queues what it was called for; that it gives up before startup is
\* over concerns no file opened after it.
LEMMA CallFresh ==
    ASSUME TypeOK, FreshInv, NEW c \in calls, CallStep(c) PROVE FreshInv'
<1>0. UNCHANGED <<pullMode, text, clock, handler, subject, parses, committing, startup, task, todo,
                  workerPc, fullRequested, lockGen, lastFast, lastSlow, lastFull, shown, stale,
                  refresh, inFlight>>
  BY DEF CallStep, docVars, loopVars, parseVars, workerVars, sourceVars, fullVars, clientVars,
         refreshVars
<1>1. GlobalInv'
  BY <1>0 DEF FreshInv, GlobalInv, JobsOK, LocksOK, LateFiles
<1>2. ASSUME NEW g \in File, Ready \/ c.pc # "queue", Queued(g) PROVE Queued(g)'
  <2>1. CASE CallQueue(c)
    <3>1. /\ pending' = pending \cup c.files /\ calls \ {c} \subseteq calls'
      BY <1>2, <2>1 DEF CallQueue, At
    <3> QED
      BY <1>0, <1>2, <3>1 DEF Queued, Called
  <2>2. CASE CallBump(c) \/ CallNotify(c)
    <3>1. pending' = pending /\ calls \ {c} \subseteq calls' /\ c.pc # "queue"
      BY <2>2 DEF CallBump, CallNotify, At
    <3> QED
      BY <1>0, <1>2, <3>1 DEF Queued, Called
  <2> QED
    BY <2>1, <2>2 DEF CallStep, CallSteps
<1>3. ASSUME NEW g \in File PROVE Unmoved(g) \/ FileInv(g)'
  <2>1. CASE ~Steady(g)
    BY <1>0, <2>1 DEF FileInv, Steady
  <2>2. CASE Steady(g) /\ text[g] = 0
    <3>1. FileInv(g)'
      BY <1>0, <2>2 DEF FreshInv, FileInv, Steady, Unopened, WorkerOK, MergerOK, Alone, SetOK,
                        InHand, Holds, Merger, Passer
    <3> QED
      BY <3>1
  <2>3. CASE Steady(g) /\ text[g] # 0
    <3>1. Ready
      BY <2>3 DEF FreshInv, GlobalInv, LateFiles, Steady, Ready
    <3> QED
      BY <1>0, <1>2, <3>1 DEF Unmoved, Steady, Invalidated, Displayed, Pulling
  <2> QED
    BY <2>1, <2>2, <2>3
<1> QED
  BY <1>0, <1>1, <1>3, NoTaskMoves

-----------------------------------------------------------------------------
(* The steps of a task, on the file it has in hand.                        *)

LEMMA TaskTypesOf ==
    ASSUME TypeOK, FreshInv, NEW m \in Merger
    PROVE  /\ task \in [Merger -> Task] /\ task[m] \in Task
           /\ \A f \in task[m].job : f \in File /\ task[m].job = {f}
           /\ text \in [File -> Nat] /\ lastFast \in [File -> Nat] /\ lastSlow \in [File -> Nat]
           /\ lastFull \in [File -> MergedSet \cup {NoSet}] /\ fullRequested \in [File -> Nat]
           /\ shown \in [File -> MergedSet] /\ pullMode \in BOOLEAN
<1>1. task \in [Merger -> Task] /\ task[m] \in Task
  BY DEF TypeOK, TaskTypes
<1>2. task[m].job \subseteq File
  BY <1>1 DEF Task
<1>3. \A f, g \in task[m].job : f = g
  BY DEF FreshInv, GlobalInv, JobsOK
<1> QED
  BY <1>1, <1>2, <1>3 DEF TypeOK, DocumentTypes, QueueTypes, CacheTypes, ClientTypes

\* The file in hand is open, and of a passer it is the worker's.
LEMMA InHandIsOpen ==
    ASSUME FreshInv, NEW f \in File, Steady(f), NEW m \in Merger, f \in task[m].job
    PROVE  /\ text[f] # 0 /\ WorkerOK(f) /\ (\A n \in Merger : MergerOK(n, f)) /\ Alone(f)
           /\ SetOK(f) /\ Computed(f) /\ FastMerged(f) /\ SlowMerged(f) /\ RequestKept(f)
           /\ Displayed(f) /\ m # "catchup"
<1>1. text[f] # 0 /\ FileInv(f)
  BY DEF FreshInv, FileInv, Unopened
<1>2. m # "catchup"
  BY DEF FreshInv, GlobalInv, LateFiles, Steady
<1> QED
  BY <1>1, <1>2 DEF FileInv

\* Nothing but the task, and the caches of f, has changed.
OnlyTask(f) ==
    /\ UNCHANGED <<pullMode, text, clock, handler, subject, parses, committing, startup, workerPc,
                   todo, pending, calls, lockGen, stale, inFlight>>
    /\ refresh => refresh'
    /\ \A g \in File \ {f} :
          /\ lastFast'[g] = lastFast[g] /\ lastSlow'[g] = lastSlow[g] /\ lastFull'[g] = lastFull[g]
          /\ shown'[g] = shown[g] /\ fullRequested'[g] = fullRequested[g]

LEMMA TaskStep ==
    ASSUME TypeOK, FreshInv, NEW m \in Merger, NEW f \in File, NEW t \in Task,
           task' = [task EXCEPT ![m] = t], task[m].job = {f}, t.job = {f} \/ t = Idle,
           t.pc = "idle" => t = Idle, pullMode => t.pc # "publish", OnlyTask(f), Steady(f) => FileInv(f)'
    PROVE  FreshInv'
<1>1. \A g \in File \ {f} : Unmoved(g)
  BY DEF OnlyTask, Unmoved, Steady, Queued, Called, Invalidated, Displayed, Pulling
<1>2. FileInv(f)'
  BY DEF OnlyTask, FileInv, Steady
<1>3. task \in [Merger -> Task] /\ t.job \subseteq {f}
  BY TaskTypesOf DEF Idle
<1> QED
  BY <1>1, <1>2, <1>3, TaskMoves DEF OnlyTask

\* The worker goes on without storing or merging.
LEMMA WorkerGoesOn ==
    ASSUME TypeOK, FreshInv, NEW f \in File, Steady(f), InHand(f), NEW t \in Task,
           task' = [task EXCEPT !["worker"] = t], OnlyTask(f),
           t.job = task["worker"].job, t.content = task["worker"].content,
           t.lock = task["worker"].lock, t.got = task["worker"].got,
           t.phase = task["worker"].phase,
           t.pc = task["worker"].pc \/ {t.pc, task["worker"].pc} \subseteq Passing,
           t.pc \notin {"begin", "fast", "store-fast"} =>
                task["worker"].pc \notin {"begin", "fast", "store-fast"},
           t.blocking = "none" => t.pc = "begin", t.pc = "store-slow" => t.blocking = "slow",
           UNCHANGED <<lastFast, lastSlow, lastFull, shown>>,
           fullRequested'[f] # 0 =>
                fullRequested[f] # 0 /\ (task["worker"].pc = "begin" => t.pc = "begin")
    PROVE  FileInv(f)'
<1>0. "worker" \in Merger
  BY DEF Merger, Passer
<1>1. /\ text[f] # 0 /\ WorkerOK(f) /\ (\A n \in Merger : MergerOK(n, f)) /\ Alone(f)
      /\ SetOK(f) /\ Computed(f) /\ FastMerged(f) /\ SlowMerged(f) /\ RequestKept(f) /\ Displayed(f)
  BY <1>0, InHandIsOpen DEF InHand
<1>2. task'["worker"] = t /\ \A n \in Merger \ {"worker"} : task'[n] = task[n]
  BY <1>0, TaskTypesOf
<1>3. WorkerOK(f)'
  BY <1>1, <1>2 DEF WorkerOK, InHand, OnlyTask, Passing
<1>4. ASSUME NEW n \in Merger PROVE MergerOK(n, f)'
  <2>1. MergerOK(n, f)
    BY <1>1
  <2>2. CASE n = "worker"
    BY <1>2, <2>1, <2>2 DEF MergerOK, Holding, Passing
  <2>3. CASE n # "worker"
    BY <1>2, <2>1, <2>3 DEF MergerOK
  <2> QED
    BY <2>2, <2>3
<1>5. \A n \in Merger : Holds(n, f, 0)' => Holds(n, f, 0)
  BY <1>0, <1>2 DEF Holds, Holding, Passing
<1>6. Alone(f)' /\ SetOK(f)'
  BY <1>1, <1>5 DEF Alone, SetOK, OnlyTask
<1>7. Computed(f)' /\ RequestKept(f)'
  BY <1>1, <1>2 DEF Computed, RequestKept, Queued, Called, InHand, OnlyTask
<1>8. Coming(f) => Coming(f)'
  BY <1>2 DEF Coming, Queued, Called, Invalidated, InPass, InHand, OnlyTask
<1>9. \A n \in Merger : (ReadsFast(n, f) => ReadsFast(n, f)') /\ (ReadsSlow(n, f) => ReadsSlow(n, f)')
  BY <1>0, <1>2 DEF ReadsFast, ReadsSlow, Holding, Passing
<1>10. FastMerged(f)' /\ SlowMerged(f)'
  BY <1>1, <1>8, <1>9 DEF FastMerged, SlowMerged
<1>11. Displayed(f)'
  BY <1>1 DEF Displayed, Pulling, OnlyTask
<1> QED
  BY <1>1, <1>3, <1>4, <1>6, <1>7, <1>10, <1>11 DEF FileInv, OnlyTask

LEMMA PassGoesOnFresh ==
    ASSUME TypeOK, FreshInv, NEW p \in Passer, NEW f \in File,
           PassBegin(p, f) \/ BlockingStep(p, f) \/ CheckFast(p, f) \/ Await(p, f)
    PROVE  FreshInv'
<1>0. /\ p \in Merger /\ task \in [Merger -> Task] /\ task[p] \in Task /\ task[p].job = {f}
      /\ fullRequested \in [File -> Nat]
  BY TaskTypesOf DEF Merger, Passer, PassBegin, BlockingStep, CheckFast, Await
<1>1. /\ UNCHANGED <<lastFast, lastSlow, lastFull, shown>> /\ OnlyTask(f)
  BY <1>0 DEF PassBegin, BlockingStep, CheckFast, Await, OnlyTask, docVars, loopVars, parseVars,
     queueVars, workerVars, sourceVars, fullVars, clientVars, refreshVars
<1>2. Steady(f) => /\ p = "worker" /\ text[f] # 0 /\ WorkerOK(f)
  BY <1>0, InHandIsOpen DEF Passer
<1> DEFINE old == task[p]
<1>3. CASE PassBegin(p, f)
  <2>1. PICK t \in Task : t = [old EXCEPT !.pc = "fast", !.blocking = "fast", !.full = fullRequested[f]]
    BY <1>0 DEF Task, Step
  <2>2. /\ t.pc = "fast" /\ t.blocking = "fast" /\ t.job = old.job /\ t.content = old.content
        /\ t.lock = old.lock /\ t.got = old.got /\ t.phase = old.phase /\ old.pc = "begin"
    BY <1>0, <1>3, <2>1 DEF Task, PassBegin
  <2>3. task' = [task EXCEPT ![p] = t] /\ fullRequested'[f] = 0
    BY <1>0, <1>3, <2>1 DEF PassBegin
  <2>4. Steady(f) => FileInv(f)'
    BY <1>0, <1>1, <1>2, <2>2, <2>3, WorkerGoesOn DEF InHand, Passing
  <2> QED
    BY <1>0, <1>1, <2>2, <2>3, <2>4, TaskStep
<1>4. CASE BlockingStep(p, f)
  <2>1. PICK b \in {"between", "slow", "none"} :
          /\ task' = [task EXCEPT ![p].blocking = b]
          /\ b = "none" => text[f] = 0
          /\ b = "between" => old.blocking = "fast"
          /\ old.blocking \in {"fast", "between"}
    BY <1>4 DEF BlockingStep, IsOpen
  <2>2. PICK t \in Task : t = [old EXCEPT !.blocking = b]
    BY <1>0 DEF Task
  <2>3. /\ t.pc = old.pc /\ t.blocking = b /\ t.job = old.job /\ t.content = old.content
        /\ t.lock = old.lock /\ t.got = old.got /\ t.phase = old.phase
    BY <1>0, <2>2 DEF Task
  <2>4. task' = [task EXCEPT ![p] = t] /\ fullRequested' = fullRequested
    BY <1>4, <2>1, <2>2 DEF BlockingStep
  <2>5. Steady(f) => b # "none" /\ (t.pc = "store-slow" => b = "slow")
    BY <1>0, <1>2, <2>1, <2>3 DEF WorkerOK, InHand
  <2>6. Steady(f) => FileInv(f)'
    BY <1>0, <1>1, <1>2, <2>3, <2>4, <2>5, WorkerGoesOn DEF InHand
  <2>7. (t.pc = "idle" => t = Idle) /\ (pullMode => t.pc # "publish")
    BY <1>0, <2>3 DEF FreshInv, GlobalInv, JobsOK, Idle
  <2> QED
    BY <1>0, <1>1, <2>3, <2>4, <2>6, <2>7, TaskStep
<1>5. CASE CheckFast(p, f) \/ Await(p, f)
  <2> DEFINE step == IF CheckFast(p, f) THEN "store-fast" ELSE "store-slow"
  <2>1. PICK next \in {"store-fast", "store-slow"} :
          /\ IfOpen(p, f, next)
          /\ next = "store-fast" => old.pc = "fast" /\ old.blocking # "fast"
          /\ next = "store-slow" => old.pc = "await" /\ old.blocking \in {"slow", "none"}
          /\ fullRequested'[f] # fullRequested[f] => old.blocking = "none" /\ next = "store-slow"
    BY <1>0, <1>5 DEF CheckFast, Await
  <2>2. CASE text[f] # 0
    <3>1. PICK t \in Task : t = [old EXCEPT !.pc = next]
      BY <1>0 DEF Task, Step
    <3>2. /\ t.pc = next /\ t.blocking = old.blocking /\ t.job = old.job /\ t.content = old.content
          /\ t.lock = old.lock /\ t.got = old.got /\ t.phase = old.phase
      BY <1>0, <3>1 DEF Task
    <3>3. task' = [task EXCEPT ![p] = t]
      BY <2>1, <2>2, <3>1 DEF IfOpen, IsOpen
    <3>4. Steady(f) => FileInv(f)'
      <4>1. SUFFICES ASSUME Steady(f) PROVE FileInv(f)'
        OBVIOUS
      <4>2. old.blocking = "none" => old.pc = "begin"
        BY <1>0, <1>2, <4>1 DEF WorkerOK, InHand
      <4>3. /\ fullRequested'[f] = fullRequested[f] /\ old.pc # "begin" /\ old.blocking # "none"
            /\ {next, old.pc} \subseteq Passing /\ next # "begin"
            /\ next = "store-slow" => old.blocking = "slow" /\ old.pc = "await"
            /\ next \notin {"begin", "fast", "store-fast"} => old.pc = "await"
        BY <2>1, <4>2 DEF Passing
      <4> QED
        BY <1>0, <1>1, <1>2, <3>2, <3>3, <4>1, <4>3, WorkerGoesOn DEF InHand
    <3> QED
      BY <1>0, <1>1, <3>2, <3>3, <3>4, TaskStep
  <2>3. CASE text[f] = 0
    <3>1. task' = [task EXCEPT ![p] = Idle] /\ ~Steady(f)
      BY <1>2, <2>1, <2>3 DEF IfOpen, IsOpen
    <3> QED
      BY <1>0, <1>1, <3>1, IdleType, TaskStep DEF Idle
  <2> QED
    BY <2>2, <2>3
<1> QED
  BY <1>3, <1>4, <1>5

\* Whatever is stored, a merge follows that reads it.
LEMMA PassStoresFresh ==
    ASSUME TypeOK, FreshInv, NEW p \in Passer, NEW f \in File, StoreFast(p, f) \/ StoreSlow(p, f)
    PROVE  FreshInv'
<1>0. /\ p \in Merger /\ task \in [Merger -> Task] /\ task[p] \in Task /\ task[p].job = {f}
      /\ lastFast \in [File -> Nat] /\ lastSlow \in [File -> Nat]
  BY TaskTypesOf DEF Merger, Passer, StoreFast, StoreSlow
<1> DEFINE old == task[p]
<1>1. /\ UNCHANGED <<lastFull, shown, fullRequested>> /\ OnlyTask(f)
  BY <1>0 DEF StoreFast, StoreSlow, OnlyTask, docVars, loopVars, parseVars,
     queueVars, workerVars, sourceVars, fullVars, clientVars, refreshVars
<1>2. PICK phase \in {"fast", "slow"} :
        /\ task' = [task EXCEPT ![p].pc = "fetch", ![p].phase = phase]
        /\ \/ /\ phase = "slow" /\ old.pc = "store-slow" /\ lastFast' = lastFast
              /\ lastSlow' = [lastSlow EXCEPT ![f] = IF old.blocking = "slow"
                                                     THEN old.content ELSE 0]
           \/ /\ phase = old.phase /\ old.pc = "store-fast" /\ lastSlow' = lastSlow
              /\ lastFast' = [lastFast EXCEPT ![f] = old.content]
  <2>1. CASE StoreFast(p, f)
    <3>1. old.phase \in {"fast", "slow"} /\ task' = [task EXCEPT ![p].pc = "fetch", ![p].phase = old.phase]
      BY <1>0, <2>1 DEF StoreFast, Task
    <3> QED
      BY <2>1, <3>1 DEF StoreFast
  <2>2. CASE StoreSlow(p, f)
    BY <2>2 DEF StoreSlow
  <2> QED
    BY <2>1, <2>2
<1>3. PICK t \in Task : t = [old EXCEPT !.pc = "fetch", !.phase = phase]
  BY <1>0 DEF Task, Step
<1>4. /\ t.pc = "fetch" /\ t.blocking = old.blocking /\ t.job = old.job /\ t.content = old.content
      /\ t.lock = old.lock /\ t.got = old.got /\ t.phase = phase
  BY <1>0, <1>3 DEF Task
<1>5. task' = [task EXCEPT ![p] = t]
  BY <1>2, <1>3
<1>6. ASSUME Steady(f) PROVE FileInv(f)'
  <2>1. /\ p = "worker" /\ text[f] # 0 /\ WorkerOK(f) /\ (\A n \in Merger : MergerOK(n, f))
        /\ Alone(f) /\ SetOK(f) /\ Computed(f) /\ RequestKept(f) /\ Displayed(f)
    BY <1>0, <1>6, InHandIsOpen DEF Passer
  <2>2. /\ task'["worker"] = t /\ (\A n \in Merger \ {"worker"} : task'[n] = task[n])
        /\ f \in t.job /\ f \in old.job
    BY <1>0, <1>4, <1>5, <2>1
  <2>3. /\ old.content <= text[f] /\ lastFast[f] <= old.content /\ lastSlow[f] <= old.content
        /\ old.pc # "store-fast" => lastFast[f] = old.content
        /\ old.blocking # "none" /\ (old.pc = "store-slow" => old.blocking = "slow")
        /\ old.pc = "store-fast" => old.phase # "slow"
        /\ old.content \in Nat /\ text[f] \in Nat /\ lastFast[f] \in Nat /\ lastSlow[f] \in Nat
    <3>1. old.pc \in {"store-fast", "store-slow"}
      BY <1>2
    <3>2. old.content \in Nat /\ text[f] \in Nat /\ lastFast[f] \in Nat /\ lastSlow[f] \in Nat
      BY <1>0, TaskTypesOf DEF Task
    <3> QED
      BY <2>1, <2>2, <3>1, <3>2 DEF WorkerOK, InHand, Passing
  <2>4. /\ lastFast'[f] = old.content
        /\ lastSlow'[f] = IF phase = "slow" THEN old.content ELSE lastSlow[f]
        /\ lastSlow'[f] <= old.content /\ lastFast[f] <= lastFast'[f] /\ lastSlow[f] <= lastSlow'[f]
        /\ lastFast'[f] \in Nat /\ lastSlow'[f] \in Nat
    BY <1>0, <1>2, <2>3
  <2>5. WorkerOK(f)'
    BY <1>1, <1>4, <2>2, <2>3, <2>4 DEF WorkerOK, InHand, OnlyTask, Passing
  <2>6. ASSUME NEW n \in Merger PROVE MergerOK(n, f)'
    <3>1. MergerOK(n, f) /\ task[n] \in Task
      BY <2>1, TaskTypesOf
    <3>2. CASE n = "worker"
      BY <1>4, <2>1, <2>2, <3>1, <3>2 DEF MergerOK, Holding
    <3>3. CASE n # "worker"
      <4>1. task[n].got.fast \in Nat /\ task[n].got.slow \in Nat
        BY <3>1 DEF Task, MergedSet
      <4> QED
        BY <1>1, <2>2, <2>3, <2>4, <3>1, <3>3, <4>1 DEF MergerOK
    <3> QED
      BY <3>2, <3>3
  <2>7. Alone(f)'
    BY <1>4, <2>1, <2>2 DEF Alone, Holds, Holding
  <2>8. SetOK(f)'
    <3>1. lastFull[f] # NoSet => lastFull[f].fast \in Nat /\ lastFull[f].slow \in Nat
      BY <1>0, TaskTypesOf DEF MergedSet
    <3> QED
      BY <1>1, <2>1, <2>3, <2>4, <3>1 DEF SetOK, OnlyTask
  <2>a. Queued(f) => Queued(f)'
    BY <1>1 DEF Queued, Called, OnlyTask
  <2>9. Computed(f)'
    <3>1. CASE Queued(f) \/ old.content = text[f]
      BY <1>1, <1>4, <2>2, <2>a, <3>1 DEF Computed, InHand, OnlyTask
    <3>2. CASE lastFast[f] = text[f]
      <4>1. old.content = text[f]
        BY <2>3, <3>2
      <4> QED
        BY <1>1, <1>4, <2>2, <4>1 DEF Computed, InHand, OnlyTask
    <3> QED
      BY <2>1, <3>1, <3>2 DEF Computed
  <2>10. FastMerged(f)' /\ SlowMerged(f)'
    <3>1. ReadsFast("worker", f)' /\ ReadsSlow("worker", f)' /\ "worker" \in Merger
      BY <1>0, <1>4, <2>1, <2>2 DEF ReadsFast, ReadsSlow
    <3> QED
      BY <3>1 DEF FastMerged, SlowMerged
  <2>11. RequestKept(f)'
    BY <1>1, <1>2, <2>1, <2>a DEF RequestKept
  <2>12. Displayed(f)'
    BY <1>1, <2>1 DEF Displayed, Pulling, OnlyTask
  <2> QED
    BY <1>1, <2>1, <2>5, <2>6, <2>7, <2>8, <2>9, <2>10, <2>11, <2>12 DEF FileInv, OnlyTask
<1> QED
  BY <1>0, <1>1, <1>4, <1>5, <1>6, TaskStep

\* The worker takes the text there is now; the catch-up task never has a file
\* that was opened after it.
LEMMA NextFileFresh ==
    ASSUME TypeOK, FreshInv, NEW p \in Passer, NEW f \in File, NextFile(p, f) PROVE FreshInv'
<1>0. /\ p \in Merger /\ task \in [Merger -> Task] /\ f \in todo[p] /\ task[p] = Idle
      /\ text \in [File -> Nat] /\ snap \in [File -> Nat] /\ todo \in [Passer -> SUBSET File]
  BY TaskTypesOf DEF Merger, Passer, NextFile, TypeOK, QueueTypes, FreshInv, GlobalInv, JobsOK
<1>1. /\ UNCHANGED <<pullMode, text, clock, handler, subject, parses, committing, startup, workerPc,
                     lockGen, lastFast, lastSlow, lastFull, fullRequested, shown, stale, refresh,
                     inFlight, pending>>
      /\ todo' = [todo EXCEPT ![p] = @ \ {f}] /\ calls \subseteq calls'
  BY DEF NextFile, docVars, loopVars, parseVars, queueVars, sourceVars, fullVars,
     clientVars, refreshVars, Schedule
<1>2. \A q \in Passer : todo'[q] \subseteq todo[q] /\ todo[q] \ {f} \subseteq todo'[q]
  BY <1>0, <1>1
<1>3. \A g \in File \ {f} : Unmoved(g)
  BY <1>1, <1>2 DEF Unmoved, Steady, Queued, Called, Invalidated, Displayed, Pulling, Passer
<1>4. Steady(f) => p = "worker"
  BY <1>0 DEF Steady, FreshInv, GlobalInv, LateFiles, Passer
<1>5. PICK c \in Nat : /\ (p = "worker" => c = text[f])
                       /\ c = 0 => task' = task
                       /\ c # 0 => task' = [task EXCEPT ![p].pc = "begin", ![p].job = {f},
                                                        ![p].content = c]
  <2>1. text[f] \in Nat /\ snap[f] \in Nat
    BY <1>0
  <2> QED
    BY <2>1 DEF NextFile
<1>6. CASE c = 0
  <2>1. GlobalInv'
    BY <1>1, <1>2, <1>5, <1>6 DEF FreshInv, GlobalInv, JobsOK, LocksOK, LateFiles, Passer
  <2>2. FileInv(f)'
    <3>1. SUFFICES ASSUME Steady(f) PROVE FileInv(f)'
      BY <1>1 DEF FileInv, Steady
    <3>2. text[f] = 0 /\ Unopened(f) /\ WorkerOK(f) /\ (\A n \in Merger : MergerOK(n, f))
          /\ Alone(f) /\ SetOK(f)
      BY <1>4, <1>5, <1>6, <3>1 DEF FreshInv, FileInv
    <3> QED
      BY <1>1, <1>5, <1>6, <3>2 DEF FileInv, Unopened, WorkerOK, InHand, MergerOK, Alone, Holds, SetOK
  <2> QED
    BY <1>3, <1>5, <1>6, <2>1, <2>2, NoTaskMoves
<1>7. CASE c # 0
  <2>1. Idle \in Task
    BY IdleType
  <2>2. PICK t \in Task : t = [Idle EXCEPT !.pc = "begin", !.job = {f}, !.content = c]
    BY <2>1 DEF Task, Step
  <2>3. /\ t.pc = "begin" /\ t.job = {f} /\ t.content = c /\ t.phase = "fast" /\ t.lock = 0
    BY <2>2 DEF Idle
  <2>4. task' = [task EXCEPT ![p] = t]
    BY <1>0, <1>5, <1>7, <2>2
  <2>5. ASSUME Steady(f) PROVE FileInv(f)'
    <3>1. p = "worker" /\ text[f] # 0 /\ FileInv(f) /\ c = text[f]
      BY <1>4, <1>5, <1>7, <2>5 DEF FreshInv
    <3>2. /\ (\A n \in Merger : MergerOK(n, f)) /\ Alone(f) /\ SetOK(f)
          /\ Computed(f) /\ RequestKept(f) /\ Displayed(f)
      BY <2>5, <3>1 DEF FileInv
    <3>3. task'["worker"] = t /\ \A n \in Merger \ {"worker"} : task'[n] = task[n]
      BY <1>0, <2>4, <3>1
    <3>a. text[f] \in Nat
      BY <1>0
    <3>4. WorkerOK(f)'
      BY <1>1, <2>3, <3>1, <3>2, <3>3, <3>a DEF WorkerOK, SetOK
    <3>5. \A n \in Merger : MergerOK(n, f)'
      BY <1>1, <2>3, <3>2, <3>3 DEF MergerOK, Holding
    <3>6. Alone(f)' /\ SetOK(f)'
      BY <1>1, <2>3, <3>2, <3>3 DEF Alone, Holds, Holding, SetOK
    <3>7. Computed(f)' /\ FastMerged(f)' /\ SlowMerged(f)' /\ RequestKept(f)'
      BY <1>1, <2>3, <3>1, <3>3
         DEF Computed, FastMerged, SlowMerged, RequestKept, Coming, InPass, InHand
    <3>8. Displayed(f)'
      BY <1>1, <3>2 DEF Displayed, Pulling
    <3> QED
      BY <1>1, <3>1, <3>4, <3>5, <3>6, <3>7, <3>8 DEF FileInv
  <2>6. FileInv(f)'
    BY <1>1, <2>5 DEF FileInv, Steady
  <2>7. p = "catchup" => f \in StartupFiles
    BY <1>0 DEF FreshInv, GlobalInv, LateFiles
  <2>8. task[p].job \subseteq {f}
    BY <1>0 DEF Idle
  <2> QED
    BY <1>0, <1>1, <1>2, <1>3, <2>3, <2>4, <2>6, <2>7, <2>8, TaskMoves
<1> QED
  BY <1>6, <1>7

-----------------------------------------------------------------------------
(* The steps of a merge, and the tool's, on the file in hand.              *)

\* What a task may do with a file outside a pass: go on with it, or put it
\* down once both phases of the pass have been merged.
HandsOver(m, f, t) ==
    m = "worker" =>
        /\ f \in task["worker"].job /\ task["worker"].pc \notin Passing
        /\ \/ /\ t.job = task["worker"].job /\ t.content = task["worker"].content
              /\ t.phase = task["worker"].phase /\ t.blocking = task["worker"].blocking
              /\ t.pc \notin Passing \/ (t.pc = "await" /\ t.phase = "fast")
           \/ t = Idle /\ task["worker"].phase = "slow"

\* The native caches, and what is asked of the file, stay.
LEMMA HandsOverFresh ==
    ASSUME TypeOK, FreshInv, NEW m \in Merger, NEW f \in File, Steady(f), text[f] # 0,
           NEW t \in Task, task' = [task EXCEPT ![m] = t], OnlyTask(f), HandsOver(m, f, t),
           UNCHANGED <<lastFast, lastSlow, fullRequested>>
    PROVE  WorkerOK(f)' /\ Computed(f)' /\ RequestKept(f)' /\ (Coming(f) => Coming(f)')
<1>0. "worker" \in Merger /\ task \in [Merger -> Task]
  BY TaskTypesOf DEF Merger, Passer
<1>1. /\ WorkerOK(f) /\ Computed(f) /\ RequestKept(f)
  BY DEF FreshInv, FileInv
<1>2. task'["worker"] = IF m = "worker" THEN t ELSE task["worker"]
  BY <1>0
<1>3. WorkerOK(f)'
  BY <1>1, <1>2 DEF WorkerOK, InHand, OnlyTask, HandsOver, Passing, Idle
<1>4. Queued(f)' = Queued(f)
  BY DEF Queued, Called, OnlyTask
<1>5. Computed(f)'
  <2>1. CASE m = "worker" /\ t = Idle
    <3>1. InHand(f) /\ task["worker"].phase = "slow" /\ task["worker"].pc \notin Passing
      BY <2>1 DEF HandsOver, InHand, Idle
    <3>2. lastFast[f] = task["worker"].content /\ lastSlow[f] = task["worker"].content
      BY <1>1, <3>1 DEF WorkerOK, Passing
    <3> QED
      BY <1>1, <1>4, <3>2 DEF Computed, OnlyTask
  <2>2. CASE ~(m = "worker" /\ t = Idle)
    BY <1>1, <1>2, <1>4, <2>2 DEF Computed, InHand, OnlyTask, HandsOver
  <2> QED
    BY <2>1, <2>2
<1>6. RequestKept(f)'
  BY <1>1, <1>2, <1>4 DEF RequestKept, InHand, HandsOver, Passing
<1>7. Coming(f) => Coming(f)'
  BY <1>2, <1>4 DEF Coming, Invalidated, InPass, InHand, OnlyTask, HandsOver
<1> QED
  BY <1>3, <1>5, <1>6, <1>7

\* A step that writes no cache, and after which the task still has to read
\* what it had to read.
LEMMA MergerGoesOn ==
    ASSUME TypeOK, FreshInv, NEW m \in Merger, NEW f \in File, Steady(f), text[f] # 0,
           NEW t \in Task, task' = [task EXCEPT ![m] = t], OnlyTask(f), HandsOver(m, f, t),
           UNCHANGED <<lastFast, lastSlow, lastFull, fullRequested>>, Displayed(f) => Displayed(f)',
           MergerOK(m, f)', \A n \in Merger : n # m /\ Holds(m, f, 0)' => ~Holds(n, f, 0),
           ReadsFast(m, f) => ReadsFast(m, f)', ReadsSlow(m, f) => ReadsSlow(m, f)'
    PROVE  FileInv(f)'
<1>0. task \in [Merger -> Task]
  BY TaskTypesOf
<1>1. /\ (\A n \in Merger : MergerOK(n, f)) /\ Alone(f) /\ SetOK(f)
      /\ FastMerged(f) /\ SlowMerged(f) /\ Displayed(f)
  BY DEF FreshInv, FileInv
<1>2. \A n \in Merger \ {m} : task'[n] = task[n]
  BY <1>0
<1>3. WorkerOK(f)' /\ Computed(f)' /\ RequestKept(f)' /\ (Coming(f) => Coming(f)')
  BY HandsOverFresh
<1>4. \A n \in Merger : MergerOK(n, f)'
  BY <1>1, <1>2 DEF MergerOK
<1>5. Alone(f)'
  BY <1>1, <1>2 DEF Alone, Holds
<1>6. SetOK(f)'
  BY <1>1 DEF SetOK, OnlyTask
<1>7. \A n \in Merger : (ReadsFast(n, f) => ReadsFast(n, f)') /\ (ReadsSlow(n, f) => ReadsSlow(n, f)')
  BY <1>2 DEF ReadsFast, ReadsSlow
<1>8. FastMerged(f)' /\ SlowMerged(f)'
  BY <1>1, <1>3, <1>7 DEF FastMerged, SlowMerged
<1> QED
  BY <1>1, <1>3, <1>4, <1>5, <1>6, <1>8 DEF FileInv, OnlyTask

\* The tool picks an open file when it has none.
LEMMA ToolStartFresh ==
    ASSUME TypeOK, FreshInv, NEW f \in File, ToolStart(f) PROVE FreshInv'
<1>0. /\ "tool" \in Merger /\ task \in [Merger -> Task] /\ task["tool"] = Idle
      /\ text[f] # 0 /\ text[f] \in Nat /\ Idle \in Task
  BY TaskTypesOf, IdleType DEF Merger, ToolStart, FreshInv, GlobalInv, JobsOK, IsOpen
<1>1. PICK t \in Task : t = [Idle EXCEPT !.pc = "run", !.job = {f}, !.content = text[f]]
  BY <1>0 DEF Task, Step
<1>2. t.pc = "run" /\ t.job = {f} /\ t.lock = 0
  BY <1>1 DEF Idle
<1>3. task' = [task EXCEPT !["tool"] = t]
  BY <1>0, <1>1 DEF ToolStart
<1>4. /\ UNCHANGED <<lastFast, lastSlow, lastFull, fullRequested, shown>> /\ OnlyTask(f)
  BY DEF ToolStart, OnlyTask, docVars, loopVars, parseVars,
     queueVars, workerVars, sourceVars, fullVars, clientVars, refreshVars
<1>5. ASSUME Steady(f) PROVE FileInv(f)'
  <2>1. MergerOK("tool", f)' /\ ~Holds("tool", f, 0)' /\ ~ReadsFast("tool", f) /\ ~ReadsSlow("tool", f)
    BY <1>0, <1>2, <1>3 DEF MergerOK, Holds, ReadsFast, ReadsSlow, Holding, Idle
  <2>2. HandsOver("tool", f, t) /\ (Displayed(f) => Displayed(f)')
    BY <1>4 DEF HandsOver, Displayed, Pulling, OnlyTask
  <2> QED
    BY <1>0, <1>3, <1>4, <1>5, <2>1, <2>2, MergerGoesOn
<1>6. FileInv(f)'
  BY <1>4, <1>5 DEF FileInv, Steady, OnlyTask
<1>7. \A g \in File \ {f} : Unmoved(g)
  BY <1>4 DEF OnlyTask, Unmoved, Steady, Queued, Called, Invalidated, Displayed, Pulling
<1>8. task["tool"].job \subseteq {f}
  BY <1>0 DEF Idle
<1>9. \A p \in Passer : todo'[p] \subseteq todo[p]
  BY <1>4 DEF OnlyTask
<1> QED
  BY <1>0, <1>2, <1>3, <1>4, <1>6, <1>7, <1>8, <1>9, TaskMoves DEF OnlyTask

\* The tool's findings are no part of what is owed.
LEMMA ToolStepFresh ==
    ASSUME TypeOK, FreshInv, NEW f \in File, ToolStep(f) PROVE FreshInv'
<1> DEFINE old == task["tool"]
<1>0. /\ "tool" \in Merger /\ task \in [Merger -> Task] /\ old \in Task /\ old.job = {f}
      /\ old.pc \in {"run", "store-tool"} /\ Idle \in Task
  BY TaskTypesOf, IdleType DEF Merger, ToolStep, ToolExit, ToolStore
<1>1. /\ UNCHANGED <<lastFast, lastSlow, lastFull, fullRequested, shown>> /\ OnlyTask(f)
  BY DEF ToolStep, ToolExit, ToolStore, OnlyTask, docVars, loopVars, parseVars,
     queueVars, workerVars, sourceVars, fullVars, clientVars, refreshVars
<1>2. PICK t \in Task : /\ task' = [task EXCEPT !["tool"] = t]
                        /\ \/ t = Idle
                           \/ /\ t.pc \in {"store-tool", "fetch"} /\ t.job = old.job
                              /\ t.lock = old.lock
  <2>1. CASE task' = [task EXCEPT !["tool"] = Idle]
    BY <1>0, <2>1
  <2>2. CASE ToolExit(f) /\ task' # [task EXCEPT !["tool"] = Idle]
    <3>1. PICK t \in Task : t = [old EXCEPT !.pc = "store-tool"]
      BY <1>0 DEF Task, Step
    <3>2. t.pc = "store-tool" /\ t.job = old.job /\ t.lock = old.lock
      BY <1>0, <3>1 DEF Task
    <3>3. task' = [task EXCEPT !["tool"] = t]
      BY <2>2, <3>1 DEF ToolExit, IfOpen
    <3> QED
      BY <3>2, <3>3
  <2>3. CASE ToolStore(f)
    <3>1. PICK t \in Task : t = [old EXCEPT !.pc = "fetch", !.phase = "slow"]
      BY <1>0 DEF Task, Step
    <3>2. t.pc = "fetch" /\ t.job = old.job /\ t.lock = old.lock
      BY <1>0, <3>1 DEF Task
    <3>3. task' = [task EXCEPT !["tool"] = t]
      BY <1>0, <2>3, <3>1 DEF ToolStore
    <3> QED
      BY <3>2, <3>3
  <2> QED
    BY <2>1, <2>2, <2>3 DEF ToolStep
<1>3. ASSUME Steady(f) PROVE FileInv(f)'
  <2>1. text[f] # 0 /\ MergerOK("tool", f)
    BY <1>0, <1>3, InHandIsOpen
  <2>2. MergerOK("tool", f)' /\ ~Holds("tool", f, 0)' /\ ~ReadsFast("tool", f) /\ ~ReadsSlow("tool", f)
    BY <1>0, <1>2, <2>1 DEF MergerOK, Holds, ReadsFast, ReadsSlow, Holding, Idle
  <2>3. HandsOver("tool", f, t) /\ (Displayed(f) => Displayed(f)')
    BY <1>1 DEF HandsOver, Displayed, Pulling, OnlyTask
  <2> QED
    BY <1>0, <1>1, <1>2, <1>3, <2>1, <2>2, <2>3, MergerGoesOn
<1>4. /\ t.job = {f} \/ t = Idle
      /\ t.pc = "idle" => t = Idle
      /\ t.pc # "publish"
  BY <1>0, <1>2 DEF Idle
<1> QED
  BY <1>0, <1>1, <1>2, <1>3, <1>4, TaskStep

\* The lock is fetched, taken, and the caches read under it.
LEMMA MergeReadsFresh ==
    ASSUME TypeOK, FreshInv, NEW m \in Merger, NEW f \in File,
           MergeFetch(m, f) \/ MergeAcquire(m, f) \/ MergeRead(m, f)
    PROVE  FreshInv'
<1> DEFINE old == task[m]
<1>0. /\ task \in [Merger -> Task] /\ old \in Task /\ old.job = {f}
      /\ lastFast \in [File -> Nat] /\ lastSlow \in [File -> Nat]
      /\ lastFast[f] \in Nat /\ lastSlow[f] \in Nat /\ lastTool[f] \in Nat /\ lockGen[f] \in Nat
  BY TaskTypesOf DEF MergeFetch, MergeAcquire, MergeRead, TypeOK, CacheTypes
<1>1. /\ UNCHANGED <<lastFast, lastSlow, lastFull, fullRequested, shown>> /\ OnlyTask(f)
  BY DEF MergeFetch, MergeAcquire, MergeRead, OnlyTask, docVars, loopVars, parseVars,
     queueVars, workerVars, sourceVars, fullVars, clientVars, refreshVars
<1> DEFINE Goes(t) == /\ t.job = old.job /\ t.content = old.content /\ t.phase = old.phase
                      /\ t.blocking = old.blocking
<1>2. PICK t \in Task :
        /\ task' = [task EXCEPT ![m] = t] /\ Goes(t)
        /\ \/ /\ old.pc = "fetch" /\ t.pc = "acquire" /\ t.lock = lockGen[f]
           \/ /\ old.pc = "acquire" /\ t.pc = "read" /\ t.lock = old.lock
              /\ t.got.fast = lastFast[f] /\ LockFree(m, f)
           \/ /\ old.pc = "read" /\ t.pc = "commit" /\ t.lock = old.lock
              /\ t.got.fast = old.got.fast /\ t.got.slow = lastSlow[f]
  <2>1. CASE MergeFetch(m, f)
    <3>1. PICK t \in Task : t = [old EXCEPT !.pc = "acquire", !.lock = lockGen[f]]
      BY <1>0 DEF Task, Step
    <3>2. t.pc = "acquire" /\ t.lock = lockGen[f] /\ Goes(t)
      BY <1>0, <3>1 DEF Task
    <3>3. task' = [task EXCEPT ![m] = t] /\ old.pc = "fetch"
      BY <1>0, <2>1, <3>1 DEF MergeFetch
    <3> QED
      BY <3>2, <3>3
  <2>2. CASE MergeAcquire(m, f)
    <3>a. old.got \in MergedSet
      BY <1>0 DEF Task
    <3>0. PICK g \in MergedSet : g = [old.got EXCEPT !.fast = lastFast[f]]
      BY <1>0, <3>a DEF MergedSet
    <3>1. PICK t \in Task : t = [old EXCEPT !.pc = "read", !.got = g]
      BY <1>0 DEF Task, Step, Holding
    <3>2. t.pc = "read" /\ t.lock = old.lock /\ t.got = g /\ Goes(t)
      BY <1>0, <3>1 DEF Task
    <3>b. g.fast = lastFast[f]
      BY <3>0, <3>a DEF MergedSet
    <3>3. task' = [task EXCEPT ![m] = t] /\ old.pc = "acquire" /\ LockFree(m, f)
      BY <1>0, <2>2, <3>0, <3>1 DEF MergeAcquire
    <3> QED
      BY <3>2, <3>3, <3>b
  <2>3. CASE MergeRead(m, f)
    <3>a. old.got \in MergedSet
      BY <1>0 DEF Task
    <3>0. PICK g \in MergedSet : g = [old.got EXCEPT !.slow = lastSlow[f], !.tool = lastTool[f]]
      BY <1>0, <3>a DEF MergedSet
    <3>1. PICK t \in Task : t = [old EXCEPT !.pc = "commit", !.got = g]
      BY <1>0 DEF Task, Step, Holding
    <3>2. t.pc = "commit" /\ t.lock = old.lock /\ t.got = g /\ Goes(t)
      BY <1>0, <3>1 DEF Task
    <3>b. g.fast = old.got.fast /\ g.slow = lastSlow[f]
      BY <3>0, <3>a DEF MergedSet
    <3>c. t = [old EXCEPT !.pc = "commit", !.got.slow = lastSlow[f], !.got.tool = lastTool[f]]
      BY <3>0, <3>1
    <3>3. task' = [task EXCEPT ![m] = t] /\ old.pc = "read"
      BY <1>0, <2>3, <3>c DEF MergeRead
    <3> QED
      BY <3>2, <3>3, <3>b
  <2> QED
    BY <2>1, <2>2, <2>3
<1>3. ASSUME Steady(f) PROVE FileInv(f)'
  <2>1. text[f] # 0 /\ (\A n \in Merger : MergerOK(n, f)) /\ Alone(f) /\ SetOK(f) /\ lockGen[f] = 0
    BY <1>0, <1>3, InHandIsOpen DEF Steady
  <2>2. task'[m] = t /\ f \in t.job /\ old.lock = 0 /\ t.lock = 0
    BY <1>0, <1>2, <2>1 DEF MergerOK
  <2>3. MergerOK(m, f)'
    <3>1. lastFull[f] # NoSet => /\ lastFull[f].fast <= lastFast[f]
                                 /\ lastFull[f].slow <= lastSlow[f]
      BY <2>1 DEF SetOK
    <3>2. old.pc \in Holding => /\ old.got.fast <= lastFast[f]
                                /\ lastFull[f] # NoSet => lastFull[f].fast <= old.got.fast
      BY <1>0, <2>1 DEF MergerOK
    <3>3. t.pc \in Holding => /\ t.got.fast <= lastFast[f]
                              /\ lastFull[f] # NoSet => lastFull[f].fast <= t.got.fast
      BY <1>0, <1>2, <3>1, <3>2 DEF Holding
    <3>4. t.pc = "commit" => /\ t.got.slow <= lastSlow[f]
                             /\ lastFull[f] # NoSet => lastFull[f].slow <= t.got.slow
      BY <1>0, <1>2, <3>1
    <3> QED
      BY <1>1, <2>2, <3>3, <3>4 DEF MergerOK
  <2>4. ASSUME NEW n \in Merger, n # m, Holds(m, f, 0)' PROVE ~Holds(n, f, 0)
    <3>1. CASE old.pc = "acquire"
      BY <1>2, <2>2, <2>4, <3>1 DEF LockFree
    <3>2. CASE old.pc = "read"
      BY <1>0, <2>1, <2>2, <2>4, <3>2 DEF Alone, Holds, Holding
    <3>3. CASE old.pc = "fetch"
      BY <1>2, <2>2, <2>4, <3>3 DEF Holds, Holding
    <3> QED
      BY <1>2, <3>1, <3>2, <3>3
  <2>5. HandsOver(m, f, t)
    BY <1>0, <1>2 DEF HandsOver, Passing
  <2>6. (ReadsFast(m, f) => ReadsFast(m, f)') /\ (ReadsSlow(m, f) => ReadsSlow(m, f)')
    BY <1>1, <1>2, <2>2 DEF ReadsFast, ReadsSlow, Holding
  <2>7. Displayed(f) => Displayed(f)'
    BY <1>1 DEF Displayed, Pulling, OnlyTask
  <2> QED
    BY <1>0, <1>1, <1>2, <1>3, <2>1, <2>3, <2>4, <2>5, <2>6, <2>7, MergerGoesOn
<1>4. t.job = {f} /\ t.pc # "idle" /\ t.pc # "publish"
  BY <1>0, <1>2
<1> QED
  BY <1>0, <1>1, <1>2, <1>3, <1>4, TaskStep

\* What a task is after its merge.
LEMMA MergedIs ==
    ASSUME NEW m \in Merger, NEW f \in File, task[m] \in Task, task[m].job = {f},
           task[m].pc \in {"commit", "publish"}
    PROVE  /\ Merged(task[m]) \in Task /\ HandsOver(m, f, Merged(task[m]))
           /\ Merged(task[m]).job = {f} \/ Merged(task[m]) = Idle
           /\ Merged(task[m]).pc \in {"await", "idle"} /\ Merged(task[m]).lock = 0
           /\ Merged(task[m]).pc = "idle" => Merged(task[m]) = Idle
<1> DEFINE old == task[m]
<1>1. CASE old.phase = "fast"
  <2>1. Merged(old) = [old EXCEPT !.pc = "await", !.lock = 0, !.got = EmptySet]
    BY <1>1 DEF Merged
  <2>2. /\ Merged(old).pc = "await" /\ Merged(old).lock = 0 /\ Merged(old).job = old.job
        /\ Merged(old).content = old.content /\ Merged(old).phase = old.phase
        /\ Merged(old).blocking = old.blocking
    BY <2>1 DEF Task
  <2> QED
    BY <1>1, <2>2, MergedType DEF HandsOver, Passing
<1>2. CASE old.phase # "fast"
  <2>1. Merged(old) = Idle /\ old.phase = "slow"
    BY <1>2 DEF Merged, Task
  <2> QED
    BY <2>1, IdleType DEF HandsOver, Passing, Idle
<1> QED
  BY <1>1, <1>2

\* A push client is sent what was merged.
LEMMA MergePublishFresh ==
    ASSUME TypeOK, FreshInv, NEW m \in Merger, NEW f \in File, MergePublish(m, f)
    PROVE  FreshInv'
<1> DEFINE old == task[m]  t == Merged(old)
<1>0. /\ task \in [Merger -> Task] /\ old \in Task /\ old.job = {f} /\ old.pc = "publish"
      /\ task' = [task EXCEPT ![m] = t] /\ ~pullMode /\ shown \in [File -> MergedSet]
  BY TaskTypesOf DEF MergePublish, FreshInv, GlobalInv, JobsOK
<1>1. /\ UNCHANGED <<lastFast, lastSlow, lastFull, fullRequested>> /\ OnlyTask(f)
  BY <1>0 DEF MergePublish, OnlyTask, docVars, loopVars, parseVars,
     queueVars, workerVars, sourceVars, fullVars, clientVars, refreshVars
<1>2. /\ t \in Task /\ HandsOver(m, f, t) /\ (t.job = {f} \/ t = Idle)
      /\ t.pc \in {"await", "idle"} /\ t.lock = 0 /\ (t.pc = "idle" => t = Idle)
  BY <1>0, MergedIs
<1> HIDE DEF t
<1>3. ASSUME Steady(f) PROVE FileInv(f)'
  <2>1. text[f] # 0
    BY <1>0, <1>3, InHandIsOpen
  <2>2. MergerOK(m, f)' /\ ~Holds(m, f, 0)' /\ ~ReadsFast(m, f) /\ ~ReadsSlow(m, f)
    BY <1>0, <1>2 DEF MergerOK, Holds, Holding, ReadsFast, ReadsSlow
  <2>3. Displayed(f)'
    BY <1>0, <1>1 DEF Displayed, OnlyTask
  <2> QED
    BY <1>0, <1>1, <1>2, <1>3, <2>1, <2>2, <2>3, MergerGoesOn
<1> QED
  BY <1>0, <1>1, <1>2, <1>3, TaskStep

\* The merged set becomes what was read.  Nobody else has read meanwhile: the
\* merges of a steady file share their lock.
LEMMA MergeCommitFresh ==
    ASSUME TypeOK, FreshInv, NEW m \in Merger, NEW f \in File, MergeCommit(m, f)
    PROVE  FreshInv'
<1> DEFINE old == task[m]
<1>0. /\ task \in [Merger -> Task] /\ old \in Task /\ old.job = {f} /\ old.pc = "commit"
      /\ lastFull \in [File -> MergedSet \cup {NoSet}] /\ pullMode \in BOOLEAN
      /\ lastFast[f] \in Nat /\ lastSlow[f] \in Nat /\ old.got \in MergedSet
  BY TaskTypesOf DEF MergeCommit, Task
<1>1. /\ UNCHANGED <<lastFast, lastSlow, fullRequested, shown>> /\ OnlyTask(f)
      /\ lastFull'[f] = old.got /\ (pullMode /\ lastFull' # lastFull => refresh')
  BY <1>0 DEF MergeCommit, OnlyTask, docVars, loopVars, parseVars,
     queueVars, workerVars, sourceVars, fullVars, clientVars, refreshVars
<1>2. PICK t \in Task : /\ task' = [task EXCEPT ![m] = t]
                        /\ HandsOver(m, f, t) /\ (t.job = {f} \/ t = Idle)
                        /\ t.pc \in {"await", "idle", "publish"} /\ t.lock = 0
                        /\ (t.pc = "idle" => t = Idle) /\ (pullMode => t.pc # "publish")
  <2>1. CASE pullMode
    <3>1. task' = [task EXCEPT ![m] = Merged(old)]
      BY <1>0, <2>1 DEF MergeCommit
    <3> QED
      BY <1>0, <3>1, MergedIs
  <2>2. CASE ~pullMode
    <3>1. PICK t \in Task : t = [old EXCEPT !.pc = "publish", !.lock = 0]
      BY <1>0 DEF Task, Step
    <3>2. /\ t.pc = "publish" /\ t.lock = 0 /\ t.job = old.job /\ t.content = old.content
          /\ t.phase = old.phase /\ t.blocking = old.blocking
      BY <1>0, <3>1 DEF Task
    <3>3. task' = [task EXCEPT ![m] = t]
      BY <1>0, <2>2, <3>1 DEF MergeCommit
    <3>4. HandsOver(m, f, t)
      BY <1>0, <3>2 DEF HandsOver, Passing
    <3> QED
      BY <1>0, <2>2, <3>2, <3>3, <3>4
  <2> QED
    BY <2>1, <2>2
<1>3. ASSUME Steady(f) PROVE FileInv(f)'
  <2>1. /\ text[f] # 0 /\ (\A n \in Merger : MergerOK(n, f)) /\ Alone(f) /\ SetOK(f)
        /\ FastMerged(f) /\ SlowMerged(f) /\ Displayed(f)
    BY <1>0, <1>3, InHandIsOpen
  <2>2. /\ task'[m] = t /\ \A n \in Merger \ {m} : task'[n] = task[n]
    BY <1>0, <1>2
  <2>3. WorkerOK(f)' /\ Computed(f)' /\ RequestKept(f)' /\ (Coming(f) => Coming(f)')
    BY <1>1, <1>2, <1>3, <2>1, HandsOverFresh
  <2>4. /\ Holds(m, f, 0)
        /\ old.got.fast <= lastFast[f] /\ old.got.slow <= lastSlow[f]
        /\ lastFull[f] # NoSet => /\ lastFull[f].fast <= old.got.fast
                                  /\ lastFull[f].slow <= old.got.slow
    BY <1>0, <2>1 DEF MergerOK, Holds, Holding
  <2>5. \A n \in Merger \ {m} : f \in task[n].job => task[n].pc \notin Holding
    BY <2>1, <2>4 DEF Alone, Holds, MergerOK
  <2>6. ASSUME NEW n \in Merger PROVE MergerOK(n, f)'
    <3>1. CASE n = m
      BY <1>2, <2>2, <3>1 DEF MergerOK, Holding
    <3>2. CASE n # m
      BY <2>1, <2>2, <2>5, <3>2 DEF MergerOK, Holding
    <3> QED
      BY <3>1, <3>2
  <2>7. Alone(f)'
    BY <1>2, <2>1, <2>2 DEF Alone, Holds, Holding
  <2>8. SetOK(f)'
    BY <1>1, <2>1, <2>4 DEF SetOK, OnlyTask
  <2>9. lastFull'[f] # NoSet /\ old.got.fast \in Nat /\ old.got.slow \in Nat
    BY <1>0, <1>1, DeliveryAssumption DEF MergedSet
  <2>10. FastMerged(f)'
    <3>1. CASE lastFull[f] # NoSet /\ lastFull[f].fast = lastFast[f]
      <4>1. old.got.fast = lastFast[f]
        BY <1>0, <2>4, <2>9, <3>1
      <4> QED
        BY <1>1, <2>9, <4>1 DEF FastMerged
    <3>2. CASE Coming(f)
      BY <2>3, <3>2 DEF FastMerged
    <3>3. ASSUME NEW n \in Merger, ReadsFast(n, f) PROVE FastMerged(f)'
      <4>1. CASE n = m
        BY <1>0, <1>1, <2>9, <3>3, <4>1 DEF ReadsFast, FastMerged
      <4>2. CASE n # m
        <5>1. ReadsFast(n, f)'
          BY <1>1, <2>2, <2>5, <3>3, <4>2 DEF ReadsFast
        <5> QED
          BY <5>1 DEF FastMerged
      <4> QED
        BY <4>1, <4>2
    <3> QED
      BY <2>1, <3>1, <3>2, <3>3 DEF FastMerged
  <2>11. SlowMerged(f)'
    <3>1. CASE lastFull[f] # NoSet /\ lastFull[f].slow = lastSlow[f]
      <4>1. old.got.slow = lastSlow[f]
        BY <1>0, <2>4, <2>9, <3>1
      <4> QED
        BY <1>1, <2>9, <4>1 DEF SlowMerged
    <3>2. CASE Coming(f)
      BY <2>3, <3>2 DEF SlowMerged
    <3>3. ASSUME NEW n \in Merger, ReadsSlow(n, f) PROVE SlowMerged(f)'
      <4>1. CASE n = m
        BY <1>0, <1>1, <2>9, <3>3, <4>1 DEF ReadsSlow, SlowMerged
      <4>2. CASE n # m
        <5>1. ReadsSlow(n, f)'
          BY <1>1, <2>2, <2>5, <3>3, <4>2 DEF ReadsSlow, Holding
        <5> QED
          BY <5>1 DEF SlowMerged
      <4> QED
        BY <4>1, <4>2
    <3> QED
      BY <2>1, <3>1, <3>2, <3>3 DEF SlowMerged
  <2>12. Displayed(f)'
    BY <1>1, <2>1 DEF Displayed, Pulling, OnlyTask
  <2> QED
    BY <1>1, <2>1, <2>3, <2>6, <2>7, <2>8, <2>10, <2>11, <2>12 DEF FileInv, OnlyTask
<1> QED
  BY <1>0, <1>1, <1>2, <1>3, TaskStep

-----------------------------------------------------------------------------
(* The invariant, and what it gives.                                       *)

LEMMA InitFresh == Init => FreshInv
<1> SUFFICES ASSUME Init PROVE FreshInv
  OBVIOUS
<1>1. /\ \A m \in Merger : task[m] = Idle
      /\ \A f \in File : /\ text[f] = 0 /\ lastFast[f] = 0 /\ lastSlow[f] = 0
                         /\ lastFull[f] = NoSet /\ fullRequested[f] = 0
      /\ \A p \in Passer : todo[p] = {}
      /\ clock = 0 /\ handler = "idle" /\ "worker" \in Passer /\ "catchup" \in Passer
      /\ Passer \subseteq Merger
  BY DEF Init, Merger, Passer
<1>a. Idle.pc = "idle" /\ Idle.job = {}
  BY DEF Idle
<1>2. JobsOK /\ LateFiles
  <2>1. JobsOK
    BY <1>1, <1>a DEF JobsOK
  <2>2. LateFiles
    BY <1>1, <1>a DEF LateFiles
  <2> QED
    BY <2>1, <2>2
<1>3. LocksOK /\ workerPc # "run" /\ \A f \in File : text[f] <= clock
  BY <1>1 DEF LocksOK, Closing, Init
<1>4. ASSUME NEW f \in File PROVE FileInv(f)
  <2>1. \A m \in Merger : f \notin task[m].job /\ task[m].pc \notin Holding
    BY <1>1 DEF Idle, Holding
  <2> QED
    BY <1>1, <2>1 DEF FileInv, Unopened, WorkerOK, InHand, MergerOK, Alone, Holds, SetOK
<1> QED
  BY <1>1, <1>2, <1>3, <1>4 DEF FreshInv, GlobalInv

LEMMA StutterFresh == FreshInv /\ UNCHANGED vars => FreshInv'
<1> SUFFICES ASSUME FreshInv, UNCHANGED vars PROVE FreshInv'
  OBVIOUS
<1>1. UNCHANGED <<pullMode, text, clock, handler, subject, parses, committing, startup, workerPc,
                  todo, pending, calls, lockGen, lastFast, lastSlow, lastFull, fullRequested, shown,
                  stale, refresh, inFlight, task>>
  BY DEF vars, docVars, loopVars, parseVars, queueVars, workerVars, sourceVars,
         fullVars, clientVars, refreshVars
<1>2. GlobalInv'
  BY <1>1 DEF FreshInv, GlobalInv, JobsOK, LocksOK, LateFiles
<1>3. \A g \in File : Unmoved(g)
  BY <1>1 DEF Unmoved, Steady, Queued, Called, Invalidated, Displayed, Pulling
<1> QED
  BY <1>1, <1>2, <1>3, NoTaskMoves

LEMMA NextFresh ==
    ASSUME TypeOK, UnchangedIsSound, FreshInv, Next PROVE FreshInv'
<1>1. ASSUME NEW f \in File, Open(f) \/ Edit(f) \/ Save(f) \/ Close(f) PROVE FreshInv'
  BY <1>1, OpenFresh, EditFresh, SaveFresh, CloseFresh
<1>2. CASE ParseStep
  BY <1>2, ParseFresh DEF ParseStep
<1>3. CASE HandlerStepNext
  BY <1>3, SaveAffectsFresh, SaveInvalidateFresh, SaveRequeueFresh, CloseStepFresh DEF HandlerStepNext
<1>4. CASE BecomeReady \/ CatchUpSnapshot
  BY <1>4, StartupFresh
<1>5. CASE WorkerStep
  BY <1>5, WorkerFresh
<1>6. ASSUME NEW p \in Passer, NEW f \in File, NextFile(p, f) \/ PassStep(p, f) \/ BlockingStep(p, f)
      PROVE  FreshInv'
  BY <1>6, NextFileFresh, PassGoesOnFresh, PassStoresFresh DEF PassStep
<1>7. ASSUME NEW f \in File, ToolStart(f) \/ ToolStep(f) PROVE FreshInv'
  BY <1>7, ToolStartFresh, ToolStepFresh
<1>8. ASSUME NEW m \in Merger, NEW f \in File, MergeStep(m, f) PROVE FreshInv'
  BY <1>8, MergeReadsFresh, MergeCommitFresh, MergePublishFresh DEF MergeStep
<1>9. CASE \/ PullStep \/ RefreshSend \/ RefreshAnswer \/ \E f \in File : PullStart(f)
  BY <1>9, PullFresh
<1>10. ASSUME NEW c \in calls, CallStep(c) PROVE FreshInv'
  BY <1>10, CallFresh
<1> QED
  BY <1>1, <1>2, <1>3, <1>4, <1>5, <1>6, <1>7, <1>8, <1>9, <1>10 DEF Next

\* Between any two steps of the handlers and the tasks of delivery.rs, what a
\* steady file (one opened after startup and not closed since) lacks to be
\* fresh is in a call or queued, in a pass, read by a merge or being pulled.
THEOREM FreshnessIsOwed == Spec => []FreshInv
<1>1. TypeOK /\ UnchangedIsSound /\ FreshInv /\ [Next]_vars => FreshInv'
  BY NextFresh, StutterFresh
<1> QED
  BY InitFresh, <1>1, TypeCorrect, UnchangedAnswersAreSound, PTL DEF Spec

LEMMA FirstOpenIsSteady ==
    ASSUME FreshInv, NEW f \in File, FirstOpen(f) PROVE Steady(f)
  BY DEF FreshInv, GlobalInv, LocksOK, FirstOpen, IsOpen, Steady

\* At rest nobody owes the file anything.
LEMMA QuietIsFresh ==
    ASSUME NoLostWakeup, FreshInv, Quiet, NEW f \in File, FirstOpen(f) PROVE Fresh(f)
<1>1. /\ SetOK(f) /\ Computed(f) /\ FastMerged(f) /\ SlowMerged(f)
      /\ RequestKept(f) /\ Displayed(f)
  BY FirstOpenIsSteady DEF FreshInv, FileInv, FirstOpen, IsOpen
<1>2. \A m \in Merger : f \notin task[m].job
  BY DEF Quiet, FreshInv, GlobalInv, JobsOK, Idle
<1>3. ~InHand(f) /\ \A m \in Merger : ~ReadsFast(m, f) /\ ~ReadsSlow(m, f)
  BY <1>2 DEF InHand, ReadsFast, ReadsSlow, Merger, Passer
<1>4. ~Queued(f) /\ ~Invalidated(f) /\ ~Pulling(f)
  BY DEF Quiet, NoLostWakeup, Queued, Called, Invalidated, Pulling, Passer
<1>5. ~Coming(f)
  BY <1>3, <1>4 DEF Coming, InPass
<1>6. lastFast[f] = text[f] /\ lastSlow[f] = text[f]
  BY <1>1, <1>3, <1>4 DEF Computed
<1>7. lastFull[f] # NoSet /\ lastFull[f].fast = text[f] /\ lastFull[f].slow = text[f]
  BY <1>1, <1>3, <1>5, <1>6 DEF FastMerged, SlowMerged
<1>8. fullRequested[f] = 0
  BY <1>1, <1>3, <1>4 DEF RequestKept
<1>9. pullMode => shown[f] = lastFull[f]
  BY <1>1, <1>4, <1>7 DEF Displayed, Quiet
<1> QED
  BY <1>7, <1>8, <1>9 DEF Fresh

\* However edits, saves, pulls, passes, merges and the tool interleave, and
\* whatever happens to the other files: when everything has come to rest, a
\* file opened after startup (on_did_open) and not closed since is fresh.
THEOREM FirstOpenRestsFresh == Spec => []RestIsFresh
<1>1. NoLostWakeup /\ FreshInv => RestIsFresh
  BY QuietIsFresh DEF RestIsFresh
<1> QED
  BY <1>1, WakeupsAreKept, FreshnessIsOwed, PTL

\* The step replaces no merged set of f by an older one.
Forward(f) ==
    lastFull[f] # NoSet /\ lastFull'[f] # NoSet =>
        lastFull[f].fast <= lastFull'[f].fast /\ lastFull[f].slow <= lastFull'[f].slow

\* Only a merge puts a set in place of another.
LEMMA SetsChange ==
    ASSUME TypeOK, [Next]_vars, NEW f \in File, ~Forward(f)
    PROVE  \E m \in Merger : MergeCommit(m, f)
<1>0. /\ lastFull \in [File -> MergedSet \cup {NoSet}]
      /\ lastFull[f] # NoSet => lastFull[f].fast \in Nat /\ lastFull[f].slow \in Nat
  BY DEF TypeOK, CacheTypes, MergedSet
<1>1. lastFull'[f] # lastFull[f] /\ lastFull[f] # NoSet /\ lastFull'[f] # NoSet
  BY <1>0 DEF Forward
<1>2. ASSUME NEW g \in File, Open(g) \/ Edit(g) \/ Save(g) \/ Close(g) PROVE FALSE
  BY <1>1, <1>2 DEF Open, Edit, Save, Close, fullVars
<1>3. ~ParseStep
  BY <1>1 DEF ParseStep, ParseCheck, ParseCommit, fullVars
<1>4. ~HandlerStepNext
  BY <1>1 DEF HandlerStepNext, SaveAffects, SaveInvalidate, SaveRequeue, CloseCaches, CloseFull,
              ClosePublish, fullVars
<1>5. ~BecomeReady /\ ~CatchUpSnapshot
  BY <1>1 DEF BecomeReady, CatchUpSnapshot, fullVars
<1>6. ~WorkerStep
  BY <1>1 DEF WorkerStep, WorkerWake, WorkerDebounce, WorkerTake, WorkerDone, fullVars
<1>7. ASSUME NEW p \in Passer, NEW g \in File, NextFile(p, g) \/ PassStep(p, g) \/ BlockingStep(p, g)
      PROVE  FALSE
  BY <1>1, <1>7 DEF NextFile, PassStep, PassBegin, BlockingStep, CheckFast, StoreFast,
                    Await, StoreSlow, fullVars
<1>8. ASSUME NEW g \in File, ToolStart(g) \/ ToolStep(g) PROVE FALSE
  BY <1>1, <1>8 DEF ToolStart, ToolStep, ToolExit, ToolStore, fullVars
<1>9. ASSUME NEW m \in Merger, NEW g \in File, MergeStep(m, g)
      PROVE  \E n \in Merger : MergeCommit(n, f)
  <2>1. MergeCommit(m, g)
    BY <1>1, <1>9 DEF MergeStep, MergeFetch, MergeAcquire, MergeRead, MergePublish, fullVars
  <2>2. g = f
    BY <1>0, <1>1, <2>1 DEF MergeCommit, fullVars
  <2> QED
    BY <2>1, <2>2
<1>10. ASSUME NEW g \in File, PullStart(g) PROVE FALSE
  BY <1>1, <1>10 DEF PullStart, PullUnchanged, PullCheck, fullVars
<1>11. ~PullStep /\ ~RefreshSend /\ ~RefreshAnswer
  BY <1>1 DEF PullStep, PullTrigger, PullReply, RefreshSend, RefreshAnswer, fullVars
<1>12. ASSUME NEW c \in calls, CallStep(c) PROVE FALSE
  BY <1>1, <1>12 DEF CallStep, fullVars
<1>13. ~UNCHANGED vars
  BY <1>1 DEF vars, fullVars
<1> QED
  BY <1>2, <1>3, <1>4, <1>5, <1>6, <1>7, <1>8, <1>9, <1>10, <1>11, <1>12, <1>13 DEF Next

LEMMA SteadyForward ==
    ASSUME TypeOK, FreshInv, [Next]_vars, NEW f \in File, Steady(f) PROVE Forward(f)
<1>1. SUFFICES ASSUME NEW m \in Merger, MergeCommit(m, f) PROVE Forward(f)
  BY SetsChange
<1>2. /\ MergerOK(m, f) /\ f \in task[m].job /\ task[m].pc = "commit"
      /\ lastFull \in [File -> MergedSet \cup {NoSet}]
  BY <1>1, InHandIsOpen, TaskTypesOf DEF MergeCommit
<1>3. lastFull'[f] = task[m].got
  BY <1>1, <1>2 DEF MergeCommit, fullVars
<1> QED
  BY <1>2, <1>3 DEF MergerOK, Forward, Holding

\* The merges of a file on its first opening only move it forward, whoever
\* runs them (assemble_and_push under the file's assemble lock).
THEOREM FirstOpenMovesForward == Spec => MergesMoveForward
<1>1. ASSUME TypeOK, FreshInv, [Next]_vars, TypeOK', NEW f \in File, FirstOpen(f),
             lastFull[f] # NoSet, lastFull'[f] # NoSet
      PROVE  /\ ~Clobbers(lastFull[f].fast, lastFull'[f].fast)
             /\ ~Clobbers(lastFull[f].slow, lastFull'[f].slow)
  <2>1. lastFull[f].fast <= lastFull'[f].fast /\ lastFull[f].slow <= lastFull'[f].slow
    BY <1>1, FirstOpenIsSteady, SteadyForward DEF Forward
  <2>2. /\ lastFull[f].fast \in Nat /\ lastFull'[f].fast \in Nat
        /\ lastFull[f].slow \in Nat /\ lastFull'[f].slow \in Nat
    BY <1>1 DEF TypeOK, CacheTypes, MergedSet
  <2> QED
    BY <2>1, <2>2 DEF Clobbers
<1>2. TypeOK /\ TypeOK' /\ FreshInv /\ [Next]_vars =>
        [\A f \in File : FirstOpen(f) /\ lastFull[f] # NoSet /\ lastFull'[f] # NoSet =>
             /\ ~Clobbers(lastFull[f].fast, lastFull'[f].fast)
             /\ ~Clobbers(lastFull[f].slow, lastFull'[f].slow)]_vars
  BY <1>1
<1> QED
  BY <1>2, TypeCorrect, FreshnessIsOwed, PTL DEF Spec, MergesMoveForward
=============================================================================
