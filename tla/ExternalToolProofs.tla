------------------------- MODULE ExternalToolProofs -------------------------
(***************************************************************************)
(* What holds of ExternalTool for every value of its constants: type       *)
(* correctness, one holder for each assemble lock included, and that a     *)
(* project-wide run yields to the results of single files.                 *)
(***************************************************************************)
EXTENDS ExternalTool, TLAPS

-----------------------------------------------------------------------------
(* Type correctness.                                                       *)

\* Who has a document in hand.
UrisOK ==
    /\ service.pc # "idle" => service.uri \in File
    /\ worker.pc \notin {"wait", "drain", "take"} => worker.uri \in File
    /\ scan.pc \in {"store", "merge"} => scan.uri \in File
    /\ \A m \in Merger : merge[m].pc # "idle" => merge[m].uri \in File

ServiceTypes ==
    /\ open \subseteq File /\ service \in Service
    /\ pending \in File \cup {None} /\ permit \in BOOLEAN
    /\ requests \in Nat
    /\ service.pc # "idle" => service.uri \in File
WorkerTypes ==
    /\ worker \in Worker
    /\ worker.pc \notin {"wait", "drain", "take"} => worker.uri \in File
ScanTypes ==
    /\ scan \in Scan /\ scans \in Nat
    /\ scan.pc \in {"store", "merge"} => scan.uri \in File
CacheTypes == last \in [File -> Entry] /\ counter \in [File -> Entry] /\ stores \in Nat

Holds(m) == merge[m].pc \in {"filter", "prune"}
MergeTypes ==
    /\ merge \in [Merger -> Merge] /\ lock \in [File -> Nat] /\ merges \in Nat
    /\ \A m \in Merger : merge[m].pc # "idle" => merge[m].uri \in File
    /\ \A m, n \in Merger :
          m # n /\ Holds(m) /\ Holds(n)
          => merge[m].uri # merge[n].uri \/ merge[m].lock # merge[n].lock

TypeInv == ServiceTypes /\ WorkerTypes /\ ScanTypes /\ CacheTypes /\ MergeTypes

LEMMA TypeParts == TypeInv <=> TypeOK /\ UrisOK
  BY DEF TypeInv, TypeOK, UrisOK, ServiceTypes, WorkerTypes, ScanTypes, CacheTypes, MergeTypes,
         Holds

LEMMA InitTypes == Init => TypeInv
<1> SUFFICES ASSUME Init PROVE TypeInv
  OBVIOUS
<1>1. ServiceTypes /\ WorkerTypes /\ ScanTypes
  BY DEF Init, ServiceTypes, WorkerTypes, ScanTypes, Service, Worker, Scan, Idle, Waiting,
         NoScan, Entry
<1>2. CacheTypes
  BY DEF Init, CacheTypes, Entry
<1>3. MergeTypes
  BY DEF Init, MergeTypes, NoMerge, Merge, Entry, Holds
<1> QED
  BY <1>1, <1>2, <1>3 DEF TypeInv

\* A merge that starts reads; it holds no lock yet.
LEMMA MergeStarts ==
    ASSUME MergeTypes, NEW m \in Merger, NEW f \in File, merge' = [merge EXCEPT ![m] = MergeOf(f)],
           lock' = lock, merges' \in Nat
    PROVE  MergeTypes'
<1>1. MergeOf(f) \in Merge /\ MergeOf(f).pc = "read" /\ MergeOf(f).uri = f
  BY DEF MergeOf, Merge, Entry
<1>2. /\ merge' \in [Merger -> Merge] /\ merge'[m] = MergeOf(f)
      /\ \A n \in Merger \ {m} : merge'[n] = merge[n]
  BY <1>1 DEF MergeTypes
<1> QED
  BY <1>1, <1>2 DEF MergeTypes, Holds

LEMMA MergeTypesStep ==
    ASSUME TypeInv, NEW m \in Merger, MergeStep(m)
    PROVE  TypeInv'
<1> DEFINE old == merge[m]
<1>1. UNCHANGED <<serviceVars, queueVars, worker, counter, stores, scanVars, lock, merges>>
  BY DEF MergeStep, MergeRead, MergeFilter, MergePrune, cacheVars
<1>2. ServiceTypes' /\ WorkerTypes' /\ ScanTypes'
  BY <1>1 DEF TypeInv, ServiceTypes, WorkerTypes, ScanTypes, serviceVars, queueVars, scanVars
<1>3. /\ old \in Merge /\ old.pc # "idle" /\ old.uri \in File /\ lock[old.uri] \in Nat
      /\ last[old.uri] \in Entry /\ old.before \in Entry
      /\ merge \in [Merger -> Merge]
  BY DEF TypeInv, MergeTypes, CacheTypes, Merge, MergeStep, MergeRead, MergeFilter, MergePrune
<1>4. CacheTypes'
  BY <1>1, <1>3 DEF TypeInv, CacheTypes, MergeStep, MergeRead, MergeFilter, MergePrune, cacheVars
<1>5. PICK t \in Merge :
        /\ merge' = [merge EXCEPT ![m] = t]
        /\ \/ t.pc = "idle"
           \/ t.pc = "filter" /\ LockFree(old.uri) /\ t.uri = old.uri /\ t.lock = lock[old.uri]
           \/ t.pc = "prune" /\ old.pc = "filter" /\ t.uri = old.uri /\ t.lock = old.lock
  <2>1. CASE merge' = [merge EXCEPT ![m] = NoMerge]
    <3>1. NoMerge \in Merge /\ NoMerge.pc = "idle"
      BY DEF NoMerge, Merge, Entry
    <3> QED
      BY <2>1, <3>1
  <2>2. CASE MergeRead(m) /\ merge' # [merge EXCEPT ![m] = NoMerge]
    <3>1. [pc |-> "filter", uri |-> old.uri, lock |-> lock[old.uri], before |-> last[old.uri]] \in Merge
      BY <1>3 DEF Merge
    <3> QED
      BY <2>2, <3>1 DEF MergeRead
  <2>3. CASE MergeFilter(m)
    <3>1. PICK t \in Merge : t = [old EXCEPT !.pc = "prune"]
      BY <1>3 DEF Merge
    <3>2. t.pc = "prune" /\ t.uri = old.uri /\ t.lock = old.lock
      BY <1>3, <3>1 DEF Merge
    <3>3. merge' = [merge EXCEPT ![m] = t] /\ old.pc = "filter"
      BY <1>3, <2>3, <3>1 DEF MergeFilter
    <3> QED
      BY <3>2, <3>3
  <2> QED
    BY <2>1, <2>2, <2>3 DEF MergeStep, MergePrune
<1>6. /\ merge' \in [Merger -> Merge] /\ merge'[m] = t
      /\ \A n \in Merger \ {m} : merge'[n] = merge[n]
  BY <1>3, <1>5
<1>7. \A n \in Merger : merge'[n].pc # "idle" => merge'[n].uri \in File
  BY <1>3, <1>5, <1>6 DEF TypeInv, MergeTypes
<1>8. ASSUME NEW n \in Merger, n # m, Holds(m)', Holds(n)'
      PROVE  t.uri # merge[n].uri \/ t.lock # merge[n].lock
  <2>1. Holds(n)
    BY <1>6, <1>8 DEF Holds
  <2>2. CASE t.pc = "filter"
    BY <1>3, <1>5, <2>1, <2>2 DEF LockFree, Locked, Holds
  <2>3. CASE t.pc = "prune"
    BY <1>5, <1>8, <2>1, <2>3 DEF TypeInv, MergeTypes, Holds
  <2> QED
    BY <1>5, <1>6, <1>8, <2>2, <2>3 DEF Holds
<1>9. MergeTypes'
  <2>1. ASSUME NEW a \in Merger, NEW b \in Merger, a # b, Holds(a)', Holds(b)'
        PROVE  merge'[a].uri # merge'[b].uri \/ merge'[a].lock # merge'[b].lock
    <3>1. CASE a = m
      BY <1>6, <1>8, <2>1, <3>1
    <3>2. CASE b = m
      BY <1>6, <1>8, <2>1, <3>2
    <3>3. CASE a # m /\ b # m
      BY <1>6, <2>1, <3>3 DEF TypeInv, MergeTypes, Holds
    <3> QED
      BY <3>1, <3>2, <3>3
  <2> QED
    BY <1>1, <1>6, <1>7, <2>1 DEF TypeInv, MergeTypes
<1> QED
  BY <1>2, <1>4, <1>9 DEF TypeInv

LEMMA DocumentTypesStep ==
    ASSUME TypeInv, NEW f \in File, Open(f) \/ Save(f) \/ Close(f) \/ NativeMerge(f)
    PROVE  TypeInv'
<1>1. ServiceTypes'
  BY DEF TypeInv, ServiceTypes, Service, Open, Save, Close, NativeMerge, serviceVars, queueVars
<1>2. WorkerTypes' /\ CacheTypes'
  BY DEF TypeInv, WorkerTypes, CacheTypes, Open, Save, Close, NativeMerge, cacheVars
<1>3. ScanTypes'
  <2>1. CASE Close(f)
    <3> DEFINE c == IF scan.pc = "idle" THEN {} ELSE scan.closed \cup {f}
    <3>1. scan \in Scan /\ c \subseteq File
      BY DEF TypeInv, ScanTypes, Scan
    <3>2. scan' = [scan EXCEPT !.closed = c] /\ scans' = scans
      BY <2>1 DEF Close
    <3> HIDE DEF c
    <3>3. scan' \in Scan /\ scan'.pc = scan.pc /\ scan'.uri = scan.uri
      BY <3>1, <3>2 DEF Scan
    <3> QED
      BY <3>2, <3>3 DEF TypeInv, ScanTypes
  <2>2. CASE ~Close(f)
    BY <2>2 DEF TypeInv, ScanTypes, Open, Save, NativeMerge, scanVars
  <2> QED
    BY <2>1, <2>2
<1>4. MergeTypes'
  <2>1. CASE NativeMerge(f)
    <3>1. "native" \in Merger /\ MergeTypes /\ lock' = lock /\ merges' \in Nat
      BY <2>1 DEF NativeMerge, Merger, TypeInv, MergeTypes
    <3> QED
      BY <2>1, <3>1, MergeStarts DEF NativeMerge
  <2>2. CASE ~NativeMerge(f)
    BY <2>2 DEF TypeInv, MergeTypes, Holds, Open, Save, Close, mergeVars
  <2> QED
    BY <2>1, <2>2
<1> QED
  BY <1>1, <1>2, <1>3, <1>4 DEF TypeInv

LEMMA ServiceTypesStep ==
    ASSUME TypeInv, ServiceStep PROVE TypeInv'
<1>1. ServiceTypes'
  <2>1. CASE Schedule
    <3>1. /\ service \in Service /\ service.pc \in {"schedule", "notify"}
          /\ service.uri \in File /\ ServiceTypes
      BY <2>1 DEF Schedule, TypeInv, ServiceTypes
    <3>2. service' \in Service /\ (service'.pc # "idle" => service'.uri = service.uri)
      BY <2>1, <3>1 DEF Schedule, Service, Idle
    <3>3. /\ open' = open /\ requests' = requests
          /\ pending' \in {pending, service.uri} /\ permit' \in {permit, TRUE}
      BY <2>1 DEF Schedule
    <3> QED
      BY <3>1, <3>2, <3>3 DEF ServiceTypes
  <2>2. CASE Forget
    BY <2>2 DEF TypeInv, ServiceTypes, Service, Idle, Forget, queueVars
  <2> QED
    BY <2>1, <2>2 DEF ServiceStep
<1>2. WorkerTypes' /\ ScanTypes'
  BY DEF TypeInv, WorkerTypes, ScanTypes, ServiceStep, Schedule, Forget, scanVars
<1>3. CacheTypes'
  BY DEF TypeInv, CacheTypes, Entry, ServiceStep, Schedule, Forget, cacheVars
<1>4. /\ UNCHANGED <<merge, merges>> /\ lock' \in [File -> Nat]
  BY DEF TypeInv, MergeTypes, ServiceStep, Schedule, Forget, mergeVars
<1>5. MergeTypes'
  BY <1>4 DEF TypeInv, MergeTypes, Holds
<1> QED
  BY <1>1, <1>2, <1>3, <1>5 DEF TypeInv

LEMMA WorkerTypesStep ==
    ASSUME TypeInv, WorkerStep PROVE TypeInv'
<1>1. ServiceTypes'
  BY DEF TypeInv, ServiceTypes, WorkerStep, Wait, Drain, Take, ReadText, RunTool, CheckOpen,
         StoreFileResult, Merged, serviceVars, queueVars
<1>2. WorkerTypes'
  BY DEF TypeInv, ServiceTypes, WorkerTypes, Worker, Waiting, WorkerStep, Wait, Drain, Take,
         ReadText, RunTool, CheckOpen, StoreFileResult, Merged
<1>3. CASE StoreFileResult
  <2> DEFINE f == worker.uri
             r == IF scan.pc = "idle" THEN {} ELSE scan.raced \cup {f}
  <2>1. /\ f \in File /\ counter[f] \in Entry /\ stores + 1 \in Nat
        /\ scan \in Scan /\ r \subseteq File
    BY <1>3 DEF StoreFileResult, TypeInv, WorkerTypes, CacheTypes, ScanTypes, Scan
  <2>2. CacheTypes'
    BY <1>3, <2>1 DEF StoreFileResult, TypeInv, CacheTypes, Bumped, Entry
  <2>3. scan' = [scan EXCEPT !.raced = r] /\ scans' = scans
    BY <1>3 DEF StoreFileResult
  <2> HIDE DEF r
  <2>4. scan' \in Scan /\ scan'.pc = scan.pc /\ scan'.uri = scan.uri
    BY <2>1, <2>3 DEF Scan
  <2>5. ScanTypes'
    BY <2>3, <2>4 DEF TypeInv, ScanTypes
  <2>6. MergeTypes'
    <3>1. "worker" \in Merger /\ MergeTypes /\ lock' = lock /\ merges' \in Nat
      BY <1>3 DEF StoreFileResult, Merger, TypeInv, MergeTypes
    <3> QED
      BY <1>3, <2>1, <3>1, MergeStarts DEF StoreFileResult
  <2> QED
    BY <1>1, <1>2, <2>2, <2>5, <2>6 DEF TypeInv
<1>4. CASE ~StoreFileResult
  <2>1. UNCHANGED <<cacheVars, scanVars, mergeVars>>
    BY <1>4 DEF WorkerStep, Wait, Drain, Take, ReadText, RunTool, CheckOpen, Merged
  <2>2. CacheTypes' /\ ScanTypes' /\ MergeTypes'
    BY <2>1 DEF TypeInv, CacheTypes, ScanTypes, MergeTypes, Holds, cacheVars, scanVars, mergeVars
  <2> QED
    BY <1>1, <1>2, <2>2 DEF TypeInv
<1> QED
  BY <1>3, <1>4

LEMMA ScanTypesStep ==
    ASSUME TypeInv, ScanStep PROVE TypeInv'
<1>0. /\ scan \in Scan /\ counter \in [File -> Entry] /\ open \subseteq File
      /\ service \in Service
  BY DEF TypeInv, ScanTypes, CacheTypes, ServiceTypes
<1>1. ServiceTypes' /\ WorkerTypes'
  BY DEF TypeInv, ServiceTypes, WorkerTypes, ScanStep, StartScan, EndScan, StoreScanResult,
         ScanMerged, ScanDone, NextFile, serviceVars, queueVars
<1>2. scans' \in Nat
  <2>1. scans' \in {scans, scans + 1}
    BY DEF ScanStep, StartScan, EndScan, StoreScanResult, ScanMerged, ScanDone, NextFile
  <2> QED
    BY <2>1 DEF TypeInv, ScanTypes
<1> DEFINE Good == scan' \in Scan /\ (scan'.pc \in {"store", "merge"} => scan'.uri \in File)
<1>3. Good
  <2>1. NoScan \in Scan /\ NoScan.pc = "idle"
    BY DEF NoScan, Scan, Entry
  <2>2. CASE StartScan
    <3>1. PICK c \in SUBSET File : scan' = [NoScan EXCEPT !.pc = "run", !.snapshot = counter, !.closed = c]
      BY <1>0, <2>2 DEF StartScan, TypeInv, ServiceTypes
    <3> QED
      BY <1>0, <2>1, <3>1 DEF Scan
  <2>3. CASE EndScan
    BY <1>0, <2>1, <2>3 DEF EndScan, Scan
  <2>4. ASSUME NEW f \in File, NextFile(f) PROVE Good
    BY <1>0, <2>4 DEF NextFile, Scan
  <2>5. CASE StoreScanResult
    BY <1>0, <2>5 DEF StoreScanResult, Scan, TypeInv, ScanTypes
  <2>6. CASE ScanMerged \/ ScanDone
    BY <1>0, <2>1, <2>6 DEF ScanMerged, ScanDone, Scan, TypeInv, ScanTypes
  <2> QED
    BY <2>2, <2>3, <2>4, <2>5, <2>6 DEF ScanStep
<1>4. ScanTypes'
  BY <1>2, <1>3 DEF ScanTypes
<1>5. CASE StoreScanResult /\ counter[scan.uri] = scan.snapshot[scan.uri]
  <2>1. /\ scan.uri \in File /\ stores' = stores + 1 /\ counter' = counter
        /\ last' = [last EXCEPT ![scan.uri] = stores + 1]
        /\ merge' = [merge EXCEPT !["scan"] = MergeOf(scan.uri)] /\ lock' = lock /\ merges' = merges
    BY <1>5 DEF StoreScanResult, TypeInv, ScanTypes
  <2>2. CacheTypes'
    BY <2>1 DEF TypeInv, CacheTypes, Entry
  <2>3. MergeTypes /\ "scan" \in Merger /\ merges' \in Nat
    BY <2>1 DEF TypeInv, MergeTypes, Merger
  <2>4. MergeTypes'
    BY <2>1, <2>3, MergeStarts
  <2> QED
    BY <1>1, <1>4, <2>2, <2>4 DEF TypeInv
<1>6. CASE ~(StoreScanResult /\ counter[scan.uri] = scan.snapshot[scan.uri])
  <2>1. UNCHANGED <<last, counter, stores, merge, lock, merges>>
    BY <1>6 DEF ScanStep, StartScan, EndScan, StoreScanResult, ScanMerged, ScanDone, NextFile,
                cacheVars, mergeVars
  <2>2. CacheTypes' /\ MergeTypes'
    BY <2>1 DEF TypeInv, CacheTypes, MergeTypes, Holds
  <2> QED
    BY <1>1, <1>4, <2>2 DEF TypeInv
<1> QED
  BY <1>5, <1>6

LEMMA NextTypes == TypeInv /\ [Next]_vars => TypeInv'
<1> SUFFICES ASSUME TypeInv, [Next]_vars PROVE TypeInv'
  OBVIOUS
<1>1. CASE UNCHANGED vars
  <2>1. ServiceTypes' /\ WorkerTypes' /\ ScanTypes'
    BY <1>1 DEF vars, TypeInv, ServiceTypes, WorkerTypes, ScanTypes, serviceVars, queueVars, scanVars
  <2>2. CacheTypes' /\ MergeTypes'
    BY <1>1 DEF vars, TypeInv, CacheTypes, MergeTypes, Holds, cacheVars, mergeVars
  <2> QED
    BY <2>1, <2>2 DEF TypeInv
<1> QED
  BY <1>1, DocumentTypesStep, ServiceTypesStep, WorkerTypesStep, ScanTypesStep, MergeTypesStep DEF Next

LEMMA TypesHold == Spec => []TypeInv
  BY InitTypes, NextTypes, PTL DEF Spec

\* The notifications, the worker, the project-wide run and the merges keep every
\* variable's shape, and no two merges ever hold the same assemble lock.
THEOREM TypeCorrect == Spec => []TypeOK
<1>1. TypeInv => TypeOK
  BY TypeParts
<1> QED
  BY <1>1, TypesHold, PTL

-----------------------------------------------------------------------------
(* What the counter of a document says of the snapshot of a run.           *)

\* The counters move on from the snapshot, and past it where the worker has
\* stored a result; only a close takes one back.
SnapshotInv ==
    scan.pc # "idle" =>
        /\ service.pc \in {"forget", "counter"} => service.uri \in scan.closed
        /\ \A f \in File \ scan.closed :
              /\ scan.snapshot[f] # None => counter[f] # None /\ scan.snapshot[f] <= counter[f]
              /\ f \in scan.raced => counter[f] # scan.snapshot[f] /\ counter[f] # None

LEMMA InitSnapshot == Init => SnapshotInv
  BY DEF Init, SnapshotInv, NoScan

\* The run goes on and neither a counter nor a close is involved.
LEMMA ScanGoesOn ==
    ASSUME SnapshotInv, scan' = scan \/ (/\ scan.pc # "idle" /\ scan'.snapshot = scan.snapshot
                                         /\ scan'.raced = scan.raced /\ scan'.closed = scan.closed),
           counter' = counter,
           service'.pc \in {"forget", "counter"} =>
                service.pc \in {"forget", "counter"} /\ service'.uri = service.uri
    PROVE  SnapshotInv'
  BY DEF SnapshotInv

LEMMA SnapshotStep ==
    ASSUME TypeInv, SnapshotInv, [Next]_vars PROVE SnapshotInv'
<1>0. /\ scan \in Scan /\ service \in Service
      /\ counter \in [File -> Entry] /\ scan.snapshot \in [File -> Entry]
  BY DEF TypeInv, ScanTypes, ServiceTypes, CacheTypes, Scan
<1>1. ASSUME NEW f \in File, Open(f) \/ Save(f) \/ NativeMerge(f) PROVE SnapshotInv'
  <2>1. /\ scan' = scan /\ counter' = counter
        /\ service' = service \/ service'.pc = "schedule"
    BY <1>1 DEF Open, Save, NativeMerge, serviceVars, cacheVars, scanVars
  <2> QED
    BY <2>1, ScanGoesOn
<1>2. ASSUME NEW f \in File, Close(f) PROVE SnapshotInv'
  <2>1. /\ counter' = counter /\ service'.pc = "forget" /\ service'.uri = f
    BY <1>2 DEF Close, cacheVars
  <2>2. PICK c : /\ scan' = [scan EXCEPT !.closed = c]
                 /\ scan.pc # "idle" => c = scan.closed \cup {f}
    BY <1>2 DEF Close
  <2>3. /\ scan'.pc = scan.pc /\ scan'.snapshot = scan.snapshot
        /\ scan'.raced = scan.raced /\ scan'.closed = c
    BY <1>0, <2>2 DEF Scan
  <2> QED
    BY <2>1, <2>2, <2>3 DEF SnapshotInv
<1>3. CASE Schedule
  <2>1. /\ scan' = scan /\ counter' = counter /\ service'.pc \in {"notify", "idle"}
    BY <1>0, <1>3 DEF Schedule, scanVars, cacheVars, Service, Idle
  <2> QED
    BY <2>1, ScanGoesOn
<1>4. CASE Forget
  <2>1. CASE service.pc \in {"forget", "lock"}
    <3>1. /\ scan' = scan /\ counter' = counter
          /\ service'.pc = "counter" => service.pc = "forget" /\ service'.uri = service.uri
          /\ service'.pc \in {"counter", "idle"}
      BY <1>0, <1>4, <2>1 DEF Forget, scanVars, Service, Idle
    <3> QED
      BY <3>1, ScanGoesOn
  <2>2. CASE service.pc = "counter"
    <3>1. /\ scan' = scan /\ service'.pc = "lock"
          /\ counter' = [counter EXCEPT ![service.uri] = None]
      BY <1>0, <1>4, <2>2 DEF Forget, scanVars, Service
    <3>2. \A f \in File : f # service.uri => counter'[f] = counter[f]
      BY <1>0, <3>1
    <3> QED
      BY <2>2, <3>1, <3>2 DEF SnapshotInv
  <2> QED
    BY <1>4, <2>1, <2>2 DEF Forget
<1>5. CASE StoreFileResult
  <2> DEFINE f == worker.uri
  <2>1. /\ f \in File /\ service' = service /\ counter' = [counter EXCEPT ![f] = Bumped(f)]
    BY <1>5 DEF StoreFileResult, serviceVars, TypeInv, WorkerTypes
  <2>2. PICK r : /\ scan' = [scan EXCEPT !.raced = r]
                 /\ scan.pc # "idle" => r = scan.raced \cup {f}
    BY <1>5 DEF StoreFileResult
  <2>3. /\ scan'.pc = scan.pc /\ scan'.snapshot = scan.snapshot
        /\ scan'.raced = r /\ scan'.closed = scan.closed
    BY <1>0, <2>2 DEF Scan
  <2>4. /\ counter'[f] = Bumped(f) /\ \A g \in File : g # f => counter'[g] = counter[g]
    BY <1>0, <2>1
  <2>5. Bumped(f) \in Nat /\ (counter[f] # None => counter[f] \in Nat /\ counter[f] < Bumped(f))
    BY <1>0, <2>1 DEF Bumped, Entry
  <2>6. ASSUME scan.pc # "idle", f \notin scan.closed
        PROVE  /\ Bumped(f) # None /\ Bumped(f) # scan.snapshot[f]
               /\ scan.snapshot[f] # None => scan.snapshot[f] <= Bumped(f)
    <3>1. scan.snapshot[f] # None => scan.snapshot[f] \in Nat /\ counter[f] # None /\ scan.snapshot[f] <= counter[f]
      BY <1>0, <2>1, <2>6 DEF SnapshotInv, Entry
    <3>2. Bumped(f) # None
      BY <2>5, ToolAssumption
    <3> QED
      BY <2>5, <3>1, <3>2
  <2> HIDE DEF f
  <2> QED
    BY <2>1, <2>2, <2>3, <2>4, <2>6 DEF SnapshotInv
<1>6. CASE WorkerStep /\ ~StoreFileResult
  <2>1. scan' = scan /\ counter' = counter /\ service' = service
    BY <1>6 DEF WorkerStep, Wait, Drain, Take, ReadText, RunTool, CheckOpen, Merged,
                serviceVars, cacheVars, scanVars
  <2> QED
    BY <2>1, ScanGoesOn
<1>7. CASE StartScan
  <2>1. /\ service' = service /\ counter' = counter
        /\ scan' = [NoScan EXCEPT !.pc = "run", !.snapshot = counter,
                                  !.closed = IF service.pc \in {"forget", "counter"}
                                             THEN {service.uri} ELSE {}]
    BY <1>7 DEF StartScan, serviceVars, cacheVars
  <2>2. /\ scan'.snapshot = counter /\ scan'.raced = {}
        /\ service.pc \in {"forget", "counter"} => scan'.closed = {service.uri}
    BY <2>1 DEF NoScan
  <2>3. \A g \in File : counter[g] # None => counter[g] <= counter[g]
    BY <1>0 DEF Entry
  <2> QED
    BY <2>1, <2>2, <2>3 DEF SnapshotInv
<1>8. ASSUME \/ EndScan \/ StoreScanResult \/ ScanMerged \/ ScanDone
             \/ \E f \in File : NextFile(f)
      PROVE  SnapshotInv'
  <2>1. service' = service /\ counter' = counter
    BY <1>8 DEF EndScan, StoreScanResult, ScanMerged, ScanDone, NextFile, serviceVars, cacheVars
  <2>2. CASE scan' = NoScan
    BY <2>2 DEF SnapshotInv, NoScan
  <2>3. CASE scan' # NoScan
    <3>1. /\ scan.pc # "idle" /\ scan'.snapshot = scan.snapshot
          /\ scan'.raced = scan.raced /\ scan'.closed = scan.closed
      BY <1>0, <1>8, <2>3 DEF EndScan, StoreScanResult, ScanMerged, ScanDone, NextFile, Scan
    <3> QED
      BY <2>1, <3>1, ScanGoesOn
  <2> QED
    BY <2>2, <2>3
<1>9. ASSUME NEW m \in Merger, MergeStep(m) PROVE SnapshotInv'
  <2>1. scan' = scan /\ counter' = counter /\ service' = service
    BY <1>9 DEF MergeStep, MergeRead, MergeFilter, MergePrune, serviceVars, cacheVars, scanVars
  <2> QED
    BY <2>1, ScanGoesOn
<1>10. CASE UNCHANGED vars
  <2>1. scan' = scan /\ counter' = counter /\ service' = service
    BY <1>10 DEF vars, serviceVars, cacheVars, scanVars
  <2> QED
    BY <2>1, ScanGoesOn
<1> QED
  BY <1>1, <1>2, <1>3, <1>4, <1>5, <1>6, <1>7, <1>8, <1>9, <1>10 DEF Next, ServiceStep, ScanStep

\* Whatever opens, saves, closes, worker runs and merges interleave with it, a
\* project-wide run stores nothing over a result the worker has stored since its
\* snapshot (store_scan_result).
THEOREM ScansYield == Spec => ScanYields
<1>1. ASSUME TypeInv, SnapshotInv, [Next]_vars, NEW f \in scan.raced \ scan.closed,
             scan.pc = "store", scan'.pc = "merge"
      PROVE  scan.uri # f
  <2>1. f \in File /\ counter[f] # scan.snapshot[f]
    BY <1>1 DEF SnapshotInv, TypeInv, ScanTypes, Scan
  <2>2. StoreScanResult
    BY <1>1 DEF Next, vars, Open, Save, Close, NativeMerge, ServiceStep, Schedule, Forget,
                WorkerStep, Wait, Drain, Take, ReadText, RunTool, CheckOpen, StoreFileResult, Merged,
                ScanStep, StartScan, EndScan, ScanMerged, ScanDone, NextFile,
                MergeStep, MergeRead, MergeFilter, MergePrune, scanVars, TypeInv, ScanTypes, Scan
  <2> QED
    BY <1>1, <2>1, <2>2 DEF StoreScanResult, TypeInv, ScanTypes, Scan
<1>2. TypeInv /\ SnapshotInv /\ [Next]_vars =>
        [\A f \in scan.raced \ scan.closed :
            scan.pc = "store" /\ scan'.pc = "merge" => scan.uri # f]_vars
  BY <1>1
<1>3. TypeInv /\ SnapshotInv /\ [Next]_vars => SnapshotInv'
  BY SnapshotStep
<1> QED
  BY <1>2, <1>3, InitSnapshot, TypesHold, PTL DEF Spec, ScanYields

=============================================================================
