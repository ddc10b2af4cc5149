---------------------------- MODULE ExternalTool ----------------------------
(***************************************************************************)
(* The results of one external tool, PHPStan, for the open documents: the  *)
(* worker that runs it on single files                                     *)
(* (src/src/diagnostics/external/mod.rs), the run over the whole project   *)
(* (diagnostics/workspace.rs), the cache and counters they share           *)
(* (backend/external_tool_worker.rs), and the merges that read that cache  *)
(* and write what they pruned back to it (diagnostics/delivery.rs).  The   *)
(* other tools differ in having no write-back.                             *)
(*                                                                         *)
(* A result is the number of the store that first put it in the cache.     *)
(***************************************************************************)
EXTENDS Integers, FiniteSets

CONSTANTS
    File,         \* the documents the editor opens
    None,         \* an absent entry
    MaxRequests,  \* bound: documents opened or saved
    MaxScans,     \* bound: project-wide runs
    MaxMerges     \* bound: merges for other reasons than this tool's

ASSUME ToolAssumption ==
    /\ None \notin Nat /\ None \notin File
    /\ MaxRequests \in Nat /\ MaxScans \in Nat /\ MaxMerges \in Nat

Entry == Nat \cup {None}

\* The three callers of assemble_and_push.
Merger == {"worker", "scan", "native"}

VARIABLES
    open,      \* open_files
    service,   \* the notification being handled
    pending,   \* pending_uri
    permit,    \* what notify stores
    worker,    \* external_tool_worker
    last,      \* last_diags: [File -> Entry]
    counter,   \* generations: [File -> Entry]
    scan,      \* the project-wide run
    merge,     \* [Merger -> Merge]
    lock,      \* [File -> Nat]: which of its assemble locks is the current one
    stores,    \* results stored
    requests, scans, merges

Service == [pc : {"idle", "schedule", "notify", "forget", "counter", "lock"},
            uri : File \cup {None}]
Worker == [pc : {"wait", "drain", "take", "read", "run", "check", "store", "merge"},
           uri : File \cup {None}]
Scan == [pc : {"idle", "run", "files", "store", "merge"},
         snapshot : [File -> Entry],
         todo : SUBSET File,
         uri : File \cup {None},
         raced : SUBSET File,    \* history: files the worker stored a result
                                 \* for since the snapshot, ...
         closed : SUBSET File]   \* ... and files closed since, or being closed
Merge == [pc : {"idle", "read", "filter", "prune"}, uri : File \cup {None},
          lock : Nat, before : Entry]

Idle == [pc |-> "idle", uri |-> None]
Waiting == [pc |-> "wait", uri |-> None]
NoScan == [pc |-> "idle", snapshot |-> [f \in File |-> None], todo |-> {},
           uri |-> None, raced |-> {}, closed |-> {}]
NoMerge == [pc |-> "idle", uri |-> None, lock |-> 0, before |-> None]
MergeOf(f) == [pc |-> "read", uri |-> f, lock |-> 0, before |-> None]

serviceVars == <<open, service, requests>>
queueVars == <<pending, permit>>
cacheVars == <<last, counter, stores>>
scanVars == <<scan, scans>>
mergeVars == <<merge, lock, merges>>
vars == <<serviceVars, queueVars, worker, cacheVars, scanVars, mergeVars>>

Init ==
    /\ open = {} /\ service = Idle /\ pending = None /\ permit = FALSE
    /\ worker = Waiting
    /\ last = [f \in File |-> None] /\ counter = [f \in File |-> None]
    /\ scan = NoScan /\ merge = [m \in Merger |-> NoMerge]
    /\ lock = [f \in File |-> 0]
    /\ stores = 0 /\ requests = 0 /\ scans = 0 /\ merges = 0

-----------------------------------------------------------------------------
(* Notifications, one at a time.                                           *)

Open(f) ==
    /\ service.pc = "idle" /\ f \notin open /\ requests < MaxRequests
    /\ open' = open \cup {f} /\ requests' = requests + 1
    /\ service' = [pc |-> "schedule", uri |-> f]
    /\ UNCHANGED <<queueVars, worker, cacheVars, scanVars, mergeVars>>

Save(f) ==
    /\ service.pc = "idle" /\ f \in open /\ requests < MaxRequests
    /\ requests' = requests + 1
    /\ service' = [pc |-> "schedule", uri |-> f]
    /\ UNCHANGED <<open, queueVars, worker, cacheVars, scanVars, mergeVars>>

\* Mutant of Schedule: the worker is woken before there is a request.
NotifyFirst ==
    /\ \/ /\ service.pc = "schedule"
          /\ permit' = TRUE
          /\ service' = [service EXCEPT !.pc = "notify"]
          /\ UNCHANGED pending
       \/ /\ service.pc = "notify"
          /\ pending' = service.uri
          /\ service' = Idle
          /\ UNCHANGED permit
    /\ UNCHANGED <<open, requests, worker, cacheVars, scanVars, mergeVars>>

\* A request supersedes the one before it, and then wakes the worker.
Schedule ==
    /\ \/ /\ service.pc = "schedule"
          /\ pending' = service.uri
          /\ service' = [service EXCEPT !.pc = "notify"]
          /\ UNCHANGED permit
       \/ /\ service.pc = "notify"
          /\ permit' = TRUE
          /\ service' = Idle
          /\ UNCHANGED pending
    /\ UNCHANGED <<open, requests, worker, cacheVars, scanVars, mergeVars>>

Close(f) ==
    /\ service.pc = "idle" /\ f \in open
    /\ open' = open \ {f}
    /\ service' = [pc |-> "forget", uri |-> f]
    /\ scan' = [scan EXCEPT !.closed = IF scan.pc = "idle" THEN {} ELSE @ \cup {f}]
    /\ UNCHANGED <<requests, queueVars, worker, cacheVars, scans, mergeVars>>

\* clear_diagnostics_for_file forgets the result, its counter, the lock.
Forget ==
    /\ \/ /\ service.pc = "forget"
          /\ last' = [last EXCEPT ![service.uri] = None]
          /\ service' = [service EXCEPT !.pc = "counter"]
          /\ UNCHANGED <<counter, lock>>
       \/ /\ service.pc = "counter"
          /\ counter' = [counter EXCEPT ![service.uri] = None]
          /\ service' = [service EXCEPT !.pc = "lock"]
          /\ UNCHANGED <<last, lock>>
       \/ /\ service.pc = "lock"
          /\ lock' = [lock EXCEPT ![service.uri] = @ + 1]
          /\ service' = Idle
          /\ UNCHANGED <<last, counter>>
    /\ UNCHANGED <<open, requests, queueVars, worker, stores, scanVars, merge,
                   merges>>

-----------------------------------------------------------------------------
(* The worker: one run at a time.                                          *)

Wait ==
    /\ worker.pc = "wait" /\ permit
    /\ permit' = FALSE
    /\ worker' = [worker EXCEPT !.pc = "drain"]
    /\ UNCHANGED <<serviceVars, pending, cacheVars, scanVars, mergeVars>>

Drain ==
    /\ worker.pc = "drain"
    /\ permit' = FALSE
    /\ worker' = [worker EXCEPT !.pc = "take"]
    /\ UNCHANGED <<serviceVars, pending, cacheVars, scanVars, mergeVars>>

Take ==
    /\ worker.pc = "take"
    /\ pending' = None
    /\ worker' = IF pending = None THEN Waiting ELSE [pc |-> "read", uri |-> pending]
    /\ UNCHANGED <<serviceVars, permit, cacheVars, scanVars, mergeVars>>

\* The text of an open document; there is nothing to run on a closed one.
ReadText ==
    /\ worker.pc = "read"
    /\ worker' = IF worker.uri \in open THEN [worker EXCEPT !.pc = "run"] ELSE Waiting
    /\ UNCHANGED <<serviceVars, queueVars, cacheVars, scanVars, mergeVars>>

\* The tool is not configured, fails, panics, or has a result.
RunTool ==
    /\ worker.pc = "run"
    /\ worker' \in {Waiting, [worker EXCEPT !.pc = "check"]}
    /\ UNCHANGED <<serviceVars, queueVars, cacheVars, scanVars, mergeVars>>

CheckOpen ==
    /\ worker.pc = "check"
    /\ worker' = IF worker.uri \in open THEN [worker EXCEPT !.pc = "store"] ELSE Waiting
    /\ UNCHANGED <<serviceVars, queueVars, cacheVars, scanVars, mergeVars>>

Bumped(f) == IF counter[f] = None THEN 1 ELSE counter[f] + 1

\* Mutant of StoreFileResult: the counter is not moved.
StoreUncounted ==
    /\ worker.pc = "store"
    /\ last' = [last EXCEPT ![worker.uri] = stores + 1] /\ stores' = stores + 1
    /\ scan' = [scan EXCEPT !.raced = IF scan.pc = "idle" THEN {} ELSE @ \cup {worker.uri}]
    /\ merge' = [merge EXCEPT !["worker"] = MergeOf(worker.uri)]
    /\ worker' = [worker EXCEPT !.pc = "merge"]
    /\ UNCHANGED <<serviceVars, queueVars, counter, scans, lock, merges>>

\* store_file_result, under both locks; then the document is merged anew.
StoreFileResult ==
    /\ worker.pc = "store"
    /\ last' = [last EXCEPT ![worker.uri] = stores + 1] /\ stores' = stores + 1
    /\ counter' = [counter EXCEPT ![worker.uri] = Bumped(worker.uri)]
    /\ scan' = [scan EXCEPT !.raced = IF scan.pc = "idle" THEN {} ELSE @ \cup {worker.uri}]
    /\ merge' = [merge EXCEPT !["worker"] = MergeOf(worker.uri)]
    /\ worker' = [worker EXCEPT !.pc = "merge"]
    /\ UNCHANGED <<serviceVars, queueVars, scans, lock, merges>>

Merged ==
    /\ worker.pc = "merge" /\ merge["worker"].pc = "idle"
    /\ worker' = Waiting
    /\ UNCHANGED <<serviceVars, queueVars, cacheVars, scanVars, mergeVars>>

-----------------------------------------------------------------------------
(* The project-wide run.                                                   *)

StartScan ==
    /\ scan.pc = "idle" /\ scans < MaxScans
    /\ scans' = scans + 1
    /\ scan' = [NoScan EXCEPT !.pc = "run", !.snapshot = counter,
                              !.closed = IF service.pc \in {"forget", "counter"}
                                         THEN {service.uri} ELSE {}]
    /\ UNCHANGED <<serviceVars, queueVars, worker, cacheVars, mergeVars>>

\* It fails, or has results for the documents that are open now: those it
\* reported on, and every one with a cached result.
EndScan ==
    /\ scan.pc = "run"
    /\ \/ scan' = NoScan
       \/ \E S \in SUBSET open :
             /\ {f \in open : last[f] # None} \subseteq S
             /\ scan' = [scan EXCEPT !.pc = "files", !.todo = S]
    /\ UNCHANGED <<serviceVars, queueVars, worker, cacheVars, scans, mergeVars>>

\* Is the next document still open?
NextFile(f) ==
    /\ scan.pc = "files" /\ f \in scan.todo
    /\ scan' = IF f \in open
               THEN [scan EXCEPT !.pc = "store", !.uri = f, !.todo = @ \ {f}]
               ELSE [scan EXCEPT !.todo = @ \ {f}]
    /\ UNCHANGED <<serviceVars, queueVars, worker, cacheVars, scans, mergeVars>>

\* store_scan_result: nothing is written over a result the worker has stored
\* since the snapshot.
StoreScanResult ==
    /\ scan.pc = "store"
    /\ LET f == scan.uri
       IN  IF counter[f] = scan.snapshot[f]
           THEN /\ last' = [last EXCEPT ![f] = stores + 1] /\ stores' = stores + 1
                /\ merge' = [merge EXCEPT !["scan"] = MergeOf(f)]
                /\ scan' = [scan EXCEPT !.pc = "merge"]
           ELSE /\ scan' = [scan EXCEPT !.pc = "files"]
                /\ UNCHANGED <<last, stores, merge>>
    /\ UNCHANGED <<serviceVars, queueVars, worker, counter, scans, lock, merges>>

ScanMerged ==
    /\ scan.pc = "merge" /\ merge["scan"].pc = "idle"
    /\ scan' = [scan EXCEPT !.pc = "files"]
    /\ UNCHANGED <<serviceVars, queueVars, worker, cacheVars, scans, mergeVars>>

ScanDone ==
    /\ scan.pc = "files" /\ scan.todo = {}
    /\ scan' = NoScan
    /\ UNCHANGED <<serviceVars, queueVars, worker, cacheVars, scans, mergeVars>>

-----------------------------------------------------------------------------
(* Merges: assemble_and_push, as far as it touches this tool's cache.      *)

\* The native pipeline merges a document anew.
NativeMerge(f) ==
    /\ merge["native"].pc = "idle" /\ f \in open /\ merges < MaxMerges
    /\ merges' = merges + 1
    /\ merge' = [merge EXCEPT !["native"] = MergeOf(f)]
    /\ UNCHANGED <<serviceVars, queueVars, worker, cacheVars, scanVars, lock>>

Locked(f, l) ==
    \E m \in Merger : /\ merge[m].pc \in {"filter", "prune"}
                      /\ merge[m].uri = f /\ merge[m].lock = l

\* Mutant of LockFree: a merge does not wait for the lock.
NoLock(f) == TRUE

LockFree(f) == ~Locked(f, lock[f])

\* The cached result is read under the document's lock; if there is nothing in
\* it the cache is left alone.
MergeRead(m) ==
    /\ merge[m].pc = "read" /\ LockFree(merge[m].uri)
    /\ LET f == merge[m].uri
       IN  \/ merge' = [merge EXCEPT ![m] = NoMerge]
           \/ /\ last[f] # None
              /\ merge' = [merge EXCEPT ![m] = [pc |-> "filter", uri |-> f,
                                                lock |-> lock[f], before |-> last[f]]]
    /\ UNCHANGED <<serviceVars, queueVars, worker, cacheVars, scanVars, lock, merges>>

\* What the text has made stale is pruned from it, ...
MergeFilter(m) ==
    /\ merge[m].pc = "filter"
    /\ last' \in {last, [last EXCEPT ![merge[m].uri] = merge[m].before]}
    /\ merge' = [merge EXCEPT ![m].pc = "prune"]
    /\ UNCHANGED <<serviceVars, queueVars, worker, counter, stores, scanVars, lock,
                   merges>>

\* ... and what the merge suppressed.
MergePrune(m) ==
    /\ merge[m].pc = "prune"
    /\ last' = [last EXCEPT ![merge[m].uri] = merge[m].before]
    /\ merge' = [merge EXCEPT ![m] = NoMerge]
    /\ UNCHANGED <<serviceVars, queueVars, worker, counter, stores, scanVars, lock,
                   merges>>

-----------------------------------------------------------------------------

ServiceStep == Schedule \/ Forget

WorkerStep ==
    Wait \/ Drain \/ Take \/ ReadText \/ RunTool \/ CheckOpen \/ StoreFileResult \/ Merged

ScanStep ==
    \/ StartScan \/ EndScan \/ StoreScanResult \/ ScanMerged \/ ScanDone
    \/ \E f \in File : NextFile(f)

MergeStep(m) == MergeRead(m) \/ MergeFilter(m) \/ MergePrune(m)

Next ==
    \/ \E f \in File : Open(f) \/ Save(f) \/ Close(f) \/ NativeMerge(f)
    \/ ServiceStep \/ WorkerStep \/ ScanStep
    \/ \E m \in Merger : MergeStep(m)

Spec == Init /\ [][Next]_vars

\* Handlers and tasks run; a run of the tool ends (it has a timeout); a merge
\* that waits for a lock gets it.
Fairness ==
    /\ WF_vars(ServiceStep) /\ WF_vars(WorkerStep)
    /\ \A m \in Merger : SF_vars(MergeStep(m))

FairSpec == Spec /\ Fairness

-----------------------------------------------------------------------------
(* Properties.                                                             *)

\* Every variable keeps its shape, and a lock has one holder.
TypeOK ==
    /\ open \subseteq File /\ service \in Service
    /\ pending \in File \cup {None} /\ permit \in BOOLEAN
    /\ worker \in Worker /\ scan \in Scan
    /\ last \in [File -> Entry] /\ counter \in [File -> Entry]
    /\ merge \in [Merger -> Merge] /\ lock \in [File -> Nat]
    /\ \A m, n \in Merger :
          /\ m # n
          /\ merge[m].pc \in {"filter", "prune"} /\ merge[n].pc \in {"filter", "prune"}
          => merge[m].uri # merge[n].uri \/ merge[m].lock # merge[n].lock
    /\ {stores, requests, scans, merges} \subseteq Nat

\* The results of a project-wide run replace no result the worker has stored
\* for the file since the run began, unless the file was being closed meanwhile
\* (external_tool_worker.rs:27-33).
ScanYields ==
    [][\A f \in scan.raced \ scan.closed :
          scan.pc = "store" /\ scan'.pc = "merge" => scan.uri # f]_vars

\* A request is taken up: the permit that announces it is not lost to the
\* draining of earlier ones (external/mod.rs:97-100).
RequestIsTaken == pending # None ~> pending = None
=============================================================================
