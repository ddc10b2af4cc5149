------------------------ MODULE DiagnosticsDelivery ------------------------
(***************************************************************************)
(* Delivering diagnostics to the editor (src/src/diagnostics/delivery.rs,  *)
(* pull.rs, state.rs) together with the part of the document lifecycle     *)
(* (src/src/backend/documents.rs) and of startup                           *)
(* (src/src/backend/startup.rs) that drives it.                            *)
(*                                                                         *)
(* Three tasks produce diagnostics and merge them for the editor: the      *)
(* debounced diagnostic worker, the catch-up task startup leaves behind    *)
(* for the files that were opened before it finished, and the worker of an *)
(* external tool.  The editor's notifications are handled one at a time on *)
(* the service loop, but each of their steps interleaves with the tasks.   *)
(*                                                                         *)
(* A text is a version number, unique over the session; a diagnostic set   *)
(* is named by the version it was computed on, 0 being the absence of an   *)
(* entry (and an empty set).  Every text is taken to have findings of its  *)
(* own, so two sets are equal only when they come from the same versions.  *)
(***************************************************************************)
EXTENDS Integers, FiniteSets

CONSTANTS
    File,          \* the documents of the session
    StartupFiles,  \* those the editor may open before startup is over
    PullModes,     \* the values `caps().pull_diagnostics` may have
    NoSet,         \* "no entry" in the cache of merged sets
    MaxVersions,   \* bound: texts the editor creates
    MaxCloses,     \* bound: documents it closes
    MaxSaves,      \* bound: documents it saves
    MaxToolRuns    \* bound: runs of the external tool

\* One merged set: which version each source's part of it comes from.
MergedSet == [fast : Nat, slow : Nat, tool : Nat]
EmptySet == [fast |-> 0, slow |-> 0, tool |-> 0]

ASSUME DeliveryAssumption ==
    /\ StartupFiles \subseteq File
    /\ PullModes \subseteq BOOLEAN
    /\ NoSet \notin MergedSet
    /\ MaxVersions \in Nat /\ MaxCloses \in Nat
    /\ MaxSaves \in Nat /\ MaxToolRuns \in Nat

\* The tasks that run a native pass, and those that merge.
Passer == {"worker", "catchup"}
Merger == Passer \cup {"tool"}

VARIABLES
    \* The editor's documents and the service loop.
    pullMode,      \* what the client declared; never changes
    text,          \* [File -> Nat]: the open text's version, 0 when closed
    clock,         \* the last version handed out
    closes, saves, \* how many closes and saves there were
    handler,       \* the step the notification in progress has reached
    subject,       \* the documents that notification is about
    parses,        \* background parses queued by an edit: <<file, version>>
    committing,    \* those past their "is this still the text" check
    \* Scheduling.
    startup,       \* "starting", "ready" (init_complete), "caughtup"
    pending,       \* pending_uris
    moved,         \* did `version` move since the worker sampled it?
    permit,        \* the permit stored in `notify`
    calls,         \* the calls that queue files and have not returned yet
    workerPc,      \* the worker's loop: "wait", "sleep", "take", "run"
    todo,          \* [Passer -> SUBSET File]: files it has still to diagnose
    snap,          \* [File -> Nat]: the texts the catch-up task copied
    fullRequested, \* full_slow_pass_requested, each with the version it
                   \* was requested at (0: not requested)
    task,          \* [Merger -> Task]: what each task is doing
    toolRuns,
    \* The caches.
    lastFast, lastSlow, lastTool,  \* [File -> Nat]
    lastFull,      \* [File -> MergedSet or NoSet]
    resultId,      \* [File -> Nat]: result_ids, 0 when absent
    seq,           \* result_id_seq
    lockGen,       \* [File -> Nat]: which lock `assemble_locks` holds
    \* The client.
    shown,         \* [File -> MergedSet]: what the editor displays
    held,          \* [File -> Nat]: the resultId of its last full report
    heldSet,       \* [File -> MergedSet]: that report
    stale,         \* the documents it is going to pull
    refresh,       \* the permit stored in `refresh_notify`
    inFlight       \* has the pump a refresh request in flight?

docVars == <<text, clock, closes, saves>>
loopVars == <<handler, subject>>
parseVars == <<parses, committing>>
queueVars == <<pending, moved, permit, calls>>
workerVars == <<workerPc, todo, snap>>
sourceVars == <<lastFast, lastSlow, lastTool>>
fullVars == <<lastFull, resultId, seq>>
clientVars == <<shown, held, heldSet, stale>>
refreshVars == <<refresh, inFlight>>

vars == <<pullMode, docVars, loopVars, parseVars, startup, queueVars,
          workerVars, fullRequested, task, toolRuns, sourceVars,
          fullVars, lockGen, clientVars, refreshVars>>

HandlerStep == {"idle", "close-caches", "close-full", "close-publish",
                "save-affected", "save-invalidate", "save-requeue",
                "pull-check", "pull-reply"}

\* Who is in a call: a notification, a pull, the catch-up task, or the parse
\* of some version.
Caller == {"service", "pull", "catchup", "parse"}

\* The call queues its files, bumps `version` (a pull does not) and notifies.
Call == [by : Caller, of : Nat, files : SUBSET File,
         pc : {"queue", "version", "notify"}]

\* A pass, then the merge every task ends in.  "read" and "commit" hold the
\* assemble lock.
Holding == {"read", "commit"}
Step == {"idle", "begin", "fast", "store-fast", "await", "store-slow",
         "run", "store-tool", "fetch", "acquire", "publish"} \cup Holding

Task == [pc : Step,
         job : SUBSET File,   \* the file in hand, if any
         content : Nat,       \* the version it diagnoses
         full : Nat,          \* the full-pass request it consumed
         blocking : {"none", "fast", "between", "slow"},  \* of its pass
         phase : {"fast", "slow"}, \* which of the pass's two merges comes next
         lock : Nat,          \* the assemble lock it fetched
         got : MergedSet]     \* what its merge has read so far

Idle == [pc |-> "idle", job |-> {}, content |-> 0, full |-> 0,
         blocking |-> "none", phase |-> "fast", lock |-> 0, got |-> EmptySet]

Init ==
    /\ pullMode \in PullModes
    /\ text = [f \in File |-> 0]
    /\ clock = 0 /\ closes = 0 /\ saves = 0
    /\ handler = "idle" /\ subject = {}
    /\ parses = {} /\ committing = {}
    /\ startup = "starting"
    /\ pending = {} /\ moved = FALSE /\ permit = FALSE /\ calls = {}
    /\ workerPc = "wait"
    /\ todo = [p \in Passer |-> {}]
    /\ snap = [f \in File |-> 0]
    /\ fullRequested = [f \in File |-> 0]
    /\ task = [m \in Merger |-> Idle]
    /\ toolRuns = 0
    /\ lastFast = [f \in File |-> 0]
    /\ lastSlow = [f \in File |-> 0]
    /\ lastTool = [f \in File |-> 0]
    /\ lastFull = [f \in File |-> NoSet]
    /\ resultId = [f \in File |-> 0]
    /\ seq = 0
    /\ lockGen = [f \in File |-> 0]
    /\ shown = [f \in File |-> EmptySet]
    /\ held = [f \in File |-> 0]
    /\ heldSet = [f \in File |-> EmptySet]
    /\ stale = {}
    /\ refresh = FALSE /\ inFlight = FALSE

IsOpen(f) == text[f] # 0
OpenFiles == {f \in File : IsOpen(f)}
Ready == startup # "starting"

-----------------------------------------------------------------------------
(* Scheduling.                                                             *)

\* A call of schedule_diagnostics (of trigger_diagnostics_for_pull, of the
\* end of rediagnose_open_files) for the files of S begins ...
Schedule(by, version, S) ==
    calls' = calls \cup
        {[by |-> by, of |-> version, files |-> S, pc |-> "queue"]}

\* ... and until it returns its caller does nothing else.
Returned(by) == \A c \in calls : c.by # by

\* The service loop is free for the next notification or pull.
Listening == handler = "idle" /\ Returned("service")

At(c, step) == calls' = (calls \ {c}) \cup {[c EXCEPT !.pc = step]}

\* The files join the queue, under its lock; nothing happens before
\* init_complete.
CallQueue(c) ==
    /\ c.pc = "queue"
    /\ IF Ready
       THEN /\ pending' = pending \cup c.files
            /\ At(c, IF c.by = "pull" THEN "notify" ELSE "version")
       ELSE UNCHANGED pending /\ calls' = calls \ {c}
    /\ UNCHANGED <<moved, permit>>

CallBump(c) ==
    /\ c.pc = "version"
    /\ moved' = TRUE
    /\ At(c, "notify")
    /\ UNCHANGED <<pending, permit>>

CallNotify(c) ==
    /\ c.pc = "notify"
    /\ permit' = TRUE
    /\ calls' = calls \ {c}
    /\ UNCHANGED <<pending, moved>>

\* Mutant of CallSteps: the worker is notified before the files are queued.
CallStepsNotifyFirst(c) ==
    \/ /\ c.pc = "queue" /\ Ready
       /\ permit' = TRUE
       /\ At(c, IF c.by = "pull" THEN "notify" ELSE "version")
       /\ UNCHANGED <<pending, moved>>
    \/ CallBump(c)
    \/ /\ c.pc = "notify"
       /\ pending' = pending \cup c.files
       /\ calls' = calls \ {c}
       /\ UNCHANGED <<moved, permit>>

CallSteps(c) == CallQueue(c) \/ CallBump(c) \/ CallNotify(c)

CallStep(c) ==
    /\ c \in calls
    /\ CallSteps(c)
    /\ UNCHANGED <<pullMode, docVars, loopVars, parseVars, startup, workerVars,
                   fullRequested, task, toolRuns, sourceVars, fullVars,
                   lockGen, clientVars, refreshVars>>

\* request_diagnostic_refresh: a no-op for a push client.
SignalRefresh == refresh' = (refresh \/ pullMode)

-----------------------------------------------------------------------------
(* The editor's notifications.                                             *)

\* A pull client pulls a document it opened or changed.
Touched(f) == stale' = IF pullMode THEN stale \cup {f} ELSE stale

\* on_did_open.  A file outside StartupFiles is only opened once the
\* catch-up task has taken its copy of the open files.
Open(f) ==
    /\ Listening /\ ~IsOpen(f) /\ clock < MaxVersions
    /\ f \in StartupFiles \/ startup = "caughtup"
    /\ clock' = clock + 1
    /\ text' = [text EXCEPT ![f] = clock + 1]
    /\ Schedule("service", 0, {f})
    /\ Touched(f)
    /\ UNCHANGED <<pullMode, closes, saves, loopVars, parseVars, startup,
                   pending, moved, permit, workerVars, fullRequested, task, toolRuns, sourceVars,
                   fullVars, lockGen, shown, held, heldSet, refreshVars>>

\* on_did_change: the parse, and the scheduling that follows it, are left
\* to a background task.
Edit(f) ==
    /\ Listening /\ IsOpen(f) /\ clock < MaxVersions
    /\ clock' = clock + 1
    /\ text' = [text EXCEPT ![f] = clock + 1]
    /\ parses' = parses \cup {<<f, clock + 1>>}
    /\ Touched(f)
    /\ UNCHANGED <<pullMode, closes, saves, loopVars, committing, startup,
                   queueVars, workerVars, fullRequested, task, toolRuns,
                   sourceVars, fullVars, lockGen, shown, held, heldSet,
                   refreshVars>>

\* The background parse drops out when its text is no longer the buffer's.
ParseCheck(t) ==
    /\ t \in parses
    /\ parses' = parses \ {t}
    /\ committing' = IF text[t[1]] = t[2] THEN committing \cup {t} ELSE committing
    /\ UNCHANGED <<pullMode, docVars, loopVars, startup, queueVars, workerVars,
                   fullRequested, task, toolRuns, sourceVars, fullVars,
                   lockGen, clientVars, refreshVars>>

\* update_ast has published the parse; diagnostics are scheduled.
ParseCommit(t) ==
    /\ t \in committing
    /\ committing' = committing \ {t}
    /\ Schedule("parse", t[2], {t[1]})
    /\ UNCHANGED <<pullMode, docVars, loopVars, parses, startup, pending,
                   moved, permit, workerVars,
                   fullRequested, task, toolRuns, sourceVars, fullVars,
                   lockGen, clientVars, refreshVars>>

\* on_did_save: a full pass is asked for the saved file, then it is queued.
Save(f) ==
    /\ Listening /\ IsOpen(f) /\ saves < MaxSaves
    /\ saves' = saves + 1
    /\ fullRequested' = [fullRequested EXCEPT ![f] = text[f]]
    /\ Schedule("service", 0, {f})
    /\ handler' = "save-affected" /\ subject' = {f}
    /\ UNCHANGED <<pullMode, text, clock, closes, parseVars, startup, pending,
                   moved, permit, workerVars, task, toolRuns, sourceVars,
                   fullVars, lockGen, clientVars, refreshVars>>

\* The open files the save can affect (any of the others, as far as this
\* module goes) follow.
SaveAffects ==
    /\ handler = "save-affected" /\ Returned("service")
    /\ \E affected \in SUBSET (OpenFiles \ subject) :
          IF affected # {} /\ Ready
          THEN handler' = "save-invalidate" /\ subject' = affected
          ELSE handler' = "idle" /\ subject' = {}
    /\ UNCHANGED <<pullMode, docVars, parseVars, startup, queueVars,
                   workerVars, fullRequested, task, toolRuns, sourceVars,
                   fullVars, lockGen, clientVars, refreshVars>>

\* rediagnose_open_files drops the cached sets but keeps their ids, ...
SaveInvalidate ==
    /\ handler = "save-invalidate"
    /\ lastFull' = [f \in File |-> IF f \in subject THEN NoSet ELSE lastFull[f]]
    /\ handler' = "save-requeue"
    /\ UNCHANGED <<pullMode, docVars, subject, parseVars, startup, queueVars,
                   workerVars, fullRequested, task, toolRuns, sourceVars,
                   resultId, seq, lockGen, clientVars, refreshVars>>

\* ... then asks for full passes and queues the files.
SaveRequeue ==
    /\ handler = "save-requeue"
    /\ fullRequested' = [f \in File |-> IF f \in subject THEN text[f]
                                        ELSE fullRequested[f]]
    /\ Schedule("service", 0, subject)
    /\ handler' = "idle" /\ subject' = {}
    /\ UNCHANGED <<pullMode, docVars, parseVars, startup, pending, moved,
                   permit, workerVars, task, toolRuns, sourceVars, fullVars, lockGen,
                   clientVars, refreshVars>>

\* on_did_close removes the buffer, then clear_diagnostics_for_file purges
\* the caches one lock at a time.
Close(f) ==
    /\ Listening /\ IsOpen(f) /\ closes < MaxCloses
    /\ closes' = closes + 1
    /\ text' = [text EXCEPT ![f] = 0]
    /\ subject' = {f} /\ handler' = "close-caches"
    /\ stale' = stale \ {f}
    /\ UNCHANGED <<pullMode, clock, saves, parseVars, startup, queueVars,
                   workerVars, fullRequested, task, toolRuns, sourceVars,
                   fullVars, lockGen, shown, held, heldSet, refreshVars>>

Without(cache) == [f \in File |-> IF f \in subject THEN 0 ELSE cache[f]]

CloseCaches ==
    /\ handler = "close-caches"
    /\ lastFast' = Without(lastFast)
    /\ lastSlow' = Without(lastSlow)
    /\ lastTool' = Without(lastTool)
    /\ fullRequested' = Without(fullRequested)
    /\ resultId' = Without(resultId)
    /\ handler' = "close-full"
    /\ UNCHANGED <<pullMode, docVars, subject, parseVars, startup, queueVars,
                   workerVars, task, toolRuns, lastFull, seq, lockGen,
                   clientVars, refreshVars>>

\* The id went first, the set goes now, and the file's assemble lock leaves
\* the map: the next merge creates another.
CloseFull ==
    /\ handler = "close-full"
    /\ lastFull' = [f \in File |-> IF f \in subject THEN NoSet ELSE lastFull[f]]
    /\ lockGen' = [f \in File |-> IF f \in subject THEN lockGen[f] + 1
                                  ELSE lockGen[f]]
    /\ handler' = "close-publish"
    /\ UNCHANGED <<pullMode, docVars, subject, parseVars, startup, queueVars,
                   workerVars, fullRequested, task, toolRuns, sourceVars,
                   resultId, seq, clientVars, refreshVars>>

\* Both modes push the empty set and ask for a refresh.
ClosePublish ==
    /\ handler = "close-publish"
    /\ shown' = [f \in File |-> IF f \in subject THEN EmptySet ELSE shown[f]]
    /\ SignalRefresh
    /\ handler' = "idle" /\ subject' = {}
    /\ UNCHANGED <<pullMode, docVars, parseVars, startup, queueVars,
                   workerVars, fullRequested, task, toolRuns, sourceVars,
                   fullVars, lockGen, held, heldSet, stale, inFlight>>

HandlerStepNext ==
    \/ SaveAffects \/ SaveInvalidate \/ SaveRequeue
    \/ CloseCaches \/ CloseFull \/ ClosePublish

-----------------------------------------------------------------------------
(* Startup and the worker's loop.                                          *)

\* on_initialized ends by raising init_complete ...
BecomeReady ==
    /\ startup = "starting"
    /\ startup' = "ready"
    /\ UNCHANGED <<pullMode, docVars, loopVars, parseVars, queueVars,
                   workerVars, fullRequested, task, toolRuns, sourceVars,
                   fullVars, lockGen, clientVars, refreshVars>>

\* ... and leaves a task that copies the open files and their texts, then
\* schedules and diagnoses each of them itself.
CatchUpSnapshot ==
    /\ startup = "ready"
    /\ startup' = "caughtup"
    /\ todo' = [todo EXCEPT !["catchup"] = OpenFiles]
    /\ snap' = text
    /\ UNCHANGED <<pullMode, docVars, loopVars, parseVars, queueVars, workerPc,
                   fullRequested, task, toolRuns, sourceVars, fullVars,
                   lockGen, clientVars, refreshVars>>

\* diagnostic_worker: a permit wakes it and it samples the version ...
WorkerWake ==
    /\ workerPc = "wait" /\ permit
    /\ permit' = FALSE /\ moved' = FALSE
    /\ workerPc' = "sleep"
    /\ UNCHANGED <<pullMode, docVars, loopVars, parseVars, startup, pending,
                   calls, todo, snap, fullRequested, task, toolRuns,
                   sourceVars, fullVars, lockGen, clientVars, refreshVars>>

\* Mutant of WorkerDebounce: `version_before` is read once, before the loop.
DebounceSampledOnce ==
    /\ workerPc = "sleep"
    /\ workerPc' = IF moved THEN "sleep" ELSE "take"
    /\ UNCHANGED <<pullMode, docVars, loopVars, parseVars, startup, queueVars,
                   todo, snap, fullRequested, task, toolRuns, sourceVars,
                   fullVars, lockGen, clientVars, refreshVars>>

\* ... and goes round again while edits keep arriving.
WorkerDebounce ==
    /\ workerPc = "sleep"
    /\ moved' = FALSE
    /\ workerPc' = IF moved THEN "sleep" ELSE "take"
    /\ UNCHANGED <<pullMode, docVars, loopVars, parseVars, startup, pending,
                   permit, calls, todo, snap, fullRequested, task, toolRuns,
                   sourceVars, fullVars, lockGen, clientVars, refreshVars>>

WorkerTake ==
    /\ workerPc = "take"
    /\ todo' = [todo EXCEPT !["worker"] = pending]
    /\ pending' = {}
    /\ workerPc' = "run"
    /\ UNCHANGED <<pullMode, docVars, loopVars, parseVars, startup, moved,
                   permit, calls, snap, fullRequested, task, toolRuns,
                   sourceVars, fullVars, lockGen, clientVars, refreshVars>>

\* Mutant of WorkerDone: the queue is emptied after the batch as well.
DoneEmptiesQueue ==
    /\ workerPc = "run" /\ task["worker"].pc = "idle" /\ todo["worker"] = {}
    /\ workerPc' = "wait" /\ pending' = {}
    /\ UNCHANGED <<pullMode, docVars, loopVars, parseVars, startup, moved,
                   permit, calls, todo, snap, fullRequested, task, toolRuns,
                   sourceVars, fullVars, lockGen, clientVars, refreshVars>>

\* The batch is done: back to waiting.
WorkerDone ==
    /\ workerPc = "run" /\ task["worker"].pc = "idle" /\ todo["worker"] = {}
    /\ workerPc' = "wait"
    /\ UNCHANGED <<pullMode, docVars, loopVars, parseVars, startup, queueVars,
                   todo, snap, fullRequested, task, toolRuns, sourceVars,
                   fullVars, lockGen, clientVars, refreshVars>>

-----------------------------------------------------------------------------
(* publish_diagnostics_for_file.                                           *)

\* The next file of the batch.  The worker reads its text now and skips a
\* closed file; the catch-up task schedules the file and uses its copy.
NextFile(p, f) ==
    /\ task[p].pc = "idle" /\ f \in todo[p]
    /\ todo' = [todo EXCEPT ![p] = @ \ {f}]
    /\ LET c == IF p = "worker" THEN text[f] ELSE snap[f] IN
         IF c = 0 THEN UNCHANGED task
         ELSE task' = [task EXCEPT ![p].pc = "begin", ![p].job = {f},
                                   ![p].content = c]
    /\ IF p = "catchup"
       THEN Schedule("catchup", 0, {f}) /\ snap' = [snap EXCEPT ![f] = 0]
       ELSE UNCHANGED <<calls, snap>>
    /\ UNCHANGED <<pullMode, docVars, loopVars, parseVars, startup, pending,
                   moved, permit, workerPc, fullRequested, toolRuns,
                   sourceVars, fullVars, lockGen, clientVars, refreshVars>>

\* The pass consumes the file's full-pass request and starts the blocking
\* task that runs both phases.
PassBegin(p, f) ==
    /\ task[p].pc = "begin" /\ f \in task[p].job
    /\ p = "catchup" => Returned("catchup")
    /\ fullRequested' = [fullRequested EXCEPT ![f] = 0]
    /\ task' = [task EXCEPT ![p].pc = "fast", ![p].blocking = "fast",
                            ![p].full = fullRequested[f]]
    /\ UNCHANGED <<pullMode, docVars, loopVars, parseVars, startup, queueVars,
                   workerVars, toolRuns, sourceVars, fullVars, lockGen,
                   clientVars, refreshVars>>

\* The blocking task: phase 1 answers, then phase 2 runs if the file is
\* still open.
BlockingStep(p, f) ==
    /\ f \in task[p].job
    /\ \/ /\ task[p].blocking = "fast"
          /\ task' = [task EXCEPT ![p].blocking = "between"]
       \/ /\ task[p].blocking = "between"
          /\ task' = [task EXCEPT ![p].blocking = IF IsOpen(f) THEN "slow" ELSE "none"]
    /\ UNCHANGED <<pullMode, docVars, loopVars, parseVars, startup, queueVars,
                   workerVars, fullRequested, toolRuns, sourceVars, fullVars,
                   lockGen, clientVars, refreshVars>>

\* Where a task that found its file open goes on; otherwise it is over.
IfOpen(m, f, step) ==
    task' = [task EXCEPT ![m] = IF IsOpen(f) THEN [@ EXCEPT !.pc = step] ELSE Idle]

\* Phase 1's answer is in: is the file still open?
CheckFast(p, f) ==
    /\ task[p].pc = "fast" /\ f \in task[p].job /\ task[p].blocking # "fast"
    /\ IfOpen(p, f, "store-fast")
    /\ UNCHANGED <<pullMode, docVars, loopVars, parseVars, startup, queueVars,
                   workerVars, fullRequested, toolRuns, sourceVars, fullVars,
                   lockGen, clientVars, refreshVars>>

StoreFast(p, f) ==
    /\ task[p].pc = "store-fast" /\ f \in task[p].job
    /\ lastFast' = [lastFast EXCEPT ![f] = task[p].content]
    /\ task' = [task EXCEPT ![p].pc = "fetch"]
    /\ UNCHANGED <<pullMode, docVars, loopVars, parseVars, startup, queueVars,
                   workerVars, fullRequested, toolRuns, lastSlow, lastTool,
                   fullVars, lockGen, clientVars, refreshVars>>

\* Phase 2's answer is in.  A full pass that did not happen is asked for
\* again while the file is open, and a file closed by now is left alone.
Await(p, f) ==
    /\ task[p].pc = "await" /\ f \in task[p].job
    /\ task[p].blocking \in {"slow", "none"}
    /\ fullRequested' =
         IF task[p].blocking = "none" /\ task[p].full # 0 /\ IsOpen(f)
         THEN [fullRequested EXCEPT ![f] = task[p].full] ELSE fullRequested
    /\ IfOpen(p, f, "store-slow")
    /\ UNCHANGED <<pullMode, docVars, loopVars, parseVars, startup, queueVars,
                   workerVars, toolRuns, sourceVars, fullVars, lockGen,
                   clientVars, refreshVars>>

\* A pass without a phase-2 answer stores the empty set.
StoreSlow(p, f) ==
    /\ task[p].pc = "store-slow" /\ f \in task[p].job
    /\ lastSlow' = [lastSlow EXCEPT ![f] = IF task[p].blocking = "slow"
                                           THEN task[p].content ELSE 0]
    /\ task' = [task EXCEPT ![p].pc = "fetch", ![p].phase = "slow"]
    /\ UNCHANGED <<pullMode, docVars, loopVars, parseVars, startup, queueVars,
                   workerVars, fullRequested, toolRuns, lastFast, lastTool,
                   fullVars, lockGen, clientVars, refreshVars>>

-----------------------------------------------------------------------------
(* The external tool's worker, from the moment it picks an open file.      *)

ToolStart(f) ==
    /\ task["tool"].pc = "idle" /\ IsOpen(f) /\ Ready /\ toolRuns < MaxToolRuns
    /\ toolRuns' = toolRuns + 1
    /\ task' = [task EXCEPT !["tool"].pc = "run", !["tool"].job = {f},
                            !["tool"].content = text[f]]
    /\ UNCHANGED <<pullMode, docVars, loopVars, parseVars, startup, queueVars,
                   workerVars, fullRequested, sourceVars, fullVars, lockGen,
                   clientVars, refreshVars>>

\* The process exits; a failed run and a closed file store nothing.
ToolExit(f) ==
    /\ task["tool"].pc = "run" /\ f \in task["tool"].job
    /\ IfOpen("tool", f, "store-tool") \/ task' = [task EXCEPT !["tool"] = Idle]
    /\ UNCHANGED <<pullMode, docVars, loopVars, parseVars, startup, queueVars,
                   workerVars, fullRequested, toolRuns, sourceVars, fullVars,
                   lockGen, clientVars, refreshVars>>

ToolStore(f) ==
    /\ task["tool"].pc = "store-tool" /\ f \in task["tool"].job
    /\ lastTool' = [lastTool EXCEPT ![f] = task["tool"].content]
    /\ task' = [task EXCEPT !["tool"].pc = "fetch", !["tool"].phase = "slow"]
    /\ UNCHANGED <<pullMode, docVars, loopVars, parseVars, startup, queueVars,
                   workerVars, fullRequested, toolRuns, lastFast, lastSlow,
                   fullVars, lockGen, clientVars, refreshVars>>

-----------------------------------------------------------------------------
(* assemble_and_push, then the refresh of assemble_and_refresh.            *)

\* The file's lock is looked up, or created, in the map ...
MergeFetch(m, f) ==
    /\ task[m].pc = "fetch" /\ f \in task[m].job
    /\ task' = [task EXCEPT ![m].pc = "acquire", ![m].lock = lockGen[f]]
    /\ UNCHANGED <<pullMode, docVars, loopVars, parseVars, startup, queueVars,
                   workerVars, fullRequested, toolRuns, sourceVars, fullVars,
                   lockGen, clientVars, refreshVars>>

Holds(n, f, l) == task[n].pc \in Holding /\ f \in task[n].job /\ task[n].lock = l

\* Mutant of LockFree: every merge creates a lock of its own.
LockNeverShared(m, f) == TRUE

LockFree(m, f) == \A n \in Merger \ {m} : ~Holds(n, f, task[m].lock)

\* ... and taken; under it the caches are read one after the other.
MergeAcquire(m, f) ==
    /\ task[m].pc = "acquire" /\ f \in task[m].job
    /\ LockFree(m, f)
    /\ task' = [task EXCEPT ![m].pc = "read", ![m].got.fast = lastFast[f]]
    /\ UNCHANGED <<pullMode, docVars, loopVars, parseVars, startup, queueVars,
                   workerVars, fullRequested, toolRuns, sourceVars, fullVars,
                   lockGen, clientVars, refreshVars>>

\* (What the merge prunes from the tool's findings it writes back to the
\* tool's cache; ExternalTool has that part.)
MergeRead(m, f) ==
    /\ task[m].pc = "read" /\ f \in task[m].job
    /\ task' = [task EXCEPT ![m].pc = "commit", ![m].got.slow = lastSlow[f],
                            ![m].got.tool = lastTool[f]]
    /\ UNCHANGED <<pullMode, docVars, loopVars, parseVars, startup, queueVars,
                   workerVars, fullRequested, toolRuns, sourceVars, fullVars,
                   lockGen, clientVars, refreshVars>>

\* What follows a merge: phase 2 of the pass, or the task's next job.
Merged(t) == IF t.phase = "fast"
             THEN [t EXCEPT !.pc = "await", !.lock = 0, !.got = EmptySet]
             ELSE Idle

\* Mutant of NewId: a counter of each document's own.
NewIdPerDocument(f) == resultId[f] + 1

\* result_id_seq is bumped once more, whatever the document.
NewId(f) == seq + 1

\* The set and its id change together, under the `last_full` guard, and only
\* if the set differs from the cached one.  The assemble lock goes with this
\* step; a push client is sent the set after it.
MergeCommit(m, f) ==
    /\ task[m].pc = "commit" /\ f \in task[m].job
    /\ LET changed == lastFull[f] # task[m].got IN
         /\ IF changed
            THEN /\ lastFull' = [lastFull EXCEPT ![f] = task[m].got]
                 /\ seq' = seq + 1
                 /\ resultId' = [resultId EXCEPT ![f] = NewId(f)]
            ELSE UNCHANGED fullVars
         /\ refresh' = (refresh \/ (pullMode /\ changed))
    /\ task' = [task EXCEPT ![m] = IF pullMode THEN Merged(@)
                                   ELSE [@ EXCEPT !.pc = "publish", !.lock = 0]]
    /\ UNCHANGED <<pullMode, docVars, loopVars, parseVars, startup, queueVars,
                   workerVars, fullRequested, toolRuns, sourceVars, lockGen,
                   clientVars, inFlight>>

MergePublish(m, f) ==
    /\ task[m].pc = "publish" /\ f \in task[m].job
    /\ shown' = [shown EXCEPT ![f] = task[m].got]
    /\ task' = [task EXCEPT ![m] = Merged(@)]
    /\ UNCHANGED <<pullMode, docVars, loopVars, parseVars, startup, queueVars,
                   workerVars, fullRequested, toolRuns, sourceVars, fullVars,
                   lockGen, held, heldSet, stale, refreshVars>>

-----------------------------------------------------------------------------
(* The pull client.                                                        *)

\* The pump sends one refresh at a time; the client answers it and pulls its
\* open documents again.
RefreshSend ==
    /\ refresh /\ ~inFlight
    /\ refresh' = FALSE /\ inFlight' = TRUE
    /\ UNCHANGED <<pullMode, docVars, loopVars, parseVars, startup, queueVars,
                   workerVars, fullRequested, task, toolRuns, sourceVars,
                   fullVars, lockGen, clientVars>>

RefreshAnswer ==
    /\ inFlight
    /\ inFlight' = FALSE
    /\ stale' = OpenFiles
    /\ UNCHANGED <<pullMode, docVars, loopVars, parseVars, startup, queueVars,
                   workerVars, fullRequested, task, toolRuns, sourceVars,
                   fullVars, lockGen, shown, held, heldSet, refresh>>

\* Mutant of SameId: any id the client sends will do.
AnyId(f) == lastFull[f] # NoSet /\ held[f] # 0

\* `Unchanged` is the answer when the set is cached under the id the client
\* sent (it sends none before its first report).
SameId(f) == lastFull[f] # NoSet /\ resultId[f] # 0 /\ resultId[f] = held[f]

PullUnchanged(f) ==
    /\ pullMode /\ Listening /\ f \in stale
    /\ SameId(f)
    /\ stale' = stale \ {f}
    /\ shown' = [shown EXCEPT ![f] = heldSet[f]]
    /\ UNCHANGED <<pullMode, docVars, loopVars, parseVars, startup, queueVars,
                   workerVars, fullRequested, task, toolRuns, sourceVars,
                   fullVars, lockGen, held, heldSet, refreshVars>>

\* Otherwise a missing set queues the file (without touching `version`) ...
PullCheck(f) ==
    /\ pullMode /\ Listening /\ f \in stale
    /\ ~SameId(f)
    /\ handler' = "pull-check" /\ subject' = {f}
    /\ stale' = stale \ {f}
    /\ UNCHANGED <<pullMode, docVars, parseVars, startup, queueVars,
                   workerVars, fullRequested, task, toolRuns, sourceVars,
                   fullVars, lockGen, shown, held, heldSet, refreshVars>>

PullTrigger ==
    /\ handler = "pull-check"
    /\ LET missing == {f \in subject : lastFull[f] = NoSet} IN
         IF missing # {} THEN Schedule("pull", 0, missing) ELSE UNCHANGED calls
    /\ handler' = "pull-reply"
    /\ UNCHANGED <<pullMode, docVars, subject, parseVars, startup, pending,
                   moved, permit, workerVars, fullRequested, task, toolRuns,
                   sourceVars, fullVars, lockGen, clientVars, refreshVars>>

\* Mutant of CachedOrEmpty: the absent entry goes out as it is.
CachedOrAbsent(f) == lastFull[f]

\* ... and the answer is whatever is cached by then, with its id.
CachedOrEmpty(f) == IF lastFull[f] = NoSet THEN EmptySet ELSE lastFull[f]

PullReply ==
    /\ handler = "pull-reply" /\ Returned("pull")
    /\ held' = [f \in File |-> IF f \in subject THEN resultId[f] ELSE held[f]]
    /\ heldSet' = [f \in File |-> IF f \in subject THEN CachedOrEmpty(f)
                                  ELSE heldSet[f]]
    /\ shown' = [f \in File |-> IF f \in subject THEN CachedOrEmpty(f)
                                ELSE shown[f]]
    /\ handler' = "idle" /\ subject' = {}
    /\ UNCHANGED <<pullMode, docVars, parseVars, startup, queueVars,
                   workerVars, fullRequested, task, toolRuns, sourceVars,
                   fullVars, lockGen, stale, refreshVars>>

-----------------------------------------------------------------------------

MergeStep(m, f) ==
    \/ MergeFetch(m, f) \/ MergeAcquire(m, f) \/ MergeRead(m, f)
    \/ MergeCommit(m, f) \/ MergePublish(m, f)

PassStep(p, f) ==
    \/ PassBegin(p, f) \/ CheckFast(p, f) \/ StoreFast(p, f)
    \/ Await(p, f) \/ StoreSlow(p, f)

ToolStep(f) == ToolExit(f) \/ ToolStore(f)

WorkerStep == WorkerWake \/ WorkerDebounce \/ WorkerTake \/ WorkerDone

ParseStep == \E t \in parses \cup committing : ParseCheck(t) \/ ParseCommit(t)

PullStep == PullTrigger \/ PullReply

PullStart(f) == PullUnchanged(f) \/ PullCheck(f)

Next ==
    \/ \E f \in File : Open(f) \/ Edit(f) \/ Save(f) \/ Close(f)
    \/ ParseStep
    \/ HandlerStepNext
    \/ BecomeReady \/ CatchUpSnapshot
    \/ WorkerStep
    \/ \E p \in Passer, f \in File :
          NextFile(p, f) \/ PassStep(p, f) \/ BlockingStep(p, f)
    \/ \E f \in File : ToolStart(f) \/ ToolStep(f)
    \/ \E m \in Merger, f \in File : MergeStep(m, f)
    \/ RefreshSend \/ RefreshAnswer
    \/ \E f \in File : PullStart(f)
    \/ PullStep
    \/ \E c \in calls : CallStep(c)

Spec == Init /\ [][Next]_vars

\* Everything the server has started goes on: the runtime keeps polling its
\* tasks, the tool's process has a timeout, and the client answers a refresh
\* and pulls what it was told to.  The editor may stop editing at any time.
Fairness ==
    /\ WF_vars(ParseStep)
    /\ WF_vars(HandlerStepNext \/ PullStep)
    /\ \A by \in Caller : WF_vars(\E c \in calls : c.by = by /\ CallStep(c))
    /\ WF_vars(BecomeReady) /\ WF_vars(CatchUpSnapshot)
    /\ WF_vars(WorkerStep)
    /\ \A p \in Passer :
          /\ WF_vars(\E f \in File : NextFile(p, f) \/ PassStep(p, f))
          /\ WF_vars(\E f \in File : BlockingStep(p, f))
    /\ WF_vars(\E f \in File : ToolStep(f))
    /\ \A m \in Merger : WF_vars(\E f \in File : MergeStep(m, f))
    /\ WF_vars(RefreshSend) /\ WF_vars(RefreshAnswer)
    /\ \A f \in File : WF_vars(PullStart(f))

FairSpec == Spec /\ Fairness

-----------------------------------------------------------------------------
(* Properties.                                                             *)

DocumentTypes ==
    /\ pullMode \in BOOLEAN
    /\ text \in [File -> Nat] /\ clock \in Nat
    /\ closes \in Nat /\ saves \in Nat
    /\ handler \in HandlerStep /\ subject \subseteq File
    /\ parses \subseteq File \X Nat /\ committing \subseteq File \X Nat

QueueTypes ==
    /\ startup \in {"starting", "ready", "caughtup"}
    /\ pending \subseteq File /\ moved \in BOOLEAN /\ permit \in BOOLEAN
    /\ calls \subseteq Call
    /\ workerPc \in {"wait", "sleep", "take", "run"}
    /\ todo \in [Passer -> SUBSET File]
    /\ snap \in [File -> Nat]
    /\ fullRequested \in [File -> Nat]

TaskTypes == task \in [Merger -> Task] /\ toolRuns \in Nat

CacheTypes ==
    /\ lastFast \in [File -> Nat] /\ lastSlow \in [File -> Nat]
    /\ lastTool \in [File -> Nat]
    /\ lastFull \in [File -> MergedSet \cup {NoSet}]
    /\ resultId \in [File -> Nat] /\ seq \in Nat
    /\ lockGen \in [File -> Nat]

ClientTypes ==
    /\ shown \in [File -> MergedSet]
    /\ held \in [File -> Nat] /\ heldSet \in [File -> MergedSet]
    /\ stale \subseteq File
    /\ refresh \in BOOLEAN /\ inFlight \in BOOLEAN

\* Every variable keeps its shape; in particular the absent entry of
\* last_full never reaches the client.
TypeOK == DocumentTypes /\ QueueTypes /\ TaskTypes /\ CacheTypes /\ ClientTypes

\* A pull is answered `Unchanged` only when the report the client holds under
\* that id is the set the server has cached: across merges, saves that drop
\* the set but keep its id, closes that drop the id before the set, and pulls
\* that read the two together.
UnchangedIsSound == \A f \in File : SameId(f) => heldSet[f] = lastFull[f]

\* A queued file is never left behind by a sleeping worker: a permit is
\* stored, or the worker is between its permit and its look at the queue, or
\* whoever queued that very file has still to notify.  Requests that arrive
\* while a batch runs, or while others are half way, are the hard case.
NoLostWakeup ==
    \A f \in pending :
        \/ permit \/ workerPc \in {"sleep", "take"}
        \/ \E c \in calls : f \in c.files /\ c.pc \in {"version", "notify"}

\* No notification, task, request or pull is under way.
Quiet ==
    /\ handler = "idle" /\ parses = {} /\ committing = {} /\ calls = {}
    /\ startup = "caughtup" /\ ~permit /\ workerPc = "wait"
    /\ \A p \in Passer : todo[p] = {}
    /\ \A m \in Merger : task[m].pc = "idle"
    /\ stale = {} /\ ~refresh /\ ~inFlight

\* The open file's merged set was computed on its current text in both
\* phases, no full pass is owed, and a pull client displays that set.
Fresh(f) ==
    /\ lastFull[f] # NoSet
    /\ lastFull[f].fast = text[f] /\ lastFull[f].slow = text[f]
    /\ fullRequested[f] = 0
    /\ pullMode => shown[f] = lastFull[f]

\* The file was opened after startup and has not been closed since: it has
\* one native pass at a time, and the assemble lock of its first opening.
FirstOpen(f) == IsOpen(f) /\ f \notin StartupFiles /\ lockGen[f] = 0

\* When everything has come to rest, every open file of that kind is fresh: no
\* edit, save or pull that raced a pass was dropped, whatever is opened,
\* closed or saved besides it.
RestIsFresh == Quiet => \A f \in File : FirstOpen(f) => Fresh(f)

\* When the editor stops editing, every open file becomes fresh and stays so.
EventuallyFresh == <>[](\A f \in OpenFiles : Fresh(f))

\* What assemble_locks is for: one that started reading first does not finish
\* "writing last, clobbering a fresher merge with a stale one".  (0 is left
\* out: after a close emptied the caches a merge rightly finds nothing.)
Clobbers(old, new) == 0 < new /\ new < old

MergesMoveForward ==
    [][\A f \in File :
          FirstOpen(f) /\ lastFull[f] # NoSet /\ lastFull'[f] # NoSet =>
             /\ ~Clobbers(lastFull[f].fast, lastFull'[f].fast)
             /\ ~Clobbers(lastFull[f].slow, lastFull'[f].slow)]_vars
=============================================================================
