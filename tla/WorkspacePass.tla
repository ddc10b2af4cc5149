--------------------------- MODULE WorkspacePass ---------------------------
(***************************************************************************)
(* The native pass over the files that are not open                        *)
(* (src/src/diagnostics/workspace.rs): a pool of detached workers that     *)
(* drain a queue, the task that polls them, harvests their results and     *)
(* gives up on those that are stuck, the recomputation of a closed file,   *)
(* and the setting that switches all of it off and on.                     *)
(*                                                                         *)
(* A text is a number; what is stored for a file is the text its           *)
(* diagnostics were computed on.  Time is left out: a file that is being   *)
(* analysed may be past its deadline at any poll.  External tools, the     *)
(* delivery of what is stored and the numbers shown as progress are left   *)
(* out.                                                                    *)
(***************************************************************************)
EXTENDS Naturals, FiniteSets

CONSTANTS
    File,           \* numbers: the queue is sorted
    Wedged,         \* files whose analysis need not return
    Panics,         \* files whose analysis panics
    Workers,        \* size of the pool
    MaxReplacements,
    Refused,        \* slots for which the system may refuse a thread
    MaxPasses, MaxEdits, MaxCloses, MaxSwitches     \* bounds

ASSUME PassAssumption ==
    /\ File \subseteq Nat \ {0} /\ IsFiniteSet(File)
    /\ Workers \in Nat \ {0} /\ MaxReplacements \in Nat
    /\ MaxPasses \in Nat \ {0}

Pass == 1..MaxPasses
Slot == 1..(Workers + MaxReplacements)
NoText == 0
Idle   == 0         \* WorkerSlot::IDLE

VARIABLES
    enabled,        \* [diagnostics] workspace
    started,        \* workspace_diag_pass_started
    cancel,         \* workspace_diag_cancel
    reload,         \* how far a configuration reload is
    clears,         \* tasks on their way to clear the store
    disk,           \* the text of each file on disk
    buffer,         \* the text in the editor, or NoText
    store,          \* WorkspaceDiagnostics::native
    pass,           \* the passes
    worker,         \* the workers of each pass
    jobs,           \* recomputations of closed files
    edits, closes, switches,
    told,           \* history: passes a reload told to stop
    odd             \* history: files whose entry lost a newer one for good

texts    == <<disk, buffer>>
setting  == <<enabled, started, cancel, reload, clears>>
counters == <<edits, closes, switches>>
vars == <<setting, texts, store, pass, worker, jobs, counters, told, odd>>

NoPass == [pc |-> "none", queue |-> {}, results |-> {}, skipped |-> {}, slots |-> 0,
           spent |-> 0, at |-> 0, seen |-> Idle, stopped |-> FALSE]
NoWorker == [pc |-> "none", file |-> Idle, on |-> Idle, text |-> NoText, retired |-> FALSE,
             counted |-> FALSE, refused |-> FALSE]

\* The tail of the background index runs the first pass.
Init ==
    /\ enabled \in BOOLEAN /\ started = FALSE /\ cancel = FALSE
    /\ reload = "idle" /\ clears = 0
    /\ disk = [f \in File |-> 1] /\ buffer \in [File -> {NoText, 1}]
    /\ store = [f \in File |-> NoText]
    /\ pass = [p \in Pass |-> IF p = 1 THEN [NoPass EXCEPT !.pc = "config"] ELSE NoPass]
    /\ worker = [p \in Pass |-> [i \in Slot |-> NoWorker]]
    /\ jobs = {}
    /\ edits = 0 /\ closes = 0 /\ switches = 0 /\ told = {} /\ odd = {}

IsOpen(f) == buffer[f] # NoText
Reads(f)  == IF IsOpen(f) THEN buffer[f] ELSE disk[f]

----------------------------------------------------------------------------
(* Editor.                                                                 *)

Open(f) ==
    /\ ~IsOpen(f)
    /\ buffer' = [buffer EXCEPT ![f] = disk[f]]
    /\ UNCHANGED <<setting, disk, store, pass, worker, jobs, counters, told, odd>>

Edit(f) ==
    /\ IsOpen(f) /\ edits < MaxEdits
    /\ edits' = edits + 1
    /\ buffer' = [buffer EXCEPT ![f] = edits + 2]
    /\ UNCHANGED <<setting, disk, store, pass, worker, jobs, closes, switches, told, odd>>

Save(f) ==
    /\ IsOpen(f) /\ disk[f] # buffer[f]
    /\ disk' = [disk EXCEPT ![f] = buffer[f]]
    /\ UNCHANGED <<setting, buffer, store, pass, worker, jobs, counters, told, odd>>

\* Mutant: the entry of a closed file is left as it is.
CloseQuiet(f) ==
    /\ IsOpen(f) /\ closes < MaxCloses
    /\ closes' = closes + 1
    /\ buffer' = [buffer EXCEPT ![f] = NoText]
    /\ UNCHANGED <<setting, disk, store, pass, worker, jobs, edits, switches, told, odd>>

\* did_close ends by spawning a recomputation from disk.
Close(f) ==
    /\ IsOpen(f) /\ closes < MaxCloses
    /\ closes' = closes + 1
    /\ buffer' = [buffer EXCEPT ![f] = NoText]
    /\ jobs' = jobs \cup {[id |-> closes, file |-> f, pc |-> "start", text |-> NoText]}
    /\ UNCHANGED <<setting, disk, store, pass, worker, edits, switches, told, odd>>

----------------------------------------------------------------------------
(* recompute_workspace_diags_for_closed_file.                              *)

Becomes(j, k) == jobs' = (jobs \ {j}) \cup {k}

\* Only once the background pass is active.
JobStart(j) ==
    /\ j.pc = "start"
    /\ IF started THEN Becomes(j, [j EXCEPT !.pc = "read"]) ELSE jobs' = jobs \ {j}
    /\ UNCHANGED <<setting, texts, store, pass, worker, counters, told, odd>>

JobRead(j) ==
    /\ j.pc = "read"
    /\ Becomes(j, [j EXCEPT !.pc = "check",
                            !.text = IF j.file \in Panics THEN NoText ELSE Reads(j.file)])
    /\ UNCHANGED <<setting, texts, store, pass, worker, counters, told, odd>>

JobCheck(j) ==
    /\ j.pc = "check"
    /\ IF IsOpen(j.file) THEN jobs' = jobs \ {j} ELSE Becomes(j, [j EXCEPT !.pc = "store"])
    /\ UNCHANGED <<setting, texts, store, pass, worker, counters, told, odd>>

\* A text is stored late when it is not the one on disk and no recomputation
\* is left that will read that one.
Repairs(f) == IsOpen(f) \/ \E j \in jobs : j.file = f /\ (j.pc \in {"start", "read"} \/ j.text = disk[f])
Late(f, text) == text # disk[f] /\ ~Repairs(f)

JobStore(j) ==
    /\ j.pc = "store"
    /\ store' = [store EXCEPT ![j.file] = j.text]
    /\ jobs' = jobs \ {j}
    /\ odd' = IF Late(j.file, j.text) THEN odd \cup {j.file} ELSE odd
    /\ UNCHANGED <<setting, texts, pass, worker, counters, told>>

----------------------------------------------------------------------------
(* reload_config.                                                          *)

Toggle ==
    /\ reload = "idle" /\ switches < MaxSwitches
    /\ switches' = switches + 1
    /\ enabled' = ~enabled /\ reload' = "start"
    /\ UNCHANGED <<started, cancel, clears, texts, store, pass, worker, jobs, edits, closes, told, odd>>

\* start_workspace_diagnostics_on_reload, with the index done.
Unused == {p \in Pass : pass[p].pc = "none"}
StartOnReload ==
    /\ reload = "start"
    /\ reload' = "stop"
    /\ IF enabled /\ ~started
       THEN \E p \in Unused : /\ \A q \in Unused : p <= q
                              /\ pass' = [pass EXCEPT ![p].pc = "config"]
       ELSE UNCHANGED pass
    /\ UNCHANGED <<enabled, started, cancel, clears, texts, store, worker, jobs, counters, told, odd>>

\* stop_workspace_diagnostics_on_reload.
StopOnReload ==
    /\ reload = "stop"
    /\ IF ~enabled /\ started THEN started' = FALSE /\ reload' = "cancel"
       ELSE reload' = "idle" /\ UNCHANGED started
    /\ UNCHANGED <<enabled, cancel, clears, texts, store, pass, worker, jobs, counters, told, odd>>

Running(p) == pass[p].pc \notin {"none", "ended"}
Cancel ==
    /\ reload = "cancel"
    /\ cancel' = TRUE /\ clears' = clears + 1 /\ reload' = "idle"
    /\ told' = told \cup {p \in Pass : Running(p)}
    /\ UNCHANGED <<enabled, started, texts, store, pass, worker, jobs, counters, odd>>

\* The spawned task clears the store, whatever was switched on again by then.
ClearAll ==
    /\ clears > 0
    /\ clears' = clears - 1
    /\ store' = [f \in File |-> NoText]
    /\ odd' = IF started THEN odd \cup {f \in File : store[f] # NoText} ELSE odd
    /\ UNCHANGED <<enabled, started, cancel, reload, texts, pass, worker, jobs, counters, told>>

----------------------------------------------------------------------------
(* run_workspace_diagnostics and run_native_workspace_pass.                *)

ReadConfig(p) ==
    /\ pass[p].pc = "config"
    /\ pass' = [pass EXCEPT ![p].pc = IF enabled THEN "swap" ELSE "ended"]
    /\ UNCHANGED <<setting, texts, store, worker, jobs, counters, told, odd>>

Swap(p) ==
    /\ pass[p].pc = "swap"
    /\ started' = TRUE
    /\ pass' = [pass EXCEPT ![p].pc = IF started THEN "ended" ELSE "uncancel"]
    /\ UNCHANGED <<enabled, cancel, reload, clears, texts, store, worker, jobs, counters, told, odd>>

Uncancel(p) ==
    /\ pass[p].pc = "uncancel"
    /\ cancel' = FALSE
    /\ pass' = [pass EXCEPT ![p].pc = "list"]
    /\ UNCHANGED <<enabled, started, reload, clears, texts, store, worker, jobs, counters, told, odd>>

\* spawn_worker: the slot of a thread that is refused counts as finished.
Spawned == [NoWorker EXCEPT !.pc = "loop"]
Unspawned == [NoWorker EXCEPT !.pc = "finished", !.refused = TRUE]
Spawn(i, refused) == IF i \in refused THEN Unspawned ELSE Spawned

\* The files that are not open are queued, and the pool is spawned.
List(p) ==
    /\ pass[p].pc = "list"
    /\ LET files == {f \in File : ~IsOpen(f)}
           count == IF Cardinality(files) < Workers THEN Cardinality(files) ELSE Workers
       IN  /\ pass' = [pass EXCEPT ![p].pc = IF files = {} THEN "ended" ELSE "poll",
                                   ![p].queue = files, ![p].slots = count]
           /\ \E refused \in SUBSET Refused :
                 worker' = [worker EXCEPT ![p] =
                    [i \in Slot |-> IF i <= count THEN Spawn(i, refused) ELSE NoWorker]]
    /\ UNCHANGED <<setting, texts, store, jobs, counters, told, odd>>

----------------------------------------------------------------------------
(* A worker.                                                               *)

\* The flags are looked at before every file.
Loop(w) == IF w.retired \/ cancel THEN "finished" ELSE "fetch"
Start(p, i) ==
    /\ worker[p][i].pc = "loop"
    /\ worker' = [worker EXCEPT ![p][i].pc = Loop(worker[p][i])]
    /\ UNCHANGED <<setting, texts, store, pass, jobs, counters, told, odd>>

\* The next file is taken off the queue, shown in the slot and read.
Fetch(p, i) ==
    /\ worker[p][i].pc = "fetch"
    /\ IF pass[p].queue = {}
       THEN worker' = [worker EXCEPT ![p][i].pc = "finished"] /\ UNCHANGED pass
       ELSE \E f \in pass[p].queue :
              /\ \A g \in pass[p].queue : f <= g
              /\ pass' = [pass EXCEPT ![p].queue = @ \ {f}]
              /\ worker' = [worker EXCEPT ![p][i] = [@ EXCEPT !.pc = "analyse", !.file = f,
                                                              !.on = f, !.text = Reads(f)]]
    /\ UNCHANGED <<setting, texts, store, jobs, counters, told, odd>>

\* The slot is released before the result is pushed.
Analyse(p, i) ==
    /\ worker[p][i].pc = "analyse"
    /\ worker' = [worker EXCEPT ![p][i].pc = "push", ![p][i].file = Idle]
    /\ UNCHANGED <<setting, texts, store, pass, jobs, counters, told, odd>>

Push(p, i) ==
    /\ worker[p][i].pc = "push"
    /\ LET w == worker[p][i]
       IN  /\ pass' = [pass EXCEPT ![p].results =
                          IF w.on \in Panics THEN @ ELSE @ \cup {[file |-> w.on, text |-> w.text]}]
           /\ worker' = [worker EXCEPT ![p][i] =
                            [w EXCEPT !.pc = Loop(w), !.on = Idle, !.text = NoText]]
    /\ UNCHANGED <<setting, texts, store, jobs, counters, told, odd>>

----------------------------------------------------------------------------
(* drive_native_pass: one poll after the other.                            *)

Live(p) == 1..pass[p].slots
Stopped(p, i) == worker[p][i].counted \/ worker[p][i].pc = "finished"

\* Whether all workers have stopped is read before their results are taken.
Poll(p) ==
    /\ pass[p].pc = "poll"
    /\ pass' = [pass EXCEPT ![p].pc = "harvest",
                            ![p].stopped = \A i \in Live(p) : Stopped(p, i)]
    /\ UNCHANGED <<setting, texts, store, worker, jobs, counters, told, odd>>

\* store_native_results: what was opened meanwhile is dropped.
Harvest(p) ==
    /\ pass[p].pc = "harvest"
    /\ LET kept == {r \in pass[p].results : ~IsOpen(r.file)}
       IN  /\ store' = [f \in File |-> IF \E r \in kept : r.file = f
                                       THEN (CHOOSE r \in kept : r.file = f).text ELSE store[f]]
           /\ odd' = odd \cup {r.file : r \in {r \in kept : Late(r.file, r.text)}}
    /\ pass' = [pass EXCEPT ![p].pc = "watch", ![p].results = {}]
    /\ UNCHANGED <<setting, texts, worker, jobs, counters, told>>

\* The watchdog goes over the slots and picks one past its deadline.
Timeout(p) ==
    /\ pass[p].pc = "watch"
    /\ \E i \in Live(p) :
          /\ ~worker[p][i].counted /\ worker[p][i].file # Idle
          /\ pass' = [pass EXCEPT ![p] = [@ EXCEPT !.pc = "retire", !.at = i,
                                                   !.seen = worker[p][i].file]]
    /\ UNCHANGED <<setting, texts, store, worker, jobs, counters, told, odd>>

\* WorkerSlot::retire_on: the flag first, then the look at the slot.
Retire(p) ==
    /\ pass[p].pc = "retire"
    /\ worker' = [worker EXCEPT ![p][pass[p].at].retired = TRUE]
    /\ pass' = [pass EXCEPT ![p].pc = "confirm"]
    /\ UNCHANGED <<setting, texts, store, jobs, counters, told, odd>>

\* Mutant: the look at the slot is left out.
StuckAlways(p) == TRUE

\* Mutant: a retired worker is waited for.
StuckNever(p) == FALSE

\* A worker that is on another file, or on none, is retired but not given up
\* on.  Either way another takes its place while the budget lasts.
Stuck(p) == worker[p][pass[p].at].file = pass[p].seen

\* Mutant: one replacement too many.
BudgetOffByOne(p) == pass[p].spent <= MaxReplacements

Budget(p) == pass[p].spent < MaxReplacements

Confirm(p) ==
    /\ pass[p].pc = "confirm"
    /\ LET r == pass[p]
           i == r.at
           n == r.slots + 1
           more == Budget(p)
       IN  /\ pass' = [pass EXCEPT ![p] = [r EXCEPT !.pc = "watch", !.at = 0, !.seen = Idle,
                          !.skipped = IF Stuck(p) THEN r.skipped \cup {r.seen} ELSE r.skipped,
                          !.slots = IF more THEN n ELSE r.slots,
                          !.spent = IF more THEN r.spent + 1 ELSE r.spent]]
           /\ \E refused \in SUBSET Refused :
                 worker' = [worker EXCEPT ![p] = [k \in Slot |->
                    IF k = i /\ Stuck(p) THEN [worker[p][k] EXCEPT !.counted = TRUE]
                    ELSE IF k = n /\ more THEN Spawn(k, refused) ELSE worker[p][k]]]
    /\ UNCHANGED <<setting, texts, store, jobs, counters, told, odd>>

\* Mutant: whether all have stopped is read after the harvest.
CountLate(p) ==
    /\ pass[p].pc = "watch"
    /\ pass' = [pass EXCEPT ![p].pc =
                   IF cancel \/ \A i \in Live(p) : Stopped(p, i) THEN "ended" ELSE "poll"]
    /\ told' = IF cancel THEN told \cup {p} ELSE told
    /\ UNCHANGED <<setting, texts, store, worker, jobs, counters, odd>>

Count(p) ==
    /\ pass[p].pc = "watch"
    /\ pass' = [pass EXCEPT ![p].pc = IF pass[p].stopped \/ cancel THEN "ended" ELSE "poll"]
    /\ told' = IF cancel THEN told \cup {p} ELSE told
    /\ UNCHANGED <<setting, texts, store, worker, jobs, counters, odd>>

----------------------------------------------------------------------------
Beginning(p) == ReadConfig(p) \/ Swap(p) \/ Uncancel(p) \/ List(p)
Driving(p) == Poll(p) \/ Harvest(p) \/ Retire(p) \/ Confirm(p) \/ Count(p)
Working(p, i) == Start(p, i) \/ Fetch(p, i) \/ Push(p, i)
Recomputing(j) == JobStart(j) \/ JobRead(j) \/ JobCheck(j) \/ JobStore(j)
Reloading == StartOnReload \/ StopOnReload \/ Cancel

Next ==
    \/ \E f \in File : Open(f) \/ Edit(f) \/ Save(f) \/ Close(f)
    \/ \E j \in jobs : Recomputing(j)
    \/ Toggle \/ Reloading \/ ClearAll
    \/ \E p \in Pass :
          \/ Beginning(p) \/ Driving(p) \/ Timeout(p)
          \/ \E i \in Slot : Working(p, i) \/ Analyse(p, i)

\* Tasks are polled, threads run, the analysis of a file returns unless it
\* is wedged, and a file that stays in its slot is past its deadline at some
\* poll.
Proceeds(p, i) == Working(p, i) \/ (worker[p][i].on \notin Wedged /\ Analyse(p, i))
Fairness ==
    /\ WF_vars(\E p \in Pass, i \in Slot : Proceeds(p, i))
    /\ \A p \in Pass : WF_vars(Beginning(p) \/ Driving(p)) /\ SF_vars(Timeout(p))

Spec == Init /\ [][Next]_vars /\ Fairness

----------------------------------------------------------------------------
(* Properties.                                                             *)

TypeOK ==
    /\ enabled \in BOOLEAN /\ started \in BOOLEAN /\ cancel \in BOOLEAN
    /\ reload \in {"idle", "start", "stop", "cancel"} /\ clears \in Nat
    /\ disk \in [File -> Nat] /\ buffer \in [File -> Nat] /\ store \in [File -> Nat]
    /\ \A p \in Pass :
          /\ pass[p].queue \subseteq File /\ pass[p].skipped \subseteq File
          /\ pass[p].slots <= Workers + pass[p].spent /\ pass[p].spent <= MaxReplacements
    /\ told \subseteq Pass /\ odd \subseteq File

\* A worker the pass gave up on is in the file it was given up for, or on its
\* way out of it: a file that was finished is not blamed, and no file is
\* claimed behind the pass's back (workspace.rs:201-213).
GivenUpIsStuck ==
    \A p \in Pass, i \in Slot :
        LET w == worker[p][i]
        IN  w.counted => \/ w.pc \in {"analyse", "push"} /\ w.on \in pass[p].skipped
                         \/ w.pc = "finished"

\* A pass that ended without being told to has harvested every result but
\* those of files it gave up on, and left files unclaimed only with its
\* replacements spent, or a thread refused to it (workspace.rs:938-940,
\* :242-246).
NothingLost ==
    \A p \in Pass : pass[p].pc = "ended" /\ p \notin told =>
        /\ \A r \in pass[p].results : r.file \in pass[p].skipped
        /\ \A i \in Slot : worker[p][i].on # Idle => worker[p][i].on \in pass[p].skipped
        /\ pass[p].queue # {} => \/ pass[p].spent = MaxReplacements
                                 \/ \E i \in Slot : worker[p][i].refused

\* With everything over, every closed file has diagnostics of its text on
\* disk, whether the pass or its close computed them, unless the pass gave up
\* on it or a late result took its place.
Over ==
    /\ jobs = {} /\ clears = 0 /\ reload = "idle"
    /\ \A p \in Pass : pass[p].pc \in {"none", "ended"}
Checked(f) ==
    \A p \in Pass : p \notin told /\ f \notin pass[p].queue \cup pass[p].skipped
RestIsCurrent ==
    Over /\ started => \A f \in File \ (odd \cup Panics) :
        ~IsOpen(f) /\ Checked(f) => store[f] = disk[f]

\* Passes end, whatever their files do: they give up on what is
\* stuck (workspace.rs:890-902).
PassesEnd == []<>(\A p \in Pass : ~Running(p))
=============================================================================
