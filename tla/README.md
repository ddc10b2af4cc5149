# PHPantom: a verification project

PHPantom is a language server for PHP, written in Rust. This directory holds
TLA+ modules of those of its parts that are concurrent, the configurations TLC
checks them with, and proofs of the properties that matter most, checked by
TLAPS. `PROJECT.json` lists every run, the mutants that show each property can
fail, the lines every definition stands for, the findings and the hazards.

Most of the repository (about a thousand Rust files) is a set of pure functions:
parsers, a type engine, and one function per editor request. What makes the
server correct or not beyond those functions is a small core of shared state,
and that is what is modelled here: how diagnostics are computed in the
background and delivered, how results are reused across edits, how derived
indexes are rebuilt on demand, and how external tools' results join in.

## 1. Inventory

**How the server runs.** A multi-threaded Tokio runtime (`src/src/main.rs`).
Notifications are handled one after another on the service task, each as an
async function that interleaves with every spawned task at its awaits, and with
the blocking threads everywhere. Background work is in long-lived tasks (the
diagnostic worker, one worker per external tool, the refresh pump), in one-shot
tasks (an edit's parse, the catch-up after startup), and on blocking threads.
Shared state is maps behind `parking_lot` locks, each taken and released on its
own, atomic counters, and `tokio::sync::Notify`, which stores at most one permit.

| component | state | operations | what is hard | what makes it correct |
|---|---|---|---|---|
| Diagnostics delivery (`diagnostics/delivery.rs`, `pull.rs`, `state.rs`) | queue, version, permit; per-file caches `last_fast`, `last_slow`, `last_full`, `result_ids`; `assemble_locks` | schedule, worker loop, pass in two phases, merge, push, pull, refresh, clear | three tasks merge one file; closes and saves between any two steps | edits reach the editor, an older set never replaces a newer one, "unchanged" is true |
| Document lifecycle (`backend/documents.rs`) | `open_files`, parse locks | open, change, save, close | check-then-act against background parses and passes | what is derived from an open file follows its text, nothing remains of a closed one |
| Publication epoch (`diagnostics/incremental/epoch.rs`) | generation, active publications, own counts | begin, end, note a change, snapshot, compare, forget | passes overlap publications; counts dropped and started again | a partial pass is made only if nothing but the file itself changed |
| Incremental slow pass (`diagnostics/incremental/`) | `slow_baselines` | plan, collect, shift | which of two passes leaves the baseline | a kept diagnostic is still what a full pass would say |
| Gated index (`backend/gated_index.rs`), pivots (`backend/laravel/`) | index, `has_any`, generation, dirty, rebuilding, lock | mark, rebuild if dirty, replace, view, memoise | rebuilds that re-enter the gate, panics, marks during a rebuild | no thread reads before the rebuild it is owed; memos follow the index; no deadlock |
| External tools (`diagnostics/external/`, `backend/external_tool_worker.rs`) | pending file, results, write counters | schedule, run, store, forget | one worker per tool, a project-wide run beside it, merges that write back | the newest result stays; every request is taken |
| Workspace diagnostics (`diagnostics/workspace.rs`) | store of closed files' diagnostics, pass flags, queue, worker slots | native pass, watchdog, harvest, recompute on close, switch off and on | files that never end or panic, workers retired while they finish, files opened meanwhile | one bad file costs only itself; every other closed file gets its diagnostics; the pass ends |
| AST update and publication (`parser/ast_update.rs`, `ast_publish.rs`) | all symbol indexes | publish one file, publish a batch | several indexes under several locks | readers see each file whole, negatives are retired |
| Class lookup (`resolution/`, `symbol_index.rs`, `class_loader_memo.rs`) | indexes, parse claims, negative cache, generation, per-thread memos | find or load, lazy parse, publish, scan, watch | a lookup racing a publication; waiting for another thread's parse | a class that exists is not recorded as missing; memos follow the indexes |
| Request plumbing (`backend/requests.rs`) | coalescing stamps, last results, kept parse | stamp, lock, compute, forget | superseded and cancelled requests, requests across a close, maps replaced while one answers | answers match the text they were asked about |
| Member reference counts (`reference_counts/`) | counts, staleness, epoch, pending queue, compute lock | queue, search, store, invalidate, resolve | an edit during a search, partial rescans, cache limits | a count served as fresh is current; nothing queued is left to nobody |
| Startup, indexing, watching (`backend/startup.rs`, `indexing/`) | readiness flags, index progress | initialise, catch up, scan, reconcile | files opened before readiness | every file is diagnosed once the server is ready |
| Editor features, type engine, parsers, frameworks, command line | none of their own, or caches keyed by the generations above | one answer per request | wide data, no protocol | not modelled (see section 8) |

They interact as follows. A notification changes `open_files` and starts a
parse; the parse publishes classes (epoch begins and ends, gated indexes are
marked, negative caches are cleared), queues the file and moves the version; the
diagnostic worker runs a pass that reads the indexes, stores its two phases in
the per-file caches, keeps a baseline when the epoch allows it, and merges; a
merge reads all per-source caches, tool results among them, sets `last_full` and
its id, and pushes it or signals the refresh pump, after which the client pulls.

## 2. Plan

Done, in this order, the behaviour a user sees first: `DiagnosticsDelivery`,
`PublicationEpoch` (what makes reuse sound), `GatedIndex` (what every framework
index relies on) with the abstract `RebuildGate` it implements, `ExternalTool`,
`DocumentRequests` (which text an answer is about),
`ReferenceCounts`, `ClassLookup` with the abstract `ParseClaims` it
implements, `WorkspacePass`. Each module stands alone: it carries as much of its
neighbours as its own state can be hurt by (a publication is a sequence of index
writes in `ClassLookup`, a sequence of invalidations in `ReferenceCounts`, a
counter in `PublicationEpoch`), since two of these modules together are beyond
model checking. Proofs stand beside the modules they are about (section 6).

Next, in this order:

1. A composition of the epoch's baselines with the delivery pipeline, to state
   that a save's full pass sees the saved text.
2. The Composer and stub phases of the class lookup, the lookups of functions and
   constants, and the first index with its readiness flags.

## 3. Modules

Every model is at the grain of the code's atomic steps: one lock held, one
atomic operation, or one stretch between two awaits is one action. Where a module
takes several of them in one step, its simplifications below say so. Texts,
classes and diagnostics are versions (numbers) that say what was read.

### DiagnosticsDelivery

`text[f]` is the open text's version; `lastFast`, `lastSlow` and `lastTool` hold
the version their entry was computed on, `lastFull` the three a merge read, with
`resultId` and `seq`. `task[m]` is the program counter of the worker's pass, of
the catch-up's pass and of the tool's worker, each ending in a merge:
`MergeFetch` (look up the lock), `MergeAcquire`, `MergeRead`, `MergeCommit`,
`MergePublish`. `lockGen[f]` says which lock the map holds for `f`, so that a
lock removed on close and held meanwhile is a different one from its successor.
`blocking` is the pass's blocking thread, which runs beside the async part.
`calls` are the calls under way that queue files (`schedule_diagnostics`,
`trigger_diagnostics_for_pull`, the end of `rediagnose_open_files`), by whom and
for which files: `CallQueue` adds to the queue under its lock (and does nothing
before readiness), `CallBump` moves the version (a pull does not), `CallNotify`
stores the permit. Whoever made a call goes on when it has returned (`Returned`,
`Listening`), and the worker may run between any two of its steps.
Handlers are split where the code lets others in (`SaveAffects`, `SaveInvalidate`,
`SaveRequeue`, `CloseCaches`, `CloseFull`, `ClosePublish`, `PullTrigger`,
`PullReply`). `shown`, `held` and `heldSet` are the client's.

Simplifications: the version counter is a flag `moved`, the debounce timer may
fire at any time; reading the slow and the tool's caches is one step of a merge;
a save asks for the full pass, and a pull looks for the set, in the step that
begins the call; the client's pulls are one at a time; a tool may fail instead of
storing. A close empties the per-source caches and drops the id in one step
(delivery.rs:831-846, a lock each), apart from the set and the assemble lock
(847-851) and the push; the move of the tools' results to the workspace store
before it (773-829) is left out.

### PublicationEpoch

`index[i]` is the version of what a file, or the project's state as a whole
(registries, configuration), declares; a publication's `WriteFile` and a noted
change move it. `generation`, `active` and `own` are the code's counters. Publishers run
`Begin`, `WriteFile` per file, `End`; `NoteChange` follows a change that is not
a publication. A pass is `Take` (the baseline), `Start` (snapshot and plan),
`Read`, `Finish` (unchanged since?), `Check` (open?) and `Store`. A pass and a
baseline carry what they read of every other file. `Close` forgets the own
count in a step apart from the baseline's removal, as the code does.

`mixed` is history: the documents with an own count that some publication moved
for them and for other files alike (`Begin` of a batch). The code's edits never
do, and a background batch does when a file is opened after it looked at what is
open (section 7).

Simplification: what a pass reads of its own file is left out, as the text side
of the incremental pass accounts for it.

### RebuildGate and GatedIndex

`RebuildGate` is the promise of `rebuild_if_dirty` to its callers: one thread at a
time rebuilds, a caller goes on to read only when every mark there was on its
arrival is dealt with, a panic lets the next one in, and everyone gets away. Of the
flags, the lock's reentrancy and the loads a rebuild makes it knows nothing.

`GatedIndex` is `GatedIndex<T>` as the reverse pivot index uses it. `call[t]` is a thread's
innermost way through `rebuild_if_dirty`, `outer[t]` the calls it is nested in
(a rebuild loads classes, and loading a class goes through the gate). The reader
is `refine_loaded_class`: gate, probe of the memo, read of the stamp, view,
return. `writer` are the three ways classes are published (an edit, a background
parse, a scan) with the point where each marks the index. `marks`, `taken` and
`over` are history: the number of marks made, the last one a rebuild took, and
the one its result covers. `CallerOf` is the mapping to `RebuildGate`: a thread is a
waiter with the arrival of its outermost load (`FirstArrival`) until that load is
past the gate, a reader from there to its return, and fallen while a panic unwinds.

Simplifications: the project is Laravel's (`is_enabled`), one class is memoised,
memory is sequentially consistent (the code marks with a relaxed store), and
`Consult` reads the index and the mark in one step.

### ExternalTool

`last` is the cache of results, each named by the store that made it; `counter`
the per-file write counters; `worker` the loop (wait, drain, take, read, run,
check, store, merge); `scan` the project-wide run with its counter snapshot;
`merge` the three callers of the merge, which copies the results, prunes and
writes back (`MergeRead`, `MergeFilter`, `MergePrune`). Modelled for PHPStan:
the other tools have no write-back. Left out: shutdown, disabled tools, the
store of closed files.

### DocumentRequests

One document, at the grain of locks. `buffer` is `open_files`, `map` the text
the published symbol map was built from (`NoText`: none). `jobs` are the
handlers and parses under way: `open` parses inside its handler; `change` looks
its parse lock up (`TakeLockEntry`), takes it (`Lock`), goes on if its buffer is
still the current one, and commits; `close` parses the file on disk unless it
was reopened (`Check`, `Read`, `Commit`); `batch` is the watcher's. `closes`
numbers the parse locks and the key locks, both removed on close. A request is
stamped (`Stamp`), looks its key lock up (`KeyLock`), waits for it (`Enter`), and
scans: `First` and
`PublishFirst` (a file without a map is parsed by the request), `Content`,
`CheckMap`, `ReadMap`, `Recheck`. `Cancel` is `$/cancelRequest`: the handler goes,
what runs on a blocking thread stays.

`odd` is history: the map in place was published over a newer text, or dropped
from an open file, without a parse lock that keeps the newer text for later. The
cases are listed in section 7; any publication of the current text ends them.

Simplifications: a map fits a text of its length, as the code compares no more.
`Close` takes the open file out, drops its parse lock and forgets the stamps, key
locks and last results in one step (documents.rs:259-265, requests.rs:398-403):
there is no await between, so that no other handler comes between, and a parse
thread that looks its lock up there finds its buffer gone either way. Of a stamp,
the number and its entry in `latest` are one step. A save that brings the text
(documents.rs:323-333) replaces the buffer and parses; it is left out, as the
server asks for saves without it (startup.rs:125).

### ReferenceCounts

`cache` is `by_member`, with each entry's count, kept locations and staleness;
`moved` says whether the invalidation epoch moved since the search loaded it, which
is all a search asks of it. A publication (`edit`) is the code's sequence of
invalidations: `SignatureBump` and `SignatureMark`, `Track`, `ShapeMark`,
`InvalidateLocationsIn`, `IndexWrite`, `InvalidateMember` per name, `EndEdit`;
an eviction takes them in its own order. A search runs under the compute lock:
`Plan` (what to rescan, what to keep), `ReadIndex`, `ReadMaps`,
`SettleReceivers`, `CompareEpoch`, `Store` per declaration with the limits,
`EndSearch`; `Unwind` is a panic. `PullLenses`, `Schedule`, `TakePending`,
`Drained` and `NotDrained` are the queue and its worker, `ResolveBegin` and
`ResolveLocked` the lazy resolve.

`missed` and `unseen` are history: results under way that an invalidation meant
for them does not reach, and the entries stored from such results (section 7).
`Unreached` says which: the search has compared the epoch and has yet to store,
or the epoch stands although the search has begun to read. `unseen` is left only
by a complete search that no invalidation overtook. Simplifications: a member name declares one member; the full
and the partial searches of one burst are one search; `Plan` is one step; the
pause in typing the worker waits for is left out, so it may start at any time.

### ParseClaims and ClassLookup

`ParseClaims` is the promise of `resolution/inflight.rs`: a file has at most one
owner, a thread that joins stays until the owner lands, whether by its end or
its panic, and everyone gets away.

`ClassLookup` is what uses it. `look[t]` is a thread's lookup, in the order of
the phases of `classes.rs`: `Negative`, `Declared`, `Indexed`, `ByName`, and for
a file to parse `Claim`, then `Read` to `Release` for the owner or `Released`
(`GiveUp` is the escape hatch) and `Joined` for a joiner; `Miss` records that
nothing was found. `publication` is the editor's, in the order of
`ast_publish.rs` (withdraw and declare, clear the misses, move the generation,
store the file's classes); a scan's, which notes one class and clears every
miss; or a watcher's batch (`PubWithdraw`, `PubRetire`, `PubForget`, `PubScan`
and then a parse or the clearing of the misses). `memo` is each thread's memo
under the generation read first.

`ImplementsClaims` is the refinement: `owner` is `flight`, and a thread is an
owner or a joiner by its program counter.

Simplifications: stubs, phar entries and Composer scopes are left out, as are
deletions and the alternates a discovery keeps; publications come one at a time.

### WorkspacePass

`pass[p]` is a run of the native pass: `ReadConfig`, `Swap` (the `started`
flag), `Uncancel`, `List`, then the polling loop of `drive_native_pass` as
`Poll` (have all workers stopped?), `Harvest`, the watchdog's `Timeout`, `Retire`
(the flag) and `Confirm` (the look at the slot, and the replacement), and `Count`.
`worker[p][i]` is a detached worker: `Start`, `Fetch`, `Analyse`, `Push`; `file`
is what its slot shows, `on` the file it is really in. A thread the system refuses
to start leaves a finished slot (`Unspawned`), at the start of the pass as for a
replacement, and is marked `refused`. `jobs` are the
recomputations a close starts. `Toggle`, `StartOnReload`, `StopOnReload`,
`Cancel` and `ClearAll` are the setting switched off and on.

`told` and `odd` are history: passes that were told to stop, and files whose
stored diagnostics took the place of newer ones for good (section 7). Time is
left out: a file being analysed may be past its deadline at any poll.

### MC and proof modules

`MC<Module>` extends a module and names the values of its set-valued constants;
`<Module>Proofs` extends it with theorems. Next to a definition a mutant of it
may stand (marked "Mutant of"): no action uses it.

## 4. Runs

| run | checks | bounds | shows |
|---|---|---|---|
| `delivery_pull` | `TypeOK`, `UnchangedIsSound`, `NoLostWakeup`, `RestIsFresh`, `EventuallyFresh` | 1 file, pull client, 2 texts, 1 close | 645 thousand states; the answers, the wake-ups and the liveness across a close and reopen or an edit |
| `delivery_push` | `RestIsFresh`, `MergesMoveForward` | 2 files, push client, 2 texts, 1 save, 1 tool run; files alike | 2.4 million states; two mergers on one file, a save's requeue of the other |
| `epoch` | `TypeOK`, `BaselineIsCurrent` | 2 files (1 document), batches of either and of both, 2 publishers, 1 pass, 2 writes, 2 opens | 980 thousand states |
| `gated` | `TypeOK`, `GateServes`, `MemoIsCurrent`, `LoadsReturn`, `ImplementsGate` | 2 threads, 1 writer, 1 file, 1 write, 1 panic | 94 thousand states; with 2 writes the safety part holds over 1.9 million |
| `tool` | `TypeOK`, `ScanYields`, `RequestIsTaken` | 1 file, 2 requests, 1 project-wide run, 1 other merge | 221 thousand states |
| `documents` | `TypeOK`, `RestIsLatest`, `AnswersMatch`, `ScansExclude` | 3 texts (one the parser panics on), 2 requests, 2 edits, 1 close and reopen, 1 write, at most 3 of requests, edits and writes together; requests alike | 4.5 million states; edits whose parses overlap, across a close, with a request or two and the watcher |
| `counts` | `TypeOK`, `FreshIsCurrent`, `LocationsAccounted`, `QueueIsServed`, `BurstsEnd`, `LensSettles` | 1 member, 2 files (1 edited, declaring a class), 1 edit of any kind, 1 panic, 2 members, 2 locations and 2 files cached | 163 thousand states; with 2 edits the invariants hold over 5.7 million; no member has more locations than are kept, which is what `v_lens` changes |
| `lookup` | `TypeOK`, `MemoMatches`, `NoPoisonedMiss`, `LookupsReturn`, `ImplementsClaims` | 1 file, 2 classes (one in every text), 2 threads, 2 lookups, 1 change, 1 panic, 1 giving up | 368 thousand states; before the watcher's batch was added, the invariants were also run with 2 changes and with 2 files |
| `workspace` | `TypeOK`, `GivenUpIsStuck`, `NothingLost`, `RestIsCurrent`, `PassesEnd` | 2 files (one that may never end, one that panics), 2 workers, 1 replacement, any thread refused, 2 passes, 1 edit, 1 close, 2 switches, at most 2 of these together | 800 thousand states; with no thread refused the invariants also hold with both files edited (1.6 million, no switches) and with off and on (1.1 million) |
| `v_lens`, `v_miss`, `v_pivot` | one property each | as small as shows it | the findings of section 7 |

**Why these bounds are enough.** Each hazard needs two of something to race and
the bound gives two: two texts (an old and a new), two threads at the gate or in
a lookup, a publisher on the document and one on another file, one pass that can
overlap both, a request that comes while another is served, a worker retired
while another takes its place. A second close, scan or merge repeats the first
one's effect on state that carries no history besides `seq`, `counter` and the
numbers of locks. Every property has a mutant of a handler that violates it
within the run's own bounds. In `delivery_push` two texts may both go to one
file, the case in which an older set can replace a newer one.

Two runs trade their bounds off (`Traded` in `MCDocumentRequests` and
`MCWorkspacePass`): each of edits, closes, writes and switches is possible, but
not all in one behaviour, and in `workspace` no thread is refused where the setting is
switched. `counts` starts from one workspace (`FromOneAccess`),
where one file accesses the member, so that an edit of the other can add an
access and an edit of neither is needed for one to be found.

**What the passing runs leave out.** `RestIsFresh` and `MergesMoveForward` speak of
files opened after startup and not closed since (`FirstOpen`): of a reopened file
and of one opened early both fail (section 7). `delivery_push` itself closes no
file and opens none early (`StartupFiles = {}`); with a close and a tool run in
place of the save (2.0 million states with the files alike), and with a close and
a save (0.5 million), both properties hold too, of the file that stays open. That a
reopened file becomes fresh is `EventuallyFresh` in `delivery_pull`. The exceptions
that `BaselineIsCurrent`, `RestIsLatest`, `FreshIsCurrent`, `MemoMatches`,
`NoPoisonedMiss`, `NothingLost` and `RestIsCurrent` make are each named by a history
variable or field (`mixed`, `odd`, `unseen`, `crossed`, `told`), set at the steps that
make the exception; `ScansExclude`
leaves out cancelled requests and those across a close. These properties say that
nothing else goes wrong; they are no check on the exceptions themselves, and
`PROJECT.json` lists the hazards behind those as covered by no property.

No run checks for deadlock, as the system may really stop: the editor need not
send anything, and every instance bounds what it sends. That threads do not
block each other for ever is `LoadsReturn` and `LookupsReturn`, and for tasks
`EventuallyFresh`, `RequestIsTaken`, `BurstsEnd` and `PassesEnd`.

**Symmetry** is used where two requests (`documents`) or two files
(`delivery_push`) are alike; neither run checks liveness. (`MergesMoveForward`
compares each file with itself over one step, so that exchanging the files of both
states changes nothing.)

## 5. Properties

- `UnchangedIsSound`: when a pull would be answered "unchanged", the report the
  client holds under that id is the set the server has cached. The id and the
  set are separate maps that merges, saves and closes change in steps.
- `NoLostWakeup`: a queued file finds a permit stored, or the worker between its
  permit and its look at the queue, or the call that queued that very file still
  to notify. A call that notified before it queued would break it: the worker
  wakes, finds nothing, and sleeps over the file.
- `RestIsFresh`: when everything is at rest the merged set of every file opened
  after startup and not closed since comes from its current text, no full pass is
  owed, and a pull client shows that set. `EventuallyFresh`: once the editor stops,
  that comes to be of every open file, reopened ones too, and stays.
- `MergesMoveForward`: a merge of such a file never replaces a set of a newer text
  by one of an older text. This is what the assemble lock is for.
- `BaselineIsCurrent`: a baseline that a pass starting now would build on holds
  nothing computed on another state of the rest of the index, nor half on one and
  half on another, whatever publications, closes, reopens and other passes there
  were since. (A change that is written and not noted yet is exempt: in that
  window the epoch cannot know of it. So is a document in `mixed`.)
- `GateServes`: a thread that found a mark reads the index only after a rebuild
  took it, or from within that rebuild.
- `MemoIsCurrent`: a memo with the current stamp holds the view of the current
  index.
- `LoadsReturn`: every class load ends, also when a rebuild panics or re-enters.
- `ImplementsGate`: the two flags, read and written one at a time, and the reentrant
  lock are the gate of `RebuildGate`, its fairness included: a thread that takes no
  lock at all passes only when it may.
- `ScanYields`: a project-wide run never replaces a result a single-file run
  stored since the project-wide run began, while the file stays open.
- `RequestIsTaken`: a pending request is taken up by the worker, although the
  worker drains stored permits before it looks at the pending file.

- `RestIsLatest`: once every parse is over the symbol map is of the buffer, or of
  the file on disk when it is closed, in whatever order the parses of successive
  edits, a close's re-parse, the watcher's batch and a request's own first parse
  ran, but for the exceptions named by `odd`.
- `AnswersMatch`: an answer made from a checked map is made from a map that fits
  the text it answers for, whatever was published while it was made.
- `ScansExclude`: two computations of one kind and file run at a time only after
  a cancellation or across a close.
- `FreshIsCurrent`: a count served as fresh between two edits is what a full
  search would find now, whatever edits, partial rescans and emptied caches came
  between the search's first read and its store.
- `LocationsAccounted`: the number the cache's limit is checked against is the sum
  over the entries.
- `QueueIsServed`, `BurstsEnd`: a queued declaration has a worker or a request
  about to start one, and the worker's burst ends.
- `MemoMatches`: a memoised class lookup that would be served agrees with the
  indexes and the misses, unless a publication is between its first write and
  its bump.
- `NoPoisonedMiss`: a class its file declares in every text it has is never
  recorded as missing: no thread concludes from a parse that is not over.
- `LookupsReturn`, `ImplementsClaims`: every lookup returns without the escape
  hatch, and claims and waits are those of `ParseClaims`, its fairness included.
- `GivenUpIsStuck`: a worker the pass gave up on is in the file it was given up
  for, or past it; no finished file is blamed and none is claimed behind the
  pass's back.
- `NothingLost`: a pass that ended by itself harvested every result, and left
  files unclaimed only with its replacements spent or after a thread was refused
  to it.
- `RestIsCurrent`: with everything over, a closed file's stored diagnostics are of
  its text on disk.
- `PassesEnd`: passes end, although one file's analysis never does.
- `LensSettles`: a lens with a placeholder gets its count (it holds as long as no
  member has more locations than are kept). `MissesAreTrue`, `IndexIsFresh`: a
  recorded miss is not declared, an index without a mark is current (both fail,
  section 7).

**Fairness.** Weak fairness of every task's next step says that the runtime
polls ready tasks and that blocking threads run; the tool's run ends as its
process has a timeout; the client answers a refresh and pulls what it was told
to, as the protocol asks. Nothing makes the editor edit, save or close. At the
gate, threads are strongly fair in taking the lock (`parking_lot` locks are
eventually fair) and in finishing the loop over a rebuild's classes, which is
finite. Merges of the tool's results are strongly fair in taking the assemble
lock for the same reason.

In `counts` the worker and a resolve are strongly fair in taking the compute lock;
parses and searches are weakly fair, and the client pulls after a refresh. In
`lookup` a thread that is not blocked runs, and nothing counts on `GiveUp` or on
a panic. In `workspace` tasks and threads run, the analysis of a file outside
`Wedged` returns, and a file that stays in its slot is past its deadline at some
poll (strong fairness of `Timeout`, as the poll comes and goes).

## 6. Proofs

All are of safety properties, for every value of the constants, from the named
assumptions of the modules (finite sets are not assumed unless stated there).

- **`DiagnosticsDeliveryProofs`.** `TypeCorrect`; `WakeupsAreKept`: the wake-up
  property is inductive given the types, as a call that has queued a file stays in
  `calls` with that file until it stores the permit (`CallWakes`), and the worker
  empties the queue in the step that leaves "take".
  `UnchangedAnswersAreSound`: the property alone is not inductive; it needs that
  every id in use, held by the client or kept by the server, is one given out
  (`IdsInUse`: at most `seq`), so that a new id differs from all of them, and
  that a set replaced under an id gets another one in the same step.
  `FreshnessIsOwed` is the invariant behind freshness (`FreshInv`), of each file
  that was opened after startup and has not been closed since (`Steady`); of other
  files it says nothing. The caches are of its text or a pass is queued, in a call
  that queues it, wanted or running that will make them so; the last set is of the caches or a merge is due
  that has yet to read them; the client shows the last set or is to be told. A
  merge under the assemble lock has read nothing newer than the caches and nothing
  older than the last set, if the lock is the only one (`Alone`): on the first
  opening of a file it is. So `FirstOpenRestsFresh` and `FirstOpenMovesForward`
  hold of every file opened after startup and not closed since, whatever happens
  to other files; these are `RestIsFresh` and `MergesMoveForward` as the runs check
  them, with no hypothesis on closes or early opens.
- **`PublicationEpochProofs`.** `PartialPassesAreSound` has no assumption on
  the batches; of a document that was counted with other files (`mixed`) it says
  nothing. The inductive invariant counts: for any other document
  `f` and an earlier snapshot `e`, `Foreign(f, e)` is how far the generation
  moved beyond `f`'s own count. It never decreases, it moves with every
  publication of another file (twice) and every noted change, and it is zero
  exactly when `only_own_changes_since` holds. `OwnPublications` and
  `ActiveCounts` tie the counters to the publications under way,
  `SoundBaselines` and `SoundPasses` say that a zero difference implies the kept
  part is current.
- **`GatedIndexProofs`.** `GateIsSound` needs the shape of nested calls (who
  holds the lock is the thread at the bottom of its calls; the flag is up for as
  long) and the order of marks taken and covered. `MemoIsSound` needs that a
  thread's view is no older than the stamp it read before it. `StepsAreGated` takes
  every step to `RebuildGate`: the step that unlocks, or that finds both flags down,
  is the one that passes, and `GateInv` says that the arrival is covered there; a
  nested load's steps leave the role of its thread alone, as the first frame of its
  stack stays (`Returned`), and a panic is of no nested load (`PanicInv`).

- **`ExternalToolProofs`.** `TypeCorrect` has in it that each assemble lock has
  one holder. `ScansYield` compares the counter of a file with the snapshot of the
  project-wide run (`SnapshotInv`): it only grows while the run is on, unless the
  file is closed, and has left the snapshot behind where the worker has stored.
- **`DocumentRequestsProofs`.** `TypeCorrect` has in it that one handler and one
  parse behind each parse lock commit at a time (`OneParse`). `AnswersAreFitting`
  follows from what a scan holds between its two looks at the map (`AnswerInv`:
  the map it read fits as long as none was replaced). `RestsOnTheLatest` needs who
  owes the map its text (`RestInv`): as long as the map is not of the current
  text and no exception was made, some job or scan is on its way that will
  publish it, and every job that still may publish after it is either of that
  text, or will find its buffer replaced. `ScansAreExclusive` follows from who
  holds the slot of a key lock (`SlotInv`).
- **`ClassLookupProofs`.** `TypeCorrect` has in it that the claim of a file is
  held by the thread between its claim and its release. `MissesAreEarned` needs
  that the classes of a file are in `uri_classes_index` before its claim is
  released or a waiter goes on (`PoisonInv`): a thread that parsed or joined
  concludes from a parse that is over. `MemosAreCurrent` needs three facts
  (`MemoInv`): no lookup and no memo is ahead of the generation, and one whose own
  parse moved it is behind, so its answer is never served; what is written between
  a first write and its bump (`Untold`) may take something back, and only a bump
  leaves that window; outside it the indexes only add, since a scan gives an owner
  to undeclared classes only. An answer read from `uri_classes_index` that the
  class index did not hold at that time (`odd`) is excepted, as in the property.
  `StepsAreClaims` maps each program counter of a lookup to a role of
  `ParseClaims` (`Role`); `ParseClaims` then has what it promises of every lookup.
- **`ReferenceCountsProofs`.** `QueueIsKept`: a client that takes refreshes is
  never given a lazy lens (`NeverLazy`), so only its requests queue, and each is
  about to schedule; the flag is up exactly while the worker lives (`FlagIsLife`)
  and goes down over an empty queue or after a panic (`FailsByPanic`).
  `TypeCorrect` needs the shape of a search at each of its steps and that what it
  found is finite (`Types`). `LocationsAreCounted` takes the number of pairs of an
  entry and a location for the sum of the entries' sizes, so that a store is the
  difference and the union of finite sets. `FreshCountsAreCurrent` needs, for
  every edit still under way, what it owes (`FreshInv`): a file whose text and
  index entries differ in naming a member is the one being published, and it will
  invalidate that name (`NameOwed`) or, where a location stands in it, that
  location (`MarkOwed`). Each place an entry has in a file is then the published
  one, is owed, or the entry is stale there (`EntryRight`). The same holds of a
  search in each file it has read or keeps (`SearchRight`), where a place that is
  owed by location only counts if the entry still has a location there for the
  publication to find; or else the result will be told from a current one when it
  is stored, by the epoch or as one that no invalidation reached (`Doubt`,
  `Stored`), and what it is stored over is stale there. From `CountsAssumption`:
  the files are finitely many, and an entry holds no more locations than the
  cache.
- **`WorkspacePassProofs`.** `TypeCorrect`, `TheStuckAreBlamed`,
  `ResultsAreHarvested`; `File` is assumed finite. A worker is finished because it
  was retired, because the queue is empty, because its pass was told to stop or because
  its thread was refused (`WorkerOK`), and the worker of the highest slot is retired only with no
  replacement left, or while the watchdog is still to replace it (`PassOK`). So a
  pass that counts all its workers as stopped has an empty queue, has spent its
  replacements or was refused a thread. Once it has counted them, the only result that can still arrive is
  that of a worker it gave up on, and that file is blamed. `ClosedFilesRestCurrent`
  says what a closed file is owed (`OwedInv`): a recomputation that has yet to read
  or has read its text on disk, or a pass that has yet to list it, queues it or
  holds a result of that text. A close opens such a debt, a late store of an older
  text is in `odd`.

Model-checked only: liveness (`EventuallyFresh`, `LoadsReturn`,
`RequestIsTaken`, `BurstsEnd`, `LookupsReturn`, `PassesEnd`) and the fairness
part of `ImplementsClaims` and `ImplementsGate`, which are beyond the prover. Every invariant and every
action property of the passing runs is a theorem.

## 7. Findings

Three places where the code does other than its comments say, each shown by a
run; `PROJECT.json` has the quotes and lines.

- `v_pivot`: the background parse marks the pivot index before it publishes the
  classes. A rebuild in between takes the mark and misses them. Three further
  ways to the same state were seen in larger instances: an edit's check of the
  old index's contributions during a rebuild, a nested rebuild whose newer result
  the outer one overwrites, and a rebuild that panics after it took the mark.
- `v_miss`: a lookup that found nothing records the miss without looking again; a
  publication that declared the class and cleared the misses in between leaves
  the class declared and missing.
- `v_lens`: a member with more locations than the cache keeps has a fresh count
  and no locations; its lens shows a placeholder, and nothing is queued that would
  ever replace it.

### Known divergences without a run

The models also showed these; each is an interleaving of steps that the module
named has, and the passing runs leave it out by a bound or name it as an
exception. The README keeps them so that the assumptions of section 4 can be
checked against the code.

*DiagnosticsDelivery.*
- delivery.rs:708-709 says at most one pass runs at a time, as there is one
  worker. The catch-up after startup (startup.rs:565-589) runs passes too, on
  files it has also queued, and the older text's pass can finish last.
- A pass checks that its file is open and then stores (delivery.rs:143-154,
  178-185), and pushes after it dropped the assemble lock (462-463). A close in
  between is undone: the closed file keeps its diagnostics, against
  documents.rs:312 and delivery.rs:139-142.
- state.rs:89-97 says the assemble lock keeps an older merge from finishing last.
  clear_diagnostics_for_file removes it from its map without taking it
  (delivery.rs:848-851): a merge of the closed text may commit after the
  reopened text's.
- A merge copies the PHPStan results (delivery.rs:311-316), drops some and writes
  the rest back (337-340, 409-416), over a result stored meanwhile
  (external/mod.rs:169), against external_tool_worker.rs:23-24.

*PublicationEpoch.* A batch looks up which files are open, lets go, and publishes
later (ast_update.rs:353-394, 415); a file opened in between is published with the
others, and the epoch counts the whole batch as that file's own
(epoch.rs:63-97), so that a partial pass keeps what the others made outdated
(`mixed`).

*DocumentRequests.* The cases of `odd`, against documents.rs:298-299 and
ast_update.rs:344-352: a request's first parse of a file without a map
(requests.rs:168-171) overlaps an edit's; the parse lock is removed on close
while a parse holds it; a close's re-parse commits after a reopen; a batch
commits after its look at what is open; the watcher drops the map of a file
opened since it looked (watch.rs:352). And requests.rs:274-278 says at most one
computation per kind and file runs: a cancelled handler drops its slot while the
blocking thread goes on, and a close removes the lock.

*ReferenceCounts.* cache.rs:265-269 and mod.rs:227-229 say that an entry an edit
overtook is not stored as fresh. It is (`unseen`) when nothing was cached, so
that the epoch did not move and the edit kept no books; when the edit falls
between the comparison and the store; and when its mark falls after the epoch
moved and the search compared (cache.rs:424-451). A fourth way came out of the
proof of `FreshCountsAreCurrent`, and takes two edits of a file: the first gives
it its first access to a member, so that the entry is stale there and has no
location in it; while that file is being rescanned the second edit moves the
access. It changes no name, and `invalidate_locations_in` (cache.rs:387-417) looks
for a location in the file and finds none: nothing is marked, the epoch stands,
and the older location is stored as fresh, until the next edit that touches it.

*ClassLookup.* symbol_index.rs:243-246 wants the two indexes to agree;
lazy_parse.rs:222-229 and ast_publish.rs:431-487 write them in two steps and in
different orders, so that they may disagree at rest. For the same reason a memo
may be older than `uri_classes_index` (`odd` in its answers), against
class_loader_memo.rs:24-27. A lazy parse reads the disk although the file may be
open. The watcher may drop a file's classes between a parse's release and a
joiner's read, which then records a declared class as missing (`crossed`).

*WorkspacePass.* state.rs:59-62 says the started flag prevents concurrent passes;
switched off and on again, a second pass runs beside the first, and clears the
flag that was to cancel it. A running pass's harvest, or a close's recomputation,
may store after the store was cleared (workspace.rs:664-666), and the task that
clears it may run after a new pass stored. A harvested older result may replace
what a close recomputed (1158-1159), as the recomputation checks that the file is
closed and stores afterwards (1190). A file given up on that finishes late is
counted as skipped and as diagnosed, and the unchecked remainder
(242-256) is short by it.

*Backend.* documents.rs:381 says that saves are the only place external tools are
scheduled from, and `on_did_open` schedules them as well (line 93). The model
follows the code.

## 8. Not modelled

- The type engine, parsers, class model, every editor feature, the framework
  rules and the command line: functions of their inputs, with data too wide for
  model checking. They are nearly all of the repository's lines, which is why the
  lines the modules stand for are few against the whole. Their reads appear as
  versions.
- The text side of the incremental pass (units, regions, shifting of ranges).
- The push of the workspace store's entries to the client, progress reports, and
  the external results of closed files.
- Stub, phar and Composer phases of the class lookup; lookups of functions and
  constants (the latter two look again under the write lock, see `v_miss`).
- The first index, filters, deletions, configuration reload other than the
  workspace diagnostics' switch, process handling and self update: I/O, or
  sequential. The kept parse: a cache of one thread.
- The move of the tools' results to the workspace store on a close; a save that
  brings the text.
- Panics of a slow pass, the branches taken when diagnostics are disabled, and
  resource documents (templates' virtual files) in the delivery pipeline.
- Relaxed memory: the models are sequentially consistent.
