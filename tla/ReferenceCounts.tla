-------------------------- MODULE ReferenceCounts --------------------------
(***************************************************************************)
(* The member reference counts behind the declaration code lenses:         *)
(* src/src/reference_counts/{cache,mod}.rs, with the lens requests of      *)
(* src/src/code_lens.rs and src/src/server.rs and the invalidations that a *)
(* publication makes in src/src/reference_index.rs and                     *)
(* src/src/parser/ast_publish.rs.                                          *)
(*                                                                         *)
(* A cached count is derived from every file of the workspace.  An edit    *)
(* does not drop it: it is marked stale and the epoch moves, and a search  *)
(* compares the epoch it loaded first with the one it finds last.  Lens    *)
(* requests queue what is missing; one background worker drains the queue  *)
(* and asks the client to pull its lenses again.                           *)
(*                                                                         *)
(* Data is abstract.  A file's text says where it accesses each declared   *)
(* member (place 0: nowhere); `sig' stands for the signatures of the       *)
(* workspace that settle what an access belongs to.  A member name         *)
(* declares one member, so a declaration stands for its name as well.      *)
(***************************************************************************)
EXTENDS Integers, FiniteSets

CONSTANTS
    Decl,           \* member declarations a lens counts
    File,           \* files of the workspace
    Edited,         \* those an editor or a watcher changes
    ClassFile,      \* those that declare a class, so they have a shape
    Text,           \* the texts of a file: functions from Decl to places
    MaxEdits,       \* bound: publications
    MaxPanics,      \* bound: searches that unwind
    MaxCachedMembers, MaxCachedLocations, MaxLocationsPerMember,
    MaxCachedUris   \* the limits of the cache

ASSUME CountsAssumption ==
    /\ ClassFile \subseteq File /\ Edited \subseteq File
    /\ Text \subseteq [Decl -> Nat]
    /\ [d \in Decl |-> 0] \in Text
    /\ IsFiniteSet(File) /\ MaxEdits \in Nat /\ MaxCachedLocations \in Nat
    /\ MaxLocationsPerMember \in 0..MaxCachedLocations

VARIABLES
    text,           \* the published symbol map of each file
    sig,            \* version of the signatures receivers are settled by
    at,             \* where each declaration stands in its own file
    index,          \* reference index: the members each file names
    cache,          \* by_member
    locationCount,  \* location_count
    uris,           \* files interned for cached locations
    moved,          \* has the epoch moved since the search loaded it?
    shaped,         \* files whose class shape is recorded
    pending,        \* queued declarations
    computing,      \* a background worker is scheduled
    worker,         \* the background worker
    search,         \* the search that holds compute_lock
    resolver,       \* a lazy codeLens/resolve
    edit,           \* the publication in progress
    supports,       \* the client accepts codeLens refreshes
    lens,           \* what the client shows on each declaration
    requested,      \* a codeLens answer is built but not yet scheduled
    refresh,        \* a refresh request is on its way to the client
    edits, panics,
    missed,         \* history: results of the search no invalidation reached
    unseen          \* history: entries stored from such a result

published == <<text, sig, at>>
cached    == <<cache, locationCount, uris>>
client    == <<supports, lens, requested, refresh>>
history   == <<missed, unseen>>
vars == <<published, index, cached, moved, shaped, pending, computing, worker,
          search, resolver, edit, client, edits, panics, history>>

----------------------------------------------------------------------------
(* Staleness of a cached result, and the cache entries.                    *)

FreshMark  == [all |-> FALSE, files |-> {}]
Everything == [all |-> TRUE, files |-> {}]
Merge(s, t) == IF s.all \/ t.all THEN Everything
               ELSE [all |-> FALSE, files |-> s.files \cup t.files]

NoEntry == [present |-> FALSE, kept |-> FALSE, locs |-> {}, count |-> 0,
            countStale |-> FALSE, stale |-> FreshMark]

Present(d) == cache[d].present
Empty      == \A d \in Decl : ~Present(d)
IsFresh(d) == Present(d) /\ ~cache[d].countStale /\ cache[d].stale = FreshMark
\* Fresh with its locations kept: what a lens can be answered with.
Ready(d)   == IsFresh(d) /\ cache[d].kept

\* Where a full search at this moment would find accesses to d.
Accesses(d) == {<<f, text[f][d], sig>> : f \in {g \in File : text[g][d] # 0}}

NoSearch == [by |-> "none", pc |-> "none", items |-> {}, plan |-> <<>>,
             candidates |-> <<>>, maps |-> <<>>, found |-> <<>>, invalidated |-> FALSE]
NoEdit == [pc |-> "idle", kind |-> "body", file |-> CHOOSE f \in File : TRUE,
           track |-> FALSE, names |-> {}]
NoResolve == [pc |-> "idle", decl |-> CHOOSE d \in Decl : TRUE]
Idle   == [pc |-> "idle", changed |-> FALSE]

ItemOf(d)    == <<d, at[d]>>
DeclsOf(its) == {i[1] : i \in its}

Init ==
    /\ text \in [File -> Text]
    /\ sig = 0 /\ at = [d \in Decl |-> 0]
    /\ index = [f \in File |-> {d \in Decl : text[f][d] # 0}]
    /\ cache = [d \in Decl |-> NoEntry]
    /\ locationCount = 0 /\ uris = {} /\ moved = FALSE /\ shaped = {}
    /\ pending = {} /\ computing = FALSE
    /\ worker = Idle /\ search = NoSearch
    /\ resolver = NoResolve
    /\ edit = NoEdit
    /\ supports \in BOOLEAN
    /\ lens = [d \in Decl |-> "none"]
    /\ requested = FALSE /\ refresh = FALSE
    /\ edits = 0 /\ panics = 0 /\ missed = {} /\ unseen = {}

----------------------------------------------------------------------------
(* A publication and the invalidations it makes.                           *)

\* A search has an access to d in the file that is being published.
Holds(d) ==
    \/ \E l \in search.plan[d].keep : l[1] = edit.file
    \/ /\ search.pc = "receivers" /\ edit.file \in search.candidates[d]
       /\ search.maps[edit.file][d] # 0
    \/ /\ search.pc \in {"compare", "store"} /\ d \in DOMAIN search.found
       /\ \E l \in search.found[d] : l[1] = edit.file

\* Results still being computed that an invalidation meant for `due' does not
\* reach: the search has compared the epoch already and has yet to store
\* them, or the epoch stands although the search has begun to read.
Unreached(due, bumped) ==
    {d \in due \cap DOMAIN search.plan :
        IF search.pc = "store" THEN d \in DOMAIN search.found ELSE ~bumped}

\* Mark the entries of `hit' as `Mark' says; `bump' tells whether the epoch
\* moves with it, `due' whose results it is about.  A search is the only
\* reader of the epoch and asks one thing of it, whether it moved meanwhile.
Invalidate(hit, Mark(_), bump, due) ==
    /\ cache' = [d \in Decl |-> IF d \in hit THEN Mark(cache[d]) ELSE cache[d]]
    /\ moved' = (moved \/ (bump /\ search.by # "none"))
    /\ missed' = missed \cup Unreached(due, moved')
    /\ UNCHANGED unseen
    /\ UNCHANGED <<locationCount, uris>>

MarkFiles(c)      == [c EXCEPT !.stale = IF c.kept THEN Merge(@, [all |-> FALSE, files |-> {edit.file}])
                                         ELSE Everything]
MarkName(c)       == [c EXCEPT !.countStale = TRUE,
                               !.stale = Merge(@, [all |-> FALSE, files |-> {edit.file}])]
MarkEverywhere(c) == [c EXCEPT !.stale = Everything]
MarkAll(c)        == [c EXCEPT !.countStale = TRUE, !.stale = Everything]

Holders == {d \in Decl : Present(d)}
\* Entries with a location in the reparsed file, or with none to look at.
Touched == {d \in Holders : ~cache[d].kept \/ \E l \in cache[d].locs : l[1] = edit.file}

\* The classes and symbol maps of the parse go out first; a `move' shifts
\* the declarations in their own file.  A file is evicted with no access left.
Publish(kind, f, t) ==
    /\ edit.pc = "idle" /\ edits < MaxEdits
    /\ kind = "evict" => \A d \in Decl : t[d] = 0
    /\ text' = [text EXCEPT ![f] = t]
    /\ sig' = IF kind \in {"signature", "shape"} THEN sig + 1 ELSE sig
    /\ at' = IF kind = "move" THEN [d \in Decl |-> at[d] + 1] ELSE at
    /\ edit' = [pc |-> IF kind \in {"signature", "shape"} THEN "signature" ELSE "track",
                kind |-> kind, file |-> f, track |-> FALSE, names |-> {}]
    /\ edits' = edits + 1
    /\ UNCHANGED <<index, cached, moved, shaped, pending, computing, worker, search,
                   resolver, client, panics, history>>

\* invalidate_signature_dependents: skipped while nothing is cached; the
\* epoch moves before the entries are marked.  A search between the two may
\* have kept locations that have yet to be marked.
SignatureBump ==
    /\ edit.pc = "signature"
    /\ edit' = [edit EXCEPT !.pc = IF Empty THEN "track" ELSE "signature mark"]
    /\ Invalidate({}, MarkEverywhere, ~Empty, Decl)
    /\ UNCHANGED <<published, index, shaped, pending, computing, worker, search, resolver,
                   client, edits, panics>>
SignatureMark ==
    /\ edit.pc = "signature mark"
    /\ edit' = [edit EXCEPT !.pc = "track"]
    /\ LET partly == {d \in DOMAIN search.plan : search.plan[d].rescan # File}
       IN  Invalidate(Holders, MarkEverywhere, FALSE, partly)
    /\ UNCHANGED <<published, index, shaped, pending, computing, worker, search, resolver,
                   client, edits, panics>>

\* The reindex decides once whether it keeps books at all.  A file whose
\* shape is not recorded yet counts as one whose shape changed.
ShapeChanged == edit.file \in ClassFile /\ (edit.kind = "shape" \/ edit.file \notin shaped)
Track ==
    /\ edit.pc = "track"
    /\ LET all == edit.kind # "evict" /\ ~Empty /\ ShapeChanged
       IN  /\ edit' = [edit EXCEPT !.track = ~Empty,
                                   !.pc = IF edit.kind = "evict" THEN "index"
                                          ELSE IF all THEN "shape mark" ELSE "locations"]
           /\ shaped' = IF all THEN shaped \cup {edit.file} ELSE shaped
           /\ Invalidate({}, MarkAll, all, {})
    /\ UNCHANGED <<published, index, pending, computing, worker, search, resolver, client,
                   edits, panics>>
ShapeMark ==
    /\ edit.pc = "shape mark"
    /\ edit' = [edit EXCEPT !.pc = "locations"]
    /\ Invalidate(Holders, MarkAll, FALSE, {})
    /\ UNCHANGED <<published, index, shaped, pending, computing, worker, search, resolver,
                   client, edits, panics>>

InvalidateLocationsIn ==
    /\ edit.pc = "locations"
    /\ edit' = [edit EXCEPT !.pc = IF edit.kind = "evict" THEN "members" ELSE "index"]
    /\ LET hit == IF edit.track THEN Touched ELSE {}
       IN  Invalidate(hit, MarkFiles, hit # {}, {d \in DOMAIN search.plan : Holds(d)})
    /\ UNCHANGED <<published, index, shaped, pending, computing, worker, search, resolver,
                   client, edits, panics>>

\* The file's entries are replaced in the reference index, and the names it
\* gained or lost an access to are the ones whose counts changed.
Named(f) == {d \in Decl : text[f][d] # 0}
IndexWrite ==
    /\ edit.pc = "index"
    /\ LET old == index[edit.file]
           new == Named(edit.file)
       IN  edit' = [edit EXCEPT !.pc = IF edit.kind = "evict" THEN "locations" ELSE "members",
                                !.names = IF edit.track THEN (old \ new) \cup (new \ old) ELSE {}]
    /\ index' = [index EXCEPT ![edit.file] = Named(edit.file)]
    /\ UNCHANGED <<published, cached, moved, shaped, pending, computing, worker, search,
                   resolver, client, edits, panics, history>>

InvalidateMember(d) ==
    /\ edit.pc = "members" /\ d \in edit.names
    /\ edit' = [edit EXCEPT !.names = @ \ {d}]
    /\ Invalidate({d} \cap Holders, MarkName, Present(d), {d})
    /\ UNCHANGED <<published, index, shaped, pending, computing, worker, search, resolver,
                   client, edits, panics>>

\* did_change ends by asking for a lens refresh; an eviction forgets the
\* file's shape.  What is cached or searched by the end of an edit that kept
\* no books was read behind its back.
EndEdit ==
    /\ edit.pc = "members" /\ edit.names = {}
    /\ edit' = NoEdit
    /\ shaped' = IF edit.kind = "evict" THEN shaped \ {edit.file} ELSE shaped
    /\ refresh' = (refresh \/ (supports /\ edit.kind # "evict"))
    /\ unseen' = IF edit.track THEN unseen ELSE unseen \cup Holders
    /\ missed' = IF edit.track THEN missed ELSE missed \cup DOMAIN search.plan
    /\ UNCHANGED <<published, index, cached, moved, pending, computing, worker, search,
                   resolver, supports, lens, requested, edits, panics>>

----------------------------------------------------------------------------
(* A search, run by the worker for the queue or by a resolve for one lens, *)
(* under compute_lock from its snapshot to its last removal.               *)

\* The epoch is loaded before anything is read.
BeginSearch(who, items) ==
    /\ search' = [NoSearch EXCEPT !.by = who, !.pc = "plan", !.items = items]
    /\ moved' = FALSE /\ missed' = {}

\* declaration_still_at and rescan_plan: a declaration that moved since it
\* was queued is left out, and one stale in some files only keeps the
\* locations of the others.  A resolve searches everything for its lens.
Partial(d) == Present(d) /\ cache[d].kept /\ ~cache[d].stale.all /\ cache[d].stale.files # {}
PlanFor(d) ==
    IF search.by = "worker" /\ Partial(d)
    THEN [rescan |-> cache[d].stale.files,
          keep |-> {l \in cache[d].locs : l[1] \notin cache[d].stale.files}]
    ELSE [rescan |-> File, keep |-> {}]
Searched == IF search.by = "worker" THEN {d \in Decl : ItemOf(d) \in search.items}
            ELSE DeclsOf(search.items)
Plan ==
    /\ search.pc = "plan"
    /\ search' = [search EXCEPT !.plan = [d \in Searched |-> PlanFor(d)], !.pc = "candidates"]
    /\ UNCHANGED <<published, index, cached, moved, shaped, pending, computing, worker,
                   resolver, edit, client, edits, panics, history>>

\* The reference index narrows the files, their published maps are taken
\* together, and receivers are settled by the signatures found then.
ReadIndex ==
    /\ search.pc = "candidates"
    /\ search' = [search EXCEPT !.pc = "maps",
                    !.candidates = [d \in DOMAIN search.plan |->
                        {f \in search.plan[d].rescan : d \in index[f]}]]
    /\ UNCHANGED <<published, index, cached, moved, shaped, pending, computing, worker,
                   resolver, edit, client, edits, panics, history>>
ReadMaps ==
    /\ search.pc = "maps"
    /\ search' = [search EXCEPT !.maps = text, !.pc = "receivers"]
    /\ UNCHANGED <<published, index, cached, moved, shaped, pending, computing, worker,
                   resolver, edit, client, edits, panics, history>>
SettleReceivers ==
    /\ search.pc = "receivers"
    /\ LET Found(d) == {<<f, search.maps[f][d], sig>> :
                           f \in {g \in search.candidates[d] : search.maps[g][d] # 0}}
       IN  search' = [search EXCEPT !.pc = "compare", !.candidates = <<>>, !.maps = <<>>,
                        !.found = [d \in DOMAIN search.plan |-> search.plan[d].keep \cup Found(d)]]
    /\ UNCHANGED <<published, index, cached, moved, shaped, pending, computing, worker,
                   resolver, edit, client, edits, panics, history>>

CompareEpoch ==
    /\ search.pc = "compare"
    /\ search' = [search EXCEPT !.invalidated = moved, !.pc = "store"]
    /\ UNCHANGED <<published, index, cached, moved, shaped, pending, computing, worker,
                   resolver, edit, client, edits, panics, history>>

----------------------------------------------------------------------------
(* MemberRefCounts::store.                                                 *)

Kept(locs)      == Cardinality(locs) <= MaxLocationsPerMember
Weight(c)       == Cardinality(c.locs)
StoredWeight(l) == IF Kept(l) THEN Cardinality(l) ELSE 0

\* A store that would pass a limit drops the whole cache first.
AtLimit(d, locs) ==
    \/ Cardinality(Holders) >= MaxCachedMembers
    \/ locationCount - Weight(cache[d]) + StoredWeight(locs) > MaxCachedLocations
    \/ Cardinality(uris) >= MaxCachedUris

\* Mutant: the epoch comparison is ignored.
NewEntryTrusting(d, locs, invalidated) ==
    [present |-> TRUE, kept |-> Kept(locs), locs |-> IF Kept(locs) THEN locs ELSE {},
     count |-> Cardinality(locs), countStale |-> FALSE, stale |-> FreshMark]

\* A result an edit overtook keeps the staleness the edit recorded.
NewEntry(d, locs, invalidated) ==
    [present |-> TRUE, kept |-> Kept(locs), locs |-> IF Kept(locs) THEN locs ELSE {},
     count |-> Cardinality(locs),
     countStale |-> invalidated /\ (Present(d) => cache[d].countStale),
     stale |-> IF ~invalidated THEN FreshMark
               ELSE IF Present(d) THEN cache[d].stale ELSE Everything]

\* Mutant: a stale entry found unchanged needs no refresh.
ChangedByValue(d, locs) ==
    \/ ~Present(d)
    \/ cache[d].count # Cardinality(locs)
    \/ cache[d].kept # Kept(locs)
    \/ Kept(locs) /\ cache[d].locs # locs

\* Whether the editor was last given something else.
Changed(d, locs) ==
    \/ ~Present(d) \/ ~IsFresh(d)
    \/ cache[d].count # Cardinality(locs)
    \/ cache[d].kept # Kept(locs)
    \/ Kept(locs) /\ cache[d].locs # locs

\* Mutant: what a store replaces stays counted.
CountAfterAdding(d, locs) ==
    IF AtLimit(d, locs) THEN StoredWeight(locs) ELSE locationCount + StoredWeight(locs)

\* Accounting of a store, after the cache was dropped or not.
CountAfter(d, locs) ==
    IF AtLimit(d, locs) THEN StoredWeight(locs)
    ELSE locationCount - Weight(cache[d]) + StoredWeight(locs)

Store(d) ==
    /\ search.pc = "store" /\ d \in DOMAIN search.found
    /\ LET locs == search.found[d]
       IN  /\ cache' = [e \in Decl |-> IF e = d THEN NewEntry(d, locs, search.invalidated)
                                       ELSE IF AtLimit(d, locs) THEN NoEntry ELSE cache[e]]
           /\ locationCount' = CountAfter(d, locs)
           /\ uris' = (IF AtLimit(d, locs) THEN {} ELSE uris)
                        \cup IF Kept(locs) THEN {l[1] : l \in locs} ELSE {}
           /\ worker' = IF search.by = "worker"
                        THEN [worker EXCEPT !.changed = @ \/ Changed(d, locs)] ELSE worker
    /\ search' = [search EXCEPT !.found = [e \in DOMAIN search.found \ {d} |-> search.found[e]]]
    /\ LET reached == ~search.invalidated /\ search.plan[d].rescan = File
       IN  unseen' = IF d \in missed /\ ~search.invalidated THEN unseen \cup {d}
                     ELSE IF reached THEN unseen \ {d} ELSE unseen
    /\ UNCHANGED <<published, index, moved, shaped, pending, computing, resolver, edit,
                   client, edits, panics, missed>>

\* Only what is trustworthy leaves the queue.
Trusted(i) == ~search.invalidated \/ (search.by = "worker" /\ IsFresh(i[1]))
EndSearch ==
    /\ search.pc = "store" /\ DOMAIN search.found = {}
    /\ pending' = pending \ {i \in search.items : Trusted(i)}
    /\ search' = NoSearch /\ moved' = FALSE /\ missed' = {}
    /\ worker' = IF search.by = "worker" THEN [worker EXCEPT !.pc = "check"] ELSE worker
    /\ IF search.by = "resolver"
       THEN /\ resolver' = NoResolve
            /\ lens' = [lens EXCEPT ![resolver.decl] = "count"]
       ELSE UNCHANGED <<resolver, lens>>
    /\ UNCHANGED <<published, index, cached, shaped, computing, edit, supports,
                   requested, refresh, edits, panics, unseen>>

\* A search that unwinds lets go of compute_lock with its guard.
Unwind ==
    /\ search.pc \in {"plan", "receivers"} /\ panics < MaxPanics
    /\ panics' = panics + 1
    /\ search' = NoSearch /\ moved' = FALSE /\ missed' = {}
    /\ worker' = IF search.by = "worker" THEN [worker EXCEPT !.pc = "failed"] ELSE worker
    /\ resolver' = IF search.by = "resolver" THEN NoResolve ELSE resolver
    /\ UNCHANGED <<published, index, cached, shaped, pending, computing, edit, client,
                   edits, unseen>>

----------------------------------------------------------------------------
(* schedule_member_ref_counts and its worker.                              *)

\* A codeLens request: a lens with nothing ready is queued, and answered
\* with a placeholder (or lazily, for a client that takes no refreshes).
NoCandidates(d) == \A f \in File : d \notin index[f]
PullLenses ==
    /\ ~requested
    /\ lens' = [d \in Decl |-> IF NoCandidates(d) \/ Ready(d) THEN "count"
                               ELSE IF supports THEN "pending" ELSE "lazy"]
    /\ pending' = pending \cup
          {ItemOf(d) : d \in {e \in Decl : supports /\ ~NoCandidates(e) /\ ~IsFresh(e)}}
    /\ requested' = TRUE /\ refresh' = FALSE
    /\ UNCHANGED <<published, index, cached, moved, shaped, computing, worker, search,
                   resolver, edit, supports, edits, panics, history>>

\* Mutant: the flag is not looked at.
ScheduleTwice ==
    /\ requested
    /\ requested' = FALSE
    /\ IF pending # {}
       THEN computing' = TRUE /\ worker' = [pc |-> "pause", changed |-> FALSE]
       ELSE UNCHANGED <<computing, worker>>
    /\ UNCHANGED <<published, index, cached, moved, shaped, pending, search, resolver, edit,
                   supports, lens, refresh, edits, panics, history>>

Schedule ==
    /\ requested
    /\ requested' = FALSE
    /\ IF pending # {} /\ ~computing
       THEN computing' = TRUE /\ worker' = [pc |-> "pause", changed |-> FALSE]
       ELSE UNCHANGED <<computing, worker>>
    /\ UNCHANGED <<published, index, cached, moved, shaped, pending, search, resolver, edit,
                   supports, lens, refresh, edits, panics, history>>

\* Once typing has paused (time itself is not modelled) and the lock is
\* free, the queue is copied.
TakePending ==
    /\ worker.pc = "pause" /\ search.by = "none"
    /\ IF pending = {}
       THEN worker' = [worker EXCEPT !.pc = "check"] /\ UNCHANGED <<search, moved, missed>>
       ELSE worker' = [worker EXCEPT !.pc = "search"] /\ BeginSearch("worker", pending)
    /\ UNCHANGED <<published, index, cached, shaped, pending, computing, resolver, edit,
                   client, edits, panics, unseen>>

\* Mutant: one pass over the queue is taken for all of it.
DrainedUnchecked ==
    /\ worker.pc = "check"
    /\ computing' = FALSE /\ worker' = Idle
    /\ refresh' = (refresh \/ (supports /\ worker.changed))
    /\ UNCHANGED <<published, index, cached, moved, shaped, pending, search, resolver, edit,
                   supports, lens, requested, edits, panics, history>>

\* The empty check and the clearing of `computing' are one step of the
\* queue lock; a refresh follows when something changed.
Drained ==
    /\ worker.pc = "check" /\ pending = {}
    /\ computing' = FALSE /\ worker' = Idle
    /\ refresh' = (refresh \/ (supports /\ worker.changed))
    /\ UNCHANGED <<published, index, cached, moved, shaped, pending, search, resolver, edit,
                   supports, lens, requested, edits, panics, history>>
NotDrained ==
    /\ worker.pc = "check" /\ pending # {}
    /\ worker' = [worker EXCEPT !.pc = "pause"]
    /\ UNCHANGED <<published, index, cached, moved, shaped, pending, computing, search,
                   resolver, edit, client, edits, panics, history>>
\* Mutant: the flag of a worker that panicked stays up.
FailedForgets ==
    /\ worker.pc = "failed"
    /\ worker' = Idle
    /\ UNCHANGED <<published, index, cached, moved, shaped, pending, computing, search,
                   resolver, edit, client, edits, panics, history>>

Failed ==
    /\ worker.pc = "failed"
    /\ computing' = FALSE /\ worker' = Idle
    /\ UNCHANGED <<published, index, cached, moved, shaped, pending, search, resolver, edit,
                   client, edits, panics, history>>

----------------------------------------------------------------------------
(* codeLens/resolve of a client that takes no refreshes.                   *)

ResolveBegin(d) ==
    /\ lens[d] = "lazy" /\ resolver.pc = "idle"
    /\ IF Ready(d) THEN lens' = [lens EXCEPT ![d] = "count"] /\ UNCHANGED resolver
       ELSE resolver' = [pc |-> "lock", decl |-> d] /\ UNCHANGED lens
    /\ pending' = IF IsFresh(d) THEN pending ELSE pending \cup {ItemOf(d)}
    /\ UNCHANGED <<published, index, cached, moved, shaped, computing, worker, search, edit,
                   supports, requested, refresh, edits, panics, history>>

\* Once the lock is held, what the worker stored meanwhile is reused.
ResolveLocked ==
    /\ resolver.pc = "lock" /\ search.by = "none"
    /\ IF Ready(resolver.decl)
       THEN /\ lens' = [lens EXCEPT ![resolver.decl] = "count"]
            /\ resolver' = NoResolve /\ UNCHANGED <<search, moved, missed>>
       ELSE /\ BeginSearch("resolver", {ItemOf(resolver.decl)})
            /\ resolver' = [resolver EXCEPT !.pc = "search"] /\ UNCHANGED lens
    /\ UNCHANGED <<published, index, cached, shaped, pending, computing, worker, edit,
                   supports, requested, refresh, edits, panics, unseen>>

----------------------------------------------------------------------------
Editing ==
    \/ SignatureBump \/ SignatureMark \/ Track \/ ShapeMark \/ InvalidateLocationsIn
    \/ IndexWrite \/ (\E d \in Decl : InvalidateMember(d)) \/ EndEdit
Searching ==
    \/ Plan \/ ReadIndex \/ ReadMaps \/ SettleReceivers \/ CompareEpoch
    \/ (\E d \in Decl : Store(d)) \/ EndSearch
Working   == Schedule \/ TakePending \/ Drained \/ NotDrained \/ Failed
Resolving == (\E d \in Decl : ResolveBegin(d)) \/ ResolveLocked

Kinds == {"body", "move", "signature", "shape", "evict"}
Next ==
    \/ \E k \in Kinds, f \in Edited, t \in Text : Publish(k, f, t)
    \/ Editing \/ Searching \/ Unwind \/ Working \/ Resolving \/ PullLenses

\* Parses and searches run on blocking threads that are scheduled, the
\* client answers a refresh, and a resolve waits only for the lock.
Fairness ==
    /\ WF_vars(Editing) /\ WF_vars(Searching)
    /\ WF_vars(Schedule) /\ WF_vars(Drained) /\ WF_vars(NotDrained)
    /\ WF_vars(Failed) /\ SF_vars(TakePending) /\ SF_vars(ResolveLocked)
    /\ WF_vars(refresh /\ PullLenses)

Spec == Init /\ [][Next]_vars /\ Fairness

----------------------------------------------------------------------------
(* Properties.                                                             *)

Places    == UNION {{<<f, t[d], v>> : f \in File, d \in Decl, v \in 0..MaxEdits} : t \in Text}
Items     == Decl \X (0..MaxEdits)
Staleness == [all : BOOLEAN, files : SUBSET File]
Entry     == [present : BOOLEAN, kept : BOOLEAN, locs : SUBSET Places, count : Nat,
              countStale : BOOLEAN, stale : Staleness]

\* Every variable keeps its shape; a search has an owner that is in it, and
\* `computing' is up exactly while the one background worker lives.
TypeOK ==
    /\ text \in [File -> Text] /\ sig \in 0..MaxEdits /\ at \in [Decl -> 0..MaxEdits]
    /\ index \in [File -> SUBSET Decl]
    /\ cache \in [Decl -> Entry] /\ locationCount \in Nat /\ uris \subseteq File
    /\ moved \in BOOLEAN /\ shaped \subseteq ClassFile
    /\ pending \subseteq Items /\ search.items \subseteq Items
    /\ computing <=> worker.pc # "idle"
    /\ (search.by = "worker") <=> (worker.pc = "search")
    /\ (search.by = "resolver") <=> (resolver.pc = "search")
    /\ lens \in [Decl -> {"none", "count", "pending", "lazy"}]
    /\ missed \subseteq Decl /\ unseen \subseteq Decl

\* An entry served as fresh between two edits is what a full search would
\* find now, however edits, searches, partial rescans and the emptying of the
\* cache interleaved (cache.rs:160-162, mod.rs:296-299).  The exception is
\* named by `unseen': a result that no invalidation could reach.
Matches(d) ==
    /\ cache[d].count = Cardinality(Accesses(d))
    /\ cache[d].kept => cache[d].locs = Accesses(d)
FreshIsCurrent ==
    edit.pc = "idle" => \A d \in Decl : IsFresh(d) /\ d \notin unseen => Matches(d)

\* The number of locations that the limit is checked against is that of the
\* pairs of an entry and a location it keeps, and stays under the limit, across
\* stores that replace an entry, keep no locations or drop the cache
\* (cache.rs:288-300, :346).
LocationsAccounted ==
    /\ locationCount = Cardinality(UNION {{d} \X cache[d].locs : d \in Decl})
    /\ locationCount <= MaxCachedLocations

\* A queued declaration is never left to nobody: while something is queued,
\* a worker lives or a request is about to schedule one, unless a search
\* panicked (mod.rs:348-352).
QueueIsServed == supports /\ panics = 0 /\ pending # {} => computing \/ requested

\* A worker's burst ends: edits are finite, and what they invalidate is
\* searched again and then leaves the queue.
BurstsEnd == computing ~> ~computing

\* A placeholder turns into a count: the client is asked to pull again once
\* it is there (code_lens.rs:500-505), unless a search panicked.
LensSettles ==
    \A d \in Decl : lens[d] = "pending" ~> (lens[d] # "pending" \/ panics > 0)
=============================================================================
