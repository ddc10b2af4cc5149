----------------------- MODULE ReferenceCountsProofs -----------------------
(***************************************************************************)
(* Proofs about the reference counts, for every set of declarations and    *)
(* files, every number of edits and every limit of the cache:              *)
(*                                                                         *)
(*   - QueueIsKept: whoever queues a declaration is about to schedule the  *)
(*     worker, and the worker gives up its flag over an empty queue only,  *)
(*     or after a panic;                                                   *)
(*   - TypeCorrect and LocationsAreCounted, which need the shape of a      *)
(*     search at each of its steps and that what it finds is finite;       *)
(*   - FreshCountsAreCurrent, by FreshInv: what a publication has yet to   *)
(*     mark or to index is owed, and each place an entry or a search has   *)
(*     in a file is the published one, is owed, or is known to be stale.   *)
(***************************************************************************)
EXTENDS ReferenceCounts, FiniteSetTheorems, TLAPS

WorkerType == [pc : {"idle", "pause", "search", "check", "failed"}, changed : BOOLEAN]

\* The flag is up while the worker lives; the search that is the worker's
\* has it waiting; a worker fails by a panic only.
FlagIsLife == computing <=> worker.pc # "idle"
OneOwner   == search.by = "worker" <=> worker.pc = "search"
FailsByPanic == worker.pc = "failed" => panics > 0

\* A client that takes refreshes is never given a lazy lens, so nothing is
\* queued but by its requests.
NeverLazy == supports => \A d \in Decl : lens[d] # "lazy"

\* A search is a record whose owner is in it.
Fields == {"by", "pc", "items", "plan", "candidates", "maps", "found", "invalidated"}
SearchOK == DOMAIN search = Fields /\ search.by \in {"none", "worker", "resolver"}

IInv ==
    /\ worker \in WorkerType /\ panics \in Nat /\ computing \in BOOLEAN
    /\ lens \in [Decl -> {"none", "count", "pending", "lazy"}]
    /\ SearchOK /\ FlagIsLife /\ OneOwner /\ FailsByPanic /\ NeverLazy
    /\ QueueIsServed

----------------------------------------------------------------------------
LEMMA InitServed == ASSUME Init PROVE IInv
<1>1. DOMAIN NoSearch = Fields /\ NoSearch.by = "none"
  BY DEF NoSearch, Fields
<1>2. search = NoSearch /\ worker = [pc |-> "idle", changed |-> FALSE] /\ pending = {}
      /\ panics = 0 /\ computing = FALSE /\ lens = [d \in Decl |-> "none"]
  BY DEF Init, Idle
<1> QED
  BY <1>1, <1>2 DEF IInv, WorkerType, SearchOK, FlagIsLife, OneOwner, FailsByPanic, NeverLazy,
                    QueueIsServed

\* What the edits, and the steps of a search before it stores, leave alone.
Apart == /\ UNCHANGED <<worker, panics, computing, lens, supports, pending, requested>>
         /\ SearchOK' /\ search'.by = search.by
LEMMA ApartServed == ASSUME IInv, Apart PROVE IInv'
  BY DEF IInv, Apart, FlagIsLife, OneOwner, FailsByPanic, NeverLazy, QueueIsServed

LEMMA EditServed ==
  ASSUME IInv, Editing \/ \E k \in Kinds, f \in Edited, t \in Text : Publish(k, f, t)
  PROVE  IInv'
<1>1. /\ UNCHANGED <<worker, panics, computing, supports, lens, pending, requested>>
      /\ search' = search
  <2>1. CASE Editing
    BY <2>1 DEF Editing, SignatureBump, SignatureMark, Track, ShapeMark, InvalidateLocationsIn,
       IndexWrite, InvalidateMember, EndEdit, client
  <2>2. ASSUME NEW k \in Kinds, NEW f \in Edited, NEW t \in Text, Publish(k, f, t)
        PROVE  /\ UNCHANGED <<worker, panics, computing, supports, lens, pending, requested>>
               /\ search' = search
    BY <2>2 DEF Publish, client
  <2> QED
    BY <2>1, <2>2
<1> QED
  BY <1>1, ApartServed DEF Apart, SearchOK, IInv

LEMMA SearchServed ==
  ASSUME IInv, Plan \/ ReadIndex \/ ReadMaps \/ SettleReceivers \/ CompareEpoch
  PROVE  IInv'
<1>0. DOMAIN search = Fields /\ search.by \in {"none", "worker", "resolver"}
  BY DEF IInv, SearchOK
<1>1. UNCHANGED <<worker, panics, computing, supports, lens, pending, requested>>
  BY DEF Plan, ReadIndex, ReadMaps, SettleReceivers, CompareEpoch, client
<1>2. DOMAIN search' = Fields /\ search'.by = search.by
  <2> USE DEF Fields
  <2>1. CASE Plan
    BY <1>0, <2>1 DEF Plan
  <2>2. CASE ReadIndex
    BY <1>0, <2>2 DEF ReadIndex
  <2>3. CASE ReadMaps
    BY <1>0, <2>3 DEF ReadMaps
  <2>4. CASE SettleReceivers
    BY <1>0, <2>4 DEF SettleReceivers
  <2>5. CASE CompareEpoch
    BY <1>0, <2>5 DEF CompareEpoch
  <2> QED
    BY <2>1, <2>2, <2>3, <2>4, <2>5
<1> QED
  BY <1>0, <1>1, <1>2, ApartServed DEF Apart, SearchOK

\* A stored result leaves the worker searching.
LEMMA StoreServed == ASSUME IInv, NEW d \in Decl, Store(d) PROVE IInv'
<1>0. DOMAIN search = Fields /\ search.by \in {"none", "worker", "resolver"}
  BY DEF IInv, SearchOK
<1>1. UNCHANGED <<panics, computing, supports, lens, pending, requested>>
  BY DEF Store, client
<1>2. DOMAIN search' = Fields /\ search'.by = search.by
  BY <1>0 DEF Store, Fields
<1>3. worker' \in WorkerType /\ worker'.pc = worker.pc
  <2>1. worker \in WorkerType
    BY DEF IInv
  <2>2. PICK changed \in BOOLEAN : changed = (worker.changed \/ Changed(d, search.found[d]))
    OBVIOUS
  <2>3. worker' \in {worker, [worker EXCEPT !.changed = changed]}
    BY <2>2 DEF Store
  <2> QED
    BY <2>1, <2>3 DEF WorkerType
<1> QED
  BY <1>0, <1>1, <1>2, <1>3 DEF IInv, SearchOK, FlagIsLife, OneOwner, FailsByPanic, NeverLazy,
                                QueueIsServed

\* The end of a search, as the worker sees it.
LEMMA EndServed == ASSUME IInv, EndSearch \/ Unwind PROVE IInv'
<1>0. /\ DOMAIN NoSearch = Fields /\ NoSearch.by = "none" /\ worker \in WorkerType
      /\ panics \in Nat /\ search.by = "worker" <=> worker.pc = "search"
  BY DEF NoSearch, Fields, IInv, OneOwner
<1>1. CASE EndSearch
  <2>1. /\ UNCHANGED <<panics, computing, supports, requested>>
        /\ pending' \subseteq pending /\ search' = NoSearch
    BY <1>1 DEF EndSearch
  <2>2. worker' \in WorkerType /\ worker'.pc = IF search.by = "worker" THEN "check" ELSE worker.pc
    BY <1>0, <1>1 DEF EndSearch, WorkerType
  <2>3. /\ lens' \in [Decl -> {"none", "count", "pending", "lazy"}]
        /\ \A d \in Decl : lens'[d] \in {lens[d], "count"}
    BY <1>1 DEF EndSearch, IInv
  <2>4. SearchOK' /\ search'.by = "none"
    BY <1>0, <2>1 DEF SearchOK
  <2>5. NeverLazy'
    BY <2>1, <2>3 DEF IInv, NeverLazy
  <2>6. FlagIsLife' /\ OneOwner' /\ FailsByPanic'
    BY <1>0, <2>1, <2>2, <2>4 DEF IInv, FlagIsLife, OneOwner, FailsByPanic
  <2>7. QueueIsServed'
    BY <2>1 DEF IInv, QueueIsServed
  <2> QED
    BY <2>1, <2>2, <2>3, <2>4, <2>5, <2>6, <2>7 DEF IInv
<1>2. CASE Unwind
  <2>1. /\ UNCHANGED <<computing, supports, requested, lens, pending>>
        /\ search' = NoSearch /\ panics' = panics + 1
    BY <1>2 DEF Unwind, client
  <2>b. panics \in Nat
    BY DEF IInv
  <2>a. panics' \in Nat /\ panics' > 0 /\ panics' # 0
    <3>1. panics' = panics + 1
      BY <2>1
    <3> QED
      BY <3>1, <2>b
  <2>2. worker' \in WorkerType /\ worker'.pc = IF search.by = "worker" THEN "failed" ELSE worker.pc
    BY <1>0, <1>2 DEF Unwind, WorkerType
  <2>3. SearchOK' /\ search'.by = "none"
    BY <1>0, <2>1 DEF SearchOK
  <2>4. FlagIsLife' /\ OneOwner' /\ FailsByPanic' /\ NeverLazy' /\ QueueIsServed'
    BY <1>0, <2>1, <2>a, <2>2, <2>3
       DEF IInv, FlagIsLife, OneOwner, FailsByPanic, NeverLazy, QueueIsServed
  <2> QED
    BY <2>1, <2>a, <2>2, <2>3, <2>4 DEF IInv
<1> QED
  BY <1>1, <1>2

\* A search that begins, for the worker or for a lens.
LEMMA BeginServed ==
  ASSUME NEW who \in {"worker", "resolver"}, NEW items, BeginSearch(who, items)
  PROVE  DOMAIN search' = Fields /\ search'.by = who
  BY DEF BeginSearch, NoSearch, Fields

LEMMA WorkServed == ASSUME IInv, Working PROVE IInv'
<1>0. /\ worker \in WorkerType /\ panics \in Nat /\ SearchOK
      /\ FlagIsLife /\ OneOwner /\ FailsByPanic /\ NeverLazy /\ QueueIsServed
      /\ lens \in [Decl -> {"none", "count", "pending", "lazy"}] /\ computing \in BOOLEAN
  BY DEF IInv
<1> USE DEF FlagIsLife, OneOwner, FailsByPanic, NeverLazy, QueueIsServed, SearchOK
<1>1. CASE Schedule
  <2>1. UNCHANGED <<panics, search, supports, lens, pending>>
    BY <1>1 DEF Schedule
  <2>2. \/ /\ pending # {} /\ ~computing /\ computing' = TRUE
           /\ worker' = [pc |-> "pause", changed |-> FALSE]
        \/ (pending = {} \/ computing) /\ UNCHANGED <<computing, worker>>
    BY <1>1 DEF Schedule
  <2>3. CASE /\ pending # {} /\ ~computing /\ computing' = TRUE
             /\ worker' = [pc |-> "pause", changed |-> FALSE]
    <3>1. worker' \in WorkerType /\ worker'.pc = "pause"
      BY <2>3 DEF WorkerType
    <3>2. worker.pc = "idle"
      BY <1>0, <2>3
    <3> QED
      BY <1>0, <2>1, <2>3, <3>1, <3>2 DEF IInv
  <2>4. CASE (pending = {} \/ computing) /\ UNCHANGED <<computing, worker>>
    BY <1>0, <2>1, <2>4 DEF IInv
  <2> QED
    BY <2>2, <2>3, <2>4
<1>2. CASE TakePending
  <2>1. /\ UNCHANGED <<panics, computing, supports, lens, pending, requested>>
        /\ worker.pc = "pause" /\ search.by = "none"
    BY <1>2 DEF TakePending, client
  <2>2. \/ search' = search /\ worker' = [worker EXCEPT !.pc = "check"]
        \/ BeginSearch("worker", pending) /\ worker' = [worker EXCEPT !.pc = "search"]
    BY <1>2 DEF TakePending
  <2>3. CASE search' = search /\ worker' = [worker EXCEPT !.pc = "check"]
    BY <1>0, <2>1, <2>3 DEF IInv, WorkerType
  <2>4. CASE BeginSearch("worker", pending) /\ worker' = [worker EXCEPT !.pc = "search"]
    <3>1. DOMAIN search' = Fields /\ search'.by = "worker"
      BY <2>4, BeginServed
    <3> QED
      BY <1>0, <2>1, <2>4, <3>1 DEF IInv, WorkerType
  <2> QED
    BY <2>2, <2>3, <2>4
<1>3. CASE Drained \/ Failed
  <2>1. /\ UNCHANGED <<panics, search, supports, lens, pending, requested>>
        /\ computing' = FALSE /\ worker' = [pc |-> "idle", changed |-> FALSE]
        /\ worker.pc # "search" /\ (pending = {} \/ panics > 0)
    <3>1. CASE Drained
      BY <1>0, <3>1 DEF Drained, Idle
    <3>2. CASE Failed
      BY <1>0, <3>2 DEF Failed, Idle, client
    <3> QED
      BY <1>3, <3>1, <3>2
  <2>2. worker' \in WorkerType /\ worker'.pc = "idle"
    BY <2>1 DEF WorkerType
  <2>3. QueueIsServed'
    BY <1>0, <2>1
  <2> QED
    BY <1>0, <2>1, <2>2, <2>3 DEF IInv
<1>4. CASE NotDrained
  <2>1. /\ UNCHANGED <<panics, computing, search, supports, lens, pending, requested>>
        /\ worker.pc = "check" /\ worker' = [worker EXCEPT !.pc = "pause"]
    BY <1>4 DEF NotDrained, client
  <2> QED
    BY <1>0, <2>1 DEF IInv, WorkerType
<1> QED
  BY <1>1, <1>2, <1>3, <1>4 DEF Working

\* What the client asks for.
LEMMA ClientServed == ASSUME IInv, Resolving \/ PullLenses PROVE IInv'
<1>0. /\ worker \in WorkerType /\ panics \in Nat /\ SearchOK
      /\ FlagIsLife /\ OneOwner /\ FailsByPanic /\ NeverLazy /\ QueueIsServed
      /\ lens \in [Decl -> {"none", "count", "pending", "lazy"}] /\ computing \in BOOLEAN
  BY DEF IInv
<1> USE DEF FlagIsLife, OneOwner, FailsByPanic, NeverLazy, QueueIsServed, SearchOK
<1>1. CASE PullLenses
  <2>1. /\ UNCHANGED <<worker, panics, computing, search, supports>> /\ requested' = TRUE
        /\ lens' = [d \in Decl |-> IF NoCandidates(d) \/ Ready(d) THEN "count"
                                   ELSE IF supports THEN "pending" ELSE "lazy"]
    BY <1>1 DEF PullLenses
  <2>2. /\ lens' \in [Decl -> {"none", "count", "pending", "lazy"}]
        /\ supports => \A d \in Decl : lens'[d] # "lazy"
    BY <2>1
  <2> QED
    BY <1>0, <2>1, <2>2 DEF IInv
<1>2. ASSUME NEW d \in Decl, ResolveBegin(d) PROVE IInv'
  <2>1. /\ UNCHANGED <<worker, panics, computing, search, supports, requested>>
        /\ lens[d] = "lazy" /\ (lens' = lens \/ lens' = [lens EXCEPT ![d] = "count"])
    BY <1>2 DEF ResolveBegin
  <2>2. /\ ~supports /\ lens' \in [Decl -> {"none", "count", "pending", "lazy"}]
    BY <1>0, <2>1
  <2> QED
    BY <1>0, <2>1, <2>2 DEF IInv
<1>3. CASE ResolveLocked
  <2>1. /\ UNCHANGED <<worker, panics, computing, supports, pending, requested>>
        /\ search.by = "none"
    BY <1>3 DEF ResolveLocked
  <2>2. /\ lens' \in [Decl -> {"none", "count", "pending", "lazy"}]
        /\ \A d \in Decl : lens'[d] \in {lens[d], "count"}
    BY <1>0, <1>3 DEF ResolveLocked
  <2>3. DOMAIN search' = Fields /\ search'.by \in {"none", "resolver"}
    BY <1>0, <1>3, BeginServed DEF ResolveLocked
  <2> QED
    BY <1>0, <2>1, <2>2, <2>3 DEF IInv
<1> QED
  BY <1>1, <1>2, <1>3 DEF Resolving

\* While a declaration is queued, a worker lives or a request is about to
\* schedule one, unless a search panicked: the worker lowers its flag in the
\* step that finds the queue empty, and only a panic lets it go otherwise.
THEOREM QueueIsKept == Spec => []QueueIsServed
<1>1. Init => IInv
  BY InitServed
<1>2. IInv /\ [Next]_vars => IInv'
  <2> SUFFICES ASSUME IInv, [Next]_vars PROVE IInv'
    OBVIOUS
  <2>1. CASE UNCHANGED vars
    BY <2>1, ApartServed DEF vars, client, Apart, IInv, SearchOK
  <2> QED
    BY <2>1, EditServed, SearchServed, StoreServed, EndServed, WorkServed, ClientServed
       DEF Next, Searching
<1>3. IInv => QueueIsServed
  BY DEF IInv
<1> QED
  BY <1>1, <1>2, <1>3, PTL DEF Spec

----------------------------------------------------------------------------
(* Types.                                                                  *)

EditPc   == {"idle", "signature", "signature mark", "track", "shape mark", "locations", "index",
             "members"}
EditType == [pc : EditPc, kind : Kinds, file : File \cup {NoEdit.file}, track : BOOLEAN,
             names : SUBSET Decl]
ResolverType == [pc : {"idle", "lock", "search"}, decl : Decl \cup {NoResolve.decl}]

\* What an entry, a plan and a result hold is finite.
EntryOK(c) == c \in Entry /\ IsFiniteSet(c.locs)
PlanOK(r)  == r.rescan \subseteq File /\ r.keep \subseteq Places /\ IsFiniteSet(r.keep)
FoundOK(l) == l \subseteq Places /\ IsFiniteSet(l)

Planned == DOMAIN search.plan
SearchPc == {"none", "plan", "candidates", "maps", "receivers", "compare", "store"}
SearchFields ==
    /\ DOMAIN search = Fields /\ search.pc \in SearchPc /\ search.by \in {"none", "worker", "resolver"}
    /\ search.items \subseteq Items /\ search.invalidated \in BOOLEAN
    /\ search.pc = "none" <=> search.by = "none"
SearchType ==
    /\ Planned \subseteq DeclsOf(search.items)
    /\ \A d \in Planned : PlanOK(search.plan[d])
    /\ search.pc \in {"none", "plan"} => Planned = {}
    /\ search.pc \in {"maps", "receivers"} =>
          \A d \in Planned : search.candidates[d] \subseteq search.plan[d].rescan
    /\ search.pc = "receivers" => search.maps \in [File -> Text]
    /\ search.pc = "compare" => DOMAIN search.found = Planned
    /\ search.pc = "store" => DOMAIN search.found \subseteq Planned
    /\ search.pc \in {"compare", "store"} => \A d \in DOMAIN search.found : FoundOK(search.found[d])

PublishedOK ==
    /\ text \in [File -> Text] /\ edits \in 0..MaxEdits /\ sig \in 0..edits
    /\ at \in [Decl -> 0..edits] /\ index \in [File -> SUBSET Decl]
    /\ shaped \subseteq ClassFile
    /\ edit \in EditType /\ (edit.pc # "idle" => edit.file \in Edited)
CacheOK ==
    /\ cache \in [Decl -> Entry] /\ (\A d \in Decl : IsFiniteSet(cache[d].locs))
    /\ locationCount \in Nat /\ uris \subseteq File
SearchShape ==
    /\ SearchFields /\ SearchType /\ moved \in BOOLEAN
    /\ missed \subseteq Decl /\ unseen \subseteq Decl
ClientOK ==
    /\ worker \in WorkerType /\ (computing <=> worker.pc # "idle")
    /\ (search.by = "worker") <=> (worker.pc = "search")
    /\ resolver \in ResolverType /\ (resolver.pc # "idle" => resolver.decl \in Decl)
    /\ (search.by = "resolver") <=> (resolver.pc = "search")
    /\ lens \in [Decl -> {"none", "count", "pending", "lazy"}]
    /\ pending \subseteq Items
Types == PublishedOK /\ CacheOK /\ SearchShape /\ ClientOK

LEMMA InitTypes == ASSUME CountsAssumption, Init PROVE Types
<1>1. PublishedOK
  <2>1. edit \in EditType /\ edit.pc = "idle"
    BY DEF Init, NoEdit, EditType, EditPc, Kinds
  <2>2. index \in [File -> SUBSET Decl] /\ text \in [File -> Text] /\ at \in [Decl -> 0..0]
    BY DEF Init
  <2> QED
    BY <2>1, <2>2 DEF Init, PublishedOK, CountsAssumption
<1>2. CacheOK
  <2>1. NoEntry \in Entry /\ NoEntry.locs = {}
    BY DEF NoEntry, Entry, FreshMark, Staleness
  <2> QED
    BY <2>1, FS_EmptySet DEF Init, CacheOK
<1>3. SearchShape
  <2>1. /\ search = NoSearch /\ DOMAIN NoSearch = Fields /\ NoSearch.pc = "none" /\ NoSearch.by = "none"
        /\ NoSearch.items = {} /\ NoSearch.plan = <<>> /\ NoSearch.invalidated = FALSE
    BY DEF Init, NoSearch, Fields
  <2>2. Planned = {}
    BY <2>1 DEF Planned
  <2> QED
    BY <2>1, <2>2 DEF Init, SearchShape, SearchFields, SearchType, SearchPc
<1>4. ClientOK
  <2>1. worker \in WorkerType /\ worker.pc = "idle" /\ resolver \in ResolverType /\ resolver.pc = "idle"
    BY DEF Init, Idle, NoResolve, WorkerType, ResolverType
  <2>2. search.by = "none"
    BY DEF Init, NoSearch
  <2> QED
    BY <2>1, <2>2 DEF Init, ClientOK
<1> QED
  BY <1>1, <1>2, <1>3, <1>4 DEF Types

\* A step that marks entries: they keep what they hold, and grow staler.
Staler(c, e) ==
    /\ e \in Entry /\ e.present = c.present /\ e.kept = c.kept /\ e.locs = c.locs /\ e.count = c.count
    /\ (c.countStale => e.countStale) /\ (c.stale.all => e.stale.all)
    /\ (e.stale.all \/ c.stale.files \subseteq e.stale.files)

LEMMA StalerMarks ==
  ASSUME NEW c \in Entry, edit.file \in File
  PROVE  /\ Staler(c, MarkFiles(c)) /\ Staler(c, MarkName(c))
         /\ Staler(c, MarkEverywhere(c)) /\ Staler(c, MarkAll(c))
         /\ MarkEverywhere(c).stale.all /\ MarkAll(c).stale.all /\ MarkName(c).countStale
         /\ MarkFiles(c).stale.all \/ (c.kept /\ edit.file \in MarkFiles(c).stale.files)
         /\ MarkName(c).stale.all \/ edit.file \in MarkName(c).stale.files
<1> DEFINE m == Merge(c.stale, [all |-> FALSE, files |-> {edit.file}])
<1>1. /\ m \in Staleness /\ (c.stale.all => m.all) /\ (m.all \/ c.stale.files \subseteq m.files)
      /\ m.all \/ edit.file \in m.files
  BY DEF Merge, Staleness, Entry, Everything
<1>2. Everything \in Staleness /\ Everything.all
  BY DEF Everything, Staleness
<1>3. MarkEverywhere(c) = [c EXCEPT !.stale = Everything]
      /\ MarkAll(c) = [c EXCEPT !.countStale = TRUE, !.stale = Everything]
      /\ MarkName(c) = [c EXCEPT !.countStale = TRUE, !.stale = m]
      /\ MarkFiles(c) = [c EXCEPT !.stale = IF c.kept THEN m ELSE Everything]
  BY DEF MarkEverywhere, MarkAll, MarkName, MarkFiles
<1> HIDE DEF m
<1>4. Staler(c, MarkEverywhere(c)) /\ MarkEverywhere(c).stale.all
  BY <1>2, <1>3 DEF Entry, Staler
<1>5. Staler(c, MarkAll(c)) /\ MarkAll(c).stale.all
  BY <1>2, <1>3 DEF Entry, Staler
<1>6. /\ Staler(c, MarkName(c)) /\ MarkName(c).countStale
      /\ MarkName(c).stale.all \/ edit.file \in MarkName(c).stale.files
  BY <1>1, <1>3 DEF Entry, Staler
<1>7. /\ Staler(c, MarkFiles(c))
      /\ MarkFiles(c).stale.all \/ (c.kept /\ edit.file \in MarkFiles(c).stale.files)
  BY <1>1, <1>2, <1>3 DEF Entry, Staler
<1> QED
  BY <1>4, <1>5, <1>6, <1>7

LEMMA PlannedDecl == ASSUME SearchShape PROVE Planned \subseteq Decl
  BY DEF SearchShape, SearchFields, SearchType, Planned, DeclsOf, Items

\* What every step that marks entries does.
Marking ==
    /\ cache' \in [Decl -> Entry] /\ (\A d \in Decl : Staler(cache[d], cache'[d]))
    /\ moved' \in BOOLEAN /\ (moved => moved')
    /\ missed \subseteq missed' /\ missed' \subseteq missed \cup Planned
    /\ UNCHANGED <<locationCount, uris, unseen, search>>

LEMMA StalerSelf == ASSUME NEW c \in Entry PROVE Staler(c, c)
  BY DEF Staler

\* The six steps of a publication that mark entries.
Markings == \/ SignatureBump \/ SignatureMark \/ Track \/ ShapeMark \/ InvalidateLocationsIn
            \/ \E d \in Decl : InvalidateMember(d)
LEMMA EditMarks == ASSUME CountsAssumption, Types, Markings PROVE Marking /\ edit.pc # "idle"
<1>0. /\ cache \in [Decl -> Entry] /\ moved \in BOOLEAN /\ edit.pc # "idle" /\ edit.file \in File
      /\ UNCHANGED <<locationCount, uris, unseen, search>>
  BY DEF Types, CacheOK, SearchShape, PublishedOK, Markings, SignatureBump, SignatureMark, Track,
         ShapeMark, InvalidateLocationsIn, InvalidateMember, Invalidate, CountsAssumption
<1>1. /\ moved' \in BOOLEAN /\ (moved => moved')
      /\ missed \subseteq missed' /\ missed' \subseteq missed \cup Planned
  <2> USE <1>0 DEF Invalidate, Unreached, Planned
  <2>1. CASE SignatureBump
    BY <2>1 DEF SignatureBump
  <2>2. CASE SignatureMark
    BY <2>2 DEF SignatureMark
  <2>3. CASE Track
    BY <2>3 DEF Track
  <2>4. CASE ShapeMark
    BY <2>4 DEF ShapeMark
  <2>5. CASE InvalidateLocationsIn
    BY <2>5 DEF InvalidateLocationsIn
  <2>6. ASSUME NEW d \in Decl, InvalidateMember(d)
        PROVE  /\ moved' \in BOOLEAN /\ (moved => moved')
               /\ missed \subseteq missed' /\ missed' \subseteq missed \cup Planned
    BY <2>6 DEF InvalidateMember
  <2> QED
    BY <2>1, <2>2, <2>3, <2>4, <2>5, <2>6 DEF Markings
<1>2. cache' \in [Decl -> Entry] /\ \A d \in Decl : Staler(cache[d], cache'[d])
  <2>0. \A d \in Decl : /\ Staler(cache[d], cache[d])
                        /\ Staler(cache[d], MarkFiles(cache[d])) /\ Staler(cache[d], MarkName(cache[d]))
                        /\ Staler(cache[d], MarkEverywhere(cache[d])) /\ Staler(cache[d], MarkAll(cache[d]))
    BY <1>0, StalerMarks, StalerSelf
  <2>1. /\ cache' = [d \in Decl |-> cache'[d]]
        /\ \A d \in Decl : cache'[d] \in {cache[d], MarkEverywhere(cache[d]), MarkAll(cache[d]),
                                          MarkFiles(cache[d]), MarkName(cache[d])}
    <3> USE DEF Invalidate
    <3>1. CASE SignatureBump
      BY <3>1 DEF SignatureBump
    <3>2. CASE SignatureMark
      BY <3>2 DEF SignatureMark
    <3>3. CASE Track
      BY <3>3 DEF Track
    <3>4. CASE ShapeMark
      BY <3>4 DEF ShapeMark
    <3>5. CASE InvalidateLocationsIn
      BY <3>5 DEF InvalidateLocationsIn
    <3>6. ASSUME NEW d \in Decl, InvalidateMember(d)
          PROVE  /\ cache' = [e \in Decl |-> cache'[e]]
                 /\ \A e \in Decl : cache'[e] \in {cache[e], MarkName(cache[e])}
      BY <3>6 DEF InvalidateMember
    <3> QED
      BY <3>1, <3>2, <3>3, <3>4, <3>5, <3>6 DEF Markings
  <2>2. \A d \in Decl : Staler(cache[d], cache'[d])
    BY <2>0, <2>1
  <2> QED
    BY <2>1, <2>2 DEF Staler
<1> QED
  BY <1>0, <1>1, <1>2 DEF Marking

LEMMA MarkTypes == ASSUME CountsAssumption, Types, Markings PROVE Types'
<1>1. Marking
  BY EditMarks
<1>2. /\ UNCHANGED <<text, sig, at, edits, index, worker, computing, resolver, lens, pending>>
      /\ shaped' \subseteq ClassFile
  <2>1. shaped \subseteq ClassFile
    BY DEF Types, PublishedOK
  <2> QED
    BY <2>1 DEF Markings, SignatureBump, SignatureMark, Track, ShapeMark, ShapeChanged,
        InvalidateLocationsIn, InvalidateMember, published, client
<1>3. edit' \in EditType /\ edit'.file = edit.file /\ edit.file \in Edited
  <2>0. edit \in EditType /\ edit.file \in Edited
    BY EditMarks DEF Types, PublishedOK
  <2>1. CASE SignatureBump
    BY <2>0, <2>1 DEF SignatureBump, EditType, EditPc
  <2>2. CASE SignatureMark
    BY <2>0, <2>2 DEF SignatureMark, EditType, EditPc
  <2>3. CASE Track
    BY <2>0, <2>3 DEF Track, EditType, EditPc, Empty
  <2>4. CASE ShapeMark
    BY <2>0, <2>4 DEF ShapeMark, EditType, EditPc
  <2>5. CASE InvalidateLocationsIn
    BY <2>0, <2>5 DEF InvalidateLocationsIn, EditType, EditPc
  <2>6. ASSUME NEW d \in Decl, InvalidateMember(d) PROVE edit' \in EditType /\ edit'.file = edit.file
    BY <2>0, <2>6 DEF InvalidateMember, EditType, EditPc
  <2> QED
    BY <2>0, <2>1, <2>2, <2>3, <2>4, <2>5, <2>6 DEF Markings
<1>4. CacheOK'
  BY <1>1 DEF Types, CacheOK, Marking, Staler
<1>5. SearchShape'
  <2>1. Planned \subseteq Decl /\ search' = search
    BY <1>1, PlannedDecl DEF Types, Marking
  <2> QED
    BY <1>1, <2>1 DEF Types, SearchShape, Marking, SearchFields, SearchType, Planned
<1>6. PublishedOK'
  BY <1>2, <1>3 DEF Types, PublishedOK
<1>7. ClientOK'
  BY <1>1, <1>2 DEF Types, ClientOK, Marking
<1> QED
  BY <1>4, <1>5, <1>6, <1>7 DEF Types

LEMMA EditTypes ==
  ASSUME CountsAssumption, Types,
         IndexWrite \/ EndEdit \/ \E k \in Kinds, f \in Edited, t \in Text : Publish(k, f, t)
  PROVE  Types'
<1>0. /\ UNCHANGED <<cache, locationCount, uris, worker, computing, resolver, lens, pending, search, moved>>
  BY DEF IndexWrite, EndEdit, Publish, cached, client, history
<1>1. CacheOK' /\ ClientOK'
  BY <1>0 DEF Types, CacheOK, ClientOK
<1>2. SearchShape'
  <2>1. Planned \subseteq Decl /\ missed' \subseteq missed \cup Planned /\ unseen' \subseteq unseen \cup Holders
    BY PlannedDecl DEF Types, IndexWrite, EndEdit, Publish, history, Planned
  <2> QED
    BY <1>0, <2>1 DEF Types, SearchShape, SearchFields, SearchType, Planned, Holders
<1>3. PublishedOK'
  <2>0. PublishedOK
    BY DEF Types
  <2>1. CASE IndexWrite
    <3>1. edit' \in EditType /\ edit'.file = edit.file /\ edit.pc # "idle"
      BY <2>0, <2>1 DEF IndexWrite, PublishedOK, EditType, EditPc, Named
    <3>2. index' \in [File -> SUBSET Decl]
      BY <2>0, <2>1 DEF IndexWrite, PublishedOK, Named
    <3> QED
      BY <2>0, <2>1, <3>1, <3>2 DEF IndexWrite, PublishedOK, published
  <2>2. CASE EndEdit
    <3>1. NoEdit \in EditType /\ NoEdit.pc = "idle"
      BY DEF NoEdit, EditType, EditPc, Kinds
    <3> QED
      BY <2>0, <2>2, <3>1 DEF EndEdit, PublishedOK, published
  <2>3. ASSUME NEW k \in Kinds, NEW f \in Edited, NEW t \in Text, Publish(k, f, t) PROVE PublishedOK'
    <3>1. edit' \in EditType /\ edit'.file = f
      BY <2>3 DEF Publish, EditType, EditPc, CountsAssumption
    <3>2. edits' = edits + 1 /\ edits' \in 0..MaxEdits /\ sig' \in {sig, sig + 1}
      BY <2>0, <2>3 DEF Publish, PublishedOK, CountsAssumption
    <3>3. sig' \in 0..edits'
      BY <2>0, <3>2 DEF PublishedOK, CountsAssumption
    <3>4. at' \in [Decl -> 0..edits']
      BY <2>0, <2>3, <3>2 DEF Publish, PublishedOK, CountsAssumption
    <3>5. text' \in [File -> Text]
      BY <2>0, <2>3 DEF Publish, PublishedOK
    <3> QED
      BY <2>0, <2>3, <3>1, <3>2, <3>3, <3>4, <3>5 DEF Publish, PublishedOK
  <2> QED
    BY <2>1, <2>2, <2>3
<1> QED
  BY <1>1, <1>2, <1>3 DEF Types

\* One field of a search after the other.
LEMMA PlanFields ==
  ASSUME CountsAssumption, Types, Plan
  PROVE  /\ SearchFields' /\ SearchType' /\ search.pc = "plan" /\ search'.pc = "candidates"
         /\ UNCHANGED <<search.by, search.items, search.invalidated>>
         /\ Planned' = Searched /\ \A d \in Searched : search'.plan[d] = PlanFor(d)
<1>0. SearchFields /\ cache \in [Decl -> Entry] /\ \A d \in Decl : IsFiniteSet(cache[d].locs)
  BY DEF Types, SearchShape, CacheOK
<1>1. /\ search' = [search EXCEPT !.plan = [d \in Searched |-> PlanFor(d)], !.pc = "candidates"]
      /\ search.pc = "plan"
  BY DEF Plan
<1>2. /\ DOMAIN search' = Fields /\ search'.pc = "candidates" /\ search'.plan = [d \in Searched |-> PlanFor(d)]
      /\ UNCHANGED <<search.by, search.items, search.invalidated>>
  BY <1>0, <1>1 DEF SearchFields, Fields
<1>3. Searched \subseteq DeclsOf(search.items) /\ Searched \subseteq Decl
  BY <1>0 DEF Searched, DeclsOf, ItemOf, SearchFields, Items
<1>4. ASSUME NEW d \in Searched PROVE PlanOK(PlanFor(d))
  <2>1. CASE search.by = "worker" /\ Partial(d)
    <3>1. /\ PlanFor(d).rescan = cache[d].stale.files
          /\ PlanFor(d).keep = {l \in cache[d].locs : l[1] \notin cache[d].stale.files}
      BY <2>1 DEF PlanFor
    <3>2. IsFiniteSet(PlanFor(d).keep)
      BY <1>0, <1>3, <3>1, FS_Subset
    <3> QED
      BY <1>0, <1>3, <3>1, <3>2 DEF PlanOK, Entry, Staleness
  <2>2. CASE ~(search.by = "worker" /\ Partial(d))
    <3>1. PlanFor(d).rescan = File /\ PlanFor(d).keep = {}
      BY <2>2 DEF PlanFor
    <3> QED
      BY <3>1, FS_EmptySet DEF PlanOK
  <2> QED
    BY <2>1, <2>2
<1>5. Planned' = Searched /\ \A d \in Searched : search'.plan[d] = PlanFor(d)
  BY <1>2 DEF Planned
<1>6. SearchFields'
  BY <1>0, <1>1, <1>2 DEF SearchFields, SearchPc
<1>7. SearchType'
  BY <1>2, <1>3, <1>4, <1>5 DEF SearchType, DeclsOf
<1> QED
  BY <1>1, <1>2, <1>5, <1>6, <1>7

LEMMA ReadIndexFields ==
  ASSUME Types, ReadIndex
  PROVE  /\ SearchFields' /\ SearchType' /\ search.pc = "candidates" /\ search'.pc = "maps"
         /\ UNCHANGED <<search.by, search.items, search.invalidated, search.plan>>
         /\ \A d \in Planned : search'.candidates[d] = {f \in search.plan[d].rescan : d \in index[f]}
<1>0. SearchFields /\ SearchType
  BY DEF Types, SearchShape
<1>1. /\ search' = [search EXCEPT !.pc = "maps",
                    !.candidates = [d \in DOMAIN search.plan |->
                        {f \in search.plan[d].rescan : d \in index[f]}]]
      /\ search.pc = "candidates"
  BY DEF ReadIndex
<1>2. /\ DOMAIN search' = Fields /\ search'.pc = "maps"
      /\ UNCHANGED <<search.by, search.items, search.invalidated, search.plan>>
      /\ search'.candidates = [d \in Planned |-> {f \in search.plan[d].rescan : d \in index[f]}]
  BY <1>0, <1>1 DEF SearchFields, Fields, Planned
<1>3. SearchFields' /\ SearchType'
  BY <1>0, <1>1, <1>2 DEF SearchFields, SearchPc, SearchType, Planned
<1> QED
  BY <1>1, <1>2, <1>3

LEMMA ReadMapsFields ==
  ASSUME Types, ReadMaps
  PROVE  /\ SearchFields' /\ SearchType' /\ search.pc = "maps" /\ search'.pc = "receivers"
         /\ UNCHANGED <<search.by, search.items, search.invalidated, search.plan, search.candidates>>
         /\ search'.maps = text
<1>0. SearchFields /\ SearchType /\ text \in [File -> Text]
  BY DEF Types, SearchShape, PublishedOK
<1>1. search' = [search EXCEPT !.maps = text, !.pc = "receivers"] /\ search.pc = "maps"
  BY DEF ReadMaps
<1>2. /\ DOMAIN search' = Fields /\ search'.pc = "receivers" /\ search'.maps = text
      /\ UNCHANGED <<search.by, search.items, search.invalidated, search.plan, search.candidates>>
  BY <1>0, <1>1 DEF SearchFields, Fields
<1>3. SearchFields' /\ SearchType'
  BY <1>0, <1>1, <1>2 DEF SearchFields, SearchPc, SearchType, Planned
<1> QED
  BY <1>1, <1>2, <1>3

\* The accesses found in the maps that were read.
Result(d) == {<<f, search.maps[f][d], sig>> : f \in {g \in search.candidates[d] : search.maps[g][d] # 0}}
LEMMA ResultOK ==
  ASSUME CountsAssumption, Types, search.pc = "receivers", NEW d \in Planned PROVE FoundOK(Result(d))
<1> DEFINE S == {g \in search.candidates[d] : search.maps[g][d] # 0}
<1>1. /\ search.candidates[d] \subseteq File /\ search.maps \in [File -> Text] /\ sig \in 0..MaxEdits
      /\ d \in Decl /\ IsFiniteSet(File) /\ Text \subseteq [Decl -> Nat]
  BY PlannedDecl DEF Types, SearchShape, SearchType, PlanOK, PublishedOK, CountsAssumption
<1>2. Result(d) \subseteq Places
  <2>1. ASSUME NEW f \in S PROVE <<f, search.maps[f][d], sig>> \in Places
    <3>1. search.maps[f] \in Text /\ f \in File
      BY <1>1
    <3> QED
      BY <1>1, <3>1 DEF Places
  <2> QED
    BY <2>1 DEF Result
<1>3. IsFiniteSet(S)
  BY <1>1, FS_Subset
<1>4. [f \in S |-> <<f, search.maps[f][d], sig>>] \in Surjection(S, Result(d))
  BY DEF Surjection, Result
<1> QED
  BY <1>2, <1>3, <1>4, FS_Surjection DEF FoundOK

LEMMA SettleFields ==
  ASSUME CountsAssumption, Types, SettleReceivers
  PROVE  /\ SearchFields' /\ SearchType' /\ search.pc = "receivers" /\ search'.pc = "compare"
         /\ UNCHANGED <<search.by, search.items, search.invalidated, search.plan>>
         /\ \A d \in Planned : search'.found[d] = search.plan[d].keep \cup Result(d)
         /\ DOMAIN search'.found = Planned
<1>0. SearchFields /\ SearchType
  BY DEF Types, SearchShape
<1>1. /\ search' = [search EXCEPT !.pc = "compare", !.candidates = <<>>, !.maps = <<>>,
                       !.found = [d \in DOMAIN search.plan |-> search.plan[d].keep \cup Result(d)]]
      /\ search.pc = "receivers"
  BY DEF SettleReceivers, Result
<1>2. /\ DOMAIN search' = Fields /\ search'.pc = "compare"
      /\ UNCHANGED <<search.by, search.items, search.invalidated, search.plan>>
      /\ search'.found = [d \in Planned |-> search.plan[d].keep \cup Result(d)]
  BY <1>0, <1>1 DEF SearchFields, Fields, Planned
<1>3. ASSUME NEW d \in Planned PROVE FoundOK(search.plan[d].keep \cup Result(d))
  <2>1. FoundOK(Result(d)) /\ PlanOK(search.plan[d])
    BY <1>0, <1>1, ResultOK DEF SearchType
  <2> QED
    BY <2>1, FS_Union DEF FoundOK, PlanOK
<1>4. SearchFields'
  BY <1>0, <1>1, <1>2 DEF SearchFields, SearchPc
<1>5. /\ Planned' = Planned /\ DOMAIN search'.found = Planned
      /\ \A d \in Planned : search'.found[d] = search.plan[d].keep \cup Result(d)
  BY <1>2 DEF Planned
<1>6. SearchType'
  <2>1. \A d \in DOMAIN search'.found : FoundOK(search'.found[d])
    BY <1>3, <1>5
  <2> QED
    BY <1>0, <1>2, <1>5, <2>1 DEF SearchType
<1> QED
  BY <1>1, <1>2, <1>4, <1>5, <1>6

LEMMA CompareFields ==
  ASSUME Types, CompareEpoch
  PROVE  /\ SearchFields' /\ SearchType' /\ search.pc = "compare" /\ search'.pc = "store"
         /\ UNCHANGED <<search.by, search.items, search.plan, search.found>>
         /\ search'.invalidated = moved
<1>0. SearchFields /\ SearchType /\ moved \in BOOLEAN
  BY DEF Types, SearchShape
<1>1. search' = [search EXCEPT !.invalidated = moved, !.pc = "store"] /\ search.pc = "compare"
  BY DEF CompareEpoch
<1>2. /\ DOMAIN search' = Fields /\ search'.pc = "store" /\ search'.invalidated = moved
      /\ UNCHANGED <<search.by, search.items, search.plan, search.found>>
  BY <1>0, <1>1 DEF SearchFields, Fields
<1>3. SearchFields' /\ SearchType'
  BY <1>0, <1>1, <1>2 DEF SearchFields, SearchPc, SearchType, Planned
<1> QED
  BY <1>1, <1>2, <1>3

LEMMA ReadTypes ==
  ASSUME CountsAssumption, Types, Plan \/ ReadIndex \/ ReadMaps \/ SettleReceivers \/ CompareEpoch
  PROVE  Types'
<1>1. /\ SearchFields' /\ SearchType' /\ search'.by = search.by
  BY PlanFields, ReadIndexFields, ReadMapsFields, SettleFields, CompareFields
<1>2. UNCHANGED <<published, index, cached, moved, shaped, pending, computing, worker,
                  resolver, edit, client, edits, history>>
  BY DEF Plan, ReadIndex, ReadMaps, SettleReceivers, CompareEpoch
<1>3. PublishedOK'
  BY <1>2 DEF Types, PublishedOK, published
<1>4. CacheOK'
  BY <1>2 DEF Types, CacheOK, cached
<1>5. SearchShape'
  BY <1>1, <1>2 DEF Types, SearchShape, history
<1>6. ClientOK'
  BY <1>1, <1>2 DEF Types, ClientOK, client
<1> QED
  BY <1>3, <1>4, <1>5, <1>6 DEF Types

\* A result that is stored, and the cache it leaves.
LEMMA NewEntryFields ==
  ASSUME CountsAssumption, CacheOK, NEW d \in Decl, NEW l, FoundOK(l), NEW i \in BOOLEAN
  PROVE  LET e == NewEntry(d, l, i)
         IN  /\ e \in Entry /\ e.present /\ e.kept = Kept(l) /\ e.locs = (IF Kept(l) THEN l ELSE {})
             /\ e.count = Cardinality(l) /\ IsFiniteSet(e.locs)
             /\ e.countStale = (i /\ (Present(d) => cache[d].countStale))
             /\ e.stale = IF ~i THEN FreshMark ELSE IF Present(d) THEN cache[d].stale ELSE Everything
<1>1. cache[d] \in Entry /\ Cardinality(l) \in Nat /\ IsFiniteSet({}) /\ Kept(l) \in BOOLEAN
  BY FS_CardinalityType, FS_EmptySet DEF CacheOK, FoundOK, Kept
<1>2. Everything \in Staleness /\ FreshMark \in Staleness /\ cache[d].stale \in Staleness
      /\ cache[d].present \in BOOLEAN /\ cache[d].countStale \in BOOLEAN
  BY <1>1 DEF Everything, FreshMark, Staleness, Entry
<1>3. l \subseteq Places
  BY DEF FoundOK
<1>4. NewEntry(d, l, i).kept \in BOOLEAN
  BY <1>1 DEF NewEntry
<1> QED
  BY <1>1, <1>2, <1>3, <1>4 DEF NewEntry, Entry, Present, FoundOK

LEMMA StoreFields ==
  ASSUME CountsAssumption, Types, NEW d \in Decl, Store(d)
  PROVE  /\ SearchFields' /\ SearchType' /\ search.pc = "store" /\ search'.pc = "store"
         /\ UNCHANGED <<search.by, search.items, search.plan, search.invalidated>>
         /\ DOMAIN search'.found = DOMAIN search.found \ {d} /\ d \in DOMAIN search.found
         /\ \A e \in DOMAIN search'.found : search'.found[e] = search.found[e]
         /\ d \in Planned /\ FoundOK(search.found[d])
<1>0. SearchFields /\ SearchType /\ search.pc = "store" /\ d \in DOMAIN search.found
  BY DEF Types, SearchShape, Store
<1>1. search' = [search EXCEPT !.found = [e \in DOMAIN search.found \ {d} |-> search.found[e]]]
  BY DEF Store
<1>2. /\ DOMAIN search' = Fields /\ search'.pc = "store"
      /\ UNCHANGED <<search.by, search.items, search.plan, search.invalidated>>
      /\ search'.found = [e \in DOMAIN search.found \ {d} |-> search.found[e]]
  BY <1>0, <1>1 DEF SearchFields, Fields
<1>3. SearchFields'
  BY <1>0, <1>2 DEF SearchFields
<1>4. SearchType'
  BY <1>0, <1>2 DEF SearchType, Planned
<1> QED
  BY <1>0, <1>2, <1>3, <1>4 DEF SearchType

LEMMA StoredCache ==
  ASSUME CountsAssumption, Types, NEW d \in Decl, Store(d)
  PROVE  /\ cache'[d] = NewEntry(d, search.found[d], search.invalidated)
         /\ cache' \in [Decl -> Entry] /\ \A e \in Decl : IsFiniteSet(cache'[e].locs)
         /\ \A e \in Decl \ {d} : cache'[e] = IF AtLimit(d, search.found[d]) THEN NoEntry ELSE cache[e]
<1> DEFINE n == NewEntry(d, search.found[d], search.invalidated)
<1>1. cache' = [e \in Decl |-> IF e = d THEN n ELSE IF AtLimit(d, search.found[d]) THEN NoEntry ELSE cache[e]]
  BY DEF Store
<1>2. n \in Entry /\ IsFiniteSet(n.locs)
  BY StoreFields, NewEntryFields DEF Types, SearchShape, SearchFields
<1>3. NoEntry \in Entry /\ IsFiniteSet(NoEntry.locs)
  BY FS_EmptySet DEF NoEntry, Entry, FreshMark, Staleness
<1>4. \A e \in Decl : cache[e] \in Entry /\ IsFiniteSet(cache[e].locs)
  BY DEF Types, CacheOK
<1> HIDE DEF n
<1> QED
  BY <1>1, <1>2, <1>3, <1>4 DEF n

LEMMA StoredCount ==
  ASSUME CountsAssumption, Types, NEW d \in Decl, NEW l, FoundOK(l)
  PROVE  /\ Weight(cache[d]) \in Nat /\ StoredWeight(l) \in 0..MaxLocationsPerMember
         /\ StoredWeight(l) = Cardinality(IF Kept(l) THEN l ELSE {})
<1>1. Cardinality(l) \in Nat /\ Cardinality(cache[d].locs) \in Nat /\ Cardinality({}) = 0
  BY FS_CardinalityType, FS_EmptySet DEF Types, CacheOK, FoundOK
<1> QED
  BY <1>1 DEF Weight, StoredWeight, Kept, CountsAssumption

LEMMA PlaceFile == ASSUME NEW l \in Places PROVE l[1] \in File
  BY DEF Places

\* The number of locations does not go below nothing: it counts what is there.
Held == UNION {{d} \X cache[d].locs : d \in Decl}
HeldOK == IsFiniteSet(Held) /\ LocationsAccounted

LEMMA HeldOf == ASSUME NEW S, IsFiniteSet(S), NEW d
                PROVE  IsFiniteSet({d} \X S) /\ Cardinality({d} \X S) = Cardinality(S)
<1>1. IsFiniteSet({d}) /\ Cardinality({d}) = 1 /\ Cardinality(S) \in Nat
  BY FS_Singleton, FS_CardinalityType
<1>2. IsFiniteSet({d} \X S) /\ Cardinality({d} \X S) = Cardinality({d}) * Cardinality(S)
  BY <1>1, FS_Product
<1> QED
  BY <1>1, <1>2

LEMMA StoreHeld ==
  ASSUME CountsAssumption, Types, HeldOK, NEW d \in Decl, Store(d)
  PROVE  HeldOK' /\ locationCount' \in Nat
<1> DEFINE l == search.found[d]
           new == IF Kept(l) THEN l ELSE {}
           old == cache[d].locs
<1>1. FoundOK(l) /\ cache'[d].locs = new /\ IsFiniteSet(new) /\ IsFiniteSet(old)
  <2>1. FoundOK(l) /\ search.invalidated \in BOOLEAN
    BY StoreFields DEF Types, SearchShape, SearchFields
  <2>2. cache'[d].locs = new
    BY <2>1, StoredCache, NewEntryFields DEF Types
  <2> QED
    BY <2>1, <2>2, FS_EmptySet DEF FoundOK, Types, CacheOK
<1>2. /\ Weight(cache[d]) = Cardinality(old) /\ Cardinality(old) \in Nat
      /\ StoredWeight(l) = Cardinality(new) /\ Cardinality(new) \in 0..MaxLocationsPerMember
  BY <1>1, StoredCount, FS_CardinalityType DEF Weight
<1>3. locationCount' = CountAfter(d, l) /\ locationCount = Cardinality(Held) /\ IsFiniteSet(Held)
  BY DEF Store, HeldOK, LocationsAccounted, Held
<1>4. CASE AtLimit(d, l)
  <2>1. \A e \in Decl \ {d} : cache'[e].locs = {}
    BY <1>4, StoredCache DEF NoEntry
  <2>2. Held' = {d} \X new
    BY <1>1, <2>1 DEF Held
  <2>3. IsFiniteSet(Held') /\ Cardinality(Held') = Cardinality(new)
    BY <1>1, <2>2, HeldOf
  <2>4. locationCount' = Cardinality(Held')
    BY <1>2, <1>3, <1>4, <2>3 DEF CountAfter
  <2> QED
    BY <1>2, <2>3, <2>4 DEF HeldOK, LocationsAccounted, Held, CountsAssumption
<1>5. CASE ~AtLimit(d, l)
  <2> DEFINE rest == Held \ ({d} \X old)
  <2>1. \A e \in Decl \ {d} : cache'[e].locs = cache[e].locs
    BY <1>5, StoredCache
  <2>2. Held' = rest \cup ({d} \X new) /\ rest \cap ({d} \X new) = {} /\ Held \cap ({d} \X old) = {d} \X old
    BY <1>1, <2>1 DEF Held
  <2>3. /\ IsFiniteSet({d} \X new) /\ Cardinality({d} \X new) = Cardinality(new)
        /\ IsFiniteSet({d} \X old) /\ Cardinality({d} \X old) = Cardinality(old)
    BY <1>1, HeldOf
  <2>4. IsFiniteSet(rest) /\ Cardinality(rest) = Cardinality(Held) - Cardinality(old)
    <3> DEFINE gone == {d} \X old
    <3>1. Held \cap gone = gone /\ Cardinality(gone) = Cardinality(old)
      BY <2>2, <2>3
    <3> HIDE DEF gone
    <3>2. IsFiniteSet(Held \ gone) /\ Cardinality(Held \ gone) = Cardinality(Held) - Cardinality(Held \cap gone)
      BY <1>3, FS_Difference
    <3> QED
      BY <3>1, <3>2 DEF gone
  <2>5. IsFiniteSet(Held') /\ Cardinality(Held') = Cardinality(rest) + Cardinality(new)
    <3>1. /\ IsFiniteSet(rest \cup ({d} \X new))
          /\ Cardinality(rest \cup ({d} \X new))
               = Cardinality(rest) + Cardinality({d} \X new) - Cardinality(rest \cap ({d} \X new))
      BY <2>3, <2>4, FS_Union
    <3>2. Cardinality(rest \cap ({d} \X new)) = 0 /\ Cardinality(rest) \in Nat
      BY <2>2, <2>4, FS_EmptySet, FS_CardinalityType
    <3> QED
      BY <1>2, <2>2, <2>3, <3>1, <3>2
  <2>6. /\ locationCount' = Cardinality(Held) - Cardinality(old) + Cardinality(new)
        /\ Cardinality(Held) - Cardinality(old) + Cardinality(new) <= MaxCachedLocations
    <3>1. Cardinality(Held) \in Nat
      BY <1>3, FS_CardinalityType
    <3> QED
      BY <1>2, <1>3, <1>5, <3>1 DEF CountAfter, AtLimit, CountsAssumption
  <2>7. locationCount' = Cardinality(Held') /\ locationCount' \in Nat
    BY <2>4, <2>5, <2>6, FS_CardinalityType
  <2> QED
    BY <2>5, <2>6, <2>7 DEF HeldOK, LocationsAccounted, Held
<1> QED
  BY <1>4, <1>5

LEMMA StoreTypes == ASSUME CountsAssumption, Types, HeldOK, NEW d \in Decl, Store(d) PROVE Types'
<1>1. UNCHANGED <<published, index, moved, shaped, pending, computing, resolver, edit, client, edits, missed>>
  BY DEF Store
<1>2. PublishedOK'
  BY <1>1 DEF Types, PublishedOK, published
<1>3. CacheOK'
  <2>1. uris' \subseteq File
    <3>1. search.found[d] \subseteq Places /\ uris \subseteq File
      BY StoreFields DEF FoundOK, Types, CacheOK
    <3>2. \A l \in search.found[d] : l[1] \in File
      BY <3>1, PlaceFile
    <3> QED
      BY <3>1, <3>2 DEF Store
  <2> QED
    BY <2>1, StoredCache, StoreHeld DEF CacheOK
<1>4. SearchShape'
  <2>1. unseen' \subseteq unseen \cup {d}
    BY DEF Store
  <2> QED
    BY <1>1, <2>1, StoreFields DEF Types, SearchShape
<1>5. ClientOK'
  <2>0. ClientOK /\ search'.by = search.by
    BY StoreFields DEF Types
  <2>1. worker' \in WorkerType /\ worker'.pc = worker.pc
    <3>1. PICK c \in BOOLEAN : c = (worker.changed \/ Changed(d, search.found[d]))
      OBVIOUS
    <3>2. worker' \in {worker, [worker EXCEPT !.changed = c]}
      BY <3>1 DEF Store
    <3> QED
      BY <2>0, <3>2 DEF WorkerType, ClientOK
  <2> QED
    BY <1>1, <2>0, <2>1 DEF ClientOK, client
<1> QED
  BY <1>2, <1>3, <1>4, <1>5 DEF Types

\* No search: what a step that ends one leaves.
LEMMA NoSearchType == ASSUME search' = NoSearch PROVE SearchFields' /\ SearchType' /\ Planned' = {}
<1>1. /\ DOMAIN NoSearch = Fields /\ NoSearch.pc = "none" /\ NoSearch.by = "none"
      /\ NoSearch.items = {} /\ NoSearch.plan = <<>> /\ NoSearch.invalidated = FALSE
  BY DEF NoSearch, Fields
<1>2. Planned' = {}
  BY <1>1 DEF Planned
<1>3. /\ DOMAIN search' = Fields /\ search'.pc = "none" /\ search'.by = "none"
      /\ search'.items = {} /\ search'.invalidated = FALSE
  BY <1>1
<1>4. SearchFields'
  BY <1>3 DEF SearchFields, SearchPc
<1>5. SearchType'
  BY <1>2, <1>3 DEF SearchType
<1> QED
  BY <1>2, <1>4, <1>5

LEMMA BeginType ==
  ASSUME NEW who \in {"worker", "resolver"}, NEW its \in SUBSET Items, BeginSearch(who, its)
  PROVE  /\ SearchFields' /\ SearchType' /\ Planned' = {} /\ search'.by = who /\ search'.pc = "plan"
         /\ moved' = FALSE /\ missed' = {}
<1>1. search' = [NoSearch EXCEPT !.by = who, !.pc = "plan", !.items = its] /\ moved' = FALSE /\ missed' = {}
  BY DEF BeginSearch
<1>2. /\ DOMAIN search' = Fields /\ search'.by = who /\ search'.pc = "plan" /\ search'.items = its
      /\ search'.plan = <<>> /\ search'.invalidated = FALSE
  BY <1>1 DEF NoSearch, Fields
<1>3. Planned' = {}
  BY <1>2 DEF Planned
<1>4. SearchFields'
  BY <1>2 DEF SearchFields, SearchPc
<1>5. SearchType'
  BY <1>2, <1>3 DEF SearchType
<1> QED
  BY <1>1, <1>2, <1>3, <1>4, <1>5

LEMMA EndTypes == ASSUME Types, EndSearch \/ Unwind PROVE Types'
<1>0. ClientOK /\ search' = NoSearch /\ NoSearch.by = "none" /\ moved' = FALSE /\ missed' = {} /\ unseen' = unseen
  BY DEF Types, EndSearch, Unwind, NoSearch
<1>1. UNCHANGED <<published, index, cached, shaped, computing, edit, edits>>
  BY DEF EndSearch, Unwind
<1>2. PublishedOK' /\ CacheOK'
  BY <1>1 DEF Types, PublishedOK, published, CacheOK, cached
<1>3. SearchShape'
  BY <1>0, NoSearchType DEF Types, SearchShape
<1>4. ClientOK'
  <2>a. worker \in WorkerType /\ (search.by = "worker" <=> worker.pc = "search")
    BY <1>0 DEF ClientOK
  <2>1. /\ worker' \in WorkerType
        /\ IF search.by = "worker" THEN worker'.pc \in {"check", "failed"} ELSE worker' = worker
    <3>1. PICK pc \in {"check", "failed"} :
            worker' = IF search.by = "worker" THEN [worker EXCEPT !.pc = pc] ELSE worker
      BY DEF EndSearch, Unwind
    <3> QED
      BY <2>a, <3>1 DEF WorkerType
  <2>2. /\ resolver' = IF search.by = "resolver" THEN NoResolve ELSE resolver
        /\ NoResolve \in ResolverType /\ NoResolve.pc = "idle"
    BY DEF EndSearch, Unwind, NoResolve, ResolverType
  <2>3. lens' \in [Decl -> {"none", "count", "pending", "lazy"}] /\ pending' \subseteq Items
    <3>1. CASE EndSearch
      BY <1>0, <3>1 DEF EndSearch, ClientOK
    <3>2. CASE Unwind
      BY <1>0, <3>2 DEF Unwind, ClientOK, client
    <3> QED
      BY <3>1, <3>2
  <2>b. computing' <=> worker'.pc # "idle"
    BY <1>0, <1>1, <2>a, <2>1 DEF ClientOK
  <2>c. search'.by = "none" /\ worker'.pc # "search"
    BY <1>0, <2>a, <2>1
  <2>d. /\ resolver' \in ResolverType /\ (resolver'.pc # "idle" => resolver'.decl \in Decl)
        /\ resolver'.pc # "search"
    BY <1>0, <2>2 DEF ClientOK
  <2> QED
    BY <2>1, <2>2, <2>3, <2>b, <2>c, <2>d DEF ClientOK
<1> QED
  BY <1>2, <1>3, <1>4 DEF Types

LEMMA ItemType == ASSUME Types, CountsAssumption, NEW d \in Decl PROVE ItemOf(d) \in Items
  BY DEF Types, PublishedOK, ItemOf, Items, CountsAssumption

LEMMA WorkTypes == ASSUME CountsAssumption, Types, Working PROVE Types'
<1>1. UNCHANGED <<published, index, cached, shaped, edit, edits, resolver, lens, pending, unseen>>
  BY DEF Working, Schedule, TakePending, Drained, NotDrained, Failed, client, history
<1>2. PublishedOK' /\ CacheOK'
  BY <1>1 DEF Types, PublishedOK, published, CacheOK, cached
<1>0. ClientOK /\ SearchShape
  BY DEF Types
<1>3. CASE ~TakePending \/ pending = {}
  <2>0. UNCHANGED <<search, moved, missed>>
    <3>1. CASE Schedule
      BY <3>1 DEF Schedule, history
    <3>2. CASE TakePending /\ pending = {}
      BY <3>2 DEF TakePending
    <3>3. CASE Drained
      BY <3>3 DEF Drained, history
    <3>4. CASE NotDrained
      BY <3>4 DEF NotDrained, history
    <3>5. CASE Failed
      BY <3>5 DEF Failed, history
    <3> QED
      BY <1>3, <3>1, <3>2, <3>3, <3>4, <3>5 DEF Working
  <2>1. SearchShape'
    BY <1>0, <1>1, <2>0 DEF SearchShape, SearchFields, SearchType, Planned
  <2>2. /\ worker' \in WorkerType /\ (computing' <=> worker'.pc # "idle")
        /\ worker'.pc # "search" => worker.pc # "search"
        /\ worker'.pc = "search" => worker.pc = "search"
    <3>0. worker \in WorkerType /\ (computing <=> worker.pc # "idle")
      BY <1>0 DEF ClientOK
    <3>1. CASE Schedule
      <4>1. CASE pending # {} /\ ~computing
        <5>1. computing' = TRUE /\ worker' = [pc |-> "pause", changed |-> FALSE]
          BY <3>1, <4>1 DEF Schedule
        <5> QED
          BY <3>0, <4>1, <5>1 DEF WorkerType
      <4>2. CASE ~(pending # {} /\ ~computing)
        <5>1. UNCHANGED <<computing, worker>>
          BY <3>1, <4>2 DEF Schedule
        <5> QED
          BY <3>0, <5>1
      <4> QED
        BY <4>1, <4>2
    <3>2. CASE TakePending
      BY <1>3, <3>0, <3>2 DEF TakePending, WorkerType
    <3>3. CASE Drained
      BY <3>0, <3>3 DEF Drained, Idle, WorkerType
    <3>4. CASE NotDrained
      BY <3>0, <3>4 DEF NotDrained, WorkerType
    <3>5. CASE Failed
      BY <3>0, <3>5 DEF Failed, Idle, WorkerType
    <3> QED
      BY <3>1, <3>2, <3>3, <3>4, <3>5 DEF Working
  <2>3. ClientOK'
    BY <1>0, <1>1, <2>0, <2>2 DEF ClientOK
  <2> QED
    BY <1>2, <2>1, <2>3 DEF Types
<1>4. CASE TakePending /\ pending # {}
  <2>1. /\ BeginSearch("worker", pending) /\ worker' = [worker EXCEPT !.pc = "search"]
        /\ worker.pc = "pause" /\ search.by = "none" /\ UNCHANGED computing
    BY <1>4 DEF TakePending
  <2>2. /\ SearchFields' /\ SearchType' /\ search'.by = "worker" /\ moved' = FALSE /\ missed' = {}
    BY <1>0, <2>1, BeginType DEF ClientOK
  <2>3. SearchShape'
    BY <1>0, <1>1, <2>2 DEF SearchShape
  <2>4. worker' \in WorkerType /\ worker'.pc = "search"
    BY <1>0, <2>1 DEF ClientOK, WorkerType
  <2>5. ClientOK'
    BY <1>0, <1>1, <2>1, <2>2, <2>4 DEF ClientOK
  <2> QED
    BY <1>2, <2>3, <2>5 DEF Types
<1> QED
  BY <1>3, <1>4

LEMMA ClientTypes == ASSUME CountsAssumption, Types, Resolving \/ PullLenses PROVE Types'
<1>1. UNCHANGED <<published, index, cached, shaped, edit, edits, worker, computing, unseen>>
  BY DEF Resolving, ResolveBegin, ResolveLocked, PullLenses, history
<1>2. PublishedOK' /\ CacheOK'
  BY <1>1 DEF Types, PublishedOK, published, CacheOK, cached
<1>0. ClientOK /\ SearchShape
  BY DEF Types
<1>3. \A d \in Decl : ItemOf(d) \in Items
  BY ItemType
<1>4. CASE PullLenses
  <2>1. /\ UNCHANGED <<search, moved, missed, resolver>> /\ pending' \subseteq Items
        /\ lens' \in [Decl -> {"none", "count", "pending", "lazy"}]
    BY <1>0, <1>3, <1>4 DEF PullLenses, history, ClientOK
  <2>2. SearchShape'
    BY <1>0, <1>1, <2>1 DEF SearchShape, SearchFields, SearchType, Planned
  <2>3. ClientOK'
    BY <1>0, <1>1, <2>1 DEF ClientOK
  <2> QED
    BY <1>2, <2>2, <2>3 DEF Types
<1>5. ASSUME NEW d \in Decl, ResolveBegin(d) PROVE Types'
  <2>1. /\ UNCHANGED <<search, moved, missed>> /\ pending' \subseteq Items
        /\ lens' \in [Decl -> {"none", "count", "pending", "lazy"}]
    BY <1>0, <1>3, <1>5 DEF ResolveBegin, history, ClientOK
  <2>2. /\ resolver' \in ResolverType /\ (resolver'.pc # "idle" => resolver'.decl \in Decl)
        /\ (resolver'.pc = "search" <=> resolver.pc = "search")
    BY <1>0, <1>5 DEF ResolveBegin, ClientOK, ResolverType
  <2>3. SearchShape'
    BY <1>0, <1>1, <2>1 DEF SearchShape, SearchFields, SearchType, Planned
  <2>4. ClientOK'
    BY <1>0, <1>1, <2>1, <2>2 DEF ClientOK
  <2> QED
    BY <1>2, <2>3, <2>4 DEF Types
<1>6. CASE ResolveLocked
  <2>1. /\ pending' = pending /\ resolver.pc = "lock" /\ search.by = "none" /\ resolver.decl \in Decl
        /\ lens' \in [Decl -> {"none", "count", "pending", "lazy"}]
    BY <1>0, <1>6 DEF ResolveLocked, ClientOK
  <2>2. CASE Ready(resolver.decl)
    <3>1. UNCHANGED <<search, moved, missed>> /\ resolver' = NoResolve
      BY <1>6, <2>2 DEF ResolveLocked
    <3>2. NoResolve \in ResolverType /\ NoResolve.pc = "idle"
      BY DEF NoResolve, ResolverType
    <3>3. SearchShape'
      BY <1>0, <1>1, <3>1 DEF SearchShape, SearchFields, SearchType, Planned
    <3>4. ClientOK'
      BY <1>0, <1>1, <2>1, <3>1, <3>2 DEF ClientOK
    <3> QED
      BY <1>2, <3>3, <3>4 DEF Types
  <2>3. CASE ~Ready(resolver.decl)
    <3>1. BeginSearch("resolver", {ItemOf(resolver.decl)}) /\ resolver' = [resolver EXCEPT !.pc = "search"]
      BY <1>6, <2>3 DEF ResolveLocked
    <3>2. /\ SearchFields' /\ SearchType' /\ search'.by = "resolver" /\ moved' = FALSE /\ missed' = {}
      BY <1>3, <2>1, <3>1, BeginType
    <3>3. SearchShape'
      BY <1>0, <1>1, <3>2 DEF SearchShape
    <3>4. ClientOK'
      BY <1>0, <1>1, <2>1, <3>1, <3>2 DEF ClientOK, ResolverType
    <3> QED
      BY <1>2, <3>3, <3>4 DEF Types
  <2> QED
    BY <2>2, <2>3
<1> QED
  BY <1>4, <1>5, <1>6 DEF Resolving

\* Marks keep the locations.
LEMMA HeldStays ==
  ASSUME HeldOK, locationCount' = locationCount, \A d \in Decl : cache'[d].locs = cache[d].locs
  PROVE  HeldOK'
  BY DEF HeldOK, LocationsAccounted, Held

LEMMA TypeStep == ASSUME CountsAssumption, Types, HeldOK, [Next]_vars PROVE Types' /\ HeldOK'
<1>1. CASE Markings
  <2>1. HeldOK'
    BY <1>1, EditMarks, HeldStays DEF Marking, Staler
  <2> QED
    BY <1>1, <2>1, MarkTypes
<1>2. CASE IndexWrite \/ EndEdit \/ \E k \in Kinds, f \in Edited, t \in Text : Publish(k, f, t)
  <2>1. UNCHANGED <<cache, locationCount>>
    BY <1>2 DEF IndexWrite, EndEdit, Publish, cached
  <2> QED
    BY <1>2, <2>1, EditTypes, HeldStays
<1>3. CASE Plan \/ ReadIndex \/ ReadMaps \/ SettleReceivers \/ CompareEpoch
  <2>1. UNCHANGED <<cache, locationCount>>
    BY <1>3 DEF Plan, ReadIndex, ReadMaps, SettleReceivers, CompareEpoch, cached
  <2> QED
    BY <1>3, <2>1, ReadTypes, HeldStays
<1>4. ASSUME NEW d \in Decl, Store(d) PROVE Types' /\ HeldOK'
  BY <1>4, StoreTypes, StoreHeld
<1>5. CASE EndSearch \/ Unwind
  <2>1. UNCHANGED <<cache, locationCount>>
    BY <1>5 DEF EndSearch, Unwind, cached
  <2> QED
    BY <1>5, <2>1, EndTypes, HeldStays
<1>6. CASE Working
  <2>1. UNCHANGED <<cache, locationCount>>
    BY <1>6 DEF Working, Schedule, TakePending, Drained, NotDrained, Failed, cached
  <2> QED
    BY <1>6, <2>1, WorkTypes, HeldStays
<1>7. CASE Resolving \/ PullLenses
  <2>1. UNCHANGED <<cache, locationCount>>
    BY <1>7 DEF Resolving, ResolveBegin, ResolveLocked, PullLenses, cached
  <2> QED
    BY <1>7, <2>1, ClientTypes, HeldStays
<1>8. CASE UNCHANGED vars
  <2>1. UNCHANGED <<text, edits, sig, at, index, shaped, edit, cache, locationCount, uris, search, moved,
                    missed, unseen, worker, computing, resolver, lens, pending>>
    BY <1>8 DEF vars, published, cached, client, history
  <2>2. PublishedOK' /\ CacheOK' /\ ClientOK' /\ HeldOK'
    BY <2>1 DEF Types, PublishedOK, CacheOK, ClientOK, HeldOK, LocationsAccounted, Held
  <2>3. SearchShape'
    BY <2>1 DEF Types, SearchShape, SearchFields, SearchType, Planned
  <2> QED
    BY <2>2, <2>3 DEF Types
<1> QED
  BY <1>1, <1>2, <1>3, <1>4, <1>5, <1>6, <1>7, <1>8 DEF Next, Editing, Searching, Markings

LEMMA TypesHold == Spec => [](Types /\ HeldOK)
<1>1. Init => Types /\ HeldOK
  <2> SUFFICES ASSUME Init PROVE Types /\ HeldOK
    OBVIOUS
  <2>1. Held = {}
    BY DEF Init, Held, NoEntry
  <2> QED
    <3>1. IsFiniteSet(Held) /\ Cardinality(Held) = 0 /\ locationCount = 0 /\ MaxCachedLocations \in Nat
      BY <2>1, CountsAssumption, FS_EmptySet DEF Init, CountsAssumption
    <3>2. HeldOK
      BY <3>1 DEF HeldOK, LocationsAccounted, Held
    <3> QED
      BY <3>2, InitTypes, CountsAssumption
<1>2. Types /\ HeldOK /\ [Next]_vars => Types' /\ HeldOK'
  BY TypeStep, CountsAssumption
<1> QED
  BY <1>1, <1>2, PTL DEF Spec

\* Every variable keeps its shape, a search has an owner that is in it, and the
\* flag is up while the one background worker lives.
THEOREM TypeCorrect == Spec => []TypeOK
<1>1. Types => TypeOK
  <2> SUFFICES ASSUME Types PROVE TypeOK
    OBVIOUS
  <2>1. sig \in 0..MaxEdits /\ at \in [Decl -> 0..MaxEdits]
    BY CountsAssumption DEF Types, PublishedOK, CountsAssumption
  <2> QED
    BY <2>1 DEF Types, PublishedOK, CacheOK, SearchShape, SearchFields, ClientOK, TypeOK
<1> QED
  BY <1>1, TypesHold, PTL

\* The locations the limit is checked against are those the entries hold,
\* through stores that replace an entry, keep no locations or drop the cache
\* (MemberRefCounts::store), and stay under the limit.
THEOREM LocationsAreCounted == Spec => []LocationsAccounted
<1>1. HeldOK => LocationsAccounted
  BY DEF HeldOK
<1> QED
  BY <1>1, TypesHold, PTL

----------------------------------------------------------------------------
(* What is fresh is current.                                               *)

\* How far the publication is: has it yet to mark the locations in its file,
\* yet to replace the file's entries of the index; does it keep no books?
Active     == edit.pc # "idle"
SigOwed    == edit.pc \in {"signature", "signature mark"}
EarlyPc    == {"signature", "signature mark", "track", "shape mark"}
BeforeMark == \/ edit.pc \in EarlyPc \cup {"locations"}
              \/ edit.kind = "evict" /\ edit.pc = "index"
BeforeIndex == \/ edit.pc \in EarlyPc \cup {"index"}
               \/ edit.kind # "evict" /\ edit.pc = "locations"
Unbooked == edit.pc \in {"shape mark", "locations", "index", "members"} /\ ~edit.track

\* The name of d is one the publication has yet to invalidate.
Renamed(d) == IF BeforeIndex THEN (d \in index[edit.file]) # (text[edit.file][d] # 0)
              ELSE d \in edit.names
NameOwed(d, g) == Active /\ g = edit.file /\ (Unbooked \/ Renamed(d))
MarkOwed(g)    == Active /\ g = edit.file /\ BeforeMark

\* The locations in one file, and what they are for the place p.
At(locs, g) == {l \in locs : l[1] = g}
Loc(g, p)   == IF p = 0 THEN {} ELSE {<<g, p, sig>>}

\* The place an entry has in g is the one that is published, or the entry is
\* stale there, or the publication in progress will find it.
StaleIn(d, g) == cache[d].stale.all \/ g \in cache[d].stale.files
EntryPlace(d, g, p) == p = text[g][d] \/ NameOwed(d, g) \/ (p # 0 /\ MarkOwed(g))
EntryAt(d, g) == StaleIn(d, g) \/ \E p \in Nat : At(cache[d].locs, g) = Loc(g, p) /\ EntryPlace(d, g, p)
CountOwed(d) == Active /\ (Unbooked \/ Renamed(d) \/ BeforeMark)
EntryRight(d) ==
    Present(d) /\ d \notin unseen /\ ~SigOwed =>
        /\ cache[d].kept => \A g \in File : EntryAt(d, g)
        /\ ~cache[d].kept /\ IsFresh(d) => cache[d].count = Cardinality(Accesses(d)) \/ CountOwed(d)

\* So is the place a search has: an access that is no longer there is found
\* through the entry, unless what is stored over the entry stays stale.
Uncovered(d, g) == ~Present(d) \/ StaleIn(d, g) \/ d \in unseen
Found(d, g) == Uncovered(d, g) \/ ~cache[d].kept \/ At(cache[d].locs, g) # {}
SearchPlace(d, g, p) ==
    p = text[g][d] \/ NameOwed(d, g) \/ (p # 0 /\ MarkOwed(g) /\ Found(d, g))

\* The place the search has, and what it has yet to read.
Collected == search.pc \in {"compare", "store"}
Rescans(d, g) == g \in search.plan[d].rescan
Has(d, g, p) ==
    \/ Collected /\ At(search.found[d], g) = Loc(g, p)
    \/ ~Collected /\ ~Rescans(d, g) /\ At(search.plan[d].keep, g) = Loc(g, p)
    \/ search.pc = "maps" /\ Rescans(d, g) /\ g \notin search.candidates[d] /\ p = 0
    \/ /\ search.pc = "receivers" /\ Rescans(d, g)
       /\ p = IF g \in search.candidates[d] THEN search.maps[g][d] ELSE 0
Unread(d, g) ==
    /\ Rescans(d, g)
    /\ search.pc = "candidates" \/ (search.pc = "maps" /\ g \in search.candidates[d])
SearchAt(d, g) == Unread(d, g) \/ \E p \in Nat : Has(d, g, p) /\ SearchPlace(d, g, p)

\* The result will be told from a current one: the entry it is stored over
\* stays stale, or it joins `unseen'.
Doubt(d) == IF search.pc = "store" THEN search.invalidated ELSE moved \/ d \in missed
Partly(d) == search.plan[d].rescan # File
Stored(d) == search.pc = "store" /\ (d \notin DOMAIN search.found \/ (~search.invalidated /\ d \in missed))
SearchRight(d) ==
    \/ edit.pc = "signature"
    \/ edit.pc = "signature mark" /\ Doubt(d)
    \/ Stored(d)
    \/ d \in unseen /\ (Partly(d) \/ Doubt(d))
    \/ \A g \in File :
          \/ SearchAt(d, g)
          \/ Doubt(d) /\ Uncovered(d, g)
          \/ edit.pc = "signature mark" /\ ~Rescans(d, g)

EditRight  == edit.pc \in {"signature", "signature mark", "shape mark"} => edit.kind # "evict"
IndexRight == \A g \in File : index[g] = Named(g) \/ (Active /\ BeforeIndex /\ g = edit.file)
KeepsApart == \A d \in Planned : \A l \in search.plan[d].keep : l[1] \notin search.plan[d].rescan
Counted    == \A d \in Decl : cache[d].kept => cache[d].count = Cardinality(cache[d].locs)
FreshInv ==
    /\ EditRight /\ IndexRight /\ KeepsApart /\ Counted
    /\ \A d \in Decl : EntryRight(d)
    /\ \A d \in Planned : SearchRight(d)

LEMMA FreshInit == ASSUME CountsAssumption, Init PROVE FreshInv
<1>1. Planned = {} /\ edit.pc = "idle"
  BY DEF Init, NoSearch, Planned, NoEdit
<1>2. \A d \in Decl : ~cache[d].present /\ ~cache[d].kept
  BY DEF Init, NoEntry
<1>3. IndexRight
  BY DEF Init, IndexRight, Named
<1> QED
  BY <1>1, <1>2, <1>3 DEF FreshInv, EditRight, KeepsApart, Counted, EntryRight, Present

\* What is there for every file is what a full search would find.
LEMMA AllFound ==
  ASSUME NEW d \in Decl, NEW L \in SUBSET Places, \A g \in File : At(L, g) = Loc(g, text[g][d])
  PROVE  L = Accesses(d)
<1>1. ASSUME NEW l \in L PROVE l \in Accesses(d)
  <2>1. l[1] \in File /\ l \in At(L, l[1])
    BY PlaceFile DEF At
  <2> QED
    BY <2>1 DEF Loc, Accesses
<1>2. ASSUME NEW l \in Accesses(d) PROVE l \in L
  <2>1. PICK g \in File : text[g][d] # 0 /\ l = <<g, text[g][d], sig>>
    BY DEF Accesses
  <2>2. l \in At(L, g)
    BY <2>1 DEF Loc
  <2> QED
    BY <2>2 DEF At
<1> QED
  BY <1>1, <1>2

\* A step that is no concern of the cache, the publication or the search.
LEMMA FreshElsewhere ==
  ASSUME FreshInv, UNCHANGED <<text, sig, index, cache, unseen, edit, search, moved, missed>>
  PROVE  FreshInv'
<1>1. /\ EditRight' /\ IndexRight' /\ KeepsApart' /\ Counted' /\ Planned' = Planned
  BY DEF FreshInv, EditRight, IndexRight, Active, BeforeIndex, EarlyPc, Named, KeepsApart, Planned, Counted
<1>2. \A d : EntryRight(d)' <=> EntryRight(d)
  BY DEF EntryRight, Present, SigOwed, EntryAt, StaleIn, At, Loc, EntryPlace, NameOwed, Active, Unbooked,
         Renamed, BeforeIndex, EarlyPc, MarkOwed, BeforeMark, IsFresh, Accesses, CountOwed
<1>3. \A d : SearchRight(d)' <=> SearchRight(d)
  <2>1. /\ \A d : Doubt(d)' <=> Doubt(d)
        /\ \A d : Partly(d)' <=> Partly(d)
        /\ \A d : Stored(d)' <=> Stored(d)
        /\ \A d, g : Rescans(d, g)' <=> Rescans(d, g)
        /\ \A d, g : Uncovered(d, g)' <=> Uncovered(d, g)
    BY DEF Doubt, Partly, Stored, Rescans, Uncovered, Present, StaleIn
  <2>2. \A d, g : SearchAt(d, g)' <=> SearchAt(d, g)
    <3>1. \A d, g, p : /\ Has(d, g, p)' <=> Has(d, g, p)
                       /\ SearchPlace(d, g, p)' <=> SearchPlace(d, g, p)
      BY DEF Has, Collected, Rescans, Loc, At, SearchPlace, NameOwed, Active, Unbooked, Renamed, BeforeIndex,
             EarlyPc, MarkOwed, BeforeMark, Found, Uncovered, Present, StaleIn
    <3> QED
      BY <3>1 DEF SearchAt, Unread, Rescans
  <2> QED
    BY <2>1, <2>2 DEF SearchRight
<1> QED
  BY <1>1, <1>2, <1>3 DEF FreshInv

----------------------------------------------------------------------------
\* Entries under a publication: they keep what they hold and grow staler, so
\* each place in an entry has to stay published, owed or stale, and each
\* number right or owed.
LEMMA EntryKept ==
  ASSUME NEW d \in Decl, EntryRight(d), ~SigOwed, sig' = sig,
         cache[d] \in Entry, Staler(cache[d], cache'[d]), unseen \subseteq unseen',
         \A g \in File, p \in Nat :
            cache[d].kept /\ At(cache[d].locs, g) = Loc(g, p) /\ EntryPlace(d, g, p)
               => EntryPlace(d, g, p)' \/ StaleIn(d, g)',
         ~cache[d].kept /\ Present(d) => CountOwed(d)' \/ ~IsFresh(d)'
            \/ (~CountOwed(d) /\ Accesses(d)' = Accesses(d))
  PROVE  EntryRight(d)'
<1> SUFFICES ASSUME Present(d)', d \notin unseen'
    PROVE  /\ cache'[d].kept => \A g \in File : EntryAt(d, g)'
           /\ ~cache'[d].kept /\ IsFresh(d)' => cache'[d].count = Cardinality(Accesses(d)') \/ CountOwed(d)'
  BY DEF EntryRight
<1>1. Present(d) /\ d \notin unseen /\ cache'[d].kept = cache[d].kept /\ cache'[d].locs = cache[d].locs
      /\ cache'[d].count = cache[d].count
  BY DEF Present, Staler
<1>2. \A g : StaleIn(d, g) => StaleIn(d, g)'
  BY DEF StaleIn, Staler
<1>3. IsFresh(d)' => IsFresh(d)
  BY <1>1 DEF IsFresh, Staler, Entry, Staleness, FreshMark, Present
<1>4. ASSUME cache'[d].kept, NEW g \in File PROVE EntryAt(d, g)'
  <2>1. EntryAt(d, g)
    BY <1>1, <1>4 DEF EntryRight
  <2>2. CASE StaleIn(d, g)
    BY <1>2, <2>2 DEF EntryAt
  <2>3. ASSUME NEW p \in Nat, At(cache[d].locs, g) = Loc(g, p), EntryPlace(d, g, p) PROVE EntryAt(d, g)'
    <3>1. EntryPlace(d, g, p)' \/ StaleIn(d, g)'
      BY <1>1, <1>4, <2>3
    <3>2. At(cache'[d].locs, g) = Loc(g, p)'
      BY <1>1, <2>3 DEF Loc
    <3> QED
      BY <3>1, <3>2 DEF EntryAt, At
  <2> QED
    BY <2>1, <2>2, <2>3 DEF EntryAt
<1>5. ASSUME ~cache'[d].kept, IsFresh(d)' PROVE cache'[d].count = Cardinality(Accesses(d)') \/ CountOwed(d)'
  BY <1>1, <1>3, <1>5 DEF EntryRight
<1> QED
  BY <1>4, <1>5

\* What a search has under a publication: the same, unless what is stored
\* over the entry stays stale or the result is one no invalidation reached.
LEMMA SearchKept ==
  ASSUME NEW d \in Decl, SearchRight(d), ~SigOwed, ~SigOwed', UNCHANGED <<sig, search>>,
         moved => moved', missed \subseteq missed', unseen \subseteq unseen',
         \A g \in File : Uncovered(d, g) => Uncovered(d, g)',
         \A g \in File, p \in Nat :
            ~Stored(d) /\ Has(d, g, p) /\ SearchPlace(d, g, p)
               => SearchPlace(d, g, p)' \/ (Doubt(d)' /\ Uncovered(d, g)') \/ Stored(d)'
  PROVE  SearchRight(d)'
<1>1. Stored(d) => Stored(d)'
  BY DEF Stored
<1>2. Doubt(d) => Doubt(d)'
  BY DEF Doubt
<1>3. d \in unseen /\ (Partly(d) \/ Doubt(d)) => d \in unseen' /\ (Partly(d)' \/ Doubt(d)')
  BY <1>2 DEF Partly
<1>4. \A g, p : /\ Has(d, g, p) => Has(d, g, p)'
                /\ Unread(d, g) => Unread(d, g)'
  BY DEF Has, Unread, Collected, Rescans, Loc
<1>5. ASSUME ~Stored(d), ~Stored(d)', NEW g \in File, SearchAt(d, g) \/ (Doubt(d) /\ Uncovered(d, g))
      PROVE  SearchAt(d, g)' \/ (Doubt(d)' /\ Uncovered(d, g)')
  <2>1. CASE Unread(d, g) \/ (Doubt(d) /\ Uncovered(d, g))
    BY <1>2, <1>4, <2>1 DEF SearchAt
  <2>2. ASSUME NEW p \in Nat, Has(d, g, p), SearchPlace(d, g, p)
        PROVE  SearchAt(d, g)' \/ (Doubt(d)' /\ Uncovered(d, g)')
    <3>1. SearchPlace(d, g, p)' \/ (Doubt(d)' /\ Uncovered(d, g)')
      BY <1>5, <2>2
    <3> QED
      BY <1>4, <2>2, <3>1 DEF SearchAt
  <2> QED
    BY <1>5, <2>1, <2>2 DEF SearchAt
<1>6. \/ Stored(d)
      \/ d \in unseen /\ (Partly(d) \/ Doubt(d))
      \/ \A g \in File : SearchAt(d, g) \/ (Doubt(d) /\ Uncovered(d, g))
  BY DEF SearchRight, SigOwed
<1> QED
  BY <1>1, <1>3, <1>5, <1>6 DEF SearchRight

\* An invalidation that is about d reaches its result, or is known not to.
LEMMA Doubted ==
  ASSUME search' = search, NEW d \in Planned, SearchType,
         IF search.pc = "store" THEN d \in DOMAIN search.found => d \in missed' ELSE moved' \/ d \in missed'
  PROVE  Doubt(d)' \/ Stored(d)'
  BY DEF Doubt, Stored

LEMMA StalerUncovers ==
  ASSUME NEW d \in Decl, Staler(cache[d], cache'[d]), unseen \subseteq unseen', NEW g
  PROVE  Uncovered(d, g) => Uncovered(d, g)'
  BY DEF Uncovered, Present, StaleIn, Staler

----------------------------------------------------------------------------
\* The steps of a publication.

LEMMA PublishFresh ==
  ASSUME CountsAssumption, Types, FreshInv, NEW k \in Kinds, NEW f \in Edited, NEW t \in Text, Publish(k, f, t)
  PROVE  FreshInv'
<1>1. /\ UNCHANGED <<index, cache, unseen, search, moved, missed>> /\ edit.pc = "idle" /\ Planned' = Planned
      /\ text' = [text EXCEPT ![f] = t] /\ f \in File /\ text \in [File -> Text]
      /\ edit'.kind = k /\ edit'.file = f /\ ~edit'.track
      /\ edit'.pc = IF k \in {"signature", "shape"} THEN "signature" ELSE "track"
      /\ sig' = IF k \in {"signature", "shape"} THEN sig + 1 ELSE sig
  BY DEF Publish, cached, history, Planned, CountsAssumption, Types, PublishedOK
<1>2. text'[f] = t /\ \A g \in File \ {f} : text'[g] = text[g]
  BY <1>1
<1>3. /\ index[f] = Named(f) /\ Active' /\ BeforeIndex' /\ BeforeMark'
      /\ \A g \in File : index[g] = Named(g)
  BY <1>1 DEF FreshInv, IndexRight, Active, BeforeIndex, BeforeMark, EarlyPc
<1>4. EditRight' /\ IndexRight' /\ KeepsApart' /\ Counted'
  <2>1. IndexRight'
    BY <1>1, <1>2, <1>3 DEF IndexRight, Named
  <2> QED
    BY <1>1, <2>1 DEF FreshInv, EditRight, KeepsApart, Counted
<1>5. CASE k \in {"signature", "shape"}
  BY <1>1, <1>4, <1>5 DEF FreshInv, EntryRight, SearchRight, SigOwed
<1>6. CASE k \notin {"signature", "shape"}
  <2>1. sig' = sig /\ ~SigOwed /\ ~SigOwed' /\ edit'.pc = "track"
    BY <1>1, <1>6 DEF SigOwed
  <2>2. ASSUME NEW d \in Decl, NEW p \in Nat, NEW g \in File, p = text[g][d]
        PROVE  \/ p = text'[g][d] \/ NameOwed(d, g)' \/ (p # 0 /\ MarkOwed(g)')
    <3>1. CASE g = f /\ p = 0 /\ t[d] # 0
      <4>1. d \notin index[f]
        BY <1>3, <2>2, <3>1 DEF Named
      <4> QED
        BY <1>1, <1>2, <1>3, <3>1, <4>1 DEF NameOwed, Renamed
    <3>2. CASE g = f /\ p # 0
      BY <1>1, <1>3, <3>2 DEF MarkOwed
    <3> QED
      BY <1>2, <2>2, <3>1, <3>2
  <2>3. \A d \in Decl, g \in File, p \in Nat : EntryPlace(d, g, p) \/ SearchPlace(d, g, p) => p = text[g][d]
    BY <1>1 DEF EntryPlace, SearchPlace, NameOwed, MarkOwed, Active
  <2>4. \A d \in Decl : cache[d] \in Entry /\ Staler(cache[d], cache'[d])
    BY <1>1, StalerSelf DEF Types, CacheOK
  <2>5. ASSUME NEW d \in Decl PROVE EntryRight(d)'
    <3>1. \A g \in File, p \in Nat : EntryPlace(d, g, p) => EntryPlace(d, g, p)'
      BY <2>2, <2>3 DEF EntryPlace
    <3>2. CountOwed(d)'
      BY <1>3 DEF CountOwed
    <3>3. EntryRight(d)
      BY DEF FreshInv
    <3> QED
      BY <1>1, <2>1, <2>4, <3>1, <3>2, <3>3, EntryKept
  <2>6. ASSUME NEW d \in Planned PROVE SearchRight(d)'
    <3>0. d \in Decl
      BY PlannedDecl DEF Types
    <3>1. ASSUME NEW g \in File PROVE Found(d, g)' \/ text[g][d] = 0
      <4>1. Uncovered(d, g)' <=> Uncovered(d, g)
        BY <1>1 DEF Uncovered, Present, StaleIn
      <4>2. CASE ~Uncovered(d, g) /\ cache[d].kept
        <5>1. EntryAt(d, g) /\ ~StaleIn(d, g)
          BY <2>1, <3>0, <4>2 DEF FreshInv, EntryRight, Uncovered
        <5>2. At(cache[d].locs, g) = Loc(g, text[g][d])
          BY <2>3, <3>0, <5>1 DEF EntryAt
        <5> QED
          BY <1>1, <5>2 DEF Found, Loc
      <4> QED
        BY <1>1, <4>1, <4>2 DEF Found
    <3>2. ASSUME NEW g \in File, NEW p \in Nat, SearchPlace(d, g, p) PROVE SearchPlace(d, g, p)'
      <4>1. p = text[g][d]
        BY <2>3, <3>0, <3>2
      <4> QED
        BY <2>2, <3>0, <3>1, <4>1 DEF SearchPlace
    <3>3. \A g \in File : Uncovered(d, g) => Uncovered(d, g)'
      BY <1>1 DEF Uncovered, Present, StaleIn
    <3>4. SearchRight(d)
      BY DEF FreshInv
    <3> QED
      BY <1>1, <2>1, <3>0, <3>2, <3>3, <3>4, SearchKept
  <2> QED
    BY <1>1, <1>4, <2>5, <2>6 DEF FreshInv
<1> QED
  BY <1>5, <1>6

LEMMA BumpFresh == ASSUME CountsAssumption, Types, FreshInv, SignatureBump PROVE FreshInv'
<1>1. /\ UNCHANGED <<text, sig, index, unseen, search>> /\ Planned' = Planned /\ edit.pc = "signature"
      /\ edit'.kind = edit.kind /\ edit'.file = edit.file
      /\ edit'.pc = (IF Empty THEN "track" ELSE "signature mark")
  BY DEF SignatureBump, Invalidate, published, Planned, Types, PublishedOK, EditType
<1>2. cache' = cache /\ missed' = missed \cup Unreached(Decl, moved')
  BY DEF SignatureBump, Invalidate, Types, CacheOK
<1>3. EditRight' /\ IndexRight' /\ KeepsApart' /\ Counted'
  BY <1>1, <1>2 DEF FreshInv, EditRight, IndexRight, Named, Active, BeforeIndex, EarlyPc, KeepsApart, Counted
<1>4. ASSUME NEW d \in Decl PROVE EntryRight(d)'
  BY <1>1, <1>2, <1>4 DEF EntryRight, SigOwed, Empty, Present
<1>5. ASSUME NEW d \in Planned PROVE SearchRight(d)'
  <2>0. d \in Decl /\ SearchType
    BY PlannedDecl DEF Types, SearchShape
  <2>1. Doubt(d)' \/ Stored(d)'
    BY <1>1, <1>2, <2>0, Doubted DEF Unreached, Planned
  <2>2. Empty => \A g \in File : Uncovered(d, g)'
    BY <1>2, <2>0 DEF Empty, Uncovered, Present
  <2> QED
    BY <1>1, <2>1, <2>2 DEF SearchRight
<1> QED
  BY <1>1, <1>3, <1>4, <1>5 DEF FreshInv

\* The parts a step that marks entries carries over.
LEMMA MarkedParts ==
  ASSUME CountsAssumption, Types, FreshInv, Markings
  PROVE  /\ UNCHANGED <<text, sig, index, search, unseen>> /\ Planned' = Planned
         /\ edit'.file = edit.file /\ edit'.kind = edit.kind /\ edit.file \in File
         /\ KeepsApart' /\ Counted' /\ (moved => moved') /\ missed \subseteq missed'
         /\ \A d \in Decl : /\ cache[d] \in Entry /\ Staler(cache[d], cache'[d])
                            /\ \A g : Uncovered(d, g) => Uncovered(d, g)'
         /\ SearchType /\ \A d \in Planned : d \in Decl /\ SearchRight(d)
         /\ \A d \in Decl : EntryRight(d)
<1>1. Marking /\ SearchType
  BY EditMarks DEF Types, SearchShape
<1>2. /\ UNCHANGED <<text, sig, index>> /\ edit'.file = edit.file /\ edit'.kind = edit.kind
  <2>0. edit \in EditType
    BY DEF Types, PublishedOK
  <2>1. ASSUME NEW d \in Decl, InvalidateMember(d)
        PROVE  UNCHANGED <<text, sig, index>> /\ edit'.file = edit.file /\ edit'.kind = edit.kind
    BY <2>0, <2>1 DEF InvalidateMember, published, EditType
  <2> QED
    BY <2>0, <2>1 DEF Markings, SignatureBump, SignatureMark, Track, ShapeMark, InvalidateLocationsIn, published,
                      EditType
<1>3. \A d \in Decl : cache[d] \in Entry /\ Staler(cache[d], cache'[d])
  BY <1>1 DEF Types, CacheOK, Marking
<1>4. \A d \in Decl : \A g : Uncovered(d, g) => Uncovered(d, g)'
  BY <1>1, <1>3, StalerUncovers DEF Marking
<1>5. KeepsApart' /\ Counted' /\ Planned' = Planned
  BY <1>1, <1>3 DEF Marking, Staler, FreshInv, KeepsApart, Counted, Planned
<1>6. edit.file \in File
  BY EditMarks DEF Types, PublishedOK, CountsAssumption
<1>7. \A d \in Planned : d \in Decl /\ SearchRight(d)
  BY PlannedDecl DEF FreshInv, Types
<1> QED
  BY <1>1, <1>2, <1>3, <1>4, <1>5, <1>6, <1>7 DEF Marking, FreshInv

LEMMA MarkEveryFresh == ASSUME CountsAssumption, Types, FreshInv, SignatureMark PROVE FreshInv'
<1> DEFINE partly == {d \in Planned : search.plan[d].rescan # File}
<1>1. /\ edit.pc = "signature mark" /\ edit'.pc = "track"
      /\ moved' = moved /\ missed' = missed \cup Unreached(partly, moved')
      /\ \A d \in Decl : Present(d) => cache'[d] = MarkEverywhere(cache[d])
      /\ \A d \in Decl : ~Present(d) => cache'[d] = cache[d]
  BY DEF SignatureMark, Invalidate, Holders, Planned, Types, PublishedOK, EditType, SearchShape
<1>2. Markings
  BY DEF Markings
<1>3. EditRight' /\ IndexRight'
  <2>1. IndexRight /\ UNCHANGED <<text, index>> /\ edit'.file = edit.file
    BY <1>2, MarkedParts DEF FreshInv
  <2> QED
    BY <1>1, <2>1 DEF EditRight, IndexRight, Named, Active, BeforeIndex, EarlyPc
<1>4. \A d \in Decl : Present(d)' => cache'[d].stale.all
  <2>1. \A d \in Decl : cache[d] \in Entry /\ MarkEverywhere(cache[d]).stale.all
    BY <1>2, MarkedParts, StalerMarks
  <2> QED
    BY <1>1, <2>1 DEF Present
<1>5. ASSUME NEW d \in Decl PROVE EntryRight(d)'
  BY <1>4 DEF EntryRight, EntryAt, StaleIn, IsFresh, FreshMark
<1>6. ASSUME NEW d \in Planned PROVE SearchRight(d)'
  <2>0. d \in Decl /\ SearchRight(d) /\ SearchType /\ search' = search /\ text' = text /\ sig' = sig
        /\ missed \subseteq missed' /\ unseen' = unseen
    BY <1>2, MarkedParts
  <2>1. \A g : Uncovered(d, g)'
    BY <1>4, <2>0 DEF Uncovered, StaleIn
  <2>2. CASE Doubt(d)' \/ Stored(d)'
    BY <2>1, <2>2 DEF SearchRight
  <2>3. CASE ~Doubt(d)' /\ ~Stored(d)'
    <3>1. ~Partly(d)
      <4>1. CASE search.pc = "store"
        BY <1>1, <2>0, <2>3, <4>1 DEF Doubt, Stored, Unreached, Partly, Planned
      <4>2. CASE search.pc # "store"
        BY <1>1, <2>0, <2>3, <4>2 DEF Doubt, Unreached, Partly, Planned
      <4> QED
        BY <4>1, <4>2
    <3>2. ~Doubt(d) /\ ~Stored(d)
      BY <1>1, <2>0, <2>3 DEF Doubt, Stored
    <3>3. \A g \in File : SearchAt(d, g)
      BY <1>1, <2>0, <3>1, <3>2 DEF SearchRight, Partly, Rescans
    <3>4. ASSUME NEW g \in File PROVE SearchAt(d, g)'
      <4>1. CASE Unread(d, g)
        BY <2>0, <4>1 DEF SearchAt, Unread, Rescans
      <4>2. ASSUME NEW p \in Nat, Has(d, g, p), SearchPlace(d, g, p) PROVE SearchAt(d, g)'
        <5>1. Has(d, g, p)'
          BY <2>0, <4>2 DEF Has, Collected, Rescans, Loc
        <5>2. SearchPlace(d, g, p)'
          BY <1>1, <1>2, MarkedParts, <2>0, <2>1, <4>2
             DEF SearchPlace, NameOwed, MarkOwed, Active, Unbooked, Renamed, BeforeIndex, BeforeMark, EarlyPc, Found
        <5> QED
          BY <5>1, <5>2 DEF SearchAt
      <4> QED
        BY <3>3, <4>1, <4>2 DEF SearchAt
    <3> QED
      BY <3>4 DEF SearchRight
  <2> QED
    BY <2>2, <2>3
<1> QED
  BY <1>2, <1>3, <1>5, <1>6, MarkedParts DEF FreshInv

\* Where what is owed stays owed, entries and the search are as right as they were.
OwedStays == /\ ~SigOwed /\ ~SigOwed'
             /\ \A d, g : NameOwed(d, g) => NameOwed(d, g)'
             /\ \A g : MarkOwed(g) => MarkOwed(g)'
             /\ \A d : CountOwed(d) => CountOwed(d)'
LEMMA OwedFresh ==
  ASSUME CountsAssumption, Types, FreshInv, Markings, EditRight', IndexRight', OwedStays
  PROVE  FreshInv'
<1>1. ASSUME NEW d \in Decl PROVE EntryRight(d)'
  <2>1. EntryRight(d) /\ sig' = sig /\ cache[d] \in Entry /\ Staler(cache[d], cache'[d])
        /\ unseen' = unseen /\ text' = text
    BY MarkedParts
  <2>2. \A g \in File, p \in Nat : EntryPlace(d, g, p) => EntryPlace(d, g, p)'
    BY <2>1 DEF EntryPlace, OwedStays
  <2>3. Accesses(d)' = Accesses(d)
    BY <2>1 DEF Accesses
  <2>4. CountOwed(d)' \/ (~CountOwed(d) /\ Accesses(d)' = Accesses(d))
    BY <2>3 DEF OwedStays
  <2> QED
    BY <2>1, <2>2, <2>4, EntryKept DEF OwedStays
<1>2. ASSUME NEW d \in Planned PROVE SearchRight(d)'
  <2>1. /\ d \in Decl /\ SearchRight(d) /\ UNCHANGED <<text, sig, search>> /\ Staler(cache[d], cache'[d])
        /\ (moved => moved') /\ missed \subseteq missed' /\ unseen \subseteq unseen'
        /\ \A g : Uncovered(d, g) => Uncovered(d, g)'
    BY MarkedParts
  <2>2. ASSUME NEW g \in File, NEW p \in Nat, SearchPlace(d, g, p) PROVE SearchPlace(d, g, p)'
    <3>1. Found(d, g) => Found(d, g)'
      BY <2>1 DEF Found, Staler
    <3> QED
      BY <2>1, <2>2, <3>1 DEF SearchPlace, OwedStays
  <2> QED
    BY <2>1, <2>2, SearchKept DEF OwedStays
<1> QED
  BY <1>1, <1>2, MarkedParts DEF FreshInv

LEMMA TrackFresh == ASSUME CountsAssumption, Types, FreshInv, Track \/ ShapeMark PROVE FreshInv'
<1>0. Markings
  BY DEF Markings
<1>1. UNCHANGED <<text, index>> /\ edit'.file = edit.file /\ edit'.kind = edit.kind /\ EditRight
  BY <1>0, MarkedParts DEF FreshInv
<1>2. EditRight' /\ IndexRight' /\ OwedStays
  <2>1. CASE Track
    <3>1. /\ edit.pc = "track" /\ edit'.pc \in {"index", "shape mark", "locations"}
          /\ edit'.pc = "index" <=> edit.kind = "evict"
      BY <2>1 DEF Track, Types, PublishedOK, EditType
    <3> QED
      BY <1>1, <3>1 DEF FreshInv, EditRight, IndexRight, Named, OwedStays, SigOwed, NameOwed, MarkOwed, CountOwed,
                        Active, Unbooked, Renamed, BeforeIndex, BeforeMark, EarlyPc
  <2>2. CASE ShapeMark
    <3>1. /\ edit.pc = "shape mark" /\ edit'.pc = "locations" /\ edit'.track = edit.track /\ edit.kind # "evict"
      BY <1>1, <2>2 DEF ShapeMark, Types, PublishedOK, EditType, EditRight
    <3> QED
      BY <1>1, <3>1 DEF FreshInv, EditRight, IndexRight, Named, OwedStays, SigOwed, NameOwed, MarkOwed, CountOwed,
                        Active, Unbooked, Renamed, BeforeIndex, BeforeMark, EarlyPc
  <2> QED
    BY <2>1, <2>2
<1> QED
  BY <1>0, <1>2, OwedFresh

\* An access the search has in the file is one its invalidation is due for.
LEMMA HeldAccess ==
  ASSUME SearchShape, NEW d \in Planned, NEW p \in Nat \ {0}, Has(d, edit.file, p), ~Stored(d) PROVE Holds(d)
<1>1. SearchType /\ Loc(edit.file, p) # {}
  BY DEF SearchShape, Loc
<1>2. CASE Collected
  <2>1. d \in DOMAIN search.found /\ At(search.found[d], edit.file) # {}
    BY <1>1, <1>2 DEF Has, Collected, SearchType, Stored
  <2> QED
    BY <1>2, <2>1 DEF Holds, Collected, At
<1>3. CASE ~Collected
  BY <1>1, <1>3 DEF Has, Holds, At
<1> QED
  BY <1>2, <1>3

LEMMA LocationsFresh == ASSUME CountsAssumption, Types, FreshInv, InvalidateLocationsIn PROVE FreshInv'
<1> DEFINE due == {d \in Planned : Holds(d)}
<1>0. Markings
  BY DEF Markings
<1>1. /\ edit.pc = "locations" /\ edit'.track = edit.track /\ edit'.names = edit.names
      /\ edit'.pc = (IF edit.kind = "evict" THEN "members" ELSE "index")
      /\ edit'.file = edit.file /\ edit'.kind = edit.kind
      /\ missed' = missed \cup Unreached(due, moved')
  BY DEF InvalidateLocationsIn, Invalidate, Planned, Types, PublishedOK, EditType
<1>2. UNCHANGED <<text, index, sig>> /\ edit'.file = edit.file /\ edit'.kind = edit.kind /\ IndexRight
  BY <1>0, MarkedParts DEF FreshInv
<1>3. EditRight' /\ IndexRight'
  BY <1>1, <1>2 DEF EditRight, IndexRight, Named, Active, BeforeIndex, EarlyPc
<1>4. /\ ~SigOwed /\ ~SigOwed' /\ \A d, g : NameOwed(d, g) => NameOwed(d, g)'
      /\ ~edit.track => Unbooked'
  BY <1>1, <1>2 DEF SigOwed, NameOwed, Active, Unbooked, Renamed, BeforeIndex, EarlyPc
<1>5. CASE ~edit.track
  <2>1. Active /\ Active' /\ Unbooked'
    BY <1>1, <1>4, <1>5 DEF Active
  <2>2. \A d, g : MarkOwed(g) => NameOwed(d, g)'
    BY <1>2, <2>1 DEF MarkOwed, NameOwed
  <2>3. ASSUME NEW d \in Decl PROVE EntryRight(d)'
    <3>1. EntryRight(d) /\ sig' = sig /\ cache[d] \in Entry /\ Staler(cache[d], cache'[d])
          /\ unseen \subseteq unseen' /\ text' = text
      BY <1>0, MarkedParts
    <3>2. \A g \in File, p \in Nat : EntryPlace(d, g, p) => EntryPlace(d, g, p)'
      BY <1>4, <2>2, <3>1 DEF EntryPlace
    <3>3. CountOwed(d)'
      BY <2>1 DEF CountOwed
    <3> QED
      BY <1>4, <3>1, <3>2, <3>3, EntryKept
  <2>4. ASSUME NEW d \in Planned PROVE SearchRight(d)'
    <3>1. /\ d \in Decl /\ SearchRight(d) /\ UNCHANGED <<text, sig, search>>
          /\ (moved => moved') /\ missed \subseteq missed' /\ unseen \subseteq unseen'
          /\ \A g : Uncovered(d, g) => Uncovered(d, g)'
      BY <1>0, MarkedParts
    <3>2. \A g \in File, p \in Nat : SearchPlace(d, g, p) => SearchPlace(d, g, p)'
      BY <1>4, <2>2, <3>1 DEF SearchPlace
    <3> QED
      BY <1>4, <3>1, <3>2, SearchKept
  <2> QED
    BY <1>0, <1>3, <2>3, <2>4, MarkedParts DEF FreshInv
<1>6. CASE edit.track
  <2>0. ASSUME NEW d \in Decl, Present(d), NEW g \in File, g = edit.file,
               ~cache[d].kept \/ At(cache[d].locs, g) # {}
        PROVE  /\ cache'[d].stale.all \/ (cache[d].kept /\ g \in cache'[d].stale.files)
               /\ StaleIn(d, g)'
    <3>1. d \in Touched
      BY <2>0 DEF Touched, Holders, At
    <3>2. cache'[d] = MarkFiles(cache[d])
      BY <1>6, <3>1 DEF InvalidateLocationsIn, Invalidate
    <3>3. cache[d] \in Entry /\ edit.file \in File
      BY <1>0, MarkedParts
    <3> QED
      BY <2>0, <3>2, <3>3, StalerMarks DEF StaleIn
  <2>1. \A g : MarkOwed(g) => g = edit.file
    BY DEF MarkOwed
  <2>3. ASSUME NEW d \in Decl PROVE EntryRight(d)'
    <3>1. EntryRight(d) /\ sig' = sig /\ cache[d] \in Entry /\ Staler(cache[d], cache'[d])
          /\ unseen \subseteq unseen' /\ text' = text
      BY <1>0, MarkedParts
    <3>2. CASE ~Present(d)
      BY <3>1, <3>2 DEF EntryRight, Present, Staler
    <3>3. CASE Present(d)
      <4>1. ASSUME NEW g \in File, NEW p \in Nat, At(cache[d].locs, g) = Loc(g, p), EntryPlace(d, g, p)
            PROVE  EntryPlace(d, g, p)' \/ StaleIn(d, g)'
        <5>1. CASE p # 0 /\ MarkOwed(g)
          <6>1. At(cache[d].locs, g) # {}
            BY <4>1, <5>1 DEF Loc
          <6> QED
            BY <2>0, <2>1, <3>3, <5>1, <6>1
        <5> QED
          BY <1>4, <3>1, <4>1, <5>1 DEF EntryPlace
      <4>2. ~cache[d].kept => ~IsFresh(d)'
        BY <1>0, <2>0, <3>3, MarkedParts DEF IsFresh, FreshMark
      <4> QED
        BY <1>4, <3>1, <4>1, <4>2, EntryKept
    <3> QED
      BY <3>2, <3>3
  <2>4. ASSUME NEW d \in Planned PROVE SearchRight(d)'
    <3>1. /\ d \in Decl /\ SearchRight(d) /\ UNCHANGED <<text, sig, search>> /\ SearchType
          /\ (moved => moved') /\ missed \subseteq missed' /\ unseen \subseteq unseen'
          /\ \A g : Uncovered(d, g) => Uncovered(d, g)'
      BY <1>0, MarkedParts
    <3>2. ASSUME NEW g \in File, NEW p \in Nat, ~Stored(d), Has(d, g, p), SearchPlace(d, g, p)
          PROVE  SearchPlace(d, g, p)' \/ (Doubt(d)' /\ Uncovered(d, g)') \/ Stored(d)'
      <4>1. CASE p = text[g][d] \/ NameOwed(d, g)
        BY <1>4, <3>1, <4>1 DEF SearchPlace
      <4>2. CASE p # 0 /\ MarkOwed(g) /\ Found(d, g)
        <5>1. Holds(d) /\ g = edit.file
          BY <2>1, <3>2, <4>2, HeldAccess DEF Types
        <5>2. Doubt(d)' \/ Stored(d)'
          BY <1>1, <3>1, <5>1, Doubted DEF Unreached, Planned
        <5>3. Uncovered(d, g)'
          <6>1. CASE Uncovered(d, g)
            BY <3>1, <6>1
          <6>2. CASE ~Uncovered(d, g)
            BY <2>0, <3>1, <4>2, <5>1, <6>2 DEF Found, Uncovered
          <6> QED
            BY <6>1, <6>2
        <5> QED
          BY <5>2, <5>3
      <4> QED
        BY <3>2, <4>1, <4>2 DEF SearchPlace
    <3> QED
      BY <1>4, <3>1, <3>2, SearchKept
  <2> QED
    BY <1>0, <1>3, <2>3, <2>4, MarkedParts DEF FreshInv
<1> QED
  BY <1>5, <1>6

LEMMA IndexFresh == ASSUME CountsAssumption, Types, FreshInv, IndexWrite PROVE FreshInv'
<1>1. /\ UNCHANGED <<text, sig, cache, unseen, search, moved, missed>> /\ Planned' = Planned
      /\ edit.pc = "index" /\ edit'.track = edit.track /\ edit'.kind = edit.kind /\ edit'.file = edit.file
      /\ edit'.pc = (IF edit.kind = "evict" THEN "locations" ELSE "members")
      /\ edit.track => edit'.names = (index[edit.file] \ Named(edit.file)) \cup (Named(edit.file) \ index[edit.file])
      /\ index' = [index EXCEPT ![edit.file] = Named(edit.file)]
  BY DEF IndexWrite, published, cached, history, Planned, Types, PublishedOK, EditType
<1>2. index \in [File -> SUBSET Decl] /\ edit.file \in File
  BY <1>1 DEF Types, PublishedOK, CountsAssumption
<1>3. EditRight' /\ IndexRight' /\ KeepsApart' /\ Counted'
  <2>1. IndexRight
    BY DEF FreshInv
  <2>2. IndexRight'
    BY <1>1, <1>2, <2>1 DEF IndexRight, Named
  <2> QED
    BY <1>1, <2>2 DEF FreshInv, EditRight, KeepsApart, Counted
<1>4. /\ ~SigOwed /\ ~SigOwed' /\ Active' /\ edit'.file = edit.file
      /\ Unbooked' <=> ~edit.track
      /\ \A g : MarkOwed(g) => MarkOwed(g)'
  BY <1>1 DEF SigOwed, Active, Unbooked, MarkOwed, BeforeMark, EarlyPc
<1>5. ASSUME NEW d \in Decl, Renamed(d), edit.track PROVE Renamed(d)'
  <2>1. BeforeIndex /\ ~BeforeIndex'
    BY <1>1 DEF BeforeIndex, EarlyPc
  <2>2. (d \in index[edit.file]) # (d \in Named(edit.file))
    BY <1>5, <2>1 DEF Renamed, Named
  <2>3. d \in edit'.names
    BY <1>1, <1>5, <2>2
  <2> QED
    BY <2>1, <2>3 DEF Renamed
<1>6. /\ \A d \in Decl, g \in File : NameOwed(d, g) => NameOwed(d, g)'
      /\ \A d \in Decl : CountOwed(d) => CountOwed(d)'
  <2>1. ~Unbooked \/ ~edit.track
    BY DEF Unbooked
  <2>2. BeforeMark => BeforeMark'
    BY <1>1 DEF BeforeMark, EarlyPc
  <2> QED
    BY <1>4, <1>5, <2>1, <2>2 DEF NameOwed, CountOwed
<1>7. \A d \in Decl : cache[d] \in Entry /\ Staler(cache[d], cache'[d])
  BY <1>1, StalerSelf DEF Types, CacheOK
<1>8. ASSUME NEW d \in Decl PROVE EntryRight(d)'
  <2>1. \A g \in File, p \in Nat : EntryPlace(d, g, p) => EntryPlace(d, g, p)'
    BY <1>1, <1>4, <1>6 DEF EntryPlace
  <2>2. Accesses(d)' = Accesses(d)
    BY <1>1 DEF Accesses
  <2>3. EntryRight(d)
    BY DEF FreshInv
  <2>4. CountOwed(d)' \/ (~CountOwed(d) /\ Accesses(d)' = Accesses(d))
    BY <1>6, <2>2
  <2> QED
    BY <1>1, <1>4, <1>7, <2>1, <2>3, <2>4, EntryKept
<1>9. ASSUME NEW d \in Planned PROVE SearchRight(d)'
  <2>1. d \in Decl /\ SearchRight(d)
    BY PlannedDecl DEF FreshInv, Types
  <2>2. \A g : Uncovered(d, g) <=> Uncovered(d, g)'
    BY <1>1 DEF Uncovered, Present, StaleIn
  <2>3. \A g \in File, p \in Nat : SearchPlace(d, g, p) => SearchPlace(d, g, p)'
    BY <1>1, <1>4, <1>6, <2>1, <2>2 DEF SearchPlace, Found
  <2> QED
    BY <1>1, <1>4, <2>1, <2>2, <2>3, SearchKept
<1> QED
  BY <1>1, <1>3, <1>8, <1>9 DEF FreshInv

LEMMA MemberFresh ==
  ASSUME CountsAssumption, Types, FreshInv, NEW m \in Decl, InvalidateMember(m) PROVE FreshInv'
<1>0. Markings
  BY DEF Markings
<1>1. /\ edit.pc = "members" /\ edit'.pc = "members" /\ edit'.track = edit.track /\ edit'.names = edit.names \ {m}
      /\ edit'.file = edit.file /\ edit'.kind = edit.kind
      /\ missed' = missed \cup Unreached({m}, moved')
      /\ Present(m) => cache'[m] = MarkName(cache[m])
  BY DEF InvalidateMember, Invalidate, Holders, Types, PublishedOK, EditType
<1>2. UNCHANGED <<text, index, sig>> /\ IndexRight
  BY <1>0, MarkedParts DEF FreshInv
<1>3. EditRight' /\ IndexRight'
  BY <1>1, <1>2 DEF EditRight, IndexRight, Named, Active, BeforeIndex, EarlyPc
<1>4. /\ ~SigOwed /\ ~SigOwed' /\ ~BeforeMark
      /\ \A d, g : NameOwed(d, g) => NameOwed(d, g)' \/ (d = m /\ g = edit.file)
      /\ \A d : CountOwed(d) => CountOwed(d)' \/ d = m
  BY <1>1 DEF SigOwed, NameOwed, CountOwed, Active, Unbooked, Renamed, BeforeIndex, BeforeMark, EarlyPc
<1>5. ASSUME NEW g \in File, g = edit.file, Present(m) PROVE StaleIn(m, g)' /\ cache'[m].countStale
  <2>1. cache[m] \in Entry /\ edit.file \in File
    BY <1>0, MarkedParts
  <2> QED
    BY <1>1, <1>5, <2>1, StalerMarks DEF StaleIn
<1>6. \A g : ~MarkOwed(g)
  BY <1>4 DEF MarkOwed
<1>7. ASSUME NEW d \in Decl PROVE EntryRight(d)'
  <2>1. EntryRight(d) /\ sig' = sig /\ cache[d] \in Entry /\ Staler(cache[d], cache'[d])
        /\ unseen \subseteq unseen' /\ text' = text
    BY <1>0, MarkedParts
  <2>2. CASE ~Present(d)
    BY <2>1, <2>2 DEF EntryRight, Present, Staler
  <2>3. CASE Present(d)
    <3>1. \A g \in File, p \in Nat : EntryPlace(d, g, p) => EntryPlace(d, g, p)' \/ StaleIn(d, g)'
      BY <1>4, <1>5, <1>6, <2>1, <2>3 DEF EntryPlace
    <3>2. Accesses(d)' = Accesses(d)
      BY <2>1 DEF Accesses
    <3>3. d = m => ~IsFresh(d)'
      BY <1>0, <1>5, <2>3, MarkedParts DEF IsFresh
    <3>4. CountOwed(d)' \/ ~IsFresh(d)' \/ (~CountOwed(d) /\ Accesses(d)' = Accesses(d))
      BY <1>4, <3>2, <3>3
    <3> QED
      BY <1>4, <2>1, <3>1, <3>4, EntryKept
  <2> QED
    BY <2>2, <2>3
<1>8. ASSUME NEW d \in Planned PROVE SearchRight(d)'
  <2>1. /\ d \in Decl /\ SearchRight(d) /\ UNCHANGED <<text, sig, search>> /\ SearchType
        /\ (moved => moved') /\ missed \subseteq missed' /\ unseen \subseteq unseen'
        /\ Staler(cache[d], cache'[d])
        /\ \A g : Uncovered(d, g) => Uncovered(d, g)'
    BY <1>0, MarkedParts
  <2>2. ASSUME d = m PROVE Doubt(d)' \/ Stored(d)'
    BY <1>1, <2>1, <2>2, Doubted DEF Unreached, Planned
  <2>3. ASSUME NEW g \in File, g = edit.file, d = m PROVE Uncovered(d, g)'
    BY <1>5, <2>1, <2>3 DEF Uncovered, Present, Staler
  <2>4. ASSUME NEW g \in File, NEW p \in Nat, SearchPlace(d, g, p)
        PROVE  SearchPlace(d, g, p)' \/ (Doubt(d)' /\ Uncovered(d, g)') \/ Stored(d)'
    BY <1>4, <1>6, <2>1, <2>2, <2>3, <2>4 DEF SearchPlace
  <2> QED
    BY <1>4, <2>1, <2>4, SearchKept
<1> QED
  BY <1>0, <1>3, <1>7, <1>8, MarkedParts DEF FreshInv

LEMMA EndEditFresh == ASSUME CountsAssumption, Types, FreshInv, EndEdit PROVE FreshInv'
<1>1. /\ UNCHANGED <<text, sig, index, cache, search, moved>> /\ Planned' = Planned
      /\ edit.pc = "members" /\ edit.names = {} /\ edit'.pc = "idle"
      /\ unseen' = (IF edit.track THEN unseen ELSE unseen \cup Holders)
      /\ missed' = IF edit.track THEN missed ELSE missed \cup Planned
  BY DEF EndEdit, published, cached, Planned, NoEdit
<1>2. ~SigOwed /\ ~SigOwed' /\ ~BeforeIndex /\ ~BeforeMark /\ (Unbooked <=> ~edit.track)
  BY <1>1 DEF SigOwed, BeforeIndex, BeforeMark, Unbooked, EarlyPc
<1>3. EditRight' /\ IndexRight' /\ KeepsApart' /\ Counted'
  BY <1>1, <1>2 DEF FreshInv, EditRight, IndexRight, Named, KeepsApart, Counted
<1>4. \A d \in Decl : cache[d] \in Entry /\ Staler(cache[d], cache'[d])
  BY <1>1, StalerSelf DEF Types, CacheOK
<1>5. edit.track => \A d : ~CountOwed(d) /\ \A g : ~NameOwed(d, g) /\ ~MarkOwed(g)
  BY <1>1, <1>2 DEF CountOwed, NameOwed, MarkOwed, Renamed
<1>6. ASSUME NEW d \in Decl PROVE EntryRight(d)'
  <2>1. CASE ~edit.track
    BY <1>1, <2>1 DEF EntryRight, Present, Holders
  <2>2. CASE edit.track
    <3>1. EntryRight(d) /\ Accesses(d)' = Accesses(d)
      BY <1>1 DEF FreshInv, Accesses
    <3>2. \A g \in File, p \in Nat : EntryPlace(d, g, p) => EntryPlace(d, g, p)'
      BY <1>1, <1>5, <2>2 DEF EntryPlace
    <3> QED
      BY <1>1, <1>2, <1>4, <1>5, <2>2, <3>1, <3>2, EntryKept
  <2> QED
    BY <2>1, <2>2
<1>7. ASSUME NEW d \in Planned PROVE SearchRight(d)'
  <2>1. d \in Decl /\ SearchRight(d) /\ SearchType
    BY PlannedDecl DEF FreshInv, Types, SearchShape
  <2>2. CASE ~edit.track
    <3>1. Doubt(d)' \/ Stored(d)'
      BY <1>1, <2>1, <2>2, Doubted
    <3>2. \A g : Uncovered(d, g)'
      BY <1>1, <2>1, <2>2 DEF Uncovered, Present, Holders
    <3> QED
      BY <3>1, <3>2 DEF SearchRight
  <2>3. CASE edit.track
    <3>1. \A g \in File, p \in Nat : SearchPlace(d, g, p) => SearchPlace(d, g, p)'
      BY <1>1, <1>5, <2>3 DEF SearchPlace
    <3>2. \A g : Uncovered(d, g) <=> Uncovered(d, g)'
      BY <1>1, <2>3 DEF Uncovered, Present, StaleIn
    <3> QED
      BY <1>1, <1>2, <2>1, <2>3, <3>1, <3>2, SearchKept
  <2> QED
    BY <2>2, <2>3
<1> QED
  BY <1>1, <1>3, <1>6, <1>7 DEF FreshInv

----------------------------------------------------------------------------
\* The steps of a search.

LEMMA ReadParts ==
  ASSUME FreshInv, UNCHANGED <<text, sig, index, cache, unseen, edit>>
  PROVE  /\ EditRight' /\ IndexRight' /\ Counted' /\ \A d \in Decl : EntryRight(d)'
         /\ \A d, g, p : SearchPlace(d, g, p)' <=> SearchPlace(d, g, p)
         /\ \A d, g : Uncovered(d, g)' <=> Uncovered(d, g)
         /\ \A g, p : Loc(g, p)' = Loc(g, p)
<1>1. EditRight' /\ IndexRight' /\ Counted'
  BY DEF FreshInv, EditRight, IndexRight, Active, BeforeIndex, EarlyPc, Named, Counted
<1>2. \A d : EntryRight(d)' <=> EntryRight(d)
  BY DEF EntryRight, Present, SigOwed, EntryAt, StaleIn, At, Loc, EntryPlace, NameOwed, Active, Unbooked,
         Renamed, BeforeIndex, EarlyPc, MarkOwed, BeforeMark, IsFresh, Accesses, CountOwed
<1>3. \A d, g : Uncovered(d, g)' <=> Uncovered(d, g)
  BY DEF Uncovered, Present, StaleIn
<1>4. \A d, g, p : SearchPlace(d, g, p)' <=> SearchPlace(d, g, p)
  <2>1. \A d, g : NameOwed(d, g)' <=> NameOwed(d, g)
    BY DEF NameOwed, Active, Unbooked, Renamed, BeforeIndex, EarlyPc
  <2>2. \A g : MarkOwed(g)' <=> MarkOwed(g)
    BY DEF MarkOwed, Active, BeforeMark, EarlyPc
  <2>3. \A d, g : Found(d, g)' <=> Found(d, g)
    BY <1>3 DEF Found
  <2> QED
    BY <2>1, <2>2, <2>3 DEF SearchPlace
<1> QED
  BY <1>1, <1>2, <1>3, <1>4 DEF FreshInv, Loc

LEMMA PlanFresh == ASSUME CountsAssumption, Types, FreshInv, Plan PROVE FreshInv'
<1>0. UNCHANGED <<text, sig, index, cache, unseen, edit, moved, missed>>
  BY DEF Plan, published, cached, history
<1>1. /\ search'.pc = "candidates" /\ Planned' = Searched /\ SearchShape'
      /\ \A d \in Searched : search'.plan[d] = PlanFor(d)
  BY PlanFields, ReadTypes DEF Types
<1>2. ASSUME NEW d \in Searched PROVE PlanFor(d).rescan = File \/
         (/\ Present(d) /\ cache[d].kept /\ ~cache[d].stale.all /\ PlanFor(d).rescan = cache[d].stale.files
          /\ PlanFor(d).keep = {l \in cache[d].locs : l[1] \notin cache[d].stale.files})
  BY DEF PlanFor, Partial
<1>3. KeepsApart'
  <2>1. ASSUME NEW d \in Searched PROVE \A l \in PlanFor(d).keep : l[1] \notin PlanFor(d).rescan
    BY DEF PlanFor
  <2> QED
    BY <1>1, <2>1 DEF KeepsApart
<1>4. ASSUME NEW d \in Searched PROVE SearchRight(d)'
  <2>0. d \in Decl
    BY <1>1, PlannedDecl DEF SearchShape, SearchFields, SearchType, DeclsOf, Items
  <2>1. ASSUME NEW g \in File, g \in PlanFor(d).rescan PROVE SearchAt(d, g)'
    BY <1>1, <2>1 DEF SearchAt, Unread, Rescans
  <2>2. CASE PlanFor(d).rescan = File
    BY <2>1, <2>2 DEF SearchRight
  <2>3. CASE PlanFor(d).rescan # File
    <3>1. /\ Present(d) /\ cache[d].kept /\ ~cache[d].stale.all /\ PlanFor(d).rescan = cache[d].stale.files
          /\ PlanFor(d).keep = {l \in cache[d].locs : l[1] \notin cache[d].stale.files}
      BY <1>2, <2>3
    <3>2. CASE d \in unseen
      BY <1>0, <1>1, <2>3, <3>2 DEF SearchRight, Partly
    <3>3. CASE SigOwed
      <4>1. \A g \in File : SearchAt(d, g)' \/ ~Rescans(d, g)'
        BY <1>1, <2>1 DEF Rescans
      <4> QED
        BY <1>0, <3>3, <4>1 DEF SigOwed, SearchRight
    <3>4. ASSUME d \notin unseen, ~SigOwed, NEW g \in File, g \notin PlanFor(d).rescan PROVE SearchAt(d, g)'
      <4>1. EntryAt(d, g) /\ ~StaleIn(d, g)
        BY <2>0, <3>1, <3>4 DEF FreshInv, EntryRight, StaleIn
      <4>2. PICK p \in Nat : At(cache[d].locs, g) = Loc(g, p) /\ EntryPlace(d, g, p)
        BY <4>1 DEF EntryAt
      <4>3. At(PlanFor(d).keep, g) = Loc(g, p)
        BY <3>1, <3>4, <4>2 DEF At
      <4>4. Has(d, g, p)'
        BY <1>0, <1>1, <3>4, <4>3 DEF Has, Collected, Rescans, Loc
      <4>5. SearchPlace(d, g, p)
        BY <4>2 DEF EntryPlace, SearchPlace, Found, Loc
      <4> QED
        BY <1>0, <4>4, <4>5, ReadParts DEF SearchAt
    <3> QED
      BY <2>1, <3>2, <3>3, <3>4 DEF SearchRight
  <2> QED
    BY <2>2, <2>3
<1> QED
  BY <1>0, <1>1, <1>3, <1>4, ReadParts DEF FreshInv

\* A step that reads carries over what the search has in each file.
LEMMA ReadFresh ==
  ASSUME CountsAssumption, Types, FreshInv,
         UNCHANGED <<text, sig, index, cache, unseen, edit, moved, missed>>, search'.plan = search.plan,
         search.pc # "store", search'.pc # "store",
         \A d \in Planned, g \in File : SearchAt(d, g) => SearchAt(d, g)'
  PROVE  FreshInv'
<1>1. Planned' = Planned /\ KeepsApart'
  BY DEF FreshInv, KeepsApart, Planned
<1>2. ASSUME NEW d \in Planned PROVE SearchRight(d)'
  <2>1. SearchRight(d) /\ ~Stored(d) /\ \A g : Uncovered(d, g)' <=> Uncovered(d, g)
    BY ReadParts DEF FreshInv, Stored
  <2>2. /\ Doubt(d)' <=> Doubt(d)
        /\ Partly(d)' <=> Partly(d)
        /\ \A g : Rescans(d, g)' <=> Rescans(d, g)
    BY DEF Doubt, Partly, Rescans
  <2> QED
    BY <2>1, <2>2 DEF SearchRight
<1> QED
  BY <1>1, <1>2, ReadParts DEF FreshInv

LEMMA ReadIndexFresh == ASSUME CountsAssumption, Types, FreshInv, ReadIndex PROVE FreshInv'
<1>0. UNCHANGED <<text, sig, index, cache, unseen, edit, moved, missed>>
  BY DEF ReadIndex, published, cached, history
<1>1. /\ search.pc = "candidates" /\ search'.pc = "maps" /\ search'.plan = search.plan
      /\ \A d \in Planned : search'.candidates[d] = {f \in search.plan[d].rescan : d \in index[f]}
  BY ReadIndexFields
<1>2. ASSUME NEW d \in Planned, NEW g \in File, SearchAt(d, g) PROVE SearchAt(d, g)'
  <2>0. d \in Decl /\ text[g] \in [Decl -> Nat]
    BY PlannedDecl DEF Types, PublishedOK, CountsAssumption
  <2>1. CASE Rescans(d, g) /\ d \in index[g]
    BY <1>1, <2>1 DEF SearchAt, Unread, Rescans
  <2>2. CASE Rescans(d, g) /\ d \notin index[g]
    <3>1. g \notin search'.candidates[d]
      BY <1>1, <2>2
    <3>2. Has(d, g, 0)'
      BY <1>1, <2>2, <3>1 DEF Has, Rescans
    <3>3. SearchPlace(d, g, 0)
      <4>1. CASE index[g] = Named(g)
        BY <2>0, <2>2, <4>1 DEF Named, SearchPlace
      <4>2. CASE Active /\ BeforeIndex /\ g = edit.file /\ text[g][d] # 0
        BY <2>2, <4>2 DEF SearchPlace, NameOwed, Renamed
      <4> QED
        BY <4>1, <4>2 DEF FreshInv, IndexRight, SearchPlace
    <3> QED
      BY <1>0, <3>2, <3>3, ReadParts DEF SearchAt
  <2>3. CASE ~Rescans(d, g)
    <3>1. PICK p \in Nat : Has(d, g, p) /\ SearchPlace(d, g, p)
      BY <1>2, <2>3 DEF SearchAt, Unread
    <3>2. Has(d, g, p)'
      BY <1>0, <1>1, <2>3, <3>1 DEF Has, Collected, Rescans, Loc
    <3> QED
      BY <1>0, <3>1, <3>2, ReadParts DEF SearchAt
  <2> QED
    BY <2>1, <2>2, <2>3
<1> QED
  BY <1>0, <1>1, <1>2, ReadFresh

LEMMA ReadMapsFresh == ASSUME CountsAssumption, Types, FreshInv, ReadMaps PROVE FreshInv'
<1>0. UNCHANGED <<text, sig, index, cache, unseen, edit, moved, missed>>
  BY DEF ReadMaps, published, cached, history
<1>1. /\ search.pc = "maps" /\ search'.pc = "receivers" /\ search'.plan = search.plan
      /\ search'.candidates = search.candidates /\ search'.maps = text
  BY ReadMapsFields
<1>2. ASSUME NEW d \in Planned, NEW g \in File, SearchAt(d, g) PROVE SearchAt(d, g)'
  <2>0. d \in Decl /\ text[g][d] \in Nat
    BY PlannedDecl DEF Types, PublishedOK, CountsAssumption
  <2>1. CASE Unread(d, g)
    <3>1. Rescans(d, g) /\ g \in search.candidates[d]
      BY <1>1, <2>1 DEF Unread
    <3>2. Has(d, g, text[g][d])'
      BY <1>0, <1>1, <3>1 DEF Has, Rescans
    <3>3. SearchPlace(d, g, text[g][d])
      BY DEF SearchPlace
    <3>4. PICK p \in Nat : p = text[g][d] /\ Has(d, g, p)' /\ SearchPlace(d, g, p)
      BY <1>0, <2>0, <3>2, <3>3
    <3> QED
      BY <1>0, <3>4, ReadParts DEF SearchAt
  <2>2. CASE ~Unread(d, g)
    <3>1. PICK p \in Nat : Has(d, g, p) /\ SearchPlace(d, g, p)
      BY <1>2, <2>2 DEF SearchAt
    <3>2. Has(d, g, p)'
      BY <1>0, <1>1, <2>2, <3>1 DEF Has, Collected, Rescans, Loc, Unread
    <3> QED
      BY <1>0, <3>1, <3>2, ReadParts DEF SearchAt
  <2> QED
    BY <2>1, <2>2
<1> QED
  BY <1>0, <1>1, <1>2, ReadFresh

LEMMA SettleFresh == ASSUME CountsAssumption, Types, FreshInv, SettleReceivers PROVE FreshInv'
<1>0. UNCHANGED <<text, sig, index, cache, unseen, edit, moved, missed>>
  BY DEF SettleReceivers, published, cached, history
<1>1. /\ search.pc = "receivers" /\ search'.pc = "compare" /\ search'.plan = search.plan
      /\ \A d \in Planned : search'.found[d] = search.plan[d].keep \cup Result(d)
      /\ KeepsApart /\ SearchType
  BY SettleFields DEF FreshInv, Types, SearchShape
<1>2. ASSUME NEW d \in Planned, NEW g \in File, SearchAt(d, g) PROVE SearchAt(d, g)'
  <2>1. PICK p \in Nat : Has(d, g, p) /\ SearchPlace(d, g, p)
    BY <1>1, <1>2 DEF SearchAt, Unread
  <2>2. At(search.plan[d].keep \cup Result(d), g) = Loc(g, p)
    <3>1. CASE Rescans(d, g)
      <4>1. At(search.plan[d].keep, g) = {}
        BY <1>1, <3>1 DEF KeepsApart, Rescans, At
      <4>2. p = IF g \in search.candidates[d] THEN search.maps[g][d] ELSE 0
        BY <1>1, <2>1, <3>1 DEF Has, Collected
      <4>3. At(Result(d), g) = Loc(g, p)
        BY <4>2 DEF At, Result, Loc
      <4> QED
        BY <4>1, <4>3 DEF At
    <3>2. CASE ~Rescans(d, g)
      <4>1. At(search.plan[d].keep, g) = Loc(g, p)
        BY <1>1, <2>1, <3>2 DEF Has, Collected
      <4>2. At(Result(d), g) = {}
        BY <1>1, <3>2 DEF At, Result, Rescans, SearchType
      <4> QED
        BY <4>1, <4>2 DEF At
    <3> QED
      BY <3>1, <3>2
  <2>3. Has(d, g, p)'
    BY <1>0, <1>1, <2>2 DEF Has, Collected, At, Loc
  <2> QED
    BY <1>0, <2>1, <2>3, ReadParts DEF SearchAt
<1> QED
  BY <1>0, <1>1, <1>2, ReadFresh

LEMMA CompareFresh == ASSUME CountsAssumption, Types, FreshInv, CompareEpoch PROVE FreshInv'
<1>0. UNCHANGED <<text, sig, index, cache, unseen, edit, moved, missed>>
  BY DEF CompareEpoch, published, cached, history
<1>1. /\ search.pc = "compare" /\ search'.pc = "store" /\ search'.plan = search.plan
      /\ search'.found = search.found /\ search'.invalidated = moved /\ Planned' = Planned
  BY CompareFields DEF Planned
<1>2. KeepsApart' /\ DOMAIN search.found = Planned
  BY <1>1 DEF FreshInv, KeepsApart, Types, SearchShape, SearchType
<1>3. ASSUME NEW d \in Planned PROVE SearchRight(d)'
  <2>1. SearchRight(d) /\ ~Stored(d) /\ \A g : Uncovered(d, g)' <=> Uncovered(d, g)
    BY <1>0, <1>1, ReadParts DEF FreshInv, Stored
  <2>2. Doubt(d) => Doubt(d)' \/ Stored(d)'
    BY <1>0, <1>1 DEF Doubt, Stored
  <2>3. \A g \in File : SearchAt(d, g) => SearchAt(d, g)'
    <3>1. \A g, p : Has(d, g, p) => Has(d, g, p)'
      BY <1>0, <1>1 DEF Has, Collected, Loc
    <3> QED
      BY <1>0, <1>1, <3>1, ReadParts DEF SearchAt, Unread
  <2>4. /\ Partly(d)' <=> Partly(d)
        /\ \A g : Rescans(d, g)' <=> Rescans(d, g)
    BY <1>1 DEF Partly, Rescans
  <2> QED
    BY <1>0, <2>1, <2>2, <2>3, <2>4 DEF SearchRight
<1> QED
  BY <1>0, <1>1, <1>2, <1>3, ReadParts DEF FreshInv

\* What a store puts in an entry: each place is right, owed or marked stale.
LEMMA StoredRight ==
  ASSUME CountsAssumption, Types, FreshInv, NEW d \in Decl, Store(d), ~SigOwed, d \notin unseen'
  PROVE  \A g \in File : StaleIn(d, g)' \/ \E p \in Nat : At(search.found[d], g) = Loc(g, p) /\ EntryPlace(d, g, p)
<1>1. /\ search.pc = "store" /\ d \in DOMAIN search.found /\ d \in Planned
      /\ unseen' = IF d \in missed /\ ~search.invalidated THEN unseen \cup {d}
                   ELSE IF ~search.invalidated /\ search.plan[d].rescan = File THEN unseen \ {d} ELSE unseen
  BY StoreFields DEF Store
<1>2. ~Stored(d) /\ ~(d \in unseen /\ (Partly(d) \/ Doubt(d)))
  BY <1>1 DEF Stored, Partly, Doubt
<1>3. \A g \in File : SearchAt(d, g) \/ (search.invalidated /\ Uncovered(d, g))
  BY <1>1, <1>2 DEF FreshInv, SearchRight, SigOwed, Doubt
<1>4. ASSUME NEW g \in File, search.invalidated, Uncovered(d, g) PROVE StaleIn(d, g)'
  <2>1. d \notin unseen
    BY <1>1, <1>4
  <2>2. cache'[d].stale = IF Present(d) THEN cache[d].stale ELSE Everything
    <3>1. CacheOK /\ FoundOK(search.found[d]) /\ cache'[d] = NewEntry(d, search.found[d], TRUE)
      BY <1>4, StoreFields, StoredCache DEF Types
    <3>2. NewEntry(d, search.found[d], TRUE).stale = IF ~TRUE THEN FreshMark
             ELSE IF Present(d) THEN cache[d].stale ELSE Everything
      BY <3>1, NewEntryFields
    <3> QED
      BY <3>1, <3>2
  <2> QED
    BY <1>4, <2>1, <2>2 DEF Uncovered, StaleIn, Everything
<1>5. ASSUME NEW g \in File, SearchAt(d, g)
      PROVE  \E p \in Nat : At(search.found[d], g) = Loc(g, p) /\ EntryPlace(d, g, p)
  BY <1>1, <1>5 DEF SearchAt, Unread, Has, Collected, SearchPlace, EntryPlace
<1> QED
  BY <1>3, <1>4, <1>5

LEMMA StoreFresh == ASSUME CountsAssumption, Types, FreshInv, NEW m \in Decl, Store(m) PROVE FreshInv'
<1> DEFINE l == search.found[m]
<1>0. UNCHANGED <<text, sig, index, edit, moved, missed>>
  BY DEF Store, published
<1>1. /\ search.pc = "store" /\ search'.pc = "store" /\ search'.plan = search.plan
      /\ search'.invalidated = search.invalidated /\ Planned' = Planned
      /\ DOMAIN search'.found = DOMAIN search.found \ {m} /\ FoundOK(l)
      /\ \A e \in DOMAIN search'.found : search'.found[e] = search.found[e]
      /\ search.invalidated \in BOOLEAN
  BY StoreFields DEF Planned, Types, SearchShape, SearchFields
<1>2. /\ cache'[m] = NewEntry(m, l, search.invalidated)
      /\ \A e \in Decl \ {m} : cache'[e] = NoEntry \/ cache'[e] = cache[e]
      /\ \A e : e # m => (e \in unseen' <=> e \in unseen)
  BY StoredCache DEF Store
<1>3. /\ cache'[m].kept = Kept(l) /\ cache'[m].locs = (IF Kept(l) THEN l ELSE {})
      /\ cache'[m].count = Cardinality(l)
  BY <1>1, <1>2, NewEntryFields DEF Types
<1>4. ~NoEntry.present /\ ~NoEntry.kept
  BY DEF NoEntry
<1>5. EditRight' /\ IndexRight' /\ KeepsApart' /\ Counted'
  <2>1. Counted'
    BY <1>2, <1>3, <1>4 DEF FreshInv, Counted
  <2> QED
    BY <1>0, <1>1, <2>1 DEF FreshInv, EditRight, IndexRight, Active, BeforeIndex, EarlyPc, Named, KeepsApart
<1>6. /\ \A d, g, p : EntryPlace(d, g, p)' <=> EntryPlace(d, g, p)
      /\ \A d : /\ CountOwed(d)' <=> CountOwed(d)
                /\ Accesses(d)' = Accesses(d)
      /\ \A g, p : Loc(g, p)' = Loc(g, p)
      /\ \A d, g : NameOwed(d, g)' <=> NameOwed(d, g)
      /\ \A g : MarkOwed(g)' <=> MarkOwed(g)
      /\ SigOwed' <=> SigOwed
  BY <1>0 DEF EntryPlace, NameOwed, MarkOwed, CountOwed, Active, Unbooked, Renamed, BeforeIndex, BeforeMark, EarlyPc,
              Accesses, Loc, SigOwed
<1>7. ASSUME NEW d \in Decl \ {m} PROVE EntryRight(d)'
  <2>1. CASE cache'[d] = NoEntry
    BY <1>4, <2>1 DEF EntryRight, Present
  <2>2. CASE cache'[d] = cache[d]
    <3>1. EntryRight(d)
      BY DEF FreshInv
    <3>2. /\ Present(d)' <=> Present(d)
          /\ IsFresh(d)' <=> IsFresh(d)
          /\ \A g : EntryAt(d, g)' <=> EntryAt(d, g)
      BY <1>6, <2>2 DEF Present, IsFresh, EntryAt, At, StaleIn
    <3> QED
      BY <1>2, <1>6, <2>2, <3>1, <3>2 DEF EntryRight
  <2> QED
    BY <1>2, <2>1, <2>2
<1>8. EntryRight(m)'
  <2> SUFFICES ASSUME ~SigOwed, m \notin unseen'
      PROVE  /\ Kept(l) => \A g \in File : EntryAt(m, g)'
             /\ ~Kept(l) /\ IsFresh(m)' => Cardinality(l) = Cardinality(Accesses(m)) \/ CountOwed(m)
    BY <1>3, <1>6 DEF EntryRight
  <2>1. \A g \in File : StaleIn(m, g)' \/ \E p \in Nat : At(l, g) = Loc(g, p) /\ EntryPlace(m, g, p)
    BY StoredRight
  <2>2. ASSUME Kept(l), NEW g \in File PROVE EntryAt(m, g)'
    <3>1. At(cache'[m].locs, g) = At(l, g)
      BY <1>3, <2>2
    <3> QED
      BY <1>6, <2>1, <3>1 DEF EntryAt, At
  <2>3. ASSUME IsFresh(m)', ~CountOwed(m) PROVE l = Accesses(m)
    <3>1. \A g : ~StaleIn(m, g)'
      BY <2>3 DEF IsFresh, FreshMark, StaleIn
    <3>2. \A g \in File, p \in Nat : EntryPlace(m, g, p) => p = text[g][m]
      BY <2>3 DEF EntryPlace, NameOwed, MarkOwed, CountOwed
    <3>3. \A g \in File : At(l, g) = Loc(g, text[g][m])
      BY <2>1, <3>1, <3>2
    <3>4. l \subseteq Places
      BY <1>1 DEF FoundOK
    <3> HIDE DEF l
    <3> QED
      BY <3>3, <3>4, AllFound
  <2> QED
    BY <2>2, <2>3
<1>9. ASSUME NEW d \in Planned PROVE SearchRight(d)'
  <2>0. d \in Decl /\ SearchRight(d)
    BY PlannedDecl DEF FreshInv, Types
  <2>1. CASE d = m \/ Stored(d)
    BY <1>0, <1>1, <2>1 DEF SearchRight, Stored
  <2>2. CASE d # m /\ ~Stored(d)
    <3>1. d \in DOMAIN search'.found /\ search'.found[d] = search.found[d]
      BY <1>1, <2>2 DEF Stored
    <3>2. /\ Doubt(d)' <=> Doubt(d)
          /\ Partly(d)' <=> Partly(d)
          /\ \A g : Rescans(d, g)' <=> Rescans(d, g)
          /\ \A g : Uncovered(d, g) => Uncovered(d, g)'
          /\ \A g : Found(d, g) => Found(d, g)'
      <4>1. \A g : Uncovered(d, g) => Uncovered(d, g)'
        BY <1>2, <1>4, <2>0, <2>2 DEF Uncovered, Present, StaleIn
      <4>2. \A g : Found(d, g) => Found(d, g)'
        BY <1>2, <1>4, <2>0, <2>2, <4>1 DEF Found, Uncovered, Present
      <4> QED
        BY <1>1, <4>1, <4>2 DEF Doubt, Partly, Rescans
    <3>3. ASSUME NEW g \in File, SearchAt(d, g) PROVE SearchAt(d, g)'
      <4>1. PICK p \in Nat : Has(d, g, p) /\ SearchPlace(d, g, p)
        BY <1>1, <3>3 DEF SearchAt, Unread
      <4>2. Has(d, g, p)'
        BY <1>1, <1>6, <3>1, <4>1 DEF Has, Collected, At
      <4>3. SearchPlace(d, g, p)'
        BY <1>0, <1>6, <3>2, <4>1 DEF SearchPlace
      <4> QED
        BY <4>2, <4>3 DEF SearchAt
    <3> QED
      BY <1>0, <1>2, <2>0, <2>2, <3>2, <3>3 DEF SearchRight
  <2> QED
    BY <2>1, <2>2
<1> QED
  BY <1>1, <1>5, <1>7, <1>8, <1>9 DEF FreshInv

\* Where no search reads, the entries are all there is to it.
LEMMA NoSearchFresh ==
  ASSUME FreshInv, UNCHANGED <<text, sig, index, cache, unseen, edit>>, Planned' = {} PROVE FreshInv'
  BY ReadParts DEF FreshInv, KeepsApart

----------------------------------------------------------------------------
LEMMA FreshStep == ASSUME CountsAssumption, Types, FreshInv, [Next]_vars PROVE FreshInv'
<1>1. ASSUME NEW k \in Kinds, NEW f \in Edited, NEW t \in Text, Publish(k, f, t) PROVE FreshInv'
  BY <1>1, PublishFresh
<1>2. CASE Editing
  <2>1. ASSUME NEW d \in Decl, InvalidateMember(d) PROVE FreshInv'
    BY <2>1, MemberFresh
  <2> QED
    BY <1>2, <2>1, BumpFresh, MarkEveryFresh, TrackFresh, LocationsFresh, IndexFresh, EndEditFresh DEF Editing
<1>3. CASE EndSearch \/ Unwind
  <2>1. UNCHANGED <<text, sig, index, cache, unseen, edit>> /\ Planned' = {}
    BY <1>3, NoSearchType DEF EndSearch, Unwind, published, cached
  <2> QED
    BY <2>1, NoSearchFresh
<1>4. CASE Searching
  <2>1. ASSUME NEW d \in Decl, Store(d) PROVE FreshInv'
    BY <2>1, StoreFresh
  <2> QED
    BY <1>3, <1>4, <2>1, PlanFresh, ReadIndexFresh, ReadMapsFresh, SettleFresh, CompareFresh DEF Searching
<1>5. ASSUME UNCHANGED <<text, sig, index, cache, unseen, edit>>, NEW who, NEW its, BeginSearch(who, its)
      PROVE  FreshInv'
  <2>1. Planned' = {}
    BY <1>5 DEF BeginSearch, NoSearch, Planned
  <2> QED
    BY <1>5, <2>1, NoSearchFresh
<1>6. CASE Working
  <2>1. UNCHANGED <<text, sig, index, cache, unseen, edit>>
    BY <1>6 DEF Working, Schedule, TakePending, Drained, NotDrained, Failed, published, cached, history
  <2>2. UNCHANGED <<search, moved, missed>> \/ BeginSearch("worker", pending)
    BY <1>6 DEF Working, Schedule, TakePending, Drained, NotDrained, Failed, history
  <2> QED
    BY <1>5, <2>1, <2>2, FreshElsewhere
<1>7. CASE Resolving
  <2>1. UNCHANGED <<text, sig, index, cache, unseen, edit>>
    BY <1>7 DEF Resolving, ResolveBegin, ResolveLocked, published, cached, history
  <2>2. UNCHANGED <<search, moved, missed>> \/ BeginSearch("resolver", {ItemOf(resolver.decl)})
    BY <1>7 DEF Resolving, ResolveBegin, ResolveLocked, history
  <2> QED
    BY <1>5, <2>1, <2>2, FreshElsewhere
<1>8. CASE PullLenses \/ UNCHANGED vars
  BY <1>8, FreshElsewhere DEF PullLenses, vars, published, cached, history
<1> QED
  BY <1>1, <1>2, <1>3, <1>4, <1>6, <1>7, <1>8 DEF Next

\* An entry served as fresh between two edits is what a full search would find
\* now, for any number of edits, files and declarations and any limits of the
\* cache, but for results that no invalidation could reach: the epoch, the
\* marks a publication leaves in the order it leaves them, the partial rescans
\* and the comparison before the store (reference_counts/cache.rs, mod.rs).
THEOREM FreshCountsAreCurrent == Spec => []FreshIsCurrent
<1>1. Types /\ FreshInv => FreshIsCurrent
  <2> SUFFICES ASSUME Types, FreshInv, edit.pc = "idle", NEW d \in Decl, IsFresh(d), d \notin unseen PROVE Matches(d)
    BY DEF FreshIsCurrent
  <2>1. EntryRight(d) /\ Present(d) /\ ~SigOwed /\ Counted /\ cache[d].locs \subseteq Places
    BY DEF FreshInv, IsFresh, SigOwed, Types, CacheOK, Entry
  <2>2. ~CountOwed(d) /\ \A g : ~StaleIn(d, g) /\ ~NameOwed(d, g) /\ ~MarkOwed(g)
    BY DEF CountOwed, NameOwed, MarkOwed, Active, StaleIn, IsFresh, FreshMark
  <2>3. CASE cache[d].kept
    <3>1. \A g \in File : At(cache[d].locs, g) = Loc(g, text[g][d])
      BY <2>1, <2>2, <2>3 DEF EntryRight, EntryAt, EntryPlace
    <3>2. cache[d].locs = Accesses(d)
      BY <2>1, <3>1, AllFound
    <3> QED
      BY <2>1, <2>3, <3>2 DEF Matches, Counted
  <2>4. CASE ~cache[d].kept
    BY <2>1, <2>2, <2>4 DEF EntryRight, Matches
  <2> QED
    BY <2>3, <2>4
<1>2. Init => FreshInv
  BY FreshInit, CountsAssumption
<1>3. FreshInv /\ Types /\ [Next]_vars => FreshInv'
  BY FreshStep, CountsAssumption
<1> QED
  BY <1>1, <1>2, <1>3, TypesHold, PTL DEF Spec
=============================================================================
