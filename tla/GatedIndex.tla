----------------------------- MODULE GatedIndex -----------------------------
(***************************************************************************)
(* The gate in front of an index that is rebuilt on demand                 *)
(* (src/src/backend/gated_index.rs), as the reverse pivot index uses it:   *)
(* every class load passes the gate (backend/laravel/class_loading.rs),    *)
(* rebuilding the index if it is marked (backend/laravel/pivots.rs), and a *)
(* rebuild loads classes itself, so that calls of the gate nest on one     *)
(* thread.  Edits and background parses publish classes and mark the index *)
(* (parser/ast_update.rs).                                                 *)
(*                                                                         *)
(* What a class declares is whether its file takes part in a many-to-many  *)
(* relationship; the index is the set of files that do.                    *)
(***************************************************************************)
EXTENDS Integers, Sequences

CONSTANTS
    Thread,     \* threads that load classes
    Writer,     \* threads that publish classes
    Edited,     \* files published by an edit
    Indexed,    \* files published by a background parse
    Scanned,    \* files parsed by load_laravel_pivot_sources
    NoThread,   \* the holder of a free lock
    NoMemo,     \* an empty memo slot
    MaxWrites,  \* bound: publications
    MaxPanics   \* bound: rebuilds that panic

File == Edited \cup Indexed \cup Scanned
Memo == [stamp : Nat, value : SUBSET File]

ASSUME GateAssumption ==
    /\ NoThread \notin Thread /\ NoMemo \notin Memo
    /\ MaxWrites \in Nat /\ MaxPanics \in Nat

VARIABLES
    declares,    \* the files whose published classes declare a relationship
    writer,      \* [Writer -> Publication]
    index,       \* GatedIndex
    hasAny,
    dirty,
    generation,
    holder,      \* of rebuild_lock
    rebuilding,
    call,        \* [Thread -> Call]: the innermost class load
    outer,       \* [Thread -> Seq(Frame)]: the rebuilds it is nested in
    memo,        \* [Thread -> Memo or NoMemo]: class_loader_memo's REFINED
    marks,       \* history: calls of mark_dirty ...
    taken,       \* ... those some rebuild has taken ...
    over,        \* ... and those whose rebuilds are over
    writes,
    panics

Publication == [pc : {"idle", "refresh", "consult", "announce", "apply", "mark"},
                file : File, has : BOOLEAN]

IdlePublication == {[pc |-> "idle", file |-> f, has |-> FALSE] : f \in File}

Frame == [arrived : Nat, snapshot : SUBSET File]

Call == [pc : {"idle", "dirty", "rebuilding", "lock", "raise", "take",
               "snapshot", "build", "write", "hasAny", "bump", "lower",
               "unlock", "stamp", "probe", "gate", "view"},
         arrived : Nat,           \* the marks there were when it began
         snapshot : SUBSET File,
         stamp : Nat,
         has : BOOLEAN,
         panicked : BOOLEAN]

CallAt(pc, arrived, snapshot) ==
    [pc |-> pc, arrived |-> arrived, snapshot |-> snapshot, stamp |-> 0,
     has |-> FALSE, panicked |-> FALSE]
NoCall == CallAt("idle", 0, {})
Refining(c, pc, stamp, has) ==
    [pc |-> pc, arrived |-> c.arrived, snapshot |-> {}, stamp |-> stamp,
     has |-> has, panicked |-> FALSE]
Unwinding(c) ==
    [pc |-> "lower", arrived |-> c.arrived, snapshot |-> {}, stamp |-> 0,
     has |-> FALSE, panicked |-> TRUE]

writerVars == <<declares, writer, writes>>
indexVars == <<index, hasAny, generation>>
lockVars == <<holder, rebuilding>>
callVars == <<call, outer, memo, panics>>
history == <<taken, over>>
vars == <<writerVars, indexVars, dirty, marks, lockVars, callVars, history>>

Init ==
    /\ declares = {} /\ writes = 0
    /\ writer \in [Writer -> IdlePublication]
    /\ index = {} /\ hasAny = FALSE /\ generation = 0
    /\ dirty = TRUE /\ marks = 1 /\ taken = 0 /\ over = 0
    /\ holder = NoThread /\ rebuilding = FALSE
    /\ call = [t \in Thread |-> NoCall]
    /\ outer = [t \in Thread |-> <<>>]
    /\ memo = [t \in Thread |-> NoMemo]
    /\ panics = 0

-----------------------------------------------------------------------------
(* Publications.                                                           *)

MarkDirty == dirty' = TRUE /\ marks' = marks + 1

Declare(f, has) == declares' = IF has THEN declares \cup {f} ELSE declares \ {f}

Busy(f) == \E w \in Writer : writer[w].pc # "idle" /\ writer[w].file = f

\* A thread begins to publish f, which declares a relationship or does not.
Begin(w, f, has, pc) ==
    /\ writer[w].pc = "idle" /\ ~Busy(f) /\ writes < MaxWrites
    /\ writes' = writes + 1
    /\ writer' = [writer EXCEPT ![w] = [pc |-> pc, file |-> f, has |-> has]]

Done(w) == writer' = [writer EXCEPT ![w].pc = "idle"]

\* update_ast publishes the classes of an edited file, ...
Edit(w, f, has) ==
    /\ f \in Edited /\ Begin(w, f, has, "refresh") /\ Declare(f, has)
    /\ UNCHANGED <<indexVars, dirty, marks, lockVars, callVars, history>>

\* ... then calls refresh_laravel_pivots: nothing to do on a marked index, ...
Refresh(w) ==
    /\ writer[w].pc = "refresh"
    /\ IF dirty THEN Done(w) ELSE writer' = [writer EXCEPT ![w].pc = "consult"]
    /\ UNCHANGED <<declares, writes, indexVars, dirty, marks, lockVars, callVars,
                   history>>

\* ... else it is marked if the file declares, or declared, a relationship.
Consult(w) ==
    /\ writer[w].pc = "consult"
    /\ IF writer[w].has \/ writer[w].file \in index
       THEN MarkDirty ELSE UNCHANGED <<dirty, marks>>
    /\ Done(w)
    /\ UNCHANGED <<declares, writes, indexVars, lockVars, callVars, history>>

\* A background batch marks the index before it publishes its files.
Parse(w, f, has) ==
    /\ f \in Indexed /\ Begin(w, f, has, "announce")
    /\ UNCHANGED <<declares, indexVars, dirty, marks, lockVars, callVars, history>>

Announce(w) ==
    /\ writer[w].pc = "announce"
    /\ IF ~dirty /\ writer[w].has THEN MarkDirty ELSE UNCHANGED <<dirty, marks>>
    /\ writer' = [writer EXCEPT ![w].pc = "apply"]
    /\ UNCHANGED <<declares, writes, indexVars, lockVars, callVars, history>>

Apply(w) ==
    /\ writer[w].pc = "apply"
    /\ Declare(writer[w].file, writer[w].has)
    /\ Done(w)
    /\ UNCHANGED <<writes, indexVars, dirty, marks, lockVars, callVars, history>>

\* load_laravel_pivot_sources parses a file that may declare a relationship,
\* then marks the index.
Scan(w, f, has) ==
    /\ f \in Scanned /\ Begin(w, f, has, "mark") /\ Declare(f, has)
    /\ UNCHANGED <<indexVars, dirty, marks, lockVars, callVars, history>>

MarkScanned(w) ==
    /\ writer[w].pc = "mark"
    /\ MarkDirty /\ Done(w)
    /\ UNCHANGED <<declares, writes, indexVars, lockVars, callVars, history>>

-----------------------------------------------------------------------------
(* A class load passes the gate.                                           *)

Goto(t, pc) == call' = [call EXCEPT ![t].pc = pc]

NewCall == CallAt("dirty", marks, {})

Nested(t) == outer[t] # <<>>

Load(t) ==
    /\ call[t].pc = "idle"
    /\ call' = [call EXCEPT ![t] = NewCall]
    /\ UNCHANGED <<writerVars, indexVars, dirty, marks, lockVars, outer, memo,
                   panics, history>>

\* Mutant of ReadDirty: an index without a mark is read at once.
ReadDirtyOnly(t) ==
    /\ call[t].pc = "dirty"
    /\ Goto(t, IF dirty THEN "lock" ELSE "stamp")
    /\ UNCHANGED <<writerVars, indexVars, dirty, marks, lockVars, outer, memo,
                   panics, history>>

\* The mark is read first, then whether a rebuild is running.
ReadDirty(t) ==
    /\ call[t].pc = "dirty"
    /\ Goto(t, IF dirty THEN "lock" ELSE "rebuilding")
    /\ UNCHANGED <<writerVars, indexVars, dirty, marks, lockVars, outer, memo,
                   panics, history>>

ReadRebuilding(t) ==
    /\ call[t].pc = "rebuilding"
    /\ Goto(t, IF rebuilding THEN "lock" ELSE "stamp")
    /\ UNCHANGED <<writerVars, indexVars, dirty, marks, lockVars, outer, memo,
                   panics, history>>

\* Mutant of Available: the lock is not reentrant.
AvailableOnce(t) == holder = NoThread

Available(t) == holder \in {NoThread, t}

Lock(t) ==
    /\ call[t].pc = "lock" /\ Available(t)
    /\ holder' = t
    /\ Goto(t, "raise")
    /\ UNCHANGED <<writerVars, indexVars, dirty, marks, rebuilding, outer, memo,
                   panics, history>>

Raise(t) ==
    /\ call[t].pc = "raise"
    /\ rebuilding' = TRUE
    /\ Goto(t, "take")
    /\ UNCHANGED <<writerVars, indexVars, dirty, marks, holder, outer, memo,
                   panics, history>>

Take(t) ==
    /\ call[t].pc = "take"
    /\ dirty' = FALSE
    /\ IF dirty THEN taken' = marks /\ Goto(t, "snapshot")
                ELSE taken' = taken /\ Goto(t, "lower")
    /\ UNCHANGED <<writerVars, indexVars, marks, lockVars, outer, memo, panics, over>>

\* Mutant of Lower: every call lowers the flag, a nested one too.
LowerAlways(t) ==
    /\ call[t].pc = "lower"
    /\ rebuilding' = FALSE
    /\ over' = IF Nested(t) THEN over ELSE taken
    /\ Goto(t, "unlock")
    /\ UNCHANGED <<writerVars, indexVars, dirty, marks, holder, outer, memo,
                   panics, taken>>

\* Only the call that raised the flag lowers it: the outermost.
Lower(t) ==
    /\ call[t].pc = "lower"
    /\ IF Nested(t) THEN UNCHANGED <<rebuilding, over>>
                    ELSE rebuilding' = FALSE /\ over' = taken
    /\ Goto(t, "unlock")
    /\ UNCHANGED <<writerVars, indexVars, dirty, marks, holder, outer, memo,
                   panics, taken>>

\* Mutant of Unlock: a nested call frees the lock.
UnlockAlways(t) ==
    /\ call[t].pc = "unlock"
    /\ holder' = NoThread
    /\ Goto(t, IF call[t].panicked THEN "idle" ELSE "stamp")
    /\ UNCHANGED <<writerVars, indexVars, dirty, marks, rebuilding, outer, memo,
                   panics, history>>

Unlock(t) ==
    /\ call[t].pc = "unlock"
    /\ holder' = IF Nested(t) THEN t ELSE NoThread
    /\ Goto(t, IF call[t].panicked THEN "idle" ELSE "stamp")
    /\ UNCHANGED <<writerVars, indexVars, dirty, marks, rebuilding, outer, memo,
                   panics, history>>

-----------------------------------------------------------------------------
(* rebuild_laravel_pivot_index.                                            *)

SnapshotClasses(t) ==
    /\ call[t].pc = "snapshot"
    /\ call' = [call EXCEPT ![t] = CallAt("build", call[t].arrived, declares)]
    /\ UNCHANGED <<writerVars, indexVars, dirty, marks, lockVars, outer, memo,
                   panics, history>>

\* The rebuild loads the classes a relationship names, through the gate.
LoadNested(t) ==
    /\ call[t].pc = "build"
    /\ outer' = [outer EXCEPT ![t] = Append(@, [arrived |-> call[t].arrived,
                                                snapshot |-> call[t].snapshot])]
    /\ call' = [call EXCEPT ![t] = NewCall]
    /\ UNCHANGED <<writerVars, indexVars, dirty, marks, lockVars, memo, panics,
                   history>>

Built(t) ==
    /\ call[t].pc = "build"
    /\ Goto(t, "write")
    /\ UNCHANGED <<writerVars, indexVars, dirty, marks, lockVars, outer, memo,
                   panics, history>>

\* A class it loads makes the parser panic: every call of the thread unwinds.
Panic(t) ==
    /\ call[t].pc = "build" /\ panics < MaxPanics
    /\ panics' = panics + 1
    /\ outer' = [outer EXCEPT ![t] = <<>>]
    /\ call' = [call EXCEPT ![t] = Unwinding(call[t])]
    /\ UNCHANGED <<writerVars, indexVars, dirty, marks, lockVars, memo, history>>

\* replace: the index, then has_any, then the generation.
WriteIndex(t) ==
    /\ call[t].pc = "write"
    /\ index' = call[t].snapshot
    /\ Goto(t, "hasAny")
    /\ UNCHANGED <<writerVars, hasAny, generation, dirty, marks, lockVars, outer,
                   memo, panics, history>>

SetHasAny(t) ==
    /\ call[t].pc = "hasAny"
    /\ hasAny' = (call[t].snapshot # {})
    /\ Goto(t, "bump")
    /\ UNCHANGED <<writerVars, index, generation, dirty, marks, lockVars, outer,
                   memo, panics, history>>

Bump(t) ==
    /\ call[t].pc = "bump"
    /\ generation' = generation + 1
    /\ Goto(t, "lower")
    /\ UNCHANGED <<writerVars, index, hasAny, dirty, marks, lockVars, outer, memo,
                   panics, history>>

-----------------------------------------------------------------------------
(* Past the gate, the class is refined from the index or from the memo.    *)

\* The load is over; a nested one returns to the rebuild.
Return(t) ==
    IF Nested(t)
    THEN LET f == outer[t][Len(outer[t])]
         IN  /\ call' = [call EXCEPT ![t] = CallAt("build", f.arrived, f.snapshot)]
             /\ outer' = [outer EXCEPT ![t] = SubSeq(@, 1, Len(@) - 1)]
    ELSE call' = [call EXCEPT ![t] = NoCall] /\ UNCHANGED outer

ReadStamp(t) ==
    /\ call[t].pc = "stamp"
    /\ call' = [call EXCEPT ![t] = Refining(call[t], "probe", generation, FALSE)]
    /\ UNCHANGED <<writerVars, indexVars, dirty, marks, lockVars, outer, memo,
                   panics, history>>

Hit(t) == memo[t] # NoMemo /\ memo[t].stamp = call[t].stamp

\* A slot with this stamp is served as it is.
Probe(t) ==
    /\ call[t].pc = "probe"
    /\ IF Hit(t) THEN Return(t) ELSE Goto(t, "gate") /\ UNCHANGED outer
    /\ UNCHANGED <<writerVars, indexVars, dirty, marks, lockVars, memo, panics,
                   history>>

ReadHasAny(t) ==
    /\ call[t].pc = "gate"
    /\ call' = [call EXCEPT ![t] = Refining(call[t], "view", call[t].stamp, hasAny)]
    /\ UNCHANGED <<writerVars, indexVars, dirty, marks, lockVars, outer, memo,
                   panics, history>>

\* Mutant of View: the stamp is read when the slot is filled.
ViewStampLate(t) ==
    /\ call[t].pc = "view"
    /\ memo' = [memo EXCEPT ![t] =
                   [stamp |-> generation,
                    value |-> IF call[t].has THEN index ELSE {}]]
    /\ Return(t)
    /\ UNCHANGED <<writerVars, indexVars, dirty, marks, lockVars, panics, history>>

View(t) ==
    /\ call[t].pc = "view"
    /\ memo' = [memo EXCEPT ![t] =
                   [stamp |-> call[t].stamp,
                    value |-> IF call[t].has THEN index ELSE {}]]
    /\ Return(t)
    /\ UNCHANGED <<writerVars, indexVars, dirty, marks, lockVars, panics, history>>

-----------------------------------------------------------------------------

WriterStep(w) ==
    \/ \E f \in File, has \in BOOLEAN :
          Edit(w, f, has) \/ Parse(w, f, has) \/ Scan(w, f, has)
    \/ Refresh(w) \/ Consult(w) \/ Announce(w) \/ Apply(w) \/ MarkScanned(w)

GateStep(t) ==
    \/ ReadDirty(t) \/ ReadRebuilding(t) \/ Raise(t) \/ Take(t)
    \/ Lower(t) \/ Unlock(t)

RebuildStep(t) ==
    \/ SnapshotClasses(t) \/ WriteIndex(t) \/ SetHasAny(t) \/ Bump(t)

RefineStep(t) == ReadStamp(t) \/ Probe(t) \/ ReadHasAny(t) \/ View(t)

ThreadStep(t) ==
    \/ GateStep(t) \/ RebuildStep(t) \/ RefineStep(t)
    \/ Load(t) \/ Lock(t) \/ LoadNested(t) \/ Built(t) \/ Panic(t)

Next ==
    \/ \E w \in Writer : WriterStep(w)
    \/ \E t \in Thread : ThreadStep(t)

Spec == Init /\ [][Next]_vars

\* Threads run; a lock that is free again and again is acquired (parking_lot
\* hands a contended lock over); a rebuild loads finitely many classes.
Fairness ==
    \A t \in Thread :
       /\ WF_vars(GateStep(t) \/ RebuildStep(t) \/ RefineStep(t))
       /\ SF_vars(Lock(t)) /\ SF_vars(Built(t))

FairSpec == Spec /\ Fairness

-----------------------------------------------------------------------------
(* Properties.                                                             *)

CallTypes ==
    /\ call \in [Thread -> Call]
    /\ outer \in [Thread -> Seq(Frame)]
    /\ memo \in [Thread -> Memo \cup {NoMemo}]

\* Is t between its lock and its last unlock?
Inside(t) ==
    \/ Nested(t)
    \/ call[t].pc \in {"raise", "take", "snapshot", "build", "write", "hasAny",
                       "bump", "lower", "unlock"}

\* Every variable keeps its shape, the lock is held by the thread inside, and
\* a mark is taken before it is over and made before it is taken.
TypeOK ==
    /\ declares \subseteq File /\ writer \in [Writer -> Publication]
    /\ index \subseteq File /\ hasAny \in BOOLEAN /\ generation \in Nat
    /\ dirty \in BOOLEAN /\ rebuilding \in BOOLEAN
    /\ holder \in Thread \cup {NoThread}
    /\ \A t \in Thread : Inside(t) <=> holder = t
    /\ CallTypes
    /\ marks \in Nat /\ taken \in Nat /\ over \in Nat
    /\ over <= taken /\ taken <= marks
    /\ writes \in Nat /\ panics \in Nat

Passed(t) == call[t].pc \in {"stamp", "probe", "gate", "view"}

\* A load that came through the gate, other than one a rebuild itself makes,
\* reads an index for which every mark made before it arrived has been taken
\* by a rebuild that is over: it never reads the old index as current
\* (gated_index.rs:85-91, :97-99).
GateServes ==
    \A t \in Thread : Passed(t) /\ ~Nested(t) => call[t].arrived <= over

\* Has a rebuild written the index and not moved the generation yet?
Writing == \E t \in Thread : call[t].pc \in {"hasAny", "bump"}

\* A memo slot that would be served holds what the index holds, whichever
\* thread replaced the index while the slot was filled (gated_index.rs:64-65).
MemoIsCurrent ==
    \A t \in Thread :
       memo[t] # NoMemo /\ memo[t].stamp = generation /\ ~Writing
       => memo[t].value = index

\* Every class load returns, from a rebuild that loads classes and from one
\* that panicked too.
LoadsReturn == \A t \in Thread : call[t].pc # "idle" ~> call[t].pc = "idle"

-----------------------------------------------------------------------------
(* The gate as its callers see it.  The loads a rebuild makes belong to    *)
(* the load it is made for.                                                *)

FirstArrival(t) == IF Nested(t) THEN outer[t][1].arrived ELSE call[t].arrived

CallerOf(t) ==
    IF call[t].pc = "idle" THEN [role |-> "away"]
    ELSE IF call[t].panicked THEN [role |-> "fallen"]
    ELSE IF Passed(t) /\ ~Nested(t) THEN [role |-> "reader"]
    ELSE [role |-> "waiter", arrived |-> FirstArrival(t)]

Gate == INSTANCE RebuildGate WITH covered <- over, builder <- holder,
                                  caller <- [t \in Thread |-> CallerOf(t)]

\* The two flags and the reentrant lock are a gate: one thread rebuilds at a
\* time, whoever goes on to read finds every mark there was on its arrival dealt
\* with, and every caller gets away, past a rebuild that panicked and past the
\* loads a rebuild makes (gated_index.rs:85-115).
ImplementsGate == Gate!Spec

\* Once nothing is marked, rebuilding or being published, the index holds what
\* the published classes declare.
IndexIsFresh ==
    /\ ~dirty /\ ~rebuilding /\ \A w \in Writer : writer[w].pc = "idle"
    => index = declares
=============================================================================
