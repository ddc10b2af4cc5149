-------------------------- MODULE PublicationEpoch --------------------------
(***************************************************************************)
(* When an incremental slow pass may keep what an earlier pass reported:   *)
(* the counters of src/src/diagnostics/incremental/epoch.rs, the pass of   *)
(* incremental/mod.rs and delivery.rs that consults them, and the writers  *)
(* of the workspace index that move them (parser/ast_update.rs and         *)
(* ast_publish.rs, and the callers of note_change).                        *)
(*                                                                         *)
(* The index is one version number per item: the published classes and     *)
(* functions of each file, and everything else a diagnostic can depend on, *)
(* which is one more item, Project.  What a pass kept or computed is       *)
(* described by the versions it was computed on: a set of versions for     *)
(* each item, because it reads an item at any time and more than once.     *)
(* What it reads of its own file is left out: a partial pass diagnoses     *)
(* that file's edits again.                                                *)
(***************************************************************************)
EXTENDS Integers, FiniteSets

CONSTANTS
    File,       \* the files of the workspace
    Document,   \* those the editor opens
    Batches,    \* the sets of files a background parse publishes together
    Project,    \* the rest of the project's state
    Publisher,  \* threads that write the index
    Passer,     \* tasks that run slow passes
    None,       \* an absent entry, snapshot or baseline
    MaxWrites,  \* bound: publications and other changes
    MaxOpens    \* bound: documents opened

Item == File \cup {Project}
Snapshot == [generation : Nat, own : Nat]
Reads == [Item -> SUBSET Nat]
Baseline == [epoch : Snapshot, seen : Reads]

ASSUME EpochAssumption ==
    /\ Document \subseteq File /\ Batches \subseteq SUBSET File
    /\ Project \notin File /\ IsFiniteSet(Publisher)
    /\ None \notin Nat /\ None \notin Snapshot /\ None \notin Baseline
    /\ None \notin Document
    /\ MaxWrites \in Nat /\ MaxOpens \in Nat

VARIABLES
    open,        \* open_files
    closing,     \* the document didClose is clearing, and how far it is
    opens,
    generation,  \* EpochState
    active,
    own,         \* [File -> Nat or None]
    mixed,       \* history: the documents that a publication counted as
                 \* their own although it published other files as well
    index,       \* [Item -> Nat]: the version of each item
    writes,
    pub,         \* [Publisher -> Publication]
    pass,        \* [Passer -> Pass]
    baseline     \* slow_baselines: [Document -> Baseline or None]

Publication == [pc : {"idle", "checked", "writing", "unnoted"},
                uris : SUBSET File, tracked : SUBSET File, todo : SUBSET File]
NoPublication == [pc |-> "idle", uris |-> {}, tracked |-> {}, todo |-> {}]
Selected(S) == [pc |-> "checked", uris |-> S, tracked |-> {}, todo |-> {}]
Change == [pc |-> "unnoted", uris |-> {}, tracked |-> {}, todo |-> {}]

Nothing == [i \in Item |-> {}]
Pass == [pc : {"idle", "begin", "reading", "check", "store"},
         uri : Document \cup {None},
         base : Baseline \cup {None},   \* the baseline it started from
         epoch : Snapshot \cup {None},  \* its own snapshot
         seen : Reads]
NoPass == [pc |-> "idle", uri |-> None, base |-> None, epoch |-> None,
           seen |-> Nothing]

documentVars == <<open, closing, opens>>
epochVars == <<generation, active, own, mixed>>
indexVars == <<index, writes, pub>>
vars == <<documentVars, epochVars, indexVars, pass, baseline>>

Init ==
    /\ open = {} /\ closing = {} /\ opens = 0
    /\ generation = 0 /\ active = 0
    /\ own = [f \in File |-> None] /\ mixed = {}
    /\ index = [i \in Item |-> 0] /\ writes = 0
    /\ pub = [t \in Publisher |-> NoPublication]
    /\ pass = [p \in Passer |-> NoPass]
    /\ baseline = [f \in Document |-> None]

-----------------------------------------------------------------------------
(* Documents.                                                              *)

Open(f) ==
    /\ f \notin open /\ closing = {} /\ opens < MaxOpens
    /\ open' = open \cup {f} /\ opens' = opens + 1
    /\ UNCHANGED <<closing, epochVars, indexVars, pass, baseline>>

Close(f) ==
    /\ f \in open /\ closing = {}
    /\ open' = open \ {f} /\ closing' = {<<f, "baseline">>}
    /\ UNCHANGED <<opens, epochVars, indexVars, pass, baseline>>

\* clear_diagnostics_for_file drops the baseline, ...
CloseBaseline(f) ==
    /\ closing = {<<f, "baseline">>}
    /\ baseline' = [baseline EXCEPT ![f] = None]
    /\ closing' = {<<f, "epoch">>}
    /\ UNCHANGED <<open, opens, epochVars, indexVars, pass>>

\* ... then stops tracking the file.
CloseForget(f) ==
    /\ closing = {<<f, "epoch">>}
    /\ own' = [own EXCEPT ![f] = None]
    /\ closing' = {}
    /\ UNCHANGED <<open, opens, generation, active, mixed, indexVars, pass,
                   baseline>>

-----------------------------------------------------------------------------
(* Writers of the index.                                                   *)

\* An edited document, parsed from its buffer, ...
SelectEdit(t, f) ==
    /\ pub[t].pc = "idle" /\ f \in open /\ writes < MaxWrites
    /\ writes' = writes + 1
    /\ pub' = [pub EXCEPT ![t] = Selected({f})]
    /\ UNCHANGED <<documentVars, epochVars, index, pass, baseline>>

\* ... or a batch parsed from disk, without the files that are open by now.
SelectBatch(t, B) ==
    /\ pub[t].pc = "idle" /\ B \ open # {} /\ writes < MaxWrites
    /\ writes' = writes + 1
    /\ pub' = [pub EXCEPT ![t] = Selected(B \ open)]
    /\ UNCHANGED <<documentVars, epochVars, index, pass, baseline>>

Tracked(S) == {f \in S : own[f] # None}

Count(S) == [f \in File |-> IF f \in Tracked(S) THEN own[f] + 1 ELSE own[f]]

\* begin_publication.  (A batch selected before the editor opened one of its
\* files counts as that document's own edit, whatever else it publishes.)
Begin(t) ==
    /\ pub[t].pc = "checked"
    /\ generation' = generation + 1 /\ active' = active + 1
    /\ own' = Count(pub[t].uris)
    /\ mixed' = mixed \cup {f \in Tracked(pub[t].uris) : pub[t].uris # {f}}
    /\ pub' = [pub EXCEPT ![t] = [pc |-> "writing", uris |-> pub[t].uris,
                                  tracked |-> Tracked(pub[t].uris),
                                  todo |-> pub[t].uris]]
    /\ UNCHANGED <<documentVars, index, writes, pass, baseline>>

WriteFile(t, f) ==
    /\ pub[t].pc = "writing" /\ f \in pub[t].todo
    /\ index' = [index EXCEPT ![f] = @ + 1]
    /\ pub' = [pub EXCEPT ![t].todo = @ \ {f}]
    /\ UNCHANGED <<documentVars, epochVars, writes, pass, baseline>>

\* The guard is dropped once every index is written.
End(t) ==
    /\ pub[t].pc = "writing" /\ pub[t].todo = {}
    /\ generation' = generation + 1 /\ active' = active - 1
    /\ own' = Count(pub[t].tracked)
    /\ pub' = [pub EXCEPT ![t] = NoPublication]
    /\ UNCHANGED <<documentVars, mixed, index, writes, pass, baseline>>

\* Mutant of NoteChange: the change is noted before it is written.
NoteFirst(t) ==
    /\ \/ /\ pub[t].pc = "idle" /\ writes < MaxWrites
          /\ writes' = writes + 1 /\ generation' = generation + 1
          /\ pub' = [pub EXCEPT ![t] = Change]
          /\ UNCHANGED index
       \/ /\ pub[t].pc = "unnoted"
          /\ index' = [index EXCEPT ![Project] = @ + 1]
          /\ pub' = [pub EXCEPT ![t] = NoPublication]
          /\ UNCHANGED <<writes, generation>>
    /\ UNCHANGED <<documentVars, active, own, mixed, pass, baseline>>

\* Any other change: written first, then noted.
NoteChange(t) ==
    /\ \/ /\ pub[t].pc = "idle" /\ writes < MaxWrites
          /\ writes' = writes + 1
          /\ index' = [index EXCEPT ![Project] = @ + 1]
          /\ pub' = [pub EXCEPT ![t] = Change]
          /\ UNCHANGED generation
       \/ /\ pub[t].pc = "unnoted"
          /\ generation' = generation + 1
          /\ pub' = [pub EXCEPT ![t] = NoPublication]
          /\ UNCHANGED <<writes, index>>
    /\ UNCHANGED <<documentVars, active, own, mixed, pass, baseline>>

-----------------------------------------------------------------------------
(* A slow pass.                                                            *)

OnlyOwnChangesSince(now, earlier) ==
    now.generation - earlier.generation = now.own - earlier.own

\* publish_diagnostics_for_file clones the baseline, unless a full pass was
\* asked for.
Take(p, f) ==
    /\ pass[p].pc = "idle" /\ f \in open
    /\ \E base \in {baseline[f], None} :
          pass' = [pass EXCEPT ![p] = [pc |-> "begin", uri |-> f, base |-> base,
                                       epoch |-> None, seen |-> Nothing]]
    /\ UNCHANGED <<documentVars, epochVars, indexVars, baseline>>

\* Mutant of OwnNow: the counter is read without being created.
OwnAsIs(f) == own[f]

OwnNow(f) == IF own[f] = None THEN 0 ELSE own[f]

\* What a snapshot of f taken in this state records.
Now(f) == [generation |-> generation, own |-> OwnNow(f)]

Without(reads, f) == [reads EXCEPT ![f] = {}]

Reading(f, epoch, seen) == [pc |-> "reading", uri |-> f, base |-> None,
                            epoch |-> epoch, seen |-> seen]

\* The snapshot is taken, and thereby the file tracked, unless a publication
\* is writing; a pass whose file's symbol map is behind the text does without
\* it too.  A partial pass keeps what its baseline reported, and there are
\* other reasons (units.rs, the declarations) to run a full one.
Start(p, f) ==
    /\ pass[p].pc = "begin" /\ pass[p].uri = f
    /\ own' = IF active > 0 THEN own ELSE [own EXCEPT ![f] = OwnNow(f)]
    /\ \/ pass' = [pass EXCEPT ![p] = Reading(f, None, Nothing)]
       \/ /\ active = 0
          /\ pass' = [pass EXCEPT ![p] = Reading(f, Now(f), Nothing)]
       \/ /\ active = 0 /\ pass[p].base # None
          /\ OnlyOwnChangesSince(Now(f), pass[p].base.epoch)
          /\ pass' = [pass EXCEPT ![p] =
                         Reading(f, Now(f), Without(pass[p].base.seen, f))]
    /\ UNCHANGED <<documentVars, generation, active, mixed, indexVars, baseline>>

Read(p, i) ==
    /\ pass[p].pc = "reading" /\ i # pass[p].uri
    /\ pass' = [pass EXCEPT ![p].seen[i] = @ \cup {index[i]}]
    /\ UNCHANGED <<documentVars, epochVars, indexVars, baseline>>

UnchangedSince(e) == active = 0 /\ generation = e.generation

\* The pass can serve as a baseline only if nothing at all moved while it ran.
Finish(p) ==
    /\ pass[p].pc = "reading"
    /\ LET e == pass[p].epoch
           kept == IF e # None /\ UnchangedSince(e) THEN e ELSE None
       IN  pass' = [pass EXCEPT ![p] = [pc |-> "check", uri |-> pass[p].uri,
                                        base |-> None, epoch |-> kept,
                                        seen |-> pass[p].seen]]
    /\ UNCHANGED <<documentVars, epochVars, indexVars, baseline>>

\* Is the file still open? ...
Check(p) ==
    /\ pass[p].pc = "check"
    /\ pass' = [pass EXCEPT ![p] = IF pass[p].uri \in open THEN [@ EXCEPT !.pc = "store"]
                                   ELSE NoPass]
    /\ UNCHANGED <<documentVars, epochVars, indexVars, baseline>>

\* ... then the baseline is stored; without one the previous one stays.
Store(p, f) ==
    /\ pass[p].pc = "store" /\ pass[p].uri = f
    /\ baseline' = IF pass[p].epoch = None THEN baseline
                   ELSE [baseline EXCEPT ![f] = [epoch |-> pass[p].epoch,
                                                 seen |-> pass[p].seen]]
    /\ pass' = [pass EXCEPT ![p] = NoPass]
    /\ UNCHANGED <<documentVars, epochVars, indexVars>>

-----------------------------------------------------------------------------

DocumentStep(f) == Open(f) \/ Close(f) \/ CloseBaseline(f) \/ CloseForget(f)

PublisherStep(t) ==
    \/ \E f \in Document : SelectEdit(t, f)
    \/ \E B \in Batches : SelectBatch(t, B)
    \/ Begin(t) \/ End(t) \/ NoteChange(t)
    \/ \E f \in File : WriteFile(t, f)

PassStep(p) ==
    \/ \E f \in Document : Take(p, f) \/ Start(p, f) \/ Store(p, f)
    \/ \E i \in Item : Read(p, i)
    \/ Finish(p) \/ Check(p)

Next ==
    \/ \E f \in Document : DocumentStep(f)
    \/ \E t \in Publisher : PublisherStep(t)
    \/ \E p \in Passer : PassStep(p)

Spec == Init /\ [][Next]_vars

-----------------------------------------------------------------------------
(* Properties.                                                             *)

\* Every variable keeps its shape; a snapshot always has both its counters.
TypeOK ==
    /\ open \subseteq Document /\ opens \in Nat
    /\ closing \subseteq Document \X {"baseline", "epoch"}
    /\ generation \in Nat /\ active \in Int
    /\ own \in [File -> Nat \cup {None}] /\ mixed \subseteq File
    /\ index \in [Item -> Nat] /\ writes \in Nat
    /\ pub \in [Publisher -> Publication]
    /\ pass \in [Passer -> Pass]
    /\ baseline \in [Document -> Baseline \cup {None}]

\* Is a change of the project's state written and not noted yet?
Unnoted == \E t \in Publisher : pub[t].pc = "unnoted"

\* The versions of `seen` are the index's, f's own and those about to be
\* noted left aside.
Current(seen, f) ==
    \A i \in Item \ {f} : (i = Project /\ Unnoted) \/ seen[i] \subseteq {index[i]}

\* A baseline a pass starting now would build on holds nothing computed on
\* another state of the rest of the index, nor half on one and half on
\* another: whatever publications, closes, reopens and other passes there
\* were since, and however the pass that recorded it overlapped them
\* (epoch.rs:3-17).  Left aside are the documents some batch took for their
\* own edit together with other files.
BaselineIsCurrent ==
    \A f \in Document \ mixed :
       /\ baseline[f] # None /\ active = 0
       /\ OnlyOwnChangesSince(Now(f), baseline[f].epoch)
       => Current(baseline[f].seen, f)
=============================================================================
