----------------------- MODULE PublicationEpochProofs -----------------------
(***************************************************************************)
(* BaselineIsCurrent for every number of files, documents, threads and     *)
(* passes, whatever the batches publish together.                          *)
(*                                                                         *)
(* The argument counts, for a snapshot e of f, the steps of the generation *)
(* since e that were not steps of f's own counter.  That number (Foreign)  *)
(* never decreases, is positive from the start of any publication that is  *)
(* not f's own, and grows when a change is noted; so while it is zero, the *)
(* rest of the index is what it was when e was taken.                      *)
(***************************************************************************)
EXTENDS PublicationEpoch, FiniteSetTheorems, TLAPS

Foreign(f, e) == (generation - e.generation) - (OwnNow(f) - e.own)

\* What is true of a snapshot of f and of the reads made since.
Sound(f, e, seen) ==
    /\ Foreign(f, e) >= 0
    /\ Foreign(f, e) = 0 => Current(seen, f)
    /\ \A t \in Publisher :
          pub[t].pc = "writing" /\ f \notin pub[t].tracked => Foreign(f, e) > 0

\* A publication that counted a document as its own writes nothing else,
\* unless the document is a mixed one.
OwnPublications ==
    \A t \in Publisher : pub[t].pc = "writing" =>
       \A f \in pub[t].tracked \ mixed : pub[t].todo \subseteq {f}

Writing == {t \in Publisher : pub[t].pc = "writing"}
ActiveCounts == active = Cardinality(Writing)

PassShape ==
    \A p \in Passer : IF pass[p].pc = "idle" THEN pass[p] = NoPass
                      ELSE pass[p].uri \in Document

SoundBaselines ==
    \A f \in Document \ mixed : baseline[f] # None =>
       Sound(f, baseline[f].epoch, baseline[f].seen)

PassSound(q) ==
    /\ q.base # None => Sound(q.uri, q.base.epoch, q.base.seen)
    /\ q.epoch # None => Sound(q.uri, q.epoch, q.seen)

SoundPasses ==
    \A p \in Passer : pass[p].pc # "idle" /\ pass[p].uri \notin mixed =>
       PassSound(pass[p])

\* The inductive invariant.
IInv ==
    /\ TypeOK /\ PassShape /\ OwnPublications /\ ActiveCounts
    /\ SoundBaselines /\ SoundPasses

-----------------------------------------------------------------------------
(* Type correctness.                                                       *)

LEMMA InitType == Init => TypeOK
  BY EpochAssumption DEF Init, TypeOK, Publication, NoPublication, Pass, NoPass,
                         Reads, Nothing, Item

LEMMA DocumentType ==
    ASSUME TypeOK, NEW f \in Document, DocumentStep(f) PROVE TypeOK'
<1> USE EpochAssumption DEF TypeOK, documentVars, epochVars, indexVars
<1>1. CASE Open(f)
  BY <1>1 DEF Open
<1>2. CASE Close(f)
  BY <1>2 DEF Close
<1>3. CASE CloseBaseline(f)
  BY <1>3 DEF CloseBaseline
<1>4. CASE CloseForget(f)
  BY <1>4 DEF CloseForget
<1> QED  BY <1>1, <1>2, <1>3, <1>4 DEF DocumentStep

LEMMA CountType ==
    ASSUME TypeOK, NEW S PROVE Count(S) \in [File -> Nat \cup {None}]
  BY DEF TypeOK, Count, Tracked

LEMMA PublisherType ==
    ASSUME TypeOK, NEW t \in Publisher, PublisherStep(t) PROVE TypeOK'
<1> USE DEF TypeOK, documentVars
<1>1. ASSUME NEW f \in Document, SelectEdit(t, f) PROVE TypeOK'
  BY <1>1, EpochAssumption DEF SelectEdit, epochVars, Publication, Selected
<1>2. ASSUME NEW B \in Batches, SelectBatch(t, B) PROVE TypeOK'
  BY <1>2, EpochAssumption DEF SelectBatch, epochVars, Publication, Selected
<1>3. CASE Begin(t)
  <2>1. own' \in [File -> Nat \cup {None}]
    BY <1>3, CountType DEF Begin
  <2>2. pub' \in [Publisher -> Publication]
    BY <1>3 DEF Begin, Publication, Tracked
  <2>3. mixed' \subseteq File
    <3>1. pub[t].uris \subseteq File
      BY DEF Publication
    <3>2. Tracked(pub[t].uris) \subseteq File
      BY <3>1 DEF Tracked
    <3> QED  BY <1>3, <3>2 DEF Begin
  <2> QED  BY <1>3, <2>1, <2>2, <2>3 DEF Begin
<1>4. CASE End(t)
  <2>1. own' \in [File -> Nat \cup {None}]
    BY <1>4, CountType DEF End
  <2>2. pub' \in [Publisher -> Publication]
    BY <1>4 DEF End, Publication, NoPublication
  <2> QED  BY <1>4, <2>1, <2>2 DEF End
<1>5. CASE NoteChange(t)
  BY <1>5 DEF NoteChange, Publication, NoPublication, Change, Item
<1>6. ASSUME NEW f \in File, WriteFile(t, f) PROVE TypeOK'
  BY <1>6 DEF WriteFile, epochVars, Publication, Item
<1> QED  BY <1>1, <1>2, <1>3, <1>4, <1>5, <1>6 DEF PublisherStep

LEMMA PassType ==
    ASSUME TypeOK, NEW p \in Passer, PassStep(p) PROVE TypeOK'
<1> USE DEF TypeOK, documentVars, epochVars, indexVars
<1>1. ASSUME NEW f \in Document, Take(p, f) PROVE TypeOK'
  BY <1>1 DEF Take, Pass, Nothing, Reads
<1>2. ASSUME NEW f \in Document, Start(p, f) PROVE TypeOK'
  <2>1. Now(f) \in Snapshot /\ OwnNow(f) \in Nat
    BY EpochAssumption DEF Now, OwnNow, Snapshot
  <2>2. own' \in [File -> Nat \cup {None}]
    BY <1>2, <2>1 DEF Start
  <2>3. pass[p].base # None => Without(pass[p].base.seen, f) \in Reads
    BY DEF Pass, Baseline, Without, Reads
  <2>4. pass' \in [Passer -> Pass]
    BY <1>2, <2>1, <2>3 DEF Start, Pass, Reading, Nothing, Reads
  <2> QED  BY <1>2, <2>2, <2>4 DEF Start
<1>3. ASSUME NEW f \in Document, Store(p, f) PROVE TypeOK'
  <2>1. pass[p].epoch # None =>
           [epoch |-> pass[p].epoch, seen |-> pass[p].seen] \in Baseline
    BY DEF Pass, Baseline
  <2>2. baseline' \in [Document -> Baseline \cup {None}]
    BY <1>3, <2>1 DEF Store
  <2>3. NoPass \in Pass
    BY DEF NoPass, Pass, Nothing, Reads
  <2> QED  BY <1>3, <2>2, <2>3 DEF Store
<1>4. ASSUME NEW i \in Item, Read(p, i) PROVE TypeOK'
  <2> DEFINE s == [pass[p].seen EXCEPT ![i] = @ \cup {index[i]}]
  <2>1. s \in Reads
    BY DEF Pass, Reads
  <2>2. pass' = [pass EXCEPT ![p].seen = s]
    BY <1>4 DEF Read
  <2> HIDE DEF s
  <2>3. pass' \in [Passer -> Pass]
    BY <2>1, <2>2 DEF Pass
  <2> QED  BY <1>4, <2>3 DEF Read
<1>5. CASE Finish(p)
  BY <1>5 DEF Finish, Pass
<1>6. CASE Check(p)
  <2>1. NoPass \in Pass
    BY DEF NoPass, Pass, Nothing, Reads
  <2> QED  BY <1>6, <2>1 DEF Check, Pass
<1> QED  BY <1>1, <1>2, <1>3, <1>4, <1>5, <1>6 DEF PassStep

LEMMA NextType == TypeOK /\ [Next]_vars => TypeOK'
<1>1. CASE UNCHANGED vars
  BY <1>1 DEF vars, documentVars, epochVars, indexVars, TypeOK
<1> QED  BY <1>1, DocumentType, PublisherType, PassType DEF Next

\* Every reachable state has the declared shape.
THEOREM TypeCorrect == Spec => []TypeOK
  BY InitType, NextType, PTL DEF Spec

-----------------------------------------------------------------------------
(* The shape of passes and publications.                                   *)

LEMMA ShapeStep == TypeOK /\ PassShape /\ [Next]_vars => PassShape'
<1> SUFFICES ASSUME TypeOK, PassShape, [Next]_vars PROVE PassShape'
  OBVIOUS
<1> USE DEF PassShape, TypeOK
<1>1. CASE UNCHANGED pass
  BY <1>1
<1>2. ASSUME NEW p \in Passer, PassStep(p) PROVE PassShape'
  <2>1. ASSUME NEW f \in Document, Take(p, f) \/ Start(p, f) \/ Store(p, f)
        PROVE  PassShape'
    BY <2>1 DEF Take, Start, Store, Reading, NoPass
  <2>2. ASSUME NEW i \in Item, Read(p, i) PROVE PassShape'
    BY <2>2 DEF Read
  <2>3. CASE Finish(p)
    <3>1. pass'[p].uri = pass[p].uri /\ pass[p].pc = "reading"
      BY <2>3 DEF Finish
    <3>2. pass'[p].pc = "check" /\ \A q \in Passer \ {p} : pass'[q] = pass[q]
      BY <2>3 DEF Finish
    <3> QED  BY <3>1, <3>2
  <2>4. CASE Check(p)
    <3>1. pass[p].pc = "check" /\ \A q \in Passer \ {p} : pass'[q] = pass[q]
      BY <2>4 DEF Check
    <3>2. pass'[p] = NoPass \/ (pass'[p].pc = "store" /\ pass'[p].uri = pass[p].uri)
      BY <2>4 DEF Check
    <3>3. NoPass.pc = "idle"
      BY DEF NoPass
    <3> QED  BY <3>1, <3>2, <3>3
  <2> QED  BY <1>2, <2>1, <2>2, <2>3, <2>4 DEF PassStep
<1>3. ASSUME NEW f \in Document, DocumentStep(f) PROVE UNCHANGED pass
  BY <1>3 DEF DocumentStep, Open, Close, CloseBaseline, CloseForget
<1>4. ASSUME NEW t \in Publisher, PublisherStep(t) PROVE UNCHANGED pass
  BY <1>4 DEF PublisherStep, SelectEdit, SelectBatch, Begin, End, NoteChange,
              WriteFile
<1> QED  BY <1>1, <1>2, <1>3, <1>4 DEF Next, vars

\* Once mixed, a document stays so.
LEMMA MixedGrows == [Next]_vars => mixed \subseteq mixed'
<1>1. ASSUME NEW t \in Publisher, PublisherStep(t) PROVE mixed \subseteq mixed'
  BY <1>1 DEF PublisherStep, SelectEdit, SelectBatch, Begin, End, NoteChange, WriteFile, epochVars
<1>2. ASSUME NEW f \in Document, DocumentStep(f) PROVE UNCHANGED mixed
  BY <1>2 DEF DocumentStep, Open, Close, CloseBaseline, CloseForget, epochVars
<1>3. ASSUME NEW p \in Passer, PassStep(p) PROVE UNCHANGED mixed
  BY <1>3 DEF PassStep, Take, Start, Store, Read, Finish, Check, epochVars
<1> QED  BY <1>1, <1>2, <1>3 DEF Next, vars, epochVars

LEMMA PublicationsStep ==
    ASSUME TypeOK, OwnPublications, [Next]_vars PROVE OwnPublications'
<1> USE DEF OwnPublications, TypeOK
<1>m. mixed \subseteq mixed'
  BY MixedGrows
<1>1. CASE UNCHANGED pub
  BY <1>m, <1>1
<1>2. ASSUME NEW t \in Publisher, PublisherStep(t) PROVE OwnPublications'
  <2>1. ASSUME NEW f \in Document, SelectEdit(t, f) PROVE OwnPublications'
    BY <1>m, <2>1 DEF SelectEdit, Selected
  <2>2. ASSUME NEW B \in Batches, SelectBatch(t, B) PROVE OwnPublications'
    BY <1>m, <2>2 DEF SelectBatch, Selected
  <2>3. CASE Begin(t)
    <3>1. \A f \in Tracked(pub[t].uris) \ mixed' : pub[t].uris = {f}
      BY <2>3 DEF Begin
    <3>2. /\ pub'[t].tracked = Tracked(pub[t].uris) /\ pub'[t].todo = pub[t].uris
          /\ \A u \in Publisher \ {t} : pub'[u] = pub[u]
      BY <2>3 DEF Begin
    <3> QED  BY <1>m, <3>1, <3>2
  <2>4. CASE End(t) \/ NoteChange(t)
    BY <1>m, <2>4 DEF End, NoteChange, NoPublication, Change
  <2>5. ASSUME NEW f \in File, WriteFile(t, f) PROVE OwnPublications'
    <3>1. \A u \in Publisher : /\ pub'[u].todo \subseteq pub[u].todo
                               /\ pub'[u].tracked = pub[u].tracked
                               /\ pub'[u].pc = pub[u].pc
      BY <2>5 DEF WriteFile, Publication
    <3> QED  BY <1>m, <3>1
  <2> QED  BY <1>2, <2>1, <2>2, <2>3, <2>4, <2>5 DEF PublisherStep
<1>3. ASSUME NEW f \in Document, DocumentStep(f) PROVE UNCHANGED pub
  BY <1>3 DEF DocumentStep, Open, Close, CloseBaseline, CloseForget, indexVars
<1>4. ASSUME NEW p \in Passer, PassStep(p) PROVE UNCHANGED pub
  BY <1>4 DEF PassStep, Take, Start, Store, Read, Finish, Check, indexVars
<1> QED  BY <1>1, <1>2, <1>3, <1>4 DEF Next, vars, indexVars

LEMMA ActiveStep ==
    ASSUME TypeOK, ActiveCounts, [Next]_vars
    PROVE  ActiveCounts'
<1> USE DEF TypeOK
<1>1. IsFiniteSet(Writing)
  BY EpochAssumption, FS_Subset DEF Writing
<1>2. CASE Writing' = Writing /\ active' = active
  BY <1>2 DEF ActiveCounts
<1>3. ASSUME NEW t \in Publisher, Begin(t) PROVE ActiveCounts'
  <2>1. t \notin Writing /\ Writing' = Writing \cup {t} /\ active' = active + 1
    BY <1>3 DEF Begin, Writing
  <2> QED  BY <1>1, <2>1, FS_AddElement DEF ActiveCounts
<1>4. ASSUME NEW t \in Publisher, End(t) PROVE ActiveCounts'
  <2>1. t \in Writing /\ Writing' = Writing \ {t} /\ active' = active - 1
    BY <1>4 DEF End, Writing, NoPublication
  <2> QED  BY <1>1, <2>1, FS_RemoveElement DEF ActiveCounts
<1>5. ASSUME NEW t \in Publisher,
             \/ \E f \in Document : SelectEdit(t, f)
             \/ \E B \in Batches : SelectBatch(t, B)
             \/ NoteChange(t)
             \/ \E f \in File : WriteFile(t, f)
      PROVE  Writing' = Writing /\ active' = active
  <2>1. ASSUME NEW f \in Document, SelectEdit(t, f)
        PROVE  Writing' = Writing /\ active' = active
    BY <2>1 DEF SelectEdit, Writing, Selected, epochVars
  <2>2. ASSUME NEW B \in Batches, SelectBatch(t, B)
        PROVE  Writing' = Writing /\ active' = active
    BY <2>2 DEF SelectBatch, Writing, Selected, epochVars
  <2>3. CASE NoteChange(t)
    BY <2>3 DEF NoteChange, Writing, Change, NoPublication
  <2>4. ASSUME NEW f \in File, WriteFile(t, f)
        PROVE  Writing' = Writing /\ active' = active
    <3>1. \A u \in Publisher : pub'[u].pc = pub[u].pc
      BY <2>4 DEF WriteFile, Publication
    <3> QED  BY <2>4, <3>1 DEF Writing, WriteFile, epochVars
  <2> QED  BY <1>5, <2>1, <2>2, <2>3, <2>4
<1>6. ASSUME NEW f \in Document, DocumentStep(f)
      PROVE  Writing' = Writing /\ active' = active
  BY <1>6 DEF DocumentStep, Open, Close, CloseBaseline, CloseForget, Writing,
              epochVars, indexVars
<1>7. ASSUME NEW p \in Passer, PassStep(p)
      PROVE  Writing' = Writing /\ active' = active
  BY <1>7 DEF PassStep, Take, Start, Store, Read, Finish, Check, Writing,
              epochVars, indexVars
<1>8. CASE UNCHANGED vars
  BY <1>8, <1>2 DEF vars, epochVars, indexVars, Writing
<1> QED
  BY <1>2, <1>3, <1>4, <1>5, <1>6, <1>7, <1>8 DEF Next, PublisherStep

-----------------------------------------------------------------------------
(* What was sound of a snapshot stays sound through every step.            *)

LEMMA SoundKept ==
    ASSUME TypeOK, OwnPublications, [Next]_vars,
           NEW f \in Document \ mixed, NEW e \in Snapshot, NEW seen \in Reads,
           Sound(f, e, seen)
    PROVE  Sound(f, e, seen)'
<1> USE EpochAssumption DEF TypeOK, Snapshot
<1>a. OwnNow(f) \in Nat
  BY DEF OwnNow
<1>1. ASSUME UNCHANGED <<generation, index, pub>>, OwnNow(f)' \in Nat,
             OwnNow(f)' <= OwnNow(f)
      PROVE  Sound(f, e, seen)'
  <2>1. Foreign(f, e)' >= Foreign(f, e) /\ Foreign(f, e)' \in Int
    BY <1>a, <1>1 DEF Foreign
  <2>2. Current(seen, f)' = Current(seen, f)
    BY <1>1 DEF Current, Unnoted
  <2> QED  BY <1>a, <1>1, <2>1, <2>2 DEF Sound, Foreign
<1>2. ASSUME NEW t \in Publisher, PublisherStep(t) PROVE Sound(f, e, seen)'
  <2>1. ASSUME \/ \E g \in Document : SelectEdit(t, g)
               \/ \E B \in Batches : SelectBatch(t, B)
        PROVE  Sound(f, e, seen)'
    <3>1. UNCHANGED <<generation, own, index>>
      BY <2>1 DEF SelectEdit, SelectBatch, epochVars
    <3>2. \A u \in Publisher :
             /\ pub'[u].pc = "writing" => pub'[u] = pub[u]
             /\ (pub'[u].pc = "unnoted") = (pub[u].pc = "unnoted")
      BY <2>1 DEF SelectEdit, SelectBatch, Selected
    <3>3. Unnoted' = Unnoted
      BY <3>2 DEF Unnoted
    <3>4. Foreign(f, e)' = Foreign(f, e) /\ Current(seen, f)' = Current(seen, f)
      BY <3>1, <3>3 DEF Foreign, OwnNow, Current
    <3> QED  BY <3>2, <3>4 DEF Sound
  <2>2. ASSUME Begin(t) \/ End(t) PROVE Sound(f, e, seen)'
    <3>1. generation' = generation + 1 /\ index' = index
      BY <2>2 DEF Begin, End
    <3>2. Foreign(f, e)' \in {Foreign(f, e), Foreign(f, e) + 1}
      BY <1>a, <2>2, <3>1 DEF Begin, End, Foreign, OwnNow, Count, Tracked
    <3>3. Begin(t) /\ f \notin pub'[t].tracked => Foreign(f, e)' = Foreign(f, e) + 1
      BY <1>a, <3>1 DEF Begin, Foreign, OwnNow, Count, Tracked
    <3>4. \A u \in Publisher \ {t} : pub'[u] = pub[u]
      BY <2>2 DEF Begin, End
    <3>5. pub'[t].pc # "unnoted" /\ pub[t].pc # "unnoted"
      BY <2>2 DEF Begin, End, NoPublication
    <3>6. Current(seen, f)' = Current(seen, f)
      BY <3>1, <3>4, <3>5 DEF Current, Unnoted
    <3>7. End(t) => pub'[t].pc # "writing"
      BY DEF End, NoPublication
    <3>8. Foreign(f, e) \in Int
      BY <1>a DEF Foreign
    <3> QED
      BY <2>2, <3>2, <3>3, <3>4, <3>6, <3>7, <3>8 DEF Sound
  <2>3. CASE NoteChange(t)
    <3>1. CASE pub[t].pc = "idle"
      <4>1. /\ pub' = [pub EXCEPT ![t] = Change]
            /\ index' = [index EXCEPT ![Project] = index[Project] + 1]
            /\ UNCHANGED <<generation, own>>
        BY <2>3, <3>1 DEF NoteChange
      <4>2. Unnoted'
        BY <4>1 DEF Unnoted, Change
      <4>3. Current(seen, f) => Current(seen, f)'
        BY <4>1, <4>2 DEF Current, Item
      <4>4. \A u \in Publisher : pub'[u].pc = "writing" => pub'[u] = pub[u]
        BY <4>1 DEF Change
      <4>5. Foreign(f, e)' = Foreign(f, e)
        BY <4>1 DEF Foreign, OwnNow
      <4> QED  BY <4>3, <4>4, <4>5 DEF Sound
    <3>2. CASE pub[t].pc = "unnoted"
      <4>1. generation' = generation + 1 /\ own' = own
        BY <2>3, <3>2 DEF NoteChange
      <4>2. Foreign(f, e)' > 0
        BY <1>a, <4>1 DEF Sound, Foreign, OwnNow
      <4>3. Foreign(f, e)' \in Int
        BY <1>a, <4>1 DEF Foreign, OwnNow
      <4> QED  BY <4>2, <4>3 DEF Sound
    <3> QED  BY <2>3, <3>1, <3>2 DEF NoteChange
  <2>4. ASSUME NEW g \in File, WriteFile(t, g) PROVE Sound(f, e, seen)'
    <3>1. /\ UNCHANGED <<generation, own>>
          /\ index' = [index EXCEPT ![g] = index[g] + 1]
          /\ \A u \in Publisher : pub'[u].pc = pub[u].pc
                                 /\ pub'[u].tracked = pub[u].tracked
      BY <2>4 DEF WriteFile, epochVars, Publication
    <3>2. Foreign(f, e)' = Foreign(f, e)
      BY <3>1 DEF Foreign, OwnNow
    <3>3. CASE g = f
      <4>1. Current(seen, f)' = Current(seen, f)
        BY <3>1, <3>3 DEF Current, Unnoted
      <4> QED  BY <3>1, <3>2, <4>1 DEF Sound
    <3>4. CASE g # f
      <4>1. pub[t].pc = "writing" /\ f \notin pub[t].tracked
        BY <2>4, <3>4 DEF WriteFile, OwnPublications
      <4>2. Foreign(f, e) > 0 /\ Foreign(f, e) \in Int
        BY <1>a, <4>1 DEF Sound, Foreign
      <4> QED  BY <3>1, <3>2, <4>2 DEF Sound
    <3> QED  BY <3>3, <3>4
  <2> QED  BY <1>2, <2>1, <2>2, <2>3, <2>4 DEF PublisherStep
<1>3. ASSUME NEW g \in Document, DocumentStep(g) PROVE Sound(f, e, seen)'
  <2>1. UNCHANGED <<generation, index, pub>>
    BY <1>3 DEF DocumentStep, Open, Close, CloseBaseline, CloseForget,
                epochVars, indexVars
  <2>2. OwnNow(f)' \in {0, OwnNow(f)}
    BY <1>3 DEF DocumentStep, Open, Close, CloseBaseline, CloseForget,
                epochVars, OwnNow
  <2> QED  BY <1>a, <1>1, <2>1, <2>2
<1>4. ASSUME NEW p \in Passer, PassStep(p) PROVE Sound(f, e, seen)'
  <2>1. UNCHANGED <<generation, index, pub>>
    BY <1>4 DEF PassStep, Take, Start, Store, Read, Finish, Check, epochVars,
                indexVars
  <2>2. OwnNow(f)' = OwnNow(f)
    BY <1>4 DEF PassStep, Take, Start, Store, Read, Finish, Check, epochVars,
                OwnNow
  <2> QED  BY <1>a, <1>1, <2>1, <2>2
<1>5. CASE UNCHANGED vars
  BY <1>a, <1>1, <1>5 DEF vars, epochVars, indexVars, OwnNow
<1> QED  BY <1>2, <1>3, <1>4, <1>5 DEF Next

-----------------------------------------------------------------------------
(* Every baseline is sound, because every pass is.                         *)

\* A snapshot is taken only while nothing is being published.
LEMMA FreshIsSound ==
    ASSUME TypeOK, ActiveCounts, active = 0, NEW f \in Document
    PROVE  Sound(f, Now(f), Nothing)
<1> USE DEF TypeOK
<1>1. IsFiniteSet(Writing)
  BY EpochAssumption, FS_Subset DEF Writing
<1>2. \A t \in Publisher : pub[t].pc # "writing"
  <2>1. Cardinality(Writing) = 0
    BY DEF ActiveCounts
  <2>2. Writing = {}
    BY <1>1, <2>1, FS_EmptySet
  <2> QED  BY <2>2 DEF Writing
<1>3. Foreign(f, Now(f)) = 0
  BY EpochAssumption DEF Foreign, Now, OwnNow
<1>4. Current(Nothing, f)
  BY DEF Current, Nothing
<1> QED  BY <1>2, <1>3, <1>4 DEF Sound

\* The part of a baseline a partial pass keeps is as good as a snapshot of its
\* own, if only f's own edits were published since.
LEMMA KeptIsSound ==
    ASSUME TypeOK, ActiveCounts, active = 0, NEW f \in Document,
           NEW e \in Snapshot, NEW seen \in Reads, Sound(f, e, seen),
           OnlyOwnChangesSince(Now(f), e)
    PROVE  Sound(f, Now(f), Without(seen, f))
<1> USE EpochAssumption DEF TypeOK, Snapshot
<1>1. Foreign(f, e) = 0
  BY DEF OnlyOwnChangesSince, Now, Foreign, OwnNow
<1>2. Current(seen, f)
  BY <1>1 DEF Sound
<1>3. Current(Without(seen, f), f)
  BY <1>2 DEF Current, Without, Reads
<1>4. Sound(f, Now(f), Nothing)
  BY FreshIsSound
<1> QED  BY <1>3, <1>4 DEF Sound

LEMMA ReadIsSound ==
    ASSUME TypeOK, NEW f \in Document, NEW e \in Snapshot, NEW seen \in Reads,
           NEW i \in Item, Sound(f, e, seen)
    PROVE  Sound(f, e, [seen EXCEPT ![i] = @ \cup {index[i]}])
<1>1. Current(seen, f) => Current([seen EXCEPT ![i] = @ \cup {index[i]}], f)
  BY DEF Current, Reads
<1> QED  BY <1>1 DEF Sound

LEMMA PassKept ==
    ASSUME IInv, [Next]_vars, NEW q \in Pass, q.uri \in Document \ mixed,
           PassSound(q)
    PROVE  PassSound(q)'
<1>1. ASSUME q.base # None PROVE Sound(q.uri, q.base.epoch, q.base.seen)'
  <2>1. q.base.epoch \in Snapshot /\ q.base.seen \in Reads
    BY <1>1 DEF Pass, Baseline
  <2>2. Sound(q.uri, q.base.epoch, q.base.seen)
    BY <1>1 DEF PassSound
  <2> QED  BY <2>1, <2>2, SoundKept DEF IInv
<1>2. ASSUME q.epoch # None PROVE Sound(q.uri, q.epoch, q.seen)'
  <2>1. q.epoch \in Snapshot /\ q.seen \in Reads
    BY <1>2 DEF Pass
  <2>2. Sound(q.uri, q.epoch, q.seen)
    BY <1>2 DEF PassSound
  <2> QED  BY <2>1, <2>2, SoundKept DEF IInv
<1> QED  BY <1>1, <1>2 DEF PassSound

LEMMA PassesStep ==
    ASSUME IInv, [Next]_vars PROVE SoundPasses'
<1> SUFFICES ASSUME NEW p \in Passer, pass'[p].pc # "idle", pass'[p].uri \notin mixed'
             PROVE  PassSound(pass[p])'
  BY DEF SoundPasses
<1> USE DEF IInv
<1>a. TypeOK' /\ PassShape'
  BY NextType, ShapeStep
<1>b. PICK q \in Pass : q = pass'[p]
  BY <1>a DEF TypeOK
<1>c. q.uri \in Document \ mixed /\ q.pc # "idle"
  BY <1>a, <1>b, MixedGrows DEF PassShape
<1>d. SUFFICES PassSound(q)
  <2>1. PassSound(q)'
    BY <1>c, <1>d, PassKept
  <2> QED  BY <1>b, <2>1 DEF PassSound, Sound, Current, Foreign, OwnNow, Unnoted
<1>1. CASE pass'[p] = pass[p]
  BY <1>1, <1>b, <1>c DEF SoundPasses, PassSound, Sound, Current, Foreign
<1>2. ASSUME NEW r \in Passer, PassStep(r), pass'[p] # pass[p] PROVE PassSound(q)
  <2>0. r = p
    BY <1>2 DEF PassStep, Take, Start, Store, Read, Finish, Check, TypeOK
  <2>1. ASSUME NEW f \in Document, Take(p, f) PROVE PassSound(q)
    <3>1. q.uri = f /\ q.epoch = None /\ q.base \in {baseline[f], None}
      BY <1>b, <2>1 DEF Take, TypeOK
    <3> QED  BY <1>c, <3>1 DEF SoundBaselines, PassSound, Sound, Current, Foreign
  <2>2. ASSUME NEW f \in Document, Start(p, f) PROVE PassSound(q)
    <3>1. q.uri = f /\ q.base = None
      BY <1>b, <2>2 DEF Start, Reading, TypeOK
    <3>2. \/ q.epoch = None
          \/ active = 0 /\ q.epoch = Now(f) /\ q.seen = Nothing
          \/ /\ active = 0 /\ q.epoch = Now(f) /\ pass[p].base # None
             /\ q.seen = Without(pass[p].base.seen, f)
             /\ OnlyOwnChangesSince(Now(f), pass[p].base.epoch)
      BY <1>b, <2>2 DEF Start, Reading, TypeOK
    <3>3. pass[p].pc = "begin" /\ pass[p].uri = f
      BY <2>2 DEF Start
    <3>4. ASSUME active = 0, pass[p].base # None,
                 OnlyOwnChangesSince(Now(f), pass[p].base.epoch)
          PROVE  Sound(f, Now(f), Without(pass[p].base.seen, f))
      <4>1. PICK b \in Baseline : b = pass[p].base
        BY <3>4 DEF TypeOK, Pass
      <4>2. b.epoch \in Snapshot /\ b.seen \in Reads
        BY DEF Baseline
      <4>3. Sound(f, b.epoch, b.seen)
        BY <1>c, <3>1, <3>3, <3>4, <4>1 DEF SoundPasses, PassSound, Sound, Current, Foreign
      <4>4. Sound(f, Now(f), Without(b.seen, f))
        BY <3>4, <4>1, <4>2, <4>3, KeptIsSound
      <4> QED  BY <4>1, <4>4
    <3>5. active = 0 => Sound(f, Now(f), Nothing)
      BY FreshIsSound
    <3>6. q.epoch # None => Sound(f, q.epoch, q.seen)
      BY <3>2, <3>4, <3>5
    <3> QED  BY <3>1, <3>6 DEF PassSound
  <2>3. ASSUME NEW i \in Item, Read(p, i) PROVE PassSound(q)
    <3>1. PICK r0 \in Pass : r0 = pass[p]
      BY DEF TypeOK
    <3>2. /\ q.uri = r0.uri /\ q.base = r0.base /\ q.epoch = r0.epoch
          /\ q.seen = [r0.seen EXCEPT ![i] = @ \cup {index[i]}]
      BY <1>b, <2>3, <3>1 DEF Read, TypeOK, Pass
    <3>3. PassSound(r0)
      BY <1>c, <2>3, <3>1, <3>2 DEF Read, SoundPasses, PassSound, Sound, Current, Foreign
    <3>4. r0.epoch # None => r0.epoch \in Snapshot
      BY DEF Pass
    <3>5. r0.seen \in Reads
      BY DEF Pass
    <3> QED  BY <1>c, <3>2, <3>3, <3>4, <3>5, ReadIsSound DEF PassSound
  <2>4. CASE Finish(p)
    <3>1. /\ q.uri = pass[p].uri /\ q.base = None /\ q.seen = pass[p].seen
          /\ q.epoch \in {pass[p].epoch, None}
      BY <1>b, <2>4 DEF Finish, TypeOK
    <3>2. pass[p].pc # "idle"
      BY <2>4 DEF Finish
    <3> QED  BY <1>c, <3>1, <3>2 DEF SoundPasses, PassSound, Sound, Current, Foreign
  <2>5. CASE Check(p)
    <3>1. /\ q.uri = pass[p].uri /\ q.base = pass[p].base
          /\ q.seen = pass[p].seen /\ q.epoch = pass[p].epoch
      BY <1>b, <1>c, <2>5 DEF Check, NoPass, TypeOK, Pass
    <3>2. pass[p].pc # "idle"
      BY <2>5 DEF Check
    <3> QED  BY <1>c, <3>1, <3>2 DEF SoundPasses, PassSound, Sound, Current, Foreign
  <2>6. ASSUME NEW f \in Document, Store(p, f) PROVE FALSE
    BY <1>b, <1>c, <2>6 DEF Store, NoPass, TypeOK
  <2> QED  BY <1>2, <2>0, <2>1, <2>2, <2>3, <2>4, <2>5, <2>6 DEF PassStep
<1>3. ASSUME NEW f \in Document, DocumentStep(f) PROVE UNCHANGED pass
  BY <1>3 DEF DocumentStep, Open, Close, CloseBaseline, CloseForget
<1>4. ASSUME NEW t \in Publisher, PublisherStep(t) PROVE UNCHANGED pass
  BY <1>4 DEF PublisherStep, SelectEdit, SelectBatch, Begin, End, NoteChange,
              WriteFile
<1> QED  BY <1>1, <1>2, <1>3, <1>4 DEF Next, vars

LEMMA BaselinesStep ==
    ASSUME IInv, [Next]_vars PROVE SoundBaselines'
<1> SUFFICES ASSUME NEW f \in Document \ mixed, baseline'[f] # None
             PROVE  Sound(f, baseline[f].epoch, baseline[f].seen)'
  BY MixedGrows DEF SoundBaselines
<1> USE DEF IInv
<1>a. TypeOK'
  BY NextType
<1>b. PICK b \in Baseline : b = baseline'[f]
  BY <1>a DEF TypeOK
<1>c. SUFFICES Sound(f, b.epoch, b.seen)
  <2>1. b.epoch \in Snapshot /\ b.seen \in Reads
    BY DEF Baseline
  <2>2. Sound(f, b.epoch, b.seen)'
    BY <1>c, <2>1, SoundKept
  <2> QED  BY <1>b, <2>2 DEF Sound, Current, Foreign, OwnNow, Unnoted
<1>1. CASE baseline'[f] = baseline[f]
  BY <1>1, <1>b DEF SoundBaselines, Sound, Current, Foreign
<1>2. ASSUME NEW p \in Passer, NEW g \in Document, Store(p, g),
             baseline'[f] # baseline[f]
      PROVE  Sound(f, b.epoch, b.seen)
  <2>1. g = f /\ pass[p].epoch # None /\ pass[p].uri = f /\ pass[p].pc = "store"
    BY <1>2 DEF Store, TypeOK
  <2>2. b = [epoch |-> pass[p].epoch, seen |-> pass[p].seen]
    BY <1>2, <1>b, <2>1 DEF Store, TypeOK
  <2> QED  BY <2>1, <2>2 DEF SoundPasses, PassSound, Sound, Current, Foreign
<1>3. ASSUME NEW p \in Passer, PassStep(p), ~ \E g \in Document : Store(p, g)
      PROVE  UNCHANGED baseline
  BY <1>3 DEF PassStep, Take, Start, Read, Finish, Check
<1>4. ASSUME NEW g \in Document, DocumentStep(g)
      PROVE  baseline'[f] = baseline[f]
  BY <1>4, EpochAssumption DEF DocumentStep, Open, Close, CloseBaseline,
                               CloseForget, TypeOK
<1>5. ASSUME NEW t \in Publisher, PublisherStep(t) PROVE UNCHANGED baseline
  BY <1>5 DEF PublisherStep, SelectEdit, SelectBatch, Begin, End, NoteChange,
              WriteFile
<1> QED  BY <1>1, <1>2, <1>3, <1>4, <1>5 DEF Next, vars

LEMMA InitInv == Init => IInv
<1> SUFFICES ASSUME Init PROVE IInv
  OBVIOUS
<1>1. TypeOK
  BY InitType
<1>2. PassShape /\ SoundPasses /\ SoundBaselines /\ OwnPublications
  BY DEF Init, PassShape, SoundPasses, SoundBaselines, OwnPublications, NoPass,
         NoPublication
<1>3. Writing = {} /\ active = 0
  BY DEF Init, Writing, NoPublication
<1> QED  BY <1>1, <1>2, <1>3, FS_EmptySet DEF IInv, ActiveCounts

LEMMA InvStep == IInv /\ [Next]_vars => IInv'
<1> SUFFICES ASSUME IInv, [Next]_vars PROVE IInv'
  OBVIOUS
<1>1. TypeOK' /\ PassShape' /\ OwnPublications' /\ ActiveCounts'
  BY NextType, ShapeStep, PublicationsStep, ActiveStep DEF IInv
<1>2. SoundBaselines' /\ SoundPasses'
  BY BaselinesStep, PassesStep
<1> QED  BY <1>1, <1>2 DEF IInv

LEMMA InvImplies == IInv => BaselineIsCurrent
<1> SUFFICES ASSUME IInv, NEW f \in Document \ mixed, baseline[f] # None,
                    OnlyOwnChangesSince(Now(f), baseline[f].epoch)
             PROVE  Current(baseline[f].seen, f)
  BY DEF BaselineIsCurrent
<1>1. Sound(f, baseline[f].epoch, baseline[f].seen)
  BY DEF IInv, SoundBaselines
<1>2. baseline[f].epoch \in [generation : Nat, own : Nat]
  BY DEF IInv, TypeOK, Baseline, Snapshot
<1>3. OwnNow(f) \in Nat /\ generation \in Nat
  BY EpochAssumption DEF IInv, TypeOK, OwnNow
<1>4. Foreign(f, baseline[f].epoch) = 0
  BY <1>2, <1>3 DEF OnlyOwnChangesSince, Now, Foreign
<1> QED  BY <1>1, <1>4 DEF Sound

\* A partial pass never keeps what was computed on another state of the rest
\* of the index (epoch.rs:3-17), except of a document that a batch published
\* with other files and counted as that document's own edit.
THEOREM PartialPassesAreSound == Spec => []BaselineIsCurrent
<1>1. Init => IInv
  BY InitInv
<1>2. IInv /\ [Next]_vars => IInv'
  BY InvStep
<1>3. IInv => BaselineIsCurrent
  BY InvImplies
<1> QED  BY <1>1, <1>2, <1>3, PTL DEF Spec
=============================================================================
