-------------------------- MODULE GatedIndexProofs --------------------------
(***************************************************************************)
(* GateServes and MemoIsCurrent for every number of threads, writers and   *)
(* files, and rebuilds nested to any depth; and the steps of the gate as   *)
(* steps of RebuildGate.                                                   *)
(*                                                                         *)
(* The lock keeps one thread inside at a time (TypeOK).  GateInv relates   *)
(* the two flags to the marks: a clean index has had every mark taken, and *)
(* while the flag is down what was taken is over.  MemoInv relates the     *)
(* stamps that are in use to the two halves of replace.  PanicInv says     *)
(* what a load that unwinds has left behind.                               *)
(***************************************************************************)
EXTENDS GatedIndex, SequenceTheorems, TLAPS

\* Is t, or a rebuild it is nested in, past raising the flag?
Up(t) ==
    \/ Nested(t)
    \/ call[t].pc \in {"take", "snapshot", "build", "write", "hasAny", "bump",
                       "lower"}

\* What t may count on for the marks there were when its load began.
GateOK(t) ==
    /\ Up(t) => rebuilding
    /\ call[t].arrived <= marks
    /\ call[t].pc \in {"rebuilding", "snapshot", "build", "write", "hasAny",
                       "bump", "lower"} => call[t].arrived <= taken
    /\ call[t].pc = "unlock" \/ Passed(t) => Nested(t) \/ call[t].arrived <= over
    /\ \A i \in DOMAIN outer[t] : outer[t][i].arrived <= taken

GateInv ==
    /\ ~dirty => taken = marks
    /\ ~rebuilding => over = taken
    /\ \A t \in Thread : GateOK(t)

HasAnyOK == hasAny <=> index # {}

\* What t may count on for the stamps it and its memo hold.
MemoOK(t) ==
    /\ call[t].pc = "hasAny" => index = call[t].snapshot
    /\ call[t].pc = "bump" => HasAnyOK
    /\ call[t].pc \in {"probe", "gate", "view"} => call[t].stamp <= generation
    /\ call[t].pc = "view" /\ call[t].stamp = generation /\ ~Writing =>
          (call[t].has <=> index # {})
    /\ memo[t] # NoMemo => memo[t].stamp <= generation
    /\ memo[t] # NoMemo /\ memo[t].stamp = generation /\ ~Writing =>
          memo[t].value = index

MemoInv == (~Writing => HasAnyOK) /\ \A t \in Thread : MemoOK(t)

\* The inductive invariant.
IInv == TypeOK /\ GateInv /\ MemoInv

-----------------------------------------------------------------------------
(* Type correctness.                                                       *)

LEMMA InitType == Init => TypeOK
<1> SUFFICES ASSUME Init PROVE TypeOK
  OBVIOUS
<1>1. NoCall \in Call /\ NoCall.pc = "idle"
  BY DEF NoCall, CallAt, Call
<1>2. CallTypes
  BY <1>1 DEF Init, CallTypes
<1>3. \A t \in Thread : ~Inside(t) /\ holder # t
  BY <1>1, GateAssumption DEF Init, Inside, Nested
<1>4. writer \in [Writer -> Publication]
  <2>1. IdlePublication \subseteq Publication
    <3>1. \A f \in File : [pc |-> "idle", file |-> f, has |-> FALSE] \in Publication
      BY DEF Publication
    <3> QED  BY <3>1, Zenon DEF IdlePublication
  <2>2. writer \in [Writer -> IdlePublication]
    BY Zenon DEF Init
  <2> QED  BY <2>1, <2>2
<1>5. \A t \in Thread : Inside(t) <=> holder = t
  BY <1>3
<1>6. /\ declares = {} /\ writes = 0 /\ index = {} /\ hasAny = FALSE
      /\ generation = 0 /\ dirty = TRUE /\ marks = 1 /\ taken = 0 /\ over = 0
      /\ holder = NoThread /\ rebuilding = FALSE /\ panics = 0
  BY Zenon DEF Init
<1>7. hasAny \in BOOLEAN /\ dirty \in BOOLEAN /\ rebuilding \in BOOLEAN
  BY <1>6, Zenon
<1>8. /\ generation \in Nat /\ marks \in Nat /\ taken \in Nat /\ over \in Nat
      /\ over <= taken /\ taken <= marks /\ writes \in Nat /\ panics \in Nat
  BY <1>6
<1>9. declares \subseteq File /\ index \subseteq File
  BY <1>6
<1>10. holder \in Thread \cup {NoThread}
  BY <1>6
<1> QED  BY <1>2, <1>4, <1>5, <1>7, <1>8, <1>9, <1>10 DEF TypeOK

\* A step of one thread leaves the others' calls alone.
LEMMA OthersKept ==
    ASSUME NEW t \in Thread, ThreadStep(t), TypeOK
    PROVE  \A u \in Thread \ {t} :
              call'[u] = call[u] /\ outer'[u] = outer[u] /\ memo'[u] = memo[u]
<1> USE DEF TypeOK, CallTypes
<1>1. CASE GateStep(t)
  BY <1>1 DEF GateStep, ReadDirty, ReadRebuilding, Raise, Take, Lower, Unlock, Goto
<1>2. CASE RebuildStep(t)
  BY <1>2 DEF RebuildStep, SnapshotClasses, WriteIndex, SetHasAny, Bump, Goto
<1>3. CASE RefineStep(t)
  BY <1>3 DEF RefineStep, ReadStamp, Probe, ReadHasAny, View, Return, Goto
<1>4. CASE Load(t) \/ Lock(t) \/ LoadNested(t) \/ Built(t) \/ Panic(t)
  BY <1>4 DEF Load, Lock, LoadNested, Built, Panic, Goto
<1> QED  BY <1>1, <1>2, <1>3, <1>4 DEF ThreadStep

\* A pop of the stack of rebuilds.
LEMMA ReturnType ==
    ASSUME TypeOK, NEW t \in Thread, Return(t)
    PROVE  /\ call' \in [Thread -> Call] /\ outer' \in [Thread -> Seq(Frame)]
           /\ IF Nested(t) THEN call'[t].pc = "build"
              ELSE call'[t].pc = "idle" /\ outer' = outer
<1> USE DEF TypeOK, CallTypes
<1>1. CASE Nested(t)
  <2> DEFINE f == outer[t][Len(outer[t])]
  <2>1. f \in Frame /\ Len(outer[t]) \in Nat \ {0}
    BY <1>1 DEF Nested
  <2>2. SubSeq(outer[t], 1, Len(outer[t]) - 1) \in Seq(Frame)
    BY <2>1
  <2>3. CallAt("build", f.arrived, f.snapshot) \in Call
    BY <2>1 DEF Call, CallAt, Frame
  <2>4. CallAt("build", f.arrived, f.snapshot).pc = "build"
    BY DEF CallAt
  <2> QED  BY <1>1, <2>2, <2>3, <2>4 DEF Return
<1>2. CASE ~Nested(t)
  <2>1. NoCall \in Call /\ NoCall.pc = "idle"
    BY DEF NoCall, CallAt, Call
  <2> QED  BY <1>2, <2>1 DEF Return
<1> QED  BY <1>1, <1>2

LEMMA WriterType ==
    ASSUME TypeOK, NEW w \in Writer, WriterStep(w) PROVE TypeOK'
<1> USE DEF TypeOK, CallTypes, indexVars, lockVars, callVars, history
<1>1. UNCHANGED <<call, outer, memo, holder, rebuilding, panics, taken, over,
                  indexVars>>
  BY DEF WriterStep, Edit, Parse, Scan, Refresh, Consult, Announce, Apply,
         MarkScanned
<1>2. /\ \A t \in Thread : Inside(t)' = Inside(t)
      /\ CallTypes'
  BY <1>1 DEF Inside, Nested
<1>3. declares' \subseteq File /\ writes' \in Nat
  <2>1. \A x \in Writer : writer[x].file \in File
    BY DEF Publication
  <2> QED  BY <2>1 DEF WriterStep, Edit, Parse, Scan, Refresh, Consult, Announce, Apply,
         MarkScanned, Begin, Declare
<1>4. dirty' \in BOOLEAN /\ marks' \in {marks, marks + 1}
  BY DEF WriterStep, Edit, Parse, Scan, Refresh, Consult, Announce, Apply,
         MarkScanned, MarkDirty
<1>5. writer' \in [Writer -> Publication]
  <2>1. ASSUME NEW f \in File, NEW has \in BOOLEAN,
               NEW pc \in {"refresh", "announce", "mark"}, Begin(w, f, has, pc)
        PROVE  writer' \in [Writer -> Publication]
    BY <2>1 DEF Begin, Publication
  <2>2. ASSUME NEW pc \in {"idle", "consult", "apply"},
               writer' = [writer EXCEPT ![w].pc = pc]
        PROVE  writer' \in [Writer -> Publication]
    BY <2>2 DEF Publication
  <2>3. \/ \E f \in File, has \in BOOLEAN, pc \in {"refresh", "announce", "mark"} :
              Begin(w, f, has, pc)
        \/ \E pc \in {"idle", "consult", "apply"} :
              writer' = [writer EXCEPT ![w].pc = pc]
    BY DEF WriterStep, Edit, Parse, Scan, Refresh, Consult, Announce, Apply,
           MarkScanned, Done
  <2> QED  BY <2>1, <2>2, <2>3
<1> QED  BY <1>1, <1>2, <1>3, <1>4, <1>5

LEMMA GotoCall ==
    ASSUME TypeOK, NEW t \in Thread, NEW pc, [call[t] EXCEPT !.pc = pc] \in Call,
           Goto(t, pc)
    PROVE  /\ call' \in [Thread -> Call] /\ call'[t].pc = pc
           /\ call'[t].arrived = call[t].arrived
           /\ call'[t].snapshot = call[t].snapshot
           /\ call'[t].stamp = call[t].stamp /\ call'[t].has = call[t].has
  BY DEF TypeOK, CallTypes, Goto, Call

LEMMA PcCall ==
    ASSUME TypeOK, NEW t \in Thread,
           NEW pc \in {"idle", "dirty", "rebuilding", "lock", "raise", "take",
               "snapshot", "build", "write", "hasAny", "bump", "lower",
               "unlock", "stamp", "probe", "gate", "view"}
    PROVE  [call[t] EXCEPT !.pc = pc] \in Call
  BY DEF TypeOK, CallTypes, Call

LEMMA ThreadType ==
    ASSUME TypeOK, NEW t \in Thread, ThreadStep(t) PROVE TypeOK'
<1> USE DEF writerVars, indexVars, lockVars, callVars, history
<1>o. \A u \in Thread \ {t} : Inside(u)' = Inside(u)
  BY OthersKept DEF Inside, Nested
<1>i. /\ Inside(t) <=> holder = t
      /\ \A u \in Thread : Inside(u) => holder = u
  BY DEF TypeOK
<1>h. ASSUME CallTypes', UNCHANGED <<holder, declares, writer, writes, marks>>,
             Inside(t)' = Inside(t),
             index' \subseteq File /\ hasAny' \in BOOLEAN /\ generation' \in Nat,
             dirty' \in BOOLEAN /\ rebuilding' \in BOOLEAN,
             taken' \in {taken, marks}, over' \in {over, taken},
             over' = over \/ taken' = taken, panics' \in Nat
      PROVE  TypeOK'
  BY <1>h, <1>o DEF TypeOK
<1>1. CASE ReadDirty(t)
  <2>1. call'[t].pc \in {"lock", "rebuilding"} /\ call' \in [Thread -> Call]
    BY <1>1, GotoCall, PcCall DEF ReadDirty
  <2> QED  BY <1>1, <1>h, <2>1 DEF ReadDirty, TypeOK, CallTypes, Inside, Nested
<1>2. CASE ReadRebuilding(t)
  <2>1. call'[t].pc \in {"lock", "stamp"} /\ call' \in [Thread -> Call]
    BY <1>2, GotoCall, PcCall DEF ReadRebuilding
  <2> QED  BY <1>2, <1>h, <2>1 DEF ReadRebuilding, TypeOK, CallTypes, Inside, Nested
<1>3. CASE Lock(t)
  <2>1. call'[t].pc = "raise" /\ call' \in [Thread -> Call]
    BY <1>3, GotoCall, PcCall DEF Lock
  <2> QED  BY <1>3, <1>o, <2>1, GateAssumption DEF Lock, Available, TypeOK, CallTypes, Inside, Nested
<1>4. CASE Raise(t)
  <2>1. call'[t].pc = "take" /\ call' \in [Thread -> Call]
    BY <1>4, GotoCall, PcCall DEF Raise
  <2> QED  BY <1>4, <1>h, <2>1 DEF Raise, TypeOK, CallTypes, Inside, Nested
<1>5. CASE Take(t)
  <2>1. call'[t].pc \in {"snapshot", "lower"} /\ call' \in [Thread -> Call]
    BY <1>5, GotoCall, PcCall DEF Take
  <2> QED  BY <1>5, <1>h, <2>1 DEF Take, TypeOK, CallTypes, Inside, Nested
<1>6. CASE Lower(t)
  <2>1. call'[t].pc = "unlock" /\ call' \in [Thread -> Call]
    BY <1>6, GotoCall, PcCall DEF Lower
  <2> QED  BY <1>6, <1>h, <2>1 DEF Lower, TypeOK, CallTypes, Inside, Nested
<1>7. CASE Unlock(t)
  <2>1. call'[t].pc \in {"idle", "stamp"} /\ call' \in [Thread -> Call]
    BY <1>7, GotoCall, PcCall DEF Unlock
  <2> QED  BY <1>7, <1>o, <1>i, <2>1, GateAssumption DEF Unlock, TypeOK, CallTypes, Inside, Nested
<1>8. CASE SnapshotClasses(t)
  <2>1. call'[t].pc = "build" /\ call' \in [Thread -> Call]
    BY <1>8 DEF SnapshotClasses, CallAt, TypeOK, CallTypes, Call
  <2> QED  BY <1>8, <1>h, <2>1 DEF SnapshotClasses, TypeOK, CallTypes, Inside, Nested
<1>9. CASE WriteIndex(t)
  <2>1. call'[t].pc = "hasAny" /\ call' \in [Thread -> Call]
    BY <1>9, GotoCall, PcCall DEF WriteIndex
  <2>2. call[t].snapshot \subseteq File
    BY DEF TypeOK, CallTypes, Call
  <2> QED  BY <1>9, <1>h, <2>1, <2>2 DEF WriteIndex, TypeOK, CallTypes, Inside, Nested
<1>10. CASE SetHasAny(t)
  <2>1. call'[t].pc = "bump" /\ call' \in [Thread -> Call]
    BY <1>10, GotoCall, PcCall DEF SetHasAny
  <2> QED  BY <1>10, <1>h, <2>1 DEF SetHasAny, TypeOK, CallTypes, Inside, Nested
<1>11. CASE Bump(t)
  <2>1. call'[t].pc = "lower" /\ call' \in [Thread -> Call]
    BY <1>11, GotoCall, PcCall DEF Bump
  <2> QED  BY <1>11, <1>h, <2>1 DEF Bump, TypeOK, CallTypes, Inside, Nested
<1>12. CASE ReadStamp(t)
  <2>1. call'[t].pc = "probe" /\ call' \in [Thread -> Call]
    BY <1>12 DEF ReadStamp, Refining, TypeOK, CallTypes, Call
  <2> QED  BY <1>12, <1>h, <2>1 DEF ReadStamp, TypeOK, CallTypes, Inside, Nested
<1>13. ASSUME Return(t), call[t].pc \in {"probe", "view"}
       PROVE  /\ call' \in [Thread -> Call] /\ outer' \in [Thread -> Seq(Frame)]
              /\ Inside(t)' = Inside(t)
  BY <1>13, ReturnType DEF Inside, Nested
<1>14. CASE Probe(t)
  <2>1. CASE Hit(t)
    BY <1>14, <1>h, <1>13, <2>1 DEF Probe, TypeOK, CallTypes
  <2>2. CASE ~Hit(t)
    <3>1. call'[t].pc = "gate" /\ call' \in [Thread -> Call]
      BY <1>14, <2>2, GotoCall, PcCall DEF Probe
    <3> QED  BY <1>14, <1>h, <2>2, <3>1 DEF Probe, TypeOK, CallTypes, Inside, Nested
  <2> QED  BY <2>1, <2>2
<1>15. CASE ReadHasAny(t)
  <2>1. call'[t].pc = "view" /\ call' \in [Thread -> Call]
    BY <1>15 DEF ReadHasAny, Refining, TypeOK, CallTypes, Call
  <2> QED  BY <1>15, <1>h, <2>1 DEF ReadHasAny, TypeOK, CallTypes, Inside, Nested
<1>16. CASE View(t)
  <2>1. memo' \in [Thread -> Memo \cup {NoMemo}]
    BY <1>16 DEF View, TypeOK, CallTypes, Call, Memo
  <2> QED  BY <1>16, <1>h, <1>13, <2>1 DEF View, TypeOK, CallTypes
<1>17. CASE Load(t)
  <2>1. call'[t].pc = "dirty" /\ call' \in [Thread -> Call]
    BY <1>17 DEF Load, NewCall, CallAt, TypeOK, CallTypes, Call
  <2> QED  BY <1>17, <1>h, <2>1 DEF Load, TypeOK, CallTypes, Inside, Nested
<1>18. CASE LoadNested(t)
  <2>1. call' \in [Thread -> Call]
    BY <1>18 DEF LoadNested, NewCall, CallAt, TypeOK, CallTypes, Call
  <2> DEFINE g == [arrived |-> call[t].arrived, snapshot |-> call[t].snapshot]
  <2>2. g \in Frame
    BY DEF TypeOK, CallTypes, Call, Frame
  <2>3. outer' = [outer EXCEPT ![t] = Append(outer[t], g)]
    BY <1>18 DEF LoadNested
  <2> HIDE DEF g
  <2>4. outer' \in [Thread -> Seq(Frame)] /\ outer'[t] # <<>>
    BY <2>2, <2>3 DEF TypeOK, CallTypes
  <2> QED  BY <1>18, <1>h, <2>1, <2>4 DEF LoadNested, TypeOK, CallTypes, Inside, Nested
<1>19. CASE Built(t)
  <2>1. call'[t].pc = "write" /\ call' \in [Thread -> Call]
    BY <1>19, GotoCall, PcCall DEF Built
  <2> QED  BY <1>19, <1>h, <2>1 DEF Built, TypeOK, CallTypes, Inside, Nested
<1>20. CASE Panic(t)
  <2>1. call'[t].pc = "lower" /\ call' \in [Thread -> Call]
    BY <1>20 DEF Panic, Unwinding, TypeOK, CallTypes, Call
  <2>2. outer' \in [Thread -> Seq(Frame)]
    BY <1>20 DEF Panic, TypeOK, CallTypes
  <2> QED  BY <1>20, <1>h, <2>1, <2>2 DEF Panic, TypeOK, CallTypes, Inside, Nested
<1> QED
  BY <1>1, <1>2, <1>3, <1>4, <1>5, <1>6, <1>7, <1>8, <1>9, <1>10, <1>11, <1>12,
     <1>14, <1>15, <1>16, <1>17, <1>18, <1>19, <1>20
  DEF ThreadStep, GateStep, RebuildStep, RefineStep

LEMMA NextType == TypeOK /\ [Next]_vars => TypeOK'
<1>1. CASE UNCHANGED vars
  BY <1>1 DEF vars, writerVars, indexVars, lockVars, callVars, history, TypeOK,
              CallTypes, Inside, Nested
<1> QED  BY <1>1, WriterType, ThreadType DEF Next

\* Every reachable state has the declared shape; in particular one thread at a
\* time is inside the gate.
THEOREM TypeCorrect == Spec => []TypeOK
  BY InitType, NextType, PTL DEF Spec

-----------------------------------------------------------------------------
(* The marks.                                                              *)

LEMMA InitGate == Init => GateInv
<1> SUFFICES ASSUME Init PROVE GateInv
  OBVIOUS
<1>1. \A t \in Thread :
         call[t].pc = "idle" /\ call[t].arrived = 0 /\ outer[t] = <<>>
  BY DEF Init, NoCall, CallAt
<1>2. dirty /\ over = taken
  BY DEF Init
<1>3. ASSUME NEW t \in Thread PROVE GateOK(t)
  <2>1. marks = 1
    BY DEF Init
  <2>2. ~Up(t) /\ ~Passed(t) /\ DOMAIN outer[t] = {}
    BY <1>1 DEF Up, Passed, Nested
  <2> QED  BY <1>1, <2>1, <2>2 DEF GateOK
<1> QED  BY <1>2, <1>3, Zenon DEF GateInv

LEMMA WriterGate ==
    ASSUME TypeOK, GateInv, NEW w \in Writer, WriterStep(w) PROVE GateInv'
<1>1. UNCHANGED <<call, outer, rebuilding, taken, over>>
  BY DEF WriterStep, Edit, Parse, Scan, Refresh, Consult, Announce, Apply,
         MarkScanned, callVars, lockVars, history
<1>2. dirty' = TRUE \/ UNCHANGED <<dirty, marks>>
  BY DEF WriterStep, Edit, Parse, Scan, Refresh, Consult, Announce, Apply,
         MarkScanned, MarkDirty
<1>3. ASSUME NEW t \in Thread PROVE GateOK(t)'
  <2>1. GateOK(t) /\ call[t].arrived \in Nat /\ marks \in Nat
    BY DEF GateInv, TypeOK, CallTypes, Call
  <2>2. marks' \in {marks, marks + 1}
    BY DEF WriterStep, Edit, Parse, Scan, Refresh, Consult, Announce, Apply,
           MarkScanned, MarkDirty
  <2> QED  BY <1>1, <2>1, <2>2 DEF GateOK, Up, Passed, Nested
<1> QED  BY <1>1, <1>2, <1>3 DEF GateInv

\* What a thread does to the flags and the marks.
LEMMA MarksMove ==
    ASSUME TypeOK, NEW t \in Thread, ThreadStep(t)
    PROVE  /\ marks' = marks
           /\ \/ UNCHANGED <<dirty, taken, over, rebuilding>>
              \/ Raise(t) /\ rebuilding' /\ UNCHANGED <<dirty, taken, over>>
              \/ Take(t) /\ ~dirty' /\ taken' = (IF dirty THEN marks ELSE taken)
                         /\ UNCHANGED <<over, rebuilding>>
              \/ Lower(t) /\ ~Nested(t) /\ ~rebuilding' /\ over' = taken
                          /\ UNCHANGED <<dirty, taken>>
<1> USE DEF lockVars, history
<1>1. CASE GateStep(t)
  BY <1>1 DEF GateStep, ReadDirty, ReadRebuilding, Raise, Take, Lower, Unlock
<1>2. CASE RebuildStep(t)
  BY <1>2 DEF RebuildStep, SnapshotClasses, WriteIndex, SetHasAny, Bump
<1>3. CASE RefineStep(t)
  BY <1>3 DEF RefineStep, ReadStamp, Probe, ReadHasAny, View
<1>4. CASE Load(t) \/ Lock(t) \/ LoadNested(t) \/ Built(t) \/ Panic(t)
  BY <1>4 DEF Load, Lock, LoadNested, Built, Panic
<1> QED  BY <1>1, <1>2, <1>3, <1>4 DEF ThreadStep

LEMMA FramesType ==
    ASSUME TypeOK, NEW t \in Thread
    PROVE  /\ call[t].arrived \in Nat
           /\ \A i \in DOMAIN outer[t] : outer[t][i].arrived \in Nat
<1>1. call[t] \in Call /\ outer[t] \in Seq(Frame)
  BY DEF TypeOK, CallTypes
<1>2. \A i \in DOMAIN outer[t] : outer[t][i] \in Frame
  BY <1>1
<1> QED  BY <1>1, <1>2 DEF Call, Frame

LEMMA ThreadGate ==
    ASSUME TypeOK, GateInv, NEW t \in Thread, ThreadStep(t) PROVE GateInv'
<1>1. /\ taken \in Nat /\ over \in Nat /\ marks \in Nat
      /\ over <= taken /\ taken <= marks
  BY DEF TypeOK
<1>i. \A u \in Thread : Inside(u) <=> holder = u
  BY Zenon DEF TypeOK
<1>2. /\ taken' \in Nat /\ over' \in Nat /\ taken' >= taken /\ over' >= over
      /\ ~dirty' => taken' = marks'
      /\ ~rebuilding' => over' = taken'
  <2>1. CASE UNCHANGED <<dirty, taken, over, rebuilding>>
    BY <1>1, <2>1, MarksMove DEF GateInv
  <2>2. CASE Raise(t) /\ rebuilding' /\ UNCHANGED <<dirty, taken, over>>
    <3>1. taken' = taken /\ over' = over /\ marks' = marks
      BY <2>2, MarksMove
    <3>2. ~dirty' => taken' = marks'
      BY <2>2, <3>1, Zenon DEF GateInv
    <3> QED  BY <1>1, <2>2, <3>1, <3>2
  <2>3. CASE Take(t) /\ ~dirty' /\ taken' = (IF dirty THEN marks ELSE taken)
             /\ UNCHANGED <<over, rebuilding>>
    <3>1. rebuilding
      BY <2>3 DEF Take, GateInv, GateOK, Up
    <3> QED  BY <1>1, <2>3, <3>1, MarksMove DEF GateInv
  <2>4. CASE Lower(t) /\ ~Nested(t) /\ ~rebuilding' /\ over' = taken
             /\ UNCHANGED <<dirty, taken>>
    BY <1>1, <2>4, MarksMove DEF GateInv
  <2> QED  BY <2>1, <2>2, <2>3, <2>4, MarksMove
<1>3. ASSUME NEW u \in Thread, u # t PROVE GateOK(u)'
  <2>1. call'[u] = call[u] /\ outer'[u] = outer[u] /\ marks' = marks
    BY <1>3, OthersKept, MarksMove
  <2>2. Up(u) => rebuilding'
    <3>1. Lower(t) => ~Up(u)
      BY <1>i, <1>3 DEF Lower, Up, Inside
    <3>2. Up(u) => rebuilding
      BY DEF GateInv, GateOK
    <3> QED  BY <3>1, <3>2, MarksMove
  <2>3. /\ call[u].arrived \in Nat
        /\ \A i \in DOMAIN outer[u] : outer[u][i].arrived \in Nat
    BY FramesType
  <2>4. GateOK(u)
    BY DEF GateInv
  <2> QED  BY <1>1, <1>2, <2>1, <2>2, <2>3, <2>4 DEF GateOK, Up, Passed, Nested
<1>4. GateOK(t)'
  <2>1. GateOK(t)
    BY DEF GateInv
  <2>2. /\ call[t].arrived \in Nat
        /\ \A i \in DOMAIN outer[t] : outer[t][i].arrived \in Nat
    BY FramesType
  <2>m. marks' = marks
    BY MarksMove
  <2>3. ASSUME outer'[t] = outer[t], call'[t].arrived = call[t].arrived,
               call'[t].pc \in {"take", "snapshot", "build", "write", "hasAny",
                                "bump", "lower"} => rebuilding',
               Nested(t) => rebuilding',
               call'[t].pc \in {"rebuilding", "snapshot", "build", "write",
                       "hasAny", "bump", "lower"} => call[t].arrived <= taken',
               call'[t].pc \in {"unlock", "stamp", "probe", "gate", "view"} =>
                       Nested(t) \/ call[t].arrived <= over'
        PROVE  GateOK(t)'
    BY <1>1, <1>2, <2>1, <2>2, <2>3, <2>m DEF GateOK, Up, Passed, Nested
  <2>4. CASE ReadDirty(t)
    <3>1. \/ call'[t].pc = "lock"
          \/ call'[t].pc = "rebuilding" /\ ~dirty
      BY <2>4, GotoCall, PcCall DEF ReadDirty
    <3>2. call'[t].arrived = call[t].arrived
      BY <2>4, GotoCall, PcCall DEF ReadDirty
    <3> QED  BY <2>1, <2>3, <2>4, <3>1, <3>2 DEF ReadDirty, history, lockVars, GateInv, GateOK, Up
  <2>5. CASE ReadRebuilding(t)
    <3>1. call'[t].pc = "lock" \/ (call'[t].pc = "stamp" /\ ~rebuilding)
      BY <2>5, GotoCall, PcCall DEF ReadRebuilding
    <3>2. call'[t].arrived = call[t].arrived
      BY <2>5, GotoCall, PcCall DEF ReadRebuilding
    <3> QED  BY <2>1, <2>3, <2>5, <3>1, <3>2 DEF ReadRebuilding, history, lockVars, GateInv, GateOK, Up
  <2>6. CASE Lock(t)
    <3>1. call'[t].pc = "raise" /\ call'[t].arrived = call[t].arrived
      BY <2>6, GotoCall, PcCall DEF Lock
    <3> QED  BY <2>1, <2>3, <2>6, <3>1 DEF Lock, GateOK, Up
  <2>7. CASE Raise(t)
    <3>1. call'[t].pc = "take" /\ call'[t].arrived = call[t].arrived
      BY <2>7, GotoCall, PcCall DEF Raise
    <3> QED  BY <2>1, <2>3, <2>7, <3>1 DEF Raise, GateOK, Up
  <2>8. CASE Take(t)
    <3>1. call'[t].pc \in {"snapshot", "lower"} /\ call'[t].arrived = call[t].arrived
      BY <2>8, GotoCall, PcCall DEF Take
    <3>2. taken' = marks /\ rebuilding
      BY <2>8 DEF Take, GateInv, GateOK, Up
    <3> QED  BY <2>1, <2>3, <2>8, <3>1, <3>2 DEF Take, lockVars, GateOK, Up
  <2>9. CASE Lower(t)
    <3>1. call'[t].pc = "unlock" /\ call'[t].arrived = call[t].arrived
      BY <2>9, GotoCall, PcCall DEF Lower
    <3> QED  BY <2>1, <2>3, <2>9, <3>1 DEF Lower, GateOK, Up
  <2>10. CASE Unlock(t)
    <3>1. call'[t].pc \in {"idle", "stamp"} /\ call'[t].arrived = call[t].arrived
      BY <2>10, GotoCall, PcCall DEF Unlock
    <3> QED  BY <2>1, <2>3, <2>10, <3>1 DEF Unlock, history, GateOK, Up
  <2>11. CASE SnapshotClasses(t)
    <3>1. call'[t].pc = "build" /\ call'[t].arrived = call[t].arrived
      BY <2>11 DEF SnapshotClasses, CallAt, TypeOK, CallTypes
    <3> QED  BY <2>1, <2>3, <2>11, <3>1 DEF SnapshotClasses, history, lockVars, GateOK, Up
  <2>12. CASE WriteIndex(t)
    <3>1. call'[t].pc = "hasAny" /\ call'[t].arrived = call[t].arrived
      BY <2>12, GotoCall, PcCall DEF WriteIndex
    <3> QED  BY <2>1, <2>3, <2>12, <3>1 DEF WriteIndex, history, lockVars, GateOK, Up
  <2>13. CASE SetHasAny(t)
    <3>1. call'[t].pc = "bump" /\ call'[t].arrived = call[t].arrived
      BY <2>13, GotoCall, PcCall DEF SetHasAny
    <3> QED  BY <2>1, <2>3, <2>13, <3>1 DEF SetHasAny, history, lockVars, GateOK, Up
  <2>14. CASE Bump(t)
    <3>1. call'[t].pc = "lower" /\ call'[t].arrived = call[t].arrived
      BY <2>14, GotoCall, PcCall DEF Bump
    <3> QED  BY <2>1, <2>3, <2>14, <3>1 DEF Bump, history, lockVars, GateOK, Up
  <2>15. CASE Built(t)
    <3>1. call'[t].pc = "write" /\ call'[t].arrived = call[t].arrived
      BY <2>15, GotoCall, PcCall DEF Built
    <3> QED  BY <2>1, <2>3, <2>15, <3>1 DEF Built, history, lockVars, GateOK, Up
  <2>16. CASE ReadStamp(t)
    <3>1. call'[t].pc = "probe" /\ call'[t].arrived = call[t].arrived
      BY <2>16 DEF ReadStamp, Refining, TypeOK, CallTypes
    <3> QED  BY <2>1, <2>3, <2>16, <3>1 DEF ReadStamp, history, lockVars, GateOK, Up, Passed
  <2>17. CASE ReadHasAny(t)
    <3>1. call'[t].pc = "view" /\ call'[t].arrived = call[t].arrived
      BY <2>17 DEF ReadHasAny, Refining, TypeOK, CallTypes
    <3> QED  BY <2>1, <2>3, <2>17, <3>1 DEF ReadHasAny, history, lockVars, GateOK, Up, Passed
  <2>18. ASSUME Return(t), UNCHANGED <<rebuilding, taken, over>> PROVE GateOK(t)'
    <3>1. CASE Nested(t)
      <4> DEFINE n == Len(outer[t])
      <4>1. n \in Nat \ {0} /\ outer[t] \in Seq(Frame)
        BY <3>1 DEF Nested, TypeOK, CallTypes
      <4>2. /\ call'[t].pc = "build" /\ call'[t].arrived = outer[t][n].arrived
            /\ outer'[t] = SubSeq(outer[t], 1, n - 1)
        BY <2>18, <3>1 DEF Return, CallAt, TypeOK, CallTypes
      <4>3. \A i \in DOMAIN outer'[t] : outer'[t][i] = outer[t][i] /\ i \in DOMAIN outer[t]
        BY <4>1, <4>2
      <4>4. call'[t].arrived <= taken /\ call'[t].arrived \in Nat
        BY <2>1, <2>2, <4>1, <4>2 DEF GateOK
      <4>5. \A i \in DOMAIN outer'[t] : outer'[t][i].arrived <= taken
        BY <2>1, <4>3 DEF GateOK
      <4> QED
        BY <1>1, <2>1, <2>18, <2>m, <3>1, <4>2, <4>4, <4>5 DEF GateOK, Up, Passed
    <3>2. CASE ~Nested(t)
      <4>1. call'[t].pc = "idle" /\ call'[t].arrived = 0 /\ outer' = outer
        BY <2>18, <3>2 DEF Return, NoCall, CallAt, TypeOK, CallTypes
      <4> QED  BY <1>1, <2>1, <2>18, <2>m, <3>2, <4>1 DEF GateOK, Up, Passed, Nested
    <3> QED  BY <3>1, <3>2
  <2>19. CASE Probe(t)
    <3>1. CASE Hit(t)
      BY <2>18, <2>19, <3>1 DEF Probe, history, lockVars
    <3>2. CASE ~Hit(t)
      <4>1. call'[t].pc = "gate" /\ call'[t].arrived = call[t].arrived
        BY <2>19, <3>2, GotoCall, PcCall DEF Probe
      <4> QED  BY <2>1, <2>3, <2>19, <3>2, <4>1 DEF Probe, history, lockVars, GateOK, Up, Passed
    <3> QED  BY <3>1, <3>2
  <2>20. CASE View(t)
    BY <2>18, <2>20 DEF View, history, lockVars
  <2>21. CASE Load(t)
    <3>1. call'[t].pc = "dirty" /\ call'[t].arrived = marks
      BY <2>21 DEF Load, NewCall, CallAt, TypeOK, CallTypes
    <3> QED  BY <1>1, <2>1, <2>m, <2>21, <3>1 DEF Load, history, lockVars, GateOK, Up, Passed, Nested
  <2>22. CASE LoadNested(t)
    <3> DEFINE g == [arrived |-> call[t].arrived, snapshot |-> call[t].snapshot]
    <3>1. call'[t].pc = "dirty" /\ call'[t].arrived = marks
      BY <2>22 DEF LoadNested, NewCall, CallAt, TypeOK, CallTypes
    <3>2. outer'[t] = Append(outer[t], g) /\ outer[t] \in Seq(Frame)
      BY <2>22 DEF LoadNested, TypeOK, CallTypes
    <3>3. rebuilding /\ g.arrived <= taken
      BY <2>1, <2>22 DEF LoadNested, GateOK, Up
    <3> HIDE DEF g
    <3>4. \A i \in DOMAIN outer'[t] : outer'[t][i] = g \/ (i \in DOMAIN outer[t] /\ outer'[t][i] = outer[t][i])
      BY <3>2
    <3>5. \A i \in DOMAIN outer'[t] : outer'[t][i].arrived <= taken
      BY <2>1, <3>3, <3>4 DEF GateOK
    <3> QED  BY <1>1, <2>m, <2>22, <3>1, <3>3, <3>5 DEF LoadNested, history, lockVars, GateOK, Up, Passed
  <2>23. CASE Panic(t)
    <3>1. /\ call'[t].pc = "lower" /\ call'[t].arrived = call[t].arrived
          /\ outer'[t] = <<>>
      BY <2>23 DEF Panic, Unwinding, TypeOK, CallTypes
    <3>2. rebuilding /\ call[t].arrived <= taken
      BY <2>1, <2>23 DEF Panic, GateOK, Up
    <3> QED  BY <2>1, <2>m, <2>23, <3>1, <3>2 DEF Panic, history, lockVars, GateOK, Up, Passed, Nested
  <2> QED
    BY <2>4, <2>5, <2>6, <2>7, <2>8, <2>9, <2>10, <2>11, <2>12, <2>13, <2>14,
       <2>15, <2>16, <2>17, <2>19, <2>20, <2>21, <2>22, <2>23
    DEF ThreadStep, GateStep, RebuildStep, RefineStep
<1> QED  BY <1>2, <1>3, <1>4 DEF GateInv

-----------------------------------------------------------------------------
(* The memo.                                                               *)

LEMMA InitMemo == Init => MemoInv
<1> SUFFICES ASSUME Init PROVE MemoInv
  OBVIOUS
<1>1. \A t \in Thread : call[t].pc = "idle" /\ memo[t] = NoMemo
  BY DEF Init, NoCall, CallAt
<1>2. HasAnyOK
  BY DEF Init, HasAnyOK
<1>3. \A t \in Thread : MemoOK(t)
  BY <1>1 DEF MemoOK
<1> QED  BY <1>2, <1>3 DEF MemoInv

LEMMA WriterMemo ==
    ASSUME MemoInv, NEW w \in Writer, WriterStep(w) PROVE MemoInv'
<1>1. UNCHANGED <<call, memo, index, hasAny, generation>>
  BY DEF WriterStep, Edit, Parse, Scan, Refresh, Consult, Announce, Apply,
         MarkScanned, callVars, indexVars
<1> QED  BY <1>1 DEF MemoInv, MemoOK, Writing, HasAnyOK

\* Only the thread that holds the lock is at a step of replace.
LEMMA OneWrites ==
    ASSUME TypeOK, NEW t \in Thread, call[t].pc \in {"write", "hasAny", "bump"}
    PROVE  \A u \in Thread \ {t} : call[u].pc \notin {"hasAny", "bump"}
<1>1. \A u \in Thread : Inside(u) <=> holder = u
  BY Zenon DEF TypeOK
<1>2. Inside(t)
  BY DEF Inside
<1>3. \A u \in Thread \ {t} : ~Inside(u)
  BY <1>1, <1>2
<1> QED  BY <1>3 DEF Inside

\* A step that touches neither the index nor its stamp, nor begins or ends a
\* replace, is about its own thread only.
LEMMA QuietMemo ==
    ASSUME TypeOK, MemoInv, NEW t \in Thread, ThreadStep(t),
           UNCHANGED <<index, hasAny, generation>>,
           call[t].pc \notin {"hasAny", "bump"}, call'[t].pc \notin {"hasAny", "bump"},
           call'[t].pc \in {"probe", "gate", "view"} => call'[t].stamp <= generation,
           call'[t].pc = "view" /\ call'[t].stamp = generation /\ ~Writing =>
               (call'[t].has <=> index # {}),
           \/ memo'[t] = memo[t]
           \/ /\ memo'[t].stamp <= generation
              /\ memo'[t].stamp = generation /\ ~Writing => memo'[t].value = index
    PROVE  MemoInv'
<1>1. \A u \in Thread \ {t} : call'[u] = call[u] /\ memo'[u] = memo[u]
  BY OthersKept
<1>2. Writing' = Writing
  BY <1>1 DEF Writing
<1>3. HasAnyOK' = HasAnyOK
  BY DEF HasAnyOK
<1>4. ASSUME NEW u \in Thread, u # t PROVE MemoOK(u)'
  <2>1. MemoOK(u)
    BY DEF MemoInv
  <2> QED  BY <1>1, <1>2, <1>3, <1>4, <2>1 DEF MemoOK
<1>5. MemoOK(t)'
  <2>1. MemoOK(t)
    BY DEF MemoInv
  <2> QED  BY <1>2, <2>1 DEF MemoOK
<1> QED  BY <1>2, <1>3, <1>4, <1>5 DEF MemoInv

LEMMA ThreadMemo ==
    ASSUME TypeOK, MemoInv, NEW t \in Thread, ThreadStep(t) PROVE MemoInv'
<1>o. \A u \in Thread \ {t} : call'[u] = call[u] /\ memo'[u] = memo[u]
  BY OthersKept
<1>t. /\ generation \in Nat
      /\ \A u \in Thread : /\ call[u].stamp \in Nat
                           /\ memo[u] # NoMemo => memo[u].stamp \in Nat
  BY DEF TypeOK, CallTypes, Call, Memo
<1>m. \A u \in Thread : MemoOK(u)
  BY DEF MemoInv
<1>1. CASE WriteIndex(t)
  <2>1. /\ call'[t].pc = "hasAny" /\ call'[t].snapshot = call[t].snapshot
        /\ index' = call[t].snapshot /\ call[t].pc = "write"
        /\ memo' = memo /\ generation' = generation
    BY <1>1, GotoCall, PcCall DEF WriteIndex
  <2>2. Writing'
    BY <2>1 DEF Writing
  <2>3. ASSUME NEW u \in Thread PROVE MemoOK(u)'
    BY <1>o, <1>m, <2>1, <2>2, OneWrites DEF MemoOK
  <2> QED  BY <2>2, <2>3 DEF MemoInv
<1>2. CASE SetHasAny(t)
  <2>1. /\ call'[t].pc = "bump" /\ call[t].pc = "hasAny"
        /\ memo' = memo /\ generation' = generation /\ index' = index
    BY <1>2, GotoCall, PcCall DEF SetHasAny
  <2>2. Writing'
    BY <2>1 DEF Writing
  <2>3. HasAnyOK'
    BY <1>2, <1>m DEF SetHasAny, MemoOK, HasAnyOK
  <2>4. ASSUME NEW u \in Thread PROVE MemoOK(u)'
    BY <1>o, <1>m, <2>1, <2>2, <2>3, OneWrites DEF MemoOK
  <2> QED  BY <2>2, <2>4 DEF MemoInv
<1>3. CASE Bump(t)
  <2>1. /\ call'[t].pc = "lower" /\ call[t].pc = "bump"
        /\ memo' = memo /\ generation' = generation + 1
        /\ index' = index /\ hasAny' = hasAny
    BY <1>3, GotoCall, PcCall DEF Bump
  <2>2. HasAnyOK'
    BY <1>m, <2>1 DEF MemoOK, HasAnyOK
  <2>3. ASSUME NEW u \in Thread PROVE MemoOK(u)'
    BY <1>o, <1>t, <1>m, <2>1, OneWrites DEF MemoOK
  <2> QED  BY <2>2, <2>3 DEF MemoInv
<1>4. CASE ReadStamp(t)
  <2>1. call'[t].pc = "probe" /\ call'[t].stamp = generation
    BY <1>4 DEF ReadStamp, Refining, TypeOK, CallTypes
  <2>2. /\ UNCHANGED <<index, hasAny, generation>> /\ memo' = memo
        /\ call[t].pc = "stamp"
    BY <1>4 DEF ReadStamp, indexVars
  <2>3. call'[t].stamp <= generation
    BY <1>t, <2>1
  <2> QED  BY <2>1, <2>2, <2>3, QuietMemo
<1>5. CASE ReadHasAny(t)
  <2>1. /\ call'[t].pc = "view" /\ call'[t].stamp = call[t].stamp
        /\ call'[t].has = hasAny
    BY <1>5 DEF ReadHasAny, Refining, TypeOK, CallTypes
  <2>2. call[t].stamp <= generation
    BY <1>5, <1>m DEF ReadHasAny, MemoOK
  <2>3. ~Writing => (call'[t].has <=> index # {})
    BY <2>1 DEF MemoInv, HasAnyOK
  <2> QED  BY <1>5, <2>1, <2>2, <2>3, QuietMemo DEF ReadHasAny, indexVars
<1>6. ASSUME Return(t), call[t].pc \in {"probe", "view"},
             UNCHANGED <<index, hasAny, generation>>,
             \/ memo'[t] = memo[t]
             \/ /\ memo'[t].stamp <= generation
                /\ memo'[t].stamp = generation /\ ~Writing => memo'[t].value = index
      PROVE  MemoInv'
  <2>1. call'[t].pc \in {"build", "idle"}
    BY <1>6, ReturnType
  <2> QED  BY <1>6, <2>1, QuietMemo
<1>7. CASE Probe(t)
  <2>1. CASE Hit(t)
    BY <1>6, <1>7, <2>1 DEF Probe, indexVars
  <2>2. CASE ~Hit(t)
    <3>1. call'[t].pc = "gate" /\ call'[t].stamp = call[t].stamp
      BY <1>7, <2>2, GotoCall, PcCall DEF Probe
    <3>2. call[t].stamp <= generation
      BY <1>7, <1>m DEF Probe, MemoOK
    <3> QED  BY <1>7, <3>1, <3>2, QuietMemo DEF Probe, indexVars
  <2> QED  BY <2>1, <2>2
<1>8. CASE View(t)
  <2>1. /\ memo'[t].stamp = call[t].stamp
        /\ memo'[t].value = IF call[t].has THEN index ELSE {}
    BY <1>8 DEF View, TypeOK, CallTypes
  <2>2. call[t].stamp <= generation
    BY <1>8, <1>m DEF View, MemoOK
  <2>3. call[t].stamp = generation /\ ~Writing => (call[t].has <=> index # {})
    BY <1>8, <1>m DEF View, MemoOK
  <2>4. memo'[t].stamp = generation /\ ~Writing => memo'[t].value = index
    BY <2>1, <2>3
  <2> QED  BY <1>6, <1>8, <2>1, <2>2, <2>4 DEF View, indexVars
<1>9. CASE \/ ReadDirty(t) \/ ReadRebuilding(t) \/ Lock(t) \/ Raise(t) \/ Take(t)
           \/ Lower(t) \/ Unlock(t) \/ Built(t)
  <2>1. /\ UNCHANGED <<index, hasAny, generation>> /\ memo' = memo
        /\ call[t].pc \notin {"hasAny", "bump"}
    BY <1>9 DEF ReadDirty, ReadRebuilding, Lock, Raise, Take, Lower, Unlock, Built,
                indexVars
  <2>2. \E pc \in {"rebuilding", "lock", "raise", "take", "snapshot", "write",
                   "lower", "unlock", "idle", "stamp"} : Goto(t, pc)
    BY <1>9 DEF ReadDirty, ReadRebuilding, Lock, Raise, Take, Lower, Unlock, Built
  <2>3. call'[t].pc \notin {"hasAny", "bump", "probe", "gate", "view"}
    BY <2>2, GotoCall, PcCall
  <2> QED  BY <2>1, <2>3, QuietMemo
<1>10. CASE SnapshotClasses(t) \/ Load(t) \/ LoadNested(t) \/ Panic(t)
  <2>1. /\ UNCHANGED <<index, hasAny, generation>> /\ memo' = memo
        /\ call[t].pc \notin {"hasAny", "bump"}
    BY <1>10 DEF SnapshotClasses, Load, LoadNested, Panic, indexVars
  <2>2. call'[t].pc \notin {"hasAny", "bump", "probe", "gate", "view"}
    BY <1>10 DEF SnapshotClasses, Load, LoadNested, Panic, NewCall, CallAt,
                 Unwinding, TypeOK, CallTypes
  <2> QED  BY <2>1, <2>2, QuietMemo
<1> QED
  BY <1>1, <1>2, <1>3, <1>4, <1>5, <1>7, <1>8, <1>9, <1>10
  DEF ThreadStep, GateStep, RebuildStep, RefineStep

-----------------------------------------------------------------------------

LEMMA InvStep == IInv /\ [Next]_vars => IInv'
<1> SUFFICES ASSUME IInv, [Next]_vars PROVE IInv'
  OBVIOUS
<1>1. CASE UNCHANGED vars
  <2>1. UNCHANGED <<call, outer, memo, index, hasAny, generation, dirty, marks,
                    rebuilding, taken, over>>
    BY <1>1 DEF vars, indexVars, lockVars, callVars, history
  <2>2. GateInv'
    BY <2>1 DEF IInv, GateInv, GateOK, Up, Passed, Nested
  <2>3. MemoInv'
    BY <2>1 DEF IInv, MemoInv, MemoOK, Writing, HasAnyOK
  <2> QED  BY <2>2, <2>3, NextType DEF IInv
<1>2. ASSUME NEW w \in Writer, WriterStep(w) PROVE IInv'
  BY <1>2, NextType, WriterGate, WriterMemo DEF IInv
<1>3. ASSUME NEW t \in Thread, ThreadStep(t) PROVE IInv'
  BY <1>3, NextType, ThreadGate, ThreadMemo DEF IInv
<1> QED  BY <1>1, <1>2, <1>3 DEF Next

LEMMA InitInv == Init => IInv
  BY InitType, InitGate, InitMemo DEF IInv

\* A load that came through the gate is never served an index older than a
\* mark it could have seen (gated_index.rs:85-91).
THEOREM GateIsSound == Spec => []GateServes
<1>1. IInv => GateServes
  BY DEF IInv, GateInv, GateOK, GateServes
<1> QED  BY <1>1, InitInv, InvStep, PTL DEF Spec

\* A memoised refinement with the current stamp is current
\* (gated_index.rs:64-65).
THEOREM MemoIsSound == Spec => []MemoIsCurrent
<1>1. IInv => MemoIsCurrent
  BY DEF IInv, MemoInv, MemoOK, MemoIsCurrent
<1> QED  BY <1>1, InitInv, InvStep, PTL DEF Spec

-----------------------------------------------------------------------------
(* The steps of the gate.                                                  *)

\* A load that a panic unwinds is nested in nothing, and neither is no load.
PanicOK(t) ==
    /\ call[t].pc = "idle" => ~Nested(t)
    /\ call[t].panicked => ~Nested(t) /\ call[t].pc \in {"lower", "unlock", "idle"}

PanicInv == \A t \in Thread : PanicOK(t)

LEMMA GotoPanicked ==
    ASSUME TypeOK, NEW t \in Thread, NEW pc, Goto(t, pc)
    PROVE  call'[t].panicked = call[t].panicked
  BY DEF TypeOK, CallTypes, Goto, Call

\* A pop of a longer stack leaves its first frame.
LEMMA AllButLast ==
    ASSUME NEW S, NEW s \in Seq(S), s # <<>>, Len(s) # 1
    PROVE  SubSeq(s, 1, Len(s) - 1) # <<>> /\ SubSeq(s, 1, Len(s) - 1)[1] = s[1]
<1> DEFINE n == Len(s)
<1>0. n \in Nat \ {0} /\ n # 1 /\ \A i \in 1 .. n : s[i] \in S
  OBVIOUS
<1> HIDE DEF n
<1>1. n \in Nat /\ n >= 2 /\ \A i \in 1 .. n : s[i] \in S
  BY <1>0
<1>2. /\ Len(SubSeq(s, 1, n - 1)) = n - 1
      /\ SubSeq(s, 1, n - 1)[1] = s[1]
  <2>1. \A i \in 1 .. n - 1 : s[i] \in S
    BY <1>1
  <2> QED  BY <1>1, <2>1, SubSeqProperties
<1>3. SubSeq(s, 1, n - 1) # <<>>
  BY <1>1, <1>2
<1> QED  BY <1>2, <1>3 DEF n

\* Where a load that returns finds itself: in the rebuild it was made for, or
\* nowhere.
LEMMA Returned ==
    ASSUME TypeOK, NEW t \in Thread, Return(t)
    PROVE  /\ ~call'[t].panicked
           /\ ~Nested(t) => call'[t].pc = "idle" /\ outer'[t] = outer[t]
           /\ Nested(t) => /\ call'[t].pc = "build"
                           /\ FirstArrival(t)' = outer[t][1].arrived
<1> USE DEF TypeOK, CallTypes
<1>1. CASE Nested(t)
  <2> DEFINE s == outer[t]
             f == s[Len(s)]
             r == SubSeq(s, 1, Len(s) - 1)
  <2>1. s \in Seq(Frame) /\ Len(s) \in Nat \ {0} /\ s # <<>>
    BY <1>1 DEF Nested
  <2>2. /\ call'[t] = CallAt("build", f.arrived, f.snapshot)
        /\ outer'[t] = r
    BY <1>1 DEF Return
  <2>3. call'[t].pc = "build" /\ call'[t].arrived = f.arrived /\ ~call'[t].panicked
    BY <2>2 DEF CallAt
  <2>4. CASE Len(s) = 1
    <3>1. r = <<>>
      BY <2>1, <2>4
    <3> QED  BY <1>1, <2>2, <2>3, <2>4, <3>1 DEF FirstArrival, Nested
  <2>5. CASE Len(s) # 1
    <3>1. r # <<>> /\ r[1] = s[1]
      BY <2>1, <2>5, AllButLast
    <3> QED  BY <1>1, <2>2, <2>3, <3>1 DEF FirstArrival, Nested
  <2> QED  BY <2>4, <2>5
<1>2. CASE ~Nested(t)
  BY <1>2 DEF Return, NoCall, CallAt
<1> QED  BY <1>1, <1>2

\* A panic unwinds every call of its thread, and no other load ends nested.
LEMMA PanicThread ==
    ASSUME TypeOK, PanicInv, NEW t \in Thread, ThreadStep(t) PROVE PanicInv'
<1> USE DEF TypeOK, CallTypes
<1>o. ASSUME NEW u \in Thread, u # t PROVE PanicOK(u)'
  <2>1. call'[u] = call[u] /\ outer'[u] = outer[u] /\ PanicOK(u)
    BY <1>o, OthersKept DEF PanicInv
  <2> QED  BY <2>1 DEF PanicOK, Nested
<1> SUFFICES PanicOK(t)'
  BY <1>o DEF PanicInv
<1>1. PanicOK(t)
  BY DEF PanicInv
<1>2. ASSUME NEW pc, Goto(t, pc), outer' = outer, pc # "idle",
             ~call[t].panicked \/ pc \in {"lower", "unlock"}
      PROVE  PanicOK(t)'
  <2>1. call'[t].pc = pc
    BY <1>2 DEF Goto
  <2> QED  BY <1>1, <1>2, <2>1, GotoPanicked DEF PanicOK, Nested
<1>3. CASE ReadDirty(t) \/ ReadRebuilding(t) \/ Lock(t) \/ Raise(t) \/ Take(t)
           \/ Built(t) \/ WriteIndex(t) \/ SetHasAny(t) \/ Bump(t)
  <2>1. ~call[t].panicked /\ outer' = outer
    BY <1>1, <1>3 DEF PanicOK, ReadDirty, ReadRebuilding, Lock, Raise, Take, Built,
                      WriteIndex, SetHasAny, Bump
  <2>2. \E pc \in {"lock", "rebuilding", "stamp", "raise", "take", "snapshot",
                   "write", "hasAny", "bump", "lower"} : Goto(t, pc)
    BY <1>3 DEF ReadDirty, ReadRebuilding, Lock, Raise, Take, Built, WriteIndex,
                SetHasAny, Bump
  <2> QED  BY <1>2, <2>1, <2>2
<1>4. CASE Lower(t)
  BY <1>2, <1>4 DEF Lower
<1>5. CASE Unlock(t)
  <2>1. call'[t].panicked = call[t].panicked /\ outer'[t] = outer[t]
    BY <1>5, GotoPanicked DEF Unlock
  <2>2. call'[t].pc = IF call[t].panicked THEN "idle" ELSE "stamp"
    BY <1>5 DEF Unlock, Goto
  <2> QED  BY <1>1, <2>1, <2>2 DEF PanicOK, Nested
<1>6. CASE SnapshotClasses(t) \/ ReadStamp(t) \/ ReadHasAny(t) \/ Load(t)
           \/ LoadNested(t)
  <2>1. call'[t].pc # "idle" /\ ~call'[t].panicked
    BY <1>6 DEF SnapshotClasses, ReadStamp, ReadHasAny, Load, LoadNested, CallAt,
                Refining, NewCall
  <2> QED  BY <2>1 DEF PanicOK
<1>7. CASE Panic(t)
  <2>1. outer'[t] = <<>> /\ call'[t].pc = "lower"
    BY <1>7 DEF Panic, Unwinding
  <2> QED  BY <2>1 DEF PanicOK, Nested
<1>8. ASSUME Return(t) PROVE PanicOK(t)'
  BY <1>8, Returned DEF PanicOK, Nested
<1>9. CASE Probe(t)
  <2>1. ~call[t].panicked
    BY <1>1, <1>9 DEF PanicOK, Probe
  <2> QED  BY <1>2, <1>8, <1>9, <2>1 DEF Probe
<1>10. CASE View(t)
  BY <1>8, <1>10 DEF View
<1> QED
  BY <1>3, <1>4, <1>5, <1>6, <1>7, <1>9, <1>10
  DEF ThreadStep, GateStep, RebuildStep, RefineStep

LEMMA PanicStep == TypeOK /\ PanicInv /\ [Next]_vars => PanicInv'
<1> SUFFICES ASSUME TypeOK, PanicInv, [Next]_vars PROVE PanicInv'
  OBVIOUS
<1>1. ASSUME UNCHANGED <<call, outer>> PROVE PanicInv'
  BY <1>1 DEF PanicInv, PanicOK, Nested
<1>2. CASE UNCHANGED vars
  BY <1>1, <1>2 DEF vars, callVars
<1>3. ASSUME NEW w \in Writer, WriterStep(w) PROVE PanicInv'
  BY <1>1, <1>3 DEF WriterStep, Edit, Parse, Scan, Refresh, Consult, Announce,
                    Apply, MarkScanned, callVars
<1> QED  BY <1>2, <1>3, PanicThread DEF Next

LEMMA InitPanic == Init => PanicInv
<1> SUFFICES ASSUME Init PROVE \A t \in Thread : PanicOK(t)
  BY Zenon DEF PanicInv
<1> TAKE t \in Thread
<1>1. NoCall.panicked = FALSE
  BY DEF NoCall, CallAt
<1>2. call[t] = NoCall /\ outer[t] = <<>>
  BY DEF Init
<1>3. ~call[t].panicked
  BY <1>1, <1>2, Zenon
<1> QED  BY <1>2, <1>3 DEF PanicOK, Nested

\* The callers of the gate, as the refinement maps them.
Callers == [t \in Thread |-> CallerOf(t)]

\* A load that goes from one place of the gate or of a rebuild to another waits
\* for the gate, unless it has come through it and is nested in no rebuild.
Waiting(t) ==
    /\ call[t].pc # "idle" /\ ~call[t].panicked
    /\ ~Passed(t) \/ Nested(t)

LEMMA Roles ==
    ASSUME NEW t
    PROVE  /\ call[t].pc = "idle" => CallerOf(t) = Gate!Away
           /\ call[t].pc # "idle" /\ call[t].panicked => CallerOf(t) = Gate!Fallen
           /\ Waiting(t) => CallerOf(t) = Gate!Waiter(FirstArrival(t))
           /\ Passed(t) /\ ~Nested(t) /\ ~call[t].panicked
              => CallerOf(t) = Gate!Reader
  BY DEF CallerOf, Waiting, Passed, Gate!Away, Gate!Fallen, Gate!Waiter, Gate!Reader

\* The roles differ.
LEMMA RolesDiffer ==
    /\ Gate!Away.role = "away" /\ Gate!Fallen.role = "fallen"
    /\ Gate!Reader.role = "reader"
    /\ \A n : Gate!Waiter(n).role = "waiter" /\ Gate!Waiter(n).arrived = n
  BY DEF Gate!Away, Gate!Fallen, Gate!Waiter, Gate!Reader

\* A step of t changes the role of t alone.
LEMMA OneCaller ==
    ASSUME TypeOK, NEW t \in Thread, ThreadStep(t), NEW r, CallerOf(t)' = r
    PROVE  Callers' = [Callers EXCEPT ![t] = r]
<1>1. ASSUME NEW u \in Thread, u # t PROVE CallerOf(u)' = CallerOf(u)
  <2>1. call'[u] = call[u] /\ outer'[u] = outer[u]
    BY <1>1, OthersKept
  <2> QED  BY <2>1 DEF CallerOf, Passed, Nested, FirstArrival
<1> QED  BY <1>1 DEF Callers

LEMMA GateStutter ==
    ASSUME TypeOK, NEW t \in Thread, ThreadStep(t), CallerOf(t)' = CallerOf(t),
           UNCHANGED <<marks, over, holder>>
    PROVE  UNCHANGED Gate!vars
<1>1. Callers' = Callers
  BY OneCaller DEF Callers
<1> QED  BY <1>1 DEF Gate!vars, Callers

\* Between two places at which it waits, the arrival of a load is kept.
LEMMA KeepsWaiting ==
    ASSUME TypeOK, PanicInv, NEW t \in Thread, NEW pc, Goto(t, pc), outer' = outer,
           Waiting(t), pc # "idle",
           pc \notin {"stamp", "probe", "gate", "view"} \/ Nested(t)
    PROVE  Waiting(t)' /\ CallerOf(t)' = CallerOf(t)
<1>1. /\ call'[t].pc = pc /\ call'[t].arrived = call[t].arrived
      /\ call'[t].panicked = call[t].panicked
  BY DEF TypeOK, CallTypes, Goto, Call
<1>2. FirstArrival(t)' = FirstArrival(t) /\ Nested(t)' = Nested(t)
  BY <1>1 DEF FirstArrival, Nested
<1>3. Waiting(t)'
  BY <1>1, <1>2 DEF Waiting, Passed
<1>4. CallerOf(t) = Gate!Waiter(FirstArrival(t))
  BY Roles
<1>5. CallerOf(t)' = Gate!Waiter(FirstArrival(t)')
  BY <1>3 DEF CallerOf, Waiting, Passed, Gate!Waiter
<1> QED  BY <1>2, <1>3, <1>4, <1>5

\* Every step of a load is a step of the gate, or none that its callers see.
LEMMA ThreadSteps ==
    ASSUME IInv, IInv', PanicInv, NEW t \in Thread, ThreadStep(t)
    PROVE  [Gate!Next]_Gate!vars
<1>t. /\ TypeOK /\ PanicOK(t) /\ GateOK(t) /\ GateOK(t)'
      /\ marks \in Nat /\ taken \in Nat /\ over \in Nat
      /\ over <= taken /\ taken <= marks
      /\ Inside(t) <=> holder = t
  BY DEF IInv, GateInv, PanicInv, TypeOK
<1>c. Callers[t] = CallerOf(t)
  BY DEF Callers
<1>s. ASSUME CallerOf(t)' = CallerOf(t), UNCHANGED <<marks, over, holder>>
      PROVE  UNCHANGED Gate!vars
  BY <1>s, <1>t, GateStutter
\* Places at which a load goes on waiting.
<1>1. CASE ReadDirty(t) \/ Raise(t) \/ Take(t) \/ Built(t) \/ WriteIndex(t)
           \/ SetHasAny(t) \/ Bump(t)
  <2>1. Waiting(t) /\ outer' = outer /\ UNCHANGED <<marks, over, holder>>
    BY <1>1, <1>t
    DEF Waiting, PanicOK, Passed, ReadDirty, Raise, Take, Built, WriteIndex, SetHasAny,
        Bump, lockVars, history
  <2>2. \E pc \in {"lock", "rebuilding", "take", "snapshot", "lower", "write", "hasAny",
                   "bump"} : Goto(t, pc)
    BY <1>1 DEF ReadDirty, Raise, Take, Built, WriteIndex, SetHasAny, Bump
  <2>3. CallerOf(t)' = CallerOf(t)
    BY <1>t, <2>1, <2>2, KeepsWaiting
  <2> QED  BY <1>s, <2>1, <2>3
<1>2. CASE ReadRebuilding(t)
  <2>1. Waiting(t) /\ outer' = outer /\ UNCHANGED <<marks, over, holder>>
    BY <1>2, <1>t DEF Waiting, PanicOK, Passed, ReadRebuilding, lockVars, history
  <2>2. CASE rebuilding \/ Nested(t)
    <3>1. CallerOf(t)' = CallerOf(t)
      BY <1>2, <1>t, <2>1, <2>2, KeepsWaiting DEF ReadRebuilding
    <3> QED  BY <1>s, <2>1, <3>1
  <2>3. CASE ~rebuilding /\ ~Nested(t)
    <3>1. /\ call'[t].pc = "stamp" /\ call'[t].arrived = call[t].arrived
          /\ ~call'[t].panicked /\ ~Nested(t)'
      BY <1>2, <1>t, <2>1, <2>3, GotoCall, PcCall, GotoPanicked
      DEF ReadRebuilding, Waiting, Nested
    <3>2. CallerOf(t)' = Gate!Reader
      BY <3>1 DEF CallerOf, Passed, Gate!Reader
    <3>3. CallerOf(t) = Gate!Waiter(call[t].arrived)
      BY <2>1, <2>3, Roles DEF FirstArrival
    <3>4. call[t].arrived <= over
      BY <1>t, <2>1, <3>1 DEF GateOK, Passed
    <3>5. holder # t
      BY <1>2, <1>t, <2>3 DEF Inside, ReadRebuilding
    <3>6. Gate!Pass(t)
      BY <1>c, <1>t, <2>1, <3>2, <3>3, <3>4, <3>5, RolesDiffer, OneCaller
      DEF Gate!Pass, Gate!Served, Gate!Becomes, Gate!Free, Callers
    <3> QED  BY <3>6 DEF Gate!Next
  <2> QED  BY <2>2, <2>3
<1>3. CASE Lock(t)
  <2>1. Waiting(t) /\ outer' = outer /\ UNCHANGED <<marks, over>> /\ holder' = t
    BY <1>3, <1>t DEF Waiting, PanicOK, Passed, Lock, history
  <2>2. CallerOf(t)' = CallerOf(t)
    BY <1>3, <1>t, <2>1, KeepsWaiting DEF Lock
  <2>3. CASE holder = t
    BY <1>s, <2>1, <2>2, <2>3
  <2>4. CASE holder # t
    <3>1. holder = NoThread
      BY <1>3, <2>4 DEF Lock, Available
    <3>2. Callers' = Callers
      BY <1>t, <2>2, OneCaller DEF Callers
    <3>w. CallerOf(t).role = "waiter"
      BY <2>1, Roles, RolesDiffer
    <3>3. Gate!Enter(t)
      BY <1>c, <2>1, <3>1, <3>2, <3>w DEF Gate!Enter, Callers
    <3> QED  BY <3>3 DEF Gate!Next
  <2> QED  BY <2>3, <2>4
<1>4. CASE Lower(t)
  <2>1. /\ holder = t /\ outer' = outer /\ UNCHANGED <<marks, holder>>
        /\ over' = IF Nested(t) THEN over ELSE taken
    BY <1>4, <1>t DEF Lower, Inside
  <2>2. /\ call'[t].pc = "unlock" /\ call'[t].arrived = call[t].arrived
        /\ call'[t].panicked = call[t].panicked
    BY <1>4, <1>t, GotoCall, PcCall, GotoPanicked DEF Lower
  <2>3. CallerOf(t)' = CallerOf(t)
    BY <1>4, <2>1, <2>2 DEF Lower, CallerOf, Passed, Nested, FirstArrival
  <2>4. CASE over' = over
    BY <1>s, <2>1, <2>3, <2>4
  <2>5. CASE over' # over
    <3>1. over' \in (over + 1) .. marks
      BY <1>t, <2>1, <2>5
    <3>2. Callers' = Callers
      BY <1>t, <2>3, OneCaller DEF Callers
    <3>3. Gate!Cover(t)
      BY <2>1, <3>1, <3>2 DEF Gate!Cover, Callers
    <3> QED  BY <3>3 DEF Gate!Next
  <2> QED  BY <2>4, <2>5
<1>5. CASE Unlock(t)
  <2>1. /\ holder = t /\ outer' = outer /\ UNCHANGED <<marks, over>>
        /\ holder' = IF Nested(t) THEN t ELSE NoThread
        /\ call[t].pc = "unlock"
    BY <1>5, <1>t DEF Unlock, Inside, history
  <2>2. CASE Nested(t)
    <3>1. Waiting(t) /\ ~call[t].panicked
      BY <1>t, <2>1, <2>2 DEF Waiting, PanicOK, Passed
    <3>2. CallerOf(t)' = CallerOf(t)
      BY <1>5, <1>t, <2>1, <2>2, <3>1, KeepsWaiting DEF Unlock
    <3> QED  BY <1>s, <2>1, <2>2, <3>2
  <2>3. CASE ~Nested(t) /\ call[t].panicked
    <3>1. call'[t].pc = "idle" /\ CallerOf(t) = Gate!Fallen
      BY <1>5, <1>t, <2>1, <2>3, GotoCall, PcCall, Roles DEF Unlock
    <3>2. CallerOf(t)' = Gate!Away
      BY <3>1 DEF CallerOf, Gate!Away
    <3>3. Gate!Fall(t)
      BY <1>c, <1>t, <2>1, <2>3, <3>1, <3>2, OneCaller
      DEF Gate!Fall, Gate!Becomes, Gate!Free, Callers
    <3> QED  BY <3>3 DEF Gate!Next
  <2>4. CASE ~Nested(t) /\ ~call[t].panicked
    <3>1. /\ call'[t].pc = "stamp" /\ ~call'[t].panicked /\ ~Nested(t)'
      BY <1>5, <1>t, <2>1, <2>4, GotoCall, PcCall, GotoPanicked DEF Unlock, Nested
    <3>2. CallerOf(t)' = Gate!Reader
      BY <3>1 DEF CallerOf, Passed, Gate!Reader
    <3>3. CallerOf(t) = Gate!Waiter(call[t].arrived)
      BY <2>1, <2>4, Roles DEF Waiting, Passed, FirstArrival
    <3>4. call[t].arrived <= over
      BY <1>t, <2>1, <2>4 DEF GateOK
    <3>5. Gate!Pass(t)
      BY <1>c, <1>t, <2>1, <2>4, <3>2, <3>3, <3>4, RolesDiffer, OneCaller
      DEF Gate!Pass, Gate!Served, Gate!Becomes, Gate!Free, Callers
    <3> QED  BY <3>5 DEF Gate!Next
  <2> QED  BY <2>2, <2>3, <2>4
<1>6. CASE SnapshotClasses(t)
  <2>1. Waiting(t) /\ outer' = outer /\ UNCHANGED <<marks, over, holder>>
    BY <1>6, <1>t
    DEF Waiting, PanicOK, Passed, SnapshotClasses, lockVars, history
  <2>2. /\ call'[t].pc = "build" /\ call'[t].arrived = call[t].arrived
        /\ ~call'[t].panicked
    BY <1>6, <1>t DEF SnapshotClasses, CallAt, TypeOK, CallTypes
  <2>3. CallerOf(t)' = Gate!Waiter(FirstArrival(t))
    BY <2>1, <2>2 DEF CallerOf, Passed, Nested, FirstArrival, Gate!Waiter
  <2> QED  BY <1>s, <2>1, <2>3, Roles
<1>7. CASE LoadNested(t)
  <2> DEFINE g == [arrived |-> call[t].arrived, snapshot |-> call[t].snapshot]
  <2>1. Waiting(t) /\ UNCHANGED <<marks, over, holder>>
    BY <1>7, <1>t DEF Waiting, PanicOK, Passed, LoadNested, lockVars, history
  <2>2. call'[t].pc = "dirty" /\ ~call'[t].panicked
    BY <1>7, <1>t DEF LoadNested, NewCall, CallAt, TypeOK, CallTypes
  <2>3. outer[t] \in Seq(Frame) /\ g \in Frame /\ g.arrived = call[t].arrived
    BY <1>t DEF TypeOK, CallTypes, Frame, Call
  <2>4. outer'[t] = Append(outer[t], g)
    BY <1>7, <1>t DEF LoadNested, TypeOK, CallTypes
  <2> HIDE DEF g
  <2>5. /\ outer'[t] # <<>>
        /\ outer'[t][1] = IF outer[t] = <<>> THEN g ELSE outer[t][1]
    BY <2>3, <2>4
  <2>6. Nested(t)' /\ FirstArrival(t)' = FirstArrival(t)
    BY <2>3, <2>5 DEF Nested, FirstArrival
  <2>7. CallerOf(t)' = Gate!Waiter(FirstArrival(t))
    BY <2>2, <2>6 DEF CallerOf, Gate!Waiter
  <2> QED  BY <1>s, <2>1, <2>7, Roles
<1>8. CASE Panic(t)
  <2>1. Waiting(t) /\ holder = t /\ UNCHANGED <<marks, over, holder>>
    BY <1>8, <1>t DEF Waiting, PanicOK, Passed, Panic, Inside, lockVars, history
  <2>2. call'[t].pc = "lower" /\ call'[t].panicked = TRUE
    BY <1>8, <1>t DEF Panic, Unwinding, TypeOK, CallTypes
  <2>3. CallerOf(t)' = Gate!Fallen
    BY <2>2 DEF CallerOf, Gate!Fallen
  <2>4. Gate!GiveUp(t)
    BY <1>c, <1>t, <2>1, <2>3, Roles, RolesDiffer, OneCaller
    DEF Gate!GiveUp, Gate!Becomes, Callers
  <2> QED  BY <2>4 DEF Gate!Next
\* Places past the gate.
<1>9. ASSUME call[t].pc \in {"stamp", "probe", "gate", "view"}, outer' = outer,
             call'[t].pc \in {"stamp", "probe", "gate", "view"},
             call'[t].arrived = call[t].arrived, ~call'[t].panicked
      PROVE  CallerOf(t)' = CallerOf(t)
  <2>1. ~call[t].panicked
    BY <1>9, <1>t DEF PanicOK
  <2> QED  BY <1>9, <2>1 DEF CallerOf, Passed, Nested, FirstArrival
<1>10. CASE ReadStamp(t) \/ ReadHasAny(t)
  <2>1. /\ call[t].pc \in {"stamp", "gate"} /\ outer' = outer
        /\ UNCHANGED <<marks, over, holder>>
    BY <1>10 DEF ReadStamp, ReadHasAny, lockVars, history
  <2>2. /\ call'[t].pc \in {"probe", "view"} /\ call'[t].arrived = call[t].arrived
        /\ ~call'[t].panicked
    BY <1>10, <1>t DEF ReadStamp, ReadHasAny, Refining, TypeOK, CallTypes
  <2> QED  BY <1>9, <1>s, <2>1, <2>2
<1>11. ASSUME Return(t), call[t].pc \in {"probe", "view"},
              UNCHANGED <<marks, over, holder>>
       PROVE  [Gate!Next]_Gate!vars
  <2>1. ~call[t].panicked
    BY <1>11, <1>t DEF PanicOK
  <2>2. CASE Nested(t)
    <3>1. CallerOf(t) = Gate!Waiter(FirstArrival(t))
      BY <1>11, <2>1, <2>2, Roles DEF Waiting
    <3>2. CallerOf(t)' = Gate!Waiter(FirstArrival(t)')
      BY <1>11, <1>t, <2>2, Returned DEF CallerOf, Passed, Gate!Waiter
    <3>3. FirstArrival(t)' = FirstArrival(t)
      BY <1>11, <1>t, <2>2, Returned DEF FirstArrival
    <3> QED  BY <1>11, <1>s, <3>1, <3>2, <3>3
  <2>3. CASE ~Nested(t)
    <3>1. CallerOf(t) = Gate!Reader
      BY <1>11, <2>1, <2>3, Roles DEF Passed
    <3>2. CallerOf(t)' = Gate!Away
      BY <1>11, <1>t, <2>3, Returned DEF CallerOf, Gate!Away
    <3>3. Gate!Return(t)
      BY <1>11, <1>c, <1>t, <3>1, <3>2, OneCaller
      DEF Gate!Return, Gate!Becomes, Callers
    <3> QED  BY <3>3 DEF Gate!Next
  <2> QED  BY <2>2, <2>3
<1>12. CASE Probe(t)
  <2>1. call[t].pc = "probe" /\ UNCHANGED <<marks, over, holder>>
    BY <1>12 DEF Probe, lockVars, history
  <2>2. CASE Hit(t)
    BY <1>11, <1>12, <2>1, <2>2 DEF Probe
  <2>3. CASE ~Hit(t)
    <3>1. Goto(t, "gate") /\ outer' = outer /\ ~call[t].panicked
      BY <1>12, <1>t, <2>3 DEF Probe, PanicOK
    <3>2. /\ call'[t].pc = "gate" /\ call'[t].arrived = call[t].arrived
          /\ ~call'[t].panicked
      BY <1>t, <3>1, GotoCall, PcCall, GotoPanicked
    <3> QED  BY <1>9, <1>s, <2>1, <3>1, <3>2
  <2> QED  BY <2>2, <2>3
<1>13. CASE View(t)
  BY <1>11, <1>13 DEF View, lockVars, history
<1>14. CASE Load(t)
  <2>1. /\ call[t].pc = "idle" /\ ~Nested(t) /\ outer' = outer
        /\ UNCHANGED <<marks, over, holder>>
    BY <1>14, <1>t DEF Load, PanicOK, lockVars, history
  <2>2. call'[t].pc = "dirty" /\ ~call'[t].panicked /\ call'[t].arrived = marks
    BY <1>14, <1>t DEF Load, NewCall, CallAt, TypeOK, CallTypes
  <2>3. CallerOf(t)' = Gate!Waiter(marks)
    BY <2>1, <2>2 DEF CallerOf, Passed, FirstArrival, Nested, Gate!Waiter
  <2>4. CallerOf(t) = Gate!Away
    BY <2>1, Roles
  <2>5. Gate!Arrive(t)
    BY <1>c, <1>t, <2>1, <2>3, <2>4, OneCaller DEF Gate!Arrive, Gate!Becomes, Callers
  <2> QED  BY <2>5 DEF Gate!Next
<1> QED
  BY <1>1, <1>2, <1>3, <1>4, <1>5, <1>6, <1>7, <1>8, <1>10, <1>12, <1>13, <1>14
  DEF ThreadStep, GateStep, RebuildStep, RefineStep

\* A publication marks the index, or is none of the gate's business.
LEMMA WriterSteps ==
    ASSUME NEW w \in Writer, WriterStep(w) PROVE [Gate!Next]_Gate!vars
<1>1. UNCHANGED <<call, outer, over, holder>>
  BY DEF WriterStep, Edit, Parse, Scan, Refresh, Consult, Announce, Apply,
         MarkScanned, lockVars, callVars, history
<1>2. Callers' = Callers
  BY <1>1 DEF Callers, CallerOf, Passed, Nested, FirstArrival
<1>3. marks' \in {marks, marks + 1}
  BY DEF WriterStep, Edit, Parse, Scan, Refresh, Consult, Announce, Apply,
         MarkScanned, MarkDirty
<1>4. CASE marks' = marks
  BY <1>1, <1>2, <1>4 DEF Gate!vars, Callers
<1>5. CASE marks' = marks + 1
  <2>1. Gate!Mark
    BY <1>1, <1>2, <1>5 DEF Gate!Mark, Callers
  <2> QED  BY <2>1 DEF Gate!Next
<1> QED  BY <1>3, <1>4, <1>5

\* Every behaviour of the two flags and the reentrant lock is one of the gate
\* its callers count on, whatever they nest and wherever a rebuild panics
\* (gated_index.rs:85-115): the safety part of ImplementsGate.
THEOREM StepsAreGated == Spec => Gate!Init /\ [][Gate!Next]_Gate!vars
<1>1. Init => Gate!Init
  <2> SUFFICES ASSUME Init PROVE Gate!Init
    OBVIOUS
  <2>1. NoCall.pc = "idle"
    BY DEF NoCall, CallAt
  <2>2. \A t \in Thread : CallerOf(t) = Gate!Away
    BY <2>1 DEF Init, CallerOf, Gate!Away
  <2> QED  BY <2>2 DEF Init, Gate!Init
<1>2. IInv /\ PanicInv /\ [Next]_vars => PanicInv'
  BY PanicStep DEF IInv
<1>3. IInv /\ IInv' /\ PanicInv /\ [Next]_vars => [Gate!Next]_Gate!vars
  <2> SUFFICES ASSUME IInv, IInv', PanicInv, [Next]_vars PROVE [Gate!Next]_Gate!vars
    OBVIOUS
  <2>1. CASE UNCHANGED vars
    BY <2>1 DEF vars, lockVars, callVars, history, Gate!vars, CallerOf, Passed, Nested,
                FirstArrival
  <2> QED  BY <2>1, ThreadSteps, WriterSteps DEF Next
<1> QED  BY <1>1, <1>2, <1>3, InitInv, InvStep, InitPanic, PTL DEF Spec
=============================================================================
