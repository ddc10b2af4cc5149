------------------------- MODULE ClassLookupProofs -------------------------
(***************************************************************************)
(* TypeOK, NoPoisonedMiss and MemoMatches for every set of classes, files  *)
(* and threads, and the steps of a lookup as steps of ParseClaims.         *)
(*                                                                         *)
(* Shapes gives the lookups and the publication their types.  PoisonInv    *)
(* says what a thread may count on: a parse is not released, and nobody    *)
(* who waited for it goes on, before the classes of the file are in        *)
(* uri_classes_index, and they stay there unless a watcher drops them.     *)
(* MemoInv says that every write to the indexes opens a window which only  *)
(* a bump of the generation closes, and that no memo is ahead of it.       *)
(***************************************************************************)
EXTENDS ClassLookup, WellFoundedInduction, TLAPS

\* The steps of a parse, and those whose file is settled or text is read.
Holding   == {"read", "old", "insert", "declare", "uncache", "bump", "release"}
Placed    == Holding \cup {"claim", "wait", "joined"}
HasText   == Holding \ {"read"}
Published == {"joined", "declare", "uncache", "bump", "release"}
LookPc    == Placed \cup {"idle", "negative", "declared", "indexed", "psr4", "miss"}

AnyClass == CHOOSE c \in Class : TRUE
LookType == [pc : LookPc, class : Class \cup {AnyClass}, generation : Nat,
             file : File \cup {0}, phase : {"none", "indexed", "psr4"},
             text : SUBSET Class, old : SUBSET Class]
LookOK(l) ==
    /\ l.pc # "idle" => l.class \in Class
    /\ l.pc \in Placed => l.file \in File
    /\ l.pc \in HasText => l.text \in Text

OfAFile == {"withdraw", "retire", "forget", "scan", "old", "declare", "insert"}
PubType == [pc : OfAFile \cup {"idle", "uncache", "bump"}, file : File \cup {0},
            text : SUBSET Class, old : SUBSET Class, clears : BOOLEAN]
PublicationOK ==
    /\ publication \in PubType
    /\ publication.pc \in OfAFile => publication.file \in File
    /\ publication.pc # "idle" /\ publication.file # 0 => publication.text \in Text

Shapes ==
    /\ look \in [Thread -> LookType]
    /\ \A t \in Thread : LookOK(look[t])
    /\ PublicationOK
    /\ gaveUp \in Nat /\ panics \in Nat

\* What the indexes and the claims add to that.
FlightOK == /\ flight \in [File -> Thread \cup {NoThread}]
            /\ \A t \in Thread, f \in File : flight[f] = t <=> Parses(t, f)
IndexOK  == /\ disk \in [File -> Text] /\ buffer \in [File -> Text \cup {NoText}]
            /\ uriClasses \in [File -> Text \cup {NoText}]
            /\ declared \in [Class -> SUBSET File] /\ owner \in [Class -> File \cup {0}]
            /\ misses \subseteq Class /\ generation \in Nat
IInv == Shapes /\ FlightOK /\ IndexOK

----------------------------------------------------------------------------
(* Facts about the helpers.                                                *)

\* A set of files has a lowest one.
LEMMA LowestFile ==
  ASSUME LookupAssumption, NEW fs \in SUBSET File, fs # {}
  PROVE  Lowest(fs) \in fs
<1> DEFINE R == {ss \in Nat \X Nat : ss[1] < ss[2]}
<1>1. fs \subseteq Nat
  BY DEF LookupAssumption
<1>2. IsWellFoundedOn(R, Nat)
  BY NatLessThanWellFounded DEF OpToRel
<1>3. \A g, m \in Nat : g < m => <<g, m>> \in R
  OBVIOUS
<1> HIDE DEF R
<1>4. PICK m \in fs : \A g \in fs : ~ (<<g, m>> \in R)
  BY <1>1, <1>2, WFMin
<1>5. ASSUME NEW g \in fs PROVE m <= g
  <2>1. g \in Nat /\ m \in Nat
    BY <1>1
  <2>2. ~ (g < m)
    BY <2>1, <1>3, <1>4, Zenon
  <2> QED
    BY <2>1, <2>2
<1> QED
  BY <1>5 DEF Lowest

\* with_class_declarations keeps the indexes in their types.
LEMMA RedeclareType ==
  ASSUME LookupAssumption, IndexOK, NEW f \in File, NEW old, NEW new, Redeclare(f, old, new)
  PROVE  declared' \in [Class -> SUBSET File] /\ owner' \in [Class -> File \cup {0}]
<1>1. declared' \in [Class -> SUBSET File]
  BY DEF Redeclare, IndexOK
<1>2. owner' = [c \in Class |->
                  IF declared'[c] # {} THEN Lowest(declared'[c])
                  ELSE IF c \in old /\ owner[c] = f THEN 0 ELSE owner[c]]
  BY DEF Redeclare
<1>3. ASSUME NEW c \in Class
      PROVE  (IF declared'[c] # {} THEN Lowest(declared'[c])
              ELSE IF c \in old /\ owner[c] = f THEN 0 ELSE owner[c]) \in File \cup {0}
  <2>1. declared'[c] \in SUBSET File /\ owner[c] \in File \cup {0}
    BY <1>1 DEF IndexOK
  <2> QED
    BY <2>1, LowestFile
<1> QED
  BY <1>1, <1>2, <1>3

\* A step of one thread, and what it leaves of a lookup that only moves on.
Alone(t) == /\ look' \in [Thread -> LookType]
            /\ \A s \in Thread \ {t} : look'[s] = look[s]
LEMMA GotoFields ==
  ASSUME look \in [Thread -> LookType], NEW t \in Thread, NEW pc \in LookPc, Goto(t, pc)
  PROVE  /\ Alone(t) /\ look'[t].pc = pc
         /\ look'[t].class = look[t].class /\ look'[t].file = look[t].file
         /\ look'[t].phase = look[t].phase /\ look'[t].text = look[t].text
         /\ look'[t].generation = look[t].generation
<1> DEFINE l == [look[t] EXCEPT !.pc = pc]
<1>1. look' = [look EXCEPT ![t] = l]
  BY DEF Goto
<1>2. /\ l \in LookType /\ l.pc = pc /\ l.class = look[t].class /\ l.file = look[t].file
      /\ l.phase = look[t].phase /\ l.text = look[t].text
      /\ l.generation = look[t].generation
  BY DEF LookType
<1> HIDE DEF l
<1> QED
  BY <1>1, <1>2 DEF Alone

LEMMA NoLookupType == /\ NoLookup \in LookType /\ NoLookup.pc = "idle"
                      /\ NoLookup.file = 0 /\ NoLookup.generation = 0
  BY DEF NoLookup, LookType, LookPc, Placed, Holding, AnyClass

\* A lookup that is over.
LEMMA IdleFields ==
  ASSUME look \in [Thread -> LookType], NEW t \in Thread, look' = [look EXCEPT ![t] = NoLookup]
  PROVE  /\ Alone(t) /\ look'[t].pc = "idle" /\ look'[t].file = 0
         /\ look'[t].generation = 0
  BY NoLookupType DEF Alone

LEMMA AnswerFields ==
  ASSUME look \in [Thread -> LookType], NEW t \in Thread, NEW f, NEW odd, Memoise(t, f, odd)
  PROVE  /\ Alone(t) /\ look'[t].pc = "idle" /\ look'[t].file = 0
         /\ look'[t].generation = 0
  BY IdleFields DEF Memoise

\* A lookup that has a file to parse.
LEMMA ParseFields ==
  ASSUME look \in [Thread -> LookType], NEW t \in Thread, NEW f \in File,
         NEW phase \in {"indexed", "psr4"}, Parse(t, f, phase)
  PROVE  /\ Alone(t) /\ look'[t].pc = "claim"
         /\ look'[t].class = look[t].class /\ look'[t].file = f
         /\ look'[t].generation = look[t].generation
<1> DEFINE l == [look[t] EXCEPT !.pc = "claim", !.file = f, !.phase = phase]
<1>1. look' = [look EXCEPT ![t] = l]
  BY DEF Parse
<1>2. /\ l \in LookType /\ l.pc = "claim" /\ l.class = look[t].class /\ l.file = f
      /\ l.generation = look[t].generation
  BY DEF LookType, LookPc, Placed
<1> HIDE DEF l
<1> QED
  BY <1>1, <1>2 DEF Alone

----------------------------------------------------------------------------
(* Types.                                                                  *)

LEMMA TypesAreIInv == IInv => TypeOK
  BY DEF IInv, FlightOK, IndexOK, TypeOK

LEMMA InitType == ASSUME LookupAssumption, Init PROVE IInv
<1>1. Shapes
  <2>1. look \in [Thread -> LookType] /\ \A t \in Thread : LookOK(look[t])
    BY NoLookupType DEF Init, LookOK, Placed, HasText, Holding
  <2>2. Quiet \in PubType /\ Quiet.pc = "idle"
    BY DEF Quiet, PubType, OfAFile
  <2> QED
    BY <2>1, <2>2 DEF Shapes, Init, PublicationOK, OfAFile
<1>2. FlightOK
  BY NoLookupType DEF Init, FlightOK, Parses, LookupAssumption
<1>a. PICK open \in SUBSET File :
        /\ buffer = [f \in File |-> IF f \in open THEN disk[f] ELSE NoText]
        /\ uriClasses = buffer
        /\ declared = [c \in Class |-> {f \in open : c \in disk[f]}]
  BY DEF Init
<1>b. disk \in [File -> Text] /\ buffer \in [File -> Text \cup {NoText}]
  BY <1>a DEF Init
<1>3. /\ disk \in [File -> Text] /\ buffer \in [File -> Text \cup {NoText}]
      /\ uriClasses \in [File -> Text \cup {NoText}]
      /\ declared \in [Class -> SUBSET File]
      /\ owner = [c \in Class |-> IF declared[c] = {} THEN 0 ELSE Lowest(declared[c])]
      /\ misses = {} /\ generation = 0
  BY <1>a, <1>b DEF Init
<1>4. ASSUME NEW c \in Class
      PROVE  (IF declared[c] = {} THEN 0 ELSE Lowest(declared[c])) \in File \cup {0}
  <2>1. declared[c] \in SUBSET File
    BY <1>3
  <2> QED
    BY <2>1, LowestFile
<1> QED
  BY <1>1, <1>2, <1>3, <1>4 DEF IInv, IndexOK

\* A step of one thread that leaves the publication alone.
LEMMA ShapesStep ==
  ASSUME Shapes, NEW t \in Thread, Alone(t), LookOK(look'[t]), publication' = publication,
         gaveUp' \in Nat, panics' \in Nat
  PROVE  Shapes'
  BY DEF Shapes, Alone, LookOK, PublicationOK

\* The claims stand as long as nobody begins or ends a parse.
LEMMA FlightStays ==
  ASSUME FlightOK, NEW t \in Thread, Alone(t), flight' = flight,
         look'[t].pc \in Holding <=> look[t].pc \in Holding,
         look[t].pc \in Holding => look'[t].file = look[t].file
  PROVE  FlightOK'
  BY DEF FlightOK, Alone, Parses, Holding

\* A step of a lookup that is not parsing and does not begin to.
LEMMA SearchStep ==
  ASSUME IInv, NEW t \in Thread, Alone(t), LookOK(look'[t]),
         look[t].pc \notin Holding, look'[t].pc \notin Holding,
         UNCHANGED <<texts, indexes, generation, flight, publication>>,
         misses' \in SUBSET Class, gaveUp' \in Nat, panics' \in Nat
  PROVE  IInv'
<1>1. Shapes'
  BY ShapesStep DEF IInv
<1>2. FlightOK'
  BY FlightStays DEF IInv
<1>3. IndexOK'
  BY DEF IInv, IndexOK, texts, indexes
<1> QED
  BY <1>1, <1>2, <1>3 DEF IInv

LEMMA BeginType ==
  ASSUME LookupAssumption, IInv, NEW t \in Thread, NEW c \in Class, Begin(t, c)
  PROVE  /\ IInv' /\ Alone(t) /\ look[t].pc = "idle" /\ look'[t].pc = "negative"
         /\ look'[t].generation = generation
         /\ UNCHANGED <<indexes, misses, generation, memo, publication>>
<1> DEFINE l == [NoLookup EXCEPT !.pc = "negative", !.class = c, !.generation = generation]
<1>1. look' = [look EXCEPT ![t] = l]
  BY DEF Begin
<1>2. /\ l \in LookType /\ l.pc = "negative" /\ l.class \in Class
      /\ l.generation = generation
  BY DEF NoLookup, LookType, LookPc, Placed, Holding, IInv, IndexOK
<1> HIDE DEF l
<1>3. Alone(t) /\ look'[t] = l
  BY <1>1, <1>2 DEF IInv, Shapes, Alone
<1>4. LookOK(look'[t]) /\ look'[t].pc \notin Holding /\ look[t].pc \notin Holding
  BY <1>2, <1>3 DEF LookOK, Placed, HasText, Holding, Begin
<1>5. /\ UNCHANGED <<texts, indexes, generation, flight, publication>>
      /\ misses' \in SUBSET Class /\ gaveUp' \in Nat /\ panics' \in Nat
  BY DEF Begin, IInv, Shapes, IndexOK
<1>6. look[t].pc = "idle" /\ UNCHANGED <<indexes, misses, generation, memo, publication>>
  BY DEF Begin
<1> QED
  BY <1>2, <1>3, <1>4, <1>5, <1>6, SearchStep

LEMMA SearchType ==
  ASSUME LookupAssumption, IInv, NEW t \in Thread,
         Negative(t) \/ Declared(t) \/ Indexed(t) \/ ByName(t) \/ Miss(t)
           \/ Released(t) \/ GiveUp(t) \/ Joined(t)
  PROVE  IInv'
<1> USE DEF LookPc, Placed, Holding, HasText
<1>0. /\ look \in [Thread -> LookType] /\ LookOK(look[t]) /\ look[t] \in LookType
      /\ gaveUp \in Nat /\ panics \in Nat /\ misses \in SUBSET Class
      /\ owner \in [Class -> File \cup {0}] /\ Psr4 \in [Class -> File \cup {0}]
  BY DEF IInv, Shapes, IndexOK, LookupAssumption
<1>a. ASSUME Alone(t), look'[t].pc = "idle" PROVE LookOK(look'[t])
  BY <1>a DEF LookOK
<1>1. CASE Negative(t)
  <2>1. Alone(t) /\ LookOK(look'[t]) /\ look'[t].pc \notin Holding
    <3>1. CASE look[t].class \in misses
      BY <1>0, <1>a, <1>1, <3>1, AnswerFields DEF Negative, Answer
    <3>2. CASE look[t].class \notin misses
      BY <1>0, <1>1, <3>2, GotoFields DEF Negative, LookOK
    <3> QED
      BY <3>1, <3>2
  <2> QED
    BY <1>0, <1>1, <2>1, SearchStep DEF Negative, counters
<1>2. CASE Declared(t)
  <2>1. Alone(t) /\ LookOK(look'[t]) /\ look'[t].pc \notin Holding
    <3>1. CASE declared[look[t].class] # {}
      BY <1>0, <1>a, <1>2, <3>1, AnswerFields DEF Declared, Answer
    <3>2. CASE declared[look[t].class] = {}
      BY <1>0, <1>2, <3>2, GotoFields DEF Declared, LookOK
    <3> QED
      BY <3>1, <3>2
  <2> QED
    BY <1>0, <1>2, <2>1, SearchStep DEF Declared, counters
<1>3. CASE Indexed(t)
  <2>0. look[t].class \in Class
    BY <1>0, <1>3 DEF LookOK, Indexed
  <2>1. Alone(t) /\ LookOK(look'[t]) /\ look'[t].pc \notin Holding
    <3>1. CASE owner[look[t].class] # 0
      <4>1. owner[look[t].class] \in File /\ Parse(t, owner[look[t].class], "indexed")
        BY <1>0, <1>3, <2>0, <3>1 DEF Indexed
      <4>2. Alone(t) /\ look'[t].pc = "claim" /\ look'[t].class = look[t].class
            /\ look'[t].file = owner[look[t].class]
        BY <1>0, <4>1, ParseFields
      <4> QED
        BY <2>0, <4>1, <4>2 DEF LookOK
    <3>2. CASE owner[look[t].class] = 0
      BY <1>0, <1>3, <2>0, <3>2, GotoFields DEF Indexed, LookOK
    <3> QED
      BY <3>1, <3>2
  <2> QED
    BY <1>0, <1>3, <2>1, SearchStep DEF Indexed, counters
<1>4. CASE ByName(t)
  <2>0. look[t].class \in Class
    BY <1>0, <1>4 DEF LookOK, ByName
  <2>1. Alone(t) /\ LookOK(look'[t]) /\ look'[t].pc \notin Holding
    <3>1. CASE Psr4[look[t].class] # 0
      <4>1. Psr4[look[t].class] \in File /\ Parse(t, Psr4[look[t].class], "psr4")
        BY <1>0, <1>4, <2>0, <3>1 DEF ByName
      <4>2. Alone(t) /\ look'[t].pc = "claim" /\ look'[t].class = look[t].class
            /\ look'[t].file = Psr4[look[t].class]
        BY <1>0, <4>1, ParseFields
      <4> QED
        BY <2>0, <4>1, <4>2 DEF LookOK
    <3>2. CASE Psr4[look[t].class] = 0
      BY <1>0, <1>4, <2>0, <3>2, GotoFields DEF ByName, LookOK
    <3> QED
      BY <3>1, <3>2
  <2> QED
    BY <1>0, <1>4, <2>1, SearchStep DEF ByName, counters
<1>5. CASE Miss(t)
  <2>1. Alone(t) /\ LookOK(look'[t]) /\ look'[t].pc \notin Holding
    BY <1>0, <1>a, <1>5, AnswerFields DEF Miss, Answer, LookOK
  <2>2. misses' \in SUBSET Class
    BY <1>0, <1>5 DEF Miss, LookOK
  <2> QED
    BY <1>0, <1>5, <2>1, <2>2, SearchStep DEF Miss, counters
<1>6. CASE Released(t)
  <2>1. Alone(t) /\ LookOK(look'[t]) /\ look'[t].pc \notin Holding
    BY <1>0, <1>6, GotoFields DEF Released, LookOK
  <2> QED
    BY <1>0, <1>6, <2>1, SearchStep DEF Released, counters
<1>7. CASE GiveUp(t)
  <2>1. Alone(t) /\ LookOK(look'[t]) /\ look'[t].pc \notin Holding
    BY <1>0, <1>7, GotoFields DEF GiveUp, LookOK
  <2> QED
    BY <1>0, <1>7, <2>1, SearchStep DEF GiveUp
<1>8. CASE Joined(t)
  <2>1. Alone(t) /\ LookOK(look'[t]) /\ look'[t].pc \notin Holding
    <3>1. After(look[t].phase) \in {"psr4", "miss"}
      BY DEF After
    <3> QED
      BY <1>0, <1>a, <1>8, <3>1, AnswerFields, GotoFields DEF Joined, LookOK
  <2> QED
    BY <1>0, <1>8, <2>1, SearchStep DEF Joined, counters
<1> QED
  BY <1>1, <1>2, <1>3, <1>4, <1>5, <1>6, <1>7, <1>8

LEMMA ClaimType == ASSUME LookupAssumption, IInv, NEW t \in Thread, Claim(t) PROVE IInv'
<1> USE DEF LookPc, Placed, Holding, HasText
<1>1. /\ look \in [Thread -> LookType] /\ LookOK(look[t]) /\ look[t].pc = "claim"
      /\ gaveUp' \in Nat /\ panics' \in Nat /\ misses' \in SUBSET Class
      /\ look[t].file \in File
  BY DEF IInv, Shapes, IndexOK, Claim, LookOK, counters
<1>2. CASE flight[look[t].file] = NoThread
  <2>1. /\ flight' = [flight EXCEPT ![look[t].file] = t] /\ Goto(t, "read")
        /\ Alone(t) /\ look'[t].pc = "read" /\ look'[t].file = look[t].file
        /\ look'[t].class = look[t].class
    BY <1>1, <1>2, GotoFields DEF Claim
  <2>2. LookOK(look'[t])
    BY <1>1, <2>1 DEF LookOK
  <2>3. Shapes'
    BY <1>1, <2>1, <2>2, ShapesStep DEF IInv, Claim
  <2>4. FlightOK'
    BY <1>1, <1>2, <2>1 DEF IInv, FlightOK, Parses, Alone, LookupAssumption
  <2>5. IndexOK'
    BY DEF Claim, IInv, IndexOK, texts, indexes
  <2> QED
    BY <2>3, <2>4, <2>5 DEF IInv
<1>3. CASE flight[look[t].file] # NoThread
  <2>1. /\ flight' = flight /\ Goto(t, "wait") /\ Alone(t) /\ LookOK(look'[t])
        /\ look'[t].pc = "wait"
    BY <1>1, <1>3, GotoFields DEF Claim, LookOK
  <2> QED
    BY <1>1, <2>1, SearchStep DEF Claim
<1> QED
  BY <1>2, <1>3

\* A parse that goes on.
LEMMA HoldStep ==
  ASSUME IInv, NEW t \in Thread, Alone(t), LookOK(look'[t]),
         look[t].pc \in Holding, look'[t].pc \in Holding, look'[t].file = look[t].file,
         flight' = flight, publication' = publication, IndexOK', UNCHANGED counters
  PROVE  IInv'
<1>1. Shapes'
  BY ShapesStep DEF IInv, Shapes, counters
<1>2. FlightOK'
  BY FlightStays DEF IInv
<1> QED
  BY <1>1, <1>2 DEF IInv

\* The claim is released.
LEMMA LandStep ==
  ASSUME LookupAssumption, IInv, NEW t \in Thread, Alone(t), LookOK(look'[t]),
         look[t].pc \in Holding, look'[t].pc \notin Holding,
         flight' = [flight EXCEPT ![look[t].file] = NoThread],
         UNCHANGED <<texts, indexes, misses, generation, publication>>,
         gaveUp' \in Nat, panics' \in Nat
  PROVE  IInv'
<1>1. Shapes'
  BY ShapesStep DEF IInv
<1>2. look[t].file \in File /\ Parses(t, look[t].file)
  BY DEF IInv, Shapes, LookOK, Placed, Parses, Holding
<1>3. FlightOK'
  BY <1>2 DEF IInv, FlightOK, Parses, Alone, Holding, LookupAssumption
<1>4. IndexOK'
  BY DEF IInv, IndexOK, texts, indexes
<1> QED
  BY <1>1, <1>3, <1>4 DEF IInv

LEMMA ParseType ==
  ASSUME LookupAssumption, IInv, NEW t \in Thread, Parsing(t) \/ Panic(t)
  PROVE  IInv'
<1> USE DEF LookPc, Placed, Holding, HasText
<1>0. /\ look \in [Thread -> LookType] /\ LookOK(look[t]) /\ look[t] \in LookType
      /\ gaveUp \in Nat /\ panics \in Nat /\ IndexOK /\ Text \subseteq SUBSET Class
      /\ uriClasses \in [File -> Text \cup {NoText}]
  BY DEF IInv, Shapes, IndexOK, LookupAssumption
<1>1. CASE Read(t)
  <2> DEFINE l == [look[t] EXCEPT !.pc = "old", !.text = disk[look[t].file]]
  <2>1. look' = [look EXCEPT ![t] = l] /\ look[t].file \in File /\ look[t].pc = "read"
    BY <1>0, <1>1 DEF Read, LookOK
  <2>2. disk[look[t].file] \in Text
    BY <1>0, <2>1 DEF IndexOK
  <2>3. /\ l \in LookType /\ l.pc = "old" /\ l.class = look[t].class
        /\ l.file = look[t].file /\ l.text \in Text
    BY <1>0, <2>2 DEF LookType
  <2> HIDE DEF l
  <2>4. Alone(t) /\ look'[t] = l
    BY <1>0, <2>1, <2>3 DEF Alone
  <2>5. LookOK(look'[t])
    BY <1>0, <2>1, <2>3, <2>4 DEF LookOK
  <2>6. IndexOK'
    BY <1>0, <1>1 DEF Read, IndexOK, texts, indexes
  <2> QED
    BY <1>1, <2>1, <2>3, <2>4, <2>5, <2>6, HoldStep DEF Read
<1>2. CASE Recall(t)
  <2> DEFINE l == [look[t] EXCEPT !.pc = "insert", !.old = Previous(look[t].file)]
  <2>1. look' = [look EXCEPT ![t] = l] /\ look[t].file \in File /\ look[t].pc = "old"
    BY <1>0, <1>2 DEF Recall, LookOK
  <2>2. Previous(look[t].file) \in SUBSET Class
    BY <1>0, <2>1 DEF Previous
  <2>3. /\ l \in LookType /\ l.pc = "insert" /\ l.class = look[t].class
        /\ l.file = look[t].file /\ l.text = look[t].text
    BY <1>0, <2>2 DEF LookType
  <2> HIDE DEF l
  <2>4. Alone(t) /\ look'[t] = l
    BY <1>0, <2>1, <2>3 DEF Alone
  <2>5. LookOK(look'[t])
    BY <1>0, <2>1, <2>3, <2>4 DEF LookOK
  <2>6. IndexOK'
    BY <1>0, <1>2 DEF Recall, IndexOK, texts, indexes
  <2> QED
    BY <1>2, <2>1, <2>3, <2>4, <2>5, <2>6, HoldStep DEF Recall
<1>3. CASE Insert(t)
  <2>1. /\ Alone(t) /\ look'[t].pc = "declare" /\ look'[t].file = look[t].file
        /\ LookOK(look'[t]) /\ look[t].pc = "insert" /\ look[t].text \in Text
    BY <1>0, <1>3, GotoFields DEF Insert, LookOK
  <2>2. IndexOK'
    BY <1>0, <1>3, <2>1 DEF Insert, IndexOK, texts
  <2> QED
    BY <1>3, <2>1, <2>2, HoldStep DEF Insert
<1>4. CASE Declare(t)
  <2>1. /\ Alone(t) /\ look'[t].pc = "uncache" /\ look'[t].file = look[t].file
        /\ LookOK(look'[t]) /\ look[t].pc = "declare" /\ look[t].file \in File
    BY <1>0, <1>4, GotoFields DEF Declare, LookOK
  <2>2. declared' \in [Class -> SUBSET File] /\ owner' \in [Class -> File \cup {0}]
    BY <1>0, <1>4, <2>1, RedeclareType DEF Declare
  <2>3. IndexOK'
    BY <1>0, <1>4, <2>2 DEF Declare, IndexOK, texts
  <2> QED
    BY <1>4, <2>1, <2>3, HoldStep DEF Declare
<1>5. CASE Uncache(t)
  <2>1. /\ Alone(t) /\ look'[t].pc = "bump" /\ look'[t].file = look[t].file
        /\ LookOK(look'[t]) /\ look[t].pc = "uncache"
    BY <1>0, <1>5, GotoFields DEF Uncache, LookOK
  <2>2. IndexOK'
    BY <1>0, <1>5 DEF Uncache, IndexOK, texts, indexes
  <2> QED
    BY <1>5, <2>1, <2>2, HoldStep DEF Uncache
<1>6. CASE Bump(t)
  <2>1. /\ Alone(t) /\ look'[t].pc = "release" /\ look'[t].file = look[t].file
        /\ LookOK(look'[t]) /\ look[t].pc = "bump"
    BY <1>0, <1>6, GotoFields DEF Bump, LookOK
  <2>2. IndexOK'
    BY <1>0, <1>6 DEF Bump, IndexOK, texts, indexes
  <2> QED
    BY <1>6, <2>1, <2>2, HoldStep DEF Bump
<1>7. CASE Release(t)
  <2>1. look[t].pc = "release" /\ flight' = [flight EXCEPT ![look[t].file] = NoThread]
        /\ UNCHANGED <<texts, indexes, misses, generation, publication, counters>>
    BY <1>7 DEF Release
  <2>2. Alone(t) /\ LookOK(look'[t]) /\ look'[t].pc \notin Holding
    <3>1. CASE look[t].class \in look[t].text
      BY <1>0, <1>7, <3>1, AnswerFields DEF Release, Answer, LookOK
    <3>2. CASE look[t].class \notin look[t].text
      <4>1. After(look[t].phase) \in {"psr4", "miss"} /\ Goto(t, After(look[t].phase))
        BY <1>7, <3>2 DEF After, Release
      <4> QED
        BY <1>0, <2>1, <4>1, GotoFields DEF LookOK
    <3> QED
      BY <3>1, <3>2
  <2> QED
    BY <1>0, <2>1, <2>2, LandStep DEF counters
<1>8. CASE Panic(t)
  <2>1. Alone(t) /\ look'[t].pc = "idle" /\ look[t].pc = "old"
    BY <1>0, <1>8, IdleFields DEF Panic
  <2>2. LookOK(look'[t])
    BY <2>1 DEF LookOK
  <2>3. /\ flight' = [flight EXCEPT ![look[t].file] = NoThread]
        /\ UNCHANGED <<texts, indexes, misses, generation, publication>>
        /\ gaveUp' \in Nat /\ panics' \in Nat
    BY <1>0, <1>8 DEF Panic
  <2> QED
    BY <2>1, <2>2, <2>3, LandStep
<1> QED
  BY <1>1, <1>2, <1>3, <1>4, <1>5, <1>6, <1>7, <1>8 DEF Parsing

\* A step of the editor, the watcher, a scan or a publication.
LEMMA ElsewhereStep ==
  ASSUME IInv, UNCHANGED <<look, flight, gaveUp, panics>>, PublicationOK', IndexOK'
  PROVE  IInv'
  BY DEF IInv, Shapes, FlightOK, Parses

LEMMA ChangeType ==
  ASSUME LookupAssumption, NEW f \in File \cup {0}, NEW text \in SUBSET Class,
         NEW pc \in OfAFile \cup {"uncache"}, pc \in OfAFile => f \in File,
         f # 0 => text \in Text, Change(f, text, pc)
  PROVE  /\ PublicationOK'
         /\ UNCHANGED <<uriClasses, declared, misses, generation, look, flight, gaveUp, panics>>
<1> DEFINE p == [Quiet EXCEPT !.pc = pc, !.file = f, !.text = text]
<1>1. publication' = p
  BY DEF Change
<1>2. p \in PubType /\ p.pc = pc /\ p.file = f /\ p.text = text
  BY DEF Quiet, PubType
<1> HIDE DEF p
<1>3. PublicationOK'
  BY <1>1, <1>2 DEF PublicationOK
<1> QED
  BY <1>3 DEF Change

LEMMA EditorType ==
  ASSUME LookupAssumption, IInv, NEW f \in File,
         \/ Open(f) \/ Close(f) \/ Save(f)
         \/ (\E x \in Text : Edit(f, x) \/ Watch(f, x))
         \/ (\E c \in Class : Discover(c, f))
  PROVE  IInv'
<1> USE DEF OfAFile
<1>0. /\ IndexOK /\ Text \subseteq SUBSET Class /\ disk[f] \in Text
      /\ disk \in [File -> Text] /\ buffer \in [File -> Text \cup {NoText}]
      /\ owner \in [Class -> File \cup {0}]
  BY DEF IInv, IndexOK, LookupAssumption
<1>1. CASE Open(f)
  <2>1. Change(f, disk[f], "old")
    BY <1>1 DEF Open
  <2>2. /\ PublicationOK'
        /\ UNCHANGED <<uriClasses, declared, misses, generation, look, flight, gaveUp, panics>>
    BY <1>0, <2>1, ChangeType
  <2>3. IndexOK'
    BY <1>0, <1>1, <2>2 DEF Open, IndexOK
  <2> QED
    BY <2>2, <2>3, ElsewhereStep
<1>2. CASE Close(f)
  <2>1. Change(f, disk[f], "old")
    BY <1>2 DEF Close
  <2>2. /\ PublicationOK'
        /\ UNCHANGED <<uriClasses, declared, misses, generation, look, flight, gaveUp, panics>>
    BY <1>0, <2>1, ChangeType
  <2>3. IndexOK'
    BY <1>0, <1>2, <2>2 DEF Close, IndexOK
  <2> QED
    BY <2>2, <2>3, ElsewhereStep
<1>3. CASE Save(f)
  <2>1. buffer[f] \in Text
    BY <1>0, <1>3 DEF Save
  <2>2. IndexOK'
    BY <1>0, <1>3, <2>1 DEF Save, IndexOK, indexes
  <2>3. PublicationOK' /\ UNCHANGED <<look, flight, gaveUp, panics>>
    BY <1>3 DEF Save, IInv, Shapes, PublicationOK, counters
  <2> QED
    BY <2>2, <2>3, ElsewhereStep
<1>4. ASSUME NEW x \in Text, Edit(f, x) PROVE IInv'
  <2>1. Change(f, x, "old")
    BY <1>4 DEF Edit
  <2>2. /\ PublicationOK'
        /\ UNCHANGED <<uriClasses, declared, misses, generation, look, flight, gaveUp, panics>>
    BY <1>0, <2>1, ChangeType
  <2>3. IndexOK'
    BY <1>0, <1>4, <2>2 DEF Edit, IndexOK
  <2> QED
    BY <2>2, <2>3, ElsewhereStep
<1>5. ASSUME NEW x \in Text, Watch(f, x) PROVE IInv'
  <2>1. Change(f, x, "withdraw")
    BY <1>5 DEF Watch
  <2>2. /\ PublicationOK'
        /\ UNCHANGED <<uriClasses, declared, misses, generation, look, flight, gaveUp, panics>>
    BY <1>0, <2>1, ChangeType
  <2>3. IndexOK'
    BY <1>0, <1>5, <2>2 DEF Watch, IndexOK
  <2> QED
    BY <2>2, <2>3, ElsewhereStep
<1>6. ASSUME NEW c \in Class, Discover(c, f) PROVE IInv'
  <2>1. Change(0, Class, "uncache")
    BY <1>6 DEF Discover
  <2>2. /\ PublicationOK'
        /\ UNCHANGED <<uriClasses, declared, misses, generation, look, flight, gaveUp, panics>>
    BY <1>0, <2>1, ChangeType
  <2>3. IndexOK'
    BY <1>0, <1>6, <2>2 DEF Discover, IndexOK, texts
  <2> QED
    BY <2>2, <2>3, ElsewhereStep
<1> QED
  BY <1>1, <1>2, <1>3, <1>4, <1>5, <1>6

\* A publication that goes on with its next step.
LEMMA PubGoto ==
  ASSUME PublicationOK, NEW pc \in OfAFile \cup {"uncache", "bump"},
         publication.pc \in OfAFile \/ pc \notin OfAFile, publication.pc # "idle",
         publication' = [publication EXCEPT !.pc = pc]
  PROVE  PublicationOK'
<1> DEFINE p == [publication EXCEPT !.pc = pc]
<1>1. p \in PubType /\ p.pc = pc /\ p.file = publication.file /\ p.text = publication.text
  BY DEF PublicationOK, PubType
<1> HIDE DEF p
<1>2. publication' = p
  BY DEF p
<1> QED
  BY <1>1, <1>2 DEF PublicationOK

\* The end of one: nothing, or the misses are cleared.
LEMMA PubOver ==
  ASSUME publication' \in {Quiet, Cleared}
  PROVE  PublicationOK'
<1>1. Quiet \in PubType /\ Quiet.pc = "idle"
  BY DEF Quiet, PubType
<1> DEFINE p == [Quiet EXCEPT !.pc = "uncache", !.text = Class]
<1>2. p \in PubType /\ p.pc = "uncache" /\ p.file = 0
  BY DEF Quiet, PubType
<1>3. Cleared \in {p, Quiet}
  BY DEF Cleared
<1> HIDE DEF p
<1> QED
  BY <1>1, <1>2, <1>3 DEF PublicationOK, OfAFile

LEMMA PublishType == ASSUME LookupAssumption, IInv, Publishing PROVE IInv'
<1> USE DEF OfAFile
<1>0. /\ PublicationOK /\ IndexOK /\ publication \in PubType /\ Text \subseteq SUBSET Class
      /\ publication.pc \in OfAFile => publication.file \in File /\ publication.text \in Text
      /\ uriClasses \in [File -> Text \cup {NoText}]
  BY DEF IInv, Shapes, PublicationOK, IndexOK, LookupAssumption
<1>1. CASE PubWithdraw
  <2> DEFINE b == publication.text # {} \/ \E c \in Class : owner[c] = publication.file
             p == [publication EXCEPT !.pc = "retire", !.clears = b]
  <2>1. publication' = p /\ publication.pc = "withdraw"
    BY <1>1 DEF PubWithdraw
  <2>2. b \in BOOLEAN
    OBVIOUS
  <2> HIDE DEF b
  <2>3. p \in PubType /\ p.pc = "retire" /\ p.file = publication.file /\ p.text = publication.text
    BY <1>0, <2>2 DEF PubType
  <2> HIDE DEF p
  <2>4. PublicationOK'
    BY <1>0, <2>1, <2>3 DEF PublicationOK
  <2>5. declared' \in [Class -> SUBSET File] /\ owner' \in [Class -> File \cup {0}]
    BY <1>0, <1>1, <2>1, RedeclareType DEF PubWithdraw
  <2>6. IndexOK'
    BY <1>0, <1>1, <2>5 DEF PubWithdraw, IndexOK, texts
  <2> QED
    BY <1>1, <2>4, <2>6, ElsewhereStep DEF PubWithdraw, counters
<1>2. CASE PubRetire
  <2>1. PublicationOK'
    BY <1>0, <1>2, PubGoto DEF PubRetire
  <2>2. IndexOK'
    BY <1>0, <1>2 DEF PubRetire, IndexOK, texts, indexes
  <2> QED
    BY <1>2, <2>1, <2>2, ElsewhereStep DEF PubRetire, counters
<1>3. CASE PubForget
  <2>1. PublicationOK'
    BY <1>0, <1>3, PubGoto DEF PubForget
  <2>2. IndexOK'
    BY <1>0, <1>3 DEF PubForget, IndexOK, texts
  <2> QED
    BY <1>3, <2>1, <2>2, ElsewhereStep DEF PubForget
<1>4. CASE PubScan
  <2>1. PublicationOK'
    BY <1>0, <1>4, PubGoto, PubOver DEF PubScan
  <2>2. publication.file \in File /\ owner \in [Class -> File \cup {0}]
    BY <1>0, <1>4 DEF PubScan, IndexOK
  <2>3. IndexOK'
    BY <1>0, <1>4, <2>2 DEF PubScan, IndexOK, texts
  <2> QED
    BY <1>4, <2>1, <2>3, ElsewhereStep DEF PubScan, counters
<1>5. CASE PubRecall
  <2> DEFINE p == [publication EXCEPT !.pc = "declare", !.old = Previous(publication.file)]
  <2>1. publication' = p /\ publication.pc = "old"
    BY <1>5 DEF PubRecall
  <2>2. Previous(publication.file) \in SUBSET Class
    BY <1>0, <2>1 DEF Previous
  <2>3. p \in PubType /\ p.pc = "declare" /\ p.file = publication.file /\ p.text = publication.text
    BY <1>0, <2>2 DEF PubType
  <2> HIDE DEF p
  <2>4. PublicationOK'
    BY <1>0, <2>1, <2>3 DEF PublicationOK
  <2>5. IndexOK'
    BY <1>0, <1>5 DEF PubRecall, IndexOK, texts, indexes
  <2> QED
    BY <1>5, <2>4, <2>5, ElsewhereStep DEF PubRecall, counters
<1>6. CASE PubDeclare
  <2>1. PublicationOK'
    BY <1>0, <1>6, PubGoto DEF PubDeclare
  <2>2. declared' \in [Class -> SUBSET File] /\ owner' \in [Class -> File \cup {0}]
    BY <1>0, <1>6, RedeclareType DEF PubDeclare
  <2>3. IndexOK'
    BY <1>0, <1>6, <2>2 DEF PubDeclare, IndexOK, texts
  <2> QED
    BY <1>6, <2>1, <2>3, ElsewhereStep DEF PubDeclare, counters
<1>7. CASE PubUncache
  <2>1. PublicationOK'
    BY <1>0, <1>7, PubGoto DEF PubUncache
  <2>2. IndexOK'
    BY <1>0, <1>7 DEF PubUncache, IndexOK, texts, indexes
  <2> QED
    BY <1>7, <2>1, <2>2, ElsewhereStep DEF PubUncache, counters
<1>8. CASE PubBump
  <2>1. PublicationOK'
    <3>1. CASE publication.file = 0
      BY <1>8, <3>1, PubOver DEF PubBump
    <3>2. CASE publication.file # 0
      <4> DEFINE p == [publication EXCEPT !.pc = "insert"]
      <4>1. publication' = p /\ publication.pc = "bump"
        BY <1>8, <3>2 DEF PubBump
      <4>2. p \in PubType /\ p.pc = "insert" /\ p.file = publication.file /\ p.text = publication.text
        BY <1>0 DEF PubType
      <4>3. publication.file \in File /\ publication.text \in Text
        BY <1>0, <3>2, <4>1 DEF PublicationOK, PubType
      <4> HIDE DEF p
      <4> QED
        BY <4>1, <4>2, <4>3 DEF PublicationOK
    <3> QED
      BY <3>1, <3>2
  <2>2. IndexOK'
    BY <1>0, <1>8 DEF PubBump, IndexOK, texts, indexes
  <2> QED
    BY <1>8, <2>1, <2>2, ElsewhereStep DEF PubBump, counters
<1>9. CASE PubInsert
  <2>1. PublicationOK'
    BY <1>9, PubOver DEF PubInsert
  <2>2. IndexOK'
    BY <1>0, <1>9 DEF PubInsert, IndexOK, texts
  <2> QED
    BY <1>9, <2>1, <2>2, ElsewhereStep DEF PubInsert, counters
<1> QED
  BY <1>1, <1>2, <1>3, <1>4, <1>5, <1>6, <1>7, <1>8, <1>9 DEF Publishing

LEMMA TypeStep == ASSUME LookupAssumption, IInv, [Next]_vars PROVE IInv'
<1>1. CASE UNCHANGED vars
  BY <1>1 DEF vars, texts, indexes, counters, IInv, Shapes, FlightOK, IndexOK, Parses, PublicationOK
<1>2. ASSUME NEW t \in Thread, NEW c \in Class, Begin(t, c) PROVE IInv'
  BY <1>2, BeginType
<1>3. ASSUME NEW t \in Thread, Searching(t) \/ Parsing(t) \/ GiveUp(t) \/ Panic(t) PROVE IInv'
  BY <1>3, SearchType, ClaimType, ParseType DEF Searching
<1>4. CASE Publishing
  BY <1>4, PublishType
<1> QED
  BY <1>1, <1>2, <1>3, <1>4, EditorType DEF Next

\* Every variable of the class lookup keeps its type, and a file is claimed by
\* the thread that is between its claim and its release, and by no other.
THEOREM TypeCorrect == Spec => []TypeOK
<1> USE LookupAssumption
<1>1. Init => IInv
  BY InitType
<1>2. IInv /\ [Next]_vars => IInv'
  BY TypeStep
<1> QED
  BY <1>1, <1>2, TypesAreIInv, PTL DEF Spec

----------------------------------------------------------------------------
(* Misses.                                                                 *)

Calm == gaveUp = 0 /\ panics = 0 /\ ~crossed

\* The parse a thread concludes from is in uri_classes_index, and a thread
\* about to record a miss has not looked for a stable class.
Sure(t) ==
    /\ look[t].pc \in Published => uriClasses[look[t].file] \in Text
    /\ look[t].pc = "wait" /\ flight[look[t].file] = NoThread =>
          uriClasses[look[t].file] \in Text
    /\ look[t].pc = "miss" => look[t].class \notin Stable
PoisonInv == Calm => misses \cap Stable = {} /\ \A t \in Thread : Sure(t)

\* What keeps the other threads sure: classes stay published, and a claim is
\* released over published classes only.
Steady ==
    /\ \A f \in File : uriClasses[f] \in Text => uriClasses'[f] \in Text
    /\ \A f \in File : flight'[f] = NoThread => flight[f] = NoThread \/ uriClasses'[f] \in Text
LEMMA StillSure ==
  ASSUME IInv, NEW s \in Thread, Sure(s), look'[s] = look[s], Steady
  PROVE  Sure(s)'
<1>1. look[s].pc \in Published \cup {"wait"} => look[s].file \in File
  BY DEF IInv, Shapes, LookOK, Placed, Holding, Published
<1> QED
  BY <1>1 DEF Sure, Steady

LEMMA PoisonStep ==
  ASSUME IInv, PoisonInv, NEW t \in Thread, Alone(t), Steady, Calm => Sure(t)', Calm' => Calm,
         misses' \cap Stable \subseteq misses
  PROVE  PoisonInv'
<1> SUFFICES ASSUME Calm' PROVE (misses \cap Stable = {})' /\ \A s \in Thread : Sure(s)'
  BY DEF PoisonInv
<1>1. misses \cap Stable = {} /\ \A s \in Thread : Sure(s)
  BY DEF PoisonInv
<1>2. ASSUME NEW s \in Thread PROVE Sure(s)'
  BY <1>1, StillSure DEF Alone
<1>3. misses' \cap Stable = {}
  BY <1>1
<1> QED
  BY <1>2, <1>3 DEF Stable

\* A step that is not a thread's.
LEMMA PoisonElsewhere ==
  ASSUME IInv, PoisonInv, look' = look, Calm' => Calm, Calm' => Steady,
         misses' \subseteq misses
  PROVE  PoisonInv'
<1> SUFFICES ASSUME Calm' PROVE (misses \cap Stable = {})' /\ \A s \in Thread : Sure(s)'
  BY DEF PoisonInv
<1>1. misses \cap Stable = {} /\ \A s \in Thread : Sure(s)
  BY DEF PoisonInv
<1>2. ASSUME NEW s \in Thread PROVE Sure(s)'
  BY <1>1, StillSure
<1> QED
  BY <1>1, <1>2 DEF Stable

LEMMA SearchPoison ==
  ASSUME LookupAssumption, IInv, PoisonInv, NEW t \in Thread,
         (\E c \in Class : Begin(t, c)) \/ Negative(t) \/ Declared(t) \/ Indexed(t)
           \/ ByName(t) \/ Miss(t)
  PROVE  PoisonInv'
<1> USE DEF LookPc, Placed, Holding, Published
<1>0. /\ look \in [Thread -> LookType] /\ LookOK(look[t]) /\ look[t] \in LookType
      /\ owner \in [Class -> File \cup {0}] /\ Psr4 \in [Class -> File \cup {0}]
  BY DEF IInv, Shapes, IndexOK, LookupAssumption
<1>a. ASSUME look'[t].pc \notin Published \cup {"wait", "miss"} PROVE Sure(t)'
  BY <1>a DEF Sure
<1>b. ASSUME uriClasses' = uriClasses, flight' = flight PROVE Steady
  BY <1>b DEF Steady
<1>1. ASSUME NEW c \in Class, Begin(t, c) PROVE PoisonInv'
  <2>1. Alone(t) /\ look'[t].pc = "negative"
    BY <1>1, BeginType
  <2> QED
    BY <1>1, <1>a, <1>b, <2>1, PoisonStep DEF Begin, Calm, indexes
<1>2. CASE Negative(t)
  <2>1. Alone(t) /\ look'[t].pc \in {"idle", "declared"}
    BY <1>0, <1>2, AnswerFields, GotoFields DEF Negative, Answer
  <2> QED
    BY <1>2, <1>a, <1>b, <2>1, PoisonStep DEF Negative, Calm, indexes, counters
<1>3. CASE Declared(t)
  <2>1. Alone(t) /\ look'[t].pc \in {"idle", "indexed"}
    BY <1>0, <1>3, AnswerFields, GotoFields DEF Declared, Answer
  <2> QED
    BY <1>3, <1>a, <1>b, <2>1, PoisonStep DEF Declared, Calm, indexes, counters
<1>4. CASE Indexed(t)
  <2>1. Alone(t) /\ look'[t].pc \in {"claim", "psr4"}
    <3>1. look[t].class \in Class /\ owner[look[t].class] \in File \cup {0}
      BY <1>0, <1>4 DEF LookOK, Indexed
    <3> QED
      BY <1>0, <1>4, <3>1, ParseFields, GotoFields DEF Indexed
  <2> QED
    BY <1>4, <1>a, <1>b, <2>1, PoisonStep DEF Indexed, Calm, indexes, counters
<1>5. CASE ByName(t)
  <2>0. look[t].class \in Class /\ Psr4[look[t].class] \in File \cup {0}
    BY <1>0, <1>5 DEF LookOK, ByName
  <2>1. Alone(t) /\ Sure(t)'
    <3>1. CASE Psr4[look[t].class] # 0
      <4>1. Alone(t) /\ look'[t].pc = "claim"
        BY <1>0, <1>5, <2>0, <3>1, ParseFields DEF ByName
      <4> QED
        BY <4>1, <1>a
    <3>2. CASE Psr4[look[t].class] = 0
      <4>1. Alone(t) /\ look'[t].pc = "miss" /\ look'[t].class = look[t].class
        BY <1>0, <1>5, <3>2, GotoFields DEF ByName
      <4> QED
        BY <4>1, <3>2 DEF Sure, Stable
    <3> QED
      BY <3>1, <3>2
  <2> QED
    BY <1>5, <1>b, <2>1, PoisonStep DEF ByName, Calm, indexes, counters
<1>6. CASE Miss(t)
  <2>1. Alone(t) /\ look'[t].pc = "idle"
    BY <1>0, <1>6, AnswerFields DEF Miss, Answer
  <2>2. Calm => look[t].class \notin Stable
    BY <1>6 DEF PoisonInv, Sure, Miss
  <2>3. CASE Calm
    BY <1>6, <1>a, <1>b, <2>1, <2>2, <2>3, PoisonStep DEF Miss, Calm, indexes, counters
  <2>4. CASE ~Calm
    BY <1>6, <2>4 DEF PoisonInv, Miss, Calm, counters
  <2> QED
    BY <2>3, <2>4
<1> QED
  BY <1>1, <1>2, <1>3, <1>4, <1>5, <1>6

\* A parse reads the text and recalls the classes of the one before.
LEMMA ReadFields ==
  ASSUME LookupAssumption, IInv, NEW t \in Thread, Read(t) \/ Recall(t)
  PROVE  /\ Alone(t) /\ look'[t].pc \in {"old", "insert"}
         /\ look'[t].file = look[t].file /\ look'[t].generation = look[t].generation
<1>0. /\ look \in [Thread -> LookType] /\ look[t] \in LookType /\ look[t].file \in File
      /\ disk[look[t].file] \in SUBSET Class
  BY DEF IInv, Shapes, IndexOK, LookOK, Placed, Holding, Read, Recall, LookupAssumption
<1> USE DEF LookPc, Placed, Holding
<1>1. CASE Read(t)
  <2> DEFINE l == [look[t] EXCEPT !.pc = "old", !.text = disk[look[t].file]]
  <2>1. look' = [look EXCEPT ![t] = l]
    BY <1>1 DEF Read
  <2>2. l \in LookType /\ l.pc = "old" /\ l.file = look[t].file /\ l.generation = look[t].generation
    BY <1>0 DEF LookType
  <2> HIDE DEF l
  <2> QED
    BY <1>0, <2>1, <2>2 DEF Alone
<1>2. CASE Recall(t)
  <2> DEFINE l == [look[t] EXCEPT !.pc = "insert", !.old = Previous(look[t].file)]
  <2>1. look' = [look EXCEPT ![t] = l]
    BY <1>2 DEF Recall
  <2>2. Previous(look[t].file) \in SUBSET Class
    BY <1>0 DEF Previous, IInv, IndexOK, LookupAssumption
  <2>3. l \in LookType /\ l.pc = "insert" /\ l.file = look[t].file /\ l.generation = look[t].generation
    BY <1>0, <2>2 DEF LookType
  <2> HIDE DEF l
  <2> QED
    BY <1>0, <2>1, <2>3 DEF Alone
<1> QED
  BY <1>1, <1>2

LEMMA ParsePoison ==
  ASSUME LookupAssumption, IInv, PoisonInv, NEW t \in Thread,
         Claim(t) \/ Released(t) \/ GiveUp(t) \/ Joined(t) \/ Parsing(t) \/ Panic(t)
  PROVE  PoisonInv'
<1> USE DEF LookPc, Placed, Holding, Published
<1>0. /\ look \in [Thread -> LookType] /\ LookOK(look[t]) /\ look[t] \in LookType
      /\ gaveUp \in Nat /\ panics \in Nat /\ flight \in [File -> Thread \cup {NoThread}]
      /\ uriClasses \in [File -> Text \cup {NoText}]
  BY DEF IInv, Shapes, IndexOK, FlightOK
<1>a. ASSUME look'[t].pc \notin Published \cup {"wait", "miss"} PROVE Sure(t)'
  BY <1>a DEF Sure
<1>b. ASSUME uriClasses' = uriClasses, flight' = flight PROVE Steady
  BY <1>b DEF Steady
<1>c. Calm => Sure(t)
  BY DEF PoisonInv
<1>d. look[t].pc \in Placed => look[t].file \in File
  BY <1>0 DEF LookOK
<1>1. CASE Claim(t)
  <2>1. CASE flight[look[t].file] = NoThread
    <3>1. Alone(t) /\ look'[t].pc = "read" /\ flight' = [flight EXCEPT ![look[t].file] = t]
      BY <1>0, <1>1, <2>1, GotoFields DEF Claim
    <3>2. Steady
      BY <1>0, <1>1, <3>1 DEF Steady, Claim, indexes, LookupAssumption
    <3> QED
      BY <1>1, <1>a, <3>1, <3>2, PoisonStep DEF Claim, Calm, counters
  <2>2. CASE flight[look[t].file] # NoThread
    <3>1. /\ Alone(t) /\ look'[t].pc = "wait" /\ look'[t].file = look[t].file
          /\ flight' = flight
      BY <1>0, <1>1, <2>2, GotoFields DEF Claim
    <3>2. Sure(t)'
      BY <2>2, <3>1 DEF Sure
    <3> QED
      BY <1>1, <1>b, <3>1, <3>2, PoisonStep DEF Claim, Calm, indexes, counters
  <2> QED
    BY <2>1, <2>2
<1>2. CASE Released(t)
  <2>1. /\ Alone(t) /\ look'[t].pc = "joined" /\ look'[t].file = look[t].file
        /\ look[t].pc = "wait" /\ flight[look[t].file] = NoThread /\ uriClasses' = uriClasses
    BY <1>0, <1>2, GotoFields DEF Released, indexes
  <2>2. Calm => Sure(t)'
    BY <1>c, <2>1 DEF Sure
  <2> QED
    BY <1>2, <1>b, <2>1, <2>2, PoisonStep DEF Released, Calm, counters
<1>3. CASE GiveUp(t)
  <2>1. gaveUp' # 0
    BY <1>0, <1>3 DEF GiveUp
  <2> QED
    BY <2>1 DEF PoisonInv, Calm
<1>4. CASE Joined(t)
  <2>1. CASE look[t].class \in uriClasses[look[t].file]
    <3>1. Alone(t) /\ look'[t].pc = "idle"
      BY <1>0, <1>4, <2>1, AnswerFields DEF Joined
    <3> QED
      BY <1>4, <1>a, <1>b, <3>1, PoisonStep DEF Joined, Calm, indexes, counters
  <2>2. CASE look[t].class \notin uriClasses[look[t].file]
    <3>1. After(look[t].phase) \in {"psr4", "miss"}
      BY DEF After
    <3>2. /\ Alone(t) /\ look'[t].pc \in {"psr4", "miss"} /\ look'[t].class = look[t].class
          /\ look[t].pc = "joined"
      BY <1>0, <1>4, <2>2, <3>1, GotoFields DEF Joined
    <3>3. Calm => look[t].class \notin Stable
      BY <1>c, <2>2, <3>2 DEF Sure, Stable
    <3>4. Calm => Sure(t)'
      BY <3>2, <3>3 DEF Sure, Stable
    <3> QED
      BY <1>4, <1>b, <3>2, <3>4, PoisonStep DEF Joined, Calm, indexes, counters
  <2> QED
    BY <2>1, <2>2
<1>5. CASE Read(t)
  <2>1. Alone(t) /\ look'[t].pc \in {"old", "insert"}
    BY <1>5, ReadFields
  <2> QED
    BY <1>5, <1>a, <1>b, <2>1, PoisonStep DEF Read, Calm, indexes, counters
<1>6. CASE Panic(t)
  <2>1. panics' # 0
    BY <1>0, <1>6 DEF Panic
  <2> QED
    BY <2>1 DEF PoisonInv, Calm
<1>7. CASE Recall(t)
  <2>1. Alone(t) /\ look'[t].pc \in {"old", "insert"}
    BY <1>7, ReadFields
  <2> QED
    BY <1>7, <1>a, <1>b, <2>1, PoisonStep DEF Recall, Calm, indexes, counters
<1>8. CASE Insert(t)
  <2>1. /\ Alone(t) /\ look'[t].pc = "declare" /\ look'[t].file = look[t].file
        /\ look[t].pc = "insert" /\ look[t].text \in Text /\ look[t].file \in File
        /\ uriClasses' = [uriClasses EXCEPT ![look[t].file] = look[t].text]
    BY <1>0, <1>8, <1>d, GotoFields DEF Insert, LookOK, HasText
  <2>2. Sure(t)' /\ Steady
    BY <1>0, <1>8, <2>1 DEF Sure, Steady, Insert
  <2> QED
    BY <1>8, <2>1, <2>2, PoisonStep DEF Insert, Calm, counters
<1>9. CASE Declare(t) \/ Uncache(t) \/ Bump(t)
  <2>1. /\ Alone(t) /\ look'[t].pc \in {"uncache", "bump", "release"}
        /\ look'[t].file = look[t].file /\ look[t].pc \in {"declare", "uncache", "bump"}
        /\ uriClasses' = uriClasses /\ flight' = flight /\ misses' \subseteq misses
        /\ UNCHANGED counters
    BY <1>0, <1>9, GotoFields DEF Declare, Uncache, Bump, indexes
  <2>2. Calm => Sure(t)'
    BY <1>c, <2>1 DEF Sure
  <2> QED
    BY <1>b, <2>1, <2>2, PoisonStep DEF Calm, counters
<1>10. CASE Release(t)
  <2>1. /\ look[t].pc = "release" /\ flight' = [flight EXCEPT ![look[t].file] = NoThread]
        /\ uriClasses' = uriClasses /\ misses' = misses /\ UNCHANGED counters
        /\ look[t].text \in Text
    BY <1>0, <1>10 DEF Release, indexes, LookOK, HasText
  <2>2. Calm => Steady
    BY <1>0, <1>c, <2>1 DEF Steady, Sure
  <2>3. Alone(t) /\ (Calm => Sure(t)')
    <3>1. CASE look[t].class \in look[t].text
      BY <1>0, <1>10, <1>a, <3>1, AnswerFields DEF Release, Answer
    <3>2. CASE look[t].class \notin look[t].text
      <4>1. After(look[t].phase) \in {"psr4", "miss"}
        BY DEF After
      <4>2. /\ Alone(t) /\ look'[t].pc \in {"psr4", "miss"} /\ look'[t].class = look[t].class
        BY <1>0, <1>10, <3>2, <4>1, GotoFields DEF Release
      <4> QED
        BY <2>1, <3>2, <4>2 DEF Sure, Stable
    <3> QED
      BY <3>1, <3>2
  <2>4. CASE Calm
    BY <2>1, <2>2, <2>3, <2>4, PoisonStep
  <2>5. CASE ~Calm
    BY <2>1, <2>5 DEF PoisonInv, Calm, counters
  <2> QED
    BY <2>4, <2>5
<1> QED
  BY <1>1, <1>2, <1>3, <1>4, <1>5, <1>6, <1>7, <1>8, <1>9, <1>10 DEF Parsing

LEMMA PublishPoison ==
  ASSUME LookupAssumption, IInv, PoisonInv,
         \/ Publishing
         \/ \E f \in File : \/ Open(f) \/ Close(f) \/ Save(f)
                            \/ (\E x \in Text : Edit(f, x) \/ Watch(f, x))
                            \/ (\E c \in Class : Discover(c, f))
  PROVE  PoisonInv'
<1>0. uriClasses \in [File -> Text \cup {NoText}]
  BY DEF IInv, IndexOK
<1>1. ASSUME look' = look, flight' = flight, uriClasses' = uriClasses, misses' \subseteq misses,
             Calm' = Calm
      PROVE  PoisonInv'
  BY <1>1, PoisonElsewhere DEF Steady
<1>2. CASE \/ PubWithdraw \/ PubRetire \/ PubScan \/ PubRecall \/ PubDeclare \/ PubUncache
           \/ PubBump
  <2>1. look' = look /\ flight' = flight /\ uriClasses' = uriClasses /\ misses' \subseteq misses
    BY <1>2 DEF PubWithdraw, PubRetire, PubScan, PubRecall, PubDeclare, PubUncache, PubBump, indexes
  <2>2. Calm' = Calm
    BY <1>2 DEF PubWithdraw, PubRetire, PubScan, PubRecall, PubDeclare, PubUncache, PubBump,
       Calm, counters
  <2> QED
    BY <1>1, <2>1, <2>2
<1>3. CASE PubForget
  <2> SUFFICES ASSUME Calm' PROVE (misses \cap Stable = {})' /\ \A s \in Thread : Sure(s)'
    BY DEF PoisonInv
  <2>1. /\ Calm /\ \A s \in Thread : look[s].file # publication.file
        /\ look' = look /\ flight' = flight /\ misses' = misses
        /\ uriClasses' = [uriClasses EXCEPT ![publication.file] = NoText]
    BY <1>3 DEF PubForget, Calm
  <2>2. ASSUME NEW s \in Thread PROVE Sure(s)'
    <3>1. Sure(s) /\ look[s].file # publication.file
      BY <2>1 DEF PoisonInv
    <3>2. look[s].pc \in Published \cup {"wait"} => look[s].file \in File
      BY DEF IInv, Shapes, LookOK, Placed, Holding, Published
    <3>3. look[s].file \in File => uriClasses'[look[s].file] = uriClasses[look[s].file]
      BY <1>0, <2>1, <3>1
    <3> QED
      BY <2>1, <3>1, <3>2, <3>3 DEF Sure
  <2> QED
    BY <2>1, <2>2 DEF PoisonInv, Stable
<1>4. CASE PubInsert
  <2>1. publication.text \in Text
    BY <1>4 DEF PubInsert, IInv, Shapes, PublicationOK, OfAFile, LookupAssumption
  <2>2. Steady
    BY <1>0, <1>4, <2>1 DEF PubInsert, Steady
  <2> QED
    BY <1>4, <2>2, PoisonElsewhere DEF PubInsert, Calm, counters
<1>5. ASSUME NEW f \in File,
             \/ Open(f) \/ Close(f) \/ Save(f)
             \/ (\E x \in Text : Edit(f, x) \/ Watch(f, x))
             \/ (\E c \in Class : Discover(c, f))
      PROVE  PoisonInv'
  <2>1. look' = look /\ flight' = flight /\ uriClasses' = uriClasses /\ misses' \subseteq misses
        /\ UNCHANGED <<gaveUp, panics, crossed>>
    BY <1>5 DEF Open, Close, Save, Edit, Watch, Discover, Change, indexes, counters
  <2> QED
    BY <1>1, <2>1 DEF Calm
<1> QED
  BY <1>2, <1>3, <1>4, <1>5 DEF Publishing

\* A class that its file declares in every text is never recorded as missing
\* unless a waiter gave up, a parse panicked, or the watcher dropped the
\* classes of a file that was being parsed.
THEOREM MissesAreEarned == Spec => []NoPoisonedMiss
<1> USE LookupAssumption
<1>1. Init => IInv /\ PoisonInv
  <2>1. Init => PoisonInv
    BY NoLookupType DEF Init, PoisonInv, Sure, Published
  <2> QED
    BY <2>1, InitType
<1>2. IInv /\ PoisonInv /\ [Next]_vars => (IInv /\ PoisonInv)'
  <2> SUFFICES ASSUME IInv, PoisonInv, [Next]_vars PROVE PoisonInv'
    BY TypeStep
  <2>1. CASE UNCHANGED vars
    BY <2>1 DEF vars, indexes, counters, PoisonInv, Calm, Sure, Stable
  <2>2. ASSUME NEW t \in Thread,
               (\E c \in Class : Begin(t, c)) \/ Searching(t) \/ Parsing(t) \/ GiveUp(t) \/ Panic(t)
        PROVE  PoisonInv'
    BY <2>2, SearchPoison, ParsePoison DEF Searching
  <2> QED
    BY <2>1, <2>2, PublishPoison DEF Next
<1>3. PoisonInv => NoPoisonedMiss
  BY DEF PoisonInv, NoPoisonedMiss, Calm
<1> QED
  BY <1>1, <1>2, <1>3, PTL DEF Spec

----------------------------------------------------------------------------
(* Memos.                                                                  *)

AnswerType == [generation : Nat, known : BOOLEAN, file : File \cup {0}, odd : BOOLEAN]
Telling == {"declare", "uncache", "bump"}

\* No lookup and no memo is ahead of the generation, and one whose own parse
\* has moved it is behind.
GenerationOK(t) ==
    /\ look[t].generation <= generation
    /\ look[t].pc = "release" => look[t].generation < generation
MemoTypes == memo \in [Thread -> [Class -> AnswerType]]
MemoInv ==
    /\ MemoTypes
    /\ \A t \in Thread : GenerationOK(t)
    /\ \A t \in Thread, c \in Class : memo[t][c].generation <= generation
    /\ \A c \in Class : declared[c] # {} => owner[c] \in File
    /\ MemoMatches

\* The parsed declaration of a class is in the file that owns it.
LEMMA OwnerStep ==
  ASSUME LookupAssumption, IInv, NEW f \in File, NEW old, NEW new, Redeclare(f, old, new)
  PROVE  \A c \in Class : declared'[c] # {} => owner'[c] \in File
<1>1. declared' \in [Class -> SUBSET File]
  BY RedeclareType DEF IInv
<1>2. owner' = [c \in Class |->
                  IF declared'[c] # {} THEN Lowest(declared'[c])
                  ELSE IF c \in old /\ owner[c] = f THEN 0 ELSE owner[c]]
  BY DEF Redeclare
<1> QED
  BY <1>1, <1>2, LowestFile

\* The window between a write and its bump is left by the bump only.
LEMMA UntoldStays ==
  ASSUME NEW t \in Thread, Alone(t), publication' = publication, look[t].pc \notin Telling, Untold
  PROVE  Untold'
  BY DEF Untold, Alone, Telling

\* Nothing a served memo may say is taken back.
Upheld == \A c \in Class, f \in File \cup {0} : Holds(c, f) => Holds(c, f)'
LEMMA MemoFields ==
  ASSUME MemoTypes, NEW t \in Thread, NEW c \in Class
  PROVE  /\ memo[t][c] \in AnswerType /\ memo[t] \in [Class -> AnswerType]
         /\ memo[t][c].file \in File \cup {0} /\ memo[t][c].generation \in Nat
<1>1. memo[t] \in [Class -> AnswerType]
  BY DEF MemoTypes
<1>2. memo[t][c] \in AnswerType
  BY <1>1
<1> QED
  BY <1>1, <1>2 DEF AnswerType

\* A memo that is still served says what it did.
Tells(t, c) == Memoised(t, c) /\ ~memo[t][c].odd => Holds(c, memo[t][c].file)
Kept(t, c) == memo'[t][c] = memo[t][c] /\ generation' = generation
LEMMA TellsAll == MemoMatches <=> (~Untold => \A t \in Thread, c \in Class : Tells(t, c))
  BY DEF MemoMatches, Tells

LEMMA StillTrue ==
  ASSUME MemoTypes, Upheld, NEW t \in Thread, NEW c \in Class, Tells(t, c), Kept(t, c)
  PROVE  Tells(t, c)'
<1> DEFINE m == memo[t][c].file
<1>1. m \in File \cup {0}
  BY MemoFields
<1>2. Holds(c, m) => (Holds(c, m))'
  <2>1. m' = m
    BY DEF Kept
  <2> HIDE DEF m
  <2> QED
    BY <1>1, <2>1 DEF Upheld, Holds
<1>3. Memoised(t, c)' /\ ~(memo[t][c].odd)' => Memoised(t, c) /\ ~memo[t][c].odd
  BY DEF Memoised, Kept
<1> QED
  BY <1>2, <1>3 DEF Tells

LEMMA MatchesKept ==
  ASSUME MemoTypes, MemoMatches, memo' = memo, generation' = generation, Untold => Untold',
         Untold' \/ Upheld
  PROVE  MemoMatches'
<1>1. ASSUME ~Untold', NEW t \in Thread, NEW c \in Class PROVE Tells(t, c)'
  BY <1>1, StillTrue, TellsAll DEF Kept
<1> QED
  BY <1>1 DEF MemoMatches, Tells

\* No memo is served after the generation has moved.
LEMMA MatchesAnew ==
  ASSUME IInv, MemoInv, memo' = memo, generation' = generation + 1
  PROVE  MemoMatches'
<1>1. ASSUME NEW t \in Thread, NEW c \in Class PROVE ~Memoised(t, c)'
  <2>1. memo[t][c].generation <= generation /\ memo[t][c].generation \in Nat /\ generation \in Nat
    BY MemoFields DEF MemoInv, IInv, IndexOK
  <2> QED
    BY <2>1 DEF Memoised
<1> QED
  BY <1>1 DEF MemoMatches

\* A new memo of the thread t, true if it can be served.
Adds(t, c, a) == memo' = [memo EXCEPT ![t] = [memo[t] EXCEPT ![c] = a]]
LEMMA MatchesMore ==
  ASSUME IInv, MemoInv, NEW t \in Thread, NEW c \in Class, NEW a \in AnswerType,
         Adds(t, c, a), generation' = generation, Untold => Untold', Upheld,
         ~Untold' /\ a.generation = generation => Tells(t, c)'
  PROVE  MemoMatches'
<1>0. MemoTypes
  BY DEF MemoInv
<1>1. ASSUME ~Untold', NEW s \in Thread, NEW d \in Class PROVE Tells(s, d)'
  <2>1. CASE s = t /\ d = c
    <3>1. memo'[s][d] = a
      BY <1>0, <2>1, MemoFields DEF MemoTypes, Adds
    <3>2. CASE a.generation = generation
      BY <1>1, <2>1, <3>2 DEF Tells, Memoised, Holds
    <3>3. CASE a.generation # generation
      BY <3>1, <3>3 DEF Tells, Memoised
    <3> QED
      BY <3>2, <3>3
  <2>2. CASE s # t \/ d # c
    <3>1. Kept(s, d)
      BY <1>0, <2>2, MemoFields DEF MemoTypes, Adds, Kept
    <3>2. Tells(s, d)
      BY <1>1, TellsAll DEF MemoInv
    <3> QED
      BY <1>0, <3>1, <3>2, StillTrue
  <2> QED
    BY <2>1, <2>2
<1> QED
  BY <1>1 DEF MemoMatches, Tells

\* The indexes keep what they say, and misses are only added.
LEMMA Unshaken ==
  ASSUME declared' = declared, owner' = owner, misses \subseteq misses'
  PROVE  Upheld
  BY DEF Upheld, Holds

\* No lookup gets ahead when one of them begins or goes on.
LEMMA NobodyAhead ==
  ASSUME MemoInv, NEW t \in Thread, Alone(t), generation' = generation,
         look'[t].generation <= generation, look'[t].pc # "release"
  PROVE  \A s \in Thread : GenerationOK(s)'
<1>1. ASSUME NEW s \in Thread PROVE GenerationOK(s)'
  <2>1. GenerationOK(s)
    BY DEF MemoInv
  <2>2. CASE s = t
    BY <2>2 DEF GenerationOK
  <2>3. CASE s # t
    BY <2>1, <2>3 DEF GenerationOK, Alone
  <2> QED
    BY <2>2, <2>3
<1> QED
  BY <1>1

\* A step of a lookup that leaves the memos alone.
LEMMA StayStep ==
  ASSUME MemoInv, NEW t \in Thread, Alone(t), memo' = memo, generation' = generation,
         look'[t].generation <= generation, look'[t].pc # "release",
         \A c \in Class : declared'[c] # {} => owner'[c] \in File,
         Untold => Untold', Untold' \/ Upheld
  PROVE  MemoInv'
<1>1. MemoTypes' /\ \A s \in Thread, c \in Class : (memo[s][c].generation)' <= generation'
  BY DEF MemoInv, MemoTypes
<1>2. \A s \in Thread : GenerationOK(s)'
  BY NobodyAhead
<1>3. MemoMatches'
  BY MatchesKept DEF MemoInv
<1> QED
  BY <1>1, <1>2, <1>3 DEF MemoInv

\* A step of the publisher that tells nothing.
LEMMA QuietStep ==
  ASSUME MemoInv, look' = look, memo' = memo, generation' = generation,
         \A c \in Class : declared'[c] # {} => owner'[c] \in File,
         Untold => Untold', Untold' \/ Upheld
  PROVE  MemoInv'
<1>1. MemoTypes' /\ \A s \in Thread, c \in Class : (memo[s][c].generation)' <= generation'
  BY DEF MemoInv, MemoTypes
<1>2. \A s \in Thread : GenerationOK(s)'
  BY DEF MemoInv, GenerationOK
<1>3. MemoMatches'
  BY MatchesKept DEF MemoInv
<1> QED
  BY <1>1, <1>2, <1>3 DEF MemoInv

\* The bump that tells.
LEMMA BumpStep ==
  ASSUME IInv, MemoInv, memo' = memo, generation' = generation + 1,
         \A s \in Thread : look'[s].generation = look[s].generation,
         declared' = declared, owner' = owner
  PROVE  MemoInv'
<1>0. generation \in Nat /\ \A s \in Thread : look[s].generation \in Nat
  BY DEF IInv, Shapes, IndexOK, LookType
<1>1. MemoTypes' /\ \A c \in Class : declared'[c] # {} => owner'[c] \in File
  BY DEF MemoInv, MemoTypes
<1>2. ASSUME NEW s \in Thread PROVE GenerationOK(s)'
  <2>1. look[s].generation <= generation /\ look[s].generation \in Nat
    BY <1>0 DEF MemoInv, GenerationOK
  <2>2. look'[s].generation < generation'
    BY <1>0, <2>1
  <2>3. look'[s].generation <= generation'
    BY <1>0, <2>1
  <2> QED
    BY <2>2, <2>3 DEF GenerationOK
<1>3. ASSUME NEW s \in Thread, NEW c \in Class
      PROVE  (memo[s][c].generation)' <= generation'
  <2>1. memo[s][c].generation <= generation /\ memo[s][c].generation \in Nat
    BY MemoFields DEF MemoInv
  <2> QED
    BY <1>0, <2>1
<1>4. MemoMatches'
  BY MatchesAnew
<1> QED
  BY <1>1, <1>2, <1>3, <1>4 DEF MemoInv

\* The end of a lookup: the answer is what the indexes hold, unless the parse
\* of the lookup itself moved the generation.
LEMMA AnswerStep ==
  ASSUME IInv, MemoInv, NEW t \in Thread, NEW f \in File \cup {0}, NEW odd \in BOOLEAN,
         NEW c \in Class, c = look[t].class,
         Memoise(t, f, odd), look[t].pc \notin Telling \cup {"idle"},
         UNCHANGED <<declared, owner, generation, publication>>, misses \subseteq misses',
         ~odd /\ look[t].pc # "release" => Holds(c, f)'
  PROVE  MemoInv'
<1> DEFINE e == [generation |-> look[t].generation, known |-> TRUE, file |-> f, odd |-> odd]
<1>0. /\ look \in [Thread -> LookType] /\ look[t].generation \in Nat
      /\ generation \in Nat
  BY DEF IInv, Shapes, IndexOK, LookOK, LookType
<1>a. e \in AnswerType /\ e.generation = look[t].generation /\ e.file = f /\ e.odd = odd
  BY <1>0 DEF AnswerType
<1>b. Adds(t, c, e)
  BY DEF Memoise, Adds
<1> HIDE DEF e
<1>1. PICK a \in AnswerType : a = e
  BY <1>a
<1>2. Adds(t, c, a)
  BY <1>1, <1>b
<1>3. /\ Alone(t) /\ look'[t].pc = "idle" /\ look'[t].generation = 0
  BY <1>0, AnswerFields
<1>4. GenerationOK(t)
  BY DEF MemoInv
<1>5. MemoTypes /\ memo' = [memo EXCEPT ![t] = [memo[t] EXCEPT ![c] = a]]
  BY <1>2 DEF MemoInv, Adds
<1>6. MemoTypes' /\ memo'[t][c] = a
  BY <1>0, <1>1, <1>5, MemoFields DEF MemoTypes
<1>7. ASSUME NEW s \in Thread, NEW d \in Class
      PROVE  memo'[s][d].generation <= generation'
  <2>1. memo[s][d].generation <= generation
    BY DEF MemoInv
  <2>2. a.generation <= generation
    BY <1>1, <1>a, <1>4 DEF GenerationOK
  <2>3. memo'[s][d] \in {a, memo[s][d]}
    BY <1>0, <1>5, MemoFields DEF MemoTypes
  <2> QED
    BY <2>1, <2>2, <2>3
<1>8. ASSUME a.generation = generation PROVE Tells(t, c)'
  <2>1. look[t].pc # "release"
    BY <1>0, <1>1, <1>a, <1>4, <1>8 DEF GenerationOK
  <2>2. ~odd => Holds(c, f)'
    BY <2>1
  <2> QED
    BY <1>1, <1>a, <1>6, <2>2 DEF Tells, Holds
<1>9. Untold => Untold'
  BY <1>3, UntoldStays
<1>10. MemoMatches'
  BY <1>0, <1>1, <1>2, <1>8, <1>9, MatchesMore, Unshaken
<1>11. \A s \in Thread : GenerationOK(s)'
  BY <1>0, <1>3, NobodyAhead
<1> QED
  BY <1>6, <1>7, <1>10, <1>11 DEF MemoInv

LEMMA SearchMemo ==
  ASSUME LookupAssumption, IInv, MemoInv, NEW t \in Thread,
         Negative(t) \/ Declared(t) \/ Indexed(t) \/ ByName(t) \/ Miss(t)
           \/ Claim(t) \/ Released(t) \/ GiveUp(t) \/ Joined(t)
  PROVE  MemoInv'
<1> USE DEF LookPc, Placed, Holding, Telling
<1>0. /\ look \in [Thread -> LookType] /\ LookOK(look[t]) /\ look[t] \in LookType
      /\ owner \in [Class -> File \cup {0}] /\ Psr4 \in [Class -> File \cup {0}]
      /\ look[t].class \in Class /\ look[t].pc \notin Telling \cup {"idle", "release"}
      /\ UNCHANGED <<declared, owner, generation, publication>> /\ misses \subseteq misses'
  BY DEF IInv, Shapes, IndexOK, LookupAssumption, LookOK, Negative, Declared, Indexed, ByName,
     Miss, Claim, Released, GiveUp, Joined, indexes
<1>a. PICK c \in Class : c = look[t].class
  BY <1>0
<1>b. look[t].generation <= generation /\ \A d \in Class : declared[d] # {} => owner[d] \in File
  BY DEF MemoInv, GenerationOK
<1>c. Upheld
  BY <1>0, Unshaken
\* A step that answers nothing.
<1>d. ASSUME Alone(t), memo' = memo, look'[t].generation = look[t].generation,
             look'[t].pc # "release"
      PROVE  MemoInv'
  <2>1. Untold => Untold'
    BY <1>0, <1>d, UntoldStays
  <2> QED
    BY <1>0, <1>b, <1>c, <1>d, <2>1, StayStep
<1>1. CASE Negative(t)
  <2>1. CASE c \in misses
    <3>1. Memoise(t, 0, FALSE) /\ Holds(c, 0)'
      BY <1>0, <1>1, <1>a, <2>1 DEF Negative, Answer, Holds
    <3> QED
      BY <1>0, <1>a, <3>1, AnswerStep
  <2>2. CASE c \notin misses
    BY <1>0, <1>1, <1>a, <1>d, <2>2, GotoFields DEF Negative
  <2> QED
    BY <2>1, <2>2
<1>2. CASE Declared(t)
  <2>1. CASE declared[c] # {}
    <3>1. PICK f \in File : f = owner[c]
      BY <1>b, <2>1
    <3>2. Memoise(t, f, FALSE)
      BY <1>2, <1>a, <2>1, <3>1 DEF Declared, Answer
    <3>3. Holds(c, f)'
      BY <1>0, <2>1, <3>1 DEF Holds, LookupAssumption
    <3> QED
      BY <1>0, <1>a, <3>2, <3>3, AnswerStep
  <2>2. CASE declared[c] = {}
    BY <1>0, <1>2, <1>a, <1>d, <2>2, GotoFields DEF Declared
  <2> QED
    BY <2>1, <2>2
<1>3. CASE Indexed(t)
  <2>1. owner[look[t].class] \in File \cup {0}
    BY <1>0
  <2>2. CASE owner[look[t].class] # 0
    BY <1>0, <1>3, <1>d, <2>1, <2>2, ParseFields DEF Indexed
  <2>3. CASE owner[look[t].class] = 0
    BY <1>0, <1>3, <1>d, <2>3, GotoFields DEF Indexed
  <2> QED
    BY <2>2, <2>3
<1>4. CASE ByName(t)
  <2>1. Psr4[look[t].class] \in File \cup {0}
    BY <1>0
  <2>2. CASE Psr4[look[t].class] # 0
    BY <1>0, <1>4, <1>d, <2>1, <2>2, ParseFields DEF ByName
  <2>3. CASE Psr4[look[t].class] = 0
    BY <1>0, <1>4, <1>d, <2>3, GotoFields DEF ByName
  <2> QED
    BY <2>2, <2>3
<1>5. CASE Miss(t)
  <2>1. Memoise(t, 0, FALSE) /\ Holds(c, 0)'
    BY <1>5, <1>a DEF Miss, Answer, Holds
  <2> QED
    BY <1>0, <1>a, <2>1, AnswerStep
<1>6. CASE Claim(t)
  BY <1>0, <1>6, <1>d, GotoFields DEF Claim
<1>7. CASE Released(t) \/ GiveUp(t)
  BY <1>0, <1>7, <1>d, GotoFields DEF Released, GiveUp
<1>8. CASE Joined(t)
  <2>1. CASE c \in uriClasses[look[t].file]
    <3>1. PICK f \in File : f = look[t].file
      BY <1>0, <1>8 DEF LookOK, Joined
    <3>2. PICK odd \in BOOLEAN : odd = ~Holds(c, f)
      BY DEF Holds
    <3>3. Memoise(t, f, odd)
      BY <1>8, <1>a, <2>1, <3>1, <3>2 DEF Joined
    <3>4. f # 0
      BY DEF LookupAssumption
    <3>5. ~odd => Holds(c, f)'
      BY <1>0, <3>2, <3>4 DEF Holds
    <3> QED
      BY <1>0, <1>a, <3>3, <3>5, AnswerStep
  <2>2. CASE c \notin uriClasses[look[t].file]
    <3>1. After(look[t].phase) \in {"psr4", "miss"}
      BY DEF After
    <3> QED
      BY <1>0, <1>8, <1>a, <1>d, <2>2, <3>1, GotoFields DEF Joined
  <2> QED
    BY <2>1, <2>2
<1> QED
  BY <1>1, <1>2, <1>3, <1>4, <1>5, <1>6, <1>7, <1>8

LEMMA ParseMemo ==
  ASSUME LookupAssumption, IInv, MemoInv, NEW t \in Thread,
         (\E c \in Class : Begin(t, c)) \/ Parsing(t) \/ Panic(t)
  PROVE  MemoInv'
<1> USE DEF LookPc, Placed, Holding, Telling
<1>0. /\ look \in [Thread -> LookType] /\ LookOK(look[t]) /\ look[t] \in LookType
      /\ look[t].pc \in Holding => look[t].class \in Class /\ look[t].file \in File
      /\ generation \in Nat /\ 0 <= generation /\ declared \in [Class -> SUBSET File]
  BY DEF IInv, Shapes, IndexOK, LookOK
<1>b. look[t].generation <= generation /\ \A d \in Class : declared[d] # {} => owner[d] \in File
  BY DEF MemoInv, GenerationOK
<1>1. ASSUME NEW c \in Class, Begin(t, c) PROVE MemoInv'
  <2>1. Alone(t) /\ look'[t].pc = "negative" /\ look'[t].generation = generation
    BY <1>1, BeginType
  <2>2. look[t].pc = "idle" /\ publication' = publication /\ memo' = memo
        /\ UNCHANGED <<declared, owner, misses, generation>>
    BY <1>1, BeginType DEF indexes
  <2>3. Untold => Untold'
    BY <2>1, <2>2, UntoldStays
  <2>4. Upheld
    BY <2>2, Unshaken
  <2> QED
    BY <1>0, <1>b, <2>1, <2>2, <2>3, <2>4, StayStep
<1>2. CASE Read(t) \/ Recall(t) \/ Panic(t)
  <2>1. /\ look[t].pc \notin Telling /\ publication' = publication /\ memo' = memo
        /\ UNCHANGED <<declared, owner, misses, generation>>
    BY <1>2 DEF Read, Recall, Panic, indexes
  <2>2. Alone(t) /\ look'[t].pc # "release" /\ look'[t].generation <= generation
    <3>1. CASE Read(t) \/ Recall(t)
      BY <1>b, <3>1, ReadFields
    <3>2. CASE Panic(t)
      BY <1>0, <3>2, IdleFields DEF Panic
    <3> QED
      BY <1>2, <3>1, <3>2
  <2>3. Untold => Untold'
    BY <2>1, <2>2, UntoldStays
  <2>4. Upheld
    BY <2>1, Unshaken
  <2> QED
    BY <1>b, <2>1, <2>2, <2>3, <2>4, StayStep
<1>3. CASE Insert(t) \/ Declare(t) \/ Uncache(t)
  <2>1. /\ Alone(t) /\ look'[t].pc \in Telling /\ look'[t].generation = look[t].generation
        /\ memo' = memo /\ generation' = generation
    BY <1>0, <1>3, GotoFields DEF Insert, Declare, Uncache
  <2>2. Untold'
    BY <2>1 DEF Untold
  <2>3. \A c \in Class : declared'[c] # {} => owner'[c] \in File
    <3>1. CASE Insert(t) \/ Uncache(t)
      BY <1>b, <3>1 DEF Insert, Uncache, indexes
    <3>2. CASE Declare(t)
      BY <1>0, <3>2, OwnerStep DEF Declare
    <3> QED
      BY <1>3, <3>1, <3>2
  <2> QED
    BY <1>b, <2>1, <2>2, <2>3, StayStep
<1>4. CASE Bump(t)
  <2>1. Alone(t) /\ look'[t].generation = look[t].generation
    BY <1>0, <1>4, GotoFields DEF Bump
  <2>2. /\ memo' = memo /\ generation' = generation + 1
        /\ declared' = declared /\ owner' = owner
    BY <1>4 DEF Bump, indexes
  <2>3. \A s \in Thread : look'[s].generation = look[s].generation
    BY <2>1 DEF Alone
  <2> QED
    BY <2>2, <2>3, BumpStep
<1>5. CASE Release(t)
  <2>0. /\ look[t].pc = "release" /\ publication' = publication
        /\ UNCHANGED <<declared, owner, misses, generation>>
    BY <1>5 DEF Release, indexes
  <2>1. CASE look[t].class \in look[t].text
    <3>1. PICK c \in Class, f \in File : c = look[t].class /\ f = look[t].file
      BY <1>0, <2>0
    <3>2. Memoise(t, f, FALSE)
      BY <1>5, <2>1, <3>1 DEF Release, Answer
    <3> QED
      BY <2>0, <3>1, <3>2, AnswerStep
  <2>2. CASE look[t].class \notin look[t].text
    <3>1. After(look[t].phase) \in {"psr4", "miss"}
      BY DEF After
    <3>2. /\ Alone(t) /\ look'[t].pc # "release" /\ look'[t].generation = look[t].generation
          /\ memo' = memo
      BY <1>0, <1>5, <2>2, <3>1, GotoFields DEF Release
    <3>3. Untold => Untold'
      BY <2>0, <3>2, UntoldStays
    <3>4. Upheld
      BY <2>0, Unshaken
    <3> QED
      BY <1>b, <2>0, <3>2, <3>3, <3>4, StayStep
  <2> QED
    BY <2>1, <2>2
<1> QED
  BY <1>1, <1>2, <1>3, <1>4, <1>5 DEF Parsing

LEMMA PublishMemo ==
  ASSUME LookupAssumption, IInv, MemoInv,
         \/ Publishing
         \/ \E f \in File : \/ Open(f) \/ Close(f) \/ Save(f)
                            \/ (\E x \in Text : Edit(f, x) \/ Watch(f, x))
                            \/ (\E c \in Class : Discover(c, f))
  PROVE  MemoInv'
<1>0. /\ \A c \in Class : declared[c] # {} => owner[c] \in File
      /\ declared \in [Class -> SUBSET File] /\ publication \in PubType
      /\ publication.pc \in OfAFile => publication.file \in File
  BY DEF MemoInv, IInv, IndexOK, Shapes, PublicationOK
<1> USE DEF OfAFile
\* A step outside the windows, which takes nothing back.
<1>a. ASSUME UNCHANGED <<look, memo, generation, declared, owner, misses>>,
             publication.pc \notin {"retire", "uncache", "bump"}
      PROVE  MemoInv'
  BY <1>0, <1>a, Unshaken, QuietStep DEF Untold
\* A step that opens a window or stays in one.
<1>b. ASSUME UNCHANGED <<look, memo, generation>>,
             publication'.pc \in {"retire", "uncache", "bump"},
             \A c \in Class : declared'[c] # {} => owner'[c] \in File
      PROVE  MemoInv'
  BY <1>b, QuietStep DEF Untold
<1>1. CASE PubWithdraw
  <2>1. publication'.pc = "retire"
    BY <1>0, <1>1 DEF PubWithdraw, PubType
  <2>2. \A c \in Class : declared'[c] # {} => owner'[c] \in File
    BY <1>0, <1>1, OwnerStep DEF PubWithdraw
  <2> QED
    BY <1>1, <1>b, <2>1, <2>2 DEF PubWithdraw
<1>2. CASE PubRetire
  BY <1>2, BumpStep DEF PubRetire, indexes
<1>3. CASE PubForget
  BY <1>3, <1>a DEF PubForget
<1>4. CASE PubScan
  <2>1. PICK f \in File : f = publication.file
    BY <1>0, <1>4 DEF PubScan
  <2>2. /\ owner' = [c \in Class |-> IF c \in publication.text /\ declared[c] = {} THEN f
                                     ELSE owner[c]]
        /\ UNCHANGED <<look, memo, generation, declared, misses>>
        /\ publication.pc = "scan"
    BY <1>4, <2>1 DEF PubScan
  <2>3. \A c \in Class : declared'[c] # {} => owner'[c] \in File
    BY <1>0, <2>2
  <2>4. Upheld
    BY <2>2 DEF Upheld, Holds
  <2>5. Untold => Untold'
    BY <2>2 DEF Untold
  <2> QED
    BY <2>2, <2>3, <2>4, <2>5, QuietStep
<1>5. CASE PubRecall
  BY <1>5, <1>a DEF PubRecall, indexes
<1>6. CASE PubDeclare
  <2>1. publication'.pc = "uncache"
    BY <1>0, <1>6 DEF PubDeclare, PubType
  <2>2. \A c \in Class : declared'[c] # {} => owner'[c] \in File
    BY <1>0, <1>6, OwnerStep DEF PubDeclare
  <2> QED
    BY <1>6, <1>b, <2>1, <2>2 DEF PubDeclare
<1>7. CASE PubUncache
  <2>1. publication'.pc = "bump"
    BY <1>0, <1>7 DEF PubUncache, PubType
  <2> QED
    BY <1>0, <1>7, <1>b, <2>1 DEF PubUncache, indexes
<1>8. CASE PubBump
  BY <1>8, BumpStep DEF PubBump, indexes
<1>9. CASE PubInsert
  BY <1>9, <1>a DEF PubInsert
<1>10. ASSUME NEW f \in File,
              Open(f) \/ Close(f) \/ Save(f) \/ (\E x \in Text : Edit(f, x) \/ Watch(f, x))
       PROVE  MemoInv'
  <2>1. ASSUME NEW x, NEW pc, Change(f, x, pc), owner' = owner PROVE MemoInv'
    <3>1. /\ UNCHANGED <<look, memo, generation, declared, owner, misses>>
          /\ publication.pc = "idle"
      BY <2>1 DEF Change
    <3> QED
      BY <3>1, <1>a
  <2>2. CASE Save(f)
    <3>1. UNCHANGED <<indexes, misses, generation, look, memo, publication>>
      BY <2>2 DEF Save
    <3>2. /\ UNCHANGED <<look, memo, generation, declared, owner, misses>>
          /\ Untold => Untold'
      BY <3>1 DEF indexes, Untold
    <3> QED
      BY <1>0, <3>2, Unshaken, QuietStep
  <2>3. CASE Open(f) \/ Close(f)
    BY <2>1, <2>3 DEF Open, Close
  <2>4. CASE \E x \in Text : Edit(f, x) \/ Watch(f, x)
    BY <2>1, <2>4 DEF Edit, Watch
  <2> QED
    BY <1>10, <2>2, <2>3, <2>4
<1>11. ASSUME NEW f \in File, NEW c \in Class, Discover(c, f) PROVE MemoInv'
  <2>1. publication'.pc = "uncache"
    BY <1>11 DEF Discover, Change, Quiet
  <2>2. owner' = [owner EXCEPT ![c] = IF declared[c] = {} THEN f ELSE @]
        /\ UNCHANGED <<look, memo, generation, declared>>
    BY <1>11 DEF Discover, Change
  <2>3. \A d \in Class : declared'[d] # {} => owner'[d] \in File
    BY <1>0, <2>2 DEF IInv, IndexOK
  <2> QED
    BY <1>b, <2>1, <2>2, <2>3
<1> QED
  BY <1>1, <1>2, <1>3, <1>4, <1>5, <1>6, <1>7, <1>8, <1>9, <1>10, <1>11 DEF Publishing

\* A memoised answer that would be served is what the indexes and the miss
\* cache hold, unless a write to them has not been told yet; an answer that
\* the class index did not hold when uri_classes_index gave it is excepted.
THEOREM MemosAreCurrent == Spec => []MemoMatches
<1> USE LookupAssumption
<1>1. Init => IInv /\ MemoInv
  <2> SUFFICES ASSUME Init PROVE MemoInv
    BY InitType
  <2>1. IInv
    BY InitType
  <2>2. MemoTypes /\ \A t \in Thread, c \in Class : ~memo[t][c].known /\ memo[t][c].generation = 0
    <3>1. NoAnswer \in AnswerType /\ ~NoAnswer.known /\ NoAnswer.generation = 0
      BY DEF NoAnswer, AnswerType
    <3> QED
      BY <3>1 DEF Init, MemoTypes
  <2>3. \A t \in Thread : GenerationOK(t)
    BY NoLookupType DEF Init, GenerationOK
  <2>4. \A c \in Class : declared[c] # {} => owner[c] \in File
    BY <2>1, LowestFile DEF Init, IInv, IndexOK
  <2>5. MemoMatches
    BY <2>2 DEF MemoMatches, Memoised
  <2>6. generation = 0
    BY DEF Init
  <2> QED
    BY <2>2, <2>3, <2>4, <2>5, <2>6 DEF MemoInv
<1>2. IInv /\ MemoInv /\ [Next]_vars => (IInv /\ MemoInv)'
  <2> SUFFICES ASSUME IInv, MemoInv, [Next]_vars PROVE MemoInv'
    BY TypeStep
  <2>1. CASE UNCHANGED vars
    <3>1. UNCHANGED <<look, memo, generation, declared, owner, misses, publication>>
      BY <2>1 DEF vars, indexes
    <3>2. (Untold => Untold') /\ Upheld
      BY <3>1, Unshaken DEF Untold
    <3> QED
      BY <3>1, <3>2, QuietStep DEF MemoInv
  <2>2. ASSUME NEW t \in Thread,
               (\E c \in Class : Begin(t, c)) \/ Searching(t) \/ Parsing(t) \/ GiveUp(t) \/ Panic(t)
        PROVE  MemoInv'
    BY <2>2, SearchMemo, ParseMemo DEF Searching
  <2> QED
    BY <2>1, <2>2, PublishMemo DEF Next
<1>3. MemoInv => MemoMatches
  BY DEF MemoInv
<1> QED
  BY <1>1, <1>2, <1>3, PTL DEF Spec

----------------------------------------------------------------------------
(* The refinement.                                                         *)

\* The roles of ParseClaims, from the program counter.
Role(l) == IF l.pc = "wait" THEN [role |-> "joiner", file |-> l.file]
           ELSE IF l.pc \in Holding THEN [role |-> "owner", file |-> l.file]
           ELSE [role |-> "away"]
Callers == [t \in Thread |-> CallerOf(t)]

LEMMA Roles == ASSUME IInv, NEW t \in Thread PROVE CallerOf(t) = Role(look[t])
<1>1. look[t].pc \in Holding => look[t].file \in File
  BY DEF IInv, Shapes, LookOK, Placed, Holding
<1>2. (\E f \in File : Parses(t, f)) <=> look[t].pc \in Holding
  BY <1>1 DEF Parses, Holding
<1> QED
  BY <1>2 DEF CallerOf, Role

LEMMA RolesNext == ASSUME IInv', NEW t \in Thread PROVE CallerOf(t)' = Role(look'[t])
<1>1. look'[t].pc \in Holding => look'[t].file \in File
  BY DEF IInv, Shapes, LookOK, Placed, Holding
<1>2. (\E f \in File : Parses(t, f)') <=> look'[t].pc \in Holding
  BY <1>1 DEF Parses, Holding
<1> QED
  BY <1>2 DEF CallerOf, Role

\* A step of one thread changes the role of no other.
LEMMA CallerStep ==
  ASSUME IInv, IInv', NEW t \in Thread, \A s \in Thread \ {t} : look'[s] = look[s]
  PROVE  Callers' = [Callers EXCEPT ![t] = Role(look'[t])] /\ Callers[t] = Role(look[t])
<1>1. \A s \in Thread : CallerOf(s) = Role(look[s]) /\ CallerOf(s)' = Role(look'[s])
  BY Roles, RolesNext
<1>2. Callers' = [s \in Thread |-> CallerOf(s)']
  BY DEF Callers
<1> QED
  BY <1>1, <1>2 DEF Callers

\* A step that keeps every role and every claim is a stutter of ParseClaims.
LEMMA Stutter ==
  ASSUME IInv, IInv', NEW t \in Thread, \A s \in Thread \ {t} : look'[s] = look[s],
         Role(look'[t]) = Role(look[t]), flight' = flight
  PROVE  UNCHANGED Claims!vars
<1>1. Callers' = Callers
  BY CallerStep DEF Callers
<1> QED
  BY <1>1 DEF Claims!vars, Callers

LEMMA ThreadRefines ==
  ASSUME LookupAssumption, IInv, IInv', NEW t \in Thread,
         (\E c \in Class : Begin(t, c)) \/ Searching(t) \/ Parsing(t) \/ GiveUp(t) \/ Panic(t)
  PROVE  [Claims!Next]_Claims!vars
<1> USE DEF LookPc, Placed, Holding
<1>0. /\ look \in [Thread -> LookType] /\ LookOK(look[t]) /\ look[t] \in LookType
      /\ owner \in [Class -> File \cup {0}] /\ Psr4 \in [Class -> File \cup {0}]
  BY DEF IInv, Shapes, IndexOK, LookupAssumption
<1>a. ASSUME Alone(t), look[t].pc \notin Holding \cup {"wait"},
             look'[t].pc \notin Holding \cup {"wait"}, flight' = flight
      PROVE  UNCHANGED Claims!vars
  BY <1>a, Stutter DEF Role, Alone
<1>1. CASE \/ (\E c \in Class : Begin(t, c)) \/ Negative(t) \/ Declared(t) \/ Indexed(t)
           \/ ByName(t) \/ Miss(t) \/ Joined(t)
  <2>1. /\ look[t].pc \in {"idle", "negative", "declared", "indexed", "psr4", "miss", "joined"}
        /\ flight' = flight
    BY <1>1 DEF Begin, Negative, Declared, Indexed, ByName, Miss, Joined
  <2>2. /\ Alone(t)
        /\ look'[t].pc \in {"idle", "negative", "declared", "indexed", "psr4", "miss", "claim"}
    <3>1. CASE \E c \in Class : Begin(t, c)
      BY <3>1, BeginType
    <3>2. CASE Negative(t) \/ Declared(t) \/ Miss(t)
      BY <1>0, <3>2, AnswerFields, GotoFields DEF Negative, Declared, Miss, Answer
    <3>3. CASE Indexed(t) \/ ByName(t)
      <4>1. look[t].class \in Class
        BY <1>0, <3>3 DEF LookOK, Indexed, ByName
      <4>2. owner[look[t].class] \in File \cup {0} /\ Psr4[look[t].class] \in File \cup {0}
        BY <1>0, <4>1
      <4> QED
        BY <1>0, <3>3, <4>2, ParseFields, GotoFields DEF Indexed, ByName
    <3>4. CASE Joined(t)
      <4>1. After(look[t].phase) \in {"psr4", "miss"}
        BY DEF After
      <4> QED
        BY <1>0, <3>4, <4>1, AnswerFields, GotoFields DEF Joined
    <3> QED
      BY <1>1, <3>1, <3>2, <3>3, <3>4
  <2>3. Role(look'[t]) = Role(look[t])
    BY <2>1, <2>2 DEF Role
  <2> QED
    BY <2>1, <2>2, <2>3, Stutter DEF Alone
<1>2. CASE Claim(t)
  <2>1. look[t].pc = "claim" /\ look[t].file \in File
    BY <1>0, <1>2 DEF Claim, LookOK
  <2>2. CASE flight[look[t].file] = NoThread
    <3>1. /\ Alone(t) /\ look'[t].pc = "read" /\ look'[t].file = look[t].file
          /\ flight' = [flight EXCEPT ![look[t].file] = t]
      BY <1>0, <1>2, <2>2, GotoFields DEF Claim
    <3>2. /\ Callers[t] = [role |-> "away"]
          /\ Callers' = [Callers EXCEPT ![t] = [role |-> "owner", file |-> look[t].file]]
      BY <2>1, <3>1, CallerStep DEF Role, Alone
    <3>3. Claims!Claim(t, look[t].file)
      BY <2>2, <3>1, <3>2 DEF Claims!Claim, Claims!Away, Claims!As, Callers
    <3> QED
      BY <2>1, <3>3 DEF Claims!Next
  <2>3. CASE flight[look[t].file] # NoThread
    <3>1. /\ Alone(t) /\ look'[t].pc = "wait" /\ look'[t].file = look[t].file
          /\ flight' = flight
      BY <1>0, <1>2, <2>3, GotoFields DEF Claim
    <3>2. /\ Callers[t] = [role |-> "away"]
          /\ Callers' = [Callers EXCEPT ![t] = [role |-> "joiner", file |-> look[t].file]]
      BY <2>1, <3>1, CallerStep DEF Role, Alone
    <3>3. Claims!Join(t, look[t].file)
      BY <2>3, <3>1, <3>2 DEF Claims!Join, Claims!Away, Claims!As, Callers
    <3> QED
      BY <2>1, <3>3 DEF Claims!Next
  <2> QED
    BY <2>2, <2>3
<1>3. CASE Released(t) \/ GiveUp(t)
  <2>1. look[t].pc = "wait" /\ look[t].file \in File
    BY <1>0, <1>3 DEF Released, GiveUp, LookOK
  <2>2. Alone(t) /\ look'[t].pc = "joined" /\ flight' = flight
    BY <1>0, <1>3, GotoFields DEF Released, GiveUp
  <2>3. /\ Callers[t] = [role |-> "joiner", file |-> look[t].file]
        /\ Callers' = [Callers EXCEPT ![t] = [role |-> "away"]]
    BY <2>1, <2>2, CallerStep DEF Role, Alone
  <2>4. Claims!Leave(t, look[t].file) \/ Claims!Abandon(t, look[t].file)
    BY <1>3, <2>2, <2>3 DEF Claims!Leave, Claims!Abandon, Claims!Away, Claims!As, Callers,
       Released, GiveUp
  <2> QED
    BY <2>1, <2>4 DEF Claims!Next, Claims!Finish
<1>4. CASE Release(t) \/ Panic(t)
  <2>1. /\ look[t].pc \in {"release", "old"} /\ look[t].file \in File
        /\ flight' = [flight EXCEPT ![look[t].file] = NoThread]
    BY <1>0, <1>4 DEF Release, Panic, LookOK
  <2>2. Alone(t) /\ look'[t].pc \in {"idle", "psr4", "miss"}
    <3>1. After(look[t].phase) \in {"psr4", "miss"}
      BY DEF After
    <3> QED
      BY <1>0, <1>4, <3>1, AnswerFields, GotoFields, IdleFields DEF Release, Panic, Answer
  <2>3. /\ Callers[t] = [role |-> "owner", file |-> look[t].file]
        /\ Callers' = [Callers EXCEPT ![t] = [role |-> "away"]]
    BY <2>1, <2>2, CallerStep DEF Role, Alone
  <2>4. Claims!Land(t, look[t].file)
    BY <2>1, <2>3 DEF Claims!Land, Claims!Away, Claims!As, Callers
  <2> QED
    BY <2>1, <2>4 DEF Claims!Next, Claims!Finish
<1>5. CASE Read(t) \/ Recall(t) \/ Insert(t) \/ Declare(t) \/ Uncache(t) \/ Bump(t)
  <2>1. look[t].pc \in Holding /\ flight' = flight
    BY <1>5 DEF Read, Recall, Insert, Declare, Uncache, Bump
  <2>2. Alone(t) /\ look'[t].pc \in Holding /\ look'[t].file = look[t].file
    <3>1. CASE Insert(t) \/ Declare(t) \/ Uncache(t) \/ Bump(t)
      BY <1>0, <3>1, GotoFields DEF Insert, Declare, Uncache, Bump
    <3>2. CASE Read(t) \/ Recall(t)
      BY <3>2, ReadFields
    <3> QED
      BY <1>5, <3>1, <3>2
  <2>3. Role(look'[t]) = Role(look[t])
    BY <2>1, <2>2 DEF Role
  <2> QED
    BY <2>1, <2>2, <2>3, Stutter DEF Alone
<1> QED
  BY <1>1, <1>2, <1>3, <1>4, <1>5 DEF Searching, Parsing

\* Every step of the lookups, the publications and the editor is a step of
\* ParseClaims on the claims and the callers, or leaves both as they are.
THEOREM StepsAreClaims == Spec => Claims!Init /\ [][Claims!Next]_Claims!vars
<1> USE LookupAssumption
<1>1. Init => IInv /\ Claims!Init
  <2> SUFFICES ASSUME Init PROVE Claims!Init
    BY InitType
  <2>1. IInv
    BY InitType
  <2>2. ASSUME NEW t \in Thread PROVE CallerOf(t) = [role |-> "away"]
    BY <2>1, <2>2, Roles, NoLookupType DEF Init, Role, Holding
  <2> QED
    BY <2>2 DEF Init, Claims!Init, Claims!Away
<1>2. IInv /\ [Next]_vars => IInv'
  BY TypeStep
<1>3. IInv /\ IInv' /\ [Next]_vars => [Claims!Next]_Claims!vars
  <2> SUFFICES ASSUME IInv, IInv', [Next]_vars PROVE [Claims!Next]_Claims!vars
    OBVIOUS
  <2>1. ASSUME look' = look, flight' = flight PROVE UNCHANGED Claims!vars
    BY <2>1 DEF Claims!vars, CallerOf, Parses
  <2>2. CASE UNCHANGED vars
    BY <2>1, <2>2 DEF vars
  <2>3. CASE Publishing
    BY <2>1, <2>3 DEF Publishing, PubWithdraw, PubRetire, PubForget, PubScan, PubRecall, PubDeclare,
       PubUncache, PubBump, PubInsert
  <2>4. ASSUME NEW f \in File,
               \/ Open(f) \/ Close(f) \/ Save(f)
               \/ (\E x \in Text : Edit(f, x) \/ Watch(f, x))
               \/ (\E c \in Class : Discover(c, f))
        PROVE  UNCHANGED Claims!vars
    BY <2>1, <2>4 DEF Open, Close, Save, Edit, Watch, Discover, Change
  <2> QED
    BY <2>2, <2>3, <2>4, ThreadRefines DEF Next
<1> QED
  BY <1>1, <1>2, <1>3, PTL DEF Spec

=============================================================================
