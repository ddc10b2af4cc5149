---------------------------- MODULE ClassLookup ----------------------------
(***************************************************************************)
(* Looking a class up by name: the phases of                               *)
(* src/src/resolution/classes.rs, the shared parse of a file in            *)
(* src/src/resolution/{lazy_parse,inflight}.rs, the per-thread memo of     *)
(* src/src/class_loader_memo.rs, and the indexes of                        *)
(* src/src/symbol_index.rs that lookups and publications                   *)
(* (src/src/parser/ast_publish.rs) both write.                             *)
(*                                                                         *)
(* A text is the set of classes it declares; files are numbered in the     *)
(* order of their URIs, 0 being no file.  Stubs, phar entries and Composer *)
(* project scopes are left out, and so are the caches of resolved classes. *)
(***************************************************************************)
EXTENDS Naturals, FiniteSets

CONSTANTS
    Class, Thread, NoThread,
    File,           \* numbers above 0
    Text,           \* the texts a file may have
    Psr4,           \* [Class -> File \cup {0}]: where PSR-4 expects a class
    MaxLookups, MaxChanges, MaxPanics, MaxGiveUps   \* bounds

ASSUME LookupAssumption ==
    /\ File \subseteq Nat \ {0} /\ Text \subseteq SUBSET Class
    /\ Psr4 \in [Class -> File \cup {0}]
    /\ NoThread \notin Thread

NoText == {"no text"}

VARIABLES
    disk,           \* the text of each file on disk
    buffer,         \* the text in the editor, or NoText
    uriClasses,     \* uri_classes_index and parsed_uris
    declared,       \* files whose parsed declaration of a class is recorded
    owner,          \* fqn_uri_index: the file a class resolves to, parsed or not
    misses,         \* class_not_found_cache
    generation,     \* class_lookup_generation
    flight,         \* parse_inflight: the thread that parses each file
    look,           \* the lookup of each thread
    memo,           \* the memo of each thread
    publication,    \* a publication by the editor, a watcher or a scan
    lookups, changes, panics, gaveUp,
    crossed         \* history: a watched change dropped the classes of a file
                    \* that a lookup was parsing, or waiting for

texts    == <<disk, buffer>>
indexes  == <<uriClasses, declared, owner>>
counters == <<lookups, changes, panics, gaveUp, crossed>>
vars == <<texts, indexes, misses, generation, flight, look, memo, publication, counters>>

Lowest(fs) == CHOOSE f \in fs : \A g \in fs : f <= g

NoAnswer == [generation |-> 0, known |-> FALSE, file |-> 0, odd |-> FALSE]
NoLookup == [pc |-> "idle", class |-> CHOOSE c \in Class : TRUE, generation |-> 0,
             file |-> 0, phase |-> "none", text |-> {}, old |-> {}]
Quiet    == [pc |-> "idle", file |-> 0, text |-> {}, old |-> {}, clears |-> FALSE]

\* Some files are open and published, no other is parsed.
Init ==
    /\ disk \in [File -> Text]
    /\ \E open \in SUBSET File :
          /\ buffer = [f \in File |-> IF f \in open THEN disk[f] ELSE NoText]
          /\ uriClasses = buffer
          /\ declared = [c \in Class |-> {f \in open : c \in disk[f]}]
    /\ owner = [c \in Class |-> IF declared[c] = {} THEN 0 ELSE Lowest(declared[c])]
    /\ misses = {} /\ generation = 0
    /\ flight = [f \in File |-> NoThread]
    /\ look = [t \in Thread |-> NoLookup]
    /\ memo = [t \in Thread |-> [c \in Class |-> NoAnswer]]
    /\ publication = Quiet /\ crossed = FALSE
    /\ lookups = 0 /\ changes = 0 /\ panics = 0 /\ gaveUp = 0

----------------------------------------------------------------------------
(* with_class_declarations: what a parse no longer declares is withdrawn,  *)
(* what it declares is recorded, and the lowest of the files that declare  *)
(* a class owns it.                                                        *)

Redeclare(f, old, new) ==
    LET after == [c \in Class |-> IF c \in new THEN declared[c] \cup {f}
                                  ELSE IF c \in old THEN declared[c] \ {f} ELSE declared[c]]
    IN  /\ declared' = after
        /\ owner' = [c \in Class |->
                IF after[c] # {} THEN Lowest(after[c])
                ELSE IF c \in old /\ owner[c] = f THEN 0 ELSE owner[c]]

----------------------------------------------------------------------------
(* A lookup.                                                               *)

Goto(t, pc) == look' = [look EXCEPT ![t].pc = pc]

\* The answer goes to the memo of the thread under the generation read first.
\* (`odd' is history: the class index did not hold the answer that
\* uri_classes_index gave.)
Holds(c, file) == IF file = 0 THEN c \in misses ELSE declared[c] # {} /\ owner[c] = file
\* Mutant: the memo is stamped when the lookup ends.
MemoiseLate(t, file, odd) ==
    /\ look' = [look EXCEPT ![t] = NoLookup]
    /\ memo' = [memo EXCEPT ![t][look[t].class] =
                   [generation |-> generation, known |-> TRUE, file |-> file, odd |-> odd]]
Memoise(t, file, odd) ==
    /\ look' = [look EXCEPT ![t] = NoLookup]
    /\ memo' = [memo EXCEPT ![t][look[t].class] =
                   [generation |-> look[t].generation, known |-> TRUE, file |-> file,
                    odd |-> odd]]
Answer(t, file) == Memoise(t, file, FALSE)

\* find_indexed_class: a memoised answer of this generation is served, and
\* the lookup is over at once.
Memoised(t, c) == memo[t][c].known /\ memo[t][c].generation = generation
Begin(t, c) ==
    /\ look[t].pc = "idle" /\ lookups < MaxLookups /\ ~Memoised(t, c)
    /\ look' = [look EXCEPT ![t] = [NoLookup EXCEPT !.pc = "negative", !.class = c,
                                                    !.generation = generation]]
    /\ lookups' = lookups + 1
    /\ UNCHANGED <<texts, indexes, misses, generation, flight, memo, publication, changes,
                   panics, gaveUp, crossed>>

Negative(t) ==
    /\ look[t].pc = "negative"
    /\ IF look[t].class \in misses THEN Answer(t, 0)
       ELSE Goto(t, "declared") /\ UNCHANGED memo
    /\ UNCHANGED <<texts, indexes, misses, generation, flight, publication, counters>>

\* Phase 0: a parsed declaration.
Declared(t) ==
    /\ look[t].pc = "declared"
    /\ LET c == look[t].class
       IN  IF declared[c] # {} THEN Answer(t, owner[c])
           ELSE Goto(t, "indexed") /\ UNCHANGED memo
    /\ UNCHANGED <<texts, indexes, misses, generation, flight, publication, counters>>

Parse(t, f, phase) ==
    look' = [look EXCEPT ![t].pc = "claim", ![t].file = f, ![t].phase = phase]

\* Phase 1: the file the index names.
Indexed(t) ==
    /\ look[t].pc = "indexed"
    /\ IF owner[look[t].class] # 0 THEN Parse(t, owner[look[t].class], "indexed")
       ELSE Goto(t, "psr4")
    /\ UNCHANGED <<texts, indexes, misses, generation, flight, memo, publication, counters>>

\* Phase 2: the file PSR-4 expects.
ByName(t) ==
    /\ look[t].pc = "psr4"
    /\ IF Psr4[look[t].class] # 0 THEN Parse(t, Psr4[look[t].class], "psr4")
       ELSE Goto(t, "miss")
    /\ UNCHANGED <<texts, indexes, misses, generation, flight, memo, publication, counters>>

\* What follows a phase that parsed a file without the class.
After(phase) == IF phase = "indexed" THEN "psr4" ELSE "miss"

\* Nothing was found: the name is recorded as a miss.
Miss(t) ==
    /\ look[t].pc = "miss"
    /\ misses' = misses \cup {look[t].class}
    /\ Answer(t, 0)
    /\ UNCHANGED <<texts, indexes, generation, flight, publication, counters>>

----------------------------------------------------------------------------
(* parse_and_cache_file: one thread parses a file, the others wait for it. *)

\* Mutants: a claim is taken whoever holds it; a waiter does not wait.
ClaimAnyway(t) ==
    /\ look[t].pc = "claim"
    /\ flight' = [flight EXCEPT ![look[t].file] = t] /\ Goto(t, "read")
    /\ UNCHANGED <<texts, indexes, misses, generation, memo, publication, counters>>
ClaimOrGo(t) ==
    /\ look[t].pc = "claim"
    /\ IF flight[look[t].file] = NoThread
       THEN flight' = [flight EXCEPT ![look[t].file] = t] /\ Goto(t, "read")
       ELSE Goto(t, "joined") /\ UNCHANGED flight
    /\ UNCHANGED <<texts, indexes, misses, generation, memo, publication, counters>>

Claim(t) ==
    /\ look[t].pc = "claim"
    /\ IF flight[look[t].file] = NoThread
       THEN flight' = [flight EXCEPT ![look[t].file] = t] /\ Goto(t, "read")
       ELSE Goto(t, "wait") /\ UNCHANGED flight
    /\ UNCHANGED <<texts, indexes, misses, generation, memo, publication, counters>>

Released(t) ==
    /\ look[t].pc = "wait" /\ flight[look[t].file] = NoThread
    /\ Goto(t, "joined")
    /\ UNCHANGED <<texts, indexes, misses, generation, flight, memo, publication, counters>>

\* The escape hatch of wait_until_released.
GiveUp(t) ==
    /\ look[t].pc = "wait" /\ flight[look[t].file] # NoThread /\ gaveUp < MaxGiveUps
    /\ Goto(t, "joined")
    /\ gaveUp' = gaveUp + 1
    /\ UNCHANGED <<texts, indexes, misses, generation, flight, memo, publication, lookups,
                   changes, panics, crossed>>

\* A joiner reads what the parse left in the index.
Joined(t) ==
    /\ look[t].pc = "joined"
    /\ LET l == look[t]
       IN  IF l.class \in uriClasses[l.file] THEN Memoise(t, l.file, ~Holds(l.class, l.file))
           ELSE Goto(t, After(l.phase)) /\ UNCHANGED memo
    /\ UNCHANGED <<texts, indexes, misses, generation, flight, publication, counters>>

\* The parse is of the file on disk, whether or not it is open.
Read(t) ==
    /\ look[t].pc = "read"
    /\ look' = [look EXCEPT ![t].pc = "old", ![t].text = disk[look[t].file]]
    /\ UNCHANGED <<texts, indexes, misses, generation, flight, memo, publication, counters>>

\* Mutant: no guard releases the claim.
PanicUnguarded(t) ==
    /\ look[t].pc = "old" /\ panics < MaxPanics
    /\ panics' = panics + 1
    /\ look' = [look EXCEPT ![t] = NoLookup]
    /\ UNCHANGED <<texts, indexes, misses, generation, flight, memo, publication, lookups,
                   changes, gaveUp, crossed>>

\* A parse that unwinds releases the claim with its guard, and the lookup
\* unwinds with it.
Panic(t) ==
    /\ look[t].pc = "old" /\ panics < MaxPanics
    /\ panics' = panics + 1
    /\ flight' = [flight EXCEPT ![look[t].file] = NoThread]
    /\ look' = [look EXCEPT ![t] = NoLookup]
    /\ UNCHANGED <<texts, indexes, misses, generation, memo, publication, lookups, changes,
                   gaveUp, crossed>>

\* The classes of the previous parse, to be withdrawn.
Previous(f) == IF uriClasses[f] = NoText THEN {} ELSE uriClasses[f]
Recall(t) ==
    /\ look[t].pc = "old"
    /\ look' = [look EXCEPT ![t].pc = "insert", ![t].old = Previous(look[t].file)]
    /\ UNCHANGED <<texts, indexes, misses, generation, flight, memo, publication, counters>>

Insert(t) ==
    /\ look[t].pc = "insert"
    /\ uriClasses' = [uriClasses EXCEPT ![look[t].file] = look[t].text]
    /\ Goto(t, "declare")
    /\ UNCHANGED <<texts, declared, owner, misses, generation, flight, memo, publication,
                   counters>>

Declare(t) ==
    /\ look[t].pc = "declare"
    /\ Redeclare(look[t].file, look[t].old, look[t].text)
    /\ Goto(t, "uncache")
    /\ UNCHANGED <<texts, uriClasses, misses, generation, flight, memo, publication, counters>>

Uncache(t) ==
    /\ look[t].pc = "uncache"
    /\ misses' = misses \ look[t].text
    /\ Goto(t, "bump")
    /\ UNCHANGED <<texts, indexes, generation, flight, memo, publication, counters>>

Bump(t) ==
    /\ look[t].pc = "bump"
    /\ generation' = generation + 1
    /\ Goto(t, "release")
    /\ UNCHANGED <<texts, indexes, misses, flight, memo, publication, counters>>

Release(t) ==
    /\ look[t].pc = "release"
    /\ flight' = [flight EXCEPT ![look[t].file] = NoThread]
    /\ LET l == look[t]
       IN  IF l.class \in l.text THEN Answer(t, l.file)
           ELSE Goto(t, After(l.phase)) /\ UNCHANGED memo
    /\ UNCHANGED <<texts, indexes, misses, generation, publication, counters>>

----------------------------------------------------------------------------
(* Publications, one at a time.                                            *)

Change(f, text, pc) ==
    /\ publication.pc = "idle" /\ changes < MaxChanges
    /\ changes' = changes + 1
    /\ publication' = [Quiet EXCEPT !.pc = pc, !.file = f, !.text = text]
    /\ UNCHANGED <<uriClasses, declared, misses, generation, flight, look, memo, lookups,
                   panics, gaveUp, crossed>>

\* didOpen and didChange publish the buffer; didClose, the file on disk.
Open(f) ==
    /\ buffer[f] = NoText
    /\ Change(f, disk[f], "old")
    /\ buffer' = [buffer EXCEPT ![f] = disk[f]]
    /\ UNCHANGED <<disk, owner>>
Edit(f, text) ==
    /\ buffer[f] # NoText
    /\ Change(f, text, "old")
    /\ buffer' = [buffer EXCEPT ![f] = text]
    /\ UNCHANGED <<disk, owner>>
Close(f) ==
    /\ buffer[f] # NoText
    /\ Change(f, disk[f], "old")
    /\ buffer' = [buffer EXCEPT ![f] = NoText]
    /\ UNCHANGED <<disk, owner>>

\* A parsed file that is not open changes on disk: the watcher withdraws
\* what it declared and scans it.  A completed workspace index has it parsed
\* again before the misses are cleared.
Watch(f, text) ==
    /\ buffer[f] = NoText /\ uriClasses[f] # NoText /\ text # disk[f]
    /\ Change(f, text, "withdraw")
    /\ disk' = [disk EXCEPT ![f] = text]
    /\ UNCHANGED <<buffer, owner>>

\* note_discovered: a scan claims that a file declares a class; a parsed
\* declaration keeps its entry.  The scan then clears every miss.
Discover(c, f) ==
    /\ c \in disk[f]
    /\ Change(0, Class, "uncache")
    /\ owner' = [owner EXCEPT ![c] = IF declared[c] = {} THEN f ELSE @]
    /\ UNCHANGED texts

Save(f) ==
    /\ buffer[f] # NoText /\ disk[f] # buffer[f]
    /\ disk' = [disk EXCEPT ![f] = buffer[f]]
    /\ UNCHANGED <<buffer, indexes, misses, generation, flight, look, memo, publication,
                   counters>>

\* The batch of the watcher: the declarations go, the lookups are told, the
\* classes of the file go, and the classes a scan finds are noted.
PubWithdraw ==
    LET f == publication.file
    IN  /\ publication.pc = "withdraw"
        /\ publication' = [publication EXCEPT !.pc = "retire",
               !.clears = publication.text # {} \/ \E c \in Class : owner[c] = f]
        /\ Redeclare(f, Class, {})
        /\ UNCHANGED <<texts, uriClasses, misses, generation, flight, look, memo, counters>>
PubRetire ==
    /\ publication.pc = "retire"
    /\ generation' = generation + 1
    /\ publication' = [publication EXCEPT !.pc = "forget"]
    /\ UNCHANGED <<texts, indexes, misses, flight, look, memo, counters>>
PubForget ==
    LET f == publication.file
    IN  /\ publication.pc = "forget"
        /\ uriClasses' = [uriClasses EXCEPT ![f] = NoText]
        /\ crossed' = (crossed \/ \E t \in Thread : look[t].file = f)
        /\ publication' = [publication EXCEPT !.pc = "scan"]
        /\ UNCHANGED <<texts, declared, owner, misses, generation, flight, look, memo,
                       lookups, changes, panics, gaveUp>>
Cleared == IF publication.clears THEN [Quiet EXCEPT !.pc = "uncache", !.text = Class] ELSE Quiet
PubScan ==
    LET f == publication.file
    IN  /\ publication.pc = "scan"
        /\ owner' = [c \in Class |-> IF c \in publication.text /\ declared[c] = {} THEN f
                                    ELSE owner[c]]
        /\ publication' \in {[publication EXCEPT !.pc = "old"], Cleared}
        /\ UNCHANGED <<texts, uriClasses, declared, misses, generation, flight, look, memo,
                       counters>>

PubRecall ==
    /\ publication.pc = "old"
    /\ publication' = [publication EXCEPT !.pc = "declare", !.old = Previous(publication.file)]
    /\ UNCHANGED <<texts, indexes, misses, generation, flight, look, memo, counters>>

PubDeclare ==
    /\ publication.pc = "declare"
    /\ Redeclare(publication.file, publication.old, publication.text)
    /\ publication' = [publication EXCEPT !.pc = "uncache"]
    /\ UNCHANGED <<texts, uriClasses, misses, generation, flight, look, memo, counters>>

PubUncache ==
    /\ publication.pc = "uncache"
    /\ misses' = misses \ publication.text
    /\ publication' = [publication EXCEPT !.pc = "bump"]
    /\ UNCHANGED <<texts, indexes, generation, flight, look, memo, counters>>

PubBump ==
    /\ publication.pc = "bump"
    /\ generation' = generation + 1
    /\ publication' = IF publication.file = 0 THEN Quiet
                      ELSE [publication EXCEPT !.pc = "insert"]
    /\ UNCHANGED <<texts, indexes, misses, flight, look, memo, counters>>

PubInsert ==
    /\ publication.pc = "insert"
    /\ uriClasses' = [uriClasses EXCEPT ![publication.file] = publication.text]
    /\ publication' = Cleared
    /\ UNCHANGED <<texts, declared, owner, misses, generation, flight, look, memo, counters>>

----------------------------------------------------------------------------
Parsing(t) == Read(t) \/ Recall(t) \/ Insert(t) \/ Declare(t) \/ Uncache(t) \/ Bump(t)
                \/ Release(t)
Searching(t) == Negative(t) \/ Declared(t) \/ Indexed(t) \/ ByName(t) \/ Miss(t)
                  \/ Claim(t) \/ Released(t) \/ Joined(t)
Publishing == PubWithdraw \/ PubRetire \/ PubForget \/ PubScan \/ PubRecall \/ PubDeclare
                \/ PubUncache \/ PubBump \/ PubInsert

Next ==
    \/ \E t \in Thread :
          \/ (\E c \in Class : Begin(t, c))
          \/ Searching(t) \/ Parsing(t) \/ GiveUp(t) \/ Panic(t)
    \/ \E f \in File :
          \/ Open(f) \/ Close(f) \/ Save(f)
          \/ (\E x \in Text : Edit(f, x) \/ Watch(f, x))
          \/ (\E c \in Class : Discover(c, f))
    \/ Publishing

\* A thread that is not blocked runs; nothing counts on the escape hatch.
Fairness == WF_vars(Publishing) /\ \A t \in Thread : WF_vars(Searching(t) \/ Parsing(t))

Spec == Init /\ [][Next]_vars /\ Fairness

----------------------------------------------------------------------------
(* Properties.                                                             *)

Parses(t, f) ==
    /\ look[t].file = f
    /\ look[t].pc \in {"read", "old", "insert", "declare", "uncache", "bump", "release"}

\* Every variable keeps its shape, and a file is claimed by the thread that
\* is between its claim and its release.
TypeOK ==
    /\ disk \in [File -> Text] /\ buffer \in [File -> Text \cup {NoText}]
    /\ uriClasses \in [File -> Text \cup {NoText}]
    /\ declared \in [Class -> SUBSET File] /\ owner \in [Class -> File \cup {0}]
    /\ misses \subseteq Class /\ generation \in Nat
    /\ flight \in [File -> Thread \cup {NoThread}]
    /\ \A t \in Thread, f \in File : flight[f] = t <=> Parses(t, f)

\* Between the first write to the indexes and the bump that tells.
Untold ==
    \/ publication.pc \in {"retire", "uncache", "bump"}
    \/ \E t \in Thread : look[t].pc \in {"declare", "uncache", "bump"}

\* A memoised answer that would be served is what the indexes and the miss
\* cache hold, however parses and publications ran since the lookup began
\* (symbol_index.rs:209-217), but for an odd one.
MemoMatches ==
    ~Untold => \A t \in Thread, c \in Class :
        Memoised(t, c) /\ ~memo[t][c].odd => Holds(c, memo[t][c].file)

\* A class that its file declares in every text it ever has is never
\* recorded as missing, unless a waiter gave up, a parse panicked, or the
\* watcher dropped the classes of a file that was being parsed: no thread
\* concludes from a parse that is not over (inflight.rs:12-20).
Stable == {c \in Class : Psr4[c] # 0 /\ \A x \in Text : c \in x}
NoPoisonedMiss == gaveUp = 0 /\ panics = 0 /\ ~crossed => misses \cap Stable = {}

\* Every lookup returns, and needs no escape hatch for it, also when the
\* parse it waits for panics (inflight.rs:18-20).
LookupsReturn == \A t \in Thread : look[t].pc # "idle" ~> look[t].pc = "idle"

\* The claims taken and waited for are those of ParseClaims.
CallerOf(t) ==
    IF look[t].pc = "wait" THEN [role |-> "joiner", file |-> look[t].file]
    ELSE IF \E f \in File : Parses(t, f) THEN [role |-> "owner", file |-> look[t].file]
    ELSE [role |-> "away"]
Claims == INSTANCE ParseClaims WITH owner <- flight,
                                    caller <- [t \in Thread |-> CallerOf(t)]
ImplementsClaims == Claims!Spec

Settled == publication.pc = "idle" /\ \A t \in Thread : look[t].pc = "idle"

\* Once everything rests, a recorded miss is not declared.
MissesAreTrue == Settled => \A c \in misses : declared[c] = {}
=============================================================================
