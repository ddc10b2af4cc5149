-------------------------- MODULE DocumentRequests --------------------------
(***************************************************************************)
(* One document and the whole-file requests about it: the notifications of *)
(* src/src/backend/documents.rs, the background parses they start, and the *)
(* requests of src/src/backend/requests.rs that read the symbol map those  *)
(* parses publish.                                                         *)
(*                                                                         *)
(* A text is one of a few and has a length, as that is all the code asks   *)
(* of a map and a buffer to match.  Notifications are handled one after    *)
(* the other; parses and scans run on blocking threads.  Diagnostics,      *)
(* templates and resource documents are left out.                          *)
(***************************************************************************)
EXTENDS Naturals

CONSTANTS
    Text, NoText,
    Length,         \* [Text -> Nat]: the length of a text
    Broken,         \* texts the parser panics on
    Request, NoRequest,
    MaxEdits, MaxCloses, MaxWrites  \* bounds

ASSUME DocumentAssumption ==
    /\ Broken \subseteq Text /\ NoText \notin Text
    /\ Length \in [Text -> Nat] /\ NoRequest \notin Request

VARIABLES
    workspace,      \* is the file covered by the workspace index?
    disk,           \* the text on disk
    buffer,         \* open_files: the text in the editor
    map,            \* the text the published symbol map was built from
    jobs,           \* handlers and background parses under way
    request,        \* the handler of each request
    scan,           \* the computation of each request
    latest,         \* WholeFileCoalesce: the latest request
    last,           \* WholeFileCoalesce: the text the last result is about
    edits, closes, writes,
    odd             \* history: the map was published over a newer text, or
                    \* dropped from an open file, and no parse lock keeps
                    \* the newer text for later

counters == <<edits, closes, writes>>
vars == <<workspace, disk, buffer, map, jobs, request, scan, latest, last, counters, odd>>

NoScan  == [pc |-> "off", content |-> NoText, checked |-> NoText, moved |-> FALSE,
            seen |-> NoText, result |-> "none"]
Arrived == [pc |-> "new", lock |-> 0]

\* get_file_content: the buffer if the file is open, else the file on disk.
IsOpen == buffer # NoText
Reads  == IF IsOpen THEN buffer ELSE disk

Init ==
    /\ workspace \in BOOLEAN
    /\ disk \in Text \cup {NoText} /\ buffer = NoText
    /\ map \in {NoText} \cup IF workspace THEN {disk} \ Broken ELSE {}
    /\ jobs = {}
    /\ request = [r \in Request |-> Arrived] /\ scan = [r \in Request |-> NoScan]
    /\ latest = NoRequest /\ last = NoText
    /\ edits = 0 /\ closes = 0 /\ writes = 0 /\ odd = FALSE

----------------------------------------------------------------------------
(* Publishing a map.                                                       *)

\* What a scan asks of the identity of the map it checked is whether another
\* took its place meanwhile.
Moved == [r \in Request |-> [scan[r] EXCEPT !.moved = @ \/ scan[r].pc \in {"read", "recheck"}]]
Replace(text) == map' = text /\ scan' = Moved

\* update_ast: a parser panic keeps the map there is.  `guarded' tells that a
\* newer text has a parse of its own waiting behind this one.
Publish(text, guarded) ==
    IF text \in Broken THEN UNCHANGED <<map, scan, odd>>
    ELSE /\ Replace(text)
         /\ odd' = (text # Reads /\ ~guarded)

----------------------------------------------------------------------------
(* Notifications.  A handler that parses keeps the others waiting.         *)

Serving == \E j \in jobs : j.kind = "open"
Spawn(kind, pc, text) ==
    [kind |-> kind, pc |-> pc, text |-> text, lock |-> 0, latest |-> TRUE]

\* A job holds the buffer it parses; another buffer, or none, makes it stale.
Stale == {[j EXCEPT !.latest = FALSE] : j \in jobs}

Open(t) ==
    /\ ~IsOpen /\ ~Serving /\ closes < MaxCloses
    /\ disk # NoText => t = disk
    /\ buffer' = t
    /\ jobs' = Stale \cup {Spawn("open", "commit", t)}
    /\ UNCHANGED <<workspace, disk, map, request, scan, latest, last, counters, odd>>

Edit(t) ==
    /\ IsOpen /\ ~Serving /\ edits < MaxEdits /\ t # buffer
    /\ edits' = edits + 1
    /\ buffer' = t
    /\ jobs' = Stale \cup {Spawn("change", "lock", t)}
    /\ UNCHANGED <<workspace, disk, map, request, scan, latest, last, closes, writes, odd>>

\* The parse lock and the coalescing state go with the buffer: `closes'
\* numbers the locks.  A file outside the index is forgotten at once.
Close ==
    /\ IsOpen /\ ~Serving
    /\ closes' = closes + 1
    /\ buffer' = NoText
    /\ latest' = NoRequest /\ last' = NoText
    /\ IF workspace
       THEN jobs' = Stale \cup {Spawn("close", "check", NoText)}
            /\ UNCHANGED <<map, scan>>
       ELSE jobs' = Stale /\ Replace(NoText)
    /\ UNCHANGED <<workspace, disk, request, edits, writes, odd>>

\* The file is written by the editor or behind its back, and the watcher's
\* batch is told of it.
Write(t) ==
    /\ writes < MaxWrites /\ t # disk
    /\ IF IsOpen THEN t = buffer ELSE workspace
    /\ disk' = t /\ writes' = writes + 1
    /\ jobs' = IF workspace THEN jobs \cup {Spawn("batch", "told", NoText)}
               ELSE jobs
    /\ UNCHANGED <<workspace, buffer, map, request, scan, latest, last, edits, closes, odd>>

----------------------------------------------------------------------------
(* Background parses.                                                      *)

Becomes(j, k) == jobs' = (jobs \ {j}) \cup {k}
Ends(j)       == jobs' = jobs \ {j}

\* did_change looks its parse lock up, takes it, and goes on if its buffer is
\* the current one.
TakeLockEntry(j) ==
    /\ j.kind = "change" /\ j.pc = "lock"
    /\ Becomes(j, [j EXCEPT !.pc = "wait", !.lock = closes])
    /\ UNCHANGED <<workspace, disk, buffer, map, request, scan, latest, last, counters, odd>>

\* Mutants: no lock; no look at the buffer.
LockFreeAlways(j) == TRUE
IsLatestAlways(j) == TRUE

LockFree(j) == \A k \in jobs : ~(k.kind = "change" /\ k.pc = "commit" /\ k.lock = j.lock)
IsLatest(j) == j.latest
Lock(j) ==
    /\ j.kind = "change" /\ j.pc = "wait" /\ LockFree(j)
    /\ IF IsLatest(j) THEN Becomes(j, [j EXCEPT !.pc = "commit"]) ELSE Ends(j)
    /\ UNCHANGED <<workspace, disk, buffer, map, request, scan, latest, last, counters, odd>>

\* A batch leaves a file alone that is open or was never parsed; of another
\* it drops the map first and then parses the file again.
Told(j) ==
    /\ j.kind = "batch" /\ j.pc = "told"
    /\ \/ (IsOpen \/ map = NoText) /\ Ends(j)
       \/ ~IsOpen /\ Becomes(j, [j EXCEPT !.pc = "forget"])
    /\ UNCHANGED <<workspace, disk, buffer, map, request, scan, latest, last, counters, odd>>
Forget(j) ==
    /\ j.kind = "batch" /\ j.pc = "forget"
    /\ Replace(NoText) /\ odd' = IsOpen
    /\ Becomes(j, [j EXCEPT !.pc = "read"])
    /\ UNCHANGED <<workspace, disk, buffer, request, latest, last, counters>>

\* did_close parses the file on disk unless it was reopened; a batch parses
\* first and drops what is open by then.
Check(j) ==
    /\ j.kind \in {"close", "batch"} /\ j.pc = "check"
    /\ IF IsOpen THEN Ends(j)
       ELSE Becomes(j, [j EXCEPT !.pc = IF j.kind = "close" THEN "read" ELSE "commit"])
    /\ UNCHANGED <<workspace, disk, buffer, map, request, scan, latest, last, counters, odd>>
Read(j) ==
    /\ j.kind \in {"close", "batch"} /\ j.pc = "read"
    /\ Becomes(j, [j EXCEPT !.text = disk, !.pc = IF j.kind = "close" THEN "commit" ELSE "check"])
    /\ UNCHANGED <<workspace, disk, buffer, map, request, scan, latest, last, counters, odd>>

\* A closed file that is not on disk is forgotten.
Commit(j) ==
    /\ j.pc = "commit"
    /\ IF j.text = NoText THEN Replace(NoText) /\ odd' = (Reads # NoText)
       ELSE Publish(j.text, j.kind = "change" /\ IsOpen /\ j.lock = closes)
    /\ Ends(j)
    /\ UNCHANGED <<workspace, disk, buffer, request, latest, last, counters>>

----------------------------------------------------------------------------
(* coalesced_whole_file.                                                   *)

\* The request is stamped, then looks the key's lock up.
Stamp(r) ==
    /\ request[r].pc = "new"
    /\ request' = [request EXCEPT ![r].pc = "key"]
    /\ latest' = r
    /\ UNCHANGED <<workspace, disk, buffer, map, jobs, scan, last, counters, odd>>
KeyLock(r) ==
    /\ request[r].pc = "key"
    /\ request' = [request EXCEPT ![r] = [pc |-> "wait", lock |-> closes]]
    /\ UNCHANGED <<workspace, disk, buffer, map, jobs, scan, latest, last, counters, odd>>

\* Mutant: the key lock is not taken.
KeyLockFreeAlways(r) == TRUE

\* A superseded request is answered with the last result.
KeyLockFree(r) ==
    \A q \in Request : ~(request[q].pc = "scan" /\ request[q].lock = request[r].lock)
Enter(r) ==
    /\ request[r].pc = "wait" /\ KeyLockFree(r)
    /\ IF latest = r
       THEN /\ request' = [request EXCEPT ![r].pc = "scan"]
            /\ scan' = [scan EXCEPT ![r].pc = "first"]
       ELSE request' = [request EXCEPT ![r].pc = "done"] /\ UNCHANGED scan
    /\ UNCHANGED <<workspace, disk, buffer, map, jobs, latest, last, counters, odd>>

Finish(r) ==
    /\ request[r].pc = "scan" /\ scan[r].pc = "end"
    /\ request' = [request EXCEPT ![r].pc = "done"]
    /\ last' = IF scan[r].result = "ok" THEN scan[r].content ELSE last
    /\ scan' = [scan EXCEPT ![r] = NoScan]
    /\ UNCHANGED <<workspace, disk, buffer, map, jobs, latest, counters, odd>>

\* $/cancelRequest drops the handler and with it the slot; what runs on a
\* blocking thread runs on.
Cancel(r) ==
    /\ request[r].pc \in {"wait", "scan"}
    /\ request' = [request EXCEPT ![r].pc = "cancelled"]
    /\ UNCHANGED <<workspace, disk, buffer, map, jobs, scan, latest, last, counters, odd>>

----------------------------------------------------------------------------
(* The scan: with_file_content around with_current_symbol_map.             *)

Result(r, result) ==
    scan' = [scan EXCEPT ![r].pc = "end", ![r].moved = FALSE, ![r].result = result]

\* A file without a map is parsed first.
First(r) ==
    /\ scan[r].pc = "first"
    /\ IF map # NoText THEN scan' = [scan EXCEPT ![r].pc = "content"]
       ELSE IF Reads = NoText THEN Result(r, "none")
       ELSE scan' = [scan EXCEPT ![r].pc = "publish", ![r].content = Reads]
    /\ UNCHANGED <<workspace, disk, buffer, map, jobs, request, latest, last, counters, odd>>
PublishFirst(r) ==
    /\ scan[r].pc = "publish"
    /\ LET text == scan[r].content
       IN  IF text \in Broken
           THEN scan' = [scan EXCEPT ![r].pc = "content"] /\ UNCHANGED <<map, odd>>
           ELSE /\ map' = text /\ odd' = (text # Reads)
                /\ scan' = [Moved EXCEPT ![r].pc = "content"]
    /\ UNCHANGED <<workspace, disk, buffer, jobs, request, latest, last, counters>>
Content(r) ==
    /\ scan[r].pc = "content"
    /\ IF Reads = NoText THEN Result(r, "none")
       ELSE scan' = [scan EXCEPT ![r].pc = "check", ![r].content = Reads]
    /\ UNCHANGED <<workspace, disk, buffer, map, jobs, request, latest, last, counters, odd>>

Matches(m, text) == m # NoText /\ Length[m] = Length[text]
CheckMap(r) ==
    /\ scan[r].pc = "check"
    /\ IF map # NoText /\ ~Matches(map, scan[r].content) THEN Result(r, "modified")
       ELSE scan' = [scan EXCEPT ![r].pc = "read", ![r].checked = map, ![r].moved = FALSE]
    /\ UNCHANGED <<workspace, disk, buffer, map, jobs, request, latest, last, counters, odd>>

\* The handler reads the map at some moment of its own.
ReadMap(r) ==
    /\ scan[r].pc = "read"
    /\ scan' = [scan EXCEPT ![r].pc = "recheck", ![r].seen = map]
    /\ UNCHANGED <<workspace, disk, buffer, map, jobs, request, latest, last, counters, odd>>

\* Mutant: the texts are compared again instead of the maps.
UnchangedByText(r) == map = NoText \/ Matches(map, scan[r].content)

Unchanged(r) == IF scan[r].checked = NoText THEN map = NoText ELSE ~scan[r].moved
Recheck(r) ==
    /\ scan[r].pc = "recheck"
    /\ Result(r, IF Unchanged(r) THEN "ok" ELSE "modified")
    /\ UNCHANGED <<workspace, disk, buffer, map, jobs, request, latest, last, counters, odd>>

----------------------------------------------------------------------------
Parsing(j) == TakeLockEntry(j) \/ Lock(j) \/ Told(j) \/ Forget(j) \/ Check(j) \/ Read(j) \/ Commit(j)
Scanning(r) ==
    First(r) \/ PublishFirst(r) \/ Content(r) \/ CheckMap(r) \/ ReadMap(r) \/ Recheck(r)
Answering(r) == KeyLock(r) \/ Enter(r) \/ Finish(r)

Next ==
    \/ \E t \in Text : Open(t) \/ Edit(t) \/ Write(t)
    \/ Close
    \/ \E j \in jobs : Parsing(j)
    \/ \E r \in Request : Stamp(r) \/ Answering(r) \/ Cancel(r) \/ Scanning(r)

Spec == Init /\ [][Next]_vars

----------------------------------------------------------------------------
(* Properties.                                                             *)

Scans(r) == scan[r].pc \notin {"off", "end"}

Texts    == Text \cup {NoText}
Job      == [kind : {"open", "change", "close", "batch"}, text : Texts, lock : Nat,
             pc : {"lock", "wait", "told", "forget", "check", "read", "commit"}, latest : BOOLEAN]
Handler  == [pc : {"new", "key", "wait", "scan", "done", "cancelled"}, lock : Nat]
ScanType == [pc : {"off", "first", "publish", "content", "check", "read", "recheck", "end"},
             content : Texts, checked : Texts, seen : Texts, moved : BOOLEAN,
             result : {"none", "ok", "modified"}]

OneParse == \A j, k \in jobs :
    /\ j.pc = "commit" /\ k.pc = "commit"
    /\ j.kind = k.kind /\ j.kind \in {"open", "change"} /\ j.lock = k.lock
    => j = k

\* Every variable keeps its shape, one handler parses at a time, and one
\* parse at a time goes on behind each parse lock.
TypeOK ==
    /\ workspace \in BOOLEAN /\ odd \in BOOLEAN
    /\ disk \in Texts /\ buffer \in Texts /\ map \in Texts \ Broken /\ last \in Texts
    /\ latest \in Request \cup {NoRequest}
    /\ edits \in Nat /\ closes \in Nat /\ writes \in Nat
    /\ jobs \subseteq Job
    /\ request \in [Request -> Handler] /\ scan \in [Request -> ScanType]
    /\ OneParse

\* Once every parse is over, the map is of the buffer, or of the file on disk
\* when it is closed, in whatever order parses, edits and closes ran
\* (documents.rs:194-200, :269-271), but for a parse that committed its text
\* over a newer one which no parse lock kept for later, and a batch that
\* dropped the map of a file opened since.
Settled == jobs = {} /\ \A r \in Request : ~Scans(r)
RestIsLatest ==
    Settled /\ ~odd /\ Reads \notin Broken =>
        IF IsOpen THEN map = buffer ELSE workspace /\ map # NoText => map = disk

\* An answer made from a map that was checked is made from a map that fits
\* the text it answers for, whatever was published meanwhile
\* (requests.rs:225-237, :256-259).
AnswersMatch ==
    \A r \in Request :
        scan[r].result = "ok" /\ scan[r].checked # NoText =>
            Matches(scan[r].seen, scan[r].content)

\* Two computations of one kind and file run at a time only when the client
\* cancelled the request of one, whose blocking thread outlives its slot, or
\* when a close took the slot away between them (requests.rs:274-278).
ScansExclude ==
    \A q, r \in Request : Scans(q) /\ Scans(r) /\ q # r =>
        \/ request[q].pc = "cancelled" \/ request[r].pc = "cancelled"
        \/ request[q].lock # request[r].lock
=============================================================================
