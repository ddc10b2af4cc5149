----------------------- MODULE DocumentRequestsProofs -----------------------
(***************************************************************************)
(* TypeOK, AnswersMatch, RestIsLatest and ScansExclude for every set of    *)
(* texts and requests and every number of edits, closes and writes.        *)
(*                                                                         *)
(* RestInv says who owes the map its text: while the file is open, the job *)
(* of its buffer; while it is closed, a job that reads the disk.  A parse  *)
(* behind the parse lock may still publish an older text, as the job of    *)
(* the buffer waits for that very lock.  AnswerInv says what a scan may    *)
(* count on between the check of its map and the second look at it.        *)
(***************************************************************************)
EXTENDS DocumentRequests, TLAPS

\* The job of the current buffer.
Fresh(j) == j.latest /\ j.kind \in {"change", "open"}
LatestOK == \A j \in jobs : Fresh(j) => IsOpen /\ j.text = buffer

LockOK == \A j \in jobs : j.kind = "change" =>
    /\ j.lock <= closes
    /\ j.pc = "commit" /\ j.lock = closes => IsOpen
    /\ j.latest /\ j.pc # "lock" => j.lock = closes
    /\ j.pc \in {"lock", "wait", "commit"}

\* A parse that goes on under the current lock with an older text has the
\* job of the buffer waiting behind it.
Waits(k) == k.kind = "change" /\ k.latest /\ k.pc \in {"lock", "wait"}
Outdated(j) == j.kind = "change" /\ j.pc = "commit" /\ j.lock = closes /\ j.text # buffer
WaiterOK == \A j \in jobs : Outdated(j) => \E k \in jobs : Waits(k)

OpenOwed ==
    IsOpen /\ buffer \notin Broken /\ ~odd => map = buffer \/ \E k \in jobs : Fresh(k)

\* A job that brings the text on disk to a closed file.
WillRead(k) ==
    /\ k.kind \in {"close", "batch"}
    /\ \/ k.text = disk \/ k.pc \in {"told", "forget", "read"}
       \/ k.kind = "close" /\ k.pc = "check"
ClosedOwed ==
    ~IsOpen /\ workspace /\ disk \notin Broken /\ ~odd =>
        map \in {NoText, disk} \/ \E k \in jobs : WillRead(k)

RestInv == LatestOK /\ LockOK /\ WaiterOK /\ OpenOwed /\ ClosedOwed

\* What the scan of r knows of the map it checked.
ScanOK(r) ==
    /\ scan[r].pc \in {"publish", "check", "read", "recheck"} => scan[r].content # NoText
    /\ scan[r].pc \in {"read", "recheck"} /\ scan[r].checked # NoText =>
          /\ Matches(scan[r].checked, scan[r].content)
          /\ scan[r].moved \/ map = scan[r].checked
    /\ scan[r].pc = "recheck" /\ scan[r].checked # NoText /\ ~scan[r].moved =>
          scan[r].seen = scan[r].checked
    /\ scan[r].result = "ok" => scan[r].pc = "end"
    /\ scan[r].result = "ok" /\ scan[r].checked # NoText =>
          Matches(scan[r].seen, scan[r].content)
AnswerInv == \A r \in Request :
    /\ ScanOK(r)
    /\ request[r].pc \in {"new", "key", "wait"} => scan[r] = NoScan

-----------------------------------------------------------------------------
(* Facts about the jobs.                                                   *)

\* Making the jobs stale changes nothing else of them.
LEMMA StaleJobs ==
  ASSUME jobs \subseteq Job
  PROVE  /\ Stale \subseteq Job
         /\ \A k \in Stale : ~k.latest /\ \E j \in jobs :
               k.kind = j.kind /\ k.pc = j.pc /\ k.text = j.text /\ k.lock = j.lock
         /\ \A j \in jobs : \E k \in Stale :
               k.kind = j.kind /\ k.pc = j.pc /\ k.text = j.text /\ k.lock = j.lock
<1>1. \A j \in jobs : LET k == [j EXCEPT !.latest = FALSE]
         IN  /\ k \in Job /\ ~k.latest /\ k.kind = j.kind /\ k.pc = j.pc
             /\ k.text = j.text /\ k.lock = j.lock
  BY DEF Job
<1> QED
  BY <1>1 DEF Stale

\* Stale jobs that parse are as few as the jobs they come from.
LEMMA StaleOneParse ==
  ASSUME jobs \subseteq Job, OneParse
  PROVE  \A j, k \in Stale :
            /\ j.pc = "commit" /\ k.pc = "commit"
            /\ j.kind = k.kind /\ j.kind \in {"open", "change"} /\ j.lock = k.lock
            => j = k
<1> DEFINE S(a) == [a EXCEPT !.latest = FALSE]
<1>1. ASSUME NEW a \in jobs
      PROVE  S(a).pc = a.pc /\ S(a).kind = a.kind /\ S(a).lock = a.lock
  BY DEF Job
<1>2. ASSUME NEW a \in jobs, NEW b \in jobs,
             a.pc = "commit", b.pc = "commit", a.kind = b.kind,
             a.kind \in {"open", "change"}, a.lock = b.lock
      PROVE  S(a) = S(b)
  <2>1. a = b
    BY <1>2 DEF OneParse
  <2> QED
    BY <2>1
<1>3. \A j \in Stale : \E a \in jobs : j = S(a)
  BY DEF Stale
<1> HIDE DEF S
<1> QED
  BY <1>1, <1>2, <1>3

\* A new job is a job.
LEMMA SpawnIsJob ==
  ASSUME NEW kind \in {"open", "change", "close", "batch"}, NEW text \in Texts,
         NEW pc \in {"lock", "told", "check", "read", "commit"}
  PROVE  Spawn(kind, pc, text) \in Job
  BY DEF Spawn, Job

LEMMA ReadsType == ASSUME TypeOK PROVE Reads \in Texts
  BY DEF TypeOK, Reads

\* Marking the scans that hold a map keeps their shape.
LEMMA MovedType ==
  ASSUME scan \in [Request -> ScanType]
  PROVE  /\ Moved \in [Request -> ScanType]
         /\ \A r \in Request :
              /\ Moved[r].pc = scan[r].pc /\ Moved[r].content = scan[r].content
              /\ Moved[r].checked = scan[r].checked /\ Moved[r].seen = scan[r].seen
              /\ Moved[r].result = scan[r].result
              /\ Moved[r].moved = (scan[r].moved \/ scan[r].pc \in {"read", "recheck"})
  BY DEF Moved, ScanType

LEMMA PublishType ==
  ASSUME TypeOK, NEW text \in Texts, NEW guarded \in BOOLEAN, Publish(text, guarded)
  PROVE  map' \in Texts \ Broken /\ scan' \in [Request -> ScanType] /\ odd' \in BOOLEAN
<1>1. CASE text \in Broken
  BY <1>1 DEF Publish, TypeOK
<1>2. CASE text \notin Broken
  <2>1. map' = text /\ scan' = Moved /\ odd' = (text # Reads /\ ~guarded)
    BY <1>2 DEF Publish, Replace
  <2> QED
    BY <2>1, <1>2, MovedType DEF TypeOK
<1> QED
  BY <1>1, <1>2
-----------------------------------------------------------------------------
(* Type correctness.                                                       *)

\* The part of TypeOK about jobs.
JobsOK == jobs \subseteq Job /\ OneParse

LEMMA SpawnStale ==
  ASSUME JobsOK, NEW k, k \in Job, k.pc # "commit", jobs' = Stale \cup {k}
  PROVE  JobsOK'
  BY StaleJobs, StaleOneParse DEF JobsOK, OneParse

LEMMA SpawnOpen ==
  ASSUME JobsOK, NEW k, k \in Job, ~Serving, k.kind = "open", jobs' = Stale \cup {k}
  PROVE  JobsOK'
<1>1. \A j \in Stale : j.kind # "open"
  BY StaleJobs DEF Serving, JobsOK
<1> QED
  BY <1>1, StaleJobs, StaleOneParse DEF JobsOK, OneParse

LEMMA SpawnBatch ==
  ASSUME JobsOK, NEW k, k \in Job, k.pc # "commit", jobs' = jobs \cup {k}
  PROVE  JobsOK'
  BY DEF JobsOK, OneParse

\* A step of one job.
LEMMA BecomeOne ==
  ASSUME JobsOK, NEW j \in jobs, NEW k \in Job, Becomes(j, k),
         k.kind # "open",
         k.kind = "change" /\ k.pc = "commit" => LockFree(k)
  PROVE  JobsOK'
<1>1. jobs' \subseteq Job
  BY DEF JobsOK, Becomes
<1>2. ASSUME NEW a \in jobs', NEW b \in jobs',
             a.pc = "commit", b.pc = "commit", a.kind = b.kind,
             a.kind \in {"open", "change"}, a.lock = b.lock
      PROVE  a = b
  <2>1. CASE a \in jobs /\ b \in jobs
    BY <2>1, <1>2 DEF JobsOK, OneParse
  <2>2. CASE a = k /\ b \in jobs
    BY <2>2, <1>2 DEF LockFree
  <2>3. CASE b = k /\ a \in jobs
    BY <2>3, <1>2 DEF LockFree
  <2> QED
    BY <2>1, <2>2, <2>3 DEF Becomes
<1> QED
  BY <1>1, <1>2 DEF JobsOK, OneParse

LEMMA EndOne ==
  ASSUME JobsOK, NEW j \in jobs, Ends(j)
  PROVE  JobsOK'
  BY DEF JobsOK, OneParse, Ends

LEMMA InitType == ASSUME DocumentAssumption, Init PROVE TypeOK
<1>1. map \in Texts \ Broken
  BY DEF Init, Texts, DocumentAssumption
<1>2. request \in [Request -> Handler]
  BY DEF Init, Arrived, Handler
<1>3. scan \in [Request -> ScanType]
  BY DEF Init, NoScan, ScanType, Texts
<1> QED
  BY <1>1, <1>2, <1>3 DEF Init, TypeOK, Texts, OneParse

\* The notifications.
LEMMA NotifyType ==
  ASSUME DocumentAssumption, TypeOK, (\E t \in Text : Open(t) \/ Edit(t) \/ Write(t)) \/ Close
  PROVE  TypeOK'
<1>0. JobsOK /\ Text \subseteq Texts /\ NoText \in Texts
  BY DEF TypeOK, JobsOK, Texts
<1>1. ASSUME NEW t \in Text, Open(t) PROVE TypeOK'
  <2>1. JobsOK'
    <3>1. Spawn("open", "commit", t) \in Job /\ Spawn("open", "commit", t).kind = "open"
      BY <1>0, SpawnIsJob DEF Spawn
    <3>2. jobs' = Stale \cup {Spawn("open", "commit", t)} /\ ~Serving
      BY <1>1 DEF Open
    <3> QED
      BY <3>1, <3>2, <1>0, SpawnOpen
  <2> QED
    BY <2>1, <1>0, <1>1 DEF Open, TypeOK, JobsOK, counters
<1>2. ASSUME NEW t \in Text, Edit(t) PROVE TypeOK'
  <2>1. JobsOK'
    <3>1. Spawn("change", "lock", t) \in Job /\ Spawn("change", "lock", t).pc # "commit"
      BY <1>0, SpawnIsJob DEF Spawn
    <3>2. jobs' = Stale \cup {Spawn("change", "lock", t)}
      BY <1>2 DEF Edit
    <3> QED
      BY <3>1, <3>2, <1>0, SpawnStale
  <2> QED
    BY <2>1, <1>0, <1>2 DEF Edit, TypeOK, JobsOK
<1>3. ASSUME NEW t \in Text, Write(t) PROVE TypeOK'
  <2>1. JobsOK'
    <3>1. Spawn("batch", "told", NoText) \in Job /\ Spawn("batch", "told", NoText).pc # "commit"
      BY <1>0, SpawnIsJob DEF Spawn
    <3>2. CASE workspace
      <4>1. jobs' = jobs \cup {Spawn("batch", "told", NoText)}
        BY <3>2, <1>3 DEF Write
      <4> QED
        BY <3>1, <4>1, <1>0, SpawnBatch
    <3>3. CASE ~workspace
      BY <3>3, <1>0, <1>3 DEF Write, JobsOK, OneParse
    <3> QED
      BY <3>2, <3>3
  <2> QED
    BY <2>1, <1>0, <1>3 DEF Write, TypeOK, JobsOK
<1>4. CASE Close
  <2>1. CASE workspace
    <3>1. Spawn("close", "check", NoText) \in Job /\ Spawn("close", "check", NoText).pc # "commit"
      BY <1>0, SpawnIsJob DEF Spawn
    <3>2. JobsOK'
      <4>1. jobs' = Stale \cup {Spawn("close", "check", NoText)}
        BY <2>1, <1>4 DEF Close
      <4> QED
        BY <3>1, <4>1, <1>0, SpawnStale
    <3> QED
      BY <2>1, <3>2, <1>0, <1>4 DEF Close, TypeOK, JobsOK
  <2>2. CASE ~workspace
    <3>1. JobsOK'
      BY <2>2, <1>0, <1>4, StaleJobs, StaleOneParse DEF Close, JobsOK, OneParse
    <3>2. map' \in Texts \ Broken /\ scan' \in [Request -> ScanType]
      BY <2>2, <1>0, <1>4, MovedType DEF Close, Replace, TypeOK, DocumentAssumption
    <3> QED
      BY <3>1, <3>2, <1>0, <1>4 DEF Close, TypeOK, JobsOK
  <2> QED
    BY <2>1, <2>2
<1> QED
  BY <1>1, <1>2, <1>3, <1>4

\* The background parses.
LEMMA ParseType ==
  ASSUME DocumentAssumption, TypeOK, NEW j \in jobs, Parsing(j)
  PROVE  TypeOK'
<1>0. JobsOK /\ j \in Job
  BY DEF TypeOK, JobsOK
<1>1. CASE TakeLockEntry(j)
  <2> DEFINE k == [j EXCEPT !.pc = "wait", !.lock = closes]
  <2>1. k \in Job /\ k.kind = "change" /\ k.pc = "wait"
    BY <1>0, <1>1 DEF TakeLockEntry, Job, TypeOK
  <2>2. JobsOK'
    BY <2>1, <1>0, <1>1, BecomeOne DEF TakeLockEntry
  <2> QED
    BY <2>2, <1>1 DEF TakeLockEntry, TypeOK, JobsOK, counters
<1>2. CASE Lock(j)
  <2> DEFINE k == [j EXCEPT !.pc = "commit"]
  <2>1. k \in Job /\ k.kind = "change" /\ k.lock = j.lock
    BY <1>0, <1>2 DEF Lock, Job
  <2>2. LockFree(k)
    BY <2>1, <1>2 DEF Lock, LockFree
  <2>3. JobsOK'
    BY <2>1, <2>2, <1>0, <1>2, BecomeOne, EndOne DEF Lock
  <2> QED
    BY <2>3, <1>2 DEF Lock, TypeOK, JobsOK, counters
<1>3. CASE Check(j)
  <2> DEFINE k == [j EXCEPT !.pc = IF j.kind = "close" THEN "read" ELSE "commit"]
  <2>1. k \in Job /\ k.kind \in {"close", "batch"}
    BY <1>0, <1>3 DEF Check, Job
  <2>2. JobsOK'
    BY <2>1, <1>0, <1>3, BecomeOne, EndOne DEF Check
  <2> QED
    BY <2>2, <1>3 DEF Check, TypeOK, JobsOK, counters
<1>4. CASE Read(j)
  <2> DEFINE k == [j EXCEPT !.text = disk, !.pc = IF j.kind = "close" THEN "commit" ELSE "check"]
  <2>1. k \in Job /\ k.kind \in {"close", "batch"}
    BY <1>0, <1>4 DEF Read, Job, TypeOK
  <2>2. JobsOK'
    BY <2>1, <1>0, <1>4, BecomeOne DEF Read
  <2> QED
    BY <2>2, <1>4 DEF Read, TypeOK, JobsOK, counters
<1>5. CASE Commit(j)
  <2>1. JobsOK'
    BY <1>0, <1>5, EndOne DEF Commit
  <2>2. map' \in Texts \ Broken /\ scan' \in [Request -> ScanType] /\ odd' \in BOOLEAN
    <3>1. CASE j.text = NoText
      BY <3>1, <1>5, MovedType DEF Commit, Replace, TypeOK, Texts, DocumentAssumption
    <3>2. CASE j.text # NoText
      <4> DEFINE g == j.kind = "change" /\ IsOpen /\ j.lock = closes
      <4>1. j.text \in Texts /\ g \in BOOLEAN /\ Publish(j.text, g)
        BY <3>2, <1>0, <1>5 DEF Commit, Job
      <4> QED
        BY <4>1, PublishType
    <3> QED
      BY <3>1, <3>2
  <2> QED
    BY <2>1, <2>2, <1>5 DEF Commit, TypeOK, JobsOK, counters
<1>6. CASE Told(j)
  <2> DEFINE k == [j EXCEPT !.pc = "forget"]
  <2>1. k \in Job /\ k.kind = "batch"
    BY <1>0, <1>6 DEF Told, Job
  <2>2. JobsOK'
    BY <2>1, <1>0, <1>6, BecomeOne, EndOne DEF Told
  <2> QED
    BY <2>2, <1>6 DEF Told, TypeOK, JobsOK, counters
<1>7. CASE Forget(j)
  <2> DEFINE k == [j EXCEPT !.pc = "read"]
  <2>1. k \in Job /\ k.kind = "batch"
    BY <1>0, <1>7 DEF Forget, Job
  <2>2. JobsOK'
    BY <2>1, <1>0, <1>7, BecomeOne DEF Forget
  <2>3. map' \in Texts \ Broken /\ scan' \in [Request -> ScanType] /\ odd' \in BOOLEAN
    BY <1>7, MovedType DEF Forget, Replace, IsOpen, TypeOK, Texts, DocumentAssumption
  <2> QED
    BY <2>2, <2>3, <1>7 DEF Forget, TypeOK, JobsOK, counters
<1> QED
  BY <1>1, <1>2, <1>3, <1>4, <1>5, <1>6, <1>7 DEF Parsing

\* Every step of a request keeps the jobs.
LEMMA RequestType ==
  ASSUME DocumentAssumption, TypeOK, NEW r \in Request,
         Stamp(r) \/ Answering(r) \/ Cancel(r) \/ Scanning(r)
  PROVE  TypeOK'
<1>0. OneParse' <=> jobs' \subseteq Job /\ OneParse'
  <2>1. jobs' = jobs
    BY DEF Stamp, Answering, KeyLock, Enter, Finish, Cancel, Scanning, First, PublishFirst, Content,
           CheckMap, ReadMap, Recheck
  <2> QED
    BY <2>1 DEF TypeOK
<1>a. OneParse'
  <2>1. jobs' = jobs
    BY DEF Stamp, Answering, KeyLock, Enter, Finish, Cancel, Scanning, First, PublishFirst, Content,
           CheckMap, ReadMap, Recheck
  <2> QED
    BY <2>1 DEF TypeOK, OneParse
<1>b. Reads \in Texts /\ NoText \in Texts /\ Text \subseteq Texts
  BY ReadsType DEF Texts
<1>1. CASE Stamp(r) \/ KeyLock(r)
  <2>1. request' \in [Request -> Handler]
    BY <1>1 DEF Stamp, KeyLock, TypeOK, Handler
  <2> QED
    BY <1>0, <1>a, <2>1, <1>1 DEF Stamp, KeyLock, TypeOK, counters
<1>2. CASE Enter(r)
  <2>1. request' \in [Request -> Handler]
    BY <1>2 DEF Enter, TypeOK, Handler
  <2>1a. scan' \in [Request -> ScanType]
    <3>1. [scan EXCEPT ![r].pc = "first"] \in [Request -> ScanType]
      BY DEF TypeOK, ScanType
    <3> QED
      BY <3>1, <1>2 DEF Enter, TypeOK
  <2> QED
    BY <1>0, <1>a, <2>1, <2>1a, <1>2 DEF Enter, TypeOK, counters
<1>3. CASE Finish(r)
  <2>1. request' \in [Request -> Handler] /\ scan' \in [Request -> ScanType]
    BY <1>3, <1>b DEF Finish, TypeOK, Handler, ScanType, NoScan
  <2>2. last' \in Texts
    BY <1>3 DEF Finish, TypeOK, ScanType
  <2> QED
    BY <1>0, <1>a, <2>1, <2>2, <1>3 DEF Finish, TypeOK, counters
<1>4. CASE Cancel(r)
  <2>1. request' \in [Request -> Handler]
    BY <1>4 DEF Cancel, TypeOK, Handler
  <2> QED
    BY <1>0, <1>a, <2>1, <1>4 DEF Cancel, TypeOK, counters
<1>5. CASE First(r)
  <2>1. scan' \in [Request -> ScanType]
    BY <1>5, <1>b DEF First, Result, TypeOK, ScanType
  <2> QED
    BY <1>0, <1>a, <2>1, <1>5 DEF First, TypeOK, counters
<1>6. CASE PublishFirst(r)
  <2>1. scan[r].content \in Texts /\ Moved \in [Request -> ScanType]
    BY MovedType DEF TypeOK, ScanType
  <2>2. map' \in Texts \ Broken /\ odd' \in BOOLEAN
    BY <2>1, <1>6 DEF PublishFirst, TypeOK
  <2>3. scan' \in [Request -> ScanType]
    <3>1. [scan EXCEPT ![r].pc = "content"] \in [Request -> ScanType]
      BY DEF TypeOK, ScanType
    <3>2. [Moved EXCEPT ![r].pc = "content"] \in [Request -> ScanType]
      BY <2>1 DEF ScanType
    <3> QED
      BY <3>1, <3>2, <1>6 DEF PublishFirst
  <2> QED
    BY <1>0, <1>a, <2>2, <2>3, <1>6 DEF PublishFirst, TypeOK, counters
<1>7. CASE Content(r)
  <2>1. scan' \in [Request -> ScanType]
    BY <1>7, <1>b DEF Content, Result, TypeOK, ScanType
  <2> QED
    BY <1>0, <1>a, <2>1, <1>7 DEF Content, TypeOK, counters
<1>8. CASE CheckMap(r)
  <2>1. scan' \in [Request -> ScanType]
    BY <1>8 DEF CheckMap, Result, TypeOK, ScanType
  <2> QED
    BY <1>0, <1>a, <2>1, <1>8 DEF CheckMap, TypeOK, counters
<1>9. CASE ReadMap(r)
  <2>1. scan' \in [Request -> ScanType]
    <3>1. map \in Texts /\ scan[r] \in ScanType
      BY DEF TypeOK
    <3>2. [scan[r] EXCEPT !.pc = "recheck", !.seen = map] \in ScanType
      BY <3>1 DEF ScanType
    <3>3. scan' = [scan EXCEPT ![r] = [scan[r] EXCEPT !.pc = "recheck", !.seen = map]]
      BY <1>9 DEF ReadMap
    <3> QED
      BY <3>2, <3>3 DEF TypeOK
  <2> QED
    BY <1>0, <1>a, <2>1, <1>9 DEF ReadMap, TypeOK, counters
<1>10. CASE Recheck(r)
  <2>1. scan' \in [Request -> ScanType]
    <3>1. scan[r] \in ScanType
      BY DEF TypeOK
    <3>a. \A x \in {"ok", "modified"} :
             [scan[r] EXCEPT !.pc = "end", !.moved = FALSE, !.result = x] \in ScanType
      BY <3>1 DEF ScanType
    <3>2. PICK x \in {"ok", "modified"} : Result(r, x)
      <4>1. CASE Unchanged(r)
        BY <4>1, <1>10 DEF Recheck
      <4>2. CASE ~Unchanged(r)
        BY <4>2, <1>10 DEF Recheck
      <4> QED
        BY <4>1, <4>2
    <3>3. scan' = [scan EXCEPT ![r] = [scan[r] EXCEPT !.pc = "end", !.moved = FALSE, !.result = x]]
      BY <3>2 DEF Result
    <3> QED
      BY <3>a, <3>2, <3>3 DEF TypeOK
  <2> QED
    BY <1>0, <1>a, <2>1, <1>10 DEF Recheck, TypeOK, counters
<1> QED
  BY <1>1, <1>2, <1>3, <1>4, <1>5, <1>6, <1>7, <1>8, <1>9, <1>10 DEF Answering, Scanning

LEMMA TypeStep == ASSUME DocumentAssumption, TypeOK, [Next]_vars PROVE TypeOK'
<1>1. CASE UNCHANGED vars
  BY <1>1 DEF vars, counters, TypeOK, OneParse
<1> QED
  BY <1>1, NotifyType, ParseType, RequestType DEF Next

\* Every variable of the document and its requests keeps its type, and one
\* parse at a time goes on behind a parse lock.
THEOREM TypeCorrect == Spec => []TypeOK
<1> USE DocumentAssumption
<1>1. Init => TypeOK
  BY InitType
<1>2. TypeOK /\ [Next]_vars => TypeOK'
  BY TypeStep
<1> QED
  BY <1>1, <1>2, PTL DEF Spec

-----------------------------------------------------------------------------
(* Answers.                                                                *)

\* A published map moves every scan that holds one.
LEMMA MovedScan ==
  ASSUME TypeOK, NEW r \in Request, ScanOK(r), scan'[r] = Moved[r]
  PROVE  ScanOK(r)'
<1>1. /\ Moved[r].pc = scan[r].pc /\ Moved[r].content = scan[r].content
      /\ Moved[r].checked = scan[r].checked /\ Moved[r].seen = scan[r].seen
      /\ Moved[r].result = scan[r].result
      /\ scan[r].pc \in {"read", "recheck"} => Moved[r].moved
  BY MovedType DEF TypeOK
<1> QED
  BY <1>1 DEF ScanOK, Matches

LEMMA MovedNothing ==
  ASSUME NEW r \in Request, scan[r] = NoScan
  PROVE  Moved[r] = NoScan
<1>1. Moved[r] = [NoScan EXCEPT !.moved = @ \/ NoScan.pc \in {"read", "recheck"}]
  BY DEF Moved
<1> QED
  BY <1>1 DEF NoScan

\* A scan nobody touches, with the map it had.
LEMMA SameScan ==
  ASSUME NEW r \in Request, ScanOK(r), scan'[r] = scan[r], map' = map
  PROVE  ScanOK(r)'
  BY DEF ScanOK

\* A step that replaces the map, or leaves map and scans alone.
LEMMA MapStep ==
  ASSUME TypeOK, AnswerInv, request' = request,
         scan' = Moved \/ UNCHANGED <<scan, map>>
  PROVE  AnswerInv'
<1>1. CASE UNCHANGED <<scan, map>>
  BY <1>1 DEF AnswerInv, ScanOK, NoScan
<1>2. CASE scan' = Moved
  <2>1. ASSUME NEW r \in Request PROVE ScanOK(r)'
    BY <1>2, <2>1, MovedScan DEF AnswerInv
  <2>2. ASSUME NEW r \in Request, request'[r].pc \in {"new", "key", "wait"} PROVE scan'[r] = NoScan
    <3>1. scan[r] = NoScan
      BY <2>2 DEF AnswerInv
    <3> QED
      BY <3>1, <1>2, MovedNothing
  <2> QED
    BY <2>1, <2>2 DEF AnswerInv
<1> QED
  BY <1>1, <1>2

\* A step of the scan of r that keeps its handler where it is.
LEMMA OneScan ==
  ASSUME TypeOK, AnswerInv, NEW r \in Request, request' = request, map' = map,
         \A q \in Request \ {r} : scan'[q] = scan[q],
         scan[r].pc # "off", ScanOK(r)'
  PROVE  AnswerInv'
<1>1. request[r].pc \notin {"new", "key", "wait"}
  BY DEF AnswerInv, NoScan
<1>2. ASSUME NEW q \in Request PROVE ScanOK(q)'
  BY <1>2, SameScan DEF AnswerInv
<1> QED
  BY <1>1, <1>2 DEF AnswerInv

LEMMA ScanStep ==
  ASSUME DocumentAssumption, TypeOK, AnswerInv, NEW r \in Request, Scanning(r)
  PROVE  AnswerInv'
<1>0. ScanOK(r) /\ scan[r] \in ScanType /\ scan \in [Request -> ScanType]
  BY DEF AnswerInv, TypeOK
<1> DEFINE After(x) == [scan[r] EXCEPT !.pc = "end", !.moved = FALSE, !.result = x]
<1>a. ASSUME NEW x \in {"none", "ok", "modified"}, Result(r, x)
      PROVE  scan' = [scan EXCEPT ![r] = After(x)]
  BY <1>a, <1>0 DEF Result
<1>b. ASSUME NEW x \in {"none", "modified"}, Result(r, x), scan[r].pc # "end"
      PROVE  ScanOK(r)'
  <2>1. scan'[r].pc = "end" /\ scan'[r].result = x
    <3>1. scan' = [scan EXCEPT ![r] = After(x)]
      BY <1>a, <1>b
    <3>2. scan'[r] = After(x)
      BY <3>1, <1>0
    <3>3. After(x).pc = "end" /\ After(x).result = x
      BY <1>0 DEF ScanType
    <3> HIDE DEF After
    <3> QED
      BY <3>2, <3>3
  <2> QED
    BY <2>1, <1>b DEF ScanOK
<1>1. CASE First(r)
  <2>1. ScanOK(r)'
    <3>1. CASE map # NoText
      BY <3>1, <1>1, <1>0 DEF First, ScanOK, ScanType
    <3>2. CASE map = NoText /\ Reads = NoText
      BY <3>2, <1>1, <1>b DEF First
    <3>3. CASE map = NoText /\ Reads # NoText
      BY <3>3, <1>1, <1>0 DEF First, ScanOK, ScanType
    <3> QED
      BY <3>1, <3>2, <3>3
  <2> QED
    BY <2>1, <1>1, <1>0, OneScan DEF First, Result
<1>2. CASE PublishFirst(r)
  <2>1. CASE scan[r].content \in Broken
    <3>1. ScanOK(r)'
      BY <2>1, <1>2, <1>0 DEF PublishFirst, ScanOK, ScanType
    <3> QED
      BY <3>1, <2>1, <1>2, <1>0, OneScan DEF PublishFirst
  <2>2. CASE scan[r].content \notin Broken
    <3>0. /\ Moved \in [Request -> ScanType]
          /\ scan' = [Moved EXCEPT ![r].pc = "content"] /\ request' = request
      BY <2>2, <1>2, <1>0, MovedType DEF PublishFirst
    <3>1. ScanOK(r)'
      BY <3>0, <1>2, <1>0, MovedType DEF PublishFirst, ScanOK, ScanType
    <3>2. ASSUME NEW q \in Request, q # r
          PROVE  ScanOK(q)' /\ (request'[q].pc \in {"new", "key", "wait"} => scan'[q] = NoScan)
      <4>1. scan'[q] = Moved[q] /\ ScanOK(q)
        BY <3>0, <3>2 DEF AnswerInv
      <4>2. request[q].pc \in {"new", "key", "wait"} => Moved[q] = NoScan
        <5>1. request[q].pc \in {"new", "key", "wait"} => scan[q] = NoScan
          BY <3>2 DEF AnswerInv
        <5> QED
          BY <5>1, <3>2, MovedNothing
      <4>3. ScanOK(q)'
        BY <4>1, <3>2, MovedScan
      <4> QED
        BY <4>1, <4>2, <4>3, <3>0
    <3>3. request[r].pc \notin {"new", "key", "wait"}
      BY <1>2 DEF AnswerInv, NoScan, PublishFirst
    <3> QED
      BY <3>0, <3>1, <3>2, <3>3 DEF AnswerInv
  <2> QED
    BY <2>1, <2>2
<1>3. CASE Content(r)
  <2>1. ScanOK(r)'
    <3>1. CASE Reads = NoText
      BY <3>1, <1>3, <1>b DEF Content
    <3>2. CASE Reads # NoText
      BY <3>2, <1>3, <1>0 DEF Content, ScanOK, ScanType
    <3> QED
      BY <3>1, <3>2
  <2> QED
    BY <2>1, <1>3, <1>0, OneScan DEF Content, Result
<1>4. CASE CheckMap(r)
  <2>1. ScanOK(r)'
    <3>1. CASE map # NoText /\ ~Matches(map, scan[r].content)
      BY <3>1, <1>4, <1>b DEF CheckMap
    <3>2. CASE ~(map # NoText /\ ~Matches(map, scan[r].content))
      BY <3>2, <1>4, <1>0 DEF CheckMap, ScanOK, ScanType
    <3> QED
      BY <3>1, <3>2
  <2> QED
    BY <2>1, <1>4, <1>0, OneScan DEF CheckMap, Result
<1>5. CASE ReadMap(r)
  <2>1. ScanOK(r)'
    BY <1>5, <1>0 DEF ReadMap, ScanOK, ScanType
  <2> QED
    BY <2>1, <1>5, <1>0, OneScan DEF ReadMap
<1>6. CASE Recheck(r)
  <2>1. ScanOK(r)'
    <3>1. CASE ~Unchanged(r)
      BY <3>1, <1>6, <1>b DEF Recheck
    <3>2. CASE Unchanged(r)
      <4>1. scan' = [scan EXCEPT ![r] = After("ok")] /\ map' = map
        BY <3>2, <1>6, <1>a DEF Recheck
      <4>2. scan[r].checked # NoText => Matches(scan[r].seen, scan[r].content)
        BY <3>2, <1>6, <1>0 DEF Recheck, Unchanged, ScanOK
      <4> QED
        BY <4>1, <4>2, <1>0 DEF ScanOK, ScanType
    <3> QED
      BY <3>1, <3>2
  <2> QED
    BY <2>1, <1>6, <1>0, OneScan DEF Recheck, Result
<1> QED
  BY <1>1, <1>2, <1>3, <1>4, <1>5, <1>6 DEF Scanning

\* A handler starts its scan from nothing and takes its answer away with it.
LEMMA HandlerStep ==
  ASSUME DocumentAssumption, TypeOK, AnswerInv, NEW r \in Request,
         Stamp(r) \/ Answering(r) \/ Cancel(r)
  PROVE  AnswerInv'
<1>0. request \in [Request -> Handler] /\ scan \in [Request -> ScanType]
  BY DEF TypeOK
<1>1. CASE Stamp(r) \/ KeyLock(r) \/ Cancel(r)
  <2>1. scan' = scan /\ map' = map
    BY <1>1 DEF Stamp, KeyLock, Cancel
  <2>2. \A q \in Request : request'[q].pc \in {"new", "key", "wait"} => request[q].pc \in {"new", "key", "wait"}
    <3>1. CASE Stamp(r) \/ KeyLock(r)
      BY <1>0, <3>1 DEF Stamp, KeyLock, Handler
    <3>2. CASE Cancel(r)
      BY <1>0, <3>2 DEF Cancel, Handler
    <3> QED
      BY <1>1, <3>1, <3>2
  <2>3. ASSUME NEW q \in Request PROVE ScanOK(q)'
    BY <2>1, <2>3, SameScan DEF AnswerInv
  <2> QED
    BY <2>1, <2>2, <2>3 DEF AnswerInv
<1>2. CASE Enter(r)
  <2>0. scan[r] = NoScan /\ map' = map
    BY <1>2 DEF Enter, AnswerInv
  <2>1. CASE latest = r
    <3>1. scan' = [scan EXCEPT ![r].pc = "first"] /\ request' = [request EXCEPT ![r].pc = "scan"]
      BY <2>1, <1>2 DEF Enter
    <3>2. ScanOK(r)'
      BY <3>1, <2>0, <1>0 DEF ScanOK, NoScan
    <3>3. ASSUME NEW q \in Request, q # r PROVE ScanOK(q)'
      BY <3>1, <3>3, <2>0, <1>0, SameScan DEF AnswerInv
    <3> QED
      BY <3>1, <3>2, <3>3, <1>0 DEF AnswerInv, Handler
  <2>2. CASE latest # r
    <3>1. scan' = scan /\ request' = [request EXCEPT ![r].pc = "done"]
      BY <2>2, <1>2 DEF Enter
    <3> QED
      BY <3>1, <2>0, <1>0 DEF AnswerInv, ScanOK, NoScan, Handler
  <2> QED
    BY <2>1, <2>2
<1>3. CASE Finish(r)
  <2>1. /\ scan' = [scan EXCEPT ![r] = NoScan] /\ map' = map
        /\ request' = [request EXCEPT ![r].pc = "done"]
    BY <1>3 DEF Finish
  <2>2. ScanOK(r)'
    BY <2>1, <1>0 DEF ScanOK, NoScan
  <2>3. ASSUME NEW q \in Request, q # r PROVE ScanOK(q)'
    BY <2>1, <2>3, <1>0, SameScan DEF AnswerInv
  <2> QED
    BY <2>1, <2>2, <2>3, <1>0 DEF AnswerInv, Handler
<1> QED
  BY <1>1, <1>2, <1>3 DEF Answering

LEMMA AnswerStep ==
  ASSUME DocumentAssumption, TypeOK, AnswerInv, [Next]_vars
  PROVE  AnswerInv'
<1>1. CASE UNCHANGED vars
  BY <1>1, MapStep DEF vars
<1>2. ASSUME NEW t \in Text, Open(t) \/ Edit(t) \/ Write(t) PROVE AnswerInv'
  BY <1>2, MapStep DEF Open, Edit, Write
<1>3. CASE Close
  BY <1>3, MapStep DEF Close, Replace
<1>4. ASSUME NEW j \in jobs, Parsing(j) PROVE AnswerInv'
  BY <1>4, MapStep DEF Parsing, TakeLockEntry, Lock, Told, Forget, Check, Read, Commit,
                         Publish, Replace
<1> QED
  BY <1>1, <1>2, <1>3, <1>4, ScanStep, HandlerStep DEF Next

\* An answer from a map that was checked is an answer from a map that fits
\* its text, whatever is published meanwhile, as the second look at the map
\* asks whether it is the one that was checked (requests.rs:225-271).
THEOREM AnswersAreFitting == Spec => []AnswersMatch
<1> USE DocumentAssumption
<1>1. Init => AnswerInv
  BY DEF Init, AnswerInv, ScanOK, NoScan
<1>2. TypeOK /\ AnswerInv /\ [Next]_vars => AnswerInv'
  BY AnswerStep
<1>3. AnswerInv => AnswersMatch
  BY DEF AnswerInv, ScanOK, AnswersMatch
<1> QED
  BY <1>1, <1>2, <1>3, TypeCorrect, PTL DEF Spec
-----------------------------------------------------------------------------
(* The map at rest.                                                        *)

\* A map published for good owes nothing to the jobs.
LEMMA PublishRest ==
  ASSUME NEW text, map' = text, odd' = (text # Reads), UNCHANGED <<buffer, disk>>
  PROVE  OpenOwed' /\ ClosedOwed'
  BY DEF OpenOwed, ClosedOwed, Reads, IsOpen

\* Jobs that come or go without being of the buffer, waiting, or of the disk.
LEMMA JobStep ==
  ASSUME RestInv, UNCHANGED <<workspace, disk, buffer, map, odd, closes>>,
         LatestOK', LockOK', WaiterOK',
         \A k \in jobs : Fresh(k) => \E l \in jobs' : Fresh(l),
         \A k \in jobs : WillRead(k) => IsOpen \/ \E l \in jobs' : WillRead(l)
  PROVE  RestInv'
  BY DEF RestInv, OpenOwed, ClosedOwed, IsOpen, Fresh, WillRead

LEMMA NotifyRest ==
  ASSUME DocumentAssumption, TypeOK, RestInv,
         (\E t \in Text : Open(t) \/ Edit(t) \/ Write(t)) \/ Close
  PROVE  RestInv'
<1>0. jobs \subseteq Job /\ closes \in Nat /\ NoText \notin Text
  BY DEF TypeOK, DocumentAssumption
<1>a. \A k \in Stale : ~k.latest /\ \E j \in jobs :
         k.kind = j.kind /\ k.pc = j.pc /\ k.text = j.text /\ k.lock = j.lock
  BY <1>0, StaleJobs
<1>1. ASSUME NEW t \in Text, Open(t) PROVE RestInv'
  <2> DEFINE n == Spawn("open", "commit", t)
  <2>0. n.kind = "open" /\ n.latest /\ n.text = t
    BY DEF Spawn
  <2> HIDE DEF n
  <2>1. ~IsOpen /\ IsOpen' /\ buffer' = t /\ closes' = closes /\ jobs' = Stale \cup {n}
    BY <1>0, <1>1 DEF Open, IsOpen, counters, n
  <2>2. LatestOK'
    BY <2>0, <2>1, <1>a DEF LatestOK, Fresh
  <2>3. LockOK'
    BY <2>0, <2>1, <1>a DEF LockOK, RestInv
  <2>4. WaiterOK'
    BY <2>0, <2>1, <1>a DEF WaiterOK, Outdated, LockOK, RestInv
  <2>5. OpenOwed' /\ ClosedOwed'
    BY <2>0, <2>1 DEF OpenOwed, ClosedOwed, Fresh
  <2> QED
    BY <2>2, <2>3, <2>4, <2>5 DEF RestInv
<1>2. ASSUME NEW t \in Text, Edit(t) PROVE RestInv'
  <2> DEFINE n == Spawn("change", "lock", t)
  <2>0. n.kind = "change" /\ n.pc = "lock" /\ n.latest /\ n.text = t /\ n.lock = 0
    BY DEF Spawn
  <2> HIDE DEF n
  <2>1. IsOpen /\ IsOpen' /\ buffer' = t /\ closes' = closes /\ jobs' = Stale \cup {n}
    BY <1>0, <1>2 DEF Edit, IsOpen, n
  <2>2. LatestOK'
    BY <2>0, <2>1, <1>a DEF LatestOK, Fresh
  <2>3. LockOK'
    BY <2>0, <2>1, <1>0, <1>a DEF LockOK, RestInv
  <2>4. WaiterOK'
    BY <2>0, <2>1 DEF WaiterOK, Waits
  <2>5. OpenOwed' /\ ClosedOwed'
    BY <2>0, <2>1 DEF OpenOwed, ClosedOwed, Fresh
  <2> QED
    BY <2>2, <2>3, <2>4, <2>5 DEF RestInv
<1>3. ASSUME NEW t \in Text, Write(t) PROVE RestInv'
  <2> DEFINE n == Spawn("batch", "told", NoText)
  <2>0. n.kind = "batch" /\ n.pc = "told"
    BY DEF Spawn
  <2> HIDE DEF n
  <2>1. /\ UNCHANGED <<workspace, buffer, map, odd, closes>> /\ IsOpen' = IsOpen
        /\ jobs' = IF workspace THEN jobs \cup {n} ELSE jobs
    BY <1>3 DEF Write, IsOpen, n
  <2>2. LatestOK' /\ LockOK'
    BY <2>0, <2>1 DEF LatestOK, LockOK, Fresh, RestInv
  <2>3. WaiterOK'
    BY <2>0, <2>1 DEF WaiterOK, Outdated, Waits, RestInv
  <2>4. OpenOwed'
    BY <2>0, <2>1 DEF OpenOwed, Fresh, RestInv
  <2>5. ClosedOwed'
    BY <2>0, <2>1 DEF ClosedOwed, WillRead
  <2> QED
    BY <2>2, <2>3, <2>4, <2>5 DEF RestInv
<1>4. CASE Close
  <2> DEFINE n == Spawn("close", "check", NoText)
  <2>0. n.kind = "close" /\ n.pc = "check"
    BY DEF Spawn
  <2> HIDE DEF n
  <2>1. /\ ~IsOpen' /\ closes' = closes + 1 /\ workspace' = workspace
        /\ jobs' \subseteq Stale \cup {n} /\ (workspace => n \in jobs')
    BY <1>4 DEF Close, IsOpen, n
  <2>2. \A j \in jobs' : j.kind = "change" => j \in Stale /\ j.lock <= closes
    BY <2>0, <2>1, <1>a DEF RestInv, LockOK
  <2>3. LatestOK'
    BY <2>0, <2>1, <1>a DEF LatestOK, Fresh
  <2>4. ASSUME NEW j \in jobs', j.kind = "change"
        PROVE  j.lock <= closes' /\ j.lock # closes' /\ ~j.latest
               /\ j.pc \in {"lock", "wait", "commit"}
    <3>1. j \in Stale /\ j.lock <= closes
      BY <2>2, <2>4
    <3>2. PICK i \in jobs : j.kind = i.kind /\ j.pc = i.pc /\ j.lock = i.lock
      BY <3>1, <1>a
    <3>3. i.lock \in Nat /\ i.pc \in {"lock", "wait", "commit"}
      BY <3>2, <2>4, <1>0 DEF RestInv, LockOK, Job
    <3> QED
      BY <3>1, <3>2, <3>3, <2>1, <1>0, <1>a
  <2>5. LockOK'
    BY <2>4 DEF LockOK
  <2>6. WaiterOK'
    BY <2>4 DEF WaiterOK, Outdated
  <2>7. OpenOwed' /\ ClosedOwed'
    BY <2>0, <2>1 DEF OpenOwed, ClosedOwed, WillRead
  <2> QED
    BY <2>3, <2>5, <2>6, <2>7 DEF RestInv
<1> QED
  BY <1>1, <1>2, <1>3, <1>4

\* A job that ends takes nothing with it but what it owed itself.
LEMMA EndRest ==
  ASSUME RestInv, NEW j \in jobs, ~Waits(j), Ends(j), UNCHANGED <<buffer, closes>>
  PROVE  LatestOK' /\ LockOK' /\ WaiterOK'
<1>1. LatestOK' /\ LockOK'
  BY DEF RestInv, LatestOK, LockOK, Ends, Fresh, IsOpen
<1>2. WaiterOK'
  BY DEF RestInv, WaiterOK, Outdated, Waits, Ends
<1> QED
  BY <1>1, <1>2

\* A step of a job towards the disk.
LEMMA DiskJob ==
  ASSUME RestInv, NEW j \in jobs, NEW k, Becomes(j, k),
         j.kind \in {"close", "batch"}, k.kind = j.kind, WillRead(j) => WillRead(k),
         UNCHANGED <<workspace, disk, buffer, map, odd, closes>>
  PROVE  RestInv'
<1>1. LatestOK' /\ LockOK'
  BY DEF RestInv, LatestOK, LockOK, Becomes, Fresh, IsOpen
<1>2. WaiterOK'
  BY DEF RestInv, WaiterOK, Outdated, Waits, Becomes
<1>3. \A i \in jobs : Fresh(i) => i \in jobs' /\ Fresh(i)
  BY DEF Fresh, Becomes
<1>4. \A i \in jobs : WillRead(i) => \E l \in jobs' : WillRead(l)
  BY DEF Becomes
<1> QED
  BY <1>1, <1>2, <1>3, <1>4, JobStep

LEMMA ParseRest ==
  ASSUME DocumentAssumption, TypeOK, RestInv, NEW j \in jobs, Parsing(j)
  PROVE  RestInv'
<1>0. jobs \subseteq Job /\ j \in Job /\ closes \in Nat
  BY DEF TypeOK
<1>1. CASE TakeLockEntry(j)
  <2> DEFINE k == [j EXCEPT !.pc = "wait", !.lock = closes]
  <2>1. /\ k.kind = "change" /\ k.pc = "wait" /\ k.lock = closes
        /\ k.latest = j.latest /\ k.text = j.text /\ j.kind = "change" /\ j.pc = "lock"
    BY <1>0, <1>1 DEF TakeLockEntry, Job
  <2>2. Becomes(j, k) /\ UNCHANGED <<workspace, disk, buffer, map, odd, closes>>
    BY <1>1 DEF TakeLockEntry, counters
  <2> HIDE DEF k
  <2>3. LatestOK'
    BY <2>1, <2>2 DEF RestInv, LatestOK, Fresh, Becomes, IsOpen
  <2>4. LockOK'
    BY <2>1, <2>2, <1>0 DEF RestInv, LockOK, Becomes, IsOpen
  <2>5. WaiterOK'
    <3>1. ASSUME NEW i \in jobs, Waits(i) PROVE \E l \in jobs' : Waits(l)
      BY <3>1, <2>1, <2>2 DEF Waits, Becomes
    <3>2. ASSUME NEW i \in jobs', Outdated(i)' PROVE i \in jobs /\ Outdated(i)
      BY <3>2, <2>1, <2>2 DEF Outdated, Becomes
    <3>3. ASSUME NEW i \in jobs', Outdated(i)' PROVE \E l \in jobs' : Waits(l)
      BY <3>1, <3>2, <3>3 DEF RestInv, WaiterOK
    <3> QED
      BY <3>3 DEF WaiterOK, Waits
  <2>6. \A i \in jobs : Fresh(i) => \E l \in jobs' : Fresh(l)
    BY <2>1, <2>2 DEF Fresh, Becomes
  <2>7. \A i \in jobs : WillRead(i) => i \in jobs'
    BY <2>1, <2>2 DEF WillRead, Becomes
  <2> QED
    BY <2>2, <2>3, <2>4, <2>5, <2>6, <2>7, JobStep
<1>2. CASE Lock(j)
  <2>0. /\ j.kind = "change" /\ j.pc = "wait" /\ LockFree(j)
        /\ UNCHANGED <<workspace, disk, buffer, map, odd, closes>>
    BY <1>2 DEF Lock, counters
  <2>1. CASE j.latest
    <3> DEFINE k == [j EXCEPT !.pc = "commit"]
    <3>1. /\ k.kind = "change" /\ k.pc = "commit" /\ k.lock = j.lock
          /\ k.latest /\ k.text = j.text
      BY <2>0, <2>1, <1>0 DEF Job
    <3>2. Becomes(j, k)
      BY <2>1, <1>2 DEF Lock, IsLatest
    <3> HIDE DEF k
    <3>3. IsOpen /\ j.text = buffer /\ j.lock = closes
      BY <2>0, <2>1, <1>0 DEF RestInv, LatestOK, LockOK, Fresh
    <3>4. LatestOK'
      BY <3>1, <3>2, <3>3, <2>0 DEF RestInv, LatestOK, Fresh, Becomes, IsOpen
    <3>5. LockOK'
      BY <3>1, <3>2, <3>3, <2>0, <1>0 DEF RestInv, LockOK, Becomes, IsOpen
    <3>6. WaiterOK'
      BY <3>1, <3>2, <3>3, <2>0 DEF WaiterOK, Outdated, LockFree, Becomes
    <3>7. \A i \in jobs : Fresh(i) => \E l \in jobs' : Fresh(l)
      BY <3>1, <3>2 DEF Fresh, Becomes
    <3>8. \A i \in jobs : WillRead(i) => i \in jobs'
      BY <3>2, <2>0 DEF WillRead, Becomes
    <3> QED
      BY <2>0, <3>4, <3>5, <3>6, <3>7, <3>8, JobStep
  <2>2. CASE ~j.latest
    <3>1. Ends(j) /\ ~Waits(j) /\ ~Fresh(j) /\ ~WillRead(j)
      BY <2>0, <2>2, <1>2 DEF Lock, IsLatest, Waits, Fresh, WillRead
    <3>2. LatestOK' /\ LockOK' /\ WaiterOK'
      BY <3>1, <2>0, EndRest
    <3>3. \A i \in jobs : Fresh(i) \/ WillRead(i) => i \in jobs'
      BY <3>1 DEF Ends
    <3> QED
      BY <2>0, <3>2, <3>3, JobStep
  <2> QED
    BY <2>1, <2>2
<1>3. CASE Check(j)
  <2>0. /\ j.kind \in {"close", "batch"} /\ j.pc = "check"
        /\ UNCHANGED <<workspace, disk, buffer, map, odd, closes>>
    BY <1>3 DEF Check, counters
  <2>1. CASE IsOpen
    <3>1. Ends(j) /\ ~Waits(j) /\ ~Fresh(j)
      BY <2>0, <2>1, <1>3 DEF Check, Waits, Fresh
    <3>2. LatestOK' /\ LockOK' /\ WaiterOK'
      BY <3>1, <2>0, EndRest
    <3>3. \A i \in jobs : Fresh(i) => i \in jobs'
      BY <3>1 DEF Ends
    <3> QED
      BY <2>0, <2>1, <3>2, <3>3, JobStep
  <2>2. CASE ~IsOpen
    <3> DEFINE k == [j EXCEPT !.pc = IF j.kind = "close" THEN "read" ELSE "commit"]
    <3>1. k.kind = j.kind /\ k.text = j.text /\ (j.kind = "close" => k.pc = "read")
      BY <2>0, <1>0 DEF Job
    <3>2. Becomes(j, k)
      BY <2>2, <1>3 DEF Check
    <3> HIDE DEF k
    <3>3. WillRead(j) => WillRead(k)
      BY <3>1, <2>0 DEF WillRead
    <3> QED
      BY <2>0, <3>1, <3>2, <3>3, DiskJob
  <2> QED
    BY <2>1, <2>2
<1>4. CASE Read(j)
  <2> DEFINE k == [j EXCEPT !.text = disk, !.pc = IF j.kind = "close" THEN "commit" ELSE "check"]
  <2>1. k.kind = j.kind /\ k.text = disk /\ j.kind \in {"close", "batch"}
    BY <1>4, <1>0 DEF Read, Job
  <2>2. Becomes(j, k) /\ UNCHANGED <<workspace, disk, buffer, map, odd, closes>>
    BY <1>4 DEF Read, counters
  <2> HIDE DEF k
  <2>3. WillRead(k)
    BY <2>1 DEF WillRead
  <2> QED
    BY <2>1, <2>2, <2>3, DiskJob
<1>5. CASE Commit(j)
  <2>0. j.pc = "commit" /\ Ends(j) /\ UNCHANGED <<workspace, disk, buffer, closes>>
    BY <1>5 DEF Commit, counters
  <2>1. LatestOK' /\ LockOK' /\ WaiterOK'
    BY <2>0, EndRest DEF Waits
  <2>2. CASE j.text = NoText
    <3>1. map' = NoText /\ odd' = (NoText # Reads)
      BY <2>2, <1>5 DEF Commit, Replace
    <3> QED
      BY <3>1, <2>0, <2>1, PublishRest DEF RestInv
  <2>3. CASE j.text # NoText /\ j.text \in Broken
    <3>1. map' = map /\ odd' = odd
      BY <2>3, <1>5 DEF Commit, Publish
    <3>2. OpenOwed'
      BY <3>1, <2>0, <2>3 DEF RestInv, OpenOwed, LatestOK, Fresh, Ends, IsOpen
    <3>3. ClosedOwed'
      BY <3>1, <2>0, <2>3 DEF RestInv, ClosedOwed, WillRead, Ends, IsOpen
    <3> QED
      BY <3>2, <3>3, <2>1 DEF RestInv
  <2>4. CASE j.text # NoText /\ j.text \notin Broken
    <3> DEFINE g == j.kind = "change" /\ IsOpen /\ j.lock = closes
    <3>1. map' = j.text /\ odd' = (j.text # Reads /\ ~g)
      BY <2>4, <1>5 DEF Commit, Publish, Replace
    <3>2. CASE ~g \/ j.text = Reads
      <4>1. odd' = (j.text # Reads)
        BY <3>1, <3>2
      <4> QED
        BY <3>1, <4>1, <2>0, <2>1, PublishRest DEF RestInv
    <3>3. CASE g /\ j.text # Reads
      <4>1. Outdated(j) /\ IsOpen
        BY <3>3, <2>0 DEF Outdated, Reads
      <4>2. PICK k \in jobs : Waits(k)
        BY <4>1 DEF RestInv, WaiterOK
      <4>3. k \in jobs' /\ Fresh(k)
        BY <4>2, <2>0 DEF Waits, Fresh, Ends
      <4>4. OpenOwed' /\ ClosedOwed'
        BY <4>1, <4>3, <2>0 DEF OpenOwed, ClosedOwed, IsOpen, Fresh
      <4> QED
        BY <4>4, <2>1 DEF RestInv
    <3> QED
      BY <3>2, <3>3
  <2> QED
    BY <2>2, <2>3, <2>4
<1>6. CASE Told(j)
  <2>0. /\ j.kind = "batch" /\ j.pc = "told"
        /\ UNCHANGED <<workspace, disk, buffer, map, odd, closes>>
    BY <1>6 DEF Told, counters
  <2>1. CASE (IsOpen \/ map = NoText) /\ Ends(j)
    <3>1. ~Waits(j) /\ ~Fresh(j)
      BY <2>0 DEF Waits, Fresh
    <3>2. LatestOK' /\ LockOK' /\ WaiterOK'
      BY <3>1, <2>0, <2>1, EndRest
    <3>3. OpenOwed'
      BY <3>1, <2>0, <2>1 DEF RestInv, OpenOwed, IsOpen, Ends, Fresh
    <3>4. ClosedOwed'
      BY <2>0, <2>1 DEF ClosedOwed, IsOpen
    <3> QED
      BY <3>2, <3>3, <3>4 DEF RestInv
  <2>2. CASE ~IsOpen /\ Becomes(j, [j EXCEPT !.pc = "forget"])
    <3> DEFINE k == [j EXCEPT !.pc = "forget"]
    <3>1. k.kind = j.kind /\ k.pc = "forget"
      BY <2>0, <1>0 DEF Job
    <3>2. Becomes(j, k)
      BY <2>2
    <3> HIDE DEF k
    <3>3. WillRead(k)
      BY <3>1, <2>0 DEF WillRead
    <3> QED
      BY <2>0, <3>1, <3>2, <3>3, DiskJob
  <2> QED
    BY <2>1, <2>2, <1>6 DEF Told
<1>7. CASE Forget(j)
  <2> DEFINE k == [j EXCEPT !.pc = "read"]
  <2>0. /\ j.kind = "batch" /\ map' = NoText /\ odd' = IsOpen
        /\ UNCHANGED <<workspace, disk, buffer, closes>>
    BY <1>7 DEF Forget, Replace, counters
  <2>1. k.kind = "batch" /\ Becomes(j, k)
    BY <1>7, <1>0 DEF Forget, Job
  <2> HIDE DEF k
  <2>2. LatestOK' /\ LockOK'
    BY <2>0, <2>1 DEF RestInv, LatestOK, LockOK, Becomes, Fresh, IsOpen
  <2>3. WaiterOK'
    BY <2>0, <2>1 DEF RestInv, WaiterOK, Outdated, Waits, Becomes
  <2>4. OpenOwed' /\ ClosedOwed'
    BY <2>0 DEF OpenOwed, ClosedOwed, IsOpen
  <2> QED
    BY <2>2, <2>3, <2>4 DEF RestInv
<1> QED
  BY <1>1, <1>2, <1>3, <1>4, <1>5, <1>6, <1>7 DEF Parsing

\* Requests leave the jobs alone; only a first parse publishes.
LEMMA RequestRest ==
  ASSUME DocumentAssumption, TypeOK, RestInv, NEW r \in Request,
         Stamp(r) \/ Answering(r) \/ Cancel(r) \/ Scanning(r)
  PROVE  RestInv'
<1>1. UNCHANGED <<workspace, disk, buffer, closes, jobs>>
  BY DEF Stamp, Answering, KeyLock, Enter, Finish, Cancel, Scanning, First, PublishFirst, Content,
         CheckMap, ReadMap, Recheck, counters
<1>2. LatestOK' /\ LockOK' /\ WaiterOK'
  BY <1>1 DEF RestInv, LatestOK, LockOK, WaiterOK, Fresh, Waits, Outdated, IsOpen
<1>3. CASE UNCHANGED <<map, odd>>
  BY <1>1, <1>2, <1>3 DEF RestInv, OpenOwed, ClosedOwed, Fresh, WillRead, IsOpen
<1>4. CASE PublishFirst(r) /\ scan[r].content \notin Broken
  <2>1. map' = scan[r].content /\ odd' = (scan[r].content # Reads)
    BY <1>4 DEF PublishFirst
  <2> QED
    BY <2>1, <1>1, <1>2, PublishRest DEF RestInv
<1>5. UNCHANGED <<map, odd>> \/ (PublishFirst(r) /\ scan[r].content \notin Broken)
  BY DEF Stamp, Answering, KeyLock, Enter, Finish, Cancel, Scanning, First, PublishFirst, Content,
         CheckMap, ReadMap, Recheck
<1> QED
  BY <1>3, <1>4, <1>5

LEMMA RestInit == ASSUME DocumentAssumption, Init PROVE RestInv
  BY DEF Init, RestInv, LatestOK, LockOK, WaiterOK, OpenOwed, ClosedOwed, IsOpen

LEMMA RestStep ==
  ASSUME DocumentAssumption, TypeOK, RestInv, [Next]_vars
  PROVE  RestInv'
<1>1. CASE UNCHANGED vars
  BY <1>1 DEF vars, counters, RestInv, LatestOK, LockOK, WaiterOK, OpenOwed, ClosedOwed,
              Fresh, Waits, Outdated, WillRead, IsOpen
<1> QED
  BY <1>1, NotifyRest, ParseRest, RequestRest DEF Next

\* Once no parse is left the map is of the newest text, unless a parse
\* published over a newer text that no parse lock kept for later: the lock
\* and the look at the buffer inside it are enough (documents.rs:189-226).
THEOREM RestsOnTheLatest == Spec => []RestIsLatest
<1> USE DocumentAssumption
<1>1. Init => RestInv
  BY RestInit
<1>2. TypeOK /\ RestInv /\ [Next]_vars => RestInv'
  BY RestStep
<1>3. TypeOK /\ RestInv => RestIsLatest
  BY DEF RestInv, OpenOwed, ClosedOwed, RestIsLatest, Settled, Reads, IsOpen, TypeOK
<1> QED
  BY <1>1, <1>2, <1>3, TypeCorrect, PTL DEF Spec

-----------------------------------------------------------------------------
(* One computation behind each slot.                                       *)

\* One request at a time is in the slot, and only a request that is in it or
\* was cancelled there has a scan.
OneInSlot == \A q, r \in Request :
    request[q].pc = "scan" /\ request[r].pc = "scan" /\ q # r => request[q].lock # request[r].lock
ScanInSlot == \A r \in Request : request[r].pc \in {"new", "key", "wait", "done"} => scan[r].pc = "off"
SlotInv == OneInSlot /\ ScanInSlot

\* A step that leaves the requests alone and starts no scan.
LEMMA SlotKept ==
  ASSUME SlotInv, request' = request,
         \A r \in Request : scan[r].pc = "off" => scan'[r].pc = "off"
  PROVE  SlotInv'
  BY DEF SlotInv, OneInSlot, ScanInSlot

\* A publication moves every scan's map and no scan's place.
LEMMA MovedPlace ==
  ASSUME scan \in [Request -> ScanType]
  PROVE  \A r \in Request : Moved[r].pc = scan[r].pc
  BY DEF Moved, ScanType

LEMMA SlotStep ==
  ASSUME TypeOK, SlotInv, [Next]_vars
  PROVE  SlotInv'
<1>0. request \in [Request -> Handler] /\ scan \in [Request -> ScanType]
  BY DEF TypeOK
<1>1. CASE UNCHANGED vars
  BY <1>1, SlotKept DEF vars
<1>2. ASSUME NEW t \in Text, Open(t) \/ Edit(t) \/ Write(t) PROVE SlotInv'
  BY <1>2, SlotKept DEF Open, Edit, Write
<1>3. CASE Close
  BY <1>3, <1>0, SlotKept, MovedPlace DEF Close, Replace
<1>4. ASSUME NEW j \in jobs, Parsing(j) PROVE SlotInv'
  <2>1. request' = request /\ (scan' = scan \/ scan' = Moved)
    BY <1>4 DEF Parsing, TakeLockEntry, Lock, Told, Forget, Check, Read, Commit, Publish,
               Replace
  <2> QED
    BY <2>1, <1>0, SlotKept, MovedPlace
<1>5. ASSUME NEW r \in Request, Scanning(r) PROVE SlotInv'
  <2>1. request' = request /\ scan[r].pc # "off"
    BY <1>5 DEF Scanning, First, PublishFirst, Content, CheckMap, ReadMap, Recheck
  <2>2. \A q \in Request \ {r} : scan'[q].pc = scan[q].pc
    <3>1. CASE PublishFirst(r)
      BY <3>1, <1>0, MovedPlace DEF PublishFirst, Moved
    <3>2. CASE First(r) \/ Content(r) \/ CheckMap(r) \/ ReadMap(r) \/ Recheck(r)
      BY <3>2, <1>0 DEF First, Content, CheckMap, ReadMap, Recheck, Result
    <3> QED
      BY <1>5, <3>1, <3>2 DEF Scanning
  <2> QED
    BY <2>1, <2>2, SlotKept
<1>6. ASSUME NEW r \in Request, Stamp(r) \/ KeyLock(r) \/ Cancel(r) PROVE SlotInv'
  BY <1>6, <1>0 DEF Stamp, KeyLock, Cancel, SlotInv, OneInSlot, ScanInSlot, Handler
<1>7. ASSUME NEW r \in Request, Enter(r) PROVE SlotInv'
  <2>1. CASE latest = r
    <3>1. /\ request' = [request EXCEPT ![r].pc = "scan"] /\ scan' = [scan EXCEPT ![r].pc = "first"]
          /\ KeyLockFree(r)
      BY <2>1, <1>7 DEF Enter
    <3>2. OneInSlot'
      BY <3>1, <1>0 DEF SlotInv, OneInSlot, KeyLockFree, Handler
    <3>3. ScanInSlot'
      BY <3>1, <1>0 DEF SlotInv, ScanInSlot, Handler
    <3> QED
      BY <3>2, <3>3 DEF SlotInv
  <2>2. CASE latest # r
    <3>1. request' = [request EXCEPT ![r].pc = "done"] /\ scan' = scan /\ request[r].pc = "wait"
      BY <2>2, <1>7 DEF Enter
    <3> QED
      BY <3>1, <1>0 DEF SlotInv, OneInSlot, ScanInSlot, Handler
  <2> QED
    BY <2>1, <2>2
<1>8. ASSUME NEW r \in Request, Finish(r) PROVE SlotInv'
  <2>1. request' = [request EXCEPT ![r].pc = "done"] /\ scan' = [scan EXCEPT ![r] = NoScan]
    BY <1>8 DEF Finish
  <2> QED
    BY <2>1, <1>0 DEF SlotInv, OneInSlot, ScanInSlot, Handler, NoScan
<1> QED
  BY <1>1, <1>2, <1>3, <1>4, <1>5, <1>6, <1>7, <1>8 DEF Next, Answering

\* Two computations at a time are of a cancelled request or of two slots: the
\* guard on the slot of a kind and file is enough (requests.rs:274-278).
THEOREM ScansAreExclusive == Spec => []ScansExclude
<1>1. Init => SlotInv
  BY DEF Init, SlotInv, OneInSlot, ScanInSlot, Arrived, NoScan
<1>2. TypeOK /\ SlotInv /\ [Next]_vars => SlotInv'
  BY SlotStep
<1>3. TypeOK /\ SlotInv => ScansExclude
  BY DEF TypeOK, Handler, SlotInv, OneInSlot, ScanInSlot, ScansExclude, Scans
<1> QED
  BY <1>1, <1>2, <1>3, TypeCorrect, PTL DEF Spec

=============================================================================
