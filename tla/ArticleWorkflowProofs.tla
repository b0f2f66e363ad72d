------------------------ MODULE ArticleWorkflowProofs ------------------------
(* Theorems about ArticleWorkflow, for every set of articles and requests.  *)
EXTENDS ArticleWorkflow, TLAPS

(* Adding a version to the versions of an article keeps their type.          *)
LEMMA AddVersionType ==
  ASSUME NEW v \in [Version -> {0, 1, 2}], NEW n
  PROVE  AddVersion(v, n) \in [Version -> {0, 1, 2}]
BY DEF AddVersion

(* A row that is not stored is a row.                                        *)
LEMMA NoRowType ==
  ASSUME NEW why \in Status \cup {"absent", "deleted"}
  PROVE  NoRow(why) \in Row
BY BoundsAssumption DEF NoRow, Row, NoVersions, NoTime

(* An empty request slot in any phase is a request.                          *)
LEMMA NoReqType == \A phase \in Phase : NoReq(phase) \in Req
BY BoundsAssumption DEF NoReq, Req, Op, Status, NoTime

(* What a job's UPDATE makes of a row is a row.                              *)
LEMMA UpdatedType ==
  ASSUME NEW j, NEW rw \in Row
  PROVE  Updated(j, rw) \in Row
BY DEF Updated, Row, Status

ReqOK == /\ req \in [Request -> Req]
         /\ \A r \in Request : Open(r) => req[r].art \in Article

(* An answer keeps the request slots typed.                                  *)
LEMMA AnswerType ==
  ASSUME TypeOK, NEW r \in Request, NEW phase \in {"acked", "failed"},
         Answer(r, phase)
  PROVE  ReqOK'
<1>1. NoReq(phase) \in Req
  BY NoReqType DEF Phase
<1>2. NoReq(phase).phase = phase
  BY DEF NoReq
<1>. QED BY <1>1, <1>2 DEF TypeOK, ReqOK, Answer, Open

(* So does a handler that goes on to its write.                              *)
LEMMA WaitType ==
  ASSUME TypeOK, NEW r \in Request, NEW q \in Req, q.art \in Article, Wait(r, q)
  PROVE  ReqOK'
BY DEF TypeOK, ReqOK, Wait, Open, Req, Phase

(* A write of any image keeps the types.                                     *)
LEMMA WriteType ==
  ASSUME TypeOK, NEW r \in Request, NEW a \in Article, NEW image \in Row,
         Write(r, a, image)
  PROVE  TypeOK'
<1>1. req' = [req EXCEPT ![r] = [req[r] EXCEPT !.phase = "wrote", !.art = a]]
  BY DEF TypeOK, Write
<1>2. [req[r] EXCEPT !.phase = "wrote", !.art = a] \in Req
  BY DEF TypeOK, Req, Phase
<1>3. req' \in [Request -> Req] /\ \A s \in Request : Open(s)' => req'[s].art \in Article
  BY <1>1, <1>2 DEF TypeOK, Open, Req
<1>4. img' \in [Article -> Row] /\ holder' \in [Article -> Request \cup Job \cup {Free}]
  BY DEF TypeOK, Write
<1>. QED BY <1>3, <1>4 DEF TypeOK, Write, Open

(* The empty tables have the right types.                                    *)
LEMMA TypeInit == Init => TypeOK
<1> SUFFICES ASSUME Init PROVE TypeOK OBVIOUS
<1>1. NoRow("absent") \in Row BY NoRowType
<1>2. NoReq("idle") \in Req /\ NoReq("idle").phase = "idle"
  BY NoReqType DEF Phase, NoReq
<1>3. NoRun \in JobRun BY BoundsAssumption DEF NoRun, JobRun
<1>. QED BY <1>1, <1>2, <1>3, BoundsAssumption DEF Init, TypeOK, Open

(* What a handler may put in its slot before its write. *)
WaitingFor(a) ==
  {[NoReq("waiting") EXCEPT !.op = "update", !.art = a]}
    \cup {[NoReq("waiting") EXCEPT !.op = "transition", !.art = a, !.to = st] : st \in Status}
    \cup {[NoReq("waiting") EXCEPT !.op = "schedule", !.art = a, !.at = t] : t \in 1 .. MaxTime}
    \cup {[NoReq("waiting") EXCEPT !.op = "delete", !.art = a]}

(* What a handler puts in its slot is a request for its article.             *)
LEMMA WaitingForType ==
  ASSUME NEW a \in Article, NEW q \in WaitingFor(a)
  PROVE  q \in Req /\ q.art = a
<1>1. NoReq("waiting") \in Req
  BY NoReqType DEF Phase
<1>2. CASE q = [NoReq("waiting") EXCEPT !.op = "update", !.art = a]
  BY <1>1, <1>2 DEF Req, Op
<1>3. ASSUME NEW st \in Status,
             q = [NoReq("waiting") EXCEPT !.op = "transition", !.art = a, !.to = st]
      PROVE  q \in Req /\ q.art = a
  BY <1>1, <1>3 DEF Req, Op
<1>4. ASSUME NEW t \in 1 .. MaxTime,
             q = [NoReq("waiting") EXCEPT !.op = "schedule", !.art = a, !.at = t]
      PROVE  q \in Req /\ q.art = a
  <2>1. t \in 0 .. MaxTime
    BY BoundsAssumption
  <2>. QED BY <1>1, <1>4, <2>1 DEF Req, Op
<1>5. CASE q = [NoReq("waiting") EXCEPT !.op = "delete", !.art = a]
  BY <1>1, <1>5 DEF Req, Op
<1>. QED BY <1>2, <1>3, <1>4, <1>5 DEF WaitingFor

Asks(r, a) ==
  \/ AskUpdate(r, a)
  \/ \E st \in Status : AskTransition(r, a, st)
  \/ \E t \in 1 .. MaxTime : AskSchedule(r, a, t)
  \/ \E own \in BOOLEAN, caller \in Caller : AskDelete(r, a, own, caller)

(* What a handler reads makes it answer or wait, and touches nothing else.   *)
LEMMA AskStep ==
  ASSUME NEW r, NEW a, Asks(r, a)
  PROVE  /\ ~Open(r)
         /\ \/ \E phase \in {"acked", "failed"} : Answer(r, phase)
            \/ \E q \in WaitingFor(a) : Wait(r, q)
         /\ UNCHANGED <<row, img, holder, job, now, faults>>
<1>1. CASE AskUpdate(r, a)
  BY <1>1 DEF AskUpdate, WaitingFor
<1>2. ASSUME NEW st \in Status, AskTransition(r, a, st)
      PROVE  \/ \E phase \in {"acked", "failed"} : Answer(r, phase)
             \/ \E q \in WaitingFor(a) : Wait(r, q)
  BY <1>2 DEF AskTransition, WaitingFor
<1>3. ASSUME NEW t \in 1 .. MaxTime, AskSchedule(r, a, t)
      PROVE  \/ \E phase \in {"acked", "failed"} : Answer(r, phase)
             \/ \E q \in WaitingFor(a) : Wait(r, q)
  BY <1>3 DEF AskSchedule, WaitingFor
<1>4. ASSUME NEW own \in BOOLEAN, NEW caller \in Caller, AskDelete(r, a, own, caller)
      PROVE  \/ \E phase \in {"acked", "failed"} : Answer(r, phase)
             \/ \E q \in WaitingFor(a) : Wait(r, q)
  BY <1>4 DEF AskDelete, WaitingFor
<1>5. ~Open(r) /\ UNCHANGED <<row, img, holder, job, now, faults>>
  BY DEF Asks, AskUpdate, AskTransition, AskSchedule, AskDelete
<1>. QED BY <1>1, <1>2, <1>3, <1>4, <1>5 DEF Asks

(* The reads of the handlers keep the types.                                 *)
LEMMA AskType ==
  ASSUME TypeOK, NEW r \in Request, NEW a \in Article, Asks(r, a)
  PROVE  TypeOK'
<1>1. ReqOK'
  BY AskStep, AnswerType, WaitType, WaitingForType
<1>2. UNCHANGED <<row, img, holder, job, now, faults>>
  BY AskStep
<1>. QED BY <1>1, <1>2 DEF TypeOK, ReqOK, Open

-----------------------------------------------------------------------------

(* The image UpdateArticle writes is a row.                                  *)
LEMMA EditedType ==
  ASSUME NEW rw \in Row, NEW n
  PROVE  [rw EXCEPT !.stale = FALSE, !.vers = AddVersion(@, n)] \in Row
<1>1. AddVersion(rw.vers, n) \in [Version -> {0, 1, 2}]
  BY AddVersionType DEF Row
<1>. QED BY <1>1 DEF Row

(* The image TransitionStatus writes is a row.                               *)
LEMMA TransitionedType ==
  ASSUME NEW rw \in Row, NEW st \in Status
  PROVE  [rw EXCEPT !.status = st, !.hasEditor = EditorAfter(rw, st),
                    !.stale = FALSE, !.vers = AddVersion(@, 1)] \in Row
<1>1. AddVersion(rw.vers, 1) \in [Version -> {0, 1, 2}]
  BY AddVersionType DEF Row
<1>2. EditorAfter(rw, st) \in BOOLEAN
  BY DEF EditorAfter
<1>. QED BY <1>1, <1>2 DEF Row

(* The image ScheduleArticle writes is a row.                                *)
LEMMA ScheduledType ==
  ASSUME NEW rw \in Row, NEW t \in 0 .. MaxTime
  PROVE  [rw EXCEPT !.status = "scheduled", !.sched = t, !.hasEditor = TRUE,
                    !.stale = FALSE, !.vers = AddVersion(@, 1)] \in Row
<1>1. AddVersion(rw.vers, 1) \in [Version -> {0, 1, 2}]
  BY AddVersionType DEF Row
<1>. QED BY <1>1 DEF Row, Status

(* A new draft, with or without its first version, is a row.                 *)
LEMMA NewDraftType == [NewDraft EXCEPT !.vers[1] = 1] \in Row /\ NewDraft \in Row
<1>1. NoRow("absent") \in Row
  BY NoRowType
<1>2. NewDraft \in Row
  BY <1>1 DEF NewDraft, Row, Status
<1>. QED BY <1>2 DEF Row

-----------------------------------------------------------------------------
(* Type correctness, action by action.                                      *)

(* A write by id changes a stored row nobody holds, or nothing at all.       *)
LEMMA HandleStep ==
  ASSUME TypeOK, NEW r \in Request, Handle(r)
  PROVE  /\ req[r].phase = "waiting" /\ req[r].art \in Article
         /\ holder[req[r].art] = Free
         /\ \/ \E image \in Row : Stored(req[r].art) /\ Write(r, req[r].art, image)
            \/ /\ \/ \E phase \in {"acked", "failed"} : Answer(r, phase)
                  \/ req' = [req EXCEPT ![r].phase = "aborted"]
               /\ UNCHANGED <<row, img, holder, job, now, faults>>
<1>1. req[r].phase = "waiting" /\ holder[req[r].art] = Free
  BY DEF Handle, UpdateArticle, TransitionStatus, ScheduleArticle, DeleteArticle, CanWrite
<1>2. req[r].art \in Article
  BY <1>1 DEF TypeOK, Open
<1>3. row[req[r].art] \in Row /\ req[r].to \in Status /\ req[r].at \in 0 .. MaxTime
  BY <1>2 DEF TypeOK, Req
<1>4. CASE UpdateArticle(r)
  BY <1>1, <1>2, <1>3, <1>4, EditedType DEF UpdateArticle
<1>5. CASE TransitionStatus(r)
  BY <1>1, <1>2, <1>3, <1>5, TransitionedType DEF TransitionStatus, UpdateOfDeletedRow
<1>6. CASE ScheduleArticle(r)
  BY <1>1, <1>2, <1>3, <1>6, ScheduledType DEF ScheduleArticle, UpdateOfDeletedRow
<1>7. CASE DeleteArticle(r)
  BY <1>1, <1>2, <1>3, <1>7, NoRowType DEF DeleteArticle
<1>. QED BY <1>4, <1>5, <1>6, <1>7 DEF Handle

(* The writes of the handlers keep the types.                                *)
LEMMA HandleType ==
  ASSUME TypeOK, NEW r \in Request, Handle(r)
  PROVE  TypeOK'
<1>1. CASE \E image \in Row : Write(r, req[r].art, image)
  BY <1>1, HandleStep, WriteType
<1>2. CASE /\ \E phase \in {"acked", "failed"} : Answer(r, phase)
           /\ UNCHANGED <<row, img, holder, job, now, faults>>
  BY <1>2, AnswerType DEF TypeOK, ReqOK, Open
<1>3. CASE /\ req' = [req EXCEPT ![r].phase = "aborted"]
           /\ UNCHANGED <<row, img, holder, job, now, faults>>
  <2>1. req' \in [Request -> Req] /\ \A s \in Request : Open(s)' => req'[s].art \in Article
    BY <1>3, HandleStep DEF TypeOK, Open, Req, Phase
  <2>. QED BY <1>3, <2>1 DEF TypeOK, Open
<1>. QED BY <1>1, <1>2, <1>3, HandleStep

(* Commit and rollback leave rows, images and locks typed.                   *)
LEMMA LocksType ==
  ASSUME TypeOK, NEW p, DropLocks(p), CommitRows(p) \/ UNCHANGED row
  PROVE  /\ row' \in [Article -> Row]
         /\ img' \in [Article -> Row]
         /\ holder' \in [Article -> Request \cup Job \cup {Free}]
<1>1. NoRow("absent") \in Row
  BY NoRowType
<1>. QED BY <1>1 DEF TypeOK, DropLocks, CommitRows

(* The end of a request keeps the types.                                     *)
LEMMA FinishType ==
  ASSUME TypeOK, NEW r \in Request, Finish(r)
  PROVE  TypeOK'
<1>1. ReqOK'
  BY AnswerType DEF Finish, Commit, CommitFails, Rollback
<1>2. \/ DropLocks(r) /\ (CommitRows(r) \/ UNCHANGED row)
      \/ UNCHANGED <<row, img, holder>>
  BY DEF Finish, Commit, CommitFails, Rollback
<1>3. UNCHANGED <<job, now, faults>>
  BY DEF Finish, Commit, CommitFails, Rollback
<1>. QED BY <1>1, <1>2, <1>3, LocksType DEF TypeOK, ReqOK, Open

(* So do the steps of the jobs.                                              *)
LEMMA JobType ==
  ASSUME TypeOK, NEW j \in Job, RunJob(j)
  PROVE  TypeOK'
<1>1. NoRun \in JobRun
  BY BoundsAssumption DEF NoRun, JobRun
<1>2. CASE JobStart(j)
  <2>1. [running |-> TRUE, now |-> now,
         todo |-> {a \in Article : Selects(j, row[a], now)}] \in JobRun
    BY BoundsAssumption DEF TypeOK, JobRun
  <2>. QED BY <1>2, <2>1 DEF JobStart, TypeOK, Open
<1>3. ASSUME NEW a \in Article, JobRow(j, a)
      PROVE  TypeOK'
  <2>1. job' \in [Job -> JobRun]
    BY <1>3 DEF JobRow, TypeOK, JobRun
  <2>2. img' \in [Article -> Row] /\ holder' \in [Article -> Request \cup Job \cup {Free}]
    BY <1>3, UpdatedType DEF JobRow, TypeOK
  <2>. QED BY <1>3, <2>1, <2>2 DEF JobRow, TypeOK, Open
<1>4. CASE JobCommit(j)
  BY <1>1, <1>4, LocksType DEF JobCommit, TypeOK, Open
<1>5. CASE JobFail(j)
  BY <1>1, <1>5, LocksType, BoundsAssumption DEF JobFail, TypeOK, Open
<1>. QED BY <1>2, <1>3, <1>4, <1>5 DEF RunJob

(* So do the wire feed, the clock and the start of the server.               *)
LEMMA OtherType ==
  ASSUME TypeOK,
         (\E a \in Article : IngestWireFeeds(a) \/ GrowStale(a)) \/ Tick \/ Boot
  PROVE  TypeOK'
<1>1. ASSUME NEW a \in Article, IngestWireFeeds(a)
      PROVE  TypeOK'
  BY <1>1, NewDraftType DEF IngestWireFeeds, TypeOK, Open
<1>2. ASSUME NEW a \in Article, GrowStale(a)
      PROVE  TypeOK'
  <2>1. \A rw \in Row : [rw EXCEPT !.stale = TRUE] \in Row
    BY DEF Row
  <2>2. row' \in [Article -> Row]
    BY <1>2, <2>1 DEF GrowStale, TypeOK
  <2>. QED BY <1>2, <2>2 DEF GrowStale, TypeOK, Open
<1>3. CASE Tick
  BY <1>3, BoundsAssumption DEF Tick, TypeOK, Open
<1>4. CASE Boot
  <2>1. NoRow("absent") \in Row /\ NoRun \in JobRun /\ NoReq("failed") \in Req
    BY NoRowType, NoReqType, BoundsAssumption DEF NoRun, JobRun, Phase
  <2>2. row' \in [Article -> Row]
    <3>1. \A rw \in Row : [rw EXCEPT !.status = "published"] \in Row
      BY DEF Row, Status
    <3>. QED BY <1>4, <3>1 DEF Boot, TypeOK
  <2>3. req' \in [Request -> Req] /\ \A r \in Request : ~Open(r)'
    BY <1>4, <2>1 DEF Boot, TypeOK, Open, NoReq
  <2>4. faults' \in 0 .. MaxFaults
    BY <1>4, BoundsAssumption DEF Boot, TypeOK
  <2>. QED BY <1>4, <2>1, <2>2, <2>3, <2>4 DEF Boot, TypeOK, Open
<1>. QED BY <1>1, <1>2, <1>3, <1>4

(* The type invariant is inductive.                                          *)
LEMMA TypeStep == TypeOK /\ [Next]_vars => TypeOK'
<1> SUFFICES ASSUME TypeOK, [Next]_vars PROVE TypeOK'
  OBVIOUS
<1>1. ASSUME NEW r \in Request, Ask(r)
      PROVE  TypeOK'
  <2>1. ASSUME NEW a \in Article, CreateArticle(r, a)
        PROVE  TypeOK'
    BY <2>1, WriteType, NewDraftType DEF CreateArticle
  <2>. QED BY <1>1, <2>1, AskType DEF Ask, Asks
<1>2. ASSUME NEW r \in Request, Handle(r) \/ Finish(r)
      PROVE  TypeOK'
  BY <1>2, HandleType, FinishType
<1>3. CASE UNCHANGED vars
  BY <1>3 DEF vars, TypeOK, Open
<1>. QED BY <1>1, <1>2, <1>3, JobType, OtherType DEF Next

(* The type invariant holds for every number of articles, requests, clock   *)
(* values, version numbers and faults.                                      *)
THEOREM TypeCorrect == Spec => []TypeOK
BY TypeInit, TypeStep, PTL DEF Spec

-----------------------------------------------------------------------------
(* WorkflowInv.  Every write is of a sound image (SoundWrites); a commit     *)
(* turns it into a row; and rows do not change under a lock, except that a   *)
(* locked draft may grow stale, which the invariant does not look at.        *)

(* Requests, jobs and the mark of a free row are different names.            *)
LEMMA NamesApart ==
  /\ \A r \in Request : r # Free /\ r # Publisher /\ r # Archiver
  /\ \A j \in Job : j # Free
  /\ Publisher # Free /\ Publisher # Archiver
BY NamesAssumption DEF Job, Free, Publisher, Archiver

(* The number after the highest is taken by no version, so adding it keeps a *)
(* row sound.                                                                *)
LEMMA NextVersionIsNew ==
  ASSUME NEW rw \in Row, SoundRow(rw), NEW n \in Version, IsNextVersion(rw.vers, n)
  PROVE  SoundRow([rw EXCEPT !.stale = FALSE, !.vers = AddVersion(@, n)])
<1>1. rw.vers[n] = 0 /\ n >= n
  BY DEF IsNextVersion, Version
<1>2. \A m \in Version : m > 1 => AddVersion(rw.vers, n)[m] <= 1
  BY <1>1 DEF SoundRow, AddVersion, Row
<1>. QED BY <1>2 DEF SoundRow, Row

(* A version 1 more cannot make two edits clash.                             *)
LEMMA FirstVersionIsSound ==
  ASSUME NEW v \in [Version -> {0, 1, 2}], \A n \in Version : n > 1 => v[n] <= 1
  PROVE  \A n \in Version : n > 1 => AddVersion(v, 1)[n] <= 1
BY DEF AddVersion, Version

(* A row that is not stored is sound.                                        *)
LEMMA EmptyRowIsSound ==
  \A why \in Status \cup {"absent", "deleted"} : SoundRow(NoRow(why))
BY DEF SoundRow, NoRow, NoVersions

(* So is a new draft.                                                        *)
LEMMA DraftIsSound == SoundRow([NewDraft EXCEPT !.vers[1] = 1]) /\ SoundRow(NewDraft)
<1>1. /\ NewDraft.sched = NoTime /\ [NewDraft EXCEPT !.vers[1] = 1].sched = NoTime
  BY DEF NewDraft, NoRow
<1>2. \A n \in Version : n > 1 => /\ NewDraft.vers[n] <= 1
                                  /\ [NewDraft EXCEPT !.vers[1] = 1].vers[n] <= 1
  BY DEF NewDraft, NoRow, NoVersions, Version
<1>. QED BY <1>1, <1>2 DEF SoundRow

(* What a handler writes: a sound image, with the status it was asked for.  *)
LEMMA SoundWrites ==
  ASSUME TypeOK, WorkflowInv, NEW r \in Request, Handle(r)
  PROVE  LET a == req[r].art
         IN  \/ \E image \in Row :
                  /\ Write(r, a, image) /\ SoundImage(a, image)
                  /\ req[r].op = "transition" => image.status = req[r].to
                  /\ req[r].op = "schedule" => image.status = "scheduled"
             \/ /\ \/ \E phase \in {"acked", "failed"} :
                            Answer(r, phase) /\ req[r].op \notin {"transition", "schedule"}
                   \/ req' = [req EXCEPT ![r].phase = "aborted"]
                /\ UNCHANGED <<row, img, holder, job, now, faults>>
<1> DEFINE a == req[r].art
<1>1. a \in Article /\ row[a] \in Row /\ req[r].to \in Status /\ req[r].at \in 0 .. MaxTime
  BY HandleStep DEF TypeOK, Req
<1>2. SoundRow(row[a])
  BY <1>1 DEF WorkflowInv, RowsSound
<1>3. Stored(a) => row[a].status # "deleted"
  BY DEF Stored, Status
<1>4. CASE UpdateArticle(r)
  <2>1. CASE ~Stored(a)
    BY <1>4, <2>1 DEF UpdateArticle, CanWrite, Write
  <2>2. CASE Stored(a)
    <3>1. PICK n \in Version :
            /\ IsNextVersion(row[a].vers, n)
            /\ Write(r, a, [row[a] EXCEPT !.stale = FALSE, !.vers = AddVersion(@, n)])
      BY <1>4, <2>2 DEF UpdateArticle
    <3> DEFINE image == [row[a] EXCEPT !.stale = FALSE, !.vers = AddVersion(@, n)]
    <3>2. image \in Row /\ SoundRow(image)
      BY <1>1, <1>2, <3>1, EditedType, NextVersionIsNew
    <3>3. image.status = row[a].status
      BY <1>1 DEF Row
    <3>4. req[r].op = "update"
      BY <1>4 DEF UpdateArticle, CanWrite
    <3>. QED BY <1>3, <2>2, <3>1, <3>2, <3>3, <3>4 DEF SoundImage
  <2>. QED BY <2>1, <2>2
<1>5. CASE TransitionStatus(r)
  <2>1. CASE UpdateOfDeletedRow(r)
    BY <2>1 DEF UpdateOfDeletedRow
  <2>2. CASE ~UpdateOfDeletedRow(r)
    <3> DEFINE image == [row[a] EXCEPT !.status = req[r].to,
                                       !.hasEditor = EditorAfter(row[a], req[r].to),
                                       !.stale = FALSE, !.vers = AddVersion(@, 1)]
    <3>1. Stored(a) /\ Write(r, a, image) /\ req[r].op = "transition"
      BY <1>5, <2>2 DEF TransitionStatus, CanWrite
    <3>2. image \in Row
      BY <1>1, TransitionedType
    <3>3. /\ image.status = req[r].to /\ image.sched = row[a].sched
          /\ image.vers = AddVersion(row[a].vers, 1)
      BY <1>1 DEF Row
    <3>4. /\ image.hasEditor <=> EditorAfter(row[a], req[r].to)
      BY <1>1 DEF Row
    <3>5. \A n \in Version : n > 1 => image.vers[n] <= 1
      BY <1>1, <1>2, <3>3, FirstVersionIsSound DEF SoundRow, Row
    <3>6. SoundImage(a, image)
      BY <1>2, <1>3, <3>1, <3>3, <3>4, <3>5 DEF SoundRow, SoundImage, EditorAfter
    <3>. QED BY <3>1, <3>2, <3>3, <3>6
  <2>. QED BY <2>1, <2>2
<1>6. CASE ScheduleArticle(r)
  <2>1. CASE UpdateOfDeletedRow(r)
    BY <2>1 DEF UpdateOfDeletedRow
  <2>2. CASE ~UpdateOfDeletedRow(r)
    <3> DEFINE image == [row[a] EXCEPT !.status = "scheduled", !.sched = req[r].at,
                                       !.hasEditor = TRUE, !.stale = FALSE,
                                       !.vers = AddVersion(@, 1)]
    <3>1. Stored(a) /\ Write(r, a, image) /\ req[r].op = "schedule"
      BY <1>6, <2>2 DEF ScheduleArticle, CanWrite
    <3>2. image \in Row
      BY <1>1, ScheduledType
    <3>3. /\ image.status = "scheduled" /\ image.hasEditor
          /\ image.vers = AddVersion(row[a].vers, 1)
      BY <1>1 DEF Row
    <3>4. \A n \in Version : n > 1 => image.vers[n] <= 1
      BY <1>1, <1>2, <3>3, FirstVersionIsSound DEF SoundRow, Row
    <3>5. SoundImage(a, image)
      BY <1>3, <3>1, <3>3, <3>4 DEF SoundRow, SoundImage
    <3>. QED BY <3>1, <3>2, <3>3, <3>5
  <2>. QED BY <2>1, <2>2
<1>7. CASE DeleteArticle(r)
  <2>1. req[r].op = "delete"
    BY <1>7 DEF DeleteArticle, CanWrite
  <2>2. NoRow("deleted") \in Row /\ SoundRow(NoRow("deleted"))
    BY NoRowType, EmptyRowIsSound
  <2>3. Stored(a) => SoundImage(a, NoRow("deleted"))
    BY <1>3, <2>2 DEF SoundImage, NoRow
  <2>. QED BY <1>7, <2>1, <2>2, <2>3 DEF DeleteArticle
<1>. QED BY <1>4, <1>5, <1>6, <1>7 DEF Handle

(* The inductive invariant holds of the empty tables.                        *)
LEMMA WorkflowInit == Init => WorkflowInv
<1> SUFFICES ASSUME Init PROVE WorkflowInv
  OBVIOUS
<1>1. RowsSound
  BY EmptyRowIsSound DEF Init, RowsSound
<1>2. \A a \in Article : holder[a] = Free
  BY DEF Init
<1>3. \A r \in Request : req[r].phase = "idle" /\ req[r].op = "create"
  BY DEF Init, NoReq
<1>4. \A r \in Request : ~Open(r) /\ SlotOK(r)
  BY <1>3 DEF Open, SlotOK
<1>5. RunsPast
  BY DEF Init, RunsPast, NoRun
<1>. QED BY <1>1, <1>2, <1>3, <1>4, <1>5, NamesApart
         DEF WorkflowInv, ImgsSound, LocksMatch, HeldDue

(* A write of a sound image keeps the invariant: it takes a free row lock    *)
(* and leaves the committed rows alone.                                      *)
LEMMA WriteKeeps ==
  ASSUME TypeOK, WorkflowInv,
         NEW r \in Request, NEW a \in Article, NEW image \in Row,
         Write(r, a, image), SoundImage(a, image), holder[a] = Free,
         req[r].phase # "wrote",
         req[r].op = "transition" => image.status = req[r].to,
         req[r].op = "schedule" => image.status = "scheduled"
  PROVE  WorkflowInv'
<1>1. /\ img' = [img EXCEPT ![a] = image] /\ holder' = [holder EXCEPT ![a] = r]
      /\ req' = [req EXCEPT ![r] = [req[r] EXCEPT !.phase = "wrote", !.art = a]]
      /\ UNCHANGED <<row, job, now, faults>>
  BY DEF Write, TypeOK
<1>2. req'[r].phase = "wrote" /\ req'[r].art = a /\ req'[r].op = req[r].op /\ req'[r].to = req[r].to
  BY <1>1 DEF TypeOK, Req
<1>3. \A s \in Request \ {r} : req'[s] = req[s]
  BY <1>1 DEF TypeOK
<1>4. RowsSound'
  BY <1>1 DEF WorkflowInv, RowsSound, SoundRow
<1>5. ImgsSound'
  BY <1>1 DEF WorkflowInv, ImgsSound, SoundImage, SoundRow, TypeOK
<1>6. LocksMatch'
  BY <1>1, <1>2, <1>3, NamesApart DEF WorkflowInv, LocksMatch, TypeOK
<1>7. HeldDue'
  BY <1>1, NamesApart DEF WorkflowInv, HeldDue, DueBy, TypeOK
<1>8. RunsPast'
  BY <1>1 DEF WorkflowInv, RunsPast
<1>9. ASSUME NEW s \in Request PROVE SlotOK(s)'
  <2>1. CASE s = r
    BY <1>1, <1>2, <2>1 DEF SlotOK, Open, TypeOK
  <2>2. CASE s # r
    <3>1. req[s].phase = "wrote" => holder[req[s].art] = s /\ req[s].art \in Article
      BY DEF WorkflowInv, LocksMatch, TypeOK, Open
    <3>2. req[s].phase = "wrote" => req[s].art # a
      BY <3>1, NamesApart
    <3>. QED BY <1>1, <1>3, <2>2, <3>1, <3>2 DEF WorkflowInv, SlotOK, Open, TypeOK
  <2>. QED BY <2>1, <2>2
<1>. QED BY <1>4, <1>5, <1>6, <1>7, <1>8, <1>9 DEF WorkflowInv

(* A slot that holds no lock may be answered or filled anew.  *)
LEMMA SlotKeeps ==
  ASSUME TypeOK, WorkflowInv, NEW r \in Request, NEW q \in Req,
         req[r].phase # "wrote", q.phase # "wrote",
         q.phase \notin {"waiting", "aborted"} => q.op = "create",
         req' = [req EXCEPT ![r] = q],
         UNCHANGED <<row, img, holder, job, now, faults>>
  PROVE  WorkflowInv'
<1>1. req'[r] = q /\ \A s \in Request \ {r} : req'[s] = req[s]
  BY DEF TypeOK
<1>2. RowsSound' /\ ImgsSound' /\ HeldDue' /\ RunsPast'
  BY DEF WorkflowInv, RowsSound, ImgsSound, HeldDue, RunsPast, SoundRow, SoundImage, DueBy
<1>3. LocksMatch'
  BY <1>1 DEF WorkflowInv, LocksMatch
<1>4. \A s \in Request : SlotOK(s)'
  BY <1>1 DEF WorkflowInv, SlotOK, Open
<1>. QED BY <1>2, <1>3, <1>4 DEF WorkflowInv

(* p ends its transaction: its locks go, and its slot with them. *)
LEMMA EndKeeps ==
  ASSUME TypeOK, WorkflowInv, NEW p \in Request \cup Job,
         DropLocks(p), CommitRows(p) \/ UNCHANGED row,
         \/ \E phase \in {"acked", "failed"} : p \in Request /\ Answer(p, phase) /\ UNCHANGED job
         \/ p \in Job /\ UNCHANGED req /\ job' = [job EXCEPT ![p] = NoRun],
         UNCHANGED now
  PROVE  WorkflowInv'
<1>1. \A a \in Article :
        /\ holder[a] = p => holder'[a] = Free
        /\ holder[a] # p => holder'[a] = holder[a] /\ img'[a] = img[a] /\ row'[a] = row[a]
  BY DEF DropLocks, CommitRows, TypeOK
<1>2. \A a \in Article : row'[a] = row[a] \/ (holder[a] = p /\ row'[a] = img[a])
  BY DEF CommitRows, TypeOK
<1>3. p # Free
  BY NamesApart
<1>4. RowsSound'
  BY <1>2, <1>3 DEF WorkflowInv, RowsSound, ImgsSound, SoundImage, SoundRow
<1>5. ImgsSound'
  BY <1>1 DEF WorkflowInv, ImgsSound, SoundImage, SoundRow
<1>6. HeldDue'
  BY <1>1, <1>3, NamesApart DEF WorkflowInv, HeldDue, DueBy, Publisher, Free
<1>7. RunsPast'
  BY BoundsAssumption DEF WorkflowInv, RunsPast, NoRun, TypeOK
<1>8. CASE \E phase \in {"acked", "failed"} : p \in Request /\ Answer(p, phase)
  <2>1. req'[p].phase \in {"acked", "failed"} /\ req'[p].op = "create"
    BY <1>8 DEF Answer, NoReq, TypeOK
  <2>2. \A s \in Request \ {p} : req'[s] = req[s]
    BY <1>8 DEF Answer, TypeOK
  <2>3. LocksMatch'
    BY <1>1, <1>8, <2>1, <2>2, NamesApart DEF WorkflowInv, LocksMatch
  <2>4. ASSUME NEW s \in Request PROVE SlotOK(s)'
    <3>1. CASE s = p
      BY <2>1, <3>1 DEF SlotOK, Open
    <3>2. CASE s # p
      <4>1. req[s].phase = "wrote" => req[s].art \in Article /\ holder[req[s].art] = s
        BY DEF WorkflowInv, LocksMatch, TypeOK, Open
      <4>. QED BY <1>1, <2>2, <3>2, <4>1 DEF WorkflowInv, SlotOK, Open
    <3>. QED BY <3>1, <3>2
  <2>. QED BY <1>4, <1>5, <1>6, <1>7, <2>3, <2>4 DEF WorkflowInv
<1>9. CASE p \in Job /\ UNCHANGED req
  <2>1. \A s \in Request : s # p
    BY <1>9, NamesAssumption
  <2>2. LocksMatch'
    BY <1>1, <1>9, <2>1, NamesApart DEF WorkflowInv, LocksMatch
  <2>3. ASSUME NEW s \in Request PROVE SlotOK(s)'
    <3>1. req[s].phase = "wrote" => req[s].art \in Article /\ holder[req[s].art] = s
      BY DEF WorkflowInv, LocksMatch, TypeOK, Open
    <3>. QED BY <1>1, <1>9, <2>1, <3>1 DEF WorkflowInv, SlotOK, Open
  <2>. QED BY <1>4, <1>5, <1>6, <1>7, <2>2, <2>3 DEF WorkflowInv
<1>. QED BY <1>8, <1>9

(* A row a job selects when it reaches it becomes a sound image, and is due  *)
(* when the job is the publisher.                                            *)
LEMMA JobImageIsSound ==
  ASSUME TypeOK, WorkflowInv, NEW j \in Job, NEW a \in Article,
         Selects(j, row[a], job[j].now)
  PROVE  /\ SoundImage(a, Updated(j, row[a]))
         /\ j = Publisher => DueBy(row[a], now)
<1>1. row[a] \in Row /\ SoundRow(row[a])
  BY DEF WorkflowInv, RowsSound, TypeOK
<1>2. /\ Updated(j, row[a]).sched = row[a].sched
      /\ Updated(j, row[a]).vers = row[a].vers
      /\ Updated(j, row[a]).hasEditor = row[a].hasEditor
      /\ j # Publisher => Updated(j, row[a]).status = "archived"
  BY <1>1 DEF Updated, Row
<1>3. row[a].status # "deleted"
  BY DEF Selects, DueBy
<1>4. j = Publisher => DueBy(row[a], job[j].now)
  BY NamesApart DEF Selects
<1>5. j = Publisher => DueBy(row[a], now)
  <2>1. job[j].now <= now /\ job[j].now \in Nat /\ now \in Nat /\ row[a].sched \in Nat
    BY <1>1, BoundsAssumption DEF WorkflowInv, RunsPast, TypeOK, JobRun, Row
  <2>. QED BY <1>4, <2>1 DEF DueBy
<1>6. SoundRow(Updated(j, row[a]))
  BY <1>1, <1>2 DEF SoundRow
<1>7. j = Publisher => Updated(j, row[a]).hasEditor
  BY <1>1, <1>2, <1>4 DEF SoundRow, DueBy
<1>. QED BY <1>2, <1>3, <1>5, <1>6, <1>7 DEF SoundImage

(* The steps of the jobs keep the invariant.                                 *)
LEMMA JobKeeps ==
  ASSUME TypeOK, WorkflowInv, NEW j \in Job, RunJob(j)
  PROVE  WorkflowInv'
<1>1. CASE JobStart(j)
  <2>1. RunsPast'
    BY <1>1, BoundsAssumption DEF JobStart, WorkflowInv, RunsPast, TypeOK
  <2>. QED BY <1>1, <2>1 DEF JobStart, WorkflowInv, RowsSound, ImgsSound, LocksMatch,
              HeldDue, SlotOK, SoundRow, SoundImage, DueBy, Open
<1>2. ASSUME NEW a \in Article, JobRow(j, a)
      PROVE  WorkflowInv'
  <2>1. holder[a] = Free /\ UNCHANGED <<row, req, now>>
    BY <1>2 DEF JobRow
  <2>2. RunsPast'
    BY <1>2 DEF JobRow, WorkflowInv, RunsPast, TypeOK, JobRun
  <2>3. CASE UNCHANGED <<img, holder>>
    BY <2>1, <2>2, <2>3 DEF WorkflowInv, RowsSound, ImgsSound, LocksMatch, HeldDue,
       SlotOK, SoundRow, SoundImage, DueBy, Open
  <2>4. CASE ~UNCHANGED <<img, holder>>
    <3>1. /\ Selects(j, row[a], job[j].now)
          /\ img' = [img EXCEPT ![a] = Updated(j, row[a])]
          /\ holder' = [holder EXCEPT ![a] = j]
      BY <1>2, <2>4 DEF JobRow
    <3>2. RowsSound'
      BY <2>1 DEF WorkflowInv, RowsSound, SoundRow
    <3>3. ImgsSound'
      BY <2>1, <3>1, JobImageIsSound DEF WorkflowInv, ImgsSound, SoundImage, SoundRow, TypeOK
    <3>4. \A r \in Request : r # j
      BY NamesAssumption
    <3>5. LocksMatch'
      BY <2>1, <3>1, <3>4, NamesApart DEF WorkflowInv, LocksMatch, TypeOK
    <3>6. HeldDue'
      BY <2>1, <3>1, JobImageIsSound DEF WorkflowInv, HeldDue, DueBy, TypeOK
    <3>7. ASSUME NEW r \in Request PROVE SlotOK(r)'
      <4>1. req[r].phase = "wrote" => req[r].art \in Article /\ holder[req[r].art] = r
        BY DEF WorkflowInv, LocksMatch, TypeOK, Open
      <4>2. req[r].phase = "wrote" => req[r].art # a
        BY <2>1, <4>1, NamesApart
      <4>. QED BY <2>1, <3>1, <4>1, <4>2 DEF WorkflowInv, SlotOK, Open, TypeOK
    <3>. QED BY <2>2, <3>2, <3>3, <3>5, <3>6, <3>7 DEF WorkflowInv
  <2>. QED BY <2>3, <2>4
<1>3. CASE JobCommit(j)
  BY <1>3, EndKeeps DEF JobCommit
<1>4. CASE JobFail(j)
  BY <1>4, EndKeeps DEF JobFail
<1>. QED BY <1>1, <1>2, <1>3, <1>4 DEF RunJob

(* So do the wire feed, the clock and the start of the server.               *)
LEMMA OtherKeeps ==
  ASSUME TypeOK, WorkflowInv,
         (\E a \in Article : IngestWireFeeds(a) \/ GrowStale(a)) \/ Tick \/ Boot
  PROVE  WorkflowInv'
<1>1. ASSUME NEW a \in Article, IngestWireFeeds(a)
      PROVE  WorkflowInv'
  <2>1. RowsSound'
    BY <1>1, DraftIsSound DEF IngestWireFeeds, WorkflowInv, RowsSound, SoundRow, TypeOK
  <2>2. ImgsSound' /\ HeldDue'
    BY <1>1, NamesApart DEF IngestWireFeeds, WorkflowInv, ImgsSound, HeldDue, SoundImage, SoundRow, DueBy, TypeOK
  <2>. QED BY <1>1, <2>1, <2>2 DEF IngestWireFeeds, WorkflowInv, LocksMatch, RunsPast, SlotOK, Open
<1>2. ASSUME NEW a \in Article, GrowStale(a)
      PROVE  WorkflowInv'
  <2>1. \A b \in Article : /\ row'[b].status = row[b].status
                           /\ row'[b].sched = row[b].sched
                           /\ row'[b].hasEditor = row[b].hasEditor
                           /\ row'[b].vers = row[b].vers
    BY <1>2 DEF GrowStale, TypeOK, Row
  <2>2. RowsSound'
    BY <2>1 DEF WorkflowInv, RowsSound, SoundRow
  <2>3. ImgsSound' /\ HeldDue'
    BY <1>2, <2>1 DEF GrowStale, WorkflowInv, ImgsSound, HeldDue, SoundImage, SoundRow, DueBy
  <2>. QED BY <1>2, <2>2, <2>3 DEF GrowStale, WorkflowInv, LocksMatch, RunsPast, SlotOK, Open
<1>3. CASE Tick
  <2>1. now' = now + 1 /\ now \in Nat
    BY <1>3, BoundsAssumption DEF Tick, TypeOK
  <2>2. HeldDue'
    <3> SUFFICES ASSUME NEW a \in Article, holder[a] = Publisher
                 PROVE  DueBy(row[a], now + 1)
      BY <1>3 DEF HeldDue, Tick, DueBy
    <3>1. DueBy(row[a], now) /\ row[a].sched \in Nat
      BY BoundsAssumption DEF WorkflowInv, HeldDue, TypeOK, Row
    <3>. QED BY <2>1, <3>1 DEF DueBy
  <2>3. RunsPast'
    BY <1>3, <2>1, BoundsAssumption DEF Tick, WorkflowInv, RunsPast, TypeOK, JobRun
  <2>. QED BY <1>3, <2>2, <2>3 DEF Tick, WorkflowInv, RowsSound, ImgsSound, LocksMatch,
              SlotOK, SoundRow, SoundImage, Open
<1>4. CASE Boot
  <2>1. RowsSound'
    <3>1. ASSUME NEW a \in Article PROVE SoundRow(row'[a])
      <4>1. SoundRow(row[a]) /\ row[a] \in Row
        BY DEF WorkflowInv, RowsSound, TypeOK
      <4>2. SoundRow([row[a] EXCEPT !.status = "published"])
        BY <4>1 DEF SoundRow, Row
      <4>. QED BY <1>4, <4>1, <4>2 DEF Boot, TypeOK
    <3>. QED BY <3>1 DEF RowsSound, SoundRow
  <2>2. \A a \in Article : holder'[a] = Free
    BY <1>4 DEF Boot
  <2>3. ASSUME NEW r \in Request
        PROVE  SlotOK(r)' /\ req'[r].phase # "wrote"
    <3>1. req'[r] = NoReq("failed") \/ (~Open(r) /\ req'[r] = req[r])
      BY <1>4 DEF Boot
    <3>2. NoReq("failed").phase = "failed" /\ NoReq("failed").op = "create"
      BY DEF NoReq
    <3>. QED BY <3>1, <3>2 DEF WorkflowInv, SlotOK, Open
  <2>4. RunsPast'
    BY <1>4, BoundsAssumption DEF Boot, RunsPast, NoRun, TypeOK
  <2>. QED BY <2>1, <2>2, <2>3, <2>4, NamesApart DEF WorkflowInv, ImgsSound, LocksMatch, HeldDue
<1>. QED BY <1>1, <1>2, <1>3, <1>4

(* The inductive invariant is inductive.                                     *)
LEMMA WorkflowStep == TypeOK /\ WorkflowInv /\ [Next]_vars => WorkflowInv'
<1> SUFFICES ASSUME TypeOK, WorkflowInv, [Next]_vars PROVE WorkflowInv'
  OBVIOUS
<1>1. ASSUME NEW r \in Request, Ask(r)
      PROVE  WorkflowInv'
  <2>1. ASSUME NEW a \in Article, CreateArticle(r, a)
        PROVE  WorkflowInv'
    <3> DEFINE image == [NewDraft EXCEPT !.vers[1] = 1]
    <3>1. ~Open(r) /\ holder[a] = Free /\ row[a].status = "absent" /\ Write(r, a, image)
      BY <2>1 DEF CreateArticle
    <3>2. image.status = "draft"
      BY DEF NewDraft, NoRow
    <3>3. SoundImage(a, image)
      BY <3>1, <3>2, DraftIsSound DEF SoundImage
    <3>4. req[r].op = "create" /\ req[r].phase # "wrote"
      BY <3>1 DEF WorkflowInv, SlotOK, Open
    <3>. QED BY <3>1, <3>3, <3>4, NewDraftType, WriteKeeps
  <2>2. ASSUME NEW a \in Article, Asks(r, a)
        PROVE  WorkflowInv'
    <3>1. ~Open(r) /\ UNCHANGED <<row, img, holder, job, now, faults>>
      BY <2>2, AskStep
    <3>2. req[r].phase # "wrote"
      BY <3>1 DEF Open
    <3>3. CASE \E phase \in {"acked", "failed"} : Answer(r, phase)
      <4>1. \A phase \in {"acked", "failed"} :
               NoReq(phase) \in Req /\ NoReq(phase).phase = phase /\ NoReq(phase).op = "create"
        BY NoReqType DEF NoReq, Phase
      <4>. QED BY <3>1, <3>2, <3>3, <4>1, SlotKeeps DEF Answer
    <3>4. CASE \E q \in WaitingFor(a) : Wait(r, q)
      <4>1. PICK q \in WaitingFor(a) : Wait(r, q)
        BY <3>4
      <4>2. [q EXCEPT !.phase = "waiting"] \in Req /\ [q EXCEPT !.phase = "waiting"].phase = "waiting"
        BY WaitingForType DEF Req, Phase
      <4>. QED BY <3>1, <3>2, <4>1, <4>2, SlotKeeps DEF Wait
    <3>. QED BY <2>2, <3>3, <3>4, AskStep
  <2>. QED BY <1>1, <2>1, <2>2 DEF Ask, Asks
<1>2. ASSUME NEW r \in Request, Handle(r)
      PROVE  WorkflowInv'
  <2>1. req[r].phase = "waiting" /\ req[r].art \in Article /\ holder[req[r].art] = Free
    BY <1>2, HandleStep
  <2>2. CASE \E image \in Row :
               /\ Write(r, req[r].art, image) /\ SoundImage(req[r].art, image)
               /\ req[r].op = "transition" => image.status = req[r].to
               /\ req[r].op = "schedule" => image.status = "scheduled"
    BY <2>1, <2>2, WriteKeeps
  <2>3. CASE /\ \E phase \in {"acked", "failed"} : Answer(r, phase)
             /\ UNCHANGED <<row, img, holder, job, now, faults>>
    <3>1. \A phase \in {"acked", "failed"} :
             NoReq(phase) \in Req /\ NoReq(phase).phase = phase /\ NoReq(phase).op = "create"
      BY NoReqType DEF NoReq, Phase
    <3>. QED BY <2>1, <2>3, <3>1, SlotKeeps DEF Answer
  <2>4. CASE /\ req' = [req EXCEPT ![r].phase = "aborted"]
             /\ UNCHANGED <<row, img, holder, job, now, faults>>
    <3>1. /\ [req[r] EXCEPT !.phase = "aborted"] \in Req
          /\ [req[r] EXCEPT !.phase = "aborted"].phase = "aborted"
      BY DEF TypeOK, Req, Phase
    <3>. QED BY <2>1, <2>4, <3>1, SlotKeeps
  <2>. QED BY <1>2, <2>2, <2>3, <2>4, SoundWrites
<1>3. ASSUME NEW r \in Request, Finish(r)
      PROVE  WorkflowInv'
  <2>1. CASE Commit(r) \/ Rollback(r)
    BY <2>1, EndKeeps DEF Commit, Rollback
  <2>2. CASE CommitFails(r)
    <3>1. NoReq("failed") \in Req /\ NoReq("failed").phase = "failed" /\ NoReq("failed").op = "create"
      BY NoReqType DEF NoReq, Phase
    <3>. QED BY <2>2, <3>1, SlotKeeps DEF CommitFails, Answer
  <2>. QED BY <1>3, <2>1, <2>2 DEF Finish
<1>4. CASE UNCHANGED vars
  BY <1>4 DEF vars, WorkflowInv, RowsSound, ImgsSound, LocksMatch, HeldDue, RunsPast,
     SlotOK, SoundRow, SoundImage, DueBy, Open
<1>. QED BY <1>1, <1>2, <1>3, <1>4, JobKeeps, OtherKeeps DEF Next

(* Rows and row images stay sound, locks match the phases of the requests    *)
(* that hold them, and the publisher holds only rows that were due: what the *)
(* other theorems are read off.                                              *)
THEOREM WorkflowInvariant == Spec => []WorkflowInv
<1>1. Init => TypeOK /\ WorkflowInv
  BY TypeInit, WorkflowInit
<1>2. TypeOK /\ WorkflowInv /\ [Next]_vars => (TypeOK /\ WorkflowInv)'
  BY TypeStep, WorkflowStep
<1>. QED BY <1>1, <1>2, PTL DEF Spec

(* Edit version numbers never clash, however many editors save at once.     *)
THEOREM EditVersionsNeverClash == Spec => []EditVersionsUnique
<1>1. WorkflowInv => EditVersionsUnique
  BY DEF WorkflowInv, RowsSound, SoundRow, EditVersionsUnique
<1>. QED BY <1>1, WorkflowInvariant, PTL

-----------------------------------------------------------------------------
(* The action properties, from the invariant.                               *)

(* Which steps change committed rows, and how.                              *)
LEMMA RowChanges ==
  ASSUME TypeOK, WorkflowInv, [Next]_vars, NEW a \in Article, row'[a] # row[a]
  PROVE  \/ holder[a] # Free /\ row'[a] = img[a]
         \/ row[a].status = "absent" /\ row'[a] = NewDraft
         \/ row[a].status = "draft" /\ row'[a].status = "draft"
         \/ Stored(a) /\ faults' # faults /\ row'[a].status = "published"
<1>1. ASSUME NEW r \in Request, Ask(r) PROVE FALSE
  BY <1>1, AskStep DEF Ask, Asks, CreateArticle, Write
<1>2. ASSUME NEW r \in Request, Handle(r) PROVE FALSE
  BY <1>2, HandleStep DEF Write
<1>3. ASSUME NEW p \in Request \cup Job, CommitRows(p)
      PROVE  holder[a] # Free /\ row'[a] = img[a]
  BY <1>3, NamesApart DEF CommitRows
<1>4. ASSUME NEW r \in Request, Finish(r)
      PROVE  holder[a] # Free /\ row'[a] = img[a]
  BY <1>3, <1>4 DEF Finish, Commit, CommitFails, Rollback
<1>5. ASSUME NEW j \in Job, RunJob(j)
      PROVE  holder[a] # Free /\ row'[a] = img[a]
  BY <1>3, <1>5 DEF RunJob, JobStart, JobRow, JobCommit, JobFail
<1>6. ASSUME NEW b \in Article, IngestWireFeeds(b)
      PROVE  row[a].status = "absent" /\ row'[a] = NewDraft
  BY <1>6 DEF IngestWireFeeds, TypeOK
<1>7. ASSUME NEW b \in Article, GrowStale(b)
      PROVE  row[a].status = "draft" /\ row'[a].status = "draft"
  BY <1>7 DEF GrowStale, TypeOK, Row
<1>8. CASE Boot
  <2>1. faults' # faults
    BY <1>8, BoundsAssumption DEF Boot, TypeOK
  <2>2. Stored(a) /\ row'[a].status = "published"
    BY <1>8 DEF Boot, TypeOK, Row
  <2>. QED BY <2>1, <2>2
<1>9. ~Tick /\ ~UNCHANGED vars
  BY DEF Tick, vars
<1>. QED BY <1>1, <1>2, <1>4, <1>5, <1>6, <1>7, <1>8, <1>9 DEF Next

(* Nobody but an editor publishes, apart from the sweep at start.           *)
THEOREM PublishedByEditorHolds == Spec => PublishedByEditor
<1>1. TypeOK /\ WorkflowInv /\ [Next]_vars =>
        [\A a \in Article :
           (row[a].status # "published" /\ row'[a].status = "published")
             => (row'[a].hasEditor \/ faults' # faults)]_vars
  <2> SUFFICES ASSUME TypeOK, WorkflowInv, [Next]_vars, NEW a \in Article,
                      row[a].status # "published", row'[a].status = "published",
                      faults' = faults
               PROVE  row'[a].hasEditor
    OBVIOUS
  <2>1. holder[a] # Free /\ row'[a] = img[a]
    BY RowChanges DEF NewDraft, NoRow
  <2>. QED BY <2>1 DEF WorkflowInv, ImgsSound, SoundImage
<1>. QED BY <1>1, TypeCorrect, WorkflowInvariant, PTL DEF Spec, PublishedByEditor

(* The publisher is never early.                                            *)
THEOREM NeverPublishedEarlyHolds == Spec => NeverPublishedEarly
<1>1. WorkflowInv =>
        [\A a \in Article :
           (row[a].status # "published" /\ row'[a].status = "published"
             /\ holder[a] = Publisher) => DueBy(row[a], now)]_vars
  BY DEF WorkflowInv, HeldDue
<1>. QED BY <1>1, WorkflowInvariant, PTL DEF NeverPublishedEarly

(* What is deleted stays deleted.                                           *)
THEOREM DeletedForGoodHolds == Spec => DeletedForGood
<1>1. TypeOK /\ WorkflowInv /\ [Next]_vars =>
        [\A a \in Article : row[a].status = "deleted" => row'[a] = row[a]]_vars
  <2> SUFFICES ASSUME TypeOK, WorkflowInv, [Next]_vars, NEW a \in Article,
                      row[a].status = "deleted", row'[a] # row[a]
               PROVE  FALSE
    OBVIOUS
  <2>1. holder[a] # Free
    BY RowChanges DEF Stored, Status
  <2>. QED BY <2>1 DEF WorkflowInv, ImgsSound, SoundImage
<1>. QED BY <1>1, TypeCorrect, WorkflowInvariant, PTL DEF Spec, DeletedForGood

(* Only a commit answers a transition or a schedule that had to write.      *)
LEMMA OnlyCommitAcks ==
  ASSUME TypeOK, WorkflowInv, [Next]_vars, NEW r \in Request,
         req[r].phase # "acked", req'[r].phase = "acked",
         req[r].op \in {"transition", "schedule"}
  PROVE  Commit(r)
<1>1. ASSUME NEW s \in Request, Ask(s) PROVE FALSE
  <2>1. CASE \E a \in Article : CreateArticle(s, a)
    <3>1. ~Open(s) /\ req'[s].phase = "wrote" /\ \A q \in Request \ {s} : req'[q] = req[q]
      BY <2>1 DEF CreateArticle, Write, TypeOK, Req
    <3>. QED BY <3>1
  <2>2. CASE \E a \in Article : Asks(s, a)
    <3>1. ~Open(s)
      BY <2>2, AskStep
    <3>2. \A q \in Request \ {s} : req'[q] = req[q]
      BY <2>2, AskStep DEF Answer, Wait, TypeOK
    <3>. QED BY <3>1, <3>2 DEF WorkflowInv, SlotOK
  <2>. QED BY <1>1, <2>1, <2>2 DEF Ask, Asks
<1>2. ASSUME NEW s \in Request, Handle(s) PROVE FALSE
  <2> DEFINE Writes  == \E image \in Row : Write(s, req[s].art, image)
             Answers == /\ \E phase \in {"acked", "failed"} : Answer(s, phase)
                        /\ req[s].op \notin {"transition", "schedule"}
             Aborts  == req' = [req EXCEPT ![s].phase = "aborted"]
  <2>0. Writes \/ Answers \/ Aborts
    BY <1>2, SoundWrites
  <2>1. \/ req'[s].phase # "acked"
        \/ req[s].op \notin {"transition", "schedule"}
    <3>1. Writes => req'[s].phase = "wrote"
      BY DEF Write, TypeOK, Req
    <3>2. Aborts => req'[s].phase = "aborted"
      BY DEF TypeOK, Req
    <3>. QED BY <2>0, <3>1, <3>2
  <2>2. \A q \in Request \ {s} : req'[q] = req[q]
    BY <2>0 DEF Write, Answer, TypeOK
  <2>. QED BY <2>1, <2>2
<1>3. ASSUME NEW s \in Request, Finish(s) PROVE Commit(r)
  <2>1. \A q \in Request \ {s} : req'[q] = req[q]
    BY <1>3 DEF Finish, Commit, CommitFails, Rollback, Answer, TypeOK
  <2>2. CommitFails(s) \/ Rollback(s) => req'[s].phase = "failed"
    BY DEF CommitFails, Rollback, Answer, NoReq, TypeOK
  <2>. QED BY <1>3, <2>1, <2>2 DEF Finish
<1>4. ASSUME NEW j \in Job, RunJob(j) PROVE FALSE
  BY <1>4 DEF RunJob, JobStart, JobRow, JobCommit, JobFail
<1>5. CASE Boot
  BY <1>5 DEF Boot, NoReq
<1>6. CASE (\E a \in Article : IngestWireFeeds(a) \/ GrowStale(a)) \/ Tick
  BY <1>6 DEF IngestWireFeeds, GrowStale, Tick
<1>7. CASE UNCHANGED vars
  BY <1>7 DEF vars
<1>. QED BY <1>1, <1>2, <1>3, <1>4, <1>5, <1>6, <1>7 DEF Next

(* A 2xx answer to a transition or a schedule is the truth.                 *)
THEOREM AckedMeansAppliedHolds == Spec => AckedMeansApplied
<1> DEFINE Honest(r) ==
      (req[r].phase # "acked" /\ req'[r].phase = "acked")
        => /\ req[r].op = "transition" => row'[req[r].art].status = req[r].to
           /\ req[r].op = "schedule" => row'[req[r].art].status = "scheduled"
<1>1. ASSUME TypeOK, WorkflowInv, NEW r \in Request, Commit(r)
      PROVE  Honest(r)
  <2>1. req[r].phase = "wrote" /\ req[r].art \in Article /\ holder[req[r].art] = r
    BY <1>1 DEF Commit, WorkflowInv, LocksMatch, TypeOK, Open
  <2>2. row'[req[r].art] = img[req[r].art]
    BY <1>1, <2>1 DEF Commit, CommitRows
  <2>. QED BY <1>1, <2>1, <2>2 DEF WorkflowInv, SlotOK
<1>2. TypeOK /\ WorkflowInv /\ [Next]_vars => [\A r \in Request : Honest(r)]_vars
  BY <1>1, OnlyCommitAcks
<1>. QED BY <1>2, TypeCorrect, WorkflowInvariant, PTL DEF Spec, AckedMeansApplied

-----------------------------------------------------------------------------
(* What a lock holder has written: that nothing else happens to the status   *)
(* of a locked row, so that a commit makes of it what was meant.             *)

(* The change of status that r has written, from what is committed.          *)
WrittenFor(r, from, to) ==
  \/ req[r].op = "create" /\ from = "absent" /\ to = "draft"
  \/ /\ from \in Status
     /\ \/ req[r].op = "update" /\ to = from
        \/ req[r].op = "transition" /\ to = req[r].to
        \/ req[r].op = "schedule" /\ to = "scheduled"
        \/ req[r].op = "delete" /\ to = "deleted"

(* Each holder of a row lock has written what it is there for.               *)
HeldFor ==
  \A a \in Article :
    /\ holder[a] \in Request => WrittenFor(holder[a], row[a].status, img[a].status)
    /\ holder[a] = Publisher =>
         row[a].status \in {"draft", "approved", "scheduled"} /\ img[a].status = "published"
    /\ holder[a] = Archiver => row[a].status = "draft" /\ img[a].status = "archived"

(* What a handler writes over a row: the row with what it was asked for.     *)
LEMMA WrittenImages ==
  ASSUME TypeOK, NEW r \in Request, Handle(r), req'[r].phase = "wrote"
  PROVE  LET a == req[r].art
         IN  /\ Stored(a)
             /\ \/ req[r].op = "update" /\ img'[a].status = row[a].status
                \/ req[r].op = "transition" /\ img'[a].status = req[r].to
                \/ req[r].op = "schedule" /\ img'[a].status = "scheduled"
                \/ req[r].op = "delete" /\ img'[a].status = "deleted"
<1> DEFINE a == req[r].art
<1>1. /\ req[r].phase = "waiting" /\ a \in Article /\ row[a] \in Row /\ img \in [Article -> Row]
      /\ req[r] \in Req /\ req \in [Request -> Req]
  BY HandleStep DEF TypeOK
<1>2. Stored(a)
  <2>1. ASSUME \E image \in Row : Stored(a) /\ Write(r, a, image) PROVE Stored(a)
    BY <2>1
  <2>2. ASSUME \E phase \in {"acked", "failed"} : Answer(r, phase) PROVE FALSE
    BY <1>1, <2>2 DEF Answer, NoReq
  <2>3. ASSUME req' = [req EXCEPT ![r].phase = "aborted"] PROVE FALSE
    BY <1>1, <2>3 DEF Req
  <2>. QED BY <2>1, <2>2, <2>3, HandleStep
<1>3. ASSUME NEW image, Write(r, a, image) PROVE img'[a] = image
  BY <1>1, <1>3 DEF Write
<1>4. CASE UpdateArticle(r)
  <2>1. PICK n \in Version :
          Write(r, a, [row[a] EXCEPT !.stale = FALSE, !.vers = AddVersion(@, n)])
    BY <1>2, <1>4 DEF UpdateArticle
  <2>2. img'[a].status = row[a].status
    BY <1>1, <1>3, <2>1 DEF Row
  <2>. QED BY <1>2, <1>4, <2>2 DEF UpdateArticle, CanWrite
<1>5. CASE TransitionStatus(r)
  <2>1. Write(r, a, [row[a] EXCEPT !.status = req[r].to,
                                   !.hasEditor = EditorAfter(row[a], req[r].to),
                                   !.stale = FALSE, !.vers = AddVersion(@, 1)])
    BY <1>2, <1>5 DEF TransitionStatus, UpdateOfDeletedRow
  <2>2. img'[a].status = req[r].to
    BY <1>1, <1>3, <2>1 DEF Row
  <2>. QED BY <1>2, <1>5, <2>2 DEF TransitionStatus, CanWrite
<1>6. CASE ScheduleArticle(r)
  <2>1. Write(r, a, [row[a] EXCEPT !.status = "scheduled", !.sched = req[r].at,
                                   !.hasEditor = TRUE, !.stale = FALSE,
                                   !.vers = AddVersion(@, 1)])
    BY <1>2, <1>6 DEF ScheduleArticle, UpdateOfDeletedRow
  <2>2. img'[a].status = "scheduled"
    BY <1>1, <1>3, <2>1 DEF Row
  <2>. QED BY <1>2, <1>6, <2>2 DEF ScheduleArticle, CanWrite
<1>7. CASE DeleteArticle(r)
  <2>1. Write(r, a, NoRow("deleted"))
    BY <1>2, <1>7 DEF DeleteArticle
  <2>2. img'[a].status = "deleted"
    BY <1>3, <2>1 DEF NoRow
  <2>. QED BY <1>2, <1>7, <2>2 DEF DeleteArticle, CanWrite
<1>. QED BY <1>4, <1>5, <1>6, <1>7 DEF Handle

(* Who takes the lock of a row.                                              *)
LEMMA Taking ==
  ASSUME TypeOK, [Next]_vars, NEW a \in Article, holder[a] = Free, holder'[a] # Free
  PROVE  /\ row' = row
         /\ \/ \E r \in Request : CreateArticle(r, a)
            \/ \E r \in Request : /\ Handle(r) /\ req[r].art = a
                                  /\ \E image \in Row : Write(r, a, image)
            \/ \E j \in Job : JobRow(j, a) /\ Selects(j, row[a], job[j].now)
<1>1. ASSUME NEW r \in Request, Ask(r) PROVE row' = row /\ CreateArticle(r, a)
  <2>1. PICK b \in Article : CreateArticle(r, b)
    BY <1>1, AskStep DEF Ask, Asks
  <2>2. b = a
    BY <2>1 DEF CreateArticle, Write, TypeOK
  <2>. QED BY <2>1, <2>2 DEF CreateArticle, Write
<1>2. ASSUME NEW r \in Request, Handle(r)
      PROVE  row' = row /\ req[r].art = a /\ \E image \in Row : Write(r, a, image)
  <2>1. PICK image \in Row : Write(r, req[r].art, image)
    BY <1>2, HandleStep
  <2>2. req[r].art = a
    BY <2>1 DEF Write, TypeOK
  <2>. QED BY <2>1, <2>2 DEF Write
<1>3. ASSUME NEW r \in Request, Finish(r) PROVE FALSE
  BY <1>3 DEF Finish, Commit, CommitFails, Rollback, DropLocks
<1>4. ASSUME NEW j \in Job, RunJob(j)
      PROVE  row' = row /\ JobRow(j, a) /\ Selects(j, row[a], job[j].now)
  <2>1. PICK b \in Article : JobRow(j, b)
    BY <1>4 DEF RunJob, JobStart, JobCommit, JobFail, DropLocks
  <2>2. b = a /\ Selects(j, row[a], job[j].now)
    BY <2>1 DEF JobRow, TypeOK
  <2>. QED BY <2>1, <2>2 DEF JobRow
<1>5. ~Boot /\ ~Tick /\ ~UNCHANGED vars
  BY DEF Boot, Tick, vars
<1>6. \A b \in Article : ~IngestWireFeeds(b) /\ ~GrowStale(b)
  BY DEF IngestWireFeeds, GrowStale
<1>. QED BY <1>1, <1>2, <1>3, <1>4, <1>5, <1>6 DEF Next

(* While a row is locked its holder, what that has written and the row's     *)
(* committed status stay.                                                    *)
LEMMA Holding ==
  ASSUME TypeOK, WorkflowInv, [Next]_vars,
         NEW a \in Article, holder[a] # Free, holder'[a] # Free
  PROVE  /\ holder'[a] = holder[a] /\ img'[a] = img[a]
         /\ row'[a].status = row[a].status
         /\ holder[a] \in Request => req'[holder[a]] = req[holder[a]]
<1> DEFINE Stays == /\ holder'[a] = holder[a] /\ img'[a] = img[a] /\ row'[a] = row[a]
<1>0. holder[a] \in Request => req[holder[a]].phase = "wrote"
  BY DEF WorkflowInv, LocksMatch
<1>1. ASSUME NEW r \in Request, Ask(r)
      PROVE  Stays /\ (holder[a] \in Request => req'[holder[a]] = req[holder[a]])
  <2>1. CASE \E b \in Article : CreateArticle(r, b)
    BY <1>0, <2>1 DEF CreateArticle, Write, Open, TypeOK
  <2>2. CASE \E b \in Article : Asks(r, b)
    BY <1>0, <2>2, AskStep DEF Answer, Wait, Open, TypeOK
  <2>. QED BY <1>1, <2>1, <2>2 DEF Ask, Asks
<1>2. ASSUME NEW r \in Request, Handle(r)
      PROVE  Stays /\ (holder[a] \in Request => req'[holder[a]] = req[holder[a]])
  <2>1. req[r].phase = "waiting"
    BY <1>2, HandleStep
  <2>2. \A s \in Request \ {r} : req'[s] = req[s]
    BY <1>2, HandleStep DEF Write, Answer, TypeOK
  <2>3. Stays
    BY <1>2, HandleStep DEF Write, TypeOK
  <2>. QED BY <1>0, <2>1, <2>2, <2>3
<1>3. ASSUME NEW r \in Request, Finish(r)
      PROVE  Stays /\ (holder[a] \in Request => req'[holder[a]] = req[holder[a]])
  <2>1. \A s \in Request \ {r} : req'[s] = req[s]
    BY <1>3 DEF Finish, Commit, CommitFails, Rollback, Answer, TypeOK
  <2>2. Stays /\ holder[a] # r
    BY <1>0, <1>3 DEF Finish, Commit, CommitFails, Rollback, CommitRows, DropLocks
  <2>. QED BY <2>1, <2>2
<1>4. ASSUME NEW j \in Job, RunJob(j) PROVE Stays /\ req' = req
  <2>1. CASE \E b \in Article : JobRow(j, b)
    BY <2>1 DEF JobRow, TypeOK
  <2>2. CASE JobStart(j) \/ JobCommit(j) \/ JobFail(j)
    BY <2>2 DEF JobStart, JobCommit, JobFail, CommitRows, DropLocks
  <2>. QED BY <1>4, <2>1, <2>2 DEF RunJob
<1>5. ASSUME NEW b \in Article, IngestWireFeeds(b) \/ GrowStale(b)
      PROVE  /\ holder' = holder /\ img' = img /\ req' = req
             /\ row'[a].status = row[a].status
  <2>1. CASE IngestWireFeeds(b)
    BY <2>1 DEF IngestWireFeeds, TypeOK
  <2>2. CASE GrowStale(b)
    BY <2>2 DEF GrowStale, TypeOK, Row
  <2>. QED BY <1>5, <2>1, <2>2
<1>6. ~Boot
  BY DEF Boot
<1>7. CASE Tick \/ UNCHANGED vars
  BY <1>7 DEF Tick, vars
<1>. QED BY <1>1, <1>2, <1>3, <1>4, <1>5, <1>6, <1>7 DEF Next

(* A holder writes as it takes the lock, and keeps what it wrote.            *)
LEMMA HeldForStep == TypeOK /\ WorkflowInv /\ HeldFor /\ [Next]_vars => HeldFor'
<1> SUFFICES ASSUME TypeOK, WorkflowInv, HeldFor, [Next]_vars, NEW a \in Article
             PROVE  /\ holder'[a] \in Request =>
                         WrittenFor(holder[a], row[a].status, img[a].status)'
                    /\ holder'[a] = Publisher =>
                         /\ row'[a].status \in {"draft", "approved", "scheduled"}
                         /\ img'[a].status = "published"
                    /\ holder'[a] = Archiver =>
                         row'[a].status = "draft" /\ img'[a].status = "archived"
  BY DEF HeldFor
<1>1. CASE holder'[a] = Free
  BY <1>1, NamesApart DEF Job
<1>2. CASE holder[a] # Free /\ holder'[a] # Free
  BY <1>2, Holding DEF HeldFor, WrittenFor
<1>3. ASSUME NEW r \in Request, CreateArticle(r, a), row' = row
      PROVE  holder'[a] = r /\ WrittenFor(r, row[a].status, img[a].status)'
  <2>1. req[r].op = "create"
    BY <1>3 DEF CreateArticle, WorkflowInv, SlotOK
  <2>2. req'[r].op = "create" /\ holder'[a] = r /\ row[a].status = "absent"
    BY <1>3, <2>1 DEF CreateArticle, Write, TypeOK, Req
  <2>3. img'[a].status = "draft"
    BY <1>3 DEF CreateArticle, Write, NewDraft, NoRow, TypeOK
  <2>. QED BY <1>3, <2>2, <2>3 DEF WrittenFor
<1>4. ASSUME NEW r \in Request, Handle(r), req[r].art = a, row' = row,
             NEW image \in Row, Write(r, a, image)
      PROVE  holder'[a] = r /\ WrittenFor(r, row[a].status, img[a].status)'
  <2>1. /\ holder'[a] = r /\ req'[r].phase = "wrote"
        /\ req'[r].op = req[r].op /\ req'[r].to = req[r].to
    BY <1>4 DEF Write, TypeOK, Req
  <2>. QED BY <1>4, <2>1, WrittenImages DEF WrittenFor, Stored
<1>5. ASSUME NEW j \in Job, JobRow(j, a), Selects(j, row[a], job[j].now), row' = row
      PROVE  /\ holder'[a] = j
             /\ j = Publisher => /\ row'[a].status \in {"draft", "approved", "scheduled"}
                                 /\ img'[a].status = "published"
             /\ j = Archiver => row'[a].status = "draft" /\ img'[a].status = "archived"
  <2>1. holder'[a] = j /\ img'[a] = Updated(j, row[a])
    BY <1>5 DEF JobRow, TypeOK
  <2>2. /\ j = Publisher => Updated(j, row[a]).status = "published"
        /\ j = Archiver => Updated(j, row[a]).status = "archived"
    BY NamesApart DEF Updated, TypeOK, Row
  <2>3. /\ j = Publisher => row[a].status \in {"draft", "approved", "scheduled"}
        /\ j = Archiver => row[a].status = "draft"
    BY <1>5, NamesApart DEF Selects, DueBy
  <2>. QED BY <1>5, <2>1, <2>2, <2>3
<1>6. CASE holder[a] = Free /\ holder'[a] # Free
  BY <1>3, <1>4, <1>5, <1>6, Taking, NamesAssumption DEF Job
<1>. QED BY <1>1, <1>2, <1>6

(* At any time, each holder of a lock has written what it is there for.      *)
LEMMA HeldForInvariant == Spec => []HeldFor
<1>1. Init => HeldFor
  BY NamesApart DEF Init, HeldFor, Job
<1>. QED BY <1>1, HeldForStep, TypeCorrect, WorkflowInvariant, PTL DEF Spec

-----------------------------------------------------------------------------
(* The workflow implements ArticleLifecycle, step by step.                   *)

ArticleStatus == [a \in Article |-> row[a].status]
Wishes        == [r \in Request |-> Wish(r)]
LifeStep      == Lifecycle!LifeNext \/ UNCHANGED <<ArticleStatus, Wishes>>

(* A slot with the same wish leaves the wishes as they are. *)
LEMMA SameWishes ==
  ASSUME NEW r \in Request, Wish(r)' = Wish(r), \A s \in Request \ {r} : req'[s] = req[s]
  PROVE  Wishes' = Wishes
<1>1. \A s \in Request \ {r} : Wish(s)' = Wish(s)
  BY DEF Wish, Moves, Open
<1>. QED BY <1>1 DEF Wishes

(* An answered slot wishes nothing. *)
LEMMA NoMoreWish ==
  ASSUME TypeOK, NEW r \in Request, NEW phase \in {"acked", "failed"}, Answer(r, phase)
  PROVE  Wish(r)' = <<>> /\ \A s \in Request \ {r} : req'[s] = req[s]
BY DEF Answer, NoReq, Wish, Moves, Open, TypeOK

(* An Ask is a wish that the table or the scheduling allows, or no wish.     *)
LEMMA AskLives ==
  ASSUME TypeOK, WorkflowInv, NEW r \in Request, Ask(r)
  PROVE  LifeStep
<1>0. ~Open(r) /\ row' = row /\ Wish(r) = <<>> /\ \A s \in Request \ {r} : req'[s] = req[s]
  <2>1. ~Open(r) /\ row' = row
    BY AskStep DEF Ask, Asks, CreateArticle, Write
  <2>2. CASE \E a \in Article : CreateArticle(r, a)
    BY <2>1, <2>2 DEF CreateArticle, Write, Wish, Moves, TypeOK
  <2>3. CASE \E a \in Article : Asks(r, a)
    BY <2>1, <2>3, AskStep DEF Answer, Wait, Wish, Moves, TypeOK
  <2>. QED BY <2>1, <2>2, <2>3 DEF Ask, Asks
<1>1. CASE Wish(r)' = <<>>
  BY <1>0, <1>1, SameWishes DEF LifeStep, ArticleStatus
<1>2. ASSUME NEW a \in Article, NEW q, Wait(r, q)
      PROVE  req'[r] = [q EXCEPT !.phase = "waiting"]
  BY <1>2 DEF Wait, TypeOK
<1>3. ASSUME NEW a \in Article, NEW to, Stored(a), Wish(r)' = <<a, to>>,
             to \in validTransitions[row[a].status] \cup Lifecycle!Schedulable(a)
      PROVE  LifeStep
  <2>1. \A s \in Request \ {r} : Wish(s)' = Wish(s)
    BY <1>0 DEF Wish, Moves, Open
  <2>2. Wishes' = [Wishes EXCEPT ![r] = <<a, to>>]
    BY <1>3, <2>1 DEF Wishes
  <2>3. Lifecycle!Stands(a)
    BY <1>3 DEF Lifecycle!Stands, Stored, Status, validTransitions
  <2>4. Lifecycle!Ask(r)
    BY <1>0, <1>3, <2>2, <2>3 DEF Lifecycle!Ask, Lifecycle!NoWish, Wishes
  <2>. QED BY <2>4 DEF LifeStep, Lifecycle!LifeNext
<1>4. ASSUME NEW a \in Article, CreateArticle(r, a) PROVE Wish(r)' = <<>>
  <2>1. req[r].op = "create"
    BY <1>0 DEF WorkflowInv, SlotOK
  <2>2. req'[r].op = "create"
    BY <1>4, <2>1 DEF CreateArticle, Write, TypeOK, Req
  <2>. QED BY <2>2 DEF Wish, Moves
<1>5. ASSUME NEW a \in Article, AskUpdate(r, a) PROVE Wish(r)' = <<>>
  BY <1>2, <1>5 DEF AskUpdate, Wait, NoReq, Wish, Moves, TypeOK
<1>6. ASSUME NEW a \in Article, NEW own, NEW caller, AskDelete(r, a, own, caller)
      PROVE  Wish(r)' = <<>>
  <2>1. CASE \E phase \in {"acked", "failed"} : Answer(r, phase)
    BY <2>1, NoMoreWish
  <2>2. CASE Wait(r, [NoReq("waiting") EXCEPT !.op = "delete", !.art = a])
    BY <2>2 DEF Wait, NoReq, Wish, Moves, TypeOK
  <2>. QED BY <1>6, <2>1, <2>2 DEF AskDelete
<1>7. ASSUME NEW a \in Article, NEW st \in Status, AskTransition(r, a, st) PROVE LifeStep
  <2>1. CASE \E phase \in {"acked", "failed"} : Answer(r, phase)
    BY <1>1, <2>1, NoMoreWish
  <2>2. CASE ~\E phase \in {"acked", "failed"} : Answer(r, phase)
    <3>1. /\ Stored(a) /\ st \in validTransitions[row[a].status]
          /\ Wait(r, [NoReq("waiting") EXCEPT !.op = "transition", !.art = a, !.to = st])
      BY <1>7, <2>2 DEF AskTransition
    <3>2. Wish(r)' = <<a, st>>
      BY <3>1 DEF Wait, NoReq, Wish, Moves, Open, TypeOK
    <3>. QED BY <1>3, <3>1, <3>2
  <2>. QED BY <2>1, <2>2
<1>8. ASSUME NEW a \in Article, NEW t \in 1 .. MaxTime, AskSchedule(r, a, t) PROVE LifeStep
  <2>1. CASE \E phase \in {"acked", "failed"} : Answer(r, phase)
    BY <1>1, <2>1, NoMoreWish
  <2>2. CASE ~\E phase \in {"acked", "failed"} : Answer(r, phase)
    <3>1. /\ Stored(a) /\ row[a].status # "archived"
          /\ Wait(r, [NoReq("waiting") EXCEPT !.op = "schedule", !.art = a, !.at = t])
      BY <1>8, <2>2 DEF AskSchedule
    <3>2. Wish(r)' = <<a, "scheduled">>
      BY <3>1 DEF Wait, NoReq, Wish, Moves, Open, TypeOK
    <3>3. "scheduled" \in Lifecycle!Schedulable(a)
      BY <3>1 DEF Lifecycle!Schedulable
    <3>. QED BY <1>3, <3>1, <3>2, <3>3
  <2>. QED BY <2>1, <2>2
<1>. QED BY <1>1, <1>4, <1>5, <1>6, <1>7, <1>8 DEF Ask

(* A write, or finding nothing to write to, changes neither status nor wish. *)
LEMMA HandleLives ==
  ASSUME TypeOK, WorkflowInv, NEW r \in Request, Handle(r)
  PROVE  LifeStep
<1>1. row' = row /\ req[r].phase = "waiting" /\ req[r] \in Req
  BY HandleStep DEF Write, TypeOK
<1>2. CASE \E image \in Row : Write(r, req[r].art, image)
  <2>1. /\ req'[r] = [req[r] EXCEPT !.phase = "wrote", !.art = req[r].art]
        /\ \A s \in Request \ {r} : req'[s] = req[s]
    BY <1>2 DEF Write, TypeOK
  <2>2. Wish(r)' = Wish(r)
    BY <1>1, <2>1 DEF Wish, Moves, Open, Req
  <2>. QED BY <1>1, <2>1, <2>2, SameWishes DEF LifeStep, ArticleStatus
<1>3. CASE req' = [req EXCEPT ![r].phase = "aborted"]
  <2>1. /\ req'[r] = [req[r] EXCEPT !.phase = "aborted"]
        /\ \A s \in Request \ {r} : req'[s] = req[s]
    BY <1>3 DEF TypeOK
  <2>2. Wish(r)' = Wish(r)
    BY <1>1, <2>1 DEF Wish, Moves, Open, Req
  <2>. QED BY <1>1, <2>1, <2>2, SameWishes DEF LifeStep, ArticleStatus
<1>4. ASSUME NEW phase \in {"acked", "failed"}, Answer(r, phase),
             req[r].op \notin {"transition", "schedule"}
      PROVE  LifeStep
  <2>1. Wish(r) = <<>>
    BY <1>4 DEF Wish, Moves
  <2>. QED BY <1>1, <1>4, <2>1, NoMoreWish, SameWishes DEF LifeStep, ArticleStatus
<1>. QED BY <1>2, <1>3, <1>4, SoundWrites

(* A commit is what was wished, or a birth, a removal, or an edit that leaves *)
(* the status alone; other ends are wishes given up.                         *)
LEMMA FinishLives ==
  ASSUME TypeOK, WorkflowInv, HeldFor, NEW r \in Request, Finish(r)
  PROVE  LifeStep
<1>1. /\ Wish(r)' = <<>> /\ \A s \in Request \ {r} : req'[s] = req[s]
  BY NoMoreWish DEF Finish, Commit, CommitFails, Rollback
<1>2. Wishes' = [Wishes EXCEPT ![r] = <<>>]
  BY <1>1 DEF Wishes, Wish, Moves, Open
<1>3. CASE CommitFails(r) \/ Rollback(r)
  <2>1. ArticleStatus' = ArticleStatus
    BY <1>3 DEF CommitFails, Rollback, ArticleStatus
  <2>2. Lifecycle!GiveUp(r)
    BY <1>2, <2>1 DEF Lifecycle!GiveUp, Lifecycle!NoWish, ArticleStatus, Wishes
  <2>. QED BY <2>2 DEF LifeStep, Lifecycle!LifeNext
<1>4. CASE Commit(r)
  <2>0. PICK a \in Article : a = req[r].art
    BY <1>4 DEF Commit, TypeOK, Open
  <2>1. /\ req[r].phase = "wrote" /\ holder[a] = r
        /\ \A b \in Article : holder[b] = r <=> b = a
    BY <1>4, <2>0 DEF Commit, WorkflowInv, LocksMatch
  <2>2. ArticleStatus' = [ArticleStatus EXCEPT ![a] = img[a].status]
    BY <1>4, <2>1 DEF Commit, CommitRows, ArticleStatus
  <2>3. WrittenFor(r, row[a].status, img[a].status)
    BY <2>1 DEF HeldFor
  <2>4. row[a].status \in Status => Lifecycle!Stands(a)
    BY <2>1 DEF Lifecycle!Stands, Status, validTransitions
  <2>5. CASE ~Moves(r)
    <3>1. Wish(r)' = Wish(r)
      BY <1>1, <2>5 DEF Wish
    <3>2. Wishes' = Wishes
      BY <1>1, <3>1, SameWishes
    <3>3. CASE row[a].status = "absent" /\ img[a].status = "draft"
      <4>1. Lifecycle!Born(a)
        BY <2>1, <2>2, <3>2, <3>3 DEF Lifecycle!Born, ArticleStatus, Wishes
      <4>. QED BY <4>1 DEF LifeStep, Lifecycle!LifeNext
    <3>4. CASE row[a].status \in Status /\ img[a].status = "deleted"
      <4>1. Lifecycle!Remove(a)
        BY <2>1, <2>2, <2>4, <3>2, <3>4 DEF Lifecycle!Remove, ArticleStatus, Wishes
      <4>. QED BY <4>1 DEF LifeStep, Lifecycle!LifeNext
    <3>5. CASE img[a].status = row[a].status
      <4>1. ArticleStatus' = ArticleStatus
        BY <2>1, <2>2, <3>5 DEF ArticleStatus
      <4>. QED BY <3>2, <4>1 DEF LifeStep
    <3>. QED BY <2>1, <2>3, <2>5, <3>3, <3>4, <3>5 DEF WrittenFor, Moves, Open
  <2>6. CASE Moves(r)
    <3>1. row[a].status \in Status /\ Wish(r) = <<a, img[a].status>>
      BY <2>0, <2>3, <2>6 DEF WrittenFor, Moves, Wish
    <3>2. /\ Wishes[r] = <<a, img[a].status>> /\ Wishes[r] # <<>>
          /\ Wishes[r][1] = a /\ Wishes[r][2] = img[a].status
      BY <3>1 DEF Wishes
    <3>3. Lifecycle!Grant(r)
      BY <1>2, <2>1, <2>2, <2>4, <3>1, <3>2
         DEF Lifecycle!Grant, Lifecycle!NoWish, ArticleStatus, Wishes
    <3>. QED BY <3>3 DEF LifeStep, Lifecycle!LifeNext
  <2>. QED BY <2>5, <2>6
<1>. QED BY <1>3, <1>4 DEF Finish

(* The commit of a job's run puts its articles out, or away.                 *)
LEMMA JobLives ==
  ASSUME TypeOK, WorkflowInv, HeldFor, NEW j \in Job, RunJob(j)
  PROVE  LifeStep
<1>1. Wishes' = Wishes
  BY DEF RunJob, JobStart, JobRow, JobCommit, JobFail, Wishes, Wish, Moves, Open
<1>2. CASE ~JobCommit(j)
  BY <1>1, <1>2 DEF RunJob, JobStart, JobRow, JobFail, LifeStep, ArticleStatus
<1>3. CASE JobCommit(j)
  <2>0. PICK some \in SUBSET Article : some = HeldBy(j)
    BY DEF HeldBy
  <2>1. ArticleStatus' = [a \in Article |-> IF a \in some THEN img[a].status ELSE row[a].status]
    BY <1>3, <2>0 DEF JobCommit, CommitRows, HeldBy, ArticleStatus
  <2>2. CASE j = Publisher
    <3>1. \A a \in some : /\ a \in Article /\ img[a].status = "published"
                          /\ row[a].status \in {"draft", "approved", "scheduled"}
      BY <2>0, <2>2 DEF HeldFor, HeldBy
    <3>2. Lifecycle!PutOut(some)
      BY <1>1, <2>1, <3>1 DEF Lifecycle!PutOut, ArticleStatus, Wishes
    <3>. QED BY <3>2 DEF LifeStep, Lifecycle!LifeNext
  <2>3. CASE j = Archiver
    <3>1. \A a \in some : /\ a \in Article /\ img[a].status = "archived"
                          /\ row[a].status = "draft"
      BY <2>0, <2>3 DEF HeldFor, HeldBy
    <3>2. Lifecycle!PutAway(some)
      BY <1>1, <2>1, <3>1 DEF Lifecycle!PutAway, ArticleStatus, Wishes
    <3>. QED BY <3>2 DEF LifeStep, Lifecycle!LifeNext
  <2>. QED BY <2>2, <2>3 DEF Job
<1>. QED BY <1>2, <1>3

(* So are a dispatch that comes in, and a restart.                           *)
LEMMA OtherLives ==
  ASSUME TypeOK,
         \/ \E a \in Article : IngestWireFeeds(a) \/ GrowStale(a)
         \/ Tick \/ Boot \/ UNCHANGED vars
  PROVE  LifeStep
<1>1. ASSUME NEW a \in Article, IngestWireFeeds(a) PROVE LifeStep
  <2>1. /\ ArticleStatus' = [ArticleStatus EXCEPT ![a] = "draft"] /\ row[a].status = "absent"
        /\ Wishes' = Wishes
    BY <1>1 DEF IngestWireFeeds, NewDraft, NoRow, ArticleStatus, Wishes, Wish, Moves, Open, TypeOK
  <2>2. Lifecycle!Born(a)
    BY <2>1 DEF Lifecycle!Born, ArticleStatus, Wishes
  <2>. QED BY <2>2 DEF LifeStep, Lifecycle!LifeNext
<1>2. ASSUME NEW a \in Article, GrowStale(a) PROVE LifeStep
  <2>1. \A b \in Article : row'[b].status = row[b].status
    BY <1>2 DEF GrowStale, TypeOK, Row
  <2>2. Wishes' = Wishes
    BY <1>2 DEF GrowStale, Wishes, Wish, Moves, Open
  <2>. QED BY <2>1, <2>2 DEF LifeStep, ArticleStatus
<1>3. CASE Boot
  <2>1. Wishes' = [r \in Request |-> <<>>]
    BY <1>3 DEF Boot, NoReq, Wishes, Wish, Moves, Open
  <2>2. \A a \in Article : Lifecycle!Stands(a) <=> Stored(a)
    BY DEF Lifecycle!Stands, Stored, Status, validTransitions
  <2>3. \/ ArticleStatus' = [a \in Article |-> IF Lifecycle!Stands(a) THEN "published"
                                              ELSE ArticleStatus[a]]
        \/ ArticleStatus' = ArticleStatus
    <3>1. CASE row' = row
      BY <3>1 DEF ArticleStatus
    <3>2. CASE row' = [a \in Article |-> IF Stored(a) THEN [row[a] EXCEPT !.status = "published"]
                                         ELSE row[a]]
      <4>1. \A a \in Article : row'[a].status = IF Lifecycle!Stands(a) THEN "published"
                                                ELSE row[a].status
        BY <2>2, <3>2 DEF TypeOK, Row
      <4>. QED BY <4>1 DEF ArticleStatus
    <3>. QED BY <1>3, <3>1, <3>2 DEF Boot
  <2>4. Lifecycle!Restart
    BY <2>1, <2>3 DEF Lifecycle!Restart, Lifecycle!NoWish, ArticleStatus, Wishes
  <2>. QED BY <2>4 DEF LifeStep, Lifecycle!LifeNext
<1>4. CASE Tick \/ UNCHANGED vars
  BY <1>4 DEF Tick, vars, LifeStep, ArticleStatus, Wishes, Wish, Moves, Open
<1>. QED BY <1>1, <1>2, <1>3, <1>4

(* Whatever requests, jobs, failures and restarts interleave: a request      *)
(* changes a status only as it asked when the table allowed it, a job only   *)
(* from where its WHERE clause says, and a deleted article stays deleted.    *)
THEOREM KeepsToLifecycleHolds == Spec => KeepsToLifecycle
<1>1. Init => Lifecycle!LifeInit
  BY DEF Init, NoRow, NoReq, Wish, Moves, Open, Lifecycle!LifeInit, Lifecycle!NoWish
<1>2. TypeOK /\ WorkflowInv /\ HeldFor /\ [Next]_vars =>
        [Lifecycle!LifeNext]_(Lifecycle!lifeVars)
  <2> SUFFICES ASSUME TypeOK, WorkflowInv, HeldFor, [Next]_vars PROVE LifeStep
    BY DEF LifeStep, ArticleStatus, Wishes, Lifecycle!lifeVars
  <2>. QED BY AskLives, HandleLives, FinishLives, JobLives, OtherLives DEF Next
<1>. QED BY <1>1, <1>2, TypeCorrect, WorkflowInvariant, HeldForInvariant, PTL
         DEF Spec, KeepsToLifecycle, Lifecycle!LifeSpec

-----------------------------------------------------------------------------
(* The table of transitions, when nobody moves an article that someone else  *)
(* is about to move.  ArticleTable.cfg shows that without this it is broken: *)
(* a handler reads the status long before it writes the new one.             *)

(* No two requests move the same article at a time, nor does a job while one *)
(* does.  Updates, deletes, restarts and failures may come at any time.      *)
EditsApart ==
  \A r \in Request : Moves(r) =>
    /\ holder[req[r].art] \notin Job
    /\ \A s \in Request \ {r} : Moves(s) => req[s].art # req[r].art

(* What r read of a status before its write. *)
StillTrue(r, status) ==
  /\ req[r].op = "create" <=> status = "absent"
  /\ req[r].op = "create" => req[r].phase = "wrote"
  /\ req[r].op = "transition" /\ status \in Status =>
       req[r].to \in validTransitions[status]
  /\ req[r].op = "schedule" => status # "archived"

(* Inductive as long as EditsApart holds. *)
ReadsHold == \A r \in Request : Open(r) => StillTrue(r, row[req[r].art].status)

(* Who changes the status of a committed row.                                *)
LEMMA StatusChanges ==
  ASSUME TypeOK, [Next]_vars, NEW a \in Article, row'[a].status # row[a].status
  PROVE  \/ \E p \in Request : Commit(p) /\ holder[a] = p /\ row'[a] = img[a]
         \/ holder[a] \in Job /\ row'[a] = img[a]
         \/ row[a].status = "absent" /\ holder[a] = Free
         \/ Boot /\ Stored(a) /\ row'[a].status = "published"
<1>1. ASSUME NEW r \in Request, Ask(r) PROVE FALSE
  BY <1>1, AskStep DEF Ask, Asks, CreateArticle, Write
<1>2. ASSUME NEW r \in Request, Handle(r) PROVE FALSE
  BY <1>2, HandleStep DEF Write
<1>3. ASSUME NEW r \in Request, Finish(r)
      PROVE  Commit(r) /\ holder[a] = r /\ row'[a] = img[a]
  BY <1>3 DEF Finish, Commit, CommitFails, Rollback, CommitRows
<1>4. ASSUME NEW j \in Job, RunJob(j)
      PROVE  holder[a] \in Job /\ row'[a] = img[a]
  BY <1>4 DEF RunJob, JobStart, JobRow, JobCommit, JobFail, CommitRows
<1>5. ASSUME NEW b \in Article, IngestWireFeeds(b)
      PROVE  row[a].status = "absent" /\ holder[a] = Free
  BY <1>5 DEF IngestWireFeeds, TypeOK
<1>6. ASSUME NEW b \in Article, GrowStale(b) PROVE FALSE
  BY <1>6 DEF GrowStale, TypeOK, Row
<1>7. CASE Boot
  BY <1>7 DEF Boot, TypeOK, Row
<1>8. ~Tick /\ ~UNCHANGED vars
  BY DEF Tick, vars
<1>. QED BY <1>1, <1>2, <1>3, <1>4, <1>5, <1>6, <1>7, <1>8 DEF Next

(* A slot that is in use stays as it is, is filled by an Ask, or goes on by  *)
(* a Handle of its own.                                                      *)
LEMMA SlotChanges ==
  ASSUME TypeOK, [Next]_vars, NEW r \in Request, Open(r)'
  PROVE  req'[r] = req[r] \/ Ask(r) \/ Handle(r)
<1>1. ASSUME NEW s \in Request, Ask(s) \/ Handle(s) \/ Finish(s), s # r
      PROVE  req'[r] = req[r]
  <2>1. CASE Ask(s)
    <3>1. CASE \E b \in Article : CreateArticle(s, b)
      BY <1>1, <3>1 DEF CreateArticle, Write, TypeOK
    <3>2. CASE \E b \in Article : Asks(s, b)
      BY <1>1, <3>2, AskStep DEF Answer, Wait, TypeOK
    <3>. QED BY <2>1, <3>1, <3>2 DEF Ask, Asks
  <2>2. CASE Handle(s)
    BY <1>1, <2>2, HandleStep DEF Write, Answer, TypeOK
  <2>3. CASE Finish(s)
    BY <1>1, <2>3 DEF Finish, Commit, CommitFails, Rollback, Answer, TypeOK
  <2>. QED BY <1>1, <2>1, <2>2, <2>3
<1>2. ~Finish(r)
  BY DEF Finish, Commit, CommitFails, Rollback, Answer, NoReq, TypeOK, Open
<1>3. ASSUME NEW j \in Job, RunJob(j) PROVE req' = req
  BY <1>3 DEF RunJob, JobStart, JobRow, JobCommit, JobFail
<1>4. ~Boot
  BY DEF Boot, NoReq, Open
<1>5. CASE (\E a \in Article : IngestWireFeeds(a) \/ GrowStale(a)) \/ Tick \/ UNCHANGED vars
  BY <1>5 DEF IngestWireFeeds, GrowStale, Tick, vars
<1>. QED BY <1>1, <1>2, <1>3, <1>4, <1>5 DEF Next

(* While the slot of r stands, nobody makes what it has read untrue.         *)
LEMMA ReadsStay ==
  ASSUME TypeOK, WorkflowInv, HeldFor, ReadsHold, EditsApart, [Next]_vars,
         NEW r \in Request, Open(r), req'[r] = req[r]
  PROVE  StillTrue(r, row[req[r].art].status)'
<1> DEFINE a == req[r].art
<1>1. /\ a \in Article /\ r # Free /\ r \notin Job
      /\ req[r].phase = "wrote" <=> holder[a] = r
      /\ StillTrue(r, row[a].status)
  BY NamesApart, NamesAssumption DEF WorkflowInv, LocksMatch, ReadsHold, TypeOK, Open
<1>2. CASE row'[a].status = row[a].status
  BY <1>1, <1>2 DEF StillTrue
<1>3. CASE row'[a].status # row[a].status
  <2>1. ASSUME NEW p \in Request, Commit(p), holder[a] = p, row'[a] = img[a]
        PROVE  StillTrue(r, row[a].status)'
    <3>1. p # r /\ Open(p) /\ req[p].art = a
      BY <1>1, <2>1 DEF Commit, Answer, NoReq, Open, TypeOK, WorkflowInv, LocksMatch
    <3>2. WrittenFor(p, row[a].status, img[a].status)
      BY <1>1, <2>1 DEF HeldFor
    <3>3. req[r].phase # "wrote" /\ req[r].op # "create" /\ row[a].status # "absent"
      BY <1>1, <2>1, <3>1 DEF StillTrue
    <3>4. img[a].status = "deleted" \/ (Moves(p) /\ img[a].status \in Status)
      BY <1>3, <2>1, <3>1, <3>2, <3>3 DEF WrittenFor, Moves, Status, TypeOK, Req
    <3>5. Moves(p) => ~Moves(r)
      BY <3>1 DEF EditsApart
    <3>. QED BY <2>1, <3>3, <3>4, <3>5 DEF StillTrue, Moves, Status
  <2>2. CASE holder[a] \in Job /\ row'[a] = img[a]
    <3>1. ~Moves(r) /\ req[r].phase # "wrote"
      BY <1>1, <2>2 DEF EditsApart
    <3>2. img[a].status \in {"published", "archived"} /\ req[r].op # "create"
      BY <1>1, <2>2, <3>1 DEF HeldFor, StillTrue, Job
    <3>. QED BY <2>2, <3>1, <3>2 DEF StillTrue, Moves
  <2>3. CASE row[a].status = "absent" /\ holder[a] = Free
    BY <1>1, <2>3 DEF StillTrue
  <2>4. ~Boot
    BY DEF Boot, NoReq, Open
  <2>. QED BY <1>1, <1>3, <2>1, <2>2, <2>3, <2>4, StatusChanges
<1>. QED BY <1>2, <1>3

(* What an Ask leaves in its slot it has just read.                          *)
LEMMA ReadsBegin ==
  ASSUME TypeOK, WorkflowInv, NEW r \in Request, Ask(r), Open(r)'
  PROVE  StillTrue(r, row[req[r].art].status)'
<1>0. row' = row
  BY AskStep DEF Ask, Asks, CreateArticle, Write
<1>1. ASSUME NEW a \in Article, CreateArticle(r, a)
      PROVE  StillTrue(r, row[req[r].art].status)'
  <2>1. req[r].op = "create"
    BY <1>1 DEF CreateArticle, WorkflowInv, SlotOK
  <2>2. req'[r].op = "create" /\ req'[r].phase = "wrote" /\ req'[r].art = a
    BY <1>1, <2>1 DEF CreateArticle, Write, TypeOK, Req
  <2>. QED BY <1>0, <1>1, <2>2 DEF CreateArticle, StillTrue
<1>2. ASSUME NEW phase \in {"acked", "failed"}, Answer(r, phase) PROVE FALSE
  BY <1>2 DEF Answer, NoReq, Open, TypeOK
<1>3. ASSUME NEW a \in Article, AskUpdate(r, a)
      PROVE  StillTrue(r, row[req[r].art].status)'
  <2>1. req'[r].op = "update" /\ req'[r].phase = "waiting" /\ req'[r].art = a
    BY <1>3 DEF AskUpdate, Wait, NoReq, TypeOK
  <2>. QED BY <1>0, <1>3, <2>1 DEF AskUpdate, StillTrue, Known
<1>4. ASSUME NEW a \in Article, NEW st \in Status, AskTransition(r, a, st)
      PROVE  StillTrue(r, row[req[r].art].status)'
  <2>1. /\ req'[r].op = "transition" /\ req'[r].phase = "waiting" /\ req'[r].art = a /\ req'[r].to = st
        /\ Stored(a) /\ st \in validTransitions[row[a].status]
    BY <1>2, <1>4 DEF AskTransition, Wait, NoReq, TypeOK
  <2>. QED BY <1>0, <1>4, <2>1 DEF AskTransition, StillTrue, Known
<1>5. ASSUME NEW a \in Article, NEW t \in 1 .. MaxTime, AskSchedule(r, a, t)
      PROVE  StillTrue(r, row[req[r].art].status)'
  <2>1. /\ req'[r].op = "schedule" /\ req'[r].phase = "waiting" /\ req'[r].art = a
        /\ row[a].status # "archived"
    BY <1>2, <1>5 DEF AskSchedule, Wait, NoReq, TypeOK
  <2>. QED BY <1>0, <1>5, <2>1 DEF AskSchedule, StillTrue, Known
<1>6. ASSUME NEW a \in Article, NEW own \in BOOLEAN, NEW caller \in Caller, AskDelete(r, a, own, caller)
      PROVE  StillTrue(r, row[req[r].art].status)'
  <2>1. req'[r].op = "delete" /\ req'[r].phase = "waiting" /\ req'[r].art = a
    BY <1>2, <1>6 DEF AskDelete, Wait, NoReq, TypeOK
  <2>. QED BY <1>0, <1>6, <2>1 DEF AskDelete, StillTrue, Known
<1>. QED BY <1>1, <1>3, <1>4, <1>5, <1>6 DEF Ask

(* What a Handle leaves in its slot it had read, or has just found deleted.  *)
LEMMA ReadsWritten ==
  ASSUME TypeOK, WorkflowInv, ReadsHold, NEW r \in Request, Handle(r), Open(r)'
  PROVE  StillTrue(r, row[req[r].art].status)'
<1>1. StillTrue(r, row[req[r].art].status)
  BY HandleStep DEF ReadsHold, Open
<1>2. row' = row
  BY HandleStep DEF Write
<1>3. \/ req'[r] = [req[r] EXCEPT !.phase = "wrote", !.art = req[r].art]
      \/ req'[r] = [req[r] EXCEPT !.phase = "aborted"]
  <2>1. ASSUME NEW phase \in {"acked", "failed"}, Answer(r, phase) PROVE FALSE
    BY <2>1 DEF Answer, NoReq, Open, TypeOK
  <2>2. ASSUME NEW image \in Row, Write(r, req[r].art, image)
        PROVE  req'[r] = [req[r] EXCEPT !.phase = "wrote", !.art = req[r].art]
    BY <2>2 DEF Write, TypeOK
  <2>3. ASSUME req' = [req EXCEPT ![r].phase = "aborted"]
        PROVE  req'[r] = [req[r] EXCEPT !.phase = "aborted"]
    BY <2>3 DEF TypeOK
  <2>. QED BY <2>1, <2>2, <2>3, HandleStep
<1>4. /\ req'[r].op = req[r].op /\ req'[r].to = req[r].to /\ req'[r].art = req[r].art
      /\ req[r].op = "create" => req'[r].phase = "wrote"
  <2>1. req[r] \in Req /\ req[r].op # "create"
    BY <1>1, HandleStep DEF StillTrue, TypeOK
  <2>. QED BY <1>3, <2>1 DEF Req
<1>. QED BY <1>1, <1>2, <1>4 DEF StillTrue

(* As long as EditsApart holds, what requests have read stays true.          *)
LEMMA ReadsStep ==
  TypeOK /\ WorkflowInv /\ HeldFor /\ ReadsHold /\ EditsApart /\ [Next]_vars => ReadsHold'
<1> SUFFICES ASSUME TypeOK, WorkflowInv, HeldFor, ReadsHold, EditsApart, [Next]_vars,
                    NEW r \in Request, Open(r)'
             PROVE  StillTrue(r, row[req[r].art].status)'
  BY DEF ReadsHold
<1>1. CASE Ask(r)
  BY <1>1, ReadsBegin
<1>2. CASE Handle(r)
  BY <1>2, ReadsWritten
<1>3. CASE req'[r] = req[r]
  BY <1>3, ReadsStay DEF Open
<1>. QED BY <1>1, <1>2, <1>3, SlotChanges

(* So a request that commits a new status has one the table allows.          *)
LEMMA MovesFollowTable ==
  ASSUME TypeOK, WorkflowInv, HeldFor, ReadsHold, [Next]_vars,
         NEW a \in Article, NEW r \in Request, holder[a] = r,
         Stored(a), row'[a].status \in Status, row'[a].status # row[a].status
  PROVE  IF req[r].op = "schedule" THEN row[a].status # "archived"
         ELSE row'[a].status \in validTransitions[row[a].status]
<1>1. /\ r # Free /\ r \notin Job
      /\ StillTrue(r, row[a].status) /\ WrittenFor(r, row[a].status, img[a].status)
  BY NamesApart, NamesAssumption DEF WorkflowInv, LocksMatch, ReadsHold, HeldFor, Open
<1>2. CASE Boot /\ row'[a].status = "published"
  <2>1. row'[a].status \in validTransitions[row[a].status]
    BY <1>2 DEF validTransitions, Stored, Status
  <2>. QED BY <1>1, <2>1 DEF StillTrue
<1>3. CASE row'[a] = img[a]
  <2>1. \/ req[r].op = "transition" /\ img[a].status = req[r].to
        \/ req[r].op = "schedule"
    BY <1>1, <1>3 DEF WrittenFor, Stored, Status
  <2>. QED BY <1>1, <1>3, <2>1 DEF StillTrue, Stored
<1>. QED BY <1>1, <1>2, <1>3, StatusChanges

(* A request never takes an article from one status to another that the      *)
(* table and the refusals of ScheduleArticle rule out (service.go:982-989,   *)
(* 1017, 1070), as long as nobody else moves the article between its read    *)
(* and its commit: that gap is the only way around the table.                *)
THEOREM TransitionsFollowTableWhenApart == Spec /\ []EditsApart => TransitionsFollowTable
<1>1. Init => ReadsHold
  BY DEF Init, ReadsHold, Open, NoReq
<1>2. TypeOK /\ WorkflowInv /\ HeldFor /\ EditsApart /\ ReadsHold /\ [Next]_vars => ReadsHold'
  BY ReadsStep
<1>3. TypeOK /\ WorkflowInv /\ HeldFor /\ ReadsHold /\ [Next]_vars =>
        [\A a \in Article, r \in Request :
           (holder[a] = r /\ row'[a].status \in Status /\ Stored(a)
             /\ row'[a].status # row[a].status)
             => IF req[r].op = "schedule" THEN row[a].status # "archived"
                ELSE row'[a].status \in validTransitions[row[a].status]]_vars
  BY MovesFollowTable
<1>. QED BY <1>1, <1>2, <1>3, TypeCorrect, WorkflowInvariant, HeldForInvariant, PTL
         DEF Spec, TransitionsFollowTable

=============================================================================
