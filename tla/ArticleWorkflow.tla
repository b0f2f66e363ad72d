--------------------------- MODULE ArticleWorkflow ---------------------------
(***************************************************************************)
(* The editorial life of an article: the studio's requests (create,        *)
(* update, transition, schedule, delete), each inside the transaction that *)
(* pkg/middleware/transaction.go opens and ends around its handler, the    *)
(* background jobs that publish scheduled articles and archive abandoned   *)
(* drafts, the wire feed, and the sweep over the table that main runs at   *)
(* every start.                                                            *)
(*                                                                         *)
(* The database is READ COMMITTED PostgreSQL.  row is what is committed;   *)
(* a statement that writes a row locks it (holder) and leaves the new row  *)
(* image in img until its transaction commits or rolls back; a second      *)
(* writer waits for the lock and then works on the row it finds.  Reads    *)
(* take no lock.                                                           *)
(***************************************************************************)
EXTENDS Naturals

CONSTANTS
  Article,     \* article ids; each is used for one article (fresh UUIDs)
  NoArticle,   \* the article of a request slot that is not in use
  Request,     \* the studio requests that may be in flight at one time
  MaxTime,     \* bound: the clock and scheduled_at run over 1..MaxTime
  MaxVersion,  \* bound: version_num runs over 1..MaxVersion
  MaxFaults    \* bound: restarts of the server and failed job runs

Publisher == "publish_scheduled_articles"
Archiver  == "archive_stale_drafts"
Job       == {Publisher, Archiver}
Free      == "free"          \* nobody holds the row lock

ASSUME BoundsAssumption ==
  /\ MaxTime \in Nat \ {0}
  /\ MaxVersion \in Nat \ {0}
  /\ MaxFaults \in Nat
ASSUME NamesAssumption ==
  /\ Request \cap (Job \cup {Free}) = {}
  /\ NoArticle \notin Article

VARIABLES
  row,     \* row[a]: the committed row of article a
  img,     \* img[a]: the uncommitted row image its lock holder has written
  holder,  \* holder[a]: who holds the row lock of a
  req,     \* req[r]: the request in slot r
  job,     \* job[j]: the current run of background job j
  now,     \* the database clock
  faults   \* restarts of the server and failed job runs so far

vars == <<row, img, holder, req, job, now, faults>>

-----------------------------------------------------------------------------
(* Rows *)

Status  == {"draft", "review", "approved", "scheduled", "published", "archived"}
NoTime  == 0                                 \* scheduled_at IS NULL
Version == 1 .. MaxVersion

(* vers[n] counts the article_versions rows with version_num n: 2 stands for *)
(* two or more.  stale: updated_at is more than 180 days old.  "absent" and  *)
(* "deleted": there is no such row (yet, any more).                          *)
Row == [status    : Status \cup {"absent", "deleted"},
        hasEditor : BOOLEAN,
        sched     : 0 .. MaxTime,
        stale     : BOOLEAN,
        vers      : [Version -> {0, 1, 2}]]

NoVersions == [n \in Version |-> 0]
NoRow(why) == [status |-> why, hasEditor |-> FALSE, sched |-> NoTime,
               stale |-> FALSE, vers |-> NoVersions]
NewDraft   == [NoRow("absent") EXCEPT !.status = "draft"]

Stored(a) == row[a].status \in Status

AddVersion(v, n) == [v EXCEPT ![n] = IF @ = 0 THEN 1 ELSE 2]

(* Mutant: MIN in place of MAX. *)
FollowsFirstVersion(v, n) ==
  IF n = 1 THEN v = NoVersions
  ELSE v[n - 1] > 0 /\ \A m \in 1 .. n - 2 : v[m] = 0

(* n = COALESCE(MAX(version_num), 0) + 1 *)
IsNextVersion(v, n) ==
  /\ \A m \in Version : m >= n => v[m] = 0
  /\ n = 1 \/ (n - 1 \in Version /\ v[n - 1] > 0)

validTransitions ==
  [draft     |-> {"review", "approved", "scheduled", "published", "archived"},
   review    |-> {"approved", "draft", "scheduled", "published", "archived"},
   approved  |-> {"scheduled", "published", "review", "draft", "archived"},
   scheduled |-> {"published", "approved", "draft", "archived"},
   published |-> {"archived", "draft", "review"},
   archived  |-> {"draft", "published"}]

-----------------------------------------------------------------------------
(* Requests and job runs *)

Op     == {"create", "update", "transition", "schedule", "delete"}

(* waiting: the handler has read what it reads and issues its write;       *)
(* wrote: it holds the row lock; aborted: PostgreSQL has failed its        *)
(* transaction but the handler has not noticed; acked, failed: answered    *)
(* (2xx, or an error status), and the slot may be used again.              *)
Phase == {"idle", "waiting", "wrote", "aborted", "acked", "failed"}

Caller == {"staff", "superadmin"}

Req == [phase : Phase, op : Op, art : Article \cup {NoArticle},
        to : Status,              \* transition: the target status
        at : 0 .. MaxTime]        \* schedule: the requested time

JobRun == [running : BOOLEAN,
           todo    : SUBSET Article,   \* rows its snapshot selected, not yet visited
           now     : 0 .. MaxTime]     \* NOW(): the time its statement began

NoRun         == [running |-> FALSE, todo |-> {}, now |-> 0]
NoReq(phase)  == [phase |-> phase, op |-> "create", art |-> NoArticle,
                  to |-> "draft", at |-> NoTime]

Open(r)   == req[r].phase \in {"waiting", "wrote", "aborted"}
HeldBy(p) == {a \in Article : holder[a] = p}

TypeOK ==
  /\ row \in [Article -> Row]
  /\ img \in [Article -> Row]
  /\ holder \in [Article -> Request \cup Job \cup {Free}]
  /\ req \in [Request -> Req]
  /\ \A r \in Request : Open(r) => req[r].art \in Article
  /\ job \in [Job -> JobRun]
  /\ now \in 1 .. MaxTime
  /\ faults \in 0 .. MaxFaults

Init ==
  /\ row = [a \in Article |-> NoRow("absent")]
  /\ img = [a \in Article |-> NoRow("absent")]
  /\ holder = [a \in Article |-> Free]
  /\ req = [r \in Request |-> NoReq("idle")]
  /\ job = [j \in Job |-> NoRun]
  /\ now = 1
  /\ faults = 0

-----------------------------------------------------------------------------
(* Requests: what a handler reads before its write, and the answers it can  *)
(* already give.  c.Params and the body are the \E of Next.                 *)

Answer(r, phase) == req' = [req EXCEPT ![r] = NoReq(phase)]
Wait(r, q)       == req' = [req EXCEPT ![r] = [q EXCEPT !.phase = "waiting"]]

(* The client has the id of an article that is, or once was, stored.        *)
Known(a) == row[a].status # "absent"

AskUpdate(r, a) ==
  /\ ~Open(r) /\ Known(a)
  /\ Wait(r, [NoReq("waiting") EXCEPT !.op = "update", !.art = a])
  /\ UNCHANGED <<row, img, holder, job, now, faults>>

AskTransition(r, a, newStatus) ==
  /\ ~Open(r) /\ Known(a)
  /\ \/ /\ row[a].status = newStatus
        /\ Answer(r, "acked")
     \/ /\ Stored(a) /\ newStatus \in validTransitions[row[a].status]
        /\ Wait(r, [NoReq("waiting") EXCEPT !.op = "transition", !.art = a,
                                            !.to = newStatus])
     \/ /\ row[a].status # newStatus
        /\ Stored(a) => newStatus \notin validTransitions[row[a].status]
        /\ Answer(r, "failed")
  /\ UNCHANGED <<row, img, holder, job, now, faults>>

AskSchedule(r, a, scheduledAt) ==
  /\ ~Open(r) /\ Known(a)
  /\ IF scheduledAt >= now /\ Stored(a) /\ row[a].status # "archived"
     THEN Wait(r, [NoReq("waiting") EXCEPT !.op = "schedule", !.art = a,
                                           !.at = scheduledAt])
     ELSE Answer(r, "failed")
  /\ UNCHANGED <<row, img, holder, job, now, faults>>

AskDelete(r, a, own, caller) ==
  /\ ~Open(r) /\ Known(a)
  /\ IF Stored(a) /\ (caller = "superadmin" \/ (own /\ row[a].status # "published"))
     THEN Wait(r, [NoReq("waiting") EXCEPT !.op = "delete", !.art = a])
     ELSE Answer(r, "failed")
  /\ UNCHANGED <<row, img, holder, job, now, faults>>

-----------------------------------------------------------------------------
(* Requests: the write.  The statement waits for the row lock and applies   *)
(* to the row it then finds; its WHERE clause names only the id.            *)

CanWrite(r, op) ==
  /\ req[r].phase = "waiting" /\ req[r].op = op
  /\ holder[req[r].art] = Free

Write(r, a, image) ==
  /\ img' = [img EXCEPT ![a] = image]
  /\ holder' = [holder EXCEPT ![a] = r]
  /\ req' = [req EXCEPT ![r].phase = "wrote", ![r].art = a]
  /\ UNCHANGED <<row, job, now, faults>>

(* INSERT of a draft, with version row 1. *)
CreateArticle(r, a) ==
  /\ ~Open(r)
  /\ row[a].status = "absent" /\ holder[a] = Free
  /\ Write(r, a, [NewDraft EXCEPT !.vers[1] = 1])

UpdateArticle(r) ==
  LET a == req[r].art
  IN  /\ CanWrite(r, "update")
      /\ \/ /\ Stored(a)
            /\ \E n \in Version :
                 /\ IsNextVersion(row[a].vers, n)
                 /\ Write(r, a, [row[a] EXCEPT !.stale = FALSE,
                                               !.vers = AddVersion(@, n)])
         \/ /\ ~Stored(a)
            /\ Answer(r, "failed")
            /\ UNCHANGED <<row, img, holder, job, now, faults>>

(* Mutant: no version row, so nothing fails and the commit succeeds. *)
UpdateOfDeletedRowUnnoticed(r) ==
  /\ ~Stored(req[r].art)
  /\ Answer(r, "acked")
  /\ UNCHANGED <<row, img, holder, job, now, faults>>

(* The row is gone: UPDATE touches no row, and the version row that follows *)
(* breaks its foreign key, which aborts the transaction; the handler drops  *)
(* that error and goes on to answer 200.                                    *)
UpdateOfDeletedRow(r) ==
  /\ ~Stored(req[r].art)
  /\ req' = [req EXCEPT ![r].phase = "aborted"]
  /\ UNCHANGED <<row, img, holder, job, now, faults>>

(* Mutant: the ids of editor and reviewer are swapped. *)
ReviewerAsEditor(rw, newStatus) ==
  rw.hasEditor \/ newStatus \in {"approved", "review"}

(* published and scheduled set editor_id; nothing ever clears it. *)
EditorAfter(rw, newStatus) ==
  rw.hasEditor \/ newStatus \in {"published", "scheduled"}

TransitionStatus(r) ==
  LET a == req[r].art
      newStatus == req[r].to
  IN  /\ CanWrite(r, "transition")
      /\ \/ /\ Stored(a)
            /\ Write(r, a, [row[a] EXCEPT
                    !.status = newStatus,
                    !.hasEditor = EditorAfter(row[a], newStatus),
                    !.stale = FALSE,
                    !.vers = AddVersion(@, 1)])
         \/ UpdateOfDeletedRow(r)

(* Mutant: an upsert in place of the UPDATE. *)
ScheduleUpsert(r) ==
  LET a == req[r].art
  IN  /\ CanWrite(r, "schedule")
      /\ Write(r, a, [row[a] EXCEPT
              !.status = "scheduled", !.sched = req[r].at,
              !.hasEditor = TRUE, !.stale = FALSE,
              !.vers = AddVersion(@, 1)])

ScheduleArticle(r) ==
  LET a == req[r].art
  IN  /\ CanWrite(r, "schedule")
      /\ \/ /\ Stored(a)
            /\ Write(r, a, [row[a] EXCEPT
                    !.status = "scheduled", !.sched = req[r].at,
                    !.hasEditor = TRUE, !.stale = FALSE,
                    !.vers = AddVersion(@, 1)])
         \/ UpdateOfDeletedRow(r)

(* ON DELETE CASCADE takes the version rows along.                          *)
DeleteArticle(r) ==
  LET a == req[r].art
  IN  /\ CanWrite(r, "delete")
      /\ \/ /\ Stored(a)
            /\ Write(r, a, NoRow("deleted"))
         \/ /\ ~Stored(a)
            /\ Answer(r, "acked")
            /\ UNCHANGED <<row, img, holder, job, now, faults>>

-----------------------------------------------------------------------------
(* The end of a transaction *)

CommitRows(p) ==
  /\ row' = [a \in Article |-> IF holder[a] = p THEN img[a] ELSE row[a]]
DropLocks(p) ==
  /\ holder' = [a \in Article |-> IF holder[a] = p THEN Free ELSE holder[a]]
  /\ img' = [a \in Article |-> IF holder[a] = p THEN NoRow("absent") ELSE img[a]]

Commit(r) ==
  /\ req[r].phase = "wrote"
  /\ CommitRows(r) /\ DropLocks(r)
  /\ Answer(r, "acked")
  /\ UNCHANGED <<job, now, faults>>

(* The COMMIT of an aborted transaction rolls back and returns an error.    *)
CommitFails(r) ==
  /\ req[r].phase = "aborted"
  /\ Answer(r, "failed")
  /\ UNCHANGED <<row, img, holder, job, now, faults>>

(* A later statement of the handler, or the connection, fails.              *)
Rollback(r) ==
  /\ req[r].phase \in {"waiting", "wrote"}
  /\ DropLocks(r)
  /\ Answer(r, "failed")
  /\ UNCHANGED <<row, job, now, faults>>

-----------------------------------------------------------------------------
(* Background jobs: one UPDATE over the table.  The rows are selected in the *)
(* snapshot the statement starts with; a row another transaction holds is    *)
(* waited for, and the WHERE clause is evaluated again on what it left.      *)

DueBy(rw, t) ==
  /\ rw.status \in {"scheduled", "approved", "draft"}
  /\ rw.sched # NoTime /\ rw.sched <= t

(* Mutants: only status scheduled is looked at; the time is not. *)
SelectsScheduledOnly(j, rw, t) ==
  \/ j = Publisher /\ DueBy(rw, t) /\ rw.status = "scheduled"
  \/ j = Archiver /\ rw.status = "draft" /\ rw.stale
SelectsEarly(j, rw, t) ==
  \/ /\ j = Publisher
     /\ rw.status \in {"scheduled", "approved", "draft"} /\ rw.sched # NoTime
  \/ j = Archiver /\ rw.status = "draft" /\ rw.stale

Selects(j, rw, t) ==
  \/ j = Publisher /\ DueBy(rw, t)
  \/ j = Archiver /\ rw.status = "draft" /\ rw.stale

(* Mutant: a status no one knows. *)
UpdatedToTypo(j, rw) ==
  [rw EXCEPT !.status = IF j = Publisher THEN "publish" ELSE "archive",
             !.stale = FALSE]

Updated(j, rw) ==
  [rw EXCEPT !.status = IF j = Publisher THEN "published" ELSE "archived",
             !.stale = FALSE]

JobStart(j) ==
  /\ ~job[j].running
  /\ job' = [job EXCEPT ![j] =
       [running |-> TRUE, now |-> now,
        todo |-> {a \in Article : Selects(j, row[a], now)}]]
  /\ UNCHANGED <<row, img, holder, req, now, faults>>

(* Mutant: the WHERE clause is not evaluated again. *)
JobRowFromSnapshot(j, a) ==
  /\ job[j].running /\ a \in job[j].todo
  /\ holder[a] = Free
  /\ job' = [job EXCEPT ![j].todo = @ \ {a}]
  /\ img' = [img EXCEPT ![a] = Updated(j, row[a])]
  /\ holder' = [holder EXCEPT ![a] = j]
  /\ UNCHANGED <<row, req, now, faults>>

JobRow(j, a) ==
  /\ job[j].running /\ a \in job[j].todo
  /\ holder[a] = Free
  /\ job' = [job EXCEPT ![j].todo = @ \ {a}]
  /\ \/ /\ Selects(j, row[a], job[j].now)
        /\ img' = [img EXCEPT ![a] = Updated(j, row[a])]
        /\ holder' = [holder EXCEPT ![a] = j]
     \/ /\ ~Selects(j, row[a], job[j].now)
        /\ UNCHANGED <<img, holder>>
  /\ UNCHANGED <<row, req, now, faults>>

JobCommit(j) ==
  /\ job[j].running /\ job[j].todo = {}
  /\ CommitRows(j) /\ DropLocks(j)
  /\ job' = [job EXCEPT ![j] = NoRun]
  /\ UNCHANGED <<req, now, faults>>

(* The two minutes of runLoop are over, or the statement fails: the error is *)
(* logged and the loop waits for its next tick.                              *)
JobFail(j) ==
  /\ job[j].running
  /\ faults < MaxFaults /\ faults' = faults + 1
  /\ DropLocks(j)
  /\ job' = [job EXCEPT ![j] = NoRun]
  /\ UNCHANGED <<row, req, now>>

(* The wire feed stores a dispatch as a draft without version rows.          *)
IngestWireFeeds(a) ==
  /\ row[a].status = "absent" /\ holder[a] = Free
  /\ row' = [row EXCEPT ![a] = NewDraft]
  /\ UNCHANGED <<img, holder, req, job, now, faults>>

-----------------------------------------------------------------------------
(* Time, and the restart of the server                                       *)

Tick ==
  /\ now < MaxTime
  /\ now' = now + 1
  /\ UNCHANGED <<row, img, holder, req, job, faults>>

(* 180 days without an edit; only drafts are looked at for it.               *)
GrowStale(a) ==
  /\ row[a].status = "draft" /\ ~row[a].stale
  /\ row' = [row EXCEPT ![a].stale = TRUE]
  /\ UNCHANGED <<img, holder, req, job, now, faults>>

(* The process ends: PostgreSQL rolls back what was open.  The new one first *)
(* publishes every article that is not; the error of that batch is ignored,  *)
(* so it may also do nothing.                                                *)
Boot ==
  /\ faults < MaxFaults /\ faults' = faults + 1
  /\ \/ row' = [a \in Article |->
                 IF Stored(a) THEN [row[a] EXCEPT !.status = "published"]
                              ELSE row[a]]
     \/ row' = row
  /\ img' = [a \in Article |-> NoRow("absent")]
  /\ holder' = [a \in Article |-> Free]
  /\ req' = [r \in Request |-> IF Open(r) THEN NoReq("failed") ELSE req[r]]
  /\ job' = [j \in Job |-> NoRun]
  /\ UNCHANGED now

-----------------------------------------------------------------------------

Ask(r) ==
  \E a \in Article :
    \/ CreateArticle(r, a)
    \/ AskUpdate(r, a)
    \/ \E st \in Status : AskTransition(r, a, st)
    \/ \E t \in 1 .. MaxTime : AskSchedule(r, a, t)
    \/ \E own \in BOOLEAN, caller \in Caller : AskDelete(r, a, own, caller)

Handle(r) == UpdateArticle(r) \/ TransitionStatus(r) \/ ScheduleArticle(r) \/ DeleteArticle(r)

Finish(r) == Commit(r) \/ CommitFails(r) \/ Rollback(r)

RunJob(j) ==
  \/ JobStart(j)
  \/ \E a \in Article : JobRow(j, a)
  \/ JobCommit(j)
  \/ JobFail(j)

Next ==
  \/ \E r \in Request : Ask(r) \/ Handle(r) \/ Finish(r)
  \/ \E j \in Job : RunJob(j)
  \/ \E a \in Article : IngestWireFeeds(a) \/ GrowStale(a)
  \/ Tick
  \/ Boot

Spec == Init /\ [][Next]_vars

(* A transaction that holds a lock ends; the publisher's ticker starts it    *)
(* again and again; PostgreSQL queues those who wait for a row lock, so the  *)
(* job gets it even if requests keep taking it.                              *)
FairSpec ==
  /\ Spec
  /\ \A r \in Request : WF_vars(Finish(r))
  /\ WF_vars(JobStart(Publisher))
  /\ \A j \in Job : WF_vars(JobCommit(j))
  /\ \A j \in Job, a \in Article : SF_vars(JobRow(j, a))

-----------------------------------------------------------------------------
(* Properties *)

(* What every committed row and every written image satisfies: a scheduled_at *)
(* comes with the editor who set it, and edit versions are numbered apart.    *)
SoundRow(rw) ==
  /\ rw.sched # NoTime => rw.hasEditor
  /\ \A n \in Version : n > 1 => rw.vers[n] <= 1

(* The image a lock holder has written over row[a]: it publishes only with an *)
(* editor on record, and nobody writes over a deleted row.                    *)
SoundImage(a, image) ==
  /\ SoundRow(image)
  /\ row[a].status # "deleted"
  /\ image.status = "published" => (image.hasEditor \/ row[a].status = "published")

(* The inductive invariant behind the properties below: rows and images are   *)
(* sound, a request in phase wrote is exactly one that holds the lock of its  *)
(* article and has written the status it was asked for, and the publisher     *)
(* holds only rows that are due.                                              *)
RowsSound  == \A a \in Article : SoundRow(row[a])
ImgsSound  == \A a \in Article : holder[a] # Free => SoundImage(a, img[a])
LocksMatch == \A a \in Article, r \in Request :
                holder[a] = r <=> (req[r].phase = "wrote" /\ req[r].art = a)
HeldDue    == \A a \in Article : holder[a] = Publisher => DueBy(row[a], now)
RunsPast   == \A j \in Job : job[j].now <= now
SlotOK(r)  == /\ ~Open(r) => req[r].op = "create"
              /\ req[r].phase = "wrote" =>
                   /\ req[r].op = "transition" => img[req[r].art].status = req[r].to
                   /\ req[r].op = "schedule" => img[req[r].art].status = "scheduled"

WorkflowInv ==
  /\ RowsSound
  /\ ImgsSound
  /\ LocksMatch
  /\ HeldDue
  /\ RunsPast
  /\ \A r \in Request : SlotOK(r)

(* Two edits of an article never get the same version number: UpdateArticle  *)
(* computes MAX(version_num) + 1 while it holds the row lock its UPDATE took. *)
(* (Number 1 is what CreateArticle writes and what a transition defaults to.) *)
EditVersionsUnique ==
  \A a \in Article, n \in Version : n > 1 => row[a].vers[n] <= 1

(* Whoever publishes an article answers for it: except for the sweep at      *)
(* start, an article only becomes published with an editor on record, either *)
(* the one who transitioned it or the one who fixed its scheduled_at.        *)
PublishedByEditor ==
  [][\A a \in Article :
       (row[a].status # "published" /\ row'[a].status = "published")
         => (row'[a].hasEditor \/ faults' # faults)]_vars

(* The publisher never puts out an article before the time it is scheduled   *)
(* for, whatever rescheduling it meets while it waits for the row lock.      *)
NeverPublishedEarly ==
  [][\A a \in Article :
       (row[a].status # "published" /\ row'[a].status = "published"
         /\ holder[a] = Publisher) => DueBy(row[a], now)]_vars

(* A transition or a schedule answered 2xx after its write has taken effect: *)
(* the committed article has the status that was asked for, even when the    *)
(* article was deleted while the request waited.                             *)
AckedMeansApplied ==
  [][\A r \in Request :
       (req[r].phase # "acked" /\ req'[r].phase = "acked")
         => /\ req[r].op = "transition" => row'[req[r].art].status = req[r].to
            /\ req[r].op = "schedule" => row'[req[r].art].status = "scheduled"]_vars

(* A deleted article never comes back: not by a write that waited for the    *)
(* delete to commit, not by a job that had selected the row, not by the      *)
(* sweep at start.                                                           *)
DeletedForGood ==
  [][\A a \in Article : row[a].status = "deleted" => row'[a] = row[a]]_vars

(* An article whose time has come does not stay unpublished: the publisher   *)
(* reaches it, unless it is rescheduled, sent to review or removed first.    *)
DueIsPublished ==
  \A a \in Article : DueBy(row[a], now) ~> ~DueBy(row[a], now)

(* What the table of transitions and the refusals of ScheduleArticle say: a  *)
(* request never takes an article from one status to another that they rule  *)
(* out (service.go:982-989, 1017, 1070).                                     *)
TransitionsFollowTable ==
  [][\A a \in Article, r \in Request :
       (holder[a] = r /\ row'[a].status \in Status /\ Stored(a)
         /\ row'[a].status # row[a].status)
         => IF req[r].op = "schedule" THEN row[a].status # "archived"
            ELSE row'[a].status \in validTransitions[row[a].status]]_vars

(* What a request has asked for after it read the status, until it ends.     *)
Moves(r) == Open(r) /\ req[r].op \in {"transition", "schedule"}
Wish(r) ==
  IF Moves(r) THEN <<req[r].art, IF req[r].op = "schedule" THEN "scheduled" ELSE req[r].to>>
  ELSE <<>>

Lifecycle == INSTANCE ArticleLifecycle WITH
               Table <- validTransitions,
               status <- [a \in Article |-> row[a].status],
               wish <- [r \in Request |-> Wish(r)]

(* Whatever requests, jobs, failures and restarts interleave, statuses keep  *)
(* to ArticleLifecycle: a request changes one only as it asked when the      *)
(* table allowed it (service.go:1017, 1070), the jobs only from where their  *)
(* WHERE clauses say, however long they waited for the row, and nothing      *)
(* changes that of a deleted article.                                        *)
KeepsToLifecycle == Lifecycle!LifeSpec

=============================================================================
