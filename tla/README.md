# A verification project for go_platform

go_platform is the backend of a news portal: one Go process (Fiber, pgx, go-redis) in
front of PostgreSQL and Redis. Journalists write, review, schedule and publish articles
in a studio; readers get a home feed, articles, live blogs, polls and comments; a small
IAM decides who may do what. This directory holds TLA+ models of the parts whose
correctness depends on interleavings, failures and time, the TLC runs that check them on
small instances, and TLAPS proofs of the most important results for every size.

Paths below are relative to `src/`.

## 1. Inventory

### How the parts interact

* Every request under `/api/v1` runs inside a database transaction that a middleware
  (`pkg/middleware/transaction.go`) opens before the handler and ends after it: commit
  when the status is 2xx or 3xx, rollback otherwise. Handlers and services find it in the
  context; code that does not (authentication, permission checks, the home feed, all
  goroutines) takes connections of its own from the same pool.
* PostgreSQL runs READ COMMITTED. Checks in the services are plain SELECTs before an
  UPDATE; none takes a row lock (`FOR UPDATE`) for what it checks.
* Background goroutines (`internal/jobs/scheduler.go`, view counters, cache purges) share
  the tables and the pool with the requests, and none is waited for at shutdown.
* Two caches hold derived data: Redis and maps in the process. Edits clear them, most of
  them before the transaction of the edit has committed.
* Live blogs and notifications go through Redis publish/subscribe to open streams.

### Components

| Component | State | Operations | What is hard, and what has to hold |
|---|---|---|---|
| Editorial workflow (`content/service.go`, `content/handler.go`) | `articles`, `article_versions` | create, update, transition, schedule, delete | status read long before it is written; two requests and two jobs on one row. Version numbers stay apart, a deleted article stays deleted, an answer 2xx means the change is there |
| Background jobs (`jobs/scheduler.go`) | tickers | publish scheduled articles, archive stale drafts, trending list, digests | runs that fail are dropped; they meet rows that requests hold. Nothing is published early; what is due does not stay unpublished |
| Wire ingestion (`jobs/wire_ingestion.go`) | `articles` | a dispatch becomes a draft | check for a known title, then insert |
| Server start (`cmd/api/main.go`) | tables | schema repair, role grants, publishing sweep | runs again at every restart, on live data |
| Request transactions and pool (`transaction.go`, `pkg/database/postgres.go`, `routes/routes.go`) | 25 connections | begin, nested acquire, commit, rollback, panic | waiting for a second connection while holding a first. Every request ends |
| Sessions (`auth/service.go`, `employee/repository.go`) | `refresh_tokens`, `users.is_active` | login, refresh with rotation, logout, revoke, (de)activate, onboard | a refresh and a deactivation at the same time. Revoked tokens stay dead; an inactive account signs nobody in |
| Home feed caches (`content/home_feed.go`, `content/service.go`) | L1 map, L2 Redis, singleflight | read, backfill, generate, store, invalidate, purge | invalidation before commit, late backfills, a herd of misses. Age of what is served is bounded, old feeds die out, one generation per herd |
| Home feed generation (`content/home_feed.go`, `content/blocks.go`) | candidates, used ids | fill every section | no article twice, sections filled in order |
| Homepage sections (`content/homepage_section.go`) | `homepage_sections` | CRUD, reorder | order numbers, caches cleared after the write |
| IAM (`iam/`) | roles, grants, overrides, scopes, approvals | CRUD of roles, replace grants, replace a user's role, approve, evaluate | delete-then-insert without locks, a role deleted while it is assigned |
| Rate limiter (`pkg/middleware/ratelimit.go`) | a bucket per client | take a token, refill, clean up | a refill of the whole bucket at once; the bound on grants in a stretch of time |
| Schema migrations (`cmd/migrate`) | `schema_migrations` | apply, `--force` | a crash between applying and recording; files that delete before they seed |
| Live blogs and streams (`content/service.go`, `stream/service.go`) | entries, Redis channel, open streams | post, pin, delete, subscribe | publish before commit, lost and late messages, a list that may be an old copy from the edge |
| Notifications (`notify/`) | newsletter rows, a list and a counter in Redis | subscribe, unsubscribe, broadcast | Redis commands whose errors are dropped, broadcasts that overlap: the history keeps the latest, in order |
| Moderation (`moderation/`) | comments, feedback | post, moderate, list | a comment is approved as it is inserted; every moderation names columns the schema lacks and fails; a reply may hang on another article's comment and goes with it |
| Polls (`poll/`) | votes, tallies | vote, results | the first query of a vote names a column the schema lacks, so every vote fails |
| Media library (`media/`) | files and rows | upload, describe, delete | a rollback takes back rows, not files, and writing the smaller image may fail half-way unnoticed. What is listed has the file its upload left |
| Employees (`employee/`) | employees, users, roles | onboard, update, delete, (de)activate | id sequences set back by hand, outside the transaction. Who was answered as onboarded is an employee; nobody shares an id or a code |
| Registration, OTP, TOTP, password reset, OAuth (`auth/`) | the account, codes | register, sign in, request, verify | several operations name columns the schema lacks; what remains must not sign in an inactive account |
| Access checks (`pkg/middleware/auth.go`, `authz.go`, `iam/service.go`) | a menu cache of 15 s | the guards of a staff request | the account is read again, grants are read one after the other while they change |
| Resource-scope permissions (`iam/service_enhanced.go`) | rows of five tables, a materialized view | check, grant, revoke, refresh | a check reads one table after the other; the view is refreshed after a write has committed, outside its transaction and before the answer; some changes refresh nothing |
| Search (`content/service.go`, `pkg/middleware/cache.go`) | a page in Redis, an answer at the edge | search | nothing removes a withdrawn article from either |
| Settings, SEO, analytics, ads, e-paper, web stories, AI | own tables | reads, upserts | little that interleaves |
| Edge headers, purge, security headers, configuration, responses (`pkg/`) | none | – | – |

`PROJECT.json` lists each of them with its status, and under `hazards` each line at which
something can go wrong that a test would hardly reach, with the properties that watch it
or the reason why there is none.

## 2. Plan

Done, in this order (most important first):

1. `ArticleWorkflow`: the editorial life of articles, with jobs, wire feed and restarts.
2. `RequestPool`: what requests hold and wait for.
3. `AuthSessions`: sessions of one account.
4. `HomeFeedCache`: both caches and the singleflight.
5. `RoleAdmin`: roles, their grants and the roles of users under concurrent
   administrators.

6. `LiveUpdates`, which implements `LiveFeed`: live blogs and their streams.
7. `HomeFeedSections`: one generation of the home feed.
8. `ScopedPermissions`, `AccountAccess`, `IamGovernance`: the rest of the IAM, the accounts
   and the guards of a request.
9. `HomepageLayout`, `EmployeeDesk`, `MediaStore`, `ReaderDesk`, `SearchCache`,
   `RateLimiter`, `SchemaMigrations`: the smaller parts.
10. `MCSite` puts the modules of 6 to 9 into one run; `AccessProofs`, `ReaderProofs` and
    `SiteProofs` prove what the run checks in them, each part by itself and then together.
11. `ArticleLifecycle`, the abstract specification that `ArticleWorkflow` implements, and
    theorems on when the properties hold that the code breaks (`...WhenApart`).

What could follow: the caches as a register that lags behind; the seed of the system roles
at a start as an actor of `RoleAdmin`; titles in the wire ingestion; the counters of the
trending searches.

## 3. Modules and how they correspond to the code

Every definition that stands for code has its lines in `PROJECT.json`, `map`. A mutant
(an operator just before the definition it replaces, its comment says "Mutant" or
"MUTANT of" it) is a
plausible bug that makes the property it is listed with fail.

### ArticleWorkflow

| Model | Code |
|---|---|
| `row` | the committed row of an article: `status`, whether `editor_id` is set, `scheduled_at`, whether `updated_at` is over 180 days old, and how many `article_versions` rows have each `version_num` |
| `img`, `holder` | a written, uncommitted row image and who holds its row lock |
| `req` | a studio request between what its handler reads (`Ask...`) and the end of its transaction |
| `job` | a run of one of the two jobs: the rows its snapshot selected and has not visited |
| `Ask...` | the reads and early returns of the handler and service, before any write |
| `UpdateArticle`, `TransitionStatus`, `ScheduleArticle`, `DeleteArticle` | the statements that write: wait for the row lock, then act on the row as it is *now* |
| `Commit`, `CommitFails`, `Rollback` | the end of `TransactionContext` |
| `JobStart`, `JobRow`, `JobCommit`, `JobFail` | one `UPDATE` over the table, row by row, with its `WHERE` evaluated again on a row that was waited for |
| `Boot` | a crash and a new start, with the sweep of `main.go:72` (whose error is ignored) |

A transition to the status the article already has answers at once. A write by id that
meets a deleted row changes nothing; the version row that follows it breaks its foreign
key, so the transaction is aborted and the commit fails after the handler answered 200:
that is why `AckedMeansApplied` holds, and why the model has the phase `aborted`.

`ArticleLifecycle` is what this amounts to, in the statuses and the open wishes of
requests alone: a request wishes what the table or the scheduling allows at that moment,
and a wish is granted later, in whatever status the article then is, if it is still stored
(that the table need not allow it then is the finding of `article_table`). The jobs move
only what is due or abandoned when they get to it, a restart may publish everything and
drops all wishes, and a deletion is final. `Lifecycle` maps the committed status of each
row and the requests between read and commit (`Wish`) to it; `KeepsToLifecycle` says that
`ArticleWorkflow` implements it.

### RequestPool

The phase of each request says which connections it holds: one for the transaction of
`PublicTransactionContext`, a second one for `TransactionContext` (staff routes pass
through both, `routes.go:87`), and one more while a single statement runs outside
(`HoldsAnother`). `Acquire...`/`Begin...` need a free connection and wait for ever
otherwise. `LeadFlight`, `JoinFlight`, `FlightQueryDone` are the singleflight of the home
feed. `Panic` loses the connections of the request: no rollback is deferred.

### AuthSessions

One account; `tok` is the committed state of its refresh tokens, `lock` and `userLock` the
row locks. A refresh is `RefreshTokens` (SELECT), `Rotate` (UPDATE), `CheckUser` (SELECT
of the account), `IssueAndCommit` (INSERT and COMMIT). `UpdateStatus` selects the rows its
UPDATE revokes, `Sweep` visits them one by one, `SweepCommit` commits. `Fail` is an error
anywhere, or a crash. `saw` and `swept` and the fields `snap` and `parent` are history.

### HomeFeedCache

The feed of one language and district. A feed is the version of the data it shows and its
age in ticks. `Ask`, `AskL2`, `Backfill`, `Join`, `Check`, `Generate`, `StoreL2` follow
`buildHomeFeed`; `Deliver` is what singleflight does for those who wait. `WriteArticle`
clears the caches in a transaction that `EndTx` ends later; `WriteSection` commits first;
`QuietCommit` stands for the commits that clear nothing (schedule, delete, create, the
publisher job). `Purge` is the goroutine that clears Redis and may fail. `Tick` ages what
is cached or in a reader's hands.

### RoleAdmin

| Model | Code |
|---|---|
| `db` | the committed rows of `roles`, `role_menu_actions` and `user_roles`; a `user_roles` row is `on` or `off` (`is_active`) |
| `w`, `gone` | what a request has written and deleted without having committed: the rows it locks |
| `todo` | the rows that its current UPDATE, DELETE or cascade found and has not come to |
| `want` | the rows it has still to insert |
| `share` | the key-share lock on its role, which the foreign key of an insert takes |
| `BeginPerms`, `BeginUser`, `BeginDelete`, `BeginCreate` | the first statement of `AssignRolePermissions`, `ReplaceUserRole` (and `AssignRole` of an employee), `DeleteRole`, `CreateRole` or `CloneRole`, with the reads and refusals before it |
| `Touch`, `Insert`, `CheckRole`, `RoleMissing`, `Drop`, `Copy` | the statements row by row: each waits for a row that another transaction has written |
| `Commit`, `Rollback`, `DeadlockVictim`, `Fails` | the end of the transaction; PostgreSQL fails one of the transactions of a cycle |

READ COMMITTED is what the model is about: a statement finds the rows committed when it
starts, waits for those that are locked, skips those deleted meanwhile (`Commit` takes
them out of the others' `todo`) and does not see those inserted meanwhile. Renaming a
role, the uniqueness of names and the foreign key to the permission are left to `Fails`.

### LiveUpdates and LiveFeed

`LiveFeed` is what a live blog promises: an entry is written and then kept or dropped, and
a reader who is live knows of every entry that is kept. `LiveUpdates` implements it
(`NothingMissed`), with this mapping: an entry whose request has inserted it is `pending`,
one whose transaction committed is `kept`; a reader knows what it shows and what waits in
its stream; it is live (`caught`) when it was shown a list that was *read* after it
subscribed and has lost nothing since the subscription.

| Model | Code |
|---|---|
| `LockForEntry`, `InsertEntry`, `PublishEntry`, `PublishBreaking`, `CommitEntry`, `FailEntry` | `AddLiveBlogEntry` with its `ALTER TABLE` (which locks the table to everyone until the transaction ends), the row, one or two publications, and the end of the transaction |
| `LockForList`, `ListLiveBlogEntries` | the same `ALTER TABLE` before the list, and the list read |
| `DeliverList` | the answer on its way: to the reader, to the edge that may keep it, or both |
| `ListFromEdge`, `EdgeForgets` | `EdgeCache(60, 300)`: a copy answers, also a stale one while it is refreshed, or is gone. No age is modelled, so a copy may be of any time |
| `reply`, `listCopy` | the list on its way and the copy: its entries and, as history, whose stream began before it was read and has lost nothing (`after`) |
| `StreamLiveBlog`, `StreamBreakingNews`, `Flush` | the stream's subscription and its loop |
| `PublishTo`, `LoseMessages`, `Disconnect` | a full buffer, Redis failing, the connection ending: the reader is no longer live |

What makes it hold although entries are published before they commit is the table lock of
the list: no entry is between its publication and its commit when a reader lists. The
mutant `ListAnyTime`, the list without that lock, loses one. A reader that subscribes and is
then answered by an older copy may have missed an entry; such a reader is not live, and the
promise is not made to it.

### HomeFeedSections

`Pipeline` is `generateHomeFeed` as a sequence of steps: queries that fetch candidates
(`Fetch`, `FetchMore` when the first found none, with the fallback to any language) and
sections that take some (`Take`). `TakeArticle` offers the section's own candidates and
then the general pool and passes over what is in the feed. Between two queries editors
commit (`EditStory`), and a query may fail and leave its list empty. Titles are compared
by their length, as `home_feed.go:383` does: it hashes a title to its length.

### ScopedPermissions

The permissions `resource:action:scope` of one user, one role, one resource and one
action. `check` is the check under way: `AskCheck`, `ReadResourceGrants`, `ReadUser`,
`ReadUserPermissions`, `ReadRoles`, `ReadRolePermissions`, `ReadPolicies` each read one
table, and `AdminStep` commits between them. A direct row without a start makes
`GetUserPermissions` fail (it scans NULL into a time). Conditions of a policy are never
evaluated to true. A row that is not yet in force is passed over by every query
(`InForce`), until it starts (`RowStarts`).

`permView` is the materialized view. The service refreshes it after the commit of a write:
`BeginRefresh` takes the snapshot, and fails when a permission is held twice (`ViewClash`:
the unique index), `EndRefresh` installs what was read, possibly after a refresh that read
more, and a failure or a crash loses it (`RefreshLost`). `viewAt`, `newest`, `noted` and
`drift` are history: the version of the rows that the view shows, the newest that it has
shown, and the last changes with and without a refresh. Changes without one (`Unannounced`)
are a bulk revocation (`RevokeRolePermissionsBulk`, the legacy route beside
`AssignRolePermissionsNew`), the role given or taken, and rows that start or expire by the
clock; after one of them the view is off until a later refresh, and `ShownIsWhatRowsGive`
excepts them, lost refreshes and overtaken ones by name. `standing` records what has held
ever since a check began. The guards of the package are mounted nowhere: only the routes
that check permissions ask.

### AccountAccess

`account`, `superAdmin`, `totp`, ... are the columns of one user; `claim` is the access
token a client still holds, `request` a staff request on its way through `RequireAuth`,
the menus (with the cache of 15 s) and `EvaluateUser`. `SchemaLacks` lists the columns
that statements name and the migrations do not create: `Runs` tells which statements can
succeed. That is why `VerifyOTP`, `ResetPassword`, the TOTP operations, the sign-up by
Google, `DeleteAccount` and `CreateOverride` change nothing.

### IamGovernance

`approval` is one request for approval, `decider[d]` a staff member's request: `Decide`
is the UPDATE (which waits for the row's lock and looks at the committed row again),
`CommitDecision` its end, `AnswerUnmatched` the answer to one that matched no row. The
rights to approve decide only what is listed. `BeginDelete`, `DeleteScopes`,
`InsertScopes`, `CommitScopes` replace a user's category scopes, each waiting for rows
that others have written; `others` is history: what committed after the deletion began.

### MediaStore

`file` and `row` are what is on disk and what is committed. An upload is `AcceptUpload`,
`CopyFile`, `BeginOptimizing`, `OptimizeImage`, `InsertMedia`, `CommitUpload`; a delete
`FindMedia`, `DeleteRow`, `DeleteFile`, `CommitDelete`. `CrashMedia` may come at any step;
`spoiled` names the items whose delete has removed the file and then failed, `truncated`
those of which `OptimizeImage` could not write the smaller image to its end: `os.WriteFile`
cuts the file first, its error is dropped, and the upload goes on to commit the row. Both
are exceptions of `ListedHasFile`, which shows that there is no third way to a listed item
without its file.

### HomepageLayout

`EnsureHomepageSchema` is what a starting server does: count, and insert the defaults when
there is none. `CreateHomepageSection` (at the end, by the highest order it reads),
`UpdateHomepageSection`, `UpdateSettings`, `DeleteHomepageSection` are single statements;
a reordering (`AskReorder`, `MoveOne`, `ReorderHomepageSections`) is one batch, run as one
transaction that holds each row it has moved. `lastAsked`, the order that was committed
last, keeps its places when a section is removed or placed anew (`WithoutID` leaves a
hole), so that the rest of it is still claimed.

### EmployeeDesk

`OnboardExisting`, `SyncUserSeq`, `NextUserID`, `InsertUser`, `NextEmployeeCode`,
`SyncEmployeeSeq`, `NextStaffID`, `InsertEmployee`, `AssignOnboardedRole`,
`CommitOnboarding` are `CreateEmployee` statement by statement. Sequences change at once,
rows with the commit; an INSERT waits for a transaction that holds the same unique value
(`Holds`) and fails when it is committed (`Collides`). `Restart` enrols at a start whoever
is on the staff and no employee, so a deleted employee comes back: deletion leaves the
account as it is.

### ReaderDesk

Comments on any of the articles, feedback, newsletter and push requests in their
transactions (`WrittenAt`, `CommitDesk`, `RollbackDesk`), and broadcasts as rows of Redis commands (`PublishBroadcast`,
`PushBroadcast`, `TrimBroadcasts`, `CountBroadcast`) of which each may fail unnoticed.
`DeskLacks` are the columns that moderation, push subscriptions and votes name in vain. A
reply may refer to a comment on another article: `rests` are the articles a comment goes
with by the two cascades, its own and those of its parent. `ListApprovedComments` is the
query with both of its conditions, `status` or `is_approved`. `CommentsStay` says that a
comment leaves the list of its article only with the article or, a reply, with its parent.

### SearchCache, RateLimiter, SchemaMigrations

`SearchCache` follows one search: `Search` and `AnswerFromRedis`, or `ReadArticles` and
`StorePage` later; the answer goes to the edge with its own age. `Publish` and `Withdraw`
clear neither. `RateLimiter` is one client's bucket: `LetThrough`, `TurnAway`, `CleanUp`
and time. It is mounted before sessions are read, so a client is always an address.
`SchemaMigrations` is `cmd/migrate` statement by statement: a file is executed as a whole
(`Execute`) and recorded separately (`Record`); `StopRunner` may come anywhere; the errors
of all other statements are dropped, so `RecordExisting` and `LookUp` may be misread. The
initial states include a database whose files `make migrate-up` executed without recording.
Of what a file does the model keeps what it takes away (`DroppedBy`): file 1 drops all
tables; 002 and 005 the policies (`PolicyFiles`); 005, 006 and 008 to 011 delete role and user
permissions, resource grants, scopes or the roles of users before they seed them
(`GrantFiles`). The first execution does so by design; `lost` is what an execution of a file
whose effect was there already takes away. 003 and 004 create triggers and fail when executed
again (`TriggerFiles`), which stops the run.


## 4. Runs

| Run | Instance | Distinct states | Shows |
|---|---|---|---|
| `article_safety` | 1 article, 2 requests, 2 clock values, 3 versions, 1 fault | 1 317 970 | types, version numbers, publishing, honest answers, deletion, and that `ArticleWorkflow` implements `ArticleLifecycle` |
| `article_live` | 1 article, 1 request, 2 faults | 124 752 | a due article does not stay unpublished |
| `article_table` (violation) | 2 requests | – | a transition the table rules out |
| `pool_roomy` | 2 requests, 7 connections, 2 lost | 5 768 | the pool always recovers, every request ends |
| `pool_full` (violation) | 2 requests, 4 connections | – | everyone waits for everyone |
| `auth_safety` | 3 tokens, 2 requests | 1 221 311 | revoked tokens stay dead, inactive accounts sign nobody in |
| `auth_rotate` (violation) | 3 tokens, 2 requests | – | one token exchanged twice |
| `auth_deactivate` (violation) | 2 tokens, 2 requests | – | a session survives the deactivation |
| `feed` | 2 readers, 1 editor, L1 1 tick, L2 2 ticks, 1 commit, 1 purge | 202 408 | age, herd protection, everyone served, old feeds die out |
| `role_admin` | 2 roles (1 stored), 1 permission, 1 user, 2 requests | 28 450 | no row without its role, nobody loses the last role by a replacement, revoked grants are gone, deadlocks end |
| `role_single` (violation) | 2 stored roles, 2 requests | – | a user with two active roles |
| `site` | one part to a behaviour, see below | 1 339 419 | twelve invariants of the remaining parts, and that `LiveUpdates` implements `LiveFeed` |

Why these bounds are enough. Articles share no row, so two articles add only the product
of two independent ones; two requests are needed for every race between a read and a
write, and the jobs are the third and fourth actor. Two clock values separate "scheduled
for now" from "for later"; three versions allow two edits after the creation. A token
exchanged twice needs the old and two new tokens. In `pool_roomy` seven connections are
one more than two requests can hold for their transactions (four) and panics lose (two);
`pool_full` has exactly the four. The real numbers (25 connections, 12 staff requests and
a reader) have the same shape: the theorem `PoolNeverStuck` is for all of them. L2
outliving L1 is what matters for the caches, not by how much; the proof of
`FeedAgeIsBounded` is for any lifetimes. In `role_admin` two roles are needed for a replacement, a clone and a deletion beside an
assignment; the races are between two transactions, and the theorems are for any number
of them, of roles, permissions and users. Symmetry is declared only for runs that check no
liveness property.

`site` runs `MCSite`: its parts share no state and no property relates two of them, so a
behaviour is one of the part that it runs. Their bounds, and what each is for:

* permissions: both scopes the code tells apart by ownership (`all`, `own`) and two writes
  of administrators or lost refreshes, one for what a check reads before and one for what it
  reads after, and two refreshes that overlap;
* account: two changes of the account or sign-ins, one one-time code;
* governance: two deciders and two categories, so that one waits for the other and the
  sets of scopes can differ;
* sections: two stories, three titles of which two have the same length, two columns, and
  one query that fails or edit that commits;
* live: two entries, one reader, a buffer of one message, two streams of that reader, so
  that a copy at the edge can be older than the second;
* media: two items, two deletes or descriptions, one crash;
* layout: two default keys and one other, two editors, a server that starts, three edits;
* employees: two people, two onboardings, ids up to four, two other events;
* readers: two requesters with three requests each, two articles, so that a reply can hang
  on the other's comment; three broadcasts, of which the history keeps two (50 in the code) so
  that the trimming shows;
* search: two seekers and one article; Redis keeps a page longer than a search lasts, and
  six ticks let a slow search store and another answer from what it stored;
* limits: two tokens, a window of two ticks, seven ticks: more than three windows;
* migrations: five files: the first that drops everything, one that drops policies, the two
  that cannot be executed twice and one that deletes grants; the later ones do no more. Two
  runners and two runs: one that is interrupted and one that follows, or two that overlap.

The parts end at their bounds, so `site` does not check deadlock; it states no fairness,
since its properties are invariants and the safety of a refinement.

### Fairness

* `ArticleWorkflow`: a transaction that has written ends (`WF` of `Finish`: handlers do
  not wait for anything else); the ticker starts the publisher again (`WF` of
  `JobStart(Publisher)`); a job gets a row lock that is free again and again
  (`SF` of `JobRow`: PostgreSQL queues those who wait). Nothing forces requests to come,
  and faults are bounded: with a failure at every run nothing would be published.
* `RequestPool`: goroutines run (`WF`), and pgxpool serves those who wait in order (`SF`).
* `HomeFeedCache`: goroutines run, a purge ends, and time passes (`SF` of `Tick`, which a
  reader that a tick has gone by for holds up for one round trip).
* `RoleAdmin`: a request that has arrived goes on (`SF` of `Step`: its goroutine runs,
  the lock queue of PostgreSQL serves who waits in order, and its deadlock detector fails
  a member of a cycle). The run needs no fairness of arrivals or of faults.
* Safety runs use no fairness.

## 5. Proofs

Checked by `tlapm`, for every value of the constants that satisfies the named assumptions
(bounds are naturals, sentinels are not members of the sets they complete).

| Module | Theorems | Along which argument |
|---|---|---|
| `ArticleWorkflowProofs` | `TypeCorrect`, `WorkflowInvariant`, `EditVersionsNeverClash`, `PublishedByEditorHolds`, `NeverPublishedEarlyHolds`, `DeletedForGoodHolds`, `AckedMeansAppliedHolds`, `KeepsToLifecycleHolds`, `TransitionsFollowTableWhenApart` | `WorkflowInv`: rows and uncommitted images are sound, the lock holder of a row is the one request in phase `wrote` for it and has written what it was asked for, the publisher holds only due rows. The action properties follow from it one step at a time: without `LocksMatch` and the images nothing is known of what a commit makes visible. The refinement adds `HeldFor`: each holder of a row lock has written what it is there for, and the committed status stays while it holds the lock, so each commit is a step of `ArticleLifecycle`. The last theorem adds `ReadsHold`: what a request read is still true of its article |
| `RequestPoolProofs` | `PoolTypes`, `FlightsAreLed`, `PoolNeverStuck` | `PoolInv`: types, and who waits in a flight has a leader with a query left. `NeverStuck` is then a count: transactions take at most two connections of each request |
| `AuthSessionsProofs` | `AuthTypeCorrect`, `LocksComeToAnEnd`, `SessionInvariant`, `SweptTokensStayDead`, `GrantsNeedActiveAccount`, `DeadTokensStayDead`, `ExchangedTokensAreSpent`, `RotatedOnceWhenApart`, `DeactivationKillsWhenApart` | `SessionInv`: what a sweep selected is dead, held by it, or still to be visited, and no selected row is one not inserted yet; who may issue a token has seen the account active. `ExchangeInv`: who is between rotating a token and issuing the next holds the old one revoked, and a token that was exchanged is spent |
| `HomeFeedCacheProofs` | `FeedTypes`, `FeedInvariant`, `FeedAgeIsBounded`, `HerdGeneratesOnce` | ages: what is left of an entry's life and the age of its feed never exceed the sum of the lifetimes (a tick more for a store that is late); `FlightInv`: the leader is the one reader between `check` and `store` |
| `RoleAdminProofs` | `TypeCorrect`, `RoleInvHolds`, `NoOrphansHolds`, `KeepsARoleHolds`, `RevokedGoneHolds`, `SingleActiveRoleWhenApart` | `RoleInv`: `NoOrphans` alone is not inductive, since a commit makes rows visible that were checked long before. It needs that a row inserted has the role's key-share lock or is still to be checked (`KeysChecked`), that such a lock keeps the role (`ShareHeld`), that a deletion has the rest of the role's rows before it or written (`CascadeCovers`), and where each kind of request writes. One lemma (`QuietStep`) frames every step that commits nothing |
| `AccessProofs` | `ShownIsWhatRowsGiveHolds`, `AllowedOnStandingGroundHolds`, `GovernanceSoundHolds`, `PassedOnlyAsSuperAdminHolds`, `RateBoundedHolds`, `OnboardedStayHolds` | the last write that asked for a refresh has it due, under way or lost, or the view has shown rows as new, and what a refresh has read or the view shows are the rows of now if nothing changed since its version (`ViewInv`); each phase of a check implies that the ground it has passed was not forbidden when it read it; a decider that holds the approval's lock meets it undecided, and scopes that an assignment has not seen are new since; past the first guard the account has been seen active, and a token or a request that claims a super administrator is one's (`AccessInv`); a bucket accounts for all that passed since it was filled, at most one bucket was spent in the window before, and a bucket is cleaned up only when the next may as well be full (`RateInv`); wherever the sequences are set back to, what a transaction under way has inserted is held by it alone and meets no row (`EmployeeInv`) |
| `ReaderProofs` | `NothingMissedHolds`, `LayoutAsAskedHolds`, `FeedWholeHolds` | the refinement: `LiveInv` says that one request at a time is between lock and commit, holds the table, and that what it has published is with everyone caught up, and with everyone whose list is on its way or at the edge with it since its stream began. `LayoutInv`: a reordering names each section once and holds the rows it has come to, and a held row has the place its holder gave it. `SectionsInv`: the lists fetched so far are in hand before a step takes from them (`PipelineServed`), and what counts as seen is what was placed. Their lemmas on order (`SmallestExists`, `LargestExists`, `DescendingExists`) stand for the inductions |
| `SiteProofs` | `ListedHasFileHolds`, `MigrationsKeepHolds`, `SearchKeepsUpHolds`, `DeskSoundHolds`, `SiteImplementsItsParts`, `SiteSoundHolds` | a row in a remover's hands is that remover's (`HeldAtWork`), and every row comes from an upload that left its file as it is (`RowsFromUploads`); a runner that is alone goes through the files in order, and what is listed has taken effect (`AloneInOrder`, `Listed`); what a seeker, the page and the edge hold was withdrawn at most so long ago, and expires in time (`NotLongGone`, `InTime`); a comment rests on its own article and on what its parent rests on, and while one is being added nobody deletes any of these (`DeskInv`). Each step of `SiteSpec` is one of a part and leaves the others alone, so it implements all of their specifications, and their theorems together say what the run `site` checks (`SiteSound`) |

The theorems named `...WhenApart` are about the properties that runs find violated. Each
says that the property holds in every behaviour in which a certain overlap never occurs:
two requests (or a job and a request) that move the same article, two refreshes of the
same token, a refresh during a deactivation, two requests that replace the role of the
same user. So that overlap is the only way to the violation; failures, restarts, deletions
and all other requests cannot cause it. The hypotheses (`EditsApart`, `RefreshesApart`,
`SweepsApart`, `ReplacesApart`) are statements about who is under way, met for one by all
behaviours in which requests come one at a time. Given to TLC as a CONSTRAINT of the
corresponding run they leave a large part of its states (564 220 for `EditsApart`, with two
requests on one article), and it finds no violation there.

Only model-checked: the liveness properties (`DueIsPublished`, `EveryRequestEnds`,
`EveryReaderServed`, `StaleFeedsDie`, `Answered`), because the prover handles neither
fairness nor `ENABLED`. Of the inductive invariants only `RoleInv`, `LocksSound` and
`WaitersHaveLeader` are checked by runs as well; the others are proved inductive, and the
runs check what follows from them. What the proofs assume of the constants beyond bounds and
sentinels: the people of an onboarding are finitely many and at least one
(`DeskAssumption`), the sections of the layout and the stories of a feed are finitely many
(`LayoutAssumption`, `SectionsAssumption`).

## 6. Where the code and its own words part

Kept as runs (each with the quoted comment in `PROJECT.json`, `findings`): transitions
that the table of transitions rules out; requests that hold connections while they wait
for more; a refresh token exchanged twice; a session that survives a deactivation; a user
with two active roles.

Met while modelling, and not kept as runs:

* `cmd/api/main.go:72` publishes every article at every start, also wire dispatches that
  are stored "as draft ready for editorial desk review" (`jobs/wire_ingestion.go:114`).
  The properties on publishing except it by name.
* `content/handler.go:650` says others delete "only their own drafts"; line 655 refuses
  only published ones, by the status read at 640: an article that is published before the
  DELETE (660) is deleted all the same, against what 656 answers.
* `auth/handler.go:31` registers `Logout` without the middleware that reads the access
  token, so it always answers 401 (129).
* `auth/service.go:701` speaks of active sessions; the query (704) lists revoked ones too.
* `content/home_feed.go:268` drops the errors of its queries, so an incomplete feed is
  cached and shared, though line 161 promises a fully populated one.
* `cmd/migrate/main.go`: `--force` deletes the record of the first migration, and the
  check that the tables exist records it again (74), so nothing is applied.
* Replacing the grants of a role twice at the same time leaves the union of both lists,
  where each request answers as if its own were the whole (`iam/repository.go:444`).
  `RevokedGone` is what holds.
* `iam/repository.go:303` refuses to delete a role that users have, but a user who is given
  the role between the count and the DELETE loses it by the cascade.
* Several statements name columns, types or constraints the schema does not have (TOTP,
  OTP, password reset, sign-up by Google, deletion of an account, overrides, rights to
  approve, moderation, push subscriptions, votes): these operations always fail. For the
  guards it means that no role, grant or override admits anyone who is not a super
  administrator to a path that is not exempt (`PassedOnlyAsSuperAdmin`).
* `content/home_feed.go:383` hashes a title to its length, so two articles whose titles
  are equally long are never both in the feed.
* `pkg/middleware/ratelimit.go` speaks of a limit by user id; mounted before the session
  is read, it limits by address.
* The legacy route `POST /iam/roles/:id/permissions` (`iam/handler.go:499`) grants in one table
  (`role_menu_actions`) and revokes in another (`role_permissions`), and its revocation
  refreshes no view.
* `iam/repository.go:1612` updates no row of a request that is no longer pending, and the
  answer is that it was approved or rejected.
* `media/service.go:551` overwrites the uploaded image and drops the error of the write, so a
  row may be committed for part of a file; a delete that fails after `media/service.go:452`
  leaves a row without one.
* `moderation/service.go:67` takes any comment for the parent of a reply, also one on another
  article, whose deletion then takes the reply along.
* `GET /live-blogs/:articleId/entries` is cached at the edge (`routes.go:89`) for a minute and
  served stale for five more, so a reader who subscribes and then lists may miss entries.
* A migration that was executed and not recorded is executed again, and 005 to 011 begin by
  deleting grants.
* Comments are inserted as approved (`moderation/service.go:176`), and no moderation ever
  succeeds.
* A live blog entry is published before its transaction commits, also when it fails:
  readers may be shown an entry that never existed. What holds is the other direction,
  that none that exists is missed.

## 7. Not modelled, and why

* Settings, SEO and analytics, ads, e-paper, web stories and AI are reads, single
  statements or calls of outside services, with nothing to interleave.
* The data migration of the IAM: each copy inserts on the connection whose query it is
  still reading, which the driver refuses; the errors are collected and nothing is
  written. Its refresh of the view is in `ScopedPermissions`.
* The edge purge client is never constructed. Security headers, configuration, errors and
  responses are plain data.
* The seed of the system roles at a start: one execution that does what it says and that
  no property of the code rules out.
* The public answers that the edge keeps, but for a search and the list of a live blog: no
  other property is about what a reader is shown after a change.
* `Logout` as it is routed: it answers 401 before it reads anything.
* The wire ingestion's check for a known title, the trending list and the digests, the
  counters of the trending searches, role templates and dynamic permissions (their upsert
  names a constraint the schema lacks).

Inside the modelled parts, titles, bodies, tags, audit records, log lines and response
formats are left out where no property tells them apart.

## 8. Running

    tlc -workers 2 -config ArticleSafety.cfg MCArticleWorkflow
    tlc -workers 2 -config Feed.cfg HomeFeedCache
    tlc -workers 2 -config Site.cfg MCSite
    tlapm ArticleWorkflowProofs.tla    # SiteProofs takes AccessProofs and ReaderProofs along

The module of each configuration is in `PROJECT.json`, `runs`.
