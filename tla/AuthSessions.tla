----------------------------- MODULE AuthSessions -----------------------------
(***************************************************************************)
(* Sign-in sessions of one account: its rows in refresh_tokens and its     *)
(* is_active flag, under the requests that log in, exchange a refresh      *)
(* token for a new one, log out, end one session, and (de)activate or      *)
(* onboard the employee.  Accounts share no row here, so one is enough.    *)
(*                                                                         *)
(* PostgreSQL runs READ COMMITTED: a statement sees the rows committed     *)
(* when it begins; it waits for a row another transaction has written and  *)
(* then checks its WHERE clause again; a row inserted meanwhile it misses. *)
(***************************************************************************)
EXTENDS Naturals

CONSTANTS
  Token,       \* refresh tokens: random, so each is inserted at most once
  NoToken,     \* no refresh token
  Request,     \* requests under way at one time
  Free         \* nobody holds the row lock

ASSUME NamesAssumption == Free \notin Request /\ NoToken \notin Token

VARIABLES
  tok,         \* tok[t]: the committed row of token t
  expired,     \* the tokens whose expires_at is past
  lock,        \* lock[t]: who has written the row of t and not yet committed
  active,      \* the committed is_active of the account
  userLock,    \* who has written the users row and not yet committed
  req,         \* req[r]: the request in slot r
  saw,         \* history: the open requests since whose start the account was
               \* active at some moment
  swept        \* history: the tokens that were live when the statement of a
               \* (de)activation that has committed since began

vars == <<tok, expired, lock, active, userLock, req, saw, swept>>

(* live: is_revoked = FALSE; gone: deleted; none: not inserted (yet).        *)
(* parent: history: the token it was exchanged for.                          *)
TokenRow == [st : {"none", "live", "revoked", "gone"},
             parent : Token \cup {NoToken}]

Op == {"login", "refresh", "logout", "activate", "deactivate", "onboard"}

(* rotate, check: a refresh before its UPDATE, and before it looks at the    *)
(* user; issue: it only has to insert the new token and to commit; user:     *)
(* waits for the users row; sweep: revokes the rows its UPDATE selected;     *)
(* granted, refused: answered.                                               *)
Phase == {"idle", "rotate", "check", "issue", "user", "sweep", "granted", "refused"}

(* snap: history: the live rows its UPDATE selected; todo: those it has not  *)
(* come to.                                                                  *)
Req == [phase : Phase, op : Op, old : Token \cup {NoToken},
        snap : SUBSET Token, todo : SUBSET Token]

NoReq(phase) == [phase |-> phase, op |-> "login", old |-> NoToken,
                 snap |-> {}, todo |-> {}]

Open(r)  == req[r].phase \notin {"idle", "granted", "refused"}
Stored   == {t \in Token : tok[t].st \in {"live", "revoked"}}
Live     == {t \in Token : tok[t].st = "live"}
Mine(r)  == {t \in Token : lock[t] = r}

TypeOK ==
  /\ tok \in [Token -> TokenRow]
  /\ expired \subseteq Token
  /\ lock \in [Token -> Request \cup {Free}]
  /\ active \in BOOLEAN
  /\ userLock \in Request \cup {Free}
  /\ req \in [Request -> Req]
  /\ saw \subseteq Request
  /\ swept \subseteq Token

Init ==
  /\ tok = [t \in Token |-> [st |-> "none", parent |-> NoToken]]
  /\ expired = {}
  /\ lock = [t \in Token |-> Free]
  /\ active = TRUE
  /\ userLock = Free
  /\ req = [r \in Request |-> NoReq("idle")]
  /\ saw = {}
  /\ swept = {}

Begin(r, q) ==
  /\ ~Open(r)
  /\ req' = [req EXCEPT ![r] = q]
  /\ saw' = IF active THEN saw \cup {r} ELSE saw \ {r}

Step(r, phase) == req' = [req EXCEPT ![r].phase = phase]

(* Mutant: the users row stays locked.                                       *)
DropTokenLocks(r) ==
  /\ lock' = [t \in Token |-> IF lock[t] = r THEN Free ELSE lock[t]]
  /\ userLock' = userLock

(* The transaction of r ends: its locks go.                                  *)
DropLocks(r) ==
  /\ lock' = [t \in Token |-> IF lock[t] = r THEN Free ELSE lock[t]]
  /\ userLock' = IF userLock = r THEN Free ELSE userLock

Refuse(r) ==
  /\ req' = [req EXCEPT ![r] = NoReq("refused")]
  /\ DropLocks(r)
  /\ UNCHANGED <<tok, expired, active, saw, swept>>

-----------------------------------------------------------------------------
(* New tokens *)

(* LoginWithEmail and AuthenticateGoogle: the account is read, and has to be *)
(* active; the password and the code are right.                              *)
Login(r) ==
  /\ Begin(r, NoReq(IF active THEN "issue" ELSE "refused"))
  /\ UNCHANGED <<tok, expired, lock, active, userLock, swept>>

RefreshTokens(r, t) ==
  /\ IF tok[t].st = "live" /\ t \notin expired
     THEN Begin(r, [NoReq("rotate") EXCEPT !.op = "refresh", !.old = t])
     ELSE Begin(r, NoReq("refused"))
  /\ UNCHANGED <<tok, expired, lock, active, userLock, swept>>

(* UPDATE ... SET is_revoked = TRUE WHERE token_hash = $1: also a row that    *)
(* was revoked since it was read; no row at all is no error.                 *)
Rotate(r) ==
  LET t == req[r].old
  IN  /\ req[r].phase = "rotate" /\ lock[t] = Free
      /\ lock' = IF t \in Stored THEN [lock EXCEPT ![t] = r] ELSE lock
      /\ Step(r, "check")
      /\ UNCHANGED <<tok, expired, active, userLock, saw, swept>>

(* Mutant: the users row is read without AND is_active = TRUE.               *)
ReadAnyUser(r) ==
  /\ req[r].phase = "check"
  /\ Step(r, "issue")
  /\ UNCHANGED <<tok, expired, lock, active, userLock, saw, swept>>

CheckUser(r) ==
  /\ req[r].phase = "check"
  /\ IF active THEN /\ Step(r, "issue")
                    /\ UNCHANGED <<tok, expired, lock, active, userLock, saw, swept>>
               ELSE Refuse(r)

(* Mutants: a status the table does not know; the old row is written back as *)
(* it was read.                                                              *)
RowsMisspelt(r, n) ==
  [t \in Token |->
    IF t = n THEN [st |-> "live", parent |-> req[r].old]
    ELSE IF lock[t] = r THEN [tok[t] EXCEPT !.st = "rotated"] ELSE tok[t]]
RowsWrittenBack(r, n) ==
  [t \in Token |->
    IF t = n THEN [st |-> "live", parent |-> req[r].old]
    ELSE IF t = req[r].old THEN [tok[t] EXCEPT !.st = "live"] ELSE tok[t]]

(* What the committed rows of r say: the rows it holds are revoked, and n is *)
(* new.                                                                      *)
RowsAfterIssue(r, n) ==
  [t \in Token |->
    IF t = n THEN [st |-> "live", parent |-> req[r].old]
    ELSE IF lock[t] = r THEN [tok[t] EXCEPT !.st = "revoked"] ELSE tok[t]]

(* generateTokenPair and the commit.  A login also writes last_login_at, for *)
(* which it waits for the users row.                                         *)
IssueAndCommit(r, n) ==
  /\ req[r].phase = "issue" /\ tok[n].st = "none"
  /\ req[r].op = "login" => userLock = Free
  /\ tok' = RowsAfterIssue(r, n)
  /\ req' = [req EXCEPT ![r] = NoReq("granted")]
  /\ DropLocks(r)
  /\ UNCHANGED <<expired, active, saw, swept>>

-----------------------------------------------------------------------------
(* Logout, and the (de)activation of an employee *)

(* The route of Logout is registered before any middleware that reads the    *)
(* access token, so its handler finds no session and answers 401.            *)
Logout(r) ==
  /\ Begin(r, [NoReq("refused") EXCEPT !.op = "logout"])
  /\ UNCHANGED <<tok, expired, lock, active, userLock, swept>>

AskStatus(r, op) ==
  /\ op \in {"activate", "deactivate", "onboard"}
  /\ Begin(r, [NoReq("user") EXCEPT !.op = op])
  /\ UNCHANGED <<tok, expired, lock, active, userLock, swept>>

(* Mutant: a (de)activated employee keeps the sessions there are.            *)
UpdateStatusKeepsSessions(r) ==
  /\ req[r].phase = "user" /\ userLock = Free
  /\ userLock' = r
  /\ req' = [req EXCEPT ![r].phase = "sweep", ![r].snap = Live]
  /\ UNCHANGED <<tok, expired, lock, active, saw, swept>>

(* UpdateStatus writes users.is_active and then revokes every row of the     *)
(* account; OnboardEmployee sets is_active = TRUE and leaves the rows alone. *)
UpdateStatus(r) ==
  /\ req[r].phase = "user" /\ userLock = Free
  /\ userLock' = r
  /\ LET rows == IF req[r].op = "onboard" THEN {} ELSE Stored
     IN  req' = [req EXCEPT ![r].phase = "sweep", ![r].todo = rows,
                            ![r].snap = rows \cap Live]
  /\ UNCHANGED <<tok, expired, lock, active, saw, swept>>

(* The UPDATE comes to row t: not while another transaction has it.  A row   *)
(* deleted meanwhile it leaves alone.                                        *)
Sweep(r, t) ==
  /\ req[r].phase = "sweep" /\ t \in req[r].todo /\ lock[t] = Free
  /\ req' = [req EXCEPT ![r].todo = @ \ {t}]
  /\ lock' = IF t \in Stored THEN [lock EXCEPT ![t] = r] ELSE lock
  /\ UNCHANGED <<tok, expired, active, userLock, saw, swept>>

SweepCommit(r) ==
  /\ req[r].phase = "sweep" /\ req[r].todo = {}
  /\ tok' = [t \in Token |->
              IF lock[t] = r THEN [tok[t] EXCEPT !.st = "revoked"] ELSE tok[t]]
  /\ active' = (req[r].op # "deactivate")
  /\ swept' = swept \cup req[r].snap
  /\ req' = [req EXCEPT ![r] = NoReq("granted")]
  /\ saw' = IF active' THEN Request ELSE saw
  /\ DropLocks(r)
  /\ UNCHANGED expired

(* RevokeSession: one DELETE.                                                *)
RevokeSession(t) ==
  /\ t \in Stored /\ lock[t] = Free
  /\ tok' = [tok EXCEPT ![t].st = "gone"]
  /\ UNCHANGED <<expired, lock, active, userLock, req, saw, swept>>

(* A statement or the commit fails, PostgreSQL ends a deadlock, or the       *)
(* server goes down: nothing of the transaction is kept.                     *)
Fail(r) == Open(r) /\ Refuse(r)

Expire(t) ==
  /\ t \in Stored /\ t \notin expired
  /\ expired' = expired \cup {t}
  /\ UNCHANGED <<tok, lock, active, userLock, req, saw, swept>>

Next ==
  \/ \E r \in Request :
       \/ Login(r) \/ Logout(r) \/ \E op \in Op : AskStatus(r, op)
       \/ Rotate(r) \/ CheckUser(r) \/ UpdateStatus(r) \/ SweepCommit(r) \/ Fail(r)
       \/ \E t \in Token : RefreshTokens(r, t) \/ IssueAndCommit(r, t) \/ Sweep(r, t)
  \/ \E t \in Token : RevokeSession(t) \/ Expire(t)

Spec == Init /\ [][Next]_vars

-----------------------------------------------------------------------------
(* Properties *)

(* A change of is_active kills every token that was live when its UPDATE     *)
(* began, for good: refreshes that had read one of them as live and hold its *)
(* row, or rotate it afterwards, do not bring it back.                       *)
SweptStayDead == swept \cap Live = {}

(* A token that is revoked, deleted or expired never becomes usable again:   *)
(* not by a refresh that read it before, and not by a rollback.              *)
DeadStaysDead ==
  [][\A t \in Token : (tok[t].st \in {"revoked", "gone"} \/ t \in expired)
       => (tok'[t].st \in {"revoked", "gone"} \/ t \in expired')]_vars

(* Nobody signs in to, or stays signed in to, an account that is inactive    *)
(* all the while the request runs: "so the user cannot login / refresh       *)
(* tokens" (employee/repository.go:282).                                     *)
GrantedWhileActive ==
  [][\A r \in Request :
       (req[r].phase = "issue" /\ req'[r].phase = "granted") => r \in saw]_vars

(* Row locks come to an end: whoever holds one is still under way, and what  *)
(* it has written is a stored row nobody has deleted under it.               *)
LocksSound ==
  /\ \A t \in Token : lock[t] # Free =>
       /\ t \in Stored
       /\ req[lock[t]].phase \in {"check", "issue", "sweep"}
  /\ userLock # Free => req[userLock].phase = "sweep"

(* What makes the two safety properties inductive.  A token a sweep selected  *)
(* is dead, held by the sweep, or still to be visited; no token not inserted  *)
(* yet was selected; a request that may issue a token, or is under way while  *)
(* the account is active, has seen it active.                                 *)
SessionInv ==
  /\ swept \cap Live = {}
  /\ \A t \in swept : tok[t].st # "none"
  /\ \A r \in Request :
       /\ \A t \in req[r].snap : tok[t].st # "none"
       /\ req[r].phase = "sweep" => req[r].snap \cap Live \subseteq req[r].todo \cup Mine(r)
       /\ req[r].phase = "issue" => r \in saw
       /\ (Open(r) /\ active) => r \in saw

(* "Revoke the old refresh token (rotation)" (service.go:321): a refresh     *)
(* token is exchanged for at most one new one.                               *)
RotatedOnce ==
  \A t, u \in Token :
    (tok[t].parent # NoToken /\ tok[t].parent = tok[u].parent) => t = u

(* "Kill existing sessions so a deactivated user cannot stay signed in"      *)
(* (employee/repository.go:294): when it commits, no session is alive that   *)
(* began with a token it set out to revoke.                                  *)
DeactivationKillsSessions ==
  [][\A r \in Request :
       (req[r].op = "deactivate" /\ req'[r].phase = "granted" /\ req[r].phase = "sweep")
         => \A t \in Token : tok'[t].st = "live" => tok'[t].parent \notin req[r].snap]_vars

=============================================================================
