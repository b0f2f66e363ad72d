-------------------------- MODULE AuthSessionsProofs --------------------------
(* Theorems about AuthSessions, for every set of tokens and requests.       *)
EXTENDS AuthSessions, TLAPS

(* The values the actions give a slot are requests.                          *)
LEMMA ReqType ==
  /\ \A p \in Phase : NoReq(p) \in Req
  /\ \A p \in Phase, op \in Op, t \in Token :
       [NoReq(p) EXCEPT !.op = op, !.old = t] \in Req
  /\ \A p \in Phase, op \in Op, A, B \in SUBSET Token :
       [NoReq(p) EXCEPT !.op = op, !.snap = A, !.todo = B] \in Req
  /\ \A p \in Phase, op \in Op : [NoReq(p) EXCEPT !.op = op] \in Req
BY DEF NoReq, Req, Op

(* A request with another phase or other lists of tokens is a request.       *)
LEMMA ReqUpdate ==
  ASSUME NEW q \in Req, NEW p \in Phase, NEW A \in SUBSET Token, NEW B \in SUBSET Token
  PROVE  /\ [q EXCEPT !.phase = p] \in Req
         /\ [q EXCEPT !.phase = p, !.todo = A, !.snap = B] \in Req
BY DEF Req

(* So is one with other tokens still to visit.                               *)
LEMMA TodoUpdate ==
  ASSUME NEW q \in Req, NEW A \in SUBSET Token
  PROVE  [q EXCEPT !.todo = A] \in Req
BY DEF Req

(* A token row with another state, and a new live one, are token rows.       *)
LEMMA RowType ==
  /\ \A row \in TokenRow, st \in {"none", "live", "revoked", "gone"} :
       [row EXCEPT !.st = st] \in TokenRow
  /\ \A t \in Token \cup {NoToken} : [st |-> "live", parent |-> t] \in TokenRow
BY DEF TokenRow

(* Dropping the locks of a request keeps their types.                        *)
LEMMA LockType ==
  ASSUME TypeOK, NEW r \in Request, DropLocks(r)
  PROVE  /\ lock' \in [Token -> Request \cup {Free}]
         /\ userLock' \in Request \cup {Free}
BY DEF DropLocks, TypeOK

(* The empty table has the right types.                                      *)
LEMMA TypeInit == Init => TypeOK
<1>1. NoReq("idle") \in Req
  BY ReqType DEF Phase
<1> QED
  BY <1>1 DEF Init, TypeOK, TokenRow

(* A refusal keeps the types.                                                *)
LEMMA RefuseType ==
  ASSUME TypeOK, NEW r \in Request, Refuse(r)
  PROVE  TypeOK'
<1>1. NoReq("refused") \in Req
  BY ReqType DEF Phase
<1>2. req' \in [Request -> Req]
  BY <1>1 DEF Refuse, TypeOK
<1>3. saw' \subseteq Request /\ expired' \subseteq Token
  BY DEF Refuse, TypeOK
<1> QED
  BY <1>2, <1>3, LockType DEF Refuse, TypeOK

(* The step by which a request comes in.                                     *)
LEMMA BeginType ==
  ASSUME TypeOK, NEW r \in Request, NEW q \in Req, Begin(r, q),
         UNCHANGED <<tok, expired, lock, active, userLock, swept>>
  PROVE  TypeOK'
BY DEF Begin, TypeOK

(* The type invariant is inductive.                                          *)
LEMMA TypeStep == TypeOK /\ [Next]_vars => TypeOK'
<1> SUFFICES ASSUME TypeOK, [Next]_vars PROVE TypeOK'
  OBVIOUS
<1>1. CASE UNCHANGED vars
  BY <1>1 DEF vars, TypeOK
<1>2. ASSUME NEW r \in Request, Login(r) PROVE TypeOK'
  <2>1. NoReq("issue") \in Req /\ NoReq("refused") \in Req
    BY ReqType DEF Phase
  <2> QED
    BY <1>2, <2>1, BeginType DEF Login
<1>3. ASSUME NEW r \in Request, Logout(r) PROVE TypeOK'
  <2>1. [NoReq("refused") EXCEPT !.op = "logout"] \in Req
    BY ReqType DEF Phase, Op
  <2> QED
    BY <1>3, <2>1, BeginType DEF Logout
<1>4. ASSUME NEW r \in Request, NEW op \in Op, AskStatus(r, op) PROVE TypeOK'
  <2>1. [NoReq("user") EXCEPT !.op = op] \in Req
    BY ReqType DEF Phase
  <2> QED
    BY <1>4, <2>1, BeginType DEF AskStatus
<1>5. ASSUME NEW r \in Request, NEW t \in Token, RefreshTokens(r, t) PROVE TypeOK'
  <2>1. NoReq("refused") \in Req
    BY ReqType DEF Phase
  <2>2. [NoReq("rotate") EXCEPT !.op = "refresh", !.old = t] \in Req
    BY ReqType DEF Phase, Op
  <2> QED
    BY <1>5, <2>1, <2>2, BeginType DEF RefreshTokens
<1>6. ASSUME NEW r \in Request, Rotate(r) PROVE TypeOK'
  <2>1. [req[r] EXCEPT !.phase = "check"] \in Req
    BY ReqUpdate DEF TypeOK, Phase
  <2>2. req' \in [Request -> Req]
    BY <1>6, <2>1 DEF Rotate, Step, TypeOK
  <2> QED
    BY <1>6, <2>2 DEF Rotate, TypeOK
<1>7. ASSUME NEW r \in Request, CheckUser(r) PROVE TypeOK'
  <2>1. [req[r] EXCEPT !.phase = "issue"] \in Req
    BY ReqUpdate DEF TypeOK, Phase
  <2>2. CASE active
    BY <1>7, <2>1, <2>2 DEF CheckUser, Step, TypeOK
  <2> QED
    BY <1>7, <2>2, RefuseType DEF CheckUser
<1>8. ASSUME NEW r \in Request, NEW n \in Token, IssueAndCommit(r, n) PROVE TypeOK'
  <2>1. NoReq("granted") \in Req
    BY ReqType DEF Phase
  <2>2. req[r].old \in Token \cup {NoToken}
    BY DEF TypeOK, Req
  <2>3. RowsAfterIssue(r, n) \in [Token -> TokenRow]
    BY <2>2, RowType DEF RowsAfterIssue, TypeOK
  <2> QED
    BY <1>8, <2>1, <2>3, LockType DEF IssueAndCommit, TypeOK
<1>9. ASSUME NEW r \in Request, UpdateStatus(r) PROVE TypeOK'
  <2> DEFINE rows == IF req[r].op = "onboard" THEN {} ELSE Stored
  <2>1. rows \in SUBSET Token /\ rows \cap Live \in SUBSET Token
    BY DEF Stored
  <2>2. [req[r] EXCEPT !.phase = "sweep", !.todo = rows, !.snap = rows \cap Live] \in Req
    BY <2>1, ReqUpdate DEF TypeOK, Phase
  <2>3. req' = [req EXCEPT ![r] = [req[r] EXCEPT !.phase = "sweep", !.todo = rows,
                                                !.snap = rows \cap Live]]
    BY <1>9 DEF UpdateStatus, TypeOK
  <2>4. req' \in [Request -> Req]
    BY <2>2, <2>3 DEF TypeOK
  <2> QED
    BY <1>9, <2>4 DEF UpdateStatus, TypeOK
<1>10. ASSUME NEW r \in Request, NEW t \in Token, Sweep(r, t) PROVE TypeOK'
  <2>1. req[r].todo \ {t} \in SUBSET Token
    BY DEF TypeOK, Req
  <2>2. [req[r] EXCEPT !.todo = req[r].todo \ {t}] \in Req
    BY <2>1, TodoUpdate DEF TypeOK
  <2>3. req' \in [Request -> Req]
    BY <1>10, <2>2 DEF Sweep, TypeOK
  <2> QED
    BY <1>10, <2>3 DEF Sweep, TypeOK
<1>11. ASSUME NEW r \in Request, SweepCommit(r) PROVE TypeOK'
  <2>1. NoReq("granted") \in Req
    BY ReqType DEF Phase
  <2>2. tok' \in [Token -> TokenRow]
    BY <1>11, RowType DEF SweepCommit, TypeOK
  <2>3. active' \in BOOLEAN
    BY <1>11, Zenon DEF SweepCommit, TypeOK
  <2>4. saw' \subseteq Request /\ swept' \subseteq Token
    BY <1>11 DEF SweepCommit, TypeOK, Req
  <2> QED
    BY <1>11, <2>1, <2>2, <2>3, <2>4, LockType DEF SweepCommit, TypeOK
<1>12. ASSUME NEW r \in Request, Fail(r) PROVE TypeOK'
  BY <1>12, RefuseType DEF Fail
<1>13. ASSUME NEW t \in Token, RevokeSession(t) PROVE TypeOK'
  BY <1>13, RowType DEF RevokeSession, TypeOK
<1>14. ASSUME NEW t \in Token, Expire(t) PROVE TypeOK'
  BY <1>14 DEF Expire, TypeOK
<1> QED
  BY <1>1, <1>2, <1>3, <1>4, <1>5, <1>6, <1>7, <1>8, <1>9, <1>10, <1>11, <1>12,
     <1>13, <1>14 DEF Next

(* Every variable keeps its type, for any number of tokens and requests.     *)
THEOREM AuthTypeCorrect == Spec => []TypeOK
BY TypeInit, TypeStep, PTL DEF Spec

(* A request that holds no lock may come in anew without harm.               *)
LEMMA BeginKeepsLocks ==
  ASSUME TypeOK, LocksSound, NEW r \in Request, NEW q, Begin(r, q),
         UNCHANGED <<tok, lock, userLock>>
  PROVE  LocksSound'
<1>1. \A t \in Token : lock[t] # r
  BY NamesAssumption DEF LocksSound, Begin, Open
<1>2. userLock # r
  BY NamesAssumption DEF LocksSound, Begin, Open
<1>3. \A s \in Request : s # r => req'[s] = req[s]
  BY DEF Begin, TypeOK
<1> QED
  BY <1>1, <1>2, <1>3 DEF LocksSound, TypeOK, Begin, Stored

(* The end of a transaction gives up all its locks.                          *)
LEMMA DropKeepsLocks ==
  ASSUME TypeOK, LocksSound, NEW r \in Request, DropLocks(r),
         \A s \in Request : s # r => req'[s] = req[s],
         \A t \in Stored : t \in Stored'
  PROVE  LocksSound'
<1>1. \A t \in Token : lock'[t] # Free => lock'[t] = lock[t] /\ lock[t] # r
  BY NamesAssumption DEF DropLocks
<1>2. userLock' # Free => userLock' = userLock /\ userLock # r
  BY DEF DropLocks
<1> QED
  BY <1>1, <1>2 DEF LocksSound, TypeOK

(* A statement that takes the row of t.                                      *)
LEMMA TakeKeepsLocks ==
  ASSUME TypeOK, LocksSound, NEW r \in Request, NEW t,
         lock' = IF t \in Stored THEN [lock EXCEPT ![t] = r] ELSE lock,
         req'[r].phase \in {"check", "sweep"},
         userLock = r => req'[r].phase = "sweep",
         \A s \in Request : s # r => req'[s] = req[s],
         UNCHANGED <<tok, userLock>>
  PROVE  LocksSound'
<1>1. \A x \in Token : lock'[x] # lock[x] => x \in Stored /\ lock'[x] = r
  BY DEF TypeOK, Stored
<1> QED
  BY <1>1, NamesAssumption DEF LocksSound, TypeOK, Stored

(* Locks are given up with their transaction, in every step.                 *)
LEMMA LocksStep == TypeOK /\ LocksSound /\ [Next]_vars => LocksSound'
<1> SUFFICES ASSUME TypeOK, LocksSound, [Next]_vars PROVE LocksSound'
  OBVIOUS
<1>1. CASE UNCHANGED vars
  BY <1>1 DEF vars, LocksSound, Stored
<1>2. ASSUME NEW r \in Request, Login(r) \/ Logout(r) \/ \E op \in Op : AskStatus(r, op)
      PROVE  LocksSound'
  BY <1>2, BeginKeepsLocks DEF Login, Logout, AskStatus
<1>3. ASSUME NEW r \in Request, NEW t \in Token, RefreshTokens(r, t) PROVE LocksSound'
  BY <1>3, BeginKeepsLocks DEF RefreshTokens
<1>4. ASSUME NEW r \in Request, Refuse(r) PROVE LocksSound'
  <2>1. \A s \in Request : s # r => req'[s] = req[s]
    BY <1>4 DEF Refuse, TypeOK
  <2>2. \A t \in Stored : t \in Stored'
    BY <1>4 DEF Refuse, Stored
  <2> QED
    BY <1>4, <2>1, <2>2, DropKeepsLocks DEF Refuse
<1>5. ASSUME NEW r \in Request, Rotate(r) PROVE LocksSound'
  <2>1. req'[r].phase = "check" /\ \A s \in Request : s # r => req'[s] = req[s]
    BY <1>5 DEF Rotate, Step, TypeOK, Req
  <2>2. userLock # r
    BY <1>5, NamesAssumption DEF Rotate, LocksSound
  <2> QED
    BY <1>5, <2>1, <2>2, TakeKeepsLocks DEF Rotate
<1>6. ASSUME NEW r \in Request, CheckUser(r), active PROVE LocksSound'
  <2>1. req[r].phase = "check" /\ req'[r].phase = "issue"
    BY <1>6 DEF CheckUser, Step, TypeOK, Req
  <2>2. \A s \in Request : s # r => req'[s] = req[s]
    BY <1>6 DEF CheckUser, Step, TypeOK
  <2>3. userLock # r /\ UNCHANGED <<tok, lock, userLock>>
    BY <1>6, <2>1, NamesAssumption DEF CheckUser, LocksSound
  <2> QED
    BY <2>1, <2>2, <2>3 DEF LocksSound, TypeOK, Stored
<1>7. ASSUME NEW r \in Request, NEW n \in Token, IssueAndCommit(r, n) PROVE LocksSound'
  <2>1. \A s \in Request : s # r => req'[s] = req[s]
    BY <1>7 DEF IssueAndCommit, TypeOK
  <2>2. \A t \in Stored : t \in Stored'
    BY <1>7 DEF IssueAndCommit, RowsAfterIssue, TypeOK, TokenRow, Stored
  <2> QED
    BY <1>7, <2>1, <2>2, DropKeepsLocks DEF IssueAndCommit
<1>8. ASSUME NEW r \in Request, UpdateStatus(r) PROVE LocksSound'
  <2>1. req'[r].phase = "sweep" /\ req[r].phase = "user"
    BY <1>8 DEF UpdateStatus, TypeOK, Req
  <2>2. \A s \in Request : s # r => req'[s] = req[s]
    BY <1>8 DEF UpdateStatus, TypeOK
  <2> QED
    BY <1>8, <2>1, <2>2 DEF UpdateStatus, LocksSound, TypeOK, Stored
<1>9. ASSUME NEW r \in Request, NEW t \in Token, Sweep(r, t) PROVE LocksSound'
  <2>1. req'[r].phase = "sweep" /\ \A s \in Request : s # r => req'[s] = req[s]
    BY <1>9 DEF Sweep, TypeOK, Req
  <2> QED
    BY <1>9, <2>1, TakeKeepsLocks DEF Sweep
<1>10. ASSUME NEW r \in Request, SweepCommit(r) PROVE LocksSound'
  <2>1. \A s \in Request : s # r => req'[s] = req[s]
    BY <1>10 DEF SweepCommit, TypeOK
  <2>2. \A t \in Stored : t \in Stored'
    BY <1>10 DEF SweepCommit, TypeOK, TokenRow, Stored
  <2> QED
    BY <1>10, <2>1, <2>2, DropKeepsLocks DEF SweepCommit
<1>11. ASSUME NEW t \in Token, RevokeSession(t) PROVE LocksSound'
  BY <1>11 DEF RevokeSession, LocksSound, TypeOK, TokenRow, Stored
<1>12. ASSUME NEW t \in Token, Expire(t) PROVE LocksSound'
  BY <1>12 DEF Expire, LocksSound, Stored
<1>13. ASSUME NEW r \in Request, CheckUser(r) \/ Fail(r) PROVE LocksSound'
  BY <1>4, <1>6, <1>13 DEF CheckUser, Fail
<1> QED
  BY <1>1, <1>2, <1>3, <1>5, <1>7, <1>8, <1>9, <1>10, <1>11, <1>12, <1>13 DEF Next

(* No lock outlives its request, and no locked row is deleted or forgotten,   *)
(* in every order of sign-ins, refreshes, (de)activations and failures.      *)
THEOREM LocksComeToAnEnd == Spec => []LocksSound
<1>1. Init => LocksSound
  BY DEF Init, LocksSound
<1>2. (TypeOK /\ LocksSound) /\ [Next]_vars => (TypeOK /\ LocksSound)'
  BY TypeStep, LocksStep
<1> QED
  BY <1>1, <1>2, TypeInit, PTL DEF Spec

(* What a request looks like when it comes in or is answered: it has selected *)
(* nothing yet, and its phase is as named.                                   *)
LEMMA NoReqFields ==
  ASSUME NEW p
  PROVE  /\ NoReq(p).phase = p /\ NoReq(p).snap = {} /\ NoReq(p).todo = {}
         /\ \A op, t : [NoReq(p) EXCEPT !.op = op, !.old = t].phase = p
         /\ \A op, t : [NoReq(p) EXCEPT !.op = op, !.old = t].snap = {}
         /\ \A op : [NoReq(p) EXCEPT !.op = op].phase = p
         /\ \A op : [NoReq(p) EXCEPT !.op = op].snap = {}
         /\ \A op, A : [NoReq(p) EXCEPT !.op = op, !.snap = A, !.todo = A].phase = p
         /\ \A op, A : [NoReq(p) EXCEPT !.op = op, !.snap = A, !.todo = A].snap = A
         /\ \A op, A : [NoReq(p) EXCEPT !.op = op, !.snap = A, !.todo = A].todo = A
BY DEF NoReq

(* The inductive invariant holds of the empty table.                         *)
LEMMA SessionInit == Init => SessionInv
BY NoReqFields DEF Init, SessionInv, Open

(* A request that comes in: q has selected nothing, or just what is live.    *)
LEMMA BeginKeeps ==
  ASSUME TypeOK, SessionInv, NEW r \in Request, NEW q \in Req, Begin(r, q),
         UNCHANGED <<tok, expired, lock, active, userLock, swept>>,
         q.phase = "issue" => active,
         q.snap = {}
  PROVE  SessionInv'
BY DEF Begin, SessionInv, TypeOK, Live, Mine, Open

(* A request that is answered without having changed a row.                  *)
LEMMA RefuseKeeps ==
  ASSUME TypeOK, SessionInv, NEW r \in Request, Refuse(r)
  PROVE  SessionInv'
BY NoReqFields DEF Refuse, DropLocks, SessionInv, TypeOK, Live, Mine, Open

(* Every step keeps it.                                                      *)
LEMMA SessionStep == TypeOK /\ SessionInv /\ [Next]_vars => SessionInv'
<1> SUFFICES ASSUME TypeOK, SessionInv, [Next]_vars PROVE SessionInv'
  OBVIOUS
<1>1. CASE UNCHANGED vars
  BY <1>1 DEF vars, SessionInv, Live, Mine, Open
<1>2. ASSUME NEW r \in Request, Login(r) PROVE SessionInv'
  <2>1. NoReq("issue") \in Req /\ NoReq("refused") \in Req
    BY ReqType DEF Phase
  <2> QED
    BY <1>2, <2>1, BeginKeeps, NoReqFields DEF Login
<1>3. ASSUME NEW r \in Request, Logout(r) PROVE SessionInv'
  <2> DEFINE q == [NoReq("refused") EXCEPT !.op = "logout"]
  <2>1. q \in Req
    BY ReqType DEF Phase, Op
  <2>2. q.phase = "refused" /\ q.snap = {}
    BY NoReqFields
  <2> QED
    BY <1>3, <2>1, <2>2, BeginKeeps DEF Logout
<1>4. ASSUME NEW r \in Request, NEW op \in Op, AskStatus(r, op) PROVE SessionInv'
  <2> DEFINE q == [NoReq("user") EXCEPT !.op = op]
  <2>1. q \in Req
    BY ReqType DEF Phase
  <2>2. q.phase = "user" /\ q.snap = {}
    BY NoReqFields
  <2> QED
    BY <1>4, <2>1, <2>2, BeginKeeps DEF AskStatus
<1>5. ASSUME NEW r \in Request, NEW t \in Token, RefreshTokens(r, t) PROVE SessionInv'
  <2>1. NoReq("refused") \in Req
    BY ReqType DEF Phase
  <2> DEFINE q == [NoReq("rotate") EXCEPT !.op = "refresh", !.old = t]
  <2>2. q \in Req
    BY ReqType DEF Phase, Op
  <2>3. /\ q.phase = "rotate" /\ q.snap = {}
        /\ NoReq("refused").phase = "refused" /\ NoReq("refused").snap = {}
    BY NoReqFields
  <2> QED
    BY <1>5, <2>1, <2>2, <2>3, BeginKeeps DEF RefreshTokens
<1>6. ASSUME NEW r \in Request, Rotate(r) PROVE SessionInv'
  <2>1. /\ \A q \in Request : q # r => req'[q] = req[q]
        /\ req[r].phase = "rotate" /\ req'[r].phase = "check"
        /\ req'[r].snap = req[r].snap
    BY <1>6 DEF Rotate, Step, TypeOK, Req
  <2>2. \A t \in Token, q \in Request : lock[t] = q => lock'[t] = q
    BY <1>6, NamesAssumption DEF Rotate, TypeOK
  <2>3. UNCHANGED <<tok, active, saw, swept>>
    BY <1>6 DEF Rotate
  <2> QED
    BY <2>1, <2>2, <2>3 DEF SessionInv, Live, Mine, Open
<1>7. ASSUME NEW r \in Request, CheckUser(r) PROVE SessionInv'
  <2>1. CASE active
    BY <1>7, <2>1 DEF CheckUser, Step, SessionInv, TypeOK, Live, Mine, Open, Req
  <2> QED
    BY <1>7, <2>1, RefuseKeeps DEF CheckUser
<1>8. ASSUME NEW r \in Request, NEW n \in Token, IssueAndCommit(r, n) PROVE SessionInv'
  <2>1. /\ tok[n].st = "none" /\ tok'[n].st = "live"
        /\ \A t \in Token : t # n =>
              IF lock[t] = r THEN tok'[t].st = "revoked" ELSE tok'[t] = tok[t]
    BY <1>8 DEF IssueAndCommit, RowsAfterIssue, TypeOK, TokenRow
  <2>2. /\ \A q \in Request : q # r => req'[q] = req[q]
        /\ req'[r].phase = "granted" /\ req'[r].snap = {}
    BY <1>8, NoReqFields DEF IssueAndCommit, TypeOK
  <2>3. \A t \in Token, q \in Request : q # r /\ lock[t] = q => lock'[t] = q
    BY <1>8 DEF IssueAndCommit, DropLocks
  <2>4. UNCHANGED <<active, saw, swept>>
    BY <1>8 DEF IssueAndCommit
  <2>5. (swept \cap Live = {})' /\ (\A t \in swept : tok[t].st # "none")'
    BY <2>1, <2>4 DEF SessionInv, Live, TypeOK
  <2>6. ASSUME NEW q \in Request
        PROVE  /\ \A t \in req'[q].snap : tok'[t].st # "none"
               /\ req'[q].phase = "sweep" =>
                    req'[q].snap \cap Live' \subseteq req'[q].todo \cup Mine(q)'
               /\ req'[q].phase = "issue" => q \in saw'
               /\ (Open(q)' /\ active') => q \in saw'
    BY <2>1, <2>2, <2>3, <2>4, <2>6 DEF SessionInv, Live, Mine, Open, TypeOK, Req
  <2> QED
    BY <2>5, <2>6 DEF SessionInv
<1>9. ASSUME NEW r \in Request, UpdateStatus(r) PROVE SessionInv'
  <2> DEFINE rows == IF req[r].op = "onboard" THEN {} ELSE Stored
  <2>1. /\ \A q \in Request : q # r => req'[q] = req[q]
        /\ req[r].phase = "user" /\ req'[r].phase = "sweep"
        /\ req'[r].snap = rows \cap Live /\ req'[r].todo = rows
    BY <1>9 DEF UpdateStatus, TypeOK, Req
  <2>2. \A t \in rows : tok[t].st # "none"
    BY DEF Stored
  <2>3. UNCHANGED <<tok, lock, active, saw, swept>>
    BY <1>9 DEF UpdateStatus
  <2> HIDE DEF rows
  <2> QED
    BY <2>1, <2>2, <2>3 DEF SessionInv, Live, Mine, Open
<1>10. ASSUME NEW r \in Request, NEW t \in Token, Sweep(r, t) PROVE SessionInv'
  BY <1>10, NamesAssumption DEF Sweep, SessionInv, TypeOK, Live, Mine, Open, Req, Stored
<1>11. ASSUME NEW r \in Request, SweepCommit(r) PROVE SessionInv'
  <2>1. \A t \in Token : IF lock[t] = r THEN tok'[t].st = "revoked" ELSE tok'[t] = tok[t]
    BY <1>11 DEF SweepCommit, TypeOK, TokenRow
  <2>2. /\ \A q \in Request : q # r => req'[q] = req[q]
        /\ req'[r].phase = "granted" /\ req'[r].snap = {}
    BY <1>11, NoReqFields DEF SweepCommit, TypeOK
  <2>3. \A t \in Token, q \in Request : q # r /\ lock[t] = q => lock'[t] = q
    BY <1>11 DEF SweepCommit, DropLocks
  <2>4. swept' = swept \cup req[r].snap /\ req[r].snap \cap Live \subseteq Mine(r)
    BY <1>11 DEF SweepCommit, SessionInv
  <2>5. saw \subseteq saw' /\ (active' => saw' = Request)
    BY <1>11 DEF SweepCommit, TypeOK
  <2>6. (swept \cap Live = {})' /\ (\A t \in swept : tok[t].st # "none")'
    BY <2>1, <2>4 DEF SessionInv, Live, Mine, TypeOK, Req
  <2>7. ASSUME NEW q \in Request
        PROVE  /\ \A t \in req'[q].snap : tok'[t].st # "none"
               /\ req'[q].phase = "sweep" =>
                    req'[q].snap \cap Live' \subseteq req'[q].todo \cup Mine(q)'
               /\ req'[q].phase = "issue" => q \in saw'
               /\ (Open(q)' /\ active') => q \in saw'
    BY <2>1, <2>2, <2>3, <2>5, <2>7 DEF SessionInv, Live, Mine, Open, TypeOK, Req
  <2> QED
    BY <2>6, <2>7 DEF SessionInv
<1>12. ASSUME NEW r \in Request, Fail(r) PROVE SessionInv'
  BY <1>12, RefuseKeeps DEF Fail
<1>13. ASSUME NEW t \in Token, RevokeSession(t) PROVE SessionInv'
  BY <1>13 DEF RevokeSession, SessionInv, TypeOK, TokenRow, Live, Mine, Open, Stored
<1>14. ASSUME NEW t \in Token, Expire(t) PROVE SessionInv'
  BY <1>14 DEF Expire, SessionInv, Live, Mine, Open
<1> QED
  BY <1>1, <1>2, <1>3, <1>4, <1>5, <1>6, <1>7, <1>8, <1>9, <1>10, <1>11, <1>12,
     <1>13, <1>14 DEF Next

(* The inductive invariant of the sweeps and of what requests have seen.     *)
THEOREM SessionInvariant == Spec => []SessionInv
BY TypeInit, TypeStep, SessionInit, SessionStep, PTL DEF Spec

(* What a (de)activation set out to revoke stays revoked, however many       *)
(* refreshes of the same tokens run at the same time.                        *)
THEOREM SweptTokensStayDead == Spec => []SweptStayDead
<1>1. SessionInv => SweptStayDead
  BY DEF SessionInv, SweptStayDead
<1> QED
  BY <1>1, SessionInvariant, PTL

(* Nobody gets a token for an account inactive throughout the request.       *)
THEOREM GrantsNeedActiveAccount == Spec => GrantedWhileActive
<1>1. SessionInv /\ [Next]_vars =>
        [\A r \in Request :
           (req[r].phase = "issue" /\ req'[r].phase = "granted") => r \in saw]_vars
  BY DEF SessionInv
<1> QED
  BY <1>1, SessionInvariant, PTL DEF Spec, GrantedWhileActive

(* A token that is not usable any more never becomes usable again.           *)
THEOREM DeadTokensStayDead == Spec => DeadStaysDead
<1> DEFINE Dead(t) == tok[t].st \in {"revoked", "gone"} \/ t \in expired
<1>1. ASSUME TypeOK, [Next]_vars, NEW t \in Token, Dead(t) PROVE Dead(t)'
  <2>1. expired \subseteq expired'
    BY <1>1 DEF Next, vars, Login, Logout, AskStatus, RefreshTokens, Rotate, CheckUser,
       Refuse, IssueAndCommit, UpdateStatus, Sweep, SweepCommit, Fail, RevokeSession, Expire
  <2>2. ASSUME NEW r \in Request, NEW n \in Token, IssueAndCommit(r, n)
        PROVE  tok'[t] = tok[t] \/ tok'[t].st = "revoked" \/ tok[t].st = "none"
    BY <2>2 DEF IssueAndCommit, RowsAfterIssue, TypeOK, TokenRow
  <2>3. ASSUME NEW r \in Request, SweepCommit(r)
        PROVE  tok'[t] = tok[t] \/ tok'[t].st = "revoked"
    BY <2>3 DEF SweepCommit, TypeOK, TokenRow
  <2>4. ASSUME NEW u \in Token, RevokeSession(u)
        PROVE  tok'[t] = tok[t] \/ tok'[t].st = "gone"
    BY <2>4 DEF RevokeSession, TypeOK, TokenRow
  <2>5. \/ tok' = tok
        \/ \E r \in Request : SweepCommit(r) \/ \E n \in Token : IssueAndCommit(r, n)
        \/ \E u \in Token : RevokeSession(u)
    BY <1>1 DEF Next, vars, Login, Logout, AskStatus, RefreshTokens, Rotate, CheckUser,
       Refuse, UpdateStatus, Sweep, Fail, Expire
  <2>6. tok[t].st \in {"revoked", "gone"} => tok'[t].st \in {"revoked", "gone"}
    BY <2>2, <2>3, <2>4, <2>5
  <2> QED
    BY <1>1, <2>1, <2>6
<1>2. TypeOK /\ [Next]_vars =>
        [\A t \in Token : Dead(t) => (tok'[t].st \in {"revoked", "gone"} \/ t \in expired')]_vars
  BY <1>1
<1> QED
  BY <1>2, AuthTypeCorrect, PTL DEF Spec, DeadStaysDead

-----------------------------------------------------------------------------
(* What holds of the sessions when requests do not overlap *)

(* A refresh that has read its token as live, and a token nobody can use.    *)
Refreshing(r) == req[r].op = "refresh" /\ req[r].phase \in {"rotate", "check", "issue"}
Spent(t) == tok[t].st \in {"revoked", "gone"}

(* A token that was exchanged for another is revoked or deleted by then.      *)
ExchangedIsSpent == \A t \in Token : tok[t].parent # NoToken => Spent(tok[t].parent)

(* A refresh past its UPDATE holds the row of its token, or there is none.    *)
HoldsOld(r) ==
  /\ req[r].phase \in {"rotate", "check"} => Refreshing(r)
  /\ Refreshing(r) => req[r].old \in Token /\ tok[req[r].old].st # "none"
  /\ req[r].phase = "issue" => Refreshing(r) \/ req[r].old = NoToken
  /\ Refreshing(r) /\ req[r].phase # "rotate" =>
       lock[req[r].old] = r \/ tok[req[r].old].st = "gone"

ExchangeInv == TypeOK /\ LocksSound /\ ExchangedIsSpent /\ (\A r \in Request : HoldsOld(r))

(* What a step makes of a row: nothing, a spent one, or the new one of a      *)
(* request that has held its old one.                                        *)
LEMMA RowsOfStep ==
  ASSUME ExchangeInv, [Next]_vars, NEW t \in Token
  PROVE  \/ tok'[t] = tok[t]
         \/ t \in Stored /\ Spent(t)' /\ tok'[t].parent = tok[t].parent
         \/ \E r \in Request : /\ IssueAndCommit(r, t)
                               /\ tok'[t].st = "live" /\ tok'[t].parent = req[r].old
<1> USE DEF ExchangeInv
<1>1. ASSUME NEW r \in Request, NEW n \in Token, IssueAndCommit(r, n), t # n
      PROVE  \/ tok'[t] = tok[t]
             \/ t \in Stored /\ Spent(t)' /\ tok'[t].parent = tok[t].parent
  BY <1>1, NamesAssumption
     DEF IssueAndCommit, RowsAfterIssue, TypeOK, TokenRow, LocksSound, Stored, Spent
<1>2. ASSUME NEW r \in Request, IssueAndCommit(r, t)
      PROVE  tok'[t].st = "live" /\ tok'[t].parent = req[r].old
  BY <1>2 DEF IssueAndCommit, RowsAfterIssue
<1>3. ASSUME NEW r \in Request, SweepCommit(r)
      PROVE  \/ tok'[t] = tok[t]
             \/ t \in Stored /\ Spent(t)' /\ tok'[t].parent = tok[t].parent
  BY <1>3, NamesAssumption DEF SweepCommit, TypeOK, TokenRow, LocksSound, Stored, Spent
<1>4. ASSUME NEW u \in Token, RevokeSession(u)
      PROVE  \/ tok'[t] = tok[t]
             \/ t \in Stored /\ Spent(t)' /\ tok'[t].parent = tok[t].parent
  BY <1>4 DEF RevokeSession, TypeOK, TokenRow, Stored, Spent
<1>5. \/ tok' = tok
      \/ \E r \in Request : SweepCommit(r) \/ \E n \in Token : IssueAndCommit(r, n)
      \/ \E u \in Token : RevokeSession(u)
  BY DEF Next, vars, Login, Logout, AskStatus, RefreshTokens, Rotate, CheckUser,
     Refuse, UpdateStatus, Sweep, Fail, Expire
<1> QED
  BY <1>1, <1>2, <1>3, <1>4, <1>5

(* Rows are never forgotten, and what is spent stays so.                      *)
LEMMA SpentStays ==
  ASSUME ExchangeInv, [Next]_vars, NEW t \in Token
  PROVE  /\ tok[t].st # "none" => tok'[t].st # "none" /\ tok'[t].parent = tok[t].parent
         /\ Spent(t) => Spent(t)'
         /\ tok[t].st = "gone" => tok'[t].st = "gone"
BY RowsOfStep DEF Spent, IssueAndCommit, Stored

(* A token is exchanged by a request that has spent it.                       *)
LEMMA ExchangeStep == ASSUME ExchangeInv, [Next]_vars PROVE ExchangedIsSpent'
<1> USE DEF ExchangeInv
<1> SUFFICES ASSUME NEW t \in Token, tok'[t].parent # NoToken
             PROVE  tok'[tok'[t].parent].st \in {"revoked", "gone"}
  BY DEF ExchangedIsSpent, Spent
<1>1. ASSUME tok'[t].parent = tok[t].parent
      PROVE  tok'[tok'[t].parent].st \in {"revoked", "gone"}
  <2>1. tok[t].parent \in Token /\ Spent(tok[t].parent)
    BY <1>1 DEF ExchangedIsSpent, TypeOK, TokenRow
  <2> QED
    BY <1>1, <2>1, SpentStays DEF Spent
<1>2. ASSUME NEW r \in Request, IssueAndCommit(r, t), tok'[t].parent = req[r].old
      PROVE  tok'[tok'[t].parent].st \in {"revoked", "gone"}
  <2> DEFINE p == req[r].old
  <2>1. /\ p \in Token /\ tok[p].st # "none" /\ p # t
        /\ lock[p] = r \/ tok[p].st = "gone"
    BY <1>2 DEF IssueAndCommit, HoldsOld, Refreshing
  <2>2. tok' = RowsAfterIssue(r, t)
    BY <1>2 DEF IssueAndCommit
  <2>3. CASE lock[p] = r
    BY <1>2, <2>1, <2>2, <2>3 DEF RowsAfterIssue, TypeOK, TokenRow, Spent
  <2>4. CASE tok[p].st = "gone"
    BY <1>2, <2>1, <2>4, SpentStays DEF Spent
  <2> QED
    BY <2>1, <2>3, <2>4
<1> QED
  BY <1>1, <1>2, RowsOfStep

(* A request that has not moved keeps the row of its token, and one that has   *)
(* moved is looked at by itself.                                              *)
LEMMA OthersHold ==
  ASSUME ExchangeInv, [Next]_vars, NEW r \in Request, HoldsOld(r)',
         \A s \in Request \ {r} :
           req'[s] = req[s] /\ \A t \in Token : lock[t] = s => lock'[t] = s
  PROVE  \A s \in Request : HoldsOld(s)'
<1> USE DEF ExchangeInv
<1> SUFFICES ASSUME NEW s \in Request \ {r} PROVE HoldsOld(s)'
  OBVIOUS
<1>1. HoldsOld(s) /\ (Refreshing(s)' <=> Refreshing(s)) /\ req'[s] = req[s]
  BY DEF Refreshing
<1>2. ASSUME Refreshing(s)
      PROVE  /\ tok'[req[s].old].st # "none"
             /\ lock[req[s].old] = s => lock'[req[s].old] = s
             /\ tok[req[s].old].st = "gone" => tok'[req[s].old].st = "gone"
  BY <1>1, <1>2, SpentStays DEF HoldsOld
<1> QED
  BY <1>1, <1>2 DEF HoldsOld

(* One that has been answered, or is new and no refresh, holds no old token.    *)
LEMMA NoOldToken ==
  ASSUME NEW r, req'[r].phase \notin {"rotate", "check"},
         req'[r].phase = "issue" => req'[r].op # "refresh" /\ req'[r].old = NoToken
  PROVE  HoldsOld(r)'
BY DEF HoldsOld, Refreshing

(* The end of a transaction gives up no lock of another.                       *)
LEMMA DropsOwn ==
  ASSUME NEW r, DropLocks(r)
  PROVE  \A s \in Request \ {r} : \A t \in Token : lock[t] = s => lock'[t] = s
BY DEF DropLocks

(* Every request holds what it has to hold after every step.                   *)
LEMMA HoldsStep == ASSUME ExchangeInv, [Next]_vars PROVE \A r \in Request : HoldsOld(r)'
<1> USE DEF ExchangeInv
<1>1. CASE UNCHANGED vars
  BY <1>1 DEF vars, HoldsOld, Refreshing
<1>2. ASSUME NEW r \in Request, NEW q, Begin(r, q), UNCHANGED lock, q.phase # "rotate",
             q.phase # "check", q.phase = "issue" => q.op # "refresh" /\ q.old = NoToken
      PROVE  \A s \in Request : HoldsOld(s)'
  <2>1. req'[r] = q /\ \A s \in Request \ {r} : req'[s] = req[s]
    BY <1>2 DEF Begin, TypeOK
  <2> QED
    BY <1>2, <2>1, NoOldToken, OthersHold
<1>3. ASSUME NEW r \in Request, Login(r) \/ Logout(r) \/ \E op \in Op : AskStatus(r, op)
      PROVE  \A s \in Request : HoldsOld(s)'
  BY <1>2, <1>3 DEF Login, Logout, AskStatus, NoReq
<1>4. ASSUME NEW r \in Request, NEW t \in Token, RefreshTokens(r, t)
      PROVE  \A s \in Request : HoldsOld(s)'
  <2>1. CASE tok[t].st = "live" /\ t \notin expired
    <3>1. /\ req'[r].phase = "rotate" /\ req'[r].op = "refresh" /\ req'[r].old = t
          /\ \A s \in Request \ {r} : req'[s] = req[s]
          /\ UNCHANGED <<tok, lock>>
      BY <1>4, <2>1 DEF RefreshTokens, Begin, NoReq, TypeOK
    <3>2. HoldsOld(r)'
      BY <2>1, <3>1 DEF HoldsOld, Refreshing
    <3> QED
      BY <3>1, <3>2, OthersHold
  <2>2. CASE ~(tok[t].st = "live" /\ t \notin expired)
    BY <1>2, <1>4, <2>2 DEF RefreshTokens, NoReq
  <2> QED
    BY <2>1, <2>2
<1>5. ASSUME NEW r \in Request, DropLocks(r),
             \/ req' = [req EXCEPT ![r] = NoReq("refused")]
             \/ req' = [req EXCEPT ![r] = NoReq("granted")]
      PROVE  \A s \in Request : HoldsOld(s)'
  <2>1. /\ req'[r].phase \in {"refused", "granted"}
        /\ \A s \in Request \ {r} : req'[s] = req[s]
    BY <1>5 DEF NoReq, TypeOK
  <2> QED
    BY <1>5, <2>1, NoOldToken, OthersHold, DropsOwn
<1>6. ASSUME NEW r \in Request, Rotate(r) PROVE \A s \in Request : HoldsOld(s)'
  <2> DEFINE t == req[r].old
  <2>1. /\ req'[r].phase = "check" /\ req'[r].old = t /\ req'[r].op = req[r].op
        /\ req[r].phase = "rotate"
        /\ \A s \in Request \ {r} : req'[s] = req[s]
    BY <1>6 DEF Rotate, Step, TypeOK, Req
  <2>2. /\ Refreshing(r) /\ t \in Token /\ tok[t].st # "none" /\ tok' = tok
        /\ lock' = IF t \in Stored THEN [lock EXCEPT ![t] = r] ELSE lock
        /\ lock[t] = Free
    BY <1>6, <2>1 DEF Rotate, HoldsOld
  <2>3. lock'[t] = r \/ tok'[t].st = "gone"
    BY <2>2 DEF Stored, TypeOK, TokenRow
  <2>4. HoldsOld(r)'
    BY <2>1, <2>2, <2>3 DEF HoldsOld, Refreshing
  <2>5. \A s \in Request \ {r} : \A x \in Token : lock[x] = s => lock'[x] = s
    BY <2>2, NamesAssumption DEF TypeOK
  <2> QED
    BY <2>1, <2>4, <2>5, OthersHold
<1>7. ASSUME NEW r \in Request, CheckUser(r) PROVE \A s \in Request : HoldsOld(s)'
  <2>1. CASE active
    <3>1. /\ req'[r].phase = "issue" /\ req'[r].old = req[r].old /\ req'[r].op = req[r].op
          /\ req[r].phase = "check" /\ UNCHANGED <<tok, lock>>
          /\ \A s \in Request \ {r} : req'[s] = req[s]
      BY <1>7, <2>1 DEF CheckUser, Step, TypeOK, Req
    <3>2. HoldsOld(r)'
      BY <3>1 DEF HoldsOld, Refreshing
    <3> QED
      BY <3>1, <3>2, OthersHold
  <2> QED
    BY <1>5, <1>7, <2>1 DEF CheckUser, Refuse
<1>8. ASSUME NEW r \in Request, UpdateStatus(r) PROVE \A s \in Request : HoldsOld(s)'
  <2>1. req'[r].phase = "sweep" /\ \A s \in Request \ {r} : req'[s] = req[s]
    BY <1>8 DEF UpdateStatus, TypeOK, Req
  <2> QED
    BY <1>8, <2>1, NoOldToken, OthersHold DEF UpdateStatus
<1>9. ASSUME NEW r \in Request, NEW t \in Token, Sweep(r, t)
      PROVE  \A s \in Request : HoldsOld(s)'
  <2>1. req'[r].phase = "sweep" /\ \A s \in Request \ {r} : req'[s] = req[s]
    BY <1>9 DEF Sweep, TypeOK, Req
  <2>2. \A s \in Request \ {r} : \A x \in Token : lock[x] = s => lock'[x] = s
    BY <1>9, NamesAssumption DEF Sweep, TypeOK
  <2> QED
    BY <2>1, <2>2, NoOldToken, OthersHold
<1>10. ASSUME NEW r \in Request,
              SweepCommit(r) \/ Fail(r) \/ \E n \in Token : IssueAndCommit(r, n)
       PROVE  \A s \in Request : HoldsOld(s)'
  BY <1>5, <1>10 DEF SweepCommit, Fail, Refuse, IssueAndCommit
<1>11. ASSUME NEW t \in Token, RevokeSession(t) \/ Expire(t)
       PROVE  \A s \in Request : HoldsOld(s)'
  <2>1. UNCHANGED <<req, lock>>
    BY <1>11 DEF RevokeSession, Expire
  <2> SUFFICES ASSUME NEW s \in Request PROVE HoldsOld(s)'
    OBVIOUS
  <2>2. HoldsOld(s) /\ (Refreshing(s)' <=> Refreshing(s))
    BY <2>1 DEF Refreshing
  <2>3. Refreshing(s) => /\ tok'[req[s].old].st # "none"
                         /\ tok[req[s].old].st = "gone" => tok'[req[s].old].st = "gone"
    BY <2>2, SpentStays DEF HoldsOld
  <2> QED
    BY <2>1, <2>2, <2>3 DEF HoldsOld
<1> QED
  BY <1>1, <1>3, <1>4, <1>6, <1>7, <1>8, <1>9, <1>10, <1>11 DEF Next

(* The inductive invariant of the exchanges.                                   *)
LEMMA ExchangeInvariant == Spec => []ExchangeInv
<1>1. Init => ExchangeInv
  BY TypeInit DEF Init, ExchangeInv, LocksSound, ExchangedIsSpent, HoldsOld, Refreshing, NoReq
<1>2. ExchangeInv /\ [Next]_vars => ExchangeInv'
  BY TypeStep, LocksStep, ExchangeStep, HoldsStep DEF ExchangeInv
<1> QED
  BY <1>1, <1>2, PTL DEF Spec

(* A refresh token that was exchanged is revoked or deleted from then on, also *)
(* when refreshes of it overlap (service.go:305-331).                          *)
THEOREM ExchangedTokensAreSpent == Spec => []ExchangedIsSpent
<1>1. ExchangeInv => ExchangedIsSpent
  BY DEF ExchangeInv
<1> QED
  BY <1>1, ExchangeInvariant, PTL

(* No two refreshes of one token under way at the same time.                   *)
RefreshesApart ==
  \A r, s \in Request :
    Refreshing(r) /\ Refreshing(s) /\ req[r].old = req[s].old => r = s

(* Then nobody has exchanged the token of a refresh under way.                 *)
NotYetExchanged ==
  \A r \in Request : Refreshing(r) => \A t \in Token : tok[t].parent # req[r].old

(* A refresh under way was under way before, or has just read its token as     *)
(* live.                                                                      *)
LEMMA NewRefresh ==
  ASSUME ExchangeInv, [Next]_vars, NEW r \in Request, Refreshing(r)'
  PROVE  \/ Refreshing(r) /\ req'[r].old = req[r].old
         \/ \E x \in Token : RefreshTokens(r, x) /\ req'[r].old = x /\ tok[x].st = "live"
<1> USE DEF ExchangeInv
<1>1. CASE req'[r] = req[r]
  BY <1>1 DEF Refreshing
<1>2. ASSUME NEW s \in Request, NEW t \in Token, RefreshTokens(s, t), req'[r] # req[r]
      PROVE  RefreshTokens(r, t) /\ req'[r].old = t /\ tok[t].st = "live"
  <2>1. s = r
    BY <1>2 DEF RefreshTokens, Begin, TypeOK
  <2>2. CASE tok[t].st = "live" /\ t \notin expired
    BY <1>2, <2>1, <2>2 DEF RefreshTokens, Begin, TypeOK, NoReq
  <2>3. CASE ~(tok[t].st = "live" /\ t \notin expired)
    <3>1. req'[r] = NoReq("refused")
      BY <1>2, <2>1, <2>3 DEF RefreshTokens, Begin, TypeOK
    <3> QED
      BY <3>1 DEF NoReq, Refreshing
  <2> QED
    BY <2>2, <2>3
<1>3. ASSUME NEW s \in Request, Login(s) \/ Logout(s) \/ \E op \in Op : AskStatus(s, op),
             req'[r] # req[r]
      PROVE  FALSE
  BY <1>3 DEF Login, Logout, AskStatus, Begin, TypeOK, NoReq, Refreshing
<1>4. ASSUME NEW s \in Request, Rotate(s) \/ CheckUser(s), req'[r] # req[r]
      PROVE  Refreshing(r) /\ req'[r].old = req[r].old
  BY <1>4 DEF Rotate, CheckUser, Refuse, Step, TypeOK, Req, NoReq, Refreshing, HoldsOld
<1>5. ASSUME NEW s \in Request, UpdateStatus(s) \/ (\E t \in Token : Sweep(s, t)),
             req'[r] # req[r]
      PROVE  FALSE
  BY <1>5 DEF UpdateStatus, Sweep, TypeOK, Req, Refreshing
<1>6. ASSUME NEW s \in Request, req'[r] # req[r],
             SweepCommit(s) \/ Fail(s) \/ \E n \in Token : IssueAndCommit(s, n)
      PROVE  FALSE
  BY <1>6 DEF SweepCommit, Fail, Refuse, IssueAndCommit, TypeOK, NoReq, Refreshing
<1>7. ASSUME NEW t \in Token, RevokeSession(t) \/ Expire(t) PROVE req'[r] = req[r]
  BY <1>7 DEF RevokeSession, Expire
<1> QED
  BY <1>1, <1>2, <1>3, <1>4, <1>5, <1>6, <1>7 DEF Next, vars

(* While refreshes of a token do not overlap, none has exchanged it yet.        *)
LEMMA RotationStep ==
  ASSUME ExchangeInv, [Next]_vars, RefreshesApart, RotatedOnce, NotYetExchanged
  PROVE  RotatedOnce' /\ NotYetExchanged'
<1> USE DEF ExchangeInv
<1>1. RotatedOnce'
  <2> SUFFICES ASSUME NEW t \in Token, NEW u \in Token, tok'[t].parent # NoToken,
                      tok'[t].parent = tok'[u].parent
               PROVE  t = u
    BY DEF RotatedOnce
  <2>1. ASSUME NEW r \in Request, IssueAndCommit(r, t), tok'[t].parent = req[r].old
        PROVE  t = u
    BY <2>1 DEF IssueAndCommit, RowsAfterIssue, TypeOK, TokenRow, HoldsOld, NotYetExchanged
  <2>2. ASSUME NEW r \in Request, IssueAndCommit(r, u), tok'[u].parent = req[r].old
        PROVE  t = u
    BY <2>2 DEF IssueAndCommit, RowsAfterIssue, TypeOK, TokenRow, HoldsOld, NotYetExchanged
  <2>3. CASE tok'[t].parent = tok[t].parent /\ tok'[u].parent = tok[u].parent
    BY <2>3 DEF RotatedOnce
  <2> QED
    BY <2>1, <2>2, <2>3, RowsOfStep
<1>2. NotYetExchanged'
  <2> SUFFICES ASSUME NEW r \in Request, Refreshing(r)', NEW t \in Token,
                      tok'[t].parent = req'[r].old
               PROVE  FALSE
    BY DEF NotYetExchanged
  <2>1. CASE Refreshing(r) /\ req'[r].old = req[r].old
    <3>1. req[r].old # tok[t].parent
      BY <2>1 DEF NotYetExchanged
    <3>2. PICK s \in Request : IssueAndCommit(s, t) /\ tok'[t].parent = req[s].old
      BY <2>1, <3>1, RowsOfStep
    <3>3. req[s].phase = "issue" /\ req'[s].phase = "granted" /\ req[r].old \in Token
      BY <2>1, <3>2 DEF IssueAndCommit, NoReq, TypeOK, HoldsOld
    <3>4. Refreshing(s) /\ req[s].old = req[r].old
      BY <2>1, <3>2, <3>3, NamesAssumption DEF HoldsOld
    <3> QED
      BY <2>1, <3>3, <3>4 DEF RefreshesApart, Refreshing
  <2>2. CASE \E x \in Token : RefreshTokens(r, x) /\ req'[r].old = x /\ tok[x].st = "live"
    BY <2>2, NamesAssumption DEF RefreshTokens, ExchangedIsSpent, Spent
  <2> QED
    BY <2>1, <2>2, NewRefresh
<1> QED
  BY <1>1, <1>2

(* A refresh token is exchanged for at most one new one as long as no two       *)
(* refreshes of it overlap (service.go:321): the overlap that Token rotation    *)
(* leaves open is the only way.                                               *)
THEOREM RotatedOnceWhenApart == Spec /\ []RefreshesApart => []RotatedOnce
<1>1. Init => RotatedOnce /\ NotYetExchanged
  BY DEF Init, RotatedOnce, NotYetExchanged, Refreshing, NoReq
<1> QED
  BY <1>1, RotationStep, ExchangeInvariant, PTL DEF Spec

(* No refresh of a token that a deactivation under way has set out to revoke.    *)
Deactivating(r) == req[r].op = "deactivate" /\ req[r].phase = "sweep"
SweepsApart ==
  \A r, s \in Request : Deactivating(r) /\ Refreshing(s) => req[s].old \notin req[r].snap

(* Then no session is alive that began with one of those tokens.                *)
NoneBegan ==
  \A r \in Request : Deactivating(r) =>
    \A t \in Token : tok[t].st = "live" => tok[t].parent \notin req[r].snap

(* Nor does a step begin one.                                                  *)
LEMMA NoneBegins ==
  ASSUME ExchangeInv, [Next]_vars, SweepsApart, NoneBegan, NEW r \in Request, Deactivating(r),
         NEW t \in Token, tok'[t].st = "live"
  PROVE  tok'[t].parent \notin req[r].snap
<1> USE DEF ExchangeInv
<1>1. ASSUME NEW s \in Request, IssueAndCommit(s, t), tok'[t].parent = req[s].old
      PROVE  tok'[t].parent \notin req[r].snap
  <2>1. Refreshing(s) \/ req[s].old = NoToken
    BY <1>1 DEF IssueAndCommit, HoldsOld
  <2>2. req[r].snap \subseteq Token
    BY DEF TypeOK, Req
  <2> QED
    BY <1>1, <2>1, <2>2, NamesAssumption DEF SweepsApart
<1> QED
  BY <1>1, RowsOfStep DEF NoneBegan, Spent

(* A deactivation at its sweep was there before, or has just selected its rows.  *)
LEMMA NewSweep ==
  ASSUME ExchangeInv, [Next]_vars, NEW r \in Request, Deactivating(r)'
  PROVE  (Deactivating(r) /\ req'[r].snap = req[r].snap) \/ UpdateStatus(r)
<1> USE DEF ExchangeInv
<1>1. CASE req'[r] = req[r]
  BY <1>1 DEF Deactivating
<1>2. ASSUME NEW s \in Request, UpdateStatus(s), req'[r] # req[r] PROVE UpdateStatus(r)
  BY <1>2 DEF UpdateStatus, TypeOK
<1>3. ASSUME NEW s \in Request, NEW t \in Token, Sweep(s, t)
      PROVE  Deactivating(r) /\ req'[r].snap = req[r].snap
  BY <1>3 DEF Sweep, TypeOK, Req, Deactivating
<1>4. ASSUME NEW s \in Request, req'[r] # req[r],
             \/ Login(s) \/ Logout(s) \/ \E op \in Op : AskStatus(s, op)
             \/ \E t \in Token : RefreshTokens(s, t)
      PROVE  FALSE
  <2>1. s = r
    BY <1>4 DEF Login, Logout, AskStatus, RefreshTokens, Begin, TypeOK
  <2>2. ASSUME Login(s) \/ Logout(s) PROVE req'[r].phase # "sweep"
    BY <2>1, <2>2 DEF Login, Logout, Begin, TypeOK, NoReq
  <2>3. ASSUME NEW op \in Op, AskStatus(s, op) PROVE req'[r].phase # "sweep"
    BY <2>1, <2>3 DEF AskStatus, Begin, TypeOK, NoReq
  <2>4. ASSUME NEW t \in Token, RefreshTokens(s, t) PROVE req'[r].phase # "sweep"
    <3>1. CASE tok[t].st = "live" /\ t \notin expired
      BY <2>1, <2>4, <3>1 DEF RefreshTokens, Begin, TypeOK, NoReq
    <3>2. CASE ~(tok[t].st = "live" /\ t \notin expired)
      BY <2>1, <2>4, <3>2 DEF RefreshTokens, Begin, TypeOK, NoReq
    <3> QED
      BY <3>1, <3>2
  <2> QED
    BY <1>4, <2>2, <2>3, <2>4 DEF Deactivating
<1>5. ASSUME NEW s \in Request, Rotate(s) \/ CheckUser(s), req'[r] # req[r] PROVE FALSE
  BY <1>5 DEF Rotate, CheckUser, Refuse, Step, TypeOK, Req, NoReq, Deactivating
<1>6. ASSUME NEW s \in Request, req'[r] # req[r],
             SweepCommit(s) \/ Fail(s) \/ \E n \in Token : IssueAndCommit(s, n)
      PROVE  FALSE
  BY <1>6 DEF SweepCommit, Fail, Refuse, IssueAndCommit, TypeOK, NoReq, Deactivating
<1>7. ASSUME NEW t \in Token, RevokeSession(t) \/ Expire(t) PROVE req'[r] = req[r]
  BY <1>7 DEF RevokeSession, Expire
<1> QED
  BY <1>1, <1>2, <1>3, <1>4, <1>5, <1>6, <1>7 DEF Next, vars

(* While no refresh overlaps a deactivation, none begins a session under it.     *)
LEMMA SweepStep ==
  ASSUME ExchangeInv, [Next]_vars, SweepsApart, NoneBegan
  PROVE  NoneBegan'
<1> USE DEF ExchangeInv
<1> SUFFICES ASSUME NEW r \in Request, Deactivating(r)', NEW t \in Token, tok'[t].st = "live"
             PROVE  tok'[t].parent \notin req'[r].snap
  BY DEF NoneBegan
<1>1. CASE Deactivating(r) /\ req'[r].snap = req[r].snap
  BY <1>1, NoneBegins
<1>2. CASE UpdateStatus(r)
  <2>1. req'[r].snap \subseteq Live /\ tok' = tok
    BY <1>2 DEF UpdateStatus, TypeOK, Req
  <2> QED
    BY <2>1, NamesAssumption DEF ExchangedIsSpent, Spent, Live, TypeOK, TokenRow
<1> QED
  BY <1>1, <1>2, NewSweep

(* When a deactivation commits no session is alive that began with a token it    *)
(* set out to revoke (employee/repository.go:294), as long as no refresh of one  *)
(* of those overlaps it.                                                       *)
THEOREM DeactivationKillsWhenApart == Spec /\ []SweepsApart => DeactivationKillsSessions
<1>1. Init => NoneBegan
  BY DEF Init, NoneBegan, Deactivating, NoReq
<1>2. ExchangeInv /\ SweepsApart /\ NoneBegan /\ [Next]_vars =>
        [\A r \in Request :
           (req[r].op = "deactivate" /\ req'[r].phase = "granted" /\ req[r].phase = "sweep")
             => \A t \in Token : tok'[t].st = "live" => tok'[t].parent \notin req[r].snap]_vars
  BY NoneBegins DEF Deactivating
<1> QED
  BY <1>1, <1>2, SweepStep, ExchangeInvariant, PTL DEF Spec, DeactivationKillsSessions

=============================================================================
