---------------------------- MODULE IamGovernance ----------------------------
(***************************************************************************)
(* Approvals and category scopes (internal/iam): one approval request that *)
(* several staff members decide on, the rights to do so, and one user's    *)
(* scopes that several of them replace, each in its request transaction.   *)
(*                                                                         *)
(* An UPDATE locks the row it changes until the transaction ends; one that *)
(* waited checks its WHERE clause again on the committed row.              *)
(***************************************************************************)
EXTENDS Naturals, FiniteSets

CONSTANTS Decider,   \* requests of staff members, each made once
          Category,  \* categories that a user may be confined to
          Nobody     \* no request

ASSUME GovernanceAssumption == Nobody \notin Decider

VARIABLES approval,   \* the row of approval_workflows
          rowLock,    \* which request has written that row and not ended
          rights,     \* whether the assignment that lists approvals is active
          listed,     \* whether GET /approval-requests/pending last showed the row
          scopeRows,  \* the committed rows of user_category_scopes
          decider     \* what each request is doing

governanceVars == <<approval, rowLock, rights, listed, scopeRows, decider>>

\* asked: the categories to assign; seen: the rows that its DELETE finds, but for
\* those deleted by others since; put: the rows it has inserted; others: history:
\* what other assignments that committed since its beginning asked for.
Idle == [phase |-> "idle", op |-> "approve", asked |-> {}, seen |-> {}, put |-> {}, others |-> {}]

GovernanceInit ==
    /\ approval = [status |-> "none", by |-> Nobody]
    /\ rowLock = Nobody /\ rights = TRUE /\ listed = FALSE
    /\ scopeRows \in SUBSET Category
    /\ decider = [d \in Decider |-> Idle]

Set(d, phase) == decider' = [decider EXCEPT ![d].phase = phase]

CreateApprovalRequest ==
    /\ approval.status = "none"
    /\ approval' = [approval EXCEPT !.status = "pending"]
    /\ UNCHANGED <<rowLock, rights, listed, scopeRows, decider>>

\* The rights decide what is listed, not who may decide.
GetPendingApprovals ==
    /\ listed' = (approval.status = "pending" /\ rights)
    /\ UNCHANGED <<approval, rowLock, rights, scopeRows, decider>>

RevokeApprovalRights ==
    /\ rights /\ rights' = FALSE
    /\ UNCHANGED <<approval, rowLock, listed, scopeRows, decider>>

\* Both upserts name a unique constraint that their table does not have: the
\* statement fails, and with it the request, but for an empty list.
UniqueConstraints == {"user_category_scopes"}
AssignApprovalRights ==
    /\ rights' = (rights \/ "approval_assignments" \in UniqueConstraints)
    /\ UNCHANGED <<approval, rowLock, listed, scopeRows, decider>>

(***************************************************************************)
(* Deciding                                                                *)
(***************************************************************************)
Decision == {"approve", "reject"}

\* MUTANT of Undecided: the UPDATE goes by the id alone.
AnyRow == approval.status # "none"

\* The UPDATE's WHERE clause.
Undecided == approval.status = "pending"

\* It waits while another request has the row.  A row already decided is not
\* matched, which is no error.
Decide(d, op) ==
    /\ decider[d].phase = "idle" /\ approval.status # "none"
    /\ rowLock = Nobody
    /\ rowLock' = IF Undecided THEN d ELSE Nobody
    /\ decider' = [decider EXCEPT ![d].op = op,
                                  ![d].phase = IF Undecided THEN "written" ELSE "unmatched"]
    /\ UNCHANGED <<approval, rights, listed, scopeRows>>
ApproveRequest(d) == Decide(d, "approve")
RejectRequest(d)  == Decide(d, "reject")

CommitDecision(d) ==
    /\ decider[d].phase = "written" /\ decider[d].op \in Decision
    /\ approval' = [status |-> IF decider[d].op = "approve" THEN "approved" ELSE "rejected", by |-> d]
    /\ rowLock' = Nobody
    /\ Set(d, "applied")
    /\ UNCHANGED <<rights, listed, scopeRows>>

\* The row was not matched, and the answer is the same.
AnswerUnmatched(d) ==
    /\ decider[d].phase = "unmatched"
    /\ Set(d, "answered")
    /\ UNCHANGED <<approval, rowLock, rights, listed, scopeRows>>

(***************************************************************************)
(* Scopes                                                                  *)
(***************************************************************************)

Assigning(d) == decider[d].phase \in {"deleting", "deleted", "inserted"}

\* Rows another assignment has deleted or inserted and not committed.
HeldByOthers(d) ==
    UNION {decider[e].seen \cup decider[e].put :
           e \in {x \in Decider \ {d} : decider[x].phase \in {"deleted", "inserted"}}}

\* The DELETE sees the rows committed when it begins.
BeginDelete(d) ==
    /\ decider[d].phase = "idle"
    /\ \E asked \in SUBSET Category :
         decider' = [decider EXCEPT ![d] = [phase |-> "deleting", op |-> "scopes", asked |-> asked,
                                            seen |-> scopeRows, put |-> {}, others |-> {}]]
    /\ UNCHANGED <<approval, rowLock, rights, listed, scopeRows>>

\* It waits for those who are deleting any of them.
DeleteScopes(d) ==
    /\ decider[d].phase = "deleting"
    /\ decider[d].seen \cap HeldByOthers(d) = {}
    /\ Set(d, "deleted")
    /\ UNCHANGED <<approval, rowLock, rights, listed, scopeRows>>

\* ON CONFLICT DO NOTHING: a row that somebody committed after the DELETE began
\* is left as it is; one that is not committed is waited for.
InsertScopes(d) ==
    /\ decider[d].phase = "deleted"
    /\ decider[d].asked \cap HeldByOthers(d) = {}
    /\ decider' = [decider EXCEPT ![d].phase = "inserted",
                                  ![d].put = decider[d].asked \ (scopeRows \ decider[d].seen)]
    /\ UNCHANGED <<approval, rowLock, rights, listed, scopeRows>>

\* The rows that another DELETE also saw are gone for it; the new ones it does
\* not see.
CommitScopes(d) ==
    /\ decider[d].phase = "inserted"
    /\ scopeRows' = (scopeRows \ decider[d].seen) \cup decider[d].put
    /\ decider' = [e \in Decider |->
         IF e = d THEN [decider[d] EXCEPT !.phase = "applied"]
         ELSE [decider[e] EXCEPT !.seen = @ \ decider[d].seen,
                                 !.others = @ \cup decider[d].asked]]
    /\ UNCHANGED <<approval, rowLock, rights, listed>>

\* The statement or the commit fails, or the server does.
RollbackGovernance(d) ==
    /\ decider[d].phase = "written" \/ Assigning(d)
    /\ rowLock' = IF rowLock = d THEN Nobody ELSE rowLock
    /\ Set(d, "failed")
    /\ UNCHANGED <<approval, rights, listed, scopeRows>>

DeciderStep(d) ==
    \/ ApproveRequest(d) \/ RejectRequest(d) \/ CommitDecision(d) \/ AnswerUnmatched(d)
    \/ BeginDelete(d) \/ DeleteScopes(d) \/ InsertScopes(d) \/ CommitScopes(d)
    \/ RollbackGovernance(d)

GovernanceNext ==
    \/ CreateApprovalRequest \/ GetPendingApprovals
    \/ AssignApprovalRights \/ RevokeApprovalRights
    \/ \E d \in Decider : DeciderStep(d)
GovernanceSpec == GovernanceInit /\ [][GovernanceNext]_governanceVars

(***************************************************************************)
(* Properties                                                              *)
(***************************************************************************)

\* A decision that was applied is the one the row still shows, so one request at
\* most decides; and once an assignment of scopes is over, no scope is left that
\* neither it asked for nor another that committed after it had begun.
DecisionStands ==
    \A d \in Decider :
        decider[d].phase = "applied" /\ decider[d].op \in Decision =>
            /\ approval.by = d
            /\ approval.status = IF decider[d].op = "approve" THEN "approved" ELSE "rejected"

ScopesAskedFor ==
    \A d \in Decider : decider[d].phase = "applied" /\ decider[d].op = "scopes" =>
        scopeRows \subseteq decider[d].asked \cup decider[d].others

\* Both parts hold of the approvals and scopes together.
GovernanceSound == DecisionStands /\ ScopesAskedFor
=============================================================================
