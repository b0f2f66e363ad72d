---------------------------- MODULE EmployeeDesk ----------------------------
(***************************************************************************)
(* Onboarding of employees (internal/employee): several at a time, while   *)
(* readers register, employees are removed, and a server that starts       *)
(* enrols whoever is on the staff and no employee.                         *)
(*                                                                         *)
(* Ids come from sequences that each onboarding sets back to the largest   *)
(* committed id, outside of its transaction; employee codes from the       *)
(* largest committed code.  Unique columns settle what then collides: an   *)
(* INSERT that meets a row of a transaction under way waits for its end.   *)
(***************************************************************************)
EXTENDS Naturals, FiniteSets

CONSTANTS Person,   \* people, each with an e-mail address
          Clerk,    \* requests, each to onboard one person
          MaxID,    \* bound: ids and codes
          MaxEvents \* bound: registrations, removals, edits, restarts, failures

ASSUME DeskAssumption ==
    /\ IsFiniteSet(Person) /\ Person # {}
    /\ MaxID \in Nat \ {0} /\ MaxEvents \in Nat

VARIABLES userID,     \* userID[p]: the id of p's row of users, 0 when there is none
          staffID,    \* staffID[p]: the id of p's row of employees, 0 when there is none
          staffCode,  \* staffCode[p]: the number in its employee_code
          described,  \* employees whose profile was edited
          userSeq, staffSeq, \* the next value of each sequence
          clerk,      \* what each request is doing
          dismissed,  \* history: people removed since they were last onboarded
          events

deskVars == <<userID, staffID, staffCode, described, userSeq, staffSeq, clerk, dismissed, events>>
rows == <<userID, staffID, staffCode, described>>

NoClerk == [phase |-> "idle", of |-> CHOOSE p \in Person : TRUE, user |-> 0, id |-> 0, code |-> 0,
            holds |-> {}]
Event == events < MaxEvents /\ events' = events + 1
Largest(ids) == {m \in ids : \A n \in ids : n <= m}
OrOne(ids) == IF ids = {} THEN {1} ELSE Largest(ids)
UserIDs == {userID[p] : p \in Person} \ {0}
StaffIDs == {staffID[p] : p \in Person} \ {0}
Codes == {staffCode[p] : p \in Person} \ {0}

DeskInit ==
    /\ \E hired \in SUBSET Person :
         /\ Cardinality(hired) <= 1
         /\ userID = [p \in Person |-> IF p \in hired THEN 1 ELSE 0]
         /\ staffID = userID /\ staffCode = userID
         /\ userSeq = 1 + Cardinality(hired) /\ staffSeq = userSeq
    /\ described = {} /\ dismissed = {} /\ events = 0
    /\ clerk = [c \in Clerk |-> NoClerk]

At(c, phase) == clerk[c].phase = phase
Go(c, phase) == clerk' = [clerk EXCEPT ![c].phase = phase]
Holds(c, what) == \E d \in Clerk \ {c} : what \in clerk[d].holds
\* What an INSERT under way keeps others from: the row's unique values.
EmailOf(p) == <<"email", p>>
UserRow(id) == <<"user", id>>
StaffOf(p) == <<"employee of", p>>
StaffRow(id) == <<"employee", id>>
CodeRow(n) == <<"code", n>>

(***************************************************************************)
(* Onboarding                                                              *)
(***************************************************************************)

\* By user id, or by an address that has an account: the row is updated.
OnboardExisting(c) ==
    /\ At(c, "idle")
    /\ \E p \in Person :
         /\ userID[p] # 0 /\ ~Holds(c, EmailOf(p))
         /\ clerk' = [clerk EXCEPT ![c] = [NoClerk EXCEPT !.phase = "coding", !.of = p,
                                             !.user = userID[p], !.holds = {EmailOf(p)}]]
    /\ UNCHANGED <<rows, userSeq, staffSeq, dismissed, events>>

\* By an address that has none: the sequence is set back.
SyncUserSeq(c) ==
    /\ At(c, "idle")
    /\ \E p \in Person :
         /\ userID[p] = 0
         /\ clerk' = [clerk EXCEPT ![c] = [NoClerk EXCEPT !.phase = "new user", !.of = p]]
    /\ userSeq' \in {n + 1 : n \in OrOne(UserIDs)}
    /\ UNCHANGED <<rows, staffSeq, dismissed, events>>

NextUserID(c) ==
    /\ At(c, "new user") /\ userSeq <= MaxID
    /\ clerk' = [clerk EXCEPT ![c].phase = "insert user", ![c].user = userSeq]
    /\ userSeq' = userSeq + 1
    /\ UNCHANGED <<rows, staffSeq, dismissed, events>>

\* An address or id that another has committed meanwhile ends the request.
InsertUser(c) ==
    /\ At(c, "insert user")
    /\ LET p == clerk[c].of IN
         /\ ~Holds(c, EmailOf(p)) /\ ~Holds(c, UserRow(clerk[c].user))
         /\ IF userID[p] # 0 \/ clerk[c].user \in UserIDs
            THEN clerk' = [clerk EXCEPT ![c] = [@ EXCEPT !.phase = "failed", !.holds = {}]]
            ELSE clerk' = [clerk EXCEPT ![c].phase = "coding",
                                        ![c].holds = {EmailOf(p), UserRow(clerk[c].user)}]
    /\ UNCHANGED <<rows, userSeq, staffSeq, dismissed, events>>

\* The code that was sent, or the largest plus one; one when it cannot be read.
NextEmployeeCode(c) ==
    /\ At(c, "coding")
    /\ \E code \in {1} \cup {n + 1 : n \in Largest(Codes)} :
         /\ code <= MaxID
         /\ clerk' = [clerk EXCEPT ![c].phase = "coded", ![c].code = code]
    /\ UNCHANGED <<rows, userSeq, staffSeq, dismissed, events>>

SyncEmployeeSeq(c) ==
    /\ At(c, "coded")
    /\ Go(c, "new employee")
    /\ staffSeq' \in {n + 1 : n \in OrOne(StaffIDs)}
    /\ UNCHANGED <<rows, userSeq, dismissed, events>>

NextStaffID(c) ==
    /\ At(c, "new employee") /\ staffSeq <= MaxID
    /\ clerk' = [clerk EXCEPT ![c].phase = "insert employee", ![c].id = staffSeq]
    /\ staffSeq' = staffSeq + 1
    /\ UNCHANGED <<rows, userSeq, dismissed, events>>

\* MUTANT of Collides: nothing is unique but the person.
CollidesNever(c) == FALSE

\* A row of another person with the code or, unless the person is an employee
\* and only the row is changed, with the id.
Collides(c) ==
    LET p == clerk[c].of IN
    \E q \in Person \ {p} :
        \/ staffCode[q] = clerk[c].code
        \/ staffID[p] = 0 /\ staffID[q] = clerk[c].id

InsertEmployee(c) ==
    /\ At(c, "insert employee")
    /\ ~Holds(c, StaffOf(clerk[c].of)) /\ ~Holds(c, StaffRow(clerk[c].id))
    /\ ~Holds(c, CodeRow(clerk[c].code))
    /\ IF Collides(c)
       THEN clerk' = [clerk EXCEPT ![c] = [@ EXCEPT !.phase = "failed", !.holds = {}]]
       ELSE clerk' = [clerk EXCEPT ![c] = [@ EXCEPT !.phase = "employed",
              !.id = IF staffID[clerk[c].of] = 0 THEN clerk[c].id ELSE staffID[clerk[c].of],
              !.holds = clerk[c].holds \cup {StaffOf(clerk[c].of), StaffRow(clerk[c].id),
                                             CodeRow(clerk[c].code)}]]
    /\ UNCHANGED <<rows, userSeq, staffSeq, dismissed, events>>

\* The role and the staff flag: an error there is passed over, and makes the
\* commit roll back, so that the request is answered with an error.
AssignOnboardedRole(c) ==
    /\ At(c, "employed")
    /\ \/ Go(c, "roles set") /\ UNCHANGED events
       \/ Go(c, "aborted") /\ Event
    /\ UNCHANGED <<rows, userSeq, staffSeq, dismissed>>

CommitOnboarding(c) ==
    /\ At(c, "roles set")
    /\ LET p == clerk[c].of IN
         /\ userID' = [userID EXCEPT ![p] = clerk[c].user]
         /\ staffID' = [staffID EXCEPT ![p] = clerk[c].id]
         /\ staffCode' = [staffCode EXCEPT ![p] = clerk[c].code]
         /\ dismissed' = dismissed \ {p} /\ described' = described \ {p}
    /\ clerk' = [clerk EXCEPT ![c].phase = "created", ![c].holds = {}]
    /\ UNCHANGED <<userSeq, staffSeq, events>>

\* A statement, the commit or the server fails.
FailOnboarding(c) ==
    /\ clerk[c].phase \notin {"idle", "created", "failed"}
    /\ At(c, "aborted") \/ events < MaxEvents
    /\ events' = IF At(c, "aborted") THEN events ELSE events + 1
    /\ clerk' = [clerk EXCEPT ![c] = [@ EXCEPT !.phase = "failed", !.holds = {}]]
    /\ UNCHANGED <<rows, userSeq, staffSeq, dismissed>>

(***************************************************************************)
(* Beside it                                                               *)
(***************************************************************************)

\* Registration takes the next id as it comes; one that is taken is refused.
RegisterReader ==
    /\ Event /\ userSeq <= MaxID
    /\ \E p \in Person :
         /\ userID[p] = 0 /\ \A c \in Clerk : EmailOf(p) \notin clerk[c].holds
         /\ \A c \in Clerk : UserRow(userSeq) \notin clerk[c].holds
         /\ userID' = IF userSeq \in UserIDs THEN userID ELSE [userID EXCEPT ![p] = userSeq]
    /\ userSeq' = userSeq + 1
    /\ UNCHANGED <<staffID, staffCode, described, staffSeq, clerk, dismissed>>

\* The account stays as it is, active and on the staff.
DeleteEmployee ==
    /\ Event
    /\ \E p \in Person :
         /\ staffID[p] # 0 /\ \A c \in Clerk : StaffOf(p) \notin clerk[c].holds
         /\ staffID' = [staffID EXCEPT ![p] = 0] /\ staffCode' = [staffCode EXCEPT ![p] = 0]
         /\ described' = described \ {p} /\ dismissed' = dismissed \cup {p}
    /\ UNCHANGED <<userID, userSeq, staffSeq, clerk>>

\* By the employee's id, whoever has it by now.
UpdateEmployee ==
    /\ Event
    /\ \E p \in Person :
         /\ staffID[p] # 0 /\ \A c \in Clerk : clerk[c].holds \cap {StaffOf(p), EmailOf(p)} = {}
         /\ described' = described \cup {p}
    /\ UNCHANGED <<userID, staffID, staffCode, userSeq, staffSeq, clerk, dismissed>>

\* What a start makes of the people who are on the staff and no employees, the
\* dismissed ones too: one statement for all of them, the user's id as the code.
\* It fails as a whole when a code or an id of its is taken.
Unenrolled == {p \in Person : userID[p] # 0 /\ staffID[p] = 0}
Rank(p) == Cardinality({q \in Unenrolled : userID[q] < userID[p]})
Enrols == /\ Codes \cap {userID[p] : p \in Unenrolled} = {}
          /\ StaffIDs \cap {staffSeq + Rank(p) : p \in Unenrolled} = {}

Restart ==
    /\ Event
    /\ staffSeq + Cardinality(Unenrolled) <= MaxID + 1
    /\ clerk' = [c \in Clerk |-> IF clerk[c].phase \in {"idle", "created", "failed"} THEN clerk[c]
                                 ELSE [clerk[c] EXCEPT !.phase = "failed", !.holds = {}]]
    /\ staffSeq' = staffSeq + (IF Enrols THEN Cardinality(Unenrolled) ELSE 1)
    /\ IF Enrols
       THEN /\ staffID' = [p \in Person |-> IF p \in Unenrolled THEN staffSeq + Rank(p) ELSE staffID[p]]
            /\ staffCode' = [p \in Person |-> IF p \in Unenrolled THEN userID[p] ELSE staffCode[p]]
            /\ dismissed' = dismissed \ Unenrolled
       ELSE UNCHANGED <<staffID, staffCode, dismissed>>
    /\ UNCHANGED <<userID, described, userSeq>>

ClerkStep(c) ==
    \/ OnboardExisting(c) \/ SyncUserSeq(c) \/ NextUserID(c) \/ InsertUser(c)
    \/ NextEmployeeCode(c) \/ SyncEmployeeSeq(c) \/ NextStaffID(c) \/ InsertEmployee(c)
    \/ AssignOnboardedRole(c) \/ CommitOnboarding(c) \/ FailOnboarding(c)
DeskNext ==
    \/ \E c \in Clerk : ClerkStep(c)
    \/ RegisterReader \/ DeleteEmployee \/ UpdateEmployee \/ Restart
DeskSpec == DeskInit /\ [][DeskNext]_deskVars

(***************************************************************************)
(* Properties                                                              *)
(***************************************************************************)

\* However the sequences are set back: everyone answered as onboarded is an
\* employee under the account of the address, until removed; and no two people
\* ever share an account, an employee's row or a code.
OnboardedStay ==
    /\ \A c \in Clerk : At(c, "created") =>
         /\ userID[clerk[c].of] = clerk[c].user
         /\ staffID[clerk[c].of] # 0 \/ clerk[c].of \in dismissed
    /\ \A p, q \in Person : p # q =>
         /\ userID[p] # 0 => userID[p] # userID[q]
         /\ staffID[p] # 0 => staffID[p] # staffID[q] /\ staffCode[p] # staffCode[q]
    /\ \A p \in Person : staffID[p] # 0 => userID[p] # 0
=============================================================================
