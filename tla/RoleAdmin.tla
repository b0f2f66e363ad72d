------------------------------- MODULE RoleAdmin -------------------------------
(***************************************************************************)
(* Roles, the grants of each role and the roles of each user, under the    *)
(* requests of administrators that replace the grants of a role, replace   *)
(* the role of a user, delete a role, and create or clone one.  Each runs  *)
(* several statements in the transaction of its request, READ COMMITTED:   *)
(* a statement finds the rows committed when it begins, waits for a row    *)
(* that another transaction has written, and skips it if it was deleted    *)
(* meanwhile; rows inserted meanwhile it misses.                           *)
(***************************************************************************)
EXTENDS FiniteSets

CONSTANTS
  Role,        \* role ids, stored or still to be drawn from the sequence
  First,       \* the roles stored at the start
  System,      \* those of them with is_system
  Perm,        \* menu actions that can be granted
  User,
  Nobody,      \* fills the third place of a role's own row; no user, no source
  Request      \* requests under way at one time

ASSUME RolesAssumption ==
  /\ First # {} /\ First \subseteq Role /\ System \subseteq First
  /\ Nobody \notin Role \cup User

(* <<table, role, permission or user>>                                      *)
RoleRow(r)     == <<"role", r, Nobody>>
GrantRow(r, p) == <<"grant", r, p>>
UserRow(r, u)  == <<"user", r, u>>

RoleRows  == {RoleRow(r) : r \in Role}
GrantRows == {GrantRow(r, p) : r \in Role, p \in Perm}
UserRows  == {UserRow(r, u) : r \in Role, u \in User}
Row       == RoleRows \cup GrantRows \cup UserRows

(* The rows that ON DELETE CASCADE removes with role r.                      *)
Children(r) == {row \in GrantRows \cup UserRows : row[2] = r}
GrantsOf(r) == {row \in GrantRows : row[2] = r}
RolesOf(u)  == {row \in UserRows : row[3] = u}

VARIABLES
  db,          \* db[row]: absent, or the committed row: on, or (user_roles) off
  drawn,       \* role ids drawn from the sequence so far
  phase,       \* phase[q]: where request q is
  op,          \* op[q]: what it asks for
  todo,        \* todo[q]: rows its current UPDATE or DELETE has still to write
  want,        \* want[q]: rows it has still to insert
  w,           \* w[q]: the rows it has written, which it locks; none elsewhere
  gone,        \* gone[q]: the stored rows it has deleted
  share,       \* share[q]: it holds the key-share lock of its role's row
  seen         \* seen[q]: history: the grants stored when q began to replace
               \* them, less those that another request has deleted since

vars == <<db, drawn, phase, op, todo, want, w, gone, share, seen>>

Value == {"absent", "off", "on"}
Kind  == {"perms", "user", "delete", "create"}
(* arg: the user, or the role to clone.                                      *)
Op    == [kind : Kind, role : Role, arg : Role \cup User \cup {Nobody}]

NoOp == [kind |-> "perms", role |-> CHOOSE r \in Role : TRUE, arg |-> Nobody]
Unwritten == [row \in Row |-> "none"]

StoredRows == {row \in Row : db[row] # "absent"}
Open(q)    == phase[q] # "idle"

(* Another transaction has written the row and has not ended.                *)
Locked(q, row) == \E p \in Request \ {q} : w[p][row] # "none"

(* What a statement of q finds in the row.                                   *)
View(q, row) == IF w[q][row] = "none" THEN db[row] ELSE w[q][row]

TypeOK ==
  /\ db \in [Row -> Value]
  /\ drawn \in SUBSET Role
  /\ phase \in [Request -> {"idle", "run", "fk", "drop", "copy"}]
  /\ op \in [Request -> Op]
  /\ todo \in [Request -> SUBSET Row]
  /\ want \in [Request -> SUBSET Row]
  /\ w \in [Request -> [Row -> Value \cup {"none"}]]
  /\ gone \in [Request -> SUBSET Row]
  /\ share \in [Request -> BOOLEAN]
  /\ seen \in [Request -> SUBSET Row]

(* Each user has at most one role, an active one.                            *)
Init ==
  /\ \E held \in [User -> First \cup {Nobody}], granted \in SUBSET (First \X Perm) :
       db = [row \in Row |->
               IF \/ row \in RoleRows /\ row[2] \in First
                  \/ row \in GrantRows /\ <<row[2], row[3]>> \in granted
                  \/ row \in UserRows /\ held[row[3]] = row[2]
               THEN "on" ELSE "absent"]
  /\ drawn = First
  /\ phase = [q \in Request |-> "idle"]
  /\ op = [q \in Request |-> NoOp]
  /\ todo = [q \in Request |-> {}]
  /\ want = [q \in Request |-> {}]
  /\ w = [q \in Request |-> Unwritten]
  /\ gone = [q \in Request |-> {}]
  /\ share = [q \in Request |-> FALSE]
  /\ seen = [q \in Request |-> {}]

(***************************************************************************)
(* The first statements of each request.                                   *)
(***************************************************************************)
Begin(q, kind, r, arg, ph, rows, ins, found) ==
  /\ phase[q] = "idle"
  /\ phase' = [phase EXCEPT ![q] = ph]
  /\ op' = [op EXCEPT ![q] = [kind |-> kind, role |-> r, arg |-> arg]]
  /\ todo' = [todo EXCEPT ![q] = rows]
  /\ want' = [want EXCEPT ![q] = ins]
  /\ seen' = [seen EXCEPT ![q] = found]

(* Mutant: the DELETE is left out, and grants are only added.                *)
BeginPermsOnlyAdds(q, r, list) ==
  /\ Begin(q, "perms", r, Nobody, "run", {}, {GrantRow(r, p) : p \in list},
           GrantsOf(r) \cap StoredRows)
  /\ UNCHANGED <<db, drawn, w, gone, share>>

(* AssignRolePermissions: the DELETE finds the grants of role r.             *)
BeginPerms(q, r, list) ==
  /\ Begin(q, "perms", r, Nobody, "run", GrantsOf(r) \cap StoredRows,
           {GrantRow(r, p) : p \in list}, GrantsOf(r) \cap StoredRows)
  /\ UNCHANGED <<db, drawn, w, gone, share>>

(* ReplaceUserRole, or AssignRole of an employee: the UPDATE finds the       *)
(* user's rows, active or not.                                               *)
BeginUser(q, r, u) ==
  /\ Begin(q, "user", r, u, "run", RolesOf(u) \cap StoredRows, {UserRow(r, u)}, {})
  /\ UNCHANGED <<db, drawn, w, gone, share>>

(* DeleteRole: a role that is not stored, a system role, and one with rows   *)
(* in user_roles are refused, which changes nothing.                         *)
Deletable(r) ==
  /\ db[RoleRow(r)] = "on"
  /\ r \notin System
  /\ \A u \in User : db[UserRow(r, u)] = "absent"

BeginDelete(q, r) ==
  /\ Deletable(r)
  /\ Begin(q, "delete", r, Nobody, "drop", {}, {}, {})
  /\ UNCHANGED <<db, drawn, w, gone, share>>

(* CreateRole, and CloneRole when src is a role: draws an id and inserts.    *)
BeginCreate(q, r, src) ==
  /\ r \notin drawn
  /\ src # Nobody => db[RoleRow(src)] = "on"
  /\ Begin(q, "create", r, src, IF src = Nobody THEN "run" ELSE "copy", {}, {}, {})
  /\ drawn' = drawn \cup {r}
  /\ w' = [w EXCEPT ![q][RoleRow(r)] = "on"]
  /\ UNCHANGED <<db, gone, share>>

(***************************************************************************)
(* The steps in between.                                                   *)
(***************************************************************************)
(* Mutant: the UPDATE sets is_active to NULL.                                *)
TouchSetsNull(q, row) ==
  /\ row \in todo[q]
  /\ ~Locked(q, row)
  /\ w' = [w EXCEPT ![q][row] = IF op[q].kind = "user" THEN "null" ELSE "absent"]
  /\ todo' = [todo EXCEPT ![q] = @ \ {row}]
  /\ gone' = [gone EXCEPT ![q] = IF op[q].kind = "user" THEN @ ELSE @ \cup {row}]
  /\ UNCHANGED <<db, drawn, phase, op, want, share, seen>>

(* The UPDATE, the DELETE or the cascade comes to one of the rows it found.  *)
Touch(q, row) ==
  /\ row \in todo[q]
  /\ ~Locked(q, row)
  /\ w' = [w EXCEPT ![q][row] = IF op[q].kind = "user" THEN "off" ELSE "absent"]
  /\ todo' = [todo EXCEPT ![q] = @ \ {row}]
  /\ gone' = [gone EXCEPT ![q] = IF op[q].kind = "user" THEN @ ELSE @ \cup {row}]
  /\ UNCHANGED <<db, drawn, phase, op, want, share, seen>>

(* Mutant: the upsert of a user's role does not set is_active again.         *)
InsertKeepsInactive(q, row) ==
  /\ phase[q] = "run" /\ todo[q] = {}
  /\ row \in want[q]
  /\ ~Locked(q, row)
  /\ want' = [want EXCEPT ![q] = @ \ {row}]
  /\ w' = IF View(q, row) = "absent" THEN [w EXCEPT ![q][row] = "on"] ELSE w
  /\ phase' = [phase EXCEPT ![q] = IF View(q, row) = "absent" THEN "fk" ELSE @]
  /\ UNCHANGED <<db, drawn, op, todo, gone, share, seen>>

(* INSERT: ON CONFLICT DO NOTHING for a grant, DO UPDATE for a user's role,  *)
(* neither of which checks the foreign key.                                  *)
Insert(q, row) ==
  /\ phase[q] = "run" /\ todo[q] = {}
  /\ row \in want[q]
  /\ ~Locked(q, row)
  /\ want' = [want EXCEPT ![q] = @ \ {row}]
  /\ w' = IF View(q, row) = "absent" \/ op[q].kind = "user"
          THEN [w EXCEPT ![q][row] = "on"] ELSE w
  /\ phase' = [phase EXCEPT ![q] = IF View(q, row) = "absent" THEN "fk" ELSE @]
  /\ UNCHANGED <<db, drawn, op, todo, gone, share, seen>>

(* Mutant: without the foreign key, a SELECT looks for the role, and locks    *)
(* nothing.                                                                  *)
CheckRoleUnlocked(q) ==
  /\ phase[q] = "fk"
  /\ db[RoleRow(op[q].role)] = "on"
  /\ phase' = [phase EXCEPT ![q] = "run"]
  /\ UNCHANGED <<db, drawn, op, todo, want, w, gone, share, seen>>

(* The foreign key of a row inserted: share-locks the row of its role.       *)
CheckRole(q) ==
  /\ phase[q] = "fk"
  /\ db[RoleRow(op[q].role)] = "on"
  /\ ~Locked(q, RoleRow(op[q].role))
  /\ share' = [share EXCEPT ![q] = TRUE]
  /\ phase' = [phase EXCEPT ![q] = "run"]
  /\ UNCHANGED <<db, drawn, op, todo, want, w, gone, seen>>

(* DELETE FROM roles; the cascade then finds the rows of the role.           *)
SharedByOther(q, r) == \E p \in Request \ {q} : share[p] /\ op[p].role = r

Drop(q) ==
  /\ phase[q] = "drop"
  /\ ~Locked(q, RoleRow(op[q].role)) /\ ~SharedByOther(q, op[q].role)
  /\ phase' = [phase EXCEPT ![q] = "run"]
  /\ IF db[RoleRow(op[q].role)] = "on"
     THEN /\ w' = [w EXCEPT ![q][RoleRow(op[q].role)] = "absent"]
          /\ gone' = [gone EXCEPT ![q] = {RoleRow(op[q].role)}]
          /\ todo' = [todo EXCEPT ![q] = Children(op[q].role) \cap StoredRows]
     ELSE UNCHANGED <<w, gone, todo>>
  /\ UNCHANGED <<db, drawn, op, want, share, seen>>

(* CloneRole: INSERT ... SELECT of the source's grants.                      *)
Copies(q) == {row \in GrantsOf(op[q].role) : db[GrantRow(op[q].arg, row[3])] = "on"}

Copy(q) ==
  /\ phase[q] = "copy"
  /\ \A row \in Copies(q) : ~Locked(q, row)
  /\ w' = [w EXCEPT ![q] = [row \in Row |-> IF row \in Copies(q) THEN "on" ELSE w[q][row]]]
  /\ phase' = [phase EXCEPT ![q] = "run"]
  /\ UNCHANGED <<db, drawn, op, todo, want, gone, share, seen>>

(***************************************************************************)
(* The end of the transaction.                                             *)
(***************************************************************************)
End(q) ==
  /\ phase' = [phase EXCEPT ![q] = "idle"]
  /\ op' = [op EXCEPT ![q] = NoOp]
  /\ want' = [want EXCEPT ![q] = {}]
  /\ w' = [w EXCEPT ![q] = Unwritten]
  /\ gone' = [gone EXCEPT ![q] = {}]
  /\ share' = [share EXCEPT ![q] = FALSE]
  /\ UNCHANGED drawn

(* The others' statements skip the rows that are deleted now, also where     *)
(* the same key has been inserted again.                                     *)
Commit(q) ==
  /\ phase[q] = "run" /\ todo[q] = {} /\ want[q] = {}
  /\ db' = [row \in Row |-> View(q, row)]
  /\ todo' = [p \in Request |-> todo[p] \ gone[q]]
  /\ seen' = [p \in Request |-> IF p = q THEN {} ELSE seen[p] \ gone[q]]
  /\ End(q)

Rollback(q) ==
  /\ End(q)
  /\ todo' = [todo EXCEPT ![q] = {}]
  /\ seen' = [seen EXCEPT ![q] = {}]
  /\ UNCHANGED db

(* Mutant: the request tries again until the role is there.                  *)
RoleMissingRetried(q) ==
  /\ phase[q] = "fk"
  /\ db[RoleRow(op[q].role)] = "absent"
  /\ UNCHANGED vars

(* The role of an inserted row is not stored: foreign key violation.         *)
RoleMissing(q) ==
  /\ phase[q] = "fk"
  /\ db[RoleRow(op[q].role)] = "absent"
  /\ Rollback(q)

(* q waits for p, which has to end before the statement of q can go on.      *)
WaitsFor(q, p) ==
  /\ p # q
  /\ \/ \E row \in todo[q] : w[p][row] # "none"
     \/ /\ phase[q] = "run" /\ todo[q] = {}
        /\ \E row \in want[q] : w[p][row] # "none"
     \/ phase[q] = "copy" /\ \E row \in Copies(q) : w[p][row] # "none"
     \/ /\ phase[q] \in {"fk", "drop"}
        /\ w[p][RoleRow(op[q].role)] # "none"
     \/ /\ phase[q] = "drop" /\ share[p] /\ op[p].role = op[q].role

(* PostgreSQL ends a cycle of waiting transactions by failing one of them.   *)
DeadlockVictim(q) ==
  /\ \E S \in SUBSET Request :
       /\ q \in S
       /\ \A p \in S : \E s \in S : WaitsFor(p, s)
  /\ Rollback(q)

(* A statement fails for another reason: a name in use, an unknown           *)
(* permission or user, a lost connection.                                    *)
Fails(q) == Open(q) /\ Rollback(q)

Step(q) ==
  \/ \E row \in Row : Touch(q, row) \/ Insert(q, row)
  \/ CheckRole(q) \/ RoleMissing(q) \/ Drop(q) \/ Copy(q) \/ Commit(q)
  \/ DeadlockVictim(q)

Arrive(q) ==
  \/ \E r \in Role : \/ \E list \in SUBSET Perm : BeginPerms(q, r, list)
                     \/ \E u \in User : BeginUser(q, r, u)
                     \/ BeginDelete(q, r)
                     \/ \E src \in Role \cup {Nobody} : BeginCreate(q, r, src)

Next == \E q \in Request : Arrive(q) \/ Step(q) \/ Fails(q)

(* A request that has arrived goes on: its goroutine and the database run.   *)
Fairness == \A q \in Request : SF_vars(Step(q))

Spec == Init /\ [][Next]_vars
LiveSpec == Spec /\ Fairness

(***************************************************************************)
(* The inductive invariant                                                 *)
(***************************************************************************)
(* Two transactions never hold the same row.                                 *)
LocksSound ==
  \A q \in Request : \A row \in Row : w[q][row] # "none" => ~Locked(q, row)

(* An id that was not drawn is nobody's; an idle request holds nothing.      *)
DrawnFirst == \A r \in Role \ drawn :
  db[RoleRow(r)] = "absent" /\ \A q \in Request : w[q][RoleRow(r)] = "none"

IdleEmpty(q) == phase[q] = "idle" =>
  /\ todo[q] = {} /\ want[q] = {} /\ gone[q] = {} /\ seen[q] = {} /\ ~share[q]
  /\ \A row \in Row : w[q][row] = "none"

(* Where each kind of request writes.                                        *)
Reach(q) ==
  CASE op[q].kind = "perms"  -> GrantsOf(op[q].role)
    [] op[q].kind = "user"   -> RolesOf(op[q].arg)
    [] op[q].kind = "delete" -> Children(op[q].role) \cup {RoleRow(op[q].role)}
    [] op[q].kind = "create" -> GrantsOf(op[q].role) \cup {RoleRow(op[q].role)}

Confined(q) ==
  /\ todo[q] \cup want[q] \subseteq Reach(q) \ RoleRows
  /\ \A row \in Row : w[q][row] # "none" => row \in Reach(q)
  /\ todo[q] \subseteq StoredRows
  /\ \A row \in gone[q] : w[q][row] # "none"
  /\ \A row \in Row : w[q][row] = "absent" => row \in gone[q]

(* Where each kind of request can be, and what it writes.                    *)
InPhase(q) ==
  /\ phase[q] = "fk" => op[q].kind \in {"perms", "user"}
  /\ phase[q] = "drop" => op[q].kind = "delete" /\ \A row \in Row : w[q][row] = "none"
  /\ phase[q] = "copy" => op[q].kind = "create" /\ op[q].arg \in Role

PermsWrites(q) == op[q].kind = "perms" => \A row \in Row : w[q][row] # "off"

UserWrites(q) == op[q].kind = "user" =>
  /\ op[q].arg \in User /\ gone[q] = {}
  /\ want[q] \subseteq {UserRow(op[q].role, op[q].arg)}
  /\ phase[q] # "idle" /\ want[q] = {} =>
       todo[q] = {} /\ w[q][UserRow(op[q].role, op[q].arg)] = "on"

DeleteWrites(q) == op[q].kind = "delete" =>
  /\ want[q] = {} /\ ~share[q]
  /\ \A row \in Row : w[q][row] \in {"none", "absent"}
  /\ \/ w[q][RoleRow(op[q].role)] = "absent"
     \/ todo[q] = {} /\ \A row \in Row : w[q][row] = "none"

CreateWrites(q) == op[q].kind = "create" =>
  /\ op[q].role \in drawn /\ todo[q] = {} /\ want[q] = {} /\ gone[q] = {}
  /\ phase[q] # "idle" => w[q][RoleRow(op[q].role)] = "on"
  /\ \A row \in Row : w[q][row] \in {"none", "on"}

(* A row that q has inserted waits for its foreign key, or q holds the lock  *)
(* on its role, or has created that role.                                    *)
Inserted(q, row) == w[q][row] \in {"on", "off"} /\ (db[row] = "absent" \/ row \in gone[q])

KeysChecked(q) == \A row \in GrantRows \cup UserRows : Inserted(q, row) =>
  /\ row[2] = op[q].role
  /\ phase[q] = "fk" \/ share[q] \/ w[q][RoleRow(op[q].role)] = "on"

ShareHeld(q) == share[q] =>
  /\ db[RoleRow(op[q].role)] = "on"
  /\ \A p \in Request : w[p][RoleRow(op[q].role)] = "none"

(* The cascade has what is left of the role's rows before it.                *)
CascadeCovers(q) == \A r \in Role : w[q][RoleRow(r)] = "absent" =>
  \A row \in Children(r) : db[row] = "absent" \/ row \in todo[q] \/ w[q][row] = "absent"

(* The grants stored when q began are ahead of its DELETE or written.        *)
SeenCovered(q) == \A row \in seen[q] : row \in todo[q] \/ w[q][row] # "none"

(***************************************************************************)
(* Properties                                                              *)
(***************************************************************************)
(* No grant and no assignment outlives its role (schema 140-153).            *)
NoOrphans == \A r \in Role : db[RoleRow(r)] = "absent" =>
                \A row \in Children(r) : db[row] = "absent"

RoleInv ==
  /\ LocksSound /\ DrawnFirst /\ NoOrphans
  /\ \A q \in Request :
       /\ IdleEmpty(q) /\ Confined(q) /\ InPhase(q)
       /\ PermsWrites(q) /\ UserWrites(q) /\ DeleteWrites(q) /\ CreateWrites(q)
       /\ KeysChecked(q) /\ ShareHeld(q) /\ CascadeCovers(q) /\ SeenCovered(q)

Active(u) == {r \in Role : db[UserRow(r, u)] = "on"}

(* The comment "single active role" in OnboardEmployee (repository.go:253),  *)
(* "replaces existing role" (399): what ReplaceUserRole is for.              *)
SingleActiveRole == \A u \in User : \A r, s \in Active(u) : r = s

(* A user with a role keeps one, through every order of the requests that    *)
(* replace it, unless a role the user has is deleted with its assignments.   *)
KeepsARole ==
  [][\A u \in User : Active(u) # {} =>
       \/ Active(u)' # {}
       \/ \E r \in Active(u) : db'[RoleRow(r)] = "absent"]_vars

(* Once a request that replaces the grants of a role (repository.go:444) is  *)
(* answered, no grant stored when it began is left but those it asked for,   *)
(* unless another request has deleted and granted it again meanwhile.        *)
RevokedGone ==
  [][\A q \in Request : Commit(q) /\ op[q].kind = "perms" =>
       \A row \in seen[q] : db'[row] = "on" => w[q][row] = "on"]_vars

(* Every request is answered: none waits for ever for the locks of others.   *)
Answered == \A q \in Request : Open(q) ~> ~Open(q)

=============================================================================
