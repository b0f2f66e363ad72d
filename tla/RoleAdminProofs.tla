--------------------------- MODULE RoleAdminProofs ---------------------------
(***************************************************************************)
(* Proofs about RoleAdmin.                                                 *)
(***************************************************************************)
EXTENDS RoleAdmin, TLAPS

(* The tables are disjoint, and a row is determined by its places.           *)
LEMMA RowShape ==
  /\ RoleRows \subseteq Row /\ GrantRows \subseteq Row /\ UserRows \subseteq Row
  /\ Row = RoleRows \cup GrantRows \cup UserRows
  /\ RoleRows \cap GrantRows = {} /\ RoleRows \cap UserRows = {}
  /\ GrantRows \cap UserRows = {}
  /\ \A r \in Role : RoleRow(r) \in RoleRows /\ RoleRow(r)[2] = r
  /\ \A r, s \in Role : RoleRow(r) = RoleRow(s) => r = s
  /\ \A row \in RoleRows : row[2] \in Role /\ row = RoleRow(row[2])
  /\ \A row \in GrantRows \cup UserRows : row[2] \in Role
  /\ \A r \in Role, p \in Perm : GrantRow(r, p) \in GrantRows /\ GrantRow(r, p)[2] = r
  /\ \A r \in Role, u \in User : /\ UserRow(r, u) \in UserRows
                                 /\ UserRow(r, u)[2] = r /\ UserRow(r, u)[3] = u
PROOF
  <1>1. \A r \in Role : RoleRow(r) \in RoleRows /\ RoleRow(r)[2] = r
    BY DEF RoleRows, RoleRow
  <1>2. \A r, s \in Role : RoleRow(r) = RoleRow(s) => r = s
    BY DEF RoleRow
  <1>3. \A row \in RoleRows : row[1] = "role" /\ row[2] \in Role /\ row = RoleRow(row[2])
    BY DEF RoleRows, RoleRow
  <1>4. \A row \in GrantRows : row[1] = "grant" /\ row[2] \in Role
    BY DEF GrantRows, GrantRow
  <1>5. \A row \in UserRows : row[1] = "user" /\ row[2] \in Role
    BY DEF UserRows, UserRow
  <1>6. \A r \in Role, p \in Perm : GrantRow(r, p) \in GrantRows /\ GrantRow(r, p)[2] = r
    BY DEF GrantRows, GrantRow
  <1>7. \A r \in Role, u \in User : /\ UserRow(r, u) \in UserRows
                                    /\ UserRow(r, u)[2] = r /\ UserRow(r, u)[3] = u
    BY DEF UserRows, UserRow
  <1>8. Row = RoleRows \cup GrantRows \cup UserRows
    BY DEF Row
  <1> QED
    BY <1>1, <1>2, <1>3, <1>4, <1>5, <1>6, <1>7, <1>8

(* Some role exists, so NoOp is a request.                                   *)
LEMMA NoOpIsOp == NoOp \in Op
PROOF
  <1>1. \E r \in Role : TRUE
    BY RolesAssumption
  <1>2. (CHOOSE r \in Role : TRUE) \in Role
    BY <1>1
  <1> QED
    BY <1>2 DEF NoOp, Op, Kind

(* Every action keeps the variables in their types.                          *)
LEMMA TypeStep == ASSUME TypeOK, [Next]_vars PROVE TypeOK'
PROOF
  <1> USE RowShape, NoOpIsOp DEF TypeOK
  <1> HIDE DEF NoOp, Value
  <1>1. ASSUME NEW q \in Request, Arrive(q) PROVE TypeOK'
    <2>1. /\ \A kind \in Kind, r \in Role, arg \in Role \cup User \cup {Nobody} :
               [kind |-> kind, role |-> r, arg |-> arg] \in Op
          /\ {} \in SUBSET Row
      BY DEF Op
    <2>2. PICK r \in Role : \/ \E list \in SUBSET Perm : BeginPerms(q, r, list)
                            \/ \E u \in User : BeginUser(q, r, u)
                            \/ BeginDelete(q, r)
                            \/ \E src \in Role \cup {Nobody} : BeginCreate(q, r, src)
      BY <1>1 DEF Arrive
    <2>3. CASE \E list \in SUBSET Perm : BeginPerms(q, r, list)
      <3>1. PICK list \in SUBSET Perm : BeginPerms(q, r, list)
        BY <2>3
      <3>2. /\ GrantsOf(r) \cap StoredRows \in SUBSET Row
            /\ {GrantRow(r, p) : p \in list} \in SUBSET Row
        BY DEF GrantsOf
      <3> QED
        BY <2>1, <3>1, <3>2 DEF BeginPerms, Begin, Kind
    <2>4. CASE \E u \in User : BeginUser(q, r, u)
      <3>1. PICK u \in User : BeginUser(q, r, u)
        BY <2>4
      <3>2. RolesOf(u) \cap StoredRows \in SUBSET Row /\ {UserRow(r, u)} \in SUBSET Row
        BY DEF RolesOf
      <3> QED
        BY <2>1, <3>1, <3>2 DEF BeginUser, Begin, Kind
    <2>5. CASE BeginDelete(q, r)
      BY <2>1, <2>5 DEF BeginDelete, Begin, Kind
    <2>6. CASE \E src \in Role \cup {Nobody} : BeginCreate(q, r, src)
      <3>1. PICK src \in Role \cup {Nobody} : BeginCreate(q, r, src)
        BY <2>6
      <3>2. w' \in [Request -> [Row -> Value \cup {"none"}]]
        BY <3>1 DEF BeginCreate, Value
      <3> QED
        BY <2>1, <3>1, <3>2 DEF BeginCreate, Begin, Kind
    <2> QED
      BY <2>2, <2>3, <2>4, <2>5, <2>6
  <1>2. ASSUME NEW q \in Request, NEW row \in Row, Touch(q, row) PROVE TypeOK'
    BY <1>2 DEF Touch, Value
  <1>3. ASSUME NEW q \in Request, NEW row \in Row, Insert(q, row) PROVE TypeOK'
    BY <1>3 DEF Insert, Value
  <1>4. ASSUME NEW q \in Request, CheckRole(q) PROVE TypeOK'
    BY <1>4 DEF CheckRole
  <1>5. ASSUME NEW q \in Request, Drop(q) PROVE TypeOK'
    <2>1. op[q].role \in Role
      BY DEF Op
    <2>2. Children(op[q].role) \cap StoredRows \in SUBSET Row
      BY DEF Children
    <2>3. RoleRow(op[q].role) \in Row
      BY <2>1
    <2>4. CASE db[RoleRow(op[q].role)] = "on"
      <3> DEFINE row == RoleRow(op[q].role)
      <3> HIDE DEF row
      <3>1. /\ w' = [w EXCEPT ![q][row] = "absent"]
            /\ gone' = [gone EXCEPT ![q] = {row}]
            /\ todo' = [todo EXCEPT ![q] = Children(op[q].role) \cap StoredRows]
            /\ phase' = [phase EXCEPT ![q] = "run"]
            /\ UNCHANGED <<db, drawn, op, want, share, seen>>
        BY <1>5, <2>4 DEF Drop, row
      <3>2. row \in Row
        BY <2>3 DEF row
      <3> QED
        BY <2>2, <3>1, <3>2 DEF Value
    <2>5. CASE db[RoleRow(op[q].role)] # "on"
      BY <1>5, <2>5 DEF Drop
    <2> QED
      BY <2>4, <2>5
  <1>6. ASSUME NEW q \in Request, Copy(q) PROVE TypeOK'
    <2>1. [row \in Row |-> IF row \in Copies(q) THEN "on" ELSE w[q][row]]
            \in [Row -> Value \cup {"none"}]
      BY DEF Value
    <2> QED
      BY <1>6, <2>1 DEF Copy
  <1>7. ASSUME NEW q \in Request, End(q)
        PROVE  /\ drawn' \in SUBSET Role
               /\ phase' \in [Request -> {"idle", "run", "fk", "drop", "copy"}]
               /\ op' \in [Request -> Op]
               /\ want' \in [Request -> SUBSET Row]
               /\ w' \in [Request -> [Row -> Value \cup {"none"}]]
               /\ gone' \in [Request -> SUBSET Row]
               /\ share' \in [Request -> BOOLEAN]
    <2>1. Unwritten \in [Row -> Value \cup {"none"}]
      BY DEF Unwritten
    <2> QED
      BY <1>7, <2>1 DEF End
  <1>8. ASSUME NEW q \in Request, Commit(q) PROVE TypeOK'
    <2>1. \A row \in Row : View(q, row) \in Value
      BY DEF View
    <2> QED
      BY <1>7, <1>8, <2>1 DEF Commit
  <1>9. ASSUME NEW q \in Request, Rollback(q) PROVE TypeOK'
    BY <1>7, <1>9 DEF Rollback
  <1>10. CASE UNCHANGED vars
    BY <1>10 DEF vars
  <1> QED
    BY <1>1, <1>2, <1>3, <1>4, <1>5, <1>6, <1>8, <1>9, <1>10
       DEF Next, Step, Fails, RoleMissing, DeadlockVictim

(* The variables keep their types.                                           *)
THEOREM TypeCorrect == Spec => []TypeOK
PROOF
  <1>1. Init => TypeOK
    BY RowShape, NoOpIsOp, RolesAssumption DEF Init, TypeOK, Value, Unwritten
  <1>2. TypeOK /\ [Next]_vars => TypeOK'
    BY TypeStep
  <1> QED
    BY <1>1, <1>2, PTL DEF Spec

(***************************************************************************)
(* The inductive invariant.                                                *)
(***************************************************************************)
(* What the invariant says of one request.                                   *)
ReqInv(q) ==
  /\ IdleEmpty(q) /\ Confined(q) /\ InPhase(q)
  /\ PermsWrites(q) /\ UserWrites(q) /\ DeleteWrites(q) /\ CreateWrites(q)
  /\ KeysChecked(q) /\ CascadeCovers(q) /\ SeenCovered(q)

(* The part of the state that belongs to request p does not change.          *)
Same(p) ==
  /\ phase'[p] = phase[p] /\ op'[p] = op[p] /\ todo'[p] = todo[p] /\ want'[p] = want[p]
  /\ w'[p] = w[p] /\ gone'[p] = gone[p] /\ share'[p] = share[p] /\ seen'[p] = seen[p]

(* A step of q that commits nothing keeps the invariant if q's own part of   *)
(* it holds afterwards and what q has newly locked was free.                 *)
LEMMA QuietStep ==
  ASSUME TypeOK, TypeOK', RoleInv, NEW q \in Request,
         db' = db, drawn \subseteq drawn', \A p \in Request \ {q} : Same(p),
         ReqInv(q)',
         \A row \in Row : w'[q][row] # "none" /\ w[q][row] = "none" => ~Locked(q, row),
         share'[q] => \/ share[q] /\ op'[q].role = op[q].role
                      \/ /\ db[RoleRow(op'[q].role)] = "on"
                         /\ \A p \in Request : w[p][RoleRow(op'[q].role)] = "none",
         \A r \in Role : w'[q][RoleRow(r)] # "none" /\ w[q][RoleRow(r)] = "none" =>
            r \in drawn' /\ ~SharedByOther(q, r) /\ ~share'[q]
  PROVE  RoleInv'
PROOF
  <1> USE RowShape
  <1>1. LocksSound'
    BY DEF RoleInv, LocksSound, Locked, Same
  <1>2. DrawnFirst'
    BY DEF RoleInv, DrawnFirst, Same
  <1>3. NoOrphans'
    BY DEF RoleInv, NoOrphans
  <1>4. ASSUME NEW p \in Request \ {q} PROVE ReqInv(p)'
    <2>1. Same(p) /\ ReqInv(p)
      BY <1>4 DEF RoleInv, ReqInv
    <2>2. IdleEmpty(p)' /\ SeenCovered(p)' /\ InPhase(p)'
      BY <2>1 DEF Same, ReqInv, IdleEmpty, SeenCovered, InPhase
    <2>3. Confined(p)'
      <3>1. Reach(p)' = Reach(p) /\ StoredRows' = StoredRows
        BY <2>1 DEF Same, Reach, StoredRows
      <3> QED
        BY <2>1, <3>1 DEF Same, ReqInv, Confined
    <2>4. PermsWrites(p)' /\ UserWrites(p)' /\ DeleteWrites(p)' /\ CreateWrites(p)'
      BY <2>1 DEF Same, ReqInv, PermsWrites, UserWrites, DeleteWrites, CreateWrites
    <2>5. KeysChecked(p)'
      BY <2>1 DEF Same, ReqInv, KeysChecked, Inserted
    <2>6. CascadeCovers(p)'
      BY <2>1 DEF Same, ReqInv, CascadeCovers
    <2> QED
      BY <2>2, <2>3, <2>4, <2>5, <2>6 DEF ReqInv
  <1>5. ASSUME NEW p \in Request PROVE ShareHeld(p)'
    <2>1. op[p].role \in Role /\ op'[p].role \in Role
      BY DEF TypeOK, Op
    <2>2. CASE p = q
      <3>1. SUFFICES ASSUME share'[q]
                     PROVE  /\ db[RoleRow(op'[q].role)] = "on"
                            /\ \A s \in Request : w'[s][RoleRow(op'[q].role)] = "none"
        BY <2>2 DEF ShareHeld
      <3>2. /\ db[RoleRow(op'[q].role)] = "on"
            /\ \A s \in Request : w[s][RoleRow(op'[q].role)] = "none"
        BY <3>1 DEF RoleInv, ShareHeld
      <3> QED
        BY <2>1, <2>2, <3>1, <3>2 DEF Same
    <2>3. CASE p # q
      <3>1. Same(p) /\ ShareHeld(p)
        BY <2>3 DEF RoleInv
      <3>2. share[p] => w'[q][RoleRow(op[p].role)] = "none"
        BY <2>1, <2>3, <3>1 DEF ShareHeld, SharedByOther
      <3> QED
        BY <2>1, <2>3, <3>1, <3>2 DEF Same, ShareHeld
    <2> QED
      BY <2>2, <2>3
  <1> QED
    BY <1>1, <1>2, <1>3, <1>4, <1>5 DEF RoleInv, ReqInv

(* A kind of request writes role rows only if it deletes or creates a role.  *)
LEMMA ReachKinds ==
  ASSUME TypeOK, NEW q \in Request
  PROVE  /\ op[q].role \in Role /\ op[q].kind \in Kind
         /\ op[q].kind = "perms" => Reach(q) = GrantsOf(op[q].role)
         /\ op[q].kind = "user" => Reach(q) = RolesOf(op[q].arg)
         /\ op[q].kind = "delete" =>
              Reach(q) = Children(op[q].role) \cup {RoleRow(op[q].role)}
         /\ op[q].kind = "create" =>
              Reach(q) = GrantsOf(op[q].role) \cup {RoleRow(op[q].role)}
PROOF
  <1>1. op[q] \in Op
    BY DEF TypeOK
  <1>2. op[q].role \in Role /\ op[q].kind \in Kind
    BY <1>1 DEF Op
  <1> QED
    BY <1>2 DEF Reach

(* An UPDATE, a DELETE or a cascade writes one of the rows it found.         *)
LEMMA StepTouch ==
  ASSUME TypeOK, TypeOK', RoleInv, NEW q \in Request, NEW row \in Row, Touch(q, row)
  PROVE  RoleInv'
PROOF
  <1> USE RowShape
  <1> DEFINE v == IF op[q].kind = "user" THEN "off" ELSE "absent"
  <1>1. /\ row \in todo[q] /\ ~Locked(q, row)
        /\ db' = db /\ drawn' = drawn
        /\ \A p \in Request \ {q} : Same(p)
        /\ phase'[q] = phase[q] /\ op'[q] = op[q] /\ want'[q] = want[q]
        /\ share'[q] = share[q] /\ seen'[q] = seen[q]
        /\ todo'[q] = todo[q] \ {row}
        /\ gone'[q] = IF op[q].kind = "user" THEN gone[q] ELSE gone[q] \cup {row}
        /\ w'[q][row] = v
        /\ \A x \in Row \ {row} : w'[q][x] = w[q][x]
    BY DEF Touch, TypeOK, Same
  <1>2. ReqInv(q) /\ ShareHeld(q)
    BY DEF RoleInv, ReqInv
  <1>3. /\ phase[q] # "idle" /\ row \in Reach(q) /\ row \notin RoleRows /\ db[row] # "absent"
        /\ op[q].kind # "create"
        /\ op[q].kind = "user" => want[q] # {}
        /\ op[q].kind = "delete" => w[q][RoleRow(op[q].role)] = "absent"
    BY <1>1, <1>2 DEF ReqInv, IdleEmpty, Confined, UserWrites, DeleteWrites, CreateWrites, StoredRows
  <1>4. \A r \in Role : RoleRow(r) # row /\ w'[q][RoleRow(r)] = w[q][RoleRow(r)]
    BY <1>1, <1>3
  <1>5. op[q].role \in Role /\ op[q].kind \in Kind
    BY ReachKinds
  <1> HIDE DEF v
  <1>6. v \in {"off", "absent"} /\ (op[q].kind # "user" => v = "absent")
    BY DEF v
  <1>7. IdleEmpty(q)' /\ SeenCovered(q)' /\ InPhase(q)'
    <2>1. phase[q] # "drop"
      BY <1>2, <1>3, <1>5 DEF ReqInv, InPhase
    <2> QED
      BY <1>1, <1>2, <1>3, <1>6, <2>1 DEF ReqInv, IdleEmpty, SeenCovered, InPhase, TypeOK
  <1>8. Confined(q)'
    <2>1. Reach(q)' = Reach(q) /\ StoredRows' = StoredRows
      BY <1>1 DEF Reach, StoredRows
    <2>2. Confined(q)
      BY <1>2 DEF ReqInv
    <2>3. /\ todo'[q] \cup want'[q] \subseteq Reach(q) \ RoleRows
          /\ todo'[q] \subseteq StoredRows
      BY <1>1, <2>2 DEF Confined
    <2>4. ASSUME NEW x \in Row, w'[q][x] # "none" PROVE x \in Reach(q)
      BY <1>1, <1>3, <2>2, <2>4 DEF Confined
    <2>5. ASSUME NEW x \in gone'[q] PROVE w'[q][x] # "none"
      BY <1>1, <1>6, <2>2, <2>5 DEF Confined, TypeOK
    <2>6. ASSUME NEW x \in Row, w'[q][x] = "absent" PROVE x \in gone'[q]
      <3>1. CASE x = row
        BY <1>1, <2>6, <3>1 DEF v
      <3>2. CASE x # row
        BY <1>1, <2>2, <2>6, <3>2 DEF Confined
      <3> QED
        BY <3>1, <3>2
    <2> QED
      BY <2>1, <2>3, <2>4, <2>5, <2>6 DEF Confined
  <1>9. PermsWrites(q)' /\ UserWrites(q)' /\ DeleteWrites(q)' /\ CreateWrites(q)'
    BY <1>1, <1>2, <1>3, <1>4, <1>5, <1>6
       DEF ReqInv, PermsWrites, UserWrites, DeleteWrites, CreateWrites
  <1>10. KeysChecked(q)'
    <2>1. ASSUME NEW x \in GrantRows \cup UserRows, Inserted(q, x)' PROVE Inserted(q, x)
      <3>1. CASE x = row
        BY <1>1, <1>2, <1>3, <2>1, <3>1 DEF Inserted, v, ReqInv, UserWrites
      <3>2. CASE x # row
        BY <1>1, <2>1, <3>2 DEF Inserted
      <3> QED
        BY <3>1, <3>2
    <2> QED
      BY <1>1, <1>2, <1>4, <1>5, <2>1 DEF ReqInv, KeysChecked
  <1>11. CascadeCovers(q)'
    <2>1. ASSUME NEW r \in Role, w[q][RoleRow(r)] = "absent" PROVE v = "absent"
      <3>1. RoleRow(r) \in Reach(q)
        BY <1>2, <2>1 DEF ReqInv, Confined
      <3>2. op[q].kind # "user"
        BY <3>1, ReachKinds DEF RolesOf
      <3> QED
        BY <1>6, <3>2
    <2> QED
      BY <1>1, <1>2, <1>4, <2>1 DEF ReqInv, CascadeCovers, Children
  <1>12. ReqInv(q)'
    BY <1>7, <1>8, <1>9, <1>10, <1>11 DEF ReqInv
  <1> QED
    BY <1>1, <1>2, <1>4, <1>12, QuietStep DEF ShareHeld

(* An INSERT of a grant, or the upsert of a user's role.                     *)
LEMMA StepInsert ==
  ASSUME TypeOK, TypeOK', RoleInv, NEW q \in Request, NEW row \in Row, Insert(q, row)
  PROVE  RoleInv'
PROOF
  <1> USE RowShape
  <1>1. /\ phase[q] = "run" /\ todo[q] = {} /\ row \in want[q] /\ ~Locked(q, row)
        /\ db' = db /\ drawn' = drawn
        /\ \A p \in Request \ {q} : Same(p)
        /\ op'[q] = op[q] /\ todo'[q] = todo[q] /\ gone'[q] = gone[q]
        /\ share'[q] = share[q] /\ seen'[q] = seen[q]
        /\ want'[q] = want[q] \ {row}
        /\ phase'[q] = IF View(q, row) = "absent" THEN "fk" ELSE "run"
        /\ w'[q][row] = IF View(q, row) = "absent" \/ op[q].kind = "user"
                        THEN "on" ELSE w[q][row]
        /\ \A x \in Row \ {row} : w'[q][x] = w[q][x]
    BY DEF Insert, TypeOK, Same
  <1>2. ReqInv(q) /\ ShareHeld(q)
    BY DEF RoleInv, ReqInv
  <1>3. /\ row \in Reach(q) /\ row \notin RoleRows
        /\ op[q].kind # "create" /\ op[q].kind # "delete"
        /\ op[q].kind = "user" => row = UserRow(op[q].role, op[q].arg) /\ op[q].arg \in User
    BY <1>1, <1>2 DEF ReqInv, Confined, UserWrites, DeleteWrites, CreateWrites
  <1>4. \A r \in Role : RoleRow(r) # row /\ w'[q][RoleRow(r)] = w[q][RoleRow(r)]
    BY <1>1, <1>3
  <1>5. op[q].role \in Role /\ op[q].kind \in Kind
    BY ReachKinds
  <1>6. row[2] = op[q].role
    BY <1>3, <1>5, ReachKinds DEF GrantsOf, Kind
  <1>7. w'[q][row] = w[q][row] \/ w'[q][row] = "on"
    BY <1>1
  <1>8. IdleEmpty(q)' /\ SeenCovered(q)' /\ InPhase(q)'
    <2>1. SeenCovered(q)'
      BY <1>1, <1>2, <1>7 DEF ReqInv, SeenCovered, TypeOK
    <2> QED
      BY <1>1, <1>2, <1>3, <1>5, <2>1 DEF ReqInv, IdleEmpty, InPhase, Kind
  <1>9. Confined(q)'
    <2>1. Reach(q)' = Reach(q) /\ StoredRows' = StoredRows
      BY <1>1 DEF Reach, StoredRows
    <2>2. gone[q] \subseteq Row
      BY DEF TypeOK
    <2>3. \A x \in gone[q] : w'[q][x] # "none"
      BY <1>1, <1>2, <1>7, <2>2 DEF ReqInv, Confined
    <2>4. \A x \in Row : /\ w'[q][x] # "none" => x \in Reach(q)
                         /\ w'[q][x] = "absent" => x \in gone[q]
      BY <1>1, <1>2, <1>3, <1>7 DEF ReqInv, Confined
    <2>5. todo'[q] \cup want'[q] \subseteq Reach(q) \ RoleRows /\ todo'[q] \subseteq StoredRows
      BY <1>1, <1>2 DEF ReqInv, Confined
    <2> QED
      BY <1>1, <2>1, <2>3, <2>4, <2>5 DEF Confined
  <1>10. PermsWrites(q)' /\ DeleteWrites(q)' /\ CreateWrites(q)'
    BY <1>1, <1>2, <1>3, <1>7 DEF ReqInv, PermsWrites, DeleteWrites, CreateWrites
  <1>11. UserWrites(q)'
    BY <1>1, <1>2, <1>3, <1>5 DEF ReqInv, UserWrites
  <1>12. KeysChecked(q)'
    <2>1. SUFFICES ASSUME NEW x \in GrantRows \cup UserRows, Inserted(q, x)'
                   PROVE  /\ x[2] = op[q].role
                          /\ \/ phase'[q] = "fk" \/ share[q]
                             \/ w'[q][RoleRow(op[q].role)] = "on"
      BY <1>1 DEF KeysChecked
    <2>2. CASE x = row /\ View(q, row) = "absent"
      BY <1>1, <1>6, <2>2
    <2>3. CASE x = row /\ View(q, row) # "absent"
      <3>1. Inserted(q, x)
        BY <1>1, <1>2, <2>1, <2>3 DEF Inserted, View, ReqInv, Confined, TypeOK, Value
      <3> QED
        BY <1>1, <1>2, <1>4, <1>5, <2>3, <3>1 DEF ReqInv, KeysChecked
    <2>4. CASE x # row
      <3>1. Inserted(q, x)
        BY <1>1, <2>1, <2>4 DEF Inserted
      <3>2. phase[q] # "fk"
        BY <1>1
      <3> QED
        BY <1>1, <1>2, <1>4, <1>5, <3>1, <3>2 DEF ReqInv, KeysChecked
    <2> QED
      BY <2>2, <2>3, <2>4
  <1>13. CascadeCovers(q)'
    <2>1. ASSUME NEW r \in Role PROVE w[q][RoleRow(r)] # "absent"
      <3>1. RoleRow(r) \notin Reach(q)
        BY <1>3, <1>5, ReachKinds DEF Kind, GrantsOf, RolesOf
      <3> QED
        BY <1>2, <3>1 DEF ReqInv, Confined
    <2> QED
      BY <1>4, <2>1 DEF CascadeCovers
  <1>14. ReqInv(q)'
    BY <1>8, <1>9, <1>10, <1>11, <1>12, <1>13 DEF ReqInv
  <1> QED
    BY <1>1, <1>2, <1>4, <1>14, QuietStep DEF ShareHeld

(* The foreign key check locks the row of the role.                          *)
LEMMA StepCheckRole ==
  ASSUME TypeOK, TypeOK', RoleInv, NEW q \in Request, CheckRole(q)
  PROVE  RoleInv'
PROOF
  <1> USE RowShape
  <1>1. /\ phase[q] = "fk" /\ db[RoleRow(op[q].role)] = "on"
        /\ ~Locked(q, RoleRow(op[q].role))
        /\ db' = db /\ drawn' = drawn
        /\ \A p \in Request \ {q} : Same(p)
        /\ op'[q] = op[q] /\ todo'[q] = todo[q] /\ want'[q] = want[q]
        /\ w'[q] = w[q] /\ gone'[q] = gone[q] /\ seen'[q] = seen[q]
        /\ phase'[q] = "run" /\ share'[q]
    BY DEF CheckRole, TypeOK, Same
  <1>2. ReqInv(q)
    BY DEF RoleInv, ReqInv
  <1>3. op[q].role \in Role /\ op[q].kind \in Kind
    BY ReachKinds
  <1>4. /\ IdleEmpty(q)' /\ SeenCovered(q)' /\ KeysChecked(q)' /\ CascadeCovers(q)'
        /\ InPhase(q)'
    BY <1>1, <1>2
       DEF ReqInv, IdleEmpty, SeenCovered, KeysChecked, Inserted, CascadeCovers, InPhase
  <1>5. Confined(q)'
    <2>1. Reach(q)' = Reach(q) /\ StoredRows' = StoredRows
      BY <1>1 DEF Reach, StoredRows
    <2> QED
      BY <1>1, <1>2, <2>1 DEF ReqInv, Confined
  <1>6. PermsWrites(q)' /\ UserWrites(q)' /\ DeleteWrites(q)' /\ CreateWrites(q)'
    BY <1>1, <1>2 DEF ReqInv, InPhase, PermsWrites, UserWrites, DeleteWrites, CreateWrites
  <1>7. RoleRow(op[q].role) \notin Reach(q)
    BY <1>1, <1>2, <1>3, ReachKinds DEF ReqInv, InPhase, GrantsOf, RolesOf
  <1>8. \A p \in Request : w[p][RoleRow(op[q].role)] = "none"
    BY <1>1, <1>2, <1>3, <1>7 DEF Locked, ReqInv, Confined
  <1>9. ReqInv(q)'
    BY <1>4, <1>5, <1>6 DEF ReqInv
  <1> QED
    BY <1>1, <1>8, <1>9, QuietStep

(* DELETE FROM roles, and the rows its cascade finds.                        *)
LEMMA StepDrop ==
  ASSUME TypeOK, TypeOK', RoleInv, NEW q \in Request, Drop(q)
  PROVE  RoleInv'
PROOF
  <1> USE RowShape
  <1> DEFINE r == op[q].role
  <1> DEFINE own == RoleRow(r)
  <1>1. r \in Role /\ own \in Row /\ own \in RoleRows /\ op[q].kind = "delete"
    BY ReachKinds DEF Drop, RoleInv, InPhase
  <1>2. /\ phase[q] = "drop" /\ ~Locked(q, own) /\ ~SharedByOther(q, r)
        /\ db' = db /\ drawn' = drawn
        /\ \A p \in Request \ {q} : Same(p)
        /\ op'[q] = op[q] /\ want'[q] = want[q] /\ share'[q] = share[q]
        /\ seen'[q] = seen[q] /\ phase'[q] = "run"
    BY DEF Drop, TypeOK, Same
  <1>3. ReqInv(q) /\ ShareHeld(q)
    BY DEF RoleInv, ReqInv
  <1>4. CASE db[own] # "on"
    <2>1. w'[q] = w[q] /\ gone'[q] = gone[q] /\ todo'[q] = todo[q]
      BY <1>4 DEF Drop
    <2>2. ReqInv(q)'
      <3>1. Reach(q)' = Reach(q) /\ StoredRows' = StoredRows
        BY <1>2 DEF Reach, StoredRows
      <3>2. IdleEmpty(q)' /\ SeenCovered(q)' /\ Confined(q)' /\ InPhase(q)'
        BY <1>2, <1>3, <2>1, <3>1 DEF ReqInv, IdleEmpty, SeenCovered, Confined, InPhase
      <3>3. PermsWrites(q)' /\ UserWrites(q)' /\ DeleteWrites(q)' /\ CreateWrites(q)'
        BY <1>1, <1>2, <1>3, <2>1 DEF ReqInv, PermsWrites, UserWrites, DeleteWrites, CreateWrites
      <3>4. KeysChecked(q)' /\ CascadeCovers(q)'
        BY <1>2, <1>3, <2>1 DEF ReqInv, KeysChecked, Inserted, CascadeCovers
      <3> QED
        BY <3>2, <3>3, <3>4 DEF ReqInv
    <2> QED
      BY <1>2, <1>3, <2>1, <2>2, QuietStep DEF ShareHeld
  <1>5. CASE db[own] = "on"
    <2>1. /\ w' = [w EXCEPT ![q][own] = "absent"]
          /\ gone' = [gone EXCEPT ![q] = {own}]
          /\ todo' = [todo EXCEPT ![q] = Children(r) \cap StoredRows]
      BY <1>5 DEF Drop
    <2>2. \A x \in Row : w[q][x] = "none"
      BY <1>2, <1>3 DEF ReqInv, InPhase
    <2>3. ~share[q] /\ want[q] = {} /\ todo[q] = {} /\ seen[q] = {}
      <3>1. ~share[q] /\ want[q] = {} /\ todo[q] = {}
        BY <1>1, <1>3, <2>2 DEF ReqInv, DeleteWrites
      <3>2. seen[q] \subseteq Row
        BY DEF TypeOK
      <3> QED
        BY <1>3, <2>2, <3>1, <3>2 DEF ReqInv, SeenCovered
    <2>4. own = RoleRow(r) /\ \A s \in Role : RoleRow(s) = own => s = r
      BY <1>1
    <2>5. r = op[q].role
      OBVIOUS
    <2> HIDE DEF own, r
    <2>6. /\ w'[q][own] = "absent" /\ gone'[q] = {own} /\ todo'[q] = Children(r) \cap StoredRows
          /\ \A x \in Row \ {own} : w'[q][x] = "none"
      BY <1>1, <2>1, <2>2 DEF TypeOK
    <2>7. IdleEmpty(q)' /\ InPhase(q)' /\ SeenCovered(q)'
      BY <1>1, <1>2, <2>3 DEF IdleEmpty, InPhase, SeenCovered
    <2>8. Confined(q)'
      <3>1. Reach(q)' = Children(r) \cup {own} /\ StoredRows' = StoredRows
        BY <1>1, <1>2, <2>4, <2>5 DEF Reach, StoredRows, Children
      <3>2. Children(r) \cap RoleRows = {}
        BY DEF Children
      <3> QED
        BY <1>1, <1>2, <2>3, <2>6, <3>1, <3>2 DEF Confined
    <2>9. PermsWrites(q)' /\ UserWrites(q)' /\ DeleteWrites(q)' /\ CreateWrites(q)'
      BY <1>1, <1>2, <2>3, <2>4, <2>5, <2>6
         DEF PermsWrites, UserWrites, DeleteWrites, CreateWrites
    <2>10. KeysChecked(q)'
      BY <1>1, <2>6 DEF KeysChecked, Inserted
    <2>11. CascadeCovers(q)'
      BY <1>1, <1>2, <2>4, <2>6 DEF CascadeCovers, StoredRows, Children
    <2>12. ReqInv(q)'
      BY <2>7, <2>8, <2>9, <2>10, <2>11 DEF ReqInv
    <2>13. \A x \in Row : w'[q][x] # "none" /\ w[q][x] = "none" => ~Locked(q, x)
      BY <1>2, <2>6
    <2>14. \A s \in Role : w'[q][RoleRow(s)] # "none" => s = r
      BY <2>4, <2>6
    <2>15. r \in drawn
      BY <1>1, <1>5, <2>4 DEF RoleInv, DrawnFirst, own
    <2> QED
      BY <1>2, <2>3, <2>12, <2>13, <2>14, <2>15, QuietStep
  <1> QED
    BY <1>4, <1>5

(* INSERT ... SELECT of a clone.                                             *)
LEMMA StepCopy ==
  ASSUME TypeOK, TypeOK', RoleInv, NEW q \in Request, Copy(q)
  PROVE  RoleInv'
PROOF
  <1> USE RowShape
  <1>1. /\ phase[q] = "copy" /\ \A x \in Copies(q) : ~Locked(q, x)
        /\ db' = db /\ drawn' = drawn
        /\ \A p \in Request \ {q} : Same(p)
        /\ op'[q] = op[q] /\ todo'[q] = todo[q] /\ want'[q] = want[q]
        /\ gone'[q] = gone[q] /\ share'[q] = share[q] /\ seen'[q] = seen[q]
        /\ phase'[q] = "run"
        /\ \A x \in Row : w'[q][x] = IF x \in Copies(q) THEN "on" ELSE w[q][x]
    BY DEF Copy, TypeOK, Same
  <1>2. ReqInv(q) /\ ShareHeld(q)
    BY DEF RoleInv, ReqInv
  <1>3. op[q].kind = "create" /\ op[q].role \in Role
    BY <1>1, <1>2, ReachKinds DEF ReqInv, InPhase
  <1>4. Copies(q) \subseteq GrantsOf(op[q].role) /\ GrantsOf(op[q].role) \subseteq GrantRows
    BY DEF Copies, GrantsOf
  <1>5. \A r \in Role : w'[q][RoleRow(r)] = w[q][RoleRow(r)]
    BY <1>1, <1>4
  <1>6. w[q][RoleRow(op[q].role)] = "on"
    BY <1>1, <1>2, <1>3 DEF ReqInv, CreateWrites
  <1>7. IdleEmpty(q)' /\ InPhase(q)' /\ SeenCovered(q)'
    <2>1. seen[q] \subseteq Row
      BY DEF TypeOK
    <2> QED
      BY <1>1, <1>2, <2>1 DEF ReqInv, IdleEmpty, InPhase, SeenCovered
  <1>8. Confined(q)'
    <2>1. Reach(q)' = Reach(q) /\ StoredRows' = StoredRows
      BY <1>1 DEF Reach, StoredRows
    <2>2. Copies(q) \subseteq Reach(q)
      BY <1>3, <1>4, ReachKinds
    <2>3. gone[q] \subseteq Row
      BY DEF TypeOK
    <2> QED
      BY <1>1, <1>2, <2>1, <2>2, <2>3 DEF ReqInv, Confined
  <1>9. PermsWrites(q)' /\ UserWrites(q)' /\ DeleteWrites(q)' /\ CreateWrites(q)'
    BY <1>1, <1>2, <1>3, <1>5
       DEF ReqInv, PermsWrites, UserWrites, DeleteWrites, CreateWrites
  <1>10. KeysChecked(q)'
    <2>1. SUFFICES ASSUME NEW x \in GrantRows \cup UserRows, w'[q][x] # "none"
                   PROVE  x[2] = op[q].role
      BY <1>1, <1>3, <1>5, <1>6 DEF KeysChecked, Inserted
    <2>2. x \in Reach(q)
      BY <1>1, <1>2, <1>3, <1>4, <2>1, ReachKinds DEF ReqInv, Confined
    <2> QED
      BY <1>3, <2>2, ReachKinds DEF GrantsOf
  <1>11. CascadeCovers(q)'
    BY <1>1, <1>2, <1>3, <1>5 DEF ReqInv, CreateWrites, CascadeCovers
  <1>12. ReqInv(q)'
    BY <1>7, <1>8, <1>9, <1>10, <1>11 DEF ReqInv
  <1>13. \A x \in Row : w'[q][x] # "none" /\ w[q][x] = "none" => ~Locked(q, x)
    BY <1>1
  <1>14. share'[q] => share[q] /\ op'[q].role = op[q].role
    BY <1>1
  <1> QED
    BY <1>1, <1>5, <1>12, <1>13, <1>14, QuietStep

(* A rollback leaves nothing of the request.                                 *)
LEMMA EmptyRequest ==
  ASSUME NEW q \in Request, op'[q].kind = "perms", phase'[q] = "idle",
         todo'[q] = {}, want'[q] = {}, gone'[q] = {}, seen'[q] = {}, ~share'[q],
         \A x \in Row : w'[q][x] = "none"
  PROVE  ReqInv(q)'
PROOF
  <1> USE RowShape
  <1>1. IdleEmpty(q)' /\ InPhase(q)' /\ SeenCovered(q)' /\ Confined(q)'
    BY DEF IdleEmpty, InPhase, SeenCovered, Confined
  <1>2. PermsWrites(q)' /\ UserWrites(q)' /\ DeleteWrites(q)' /\ CreateWrites(q)'
    BY DEF PermsWrites, UserWrites, DeleteWrites, CreateWrites
  <1>3. KeysChecked(q)' /\ CascadeCovers(q)'
    BY DEF KeysChecked, Inserted, CascadeCovers
  <1> QED
    BY <1>1, <1>2, <1>3 DEF ReqInv

(* What the end of a transaction leaves of it.                               *)
LEMMA Ended ==
  ASSUME TypeOK, NEW q \in Request, End(q)
  PROVE  /\ op'[q].kind = "perms" /\ phase'[q] = "idle" /\ want'[q] = {}
         /\ gone'[q] = {} /\ ~share'[q] /\ drawn' = drawn
         /\ \A x \in Row : w'[q][x] = "none"
         /\ \A p \in Request \ {q} :
              /\ phase'[p] = phase[p] /\ op'[p] = op[p] /\ want'[p] = want[p]
              /\ w'[p] = w[p] /\ gone'[p] = gone[p] /\ share'[p] = share[p]
PROOF
  BY DEF End, TypeOK, NoOp, Unwritten

(* A rollback keeps the invariant.                                           *)
LEMMA StepRollback ==
  ASSUME TypeOK, TypeOK', RoleInv, NEW q \in Request, Rollback(q)
  PROVE  RoleInv'
PROOF
  <1> USE RowShape
  <1>1. /\ db' = db /\ todo'[q] = {} /\ seen'[q] = {}
        /\ \A p \in Request \ {q} : todo'[p] = todo[p] /\ seen'[p] = seen[p]
    BY DEF Rollback, TypeOK
  <1>2. End(q)
    BY DEF Rollback
  <1>3. \A p \in Request \ {q} : Same(p)
    BY <1>1, <1>2, Ended DEF Same
  <1>4. ReqInv(q)'
    BY <1>1, <1>2, Ended, EmptyRequest
  <1> QED
    BY <1>1, <1>2, <1>3, <1>4, Ended, QuietStep

(* A request that arrives, but for the creation of a role.                   *)
LEMMA StepBegin ==
  ASSUME TypeOK, TypeOK', RoleInv, NEW q \in Request, NEW kind \in {"perms", "user", "delete"},
         NEW r \in Role, NEW arg \in User \cup {Nobody}, NEW ph \in {"run", "drop"},
         NEW rows \in SUBSET StoredRows, NEW ins \in SUBSET Row, NEW found \in SUBSET rows,
         Begin(q, kind, r, arg, ph, rows, ins, found),
         UNCHANGED <<db, drawn, w, gone, share>>,
         ph = "drop" <=> kind = "delete",
         kind = "perms" => rows \cup ins \subseteq GrantsOf(r),
         kind = "user" => /\ arg \in User /\ rows \subseteq RolesOf(arg)
                          /\ ins = {UserRow(r, arg)},
         kind = "delete" => rows = {} /\ ins = {}
  PROVE  RoleInv'
PROOF
  <1> USE RowShape
  <1>1. /\ phase[q] = "idle" /\ phase'[q] = ph /\ todo'[q] = rows /\ want'[q] = ins
        /\ seen'[q] = found
        /\ \A p \in Request \ {q} : Same(p)
        /\ db' = db /\ drawn' = drawn /\ w' = w /\ gone' = gone /\ share' = share
    BY DEF Begin, TypeOK, Same
  <1>2. op'[q] = [kind |-> kind, role |-> r, arg |-> arg]
    BY DEF Begin, TypeOK
  <1>3. op'[q].kind = kind /\ op'[q].role = r /\ op'[q].arg = arg
    BY <1>2
  <1>4. (\A x \in Row : w[q][x] = "none") /\ gone[q] = {} /\ ~share[q]
    BY <1>1 DEF RoleInv, IdleEmpty
  <1>5. Confined(q)'
    <2>1. StoredRows' = StoredRows
      BY <1>1 DEF StoredRows
    <2>2. rows \cup ins \subseteq Reach(q)' \ RoleRows
      <3>1. CASE kind = "perms"
        BY <1>3, <3>1 DEF Reach, GrantsOf
      <3>2. CASE kind = "user"
        BY <1>3, <3>2 DEF Reach, RolesOf
      <3>3. CASE kind = "delete"
        BY <3>3
      <3> QED
        BY <3>1, <3>2, <3>3
    <2> QED
      BY <1>1, <1>4, <2>1, <2>2 DEF Confined
  <1>6. IdleEmpty(q)' /\ InPhase(q)' /\ SeenCovered(q)'
    BY <1>1, <1>3, <1>4 DEF IdleEmpty, InPhase, SeenCovered
  <1>7. PermsWrites(q)' /\ UserWrites(q)' /\ DeleteWrites(q)' /\ CreateWrites(q)'
    BY <1>1, <1>3, <1>4 DEF PermsWrites, UserWrites, DeleteWrites, CreateWrites
  <1>8. KeysChecked(q)' /\ CascadeCovers(q)'
    BY <1>1, <1>4 DEF KeysChecked, Inserted, CascadeCovers
  <1>9. ReqInv(q)'
    BY <1>5, <1>6, <1>7, <1>8 DEF ReqInv
  <1> QED
    BY <1>1, <1>4, <1>9, QuietStep

(* A role is created: nobody knows its id.                                   *)
LEMMA StepCreate ==
  ASSUME TypeOK, TypeOK', RoleInv, NEW q \in Request, NEW r \in Role,
         NEW src \in Role \cup {Nobody}, BeginCreate(q, r, src)
  PROVE  RoleInv'
PROOF
  <1> USE RowShape
  <1> DEFINE own == RoleRow(r)
  <1>1. own \in Row /\ own \in RoleRows /\ \A s \in Role : RoleRow(s) = own => s = r
    OBVIOUS
  <1>2. r \notin drawn /\ w' = [w EXCEPT ![q][own] = "on"]
    BY DEF BeginCreate
  <1>3. /\ phase[q] = "idle" /\ phase'[q] = (IF src = Nobody THEN "run" ELSE "copy")
        /\ todo'[q] = {} /\ want'[q] = {} /\ seen'[q] = {}
        /\ op'[q] = [kind |-> "create", role |-> r, arg |-> src]
        /\ db' = db /\ drawn' = drawn \cup {r} /\ gone' = gone /\ share' = share
        /\ \A p \in Request \ {q} : Same(p)
    BY DEF BeginCreate, Begin, TypeOK, Same
  <1>4. op'[q].kind = "create" /\ op'[q].role = r /\ op'[q].arg = src
    BY <1>3
  <1>5. (\A x \in Row : w[q][x] = "none") /\ gone[q] = {} /\ ~share[q]
    BY <1>3 DEF RoleInv, IdleEmpty
  <1>6. db[own] = "absent" /\ \A p \in Request : w[p][own] = "none"
    BY <1>2 DEF RoleInv, DrawnFirst
  <1>7. ~SharedByOther(q, r) /\ ~Locked(q, own)
    BY <1>6 DEF RoleInv, ShareHeld, SharedByOther, Locked
  <1>8. own = RoleRow(r)
    OBVIOUS
  <1> HIDE DEF own
  <1>9. w'[q][own] = "on" /\ \A x \in Row \ {own} : w'[q][x] = "none"
    BY <1>1, <1>2, <1>5 DEF TypeOK
  <1>10. Confined(q)'
    <2>1. Reach(q)' = GrantsOf(r) \cup {own}
      BY <1>4, <1>8 DEF Reach, GrantsOf
    <2> QED
      BY <1>1, <1>3, <1>5, <1>9, <2>1 DEF Confined
  <1>11. IdleEmpty(q)' /\ InPhase(q)' /\ SeenCovered(q)'
    BY <1>3, <1>4 DEF IdleEmpty, InPhase, SeenCovered
  <1>12. PermsWrites(q)' /\ UserWrites(q)' /\ DeleteWrites(q)' /\ CreateWrites(q)'
    BY <1>3, <1>4, <1>5, <1>8, <1>9 DEF PermsWrites, UserWrites, DeleteWrites, CreateWrites
  <1>13. KeysChecked(q)' /\ CascadeCovers(q)'
    BY <1>1, <1>9 DEF KeysChecked, Inserted, CascadeCovers
  <1>14. ReqInv(q)'
    BY <1>10, <1>11, <1>12, <1>13 DEF ReqInv
  <1>15. \A x \in Row : w'[q][x] # "none" => x = own
    BY <1>9
  <1> QED
    BY <1>1, <1>3, <1>5, <1>7, <1>14, <1>15, QuietStep

(* The step of a commit: the rows of q become the stored ones.               *)
LEMMA StepCommit ==
  ASSUME TypeOK, TypeOK', RoleInv, NEW q \in Request, Commit(q)
  PROVE  RoleInv'
PROOF
  <1> USE RowShape
  <1>1. /\ phase[q] = "run" /\ todo[q] = {} /\ want[q] = {} /\ End(q)
        /\ \A x \in Row : db'[x] = IF w[q][x] = "none" THEN db[x] ELSE w[q][x]
        /\ \A p \in Request : todo'[p] = todo[p] \ gone[q]
        /\ seen'[q] = {} /\ \A p \in Request \ {q} : seen'[p] = seen[p] \ gone[q]
    BY DEF Commit, View
  <1>2. \A p \in Request : ReqInv(p) /\ ShareHeld(p)
    BY DEF RoleInv, ReqInv
  <1>3. \A p \in Request \ {q} :
          /\ phase'[p] = phase[p] /\ op'[p] = op[p] /\ want'[p] = want[p]
          /\ w'[p] = w[p] /\ gone'[p] = gone[p] /\ share'[p] = share[p]
    BY <1>1, Ended
  <1>4. /\ drawn' = drawn /\ ~share'[q] /\ \A x \in Row : w'[q][x] = "none"
    BY <1>1, Ended
  <1>5. op[q].role \in Role /\ op[q].kind \in Kind
    BY ReachKinds
  <1>6. ReqInv(q)'
    BY <1>1, Ended, EmptyRequest
  (* What another request has written, q has not.                            *)
  <1>7. \A p \in Request \ {q} : \A x \in Row :
          w[p][x] # "none" => w[q][x] = "none" /\ db'[x] = db[x]
    BY <1>1 DEF RoleInv, LocksSound, Locked
  (* A child that q stores has its role, or q stores that too.               *)
  <1>8. ASSUME NEW x \in GrantRows \cup UserRows, Inserted(q, x)
        PROVE  /\ db'[RoleRow(x[2])] = "on"
               /\ \A p \in Request \ {q} : w[p][RoleRow(x[2])] = "none"
    <2>1. x[2] = op[q].role /\ (share[q] \/ w[q][RoleRow(op[q].role)] = "on")
      BY <1>1, <1>2, <1>8 DEF ReqInv, KeysChecked
    <2>2. CASE share[q]
      BY <1>1, <1>2, <1>5, <2>1, <2>2 DEF ShareHeld
    <2>3. CASE w[q][RoleRow(op[q].role)] = "on"
      BY <1>1, <1>5, <1>7, <2>1, <2>3
    <2> QED
      BY <2>1, <2>2, <2>3
  <1>9. LocksSound'
    BY <1>3, <1>4 DEF RoleInv, LocksSound, Locked
  <1>10. DrawnFirst'
    BY <1>1, <1>3, <1>4 DEF RoleInv, DrawnFirst
  <1>11. NoOrphans'
    <2>1. SUFFICES ASSUME NEW r \in Role, db'[RoleRow(r)] = "absent", NEW x \in Children(r)
                   PROVE  db'[x] = "absent"
      BY DEF NoOrphans
    <2>2. x \in GrantRows \cup UserRows /\ x[2] = r /\ x \in Row
      BY DEF Children
    <2>3. ~Inserted(q, x)
      BY <1>8, <2>1, <2>2
    <2>4. w[q][x] \in {"none", "absent"} \/ (db[x] # "absent" /\ x \notin gone[q])
      BY <2>2, <2>3 DEF Inserted, TypeOK, Value
    <2>5. CASE db[RoleRow(r)] = "absent"
      BY <1>1, <2>2, <2>4, <2>5 DEF RoleInv, NoOrphans
    <2>6. CASE db[RoleRow(r)] # "absent"
      <3>1. w[q][RoleRow(r)] = "absent"
        BY <1>1, <2>1, <2>6
      <3>2. db[x] = "absent" \/ w[q][x] = "absent"
        BY <1>1, <1>2, <3>1 DEF ReqInv, CascadeCovers
      <3> QED
        BY <1>1, <2>2, <2>4, <3>2
    <2> QED
      BY <2>5, <2>6
  <1>12. ASSUME NEW p \in Request \ {q} PROVE ReqInv(p)'
    <2>1. ReqInv(p)
      BY <1>2
    <2>2. IdleEmpty(p)' /\ InPhase(p)' /\ SeenCovered(p)'
      BY <1>1, <1>3, <2>1 DEF ReqInv, IdleEmpty, InPhase, SeenCovered
    <2>3. todo'[p] \subseteq StoredRows'
      <3>1. \A x \in Row : db[x] # "absent" /\ x \notin gone[q] => db'[x] # "absent"
        BY <1>1, <1>2 DEF ReqInv, Confined
      <3>2. todo[p] \subseteq StoredRows
        BY <2>1 DEF ReqInv, Confined
      <3> QED
        BY <1>1, <3>1, <3>2 DEF StoredRows
    <2>4. Confined(p)'
      <3>1. Reach(p)' = Reach(p)
        BY <1>3 DEF Reach
      <3> QED
        BY <1>1, <1>3, <2>1, <2>3, <3>1 DEF ReqInv, Confined
    <2>5. PermsWrites(p)' /\ UserWrites(p)' /\ DeleteWrites(p)' /\ CreateWrites(p)'
      BY <1>1, <1>3, <1>4, <2>1
         DEF ReqInv, PermsWrites, UserWrites, DeleteWrites, CreateWrites
    <2>6. KeysChecked(p)'
      BY <1>3, <1>7, <2>1 DEF ReqInv, KeysChecked, Inserted
    <2>7. CascadeCovers(p)'
      <3>1. SUFFICES ASSUME NEW r \in Role, w[p][RoleRow(r)] = "absent", NEW x \in Children(r)
                     PROVE  db'[x] = "absent" \/ x \in todo'[p] \/ w[p][x] = "absent"
        BY <1>3 DEF CascadeCovers
      <3>2. x \in GrantRows \cup UserRows /\ x[2] = r /\ x \in Row
        BY DEF Children
      <3>3. ~Inserted(q, x)
        BY <1>8, <3>1, <3>2
      <3>4. db[x] = "absent" \/ x \in todo[p] \/ w[p][x] = "absent"
        BY <2>1, <3>1 DEF ReqInv, CascadeCovers
      <3>5. x \in gone[q] => w[q][x] = "absent"
        BY <1>2, <3>2, <3>3 DEF ReqInv, Confined, Inserted, TypeOK, Value
      <3>6. db[x] = "absent" => w[q][x] \in {"none", "absent"}
        BY <3>2, <3>3 DEF Inserted, TypeOK, Value
      <3> QED
        BY <1>1, <3>2, <3>4, <3>5, <3>6
    <2> QED
      BY <2>2, <2>4, <2>5, <2>6, <2>7 DEF ReqInv
  <1>13. ASSUME NEW p \in Request PROVE ShareHeld(p)'
    <2>1. CASE p = q
      BY <1>4, <2>1 DEF ShareHeld
    <2>2. CASE p # q
      <3>1. op[p].role \in Role
        BY ReachKinds
      <3> QED
        BY <1>1, <1>2, <1>3, <1>4, <2>2, <3>1 DEF ShareHeld
    <2> QED
      BY <2>1, <2>2
  <1> QED
    BY <1>6, <1>9, <1>10, <1>11, <1>12, <1>13 DEF RoleInv, ReqInv

(* Every action keeps the invariant.                                         *)
LEMMA RoleStep ==
  ASSUME TypeOK, TypeOK', RoleInv, [Next]_vars
  PROVE  RoleInv'
PROOF
  <1> USE RowShape
  <1>1. ASSUME NEW q \in Request, Arrive(q) PROVE RoleInv'
    <2>1. PICK r \in Role : \/ \E list \in SUBSET Perm : BeginPerms(q, r, list)
                            \/ \E u \in User : BeginUser(q, r, u)
                            \/ BeginDelete(q, r)
                            \/ \E src \in Role \cup {Nobody} : BeginCreate(q, r, src)
      BY <1>1 DEF Arrive
    <2>2. CASE \E list \in SUBSET Perm : BeginPerms(q, r, list)
      <3>1. PICK list \in SUBSET Perm : BeginPerms(q, r, list)
        BY <2>2
      <3>2. /\ GrantsOf(r) \cap StoredRows \in SUBSET StoredRows
            /\ {GrantRow(r, p) : p \in list} \in SUBSET Row
            /\ {GrantRow(r, p) : p \in list} \subseteq GrantsOf(r)
        BY DEF GrantsOf
      <3> QED
        BY <3>1, <3>2, StepBegin DEF BeginPerms
    <2>3. CASE \E u \in User : BeginUser(q, r, u)
      <3>1. PICK u \in User : BeginUser(q, r, u)
        BY <2>3
      <3>2. /\ RolesOf(u) \cap StoredRows \in SUBSET StoredRows
            /\ {UserRow(r, u)} \in SUBSET Row
        OBVIOUS
      <3> QED
        BY <3>1, <3>2, StepBegin DEF BeginUser
    <2>4. CASE BeginDelete(q, r)
      BY <2>4, StepBegin DEF BeginDelete
    <2>5. CASE \E src \in Role \cup {Nobody} : BeginCreate(q, r, src)
      BY <2>5, StepCreate
    <2> QED
      BY <2>1, <2>2, <2>3, <2>4, <2>5
  <1>2. CASE UNCHANGED vars
    <2>1. \A q \in Request : Reach(q)' = Reach(q)
      BY <1>2 DEF vars, Reach
    <2>2. StoredRows' = StoredRows
      BY <1>2 DEF vars, StoredRows
    <2>3. LocksSound' /\ DrawnFirst' /\ NoOrphans'
      BY <1>2 DEF vars, RoleInv, LocksSound, Locked, DrawnFirst, NoOrphans
    <2>4. ASSUME NEW q \in Request
          PROVE  /\ IdleEmpty(q)' /\ Confined(q)' /\ InPhase(q)'
                 /\ PermsWrites(q)' /\ UserWrites(q)' /\ DeleteWrites(q)' /\ CreateWrites(q)'
      BY <1>2, <2>1, <2>2
         DEF vars, RoleInv, IdleEmpty, Confined, InPhase, PermsWrites, UserWrites,
             DeleteWrites, CreateWrites
    <2>5. ASSUME NEW q \in Request
          PROVE  KeysChecked(q)' /\ ShareHeld(q)' /\ CascadeCovers(q)' /\ SeenCovered(q)'
      BY <1>2 DEF vars, RoleInv, KeysChecked, Inserted, ShareHeld, CascadeCovers, SeenCovered
    <2> QED
      BY <2>3, <2>4, <2>5 DEF RoleInv
  <1>3. ASSUME NEW q \in Request, Step(q) PROVE RoleInv'
    <2>1. CASE \E row \in Row : Touch(q, row) \/ Insert(q, row)
      BY <2>1, StepTouch, StepInsert
    <2>2. CASE CheckRole(q) \/ Drop(q) \/ Copy(q) \/ Commit(q)
      BY <2>2, StepCheckRole, StepDrop, StepCopy, StepCommit
    <2>3. CASE RoleMissing(q) \/ DeadlockVictim(q)
      BY <2>3, StepRollback DEF RoleMissing, DeadlockVictim
    <2> QED
      BY <1>3, <2>1, <2>2, <2>3 DEF Step
  <1>4. ASSUME NEW q \in Request, Fails(q) PROVE RoleInv'
    BY <1>4, StepRollback DEF Fails
  <1> QED
    BY <1>1, <1>2, <1>3, <1>4 DEF Next

(* At the start each stored row has its role, and no request is under way.   *)
LEMMA RoleInit == Init => TypeOK /\ RoleInv
PROOF
  <1> SUFFICES ASSUME Init PROVE TypeOK /\ RoleInv
    OBVIOUS
  <1> USE RowShape
  <1>1. TypeOK
    BY NoOpIsOp, RolesAssumption DEF Init, TypeOK, Value, Unwritten
  <1>2. \A q \in Request :
          /\ phase[q] = "idle" /\ op[q].kind = "perms" /\ todo[q] = {} /\ want[q] = {}
          /\ gone[q] = {} /\ seen[q] = {} /\ ~share[q] /\ \A row \in Row : w[q][row] = "none"
    BY DEF Init, NoOp, Unwritten
  <1>3. PICK held \in [User -> First \cup {Nobody}], granted \in SUBSET (First \X Perm) :
          db = [row \in Row |->
                  IF \/ row \in RoleRows /\ row[2] \in First
                     \/ row \in GrantRows /\ <<row[2], row[3]>> \in granted
                     \/ row \in UserRows /\ held[row[3]] = row[2]
                  THEN "on" ELSE "absent"]
    BY DEF Init
  <1>4. \A r \in Role : db[RoleRow(r)] = IF r \in First THEN "on" ELSE "absent"
    BY <1>3
  <1>5. NoOrphans
    <2>1. SUFFICES ASSUME NEW row \in GrantRows \cup UserRows, db[row] # "absent"
                   PROVE  row[2] \in First
      BY <1>4 DEF NoOrphans, Children
    <2>2. CASE row \in GrantRows
      BY <1>3, <2>1, <2>2
    <2>3. CASE row \in UserRows
      <3>1. row[3] \in User /\ row[2] \in Role
        BY <2>3 DEF UserRows, UserRow
      <3>2. held[row[3]] = row[2]
        BY <1>3, <2>1, <2>3
      <3> QED
        BY <3>1, <3>2, RolesAssumption
    <2> QED
      BY <2>1, <2>2, <2>3
  <1>6. LocksSound
    BY <1>2 DEF LocksSound
  <1>7. DrawnFirst
    BY <1>2, <1>4, RolesAssumption DEF DrawnFirst, Init
  <1>8. ASSUME NEW q \in Request
        PROVE  /\ IdleEmpty(q) /\ Confined(q) /\ InPhase(q)
               /\ PermsWrites(q) /\ UserWrites(q) /\ DeleteWrites(q) /\ CreateWrites(q)
               /\ KeysChecked(q) /\ ShareHeld(q) /\ CascadeCovers(q) /\ SeenCovered(q)
    BY <1>2 DEF IdleEmpty, Confined, InPhase, PermsWrites, UserWrites, DeleteWrites,
                CreateWrites, KeysChecked, Inserted, ShareHeld, CascadeCovers, SeenCovered
  <1> QED
    BY <1>1, <1>5, <1>6, <1>7, <1>8 DEF RoleInv

(* The inductive invariant holds in every reachable state.                   *)
THEOREM RoleInvHolds == Spec => []RoleInv
PROOF
  <1>1. Init => TypeOK /\ RoleInv
    BY RoleInit
  <1>2. TypeOK /\ RoleInv /\ [Next]_vars => (TypeOK /\ RoleInv)'
    BY TypeStep, RoleStep
  <1> QED
    BY <1>1, <1>2, PTL DEF Spec

(* No grant and no assignment outlives its role.                             *)
THEOREM NoOrphansHolds == Spec => []NoOrphans
PROOF
  <1>1. RoleInv => NoOrphans
    BY DEF RoleInv
  <1> QED
    BY <1>1, RoleInvHolds, PTL

(* A user with a role keeps one, unless a role the user has is deleted.      *)
THEOREM KeepsARoleHolds == Spec => KeepsARole
PROOF
  <1> DEFINE A == \A u \in User : Active(u) # {} =>
                     \/ Active(u)' # {}
                     \/ \E r \in Active(u) : db'[RoleRow(r)] = "absent"
  <1>1. ASSUME TypeOK, RoleInv, [Next]_vars PROVE [A]_vars
    <2> USE <1>1, RowShape
    <2>1. CASE db' = db
      BY <2>1 DEF Active
    <2>2. ASSUME NEW q \in Request, Commit(q) PROVE A
      <3>1. SUFFICES ASSUME NEW u \in User, NEW r \in Active(u)
                     PROVE  \/ \E s \in Role : db'[UserRow(s, u)] = "on"
                            \/ db'[RoleRow(r)] = "absent"
        BY DEF Active
      <3>2. r \in Role /\ db[UserRow(r, u)] = "on" /\ op[q].role \in Role /\ op[q].kind \in Kind
        BY ReachKinds DEF Active
      <3>3. /\ Confined(q) /\ IdleEmpty(q) /\ UserWrites(q) /\ DeleteWrites(q) /\ CreateWrites(q)
            /\ phase[q] = "run" /\ want[q] = {}
            /\ \A x \in Row : db'[x] = IF w[q][x] = "none" THEN db[x] ELSE w[q][x]
        BY <2>2 DEF RoleInv, Commit, View
      <3>4. CASE w[q][UserRow(r, u)] = "none"
        BY <3>2, <3>3, <3>4
      <3>5. CASE w[q][UserRow(r, u)] # "none" /\ op[q].kind = "user"
        <4>1. u = op[q].arg
          BY <3>2, <3>3, <3>5, ReachKinds DEF Confined, RolesOf
        <4>2. w[q][UserRow(op[q].role, u)] = "on"
          BY <3>3, <3>5, <4>1 DEF UserWrites
        <4> QED
          BY <3>2, <3>3, <4>2
      <3>6. CASE w[q][UserRow(r, u)] # "none" /\ op[q].kind = "delete"
        <4>1. r = op[q].role
          BY <3>2, <3>3, <3>6, ReachKinds DEF Confined, Children
        <4> QED
          BY <3>2, <3>3, <3>6, <4>1 DEF DeleteWrites
      <3>7. CASE w[q][UserRow(r, u)] # "none" /\ op[q].kind \in {"perms", "create"}
        BY <3>2, <3>3, <3>7, ReachKinds DEF Confined, GrantsOf
      <3> QED
        BY <3>2, <3>4, <3>5, <3>6, <3>7 DEF Kind
    <2> QED
      BY <1>1, <2>1, <2>2
         DEF Next, Arrive, BeginPerms, BeginUser, BeginDelete, BeginCreate, Step, Touch,
             Insert, CheckRole, Drop, Copy, RoleMissing, DeadlockVictim, Fails, Rollback, vars
  <1>2. KeepsARole <=> [][A]_vars
    BY PTL DEF KeepsARole
  <1> HIDE DEF A
  <1> QED
    BY <1>1, <1>2, TypeCorrect, RoleInvHolds, PTL DEF Spec

(* What a request that replaced a role's grants found is gone when it is     *)
(* answered, but for what it asked for.                                      *)
THEOREM RevokedGoneHolds == Spec => RevokedGone
PROOF
  <1> DEFINE A == \A q \in Request : Commit(q) /\ op[q].kind = "perms" =>
                     \A row \in seen[q] : db'[row] = "on" => w[q][row] = "on"
  <1>1. ASSUME TypeOK, RoleInv PROVE A
    BY <1>1 DEF RoleInv, SeenCovered, Commit, View, TypeOK
  <1>2. RevokedGone <=> [][A]_vars
    BY PTL DEF RevokedGone
  <1> HIDE DEF A
  <1> QED
    BY <1>1, <1>2, TypeCorrect, RoleInvHolds, PTL DEF Spec

(***************************************************************************)
(* One active role, when no two requests replace a user's role at a time.  *)
(***************************************************************************)
(* A request that replaces the role of a user.                               *)
Replacing(q) == Open(q) /\ op[q].kind = "user"
ReplacesApart ==
  \A p, q \in Request : Replacing(p) /\ Replacing(q) /\ op[p].arg = op[q].arg => p = q

(* It switches on nothing but the role it gives, and every active row of the *)
(* user is ahead of its UPDATE or written by it.                             *)
ReplaceSound(q) == Replacing(q) =>
  /\ \A row \in Row : w[q][row] = "on" => row = UserRow(op[q].role, op[q].arg)
  /\ \A row \in RolesOf(op[q].arg) : db[row] = "on" => row \in todo[q] \/ w[q][row] # "none"

SingleInv == SingleActiveRole /\ \A q \in Request : ReplaceSound(q)

(* A step that commits nothing and leaves the other requests alone.          *)
LEMMA SingleQuiet ==
  ASSUME SingleInv, NEW q \in Request, db' = db, \A p \in Request \ {q} : Same(p),
         ReplaceSound(q)'
  PROVE  SingleInv'
PROOF
  <1>1. ASSUME NEW p \in Request \ {q} PROVE ReplaceSound(p)'
    BY <1>1 DEF SingleInv, ReplaceSound, Replacing, Open, Same, RolesOf
  <1> QED
    BY <1>1 DEF SingleInv, SingleActiveRole, Active

(* The steps that commit nothing, request by request.                        *)
LEMMA SingleStep ==
  ASSUME TypeOK, TypeOK', RoleInv, SingleInv, [Next]_vars,
         ~(\E q \in Request : Commit(q))
  PROVE  SingleInv'
PROOF
  <1> USE RowShape
  <1>1. CASE UNCHANGED vars
    BY <1>1 DEF vars, SingleInv, SingleActiveRole, Active, ReplaceSound, Replacing, Open, RolesOf
  <1>2. ASSUME NEW q \in Request, Arrive(q) PROVE SingleInv'
    <2>1. /\ db' = db /\ \A p \in Request \ {q} : Same(p)
          /\ phase[q] = "idle" /\ \A row \in Row : w[q][row] = "none"
      BY <1>2 DEF Arrive, BeginPerms, BeginUser, BeginDelete, BeginCreate, Begin, Same, TypeOK,
                  RoleInv, IdleEmpty
    <2>2. ASSUME NEW r \in Role, NEW u \in User, BeginUser(q, r, u) PROVE ReplaceSound(q)'
      <3>1. /\ op'[q].role = r /\ op'[q].arg = u /\ w' = w
            /\ todo'[q] = RolesOf(u) \cap StoredRows
        BY <2>2 DEF BeginUser, Begin, TypeOK
      <3> QED
        BY <2>1, <3>1 DEF ReplaceSound, RolesOf, StoredRows
    <2>3. (\E r \in Role, u \in User : BeginUser(q, r, u)) \/ op'[q].kind # "user"
      BY <1>2 DEF Arrive, BeginPerms, BeginDelete, BeginCreate, Begin, TypeOK
    <2> QED
      BY <2>1, <2>2, <2>3, SingleQuiet DEF ReplaceSound, Replacing
  <1>3. ASSUME NEW q \in Request, NEW row \in Row, Touch(q, row) PROVE SingleInv'
    <2>1. db' = db /\ \A p \in Request \ {q} : Same(p)
      BY <1>3 DEF Touch, Same, TypeOK
    <2>2. ASSUME Replacing(q)
          PROVE  /\ op' = op /\ todo'[q] = todo[q] \ {row} /\ w'[q][row] = "off"
                 /\ \A x \in Row \ {row} : w'[q][x] = w[q][x]
      BY <1>3, <2>2 DEF Touch, TypeOK, Replacing
    <2>3. ReplaceSound(q) /\ (Replacing(q)' <=> Replacing(q))
      BY <1>3 DEF SingleInv, Touch, Replacing, Open
    <2>4. ReplaceSound(q)'
      BY <2>1, <2>2, <2>3 DEF ReplaceSound, RolesOf
    <2> QED
      BY <2>1, <2>4, SingleQuiet
  <1>4. ASSUME NEW q \in Request, NEW row \in Row, Insert(q, row) PROVE SingleInv'
    <2>1. db' = db /\ \A p \in Request \ {q} : Same(p)
      BY <1>4 DEF Insert, Same, TypeOK
    <2>2. ASSUME Replacing(q)
          PROVE  /\ op' = op /\ todo' = todo /\ w'[q][row] = "on"
                 /\ row = UserRow(op[q].role, op[q].arg)
                 /\ \A x \in Row \ {row} : w'[q][x] = w[q][x]
      BY <1>4, <2>2 DEF Insert, TypeOK, Replacing, RoleInv, UserWrites
    <2>3. ReplaceSound(q) /\ (Replacing(q)' => Replacing(q))
      BY <1>4 DEF SingleInv, Insert, Replacing, Open, TypeOK
    <2>4. ReplaceSound(q)'
      BY <2>1, <2>2, <2>3 DEF ReplaceSound, RolesOf
    <2> QED
      BY <2>1, <2>4, SingleQuiet
  <1>5. ASSUME NEW q \in Request, CheckRole(q) PROVE SingleInv'
    <2>1. db' = db /\ \A p \in Request \ {q} : Same(p)
      BY <1>5 DEF CheckRole, Same, TypeOK
    <2>2. ReplaceSound(q)'
      BY <1>5 DEF CheckRole, SingleInv, ReplaceSound, Replacing, Open, RolesOf, TypeOK
    <2> QED
      BY <2>1, <2>2, SingleQuiet
  <1>6. ASSUME NEW q \in Request, Drop(q) \/ Copy(q) PROVE SingleInv'
    <2>1. db' = db /\ \A p \in Request \ {q} : Same(p)
      BY <1>6 DEF Drop, Copy, Same, TypeOK
    <2>2. op' = op /\ op[q].kind # "user"
      BY <1>6 DEF Drop, Copy, RoleInv, InPhase
    <2> QED
      BY <2>1, <2>2, SingleQuiet DEF ReplaceSound, Replacing
  <1>7. ASSUME NEW q \in Request, Rollback(q) PROVE SingleInv'
    <2>1. db' = db /\ phase'[q] = "idle" /\ \A p \in Request \ {q} : Same(p)
      BY <1>7 DEF Rollback, End, Same, TypeOK
    <2> QED
      BY <2>1, SingleQuiet DEF ReplaceSound, Replacing, Open
  <1> QED
    BY <1>1, <1>2, <1>3, <1>4, <1>5, <1>6, <1>7
       DEF Next, Step, RoleMissing, DeadlockVictim, Fails

(* What a commit makes of the rows of a user whose role it does not replace. *)
LEMMA OtherUsers ==
  ASSUME TypeOK, RoleInv, NEW q \in Request, Commit(q), NEW u \in User,
         op[q].kind = "user" => op[q].arg # u,
         NEW row \in RolesOf(u), db'[row] = "on"
  PROVE  db[row] = "on" /\ row \notin gone[q]
PROOF
  <1> USE RowShape
  <1>1. /\ Confined(q) /\ DeleteWrites(q) /\ op[q].kind \in Kind /\ row \in Row
        /\ row \in UserRows /\ row[3] = u
        /\ \A x \in Row : db'[x] = IF w[q][x] = "none" THEN db[x] ELSE w[q][x]
    BY ReachKinds DEF RoleInv, Commit, View, RolesOf
  <1>2. CASE op[q].kind = "delete"
    BY <1>1, <1>2 DEF DeleteWrites, Confined
  <1>3. CASE op[q].kind # "delete"
    <2>1. row \notin Reach(q)
      BY <1>1, <1>3, ReachKinds DEF Kind, GrantsOf, RolesOf
    <2> QED
      BY <1>1, <2>1 DEF Confined
  <1> QED
    BY <1>2, <1>3

(* A commit that replaces the role of a user leaves the one it gives.        *)
LEMMA OnlyTheNew ==
  ASSUME TypeOK, RoleInv, SingleInv, NEW q \in Request, Commit(q), op[q].kind = "user",
         NEW row \in RolesOf(op[q].arg), db'[row] = "on"
  PROVE  row = UserRow(op[q].role, op[q].arg)
PROOF
  <1> USE RowShape
  <1>1. /\ Replacing(q) /\ ReplaceSound(q) /\ todo[q] = {} /\ row \in Row
        /\ \A x \in Row : db'[x] = IF w[q][x] = "none" THEN db[x] ELSE w[q][x]
    BY DEF SingleInv, Commit, View, Replacing, Open, RolesOf
  <1> QED
    BY <1>1 DEF ReplaceSound

(* A commit, while no other request replaces a role of the same user.        *)
LEMMA SingleCommit ==
  ASSUME TypeOK, TypeOK', RoleInv, SingleInv, ReplacesApart, NEW q \in Request, Commit(q)
  PROVE  SingleInv'
PROOF
  <1> USE RowShape
  <1>1. /\ phase'[q] = "idle"
        /\ \A p \in Request \ {q} :
             /\ phase'[p] = phase[p] /\ op'[p] = op[p] /\ w'[p] = w[p]
             /\ todo'[p] = todo[p] \ gone[q]
    BY DEF Commit, End, TypeOK
  <1>2. SingleActiveRole'
    <2> SUFFICES ASSUME NEW u \in User, NEW r \in Role, NEW s \in Role,
                        db'[UserRow(r, u)] = "on", db'[UserRow(s, u)] = "on"
                 PROVE  r = s
      BY DEF SingleActiveRole, Active
    <2>1. UserRow(r, u) \in RolesOf(u) /\ UserRow(s, u) \in RolesOf(u)
      BY DEF RolesOf
    <2>2. CASE op[q].kind = "user" /\ op[q].arg = u
      BY <2>1, <2>2, OnlyTheNew, ReachKinds DEF UserRow
    <2>3. CASE ~(op[q].kind = "user" /\ op[q].arg = u)
      BY <2>1, <2>3, OtherUsers DEF SingleInv, SingleActiveRole, Active
    <2> QED
      BY <2>2, <2>3
  <1>3. ReplaceSound(q)'
    BY <1>1 DEF ReplaceSound, Replacing, Open
  <1>4. ASSUME NEW p \in Request \ {q} PROVE ReplaceSound(p)'
    <2> SUFFICES ASSUME Replacing(p)
                 PROVE  ReplaceSound(p)'
      BY <1>1 DEF ReplaceSound, Replacing, Open
    <2>1. /\ ReplaceSound(p) /\ op[p].arg \in User
          /\ op[q].kind = "user" => op[q].arg # op[p].arg
      <3>1. Open(q) /\ UserWrites(p) /\ ReplaceSound(p)
        BY DEF Commit, Open, RoleInv, SingleInv
      <3> QED
        BY <3>1 DEF ReplacesApart, Replacing, UserWrites
    <2>2. ASSUME NEW row \in RolesOf(op[p].arg), db'[row] = "on"
          PROVE  row \in todo'[p] \/ w'[p][row] # "none"
      BY <1>1, <2>1, <2>2, OtherUsers DEF ReplaceSound
    <2> QED
      BY <1>1, <2>1, <2>2 DEF ReplaceSound, RolesOf
  <1> QED
    BY <1>2, <1>3, <1>4 DEF SingleInv

(* Every user starts with at most one role.                                  *)
LEMMA SingleStart == Init => SingleInv
PROOF
  <1> USE RowShape
  <1> SUFFICES ASSUME Init PROVE SingleInv
    OBVIOUS
  <1>1. \A q \in Request : ReplaceSound(q)
    BY DEF Init, ReplaceSound, Replacing, Open
  <1>2. PICK held \in [User -> First \cup {Nobody}], granted \in SUBSET (First \X Perm) :
          db = [row \in Row |->
                  IF \/ row \in RoleRows /\ row[2] \in First
                     \/ row \in GrantRows /\ <<row[2], row[3]>> \in granted
                     \/ row \in UserRows /\ held[row[3]] = row[2]
                  THEN "on" ELSE "absent"]
    BY DEF Init
  <1>3. ASSUME NEW r \in Role, NEW u \in User, db[UserRow(r, u)] = "on" PROVE held[u] = r
    <2>1. UserRow(r, u) \in UserRows /\ UserRow(r, u)[3] = u /\ UserRow(r, u)[2] = r
      OBVIOUS
    <2> HIDE DEF UserRow
    <2> QED
      BY <1>2, <1>3, <2>1
  <1> QED
    BY <1>1, <1>3 DEF SingleInv, SingleActiveRole, Active

(* A user has at most one active role ("single active role",                 *)
(* repository.go:253, 399) as long as no two requests replace the role of    *)
(* the same user at a time: their overlap is the only way to two, whatever   *)
(* deletes of roles and failures run beside them.                            *)
THEOREM SingleActiveRoleWhenApart == Spec /\ []ReplacesApart => []SingleActiveRole
PROOF
  <1>1. TypeOK /\ TypeOK' /\ RoleInv /\ ReplacesApart /\ SingleInv /\ [Next]_vars => SingleInv'
    BY SingleStep, SingleCommit
  <1>2. SingleInv => SingleActiveRole
    BY DEF SingleInv
  <1> QED
    BY <1>1, <1>2, SingleStart, TypeCorrect, RoleInvHolds, PTL DEF Spec

=============================================================================
