---------------------------- MODULE AccessProofs -----------------------------
(* Theorems about who may do what, for any values of the constants: what each  *)
(* access check of a request reads, what changes it meanwhile, and whom it lets *)
(* through.                                                                   *)
EXTENDS ScopedPermissions, IamGovernance, AccountAccess, RateLimiter, EmployeeDesk,
        FiniteSetTheorems, TLAPS

-----------------------------------------------------------------------------
(* ScopedPermissions *)

(***************************************************************************)
(* The materialized view                                                   *)
(***************************************************************************)

(* What a view of version v shows: the rows, unless one of them has changed   *)
(* since, which asked for a refresh or else is remembered.                    *)
ViewShows(view, v) == noted <= v /\ drift <= v => view = ViewRows

VersionTypes ==
  /\ MaxPermWrites \in Nat
  /\ permWrites \in 0 .. MaxPermWrites
  /\ noted \in 0 .. permWrites /\ drift \in 0 .. permWrites
  /\ newest \in 0 .. permWrites /\ viewAt \in 0 .. newest
  /\ roleRows \subseteq Scopes
  /\ directRows \subseteq DirectRow
  /\ permissions \subseteq Scopes
  /\ refresh \in [1 .. MaxPermWrites -> Refresh]
  /\ \A n \in 1 .. MaxPermWrites : refresh[n].at <= permWrites

(* The refresh that the last announced write asked for is to come, has read,  *)
(* has been installed, or was lost or given up.                               *)
LastNoted ==
  \/ noted \in 1 .. MaxPermWrites /\ refresh[noted].phase = "due"
  \/ noted \in 1 .. MaxPermWrites /\ refresh[noted].phase = "reading" /\ refresh[noted].at >= noted
  \/ newest >= noted
  \/ drift >= noted
  \/ ViewClash

ViewInv ==
  /\ VersionTypes
  /\ ViewShows(permView, viewAt)
  /\ \A n \in 1 .. MaxPermWrites :
       refresh[n].phase = "reading" => ViewShows(refresh[n].view, refresh[n].at)
  /\ LastNoted

(* The invariant is what the property needs.                                 *)
LEMMA ViewInvShown == ViewInv => ShownIsWhatRowsGive
<1> SUFFICES ASSUME ViewInv, RefreshesIdle, drift <= viewAt, newest <= viewAt, ~ViewClash
             PROVE  permView = ViewRows
  BY DEF ShownIsWhatRowsGive, EffectivePermissionsNew
<1>1. \A n \in 1 .. MaxPermWrites : refresh[n].phase = "none"
  BY DEF ViewInv, VersionTypes, RefreshesIdle
<1>2. noted <= viewAt
  BY <1>1 DEF ViewInv, VersionTypes, LastNoted
<1> QED
  BY <1>2 DEF ViewInv, ViewShows

(* A step that changes neither rows nor versions.                            *)
LEMMA ViewRowsFrame ==
  ASSUME UNCHANGED <<directRows, roleRows, roleMember>>
  PROVE  UNCHANGED <<RoleViewRows, DirectViewRows, ViewRows, ViewClash>>
BY DEF RoleViewRows, DirectViewRows, ViewRows, ViewClash, InForce

LEMMA ViewFrame ==
  ASSUME ViewInv, UNCHANGED <<directRows, roleRows, roleMember, permissions, versionVars>>,
         permWrites' \in permWrites .. MaxPermWrites
  PROVE  ViewInv'
<1>1. UNCHANGED <<ViewRows, ViewClash>>
  BY ViewRowsFrame
<1>2. /\ permWrites \in Nat /\ MaxPermWrites \in Nat /\ refresh \in [1 .. MaxPermWrites -> Refresh]
      /\ permWrites' \in Nat /\ permWrites <= permWrites' /\ permWrites' <= MaxPermWrites
      /\ noted \in Nat /\ drift \in Nat /\ newest \in Nat /\ viewAt \in Nat
      /\ \A n \in 1 .. MaxPermWrites : refresh[n].at \in Nat /\ refresh[n].at <= permWrites
  BY DEF ViewInv, VersionTypes, Refresh
<1>3. VersionTypes'
  BY <1>2 DEF ViewInv, VersionTypes, versionVars
<1> QED
  BY <1>1, <1>2, <1>3 DEF ViewInv, ViewShows, LastNoted, versionVars

(* A write that is announced: older versions no longer show the rows.        *)
LEMMA ViewDue ==
  ASSUME ViewInv, Writing, RefreshDue, roleRows' \subseteq Scopes, permissions' \subseteq Scopes,
         directRows' \subseteq DirectRow
  PROVE  ViewInv'
<1>1. /\ permWrites \in Nat /\ MaxPermWrites \in Nat
      /\ permWrites' = permWrites + 1 /\ permWrites' \in 1 .. MaxPermWrites
      /\ refresh \in [1 .. MaxPermWrites -> Refresh]
      /\ viewAt \in Nat /\ newest \in Nat /\ drift \in Nat
      /\ viewAt <= newest /\ newest <= permWrites /\ drift <= permWrites
      /\ \A n \in 1 .. MaxPermWrites : refresh[n].at <= permWrites /\ refresh[n].at \in Nat
  BY DEF ViewInv, VersionTypes, Writing, Refresh
<1>2. /\ refresh' = [refresh EXCEPT ![permWrites'] = [NoRefresh EXCEPT !.phase = "due"]]
      /\ noted' = permWrites' /\ UNCHANGED <<permView, viewAt, newest, drift>>
  BY DEF RefreshDue
<1>3. [NoRefresh EXCEPT !.phase = "due"] \in Refresh /\ [NoRefresh EXCEPT !.phase = "due"].at = 0
      /\ [NoRefresh EXCEPT !.phase = "due"].phase = "due"
  BY <1>1 DEF NoRefresh, Refresh
<1>4. VersionTypes'
  BY <1>1, <1>2, <1>3 DEF VersionTypes
<1>5. ViewShows(permView, viewAt)'
  BY <1>1, <1>2 DEF ViewShows
<1>6. \A n \in 1 .. MaxPermWrites :
        refresh'[n].phase = "reading" => ViewShows(refresh[n].view, refresh[n].at)'
  <2> SUFFICES ASSUME NEW n \in 1 .. MaxPermWrites, refresh'[n].phase = "reading"
               PROVE  ViewShows(refresh[n].view, refresh[n].at)'
    OBVIOUS
  <2>1. refresh'[n] = refresh[n]
    BY <1>1, <1>2, <1>3
  <2>2. ~(noted' <= refresh'[n].at)
    BY <1>1, <1>2, <2>1
  <2> QED
    BY <2>2 DEF ViewShows
<1>7. LastNoted'
  BY <1>1, <1>2, <1>3 DEF LastNoted
<1> QED
  BY <1>4, <1>5, <1>6, <1>7 DEF ViewInv, VersionTypes

(* A change that is not announced, or a refresh that is lost.                *)
LEMMA ViewDrifts ==
  ASSUME ViewInv, Writing, drift' = permWrites', UNCHANGED <<permView, viewAt, newest, noted>>,
         roleRows' \subseteq Scopes, permissions' \subseteq Scopes,
         directRows' \subseteq DirectRow,
         NEW n \in 1 .. MaxPermWrites,
         refresh' = refresh \/ refresh' = [refresh EXCEPT ![n] = NoRefresh]
  PROVE  ViewInv'
<1>1. /\ permWrites \in Nat /\ MaxPermWrites \in Nat
      /\ permWrites' = permWrites + 1 /\ permWrites' \in 1 .. MaxPermWrites
      /\ refresh \in [1 .. MaxPermWrites -> Refresh]
      /\ viewAt \in Nat /\ newest \in Nat /\ noted \in Nat
      /\ viewAt <= newest /\ newest <= permWrites /\ noted <= permWrites
      /\ \A k \in 1 .. MaxPermWrites : refresh[k].at <= permWrites /\ refresh[k].at \in Nat
  BY DEF ViewInv, VersionTypes, Writing, Refresh
<1>2. NoRefresh \in Refresh /\ NoRefresh.at = 0
  BY <1>1 DEF NoRefresh, Refresh
<1>3. /\ refresh' \in [1 .. MaxPermWrites -> Refresh]
      /\ \A k \in 1 .. MaxPermWrites : refresh'[k].at <= permWrites /\ refresh'[k].at \in Nat
  BY <1>1, <1>2
<1>4. VersionTypes'
  BY <1>1, <1>3 DEF VersionTypes
<1>5. ViewShows(permView, viewAt)'
  BY <1>1 DEF ViewShows
<1>6. \A k \in 1 .. MaxPermWrites : ViewShows(refresh[k].view, refresh[k].at)'
  BY <1>1, <1>3 DEF ViewShows
<1>7. LastNoted'
  BY <1>1 DEF LastNoted
<1> QED
  BY <1>4, <1>5, <1>6, <1>7 DEF ViewInv, VersionTypes

(* A refresh reads: what it has read are the rows.                           *)
LEMMA ViewRead ==
  ASSUME ViewInv, NEW n \in DOMAIN refresh, BeginRefresh(n)
  PROVE  ViewInv'
<1>1. /\ permWrites \in 0 .. MaxPermWrites /\ MaxPermWrites \in Nat /\ n \in 1 .. MaxPermWrites
      /\ refresh \in [1 .. MaxPermWrites -> Refresh]
      /\ UNCHANGED <<permWrites, permView, viewAt, newest, noted, drift, directRows, roleRows,
                     roleMember, permissions>>
      /\ noted \in Nat /\ noted <= permWrites
  BY DEF ViewInv, VersionTypes, BeginRefresh, rowVars
<1>2. UNCHANGED <<ViewRows, ViewClash>>
  BY <1>1, ViewRowsFrame
<1>3. PICK r \in Refresh : /\ refresh' = [refresh EXCEPT ![n] = r] /\ r.at <= permWrites
                           /\ r.phase = "reading" => r.view = ViewRows /\ r.at = permWrites
                           /\ r.phase = "reading" \/ ViewClash
  <2>1. ViewRows \subseteq Scopes
    BY DEF ViewInv, VersionTypes, ViewRows, RoleViewRows, DirectViewRows, InForce, DirectRow
  <2>2. NoRefresh \in Refresh /\ NoRefresh.at = 0 /\ NoRefresh.phase = "none"
    BY <1>1 DEF NoRefresh, Refresh
  <2>3. [phase |-> "reading", at |-> permWrites, view |-> ViewRows] \in Refresh
    BY <1>1, <2>1 DEF Refresh
  <2>4. refresh' = [refresh EXCEPT ![n] = IF ViewClash THEN NoRefresh ELSE
                      [phase |-> "reading", at |-> permWrites, view |-> ViewRows]]
    BY DEF BeginRefresh
  <2>5. CASE ViewClash
    <3>1. 0 <= permWrites /\ NoRefresh.phase # "reading"
      BY <1>1, <2>2
    <3>2. refresh' = [refresh EXCEPT ![n] = NoRefresh] /\ NoRefresh \in Refresh /\ NoRefresh.at = 0
      BY <2>2, <2>4, <2>5
    <3> QED
      BY <2>5, <3>1, <3>2
  <2>6. CASE ~ViewClash
    <3> DEFINE r == [phase |-> "reading", at |-> permWrites, view |-> ViewRows]
    <3>1. r.at = permWrites /\ r.phase = "reading" /\ r.view = ViewRows /\ permWrites <= permWrites
      BY <1>1
    <3>2. refresh' = [refresh EXCEPT ![n] = r] /\ r \in Refresh
      BY <2>3, <2>4, <2>6
    <3> QED
      BY <3>1, <3>2
  <2> QED
    BY <2>5, <2>6
<1>4. VersionTypes'
  BY <1>1, <1>3 DEF ViewInv, VersionTypes
<1>5. ViewShows(permView, viewAt)'
  BY <1>1, <1>2 DEF ViewInv, ViewShows
<1>6. \A k \in 1 .. MaxPermWrites :
        refresh'[k].phase = "reading" => ViewShows(refresh[k].view, refresh[k].at)'
  BY <1>1, <1>2, <1>3 DEF ViewInv, ViewShows
<1>7. LastNoted'
  <2>1. CASE noted = n
    BY <1>1, <1>2, <1>3, <2>1 DEF LastNoted
  <2>2. CASE noted # n
    BY <1>1, <1>2, <1>3, <2>2 DEF ViewInv, LastNoted
  <2> QED
    BY <2>1, <2>2
<1> QED
  BY <1>1, <1>4, <1>5, <1>6, <1>7 DEF ViewInv

(* A refresh installs what it has read, newer or older than what was shown.  *)
LEMMA ViewInstalled ==
  ASSUME ViewInv, NEW n \in DOMAIN refresh, EndRefresh(n)
  PROVE  ViewInv'
<1>1. /\ permWrites \in Nat /\ MaxPermWrites \in Nat /\ n \in 1 .. MaxPermWrites
      /\ refresh \in [1 .. MaxPermWrites -> Refresh] /\ refresh[n].phase = "reading"
      /\ UNCHANGED <<permWrites, noted, drift, directRows, roleRows, roleMember, permissions>>
      /\ refresh' = [refresh EXCEPT ![n] = NoRefresh]
      /\ permView' = refresh[n].view /\ viewAt' = refresh[n].at
      /\ newest' = IF newest < refresh[n].at THEN refresh[n].at ELSE newest
      /\ noted \in Nat /\ newest \in Nat /\ newest <= permWrites
      /\ refresh[n].at <= permWrites
  BY DEF ViewInv, VersionTypes, EndRefresh, rowVars
<1>2. UNCHANGED <<ViewRows, ViewClash>>
  BY <1>1, ViewRowsFrame
<1>3. /\ refresh[n].at \in Nat /\ NoRefresh \in Refresh /\ NoRefresh.at = 0
      /\ NoRefresh.phase = "none"
  BY <1>1 DEF NoRefresh, Refresh
<1>4. VersionTypes'
  BY <1>1, <1>3 DEF ViewInv, VersionTypes
<1>5. ViewShows(permView, viewAt)'
  BY <1>1, <1>2 DEF ViewInv, ViewShows
<1>6. \A k \in 1 .. MaxPermWrites :
        refresh'[k].phase = "reading" => ViewShows(refresh[k].view, refresh[k].at)'
  BY <1>1, <1>2, <1>3 DEF ViewInv, ViewShows
<1>7. LastNoted'
  <2>1. CASE noted = n
    BY <1>1, <1>2, <1>3, <2>1 DEF ViewInv, LastNoted
  <2>2. CASE noted # n
    BY <1>1, <1>2, <1>3, <2>2 DEF ViewInv, LastNoted
  <2> QED
    BY <2>1, <2>2
<1> QED
  BY <1>1, <1>4, <1>5, <1>6, <1>7 DEF ViewInv

(* Every step keeps the invariant of the view.                               *)
LEMMA ViewStep == ViewInv /\ [ScopedNext]_scopedVars => ViewInv'
<1> SUFFICES ASSUME ViewInv, [ScopedNext]_scopedVars PROVE ViewInv'
  OBVIOUS
<1>0. /\ MaxPermWrites \in Nat /\ permWrites \in 0 .. MaxPermWrites /\ permissions \subseteq Scopes
      /\ roleRows \subseteq Scopes /\ directRows \subseteq DirectRow
      /\ DOMAIN refresh = 1 .. MaxPermWrites
  BY DEF ViewInv, VersionTypes
<1>1. CASE CheckStep
  <2>1. UNCHANGED <<rowVars, versionVars, permWrites>>
    BY <1>1 DEF CheckStep, AskCheck, ReadResourceGrants, ReadUser, ReadUserPermissions, ReadRoles,
       ReadRolePermissions, ReadPolicies, EndCheck
  <2>2. permWrites' \in permWrites .. MaxPermWrites
    BY <1>0, <2>1
  <2> QED
    BY <2>1, <2>2, ViewFrame DEF rowVars
<1>2. CASE CreatePermission \/ GrantUserPermission \/ RevokeUserPermission
           \/ AssignRolePermissionsNew \/ CreateEnhancedABACPolicy \/ UpdateEnhancedABACPolicy
           \/ DeleteEnhancedABACPolicy
  <2>1. Writing /\ RefreshDue
    BY <1>2 DEF CreatePermission, GrantUserPermission, RevokeUserPermission,
       AssignRolePermissionsNew, CreateEnhancedABACPolicy, UpdateEnhancedABACPolicy,
       DeleteEnhancedABACPolicy
  <2>2. roleRows' \subseteq Scopes /\ permissions' \subseteq Scopes
    BY <1>0, <1>2 DEF CreatePermission, GrantUserPermission, RevokeUserPermission,
       AssignRolePermissionsNew, CreateEnhancedABACPolicy, UpdateEnhancedABACPolicy,
       DeleteEnhancedABACPolicy, NewScopes, RolePermissionIDs
  <2>3. directRows' \subseteq DirectRow
    BY <1>0, <1>2 DEF CreatePermission, GrantUserPermission, RevokeUserPermission,
       AssignRolePermissionsNew, CreateEnhancedABACPolicy, UpdateEnhancedABACPolicy,
       DeleteEnhancedABACPolicy, GrantBody, DirectAfterGrant, DirectAfterRevoke
  <2> QED
    BY <2>1, <2>2, <2>3, ViewDue
<1>3. CASE \/ CreateResourceGrant \/ RevokeResourceGrant
           \/ ChangeUser /\ UNCHANGED roleMember /\ NoRefreshDue
  <2>1. /\ permWrites' \in permWrites .. MaxPermWrites
        /\ UNCHANGED <<directRows, roleRows, permissions>>
    BY <1>0, <1>3 DEF CreateResourceGrant, RevokeResourceGrant, ChangeUser, Writing
  <2>2. UNCHANGED versionVars /\ UNCHANGED roleMember
    BY <1>3 DEF CreateResourceGrant, RevokeResourceGrant, ChangeUser, NoRefreshDue
  <2> QED
    BY <2>1, <2>2, ViewFrame
<1>4. CASE \/ ChangeUser /\ Unannounced
           \/ RevokeRolePermissionsBulk \/ RowExpires \/ RowStarts
  <2>1. Writing /\ Unannounced
    BY <1>4 DEF ChangeUser, RevokeRolePermissionsBulk, RowExpires, RowStarts
  <2>2. /\ roleRows' \subseteq Scopes /\ permissions' \subseteq Scopes
        /\ directRows' \subseteq DirectRow
    <3>1. CASE ChangeUser
      BY <1>0, <3>1 DEF ChangeUser
    <3>2. CASE RevokeRolePermissionsBulk
      BY <1>0, <3>2 DEF RevokeRolePermissionsBulk
    <3>3. CASE RowExpires
      BY <1>0, <3>3 DEF RowExpires
    <3>4. CASE RowStarts
      BY <1>0, <3>4 DEF RowStarts, DirectRow
    <3> QED
      BY <1>4, <3>1, <3>2, <3>3, <3>4
  <2>3. 1 \in 1 .. MaxPermWrites
    BY <1>0, <2>1 DEF Writing
  <2> QED
    BY <2>1, <2>2, <2>3, ViewDrifts DEF Unannounced
<1>5. ASSUME NEW n \in DOMAIN refresh, RefreshLost(n) PROVE ViewInv'
  BY <1>0, <1>5, ViewDrifts DEF RefreshLost, rowVars
<1>6. CASE RefreshPermissionCache
  BY <1>5, <1>6, ViewRead, ViewInstalled DEF RefreshPermissionCache
<1>7. CASE UNCHANGED scopedVars
  BY <1>0, <1>7, ViewFrame DEF scopedVars, versionVars
<1>8. ChangeUser => Unannounced \/ (UNCHANGED roleMember /\ NoRefreshDue)
  BY DEF ChangeUser
<1> QED
  BY <1>1, <1>2, <1>3, <1>4, <1>6, <1>7, <1>8 DEF ScopedNext, AdminStep

(* However refreshes overlap, fail and overtake each other, the permissions   *)
(* shown are in the end those that the rows give, with the exceptions that    *)
(* the property names.                                                        *)
THEOREM ShownIsWhatRowsGiveHolds == ScopedSpec => []ShownIsWhatRowsGive
<1>1. ScopedInit => ViewInv
  <2> SUFFICES ASSUME ScopedInit PROVE ViewInv
    OBVIOUS
  <2>1. NoRefresh \in Refresh /\ NoRefresh.at = 0 /\ NoRefresh.phase = "none" /\ MaxPermWrites \in Nat
    BY ScopedAssumption DEF NoRefresh, Refresh
  <2>2. ViewRows = {} /\ permView = {}
    BY DEF ScopedInit, ViewRows, RoleViewRows, DirectViewRows, InForce
  <2> QED
    BY <2>1, <2>2 DEF ScopedInit, ViewInv, VersionTypes, ViewShows, LastNoted
<1> QED
  BY <1>1, ViewInvShown, ViewStep, PTL DEF ScopedSpec

(***************************************************************************)
(* The check                                                               *)
(***************************************************************************)

(* What is known at each phase of what has held since the check began: it    *)
(* cannot be what the reads until then found otherwise.                      *)
Checked == {"direct", "roles", "rolePerms", "policies"}
CheckTypes ==
  /\ superUser \in BOOLEAN
  /\ check \in [phase : {"idle", "grant", "user", "done"} \cup Checked,
                ask : Asked, roles : {"none", "held"},
                answer : {"none", "allowed", "allowed by grant", "denied", "error"}]
CheckInv ==
  /\ CheckTypes
  /\ check.phase # "done" => check.answer = "none"
  /\ check.phase \in Checked => ~superUser /\ "inactive" \notin standing
  /\ check.phase \in {"roles", "rolePerms", "policies"} => "revoked" \notin standing
  /\ check.phase = "rolePerms" /\ check.roles = "held" => "no role" \notin standing
  /\ check.phase = "policies" => standing \cap {"no role", "no role grant"} = {}
  /\ AllowedOnStandingGround

(* While a check is under way, less and less has held all the time.          *)
LEMMA LessStands ==
  ASSUME Observed, check.phase # "idle"
  PROVE  standing' \subseteq standing /\ standing' \subseteq Facts'
BY DEF Observed

(* Administrators' steps leave the check where it is.                        *)
LEMMA CheckFrame ==
  ASSUME CheckInv, UNCHANGED <<check, superUser>>,
         Observed \/ UNCHANGED standing
  PROVE  CheckInv'
<1>1. check.phase = "idle" => check.answer = "none"
  BY DEF CheckInv
<1>2. check.phase # "idle" => standing' \subseteq standing
  BY LessStands
<1>3. AllowedOnStandingGround'
  BY <1>1, <1>2 DEF CheckInv, AllowedOnStandingGround
<1> QED
  BY <1>2, <1>3 DEF CheckInv, CheckTypes, Checked

(* A check that begins or ends.                                              *)
LEMMA CheckBeginsOrEnds ==
  ASSUME CheckInv, AskCheck \/ EndCheck
  PROVE  CheckInv'
<1>1. PICK ask \in Asked, phase \in {"idle", "grant", "user"} :
        check' = [phase |-> phase, ask |-> ask, roles |-> "none", answer |-> "none"]
  BY DEF AskCheck, EndCheck, NoCheck, Asked
<1>2. UNCHANGED superUser
  BY DEF AskCheck, EndCheck, rowVars, userVars
<1> QED
  BY <1>1, <1>2 DEF CheckInv, CheckTypes, AllowedOnStandingGround, Checked

(* What answering and going on make of the check.                            *)
LEMMA CheckMoves ==
  ASSUME CheckTypes, UNCHANGED superUser
  PROVE  /\ \A phase \in {"user"} \cup Checked : To(phase) =>
              /\ CheckTypes'
              /\ check'.phase = phase /\ check'.ask = check.ask
              /\ check'.roles = check.roles /\ check'.answer = check.answer
         /\ \A a \in {"allowed", "allowed by grant", "denied", "error"} : Answer(a) =>
              /\ CheckTypes'
              /\ check'.phase = "done" /\ check'.answer = a
              /\ check'.ask = check.ask /\ check'.roles = check.roles
BY DEF CheckTypes, To, Answer

(* A read of a table: what it found otherwise no longer stands.              *)
LEMMA FactsKept ==
  ASSUME UNCHANGED rowVars, check'.ask = check.ask
  PROVE  Facts' = Facts
BY DEF Facts, rowVars, userVars, InForce, Revoked, Granted, RoleGrants

(* The first two reads: of the grants on the resource, and of the user.      *)
LEMMA FirstReads ==
  ASSUME CheckInv, ReadResourceGrants \/ ReadUser, Observed
  PROVE  CheckInv'
<1> USE DEF CheckInv
<1>1. UNCHANGED rowVars /\ UNCHANGED superUser /\ check.phase \in {"grant", "user"}
  BY DEF ReadResourceGrants, ReadUser, rowVars, userVars
<1>2. check'.ask = check.ask
  BY <1>1, CheckMoves DEF ReadResourceGrants, ReadUser, Checked
<1>3. /\ Facts' = Facts /\ standing' \subseteq standing /\ standing' \subseteq Facts'
      /\ check.answer = "none"
  BY <1>1, <1>2, FactsKept, LessStands
<1>4. CASE resourceRows # {} /\ Answer("allowed by grant")
  <2>1. "no resource grant" \notin standing'
    BY <1>3, <1>4 DEF Facts
  <2> QED
    BY <1>1, <1>4, <2>1, CheckMoves DEF AllowedOnStandingGround, Checked
<1>5. CASE To("user")
  <2>1. CheckTypes' /\ check'.phase = "user" /\ check'.answer = "none"
    BY <1>1, <1>3, <1>5, CheckMoves
  <2> QED
    BY <2>1 DEF AllowedOnStandingGround, Checked
<1>6. CASE Answer("denied")
  <2>1. CheckTypes' /\ check'.phase = "done" /\ check'.answer = "denied"
    BY <1>1, <1>6, CheckMoves
  <2> QED
    BY <2>1 DEF AllowedOnStandingGround, Checked
<1>7. CASE userActive /\ superUser /\ Answer("allowed")
  <2>1. "inactive" \notin standing'
    BY <1>3, <1>7 DEF Facts
  <2> QED
    BY <1>1, <1>7, <2>1, CheckMoves DEF AllowedOnStandingGround, Checked
<1>8. CASE userActive /\ ~superUser /\ To("direct")
  <2>1. "inactive" \notin standing'
    BY <1>3, <1>8 DEF Facts
  <2>2. /\ CheckTypes' /\ check'.phase = "direct" /\ check'.answer = "none" /\ ~superUser'
    BY <1>1, <1>3, <1>8, CheckMoves DEF Checked
  <2> QED
    BY <2>1, <2>2 DEF AllowedOnStandingGround, Checked
<1> QED
  BY <1>4, <1>5, <1>6, <1>7, <1>8 DEF ReadResourceGrants, ReadUser

(* The reads of the user's own rows and roles, and of the policies.          *)
LEMMA LaterReads ==
  ASSUME CheckInv, ReadUserPermissions \/ ReadRoles \/ ReadRolePermissions \/ ReadPolicies,
         Observed
  PROVE  CheckInv'
<1> USE DEF CheckInv
<1>1. /\ UNCHANGED rowVars /\ UNCHANGED superUser /\ check.phase \in Checked
      /\ check \in [phase : {"idle", "grant", "user", "done"} \cup Checked, ask : Asked,
                    roles : {"none", "held"},
                    answer : {"none", "allowed", "allowed by grant", "denied", "error"}]
  BY DEF ReadUserPermissions, ReadRoles, ReadRolePermissions, ReadPolicies, rowVars, userVars,
     Checked, CheckTypes
<1>2. check'.ask = check.ask
  BY <1>1 DEF ReadUserPermissions, ReadRoles, ReadRolePermissions, ReadPolicies, To, Answer
<1>3. /\ Facts' = Facts /\ standing' \subseteq standing /\ standing' \subseteq Facts'
      /\ ~superUser' /\ "inactive" \notin standing' /\ check.answer = "none"
  BY <1>1, <1>2, FactsKept, LessStands DEF Checked
<1>4. CASE Answer("error") \/ Answer("denied")
  BY <1>1, <1>3, <1>4, CheckMoves DEF AllowedOnStandingGround, Checked
<1>5. CASE ~Revoked /\ Granted(check.ask.scope) /\ Answer("allowed")
  <2>1. "revoked" \notin standing' /\ "no direct grant" \notin standing'
    BY <1>3, <1>5 DEF Facts
  <2> QED
    BY <1>1, <1>3, <1>5, <2>1, CheckMoves DEF AllowedOnStandingGround, Checked
<1>6. CASE ~Revoked /\ To("roles")
  <2>1. "revoked" \notin standing'
    BY <1>3, <1>6 DEF Facts
  <2>2. CheckTypes' /\ check'.phase = "roles" /\ check'.answer = "none"
    BY <1>1, <1>3, <1>6, CheckMoves DEF Checked
  <2> QED
    BY <1>3, <2>1, <2>2 DEF AllowedOnStandingGround, Checked
<1>7. CASE ReadRoles
  <2>1. /\ check.phase = "roles" /\ check'.phase = "rolePerms" /\ check'.answer = "none"
        /\ check'.roles = IF roleMember THEN "held" ELSE "none"
    BY <1>1, <1>3, <1>7 DEF ReadRoles
  <2>2. CheckTypes'
    BY <1>1, <1>7 DEF ReadRoles, CheckTypes, Checked
  <2>3. check'.roles = "held" => "no role" \notin standing'
    BY <1>3, <2>1 DEF Facts
  <2> QED
    BY <1>3, <2>1, <2>2, <2>3 DEF AllowedOnStandingGround, Checked
<1>8. CASE /\ check.phase = "rolePerms" /\ check.roles = "held" /\ RoleGrants(check.ask.scope)
           /\ To("policies")
  <2>1. "no role grant" \notin standing' /\ "no role" \notin standing'
    BY <1>3, <1>8 DEF Facts
  <2>2. CheckTypes' /\ check'.phase = "policies" /\ check'.answer = "none"
    BY <1>1, <1>3, <1>8, CheckMoves DEF Checked
  <2> QED
    BY <1>3, <1>8, <2>1, <2>2 DEF AllowedOnStandingGround, Checked
<1>9. CASE check.phase = "policies" /\ Answer("allowed")
  BY <1>1, <1>3, <1>9, CheckMoves DEF AllowedOnStandingGround, Checked
<1> QED
  BY <1>4, <1>5, <1>6, <1>7, <1>8, <1>9
     DEF ReadUserPermissions, ReadRolePermissions, ReadPolicies

(* A check never allows what a single table forbade from its beginning to    *)
(* its end, whatever administrators commit between its reads.                *)
THEOREM AllowedOnStandingGroundHolds == ScopedSpec => []AllowedOnStandingGround
<1>1. ScopedInit => CheckInv
  BY DEF ScopedInit, CheckInv, CheckTypes, NoCheck, Asked, AllowedOnStandingGround, Checked
<1>2. ASSUME CheckInv, [ScopedNext]_scopedVars PROVE CheckInv'
  <2>1. CASE AdminStep /\ Observed
    <3>1. UNCHANGED <<check, superUser>>
      BY <2>1 DEF AdminStep, CreatePermission, GrantUserPermission, RevokeUserPermission,
         CreateResourceGrant, RevokeResourceGrant, AssignRolePermissionsNew,
         RevokeRolePermissionsBulk, CreateEnhancedABACPolicy, UpdateEnhancedABACPolicy,
         DeleteEnhancedABACPolicy, ChangeUser, RowExpires, RowStarts, RefreshPermissionCache,
         BeginRefresh, EndRefresh, RefreshLost, RefreshDue, NoRefreshDue, Unannounced,
         rowVars, userVars
    <3> QED
      BY <1>2, <2>1, <3>1, CheckFrame
  <2>2. CASE CheckStep /\ Observed
    BY <1>2, <2>2, CheckBeginsOrEnds, FirstReads, LaterReads DEF CheckStep
  <2>3. CASE UNCHANGED scopedVars
    BY <1>2, <2>3, CheckFrame DEF scopedVars
  <2> QED
    BY <1>2, <2>1, <2>2, <2>3 DEF ScopedNext
<1>3. CheckInv => AllowedOnStandingGround
  BY DEF CheckInv
<1> QED
  BY <1>1, <1>2, <1>3, PTL DEF ScopedSpec

-----------------------------------------------------------------------------
(* IamGovernance *)

(* What a request may be, and the values of the rows.                        *)
Phases == {"idle", "written", "unmatched", "deleting", "deleted", "inserted",
           "applied", "answered", "failed"}
Request == [phase : Phases, op : Decision \cup {"scopes"}, asked : SUBSET Category,
            seen : SUBSET Category, put : SUBSET Category, others : SUBSET Category]
GovernanceTypes ==
  /\ decider \in [Decider -> Request]
  /\ approval \in [status : {"none", "pending", "approved", "rejected"},
                   by : Decider \cup {Nobody}]
  /\ rowLock \in Decider \cup {Nobody}
  /\ scopeRows \subseteq Category

(* Who has written the approval holds its row, which is undecided until then. *)
LockedUndecided ==
  /\ \A d \in Decider : decider[d].phase = "written" =>
       rowLock = d /\ decider[d].op \in Decision
  /\ rowLock # Nobody => approval.status = "pending"

(* A scope that an assignment under way has not seen was asked for by another *)
(* that committed since, and only what was asked for is put.                 *)
UnseenIsNew ==
  \A d \in Decider : Assigning(d) =>
    /\ decider[d].op = "scopes"
    /\ scopeRows \subseteq decider[d].seen \cup decider[d].others
    /\ decider[d].put \subseteq decider[d].asked

GovernanceInv == GovernanceTypes /\ LockedUndecided /\ UnseenIsNew /\ GovernanceSound

(* The inductive invariant holds before anything is asked.                   *)
LEMMA GovernanceStart == GovernanceInit => GovernanceInv
BY GovernanceAssumption
   DEF GovernanceInit, GovernanceInv, GovernanceTypes, LockedUndecided, UnseenIsNew, Idle,
       GovernanceSound, DecisionStands, ScopesAskedFor, Assigning, Request, Phases, Decision

(* A step that changes neither the rows nor the requests.                    *)
LEMMA Unrelated ==
  ASSUME GovernanceInv, UNCHANGED <<approval, rowLock, scopeRows, decider>>
  PROVE  GovernanceInv'
BY DEF GovernanceInv, GovernanceTypes, LockedUndecided, UnseenIsNew, GovernanceSound,
       DecisionStands, ScopesAskedFor, Assigning

(* A request goes on or ends, and keeps what it has written of the scopes.    *)
LEMMA OnlyPhase ==
  ASSUME GovernanceInv, NEW d \in Decider, NEW phase \in Phases, Set(d, phase)
  PROVE  /\ decider' \in [Decider -> Request]
         /\ decider'[d].phase = phase
         /\ \A e \in Decider : /\ decider'[e].op = decider[e].op
                               /\ decider'[e].asked = decider[e].asked
                               /\ decider'[e].seen = decider[e].seen
                               /\ decider'[e].put = decider[e].put
                               /\ decider'[e].others = decider[e].others
                               /\ e # d => decider'[e].phase = decider[e].phase
BY DEF GovernanceInv, GovernanceTypes, Set, Request

(* An approval is asked for.                                                 *)
LEMMA ApprovalAsked ==
  ASSUME GovernanceInv, CreateApprovalRequest
  PROVE  GovernanceInv'
BY GovernanceAssumption
   DEF GovernanceInv, GovernanceTypes, LockedUndecided, UnseenIsNew, GovernanceSound,
       DecisionStands, ScopesAskedFor, Assigning, CreateApprovalRequest

(* A decision is written, if the row is undecided.                           *)
LEMMA DecisionWritten ==
  ASSUME GovernanceInv, NEW d \in Decider, NEW op \in Decision, Decide(d, op)
  PROVE  GovernanceInv'
<1> USE DEF GovernanceInv
<1>1. /\ decider' \in [Decider -> Request]
      /\ decider'[d].op = op
      /\ decider'[d].phase = IF Undecided THEN "written" ELSE "unmatched"
      /\ \A e \in Decider \ {d} : decider'[e] = decider[e]
  BY DEF GovernanceTypes, Decide, Request, Phases, Decision
<1>2. rowLock = Nobody /\ rowLock' = IF Undecided THEN d ELSE Nobody
  BY DEF Decide
<1>3. UNCHANGED <<approval, scopeRows>>
  BY DEF Decide
<1>4. GovernanceTypes'
  BY <1>1, <1>2, <1>3 DEF GovernanceTypes
<1>5. LockedUndecided'
  BY <1>1, <1>2, <1>3, GovernanceAssumption DEF LockedUndecided, Undecided
<1>6. UnseenIsNew'
  BY <1>1, <1>3 DEF UnseenIsNew, Assigning
<1>7. GovernanceSound'
  BY <1>1, <1>3 DEF GovernanceSound, DecisionStands, ScopesAskedFor
<1> QED
  BY <1>4, <1>5, <1>6, <1>7

(* A decision is committed: only one request can have it written.            *)
LEMMA DecisionCommitted ==
  ASSUME GovernanceInv, NEW d \in Decider, CommitDecision(d)
  PROVE  GovernanceInv'
<1> USE DEF GovernanceInv
<1>1. Set(d, "applied") /\ decider[d].phase = "written" /\ decider[d].op \in Decision
  BY DEF CommitDecision
<1>2. decider' \in [Decider -> Request]
  BY <1>1, OnlyPhase DEF Phases
<1>3. /\ decider'[d].phase = "applied"
      /\ \A e \in Decider : /\ decider'[e].op = decider[e].op
                            /\ decider'[e].asked = decider[e].asked
                            /\ decider'[e].seen = decider[e].seen
                            /\ decider'[e].put = decider[e].put
                            /\ decider'[e].others = decider[e].others
                            /\ e # d => decider'[e].phase = decider[e].phase
  BY <1>1, OnlyPhase DEF Phases
<1>4. /\ approval' = [status |-> IF decider[d].op = "approve" THEN "approved" ELSE "rejected",
                      by |-> d]
      /\ rowLock' = Nobody /\ scopeRows' = scopeRows
  BY DEF CommitDecision
<1>5. approval.status = "pending" /\ rowLock = d
  BY <1>1, GovernanceAssumption DEF LockedUndecided
<1>6. GovernanceTypes'
  BY <1>2, <1>4 DEF GovernanceTypes
<1>7. LockedUndecided'
  BY <1>3, <1>4, <1>5 DEF LockedUndecided
<1>8. UnseenIsNew'
  BY <1>3, <1>4 DEF UnseenIsNew, Assigning
<1>9. \A e \in Decider \ {d} : ~(decider[e].phase = "applied" /\ decider[e].op \in Decision)
  BY <1>5 DEF GovernanceSound, DecisionStands
<1>10. DecisionStands'
  BY <1>3, <1>4, <1>9 DEF DecisionStands
<1>11. ScopesAskedFor'
  BY <1>1, <1>3, <1>4 DEF GovernanceSound, ScopesAskedFor, Decision
<1> QED
  BY <1>6, <1>7, <1>8, <1>10, <1>11 DEF GovernanceSound

(* A request ends without effect, or its DELETE is done.                     *)
LEMMA EndsOrDeletes ==
  ASSUME GovernanceInv, NEW d \in Decider,
         AnswerUnmatched(d) \/ DeleteScopes(d) \/ RollbackGovernance(d)
  PROVE  GovernanceInv'
<1> USE DEF GovernanceInv
<1>1. PICK phase \in {"answered", "deleted", "failed"} :
        /\ Set(d, phase)
        /\ phase = "deleted" => Assigning(d)
        /\ phase = "answered" => decider[d].phase = "unmatched"
  BY DEF AnswerUnmatched, DeleteScopes, RollbackGovernance, Assigning
<1>2. decider' \in [Decider -> Request]
  BY <1>1, OnlyPhase DEF Phases
<1>3. /\ decider'[d].phase = phase
      /\ \A e \in Decider : /\ decider'[e].op = decider[e].op
                            /\ decider'[e].asked = decider[e].asked
                            /\ decider'[e].seen = decider[e].seen
                            /\ decider'[e].put = decider[e].put
                            /\ decider'[e].others = decider[e].others
                            /\ e # d => decider'[e].phase = decider[e].phase
  BY <1>1, OnlyPhase DEF Phases
<1>4. /\ UNCHANGED <<approval, scopeRows>>
      /\ rowLock' = rowLock \/ (rowLock = d /\ rowLock' = Nobody)
  BY DEF AnswerUnmatched, DeleteScopes, RollbackGovernance
<1>5. GovernanceTypes'
  BY <1>2, <1>4 DEF GovernanceTypes
<1>6. LockedUndecided'
  BY <1>3, <1>4 DEF LockedUndecided
<1>7. UnseenIsNew'
  BY <1>1, <1>3, <1>4 DEF UnseenIsNew, Assigning
<1>8. GovernanceSound'
  BY <1>3, <1>4 DEF GovernanceSound, DecisionStands, ScopesAskedFor
<1> QED
  BY <1>5, <1>6, <1>7, <1>8

(* An assignment begins with the scopes there are, or inserts its own.       *)
LEMMA AssignmentGoesOn ==
  ASSUME GovernanceInv, NEW d \in Decider, BeginDelete(d) \/ InsertScopes(d)
  PROVE  GovernanceInv'
<1> USE DEF GovernanceInv
<1>1. /\ decider' \in [Decider -> Request]
      /\ decider'[d].phase \in {"deleting", "inserted"} /\ decider'[d].op = "scopes"
      /\ scopeRows \subseteq decider'[d].seen \cup decider'[d].others
      /\ decider'[d].put \subseteq decider'[d].asked
      /\ \A e \in Decider \ {d} : decider'[e] = decider[e]
  <2>1. CASE BeginDelete(d)
    <3>1. PICK asked \in SUBSET Category :
            decider' = [decider EXCEPT ![d] =
              [phase |-> "deleting", op |-> "scopes", asked |-> asked, seen |-> scopeRows,
               put |-> {}, others |-> {}]]
      BY <2>1 DEF BeginDelete
    <3> QED
      BY <3>1 DEF GovernanceTypes, Request, Phases
  <2>2. CASE InsertScopes(d)
    <3>1. decider' = [decider EXCEPT ![d] =
                       [@ EXCEPT !.phase = "inserted",
                                 !.put = decider[d].asked \ (scopeRows \ decider[d].seen)]]
      BY <2>2 DEF InsertScopes, GovernanceTypes
    <3>2. decider'[d].phase = "inserted" /\ decider'[d].op = decider[d].op
          /\ decider'[d].seen = decider[d].seen /\ decider'[d].others = decider[d].others
          /\ decider'[d].asked = decider[d].asked
          /\ decider'[d].put = decider[d].asked \ (scopeRows \ decider[d].seen)
      BY <3>1 DEF GovernanceTypes, Request
    <3>3. decider' \in [Decider -> Request]
      <4> DEFINE put == decider[d].asked \ (scopeRows \ decider[d].seen)
      <4>1. decider[d] \in Request /\ put \in SUBSET Category
        BY DEF GovernanceTypes, Request
      <4>2. [decider[d] EXCEPT !.phase = "inserted", !.put = put] \in Request
        <5> HIDE DEF put
        <5> QED
          BY <4>1 DEF Request, Phases
      <4> QED
        BY <3>1, <4>2 DEF GovernanceTypes
    <3>4. \A e \in Decider \ {d} : decider'[e] = decider[e]
      BY <3>1 DEF GovernanceTypes
    <3> QED
      BY <2>2, <3>2, <3>3, <3>4 DEF InsertScopes, UnseenIsNew, Assigning
  <2> QED
    BY <2>1, <2>2
<1>2. UNCHANGED <<approval, rowLock, scopeRows>>
  BY DEF BeginDelete, InsertScopes
<1>3. GovernanceTypes'
  BY <1>1, <1>2 DEF GovernanceTypes
<1>4. LockedUndecided'
  BY <1>1, <1>2 DEF LockedUndecided
<1>5. UnseenIsNew'
  BY <1>1, <1>2 DEF UnseenIsNew, Assigning
<1>6. GovernanceSound'
  BY <1>1, <1>2 DEF GovernanceSound, DecisionStands, ScopesAskedFor
<1> QED
  BY <1>3, <1>4, <1>5, <1>6

(* An assignment commits: what it asked for is new to everyone else.         *)
LEMMA ScopesCommitted ==
  ASSUME GovernanceInv, NEW d \in Decider, CommitScopes(d)
  PROVE  GovernanceInv'
<1> USE DEF GovernanceInv
<1> DEFINE was == decider[d]
<1>1. /\ was \in Request /\ was.phase = "inserted" /\ was.op = "scopes"
      /\ scopeRows \subseteq was.seen \cup was.others /\ was.put \subseteq was.asked
  BY DEF CommitScopes, GovernanceTypes, UnseenIsNew, Assigning
<1>2. scopeRows' = (scopeRows \ was.seen) \cup was.put /\ UNCHANGED <<approval, rowLock>>
  BY DEF CommitScopes
<1>3. decider' \in [Decider -> Request]
  BY <1>1 DEF CommitScopes, GovernanceTypes, Request, Phases
<1>4. /\ decider'[d].phase = "applied" /\ decider'[d].op = was.op
      /\ decider'[d].asked = was.asked /\ decider'[d].others = was.others
  BY <1>1 DEF CommitScopes, Request
<1>5. \A e \in Decider \ {d} :
        /\ decider'[e].phase = decider[e].phase /\ decider'[e].op = decider[e].op
        /\ decider'[e].asked = decider[e].asked /\ decider'[e].put = decider[e].put
        /\ decider'[e].seen = decider[e].seen \ was.seen
        /\ decider'[e].others = decider[e].others \cup was.asked
  <2> TAKE e \in Decider \ {d}
  <2>1. decider[e] \in Request
    BY DEF GovernanceTypes
  <2>2. decider'[e] = [decider[e] EXCEPT !.seen = decider[e].seen \ was.seen,
                                         !.others = decider[e].others \cup was.asked]
    BY <2>1 DEF CommitScopes, Request
  <2> QED
    BY <2>1, <2>2 DEF Request
<1> HIDE DEF was
<1>6. GovernanceTypes'
  BY <1>1, <1>2, <1>3 DEF GovernanceTypes, Request
<1>7. LockedUndecided'
  BY <1>2, <1>4, <1>5 DEF LockedUndecided
<1>8. UnseenIsNew'
  BY <1>1, <1>2, <1>4, <1>5 DEF UnseenIsNew, Assigning
<1>9. DecisionStands'
  BY <1>1, <1>2, <1>4, <1>5 DEF GovernanceSound, DecisionStands, Decision
<1>10. ScopesAskedFor'
  BY <1>1, <1>2, <1>4, <1>5 DEF GovernanceSound, ScopesAskedFor
<1> QED
  BY <1>6, <1>7, <1>8, <1>9, <1>10 DEF GovernanceSound

(* Every step keeps the invariant.                                           *)
LEMMA GovernanceStep == GovernanceInv /\ [GovernanceNext]_governanceVars => GovernanceInv'
<1> SUFFICES ASSUME GovernanceInv, [GovernanceNext]_governanceVars PROVE GovernanceInv'
  OBVIOUS
<1>1. CASE CreateApprovalRequest
  BY <1>1, ApprovalAsked
<1>2. CASE GetPendingApprovals \/ AssignApprovalRights \/ RevokeApprovalRights
  BY <1>2, Unrelated DEF GetPendingApprovals, AssignApprovalRights, RevokeApprovalRights
<1>3. ASSUME NEW d \in Decider, DeciderStep(d) PROVE GovernanceInv'
  <2>1. CASE ApproveRequest(d) \/ RejectRequest(d)
    BY <2>1, DecisionWritten DEF ApproveRequest, RejectRequest, Decision
  <2> QED
    BY <1>3, <2>1, DecisionCommitted, EndsOrDeletes, AssignmentGoesOn, ScopesCommitted
       DEF DeciderStep
<1>4. CASE UNCHANGED governanceVars
  BY <1>4, Unrelated DEF governanceVars
<1> QED
  BY <1>1, <1>2, <1>3, <1>4 DEF GovernanceNext

(* One decision at most is applied, and it stands; a user is left with no    *)
(* category scope that was not asked for since the last assignment began.    *)
THEOREM GovernanceSoundHolds == GovernanceSpec => []GovernanceSound
<1>1. GovernanceInv => GovernanceSound
  BY DEF GovernanceInv
<1> QED
  BY <1>1, GovernanceStart, GovernanceStep, PTL DEF GovernanceSpec

-----------------------------------------------------------------------------
(* AccountAccess *)

(* What a request under way may be, and what its token says of the account.   *)
Stage == {"idle", "auth", "menus", "store with", "store without", "guard with",
          "guard without", "user", "override", "role", "done"}
CheckAnswers == {"none", "401", "403", "500", "passed"}
StaffRequest == [phase : Stage, path : {"me", "studio"}, claim : {"none", "staff", "super"},
                 answer : CheckAnswers, shown : SUBSET {"menu", "permission"}]
AccessTypes == request \in StaffRequest /\ claim \in {"none", "staff", "super"}
ClaimsTrue == claim = "super" \/ request.claim = "super" => superAdmin

(* Past the first guard the account has been seen active, and a request that   *)
(* is let through is at its end.                                             *)
AnswerEarned ==
  /\ request.phase \notin {"idle", "auth"} => request.answer = "401" \/ sawActive
  /\ request.answer # "none" => request.phase = "done"

AccessInv == AccessTypes /\ ClaimsTrue /\ AnswerEarned /\ PassedOnlyAsSuperAdmin

(* The account is seen when it is active.                                    *)
Watched == sawActive' = (account' = "active" \/ (request.phase # "idle" /\ sawActive))

(* No request is under way and no token is held.                              *)
LEMMA AccessStart == AccountInit => AccessInv
<1> SUFFICES ASSUME AccountInit PROVE AccessInv
  OBVIOUS
<1>1. request = NoRequest /\ claim = "none"
  BY DEF AccountInit
<1>2. NoRequest \in StaffRequest
  BY DEF NoRequest, StaffRequest, Stage, CheckAnswers
<1> QED
  BY <1>1, <1>2 DEF AccessInv, AccessTypes, ClaimsTrue, AnswerEarned, PassedOnlyAsSuperAdmin,
     NoRequest

(* A step that leaves the request and the flag alone, and makes a token only  *)
(* as the flag says.                                                         *)
LEMMA RequestAlone ==
  ASSUME AccessInv, Watched, UNCHANGED <<superAdmin, request>>,
         claim' \in {claim, "none", IF superAdmin THEN "super" ELSE "staff"}
  PROVE  AccessInv'
<1>1. AccessTypes' /\ ClaimsTrue'
  BY DEF AccessInv, AccessTypes, ClaimsTrue
<1>2. request.phase # "idle" /\ sawActive => sawActive'
  BY DEF Watched
<1>3. request.answer = "passed" => request.phase # "idle"
  BY DEF AccessInv, AnswerEarned
<1> QED
  BY <1>1, <1>2, <1>3 DEF AccessInv, AnswerEarned, PassedOnlyAsSuperAdmin, isRBACExempt

(* What is asked of the account itself, and a change of menus, matrix or      *)
(* overrides, leave the request alone.                                       *)
LEMMA BesideRequest ==
  ASSUME AccessInv, Watched, AccountOps \/ MenuOps
  PROVE  AccessInv'
<1>1. ASSUME AccountOps PROVE AccessInv'
  <2>1. UNCHANGED <<superAdmin, request>>
    BY <1>1 DEF AccountOps, Register, LoginWithEmail, AuthenticateGoogle, generateTokenPair,
           AccessTokenExpires, SendOTP, VerifyOTP, ForgotPassword, ResetPassword, SetupTOTP,
           VerifyTOTP, DeleteAccount, UploadAvatar, DeleteAvatar, ChangeAccount,
           userRow, accessVars
  <2>2. claim' \in {claim, "none", IF superAdmin THEN "super" ELSE "staff"}
    BY <1>1 DEF AccountOps, Register, LoginWithEmail, AuthenticateGoogle, generateTokenPair,
           AccessTokenExpires, SendOTP, VerifyOTP, ForgotPassword, ResetPassword, SetupTOTP,
           VerifyTOTP, DeleteAccount, UploadAvatar, DeleteAvatar, ChangeAccount
  <2> QED
    BY <2>1, <2>2, RequestAlone
<1>2. ASSUME MenuOps PROVE AccessInv'
  <2>1. UNCHANGED <<superAdmin, request, claim>>
    BY <1>2 DEF MenuOps, AssignMatrix, CreateOverride, OverrideExpires, SeedMenus, MenuCacheExpires,
           accountRow, userRow, accessVars
  <2> QED
    BY <2>1, RequestAlone
<1> QED
  BY <1>1, <1>2

(* No policy can be read and no role has the permission that is asked for.    *)
LEMMA NoPolicyNoGrant == ~FindABACPolicies /\ ~HasRoleGrant
BY DEF FindABACPolicies, HasRoleGrant, Runs, SchemaLacks, httpMethodToAction, ViewActions

(* A request past the token check goes on to the next guard.                  *)
LEMMA NextGuard ==
  ASSUME AccessInv, Watched, UNCHANGED <<superAdmin, claim, account>>,
         NEW phase \in Stage \ {"idle", "auth", "done"}, Enter(phase),
         request.phase \notin {"idle", "done"}, request.phase = "auth" => account = "active"
  PROVE  AccessInv'
<1>1. /\ request' \in StaffRequest /\ request'.claim = request.claim
      /\ request'.phase = phase /\ request'.answer = request.answer
  BY DEF Enter, AccessInv, AccessTypes, StaffRequest
<1>2. AccessTypes' /\ ClaimsTrue'
  BY <1>1 DEF AccessInv, AccessTypes, ClaimsTrue
<1>3. request.answer = "none"
  BY DEF AccessInv, AnswerEarned
<1>4. sawActive'
  BY <1>3 DEF Watched, AccessInv, AnswerEarned
<1> QED
  BY <1>1, <1>2, <1>3, <1>4 DEF AccessInv, AnswerEarned, PassedOnlyAsSuperAdmin

(* A request ends with an answer: it is let through only on an exempt path or *)
(* for a super administrator.                                                *)
LEMMA RequestAnswered ==
  ASSUME AccessInv, Watched, UNCHANGED <<superAdmin, claim, account>>,
         NEW answer \in CheckAnswers \ {"none"}, End(answer),
         request.phase \notin {"idle", "done"}, request.phase = "auth" => answer = "401",
         answer = "passed" => isRBACExempt(request.path) \/ superAdmin
  PROVE  AccessInv'
<1>1. /\ request' \in StaffRequest /\ request'.claim = request.claim
      /\ request'.path = request.path /\ request'.phase = "done" /\ request'.answer = answer
  BY DEF End, AccessInv, AccessTypes, StaffRequest, Stage
<1>2. AccessTypes' /\ ClaimsTrue'
  BY <1>1 DEF AccessInv, AccessTypes, ClaimsTrue
<1>3. answer # "401" => sawActive'
  BY DEF Watched, AccessInv, AnswerEarned
<1> QED
  BY <1>1, <1>2, <1>3 DEF AccessInv, AnswerEarned, PassedOnlyAsSuperAdmin, isRBACExempt

(* Each guard lets the request go on, ends it, or lets it through.             *)
LEMMA Guards ==
  ASSUME AccessInv, Watched, AccessOps
  PROVE  AccessInv'
<1>1. UNCHANGED <<superAdmin, claim, account>>
  BY DEF AccessOps, AskAccess, RequireAuth, ListMenusDirect, StoreMenus, RequireMenuAccess,
         EvaluateUser, FindActiveOverride, EvaluateRole, EndRequest, accountRow, userRow
<1>2. CASE AskAccess
  <2>1. request' \in StaffRequest /\ request'.claim = claim
        /\ request'.phase = "auth" /\ request'.answer = "none"
    BY <1>2 DEF AskAccess, NoRequest, AccessInv, AccessTypes, StaffRequest, Stage, CheckAnswers
  <2> QED
    BY <1>1, <2>1 DEF AccessInv, AccessTypes, ClaimsTrue, AnswerEarned, PassedOnlyAsSuperAdmin
<1>3. CASE RequireAuth
  BY <1>1, <1>3, NextGuard, RequestAnswered DEF RequireAuth, Stage, CheckAnswers
<1>4. CASE ListMenusDirect
  <2>1. /\ request.phase = "menus"
        /\ \E phase \in {"guard with", "guard without", "store with", "store without"} : Enter(phase)
    BY <1>4 DEF ListMenusDirect, Enter
  <2> QED
    BY <1>1, <2>1, NextGuard, RequestAnswered DEF Stage, CheckAnswers
<1>5. CASE StoreMenus
  BY <1>1, <1>5, NextGuard, RequestAnswered DEF StoreMenus, Stage, CheckAnswers
<1>6. CASE RequireMenuAccess
  <2>1. /\ request.phase \in {"guard with", "guard without"}
        /\ \/ Enter("user") \/ End("403")
           \/ End("passed") /\ (isRBACExempt(request.path) \/ request.claim = "super")
    BY <1>6 DEF RequireMenuAccess
  <2> QED
    BY <1>1, <2>1, NextGuard, RequestAnswered DEF Stage, CheckAnswers, AccessInv, ClaimsTrue
<1>7. CASE EvaluateUser
  <2>1. /\ request.phase = "user"
        /\ Enter("override") \/ End("403") \/ (End("passed") /\ superAdmin)
    BY <1>7 DEF EvaluateUser
  <2> QED
    BY <1>1, <2>1, NextGuard, RequestAnswered DEF Stage, CheckAnswers
<1>8. CASE FindActiveOverride
  <2>1. request.phase = "override" /\ (Enter("role") \/ End("403") \/ End("500"))
    BY <1>8, NoPolicyNoGrant DEF FindActiveOverride
  <2> QED
    BY <1>1, <2>1, NextGuard, RequestAnswered DEF Stage, CheckAnswers
<1>9. CASE EvaluateRole
  <2>1. request.phase = "role" /\ End("403")
    BY <1>9, NoPolicyNoGrant DEF EvaluateRole
  <2> QED
    BY <1>1, <2>1, NextGuard, RequestAnswered DEF Stage, CheckAnswers
<1>10. CASE EndRequest
  <2>1. /\ request' \in StaffRequest /\ request'.claim = "none"
        /\ request'.phase = "idle" /\ request'.answer = "none"
    BY <1>10 DEF EndRequest, Shown, NoRequest, StaffRequest, Stage, CheckAnswers
  <2> QED
    BY <1>1, <2>1 DEF AccessInv, AccessTypes, ClaimsTrue, AnswerEarned, PassedOnlyAsSuperAdmin
<1> QED
  BY <1>2, <1>3, <1>4, <1>5, <1>6, <1>7, <1>8, <1>9, <1>10 DEF AccessOps

(* Whatever roles, grants and overrides there are, nobody but a super          *)
(* administrator whose account was active gets past the guards, other than to *)
(* the paths that are open to the whole staff.                               *)
THEOREM PassedOnlyAsSuperAdminHolds == AccountSpec => []PassedOnlyAsSuperAdmin
<1>1. AccessInv /\ [AccountNext]_accountVars => AccessInv'
  <2> SUFFICES ASSUME AccessInv, [AccountNext]_accountVars PROVE AccessInv'
    OBVIOUS
  <2>1. CASE UNCHANGED accountVars
    BY <2>1 DEF accountVars, accountRow, userRow, accessVars, AccessInv, AccessTypes, ClaimsTrue,
       AnswerEarned, PassedOnlyAsSuperAdmin
  <2>2. CASE AccountNext
    BY <2>2, BesideRequest, Guards DEF AccountNext, Watched
  <2> QED
    BY <2>1, <2>2
<1>2. AccessInv => PassedOnlyAsSuperAdmin
  BY DEF AccessInv
<1> QED
  BY <1>1, <1>2, AccessStart, PTL DEF AccountSpec

-----------------------------------------------------------------------------
(* RateLimiter *)

RateTypes ==
  /\ tick \in Nat
  /\ bucket \in [at : {"none", "kept"}, tokens : 0 .. MaxRequests, lastRefill : Nat]
  /\ IsFiniteSet(passed) /\ passed \subseteq Nat \X Nat
  /\ \A p \in passed : p[1] <= tick /\ p[2] < Cardinality(passed)
  /\ refused \subseteq 0 .. tick

(* The requests let through since the bucket was filled, and those of the      *)
(* window before it.                                                         *)
Since(t) == {p \in passed : t <= p[1]}
Before(t) == {p \in passed : p[1] < t /\ t < p[1] + Window}

(* A bucket accounts for all that passed since it was filled, and nothing      *)
(* passes once it is due; one bucket at most was spent in the window before.  *)
BucketTells ==
  bucket.at = "kept" =>
    /\ bucket.lastRefill <= tick
    /\ Cardinality(Since(bucket.lastRefill)) + bucket.tokens = MaxRequests
    /\ \A p \in passed : p[1] < bucket.lastRefill + Window
    /\ Cardinality(Before(bucket.lastRefill)) <= MaxRequests

(* A bucket is cleaned up so late that the next one may as well be full.       *)
NoneLeft ==
  bucket.at = "none" => Cardinality(Before(tick)) <= MaxRequests /\ \A p \in passed : p[1] < tick

RateInv == RateTypes /\ BucketTells /\ NoneLeft /\ RateBounded

(* There is no bucket yet.                                                   *)
LEMMA RateStart == RateInit => RateInv
<1> SUFFICES ASSUME RateInit PROVE RateInv
  OBVIOUS
<1>1. tick = 0 /\ bucket = NoBucket /\ passed = {} /\ refused = {}
  BY DEF RateInit
<1>2. IsFiniteSet({}) /\ Cardinality({}) = 0
  BY FS_EmptySet
<1>3. Before(tick) = {} /\ \A t \in 0 .. tick : PassedBy(t) = {}
  BY <1>1 DEF Before, PassedBy
<1>4. RateTypes
  BY <1>1, <1>2, RateAssumption DEF RateTypes, NoBucket
<1>5. BucketTells /\ NoneLeft
  BY <1>1, <1>2, <1>3, RateAssumption DEF BucketTells, NoneLeft, NoBucket
<1>6. RateBounded
  BY <1>1, <1>2, <1>3, RateAssumption DEF RateBounded
<1> QED
  BY <1>4, <1>5, <1>6 DEF RateInv

(* What is counted is finite.                                                *)
LEMMA Counted ==
  ASSUME RateInv
  PROVE  \A s \in SUBSET passed : IsFiniteSet(s) /\ Cardinality(s) \in Nat
BY FS_Subset, FS_CardinalityType DEF RateInv, RateTypes

(* A window that ends after the bucket was filled holds no more than what was  *)
(* let through since, and in the window before it.                           *)
LEMMA TwoBuckets ==
  ASSUME RateInv, bucket.at = "kept"
  PROVE  Cardinality(PassedBy(tick)) <= Cardinality(Since(bucket.lastRefill)) + MaxRequests
<1> DEFINE L == bucket.lastRefill
<1>1. PassedBy(tick) \subseteq Since(L) \cup Before(L)
  BY RateAssumption DEF RateInv, RateTypes, BucketTells, PassedBy, Since, Before
<1>2. /\ IsFiniteSet(Since(L)) /\ IsFiniteSet(Before(L))
      /\ Cardinality(Since(L)) \in Nat /\ Cardinality(Before(L)) \in Nat
  BY Counted DEF Since, Before
<1>3. Since(L) \cap Before(L) = {}
  BY DEF Since, Before, RateInv, RateTypes
<1>4. /\ IsFiniteSet(Since(L) \cup Before(L))
      /\ Cardinality(Since(L) \cup Before(L)) = Cardinality(Since(L)) + Cardinality(Before(L))
  BY <1>2, <1>3, FS_Union, FS_EmptySet
<1>5. Cardinality(PassedBy(tick)) <= Cardinality(Since(L) \cup Before(L))
  BY <1>1, <1>4, FS_Subset
<1>6. Cardinality(PassedBy(tick)) \in Nat
  BY Counted DEF PassedBy
<1> QED
  BY <1>2, <1>4, <1>5, <1>6, RateAssumption DEF RateInv, BucketTells

(* A bucket filled now has as yet let nothing through, and what passed in the  *)
(* window before it came out of one bucket.                                  *)
LEMMA FilledNow ==
  ASSUME RateInv,
         bucket.at = "none" \/ tick - bucket.lastRefill >= Window
  PROVE  /\ Since(tick) = {} /\ PassedBy(tick) = Before(tick)
         /\ Cardinality(Before(tick)) <= MaxRequests
         /\ \A p \in passed : p[1] < tick
<1>1. \A p \in passed : p[1] < tick
  <2>1. CASE bucket.at = "none"
    BY <2>1 DEF RateInv, NoneLeft
  <2>2. CASE bucket.at # "none"
    BY <2>2, RateAssumption DEF RateInv, BucketTells, RateTypes
  <2> QED
    BY <2>1, <2>2
<1>2. Since(tick) = {} /\ PassedBy(tick) = Before(tick)
  BY <1>1 DEF Since, PassedBy, Before, RateInv, RateTypes
<1>3. Cardinality(Before(tick)) <= MaxRequests
  <2>1. CASE bucket.at = "none"
    BY <2>1 DEF RateInv, NoneLeft
  <2>2. CASE bucket.at # "none"
    <3>1. Before(tick) \subseteq Since(bucket.lastRefill)
      BY <2>2, RateAssumption DEF Before, Since, RateInv, RateTypes
    <3>2. IsFiniteSet(Since(bucket.lastRefill))
          /\ Cardinality(Since(bucket.lastRefill)) \in Nat /\ Cardinality(Before(tick)) \in Nat
      BY Counted DEF Since, Before
    <3>3. Cardinality(Before(tick)) <= Cardinality(Since(bucket.lastRefill))
      BY <3>1, <3>2, FS_Subset
    <3>4. Cardinality(Since(bucket.lastRefill)) + bucket.tokens = MaxRequests /\ bucket.tokens \in Nat
      BY <2>2, RateAssumption DEF RateInv, BucketTells, RateTypes
    <3> QED
      BY <3>2, <3>3, <3>4, RateAssumption
  <2> QED
    BY <2>1, <2>2
<1> QED
  BY <1>1, <1>2, <1>3

(* The bucket is not due: it is taken as it is.                               *)
NotDue == bucket.at = "kept" /\ tick - bucket.lastRefill < Window
LEMMA FoundAsIs ==
  ASSUME RateInv
  PROVE  /\ NotDue => Found = bucket
         /\ ~NotDue => /\ bucket.at = "none" \/ tick - bucket.lastRefill >= Window
                      /\ Found = [at |-> "kept", tokens |-> MaxRequests, lastRefill |-> tick]
<1> DEFINE Full == [at |-> "kept", tokens |-> MaxRequests, lastRefill |-> tick]
<1>1. NotDue => Found = bucket
  BY RateAssumption DEF NotDue, Found, Refilled, RateInv, RateTypes
<1>2. ASSUME ~NotDue PROVE bucket.at = "none" \/ tick - bucket.lastRefill >= Window
  BY <1>2, RateAssumption DEF NotDue, RateInv, RateTypes
<1>3. ASSUME bucket.at = "none" PROVE Found = Full
  BY <1>3 DEF Found
<1>4. ASSUME bucket.at = "kept", tick - bucket.lastRefill >= Window PROVE Found = Full
  <2>1. Found = [bucket EXCEPT !.tokens = MaxRequests, !.lastRefill = tick]
    BY <1>4 DEF Found, Refilled
  <2> DEFINE filled == [bucket EXCEPT !.tokens = MaxRequests]
  <2>2. Found \in [at : {"none", "kept"}, tokens : 0 .. MaxRequests, lastRefill : Nat]
    <3>1. filled \in [at : {"none", "kept"}, tokens : 0 .. MaxRequests, lastRefill : Nat]
      BY RateAssumption DEF RateInv, RateTypes
    <3>2. Found = [filled EXCEPT !.lastRefill = tick]
      BY <2>1
    <3>3. tick \in Nat
      BY DEF RateInv, RateTypes
    <3> HIDE DEF filled
    <3> QED
      BY <3>1, <3>2, <3>3
  <2>3. Found.at = "kept" /\ Found.tokens = MaxRequests /\ Found.lastRefill = tick
    BY <1>4, <2>1 DEF RateInv, RateTypes
  <2> QED
    BY <2>2, <2>3
<1>5. bucket.at \in {"none", "kept"}
  BY DEF RateInv, RateTypes
<1> QED
  BY <1>1, <1>2, <1>3, <1>4, <1>5

(* One more request is counted in the windows that end now.                    *)
LEMMA OnePassed ==
  ASSUME RateInv, passed' = passed \cup {<<tick, Cardinality(passed)>>}, UNCHANGED <<tick, refused>>,
         Cardinality(PassedBy(tick)) < 2 * MaxRequests
  PROVE  /\ IsFiniteSet(passed') /\ passed' \subseteq Nat \X Nat
         /\ \A p \in passed' : p[1] <= tick' /\ p[2] < Cardinality(passed')
         /\ <<tick, Cardinality(passed)>> \notin passed
         /\ RateBounded'
<1> DEFINE new == <<tick, Cardinality(passed)>>
<1>1. Cardinality(passed) \in Nat /\ tick \in Nat
  BY FS_CardinalityType DEF RateInv, RateTypes
<1>2. new \notin passed /\ new[1] = tick /\ new[2] = Cardinality(passed)
  BY <1>1 DEF RateInv, RateTypes
<1>3. IsFiniteSet(passed') /\ Cardinality(passed') = Cardinality(passed) + 1
  BY <1>2, FS_AddElement DEF RateInv, RateTypes
<1>4. passed' \subseteq Nat \X Nat
  BY <1>1 DEF RateInv, RateTypes
<1>5. \A p \in passed' : p[1] <= tick' /\ p[2] < Cardinality(passed')
  BY <1>1, <1>2, <1>3, <1>4 DEF RateInv, RateTypes
<1>6. ASSUME NEW t \in 0 .. tick
      PROVE  /\ Cardinality(PassedBy(t)') <= 2 * MaxRequests
             /\ Cardinality(PassedBy(t)) <= Cardinality(PassedBy(t)')
  <2>1. /\ IsFiniteSet(PassedBy(t)) /\ Cardinality(PassedBy(t)) \in Nat
        /\ Cardinality(PassedBy(t)) <= 2 * MaxRequests
    BY Counted DEF PassedBy, RateInv, RateBounded
  <2>2. CASE t = tick
    <3>1. PassedBy(t)' = PassedBy(t) \cup {new}
      BY <1>1, <1>2, <2>2, RateAssumption DEF PassedBy
    <3>2. new \notin PassedBy(t)
      BY <1>2 DEF PassedBy
    <3>3. Cardinality(PassedBy(t)') = Cardinality(PassedBy(t)) + 1
      BY <2>1, <3>1, <3>2, FS_AddElement
    <3> QED
      BY <2>1, <2>2, <3>3, RateAssumption
  <2>3. CASE t # tick
    <3>1. PassedBy(t)' = PassedBy(t)
      BY <1>1, <1>2, <2>3 DEF PassedBy
    <3> QED
      BY <2>1, <3>1
  <2> QED
    BY <2>2, <2>3
<1>7. \A t \in refused : Cardinality(PassedBy(t)') >= MaxRequests
  <2> SUFFICES ASSUME NEW t \in refused PROVE Cardinality(PassedBy(t)') >= MaxRequests
    OBVIOUS
  <2>1. t \in 0 .. tick /\ Cardinality(PassedBy(t)) >= MaxRequests
    BY DEF RateInv, RateTypes, RateBounded
  <2>2. PassedBy(t)' \subseteq passed' /\ PassedBy(t) \subseteq passed
    BY DEF PassedBy
  <2>3. Cardinality(PassedBy(t)') \in Nat /\ Cardinality(PassedBy(t)) \in Nat
    BY <1>3, <2>2, FS_Subset, FS_CardinalityType DEF RateInv, RateTypes
  <2> QED
    BY <1>6, <2>1, <2>3, RateAssumption
<1>8. RateBounded'
  BY <1>6, <1>7 DEF RateBounded, PassedBy
<1> QED
  BY <1>2, <1>3, <1>4, <1>5, <1>8

(* A request is let through, out of the bucket as it is or a full one.         *)
LEMMA LetThroughKeeps ==
  ASSUME RateInv, LetThrough
  PROVE  RateInv'
<1> DEFINE new == <<tick, Cardinality(passed)>>
<1>1. /\ Found.tokens > 0 /\ bucket' = [Found EXCEPT !.tokens = @ - 1]
      /\ passed' = passed \cup {new} /\ UNCHANGED <<tick, refused>>
  BY DEF LetThrough
<1>2. new[1] = tick /\ tick \in Nat
  BY DEF RateInv, RateTypes
<1>3. CASE NotDue
  <2> DEFINE L == bucket.lastRefill
  <2>1. /\ bucket.tokens > 0 /\ bucket' = [bucket EXCEPT !.tokens = @ - 1]
        /\ bucket.at = "kept" /\ tick < L + Window /\ L <= tick /\ L \in Nat
        /\ bucket.tokens \in 0 .. MaxRequests
    BY <1>1, <1>3, FoundAsIs, RateAssumption DEF NotDue, RateInv, RateTypes, BucketTells
  <2>2. /\ bucket' \in [at : {"none", "kept"}, tokens : 0 .. MaxRequests, lastRefill : Nat]
        /\ bucket'.at = "kept" /\ bucket'.lastRefill = L /\ bucket'.tokens = bucket.tokens - 1
    BY <2>1, RateAssumption DEF RateInv, RateTypes
  <2>3. IsFiniteSet(Since(L)) /\ Cardinality(Since(L)) \in Nat
        /\ Cardinality(PassedBy(tick)) \in Nat
    BY Counted DEF Since, PassedBy
  <2>4. Cardinality(Since(L)) + bucket.tokens = MaxRequests
    BY <2>1 DEF RateInv, BucketTells
  <2>5. Cardinality(PassedBy(tick)) < 2 * MaxRequests
    BY <2>1, <2>3, <2>4, TwoBuckets, RateAssumption
  <2>6. RateBounded' /\ RateTypes' /\ new \notin passed
    BY <1>1, <2>2, <2>5, OnePassed DEF RateTypes, RateInv
  <2>7. {p \in passed' : L <= p[1]} = Since(L) \cup {new} /\ new \notin Since(L)
    BY <1>1, <1>2, <2>1, <2>6 DEF Since
  <2>8. Cardinality({p \in passed' : L <= p[1]}) = Cardinality(Since(L)) + 1
    BY <2>3, <2>7, FS_AddElement
  <2>9. {p \in passed' : p[1] < L /\ L < p[1] + Window} = Before(L)
    BY <1>1, <1>2, <2>1 DEF Before
  <2>10. \A p \in passed' : p[1] < L + Window
    BY <1>1, <1>2, <2>1 DEF RateInv, BucketTells
  <2>11. BucketTells'
    <3>2. Cardinality({p \in passed' : bucket'.lastRefill <= p[1]}) + bucket'.tokens = MaxRequests
      BY <2>1, <2>2, <2>3, <2>4, <2>8
    <3>3. Cardinality({p \in passed' : /\ p[1] < bucket'.lastRefill
                                      /\ bucket'.lastRefill < p[1] + Window}) <= MaxRequests
      BY <2>1, <2>2, <2>9 DEF RateInv, BucketTells
    <3>4. bucket'.lastRefill <= tick'
      BY <1>1, <2>1, <2>2
    <3> QED
      BY <2>2, <2>10, <3>2, <3>3, <3>4 DEF BucketTells, Since, Before
  <2>12. NoneLeft'
    BY <2>2 DEF NoneLeft
  <2> QED
    BY <2>6, <2>11, <2>12 DEF RateInv
<1>4. CASE ~NotDue
  <2>1. bucket' = [at |-> "kept", tokens |-> MaxRequests - 1, lastRefill |-> tick]
    BY <1>1, <1>4, FoundAsIs
  <2>2. /\ Since(tick) = {} /\ PassedBy(tick) = Before(tick)
        /\ Cardinality(Before(tick)) <= MaxRequests
        /\ \A p \in passed : p[1] < tick
    BY <1>4, FoundAsIs, FilledNow
  <2>3. Cardinality(PassedBy(tick)) \in Nat
    BY Counted DEF PassedBy
  <2>4. Cardinality(PassedBy(tick)) < 2 * MaxRequests
    BY <2>2, <2>3, RateAssumption
  <2>5. RateBounded' /\ RateTypes'
    <3>1. bucket' \in [at : {"none", "kept"}, tokens : 0 .. MaxRequests, lastRefill : Nat]
      BY <1>2, <2>1, RateAssumption
    <3>2. tick' \in Nat /\ refused' \subseteq 0 .. tick'
      BY <1>1 DEF RateTypes, RateInv
    <3> QED
      BY <1>1, <2>4, <3>1, <3>2, OnePassed DEF RateTypes
  <2>6. {p \in passed' : tick <= p[1]} = {new}
    BY <1>1, <1>2, <2>2 DEF Since
  <2>7. Cardinality({p \in passed' : tick <= p[1]}) = 1
    BY <2>6, FS_Singleton
  <2>8. {p \in passed' : p[1] < tick /\ tick < p[1] + Window} = Before(tick)
    BY <1>1, <1>2 DEF Before
  <2>9. \A p \in passed' : p[1] < tick + Window
    BY <1>1, <1>2, <2>2, RateAssumption DEF RateInv, RateTypes
  <2>10. BucketTells'
    <3>1. /\ bucket'.at = "kept" /\ bucket'.lastRefill = tick /\ tick' = tick
          /\ bucket'.tokens = MaxRequests - 1
      BY <1>1, <2>1
    <3>2. Cardinality({p \in passed' : bucket'.lastRefill <= p[1]}) + bucket'.tokens = MaxRequests
      BY <2>7, <3>1, RateAssumption
    <3>3. Cardinality({p \in passed' : /\ p[1] < bucket'.lastRefill
                                      /\ bucket'.lastRefill < p[1] + Window}) <= MaxRequests
      BY <2>2, <2>8, <3>1
    <3> QED
      BY <1>2, <2>9, <3>1, <3>2, <3>3 DEF BucketTells, Since, Before
  <2>11. NoneLeft'
    BY <2>1 DEF NoneLeft
  <2> QED
    BY <2>5, <2>10, <2>11 DEF RateInv
<1> QED
  BY <1>3, <1>4

(* A request is refused: its bucket was spent within the window.               *)
LEMMA TurnedAwayKeeps ==
  ASSUME RateInv, TurnAway
  PROVE  RateInv'
<1>1. /\ Found.tokens = 0 /\ bucket' = Found /\ refused' = refused \cup {tick}
      /\ UNCHANGED <<tick, passed>>
  BY DEF TurnAway
<1>2. NotDue /\ Found = bucket
  BY <1>1, FoundAsIs, RateAssumption
<1>3. RateTypes' /\ BucketTells' /\ NoneLeft'
  BY <1>1, <1>2 DEF RateInv, RateTypes, BucketTells, NoneLeft, Since, Before
<1>4. Since(bucket.lastRefill) \subseteq PassedBy(tick)
  BY <1>2, RateAssumption DEF NotDue, Since, PassedBy, RateInv, RateTypes, BucketTells
<1>5. /\ IsFiniteSet(PassedBy(tick)) /\ Cardinality(PassedBy(tick)) \in Nat
      /\ Cardinality(Since(bucket.lastRefill)) \in Nat
  BY Counted DEF PassedBy, Since
<1>6. Cardinality(Since(bucket.lastRefill)) <= Cardinality(PassedBy(tick))
  BY <1>4, <1>5, FS_Subset
<1>7. Cardinality(Since(bucket.lastRefill)) = MaxRequests
  BY <1>1, <1>2, <1>5, RateAssumption DEF NotDue, RateInv, BucketTells
<1>8. RateBounded'
  BY <1>1, <1>5, <1>6, <1>7, RateAssumption DEF RateInv, RateBounded, PassedBy
<1> QED
  BY <1>3, <1>8 DEF RateInv

(* A bucket that is due is removed.                                          *)
LEMMA CleanedUpKeeps ==
  ASSUME RateInv, CleanUp
  PROVE  RateInv'
<1>1. /\ bucket' = NoBucket /\ UNCHANGED <<tick, passed, refused>>
      /\ tick - bucket.lastRefill >= Window
  BY RateAssumption DEF CleanUp, RateInv, RateTypes
<1>2. NoneLeft'
  BY <1>1, FilledNow DEF NoneLeft, Before
<1>3. RateTypes' /\ BucketTells' /\ RateBounded'
  BY <1>1, RateAssumption DEF RateInv, RateTypes, BucketTells, RateBounded, PassedBy, NoBucket
<1> QED
  BY <1>2, <1>3 DEF RateInv

(* Time passes: fewer requests are in the window that ends now.                *)
LEMMA TickKeeps ==
  ASSUME RateInv, Tick
  PROVE  RateInv'
<1>1. tick' = tick + 1 /\ UNCHANGED <<bucket, passed, refused>>
  BY DEF Tick
<1>2. RateTypes' /\ BucketTells'
  BY <1>1 DEF RateInv, RateTypes, BucketTells, Since, Before
<1>3. NoneLeft'
  <2> SUFFICES ASSUME bucket.at = "none"
               PROVE  Cardinality(Before(tick + 1)) <= MaxRequests /\ \A p \in passed : p[1] < tick + 1
    BY <1>1 DEF NoneLeft, Before
  <2>1. \A p \in passed : p[1] < tick
    BY DEF RateInv, NoneLeft
  <2>2. Before(tick + 1) \subseteq Before(tick)
    BY <2>1, RateAssumption DEF Before, RateInv, RateTypes
  <2>3. IsFiniteSet(Before(tick)) /\ Cardinality(Before(tick)) \in Nat
        /\ Cardinality(Before(tick + 1)) \in Nat
    BY Counted DEF Before
  <2>4. Cardinality(Before(tick + 1)) <= Cardinality(Before(tick))
    BY <2>2, <2>3, FS_Subset
  <2> QED
    BY <2>1, <2>3, <2>4, RateAssumption DEF RateInv, RateTypes, NoneLeft
<1>4. Cardinality(PassedBy(tick + 1)) <= 2 * MaxRequests
  <2>1. PassedBy(tick + 1) \subseteq PassedBy(tick)
    BY RateAssumption DEF PassedBy, RateInv, RateTypes
  <2>2. IsFiniteSet(PassedBy(tick)) /\ Cardinality(PassedBy(tick)) \in Nat
        /\ Cardinality(PassedBy(tick + 1)) \in Nat
    BY Counted DEF PassedBy
  <2>3. Cardinality(PassedBy(tick + 1)) <= Cardinality(PassedBy(tick))
    BY <2>1, <2>2, FS_Subset
  <2>4. Cardinality(PassedBy(tick)) <= 2 * MaxRequests
    BY DEF RateInv, RateTypes, RateBounded
  <2> QED
    BY <2>2, <2>3, <2>4, RateAssumption
<1>5. ASSUME NEW t \in 0 .. tick + 1 PROVE Cardinality(PassedBy(t)) <= 2 * MaxRequests
  BY <1>4 DEF RateInv, RateTypes, RateBounded
<1>6. RateBounded'
  BY <1>1, <1>5 DEF RateInv, RateBounded, PassedBy
<1> QED
  BY <1>2, <1>3, <1>6 DEF RateInv

(* For any size of the bucket and any window: no window sees more than two     *)
(* buckets of requests let through, and nobody is turned away who has not      *)
(* spent one within the last window.                                         *)
THEOREM RateBoundedHolds == RateSpec => []RateBounded
<1>1. RateInv /\ [RateNext]_rateVars => RateInv'
  <2> SUFFICES ASSUME RateInv, [RateNext]_rateVars PROVE RateInv'
    OBVIOUS
  <2>1. CASE UNCHANGED rateVars
    BY <2>1 DEF rateVars, RateInv, RateTypes, BucketTells, NoneLeft, RateBounded, Since, Before,
       PassedBy
  <2> QED
    BY <2>1, LetThroughKeeps, TurnedAwayKeeps, CleanedUpKeeps, TickKeeps DEF RateNext
<1>2. RateInv => RateBounded
  BY DEF RateInv
<1> QED
  BY <1>1, <1>2, RateStart, PTL DEF RateSpec

-----------------------------------------------------------------------------
(* EmployeeDesk *)

ClerkPhase == {"idle", "new user", "insert user", "coding", "coded", "new employee",
               "insert employee", "employed", "roles set", "aborted", "created", "failed"}
Held == ({"email", "employee of"} \X Person) \cup ({"user", "employee", "code"} \X Nat)
Onboarding == [phase : ClerkPhase, of : Person, user : Nat, id : Nat, code : Nat,
               holds : SUBSET Held]
EmployeeTypes ==
  /\ userID \in [Person -> Nat] /\ staffID \in [Person -> Nat] /\ staffCode \in [Person -> Nat]
  /\ userSeq \in Nat \ {0} /\ staffSeq \in Nat \ {0}
  /\ clerk \in [Clerk -> Onboarding]

(* No two people share an account, an employee's row or a code, and an         *)
(* employee has an account and a code.                                       *)
RowsDistinct ==
  /\ \A p, q \in Person : p # q =>
       /\ userID[p] # 0 => userID[p] # userID[q]
       /\ staffID[p] # 0 => staffID[p] # staffID[q] /\ staffCode[p] # staffCode[q]
  /\ \A p \in Person : staffID[p] # 0 => userID[p] # 0
  /\ \A p \in Person : staffID[p] = 0 <=> staffCode[p] = 0

(* What a request r has found or written will be unique when it commits.       *)
WithAccount == {"coding", "coded", "new employee", "insert employee",
                "employed", "roles set", "aborted"}
WithCode == WithAccount \ {"coding"}
Employing == {"employed", "roles set", "aborted"}
AccountReady(r) ==
  /\ r.user # 0 /\ EmailOf(r.of) \in r.holds
  /\ \/ userID[r.of] = r.user
     \/ /\ userID[r.of] = 0 /\ UserRow(r.user) \in r.holds
        /\ \A q \in Person : userID[q] # r.user
StaffReady(r) ==
  /\ r.id # 0 /\ StaffOf(r.of) \in r.holds /\ CodeRow(r.code) \in r.holds
  /\ \A q \in Person \ {r.of} : staffID[q] # r.id /\ staffCode[q] # r.code
  /\ staffID[r.of] = r.id \/ (staffID[r.of] = 0 /\ StaffRow(r.id) \in r.holds)
Created(r) == userID[r.of] = r.user /\ r.user # 0 /\ (staffID[r.of] # 0 \/ r.of \in dismissed)
Ready(r) ==
  /\ r.phase = "insert user" => r.user # 0
  /\ r.phase \in WithAccount => AccountReady(r)
  /\ r.phase \in WithCode => r.code # 0
  /\ r.phase = "insert employee" => r.id # 0
  /\ r.phase \in Employing => StaffReady(r)
  /\ r.phase = "created" => Created(r)

(* A value that a transaction under way has inserted is its own.               *)
HoldsApart == \A c, d \in Clerk : c # d => clerk[c].holds \cap clerk[d].holds = {}

EmployeeInv ==
  EmployeeTypes /\ RowsDistinct /\ HoldsApart /\ \A c \in Clerk : Ready(clerk[c])

(* What can be held.                                                         *)
LEMMA HeldValues ==
  /\ \A p \in Person : EmailOf(p) \in Held /\ StaffOf(p) \in Held
  /\ \A n \in Nat : UserRow(n) \in Held /\ StaffRow(n) \in Held /\ CodeRow(n) \in Held
BY DEF EmailOf, StaffOf, UserRow, StaffRow, CodeRow, Held

(* At most one person is employed, and no request is under way.                *)
LEMMA EmployeeStart == DeskInit => EmployeeInv
<1> SUFFICES ASSUME DeskInit PROVE EmployeeInv
  OBVIOUS
<1>1. PICK hired \in SUBSET Person :
        /\ Cardinality(hired) <= 1
        /\ userID = [p \in Person |-> IF p \in hired THEN 1 ELSE 0]
        /\ staffID = userID /\ staffCode = userID
        /\ userSeq = 1 + Cardinality(hired) /\ staffSeq = userSeq
  BY DEF DeskInit
<1>2. IsFiniteSet(hired) /\ Cardinality(hired) \in Nat
  BY DeskAssumption, FS_Subset, FS_CardinalityType
<1>3. \A p, q \in hired : p = q
  <2> SUFFICES ASSUME NEW p \in hired, NEW q \in hired, p # q PROVE FALSE
    OBVIOUS
  <2>1. Cardinality({p}) = 1 /\ IsFiniteSet({p}) /\ {p} \subseteq hired
    BY FS_Singleton
  <2>2. Cardinality(hired) = 1
    BY <1>1, <1>2, <2>1, FS_Subset
  <2>3. PICK x : hired = {x}
    BY <1>2, <2>2, FS_Singleton
  <2> QED
    BY <2>3
<1>4. RowsDistinct
  BY <1>1, <1>3 DEF RowsDistinct
<1>5. NoClerk \in Onboarding /\ NoClerk.phase = "idle" /\ NoClerk.holds = {}
  <2>1. (CHOOSE p \in Person : TRUE) \in Person
    BY DeskAssumption
  <2> QED
    BY <2>1 DEF NoClerk, Onboarding, ClerkPhase
<1>6. clerk = [c \in Clerk |-> NoClerk]
  BY DEF DeskInit
<1>7. EmployeeTypes
  BY <1>1, <1>2, <1>5, <1>6 DEF EmployeeTypes
<1>8. HoldsApart
  BY <1>5, <1>6 DEF HoldsApart
<1>9. \A c \in Clerk : Ready(clerk[c])
  BY <1>5, <1>6 DEF Ready, WithAccount, WithCode, Employing
<1> QED
  BY <1>4, <1>7, <1>8, <1>9 DEF EmployeeInv

(* A request goes on: nothing is committed, and what it is now is as it        *)
(* should be.                                                                *)
LEMMA ClerkGoes ==
  ASSUME EmployeeInv, NEW c \in Clerk, NEW r \in Onboarding,
         clerk' = [clerk EXCEPT ![c] = r], UNCHANGED <<userID, staffID, staffCode, dismissed>>,
         userSeq' \in Nat \ {0}, staffSeq' \in Nat \ {0},
         Ready(r), \A d \in Clerk \ {c} : r.holds \cap clerk[d].holds = {}
  PROVE  EmployeeInv'
<1>1. UNCHANGED <<userID, staffID, staffCode, dismissed>>
  OBVIOUS
<1>2. clerk'[c] = r /\ \A d \in Clerk \ {c} : clerk'[d] = clerk[d]
  BY DEF EmployeeInv, EmployeeTypes
<1>3. EmployeeTypes' /\ RowsDistinct'
  BY <1>1 DEF EmployeeInv, EmployeeTypes, RowsDistinct
<1>4. HoldsApart'
  BY <1>2 DEF EmployeeInv, HoldsApart
<1>5. ASSUME NEW d \in Clerk PROVE Ready(clerk[d])'
  <2>1. Ready(clerk'[d])
    BY <1>2 DEF EmployeeInv
  <2> QED
    BY <1>1, <2>1 DEF Ready, AccountReady, StaffReady, Created
<1> QED
  BY <1>3, <1>4, <1>5 DEF EmployeeInv

(* What the sequences are set back to, and the code that comes next.           *)
LEMMA NextValues ==
  ASSUME EmployeeInv
  PROVE  /\ {n + 1 : n \in OrOne(UserIDs)} \subseteq Nat \ {0}
         /\ {n + 1 : n \in OrOne(StaffIDs)} \subseteq Nat \ {0}
         /\ {1} \cup {n + 1 : n \in Largest(Codes)} \subseteq Nat \ {0}
<1>1. UserIDs \subseteq Nat /\ StaffIDs \subseteq Nat /\ Codes \subseteq Nat
  BY DEF EmployeeInv, EmployeeTypes, UserIDs, StaffIDs, Codes
<1>2. ASSUME NEW ids \in SUBSET Nat PROVE OrOne(ids) \subseteq Nat /\ Largest(ids) \subseteq Nat
  <2>1. Largest(ids) \subseteq Nat
    BY DEF Largest
  <2> QED
    BY <2>1 DEF OrOne
<1>3. ASSUME NEW m \in SUBSET Nat PROVE {n + 1 : n \in m} \subseteq Nat \ {0}
  <2>1. ASSUME NEW k \in {n + 1 : n \in m} PROVE k \in Nat \ {0}
    <3>1. PICK n \in m : k = n + 1
      OBVIOUS
    <3>2. n \in Nat
      OBVIOUS
    <3> QED
      BY <3>1, <3>2
  <2> QED
    BY <2>1
<1> QED
  BY <1>1, <1>2, <1>3

(* The first steps: an account that is there, or a new one.                    *)
LEMMA AccountSteps ==
  ASSUME EmployeeInv, NEW c \in Clerk,
         OnboardExisting(c) \/ SyncUserSeq(c) \/ NextUserID(c)
  PROVE  EmployeeInv'
<1>0. EmployeeTypes /\ HoldsApart /\ Ready(clerk[c])
  BY DEF EmployeeInv
<1>1. NoClerk \in Onboarding /\ NoClerk.holds = {}
  <2>1. (CHOOSE p \in Person : TRUE) \in Person
    BY DeskAssumption
  <2> QED
    BY <2>1 DEF NoClerk, Onboarding, ClerkPhase
<1>2. CASE OnboardExisting(c)
  <2>1. PICK p \in Person :
          /\ userID[p] # 0 /\ ~Holds(c, EmailOf(p))
          /\ clerk' = [clerk EXCEPT ![c] = [NoClerk EXCEPT !.phase = "coding", !.of = p,
                                               !.user = userID[p], !.holds = {EmailOf(p)}]]
    BY <1>2 DEF OnboardExisting
  <2> DEFINE r == [NoClerk EXCEPT !.phase = "coding", !.of = p, !.user = userID[p],
                                  !.holds = {EmailOf(p)}]
  <2>2. /\ r.phase = "coding" /\ r.of = p /\ r.user = userID[p] /\ r.holds = {EmailOf(p)}
        /\ r \in Onboarding
    BY HeldValues, <1>0, <1>1, <2>1 DEF EmployeeTypes, NoClerk, Onboarding, ClerkPhase
  <2>3. Ready(r)
    BY <1>0, <2>1, <2>2 DEF EmployeeTypes, Ready, AccountReady, WithAccount, WithCode, Employing
  <2>4. \A d \in Clerk \ {c} : r.holds \cap clerk[d].holds = {}
    BY <2>1, <2>2 DEF Holds
  <2>5. /\ UNCHANGED <<userID, staffID, staffCode, dismissed>>
        /\ userSeq' \in Nat \ {0} /\ staffSeq' \in Nat \ {0}
    BY <1>0, <1>2 DEF EmployeeTypes, OnboardExisting, rows
  <2>6. clerk' = [clerk EXCEPT ![c] = r]
    BY <2>1
  <2> HIDE DEF r
  <2> QED
    BY <2>2, <2>3, <2>4, <2>5, <2>6, ClerkGoes
<1>3. CASE SyncUserSeq(c)
  <2>1. PICK p \in Person :
          clerk' = [clerk EXCEPT ![c] = [NoClerk EXCEPT !.phase = "new user", !.of = p]]
    BY <1>3 DEF SyncUserSeq
  <2> DEFINE r == [NoClerk EXCEPT !.phase = "new user", !.of = p]
  <2>2. r.phase = "new user" /\ r.holds = {} /\ r \in Onboarding
    BY <1>1 DEF NoClerk, Onboarding, ClerkPhase
  <2>3. Ready(r)
    BY <2>2 DEF Ready, WithAccount, WithCode, Employing
  <2>4. /\ UNCHANGED <<userID, staffID, staffCode, dismissed>>
        /\ userSeq' \in Nat \ {0} /\ staffSeq' \in Nat \ {0}
        /\ \A d \in Clerk \ {c} : r.holds \cap clerk[d].holds = {}
    BY <1>0, <1>3, <2>2, NextValues DEF EmployeeTypes, SyncUserSeq, rows
  <2>5. clerk' = [clerk EXCEPT ![c] = r]
    BY <2>1
  <2> HIDE DEF r
  <2> QED
    BY <2>2, <2>3, <2>4, <2>5, ClerkGoes
<1>4. CASE NextUserID(c)
  <2> DEFINE r == [clerk[c] EXCEPT !.phase = "insert user", !.user = userSeq]
  <2>1. clerk' = [clerk EXCEPT ![c] = r]
    BY <1>4 DEF NextUserID
  <2>2. /\ r.phase = "insert user" /\ r.user = userSeq /\ r.holds = clerk[c].holds
        /\ r \in Onboarding
    BY <1>0 DEF EmployeeTypes, Onboarding, ClerkPhase
  <2>3. Ready(r)
    BY <1>0, <2>2 DEF EmployeeTypes, Ready, WithAccount, WithCode, Employing
  <2>4. /\ UNCHANGED <<userID, staffID, staffCode, dismissed>>
        /\ userSeq' \in Nat \ {0} /\ staffSeq' \in Nat \ {0}
    <3>1. userSeq' = userSeq + 1 /\ staffSeq' = staffSeq
      BY <1>4 DEF NextUserID
    <3>2. UNCHANGED <<userID, staffID, staffCode, dismissed>>
      BY <1>4 DEF NextUserID, rows
    <3> QED
      BY <1>0, <3>1, <3>2 DEF EmployeeTypes
  <2>5. \A d \in Clerk \ {c} : r.holds \cap clerk[d].holds = {}
    BY <1>0, <2>2 DEF HoldsApart
  <2> HIDE DEF r
  <2> QED
    BY <2>1, <2>2, <2>3, <2>4, <2>5, ClerkGoes
<1> QED
  BY <1>2, <1>3, <1>4

(* A request that fails holds nothing any more.                               *)
LEMMA ClerkFails ==
  ASSUME EmployeeInv, NEW c \in Clerk,
         clerk' = [clerk EXCEPT ![c] = [@ EXCEPT !.phase = "failed", !.holds = {}]],
         UNCHANGED <<userID, staffID, staffCode, dismissed, userSeq, staffSeq>>
  PROVE  EmployeeInv'
<1> DEFINE r == [clerk[c] EXCEPT !.phase = "failed", !.holds = {}]
<1>1. r \in Onboarding /\ r.phase = "failed" /\ r.holds = {}
  BY DEF EmployeeInv, EmployeeTypes, Onboarding, ClerkPhase
<1>2. Ready(r)
  BY <1>1 DEF Ready, WithAccount, WithCode, Employing
<1>3. userSeq' \in Nat \ {0} /\ staffSeq' \in Nat \ {0}
  BY DEF EmployeeInv, EmployeeTypes
<1>4. clerk' = [clerk EXCEPT ![c] = r]
  OBVIOUS
<1> HIDE DEF r
<1> QED
  BY <1>1, <1>2, <1>3, <1>4, ClerkGoes

(* The row of a new account is inserted, unless it clashes.                    *)
LEMMA UserInserted ==
  ASSUME EmployeeInv, NEW c \in Clerk, InsertUser(c)
  PROVE  EmployeeInv'
<1> DEFINE p == clerk[c].of
           u == clerk[c].user
           r == [clerk[c] EXCEPT !.phase = "coding", !.holds = {EmailOf(p), UserRow(u)}]
<1>1. EmployeeTypes /\ HoldsApart /\ Ready(clerk[c])
  BY DEF EmployeeInv
<1>2. UNCHANGED <<userID, staffID, staffCode, dismissed, userSeq, staffSeq>>
  BY DEF InsertUser, rows
<1>3. CASE userID[p] # 0 \/ u \in UserIDs
  BY <1>2, <1>3, ClerkFails DEF InsertUser
<1>4. CASE ~(userID[p] # 0 \/ u \in UserIDs)
  <2>1. /\ clerk[c].phase = "insert user" /\ ~Holds(c, EmailOf(p)) /\ ~Holds(c, UserRow(u))
        /\ clerk' = [clerk EXCEPT ![c] = r]
    BY <1>1, <1>4 DEF InsertUser, At, EmployeeTypes, Onboarding
  <2>2. p \in Person /\ u \in Nat
    BY <1>1 DEF EmployeeTypes, Onboarding
  <2>3. /\ r \in Onboarding /\ r.phase = "coding" /\ r.of = p /\ r.user = u
        /\ r.holds = {EmailOf(p), UserRow(u)}
    BY <1>1, <2>2, HeldValues DEF EmployeeTypes, Onboarding, ClerkPhase
  <2>4. u # 0 /\ userID[p] = 0 /\ \A q \in Person : userID[q] # u
    BY <1>1, <1>4, <2>1 DEF Ready, UserIDs
  <2>5. Ready(r)
    BY <2>3, <2>4 DEF Ready, AccountReady, WithAccount, WithCode, Employing
  <2>6. \A d \in Clerk \ {c} : r.holds \cap clerk[d].holds = {}
    BY <2>1, <2>3 DEF Holds
  <2>7. userSeq' \in Nat \ {0} /\ staffSeq' \in Nat \ {0}
    BY <1>1, <1>2 DEF EmployeeTypes
  <2> HIDE DEF r
  <2> QED
    BY <1>2, <2>1, <2>3, <2>5, <2>6, <2>7, ClerkGoes
<1> QED
  BY <1>3, <1>4

(* A request goes on to its next step with what it holds.                      *)
LEMMA ClerkSteps ==
  ASSUME EmployeeInv, NEW c \in Clerk, NEW r \in Onboarding,
         clerk' = [clerk EXCEPT ![c] = r],
         UNCHANGED <<userID, staffID, staffCode, dismissed>>,
         userSeq' \in Nat \ {0}, staffSeq' \in Nat \ {0},
         r.of = clerk[c].of, r.user = clerk[c].user, r.holds = clerk[c].holds,
         clerk[c].phase \in WithAccount, r.phase \in WithCode, r.code # 0,
         r.phase = "insert employee" => r.id # 0,
         r.phase \in Employing =>
           /\ clerk[c].phase \in Employing
           /\ r.id = clerk[c].id /\ r.code = clerk[c].code
  PROVE  EmployeeInv'
<1>1. AccountReady(clerk[c]) /\ (clerk[c].phase \in Employing => StaffReady(clerk[c]))
  BY DEF EmployeeInv, Ready
<1>2. AccountReady(r) /\ (r.phase \in Employing => StaffReady(r))
  BY <1>1 DEF AccountReady, StaffReady
<1>3. Ready(r)
  BY <1>2 DEF Ready, WithAccount, WithCode, Employing
<1>4. \A d \in Clerk \ {c} : r.holds \cap clerk[d].holds = {}
  BY DEF EmployeeInv, HoldsApart
<1> QED
  BY <1>3, <1>4, ClerkGoes

(* The code, the sequence, the id and the role.                               *)
LEMMA MiddleSteps ==
  ASSUME EmployeeInv, NEW c \in Clerk,
         NextEmployeeCode(c) \/ SyncEmployeeSeq(c) \/ NextStaffID(c) \/ AssignOnboardedRole(c)
  PROVE  EmployeeInv'
<1>1. EmployeeTypes /\ Ready(clerk[c])
  BY DEF EmployeeInv
<1>2. UNCHANGED <<userID, staffID, staffCode, dismissed>>
  BY DEF NextEmployeeCode, SyncEmployeeSeq, NextStaffID, AssignOnboardedRole, rows
<1>3. CASE NextEmployeeCode(c)
  <2>1. PICK code \in {1} \cup {n + 1 : n \in Largest(Codes)} :
          clerk' = [clerk EXCEPT ![c].phase = "coded", ![c].code = code]
    BY <1>3 DEF NextEmployeeCode
  <2>2. code \in Nat \ {0}
    BY NextValues
  <2> DEFINE r == [clerk[c] EXCEPT !.phase = "coded", !.code = code]
  <2>3. /\ r \in Onboarding /\ r.phase = "coded" /\ r.of = clerk[c].of
        /\ r.user = clerk[c].user /\ r.holds = clerk[c].holds /\ r.code = code
    BY <1>1, <2>2 DEF EmployeeTypes, Onboarding, ClerkPhase
  <2>4. clerk[c].phase = "coding" /\ UNCHANGED <<userSeq, staffSeq>>
    BY <1>3 DEF NextEmployeeCode, At
  <2>5. userSeq' \in Nat \ {0} /\ staffSeq' \in Nat \ {0}
    BY <1>1, <2>4 DEF EmployeeTypes
  <2>6. clerk' = [clerk EXCEPT ![c] = r]
    BY <1>1, <2>1 DEF EmployeeTypes
  <2> HIDE DEF r
  <2> QED
    BY <1>2, <2>2, <2>3, <2>4, <2>5, <2>6, ClerkSteps DEF WithAccount, WithCode, Employing
<1>4. CASE SyncEmployeeSeq(c)
  <2> DEFINE r == [clerk[c] EXCEPT !.phase = "new employee"]
  <2>1. clerk[c].phase = "coded" /\ clerk' = [clerk EXCEPT ![c] = r]
    BY <1>1, <1>4 DEF SyncEmployeeSeq, At, Go, EmployeeTypes
  <2>2. /\ r \in Onboarding /\ r.phase = "new employee" /\ r.of = clerk[c].of
        /\ r.user = clerk[c].user /\ r.holds = clerk[c].holds /\ r.code = clerk[c].code
    BY <1>1 DEF EmployeeTypes, Onboarding, ClerkPhase
  <2>3. userSeq' \in Nat \ {0} /\ staffSeq' \in Nat \ {0}
    BY <1>1, <1>4, NextValues DEF SyncEmployeeSeq, EmployeeTypes
  <2>4. clerk[c].code # 0
    BY <1>1, <2>1 DEF Ready, WithCode, WithAccount
  <2> HIDE DEF r
  <2> QED
    BY <1>2, <2>1, <2>2, <2>3, <2>4, ClerkSteps DEF WithAccount, WithCode, Employing
<1>5. CASE NextStaffID(c)
  <2> DEFINE r == [clerk[c] EXCEPT !.phase = "insert employee", !.id = staffSeq]
  <2>1. clerk[c].phase = "new employee" /\ clerk' = [clerk EXCEPT ![c] = r]
    BY <1>1, <1>5 DEF NextStaffID, At, EmployeeTypes
  <2>2. /\ r \in Onboarding /\ r.phase = "insert employee" /\ r.of = clerk[c].of
        /\ r.user = clerk[c].user /\ r.holds = clerk[c].holds /\ r.code = clerk[c].code
        /\ r.id # 0
    BY <1>1 DEF EmployeeTypes, Onboarding, ClerkPhase
  <2>3. userSeq' \in Nat \ {0} /\ staffSeq' \in Nat \ {0}
    <3>1. staffSeq' = staffSeq + 1 /\ userSeq' = userSeq
      BY <1>5 DEF NextStaffID
    <3> QED
      BY <1>1, <3>1 DEF EmployeeTypes
  <2>4. clerk[c].code # 0
    BY <1>1, <2>1 DEF Ready, WithCode, WithAccount
  <2> HIDE DEF r
  <2> QED
    BY <1>2, <2>1, <2>2, <2>3, <2>4, ClerkSteps DEF WithAccount, WithCode, Employing
<1>6. CASE AssignOnboardedRole(c)
  <2>1. PICK phase \in {"roles set", "aborted"} : Go(c, phase)
    BY <1>6 DEF AssignOnboardedRole
  <2> DEFINE r == [clerk[c] EXCEPT !.phase = phase]
  <2>2. clerk[c].phase = "employed" /\ UNCHANGED <<userSeq, staffSeq>>
    BY <1>6 DEF AssignOnboardedRole, At
  <2>3. /\ r \in Onboarding /\ r.phase = phase /\ r.of = clerk[c].of
        /\ r.user = clerk[c].user /\ r.holds = clerk[c].holds /\ r.code = clerk[c].code
        /\ r.id = clerk[c].id
    BY <1>1 DEF EmployeeTypes, Onboarding, ClerkPhase
  <2>4. userSeq' \in Nat \ {0} /\ staffSeq' \in Nat \ {0}
    BY <1>1, <2>2 DEF EmployeeTypes
  <2>5. clerk' = [clerk EXCEPT ![c] = r]
    BY <1>1, <2>1 DEF Go, EmployeeTypes
  <2>6. clerk[c].code # 0
    BY <1>1, <2>2 DEF Ready, WithCode, WithAccount
  <2> HIDE DEF r
  <2> QED
    BY <1>2, <2>2, <2>3, <2>4, <2>5, <2>6, ClerkSteps DEF WithAccount, WithCode, Employing
<1> QED
  BY <1>3, <1>4, <1>5, <1>6

(* The employee's row is inserted or changed, unless it clashes.               *)
LEMMA EmployeeInserted ==
  ASSUME EmployeeInv, NEW c \in Clerk, InsertEmployee(c)
  PROVE  EmployeeInv'
<1> DEFINE p == clerk[c].of
           new == IF staffID[p] = 0 THEN clerk[c].id ELSE staffID[p]
           more == {StaffOf(p), StaffRow(clerk[c].id), CodeRow(clerk[c].code)}
           r == [clerk[c] EXCEPT !.phase = "employed", !.id = new,
                                 !.holds = clerk[c].holds \cup more]
<1>1. EmployeeTypes /\ HoldsApart /\ Ready(clerk[c]) /\ RowsDistinct
  BY DEF EmployeeInv
<1>2. UNCHANGED <<userID, staffID, staffCode, dismissed, userSeq, staffSeq>>
  BY DEF InsertEmployee, rows
<1>3. CASE Collides(c)
  BY <1>2, <1>3, ClerkFails DEF InsertEmployee
<1>4. CASE ~Collides(c)
  <2>1. /\ clerk[c].phase = "insert employee"
        /\ ~Holds(c, StaffOf(p)) /\ ~Holds(c, StaffRow(clerk[c].id))
        /\ ~Holds(c, CodeRow(clerk[c].code))
    BY DEF InsertEmployee, At
  <2>2. clerk' = [clerk EXCEPT ![c] = r]
    BY <1>4 DEF InsertEmployee
  <2>3. p \in Person /\ clerk[c].id \in Nat /\ clerk[c].code \in Nat /\ new \in Nat
    BY <1>1 DEF EmployeeTypes, Onboarding
  <2>4. /\ r \in Onboarding /\ r.phase = "employed" /\ r.of = p /\ r.user = clerk[c].user
        /\ r.id = new /\ r.code = clerk[c].code /\ r.holds = clerk[c].holds \cup more
    <3>1. more \subseteq Held
      BY <2>3, HeldValues
    <3>2. clerk[c] \in Onboarding
      BY <1>1 DEF EmployeeTypes
    <3> HIDE DEF more, new
    <3> QED
      BY <2>3, <3>1, <3>2 DEF Onboarding, ClerkPhase
  <2>5. clerk[c].code # 0 /\ clerk[c].id # 0 /\ AccountReady(clerk[c])
    BY <1>1, <2>1 DEF Ready, WithCode, WithAccount
  <2>6. AccountReady(r)
    BY <2>4, <2>5 DEF AccountReady
  <2>7. StaffReady(r)
    <3>1. r.id # 0 /\ (staffID[p] = r.id \/ (staffID[p] = 0 /\ StaffRow(r.id) \in r.holds))
      BY <2>4, <2>5
    <3>2. \A q \in Person \ {p} : staffCode[q] # r.code
      BY <1>4, <2>4 DEF Collides
    <3>3. \A q \in Person \ {p} : staffID[q] # r.id
      BY <1>1, <1>4, <2>3, <2>4 DEF Collides, RowsDistinct
    <3> QED
      BY <2>4, <3>1, <3>2, <3>3 DEF StaffReady
  <2>8. Ready(r)
    BY <2>4, <2>5, <2>6, <2>7 DEF Ready, WithAccount, WithCode, Employing
  <2>9. \A d \in Clerk \ {c} : r.holds \cap clerk[d].holds = {}
    BY <1>1, <2>1, <2>4 DEF Holds, HoldsApart
  <2>10. userSeq' \in Nat \ {0} /\ staffSeq' \in Nat \ {0}
    BY <1>1, <1>2 DEF EmployeeTypes
  <2> HIDE DEF r
  <2> QED
    BY <1>2, <2>2, <2>4, <2>8, <2>9, <2>10, ClerkGoes
<1> QED
  BY <1>3, <1>4

(* A commit: what it writes is nobody else's, neither committed nor about to    *)
(* be.                                                                       *)
LEMMA OnboardingCommitted ==
  ASSUME EmployeeInv, NEW c \in Clerk, CommitOnboarding(c)
  PROVE  EmployeeInv'
<1> DEFINE p == clerk[c].of
           u == clerk[c].user
           i == clerk[c].id
           n == clerk[c].code
<1>1. EmployeeTypes /\ HoldsApart /\ RowsDistinct /\ \A d \in Clerk : Ready(clerk[d])
  BY DEF EmployeeInv
<1>2. p \in Person /\ u \in Nat /\ i \in Nat /\ n \in Nat
  BY <1>1 DEF EmployeeTypes, Onboarding
<1>3. AccountReady(clerk[c]) /\ StaffReady(clerk[c]) /\ n # 0
  BY <1>1 DEF CommitOnboarding, At, Ready, WithAccount, WithCode, Employing
<1>4. /\ userID' = [userID EXCEPT ![p] = u] /\ staffID' = [staffID EXCEPT ![p] = i]
      /\ staffCode' = [staffCode EXCEPT ![p] = n] /\ dismissed' = dismissed \ {p}
      /\ UNCHANGED <<userSeq, staffSeq>>
  BY DEF CommitOnboarding
<1>5. /\ clerk' \in [Clerk -> Onboarding]
      /\ clerk'[c].phase = "created" /\ clerk'[c].of = p /\ clerk'[c].user = u
      /\ clerk'[c].holds = {} /\ \A d \in Clerk \ {c} : clerk'[d] = clerk[d]
  <2> DEFINE r == [clerk[c] EXCEPT !.phase = "created", !.holds = {}]
  <2>1. clerk' = [clerk EXCEPT ![c] = r]
    BY <1>1 DEF CommitOnboarding, EmployeeTypes
  <2>2. /\ r \in Onboarding /\ r.phase = "created" /\ r.of = p /\ r.user = u /\ r.holds = {}
    BY <1>1 DEF EmployeeTypes, Onboarding, ClerkPhase
  <2> HIDE DEF r
  <2> QED
    BY <1>1, <2>1, <2>2 DEF EmployeeTypes
<1>6. EmployeeTypes'
  BY <1>1, <1>2, <1>4, <1>5 DEF EmployeeTypes
<1>7. /\ u # 0 /\ \A q \in Person \ {p} : userID[q] # u
      /\ userID[p] = u \/ (userID[p] = 0 /\ UserRow(u) \in clerk[c].holds)
  <2>1. u # 0 /\ (userID[p] = u \/ (/\ userID[p] = 0 /\ UserRow(u) \in clerk[c].holds
                                   /\ \A q \in Person : userID[q] # u))
    BY <1>3 DEF AccountReady
  <2>2. userID[p] = u => \A q \in Person \ {p} : userID[q] # u
    BY <1>1, <1>2, <2>1 DEF RowsDistinct
  <2> QED
    BY <2>1, <2>2
<1>8. RowsDistinct'
  BY <1>1, <1>2, <1>3, <1>4, <1>7 DEF EmployeeTypes, RowsDistinct, StaffReady
<1>9. HoldsApart'
  BY <1>1, <1>5 DEF HoldsApart
<1>10. Ready(clerk[c])'
  <2>1. Created(clerk[c])'
    BY <1>1, <1>2, <1>3, <1>4, <1>5, <1>7 DEF Created, StaffReady, EmployeeTypes
  <2> QED
    BY <1>5, <2>1 DEF Ready, WithAccount, WithCode, Employing
<1>11. ASSUME NEW d \in Clerk \ {c} PROVE Ready(clerk[d])'
  <2> DEFINE o == clerk[d]
  <2>1. clerk'[d] = clerk[d] /\ o.of \in Person /\ Ready(o)
    BY <1>1, <1>5 DEF EmployeeTypes, Onboarding
  <2>2. \A what \in clerk[c].holds : what \notin o.holds
    BY <1>1 DEF HoldsApart
  <2>3. o.phase \in WithAccount => AccountReady(o)'
    <3> SUFFICES ASSUME o.phase \in WithAccount PROVE AccountReady(o)'
      OBVIOUS
    <3>1. AccountReady(o)
      BY <2>1 DEF Ready
    <3>2. o.of # p
      BY <1>3, <2>2, <3>1 DEF AccountReady
    <3>3. (\A q \in Person : userID[q] # o.user) /\ UserRow(o.user) \in o.holds => u # o.user
      BY <1>2, <1>7, <2>2
    <3> QED
      BY <1>1, <1>2, <1>4, <1>7, <2>1, <3>1, <3>2, <3>3 DEF AccountReady, EmployeeTypes
  <2>4. o.phase \in Employing => StaffReady(o)'
    <3> SUFFICES ASSUME o.phase \in Employing PROVE StaffReady(o)'
      OBVIOUS
    <3>1. StaffReady(o)
      BY <2>1 DEF Ready
    <3>2. o.of # p
      BY <1>3, <2>2, <3>1 DEF StaffReady
    <3>3. n # o.code
      BY <1>3, <2>2, <3>1 DEF StaffReady
    <3>4. i # o.id
      BY <1>2, <1>3, <2>1, <2>2, <3>1, <3>2 DEF StaffReady
    <3> QED
      BY <1>1, <1>2, <1>4, <2>1, <3>1, <3>2, <3>3, <3>4 DEF StaffReady, EmployeeTypes
  <2>5. o.phase = "created" => Created(o)'
    <3> SUFFICES ASSUME o.phase = "created" PROVE Created(o)'
      OBVIOUS
    <3>1. Created(o)
      BY <2>1 DEF Ready
    <3>2. o.of = p => o.user = u
      BY <1>7, <3>1 DEF Created
    <3>3. i # 0
      BY <1>3 DEF StaffReady
    <3> QED
      BY <1>1, <1>2, <1>4, <2>1, <3>1, <3>2, <3>3 DEF Created, EmployeeTypes
  <2> QED
    BY <2>1, <2>3, <2>4, <2>5 DEF Ready
<1> QED
  BY <1>6, <1>8, <1>9, <1>10, <1>11 DEF EmployeeInv

(* The rows change otherwise than by an onboarding: what every request relies  *)
(* on is to be kept.                                                         *)
LEMMA RowsChange ==
  ASSUME EmployeeInv, UNCHANGED clerk,
         userID' \in [Person -> Nat], staffID' \in [Person -> Nat], staffCode' \in [Person -> Nat],
         userSeq' \in Nat \ {0}, staffSeq' \in Nat \ {0}, RowsDistinct',
         \A r \in Onboarding : Ready(r) /\ (\E c \in Clerk : clerk[c] = r) =>
           /\ r.phase \in WithAccount => AccountReady(r)'
           /\ r.phase \in Employing => StaffReady(r)'
           /\ r.phase = "created" => Created(r)'
  PROVE  EmployeeInv'
<1>1. EmployeeTypes' /\ HoldsApart'
  BY DEF EmployeeInv, EmployeeTypes, HoldsApart
<1>2. ASSUME NEW c \in Clerk PROVE Ready(clerk[c])'
  <2>1. clerk[c] \in Onboarding /\ Ready(clerk[c]) /\ clerk'[c] = clerk[c]
    BY DEF EmployeeInv, EmployeeTypes
  <2> QED
    BY <2>1 DEF Ready
<1> QED
  BY <1>1, <1>2 DEF EmployeeInv

(* A reader registers: not with an address or an id that an onboarding has.    *)
LEMMA ReaderRegisters ==
  ASSUME EmployeeInv, RegisterReader
  PROVE  EmployeeInv'
<1>1. EmployeeTypes /\ RowsDistinct
  BY DEF EmployeeInv
<1>2. /\ UNCHANGED <<staffID, staffCode, clerk, dismissed>>
      /\ userSeq' = userSeq + 1 /\ staffSeq' = staffSeq
  BY DEF RegisterReader
<1>3. PICK p \in Person :
        /\ userID[p] = 0 /\ \A c \in Clerk : EmailOf(p) \notin clerk[c].holds
        /\ \A c \in Clerk : UserRow(userSeq) \notin clerk[c].holds
        /\ userID' = IF userSeq \in UserIDs THEN userID ELSE [userID EXCEPT ![p] = userSeq]
  BY DEF RegisterReader
<1>4. CASE userID' = userID
  <2>1. RowsDistinct'
    BY <1>1, <1>2, <1>4 DEF RowsDistinct
  <2>2. userSeq' \in Nat \ {0} /\ staffSeq' \in Nat \ {0}
    BY <1>1, <1>2 DEF EmployeeTypes
  <2> QED
    BY <1>1, <1>2, <1>4, <2>1, <2>2, RowsChange
       DEF EmployeeTypes, Ready, AccountReady, StaffReady, Created
<1>5. CASE userSeq \notin UserIDs /\ userID' = [userID EXCEPT ![p] = userSeq]
  <2>1. userSeq # 0 /\ \A q \in Person : userID[q] # userSeq
    BY <1>1, <1>5 DEF EmployeeTypes, UserIDs
  <2>2. RowsDistinct'
    BY <1>1, <1>2, <1>3, <1>5, <2>1 DEF EmployeeTypes, RowsDistinct
  <2>3. userSeq' \in Nat \ {0} /\ staffSeq' \in Nat \ {0} /\ userID' \in [Person -> Nat]
    BY <1>1, <1>2, <1>5 DEF EmployeeTypes
  <2>4. ASSUME NEW r \in Onboarding, Ready(r), NEW c \in Clerk, clerk[c] = r
        PROVE  /\ r.phase \in WithAccount => AccountReady(r)'
               /\ r.phase \in Employing => StaffReady(r)'
               /\ r.phase = "created" => Created(r)'
    <3>1. r.phase \in WithAccount => AccountReady(r)'
      BY <1>1, <1>3, <1>5, <2>1, <2>4 DEF EmployeeTypes, Ready, AccountReady, Onboarding
    <3>2. r.phase \in Employing => StaffReady(r)'
      BY <1>2, <2>4 DEF Ready, StaffReady
    <3>3. r.phase = "created" => Created(r)'
      BY <1>1, <1>2, <1>3, <1>5, <2>4 DEF EmployeeTypes, Ready, Created, Onboarding
    <3> QED
      BY <3>1, <3>2, <3>3
  <2> QED
    BY <1>1, <1>2, <2>2, <2>3, <2>4, RowsChange DEF EmployeeTypes
<1> QED
  BY <1>3, <1>4, <1>5

(* An employee is removed: not while an onboarding has the row.                *)
LEMMA EmployeeDeleted ==
  ASSUME EmployeeInv, DeleteEmployee
  PROVE  EmployeeInv'
<1>1. EmployeeTypes /\ RowsDistinct
  BY DEF EmployeeInv
<1>2. UNCHANGED <<userID, clerk, userSeq, staffSeq>>
  BY DEF DeleteEmployee
<1>3. PICK p \in Person :
        /\ \A c \in Clerk : StaffOf(p) \notin clerk[c].holds
        /\ staffID' = [staffID EXCEPT ![p] = 0] /\ staffCode' = [staffCode EXCEPT ![p] = 0]
        /\ dismissed' = dismissed \cup {p}
  BY DEF DeleteEmployee
<1>4. /\ staffID' \in [Person -> Nat] /\ staffCode' \in [Person -> Nat]
      /\ userSeq' \in Nat \ {0} /\ staffSeq' \in Nat \ {0} /\ userID' \in [Person -> Nat]
  BY <1>1, <1>2, <1>3 DEF EmployeeTypes
<1>5. RowsDistinct'
  BY <1>1, <1>2, <1>3 DEF EmployeeTypes, RowsDistinct
<1>6. ASSUME NEW r \in Onboarding, Ready(r), NEW c \in Clerk, clerk[c] = r
      PROVE  /\ r.phase \in WithAccount => AccountReady(r)'
             /\ r.phase \in Employing => StaffReady(r)'
             /\ r.phase = "created" => Created(r)'
  <2>1. r.phase \in WithAccount => AccountReady(r)'
    BY <1>2, <1>6 DEF Ready, AccountReady
  <2>2. r.phase \in Employing => StaffReady(r)'
    <3>1. r.phase \in Employing => r.code # 0
      BY <1>6 DEF Ready, WithCode, WithAccount, Employing
    <3> QED
      BY <1>1, <1>3, <1>6, <3>1 DEF EmployeeTypes, Ready, StaffReady, Onboarding
  <2>3. r.phase = "created" => Created(r)'
    BY <1>1, <1>2, <1>3, <1>6 DEF EmployeeTypes, Ready, Created, Onboarding
  <2> QED
    BY <2>1, <2>2, <2>3
<1> QED
  BY <1>2, <1>4, <1>5, <1>6, RowsChange

(* The ranks of those a start enrols differ.                                  *)
LEMMA RanksDiffer ==
  ASSUME EmployeeInv
  PROVE  /\ Cardinality(Unenrolled) \in Nat
         /\ \A p \in Unenrolled : Rank(p) \in Nat
         /\ \A p, q \in Unenrolled : p # q => Rank(p) # Rank(q)
<1>1. EmployeeTypes /\ RowsDistinct
  BY DEF EmployeeInv
<1>2. IsFiniteSet(Unenrolled) /\ Cardinality(Unenrolled) \in Nat
  BY DeskAssumption, FS_Subset, FS_CardinalityType DEF Unenrolled
<1> DEFINE below(p) == {q \in Unenrolled : userID[q] < userID[p]}
<1>3. ASSUME NEW p \in Unenrolled
      PROVE  IsFiniteSet(below(p)) /\ Cardinality(below(p)) \in Nat /\ Rank(p) = Cardinality(below(p))
  <2>1. below(p) \subseteq Unenrolled
    OBVIOUS
  <2> QED
    BY <1>2, <2>1, FS_Subset, FS_CardinalityType DEF Rank
<1>4. ASSUME NEW p \in Unenrolled, NEW q \in Unenrolled, userID[p] < userID[q]
      PROVE  Rank(p) # Rank(q)
  <2>1. below(p) \subseteq below(q) /\ p \in below(q) /\ p \notin below(p)
    BY <1>1, <1>4 DEF Unenrolled, EmployeeTypes
  <2>2. below(p) # below(q)
    BY <2>1
  <2> HIDE DEF below
  <2> QED
    BY <1>3, <2>1, <2>2, FS_Subset
<1>5. ASSUME NEW p \in Unenrolled, NEW q \in Unenrolled, p # q
      PROVE  userID[p] < userID[q] \/ userID[q] < userID[p]
  BY <1>1, <1>5 DEF Unenrolled, RowsDistinct, EmployeeTypes
<1> QED
  BY <1>2, <1>3, <1>4, <1>5

(* A server starts: requests under way end, and whoever is on the staff and no *)
(* employee becomes one, unless the statement fails.                         *)
LEMMA DeskRestarted ==
  ASSUME EmployeeInv, Restart
  PROVE  EmployeeInv'
<1>1. EmployeeTypes /\ RowsDistinct /\ HoldsApart /\ \A c \in Clerk : Ready(clerk[c])
  BY DEF EmployeeInv
<1>2. /\ clerk' = [c \in Clerk |-> IF clerk[c].phase \in {"idle", "created", "failed"} THEN clerk[c]
                                  ELSE [clerk[c] EXCEPT !.phase = "failed", !.holds = {}]]
      /\ UNCHANGED <<userID, userSeq>>
  BY DEF Restart
<1>3. /\ clerk' \in [Clerk -> Onboarding]
      /\ \A c \in Clerk :
           IF clerk[c].phase \in {"idle", "created", "failed"} THEN clerk'[c] = clerk[c]
           ELSE clerk'[c].phase = "failed" /\ clerk'[c].holds = {}
  <2>1. ASSUME NEW c \in Clerk
        PROVE  LET r == [clerk[c] EXCEPT !.phase = "failed", !.holds = {}]
               IN  r \in Onboarding /\ r.phase = "failed" /\ r.holds = {}
    BY <1>1 DEF EmployeeTypes, Onboarding, ClerkPhase
  <2> QED
    BY <1>1, <1>2, <2>1 DEF EmployeeTypes
<1>4. staffSeq' \in Nat \ {0} /\ userSeq' \in Nat \ {0}
  <2>1. staffSeq' = staffSeq + Cardinality(Unenrolled) \/ staffSeq' = staffSeq + 1
    BY DEF Restart
  <2>2. Cardinality(Unenrolled) \in Nat /\ staffSeq \in Nat \ {0} /\ userSeq' \in Nat \ {0}
    BY <1>1, <1>2, RanksDiffer DEF EmployeeTypes
  <2> QED
    BY <2>1, <2>2
<1>5. HoldsApart'
  BY <1>1, <1>3 DEF HoldsApart
<1>6. CASE Enrols
  <2>1. /\ staffID' = [p \in Person |-> IF p \in Unenrolled THEN staffSeq + Rank(p) ELSE staffID[p]]
        /\ staffCode' = [p \in Person |-> IF p \in Unenrolled THEN userID[p] ELSE staffCode[p]]
        /\ dismissed' = dismissed \ Unenrolled
    BY <1>6 DEF Restart
  <2>2. \A p \in Unenrolled : /\ p \in Person /\ userID[p] # 0 /\ staffID[p] = 0
                             /\ staffSeq + Rank(p) \in Nat \ {0}
    BY <1>1, RanksDiffer DEF EmployeeTypes, Unenrolled
  <2>3. EmployeeTypes'
    BY <1>1, <1>2, <1>3, <1>4, <2>1, <2>2 DEF EmployeeTypes
  <2>4. \A p \in Unenrolled, q \in Person \ Unenrolled :
          staffSeq + Rank(p) # staffID[q] /\ userID[p] # staffCode[q]
    BY <1>1, <1>6, <2>2 DEF Enrols, StaffIDs, Codes, EmployeeTypes
  <2>5. \A p, q \in Unenrolled : p # q =>
          staffSeq + Rank(p) # staffSeq + Rank(q) /\ userID[p] # userID[q]
    BY <1>1, <2>2, RanksDiffer DEF EmployeeTypes, RowsDistinct
  <2>6. RowsDistinct'
    <3>1. \A p, q \in Person : p # q /\ staffID'[p] # 0 =>
            staffID'[p] # staffID'[q] /\ staffCode'[p] # staffCode'[q]
      BY <1>1, <2>1, <2>2, <2>4, <2>5 DEF RowsDistinct
    <3>2. \A p \in Person : staffID'[p] # 0 => userID'[p] # 0
      BY <1>1, <1>2, <2>1, <2>2 DEF RowsDistinct
    <3>3. \A p \in Person : staffID'[p] = 0 <=> staffCode'[p] = 0
      BY <1>1, <2>1, <2>2 DEF RowsDistinct
    <3> QED
      BY <1>1, <1>2, <3>1, <3>2, <3>3 DEF RowsDistinct
  <2>7. ASSUME NEW c \in Clerk, clerk[c].phase = "created" PROVE Created(clerk[c])'
    <3>1. Created(clerk[c]) /\ clerk'[c] = clerk[c] /\ clerk[c].of \in Person
      BY <1>1, <1>3, <2>7 DEF Ready, EmployeeTypes, Onboarding
    <3>2. userID'[clerk[c].of] = userID[clerk[c].of]
      BY <1>2
    <3>3. staffID'[clerk[c].of] # 0 \/ clerk[c].of \in dismissed'
      <4>1. CASE clerk[c].of \in Unenrolled
        BY <2>1, <2>2, <3>1, <4>1
      <4>2. CASE clerk[c].of \notin Unenrolled
        BY <2>1, <3>1, <4>2 DEF Created
      <4> QED
        BY <4>1, <4>2
    <3> QED
      BY <3>1, <3>2, <3>3 DEF Created
  <2>8. \A c \in Clerk : Ready(clerk[c])'
    BY <1>3, <2>7 DEF Ready, WithAccount, WithCode, Employing
  <2> QED
    BY <1>5, <2>3, <2>6, <2>8 DEF EmployeeInv
<1>7. CASE ~Enrols
  <2>1. UNCHANGED <<staffID, staffCode, dismissed>>
    BY <1>7 DEF Restart
  <2>2. EmployeeTypes' /\ RowsDistinct'
    BY <1>1, <1>2, <1>3, <1>4, <2>1 DEF EmployeeTypes, RowsDistinct
  <2>3. \A c \in Clerk : Ready(clerk[c])'
    BY <1>1, <1>2, <1>3, <2>1 DEF Ready, WithAccount, WithCode, Employing, Created
  <2> QED
    BY <1>5, <2>2, <2>3 DEF EmployeeInv
<1> QED
  BY <1>6, <1>7

(* However many requests onboard at once and wherever the sequences are set    *)
(* back to: who was onboarded is an employee until removed, and no two people *)
(* share an account, an employee's row or a code.                            *)
THEOREM OnboardedStayHolds == DeskSpec => []OnboardedStay
<1>1. EmployeeInv => OnboardedStay
  BY DEF EmployeeInv, OnboardedStay, RowsDistinct, Ready, Created, At
<1>2. EmployeeInv /\ [DeskNext]_deskVars => EmployeeInv'
  <2> SUFFICES ASSUME EmployeeInv, [DeskNext]_deskVars PROVE EmployeeInv'
    OBVIOUS
  <2>1. CASE UNCHANGED <<userID, staffID, staffCode, userSeq, staffSeq, clerk, dismissed>>
    <3>1. EmployeeTypes' /\ RowsDistinct' /\ HoldsApart'
      BY <2>1 DEF EmployeeInv, EmployeeTypes, RowsDistinct, HoldsApart
    <3>2. ASSUME NEW c \in Clerk PROVE Ready(clerk[c])'
      <4>1. Ready(clerk[c]) /\ clerk'[c] = clerk[c]
        BY <2>1 DEF EmployeeInv
      <4> QED
        BY <2>1, <4>1 DEF Ready, AccountReady, StaffReady, Created
    <3> QED
      BY <3>1, <3>2 DEF EmployeeInv
  <2>2. UpdateEmployee \/ UNCHANGED deskVars =>
          UNCHANGED <<userID, staffID, staffCode, userSeq, staffSeq, clerk, dismissed>>
    BY DEF UpdateEmployee, deskVars
  <2>3. ASSUME NEW c \in Clerk, FailOnboarding(c) PROVE EmployeeInv'
    BY <2>3, ClerkFails DEF FailOnboarding, rows
  <2>4. ASSUME NEW c \in Clerk, ClerkStep(c) PROVE EmployeeInv'
    BY <2>3, <2>4, AccountSteps, UserInserted, MiddleSteps, EmployeeInserted, OnboardingCommitted
       DEF ClerkStep
  <2>5. CASE DeskNext
    BY <2>1, <2>2, <2>4, <2>5, ReaderRegisters, EmployeeDeleted, DeskRestarted DEF DeskNext
  <2>6. CASE UNCHANGED deskVars
    BY <2>1, <2>2, <2>6
  <2> QED
    BY <2>5, <2>6
<1> QED
  BY <1>1, <1>2, EmployeeStart, PTL DEF DeskSpec
=============================================================================
