---------------------------- MODULE ScopedPermissions ----------------------------
(*****************************************************************************)
(* The resource:action:scope permissions (internal/iam/service_enhanced.go):  *)
(* the rows that administrators keep, the materialized view that is refreshed *)
(* after they commit, and the check that the CMS asks for, which reads one    *)
(* table after the other while administrators commit in between.              *)
(*                                                                            *)
(* One user, one role, one resource and one action: a permission is its       *)
(* scope.  A failed commit leaves every row as it was and is a stutter.       *)
(*****************************************************************************)
EXTENDS Naturals, FiniteSets

CONSTANTS Scopes,       \* scopes that permissions may be created with
          MaxPermWrites \* bound: administrators' writes and refresh failures

ASSUME ScopedAssumption == /\ Scopes \subseteq {"all", "department", "own", "custom"}
                           /\ MaxPermWrites \in Nat

VARIABLES userActive,   \* the user's is_active
          superUser,    \* the user's is_super_admin: nothing in the code changes it
          permissions,  \* scopes that have a row in permissions
          directRows,   \* the user's rows of user_permissions that have not expired
          roleRows,     \* scopes of the role's rows of role_permissions
          roleMember,   \* whether the user holds the role
          resourceRows, \* the user's resource_grants on the resource
          policyRows,   \* active rows of abac_policies
          permView,     \* the user's rows of user_effective_permissions_cache
          refresh,      \* the refresh that each write asked for
          permWrites,   \* writes so far: the version of the rows
          viewAt,       \* version of the rows that the view shows
          newest,       \* the newest version that it has ever shown
          noted,        \* version of the last write that asked for a refresh
          drift,        \* version of the last change, or lost refresh, that none is due for
          check,        \* the check under way
          standing      \* what has held ever since the check began

scopedVars == <<userActive, superUser, permissions, directRows, roleRows, roleMember, resourceRows,
                policyRows, permView, refresh, permWrites, viewAt, newest, noted, drift, check,
                standing>>
userVars == <<userActive, superUser>>
rowVars == <<userVars, permissions, directRows, roleRows, roleMember, resourceRows, policyRows>>
versionVars == <<permView, refresh, viewAt, newest, noted, drift>>

\* A row of user_permissions: unique in permission and effect.
\* "undated": valid_from is NULL, as the grant endpoint leaves it when none is sent;
\* "later": valid_from is still to come.
DirectRow == [scope : Scopes, effect : {"GRANT", "REVOKE"}, from : {"dated", "undated", "later"}]
\* A row of resource_grants: its conditions are stored and never looked at.
ResourceRow == [scope : Scopes]
PolicyRow == [effect : {"allow", "deny"}, type : {"global", "other"}]

\* A request may name any scope: "other" is one that no permission has.
Asked == [kind : {"permission", "resource"},
          scope : {"all", "department", "own", "custom", "other"}]
NoCheck == [phase |-> "idle", ask |-> [kind |-> "permission", scope |-> "all"],
            roles |-> "none", answer |-> "none"]

(***************************************************************************)
(* Evaluating a check                                                      *)
(***************************************************************************)
scopeHierarchy == [all |-> 4, department |-> 3, own |-> 2, custom |-> 1, other |-> 0]

\* Does a permission of scope granted answer a request for scope requested?
matchesScope(requested, granted) ==
    \/ granted = "all"
    \/ scopeHierarchy[granted] >= scopeHierarchy[requested]

\* A role's permission: "own" needs a resource id, which no caller passes.
evaluateScopeWithOwnership(requested, granted) ==
    granted # "own" /\ matchesScope(requested, granted)

\* Conditions are kept as a json.RawMessage, which is neither of the two types
\* the function takes apart, so no condition is ever found to hold.
evaluateConditions(p) == FALSE

policyApplies(p) == p.type = "global"

\* The first policy that applies and whose conditions hold decides, else allow.
evaluateABACPolicies(ps) ==
    LET applying == {p \in ps : policyApplies(p) /\ evaluateConditions(p)}
    IN  applying = {} \/ \E p \in applying : p.effect = "allow"

\* The queries pass over a row whose valid_from is still to come.
InForce == {r \in directRows : r.from # "later"}

\* Reading the user's rows: a NULL valid_from does not scan into a time.Time.
UserPermissionsError == \E r \in InForce : r.from = "undated"
Revoked == \E r \in InForce : r.effect = "REVOKE"
Granted(scope) == \E r \in InForce : r.effect = "GRANT" /\ matchesScope(scope, r.scope)
RoleGrants(scope) == \E s \in roleRows : evaluateScopeWithOwnership(scope, s)

\* What forbids and administrators may change while a check runs.
Facts ==
    {f \in {"inactive", "revoked", "no direct grant", "no role", "no role grant",
            "no resource grant"} :
        CASE f = "inactive"          -> ~userActive
          [] f = "revoked"           -> Revoked
          [] f = "no direct grant"   -> ~Granted(check.ask.scope)
          [] f = "no role"           -> ~roleMember
          [] f = "no role grant"     -> ~RoleGrants(check.ask.scope)
          [] f = "no resource grant" -> resourceRows = {}}

To(phase) == check' = [check EXCEPT !.phase = phase]
Answer(a) == check' = [check EXCEPT !.phase = "done", !.answer = a]

\* CheckPermission and CheckResourceAccess; the second asks for scope "all".
AskCheck ==
    /\ check.phase = "idle"
    /\ \E ask \in Asked :
         /\ ask.kind = "resource" => ask.scope = "all"
         /\ check' = [NoCheck EXCEPT !.ask = ask,
                        !.phase = IF ask.kind = "resource" THEN "grant" ELSE "user"]
    /\ UNCHANGED <<rowVars, versionVars, permWrites>>

\* CanAccessResource: any live grant on the resource answers, whoever the user
\* is by now and whatever its conditions say.
ReadResourceGrants ==
    /\ check.phase = "grant"
    /\ IF resourceRows # {} THEN Answer("allowed by grant") ELSE To("user")
    /\ UNCHANGED <<rowVars, versionVars, permWrites>>

ReadUser ==
    /\ check.phase = "user"
    /\ \/ ~userActive /\ Answer("denied")
       \/ userActive /\ superUser /\ Answer("allowed")
       \/ userActive /\ ~superUser /\ To("direct")
    /\ UNCHANGED <<rowVars, versionVars, permWrites>>

\* MUTANT of ReadUserPermissions: a grant is looked for before a revocation.
GrantBeforeRevocation ==
    /\ check.phase = "direct"
    /\ IF Granted(check.ask.scope) THEN Answer("allowed")
       ELSE IF Revoked THEN Answer("denied") ELSE To("roles")
    /\ UNCHANGED <<rowVars, versionVars, permWrites>>

ReadUserPermissions ==
    /\ check.phase = "direct"
    /\ \/ UserPermissionsError /\ Answer("error")
       \/ ~UserPermissionsError /\ Revoked /\ Answer("denied")
       \/ /\ ~UserPermissionsError /\ ~Revoked
          /\ IF Granted(check.ask.scope) THEN Answer("allowed") ELSE To("roles")
    /\ UNCHANGED <<rowVars, versionVars, permWrites>>

ReadRoles ==
    /\ check.phase = "roles"
    /\ check' = [check EXCEPT !.phase = "rolePerms", !.roles = IF roleMember THEN "held" ELSE "none"]
    /\ UNCHANGED <<rowVars, versionVars, permWrites>>

ReadRolePermissions ==
    /\ check.phase = "rolePerms"
    /\ IF check.roles = "held" /\ RoleGrants(check.ask.scope) THEN To("policies") ELSE Answer("denied")
    /\ UNCHANGED <<rowVars, versionVars, permWrites>>

ReadPolicies ==
    /\ check.phase = "policies"
    /\ Answer(IF evaluateABACPolicies(policyRows) THEN "allowed" ELSE "denied")
    /\ UNCHANGED <<rowVars, versionVars, permWrites>>

EndCheck ==
    /\ check.phase = "done"
    /\ check' = NoCheck
    /\ UNCHANGED <<rowVars, versionVars, permWrites>>

(***************************************************************************)
(* The materialized view                                                   *)
(***************************************************************************)
RoleViewRows == IF roleMember THEN roleRows ELSE {}
DirectViewRows == {r.scope : r \in {d \in InForce : d.effect = "GRANT"}}
ViewRows == RoleViewRows \cup DirectViewRows

\* The view is a UNION ALL under a unique index: a permission that the user (in
\* the code: any user) has from the role and as a grant makes both REFRESH
\* statements fail.
ViewClash == RoleViewRows \cap DirectViewRows # {}

\* A refresh reads the rows of one version and installs what it read later on.
Refresh == [phase : {"none", "due", "reading"}, at : 0 .. MaxPermWrites, view : SUBSET Scopes]
NoRefresh == [phase |-> "none", at |-> 0, view |-> {}]

(***************************************************************************)
(* Administrators' writes, each in a transaction of its own                *)
(***************************************************************************)
Writing == permWrites < MaxPermWrites /\ permWrites' = permWrites + 1

NoRefreshDue == UNCHANGED <<versionVars, check>>
\* The rows of the view change and nobody is told.
Unannounced == drift' = permWrites' /\ UNCHANGED <<permView, refresh, viewAt, newest, noted, check>>

\* MUTANT of RefreshDue: the refresh is begun before the write has committed.
RefreshBeforeCommit ==
    /\ refresh' = [refresh EXCEPT ![permWrites'] =
                     [phase |-> "reading", at |-> permWrites, view |-> ViewRows]]
    /\ noted' = permWrites'
    /\ UNCHANGED <<permView, viewAt, newest, drift, check>>

\* What is due once a write has committed.
RefreshDue ==
    /\ refresh' = [refresh EXCEPT ![permWrites'] = [NoRefresh EXCEPT !.phase = "due"]]
    /\ noted' = permWrites'
    /\ UNCHANGED <<permView, viewAt, newest, drift, check>>

\* A permission is unique in its resource, action and scope.
NewScopes == Scopes \ permissions

CreatePermission ==
    /\ Writing
    /\ \E s \in NewScopes : permissions' = permissions \cup {s}
    /\ UNCHANGED <<userVars, directRows, roleRows, roleMember, resourceRows, policyRows>>
    /\ RefreshDue

\* What POST /users/:userId/permissions-new makes of its body: the effect is
\* GRANT unless sent, and valid_from stays unset unless sent.
GrantBody == {r \in DirectRow : r.scope \in permissions}

\* The upsert: one row for each permission and effect.
DirectAfterGrant(row) ==
    {r \in directRows : r.scope # row.scope \/ r.effect # row.effect} \cup {row}

GrantUserPermission ==
    /\ Writing
    /\ \E row \in GrantBody : directRows' = DirectAfterGrant(row)
    /\ UNCHANGED <<userVars, permissions, roleRows, roleMember, resourceRows, policyRows>>
    /\ RefreshDue

\* The delete names the permission only: a revocation goes with the grant.
DirectAfterRevoke(scope) == {r \in directRows : r.scope # scope}

RevokeUserPermission ==
    /\ Writing
    /\ \E s \in permissions : directRows' = DirectAfterRevoke(s)
    /\ UNCHANGED <<userVars, permissions, roleRows, roleMember, resourceRows, policyRows>>
    /\ RefreshDue

\* resource_grants is unique in user, resource and permission.
FreeGrants == {g \in ResourceRow : g.scope \in permissions} \ resourceRows

CreateResourceGrant ==
    /\ Writing
    /\ \E g \in FreeGrants : resourceRows' = resourceRows \cup {g}
    /\ UNCHANGED <<userVars, permissions, directRows, roleRows, roleMember, policyRows>>
    /\ NoRefreshDue

RevokeResourceGrant ==
    /\ Writing
    /\ \E g \in resourceRows : resourceRows' = resourceRows \ {g}
    /\ UNCHANGED <<userVars, permissions, directRows, roleRows, roleMember, policyRows>>
    /\ NoRefreshDue

\* The ids sent, without duplicates; an empty list is refused.
RolePermissionIDs == SUBSET permissions \ {{}}

AssignRolePermissionsNew ==
    /\ Writing
    /\ \E ids \in RolePermissionIDs : roleRows' = ids
    /\ UNCHANGED <<userVars, permissions, directRows, roleMember, resourceRows, policyRows>>
    /\ RefreshDue

\* POST /roles/:id/permissions deletes the ids of its "revoke" list from the
\* role and refreshes nothing.
RevokeRolePermissionsBulk ==
    /\ Writing
    /\ \E ids \in RolePermissionIDs : ids \cap roleRows # {} /\ roleRows' = roleRows \ ids
    /\ UNCHANGED <<userVars, permissions, directRows, roleMember, resourceRows, policyRows>>
    /\ Unannounced

CreateEnhancedABACPolicy ==
    /\ Writing
    /\ \E p \in PolicyRow : policyRows' = policyRows \cup {p}
    /\ UNCHANGED <<userVars, permissions, directRows, roleRows, roleMember, resourceRows>>
    /\ RefreshDue

\* An update changes the effect and keeps the type.
UpdateEnhancedABACPolicy ==
    /\ Writing
    /\ \E p \in policyRows, e \in {"allow", "deny"} :
         policyRows' = (policyRows \ {p}) \cup {[p EXCEPT !.effect = e]}
    /\ UNCHANGED <<userVars, permissions, directRows, roleRows, roleMember, resourceRows>>
    /\ RefreshDue

DeleteEnhancedABACPolicy ==
    /\ Writing
    /\ \E p \in policyRows : policyRows' = policyRows \ {p}
    /\ UNCHANGED <<userVars, permissions, directRows, roleRows, roleMember, resourceRows>>
    /\ RefreshDue

\* Role assignment and the staff endpoints change the user's role or row and
\* ask for no refresh; the view does not look at is_active.
ChangeUser ==
    /\ Writing
    /\ \/ roleMember' = ~roleMember /\ UNCHANGED userActive /\ Unannounced
       \/ userActive' = ~userActive /\ UNCHANGED roleMember /\ NoRefreshDue
    /\ UNCHANGED <<superUser, permissions, directRows, roleRows, resourceRows, policyRows>>

\* A row whose valid_until or expires_at has come is no longer read.
RowExpires ==
    /\ Writing
    /\ \/ \E r \in directRows : directRows' = directRows \ {r} /\ UNCHANGED resourceRows
       \/ \E g \in resourceRows : resourceRows' = resourceRows \ {g} /\ UNCHANGED directRows
    /\ UNCHANGED <<userVars, permissions, roleRows, roleMember, policyRows>>
    /\ Unannounced

\* A row whose valid_from has come is read from now on.
RowStarts ==
    /\ Writing
    /\ \E r \in directRows :
         /\ r.from = "later"
         /\ directRows' = (directRows \ {r}) \cup {[r EXCEPT !.from = "dated"]}
    /\ UNCHANGED <<userVars, permissions, roleRows, roleMember, resourceRows, policyRows>>
    /\ Unannounced

(***************************************************************************)
(* Refreshing the view, after the commit and outside any transaction       *)
(***************************************************************************)

\* The statement takes its snapshot, and fails at once on a permission held
\* twice: RefreshPermissionCache swallows the errors of both its attempts.
BeginRefresh(n) ==
    /\ refresh[n].phase = "due"
    /\ refresh' = [refresh EXCEPT ![n] =
                     IF ViewClash THEN NoRefresh
                     ELSE [phase |-> "reading", at |-> permWrites, view |-> ViewRows]]
    /\ UNCHANGED <<rowVars, permWrites, permView, viewAt, newest, noted, drift, check>>

\* The lock on the view comes after the snapshot: of two refreshes, the one that
\* read first may install what it read last.
EndRefresh(n) ==
    /\ refresh[n].phase = "reading"
    /\ refresh' = [refresh EXCEPT ![n] = NoRefresh]
    /\ permView' = refresh[n].view
    /\ viewAt' = refresh[n].at
    /\ newest' = IF newest < refresh[n].at THEN refresh[n].at ELSE newest
    /\ UNCHANGED <<rowVars, permWrites, noted, drift, check>>

\* The process ends, or the database fails, before the refresh has ended.
RefreshLost(n) ==
    /\ refresh[n].phase # "none"
    /\ Writing
    /\ refresh' = [refresh EXCEPT ![n] = NoRefresh]
    /\ drift' = permWrites'
    /\ UNCHANGED <<rowVars, permView, viewAt, newest, noted, check>>

RefreshPermissionCache ==
    \E n \in DOMAIN refresh : BeginRefresh(n) \/ EndRefresh(n) \/ RefreshLost(n)

\* What GET /users/:userId/permissions-new/effective lists.
EffectivePermissionsNew == permView

ScopedInit ==
    /\ \E s \in Scopes : permissions = Scopes \ {s}
    /\ userActive = TRUE /\ superUser \in BOOLEAN
    /\ directRows = {} /\ roleRows = {} /\ roleMember = TRUE
    /\ resourceRows = {} /\ policyRows = {} /\ permView = {}
    /\ refresh = [n \in 1 .. MaxPermWrites |-> NoRefresh]
    /\ permWrites = 0 /\ viewAt = 0 /\ newest = 0 /\ noted = 0 /\ drift = 0
    /\ check = NoCheck /\ standing = {}

CheckStep == \/ AskCheck \/ ReadResourceGrants \/ ReadUser \/ ReadUserPermissions
             \/ ReadRoles \/ ReadRolePermissions \/ ReadPolicies \/ EndCheck
AdminStep == \/ CreatePermission \/ GrantUserPermission \/ RevokeUserPermission
             \/ CreateResourceGrant \/ RevokeResourceGrant \/ AssignRolePermissionsNew
             \/ RevokeRolePermissionsBulk \/ CreateEnhancedABACPolicy
             \/ UpdateEnhancedABACPolicy \/ DeleteEnhancedABACPolicy
             \/ ChangeUser \/ RowExpires \/ RowStarts \/ RefreshPermissionCache

\* The history of a check: at its start what holds, later what still does.
Observed == standing' = IF check.phase = "idle" THEN Facts' ELSE standing \cap Facts'

ScopedNext == (CheckStep \/ AdminStep) /\ Observed
ScopedSpec == ScopedInit /\ [][ScopedNext]_scopedVars

(***************************************************************************)
(* Properties                                                              *)
(***************************************************************************)

\* A check that reads its tables one after the other still never allows what
\* one table forbade from the beginning of the check to its end: an inactive
\* user; over a revocation; to a user who is neither super administrator nor
\* granted it directly nor in a role, or whose role lacks it.  A resource grant
\* answers by itself, and only if there has been one.
AllowedOnStandingGround ==
    /\ check.answer = "allowed" =>
         /\ "inactive" \notin standing
         /\ ~superUser => "revoked" \notin standing
         /\ ~superUser /\ "no direct grant" \in standing =>
              standing \cap {"no role", "no role grant"} = {}
    /\ check.answer = "allowed by grant" => "no resource grant" \notin standing

\* Refreshes overlap, fail and overtake each other, and still the effective
\* permissions shown are in the end those that the rows give.  The exceptions, all
\* of them: a refresh is still due or under way; one was lost, or the rows changed
\* without asking for one (the role given or taken, a bulk revocation from the role,
\* a row that expired or came into force), since the version shown; a refresh that
\* read before the newest one was installed after it; a permission is held twice.
RefreshesIdle == \A n \in DOMAIN refresh : refresh[n].phase = "none"
ShownIsWhatRowsGive ==
    RefreshesIdle /\ drift <= viewAt /\ newest <= viewAt /\ ~ViewClash
        => EffectivePermissionsNew = ViewRows
=================================================================================
