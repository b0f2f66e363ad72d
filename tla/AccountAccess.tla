---------------------------- MODULE AccountAccess ----------------------------
(***************************************************************************)
(* An account and what its access token opens: registration and the ways   *)
(* to sign in (internal/auth), the guards every staff request passes       *)
(* (pkg/middleware), and the menu permissions they ask for (internal/iam). *)
(*                                                                         *)
(* Several operations name columns that the schema does not have; they end *)
(* in an error and change nothing, whatever their input.                   *)
(***************************************************************************)
EXTENDS Naturals

CONSTANTS MaxCodes,   \* bound: one-time codes and reset tokens asked for
          MaxSignIns  \* bound: sign-ins and changes of the account

ASSUME AccountAssumption == MaxCodes \in Nat /\ MaxSignIns \in Nat

VARIABLES account,     \* the users row: "none", "active" or "inactive"
          superAdmin,  \* its is_super_admin, which nothing in the code changes
          otpRows, resetRows, \* rows of otp_requests and password_reset_tokens
          totp,        \* its second factor: "none", "secret" or "enabled"
          avatar,      \* its avatar_url: "none" or "linked"
          signIn,      \* "idle", or "read": a sign-in has read the row
          claim,       \* the access token a client holds: "none", "staff", "super"
          override,    \* the user's row of user_permission_overrides
          matrixGrant, \* whether the user's role has the menu action
          menuRow,     \* whether an active menu has the path's prefix
          menuCache,   \* the list held for 15 s: "empty", "with" or "without" it
          request,     \* the staff request under way
          sawActive,   \* history: the account was active during the request
          audited,     \* the decisions in permission_audit_log
          accountSteps

userRow == <<account, superAdmin>>
codeVars == <<otpRows, resetRows>>
accountRow == <<account, superAdmin, codeVars, avatar, totp, signIn, claim>>
menuVars == <<override, matrixGrant, menuRow>>
accessVars == <<menuCache, request, audited>>
accountVars == <<accountRow, menuVars, accessVars, sawActive, accountSteps>>

NoRequest == [phase |-> "idle", path |-> "me", claim |-> "none", answer |-> "none",
              shown |-> {}]

AccountStep == accountSteps < MaxSignIns /\ accountSteps' = accountSteps + 1

(***************************************************************************)
(* Accounts and sign-in                                                    *)
(***************************************************************************)

\* What statements name and the schema does not have; such a statement fails,
\* and its transaction, or the request, with it.
SchemaLacks == {"otp_requests.is_used", "password_reset_tokens.used_at", "users.totp_secret",
                "users.provider_id", "users.password_hash NULL", "abac_policies.user_id",
                "UNIQUE user_permission_overrides"}
Runs(names) == names \cap SchemaLacks = {}

\* email and password_hash are NOT NULL: without either the INSERT fails, and
\* so does a second account with the email.
Register ==
    /\ AccountStep
    /\ account = "none"
    /\ account' = "active"
    /\ UNCHANGED <<superAdmin, codeVars, avatar, totp, signIn, claim, menuVars, accessVars>>

\* The row is read: an inactive account is not found.
LoginWithEmail ==
    /\ AccountStep
    /\ signIn = "idle" /\ account = "active"
    /\ signIn' = "read"
    /\ UNCHANGED <<userRow, codeVars, avatar, totp, claim, menuVars, accessVars>>

\* An account that Google's e-mail has no row for would be created.
AuthenticateGoogle ==
    /\ AccountStep
    /\ signIn = "idle"
    /\ CASE account = "active"   -> signIn' = "read" /\ UNCHANGED account
         [] account = "inactive" -> UNCHANGED <<signIn, account>>
         [] account = "none"     -> IF Runs({"users.provider_id", "users.password_hash NULL"})
                                    THEN account' = "active" /\ signIn' = "read"
                                    ELSE UNCHANGED <<signIn, account>>
    /\ UNCHANGED <<superAdmin, codeVars, avatar, totp, claim, menuVars, accessVars>>

\* is_staff is TRUE unless a statement says otherwise, and none does.
generateTokenPair ==
    /\ signIn = "read"
    /\ signIn' = "idle"
    /\ claim' = IF superAdmin THEN "super" ELSE "staff"
    /\ UNCHANGED <<userRow, codeVars, avatar, totp, menuVars, accessVars, accountSteps>>

AccessTokenExpires ==
    /\ AccountStep
    /\ claim # "none" /\ claim' = "none"
    /\ UNCHANGED <<userRow, codeVars, avatar, totp, signIn, menuVars, accessVars>>

SendOTP ==
    /\ otpRows < MaxCodes
    /\ otpRows' = otpRows + 1
    /\ UNCHANGED <<userRow, resetRows, avatar, totp, signIn, claim, menuVars, accessVars,
                   accountSteps>>

\* It would use up the code and sign in whoever has the phone, active or not.
VerifyOTP ==
    /\ otpRows > 0 /\ signIn = "idle"
    /\ IF Runs({"otp_requests.is_used"})
       THEN otpRows' = otpRows - 1 /\ signIn' = "read"
       ELSE UNCHANGED <<otpRows, signIn>>
    /\ UNCHANGED <<userRow, resetRows, avatar, totp, claim, menuVars, accessVars, accountSteps>>

\* What the caller is told does not say whether there is an account.
ForgotPassword ==
    /\ account = "active" /\ resetRows < MaxCodes
    /\ resetRows' = resetRows + 1
    /\ UNCHANGED <<userRow, otpRows, avatar, totp, signIn, claim, menuVars, accessVars,
                   accountSteps>>

\* It would use up the token and set the password hash.
ResetPassword ==
    /\ resetRows > 0
    /\ resetRows' = IF Runs({"password_reset_tokens.used_at"}) THEN resetRows - 1 ELSE resetRows
    /\ UNCHANGED <<userRow, otpRows, avatar, totp, signIn, claim, menuVars, accessVars,
                   accountSteps>>

SetupTOTP ==
    /\ account = "active"
    /\ totp' = IF Runs({"users.totp_secret"}) THEN "secret" ELSE totp
    /\ UNCHANGED <<userRow, codeVars, avatar, signIn, claim, menuVars, accessVars, accountSteps>>

VerifyTOTP ==
    /\ account = "active"
    /\ totp' = IF Runs({"users.totp_secret"}) /\ totp # "none" THEN "enabled" ELSE totp
    /\ UNCHANGED <<userRow, codeVars, avatar, signIn, claim, menuVars, accessVars, accountSteps>>

\* It would deactivate the account, among others by a NULL password hash.
DeleteAccount ==
    /\ account = "active"
    /\ IF Runs({"users.password_hash NULL"})
       THEN account' = "inactive" /\ avatar' = "none"
       ELSE UNCHANGED <<account, avatar>>
    /\ UNCHANGED <<superAdmin, codeVars, totp, signIn, claim, menuVars, accessVars, accountSteps>>

\* The file is written first; the row may fail to be.
UploadAvatar ==
    /\ account = "active"
    /\ avatar' \in {avatar, "linked"}
    /\ UNCHANGED <<userRow, codeVars, totp, signIn, claim, menuVars, accessVars, accountSteps>>

DeleteAvatar ==
    /\ account = "active" /\ avatar' = "none"
    /\ UNCHANGED <<userRow, codeVars, totp, signIn, claim, menuVars, accessVars, accountSteps>>

\* Administrators deactivate an employee, and onboarding activates one again.
ChangeAccount ==
    /\ AccountStep
    /\ account # "none"
    /\ account' \in {"active", "inactive"} \ {account}
    /\ UNCHANGED <<superAdmin, codeVars, avatar, totp, signIn, claim, menuVars, accessVars>>

(***************************************************************************)
(* Menus, roles and overrides                                              *)
(***************************************************************************)
InvalidateMenuCache == menuCache' = "empty"

\* A change of the role's matrix, or of the user's role.
AssignMatrix ==
    /\ matrixGrant' = ~matrixGrant
    /\ InvalidateMenuCache
    /\ UNCHANGED <<accountRow, override, menuRow, request, audited, accountSteps>>

\* An upsert on a constraint that the table lacks.
CreateOverride ==
    /\ IF Runs({"UNIQUE user_permission_overrides"})
       THEN override' \in {"GRANT", "REVOKE"}
       ELSE UNCHANGED override
    /\ UNCHANGED <<accountRow, matrixGrant, menuRow, accessVars, accountSteps>>

OverrideExpires ==
    /\ override # "none" /\ override' = "none"
    /\ UNCHANGED <<accountRow, matrixGrant, menuRow, accessVars, accountSteps>>

\* A server that starts brings the menus up to date; others keep what they hold.
SeedMenus ==
    /\ menuRow' = TRUE
    /\ UNCHANGED <<accountRow, override, matrixGrant, accessVars, accountSteps>>

MenuCacheExpires ==
    /\ InvalidateMenuCache
    /\ UNCHANGED <<accountRow, menuVars, request, audited, accountSteps>>

\* Whether GET /iam/me/menus shows the menu.
ListMenusForUser ==
    /\ menuRow
    /\ superAdmin \/ (override # "REVOKE" /\ (matrixGrant \/ override = "GRANT"))

\* Whether GET /iam/me/permissions lists the action.  The flag is_super_admin is
\* asked for on a connection that is busy, and not seen.
GetUserEffectivePermissions == override = "GRANT" \/ (matrixGrant /\ override # "REVOKE")

(***************************************************************************)
(* A staff request                                                         *)
(***************************************************************************)
Enter(phase) == request' = [request EXCEPT !.phase = phase]
End(answer) == request' = [request EXCEPT !.phase = "done", !.answer = answer]

\* me: /api/v1/iam/me/...; studio: a path of the menu.
AskAccess ==
    /\ request.phase = "idle"
    /\ \E path \in {"me", "studio"} :
         request' = [NoRequest EXCEPT !.phase = "auth", !.path = path, !.claim = claim]
    /\ UNCHANGED <<accountRow, menuVars, menuCache, audited, accountSteps>>

\* MUTANT of RequireAuth: the token alone decides.
RequireTokenOnly ==
    /\ request.phase = "auth"
    /\ IF request.claim = "none" THEN End("401") ELSE Enter("menus")
    /\ UNCHANGED <<accountRow, menuVars, menuCache, audited, accountSteps>>

\* The token is verified, then the account is looked up; RequireStaff follows.
RequireAuth ==
    /\ request.phase = "auth"
    /\ IF request.claim = "none" \/ account # "active" THEN End("401") ELSE Enter("menus")
    /\ UNCHANGED <<accountRow, menuVars, menuCache, audited, accountSteps>>

\* A list still held is used; else it is read, and stored in a step of its own.
ListMenusDirect ==
    /\ request.phase = "menus"
    /\ \/ menuCache = "with" /\ Enter("guard with")
       \/ menuCache = "without" /\ Enter("guard without")
       \/ menuCache = "empty" /\ Enter(IF menuRow THEN "store with" ELSE "store without")
    /\ UNCHANGED <<accountRow, menuVars, menuCache, audited, accountSteps>>

StoreMenus ==
    \E held \in {"with", "without"} :
        /\ request.phase = (IF held = "with" THEN "store with" ELSE "store without")
        /\ menuCache' = held
        /\ Enter(IF held = "with" THEN "guard with" ELSE "guard without")
        /\ UNCHANGED <<accountRow, menuVars, audited, accountSteps>>

isRBACExempt(path) == path = "me"

RequireMenuAccess ==
    /\ request.phase \in {"guard with", "guard without"}
    /\ CASE request.claim = "super" -> End("passed")
         [] request.claim # "super" /\ isRBACExempt(request.path) -> End("passed")
         [] request.claim # "super" /\ ~isRBACExempt(request.path) ->
              IF request.phase = "guard with" THEN Enter("user") ELSE End("403")
    /\ UNCHANGED <<accountRow, menuVars, menuCache, audited, accountSteps>>

\* The rows of the audit log are committed with the check.
Audit(decision) == audited' = audited \cup {decision}

\* What is asked for is VIEW, which leaves no row, or another action.
AuditUnlessView(decision) == Audit(decision) \/ UNCHANGED audited

EvaluateUser ==
    /\ request.phase = "user"
    /\ CASE account # "active" -> End("403") /\ Audit("DENIED")
         [] account = "active" /\ superAdmin -> End("passed") /\ AuditUnlessView("OVERRIDE_GRANT")
         [] account = "active" /\ ~superAdmin -> Enter("override") /\ UNCHANGED audited
    /\ UNCHANGED <<accountRow, menuVars, menuCache, accountSteps>>

\* The user's policies are selected by columns that the table lost when it was
\* created anew.  No row could be written either: were they read, all would hold.
FindABACPolicies == Runs({"abac_policies.user_id"})

\* Any override in force counts, whatever action it is for.
FindActiveOverride ==
    /\ request.phase = "override"
    /\ \/ override = "REVOKE" /\ End("403") /\ Audit("OVERRIDE_REVOKE")
       \/ /\ override = "GRANT"
          /\ IF FindABACPolicies THEN End("passed") /\ Audit("GRANTED")
             ELSE End("500") /\ UNCHANGED audited
       \/ override = "none" /\ Enter("role") /\ UNCHANGED audited
    /\ UNCHANGED <<accountRow, menuVars, menuCache, accountSteps>>

\* The view holds the actions of permissions, which are stored in lower case;
\* the check asks for menu.ACTION.
ViewActions == {"read", "edit", "articles.view"}
httpMethodToAction == {"articles.VIEW", "articles.EDIT"}
HasRoleGrant == httpMethodToAction \cap ViewActions # {}

EvaluateRole ==
    /\ request.phase = "role"
    /\ IF ~HasRoleGrant THEN End("403") /\ Audit("DENIED")
       ELSE IF FindABACPolicies THEN End("passed") /\ AuditUnlessView("GRANTED")
       ELSE End("500") /\ UNCHANGED audited
    /\ UNCHANGED <<accountRow, menuVars, menuCache, accountSteps>>

\* The handler behind the guards: for the user's own paths, what it shows.
Shown == IF request.path = "studio" \/ request.answer # "passed" THEN {}
         ELSE {what \in {"menu", "permission"} :
                 IF what = "menu" THEN ListMenusForUser ELSE GetUserEffectivePermissions}

EndRequest ==
    /\ request.phase = "done"
    /\ request' = [NoRequest EXCEPT !.shown = Shown]
    /\ UNCHANGED <<accountRow, menuVars, menuCache, audited, accountSteps>>

AccountInit ==
    /\ account \in {"none", "active"} /\ superAdmin \in BOOLEAN
    /\ account = "none" => ~superAdmin
    /\ otpRows = 0 /\ resetRows = 0 /\ avatar = "none" /\ totp = "none" /\ signIn = "idle" /\ claim = "none"
    \* Overrides come from outside: see CreateOverride.
    /\ override \in {"none", "GRANT", "REVOKE"}
    /\ matrixGrant = FALSE /\ menuRow \in BOOLEAN /\ menuCache = "empty"
    /\ request = NoRequest /\ sawActive = FALSE /\ audited = {} /\ accountSteps = 0

AccountOps == \/ Register \/ LoginWithEmail \/ AuthenticateGoogle \/ generateTokenPair
              \/ AccessTokenExpires \/ SendOTP \/ VerifyOTP \/ ForgotPassword \/ ResetPassword
              \/ SetupTOTP \/ VerifyTOTP \/ DeleteAccount \/ UploadAvatar \/ DeleteAvatar
              \/ ChangeAccount
MenuOps == \/ AssignMatrix \/ CreateOverride \/ OverrideExpires \/ SeedMenus \/ MenuCacheExpires
AccessOps == \/ AskAccess \/ RequireAuth \/ ListMenusDirect \/ StoreMenus
             \/ RequireMenuAccess \/ EvaluateUser \/ FindActiveOverride \/ EvaluateRole
             \/ EndRequest

AccountNext ==
    /\ AccountOps \/ MenuOps \/ AccessOps
    /\ sawActive' = (account' = "active" \/ (request.phase # "idle" /\ sawActive))
AccountSpec == AccountInit /\ [][AccountNext]_accountVars

(***************************************************************************)
(* Properties                                                              *)
(***************************************************************************)

\* A request gets past the guards only if its account was active at some moment
\* since it began, and, but for the paths every staff member may use, only if
\* the account is a super administrator: no role, grant or override admits
\* anyone else.
PassedOnlyAsSuperAdmin ==
    request.answer = "passed" =>
        /\ sawActive
        /\ isRBACExempt(request.path) \/ superAdmin
=============================================================================
