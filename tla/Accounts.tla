------------------------------ MODULE Accounts ------------------------------
(***************************************************************************)
(* Accounts from registration to the first login: the users collection,    *)
(* the role every talent gets, one-time codes and the lock on failed       *)
(* logins.                                                                 *)
(*                                                                         *)
(* A registration awaits eight calls, any of which may fail, and other     *)
(* requests run in between.  mongoose saves only the paths a handler       *)
(* modified, compared with the document it loaded: a save after a stale    *)
(* read leaves other fields alone.  Replacing the whole array role.users   *)
(* makes the save conditional on the role's version.                       *)
(*                                                                         *)
(* A code stands for the six digits and the type they were sent with.      *)
(* Tokens carry a version nobody increments and are left out, as is the    *)
(* deactivation flag, which only refuses requests.                         *)
(***************************************************************************)
EXTENDS Integers

CONSTANTS
    Users,          \* email addresses
    Registrations,  \* POST /auth/register requests, one run each
    Sessions,       \* activations, verifications and logins under way
    Kinds,          \* values of userType in the requests
    RoleKinds,      \* those of them the UserType enum has, with a seeded role
    MaxCodes,       \* codes are 1..MaxCodes, used again when forgotten
    MaxDbFaults,    \* bound on failing database, cache and email calls
    MaxCrashes,     \* bound on restarts of the server
    MaxDetours,     \* bound on codes that expire, that are asked for while one
                    \* is in the mailbox, or that are verified and not used
    MaxFailures     \* bound on logins with a wrong password

VARIABLES
    user,           \* the users collection, by email
    role,           \* the talent role: its users and its version
    registration,   \* what each registerUser call knows
    session,        \* what each activation, verification or login knows
    mail,           \* the last code mailed to each user and not yet refused
    failures,       \* failed logins of each user so far
    faults, crashes, detours

vars == <<user, role, registration, session, mail, failures,
          faults, crashes, detours>>

counters == <<faults, crashes, detours>>

NoCode == 0
DefaultLoginLimit == 5
AttemptsAllowed == 5

ASSUME AccountsAssumption ==
    /\ MaxCodes \in Nat /\ MaxDbFaults \in Nat /\ MaxCrashes \in Nat
    /\ MaxDetours \in Nat /\ MaxFailures \in Nat
    /\ Users # {} /\ Kinds # {}

----------------------------------------------------------------------------
(* Documents and requests *)

UserDoc == [exists: BOOLEAN,
            role: BOOLEAN,              \* roles has the role
            permissions: BOOLEAN,       \* permissions are those of the role
            sealed: BOOLEAN,            \* the password is stored encrypted
            active: BOOLEAN,
            code: 0..MaxCodes, expired: BOOLEAN,
            loginLimit: Nat,
            locked: BOOLEAN, until: BOOLEAN]    \* isLocked; lockedUntil > now

RoleDoc == [users: SUBSET Users, version: Nat]

RegistrationSteps ==
    {"idle", "find", "insert", "userType", "findRole", "saveUser", "saveRole",
     "permissions", "saveLast", "sendCode", "done"}

\* reply: "ok" is a 200; roleDue and permissionsDue: modified on the document
\* the handler holds and not saved yet.
RegistrationState ==
    [step: RegistrationSteps, email: Users, kind: Kinds, role: RoleDoc,
     roleDue: BOOLEAN, permissionsDue: BOOLEAN,
     reply: {"none", "ok", "error"}]

SessionSteps ==
    {"idle", "verify", "clear", "load", "activate", "loadCount", "count"}

SessionState ==
    [step: SessionSteps,
     email: Users, code: 0..MaxCodes,
     valid: BOOLEAN,                    \* the code was found unexpired
     activates: BOOLEAN,                \* false for POST /auth/verify-otp
     loginLimit: Nat, locked: BOOLEAN]  \* as loaded

TypeOK ==
    /\ user \in [Users -> UserDoc]
    /\ role \in RoleDoc
    /\ registration \in [Registrations -> RegistrationState]
    /\ session \in [Sessions -> SessionState]
    /\ mail \in [Users -> 0..MaxCodes]
    /\ failures \in [Users -> Nat]
    /\ faults \in 0..MaxDbFaults /\ crashes \in 0..MaxCrashes
    /\ detours \in 0..MaxDetours

NoUser == [exists |-> FALSE, role |-> FALSE, permissions |-> FALSE,
           sealed |-> FALSE, active |-> FALSE, code |-> NoCode,
           expired |-> FALSE, loginLimit |-> DefaultLoginLimit,
           locked |-> FALSE, until |-> FALSE]

NewUser == [NoUser EXCEPT !.exists = TRUE]

AnyUser == CHOOSE e \in Users : TRUE
AnyKind == CHOOSE k \in Kinds : TRUE
EmptyRole == [users |-> {}, version |-> 0]

IdleRegistration ==
    [step |-> "idle", email |-> AnyUser, kind |-> AnyKind, role |-> EmptyRole,
     roleDue |-> FALSE, permissionsDue |-> FALSE, reply |-> "none"]

IdleSession == [step |-> "idle", email |-> AnyUser, code |-> NoCode,
                valid |-> FALSE, activates |-> FALSE,
                loginLimit |-> 0, locked |-> FALSE]

Init ==
    /\ user = [e \in Users |-> NoUser]
    /\ role = EmptyRole
    /\ registration = [r \in Registrations |-> IdleRegistration]
    /\ session = [s \in Sessions |-> IdleSession]
    /\ mail = [e \in Users |-> NoCode]
    /\ failures = [e \in Users |-> 0]
    /\ faults = 0 /\ crashes = 0 /\ detours = 0

Fault == /\ faults < MaxDbFaults
         /\ faults' = faults + 1
         /\ UNCHANGED <<crashes, detours>>
NoFault == UNCHANGED counters

----------------------------------------------------------------------------
(* registerUser *)

At(r, step) == registration[r].step = step

MoveTo(r, step) == registration' = [registration EXCEPT ![r].step = step]

Answer(r, reply) ==
    registration' = [registration EXCEPT ![r] =
        [IdleRegistration EXCEPT !.step = "done", !.email = registration[r].email,
                                 !.kind = registration[r].kind, !.reply = reply]]

StartRegistration(r) ==
    /\ At(r, "idle")
    /\ \E e \in Users, k \in Kinds :
           registration' = [registration EXCEPT ![r] =
               [IdleRegistration EXCEPT !.step = "find", !.email = e, !.kind = k]]
    /\ UNCHANGED <<user, role, session, mail, failures, counters>>

\* A failing lookup reads as "no such user".
FindUser(r) ==
    /\ At(r, "find")
    /\ LET e == registration[r].email IN
       \/ user[e].exists /\ NoFault /\ Answer(r, "error")
       \/ ~user[e].exists /\ NoFault /\ MoveTo(r, "insert")
       \/ Fault /\ MoveTo(r, "insert")
    /\ UNCHANGED <<user, role, session, mail, failures>>

\* The unique index on email refuses a second account.
InsertUser(r) ==
    /\ At(r, "insert")
    /\ LET e == registration[r].email IN
       \/ /\ ~user[e].exists /\ NoFault
          /\ user' = [user EXCEPT ![e] = NewUser]
          /\ MoveTo(r, "userType")
       \/ user[e].exists /\ NoFault /\ UNCHANGED user /\ Answer(r, "error")
       \/ Fault /\ UNCHANGED user /\ Answer(r, "error")
    /\ UNCHANGED <<role, session, mail, failures>>

\* createdBy and userType are stored; a type outside the enum fails the
\* validation of the save, and the account stays behind.
SetUserType(r) ==
    /\ At(r, "userType")
    /\ \/ registration[r].kind \in RoleKinds /\ NoFault /\ MoveTo(r, "findRole")
       \/ registration[r].kind \notin RoleKinds /\ NoFault /\ Answer(r, "error")
       \/ Fault /\ Answer(r, "error")
    /\ UNCHANGED <<user, role, session, mail, failures>>

\* attachRole loads the role.  createUser goes on to its last save whenever
\* attachRole fails.
FindRole(r) ==
    /\ At(r, "findRole")
    /\ \/ /\ NoFault
          /\ registration' = [registration EXCEPT ![r].step = "saveUser",
                                                  ![r].role = role]
       \/ Fault /\ MoveTo(r, "saveLast")
    /\ UNCHANGED <<user, role, session, mail, failures>>

\* mutant: attachRole does not look at what became of the user's save
SaveUserRoleUnchecked(r) ==
    /\ At(r, "saveUser")
    /\ \/ /\ NoFault
          /\ user' = [user EXCEPT ![registration[r].email] =
                 [@ EXCEPT !.role = TRUE, !.sealed = TRUE]]
       \/ Fault /\ UNCHANGED user
    /\ MoveTo(r, "saveRole")
    /\ UNCHANGED <<role, session, mail, failures>>

\* One save stores the role and the encrypted password.
SaveUserRole(r) ==
    /\ At(r, "saveUser")
    /\ \/ /\ NoFault
          /\ user' = [user EXCEPT ![registration[r].email] =
                 [@ EXCEPT !.role = TRUE, !.sealed = TRUE]]
          /\ MoveTo(r, "saveRole")
       \/ /\ Fault
          /\ registration' = [registration EXCEPT ![r].step = "saveLast",
                                                  ![r].roleDue = TRUE]
          /\ UNCHANGED user
    /\ UNCHANGED <<role, session, mail, failures>>

\* mutant: role.users is written back without the version check
RoleIsCurrentAlways(r) == TRUE

\* role.save() matches the version that was read.
RoleIsCurrent(r) == registration[r].role.version = role.version

\* mutant: the role lists the user's type in place of the user
ListedType(r) == registration[r].kind

\* The user whose id the role takes.
ListedUser(r) == registration[r].email

SaveRoleUsers(r) ==
    /\ At(r, "saveRole")
    /\ \/ /\ RoleIsCurrent(r) /\ NoFault
          /\ role' = [users |-> registration[r].role.users \cup {ListedUser(r)},
                      version |-> role.version + 1]
          /\ MoveTo(r, "permissions")
       \/ ~RoleIsCurrent(r) /\ NoFault /\ UNCHANGED role /\ MoveTo(r, "saveLast")
       \/ Fault /\ UNCHANGED role /\ MoveTo(r, "saveLast")
    /\ UNCHANGED <<user, session, mail, failures>>

\* clearUserCache and initiatePermissionData.  server.ts creates the cache's
\* client and never opens it, so clearUserCache throws, attachRole answers an
\* error and createUser skips the permissions; with no client, as in the
\* tests, they are set.  There the save may fail after the permissions were
\* set on the document, or a call before that.
InitiatePermissions(r) ==
    /\ At(r, "permissions")
    /\ \/ /\ NoFault
          /\ user' = [user EXCEPT ![registration[r].email].permissions = TRUE]
          /\ MoveTo(r, "saveLast")
       \/ NoFault /\ UNCHANGED user /\ MoveTo(r, "saveLast")
       \/ /\ Fault
          /\ \E due \in BOOLEAN :
                 registration' = [registration EXCEPT ![r].step = "saveLast",
                                                      ![r].permissionsDue = due]
          /\ UNCHANGED user
    /\ UNCHANGED <<role, session, mail, failures>>

\* mutant: createUser returns without its last save
SkipLastSave(r) ==
    /\ At(r, "saveLast")
    /\ NoFault
    /\ MoveTo(r, "sendCode")
    /\ UNCHANGED <<user, role, session, mail, failures>>

\* The last save of createUser: whatever is still due, the password included.
Saved(doc, due) ==
    [doc EXCEPT !.sealed = TRUE, !.role = @ \/ due.roleDue,
                !.permissions = @ \/ due.permissionsDue]

SaveLast(r) ==
    /\ At(r, "saveLast")
    /\ \/ /\ NoFault
          /\ user' = [user EXCEPT ![registration[r].email] = Saved(@, registration[r])]
          /\ MoveTo(r, "sendCode")
       \/ Fault /\ UNCHANGED user /\ Answer(r, "error")
    /\ UNCHANGED <<role, session, mail, failures>>

----------------------------------------------------------------------------
(* Codes: generateOTPCode and the email that carries the code *)

CodesInUse == {user[e].code : e \in Users} \cup {mail[e] : e \in Users}
                  \cup {session[s].code : s \in Sessions}

\* mutant: a code that is still in the slot is kept
StoreCodeOnce(e, k) ==
    user' = [user EXCEPT ![e] =
        IF @.code = NoCode THEN [@ EXCEPT !.code = k, !.expired = FALSE] ELSE @]

\* The user's one slot is overwritten; the email may be lost after that.
StoreCode(e, k) ==
    user' = [user EXCEPT ![e] = [@ EXCEPT !.code = k, !.expired = FALSE]]

SendRegistrationCode(r) ==
    /\ At(r, "sendCode")
    /\ LET e == registration[r].email IN
       \/ \E k \in 1..MaxCodes :
              /\ k \notin CodesInUse
              /\ StoreCode(e, k)
              /\ \/ /\ NoFault /\ mail' = [mail EXCEPT ![e] = k]
                    /\ Answer(r, "ok")
                 \/ Fault /\ UNCHANGED mail /\ Answer(r, "error")
       \/ Fault /\ UNCHANGED <<user, mail>> /\ Answer(r, "error")
    /\ UNCHANGED <<role, session, failures>>

\* resendOTP and forgotPassword: asked for when the mailbox has no code that
\* was not refused, or, at most MaxDetours times, for no reason.
ResendCode(e) ==
    /\ user[e].exists
    /\ \E k \in 1..MaxCodes :
           /\ k \notin CodesInUse
           /\ StoreCode(e, k)
           /\ \/ /\ mail[e] = NoCode /\ NoFault
                 /\ mail' = [mail EXCEPT ![e] = k]
              \/ /\ mail[e] # NoCode
                 /\ detours < MaxDetours /\ detours' = detours + 1
                 /\ mail' = [mail EXCEPT ![e] = k]
                 /\ UNCHANGED <<faults, crashes>>
              \/ Fault /\ UNCHANGED mail
    /\ UNCHANGED <<role, registration, session, failures>>

\* Fifteen minutes pass.
ExpireCode(e) ==
    /\ user[e].code # NoCode /\ ~user[e].expired
    /\ detours < MaxDetours /\ detours' = detours + 1
    /\ user' = [user EXCEPT ![e].expired = TRUE]
    /\ UNCHANGED <<role, registration, session, mail, failures,
                   faults, crashes>>

\* The user reads that the code was refused, or has used it.
Discard(e, k) ==
    mail' = [mail EXCEPT ![e] = IF @ = k THEN NoCode ELSE @]

----------------------------------------------------------------------------
(* activateUserAccount and verifyOTP *)

\* The guard is activateUserAccount's: the account it read is not active yet.
StartActivation(s, e) ==
    /\ session[s].step = "idle"
    /\ user[e].exists /\ ~user[e].active
    /\ mail[e] # NoCode
    /\ session' = [session EXCEPT ![s] =
           [IdleSession EXCEPT !.step = "verify", !.email = e, !.code = mail[e],
                               !.activates = TRUE]]
    /\ UNCHANGED <<user, role, registration, mail, failures, counters>>

\* POST /auth/verify-otp, in place of an unprovoked resend.
StartVerification(s, e) ==
    /\ session[s].step = "idle"
    /\ user[e].exists
    /\ mail[e] # NoCode
    /\ detours < MaxDetours /\ detours' = detours + 1
    /\ session' = [session EXCEPT ![s] =
           [IdleSession EXCEPT !.step = "verify", !.email = e, !.code = mail[e]]]
    /\ UNCHANGED <<user, role, registration, mail, failures,
                   faults, crashes>>

FindCode(s) ==
    /\ session[s].step = "verify"
    /\ LET e == session[s].email IN
       \/ /\ user[e].code = session[s].code
          /\ session' = [session EXCEPT ![s].step = "clear",
                                        ![s].valid = ~user[e].expired]
          /\ UNCHANGED mail
       \/ /\ user[e].code # session[s].code
          /\ session' = [session EXCEPT ![s] = IdleSession]
          /\ Discard(e, session[s].code)
    /\ UNCHANGED <<user, role, registration, failures, counters>>

\* The save empties the slot, whatever code is in it by now.
ClearCode(s) ==
    /\ session[s].step = "clear"
    /\ LET e == session[s].email IN
       /\ user' = [user EXCEPT ![e] = [@ EXCEPT !.code = NoCode, !.expired = FALSE]]
       /\ Discard(e, session[s].code)
    /\ session' = [session EXCEPT ![s] =
           IF session[s].valid /\ session[s].activates
           THEN [@ EXCEPT !.step = "load", !.code = NoCode]
           ELSE IdleSession]
    /\ UNCHANGED <<role, registration, failures, counters>>

LoadUser(s) ==
    /\ session[s].step = "load"
    /\ LET e == session[s].email IN
       session' = [session EXCEPT ![s] =
           [@ EXCEPT !.step = "activate", !.loginLimit = user[e].loginLimit,
                     !.locked = user[e].locked]]
    /\ UNCHANGED <<user, role, registration, mail, failures, counters>>

\* mutant: a locked account is not activated
ActivatedUnlocked(doc, loaded) ==
    [doc EXCEPT !.active = @ \/ ~loaded.locked,
                !.loginLimit = IF loaded.loginLimit = 0 THEN @ ELSE 0]

\* mutant: the counter is reset and not the lock
ActivatedStillLocked(doc, loaded) ==
    [doc EXCEPT !.active = TRUE,
                !.loginLimit = IF loaded.loginLimit = 0 THEN @ ELSE 0]

\* loginLimit = 0 and isLocked = false are written where they differ from
\* what was loaded.
Activated(doc, loaded) ==
    [doc EXCEPT !.active = TRUE,
                !.loginLimit = IF loaded.loginLimit = 0 THEN @ ELSE 0,
                !.locked = @ /\ ~loaded.locked]

\* The token that follows is not modelled.
ActivateAccount(s) ==
    /\ session[s].step = "activate"
    /\ user' = [user EXCEPT ![session[s].email] = Activated(@, session[s])]
    /\ session' = [session EXCEPT ![s] = IdleSession]
    /\ UNCHANGED <<role, registration, mail, failures, counters>>

----------------------------------------------------------------------------
(* loginUser *)

IsLocked(e) == user[e].locked /\ user[e].until

LoginWithPassword(s, e) ==
    /\ session[s].step = "idle"
    /\ user[e].exists /\ ~IsLocked(e)
    /\ user[e].sealed /\ user[e].active
    /\ session' = [session EXCEPT ![s] =
           [IdleSession EXCEPT !.step = "load", !.email = e]]
    /\ UNCHANGED <<user, role, registration, mail, failures, counters>>

LoginWithWrongPassword(s, e) ==
    /\ session[s].step = "idle"
    /\ user[e].exists /\ ~IsLocked(e)
    /\ failures[e] < MaxFailures
    /\ failures' = [failures EXCEPT ![e] = @ + 1]
    /\ session' = [session EXCEPT ![s] =
           [IdleSession EXCEPT !.step = "loadCount", !.email = e]]
    /\ UNCHANGED <<user, role, registration, mail, counters>>

LoadCount(s) ==
    /\ session[s].step = "loadCount"
    /\ LET e == session[s].email IN
       session' = [session EXCEPT ![s] =
           [@ EXCEPT !.step = "count", !.loginLimit = user[e].loginLimit,
                     !.locked = user[e].locked]]
    /\ UNCHANGED <<user, role, registration, mail, failures, counters>>

Counted(doc, loaded) ==
    LET n == loaded.loginLimit + 1
        locks == n >= AttemptsAllowed
    IN [doc EXCEPT !.loginLimit = n,
                   !.locked = @ \/ (locks /\ ~loaded.locked),
                   !.until = @ \/ locks]

IncreaseLoginLimit(s) ==
    /\ session[s].step = "count"
    /\ user' = [user EXCEPT ![session[s].email] = Counted(@, session[s])]
    /\ session' = [session EXCEPT ![s] = IdleSession]
    /\ UNCHANGED <<role, registration, mail, failures, counters>>

\* Thirty minutes pass.
ExpireLock(e) ==
    /\ user[e].until
    /\ user' = [user EXCEPT ![e].until = FALSE]
    /\ UNCHANGED <<role, registration, session, mail, failures, counters>>

\* resetPassword replaces the stored password by the new one, encrypted.
ResetPassword(e) ==
    /\ user[e].exists
    /\ user' = [user EXCEPT ![e].sealed = TRUE]
    /\ UNCHANGED <<role, registration, session, mail, failures, counters>>

----------------------------------------------------------------------------
(* Failures of sessions, and of the server *)

\* A call of the handler fails: it is answered with an error.  The user takes
\* the code for refused.
AbortSession(s) ==
    /\ session[s].step # "idle"
    /\ Fault
    /\ session' = [session EXCEPT ![s] = IdleSession]
    /\ Discard(session[s].email, session[s].code)
    /\ UNCHANGED <<user, role, registration, failures>>

\* The process restarts: every request under way is gone unanswered.
Crash ==
    /\ crashes < MaxCrashes /\ crashes' = crashes + 1
    /\ registration' = [r \in Registrations |->
           IF registration[r].step \in {"idle", "done"} THEN registration[r]
           ELSE [IdleRegistration EXCEPT !.step = "done",
                     !.email = registration[r].email, !.kind = registration[r].kind]]
    /\ session' = [s \in Sessions |-> IdleSession]
    /\ UNCHANGED <<user, role, mail, failures, faults, detours>>

----------------------------------------------------------------------------

RegistrationStep(r) ==
    \/ FindUser(r) \/ InsertUser(r) \/ SetUserType(r)
    \/ FindRole(r) \/ SaveUserRole(r) \/ SaveRoleUsers(r)
    \/ InitiatePermissions(r) \/ SaveLast(r) \/ SendRegistrationCode(r)

SessionStep(s) ==
    \/ FindCode(s) \/ ClearCode(s) \/ LoadUser(s) \/ ActivateAccount(s)
    \/ LoadCount(s) \/ IncreaseLoginLimit(s)

Next ==
    \/ \E r \in Registrations : StartRegistration(r) \/ RegistrationStep(r)
    \/ \E s \in Sessions : SessionStep(s) \/ AbortSession(s)
    \/ \E s \in Sessions, e \in Users :
           \/ StartActivation(s, e) \/ StartVerification(s, e)
           \/ LoginWithPassword(s, e) \/ LoginWithWrongPassword(s, e)
    \/ \E e \in Users :
           \/ ResendCode(e) \/ ExpireCode(e) \/ ExpireLock(e) \/ ResetPassword(e)
    \/ Crash

Spec == Init /\ [][Next]_vars

\* The event loop runs every handler on, and locks run out.  A user whose
\* account is not active asks for a code when there is none left to try, and
\* keeps trying; one whose account is locked waits and logs in again, after a
\* reset if the password is not accepted.
Fairness ==
    /\ \A r \in Registrations : WF_vars(RegistrationStep(r))
    /\ \A s \in Sessions : WF_vars(SessionStep(s))
    /\ \A e \in Users :
           /\ SF_vars(mail[e] = NoCode /\ ~user[e].active /\ ResendCode(e))
           /\ SF_vars(\E s \in Sessions : StartActivation(s, e))
           /\ WF_vars(ExpireLock(e))
           /\ WF_vars(~user[e].sealed /\ ResetPassword(e))
           /\ SF_vars(user[e].locked /\ \E s \in Sessions : LoginWithPassword(s, e))

LiveSpec == Spec /\ Fairness

----------------------------------------------------------------------------
(* Properties *)

\* The role lists only users who have it: attachRole saves the user before
\* the role, no failure or concurrent registration in between turns that
\* around (role.service.ts:79-93).
RoleListsItsUsers == \A e \in role.users : user[e].exists /\ user[e].role

\* No user drops out of the role's list: two registrations replace the whole
\* array, each with what it read before.
RoleKeepsItsUsers == [][role.users \subseteq role'.users]_vars

\* A registration answered 200 leaves an account with an encrypted password,
\* whatever became of its role, and whatever calls failed.
AnsweredIsSealed ==
    \A r \in Registrations : registration[r].reply = "ok" =>
        LET e == registration[r].email IN user[e].exists /\ user[e].sealed

\* An account, once created, can be activated: a registration cut short at
\* any point, a lost email, an expired, overwritten or used code leave a user
\* who keeps asking for codes a way in.
CreatedIsActivated == \A e \in Users : user[e].exists ~> user[e].active

\* The owner of a locked account gets back in: a lock, even one placed by a
\* failed login that was counted across an activation or another login, is
\* taken off by a login after it ran out (auth.service.ts:294, :358).
LockIsLifted == \A e \in Users :
    (user[e].active /\ user[e].locked) ~> ~user[e].locked
=============================================================================
