-------------------------- MODULE Accounts_proofs --------------------------
(***************************************************************************)
(* RoleListsItsUsers, AnsweredIsSealed and RoleKeepsItsUsers hold for any  *)
(* users, requests and bounds.  What makes them inductive: a user document *)
(* only gains its role and its encrypted password; a registration past its *)
(* insert has an account, one about to save the role has given it to the   *)
(* user; and a role read at the version it still has is the role stored.   *)
(***************************************************************************)
EXTENDS Accounts, TLAPS

Stored == RegistrationSteps \ {"idle", "find", "insert", "done"}

\* What a registration has stored at the call it awaits.
StepMatches(r) ==
    LET e == registration[r].email IN
    /\ registration[r].step \in Stored => user[e].exists
    /\ registration[r].step = "saveRole" => user[e].role
    /\ registration[r].step = "sendCode" => user[e].sealed

\* The role a registration read lists only users who have it.
RoleReadListsItsUsers(r) ==
    \A e \in registration[r].role.users : user[e].exists /\ user[e].role

\* The role read is the role stored unless the version has moved on.
RoleReadMatches(r) == registration[r].step \in {"saveUser", "saveRole"} =>
    /\ registration[r].role.version <= role.version
    /\ registration[r].role.version = role.version =>
           registration[r].role.users = role.users

Answered(r) == registration[r].reply = "ok" =>
    LET e == registration[r].email IN user[e].exists /\ user[e].sealed

RegistrationInv(r) ==
    StepMatches(r) /\ RoleReadListsItsUsers(r) /\ RoleReadMatches(r) /\ Answered(r)

IInv == /\ TypeOK
        /\ RoleListsItsUsers
        /\ \A r \in Registrations : RegistrationInv(r)

----------------------------------------------------------------------------
(* Types *)

LEMMA IdleType ==
    /\ IdleRegistration \in RegistrationState
    /\ IdleSession \in SessionState
    /\ NoUser \in UserDoc
    /\ EmptyRole \in RoleDoc
<1>1. AnyUser \in Users /\ AnyKind \in Kinds
  BY AccountsAssumption DEF AnyUser, AnyKind
<1>2. EmptyRole \in RoleDoc
  BY DEF EmptyRole, RoleDoc
<1>3. IdleRegistration \in RegistrationState
  BY <1>1, <1>2 DEF IdleRegistration, RegistrationState, RegistrationSteps
<1>4. IdleSession \in SessionState
  BY <1>1, AccountsAssumption DEF IdleSession, SessionState, SessionSteps, NoCode
<1>5. NoUser \in UserDoc
  BY AccountsAssumption DEF NoUser, UserDoc, NoCode, DefaultLoginLimit
<1> QED BY <1>2, <1>3, <1>4, <1>5

CountersType ==
    /\ faults \in 0..MaxDbFaults /\ crashes \in 0..MaxCrashes
    /\ detours \in 0..MaxDetours

\* Counters stay within their bounds.
LEMMA FaultType ==
    ASSUME TypeOK, Fault \/ NoFault
    PROVE  CountersType'
BY AccountsAssumption DEF TypeOK, CountersType, Fault, NoFault, counters

LEMMA MoveToType ==
    ASSUME TypeOK, NEW r \in Registrations, NEW step \in RegistrationSteps,
           MoveTo(r, step)
    PROVE  registration' \in [Registrations -> RegistrationState]
BY DEF TypeOK, MoveTo, RegistrationState

LEMMA AnswerType ==
    ASSUME TypeOK, NEW r \in Registrations, NEW reply \in {"ok", "error"},
           Answer(r, reply)
    PROVE  registration' \in [Registrations -> RegistrationState]
<1>1. [IdleRegistration EXCEPT !.step = "done", !.email = registration[r].email,
                               !.kind = registration[r].kind, !.reply = reply]
          \in RegistrationState
  BY IdleType DEF TypeOK, RegistrationState, RegistrationSteps
<1> QED BY <1>1 DEF Answer, TypeOK

LEMMA InitType == Init => TypeOK
BY IdleType, AccountsAssumption DEF Init, TypeOK, NoCode

\* What the handlers write to a user document leaves a user document.
LEMMA RoleUpdate ==
    ASSUME NEW d \in UserDoc
    PROVE  [d EXCEPT !.role = TRUE, !.sealed = TRUE] \in UserDoc
BY DEF UserDoc

LEMMA PermissionsUpdate ==
    ASSUME NEW d \in UserDoc
    PROVE  [d EXCEPT !.permissions = TRUE] \in UserDoc
BY DEF UserDoc

LEMMA LastUpdate ==
    ASSUME NEW d \in UserDoc, NEW due \in RegistrationState
    PROVE  Saved(d, due) \in UserDoc
<1>1. due.roleDue \in BOOLEAN /\ due.permissionsDue \in BOOLEAN
  BY DEF RegistrationState
<1> QED BY <1>1 DEF Saved, UserDoc

LEMMA CodeUpdate ==
    ASSUME NEW d \in UserDoc, NEW k \in 0..MaxCodes
    PROVE  [d EXCEPT !.code = k, !.expired = FALSE] \in UserDoc
BY DEF UserDoc

LEMMA ActivatedUpdate ==
    ASSUME NEW d \in UserDoc, NEW loaded \in SessionState
    PROVE  Activated(d, loaded) \in UserDoc
<1>1. loaded.locked \in BOOLEAN
  BY DEF SessionState
<1> QED BY <1>1 DEF Activated, UserDoc

LEMMA CountedUpdate ==
    ASSUME NEW d \in UserDoc, NEW loaded \in SessionState
    PROVE  Counted(d, loaded) \in UserDoc
<1> DEFINE n == loaded.loginLimit + 1
           locks == n >= AttemptsAllowed
           lock == locks /\ ~loaded.locked
<1>1. n \in Nat /\ locks \in BOOLEAN /\ lock \in BOOLEAN
  BY DEF SessionState
<1>2. Counted(d, loaded) = [d EXCEPT !.loginLimit = n, !.locked = @ \/ lock,
                                     !.until = @ \/ locks]
  BY DEF Counted
<1> HIDE DEF n, locks, lock
<1>3. [d EXCEPT !.loginLimit = n, !.locked = @ \/ lock, !.until = @ \/ locks]
          \in UserDoc
  BY <1>1 DEF UserDoc
<1> QED BY <1>2, <1>3

LEMMA FlagUpdates ==
    ASSUME NEW d \in UserDoc
    PROVE  /\ [d EXCEPT !.expired = TRUE] \in UserDoc
           /\ [d EXCEPT !.until = FALSE] \in UserDoc
           /\ [d EXCEPT !.sealed = TRUE] \in UserDoc
BY DEF UserDoc

\* A code stored or mailed.
LEMMA StoreCodeType ==
    ASSUME TypeOK, NEW e \in Users, NEW k \in 1..MaxCodes
    PROVE  /\ StoreCode(e, k) => user' \in [Users -> UserDoc]
           /\ mail' = [mail EXCEPT ![e] = k] => mail' \in [Users -> 0..MaxCodes]
<1>1. k \in 0..MaxCodes
  OBVIOUS
<1>2. [user[e] EXCEPT !.code = k, !.expired = FALSE] \in UserDoc
  BY <1>1, CodeUpdate DEF TypeOK
<1> QED BY <1>1, <1>2 DEF TypeOK, StoreCode

\* A registration's steps keep the types.
LEMMA RegistrationTypeStep ==
    ASSUME TypeOK, NEW r \in Registrations, StartRegistration(r) \/ RegistrationStep(r)
    PROVE  TypeOK'
<1> DEFINE RegistrationOK == registration' \in [Registrations -> RegistrationState]
           UserOK == user' \in [Users -> UserDoc]
<1> USE AccountsAssumption
<1>0. /\ registration[r] \in RegistrationState
      /\ registration[r].email \in Users
      /\ registration[r].role \in RoleDoc
      /\ registration[r].roleDue \in BOOLEAN
      /\ registration[r].permissionsDue \in BOOLEAN
      /\ user[registration[r].email] \in UserDoc
  BY DEF TypeOK, RegistrationState
<1>1. CASE StartRegistration(r)
  <2>1. PICK e \in Users, k \in Kinds : registration' = [registration EXCEPT ![r] =
            [IdleRegistration EXCEPT !.step = "find", !.email = e, !.kind = k]]
    BY <1>1 DEF StartRegistration
  <2>2. [IdleRegistration EXCEPT !.step = "find", !.email = e, !.kind = k]
            \in RegistrationState
    BY IdleType DEF RegistrationState, RegistrationSteps
  <2>3. RegistrationOK
    BY <2>1, <2>2 DEF TypeOK
  <2> QED BY <1>1, <2>3 DEF StartRegistration, counters, TypeOK
<1>2. CASE FindUser(r)
  <2>1. RegistrationOK
    BY <1>2, MoveToType, AnswerType DEF FindUser, RegistrationSteps
  <2> QED BY <1>2, <2>1, FaultType DEF FindUser, TypeOK, CountersType
<1>3. CASE InsertUser(r)
  <2>1. RegistrationOK
    BY <1>3, MoveToType, AnswerType DEF InsertUser, RegistrationSteps
  <2>2. NewUser \in UserDoc
    BY IdleType DEF NewUser, UserDoc
  <2>3. UserOK
    BY <1>3, <2>2 DEF InsertUser, TypeOK
  <2> QED BY <1>3, <2>1, <2>3, FaultType DEF InsertUser, TypeOK, CountersType
<1>4. CASE SetUserType(r)
  <2>1. RegistrationOK
    BY <1>4, MoveToType, AnswerType DEF SetUserType, RegistrationSteps
  <2> QED BY <1>4, <2>1, FaultType DEF SetUserType, TypeOK, CountersType
<1>5. CASE FindRole(r)
  <2>1. ASSUME registration' = [registration EXCEPT ![r].step = "saveUser",
                                                    ![r].role = role]
        PROVE  RegistrationOK
    <3>1. [registration[r] EXCEPT !.step = "saveUser", !.role = role]
              \in RegistrationState
      BY <1>0 DEF TypeOK, RegistrationState, RegistrationSteps
    <3> QED BY <2>1, <3>1 DEF TypeOK
  <2>2. ASSUME MoveTo(r, "saveLast") PROVE RegistrationOK
    BY <2>2, MoveToType DEF RegistrationSteps
  <2>3. RegistrationOK
    BY <1>5, <2>1, <2>2 DEF FindRole
  <2> QED BY <1>5, <2>3, FaultType DEF FindRole, TypeOK, CountersType
<1>6. CASE SaveUserRole(r)
  <2>1. ASSUME registration' = [registration EXCEPT ![r].step = "saveLast",
                                                    ![r].roleDue = TRUE]
        PROVE  RegistrationOK
    <3>1. [registration[r] EXCEPT !.step = "saveLast", !.roleDue = TRUE]
              \in RegistrationState
      BY <1>0 DEF RegistrationState, RegistrationSteps
    <3> QED BY <2>1, <3>1 DEF TypeOK
  <2>2. ASSUME MoveTo(r, "saveRole") PROVE RegistrationOK
    BY <2>2, MoveToType DEF RegistrationSteps
  <2>3. RegistrationOK
    BY <1>6, <2>1, <2>2 DEF SaveUserRole
  <2>4. [user[registration[r].email] EXCEPT !.role = TRUE, !.sealed = TRUE] \in UserDoc
    BY <1>0, RoleUpdate
  <2>5. UserOK
    BY <1>6, <2>4 DEF SaveUserRole, TypeOK
  <2> QED BY <1>6, <2>3, <2>5, FaultType DEF SaveUserRole, TypeOK, CountersType
<1>7. CASE SaveRoleUsers(r)
  <2>1. RegistrationOK
    BY <1>7, MoveToType DEF SaveRoleUsers, RegistrationSteps
  <2>2. role' \in RoleDoc
    BY <1>7, <1>0 DEF SaveRoleUsers, TypeOK, RoleDoc, ListedUser
  <2> QED BY <1>7, <2>1, <2>2, FaultType DEF SaveRoleUsers, TypeOK, CountersType
<1>8. CASE InitiatePermissions(r)
  <2>1. ASSUME NEW due \in BOOLEAN, registration' =
            [registration EXCEPT ![r].step = "saveLast", ![r].permissionsDue = due]
        PROVE  RegistrationOK
    <3>1. [registration[r] EXCEPT !.step = "saveLast", !.permissionsDue = due]
              \in RegistrationState
      BY <1>0 DEF RegistrationState, RegistrationSteps
    <3> QED BY <2>1, <3>1 DEF TypeOK
  <2>2. ASSUME MoveTo(r, "saveLast") PROVE RegistrationOK
    BY <2>2, MoveToType DEF RegistrationSteps
  <2>3. RegistrationOK
    BY <1>8, <2>1, <2>2 DEF InitiatePermissions
  <2>4. [user[registration[r].email] EXCEPT !.permissions = TRUE] \in UserDoc
    BY <1>0, PermissionsUpdate
  <2>5. UserOK
    BY <1>8, <2>4 DEF InitiatePermissions, TypeOK
  <2> QED BY <1>8, <2>3, <2>5, FaultType DEF InitiatePermissions, TypeOK, CountersType
<1>9. CASE SaveLast(r)
  <2>1. RegistrationOK
    BY <1>9, MoveToType, AnswerType DEF SaveLast, RegistrationSteps
  <2>2. Saved(user[registration[r].email], registration[r]) \in UserDoc
    BY <1>0, LastUpdate
  <2>3. UserOK
    BY <1>9, <2>2 DEF SaveLast, TypeOK
  <2> QED BY <1>9, <2>1, <2>3, FaultType DEF SaveLast, TypeOK, CountersType
<1>10. CASE SendRegistrationCode(r)
  <2>1. RegistrationOK
    BY <1>10, AnswerType DEF SendRegistrationCode
  <2>2. UserOK /\ mail' \in [Users -> 0..MaxCodes]
    <3>1. CASE UNCHANGED <<user, mail>>
      BY <3>1 DEF TypeOK
    <3>2. ASSUME NEW k \in 1..MaxCodes, StoreCode(registration[r].email, k),
                 \/ mail' = [mail EXCEPT ![registration[r].email] = k]
                 \/ UNCHANGED mail
          PROVE  UserOK /\ mail' \in [Users -> 0..MaxCodes]
      <4>1. UserOK
        BY <3>2, <1>0, StoreCodeType
      <4>2. mail' \in [Users -> 0..MaxCodes]
        BY <3>2, <1>0, StoreCodeType DEF TypeOK
      <4> QED BY <4>1, <4>2
    <3> QED BY <1>10, <3>1, <3>2 DEF SendRegistrationCode
  <2>3. CountersType'
    BY <1>10, FaultType DEF SendRegistrationCode
  <2> QED BY <1>10, <2>1, <2>2, <2>3 DEF SendRegistrationCode, TypeOK, CountersType
<1> QED BY <1>1, <1>2, <1>3, <1>4, <1>5, <1>6, <1>7, <1>8, <1>9, <1>10 DEF RegistrationStep

LEMMA SessionMoveType ==
    ASSUME TypeOK, NEW s \in Sessions, NEW d \in SessionState,
           session' = [session EXCEPT ![s] = d]
    PROVE  session' \in [Sessions -> SessionState]
BY DEF TypeOK

LEMMA DiscardType ==
    ASSUME TypeOK, NEW e \in Users, NEW k, Discard(e, k)
    PROVE  mail' \in [Users -> 0..MaxCodes]
<1>1. (IF mail[e] = k THEN NoCode ELSE mail[e]) \in 0..MaxCodes
  BY AccountsAssumption DEF TypeOK, NoCode
<1> QED BY <1>1 DEF TypeOK, Discard

\* The steps of activations, verifications and logins keep the types.
LEMMA SessionTypeStep ==
    ASSUME TypeOK, NEW s \in Sessions, SessionStep(s) \/ AbortSession(s)
    PROVE  TypeOK'
<1> USE AccountsAssumption
<1>0. /\ session[s] \in SessionState
      /\ session[s].email \in Users
      /\ user[session[s].email] \in UserDoc
      /\ IdleSession \in SessionState
  BY IdleType DEF TypeOK, SessionState
<1>1. CASE FindCode(s)
  <2>1. [session[s] EXCEPT !.step = "clear", !.valid = ~user[session[s].email].expired]
            \in SessionState
    BY <1>0 DEF SessionState, SessionSteps
  <2>2. session' \in [Sessions -> SessionState]
    BY <1>1, <1>0, <2>1 DEF FindCode, TypeOK
  <2>3. mail' \in [Users -> 0..MaxCodes]
    BY <1>1, <1>0, DiscardType DEF FindCode, TypeOK
  <2> QED BY <1>1, <2>2, <2>3 DEF FindCode, TypeOK, counters
<1>2. CASE ClearCode(s)
  <2>4. NoCode \in 0..MaxCodes
    BY DEF NoCode
  <2>1. [session[s] EXCEPT !.step = "load", !.code = NoCode] \in SessionState
    BY <1>0, <2>4 DEF SessionState, SessionSteps
  <2>2. session' \in [Sessions -> SessionState]
    BY <1>2, <1>0, <2>1 DEF ClearCode, TypeOK
  <2>3. mail' \in [Users -> 0..MaxCodes]
    BY <1>2, <1>0, DiscardType DEF ClearCode
  <2>5. [user[session[s].email] EXCEPT !.code = NoCode, !.expired = FALSE] \in UserDoc
    BY <1>0, <2>4, CodeUpdate
  <2>6. user' \in [Users -> UserDoc]
    BY <1>2, <2>5 DEF ClearCode, TypeOK
  <2> QED BY <1>2, <2>2, <2>3, <2>6 DEF ClearCode, TypeOK, counters
<1>3. CASE LoadUser(s)
  <2>1. [session[s] EXCEPT !.step = "activate",
            !.loginLimit = user[session[s].email].loginLimit,
            !.locked = user[session[s].email].locked] \in SessionState
    BY <1>0 DEF SessionState, SessionSteps, UserDoc
  <2>2. session' \in [Sessions -> SessionState]
    BY <1>3, <2>1 DEF LoadUser, TypeOK
  <2> QED BY <1>3, <2>2 DEF LoadUser, TypeOK, counters
<1>4. CASE ActivateAccount(s)
  <2>1. session' \in [Sessions -> SessionState]
    BY <1>4, <1>0 DEF ActivateAccount, TypeOK
  <2>2. user' \in [Users -> UserDoc]
    BY <1>4, <1>0, ActivatedUpdate DEF ActivateAccount, TypeOK
  <2> QED BY <1>4, <2>1, <2>2 DEF ActivateAccount, TypeOK, counters
<1>5. CASE LoadCount(s)
  <2>1. [session[s] EXCEPT !.step = "count",
            !.loginLimit = user[session[s].email].loginLimit,
            !.locked = user[session[s].email].locked] \in SessionState
    BY <1>0 DEF SessionState, SessionSteps, UserDoc
  <2>2. session' \in [Sessions -> SessionState]
    BY <1>5, <2>1 DEF LoadCount, TypeOK
  <2> QED BY <1>5, <2>2 DEF LoadCount, TypeOK, counters
<1>6. CASE IncreaseLoginLimit(s)
  <2>1. session' \in [Sessions -> SessionState]
    BY <1>6, <1>0 DEF IncreaseLoginLimit, TypeOK
  <2>2. user' \in [Users -> UserDoc]
    BY <1>6, <1>0, CountedUpdate DEF IncreaseLoginLimit, TypeOK
  <2> QED BY <1>6, <2>1, <2>2 DEF IncreaseLoginLimit, TypeOK, counters
<1>7. CASE AbortSession(s)
  <2>1. session' \in [Sessions -> SessionState]
    BY <1>7, <1>0 DEF AbortSession, TypeOK
  <2>2. mail' \in [Users -> 0..MaxCodes]
    BY <1>7, <1>0, DiscardType DEF AbortSession
  <2> QED BY <1>7, <2>1, <2>2, FaultType DEF AbortSession, TypeOK, CountersType
<1> QED BY <1>1, <1>2, <1>3, <1>4, <1>5, <1>6, <1>7 DEF SessionStep

\* The starts of sessions keep the types.
LEMMA StartTypeStep ==
    ASSUME TypeOK, NEW s \in Sessions, NEW e \in Users,
           \/ StartActivation(s, e) \/ StartVerification(s, e)
           \/ LoginWithPassword(s, e) \/ LoginWithWrongPassword(s, e)
    PROVE  TypeOK'
<1> USE AccountsAssumption
<1>0. IdleSession \in SessionState /\ mail[e] \in 0..MaxCodes
  BY IdleType DEF TypeOK
<1>1. /\ [IdleSession EXCEPT !.step = "verify", !.email = e, !.code = mail[e],
                             !.activates = TRUE] \in SessionState
      /\ [IdleSession EXCEPT !.step = "verify", !.email = e, !.code = mail[e]]
             \in SessionState
      /\ [IdleSession EXCEPT !.step = "load", !.email = e] \in SessionState
      /\ [IdleSession EXCEPT !.step = "loadCount", !.email = e] \in SessionState
  BY <1>0 DEF SessionState, SessionSteps
<1>2. CASE StartActivation(s, e)
  BY <1>1, <1>2 DEF StartActivation, TypeOK, counters
<1>3. CASE StartVerification(s, e)
  BY <1>1, <1>3 DEF StartVerification, TypeOK
<1>4. CASE LoginWithPassword(s, e)
  BY <1>1, <1>4 DEF LoginWithPassword, TypeOK, counters
<1>5. CASE LoginWithWrongPassword(s, e)
  BY <1>1, <1>5 DEF LoginWithWrongPassword, TypeOK, counters
<1> QED BY <1>2, <1>3, <1>4, <1>5

\* So do the codes sent again, the passing of time and a reset.
LEMMA UserTypeStep ==
    ASSUME TypeOK, NEW e \in Users,
           ResendCode(e) \/ ExpireCode(e) \/ ExpireLock(e) \/ ResetPassword(e)
    PROVE  TypeOK'
<1> USE AccountsAssumption
<1>0. user[e] \in UserDoc
  BY DEF TypeOK
<1>1. CASE ResendCode(e)
  <2>1. PICK k \in 1..MaxCodes :
            /\ StoreCode(e, k)
            /\ mail' = [mail EXCEPT ![e] = k] \/ UNCHANGED mail
            /\ \/ NoFault \/ Fault
               \/ /\ detours < MaxDetours /\ detours' = detours + 1
                  /\ UNCHANGED <<faults, crashes>>
    BY <1>1 DEF ResendCode
  <2>2. user' \in [Users -> UserDoc]
    BY <2>1, StoreCodeType
  <2>3. mail' \in [Users -> 0..MaxCodes]
    BY <2>1, StoreCodeType DEF TypeOK
  <2>4. CountersType'
    BY <2>1, FaultType DEF TypeOK, CountersType
  <2> QED BY <1>1, <2>2, <2>3, <2>4 DEF ResendCode, TypeOK, CountersType
<1>2. CASE ExpireCode(e)
  <2>1. user' \in [Users -> UserDoc]
    BY <1>0, <1>2, FlagUpdates DEF ExpireCode, TypeOK
  <2>2. detours' \in 0..MaxDetours
    BY <1>2 DEF ExpireCode, TypeOK
  <2> QED BY <1>2, <2>1, <2>2 DEF ExpireCode, TypeOK
<1>3. CASE ExpireLock(e)
  BY <1>0, <1>3, FlagUpdates DEF ExpireLock, TypeOK, counters
<1>4. CASE ResetPassword(e)
  BY <1>0, <1>4, FlagUpdates DEF ResetPassword, TypeOK, counters
<1> QED BY <1>1, <1>2, <1>3, <1>4

LEMMA CrashTypeStep == TypeOK /\ Crash => TypeOK'
<1> SUFFICES ASSUME TypeOK, Crash PROVE TypeOK'
  OBVIOUS
<1> DEFINE ended(r) ==
        IF registration[r].step \in {"idle", "done"} THEN registration[r]
        ELSE [IdleRegistration EXCEPT !.step = "done",
                  !.email = registration[r].email, !.kind = registration[r].kind]
<1>1. ASSUME NEW r \in Registrations PROVE ended(r) \in RegistrationState
  BY IdleType DEF TypeOK, RegistrationState, RegistrationSteps
<1>2. registration' = [r \in Registrations |-> ended(r)]
  BY DEF Crash
<1> HIDE DEF ended
<1>3. registration' \in [Registrations -> RegistrationState]
  BY <1>1, <1>2
<1>4. session' \in [Sessions -> SessionState]
  BY IdleType DEF Crash
<1>5. crashes < MaxCrashes /\ crashes' = crashes + 1
  BY DEF Crash
<1>7. crashes' \in 0..MaxCrashes
  BY <1>5, AccountsAssumption DEF TypeOK
<1>6. UNCHANGED <<user, role, mail, failures, faults, detours>>
  BY DEF Crash
<1> QED BY <1>3, <1>4, <1>6, <1>7 DEF TypeOK

LEMMA TypeStep == TypeOK /\ [Next]_vars => TypeOK'
<1> SUFFICES ASSUME TypeOK, [Next]_vars PROVE TypeOK'
  OBVIOUS
<1>1. CASE UNCHANGED vars
  BY <1>1 DEF vars, TypeOK
<1>2. CASE Next
  BY <1>2, RegistrationTypeStep, SessionTypeStep, StartTypeStep, UserTypeStep,
     CrashTypeStep DEF Next
<1> QED BY <1>1, <1>2

\* The documents and requests keep their types.
THEOREM AccountsTypeCorrect == Spec => []TypeOK
<1>1. TypeOK /\ [Next]_vars => TypeOK'
  BY TypeStep
<1> QED BY InitType, <1>1, PTL DEF Spec

----------------------------------------------------------------------------
(* What documents and the role gain *)

\* What a write leaves of a document.
Gains(old, new) ==
    old.exists => /\ new.exists
                  /\ old.role => new.role
                  /\ old.sealed => new.sealed

\* An account only gains its role and its encrypted password.
UsersGain == \A e \in Users : Gains(user[e], user'[e])

LEMMA OneUserGains ==
    ASSUME TypeOK, NEW e \in Users, NEW d,
           user' = [user EXCEPT ![e] = d], Gains(user[e], d)
    PROVE  UsersGain
BY DEF TypeOK, UsersGain, Gains

LEMMA CodeGains ==
    ASSUME TypeOK, NEW e \in Users, NEW k, StoreCode(e, k)
    PROVE  UsersGain
<1>1. Gains(user[e], [user[e] EXCEPT !.code = k, !.expired = FALSE])
  BY DEF TypeOK, UserDoc, Gains
<1> QED BY <1>1, OneUserGains DEF StoreCode

LEMMA GainStep == TypeOK /\ [Next]_vars => UsersGain
<1> SUFFICES ASSUME TypeOK, [Next]_vars PROVE UsersGain
  OBVIOUS
<1>0. CASE UNCHANGED user
  BY <1>0 DEF UsersGain, Gains
<1>1. ASSUME NEW r \in Registrations, RegistrationStep(r), user' # user
      PROVE  UsersGain
  <2> DEFINE e == registration[r].email
  <2>0. e \in Users /\ user[e] \in UserDoc
    BY DEF TypeOK, RegistrationState
  <2>1. CASE InsertUser(r)
    BY <1>1, <2>0, <2>1, OneUserGains DEF InsertUser, Gains
  <2>2. CASE SaveUserRole(r)
    <3>1. Gains(user[e], [user[e] EXCEPT !.role = TRUE, !.sealed = TRUE])
      BY <2>0 DEF UserDoc, Gains
    <3> QED BY <1>1, <2>0, <2>2, <3>1, OneUserGains DEF SaveUserRole
  <2>3. CASE InitiatePermissions(r)
    <3>1. Gains(user[e], [user[e] EXCEPT !.permissions = TRUE])
      BY <2>0 DEF UserDoc, Gains
    <3> QED BY <1>1, <2>0, <2>3, <3>1, OneUserGains DEF InitiatePermissions
  <2>4. CASE SaveLast(r)
    <3>1. Gains(user[e], Saved(user[e], registration[r]))
      BY <2>0 DEF UserDoc, Gains, Saved
    <3> QED BY <1>1, <2>0, <2>4, <3>1, OneUserGains DEF SaveLast
  <2>5. CASE SendRegistrationCode(r)
    BY <1>1, <2>0, <2>5, CodeGains DEF SendRegistrationCode
  <2> QED BY <1>1, <2>1, <2>2, <2>3, <2>4, <2>5
      DEF RegistrationStep, FindUser, SetUserType, FindRole, SaveRoleUsers
<1>2. ASSUME NEW s \in Sessions, SessionStep(s), user' # user
      PROVE  UsersGain
  <2> DEFINE e == session[s].email
  <2>0. e \in Users /\ user[e] \in UserDoc
    BY DEF TypeOK, SessionState
  <2>1. CASE ClearCode(s)
    <3>1. Gains(user[e], [user[e] EXCEPT !.code = NoCode, !.expired = FALSE])
      BY <2>0 DEF UserDoc, Gains
    <3> QED BY <2>0, <2>1, <3>1, OneUserGains DEF ClearCode
  <2>2. CASE ActivateAccount(s)
    <3>1. Gains(user[e], Activated(user[e], session[s]))
      BY <2>0 DEF UserDoc, Gains, Activated
    <3> QED BY <2>0, <2>2, <3>1, OneUserGains DEF ActivateAccount
  <2>3. CASE IncreaseLoginLimit(s)
    <3>1. Gains(user[e], Counted(user[e], session[s]))
      BY <2>0 DEF UserDoc, Gains, Counted
    <3> QED BY <2>0, <2>3, <3>1, OneUserGains DEF IncreaseLoginLimit
  <2> QED BY <1>2, <2>1, <2>2, <2>3 DEF SessionStep, FindCode, LoadUser, LoadCount
<1>3. ASSUME NEW e \in Users,
             ResendCode(e) \/ ExpireCode(e) \/ ExpireLock(e) \/ ResetPassword(e)
      PROVE  UsersGain
  <2>0. user[e] \in UserDoc
    BY DEF TypeOK
  <2>1. /\ Gains(user[e], [user[e] EXCEPT !.expired = TRUE])
        /\ Gains(user[e], [user[e] EXCEPT !.until = FALSE])
        /\ Gains(user[e], [user[e] EXCEPT !.sealed = TRUE])
    BY <2>0 DEF UserDoc, Gains
  <2>2. CASE ResendCode(e)
    BY <2>2, CodeGains DEF ResendCode
  <2>3. CASE ExpireCode(e) \/ ExpireLock(e) \/ ResetPassword(e)
    BY <2>1, <2>3, OneUserGains DEF ExpireCode, ExpireLock, ResetPassword
  <2> QED BY <1>3, <2>2, <2>3
<1> QED BY <1>0, <1>1, <1>2, <1>3
    DEF Next, StartRegistration, AbortSession, StartActivation, StartVerification,
        LoginWithPassword, LoginWithWrongPassword, Crash, vars

----------------------------------------------------------------------------
(* The inductive invariant *)

LEMMA InitInv == Init => IInv
<1> SUFFICES ASSUME Init PROVE IInv
  OBVIOUS
<1>1. TypeOK
  BY InitType
<1>2. RoleListsItsUsers
  BY DEF Init, RoleListsItsUsers, EmptyRole
<1>3. ASSUME NEW r \in Registrations PROVE RegistrationInv(r)
  BY DEF Init, RegistrationInv, StepMatches, RoleReadListsItsUsers, RoleReadMatches,
         Answered, IdleRegistration, EmptyRole, Stored
<1> QED BY <1>1, <1>2, <1>3 DEF IInv

\* The role as it was, or replaced under a new version.
RoleAdvances == role' = role \/ role'.version = role.version + 1

\* What a registration knows survives the steps of the others.
LEMMA OtherRegistration ==
    ASSUME IInv, UsersGain, RoleAdvances, NEW q \in Registrations,
           registration'[q] = registration[q]
    PROVE  RegistrationInv(q)'
<1>0. /\ registration[q].email \in Users
      /\ registration[q].role.users \subseteq Users
      /\ registration[q].role.version \in Nat /\ role.version \in Nat
      /\ RegistrationInv(q)
  BY DEF IInv, TypeOK, RegistrationState, RoleDoc
<1>1. StepMatches(q)'
  <2>1. Gains(user[registration[q].email], user'[registration[q].email])
    BY <1>0 DEF UsersGain
  <2>2. StepMatches(q)
    BY <1>0 DEF RegistrationInv
  <2>3. registration[q].step = "saveRole" \/ registration[q].step = "sendCode"
            => registration[q].step \in Stored
    BY DEF Stored, RegistrationSteps
  <2> QED BY <2>1, <2>2, <2>3 DEF StepMatches, Gains
<1>2. RoleReadListsItsUsers(q)'
  BY <1>0 DEF RegistrationInv, RoleReadListsItsUsers, UsersGain, Gains
<1>3. RoleReadMatches(q)'
  BY <1>0 DEF RegistrationInv, RoleReadMatches, RoleAdvances
<1>4. Answered(q)'
  BY <1>0 DEF RegistrationInv, Answered, UsersGain, Gains
<1> QED BY <1>1, <1>2, <1>3, <1>4 DEF RegistrationInv

\* A registration that holds no role and awaits nothing stored.
LEMMA EndedRegistration ==
    ASSUME NEW r \in Registrations,
           registration'[r].step \in {"idle", "find", "insert", "done"},
           registration'[r].role = EmptyRole,
           registration'[r].reply # "ok"
    PROVE  RegistrationInv(r)'
BY DEF RegistrationInv, StepMatches, RoleReadListsItsUsers, RoleReadMatches, Answered,
       EmptyRole, Stored

\* What a registration holds after a step that kept the role it read.
LEMMA MovedRegistration ==
    ASSUME IInv, UsersGain, NEW r \in Registrations,
           NEW step \in RegistrationSteps \ {"saveUser", "saveRole"},
           registration'[r].step = step,
           registration'[r].email = registration[r].email,
           registration'[r].role = registration[r].role,
           registration'[r].reply = registration[r].reply,
           step \in Stored => user'[registration[r].email].exists,
           step = "sendCode" => user'[registration[r].email].sealed
    PROVE  RegistrationInv(r)'
<1>0. /\ registration[r].email \in Users
      /\ registration[r].role.users \subseteq Users
      /\ RegistrationInv(r)
  BY DEF IInv, TypeOK, RegistrationState, RoleDoc
<1>1. StepMatches(r)'
  BY DEF StepMatches
<1>2. RoleReadListsItsUsers(r)'
  BY <1>0 DEF RegistrationInv, RoleReadListsItsUsers, UsersGain, Gains
<1>3. RoleReadMatches(r)'
  BY DEF RoleReadMatches
<1>4. Answered(r)'
  BY <1>0 DEF RegistrationInv, Answered, UsersGain, Gains
<1> QED BY <1>1, <1>2, <1>3, <1>4 DEF RegistrationInv

\* A registration's own steps.
LEMMA OwnStep ==
    ASSUME IInv, UsersGain, NEW r \in Registrations,
           StartRegistration(r) \/ RegistrationStep(r)
    PROVE  RegistrationInv(r)'
<1> DEFINE e == registration[r].email
<1>0. /\ TypeOK
      /\ registration \in [Registrations -> RegistrationState]
      /\ registration[r] \in RegistrationState
      /\ e \in Users /\ user[e] \in UserDoc
      /\ RegistrationInv(r)
      /\ Gains(user[e], user'[e])
  BY DEF IInv, TypeOK, RegistrationState, UsersGain
<1>m. ASSUME NEW step \in RegistrationSteps \ {"saveUser", "saveRole"}, MoveTo(r, step),
             step \in Stored => user'[e].exists,
             step = "sendCode" => user'[e].sealed
      PROVE  RegistrationInv(r)'
  <2>1. /\ registration'[r].step = step
        /\ registration'[r].email = registration[r].email
        /\ registration'[r].role = registration[r].role
        /\ registration'[r].reply = registration[r].reply
    BY <1>0, <1>m DEF MoveTo, RegistrationState
  <2> QED BY <1>m, <2>1, MovedRegistration
<1>e. ASSUME Answer(r, "error") PROVE RegistrationInv(r)'
  BY <1>0, <1>e, EndedRegistration DEF Answer, IdleRegistration
<1>k. registration[r].step \in Stored => user'[e].exists
  BY <1>0 DEF RegistrationInv, StepMatches, Gains
<1>s. CASE StartRegistration(r)
  BY <1>0, <1>s, EndedRegistration DEF StartRegistration, IdleRegistration
<1>2. CASE FindUser(r)
  <2>1. CASE MoveTo(r, "insert")
    BY <1>m, <2>1 DEF RegistrationSteps, Stored
  <2> QED BY <1>2, <1>e, <2>1 DEF FindUser
<1>3. CASE InsertUser(r)
  <2>1. CASE MoveTo(r, "userType") /\ user' = [user EXCEPT ![e] = NewUser]
    <3>1. user'[e].exists
      BY <1>0, <2>1 DEF NewUser, NoUser, TypeOK
    <3> QED BY <1>m, <2>1, <3>1 DEF RegistrationSteps
  <2> QED BY <1>3, <1>e, <2>1 DEF InsertUser
<1>4. CASE SetUserType(r)
  <2>1. CASE MoveTo(r, "findRole")
    <3>1. registration[r].step \in Stored
      BY <1>4 DEF SetUserType, At, Stored, RegistrationSteps
    <3> QED BY <1>k, <1>m, <2>1, <3>1 DEF RegistrationSteps
  <2> QED BY <1>4, <1>e, <2>1 DEF SetUserType
<1>5. CASE FindRole(r)
  <2>0. registration[r].step \in Stored
    BY <1>5 DEF FindRole, At, Stored, RegistrationSteps
  <2>1. CASE MoveTo(r, "saveLast")
    BY <1>k, <1>m, <2>0, <2>1 DEF RegistrationSteps
  <2>2. CASE registration' = [registration EXCEPT ![r].step = "saveUser",
                                                  ![r].role = role]
    <3>1. /\ registration'[r].step = "saveUser" /\ registration'[r].role = role
          /\ registration'[r].email = e
          /\ registration'[r].reply = registration[r].reply
      BY <1>0, <2>2 DEF RegistrationState
    <3>2. UNCHANGED <<user, role>>
      BY <1>5 DEF FindRole
    <3>3. StepMatches(r)'
      BY <1>k, <2>0, <3>1 DEF StepMatches
    <3>4. RoleReadListsItsUsers(r)'
      BY <3>1, <3>2 DEF IInv, RoleListsItsUsers, RoleReadListsItsUsers
    <3>5. RoleReadMatches(r)'
      BY <1>0, <3>1, <3>2 DEF RoleReadMatches, TypeOK, RoleDoc
    <3>6. Answered(r)'
      BY <1>0, <3>1, <3>2 DEF RegistrationInv, Answered
    <3> QED BY <3>3, <3>4, <3>5, <3>6 DEF RegistrationInv
  <2> QED BY <1>5, <2>1, <2>2 DEF FindRole
<1>6. CASE SaveUserRole(r)
  <2>0. registration[r].step \in Stored /\ registration[r].step = "saveUser"
    BY <1>6 DEF SaveUserRole, At, Stored, RegistrationSteps
  <2>1. CASE /\ MoveTo(r, "saveRole")
             /\ user' = [user EXCEPT ![e] = [@ EXCEPT !.role = TRUE, !.sealed = TRUE]]
    <3>1. /\ registration'[r].step = "saveRole"
          /\ registration'[r].role = registration[r].role
          /\ registration'[r].email = e
          /\ registration'[r].reply = registration[r].reply
      BY <1>0, <2>1 DEF RegistrationState, MoveTo
    <3>2. user'[e].role
      BY <1>0, <2>1 DEF TypeOK, UserDoc
    <3>3. StepMatches(r)'
      BY <1>k, <2>0, <3>1, <3>2 DEF StepMatches
    <3>4. RoleReadListsItsUsers(r)'
      <4>1. registration[r].role.users \subseteq Users
        BY <1>0 DEF RegistrationState, RoleDoc
      <4> QED BY <1>0, <3>1, <4>1
          DEF RegistrationInv, RoleReadListsItsUsers, UsersGain, Gains
    <3>5. role' = role
      BY <1>6 DEF SaveUserRole
    <3>6. RoleReadMatches(r)'
      BY <1>0, <2>0, <3>1, <3>5 DEF RegistrationInv, RoleReadMatches
    <3>7. Answered(r)'
      BY <1>0, <3>1 DEF RegistrationInv, Answered, Gains
    <3> QED BY <3>3, <3>4, <3>6, <3>7 DEF RegistrationInv
  <2>2. CASE registration' = [registration EXCEPT ![r].step = "saveLast",
                                                  ![r].roleDue = TRUE]
    <3>1. /\ registration'[r].step = "saveLast"
          /\ registration'[r].role = registration[r].role
          /\ registration'[r].email = e
          /\ registration'[r].reply = registration[r].reply
      BY <1>0, <2>2 DEF RegistrationState
    <3> QED BY <1>k, <2>0, <3>1, MovedRegistration DEF RegistrationSteps
  <2> QED BY <1>6, <2>1, <2>2 DEF SaveUserRole
<1>7. CASE SaveRoleUsers(r)
  <2>0. registration[r].step \in Stored
    BY <1>7 DEF SaveRoleUsers, At, Stored, RegistrationSteps
  <2>1. \/ MoveTo(r, "permissions") \/ MoveTo(r, "saveLast")
    BY <1>7 DEF SaveRoleUsers
  <2> QED BY <1>k, <1>m, <2>0, <2>1 DEF RegistrationSteps
<1>8. CASE InitiatePermissions(r)
  <2>0. registration[r].step \in Stored
    BY <1>8 DEF InitiatePermissions, At, Stored, RegistrationSteps
  <2>1. CASE MoveTo(r, "saveLast")
    BY <1>k, <1>m, <2>0, <2>1 DEF RegistrationSteps
  <2>2. ASSUME NEW due \in BOOLEAN, registration' =
            [registration EXCEPT ![r].step = "saveLast", ![r].permissionsDue = due]
        PROVE  RegistrationInv(r)'
    <3>1. /\ registration'[r].step = "saveLast"
          /\ registration'[r].role = registration[r].role
          /\ registration'[r].email = e
          /\ registration'[r].reply = registration[r].reply
      BY <1>0, <2>2 DEF RegistrationState
    <3> QED BY <1>k, <2>0, <3>1, MovedRegistration DEF RegistrationSteps
  <2> QED BY <1>8, <2>1, <2>2 DEF InitiatePermissions
<1>9. CASE SaveLast(r)
  <2>0. registration[r].step \in Stored
    BY <1>9 DEF SaveLast, At, Stored, RegistrationSteps
  <2>1. CASE /\ MoveTo(r, "sendCode")
             /\ user' = [user EXCEPT ![e] = Saved(@, registration[r])]
    <3>1. user'[e].sealed
      BY <1>0, <2>1 DEF TypeOK, UserDoc, Saved
    <3> QED BY <1>k, <1>m, <2>0, <2>1, <3>1 DEF RegistrationSteps
  <2> QED BY <1>9, <1>e, <2>1 DEF SaveLast
<1>10. CASE SendRegistrationCode(r)
  <2>1. user'[e].exists /\ user'[e].sealed
    BY <1>0, <1>10 DEF SendRegistrationCode, At, RegistrationInv, StepMatches, Gains,
                       Stored, RegistrationSteps
  <2>2. CASE Answer(r, "ok")
    <3>1. /\ registration'[r].step = "done" /\ registration'[r].role = EmptyRole
          /\ registration'[r].email = e
      BY <1>0, <2>2 DEF Answer, IdleRegistration
    <3> QED BY <2>1, <3>1 DEF RegistrationInv, StepMatches, RoleReadListsItsUsers,
                              RoleReadMatches, Answered, EmptyRole, Stored
  <2> QED BY <1>10, <1>e, <2>2 DEF SendRegistrationCode
<1> QED BY <1>s, <1>2, <1>3, <1>4, <1>5, <1>6, <1>7, <1>8, <1>9, <1>10 DEF RegistrationStep

\* No handler but SaveRoleUsers writes the role.
LEMMA RoleWriter ==
    [Next]_vars /\ (\A r \in Registrations : ~SaveRoleUsers(r)) => role' = role
BY DEF Next, vars, StartRegistration, RegistrationStep, FindUser, InsertUser,
    SetUserType, FindRole, SaveUserRole, InitiatePermissions, SaveLast,
    SendRegistrationCode, SessionStep, FindCode, ClearCode, LoadUser,
    ActivateAccount, LoadCount, IncreaseLoginLimit, AbortSession,
    StartActivation, StartVerification, LoginWithPassword,
    LoginWithWrongPassword, ResendCode, ExpireCode, ExpireLock, ResetPassword,
    Crash

\* The role's version moves on whenever its users change, and none is lost.
LEMMA RoleStep == IInv /\ [Next]_vars => RoleAdvances /\ role.users \subseteq role'.users
<1> SUFFICES ASSUME IInv, [Next]_vars
             PROVE  RoleAdvances /\ role.users \subseteq role'.users
  OBVIOUS
<1>1. ASSUME NEW r \in Registrations, SaveRoleUsers(r), role' # role
      PROVE  RoleAdvances /\ role.users \subseteq role'.users
  <2>1. /\ RoleIsCurrent(r) /\ At(r, "saveRole")
        /\ role' = [users |-> registration[r].role.users \cup {ListedUser(r)},
                    version |-> role.version + 1]
    BY <1>1 DEF SaveRoleUsers
  <2>2. registration[r].role.users = role.users
    BY <2>1 DEF IInv, RegistrationInv, RoleReadMatches, RoleIsCurrent, At
  <2> QED BY <2>1, <2>2 DEF RoleAdvances
<1>2. CASE role' = role
  BY <1>2 DEF RoleAdvances
<1>3. CASE \A r \in Registrations : ~SaveRoleUsers(r)
  BY <1>2, <1>3, RoleWriter
<1> QED BY <1>1, <1>2, <1>3

\* The role takes a user from whom it cannot be taken back.
LEMMA RoleListStep ==
    ASSUME IInv, UsersGain, [Next]_vars PROVE RoleListsItsUsers'
<1>1. ASSUME NEW f \in role.users PROVE user'[f].exists /\ user'[f].role
  BY <1>1 DEF IInv, TypeOK, RoleDoc, RoleListsItsUsers, UsersGain, Gains
<1>2. CASE role'.users = role.users
  BY <1>1, <1>2 DEF RoleListsItsUsers
<1>3. ASSUME NEW r \in Registrations, SaveRoleUsers(r), role' # role
      PROVE  RoleListsItsUsers'
  <2> DEFINE e == registration[r].email
  <2>1. /\ role'.users = registration[r].role.users \cup {e}
        /\ UNCHANGED user /\ registration[r].step = "saveRole"
    BY <1>3 DEF SaveRoleUsers, ListedUser, At
  <2>2. user[e].exists /\ user[e].role
    BY <2>1 DEF IInv, RegistrationInv, StepMatches, Stored, RegistrationSteps
  <2>3. RoleReadListsItsUsers(r)
    BY DEF IInv, RegistrationInv
  <2> QED BY <2>1, <2>2, <2>3 DEF RoleListsItsUsers, RoleReadListsItsUsers
<1>4. CASE \A r \in Registrations : ~SaveRoleUsers(r)
  BY <1>2, <1>4, RoleWriter
<1> QED BY <1>2, <1>3, <1>4

\* A restart ends every registration that was under way.
LEMMA CrashStep ==
    ASSUME IInv, UsersGain, RoleAdvances, Crash, NEW q \in Registrations
    PROVE  RegistrationInv(q)'
<1>1. CASE registration'[q] = registration[q]
  BY <1>1, OtherRegistration
<1>2. CASE registration'[q] # registration[q]
  <2>1. registration'[q] = [IdleRegistration EXCEPT !.step = "done",
            !.email = registration[q].email, !.kind = registration[q].kind]
    BY <1>2 DEF Crash
  <2> QED BY <2>1, EndedRegistration DEF IdleRegistration
<1> QED BY <1>1, <1>2

\* One registration's step leaves the others' knowledge alone.
LEMMA OneRegistrationMoves ==
    ASSUME NEW r \in Registrations, StartRegistration(r) \/ RegistrationStep(r),
           NEW q \in Registrations, q # r, TypeOK
    PROVE  registration'[q] = registration[q]
BY DEF TypeOK, StartRegistration, RegistrationStep, FindUser, InsertUser, SetUserType,
       FindRole, SaveUserRole, SaveRoleUsers, InitiatePermissions, SaveLast,
       SendRegistrationCode, MoveTo, Answer

\* The invariant is inductive.
LEMMA InvStep == IInv /\ [Next]_vars => IInv'
<1> SUFFICES ASSUME IInv, [Next]_vars PROVE IInv'
  OBVIOUS
<1>1. TypeOK /\ TypeOK' /\ UsersGain
  BY TypeStep, GainStep DEF IInv
<1>2. RoleAdvances
  BY RoleStep
<1>3. RoleListsItsUsers'
  BY <1>1, RoleListStep
<1>4. ASSUME NEW q \in Registrations PROVE RegistrationInv(q)'
  <2>1. CASE registration' = registration
    BY <1>1, <1>2, <2>1, OtherRegistration
  <2>2. ASSUME NEW r \in Registrations, StartRegistration(r) \/ RegistrationStep(r)
        PROVE  RegistrationInv(q)'
    <3>1. CASE q = r
      BY <1>1, <2>2, <3>1, OwnStep
    <3>2. CASE q # r
      BY <1>1, <1>2, <2>2, <3>2, OneRegistrationMoves, OtherRegistration
    <3> QED BY <3>1, <3>2
  <2>3. CASE Crash
    BY <1>1, <1>2, <2>3, CrashStep
  <2> QED BY <2>1, <2>2, <2>3
      DEF Next, vars, SessionStep, FindCode, ClearCode, LoadUser, ActivateAccount,
          LoadCount, IncreaseLoginLimit, AbortSession, StartActivation,
          StartVerification, LoginWithPassword, LoginWithWrongPassword, ResendCode,
          ExpireCode, ExpireLock, ResetPassword
<1> QED BY <1>1, <1>3, <1>4 DEF IInv

THEOREM AccountsInductive == Spec => []IInv
BY InitInv, InvStep, PTL DEF Spec

\* attachRole stores the user's role before the role's user, so the role lists
\* only users who have it, whatever fails or interleaves.
THEOREM RolesListTheirUsers == Spec => []RoleListsItsUsers
<1>1. IInv => RoleListsItsUsers
  BY DEF IInv
<1> QED BY <1>1, AccountsInductive, PTL

\* A registration answered 200 left an account with an encrypted password.
THEOREM AnswersAreSealed == Spec => []AnsweredIsSealed
<1>1. IInv => AnsweredIsSealed
  BY DEF IInv, RegistrationInv, Answered, AnsweredIsSealed
<1> QED BY <1>1, AccountsInductive, PTL

\* The version check of role.save() loses no registration's entry.
THEOREM RolesKeepTheirUsers == Spec => RoleKeepsItsUsers
<1>1. IInv /\ [Next]_vars => [role.users \subseteq role'.users]_vars
  BY RoleStep
<1> QED BY <1>1, AccountsInductive, PTL DEF Spec, RoleKeepsItsUsers
=============================================================================
