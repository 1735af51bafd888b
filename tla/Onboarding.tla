----------------------------- MODULE Onboarding -----------------------------
(***************************************************************************)
(* The steps of POST /user/onboard/*: the type of the account, its basic   *)
(* information, the profile of a talent, and completion; and deactivation, *)
(* which Protect reads before any of them runs.                            *)
(*                                                                         *)
(* Each handler loads the user with mongoose, awaits other collections     *)
(* and saves.  A save writes the paths whose value differs from the one    *)
(* loaded and pushes the roles added since, so two requests of one user    *)
(* mix their fields in the stored document.                                *)
(*                                                                         *)
(* Left out: input validation and the onboarding e-mail, the token stored  *)
(* at completion, the role documents' lists of users (module Accounts) and *)
(* isActive, which Protect requires and nothing clears.  A user's          *)
(* permissions stay empty: initiatePermissionData drops every permission   *)
(* that is not an ObjectId and roles hold names.                           *)
(***************************************************************************)
EXTENDS Integers

CONSTANTS
    Users,
    Calls,      \* requests under way at one time
    Types,      \* the types the onboarding accepts; each is also a role
    Talent      \* the type with a profile of its own

ASSUME OnboardingAssumption == Talent \in Types

VARIABLES
    user,       \* the users collection
    profiles,   \* how many talent documents point to each user
    call        \* what each request under way knows

vars == <<user, profiles, call>>

----------------------------------------------------------------------------
(* Documents and requests *)

Statuses == {"NOT_STARTED", "IN_PROGRESS", "COMPLETED"}

UserDoc == [type: Types, roles: SUBSET Types, step: 1..4, status: Statuses,
            named: BOOLEAN,         \* the basic information is there
            deactivated: BOOLEAN]

Ops == {"userType", "basicInfo", "talentInfo", "userInfo", "complete",
        "deactivate"}

\* The call a request awaits; nothing of the user is loaded up to "load".
Steps == {"idle", "load", "role", "permissions", "profile", "finish",
          "find", "create", "insert", "talentRole", "advance", "save"}

\* base: the document as it was loaded or last saved; doc: as it is now.
CallState == [at: Steps, op: Ops, user: Users, type: Types,
              base: UserDoc, doc: UserDoc]

TypeOK ==
    /\ user \in [Users -> UserDoc]
    /\ profiles \in [Users -> Nat]
    /\ call \in [Calls -> CallState]

\* An activated account: registration may have stopped before it attached
\* the role of the type.
NewUsers == {d \in UserDoc : /\ d.roles \in {{}, {d.type}}
                             /\ d.step = 1 /\ d.status = "NOT_STARTED"
                             /\ ~d.named /\ ~d.deactivated}

Idle(u) == [at |-> "idle", op |-> "complete", user |-> u, type |-> Talent,
            base |-> user[u], doc |-> user[u]]

Init ==
    /\ user \in [Users -> NewUsers]
    /\ profiles = [u \in Users |-> 0]
    /\ \E u \in Users : call = [c \in Calls |-> Idle(u)]

\* Protect finds the account not deactivated.  A request for a step other
\* than the first names no type.
Protect(c, u, op, t) ==
    /\ call[c].at = "idle"
    /\ ~user[u].deactivated
    /\ op # "userType" => t = Talent
    /\ call' = [call EXCEPT ![c] = [Idle(u) EXCEPT !.at = "load", !.op = op,
                                                   !.type = t]]
    /\ UNCHANGED <<user, profiles>>

\* A guard refuses the request, a call fails or the process stops: what was
\* saved stays saved.
Abandon(c) ==
    /\ call[c].at # "idle"
    /\ call' = [call EXCEPT ![c] = Idle(call[c].user)]
    /\ UNCHANGED <<user, profiles>>

----------------------------------------------------------------------------
(* Loading and saving a document *)

Stored(c) == user[call[c].user]

Loads(c, op) == call[c].at = "load" /\ call[c].op = op

\* The request holds the document it loaded with the changes of d.
Hold(c, d, at) ==
    /\ call' = [call EXCEPT ![c].at = at, ![c].base = Stored(c), ![c].doc = d]
    /\ UNCHANGED <<user, profiles>>

Goto(c, at) ==
    /\ call' = [call EXCEPT ![c].at = at]
    /\ UNCHANGED <<user, profiles>>

Field(stored, base, doc) == IF doc = base THEN stored ELSE doc

\* mutant: a save replaces the array of roles as the request read it
SavedRoles(s, b, d) ==
    [type |-> Field(s.type, b.type, d.type),
     roles |-> Field(s.roles, b.roles, d.roles),
     step |-> Field(s.step, b.step, d.step),
     status |-> Field(s.status, b.status, d.status),
     named |-> Field(s.named, b.named, d.named),
     deactivated |-> Field(s.deactivated, b.deactivated, d.deactivated)]

\* mutant: a save replaces the whole document
SavedWhole(s, b, d) == d

\* The stored document s after a save of d, which was loaded as b.
Saved(s, b, d) ==
    [type |-> Field(s.type, b.type, d.type),
     roles |-> s.roles \cup (d.roles \ b.roles),
     step |-> Field(s.step, b.step, d.step),
     status |-> Field(s.status, b.status, d.status),
     named |-> Field(s.named, b.named, d.named),
     deactivated |-> Field(s.deactivated, b.deactivated, d.deactivated)]

SaveAs(c, d, at) ==
    /\ user' = [user EXCEPT ![call[c].user] =
                    Saved(Stored(c), call[c].base, d)]
    /\ call' = [call EXCEPT ![c].at = at, ![c].base = d, ![c].doc = d]
    /\ UNCHANGED profiles

WithRole(d, t) == [d EXCEPT !.roles = d.roles \cup {t}]

----------------------------------------------------------------------------
(* The handlers *)

SetUserType(c) ==
    /\ Loads(c, "userType")
    /\ Hold(c, [Stored(c) EXCEPT !.type = call[c].type, !.step = 1,
                                 !.status = "IN_PROGRESS"], "role")

\* A role that is new to the user is saved with everything set so far.  Then
\* clearUserCache is called; when the Redis client is not open it throws and
\* the request is answered 500.
AttachRole(c) ==
    LET d == call[c].doc IN
    /\ call[c].at = "role"
    /\ \/ d.type \in d.roles /\ Goto(c, "permissions")
       \/ /\ d.type \notin d.roles
          /\ \E at \in {"permissions", "idle"} :
                 SaveAs(c, WithRole(d, d.type), at)

InitiatePermissions(c) ==
    /\ call[c].at = "permissions"
    /\ SaveAs(c, WithRole(call[c].doc, call[c].doc.type),
              IF call[c].op = "complete" THEN "finish" ELSE "idle")

SetBasicInfo(c) ==
    /\ Loads(c, "basicInfo")
    /\ Stored(c).step >= 1
    /\ Hold(c, [Stored(c) EXCEPT !.named = TRUE, !.step = 2], "save")

\* mutant: setUserInfo does not ask for the previous steps
SetUserInfoEarly(c) ==
    /\ Loads(c, "userInfo")
    /\ Hold(c, [Stored(c) EXCEPT !.step = 3], "save")

SetUserInfo(c) ==
    /\ Loads(c, "userInfo")
    /\ Stored(c).step >= 2
    /\ Hold(c, [Stored(c) EXCEPT !.step = 3], "save")

Save(c) ==
    /\ call[c].at = "save"
    /\ SaveAs(c, call[c].doc, "idle")

SetTalentInfo(c) ==
    /\ Loads(c, "talentInfo")
    /\ Stored(c).type = Talent /\ Stored(c).step >= 2
    /\ Hold(c, Stored(c), "find")

\* A profile that exists is updated; otherwise createTalent looks again and
\* refuses one that has come into being.
FindProfile(c) ==
    /\ call[c].at = "find"
    /\ Goto(c, IF profiles[call[c].user] > 0 THEN "advance" ELSE "create")

CheckProfile(c) ==
    /\ call[c].at = "create"
    /\ profiles[call[c].user] = 0
    /\ Goto(c, "insert")

InsertProfile(c) ==
    /\ call[c].at = "insert"
    /\ profiles' = [profiles EXCEPT ![call[c].user] = @ + 1]
    /\ call' = [call EXCEPT ![c].at = "talentRole"]
    /\ UNCHANGED user

\* createTalent ignores a failure of attachRole, which may leave the role on
\* the document to be saved with the step; but the cache it clears after a
\* success may throw.
AttachTalentRole(c) ==
    LET d == call[c].doc IN
    /\ call[c].at = "talentRole"
    /\ \/ Goto(c, "advance")
       \/ /\ Talent \notin d.roles
          /\ \/ SaveAs(c, WithRole(d, Talent), "advance")
             \/ /\ call' = [call EXCEPT ![c].at = "advance",
                                        ![c].doc = WithRole(d, Talent)]
                /\ UNCHANGED <<user, profiles>>

Advance(c) ==
    /\ call[c].at = "advance"
    /\ SaveAs(c, [call[c].doc EXCEPT !.step = 3], "idle")

RoleStep(d) == IF d.roles = {} THEN "role" ELSE "permissions"

CompleteOnboarding(c) ==
    /\ Loads(c, "complete")
    /\ Stored(c).step >= 3
    /\ Hold(c, Stored(c),
            IF Stored(c).type = Talent THEN "profile" ELSE RoleStep(Stored(c)))

\* mutant: completion trusts the step instead of looking for the profile
VerifyProfileByStep(c) ==
    /\ call[c].at = "profile"
    /\ Goto(c, RoleStep(call[c].doc))

VerifyProfile(c) ==
    /\ call[c].at = "profile"
    /\ profiles[call[c].user] > 0
    /\ Goto(c, RoleStep(call[c].doc))

\* mutant: completion counts one step more, a second time too
FinishCounting(c) ==
    /\ call[c].at = "finish"
    /\ SaveAs(c, [call[c].doc EXCEPT !.step = call[c].doc.step + 1,
                                     !.status = "COMPLETED"], "idle")

Finish(c) ==
    /\ call[c].at = "finish"
    /\ SaveAs(c, [call[c].doc EXCEPT !.step = 4, !.status = "COMPLETED"], "idle")

\* findByIdAndUpdate, whatever the handlers under way hold.
Deactivate(c) ==
    /\ Loads(c, "deactivate")
    /\ user' = [user EXCEPT ![call[c].user].deactivated = TRUE]
    /\ call' = [call EXCEPT ![c].at = "idle"]
    /\ UNCHANGED profiles

Handle(c) ==
    \/ SetUserType(c) \/ AttachRole(c) \/ InitiatePermissions(c)
    \/ SetBasicInfo(c) \/ SetUserInfo(c) \/ Save(c)
    \/ SetTalentInfo(c) \/ FindProfile(c) \/ CheckProfile(c)
    \/ InsertProfile(c) \/ AttachTalentRole(c) \/ Advance(c)
    \/ CompleteOnboarding(c) \/ VerifyProfile(c) \/ Finish(c)
    \/ Deactivate(c)

Next == \E c \in Calls :
    \/ \E u \in Users, op \in Ops, t \in Types : Protect(c, u, op, t)
    \/ Abandon(c)
    \/ Handle(c)

Spec == Init /\ [][Next]_vars
----------------------------------------------------------------------------
(* Properties *)

\* Whoever has completed the onboarding has the role of the account's type,
\* whichever of its requests changed the type and whichever attached the role:
\* setUserType saves both at once, and completeOnboarding attaches a role only
\* to a document that has none.
CompletedHasRole ==
    \A u \in Users :
        user[u].status = "COMPLETED" => user[u].type \in user[u].roles

\* An account that has got beyond the first step or completed has its basic
\* information, although a later request may set the step back and a request
\* that loaded the user earlier may set it forward again.
NamedFirst ==
    \A u \in Users :
        user[u].step >= 2 \/ user[u].status = "COMPLETED" => user[u].named

\* Who completed and never had another role than the talent's has a profile.
\* setUserInfo takes a talent to step 3 without one, so completeOnboarding's
\* own look-up has to find it.  (A user whose type becomes talent while a
\* completion is under way may end up without.)
TalentHasProfile ==
    \A u \in Users :
        user[u].status = "COMPLETED" /\ user[u].roles = {Talent}
            => profiles[u] > 0

\* No save of a request that loaded the user earlier brings a deactivated
\* account back, and none takes a role or the basic information away.
NothingIsUndone ==
    [][\A u \in Users :
          /\ user[u].deactivated => user'[u].deactivated
          /\ user[u].named => user'[u].named
          /\ user[u].roles \subseteq user'[u].roles]_vars
=============================================================================
