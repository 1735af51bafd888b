------------------------- MODULE Onboarding_proofs -------------------------
(***************************************************************************)
(* The properties of Onboarding for any users, types and requests under    *)
(* way.  What makes them inductive: a request whose loaded type is out of  *)
(* date can be so only because another request set the type, and that one  *)
(* saved the role with it; roles, basic information and profiles are only  *)
(* ever added; and a request that completes has seen the role, the step    *)
(* and, for a talent, the profile.                                         *)
(***************************************************************************)
EXTENDS Onboarding, TLAPS

RoleFollowsType(d) == d.roles # {} => d.type \in d.roles

\* The request holds nothing that was not stored, except what it set itself.
HeldIsStored(c) ==
    LET s == Stored(c)  b == call[c].base  d == call[c].doc IN
    /\ b.roles \subseteq s.roles
    /\ b.named => s.named
    /\ b.deactivated => s.deactivated
    /\ b.step >= 2 => s.named
    /\ d.step >= 2 => s.named \/ d.named
    /\ b.type # s.type => s.type \in s.roles

\* What the request set since it loaded or last saved the document.
HeldIsOrdered(c) ==
    LET b == call[c].base  d == call[c].doc IN
    /\ b.roles \subseteq d.roles
    /\ b.named => d.named
    /\ b.deactivated = d.deactivated
    /\ d.roles = b.roles \/ d.type \in d.roles
    /\ d.type # b.type => call[c].at \in {"role", "permissions"}
    /\ d.type # b.type => call[c].at = "role" \/ d.type \in d.roles
    /\ d.status = "COMPLETED" => b.status = "COMPLETED"

\* A completion that has found the profile, if it needs one.
Checked(c) ==
    \/ call[c].at = "finish"
    \/ call[c].op = "complete" /\ call[c].at \in {"role", "permissions"}

TalentSteps == {"find", "create", "insert", "talentRole", "advance"}

\* What a request has seen when it gets to a step.
HeldIsChecked(c) ==
    LET b == call[c].base  d == call[c].doc IN
    /\ Checked(c) \/ call[c].at = "profile" => d.step >= 2 /\ d.type = b.type
    /\ Checked(c) => (d.type = Talent => profiles[call[c].user] > 0)
    /\ call[c].at = "finish" => d.roles = b.roles /\ d.type \in d.roles
    /\ call[c].at \in TalentSteps => d.type = Talent /\ d.step >= 2 /\ b.step >= 2

CallInv(c) == HeldIsStored(c) /\ HeldIsOrdered(c) /\ HeldIsChecked(c)

CompletedUser(u) ==
    user[u].status = "COMPLETED" => user[u].type \in user[u].roles

TalentUser(u) ==
    user[u].status = "COMPLETED" /\ user[u].roles \subseteq {Talent}
        => profiles[u] > 0

NamedUser(u) ==
    user[u].step >= 2 \/ user[u].status = "COMPLETED" => user[u].named

UserInv(u) == /\ RoleFollowsType(user[u]) /\ CompletedUser(u)
              /\ TalentUser(u) /\ NamedUser(u)

IInv == /\ TypeOK
        /\ \A u \in Users : UserInv(u)
        /\ \A c \in Calls : CallInv(c)

----------------------------------------------------------------------------
(* A save *)

\* What NothingIsUndone says of a step.
NothingUndone ==
    \A u \in Users :
        /\ user[u].deactivated => user'[u].deactivated
        /\ user[u].named => user'[u].named
        /\ user[u].roles \subseteq user'[u].roles

\* What a handler guarantees of the document d it saves, loaded as b, for the
\* account u: the parts of the invariant about what the request holds.
SaveIsSound(u, b, d) ==
    /\ b.roles \subseteq d.roles
    /\ b.named => d.named
    /\ b.deactivated = d.deactivated
    /\ d.roles = b.roles \/ d.type \in d.roles
    /\ d.type # b.type => d.type \in d.roles
    /\ d.step >= 2 => user[u].named \/ d.named
    /\ d.status = "COMPLETED" => \/ b.status = "COMPLETED"
                                 \/ /\ d.type \in b.roles /\ d.step >= 2
                                    /\ d.type = Talent => profiles[u] > 0

\* The stored document takes the fields the request changed.
LEMMA SavedFields ==
    ASSUME NEW s \in UserDoc, NEW b \in UserDoc, NEW d \in UserDoc
    PROVE  /\ Saved(s, b, d) \in UserDoc
           /\ Saved(s, b, d).type = Field(s.type, b.type, d.type)
           /\ Saved(s, b, d).roles = s.roles \cup (d.roles \ b.roles)
           /\ Saved(s, b, d).step = Field(s.step, b.step, d.step)
           /\ Saved(s, b, d).status = Field(s.status, b.status, d.status)
           /\ Saved(s, b, d).named = Field(s.named, b.named, d.named)
           /\ Saved(s, b, d).deactivated =
                  Field(s.deactivated, b.deactivated, d.deactivated)
  BY DEF Saved, Field, UserDoc

\* A sound save keeps what holds of the account it writes, and takes nothing
\* away from it.
LEMMA SavedUser ==
    ASSUME TypeOK, NEW u \in Users, NEW b \in UserDoc, NEW d \in UserDoc,
           UserInv(u), SaveIsSound(u, b, d),
           b.roles \subseteq user[u].roles, b.named => user[u].named,
           b.deactivated => user[u].deactivated,
           b.type # user[u].type => user[u].type \in user[u].roles,
           NEW n, n = Saved(user[u], b, d)
    PROVE  /\ n \in UserDoc
           /\ RoleFollowsType(n)
           /\ n.status = "COMPLETED" => n.type \in n.roles
           /\ n.status = "COMPLETED" /\ n.roles \subseteq {Talent}
                  => profiles[u] > 0
           /\ n.step >= 2 \/ n.status = "COMPLETED" => n.named
           /\ user[u].roles \subseteq n.roles /\ d.roles \subseteq n.roles
           /\ user[u].named => n.named
           /\ d.named => n.named
           /\ n.deactivated = user[u].deactivated
           /\ n.type # user[u].type => n.type \in n.roles
           /\ n.type # d.type => n.type \in n.roles
<1> DEFINE s == user[u]
<1>1. s \in UserDoc
  BY DEF TypeOK
<1>2. /\ s.type \in Types /\ s.roles \subseteq Types /\ s.step \in 1..4
      /\ b.type \in Types /\ b.step \in 1..4 /\ d.step \in 1..4
      /\ s.named \in BOOLEAN /\ b.named \in BOOLEAN /\ d.named \in BOOLEAN
      /\ s.deactivated \in BOOLEAN /\ b.deactivated \in BOOLEAN
  BY <1>1 DEF UserDoc
<1>3. /\ n \in UserDoc
      /\ n.type = Field(s.type, b.type, d.type)
      /\ n.roles = s.roles \cup (d.roles \ b.roles)
      /\ n.step = Field(s.step, b.step, d.step)
      /\ n.status = Field(s.status, b.status, d.status)
      /\ n.named = Field(s.named, b.named, d.named)
      /\ n.deactivated = Field(s.deactivated, b.deactivated, d.deactivated)
  BY <1>1, SavedFields
<1>4. /\ s.roles \subseteq n.roles /\ d.roles \subseteq n.roles
      /\ s.named => n.named
      /\ d.named => n.named
      /\ n.deactivated = s.deactivated
  BY <1>2, <1>3 DEF SaveIsSound, Field
<1>5. /\ n.type # s.type => n.type \in n.roles
      /\ n.type # d.type => n.type \in n.roles
  BY <1>3, <1>4 DEF SaveIsSound, Field
<1>6. RoleFollowsType(n)
  <2>1. CASE n.type # s.type
    BY <2>1, <1>5 DEF RoleFollowsType
  <2>2. CASE n.type = s.type /\ s.roles # {}
    BY <2>2, <1>4 DEF RoleFollowsType, UserInv
  <2>3. CASE n.type = s.type /\ s.roles = {}
    <3>1. b.roles = {} /\ b.type = s.type /\ n.roles = d.roles
      BY <2>3, <1>3
    <3>2. d.type = s.type
      BY <2>3, <3>1, <1>3 DEF Field
    <3> QED BY <2>3, <3>1, <3>2 DEF SaveIsSound, RoleFollowsType
  <2> QED BY <2>1, <2>2, <2>3
<1>7. ASSUME n.status = "COMPLETED"
      PROVE  /\ n.type \in n.roles
             /\ n.roles \subseteq {Talent} => profiles[u] > 0
             /\ n.named
  <2>1. CASE s.status = "COMPLETED"
    <3>1. s.type \in s.roles /\ s.named
          /\ (s.roles \subseteq {Talent} => profiles[u] > 0)
      BY <2>1 DEF UserInv, CompletedUser, TalentUser, NamedUser
    <3> QED BY <3>1, <1>4, <1>6 DEF RoleFollowsType
  <2>2. CASE s.status # "COMPLETED"
    <3>1. d.status = "COMPLETED" /\ b.status # "COMPLETED"
      BY <2>2, <1>3, <1>7 DEF Field
    <3>2. /\ d.type \in b.roles /\ d.step >= 2
          /\ d.type = Talent => profiles[u] > 0
      BY <3>1 DEF SaveIsSound
    <3>3. n.named
      BY <3>2, <1>4 DEF SaveIsSound
    <3>4. d.type \in n.roles
      BY <3>2, <1>4
    <3> QED BY <3>2, <3>3, <3>4, <1>6 DEF RoleFollowsType
  <2> QED BY <2>1, <2>2
<1>8. n.step >= 2 => n.named
  <2>1. CASE n.step = s.step
    BY <2>1, <1>4 DEF UserInv, NamedUser
  <2>2. CASE n.step = d.step
    BY <2>2, <1>4 DEF SaveIsSound
  <2> QED BY <2>1, <2>2, <1>3 DEF Field
<1> QED BY <1>3, <1>4, <1>5, <1>6, <1>7, <1>8

\* Every request still holds only what is stored when the account of one of
\* them has gained roles, its basic information or a type with its role.
LEMMA OthersHold ==
    ASSUME NEW s, NEW n, NEW b, NEW d,
           b.roles \subseteq s.roles, b.named => s.named,
           b.deactivated => s.deactivated,
           b.step >= 2 => s.named, d.step >= 2 => s.named \/ d.named,
           b.type # s.type => s.type \in s.roles,
           s.roles \subseteq n.roles, s.named => n.named,
           s.deactivated => n.deactivated,
           n.type # s.type => n.type \in n.roles
    PROVE  /\ b.roles \subseteq n.roles /\ (b.named => n.named)
           /\ b.deactivated => n.deactivated
           /\ b.step >= 2 => n.named
           /\ d.step >= 2 => n.named \/ d.named
           /\ b.type # n.type => n.type \in n.roles
  OBVIOUS

\* A sound save of a request that goes on to a step it may be at with d keeps
\* the invariant.
LEMMA SaveStep ==
    ASSUME IInv, NEW c \in Calls, NEW d \in UserDoc, NEW at \in Steps,
           SaveAs(c, d, at),
           SaveIsSound(call[c].user, call[c].base, d),
           Checked(c)' => /\ d.step >= 2 /\ d.type \in d.roles
                          /\ d.type = Talent => profiles[call[c].user] > 0,
           at # "profile",
           at \in TalentSteps => d.type = Talent /\ d.step >= 2
    PROVE  IInv' /\ NothingUndone
<1> DEFINE u == call[c].user
           n == Saved(user[u], call[c].base, d)
<1>1. /\ TypeOK /\ call[c] \in CallState /\ u \in Users
      /\ call[c].base \in UserDoc /\ user[u] \in UserDoc
  BY DEF IInv, TypeOK, CallState
<1>2. UserInv(u) /\ CallInv(c)
  BY <1>1 DEF IInv
<1>3. /\ n \in UserDoc
      /\ RoleFollowsType(n)
      /\ n.status = "COMPLETED" => n.type \in n.roles
      /\ n.status = "COMPLETED" /\ n.roles \subseteq {Talent}
             => profiles[u] > 0
      /\ n.step >= 2 \/ n.status = "COMPLETED" => n.named
      /\ user[u].roles \subseteq n.roles /\ d.roles \subseteq n.roles
      /\ user[u].named => n.named
      /\ d.named => n.named
      /\ n.deactivated = user[u].deactivated
      /\ n.type # user[u].type => n.type \in n.roles
      /\ n.type # d.type => n.type \in n.roles
  <2>1. /\ call[c].base.roles \subseteq user[u].roles
        /\ call[c].base.named => user[u].named
        /\ call[c].base.deactivated => user[u].deactivated
        /\ call[c].base.type # user[u].type => user[u].type \in user[u].roles
    BY <1>2 DEF CallInv, HeldIsStored, Stored
  <2> HIDE DEF u
  <2> QED BY <1>1, <1>2, <2>1, SavedUser DEF u
<1>4. /\ user' = [user EXCEPT ![u] = n]
      /\ call' = [call EXCEPT ![c].at = at, ![c].base = d, ![c].doc = d]
      /\ profiles' = profiles
  BY DEF SaveAs, Stored
<1> HIDE DEF n
<1>5. /\ user' \in [Users -> UserDoc]
      /\ user'[u] = n
      /\ \A v \in Users \ {u} : user'[v] = user[v]
  BY <1>1, <1>3, <1>4 DEF TypeOK
<1>6. /\ call' \in [Calls -> CallState]
      /\ call'[c].at = at /\ call'[c].op = call[c].op /\ call'[c].user = u
      /\ call'[c].base = d /\ call'[c].doc = d
      /\ \A e \in Calls \ {c} : call'[e] = call[e]
  BY <1>1, <1>4 DEF TypeOK, CallState
<1>7. TypeOK'
  BY <1>1, <1>4, <1>5, <1>6 DEF TypeOK
<1>8. ASSUME NEW v \in Users
      PROVE  UserInv(v)'
  <2>1. CASE v = u
    BY <2>1, <1>3, <1>4, <1>5
       DEF UserInv, CompletedUser, TalentUser, NamedUser, RoleFollowsType
  <2>2. CASE v # u
    BY <2>2, <1>4, <1>5
       DEF IInv, UserInv, CompletedUser, TalentUser, NamedUser, RoleFollowsType
  <2> QED BY <2>1, <2>2
<1>9. CallInv(c)'
  <2>1. HeldIsStored(c)'
    <3>1. /\ d.deactivated => user[u].deactivated
          /\ d.step >= 2 => user[u].named \/ d.named
      BY <1>2 DEF CallInv, HeldIsStored, Stored, SaveIsSound
    <3> QED BY <1>3, <1>5, <1>6, <3>1 DEF HeldIsStored, Stored
  <2>2. HeldIsOrdered(c)'
    BY <1>6 DEF HeldIsOrdered
  <2>3. HeldIsChecked(c)'
    BY <1>4, <1>6 DEF HeldIsChecked, Checked
  <2> QED BY <2>1, <2>2, <2>3 DEF CallInv
<1>10. ASSUME NEW e \in Calls, e # c
       PROVE  CallInv(e)'
  <2>1. CallInv(e) /\ call'[e] = call[e] /\ call[e].user \in Users
    BY <1>1, <1>6, <1>10 DEF IInv, TypeOK, CallState
  <2>2. HeldIsStored(e)'
    <3>1. CASE call[e].user = u
      BY <2>1, <3>1, <1>3, <1>5, OthersHold
         DEF CallInv, HeldIsStored, Stored
    <3>2. CASE call[e].user # u
      BY <2>1, <3>2, <1>5 DEF CallInv, HeldIsStored, Stored
    <3> QED BY <3>1, <3>2
  <2>3. HeldIsOrdered(e)' /\ HeldIsChecked(e)'
    BY <2>1, <1>4 DEF CallInv, HeldIsOrdered, HeldIsChecked, Checked
  <2> QED BY <2>1, <2>2, <2>3 DEF CallInv
<1>11. NothingUndone
  BY <1>3, <1>5 DEF NothingUndone
<1> QED BY <1>7, <1>8, <1>9, <1>10, <1>11 DEF IInv

\* A step of a request that saves nothing keeps the invariant if what it holds
\* afterwards is right.
LEMMA HoldStep ==
    ASSUME IInv, NEW c \in Calls, UNCHANGED <<user, profiles>>,
           call' \in [Calls -> CallState],
           \A e \in Calls \ {c} : call'[e] = call[e],
           CallInv(c)'
    PROVE  IInv' /\ NothingUndone
<1>1. TypeOK' /\ NothingUndone
  BY DEF IInv, TypeOK, NothingUndone
<1>2. \A v \in Users : UserInv(v)'
  BY DEF IInv, UserInv, CompletedUser, TalentUser, NamedUser, RoleFollowsType
<1>3. ASSUME NEW e \in Calls, e # c
      PROVE  CallInv(e)'
  <2>1. CallInv(e) /\ call'[e] = call[e]
    BY <1>3 DEF IInv
  <2> QED BY <2>1 DEF CallInv, HeldIsStored, HeldIsOrdered, HeldIsChecked,
                      Checked, Stored
<1> QED BY <1>1, <1>2, <1>3 DEF IInv

----------------------------------------------------------------------------
(* Initially *)

LEMMA IdleHolds ==
    ASSUME TypeOK, NEW u \in Users
    PROVE  Idle(u) \in CallState /\ Idle(u).user = u
           /\ Idle(u).base = user[u] /\ Idle(u).doc = user[u]
           /\ Idle(u).at = "idle"
  BY OnboardingAssumption DEF TypeOK, Idle, CallState, Steps, Ops

\* A request that holds the document as it is stored holds the truth.
LEMMA FreshHolds ==
    ASSUME NEW c, UserInv(call[c].user),
           call[c].base = Stored(c), call[c].doc = Stored(c),
           call[c].at \in {"idle", "load"}
    PROVE  CallInv(c)
  BY DEF UserInv, NamedUser, RoleFollowsType, CallInv, HeldIsStored, Stored,
         HeldIsOrdered, HeldIsChecked, Checked, TalentSteps

LEMMA InitInv == Init => IInv
<1> SUFFICES ASSUME Init PROVE IInv
  OBVIOUS
<1>1. PICK w \in Users : call = [c \in Calls |-> Idle(w)]
  BY DEF Init
<1>2. /\ user \in [Users -> UserDoc] /\ profiles \in [Users -> Nat]
      /\ \A v \in Users : user[v] \in NewUsers
  BY DEF Init, NewUsers
<1>3. ASSUME NEW v \in Users
      PROVE  UserInv(v)
  <2>1. /\ user[v].roles = {} \/ user[v].roles = {user[v].type}
        /\ user[v].step = 1 /\ user[v].status = "NOT_STARTED"
    BY <1>2 DEF NewUsers
  <2> QED BY <2>1 DEF UserInv, CompletedUser, TalentUser, NamedUser,
                      RoleFollowsType
<1>4. Idle(w) \in CallState
  BY <1>2, OnboardingAssumption DEF Idle, CallState, Steps, Ops
<1>5. TypeOK
  BY <1>1, <1>2, <1>4 DEF TypeOK
<1>6. ASSUME NEW c \in Calls
      PROVE  CallInv(c)
  <2>1. /\ call[c].user = w /\ call[c].base = user[w]
        /\ call[c].doc = user[w] /\ call[c].at = "idle"
    BY <1>1, <1>5, IdleHolds
  <2> QED BY <2>1, <1>3, FreshHolds DEF Stored
<1> QED BY <1>3, <1>5, <1>6 DEF IInv

----------------------------------------------------------------------------
(* The steps that save *)

\* What is known of a request at every step.
LEMMA CallFacts ==
    ASSUME IInv, NEW c \in Calls
    PROVE  /\ call[c] \in CallState /\ call[c].user \in Users
           /\ call[c].base \in UserDoc /\ call[c].doc \in UserDoc
           /\ call[c].type \in Types /\ Stored(c) \in UserDoc
           /\ CallInv(c) /\ UserInv(call[c].user) /\ TypeOK
  BY DEF IInv, TypeOK, CallState, Stored

LEMMA WithRoleFields ==
    ASSUME NEW d \in UserDoc, NEW t \in Types
    PROVE  /\ WithRole(d, t) \in UserDoc
           /\ WithRole(d, t).type = d.type
           /\ WithRole(d, t).roles = d.roles \cup {t}
           /\ WithRole(d, t).step = d.step
           /\ WithRole(d, t).status = d.status
           /\ WithRole(d, t).named = d.named
           /\ WithRole(d, t).deactivated = d.deactivated
  BY DEF WithRole, UserDoc

\* Saving a document with a role added, the role of its type.
LEMMA RoleSave ==
    ASSUME IInv, NEW c \in Calls
    PROVE  /\ WithRole(call[c].doc, call[c].doc.type) \in UserDoc
           /\ SaveIsSound(call[c].user, call[c].base,
                          WithRole(call[c].doc, call[c].doc.type))
<1>1. call[c].doc \in UserDoc /\ call[c].doc.type \in Types /\ CallInv(c)
  BY CallFacts DEF UserDoc
<1> QED BY <1>1, WithRoleFields
        DEF SaveIsSound, CallInv, HeldIsOrdered, HeldIsStored, Stored

LEMMA AttachRoleStep ==
    ASSUME IInv, NEW c \in Calls, AttachRole(c)
    PROVE  IInv' /\ NothingUndone
<1> DEFINE d == call[c].doc
<1>1. /\ call[c] \in CallState /\ d \in UserDoc /\ d.type \in Types
      /\ CallInv(c) /\ TypeOK /\ call[c].at = "role"
  BY CallFacts DEF UserDoc, AttachRole
<1>2. call[c].op = "complete" => /\ d.step >= 2
                                 /\ d.type = Talent => profiles[call[c].user] > 0
  BY <1>1 DEF CallInv, HeldIsChecked, Checked
<1>3. CASE d.type \in d.roles /\ Goto(c, "permissions")
  <2>1. /\ call' = [call EXCEPT ![c].at = "permissions"]
        /\ UNCHANGED <<user, profiles>>
    BY <1>3 DEF Goto
  <2>2. /\ call' \in [Calls -> CallState]
        /\ call'[c] = [call[c] EXCEPT !.at = "permissions"]
        /\ \A e \in Calls \ {c} : call'[e] = call[e]
    BY <1>1, <2>1 DEF TypeOK, CallState, Steps
  <2>3. CallInv(c)'
    BY <1>1, <1>3, <2>1, <2>2
       DEF CallInv, HeldIsStored, HeldIsOrdered, HeldIsChecked, Checked,
           Stored, TalentSteps, CallState
  <2> QED BY <2>1, <2>2, <2>3, HoldStep
<1>4. ASSUME NEW at \in {"permissions", "idle"},
             SaveAs(c, WithRole(d, d.type), at)
      PROVE  IInv' /\ NothingUndone
  <2>1. /\ WithRole(d, d.type) \in UserDoc
        /\ SaveIsSound(call[c].user, call[c].base, WithRole(d, d.type))
        /\ WithRole(d, d.type).type = d.type
        /\ WithRole(d, d.type).step = d.step
        /\ d.type \in WithRole(d, d.type).roles
    BY <1>1, RoleSave, WithRoleFields
  <2>2. call'[c].at = at /\ call'[c].op = call[c].op /\ at \in Steps
    BY <1>1, <1>4 DEF SaveAs, TypeOK, CallState, Steps
  <2>3. Checked(c)' => call[c].op = "complete"
    BY <2>2 DEF Checked
  <2>4. at # "profile" /\ at \notin TalentSteps
    BY DEF TalentSteps
  <2> HIDE DEF d
  <2> QED BY <1>2, <1>4, <2>1, <2>2, <2>3, <2>4, SaveStep
<1> QED BY <1>3, <1>4 DEF AttachRole

LEMMA InitiatePermissionsStep ==
    ASSUME IInv, NEW c \in Calls, InitiatePermissions(c)
    PROVE  IInv' /\ NothingUndone
<1> DEFINE d == call[c].doc
           at == IF call[c].op = "complete" THEN "finish" ELSE "idle"
<1>1. /\ call[c] \in CallState /\ d \in UserDoc /\ d.type \in Types
      /\ CallInv(c) /\ TypeOK /\ call[c].at = "permissions"
      /\ SaveAs(c, WithRole(d, d.type), at)
  BY CallFacts DEF UserDoc, InitiatePermissions
<1>2. call[c].op = "complete" => /\ d.step >= 2
                                 /\ d.type = Talent => profiles[call[c].user] > 0
  BY <1>1 DEF CallInv, HeldIsChecked, Checked
<1>3. /\ WithRole(d, d.type) \in UserDoc
      /\ SaveIsSound(call[c].user, call[c].base, WithRole(d, d.type))
      /\ WithRole(d, d.type).type = d.type
      /\ WithRole(d, d.type).step = d.step
      /\ d.type \in WithRole(d, d.type).roles
  BY <1>1, RoleSave, WithRoleFields
<1>4. call'[c].at = at /\ call'[c].op = call[c].op /\ at \in Steps
  BY <1>1 DEF SaveAs, TypeOK, CallState, Steps
<1>5. Checked(c)' => call[c].op = "complete"
  BY <1>4 DEF Checked
<1>6. at # "profile" /\ at \notin TalentSteps
  BY DEF TalentSteps
<1> HIDE DEF d, at
<1> QED BY <1>1, <1>2, <1>3, <1>4, <1>5, <1>6, SaveStep

LEMMA SaveHandlerStep ==
    ASSUME IInv, NEW c \in Calls, Save(c)
    PROVE  IInv' /\ NothingUndone
<1>1. /\ call[c] \in CallState /\ call[c].doc \in UserDoc /\ CallInv(c)
      /\ TypeOK /\ call[c].at = "save" /\ SaveAs(c, call[c].doc, "idle")
  BY CallFacts DEF Save
<1>2. SaveIsSound(call[c].user, call[c].base, call[c].doc)
  BY <1>1 DEF SaveIsSound, CallInv, HeldIsOrdered, HeldIsStored, Stored
<1>3. ~Checked(c)' /\ "idle" \in Steps /\ "idle" \notin TalentSteps
  BY <1>1 DEF Checked, SaveAs, TypeOK, CallState, Steps, TalentSteps
<1> QED BY <1>1, <1>2, <1>3, SaveStep

LEMMA AdvanceStep ==
    ASSUME IInv, NEW c \in Calls, Advance(c)
    PROVE  IInv' /\ NothingUndone
<1> DEFINE d == [call[c].doc EXCEPT !.step = 3]
<1>1. /\ call[c] \in CallState /\ call[c].doc \in UserDoc /\ CallInv(c)
      /\ TypeOK /\ call[c].at = "advance" /\ SaveAs(c, d, "idle")
  BY CallFacts DEF Advance
<1>2. /\ d \in UserDoc /\ d.step = 3 /\ d.type = call[c].doc.type
      /\ d.roles = call[c].doc.roles /\ d.status = call[c].doc.status
      /\ d.named = call[c].doc.named
      /\ d.deactivated = call[c].doc.deactivated
  BY <1>1 DEF UserDoc
<1>3. SaveIsSound(call[c].user, call[c].base, d)
  <2>1. Stored(c).named
    BY <1>1 DEF CallInv, HeldIsStored, HeldIsChecked, TalentSteps
  <2> HIDE DEF d
  <2> QED BY <1>1, <1>2, <2>1 DEF SaveIsSound, CallInv, HeldIsOrdered, Stored
<1>4. ~Checked(c)' /\ "idle" \in Steps /\ "idle" \notin TalentSteps
  BY <1>1 DEF Checked, SaveAs, TypeOK, CallState, Steps, TalentSteps
<1> HIDE DEF d
<1> QED BY <1>1, <1>2, <1>3, <1>4, SaveStep

LEMMA FinishStep ==
    ASSUME IInv, NEW c \in Calls, Finish(c)
    PROVE  IInv' /\ NothingUndone
<1> DEFINE d == [call[c].doc EXCEPT !.step = 4, !.status = "COMPLETED"]
<1>1. /\ call[c] \in CallState /\ call[c].doc \in UserDoc /\ CallInv(c)
      /\ TypeOK /\ call[c].at = "finish" /\ SaveAs(c, d, "idle")
  BY CallFacts DEF Finish
<1>2. /\ d \in UserDoc /\ d.step = 4 /\ d.type = call[c].doc.type
      /\ d.roles = call[c].doc.roles /\ d.status = "COMPLETED"
      /\ d.named = call[c].doc.named
      /\ d.deactivated = call[c].doc.deactivated
  <2>1. 4 \in 1..4 /\ "COMPLETED" \in Statuses
    BY DEF Statuses
  <2> QED BY <1>1, <2>1 DEF UserDoc
<1>3. SaveIsSound(call[c].user, call[c].base, d)
  <2>1. /\ call[c].doc.step >= 2 /\ call[c].doc.type \in call[c].base.roles
        /\ call[c].doc.type = Talent => profiles[call[c].user] > 0
    BY <1>1 DEF CallInv, HeldIsChecked, Checked
  <2> HIDE DEF d
  <2> QED BY <1>1, <1>2, <2>1
          DEF SaveIsSound, CallInv, HeldIsOrdered, HeldIsStored, Stored
<1>4. ~Checked(c)' /\ "idle" \in Steps /\ "idle" \notin TalentSteps
  BY <1>1 DEF Checked, SaveAs, TypeOK, CallState, Steps, TalentSteps
<1> HIDE DEF d
<1> QED BY <1>1, <1>2, <1>3, <1>4, SaveStep

LEMMA AttachTalentRoleStep ==
    ASSUME IInv, NEW c \in Calls, AttachTalentRole(c)
    PROVE  IInv' /\ NothingUndone
<1> DEFINE d == WithRole(call[c].doc, Talent)
<1>1. /\ call[c] \in CallState /\ call[c].doc \in UserDoc /\ CallInv(c)
      /\ TypeOK /\ call[c].at = "talentRole" /\ call[c].base \in UserDoc
  BY CallFacts DEF AttachTalentRole
<1>2. /\ call[c].doc.type = Talent
      /\ call[c].base.step >= 2 /\ call[c].doc.step >= 2
  BY <1>1 DEF CallInv, HeldIsChecked, TalentSteps
<1>3. d = WithRole(call[c].doc, call[c].doc.type)
  BY <1>2
<1>4. /\ d \in UserDoc /\ SaveIsSound(call[c].user, call[c].base, d)
      /\ d.type = Talent /\ d.roles = call[c].doc.roles \cup {Talent}
      /\ d.step = call[c].doc.step /\ d.named = call[c].doc.named
      /\ d.status = call[c].doc.status
      /\ d.deactivated = call[c].doc.deactivated
  BY <1>1, <1>2, <1>3, RoleSave, WithRoleFields, OnboardingAssumption
<1>5. "advance" \in Steps /\ "advance" \in TalentSteps
  BY DEF Steps, TalentSteps
<1> HIDE DEF d
<1>6. CASE Goto(c, "advance")
  <2>1. /\ call' = [call EXCEPT ![c].at = "advance"]
        /\ UNCHANGED <<user, profiles>>
    BY <1>6 DEF Goto
  <2>2. /\ call' \in [Calls -> CallState]
        /\ call'[c] = [call[c] EXCEPT !.at = "advance"]
        /\ \A e \in Calls \ {c} : call'[e] = call[e]
    BY <1>1, <1>5, <2>1 DEF TypeOK, CallState
  <2>3. HeldIsStored(c)' /\ HeldIsOrdered(c)'
    BY <1>1, <2>1, <2>2
       DEF CallInv, HeldIsStored, HeldIsOrdered, Stored, CallState
  <2>4. HeldIsChecked(c)'
    BY <1>1, <1>2, <2>1, <2>2 DEF HeldIsChecked, Checked, CallState
  <2> QED BY <2>1, <2>2, <2>3, <2>4, HoldStep DEF CallInv
<1>7. CASE SaveAs(c, d, "advance")
  <2>1. d.step >= 2
    BY <1>2, <1>4
  <2>2. ~Checked(c)'
    BY <1>1, <1>7 DEF Checked, SaveAs, TypeOK, CallState
  <2> QED BY <1>4, <1>5, <1>7, <2>1, <2>2, SaveStep
<1>8. CASE /\ call' = [call EXCEPT ![c].at = "advance", ![c].doc = d]
           /\ UNCHANGED <<user, profiles>>
  <2>1. /\ call' \in [Calls -> CallState]
        /\ call'[c].at = "advance" /\ call'[c].doc = d
        /\ call'[c].base = call[c].base /\ call'[c].user = call[c].user
        /\ call'[c].op = call[c].op
        /\ \A e \in Calls \ {c} : call'[e] = call[e]
    BY <1>1, <1>4, <1>5, <1>8 DEF TypeOK, CallState
  <2>2. HeldIsStored(c)'
    BY <1>1, <1>4, <1>8, <2>1 DEF CallInv, HeldIsStored, Stored
  <2>3. call[c].base.type = Talent
    BY <1>1, <1>2 DEF CallInv, HeldIsOrdered
  <2>4. HeldIsOrdered(c)'
    <3>1. /\ call[c].base.roles \subseteq d.roles /\ Talent \in d.roles
          /\ call[c].base.named => d.named
          /\ call[c].base.deactivated = d.deactivated
          /\ d.status = "COMPLETED" => call[c].base.status = "COMPLETED"
      BY <1>1, <1>4 DEF CallInv, HeldIsOrdered
    <3> QED BY <1>4, <2>1, <2>3, <3>1 DEF HeldIsOrdered
  <2>5. HeldIsChecked(c)'
    BY <1>2, <1>4, <2>1 DEF HeldIsChecked, Checked
  <2> QED BY <1>8, <2>1, <2>2, <2>4, <2>5, HoldStep DEF CallInv
<1> QED BY <1>6, <1>7, <1>8 DEF AttachTalentRole, d

----------------------------------------------------------------------------
(* The steps that only hold or go on *)

\* Going on to a step that asks for nothing more of what the request holds.
LEMMA GotoStep ==
    ASSUME IInv, NEW c \in Calls, NEW at \in Steps, Goto(c, at),
           call[c].doc.type = call[c].base.type,
           HeldIsChecked(c)'
    PROVE  IInv' /\ NothingUndone
<1>1. /\ call[c] \in CallState /\ CallInv(c) /\ TypeOK
      /\ call' = [call EXCEPT ![c].at = at] /\ UNCHANGED <<user, profiles>>
  BY CallFacts DEF Goto
<1>2. /\ call' \in [Calls -> CallState]
      /\ call'[c] = [call[c] EXCEPT !.at = at]
      /\ \A e \in Calls \ {c} : call'[e] = call[e]
  BY <1>1 DEF TypeOK, CallState
<1>3. HeldIsStored(c)' /\ HeldIsOrdered(c)'
  BY <1>1, <1>2 DEF CallInv, HeldIsStored, HeldIsOrdered, Stored, CallState
<1> QED BY <1>1, <1>2, <1>3, HoldStep DEF CallInv

\* Loading the document and changing it in memory.
LEMMA LoadStep ==
    ASSUME IInv, NEW c \in Calls, NEW d \in UserDoc, NEW at \in Steps,
           Hold(c, d, at),
           LET s == Stored(c) IN
           /\ d.roles = s.roles /\ (s.named => d.named)
           /\ d.deactivated = s.deactivated
           /\ d.step >= 2 => s.named \/ d.named
           /\ d.type # s.type => at = "role"
           /\ d.status = "COMPLETED" => s.status = "COMPLETED",
           HeldIsChecked(c)'
    PROVE  IInv' /\ NothingUndone
<1>1. /\ call[c] \in CallState /\ TypeOK /\ UserInv(call[c].user)
      /\ Stored(c) \in UserDoc
      /\ call' = [call EXCEPT ![c].at = at, ![c].base = Stored(c), ![c].doc = d]
      /\ UNCHANGED <<user, profiles>>
  BY CallFacts DEF Hold
<1>2. /\ call' \in [Calls -> CallState]
      /\ call'[c].at = at /\ call'[c].base = Stored(c) /\ call'[c].doc = d
      /\ call'[c].user = call[c].user /\ call'[c].op = call[c].op
      /\ \A e \in Calls \ {c} : call'[e] = call[e]
  BY <1>1 DEF TypeOK, CallState
<1>3. HeldIsStored(c)'
  BY <1>1, <1>2 DEF HeldIsStored, UserInv, NamedUser, Stored
<1>4. HeldIsOrdered(c)'
  BY <1>1, <1>2 DEF HeldIsOrdered
<1> QED BY <1>1, <1>2, <1>3, <1>4, HoldStep DEF CallInv

LEMMA SetUserTypeStep ==
    ASSUME IInv, NEW c \in Calls, SetUserType(c)
    PROVE  IInv' /\ NothingUndone
<1> DEFINE d == [Stored(c) EXCEPT !.type = call[c].type, !.step = 1,
                                  !.status = "IN_PROGRESS"]
<1>1. /\ call[c] \in CallState /\ Stored(c) \in UserDoc /\ TypeOK
      /\ call[c].type \in Types
      /\ Loads(c, "userType") /\ Hold(c, d, "role")
  BY CallFacts DEF SetUserType
<1>2. /\ d \in UserDoc /\ d.step = 1 /\ d.status = "IN_PROGRESS"
      /\ d.roles = Stored(c).roles /\ d.named = Stored(c).named
      /\ d.deactivated = Stored(c).deactivated
  <2>1. 1 \in 1..4 /\ "IN_PROGRESS" \in Statuses
    BY DEF Statuses
  <2> QED BY <1>1, <2>1 DEF UserDoc
<1> HIDE DEF d
<1>3. call'[c].at = "role" /\ call'[c].op = "userType" /\ "role" \in Steps
  BY <1>1 DEF Hold, Loads, TypeOK, CallState, Steps
<1>4. HeldIsChecked(c)'
  BY <1>3 DEF HeldIsChecked, Checked, TalentSteps
<1> QED BY <1>1, <1>2, <1>3, <1>4, LoadStep

LEMMA SetBasicInfoStep ==
    ASSUME IInv, NEW c \in Calls, SetBasicInfo(c)
    PROVE  IInv' /\ NothingUndone
<1> DEFINE d == [Stored(c) EXCEPT !.named = TRUE, !.step = 2]
<1>1. /\ call[c] \in CallState /\ Stored(c) \in UserDoc /\ TypeOK
      /\ Hold(c, d, "save")
  BY CallFacts DEF SetBasicInfo
<1>2. /\ d \in UserDoc /\ d.named = TRUE
      /\ d.type = Stored(c).type /\ d.status = Stored(c).status
      /\ d.roles = Stored(c).roles /\ d.deactivated = Stored(c).deactivated
  <2>1. 2 \in 1..4
    OBVIOUS
  <2> QED BY <1>1, <2>1 DEF UserDoc
<1> HIDE DEF d
<1>3. call'[c].at = "save" /\ "save" \in Steps
  BY <1>1 DEF Hold, TypeOK, CallState, Steps
<1>4. HeldIsChecked(c)'
  BY <1>3 DEF HeldIsChecked, Checked, TalentSteps
<1> QED BY <1>1, <1>2, <1>3, <1>4, LoadStep

LEMMA SetUserInfoStep ==
    ASSUME IInv, NEW c \in Calls, SetUserInfo(c)
    PROVE  IInv' /\ NothingUndone
<1> DEFINE d == [Stored(c) EXCEPT !.step = 3]
<1>1. /\ call[c] \in CallState /\ Stored(c) \in UserDoc /\ TypeOK
      /\ Stored(c).step >= 2 /\ UserInv(call[c].user)
      /\ Hold(c, d, "save")
  BY CallFacts DEF SetUserInfo
<1>2. /\ d \in UserDoc /\ d.named = Stored(c).named
      /\ d.type = Stored(c).type /\ d.status = Stored(c).status
      /\ d.roles = Stored(c).roles /\ d.deactivated = Stored(c).deactivated
  <2>1. 3 \in 1..4
    OBVIOUS
  <2> QED BY <1>1, <2>1 DEF UserDoc
<1> HIDE DEF d
<1>3. call'[c].at = "save" /\ "save" \in Steps /\ Stored(c).named
  BY <1>1 DEF Hold, TypeOK, CallState, Steps, UserInv, NamedUser, Stored
<1>4. HeldIsChecked(c)'
  BY <1>3 DEF HeldIsChecked, Checked, TalentSteps
<1> QED BY <1>1, <1>2, <1>3, <1>4, LoadStep

LEMMA SetTalentInfoStep ==
    ASSUME IInv, NEW c \in Calls, SetTalentInfo(c)
    PROVE  IInv' /\ NothingUndone
<1>1. /\ call[c] \in CallState /\ Stored(c) \in UserDoc /\ TypeOK
      /\ Stored(c).type = Talent /\ Stored(c).step >= 2
      /\ UserInv(call[c].user) /\ Hold(c, Stored(c), "find")
  BY CallFacts DEF SetTalentInfo
<1>2. /\ call'[c].at = "find" /\ "find" \in Steps /\ Stored(c).named
      /\ call'[c].base = Stored(c) /\ call'[c].doc = Stored(c)
  BY <1>1 DEF Hold, TypeOK, CallState, Steps, UserInv, NamedUser, Stored
<1>3. HeldIsChecked(c)'
  BY <1>1, <1>2 DEF HeldIsChecked, Checked
<1> QED BY <1>1, <1>2, <1>3, LoadStep

LEMMA CompleteOnboardingStep ==
    ASSUME IInv, NEW c \in Calls, CompleteOnboarding(c)
    PROVE  IInv' /\ NothingUndone
<1> DEFINE at == IF Stored(c).type = Talent THEN "profile"
                 ELSE RoleStep(Stored(c))
<1>1. /\ call[c] \in CallState /\ Stored(c) \in UserDoc /\ TypeOK
      /\ Stored(c).step >= 3 /\ UserInv(call[c].user)
      /\ Hold(c, Stored(c), at)
  BY CallFacts DEF CompleteOnboarding
<1>2. /\ at \in {"profile", "role", "permissions"}
      /\ Stored(c).type = Talent => at = "profile"
  BY DEF RoleStep
<1> HIDE DEF at
<1>3. /\ call'[c].at = at /\ at \in Steps /\ Stored(c).named
      /\ call'[c].base = Stored(c) /\ call'[c].doc = Stored(c)
  BY <1>1, <1>2 DEF Hold, TypeOK, CallState, Steps, UserInv, NamedUser, Stored,
                    UserDoc
<1>4. Stored(c).step >= 2
  BY <1>1 DEF UserDoc
<1>5. HeldIsChecked(c)'
  BY <1>2, <1>3, <1>4 DEF HeldIsChecked, Checked, TalentSteps
<1> QED BY <1>1, <1>3, <1>5, LoadStep

LEMMA ProfileLookUpStep ==
    ASSUME IInv, NEW c \in Calls,
           FindProfile(c) \/ CheckProfile(c) \/ VerifyProfile(c)
    PROVE  IInv' /\ NothingUndone
<1>1. /\ call[c] \in CallState /\ CallInv(c) /\ TypeOK
      /\ call[c].doc \in UserDoc
  BY CallFacts
<1>2. call[c].at \in {"find", "create", "profile"}
  BY DEF FindProfile, CheckProfile, VerifyProfile
<1>3. call[c].doc.type = call[c].base.type
  BY <1>1, <1>2 DEF CallInv, HeldIsOrdered
<1>4. CASE FindProfile(c) \/ CheckProfile(c)
  <2>1. PICK at \in {"advance", "create", "insert"} : Goto(c, at)
    BY <1>4 DEF FindProfile, CheckProfile
  <2>2. /\ call'[c] = [call[c] EXCEPT !.at = at] /\ profiles' = profiles
        /\ call[c].at \in TalentSteps
    BY <1>1, <1>4, <2>1
       DEF Goto, TypeOK, FindProfile, CheckProfile, TalentSteps
  <2>3. /\ call'[c].at = at /\ call'[c].doc = call[c].doc
        /\ call'[c].base = call[c].base
    BY <1>1, <2>2 DEF CallState
  <2>4. HeldIsChecked(c)' /\ at \in Steps
    BY <1>1, <2>1, <2>2, <2>3
       DEF CallInv, HeldIsChecked, Checked, TalentSteps, Steps
  <2> QED BY <1>3, <2>1, <2>4, GotoStep
<1>5. CASE VerifyProfile(c)
  <2> DEFINE at == RoleStep(call[c].doc)
  <2>1. /\ Goto(c, at) /\ at \in {"role", "permissions"}
        /\ profiles[call[c].user] > 0 /\ call[c].at = "profile"
    BY <1>5 DEF VerifyProfile, RoleStep
  <2> HIDE DEF at
  <2>2. call'[c] = [call[c] EXCEPT !.at = at] /\ profiles' = profiles
    BY <1>1, <2>1 DEF Goto, TypeOK
  <2>3. /\ call'[c].at = at /\ call'[c].doc = call[c].doc
        /\ call'[c].base = call[c].base /\ call'[c].user = call[c].user
    BY <1>1, <2>2 DEF CallState
  <2>4. HeldIsChecked(c)' /\ at \in Steps
    BY <1>1, <2>1, <2>2, <2>3
       DEF CallInv, HeldIsChecked, Checked, TalentSteps, Steps
  <2> QED BY <1>3, <2>1, <2>4, GotoStep
<1> QED BY <1>4, <1>5

LEMMA InsertProfileStep ==
    ASSUME IInv, NEW c \in Calls, InsertProfile(c)
    PROVE  IInv' /\ NothingUndone
<1>1. /\ call[c] \in CallState /\ TypeOK /\ call[c].at = "insert"
      /\ CallInv(c)
      /\ call' = [call EXCEPT ![c].at = "talentRole"]
      /\ profiles' = [profiles EXCEPT ![call[c].user] =
                          profiles[call[c].user] + 1]
      /\ user' = user
  BY CallFacts DEF InsertProfile
<1>2. /\ call' \in [Calls -> CallState]
      /\ call'[c] = [call[c] EXCEPT !.at = "talentRole"]
      /\ \A e \in Calls \ {c} : call'[e] = call[e]
  BY <1>1 DEF TypeOK, CallState, Steps
<1>3. /\ profiles' \in [Users -> Nat]
      /\ \A v \in Users : profiles[v] > 0 => profiles'[v] > 0
  <2>1. profiles \in [Users -> Nat] /\ call[c].user \in Users
    BY <1>1 DEF TypeOK, CallState
  <2>2. /\ profiles[call[c].user] + 1 \in Nat
        /\ profiles[call[c].user] + 1 > 0
    BY <2>1
  <2> QED BY <1>1, <2>1, <2>2
<1>4. ASSUME NEW v \in Users
      PROVE  UserInv(v)'
  BY <1>1, <1>3
     DEF IInv, UserInv, CompletedUser, TalentUser, NamedUser, RoleFollowsType
<1>5. ASSUME NEW e \in Calls
      PROVE  CallInv(e)'
  <2>1. CallInv(e) /\ call[e] \in CallState /\ call[e].user \in Users
    BY <1>1 DEF IInv, TypeOK, CallState
  <2>2. CASE e = c
    <3>1. HeldIsStored(e)' /\ HeldIsOrdered(e)'
      BY <1>1, <1>2, <2>1, <2>2
         DEF CallInv, HeldIsStored, HeldIsOrdered, Stored, CallState
    <3>2. HeldIsChecked(e)'
      <4>1. /\ call[e].doc.type = Talent /\ call[e].base.step >= 2
            /\ call[e].doc.step >= 2
        BY <1>1, <2>2 DEF CallInv, HeldIsChecked, TalentSteps
      <4> QED BY <1>2, <2>1, <2>2, <4>1 DEF HeldIsChecked, Checked, CallState
    <3> QED BY <3>1, <3>2 DEF CallInv
  <2>3. CASE e # c
    <3>1. HeldIsStored(e)' /\ HeldIsOrdered(e)'
      BY <1>1, <1>2, <2>1, <2>3 DEF CallInv, HeldIsStored, HeldIsOrdered, Stored
    <3>2. HeldIsChecked(e)'
      BY <1>2, <1>3, <2>1, <2>3 DEF CallInv, HeldIsChecked, Checked
    <3> QED BY <3>1, <3>2 DEF CallInv
  <2> QED BY <2>2, <2>3
<1>6. TypeOK' /\ NothingUndone
  BY <1>1, <1>2, <1>3 DEF TypeOK, NothingUndone
<1> QED BY <1>4, <1>5, <1>6 DEF IInv

LEMMA DeactivateStep ==
    ASSUME IInv, NEW c \in Calls, Deactivate(c)
    PROVE  IInv' /\ NothingUndone
<1> DEFINE u == call[c].user
           n == [user[u] EXCEPT !.deactivated = TRUE]
<1>1. /\ call[c] \in CallState /\ TypeOK /\ CallInv(c)
      /\ u \in Users /\ user[u] \in UserDoc
      /\ call' = [call EXCEPT ![c].at = "idle"]
      /\ user' = [user EXCEPT ![u] = n] /\ profiles' = profiles
      /\ call[c].at = "load"
  BY CallFacts DEF Deactivate, Stored, TypeOK, Loads
<1>2. /\ n \in UserDoc /\ n.type = user[u].type /\ n.roles = user[u].roles
      /\ n.step = user[u].step /\ n.status = user[u].status
      /\ n.named = user[u].named /\ n.deactivated = TRUE
  BY <1>1 DEF UserDoc
<1> HIDE DEF n
<1>3. /\ user' \in [Users -> UserDoc] /\ user'[u] = n
      /\ \A v \in Users \ {u} : user'[v] = user[v]
  BY <1>1, <1>2 DEF TypeOK
<1>4. /\ call' \in [Calls -> CallState]
      /\ call'[c] = [call[c] EXCEPT !.at = "idle"]
      /\ \A e \in Calls \ {c} : call'[e] = call[e]
  BY <1>1 DEF TypeOK, CallState, Steps
<1>5. ASSUME NEW v \in Users
      PROVE  UserInv(v)'
  <2>1. UserInv(v)
    BY DEF IInv
  <2>2. /\ user'[v].type = user[v].type /\ user'[v].roles = user[v].roles
        /\ user'[v].step = user[v].step /\ user'[v].status = user[v].status
        /\ user'[v].named = user[v].named
    BY <1>1, <1>2, <1>3
  <2> QED BY <1>1, <2>1, <2>2
          DEF UserInv, CompletedUser, TalentUser, NamedUser, RoleFollowsType
<1>6. ASSUME NEW e \in Calls
      PROVE  CallInv(e)'
  <2>1. /\ CallInv(e) /\ call[e] \in CallState /\ call[e].user \in Users
        /\ call'[e].user = call[e].user /\ call'[e].base = call[e].base
        /\ call'[e].doc = call[e].doc /\ call'[e].op = call[e].op
        /\ call'[e].at = IF e = c THEN "idle" ELSE call[e].at
    BY <1>1, <1>4 DEF IInv, TypeOK, CallState
  <2>2. HeldIsStored(e)'
    <3> DEFINE w == call[e].user
    <3>1. /\ user'[w].type = user[w].type /\ user'[w].roles = user[w].roles
          /\ user'[w].named = user[w].named
          /\ user[w].deactivated => user'[w].deactivated
      BY <1>1, <1>2, <1>3, <2>1
    <3> QED BY <2>1, <3>1 DEF CallInv, HeldIsStored, Stored
  <2>3. HeldIsOrdered(e)'
    BY <1>1, <2>1 DEF CallInv, HeldIsOrdered
  <2>4. HeldIsChecked(e)'
    BY <1>1, <2>1 DEF CallInv, HeldIsChecked, Checked, TalentSteps
  <2> QED BY <2>2, <2>3, <2>4 DEF CallInv
<1>7. TypeOK' /\ NothingUndone
  BY <1>1, <1>2, <1>3, <1>4 DEF TypeOK, NothingUndone
<1> QED BY <1>5, <1>6, <1>7 DEF IInv

\* Starting a request and giving it up.
LEMMA BoundaryStep ==
    ASSUME IInv, NEW c \in Calls,
           \/ \E u \in Users, op \in Ops, t \in Types : Protect(c, u, op, t)
           \/ Abandon(c)
    PROVE  IInv' /\ NothingUndone
<1>1. TypeOK /\ call[c].user \in Users
  BY CallFacts
<1>2. CASE \E u \in Users, op \in Ops, t \in Types : Protect(c, u, op, t)
  <2>1. PICK u \in Users, op \in Ops, t \in Types : Protect(c, u, op, t)
    BY <1>2
  <2> DEFINE new == [Idle(u) EXCEPT !.at = "load", !.op = op, !.type = t]
  <2>2. call' = [call EXCEPT ![c] = new] /\ UNCHANGED <<user, profiles>>
    BY <2>1 DEF Protect
  <2>3. /\ new \in CallState /\ new.user = u /\ new.base = user[u]
        /\ new.doc = user[u] /\ new.at = "load"
    <3>1. /\ Idle(u) \in CallState /\ Idle(u).user = u
          /\ Idle(u).base = user[u] /\ Idle(u).doc = user[u]
      BY <1>1, IdleHolds
    <3>2. "load" \in Steps
      BY DEF Steps
    <3> QED BY <3>1, <3>2 DEF CallState
  <2> HIDE DEF new
  <2>4. /\ call' \in [Calls -> CallState] /\ call'[c] = new
        /\ \A e \in Calls \ {c} : call'[e] = call[e]
    BY <1>1, <2>2, <2>3 DEF TypeOK
  <2>5. UserInv(u)'
    BY <2>2 DEF IInv, UserInv, CompletedUser, TalentUser, NamedUser,
                RoleFollowsType
  <2>6. CallInv(c)'
    BY <2>2, <2>3, <2>4, <2>5
       DEF UserInv, NamedUser, RoleFollowsType, CallInv, HeldIsStored, Stored,
           HeldIsOrdered, HeldIsChecked, Checked, TalentSteps
  <2> QED BY <2>2, <2>4, <2>6, HoldStep
<1>3. CASE Abandon(c)
  <2> PICK u \in Users : u = call[c].user
    BY <1>1
  <2>1. call' = [call EXCEPT ![c] = Idle(u)] /\ UNCHANGED <<user, profiles>>
    BY <1>3 DEF Abandon
  <2>2. /\ Idle(u) \in CallState /\ Idle(u).user = u /\ Idle(u).base = user[u]
        /\ Idle(u).doc = user[u] /\ Idle(u).at = "idle"
    BY <1>1, IdleHolds
  <2>3. /\ call' \in [Calls -> CallState] /\ call'[c] = Idle(u)
        /\ \A e \in Calls \ {c} : call'[e] = call[e]
    BY <1>1, <2>1, <2>2 DEF TypeOK
  <2>4. UserInv(u)'
    BY <1>1, <2>1 DEF IInv, UserInv, CompletedUser, TalentUser, NamedUser,
                      RoleFollowsType
  <2>5. CallInv(c)'
    BY <2>1, <2>2, <2>3, <2>4
       DEF UserInv, NamedUser, RoleFollowsType, CallInv, HeldIsStored, Stored,
           HeldIsOrdered, HeldIsChecked, Checked, TalentSteps
  <2> QED BY <2>1, <2>3, <2>5, HoldStep
<1> QED BY <1>2, <1>3

----------------------------------------------------------------------------
(* The theorems *)

LEMMA NextInv ==
    ASSUME IInv, Next
    PROVE  IInv' /\ NothingUndone
<1>1. PICK c \in Calls :
          \/ \E u \in Users, op \in Ops, t \in Types : Protect(c, u, op, t)
          \/ Abandon(c)
          \/ Handle(c)
  BY DEF Next
<1>2. CASE Handle(c)
  BY <1>2, SetUserTypeStep, AttachRoleStep, InitiatePermissionsStep,
     SetBasicInfoStep, SetUserInfoStep, SaveHandlerStep, SetTalentInfoStep,
     ProfileLookUpStep, InsertProfileStep, AttachTalentRoleStep, AdvanceStep,
     CompleteOnboardingStep, FinishStep, DeactivateStep DEF Handle
<1> QED BY <1>1, <1>2, BoundaryStep

LEMMA StutterInv ==
    ASSUME IInv, UNCHANGED vars
    PROVE  IInv' /\ NothingUndone
  BY DEF vars, IInv, TypeOK, UserInv, CompletedUser, TalentUser, NamedUser,
         RoleFollowsType, CallInv, HeldIsStored, HeldIsOrdered, HeldIsChecked,
         Checked, Stored, NothingUndone

\* The strengthening holds throughout.
LEMMA Invariance == Spec => []IInv
<1>1. IInv /\ [Next]_vars => IInv'
  BY NextInv, StutterInv
<1> QED BY <1>1, InitInv, PTL DEF Spec

\* Every document and every request has its type, in setUserType and the
\* handlers after it.
THEOREM OnboardingTypes == Spec => []TypeOK
<1>1. IInv => TypeOK
  BY DEF IInv
<1> QED BY <1>1, Invariance, PTL

\* completeOnboarding leaves no account without the role of its type.
THEOREM CompletionGivesRole == Spec => []CompletedHasRole
<1>1. IInv => CompletedHasRole
  BY DEF IInv, UserInv, CompletedUser, CompletedHasRole
<1> QED BY <1>1, Invariance, PTL

\* No interleaving of the handlers gets an account past its basic information.
THEOREM NamedBeforeNextStep == Spec => []NamedFirst
<1>1. IInv => NamedFirst
  BY DEF IInv, UserInv, NamedUser, NamedFirst
<1> QED BY <1>1, Invariance, PTL

\* completeOnboarding's look-up is enough for an account that was never
\* anything but a talent.
THEOREM TalentsHaveProfiles == Spec => []TalentHasProfile
<1>1. IInv => TalentHasProfile
  BY DEF IInv, UserInv, TalentUser, TalentHasProfile
<1> QED BY <1>1, Invariance, PTL

\* A save of a document loaded earlier undoes no deactivation and takes no
\* role away.
THEOREM SavesUndoNothing == Spec => NothingIsUndone
<1>1. IInv /\ [Next]_vars =>
          [\A u \in Users :
              /\ user[u].deactivated => user'[u].deactivated
              /\ user[u].named => user'[u].named
              /\ user[u].roles \subseteq user'[u].roles]_vars
  BY NextInv DEF NothingUndone
<1> QED BY <1>1, Invariance, PTL DEF Spec, NothingIsUndone
=============================================================================
