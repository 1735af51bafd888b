------------------------ MODULE ShareableLinks_proofs ------------------------
(***************************************************************************)
(* RevocationHolds, AccessesAreCounted and KeepsRegister for any links,    *)
(* resources, tokens, calls and bounds.  What makes them inductive: a      *)
(* document keeps its resource, type and token, is never taken back from   *)
(* revoked, and its count only grows (Evolves); so the links a revocation  *)
(* set out to revoke still match its filter or are revoked by now.         *)
(***************************************************************************)
EXTENDS ShareableLinks, TLAPS

\* How a document may change in one step.
Evolves(d, e) ==
    /\ d.state = "unused" => e.state # "deleted" /\ ~e.revoked
    /\ d.state # "unused" =>
           /\ e.state # "unused"
           /\ e.resource = d.resource /\ e.type = d.type /\ e.token = d.token
           /\ d.revoked => e.revoked
           /\ d.count <= e.count
    /\ d.state = "deleted" => e.state = "deleted"
    /\ e.state = "deleted" => d.state = "deleted" \/ d.revoked

\* A revocation's targets match its filter, or are withdrawn by now.
RevokeMatches(h) == InStep(h, "revoke") =>
    \A l \in call[h].targets :
        \/ Withdrawn(l)
        \/ Stored(l) /\ l \in Revocable(call[h])

\* A call that generates has an expiry, and a token by the time it inserts.
CreateMatches(h) ==
    /\ call[h].step \in {"token", "create"} => call[h].age # {}
    /\ InStep(h, "create") => call[h].token \in Tokens

CountMatches(h) == InStep(h, "count") => link[call[h].doc].state # "unused"

UnusedIsNew == \A l \in Links : link[l].state = "unused" => visits[l] = 0 /\ ~link[l].revoked

IInv ==
    /\ TypeOK /\ UnusedIsNew /\ RevocationHolds /\ AccessesAreCounted
    /\ \A h \in Calls : RevokeMatches(h) /\ CreateMatches(h) /\ CountMatches(h)

----------------------------------------------------------------------------
(* Types *)

LEMMA Defaults ==
    IdleCall \in Call /\ UnusedLink \in LinkDoc /\ AnyResource \in Resources
    /\ AnyType \in LinkTypes /\ AnyLink \in Links
<1>1. AnyResource \in Resources /\ AnyType \in LinkTypes /\ AnyLink \in Links
  BY LinksAssumption DEF AnyResource, AnyType, AnyLink
<1> QED BY <1>1 DEF IdleCall, Call, CallSteps, UnusedLink, LinkDoc

LEMMA InitInv == Init => IInv
<1> SUFFICES ASSUME Init PROVE IInv
  OBVIOUS
<1>0. \A l \in Links : link[l].state = "unused"
  BY DEF Init, UnusedLink
<1>1. TypeOK
  BY <1>0, Defaults, LinksAssumption DEF Init, TypeOK
<1>2. \A h \in Calls : RevokeMatches(h) /\ CreateMatches(h) /\ CountMatches(h)
  BY DEF Init, IdleCall, RevokeMatches, CreateMatches, CountMatches, InStep
<1> QED
  BY <1>1, <1>2 DEF IInv, Init, UnusedIsNew, UnusedLink, RevocationHolds,
                    AccessesAreCounted, Stored

LEMMA FaultType ==
    ASSUME TypeOK, Works \/ Fails PROVE faults' \in 0..MaxLinkFaults
BY LinksAssumption DEF TypeOK, Works, Fails

LEMMA CallType ==
    ASSUME TypeOK, NEW h \in Calls, NEW c \in Call, Becomes(h, c)
    PROVE  /\ call' \in [Calls -> Call]
           /\ call'[h] = c
           /\ \A k \in Calls \ {h} : call'[k] = call[k]
BY DEF TypeOK, Becomes

\* What a call is as it begins; only a revocation has targets.
LEMMA StartCall ==
    ASSUME TypeOK, NEW h \in Calls, Starts(h)
    PROVE  \E c \in Call :
               /\ Begins(h, c) /\ c.step \notin {"idle", "count"}
               /\ c.step = "revoke" => c.targets = Revocable(c)
               /\ c.step # "create" /\ (c.step = "token" => c.age # {})
<1> USE Defaults
<1> PICK r \in Resources, ty \in LinkTypes :
        \/ \E age \in {"valid", "past"} : Generate(h, r, ty, age)
        \/ \E t \in Tokens \cup {NoToken} : StartRevoke(h, t, r, ty)
        \/ \E t \in Tokens :
              \/ StartValidate(h, t, r, ty)
              \/ \E age \in {{}, {"valid"}, {"past"}}, on \in {{}, {TRUE}, {FALSE}} :
                     StartUpdate(h, t, r, ty, age, on)
  BY DEF Starts
<1>1. ASSUME NEW age \in {"valid", "past"}, Generate(h, r, ty, age)
      PROVE  \E c \in Call :
               /\ Begins(h, c) /\ c.step \notin {"idle", "count"}
               /\ c.step = "revoke" => c.targets = Revocable(c)
               /\ c.step # "create" /\ (c.step = "token" => c.age # {})
  <2> DEFINE c == [IdleCall EXCEPT !.step = "token", !.resource = r, !.type = ty,
                                   !.age = {age}]
  <2>1. c \in Call /\ c.step = "token" /\ c.age # {}
    BY DEF Call, CallSteps
  <2> QED BY <1>1, <2>1 DEF Generate
<1>2. ASSUME NEW t \in Tokens \cup {NoToken}, StartRevoke(h, t, r, ty)
      PROVE  \E c \in Call :
               /\ Begins(h, c) /\ c.step \notin {"idle", "count"}
               /\ c.step = "revoke" => c.targets = Revocable(c)
               /\ c.step # "create" /\ (c.step = "token" => c.age # {})
  <2> DEFINE b == [IdleCall EXCEPT !.step = "revoke", !.token = t, !.resource = r,
                                   !.type = ty]
             c == [b EXCEPT !.targets = Revocable(b)]
  <2>1. b \in Call
    BY DEF Call, CallSteps
  <2>2. Revocable(b) \subseteq Links
    BY DEF Revocable
  <2>3. c \in Call /\ c.step = "revoke" /\ c.targets = Revocable(b)
    BY <2>1, <2>2 DEF Call
  <2>4. c.resource = b.resource /\ c.type = b.type /\ c.token = b.token
    BY <2>1 DEF Call
  <2>5. Revocable(c) = Revocable(b)
    BY <2>4 DEF Revocable
  <2>6. Begins(h, c)
    BY <1>2 DEF StartRevoke
  <2> QED BY <2>3, <2>5, <2>6
<1>3. ASSUME NEW t \in Tokens, StartValidate(h, t, r, ty)
      PROVE  \E c \in Call :
               /\ Begins(h, c) /\ c.step \notin {"idle", "count"}
               /\ c.step = "revoke" => c.targets = Revocable(c)
               /\ c.step # "create" /\ (c.step = "token" => c.age # {})
  <2> DEFINE c == [IdleCall EXCEPT !.step = "look", !.token = t, !.resource = r,
                                   !.type = ty]
  <2>1. c \in Call /\ c.step = "look"
    BY DEF Call, CallSteps
  <2> QED BY <1>3, <2>1 DEF StartValidate
<1>4. ASSUME NEW t \in Tokens, NEW age \in {{}, {"valid"}, {"past"}},
             NEW on \in {{}, {TRUE}, {FALSE}}, StartUpdate(h, t, r, ty, age, on)
      PROVE  \E c \in Call :
               /\ Begins(h, c) /\ c.step \notin {"idle", "count"}
               /\ c.step = "revoke" => c.targets = Revocable(c)
               /\ c.step # "create" /\ (c.step = "token" => c.age # {})
  <2> DEFINE c == [IdleCall EXCEPT !.step = "update", !.token = t, !.resource = r,
                                   !.type = ty, !.age = age, !.active = on]
  <2>1. c \in Call /\ c.step = "update"
    BY DEF Call, CallSteps
  <2> QED BY <1>4, <2>1 DEF StartUpdate
<1> QED BY <1>1, <1>2, <1>3, <1>4

\* Where a call goes from each of its steps, and that only a look-up leads to
\* the count.
LEMMA StepCall ==
    ASSUME TypeOK, NEW h \in Calls,
           \/ GenerateToken(h) \/ CreateLink(h) \/ LookUpLink(h) \/ AnswerValid(h)
           \/ AnswerRevoked(h) \/ UpdateLink(h)
    PROVE  \E c \in Call :
               /\ Becomes(h, c) /\ c.step # "revoke"
               /\ faults' \in 0..MaxLinkFaults
               /\ c.step = "count" => LookUpLink(h) /\ Stored(c.doc)
               /\ c.step # "token"
               /\ c.step = "create" =>
                      GenerateToken(h) /\ c.token \in Tokens /\ c.age = call[h].age
<1> USE Defaults, FaultType
<1>0. IdleCall.step = "idle" /\ call[h] \in Call
  BY DEF IdleCall, TypeOK
<1>1. CASE Finish(h) /\ (Works \/ Fails)
  BY <1>0, <1>1 DEF Finish
<1>2. CASE GenerateToken(h) /\ ~Finish(h)
  <2>1. PICK t \in Tokens :
            Works /\ Becomes(h, [call[h] EXCEPT !.token = t, !.step = "create"])
    BY <1>2 DEF GenerateToken, NewTokens
  <2>2. [call[h] EXCEPT !.token = t, !.step = "create"] \in Call
    BY <1>0 DEF Call, CallSteps
  <2> DEFINE c == [call[h] EXCEPT !.token = t, !.step = "create"]
  <2>3. c.step = "create" /\ c.token = t /\ c.age = call[h].age
    BY <1>0 DEF Call
  <2> QED BY <1>2, <2>1, <2>2, <2>3
<1>3. CASE LookUpLink(h) /\ ~Finish(h)
  <2>1. PICK l \in ByToken(call[h].token, call[h].resource) :
            Works /\ Becomes(h, [call[h] EXCEPT !.doc = l, !.count = link[l].count,
                                                !.step = "count"])
    BY <1>3 DEF LookUpLink
  <2>2. l \in Links /\ Stored(l) /\ link[l].count \in Nat
    BY DEF ByToken, TypeOK, LinkDoc
  <2> DEFINE c == [call[h] EXCEPT !.doc = l, !.count = link[l].count, !.step = "count"]
  <2>3. c \in Call /\ c.step = "count" /\ c.doc = l
    BY <1>0, <2>2 DEF Call, CallSteps
  <2> QED BY <1>3, <2>1, <2>2, <2>3
<1>4. CASE GenerateToken(h)
  BY <1>1, <1>2, <1>4 DEF GenerateToken
<1>5. CASE LookUpLink(h)
  BY <1>1, <1>3, <1>5 DEF LookUpLink
<1>6. CASE CreateLink(h) \/ AnswerValid(h) \/ AnswerRevoked(h) \/ UpdateLink(h)
  BY <1>1, <1>6 DEF CreateLink, AnswerValid, AnswerRevoked, UpdateLink
<1> QED BY <1>4, <1>5, <1>6

----------------------------------------------------------------------------
(* Documents *)

\* One document takes another value, or none does.
Writes(l, d) == link' = [link EXCEPT ![l] = d]

LEMMA OneEvolves ==
    ASSUME TypeOK, UnusedIsNew, NEW l \in Links, NEW d \in LinkDoc, Writes(l, d), Evolves(link[l], d),
           d.state = "stored" => d.token \in Tokens
    PROVE  /\ link' \in [Links -> LinkDoc]
           /\ \A k \in Links : Evolves(link[k], link'[k])
           /\ \A k \in Links : link'[k].state = "stored" => link'[k].token \in Tokens
<1>1. \A k \in Links : link[k] \in LinkDoc /\ link[k].count \in Nat
  BY DEF TypeOK, LinkDoc
<1>2. link'[l] = d /\ \A k \in Links \ {l} : link'[k] = link[k]
  BY DEF TypeOK, Writes
<1>3. \A k \in Links \ {l} : Evolves(link[k], link'[k])
  BY <1>1, <1>2 DEF UnusedIsNew, Evolves
<1> QED BY <1>2, <1>3 DEF TypeOK, Writes

LEMMA NoneEvolves ==
    ASSUME TypeOK, UnusedIsNew, UNCHANGED link
    PROVE  /\ link' \in [Links -> LinkDoc]
           /\ \A k \in Links : Evolves(link[k], link'[k])
           /\ \A k \in Links : link'[k].state = "stored" => link'[k].token \in Tokens
<1>1. \A k \in Links : link[k] \in LinkDoc /\ link[k].count \in Nat
  BY DEF TypeOK, LinkDoc
<1> QED BY <1>1 DEF TypeOK, UnusedIsNew, Evolves

\* A step writes no document, or one that evolves and keeps its token.
Written(l, d) ==
    /\ Writes(l, d) /\ Evolves(link[l], d)
    /\ d.state = "stored" => d.token \in Tokens

DocStep == UNCHANGED link \/ \E l \in Links, d \in LinkDoc : Written(l, d)

LEMMA CreateDocs ==
    ASSUME IInv, NEW h \in Calls, CreateLink(h) PROVE DocStep
<1> DEFINE c == call[h]
           a == CHOOSE x \in c.age : TRUE
<1>1. c \in Call /\ c.resource \in Resources /\ c.type \in LinkTypes
      /\ c.token \in Tokens /\ a \in {"valid", "past"}
  <2>1. c \in Call /\ c.age # {} /\ c.token \in Tokens
    BY DEF IInv, TypeOK, CreateMatches, CreateLink, InStep
  <2> QED BY <2>1 DEF Call
<1>2. ASSUME StoreLink(c) PROVE DocStep
  <2>1. PICK l \in Links :
            /\ link[l].state = "unused"
            /\ Writes(l, [UnusedLink EXCEPT !.state = "stored", !.resource = c.resource,
                              !.type = c.type, !.token = c.token, !.age = a])
    BY <1>2 DEF StoreLink, Writes
  <2> HIDE DEF a, c
  <2> DEFINE d == [UnusedLink EXCEPT !.state = "stored", !.resource = c.resource,
                              !.type = c.type, !.token = c.token, !.age = a]
  <2>2. d \in LinkDoc /\ d.state = "stored" /\ ~d.revoked /\ d.token = c.token
    BY <1>1, Defaults DEF LinkDoc, UnusedLink
  <2>3. Written(l, d)
    BY <1>1, <2>1, <2>2 DEF Written, Evolves
  <2> QED BY <2>2, <2>3 DEF DocStep
<1> QED BY <1>2 DEF CreateLink, DocStep

LEMMA CountDocs ==
    ASSUME IInv, NEW h \in Calls, IncrementAccessCount(h) PROVE DocStep
<1> DEFINE l == call[h].doc
           d == [link[l] EXCEPT !.count = link[l].count + 1]
<1>1. l \in Links /\ link[l] \in LinkDoc /\ link \in [Links -> LinkDoc]
      /\ (link[l].state = "stored" => link[l].token \in Tokens)
  BY DEF IInv, TypeOK, Call
<1>2. CASE Stored(l)
  <2>1. d \in LinkDoc /\ Evolves(link[l], d) /\ d.token = link[l].token
    BY <1>1, <1>2 DEF LinkDoc, Evolves, Stored
  <2>2. Writes(l, d)
    BY <1>1, <1>2 DEF IncrementAccessCount, Counted, Writes
  <2>3. Written(l, d)
    BY <1>1, <1>2, <2>1, <2>2 DEF Written, Stored
  <2> QED BY <1>1, <2>1, <2>3 DEF DocStep
<1> QED BY <1>2 DEF IncrementAccessCount, DocStep

LEMMA RevokeDocs ==
    ASSUME IInv, NEW h \in Calls, NEW l \in Links, RevokeOne(h, l) PROVE DocStep
<1> DEFINE d == [link[l] EXCEPT !.revoked = TRUE, !.active = FALSE]
<1>1. link[l] \in LinkDoc /\ link[l].state = "stored" /\ link[l].token \in Tokens
  <2>1. Stored(l)
    BY DEF RevokeOne, Revocable
  <2> QED BY <2>1 DEF IInv, TypeOK, Stored
<1>2. /\ d \in LinkDoc /\ d.state = link[l].state /\ d.resource = link[l].resource
      /\ d.type = link[l].type /\ d.token = link[l].token /\ d.count = link[l].count
      /\ d.revoked = TRUE
  BY <1>1 DEF LinkDoc
<1>3. Writes(l, d)
  BY DEF Writes, RevokeOne
<1> HIDE DEF d
<1>4. link[l].count \in Nat
  BY <1>1 DEF LinkDoc
<1>5. Written(l, d)
  BY <1>1, <1>2, <1>3, <1>4 DEF Written, Evolves
<1> QED BY <1>2, <1>5 DEF DocStep

LEMMA UpdateDocs ==
    ASSUME IInv, NEW h \in Calls, UpdateLink(h) PROVE DocStep
<1> DEFINE c == call[h]
<1>0. c \in Call /\ c.age \subseteq {"valid", "past"} /\ c.active \subseteq BOOLEAN
  BY DEF IInv, TypeOK, Call
<1>1. ASSUME NEW l \in ByToken(c.token, c.resource), Writes(l, Updated(link[l], c))
      PROVE  DocStep
  <2>1. l \in Links /\ link[l] \in LinkDoc /\ link[l].state = "stored"
        /\ link[l].token \in Tokens
    BY DEF IInv, TypeOK, ByToken, Stored
  <2>2. IfGiven(link[l].age, c.age) \in {"valid", "past", "old"}
    BY <1>0, <2>1 DEF IfGiven, LinkDoc
  <2>3. IfGiven(link[l].active, c.active) \in BOOLEAN
    BY <1>0, <2>1 DEF IfGiven, LinkDoc
  <2> DEFINE a == IfGiven(link[l].age, c.age)
             b == IfGiven(link[l].active, c.active)
             d == [link[l] EXCEPT !.age = a, !.active = b]
  <2>4. Writes(l, d)
    BY <1>1 DEF Updated
  <2>t. a \in {"valid", "past", "old"} /\ b \in BOOLEAN
    BY <2>2, <2>3
  <2> HIDE DEF a, b
  <2>s. /\ d \in LinkDoc /\ d.state = link[l].state /\ d.resource = link[l].resource
        /\ d.type = link[l].type /\ d.token = link[l].token /\ d.count = link[l].count
        /\ d.revoked = link[l].revoked
    BY <2>1, <2>t DEF LinkDoc
  <2> HIDE DEF d
  <2>c. link[l].count \in Nat
    BY <2>1 DEF LinkDoc
  <2>5. Evolves(link[l], d)
    BY <2>1, <2>s, <2>c DEF Evolves
  <2>6. Written(l, d)
    BY <2>1, <2>4, <2>5, <2>s DEF Written
  <2> QED BY <2>1, <2>s, <2>6 DEF DocStep
<1> QED BY <1>1 DEF UpdateLink, Writes, DocStep

LEMMA TimeDocs ==
    ASSUME IInv, NEW l \in Links, CleanupLink(l) \/ PassTime(l) PROVE DocStep
<1>1. link[l] \in LinkDoc /\ link[l].state = "stored" /\ link[l].token \in Tokens
  BY DEF IInv, TypeOK, CleanupLink, PassTime, Stored
<1>2. ASSUME NEW d \in LinkDoc, Writes(l, d), Evolves(link[l], d), d.token = link[l].token
      PROVE  DocStep
  BY <1>1, <1>2 DEF DocStep, Written
<1>3. CASE CleanupLink(l)
  <2> DEFINE d == [link[l] EXCEPT !.state = "deleted"]
  <2>1. d \in LinkDoc /\ Evolves(link[l], d) /\ d.token = link[l].token
    BY <1>1, <1>3 DEF LinkDoc, Evolves, CleanupLink
  <2>2. Writes(l, d)
    BY <1>3 DEF CleanupLink, Writes
  <2> QED BY <1>2, <2>1, <2>2
<1>4. ASSUME NEW a \in {"past", "old"}, link' = [link EXCEPT ![l].age = a] PROVE DocStep
  <2> DEFINE d == [link[l] EXCEPT !.age = a]
  <2>1. d \in LinkDoc /\ Evolves(link[l], d) /\ d.token = link[l].token
    BY <1>1 DEF LinkDoc, Evolves
  <2>2. Writes(l, d)
    BY <1>4 DEF Writes
  <2> QED BY <1>2, <2>1, <2>2
<1> QED BY <1>3, <1>4 DEF PassTime

LEMMA LinkStepDocs ==
    ASSUME IInv, [Next]_vars PROVE DocStep
<1>1. ASSUME NEW h \in Calls, Starts(h) PROVE DocStep
  <2>1. UNCHANGED link
    BY <1>1, StartCall DEF IInv, Begins
  <2> QED BY <2>1 DEF DocStep
<1>2. ASSUME NEW h \in Calls, LinkStep(h) PROVE DocStep
  BY <1>2, CreateDocs, CountDocs, RevokeDocs, UpdateDocs
     DEF LinkStep, GenerateToken, LookUpLink, AnswerValid, AnswerRevoked, DocStep
<1>3. ASSUME NEW l \in Links, CleanupLink(l) \/ PassTime(l) PROVE DocStep
  BY <1>3, TimeDocs
<1>4. CASE UNCHANGED vars
  BY <1>4 DEF vars, DocStep
<1> QED BY <1>1, <1>2, <1>3, <1>4 DEF Next

\* What a step does to every document at once.
LEMMA DocsEvolve ==
    ASSUME IInv, [Next]_vars
    PROVE  /\ link' \in [Links -> LinkDoc]
           /\ \A k \in Links : Evolves(link[k], link'[k])
           /\ \A k \in Links : link'[k].state = "stored" => link'[k].token \in Tokens
BY LinkStepDocs, OneEvolves, NoneEvolves DEF DocStep, Written, IInv

----------------------------------------------------------------------------
(* The inductive invariant *)

\* A call keeps what it relies on while documents evolve.
LEMMA KeptMatches ==
    ASSUME IInv, [Next]_vars, NEW k \in Calls, call'[k] = call[k]
    PROVE  RevokeMatches(k)' /\ CreateMatches(k)' /\ CountMatches(k)'
<1>0. RevokeMatches(k) /\ CreateMatches(k) /\ CountMatches(k)
  BY DEF IInv
<1>1. \A l \in Links : Evolves(link[l], link'[l])
  BY DocsEvolve
<1>2. call[k].targets \subseteq Links /\ call[k].doc \in Links
  BY DEF IInv, TypeOK, Call
<1>3. ASSUME NEW l \in Links, Withdrawn(l) PROVE Withdrawn(l)'
  <2>1. link[l].state # "unused"
    BY <1>3 DEF IInv, UnusedIsNew, Withdrawn
  <2> QED BY <1>1, <1>3, <2>1 DEF Evolves, Withdrawn
<1>4. ASSUME NEW l \in Links, Stored(l), l \in Revocable(call[k])
      PROVE  Withdrawn(l)' \/ (Stored(l)' /\ l \in Revocable(call[k])')
  <2>1. Evolves(link[l], link'[l]) /\ link'[l] \in LinkDoc
    BY <1>1, DocsEvolve
  <2>2. link'[l].state \in {"stored", "deleted"}
    BY <1>4, <2>1 DEF Evolves, LinkDoc, Stored
  <2> QED BY <1>4, <2>1, <2>2 DEF Evolves, Stored, Withdrawn, Revocable
<1>5. RevokeMatches(k)'
  <2>1. ASSUME InStep(k, "revoke"), NEW l \in call[k].targets
        PROVE  Withdrawn(l)' \/ (Stored(l)' /\ l \in Revocable(call[k])')
    BY <1>0, <1>2, <1>3, <1>4, <2>1 DEF RevokeMatches
  <2> QED BY <2>1 DEF RevokeMatches, InStep, Revocable
<1>6. CreateMatches(k)'
  BY <1>0 DEF CreateMatches, InStep
<1>7. CountMatches(k)'
  BY <1>0, <1>1, <1>2 DEF CountMatches, InStep, Evolves
<1> QED BY <1>5, <1>6, <1>7

\* The call that moves is right about what it relies on next.
LEMMA MovedMatches ==
    ASSUME IInv, [Next]_vars, NEW h \in Calls, Starts(h) \/ LinkStep(h)
    PROVE  RevokeMatches(h)' /\ CreateMatches(h)' /\ CountMatches(h)'
<1>0. TypeOK /\ CreateMatches(h)
  BY DEF IInv
<1>1. CASE Starts(h)
  <2>1. PICK c \in Call :
            /\ Begins(h, c) /\ c.step \notin {"idle", "count"}
            /\ c.step = "revoke" => c.targets = Revocable(c)
            /\ c.step # "create" /\ (c.step = "token" => c.age # {})
    BY <1>0, <1>1, StartCall
  <2>2. call'[h] = c /\ UNCHANGED link
    BY <1>0, <2>1, CallType DEF Begins
  <2>3. ASSUME c.step = "revoke", NEW l \in c.targets
        PROVE  Stored(l)' /\ l \in Revocable(call[h])'
    BY <2>1, <2>2, <2>3 DEF Revocable, Stored
  <2> QED BY <2>1, <2>2, <2>3 DEF RevokeMatches, CreateMatches, CountMatches, InStep
<1>2. CASE \E l \in Links : RevokeOne(h, l)
  BY <1>2, KeptMatches DEF RevokeOne
<1>3. CASE \/ GenerateToken(h) \/ CreateLink(h) \/ LookUpLink(h) \/ AnswerValid(h)
           \/ AnswerRevoked(h) \/ UpdateLink(h)
  <2>1. PICK c \in Call :
            /\ Becomes(h, c) /\ c.step # "revoke"
            /\ c.step = "count" => LookUpLink(h) /\ Stored(c.doc)
            /\ c.step # "token"
            /\ c.step = "create" =>
                   GenerateToken(h) /\ c.token \in Tokens /\ c.age = call[h].age
    BY <1>0, <1>3, StepCall
  <2>2. call'[h] = c
    BY <1>0, <2>1, CallType
  <2>3. RevokeMatches(h)'
    BY <2>1, <2>2 DEF RevokeMatches, InStep
  <2>4. CreateMatches(h)'
    BY <1>0, <2>1, <2>2 DEF CreateMatches, GenerateToken, InStep
  <2>5. CountMatches(h)'
    BY <2>1, <2>2 DEF CountMatches, InStep, LookUpLink, Stored
  <2> QED BY <2>3, <2>4, <2>5
<1> QED BY <1>1, <1>2, <1>3 DEF LinkStep

\* Which calls a step moves, and what it does to the rest of the state.
LEMMA OtherCalls ==
    ASSUME IInv, Next
    PROVE  /\ call' \in [Calls -> Call]
           /\ begun' \in 0..MaxLinkCalls /\ faults' \in 0..MaxLinkFaults
           /\ \A h \in Calls : call'[h] # call[h] => Starts(h) \/ LinkStep(h)
<1>0. TypeOK
  BY DEF IInv
<1>1. ASSUME NEW h \in Calls, Starts(h)
      PROVE  /\ call' \in [Calls -> Call] /\ begun' \in 0..MaxLinkCalls
             /\ faults' \in 0..MaxLinkFaults /\ \A k \in Calls \ {h} : call'[k] = call[k]
  <2>1. PICK c \in Call : Begins(h, c)
    BY <1>0, <1>1, StartCall
  <2> QED BY <1>0, <2>1, CallType, LinksAssumption DEF Begins, TypeOK
<1>2. ASSUME NEW h \in Calls, LinkStep(h)
      PROVE  /\ call' \in [Calls -> Call] /\ begun' \in 0..MaxLinkCalls
             /\ faults' \in 0..MaxLinkFaults /\ \A k \in Calls \ {h} : call'[k] = call[k]
  <2>1. UNCHANGED begun
    BY <1>2 DEF LinkStep, GenerateToken, CreateLink, LookUpLink, AnswerValid,
                AnswerRevoked, UpdateLink, RevokeOne
  <2>2. CASE \E l \in Links : RevokeOne(h, l)
    BY <1>0, <2>1, <2>2 DEF RevokeOne, TypeOK
  <2>3. CASE \/ GenerateToken(h) \/ CreateLink(h) \/ LookUpLink(h) \/ AnswerValid(h)
             \/ AnswerRevoked(h) \/ UpdateLink(h)
    BY <1>0, <2>1, <2>3, StepCall, CallType DEF TypeOK
  <2> QED BY <1>2, <2>2, <2>3 DEF LinkStep
<1>3. ASSUME NEW l \in Links, CleanupLink(l) \/ PassTime(l)
      PROVE  UNCHANGED <<call, begun, faults>>
  BY <1>3 DEF CleanupLink, PassTime
<1>4. CASE \E h \in Calls : Starts(h) \/ LinkStep(h)
  BY <1>1, <1>2, <1>4
<1>5. CASE \E l \in Links : CleanupLink(l) \/ PassTime(l)
  <2>1. UNCHANGED <<call, begun, faults>>
    BY <1>3, <1>5
  <2> QED BY <1>0, <2>1 DEF TypeOK
<1> QED BY <1>4, <1>5 DEF Next

LEMMA StepMatches ==
    ASSUME IInv, [Next]_vars, NEW h \in Calls
    PROVE  RevokeMatches(h)' /\ CreateMatches(h)' /\ CountMatches(h)'
<1>1. CASE Next
  BY <1>1, OtherCalls, KeptMatches, MovedMatches
<1>2. CASE UNCHANGED vars
  BY <1>2, KeptMatches DEF vars
<1> QED BY <1>1, <1>2

\* Visits and promises change in one action each.
LEMMA WhoAnswers ==
    ASSUME [Next]_vars
    PROVE  /\ \/ UNCHANGED visits
              \/ \E h \in Calls : /\ InStep(h, "count") /\ IncrementAccessCount(h)
                                  /\ visits' = [visits EXCEPT ![call[h].doc] = @ + 1]
           /\ \/ UNCHANGED promised
              \/ \E h \in Calls : /\ InStep(h, "revoke") /\ UNCHANGED link
                                  /\ call[h].targets \cap Revocable(call[h]) = {}
                                  /\ promised' = promised \cup call[h].targets
<1>1. ASSUME NEW h \in Calls, Starts(h) PROVE UNCHANGED <<visits, promised>>
  BY <1>1 DEF Starts, Generate, StartRevoke, StartValidate, StartUpdate, Begins
<1>2. ASSUME NEW h \in Calls,
             \/ GenerateToken(h) \/ CreateLink(h) \/ LookUpLink(h) \/ UpdateLink(h)
             \/ \E l \in Links : RevokeOne(h, l)
      PROVE  UNCHANGED <<visits, promised>>
  BY <1>2 DEF GenerateToken, CreateLink, LookUpLink, UpdateLink, RevokeOne
<1>3. ASSUME NEW l \in Links, CleanupLink(l) \/ PassTime(l)
      PROVE  UNCHANGED <<visits, promised>>
  BY <1>3 DEF CleanupLink, PassTime
<1>4. CASE UNCHANGED vars
  BY <1>4 DEF vars
<1>5. CASE \E h \in Calls : AnswerValid(h)
  BY <1>5 DEF AnswerValid
<1>6. CASE \E h \in Calls : AnswerRevoked(h)
  BY <1>6 DEF AnswerRevoked
<1> QED BY <1>1, <1>2, <1>3, <1>4, <1>5, <1>6 DEF Next, LinkStep

LEMMA StepVisits ==
    ASSUME IInv, [Next]_vars
    PROVE  visits' \in [Links -> Nat] /\ UnusedIsNew' /\ AccessesAreCounted'
<1>0. /\ visits \in [Links -> Nat] /\ UnusedIsNew /\ AccessesAreCounted
      /\ \A l \in Links : link[l] \in LinkDoc /\ link[l].count \in Nat
      /\ link \in [Links -> LinkDoc] /\ \A h \in Calls : call[h].doc \in Links
  BY DEF IInv, TypeOK, LinkDoc, Call
<1>1. \A l \in Links : /\ Evolves(link[l], link'[l]) /\ link'[l] \in LinkDoc
                       /\ link'[l].count \in Nat
  BY DocsEvolve DEF LinkDoc
<1>2. CASE UNCHANGED visits
  BY <1>0, <1>1, <1>2 DEF UnusedIsNew, AccessesAreCounted, Evolves, Stored, LinkDoc
<1>3. ASSUME NEW h \in Calls, InStep(h, "count"), IncrementAccessCount(h),
             visits' = [visits EXCEPT ![call[h].doc] = @ + 1]
      PROVE  visits' \in [Links -> Nat] /\ UnusedIsNew' /\ AccessesAreCounted'
  <2> DEFINE l == call[h].doc
  <2>1. l \in Links /\ link[l].state # "unused"
    BY <1>0, <1>3 DEF IInv, CountMatches
  <2>2. /\ visits' \in [Links -> Nat] /\ visits'[l] = visits[l] + 1
        /\ \A k \in Links \ {l} : visits'[k] = visits[k]
    BY <1>0, <1>3, <2>1
  <2>3. UnusedIsNew'
    BY <1>0, <1>1, <2>1, <2>2 DEF UnusedIsNew, Evolves
  <2>4. link'[l].state = "stored" => visits'[l] <= link'[l].count
    <3>1. CASE Stored(l)
      <4>0. link' = [link EXCEPT ![l].count = link[l].count + 1]
        BY <1>3, <3>1 DEF IncrementAccessCount, Counted
      <4>1. link'[l].count = link[l].count + 1
        BY <1>0, <2>1, <4>0 DEF LinkDoc
      <4>2. visits[l] <= link[l].count
        BY <1>0, <2>1, <3>1 DEF AccessesAreCounted
      <4> QED BY <1>0, <2>1, <2>2, <4>1, <4>2
    <3>2. CASE ~Stored(l)
      <4>1. UNCHANGED link
        BY <1>3, <3>2 DEF IncrementAccessCount
      <4>2. link'[l].state # "stored"
        BY <3>2, <4>1 DEF Stored
      <4> QED BY <4>2
    <3> QED BY <3>1, <3>2
  <2>5. ASSUME NEW k \in Links \ {l}, Stored(k)' PROVE visits'[k] <= link'[k].count
    <3>1. visits'[k] = visits[k] /\ visits[k] \in Nat /\ Evolves(link[k], link'[k])
      BY <1>0, <1>1, <2>2
    <3>2. link[k].state = "unused" => visits[k] = 0
      BY <1>0 DEF UnusedIsNew
    <3>3. link[k].state # "unused" => Stored(k) /\ link[k].count <= link'[k].count
      BY <1>0, <2>5, <3>1 DEF Evolves, Stored, LinkDoc
    <3>4. CASE link[k].state = "unused"
      BY <1>1, <3>1, <3>2, <3>4
    <3>5. CASE link[k].state # "unused"
      <4>1. visits[k] <= link[k].count
        BY <1>0, <3>3, <3>5 DEF AccessesAreCounted
      <4> QED BY <1>0, <1>1, <3>1, <3>3, <3>5, <4>1
    <3> QED BY <3>4, <3>5
  <2>6. AccessesAreCounted'
    <3>1. \A k \in Links : Stored(k)' => visits'[k] <= link'[k].count
      BY <2>4, <2>5 DEF Stored
    <3> QED BY <3>1 DEF AccessesAreCounted
  <2> QED BY <2>2, <2>3, <2>6
<1> QED BY <1>2, <1>3, WhoAnswers

LEMMA StepPromises ==
    ASSUME IInv, [Next]_vars
    PROVE  promised' \subseteq Links /\ RevocationHolds'
<1>0. /\ promised \subseteq Links /\ UnusedIsNew /\ RevocationHolds
      /\ \A h \in Calls : call[h].targets \subseteq Links
  BY DEF IInv, TypeOK, Call
<1>1. \A l \in Links : Evolves(link[l], link'[l])
  BY DocsEvolve
<1>2. \A l \in promised : Withdrawn(l)'
  BY <1>0, <1>1 DEF RevocationHolds, UnusedIsNew, Evolves, Withdrawn
<1>3. CASE UNCHANGED promised
  BY <1>0, <1>2, <1>3 DEF RevocationHolds
<1>4. ASSUME NEW h \in Calls, InStep(h, "revoke"), UNCHANGED link,
             call[h].targets \cap Revocable(call[h]) = {},
             promised' = promised \cup call[h].targets
      PROVE  promised' \subseteq Links /\ RevocationHolds'
  <2>1. \A l \in call[h].targets : Withdrawn(l)
    BY <1>4 DEF IInv, RevokeMatches
  <2>2. \A l \in call[h].targets : Withdrawn(l)'
    BY <1>4, <2>1 DEF Withdrawn
  <2> QED BY <1>0, <1>2, <1>4, <2>2 DEF RevocationHolds
<1> QED BY <1>3, <1>4, WhoAnswers

LEMMA StepInv == IInv /\ [Next]_vars => IInv'
<1> SUFFICES ASSUME IInv, [Next]_vars PROVE IInv'
  OBVIOUS
<1>1. /\ call' \in [Calls -> Call] /\ begun' \in 0..MaxLinkCalls
      /\ faults' \in 0..MaxLinkFaults
  <2>1. CASE UNCHANGED vars
    BY <2>1 DEF IInv, TypeOK, vars
  <2> QED BY <2>1, OtherCalls
<1>2. TypeOK'
  BY <1>1, DocsEvolve, StepVisits, StepPromises DEF TypeOK
<1> QED BY <1>2, StepVisits, StepPromises, StepMatches DEF IInv

THEOREM LinksInv == Spec => []IInv
<1> QED BY InitInv, StepInv, PTL DEF Spec

\* Links, calls and counts keep their types, for any constants.
THEOREM LinkTypesCorrect == Spec => []TypeOK
<1>1. IInv => TypeOK
  BY DEF IInv
<1> QED BY <1>1, LinksInv, PTL

\* What a revocation answered for stays revoked (revokeShareableLink against
\* updateShareableLink, validateShareableLink and the cleanup).
THEOREM RevocationsHold == Spec => []RevocationHolds
<1>1. IInv => RevocationHolds
  BY DEF IInv
<1> QED BY <1>1, LinksInv, PTL

\* No validation loses the count of another (incrementAccessCount).
THEOREM AccessesCounted == Spec => []AccessesAreCounted
<1>1. IInv => AccessesAreCounted
  BY DEF IInv
<1> QED BY <1>1, LinksInv, PTL

----------------------------------------------------------------------------
(* The refinement *)

LEMMA RegisterInit == Init => Register!Init
<1> SUFFICES ASSUME Init PROVE Register!Init
  OBVIOUS
<1>1. \A l \in Links : ~Stored(l) /\ ~Withdrawn(l)
  BY DEF Init, UnusedLink, Stored, Withdrawn
<1>2. \A h \in Calls : ~InStep(h, "count")
  BY DEF Init, IdleCall, InStep
<1> QED BY <1>1, <1>2 DEF Register!Init, OpenLinks, WithdrawnLinks, Visiting

\* Writing one document opens, closes or withdraws its link, or none of these.
LEMMA WriteRegisters ==
    ASSUME IInv, NEW l \in Links, NEW d \in LinkDoc, Written(l, d), Visiting' = Visiting
    PROVE  [Register!Next]_(Register!register)
<1>1. link'[l] = d /\ \A k \in Links \ {l} : link'[k] = link[k]
  BY DEF IInv, TypeOK, Written, Writes
<1>2. \A k \in Links \ {l} : /\ k \in OpenLinks' <=> k \in OpenLinks
                             /\ k \in WithdrawnLinks' <=> k \in WithdrawnLinks
  BY <1>1 DEF OpenLinks, WithdrawnLinks, Withdrawn, Stored, LetsIn
<1>3. OpenLinks \subseteq Links /\ WithdrawnLinks \subseteq Links
      /\ OpenLinks' \subseteq Links /\ WithdrawnLinks' \subseteq Links
  BY DEF OpenLinks, WithdrawnLinks
<1>4. l \in WithdrawnLinks => l \in WithdrawnLinks'
  BY <1>1 DEF WithdrawnLinks, Withdrawn, Written, Evolves, IInv, UnusedIsNew
<1>5. l \in OpenLinks' => l \notin WithdrawnLinks'
  BY <1>1 DEF OpenLinks, WithdrawnLinks, Withdrawn, Stored, LetsIn
<1>6. CASE l \in WithdrawnLinks' /\ l \notin WithdrawnLinks
  <2>1. OpenLinks' = OpenLinks \ {l} /\ WithdrawnLinks' = WithdrawnLinks \cup {l}
    BY <1>2, <1>3, <1>5, <1>6
  <2>2. Register!Withdraw(l)
    BY <2>1 DEF Register!Withdraw
  <2> QED BY <2>2 DEF Register!Next
<1>7. CASE l \in WithdrawnLinks' <=> l \in WithdrawnLinks
  <2>1. WithdrawnLinks' = WithdrawnLinks
    BY <1>2, <1>3, <1>7
  <2>2. CASE l \in OpenLinks'
    <3>1. OpenLinks' = OpenLinks \cup {l}
      BY <1>2, <1>3, <2>2
    <3>2. Register!Open(l)
      BY <1>5, <2>1, <2>2, <3>1 DEF Register!Open
    <3> QED BY <3>2 DEF Register!Next
  <2>3. CASE l \notin OpenLinks'
    <3>1. OpenLinks' = OpenLinks \ {l}
      BY <1>2, <1>3, <2>3
    <3>2. Register!Close(l)
      BY <2>1, <3>1 DEF Register!Close
    <3> QED BY <3>2 DEF Register!Next
  <2> QED BY <2>2, <2>3
<1> QED BY <1>4, <1>6, <1>7

LEMMA CalmRegisters ==
    ASSUME IInv, [Next]_vars, Visiting' = Visiting
    PROVE  [Register!Next]_(Register!register)
<1>1. CASE UNCHANGED link
  BY <1>1 DEF Register!register, OpenLinks, WithdrawnLinks, Withdrawn, Stored, LetsIn
<1>2. CASE \E l \in Links, d \in LinkDoc : Written(l, d)
  BY <1>2, WriteRegisters
<1> QED BY <1>1, <1>2, LinkStepDocs DEF DocStep

\* A call that is at the count neither before nor after does not visit.
LEMMA NoVisit ==
    ASSUME IInv, NEW h \in Calls, NEW c, Becomes(h, c),
           ~InStep(h, "count"), c.step # "count"
    PROVE  Visiting' = Visiting
<1>1. call'[h] = c /\ \A k \in Calls \ {h} : call'[k] = call[k]
  BY DEF IInv, TypeOK, Becomes
<1>2. \A k \in Calls : (IF InStep(k, "count")' THEN {call'[k].doc} ELSE {})
                       = (IF InStep(k, "count") THEN {call[k].doc} ELSE {})
  BY <1>1 DEF InStep
<1> QED BY <1>2 DEF Visiting

LEMMA StepRegister == IInv /\ [Next]_vars => [Register!Next]_(Register!register)
<1> SUFFICES ASSUME IInv, [Next]_vars PROVE [Register!Next]_(Register!register)
  OBVIOUS
<1>0. TypeOK /\ call \in [Calls -> Call]
  BY DEF IInv, TypeOK
<1>1. CASE UNCHANGED call
  BY <1>1, CalmRegisters DEF Visiting, InStep
<1>2. ASSUME NEW h \in Calls, Starts(h) PROVE [Register!Next]_(Register!register)
  <2>1. PICK c \in Call : Begins(h, c) /\ c.step # "count"
    BY <1>0, <1>2, StartCall
  <2>2. Visiting' = Visiting
    BY <2>1, NoVisit DEF Begins, InStep
  <2> QED BY <2>2, CalmRegisters
<1>3. ASSUME NEW h \in Calls,
             GenerateToken(h) \/ CreateLink(h) \/ AnswerRevoked(h) \/ UpdateLink(h)
      PROVE  [Register!Next]_(Register!register)
  <2>1. ~InStep(h, "count") /\ ~LookUpLink(h)
    BY <1>3 DEF GenerateToken, CreateLink, AnswerRevoked, UpdateLink, LookUpLink, InStep
  <2>2. PICK c \in Call : Becomes(h, c) /\ c.step # "count"
    BY <1>0, <1>3, <2>1, StepCall
  <2> QED BY <2>1, <2>2, NoVisit, CalmRegisters
<1>4. ASSUME NEW h \in Calls, AnswerValid(h) PROVE [Register!Next]_(Register!register)
  <2> DEFINE l == call[h].doc
  <2>1. /\ Finish(h) /\ l \in Links
        /\ UNCHANGED link \/ IncrementAccessCount(h)
    BY <1>0, <1>4 DEF AnswerValid, Call
  <2>2. call'[h] = IdleCall /\ \A k \in Calls \ {h} : call'[k] = call[k]
    BY <1>0, <2>1 DEF Finish, Becomes
  <2>3. Visiting' = [Visiting EXCEPT ![h] = {}]
    <3>1. call'[h].step # "count"
      BY <2>2 DEF IdleCall
    <3>2. Visiting' = [k \in Calls |-> IF k = h THEN {}
                         ELSE IF call[k].step = "count" THEN {call[k].doc} ELSE {}]
      BY <2>2, <3>1 DEF Visiting, InStep
    <3> QED BY <3>2 DEF Visiting, InStep
  <2>4. ASSUME NEW k \in Links
        PROVE  /\ link'[k].state = link[k].state /\ link'[k].type = link[k].type
               /\ link'[k].revoked = link[k].revoked /\ link'[k].active = link[k].active
               /\ link'[k].age = link[k].age
    <3>1. CASE UNCHANGED link
      BY <3>1
    <3>2. CASE link' = [link EXCEPT ![l].count = Counted(h)]
      <4>1. link \in [Links -> LinkDoc] /\ link[k] \in LinkDoc
        BY <1>0 DEF TypeOK
      <4>2. link'[k] = IF k = l THEN [link[k] EXCEPT !.count = Counted(h)] ELSE link[k]
        BY <2>1, <3>2, <4>1
      <4>3. LET d == [link[k] EXCEPT !.count = Counted(h)] IN
                /\ d.state = link[k].state /\ d.type = link[k].type
                /\ d.revoked = link[k].revoked /\ d.active = link[k].active
                /\ d.age = link[k].age
        BY <4>1 DEF LinkDoc
      <4> QED BY <4>2, <4>3
    <3> QED BY <2>1, <3>1, <3>2 DEF IncrementAccessCount
  <2>5. OpenLinks' = OpenLinks /\ WithdrawnLinks' = WithdrawnLinks
    BY <2>4 DEF OpenLinks, WithdrawnLinks, Withdrawn, Stored, LetsIn
  <2>6. Register!Leave(h)
    BY <2>3, <2>5 DEF Register!Leave
  <2> QED BY <2>6 DEF Register!Next
<1>5. ASSUME NEW h \in Calls, LookUpLink(h) PROVE [Register!Next]_(Register!register)
  <2>1. CASE Finish(h)
    <3>1. ~InStep(h, "count") /\ IdleCall.step # "count"
      BY <1>5 DEF LookUpLink, InStep, IdleCall
    <3> QED BY <2>1, <3>1, NoVisit, CalmRegisters DEF Finish
  <2>2. CASE ~Finish(h)
    <3>1. PICK l \in ByToken(call[h].token, call[h].resource), types \in {LinkTypes, {call[h].type}} :
              /\ LetsIn(link[l], types)
              /\ Becomes(h, [call[h] EXCEPT !.doc = l, !.count = link[l].count,
                                            !.step = "count"])
      BY <1>5, <2>2 DEF LookUpLink
    <3>2. l \in Links /\ Stored(l) /\ link[l] \in LinkDoc
      BY <1>0 DEF ByToken, TypeOK
    <3>3. l \in OpenLinks
      BY <3>1, <3>2 DEF OpenLinks, LetsIn, LinkDoc
    <3>4. /\ call'[h].step = "count" /\ call'[h].doc = l
          /\ \A k \in Calls \ {h} : call'[k] = call[k]
      BY <1>0, <3>1 DEF Becomes, Call
    <3>5. Visiting' = [Visiting EXCEPT ![h] = {l}]
      BY <3>4 DEF Visiting, InStep
    <3>6. UNCHANGED link
      BY <1>5 DEF LookUpLink
    <3>7. OpenLinks' = OpenLinks /\ WithdrawnLinks' = WithdrawnLinks
      BY <3>6 DEF OpenLinks, WithdrawnLinks, Withdrawn, Stored, LetsIn
    <3>8. Register!Admit(h, l)
      BY <3>3, <3>5, <3>7 DEF Register!Admit
    <3> QED BY <3>2, <3>8 DEF Register!Next
  <2> QED BY <2>1, <2>2
<1>6. ASSUME NEW h \in Calls, NEW l \in Links, RevokeOne(h, l) PROVE UNCHANGED call
  BY <1>6 DEF RevokeOne
<1>7. ASSUME NEW l \in Links, CleanupLink(l) \/ PassTime(l) PROVE UNCHANGED call
  BY <1>7 DEF CleanupLink, PassTime
<1> QED BY <1>1, <1>2, <1>3, <1>4, <1>5, <1>6, <1>7 DEF Next, LinkStep, vars

\* The service implements LinkRegister: who is let in came through an open link,
\* and a withdrawn link stays withdrawn, for any calls and any interleaving.
THEOREM LinkRefinement == Spec => KeepsRegister
<1>1. IInv /\ [Next]_vars => [Register!Next]_(Register!register)
  BY StepRegister
<1> QED BY <1>1, RegisterInit, LinksInv, PTL DEF Spec, KeepsRegister, Register!Spec
=============================================================================
