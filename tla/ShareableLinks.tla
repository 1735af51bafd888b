--------------------------- MODULE ShareableLinks ---------------------------
(***************************************************************************)
(* The shareablelinks collection and shareableLinkService: generate,       *)
(* validate, revoke, update and cleanup, from any number of calls at once. *)
(*                                                                         *)
(* A raw token is stored encrypted with its resource, so a document is     *)
(* found by the pair.  Only generate catches a database error; in the      *)
(* other operations it ends the call, and a call that ends so may have     *)
(* been carried out all the same.                                          *)
(***************************************************************************)
EXTENDS Integers, FiniteSets

CONSTANTS
    Links,          \* documents there is room for; a deleted one stays deleted
    Resources,
    LinkTypes,
    Tokens,         \* values of Random.randomCode(32)
    Calls,          \* calls of the service under way
    MaxLinkCalls,   \* bound on the calls that begin
    MaxLinkFaults   \* bound on failing database calls

NoToken == "no token"

ASSUME LinksAssumption ==
    /\ MaxLinkCalls \in Nat /\ MaxLinkFaults \in Nat
    /\ Resources # {} /\ LinkTypes # {} /\ Tokens # {} /\ Links # {}
    /\ NoToken \notin Tokens

VARIABLES
    link,           \* the collection
    call,           \* what each call knows
    visits,         \* validations answered 200, by link
    promised,       \* links a revocation answered 200 for
    begun, faults

vars == <<link, call, visits, promised, begun, faults>>

\* age: expiresAt is ahead, is past, or is past by the days of the cleanup.
LinkDoc ==
    [state: {"unused", "stored", "deleted"}, resource: Resources, type: LinkTypes,
     token: Tokens \cup {NoToken}, age: {"valid", "past", "old"},
     active: BOOLEAN, revoked: BOOLEAN, count: Nat]

CallSteps == {"idle", "token", "create", "look", "count", "revoke", "update"}

\* token: of the call, NoToken when a revocation is for all of a resource.
\* doc, count: the link a validation found and its accessCount, which it answers.  targets: what a revocation has to revoke.
\* age, active: what an update sets, as a set of at most one value.
Call ==
    [step: CallSteps, resource: Resources, type: LinkTypes,
     token: Tokens \cup {NoToken}, doc: Links, count: Nat, targets: SUBSET Links,
     age: SUBSET {"valid", "past"}, active: SUBSET BOOLEAN]

\* Links, calls and counts are what the schema and the service make of them,
\* and no link is stored without a token.
TypeOK ==
    /\ link \in [Links -> LinkDoc]
    /\ \A l \in Links : link[l].state = "stored" => link[l].token \in Tokens
    /\ call \in [Calls -> Call]
    /\ visits \in [Links -> Nat]
    /\ promised \subseteq Links
    /\ begun \in 0..MaxLinkCalls
    /\ faults \in 0..MaxLinkFaults

AnyResource == CHOOSE r \in Resources : TRUE
AnyType == CHOOSE t \in LinkTypes : TRUE
AnyLink == CHOOSE l \in Links : TRUE

UnusedLink == [state |-> "unused", resource |-> AnyResource, type |-> AnyType,
               token |-> NoToken, age |-> "valid", active |-> TRUE,
               revoked |-> FALSE, count |-> 0]

IdleCall == [step |-> "idle", resource |-> AnyResource, type |-> AnyType,
             token |-> NoToken, doc |-> AnyLink, count |-> 0, targets |-> {}, age |-> {},
             active |-> {}]

Init ==
    /\ link = [l \in Links |-> UnusedLink]
    /\ call = [h \in Calls |-> IdleCall]
    /\ visits = [l \in Links |-> 0]
    /\ promised = {} /\ begun = 0 /\ faults = 0

----------------------------------------------------------------------------
(* Queries and helpers *)

Stored(l) == link[l].state = "stored"
Works == UNCHANGED faults
Fails == faults < MaxLinkFaults /\ faults' = faults + 1

InStep(h, step) == call[h].step = step
Becomes(h, c) == call' = [call EXCEPT ![h] = c]
Finish(h) == Becomes(h, IdleCall)
Begins(h, c) ==
    /\ InStep(h, "idle")
    /\ begun < MaxLinkCalls /\ begun' = begun + 1
    /\ Becomes(h, c)
    /\ UNCHANGED <<link, visits, promised, faults>>

\* findOne({ token }): the stored token carries its resource.
ByToken(t, r) == {l \in Links : Stored(l) /\ link[l].token = t /\ link[l].resource = r}

\* The filter of revokeShareableLink.
Revocable(c) ==
    {l \in Links : /\ Stored(l) /\ ~link[l].revoked
                   /\ link[l].resource = c.resource /\ link[l].type = c.type
                   /\ c.token \in {NoToken, link[l].token}}

\* What validateShareableLink asks of the document it found.
LetsIn(d, types) == /\ d.type \in types
                    /\ ~d.revoked /\ d.active /\ d.age = "valid"

----------------------------------------------------------------------------
(* generateShareableLink *)

Generate(h, r, ty, age) ==
    Begins(h, [IdleCall EXCEPT !.step = "token", !.resource = r, !.type = ty,
                               !.age = {age}])

\* mutant: the encryption returned nothing and its result is not looked at
UncheckedTokens == Tokens \cup {NoToken}

\* The look-up encrypts with an empty payload and finds nothing: any token.
NewTokens == Tokens

GenerateToken(h) ==
    /\ InStep(h, "token")
    /\ \/ /\ Works
          /\ \E t \in NewTokens :
                 Becomes(h, [call[h] EXCEPT !.token = t, !.step = "create"])
       \/ Fails /\ Finish(h)
    /\ UNCHANGED <<link, visits, promised, begun>>

StoreLink(c) ==
    \E l \in Links :
        /\ link[l].state = "unused"
        /\ link' = [link EXCEPT ![l] =
               [UnusedLink EXCEPT !.state = "stored", !.resource = c.resource,
                    !.type = c.type, !.token = c.token,
                    !.age = CHOOSE a \in c.age : TRUE]]

\* The token is unique; the second insert is refused and answered 500.
CreateLink(h) ==
    LET taken == ByToken(call[h].token, call[h].resource) # {} IN
    /\ InStep(h, "create")
    /\ \/ ~taken /\ Works /\ StoreLink(call[h])
       \/ ~taken /\ Fails /\ StoreLink(call[h])
       \/ taken /\ Works /\ UNCHANGED link
       \/ Fails /\ UNCHANGED link
    /\ Finish(h)
    /\ UNCHANGED <<visits, promised, begun>>

----------------------------------------------------------------------------
(* validateShareableLink *)

\* types: the linkType asked for, or all of them when none was given
StartValidate(h, t, r, ty) ==
    Begins(h, [IdleCall EXCEPT !.step = "look", !.token = t, !.resource = r, !.type = ty])

\* mutant: the document is looked at in one call and its state taken on trust
LookUpUnchecked(h) ==
    LET c == call[h] IN
    /\ InStep(h, "look")
    /\ \/ /\ Works
          /\ \E l \in ByToken(c.token, c.resource) :
                 IF link[l].type = c.type /\ link[l].active /\ link[l].age = "valid"
                 THEN Becomes(h, [c EXCEPT !.doc = l, !.count = link[l].count, !.step = "count"])
                 ELSE Finish(h)
       \/ ByToken(c.token, c.resource) = {} /\ Works /\ Finish(h)
       \/ Fails /\ Finish(h)
    /\ UNCHANGED <<link, visits, promised, begun>>

\* The linkType is looked at only when the caller names one.
LookUpLink(h) ==
    LET c == call[h] IN
    /\ InStep(h, "look")
    /\ \/ /\ Works
          /\ \E l \in ByToken(c.token, c.resource), types \in {LinkTypes, {c.type}} :
                 IF LetsIn(link[l], types)
                 THEN Becomes(h, [c EXCEPT !.doc = l, !.count = link[l].count, !.step = "count"])
                 ELSE Finish(h)
       \/ ByToken(c.token, c.resource) = {} /\ Works /\ Finish(h)
       \/ Fails /\ Finish(h)
    /\ UNCHANGED <<link, visits, promised, begun>>

\* mutant: the count the look-up returned is written back, plus one
CountWritten(h) == call[h].count + 1

\* $inc on the document as it is by now; on none when it was deleted.
Counted(h) == link[call[h].doc].count + 1

IncrementAccessCount(h) ==
    LET l == call[h].doc IN
    IF Stored(l) THEN link' = [link EXCEPT ![l].count = Counted(h)]
                 ELSE UNCHANGED link

\* Nothing is checked again: who was found open is answered "valid".
AnswerValid(h) ==
    LET l == call[h].doc IN
    /\ InStep(h, "count")
    /\ \/ /\ Works /\ IncrementAccessCount(h)
          /\ visits' = [visits EXCEPT ![l] = @ + 1]
       \/ Fails /\ IncrementAccessCount(h) /\ UNCHANGED visits
       \/ Fails /\ UNCHANGED <<link, visits>>
    /\ Finish(h)
    /\ UNCHANGED <<promised, begun>>

----------------------------------------------------------------------------
(* revokeShareableLink: one link of a resource, or all of a type *)

StartRevoke(h, t, r, ty) ==
    LET c == [IdleCall EXCEPT !.step = "revoke", !.token = t, !.resource = r, !.type = ty]
    IN  Begins(h, [c EXCEPT !.targets = Revocable(c)])

\* updateMany goes from document to document; others are served in between.
\* It may or may not meet a document that was inserted after it started.
RevokeOne(h, l) ==
    /\ InStep(h, "revoke")
    /\ l \in Revocable(call[h])
    /\ link' = [link EXCEPT ![l] = [link[l] EXCEPT !.revoked = TRUE, !.active = FALSE]]
    /\ UNCHANGED <<call, visits, promised, begun, faults>>

\* mutant: the answer is given although a document was left out
AnswerRevokedEarly(h) ==
    /\ InStep(h, "revoke")
    /\ \/ /\ Cardinality(call[h].targets \cap Revocable(call[h])) < 2 /\ Works
          /\ promised' = promised \cup call[h].targets
       \/ Fails /\ UNCHANGED promised
    /\ Finish(h)
    /\ UNCHANGED <<link, visits, begun>>

AnswerRevoked(h) ==
    /\ InStep(h, "revoke")
    /\ \/ /\ call[h].targets \cap Revocable(call[h]) = {} /\ Works
          /\ promised' = promised \cup call[h].targets
       \/ Fails /\ UNCHANGED promised
    /\ Finish(h)
    /\ UNCHANGED <<link, visits, begun>>

----------------------------------------------------------------------------
(* updateShareableLink, cleanupExpiredLinks, time *)

\* The name and the metadata are data; an update of those alone changes neither.
StartUpdate(h, t, r, ty, age, active) ==
    Begins(h, [IdleCall EXCEPT !.step = "update", !.token = t, !.resource = r,
                   !.type = ty, !.age = age, !.active = active])

\* A field the caller left out is not part of the update.
IfGiven(old, new) == IF new = {} THEN old ELSE CHOOSE v \in new : TRUE

\* mutant: switching a link on takes back its revocation
UpdatedAfresh(d, c) ==
    [d EXCEPT !.age = IfGiven(d.age, c.age), !.active = IfGiven(d.active, c.active),
              !.revoked = d.revoked /\ TRUE \notin c.active]

\* isActive and expiresAt only: isRevoked is in no update.
Updated(d, c) ==
    [d EXCEPT !.age = IfGiven(d.age, c.age), !.active = IfGiven(d.active, c.active)]

\* findOneAndUpdate by token, resource and type; none found is answered 404.
UpdateLink(h) ==
    LET c == call[h]
        found == {l \in ByToken(c.token, c.resource) : link[l].type = c.type}
        Write == \E l \in found : link' = [link EXCEPT ![l] = Updated(link[l], c)]
    IN  /\ InStep(h, "update")
        /\ \/ Works /\ Write
           \/ Fails /\ Write
           \/ found = {} /\ Works /\ UNCHANGED link
           \/ Fails /\ UNCHANGED link
        /\ Finish(h)
        /\ UNCHANGED <<visits, promised, begun>>

\* deleteMany: revoked and past their expiry by the days given.  It too goes
\* from document to document.
CleanupLink(l) ==
    /\ Stored(l) /\ link[l].revoked /\ link[l].age = "old"
    /\ link' = [link EXCEPT ![l].state = "deleted"]
    /\ UNCHANGED <<call, visits, promised, begun, faults>>

PassTime(l) ==
    /\ Stored(l)
    /\ \/ link[l].age = "valid" /\ link' = [link EXCEPT ![l].age = "past"]
       \/ link[l].age = "past" /\ link' = [link EXCEPT ![l].age = "old"]
    /\ UNCHANGED <<call, visits, promised, begun, faults>>

----------------------------------------------------------------------------

Starts(h) ==
    \E r \in Resources, ty \in LinkTypes :
        \/ \E age \in {"valid", "past"} : Generate(h, r, ty, age)
        \/ \E t \in Tokens \cup {NoToken} : StartRevoke(h, t, r, ty)
        \/ \E t \in Tokens :
              \/ StartValidate(h, t, r, ty)
              \/ \E age \in {{}, {"valid"}, {"past"}}, on \in {{}, {TRUE}, {FALSE}} :
                     StartUpdate(h, t, r, ty, age, on)

LinkStep(h) ==
    \/ GenerateToken(h) \/ CreateLink(h) \/ LookUpLink(h) \/ AnswerValid(h)
    \/ AnswerRevoked(h) \/ UpdateLink(h)
    \/ \E l \in Links : RevokeOne(h, l)

Next ==
    \/ \E h \in Calls : Starts(h) \/ LinkStep(h)
    \/ \E l \in Links : CleanupLink(l) \/ PassTime(l)

Spec == Init /\ [][Next]_vars

----------------------------------------------------------------------------
(* What links promise *)

Withdrawn(l) == link[l].state = "deleted" \/ link[l].revoked

\* A revocation answered 200 covers every link there was when it was called
\* (revokeShareableLink over updateMany), and no later update, cleanup or
\* validation of any call brings one of them back.
RevocationHolds == \A l \in promised : Withdrawn(l)

\* Validations run at the same time lose none of each other's accesses:
\* accessCount is at least the number of times the link was answered valid.
AccessesAreCounted == \A l \in Links : Stored(l) => visits[l] <= link[l].count

OpenLinks == {l \in Links : Stored(l) /\ LetsIn(link[l], LinkTypes)}

WithdrawnLinks == {l \in Links : Withdrawn(l)}
Visiting == [h \in Calls |-> IF InStep(h, "count") THEN {call[h].doc} ELSE {}]

Register == INSTANCE LinkRegister WITH
    Visitors <- Calls, open <- OpenLinks, withdrawn <- WithdrawnLinks, visiting <- Visiting

\* The service keeps LinkRegister: who is answered "valid" was let in by a link
\* open at that moment, and a revoked link never opens again, although update
\* switches isActive and moves expiresAt of revoked links too.
KeepsRegister == Register!Spec
=============================================================================
