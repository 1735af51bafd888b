---------------------------- MODULE ProgramEvents ----------------------------
(***************************************************************************)
(* The events of programs: created and updated by admins under their       *)
(* program, and opened by their id (getEventById) by users with an active  *)
(* enrollment in it.  The list of a program's published events (getEvents) *)
(* is public: CatalogueListings has it.                                    *)
(*                                                                         *)
(* An event keeps its program and programs are not deleted.  The dates and *)
(* texts of an event are data.                                             *)
(***************************************************************************)
EXTENDS CatalogueDocuments

CONSTANT Users

VARIABLE
    enrolled    \* pairs of a user and a program with an ACTIVE enrollment

EventCreation == [at: {"programExists", "insertEvent"}, program: DocIds]

EventUpdate == [at: {"parent", "member", "updateEvent"}, program: DocIds,
                event: DocIds, status: Statuses]

EventOpening == [at: {"access", "openParent", "openMember", "opened"},
              user: Users, program: DocIds, event: DocIds]

Proceed(c, at) ==
    /\ call' = [call EXCEPT ![c].at = at]
    /\ UNCHANGED <<docs, enrolled>>

ProgramExists(p) == p \in Ids("program")

Belongs(e, p) == e \in Ids("event") /\ docs[e].program = p

\* A program is enrolled in without payment, a draft too; no operation ends an
\* active enrollment.
Enroll(u, p) ==
    /\ ProgramExists(p)
    /\ enrolled' = enrolled \cup {<<u, p>>}
    /\ UNCHANGED <<docs, call>>

CreateEvent(c, p) ==
    /\ Begin(c, [at |-> "programExists", program |-> p])
    /\ UNCHANGED <<docs, enrolled>>

CheckProgram(c) ==
    /\ call[c].at = "programExists"
    /\ ProgramExists(call[c].program)
    /\ Proceed(c, "insertEvent")

InsertEvent(c) ==
    /\ call[c].at = "insertEvent"
    /\ Len(docs) < MaxDocs
    /\ Insert([kind |-> "event", program |-> call[c].program, status |-> "draft"])
    /\ Answer(c)
    /\ UNCHANGED enrolled

UpdateEvent(c, p, e, status) ==
    /\ Begin(c, [at |-> "parent", program |-> p, event |-> e, status |-> status])
    /\ UNCHANGED <<docs, enrolled>>

CheckParent(c) ==
    /\ call[c].at = "parent"
    /\ ProgramExists(call[c].program)
    /\ Proceed(c, "member")

CheckMember(c) ==
    /\ call[c].at = "member"
    /\ Belongs(call[c].event, call[c].program)
    /\ Proceed(c, "updateEvent")

SetEventStatus(c) ==
    /\ call[c].at = "updateEvent"
    /\ docs' = [docs EXCEPT ![call[c].event].status = call[c].status]
    /\ Answer(c)
    /\ UNCHANGED enrolled

GetEvent(c, u, p, e) ==
    /\ Begin(c, [at |-> "access", user |-> u, program |-> p, event |-> e])
    /\ UNCHANGED <<docs, enrolled>>

CheckAccess(c) ==
    /\ call[c].at = "access"
    /\ <<call[c].user, call[c].program>> \in enrolled
    /\ Proceed(c, "openParent")

OpenParent(c) ==
    /\ call[c].at = "openParent"
    /\ ProgramExists(call[c].program)
    /\ Proceed(c, "openMember")

\* mutant: the event is looked up by its id alone
OpenAnyEvent(c) ==
    /\ call[c].at = "openMember"
    /\ call[c].event \in Ids("event")
    /\ Proceed(c, "opened")

OpenEvent(c) ==
    /\ call[c].at = "openMember"
    /\ Belongs(call[c].event, call[c].program)
    /\ Proceed(c, "opened")

\* getEventById, which shows an event whatever its status, shows it only to users
\* with an active enrollment in the program the event belongs to, whichever
\* program the request named.
OpenedByEnrolled ==
    \A c \in Calls :
        call[c].at = "opened" =>
            <<call[c].user, docs[call[c].event].program>> \in enrolled
=============================================================================
