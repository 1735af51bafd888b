------------------------------ MODULE Catalogue ------------------------------
(***************************************************************************)
(* Courses, programs and events under concurrent requests of admins and    *)
(* readers: the composition of CatalogueListings and ProgramEvents over    *)
(* the documents they share.                                               *)
(***************************************************************************)
EXTENDS CatalogueListings, ProgramEvents

vars == <<docs, call, enrolled>>

Call ==
    {Idle} \cup Creation \cup CourseUpdate \cup Walk
           \cup EventCreation \cup EventUpdate \cup EventOpening

\* Documents, requests and enrollments have their types.
TypeOK ==
    /\ docs \in Seq(Doc)
    /\ Len(docs) <= MaxDocs
    /\ call \in [Calls -> Call]
    /\ enrolled \subseteq Users \X DocIds

Init ==
    /\ docs = <<>>
    /\ call = [c \in Calls |-> Idle]
    /\ enrolled = {}

\* The requests that know nothing of enrollments
Documents(c) ==
    /\ \/ \E kind \in {"course", "program"}, t \in Titles : CreateDocument(c, kind, t)
       \/ NextCounter(c) \/ TakeSlug(c) \/ InsertDocument(c)
       \/ \E d \in Ids("course"), u \in Updates : UpdateCourse(c, d, u)
       \/ CheckSlugIsFree(c) \/ SetFields(c)
       \/ \E list \in Lists : ReadList(c, list)
       \/ CountDocuments(c) \/ FindPage(c)
       \/ Abandon(c)
    /\ UNCHANGED enrolled

Events(c) ==
    \/ \E p \in DOMAIN docs : CreateEvent(c, p)
    \/ CheckProgram(c) \/ InsertEvent(c)
    \/ \E p, e \in DOMAIN docs, status \in Statuses : UpdateEvent(c, p, e, status)
    \/ CheckParent(c) \/ CheckMember(c) \/ SetEventStatus(c)
    \/ \E u \in Users, p, e \in DOMAIN docs : GetEvent(c, u, p, e)
    \/ CheckAccess(c) \/ OpenParent(c) \/ OpenEvent(c)

Next ==
    \/ \E c \in Calls : Documents(c) \/ Events(c)
    \/ \E u \in Users, p \in DOMAIN docs : Enroll(u, p)

Spec == Init /\ [][Next]_vars
=============================================================================
