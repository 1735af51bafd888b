---------------------------- MODULE CourseModules ----------------------------
(***************************************************************************)
(* The modules (units) of a course: their order, which the server computes *)
(* from a module read before the insert, and their dates.  Admins create   *)
(* and update them through POST and PATCH /courses/:courseId/modules.      *)
(*                                                                         *)
(* A creation awaits three calls (the course, the "last" module, the       *)
(* insert) and other requests run in between; an update is one             *)
(* findOneAndUpdate.  No code deletes a module or a course.  Title,        *)
(* description, status, instructor, recording and resources are data no    *)
(* property tells apart: a creation the schema refuses for them (one       *)
(* without an instructor) and an update of them alone change nothing here. *)
(***************************************************************************)
EXTENDS Integers

CONSTANTS
    Courses,        \* course documents that exist
    Modules,        \* identities of module documents: the bound on inserts
    Admins,         \* creations under way at the same time
    MaxTime,        \* dates are 0..MaxTime
    MaxDbFaults     \* bound on failing database calls

VARIABLES
    module,         \* the modules collection
    creation,       \* what each createModule call knows, by admin
    faults          \* database calls that have failed so far

vars == <<module, creation, faults>>

Dates == 0..MaxTime
Absent == -1                        \* a field the body does not carry
NoCourse == "no course"

ASSUME ModulesAssumption ==
    /\ MaxTime \in Nat
    /\ MaxDbFaults \in Nat
    /\ Courses # {}
    /\ NoCourse \notin Courses

\* course is NoCourse until the document is inserted.
ModuleDoc == [course: Courses \cup {NoCourse}, order: Nat,
              startsAt: Dates, endsAt: Dates]

\* step: the call awaited; order: nextOrder, once computed.
CreationState == [step: {"idle", "course", "last", "insert"}, course: Courses,
                  order: Nat, startsAt: Dates, endsAt: Dates]

AnyCourse == CHOOSE c \in Courses : TRUE

Inserted(m) == module[m].course # NoCourse
ModulesOf(c) == {m \in Modules : module[m].course = c}

TypeOK ==
    /\ module \in [Modules -> ModuleDoc]
    /\ creation \in [Admins -> CreationState]
    /\ faults \in 0..MaxDbFaults

Idle == [step |-> "idle", course |-> AnyCourse, order |-> 0,
         startsAt |-> 0, endsAt |-> 0]

Init ==
    /\ module = [m \in Modules |-> [course |-> NoCourse, order |-> 0,
                                    startsAt |-> 0, endsAt |-> 0]]
    /\ creation = [a \in Admins |-> Idle]
    /\ faults = 0

Fault == faults < MaxDbFaults /\ faults' = faults + 1
NoFault == UNCHANGED faults

----------------------------------------------------------------------------
(* createModule *)

\* validateCreateDto wants both dates, in order.
StartCreation(a) ==
    /\ creation[a].step = "idle"
    /\ \E c \in Courses, s \in Dates, e \in Dates :
           /\ s < e
           /\ creation' = [creation EXCEPT ![a] =
                  [step |-> "course", course |-> c, order |-> 0,
                   startsAt |-> s, endsAt |-> e]]
    /\ UNCHANGED <<module, faults>>

\* A failing lookup answers "Course not found".
CheckCourseExists(a) ==
    /\ creation[a].step = "course"
    /\ \/ NoFault /\ creation' = [creation EXCEPT ![a].step = "last"]
       \/ Fault /\ creation' = [creation EXCEPT ![a] = Idle]
    /\ UNCHANGED module

\* findOne ignores the sort it is given, so any module of the course may
\* come back; no module, or a failing call, leaves lastModule.data empty.
LastModuleOrders(c) ==
    IF ModulesOf(c) = {} THEN {0} ELSE {module[m].order : m \in ModulesOf(c)}

GetLastModule(a) ==
    /\ creation[a].step = "last"
    /\ \E n \in LastModuleOrders(creation[a].course) \cup {0} :
           /\ \/ NoFault /\ n \in LastModuleOrders(creation[a].course)
              \/ Fault /\ n = 0
           /\ creation' = [creation EXCEPT ![a] =
                  [@ EXCEPT !.step = "insert", !.order = n + 1]]
    /\ UNCHANGED module

\* mutant: the unique index is missing
NeverTaken(c, n) == FALSE

\* The unique index on courseId and order.
OrderTaken(c, n) ==
    \E m \in Modules : module[m].course = c /\ module[m].order = n

InsertModule(a) ==
    /\ creation[a].step = "insert"
    /\ LET new == creation[a] IN
       \/ /\ ~OrderTaken(new.course, new.order)
          /\ \E m \in Modules :
                 /\ ~Inserted(m)
                 /\ module' = [module EXCEPT ![m] =
                        [course |-> new.course, order |-> new.order,
                         startsAt |-> new.startsAt, endsAt |-> new.endsAt]]
          /\ NoFault
       \/ /\ OrderTaken(new.course, new.order)
          /\ UNCHANGED module /\ NoFault
       \/ UNCHANGED module /\ Fault
    /\ creation' = [creation EXCEPT ![a] = Idle]

----------------------------------------------------------------------------
(* updateModule *)

\* mutant: a field the body does not carry is written all the same
PatchedUnchecked(old, new) == new

Patched(old, new) == IF new = Absent THEN old ELSE new

WithDates(doc, s, e) ==
    [doc EXCEPT !.startsAt = Patched(@, s), !.endsAt = Patched(@, e)]

\* validateUpdateDto compares the dates only when the body carries both; the
\* update is scoped to the course of the path.
UpdateModule ==
    /\ \E m \in Modules, c \in Courses,
          s \in Dates \cup {Absent}, e \in Dates \cup {Absent} :
           /\ s # Absent /\ e # Absent => s < e
           /\ module[m].course = c
           /\ module' = [module EXCEPT ![m] = WithDates(@, s, e)]
    /\ UNCHANGED <<creation, faults>>

----------------------------------------------------------------------------

Next ==
    \/ \E a \in Admins :
           \/ StartCreation(a)
           \/ CheckCourseExists(a)
           \/ GetLastModule(a)
           \/ InsertModule(a)
    \/ UpdateModule

Spec == Init /\ [][Next]_vars

----------------------------------------------------------------------------
(* Properties *)

\* The modules of a course are numbered 1..n without a gap or a repetition,
\* whatever module findOne took for the last one, whichever call failed and
\* however many admins add modules at the same time.
OrdersAreContiguous ==
    /\ \A m \in Modules : Inserted(m) =>
           /\ module[m].order >= 1
           /\ module[m].order > 1 =>
                  \E p \in Modules : /\ module[p].course = module[m].course
                                    /\ module[p].order = module[m].order - 1
    /\ \A m, o \in Modules :
           Inserted(m) /\ module[m].course = module[o].course
                       /\ module[m].order = module[o].order => m = o
=============================================================================
