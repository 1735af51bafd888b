------------------------ MODULE CourseModules_proofs ------------------------
(***************************************************************************)
(* OrdersAreContiguous holds for any courses, modules, admins and bounds.  *)
(* What makes it inductive: an order computed by GetLastModule keeps its   *)
(* predecessor, because no code deletes or renumbers a module.             *)
(***************************************************************************)
EXTENDS CourseModules, TLAPS

\* A creation about to insert holds 1 or the successor of an order in use.
NextOrderHasPredecessor ==
    \A a \in Admins : creation[a].step = "insert" =>
        /\ creation[a].order >= 1
        /\ creation[a].order > 1 =>
               \E p \in Modules : /\ module[p].course = creation[a].course
                                 /\ module[p].order = creation[a].order - 1

IInv == TypeOK /\ OrdersAreContiguous /\ NextOrderHasPredecessor

\* Faults stay within their bound.
LEMMA FaultType ==
    ASSUME TypeOK, Fault \/ NoFault
    PROVE  faults' \in 0..MaxDbFaults
BY ModulesAssumption DEF TypeOK, Fault, NoFault

LEMMA IdleType == Idle \in CreationState
<1>1. AnyCourse \in Courses
  BY ModulesAssumption DEF AnyCourse
<1> QED BY <1>1, ModulesAssumption DEF Idle, CreationState, Dates

\* The initial state: no module, no creation.
LEMMA InitInv == Init => IInv
<1> SUFFICES ASSUME Init PROVE IInv
  OBVIOUS
<1>1. TypeOK
  BY IdleType, ModulesAssumption DEF Init, TypeOK, ModuleDoc, Dates
<1>2. OrdersAreContiguous
  BY DEF Init, OrdersAreContiguous, Inserted
<1>3. NextOrderHasPredecessor
  BY DEF Init, NextOrderHasPredecessor, Idle
<1> QED BY <1>1, <1>2, <1>3 DEF IInv

\* Every step of an admin or an update keeps the types.
LEMMA TypeStep == TypeOK /\ [Next]_vars => TypeOK'
<1> SUFFICES ASSUME TypeOK, [Next]_vars PROVE TypeOK'
  OBVIOUS
<1> USE ModulesAssumption
<1>1. CASE UNCHANGED vars
  BY <1>1 DEF vars, TypeOK
<1>2. ASSUME NEW a \in Admins, StartCreation(a) PROVE TypeOK'
  <2>1. PICK c \in Courses, s \in Dates, e \in Dates :
            creation' = [creation EXCEPT ![a] =
                [step |-> "course", course |-> c, order |-> 0,
                 startsAt |-> s, endsAt |-> e]]
    BY <1>2 DEF StartCreation
  <2>2. creation' \in [Admins -> CreationState]
    BY <2>1 DEF TypeOK, CreationState
  <2> QED BY <1>2, <2>2 DEF StartCreation, TypeOK
<1>3. ASSUME NEW a \in Admins, CheckCourseExists(a) PROVE TypeOK'
  <2>1. creation' \in [Admins -> CreationState]
    BY <1>3, IdleType DEF CheckCourseExists, TypeOK, CreationState
  <2> QED BY <1>3, <2>1, FaultType DEF CheckCourseExists, TypeOK
<1>4. ASSUME NEW a \in Admins, GetLastModule(a) PROVE TypeOK'
  <2>1. PICK n \in LastModuleOrders(creation[a].course) \cup {0} :
            creation' = [creation EXCEPT ![a] =
                [@ EXCEPT !.step = "insert", !.order = n + 1]]
    BY <1>4 DEF GetLastModule
  <2>2. n \in Nat
    BY <2>1 DEF LastModuleOrders, ModulesOf, TypeOK, ModuleDoc
  <2>3. [creation[a] EXCEPT !.step = "insert", !.order = n + 1] \in CreationState
    <3>1. creation[a] \in CreationState
      BY DEF TypeOK
    <3>2. n + 1 \in Nat
      BY <2>2
    <3> QED BY <3>1, <3>2 DEF CreationState
  <2>4. creation' \in [Admins -> CreationState]
    BY <2>1, <2>3 DEF TypeOK
  <2> QED BY <1>4, <2>4, FaultType DEF GetLastModule, TypeOK
<1>5. ASSUME NEW a \in Admins, InsertModule(a) PROVE TypeOK'
  <2>1. creation' \in [Admins -> CreationState]
    BY <1>5, IdleType DEF InsertModule, TypeOK
  <2>2. creation[a] \in CreationState
    BY DEF TypeOK
  <2>3. module' \in [Modules -> ModuleDoc]
    BY <1>5, <2>2 DEF InsertModule, TypeOK, CreationState, ModuleDoc
  <2> QED BY <1>5, <2>1, <2>3, FaultType DEF InsertModule, TypeOK
<1>6. ASSUME UpdateModule PROVE TypeOK'
  <2>1. PICK m \in Modules, s \in Dates \cup {Absent}, e \in Dates \cup {Absent} :
            module' = [module EXCEPT ![m] = WithDates(@, s, e)]
    BY <1>6 DEF UpdateModule
  <2>2. module[m] \in ModuleDoc
    BY DEF TypeOK
  <2>3. Patched(module[m].startsAt, s) \in Dates /\ Patched(module[m].endsAt, e) \in Dates
    BY <2>2 DEF ModuleDoc, Patched
  <2>4. WithDates(module[m], s, e) \in ModuleDoc
    BY <2>2, <2>3 DEF ModuleDoc, WithDates
  <2>5. module' \in [Modules -> ModuleDoc]
    BY <2>1, <2>4 DEF TypeOK
  <2> QED BY <1>6, <2>5 DEF UpdateModule, TypeOK
<1> QED BY <1>1, <1>2, <1>3, <1>4, <1>5, <1>6 DEF Next

\* An inserted module keeps its place.
Kept(m) == /\ module'[m].course = module[m].course
           /\ module'[m].order = module[m].order

\* What a creation about to insert knows stays true while modules keep their
\* places.
LEMMA PredecessorStays ==
    ASSUME IInv, \A m \in Modules : Inserted(m) => Kept(m),
           NEW a \in Admins, creation'[a] = creation[a],
           creation'[a].step = "insert"
    PROVE  /\ creation'[a].order >= 1
           /\ creation'[a].order > 1 =>
                  \E p \in Modules : /\ module'[p].course = creation'[a].course
                                    /\ module'[p].order = creation'[a].order - 1
<1>1. creation[a].course # NoCourse
  BY ModulesAssumption DEF IInv, TypeOK, CreationState
<1> QED BY <1>1 DEF IInv, NextOrderHasPredecessor, Inserted, Kept

\* Without an insert the numbering stays as it is.
LEMMA SameOrders ==
    ASSUME IInv, \A m \in Modules : Kept(m)
    PROVE  OrdersAreContiguous'
<1>1. \A m \in Modules : Inserted(m)' => Inserted(m)
  BY DEF Kept, Inserted
<1>2. ASSUME NEW m \in Modules, Inserted(m)'
      PROVE  /\ module'[m].order >= 1
             /\ module'[m].order > 1 =>
                    \E p \in Modules : /\ module'[p].course = module'[m].course
                                      /\ module'[p].order = module'[m].order - 1
  BY <1>1, <1>2 DEF IInv, OrdersAreContiguous, Kept
<1>3. ASSUME NEW m \in Modules, NEW o \in Modules, Inserted(m)',
             module'[m].course = module'[o].course,
             module'[m].order = module'[o].order
      PROVE  m = o
  BY <1>1, <1>3 DEF IInv, OrdersAreContiguous, Kept
<1> QED BY <1>2, <1>3 DEF OrdersAreContiguous

\* An insert with a free order that has its predecessor extends the numbering.
LEMMA InsertOrders ==
    ASSUME IInv, NEW m \in Modules, ~Inserted(m),
           NEW c \in Courses, NEW n \in Nat, ~OrderTaken(c, n),
           n >= 1,
           n > 1 => \E p \in Modules : module[p].course = c /\ module[p].order = n - 1,
           module'[m].course = c, module'[m].order = n,
           \A o \in Modules : o # m => module'[o] = module[o]
    PROVE  /\ OrdersAreContiguous'
           /\ \A o \in Modules : Inserted(o) => Kept(o)
<1>1. \A o \in Modules : Inserted(o) => Kept(o)
  BY DEF Kept
<1>2. ASSUME NEW o \in Modules, Inserted(o)'
      PROVE  /\ module'[o].order >= 1
             /\ module'[o].order > 1 =>
                    \E p \in Modules : /\ module'[p].course = module'[o].course
                                      /\ module'[p].order = module'[o].order - 1
  <2>1. CASE o = m
    <3>1. ASSUME n > 1
          PROVE  \E p \in Modules : module'[p].course = c /\ module'[p].order = n - 1
      <4>1. PICK p \in Modules : module[p].course = c /\ module[p].order = n - 1
        BY <3>1
      <4>2. p # m
        BY <4>1, ModulesAssumption DEF Inserted
      <4> QED BY <4>1, <4>2
    <3> QED BY <2>1, <3>1
  <2>2. CASE o # m
    <3>1. Inserted(o) /\ module'[o] = module[o]
      BY <1>2, <2>2 DEF Inserted
    <3> QED BY <3>1, <1>1 DEF IInv, OrdersAreContiguous, Kept, Inserted
  <2> QED BY <2>1, <2>2
<1>3. ASSUME NEW o \in Modules, NEW q \in Modules, Inserted(o)',
             module'[o].course = module'[q].course,
             module'[o].order = module'[q].order
      PROVE  o = q
  <2>1. CASE o = m /\ q # m
    BY <1>3, <2>1 DEF OrderTaken
  <2>2. CASE o # m /\ q = m
    BY <1>3, <2>2 DEF OrderTaken
  <2>3. CASE o # m /\ q # m
    BY <1>3, <2>3 DEF IInv, OrdersAreContiguous, Inserted
  <2> QED BY <2>1, <2>2, <2>3
<1> QED BY <1>1, <1>2, <1>3 DEF OrdersAreContiguous

\* Every step keeps the numbering and the predecessors.
LEMMA OrderStep == IInv /\ [Next]_vars => OrdersAreContiguous' /\ NextOrderHasPredecessor'
<1> SUFFICES ASSUME IInv, [Next]_vars
             PROVE  OrdersAreContiguous' /\ NextOrderHasPredecessor'
  OBVIOUS
<1> DEFINE Goal == OrdersAreContiguous' /\ NextOrderHasPredecessor'
<1>0. ASSUME UNCHANGED module,
             \A b \in Admins : creation'[b] = creation[b] \/ creation'[b].step # "insert"
      PROVE  Goal
  <2>1. \A m \in Modules : Kept(m)
    BY <1>0 DEF Kept
  <2>2. OrdersAreContiguous'
    BY <2>1, SameOrders
  <2>3. NextOrderHasPredecessor'
    BY <1>0, <2>1, PredecessorStays DEF NextOrderHasPredecessor
  <2> QED BY <2>2, <2>3
<1>1. CASE UNCHANGED vars
  BY <1>0, <1>1 DEF vars
<1>2. ASSUME NEW a \in Admins, StartCreation(a) PROVE Goal
  <2>1. \A b \in Admins : creation'[b] = creation[b] \/ creation'[b].step # "insert"
    BY <1>2 DEF StartCreation, IInv, TypeOK
  <2> QED BY <1>0, <1>2, <2>1 DEF StartCreation
<1>3. ASSUME NEW a \in Admins, CheckCourseExists(a) PROVE Goal
  <2>1. \A b \in Admins : creation'[b] = creation[b] \/ creation'[b].step # "insert"
    BY <1>3 DEF CheckCourseExists, IInv, TypeOK, CreationState, Idle
  <2> QED BY <1>0, <1>3, <2>1 DEF CheckCourseExists
<1>4. ASSUME NEW a \in Admins, GetLastModule(a) PROVE Goal
  <2>1. PICK n \in LastModuleOrders(creation[a].course) \cup {0} :
            creation' = [creation EXCEPT ![a] =
                [@ EXCEPT !.step = "insert", !.order = n + 1]]
    BY <1>4 DEF GetLastModule
  <2>2. module' = module /\ \A m \in Modules : Kept(m)
    BY <1>4 DEF GetLastModule, Kept
  <2>3. creation[a] \in CreationState
    BY DEF IInv, TypeOK
  <2>4. /\ creation'[a].step = "insert" /\ creation'[a].order = n + 1
        /\ creation'[a].course = creation[a].course
    BY <2>1, <2>3 DEF IInv, TypeOK, CreationState
  <2>5. \A b \in Admins : b # a => creation'[b] = creation[b]
    BY <2>1 DEF IInv, TypeOK
  <2>6. /\ n \in Nat
        /\ n > 0 => \E p \in Modules : /\ module[p].course = creation[a].course
                                      /\ module[p].order = n
    BY <2>1 DEF LastModuleOrders, ModulesOf, IInv, TypeOK, ModuleDoc
  <2>7. /\ creation'[a].order >= 1
        /\ creation'[a].order > 1 =>
               \E p \in Modules : /\ module'[p].course = creation'[a].course
                                 /\ module'[p].order = creation'[a].order - 1
    BY <2>2, <2>4, <2>6
  <2>8. ASSUME NEW b \in Admins, creation'[b].step = "insert"
        PROVE  /\ creation'[b].order >= 1
               /\ creation'[b].order > 1 =>
                      \E p \in Modules : /\ module'[p].course = creation'[b].course
                                        /\ module'[p].order = creation'[b].order - 1
    <3>1. CASE b = a
      BY <3>1, <2>7
    <3>2. CASE b # a
      BY <3>2, <2>2, <2>5, <2>8, PredecessorStays
    <3> QED BY <3>1, <3>2
  <2> QED BY <2>2, <2>8, SameOrders DEF NextOrderHasPredecessor
<1>5. ASSUME NEW a \in Admins, InsertModule(a) PROVE Goal
  <2>1. \A b \in Admins : creation'[b] = creation[b] \/ creation'[b].step # "insert"
    BY <1>5 DEF InsertModule, IInv, TypeOK, Idle
  <2>2. CASE UNCHANGED module
    BY <1>0, <2>1, <2>2
  <2>3. CASE ~UNCHANGED module
    <3> DEFINE c == creation[a].course
               n == creation[a].order
    <3>1. PICK m \in Modules :
              /\ ~Inserted(m) /\ ~OrderTaken(c, n)
              /\ module' = [module EXCEPT ![m] =
                     [course |-> c, order |-> n, startsAt |-> creation[a].startsAt,
                      endsAt |-> creation[a].endsAt]]
      BY <1>5, <2>3 DEF InsertModule
    <3>2. c \in Courses /\ n \in Nat /\ creation[a].step = "insert"
      BY <1>5 DEF InsertModule, IInv, TypeOK, CreationState
    <3>3. /\ n >= 1
          /\ n > 1 => \E p \in Modules : module[p].course = c /\ module[p].order = n - 1
      BY <3>2 DEF IInv, NextOrderHasPredecessor
    <3>4. /\ module'[m].course = c /\ module'[m].order = n
          /\ \A o \in Modules : o # m => module'[o] = module[o]
      BY <3>1 DEF IInv, TypeOK
    <3> HIDE DEF c, n
    <3>5. OrdersAreContiguous' /\ \A o \in Modules : Inserted(o) => Kept(o)
      BY <3>1, <3>2, <3>3, <3>4, InsertOrders
    <3>6. NextOrderHasPredecessor'
      BY <2>1, <3>5, PredecessorStays DEF NextOrderHasPredecessor
    <3> QED BY <3>5, <3>6
  <2> QED BY <2>2, <2>3
<1>6. ASSUME UpdateModule PROVE Goal
  <2>1. PICK m \in Modules, s \in Dates \cup {Absent}, e \in Dates \cup {Absent} :
            module' = [module EXCEPT ![m] = WithDates(@, s, e)]
    BY <1>6 DEF UpdateModule
  <2>2. module[m] \in ModuleDoc
    BY DEF IInv, TypeOK
  <2>3. \A o \in Modules : Kept(o)
    BY <2>1, <2>2 DEF IInv, TypeOK, ModuleDoc, Kept, WithDates
  <2>4. NextOrderHasPredecessor'
    BY <1>6, <2>3, PredecessorStays DEF UpdateModule, NextOrderHasPredecessor
  <2> QED BY <2>3, <2>4, SameOrders
<1> QED BY <1>1, <1>2, <1>3, <1>4, <1>5, <1>6 DEF Next

\* IInv is inductive.
THEOREM ModulesInductive == Spec => []IInv
<1>1. IInv /\ [Next]_vars => IInv'
  BY TypeStep, OrderStep DEF IInv
<1> QED BY InitInv, <1>1, PTL DEF Spec

\* The modules of a course are numbered 1..n, for any number of courses,
\* modules and admins at work, and whatever calls fail.
THEOREM ModulesAreNumbered == Spec => []OrdersAreContiguous
<1>1. IInv => OrdersAreContiguous
  BY DEF IInv
<1> QED BY ModulesInductive, <1>1, PTL

\* Every reachable state is well typed.
THEOREM ModulesTypeCorrect == Spec => []TypeOK
<1>1. IInv => TypeOK
  BY DEF IInv
<1> QED BY ModulesInductive, <1>1, PTL
=============================================================================
