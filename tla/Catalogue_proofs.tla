-------------------------- MODULE Catalogue_proofs --------------------------
(***************************************************************************)
(* What is proved of Catalogue, for any titles and slugs, updates, lists,  *)
(* users, requests and bounds.                                             *)
(*                                                                         *)
(* No document is deleted and none changes its kind, a program keeps its   *)
(* slug and an event its program (Keeps): whatever a request found out     *)
(* about the document it works on is still true when it writes or answers. *)
(* What it looked up about slugs is not, and there the unique index has    *)
(* the last word.                                                          *)
(***************************************************************************)
EXTENDS Catalogue, FiniteSetTheorems, TLAPS

----------------------------------------------------------------------------
(* The inductive invariant *)

\* No two courses and no two programs have the same slug.
SlugsAreUnique ==
    \A kind \in {"course", "program"} : \A d, e \in Ids(kind) :
        docs[d].slug = docs[e].slug => d = e

\* The slugs of a title before the counter are programs' slugs.
TakenBefore(title, counter) ==
    \A n \in 1..(counter - 1) : HasSlug("program", SlugOf[title][n])

SlugIsNext(d) ==
    \E counter \in Counters :
        d.slug = SlugOf[d.title][counter] /\ TakenBefore(d.title, counter)

\* A creation of a program has found every slug it went past.
NoneSkipped(v) ==
    v \in Creation /\ v.kind = "program" => TakenBefore(v.title, v.counter)

\* What the checks of a request found is still so.
ChecksHold(v) ==
    /\ v \in CourseUpdate => v.course \in Ids("course")
    /\ v.at = "insertEvent" => v.program \in Ids("program")
    /\ v.at = "updateEvent" => v.event \in Ids("event")
    /\ v.at \in {"openParent", "openMember", "opened"} =>
           <<v.user, v.program>> \in enrolled
    /\ v.at = "opened" => Belongs(v.event, v.program)

\* What is due was listed at the latest read and has as many newer documents
\* as the pages before the present one hold; at the end nothing is due but what
\* a list of one page has no room for.
DueIsAhead(w) ==
    w \in Walk =>
        /\ w.due \subseteq w.last
        /\ \A d \in w.due : StartIndex(w.page) <= Newer(w.last, d)
        /\ w.at = "find" => w.total = Cardinality(w.last)
        /\ w.at = "walked" =>
               \A d \in w.due : ~w.list.paged /\ PageSize <= Newer(w.last, d)

CallOk(v) == NoneSkipped(v) /\ ChecksHold(v) /\ DueIsAhead(v)

IInv ==
    /\ TypeOK
    /\ SlugsAreUnique
    /\ NoSlugIsSkipped
    /\ \A c \in Calls : CallOk(call[c])

----------------------------------------------------------------------------
(* Types *)

\* What a request carries follows from how far it got.
LEMMA AtTells ==
    ASSUME TypeOK, NEW c \in Calls
    PROVE  /\ call[c].at \in {"slugExists", "insert"} => call[c] \in Creation
           /\ call[c].at \in {"slugFree", "update"} => call[c] \in CourseUpdate
           /\ call[c].at \in {"count", "find", "walked"} => call[c] \in Walk
           /\ call[c].at \in {"programExists", "insertEvent"} => call[c] \in EventCreation
           /\ call[c].at \in {"parent", "member", "updateEvent"} => call[c] \in EventUpdate
           /\ call[c].at \in {"access", "openParent", "openMember", "opened"} =>
                  call[c] \in EventOpening
  BY DEF TypeOK, Call, Idle, Creation, CourseUpdate, Walk, EventCreation,
         EventUpdate, EventOpening

\* The ids there are are ids.
LEMMA IdsAreIds ==
    ASSUME TypeOK
    PROVE  /\ DOMAIN docs = 1..Len(docs)
           /\ Len(docs) \in 0..MaxDocs
           /\ DOMAIN docs \subseteq DocIds
           /\ \A d \in DOMAIN docs : docs[d] \in Doc
  BY DocumentsAssumption DEF TypeOK, DocIds

\* A document has the fields of its kind.
LEMMA KindTells ==
    ASSUME TypeOK, NEW d \in DOMAIN docs
    PROVE  /\ d \in Ids("course") => docs[d] \in CourseDoc
           /\ d \in Ids("program") => docs[d] \in ProgramDoc
           /\ d \in Ids("event") => docs[d] \in EventDoc
  BY IdsAreIds DEF Ids, Doc, CourseDoc, ProgramDoc, EventDoc

\* A list holds ids of documents, finitely many.
LEMMA ListedType ==
    ASSUME TypeOK, NEW list
    PROVE  /\ Listed(list) \in SUBSET DocIds
           /\ IsFiniteSet(Listed(list))
           /\ Cardinality(Listed(list)) \in 0..MaxDocs
<1>1. Listed(list) \subseteq 1..Len(docs)
  BY IdsAreIds DEF Listed, Ids
<1>0. Len(docs) \in Int
  BY IdsAreIds, DocumentsAssumption
<1>2. IsFiniteSet(1..Len(docs)) /\ Cardinality(1..Len(docs)) = Len(docs)
  <2>1. /\ IsFiniteSet(1..Len(docs))
        /\ Cardinality(1..Len(docs)) = IF 1 > Len(docs) THEN 0 ELSE Len(docs) - 1 + 1
    BY <1>0, 1 \in Int, FS_Interval, Zenon
  <2> QED
    BY <2>1, IdsAreIds, DocumentsAssumption
<1>3. IsFiniteSet(Listed(list)) /\ Cardinality(Listed(list)) <= Len(docs)
  BY <1>1, <1>2, FS_Subset
<1>4. Cardinality(Listed(list)) \in Nat
  BY <1>3, FS_CardinalityType
<1> QED
  BY <1>1, <1>3, <1>4, IdsAreIds, DocumentsAssumption

----------------------------------------------------------------------------
(* What a step can write *)

\* A document is inserted under a slug that is free, a program's being the next
\* of its title, a course is updated to a slug that is its own or free, an event
\* changes its status, or nothing is written to the documents.
LEMMA DocsWrites ==
    ASSUME IInv, [Next]_vars
    PROVE  \/ UNCHANGED docs
           \/ \E d \in Doc :
                 /\ Len(docs) < MaxDocs
                 /\ docs' = Append(docs, d)
                 /\ d.kind \in {"course", "program"} => ~HasSlug(d.kind, d.slug)
                 /\ d.kind = "program" => SlugIsNext(d)
           \/ \E d \in Ids("course"), new \in CourseDoc :
                 /\ docs' = [docs EXCEPT ![d] = new]
                 /\ \/ new.slug = docs[d].slug
                    \/ \A o \in Ids("course") \ {d} : docs[o].slug # new.slug
           \/ \E d \in Ids("event"), new \in EventDoc :
                 /\ docs' = [docs EXCEPT ![d] = new]
                 /\ new.program = docs[d].program
<1> USE DEF IInv
<1>1. ASSUME NEW c \in Calls, InsertDocument(c)
      PROVE  \E d \in Doc :
                 /\ Len(docs) < MaxDocs
                 /\ docs' = Append(docs, d)
                 /\ d.kind \in {"course", "program"} => ~HasSlug(d.kind, d.slug)
                 /\ d.kind = "program" => SlugIsNext(d)
  <2> DEFINE d == NewDocument(call[c].kind, call[c].title, OwnSlug(c))
  <2>1. call[c] \in Creation /\ call[c].title \in Titles /\ call[c].counter \in Counters
    BY <1>1, AtTells DEF InsertDocument, Creation
  <2>2. OwnSlug(c) \in Slugs
    BY <2>1, DocumentsAssumption DEF OwnSlug
  <2>3. /\ d \in Doc /\ d.kind = call[c].kind /\ d.slug = OwnSlug(c)
        /\ d.kind = "program" => d.title = call[c].title
    BY <2>1, <2>2, DocumentsAssumption
       DEF NewDocument, Creation, Doc, CourseDoc, ProgramDoc
  <2>4. call[c].kind = "program" => TakenBefore(call[c].title, call[c].counter)
    BY <2>1 DEF CallOk, NoneSkipped
  <2> HIDE DEF d
  <2>5. d.kind = "program" => SlugIsNext(d)
    BY <2>1, <2>3, <2>4 DEF SlugIsNext, OwnSlug
  <2> QED
    BY <1>1, <2>3, <2>5 DEF InsertDocument, Insert, d
<1>2. ASSUME NEW c \in Calls, SetFields(c)
      PROVE  \E d \in Ids("course"), new \in CourseDoc :
                 /\ docs' = [docs EXCEPT ![d] = new]
                 /\ \/ new.slug = docs[d].slug
                    \/ \A o \in Ids("course") \ {d} : docs[o].slug # new.slug
  <2> DEFINE d == call[c].course
             u == call[c].with
             new == WithFields(d, u)
  <2>1. call[c] \in CourseUpdate
    BY <1>2, AtTells DEF SetFields
  <2>2. d \in Ids("course") /\ u \in Updates
    BY <2>1 DEF CallOk, ChecksHold, CourseUpdate
  <2>3. docs[d] \in CourseDoc
    BY <2>2, KindTells DEF Ids
  <2>4. u.slug \in Slugs \cup {NoSlug} /\ u.status \in Statuses \cup {NoStatus}
    BY <2>2, DocumentsAssumption
  <2>5. /\ new \in CourseDoc
        /\ new.slug = IF u.slug = NoSlug THEN docs[d].slug ELSE u.slug
    BY <2>3, <2>4 DEF WithFields, CourseDoc
  <2>6. /\ docs' = [docs EXCEPT ![d] = new]
        /\ \A o \in Ids("course") \ {d} : docs[o].slug # u.slug
    BY <1>2 DEF SetFields, IndexAllows
  <2>7. \/ new.slug = docs[d].slug
        \/ \A o \in Ids("course") \ {d} : docs[o].slug # new.slug
    BY <2>5, <2>6
  <2> HIDE DEF new, d
  <2> QED
    BY <2>2, <2>5, <2>6, <2>7
<1>3. ASSUME NEW c \in Calls, InsertEvent(c)
      PROVE  \E d \in Doc :
                 /\ Len(docs) < MaxDocs
                 /\ docs' = Append(docs, d)
                 /\ d.kind = "event"
  <2> DEFINE d == [kind |-> "event", program |-> call[c].program, status |-> "draft"]
  <2>1. call[c] \in EventCreation
    BY <1>3, AtTells DEF InsertEvent
  <2>2. d \in Doc /\ d.kind = "event"
    BY <2>1, DocumentsAssumption DEF EventCreation, Doc, EventDoc
  <2> QED
    BY <1>3, <2>2 DEF InsertEvent, Insert
<1>4. ASSUME NEW c \in Calls, SetEventStatus(c)
      PROVE  \E d \in Ids("event"), new \in EventDoc :
                 /\ docs' = [docs EXCEPT ![d] = new]
                 /\ new.program = docs[d].program
  <2> DEFINE d == call[c].event
             new == [docs[d] EXCEPT !.status = call[c].status]
  <2>1. call[c] \in EventUpdate /\ d \in Ids("event")
    BY <1>4, AtTells DEF SetEventStatus, CallOk, ChecksHold
  <2>2. docs[d] \in EventDoc /\ call[c].status \in Statuses
    BY <2>1, KindTells DEF Ids, EventUpdate
  <2>3. new \in EventDoc /\ new.program = docs[d].program
    BY <2>2 DEF EventDoc
  <2>4. docs' = [docs EXCEPT ![d] = new]
    BY <1>4 DEF SetEventStatus
  <2> HIDE DEF new, d
  <2> QED
    BY <2>1, <2>3, <2>4
<1>5. CASE \A c \in Calls : /\ ~InsertDocument(c) /\ ~SetFields(c)
                            /\ ~InsertEvent(c) /\ ~SetEventStatus(c)
  BY <1>5 DEF Next, vars, Documents, Events, CreateDocument, NextCounter, TakeSlug,
     UpdateCourse, CheckSlugIsFree, ReadList, CountDocuments, FindPage, Abandon,
     CreateEvent, CheckProgram, UpdateEvent, CheckParent, CheckMember, GetEvent,
     CheckAccess, OpenParent, OpenEvent, Proceed, Enroll
<1> QED
  BY <1>1, <1>2, <1>3, <1>4, <1>5

\* An active enrollment is never taken back.
LEMMA EnrolledGrows ==
    ASSUME TypeOK, [Next]_vars
    PROVE  enrolled \subseteq enrolled' /\ enrolled' \subseteq Users \X DocIds
<1>1. CASE \E u \in Users, p \in DOMAIN docs : Enroll(u, p)
  BY <1>1, IdsAreIds DEF Enroll, TypeOK
<1>2. CASE ~\E u \in Users, p \in DOMAIN docs : Enroll(u, p)
  BY <1>2 DEF TypeOK, Next, vars, Documents, Events, InsertEvent, SetEventStatus,
     CreateEvent, CheckProgram, UpdateEvent, CheckParent, CheckMember, GetEvent,
     CheckAccess, OpenParent, OpenEvent, Proceed
<1> QED
  BY <1>1, <1>2

\* The sequence of documents after an insert.
LEMMA AfterInsert ==
    ASSUME TypeOK, NEW d \in Doc, Len(docs) < MaxDocs, docs' = Append(docs, d)
    PROVE  /\ docs' \in Seq(Doc) /\ Len(docs') <= MaxDocs
           /\ Len(docs) + 1 \in DOMAIN docs' /\ docs'[Len(docs) + 1] = d
           /\ DOMAIN docs' = DOMAIN docs \cup {Len(docs) + 1}
           /\ \A e \in DOMAIN docs : docs'[e] = docs[e]
  BY DocumentsAssumption DEF TypeOK

\* The sequence of documents after a write to one of them.
LEMMA AfterUpdate ==
    ASSUME TypeOK, NEW d \in DOMAIN docs, NEW new \in Doc,
           docs' = [docs EXCEPT ![d] = new]
    PROVE  /\ docs' \in Seq(Doc) /\ Len(docs') <= MaxDocs
           /\ DOMAIN docs' = DOMAIN docs
           /\ docs'[d] = new
           /\ \A e \in DOMAIN docs \ {d} : docs'[e] = docs[e]
  BY DocumentsAssumption DEF TypeOK

\* No document is deleted and none changes its kind; a program keeps its slug
\* and an event its program.
LEMMA Keeps ==
    ASSUME IInv, [Next]_vars
    PROVE  /\ docs' \in Seq(Doc) /\ Len(docs') <= MaxDocs
           /\ \A kind : Ids(kind) \subseteq Ids(kind)'
           /\ \A d \in Ids("program") : docs'[d] = docs[d]
           /\ \A d \in Ids("event") : docs'[d].program = docs[d].program
<1> USE DEF IInv
<1>1. CASE UNCHANGED docs
  BY <1>1 DEF TypeOK, Ids
<1>2. CASE \E d \in Doc : Len(docs) < MaxDocs /\ docs' = Append(docs, d)
  BY <1>2, AfterInsert DEF Ids
<1>3. ASSUME NEW d \in Ids("course"), NEW new \in CourseDoc,
             docs' = [docs EXCEPT ![d] = new]
      PROVE  /\ docs' \in Seq(Doc) /\ Len(docs') <= MaxDocs
             /\ \A kind : Ids(kind) \subseteq Ids(kind)'
             /\ \A e \in Ids("program") \cup Ids("event") : docs'[e] = docs[e]
  <2>1. d \in DOMAIN docs /\ new \in Doc /\ new.kind = docs[d].kind
    BY DEF Ids, Doc, CourseDoc
  <2> QED
    BY <1>3, <2>1, AfterUpdate DEF Ids
<1>4. ASSUME NEW d \in Ids("event"), NEW new \in EventDoc,
             docs' = [docs EXCEPT ![d] = new], new.program = docs[d].program
      PROVE  /\ docs' \in Seq(Doc) /\ Len(docs') <= MaxDocs
             /\ \A kind : Ids(kind) \subseteq Ids(kind)'
             /\ \A e \in Ids("program") : docs'[e] = docs[e]
             /\ \A e \in Ids("event") : docs'[e].program = docs[e].program
  <2>1. d \in DOMAIN docs /\ new \in Doc /\ new.kind = docs[d].kind
    BY DEF Ids, Doc, EventDoc
  <2> QED
    BY <1>4, <2>1, AfterUpdate DEF Ids
<1> QED
  BY <1>1, <1>2, <1>3, <1>4, DocsWrites

\* A slug that is there stays, for a program.
LEMMA ProgramSlugsStay ==
    ASSUME IInv, [Next]_vars, NEW slug, HasSlug("program", slug)
    PROVE  HasSlug("program", slug)'
  BY Keeps DEF HasSlug

\* So what was passed over stays taken.
LEMMA TakenStays ==
    ASSUME IInv, [Next]_vars, NEW title, NEW counter, TakenBefore(title, counter)
    PROVE  TakenBefore(title, counter)'
<1>1. \A slug : HasSlug("program", slug) => HasSlug("program", slug)'
  BY ProgramSlugsStay
<1> QED
  BY <1>1 DEF TakenBefore

\* Whatever a request carries, what it knows stays true.
LEMMA KnowledgeStays ==
    ASSUME IInv, [Next]_vars, NEW v \in Call, CallOk(v)
    PROVE  CallOk(v)'
<1>1. NoneSkipped(v)'
  <2>1. TakenBefore(v.title, v.counter) => TakenBefore(v.title, v.counter)'
    BY TakenStays
  <2> QED
    BY <2>1 DEF CallOk, NoneSkipped
<1>2. ChecksHold(v)'
  <2>1. v \in CourseUpdate => (v.course \in Ids("course"))'
    BY Keeps DEF CallOk, ChecksHold
  <2>2. v.at = "insertEvent" => (v.program \in Ids("program"))'
    BY Keeps DEF CallOk, ChecksHold
  <2>3. v.at = "updateEvent" => (v.event \in Ids("event"))'
    BY Keeps DEF CallOk, ChecksHold
  <2>4. v.at \in {"openParent", "openMember", "opened"} => <<v.user, v.program>> \in enrolled'
    BY EnrolledGrows DEF CallOk, ChecksHold, IInv
  <2>5. v.at = "opened" => Belongs(v.event, v.program)'
    BY Keeps DEF CallOk, ChecksHold, Belongs
  <2> QED
    BY <2>1, <2>2, <2>3, <2>4, <2>5 DEF ChecksHold
<1>3. DueIsAhead(v)'
  BY DEF CallOk, DueIsAhead
<1> QED
  BY <1>1, <1>2, <1>3 DEF CallOk

----------------------------------------------------------------------------
(* Slugs *)

\* Slugs stay unique: an insert and a renaming take one nothing else has.
LEMMA UniqueStep ==
    ASSUME IInv, [Next]_vars
    PROVE  SlugsAreUnique'
<1> USE DEF IInv
<1>1. CASE UNCHANGED docs
  BY <1>1 DEF SlugsAreUnique, Ids
<1>2. ASSUME NEW d \in Doc, Len(docs) < MaxDocs, docs' = Append(docs, d),
             d.kind \in {"course", "program"} => ~HasSlug(d.kind, d.slug)
      PROVE  SlugsAreUnique'
  <2> SUFFICES ASSUME NEW kind \in {"course", "program"},
                      NEW x \in Ids(kind)', NEW y \in Ids(kind)',
                      docs'[x].slug = docs'[y].slug
               PROVE  x = y
    BY DEF SlugsAreUnique
  <2>1. Ids(kind)' = IF d.kind = kind THEN Ids(kind) \cup {Len(docs) + 1}
                               ELSE Ids(kind)
    BY <1>2, AfterInsert, IdsAreIds, DocumentsAssumption DEF Ids
  <2>2. docs'[Len(docs) + 1] = d /\ \A e \in Ids(kind) : docs'[e] = docs[e]
    BY <1>2, AfterInsert DEF Ids
  <2>3. d.kind = kind => \A e \in Ids(kind) : docs[e].slug # d.slug
    BY <1>2 DEF HasSlug
  <2>4. \A d1, d2 \in Ids(kind) : docs[d1].slug = docs[d2].slug => d1 = d2
    BY DEF SlugsAreUnique
  <2> QED
    BY <2>1, <2>2, <2>3, <2>4
<1>3. ASSUME NEW d \in Ids("course"), NEW new \in CourseDoc,
             docs' = [docs EXCEPT ![d] = new],
             \/ new.slug = docs[d].slug
             \/ \A o \in Ids("course") \ {d} : docs[o].slug # new.slug
      PROVE  SlugsAreUnique'
  <2> SUFFICES ASSUME NEW kind \in {"course", "program"},
                      NEW x \in Ids(kind)', NEW y \in Ids(kind)',
                      docs'[x].slug = docs'[y].slug
               PROVE  x = y
    BY DEF SlugsAreUnique
  <2>1. d \in DOMAIN docs /\ new \in Doc /\ new.kind = docs[d].kind
    BY DEF Ids, Doc, CourseDoc
  <2>2. Ids(kind)' = Ids(kind)
    BY <1>3, <2>1, AfterUpdate DEF Ids
  <2>3. docs'[d] = new /\ \A e \in DOMAIN docs \ {d} : docs'[e] = docs[e]
    BY <1>3, <2>1, AfterUpdate
  <2>4. d \notin Ids("program")
    BY DEF Ids
  <2> QED
    BY <1>3, <2>2, <2>3, <2>4 DEF SlugsAreUnique, Ids
<1>4. ASSUME NEW d \in Ids("event"), NEW new \in EventDoc,
             docs' = [docs EXCEPT ![d] = new]
      PROVE  SlugsAreUnique'
  <2> SUFFICES ASSUME NEW kind \in {"course", "program"},
                      NEW x \in Ids(kind)', NEW y \in Ids(kind)',
                      docs'[x].slug = docs'[y].slug
               PROVE  x = y
    BY DEF SlugsAreUnique
  <2>1. d \in DOMAIN docs /\ new \in Doc /\ new.kind = docs[d].kind
    BY DEF Ids, Doc, EventDoc
  <2>2. Ids(kind)' = Ids(kind)
    BY <1>4, <2>1, AfterUpdate DEF Ids
  <2>3. \A e \in DOMAIN docs \ {d} : docs'[e] = docs[e]
    BY <1>4, <2>1, AfterUpdate
  <2>4. Ids(kind) \subseteq DOMAIN docs \ {d}
    BY DEF Ids
  <2> QED
    BY <2>2, <2>3, <2>4 DEF SlugsAreUnique
<1> QED
  BY <1>1, <1>2, <1>3, <1>4, DocsWrites

\* A program inserted has the next slug of its title, and those there are keep
\* theirs.
LEMMA NoneSkippedStep ==
    ASSUME IInv, [Next]_vars
    PROVE  NoSlugIsSkipped'
<1>1. \A title, counter : TakenBefore(title, counter) => TakenBefore(title, counter)'
  BY TakenStays
<1>2. \A p \in Ids("program")' \ Ids("program") : SlugIsNext(docs'[p])
  <2>1. ASSUME NEW d \in Doc, Len(docs) < MaxDocs, docs' = Append(docs, d),
               d.kind = "program" => SlugIsNext(d)
        PROVE  \A p \in Ids("program")' \ Ids("program") : SlugIsNext(docs'[p])
    <3>1. Ids("program")' \ Ids("program") \subseteq
              {p \in {Len(docs) + 1} : d.kind = "program"}
      BY <2>1, AfterInsert DEF Ids, IInv
    <3> QED
      BY <2>1, <3>1, AfterInsert DEF IInv
  <2>2. ASSUME NEW d \in DOMAIN docs, NEW new \in Doc, new.kind = docs[d].kind,
               docs' = [docs EXCEPT ![d] = new]
        PROVE  Ids("program")' \subseteq Ids("program")
    BY <2>2, AfterUpdate DEF Ids, IInv
  <2>3. \A d \in Ids("course") : d \in DOMAIN docs /\ docs[d].kind = "course"
    BY DEF Ids
  <2>4. \A d \in Ids("event") : d \in DOMAIN docs /\ docs[d].kind = "event"
    BY DEF Ids
  <2>5. CourseDoc \subseteq Doc /\ EventDoc \subseteq Doc
    BY DEF Doc
  <2>6. /\ \A new \in CourseDoc : new.kind = "course"
        /\ \A new \in EventDoc : new.kind = "event"
    BY DEF CourseDoc, EventDoc
  <2>7. CASE UNCHANGED docs
    BY <2>7 DEF Ids
  <2> QED
    BY <2>1, <2>2, <2>3, <2>4, <2>5, <2>6, <2>7, DocsWrites
<1>3. \A p \in Ids("program") : docs'[p] = docs[p]
  BY Keeps
<1>4. \A p \in Ids("program") : SlugIsNext(docs[p])
  BY DEF IInv, NoSlugIsSkipped, SlugIsNext, TakenBefore
<1>5. \A p \in Ids("program")' : SlugIsNext(docs'[p])
  BY <1>2, <1>3, <1>4
<1>6. \A p \in Ids("program")' : \A title : title = docs'[p].title =>
          \E counter \in Counters :
              docs'[p].slug = SlugOf[title][counter] /\ TakenBefore(title, counter)'
  BY <1>1, <1>5 DEF SlugIsNext
<1> QED
  BY <1>6 DEF NoSlugIsSkipped, TakenBefore

----------------------------------------------------------------------------
(* Pages *)

\* In a larger list a document has no fewer newer ones.
LEMMA NewerGrows ==
    ASSUME NEW T, IsFiniteSet(T), NEW S \in SUBSET T, NEW d
    PROVE  /\ Newer(S, d) \in Nat /\ Newer(T, d) \in Nat
           /\ Newer(S, d) <= Newer(T, d)
<1>1. /\ {e \in S : e > d} \subseteq {e \in T : e > d}
      /\ {e \in T : e > d} \subseteq T
  OBVIOUS
<1>2. IsFiniteSet({e \in T : e > d}) /\ IsFiniteSet({e \in S : e > d})
  BY <1>1, FS_Subset
<1> QED
  BY <1>1, <1>2, FS_Subset, FS_CardinalityType DEF Newer

\* Fewer documents of a list are newer than one of its own than it has.
LEMMA NewerIsFewer ==
    ASSUME NEW S \in SUBSET DocIds, IsFiniteSet(S), NEW d \in S
    PROVE  Newer(S, d) < Cardinality(S)
<1>1. {e \in S : e > d} \subseteq S \ {d}
  BY DEF DocIds
<1>2. IsFiniteSet(S \ {d}) /\ Cardinality(S \ {d}) = Cardinality(S) - 1
  BY FS_RemoveElement
<1>3. Newer(S, d) <= Cardinality(S \ {d})
  BY <1>1, <1>2, FS_Subset DEF Newer
<1>4. Cardinality(S) \in Nat /\ Newer(S, d) \in Nat
  BY <1>1, <1>2, FS_Subset, FS_CardinalityType DEF Newer
<1> QED
  BY <1>2, <1>3, <1>4

\* A page ends where the next one starts.
LEMMA PagesMeet ==
    ASSUME NEW page \in Nat
    PROVE  /\ StartIndex(page) \in Int /\ EndIndex(page) \in Nat
           /\ StartIndex(page + 1) = EndIndex(page)
           /\ StartIndex(1) = 0
           /\ page <= EndIndex(page)
           /\ page >= 1 => PageSize <= EndIndex(page)
<1>1. PageSize \in Nat /\ PageSize >= 1
  BY ListingsAssumption
<1>2. page + 1 - 1 = page /\ 1 - 1 = 0
  OBVIOUS
<1>3. page * PageSize \in Nat /\ (page - 1) * PageSize \in Int /\ 0 * PageSize = 0
  BY <1>1
<1>4. page * PageSize >= page
  BY <1>1, SMTT(30)
<1>5. page >= 1 => page * PageSize >= PageSize
  BY <1>1, SMTT(30)
<1> QED
  BY <1>2, <1>3, <1>4, <1>5 DEF StartIndex, EndIndex

----------------------------------------------------------------------------
(* What a step writes to a request *)

\* Each part of CallOk is about one kind of request.
LEMMA OneKindEach ==
    /\ Idle \in Call /\ CallOk(Idle)
    /\ \A v \in Creation : v \in Call /\ (NoneSkipped(v) => CallOk(v))
    /\ \A v \in CourseUpdate : v \in Call /\ (v.course \in Ids("course") => CallOk(v))
    /\ \A v \in Walk : v \in Call /\ (DueIsAhead(v) => CallOk(v))
    /\ \A v \in EventCreation \cup EventUpdate \cup EventOpening :
           v \in Call /\ (ChecksHold(v) => CallOk(v))
<1>1. /\ \A v \in Call : v.at \notin {"slugExists", "insert"} => v \notin Creation
      /\ \A v \in Call : v.at \notin {"slugFree", "update"} => v \notin CourseUpdate
      /\ \A v \in Call : v.at \notin {"count", "find", "walked"} => v \notin Walk
  BY DEF Creation, CourseUpdate, Walk
<1>2. Idle \in Call /\ Idle.at = "idle"
  BY DEF Call, Idle
<1>3. \A v \in Creation : v \in Call /\ v.at \in {"slugExists", "insert"}
  BY DEF Call, Creation
<1>4. \A v \in CourseUpdate : v \in Call /\ v.at \in {"slugFree", "update"}
  BY DEF Call, CourseUpdate
<1>5. \A v \in Walk : v \in Call /\ v.at \in {"count", "find", "walked"}
  BY DEF Call, Walk
<1>6. \A v \in EventCreation \cup EventUpdate \cup EventOpening :
          /\ v \in Call
          /\ v.at \in {"programExists", "insertEvent", "parent", "member", "updateEvent",
                       "access", "openParent", "openMember", "opened"}
  BY DEF Call, EventCreation, EventUpdate, EventOpening
<1> QED
  BY <1>1, <1>2, <1>3, <1>4, <1>5, <1>6
     DEF CallOk, NoneSkipped, ChecksHold, DueIsAhead

\* The requests about courses and programs.
LEMMA CreationWrites ==
    ASSUME IInv, NEW c \in Calls,
           \/ \E kind \in {"course", "program"}, t \in Titles : CreateDocument(c, kind, t)
           \/ NextCounter(c) \/ TakeSlug(c)
    PROVE  \E v \in Call : call' = [call EXCEPT ![c] = v] /\ CallOk(v)
<1> USE DEF IInv
<1>1. ASSUME NEW kind \in {"course", "program"}, NEW t \in Titles,
             CreateDocument(c, kind, t)
      PROVE  \E v \in Creation : call' = [call EXCEPT ![c] = v] /\ NoneSkipped(v)
  <2> DEFINE v == [at |-> "slugExists", kind |-> kind, title |-> t, counter |-> 1]
  <2>1. v \in Creation /\ v.counter = 1
    BY DocumentsAssumption DEF Creation, Counters
  <2>2. NoneSkipped(v)
    BY <2>1 DEF NoneSkipped, TakenBefore
  <2> QED
    BY <1>1, <2>1, <2>2 DEF CreateDocument, Begin
<1>2. ASSUME NextCounter(c)
      PROVE  \E v \in Creation : call' = [call EXCEPT ![c] = v] /\ NoneSkipped(v)
  <2> DEFINE k == call[c].counter
             v == [call[c] EXCEPT !.counter = k + 1]
  <2>1. call[c] \in Creation /\ k \in Counters /\ k <= MaxDocs
    BY <1>2, AtTells DEF NextCounter, Creation
  <2>2. k \in Int /\ k + 1 \in Counters
    BY <2>1, DocumentsAssumption DEF Counters
  <2>3. /\ v \in Creation /\ v.kind = call[c].kind
        /\ v.title = call[c].title /\ v.counter = k + 1
    BY <2>1, <2>2 DEF Creation
  <2>4. call[c].kind = "program" => TakenBefore(call[c].title, k)
    BY <2>1 DEF CallOk, NoneSkipped
  <2>5. HasSlug(call[c].kind, SlugOf[call[c].title][k])
    BY <1>2 DEF NextCounter, SlugExists, FindByIdOrSlug, HasSlug, OwnSlug
  <2>6. call' = [call EXCEPT ![c] = v]
    BY <1>2 DEF NextCounter
  <2> HIDE DEF v, k
  <2>7. ASSUME v.kind = "program"
        PROVE  TakenBefore(v.title, v.counter)
    <3> SUFFICES ASSUME NEW n \in 1..(v.counter - 1)
                 PROVE  HasSlug("program", SlugOf[v.title][n])
      BY DEF TakenBefore
    <3>1. n \in 1..(k - 1) \/ n = k
      BY <2>2, <2>3
    <3>2. CASE n \in 1..(k - 1)
      BY <2>3, <2>4, <2>7, <3>2 DEF TakenBefore
    <3>3. CASE n = k
      BY <2>3, <2>5, <2>7, <3>3
    <3> QED
      BY <3>1, <3>2, <3>3
  <2>8. NoneSkipped(v)
    BY <2>7 DEF NoneSkipped
  <2> QED
    BY <2>3, <2>6, <2>8
<1>3. ASSUME TakeSlug(c)
      PROVE  \E v \in Creation : call' = [call EXCEPT ![c] = v] /\ NoneSkipped(v)
  <2> DEFINE v == [call[c] EXCEPT !.at = "insert"]
  <2>1. call[c] \in Creation
    BY <1>3, AtTells DEF TakeSlug
  <2>2. v \in Creation /\ v.title = call[c].title /\ v.counter = call[c].counter
        /\ v.kind = call[c].kind
    BY <2>1 DEF Creation
  <2>3. NoneSkipped(v)
    BY <2>1, <2>2 DEF CallOk, NoneSkipped
  <2> QED
    BY <1>3, <2>2, <2>3 DEF TakeSlug
<1> QED
  BY <1>1, <1>2, <1>3, OneKindEach

LEMMA UpdateWrites ==
    ASSUME IInv, NEW c \in Calls,
           \/ \E d \in Ids("course"), u \in Updates : UpdateCourse(c, d, u)
           \/ CheckSlugIsFree(c)
    PROVE  \E v \in Call : call' = [call EXCEPT ![c] = v] /\ CallOk(v)
<1> USE DEF IInv
<1>1. ASSUME NEW d \in Ids("course"), NEW u \in Updates, UpdateCourse(c, d, u)
      PROVE  \E v \in CourseUpdate :
                 call' = [call EXCEPT ![c] = v] /\ v.course \in Ids("course")
  <2> DEFINE v == [at |-> IF u.slug = NoSlug THEN "update" ELSE "slugFree",
                   course |-> d, with |-> u]
  <2>1. d \in DocIds
    BY IdsAreIds DEF Ids
  <2>2. v \in CourseUpdate /\ v.course = d
    BY <2>1 DEF CourseUpdate
  <2> QED
    BY <1>1, <2>2 DEF UpdateCourse, Begin
<1>2. ASSUME CheckSlugIsFree(c)
      PROVE  \E v \in CourseUpdate :
                 call' = [call EXCEPT ![c] = v] /\ v.course \in Ids("course")
  <2> DEFINE v == [call[c] EXCEPT !.at = "update"]
  <2>1. call[c] \in CourseUpdate
    BY <1>2, AtTells DEF CheckSlugIsFree
  <2>2. v \in CourseUpdate /\ v.course = call[c].course
    BY <2>1 DEF CourseUpdate
  <2> QED
    BY <1>2, <2>1, <2>2 DEF CheckSlugIsFree, CallOk, ChecksHold
<1> QED
  BY <1>1, <1>2, OneKindEach

\* Reading a list: what is on the page is no longer due, and what is due has
\* the page before it.
LEMMA WalkWrites ==
    ASSUME IInv, NEW c \in Calls,
           \/ \E list \in Lists : ReadList(c, list)
           \/ CountDocuments(c) \/ FindPage(c)
    PROVE  \E v \in Call : call' = [call EXCEPT ![c] = v] /\ CallOk(v)
<1> USE DEF IInv
<1>1. ASSUME NEW list \in Lists, ReadList(c, list)
      PROVE  \E v \in Walk : call' = [call EXCEPT ![c] = v] /\ DueIsAhead(v)
  <2> DEFINE v == [at |-> "count", list |-> list, page |-> 1, total |-> 0,
                   due |-> Listed(list), last |-> Listed(list)]
  <2>1. v \in Walk
    BY ListedType, DocumentsAssumption DEF Walk
  <2>2. \A d : Newer(Listed(list), d) \in Nat
    BY ListedType, NewerGrows
  <2>3. DueIsAhead(v)
    BY <2>2, PagesMeet, 1 \in Nat DEF DueIsAhead
  <2> QED
    BY <1>1, <2>1, <2>3 DEF ReadList, Begin
<1>2. ASSUME CountDocuments(c)
      PROVE  \E v \in Walk : call' = [call EXCEPT ![c] = v] /\ DueIsAhead(v)
  <2> DEFINE w == call[c]
             now == Listed(w.list)
             v == [w EXCEPT !.at = "find", !.total = Cardinality(now), !.last = now,
                            !.due = IF w.last \subseteq now THEN w.due ELSE {}]
  <2>1. w \in Walk /\ w.at = "count"
    BY <1>2, AtTells DEF CountDocuments
  <2>2. now \in SUBSET DocIds /\ IsFiniteSet(now) /\ Cardinality(now) \in 0..MaxDocs
    BY ListedType
  <2>3. call' = [call EXCEPT ![c] = v]
    BY <1>2 DEF CountDocuments
  <2> HIDE DEF now
  <2>4. v \in Walk
    BY <2>1, <2>2 DEF Walk
  <2>5. /\ v.at = "find" /\ v.page = w.page /\ v.last = now
        /\ v.total = Cardinality(now)
        /\ v.due = IF w.last \subseteq now THEN w.due ELSE {}
    BY <2>1 DEF Walk
  <2>6. w.due \subseteq w.last /\ \A d \in w.due : StartIndex(w.page) <= Newer(w.last, d)
    BY <2>1 DEF CallOk, DueIsAhead
  <2>7. StartIndex(w.page) \in Int
    BY <2>1, PagesMeet, DocumentsAssumption DEF Walk
  <2>8. ASSUME w.last \subseteq now, NEW d \in w.due
        PROVE  StartIndex(w.page) <= Newer(now, d)
    <3>1. /\ Newer(w.last, d) \in Nat /\ Newer(now, d) \in Nat
          /\ Newer(w.last, d) <= Newer(now, d)
      BY <2>2, <2>8, NewerGrows
    <3> QED
      BY <2>6, <2>7, <3>1
  <2>9. v.due \subseteq v.last /\ \A d \in v.due : StartIndex(v.page) <= Newer(v.last, d)
    BY <2>5, <2>6, <2>8
  <2> HIDE DEF v, w
  <2>10. DueIsAhead(v)
    BY <2>5, <2>9 DEF DueIsAhead
  <2> QED
    BY <2>3, <2>4, <2>10
<1>3. ASSUME FindPage(c)
      PROVE  \E v \in Walk : call' = [call EXCEPT ![c] = v] /\ DueIsAhead(v)
  <2> DEFINE w == call[c]
             now == Listed(w.list)
             next == NextPage(w.list, w.page, w.total)
             at == IF next = w.page THEN "walked" ELSE "count"
             due == IF w.last = now THEN w.due \ Page(now, w.page) ELSE {}
             v == [w EXCEPT !.at = at, !.page = next, !.total = 0, !.last = now,
                            !.due = due]
  <2>1. w \in Walk /\ w.at = "find" /\ w.page \in Nat /\ w.page >= 1
    BY <1>3, AtTells DEF FindPage, Walk
  <2>2. now \in SUBSET DocIds /\ IsFiniteSet(now) /\ Cardinality(now) \in 0..MaxDocs
    BY ListedType
  <2>3. call' = [call EXCEPT ![c] = v]
    BY <1>3 DEF FindPage
  <2>4. /\ StartIndex(w.page) \in Int /\ EndIndex(w.page) \in Nat
        /\ StartIndex(w.page + 1) = EndIndex(w.page) /\ w.page <= EndIndex(w.page)
        /\ PageSize <= EndIndex(w.page) /\ PageSize \in Nat
    BY <2>1, PagesMeet, ListingsAssumption
  <2>5. \/ next = w.page /\ (~w.list.paged \/ EndIndex(w.page) >= w.total)
        \/ next = w.page + 1 /\ EndIndex(w.page) < w.total
    BY <2>1, <2>4, DocumentsAssumption DEF NextPage, Walk
  <2>6. /\ w.due \subseteq w.last
        /\ \A d \in w.due : StartIndex(w.page) <= Newer(w.last, d)
        /\ w.total = Cardinality(w.last)
    BY <2>1 DEF CallOk, DueIsAhead
  <2> HIDE DEF now, next
  <2>7. next \in 1..(MaxDocs + 1)
    BY <2>1, <2>4, <2>5, DocumentsAssumption DEF Walk
  <2>8. /\ v \in Walk
        /\ v.at = at /\ v.page = next /\ v.last = now /\ v.due = due
        /\ v.list = w.list
    <3>1. at \in {"walked", "count"} /\ due \in SUBSET DocIds
      BY <2>1 DEF Walk
    <3>2. 0 \in 0..MaxDocs
      BY DocumentsAssumption
    <3> HIDE DEF at, due, w
    <3>3. v \in Walk
      BY <2>1, <2>2, <2>7, <3>1, <3>2 DEF Walk
    <3>4. v.at = at /\ v.page = next
      BY <2>1 DEF Walk
    <3>5. v.last = now /\ v.due = due /\ v.list = w.list
      BY <2>1 DEF Walk
    <3> QED
      BY <3>3, <3>4, <3>5
  <2>9. ASSUME w.last = now, NEW d \in w.due \ Page(now, w.page)
        PROVE  /\ StartIndex(next) <= Newer(now, d)
               /\ next = w.page => ~w.list.paged /\ PageSize <= Newer(now, d)
    <3>1. Newer(now, d) \in Nat /\ Newer(now, d) < Cardinality(now)
      BY <2>2, <2>6, <2>9, NewerIsFewer, NewerGrows
    <3>2. Newer(now, d) >= EndIndex(w.page)
      BY <2>4, <2>6, <2>9, <3>1 DEF Page
    <3>3. EndIndex(w.page) < w.total
      BY <2>2, <2>4, <2>6, <2>9, <3>1, <3>2
    <3>4. CASE next = w.page
      BY <2>1, <2>2, <2>4, <2>5, <2>6, <2>9, <3>1, <3>2, <3>3, <3>4, DocumentsAssumption
         DEF Walk
    <3>5. CASE next = w.page + 1
      BY <2>1, <2>4, <3>1, <3>2, <3>5
    <3> QED
      BY <2>5, <3>4, <3>5
  <2> HIDE DEF v, w
  <2>10. w.page + 1 # w.page
    BY <2>1
  <2>11. DueIsAhead(v)
    BY <2>6, <2>8, <2>9, <2>10 DEF DueIsAhead
  <2> QED
    BY <2>3, <2>8, <2>11
<1> QED
  BY <1>1, <1>2, <1>3, OneKindEach

\* The requests about events.
LEMMA EventWrites ==
    ASSUME IInv, NEW c \in Calls,
           \/ \E p \in DOMAIN docs : CreateEvent(c, p)
           \/ CheckProgram(c)
           \/ \E p, e \in DOMAIN docs, status \in Statuses : UpdateEvent(c, p, e, status)
           \/ CheckParent(c) \/ CheckMember(c)
    PROVE  \E v \in Call : call' = [call EXCEPT ![c] = v] /\ CallOk(v)
<1> USE DEF IInv
<1>1. ASSUME NEW p \in DOMAIN docs, CreateEvent(c, p)
      PROVE  \E v \in Call : call' = [call EXCEPT ![c] = v] /\ CallOk(v)
  <2> DEFINE v == [at |-> "programExists", program |-> p]
  <2>1. v \in EventCreation /\ v.at = "programExists"
    BY IdsAreIds DEF EventCreation
  <2>2. ChecksHold(v)
    BY <2>1 DEF ChecksHold, CourseUpdate, EventCreation
  <2> QED
    BY <1>1, <2>1, <2>2, OneKindEach DEF CreateEvent, Begin
<1>2. ASSUME NEW p \in DOMAIN docs, NEW e \in DOMAIN docs, NEW status \in Statuses,
             UpdateEvent(c, p, e, status)
      PROVE  \E v \in Call : call' = [call EXCEPT ![c] = v] /\ CallOk(v)
  <2> DEFINE v == [at |-> "parent", program |-> p, event |-> e, status |-> status]
  <2>1. v \in EventUpdate /\ v.at = "parent"
    BY IdsAreIds DEF EventUpdate
  <2>2. ChecksHold(v)
    BY <2>1 DEF ChecksHold, CourseUpdate, EventUpdate
  <2> QED
    BY <1>2, <2>1, <2>2, OneKindEach DEF UpdateEvent, Begin
<1>3. ASSUME CheckProgram(c)
      PROVE  \E v \in Call : call' = [call EXCEPT ![c] = v] /\ CallOk(v)
  <2> DEFINE v == [call[c] EXCEPT !.at = "insertEvent"]
  <2>1. call[c] \in EventCreation /\ call' = [call EXCEPT ![c] = v]
    BY <1>3, AtTells DEF CheckProgram, Proceed
  <2>2. v \in EventCreation /\ v.at = "insertEvent" /\ v.program = call[c].program
    BY <2>1 DEF EventCreation
  <2>3. ChecksHold(v)
    BY <1>3, <2>1, <2>2 DEF CheckProgram, ProgramExists, ChecksHold, CourseUpdate
  <2> QED
    BY <2>1, <2>2, <2>3, OneKindEach
<1>4. ASSUME CheckParent(c)
      PROVE  \E v \in Call : call' = [call EXCEPT ![c] = v] /\ CallOk(v)
  <2> DEFINE v == [call[c] EXCEPT !.at = "member"]
  <2>1. call[c] \in EventUpdate /\ call' = [call EXCEPT ![c] = v]
    BY <1>4, AtTells DEF CheckParent, Proceed
  <2>2. v \in EventUpdate /\ v.at = "member" /\ v.program = call[c].program /\ v.event = call[c].event
    BY <2>1 DEF EventUpdate
  <2>3. ChecksHold(v)
    BY <1>4, <2>1, <2>2 DEF CheckParent, ChecksHold, CourseUpdate
  <2> QED
    BY <2>1, <2>2, <2>3, OneKindEach
<1>5. ASSUME CheckMember(c)
      PROVE  \E v \in Call : call' = [call EXCEPT ![c] = v] /\ CallOk(v)
  <2> DEFINE v == [call[c] EXCEPT !.at = "updateEvent"]
  <2>1. call[c] \in EventUpdate /\ call' = [call EXCEPT ![c] = v]
    BY <1>5, AtTells DEF CheckMember, Proceed
  <2>2. v \in EventUpdate /\ v.at = "updateEvent" /\ v.program = call[c].program /\ v.event = call[c].event
    BY <2>1 DEF EventUpdate
  <2>3. ChecksHold(v)
    BY <1>5, <2>1, <2>2 DEF CheckMember, Belongs, ChecksHold, CourseUpdate
  <2> QED
    BY <2>1, <2>2, <2>3, OneKindEach
<1> QED
  BY <1>1, <1>2, <1>3, <1>4, <1>5

LEMMA OpenWrites ==
    ASSUME IInv, NEW c \in Calls,
           \/ \E u \in Users, p, e \in DOMAIN docs : GetEvent(c, u, p, e)
           \/ CheckAccess(c) \/ OpenParent(c) \/ OpenEvent(c)
    PROVE  \E v \in Call : call' = [call EXCEPT ![c] = v] /\ CallOk(v)
<1> USE DEF IInv
<1>1. ASSUME NEW u \in Users, NEW p \in DOMAIN docs, NEW e \in DOMAIN docs,
             GetEvent(c, u, p, e)
      PROVE  \E v \in Call : call' = [call EXCEPT ![c] = v] /\ CallOk(v)
  <2> DEFINE v == [at |-> "access", user |-> u, program |-> p, event |-> e]
  <2>1. v \in EventOpening /\ v.at = "access"
    BY IdsAreIds DEF EventOpening
  <2>2. ChecksHold(v)
    BY <2>1 DEF ChecksHold, CourseUpdate, EventOpening
  <2> QED
    BY <1>1, <2>1, <2>2, OneKindEach DEF GetEvent, Begin
<1>2. ASSUME CheckAccess(c)
      PROVE  \E v \in Call : call' = [call EXCEPT ![c] = v] /\ CallOk(v)
  <2> DEFINE v == [call[c] EXCEPT !.at = "openParent"]
  <2>1. call[c] \in EventOpening /\ call' = [call EXCEPT ![c] = v]
    BY <1>2, AtTells DEF CheckAccess, Proceed
  <2>2. v \in EventOpening /\ v.at = "openParent" /\ v.user = call[c].user
        /\ v.program = call[c].program /\ v.event = call[c].event
    BY <2>1 DEF EventOpening
  <2>3. ChecksHold(v)
    BY <1>2, <2>1, <2>2 DEF CheckAccess, ChecksHold, CourseUpdate
  <2> QED
    BY <2>1, <2>2, <2>3, OneKindEach
<1>3. ASSUME OpenParent(c)
      PROVE  \E v \in Call : call' = [call EXCEPT ![c] = v] /\ CallOk(v)
  <2> DEFINE v == [call[c] EXCEPT !.at = "openMember"]
  <2>1. call[c] \in EventOpening /\ call' = [call EXCEPT ![c] = v]
    BY <1>3, AtTells DEF OpenParent, Proceed
  <2>2. v \in EventOpening /\ v.at = "openMember" /\ v.user = call[c].user
        /\ v.program = call[c].program /\ v.event = call[c].event
    BY <2>1 DEF EventOpening
  <2>3. ChecksHold(v)
    BY <1>3, <2>1, <2>2 DEF OpenParent, CallOk, ChecksHold, CourseUpdate
  <2> QED
    BY <2>1, <2>2, <2>3, OneKindEach
<1>4. ASSUME OpenEvent(c)
      PROVE  \E v \in Call : call' = [call EXCEPT ![c] = v] /\ CallOk(v)
  <2> DEFINE v == [call[c] EXCEPT !.at = "opened"]
  <2>1. call[c] \in EventOpening /\ call' = [call EXCEPT ![c] = v]
    BY <1>4, AtTells DEF OpenEvent, Proceed
  <2>2. v \in EventOpening /\ v.at = "opened" /\ v.user = call[c].user
        /\ v.program = call[c].program /\ v.event = call[c].event
    BY <2>1 DEF EventOpening
  <2>3. ChecksHold(v)
    BY <1>4, <2>1, <2>2 DEF OpenEvent, CallOk, ChecksHold, CourseUpdate
  <2> QED
    BY <2>1, <2>2, <2>3, OneKindEach
<1> QED
  BY <1>1, <1>2, <1>3, <1>4

\* A step writes to one request what is true at that moment, or ends it.
LEMMA CallWrites ==
    ASSUME IInv, [Next]_vars
    PROVE  \/ UNCHANGED call
           \/ \E c \in Calls, v \in Call :
                 call' = [call EXCEPT ![c] = v] /\ CallOk(v)
<1>1. ASSUME NEW c \in Calls, Documents(c)
      PROVE  \E v \in Call : call' = [call EXCEPT ![c] = v] /\ CallOk(v)
  <2>1. CASE InsertDocument(c) \/ SetFields(c) \/ Abandon(c)
    BY <2>1, OneKindEach DEF InsertDocument, SetFields, Abandon, Answer
  <2> QED
    BY <1>1, <2>1, CreationWrites, UpdateWrites, WalkWrites DEF Documents
<1>2. ASSUME NEW c \in Calls, Events(c)
      PROVE  \E v \in Call : call' = [call EXCEPT ![c] = v] /\ CallOk(v)
  <2>1. CASE InsertEvent(c) \/ SetEventStatus(c)
    BY <2>1, OneKindEach DEF InsertEvent, SetEventStatus, Answer
  <2> QED
    BY <1>2, <2>1, EventWrites, OpenWrites DEF Events
<1> QED
  BY <1>1, <1>2 DEF Next, vars, Enroll

----------------------------------------------------------------------------
(* The invariant and what follows from it *)

LEMMA InitInvariant == Init => IInv
<1> SUFFICES ASSUME Init
             PROVE  IInv
  OBVIOUS
<1>1. docs = <<>> /\ Len(docs) = 0 /\ docs \in Seq(Doc) /\ DOMAIN docs = {}
  BY DEF Init
<1>2. call = [c \in Calls |-> Idle] /\ enrolled = {}
  BY DEF Init
<1>3. TypeOK
  BY <1>1, <1>2, OneKindEach, DocumentsAssumption DEF TypeOK
<1>4. SlugsAreUnique /\ NoSlugIsSkipped
  BY <1>1 DEF SlugsAreUnique, NoSlugIsSkipped, Ids
<1> QED
  BY <1>2, <1>3, <1>4, OneKindEach DEF IInv

LEMMA StepInvariant == IInv /\ [Next]_vars => IInv'
<1> SUFFICES ASSUME IInv, [Next]_vars
             PROVE  IInv'
  OBVIOUS
<1>1. call \in [Calls -> Call] /\ \A c \in Calls : CallOk(call[c])
  BY DEF IInv, TypeOK
<1>2. call' \in [Calls -> Call] /\ \A c \in Calls : CallOk(call'[c])
  BY <1>1, CallWrites
<1>3. ASSUME NEW c \in Calls
      PROVE  CallOk(call[c])'
  <2>1. PICK v \in Call : v = call'[c] /\ CallOk(v)
    BY <1>2
  <2>2. CallOk(v)'
    BY <2>1, KnowledgeStays
  <2> QED
    BY <2>1, <2>2 DEF CallOk, NoneSkipped, TakenBefore, ChecksHold, DueIsAhead, HasSlug,
       Belongs, Ids
<1>4. TypeOK'
  BY <1>2, Keeps, EnrolledGrows DEF TypeOK, IInv
<1> QED
  BY <1>3, <1>4, UniqueStep, NoneSkippedStep DEF IInv

\* What requests know of the documents, and which slugs these have, holds in every reachable state.
THEOREM CatalogueInvariant == Spec => []IInv
  BY InitInvariant, StepInvariant, PTL DEF Spec

\* Documents, requests and enrollments keep their types.
THEOREM CatalogueTypes == Spec => []TypeOK
<1>1. IInv => TypeOK
  BY DEF IInv
<1> QED
  BY <1>1, CatalogueInvariant, PTL

\* A slug leads to the one document that has it, in spite of creations and
\* renamings that look first and write later.
THEOREM SlugsFindDocuments == Spec => []SlugFindsItsDocument
<1>1. IInv => SlugFindsItsDocument
  BY DEF IInv, SlugsAreUnique, SlugFindsItsDocument, FindByIdOrSlug
<1> QED
  BY <1>1, CatalogueInvariant, PTL

\* A program has the first slug of its title that no other program had: the ones
\* before it are programs' slugs.
THEOREM SlugsAreTakenInOrder == Spec => []NoSlugIsSkipped
<1>1. IInv => NoSlugIsSkipped
  BY DEF IInv
<1> QED
  BY <1>1, CatalogueInvariant, PTL

\* A reader whose list loses nothing, and gains nothing between the two reads of
\* a page, has seen at the last page all that was listed at the first; of the
\* public list of events, which has one page only, the newest.
THEOREM WalksAreComplete == Spec => []WalkMissesNothing
<1>1. IInv => WalkMissesNothing
  <2> SUFFICES ASSUME IInv, NEW c \in Calls, call[c].at = "walked"
               PROVE  \A d \in call[c].due :
                          ~call[c].list.paged /\ PageSize <= Newer(call[c].last, d)
    BY DEF WalkMissesNothing
  <2>1. call[c] \in Walk
    BY AtTells DEF IInv
  <2> QED
    BY <2>1 DEF IInv, CallOk, DueIsAhead
<1> QED
  BY <1>1, CatalogueInvariant, PTL

\* getEventById shows an event only to users enrolled in the program it belongs
\* to.
THEOREM EventsAreOpenedByTheEnrolled == Spec => []OpenedByEnrolled
<1>1. IInv => OpenedByEnrolled
  BY DEF IInv, CallOk, ChecksHold, Belongs, OpenedByEnrolled
<1> QED
  BY <1>1, CatalogueInvariant, PTL
=============================================================================
