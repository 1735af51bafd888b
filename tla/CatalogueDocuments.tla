------------------------- MODULE CatalogueDocuments -------------------------
(***************************************************************************)
(* Courses and programs: creation with a slug made from the title, and     *)
(* update, by concurrent requests over the generic repository.             *)
(*                                                                         *)
(* A slug is a string made from a title, with a counter appended from the  *)
(* second try on.  Slugs of different titles may be the same: the bare one *)
(* of "Intro 2" is the second one of "Intro".  slugExists looks the slug   *)
(* up with findByIdOrSlug, which takes a slug that reads as an ObjectId    *)
(* for an id, and counts a failed look-up as "not there".  The unique      *)
(* index on slug has the last word.                                        *)
(*                                                                         *)
(* Prices, texts and dates are data no operation here compares, and so is  *)
(* a title once the slug is made; programs have neither their slug nor     *)
(* their status updated.                                                   *)
(***************************************************************************)
EXTENDS Integers, Sequences

CONSTANTS
    Titles,
    Slugs,
    SlugOf,     \* the slugs of a title: genSlug, from counter 2 on with it appended
    IdLike,     \* slugs that read as an ObjectId
    Statuses,   \* what the code tells apart: published or one of the others
    Updates,    \* the slugs and statuses updates of courses carry
    Calls,      \* requests under way at one time
    MaxDocs     \* bound on the documents inserted

VARIABLES
    docs,       \* courses, programs and events, in the order of createdAt
    call        \* what each request under way knows

Counters == 1..(MaxDocs + 1)

DocIds == 1..MaxDocs

\* What a request does not carry.
NoSlug == ""
NoStatus == ""
NoDoc == 0

ASSUME DocumentsAssumption ==
    /\ SlugOf \in [Titles -> [Counters -> Slugs]]
    /\ IdLike \subseteq Slugs
    /\ "draft" \in Statuses /\ "published" \in Statuses
    /\ MaxDocs \in Nat
    /\ Updates \subseteq [slug: Slugs \cup {NoSlug}, status: Statuses \cup {NoStatus}]

\* title: the one the program was created under.
CourseDoc == [kind: {"course"}, slug: Slugs, status: Statuses]
ProgramDoc == [kind: {"program"}, title: Titles, slug: Slugs, status: {"draft"}]
EventDoc == [kind: {"event"}, program: DocIds, status: Statuses]

Doc == CourseDoc \cup ProgramDoc \cup EventDoc

Creation == [at: {"slugExists", "insert"}, kind: {"course", "program"},
             title: Titles, counter: Counters]

CourseUpdate == [at: {"slugFree", "update"}, course: DocIds, with: Updates]

Idle == [at |-> "idle"]

Begin(c, request) == call[c] = Idle /\ call' = [call EXCEPT ![c] = request]

Answer(c) == call' = [call EXCEPT ![c] = Idle]

----------------------------------------------------------------------------
(* The repository *)

Ids(kind) == {d \in DOMAIN docs : docs[d].kind = kind}

HasSlug(kind, slug) == \E d \in Ids(kind) : docs[d].slug = slug

ReadsAsId(slug) == slug \in IdLike

FindByIdOrSlug(kind, slug) ==
    IF ReadsAsId(slug) THEN {} ELSE {d \in Ids(kind) : docs[d].slug = slug}

\* mutant: a failed look-up counts as a slug that is taken
SlugExistsOrFails(kind, slug) == {FindByIdOrSlug(kind, slug) # {}, TRUE}

\* What slugExists may answer: a failed look-up has no data either.
SlugExists(kind, slug) == {FindByIdOrSlug(kind, slug) # {}, FALSE}

NewDocument(kind, title, slug) ==
    IF kind = "course" THEN [kind |-> kind, slug |-> slug, status |-> "draft"]
    ELSE [kind |-> kind, title |-> title, slug |-> slug, status |-> "draft"]

\* create: a new document is the newest.
Insert(d) == docs' = Append(docs, d)

----------------------------------------------------------------------------
(* createCourse, createProgram *)

CreateDocument(c, kind, title) ==
    /\ Begin(c, [at |-> "slugExists", kind |-> kind, title |-> title, counter |-> 1])
    /\ UNCHANGED docs

\* The slug the creation is at.
OwnSlug(c) == SlugOf[call[c].title][call[c].counter]

NextCounter(c) ==
    /\ call[c].at = "slugExists"
    /\ TRUE \in SlugExists(call[c].kind, OwnSlug(c))
    /\ call[c].counter <= MaxDocs
    /\ call' = [call EXCEPT ![c].counter = @ + 1]
    /\ UNCHANGED docs

TakeSlug(c) ==
    /\ call[c].at = "slugExists"
    /\ FALSE \in SlugExists(call[c].kind, OwnSlug(c))
    /\ call' = [call EXCEPT ![c].at = "insert"]
    /\ UNCHANGED docs

\* The index refuses a slug that was inserted since, and the request is
\* answered 400 (Abandon).
InsertDocument(c) ==
    /\ call[c].at = "insert"
    /\ Len(docs) < MaxDocs
    /\ ~HasSlug(call[c].kind, OwnSlug(c))
    /\ Insert(NewDocument(call[c].kind, call[c].title, OwnSlug(c)))
    /\ Answer(c)

----------------------------------------------------------------------------
(* updateCourse *)

\* An update without a slug or without a status leaves the one there is.
UpdateCourse(c, d, u) ==
    /\ Begin(c, [at |-> IF u.slug = NoSlug THEN "update" ELSE "slugFree",
                 course |-> d, with |-> u])
    /\ UNCHANGED docs

\* A slug that is found, the course's own too, is refused (Abandon).
CheckSlugIsFree(c) ==
    /\ call[c].at = "slugFree"
    /\ FALSE \in SlugExists("course", call[c].with.slug)
    /\ call' = [call EXCEPT ![c].at = "update"]
    /\ UNCHANGED docs

\* $set of the fields that are there.
WithFields(d, u) ==
    [docs[d] EXCEPT !.slug = IF u.slug = NoSlug THEN @ ELSE u.slug,
                    !.status = IF u.status = NoStatus THEN @ ELSE u.status]

\* mutant: the slug was free when it was looked up
IndexAllowsAny(d, slug) == TRUE

\* The unique index: no other course has the slug.
IndexAllows(d, slug) == \A o \in Ids("course") \ {d} : docs[o].slug # slug

SetFields(c) ==
    LET d == call[c].course
        u == call[c].with IN
    /\ call[c].at = "update"
    /\ IndexAllows(d, u.slug)
    /\ docs' = [docs EXCEPT ![d] = WithFields(d, u)]
    /\ Answer(c)

\* A guard or an index refuses the request, a database call fails or the
\* process stops; every write above is a single one.
Abandon(c) ==
    /\ call[c] # Idle
    /\ Answer(c)
    /\ UNCHANGED docs

----------------------------------------------------------------------------
(* Properties *)

\* A slug leads to the one document that has it, although creations and
\* renamings look first and write later; all but the slugs findByIdOrSlug
\* takes for an id.
SlugFindsItsDocument ==
    \A kind \in {"course", "program"} : \A d \in Ids(kind) :
        ReadsAsId(docs[d].slug) \/ FindByIdOrSlug(kind, docs[d].slug) = {d}

\* No slug of a program's title was passed over without need: those before its
\* own are programs' slugs, although each is looked up by itself, a failed look-up
\* ends the search and other creations insert meanwhile.  (The program that has
\* one may be of another title: Intro, Intro 2 and Intro, created in this order,
\* get intro, intro-2 and intro-3.)
NoSlugIsSkipped ==
    \A p \in Ids("program") : \E counter \in Counters :
        /\ docs[p].slug = SlugOf[docs[p].title][counter]
        /\ \A n \in 1..(counter - 1) : HasSlug("program", SlugOf[docs[p].title][n])
=============================================================================
