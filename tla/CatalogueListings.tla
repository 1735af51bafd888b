-------------------------- MODULE CatalogueListings --------------------------
(***************************************************************************)
(* Paged lists of courses and events: findAll, asked again and again by a  *)
(* reader who follows the page it names as the next.                       *)
(*                                                                         *)
(* Each page is two reads, countDocuments and find; documents come and go  *)
(* between any two of them.  The order is the default, newest first; times *)
(* of creation are taken to be distinct.  The public list of a program's   *)
(* events takes no page from its caller: only the first one is shown.      *)
(***************************************************************************)
EXTENDS CatalogueDocuments, FiniteSets

CONSTANTS PageSize,
          Lists     \* the lists readers ask for

\* paged: the caller names the page.
Courses(only) == [of |-> "course", only |-> only, program |-> NoDoc, paged |-> TRUE]

AdminEvents(p) == [of |-> "event", only |-> Statuses, program |-> p, paged |-> TRUE]

PublicEvents(p) ==
    [of |-> "event", only |-> {"published"}, program |-> p, paged |-> FALSE]

\* getCourses, getAdminCourses, and getAdminEvents and getEvents of a program.
AllLists ==
    {Courses({"published"}), Courses(Statuses)}
        \cup {AdminEvents(p) : p \in DocIds} \cup {PublicEvents(p) : p \in DocIds}

ASSUME ListingsAssumption == PageSize \in Nat \ {0} /\ Lists \subseteq AllLists

Listed(list) ==
    {d \in Ids(list.of) : /\ docs[d].status \in list.only
                          /\ list.of = "event" => docs[d].program = list.program}

\* total: of the page's countDocuments.  due: what was listed at the first read
\* and is yet to be seen.  last: what was listed at the latest read.  Once a
\* document left the list during the walk, or came into it between the two
\* reads of a page, nothing is due any more.
Walk == [at: {"count", "find", "walked"}, list: Lists, page: 1..(MaxDocs + 1),
         total: 0..MaxDocs, due: SUBSET DocIds, last: SUBSET DocIds]

StartIndex(page) == (page - 1) * PageSize

EndIndex(page) == page * PageSize

Newer(S, d) == Cardinality({e \in S : e > d})

\* sort(-createdAt).skip(startIndex).limit(limit): the documents with as many
\* newer ones as the page skips at least, and fewer than it ends at.
Page(S, page) ==
    {d \in S : StartIndex(page) <= Newer(S, d) /\ Newer(S, d) < EndIndex(page)}

\* mutant: one document beyond the page is overlooked
NextPageEarly(list, page, total) ==
    IF list.paged /\ EndIndex(page) + 1 < total THEN page + 1 ELSE page

\* The page named as the next, where it can be asked for: the same one again
\* when there is no other.
NextPage(list, page, total) ==
    IF list.paged /\ EndIndex(page) < total THEN page + 1 ELSE page

ReadList(c, list) ==
    /\ list.of = "event" => list.program \in Ids("program")
    /\ Begin(c, [at |-> "count", list |-> list, page |-> 1, total |-> 0,
                 due |-> Listed(list), last |-> Listed(list)])
    /\ UNCHANGED docs

CountDocuments(c) ==
    LET w == call[c]
        now == Listed(w.list) IN
    /\ w.at = "count"
    /\ call' = [call EXCEPT ![c] =
                   [w EXCEPT !.at = "find", !.total = Cardinality(now), !.last = now,
                             !.due = IF w.last \subseteq now THEN w.due ELSE {}]]
    /\ UNCHANGED docs

FindPage(c) ==
    LET w == call[c]
        now == Listed(w.list)
        next == NextPage(w.list, w.page, w.total) IN
    /\ w.at = "find"
    /\ call' = [call EXCEPT ![c] =
                   [w EXCEPT !.at = IF next = w.page THEN "walked" ELSE "count",
                             !.page = next, !.total = 0, !.last = now,
                             !.due = IF w.last = now THEN w.due \ Page(now, w.page)
                                     ELSE {}]]
    /\ UNCHANGED docs

\* A reader who walked a list of which nothing was taken meanwhile, and to
\* which nothing was added between the two reads of a page, has seen all that
\* was listed at the beginning, whatever was inserted or published between the
\* pages.  (Anything else may push a document over the edge of the last page or
\* behind the reader.)  What the public list of events leaves out, which has one
\* page only, is older than all it shows.
WalkMissesNothing ==
    \A c \in Calls :
        call[c].at = "walked" =>
            \A d \in call[c].due :
                ~call[c].list.paged /\ PageSize <= Newer(call[c].last, d)
=============================================================================
