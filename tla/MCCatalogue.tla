----------------------------- MODULE MCCatalogue -----------------------------
(***************************************************************************)
(* Small instances of Catalogue for TLC.                                   *)
(***************************************************************************)
EXTENDS Catalogue, TLC

CONSTANTS c1, c2
Symmetry == Permutations({c1, c2})

\* The first slug of "Intro 2" is the second one of "Intro".
GenSlug(title) ==
    CASE title = "Intro" -> "intro" [] title = "Intro 2" -> "intro-2" [] OTHER -> "c0ffee"

SomeSlugOf ==
    [title \in Titles |-> [counter \in Counters |->
        IF counter = 1 THEN GenSlug(title)
                       ELSE GenSlug(title) \o "-" \o ToString(counter)]]

SomeSlugs == {SomeSlugOf[title][counter] : title \in Titles, counter \in Counters}

\* Renaming to the second slug of "Intro", publishing, and taking back to draft.
SomeUpdates ==
    {[slug |-> "intro-2", status |-> NoStatus],
     [slug |-> NoSlug, status |-> "published"],
     [slug |-> NoSlug, status |-> "draft"]}

\* The public list of courses and the events of the first program, of which the
\* published ones are public.
SomeLists == {Courses({"published"}), AdminEvents(1), PublicEvents(1)}
=============================================================================
