SPECIFICATION Spec
CONSTANTS
    c1 = c1  c2 = c2
    Titles = {"Intro", "Intro 2", "C0FFEE"}
    Slugs <- SomeSlugs
    SlugOf <- SomeSlugOf
    IdLike = {"c0ffee"}
    Statuses = {"draft", "published"}
    Updates <- SomeUpdates
    Lists <- SomeLists
    Calls = {c1, c2}
    Users = {"ada"}
    MaxDocs = 3
    PageSize = 1
SYMMETRY Symmetry
INVARIANTS SlugFindsItsDocument NoSlugIsSkipped WalkMissesNothing OpenedByEnrolled
CHECK_DEADLOCK FALSE
