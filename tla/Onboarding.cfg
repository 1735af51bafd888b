SPECIFICATION Spec
CONSTANTS
    c1 = c1  c2 = c2
    Users = {"ada"}
    Calls = {c1, c2}
    Types = {"talent", "user"}
    Talent = "talent"
SYMMETRY Symmetry
INVARIANTS TypeOK CompletedHasRole NamedFirst TalentHasProfile
PROPERTIES NothingIsUndone
CHECK_DEADLOCK FALSE
