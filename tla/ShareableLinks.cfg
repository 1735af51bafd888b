SPECIFICATION Spec
CONSTANTS
    l1 = l1  l2 = l2  t1 = t1  t2 = t2  h1 = h1  h2 = h2
    Links = {l1, l2}
    Resources = {"course"}
    LinkTypes = {"preview", "invite"}
    Tokens = {t1, t2}
    Calls = {h1, h2}
    MaxLinkCalls = 4
    MaxLinkFaults = 1
SYMMETRY Symmetry
INVARIANTS TypeOK RevocationHolds AccessesAreCounted
PROPERTIES KeepsRegister
CHECK_DEADLOCK FALSE
