SPECIFICATION Spec
CONSTANTS
    e1 = e1  e2 = e2  r1 = r1  r2 = r2  s1 = s1  s2 = s2
    talent = talent  business = business
    Users = {e1, e2}
    Registrations = {r1, r2}
    Sessions = {}
    Kinds = {talent, business}
    RoleKinds = {talent}
    MaxCodes = 2
    MaxDbFaults = 2
    MaxCrashes = 1
    MaxDetours = 1
    MaxFailures = 0
INVARIANTS TypeOK RoleListsItsUsers AnsweredIsSealed
PROPERTIES RoleKeepsItsUsers
CHECK_DEADLOCK FALSE
