SPECIFICATION LiveSpec
CONSTANTS
    e1 = e1  e2 = e2  r1 = r1  r2 = r2  s1 = s1  s2 = s2
    talent = talent  business = business
    Users = {e1}
    Registrations = {r1}
    Sessions = {s1, s2}
    Kinds = {talent}
    RoleKinds = {talent}
    MaxCodes = 3
    MaxDbFaults = 1
    MaxCrashes = 0
    MaxDetours = 1
    MaxFailures = 1
PROPERTIES CreatedIsActivated LockIsLifted
CHECK_DEADLOCK FALSE
