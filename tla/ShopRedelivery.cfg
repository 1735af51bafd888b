SPECIFICATION Spec
CONSTANTS
    u1 = u1  u2 = u2  c1 = c1  c2 = c2  p1 = p1  s1 = s1  s2 = s2
    q1 = q1  q2 = q2  h1 = h1  h2 = h2  shop1 = shop1  shop2 = shop2
    Users = {u1}
    Courses = {c1, c2}
    Programs = {}
    Scholarships = {s1, s2}
    Amounts <- TwoAmounts
    CourseStates <- OneCourseState
    ShopRefs = {shop1}
    Requests = {}
    Handlers = {h1}
    MaxNow = 1
    MaxDbFaults = 0
    MaxAttempts = 2
    MaxStalls = 1
    MaxCrashes = 0
PROPERTIES ShopRedeliveryChangesNothing
CHECK_DEADLOCK FALSE
