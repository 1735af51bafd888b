SPECIFICATION Spec
CONSTANTS
    u1 = u1  u2 = u2  c1 = c1  c2 = c2  p1 = p1  s1 = s1  s2 = s2
    q1 = q1  q2 = q2  h1 = h1  h2 = h2  shop1 = shop1  shop2 = shop2
    Users = {u1}
    Courses = {c1}
    Programs = {}
    Scholarships = {s1}
    Amounts <- TwoAmounts
    CourseStates <- SamePriceCourse
    ShopRefs = {shop1}
    Requests = {q1}
    Handlers = {h1}
    MaxNow = 0
    MaxDbFaults = 1
    MaxAttempts = 2
    MaxStalls = 1
    MaxCrashes = 1
INVARIANTS TypeOK ApprovedHasPaymentRecord PaidHasAccess ActiveIsFunded
PROPERTIES RecordsOnlyAdvance ImplementsAccessLedger
CHECK_DEADLOCK FALSE
