SPECIFICATION Spec
CONSTANTS
    a1 = a1  a2 = a2  c1 = c1  c2 = c2  m1 = m1  m2 = m2  m3 = m3
    Courses = {c1, c2}
    Modules = {m1, m2, m3}
    Admins = {a1, a2}
    MaxTime = 1
    MaxDbFaults = 1
INVARIANTS TypeOK OrdersAreContiguous
CHECK_DEADLOCK FALSE
