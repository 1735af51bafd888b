SPECIFICATION Spec
CONSTANTS
    i1 = i1  i2 = i2  e1 = e1  e2 = e2  t1 = t1  t2 = t2  t3 = t3  h1 = h1  h2 = h2
    Invites = {i1, i2}
    Emails = {e1, e2}
    Resources = {"platform"}
    Tokens = {t1, t2, t3}
    Calls = {h1, h2}
    MaxInviteFaults = 1
    MaxCalls = 4
SYMMETRY Symmetry
INVARIANTS TypeOK UsedTokenIsDead AnsweredLeavesMark AdmittedIsComplete
PROPERTIES KeepsLedger
CHECK_DEADLOCK FALSE
