SPECIFICATION LiveSpec
CONSTANTS
    m1 = m1  m2 = m2  id1 = id1
    Emails = {m1, m2}
    MailIds = {id1}
    Kinds = {"register", "invitation"}
    MailAttempts = 2
    Scheduled = {"hourlyCleanup", "hackathons"}
    MaxTicks = 1
    JobIds <- SomeJobIds
    MaxStalls = 1
    MaxRedisFaults = 1
    MaxLives = 2
INVARIANTS ShutdownIsQuiet JobsEndForAReason
PROPERTIES MailIsDecided
CHECK_DEADLOCK FALSE
