CONSTANTS
    m0 = m0
    m1 = m1
    m2 = m2
    k1 = k1
    Inbounds = {m0, m1, m2}
    Closers = {k1}
    Earlier = {m0}
    Tagged = {m0, m1}
    Sessions = {"old", "chat", "other"}
    Chats <- MCChats
    NoRun = noRun
    MaxPending = 2
    Wait = 1
    Ttl = 2
    Attempts = 2
    MaxTime = 2
    MaxFaults = 2
SPECIFICATION Spec
INVARIANTS OneAskPerSession PendingIsBounded NothingLeftBehind ReplyAnswersLatest
PROPERTY IsLedger
CHECK_DEADLOCK FALSE
