SPECIFICATION FairSpec
CONSTANTS
    once = once
    again = again
    other = other
    e1 = e1
    s1 = s1
    s2 = s2
    old = old
    Hooks = {once, again, other}
    Session <- MCSession
    Event <- MCEvent
    Barred = {}
    OldGraph <- MCOldGraph
    NoEvent = NoEvent
    Nobody = Nobody
    MaxNodes = 4
    MaxBytes = 5
    SessionBytes = 1
    CommandBytes = 2
    Share = 2
PROPERTY
    VerdictNotWithheld
CHECK_DEADLOCK FALSE
