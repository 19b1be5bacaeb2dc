\* Three calls of one account in a private directory, beside an editor.
CONSTANTS
    w1 = w1
    w2 = w2
    w3 = w3
    operator = operator
    agent = agent
    root = root
    e1 = e1
    Writers = {w1, w2, w3}
    Account <- OneAccount
    RootAccount = root
    Edits = {e1}
    SharedRecord = FALSE
    Attempts = 4
    Legacy = Legacy
    NoLock = NoLock
SPECIFICATION FairSpec
INVARIANT NoLostUpdate
PROPERTIES IsAtomicStore EditLostOnlyInFinalWindow EveryCallReturns
CHECK_DEADLOCK FALSE
