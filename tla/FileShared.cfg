\* Two accounts of the group and root, on a shared record whose lock may need healing.
CONSTANTS
    w1 = w1
    w2 = w2
    w3 = w3
    operator = operator
    agent = agent
    root = root
    e1 = e1
    Writers = {w1, w2, w3}
    Account <- AllAccounts
    RootAccount = root
    Edits = {}
    SharedRecord = TRUE
    Attempts = 4
    Legacy = Legacy
    NoLock = NoLock
SPECIFICATION Spec
INVARIANTS TypeOK LossNeedsTwoLocks 
CHECK_DEADLOCK FALSE
