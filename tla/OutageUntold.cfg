SPECIFICATION Spec
CONSTANTS
    h1 = h1
    h2 = h2
    h3 = h3
    None = None
    Ok = "ok"
    Codes = {"graph_lock_timeout", "graph_write_failed"}
    Hooks <- MCHooks
INVARIANT OutageIsTold
SYMMETRY HookSymmetry
CHECK_DEADLOCK FALSE
