SPECIFICATION LiveSpec
CONSTANT Faults = {"create", "decline", "handle", "deny", "start", "stop", "crash", "close"}
INVARIANT TypeOK
INVARIANT ReportIsTheChilds
INVARIANT NoAbortUnasked
PROPERTY RelayReaches
CHECK_DEADLOCK FALSE
