CONSTANTS
    webpa = webpa
    http = http
    update = update
    Thread = {webpa, http, update}
    Scope <- MCScope
    Calls <- MCCalls
SPECIFICATION Spec
INVARIANTS
    TypeOK
    Apart
    NoDeadlock
    InOrder
SYMMETRY Symmetric
CHECK_DEADLOCK FALSE
