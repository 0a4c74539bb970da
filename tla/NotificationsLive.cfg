CONSTANTS
    Pusher = {update, request}
    Client = parodus
    Note = {n1, n2}
    None = None
SPECIFICATION LiveSpec
INVARIANTS
    Drained
    OnePlace
PROPERTIES
    PushEnds
    StopHeard
CHECK_DEADLOCK FALSE
