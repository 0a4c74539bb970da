CONSTANTS
    MaxSignals = 1
    MaxPolls = 2
    MaxTouches = 1
SPECIFICATION MainLiveSpec
INVARIANTS
    MainTypeOK
    ServedWithModel
PROPERTIES
    StartEnds
    SignalExits
    ManageableSent
CHECK_DEADLOCK FALSE
