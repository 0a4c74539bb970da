SPECIFICATION Spec
CONSTANTS
    Value = {v1, v2}
    Empty = empty
    Class <- Profiles
    None = none
PROPERTIES ReportsChange UntoldWasGot
