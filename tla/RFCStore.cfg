CONSTANTS
    Key <- MCKey
    AccountId = AccountId
    NonPersistent <- MCNonPersistent
    Value = {v1, Unknown}
    Unknown = Unknown
    Lower <- MCLower
    Defaults <- MCDefaults
    Patterns <- MCPatterns
    AccountIds = {v1}
    IoOutcomes = {TRUE, FALSE}
    LoadOutcomes = {TRUE, FALSE}
    None = None
    Nothing = Nothing
    NotLoaded = NotLoaded
    k1 = k1
    np = np
    v1 = v1
SPECIFICATION Spec
INVARIANTS
    FilesMatch
    RunOutcome
    LocalMerged
