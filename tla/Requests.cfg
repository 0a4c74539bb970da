CONSTANTS
    Value = {"v1", "v2"}
    Initial = "v1"
    MaxRetry = 1
    MaxBusy = 2
    Ask <- SomeAsk
SPECIFICATION Spec
INVARIANTS
    AnswerTells
    RefusedUntouched
    ReadsLast
    Served
    NoCircle
PROPERTIES
    BootOwned
    ServiceSpec
