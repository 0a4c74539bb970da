CONSTANTS
    ethernet = ethernet
    bluetooth = bluetooth
    Table = {ethernet, bluetooth}
    Order <- MCLocked
    Stepped = {bluetooth}
    Locked = {ethernet, bluetooth}
    Cleared = {ethernet, bluetooth}
    MaxEntries = 2
    QueryOutcomes = {TRUE, FALSE}
SPECIFICATION LiveSpec
INVARIANT
    Rebroadcast
PROPERTY
    CatchesUp
