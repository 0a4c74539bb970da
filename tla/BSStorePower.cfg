CONSTANTS
    Param <- OneParam
    PID = PID
    Value = {v1}
    Lower <- MCLower
    Partner <- MCPartner
    DefaultPartner = dflt
    Firmware = {fw1}
    Generic <- OneGeneric
    Device <- NoDevice
    IoOutcomes = {TRUE, FALSE}
    None = None
    Dash = Dash
    NoConfig = NoConfig
    NoRec = NoRec
    NoCall = NoCall
    Free = Free
    k1 = k1
    k2 = k2
    v1 = v1
    v2 = v2
    V2 = V2
    comcast = comcast
    dflt = dflt
    fw1 = fw1
    fw2 = fw2
SPECIFICATION SpecPowerLoss
INVARIANT
    MarkedNotWebPa
    OverridesSaved
    CacheSaved
PROPERTY
    PolicySpec
