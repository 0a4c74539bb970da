CONSTANTS
    Param <- TwoParam
    PID = PID
    Value = {v1, v2}
    Lower <- MCLower
    Partner <- MCPartner
    DefaultPartner = dflt
    Firmware = {fw1}
    Generic <- TwoGeneric
    Device <- NoDevice
    IoOutcomes = {TRUE}
    None = None
    Dash = Dash
    NoConfig = NoConfig
    NoRec = NoRec
    NoCall = NoCall
    Free = Free
    k1 = k1
    k2 = k2
    v1 = v1
    v2 = v2
    V2 = V2
    comcast = comcast
    dflt = dflt
    fw1 = fw1
    fw2 = fw2
SPECIFICATION Spec
PROPERTY
    NewPartnerLoaded
