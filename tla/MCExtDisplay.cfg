SPECIFICATION Spec
CONSTANTS
    dp0 = dp0
    dp1 = dp1
    hdmi = hdmi
    dpId = dpId
    hdmiId = hdmiId
    Displays = {dp0, dp1, hdmi}
    Codecs = {dpId, hdmiId}
    Codec <- MCCodec
    NoCodec = nocodec
    Orderly = TRUE
    NotRegistered = notregistered
    Cleared = cleared
INVARIANTS
    OpsFollowCodec
PROPERTY
    LateCodecHeard
