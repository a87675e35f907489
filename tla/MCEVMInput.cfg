CONSTANTS
    a1 = a1
    a2 = a2
    p1 = p1
    post = post
    none = none
    Addrs <- MCAddrs
    Payloads <- MCPayloads
    PostExecPayload = post
    NoValue = none
    U256Fields <- MCU256Fields
    H160Fields <- MCH160Fields
    UnsupportedFields <- MCUnsupportedFields
    StateIdxs = {0, 1}
    Distances = {0, 1}
    NBytes = 2
    ByteBase = 2

SPECIFICATION Spec

PROPERTIES
    SkippedLeavesInputUnchanged
    CallValueBelowHalfWidth
    MutationTouchesOneGatedField
