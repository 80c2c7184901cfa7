CONSTANTS
    Pins <- MCPins
    PinLen <- MCPinLen
    MaxRetries = 2
    MaxTokens = 3
    EnablePowerOnReset = TRUE
    NoPin = NoPin
    NoValue = NoValue
    NoInfo = NoInfo
    Lossy = TRUE
    Hotplug = TRUE
    Inputs <- MCInputs
    VidPidInputs <- MCVidPidInputs

SPECIFICATION Spec

INVARIANT PinPolicyEnforcedLocally

CHECK_DEADLOCK FALSE
