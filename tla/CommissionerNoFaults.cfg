CONSTANTS
    Pins <- MCPins
    PinLen <- MCPinLen
    MaxRetries = 2
    MaxTokens = 3
    EnablePowerOnReset = TRUE
    NoPin = NoPin
    NoValue = NoValue
    NoInfo = NoInfo
    Lossy = FALSE
    Hotplug = TRUE
    Inputs <- MCInputs
    VidPidInputs <- MCVidPidInputs

SPECIFICATION Spec

INVARIANT InfoPinCurrent

CHECK_DEADLOCK FALSE
