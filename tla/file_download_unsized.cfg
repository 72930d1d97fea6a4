SPECIFICATION Spec
CONSTANTS
    Size = 2
    MaxLen = 5
    Environments <- Unsized
PROPERTIES
    TrustedWasReceived
