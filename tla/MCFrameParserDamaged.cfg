\* Refuted: a damaged frame hides the intact one behind it.
SPECIFICATION Spec
CONSTANTS
    Base = 32
    Preamble = 10
    ProtocolType = 27
    BlockSize = 2
    Encipher <- MCEncipher
    Decipher <- MCDecipher
    AuthId <- MCAuthId
    Messages <- MCMessages
    Plans <- DamagedPlans
    MaxRead = 40
INVARIANT
    NoFrameLeftBehind
CHECK_DEADLOCK FALSE
