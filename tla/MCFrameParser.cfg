\* Intact streams: every way to cut them into pieces of at most 40 bytes.
SPECIFICATION FairSpec
CONSTANTS
    Base = 32
    Preamble = 10
    ProtocolType = 27
    BlockSize = 2
    Encipher <- MCEncipher
    Decipher <- MCDecipher
    AuthId <- MCAuthId
    Messages <- MCMessages
    Plans <- IntactPlans
    MaxRead = 40
INVARIANT
    NoFrameLeftBehind MessagesIntact
PROPERTIES
    ImplementsChannel
    AllDelivered
CHECK_DEADLOCK FALSE
