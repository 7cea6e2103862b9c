CONSTANTS
    LengthFields <- AllFields
    Base = 2
    UintBytes = 2
    UintMod = 7
    MaxPacketSize = 2
    crc16_h <- Same
    crc16_l <- Same
    ByteXor <- XorBytes
    MaxChunk = 4
    MaxFed = 9
    MaxFrames = 2
SPECIFICATION FairSpec
INVARIANTS
    FramesTile
    NothingWithheld
    DecodedAsSent
PROPERTY DecodeReturns
CHECK_DEADLOCK FALSE
