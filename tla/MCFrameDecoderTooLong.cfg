CONSTANTS
    LengthFields <- OnlyHTLV
    Base = 2
    UintBytes = 2
    UintMod = 7
    MaxPacketSize = 2
    crc16_h <- Same
    crc16_l <- Same
    ByteXor <- XorBytes
    MaxChunk = 4
    MaxFed = 11
    MaxFrames = 2
SPECIFICATION Spec
INVARIANT TooLongFrameDiscarded
CHECK_DEADLOCK FALSE
