------------------------------ MODULE Decoders ------------------------------
(***************************************************************************)
(* The decoders of gray (gdecoder), which take the fields of a message out *)
(* of a frame that FrameDecoder has cut with their length field, and the   *)
(* packers (gpack) a sender uses.  A uint32 has UintBytes bytes.           *)
(***************************************************************************)
EXTENDS FrameDecoder

CONSTANTS
    UintBytes,        \* bytes of a uint32: 4
    UintMod,          \* the modulus of uint32 arithmetic: 2^32
    MaxPacketSize,    \* GlobalObject.MaxPacketSize: 4096
    crc16_h, crc16_l, \* the tables of crc.go, from bytes to bytes
    ByteXor(_, _)       \* the exclusive or of two bytes

ASSUME UintAssumption ==
    /\ UintBytes \in 1..4
    /\ UintMod \in Nat /\ UintMod > 2 * UintBytes
    /\ MaxPacketSize \in Nat
ASSUME TableAssumption == crc16_h \in [Byte -> Byte] /\ crc16_l \in [Byte -> Byte]

MaxUint8 == Base - 1
MaxUint32 == Base^UintBytes - 1

-----------------------------------------------------------------------------
(* The length fields: GetLengthField of each decoder.                      *)

Field(max, offset, length, adjustment, strip, order) ==
    [MaxFrameLength |-> max, LengthFieldOffset |-> offset,
     LengthFieldLength |-> length, LengthAdjustment |-> adjustment,
     InitialBytesToStrip |-> strip, Order |-> order]

TLVField == Field(MaxUint32 + 2 * UintBytes, UintBytes, UintBytes, 0, 0, "big")

\* Mutant of LTVField: the tag behind the length is forgotten.
LTVField_noAdjustment ==
    Field(MaxUint32 + 2 * UintBytes, 0, UintBytes, 0, 0, "little")

LTVField == Field(MaxUint32 + 2 * UintBytes, 0, UintBytes, UintBytes, 0, "little")
HTLVField == Field(MaxUint8 + 4, 2, 1, 2, 0, "big")

-----------------------------------------------------------------------------
(* Messages and packers.                                                   *)

\* The message the reader makes of a frame.
NewMessage(data) == [ID |-> 0, DataLen |-> Len(data), Data |-> data]

\* binary.Write and binary.Read of a uint32.
Weight == <<1, Base, Base * Base, Base * Base * Base>>
Bytes(x, order) ==
    LET little == [i \in 1..UintBytes |-> (x \div Weight[i]) % Base]
    IN  IF order = "little" THEN little ELSE Reverse(little)

Uint32(bytes, order) == getUnadjustedFrameLength(bytes, order)

\* DataPack.Pack and DataPackLtv.Pack.
PackTLV(m) == Bytes(m.ID, "big") \o Bytes(m.DataLen, "big") \o m.Data
PackLTV(m) == Bytes(m.DataLen, "little") \o Bytes(m.ID, "little") \o m.Data

\* How a peer lays out a HTLV frame; gray has no packer for it.
PackHTLV(m) == <<m.Head, m.Funcode, m.Length>> \o m.Body \o m.Crc

First(data) == SubSeq(data, 1, UintBytes)
Second(data) == SubSeq(data, UintBytes + 1, 2 * UintBytes)

\* Unpack reads the header only, and refuses large messages.
TooLarge == [ID |-> -1]
Header(id, length) ==
    IF MaxPacketSize > 0 /\ length > MaxPacketSize
      THEN TooLarge
      ELSE [ID |-> id, DataLen |-> length]

UnpackTLV(data) == Header(Uint32(First(data), "big"), Uint32(Second(data), "big"))
UnpackLTV(data) == Header(Uint32(Second(data), "little"), Uint32(First(data), "little"))

-----------------------------------------------------------------------------
(* The decoders.  A decoder may panic.                                     *)

TLV_HEADER_SIZE == 2 * UintBytes
LTV_HEADER_SIZE == 2 * UintBytes
HEADER_SIZE == 5
Panicked == [ID |-> -1]

\* A message whose value is data[8:8+length]: a sum of uint32, which may wrap.
Decoded(tag, length, data) ==
    LET end == (TLV_HEADER_SIZE + length) % UintMod
    IN  IF end \in TLV_HEADER_SIZE..Len(data)
          THEN [ID |-> tag, DataLen |-> length, Data |-> SubSeq(data, TLV_HEADER_SIZE + 1, end)]
          ELSE Panicked

TLVdecode(data) ==
    Decoded(Uint32(First(data), "big"), Uint32(Second(data), "big"), data)

LTVdecode(data) ==
    Decoded(Uint32(Second(data), "little"), Uint32(First(data), "little"), data)

\* The CRC16 of crc.go, a byte at a time; the two bytes it returns.
GetCrC(buff) ==
    LET step(c, b) == LET pos == ByteXor(c.low, b)
                      IN  [low |-> ByteXor(c.hi, crc16_h[pos]), hi |-> crc16_l[pos]]
        crc == FoldLeft(step, [low |-> MaxUint8, hi |-> MaxUint8], buff)
    IN  <<crc.low, crc.hi>>

CheckCRC(src, crc) == GetCrC(src) = crc

\* With a wrong CRC decode returns nil, which Intercept dereferences.
HTLVdecode(data) ==
    LET n == Len(data)
        m == [ID |-> data[2], Head |-> data[1], Funcode |-> data[2], Length |-> data[3],
              Body |-> SubSeq(data, 4, n - 2), Crc |-> SubSeq(data, n - 1, n)]
    IN  IF CheckCRC(SubSeq(data, 1, n - 2), m.Crc) THEN m ELSE Panicked

\* Intercept of each decoder: short data is passed on as it is.
InterceptTLV(msg) == IF Len(msg.Data) < TLV_HEADER_SIZE THEN msg ELSE TLVdecode(msg.Data)
InterceptLTV(msg) == IF Len(msg.Data) < LTV_HEADER_SIZE THEN msg ELSE LTVdecode(msg.Data)
InterceptHTLV(msg) == IF Len(msg.Data) < HEADER_SIZE THEN msg ELSE HTLVdecode(msg.Data)

-----------------------------------------------------------------------------
(* Properties.                                                             *)

\* What a sender has packed arrives: the fields that the interceptor takes out of a
\* frame, packed again, are that frame, and the length it announces is that of its
\* value, for all three layouts and however the stream was divided into reads; Unpack
\* of the frame reads the same header, unless it refuses the length. (Frames of 2^32
\* bytes or more, and those with a wrong CRC, make the decoder panic.)
DecodedAsSent ==
    ~tooLong => \A i \in 1..Len(Frames) :
        LET frame == Frames[i]
            m == CASE lf = TLVField -> InterceptTLV(NewMessage(frame))
                   [] lf = LTVField -> InterceptLTV(NewMessage(frame))
                   [] lf = HTLVField -> InterceptHTLV(NewMessage(frame))
                   [] OTHER -> Panicked
            header == IF lf = TLVField THEN UnpackTLV(frame) ELSE UnpackLTV(frame)
        IN  /\ lf \in {TLVField, LTVField} /\ Len(frame) < UintMod =>
                  /\ frame = IF lf = TLVField THEN PackTLV(m) ELSE PackLTV(m)
                  /\ m.DataLen = Len(m.Data)
                  /\ header \in {TooLarge, [ID |-> m.ID, DataLen |-> m.DataLen]}
            /\ lf = HTLVField /\ m # Panicked =>
                  frame = PackHTLV(m) /\ m.Length = Len(m.Body)
=============================================================================
