-------------------------- MODULE MCFrameDecoder ----------------------------
(* TLC instance of FrameDecoder and Decoders over one-bit bytes: the 4-byte *)
(* fields of the TLV and LTV decoders become 2-byte fields (values 0..3),   *)
(* MaxUint8 becomes 1.                                                      *)
EXTENDS Decoders, Bitwise

\* A user's length field: the value only; the length counts the header too.
ValueOnly == Field(3 + 4, 2, 2, 0, 4, "big")
TotalLength == Field(3, 0, 2, -2, 1, "big")

\* The same with nothing stripped: "if Length counts Tag+Length+Value" (tlvdecoder.go),
\* and one that counts a byte too many, so that a frame may have the length -1.
HeaderCounted == Field(3, 0, 2, -2, 0, "big")
Miscounted == Field(3, 0, 2, -3, 0, "big")

\* A signed 8-byte length, and a width decode does not support.
Signed == Field(9, 0, 8, 0, 0, "big")
Unsupported == Field(9, 0, 5, 0, 0, "big")

AllFields == {TLVField, LTVField, HTLVField, ValueOnly, TotalLength, HeaderCounted,
              Miscounted, Signed, Unsupported}
OnlyHTLV == {HTLVField}

\* A CRC of two bits in which a difference in a byte is never lost.
Same == [b \in Byte |-> b]

XorBytes(a, b) == a ^^ b
=============================================================================
