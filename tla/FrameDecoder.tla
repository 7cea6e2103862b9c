---------------------------- MODULE FrameDecoder ----------------------------
(***************************************************************************)
(* The length-field frame decoder of one connection of gray                *)
(* (ginterceptor/framedecoder.go): it is fed the bytes of each read, keeps *)
(* them in d.in, and cuts the stream into frames.                          *)
(*                                                                         *)
(* One step is one turn of the loop in Decode, that is one call of decode, *)
(* which looks at a temporary buffer over d.in.  A byte has Base values    *)
(* (256 in the program), so that a 2-byte length field over a small base   *)
(* stands for the wide ones; a length field of eight bytes is signed, and  *)
(* int64 arithmetic wraps at the eighth power of Base.                     *)
(***************************************************************************)
EXTENDS Integers, Sequences, SequencesExt

CONSTANTS
    LengthFields,  \* the giface.LengthField records to consider
    Base,          \* number of values of a byte
    MaxChunk,      \* bound: bytes of one read
    MaxFed,        \* bound: bytes read on the connection
    MaxFrames      \* bound: frames of one call, when one of length zero is among them

Byte == 0..(Base - 1)

ASSUME BaseAssumption == Base \in Nat /\ Base > 1
ASSUME BoundAssumption == MaxChunk \in Nat /\ MaxFed \in Nat /\ MaxFrames \in Nat \ {0}
ASSUME LengthFieldAssumption ==
    \A f \in LengthFields :
        /\ f.MaxFrameLength \in Nat /\ f.LengthFieldOffset \in Nat
        /\ f.LengthFieldLength \in Nat /\ f.LengthAdjustment \in Int
        /\ f.InitialBytesToStrip \in Nat /\ f.Order \in {"big", "little"}

VARIABLES
    lf,              \* the LengthField the decoder was made with
    in,              \* d.in
    discarding,      \* d.discardingTooLongFrame
    bytesToDiscard,  \* d.bytesToDiscard
    pc,              \* "idle", "decode" (inside Decode) or "panic"
    resp,            \* frames cut by the current call of Decode
    out,             \* frames returned by the calls before it
    fed,             \* history: all the bytes read
    cuts,            \* history: offsets in fed at which in was cut
    tooLong          \* history: a frame exceeded MaxFrameLength

decoderVars == <<in, discarding, bytesToDiscard, pc, resp, out>>
historyVars == <<fed, cuts, tooLong>>
vars == <<lf, decoderVars, historyVars>>

LengthFieldEndOffset == lf.LengthFieldOffset + lf.LengthFieldLength

\* NewFrameDecoder.
Init ==
    /\ lf \in LengthFields
    /\ in = <<>>
    /\ discarding = FALSE
    /\ bytesToDiscard = 0
    /\ pc = "idle"
    /\ resp = <<>> /\ out = <<>>
    /\ fed = <<>> /\ cuts = <<0>> /\ tooLong = FALSE

-----------------------------------------------------------------------------
(* The length of a frame.                                                  *)

Word == (Base * Base * Base * Base) * (Base * Base * Base * Base)

\* int64: two's complement.
Wrap(x) == ((x + (Word \div 2)) % Word) - (Word \div 2)

\* The value of the bytes of the length field, which is signed when it has eight.
getUnadjustedFrameLength(bytes, order) ==
    LET d == IF order = "little" THEN Reverse(bytes) ELSE bytes
        short(i) == d[i] * Base + d[i + 1]
        int(i)   == short(i) * (Base * Base) + short(i + 2)
    IN  CASE Len(bytes) = 1 -> d[1]
          [] Len(bytes) = 2 -> short(1)
          [] Len(bytes) = 3 -> short(1) * Base + d[3]
          [] Len(bytes) = 4 -> int(1)
          [] Len(bytes) = 8 -> Wrap(int(1) * (Base * Base * Base * Base) + int(5))

LengthBytes(s) ==
    SubSeq(s, lf.LengthFieldOffset + 1, lf.LengthFieldOffset + lf.LengthFieldLength)

UnadjustedLength(s) == getUnadjustedFrameLength(LengthBytes(s), lf.Order)

\* The length of the frame at the start of s, header included.
FrameLength(s) == Wrap(UnadjustedLength(s) + lf.LengthAdjustment + LengthFieldEndOffset)

\* uint64(frameLength) > d.MaxFrameLength: a negative length is a huge one.
Exceeds(s) == FrameLength(s) < 0 \/ FrameLength(s) > lf.MaxFrameLength

-----------------------------------------------------------------------------
(* decode.                                                                 *)

\* discardingTooLongFrameFunc drops what it can from the temporary buffer.
Skip ==
    IF ~discarding THEN 0
    ELSE IF bytesToDiscard < Len(in) THEN bytesToDiscard ELSE Len(in)

Buffer == SubSeq(in, Skip + 1, Len(in))

\* failIfNecessary: discard mode ends when nothing is left to discard.
AfterDiscard ==
    /\ bytesToDiscard' = bytesToDiscard - Skip
    /\ discarding' = (discarding /\ bytesToDiscard - Skip # 0)

\* Decode appends the bytes of one read to d.in and starts its loop.
Decode(buff) ==
    /\ pc = "idle"
    /\ Len(fed) + Len(buff) <= MaxFed
    /\ in' = in \o buff
    /\ pc' = "decode"
    /\ fed' = fed \o buff
    /\ UNCHANGED <<lf, discarding, bytesToDiscard, resp, out, cuts, tooLong>>

\* decode returned nil: Decode returns the frames of this call.
ReturnFrames ==
    /\ pc' = "idle"
    /\ out' = out \o resp
    /\ resp' = <<>>

\* A panic unwinds Decode; the frames of this call are lost.
Panic ==
    /\ pc' = "panic"
    /\ resp' = <<>>
    /\ UNCHANGED out

HalfHeader ==
    /\ pc = "decode"
    /\ Len(Buffer) < LengthFieldEndOffset
    /\ AfterDiscard
    /\ ReturnFrames
    /\ UNCHANGED <<lf, in, fed, cuts, tooLong>>

\* Guard of everything after the half-header test.
HeaderRead == pc = "decode" /\ Len(Buffer) >= LengthFieldEndOffset

Supported == lf.LengthFieldLength \in {1, 2, 3, 4, 8}

UnsupportedLength ==
    /\ HeaderRead
    /\ ~Supported
    /\ AfterDiscard
    /\ Panic
    /\ UNCHANGED <<lf, in, fed, cuts, tooLong>>

failOnNegativeLengthField ==
    /\ HeaderRead /\ Supported
    /\ UnadjustedLength(Buffer) < 0
    /\ AfterDiscard
    /\ Panic
    /\ UNCHANGED <<lf, in, fed, cuts, tooLong>>

LengthRead == HeaderRead /\ Supported /\ UnadjustedLength(Buffer) >= 0

\* What of the frame at the start of the buffer has not arrived: a difference of int64.
Missing == Wrap(FrameLength(Buffer) - Len(Buffer))

\* The frame is dropped from the temporary buffer, never from d.in; what has not
\* arrived is left to discard mode. in.Next of a negative length panics, but the
\* difference may have wrapped to a positive one before.
exceededFrameLength ==
    /\ LengthRead /\ Exceeds(Buffer)
    /\ \/ /\ Missing >= 0
          /\ bytesToDiscard' = Missing
          /\ discarding' = (Missing # 0)
          /\ ReturnFrames
       \/ /\ Missing < 0 /\ FrameLength(Buffer) >= 0
          /\ AfterDiscard
          /\ ReturnFrames
       \/ /\ Missing < 0 /\ FrameLength(Buffer) < 0
          /\ AfterDiscard
          /\ Panic
    /\ tooLong' = TRUE
    /\ UNCHANGED <<lf, in, fed, cuts>>

\* Mutant of HalfFrame: a frame that is just complete is held back.
HalfFrame_orEqual ==
    /\ LengthRead /\ ~Exceeds(Buffer)
    /\ Len(Buffer) <= FrameLength(Buffer)
    /\ AfterDiscard
    /\ ReturnFrames
    /\ UNCHANGED <<lf, in, fed, cuts, tooLong>>

\* Mutant of HalfFrame: the loop tries again instead of returning.
HalfFrame_retry ==
    /\ LengthRead /\ ~Exceeds(Buffer)
    /\ Len(Buffer) < FrameLength(Buffer)
    /\ UNCHANGED vars

HalfFrame ==
    /\ LengthRead /\ ~Exceeds(Buffer)
    /\ Len(Buffer) < FrameLength(Buffer)
    /\ AfterDiscard
    /\ ReturnFrames
    /\ UNCHANGED <<lf, in, fed, cuts, tooLong>>

FrameComplete == LengthRead /\ ~Exceeds(Buffer) /\ Len(Buffer) >= FrameLength(Buffer)

failOnFrameLengthLessThanInitialBytesToStrip ==
    /\ FrameComplete
    /\ lf.InitialBytesToStrip > FrameLength(Buffer)
    /\ AfterDiscard
    /\ Panic
    /\ UNCHANGED <<lf, in, fed, cuts, tooLong>>

\* A frame of length zero is met again by the next turn, which is bounded.
Bounded == FrameLength(Buffer) = 0 => Len(resp) < MaxFrames

\* Mutant of DecodeFrame: the stripped bytes are not counted.
DecodeFrame_noStrip ==
    /\ FrameComplete /\ Bounded
    /\ lf.InitialBytesToStrip <= FrameLength(Buffer)
    /\ LET arr == SubSeq(Buffer, lf.InitialBytesToStrip + 1, FrameLength(Buffer))
           size == Len(arr)
       IN  /\ resp' = Append(resp, arr)
           /\ in' = SubSeq(in, size + 1, Len(in))
           /\ cuts' = Append(cuts, Last(cuts) + size)
    /\ AfterDiscard
    /\ UNCHANGED <<lf, pc, out, fed, tooLong>>

\* A frame: decode strips and copies it, Decode cuts it off the front of d.in.
DecodeFrame ==
    /\ FrameComplete /\ Bounded
    /\ lf.InitialBytesToStrip <= FrameLength(Buffer)
    /\ LET arr == SubSeq(Buffer, lf.InitialBytesToStrip + 1, FrameLength(Buffer))
           size == Len(arr) + lf.InitialBytesToStrip
       IN  /\ resp' = Append(resp, arr)
           /\ in' = SubSeq(in, size + 1, Len(in))
           /\ cuts' = Append(cuts, Last(cuts) + size)
    /\ AfterDiscard
    /\ UNCHANGED <<lf, pc, out, fed, tooLong>>

decode ==
    \/ HalfHeader
    \/ UnsupportedLength
    \/ failOnNegativeLengthField
    \/ exceededFrameLength
    \/ HalfFrame
    \/ failOnFrameLengthLessThanInitialBytesToStrip
    \/ DecodeFrame

-----------------------------------------------------------------------------
Chunks == UNION {[1..k -> Byte] : k \in 1..MaxChunk}

Next ==
    \/ \E buff \in Chunks : Decode(buff)
    \/ decode

Spec == Init /\ [][Next]_vars

\* The reader goroutine runs; nothing is assumed of the peer.
FairSpec == Spec /\ WF_vars(decode)

-----------------------------------------------------------------------------
(* Properties.                                                             *)

\* Type invariant of the decoder.
TypeOK ==
    /\ lf \in LengthFields
    /\ in \in Seq(Byte) /\ fed \in Seq(Byte)
    /\ discarding \in BOOLEAN /\ tooLong \in BOOLEAN
    /\ bytesToDiscard \in Nat
    /\ pc \in {"idle", "decode", "panic"}
    /\ resp \in Seq(Seq(Byte)) /\ out \in Seq(Seq(Byte))
    /\ cuts \in Seq(Nat) /\ cuts # <<>>

From(i) == SubSeq(fed, i + 1, Len(fed))
Frames == out \o resp

\* As long as no frame has been too long, the frames tile the stream whatever
\* reads it arrived in: each frame starts where the one before it ended, has the
\* length its own header announces, and is delivered once, in order, without the
\* stripped bytes; d.in is exactly what follows the last of them. (When decode
\* panics, the frames of the current call are dropped.)
FramesTile ==
    ~tooLong /\ pc # "panic" =>
        /\ Len(cuts) = Len(Frames) + 1
        /\ in = From(Last(cuts))
        /\ \A i \in 1..Len(Frames) :
              /\ cuts[i + 1] = cuts[i] + FrameLength(From(cuts[i]))
              /\ Frames[i] = SubSeq(fed, cuts[i] + lf.InitialBytesToStrip + 1, cuts[i + 1])

\* Between two reads no complete frame is held back in d.in.
NothingWithheld ==
    ~tooLong /\ pc = "idle" =>
        \/ in = <<>>
        \/ Len(in) < LengthFieldEndOffset
        \/ Len(in) < FrameLength(in)

\* Discard mode is on exactly while bytes are left to discard, and only after a frame
\* was too long; and whatever it skips, it skips in the temporary buffer: d.in is all of
\* the stream from the last cut on, a too long frame included, which is why the decoder
\* meets the frame again (TooLongFrameDiscarded) and may never get past it.
DiscardMode ==
    /\ discarding <=> bytesToDiscard > 0
    /\ discarding => tooLong
    /\ in = From(Last(cuts))

\* Decode meets a frame of length zero, as a length field admits whose length counts
\* the header: with nothing to strip it is delivered without d.in getting shorter.
Looping ==
    /\ FrameComplete /\ ~discarding
    /\ FrameLength(Buffer) = 0 /\ lf.InitialBytesToStrip = 0

\* Decode returns or panics, so that the lock of the decoder is released and the
\* reader goes on to the next read, whatever bytes it was given, with one exception:
\* once it meets a frame of length zero, with nothing to strip, it never returns.
DecodeReturns ==
    /\ (pc = "decode") ~> (pc # "decode" \/ Looping)
    /\ [](Looping => []Looping)

\* Offset of the first frame after the one at i.
NextFrame(i) == i + FrameLength(From(i))

\* A too long frame at the head of the stream is skipped ("directly discard the
\* current data packet", exceededFrameLength): once it has been read entirely the
\* frame behind it, when it is a legal one and complete, is the first delivered.
\* (In the code only the temporary buffer is skipped, and d.in keeps the frame.)
TooLongFrameDiscarded ==
    /\ pc = "idle"
    /\ Len(fed) >= LengthFieldEndOffset /\ Exceeds(fed)
    /\ Len(From(NextFrame(0))) >= LengthFieldEndOffset
    /\ ~Exceeds(From(NextFrame(0)))
    /\ Len(fed) >= NextFrame(NextFrame(0))
    => /\ out # <<>>
       /\ out[1] = SubSeq(fed, NextFrame(0) + lf.InitialBytesToStrip + 1, NextFrame(NextFrame(0)))
=============================================================================
