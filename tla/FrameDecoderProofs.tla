------------------------- MODULE FrameDecoderProofs -------------------------
(* Proofs about FrameDecoder, for every set of length fields, every base    *)
(* and every bound, and about the decoders of Decoders fed with its frames. *)
EXTENDS Decoders, SequenceTheorems, TLAPS

\* d.in is what follows the last cut, and every cut lies within the stream, with
\* the header of its frame read.
Suffix ==
    /\ cuts[Len(cuts)] <= Len(fed)
    /\ in = From(cuts[Len(cuts)])
    /\ \A i \in 1..(Len(cuts) - 1) :
          cuts[i] + LengthFieldEndOffset <= Len(fed) /\ cuts[i + 1] <= Len(fed)

\* The two parts of DiscardMode about the mode itself.
DiscardCount == discarding <=> bytesToDiscard > 0
NoDiscard == ~tooLong => ~discarding

IInv == TypeOK /\ DiscardCount /\ NoDiscard /\ Suffix /\ FramesTile

-----------------------------------------------------------------------------
\* The fields of a LengthField.
LEMMA FieldTypes ==
    ASSUME lf \in LengthFields
    PROVE  /\ lf.MaxFrameLength \in Nat /\ lf.LengthFieldOffset \in Nat
           /\ lf.LengthFieldLength \in Nat /\ lf.LengthAdjustment \in Int
           /\ lf.InitialBytesToStrip \in Nat
           /\ LengthFieldEndOffset \in Nat
BY LengthFieldAssumption DEF LengthFieldEndOffset

\* The elements of a piece of a sequence.
LEMMA Piece ==
    ASSUME NEW S, NEW s \in Seq(S), NEW a \in Nat, NEW b \in Int, b <= Len(s)
    PROVE  /\ SubSeq(s, a + 1, b) \in Seq(S)
           /\ Len(SubSeq(s, a + 1, b)) = IF a < b THEN b - a ELSE 0
           /\ \A i \in 1..(b - a) : SubSeq(s, a + 1, b)[i] = s[a + i]
<1>1. \A i \in (a + 1)..b : s[i] \in S
  BY ElementOfSeq
<1>2. QED
  BY <1>1, SubSeqProperties

\* A piece of a piece.
LEMMA PieceOfPiece ==
    ASSUME NEW S, NEW s \in Seq(S), NEW a \in Nat, NEW b \in Nat, NEW c \in Int,
           a <= Len(s), a + c <= Len(s)
    PROVE  SubSeq(SubSeq(s, a + 1, Len(s)), b + 1, c) = SubSeq(s, a + b + 1, a + c)
<1> DEFINE u == SubSeq(s, a + 1, Len(s))
           v == SubSeq(u, b + 1, c)
           w == SubSeq(s, a + b + 1, a + c)
<1>0. Len(s) \in Nat
  BY LenProperties
<1>1. /\ u \in Seq(S) /\ Len(u) = Len(s) - a
      /\ \A i \in 1..(Len(s) - a) : u[i] = s[a + i]
  BY <1>0, Piece
<1>2. /\ v \in Seq(S) /\ Len(v) = IF b < c THEN c - b ELSE 0
      /\ \A i \in 1..(c - b) : v[i] = u[b + i]
  <2>1. c <= Len(u) /\ u \in Seq(S)
    BY <1>0, <1>1
  <2> HIDE DEF u
  <2>2. QED
    BY <2>1, Piece
<1>3. /\ w \in Seq(S) /\ Len(w) = IF a + b < a + c THEN (a + c) - (a + b) ELSE 0
      /\ \A i \in 1..((a + c) - (a + b)) : w[i] = s[(a + b) + i]
  BY Piece, a + b \in Nat, a + c \in Int
<1>4. Len(v) = Len(w)
  BY <1>2, <1>3
<1>5. \A i \in 1..Len(v) : v[i] = w[i]
  BY <1>0, <1>1, <1>2, <1>3
<1>6. QED
  BY <1>2, <1>3, <1>4, <1>5, SeqEqual

\* A piece of the stream does not change when more is read.
LEMMA PieceStable ==
    ASSUME NEW S, NEW s \in Seq(S), NEW t \in Seq(S), NEW a \in Nat, NEW b \in Int,
           b <= Len(s)
    PROVE  SubSeq(s \o t, a + 1, b) = SubSeq(s, a + 1, b)
<1>1. s \o t \in Seq(S) /\ Len(s \o t) = Len(s) + Len(t)
      /\ \A i \in 1..Len(s) : (s \o t)[i] = s[i]
  BY ConcatProperties
<1>2. Len(s) \in Nat /\ Len(t) \in Nat
  BY LenProperties
<1>3. /\ SubSeq(s, a + 1, b) \in Seq(S)
      /\ Len(SubSeq(s, a + 1, b)) = IF a < b THEN b - a ELSE 0
      /\ \A i \in 1..(b - a) : SubSeq(s, a + 1, b)[i] = s[a + i]
  BY Piece
<1>4. /\ SubSeq(s \o t, a + 1, b) \in Seq(S)
      /\ Len(SubSeq(s \o t, a + 1, b)) = IF a < b THEN b - a ELSE 0
      /\ \A i \in 1..(b - a) : SubSeq(s \o t, a + 1, b)[i] = (s \o t)[a + i]
  BY <1>1, <1>2, Piece
<1>5. \A i \in 1..Len(SubSeq(s, a + 1, b)) :
          SubSeq(s, a + 1, b)[i] = SubSeq(s \o t, a + 1, b)[i]
  BY <1>1, <1>2, <1>3, <1>4
<1>6. QED
  BY <1>3, <1>4, <1>5, SeqEqual

LEMMA WordPositive == Word \in Nat /\ Word > 0
<1>1. Base * Base \in Nat /\ Base * Base > 0
  BY BaseAssumption
<1> DEFINE two == Base * Base
<1>2. two * Base \in Nat /\ two * Base > 0
  <2> HIDE DEF two
  <2>1. two \in Nat /\ two > 0
    BY <1>1 DEF two
  <2> QED BY <2>1, BaseAssumption
<1> DEFINE three == two * Base
<1>3. three * Base \in Nat /\ three * Base > 0
  <2>1. three \in Nat /\ three > 0
    BY <1>2
  <2> HIDE DEF three
  <2> QED BY <2>1, BaseAssumption
<1> DEFINE four == three * Base
<1>4. four * four \in Nat /\ four * four > 0
  <2>1. four \in Nat /\ four > 0
    BY <1>3
  <2> HIDE DEF four
  <2> QED BY <2>1
<1>5. QED
  BY <1>4 DEF Word

LEMMA WrapInt == ASSUME NEW x \in Int PROVE Wrap(x) \in Int
<1> DEFINE w == Word
<1>1. w \in Nat /\ w > 0
  BY WordPositive
<1>2. Wrap(x) = ((x + (w \div 2)) % w) - (w \div 2)
  BY DEF Wrap
<1> HIDE DEF w
<1>3. w \div 2 \in Int
  BY <1>1
<1>4. (x + (w \div 2)) % w \in Int
  BY <1>1, <1>3
<1>5. QED
  BY <1>2, <1>3, <1>4

\* The bytes of the length field are an integer, and so is the frame's length.
LEMMA LengthInt ==
    ASSUME lf \in LengthFields, NEW s \in Seq(Byte), Supported,
           LengthFieldEndOffset <= Len(s)
    PROVE  UnadjustedLength(s) \in Int /\ FrameLength(s) \in Int
<1> DEFINE bytes == LengthBytes(s)
           d == IF lf.Order = "little" THEN Reverse(bytes) ELSE bytes
           short(i) == d[i] * Base + d[i + 1]
           int(i)   == short(i) * (Base * Base) + short(i + 2)
<1>1. bytes \in Seq(Byte) /\ Len(bytes) = lf.LengthFieldLength
  <2> DEFINE lo == lf.LengthFieldOffset
             hi == lf.LengthFieldOffset + lf.LengthFieldLength
  <2>1. lo \in Nat /\ hi \in Int /\ hi <= Len(s) /\ hi - lo = lf.LengthFieldLength
        /\ lo < hi
    BY FieldTypes DEF LengthFieldEndOffset, Supported
  <2>2. bytes = SubSeq(s, lo + 1, hi)
    BY DEF LengthBytes
  <2> HIDE DEF lo, hi, bytes
  <2>3. /\ SubSeq(s, lo + 1, hi) \in Seq(Byte)
        /\ Len(SubSeq(s, lo + 1, hi)) = IF lo < hi THEN hi - lo ELSE 0
    BY <2>1, Piece
  <2>4. QED
    BY <2>1, <2>2, <2>3
<1>2. d \in Seq(Byte) /\ Len(d) = Len(bytes)
  <2>1. Reverse(bytes) \in Seq(Byte) /\ Len(Reverse(bytes)) = Len(bytes)
    <3> DEFINE n == Len(bytes)
    <3>1. n \in Nat /\ Reverse(bytes) = [i \in 1..n |-> bytes[(n - i) + 1]]
      BY <1>1, LenProperties DEF Reverse
    <3>2. \A i \in 1..n : bytes[(n - i) + 1] \in Byte
      BY <1>1, <3>1, ElementOfSeq
    <3> HIDE DEF n
    <3>3. QED
      BY <3>1, <3>2 DEF n
  <2>2. QED
    BY <1>1, <2>1
<1>3. \A i \in 1..Len(bytes) : d[i] \in Int
  BY <1>2, ElementOfSeq, BaseAssumption DEF Byte
<1>4. Base \in Int /\ Base * Base \in Int /\ Base * Base * Base * Base \in Int
  BY BaseAssumption
<1>5. \A i \in 1..(Len(bytes) - 1) : short(i) \in Int
  <2> HIDE DEF d
  <2>1. QED
    BY <1>1, <1>3, <1>4, LenProperties, SMTT(60)
<1>6. \A i \in 1..(Len(bytes) - 3) : int(i) \in Int
  <2>1. TAKE i \in 1..(Len(bytes) - 3)
  <2>2. short(i) \in Int /\ short(i + 2) \in Int
    BY <1>1, <1>5, LenProperties
  <2> HIDE DEF short
  <2>3. QED
    BY <1>4, <2>2
<1>7. getUnadjustedFrameLength(bytes, lf.Order) =
        CASE Len(bytes) = 1 -> d[1]
          [] Len(bytes) = 2 -> short(1)
          [] Len(bytes) = 3 -> short(1) * Base + d[3]
          [] Len(bytes) = 4 -> int(1)
          [] Len(bytes) = 8 -> Wrap(int(1) * (Base * Base * Base * Base) + int(5))
  BY DEF getUnadjustedFrameLength
<1>8. UnadjustedLength(s) \in Int
  <2>1. UnadjustedLength(s) = getUnadjustedFrameLength(bytes, lf.Order)
    BY DEF UnadjustedLength
  <2>2. Len(bytes) \in {1, 2, 3, 4, 8}
    BY <1>1 DEF Supported
  <2>3. CASE Len(bytes) = 1
    <3> HIDE DEF d, short, int
    <3> QED BY <1>3, <1>7, <2>1, <2>3
  <2>4. CASE Len(bytes) = 2
    <3> HIDE DEF d, short, int
    <3> QED BY <1>5, <1>7, <2>1, <2>4
  <2>5. CASE Len(bytes) = 3
    <3> HIDE DEF d, short, int
    <3>1. short(1) \in Int /\ d[3] \in Int
      BY <1>3, <1>5, <2>5
    <3>2. short(1) * Base + d[3] \in Int
      BY <1>4, <3>1
    <3> QED BY <1>7, <2>1, <2>5, <3>2
  <2>6. CASE Len(bytes) = 4
    <3> HIDE DEF d, short, int
    <3> QED BY <1>6, <1>7, <2>1, <2>6
  <2>7. CASE Len(bytes) = 8
    <3> HIDE DEF d, short, int
    <3>1. int(1) \in Int /\ int(5) \in Int
      BY <1>6, <2>7
    <3>2. int(1) * (Base * Base * Base * Base) + int(5) \in Int
      BY <1>4, <3>1
    <3>3. Wrap(int(1) * (Base * Base * Base * Base) + int(5)) \in Int
      BY <3>2, WrapInt
    <3> QED BY <1>7, <2>1, <2>7, <3>3
  <2>8. QED
    BY <2>2, <2>3, <2>4, <2>5, <2>6, <2>7
<1>9. FrameLength(s) \in Int
  <2> DEFINE x == UnadjustedLength(s) + lf.LengthAdjustment + LengthFieldEndOffset
  <2>1. x \in Int
    BY <1>8, FieldTypes
  <2>2. FrameLength(s) = Wrap(x)
    BY DEF FrameLength
  <2> HIDE DEF x
  <2>3. QED
    BY <2>1, <2>2, WrapInt
<1>10. QED
  BY <1>8, <1>9

\* The length of a frame depends only on the bytes of its length field.
LEMMA SameLength ==
    ASSUME NEW s, NEW t, LengthBytes(s) = LengthBytes(t)
    PROVE  FrameLength(s) = FrameLength(t)
BY DEF FrameLength, UnadjustedLength

-----------------------------------------------------------------------------
(* What the steps have in common.                                          *)

\* The buffer decode looks at.
LEMMA BufferType ==
    ASSUME TypeOK
    PROVE  /\ Skip \in 0..Len(in) /\ Skip <= bytesToDiscard
           /\ Buffer \in Seq(Byte)
           /\ Len(Buffer) = Len(in) - Skip
           /\ (~discarding => Buffer = in)
<1>1. Len(in) \in Nat /\ in \in Seq(Byte) /\ bytesToDiscard \in Nat
  BY LenProperties DEF TypeOK
<1>2. Skip \in 0..Len(in) /\ Skip <= bytesToDiscard /\ (~discarding => Skip = 0)
  BY <1>1 DEF Skip
<1>3. Buffer \in Seq(Byte) /\ Len(Buffer) = IF Skip < Len(in) THEN Len(in) - Skip ELSE 0
  BY <1>1, <1>2, Piece DEF Buffer
<1>4. ~discarding => Buffer = in
  BY <1>1, <1>2, SubSeqFull DEF Buffer
<1>5. QED
  BY <1>1, <1>2, <1>3, <1>4

\* Discarding from the temporary buffer keeps the discard mode consistent.
LEMMA DiscardStep ==
    ASSUME TypeOK, DiscardCount, AfterDiscard
    PROVE  /\ bytesToDiscard' \in Nat /\ discarding' \in BOOLEAN
           /\ DiscardCount'
           /\ (~discarding => ~discarding')
<1>1. Skip \in Nat /\ bytesToDiscard \in Nat /\ Skip <= bytesToDiscard
  BY BufferType DEF TypeOK
<1>2. /\ bytesToDiscard' = bytesToDiscard - Skip
      /\ discarding' = (discarding /\ bytesToDiscard - Skip # 0)
  BY DEF AfterDiscard
<1>3. bytesToDiscard' \in Nat /\ (bytesToDiscard' > 0 <=> bytesToDiscard - Skip # 0)
  BY <1>1, <1>2
<1>4. discarding' \in BOOLEAN /\ (~discarding => ~discarding')
  BY <1>2
<1>5. bytesToDiscard' > 0 => bytesToDiscard > 0
  BY <1>1, <1>2
<1>6. DiscardCount'
  BY <1>2, <1>3, <1>5, Zenon DEF DiscardCount
<1>7. QED
  BY <1>3, <1>4, <1>6

\* Returning from Decode, or panicking, keeps the frames' types; a return keeps
\* the sequence of all the frames.
LEMMA ReturnStep ==
    ASSUME TypeOK, ReturnFrames \/ Panic
    PROVE  /\ pc' \in {"idle", "decode", "panic"}
           /\ resp' \in Seq(Seq(Byte)) /\ out' \in Seq(Seq(Byte))
           /\ (pc' # "panic" => Frames' = Frames)
<1>1. resp \in Seq(Seq(Byte)) /\ out \in Seq(Seq(Byte)) /\ out \o resp \in Seq(Seq(Byte))
  BY ConcatProperties DEF TypeOK
<1>2. CASE ReturnFrames
  <2>1. resp' = <<>> /\ out' = out \o resp /\ pc' = "idle"
    BY <1>2 DEF ReturnFrames
  <2>2. Frames' = Frames
    BY <1>1, <2>1, ConcatEmptySeq DEF Frames
  <2>3. QED
    BY <1>1, <2>1, <2>2, EmptySeq
<1>3. CASE Panic
  BY <1>1, <1>3, EmptySeq DEF Panic
<1>4. QED
  BY <1>2, <1>3

\* What the headers announce depends only on what was read and where it was cut.
LEMMA SameStream ==
    ASSUME UNCHANGED <<lf, fed, cuts>>
    PROVE  \A i : FrameLength(From(cuts[i]))' = FrameLength(From(cuts[i]))
<1>1. lf' = lf /\ fed' = fed /\ cuts' = cuts
  OBVIOUS
<1>2. QED
  BY <1>1 DEF FrameLength, UnadjustedLength, LengthBytes, LengthFieldEndOffset, From

\* The frames so far tile the stream up to the last cut.
Tiled ==
    /\ Len(cuts) = Len(Frames) + 1
    /\ \A i \in 1..Len(Frames) :
          /\ cuts[i + 1] = cuts[i] + FrameLength(From(cuts[i]))
          /\ Frames[i] = SubSeq(fed, cuts[i] + lf.InitialBytesToStrip + 1, cuts[i + 1])

\* With Suffix, FramesTile is Tiled.
LEMMA TilesIffTiled ==
    ASSUME Suffix
    PROVE  FramesTile <=> (~tooLong /\ pc # "panic" => Tiled)
BY DEF Suffix, FramesTile, Tiled, Last

\* A step that cuts nothing off d.in.
LEMMA NoCutStep ==
    ASSUME IInv, UNCHANGED <<lf, in, fed, cuts>>, ReturnFrames \/ Panic,
           pc = "decode", tooLong' \in BOOLEAN, tooLong => tooLong',
           bytesToDiscard' \in Nat, discarding' \in BOOLEAN,
           DiscardCount', NoDiscard'
    PROVE  IInv'
<1>1. TypeOK'
  BY ReturnStep DEF IInv, TypeOK
<1>2. Suffix'
  BY DEF IInv, Suffix, From, LengthFieldEndOffset
<1>3. FramesTile'
  <2>1. SUFFICES ASSUME ~tooLong', pc' # "panic" PROVE Tiled'
    BY <1>2 DEF FramesTile, Tiled, Suffix, Last
  <2>2. Frames' = Frames /\ ~tooLong
    BY <2>1, ReturnStep DEF IInv
  <2>3. Tiled
    BY <2>2, TilesIffTiled DEF IInv
  <2>4. \A i : FrameLength(From(cuts[i]))' = FrameLength(From(cuts[i]))
    BY SameStream
  <2>5. QED
    BY <2>2, <2>3, <2>4 DEF Tiled
<1>4. QED
  BY <1>1, <1>2, <1>3 DEF IInv

-----------------------------------------------------------------------------
(* Reading.                                                                *)

\* The rest of the stream grows by what is read.
LEMMA RestGrows ==
    ASSUME NEW S, NEW s \in Seq(S), NEW t \in Seq(S), NEW a \in 0..Len(s)
    PROVE  SubSeq(s \o t, a + 1, Len(s \o t)) = SubSeq(s, a + 1, Len(s)) \o t
<1> DEFINE u == SubSeq(s \o t, a + 1, Len(s \o t))
           v == SubSeq(s, a + 1, Len(s))
<1>1. Len(s) \in Nat /\ Len(t) \in Nat /\ a \in Nat
  BY LenProperties
<1>2. s \o t \in Seq(S) /\ Len(s \o t) = Len(s) + Len(t)
      /\ \A i \in 1..(Len(s) + Len(t)) :
            (s \o t)[i] = IF i <= Len(s) THEN s[i] ELSE t[i - Len(s)]
  BY ConcatProperties
<1>3. u \in Seq(S) /\ Len(u) = Len(s) + Len(t) - a
      /\ \A i \in 1..(Len(s) + Len(t) - a) : u[i] = (s \o t)[a + i]
  <2> DEFINE st == s \o t
             m == Len(st)
  <2>1. st \in Seq(S) /\ m = Len(s) + Len(t) /\ m \in Int /\ m <= Len(st)
    BY <1>1, <1>2
  <2> HIDE DEF st, m
  <2>2. /\ SubSeq(st, a + 1, m) \in Seq(S)
        /\ Len(SubSeq(st, a + 1, m)) = IF a < m THEN m - a ELSE 0
        /\ \A i \in 1..(m - a) : SubSeq(st, a + 1, m)[i] = st[a + i]
    BY <1>1, <2>1, Piece
  <2>3. (IF a < m THEN m - a ELSE 0) = Len(s) + Len(t) - a
    BY <1>1, <2>1
  <2>4. u = SubSeq(st, a + 1, m)
    BY DEF st, m
  <2> HIDE DEF u
  <2>5. m - a = Len(s) + Len(t) - a
    BY <2>1
  <2>6. /\ u \in Seq(S) /\ Len(u) = Len(s) + Len(t) - a
        /\ \A i \in 1..(Len(s) + Len(t) - a) : u[i] = st[a + i]
    BY <2>2, <2>3, <2>4, <2>5, Zenon
  <2>7. QED
    BY <2>6 DEF st
<1>4. v \in Seq(S) /\ Len(v) = Len(s) - a
      /\ \A i \in 1..(Len(s) - a) : v[i] = s[a + i]
  <2> HIDE DEF v
  <2>1. /\ v \in Seq(S) /\ Len(v) = (IF a < Len(s) THEN Len(s) - a ELSE 0)
        /\ \A i \in 1..(Len(s) - a) : v[i] = s[a + i]
    BY <1>1, Piece DEF v
  <2>2. QED
    BY <1>1, <2>1
<1>5. v \o t \in Seq(S) /\ Len(v \o t) = Len(v) + Len(t)
      /\ \A i \in 1..(Len(v) + Len(t)) :
            (v \o t)[i] = IF i <= Len(v) THEN v[i] ELSE t[i - Len(v)]
  BY <1>4, ConcatProperties
<1> HIDE DEF u, v
<1>6. Len(u) = Len(v \o t)
  BY <1>1, <1>3, <1>4, <1>5
<1>7. \A i \in 1..Len(u) : u[i] = (v \o t)[i]
  <2>1. TAKE i \in 1..Len(u)
  <2>2. u[i] = (s \o t)[a + i]
    BY <1>3
  <2>3. CASE i <= Len(s) - a
    BY <1>1, <1>2, <1>3, <1>4, <1>5, <2>2, <2>3
  <2>4. CASE i > Len(s) - a
    <3>1. (s \o t)[a + i] = t[(a + i) - Len(s)]
      BY <1>1, <1>2, <1>3, <2>4
    <3>2. (v \o t)[i] = t[i - (Len(s) - a)]
      BY <1>1, <1>3, <1>4, <1>5, <2>4, SMTT(30)
    <3>3. (a + i) - Len(s) = i - (Len(s) - a)
      BY <1>1, <1>3
    <3>4. QED
      BY <2>2, <3>1, <3>2, <3>3
  <2>5. i <= Len(s) - a \/ i > Len(s) - a
    BY <1>1, <1>3
  <2>6. QED
    BY <2>3, <2>4, <2>5, Zenon
<1>8. QED
  BY <1>3, <1>5, <1>6, <1>7, SeqEqual DEF u, v

\* A header that has been read is not changed by reading more.
LEMMA HeaderStable ==
    ASSUME TypeOK, NEW buff \in Seq(Byte), lf' = lf, fed' = fed \o buff,
           NEW c \in Nat, c + LengthFieldEndOffset <= Len(fed)
    PROVE  FrameLength(From(c))' = FrameLength(From(c))
<1> DEFINE lo == lf.LengthFieldOffset
           hi == lf.LengthFieldOffset + lf.LengthFieldLength
           t  == fed \o buff
<1>1. /\ lo \in Nat /\ hi \in Nat /\ fed \in Seq(Byte) /\ Len(fed) \in Nat
      /\ c + hi <= Len(fed)
  BY FieldTypes, LenProperties DEF TypeOK, LengthFieldEndOffset
<1>2. t \in Seq(Byte) /\ Len(t) \in Nat /\ Len(fed) <= Len(t)
  BY <1>1, ConcatProperties, LenProperties
<1> HIDE DEF hi, lo, t
<1>3. SubSeq(SubSeq(t, c + 1, Len(t)), lo + 1, hi) = SubSeq(t, c + lo + 1, c + hi)
  BY <1>1, <1>2, PieceOfPiece
<1>4. SubSeq(SubSeq(fed, c + 1, Len(fed)), lo + 1, hi) = SubSeq(fed, c + lo + 1, c + hi)
  BY <1>1, PieceOfPiece
<1>5. SubSeq(t, c + lo + 1, c + hi) = SubSeq(fed, c + lo + 1, c + hi)
  BY <1>1, PieceStable, c + lo \in Nat, c + hi \in Int DEF t
<1>6. SubSeq(SubSeq(t, c + 1, Len(t)), lo + 1, hi)
        = SubSeq(SubSeq(fed, c + 1, Len(fed)), lo + 1, hi)
  BY <1>3, <1>4, <1>5
<1>7. LengthBytes(From(c))' = LengthBytes(From(c))
  BY <1>6 DEF LengthBytes, From, hi, lo, t
<1>8. LengthFieldEndOffset' = LengthFieldEndOffset
  BY DEF LengthFieldEndOffset
<1>9. QED
  BY <1>7, <1>8 DEF FrameLength, UnadjustedLength

\* The cuts lie within the stream.
LEMMA CutTypes ==
    ASSUME TypeOK, Suffix
    PROVE  /\ Len(cuts) \in Nat /\ Len(cuts) > 0 /\ Len(fed) \in Nat
           /\ \A i \in 1..Len(cuts) : cuts[i] \in Nat /\ cuts[i] <= Len(fed)
<1>1. Len(cuts) \in Nat /\ Len(cuts) > 0 /\ Len(fed) \in Nat
  BY EmptySeq, LenProperties DEF TypeOK
<1>2. \A i \in 1..Len(cuts) : cuts[i] \in Nat
  BY ElementOfSeq DEF TypeOK
<1>3. ASSUME NEW i \in 1..Len(cuts) PROVE cuts[i] <= Len(fed)
  <2>1. CASE i = Len(cuts)
    BY <2>1 DEF Suffix
  <2>2. CASE i < Len(cuts)
    <3>1. i \in 1..(Len(cuts) - 1)
      BY <1>1, <2>2
    <3>2. cuts[i] + LengthFieldEndOffset <= Len(fed)
      BY <3>1 DEF Suffix
    <3>3. LengthFieldEndOffset \in Nat /\ cuts[i] \in Nat
      BY <1>2, FieldTypes DEF TypeOK
    <3>4. QED
      BY <1>1, <3>2, <3>3
  <2>3. QED
    BY <1>1, <2>1, <2>2
<1>4. QED
  BY <1>1, <1>2, <1>3

\* Reading leaves the frames cut so far where they are.
LEMMA ReadStep ==
    ASSUME IInv, NEW buff \in Seq(Byte), Decode(buff)
    PROVE  IInv'
<1>1. /\ lf' = lf /\ cuts' = cuts /\ fed' = fed \o buff /\ in' = in \o buff
      /\ tooLong' = tooLong /\ discarding' = discarding
      /\ bytesToDiscard' = bytesToDiscard
      /\ out' = out /\ resp' = resp /\ pc = "idle" /\ pc' = "decode"
  BY DEF Decode
<1>2. TypeOK /\ Suffix /\ fed \in Seq(Byte) /\ in \in Seq(Byte)
  BY DEF IInv, TypeOK
<1>3. /\ fed' \in Seq(Byte) /\ in' \in Seq(Byte) /\ Len(fed') = Len(fed) + Len(buff)
      /\ Len(fed) <= Len(fed') /\ Len(fed') \in Nat
  BY <1>1, <1>2, ConcatProperties, LenProperties
<1>4. TypeOK'
  BY <1>1, <1>2, <1>3 DEF TypeOK
<1>5. DiscardCount' /\ NoDiscard'
  BY <1>1 DEF IInv, DiscardCount, NoDiscard
<1>6. Suffix'
  <2> DEFINE c == cuts[Len(cuts)]
  <2>1. c \in 0..Len(fed) /\ in = SubSeq(fed, c + 1, Len(fed))
    BY <1>2, CutTypes DEF Suffix, From
  <2> HIDE DEF c
  <2>2. in' = SubSeq(fed', c + 1, Len(fed'))
    BY <1>1, <1>2, <2>1, RestGrows
  <2>3. LengthFieldEndOffset' = LengthFieldEndOffset /\ LengthFieldEndOffset \in Nat
    BY <1>1, <1>2, FieldTypes DEF LengthFieldEndOffset, TypeOK
  <2>4. \A i \in 1..(Len(cuts) - 1) :
          cuts[i] + LengthFieldEndOffset <= Len(fed') /\ cuts[i + 1] <= Len(fed')
    <3>1. TAKE i \in 1..(Len(cuts) - 1)
    <3>2. /\ cuts[i] + LengthFieldEndOffset <= Len(fed)
          /\ cuts[i + 1] <= Len(fed)
      BY <1>2 DEF Suffix
    <3>3. i \in 1..Len(cuts) /\ i + 1 \in 1..Len(cuts) /\ Len(fed) \in Nat
      BY <1>2, CutTypes
    <3>4. cuts[i] \in Nat /\ cuts[i + 1] \in Nat
      BY <1>2, <3>3, CutTypes
    <3>5. cuts[i] + LengthFieldEndOffset <= Len(fed')
      <4>1. cuts[i] + LengthFieldEndOffset \in Int
        BY <2>3, <3>4
      <4>2. QED
        BY <1>3, <3>2, <3>3, <4>1
    <3>6. cuts[i + 1] <= Len(fed')
      BY <1>3, <3>2, <3>3, <3>4
    <3> QED
      BY <3>5, <3>6
  <2>5. cuts[Len(cuts)] <= Len(fed')
    <3>1. /\ Len(cuts) \in 1..Len(cuts) /\ Len(fed) \in Nat
          /\ cuts[Len(cuts)] \in Nat /\ cuts[Len(cuts)] <= Len(fed)
      BY <1>2, CutTypes
    <3> QED
      BY <1>3, <3>1
  <2>6. QED
    BY <1>1, <2>2, <2>3, <2>4, <2>5 DEF Suffix, From, c
<1>7. FramesTile'
  <2>1. SUFFICES ASSUME ~tooLong' PROVE Tiled'
    BY <1>6 DEF FramesTile, Tiled, Suffix, Last
  <2>2. Tiled
    BY <1>1, <1>2, <2>1, TilesIffTiled DEF IInv
  <2>3. Frames' = Frames
    BY <1>1 DEF Frames
  <2>4. Frames \in Seq(Seq(Byte)) /\ Len(Frames) \in Nat
    BY <1>2, ConcatProperties, LenProperties DEF Frames, TypeOK
  <2>5. ASSUME NEW i \in 1..Len(Frames)
        PROVE  /\ FrameLength(From(cuts[i]))' = FrameLength(From(cuts[i]))
               /\ SubSeq(fed', cuts[i] + lf.InitialBytesToStrip + 1, cuts[i + 1])
                    = SubSeq(fed, cuts[i] + lf.InitialBytesToStrip + 1, cuts[i + 1])
    <3>1. i \in 1..(Len(cuts) - 1) /\ i + 1 \in 1..Len(cuts)
      BY <2>2, <2>4 DEF Tiled
    <3>2. /\ cuts[i] \in Nat /\ cuts[i + 1] \in Nat /\ cuts[i + 1] <= Len(fed)
          /\ cuts[i] + LengthFieldEndOffset <= Len(fed)
      BY <1>2, <3>1, CutTypes DEF Suffix
    <3> DEFINE c == cuts[i]
    <3>3. FrameLength(From(c))' = FrameLength(From(c))
      <4>1. ASSUME NEW d \in Nat, d + LengthFieldEndOffset <= Len(fed)
            PROVE FrameLength(From(d))' = FrameLength(From(d))
        BY <1>1, <1>2, <4>1, HeaderStable
      <4>2. QED
        BY <1>1, <3>2, <4>1
    <3>4. cuts[i] + lf.InitialBytesToStrip \in Nat
      <4>1. lf \in LengthFields
        BY <1>2 DEF TypeOK
      <4>2. lf.InitialBytesToStrip \in Nat
        BY <4>1, FieldTypes
      <4>3. QED
        BY <3>2, <4>2
    <3>5. SubSeq(fed', cuts[i] + lf.InitialBytesToStrip + 1, cuts[i + 1])
            = SubSeq(fed, cuts[i] + lf.InitialBytesToStrip + 1, cuts[i + 1])
      <4> DEFINE a == cuts[i] + lf.InitialBytesToStrip
                 b == cuts[i + 1]
      <4>1. a \in Nat /\ b \in Int /\ b <= Len(fed)
        BY <3>2, <3>4
      <4> HIDE DEF a, b
      <4>2. SubSeq(fed \o buff, a + 1, b) = SubSeq(fed, a + 1, b)
        BY <1>2, <4>1, PieceStable
      <4>3. QED
        BY <1>1, <4>2 DEF a, b
    <3>6. QED
      BY <1>1, <3>3, <3>5
  <2>6. QED
    BY <1>1, <2>2, <2>3, <2>5 DEF Tiled
<1>8. QED
  BY <1>4, <1>5, <1>6, <1>7 DEF IInv

-----------------------------------------------------------------------------
(* The steps of decode.                                                    *)

\* Every step of decode finds the decoder's lengths to be integers.
LEMMA LengthReadTypes ==
    ASSUME TypeOK, LengthRead
    PROVE  /\ UnadjustedLength(Buffer) \in Int /\ FrameLength(Buffer) \in Int
           /\ lf \in LengthFields /\ LengthFieldEndOffset \in Nat
           /\ LengthFieldEndOffset <= Len(Buffer)
<1>1. lf \in LengthFields
  BY DEF TypeOK
<1>2. Buffer \in Seq(Byte) /\ Len(Buffer) \in Nat
  BY BufferType, LenProperties
<1>3. LengthFieldEndOffset \in Nat
  BY <1>1, FieldTypes
<1>4. Supported /\ LengthFieldEndOffset <= Len(Buffer)
  BY <1>2, <1>3 DEF LengthRead, HeaderRead
<1>5. QED
  BY <1>1, <1>2, <1>3, <1>4, LengthInt

\* Discarding, and then returning or panicking without a cut.
LEMMA DiscardNoCut ==
    ASSUME IInv, pc = "decode", AfterDiscard, ReturnFrames \/ Panic,
           UNCHANGED <<lf, in, fed, cuts, tooLong>>
    PROVE  IInv'
<1>1. TypeOK /\ DiscardCount /\ NoDiscard /\ tooLong \in BOOLEAN
  BY DEF IInv, TypeOK
<1>2. /\ bytesToDiscard' \in Nat /\ discarding' \in BOOLEAN
      /\ DiscardCount' /\ (~discarding => ~discarding')
  BY <1>1, DiscardStep
<1>3. tooLong' = tooLong /\ tooLong' \in BOOLEAN
  BY <1>1
<1>4. NoDiscard'
  BY <1>1, <1>2, <1>3 DEF NoDiscard
<1>5. QED
  BY <1>2, <1>3, <1>4, NoCutStep

\* A frame that is too long.
LEMMA ExceededStep ==
    ASSUME IInv, exceededFrameLength
    PROVE  IInv'
<1>1. TypeOK /\ DiscardCount
  BY DEF IInv
<1>2. /\ LengthRead /\ pc = "decode" /\ tooLong' = TRUE
      /\ UNCHANGED <<lf, in, fed, cuts>>
      /\ ReturnFrames \/ Panic
  BY DEF exceededFrameLength, LengthRead, HeaderRead
<1>3. tooLong \in BOOLEAN /\ tooLong' \in BOOLEAN /\ (tooLong => tooLong')
  BY <1>1, <1>2 DEF TypeOK
<1>4. NoDiscard'
  BY <1>2 DEF NoDiscard
<1>5. /\ bytesToDiscard' \in Nat /\ discarding' \in BOOLEAN /\ DiscardCount'
  <2>1. Missing \in Int
    <3>1. FrameLength(Buffer) - Len(Buffer) \in Int
      BY <1>1, <1>2, LengthReadTypes, BufferType, LenProperties
    <3>2. QED
      BY <3>1, WrapInt DEF Missing
  <2>2. CASE Missing >= 0 /\ bytesToDiscard' = Missing /\ discarding' = (Missing # 0)
    <3>1. bytesToDiscard' \in Nat /\ (Missing # 0 <=> bytesToDiscard' > 0)
      BY <2>1, <2>2
    <3>2. discarding' \in BOOLEAN /\ (discarding' <=> bytesToDiscard' > 0)
      BY <2>2, <3>1, Zenon
    <3>3. QED
      BY <3>1, <3>2 DEF DiscardCount
  <2>3. CASE AfterDiscard
    BY <1>1, <2>3, DiscardStep
  <2>4. QED
    BY <2>2, <2>3 DEF exceededFrameLength
<1>6. QED
  BY <1>2, <1>3, <1>4, <1>5, NoCutStep

\* A frame is cut where its header says it ends.
LEMMA DecodeFrameStep ==
    ASSUME IInv, DecodeFrame
    PROVE  IInv'
<1> DEFINE frameLength == FrameLength(Buffer)
           strip == lf.InitialBytesToStrip
           arr == SubSeq(Buffer, strip + 1, frameLength)
           c == cuts[Len(cuts)]
           n == Len(cuts)
<1>1. TypeOK /\ DiscardCount /\ NoDiscard /\ Suffix /\ FramesTile
  BY DEF IInv
<1>2. /\ LengthRead /\ pc = "decode" /\ ~Exceeds(Buffer)
      /\ Len(Buffer) >= frameLength /\ strip <= frameLength
      /\ resp' = Append(resp, arr)
      /\ in' = SubSeq(in, Len(arr) + strip + 1, Len(in))
      /\ cuts' = Append(cuts, c + (Len(arr) + strip))
      /\ lf' = lf /\ pc' = pc /\ out' = out /\ fed' = fed /\ tooLong' = tooLong
      /\ AfterDiscard
  BY DEF DecodeFrame, FrameComplete, LengthRead, HeaderRead, Last
<1>3. /\ Buffer \in Seq(Byte) /\ Len(Buffer) \in Nat /\ Len(in) \in Nat
      /\ Len(Buffer) <= Len(in)
      /\ (~discarding => Buffer = in)
  BY <1>1, BufferType, LenProperties DEF TypeOK
<1>4. /\ frameLength \in Int /\ lf \in LengthFields /\ LengthFieldEndOffset \in Nat
      /\ LengthFieldEndOffset <= Len(Buffer)
  BY <1>1, <1>2, LengthReadTypes
<1>5. strip \in Nat
  BY <1>4, FieldTypes
<1>6. frameLength \in Nat
  BY <1>2, <1>4 DEF Exceeds
<1> HIDE DEF frameLength, strip
<1>7. arr \in Seq(Byte) /\ Len(arr) + strip = frameLength
  <2>1. /\ arr \in Seq(Byte)
        /\ Len(arr) = IF strip < frameLength THEN frameLength - strip ELSE 0
    BY <1>2, <1>3, <1>4, <1>5, Piece
  <2>2. QED
    BY <1>2, <1>5, <1>6, <2>1
<1> HIDE DEF arr
<1>8. in' = SubSeq(in, frameLength + 1, Len(in)) /\ cuts' = Append(cuts, c + frameLength)
  BY <1>2, <1>7
<1>9. /\ n \in Nat /\ n > 0 /\ Len(fed) \in Nat /\ fed \in Seq(Byte) /\ cuts \in Seq(Nat)
      /\ c \in Nat /\ c <= Len(fed)
  BY <1>1, CutTypes DEF TypeOK
<1>10. in = SubSeq(fed, c + 1, Len(fed)) /\ Len(in) = Len(fed) - c
  <2>1. in = SubSeq(fed, c + 1, Len(fed))
    BY <1>1 DEF Suffix, From
  <2>2. QED
    BY <1>9, <2>1, Piece
<1> HIDE DEF c
<1>11. c + frameLength \in Nat /\ c + frameLength <= Len(fed)
  BY <1>2, <1>3, <1>6, <1>9, <1>10
<1>12. /\ cuts' \in Seq(Nat) /\ Len(cuts') = n + 1
       /\ \A i \in 1..n : cuts'[i] = cuts[i]
       /\ cuts'[n + 1] = c + frameLength
  BY <1>8, <1>9, <1>11, AppendProperties
<1>13. in' = SubSeq(fed, c + frameLength + 1, Len(fed))
  <2>1. SubSeq(SubSeq(fed, c + 1, Len(fed)), frameLength + 1, Len(fed) - c)
          = SubSeq(fed, c + frameLength + 1, c + (Len(fed) - c))
    <3> DEFINE k == Len(fed) - c
    <3>1. k \in Int /\ c + k <= Len(fed)
      BY <1>9
    <3> HIDE DEF k
    <3>2. SubSeq(SubSeq(fed, c + 1, Len(fed)), frameLength + 1, k)
            = SubSeq(fed, c + frameLength + 1, c + k)
      BY <1>6, <1>9, <3>1, PieceOfPiece
    <3>3. QED
      BY <3>2 DEF k
  <2>2. c + (Len(fed) - c) = Len(fed)
    BY <1>9
  <2>3. QED
    BY <1>8, <1>10, <2>1, <2>2
<1>14. TypeOK'
  <2>1. in' \in Seq(Byte)
    BY <1>9, <1>11, <1>13, Piece
  <2>2. resp' \in Seq(Seq(Byte))
    BY <1>1, <1>2, <1>7, AppendProperties DEF TypeOK
  <2>3. cuts' # <<>>
    BY <1>9, <1>12, EmptySeq
  <2>4. bytesToDiscard' \in Nat /\ discarding' \in BOOLEAN
    BY <1>1, <1>2, DiscardStep
  <2>5. QED
    BY <1>1, <1>2, <1>12, <2>1, <2>2, <2>3, <2>4 DEF TypeOK
<1>15. DiscardCount' /\ NoDiscard'
  <2>1. DiscardCount' /\ (~discarding => ~discarding')
    BY <1>1, <1>2, DiscardStep
  <2>2. QED
    BY <1>1, <1>2, <2>1 DEF NoDiscard
<1>16. Suffix'
  <2>1. LengthFieldEndOffset' = LengthFieldEndOffset
    BY <1>2 DEF LengthFieldEndOffset
  <2>2. cuts'[Len(cuts')] <= Len(fed') /\ in' = From(cuts[Len(cuts)])'
    BY <1>2, <1>11, <1>12, <1>13 DEF From
  <2>3. ASSUME NEW i \in 1..n
        PROVE  /\ cuts'[i] + LengthFieldEndOffset <= Len(fed)
               /\ cuts'[i + 1] <= Len(fed)
    <3>1. CASE i < n
      <4>1. i \in 1..(n - 1) /\ i + 1 \in 1..n
        BY <1>9, <3>1
      <4>2. cuts[i] + LengthFieldEndOffset <= Len(fed) /\ cuts[i + 1] <= Len(fed)
        BY <1>1, <4>1 DEF Suffix
      <4>3. QED
        BY <1>12, <4>1, <4>2
    <3>2. CASE i = n
      <4>1. c + LengthFieldEndOffset <= Len(fed)
        BY <1>3, <1>4, <1>9, <1>10
      <4>2. QED
        BY <1>9, <1>11, <1>12, <3>2, <4>1 DEF c
    <3>3. QED
      BY <1>9, <3>1, <3>2
  <2>4. Len(cuts') - 1 = n
    BY <1>9, <1>12
  <2>5. QED
    BY <1>2, <2>1, <2>2, <2>3, <2>4 DEF Suffix
<1>17. FramesTile'
  <2>1. SUFFICES ASSUME ~tooLong' PROVE Tiled'
    BY <1>16 DEF FramesTile, Tiled, Suffix, Last
  <2>2. Tiled /\ Buffer = in
    BY <1>1, <1>2, <1>3, <2>1, TilesIffTiled DEF NoDiscard
  <2>3. Frames' = Append(Frames, arr) /\ Frames \in Seq(Seq(Byte)) /\ Len(Frames) \in Nat
    <3>1. resp \in Seq(Seq(Byte)) /\ out \in Seq(Seq(Byte))
      BY <1>1 DEF TypeOK
    <3>2. out \o Append(resp, arr) = Append(out \o resp, arr)
      <4>1. Append(resp, arr) = resp \o <<arr>> /\ <<arr>> \in Seq(Seq(Byte))
        BY <1>7, <3>1, AppendIsConcat
      <4>2. /\ out \o (resp \o <<arr>>) = (out \o resp) \o <<arr>>
            /\ out \o resp \in Seq(Seq(Byte))
        BY <3>1, <4>1, ConcatAssociative, ConcatProperties
      <4>3. Append(out \o resp, arr) = (out \o resp) \o <<arr>>
        BY <1>7, <4>2, AppendIsConcat
      <4>4. QED
        BY <4>1, <4>2, <4>3
    <3>3. out \o resp \in Seq(Seq(Byte)) /\ Len(out \o resp) \in Nat
      BY <3>1, ConcatProperties, LenProperties
    <3>4. QED
      BY <1>2, <3>2, <3>3 DEF Frames
  <2>4. /\ Len(Frames') = Len(Frames) + 1 /\ Frames'[Len(Frames) + 1] = arr
        /\ \A i \in 1..Len(Frames) : Frames'[i] = Frames[i]
    BY <1>7, <2>3, AppendProperties
  <2>5. n = Len(Frames) + 1
    BY <2>2 DEF Tiled
  <2>6. ASSUME NEW x PROVE FrameLength(From(x))' = FrameLength(From(x))
    BY <1>2 DEF FrameLength, UnadjustedLength, LengthBytes, LengthFieldEndOffset, From
  <2>7. ASSUME NEW i \in 1..n
        PROVE  /\ cuts'[i + 1] = cuts'[i] + FrameLength(From(cuts[i]))'
               /\ Frames'[i] = SubSeq(fed, cuts'[i] + strip + 1, cuts'[i + 1])
    <3>1. CASE i < n
      <4>1. i \in 1..Len(Frames) /\ i + 1 \in 1..n /\ i \in 1..n
        BY <1>9, <2>3, <2>5, <3>1
      <4>2. /\ cuts[i + 1] = cuts[i] + FrameLength(From(cuts[i]))
            /\ Frames[i] = SubSeq(fed, cuts[i] + strip + 1, cuts[i + 1])
        BY <2>2, <4>1 DEF Tiled, strip
      <4>3. FrameLength(From(cuts[i]))' = FrameLength(From(cuts[i]))
        BY <1>2, <1>12, <4>1
        DEF FrameLength, UnadjustedLength, LengthBytes, LengthFieldEndOffset, From
      <4>4. QED
        BY <1>12, <2>4, <4>1, <4>2, <4>3
    <3>2. CASE i = n
      <4>1. cuts'[i] = c /\ cuts'[i + 1] = c + frameLength
        BY <1>9, <1>12, <3>2 DEF c
      <4>2. FrameLength(From(cuts[i]))' = frameLength
        BY <1>2, <1>10, <2>2, <4>1
        DEF FrameLength, UnadjustedLength, LengthBytes, LengthFieldEndOffset, From,
            frameLength
      <4>3. arr = SubSeq(fed, c + strip + 1, c + frameLength)
        <5>1. SubSeq(SubSeq(fed, c + 1, Len(fed)), strip + 1, frameLength)
                = SubSeq(fed, c + strip + 1, c + frameLength)
          BY <1>4, <1>5, <1>9, <1>11, PieceOfPiece
        <5>2. arr = SubSeq(SubSeq(fed, c + 1, Len(fed)), strip + 1, frameLength)
          BY <1>10, <2>2 DEF arr
        <5>3. QED
          BY <5>1, <5>2
      <4>4. Frames'[i] = arr
        BY <2>4, <2>5, <3>2
      <4>5. QED
        BY <4>1, <4>2, <4>3, <4>4
    <3>3. QED
      BY <1>9, <3>1, <3>2
  <2>8. Len(cuts') = Len(Frames') + 1 /\ Len(Frames') = n
    BY <1>9, <1>12, <2>4, <2>5
  <2>9. strip' = strip
    BY <1>2 DEF strip
  <2>10. QED
    BY <1>2, <2>7, <2>8, <2>9 DEF Tiled, strip
<1>18. QED
  BY <1>14, <1>15, <1>16, <1>17 DEF IInv

-----------------------------------------------------------------------------
\* A new decoder satisfies the invariant.
LEMMA InitInv == Init => IInv
<1> SUFFICES ASSUME Init PROVE IInv
  OBVIOUS
<1>1. /\ lf \in LengthFields /\ in = <<>> /\ discarding = FALSE /\ bytesToDiscard = 0
      /\ pc = "idle" /\ resp = <<>> /\ out = <<>> /\ fed = <<>> /\ cuts = <<0>>
      /\ tooLong = FALSE
  BY DEF Init
<1>2. TypeOK
  <2>1. in \in Seq(Byte) /\ fed \in Seq(Byte)
    BY <1>1
  <2>2. resp \in Seq(Seq(Byte)) /\ out \in Seq(Seq(Byte))
    <3> DEFINE T == Seq(Byte)
    <3> HIDE DEF T
    <3>1. <<>> \in Seq(T)
      OBVIOUS
    <3>2. QED
      BY <1>1, <3>1 DEF T
  <2>3. cuts \in Seq(Nat) /\ cuts # <<>>
    BY <1>1
  <2>4. QED
    BY <1>1, <2>1, <2>2, <2>3 DEF TypeOK
<1>3. DiscardCount /\ NoDiscard
  BY <1>1 DEF DiscardCount, NoDiscard
<1>4. Len(cuts) = 1 /\ cuts[1] = 0 /\ Len(fed) = 0
  BY <1>1, EmptySeq
<1>5. SubSeq(<<>>, 1, 0) = <<>>
  OBVIOUS
<1>6. Suffix
  BY <1>1, <1>4, <1>5 DEF Suffix, From
<1>7. Frames = <<>> /\ Len(Frames) = 0
  BY <1>1 DEF Frames
<1>8. Tiled
  BY <1>4, <1>7 DEF Tiled
<1>9. FramesTile
  BY <1>6, <1>8, TilesIffTiled
<1>10. QED
  BY <1>2, <1>3, <1>6, <1>9 DEF IInv

\* Every step keeps the invariant.
LEMMA StepInv == IInv /\ [Next]_vars => IInv'
<1> SUFFICES ASSUME IInv, [Next]_vars PROVE IInv'
  OBVIOUS
<1>1. ASSUME NEW buff \in Chunks, Decode(buff) PROVE IInv'
  <2>1. buff \in Seq(Byte)
    BY BoundAssumption DEF Chunks
  <2>2. QED
    BY <1>1, <2>1, ReadStep
<1>2. CASE HalfHeader
  BY <1>2, DiscardNoCut DEF HalfHeader
<1>3. CASE UnsupportedLength
  BY <1>3, DiscardNoCut DEF UnsupportedLength, HeaderRead
<1>4. CASE failOnNegativeLengthField
  BY <1>4, DiscardNoCut DEF failOnNegativeLengthField, HeaderRead
<1>5. CASE exceededFrameLength
  BY <1>5, ExceededStep
<1>6. CASE HalfFrame
  BY <1>6, DiscardNoCut DEF HalfFrame, LengthRead, HeaderRead
<1>7. CASE failOnFrameLengthLessThanInitialBytesToStrip
  BY <1>7, DiscardNoCut
  DEF failOnFrameLengthLessThanInitialBytesToStrip, FrameComplete, LengthRead, HeaderRead
<1>8. CASE DecodeFrame
  BY <1>8, DecodeFrameStep
<1>9. CASE UNCHANGED vars
  <2>1. /\ lf' = lf /\ in' = in /\ discarding' = discarding
        /\ bytesToDiscard' = bytesToDiscard /\ pc' = pc /\ resp' = resp /\ out' = out
        /\ fed' = fed /\ cuts' = cuts /\ tooLong' = tooLong
    BY <1>9 DEF vars, decoderVars, historyVars
  <2>2. TypeOK' /\ DiscardCount' /\ NoDiscard'
    BY <2>1 DEF IInv, TypeOK, DiscardCount, NoDiscard
  <2>3. Suffix'
    BY <2>1 DEF IInv, Suffix, From, LengthFieldEndOffset
  <2>4. FramesTile'
    BY <2>1 DEF IInv, FramesTile, Frames, From, FrameLength, UnadjustedLength,
       LengthBytes, LengthFieldEndOffset
  <2>5. QED
    BY <2>2, <2>3, <2>4 DEF IInv
<1>10. QED
  BY <1>1, <1>2, <1>3, <1>4, <1>5, <1>6, <1>7, <1>8, <1>9 DEF Next, decode

\* The invariant holds in every behaviour.
THEOREM Invariance == Spec => []IInv
<1>1. Init => IInv
  BY InitInv
<1>2. IInv /\ [Next]_vars => IInv'
  BY StepInv
<1>3. QED
  BY <1>1, <1>2, PTL DEF Spec

\* Type correctness of the decoder's state.
THEOREM TypeCorrect == Spec => []TypeOK
<1>1. IInv => TypeOK
  BY DEF IInv
<1>2. QED
  BY <1>1, Invariance, PTL

\* As long as no frame has been too long, the frames tile the stream, whatever the
\* length field and however the bytes were divided into reads.
THEOREM Tiling == Spec => []FramesTile
<1>1. IInv => FramesTile
  BY DEF IInv
<1>2. QED
  BY <1>1, Invariance, PTL

\* Discard mode is on exactly while bytes are left to discard, only after a frame was too
\* long, and it takes no byte from d.in.
THEOREM DiscardConsistent == Spec => []DiscardMode
<1>1. IInv => DiscardMode
  BY DEF IInv, DiscardCount, NoDiscard, Suffix, DiscardMode, Last, TypeOK
<1>2. QED
  BY <1>1, Invariance, PTL


-----------------------------------------------------------------------------
(* Between two reads.                                                      *)

\* A turn of the loop that returns without a frame has looked at all of d.in.
LEMMA HalfStep ==
    ASSUME IInv, HalfHeader \/ HalfFrame
    PROVE  NothingWithheld'
<1> SUFFICES ASSUME ~tooLong'
             PROVE  \/ Len(in') < LengthFieldEndOffset'
                    \/ Len(in') < FrameLength(in)'
  BY DEF NothingWithheld
<1>1. in' = in /\ lf' = lf /\ tooLong' = tooLong
  BY DEF HalfHeader, HalfFrame
<1>2. Buffer = in
  BY <1>1, BufferType DEF IInv, NoDiscard
<1>3. LengthFieldEndOffset' = LengthFieldEndOffset /\ FrameLength(in)' = FrameLength(in)
  BY <1>1 DEF LengthFieldEndOffset, FrameLength, UnadjustedLength, LengthBytes
<1>4. CASE HalfHeader
  BY <1>1, <1>2, <1>3, <1>4 DEF HalfHeader
<1>5. CASE HalfFrame
  BY <1>1, <1>2, <1>3, <1>5 DEF HalfFrame
<1> QED
  BY <1>4, <1>5

LEMMA WithheldStep == IInv /\ NothingWithheld /\ [Next]_vars => NothingWithheld'
<1> SUFFICES ASSUME IInv, NothingWithheld, [Next]_vars PROVE NothingWithheld'
  OBVIOUS
<1>1. ASSUME NEW buff \in Chunks, Decode(buff) PROVE NothingWithheld'
  BY <1>1 DEF Decode, NothingWithheld
<1>2. CASE HalfHeader \/ HalfFrame
  BY <1>2, HalfStep
<1>3. CASE UnsupportedLength \/ failOnNegativeLengthField
           \/ failOnFrameLengthLessThanInitialBytesToStrip
  <2>1. pc' = "panic"
    BY <1>3 DEF UnsupportedLength, failOnNegativeLengthField,
                failOnFrameLengthLessThanInitialBytesToStrip, Panic
  <2> QED
    BY <2>1 DEF NothingWithheld
<1>4. CASE exceededFrameLength
  BY <1>4 DEF exceededFrameLength, NothingWithheld
<1>5. CASE DecodeFrame
  <2>1. pc' = "decode"
    BY <1>5 DEF DecodeFrame, FrameComplete, LengthRead, HeaderRead
  <2> QED
    BY <2>1 DEF NothingWithheld
<1>6. CASE UNCHANGED vars
  BY <1>6 DEF vars, decoderVars, historyVars, NothingWithheld, LengthFieldEndOffset,
              FrameLength, UnadjustedLength, LengthBytes
<1> QED
  BY <1>1, <1>2, <1>3, <1>4, <1>5, <1>6 DEF Next, decode

\* A frame whose last byte has been read is delivered by that read, whatever the length
\* field and however the bytes were divided into reads.
THEOREM AllDelivered == Spec => []NothingWithheld
<1>1. Init => NothingWithheld
  BY DEF Init, NothingWithheld
<1> QED
  BY <1>1, WithheldStep, Invariance, PTL DEF Spec

-----------------------------------------------------------------------------
(* Numbers and their bytes.                                                *)

\* Division undoes multiplication.
LEMMA QuotRem ==
    ASSUME NEW M \in Nat, M > 0, NEW q \in Int, NEW r \in 0..(M - 1)
    PROVE  (q * M + r) \div M = q /\ (q * M + r) % M = r
<1> DEFINE x == q * M + r
           d == x \div M
           m == x % M
<1>1. q * M \in Int /\ x \in Int
  OBVIOUS
<1>2. d \in Int /\ m \in 0..(M - 1) /\ x = M * d + m
  <2> HIDE DEF x
  <2> QED BY <1>1
<1>3. r = M * (d - q) + m
  <2> HIDE DEF d, m
  <2>1. M * (d - q) = M * d - M * q
    BY <1>2
  <2> QED BY <1>2, <2>1 DEF x
<1>4. d = q
  <2> HIDE DEF d, m, x
  <2>1. CASE d - q >= 1
    <3>1. M * (d - q) >= M
      BY <1>2, <2>1
    <3> QED BY <1>2, <1>3, <3>1
  <2>2. CASE d - q <= -1
    <3>1. M * (d - q) <= -M
      BY <1>2, <2>2
    <3> QED BY <1>2, <1>3, <3>1
  <2> QED BY <1>2, <2>1, <2>2
<1>5. QED
  <2> HIDE DEF d, m
  <2>1. m = r
    BY <1>2, <1>3, <1>4
  <2> QED BY <1>4, <2>1 DEF d, m, x

\* A number of bytes is less than the weight of the byte before them.
LEMMA Carry ==
    ASSUME NEW M \in Nat, M > 0, NEW e \in Byte, NEW r \in 0..(M - 1)
    PROVE  e * M + r \in 0..(Base * M - 1)
<1>1. e \in Nat /\ e <= Base - 1 /\ Base \in Nat
  BY BaseAssumption DEF Byte
<1>2. (Base - 1 - e) * M >= 0
  BY <1>1
<1>3. (Base - 1 - e) * M = Base * M - M - e * M
  BY <1>1
<1>4. e * M >= 0 /\ e * M \in Int /\ Base * M \in Int
  BY <1>1
<1>5. QED
  <2> DEFINE u == e * M
             v == Base * M
  <2>1. v - M - u >= 0 /\ u >= 0 /\ u \in Int /\ v \in Int
    BY <1>2, <1>3, <1>4
  <2> HIDE DEF u, v
  <2>2. u + r \in 0..(v - 1)
    BY <2>1
  <2> QED BY <2>2 DEF u, v

\* A number whose byte of weight M is e.
Number(q, e, M, r) == (q * Base + e) * M + r

\* The byte of weight M.
LEMMA Digit ==
    ASSUME NEW M \in Nat, M > 0, NEW q \in Nat, NEW e \in Byte, NEW r \in 0..(M - 1)
    PROVE  (Number(q, e, M, r) \div M) % Base = e
<1>1. Base \in Nat /\ Base > 0 /\ e \in 0..(Base - 1)
  BY BaseAssumption DEF Byte
<1>2. q * Base + e \in Int
  BY <1>1
<1>3. Number(q, e, M, r) \div M = q * Base + e
  BY <1>2, QuotRem DEF Number
<1>4. QED
  BY <1>1, <1>3, QuotRem

\* The weights of bytes grow.
LEMMA Powers ==
    /\ Base \in Nat /\ Base > 1
    /\ Base * Base \in Nat /\ Base * Base > 0
    /\ Base * Base * Base \in Nat /\ Base * Base * Base > 0
    /\ Base * Base * Base * Base \in Nat /\ Base * Base * Base * Base >= 16
    /\ Base <= Base * Base /\ Base * Base <= Base * Base * Base
    /\ Base * Base * Base <= Base * Base * Base * Base
<1>1. Base \in Nat /\ Base > 1
  BY BaseAssumption
<1>2. ASSUME NEW x \in Nat, NEW k \in Nat, x >= k
      PROVE  x * Base \in Nat /\ x * Base >= 2 * k /\ x <= x * Base
  <2> DEFINE t == x * (Base - 2)
             u == x * Base
  <2>1. t \in Nat /\ u = t + 2 * x
    BY <1>1
  <2> HIDE DEF t, u
  <2>2. u \in Nat /\ u >= 2 * k /\ x <= u
    BY <2>1, <1>2
  <2>3. QED
    BY <2>2 DEF u
<1> DEFINE two == Base * Base
           three == two * Base
           four == three * Base
<1>3. two \in Nat /\ two >= 4 /\ Base <= two
  BY <1>1, <1>2
<1>4. three \in Nat /\ three >= 8 /\ two <= three
  <2> HIDE DEF two
  <2>1. two \in Nat /\ 4 \in Nat /\ two >= 4
    BY <1>3
  <2>2. two * Base \in Nat /\ two * Base >= 2 * 4 /\ two <= two * Base
    BY <1>2, <2>1
  <2> QED BY <2>2
<1>5. four \in Nat /\ four >= 16 /\ three <= four
  <2> HIDE DEF three
  <2>1. three \in Nat /\ 8 \in Nat /\ three >= 8
    BY <1>4
  <2>2. three * Base \in Nat /\ three * Base >= 2 * 8 /\ three <= three * Base
    BY <1>2, <2>1
  <2> QED BY <2>2
<1>6. QED
  BY <1>1, <1>3, <1>4, <1>5

\* The bytes of numbers of two, three and four bytes.
LEMMA TwoDigits ==
    ASSUME NEW a \in Byte, NEW b \in Byte, NEW x, x = a * Base + b
    PROVE  x \in Nat /\ (x \div 1) % Base = b /\ (x \div Base) % Base = a
<1>1. /\ a \in Nat /\ b \in Nat /\ b \in 0..(Base - 1) /\ 0 \in Nat
      /\ Base \in Nat /\ Base > 0 /\ 1 \in Nat /\ 1 > 0 /\ 0 \in 0..(1 - 1)
  BY BaseAssumption DEF Byte
<1>2. a * Base \in Nat /\ x \in Nat
  BY <1>1
<1>3. x = Number(a, b, 1, 0)
  BY <1>1, <1>2 DEF Number
<1>4. x = Number(0, a, Base, b)
  BY <1>1 DEF Number
<1>5. (x \div 1) % Base = b
  BY <1>1, <1>3, Digit
<1>6. (x \div Base) % Base = a
  BY <1>1, <1>4, Digit
<1>7. QED
  BY <1>2, <1>5, <1>6

LEMMA ThreeDigits ==
    ASSUME NEW a \in Byte, NEW b \in Byte, NEW c \in Byte
    PROVE  /\ Number(a, b, Base, c) \in Nat
           /\ (Number(a, b, Base, c) \div 1) % Base = c
           /\ (Number(a, b, Base, c) \div Base) % Base = b
           /\ (Number(a, b, Base, c) \div (Base * Base)) % Base = a
<1> DEFINE x == Number(a, b, Base, c)
<1>1. /\ a \in Nat /\ b \in Nat /\ c \in Nat /\ c \in 0..(Base - 1) /\ 0 \in Nat
      /\ Base \in Nat /\ Base > 0 /\ 1 \in Nat /\ 1 > 0 /\ 0 \in 0..(1 - 1)
  BY BaseAssumption DEF Byte
<1> DEFINE q == a * Base + b
           r == b * Base + c
<1>2. q \in Nat
  BY <1>1
<1>3. x = (a * Base + b) * Base + c
  BY DEF Number
<1>4. x \in Nat /\ x = Number(q, c, 1, 0)
  <2>1. x = q * Base + c
    BY <1>3
  <2> HIDE DEF q
  <2> QED BY <1>1, <1>2, <2>1 DEF Number
<1>5. x = Number(0, a, Base * Base, r)
  <2>1. (a * Base + b) * Base = a * (Base * Base) + b * Base
    BY <1>1
  <2>2. 0 * Base + a = a
    BY <1>1
  <2>3. a * (Base * Base) \in Nat /\ b * Base \in Nat
    BY <1>1
  <2>4. QED
    BY <1>1, <1>3, <2>1, <2>2, <2>3 DEF Number
<1>6. r \in 0..(Base * Base - 1)
  BY <1>1, Carry
<1>7. (x \div 1) % Base = c
  <2> HIDE DEF q
  <2> QED BY <1>1, <1>2, <1>4, Digit
<1>8. (x \div Base) % Base = b
  BY <1>1, Digit
<1>9. (x \div (Base * Base)) % Base = a
  <2> HIDE DEF r
  <2> QED BY <1>1, <1>5, <1>6, Powers, Digit
<1>10. QED
  BY <1>4, <1>7, <1>8, <1>9

LEMMA FourDigits ==
    ASSUME NEW a \in Byte, NEW b \in Byte, NEW c \in Byte, NEW e \in Byte
    PROVE  LET x == Number(a, b, Base * Base, c * Base + e)
           IN  /\ x \in Nat /\ (x \div 1) % Base = e /\ (x \div Base) % Base = c
               /\ (x \div (Base * Base)) % Base = b
               /\ (x \div (Base * Base * Base)) % Base = a
<1> DEFINE x == Number(a, b, Base * Base, c * Base + e)
<1>1. /\ a \in Nat /\ b \in Nat /\ c \in Nat /\ e \in Nat /\ e \in 0..(Base - 1) /\ 0 \in Nat
      /\ Base \in Nat /\ Base > 0 /\ 1 \in Nat /\ 1 > 0 /\ 0 \in 0..(1 - 1)
  BY BaseAssumption DEF Byte
<1> DEFINE q == a * Base + b
           t == q * Base + c
           r == c * Base + e
           s == b * (Base * Base) + r
<1>2. q \in Nat
  BY <1>1
<1>3. t \in Nat
  <2> HIDE DEF q
  <2> QED BY <1>1, <1>2
<1>4. x = t * Base + e
  <2> HIDE DEF q
  <2>1. (q * Base + c) * Base = q * (Base * Base) + c * Base
    BY <1>1, <1>2
  <2>2. x = q * (Base * Base) + (c * Base + e)
    BY DEF q, Number
  <2>3. q * (Base * Base) \in Nat /\ c * Base \in Nat
    BY <1>1, <1>2
  <2>4. QED
    BY <1>1, <2>1, <2>2, <2>3
<1>5. x \in Nat /\ x = Number(t, e, 1, 0)
  <2> HIDE DEF t
  <2> QED BY <1>1, <1>3, <1>4 DEF Number
<1>6. x = Number(0, a, Base * Base * Base, s)
  <2>1. (a * Base + b) * (Base * Base) = a * (Base * Base * Base) + b * (Base * Base)
    BY <1>1
  <2>2. 0 * Base + a = a
    BY <1>1
  <2>3. a * (Base * Base * Base) \in Nat /\ b * (Base * Base) \in Nat /\ r \in Nat
    BY <1>1, Powers
  <2> HIDE DEF r
  <2>4. x = (a * Base + b) * (Base * Base) + r
    BY DEF r, Number
  <2>5. QED
    BY <1>1, <2>1, <2>2, <2>3, <2>4 DEF Number
<1>7. r \in 0..(Base * Base - 1)
  BY <1>1, Carry
<1>8. s \in 0..(Base * Base * Base - 1)
  <2> HIDE DEF r
  <2>1. s \in 0..(Base * (Base * Base) - 1)
    BY <1>7, Powers, Carry
  <2>2. Base * (Base * Base) = Base * Base * Base
    BY <1>1
  <2>3. QED
    BY <2>1, <2>2
<1>9. (x \div 1) % Base = e
  <2> HIDE DEF t
  <2> QED BY <1>1, <1>3, <1>5, Digit
<1>10. (x \div Base) % Base = c
  <2> HIDE DEF q
  <2>1. x = Number(q, c, Base, e)
    BY <1>4 DEF Number
  <2> QED BY <1>1, <1>2, <2>1, Digit
<1>11. (x \div (Base * Base)) % Base = b
  <2> HIDE DEF r
  <2>1. x = Number(a, b, Base * Base, r)
    BY DEF r
  <2> QED BY <1>1, <1>7, <2>1, Powers, Digit
<1>12. (x \div (Base * Base * Base)) % Base = a
  <2> HIDE DEF s
  <2> QED BY <1>1, <1>6, <1>8, Powers, Digit
<1>13. QED
  BY <1>5, <1>9, <1>10, <1>11, <1>12

\* The bytes of a number of one to four bytes, most significant first.
LEMMA Digits ==
    ASSUME NEW d \in Seq(Byte), Len(d) = UintBytes
    PROVE  /\ Uint32(d, "big") \in Nat
           /\ \A i \in 1..UintBytes :
                 (Uint32(d, "big") \div Weight[i]) % Base = d[UintBytes + 1 - i]
<1> DEFINE x == Uint32(d, "big")
<1>1. UintBytes \in 1..4
  BY UintAssumption
<1>2. \A i \in 1..UintBytes : d[i] \in Byte
  BY <1>1, ElementOfSeq
<1>3. /\ Weight[1] = 1 /\ Weight[2] = Base /\ Weight[3] = Base * Base
      /\ Weight[4] = Base * Base * Base
  BY DEF Weight
<1>4. x = CASE Len(d) = 1 -> d[1]
            [] Len(d) = 2 -> d[1] * Base + d[2]
            [] Len(d) = 3 -> (d[1] * Base + d[2]) * Base + d[3]
            [] Len(d) = 4 -> (d[1] * Base + d[2]) * (Base * Base) + (d[3] * Base + d[4])
            [] Len(d) = 8 -> Wrap(((d[1] * Base + d[2]) * (Base * Base) + (d[3] * Base + d[4]))
                                     * (Base * Base * Base * Base)
                                  + ((d[5] * Base + d[6]) * (Base * Base)
                                     + (d[7] * Base + d[8])))
  BY DEF Uint32, getUnadjustedFrameLength
<1>5. CASE UintBytes = 1
  <2>1. d[1] \in Byte /\ d[1] \in Nat /\ Base \in Nat
    BY <1>2, <1>5, BaseAssumption DEF Byte
  <2>2. x = d[1]
    BY <1>4, <1>5
  <2> HIDE DEF x
  <2>3. x = Number(0, d[1], 1, 0)
    BY <2>1, <2>2 DEF Number
  <2>4. (x \div 1) % Base = d[1]
    BY <2>1, <2>3, Digit
  <2>5. QED
    BY <1>3, <1>5, <2>1, <2>2, <2>4 DEF x
<1>6. CASE UintBytes = 2
  <2>1. d[1] \in Byte /\ d[2] \in Byte
    BY <1>2, <1>6
  <2>2. x = d[1] * Base + d[2]
    BY <1>4, <1>6
  <2> HIDE DEF x
  <2>3. x \in Nat /\ (x \div 1) % Base = d[2] /\ (x \div Base) % Base = d[1]
    BY <2>1, <2>2, TwoDigits
  <2>4. QED
    BY <1>3, <1>6, <2>3 DEF x
<1>7. CASE UintBytes = 3
  <2>1. d[1] \in Byte /\ d[2] \in Byte /\ d[3] \in Byte
    BY <1>2, <1>7
  <2>2. x = Number(d[1], d[2], Base, d[3])
    BY <1>4, <1>7 DEF Number
  <2> HIDE DEF x
  <2>3. /\ x \in Nat /\ (x \div 1) % Base = d[3] /\ (x \div Base) % Base = d[2]
        /\ (x \div (Base * Base)) % Base = d[1]
    <3>1. PICK a \in Byte, b \in Byte, c \in Byte : d[1] = a /\ d[2] = b /\ d[3] = c
      BY <2>1
    <3>2. x = Number(a, b, Base, c)
      BY <2>2, <3>1
    <3>3. QED
      BY <3>1, <3>2, ThreeDigits
  <2>4. QED
    BY <1>3, <1>7, <2>3 DEF x
<1>8. CASE UintBytes = 4
  <2>1. d[1] \in Byte /\ d[2] \in Byte /\ d[3] \in Byte /\ d[4] \in Byte
    BY <1>2, <1>8
  <2>2. x = Number(d[1], d[2], Base * Base, d[3] * Base + d[4])
    BY <1>4, <1>8 DEF Number
  <2> HIDE DEF x
  <2>3. /\ x \in Nat /\ (x \div 1) % Base = d[4] /\ (x \div Base) % Base = d[3]
        /\ (x \div (Base * Base)) % Base = d[2]
        /\ (x \div (Base * Base * Base)) % Base = d[1]
    <3>1. PICK a \in Byte, b \in Byte, c \in Byte, e \in Byte :
                 d[1] = a /\ d[2] = b /\ d[3] = c /\ d[4] = e
      BY <2>1
    <3>2. x = Number(a, b, Base * Base, c * Base + e)
      BY <2>2, <3>1
    <3>3. QED
      BY <3>1, <3>2, FourDigits
  <2>4. QED
    BY <1>3, <1>8, <2>3 DEF x
<1>9. QED
  BY <1>1, <1>5, <1>6, <1>7, <1>8

\* The elements of a reversed sequence.
LEMMA ReverseSeq ==
    ASSUME NEW S, NEW s \in Seq(S)
    PROVE  /\ Reverse(s) \in Seq(S) /\ Len(Reverse(s)) = Len(s)
           /\ \A i \in 1..Len(s) : Reverse(s)[i] = s[(Len(s) - i) + 1]
<1> DEFINE n == Len(s)
<1>1. n \in Nat /\ Reverse(s) = [i \in 1..n |-> s[(n - i) + 1]]
  BY LenProperties DEF Reverse
<1>2. \A i \in 1..n : s[(n - i) + 1] \in S
  BY <1>1, ElementOfSeq
<1> HIDE DEF n
<1>3. QED
  BY <1>1, <1>2 DEF n

\* A little-endian number is the big-endian one of the reversed bytes.
LEMMA LittleBig ==
    ASSUME NEW b \in Seq(Byte)
    PROVE  getUnadjustedFrameLength(b, "little") = getUnadjustedFrameLength(Reverse(b), "big")
<1> DEFINE r == Reverse(b)
<1>1. Len(r) = Len(b)
  BY ReverseSeq
<1> HIDE DEF r
<1>2. getUnadjustedFrameLength(b, "little") = getUnadjustedFrameLength(r, "big")
  BY <1>1 DEF getUnadjustedFrameLength, r
<1>3. QED
  BY <1>2 DEF r

\* What binary.Read has read, binary.Write writes back.
LEMMA RoundTrip ==
    ASSUME NEW b \in Seq(Byte), Len(b) = UintBytes, NEW order \in {"big", "little"}
    PROVE  Uint32(b, order) \in Nat /\ Bytes(Uint32(b, order), order) = b
<1>1. UintBytes \in Nat
  BY UintAssumption
<1> DEFINE Little(x) == [i \in 1..UintBytes |-> (x \div Weight[i]) % Base]
<1>2. CASE order = "little"
  <2> DEFINE r == Reverse(b)
             x == Uint32(b, "little")
  <2>1. r \in Seq(Byte) /\ Len(r) = UintBytes
        /\ \A i \in 1..UintBytes : r[i] = b[(UintBytes - i) + 1]
    BY ReverseSeq
  <2>2. x = Uint32(r, "big")
    BY LittleBig DEF Uint32
  <2> HIDE DEF x, r
  <2>3. x \in Nat /\ \A i \in 1..UintBytes : (x \div Weight[i]) % Base = r[UintBytes + 1 - i]
    BY <2>1, <2>2, Digits
  <2>4. \A i \in 1..UintBytes : (x \div Weight[i]) % Base = b[i]
    <3>1. TAKE i \in 1..UintBytes
    <3>2. UintBytes + 1 - i \in 1..UintBytes /\ (UintBytes - (UintBytes + 1 - i)) + 1 = i
      BY <1>1
    <3>3. QED
      BY <2>1, <2>3, <3>2
  <2>5. Bytes(x, "little") = Little(x)
    BY DEF Bytes
  <2>6. \A i \in 1..UintBytes : b[i] \in Byte
    BY <1>1, ElementOfSeq
  <2>7. Little(x) \in Seq(Byte) /\ Len(Little(x)) = UintBytes
        /\ \A i \in 1..UintBytes : Little(x)[i] = b[i]
    <3>1. Little(x) = [i \in 1..UintBytes |-> b[i]]
      BY <2>4
    <3>2. QED
      BY <1>1, <2>6, <3>1
  <2> HIDE DEF Little
  <2>8. Little(x) = b
    BY <2>7, SeqEqual
  <2>9. QED
    BY <1>2, <2>3, <2>5, <2>8 DEF x
<1>3. CASE order = "big"
  <2> DEFINE x == Uint32(b, "big")
  <2>1. x \in Nat /\ \A i \in 1..UintBytes : (x \div Weight[i]) % Base = b[UintBytes + 1 - i]
    BY Digits
  <2> HIDE DEF x
  <2>2. \A i \in 1..UintBytes : b[UintBytes + 1 - i] \in Byte
    <3>1. TAKE i \in 1..UintBytes
    <3>2. UintBytes + 1 - i \in 1..Len(b)
      BY <1>1
    <3>3. QED
      BY <3>2, ElementOfSeq
  <2>3. Little(x) \in Seq(Byte) /\ Len(Little(x)) = UintBytes
        /\ \A i \in 1..UintBytes : Little(x)[i] = b[UintBytes + 1 - i]
    <3>1. Little(x) = [i \in 1..UintBytes |-> b[UintBytes + 1 - i]]
      BY <2>1
    <3>2. QED
      BY <1>1, <2>2, <3>1
  <2>4. Bytes(x, "big") = Reverse(Little(x))
    BY DEF Bytes
  <2> HIDE DEF Little
  <2>5. /\ Reverse(Little(x)) \in Seq(Byte) /\ Len(Reverse(Little(x))) = UintBytes
        /\ \A i \in 1..UintBytes : Reverse(Little(x))[i] = Little(x)[(UintBytes - i) + 1]
    BY <2>3, ReverseSeq
  <2>6. \A i \in 1..UintBytes : Reverse(Little(x))[i] = b[i]
    <3>1. TAKE i \in 1..UintBytes
    <3>2. (UintBytes - i) + 1 \in 1..UintBytes /\ UintBytes + 1 - ((UintBytes - i) + 1) = i
      BY <1>1
    <3>3. QED
      BY <2>3, <2>5, <3>2
  <2>7. Reverse(Little(x)) = b
    BY <2>5, <2>6, SeqEqual
  <2>8. QED
    BY <1>3, <2>1, <2>4, <2>7 DEF x
<1>4. QED
  BY <1>2, <1>3

\* Four bytes: the numbers below this are those of a uint32.
Base4 == Base * Base * Base * Base

\* A length field of one to four bytes is not negative, and less than Base^4.
LEMMA FieldBound ==
    ASSUME NEW b \in Seq(Byte), Len(b) \in 1..4, NEW order \in {"big", "little"}
    PROVE  getUnadjustedFrameLength(b, order) \in 0..(Base4 - 1)
<1>1. ASSUME NEW d \in Seq(Byte), Len(d) \in 1..4
      PROVE  getUnadjustedFrameLength(d, "big") \in 0..(Base4 - 1)
  <2> DEFINE x == getUnadjustedFrameLength(d, "big")
             B2 == Base * Base
             B3 == Base * Base * Base
  <2>1. \A i \in 1..Len(d) : d[i] \in Byte /\ d[i] \in 0..(Base - 1)
    BY ElementOfSeq DEF Byte
  <2>2. x = CASE Len(d) = 1 -> d[1]
              [] Len(d) = 2 -> d[1] * Base + d[2]
              [] Len(d) = 3 -> (d[1] * Base + d[2]) * Base + d[3]
              [] Len(d) = 4 -> (d[1] * Base + d[2]) * (Base * Base) + (d[3] * Base + d[4])
              [] Len(d) = 8 -> Wrap(((d[1] * Base + d[2]) * (Base * Base)
                                        + (d[3] * Base + d[4]))
                                       * (Base * Base * Base * Base)
                                    + ((d[5] * Base + d[6]) * (Base * Base)
                                       + (d[7] * Base + d[8])))
    BY DEF getUnadjustedFrameLength
  <2>3. /\ Base \in Nat /\ Base > 0 /\ B2 \in Nat /\ B2 > 0 /\ B3 \in Nat /\ B3 > 0
        /\ Base4 \in Nat /\ Base <= B2 /\ B2 <= B3 /\ B3 <= Base4
    BY Powers DEF Base4
  <2>4. \A e \in Byte, r \in 0..(Base - 1) : e * Base + r \in 0..(B2 - 1)
    BY <2>3, Carry
  <2>5. \A e \in Byte, r \in 0..(B2 - 1) : e * B2 + r \in 0..(B3 - 1)
    <3>1. Base * B2 = B3
      BY <2>3
    <3>2. QED
      BY <2>3, <3>1, Carry
  <2>6. \A e \in Byte, r \in 0..(B3 - 1) : e * B3 + r \in 0..(Base4 - 1)
    <3>1. Base * B3 = Base4
      BY <2>3 DEF Base4
    <3>2. QED
      BY <2>3, <3>1, Carry
  <2>7. CASE Len(d) = 1
    <3>1. d[1] \in 0..(Base - 1) /\ x = d[1]
      BY <2>1, <2>2, <2>7
    <3> HIDE DEF x, B2, B3
    <3>2. x \in 0..(Base4 - 1)
      BY <2>3, <3>1
    <3>3. QED
      BY <3>2 DEF x
  <2>8. CASE Len(d) = 2
    <3>1. d[1] \in Byte /\ d[2] \in 0..(Base - 1) /\ x = d[1] * Base + d[2]
      BY <2>1, <2>2, <2>8
    <3> HIDE DEF x, B2, B3
    <3>2. x \in 0..(B2 - 1)
      BY <2>4, <3>1
    <3>3. x \in 0..(Base4 - 1)
      BY <2>3, <3>2
    <3>4. QED
      BY <3>3 DEF x
  <2>9. CASE Len(d) = 3
    <3>1. /\ d[1] \in Byte /\ d[2] \in Byte /\ d[3] \in 0..(Base - 1)
          /\ d[1] \in Nat /\ d[2] \in Nat /\ d[3] \in Nat
          /\ x = (d[1] * Base + d[2]) * Base + d[3]
      BY <2>1, <2>2, <2>9 DEF Byte
    <3>2. x = d[1] * B2 + (d[2] * Base + d[3])
      <4>1. PICK a \in Nat, b2 \in Nat, c \in Nat : d[1] = a /\ d[2] = b2 /\ d[3] = c
        BY <3>1
      <4>2. (a * Base + b2) * Base + c = a * (Base * Base) + (b2 * Base + c)
        BY <2>3
      <4>3. QED
        BY <3>1, <4>1, <4>2
    <3> HIDE DEF x, B2, B3
    <3>3. d[2] * Base + d[3] \in 0..(B2 - 1)
      BY <2>4, <3>1
    <3>4. x \in 0..(B3 - 1)
      BY <2>5, <3>1, <3>2, <3>3
    <3>5. x \in 0..(Base4 - 1)
      BY <2>3, <3>4
    <3>6. QED
      BY <3>5 DEF x
  <2>10. CASE Len(d) = 4
    <3>1. /\ d[1] \in Byte /\ d[2] \in Byte /\ d[3] \in Byte /\ d[4] \in 0..(Base - 1)
          /\ d[1] \in Nat /\ d[2] \in Nat /\ d[3] \in Nat /\ d[4] \in Nat
          /\ x = (d[1] * Base + d[2]) * (Base * Base) + (d[3] * Base + d[4])
      BY <2>1, <2>2, <2>10 DEF Byte
    <3> DEFINE r == d[3] * Base + d[4]
    <3>2. r \in 0..(B2 - 1)
      <4> HIDE DEF B2
      <4> QED BY <2>4, <3>1
    <3>3. d[2] * B2 + r \in 0..(B3 - 1)
      <4> HIDE DEF B2, B3, r
      <4> QED BY <2>5, <3>1, <3>2
    <3>4. x = d[1] * B3 + (d[2] * B2 + r)
      <4>1. PICK a \in Nat, b2 \in Nat : d[1] = a /\ d[2] = b2
        BY <3>1
      <4>2. r \in Nat
        BY <2>3, <3>2
      <4>3. x = (a * Base + b2) * (Base * Base) + r
        BY <3>1, <4>1
      <4> HIDE DEF r, x
      <4>4. (a * Base + b2) * (Base * Base) = a * (Base * Base * Base) + b2 * (Base * Base)
        BY <2>3
      <4>5. a * (Base * Base * Base) \in Nat /\ b2 * (Base * Base) \in Nat
        BY <2>3
      <4>6. QED
        BY <4>1, <4>2, <4>3, <4>4, <4>5
    <3>5. x \in 0..(Base4 - 1)
      <4> DEFINE s == d[2] * B2 + r
      <4>1. s \in 0..(B3 - 1) /\ x = d[1] * B3 + s
        BY <3>3, <3>4
      <4> HIDE DEF x, B3, s
      <4>2. QED
        BY <2>6, <3>1, <4>1
    <3>6. QED
      BY <3>5
  <2>11. QED
    BY <1>1, <2>7, <2>8, <2>9, <2>10
<1>2. CASE order = "big"
  BY <1>1, <1>2
<1>3. CASE order = "little"
  <2>1. Reverse(b) \in Seq(Byte) /\ Len(Reverse(b)) = Len(b)
    BY ReverseSeq
  <2>2. QED
    BY <1>1, <1>3, <2>1, LittleBig
<1>4. QED
  BY <1>2, <1>3

\* int64 arithmetic does not wrap on the length of a frame of up to Base^4 bytes.
LEMMA WrapSmall ==
    ASSUME NEW y \in 0..(Base4 + 15)
    PROVE  Wrap(y) = y
<1> DEFINE h == Word \div 2
<1>1. Base4 \in Nat /\ Base4 >= 16
  BY Powers DEF Base4
<1>2. Word = Base4 * Base4
  BY Powers DEF Word, Base4
<1>3. Base4 * Base4 \in Nat /\ Base4 * Base4 >= 16 * Base4
  <2>1. Base4 * (Base4 - 16) >= 0 /\ Base4 * (Base4 - 16) = Base4 * Base4 - 16 * Base4
    BY <1>1
  <2>2. Base4 * Base4 \in Nat
    BY <1>1
  <2> DEFINE w == Base4 * Base4
  <2>3. w - 16 * Base4 >= 0 /\ w \in Nat
    BY <2>1, <2>2
  <2> HIDE DEF w
  <2>4. w >= 16 * Base4
    BY <1>1, <2>3
  <2>5. QED
    BY <2>2, <2>4 DEF w
<1>4. Word \in Nat /\ Word >= 16 * Base4
  BY <1>2, <1>3
<1> DEFINE w == Word
<1>5. w \in Nat /\ w >= 16 * Base4
  BY <1>4
<1> HIDE DEF w
<1>6. (w \div 2) \in Nat /\ 2 * (w \div 2) <= w /\ w <= 2 * (w \div 2) + 1
  BY <1>5
<1>7. h = w \div 2
  BY DEF w
<1> HIDE DEF h
<1>8. y + h \in 0..(w - 1) /\ h \in Nat /\ w > 0
  BY <1>1, <1>5, <1>6, <1>7
<1>9. (0 * w + (y + h)) % w = y + h
  BY <1>5, <1>8, QuotRem
<1>10. (y + h) % w = y + h
  BY <1>5, <1>8, <1>9
<1>11. QED
  <2>1. Wrap(y) = ((y + h) % w) - h
    BY DEF Wrap, w, h
  <2>2. QED
    BY <1>8, <1>10, <2>1

-----------------------------------------------------------------------------
(* The fields of a frame.                                                  *)

\* A sequence and its three parts.
LEMMA ThreeParts ==
    ASSUME NEW S, NEW s \in Seq(S), NEW a \in Nat, NEW b \in Nat, a <= b, b <= Len(s)
    PROVE  SubSeq(s, 1, a) \o SubSeq(s, a + 1, b) \o SubSeq(s, b + 1, Len(s)) = s
<1> DEFINE n == Len(s)
           p == SubSeq(s, 1, a)
           q == SubSeq(s, a + 1, b)
           r == SubSeq(s, b + 1, n)
<1>1. n \in Nat /\ b <= n
  BY LenProperties
<1>2. p \in Seq(S) /\ Len(p) = a /\ \A i \in 1..a : p[i] = s[i]
  <2>1. /\ SubSeq(s, 0 + 1, a) \in Seq(S)
        /\ Len(SubSeq(s, 0 + 1, a)) = IF 0 < a THEN a - 0 ELSE 0
        /\ \A i \in 1..(a - 0) : SubSeq(s, 0 + 1, a)[i] = s[0 + i]
    <3>1. 0 \in Nat /\ a \in Int /\ a <= Len(s)
      BY <1>1
    <3>2. QED
      BY <3>1, Piece
  <2>2. QED
    BY <2>1
<1>3. q \in Seq(S) /\ Len(q) = b - a /\ \A i \in 1..(b - a) : q[i] = s[a + i]
  <2>1. /\ q \in Seq(S) /\ Len(q) = IF a < b THEN b - a ELSE 0
        /\ \A i \in 1..(b - a) : q[i] = s[a + i]
    BY <1>1, Piece
  <2>2. QED
    BY <2>1
<1>4. r \in Seq(S) /\ Len(r) = n - b /\ \A i \in 1..(n - b) : r[i] = s[b + i]
  <2>1. /\ r \in Seq(S) /\ Len(r) = IF b < n THEN n - b ELSE 0
        /\ \A i \in 1..(n - b) : r[i] = s[b + i]
    BY <1>1, Piece
  <2>2. QED
    BY <1>1, <2>1
<1> HIDE DEF n, p, q, r
<1> DEFINE t == p \o q
<1>5. /\ t \in Seq(S) /\ Len(t) = b
      /\ \A i \in 1..b : t[i] = IF i <= a THEN p[i] ELSE q[i - a]
  <2>1. /\ t \in Seq(S) /\ Len(t) = Len(p) + Len(q)
        /\ \A i \in 1..(Len(p) + Len(q)) : t[i] = IF i <= Len(p) THEN p[i] ELSE q[i - Len(p)]
    BY <1>2, <1>3, ConcatProperties
  <2> HIDE DEF t
  <2>2. Len(p) + Len(q) = b
    BY <1>2, <1>3
  <2>3. QED
    BY <1>2, <2>1, <2>2
<1>6. \A i \in 1..b : t[i] = s[i]
  BY <1>2, <1>3, <1>5
<1> HIDE DEF t
<1>7. /\ t \o r \in Seq(S) /\ Len(t \o r) = n
      /\ \A i \in 1..n : (t \o r)[i] = IF i <= b THEN t[i] ELSE r[i - b]
  <2>1. /\ t \o r \in Seq(S) /\ Len(t \o r) = Len(t) + Len(r)
        /\ \A i \in 1..(Len(t) + Len(r)) :
              (t \o r)[i] = IF i <= Len(t) THEN t[i] ELSE r[i - Len(t)]
    BY <1>4, <1>5, ConcatProperties
  <2>2. Len(t) + Len(r) = n
    BY <1>1, <1>4, <1>5
  <2>3. QED
    BY <1>5, <2>1, <2>2
<1>8. \A i \in 1..n : (t \o r)[i] = s[i]
  BY <1>1, <1>4, <1>6, <1>7
<1>9. t \o r = s
  BY <1>7, <1>8, SeqEqual DEF n
<1>10. QED
  BY <1>9 DEF n, p, q, r, t

\* The two numbers at the front of a TLV or LTV frame, and what follows them.
LEMMA Header8 ==
    ASSUME NEW s \in Seq(Byte), 2 * UintBytes <= Len(s), NEW order \in {"big", "little"}
    PROVE  /\ Uint32(First(s), order) \in Nat /\ Uint32(Second(s), order) \in Nat
           /\ Bytes(Uint32(First(s), order), order)
                \o Bytes(Uint32(Second(s), order), order)
                \o SubSeq(s, 2 * UintBytes + 1, Len(s)) = s
<1> DEFINE u == UintBytes
<1>1. u \in Nat /\ u > 0 /\ 2 * u <= Len(s) /\ Len(s) \in Nat
  BY UintAssumption, LenProperties
<1>2. First(s) \in Seq(Byte) /\ Len(First(s)) = u
  <2>1. /\ SubSeq(s, 0 + 1, u) \in Seq(Byte)
        /\ Len(SubSeq(s, 0 + 1, u)) = IF 0 < u THEN u - 0 ELSE 0
    <3>1. 0 \in Nat /\ u \in Int /\ u <= Len(s)
      BY <1>1
    <3>2. QED
      BY <3>1, Piece
  <2>2. QED
    BY <1>1, <2>1 DEF First
<1>3. Second(s) \in Seq(Byte) /\ Len(Second(s)) = u
  <2>1. /\ SubSeq(s, u + 1, 2 * u) \in Seq(Byte)
        /\ Len(SubSeq(s, u + 1, 2 * u)) = IF u < 2 * u THEN 2 * u - u ELSE 0
    <3>1. u \in Nat /\ 2 * u \in Int /\ 2 * u <= Len(s)
      BY <1>1
    <3> HIDE DEF u
    <3>2. QED
      BY <3>1, Piece
  <2>2. QED
    BY <1>1, <2>1 DEF Second
<1>4. First(s) \o Second(s) \o SubSeq(s, 2 * u + 1, Len(s)) = s
  <2>1. u \in Nat /\ 2 * u \in Nat /\ u <= 2 * u /\ 2 * u <= Len(s)
    BY <1>1
  <2>2. First(s) = SubSeq(s, 1, u) /\ Second(s) = SubSeq(s, u + 1, 2 * u)
    BY DEF First, Second
  <2> HIDE DEF u
  <2>3. QED
    BY <2>1, <2>2, ThreeParts
<1>5. QED
  BY <1>2, <1>3, <1>4, RoundTrip

\* The length fields of gdecoder.
GrayField == lf \in {TLVField, LTVField, HTLVField}

\* A frame as such a length field delimits it.
Framed(f) ==
    /\ f \in Seq(Byte)
    /\ LengthFieldEndOffset <= Len(f)
    /\ Len(f) = UnadjustedLength(f) + lf.LengthAdjustment + LengthFieldEndOffset

\* What the length fields of gdecoder have in common.
LEMMA FieldFacts ==
    ASSUME GrayField
    PROVE  /\ lf.LengthFieldOffset \in Nat /\ lf.LengthFieldLength \in 1..4
           /\ lf.LengthAdjustment \in 0..4 /\ LengthFieldEndOffset \in 1..8
           /\ lf.LengthAdjustment + LengthFieldEndOffset <= 8
           /\ LengthFieldEndOffset = lf.LengthFieldOffset + lf.LengthFieldLength
           /\ lf.InitialBytesToStrip = 0 /\ lf.Order \in {"big", "little"}
<1>1. UintBytes \in 1..4
  BY UintAssumption
<1>2. CASE lf = TLVField
  BY <1>1, <1>2 DEF TLVField, Field, LengthFieldEndOffset
<1>3. CASE lf = LTVField
  BY <1>1, <1>3 DEF LTVField, Field, LengthFieldEndOffset
<1>4. CASE lf = HTLVField
  BY <1>4 DEF HTLVField, Field, LengthFieldEndOffset
<1>5. QED
  BY <1>2, <1>3, <1>4 DEF GrayField

\* The bytes of the length field.
LEMMA LengthBytesSeq ==
    ASSUME GrayField, NEW s \in Seq(Byte), LengthFieldEndOffset <= Len(s)
    PROVE  /\ LengthBytes(s) \in Seq(Byte) /\ Len(LengthBytes(s)) = lf.LengthFieldLength
           /\ UnadjustedLength(s) \in 0..(Base4 - 1)
           /\ FrameLength(s) = UnadjustedLength(s) + lf.LengthAdjustment + LengthFieldEndOffset
<1> DEFINE lo == lf.LengthFieldOffset
           hi == LengthFieldEndOffset
<1>1. /\ lo \in Nat /\ hi \in Nat /\ hi = lo + lf.LengthFieldLength /\ lo < hi
      /\ lf.LengthFieldLength \in 1..4 /\ hi <= Len(s)
  BY FieldFacts
<1>2. LengthBytes(s) = SubSeq(s, lo + 1, hi)
  BY DEF LengthBytes, LengthFieldEndOffset
<1> HIDE DEF lo, hi
<1>3. LengthBytes(s) \in Seq(Byte) /\ Len(LengthBytes(s)) = lf.LengthFieldLength
  <2>1. /\ SubSeq(s, lo + 1, hi) \in Seq(Byte)
        /\ Len(SubSeq(s, lo + 1, hi)) = IF lo < hi THEN hi - lo ELSE 0
    BY <1>1, Piece
  <2>2. QED
    BY <1>1, <1>2, <2>1, SMTT(30)
<1>4. UnadjustedLength(s) \in 0..(Base4 - 1)
  <2>1. lf.Order \in {"big", "little"}
    BY FieldFacts
  <2>2. QED
    BY <1>1, <1>3, <2>1, FieldBound DEF UnadjustedLength
<1>5. UnadjustedLength(s) + lf.LengthAdjustment + LengthFieldEndOffset \in 0..(Base4 + 15)
  <2> DEFINE u == UnadjustedLength(s)
             a == lf.LengthAdjustment
             e == LengthFieldEndOffset
  <2>1. Base4 \in Nat /\ u \in 0..(Base4 - 1)
    BY <1>4, Powers DEF Base4
  <2>2. a \in 0..4 /\ e \in 1..8 /\ a + e <= 8
    BY FieldFacts
  <2> HIDE DEF u, a, e
  <2>3. u + a + e \in 0..(Base4 + 15)
    BY <2>1, <2>2
  <2>4. QED
    BY <2>3 DEF u, a, e
<1>6. QED
  BY <1>3, <1>4, <1>5, WrapSmall DEF FrameLength

\* A step that cuts a frame off cuts one that its length field delimits.
LEMMA FrameCut ==
    ASSUME TypeOK, GrayField, DecodeFrame
    PROVE  /\ Framed(SubSeq(Buffer, 1, FrameLength(Buffer)))
           /\ resp' = Append(resp, SubSeq(Buffer, 1, FrameLength(Buffer)))
<1> DEFINE k == FrameLength(Buffer)
           arr == SubSeq(Buffer, 1, k)
           hi == LengthFieldEndOffset
           lo == lf.LengthFieldOffset
<1>1. /\ Buffer \in Seq(Byte) /\ Len(Buffer) \in Nat /\ hi <= Len(Buffer) /\ hi \in Nat
      /\ lo \in Nat /\ hi = lo + lf.LengthFieldLength /\ k <= Len(Buffer)
  <2>1. Buffer \in Seq(Byte) /\ Len(Buffer) \in Nat
    BY BufferType, LenProperties
  <2>2. hi \in Nat /\ lo \in Nat /\ hi = lo + lf.LengthFieldLength
    BY FieldFacts
  <2>3. Len(Buffer) >= hi /\ Len(Buffer) >= k
    BY DEF DecodeFrame, FrameComplete, LengthRead, HeaderRead
  <2>4. k \in Int
    BY LengthReadTypes DEF DecodeFrame, FrameComplete
  <2>5. QED
    BY <2>1, <2>2, <2>3, <2>4
<1>2. k = UnadjustedLength(Buffer) + lf.LengthAdjustment + hi
      /\ UnadjustedLength(Buffer) \in Nat /\ lf.LengthAdjustment \in Nat
  BY <1>1, LengthBytesSeq, FieldFacts, Powers, SMTT(30) DEF Base4
<1>3. resp' = Append(resp, arr)
  <2>1. resp' = Append(resp, SubSeq(Buffer, lf.InitialBytesToStrip + 1, k))
    BY DEF DecodeFrame
  <2>2. lf.InitialBytesToStrip + 1 = 1
    BY FieldFacts
  <2>3. QED
    BY <2>1, <2>2
<1> HIDE DEF k, hi, lo
<1>4. k \in Nat /\ hi <= k
  BY <1>1, <1>2
<1>5. /\ arr \in Seq(Byte) /\ Len(arr) = k
      /\ \A i \in 1..k : arr[i] = Buffer[i]
  <2>1. /\ SubSeq(Buffer, 0 + 1, k) \in Seq(Byte)
        /\ Len(SubSeq(Buffer, 0 + 1, k)) = IF 0 < k THEN k - 0 ELSE 0
        /\ \A i \in 1..(k - 0) : SubSeq(Buffer, 0 + 1, k)[i] = Buffer[0 + i]
    <3>1. 0 \in Nat /\ k \in Int /\ k <= Len(Buffer)
      BY <1>1, <1>4
    <3>2. QED
      BY <1>1, <3>1, Piece
  <2>2. QED
    BY <1>4, <2>1
<1> HIDE DEF arr
<1>6. SubSeq(arr, lo + 1, hi) = SubSeq(Buffer, lo + 1, hi)
  <2> DEFINE a == SubSeq(arr, lo + 1, hi)
             b == SubSeq(Buffer, lo + 1, hi)
  <2>1. /\ a \in Seq(Byte) /\ Len(a) = IF lo < hi THEN hi - lo ELSE 0
        /\ \A i \in 1..(hi - lo) : a[i] = arr[lo + i]
    BY <1>1, <1>4, <1>5, Piece
  <2>2. /\ b \in Seq(Byte) /\ Len(b) = IF lo < hi THEN hi - lo ELSE 0
        /\ \A i \in 1..(hi - lo) : b[i] = Buffer[lo + i]
    BY <1>1, Piece
  <2> HIDE DEF a, b
  <2>3. \A i \in 1..Len(a) : a[i] = b[i]
    <3>1. TAKE i \in 1..Len(a)
    <3>2. i \in 1..(hi - lo) /\ lo + i \in 1..k
      BY <1>1, <1>4, <2>1
    <3>3. QED
      BY <1>5, <2>1, <2>2, <3>2
  <2>4. a = b
    BY <2>1, <2>2, <2>3, SeqEqual
  <2>5. QED
    BY <2>4 DEF a, b
<1>7. UnadjustedLength(arr) = UnadjustedLength(Buffer)
  BY <1>6 DEF UnadjustedLength, LengthBytes, LengthFieldEndOffset, hi, lo
<1>8. Framed(arr)
  BY <1>2, <1>4, <1>5, <1>7 DEF Framed, hi
<1>9. QED
  BY <1>3, <1>8 DEF arr, k

\* The frames that were cut off so far.
FramedInv ==
    GrayField =>
        /\ \A i \in 1..Len(out) : Framed(out[i])
        /\ \A i \in 1..Len(resp) : Framed(resp[i])

\* A return moves the frames of a call to those of the calls before it.
LEMMA ReturnFramed ==
    ASSUME TypeOK, FramedInv, lf' = lf, ReturnFrames \/ Panic
    PROVE  FramedInv'
<1> SUFFICES ASSUME GrayField
             PROVE  /\ \A i \in 1..Len(out') : Framed(out'[i])
                    /\ \A i \in 1..Len(resp') : Framed(resp'[i])
  BY DEF FramedInv, GrayField, Framed, LengthFieldEndOffset, UnadjustedLength, LengthBytes
<1>1. /\ out \in Seq(Seq(Byte)) /\ resp \in Seq(Seq(Byte))
      /\ Len(out) \in Nat /\ Len(resp) \in Nat
  BY LenProperties DEF TypeOK
<1>2. resp' = <<>> /\ (out' = out \/ out' = out \o resp)
  BY DEF ReturnFrames, Panic
<1>3. \A i \in 1..Len(resp') : Framed(resp'[i])
  BY <1>2
<1>4. CASE out' = out
  BY <1>3, <1>4 DEF FramedInv
<1>5. CASE out' = out \o resp
  <2>1. /\ Len(out \o resp) = Len(out) + Len(resp)
        /\ \A i \in 1..(Len(out) + Len(resp)) :
              (out \o resp)[i] = IF i <= Len(out) THEN out[i] ELSE resp[i - Len(out)]
    BY <1>1, ConcatProperties
  <2>2. \A i \in 1..Len(out) : Framed(out[i])
    BY DEF FramedInv
  <2>3. \A i \in 1..Len(resp) : Framed(resp[i])
    BY DEF FramedInv
  <2>4. ASSUME NEW i \in 1..(Len(out) + Len(resp))
        PROVE  Framed((out \o resp)[i])
    <3>1. CASE i <= Len(out)
      <4>1. i \in 1..Len(out) /\ (out \o resp)[i] = out[i]
        BY <1>1, <2>1, <3>1
      <4>2. QED
        BY <2>2, <4>1
    <3>2. CASE ~(i <= Len(out))
      <4>1. i - Len(out) \in 1..Len(resp) /\ (out \o resp)[i] = resp[i - Len(out)]
        BY <1>1, <2>1, <3>2
      <4>2. QED
        BY <2>3, <4>1
    <3>3. QED
      BY <3>1, <3>2
  <2>5. QED
    BY <1>3, <1>5, <2>1, <2>4
<1>6. QED
  BY <1>2, <1>4, <1>5

\* Every step keeps the frames as their length field delimits them.
LEMMA FramedStep == TypeOK /\ FramedInv /\ [Next]_vars => FramedInv'
<1> SUFFICES ASSUME TypeOK, FramedInv, [Next]_vars PROVE FramedInv'
  OBVIOUS
<1>1. ASSUME lf' = lf, out' = out, resp' = resp PROVE FramedInv'
  BY <1>1 DEF FramedInv, GrayField, Framed, LengthFieldEndOffset, UnadjustedLength, LengthBytes
<1>2. ASSUME NEW buff \in Chunks, Decode(buff) PROVE FramedInv'
  BY <1>1, <1>2 DEF Decode
<1>3. CASE HalfHeader \/ UnsupportedLength \/ failOnNegativeLengthField \/ HalfFrame
           \/ exceededFrameLength \/ failOnFrameLengthLessThanInitialBytesToStrip
  <2>1. lf' = lf /\ (ReturnFrames \/ Panic)
    BY <1>3 DEF HalfHeader, UnsupportedLength, failOnNegativeLengthField, HalfFrame,
                exceededFrameLength, failOnFrameLengthLessThanInitialBytesToStrip
  <2>2. QED
    BY <2>1, ReturnFramed
<1>4. CASE DecodeFrame
  <2>1. SUFFICES ASSUME GrayField
                 PROVE  /\ \A i \in 1..Len(out') : Framed(out'[i])
                        /\ \A i \in 1..Len(resp') : Framed(resp'[i])
    <3>1. lf' = lf
      BY <1>4 DEF DecodeFrame
    <3>2. QED
      BY <3>1 DEF FramedInv, GrayField, Framed, LengthFieldEndOffset, UnadjustedLength,
                  LengthBytes
  <2> DEFINE arr == SubSeq(Buffer, 1, FrameLength(Buffer))
  <2>2. Framed(arr) /\ resp' = Append(resp, arr) /\ out' = out
    BY <1>4, <2>1, FrameCut DEF DecodeFrame
  <2> HIDE DEF arr
  <2>3. resp \in Seq(Seq(Byte)) /\ arr \in Seq(Byte) /\ Len(resp) \in Nat
    BY <2>2, LenProperties DEF TypeOK, Framed
  <2>4. /\ Len(resp') = Len(resp) + 1 /\ resp'[Len(resp) + 1] = arr
        /\ \A i \in 1..Len(resp) : resp'[i] = resp[i]
    BY <2>2, <2>3, AppendProperties
  <2>5. /\ \A i \in 1..Len(out) : Framed(out[i])
        /\ \A i \in 1..Len(resp) : Framed(resp[i])
    BY <2>1 DEF FramedInv
  <2>6. ASSUME NEW i \in 1..Len(resp') PROVE Framed(resp'[i])
    <3>1. CASE i = Len(resp) + 1
      BY <2>2, <2>4, <3>1
    <3>2. CASE i \in 1..Len(resp)
      BY <2>4, <2>5, <3>2
    <3>3. QED
      BY <2>3, <2>4, <3>1, <3>2
  <2>7. QED
    BY <2>2, <2>5, <2>6
<1>5. CASE UNCHANGED vars
  BY <1>1, <1>5 DEF vars, decoderVars
<1>6. QED
  BY <1>2, <1>3, <1>4, <1>5 DEF Next, decode

\* The message the TLV and LTV decoders make of a frame of the length it announces.
LEMMA DecodedWhole ==
    ASSUME NEW f \in Seq(Byte), NEW tag, NEW length \in Nat,
           Len(f) = 2 * UintBytes + length, Len(f) < UintMod
    PROVE  Decoded(tag, length, f) =
              [ID |-> tag, DataLen |-> length, Data |-> SubSeq(f, 2 * UintBytes + 1, Len(f))]
<1> DEFINE h == 2 * UintBytes
           n == Len(f)
<1>1. h \in Nat /\ n = h + length /\ n \in 0..(UintMod - 1) /\ UintMod \in Nat /\ UintMod > 0
  BY UintAssumption, LenProperties
<1>2. TLV_HEADER_SIZE = h
  BY DEF TLV_HEADER_SIZE
<1> HIDE DEF h, n
<1>3. (0 * UintMod + n) % UintMod = n
  BY <1>1, QuotRem
<1>4. (h + length) % UintMod = n /\ n \in h..n
  BY <1>1, <1>3
<1>5. QED
  BY <1>2, <1>4 DEF Decoded, h, n

\* A TLV frame is decoded to a message that DataPack packs to the same frame.
LEMMA TLVFrame ==
    ASSUME lf = TLVField, NEW f, Framed(f), Len(f) < UintMod
    PROVE  LET m == InterceptTLV(NewMessage(f))
           IN  /\ f = PackTLV(m) /\ m.DataLen = Len(m.Data)
               /\ UnpackTLV(f) \in {TooLarge, [ID |-> m.ID, DataLen |-> m.DataLen]}
<1> DEFINE u == UintBytes
           tag == Uint32(First(f), "big")
           length == Uint32(Second(f), "big")
           value == SubSeq(f, 2 * UintBytes + 1, Len(f))
           m == InterceptTLV(NewMessage(f))
<1>1. u \in 1..4 /\ GrayField /\ f \in Seq(Byte) /\ Len(f) \in Nat
  BY UintAssumption, LenProperties DEF GrayField, Framed
<1>2. /\ lf.LengthFieldOffset = u /\ lf.LengthFieldLength = u /\ lf.LengthAdjustment = 0
      /\ lf.Order = "big"
  BY DEF TLVField, Field
<1>3. LengthFieldEndOffset = 2 * u /\ LengthBytes(f) = Second(f)
  <2>1. LengthFieldEndOffset = u + u /\ LengthBytes(f) = SubSeq(f, u + 1, u + u)
    BY <1>2 DEF LengthFieldEndOffset, LengthBytes
  <2>2. u + u = 2 * u
    BY <1>1
  <2>3. QED
    BY <2>1, <2>2 DEF Second
<1>4. UnadjustedLength(f) = length
  BY <1>2, <1>3 DEF UnadjustedLength, Uint32
<1>5. 2 * u <= Len(f) /\ Len(f) = length + 0 + 2 * u
  BY <1>2, <1>3, <1>4 DEF Framed
<1>6. tag \in Nat /\ length \in Nat /\ Bytes(tag, "big") \o Bytes(length, "big") \o value = f
  BY <1>1, <1>5, Header8
<1> HIDE DEF tag, length
<1>7. m = [ID |-> tag, DataLen |-> length, Data |-> value]
  <2>1. m = TLVdecode(f)
    BY <1>1, <1>5 DEF InterceptTLV, NewMessage, TLV_HEADER_SIZE
  <2>2. TLVdecode(f) = Decoded(tag, length, f)
    BY DEF TLVdecode, tag, length
  <2>3. Len(f) = 2 * UintBytes + length
    BY <1>1, <1>5, <1>6
  <2>4. QED
    BY <1>1, <1>6, <2>1, <2>2, <2>3, DecodedWhole
<1>8. Len(value) = length
  <2>1. Len(value) = IF 2 * u < Len(f) THEN Len(f) - 2 * u ELSE 0
    BY <1>1, <1>5, Piece
  <2>2. QED
    BY <1>1, <1>5, <1>6, <2>1
<1> HIDE DEF value, m
<1>9. PackTLV(m) = f /\ m.DataLen = Len(m.Data) /\ m.ID = tag /\ m.DataLen = length
  BY <1>6, <1>7, <1>8 DEF PackTLV
<1>10. UnpackTLV(f) \in {TooLarge, [ID |-> m.ID, DataLen |-> m.DataLen]}
  BY <1>9 DEF UnpackTLV, Header, tag, length
<1>11. QED
  BY <1>9, <1>10 DEF m

\* The same of a LTV frame and DataPackLtv.
LEMMA LTVFrame ==
    ASSUME lf = LTVField, NEW f, Framed(f), Len(f) < UintMod
    PROVE  LET m == InterceptLTV(NewMessage(f))
           IN  /\ f = PackLTV(m) /\ m.DataLen = Len(m.Data)
               /\ UnpackLTV(f) \in {TooLarge, [ID |-> m.ID, DataLen |-> m.DataLen]}
<1> DEFINE u == UintBytes
           tag == Uint32(Second(f), "little")
           length == Uint32(First(f), "little")
           value == SubSeq(f, 2 * UintBytes + 1, Len(f))
           m == InterceptLTV(NewMessage(f))
<1>1. u \in 1..4 /\ GrayField /\ f \in Seq(Byte) /\ Len(f) \in Nat
  BY UintAssumption, LenProperties DEF GrayField, Framed
<1>2. /\ lf.LengthFieldOffset = 0 /\ lf.LengthFieldLength = u /\ lf.LengthAdjustment = u
      /\ lf.Order = "little"
  BY DEF LTVField, Field
<1>3. LengthFieldEndOffset = u /\ LengthBytes(f) = First(f)
  <2>1. LengthFieldEndOffset = 0 + u /\ LengthBytes(f) = SubSeq(f, 0 + 1, 0 + u)
    BY <1>2 DEF LengthFieldEndOffset, LengthBytes
  <2>2. 0 + u = u /\ 0 + 1 = 1
    BY <1>1
  <2>3. QED
    BY <2>1, <2>2 DEF First
<1>4. UnadjustedLength(f) = length
  BY <1>2, <1>3 DEF UnadjustedLength, Uint32
<1>5. Len(f) = length + u + u /\ length \in 0..(Base4 - 1)
  BY <1>1, <1>2, <1>3, <1>4, LengthBytesSeq DEF Framed
<1>6. 2 * u <= Len(f) /\ Len(f) = 2 * u + length
  <2>1. length \in Nat
    BY <1>5, Powers DEF Base4
  <2> HIDE DEF length, u
  <2>2. QED
    BY <1>1, <1>5, <2>1
<1>7. /\ tag \in Nat /\ length \in Nat
      /\ Bytes(length, "little") \o Bytes(tag, "little") \o value = f
  BY <1>1, <1>6, Header8
<1> HIDE DEF tag, length
<1>8. m = [ID |-> tag, DataLen |-> length, Data |-> value]
  <2>1. m = LTVdecode(f)
    BY <1>1, <1>6 DEF InterceptLTV, NewMessage, LTV_HEADER_SIZE
  <2>2. LTVdecode(f) = Decoded(tag, length, f)
    BY DEF LTVdecode, tag, length
  <2>3. QED
    BY <1>1, <1>6, <1>7, <2>1, <2>2, DecodedWhole
<1>9. Len(value) = length
  <2>1. Len(value) = IF 2 * u < Len(f) THEN Len(f) - 2 * u ELSE 0
    BY <1>1, <1>6, Piece
  <2>2. QED
    BY <1>1, <1>6, <1>7, <2>1
<1> HIDE DEF value, m
<1>10. PackLTV(m) = f /\ m.DataLen = Len(m.Data) /\ m.ID = tag /\ m.DataLen = length
  BY <1>7, <1>8, <1>9 DEF PackLTV
<1>11. UnpackLTV(f) \in {TooLarge, [ID |-> m.ID, DataLen |-> m.DataLen]}
  BY <1>10 DEF UnpackLTV, Header, tag, length
<1>12. QED
  BY <1>10, <1>11 DEF m

\* A HTLV frame with the right CRC is decoded to its fields.
LEMMA HTLVFrame ==
    ASSUME lf = HTLVField, NEW f, Framed(f), InterceptHTLV(NewMessage(f)) # Panicked
    PROVE  LET m == InterceptHTLV(NewMessage(f))
           IN  f = PackHTLV(m) /\ m.Length = Len(m.Body)
<1> DEFINE n == Len(f)
           m == InterceptHTLV(NewMessage(f))
           body == SubSeq(f, 4, n - 2)
           crc == SubSeq(f, n - 1, n)
<1>1. GrayField /\ f \in Seq(Byte) /\ n \in Nat
  BY LenProperties DEF GrayField, Framed
<1>2. /\ lf.LengthFieldOffset = 2 /\ lf.LengthFieldLength = 1 /\ lf.LengthAdjustment = 2
      /\ lf.Order = "big" /\ LengthFieldEndOffset = 3
  BY DEF HTLVField, Field, LengthFieldEndOffset
<1>3. 3 <= n /\ n = UnadjustedLength(f) + 2 + 3
  BY <1>2 DEF Framed
<1>4. UnadjustedLength(f) = f[3] /\ f[3] \in Nat
  <2>1. LengthBytes(f) = SubSeq(f, 2 + 1, 3)
    BY <1>2 DEF LengthBytes, LengthFieldEndOffset
  <2>2. /\ SubSeq(f, 2 + 1, 3) \in Seq(Byte)
        /\ Len(SubSeq(f, 2 + 1, 3)) = IF 2 < 3 THEN 3 - 2 ELSE 0
        /\ \A i \in 1..(3 - 2) : SubSeq(f, 2 + 1, 3)[i] = f[2 + i]
    <3>1. 2 \in Nat /\ 3 \in Int
      OBVIOUS
    <3>2. QED
      BY <1>1, <1>3, <3>1, Piece
  <2> DEFINE b == LengthBytes(f)
  <2>3. Len(b) = 1 /\ b[1] = f[3]
    BY <2>1, <2>2
  <2>4. f[3] \in Byte
    BY <1>1, <1>3, ElementOfSeq
  <2>5. UnadjustedLength(f) = getUnadjustedFrameLength(b, "big")
    BY <1>2 DEF UnadjustedLength
  <2> HIDE DEF b
  <2>6. getUnadjustedFrameLength(b, "big") = b[1]
    BY <2>3 DEF getUnadjustedFrameLength
  <2>7. QED
    BY <2>3, <2>4, <2>5, <2>6 DEF Byte
<1>5. 5 <= n /\ n = f[3] + 5
  BY <1>1, <1>3, <1>4
<1>6. m = [ID |-> f[2], Head |-> f[1], Funcode |-> f[2], Length |-> f[3],
           Body |-> body, Crc |-> crc]
  <2>1. m = HTLVdecode(f)
    BY <1>1, <1>5 DEF InterceptHTLV, NewMessage, HEADER_SIZE
  <2>2. QED
    BY <2>1 DEF HTLVdecode
<1>7. Len(body) = f[3]
  <2> DEFINE k == n - 2
  <2>1. k \in Int /\ k <= n /\ 3 \in Nat /\ k = f[3] + 3
    <3> HIDE DEF n
    <3>1. QED
      BY <1>1, <1>4, <1>5
  <2>2. Len(SubSeq(f, 3 + 1, k)) = IF 3 < k THEN k - 3 ELSE 0
    <3> HIDE DEF k
    <3>1. QED
      BY <1>1, <2>1, Piece
  <2>3. QED
    BY <1>4, <2>1, <2>2
<1>8. <<f[1], f[2], f[3]>> \o body \o crc = f
  <2> DEFINE k == n - 2
  <2>1. k \in Nat /\ 3 \in Nat /\ 3 <= k /\ k <= Len(f) /\ n - 1 = k + 1
    BY <1>1, <1>5
  <2>2. SubSeq(f, 1, 3) \o SubSeq(f, 3 + 1, k) \o SubSeq(f, k + 1, Len(f)) = f
    <3> HIDE DEF k
    <3>1. QED
      BY <1>1, <2>1, ThreeParts
  <2>3. SubSeq(f, 1, 3) = <<f[1], f[2], f[3]>>
    <3>1. /\ SubSeq(f, 0 + 1, 3) \in Seq(Byte)
          /\ Len(SubSeq(f, 0 + 1, 3)) = IF 0 < 3 THEN 3 - 0 ELSE 0
          /\ \A i \in 1..(3 - 0) : SubSeq(f, 0 + 1, 3)[i] = f[0 + i]
      <4>1. 0 \in Nat /\ 3 \in Int
        OBVIOUS
      <4>2. QED
        BY <1>1, <1>3, <4>1, Piece
    <3> DEFINE s == SubSeq(f, 1, 3)
               t == <<f[1], f[2], f[3]>>
    <3>2. s \in Seq(Byte) /\ Len(s) = 3 /\ s[1] = f[1] /\ s[2] = f[2] /\ s[3] = f[3]
      BY <3>1
    <3>3. f[1] \in Byte /\ f[2] \in Byte /\ f[3] \in Byte
      BY <1>1, <1>3, ElementOfSeq
    <3>4. t \in Seq(Byte) /\ Len(t) = 3 /\ t[1] = f[1] /\ t[2] = f[2] /\ t[3] = f[3]
      BY <3>3
    <3> HIDE DEF s, t
    <3>5. \A i \in 1..Len(s) : s[i] = t[i]
      BY <3>2, <3>4
    <3>6. s = t
      BY <3>2, <3>4, <3>5, SeqEqual
    <3>7. QED
      BY <3>6 DEF s, t
  <2>4. body = SubSeq(f, 3 + 1, k) /\ crc = SubSeq(f, k + 1, Len(f))
    <3>1. 3 + 1 = 4 /\ n - 1 = k + 1
      BY <2>1
    <3> HIDE DEF k
    <3>2. QED
      BY <3>1 DEF k
  <2> HIDE DEF k, body, crc
  <2>5. QED
    BY <2>2, <2>3, <2>4
<1> HIDE DEF m, body, crc
<1>9. QED
  BY <1>6, <1>7, <1>8 DEF PackHTLV, m

\* What a sender has packed arrives, for every base, width of the length fields, stream
\* and division of it into reads.
THEOREM PackedArrives == Spec => []DecodedAsSent
<1>1. ASSUME FramedInv, TypeOK PROVE DecodedAsSent
  <2>1. TLVField # LTVField /\ TLVField # HTLVField /\ LTVField # HTLVField
    BY UintAssumption DEF TLVField, LTVField, HTLVField, Field
  <2> SUFFICES ASSUME NEW i \in 1..Len(Frames), GrayField
               PROVE  LET frame == Frames[i]
                          m == CASE lf = TLVField -> InterceptTLV(NewMessage(frame))
                                 [] lf = LTVField -> InterceptLTV(NewMessage(frame))
                                 [] lf = HTLVField -> InterceptHTLV(NewMessage(frame))
                                 [] OTHER -> Panicked
                          header == IF lf = TLVField THEN UnpackTLV(frame)
                                                     ELSE UnpackLTV(frame)
                      IN  /\ lf \in {TLVField, LTVField} /\ Len(frame) < UintMod =>
                                /\ frame = IF lf = TLVField THEN PackTLV(m) ELSE PackLTV(m)
                                /\ m.DataLen = Len(m.Data)
                                /\ header \in {TooLarge, [ID |-> m.ID, DataLen |-> m.DataLen]}
                          /\ lf = HTLVField /\ m # Panicked =>
                                frame = PackHTLV(m) /\ m.Length = Len(m.Body)
    BY DEF DecodedAsSent, GrayField
  <2>2. Framed(Frames[i])
    <3>1. /\ out \in Seq(Seq(Byte)) /\ resp \in Seq(Seq(Byte))
          /\ Len(out) \in Nat /\ Len(resp) \in Nat
      BY <1>1, LenProperties DEF TypeOK
    <3>2. /\ Len(Frames) = Len(out) + Len(resp)
          /\ Frames[i] = IF i <= Len(out) THEN out[i] ELSE resp[i - Len(out)]
      BY <3>1, ConcatProperties DEF Frames
    <3>3. CASE i <= Len(out)
      BY <1>1, <3>1, <3>2, <3>3 DEF FramedInv
    <3>4. CASE ~(i <= Len(out))
      <4>1. i - Len(out) \in 1..Len(resp)
        BY <3>1, <3>2, <3>4
      <4>2. QED
        BY <1>1, <3>2, <3>4, <4>1 DEF FramedInv
    <3>5. QED
      BY <3>3, <3>4
  <2> DEFINE frame == Frames[i]
  <2> HIDE DEF frame
  <2>3. CASE lf = TLVField
    BY <2>1, <2>2, <2>3, TLVFrame DEF frame
  <2>4. CASE lf = LTVField
    BY <2>1, <2>2, <2>4, LTVFrame DEF frame
  <2>5. CASE lf = HTLVField
    BY <2>1, <2>2, <2>5, HTLVFrame DEF frame
  <2>6. QED
    BY <2>3, <2>4, <2>5 DEF GrayField
<1>2. Init => FramedInv
  BY DEF Init, FramedInv
<1>3. Init => TypeOK
  BY InitInv DEF IInv
<1>4. QED
  BY <1>1, <1>2, TypeCorrect, FramedStep, PTL DEF Spec
=============================================================================
