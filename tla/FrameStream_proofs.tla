-------------------------- MODULE FrameStream_proofs --------------------------
(***************************************************************************)
(* Proofs about FrameStream, for every stream, every codec, every number   *)
(* of values of a byte, and every way the stream is cut by the reads.      *)
(***************************************************************************)
EXTENDS FrameStream, Codec_proofs
------------------------------------------------------------------------------
(* The inputs.                                                             *)

\* What InputsAssumption says of one of them.
LEMMA InputType ==
    ASSUME NEW i \in Inputs
    PROVE  /\ i.stream \in Seq(Byte) /\ Len(i.stream) \in Nat /\ IsCodec(i.codec)
           /\ i.ends \in Seq(1 .. Len(i.stream)) /\ Len(i.ends) \in Nat
           /\ \A k \in 1 .. Len(i.ends) : i.ends[k] \in 1 .. Len(i.stream)
           /\ \A k, m \in 1 .. Len(i.ends) : k < m => i.ends[k] < i.ends[m]
<1>1. /\ i.stream \in Seq(Byte) /\ IsCodec(i.codec) /\ i.ends \in Seq(1 .. Len(i.stream))
      /\ \A k, m \in 1 .. Len(i.ends) : k < m => i.ends[k] < i.ends[m]
  BY InputsAssumption DEF Byte
<1>2. /\ Len(i.stream) \in Nat /\ Len(i.ends) \in Nat
      /\ \A k \in 1 .. Len(i.ends) : i.ends[k] \in 1 .. Len(i.stream)
  BY <1>1, LenProperties, ElementOfSeq
<1> QED BY <1>1, <1>2

\* The frames of the reference lie in the stream one after the other.
LEMMA CutAtType ==
    ASSUME NEW i \in Inputs, NEW k \in 0 .. Len(i.ends)
    PROVE  /\ CutAt(i, k) \in 0 .. Len(i.stream)
           /\ \A m \in 0 .. Len(i.ends) : k < m => CutAt(i, k) < CutAt(i, m)
<1>1. /\ Len(i.stream) \in Nat /\ Len(i.ends) \in Nat
      /\ \A m \in 1 .. Len(i.ends) : i.ends[m] \in 1 .. Len(i.stream)
      /\ \A m, n \in 1 .. Len(i.ends) : m < n => i.ends[m] < i.ends[n]
  BY InputType
<1>2. CASE k = 0
  BY <1>1, <1>2 DEF CutAt
<1>3. CASE k # 0
  <2>1. k \in 1 .. Len(i.ends) /\ CutAt(i, k) = i.ends[k]
    BY <1>3 DEF CutAt
  <2>2. ASSUME NEW m \in 0 .. Len(i.ends), k < m PROVE i.ends[k] < CutAt(i, m)
    <3>1. m \in 1 .. Len(i.ends) /\ CutAt(i, m) = i.ends[m]
      BY <2>1, <2>2 DEF CutAt
    <3> QED BY <1>1, <2>1, <2>2, <3>1
  <2> QED BY <1>1, <2>1, <2>2
<1> QED BY <1>2, <1>3

\* The piece of a frame, and where it ends in what is read from its beginning on.
LEMMA PieceType ==
    ASSUME NEW i \in Inputs, NEW k \in 0 .. Len(i.ends) - 1
    PROVE  LET n == CutAt(i, k + 1) - CutAt(i, k)
           IN  /\ n \in Nat \ {0} /\ CutAt(i, k) + n = CutAt(i, k + 1)
               /\ Piece(i, k + 1) = SubSeq(i.stream, CutAt(i, k) + 1, CutAt(i, k) + n)
               /\ Piece(i, k + 1) \in Seq(Byte) /\ Len(Piece(i, k + 1)) = n
               /\ CutAt(i, k) + n <= Len(i.stream)
<1> DEFINE a == CutAt(i, k)
           b == CutAt(i, k + 1)
<1>1. Len(i.ends) \in Nat /\ Len(i.stream) \in Nat /\ i.stream \in Seq(Byte)
  BY InputType
<1>2. k \in 0 .. Len(i.ends) /\ k + 1 \in 0 .. Len(i.ends) /\ k < k + 1
      /\ (k + 1) - 1 = k
  BY <1>1
<1>3. a \in 0 .. Len(i.stream) /\ b \in 0 .. Len(i.stream) /\ a < b
  BY <1>2, CutAtType
<1>4. Piece(i, k + 1) = SubSeq(i.stream, a + 1, b)
  BY <1>2 DEF Piece
<1> HIDE DEF a, b
<1>5. /\ b - a \in Nat \ {0} /\ a + (b - a) = b /\ b <= Len(i.stream)
      /\ a + 1 \in 1 .. Len(i.stream) + 1 /\ b \in (a + 1) - 1 .. Len(i.stream)
      /\ b - (a + 1) + 1 = b - a
  BY <1>1, <1>3
<1>6. SubSeq(i.stream, a + 1, b) \in Seq(Byte)
      /\ Len(SubSeq(i.stream, a + 1, b)) = b - (a + 1) + 1
  BY <1>1, <1>5, Part
<1> QED BY <1>4, <1>5, <1>6 DEF a, b

\* The frames of the reference: with the length field codec, up to the first message
\* that is empty.
LEMMA FrameCountType ==
    ASSUME NEW i \in Inputs, Aligned(i)
    PROVE  /\ FrameCount(i) \in 0 .. Len(i.ends)
           /\ i.codec.kind = "delimiter" => FrameCount(i) = Len(i.ends)
           /\ i.codec.kind = "length" =>
                 /\ \A k \in 1 .. FrameCount(i) : i.messages[k] # <<>>
                 /\ FrameCount(i) < Len(i.ends) => i.messages[FrameCount(i) + 1] = <<>>
<1>1. Len(i.ends) \in Nat
  BY InputType
<1>2. CASE i.codec.kind = "delimiter"
  BY <1>1, <1>2 DEF FrameCount
<1>3. CASE i.codec.kind = "length"
  <2> DEFINE last == Len(i.messages) + 1
             T == {k \in 1 .. last : k < last => i.messages[k] = <<>>}
  <2>1. Len(i.messages) = Len(i.ends) /\ last \in Nat
    BY <1>1, <1>3, InputsAssumption DEF IsEncoded
  <2>2. last \in T /\ T \subseteq Nat
    BY <2>1
  <2>3. FrameCount(i) = Min(T) - 1
    BY <1>3 DEF FrameCount
  <2>4. Min(T) \in T /\ \A k \in T : Min(T) <= k
    <3> HIDE DEF T
    <3>1. \E n \in T : \A k \in T : n <= k
      BY <2>2, LeastElement
    <3> QED BY <3>1 DEF Min
  <2> DEFINE m == Min(T)
  <2> HIDE DEF m
  <2>5. m \in 1 .. last /\ (m < last => i.messages[m] = <<>>)
    BY <2>4 DEF m
  <2>6. ASSUME NEW k \in 1 .. m - 1 PROVE i.messages[k] # <<>>
    <3>1. k \in 1 .. last /\ ~ (m <= k) /\ k < last
      BY <2>1, <2>5
    <3>2. k \notin T
      BY <2>4, <3>1 DEF m
    <3> QED BY <3>1, <3>2
  <2>7. FrameCount(i) = m - 1 /\ FrameCount(i) + 1 = m
    BY <2>3, <2>5 DEF m
  <2>8. FrameCount(i) \in 0 .. Len(i.ends)
    BY <1>1, <2>1, <2>5, <2>7
  <2>9. FrameCount(i) < Len(i.ends) => m < last
    BY <1>1, <2>1, <2>5, <2>7
  <2> QED BY <1>3, <2>5, <2>6, <2>7, <2>8, <2>9
<1> QED BY <1>2, <1>3 DEF Aligned

\* When all bytes of a piece have been read, it is what the unread input begins with.
LEMMA BeginsWithPiece ==
    ASSUME NEW i \in Inputs, NEW k \in 0 .. Len(i.ends) - 1,
           NEW p \in Seq(Byte), NEW r \in Seq(Byte),
           Continues(i.stream, CutAt(i, k), p, r),
           CutAt(i, k + 1) - CutAt(i, k) <= Len(p)
    PROVE  First(p, CutAt(i, k + 1) - CutAt(i, k)) = Piece(i, k + 1)
<1> DEFINE a == CutAt(i, k)
           n == CutAt(i, k + 1) - CutAt(i, k)
           s == i.stream
<1>1. /\ n \in Nat \ {0} /\ Piece(i, k + 1) = SubSeq(s, a + 1, a + n)
      /\ s \in Seq(Byte) /\ Len(i.ends) \in Nat /\ Len(p) \in Nat
  BY PieceType, InputType, LenProperties
<1>2. a \in 0 .. Len(s)
  BY <1>1, CutAtType
<1>3. Continues(s, a, p, r)
  OBVIOUS
<1>4. n <= Len(p)
  OBVIOUS
<1> HIDE DEF a, n, s
<1>5. 1 \in 1 .. Len(p) + 1 /\ n \in 1 - 1 .. Len(p)
  BY <1>1, <1>4
<1>6. SubSeq(p, 1, n) = SubSeq(s, a + 1, a + n)
  BY <1>1, <1>2, <1>3, <1>5, PartOfPrefix
<1> QED BY <1>1, <1>6 DEF First, n, s
------------------------------------------------------------------------------
(* The next frame: a decoder finds it when its last byte has been read.    *)

\* What the decoder must do with the unread input c after frame k.
FindsNext(i, k, c) ==
    LET d == Decode(i.codec, c)
        n == CutAt(i, k + 1) - CutAt(i, k)
    IN  /\ d.found <=> k < FrameCount(i) /\ n <= Len(Read(c))
        /\ d.found => d.frame = Frame(i, k + 1) /\ Taken(d, c) = n

\* Between two delimiters there is none.
LEMMA NoDelimiter ==
    ASSUME NEW i \in Inputs, i.codec.kind = "delimiter", NEW k \in 0 .. Len(i.ends),
           NEW j \in 1 .. Len(i.stream), CutAt(i, k) < j,
           k < Len(i.ends) => j < CutAt(i, k + 1)
    PROVE  i.stream[j] # i.codec.delimiter
<1> SUFFICES ASSUME i.stream[j] = i.codec.delimiter PROVE FALSE
  OBVIOUS
<1>1. PICK m \in 1 .. Len(i.ends) : j = i.ends[m]
  <2>1. IsDelimited(i)
    BY InputsAssumption
  <2>2. j \in {n \in 1 .. Len(i.stream) : i.stream[n] = i.codec.delimiter}
    OBVIOUS
  <2>3. j \in {i.ends[m] : m \in 1 .. Len(i.ends)}
    BY <2>1, <2>2, Zenon DEF IsDelimited
  <2> QED BY <2>3
<1>2. Len(i.ends) \in Nat /\ m \in 0 .. Len(i.ends) /\ j = CutAt(i, m) /\ j \in Nat
  BY <1>1, InputType DEF CutAt
<1>3. CutAt(i, k) \in Nat
  BY <1>2, CutAtType
<1>4. CASE m <= k
  <2>1. m # k
    BY <1>2, <1>3
  <2>2. m < k
    BY <1>2, <1>4, <2>1
  <2>3. CutAt(i, m) < CutAt(i, k)
    BY <1>2, <2>2, CutAtType
  <2> QED BY <1>2, <1>3, <2>3
<1>5. CASE ~ (m <= k)
  <2>1. k < Len(i.ends) /\ k + 1 \in 0 .. Len(i.ends) /\ (m = k + 1 \/ k + 1 < m)
    BY <1>2, <1>5
  <2>2. CutAt(i, k + 1) \in Nat /\ (k + 1 < m => CutAt(i, k + 1) < CutAt(i, m))
    BY <1>2, <2>1, CutAtType
  <2> QED BY <1>2, <2>1, <2>2
<1> QED BY <1>4, <1>5

\* The delimiter codecs.
LEMMA DelimiterNext ==
    ASSUME NEW i \in Inputs, i.codec.kind = "delimiter", NEW k \in 0 .. FrameCount(i),
           NEW c \in Conn, NEW r \in Seq(Byte),
           Continues(i.stream, CutAt(i, k), Read(c), r)
    PROVE  FindsNext(i, k, c)
<1> DEFINE p == Read(c)
           s == i.stream
           a == CutAt(i, k)
           n == CutAt(i, k + 1) - CutAt(i, k)
           d == Decode(i.codec, c)
<1>1. /\ FrameCount(i) = Len(i.ends) /\ Len(i.ends) \in Nat
      /\ s \in Seq(Byte) /\ Len(s) \in Nat /\ p \in Seq(Byte) /\ Len(p) \in Nat
  BY FrameCountType, InputType, ReadType, LenProperties DEF Aligned
<1>2. k \in 0 .. Len(i.ends) /\ a \in 0 .. Len(s)
  BY <1>1, CutAtType
<1>3. d = DecodeDelimiter(c, i.codec.delimiter)
  BY DEF Decode
<1>4. ASSUME NEW j \in 1 .. Len(p)
      PROVE  p[j] = s[a + j] /\ a + j \in 1 .. Len(s)
  BY <1>1, <1>2, ElementOfPrefix
<1> HIDE DEF d, a
<1>5. CASE k < Len(i.ends) /\ n <= Len(p)
  <2>1. /\ n \in Nat \ {0} /\ a + n = CutAt(i, k + 1) /\ a + n <= Len(s)
        /\ Piece(i, k + 1) = SubSeq(s, a + 1, a + n)
        /\ Piece(i, k + 1) \in Seq(Byte) /\ Len(Piece(i, k + 1)) = n
    BY <1>1, <1>2, <1>5, PieceType, SMTT(20) DEF a
  <2> HIDE DEF n
  <2>2. p[n] = i.codec.delimiter
    <3>1. n \in 1 .. Len(p) /\ p[n] = s[a + n]
      BY <1>1, <1>4, <1>5, <2>1
    <3>2. k + 1 \in 1 .. Len(i.ends) /\ a + n = i.ends[k + 1]
      BY <1>1, <1>2, <1>5, <2>1 DEF CutAt
    <3>3. s[i.ends[k + 1]] = i.codec.delimiter
      BY <3>2, InputsAssumption DEF IsDelimited
    <3> QED BY <3>1, <3>2, <3>3
  <2>3. ASSUME NEW j \in 1 .. n - 1 PROVE p[j] # i.codec.delimiter
    <3>1. j \in 1 .. Len(p) /\ a < a + j /\ a + j < a + n
      BY <1>1, <1>2, <1>5, <2>1
    <3>2. s[a + j] # i.codec.delimiter
      BY <1>2, <1>4, <2>1, <3>1, NoDelimiter DEF a
    <3> QED BY <1>4, <3>1, <3>2
  <2>4. n \in 1 .. Len(p)
    BY <1>1, <1>5, <2>1
  <2>5. d.found /\ d.frame = First(p, n - 1) /\ Taken(d, c) = n
    BY <1>3, <2>2, <2>3, <2>4, DelimiterFinds
  <2>6. First(p, n - 1) = Frame(i, k + 1)
    <3>1. First(p, n) = Piece(i, k + 1)
      <4>1. k \in 0 .. Len(i.ends) - 1
        BY <1>1, <1>2, <1>5
      <4> QED BY <1>1, <1>5, <4>1, BeginsWithPiece, Zenon DEF a, n
    <3>2. n \in 0 .. Len(p) /\ n - 1 \in 0 .. n
      BY <1>1, <2>4
    <3>3. First(First(p, n), n - 1) = First(p, n - 1)
      BY <1>1, <3>2, FirstOfFirst
    <3> QED BY <2>1, <3>1, <3>3 DEF Frame
  <2> QED BY <1>1, <1>5, <2>5, <2>6 DEF FindsNext, d, n
<1>6. CASE ~ (k < Len(i.ends) /\ n <= Len(p))
  <2>1. ASSUME NEW j \in 1 .. Len(p) PROVE p[j] # i.codec.delimiter
    <3>1. a < a + j
      BY <1>1, <1>2
    <3>2. k < Len(i.ends) => a + j < CutAt(i, k + 1)
      <4>1. ASSUME k < Len(i.ends) PROVE a + j < CutAt(i, k + 1)
        <5>1. n \in Nat /\ a + n = CutAt(i, k + 1)
          BY <1>1, <1>2, <4>1, PieceType DEF a
        <5> HIDE DEF n
        <5> QED BY <1>1, <1>2, <1>6, <4>1, <5>1
      <4> QED BY <4>1
    <3>3. s[a + j] # i.codec.delimiter
      BY <1>2, <1>4, <3>1, <3>2, NoDelimiter DEF a
    <3> QED BY <1>4, <3>3
  <2>2. ~d.found
    BY <1>3, <2>1, DelimiterFinds
  <2> QED BY <1>1, <1>6, <2>2 DEF FindsNext, d
<1> QED BY <1>5, <1>6

\* What the peer encoded: offset bytes, the length field, the message; its length
\* fits into the field.
LEMMA LengthPiece ==
    ASSUME NEW i \in Inputs, i.codec.kind = "length", NEW k \in 0 .. Len(i.ends) - 1
    PROVE  LET dc == i.codec.dc
               msg == i.messages[k + 1]
               length == Len(msg) - dc.adjustment
               put == PutUint(length, dc.width, dc.order)
           IN  /\ msg \in Seq(Byte) /\ Len(msg) \in Nat
               /\ length \in Nat /\ length < Power(dc.width) /\ 2 * length < Power(8)
               /\ dc.offset \in Nat /\ dc.width \in Widths /\ dc.adjustment \in Int
               /\ dc.strip \in 0 .. dc.offset + dc.width
               /\ put \in Seq(Byte) /\ Len(put) = dc.width
               /\ Drop(Piece(i, k + 1), dc.offset) = put \o msg
<1> DEFINE dc == i.codec.dc
           ec == i.codec.ec
           msg == i.messages[k + 1]
           length == Len(msg) - dc.adjustment
           put == PutUint(length, dc.width, dc.order)
<1>1. /\ dc.offset \in Nat /\ dc.width \in Nat /\ dc.adjustment \in Int
      /\ dc.strip \in 0 .. dc.offset + dc.width
  BY InputsAssumption DEF IsCodec
<1>2. IsEncoded(i)
  BY InputsAssumption
<1>3. /\ ec.order = dc.order /\ ec.width = dc.width /\ ec.width \in Widths
      /\ ec.includes \in BOOLEAN /\ ec.adjustment \in Int
      /\ ec.adjustment + (IF ec.includes THEN ec.width ELSE 0) + dc.adjustment = 0
  BY <1>2 DEF IsEncoded, Matching
<1>4. Len(i.ends) \in Nat /\ k + 1 \in 1 .. Len(i.ends)
  <2>1. Len(i.ends) \in Nat
    BY InputType
  <2> QED BY <2>1
<1>5. /\ i.messages \in Seq(Seq(Byte)) /\ Len(i.messages) = Len(i.ends)
      /\ Fits(length, dc.width)
      /\ Encode(i.codec, msg).ok
      /\ Drop(Piece(i, k + 1), dc.offset) = Encode(i.codec, msg).out
  BY <1>2, <1>4 DEF IsEncoded, Byte
<1>6. msg \in Seq(Byte) /\ Len(msg) \in Nat
  BY <1>4, <1>5, ElementOfSeq, LenProperties
<1>7. Encode(i.codec, msg) = EncodeLengthField(msg, ec)
  BY DEF Encode
<1>8. Len(msg) + ec.adjustment + (IF ec.includes THEN ec.width ELSE 0) = length
  <2> HIDE DEF msg, ec, dc
  <2> DEFINE y == IF ec.includes THEN ec.width ELSE 0
  <2>1. y \in Int
    BY <1>3 DEF Widths
  <2>2. Len(msg) \in Nat /\ ec.adjustment \in Int /\ dc.adjustment \in Int
        /\ ec.adjustment + y + dc.adjustment = 0
    BY <1>1, <1>3, <1>6
  <2> HIDE DEF y
  <2>3. Len(msg) + ec.adjustment + y = Len(msg) - dc.adjustment
    BY <2>1, <2>2, SMTT(20)
  <2> QED BY <2>3 DEF length, y
<1> HIDE DEF dc, ec, msg, length
<1>9. /\ ~ (length < 0) /\ ~ (dc.width \in {1, 2, 3} /\ length >= Power(dc.width))
      /\ Encode(i.codec, msg).out = put \o msg
  <2>1. EncodeLengthField(msg, ec) =
            IF \/ length < 0
               \/ ec.width \notin Widths
               \/ ec.width \in {1, 2, 3} /\ length >= Power(ec.width)
            THEN EncodeError
            ELSE Encoded(PutUint(length, ec.width, ec.order) \o msg)
    BY <1>8 DEF EncodeLengthField
  <2> QED BY <1>3, <1>5, <1>7, <2>1 DEF EncodeError, Encoded
<1>10. length \in Nat
  <2>1. length \in Int
    BY <1>1, <1>6 DEF length
  <2> QED BY <1>9, <2>1
<1>11. length < Power(dc.width) /\ 2 * length < Power(8)
  <2>1. \A w \in Nat : Power(w) \in Nat
    BY PowerSteps
  <2>2. dc.width \in {1, 2, 3} \/ dc.width = 4 \/ dc.width = 8
    BY <1>3 DEF Widths
  <2>3. 2 * length < Power(8) /\ (dc.width = 4 => length < Power(4))
    BY <1>5 DEF Fits, length, dc, msg
  <2>4. length < Power(8)
    <3>1. Power(8) \in Nat
      BY <2>1
    <3> QED BY <1>10, <2>3, <3>1
  <2>5. dc.width \in {1, 2, 3} => length < Power(dc.width)
    <3>1. Power(dc.width) \in Nat
      BY <1>1, <2>1
    <3> QED BY <1>9, <1>10, <3>1
  <2> QED BY <2>2, <2>3, <2>4, <2>5, Zenon
<1>12. put \in Seq(Byte) /\ Len(put) = dc.width
  BY <1>1, <1>10, PutUintType
<1> QED BY <1>1, <1>3, <1>5, <1>6, <1>9, <1>10, <1>11, <1>12
        DEF dc, ec, msg, length

\* So long is the piece, and so the decoder sees the length when it has the field.
LEMMA LengthSeen ==
    ASSUME NEW i \in Inputs, i.codec.kind = "length", NEW k \in 0 .. Len(i.ends) - 1,
           NEW p \in Seq(Byte), NEW r \in Seq(Byte),
           Continues(i.stream, CutAt(i, k), p, r)
    PROVE  LET dc == i.codec.dc
               hdr == dc.offset + dc.width
               size == Len(i.messages[k + 1])
               field == SubSeq(p, dc.offset + 1, hdr)
           IN  /\ CutAt(i, k + 1) - CutAt(i, k) = hdr + size
               /\ Len(p) >= hdr =>
                     ToInt(Uint(field, dc.order)) + dc.adjustment = size
<1> DEFINE dc == i.codec.dc
           o == dc.offset
           w == dc.width
           msg == i.messages[k + 1]
           length == Len(msg) - dc.adjustment
           put == PutUint(length, w, dc.order)
           q == Piece(i, k + 1)
           s == i.stream
           a == CutAt(i, k)
           n == CutAt(i, k + 1) - CutAt(i, k)
<1>1. /\ msg \in Seq(Byte) /\ Len(msg) \in Nat
      /\ length \in Nat /\ length < Power(w) /\ 2 * length < Power(8)
      /\ o \in Nat /\ w \in Widths /\ dc.adjustment \in Int
      /\ put \in Seq(Byte) /\ Len(put) = w
      /\ Drop(q, o) = put \o msg
  BY LengthPiece
<1>2. /\ n \in Nat \ {0} /\ q = SubSeq(s, a + 1, a + n) /\ a + n <= Len(s)
      /\ q \in Seq(Byte) /\ Len(q) = n
  BY PieceType
<1>3. s \in Seq(Byte) /\ Len(s) \in Nat /\ a \in 0 .. Len(s) /\ Len(p) \in Nat
  <2>1. Len(i.ends) \in Nat
    BY InputType
  <2>2. k \in 0 .. Len(i.ends)
    BY <2>1
  <2> QED BY <2>2, InputType, CutAtType, LenProperties
<1>4. w \in Nat /\ w > 0
  <2>1. ASSUME NEW x \in Widths PROVE x \in Nat /\ x > 0
    BY DEF Widths
  <2> QED BY <1>1, <2>1, Zenon
<1>5. length + dc.adjustment = Len(msg)
  <2>1. \A l \in Nat, j \in Int : (l - j) + j = l
    OBVIOUS
  <2> QED BY <1>1, <2>1
<1>6. Continues(s, a, p, r) /\ Continues(q, o, put, msg)
  BY <1>1 DEF Continues
<1>7. SUFFICES /\ n = (o + w) + Len(msg)
               /\ Len(p) >= o + w =>
                     ToInt(Uint(SubSeq(p, o + 1, o + w), dc.order)) + dc.adjustment = Len(msg)
  OBVIOUS
<1> HIDE DEF dc, o, w, msg, length, put, q, s, a, n
<1>8. n = (o + w) + Len(msg) /\ SubSeq(q, o + 1, o + w) = put
  <2>1. o + w + Len(msg) = (o + w) + Len(msg) /\ Len(put) > 0
    BY <1>1, <1>4
  <2>2. Len(q) = o + Len(put) + Len(msg) /\ SubSeq(q, o + 1, o + Len(put)) = put
    <3>1. /\ q \in Seq(Byte) /\ put \in Seq(Byte) /\ msg \in Seq(Byte) /\ o \in Nat
          /\ Continues(q, o, put, msg) /\ Len(put) > 0
      BY <1>1, <1>2, <1>6, <2>1
    <3> QED BY <3>1, BeforeTheEnd, SMTT(60)
  <2> QED BY <1>1, <1>2, <2>1, <2>2
<1>9. ASSUME Len(p) >= o + w
      PROVE  ToInt(Uint(SubSeq(p, o + 1, o + w), dc.order)) + dc.adjustment = Len(msg)
  <2>1. SubSeq(p, o + 1, o + w) = SubSeq(q, o + 1, o + w)
    <3>1. /\ n \in Nat /\ o \in Nat /\ Len(msg) \in Nat /\ n = (o + w) + Len(msg)
          /\ a + n <= Len(s)
      BY <1>1, <1>2, <1>8
    <3> DEFINE x == o + 1
               y == o + w
    <3>2. /\ x \in 1 .. Len(p) + 1 /\ y \in x - 1 .. Len(p)
          /\ a + 1 \in 1 .. Len(s) + 1 /\ a + n \in (a + 1) - 1 .. Len(s)
          /\ x \in 1 .. (a + n) - (a + 1) + 2 /\ y \in x - 1 .. (a + n) - (a + 1) + 1
          /\ (a + 1) + x - 1 = a + x /\ (a + 1) + y - 1 = a + y
      BY <1>3, <1>4, <1>9, <3>1
    <3> HIDE DEF x, y
    <3>3. SubSeq(p, x, y) = SubSeq(s, a + x, a + y)
      BY <1>3, <1>6, <3>2, PartOfPrefix, SMTT(20)
    <3>4. SubSeq(SubSeq(s, a + 1, a + n), x, y)
              = SubSeq(s, (a + 1) + x - 1, (a + 1) + y - 1)
      BY <1>3, <3>2, PartOfPart, SMTT(20)
    <3>5. SubSeq(p, x, y) = SubSeq(q, x, y)
      BY <1>2, <3>2, <3>3, <3>4
    <3> QED BY <3>5 DEF x, y
  <2>2. Uint(put, dc.order) = length
    BY <1>1, <1>4, UintOfPutUint DEF put
  <2>3. ToInt(length) = length
    <3>1. Power(8) \in Nat
      BY PowerSteps
    <3> QED BY <1>1, <3>1 DEF ToInt
  <2> QED BY <1>2, <1>5, <1>8, <2>1, <2>2, <2>3
<1> QED BY <1>8, <1>9

\* The length field codec.
LEMMA LengthNext ==
    ASSUME NEW i \in Inputs, i.codec.kind = "length", NEW k \in 0 .. FrameCount(i),
           NEW c \in Conn, NEW r \in Seq(Byte),
           Continues(i.stream, CutAt(i, k), Read(c), r)
    PROVE  FindsNext(i, k, c)
<1> DEFINE p == Read(c)
           s == i.stream
           a == CutAt(i, k)
           n == CutAt(i, k + 1) - CutAt(i, k)
           d == Decode(i.codec, c)
           dc == i.codec.dc
           hdr == dc.offset + dc.width
           size == Len(i.messages[k + 1])
<1>1. /\ FrameCount(i) \in 0 .. Len(i.ends) /\ Len(i.ends) \in Nat
      /\ \A j \in 1 .. FrameCount(i) : i.messages[j] # <<>>
      /\ FrameCount(i) < Len(i.ends) => i.messages[FrameCount(i) + 1] = <<>>
      /\ s \in Seq(Byte) /\ Len(s) \in Nat /\ p \in Seq(Byte) /\ Len(p) \in Nat
  BY FrameCountType, InputType, ReadType, LenProperties DEF Aligned
<1>2. k \in 0 .. Len(i.ends) /\ a \in 0 .. Len(s)
  BY <1>1, CutAtType
<1>3. /\ dc.offset \in Nat /\ dc.width \in Widths /\ dc.adjustment \in Int
      /\ dc.strip \in 0 .. hdr /\ dc.width \in Nat \ {0}
  <2>1. /\ dc.offset \in Nat /\ dc.adjustment \in Int /\ dc.strip \in 0 .. hdr
    BY InputsAssumption DEF IsCodec
  <2>2. dc.width \in Widths
    BY InputsAssumption DEF IsEncoded, Matching
  <2> QED BY <2>1, <2>2 DEF Widths
<1>4. d = DecodeLengthField(c, dc)
  BY DEF Decode
<1>5. CASE k < Len(i.ends)
  <2>1. k \in 0 .. Len(i.ends) - 1
    BY <1>1, <1>2, <1>5
  <2>2. /\ n = hdr + size
        /\ Len(p) >= hdr =>
              ToInt(Uint(SubSeq(p, dc.offset + 1, hdr), dc.order)) + dc.adjustment = size
    BY <1>1, <2>1, LengthSeen
  <2>3. size \in Nat /\ (size > 0 <=> k < FrameCount(i))
    <3>1. i.messages[k + 1] \in Seq(Byte) /\ size \in Nat
      BY <2>1, LengthPiece
    <3>2. size = 0 <=> i.messages[k + 1] = <<>>
      BY <3>1, EmptySeq
    <3>3. i.messages[k + 1] = <<>> <=> ~ (k < FrameCount(i))
      BY <1>1, <1>2, <1>5
    <3> QED BY <3>1, <3>2, <3>3
  <2> HIDE DEF d, n, a, hdr, size, dc
  <2>4. Len(p) < hdr => ~d.found
    BY <1>3, <1>4, LengthFinds DEF hdr
  <2>5. Len(p) >= hdr =>
           /\ d.found <=> size > 0 /\ n <= Len(p)
           /\ d.found => d.frame = Drop(First(p, n), dc.strip) /\ Taken(d, c) = n
    <3>1. size \in Int
      BY <2>3
    <3> QED BY <1>3, <1>4, <2>2, <3>1, LengthFinds DEF hdr
  <2>6. d.found <=> k < FrameCount(i) /\ n <= Len(p)
    <3>1. hdr \in Nat
      BY <1>3 DEF hdr
    <3> QED BY <1>1, <2>2, <2>3, <2>4, <2>5, <3>1
  <2>7. ASSUME d.found PROVE d.frame = Frame(i, k + 1) /\ Taken(d, c) = n
    <3>1. Len(p) >= hdr /\ n <= Len(p)
      <4>1. hdr \in Nat
        BY <1>3 DEF hdr
      <4> QED BY <1>1, <2>4, <2>6, <2>7, <4>1
    <3>2. First(p, n) = Piece(i, k + 1)
      BY <1>1, <2>1, <3>1, BeginsWithPiece DEF n
    <3>3. Frame(i, k + 1) = Drop(Piece(i, k + 1), dc.strip)
      BY DEF Frame, dc
    <3> QED BY <2>5, <2>7, <3>1, <3>2, <3>3
  <2> QED BY <2>6, <2>7 DEF FindsNext, d, n
<1>6. CASE ~ (k < Len(i.ends))
  <2>1. k = Len(i.ends) /\ ~ (k < FrameCount(i))
    BY <1>1, <1>2, <1>6
  <2>2. a = Len(s)
    BY <2>1, InputsAssumption DEF IsEncoded
  <2> HIDE DEF d, a, hdr, dc, s, p
  <2>3. Len(p) = 0
    <3>1. Continues(s, a, p, r)
      BY DEF a, s, p
    <3>2. Len(r) \in Nat
      BY LenProperties
    <3>3. a + Len(p) + Len(r) = Len(s)
      BY <1>1, <1>2, <3>1, ContinuesLength
    <3> QED BY <1>1, <1>2, <2>2, <3>2, <3>3
  <2>4. Len(p) < hdr
    BY <1>3, <2>3 DEF hdr
  <2>5. ~d.found
    BY <1>3, <1>4, <2>4, LengthFinds DEF hdr, p
  <2> QED BY <2>1, <2>5 DEF FindsNext, d
<1> QED BY <1>5, <1>6

\* Every codec whose frames do not depend on what one read brings.
LEMMA NextFrame ==
    ASSUME NEW i \in Inputs, Aligned(i), NEW k \in 0 .. FrameCount(i),
           NEW c \in Conn, NEW r \in Seq(Byte),
           Continues(i.stream, CutAt(i, k), Read(c), r)
    PROVE  FindsNext(i, k, c)
<1>1. CASE i.codec.kind = "delimiter"
  BY <1>1, DelimiterNext
<1>2. CASE i.codec.kind = "length"
  BY <1>2, LengthNext
<1> QED BY <1>1, <1>2 DEF Aligned
------------------------------------------------------------------------------
(* The frames in a row.                                                    *)

\* What makes f the concatenations of the first sequences of ss.
Flattens(f, ss) ==
    f = [i \in 1 .. Len(ss) |-> IF i = 1 THEN ss[i] ELSE f[i - 1] \o ss[i]]

\* The recursive function of FlattenSeq exists.
LEMMA FlattenExists ==
    ASSUME NEW ss \in Seq(Seq(Byte))
    PROVE  \E f : Flattens(f, ss)
<1> DEFINE n == Len(ss)
           F == [i \in 1 .. n |-> [v \in Seq(Byte) |-> v \o ss[i]]]
<1>1. n \in Nat /\ \A i \in 1 .. n : ss[i] \in Seq(Byte)
  BY LenProperties, ElementOfSeq
<1>2. <<>> \in Seq(Byte) /\ \A s \in Seq(Byte) : <<>> \o s = s
  BY EmptySeq, ConcatEmptySeq
<1>3. F \in [1 .. n -> [Seq(Byte) -> Seq(Byte)]]
  <2>1. ASSUME NEW i \in 1 .. n, NEW v \in Seq(Byte) PROVE v \o ss[i] \in Seq(Byte)
    BY <1>1, ConcatProperties
  <2> QED BY <2>1
<1> HIDE DEF n
<1>4. PICK f \in [0 .. n -> Seq(Byte)] : Iterates(f, <<>>, F, n)
  <2> HIDE DEF F
  <2> QED BY <1>1, <1>2, <1>3, IterationExists
<1>5. f[0] = <<>> /\ \A i \in 1 .. n : f[i] = f[i - 1] \o ss[i]
  <2>1. ASSUME NEW i \in 1 .. n PROVE f[i] = f[i - 1] \o ss[i]
    <3>1. f[i] = F[i][f[i - 1]] /\ f[i - 1] \in Seq(Byte)
      <4>1. i - 1 \in 0 .. n
        BY <1>1
      <4> QED BY <1>4, <4>1 DEF Iterates
    <3> QED BY <3>1
  <2> QED BY <1>4, <2>1 DEF Iterates
<1> HIDE DEF F
<1> DEFINE g == [i \in 1 .. n |-> f[i]]
<1>6. ASSUME NEW i \in 1 .. n
      PROVE  f[i] = IF i = 1 THEN ss[i] ELSE g[i - 1] \o ss[i]
  <2>1. CASE i = 1
    <3>1. f[1] = f[0] \o ss[1]
      <4>1. 1 \in 1 .. n /\ 1 - 1 = 0
        BY <2>1
      <4> QED BY <1>5, <4>1
    <3>2. <<>> \o ss[1] = ss[1]
      BY <1>1, <1>2, <2>1
    <3> QED BY <1>5, <2>1, <3>1, <3>2
  <2>2. CASE i # 1
    <3>1. i - 1 \in 1 .. n
      BY <1>1, <2>2
    <3> QED BY <1>5, <2>2, <3>1
  <2> QED BY <2>1, <2>2
<1>7. g = [i \in 1 .. n |-> IF i = 1 THEN ss[i] ELSE g[i - 1] \o ss[i]]
  <2> DEFINE h(i) == IF i = 1 THEN ss[i] ELSE g[i - 1] \o ss[i]
  <2>1. \A i \in 1 .. n : f[i] = h(i)
    BY <1>6
  <2> QED BY <2>1
<1>8. Flattens(g, ss)
  BY <1>7 DEF Flattens, n
<1> QED BY <1>8

\* Its values, and FlattenSeq.
LEMMA FlattenSteps ==
    ASSUME NEW ss \in Seq(Seq(Byte)), Len(ss) # 0
    PROVE  \E f : /\ FlattenSeq(ss) = f[Len(ss)] /\ f[1] = ss[1]
                  /\ \A i \in 2 .. Len(ss) : f[i] = f[i - 1] \o ss[i]
<1> DEFINE f == CHOOSE g : Flattens(g, ss)
<1>1. Flattens(f, ss)
  BY FlattenExists
<1>2. FlattenSeq(ss) = f[Len(ss)]
  BY DEF FlattenSeq, Flattens
<1> HIDE DEF f
<1>3. f = [i \in 1 .. Len(ss) |-> IF i = 1 THEN ss[i] ELSE f[i - 1] \o ss[i]]
  BY <1>1 DEF Flattens
<1>4. Len(ss) \in Nat \ {0}
  BY LenProperties
<1>5. f[1] = ss[1]
  BY <1>3, <1>4
<1>6. ASSUME NEW i \in 2 .. Len(ss) PROVE f[i] = f[i - 1] \o ss[i]
  <2>1. i \in 1 .. Len(ss) /\ i # 1
    BY <1>4
  <2> QED BY <1>3, <2>1
<1> QED BY <1>2, <1>5, <1>6

\* One more sequence comes behind the others.
LEMMA FlattenAppend ==
    ASSUME NEW ss \in Seq(Seq(Byte)), NEW x \in Seq(Byte)
    PROVE  FlattenSeq(Append(ss, x)) = FlattenSeq(ss) \o x
<1> DEFINE t == Append(ss, x)
           n == Len(ss)
<1>1. /\ n \in Nat /\ t \in Seq(Seq(Byte)) /\ Len(t) = n + 1
      /\ \A i \in 1 .. n : t[i] = ss[i]
      /\ t[n + 1] = x
  BY AppendProperties, LenProperties
<1> HIDE DEF t, n
<1>2. PICK g : /\ FlattenSeq(t) = g[n + 1] /\ g[1] = t[1]
               /\ \A i \in 2 .. n + 1 : g[i] = g[i - 1] \o t[i]
  <2>1. Len(t) # 0
    BY <1>1
  <2>2. \E g : /\ FlattenSeq(t) = g[Len(t)] /\ g[1] = t[1]
               /\ \A i \in 2 .. Len(t) : g[i] = g[i - 1] \o t[i]
    BY <1>1, <2>1, FlattenSteps
  <2> QED BY <1>1, <2>2
<1>3. CASE n = 0
  <2>1. FlattenSeq(ss) = <<>>
    BY <1>3, EmptySeq DEF FlattenSeq, n
  <2>2. <<>> \o x = x
    BY ConcatEmptySeq
  <2>3. FlattenSeq(t) = x
    BY <1>1, <1>2, <1>3
  <2> QED BY <2>1, <2>2, <2>3 DEF t
<1>4. CASE n # 0
  <2>1. PICK f : /\ FlattenSeq(ss) = f[n] /\ f[1] = ss[1]
                 /\ \A i \in 2 .. n : f[i] = f[i - 1] \o ss[i]
    BY <1>4, FlattenSteps DEF n
  <2> DEFINE P == {i \in 0 .. n : i # 0 => f[i] = g[i]}
  <2>2. 0 \in P
    BY <1>1
  <2>3. ASSUME NEW i \in 1 .. n, i - 1 \in P PROVE i \in P
    <3>1. i \in 0 .. n /\ t[i] = ss[i]
      <4>1. n \in Nat /\ \A j \in 1 .. n : t[j] = ss[j]
        BY <1>1
      <4> QED BY <4>1
    <3>2. CASE i = 1
      BY <1>2, <2>1, <3>1, <3>2
    <3>3. CASE i # 1
      <4>1. i \in 2 .. n /\ i \in 2 .. n + 1 /\ i - 1 # 0
        BY <1>1, <3>3
      <4>2. f[i - 1] = g[i - 1]
        BY <2>3, <4>1
      <4>3. f[i] = g[i]
        BY <1>2, <2>1, <3>1, <4>1, <4>2
      <4> QED BY <3>1, <4>3
    <3> QED BY <3>2, <3>3
  <2> HIDE DEF P
  <2>4. n \in P
    <3>1. n \in 0 .. n
      BY <1>1
    <3> QED BY <1>1, <2>2, <2>3, <3>1, UpTo
  <2>5. f[n] = g[n]
    BY <1>4, <2>4 DEF P
  <2>6. g[n + 1] = g[n] \o x
    <3>1. n + 1 \in 2 .. n + 1 /\ (n + 1) - 1 = n
      BY <1>1, <1>4
    <3> QED BY <1>1, <1>2, <3>1
  <2> QED BY <1>2, <2>1, <2>5, <2>6 DEF t
<1> QED BY <1>3, <1>4
------------------------------------------------------------------------------
(* The inductive invariant: types and the three safety invariants.  What   *)
(* the next frame is follows from where the unread input lies in the       *)
(* stream (NoByteLost) and from how many frames were given out             *)
(* (FramesMatch).                                                          *)

\* With no loop under way, every complete frame is out, and of the codecs whose frames
\* depend on the cut (this one hands out short frames) every byte.
Delivered ==
    LET arrived == Len(input.stream) - Len(net)
    IN  IF Aligned(input)
        THEN \A k \in 1 .. FrameCount(input) :
                CutAt(input, k) <= arrived => k <= Len(frames)
        ELSE consumed = arrived

\* The inductive invariant.
IInv ==
    /\ input \in Inputs
    /\ net \in Seq(Byte)
    /\ conn \in Conn
    /\ pc \in {"idle", "decode"}
    /\ frames \in Seq(Seq(Byte))
    /\ consumed \in 0 .. Len(input.stream)
    /\ pc = "idle" => conn.temp = <<>>
    /\ NoByteLost
    /\ FramesMatch
    /\ pc = "idle" => Delivered

\* Concatenation of bytes is associative.
LEMMA Associative ==
    \A s, t, u \in Seq(Byte) : (s \o t) \o u = s \o (t \o u)
<1> TAKE s, t, u \in Seq(Byte)
<1> QED BY ConcatAssociative, SMTT(30)

\* Each byte of the stream is taken, unread, or still on its way.
LEMMA StreamParts ==
    ASSUME IInv
    PROVE  /\ Continues(input.stream, consumed, Read(conn), net)
           /\ Read(conn) \in Seq(Byte) /\ Len(Read(conn)) \in Nat
           /\ Len(net) \in Nat /\ Len(frames) \in Nat
           /\ input.stream \in Seq(Byte) /\ Len(input.stream) \in Nat
           /\ consumed + Len(Read(conn)) + Len(net) = Len(input.stream)
<1>1. /\ input.stream \in Seq(Byte) /\ Len(input.stream) \in Nat
      /\ net \in Seq(Byte) /\ consumed \in 0 .. Len(input.stream)
      /\ Len(frames) \in Nat /\ Len(net) \in Nat
  BY InputType, LenProperties DEF IInv
<1>2. Read(conn) \in Seq(Byte) /\ Len(Read(conn)) \in Nat
  <2>1. Read(conn) \in Seq(Byte)
    BY ReadType DEF IInv
  <2> QED BY <2>1, LenProperties
<1>3. Continues(input.stream, consumed, Read(conn), net)
  BY DEF IInv, NoByteLost, Continues
<1>4. consumed + Len(Read(conn)) + Len(net) = Len(input.stream)
  BY <1>1, <1>2, <1>3, ContinuesLength
<1> QED BY <1>1, <1>2, <1>3, <1>4

\* The codecs whose frames depend on the cut.
LEMMA NotAligned ==
    ASSUME NEW i \in Inputs, ~Aligned(i)
    PROVE  \/ i.codec.kind = "builtin"
           \/ i.codec.kind = "fixed" /\ i.codec.frameLength \in Nat \ {0}
<1>1. IsCodec(i.codec)
  BY InputType
<1> QED BY <1>1, Zenon DEF IsCodec, Aligned

\* Where the frames given out end, what the decoder does next.
LEMMA DecodeNext ==
    ASSUME IInv, Aligned(input)
    PROVE  FindsNext(input, Len(frames), conn)
<1>1. /\ Len(frames) \in 0 .. FrameCount(input) /\ consumed = CutAt(input, Len(frames))
  <2>1. Len(frames) <= FrameCount(input) /\ consumed = CutAt(input, Len(frames))
    BY DEF IInv, FramesMatch
  <2>2. FrameCount(input) \in 0 .. Len(input.ends) /\ Len(input.ends) \in Nat
    BY FrameCountType, InputType DEF IInv
  <2> QED BY <2>1, <2>2, StreamParts
<1>2. Continues(input.stream, CutAt(input, Len(frames)), Read(conn), net)
  BY <1>1, StreamParts
<1> QED BY <1>1, <1>2, NextFrame DEF IInv

\* A connection that has read nothing.
LEMMA InitInv == Init => IInv
<1> SUFFICES ASSUME Init PROVE IInv
  OBVIOUS
<1>1. input.stream \in Seq(Byte) /\ Len(input.stream) \in Nat
  BY InputType DEF Init
<1>2. conn \in Conn /\ conn.temp = <<>> /\ Read(conn) = <<>>
  <2>1. conn = ResetBuffer(conn)
    BY DEF Init, ResetBuffer
  <2> QED BY <2>1, ResetType DEF Init
<1>3. NoByteLost
  <2>1. <<>> \o net = net /\ Drop(net, 0) = net
    BY <1>1, ConcatEmptySeq, DropAll DEF Init
  <2> QED BY <1>2, <2>1 DEF Init, NoByteLost
<1>4. 0 \in 0 .. Len(input.stream)
  BY <1>1
<1>5. <<>> \in Seq(Seq(Byte)) /\ Len(<<>>) = 0
  BY EmptySeq
<1>6. ASSUME Aligned(input)
      PROVE  /\ FrameCount(input) \in Nat /\ CutAt(input, 0) = 0
             /\ \A k \in 1 .. FrameCount(input) : CutAt(input, k) > 0
  <2>1. FrameCount(input) \in 0 .. Len(input.ends) /\ Len(input.ends) \in Nat
    BY <1>6, FrameCountType, InputType DEF Init
  <2>2. CutAt(input, 0) = 0
    BY DEF CutAt
  <2>3. ASSUME NEW k \in 1 .. FrameCount(input) PROVE CutAt(input, k) > 0
    <3>1. 0 \in 0 .. Len(input.ends) /\ k \in 0 .. Len(input.ends) /\ 0 < k
      BY <2>1
    <3>2. CutAt(input, 0) < CutAt(input, k) /\ CutAt(input, k) \in 0 .. Len(input.stream)
      BY <3>1, CutAtType DEF Init
    <3> QED BY <1>1, <2>2, <3>2
  <2> QED BY <2>1, <2>2, <2>3
<1>7. FramesMatch
  <2>1. ASSUME ~Aligned(input) PROVE FlattenSeq(frames) = First(input.stream, 0)
    <3>1. FlattenSeq(frames) = <<>>
      BY <1>5 DEF Init, FlattenSeq
    <3>2. First(input.stream, 0) \in Seq(Byte) /\ Len(First(input.stream, 0)) = 0
      BY <1>1, <1>4, Cut
    <3> QED BY <3>1, <3>2, EmptySeq
  <2>2. ASSUME Aligned(input)
        PROVE  /\ Len(frames) <= FrameCount(input)
               /\ \A k \in 1 .. Len(frames) : frames[k] = Frame(input, k)
               /\ consumed = CutAt(input, Len(frames))
    BY <1>5, <1>6, <2>2 DEF Init
  <2> QED BY <2>1, <2>2 DEF FramesMatch, Init
<1>8. Delivered
  <2>1. Len(input.stream) - Len(net) = 0
    BY <1>1 DEF Init
  <2>2. ASSUME Aligned(input), NEW k \in 1 .. FrameCount(input), CutAt(input, k) <= 0
        PROVE  FALSE
    <3>1. k \in 0 .. Len(input.ends)
      BY <2>2, FrameCountType, InputType DEF Init
    <3>2. CutAt(input, k) \in 0 .. Len(input.stream)
      BY <3>1, CutAtType DEF Init
    <3> QED BY <1>1, <1>6, <2>2, <3>2
  <2> QED BY <2>1, <2>2 DEF Delivered, Init
<1> QED BY <1>1, <1>2, <1>3, <1>4, <1>5, <1>7, <1>8 DEF Init, IInv

\* A read moves bytes from the network to temporaryBuf.
LEMMA readEventInv == ASSUME IInv, readEvent PROVE IInv'
<1> USE DEF IInv
<1>1. PICK n \in 1 .. Len(net) :
          conn' = [conn EXCEPT !.temp = First(net, n)] /\ net' = Drop(net, n)
  BY DEF readEvent
<1>2. Len(net) \in Nat /\ n \in 0 .. Len(net)
  BY LenProperties
<1>3. /\ First(net, n) \in Seq(Byte) /\ net' \in Seq(Byte)
      /\ First(net, n) \o net' = net
  BY <1>1, <1>2, Cut, CutWhole
<1>4. /\ conn.in \in Seq(Byte) /\ conn.temp = <<>>
      /\ conn' \in Conn /\ conn'.in = conn.in /\ conn'.temp = First(net, n)
  BY <1>1, <1>3 DEF readEvent, Conn
<1>5. NoByteLost'
  <2>1. Read(conn) = conn.in
    <3>1. conn.in \o <<>> = conn.in
      BY <1>4, ConcatEmptySeq
    <3> QED BY <1>4, <3>1 DEF Read
  <2>2. Read(conn') \o net' = conn.in \o (First(net, n) \o net')
    <3>1. Read(conn') = conn.in \o First(net, n)
      BY <1>4 DEF Read
    <3>2. (conn.in \o First(net, n)) \o net' = conn.in \o (First(net, n) \o net')
      BY <1>3, <1>4, Associative, Zenon
    <3> QED BY <3>1, <3>2
  <2>3. Read(conn') \o net' = Read(conn) \o net
    BY <1>3, <2>1, <2>2
  <2> QED BY <2>3 DEF NoByteLost, readEvent
<1>6. FramesMatch'
  BY DEF FramesMatch, readEvent
<1>7. (pc = "idle" => Delivered)'
  BY DEF Delivered, readEvent
<1> QED BY <1>3, <1>4, <1>5, <1>6, <1>7 DEF readEvent

\* A frame takes a prefix of the unread input with it.
LEMMA readInv == ASSUME IInv, read PROVE IInv'
<1> USE DEF IInv
<1> DEFINE d == Decode(input.codec, conn)
           k == BufferLength(conn) - BufferLength(d.conn)
<1>1. /\ d.found /\ conn' = d.conn /\ frames' = Append(frames, d.frame)
      /\ consumed' = consumed + BufferLength(conn) - BufferLength(d.conn)
      /\ UNCHANGED <<input, net, pc>> /\ pc = "decode"
  BY DEF read
<1>2. TakesPrefix(d, conn)
  BY InputType, DecodeTakesPrefix
<1> HIDE DEF d
<1>3. /\ d.conn \in Conn /\ d.frame \in Seq(Byte)
      /\ k \in 0 .. BufferLength(conn)
      /\ Read(d.conn) = Drop(Read(conn), k)
  BY <1>2 DEF TakesPrefix
<1>4. /\ Read(conn) \in Seq(Byte) /\ Len(Read(conn)) = BufferLength(conn)
      /\ BufferLength(conn) \in Nat /\ BufferLength(d.conn) \in Nat
  BY <1>3, ReadType
<1>5. consumed' = consumed + k
  <2>1. ASSUME NEW x \in Nat, NEW a \in Nat, NEW b \in Nat PROVE x + a - b = x + (a - b)
    OBVIOUS
  <2>2. consumed \in Nat
    OBVIOUS
  <2> QED BY <1>1, <1>4, <2>1, <2>2, Zenon
<1> HIDE DEF k
<1>6. Read(conn') \o net' = Drop(Read(conn) \o net, k)
  <2>1. Len(Read(conn)) = BufferLength(conn) /\ k \in 0 .. Len(Read(conn))
    BY <1>3, <1>4
  <2>2. Drop(Read(conn) \o net, k) = Drop(Read(conn), k) \o net
    BY <1>4, <2>1, DropLeft
  <2> QED BY <1>1, <1>3, <2>2
<1>7. input.stream \in Seq(Byte) /\ Len(input.stream) \in Nat
  BY InputType
<1>8. k \in 0 .. Len(input.stream) - consumed
  <2>1. /\ Len(Read(conn) \o net) = Len(Read(conn)) + Len(net) /\ Len(net) \in Nat
    BY <1>4, ConcatProperties, LenProperties
  <2>2. Len(Drop(input.stream, consumed)) = Len(input.stream) - consumed
    BY <1>7, Cut
  <2>3. BufferLength(conn) + Len(net) = Len(input.stream) - consumed
    BY <1>4, <2>1, <2>2 DEF NoByteLost
  <2>4. ASSUME NEW b \in Nat, NEW m \in Nat, k \in 0 .. b PROVE k \in 0 .. b + m
    BY <2>4
  <2> QED BY <1>3, <1>4, <2>1, <2>3, <2>4, Zenon
<1>9. /\ consumed + k \in 0 .. Len(input.stream)
      /\ Drop(Drop(input.stream, consumed), k) = Drop(input.stream, consumed + k)
  BY <1>7, <1>8, DropTwice
<1>10. NoByteLost'
  BY <1>1, <1>5, <1>6, <1>9 DEF NoByteLost
<1>11. frames' \in Seq(Seq(Byte))
  BY <1>1, <1>3, AppendProperties
<1>12. FramesMatch'
  <2>1. k = Taken(d, conn)
    BY DEF k, Taken
  <2>2. CASE Aligned(input)
    <3> DEFINE f == Len(frames)
    <3>1. FindsNext(input, f, conn)
      BY <2>2, DecodeNext
    <3>2. /\ f < FrameCount(input) /\ d.frame = Frame(input, f + 1)
          /\ k = CutAt(input, f + 1) - CutAt(input, f)
      BY <1>1, <2>1, <3>1 DEF FindsNext, d
    <3>3. /\ f <= FrameCount(input) /\ consumed = CutAt(input, f)
          /\ \A j \in 1 .. f : frames[j] = Frame(input, j)
      BY <2>2 DEF FramesMatch
    <3>4. f \in Nat /\ FrameCount(input) \in Nat /\ CutAt(input, f + 1) \in Nat
      <4>1. FrameCount(input) \in 0 .. Len(input.ends) /\ Len(input.ends) \in Nat
        BY <2>2, FrameCountType, InputType
      <4>2. f \in Nat
        BY LenProperties
      <4>3. f + 1 \in 0 .. Len(input.ends)
        BY <3>2, <4>1, <4>2
      <4>4. CutAt(input, f + 1) \in 0 .. Len(input.stream)
        BY <4>3, CutAtType
      <4> QED BY <1>7, <4>1, <4>2, <4>4
    <3> HIDE DEF f
    <3>5. /\ Len(frames') = f + 1 /\ frames'[f + 1] = d.frame
          /\ \A j \in 1 .. f : frames'[j] = frames[j]
      BY <1>1, <1>3, AppendProperties DEF f
    <3>6. consumed' = CutAt(input, f + 1)
      BY <1>5, <3>2, <3>3, <3>4
    <3>7. \A j \in 1 .. f + 1 : frames'[j] = Frame(input, j)
      <4>1. ASSUME NEW j \in 1 .. f + 1 PROVE j \in 1 .. f \/ j = f + 1
        BY <3>4
      <4> QED BY <3>2, <3>3, <3>5, <4>1
    <3>8. f + 1 <= FrameCount(input)
      BY <3>2, <3>4
    <3> QED BY <1>1, <2>2, <3>5, <3>6, <3>7, <3>8 DEF FramesMatch
  <2>3. CASE ~Aligned(input)
    <3>1. FlattenSeq(frames) = First(input.stream, consumed)
      BY <2>3 DEF FramesMatch
    <3>2. d.frame = First(Read(conn), k)
      BY <1>1, <2>1, <2>3, NotAligned, WholeFinds DEF d
    <3>3. FlattenSeq(frames') = FlattenSeq(frames) \o d.frame
      BY <1>1, <1>3, FlattenAppend
    <3>4. First(input.stream, consumed) \o First(Read(conn), k)
              = First(input.stream, consumed + k)
      <4>1. k \in 0 .. Len(Read(conn)) /\ Continues(input.stream, consumed, Read(conn), net)
        BY <1>3, <1>4, StreamParts
      <4> QED BY <1>4, <1>7, <4>1, FirstGrows
    <3> QED BY <1>1, <1>5, <2>3, <3>1, <3>2, <3>3, <3>4 DEF FramesMatch
  <2> QED BY <2>2, <2>3
<1>13. (pc = "idle" => Delivered)'
  BY <1>1 DEF Delivered
<1> QED BY <1>1, <1>3, <1>5, <1>9, <1>10, <1>11, <1>12, <1>13

\* What a sum leaves when one part is taken away.
LEMMA Difference ==
    ASSUME NEW c \in Nat, NEW m \in Nat, NEW n \in Nat, NEW s, c + m + n = s
    PROVE  s - n = c + m
  OBVIOUS

\* Without a frame the rest moves from temporaryBuf to inBuffer.
LEMMA keepRestInv == ASSUME IInv, keepRest PROVE IInv'
<1> USE DEF IInv
<1> DEFINE d == Decode(input.codec, conn)
<1>1. /\ conn' = [in |-> Kept(d.conn), temp |-> <<>>] /\ ~d.found
      /\ pc' = "idle" /\ UNCHANGED <<input, net, frames, consumed>>
  BY DEF keepRest
<1>2. TakesPrefix(d, conn)
  BY InputType, DecodeTakesPrefix
<1> HIDE DEF d
<1>3. d.conn \in Conn /\ Read(d.conn) = Read(conn)
  BY <1>1, <1>2 DEF TakesPrefix
<1>4. Kept(d.conn) \in Seq(Byte) /\ Kept(d.conn) = Read(d.conn) /\ <<>> \in Seq(Byte)
  BY <1>3, ReadType, EmptySeq DEF Kept, Read
<1>5. conn' \in Conn /\ conn'.temp = <<>> /\ Read(conn') = Read(conn)
  <2>1. Kept(d.conn) \o <<>> = Kept(d.conn)
    BY <1>4, ConcatEmptySeq
  <2> QED BY <1>1, <1>3, <1>4, <2>1 DEF Conn, Read
<1>6. FramesMatch'
  BY <1>1 DEF FramesMatch
<1>7. (pc = "idle" => Delivered)'
  <2> DEFINE a == Len(input.stream) - Len(net)
             l == Len(Read(conn))
  <2>1. /\ Len(input.stream) \in Nat /\ Len(net) \in Nat /\ l \in Nat
        /\ consumed \in Nat /\ consumed + l + Len(net) = Len(input.stream)
    BY StreamParts
  <2>2. a = consumed + l
    BY <2>1, Difference
  <2> HIDE DEF a, l
  <2>3. ASSUME Aligned(input), NEW k \in 1 .. FrameCount(input), CutAt(input, k) <= a
        PROVE  k <= Len(frames)
    <3> DEFINE f == Len(frames)
    <3>1. /\ FrameCount(input) \in 0 .. Len(input.ends) /\ Len(input.ends) \in Nat
          /\ f \in Nat /\ f <= FrameCount(input) /\ consumed = CutAt(input, f)
      BY <2>3, FrameCountType, InputType, LenProperties DEF FramesMatch
    <3>2. ~ (f < FrameCount(input) /\ CutAt(input, f + 1) - CutAt(input, f) <= l)
      BY <1>1, <2>3, DecodeNext DEF FindsNext, d, l
    <3> HIDE DEF f
    <3>3. SUFFICES ASSUME ~ (k <= f) PROVE FALSE
      BY DEF f
    <3>4. /\ f + 1 \in 0 .. Len(input.ends) /\ k \in 0 .. Len(input.ends)
          /\ f < FrameCount(input) /\ (k = f + 1 \/ f + 1 < k)
      BY <3>1, <3>3
    <3>5. /\ CutAt(input, f + 1) \in 0 .. Len(input.stream)
          /\ CutAt(input, k) \in 0 .. Len(input.stream)
          /\ f + 1 < k => CutAt(input, f + 1) < CutAt(input, k)
      BY <3>4, CutAtType
    <3>6. CutAt(input, f + 1) <= CutAt(input, k)
      BY <2>1, <3>4, <3>5
    <3>7. CutAt(input, f + 1) - CutAt(input, f) <= l
      BY <2>1, <2>2, <2>3, <3>1, <3>5, <3>6, SMTT(20)
    <3> QED BY <3>2, <3>4, <3>7
  <2>4. ASSUME ~Aligned(input) PROVE consumed = a
    <3>1. Read(conn) = <<>>
      BY <1>1, <2>4, NotAligned, WholeFinds DEF d
    <3>2. l = 0
      BY <3>1, EmptySeq DEF l
    <3> QED BY <2>1, <2>2, <3>2
  <2> QED BY <1>1, <2>3, <2>4 DEF Delivered, a
<1> QED BY <1>1, <1>5, <1>6, <1>7 DEF NoByteLost

\* Every step keeps it.
LEMMA NextInv == IInv /\ [Next]_vars => IInv'
<1> SUFFICES ASSUME IInv, [Next]_vars PROVE IInv'
  OBVIOUS
<1>1. CASE UNCHANGED vars
  BY <1>1 DEF vars, IInv, NoByteLost, FramesMatch, Delivered
<1> QED BY <1>1, readEventInv, readInv, keepRestInv DEF Next

\* The inductive invariant holds of the decoding loop.
THEOREM Invariance == Spec => []IInv
  BY InitInv, NextInv, PTL DEF Spec

\* Types; temporaryBuf is empty when the loop of readEvent has ended.
THEOREM TypeCorrect == Spec => []TypeOK
<1>1. IInv => TypeOK
  BY DEF IInv, TypeOK, Conn, Byte
<1> QED BY Invariance, <1>1, PTL

\* ReadN, ShiftN, the codecs and readEvent lose no byte and repeat none, wherever
\* the stream is cut and wherever a frame lies between inBuffer and temporaryBuf.
THEOREM InputComplete == Spec => []NoByteLost
<1>1. IInv => NoByteLost
  BY DEF IInv
<1> QED BY Invariance, <1>1, PTL

\* What messageCallback gets are the frames the peer sent, in order: the delimited
\* pieces, or the messages Encode was given; and each byte once, when the frames of
\* the codec depend on what one read brings.
THEOREM FramesCorrect == Spec => []FramesMatch
<1>1. IInv => FramesMatch
  BY DEF IInv
<1> QED BY Invariance, <1>1, PTL

\* When the loop of readEvent has ended, no complete frame waits: none whose last byte
\* was read (up to a first empty message), none of a fixed length.
THEOREM NothingWaits == Spec => []CompleteHandled
<1>1. ASSUME IInv, pc = "idle", ~Aligned(input)
      PROVE  /\ consumed = Len(input.stream) - Len(net)
             /\ input.codec.kind = "fixed" => input.codec.frameLength \in Nat \ {0}
             /\ input.codec.kind \in {"fixed", "builtin"}
  BY <1>1, NotAligned DEF IInv, Delivered
<1>2. ASSUME IInv PROVE Len(input.stream) \in Nat /\ Len(net) \in Nat
  BY <1>2, StreamParts
<1>3. ASSUME IInv, pc = "idle" PROVE CompleteHandled
  <2>1. CASE Aligned(input)
    <3>1. /\ input.codec.kind \in {"delimiter", "length"}
          /\ \A k \in 1 .. FrameCount(input) :
                CutAt(input, k) <= Len(input.stream) - Len(net) => k <= Len(frames)
      BY <1>3, <2>1 DEF IInv, Delivered, Aligned
    <3> QED BY <2>1, <3>1 DEF CompleteHandled
  <2>2. CASE ~Aligned(input)
    <3> DEFINE arrived == Len(input.stream) - Len(net)
    <3>1. arrived \in Int /\ consumed = arrived
      <4>1. arrived \in Int
        BY <1>2, <1>3
      <4> QED BY <1>1, <1>3, <2>2, <4>1
    <3>2. CASE input.codec.kind = "fixed"
      <4>1. arrived - consumed < input.codec.frameLength
        BY <1>1, <1>3, <2>2, <3>1, <3>2
      <4> QED BY <2>2, <3>2, <4>1 DEF CompleteHandled
    <3>3. CASE input.codec.kind = "builtin"
      BY <2>2, <3>1, <3>3 DEF CompleteHandled
    <3> QED BY <1>1, <1>3, <2>2, <3>2, <3>3
  <2> QED BY <2>1, <2>2
<1>4. IInv => CompleteHandled
  BY <1>3 DEF CompleteHandled
<1> QED BY Invariance, <1>4, PTL
==============================================================================
