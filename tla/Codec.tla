-------------------------------- MODULE Codec --------------------------------
(***************************************************************************)
(* The codecs of net/protocol/codec.go and the view of a connection's      *)
(* input they work on (Read, ReadN, ShiftN, ... of net/connect), as        *)
(* operators.                                                              *)
(*                                                                         *)
(* The unread input of a connection is a record c: c.in is what the ring   *)
(* buffer inBuffer kept from earlier reads, c.temp the rest of             *)
(* temporaryBuf, the slice the last read filled.  A byte is a number below *)
(* Base (256 in the code); a length field of w bytes holds numbers below   *)
(* Base^w.                                                                 *)
(***************************************************************************)
EXTENDS Integers, Sequences

CONSTANT Base   \* number of values of a byte

ASSUME BaseAssumption == Base \in Nat /\ Base > 1

First(s, n) == SubSeq(s, 1, n)
Drop(s, n) == SubSeq(s, n + 1, Len(s))

\* Base^n, of which the provers know nothing.
Power(n) ==
    LET power[i \in 0 .. n] == IF i = 0 THEN 1 ELSE power[i - 1] * Base IN power[n]
------------------------------------------------------------------------------
(* The input of a connection.                                              *)

Read(c) == c.in \o c.temp

BufferLength(c) == Len(c.in) + Len(c.temp)

ResetBuffer(c) == [in |-> <<>>, temp |-> <<>>]

\* The first n bytes; all there is when there are fewer, or n is not positive.
ReadN(c, n) ==
    LET size == IF BufferLength(c) < n \/ n <= 0 THEN BufferLength(c) ELSE n
    IN  CASE c.in = <<>> -> First(c.temp, size)
          [] c.in # <<>> /\ Len(c.in) >= size -> First(c.in, size)
          [] OTHER -> c.in \o First(c.temp, size - Len(c.in))

\* Mutant: the part of the frame that lies in temporaryBuf is not skipped.
SkipInOnly(c, n) == c.temp
SkipRest(c, n) == Drop(c.temp, n - Len(c.in))

\* Skip n bytes; everything when there are fewer, or n is not positive.
ShiftN(c, n) ==
    CASE BufferLength(c) < n \/ n <= 0 -> ResetBuffer(c)
      [] n \in 1 .. BufferLength(c) /\ c.in = <<>> -> [c EXCEPT !.temp = Drop(@, n)]
      [] n \in 1 .. Len(c.in) -> [c EXCEPT !.in = Drop(@, n)]
      [] OTHER -> [in |-> <<>>, temp |-> SkipRest(c, n)]
------------------------------------------------------------------------------
(* Decode: the frame found and the input left, or no frame.                *)

NoFrame(c) == [found |-> FALSE, frame |-> <<>>, conn |-> c]
Found(frame, c) == [found |-> TRUE, frame |-> frame, conn |-> c]

\* BuiltInFrameCodec: all there is.
DecodeBuiltIn(c) ==
    IF Read(c) = <<>> THEN NoFrame(ResetBuffer(c)) ELSE Found(Read(c), ResetBuffer(c))

\* LineBasedFrameCodec (delimiter CRLFByte) and DelimiterBasedFrameCodec.
DecodeDelimiter(c, delimiter) ==
    LET buf == Read(c)
        at == {i \in 1 .. Len(buf) : buf[i] = delimiter}
        idx == CHOOSE i \in at : \A j \in at : i <= j
    IN  IF at = {} THEN NoFrame(c) ELSE Found(First(buf, idx - 1), ShiftN(c, idx))

DecodeFixedLength(c, frameLength) ==
    LET buf == ReadN(c, frameLength)
    IN  IF buf = <<>> THEN NoFrame(c) ELSE Found(buf, ShiftN(c, Len(buf)))

\* The number in a length field, most significant byte first or last.
Uint(bytes, order) ==
    LET w == Len(bytes)
        big == IF order = "big" THEN bytes ELSE [i \in 1 .. w |-> bytes[w + 1 - i]]
        value[i \in 0 .. w] == IF i = 0 THEN 0 ELSE value[i - 1] * Base + big[i]
    IN  value[w]

\* int(x) of a uint64: 8 bytes, two's complement.
ToInt(x) == IF 2 * x >= Power(8) THEN x - Power(8) ELSE x

Widths == {1, 2, 3, 4, 8}

\* The configurations codecs are made with: frames have a length, and no more than
\* the bytes before the message is stripped (else the slice of a short message
\* would be out of range).
IsCodec(codec) ==
    \/ codec.kind \in {"builtin", "delimiter"}
    \/ codec.kind = "fixed" /\ codec.frameLength \in Nat \ {0}
    \/ /\ codec.kind = "length"
       /\ codec.dc.offset \in Nat /\ codec.dc.width \in Nat
       /\ codec.dc.adjustment \in Int
       /\ codec.dc.strip \in 0 .. codec.dc.offset + codec.dc.width

\* Mutant: a message that ends where the input ends is not seen.
TooFewOrEqual(in, n) == n <= 0 \/ n >= Len(in)

\* innerBuffer.readN(n) fails.
TooFew(in, n) == n <= 0 \/ n > Len(in)

\* LengthFieldBasedFrameCodec: offset bytes, the length field, the message.
DecodeLengthField(c, dc) ==
    LET in == Read(c)
        hdr == dc.offset + dc.width
        msgLength == ToInt(Uint(SubSeq(in, dc.offset + 1, hdr), dc.order)) + dc.adjustment
    IN  IF dc.width \notin Widths \/ Len(in) < hdr THEN NoFrame(c)
        ELSE IF TooFew(Drop(in, hdr), msgLength) THEN NoFrame(c)
        ELSE Found(Drop(First(in, hdr + msgLength), dc.strip), ShiftN(c, hdr + msgLength))

Decode(codec, c) ==
    CASE codec.kind = "builtin" -> DecodeBuiltIn(c)
      [] codec.kind = "delimiter" -> DecodeDelimiter(c, codec.delimiter)
      [] codec.kind = "fixed" -> DecodeFixedLength(c, codec.frameLength)
      [] codec.kind = "length" -> DecodeLengthField(c, codec.dc)
------------------------------------------------------------------------------
(* Encode: the bytes to send, or an error.                                 *)

EncodeError == [ok |-> FALSE, out |-> <<>>]
Encoded(out) == [ok |-> TRUE, out |-> out]

\* length as w bytes.
PutUint(length, w, order) ==
    LET big == [i \in 1 .. w |-> (length \div Power(w - i)) % Base]
    IN  IF order = "big" THEN big ELSE [i \in 1 .. w |-> big[w + 1 - i]]

\* A field of 1, 2 or 3 bytes is checked for overflow, one of 4 or 8 is not.
EncodeLengthField(buf, ec) ==
    LET length == Len(buf) + ec.adjustment + (IF ec.includes THEN ec.width ELSE 0)
    IN  IF \/ length < 0
           \/ ec.width \notin Widths
           \/ ec.width \in {1, 2, 3} /\ length >= Power(ec.width)
        THEN EncodeError
        ELSE Encoded(PutUint(length, ec.width, ec.order) \o buf)

Encode(codec, buf) ==
    CASE codec.kind = "builtin" -> Encoded(buf)
      [] codec.kind = "delimiter" -> Encoded(Append(buf, codec.delimiter))
      [] codec.kind = "fixed" -> IF Len(buf) % codec.frameLength = 0
                                 THEN Encoded(buf) ELSE EncodeError
      [] codec.kind = "length" -> EncodeLengthField(buf, codec.ec)
==============================================================================
