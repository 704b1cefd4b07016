----------------------------- MODULE FrameStream -----------------------------
(***************************************************************************)
(* The decoding loop of Connect.readEvent over a whole byte stream: the    *)
(* stream reaches read(2) cut at arbitrary places; after each read frames  *)
(* are decoded until there is none, and the rest is kept in inBuffer.      *)
(***************************************************************************)
EXTENDS Codec, SequencesExt

\* Each input is a record of a codec, the bytes the peer sends (stream), and what the
\* properties compare with: the positions in the stream where its frames end (ends)
\* and, for the length field codec, the messages the peer encoded (messages).
CONSTANT Inputs

\* The stream up to and with frame k is cut here.
CutAt(i, k) == IF k = 0 THEN 0 ELSE i.ends[k]

Piece(i, k) == SubSeq(i.stream, CutAt(i, k - 1) + 1, CutAt(i, k))

\* The codecs whose frames do not depend on what one read brings.
Aligned(i) == i.codec.kind \in {"delimiter", "length"}

IsDelimited(i) ==
    {i.ends[k] : k \in 1 .. Len(i.ends)} =
        {j \in 1 .. Len(i.stream) : i.stream[j] = i.codec.delimiter}

\* The two ends of the length field codec agree on the length field.
Matching(ec, dc) ==
    /\ ec.order = dc.order
    /\ ec.width = dc.width /\ ec.width \in Widths
    /\ ec.includes \in BOOLEAN /\ ec.adjustment \in Int
    /\ ec.adjustment + (IF ec.includes THEN ec.width ELSE 0) + dc.adjustment = 0

\* The numbers that are not checked fit all the same: a length is an int, and no
\* message with a field of 4 bytes is too long for it.
Fits(length, width) ==
    /\ 2 * length < Power(8)
    /\ width = 4 => length < Power(4)

\* Each message was encoded, behind a header of offset bytes, and nothing follows.
IsEncoded(i) ==
    /\ Matching(i.codec.ec, i.codec.dc)
    /\ i.messages \in Seq(Seq(0 .. Base - 1))
    /\ Len(i.messages) = Len(i.ends)
    /\ \A k \in 1 .. Len(i.ends) :
          /\ Fits(Len(i.messages[k]) - i.codec.dc.adjustment, i.codec.dc.width)
          /\ Encode(i.codec, i.messages[k]).ok
          /\ Drop(Piece(i, k), i.codec.dc.offset) = Encode(i.codec, i.messages[k]).out
    /\ CutAt(i, Len(i.ends)) = Len(i.stream)

ASSUME InputsAssumption ==
    \A i \in Inputs :
        /\ IsCodec(i.codec)
        /\ i.stream \in Seq(0 .. Base - 1)
        /\ i.ends \in Seq(1 .. Len(i.stream))
        /\ \A k, m \in 1 .. Len(i.ends) : k < m => i.ends[k] < i.ends[m]
        /\ i.codec.kind = "delimiter" => IsDelimited(i)
        /\ i.codec.kind = "length" => IsEncoded(i)

VARIABLES
    input,     \* the input of this behaviour
    net,       \* bytes not read yet
    conn,      \* the connection's input: inBuffer and temporaryBuf
    pc,        \* "idle", or "decode": in the loop of readEvent
    frames,    \* history: frames given to messageCallback
    consumed   \* history: bytes taken out of the input with them

vars == <<input, net, conn, pc, frames, consumed>>

TypeOK ==
    /\ net \in Seq(0 .. Base - 1)
    /\ conn \in [in : Seq(0 .. Base - 1), temp : Seq(0 .. Base - 1)]
    /\ pc \in {"idle", "decode"}
    /\ frames \in Seq(Seq(0 .. Base - 1))
    /\ consumed \in 0 .. Len(input.stream)
    /\ pc = "idle" => conn.temp = <<>>

Init ==
    /\ input \in Inputs
    /\ net = input.stream
    /\ conn = [in |-> <<>>, temp |-> <<>>]
    /\ pc = "idle"
    /\ frames = <<>>
    /\ consumed = 0

\* unix.Read returns some bytes; they become temporaryBuf.
readEvent ==
    /\ pc = "idle"
    /\ \E n \in 1 .. Len(net) :
          /\ conn' = [conn EXCEPT !.temp = First(net, n)]
          /\ net' = Drop(net, n)
    /\ pc' = "decode"
    /\ UNCHANGED <<input, frames, consumed>>

\* this.read() finds a frame, messageCallback gets it.
read ==
    LET d == Decode(input.codec, conn)
    IN  /\ pc = "decode"
        /\ d.found
        /\ frames' = Append(frames, d.frame)
        /\ consumed' = consumed + BufferLength(conn) - BufferLength(d.conn)
        /\ conn' = d.conn
        /\ UNCHANGED <<input, net, pc>>

\* Mutants: the rest replaces what inBuffer held; it is written twice.
KeptRestOnly(c) == c.temp
KeptTwice(c) == c.in \o c.temp \o c.temp

\* this.inBuffer.Write(this.temporaryBuf)
Kept(c) == c.in \o c.temp

\* this.read() finds none: the rest is kept.  The slice temporaryBuf itself is not
\* cleared; nothing looks at it before the next read replaces it.
keepRest ==
    LET d == Decode(input.codec, conn)
    IN  /\ pc = "decode"
        /\ ~d.found
        /\ conn' = [in |-> Kept(d.conn), temp |-> <<>>]
        /\ pc' = "idle"
        /\ UNCHANGED <<input, net, frames, consumed>>

Next == readEvent \/ read \/ keepRest

Spec == Init /\ [][Next]_vars
------------------------------------------------------------------------------
(* What must hold.                                                         *)

\* Wherever the stream is cut, and wherever a frame lies between inBuffer and
\* temporaryBuf: the bytes after those given out are all there, in order.
NoByteLost == Read(conn) \o net = Drop(input.stream, consumed)

\* Encode does send an empty message, which Decode never finds, nor what follows it.
FrameCount(i) ==
    IF i.codec.kind = "delimiter" THEN Len(i.ends)
    ELSE LET last == Len(i.messages) + 1
         IN  Min({k \in 1 .. last : k < last => i.messages[k] = <<>>}) - 1

\* The piece without its delimiter, or without what is stripped from it.
Frame(i, k) ==
    IF i.codec.kind = "delimiter" THEN First(Piece(i, k), Len(Piece(i, k)) - 1)
    ELSE Drop(Piece(i, k), i.codec.dc.strip)

\* The frames are those of the stream as a whole, in order, and each takes its own
\* bytes with it, wherever the stream is cut; a codec whose frames depend on the
\* cut (the built-in one hands out what one read brings, the fixed length one a
\* short frame when there is no more) still hands out the bytes it takes, each
\* once and in order.
FramesMatch ==
    IF Aligned(input)
    THEN /\ Len(frames) <= FrameCount(input)
         /\ \A k \in 1 .. Len(frames) : frames[k] = Frame(input, k)
         /\ consumed = CutAt(input, Len(frames))
    ELSE FlattenSeq(frames) = First(input.stream, consumed)

\* Whenever the loop of readEvent has ended, nothing that is complete waits for more
\* input: delimited frames and messages of which all bytes have been read were given
\* to messageCallback (messages up to the first empty one, which hides the others), no
\* fixed length frame is left, and nothing at all by the built-in codec.
CompleteHandled ==
    LET arrived == Len(input.stream) - Len(net)
    IN  pc = "idle" =>
            CASE Aligned(input) ->
                    \A k \in 1 .. FrameCount(input) :
                        CutAt(input, k) <= arrived => k <= Len(frames)
              [] input.codec.kind = "fixed" ->
                    arrived - consumed < input.codec.frameLength
              [] input.codec.kind = "builtin" -> consumed = arrived
==============================================================================
