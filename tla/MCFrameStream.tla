---------------------------- MODULE MCFrameStream ----------------------------
(***************************************************************************)
(* Inputs for FrameStream: codecs, the streams they are tried on, and      *)
(* where the frames of a stream end.                                       *)
(***************************************************************************)
EXTENDS FrameStream

CONSTANTS MaxLen,       \* bytes of a stream that is not made of messages
          MaxMessages,  \* messages of a stream made by Encode
          MinMessage,   \* shortest message
          MaxMessage    \* longest message

Streams == BoundedSeq({0, 1}, MaxLen)

\* The length field codec does not look at the bytes of a message.
Messages == {[i \in 1 .. n |-> i] : n \in MinMessage .. MaxMessage}

\* Matching configurations of the two ends of the length field codec.
LengthCodec(order, width, includes, strip) ==
    [kind |-> "length",
     ec |-> [order |-> order, width |-> width, includes |-> includes,
             adjustment |-> 0],
     dc |-> [order |-> order, width |-> width, offset |-> 0, strip |-> strip,
             adjustment |-> IF includes THEN 0 - width ELSE 0]]

\* The peer's header of one byte comes before the length field.
OffsetCodec ==
    [kind |-> "length",
     ec |-> [order |-> "big", width |-> 1, includes |-> FALSE, adjustment |-> 0],
     dc |-> [order |-> "big", width |-> 1, offset |-> 1, strip |-> 2,
             adjustment |-> 0]]

LengthCodecs ==
    {LengthCodec(o, w, i, w) : o \in {"big", "little"}, w \in {1, 2}, i \in BOOLEAN}
        \cup {LengthCodec("big", 3, FALSE, 0), LengthCodec("little", 4, TRUE, 2),
              LengthCodec("big", 8, TRUE, 8)}

DelimiterInputs ==
    {[codec |-> [kind |-> "delimiter", delimiter |-> 0], stream |-> s,
      ends |-> SetToSortSeq({j \in 1 .. Len(s) : s[j] = 0}, <)] : s \in Streams}

OtherInputs ==
    {[codec |-> c, stream |-> s, ends |-> <<>>] :
        c \in {[kind |-> "builtin"], [kind |-> "fixed", frameLength |-> 2]},
        s \in Streams}

\* A message whose length does not fit is not sent.
LengthInputs ==
    LET made(c, ms, header) ==
          LET fitting == SelectSeq(ms, LAMBDA m : Encode(c, m).ok)
              packets == [k \in 1 .. Len(fitting) |-> header \o Encode(c, fitting[k]).out]
          IN  [codec |-> c, stream |-> FlattenSeq(packets), messages |-> fitting,
               ends |-> [k \in 1 .. Len(packets) |-> Len(FlattenSeq(First(packets, k)))]]
        sequences == BoundedSeq(Messages, MaxMessages)
    IN  {made(c, ms, <<>>) : c \in LengthCodecs, ms \in sequences}
          \cup {made(OffsetCodec, ms, <<1>>) : ms \in sequences}

AllInputs == DelimiterInputs \cup OtherInputs \cup LengthInputs
==============================================================================
