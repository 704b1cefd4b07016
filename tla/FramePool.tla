------------------------------- MODULE FramePool -------------------------------
(***************************************************************************)
(* The memory a frame lies in.  A frame that was kept in part in inBuffer  *)
(* is put together in a byte buffer of a pool all connections share; the   *)
(* delimiter, line and fixed length codecs hand out a slice of it, and     *)
(* ShiftN gives it back to the pool before messageCallback sees the frame. *)
(* Codec and FrameStream say which bytes make a frame; here a buffer only  *)
(* has the connection whose bytes are in it.  Each connection is on a loop *)
(* of its own.                                                             *)
(***************************************************************************)
CONSTANTS Conns,    \* connections, each on its own loop
          Buffers,  \* byte buffers; one no one refers to stands for a new one
          Copies    \* the codec copies the frame (the length field codec does)

\* No buffer; for a frame, memory of the connection or of the frame itself.
Own == {}

VARIABLES
    pool,        \* buffers in the pool
    content,     \* connection that last wrote into a buffer
    byteBuffer,  \* c.byteBuffer
    frame,       \* buffer the frame being handled lies in
    inBuffer,    \* inBuffer is not empty
    pc           \* "wait", "decode", "write", "cut" or "handle"

vars == <<pool, content, byteBuffer, frame, inBuffer, pc>>

Init ==
    /\ pool = {}
    /\ content = [b \in Buffers |-> Own]
    /\ byteBuffer = [c \in Conns |-> Own]
    /\ frame = [c \in Conns |-> Own]
    /\ inBuffer = [c \in Conns |-> FALSE]
    /\ pc = [c \in Conns |-> "wait"]

Goes(c, where) == pc' = [pc EXCEPT ![c] = where]

\* Data has been read into temporaryBuf.
readEvent(c) ==
    /\ pc[c] = "wait"
    /\ Goes(c, "decode")
    /\ UNCHANGED <<pool, content, byteBuffer, frame, inBuffer>>

Referenced(b) == \E c \in Conns : byteBuffer[c] = b \/ frame[c] = b

\* bytebuffer.Get: one of the pool, or a new one.
Get(c) ==
    \E b \in Buffers :
        /\ b \in pool \/ ~Referenced(b)
        /\ pool' = pool \ {b}
        /\ byteBuffer' = [byteBuffer EXCEPT ![c] = b]

\* Read or ReadN begins: with inBuffer empty, temporaryBuf is what it returns.
Read(c) ==
    /\ pc[c] = "decode"
    /\ IF inBuffer[c] THEN Get(c) /\ Goes(c, "write")
                      ELSE Goes(c, "cut") /\ UNCHANGED <<pool, byteBuffer>>
    /\ UNCHANGED <<content, frame, inBuffer>>

\* What waits in inBuffer and temporaryBuf is written into the buffer.
ReadWrite(c) ==
    /\ pc[c] = "write"
    /\ content' = [content EXCEPT ![byteBuffer[c]] = c]
    /\ Goes(c, "cut")
    /\ UNCHANGED <<pool, byteBuffer, frame, inBuffer>>

\* There is no whole frame: what there is goes to inBuffer (unless it is nothing),
\* and the byte buffer is simply kept until the next Get.
DecodeNone(c) ==
    /\ pc[c] = "cut"
    /\ \E rest \in BOOLEAN : inBuffer' = [inBuffer EXCEPT ![c] = @ \/ rest]
    /\ Goes(c, "wait")
    /\ UNCHANGED <<pool, content, byteBuffer, frame>>

\* A frame is cut off.  With inBuffer in use ShiftN or ResetBuffer puts the byte
\* buffer back; inBuffer may keep some bytes (it then is read from again).
ShiftN(c) ==
    /\ pc[c] = "cut"
    /\ frame' = [frame EXCEPT ![c] = IF Copies \/ ~inBuffer[c] THEN Own ELSE byteBuffer[c]]
    /\ IF inBuffer[c]
       THEN /\ pool' = pool \cup {byteBuffer[c]}
            /\ byteBuffer' = [byteBuffer EXCEPT ![c] = Own]
            /\ \E rest \in BOOLEAN : inBuffer' = [inBuffer EXCEPT ![c] = rest]
       ELSE UNCHANGED <<pool, byteBuffer, inBuffer>>
    /\ Goes(c, "handle")
    /\ UNCHANGED content

\* messageCallback has returned, and its reply was encoded and written.
messageCallback(c) ==
    /\ pc[c] = "handle"
    /\ frame' = [frame EXCEPT ![c] = Own]
    /\ Goes(c, "decode")
    /\ UNCHANGED <<pool, content, byteBuffer, inBuffer>>

Next ==
    \E c \in Conns :
        \/ readEvent(c)
        \/ Read(c)
        \/ ReadWrite(c)
        \/ DecodeNone(c)
        \/ ShiftN(c)
        \/ messageCallback(c)

Spec == Init /\ [][Next]_vars
------------------------------------------------------------------------------
\* byteBuffer is for "buffering current packet": as long as messageCallback works
\* on a frame, the bytes are those of its connection.
FrameIntact ==
    \A c \in Conns :
        (pc[c] = "handle" /\ frame[c] # Own) => content[frame[c]] = c
==============================================================================
