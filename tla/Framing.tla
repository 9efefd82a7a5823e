------------------------------ MODULE Framing ------------------------------
(***************************************************************************)
(* protocol/framing.py, and the bridge's codec in ingress/ws_bridge.py:    *)
(* frames of a length prefix, a type byte and a body on a stream of bytes. *)
(* Bytes are digits of a small base and the prefix is two of them; a       *)
(* payload is the bytes JSON makes of it.                                  *)
(***************************************************************************)
EXTENDS Integers, SequencesExt

Base == 3             \* 256 in the code
PrefixSize == 2       \* LENGTH_PREFIX_SIZE, 4
TypeSize == 1
MaxFrameSize == 3     \* DEFAULT_MAX_FRAME_SIZE, 1 MiB
KnownTypes == {1}  \* MessageType

\* encode_frame: big-endian length of type and body, then both.
EncodeFrame(frame) ==
    LET n == TypeSize + Len(frame.body) IN
    <<n \div Base, n % Base, frame.type>> \o frame.body

DeclaredSize(stream) == stream[1] * Base + stream[2]

\* Faulty variant: the limit is one byte too low.
RejectedSizeOff(n) == n >= MaxFrameSize
RejectedSize(n) == n > MaxFrameSize

\* read_raw_frame on all the bytes there will ever be: the raw frame, or the
\* exception; nothing of the body is read before its length is accepted.
ReadRawFrame(stream) ==
    IF Len(stream) < PrefixSize THEN [error |-> "ConnectionClosed", raw |-> <<>>]
    ELSE LET n == DeclaredSize(stream) IN
         CASE n < TypeSize -> [error |-> "FrameError", raw |-> <<>>]
           [] RejectedSize(n) -> [error |-> "FrameTooLarge", raw |-> <<>>]
           [] OTHER -> IF Len(stream) < PrefixSize + n
                       THEN [error |-> "ConnectionClosed", raw |-> <<>>]
                       ELSE [error |-> "none", raw |-> SubSeq(stream, 1, PrefixSize + n)]

\* decode_frame_body
DecodeFrameBody(raw) ==
    [type |-> raw[PrefixSize + 1], body |-> SubSeq(raw, PrefixSize + TypeSize + 1, Len(raw))]

\* read_frame
ReadFrame(stream) ==
    LET r == ReadRawFrame(stream) IN
    IF r.error = "none" /\ DecodeFrameBody(r.raw).type \notin KnownTypes
    THEN [r EXCEPT !.error = "FrameError"] ELSE r

\* The bridge's read_tcp_frame passes a type it does not know on, as UNKNOWN_0x..,
\* and has one exception for everything.
ReadTcpFrame(stream) ==
    LET r == ReadRawFrame(stream) IN
    IF r.error = "none" THEN r ELSE [r EXCEPT !.error = "ConnectionError"]

\* A reader, of the node or of the bridge, that goes on until an exception ends it,
\* at most n frames further.
ReadOn(reader, state, n) ==
    FoldLeft(LAMBDA s, i :
        LET r == IF reader = "node" THEN ReadFrame(s.rest) ELSE ReadTcpFrame(s.rest) IN
        IF s.error # "none" THEN s
        ELSE IF r.error # "none" THEN [s EXCEPT !.error = r.error]
        ELSE [s EXCEPT !.frames = Append(@, DecodeFrameBody(r.raw)),
                       !.rest = SubSeq(@, Len(r.raw) + 1, Len(@))],
        state, [i \in 1 .. n |-> i])
ReadLoop(reader, stream, n) == ReadOn(reader, [rest |-> stream, frames |-> <<>>, error |-> "none"], n)

\* The node's reader of a client gives a frame half a second.  When it waits at
\* that time, read_frame is cancelled: a prefix readexactly has handed out is gone,
\* what has come of a shorter piece stays in the StreamReader.
HalfASecond(s, more) ==
    IF s.error # "ConnectionClosed" THEN s
    ELSE [s EXCEPT !.error = "none",
                   !.rest = SubSeq(@, IF Len(@) < PrefixSize THEN 1 ELSE PrefixSize + 1, Len(@)) \o more]
ReadWithSilence(early, more, n) ==
    ReadOn("node", HalfASecond(ReadLoop("node", early, n), more), n)

----------------------------------------------------------------------------
Bodies == {[i \in 1 .. n |-> i % 2] : n \in 0 .. 3}
SomeFrames == [type : 0 .. 1, body : Bodies]
Fits(frame) == TypeSize + Len(frame.body) <= MaxFrameSize
Sound(frame) == frame.type \in KnownTypes /\ Fits(frame)
OnWire(sent) == FoldLeft(LAMBDA s, f : s \o EncodeFrame(f), <<>>, sent)

\* What a reader must make of the frames when the connection is cut after so many
\* bytes: the frames before the first that is not good or incomplete.
Whole(Good(_), sent, cut) == Max({n \in 0 .. Len(sent) :
    (\A i \in 1 .. n : Good(sent[i])) /\ Len(OnWire(SubSeq(sent, 1, n))) <= cut})

\* And what the node's raises for that one.
Raised(sent, cut) ==
    LET most == Whole(Sound, sent, cut)
        left == cut - Len(OnWire(SubSeq(sent, 1, most))) - PrefixSize
        size == TypeSize + Len(sent[most + 1].body)
    IN  IF most = Len(sent) \/ left < 0 THEN "ConnectionClosed"
        ELSE IF size > MaxFrameSize THEN "FrameTooLarge"
        ELSE IF left < size THEN "ConnectionClosed" ELSE "FrameError"

\* Two frames, whole, too large, unknown or cut off anywhere: the reader gets the
\* frames before the first bad or incomplete one and then the exception.  To the
\* bridge a frame of unknown type is as good as any.
RoundTrip == \A f, g \in SomeFrames : LET sent == <<f, g>>  bytes == OnWire(sent) IN
    \A cut \in 0 .. Len(bytes) :
        LET stream == SubSeq(bytes, 1, cut)
            read == ReadLoop("node", stream, 3)
            bridged == ReadLoop("bridge", stream, 3)
        IN  /\ read.frames = SubSeq(sent, 1, Whole(Sound, sent, cut))
            /\ read.error = Raised(sent, cut)
            /\ bridged.frames = SubSeq(sent, 1, Whole(Fits, sent, cut))
            /\ bridged.error = "ConnectionError"

\* A silence between two frames or within a prefix costs nothing, and one anywhere
\* leaves what was read before it alone.  One between a prefix and the end of its
\* frame is left out: the prefix is lost and the body read as frames.
SilenceHeard == \A f, g \in SomeFrames : LET sent == <<f, g>>  bytes == OnWire(sent) IN
    \A cut \in 0 .. Len(bytes) :
        LET early == SubSeq(bytes, 1, cut)
            before == ReadLoop("node", early, 3)
            read == ReadWithSilence(early, SubSeq(bytes, cut + 1, Len(bytes)), 3)
        IN  /\ IsPrefix(before.frames, read.frames)
            /\ Len(before.rest) < PrefixSize \/ before.error # "ConnectionClosed" =>
               /\ read.frames = SubSeq(sent, 1, Whole(Sound, sent, Len(bytes)))
               /\ read.error = Raised(sent, Len(bytes))
=============================================================================
