---------------------------- MODULE FrameDecoder ----------------------------
(***************************************************************************)
(* The reading of frames from a byte stream, from                          *)
(* packages/protocol/src/frame_codec.js and decode in frame.js.  The       *)
(* stream is made of frames, of frames that were cut short or damaged, and *)
(* of garbage, and comes in chunks of any size.  A cell stands for some    *)
(* bytes: two for the magic, one for the rest of a header with its CRC,    *)
(* one for a payload's CRC.  The loop of a push runs round by round; the   *)
(* next call comes when it has returned.                                   *)
(***************************************************************************)
EXTENDS Integers, Sequences

CONSTANTS
    Payload,       \* payloads, as sequences of cells
    MaxPayload,    \* MAX_FRAME_PAYLOAD_SIZE
    MaxPieces      \* bound on the pieces of a stream

VARIABLES
    stream,     \* all cells that were sent
    pieces,     \* of how many pieces
    arrived,    \* how many of the cells have arrived
    buffer,     \* buffer
    reading,    \* _processBuffer's loop runs
    emitted,    \* the frames emitted, with the place in the stream where each ends
    sent,       \* history: the clean frames of the stream
    cut         \* history: those of which reset has thrown a piece away

frameVars == <<stream, pieces, arrived, buffer, reading, emitted, sent, cut>>

\* A cell of payload, or of garbage, and the halves of PROTOCOL_MAGIC, which a
\* payload may hold too.
Data == <<"data">>
KR == <<"KR">>
ON == <<"ON">>
Magic == <<KR, ON>>

ASSUME PayloadAssumption == Payload \subseteq Seq({Data, KR, ON})

\* The rest of a header with the payload's length, and the CRC of a payload.
Rest(length) == <<"length", length>>
Crc(payload) == <<"crc", payload>>

HeaderSize == 3
TrailerSize == 1

Framed(rest, payload, crc) == Magic \o <<rest>> \o payload \o <<crc>>

Encode(payload) == Framed(Rest(Len(payload)), payload, Crc(payload))

\* A frame whose header or payload does not match its CRC, or that ends early.
Damaged(payload) ==
    {Framed(Data, payload, Crc(payload)), Framed(Rest(Len(payload)), payload, Data)}
    \cup {SubSeq(Encode(payload), 1, n) : n \in 1 .. HeaderSize + Len(payload)}

Dirt == {<<Data>>, <<Data, KR>>} \cup UNION {Damaged(p) : p \in Payload}

\* Where the magic begins after the first cell of a buffer.
MagicAt(b) == {i \in 2 .. Len(b) - 1 : b[i] = KR /\ b[i + 1] = ON}

First(S) == CHOOSE i \in S : \A j \in S : i <= j

From(b, i) == SubSeq(b, i, Len(b))

\* A mutant: no cell of a buffer without a magic is kept.
LastCellDropped(b) == <<>>

\* The last cell may be the first half of a magic.
LastCell(b) == From(b, Len(b))

InSync(b) == b[1] = KR /\ b[2] = ON

HeaderOk(b) == b[HeaderSize][1] = "length"

PayloadLength(b) == b[HeaderSize][2]

\* A header that announces a frame.
Announces(b) == InSync(b) /\ HeaderOk(b) /\ PayloadLength(b) <= MaxPayload

FrameSize(b) == HeaderSize + PayloadLength(b) + TrailerSize

PayloadOf(b) == SubSeq(b, HeaderSize + 1, HeaderSize + PayloadLength(b))

PayloadOk(b) == b[FrameSize(b)] = Crc(PayloadOf(b))

-----------------------------------------------------------------------------
\* The other side: a frame, which encode makes of any payload, or what is not one.
SendFrame(p) ==
    /\ ~reading /\ pieces < MaxPieces
    /\ stream' = stream \o Encode(p) /\ pieces' = pieces + 1
    /\ sent' = IF Len(p) <= MaxPayload
               THEN sent \cup {[payload |-> p, ends |-> Len(stream) + Len(Encode(p))]}
               ELSE sent
    /\ UNCHANGED <<arrived, buffer, reading, emitted, cut>>

SendDirt(d) ==
    /\ ~reading /\ pieces < MaxPieces
    /\ stream' = stream \o d /\ pieces' = pieces + 1
    /\ UNCHANGED <<arrived, buffer, reading, emitted, sent, cut>>

\* push: the next n cells arrive together.
Push(n) ==
    /\ ~reading
    /\ buffer' = buffer \o SubSeq(stream, arrived + 1, arrived + n)
    /\ arrived' = arrived + n
    /\ reading' = TRUE
    /\ UNCHANGED <<stream, pieces, emitted, sent, cut>>

\* The cells of the stream before the buffer.
Gone == arrived - Len(buffer)

StartOf(f) == f.ends - (HeaderSize + Len(f.payload) + TrailerSize) + 1

Reset ==
    /\ ~reading /\ buffer # <<>>
    /\ buffer' = <<>>
    /\ cut' = cut \cup {f \in sent : StartOf(f) > Gone /\ StartOf(f) <= arrived}
    /\ UNCHANGED <<stream, pieces, arrived, reading, emitted, sent>>

\* The rounds of the loop of _processBuffer.
Round == reading /\ Len(buffer) >= HeaderSize + TrailerSize

Resync ==
    /\ Round /\ ~InSync(buffer)
    /\ IF MagicAt(buffer) = {} THEN buffer' = LastCell(buffer) /\ reading' = FALSE
       ELSE buffer' = From(buffer, First(MagicAt(buffer))) /\ UNCHANGED reading
    /\ UNCHANGED <<stream, pieces, arrived, emitted, sent, cut>>

\* Of a frame that is damaged only the magic is skipped; an error listener hears of it.
SkipMagic ==
    /\ Round /\ InSync(buffer)
    /\ Announces(buffer) => Len(buffer) >= FrameSize(buffer) /\ ~PayloadOk(buffer)
    /\ buffer' = From(buffer, Len(Magic) + 1)
    /\ UNCHANGED <<stream, pieces, arrived, reading, emitted, sent, cut>>

EmitFrame ==
    /\ Round /\ Announces(buffer) /\ Len(buffer) >= FrameSize(buffer) /\ PayloadOk(buffer)
    /\ buffer' = From(buffer, FrameSize(buffer) + 1)
    /\ emitted' = Append(emitted, [payload |-> PayloadOf(buffer), ends |-> Gone + FrameSize(buffer)])
    /\ UNCHANGED <<stream, pieces, arrived, reading, sent, cut>>

\* The loop ends, or waits for the rest of a frame.
Return ==
    /\ reading
    /\ Round => Announces(buffer) /\ Len(buffer) < FrameSize(buffer)
    /\ reading' = FALSE
    /\ UNCHANGED <<stream, pieces, arrived, buffer, emitted, sent, cut>>

FrameInit ==
    /\ stream = <<>> /\ pieces = 0 /\ arrived = 0
    /\ buffer = <<>> /\ reading = FALSE /\ emitted = <<>>
    /\ sent = {} /\ cut = {}

FrameNext ==
    \/ \E p \in Payload : SendFrame(p)
    \/ \E d \in Dirt : SendDirt(d)
    \/ \E n \in 1 .. Len(stream) - arrived : Push(n)
    \/ Reset
    \/ Resync \/ SkipMagic \/ EmitFrame \/ Return

FrameSpec == FrameInit /\ [][FrameNext]_frameVars

-----------------------------------------------------------------------------
\* Only clean frames are emitted, in their order, none twice and none made up of
\* pieces of others; and the decoder finds its way back after every kind of dirt:
\* unless a header is in the buffer whose frame may still come, it has emitted all
\* that arrived and that no reset has cut.
FramesComeOut ==
    /\ \A i \in DOMAIN emitted : emitted[i] \in sent
    /\ \A i, j \in DOMAIN emitted : i < j => emitted[i].ends < emitted[j].ends
    /\ ~reading /\ Len(buffer) < HeaderSize + TrailerSize =>
           \A f \in sent \ cut : f.ends <= arrived => \E i \in DOMAIN emitted : emitted[i] = f

=============================================================================
