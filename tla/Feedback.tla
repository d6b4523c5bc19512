----------------------------- MODULE Feedback -----------------------------
(***************************************************************************)
(* What the printer says on one connection and what the agent makes of it  *)
(* (device/responses.py, device/feedback.py): status frames go on the      *)
(* wire, reads return slices of it, and StatusParser puts the frames       *)
(* together again.                                                         *)
(*                                                                         *)
(* The parser's loop is cut at its iterations.  A serial link ("spp") is a *)
(* stream: a read returns any slice of it, and the first one may start in  *)
(* the middle of a frame.  On BLE ("ble") a frame is a notification, and   *)
(* so is the acknowledgement of a packet.  Some links are never read.      *)
(***************************************************************************)
EXTENDS Integers, Sequences, FiniteSets

CONSTANTS
    Reply,      \* the status frames this printer may send
    Leftover,   \* the bytes a serial stream may begin with, mid-frame
    MaxReplies  \* bound: frames sent on the connection

Byte == 0..255

STATUS_PREFIX == 26
ALT_PREFIX    == 27
ACK           == <<1, 1>>

(***************************************************************************)
(* TAGS: the tags whose payload has a given length, and the one whose      *)
(* payload says its own.                                                   *)
(***************************************************************************)
TagsOfLength ==
    [n \in {0, 1, 2, 3, 4, 7, 13, 15} |->
        CASE n = 0  -> {60, 161, 162}
          [] n = 1  -> {3, 4, 5, 6, 9, 11, 12, 14, 15, 23, 32, 53, 62, 63, 94, 163}
          [] n = 2  -> {47, 75}
          [] n = 3  -> {7, 17, 21, 49}
          [] n = 4  -> {10, 22, 59}
          [] n = 7  -> {78}
          [] n = 13 -> {45}
          [] n = 15 -> {8, 64}]

LENGTH_PREFIXED == 153
PRINT_COMPLETE  == 15

FixedTag == UNION {TagsOfLength[n] : n \in DOMAIN TagsOfLength}
Known(t) == t \in FixedTag \cup {LENGTH_PREFIXED}

PayloadLength(t) == CHOOSE n \in DOMAIN TagsOfLength : t \in TagsOfLength[n]

\* A status frame (StatusFrame), and how the printer puts it on the wire.
Frame == [tag : Byte, raw : Seq(Byte)]

Encoded(f) ==
    (IF f.tag = LENGTH_PREFIXED THEN <<STATUS_PREFIX, f.tag, Len(f.raw)>>
                                ELSE <<STATUS_PREFIX, f.tag>>) \o f.raw

ASSUME ReplyAssumption ==
    /\ Reply \subseteq Frame
    /\ \A f \in Reply : f.tag \in FixedTag => Len(f.raw) = PayloadLength(f.tag)
    /\ \A f \in Reply : f.tag = LENGTH_PREFIXED => Len(f.raw) \in Byte
ASSUME BoundAssumption == Leftover \subseteq Seq(Byte) /\ MaxReplies \in Nat

VARIABLES
    link,      \* "spp", "ble" or, when nothing is read, "blind"
    sent,      \* history: the frames the printer has sent
    wire,      \* bytes sent and not read yet
    buf,       \* StatusParser._buf
    found,     \* the frames feed() has completed in this call
    frames,    \* DeviceState.frames
    completed, \* DeviceState.prints_completed
    acked      \* DeviceState.acks is not zero

feedbackVars == <<link, sent, wire, buf, found, frames, completed, acked>>

Init ==
    /\ \/ link = "spp" /\ wire \in Leftover
       \/ link \in {"ble", "blind"} /\ wire = <<>>
    /\ sent = <<>>
    /\ buf = <<>> /\ found = <<>>
    /\ frames = <<>> /\ completed = 0 /\ acked = FALSE

-----------------------------------------------------------------------------
(***************************************************************************)
(* _try_one: what is at the head of the buffer.                            *)
(***************************************************************************)
IsPrefixByte(b) == b \in {STATUS_PREFIX, ALT_PREFIX}

Garbage == buf # <<>> /\ ~IsPrefixByte(Head(buf))
Tagged  == Len(buf) >= 2 /\ IsPrefixByte(Head(buf))
Unknown == Tagged /\ ~Known(buf[2])

HeaderLength == IF buf[2] = LENGTH_PREFIXED THEN 3 ELSE 2
FrameLength  == IF buf[2] = LENGTH_PREFIXED THEN 3 + buf[3]
                                            ELSE 2 + PayloadLength(buf[2])

Complete == /\ Tagged /\ Known(buf[2])
            /\ Len(buf) >= HeaderLength
            /\ Len(buf) >= FrameLength

Parsing == Garbage \/ Unknown \/ Complete
Idle    == ~Parsing /\ found = <<>>

Drop(n) == buf' = SubSeq(buf, n + 1, Len(buf))

\* Drop what comes before the next prefix, or everything.
Resync ==
    /\ Garbage
    /\ \E n \in 1..Len(buf) :
         /\ \A k \in 1..n : ~IsPrefixByte(buf[k])
         /\ n < Len(buf) => IsPrefixByte(buf[n + 1])
         /\ Drop(n)
    /\ UNCHANGED <<link, sent, wire, found, frames, completed, acked>>

SkipUnknown ==
    /\ Unknown
    /\ Drop(2)
    /\ UNCHANGED <<link, sent, wire, found, frames, completed, acked>>

TakeFrame ==
    /\ Complete
    /\ found' = Append(found, [tag |-> buf[2],
                               raw |-> SubSeq(buf, HeaderLength + 1, FrameLength)])
    /\ Drop(FrameLength)
    /\ UNCHANGED <<link, sent, wire, frames, completed, acked>>

Completions(fs) == {n \in DOMAIN fs : fs[n].tag = PRINT_COMPLETE}

\* feed() has returned: DeviceState.ingest of each frame.
Ingest ==
    /\ ~Parsing /\ found # <<>>
    /\ frames' = frames \o found
    /\ completed' = completed + Cardinality(Completions(found))
    /\ found' = <<>>
    /\ UNCHANGED <<link, sent, wire, buf, acked>>

-----------------------------------------------------------------------------
AbsorbAlone(data) ==
    IF data = ACK
    THEN acked' = TRUE /\ UNCHANGED buf
    ELSE buf' = data /\ UNCHANGED acked

\* DeviceFeedback.ingest of what a read or a notification brought.
Absorb(data) ==
    IF data = ACK
    THEN acked' = TRUE /\ UNCHANGED buf
    ELSE buf' = buf \o data /\ UNCHANGED acked

\* A read returns the next bytes of the stream, as many as it likes; a
\* notification is one frame.
Read ==
    /\ Idle /\ link # "blind"
    /\ \E n \in 1..Len(wire) :
         /\ link = "ble" => \E f \in Reply : SubSeq(wire, 1, n) = Encoded(f)
         /\ Absorb(SubSeq(wire, 1, n))
         /\ wire' = SubSeq(wire, n + 1, Len(wire))
    /\ UNCHANGED <<link, sent, found, frames, completed>>

\* The acknowledgement of a packet, on BLE.
AckPacket ==
    /\ link = "ble" /\ Idle
    /\ Absorb(ACK)
    /\ UNCHANGED <<link, sent, wire, found, frames, completed>>

\* The printer answers a query or reports a change.
Send(f) ==
    /\ Len(sent) < MaxReplies
    /\ sent' = Append(sent, f)
    /\ wire' = wire \o Encoded(f)
    /\ UNCHANGED <<link, buf, found, frames, completed, acked>>

Parser == Resync \/ SkipUnknown \/ TakeFrame \/ Ingest

Next == Parser \/ Read \/ AckPacket \/ (\E f \in Reply : Send(f))

Spec == Init /\ [][Next]_feedbackVars

-----------------------------------------------------------------------------
\* Understood(fs)[n]: of the first n frames of fs, those the table knows.
Understood(fs) ==
    LET known[n \in Nat] ==
            IF n = 0 THEN <<>>
            ELSE IF Known(fs[n].tag) THEN Append(known[n - 1], fs[n]) ELSE known[n - 1]
    IN  known

\* "Callers never have to reassemble": however the stream is cut, the frames
\* that come out are, in order, the ones the printer sent and the table
\* knows, each with its payload; none is missing once the stream is read, and
\* each finished print has been counted once.
FramesAsSent ==
    /\ \E n \in 0..Len(sent) : frames \o found = Understood(sent)[n]
    /\ Idle /\ wire = <<>> =>
         /\ frames = Understood(sent)[Len(sent)]
         /\ completed = Cardinality(Completions(sent))
=============================================================================
