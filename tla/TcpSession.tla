----------------------------- MODULE TcpSession -----------------------------
(***************************************************************************)
(* backend/src/tcp_server.cpp, TcpSession: one sensor's connection.  The   *)
(* read handler appends what arrived to frame_buf_, cuts as many frames    *)
(* out of it as it holds, hands each to ProfinetParser and to the callback *)
(* of its type, acknowledges it, and reads again.  TCP delivers the        *)
(* sensor's bytes in order and in pieces of any size.                      *)
(*                                                                         *)
(* Bytes are numbers below Base and every offset is a constant, so that a  *)
(* small instance keeps the layout of the real one: frame_id at 0, the     *)
(* length the session reads at 12 of a header of 16, the length the parser *)
(* reads at 18 and the payload at 20, all in base 256.                     *)
(***************************************************************************)
EXTENDS Integers, Sequences

CONSTANTS
    Base,           \* 256
    HeaderSize,     \* ProfinetParser::HEADER_SIZE, 16
    CutLengthAt,    \* where try_parse_frames reads payload_len, 12
    LengthAt,       \* where ProfinetParser::parse reads payload_length, 18
    PayloadAt,      \* payload_offset, HEADER_SIZE + 4
    ReadSize,       \* size of read_buf_, 8192
    MaxFrameBuf,    \* MAX_FRAME_BUF_SIZE, 4 MiB
    LASER_DATA,     \* PacketType::LASER_DATA, 0x8001
    VIBRATION_DATA, \* PacketType::VIBRATION_DATA, 0x8002
    LaserParses(_), \* whether parse_laser_data returns or throws
    VibrationParses(_),
    Streams,        \* what the sensor may send on the connection
    Room            \* acknowledges the socket takes before the sensor reads one

Byte == 0..(Base - 1)
Result == {"laser", "vibration", "other", "error"}
HandledFrame == [at : Nat, frame : Seq(Byte), result : Result]

ASSUME BaseAssumption == Base \in Nat \ {0}
ASSUME LayoutAssumption ==
    /\ HeaderSize \in Nat
    /\ CutLengthAt \in Nat
    /\ CutLengthAt + 1 < HeaderSize
    /\ LengthAt \in Nat
    /\ PayloadAt \in Nat
ASSUME SizeAssumption ==
    /\ ReadSize \in Nat \ {0}
    /\ MaxFrameBuf \in Nat
    /\ MaxFrameBuf >= HeaderSize + Base * Base - 1
ASSUME StreamsAssumption == Streams \subseteq Seq(Byte)
ASSUME RoomAssumption == Room \in Nat

VARIABLES
    wire,           \* bytes sent and not yet read
    received,       \* history: every byte read
    frame_buf,      \* frame_buf_
    state,          \* "reading", "parsing", "closed": the read handler
    consumed,       \* history: bytes erased from the front of frame_buf_
    handled,        \* history: the frames cut, where they began and what became of them
    peer,           \* "open", or "reset": remote_endpoint() throws
    acks,           \* acknowledges in the socket, "intact" or "garbage"
    writes,         \* async_writes that did not finish at once
    resets          \* history: times frame_buf_ was thrown away

frameVars == <<received, frame_buf, state, consumed, handled, resets>>
ackVars == <<acks, writes>>
vars == <<wire, frameVars, peer, ackVars>>

U16(bytes, at) == bytes[at + 1] + Base * bytes[at + 2]

\* frame_total, of a buffer that holds at least a header
FrameTotal(buf) == HeaderSize + U16(buf, CutLengthAt)

HasFrame(buf) == Len(buf) >= HeaderSize /\ Len(buf) >= FrameTotal(buf)

Drop(s, n) == SubSeq(s, n + 1, Len(s))

\* What try_parse_frames does with a payload, by the type of its frame.
Dispatch(frame_id, payload) ==
    CASE frame_id = LASER_DATA -> IF LaserParses(payload) THEN "laser" ELSE "error"
      [] frame_id = VIBRATION_DATA -> IF VibrationParses(payload) THEN "vibration" ELSE "error"
      [] OTHER -> "other"

\* ProfinetParser::parse; the read_ functions throw past the end of the data.
Parse(frame) ==
    IF \/ Len(frame) < LengthAt + 2
       \/ Len(frame) < PayloadAt + U16(frame, LengthAt)
    THEN "error"
    ELSE Dispatch(U16(frame, 0),
                  SubSeq(frame, PayloadAt + 1, PayloadAt + U16(frame, LengthAt)))

Init ==
    /\ wire \in Streams
    /\ received = <<>>
    /\ frame_buf = <<>>
    /\ state = "reading"
    /\ consumed = 0
    /\ handled = <<>>
    /\ peer = "open"
    /\ acks = <<>>
    /\ writes = 0
    /\ resets = 0

-----------------------------------------------------------------------------
(* do_read *)

\* async_read_some completes with n bytes
Read(n) ==
    /\ state = "reading"
    /\ n <= Len(wire)
    /\ n <= ReadSize
    /\ received' = received \o SubSeq(wire, 1, n)
    /\ frame_buf' = frame_buf \o SubSeq(wire, 1, n)
    /\ wire' = Drop(wire, n)
    /\ state' = "parsing"
    /\ UNCHANGED <<consumed, handled, peer, ackVars, resets>>

\* ... or with eof or an error: the session reads no more
ReadEnds ==
    /\ state = "reading"
    /\ wire = <<>>
    /\ state' = "closed"
    /\ UNCHANGED <<wire, received, frame_buf, consumed, handled, peer, ackVars, resets>>

-----------------------------------------------------------------------------
(* try_parse_frames *)

\* async_write tries to send at once, while ack is still alive.  When earlier
\* writes wait or the socket is full it keeps a pointer into ack instead,
\* which is freed when send_acknowledge returns.
SendAcknowledge ==
    IF writes = 0 /\ Len(acks) < Room
    THEN acks' = Append(acks, "intact") /\ writes' = writes
    ELSE acks' = acks /\ writes' = writes + 1

\* Mutant: of a frame that does not parse only the header is erased.
HandleFrameResync ==
    /\ state = "parsing"
    /\ HasFrame(frame_buf)
    /\ LET n == FrameTotal(frame_buf)
           frame == SubSeq(frame_buf, 1, n)
           result == IF peer = "reset" THEN "error" ELSE Parse(frame)
       IN  /\ handled' = Append(handled, [at |-> consumed, frame |-> frame, result |-> result])
           /\ IF result = "error" THEN UNCHANGED ackVars ELSE SendAcknowledge
           /\ frame_buf' = Drop(frame_buf, IF result = "error" THEN HeaderSize ELSE n)
           /\ consumed' = consumed + (IF result = "error" THEN HeaderSize ELSE n)
    /\ UNCHANGED <<wire, received, state, peer, resets>>

\* Mutant: if in place of while.
HandleFrameOnce ==
    /\ state = "parsing"
    /\ HasFrame(frame_buf)
    /\ LET n == FrameTotal(frame_buf)
           frame == SubSeq(frame_buf, 1, n)
           result == IF peer = "reset" THEN "error" ELSE Parse(frame)
       IN  /\ handled' = Append(handled, [at |-> consumed, frame |-> frame, result |-> result])
           /\ IF result = "error" THEN UNCHANGED ackVars ELSE SendAcknowledge
           /\ frame_buf' = Drop(frame_buf, n)
           /\ consumed' = consumed + n
    /\ state' = "reading"
    /\ UNCHANGED <<wire, received, peer, resets>>

\* One turn of the loop: cut a frame, handle it, erase it.
HandleFrame ==
    /\ state = "parsing"
    /\ HasFrame(frame_buf)
    /\ LET n == FrameTotal(frame_buf)
           frame == SubSeq(frame_buf, 1, n)
           result == IF peer = "reset" THEN "error" ELSE Parse(frame)
       IN  /\ handled' = Append(handled, [at |-> consumed, frame |-> frame, result |-> result])
           /\ IF result = "error" THEN UNCHANGED ackVars ELSE SendAcknowledge
           /\ frame_buf' = Drop(frame_buf, n)
           /\ consumed' = consumed + n
    /\ UNCHANGED <<wire, received, state, peer, resets>>

\* Mutant: the limit is the size of read_buf_.
LeaveLoopEarly ==
    /\ state = "parsing"
    /\ ~HasFrame(frame_buf)
    /\ IF Len(frame_buf) > ReadSize
       THEN /\ frame_buf' = <<>>
            /\ consumed' = consumed + Len(frame_buf)
            /\ resets' = resets + 1
       ELSE UNCHANGED <<frame_buf, consumed, resets>>
    /\ state' = "reading"
    /\ UNCHANGED <<wire, received, handled, peer, ackVars>>

\* No whole frame is left: the check for overflow, and do_read.
LeaveLoop ==
    /\ state = "parsing"
    /\ ~HasFrame(frame_buf)
    /\ IF Len(frame_buf) > MaxFrameBuf
       THEN /\ frame_buf' = <<>>
            /\ consumed' = consumed + Len(frame_buf)
            /\ resets' = resets + 1
       ELSE UNCHANGED <<frame_buf, consumed, resets>>
    /\ state' = "reading"
    /\ UNCHANGED <<wire, received, handled, peer, ackVars>>

-----------------------------------------------------------------------------
(* The other side *)

\* The sensor resets the connection: what was not read is lost, and so are
\* the acknowledges.
PeerReset ==
    /\ peer = "open"
    /\ state # "closed"
    /\ peer' = "reset"
    /\ wire' = <<>>
    /\ acks' = <<>>
    /\ writes' = 0
    /\ UNCHANGED frameVars

\* The sensor reads an acknowledge.
PeerReads ==
    /\ acks # <<>>
    /\ acks' = Tail(acks)
    /\ UNCHANGED <<wire, frameVars, peer, writes>>

\* A write that had to wait is done: it sends what is in the freed memory.
WriteLater ==
    /\ writes > 0
    /\ Len(acks) < Room
    /\ \E content \in {"intact", "garbage"} : acks' = Append(acks, content)
    /\ writes' = writes - 1
    /\ UNCHANGED <<wire, frameVars, peer>>

Next ==
    \/ \E n \in 1..Len(wire) : Read(n)
    \/ ReadEnds
    \/ HandleFrame
    \/ LeaveLoop
    \/ PeerReset
    \/ PeerReads
    \/ WriteLater

Spec == Init /\ [][Next]_vars

-----------------------------------------------------------------------------
(* Properties *)

TypeOK ==
    /\ wire \in Seq(Byte)
    /\ received \in Seq(Byte)
    /\ frame_buf \in Seq(Byte)
    /\ state \in {"reading", "parsing", "closed"}
    /\ consumed \in Nat
    /\ handled \in Seq(HandledFrame)
    /\ peer \in {"open", "reset"}
    /\ acks \in Seq({"intact", "garbage"})
    /\ writes \in Nat
    /\ resets \in Nat

FrameEnd(h) == h.at + Len(h.frame)

(* However the stream is cut into reads, the frames handled tile it: each  *)
(* starts where the one before it ended, has the length its own header     *)
(* says and the bytes that were received there; and frame_buf_ is the      *)
(* part of what was received that no frame covers yet (l.27-66).           *)
FramesTile ==
    /\ \A i \in 1..Len(handled) :
        LET h == handled[i] IN
        /\ h.at = IF i = 1 THEN 0 ELSE FrameEnd(handled[i - 1])
        /\ h.frame = SubSeq(received, h.at + 1, FrameEnd(h))
        /\ Len(h.frame) >= HeaderSize
        /\ Len(h.frame) = FrameTotal(h.frame)
    /\ consumed = IF handled = <<>> THEN 0 ELSE FrameEnd(handled[Len(handled)])
    /\ frame_buf = Drop(received, consumed)

(* A session that waits for the sensor has no whole frame left to handle:  *)
(* one read may complete several frames, and all are handled (l.28, 36).   *)
NoFrameWaits == state # "parsing" => ~HasFrame(frame_buf)

(* The check for overflow (l.68-72) never throws away data: what is left   *)
(* when the loop ends is shorter than one frame, and the longest frame a   *)
(* 16-bit length allows is far below MAX_FRAME_BUF_SIZE.                   *)
NeverOverflows == resets = 0

\* No frame reaches past what has been erased, and that not past the input.
FramesInside ==
    /\ consumed <= Len(received)
    /\ \A i \in 1..Len(handled) : FrameEnd(handled[i]) <= consumed

(* The inductive invariant behind FramesTile, NoFrameWaits, NeverOverflows.*)
IInv == TypeOK /\ FramesTile /\ FramesInside /\ NoFrameWaits /\ NeverOverflows

=============================================================================
