---------------------------- MODULE SensorPayload ----------------------------
(***************************************************************************)
(* The payloads of laser and vibration frames: what the simulated sensors  *)
(* write (simulator/main.cpp, build_laser_payload, build_vibration_payload)*)
(* and how ProfinetParser reads it back, value by value, from a payload    *)
(* that may have been cut off anywhere.                                    *)
(* A payload has a head, items (cracks, amplitudes), parts of an item (the *)
(* points of a crack) and a tail; both programs go through these blocks in *)
(* nested loops, each with the values and the counts it has itself.        *)
(* The frame around the payload is left out: the parser of this module is  *)
(* given a payload that begins where parse (profinet_parser.cpp l.94-102)  *)
(* takes it from, at byte 20 of the frame, as from a sensor that keeps to  *)
(* the layout of profinet_parser.h.  The simulated sensors do not: their   *)
(* payloads begin at byte 24 (simulator/main.cpp l.339-357), so what is    *)
(* shown here of the values says nothing of their frames.                  *)
(***************************************************************************)
EXTENDS Naturals, Sequences

CONSTANTS
    Laser,          \* laser payloads: the sequence of the point counts of their cracks
    Vibration,      \* vibration payloads: how many amplitudes they hold
    JsonSize        \* bytes of the JSON text at the end

ASSUME PayloadAssumption ==
    /\ Laser \subseteq Seq(Nat)
    /\ Vibration \subseteq Nat
    /\ JsonSize \in Nat \ {0}

\* What a sensor measured: the items, each with its number of parts.
Measured ==
    {[kind |-> "laser", parts |-> c] : c \in Laser}
    \union {[kind |-> "vibration", parts |-> [i \in 1..n |-> 0]] : n \in Vibration}

-----------------------------------------------------------------------------
(* The values each program appends or reads, with their widths in bytes.   *)

Value(name, width) == [name |-> name, width |-> width]
U32(name) == Value(name, 4)
U64(name) == Value(name, 8)
Float(name) == Value(name, 4)
Double(name) == Value(name, 8)

WritePoint == <<
    Double("x"), Double("y"), Double("z"), Double("depth"), Double("width"),
    Double("nx"), Double("ny"), Double("nz"), Double("curvature")>>

WriteLaser == [
    head |-> <<U32("sensor_id"), U32("porcelain_id"), U64("timestamp"),
               Double("area0"), Double("area1"), Double("area2"), Double("area3"),
               Double("resolution"), Value("crack_detected", 1), U32("crack_count")>>,
    item |-> <<Double("max_depth"), Double("max_width"), Double("total_length"),
               U32("point_count")>>,
    part |-> WritePoint,
    tail |-> <<U32("json_length"), Value("json", JsonSize)>>]

WriteVibration == [
    head |-> <<U32("sensor_id"), U32("porcelain_id"), U64("timestamp"),
               Double("rms"), Double("peak"), Double("dominant_frequency"),
               Float("temperature"), Float("humidity"), U32("amplitude_count")>>,
    item |-> <<Double("amplitude")>>,
    part |-> <<>>,
    tail |-> <<U32("json_length"), Value("json", JsonSize)>>]

Writes(kind) == IF kind = "laser" THEN WriteLaser ELSE WriteVibration

ReadPoint == <<
    Double("x"), Double("y"), Double("z"), Double("depth"), Double("width"),
    Double("nx"), Double("ny"), Double("nz"), Double("curvature")>>

ParseLaser == [
    head |-> <<U32("sensor_id"), U32("porcelain_id"), U64("timestamp"),
               Double("area0"), Double("area1"), Double("area2"), Double("area3"),
               Double("resolution"), Value("crack_detected", 1), U32("crack_count")>>,
    item |-> <<Double("max_depth"), Double("max_width"), Double("total_length"),
               U32("point_count")>>,
    part |-> ReadPoint,
    tail |-> <<U32("json_length")>>]

ParseVibration == [
    head |-> <<U32("sensor_id"), U32("porcelain_id"), U64("timestamp"),
               Double("rms"), Double("peak"), Double("dominant_frequency"),
               Float("temperature"), Float("humidity"), U32("amplitude_count")>>,
    item |-> <<Double("amplitude")>>,
    part |-> <<>>,
    tail |-> <<U32("json_length")>>]

Reads(kind) == IF kind = "laser" THEN ParseLaser ELSE ParseVibration

-----------------------------------------------------------------------------
(* A place in the loops: value k of a block, in item i and its part j.     *)

Place(block, k, i, j) == [block |-> block, k |-> k, i |-> i, j |-> j]
First == Place("head", 1, 0, 0)
End == Place("end", 0, 0, 0)

\* The loop over the items goes on, or has ended.
Item(i, items) == IF i <= items THEN Place("item", 1, i, 0) ELSE Place("tail", 1, 0, 0)

\* What follows place p of a block of n values, with so many items, and so many
\* parts in the item.
Follow(p, n, items, parts) ==
    IF p.k < n THEN Place(p.block, p.k + 1, p.i, p.j)
    ELSE CASE p.block = "head" -> Item(1, items)
           [] p.block = "item" /\ parts > 0 -> Place("part", 1, p.i, 1)
           [] p.block = "part" /\ p.j < parts -> Place("part", 1, p.i, p.j + 1)
           [] p.block = "tail" -> End
           [] OTHER -> Item(p.i + 1, items)

-----------------------------------------------------------------------------

VARIABLES
    measured,       \* what the sensor measured
    payload,        \* the values written, by the offset at which they begin
    size,           \* payload.size()
    put,            \* the place where the sensor writes
    bytes,          \* how many bytes of the payload the parser has got
    get,            \* the place where the parser reads
    offset,         \* offset
    items,          \* crack_count or amplitude_count, and point_count, as read
    points,
    result,         \* "writing", "reading", "ok", "thrown"
    json,           \* whether processed_data or frequency_spectrum was set
    outside         \* auxiliary: a byte outside of the payload was read

writerVars == <<measured, payload, size, put>>
readerVars == <<get, offset, items, points, json, outside>>
payloadVars == <<writerVars, bytes, readerVars, result>>

PayloadInit ==
    /\ measured \in Measured
    /\ payload = <<>>
    /\ size = 0
    /\ put = First
    /\ bytes = 0
    /\ get = First
    /\ offset = 0
    /\ items = 0
    /\ points = 0
    /\ result = "writing"
    /\ json = FALSE
    /\ outside = FALSE

\* The number a value holds, if it is one that steers the parser.
Number(name, i) ==
    CASE name \in {"crack_count", "amplitude_count"} -> Len(measured.parts)
      [] name = "point_count" -> measured.parts[i]
      [] name = "json_length" -> JsonSize
      [] OTHER -> 0

Written(p) ==
    LET v == Writes(measured.kind)[p.block][p.k] IN
    [place |-> p, name |-> v.name, width |-> v.width, number |-> Number(v.name, p.i)]

After(p) ==
    Follow(p, Len(Writes(measured.kind)[p.block]), Len(measured.parts), measured.parts[p.i])

\* append_u32, append_u64, append_float, append_double, push_back, insert
WriteValue ==
    /\ result = "writing"
    /\ put # End
    /\ payload' = [o \in DOMAIN payload \union {size} |->
                      IF o = size THEN Written(put) ELSE payload[o]]
    /\ size' = size + Written(put).width
    /\ put' = After(put)
    /\ UNCHANGED <<measured, bytes, readerVars, result>>

\* parse: payload.assign, from payload_offset on, of as many bytes as the header
\* of the frame says.
Arrives ==
    /\ result = "writing"
    /\ put = End
    /\ bytes' \in 0..size
    /\ result' = "reading"
    /\ UNCHANGED <<writerVars, readerVars>>

-----------------------------------------------------------------------------

\* The bytes at the offset are those of one value.
Found(width) == offset \in DOMAIN payload /\ payload[offset].width = width

\* The numbers that may be found there: bytes of several values are any number.
Numbers(width) == IF Found(width) THEN {payload[offset].number} ELSE 0..1

\* What a read of a value leaves behind.
Took(v) == offset' = offset + v.width

Block == Reads(measured.kind)[get.block]
Wanted == Block[get.k]

\* read_u32, read_u64, read_float, read_double: the value is there
ReadValue ==
    /\ result = "reading"
    /\ Wanted.name \notin {"crack_detected", "json_length"}
    /\ offset + Wanted.width <= bytes
    /\ Took(Wanted)
    /\ \E n \in Numbers(Wanted.width) :
        /\ items' = IF Wanted.name \in {"crack_count", "amplitude_count"} THEN n ELSE items
        /\ points' = IF Wanted.name = "point_count" THEN n ELSE points
    /\ get' = Follow(get, Len(Block), items', points')
    /\ UNCHANGED <<writerVars, bytes, result, json, outside>>

\* ... or it is not, and std::out_of_range is thrown
ReadThrows ==
    /\ result = "reading"
    /\ Wanted.name # "crack_detected"
    /\ offset + Wanted.width > bytes
    /\ result' = "thrown"
    /\ UNCHANGED <<writerVars, bytes, readerVars>>

\* payload[offset++], which checks nothing
ReadFlag ==
    /\ result = "reading"
    /\ Wanted.name = "crack_detected"
    /\ Took(Wanted)
    /\ outside' = (offset >= bytes)
    /\ get' = Follow(get, Len(Block), items, points)
    /\ UNCHANGED <<writerVars, bytes, result, items, points, json>>

\* Mutant: what is left of the text is parsed.
ReadJsonAlways ==
    /\ result = "reading"
    /\ Wanted.name = "json_length"
    /\ offset + Wanted.width <= bytes
    /\ Took(Wanted)
    /\ json' = \E n \in Numbers(Wanted.width) : n > 0
    /\ result' = "ok"
    /\ UNCHANGED <<writerVars, bytes, get, items, points, outside>>

\* json_length, and the text if all of it is there
ReadJson ==
    /\ result = "reading"
    /\ Wanted.name = "json_length"
    /\ offset + Wanted.width <= bytes
    /\ Took(Wanted)
    /\ json' = \E n \in Numbers(Wanted.width) :
                  n > 0 /\ offset + Wanted.width + n <= bytes
    /\ result' = "ok"
    /\ UNCHANGED <<writerVars, bytes, get, items, points, outside>>

ParserNext == WriteValue \/ Arrives \/ ReadValue \/ ReadThrows \/ ReadFlag \/ ReadJson

-----------------------------------------------------------------------------
(* Properties *)

Whole == bytes = size

(* For a sensor that keeps to the frame's layout, a measurement that was   *)
(* cut off is never taken for a complete one: the parser throws, unless    *)
(* all measured values came and only the JSON text at the end did not,     *)
(* which then is left out as a whole; and the byte that payload[offset++]  *)
(* may read outside of the payload (l.122) gets into no result.            *)
NoPartialMeasurement ==
    result = "ok" =>
        /\ bytes >= size - JsonSize
        /\ json <=> Whole
        /\ ~outside

-----------------------------------------------------------------------------
(* The inductive invariant *)

\* A place where the sensor has a value to write.
IsPlace(p) ==
    /\ p.block \in {"head", "item", "part", "tail"}
    /\ p.k \in 1..Len(Writes(measured.kind)[p.block])
    /\ p.i \in Nat /\ p.j \in Nat
    /\ p.block \in {"item", "part"} => p.i \in 1..Len(measured.parts)
    /\ p.block = "part" => p.j \in 1..measured.parts[p.i]

PayloadTypeOK ==
    /\ measured \in Measured
    /\ size \in Nat /\ bytes \in 0..size
    /\ DOMAIN payload \subseteq 0..(size - 1)
    /\ \A o \in DOMAIN payload :
        IsPlace(payload[o].place) /\ payload[o] = Written(payload[o].place)
    /\ put = End \/ IsPlace(put)
    /\ offset \in Nat /\ items \in Nat /\ points \in Nat
    /\ result \in {"writing", "reading", "ok", "thrown"}
    /\ json \in BOOLEAN /\ outside \in BOOLEAN

\* The values lie one behind the other, in the order of the loops, from the first
\* to where the sensor writes.
OneBehindTheOther ==
    /\ DOMAIN payload = {} => size = 0 /\ put = First
    /\ DOMAIN payload # {} => 0 \in DOMAIN payload /\ payload[0].place = First
    /\ \A o \in DOMAIN payload :
        LET next == o + payload[o].width IN
        IF next \in DOMAIN payload
        THEN payload[next].place = After(payload[o].place)
        ELSE next = size /\ put = After(payload[o].place)

\* The parser is at the value that it wants, with the counts the sensor had.
InStep ==
    /\ result = "writing" => get = First /\ offset = 0 /\ ~outside /\ points = 0
    /\ result # "writing" => put = End
    /\ result = "reading" =>
        /\ offset \in DOMAIN payload /\ payload[offset].place = get
        /\ get.block = "tail" => get.k = 1
        /\ get.block # "head" => items = Len(measured.parts)
        /\ get.block = "part" => points = measured.parts[get.i]
        /\ measured.kind = "vibration" => points = 0
        /\ outside => offset > bytes
    /\ result = "thrown" => bytes < size

PayloadIInv == PayloadTypeOK /\ OneBehindTheOther /\ InStep /\ NoPartialMeasurement

=============================================================================
