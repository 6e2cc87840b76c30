------------------------- MODULE Connections_proofs -------------------------
(***************************************************************************)
(* Proofs about the three ends of the connections: TcpSession, for any     *)
(* layout of the header and any streams; HttpServer, for any threads,      *)
(* clients, requests and pool; SensorClient, for any number of threads and *)
(* of attempts.                                                            *)
(***************************************************************************)
EXTENDS TcpSession, HttpServer, SensorClient, SequenceTheorems, FiniteSetTheorems, TLAPS

-----------------------------------------------------------------------------
(* Parts of sequences *)

LEMMA SubFacts ==
    ASSUME NEW S, NEW s \in Seq(S), NEW m \in Int, NEW n \in Int, 1 <= m, n <= Len(s)
    PROVE  /\ SubSeq(s, m, n) \in Seq(S)
           /\ Len(SubSeq(s, m, n)) = IF m <= n THEN n - m + 1 ELSE 0
           /\ \A i \in 1..(n - m + 1) : SubSeq(s, m, n)[i] = s[m + i - 1]
<1>1. \A i \in m..n : s[i] \in S
  BY ElementOfSeq, LenProperties
<1> QED BY <1>1, SubSeqProperties

LEMMA DropFacts ==
    ASSUME NEW S, NEW s \in Seq(S), NEW n \in 0..Len(s)
    PROVE  /\ Drop(s, n) \in Seq(S)
           /\ Len(Drop(s, n)) = Len(s) - n
           /\ \A i \in 1..(Len(s) - n) : Drop(s, n)[i] = s[n + i]
<1>1. Len(s) \in Nat
  BY LenProperties
<1> QED BY <1>1, SubFacts DEF Drop

LEMMA DropConcat ==
    ASSUME NEW S, NEW s \in Seq(S), NEW t \in Seq(S), NEW n \in 0..Len(s)
    PROVE  Drop(s \o t, n) = Drop(s, n) \o t
<1>1. /\ Len(s) \in Nat /\ Len(t) \in Nat
      /\ s \o t \in Seq(S) /\ Len(s \o t) = Len(s) + Len(t)
  BY LenProperties, ConcatProperties
<1>0. n \in 0..Len(s \o t)
  BY <1>1
<1>2. /\ Drop(s \o t, n) \in Seq(S) /\ Len(Drop(s \o t, n)) = Len(s) + Len(t) - n
      /\ \A i \in 1..(Len(s) + Len(t) - n) : Drop(s \o t, n)[i] = (s \o t)[n + i]
  <2>1. s \o t \in Seq(S) /\ Len(s \o t) = Len(s) + Len(t)
    BY <1>1
  <2>2. /\ Drop(s \o t, n) \in Seq(S) /\ Len(Drop(s \o t, n)) = Len(s \o t) - n
        /\ \A i \in 1..(Len(s \o t) - n) : Drop(s \o t, n)[i] = (s \o t)[n + i]
    BY <1>0, <2>1, DropFacts
  <2> QED BY <2>1, <2>2
<1>3. Drop(s, n) \in Seq(S) /\ Len(Drop(s, n)) = Len(s) - n
  BY DropFacts
<1>4. Drop(s, n) \o t \in Seq(S) /\ Len(Drop(s, n) \o t) = Len(s) - n + Len(t)
  BY <1>3, ConcatProperties
<1>5. ASSUME NEW i \in 1..(Len(s) + Len(t) - n)
      PROVE  Drop(s \o t, n)[i] = (Drop(s, n) \o t)[i]
  <2>1. Drop(s \o t, n)[i] = (s \o t)[n + i]
    BY <1>2
  <2>2. (s \o t)[n + i] = IF n + i <= Len(s) THEN s[n + i] ELSE t[n + i - Len(s)]
    BY <1>1, ConcatProperties
  <2>3. (Drop(s, n) \o t)[i] =
          IF i <= Len(s) - n THEN Drop(s, n)[i] ELSE t[i - (Len(s) - n)]
    BY <1>1, <1>3, ConcatProperties
  <2>4. i <= Len(s) - n => Drop(s, n)[i] = s[n + i]
    <3>1. \A j \in 1..(Len(s) - n) : Drop(s, n)[j] = s[n + j]
      BY DropFacts
    <3>2. i \in Nat /\ i >= 1 /\ Len(s) - n \in Nat
      BY <1>1
    <3> QED BY <3>1, <3>2
  <2> QED BY <1>1, <2>1, <2>2, <2>3, <2>4
<1>6. Len(Drop(s \o t, n)) = Len(Drop(s, n) \o t)
  BY <1>1, <1>2, <1>4
<1>7. \A i \in 1..Len(Drop(s \o t, n)) : Drop(s \o t, n)[i] = (Drop(s, n) \o t)[i]
  BY <1>2, <1>5
<1> QED BY <1>2, <1>4, <1>6, <1>7, SeqEqual

LEMMA DropDrop ==
    ASSUME NEW S, NEW s \in Seq(S), NEW m \in 0..Len(s), NEW n \in 0..(Len(s) - m)
    PROVE  Drop(Drop(s, m), n) = Drop(s, m + n)
<1>1. Len(s) \in Nat
  BY LenProperties
<1>2. /\ Drop(s, m) \in Seq(S) /\ Len(Drop(s, m)) = Len(s) - m
      /\ \A i \in 1..(Len(s) - m) : Drop(s, m)[i] = s[m + i]
  BY DropFacts
<1>3. /\ Drop(Drop(s, m), n) \in Seq(S) /\ Len(Drop(Drop(s, m), n)) = Len(s) - m - n
      /\ \A i \in 1..(Len(s) - m - n) : Drop(Drop(s, m), n)[i] = Drop(s, m)[n + i]
  <2>1. n \in 0..Len(Drop(s, m))
    BY <1>1, <1>2
  <2>2. /\ Drop(Drop(s, m), n) \in Seq(S) /\ Len(Drop(Drop(s, m), n)) = Len(Drop(s, m)) - n
        /\ \A i \in 1..(Len(Drop(s, m)) - n) : Drop(Drop(s, m), n)[i] = Drop(s, m)[n + i]
    BY <1>2, <2>1, DropFacts
  <2> QED BY <1>2, <2>2
<1>4. /\ Drop(s, m + n) \in Seq(S) /\ Len(Drop(s, m + n)) = Len(s) - (m + n)
      /\ \A i \in 1..(Len(s) - (m + n)) : Drop(s, m + n)[i] = s[m + n + i]
  <2>1. m + n \in 0..Len(s)
    BY <1>1
  <2> QED BY <2>1, DropFacts
<1>5. m \in Int /\ n \in Int
  OBVIOUS
<1>6. Len(s) - m - n = Len(s) - (m + n)
  BY <1>5, <1>1
<1>7. ASSUME NEW i \in 1..(Len(s) - m - n)
      PROVE  Drop(Drop(s, m), n)[i] = Drop(s, m + n)[i]
  <2>1. Drop(Drop(s, m), n)[i] = Drop(s, m)[n + i]
    BY <1>3
  <2>2. n + i \in 1..(Len(s) - m) /\ m + (n + i) = m + n + i
    BY <1>5, <1>1
  <2>3. Drop(s, m)[n + i] = s[m + (n + i)]
    BY <1>2, <2>2
  <2>4. Drop(s, m + n)[i] = s[m + n + i]
    BY <1>4, <1>6
  <2> QED BY <2>1, <2>2, <2>3, <2>4
<1> QED BY <1>3, <1>4, <1>7, <1>6, SeqEqual

LEMMA SubOfDrop ==
    ASSUME NEW S, NEW s \in Seq(S), NEW m \in 0..Len(s), NEW n \in 0..(Len(s) - m)
    PROVE  SubSeq(Drop(s, m), 1, n) = SubSeq(s, m + 1, m + n)
<1>1. Len(s) \in Nat
  BY LenProperties
<1>2. /\ Drop(s, m) \in Seq(S) /\ Len(Drop(s, m)) = Len(s) - m
      /\ \A i \in 1..(Len(s) - m) : Drop(s, m)[i] = s[m + i]
  BY DropFacts
<1>3. /\ SubSeq(Drop(s, m), 1, n) \in Seq(S) /\ Len(SubSeq(Drop(s, m), 1, n)) = n
      /\ \A i \in 1..n : SubSeq(Drop(s, m), 1, n)[i] = Drop(s, m)[i]
  BY <1>1, <1>2, SubFacts
<1>4. /\ SubSeq(s, m + 1, m + n) \in Seq(S) /\ Len(SubSeq(s, m + 1, m + n)) = n
      /\ \A i \in 1..n : SubSeq(s, m + 1, m + n)[i] = s[m + i]
  BY <1>1, SubFacts
<1>5. \A i \in 1..Len(SubSeq(Drop(s, m), 1, n)) :
         SubSeq(Drop(s, m), 1, n)[i] = SubSeq(s, m + 1, m + n)[i]
  BY <1>1, <1>2, <1>3, <1>4
<1> QED BY <1>3, <1>4, <1>5, SeqEqual

LEMMA SubOfConcat ==
    ASSUME NEW S, NEW s \in Seq(S), NEW t \in Seq(S),
           NEW m \in Nat \ {0}, NEW n \in Nat, n <= Len(s)
    PROVE  SubSeq(s \o t, m, n) = SubSeq(s, m, n)
<1>1. /\ Len(s) \in Nat /\ Len(t) \in Nat
      /\ s \o t \in Seq(S) /\ Len(s \o t) = Len(s) + Len(t)
      /\ \A i \in 1..Len(s) : (s \o t)[i] = s[i]
  BY LenProperties, ConcatProperties
<1>2. /\ SubSeq(s \o t, m, n) \in Seq(S)
      /\ Len(SubSeq(s \o t, m, n)) = IF m <= n THEN n - m + 1 ELSE 0
      /\ \A i \in 1..(n - m + 1) : SubSeq(s \o t, m, n)[i] = (s \o t)[m + i - 1]
  BY <1>1, SubFacts
<1>3. /\ SubSeq(s, m, n) \in Seq(S)
      /\ Len(SubSeq(s, m, n)) = IF m <= n THEN n - m + 1 ELSE 0
      /\ \A i \in 1..(n - m + 1) : SubSeq(s, m, n)[i] = s[m + i - 1]
  BY <1>1, SubFacts
<1>4. \A i \in 1..Len(SubSeq(s \o t, m, n)) : SubSeq(s \o t, m, n)[i] = SubSeq(s, m, n)[i]
  BY <1>1, <1>2, <1>3
<1> QED BY <1>2, <1>3, <1>4, SeqEqual

-----------------------------------------------------------------------------
(* The length field *)

LEMMA ProductBound ==
    ASSUME NEW b \in Nat, NEW x \in Nat, NEW y \in Nat, x <= b - 1, y <= b - 1
    PROVE  x + b * y \in Nat /\ x + b * y <= b * b - 1
<1>1. b * y \in Nat /\ b * (b - 1) = b * b - b
  OBVIOUS
<1>2. b * y <= b * (b - 1)
  OBVIOUS
<1> QED BY <1>1, <1>2

(* A 16-bit length is below Base * Base, so no frame is longer than the    *)
(* header and the largest payload (tcp_server.cpp l.29-32).                *)
LEMMA U16Bound ==
    ASSUME NEW buf \in Seq(Byte), NEW at \in Nat, at + 2 <= Len(buf)
    PROVE  U16(buf, at) \in Nat /\ U16(buf, at) <= Base * Base - 1
<1>1. buf[at + 1] \in Byte /\ buf[at + 2] \in Byte
  BY ElementOfSeq, LenProperties
<1>2. /\ Base \in Nat
      /\ buf[at + 1] \in Nat /\ buf[at + 1] <= Base - 1
      /\ buf[at + 2] \in Nat /\ buf[at + 2] <= Base - 1
  BY <1>1, BaseAssumption DEF Byte
<1> QED BY <1>2, ProductBound DEF U16

LEMMA FrameTotalBound ==
    ASSUME NEW buf \in Seq(Byte), HeaderSize <= Len(buf)
    PROVE  /\ FrameTotal(buf) \in Nat
           /\ HeaderSize <= FrameTotal(buf)
           /\ FrameTotal(buf) <= HeaderSize + (Base * Base - 1)
<1>1. CutLengthAt + 2 <= Len(buf)
  BY LayoutAssumption, LenProperties
<1>2. U16(buf, CutLengthAt) \in Nat /\ U16(buf, CutLengthAt) <= Base * Base - 1
  BY <1>1, U16Bound, LayoutAssumption
<1>3. Base * Base \in Nat
  BY BaseAssumption
<1> QED BY <1>2, <1>3, LayoutAssumption DEF FrameTotal

(* A frame says of itself how long it is: cutting it off the buffer keeps  *)
(* its header.                                                             *)
LEMMA FrameTotalOfPrefix ==
    ASSUME NEW buf \in Seq(Byte), NEW n \in Nat, HeaderSize <= n, n <= Len(buf)
    PROVE  FrameTotal(SubSeq(buf, 1, n)) = FrameTotal(buf)
<1>1. \A i \in 1..n : SubSeq(buf, 1, n)[i] = buf[i]
  BY SubFacts
<1>2. CutLengthAt + 1 \in 1..n /\ CutLengthAt + 2 \in 1..n
  BY LayoutAssumption
<1> QED BY <1>1, <1>2 DEF FrameTotal, U16

LEMMA ParseResult == \A frame : Parse(frame) \in Result
  BY DEF Parse, Dispatch, Result

-----------------------------------------------------------------------------
(* The invariant *)

LEMMA HandledFields ==
    ASSUME NEW hs \in Seq(HandledFrame), NEW i \in 1..Len(hs)
    PROVE  hs[i].at \in Nat /\ hs[i].frame \in Seq(Byte)
<1>1. hs[i] \in HandledFrame
  BY ElementOfSeq
<1> QED BY <1>1 DEF HandledFrame

LEMMA InitIInv == Init => IInv
<1> SUFFICES ASSUME Init PROVE IInv
  OBVIOUS
<1>1. TypeOK
  BY StreamsAssumption DEF Init, TypeOK
<1>2. Drop(received, consumed) = <<>>
  BY SubSeqEmpty DEF Init, Drop
<1>3. FramesTile /\ FramesInside
  BY <1>2 DEF Init, FramesTile, FramesInside
<1>4. ~HasFrame(frame_buf)
  BY LayoutAssumption DEF Init, HasFrame
<1> QED BY <1>1, <1>3, <1>4 DEF Init, IInv, NoFrameWaits, NeverOverflows

LEMMA ReadIInv ==
    ASSUME IInv, NEW n \in 1..Len(wire), Read(n)
    PROVE  IInv'
<1> DEFINE piece == SubSeq(wire, 1, n)
<1>1. /\ wire \in Seq(Byte) /\ Len(wire) \in Nat
      /\ received \in Seq(Byte) /\ Len(received) \in Nat
      /\ frame_buf \in Seq(Byte)
      /\ consumed \in 0..Len(received)
      /\ handled \in Seq(HandledFrame)
  BY LenProperties DEF IInv, TypeOK, FramesInside
<1>2. piece \in Seq(Byte) /\ Len(piece) \in Nat
  BY <1>1, SubFacts, LenProperties
<1>3. /\ received' = received \o piece /\ frame_buf' = frame_buf \o piece
      /\ wire' = Drop(wire, n) /\ state' = "parsing"
      /\ UNCHANGED <<consumed, handled, peer, acks, writes, resets>>
  BY DEF Read, ackVars
<1> HIDE DEF piece
<1>4. /\ received' \in Seq(Byte) /\ frame_buf' \in Seq(Byte)
      /\ Len(received') = Len(received) + Len(piece)
  BY <1>1, <1>2, <1>3, ConcatProperties
<1>5. TypeOK'
  <2>1. wire' \in Seq(Byte)
    <3>1. n \in 0..Len(wire)
      BY <1>1
    <3> QED BY <1>1, <1>3, <3>1, DropFacts
  <2> QED BY <1>3, <1>4, <2>1 DEF IInv, TypeOK
<1>6. FramesInside'
  BY <1>1, <1>2, <1>3, <1>4 DEF IInv, FramesInside, FrameEnd
<1>7. FramesTile'
  <2>1. frame_buf' = Drop(received', consumed')
    <3>1. frame_buf = Drop(received, consumed)
      BY DEF IInv, FramesTile
    <3>2. Drop(received \o piece, consumed) = Drop(received, consumed) \o piece
      BY <1>1, <1>2, DropConcat
    <3> QED BY <1>3, <3>1, <3>2
  <2>2. ASSUME NEW i \in 1..Len(handled)
        PROVE  handled[i].frame = SubSeq(received', handled[i].at + 1, FrameEnd(handled[i]))
    <3>1. handled[i].at \in Nat /\ handled[i].frame \in Seq(Byte)
      BY <1>1, HandledFields
    <3>2. FrameEnd(handled[i]) \in Nat
      BY <3>1, LenProperties DEF FrameEnd
    <3>4. FrameEnd(handled[i]) <= Len(received)
      BY <1>1, <3>2 DEF IInv, FramesInside
    <3>3. SubSeq(received', handled[i].at + 1, FrameEnd(handled[i]))
            = SubSeq(received, handled[i].at + 1, FrameEnd(handled[i]))
      <4>1. handled[i].at + 1 \in Nat \ {0}
        BY <3>1
      <4> DEFINE from == handled[i].at + 1
                 to == FrameEnd(handled[i])
      <4>2. from \in Nat \ {0} /\ to \in Nat /\ to <= Len(received)
        BY <3>2, <3>4, <4>1
      <4> HIDE DEF from, to
      <4>3. SubSeq(received \o piece, from, to) = SubSeq(received, from, to)
        BY <1>1, <1>2, <4>2, SubOfConcat
      <4> QED BY <1>3, <4>3 DEF from, to
    <3>5. handled[i].frame = SubSeq(received, handled[i].at + 1, FrameEnd(handled[i]))
      BY DEF IInv, FramesTile
    <3> QED BY <3>3, <3>5
  <2>3. handled' = handled /\ consumed' = consumed
    BY <1>3
  <2>4. ASSUME NEW i \in 1..Len(handled)
        PROVE  /\ handled[i].at = IF i = 1 THEN 0 ELSE FrameEnd(handled[i - 1])
               /\ Len(handled[i].frame) >= HeaderSize
               /\ Len(handled[i].frame) = FrameTotal(handled[i].frame)
    BY DEF IInv, FramesTile
  <2>5. consumed = IF handled = <<>> THEN 0 ELSE FrameEnd(handled[Len(handled)])
    BY DEF IInv, FramesTile
  <2> QED BY <2>1, <2>2, <2>3, <2>4, <2>5 DEF FramesTile, FrameEnd
<1> QED BY <1>3, <1>5, <1>6, <1>7 DEF IInv, NoFrameWaits, NeverOverflows

LEMMA HandleFrameIInv ==
    ASSUME IInv, HandleFrame
    PROVE  IInv'
<1> DEFINE n == FrameTotal(frame_buf)
           frame == SubSeq(frame_buf, 1, n)
           result == IF peer = "reset" THEN "error" ELSE Parse(frame)
           h == [at |-> consumed, frame |-> frame, result |-> result]
<1>1. /\ received \in Seq(Byte) /\ Len(received) \in Nat
      /\ frame_buf \in Seq(Byte) /\ Len(frame_buf) \in Nat
      /\ consumed \in 0..Len(received)
      /\ handled \in Seq(HandledFrame) /\ Len(handled) \in Nat
      /\ HeaderSize \in Nat
  BY LenProperties, LayoutAssumption DEF IInv, TypeOK, FramesInside
<1>2. frame_buf = Drop(received, consumed)
  BY DEF IInv, FramesTile
<1>3. Len(frame_buf) = Len(received) - consumed
  BY <1>1, <1>2, DropFacts
<1>4. n \in Nat /\ HeaderSize <= n /\ n <= Len(frame_buf)
  BY <1>1, FrameTotalBound DEF HandleFrame, HasFrame
<1>5. /\ handled' = Append(handled, h)
      /\ frame_buf' = Drop(frame_buf, n)
      /\ consumed' = consumed + n
      /\ UNCHANGED <<wire, received, state, peer, resets>>
  BY DEF HandleFrame
<1>6. frame \in Seq(Byte) /\ Len(frame) = n
  BY <1>1, <1>4, SubFacts
<1>7. result \in Result
  BY ParseResult DEF Result
<1>8. h \in HandledFrame
  BY <1>1, <1>6, <1>7 DEF HandledFrame
<1> HIDE DEF n, frame, result, h
<1>9. /\ handled' \in Seq(HandledFrame)
      /\ Len(handled') = Len(handled) + 1
      /\ \A i \in 1..Len(handled) : handled'[i] = handled[i]
      /\ handled'[Len(handled) + 1] = h
  BY <1>1, <1>5, <1>8, AppendProperties
<1>10. FrameEnd(h) = consumed + n
  BY <1>6 DEF FrameEnd, h
<1>11. TypeOK'
  <2>1. frame_buf' \in Seq(Byte) /\ consumed' \in Nat
    <3>1. n \in 0..Len(frame_buf)
      BY <1>1, <1>4
    <3>2. Drop(frame_buf, n) \in Seq(Byte)
      BY <1>1, <3>1, DropFacts
    <3> QED BY <1>1, <1>4, <1>5, <3>2
  <2>2. acks' \in Seq({"intact", "garbage"}) /\ writes' \in Nat
    <3>1. acks \in Seq({"intact", "garbage"}) /\ writes \in Nat
      BY DEF IInv, TypeOK
    <3>2. \/ UNCHANGED ackVars
          \/ SendAcknowledge
      BY DEF HandleFrame
    <3>3. Append(acks, "intact") \in Seq({"intact", "garbage"})
      BY <3>1, AppendProperties
    <3> QED BY <3>1, <3>2, <3>3 DEF SendAcknowledge, ackVars
  <2> QED BY <1>5, <1>9, <2>1, <2>2 DEF IInv, TypeOK
<1>12. FramesInside'
  <2>1. \A i \in 1..Len(handled) : FrameEnd(handled[i]) <= consumed
    BY DEF IInv, FramesInside
  <2>2. ASSUME NEW i \in 1..Len(handled) PROVE FrameEnd(handled'[i]) <= consumed + n
    <3>1. handled[i].at \in Nat /\ handled[i].frame \in Seq(Byte)
      BY <1>1, HandledFields
    <3>2. FrameEnd(handled[i]) \in Nat
      BY <3>1, LenProperties DEF FrameEnd
    <3> QED BY <1>1, <1>4, <1>9, <2>1, <3>2
  <2>3. \A i \in 1..Len(handled') : FrameEnd(handled'[i]) <= consumed + n
    BY <1>1, <1>4, <1>9, <1>10, <2>2
  <2>4. consumed' <= Len(received')
    BY <1>1, <1>3, <1>4, <1>5
  <2> QED BY <1>5, <2>3, <2>4 DEF FramesInside, FrameEnd
<1>13. FramesTile'
  <2>1. frame_buf' = Drop(received', consumed')
    <3>1. n \in 0..(Len(received) - consumed)
      BY <1>1, <1>3, <1>4
    <3> QED BY <1>1, <1>2, <1>5, <3>1, DropDrop
  <2>2. frame = SubSeq(received, consumed + 1, consumed + n)
    <3>1. n \in 0..(Len(received) - consumed)
      BY <1>1, <1>3, <1>4
    <3> QED BY <1>1, <1>2, <3>1, SubOfDrop DEF frame
  <2>3. FrameTotal(frame) = n
    BY <1>1, <1>4, FrameTotalOfPrefix DEF n, frame
  <2>4. ASSUME NEW i \in 1..Len(handled')
        PROVE  /\ handled'[i].at = IF i = 1 THEN 0 ELSE FrameEnd(handled'[i - 1])
               /\ handled'[i].frame =
                     SubSeq(received', handled'[i].at + 1, FrameEnd(handled'[i]))
               /\ Len(handled'[i].frame) >= HeaderSize
               /\ Len(handled'[i].frame) = FrameTotal(handled'[i].frame)
    <3>1. CASE i \in 1..Len(handled)
      <4>1. handled'[i] = handled[i] /\ (i # 1 => handled'[i - 1] = handled[i - 1])
        <5>1. \A j \in 1..Len(handled) : handled'[j] = handled[j]
          BY <1>9
        <5>2. Len(handled) \in Nat
          BY <1>1
        <5>3. i # 1 => i - 1 \in 1..Len(handled)
          BY <3>1, <5>2
        <5> QED BY <3>1, <5>1, <5>3
      <4> QED BY <1>5, <3>1, <4>1, SMTT(30) DEF IInv, FramesTile
    <3>2. CASE i = Len(handled) + 1
      <4>1. handled'[i] = h
        BY <1>9, <3>2
      <4>2. consumed = IF i = 1 THEN 0 ELSE FrameEnd(handled'[i - 1])
        <5>1. handled = <<>> <=> Len(handled) = 0
          BY <1>1, EmptySeq
        <5>2. consumed = IF handled = <<>> THEN 0 ELSE FrameEnd(handled[Len(handled)])
          BY DEF IInv, FramesTile
        <5> QED BY <1>1, <1>9, <3>2, <5>1, <5>2
      <4>3. h.at = consumed /\ h.frame = frame
        BY DEF h
      <4> QED BY <1>4, <1>5, <1>6, <1>10, <2>2, <2>3, <4>1, <4>2, <4>3
    <3> QED BY <1>1, <1>9, <3>1, <3>2
  <2>5. consumed' = IF handled' = <<>> THEN 0 ELSE FrameEnd(handled'[Len(handled')])
    <3>1. handled' # <<>>
      BY <1>1, <1>9
    <3> QED BY <1>5, <1>9, <1>10, <3>1
  <2> QED BY <2>1, <2>4, <2>5 DEF FramesTile, FrameEnd
<1>14. state = "parsing"
  BY DEF HandleFrame
<1> QED BY <1>5, <1>11, <1>12, <1>13, <1>14 DEF IInv, NoFrameWaits, NeverOverflows

LEMMA LeaveLoopIInv ==
    ASSUME IInv, LeaveLoop
    PROVE  IInv'
<1>1. frame_buf \in Seq(Byte) /\ Len(frame_buf) \in Nat
  BY LenProperties DEF IInv, TypeOK
<1>2. ~(Len(frame_buf) > MaxFrameBuf)
  <2>1. CASE Len(frame_buf) < HeaderSize
    <3>1. Base * Base \in Nat /\ Base * Base >= 1
      BY BaseAssumption
    <3> QED BY <1>1, <2>1, <3>1, LayoutAssumption, SizeAssumption
  <2>2. CASE Len(frame_buf) >= HeaderSize
    <3>1. /\ FrameTotal(frame_buf) \in Nat
          /\ FrameTotal(frame_buf) <= HeaderSize + (Base * Base - 1)
      BY <1>1, <2>2, FrameTotalBound
    <3>2. Len(frame_buf) < FrameTotal(frame_buf)
      BY <1>1, <2>2, <3>1 DEF LeaveLoop, HasFrame
    <3>3. Base * Base \in Nat
      BY BaseAssumption
    <3> QED BY <1>1, <3>1, <3>2, <3>3, LayoutAssumption, SizeAssumption
  <2> QED BY <1>1, <2>1, <2>2, LayoutAssumption
<1>3. /\ state' = "reading" /\ ~HasFrame(frame_buf)
      /\ UNCHANGED <<wire, received, frame_buf, consumed, handled, peer, acks, writes, resets>>
  BY <1>2 DEF LeaveLoop, ackVars
<1>4. TypeOK'
  BY <1>3 DEF IInv, TypeOK
<1>5. FramesTile' /\ FramesInside'
  BY <1>3 DEF IInv, FramesTile, FramesInside, FrameEnd
<1>6. ~HasFrame(frame_buf)'
  BY <1>3
<1> QED BY <1>3, <1>4, <1>5, <1>6 DEF IInv, NoFrameWaits, NeverOverflows

\* The steps that leave the frames alone.
LEMMA FramesUnchanged ==
    ASSUME IInv, TypeOK', UNCHANGED <<received, frame_buf, consumed, handled, resets>>,
           state' = "parsing" => state = "parsing", state = "parsing" => state' = "parsing"
    PROVE  IInv'
<1>1. FramesTile' /\ FramesInside'
  BY DEF IInv, FramesTile, FramesInside, FrameEnd
<1>2. NoFrameWaits'
  BY DEF IInv, NoFrameWaits, HasFrame, FrameTotal, U16
<1> QED BY <1>1, <1>2 DEF IInv, NeverOverflows

LEMMA NextIInv == IInv /\ [Next]_vars => IInv'
<1> SUFFICES ASSUME IInv, [Next]_vars PROVE IInv'
  OBVIOUS
<1>0. TypeOK
  BY DEF IInv
<1>1. CASE \E n \in 1..Len(wire) : Read(n)
  BY <1>1, ReadIInv
<1>2. CASE ReadEnds
  <2>1. TypeOK'
    BY <1>0, <1>2 DEF ReadEnds, TypeOK, ackVars
  <2> QED BY <1>2, <2>1, FramesUnchanged DEF ReadEnds
<1>3. CASE HandleFrame
  BY <1>3, HandleFrameIInv
<1>4. CASE LeaveLoop
  BY <1>4, LeaveLoopIInv
<1>5. CASE PeerReset
  <2>1. TypeOK'
    BY <1>0, <1>5 DEF PeerReset, TypeOK, frameVars
  <2> QED BY <1>5, <2>1, FramesUnchanged DEF PeerReset, frameVars
<1>6. CASE PeerReads
  <2>1. acks' \in Seq({"intact", "garbage"})
    BY <1>0, <1>6, HeadTailProperties DEF PeerReads, TypeOK
  <2>2. TypeOK'
    BY <1>0, <1>6, <2>1 DEF PeerReads, TypeOK, frameVars
  <2> QED BY <1>6, <2>2, FramesUnchanged DEF PeerReads, frameVars
<1>7. CASE WriteLater
  <2>1. acks' \in Seq({"intact", "garbage"}) /\ writes' \in Nat
    BY <1>0, <1>7, AppendProperties DEF WriteLater, TypeOK
  <2>2. TypeOK'
    BY <1>0, <1>7, <2>1 DEF WriteLater, TypeOK, frameVars
  <2> QED BY <1>7, <2>2, FramesUnchanged DEF WriteLater, frameVars
<1>8. CASE UNCHANGED vars
  <2>1. TypeOK'
    BY <1>0, <1>8 DEF TypeOK, vars, frameVars, ackVars
  <2> QED BY <1>8, <2>1, FramesUnchanged DEF vars, frameVars
<1> QED BY <1>1, <1>2, <1>3, <1>4, <1>5, <1>6, <1>7, <1>8 DEF Next

(* The inductive invariant holds in every reachable state of a session.    *)
THEOREM Invariance == Spec => []IInv
  BY InitIInv, NextIInv, PTL DEF Spec

(* The variables of a session keep their types.                            *)
THEOREM TypeCorrect == Spec => []TypeOK
<1>1. IInv => TypeOK
  BY DEF IInv
<1> QED BY <1>1, Invariance, PTL

(* Frames are cut where the headers say, however the reads fall            *)
(* (tcp_server.cpp l.27-66), for every layout and every stream.            *)
THEOREM FramesTileTheStream == Spec => []FramesTile
<1>1. IInv => FramesTile
  BY DEF IInv
<1> QED BY <1>1, Invariance, PTL

(* No read leaves a whole frame behind (tcp_server.cpp l.28, 36).          *)
THEOREM AllFramesAreHandled == Spec => []NoFrameWaits
<1>1. IInv => NoFrameWaits
  BY DEF IInv
<1> QED BY <1>1, Invariance, PTL

(* The overflow branch (tcp_server.cpp l.68-72) is dead code, whatever the *)
(* sensor sends, when MAX_FRAME_BUF_SIZE holds the longest frame.          *)
THEOREM OverflowIsUnreachable == Spec => []NeverOverflows
<1>1. IInv => NeverOverflows
  BY DEF IInv
<1> QED BY <1>1, Invariance, PTL

-----------------------------------------------------------------------------
(* HttpServer: the types of the route table *)

Segment == {"metrics", "api", "porcelains", "id", "cracks", "points", "predict", "simulate",
            "alerts", "acknowledge", "materials", "laser-data"}
Method == {"GET", "POST"}
HttpRoute == [method : Method, path : Seq(Segment), calls : Seq(Operation)]

LEMMA SequencesOf ==
    ASSUME NEW S, NEW a \in S, NEW b \in S, NEW c \in S, NEW d \in S
    PROVE  /\ <<>> \in Seq(S) /\ <<a>> \in Seq(S) /\ <<a, b>> \in Seq(S)
           /\ <<a, b, c>> \in Seq(S) /\ <<a, b, c, d>> \in Seq(S)
  OBVIOUS

LEMMA SequenceOfFive ==
    ASSUME NEW S, NEW a \in S, NEW b \in S, NEW c \in S, NEW d \in S, NEW e \in S
    PROVE  <<a, b, c, d, e>> \in Seq(S)
  OBVIOUS

LEMMA Repetition ==
    ASSUME NEW S, NEW a \in S, NEW n \in Nat
    PROVE  [i \in 1..n |-> a] \in Seq(S)
  OBVIOUS

LEMMA RouteType ==
    ASSUME NEW m \in Method, NEW p \in Seq(Segment), NEW q \in Seq(Operation)
    PROVE  Route(m, p, q) \in HttpRoute
  BY DEF Route, HttpRoute

LEMMA Names ==
    /\ "GET" \in Method /\ "POST" \in Method
    /\ "metrics" \in Segment /\ "api" \in Segment /\ "porcelains" \in Segment
    /\ "id" \in Segment /\ "cracks" \in Segment /\ "points" \in Segment
    /\ "predict" \in Segment /\ "simulate" \in Segment /\ "alerts" \in Segment
    /\ "acknowledge" \in Segment /\ "materials" \in Segment /\ "laser-data" \in Segment
    /\ "get_all_porcelains" \in Operation /\ "get_porcelain" \in Operation
    /\ "get_cracks_by_porcelain" \in Operation /\ "get_crack" \in Operation
    /\ "get_crack_points" \in Operation /\ "insert_prediction" \in Operation
    /\ "get_repair_materials" \in Operation /\ "insert_simulation" \in Operation
    /\ "get_active_alerts" \in Operation /\ "update_alert_status" \in Operation
    /\ "get_laser_data" \in Operation
  BY DEF Method, Segment, Operation

LEMMA MetricsRouteType == MetricsRoute \in Seq(HttpRoute)
<1>1. <<"metrics">> \in Seq(Segment) /\ <<>> \in Seq(Operation)
  BY Names, SequencesOf
<1>2. Route("GET", <<"metrics">>, <<>>) \in HttpRoute
  BY <1>1, Names, RouteType
<1> QED BY <1>2, SequencesOf DEF MetricsRoute

LEMMA PorcelainRoutesType == PorcelainRoutes \in Seq(HttpRoute)
<1> DEFINE Points == [i \in 1..Cracks |-> "get_crack_points"]
           R1 == Route("GET", <<"api", "porcelains">>, <<"get_all_porcelains">>)
           R2 == Route("GET", <<"api", "porcelains", "id">>, <<"get_porcelain">>)
           R3 == Route("GET", <<"api", "porcelains", "id", "cracks">>,
                       <<"get_cracks_by_porcelain">> \o Points)
<1>1. Points \in Seq(Operation)
  BY HttpAssumption, Names, Repetition DEF HttpAssumption
<1>2. /\ <<"get_cracks_by_porcelain">> \in Seq(Operation)
      /\ <<"get_all_porcelains">> \in Seq(Operation) /\ <<"get_porcelain">> \in Seq(Operation)
  BY Names, SequencesOf
<1>3. /\ <<"api", "porcelains">> \in Seq(Segment) /\ <<"api", "porcelains", "id">> \in Seq(Segment)
      /\ <<"api", "porcelains", "id", "cracks">> \in Seq(Segment)
  BY Names, SequencesOf
<1>4. <<"get_cracks_by_porcelain">> \o Points \in Seq(Operation)
  BY <1>1, <1>2, ConcatProperties
<1>5. R1 \in HttpRoute
  BY <1>2, <1>3, Names, RouteType
<1>6. R2 \in HttpRoute
  BY <1>2, <1>3, Names, RouteType
<1>7. R3 \in HttpRoute
  BY <1>3, <1>4, Names, RouteType
<1>8. PorcelainRoutes = <<R1, R2, R3>>
  BY DEF PorcelainRoutes
<1> HIDE DEF R1, R2, R3
<1> QED BY <1>5, <1>6, <1>7, <1>8, SequencesOf

LEMMA CrackRoutesType == CrackRoutes \in Seq(HttpRoute)
<1> DEFINE Predict == <<"get_crack", "get_crack_points", "insert_prediction">>
           Simulate == <<"get_crack", "get_crack_points", "get_repair_materials",
                         "insert_simulation">>
           R1 == Route("GET", <<"api", "cracks", "id", "points">>, <<"get_crack_points">>)
           R2 == Route("POST", <<"api", "cracks", "id", "predict">>, Predict)
           R3 == Route("POST", <<"api", "cracks", "id", "simulate", "id">>, Simulate)
<1>1. /\ <<"get_crack_points">> \in Seq(Operation)
      /\ Predict \in Seq(Operation) /\ Simulate \in Seq(Operation)
  BY Names, SequencesOf
<1>2. /\ <<"api", "cracks", "id", "points">> \in Seq(Segment)
      /\ <<"api", "cracks", "id", "predict">> \in Seq(Segment)
      /\ <<"api", "cracks", "id", "simulate", "id">> \in Seq(Segment)
  BY Names, SequencesOf, SequenceOfFive
<1>3. CrackRoutes = <<R1, R2, R3>>
  BY DEF CrackRoutes
<1> HIDE DEF Predict, Simulate
<1>4. R1 \in HttpRoute
  BY <1>1, <1>2, Names, RouteType
<1>5. R2 \in HttpRoute
  BY <1>1, <1>2, Names, RouteType
<1>6. R3 \in HttpRoute
  BY <1>1, <1>2, Names, RouteType
<1> HIDE DEF R1, R2, R3
<1> QED BY <1>3, <1>4, <1>5, <1>6, SequencesOf

LEMMA AlertRoutesType == AlertRoutes \in Seq(HttpRoute)
<1> DEFINE R1 == Route("GET", <<"api", "alerts">>, <<"get_active_alerts">>)
           R2 == Route("POST", <<"api", "alerts", "id", "acknowledge">>,
                       <<"update_alert_status">>)
<1>1. /\ <<"get_active_alerts">> \in Seq(Operation)
      /\ <<"update_alert_status">> \in Seq(Operation)
      /\ <<"api", "alerts">> \in Seq(Segment)
      /\ <<"api", "alerts", "id", "acknowledge">> \in Seq(Segment)
  BY Names, SequencesOf
<1>2. R1 \in HttpRoute
  BY <1>1, Names, RouteType
<1>3. R2 \in HttpRoute
  BY <1>1, Names, RouteType
<1>4. AlertRoutes = <<R1, R2>>
  BY DEF AlertRoutes
<1> HIDE DEF R1, R2
<1> QED BY <1>2, <1>3, <1>4, SequencesOf

LEMMA MaterialRoutesType == MaterialRoutes \in Seq(HttpRoute)
<1> DEFINE R1 == Route("GET", <<"api", "materials">>, <<"get_repair_materials">>)
           R2 == Route("GET", <<"api", "porcelains", "id", "laser-data">>,
                       <<"get_laser_data">>)
<1>1. /\ <<"get_repair_materials">> \in Seq(Operation)
      /\ <<"get_laser_data">> \in Seq(Operation)
      /\ <<"api", "materials">> \in Seq(Segment)
      /\ <<"api", "porcelains", "id", "laser-data">> \in Seq(Segment)
  BY Names, SequencesOf
<1>2. R1 \in HttpRoute
  BY <1>1, Names, RouteType
<1>3. R2 \in HttpRoute
  BY <1>1, Names, RouteType
<1>4. MaterialRoutes = <<R1, R2>>
  BY DEF MaterialRoutes
<1> HIDE DEF R1, R2
<1> QED BY <1>2, <1>3, <1>4, SequencesOf

LEMMA ApiRoutesType == ApiRoutes \in Seq(HttpRoute)
<1>1. PorcelainRoutes \o CrackRoutes \in Seq(HttpRoute)
  BY PorcelainRoutesType, CrackRoutesType, ConcatProperties
<1>2. PorcelainRoutes \o CrackRoutes \o AlertRoutes \in Seq(HttpRoute)
  BY <1>1, AlertRoutesType, ConcatProperties
<1> QED BY <1>2, MaterialRoutesType, ConcatProperties DEF ApiRoutes

(* What a route calls is a sequence of operations.                         *)
LEMMA CallsType ==
    ASSUME HttpTypeOK, NEW i \in 1..Len(routes)
    PROVE  routes[i].calls \in Seq(Operation)
<1>1. MetricsRoute \o ApiRoutes \in Seq(HttpRoute)
  BY MetricsRouteType, ApiRoutesType, ConcatProperties
<1>2. routes \in Seq(HttpRoute)
  BY <1>1, MetricsRouteType DEF HttpTypeOK
<1>3. routes[i] \in HttpRoute
  BY <1>2, ElementOfSeq
<1> QED BY <1>3 DEF HttpRoute

-----------------------------------------------------------------------------
(* HttpServer: the inductive invariant *)

(* What happens outside the io threads.                                    *)
OutsideStep ==
    \/ Start \/ Stop \/ Join
    \/ \E c \in Client : Accept(c) \/ ReadFails(c) \/ \E r \in Request : ReadRequest(c, r)
    \/ \E o \in Others : OtherAcquires(o) \/ OtherReleases(o) \/ OtherLoses(o)

LEMMA OutsideSteps ==
    ASSUME OutsideStep
    PROVE  mutex' = mutex /\ pc' = pc /\ serving' = serving /\ calls' = calls /\ ok' = ok
  BY DEF OutsideStep, Start, Stop, Join, Accept, ReadFails, ReadRequest, OtherAcquires,
         OtherReleases, OtherLoses, threadVars

LEMMA HttpSteps ==
    ASSUME HttpNext
    PROVE  OutsideStep \/ \E t \in Thread : HandlerStep(t) \/ \E c \in Client : Take(t, c)
  BY DEF HttpNext, OutsideStep

LEMMA HttpInitIInv == HttpInit => HttpIInv
<1> SUFFICES ASSUME HttpInit PROVE HttpIInv
  OBVIOUS
<1>1. /\ IsFiniteSet({}) /\ Cardinality({}) = 0
  BY FS_EmptySet
<1>2. [t \in Thread |-> <<>>] \in [Thread -> Seq(Operation)]
  OBVIOUS
<1>3. HttpTypeOK
  BY <1>2, HttpAssumption DEF HttpInit, HttpTypeOK, HttpAssumption
<1>4. HandlerHoldsMutex /\ ExecutesACall /\ AnswersComeFirst
  BY HttpAssumption DEF HttpInit, HandlerHoldsMutex, ExecutesACall, AnswersComeFirst,
     HttpAssumption
<1>5. PoolIsShared
  BY <1>1, HttpAssumption DEF HttpInit, PoolIsShared, HttpAssumption
<1> QED BY <1>3, <1>4, <1>5 DEF HttpIInv

(* A connection that is given back fits into the pool.                     *)
LEMMA PoolHasRoom ==
    ASSUME HttpTypeOK, PoolIsShared
    PROVE  /\ (\E t \in Thread : pc[t] = "execute") => free + 1 \in 0..PoolSize
           /\ other # {} => free + 1 \in 0..PoolSize
           /\ free > 0 => free - 1 \in 0..PoolSize
           /\ other # {} => lost + 1 \in 0..PoolSize
           /\ Cardinality(other) \in Nat /\ free \in Nat /\ PoolSize \in Nat /\ lost \in Nat
<1>1. IsFiniteSet(other) /\ Cardinality(other) \in Nat
  BY FS_CardinalityType DEF PoolIsShared
<1>2. other # {} => Cardinality(other) # 0
  BY <1>1, FS_EmptySet
<1>3. PoolSize \in Nat
  BY HttpAssumption DEF HttpAssumption
<1>4. free \in 0..PoolSize /\ lost \in 0..PoolSize
  BY DEF HttpTypeOK
<1>5. free + Cardinality(other) + lost + (IF \E t \in Thread : pc[t] = "execute" THEN 1 ELSE 0)
        = PoolSize
  BY DEF PoolIsShared
<1>6. (\E t \in Thread : pc[t] = "execute") => free + Cardinality(other) + lost + 1 = PoolSize
  BY <1>5
<1> QED BY <1>1, <1>2, <1>3, <1>4, <1>5, <1>6

LEMMA OutsideType ==
    ASSUME HttpIInv, OutsideStep
    PROVE  HttpTypeOK'
<1> USE DEF HttpIInv
<1>0. HttpTypeOK /\ PoolSize \in Nat
  BY HttpAssumption DEF HttpAssumption
<1>1. CASE Start
  BY <1>0, <1>1 DEF Start, HttpTypeOK, threadVars, poolVars
<1>2. CASE Stop
  BY <1>0, <1>2 DEF Stop, HttpTypeOK, threadVars, poolVars
<1>3. CASE Join
  BY <1>0, <1>3 DEF Join, HttpTypeOK, threadVars, poolVars
<1>4. ASSUME NEW c \in Client, Accept(c)
      PROVE  HttpTypeOK'
  BY <1>0, <1>4 DEF Accept, HttpTypeOK, threadVars, poolVars, serverVars
<1>5. ASSUME NEW c \in Client, ReadFails(c)
      PROVE  HttpTypeOK'
  BY <1>0, <1>5 DEF ReadFails, HttpTypeOK, threadVars, poolVars, serverVars
<1>6. ASSUME NEW c \in Client, NEW r \in Request, ReadRequest(c, r)
      PROVE  HttpTypeOK'
  BY <1>0, <1>6 DEF ReadRequest, HttpTypeOK, threadVars, poolVars, serverVars
<1>7. ASSUME NEW o \in Others, OtherAcquires(o)
      PROVE  HttpTypeOK'
  <2>1. free - 1 \in 0..PoolSize
    BY <1>7, PoolHasRoom DEF OtherAcquires
  <2> QED BY <1>0, <1>7, <2>1 DEF OtherAcquires, HttpTypeOK, threadVars, serverVars
<1>8. ASSUME NEW o \in Others, OtherReleases(o)
      PROVE  HttpTypeOK'
  <2>1. free + 1 \in 0..PoolSize
    BY <1>8, PoolHasRoom DEF OtherReleases
  <2> QED BY <1>0, <1>8, <2>1 DEF OtherReleases, HttpTypeOK, threadVars, serverVars
<1>9. ASSUME NEW o \in Others, OtherLoses(o)
      PROVE  HttpTypeOK'
  <2>1. lost + 1 \in 0..PoolSize
    BY <1>9, PoolHasRoom DEF OtherLoses
  <2> QED BY <1>0, <1>9, <2>1 DEF OtherLoses, HttpTypeOK, threadVars, serverVars
<1> QED BY <1>1, <1>2, <1>3, <1>4, <1>5, <1>6, <1>7, <1>8, <1>9 DEF OutsideStep

LEMMA HandlerType ==
    ASSUME HttpIInv, NEW t \in Thread, HandlerStep(t)
    PROVE  HttpTypeOK'
<1> USE DEF HttpIInv
<1>0. HttpTypeOK /\ PoolSize \in Nat
  BY HttpAssumption DEF HttpAssumption
<1>1. CASE LockNotFound(t)
  BY <1>0, <1>1 DEF LockNotFound, HttpTypeOK, poolVars, serverVars
<1>2. CASE Lock(t)
  <2>1. calls' \in [Thread -> Seq(Operation)]
    <3>1. calls \in [Thread -> Seq(Operation)]
      BY <1>0 DEF HttpTypeOK
    <3>2. PICK i \in 1..Len(routes) : calls' = [calls EXCEPT ![t] = routes[i].calls]
      BY <1>2 DEF Lock
    <3>3. routes[i].calls \in Seq(Operation)
      BY CallsType
    <3> QED BY <3>1, <3>2, <3>3
  <2>2. /\ mutex' = t /\ pc' = [pc EXCEPT ![t] = "call"]
        /\ UNCHANGED <<serverVars, ok, serving, client, request, response, poolVars>>
    BY <1>2 DEF Lock
  <2> QED BY <1>0, <2>1, <2>2 DEF HttpTypeOK, poolVars, serverVars
<1>3. CASE LockThrows(t)
  BY <1>0, <1>3 DEF LockThrows, HttpTypeOK, poolVars, serverVars
<1>4. CASE Acquire(t)
  <2>1. free - 1 \in 0..PoolSize
    BY <1>4, PoolHasRoom DEF Acquire
  <2> QED BY <1>0, <1>4, <2>1 DEF Acquire, HttpTypeOK, serverVars
<1>5. CASE Execute(t) \/ ExecuteFails(t)
  <2>1. /\ free' = free + 1 /\ calls' = [calls EXCEPT ![t] = Tail(@)]
        /\ pc' = [pc EXCEPT ![t] = "call"] /\ pc[t] = "execute"
        /\ \E b \in BOOLEAN : ok' = [ok EXCEPT ![t] = b]
        /\ UNCHANGED <<serverVars, mutex, serving, client, request, response, other, lost>>
    BY <1>5 DEF Execute, ExecuteFails
  <2>2. free + 1 \in 0..PoolSize
    BY <2>1, PoolHasRoom
  <2>3. calls' \in [Thread -> Seq(Operation)]
    <3>1. calls \in [Thread -> Seq(Operation)]
      BY <1>0 DEF HttpTypeOK
    <3>2. calls[t] \in Seq(Operation) /\ calls[t] # <<>>
      BY <2>1, <3>1 DEF ExecutesACall
    <3>3. Tail(calls[t]) \in Seq(Operation)
      BY <3>2, HeadTailProperties
    <3> QED BY <2>1, <3>1, <3>3
  <2>4. ok' \in [Thread -> BOOLEAN]
    BY <1>0, <2>1 DEF HttpTypeOK
  <2> QED BY <1>0, <2>1, <2>2, <2>3, <2>4 DEF HttpTypeOK, serverVars
<1>6. CASE Finish(t)
  <2>1. Answer(t) \in {"refused", "result"}
    BY DEF Answer
  <2> QED BY <1>0, <1>6, <2>1 DEF Finish, HttpTypeOK, serverVars, poolVars
<1>7. CASE Write(t)
  BY <1>0, <1>7 DEF Write, HttpTypeOK, serverVars, poolVars
<1> QED BY <1>1, <1>2, <1>3, <1>4, <1>5, <1>6, <1>7 DEF HandlerStep

LEMMA TakeType ==
    ASSUME HttpIInv, NEW t \in Thread, NEW c \in Client, Take(t, c)
    PROVE  HttpTypeOK'
<1>1. HttpTypeOK
  BY DEF HttpIInv
<1>2. ServeFile(request[c]) \in {"file", "not found"}
  BY DEF ServeFile
<1> QED BY <1>1, <1>2 DEF Take, HttpTypeOK, serverVars, poolVars

LEMMA MutexStep ==
    ASSUME HttpIInv, HttpNext
    PROVE  HandlerHoldsMutex' /\ ExecutesACall'
<1> USE DEF HttpIInv
<1>0. /\ HandlerHoldsMutex /\ ExecutesACall /\ NoThread \notin Thread
      /\ pc \in [Thread -> {"idle", "lock", "call", "execute", "write"}]
      /\ calls \in [Thread -> Seq(Operation)]
  BY HttpAssumption DEF HttpAssumption, HttpTypeOK
<1>1. CASE OutsideStep
  BY <1>0, <1>1, OutsideSteps DEF HandlerHoldsMutex, ExecutesACall
<1>2. ASSUME NEW t \in Thread, HandlerStep(t)
      PROVE  HandlerHoldsMutex'
  BY <1>0, <1>2 DEF HandlerStep, LockNotFound, Lock, LockThrows, Acquire, Execute,
     ExecuteFails, Finish, Write, HandlerHoldsMutex
<1>3. ASSUME NEW t \in Thread, HandlerStep(t)
      PROVE  ExecutesACall'
  <2>1. CASE Lock(t)
    <3>1. \A u \in Thread \ {t} : calls'[u] = calls[u]
      BY <1>0, <2>1 DEF Lock
    <3> QED BY <1>0, <2>1, <3>1 DEF Lock, ExecutesACall
  <2>2. CASE Execute(t) \/ ExecuteFails(t)
    <3>1. \A u \in Thread \ {t} : calls'[u] = calls[u]
      BY <1>0, <2>2 DEF Execute, ExecuteFails
    <3>2. pc' = [pc EXCEPT ![t] = "call"]
      BY <2>2 DEF Execute, ExecuteFails
    <3> QED BY <1>0, <3>1, <3>2 DEF ExecutesACall
  <2>3. CASE LockNotFound(t) \/ LockThrows(t) \/ Acquire(t) \/ Finish(t) \/ Write(t)
    BY <1>0, <2>3 DEF LockNotFound, LockThrows, Acquire, Finish, Write, ExecutesACall
  <2> QED BY <1>3, <2>1, <2>2, <2>3 DEF HandlerStep
<1>4. ASSUME NEW t \in Thread, NEW c \in Client, Take(t, c)
      PROVE  HandlerHoldsMutex' /\ ExecutesACall'
  BY <1>0, <1>4 DEF Take, HandlerHoldsMutex, ExecutesACall
<1> QED BY <1>1, <1>2, <1>3, <1>4, HttpSteps

LEMMA PoolStep ==
    ASSUME HttpIInv, HttpNext
    PROVE  PoolIsShared'
<1> USE DEF HttpIInv
<1> DEFINE Executing == \E t \in Thread : pc[t] = "execute"
<1>0. /\ IsFiniteSet(other) /\ Cardinality(other) \in Nat
      /\ free \in Nat /\ PoolSize \in Nat /\ lost \in Nat
      /\ free + Cardinality(other) + lost + (IF Executing THEN 1 ELSE 0) = PoolSize
      /\ pc \in [Thread -> {"idle", "lock", "call", "execute", "write"}]
  <2>1. Cardinality(other) \in Nat /\ free \in Nat /\ PoolSize \in Nat /\ lost \in Nat
    BY PoolHasRoom
  <2> QED BY <2>1 DEF HttpTypeOK, PoolIsShared
<1>00. HandlerHoldsMutex
  OBVIOUS
<1>1. ASSUME NEW o \in Others, OtherAcquires(o)
      PROVE  PoolIsShared'
  <2>1. IsFiniteSet(other') /\ Cardinality(other') = Cardinality(other) + 1
    BY <1>0, <1>1, FS_AddElement DEF OtherAcquires
  <2>2. free' = free - 1 /\ pc' = pc /\ lost' = lost
    BY <1>1 DEF OtherAcquires, threadVars
  <2> QED BY <1>0, <2>1, <2>2 DEF PoolIsShared
<1>2. ASSUME NEW o \in Others, OtherReleases(o)
      PROVE  PoolIsShared'
  <2>1. IsFiniteSet(other') /\ Cardinality(other') = Cardinality(other) - 1
    BY <1>0, <1>2, FS_RemoveElement DEF OtherReleases
  <2>2. free' = free + 1 /\ pc' = pc /\ lost' = lost
    BY <1>2 DEF OtherReleases, threadVars
  <2> QED BY <1>0, <2>1, <2>2 DEF PoolIsShared
<1>7. ASSUME NEW o \in Others, OtherLoses(o)
      PROVE  PoolIsShared'
  <2>1. IsFiniteSet(other') /\ Cardinality(other') = Cardinality(other) - 1
    BY <1>0, <1>7, FS_RemoveElement DEF OtherLoses
  <2>2. free' = free /\ pc' = pc /\ lost' = lost + 1
    BY <1>7 DEF OtherLoses, threadVars
  <2> QED BY <1>0, <2>1, <2>2 DEF PoolIsShared
<1>3. CASE Start \/ Stop \/ Join
             \/ \E c \in Client :
                  Accept(c) \/ ReadFails(c) \/ \E r \in Request : ReadRequest(c, r)
  <2>1. free' = free /\ other' = other /\ pc' = pc /\ lost' = lost
    BY <1>3 DEF Start, Stop, Join, Accept, ReadFails, ReadRequest, poolVars, threadVars
  <2> QED BY <1>0, <2>1 DEF PoolIsShared
<1>4. ASSUME NEW t \in Thread, Acquire(t)
      PROVE  PoolIsShared'
  <2>1. ~Executing
    <3>1. mutex = t /\ pc[t] = "call"
      BY <1>4, <1>00 DEF Acquire, HandlerHoldsMutex
    <3> QED BY <3>1, <1>00 DEF HandlerHoldsMutex
  <2>2. free' = free - 1 /\ other' = other /\ lost' = lost /\ pc'[t] = "execute"
    BY <1>0, <1>4 DEF Acquire
  <2> QED BY <1>0, <2>1, <2>2 DEF PoolIsShared
<1>5. ASSUME NEW t \in Thread, Execute(t) \/ ExecuteFails(t)
      PROVE  PoolIsShared'
  <2>1. pc[t] = "execute" /\ free' = free + 1 /\ other' = other /\ lost' = lost
        /\ pc' = [pc EXCEPT ![t] = "call"]
    BY <1>5 DEF Execute, ExecuteFails
  <2>2. \A u \in Thread : pc[u] = "execute" => u = t
    BY <2>1, <1>00 DEF HandlerHoldsMutex
  <2>3. ~\E u \in Thread : pc'[u] = "execute"
    BY <1>0, <2>1, <2>2
  <2> QED BY <1>0, <2>1, <2>3 DEF PoolIsShared
<1>6. ASSUME NEW t \in Thread,
             \/ LockNotFound(t) \/ Lock(t) \/ LockThrows(t) \/ Finish(t) \/ Write(t)
             \/ \E c \in Client : Take(t, c)
      PROVE  PoolIsShared'
  <2>1. /\ free' = free /\ other' = other /\ lost' = lost /\ pc[t] # "execute"
        /\ \E l \in {"write", "call", "idle", "lock"} : pc' = [pc EXCEPT ![t] = l]
    BY <1>6 DEF LockNotFound, Lock, LockThrows, Finish, Write, Take, poolVars
  <2>2. \A u \in Thread : pc'[u] = "execute" <=> pc[u] = "execute"
    BY <1>0, <2>1
  <2> QED BY <1>0, <2>1, <2>2 DEF PoolIsShared
<1> QED BY <1>1, <1>2, <1>3, <1>4, <1>5, <1>6, <1>7 DEF HttpNext, HandlerStep

LEMMA AnswersStep ==
    ASSUME HttpIInv, HttpNext
    PROVE  AnswersComeFirst'
<1> USE DEF HttpIInv
<1>0. /\ AnswersComeFirst
      /\ pc \in [Thread -> {"idle", "lock", "call", "execute", "write"}]
      /\ serving \in [Thread -> Client \union {NoClient}]
      /\ client \in [Client -> {"away", "open", "ready", "served", "gone"}]
      /\ response \in [Client -> {"none", "file", "not found", "refused", "result"}]
  BY DEF HttpTypeOK
<1>1. CASE OutsideStep
  <2>1. pc' = pc /\ serving' = serving
    BY <1>1, OutsideSteps
  <2>2. response' = response
    BY <1>1 DEF OutsideStep, Start, Stop, Join, Accept, ReadFails, ReadRequest,
       OtherAcquires, OtherReleases, OtherLoses
  <2>3. \A c \in Client : client'[c] = "served" => client[c] = "served"
    BY <1>0, <1>1 DEF OutsideStep, Start, Stop, Join, Accept, ReadFails, ReadRequest,
       OtherAcquires, OtherReleases, OtherLoses
  <2> QED BY <1>0, <2>1, <2>2, <2>3 DEF AnswersComeFirst
<1>2. ASSUME NEW t \in Thread,
             Lock(t) \/ LockThrows(t) \/ Acquire(t) \/ Execute(t) \/ ExecuteFails(t)
      PROVE  AnswersComeFirst'
  BY <1>0, <1>2 DEF Lock, LockThrows, Acquire, Execute, ExecuteFails, AnswersComeFirst
<1>3. ASSUME NEW t \in Thread, LockNotFound(t) \/ Finish(t)
      PROVE  AnswersComeFirst'
  <2>1. serving[t] \in Client
    BY <1>0, <1>3 DEF LockNotFound, Finish, AnswersComeFirst
  <2>2. Answer(t) \in {"refused", "result"}
    BY DEF Answer
  <2>3. \E a \in {"not found", "refused", "result"} :
          response' = [response EXCEPT ![serving[t]] = a]
    BY <1>3, <2>2 DEF LockNotFound, Finish
  <2>4. pc' = [pc EXCEPT ![t] = "write"] /\ serving' = serving /\ client' = client
    BY <1>3 DEF LockNotFound, Finish
  <2> QED BY <1>0, <2>1, <2>3, <2>4 DEF AnswersComeFirst
<1>4. ASSUME NEW t \in Thread, Write(t)
      PROVE  AnswersComeFirst'
  <2>1. serving[t] \in Client /\ response[serving[t]] # "none"
    BY <1>0, <1>4 DEF Write, AnswersComeFirst
  <2> QED BY <1>0, <1>4, <2>1 DEF Write, AnswersComeFirst
<1>5. ASSUME NEW t \in Thread, NEW c \in Client, Take(t, c)
      PROVE  AnswersComeFirst'
  <2>1. ServeFile(request[c]) \in {"file", "not found"}
    BY DEF ServeFile
  <2>2. /\ serving' = [serving EXCEPT ![t] = c] /\ client' = client
        /\ \/ pc' = [pc EXCEPT ![t] = "lock"] /\ response' = response
           \/ /\ pc' = [pc EXCEPT ![t] = "write"]
              /\ response' = [response EXCEPT ![c] = ServeFile(request[c])]
    BY <1>5 DEF Take
  <2> QED BY <1>0, <2>1, <2>2 DEF AnswersComeFirst
<1> QED BY <1>1, <1>2, <1>3, <1>4, <1>5, HttpSteps DEF HandlerStep

LEMMA HttpNextIInv == HttpIInv /\ [HttpNext]_httpVars => HttpIInv'
<1>1. ASSUME HttpIInv, HttpNext
      PROVE  HttpTypeOK'
  BY <1>1, OutsideType, HandlerType, TakeType, HttpSteps
<1>2. ASSUME HttpIInv, HttpNext
      PROVE  HttpIInv'
  BY <1>1, <1>2, MutexStep, PoolStep, AnswersStep DEF HttpIInv
<1>3. ASSUME HttpIInv, UNCHANGED httpVars
      PROVE  HttpIInv'
  BY <1>3 DEF HttpIInv, HttpTypeOK, HandlerHoldsMutex, ExecutesACall, PoolIsShared,
     AnswersComeFirst, httpVars, serverVars, threadVars, poolVars
<1> QED BY <1>2, <1>3

(* The inductive invariant holds in every reachable state of the HTTP      *)
(* server, and with it: nobody is served before there is an answer.        *)
THEOREM HttpInvariance == HttpSpec => []HttpIInv
  BY HttpInitIInv, HttpNextIInv, PTL DEF HttpSpec

(* The variables of the HTTP server keep their types.                      *)
THEOREM HttpTypeCorrect == HttpSpec => []HttpTypeOK
<1>1. HttpIInv => HttpTypeOK
  BY DEF HttpIInv
<1> QED BY <1>1, HttpInvariance, PTL

(* However many io threads and clients there are, HTTP has at most one     *)
(* connection of the pool (http_server.cpp l.317-326).                     *)
THEOREM HttpTakesOneConnection == HttpSpec => []OneConnectionForHttp
<1>1. ASSUME HttpIInv
      PROVE  OneConnectionForHttp
  <2> DEFINE Working == {t \in Thread : pc[t] \in {"call", "execute"}}
  <2>1. PoolSize - free - Cardinality(other) - lost \in {0, 1}
    <3>1. Cardinality(other) \in Nat /\ free \in Nat /\ PoolSize \in Nat /\ lost \in Nat
      BY <1>1, PoolHasRoom DEF HttpIInv
    <3> QED BY <1>1, <3>1 DEF HttpIInv, PoolIsShared
  <2>2. Working \subseteq {mutex}
    BY <1>1 DEF HttpIInv, HandlerHoldsMutex
  <2>3. IsFiniteSet({mutex}) /\ Cardinality({mutex}) = 1
    BY FS_Singleton
  <2>4. Cardinality(Working) <= 1
    BY <2>2, <2>3, FS_Subset
  <2> QED BY <2>1, <2>4 DEF OneConnectionForHttp
<1> QED BY <1>1, HttpInvariance, PTL

-----------------------------------------------------------------------------
(* SensorClient: the inductive invariant *)

Step == {"run", "send", "next", "lost", "test", "arm", "drop", "dropClose", "dropCancel",
         "close", "connect", "up", "reset", "startSending", "scheduleDisconnect"}

(* What the invariant needs of the types, and of the steps a handler has.  *)
LEMMA SensorTypes ==
    ASSUME SensorTypeOK
    PROVE  /\ sock \in {"closed", "connecting", "open", "broken"}
           /\ pending \in Nat /\ count \in Nat /\ MaxReconnect \in Nat \ {0}
           /\ ready \in [Completion -> Nat] /\ step \in [Worker -> Step]
           /\ sendTimer \in BOOLEAN /\ reconnectTimer \in BOOLEAN
           /\ disconnectTimer \in BOOLEAN /\ connected \in BOOLEAN
           /\ \A k \in Completion : ready[k] \in Nat
  BY SensorAssumption DEF SensorTypeOK, SensorAssumption, Step

LEMMA SensorInitIInv == SensorInit => SensorIInv
<1> SUFFICES ASSUME SensorInit PROVE SensorIInv
  OBVIOUS
<1>1. SensorTypeOK
  BY DEF SensorInit, SensorTypeOK
<1>2. KeepsGoing /\ OpenIsCounted
  BY DEF SensorInit, KeepsGoing, OpenIsCounted
<1> QED BY <1>1, <1>2 DEF SensorIInv

(* A handler goes on to a step; the numbers of completions stay numbers.   *)
LEMMA GoType ==
    ASSUME SensorTypeOK, NEW t \in Worker, NEW l \in Step, Go(t, l)
    PROVE  step' \in [Worker -> Step] /\ step'[t] = l /\ \A u \in Worker \ {t} : step'[u] = step[u]
  BY SensorTypes DEF Go

LEMMA PostType ==
    ASSUME SensorTypeOK, NEW k \in Completion, NEW n \in Nat, Post(k, n)
    PROVE  /\ ready' \in [Completion -> Nat] /\ ready'[k] = ready[k] + n
           /\ \A l \in Completion \ {k} : ready'[l] = ready[l]
  BY SensorTypes DEF Post

LEMMA CloseType ==
    ASSUME SensorTypeOK, Close
    PROVE  /\ sock' = "closed" /\ pending' = 0 /\ ready' \in [Completion -> Nat]
           /\ \A k \in Completion : ready'[k] >= ready[k]
           /\ \A k \in Completion \ {"writeErr", "connectErr"} : ready'[k] = ready[k]
<1> DEFINE n == IF sock = "connecting" THEN 1 ELSE 0
           first == [ready EXCEPT !["writeErr"] = @ + pending]
<1>1. ready' = [first EXCEPT !["connectErr"] = @ + n]
  BY DEF Close
<1>2. n \in Nat /\ pending \in Nat /\ ready \in [Completion -> Nat]
  BY SensorTypes
<1>3. "writeErr" \in Completion /\ "connectErr" \in Completion
  BY DEF Completion
<1>4. /\ first \in [Completion -> Nat]
      /\ \A k \in Completion : first[k] >= ready[k]
      /\ \A k \in Completion \ {"writeErr"} : first[k] = ready[k]
  BY <1>2, <1>3
<1> HIDE DEF first, n
<1> QED BY <1>1, <1>2, <1>3, <1>4 DEF Close

(* The network and the clock post a completion, or nothing happens to the  *)
(* handlers.                                                               *)
LEMMA NetworkType ==
    ASSUME SensorTypeOK,
           ConnectSucceeds \/ ConnectFails \/ Break \/ WriteDone \/ WriteFails
    PROVE  SensorTypeOK'
<1> USE SensorTypes DEF socketVars, timerVars
<1>0. "connectOk" \in Completion /\ "connectErr" \in Completion /\ "writeErr" \in Completion
  BY DEF Completion
<1>1. ready' \in [Completion -> Nat]
  BY <1>0, PostType DEF ConnectSucceeds, ConnectFails, Break, WriteDone, WriteFails
<1>2. pending' \in Nat
  BY DEF ConnectSucceeds, ConnectFails, Break, WriteDone, WriteFails
<1>3. sock' \in {"closed", "connecting", "open", "broken"}
  BY DEF ConnectSucceeds, ConnectFails, Break, WriteDone, WriteFails
<1>4. UNCHANGED <<connected, count, timerVars, step>>
  BY DEF ConnectSucceeds, ConnectFails, Break, WriteDone, WriteFails
<1> QED BY <1>1, <1>2, <1>3, <1>4 DEF SensorTypeOK

LEMMA ClockType ==
    ASSUME SensorTypeOK, SendDue \/ ReconnectDue \/ DisconnectDue
    PROVE  SensorTypeOK'
<1> USE SensorTypes DEF socketVars, timerVars
<1>0. "send" \in Completion /\ "reconnect" \in Completion /\ "disconnect" \in Completion
  BY DEF Completion
<1>1. ready' \in [Completion -> Nat]
  BY <1>0, PostType DEF SendDue, ReconnectDue, DisconnectDue
<1>2. sendTimer' \in BOOLEAN /\ reconnectTimer' \in BOOLEAN /\ disconnectTimer' \in BOOLEAN
  BY DEF SendDue, ReconnectDue, DisconnectDue
<1>3. UNCHANGED <<sock, pending, connected, count, step>>
  BY DEF SendDue, ReconnectDue, DisconnectDue
<1> QED BY <1>1, <1>2, <1>3 DEF SensorTypeOK

(* A completion is taken by an idle thread, which begins its handler.      *)
LEMMA TakeFacts ==
    ASSUME SensorTypeOK, NEW t \in Worker, NEW k \in Completion, TakeCompletion(t, k)
    PROVE  /\ SensorTypeOK'
           /\ step[t] = "run" /\ step'[t] = FirstStep[k]
           /\ FirstStep[k] \in {"send", "lost", "drop", "close", "up"}
           /\ FirstStep[k] = "drop" => k = "disconnect"
           /\ \A u \in Worker \ {t} : step'[u] = step[u]
           /\ \A l \in Completion \ {k} : ready'[l] = ready[l]
           /\ UNCHANGED <<sock, count, sendTimer, reconnectTimer>>
<1>1. /\ FirstStep[k] \in {"send", "lost", "drop", "close", "up"}
      /\ FirstStep[k] = "drop" => k = "disconnect"
  BY DEF FirstStep, Completion
<1>2. FirstStep[k] \in Step
  BY <1>1 DEF Step
<1>3. step' \in [Worker -> Step] /\ step'[t] = FirstStep[k]
      /\ \A u \in Worker \ {t} : step'[u] = step[u]
  BY <1>2, GoType DEF TakeCompletion
<1>4. ready' \in [Completion -> Nat] /\ \A l \in Completion \ {k} : ready'[l] = ready[l]
  BY SensorTypes DEF TakeCompletion
<1>5. SensorTypeOK'
  BY <1>3, <1>4 DEF TakeCompletion, SensorTypeOK, socketVars, timerVars, Step
<1> QED BY <1>1, <1>3, <1>4, <1>5 DEF TakeCompletion, socketVars, timerVars

LEMMA SendHandlerType ==
    ASSUME SensorTypeOK, NEW t \in Worker, SendData(t) \/ ScheduleNextSend(t)
    PROVE  SensorTypeOK'
<1> USE SensorTypes DEF socketVars, timerVars
<1>1. step' \in [Worker -> Step]
  BY GoType DEF SendData, ScheduleNextSend, Step
<1>2. ready' \in [Completion -> Nat] /\ pending' \in Nat
  <2>1. "writeErr" \in Completion
    BY DEF Completion
  <2> QED BY <2>1, PostType DEF SendData, ScheduleNextSend
<1>3. sendTimer' \in BOOLEAN
      /\ UNCHANGED <<sock, connected, count, reconnectTimer, disconnectTimer>>
  BY DEF SendData, ScheduleNextSend
<1> QED BY <1>1, <1>2, <1>3 DEF SensorTypeOK, Step

LEMMA LostHandlerType ==
    ASSUME SensorTypeOK, NEW t \in Worker,
           Lost(t) \/ GiveUp(t) \/ TestCount(t) \/ ArmReconnect(t)
    PROVE  SensorTypeOK'
<1> USE SensorTypes DEF socketVars, timerVars
<1>1. step' \in [Worker -> Step]
  BY GoType DEF Lost, GiveUp, TestCount, ArmReconnect, Step
<1>2. count' \in Nat
  BY DEF Lost, GiveUp, TestCount, ArmReconnect
<1>3. connected' \in BOOLEAN /\ reconnectTimer' \in BOOLEAN
  <2>1. /\ connected' = FALSE \/ connected' = connected
        /\ reconnectTimer' = TRUE \/ reconnectTimer' = reconnectTimer
    BY DEF Lost, GiveUp, TestCount, ArmReconnect
  <2> QED BY <2>1
<1>4. UNCHANGED <<sock, pending, sendTimer, disconnectTimer, ready>>
  BY DEF Lost, GiveUp, TestCount, ArmReconnect
<1> QED BY <1>1, <1>2, <1>3, <1>4 DEF SensorTypeOK, Step

LEMMA DisconnectHandlerType ==
    ASSUME SensorTypeOK, NEW t \in Worker,
           Disconnect(t) \/ DisconnectClose(t) \/ DisconnectCancel(t)
    PROVE  SensorTypeOK'
<1> USE SensorTypes DEF socketVars, timerVars
<1>1. step' \in [Worker -> Step]
  BY GoType DEF Disconnect, DisconnectClose, DisconnectCancel, Step
<1>2. ready' \in [Completion -> Nat] /\ pending' \in Nat
      /\ sock' \in {"closed", "connecting", "open", "broken"}
  BY CloseType DEF Disconnect, DisconnectClose, DisconnectCancel
<1>3. connected' \in BOOLEAN /\ sendTimer' \in BOOLEAN
      /\ UNCHANGED <<count, reconnectTimer, disconnectTimer>>
  BY DEF Disconnect, DisconnectClose, DisconnectCancel
<1> QED BY <1>1, <1>2, <1>3 DEF SensorTypeOK, Step

LEMMA ConnectHandlerType ==
    ASSUME SensorTypeOK, NEW t \in Worker,
           \/ ReconnectClose(t) \/ Connect(t)
           \/ Up(t) \/ Reset(t) \/ StartSending(t) \/ ScheduleDisconnect(t)
    PROVE  SensorTypeOK'
<1> USE SensorTypes DEF socketVars, timerVars
<1>1. step' \in [Worker -> Step]
  BY GoType DEF ReconnectClose, Connect, Up, Reset, StartSending, ScheduleDisconnect, Step
<1>2. ready' \in [Completion -> Nat] /\ pending' \in Nat
      /\ sock' \in {"closed", "connecting", "open", "broken"}
  <2>1. "connectErr" \in Completion
    BY DEF Completion
  <2>2. CASE ReconnectClose(t)
    BY <2>2, CloseType DEF ReconnectClose
  <2>3. CASE Connect(t)
    BY <2>1, <2>3, PostType DEF Connect
  <2>4. CASE Up(t) \/ Reset(t) \/ StartSending(t) \/ ScheduleDisconnect(t)
    BY <2>4 DEF Up, Reset, StartSending, ScheduleDisconnect
  <2> QED BY <2>2, <2>3, <2>4
<1>3. /\ connected' = TRUE \/ connected' = connected
      /\ count' = 0 \/ count' = count
      /\ sendTimer' = TRUE \/ sendTimer' = sendTimer
      /\ disconnectTimer' = TRUE \/ disconnectTimer' = disconnectTimer
      /\ reconnectTimer' = reconnectTimer
  BY DEF ReconnectClose, Connect, Up, Reset, StartSending, ScheduleDisconnect
<1>4. connected' \in BOOLEAN /\ sendTimer' \in BOOLEAN /\ disconnectTimer' \in BOOLEAN
  BY <1>3
<1>5. count' \in Nat
  BY <1>3
<1> QED BY <1>1, <1>2, <1>3, <1>4, <1>5 DEF SensorTypeOK, Step

LEMMA SensorTypeStep ==
    ASSUME SensorTypeOK, SensorNext
    PROVE  SensorTypeOK'
<1>1. ASSUME NEW t \in Worker, CompletionStep(t)
      PROVE  SensorTypeOK'
  BY <1>1, SendHandlerType, LostHandlerType, DisconnectHandlerType, ConnectHandlerType
     DEF CompletionStep
<1> QED BY <1>1, NetworkType, ClockType, TakeFacts DEF SensorNext, NetworkAnswers

(* What keeps the sensor going.  Each step leaves one of the reasons, or   *)
(* gives another one.                                                      *)
LEMMA NetworkKeeps ==
    ASSUME SensorTypeOK, KeepsGoing,
           ConnectSucceeds \/ ConnectFails \/ Break \/ WriteDone \/ WriteFails
    PROVE  KeepsGoing'
<1>0. /\ "connectOk" \in Completion \ {"disconnect"}
      /\ "connectErr" \in Completion \ {"disconnect"}
      /\ "writeErr" \in Completion \ {"disconnect"}
      /\ \A k \in Completion : ready[k] \in Nat
  BY SensorTypes DEF Completion
<1>1. ASSUME NEW k \in Completion \ {"disconnect"}, Post(k, 1)
      PROVE  KeepsGoing'
  <2>1. ready'[k] > 0
    BY <1>0, <1>1, PostType
  <2> QED BY <2>1 DEF KeepsGoing, StepDue
<1>2. CASE Break \/ WriteDone
  <2>1. UNCHANGED <<count, timerVars, ready, step>>
        /\ (sock' = sock \/ (sock = "open" /\ sock' = "broken"))
    BY <1>2 DEF Break, WriteDone
  <2> QED BY <2>1 DEF KeepsGoing, StepDue, timerVars
<1> QED BY <1>0, <1>1, <1>2 DEF ConnectSucceeds, ConnectFails, WriteFails

LEMMA ClockKeeps ==
    ASSUME SensorTypeOK, KeepsGoing, SendDue \/ ReconnectDue \/ DisconnectDue
    PROVE  KeepsGoing'
<1>0. /\ "send" \in Completion \ {"disconnect"}
      /\ "reconnect" \in Completion \ {"disconnect"} /\ "disconnect" \in Completion
      /\ \A k \in Completion : ready[k] \in Nat
  BY SensorTypes DEF Completion
<1>1. ASSUME NEW k \in Completion \ {"disconnect"}, Post(k, 1)
      PROVE  KeepsGoing'
  <2>1. ready'[k] > 0
    BY <1>0, <1>1, PostType
  <2> QED BY <2>1 DEF KeepsGoing, StepDue
<1>2. CASE DisconnectDue
  <2>1. UNCHANGED <<sock, count, step, sendTimer, reconnectTimer>>
    BY <1>2 DEF DisconnectDue, socketVars
  <2>2. \A k \in Completion \ {"disconnect"} : ready'[k] = ready[k]
    BY <1>0, <1>2, PostType DEF DisconnectDue
  <2> QED BY <2>1, <2>2 DEF KeepsGoing, StepDue
<1> QED BY <1>0, <1>1, <1>2 DEF SendDue, ReconnectDue

LEMMA TakeKeeps ==
    ASSUME SensorTypeOK, KeepsGoing,
           NEW t \in Worker, NEW k \in Completion, TakeCompletion(t, k)
    PROVE  KeepsGoing'
<1>1. CASE k = "disconnect"
  <2>1. \A u \in Worker : step[u] \notin {"run", "drop", "scheduleDisconnect"}
                            => step'[u] = step[u]
    BY TakeFacts
  <2> QED BY <1>1, <2>1, TakeFacts DEF KeepsGoing, StepDue
<1>2. CASE k # "disconnect"
  <2>1. step'[t] \notin {"run", "drop", "scheduleDisconnect"}
    BY <1>2, TakeFacts
  <2> QED BY <2>1 DEF KeepsGoing, StepDue
<1> QED BY <1>1, <1>2

LEMMA HandlerKeeps ==
    ASSUME SensorTypeOK, KeepsGoing, OpenIsCounted, NEW t \in Worker, CompletionStep(t)
    PROVE  KeepsGoing'
<1> USE SensorTypes
<1> DEFINE Quiet == {"run", "drop", "scheduleDisconnect"}
(* ... because the handler is not over. *)
<1>1. ASSUME NEW l \in Step \ Quiet, Go(t, l)
      PROVE  KeepsGoing'
  <2>1. step'[t] \notin Quiet
    BY <1>1, GoType
  <2> QED BY <2>1 DEF KeepsGoing, StepDue
<1>2. ASSUME SendData(t) \/ Lost(t) \/ TestCount(t) \/ DisconnectClose(t)
               \/ DisconnectCancel(t) \/ ReconnectClose(t) \/ Up(t) \/ Reset(t)
      PROVE  KeepsGoing'
  <2>1. {"next", "test", "arm", "dropCancel", "connect", "reset", "startSending"}
          \subseteq Step \ Quiet
    BY DEF Step
  <2>2. \E l \in {"next", "test", "arm", "dropCancel", "connect", "reset", "startSending"} :
          Go(t, l)
    BY <1>2 DEF SendData, Lost, TestCount, DisconnectClose, DisconnectCancel, ReconnectClose,
       Up, Reset
  <2> QED BY <1>1, <2>1, <2>2
(* ... because a timer is set. *)
<1>3. CASE ScheduleNextSend(t) \/ ArmReconnect(t) \/ StartSending(t)
  BY <1>3 DEF ScheduleNextSend, ArmReconnect, StartSending, KeepsGoing
(* ... because the socket is connecting, or cannot be connected. *)
<1>4. CASE Connect(t)
  <2>1. CASE sock = "closed"
    BY <1>4, <2>1 DEF Connect, KeepsGoing
  <2>2. CASE sock # "closed"
    <3>1. "connectErr" \in Completion \ {"disconnect"} /\ ready["connectErr"] \in Nat
      BY DEF Completion
    <3>2. ready'["connectErr"] > 0
      BY <1>4, <2>2, <3>1, PostType DEF Connect
    <3> QED BY <3>1, <3>2 DEF KeepsGoing, StepDue
  <2> QED BY <2>1, <2>2
(* The attempts are used up: a connection that stands is about to be used, *)
(* or to be closed and made anew.                                          *)
<1>5. CASE GiveUp(t)
  <2>1. /\ step[t] = "test" /\ count >= MaxReconnect
        /\ UNCHANGED <<sock, count, sendTimer, reconnectTimer, ready>>
        /\ \A u \in Worker \ {t} : step'[u] = step[u]
    BY <1>5, GoType DEF GiveUp, Step, socketVars, timerVars
  <2>2. CASE sock # "open"
    BY <2>1, <2>2 DEF KeepsGoing
  <2>3. CASE sock = "open"
    <3>1. ResetDue \/ CloseDue
      BY <2>1, <2>3 DEF OpenIsCounted
    <3>2. "connectOk" \in Completion \ {"disconnect"} /\ "reconnect" \in Completion \ {"disconnect"}
      BY DEF Completion
    <3>3. \A u \in Worker : step[u] \in {"up", "reset", "close"} => step'[u] = step[u]
      BY <2>1
    <3> QED BY <2>1, <3>1, <3>2, <3>3 DEF ResetDue, CloseDue, KeepsGoing, StepDue
  <2> QED BY <2>2, <2>3
(* The handlers of deliberate disconnects were not counted on. *)
<1>6. CASE Disconnect(t) \/ ScheduleDisconnect(t)
  <2>1. /\ step[t] \in Quiet
        /\ UNCHANGED <<sock, count, sendTimer, reconnectTimer, ready>>
        /\ \A u \in Worker \ {t} : step'[u] = step[u]
    BY <1>6, GoType DEF Disconnect, ScheduleDisconnect, Step, socketVars, timerVars
  <2>2. \A u \in Worker : step[u] \notin Quiet => step'[u] = step[u]
    BY <2>1
  <2> QED BY <2>1, <2>2 DEF KeepsGoing, StepDue
<1> QED BY <1>2, <1>3, <1>4, <1>5, <1>6 DEF CompletionStep

(* A connection that stands while the attempts look used up.               *)
LEMMA CountedWhenCompletionsStay ==
    ASSUME SensorTypeOK, SensorTypeOK', OpenIsCounted,
           sock' = "open" => sock = "open", count' = count,
           reconnectTimer => reconnectTimer',
           ready'["connectOk"] >= ready["connectOk"],
           ready'["reconnect"] >= ready["reconnect"],
           \A u \in Worker : step[u] \in {"up", "reset", "close"} => step'[u] = step[u]
    PROVE  OpenIsCounted'
<1>1. /\ ready["connectOk"] > 0 => ready'["connectOk"] > 0
      /\ ready["reconnect"] > 0 => ready'["reconnect"] > 0
  <2>1. "connectOk" \in Completion /\ "reconnect" \in Completion
    BY DEF Completion
  <2>2. /\ ready["connectOk"] \in Nat /\ ready["reconnect"] \in Nat
        /\ ready'["connectOk"] \in Nat /\ ready'["reconnect"] \in Nat
    BY <2>1 DEF SensorTypeOK
  <2> QED BY <2>2
<1>2. ResetDue => ResetDue'
  BY <1>1 DEF ResetDue
<1>3. CloseDue => CloseDue'
  BY <1>1 DEF CloseDue
<1> QED BY <1>2, <1>3 DEF OpenIsCounted

LEMMA NetworkCounted ==
    ASSUME SensorTypeOK, SensorTypeOK', OpenIsCounted,
           ConnectSucceeds \/ ConnectFails \/ Break \/ WriteDone \/ WriteFails
    PROVE  OpenIsCounted'
<1>0. /\ "connectOk" \in Completion /\ "connectErr" \in Completion
      /\ "writeErr" \in Completion /\ "reconnect" \in Completion
      /\ \A k \in Completion : ready[k] \in Nat
  BY SensorTypes DEF Completion
<1>1. CASE ConnectSucceeds
  <2>1. ready'["connectOk"] > 0
    BY <1>0, <1>1, PostType DEF ConnectSucceeds
  <2> QED BY <2>1 DEF OpenIsCounted, ResetDue
<1>2. CASE ConnectFails \/ Break \/ WriteDone \/ WriteFails
  <2>1. /\ sock' = "open" => sock = "open"
        /\ UNCHANGED <<count, reconnectTimer, step>>
    BY <1>2 DEF ConnectFails, Break, WriteDone, WriteFails, timerVars
  <2>2. ready'["connectOk"] = ready["connectOk"] /\ ready'["reconnect"] = ready["reconnect"]
    BY <1>0, <1>2, PostType DEF ConnectFails, Break, WriteDone, WriteFails
  <2>3. ready'["connectOk"] >= ready["connectOk"] /\ ready'["reconnect"] >= ready["reconnect"]
    BY <1>0, <2>2
  <2> QED BY <2>1, <2>3, CountedWhenCompletionsStay
<1> QED BY <1>1, <1>2

LEMMA ClockCounted ==
    ASSUME SensorTypeOK, SensorTypeOK', OpenIsCounted, SendDue \/ ReconnectDue \/ DisconnectDue
    PROVE  OpenIsCounted'
<1>0. /\ "send" \in Completion /\ "disconnect" \in Completion
      /\ "connectOk" \in Completion /\ "reconnect" \in Completion
      /\ \A k \in Completion : ready[k] \in Nat
  BY SensorTypes DEF Completion
<1>1. CASE ReconnectDue
  <2>1. ready'["reconnect"] > 0
    BY <1>0, <1>1, PostType DEF ReconnectDue
  <2> QED BY <2>1 DEF OpenIsCounted, CloseDue
<1>2. CASE SendDue \/ DisconnectDue
  <2>1. UNCHANGED <<sock, count, reconnectTimer, step>>
    BY <1>2 DEF SendDue, DisconnectDue, socketVars
  <2>2. ready'["connectOk"] = ready["connectOk"] /\ ready'["reconnect"] = ready["reconnect"]
    BY <1>0, <1>2, PostType DEF SendDue, DisconnectDue
  <2>3. ready'["connectOk"] >= ready["connectOk"] /\ ready'["reconnect"] >= ready["reconnect"]
    BY <1>0, <2>2
  <2> QED BY <2>1, <2>3, CountedWhenCompletionsStay
<1> QED BY <1>1, <1>2

LEMMA TakeCounted ==
    ASSUME SensorTypeOK, OpenIsCounted,
           NEW t \in Worker, NEW k \in Completion, TakeCompletion(t, k)
    PROVE  OpenIsCounted'
<1>0. /\ UNCHANGED <<sock, count, reconnectTimer>> /\ SensorTypeOK'
      /\ "connectOk" \in Completion /\ "reconnect" \in Completion
      /\ \A l \in Completion : ready[l] \in Nat /\ ready'[l] \in Nat
  BY TakeFacts DEF Completion, SensorTypeOK
<1>1. CASE k = "connectOk"
  <2>1. step'[t] = "up"
    BY <1>1, TakeFacts DEF FirstStep
  <2> QED BY <2>1 DEF OpenIsCounted, ResetDue
<1>2. CASE k = "reconnect"
  <2>1. step'[t] = "close"
    BY <1>2, TakeFacts DEF FirstStep
  <2> QED BY <2>1 DEF OpenIsCounted, CloseDue
<1>3. CASE k \notin {"connectOk", "reconnect"}
  <2>1. ready'["connectOk"] = ready["connectOk"] /\ ready'["reconnect"] = ready["reconnect"]
    BY <1>0, <1>3, TakeFacts
  <2>2. ready'["connectOk"] >= ready["connectOk"] /\ ready'["reconnect"] >= ready["reconnect"]
    BY <1>0, <2>1
  <2>3. \A u \in Worker : step[u] \in {"up", "reset", "close"} => step'[u] = step[u]
    BY TakeFacts
  <2> QED BY <1>0, <2>2, <2>3, CountedWhenCompletionsStay
<1> QED BY <1>1, <1>2, <1>3

LEMMA HandlerCounted ==
    ASSUME SensorTypeOK, SensorTypeOK', OpenIsCounted, NEW t \in Worker, CompletionStep(t)
    PROVE  OpenIsCounted'
<1> USE SensorTypes
<1>0. /\ "connectErr" \in Completion /\ "writeErr" \in Completion
      /\ "connectOk" \in Completion /\ "reconnect" \in Completion
      /\ \A k \in Completion : ready[k] \in Nat
  BY DEF Completion
(* A handler that is not at work on either reason keeps both. *)
<1>1. ASSUME step[t] \notin {"up", "reset", "close"}, NEW l \in Step, Go(t, l),
             sock' = "open" => sock = "open", count' = count,
             reconnectTimer => reconnectTimer',
             ready'["connectOk"] = ready["connectOk"], ready'["reconnect"] = ready["reconnect"]
      PROVE  OpenIsCounted'
  <2>1. \A u \in Worker : step[u] \in {"up", "reset", "close"} => step'[u] = step[u]
    BY <1>1, GoType
  <2>2. ready'["connectOk"] >= ready["connectOk"] /\ ready'["reconnect"] >= ready["reconnect"]
    BY <1>0, <1>1
  <2> QED BY <1>1, <2>1, <2>2, CountedWhenCompletionsStay
<1>2. CASE SendData(t)
  <2>1. ready'["connectOk"] = ready["connectOk"] /\ ready'["reconnect"] = ready["reconnect"]
    BY <1>0, <1>2, PostType DEF SendData
  <2> QED BY <1>1, <1>2, <2>1 DEF SendData, timerVars, Step
<1>3. CASE ScheduleNextSend(t) \/ Lost(t) \/ GiveUp(t) \/ TestCount(t) \/ Disconnect(t)
             \/ DisconnectCancel(t) \/ StartSending(t) \/ ScheduleDisconnect(t)
  <2>1. /\ step[t] \notin {"up", "reset", "close"}
        /\ UNCHANGED <<sock, count, reconnectTimer, ready>>
        /\ \E l \in Step : Go(t, l)
    BY <1>3 DEF ScheduleNextSend, Lost, GiveUp, TestCount, Disconnect, DisconnectCancel,
       StartSending, ScheduleDisconnect, socketVars, timerVars, Step
  <2> QED BY <1>1, <2>1
(* The timer is set; the socket is closed or connecting. *)
<1>4. CASE ArmReconnect(t)
  BY <1>4 DEF ArmReconnect, OpenIsCounted, CloseDue
<1>5. CASE DisconnectClose(t) \/ ReconnectClose(t)
  BY <1>5, CloseType DEF DisconnectClose, ReconnectClose, OpenIsCounted
<1>6. CASE Connect(t)
  <2>1. ready'["connectOk"] = ready["connectOk"] /\ ready'["reconnect"] = ready["reconnect"]
    BY <1>0, <1>6, PostType DEF Connect
  <2>2. sock' = "open" => sock = "open"
    BY <1>6 DEF Connect
  <2> QED BY <1>1, <1>6, <2>1, <2>2 DEF Connect, timerVars, Step
(* connect's handler is at work, or has set the count to zero. *)
<1>7. CASE Up(t)
  <2>1. step'[t] = "reset"
    BY <1>7, GoType DEF Up, Step
  <2> QED BY <2>1 DEF OpenIsCounted, ResetDue
<1>8. CASE Reset(t)
  BY <1>8 DEF Reset, OpenIsCounted
<1> QED BY <1>2, <1>3, <1>4, <1>5, <1>6, <1>7, <1>8 DEF CompletionStep

LEMMA SensorNextIInv == SensorIInv /\ [SensorNext]_sensorVars => SensorIInv'
<1> SUFFICES ASSUME SensorIInv, [SensorNext]_sensorVars
             PROVE  SensorIInv'
  OBVIOUS
<1>0. SensorTypeOK /\ KeepsGoing /\ OpenIsCounted
  BY DEF SensorIInv
<1>1. CASE SensorNext
  <2>1. SensorTypeOK'
    BY <1>0, <1>1, SensorTypeStep
  <2>2. KeepsGoing'
    BY <1>0, <1>1, NetworkKeeps, ClockKeeps, TakeKeeps, HandlerKeeps
       DEF SensorNext, NetworkAnswers
  <2>3. OpenIsCounted'
    BY <1>0, <1>1, <2>1, NetworkCounted, ClockCounted, TakeCounted, HandlerCounted
       DEF SensorNext, NetworkAnswers
  <2> QED BY <2>1, <2>2, <2>3 DEF SensorIInv
<1>2. CASE UNCHANGED sensorVars
  BY <1>0, <1>2 DEF SensorIInv, SensorTypeOK, KeepsGoing, OpenIsCounted, StepDue, ResetDue,
     CloseDue, sensorVars, socketVars, timerVars
<1> QED BY <1>1, <1>2

(* The inductive invariant holds in every reachable state of a sensor.     *)
THEOREM SensorInvariance == SensorSpec => []SensorIInv
  BY SensorInitIInv, SensorNextIInv, PTL DEF SensorSpec

(* The variables of a sensor keep their types.                             *)
THEOREM SensorTypeCorrect == SensorSpec => []SensorTypeOK
<1>1. SensorIInv => SensorTypeOK
  BY DEF SensorIInv
<1> QED BY <1>1, SensorInvariance, PTL

(* However many threads run a sensor's handlers, and however they overlap  *)
(* (simulator/main.cpp l.109-205), the sensor always has something under   *)
(* way, or has used up its attempts.                                       *)
THEOREM SensorIsNeverStuck == SensorSpec => []NeverStuck
<1>1. SensorIInv => NeverStuck
  BY DEF SensorIInv, KeepsGoing, StepDue, NeverStuck, HandlerDue
<1> QED BY <1>1, SensorInvariance, PTL

=============================================================================
