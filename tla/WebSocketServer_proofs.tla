----------------------- MODULE WebSocketServer_proofs -----------------------
(***************************************************************************)
(* Proofs about WebSocketServer, for any sessions and io threads and any   *)
(* number of messages.                                                     *)
(***************************************************************************)
EXTENDS WebSocketServer, SequenceTheorems, FiniteSetTheorems, TLAPS

Message == 1..MaxBroadcast

-----------------------------------------------------------------------------
(* The strand as a sequence of handlers *)

LEMMA HandlerFacts ==
    /\ \A m \in Message : DoSendOf(m) \in Handler /\ DoSendOf(m).run = "do_send" /\ DoSendOf(m).message = m
    /\ \A ec \in {"ok", "error"} :
          OnWriteOf(ec) \in Handler /\ OnWriteOf(ec).run = "on_write" /\ OnWriteOf(ec).ec = ec
    /\ \A h \in Handler : \/ h.run = "do_send" /\ h.message \in Message
                          \/ h.run = "on_write" /\ h.ec \in {"ok", "error"}
  BY DEF Handler, DoSendOf, OnWriteOf, Message

\* how many on_writes a strand has, and what its other handlers are
LEMMA OnWritesFacts ==
    ASSUME NEW q \in Seq(Handler), \A i, j \in OnWrites(q) : i = j
    PROVE  /\ \/ OnWrites(q) = {} /\ Cardinality(OnWrites(q)) = 0
              \/ \E k \in 1..Len(q) : OnWrites(q) = {k} /\ Cardinality(OnWrites(q)) = 1
           /\ \A i \in 1..Len(q) : i \notin OnWrites(q) => q[i].message \in Message
<1>1. OnWrites(q) \subseteq 1..Len(q)
  BY DEF OnWrites
<1>2. OnWrites(q) = {} => Cardinality(OnWrites(q)) = 0
  BY FS_EmptySet
<1>3. ASSUME NEW k \in OnWrites(q)
      PROVE  k \in 1..Len(q) /\ OnWrites(q) = {k} /\ Cardinality(OnWrites(q)) = 1
  <2>1. OnWrites(q) = {k}
    BY <1>3
  <2> QED BY <1>1, <1>3, <2>1, FS_Singleton
<1>4. ASSUME NEW i \in 1..Len(q), i \notin OnWrites(q) PROVE q[i].message \in Message
  <2>1. q[i] \in Handler
    BY ElementOfSeq
  <2> QED BY <1>4, <2>1, HandlerFacts DEF OnWrites
<1> QED BY <1>2, <1>3, <1>4

\* The sends of a strand, spelt out.
LEMMA SendsFacts ==
    ASSUME NEW q \in Seq(Handler), \A i, j \in OnWrites(q) : i = j
    PROVE  /\ Sends(q) \in Seq(Message)
           /\ OnWrites(q) = {} =>
                Len(Sends(q)) = Len(q) /\ \A i \in 1..Len(q) : Sends(q)[i] = q[i].message
           /\ \A k \in OnWrites(q) :
                /\ Len(Sends(q)) = Len(q) - 1
                /\ \A i \in 1..(Len(q) - 1) : Sends(q)[i] = q[IF k <= i THEN i + 1 ELSE i].message
<1>0. Len(q) \in Nat
  BY LenProperties
<1>1. CASE OnWrites(q) = {}
  <2>1. Sends(q) = [i \in 1..Len(q) |-> q[i].message]
    <3>1. Len(q) - Cardinality(OnWrites(q)) = Len(q)
      <4>1. Cardinality(OnWrites(q)) = 0
        BY <1>1, FS_EmptySet
      <4> QED BY <1>0, <4>1
    <3>2. \A i : (IF \E k \in OnWrites(q) : k <= i THEN i + 1 ELSE i) = i
      BY <1>1
    <3> QED BY <3>1, <3>2 DEF Sends
  <2>2. \A i \in 1..Len(q) : q[i].message \in Message
    BY <1>1, OnWritesFacts
  <2> QED BY <1>0, <1>1, <2>1, <2>2
<1>2. ASSUME NEW k \in OnWrites(q)
      PROVE  /\ Sends(q) \in Seq(Message)
             /\ Len(Sends(q)) = Len(q) - 1
             /\ \A i \in 1..(Len(q) - 1) : Sends(q)[i] = q[IF k <= i THEN i + 1 ELSE i].message
  <2>1. k \in 1..Len(q) /\ OnWrites(q) = {k} /\ Cardinality(OnWrites(q)) = 1
    BY <1>2, OnWritesFacts
  <2>2. Sends(q) = [i \in 1..(Len(q) - 1) |-> q[IF k <= i THEN i + 1 ELSE i].message]
    BY <2>1 DEF Sends
  <2>3. \A i \in 1..(Len(q) - 1) : q[IF k <= i THEN i + 1 ELSE i].message \in Message
    <3>1. \A i \in 1..(Len(q) - 1) : (IF k <= i THEN i + 1 ELSE i) \in 1..Len(q) \ {k}
      BY <1>0, <2>1
    <3> QED BY <2>1, <3>1, OnWritesFacts
  <2>4. Len(q) - 1 \in Nat
    BY <1>0, <2>1
  <2> QED BY <2>2, <2>3, <2>4
<1> QED BY <1>1, <1>2

\* Two sequences of messages are the same if they agree everywhere.
LEMMA SameSends ==
    ASSUME NEW a \in Seq(Message), NEW b \in Seq(Message), Len(a) = Len(b),
           \A i \in 1..Len(a) : a[i] = b[i]
    PROVE  a = b
  BY SeqEqual

\* A send that is posted comes last.
LEMMA PostSend ==
    ASSUME NEW q \in Seq(Handler), \A i, j \in OnWrites(q) : i = j, NEW m \in Message
    PROVE  /\ Append(q, DoSendOf(m)) \in Seq(Handler)
           /\ OnWrites(Append(q, DoSendOf(m))) = OnWrites(q)
           /\ \A i \in OnWrites(q) : Append(q, DoSendOf(m))[i] = q[i]
           /\ Sends(Append(q, DoSendOf(m))) = Append(Sends(q), m)
<1> DEFINE p == Append(q, DoSendOf(m))
<1>1. /\ Len(q) \in Nat /\ p \in Seq(Handler) /\ Len(p) = Len(q) + 1
      /\ \A i \in 1..Len(q) : p[i] = q[i]
      /\ p[Len(q) + 1] = DoSendOf(m)
  BY HandlerFacts, LenProperties, AppendProperties
<1> HIDE DEF p
<1>2. DoSendOf(m).run = "do_send" /\ DoSendOf(m).message = m
  BY HandlerFacts
<1>3. OnWrites(p) = OnWrites(q)
  BY <1>1, <1>2 DEF OnWrites
<1>4. Sends(q) \in Seq(Message) /\ Sends(p) \in Seq(Message)
  BY <1>1, <1>3, SendsFacts
<1>5. /\ Append(Sends(q), m) \in Seq(Message)
      /\ Len(Append(Sends(q), m)) = Len(Sends(q)) + 1
      /\ \A i \in 1..Len(Sends(q)) : Append(Sends(q), m)[i] = Sends(q)[i]
      /\ Append(Sends(q), m)[Len(Sends(q)) + 1] = m
  BY <1>4, AppendProperties
<1>6. Sends(p) = Append(Sends(q), m)
  <2>1. CASE OnWrites(q) = {}
    <3>1. /\ Len(Sends(q)) = Len(q) /\ \A i \in 1..Len(q) : Sends(q)[i] = q[i].message
          /\ Len(Sends(p)) = Len(p) /\ \A i \in 1..Len(p) : Sends(p)[i] = p[i].message
      BY <1>1, <1>3, <2>1, SendsFacts
    <3>2. \A i \in 1..Len(Sends(p)) : Sends(p)[i] = Append(Sends(q), m)[i]
      BY <1>1, <1>2, <1>5, <3>1
    <3> QED BY <1>1, <1>4, <1>5, <3>1, <3>2, SameSends
  <2>2. ASSUME NEW k \in OnWrites(q) PROVE Sends(p) = Append(Sends(q), m)
    <3>1. /\ Len(Sends(q)) = Len(q) - 1
          /\ \A i \in 1..(Len(q) - 1) : Sends(q)[i] = q[IF k <= i THEN i + 1 ELSE i].message
          /\ Len(Sends(p)) = Len(p) - 1
          /\ \A i \in 1..(Len(p) - 1) : Sends(p)[i] = p[IF k <= i THEN i + 1 ELSE i].message
      BY <1>1, <1>3, <2>2, SendsFacts
    <3>2. k \in 1..Len(q)
      BY <2>2 DEF OnWrites
    <3>3. ASSUME NEW i \in 1..Len(Sends(p)) PROVE Sends(p)[i] = Append(Sends(q), m)[i]
      <4>0. i \in 1..(Len(p) - 1)
        BY <3>1
      <4>1. CASE i = Len(q)
        BY <1>1, <1>2, <1>5, <3>1, <3>2, <4>0, <4>1
      <4>2. CASE i # Len(q)
        <5>1. i \in 1..(Len(q) - 1) /\ (IF k <= i THEN i + 1 ELSE i) \in 1..Len(q)
          BY <1>1, <3>2, <4>0, <4>2
        <5> QED BY <1>1, <1>5, <3>1, <4>0, <5>1
      <4> QED BY <4>1, <4>2
    <3>4. Len(Sends(p)) = Len(Append(Sends(q), m))
      BY <1>1, <1>5, <3>1
    <3> QED BY <1>4, <1>5, <3>3, <3>4, SameSends
  <2> QED BY <2>1, <2>2
<1> QED BY <1>1, <1>3, <1>6 DEF p, OnWrites

\* An on_write that is posted is no send.
LEMMA PostOnWrite ==
    ASSUME NEW q \in Seq(Handler), OnWrites(q) = {}, NEW ec \in {"ok", "error"}
    PROVE  /\ Append(q, OnWriteOf(ec)) \in Seq(Handler)
           /\ OnWrites(Append(q, OnWriteOf(ec))) = {Len(q) + 1}
           /\ Append(q, OnWriteOf(ec))[Len(q) + 1] = OnWriteOf(ec)
           /\ Sends(Append(q, OnWriteOf(ec))) = Sends(q)
<1> DEFINE p == Append(q, OnWriteOf(ec))
<1>1. /\ Len(q) \in Nat /\ p \in Seq(Handler) /\ Len(p) = Len(q) + 1
      /\ \A i \in 1..Len(q) : p[i] = q[i]
      /\ p[Len(q) + 1] = OnWriteOf(ec)
  BY HandlerFacts, LenProperties, AppendProperties
<1> HIDE DEF p
<1>2. OnWrites(p) = {Len(q) + 1}
  BY <1>1, HandlerFacts DEF OnWrites
<1>3. /\ Sends(q) \in Seq(Message) /\ Sends(p) \in Seq(Message)
      /\ Len(Sends(q)) = Len(q) /\ \A i \in 1..Len(q) : Sends(q)[i] = q[i].message
      /\ Len(Sends(p)) = Len(p) - 1
      /\ \A i \in 1..(Len(p) - 1) : Sends(p)[i] = p[IF Len(q) + 1 <= i THEN i + 1 ELSE i].message
  <2>1. \A i, j \in OnWrites(p) : i = j
    BY <1>2
  <2>2. \A i, j \in OnWrites(q) : i = j
    OBVIOUS
  <2>3. Len(q) + 1 \in OnWrites(p)
    BY <1>2
  <2> QED BY <1>1, <2>1, <2>2, <2>3, SendsFacts
<1>4. \A i \in 1..Len(Sends(p)) : Sends(p)[i] = Sends(q)[i]
  BY <1>1, <1>3
<1>5. Sends(p) = Sends(q)
  BY <1>1, <1>3, <1>4, SameSends
<1> QED BY <1>1, <1>2, <1>5 DEF p

\* A handler that is taken is the first send, or the on_write.
LEMMA TakeHandler ==
    ASSUME NEW q \in Seq(Handler), \A i, j \in OnWrites(q) : i = j, q # <<>>
    PROVE  /\ Head(q) \in Handler /\ Tail(q) \in Seq(Handler)
           /\ Head(q).run = "do_send" =>
                /\ \A i : i \in OnWrites(Tail(q)) <=> i \in Nat /\ i + 1 \in OnWrites(q)
                /\ \A i \in OnWrites(Tail(q)) : Tail(q)[i] = q[i + 1]
                /\ Sends(q) = <<Head(q).message>> \o Sends(Tail(q))
           /\ Head(q).run = "on_write" =>
                OnWrites(q) = {1} /\ OnWrites(Tail(q)) = {} /\ Sends(q) = Sends(Tail(q))
<1> DEFINE p == Tail(q)
<1>1. /\ Len(q) \in Nat /\ Len(q) >= 1
      /\ Head(q) \in Handler /\ p \in Seq(Handler) /\ Len(p) = Len(q) - 1
      /\ Head(q) = q[1]
      /\ \A i \in 1..(Len(q) - 1) : p[i] = q[i + 1]
  BY HeadTailProperties, LenProperties, EmptySeq
<1> HIDE DEF p
<1>2. \A i \in 1..(Len(q) - 1) : i \in OnWrites(p) <=> i + 1 \in OnWrites(q)
  BY <1>1 DEF OnWrites
<1>3. OnWrites(p) \subseteq 1..(Len(q) - 1) /\ OnWrites(q) \subseteq 1..Len(q)
  BY <1>1 DEF OnWrites
<1>4. \A i, j \in OnWrites(p) : i = j
  <2>1. ASSUME NEW i \in OnWrites(p), NEW j \in OnWrites(p) PROVE i = j
    <3>1. i + 1 = j + 1 /\ i \in Int /\ j \in Int
      BY <1>2, <1>3, <2>1
    <3> QED BY <3>1
  <2> QED BY <2>1
<1>5. Sends(q) \in Seq(Message) /\ Sends(p) \in Seq(Message)
  BY <1>1, <1>4, SendsFacts
<1>6. CASE q[1].run = "do_send"
  <2>1. \A i : i \in OnWrites(p) <=> i \in Nat /\ i + 1 \in OnWrites(q)
    <3>1. 1 \notin OnWrites(q)
      BY <1>6 DEF OnWrites
    <3> QED BY <1>1, <1>2, <1>3, <3>1
  <2>2. \A i \in OnWrites(p) : p[i] = q[i + 1]
    BY <1>1, <1>3
  <2>3. Sends(q) = <<q[1].message>> \o Sends(p)
    <3>0. q[1].message \in Message /\ <<q[1].message>> \in Seq(Message) /\ Len(<<q[1].message>>) = 1
          /\ <<q[1].message>>[1] = q[1].message
      <4>1. q[1].message \in Message
        BY <1>1, <1>6, HandlerFacts
      <4> QED BY <4>1
    <3>1. /\ <<q[1].message>> \o Sends(p) \in Seq(Message)
          /\ Len(<<q[1].message>> \o Sends(p)) = Len(Sends(p)) + 1
          /\ (<<q[1].message>> \o Sends(p))[1] = q[1].message
          /\ \A i \in 1..Len(Sends(p)) : (<<q[1].message>> \o Sends(p))[i + 1] = Sends(p)[i]
      BY <1>5, <3>0, ConcatProperties, LenProperties
    <3>2. CASE OnWrites(q) = {}
      <4>1. OnWrites(p) = {}
        BY <2>1, <3>2
      <4>2. /\ Len(Sends(q)) = Len(q) /\ \A i \in 1..Len(q) : Sends(q)[i] = q[i].message
            /\ Len(Sends(p)) = Len(p) /\ \A i \in 1..Len(p) : Sends(p)[i] = p[i].message
        BY <1>1, <3>2, <4>1, SendsFacts
      <4>3. ASSUME NEW i \in 1..Len(Sends(q)) PROVE Sends(q)[i] = (<<q[1].message>> \o Sends(p))[i]
        <5>1. CASE i = 1
          BY <1>1, <3>1, <4>2, <5>1
        <5>2. CASE i # 1
          <6>1. i - 1 \in 1..Len(p) /\ (i - 1) + 1 = i
            BY <1>1, <4>2, <5>2
          <6> QED BY <1>1, <3>1, <4>2, <6>1
        <5> QED BY <5>1, <5>2
      <4>4. Len(Sends(q)) = Len(<<q[1].message>> \o Sends(p))
        BY <1>1, <3>1, <4>2
      <4> QED BY <1>5, <3>1, <4>3, <4>4, SameSends
    <3>3. ASSUME NEW k \in OnWrites(q) PROVE Sends(q) = <<q[1].message>> \o Sends(p)
      <4>1. k \in 2..Len(q)
        <5>1. k \in 1..Len(q) /\ k # 1
          BY <1>3, <1>6, <3>3 DEF OnWrites
        <5> QED BY <5>1
      <4>2. k - 1 \in OnWrites(p)
        BY <1>1, <1>2, <3>3, <4>1
      <4>3. /\ Len(Sends(q)) = Len(q) - 1
            /\ \A i \in 1..(Len(q) - 1) : Sends(q)[i] = q[IF k <= i THEN i + 1 ELSE i].message
            /\ Len(Sends(p)) = Len(p) - 1
            /\ \A i \in 1..(Len(p) - 1) : Sends(p)[i] = p[IF k - 1 <= i THEN i + 1 ELSE i].message
        BY <1>1, <1>4, <3>3, <4>2, SendsFacts
      <4>4. ASSUME NEW i \in 1..Len(Sends(q)) PROVE Sends(q)[i] = (<<q[1].message>> \o Sends(p))[i]
        <5>1. CASE i = 1
          BY <1>1, <3>1, <4>1, <4>3, <5>1
        <5>2. CASE i # 1
          <6>1. i - 1 \in 1..(Len(p) - 1) /\ (i - 1) + 1 = i /\ i \in 1..(Len(q) - 1)
            BY <1>1, <4>3, <5>2
          <6>2. Sends(p)[i - 1] = p[IF k <= i THEN i ELSE i - 1].message
            <7>1. (IF k - 1 <= i - 1 THEN (i - 1) + 1 ELSE i - 1) = (IF k <= i THEN i ELSE i - 1)
              BY <1>1, <4>1, <6>1
            <7>2. Sends(p)[i - 1] = p[IF k - 1 <= i - 1 THEN (i - 1) + 1 ELSE i - 1].message
              BY <4>3, <6>1
            <7> QED BY <7>1, <7>2
          <6>3. /\ (IF k <= i THEN i ELSE i - 1) \in 1..(Len(q) - 1)
                /\ (IF k <= i THEN i ELSE i - 1) + 1 = (IF k <= i THEN i + 1 ELSE i)
            BY <4>1, <5>2, <6>1
          <6>4. p[IF k <= i THEN i ELSE i - 1] = q[IF k <= i THEN i + 1 ELSE i]
            BY <1>1, <6>3
          <6> QED BY <1>1, <3>1, <4>3, <6>1, <6>2, <6>4
        <5> QED BY <5>1, <5>2
      <4>5. Len(Sends(q)) = Len(<<q[1].message>> \o Sends(p))
        BY <1>1, <3>1, <4>3
      <4> QED BY <1>5, <3>1, <4>4, <4>5, SameSends
    <3> QED BY <3>2, <3>3
  <2> QED BY <1>1, <1>6, <2>1, <2>2, <2>3 DEF p
<1>7. CASE q[1].run = "on_write"
  <2>1. 1 \in OnWrites(q)
    BY <1>1, <1>7 DEF OnWrites
  <2>2. OnWrites(q) = {1}
    BY <2>1
  <2>3. OnWrites(p) = {}
    BY <1>1, <1>2, <1>3, <2>2
  <2>4. /\ Len(Sends(q)) = Len(q) - 1
        /\ \A i \in 1..(Len(q) - 1) : Sends(q)[i] = q[IF 1 <= i THEN i + 1 ELSE i].message
        /\ Len(Sends(p)) = Len(p) /\ \A i \in 1..Len(p) : Sends(p)[i] = p[i].message
    BY <1>1, <1>4, <2>1, <2>3, SendsFacts
  <2>5. \A i \in 1..Len(Sends(q)) : Sends(q)[i] = Sends(p)[i]
    BY <1>1, <2>4
  <2>6. Sends(q) = Sends(p)
    BY <1>1, <1>5, <2>4, <2>5, SameSends
  <2> QED BY <1>1, <1>7, <2>2, <2>3, <2>6 DEF p
<1> QED BY <1>1, <1>6, <1>7, HandlerFacts DEF p

-----------------------------------------------------------------------------
(* Messages on the move between sequences *)

LEMMA AppendAtEnd ==
    ASSUME NEW a \in Seq(Message), NEW c \in Seq(Message), NEW m \in Message
    PROVE  a \o Append(c, m) = Append(a \o c, m)
<1>1. /\ Append(c, m) \in Seq(Message) /\ Len(Append(c, m)) = Len(c) + 1
      /\ \A i \in 1..Len(c) : Append(c, m)[i] = c[i]
      /\ Append(c, m)[Len(c) + 1] = m
      /\ Len(a) \in Nat /\ Len(c) \in Nat
  BY AppendProperties, LenProperties
<1>2. /\ a \o c \in Seq(Message) /\ Len(a \o c) = Len(a) + Len(c)
      /\ \A i \in 1..(Len(a) + Len(c)) : (a \o c)[i] = IF i <= Len(a) THEN a[i] ELSE c[i - Len(a)]
  BY ConcatProperties
<1>3. /\ a \o Append(c, m) \in Seq(Message)
      /\ Len(a \o Append(c, m)) = Len(a) + Len(c) + 1
      /\ \A i \in 1..(Len(a) + Len(c) + 1) :
            (a \o Append(c, m))[i] = IF i <= Len(a) THEN a[i] ELSE Append(c, m)[i - Len(a)]
  <2>1. Len(a) + Len(Append(c, m)) = Len(a) + Len(c) + 1
    BY <1>1
  <2> QED BY <1>1, <2>1, ConcatProperties
<1>4. /\ Append(a \o c, m) \in Seq(Message)
      /\ Len(Append(a \o c, m)) = Len(a) + Len(c) + 1
      /\ \A i \in 1..(Len(a) + Len(c)) : Append(a \o c, m)[i] = (a \o c)[i]
      /\ Append(a \o c, m)[Len(a) + Len(c) + 1] = m
  BY <1>2, AppendProperties
<1>5. ASSUME NEW i \in 1..Len(a \o Append(c, m))
      PROVE  (a \o Append(c, m))[i] = Append(a \o c, m)[i]
  <2>0. i \in 1..(Len(a) + Len(c) + 1)
    BY <1>3
  <2>1. CASE i = Len(a) + Len(c) + 1
    BY <1>1, <1>3, <1>4, <2>0, <2>1
  <2>2. CASE i # Len(a) + Len(c) + 1
    <3>1. i \in 1..(Len(a) + Len(c)) /\ (i > Len(a) => i - Len(a) \in 1..Len(c))
      BY <1>1, <2>0, <2>2
    <3>2. Append(a \o c, m)[i] = IF i <= Len(a) THEN a[i] ELSE c[i - Len(a)]
      BY <1>2, <1>4, <3>1
    <3> QED BY <1>1, <1>3, <2>0, <3>1, <3>2
  <2> QED BY <2>1, <2>2
<1> QED BY <1>3, <1>4, <1>5, SameSends

LEMMA FrontStays ==
    ASSUME NEW q \in Seq(Message), NEW m \in Message
    PROVE  /\ Append(q, m) \in Seq(Message) /\ Append(q, m) # <<>>
           /\ q # <<>> => Head(Append(q, m)) = Head(q)
<1>1. /\ Append(q, m) \in Seq(Message) /\ Len(Append(q, m)) = Len(q) + 1 /\ Len(q) \in Nat
      /\ \A i \in 1..Len(q) : Append(q, m)[i] = q[i]
  BY AppendProperties, LenProperties
<1>2. Append(q, m) # <<>>
  BY <1>1, EmptySeq
<1>3. Head(Append(q, m)) = Append(q, m)[1]
  BY <1>1, <1>2
<1>4. CASE q # <<>>
  <2>1. Len(q) >= 1 /\ Head(q) = q[1]
    BY <1>1, <1>4, EmptySeq
  <2> QED BY <1>1, <1>2, <1>3, <2>1
<1> QED BY <1>1, <1>2, <1>4

\* do_send: from a thread to the end of the queue
LEMMA Push ==
    ASSUME NEW a \in Seq(Message), NEW q \in Seq(Message), NEW r \in Seq(Message), NEW m \in Message
    PROVE  (a \o q) \o (<<m>> \o r) = (a \o Append(q, m)) \o (<<>> \o r)
<1>1. <<m>> \in Seq(Message) /\ a \o q \in Seq(Message) /\ <<>> \in Seq(Message)
  BY ConcatProperties
<1>2. (a \o q) \o (<<m>> \o r) = ((a \o q) \o <<m>>) \o r
  BY <1>1, ConcatAssociative
<1>3. (a \o q) \o <<m>> = a \o Append(q, m)
  <2>1. <<m>> = Append(<<>>, m)
    OBVIOUS
  <2>2. (a \o q) \o Append(<<>>, m) = Append((a \o q) \o <<>>, m)
    BY <1>1, AppendAtEnd
  <2>3. (a \o q) \o <<>> = a \o q
    BY <1>1, ConcatEmptySeq
  <2>4. a \o Append(q, m) = Append(a \o q, m)
    BY AppendAtEnd
  <2> QED BY <2>1, <2>2, <2>3, <2>4
<1>4. <<>> \o r = r
  BY ConcatEmptySeq
<1> QED BY <1>2, <1>3, <1>4

\* on_write: from the front of the queue
LEMMA Pop ==
    ASSUME NEW a \in Seq(Message), NEW q \in Seq(Message), q # <<>>
    PROVE  /\ Head(q) \in Message /\ Tail(q) \in Seq(Message)
           /\ Append(a, Head(q)) \in Seq(Message)
           /\ a \o q = Append(a, Head(q)) \o Tail(q)
<1>1. /\ Head(q) \in Message /\ Tail(q) \in Seq(Message) /\ <<Head(q)>> \in Seq(Message)
      /\ Append(a, Head(q)) \in Seq(Message)
  BY HeadTailProperties, AppendProperties
<1>2. q = <<Head(q)>> \o Tail(q)
  <2>1. /\ Len(q) \in Nat /\ Len(q) >= 1 /\ Len(Tail(q)) = Len(q) - 1 /\ Head(q) = q[1]
        /\ \A i \in 1..(Len(q) - 1) : Tail(q)[i] = q[i + 1]
    BY HeadTailProperties, LenProperties, EmptySeq
  <2>2. /\ <<Head(q)>> \o Tail(q) \in Seq(Message)
        /\ Len(<<Head(q)>> \o Tail(q)) = Len(q)
        /\ \A i \in 1..Len(q) :
              (<<Head(q)>> \o Tail(q))[i] = IF i <= 1 THEN <<Head(q)>>[i] ELSE Tail(q)[i - 1]
    <3>1. Len(<<Head(q)>>) = 1
      OBVIOUS
    <3>2. Len(<<Head(q)>>) + Len(Tail(q)) = Len(q)
      BY <2>1, <3>1
    <3> QED BY <1>1, <3>1, <3>2, ConcatProperties
  <2>3. ASSUME NEW i \in 1..Len(q) PROVE q[i] = (<<Head(q)>> \o Tail(q))[i]
    <3>1. CASE i = 1
      BY <2>1, <2>2, <3>1
    <3>2. CASE i # 1
      <4>1. i - 1 \in 1..(Len(q) - 1) /\ (i - 1) + 1 = i
        BY <2>1, <3>2
      <4> QED BY <2>1, <2>2, <4>1
    <3> QED BY <3>1, <3>2
  <2> QED BY <2>2, <2>3, SameSends
<1>3. a \o (<<Head(q)>> \o Tail(q)) = (a \o <<Head(q)>>) \o Tail(q)
  BY <1>1, ConcatAssociative
<1>4. a \o <<Head(q)>> = Append(a, Head(q))
  <2>1. <<Head(q)>> = Append(<<>>, Head(q)) /\ <<>> \in Seq(Message)
    OBVIOUS
  <2>2. a \o Append(<<>>, Head(q)) = Append(a \o <<>>, Head(q))
    BY <1>1, <2>1, AppendAtEnd
  <2> QED BY <2>1, <2>2, ConcatEmptySeq
<1> QED BY <1>1, <1>2, <1>3, <1>4

-----------------------------------------------------------------------------
(* Tasks *)

LEMMA TaskFacts ==
    ASSUME TypeOK, NEW t \in IoThread
    PROVE  /\ \A s : Serves(t, s) <=> task[t].run = "handler" /\ task[t].session = s
           /\ \A s, n : Runs(t, s, n) <=> Serves(t, s) /\ task[t].handler.run = n
           /\ \A s : Serves(t, s) => task[t].handler \in Handler /\ s \in Session
           /\ task[t] = Idle <=> task[t].run # "handler"
           /\ task[t] # Idle => task[t] \in Task
<1>1. task[t] = Idle \/ task[t] \in Task
  BY DEF TypeOK
<1>2. Idle.run = "idle"
  BY DEF Idle
<1>3. task[t] \in Task => task[t].run = "handler" /\ task[t].session \in Session /\ task[t].handler \in Handler
  BY DEF Task
<1> QED BY <1>1, <1>2, <1>3 DEF Serves, Runs

\* what a session's threads are up to, when one of them is known
LEMMA ServedBy ==
    ASSUME TypeOK, StrandInv, NEW s \in Session, NEW t \in IoThread, Serves(t, s)
    PROVE  /\ Running(s) = IF task[t].handler.run = "on_write" THEN {t} ELSE {}
           /\ InDoSend(s) = IF task[t].handler.run = "do_send" /\ mutex[s] # t THEN {t} ELSE {}
<1>1. \A u \in IoThread : Serves(u, s) <=> u = t
  BY DEF StrandInv
<1>2. \A n : \A u \in IoThread : Runs(u, s, n) <=> u = t /\ task[t].handler.run = n
  BY <1>1, TaskFacts
<1> QED BY <1>2 DEF Running, InDoSend

LEMMA ServedByNobody ==
    ASSUME TypeOK, NEW s \in Session, \A t \in IoThread : ~Serves(t, s)
    PROVE  Running(s) = {} /\ InDoSend(s) = {}
<1>1. \A n : \A u \in IoThread : ~Runs(u, s, n)
  BY TaskFacts
<1> QED BY <1>1 DEF Running, InDoSend

LEMMA BeingPushedFacts ==
    ASSUME TypeOK, NEW s \in Session
    PROVE  /\ InDoSend(s) = {} => BeingPushed(s) = <<>>
           /\ \A t : InDoSend(s) = {t} =>
                BeingPushed(s) = <<task[t].handler.message>> /\ task[t].handler.message \in Message
           /\ BeingPushed(s) \in Seq(Message)
<1>1. ASSUME NEW t \in InDoSend(s) PROVE task[t].handler.message \in Message
  <2>1. t \in IoThread /\ Runs(t, s, "do_send")
    BY DEF InDoSend
  <2>2. task[t].handler \in Handler /\ task[t].handler.run = "do_send"
    BY <2>1, TaskFacts
  <2> QED BY <2>2, HandlerFacts
<1>2. CASE InDoSend(s) = {}
  BY <1>2 DEF BeingPushed
<1>3. CASE InDoSend(s) # {}
  <2> DEFINE c == CHOOSE t \in InDoSend(s) : TRUE
  <2>1. c \in InDoSend(s)
    BY <1>3
  <2>2. BeingPushed(s) = <<task[c].handler.message>>
    BY <1>3 DEF BeingPushed
  <2> HIDE DEF c
  <2>3. task[c].handler.message \in Message
    BY <1>1, <2>1
  <2> QED BY <1>1, <1>3, <2>1, <2>2, <2>3
<1> QED BY <1>2, <1>3

-----------------------------------------------------------------------------
(* Steps *)

\* A session is as it was if no step of it was taken.
LEMMA OtherSession ==
    ASSUME IInv, TypeOK', NEW u \in Session,
           strand'[u] = strand[u], mutex'[u] = mutex[u], send_queue'[u] = send_queue[u],
           writing'[u] = writing[u], delivered'[u] = delivered[u], sent'[u] = sent[u],
           popped'[u] = popped[u],
           \A t \in IoThread : task'[t] = task[t] \/ (~Serves(t, u) /\ ~Serves(t, u)')
    PROVE  SessionInv(u)'
<1>1. Waiting(u)' = Waiting(u)
  BY DEF Waiting
<1>2. ASSUME NEW t \in IoThread, NEW n PROVE Runs(t, u, n)' <=> Runs(t, u, n)
  <2>1. CASE task'[t] = task[t]
    BY <2>1 DEF Runs
  <2>2. CASE ~Serves(t, u) /\ ~Serves(t, u)'
    <3>1. Idle.run # "handler"
      BY DEF Idle
    <3> QED BY <2>2, <3>1 DEF Runs, Serves
  <2> QED BY <2>1, <2>2
<1>3. Running(u)' = Running(u) /\ InDoSend(u)' = InDoSend(u)
  BY <1>2 DEF Running, InDoSend
<1>4. \A t \in Running(u) \union InDoSend(u) : task'[t] = task[t]
  <2>1. ASSUME NEW t \in Running(u) \union InDoSend(u) PROVE Serves(t, u) /\ t \in IoThread
    BY TaskFacts DEF IInv, Running, InDoSend
  <2> QED BY <2>1
<1>5. WriteInv(u)'
  BY <1>1, <1>3 DEF IInv, SessionInv, WriteInv
<1>6. Written(u)' <=> Written(u)
  BY <1>1, <1>3, <1>4 DEF Written
<1>7. DeliveredInv(u)'
  BY <1>6 DEF IInv, SessionInv, DeliveredInv
<1>8. BeingPushed(u)' = BeingPushed(u)
  <2>1. CASE InDoSend(u) = {}
    BY <1>3, <2>1 DEF BeingPushed
  <2>2. CASE InDoSend(u) # {}
    <3>1. (CHOOSE t \in InDoSend(u) : TRUE) \in InDoSend(u)
      BY <2>2
    <3> QED BY <1>3, <1>4, <2>2, <3>1 DEF BeingPushed
  <2> QED BY <2>1, <2>2
<1>9. SentInv(u)'
  BY <1>8 DEF IInv, SessionInv, SentInv
<1> QED BY <1>5, <1>7, <1>9 DEF SessionInv

\* What the steps of a session leave alone: nobody else's handler changes.
LEMMA StepOf ==
    ASSUME IInv, TypeOK', NEW s \in Session,
           \A u \in Session \ {s} :
               /\ strand'[u] = strand[u] /\ mutex'[u] = mutex[u] /\ send_queue'[u] = send_queue[u]
               /\ writing'[u] = writing[u] /\ delivered'[u] = delivered[u] /\ sent'[u] = sent[u]
               /\ popped'[u] = popped[u],
           \A t \in IoThread :
               \/ task'[t] = task[t]
               \/ /\ task[t] = Idle \/ Serves(t, s)
                  /\ task'[t] = Idle \/ Serves(t, s)',
           StrandInv', SessionInv(s)'
    PROVE  IInv'
<1>1. ASSUME NEW u \in Session \ {s} PROVE SessionInv(u)'
  <2>1. \A t \in IoThread : task'[t] = task[t] \/ (~Serves(t, u) /\ ~Serves(t, u)')
    BY DEF Serves
  <2> QED BY <2>1, OtherSession
<1> QED BY <1>1 DEF IInv

LEMMA DoSendIInv ==
    ASSUME IInv, NEW s \in Session, NEW t \in IoThread, DoSend(t, s)
    PROVE  IInv'
<1> DEFINE m == task[t].handler.message
<1>0. TypeOK /\ StrandInv /\ SessionInv(s)
  BY DEF IInv
<1>1. /\ Serves(t, s) /\ task[t].handler.run = "do_send" /\ mutex[s] # t /\ m \in Message
      /\ mutex[s] = Free
  <2>1. Runs(t, s, "do_send") /\ mutex[s] = Free
    BY DEF DoSend
  <2>2. mutex[s] # t
    BY <2>1, ThreadAssumption
  <2>3. task[t].handler \in Handler /\ Serves(t, s) /\ task[t].handler.run = "do_send"
    BY <1>0, <2>1, TaskFacts
  <2> QED BY <2>1, <2>2, <2>3, HandlerFacts
<1>2. Running(s) = {} /\ InDoSend(s) = {t}
  BY <1>0, <1>1, ServedBy
<1>3. /\ send_queue' = [send_queue EXCEPT ![s] = Append(@, m)]
      /\ writing' = [writing EXCEPT ![s] = @ \/ send_queue[s] = <<>>]
      /\ task' = [task EXCEPT ![t] = Idle]
      /\ UNCHANGED <<listening, sessions, link, strand, mutex, delivered, broadcasts, sent, popped>>
  BY DEF DoSend, sessionVars, historyVars
<1> HIDE DEF m
<1>4. /\ popped[s] \in Seq(Message) /\ send_queue[s] \in Seq(Message)
      /\ Append(send_queue[s], m) \in Seq(Message)
      /\ send_queue'[s] = Append(send_queue[s], m) /\ send_queue'[s] # <<>>
      /\ task'[t] = Idle
      /\ send_queue[s] # <<>> => Head(send_queue'[s]) = Head(send_queue[s])
  <2>1. popped[s] \in Seq(Message) /\ send_queue[s] \in Seq(Message)
    BY <1>0 DEF TypeOK, Message
  <2>2. send_queue'[s] = Append(send_queue[s], m) /\ task'[t] = Idle
    BY <1>0, <1>3 DEF TypeOK
  <2>3. /\ Append(send_queue[s], m) \in Seq(Message)
        /\ Append(send_queue[s], m) # <<>>
        /\ send_queue[s] # <<>> => Head(Append(send_queue[s], m)) = Head(send_queue[s])
    BY <1>1, <2>1, FrontStays
  <2> QED BY <2>1, <2>2, <2>3
<1>5. TypeOK'
  <2>1. send_queue' \in [Session -> Seq(1..MaxBroadcast)]
    BY <1>0, <1>3, <1>4 DEF TypeOK, Message
  <2>2. writing' \in [Session -> BOOLEAN]
    BY <1>0, <1>3, Zenon DEF TypeOK
  <2>3. task' \in [IoThread -> {Idle} \union Task]
    BY <1>0, <1>3 DEF TypeOK
  <2> QED BY <1>0, <1>3, <2>1, <2>2, <2>3 DEF TypeOK
<1>6. \A u \in IoThread \ {t} : task'[u] = task[u]
  BY <1>0, <1>3 DEF TypeOK
<1>7. \A v \in Session : ~Serves(t, v)'
  BY <1>4 DEF Serves
<1>8. StrandInv'
  <2>1. ASSUME NEW u \in IoThread, NEW w \in IoThread, NEW v \in Session, Serves(u, v)', Serves(w, v)'
        PROVE  u = w
    BY <1>0, <1>6, <1>7, <2>1 DEF StrandInv, Serves
  <2>2. ASSUME NEW v \in Session, mutex'[v] # Free PROVE Runs(mutex[v], v, "do_send")'
    <3>1. Runs(mutex[v], v, "do_send") /\ mutex[v] \in IoThread /\ mutex'[v] = mutex[v]
      BY <1>0, <1>3, <2>2 DEF StrandInv, TypeOK
    <3>2. v # s
      BY <1>1, <1>3, <2>2
    <3>3. mutex[v] # t
      BY <1>0, <1>1, <3>1, <3>2, TaskFacts DEF Serves
    <3> QED BY <1>6, <3>1, <3>3 DEF Runs
  <2> QED BY <2>1, <2>2 DEF StrandInv
<1>9. SessionInv(s)'
  <2>1. /\ Waiting(s)' = Waiting(s) /\ Running(s)' = {} /\ InDoSend(s)' = {}
    <3>1. \A u \in IoThread : ~Serves(u, s)'
      BY <1>0, <1>1, <1>4, <1>6 DEF StrandInv, Serves
    <3>2. Idle.run # "handler"
      BY DEF Idle
    <3>3. \A n : \A u \in IoThread : ~Runs(u, s, n)'
      BY <3>1, <3>2 DEF Serves, Runs
    <3> QED BY <1>3, <3>3 DEF Waiting, Running, InDoSend
  <2>2. writing'[s] <=> writing[s] \/ send_queue[s] = <<>>
    BY <1>0, <1>3, Zenon DEF TypeOK
  <2>3. WriteInv(s)'
    BY <1>0, <1>2, <1>4, <2>1, <2>2 DEF SessionInv, WriteInv
  <2>4. DeliveredInv(s)'
    <3>1. Written(s)' <=> Written(s)
      BY <1>2, <1>3, <2>1 DEF Written
    <3>2. Written(s) => send_queue[s] # <<>>
      BY <1>0 DEF SessionInv, WriteInv, Written
    <3> QED BY <1>0, <1>3, <1>4, <3>1, <3>2 DEF SessionInv, DeliveredInv
  <2>5. SentInv(s)'
    <3>1. BeingPushed(s) = <<m>>
      BY <1>0, <1>2, BeingPushedFacts DEF m
    <3>2. BeingPushed(s)' = <<>>
      BY <2>1 DEF BeingPushed
    <3>3. Sends(strand[s]) \in Seq(Message)
      <4>1. strand[s] \in Seq(Handler)
        BY <1>0 DEF TypeOK
      <4> QED BY <1>0, <4>1, SendsFacts DEF SessionInv, WriteInv, Waiting
    <3>4. (popped[s] \o send_queue[s]) \o (<<m>> \o Sends(strand[s]))
            = (popped[s] \o Append(send_queue[s], m)) \o (<<>> \o Sends(strand[s]))
      <4>1. m \in Message
        BY <1>1
      <4>2. popped[s] \in Seq(Message) /\ send_queue[s] \in Seq(Message)
        BY <1>4
      <4> QED BY <3>3, <4>1, <4>2, Push
    <3>5. sent'[s] = sent[s] /\ popped'[s] = popped[s] /\ strand'[s] = strand[s]
      BY <1>3
    <3> QED BY <1>0, <1>4, <3>1, <3>2, <3>4, <3>5 DEF SessionInv, SentInv
  <2> QED BY <2>3, <2>4, <2>5 DEF SessionInv
<1>10. \A u \in Session \ {s} :
           /\ strand'[u] = strand[u] /\ mutex'[u] = mutex[u] /\ send_queue'[u] = send_queue[u]
           /\ writing'[u] = writing[u] /\ delivered'[u] = delivered[u] /\ sent'[u] = sent[u]
           /\ popped'[u] = popped[u]
  BY <1>0, <1>3 DEF TypeOK
<1> QED BY <1>1, <1>4, <1>5, <1>6, <1>8, <1>9, <1>10, StepOf

LEMMA OnWriteErrorIInv ==
    ASSUME IInv, NEW s \in Session, NEW t \in IoThread, OnWriteError(t, s)
    PROVE  IInv'
<1>0. TypeOK /\ StrandInv /\ SessionInv(s)
  BY DEF IInv
<1>1. Serves(t, s) /\ task[t].handler.run = "on_write" /\ task[t].handler.ec = "error"
  BY <1>0, TaskFacts DEF OnWriteError
<1>2. Running(s) = {t} /\ InDoSend(s) = {}
  BY <1>0, <1>1, ServedBy
<1>3. /\ task' = [task EXCEPT ![t] = Idle]
      /\ UNCHANGED <<listening, sessions, link, strand, mutex, send_queue, writing, delivered,
                     broadcasts, sent, popped>>
  BY DEF OnWriteError, sessionVars, queueVars, historyVars
<1>4. task'[t] = Idle /\ \A u \in IoThread \ {t} : task'[u] = task[u]
  BY <1>0, <1>3 DEF TypeOK
<1>5. TypeOK'
  BY <1>0, <1>3 DEF TypeOK
<1>6. StrandInv'
  <2>1. \A v \in Session : ~Serves(t, v)'
    BY <1>4 DEF Serves
  <2>2. ASSUME NEW u \in IoThread, NEW w \in IoThread, NEW v \in Session, Serves(u, v)', Serves(w, v)'
        PROVE  u = w
    BY <1>0, <1>4, <2>1, <2>2 DEF StrandInv, Serves
  <2>3. ASSUME NEW v \in Session, mutex'[v] # Free PROVE Runs(mutex[v], v, "do_send")'
    <3>1. Runs(mutex[v], v, "do_send") /\ mutex[v] \in IoThread /\ mutex'[v] = mutex[v]
      BY <1>0, <1>3, <2>3 DEF StrandInv, TypeOK
    <3>2. mutex[v] # t
      BY <1>0, <1>1, <3>1, TaskFacts
    <3> QED BY <1>4, <3>1, <3>2 DEF Runs
  <2> QED BY <2>2, <2>3 DEF StrandInv
<1>7. SessionInv(s)'
  <2>1. /\ Waiting(s)' = Waiting(s) /\ Running(s)' = {} /\ InDoSend(s)' = {}
    <3>1. \A u \in IoThread : ~Serves(u, s)'
      BY <1>0, <1>1, <1>4 DEF StrandInv, Serves
    <3>2. Idle.run # "handler"
      BY DEF Idle
    <3>3. \A n : \A u \in IoThread : ~Runs(u, s, n)'
      BY <3>1, <3>2 DEF Serves, Runs
    <3> QED BY <1>3, <3>3 DEF Waiting, Running, InDoSend
  <2>2. Waiting(s) = {}
    BY <1>0, <1>2 DEF SessionInv, WriteInv
  <2>3. WriteInv(s)'
    BY <1>0, <1>3, <2>1, <2>2 DEF SessionInv, WriteInv
  <2>4. ~Written(s) /\ ~Written(s)'
    BY <1>1, <1>2, <2>1, <2>2 DEF Written
  <2>5. DeliveredInv(s)'
    BY <1>0, <1>3, <2>4 DEF SessionInv, DeliveredInv
  <2>6. BeingPushed(s) = <<>> /\ BeingPushed(s)' = <<>>
    BY <1>2, <2>1 DEF BeingPushed
  <2>7. SentInv(s)'
    BY <1>0, <1>3, <2>6 DEF SessionInv, SentInv
  <2> QED BY <2>3, <2>5, <2>7 DEF SessionInv
<1> QED BY <1>1, <1>3, <1>4, <1>5, <1>6, <1>7, StepOf

LEMMA OnWriteIInv ==
    ASSUME IInv, NEW s \in Session, NEW t \in IoThread, OnWrite(t, s)
    PROVE  IInv'
<1> DEFINE q == send_queue[s]
<1>0. TypeOK /\ StrandInv /\ SessionInv(s)
  BY DEF IInv
<1>1. /\ Serves(t, s) /\ task[t].handler.run = "on_write" /\ task[t].handler.ec = "ok"
      /\ mutex[s] = Free /\ task[t] \in Task
  BY <1>0, TaskFacts DEF OnWrite
<1>2. Running(s) = {t} /\ InDoSend(s) = {} /\ Waiting(s) = {} /\ ~writing[s] /\ q # <<>>
  <2>1. Running(s) = {t} /\ InDoSend(s) = {}
    BY <1>0, <1>1, ServedBy
  <2> QED BY <1>0, <2>1 DEF SessionInv, WriteInv
<1>3. /\ send_queue' = [send_queue EXCEPT ![s] = Tail(@)]
      /\ popped' = [popped EXCEPT ![s] = Append(@, Head(q))]
      /\ \/ /\ task' = [task EXCEPT ![t] = Idle]
            /\ mutex' = mutex
         \/ /\ Tail(q) # <<>>
            /\ task' = [task EXCEPT ![t].handler = DoSendOf(q[2])]
            /\ mutex' = [mutex EXCEPT ![s] = t]
      /\ UNCHANGED <<listening, sessions, link, strand, writing, delivered, broadcasts, sent>>
  BY DEF OnWrite, sessionVars
<1>4. /\ popped[s] \in Seq(Message) /\ q \in Seq(Message)
  BY <1>0 DEF TypeOK, Message
<1>5. /\ Head(q) \in Message /\ Tail(q) \in Seq(Message) /\ Append(popped[s], Head(q)) \in Seq(Message)
      /\ popped[s] \o q = Append(popped[s], Head(q)) \o Tail(q)
      /\ send_queue'[s] = Tail(q) /\ popped'[s] = Append(popped[s], Head(q))
  <2>1. send_queue'[s] = Tail(q) /\ popped'[s] = Append(popped[s], Head(q))
    BY <1>0, <1>3 DEF TypeOK
  <2> QED BY <1>2, <1>4, <2>1, Pop
<1>6. \A u \in IoThread \ {t} : task'[u] = task[u]
  BY <1>0, <1>3 DEF TypeOK
<1>7. \/ task'[t] = Idle /\ mutex' = mutex
      \/ /\ task'[t] \in Task /\ task'[t].session = s /\ task'[t].run = "handler"
         /\ task'[t].handler.run = "do_send" /\ mutex' = [mutex EXCEPT ![s] = t]
  <2>1. ASSUME Tail(q) # <<>>, task' = [task EXCEPT ![t].handler = DoSendOf(q[2])]
        PROVE  /\ task'[t] \in Task /\ task'[t].session = s /\ task'[t].run = "handler"
               /\ task'[t].handler.run = "do_send"
    <3>1. 2 \in 1..Len(q)
      BY <1>2, <1>4, <1>5, <2>1, HeadTailProperties, EmptySeq, LenProperties
    <3>2. q[2] \in Message
      BY <1>4, <3>1, ElementOfSeq
    <3>3. task'[t] = [task[t] EXCEPT !.handler = DoSendOf(q[2])]
      BY <1>0, <2>1 DEF TypeOK
    <3>4. DoSendOf(q[2]) \in Handler /\ DoSendOf(q[2]).run = "do_send"
      BY <3>2, HandlerFacts
    <3>5. task[t].session = s /\ task[t].run = "handler"
      BY <1>0, <1>1, TaskFacts
    <3> QED BY <1>1, <3>3, <3>4, <3>5 DEF Task
  <2>2. task' = [task EXCEPT ![t] = Idle] => task'[t] = Idle
    BY <1>0 DEF TypeOK
  <2> QED BY <1>3, <2>1, <2>2
<1>8. TypeOK'
  <2>1. send_queue' \in [Session -> Seq(1..MaxBroadcast)] /\ popped' \in [Session -> Seq(1..MaxBroadcast)]
    BY <1>0, <1>3, <1>5 DEF TypeOK, Message
  <2>2. task' \in [IoThread -> {Idle} \union Task] /\ mutex' \in [Session -> IoThread \union {Free}]
    <3>1. task'[t] \in {Idle} \union Task
      BY <1>7
    <3>2. task' = [task EXCEPT ![t] = task'[t]]
      BY <1>0, <1>3, <3>1 DEF TypeOK
    <3>3. task' \in [IoThread -> {Idle} \union Task]
      BY <1>0, <3>1, <3>2 DEF TypeOK
    <3>4. mutex' \in [Session -> IoThread \union {Free}]
      BY <1>0, <1>7 DEF TypeOK
    <3> QED BY <3>3, <3>4
  <2> QED BY <1>0, <1>3, <2>1, <2>2 DEF TypeOK
<1>9. \A v \in Session : Serves(t, v)' => v = s
  BY <1>7 DEF Serves
<1>10. StrandInv'
  <2>1. ASSUME NEW u \in IoThread, NEW w \in IoThread, NEW v \in Session, Serves(u, v)', Serves(w, v)'
        PROVE  u = w
    <3>1. Serves(u, v) /\ Serves(w, v)
      BY <1>1, <1>6, <1>9, <2>1 DEF Serves
    <3> QED BY <1>0, <3>1 DEF StrandInv
  <2>2. ASSUME NEW v \in Session, mutex'[v] # Free PROVE Runs(mutex[v], v, "do_send")'
    <3>1. CASE v = s
      BY <1>0, <1>1, <1>7, <2>2, <3>1 DEF TypeOK, Runs
    <3>2. CASE v # s
      <4>1. Runs(mutex[v], v, "do_send") /\ mutex[v] \in IoThread /\ mutex'[v] = mutex[v]
        BY <1>0, <1>7, <2>2, <3>2 DEF StrandInv, TypeOK
      <4>2. mutex[v] # t
        BY <1>0, <1>1, <3>2, <4>1, TaskFacts
      <4> QED BY <1>6, <4>1, <4>2 DEF Runs
    <3> QED BY <3>1, <3>2
  <2> QED BY <2>1, <2>2 DEF StrandInv
<1>11. SessionInv(s)'
  <2>1. /\ Waiting(s)' = {} /\ Running(s)' = {} /\ InDoSend(s)' = {}
    <3>1. \A n : \A u \in IoThread \ {t} : ~Runs(u, s, n)'
      <4>1. \A u \in IoThread \ {t} : ~Serves(u, s)
        BY <1>0, <1>1 DEF StrandInv
      <4> QED BY <1>0, <1>6, <4>1, TaskFacts DEF Runs
    <3>2. ~Runs(t, s, "on_write")' /\ (Runs(t, s, "do_send")' => mutex'[s] = t)
      <4>1. Idle.run # "handler"
        BY DEF Idle
      <4> QED BY <1>0, <1>7, <4>1 DEF Runs, TypeOK
    <3> QED BY <1>2, <1>3, <3>1, <3>2 DEF Waiting, Running, InDoSend
  <2>2. WriteInv(s)'
    BY <1>2, <1>3, <2>1 DEF WriteInv
  <2>3. Written(s) /\ ~Written(s)'
    BY <1>1, <1>2, <2>1 DEF Written
  <2>4. DeliveredInv(s)'
    BY <1>0, <1>3, <1>5, <2>3 DEF SessionInv, DeliveredInv
  <2>5. BeingPushed(s) = <<>> /\ BeingPushed(s)' = <<>>
    BY <1>2, <2>1 DEF BeingPushed
  <2>6. SentInv(s)'
    BY <1>0, <1>3, <1>5, <2>5 DEF SessionInv, SentInv
  <2> QED BY <2>2, <2>4, <2>6 DEF SessionInv
<1>12. \A u \in Session \ {s} :
           /\ strand'[u] = strand[u] /\ mutex'[u] = mutex[u] /\ send_queue'[u] = send_queue[u]
           /\ writing'[u] = writing[u] /\ delivered'[u] = delivered[u] /\ sent'[u] = sent[u]
           /\ popped'[u] = popped[u]
  BY <1>0, <1>3 DEF TypeOK
<1>13. task'[t] = Idle \/ Serves(t, s)'
  <2>1. Idle.run # "handler"
    BY DEF Idle
  <2> QED BY <1>7, <2>1 DEF Serves
<1> QED BY <1>1, <1>6, <1>8, <1>10, <1>11, <1>12, <1>13, StepOf

LEMMA RunHandlerIInv ==
    ASSUME IInv, NEW s \in Session, NEW t \in IoThread, RunHandler(t, s)
    PROVE  IInv'
<1> DEFINE q == strand[s]
<1>0. TypeOK /\ StrandInv /\ SessionInv(s)
  BY DEF IInv
<1>1. /\ task' = [task EXCEPT ![t] = [run |-> "handler", session |-> s, handler |-> Head(q)]]
      /\ strand' = [strand EXCEPT ![s] = Tail(@)]
      /\ UNCHANGED <<listening, sessions, link, mutex, send_queue, writing, delivered, broadcasts,
                     sent, popped>>
      /\ task[t] = Idle /\ q # <<>>
      /\ \A u \in IoThread : ~Serves(u, s)
  BY DEF RunHandler, sessionVars, historyVars
<1>2. Running(s) = {} /\ InDoSend(s) = {}
  BY <1>0, <1>1, ServedByNobody
<1>3. mutex[s] = Free
  BY <1>0, <1>1, TaskFacts DEF StrandInv, TypeOK
<1>4. q \in Seq(Handler) /\ \A i, j \in OnWrites(q) : i = j
  BY <1>0 DEF TypeOK, SessionInv, WriteInv, Waiting
<1>5. /\ Head(q) \in Handler /\ Tail(q) \in Seq(Handler)
      /\ Head(q).run = "do_send" =>
            /\ \A i : i \in OnWrites(Tail(q)) <=> i \in Nat /\ i + 1 \in OnWrites(q)
            /\ \A i \in OnWrites(Tail(q)) : Tail(q)[i] = q[i + 1]
            /\ Sends(q) = <<Head(q).message>> \o Sends(Tail(q))
      /\ Head(q).run = "on_write" =>
            OnWrites(q) = {1} /\ OnWrites(Tail(q)) = {} /\ Sends(q) = Sends(Tail(q))
  BY <1>1, <1>4, TakeHandler
<1>6. /\ strand'[s] = Tail(q)
      /\ task'[t] = [run |-> "handler", session |-> s, handler |-> Head(q)]
      /\ \A u \in IoThread \ {t} : task'[u] = task[u]
      /\ \A u \in Session \ {s} : strand'[u] = strand[u]
  BY <1>0, <1>1 DEF TypeOK
<1>7. /\ task'[t] \in Task /\ task'[t].run = "handler" /\ task'[t].session = s
      /\ task'[t].handler = Head(q) /\ task'[t] # Idle
  <2>1. Idle.run # "handler"
    BY DEF Idle
  <2> QED BY <1>5, <1>6, <2>1 DEF Task
<1>8. TypeOK'
  <2>1. strand' \in [Session -> Seq(Handler)]
    BY <1>0, <1>1, <1>5 DEF TypeOK
  <2>2. task' \in [IoThread -> {Idle} \union Task]
    <3>1. task' = [task EXCEPT ![t] = task'[t]]
      BY <1>1, <1>6
    <3> QED BY <1>0, <1>7, <3>1 DEF TypeOK
  <2> QED BY <1>0, <1>1, <2>1, <2>2 DEF TypeOK
<1>9. \A v : Serves(t, v)' <=> v = s
  BY <1>7 DEF Serves
<1>10. StrandInv'
  <2>1. ASSUME NEW u \in IoThread, NEW w \in IoThread, NEW v \in Session, Serves(u, v)', Serves(w, v)'
        PROVE  u = w
    <3>1. \A x \in IoThread \ {t} : Serves(x, v)' <=> Serves(x, v)
      BY <1>6 DEF Serves
    <3>2. CASE v = s
      BY <1>1, <2>1, <3>1, <3>2
    <3>3. CASE v # s
      BY <1>0, <1>9, <2>1, <3>1, <3>3 DEF StrandInv
    <3> QED BY <3>2, <3>3
  <2>2. ASSUME NEW v \in Session, mutex'[v] # Free PROVE Runs(mutex[v], v, "do_send")'
    <3>1. Runs(mutex[v], v, "do_send") /\ mutex[v] \in IoThread /\ mutex'[v] = mutex[v]
      BY <1>0, <1>1, <2>2 DEF StrandInv, TypeOK
    <3>2. mutex[v] # t
      BY <1>0, <1>1, <3>1, TaskFacts DEF Serves
    <3> QED BY <1>6, <3>1, <3>2 DEF Runs
  <2> QED BY <2>1, <2>2 DEF StrandInv
<1>11. SessionInv(s)'
  <2>1. ASSUME NEW n PROVE \A u \in IoThread : Runs(u, s, n)' <=> u = t /\ Head(q).run = n
    <3>1. \A u \in IoThread \ {t} : ~Runs(u, s, n)'
      BY <1>0, <1>1, <1>6, TaskFacts DEF Runs
    <3> QED BY <1>7, <3>1 DEF Runs
  <2>2. mutex'[s] # t
    BY <1>1, <1>3, ThreadAssumption
  <2>3. /\ Running(s)' = IF Head(q).run = "on_write" THEN {t} ELSE {}
        /\ InDoSend(s)' = IF Head(q).run = "do_send" THEN {t} ELSE {}
    BY <2>1, <2>2 DEF Running, InDoSend
  <2>4. /\ Waiting(s) = OnWrites(q) /\ Waiting(s)' = OnWrites(Tail(q))
        /\ writing'[s] = writing[s] /\ send_queue'[s] = send_queue[s] /\ popped'[s] = popped[s]
        /\ sent'[s] = sent[s] /\ delivered'[s] = delivered[s]
    BY <1>1, <1>6 DEF Waiting
  <2>5. BeingPushed(s) = <<>>
    BY <1>2 DEF BeingPushed
  <2>6. CASE Head(q).run = "do_send"
    <3>1. Running(s)' = {} /\ InDoSend(s)' = {t}
      BY <2>3, <2>6
    <3>2. WriteInv(s)'
      <4>1. \A i \in OnWrites(Tail(q)) : i \in Nat /\ i + 1 \in OnWrites(q)
        BY <1>5, <2>6
      <4>2. \A i, j \in OnWrites(Tail(q)) : i = j
        <5>1. ASSUME NEW i \in OnWrites(Tail(q)), NEW j \in OnWrites(Tail(q)) PROVE i = j
          <6>1. i + 1 = j + 1 /\ i \in Nat /\ j \in Nat
            BY <1>4, <4>1
          <6> QED BY <6>1
        <5> QED BY <5>1
      <4>3. OnWrites(Tail(q)) # {} => OnWrites(q) # {}
        BY <4>1
      <4> QED BY <1>0, <1>2, <2>4, <3>1, <4>2, <4>3 DEF SessionInv, WriteInv
    <3>3. Written(s)' <=> Written(s)
      <4>1. OnWrites(q) \subseteq {i \in 1..Len(q) : i # 1}
        BY <1>4, <1>1, <2>6 DEF OnWrites
      <4>2. \A i \in OnWrites(q) : i - 1 \in Nat /\ (i - 1) + 1 = i /\ i - 1 \in OnWrites(Tail(q))
        <5>1. ASSUME NEW i \in OnWrites(q)
              PROVE  i - 1 \in Nat /\ (i - 1) + 1 = i
          BY <4>1
        <5> QED BY <1>5, <2>6, <5>1
      <4>3. (\E i \in OnWrites(Tail(q)) : Tail(q)[i].ec = "ok") <=> (\E i \in OnWrites(q) : q[i].ec = "ok")
        BY <1>5, <2>6, <4>2
      <4>4. Written(s) <=> \E i \in OnWrites(q) : q[i].ec = "ok"
        BY <1>2, <2>4 DEF Written
      <4>5. Written(s)' <=> \E i \in OnWrites(Tail(q)) : Tail(q)[i].ec = "ok"
        BY <1>6, <2>4, <3>1 DEF Written
      <4> QED BY <4>3, <4>4, <4>5
    <3>4. BeingPushed(s)' = <<Head(q).message>>
      <4>1. (CHOOSE u \in {t} : TRUE) = t
        OBVIOUS
      <4> QED BY <1>7, <3>1, <4>1 DEF BeingPushed
    <3>5. <<>> \o Sends(q) = Sends(q)
      BY <1>4, SendsFacts, ConcatEmptySeq
    <3>6. SentInv(s)'
      BY <1>0, <1>5, <1>6, <2>4, <2>5, <2>6, <3>4, <3>5 DEF SessionInv, SentInv
    <3>7. DeliveredInv(s)'
      BY <1>0, <2>4, <3>3 DEF SessionInv, DeliveredInv
    <3> QED BY <3>2, <3>6, <3>7 DEF SessionInv
  <2>7. CASE Head(q).run = "on_write"
    <3>1. /\ Running(s)' = {t} /\ InDoSend(s)' = {} /\ Waiting(s) = {1} /\ Waiting(s)' = {}
          /\ Sends(q) = Sends(Tail(q))
      BY <1>5, <2>3, <2>4, <2>7
    <3>2. WriteInv(s)'
      BY <1>0, <2>4, <3>1 DEF SessionInv, WriteInv
    <3>3. Written(s)' <=> Written(s)
      <4>1. Head(q) = q[1]
        BY <1>1, <1>4
      <4> QED BY <1>2, <1>7, <3>1, <4>1 DEF Written
    <3>4. BeingPushed(s)' = <<>>
      BY <3>1 DEF BeingPushed
    <3>5. SentInv(s)'
      BY <1>0, <1>6, <2>4, <2>5, <3>1, <3>4 DEF SessionInv, SentInv
    <3>6. DeliveredInv(s)'
      BY <1>0, <2>4, <3>3 DEF SessionInv, DeliveredInv
    <3> QED BY <3>2, <3>5, <3>6 DEF SessionInv
  <2> QED BY <1>5, <2>6, <2>7, HandlerFacts
<1> QED BY <1>1, <1>6, <1>8, <1>9, <1>10, <1>11, StepOf

\* A write comes to an end: its on_write waits on the strand.
LEMMA WriteEndsIInv ==
    ASSUME IInv, NEW s \in Session, WriteCompletes(s) \/ WriteFails(s)
    PROVE  IInv'
<1>0. TypeOK /\ StrandInv /\ SessionInv(s)
  BY DEF IInv
<1>1. PICK ec \in {"ok", "error"} :
        /\ strand' = [strand EXCEPT ![s] = Append(@, OnWriteOf(ec))]
        /\ delivered' = [delivered EXCEPT ![s] = IF ec = "ok" THEN Append(@, Head(send_queue[s])) ELSE @]
  <2>1. CASE WriteCompletes(s)
    BY <2>1 DEF WriteCompletes
  <2>2. CASE WriteFails(s)
    <3>1. delivered' = [delivered EXCEPT ![s] = @]
      BY <1>0, <2>2 DEF WriteFails, TypeOK
    <3> QED BY <2>2, <3>1 DEF WriteFails
  <2> QED BY <2>1, <2>2
<1>2. /\ writing[s] = TRUE
      /\ writing' = [writing EXCEPT ![s] = FALSE]
      /\ UNCHANGED <<listening, sessions, link, task, mutex, send_queue, broadcasts, sent, popped>>
  <2>1. writing[s] = TRUE
    BY <1>0, Zenon DEF WriteCompletes, WriteFails, TypeOK
  <2> QED BY <2>1 DEF WriteCompletes, WriteFails, sessionVars, historyVars
<1>3. Waiting(s) = {} /\ Running(s) = {} /\ send_queue[s] # <<>>
  BY <1>0, <1>2 DEF SessionInv, WriteInv
<1>4. /\ strand[s] \in Seq(Handler) /\ popped[s] \in Seq(Message) /\ send_queue[s] \in Seq(Message)
      /\ delivered[s] = popped[s]
  <2>1. ~Written(s)
    BY <1>3 DEF Written
  <2> QED BY <1>0, <2>1 DEF TypeOK, Message, SessionInv, DeliveredInv
<1>5. /\ strand'[s] \in Seq(Handler) /\ Waiting(s)' = {Len(strand[s]) + 1}
      /\ strand'[s][Len(strand[s]) + 1] = OnWriteOf(ec)
      /\ Sends(strand'[s]) = Sends(strand[s])
  <2>1. strand'[s] = Append(strand[s], OnWriteOf(ec))
    BY <1>0, <1>1 DEF TypeOK
  <2> QED BY <1>3, <1>4, <2>1, PostOnWrite DEF Waiting
<1>6. Append(popped[s], Head(send_queue[s])) \in Seq(Message)
  BY <1>3, <1>4, Pop
<1>7. TypeOK'
  <2>1. strand' \in [Session -> Seq(Handler)]
    BY <1>0, <1>1, <1>5 DEF TypeOK
  <2>2. delivered' \in [Session -> Seq(1..MaxBroadcast)]
    BY <1>0, <1>1, <1>4, <1>6 DEF TypeOK, Message
  <2>3. writing' \in [Session -> BOOLEAN]
    BY <1>0, <1>2 DEF TypeOK
  <2> QED BY <1>0, <1>2, <2>1, <2>2, <2>3 DEF TypeOK
<1>8. StrandInv'
  BY <1>0, <1>2 DEF StrandInv, Serves, Runs
<1>9. SessionInv(s)'
  <2>1. /\ Running(s)' = {} /\ BeingPushed(s)' = BeingPushed(s)
        /\ send_queue'[s] = send_queue[s] /\ popped'[s] = popped[s] /\ sent'[s] = sent[s]
    BY <1>2, <1>3 DEF Running, Runs, BeingPushed, InDoSend
  <2>2. ~writing'[s]
    BY <1>0, <1>2 DEF TypeOK
  <2>3. WriteInv(s)'
    BY <1>3, <1>5, <2>1, <2>2 DEF WriteInv
  <2>4. Written(s)' <=> ec = "ok"
    BY <1>5, <2>1, HandlerFacts DEF Written
  <2>5. delivered'[s] = IF ec = "ok" THEN Append(popped[s], Head(send_queue[s])) ELSE popped[s]
    BY <1>0, <1>1, <1>4 DEF TypeOK
  <2>6. DeliveredInv(s)'
    BY <2>1, <2>4, <2>5 DEF DeliveredInv
  <2>7. SentInv(s)'
    BY <1>0, <1>5, <2>1 DEF SessionInv, SentInv
  <2> QED BY <2>3, <2>6, <2>7 DEF SessionInv
<1>10. \A u \in Session \ {s} :
           /\ strand'[u] = strand[u] /\ mutex'[u] = mutex[u] /\ send_queue'[u] = send_queue[u]
           /\ writing'[u] = writing[u] /\ delivered'[u] = delivered[u] /\ sent'[u] = sent[u]
           /\ popped'[u] = popped[u]
  BY <1>0, <1>1, <1>2 DEF TypeOK
<1> QED BY <1>2, <1>7, <1>8, <1>9, <1>10, StepOf

LEMMA BroadcastIInv ==
    ASSUME IInv, Broadcast
    PROVE  IInv'
<1> DEFINE m == broadcasts + 1
<1>0. TypeOK /\ StrandInv /\ \A s \in Session : SessionInv(s)
  BY DEF IInv
<1>1. /\ strand' = [s \in Session |->
                        IF s \in sessions THEN Append(strand[s], DoSendOf(m)) ELSE strand[s]]
      /\ sent' = [s \in Session |-> IF s \in sessions THEN Append(sent[s], m) ELSE sent[s]]
      /\ broadcasts' = m /\ broadcasts < MaxBroadcast
      /\ UNCHANGED <<listening, sessions, link, task, mutex, send_queue, writing, delivered, popped>>
  BY DEF Broadcast, sessionVars
<1>2. m \in Message /\ broadcasts' \in 0..MaxBroadcast
  BY <1>0, <1>1, HandshakeAssumption DEF TypeOK, Message
<1> HIDE DEF m
<1>3. ASSUME NEW s \in Session
      PROVE  /\ strand[s] \in Seq(Handler) /\ sent[s] \in Seq(Message)
             /\ Append(strand[s], DoSendOf(m)) \in Seq(Handler)
             /\ Append(sent[s], m) \in Seq(Message)
             /\ OnWrites(Append(strand[s], DoSendOf(m))) = OnWrites(strand[s])
             /\ \A i \in OnWrites(strand[s]) : Append(strand[s], DoSendOf(m))[i] = strand[s][i]
             /\ Sends(Append(strand[s], DoSendOf(m))) = Append(Sends(strand[s]), m)
             /\ Sends(strand[s]) \in Seq(Message)
  <2>1. strand[s] \in Seq(Handler) /\ sent[s] \in Seq(Message)
    BY <1>0 DEF TypeOK, Message
  <2>2. \A i, j \in OnWrites(strand[s]) : i = j
    BY <1>0 DEF SessionInv, WriteInv, Waiting
  <2> QED BY <1>2, <2>1, <2>2, PostSend, SendsFacts, AppendProperties
<1>4. TypeOK'
  <2>1. strand' \in [Session -> Seq(Handler)] /\ sent' \in [Session -> Seq(1..MaxBroadcast)]
    BY <1>1, <1>3 DEF Message
  <2> QED BY <1>0, <1>1, <1>2, <2>1 DEF TypeOK
<1>5. StrandInv'
  BY <1>0, <1>1 DEF StrandInv, Serves, Runs
<1>6. ASSUME NEW s \in Session PROVE SessionInv(s)'
  <2>1. /\ Running(s)' = Running(s) /\ BeingPushed(s)' = BeingPushed(s)
        /\ Waiting(s)' = Waiting(s) /\ \A i \in Waiting(s) : strand'[s][i] = strand[s][i]
    <3>1. Running(s)' = Running(s) /\ BeingPushed(s)' = BeingPushed(s)
      BY <1>1 DEF Running, Runs, BeingPushed, InDoSend
    <3> QED BY <1>1, <1>3, <3>1 DEF Waiting
  <2>2. WriteInv(s)'
    BY <1>0, <1>1, <2>1 DEF SessionInv, WriteInv
  <2>3. Written(s)' <=> Written(s)
    BY <1>1, <2>1 DEF Written
  <2>4. DeliveredInv(s)'
    BY <1>0, <1>1, <2>3 DEF SessionInv, DeliveredInv
  <2>5. SentInv(s)'
    <3>1. CASE s \in sessions
      <4>1. sent'[s] = Append(sent[s], m) /\ Sends(strand'[s]) = Append(Sends(strand[s]), m)
        BY <1>1, <1>3, <3>1
      <4>2. popped[s] \in Seq(Message) /\ send_queue[s] \in Seq(Message) /\ BeingPushed(s) \in Seq(Message)
        BY <1>0, BeingPushedFacts DEF TypeOK, Message
      <4>3. BeingPushed(s) \o Append(Sends(strand[s]), m) = Append(BeingPushed(s) \o Sends(strand[s]), m)
        BY <1>2, <1>3, <4>2, AppendAtEnd
      <4>4. /\ popped[s] \o send_queue[s] \in Seq(Message)
            /\ BeingPushed(s) \o Sends(strand[s]) \in Seq(Message)
        BY <1>3, <4>2, ConcatProperties
      <4>5. (popped[s] \o send_queue[s]) \o Append(BeingPushed(s) \o Sends(strand[s]), m)
              = Append((popped[s] \o send_queue[s]) \o (BeingPushed(s) \o Sends(strand[s])), m)
        BY <1>2, <4>4, AppendAtEnd
      <4>6. sent[s] = (popped[s] \o send_queue[s]) \o (BeingPushed(s) \o Sends(strand[s]))
        BY <1>0 DEF SessionInv, SentInv
      <4> QED BY <1>1, <2>1, <4>1, <4>3, <4>5, <4>6 DEF SentInv
    <3>2. CASE s \notin sessions
      <4>1. sent'[s] = sent[s] /\ strand'[s] = strand[s]
        BY <1>1, <3>2
      <4> QED BY <1>0, <1>1, <2>1, <4>1 DEF SessionInv, SentInv
    <3> QED BY <3>1, <3>2
  <2> QED BY <2>2, <2>4, <2>5 DEF SessionInv
<1> QED BY <1>4, <1>5, <1>6 DEF IInv

\* Connections come and go without touching a handler or a message.
LEMMA SameMessages ==
    ASSUME IInv, TypeOK',
           UNCHANGED <<strand, send_queue, writing, task, mutex, delivered, broadcasts, sent, popped>>
    PROVE  IInv'
<1>1. StrandInv'
  BY DEF IInv, StrandInv, Serves, Runs
<1>2. ASSUME NEW s \in Session PROVE SessionInv(s)'
  BY OtherSession
<1> QED BY <1>1, <1>2 DEF IInv

LEMMA ConnectionIInv ==
    ASSUME IInv, \/ \E s \in Session : Accept(s) \/ OnAccept(s) \/ Disconnect(s)
                 \/ Stop \/ UNCHANGED vars
    PROVE  IInv'
<1>1. UNCHANGED <<strand, send_queue, writing, task, mutex, delivered, broadcasts, sent, popped>>
  BY DEF Accept, OnAccept, Disconnect, Stop, vars, queueVars, historyVars
<1>2. listening' \in BOOLEAN
  BY Zenon DEF IInv, TypeOK, Accept, OnAccept, Disconnect, Stop, vars, sessionVars
<1>3. sessions' \subseteq Session /\ link' \in [Session -> {"none", "tcp", "open", "gone"}]
  BY DEF IInv, TypeOK, Accept, OnAccept, Disconnect, Stop, vars, sessionVars
<1>4. TypeOK'
  BY <1>1, <1>2, <1>3 DEF IInv, TypeOK
<1> QED BY <1>1, <1>4, SameMessages

LEMMA InitIInv == Init => IInv
<1> SUFFICES ASSUME Init PROVE IInv
  OBVIOUS
<1>1. TypeOK
  <2>1. \A S : <<>> \in Seq(S)
    BY EmptySeq
  <2>2. listening \in BOOLEAN /\ writing \in [Session -> BOOLEAN]
    BY Zenon DEF Init
  <2>3. 0 \in 0..MaxBroadcast
    BY HandshakeAssumption
  <2> QED BY <2>1, <2>2, <2>3 DEF Init, TypeOK
<1>2. \A s : \A t \in IoThread : ~Serves(t, s)
  BY DEF Init, Serves
<1>3. StrandInv
  BY <1>2 DEF Init, StrandInv
<1>4. ASSUME NEW s \in Session PROVE SessionInv(s)
  <2>1. Running(s) = {} /\ InDoSend(s) = {}
    BY <1>1, <1>2, ServedByNobody
  <2>2. strand[s] = <<>> /\ Len(strand[s]) = 0 /\ <<>> \in Seq(Handler) /\ <<>> \in Seq(Message)
    BY EmptySeq DEF Init
  <2>3. Waiting(s) = {}
    BY <2>2 DEF Waiting, OnWrites
  <2>4. ~writing[s] /\ delivered[s] = <<>> /\ popped[s] = <<>> /\ send_queue[s] = <<>> /\ sent[s] = <<>>
    BY DEF Init
  <2>5. Sends(strand[s]) = <<>>
    <3>1. Sends(<<>>) \in Seq(Message) /\ Len(Sends(<<>>)) = 0
      BY <2>2, <2>3, SendsFacts DEF Waiting
    <3> QED BY <2>2, <3>1, EmptySeq
  <2>6. BeingPushed(s) = <<>>
    BY <2>1 DEF BeingPushed
  <2>7. WriteInv(s) /\ DeliveredInv(s)
    BY <2>1, <2>3, <2>4 DEF WriteInv, DeliveredInv, Written
  <2>8. <<>> \o <<>> = <<>>
    BY <2>2, ConcatEmptySeq
  <2> QED BY <2>4, <2>5, <2>6, <2>7, <2>8 DEF SessionInv, SentInv
<1> QED BY <1>1, <1>3, <1>4 DEF IInv

LEMMA NextIInv == IInv /\ [Next]_vars => IInv'
<1> SUFFICES ASSUME IInv, [Next]_vars PROVE IInv'
  OBVIOUS
<1>1. ASSUME NEW s \in Session, HandlerStep(s) PROVE IInv'
  BY <1>1, RunHandlerIInv, DoSendIInv, OnWriteErrorIInv, OnWriteIInv, WriteEndsIInv DEF HandlerStep
<1>2. CASE Broadcast
  BY <1>2, BroadcastIInv
<1> QED BY <1>1, <1>2, ConnectionIInv DEF Next

\* The inductive invariant holds of every reachable state.
THEOREM Invariance == Spec => []IInv
  BY InitIInv, NextIInv, PTL DEF Spec

\* Every variable of the server has its type.
THEOREM TypeCorrect == Spec => []TypeOK
<1>1. IInv => TypeOK
  BY DEF IInv
<1> QED BY Invariance, <1>1, PTL

\* However many io threads run the handlers of a session, one message of it is
\* being written at a time, and its memory stays meanwhile.
THEOREM OneWriteAtATime == Spec => []OneWrite
<1>1. IInv => OneWrite
  <2> SUFFICES ASSUME IInv, NEW s \in Session
               PROVE  /\ Cardinality(Waiting(s)) + Cardinality(Running(s)) + (IF writing[s] THEN 1 ELSE 0) <= 1
                      /\ writing[s] \/ Waiting(s) # {} \/ Running(s) # {} => send_queue[s] # <<>>
    BY DEF OneWrite
  <2>1. WriteInv(s) /\ TypeOK /\ StrandInv
    BY DEF IInv, SessionInv
  <2>2. ASSUME NEW S, \A x, y \in S : x = y
        PROVE  \/ S = {} /\ Cardinality(S) = 0
               \/ S # {} /\ Cardinality(S) = 1
    <3>1. ASSUME NEW x \in S PROVE Cardinality(S) = 1
      <4>1. S = {x}
        BY <2>2
      <4> QED BY <4>1, FS_Singleton
    <3>2. S = {} => Cardinality(S) = 0
      BY FS_EmptySet
    <3> QED BY <3>1, <3>2
  <2>3. \A t, u \in Running(s) : t = u
    BY <2>1, TaskFacts DEF Running, StrandInv
  <2>4. \/ Waiting(s) = {} /\ Cardinality(Waiting(s)) = 0
        \/ Waiting(s) # {} /\ Cardinality(Waiting(s)) = 1
    BY <2>1, <2>2 DEF WriteInv
  <2>5. \/ Running(s) = {} /\ Cardinality(Running(s)) = 0
        \/ Running(s) # {} /\ Cardinality(Running(s)) = 1
    BY <2>2, <2>3
  <2> QED BY <2>1, <2>4, <2>5 DEF WriteInv
<1> QED BY Invariance, <1>1, PTL

\* Whatever the number of sessions, messages and io threads, and whatever the
\* threads that broadcast: no message of a session is lost, doubled or
\* reordered on its way to the browser, though some may never be written.
THEOREM NoMessageLost == Spec => []NothingLost
<1>1. IInv => NothingLost
  <2> SUFFICES ASSUME IInv, NEW s \in Session
               PROVE  \/ delivered[s] = popped[s]
                      \/ send_queue[s] # <<>> /\ delivered[s] = Append(popped[s], Head(send_queue[s]))
    BY DEF IInv, SessionInv, SentInv, NothingLost
  <2>1. CASE Written(s)
    <3>1. send_queue[s] # <<>>
      BY <2>1 DEF IInv, SessionInv, WriteInv, Written
    <3> QED BY <2>1, <3>1 DEF IInv, SessionInv, DeliveredInv
  <2>2. CASE ~Written(s)
    BY <2>2 DEF IInv, SessionInv, DeliveredInv
  <2> QED BY <2>1, <2>2
<1> QED BY Invariance, <1>1, PTL

=============================================================================
