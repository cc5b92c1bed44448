------------------------- MODULE UidTransportProofs -------------------------
(***************************************************************************)
(* Theorems about UidTransport, for any number of packets, any queues and  *)
(* windows, and any loss, repetition and reordering of datagrams.          *)
(***************************************************************************)
EXTENDS UidTransport, SequenceTheorems, TLAPS

\* An ack on its way to the camera covers only what the session holds.
AckInv ==
  \A ack \in outAcks : ack.upto < next /\ \A id \in ack.extra : id \in recv \/ id < next

\* While the session lasts, the chunks accepted and not numbered are queued.
QueueInv ==
  closed = "no" =>
    /\ written = nextID + Len(writeQueue)
    /\ \A i \in 1..Len(writeQueue) : writeQueue[i] = nextID + i - 1

\* Packets carry the chunk of their number, and have been numbered.
Packet(pkt) == pkt[1] \in 0..nextID - 1 /\ pkt = <<pkt[1], pkt[1]>>
PacketInv == \A pkt \in sent \cup storing \cup outData \cup camGot : Packet(pkt)

\* An ack on its way to the session covers only what the camera has.
CamAckInv ==
  \A ack \in netAcks :
    /\ \A id \in 0..ack.upto : id \in CamIDs
    /\ ack.extra \subseteq CamIDs

\* What was numbered is in the window, about to be, or at the camera.
NumberedInv ==
  closed = "no" => \A k \in 0..nextID - 1 : <<k, k>> \in sent \cup storing \cup camGot

IInv ==
  /\ TypeOK /\ InboundInOrder /\ AckInv /\ InboundKept
  /\ QueueInv /\ PacketInv /\ CamAckInv /\ NumberedInv

-----------------------------------------------------------------------------
(***************************************************************************)
(* Chunks.                                                                 *)
(***************************************************************************)
LEMMA ChunksProperties ==
  ASSUME NEW a \in Nat, NEW b \in Nat, a <= b
  PROVE  /\ Chunks(a, b) \in Seq(Nat) /\ Len(Chunks(a, b)) = b - a
         /\ \A i \in 1..(b - a) : Chunks(a, b)[i] = a + i - 1
  <1>1. b - a \in Nat /\ \A i \in 1..(b - a) : a + i - 1 \in Nat
    OBVIOUS
  <1>. QED
    BY <1>1 DEF Chunks

LEMMA Associative ==
  ASSUME NEW s \in Seq(Nat), NEW t \in Seq(Nat), NEW u \in Seq(Nat)
  PROVE  (s \o t) \o u = s \o (t \o u)
  BY ConcatAssociative, SMTT(30)

LEMMA ConcatNat ==
  ASSUME NEW s \in Seq(Nat), NEW t \in Seq(Nat)
  PROVE  /\ Len(s \o t) = Len(s) + Len(t)
         /\ \A i \in 1..Len(s) + Len(t) : (s \o t)[i] = IF i <= Len(s) THEN s[i] ELSE t[i - Len(s)]
  BY ConcatProperties

LEMMA ChunksConcat ==
  ASSUME NEW a \in Nat, NEW b \in Nat, a <= b
  PROVE  Chunks(0, a) \o Chunks(a, b) = Chunks(0, b)
  <1>1. /\ Chunks(0, a) \in Seq(Nat) /\ Len(Chunks(0, a)) = a
        /\ \A i \in 1..a : Chunks(0, a)[i] = i - 1
    BY ChunksProperties
  <1>2. /\ Chunks(a, b) \in Seq(Nat) /\ Len(Chunks(a, b)) = b - a
        /\ \A i \in 1..(b - a) : Chunks(a, b)[i] = a + i - 1
    BY ChunksProperties
  <1>3. /\ Chunks(0, b) \in Seq(Nat) /\ Len(Chunks(0, b)) = b
        /\ \A i \in 1..b : Chunks(0, b)[i] = i - 1
    BY ChunksProperties
  <1> DEFINE s == Chunks(0, a) \o Chunks(a, b)
  <1>4. /\ s \in Seq(Nat) /\ Len(s) = b
        /\ \A i \in 1..b : s[i] = IF i <= a THEN Chunks(0, a)[i] ELSE Chunks(a, b)[i - a]
    <2>1. /\ s \in Seq(Nat) /\ Len(s) = Len(Chunks(0, a)) + Len(Chunks(a, b))
          /\ \A i \in 1..Len(Chunks(0, a)) + Len(Chunks(a, b)) :
               s[i] = IF i <= Len(Chunks(0, a)) THEN Chunks(0, a)[i]
                      ELSE Chunks(a, b)[i - Len(Chunks(0, a))]
      BY <1>1, <1>2, ConcatProperties
    <2>. HIDE DEF s
    <2>2. a + (b - a) = b
      OBVIOUS
    <2>3. Len(Chunks(0, a)) = a /\ Len(Chunks(a, b)) = b - a
      BY <1>1, <1>2
    <2>. QED
      BY <2>1, <2>2, <2>3
  <1>5. ASSUME NEW i \in 1..b PROVE s[i] = Chunks(0, b)[i]
    <2>1. CASE i <= a
      BY <1>1, <1>3, <1>4, <2>1
    <2>2. CASE ~(i <= a)
      <3>1. i - a \in 1..(b - a) /\ a + (i - a) - 1 = i - 1
        BY <2>2
      <3>. QED
        BY <1>2, <1>3, <1>4, <2>2, <3>1
    <2>. QED
      BY <2>1, <2>2
  <1>. HIDE DEF s
  <1>6. s = Chunks(0, b)
    BY <1>3, <1>4, <1>5, SeqEqual
  <1>. QED
    BY <1>6 DEF s

\* The head of a sequence moves from the front of one to the end of another.
LEMMA MoveHead ==
  ASSUME NEW s \in Seq(Nat), NEW t \in Seq(Nat), t # <<>>
  PROVE  /\ Append(s, Head(t)) \o Tail(t) = s \o t
         /\ Append(s, Head(t)) \in Seq(Nat) /\ Tail(t) \in Seq(Nat)
         /\ Len(Append(s, Head(t))) = Len(s) + 1 /\ Len(Tail(t)) = Len(t) - 1
  <1>1. /\ Head(t) \in Nat /\ Tail(t) \in Seq(Nat) /\ Len(Tail(t)) = Len(t) - 1
        /\ \A i \in 1..Len(Tail(t)) : Tail(t)[i] = t[i + 1]
    BY HeadTailProperties
  <1>2. /\ Append(s, Head(t)) \in Seq(Nat) /\ Len(Append(s, Head(t))) = Len(s) + 1
        /\ \A i \in 1..Len(s) : Append(s, Head(t))[i] = s[i]
        /\ Append(s, Head(t))[Len(s) + 1] = Head(t)
    BY <1>1, AppendProperties
  <1>3. Head(t) = t[1] /\ Len(t) \in Nat \ {0} /\ Len(s) \in Nat
    BY EmptySeq
  <1> DEFINE u == Append(s, Head(t)) \o Tail(t)
             v == s \o t
  <1>4. /\ u \in Seq(Nat) /\ Len(u) = Len(s) + Len(t)
        /\ \A i \in 1..Len(s) + Len(t) :
             u[i] = IF i <= Len(s) + 1 THEN Append(s, Head(t))[i] ELSE Tail(t)[i - (Len(s) + 1)]
    BY <1>1, <1>2, <1>3, ConcatProperties
  <1>5. /\ v \in Seq(Nat) /\ Len(v) = Len(s) + Len(t)
        /\ \A i \in 1..Len(s) + Len(t) : v[i] = IF i <= Len(s) THEN s[i] ELSE t[i - Len(s)]
    BY ConcatProperties
  <1>6. ASSUME NEW i \in 1..Len(s) + Len(t) PROVE u[i] = v[i]
    <2>1. CASE i <= Len(s)
      BY <1>2, <1>3, <1>4, <1>5, <2>1
    <2>2. CASE i = Len(s) + 1
      BY <1>2, <1>3, <1>4, <1>5, <2>2
    <2>3. CASE i > Len(s) + 1
      <3>1. i - (Len(s) + 1) \in 1..Len(Tail(t)) /\ (i - (Len(s) + 1)) + 1 = i - Len(s)
        BY <1>1, <1>3, <2>3
      <3>. QED
        BY <1>1, <1>3, <1>4, <1>5, <2>3, <3>1
    <2>4. i \in Int /\ Len(s) \in Int
      BY <1>3
    <2>. HIDE DEF u, v
    <2>. QED
      BY <2>1, <2>2, <2>3, <2>4
  <1>. HIDE DEF u, v
  <1>7. u = v
    BY <1>3, <1>4, <1>5, <1>6, SeqEqual
  <1>. QED
    BY <1>1, <1>2, <1>7 DEF u, v

\* The counters of a session.
LEMMA Numbers ==
  ASSUME TypeOK
  PROVE  /\ InN \in Nat /\ camSent \in Nat /\ camSent <= InN /\ next \in Nat /\ next <= camSent
         /\ OutN \in Nat /\ written \in Nat /\ written <= OutN /\ nextID \in Nat /\ nextID <= written
  <1>1. camSent \in 0..InN /\ next \in 0..camSent /\ written \in 0..OutN /\ nextID \in 0..written
    BY DEF TypeOK
  <1>. QED
    BY <1>1, BoundsAssumption

-----------------------------------------------------------------------------
LEMMA InitInv == Init => IInv
  <1>. SUFFICES ASSUME Init PROVE IInv
    OBVIOUS
  <1>1. <<>> \in Seq(Nat) /\ Len(<<>>) = 0
    BY EmptySeq
  <1>2. TypeOK
    <2>1. camSent \in 0..InN /\ next \in 0..camSent /\ written \in 0..OutN /\ nextID \in 0..written
      BY BoundsAssumption DEF Init
    <2>2. /\ pushing \in Seq(Nat) /\ readQueue \in Seq(Nat) /\ got \in Seq(Nat) /\ writeQueue \in Seq(Nat)
          /\ Len(readQueue) <= QueueCap /\ Len(writeQueue) <= QueueCap
      BY <1>1, BoundsAssumption DEF Init
    <2>. QED
      BY <2>1, <2>2 DEF Init, TypeOK
  <1>3. InboundInOrder
    <2>1. <<>> \o <<>> \o <<>> = <<>>
      BY <1>1, ConcatEmptySeq
    <2>2. Chunks(0, 0) = <<>>
      BY <1>1, ChunksProperties, SeqEqual
    <2>. QED
      BY <2>1, <2>2 DEF Init, InboundInOrder
  <1>4. AckInv /\ InboundKept /\ QueueInv /\ PacketInv /\ CamAckInv /\ NumberedInv
    BY <1>1 DEF Init, AckInv, InboundKept, QueueInv, PacketInv, CamAckInv, NumberedInv
  <1>. QED
    BY <1>2, <1>3, <1>4 DEF IInv
-----------------------------------------------------------------------------
(***************************************************************************)
(* The camera and the network.                                             *)
(***************************************************************************)
\* Steps of the camera and of the network leave the session alone.
LEMMA CameraInv ==
  ASSUME IInv, CameraNext \/ Lose
  PROVE  IInv'
  <1>. USE DEF camera, net, receiving, sending
  <1>. TypeOK
    BY DEF IInv
  <1>1. CASE CameraSend
    <2>1. /\ camSent < InN /\ camSent' = camSent + 1
          /\ camUnacked' = camUnacked \cup {camSent} /\ netData' = netData \cup {camSent}
          /\ UNCHANGED <<camGot, netAcks, outData, outAcks, receiving, sending, closed>>
      BY <1>1 DEF CameraSend
    <2>2. camSent \in Nat /\ camSent \in 0..InN /\ camSent' \in 0..InN
      BY <2>1, Numbers
    <2>3. /\ camUnacked' \subseteq 0..camSent' - 1 /\ netData' \subseteq 0..camSent' - 1
          /\ recv' \subseteq 0..camSent' - 1 /\ next' \in 0..camSent'
      <3>1. /\ camUnacked \subseteq 0..camSent - 1 /\ netData \subseteq 0..camSent - 1
            /\ recv \subseteq 0..camSent - 1
        BY DEF TypeOK
      <3>2. recv' = recv /\ next' = next
        BY <2>1
      <3>. QED
        BY <2>1, <2>2, <3>1, <3>2, Numbers
    <2>4. TypeOK'
      BY <2>1, <2>2, <2>3 DEF TypeOK
    <2>5. InboundKept'
      BY <2>1, <2>2 DEF IInv, InboundKept
    <2>. QED
      BY <2>1, <2>4, <2>5 DEF IInv, InboundInOrder, AckInv, QueueInv, PacketInv, Packet, CamAckInv,
        CamIDs, NumberedInv
  <1>2. ASSUME NEW id \in camUnacked, CameraResend(id) PROVE IInv'
    <2>1. /\ netData' = netData \cup {id} /\ id \in 0..camSent - 1
          /\ UNCHANGED <<camera, netAcks, outData, outAcks, receiving, sending, closed>>
      BY <1>2 DEF CameraResend, TypeOK
    <2>2. TypeOK'
      BY <2>1 DEF TypeOK
    <2>. QED
      BY <2>1, <2>2 DEF IInv, InboundInOrder, AckInv, InboundKept, QueueInv, PacketInv, Packet, CamAckInv,
        CamIDs, NumberedInv
  <1>3. ASSUME NEW ack \in outAcks, CameraRecvAck(ack) PROVE IInv'
    <2>1. /\ outAcks' \subseteq outAcks
          /\ camUnacked' = {id \in camUnacked : ~Acked(ack, id)}
          /\ UNCHANGED <<camSent, camGot, netData, netAcks, outData, receiving, sending, closed>>
      BY <1>3 DEF CameraRecvAck, Take
    <2>2. TypeOK'
      BY <2>1 DEF TypeOK
    <2>3. InboundKept'
      <3>1. \A id \in 0..camSent - 1 : Acked(ack, id) => id \in recv \/ id < next
        <4>1. ack.upto < next /\ \A id \in ack.extra : id \in recv \/ id < next
          BY DEF IInv, AckInv
        <4>2. ack \in Acks(InN) /\ next \in Int
          <5>1. outAcks \subseteq Acks(InN)
            BY DEF TypeOK
          <5>. QED
            BY <5>1, Numbers
        <4>3. ack.upto \in Int
          BY <4>2 DEF Acks
        <4>. QED
          BY <4>1, <4>2, <4>3 DEF Acked
      <3>. QED
        BY <2>1, <3>1 DEF IInv, InboundKept
    <2>. QED
      BY <2>1, <2>2, <2>3 DEF IInv, InboundInOrder, AckInv, QueueInv, PacketInv, Packet, CamAckInv,
        CamIDs, NumberedInv
  <1>4. ASSUME NEW pkt \in outData, CameraRecvData(pkt) PROVE IInv'
    <2>1. /\ outData' \subseteq outData /\ camGot' = camGot \cup {pkt}
          /\ UNCHANGED <<camSent, camUnacked, netData, netAcks, outAcks, receiving, sending, closed>>
      BY <1>4 DEF CameraRecvData, Take
    <2>2. TypeOK'
      BY <2>1 DEF TypeOK
    <2>3. PacketInv' /\ NumberedInv'
      BY <2>1 DEF IInv, PacketInv, Packet, NumberedInv
    <2>4. CamIDs \subseteq CamIDs'
      BY <2>1 DEF CamIDs
    <2>5. CamAckInv'
      BY <2>1, <2>4 DEF IInv, CamAckInv
    <2>. QED
      BY <2>1, <2>2, <2>3, <2>5 DEF IInv, InboundInOrder, AckInv, InboundKept, QueueInv
  <1>5. CASE CameraAck
    <2>1. PICK n \in 1..OutN :
            /\ 0..(n - 1) \subseteq CamIDs
            /\ netAcks' = netAcks \cup {[upto |-> n - 1, extra |-> {id \in CamIDs : id >= n}]}
            /\ UNCHANGED <<camera, netData, outData, outAcks, receiving, sending, closed>>
      BY <1>5 DEF CameraAck
    <2>2. CamIDs \subseteq 0..OutN - 1
      <3>1. nextID - 1 <= OutN - 1 /\ nextID \in Int
        BY Numbers
      <3>2. CamIDs \subseteq 0..nextID - 1
        BY DEF CamIDs, IInv, PacketInv, Packet
      <3>. QED
        BY <3>1, <3>2, Numbers
    <2> DEFINE new == [upto |-> n - 1, extra |-> {id \in CamIDs : id >= n}]
    <2>3. new.upto = n - 1 /\ new.extra \subseteq CamIDs /\ new \in Acks(OutN)
      <3>1. n - 1 \in 0..OutN - 1 /\ {id \in CamIDs : id >= n} \in SUBSET (0..OutN - 1)
        <4>1. n \in Nat /\ n - 1 \in 0..OutN - 1
          BY Numbers
        <4>. QED
          BY <2>2, <4>1
      <3>. QED
        BY <3>1 DEF Acks
    <2>. HIDE DEF new
    <2>4. netAcks' = netAcks \cup {new}
      BY <2>1 DEF new
    <2>5. TypeOK'
      BY <2>1, <2>3, <2>4 DEF TypeOK
    <2>6. CamAckInv'
      BY <2>1, <2>3, <2>4 DEF IInv, CamAckInv, CamIDs
    <2>. QED
      BY <2>1, <2>5, <2>6 DEF IInv, InboundInOrder, AckInv, InboundKept, QueueInv, PacketInv, Packet, NumberedInv
  <1>6. CASE Lose
    <2>1. /\ netData' \subseteq netData /\ netAcks' \subseteq netAcks
          /\ outData' \subseteq outData /\ outAcks' \subseteq outAcks
          /\ UNCHANGED <<camera, receiving, sending, closed>>
      BY <1>6 DEF Lose
    <2>2. TypeOK'
      BY <2>1 DEF TypeOK
    <2>. QED
      BY <2>1, <2>2 DEF IInv, InboundInOrder, AckInv, InboundKept, QueueInv, PacketInv, Packet, CamAckInv,
        CamIDs, NumberedInv
  <1>. QED
    BY <1>1, <1>2, <1>3, <1>4, <1>5, <1>6 DEF CameraNext

-----------------------------------------------------------------------------
(***************************************************************************)
(* The receiving half.                                                     *)
(***************************************************************************)
\* A packet from the network: the chunks without a gap are handed over.
LEMMA RecvDataInv ==
  ASSUME IInv, NEW id \in netData, RecvData(id)
  PROVE  IInv'
  <1>. USE DEF camera, net, sending
  <1>1. /\ TypeOK /\ closed = "no" /\ pushing = <<>> /\ id \in 0..camSent - 1
        /\ next \in Nat /\ camSent \in Nat /\ next <= camSent /\ InN \in Nat
    <2>1. TypeOK /\ netData \subseteq 0..camSent - 1
      BY DEF IInv, TypeOK
    <2>. QED
      BY <2>1, Numbers DEF RecvData, Reading
  <1>2. PICK k \in next..InN :
          /\ next..(k - 1) \subseteq recv \cup {id}
          /\ recv' = (recv \cup {id}) \ (next..(k - 1))
          /\ pushing' = Chunks(next, k) /\ next' = k
    BY DEF RecvData
  <1>3. /\ netData' \subseteq netData
        /\ UNCHANGED <<camera, netAcks, outData, outAcks, readQueue, got, sending, closed>>
    BY DEF RecvData, Take
  <1>4. k \in Nat /\ k <= camSent
    <2>1. CASE k = next
      BY <1>1, <2>1
    <2>2. CASE k # next
      <3>1. k - 1 \in recv \cup {id} /\ k \in Nat
        BY <1>1, <1>2, <2>2
      <3>. QED
        BY <1>1, <3>1 DEF TypeOK
    <2>. QED
      BY <2>1, <2>2
  <1>5. recv' \subseteq 0..camSent - 1 /\ \A j \in recv : j \in recv' \/ j < k
    BY <1>1, <1>2, <1>4 DEF TypeOK
  <1>6. TypeOK'
    <2>1. pushing' \in Seq(Nat)
      BY <1>1, <1>2, <1>4, ChunksProperties
    <2>. QED
      BY <1>1, <1>2, <1>3, <1>4, <1>5, <2>1 DEF TypeOK
  <1>7. InboundInOrder'
    <2>1. got \in Seq(Nat) /\ readQueue \in Seq(Nat) /\ got \o readQueue \in Seq(Nat)
      BY <1>1, ConcatProperties DEF TypeOK
    <2>2. got \o readQueue = Chunks(0, next)
      BY <1>1, <2>1, ConcatEmptySeq DEF IInv, InboundInOrder
    <2>3. Chunks(0, next) \o Chunks(next, k) = Chunks(0, k)
      <3>1. next \in Nat /\ k \in Nat /\ next <= k
        BY <1>1, <1>2, <1>4
      <3>. QED
        BY <3>1, ChunksConcat
    <2>. QED
      BY <1>2, <1>3, <2>2, <2>3 DEF InboundInOrder
  <1>8. AckInv'
    <2>1. \A ack \in outAcks : ack.upto \in Int /\ ack.extra \subseteq Nat
      BY <1>1 DEF TypeOK, Acks
    <2>. QED
      BY <1>1, <1>2, <1>3, <1>5, <2>1 DEF IInv, AckInv
  <1>9. InboundKept'
    BY <1>1, <1>2, <1>3, <1>5 DEF IInv, InboundKept
  <1>10. QueueInv' /\ PacketInv' /\ CamAckInv' /\ NumberedInv'
    BY <1>3 DEF IInv, QueueInv, PacketInv, Packet, CamAckInv, CamIDs, NumberedInv
  <1>. QED
    BY <1>6, <1>7, <1>8, <1>9, <1>10 DEF IInv

\* A chunk moves on: from the read loop to the queue, or from there to Read.
LEMMA MoveInv ==
  ASSUME IInv, PushChunk \/ Read
  PROVE  IInv'
  <1>. USE DEF camera, net, sending
  <1>1. TypeOK /\ got \in Seq(Nat) /\ readQueue \in Seq(Nat) /\ pushing \in Seq(Nat)
    BY DEF IInv, TypeOK
  <1>2. /\ UNCHANGED <<camera, net, recv, next, sending, closed>>
        /\ got' \in Seq(Nat) /\ readQueue' \in Seq(Nat) /\ pushing' \in Seq(Nat)
        /\ Len(readQueue') <= QueueCap
        /\ got' \o readQueue' \o pushing' = got \o readQueue \o pushing
    <2>1. CASE PushChunk
      <3>1. /\ pushing # <<>> /\ Len(readQueue) < QueueCap
            /\ readQueue' = Append(readQueue, Head(pushing)) /\ pushing' = Tail(pushing)
            /\ got' = got /\ UNCHANGED <<camera, net, recv, next, sending, closed>>
        BY <2>1 DEF PushChunk
      <3>2. /\ readQueue' \o pushing' = readQueue \o pushing
            /\ readQueue' \in Seq(Nat) /\ pushing' \in Seq(Nat)
            /\ Len(readQueue') = Len(readQueue) + 1
        BY <1>1, <3>1, MoveHead
      <3>3. got' \o readQueue' \o pushing' = got \o readQueue \o pushing
        <4>1. (got \o readQueue) \o pushing = got \o (readQueue \o pushing)
          BY <1>1, Associative
        <4>2. (got \o readQueue') \o pushing' = got \o (readQueue' \o pushing')
          <5>1. got \in Seq(Nat) /\ readQueue' \in Seq(Nat) /\ pushing' \in Seq(Nat)
            BY <1>1, <3>2
          <5>. QED
            BY <5>1, Associative
        <4>. QED
          BY <3>1, <3>2, <4>1, <4>2
      <3>4. Len(readQueue') <= QueueCap
        BY <1>1, <3>1, <3>2, BoundsAssumption, EmptySeq, LenProperties
      <3>. QED
        BY <1>1, <3>1, <3>2, <3>3, <3>4
    <2>2. CASE Read
      <3>1. /\ readQueue # <<>> /\ got' = Append(got, Head(readQueue)) /\ readQueue' = Tail(readQueue)
            /\ pushing' = pushing /\ UNCHANGED <<camera, net, recv, next, sending, closed>>
        BY <2>2 DEF Read
      <3>2. /\ got' \o readQueue' = got \o readQueue
            /\ got' \in Seq(Nat) /\ readQueue' \in Seq(Nat)
            /\ Len(readQueue') = Len(readQueue) - 1
        BY <1>1, <3>1, MoveHead
      <3>3. Len(readQueue') <= QueueCap
        <4>1. Len(readQueue) \in Nat /\ Len(readQueue) <= QueueCap
          BY <1>1, LenProperties DEF TypeOK
        <4>. QED
          BY <3>2, <4>1, BoundsAssumption
      <3>. QED
        BY <1>1, <3>1, <3>2, <3>3
    <2>. QED
      BY <2>1, <2>2
  <1>3. TypeOK'
    BY <1>1, <1>2 DEF TypeOK
  <1>. QED
    BY <1>2, <1>3 DEF IInv, InboundInOrder, AckInv, InboundKept, QueueInv, PacketInv, Packet, CamAckInv,
      CamIDs, NumberedInv

LEMMA RecvAckInv ==
  ASSUME IInv, NEW ack \in netAcks, RecvAck(ack)
  PROVE  IInv'
  <1>. USE DEF camera, receiving
  <1>1. /\ netAcks' \subseteq netAcks /\ sent' = {pkt \in sent : ~Acked(ack, pkt[1])}
        /\ UNCHANGED <<camera, netData, outData, outAcks, receiving, closed,
                       written, writeQueue, nextID, storing, ticking>>
    BY DEF RecvAck, Take
  <1>2. TypeOK'
    BY <1>1 DEF IInv, TypeOK
  <1>3. NumberedInv'
    <2>. SUFFICES ASSUME closed = "no", NEW k \in 0..nextID - 1
                  PROVE  <<k, k>> \in sent' \cup storing \cup camGot
      BY <1>1 DEF NumberedInv
    <2>1. <<k, k>> \in sent \cup storing \cup camGot
      BY DEF IInv, NumberedInv
    <2>2. CASE Acked(ack, k)
      <3>1. k \in CamIDs
        BY <2>2 DEF Acked, IInv, CamAckInv, TypeOK, Acks
      <3>2. PICK pkt \in camGot : pkt[1] = k
        BY <3>1 DEF CamIDs
      <3>. QED
        BY <3>2 DEF IInv, PacketInv, Packet
    <2>3. CASE ~Acked(ack, k)
      BY <1>1, <2>1, <2>3
    <2>. QED
      BY <2>2, <2>3
  <1>. QED
    BY <1>1, <1>2, <1>3 DEF IInv, InboundInOrder, AckInv, InboundKept, QueueInv, PacketInv, Packet, CamAckInv,
      CamIDs

-----------------------------------------------------------------------------
(***************************************************************************)
(* The sending half.                                                       *)
(***************************************************************************)
LEMMA WriteInv ==
  ASSUME IInv, Write
  PROVE  IInv'
  <1>. USE DEF camera, net, receiving
  <1>1. /\ written < OutN /\ closed = "no" /\ Len(writeQueue) < QueueCap
        /\ writeQueue' = Append(writeQueue, written) /\ written' = written + 1
        /\ UNCHANGED <<camera, net, receiving, closed, nextID, storing, sent, ticking>>
    BY DEF Write
  <1>2. TypeOK /\ writeQueue \in Seq(Nat) /\ written \in Nat /\ nextID \in Nat
    <2>1. TypeOK
      BY DEF IInv
    <2>2. writeQueue \in Seq(Nat)
      BY <2>1 DEF TypeOK
    <2>. QED
      BY <2>1, <2>2, Numbers
  <1>3. /\ writeQueue' \in Seq(Nat) /\ Len(writeQueue') = Len(writeQueue) + 1
        /\ \A i \in 1..Len(writeQueue) : writeQueue'[i] = writeQueue[i]
        /\ writeQueue'[Len(writeQueue) + 1] = written
    BY <1>1, <1>2, AppendProperties
  <1>4. Len(writeQueue) \in Nat
    BY <1>2, LenProperties
  <1>5. TypeOK'
    <2>1. written' \in 0..OutN /\ nextID \in 0..written' /\ Len(writeQueue') <= QueueCap
      BY <1>1, <1>2, <1>3, <1>4, Numbers, BoundsAssumption
    <2>. QED
      BY <1>1, <1>2, <1>3, <2>1 DEF TypeOK
  <1>6. QueueInv'
    <2>1. /\ written = nextID + Len(writeQueue)
          /\ \A i \in 1..Len(writeQueue) : writeQueue[i] = nextID + i - 1
      BY <1>1 DEF IInv, QueueInv
    <2>2. written' = nextID + Len(writeQueue')
      BY <1>1, <1>2, <1>3, <1>4, <2>1
    <2>3. ASSUME NEW i \in 1..Len(writeQueue') PROVE writeQueue'[i] = nextID + i - 1
      <3>1. i \in 1..Len(writeQueue) \/ i = Len(writeQueue) + 1
        BY <1>3, <1>4
      <3>2. CASE i \in 1..Len(writeQueue)
        BY <1>3, <2>1, <3>2
      <3>3. CASE i = Len(writeQueue) + 1
        BY <1>2, <1>3, <1>4, <2>1, <3>3
      <3>. QED
        BY <3>1, <3>2, <3>3
    <2>. QED
      BY <1>1, <2>2, <2>3 DEF QueueInv
  <1>. QED
    BY <1>1, <1>5, <1>6 DEF IInv, InboundInOrder, AckInv, InboundKept, PacketInv, Packet, CamAckInv,
      CamIDs, NumberedInv

\* The packet is numbered and sent; it enters the window in the next step.
LEMMA SendChunkInv ==
  ASSUME IInv, SendChunk
  PROVE  IInv'
  <1>. USE DEF camera, net, receiving
  <1> DEFINE pkt == <<nextID, Head(writeQueue)>>
  <1>1. /\ closed = "no" /\ storing = {} /\ writeQueue # <<>>
        /\ outData' = outData \cup {pkt} /\ storing' = {pkt}
        /\ nextID' = nextID + 1 /\ writeQueue' = Tail(writeQueue)
        /\ UNCHANGED <<camera, netData, netAcks, outAcks, receiving, closed, written, sent, ticking>>
    BY DEF SendChunk, Writing
  <1>2. TypeOK /\ writeQueue \in Seq(Nat) /\ written \in Nat /\ nextID \in Nat /\ written <= OutN
    <2>1. TypeOK
      BY DEF IInv
    <2>2. writeQueue \in Seq(Nat)
      BY <2>1 DEF TypeOK
    <2>. QED
      BY <2>1, <2>2, Numbers
  <1>3. /\ Len(writeQueue) \in Nat \ {0} /\ Head(writeQueue) = writeQueue[1]
        /\ writeQueue' \in Seq(Nat) /\ Len(writeQueue') = Len(writeQueue) - 1
        /\ \A i \in 1..Len(writeQueue') : writeQueue'[i] = writeQueue[i + 1]
    BY <1>1, <1>2, HeadTailProperties, EmptySeq
  <1>4. /\ written = nextID + Len(writeQueue)
        /\ \A i \in 1..Len(writeQueue) : writeQueue[i] = nextID + i - 1
    BY <1>1 DEF IInv, QueueInv
  <1>5. Head(writeQueue) = nextID
    BY <1>2, <1>3, <1>4
  <1>6. pkt = <<nextID, nextID>> /\ pkt[1] = nextID
    BY <1>5
  <1>. HIDE DEF pkt
  <1>7. TypeOK'
    <2>1. nextID' \in 0..written
      BY <1>1, <1>2, <1>3, <1>4
    <2>2. Len(writeQueue') <= QueueCap
      <3>1. Len(writeQueue) <= QueueCap
        BY <1>2 DEF TypeOK
      <3>. QED
        BY <1>3, <3>1, BoundsAssumption
    <2>3. {pkt} \subseteq Nat \X Nat
      BY <1>2, <1>6
    <2>. QED
      BY <1>1, <1>2, <1>3, <2>1, <2>2, <2>3 DEF TypeOK
  <1>8. QueueInv'
    <2>1. written = nextID' + Len(writeQueue')
      BY <1>1, <1>2, <1>3, <1>4
    <2>2. ASSUME NEW i \in 1..Len(writeQueue') PROVE writeQueue'[i] = nextID' + i - 1
      BY <1>1, <1>2, <1>3, <1>4
    <2>. QED
      BY <1>1, <2>1, <2>2 DEF QueueInv
  <1>9. PacketInv'
    <2>1. \A q \in sent \cup storing \cup outData \cup camGot : Packet(q)'
      BY <1>1, <1>2 DEF IInv, PacketInv, Packet
    <2>2. \A q : q = pkt => Packet(q)'
      BY <1>1, <1>2, <1>6 DEF Packet
    <2>. QED
      BY <1>1, <2>1, <2>2 DEF PacketInv
  <1>10. NumberedInv'
    <2>. SUFFICES ASSUME NEW k \in 0..nextID' - 1
                  PROVE  <<k, k>> \in sent \cup {pkt} \cup camGot
      BY <1>1 DEF NumberedInv
    <2>1. k = nextID \/ k \in 0..nextID - 1
      BY <1>1, <1>2
    <2>2. k \in 0..nextID - 1 => <<k, k>> \in sent \cup camGot
      BY <1>1 DEF IInv, NumberedInv
    <2>. QED
      BY <1>6, <2>1, <2>2
  <1>. QED
    BY <1>1, <1>7, <1>8, <1>9, <1>10 DEF IInv, InboundInOrder, AckInv, InboundKept, CamAckInv, CamIDs

LEMMA WriteLoopInv ==
  ASSUME IInv, SendOverflow \/ StoreSent \/ TickResend \/ TickAck
  PROVE  IInv'
  <1>. USE DEF camera, net, receiving
  <1>0. TypeOK
    BY DEF IInv
  <1>1. CASE SendOverflow
    <2>1. /\ writeQueue # <<>> /\ writeQueue' = Tail(writeQueue) /\ closed' = "send overflow"
          /\ UNCHANGED <<camera, net, receiving, written, nextID, storing, sent, ticking>>
      BY <1>1 DEF SendOverflow, Writing, Shutdown
    <2>2. writeQueue \in Seq(Nat) /\ Len(writeQueue) <= QueueCap
      BY <1>0 DEF TypeOK
    <2>3. /\ writeQueue' \in Seq(Nat) /\ Len(writeQueue') = Len(writeQueue) - 1
          /\ Len(writeQueue) \in Nat
      BY <2>1, <2>2, HeadTailProperties, EmptySeq
    <2>4. Len(writeQueue') <= QueueCap
      BY <2>2, <2>3, BoundsAssumption
    <2>5. TypeOK'
      BY <1>0, <2>1, <2>3, <2>4 DEF TypeOK
    <2>. QED
      BY <2>1, <2>5 DEF IInv, InboundInOrder, AckInv, InboundKept, QueueInv, PacketInv, Packet, CamAckInv,
        CamIDs, NumberedInv
  <1>2. CASE StoreSent
    <2>1. /\ sent' = sent \cup storing /\ storing' = {}
          /\ UNCHANGED <<camera, net, receiving, closed, written, writeQueue, nextID, ticking>>
      BY <1>2 DEF StoreSent
    <2>2. TypeOK'
      BY <1>0, <2>1 DEF TypeOK
    <2>. QED
      BY <2>1, <2>2 DEF IInv, InboundInOrder, AckInv, InboundKept, QueueInv, PacketInv, Packet, CamAckInv,
        CamIDs, NumberedInv
  <1>3. CASE TickResend
    <2>1. /\ outData' = outData \cup sent /\ ticking' = TRUE
          /\ UNCHANGED <<camera, netData, netAcks, outAcks, receiving, closed,
                         written, writeQueue, nextID, storing, sent>>
      BY <1>3 DEF TickResend
    <2>2. TypeOK'
      BY <1>0, <2>1 DEF TypeOK
    <2>. QED
      BY <2>1, <2>2 DEF IInv, InboundInOrder, AckInv, InboundKept, QueueInv, PacketInv, Packet, CamAckInv,
        CamIDs, NumberedInv
  <1>4. CASE TickAck
    <2>1. /\ ticking' = FALSE
          /\ outAcks' = IF next > 0 /\ closed = "no" THEN outAcks \cup {AckWindow} ELSE outAcks
          /\ UNCHANGED <<camera, netData, netAcks, outData, receiving, closed,
                         written, writeQueue, nextID, storing, sent>>
      BY <1>4 DEF TickAck
    <2>2. recv \subseteq 0..camSent - 1
      BY <1>0 DEF TypeOK
    <2>3. /\ AckWindow.upto = next - 1 /\ AckWindow.extra \subseteq recv
          /\ next > 0 => AckWindow \in Acks(InN)
      <3>1. next > 0 => next - 1 \in 0..InN - 1
        BY <1>0, Numbers
      <3>2. recv \subseteq 0..InN - 1
        BY <1>0, <2>2, Numbers
      <3>. QED
        BY <3>1, <3>2 DEF AckWindow, Acks
    <2>4. TypeOK'
      BY <1>0, <2>1, <2>3 DEF TypeOK
    <2>5. AckInv'
      BY <1>0, <2>1, <2>3, Numbers DEF IInv, AckInv
    <2>. QED
      BY <2>1, <2>4, <2>5 DEF IInv, InboundInOrder, InboundKept, QueueInv, PacketInv, Packet, CamAckInv,
        CamIDs, NumberedInv
  <1>. QED
    BY <1>1, <1>2, <1>3, <1>4

\* The end of the session, by an overflow, the camera, the socket or Close.
LEMMA EndInv ==
  ASSUME IInv, End \/ \E id \in netData : RecvOverflow(id)
  PROVE  IInv'
  <1>. USE DEF camera, net, receiving, sending
  <1>1. /\ netData' \subseteq netData /\ closed' # "no" /\ closed' \in {"recv overflow", "ended"}
        /\ UNCHANGED <<camera, netAcks, outData, outAcks, receiving, sending>>
    BY DEF End, RecvOverflow, Shutdown, Take, Reading
  <1>2. TypeOK'
    BY <1>1 DEF IInv, TypeOK
  <1>. QED
    BY <1>1, <1>2 DEF IInv, InboundInOrder, AckInv, InboundKept, QueueInv, PacketInv, Packet, CamAckInv,
      CamIDs, NumberedInv

-----------------------------------------------------------------------------
LEMMA NextInv == IInv /\ [Next]_vars => IInv'
  <1>. SUFFICES ASSUME IInv, [Next]_vars PROVE IInv'
    OBVIOUS
  <1>1. CASE ReadLoop
    BY <1>1, RecvDataInv, EndInv, RecvAckInv, MoveInv DEF ReadLoop
  <1>2. CASE WriteLoop
    BY <1>2, SendChunkInv, WriteLoopInv DEF WriteLoop
  <1>3. CASE UNCHANGED vars
    <2>1. TypeOK'
      BY <1>3 DEF IInv, TypeOK, vars, camera, net, receiving, sending
    <2>. QED
      BY <1>3, <2>1 DEF IInv, InboundInOrder, AckInv, InboundKept, QueueInv, PacketInv, Packet, CamAckInv,
        CamIDs, NumberedInv, vars, camera, net, receiving, sending
  <1>. QED
    BY <1>1, <1>2, <1>3, CameraInv, MoveInv, WriteInv, EndInv DEF Next

LEMMA InvHolds == Spec => []IInv
  BY InitInv, NextInv, PTL DEF Spec

\* The variables keep their types; the windows and queues keep their bounds.
THEOREM TypeCorrect == Spec => []TypeOK
  <1>1. IInv => TypeOK
    BY DEF IInv
  <1>. QED
    BY <1>1, InvHolds, PTL

\* Whatever the network does with the datagrams, the chunks read, queued and
\* handed over are the consumed ones in order (readLoop, contiguousPayloads), and
\* what the camera has got under an id is the chunk written there (writeLoop).
THEOREM ChunksInOrder == Spec => []InOrder
  <1>1. IInv => InboundInOrder
    BY DEF IInv
  <1>2. IInv => OutboundInOrder
    <2>. SUFFICES ASSUME IInv, NEW pkt \in camGot
                  PROVE  pkt[1] < written /\ pkt[2] = pkt[1]
      BY DEF OutboundInOrder
    <2>1. pkt[1] \in 0..nextID - 1 /\ pkt = <<pkt[1], pkt[1]>>
      BY DEF IInv, PacketInv, Packet
    <2>2. nextID \in 0..written /\ written \in 0..OutN
      BY DEF IInv, TypeOK
    <2>3. pkt[2] = pkt[1]
      BY ONLY <2>1
    <2>. QED
      BY <2>1, <2>2, <2>3, BoundsAssumption
  <1>. QED
    BY <1>1, <1>2, InvHolds, PTL DEF InOrder

\* No side stops repeating what the other does not have (ackWindow, and the
\* acks in readLoop).
THEOREM NothingForgotten == Spec => []WindowsKept
  <1>1. IInv => WindowsKept
    <2>. SUFFICES ASSUME IInv, closed = "no", NEW k \in 0..written - 1,
                         <<k, k>> \notin sent \cup storing \cup camGot
                  PROVE  k >= nextID /\ writeQueue[k - nextID + 1] = k
      BY DEF IInv, WindowsKept, OutboundKept
    <2>1. /\ written = nextID + Len(writeQueue)
          /\ \A i \in 1..Len(writeQueue) : writeQueue[i] = nextID + i - 1
      BY DEF IInv, QueueInv
    <2>2. nextID \in Nat /\ written \in Nat /\ Len(writeQueue) \in Nat
      <3>1. TypeOK /\ writeQueue \in Seq(Nat)
        BY DEF IInv, TypeOK
      <3>. QED
        BY <3>1, Numbers, LenProperties
    <2>3. ~(k \in 0..nextID - 1)
      BY DEF IInv, NumberedInv
    <2>4. k >= nextID /\ k - nextID + 1 \in 1..Len(writeQueue)
      BY <2>1, <2>2, <2>3
    <2>5. writeQueue[k - nextID + 1] = nextID + (k - nextID + 1) - 1
      BY <2>1, <2>4
    <2>. QED
      BY <2>2, <2>4, <2>5
  <1>. QED
    BY <1>1, InvHolds, PTL

-----------------------------------------------------------------------------
(***************************************************************************)
(* The receiving half implements the safety part of ByteStream.            *)
(***************************************************************************)
LEMMA ReadGets ==
  ASSUME IInv, Read
  PROVE  Inbound!Get
  <1>1. /\ readQueue # <<>> /\ got' = Append(got, Head(readQueue))
        /\ camSent' = camSent /\ closed' = closed
    BY DEF Read, camera
  <1>2. TypeOK /\ got \in Seq(Nat) /\ readQueue \in Seq(Nat) /\ pushing \in Seq(Nat)
    BY DEF IInv, TypeOK
  <1>3. /\ Len(readQueue) \in Nat \ {0} /\ Head(readQueue) = readQueue[1]
        /\ Len(got) \in Nat /\ Len(pushing) \in Nat
    BY <1>1, <1>2, EmptySeq, LenProperties
  <1> DEFINE s == got \o readQueue
  <1>4. /\ s \in Seq(Nat) /\ Len(s) = Len(got) + Len(readQueue)
        /\ s[Len(got) + 1] = readQueue[1]
    <2>1. /\ s \in Seq(Nat) /\ Len(s) = Len(got) + Len(readQueue)
          /\ \A i \in 1..Len(got) + Len(readQueue) :
               s[i] = IF i <= Len(got) THEN got[i] ELSE readQueue[i - Len(got)]
      BY <1>2, ConcatProperties
    <2>2. Len(got) + 1 \in 1..Len(got) + Len(readQueue) /\ (Len(got) + 1) - Len(got) = 1
      BY <1>3
    <2>. HIDE DEF s
    <2>3. 1 <= Len(got) + 1 /\ ~(Len(got) + 1 <= Len(got))
      BY <1>3
    <2>4. s[Len(got) + 1] = readQueue[(Len(got) + 1) - Len(got)]
      BY <2>1, <2>2, <2>3
    <2>. QED
      BY <2>1, <2>2, <2>4
  <1>. HIDE DEF s
  <1>5. /\ Len(s \o pushing) = Len(s) + Len(pushing)
        /\ (s \o pushing)[Len(got) + 1] = readQueue[1]
    <2>1. /\ Len(s \o pushing) = Len(s) + Len(pushing)
          /\ \A i \in 1..Len(s) + Len(pushing) :
               (s \o pushing)[i] = IF i <= Len(s) THEN s[i] ELSE pushing[i - Len(s)]
      BY <1>2, <1>4, ConcatNat
    <2>2. Len(got) + 1 \in 1..Len(s) + Len(pushing) /\ Len(got) + 1 <= Len(s)
      BY <1>3, <1>4
    <2>. QED
      BY <1>4, <2>1, <2>2
  <1>6. s \o pushing = Chunks(0, next)
    BY DEF IInv, InboundInOrder, s
  <1>7. next \in Nat /\ next <= camSent /\ camSent \in Nat
    BY <1>2, Numbers
  <1>8. /\ Len(Chunks(0, next)) = next
        /\ \A i \in 1..next : Chunks(0, next)[i] = i - 1
    BY <1>7, ChunksProperties
  <1>9. Len(got) < next /\ Head(readQueue) = Len(got)
    <2>1. Len(got) + Len(readQueue) + Len(pushing) = next
      BY <1>4, <1>5, <1>6, <1>8
    <2>2. Len(got) < next /\ Len(got) + 1 \in 1..next
      BY <1>3, <1>7, <2>1
    <2>3. readQueue[1] = (Len(got) + 1) - 1
      BY <1>5, <1>6, <1>8, <2>2
    <2>. QED
      BY <1>3, <2>2, <2>3
  <1>. QED
    BY <1>1, <1>3, <1>7, <1>9 DEF Inbound!Get

\* Every step of the session, the camera or the network is one of ByteStream
\* or is not seen by it.
THEOREM InboundIsByteStream == Spec => Inbound!Init /\ [][Inbound!Next]_(Inbound!vars)
  <1>1. Init => Inbound!Init
    BY DEF Init, Inbound!Init
  <1>2. IInv /\ [Next]_vars => [Inbound!Next]_(Inbound!vars)
    <2>. SUFFICES ASSUME IInv, [Next]_vars PROVE [Inbound!Next]_(Inbound!vars)
      OBVIOUS
    <2>. USE DEF camera, receiving, sending, Inbound!vars
    <2>1. CASE Read
      BY <2>1, ReadGets DEF Inbound!Next
    <2>2. CASE CameraSend
      BY <2>2 DEF CameraSend, Inbound!Put, Inbound!Next
    <2>3. CASE End \/ SendOverflow \/ \E id \in netData : RecvOverflow(id)
      <3>1. closed = "no" /\ closed' # "no" /\ camSent' = camSent /\ got' = got
        BY <2>3 DEF End, SendOverflow, RecvOverflow, Writing, Reading, Shutdown
      <3>. QED
        BY <3>1 DEF Inbound!Break, Inbound!Next
    <2>4. CASE \/ Write \/ PushChunk \/ SendChunk \/ StoreSent \/ TickResend \/ TickAck
               \/ \E id \in netData : RecvData(id)
               \/ \E ack \in netAcks : RecvAck(ack)
      BY <2>4 DEF Write, PushChunk, SendChunk, StoreSent, TickResend, TickAck, RecvData, RecvAck
    <2>5. CASE \/ CameraAck \/ Lose
               \/ \E id \in camUnacked : CameraResend(id)
               \/ \E ack \in outAcks : CameraRecvAck(ack)
               \/ \E pkt \in outData : CameraRecvData(pkt)
      BY <2>5 DEF CameraAck, Lose, CameraResend, CameraRecvAck, CameraRecvData
    <2>6. CASE UNCHANGED vars
      BY <2>6 DEF vars
    <2>. QED
      BY <2>1, <2>2, <2>3, <2>4, <2>5, <2>6 DEF Next, CameraNext, ReadLoop, WriteLoop
  <1>. QED
    BY <1>1, <1>2, InvHolds, PTL DEF Spec
=============================================================================
