---------------------------- MODULE UidTransport ----------------------------
(***************************************************************************)
(* The UDP transport of a camera addressed by its UID (uidSession in       *)
(* pkg/baichuan/uid.go with the window helpers of udp.go), over a network  *)
(* that loses, repeats and reorders datagrams.  The two goroutines of the  *)
(* session, the client that reads and writes, and the camera interleave.   *)
(*                                                                         *)
(* A packet id stands for its payload: the k-th chunk has the payload k.   *)
(* The camera is not part of the repository; it is modelled by the         *)
(* protocol uid.go expects of it: it repeats a data packet until that is   *)
(* acknowledged, and acknowledges what it has received.                    *)
(***************************************************************************)
EXTENDS Integers, Sequences, FiniteSets

CONSTANTS
  InN,        \* bound: data packets the camera sends
  OutN,       \* bound: chunks the client writes
  QueueCap,   \* capacity of readQueue and writeQueue (128)
  RecvLimit,  \* recvPackets may grow to RecvLimit + 1 entries (1024)
  SendLimit,  \* sentPackets may grow to SendLimit + 1 entries (1024)
  AckSpan     \* longest bitmap of an ack (200)

ASSUME BoundsAssumption ==
  /\ InN \in Nat /\ OutN \in Nat /\ QueueCap \in Nat \ {0}
  /\ RecvLimit \in Nat /\ SendLimit \in Nat /\ AckSpan \in Nat

VARIABLES
  \* camera and network
  camSent,     \* data packets the camera has sent: 0 to camSent - 1
  camUnacked,  \* those it still repeats
  camGot,      \* packets <<id, chunk>> the camera has received
  netData,     \* data datagrams on their way to the session (ids)
  netAcks,     \* ack datagrams on their way to the session
  outData,     \* data datagrams on their way to the camera: <<id, chunk>>
  outAcks,     \* ack datagrams on their way to the camera
  \* the receiving half of the session
  recv,        \* ids in recvPackets
  next,        \* first id not consumed: consumedID + 1, 0 before hasConsumed
  pushing,     \* chunks the read loop is about to put into readQueue
  readQueue,   \* chunks waiting for Read
  got,         \* chunks Read has returned (history)
  \* the sending half of the session
  written,     \* chunks accepted by Write
  writeQueue,
  nextID,      \* nextPacketID
  storing,     \* packets sent but not yet in sentPackets (none or one)
  sent,        \* sentPackets
  ticking,     \* the write loop is between the resends and the ack of a tick
  \* the session's end
  closed       \* why closeCh is closed, "no" while it is open

camera == <<camSent, camUnacked, camGot>>
net == <<netData, netAcks, outData, outAcks>>
receiving == <<recv, next, pushing, readQueue, got>>
sending == <<written, writeQueue, nextID, storing, sent, ticking>>
vars == <<camera, net, receiving, sending, closed>>

Init ==
  /\ camSent = 0 /\ camUnacked = {} /\ camGot = {}
  /\ netData = {} /\ netAcks = {} /\ outData = {} /\ outAcks = {}
  /\ recv = {} /\ next = 0 /\ pushing = <<>> /\ readQueue = <<>> /\ got = <<>>
  /\ written = 0 /\ writeQueue = <<>> /\ nextID = 0 /\ storing = {} /\ sent = {}
  /\ ticking = FALSE
  /\ closed = "no"

\* The chunks from a to b - 1.
Chunks(a, b) == [i \in 1..(b - a) |-> a + i - 1]

\* shutdown: the first reason stays, closeOnce drops the later ones.
Shutdown(why) == closed' = IF closed = "no" THEN why ELSE closed

(***************************************************************************)
(* Acks.  An ack covers every id up to upto and the ids in extra.          *)
(***************************************************************************)
\* ackWindow: the bitmap ends at the largest stored id, AckSpan at most.
AckWindow ==
  [upto |-> next - 1,
   extra |-> {id \in recv : id >= next /\ id - (next - 1) <= AckSpan}]

Acked(ack, id) == id <= ack.upto \/ id \in ack.extra

(***************************************************************************)
(* The camera and the network.                                             *)
(***************************************************************************)
CameraSend ==
  /\ camSent < InN
  /\ camSent' = camSent + 1
  /\ camUnacked' = camUnacked \cup {camSent}
  /\ netData' = netData \cup {camSent}
  /\ UNCHANGED <<camGot, netAcks, outData, outAcks, receiving, sending, closed>>

CameraResend(id) ==
  /\ id \in camUnacked \ netData
  /\ netData' = netData \cup {id}
  /\ UNCHANGED <<camera, netAcks, outData, outAcks, receiving, sending, closed>>

\* A datagram may stay in the network after it was received: a duplicate.
Take(pool, m) == {pool, pool \ {m}}

CameraRecvAck(ack) ==
  /\ ack \in outAcks
  /\ outAcks' \in Take(outAcks, ack)
  /\ camUnacked' = {id \in camUnacked : ~Acked(ack, id)}
  /\ UNCHANGED <<camSent, camGot, netData, netAcks, outData, receiving, sending, closed>>

CameraRecvData(pkt) ==
  /\ pkt \in outData
  /\ outData' \in Take(outData, pkt)
  /\ camGot' = camGot \cup {pkt}
  /\ UNCHANGED <<camSent, camUnacked, netData, netAcks, outAcks, receiving, sending, closed>>

CamIDs == {pkt[1] : pkt \in camGot}

\* The camera acknowledges the ids it has without a gap, and the others; like
\* ackWindow it sends nothing before it has the first packet.
CameraAck ==
  \E n \in 1..OutN :
    /\ 0..(n - 1) \subseteq CamIDs /\ n \notin CamIDs
    /\ netAcks' = netAcks \cup
         {[upto |-> n - 1, extra |-> {id \in CamIDs : id >= n}]}
    /\ UNCHANGED <<camera, netData, outData, outAcks, receiving, sending, closed>>

Lose ==
  /\ \/ \E id \in netData : netData' = netData \ {id} /\ UNCHANGED <<netAcks, outData, outAcks>>
     \/ \E a \in netAcks : netAcks' = netAcks \ {a} /\ UNCHANGED <<netData, outData, outAcks>>
     \/ \E p \in outData : outData' = outData \ {p} /\ UNCHANGED <<netData, netAcks, outAcks>>
     \/ \E a \in outAcks : outAcks' = outAcks \ {a} /\ UNCHANGED <<netData, netAcks, outData>>
  /\ UNCHANGED <<camera, receiving, sending, closed>>

(***************************************************************************)
(* readLoop.  It takes the next datagram only when it has handed over all  *)
(* chunks of the last one.                                                 *)
(***************************************************************************)
Reading == closed = "no" /\ pushing = <<>>

\* Mutant of RecvData: a chunk that was consumed before is handed over again.
RecvDataTwice(id) ==
  /\ Reading /\ id \in netData
  /\ Cardinality(recv) <= RecvLimit
  /\ netData' \in Take(netData, id)
  /\ IF id < next
     THEN pushing' = <<id>> /\ UNCHANGED <<recv, next>>
     ELSE \E k \in next..InN :
       /\ next..(k - 1) \subseteq recv \cup {id} /\ k \notin recv \cup {id}
       /\ recv' = (recv \cup {id}) \ (next..(k - 1))
       /\ pushing' = Chunks(next, k)
       /\ next' = k
  /\ UNCHANGED <<camera, netAcks, outData, outAcks, readQueue, got, sending, closed>>

\* A data packet is stored, whether or not it was consumed before, and the
\* contiguous payloads are taken out.
RecvData(id) ==
  /\ Reading /\ id \in netData
  /\ Cardinality(recv) <= RecvLimit
  /\ netData' \in Take(netData, id)
  /\ \E k \in next..InN :
       /\ next..(k - 1) \subseteq recv \cup {id} /\ k \notin recv \cup {id}
       /\ recv' = (recv \cup {id}) \ (next..(k - 1))
       /\ pushing' = Chunks(next, k)
       /\ next' = k
  /\ UNCHANGED <<camera, netAcks, outData, outAcks, readQueue, got, sending, closed>>

RecvOverflow(id) ==
  /\ Reading /\ id \in netData
  /\ Cardinality(recv) > RecvLimit
  /\ netData' \in Take(netData, id)
  /\ Shutdown("recv overflow")
  /\ UNCHANGED <<camera, netAcks, outData, outAcks, receiving, sending>>

\* Mutant of RecvAck: the loop over sentPackets is off by one.
RecvAckOffByOne(ack) ==
  /\ Reading /\ ack \in netAcks
  /\ netAcks' \in Take(netAcks, ack)
  /\ sent' = {pkt \in sent : pkt[1] > ack.upto + 1 /\ pkt[1] \notin ack.extra}
  /\ UNCHANGED <<camera, netData, outData, outAcks, receiving, closed,
                 written, writeQueue, nextID, storing, ticking>>

\* Mutant of RecvAck: only the bitmap is looked at.
RecvAckBitmapOnly(ack) ==
  /\ Reading /\ ack \in netAcks
  /\ netAcks' \in Take(netAcks, ack)
  /\ sent' = {pkt \in sent : pkt[1] \notin ack.extra}
  /\ UNCHANGED <<camera, netData, outData, outAcks, receiving, closed,
                 written, writeQueue, nextID, storing, ticking>>

RecvAck(ack) ==
  /\ Reading /\ ack \in netAcks
  /\ netAcks' \in Take(netAcks, ack)
  /\ sent' = {pkt \in sent : ~Acked(ack, pkt[1])}
  /\ UNCHANGED <<camera, netData, outData, outAcks, receiving, closed,
                 written, writeQueue, nextID, storing, ticking>>

PushChunk ==
  /\ pushing # <<>>
  /\ Len(readQueue) < QueueCap
  /\ readQueue' = Append(readQueue, Head(pushing))
  /\ pushing' = Tail(pushing)
  /\ UNCHANGED <<camera, net, recv, next, got, sending, closed>>

(***************************************************************************)
(* Read.  Once closeCh is closed, select may pick the end although chunks  *)
(* wait: then Read takes no further step, as no loop does that has ended.  *)
(***************************************************************************)
Read ==
  /\ readQueue # <<>>
  /\ got' = Append(got, Head(readQueue))
  /\ readQueue' = Tail(readQueue)
  /\ UNCHANGED <<camera, net, recv, next, pushing, sending, closed>>

(***************************************************************************)
(* Write and writeLoop.                                                    *)
(***************************************************************************)
Write ==
  /\ written < OutN /\ closed = "no"
  /\ Len(writeQueue) < QueueCap
  /\ writeQueue' = Append(writeQueue, written)
  /\ written' = written + 1
  /\ UNCHANGED <<camera, net, receiving, closed, nextID, storing, sent, ticking>>

Writing == closed = "no" /\ storing = {} /\ ~ticking

\* The packet goes out before it enters sentPackets; an ack may come first.
SendChunk ==
  /\ Writing /\ writeQueue # <<>>
  /\ Cardinality(sent) <= SendLimit
  /\ LET pkt == <<nextID, Head(writeQueue)>> IN
       /\ outData' = outData \cup {pkt}
       /\ storing' = {pkt}
  /\ nextID' = nextID + 1
  /\ writeQueue' = Tail(writeQueue)
  /\ UNCHANGED <<camera, netData, netAcks, outAcks, receiving, closed, written, sent, ticking>>

SendOverflow ==
  /\ Writing /\ writeQueue # <<>>
  /\ Cardinality(sent) > SendLimit
  /\ writeQueue' = Tail(writeQueue)
  /\ Shutdown("send overflow")
  /\ UNCHANGED <<camera, net, receiving, written, nextID, storing, sent, ticking>>

StoreSent ==
  /\ storing # {}
  /\ sent' = sent \cup storing /\ storing' = {}
  /\ UNCHANGED <<camera, net, receiving, closed, written, writeQueue, nextID, ticking>>

\* A tick repeats every packet in sentPackets, then sends an ack.
TickResend ==
  /\ Writing
  /\ outData' = outData \cup sent
  /\ ticking' = TRUE
  /\ UNCHANGED <<camera, netData, netAcks, outAcks, receiving, closed,
                 written, writeQueue, nextID, storing, sent>>

TickAck ==
  /\ ticking /\ ticking' = FALSE
  /\ outAcks' = IF next > 0 /\ closed = "no" THEN outAcks \cup {AckWindow} ELSE outAcks
  /\ UNCHANGED <<camera, netData, netAcks, outData, receiving, closed,
                 written, writeQueue, nextID, storing, sent>>

(***************************************************************************)
(* The end of a session: the camera asks for it, the socket fails, or the  *)
(* client closes.                                                          *)
(***************************************************************************)
End ==
  /\ closed = "no"
  /\ Shutdown("ended")
  /\ UNCHANGED <<camera, net, receiving, sending>>

-----------------------------------------------------------------------------
CameraNext ==
  \/ CameraSend \/ CameraAck
  \/ \E id \in camUnacked : CameraResend(id)
  \/ \E ack \in outAcks : CameraRecvAck(ack)
  \/ \E pkt \in outData : CameraRecvData(pkt)

ReadLoop ==
  \/ \E id \in netData : RecvData(id) \/ RecvOverflow(id)
  \/ \E ack \in netAcks : RecvAck(ack)
  \/ PushChunk

WriteLoop ==
  \/ SendChunk \/ SendOverflow \/ StoreSent \/ TickResend \/ TickAck

\* Once closeCh is closed nobody reads the socket: the network stands still.
Next ==
  \/ closed = "no" /\ (CameraNext \/ Lose)
  \/ ReadLoop \/ WriteLoop
  \/ Read \/ Write \/ End

Spec == Init /\ [][Next]_vars

(***************************************************************************)
(* Fairness.  The goroutines and the client run on (WF); Go's select is    *)
(* fair between a ready queue and a ready ticker (SF).  The camera repeats *)
(* and acknowledges (WF), and a datagram sent again and again gets through *)
(* (SF): the assumption about the network every such protocol needs.       *)
(***************************************************************************)
SessionFairness ==
  /\ WF_vars(closed = "no" /\ PushChunk) /\ WF_vars(closed = "no" /\ Read)
  /\ WF_vars(StoreSent \/ TickAck)
  /\ SF_vars(SendChunk) /\ SF_vars(TickResend)

NetworkFairness ==
  /\ \A id \in 0..(InN - 1) :
       /\ WF_vars(closed = "no" /\ CameraResend(id)) /\ SF_vars(RecvData(id))
       /\ SF_vars(closed = "no" /\ \E ack \in outAcks : Acked(ack, id) /\ CameraRecvAck(ack))
  /\ \A k \in 0..(OutN - 1) :
       /\ SF_vars(closed = "no" /\ CameraRecvData(<<k, k>>))
       /\ SF_vars(\E ack \in netAcks : Acked(ack, k) /\ RecvAck(ack))
  /\ WF_vars(closed = "no" /\ CameraAck)

FairSpec == Spec /\ SessionFairness /\ NetworkFairness

-----------------------------------------------------------------------------
Acks(n) == [upto : 0..(n - 1), extra : SUBSET (0..(n - 1))]

\* The types of the variables.
TypeOK ==
  /\ camSent \in 0..InN /\ camUnacked \subseteq 0..(camSent - 1)
  /\ netData \subseteq 0..(camSent - 1)
  /\ camGot \subseteq Nat \X Nat /\ outData \subseteq Nat \X Nat
  /\ netAcks \subseteq Acks(OutN) /\ outAcks \subseteq Acks(InN)
  /\ recv \subseteq 0..(camSent - 1) /\ next \in 0..camSent
  /\ pushing \in Seq(Nat) /\ readQueue \in Seq(Nat) /\ got \in Seq(Nat)
  /\ Len(readQueue) <= QueueCap /\ Len(writeQueue) <= QueueCap
  /\ written \in 0..OutN /\ nextID \in 0..written /\ writeQueue \in Seq(Nat)
  /\ storing \subseteq Nat \X Nat /\ sent \subseteq Nat \X Nat
  /\ ticking \in BOOLEAN
  /\ closed \in {"no", "recv overflow", "send overflow", "ended"}

\* readLoop, contiguousPayloads, Read: what the client has read, what waits in
\* readQueue and what the read loop is handing over are together the consumed
\* chunks from the first on.
InboundInOrder == got \o readQueue \o pushing = Chunks(0, next)

\* Write, writeLoop: the camera puts the stream together by the ids, so what it
\* has got under an id, first or repeated, is the chunk written at that place,
\* and never two chunks under one id.
OutboundInOrder == \A pkt \in camGot : pkt[1] < written /\ pkt[2] = pkt[1]

\* Both byte streams: no loss, repetition or reordering of datagrams shows
\* through, and no chunk falls between two critical sections.
InOrder == InboundInOrder /\ OutboundInOrder

\* ackWindow: the camera stops repeating a packet only when the session holds
\* it. A wrong ack loses the packet for good and stalls the stream.
InboundKept ==
  \A id \in 0..(camSent - 1) : id \in camUnacked \/ id \in recv \/ id < next

\* Write, writeLoop and the ack handling of readLoop: every chunk accepted is
\* on its way to the loop, in sentPackets (or about to be), or at the camera,
\* under the id of its place in the stream.
OutboundKept ==
  closed = "no" =>
    \A k \in 0..(written - 1) :
      \/ k >= nextID /\ writeQueue[k - nextID + 1] = k
      \/ <<k, k>> \in sent \cup storing \cup camGot

\* Both windows: no side stops repeating what the other does not have yet.
WindowsKept == InboundKept /\ OutboundKept

\* The receiving half implements ByteStream.
Inbound == INSTANCE ByteStream WITH put <- camSent, got <- got, open <- (closed = "no")
ImplementsByteStream == Inbound!Spec

\* While the session lasts and nothing new is sent (InN and OutN end that),
\* both sides come to rest: every chunk reaches the other side and every ack
\* gets through, also one that overtakes the bookkeeping of the write loop,
\* which stores a packet only after sending it. Nothing is repeated for ever.
TrafficSettles ==
  []<>(closed # "no" \/ ( camUnacked = {} /\ writeQueue = <<>>
                         /\ storing = {} /\ sent = {} ))
=============================================================================
