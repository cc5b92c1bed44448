-------------------------- MODULE TalkBridgeProofs --------------------------
(***************************************************************************)
(* Theorems about TalkBridge, for any finite set of sessions, any queue    *)
(* and any number of bridges and packets.                                  *)
(***************************************************************************)
EXTENDS TalkBridge, SequenceTheorems, FiniteSetTheorems, TLAPS

\* A session that holds a bridge is not leaving one.
LeaveInv == \A s \in Sessions : talk[s] # 0 => leaving[s] = 0

CountInv == TypeOK /\ LeaveInv /\ HeldOrClosing

USE DEF NoPacket

-----------------------------------------------------------------------------
(***************************************************************************)
(* Types.                                                                  *)
(***************************************************************************)
LEMMA EmptyQueue == <<>> \in Seq(Packets) /\ Len(<<>>) = 0
  BY EmptySeq

\* A packet, alone or with its bridge, is something.
LEMMA PacketIsSome ==
  /\ \A p \in Packets : p # NoPacket
  /\ \A b : \A p \in Packets : <<b, p>> # NoPacket
  BY DEF Packets

LEMMA QueueTail ==
  ASSUME NEW q \in Seq(Packets), q # <<>>
  PROVE  /\ Head(q) \in Packets /\ Tail(q) \in Seq(Packets)
         /\ Len(Tail(q)) = Len(q) - 1 /\ Len(q) \in Nat \ {0}
  BY HeadTailProperties, EmptySeq

LEMMA InitTypes == Init => TypeOK
  <1>. SUFFICES ASSUME Init PROVE TypeOK
    OBVIOUS
  <1>1. PublisherTypes
    BY SizesAssumption DEF Init, PublisherTypes
  <1>2. InputTypes
    BY SizesAssumption, EmptyQueue DEF Init, InputTypes, Bridges
  <1>3. PipeTypes
    <2>1. \A b \in Bridges : b > 0
      BY SizesAssumption DEF Bridges
    <2>. QED
      BY <2>1, EmptyQueue DEF Init, PipeTypes, Places, PacketOrNone, Bridges
  <1>. QED
    BY <1>1, <1>2, <1>3 DEF TypeOK

\* The queues change only by one packet more or less.
LEMMA InputTypesKeep ==
  ASSUME TypeOK, UNCHANGED <<bridges, inputVars>>, queue' \in [Bridges -> Seq(Packets)],
         \A b \in Bridges : Len(queue'[b]) <= QueueSize
  PROVE  InputTypes'
  BY DEF TypeOK, InputTypes, inputVars

LEMMA PopTypes ==
  ASSUME TypeOK, NEW b \in Bridges, queue[b] # <<>>, Pop(b), UNCHANGED <<bridges, inputVars>>
  PROVE  InputTypes' /\ Head(queue[b]) \in Packets
  <1>1. queue[b] \in Seq(Packets) /\ queue \in [Bridges -> Seq(Packets)]
        /\ \A c \in Bridges : Len(queue[c]) <= QueueSize
    BY DEF TypeOK, InputTypes
  <1>2. /\ Head(queue[b]) \in Packets /\ Tail(queue[b]) \in Seq(Packets)
        /\ Len(Tail(queue[b])) = Len(queue[b]) - 1 /\ Len(queue[b]) \in Nat \ {0}
    BY <1>1, QueueTail
  <1>3. queue' = [queue EXCEPT ![b] = Tail(queue[b])]
    BY DEF Pop
  <1>4. Len(Tail(queue[b])) <= QueueSize
    BY <1>1, <1>2, SizesAssumption
  <1>5. queue' \in [Bridges -> Seq(Packets)] /\ \A c \in Bridges : Len(queue'[c]) <= QueueSize
    BY <1>1, <1>2, <1>3, <1>4
  <1>. QED
    BY <1>2, <1>5, InputTypesKeep

\* More bridges, and nothing else that input and pipelines see.
LEMMA OthersKeep ==
  ASSUME TypeOK, bridges' \in {bridges, bridges + 1}, UNCHANGED <<inputVars, queue>>
  PROVE  InputTypes' /\ (bridges' = bridges /\ UNCHANGED pipeVars => PipeTypes')
  <1>1. bridges \in Nat /\ 1..bridges \subseteq 1..bridges'
    BY SizesAssumption DEF TypeOK, PublisherTypes
  <1>2. /\ spoken' = spoken /\ holding' = holding /\ queue' = queue
        /\ holding \in [Sessions -> ((1..bridges) \X Packets) \cup {NoPacket}]
    BY DEF TypeOK, InputTypes, inputVars
  <1>3. holding' \in [Sessions -> ((1..bridges') \X Packets) \cup {NoPacket}]
    BY <1>1, <1>2
  <1>. QED
    BY <1>2, <1>3 DEF TypeOK, InputTypes, PipeTypes, pipeVars

LEMMA SessionTypes ==
  ASSUME TypeOK, NEW s \in Sessions, Session(s) \/ CloseBridge(s)
  PROVE  TypeOK'
  <1>1. /\ active \in 0..bridges /\ bridges \in 0..MaxBridges /\ bridges \in Nat /\ MaxBridges \in Nat
        /\ talk \in [Sessions -> 0..bridges] /\ leaving \in [Sessions -> 0..bridges]
        /\ refs \in [Bridges -> Int] /\ once \in [Bridges -> {"no", "finished", "done"}]
    BY SizesAssumption DEF TypeOK, PublisherTypes
  <1>2. talk[s] \in 0..bridges /\ leaving[s] \in 0..bridges
    BY <1>1
  <1>3. \A b \in 0..bridges : b # 0 => b \in Bridges /\ refs[b] \in Int
    BY <1>1 DEF Bridges
  <1>4. CASE Join(s)
    <2>1. /\ refs' = [refs EXCEPT ![active] = refs[active] + 1] /\ talk' = [talk EXCEPT ![s] = active]
          /\ UNCHANGED <<active, bridges, leaving, once, inputVars, queue, pipeVars>> /\ active # 0
      BY <1>4 DEF Join, ActiveAlive
    <2>2. PublisherTypes'
      BY <1>1, <1>3, <2>1 DEF PublisherTypes
    <2>. QED
      BY <2>1, <2>2, OthersKeep DEF TypeOK
  <1>5. CASE Create(s)
    <2>1. /\ bridges < MaxBridges /\ bridges' = bridges + 1 /\ active' = bridges + 1
          /\ refs' = [refs EXCEPT ![bridges + 1] = 1] /\ talk' = [talk EXCEPT ![s] = bridges + 1]
          /\ pipe' = [pipe EXCEPT ![bridges + 1] = "wait"]
          /\ UNCHANGED <<leaving, once, inputVars, queue, first, resume, open, written, slot>>
      BY <1>5 DEF Create
    <2>2. /\ bridges' \in 0..MaxBridges /\ active' \in 0..bridges'
          /\ \A b \in 0..bridges : b \in 0..bridges'
      BY <1>1, <2>1
    <2>3. talk' \in [Sessions -> 0..bridges'] /\ leaving' \in [Sessions -> 0..bridges']
      BY <1>1, <2>1, <2>2
    <2>4. PublisherTypes'
      <3>1. refs \in [Bridges -> Int] /\ refs' = [refs EXCEPT ![bridges + 1] = 1] /\ once' = once
        BY <1>1, <2>1
      <3>2. refs' \in [Bridges -> Int]
        <4>1. \A i : \A n \in Int : [refs EXCEPT ![i] = n] \in [Bridges -> Int]
          BY <3>1
        <4>2. 1 \in Int
          OBVIOUS
        <4>. QED
          BY <3>1, <4>1, <4>2
      <3>. QED
        BY <1>1, <2>2, <2>3, <3>1, <3>2 DEF PublisherTypes
    <2>5. PipeTypes'
      <3>1. /\ pipe \in [Bridges -> Places] /\ \A b \in Bridges : pipe[b] = "none" <=> b > bridges
            /\ \A b \in Bridges :
                 first[b] # NoPacket <=> pipe[b] \in {"ask", "reset", "askAgain", "opened"}
            /\ open \subseteq 1..bridges /\ slot \in 0..bridges
        BY DEF TypeOK, PipeTypes
      <3>2. bridges + 1 \in Bridges /\ pipe[bridges + 1] = "none"
        BY <1>1, <2>1, <3>1 DEF Bridges
      <3>3. /\ pipe' \in [Bridges -> Places]
            /\ \A b \in Bridges : pipe'[b] = IF b = bridges + 1 THEN "wait" ELSE pipe[b]
        BY <2>1, <3>1 DEF Places
      <3>4. \A b \in Bridges : pipe'[b] = "none" <=> b > bridges'
        BY <1>1, <2>1, <3>1, <3>2, <3>3 DEF Bridges
      <3>5. \A b \in Bridges :
              first[b] # NoPacket <=> pipe'[b] \in {"ask", "reset", "askAgain", "opened"}
        BY <3>1, <3>2, <3>3
      <3>6. open \subseteq 1..bridges' /\ slot \in 0..bridges'
        BY <1>1, <2>1, <3>1
      <3>. QED
        BY <2>1, <3>3, <3>4, <3>5, <3>6 DEF TypeOK, PipeTypes
    <2>. QED
      BY <2>1, <2>4, <2>5, OthersKeep DEF TypeOK
  <1>6. CASE Release(s)
    <2>1. /\ refs' = [refs EXCEPT ![talk[s]] = refs[talk[s]] - 1]
          /\ leaving' = [leaving EXCEPT ![s] = IF refs[talk[s]] - 1 <= 0 THEN talk[s] ELSE 0]
          /\ talk' = [talk EXCEPT ![s] = 0] /\ talk[s] # 0
          /\ UNCHANGED <<active, bridges, once, inputVars, queue, pipeVars>>
      BY <1>6 DEF Release
    <2>2. PublisherTypes'
      BY <1>1, <1>2, <1>3, <2>1 DEF PublisherTypes
    <2>. QED
      BY <2>1, <2>2, OthersKeep DEF TypeOK
  <1>7. CASE Finish(s)
    <2>1. /\ once' = [once EXCEPT ![leaving[s]] = "finished"] /\ active' \in {0, active}
          /\ UNCHANGED <<bridges, talk, refs, leaving, inputVars, queue, pipeVars>>
      BY <1>7 DEF Finish, Forget
    <2>2. PublisherTypes'
      <3>1. once \in [Bridges -> {"no", "finished", "done"}]
            /\ once' = [once EXCEPT ![leaving[s]] = "finished"]
        BY <1>1, <2>1
      <3>2. once' \in [Bridges -> {"no", "finished", "done"}]
        BY <3>1
      <3>. QED
        BY <1>1, <2>1, <3>2 DEF PublisherTypes
    <2>. QED
      BY <2>1, <2>2, OthersKeep DEF TypeOK
  <1>8. CASE CancelBridge(s)
    <2>1. /\ once' = [once EXCEPT ![leaving[s]] = "done"] /\ leaving' = [leaving EXCEPT ![s] = 0]
          /\ UNCHANGED <<active, bridges, talk, refs, inputVars, queue, pipeVars>>
      BY <1>8 DEF CancelBridge
    <2>2. PublisherTypes'
      <3>1. once \in [Bridges -> {"no", "finished", "done"}]
            /\ once' = [once EXCEPT ![leaving[s]] = "done"]
        BY <1>1, <2>1
      <3>2. once' \in [Bridges -> {"no", "finished", "done"}]
        BY <3>1
      <3>3. leaving' \in [Sessions -> 0..bridges]
        BY <1>1, <2>1
      <3>. QED
        BY <1>1, <2>1, <3>2, <3>3 DEF PublisherTypes
    <2>. QED
      BY <2>1, <2>2, OthersKeep DEF TypeOK
  <1>. QED
    BY <1>4, <1>5, <1>6, <1>7, <1>8 DEF Session, CloseBridge

\* Speech on its way into a queue.
LEMMA InputStepTypes ==
  ASSUME TypeOK, NEW s \in Sessions, Speak(s) \/ Input(s)
  PROVE  TypeOK'
  <1>1. /\ spoken \in 0..MaxPackets /\ MaxPackets \in Nat
        /\ holding \in [Sessions -> ((1..bridges) \X Packets) \cup {NoPacket}]
        /\ queue \in [Bridges -> Seq(Packets)] /\ \A b \in Bridges : Len(queue[b]) <= QueueSize
        /\ talk[s] \in 0..bridges /\ bridges \in 0..MaxBridges /\ MaxBridges \in Nat
    BY SizesAssumption DEF TypeOK, InputTypes, PublisherTypes
  <1>2. UNCHANGED <<publisherVars, pipeVars>>
    BY DEF Speak, Input, Enqueue, DropOldest, GiveUp
  <1>3. PublisherTypes' /\ PipeTypes'
    BY <1>2 DEF TypeOK, PublisherTypes, PipeTypes, publisherVars, pipeVars
  <1>4. bridges' = bridges
    BY <1>2 DEF publisherVars
  <1>5. CASE Speak(s)
    <2>1. /\ talk[s] # 0 /\ spoken < MaxPackets /\ spoken' = spoken + 1 /\ queue' = queue
          /\ holding' = [holding EXCEPT ![s] = <<talk[s], <<s, spoken + 1>>>>]
      BY <1>5 DEF Speak
    <2>2. spoken' \in 0..MaxPackets /\ <<s, spoken + 1>> \in Packets /\ talk[s] \in 1..bridges
      BY <1>1, <2>1 DEF Packets
    <2>3. InputTypes'
      BY <1>1, <1>4, <2>1, <2>2 DEF InputTypes
    <2>. QED
      BY <1>3, <2>3 DEF TypeOK
  <1>6. CASE Enqueue(s)
    <2>1. /\ holding[s] # NoPacket /\ Len(queue[holding[s][1]]) # QueueSize
          /\ queue' = [queue EXCEPT ![holding[s][1]] = Append(queue[holding[s][1]], holding[s][2])]
          /\ holding' = [holding EXCEPT ![s] = NoPacket] /\ spoken' = spoken
      BY <1>6 DEF Enqueue, Target, Full
    <2> DEFINE b == holding[s][1]
               p == holding[s][2]
    <2>2. b \in Bridges /\ p \in Packets
      BY <1>1, <2>1 DEF Bridges
    <2>3. Append(queue[b], p) \in Seq(Packets) /\ Len(Append(queue[b], p)) = Len(queue[b]) + 1
      BY <1>1, <2>2, AppendProperties
    <2>4. Len(queue[b]) \in Nat
      BY <1>1, <2>2, LenProperties
    <2>5. Len(Append(queue[b], p)) <= QueueSize
      BY <1>1, <2>1, <2>2, <2>3, <2>4, SizesAssumption
    <2>. HIDE DEF p
    <2>6. /\ queue' \in [Bridges -> Seq(Packets)] /\ \A c \in Bridges : Len(queue'[c]) <= QueueSize
      BY <1>1, <2>1, <2>2, <2>3, <2>5 DEF p
    <2>7. InputTypes'
      BY <1>1, <1>4, <2>1, <2>6 DEF InputTypes
    <2>. QED
      BY <1>3, <2>7 DEF TypeOK
  <1>7. CASE DropOldest(s)
    <2>1. /\ holding[s] # NoPacket /\ Len(queue[holding[s][1]]) = QueueSize
          /\ queue' = [queue EXCEPT ![holding[s][1]] = Tail(queue[holding[s][1]])]
          /\ UNCHANGED <<bridges, inputVars>>
      BY <1>4, <1>7 DEF DropOldest, Target, Full
    <2>2. holding[s][1] \in Bridges
      BY <1>1, <2>1 DEF Bridges
    <2>3. queue[holding[s][1]] # <<>>
      BY <2>1, EmptyQueue, SizesAssumption
    <2>4. InputTypes'
      BY <2>1, <2>2, <2>3, PopTypes DEF Pop
    <2>. QED
      BY <1>3, <2>4 DEF TypeOK
  <1>8. CASE GiveUp(s)
    <2>1. holding' = [holding EXCEPT ![s] = NoPacket] /\ spoken' = spoken /\ queue' = queue
      BY <1>8 DEF GiveUp
    <2>2. InputTypes'
      BY <1>1, <1>4, <2>1 DEF InputTypes
    <2>. QED
      BY <1>3, <2>2 DEF TypeOK
  <1>. QED
    BY <1>5, <1>6, <1>7, <1>8 DEF Input

-----------------------------------------------------------------------------
(***************************************************************************)
(* The pipelines.                                                          *)
(***************************************************************************)
Asking == {"ask", "reset", "askAgain", "opened"}

\* What a step of pipeline b does, as far as the types see it: it goes to l
\* with packet f in hand, and its StartTalk returns to r.
PipeMoves(b, l, f, r) ==
  /\ pipe' = [pipe EXCEPT ![b] = l] /\ first' = [first EXCEPT ![b] = f]
  /\ resume' = [resume EXCEPT ![b] = r]
  /\ l \in Places \ {"none"} /\ pipe[b] # "none" /\ r \in {"wait", "bridge", "flush"}
  /\ IF l \in Asking THEN f \in Packets ELSE f = NoPacket
  /\ open' \subseteq open \cup {b} /\ slot' \in {slot, b, 0}
  /\ written' = written \/ (\E p \in Packets : written' = [written EXCEPT ![b] = Append(written[b], p)])

LEMMA PipeMovesTypes ==
  ASSUME TypeOK, NEW b \in Bridges, NEW l, NEW f, NEW r, PipeMoves(b, l, f, r), UNCHANGED bridges
  PROVE  PipeTypes'
  <1>1. /\ pipe \in [Bridges -> Places] /\ \A c \in Bridges : pipe[c] = "none" <=> c > bridges
        /\ first \in [Bridges -> PacketOrNone] /\ resume \in [Bridges -> {"wait", "bridge", "flush"}]
        /\ open \subseteq 1..bridges /\ slot \in 0..bridges
        /\ written \in [Bridges -> Seq(Packets)] /\ bridges \in Nat
    BY SizesAssumption DEF TypeOK, PipeTypes, PublisherTypes
  <1>2. \A c \in Bridges : first[c] # NoPacket <=> pipe[c] \in Asking
    BY DEF TypeOK, PipeTypes, Asking
  <1>3. /\ \A c \in Bridges : /\ pipe'[c] = IF c = b THEN l ELSE pipe[c]
                              /\ first'[c] = IF c = b THEN f ELSE first[c]
        /\ pipe' \in [Bridges -> Places] /\ f \in PacketOrNone
        /\ first' \in [Bridges -> PacketOrNone] /\ resume' \in [Bridges -> {"wait", "bridge", "flush"}]
    BY <1>1 DEF PipeMoves, PacketOrNone
  <1>4. \A c \in Bridges : first'[c] # NoPacket <=> pipe'[c] \in Asking
    BY <1>2, <1>3, PacketIsSome DEF PipeMoves
  <1>5. b \in 1..bridges
    BY <1>1 DEF PipeMoves, Bridges
  <1>6. open' \subseteq 1..bridges /\ slot' \in 0..bridges
    BY <1>1, <1>5 DEF PipeMoves
  <1>7. written' \in [Bridges -> Seq(Packets)]
    <2>1. \A p \in Packets : Append(written[b], p) \in Seq(Packets)
      BY <1>1, AppendProperties
    <2>. QED
      BY <1>1, <2>1 DEF PipeMoves
  <1>8. \A c \in Bridges : pipe'[c] = "none" <=> c > bridges
    BY <1>1, <1>3 DEF PipeMoves
  <1>. QED
    BY <1>3, <1>4, <1>6, <1>7, <1>8 DEF PipeTypes, Asking

\* What is in hand and where.
LEMMA InPipe ==
  ASSUME TypeOK, NEW b \in Bridges
  PROVE  /\ pipe[b] \in Places /\ resume[b] \in {"wait", "bridge", "flush"}
         /\ pipe[b] \in Asking => first[b] \in Packets
         /\ pipe[b] \notin Asking => first[b] = NoPacket
         /\ pipe = [pipe EXCEPT ![b] = pipe[b]] /\ first = [first EXCEPT ![b] = first[b]]
         /\ resume = [resume EXCEPT ![b] = resume[b]]
  BY DEF TypeOK, PipeTypes, PacketOrNone, Asking

LEMMA PipelineTypes ==
  ASSUME TypeOK, NEW b \in Bridges, Pipeline(b)
  PROVE  TypeOK'
  <1>0. /\ pipe[b] \in Places /\ resume[b] \in {"wait", "bridge", "flush"}
        /\ pipe[b] \in Asking => first[b] \in Packets
        /\ pipe[b] \notin Asking => first[b] = NoPacket
        /\ pipe = [pipe EXCEPT ![b] = pipe[b]] /\ first = [first EXCEPT ![b] = first[b]]
        /\ resume = [resume EXCEPT ![b] = resume[b]]
    BY InPipe
  <1>1. PublisherTypes' /\ bridges' = bridges /\ inputVars' = inputVars
    <2>1. CASE PipeEnd(b)
      BY <2>1 DEF PipeEnd, Forget, TypeOK, PublisherTypes
    <2>2. CASE ~PipeEnd(b)
      <3>1. KeepInput
        BY <2>2 DEF Pipeline, Discard, Hear, Start, Accepted, Busy, ResetSlot, StartFailed,
          Write, KeepNewest, WriteFirst, WriteFirstFailed, WritePacket, RetryPacket, LosePacket,
          PhraseEnded, Flushed, CloseTalk
      <3>. QED
        BY <3>1 DEF KeepInput, publisherVars, TypeOK, PublisherTypes
    <2>. QED
      BY <2>1, <2>2
  <1>2. ASSUME UNCHANGED queue PROVE InputTypes'
    BY <1>1, <1>2, InputTypesKeep DEF TypeOK, InputTypes
  <1>3. ASSUME queue[b] # <<>>, Pop(b) PROVE InputTypes' /\ Head(queue[b]) \in Packets
    BY <1>1, <1>3, PopTypes
  <1>4. ASSUME NEW l, NEW f, NEW r, PipeMoves(b, l, f, r) PROVE PipeTypes'
    BY <1>1, <1>4, PipeMovesTypes
  <1>. SUFFICES InputTypes' /\ PipeTypes'
    BY <1>1 DEF TypeOK
  <1>. USE DEF Places, Asking, At, Move
  <1>5. CASE Discard(b)
    <2>1. InputTypes'
      BY <1>3, <1>5 DEF Discard
    <2>2. PipeTypes'
      BY <1>1, <1>5 DEF Discard, pipeVars, TypeOK, PipeTypes, publisherVars
    <2>. QED
      BY <2>1, <2>2
  <1>6. CASE Hear(b)
    <2>1. InputTypes' /\ Head(queue[b]) \in Packets
      BY <1>6, <1>3 DEF Hear, StartTalk
    <2>2. PipeMoves(b, "ask", Head(queue[b]), "wait")
      BY <1>0, <1>6, <2>1 DEF PipeMoves, Hear, StartTalk
    <2>. QED
      BY <1>4, <2>1, <2>2
  <1>7. CASE Accepted(b)
    <2>1. InputTypes'
      BY <1>7, <1>2 DEF Accepted
    <2>2. PipeMoves(b, "opened", first[b], resume[b])
      BY <1>0, <1>7, <2>1 DEF PipeMoves, Accepted
    <2>. QED
      BY <1>4, <2>1, <2>2
  <1>8. CASE Busy(b)
    <2>1. InputTypes'
      BY <1>8, <1>2 DEF Busy
    <2>2. PipeMoves(b, "reset", first[b], resume[b])
      BY <1>0, <1>8, <2>1 DEF PipeMoves, Busy
    <2>. QED
      BY <1>4, <2>1, <2>2
  <1>9. CASE ResetSlot(b)
    <2>1. InputTypes'
      BY <1>9, <1>2 DEF ResetSlot
    <2>2. PipeMoves(b, "askAgain", first[b], resume[b])
      BY <1>0, <1>9, <2>1 DEF PipeMoves, ResetSlot
    <2>. QED
      BY <1>4, <2>1, <2>2
  <1>10. CASE StartFailed(b)
    <2>1. InputTypes'
      BY <1>10, <1>2 DEF StartFailed
    <2>2. PipeMoves(b, resume[b], NoPacket, resume[b])
      BY <1>0, <1>10, <2>1 DEF PipeMoves, StartFailed
    <2>. QED
      BY <1>4, <2>1, <2>2
  <1>11. CASE KeepNewest(b)
    <2>1. InputTypes' /\ Head(queue[b]) \in Packets
      BY <1>11, <1>3 DEF KeepNewest
    <2>2. PipeMoves(b, pipe[b], Head(queue[b]), resume[b])
      BY <1>0, <1>11, <2>1 DEF PipeMoves, KeepNewest
    <2>. QED
      BY <1>4, <2>1, <2>2
  <1>12. CASE WriteFirst(b)
    <2>1. InputTypes'
      BY <1>12, <1>2 DEF WriteFirst, Into
    <2>2. PipeMoves(b, Into(b), NoPacket, resume[b])
      BY <1>0, <1>12, <2>1 DEF PipeMoves, WriteFirst, Into
    <2>. QED
      BY <1>4, <2>1, <2>2
  <1>13. CASE WriteFirstFailed(b)
    <2>1. InputTypes'
      BY <1>13, <1>2 DEF WriteFirstFailed
    <2>2. CASE resume[b] = "wait"
      <3>1. PipeMoves(b, "ask", first[b], "bridge")
        BY <1>0, <1>13, <2>2 DEF PipeMoves, WriteFirstFailed
      <3>. QED
        BY <1>4, <2>1, <3>1
    <2>3. CASE resume[b] # "wait"
      <3>1. PipeMoves(b, resume[b], NoPacket, resume[b])
        BY <1>0, <1>13, <2>3 DEF PipeMoves, WriteFirstFailed
      <3>. QED
        BY <1>4, <2>1, <3>1
    <2>. QED
      BY <2>2, <2>3
  <1>14. CASE WritePacket(b)
    <2>1. InputTypes' /\ Head(queue[b]) \in Packets
      BY <1>14, <1>3 DEF WritePacket, NextPacket
    <2>2. PipeMoves(b, pipe[b], NoPacket, resume[b])
      BY <1>0, <1>14, <2>1 DEF PipeMoves, WritePacket, NextPacket
    <2>. QED
      BY <1>4, <2>1, <2>2
  <1>15. CASE RetryPacket(b)
    <2>1. InputTypes' /\ Head(queue[b]) \in Packets
      BY <1>15, <1>3 DEF RetryPacket, StartTalk, NextPacket
    <2>2. PipeMoves(b, "ask", Head(queue[b]), pipe[b])
      BY <1>0, <1>15, <2>1 DEF PipeMoves, RetryPacket, StartTalk, NextPacket
    <2>. QED
      BY <1>4, <2>1, <2>2
  <1>16. CASE LosePacket(b)
    <2>1. InputTypes' /\ Head(queue[b]) \in Packets
      BY <1>16, <1>3 DEF LosePacket, NextPacket
    <2>2. PipeMoves(b, pipe[b], NoPacket, resume[b])
      BY <1>0, <1>16, <2>1 DEF PipeMoves, LosePacket, NextPacket
    <2>. QED
      BY <1>4, <2>1, <2>2
  <1>17. CASE PhraseEnded(b)
    <2>1. InputTypes'
      BY <1>17, <1>2 DEF PhraseEnded
    <2>2. PipeMoves(b, "flush", NoPacket, resume[b])
      BY <1>0, <1>17, <2>1 DEF PipeMoves, PhraseEnded
    <2>. QED
      BY <1>4, <2>1, <2>2
  <1>18. CASE Flushed(b)
    <2>1. InputTypes'
      BY <1>18, <1>2 DEF Flushed
    <2>2. PipeMoves(b, "closing", NoPacket, resume[b])
      BY <1>0, <1>18, <2>1 DEF PipeMoves, Flushed
    <2>. QED
      BY <1>4, <2>1, <2>2
  <1>19. CASE CloseTalk(b)
    <2>1. InputTypes'
      BY <1>19, <1>2 DEF CloseTalk
    <2>2. PipeMoves(b, "wait", NoPacket, resume[b])
      BY <1>0, <1>19, <2>1 DEF PipeMoves, CloseTalk
    <2>. QED
      BY <1>4, <2>1, <2>2
  <1>20. CASE PipeEnd(b)
    <2>1. InputTypes'
      BY <1>20, <1>2 DEF PipeEnd
    <2>2. PipeMoves(b, "ended", NoPacket, resume[b])
      BY <1>0, <1>20, <2>1 DEF PipeMoves, PipeEnd
    <2>. QED
      BY <1>4, <2>1, <2>2
  <1>. QED
    BY <1>5, <1>6, <1>7, <1>8, <1>9, <1>10, <1>11, <1>12, <1>13, <1>14, <1>15, <1>16, <1>17,
       <1>18, <1>19, <1>20 DEF Pipeline, Start, Write

LEMMA NextTypes == TypeOK /\ [Next]_vars => TypeOK'
  <1>. SUFFICES ASSUME TypeOK, [Next]_vars PROVE TypeOK'
    OBVIOUS
  <1>1. ASSUME NEW s \in Sessions, Session(s) \/ CloseBridge(s) PROVE TypeOK'
    BY <1>1, SessionTypes
  <1>2. ASSUME NEW s \in Sessions, Speak(s) \/ Input(s) PROVE TypeOK'
    BY <1>2, InputStepTypes
  <1>3. ASSUME NEW b \in Bridges, Pipeline(b) PROVE TypeOK'
    BY <1>3, PipelineTypes
  <1>4. CASE CameraDrops
    <2>1. slot' = 0 /\ bridges \in Nat
          /\ UNCHANGED <<publisherVars, inputVars, queue, pipe, first, resume, open, written>>
      BY <1>4, SizesAssumption DEF CameraDrops, KeepInput, TypeOK, PublisherTypes
    <2>2. slot' \in 0..bridges'
      BY <2>1 DEF publisherVars
    <2>. QED
      BY <2>1, <2>2 DEF TypeOK, PublisherTypes, InputTypes, PipeTypes, publisherVars, inputVars
  <1>5. CASE UNCHANGED vars
    BY <1>5 DEF TypeOK, PublisherTypes, InputTypes, PipeTypes, vars, publisherVars, inputVars, pipeVars
  <1>. QED
    BY <1>1, <1>2, <1>3, <1>4, <1>5 DEF Next

\* The types of the variables hold for any number of sessions, bridges and
\* packets.
THEOREM TypeCorrect == Spec => []TypeOK
  BY InitTypes, NextTypes, PTL DEF Spec

-----------------------------------------------------------------------------
(***************************************************************************)
(* Who holds a bridge.                                                     *)
(***************************************************************************)
Holders(t, b) == {s \in Sessions : t[s] = b}

LEMMA HoldersFinite ==
  ASSUME NEW t, NEW b
  PROVE  /\ IsFiniteSet(Holders(t, b)) /\ Cardinality(Holders(t, b)) \in Nat
         /\ Cardinality(Holders(t, b)) = 0 => Holders(t, b) = {}
  <1>1. Holders(t, b) \in SUBSET Sessions
    BY DEF Holders
  <1>2. IsFiniteSet(Holders(t, b))
    BY <1>1, SessionsAssumption, FS_Subset
  <1>. QED
    BY <1>2, FS_CardinalityType, FS_EmptySet

\* Session s moves from bridge a to bridge c, 0 for none: one holder more, one
\* less, and the others keep theirs.
Moves(t, u, s, a, c) ==
  /\ t \in [Sessions -> Nat] /\ s \in Sessions /\ c \in Nat
  /\ t[s] = a /\ a # c /\ u = [t EXCEPT ![s] = c]

LEMMA HolderMoves ==
  ASSUME NEW t, NEW u, NEW s, NEW a, NEW c, Moves(t, u, s, a, c)
  PROVE  /\ Cardinality(Holders(u, c)) = Cardinality(Holders(t, c)) + 1
         /\ Cardinality(Holders(u, a)) = Cardinality(Holders(t, a)) - 1
         /\ \A b : b # c /\ b # a => Holders(u, b) = Holders(t, b)
  <1>1. Holders(u, c) = Holders(t, c) \cup {s} /\ s \notin Holders(t, c)
    BY DEF Holders, Moves
  <1>2. Holders(u, a) = Holders(t, a) \ {s} /\ s \in Holders(t, a)
    BY DEF Holders, Moves
  <1>3. \A b : b # c /\ b # a => Holders(u, b) = Holders(t, b)
    BY DEF Holders, Moves
  <1>4. IsFiniteSet(Holders(t, c)) /\ IsFiniteSet(Holders(t, a))
    BY HoldersFinite
  <1>5. Cardinality(Holders(t, c) \cup {s}) = Cardinality(Holders(t, c)) + 1
    BY <1>1, <1>4, FS_AddElement
  <1>6. Cardinality(Holders(t, a) \ {s}) = Cardinality(Holders(t, a)) - 1
    BY <1>2, <1>4, FS_RemoveElement
  <1>. QED
    BY <1>1, <1>2, <1>3, <1>5, <1>6

\* HeldOrClosing, for one bridge.
Attended(t, l, o, b) == o[b] # "done" => \E s \in Sessions : t[s] = b \/ l[s] = b

LEMMA HeldMeans ==
  HeldOrClosing <=> \A b \in 1..bridges : /\ refs[b] = Cardinality(Holders(talk, b))
                                         /\ Attended(talk, leaving, once, b)
  BY DEF HeldOrClosing, Holders, Attended, Done

LEMMA InitCount == Init => CountInv
  <1>. SUFFICES ASSUME Init PROVE CountInv
    OBVIOUS
  <1>1. LeaveInv /\ 1..bridges = {}
    BY DEF Init, LeaveInv
  <1>. QED
    BY <1>1, InitTypes DEF CountInv, HeldOrClosing

LEMMA CountStep ==
  ASSUME CountInv, NEW s \in Sessions, Session(s) \/ CloseBridge(s)
  PROVE  LeaveInv' /\ HeldOrClosing'
  <1>1. /\ active \in 0..bridges /\ bridges \in Nat /\ 1..bridges \subseteq Bridges
        /\ talk \in [Sessions -> 0..bridges] /\ leaving \in [Sessions -> 0..bridges]
        /\ refs \in [Bridges -> Int] /\ once \in [Bridges -> {"no", "finished", "done"}]
    BY SizesAssumption DEF CountInv, TypeOK, PublisherTypes, Bridges
  <1>2. talk \in [Sessions -> Nat] /\ talk[s] \in 0..bridges /\ leaving[s] \in 0..bridges
    BY <1>1
  <1>3. /\ \A z \in Sessions : talk[z] # 0 => leaving[z] = 0
        /\ \A b \in 1..bridges : /\ refs[b] = Cardinality(Holders(talk, b))
                                /\ Attended(talk, leaving, once, b)
    BY HeldMeans DEF CountInv, LeaveInv
  <1>4. \A b : Cardinality(Holders(talk, b)) \in Nat
    BY HoldersFinite
  <1>. SUFFICES LeaveInv' /\ \A b \in 1..bridges' : /\ refs'[b] = Cardinality(Holders(talk', b))
                                                    /\ Attended(talk', leaving', once', b)
    BY DEF HeldOrClosing, Holders, Attended, Done
  <1>5. CASE Join(s)
    <2>1. /\ talk[s] = 0 /\ leaving[s] = 0 /\ active \in 1..bridges
          /\ refs' = [refs EXCEPT ![active] = refs[active] + 1] /\ talk' = [talk EXCEPT ![s] = active]
          /\ bridges' = bridges /\ leaving' = leaving /\ once' = once
      BY <1>1, <1>5 DEF Join, ActiveAlive, Idle
    <2>2. LeaveInv'
      BY <1>1, <1>3, <2>1 DEF LeaveInv
    <2>3. /\ Cardinality(Holders(talk', active)) = Cardinality(Holders(talk, active)) + 1
          /\ \A b : b # active /\ b # 0 => Holders(talk', b) = Holders(talk, b)
      <3>1. Moves(talk, talk', s, 0, active)
        BY <1>2, <2>1 DEF Moves
      <3>. QED
        BY <3>1, HolderMoves
    <2>4. ASSUME NEW b \in 1..bridges
          PROVE  refs'[b] = Cardinality(Holders(talk', b)) /\ Attended(talk', leaving', once', b)
      <3>1. refs'[b] = Cardinality(Holders(talk', b))
        <4>1. /\ refs[b] = Cardinality(Holders(talk, b)) /\ b # 0
              /\ refs'[b] = IF b = active THEN refs[active] + 1 ELSE refs[b]
          BY <1>1, <1>3, <2>1
        <4>. QED
          BY <2>3, <4>1
      <3>2. Attended(talk', leaving', once', b)
        BY <1>1, <1>3, <2>1 DEF Attended
      <3>. QED
        BY <3>1, <3>2
    <2>. QED
      BY <2>1, <2>2, <2>4
  <1>6. CASE Create(s)
    <2>1. /\ talk[s] = 0 /\ leaving[s] = 0 /\ bridges < MaxBridges /\ bridges' = bridges + 1
          /\ refs' = [refs EXCEPT ![bridges + 1] = 1] /\ talk' = [talk EXCEPT ![s] = bridges + 1]
          /\ leaving' = leaving /\ once' = once
      BY <1>6 DEF Create, Idle
    <2>2. LeaveInv'
      BY <1>1, <1>3, <2>1 DEF LeaveInv
    <2>3. /\ bridges + 1 \in Bridges /\ bridges + 1 \in Nat /\ bridges + 1 # 0
          /\ \A b \in 1..bridges' : b = bridges + 1 \/ (b \in 1..bridges /\ b # bridges + 1 /\ b # 0)
          /\ \A z \in Sessions : talk[z] # bridges + 1
      BY <1>1, <2>1, SizesAssumption DEF Bridges
    <2>4. /\ Cardinality(Holders(talk', bridges + 1)) = Cardinality(Holders(talk, bridges + 1)) + 1
          /\ \A b : b # bridges + 1 /\ b # 0 => Holders(talk', b) = Holders(talk, b)
      <3>1. Moves(talk, talk', s, 0, bridges + 1)
        BY <1>2, <2>1, <2>3 DEF Moves
      <3>. QED
        BY <2>3, <3>1, HolderMoves
    <2>5. Holders(talk, bridges + 1) = {}
      BY <2>3 DEF Holders
    <2>6. Cardinality(Holders(talk', bridges + 1)) = 1
      BY <2>4, <2>5, FS_EmptySet
    <2>7. ASSUME NEW b \in 1..bridges'
          PROVE  refs'[b] = Cardinality(Holders(talk', b)) /\ Attended(talk', leaving', once', b)
      <3>1. CASE b = bridges + 1
        <4>1. refs'[b] = 1 /\ talk'[s] = b
          BY <1>1, <2>1, <2>3, <3>1
        <4>. QED
          BY <2>6, <3>1, <4>1 DEF Attended
      <3>2. CASE b \in 1..bridges /\ b # bridges + 1 /\ b # 0
        <4>1. refs'[b] = refs[b] /\ Holders(talk', b) = Holders(talk, b)
          BY <1>1, <2>1, <2>4, <3>2
        <4>2. Attended(talk', leaving', once', b)
          BY <1>1, <1>3, <2>1, <3>2 DEF Attended
        <4>. QED
          BY <1>3, <3>2, <4>1, <4>2
      <3>. QED
        BY <2>3, <3>1, <3>2
    <2>. QED
      BY <2>2, <2>7
  <1>7. CASE Release(s)
    <2> DEFINE c == talk[s]
    <2>1. /\ c # 0 /\ refs' = [refs EXCEPT ![c] = refs[c] - 1]
          /\ leaving' = [leaving EXCEPT ![s] = IF refs[c] - 1 <= 0 THEN c ELSE 0]
          /\ talk' = [talk EXCEPT ![s] = 0] /\ bridges' = bridges /\ once' = once
      BY <1>7 DEF Release
    <2>2. LeaveInv'
      BY <1>1, <1>3, <2>1 DEF LeaveInv
    <2>3. c \in 1..bridges /\ leaving[s] = 0
      BY <1>2, <1>3, <2>1
    <2>4. /\ Cardinality(Holders(talk', c)) = Cardinality(Holders(talk, c)) - 1
          /\ \A b : b # 0 /\ b # c => Holders(talk', b) = Holders(talk, b)
      <3>1. Moves(talk, talk', s, c, 0)
        BY <1>2, <2>1 DEF Moves
      <3>. QED
        BY <3>1, HolderMoves
    <2>. HIDE DEF c
    <2>5. refs[c] \in Int /\ refs[c] = Cardinality(Holders(talk, c))
      BY <1>1, <1>3, <2>3
    <2>6. refs'[c] = Cardinality(Holders(talk', c)) /\ Attended(talk', leaving', once', c)
      <3>1. refs'[c] = refs[c] - 1
        BY <1>1, <2>1, <2>3
      <3>2. CASE refs[c] - 1 <= 0
        BY <1>1, <2>1, <2>4, <2>5, <3>1, <3>2 DEF Attended
      <3>3. CASE ~(refs[c] - 1 <= 0)
        <4>1. Holders(talk', c) # {}
          <5>1. Cardinality(Holders(talk', c)) # 0
            BY <2>4, <2>5, <3>3
          <5>. QED
            BY <5>1, FS_EmptySet
        <4>. QED
          BY <2>4, <2>5, <3>1, <4>1 DEF Attended, Holders
      <3>. QED
        BY <3>2, <3>3
    <2>7. ASSUME NEW b \in 1..bridges, b # c
          PROVE  refs'[b] = Cardinality(Holders(talk', b)) /\ Attended(talk', leaving', once', b)
      <3>1. b # 0 /\ refs'[b] = refs[b] /\ Holders(talk', b) = Holders(talk, b)
        <4>1. b # 0 /\ b \in Bridges
          BY <1>1
        <4>2. refs'[b] = refs[b]
          BY <1>1, <2>1, <2>7, <4>1
        <4>. QED
          BY <2>4, <2>7, <4>1, <4>2
      <3>2. \A z \in Sessions : z # s => talk'[z] = talk[z] /\ leaving'[z] = leaving[z]
        BY <1>1, <2>1
      <3>3. talk[s] # b /\ leaving[s] # b
        BY <2>3, <2>7, <3>1 DEF c
      <3>. QED
        BY <1>3, <2>1, <3>1, <3>2, <3>3 DEF Attended
    <2>. QED
      BY <2>1, <2>2, <2>6, <2>7
  <1>8. CASE Finish(s)
    <2>1. /\ once' = [once EXCEPT ![leaving[s]] = "finished"] /\ once[leaving[s]] = "no"
          /\ UNCHANGED <<bridges, talk, refs, leaving>>
      BY <1>8 DEF Finish
    <2>2. \A b \in Bridges : once'[b] # "done" => once[b] # "done"
      BY <1>1, <2>1
    <2>. QED
      BY <1>1, <1>3, <2>1, <2>2 DEF LeaveInv, Attended
  <1>9. CASE CancelBridge(s)
    <2>1. /\ once' = [once EXCEPT ![leaving[s]] = "done"] /\ leaving' = [leaving EXCEPT ![s] = 0]
          /\ leaving[s] # 0 /\ UNCHANGED <<bridges, talk, refs>>
      BY <1>9 DEF CancelBridge
    <2>2. LeaveInv'
      BY <1>1, <1>3, <2>1 DEF LeaveInv
    <2>3. ASSUME NEW b \in 1..bridges PROVE Attended(talk', leaving', once', b)
      <3>1. CASE b = leaving[s]
        BY <1>1, <2>1, <3>1 DEF Attended
      <3>2. CASE b # leaving[s]
        <4>1. once'[b] = once[b] /\ \A z \in Sessions : leaving[z] = b => leaving'[z] = b
          BY <1>1, <2>1, <3>2
        <4>. QED
          BY <1>3, <2>1, <4>1 DEF Attended
      <3>. QED
        BY <3>1, <3>2
    <2>. QED
      BY <1>3, <2>1, <2>2, <2>3
  <1>. QED
    BY <1>5, <1>6, <1>7, <1>8, <1>9 DEF Session, CloseBridge

LEMMA NextCount == CountInv /\ [Next]_vars => CountInv'
  <1>. SUFFICES ASSUME CountInv, [Next]_vars PROVE CountInv'
    OBVIOUS
  <1>1. TypeOK'
    BY NextTypes DEF CountInv
  <1>2. ASSUME UNCHANGED <<bridges, talk, refs, leaving, once>> PROVE CountInv'
    BY <1>1, <1>2 DEF CountInv, LeaveInv, HeldOrClosing, Done
  <1>3. ASSUME NEW s \in Sessions, Session(s) \/ CloseBridge(s) PROVE CountInv'
    BY <1>1, <1>3, CountStep DEF CountInv
  <1>4. ASSUME NEW s \in Sessions, Speak(s) \/ Input(s) PROVE CountInv'
    BY <1>2, <1>4 DEF Speak, Input, Enqueue, DropOldest, GiveUp, publisherVars
  <1>5. ASSUME NEW b \in Bridges, Pipeline(b) PROVE CountInv'
    <2>1. CASE PipeEnd(b)
      BY <1>2, <2>1 DEF PipeEnd
    <2>2. CASE ~PipeEnd(b)
      <3>1. KeepInput
        BY <1>5, <2>2 DEF Pipeline, Discard, Hear, Start, Accepted, Busy, ResetSlot, StartFailed,
          Write, KeepNewest, WriteFirst, WriteFirstFailed, WritePacket, RetryPacket, LosePacket,
          PhraseEnded, Flushed, CloseTalk
      <3>. QED
        BY <1>2, <3>1 DEF KeepInput, publisherVars
    <2>. QED
      BY <2>1, <2>2
  <1>6. CASE CameraDrops
    BY <1>2, <1>6 DEF CameraDrops, KeepInput, publisherVars
  <1>7. CASE UNCHANGED vars
    BY <1>2, <1>7 DEF vars, publisherVars
  <1>. QED
    BY <1>3, <1>4, <1>5, <1>6, <1>7 DEF Next

\* refs counts the sessions of every bridge, and no pipeline is left running
\* for nobody, however many sessions come and go.
THEOREM NobodyForgotten == Spec => []HeldOrClosing
  <1>1. Spec => []CountInv
    BY InitCount, NextCount, PTL DEF Spec
  <1>2. CountInv => HeldOrClosing
    BY DEF CountInv
  <1>. QED
    BY <1>1, <1>2, PTL

-----------------------------------------------------------------------------
(***************************************************************************)
(* The order of what is said.  Said is what InOrder looks at: written, in  *)
(* hand and queued.                                                        *)
(***************************************************************************)
Hand(f) == IF f = NoPacket THEN <<>> ELSE <<f>>
Said(w, f, q) == w \o Hand(f) \o q

\* In order, sent already, and before what its session is about to queue.
Good(q, n, h) ==
  /\ Increasing(q)
  /\ \A i \in 1..Len(q) :
       /\ q[i][2] <= n
       /\ h[q[i][1]] # NoPacket => q[i][2] < h[q[i][1]][2][2]

\* A session is about to queue a packet of its own.
HoldingInv ==
  \A s \in Sessions : holding[s] # NoPacket => holding[s][2][1] = s /\ holding[s][2][2] <= spoken

SaidInv == \A b \in Bridges : Good(Said(written[b], first[b], queue[b]), spoken, holding)
OrderInv == TypeOK /\ HoldingInv /\ SaidInv

LEMMA HandType ==
  ASSUME NEW f \in PacketOrNone PROVE Hand(f) \in Seq(Packets)
  BY EmptyQueue DEF Hand, PacketOrNone

LEMMA Concat ==
  ASSUME NEW s \in Seq(Packets), NEW t \in Seq(Packets)
  PROVE  /\ s \o t \in Seq(Packets) /\ Len(s \o t) = Len(s) + Len(t)
         /\ \A i \in 1..Len(s) + Len(t) : (s \o t)[i] = IF i <= Len(s) THEN s[i] ELSE t[i - Len(s)]
  BY ConcatProperties

LEMMA Associative ==
  ASSUME NEW s \in Seq(Packets), NEW t \in Seq(Packets), NEW u \in Seq(Packets)
  PROVE  (s \o t) \o u = s \o (t \o u)
  BY ConcatAssociative

LEMMA Empty == ASSUME NEW s \in Seq(Packets) PROVE s \o <<>> = s /\ <<>> \o s = s
  BY ConcatEmptySeq

LEMMA PacketParts ==
  ASSUME NEW q \in Seq(Packets), NEW i \in 1..Len(q)
  PROVE  q[i] \in Packets /\ q[i][1] \in Sessions /\ q[i][2] \in Nat
  BY ElementOfSeq, SizesAssumption DEF Packets

LEMMA SaidType ==
  ASSUME NEW w \in Seq(Packets), NEW f \in PacketOrNone, NEW q \in Seq(Packets)
  PROVE  Said(w, f, q) \in Seq(Packets)
  BY HandType, Concat DEF Said

LEMMA HeadFirst ==
  ASSUME NEW q \in Seq(Packets), q # <<>>
  PROVE  /\ Head(q) \in Packets /\ Tail(q) \in Seq(Packets)
         /\ <<Head(q)>> \in Seq(Packets) /\ <<Head(q)>> \o Tail(q) = q
  <1>1. /\ Head(q) \in Packets /\ Tail(q) \in Seq(Packets) /\ Len(Tail(q)) = Len(q) - 1
        /\ \A i \in 1..Len(Tail(q)) : Tail(q)[i] = q[i + 1]
    BY HeadTailProperties
  <1>2. /\ <<Head(q)>> \in Seq(Packets) /\ Len(<<Head(q)>>) = 1 /\ <<Head(q)>>[1] = Head(q)
        /\ Head(q) = q[1] /\ Len(q) \in Nat
    BY <1>1, LenProperties
  <1> DEFINE r == <<Head(q)>> \o Tail(q)
  <1>3. /\ r \in Seq(Packets) /\ Len(r) = 1 + Len(Tail(q))
        /\ \A i \in 1..(1 + Len(Tail(q))) : r[i] = IF i <= 1 THEN <<Head(q)>>[i] ELSE Tail(q)[i - 1]
    BY <1>1, <1>2, Concat
  <1>4. Len(r) = Len(q)
    BY <1>1, <1>2, <1>3
  <1>5. ASSUME NEW i \in 1..Len(r) PROVE r[i] = q[i]
    <2>1. CASE i = 1
      BY <1>2, <1>3, <2>1
    <2>2. CASE i # 1
      <3>1. i - 1 \in 1..Len(Tail(q)) /\ ~(i <= 1) /\ i \in 1..(1 + Len(Tail(q))) /\ i - 1 + 1 = i
        BY <1>1, <1>2, <1>3, <2>2
      <3>. QED
        BY <1>1, <1>3, <3>1
    <2>. QED
      BY <2>1, <2>2
  <1>. HIDE DEF r
  <1>6. r = q
    BY <1>3, <1>4, <1>5, SeqEqual
  <1>. QED
    BY <1>1, <1>2, <1>6 DEF r

\* Whatever is taken out of the middle, the rest is in order.
LEMMA GoodDrop ==
  ASSUME NEW x \in Seq(Packets), NEW m \in Seq(Packets), NEW y \in Seq(Packets), NEW n, NEW h,
         Good((x \o m) \o y, n, h)
  PROVE  Good(x \o y, n, h)
  <1> DEFINE long == (x \o m) \o y
             short == x \o y
             a == Len(x)
             k == Len(m)
             At2(i) == IF i <= a THEN i ELSE i + k
  <1>1. a \in Nat /\ k \in Nat /\ Len(y) \in Nat
    BY LenProperties
  <1>2. /\ x \o m \in Seq(Packets) /\ Len(x \o m) = a + k
        /\ \A i \in 1..(a + k) : (x \o m)[i] = IF i <= a THEN x[i] ELSE m[i - a]
    BY Concat
  <1>3. /\ Len(long) = a + k + Len(y)
        /\ \A i \in 1..(a + k + Len(y)) : long[i] = IF i <= a + k THEN (x \o m)[i] ELSE y[i - (a + k)]
    BY <1>2, Concat
  <1>4. /\ short \in Seq(Packets) /\ Len(short) = a + Len(y)
        /\ \A i \in 1..(a + Len(y)) : short[i] = IF i <= a THEN x[i] ELSE y[i - a]
    BY Concat
  <1>. HIDE DEF long, short, a, k
  <1>5. ASSUME NEW i \in 1..Len(short)
        PROVE  At2(i) \in 1..Len(long) /\ short[i] = long[At2(i)]
    <2>1. CASE i <= a
      <3>1. i \in 1..(a + k) /\ i \in 1..(a + k + Len(y)) /\ i \in 1..(a + Len(y)) /\ i <= a + k
        BY <1>1, <1>4, <2>1
      <3>. QED
        BY <1>2, <1>3, <1>4, <2>1, <3>1
    <2>2. CASE ~(i <= a)
      <3>1. /\ i \in 1..(a + Len(y)) /\ i + k \in 1..(a + k + Len(y)) /\ ~(i + k <= a + k)
            /\ (i + k) - (a + k) = i - a
        BY <1>1, <1>4, <2>2
      <3>. QED
        BY <1>3, <1>4, <2>2, <3>1
    <2>. QED
      BY <2>1, <2>2
  <1>6. \A i, j \in 1..Len(short) : i < j => At2(i) < At2(j)
    BY <1>1, <1>4
  <1>. HIDE DEF At2
  <1>7. Good(long, n, h)
    BY DEF long
  <1>8. Increasing(short)
    BY <1>5, <1>6, <1>7 DEF Good, Increasing
  <1>9. Good(short, n, h)
    BY <1>5, <1>7, <1>8 DEF Good
  <1>. QED
    BY <1>9 DEF short

\* What the pipeline does with its packets, seen as one sequence.
LEMMA TakeHead ==
  ASSUME NEW w \in Seq(Packets), NEW q \in Seq(Packets), q # <<>>
  PROVE  Said(w, Head(q), Tail(q)) = Said(w, NoPacket, q)
  <1>1. /\ Head(q) \in Packets /\ Tail(q) \in Seq(Packets)
        /\ <<Head(q)>> \in Seq(Packets) /\ <<Head(q)>> \o Tail(q) = q
    BY HeadFirst
  <1>2. (w \o <<Head(q)>>) \o Tail(q) = w \o q
    BY <1>1, Associative
  <1>3. Hand(Head(q)) = <<Head(q)>> /\ Hand(NoPacket) = <<>> /\ w \o <<>> = w
    BY <1>1, PacketIsSome, Empty DEF Hand
  <1>. QED
    BY <1>2, <1>3 DEF Said

LEMMA WriteHand ==
  ASSUME NEW w \in Seq(Packets), NEW f \in Packets, NEW q \in Seq(Packets)
  PROVE  Said(Append(w, f), NoPacket, q) = Said(w, f, q)
  <1>1. Append(w, f) = w \o <<f>> /\ Append(w, f) \in Seq(Packets)
    BY AppendIsConcat, AppendProperties
  <1>2. Append(w, f) \o <<>> = Append(w, f)
    BY <1>1, Empty
  <1>3. Hand(f) = <<f>> /\ Hand(NoPacket) = <<>>
    BY PacketIsSome DEF Hand
  <1>. QED
    BY <1>1, <1>2, <1>3 DEF Said

LEMMA DropHand ==
  ASSUME NEW w \in Seq(Packets), NEW f \in PacketOrNone, NEW q \in Seq(Packets), NEW n, NEW h,
         Good(Said(w, f, q), n, h)
  PROVE  Good(Said(w, NoPacket, q), n, h)
  <1>1. Good((w \o Hand(f)) \o q, n, h) /\ Hand(f) \in Seq(Packets)
    BY HandType DEF Said
  <1>2. Good(w \o q, n, h)
    BY <1>1, GoodDrop
  <1>3. Hand(NoPacket) = <<>> /\ w \o <<>> = w
    BY Empty DEF Hand
  <1>. QED
    BY <1>2, <1>3 DEF Said

LEMMA DropHead ==
  ASSUME NEW w \in Seq(Packets), NEW f \in PacketOrNone, NEW q \in Seq(Packets), NEW n, NEW h,
         q # <<>>, Good(Said(w, f, q), n, h)
  PROVE  Good(Said(w, f, Tail(q)), n, h)
  <1> DEFINE x == w \o Hand(f)
  <1>1. x \in Seq(Packets)
    BY HandType, Concat
  <1>2. Tail(q) \in Seq(Packets) /\ <<Head(q)>> \in Seq(Packets) /\ <<Head(q)>> \o Tail(q) = q
    BY HeadFirst
  <1>3. Good(x \o q, n, h)
    BY DEF Said
  <1>. HIDE DEF x
  <1>4. (x \o <<Head(q)>>) \o Tail(q) = x \o q
    BY <1>1, <1>2, Associative
  <1>5. Good(x \o Tail(q), n, h)
    BY <1>1, <1>2, <1>3, <1>4, GoodDrop
  <1>. QED
    BY <1>5 DEF x, Said

LEMMA AppendSaid ==
  ASSUME NEW w \in Seq(Packets), NEW f \in PacketOrNone, NEW q \in Seq(Packets), NEW p \in Packets
  PROVE  Said(w, f, Append(q, p)) = Append(Said(w, f, q), p)
  <1> DEFINE x == w \o Hand(f)
  <1>1. x \in Seq(Packets) /\ <<p>> \in Seq(Packets) /\ x \o q \in Seq(Packets)
    BY HandType, Concat, LenProperties
  <1>. HIDE DEF x
  <1>2. Append(q, p) = q \o <<p>> /\ Append(x \o q, p) = (x \o q) \o <<p>>
    BY <1>1, AppendIsConcat
  <1>3. x \o Append(q, p) = Append(x \o q, p)
    BY <1>1, <1>2, Associative
  <1>. QED
    BY <1>3 DEF x, Said

\* The packet a session was about to queue comes after all it said before.
LEMMA GoodAppend ==
  ASSUME NEW q \in Seq(Packets), NEW p \in Packets, NEW n \in Nat, NEW h, NEW g,
         Good(q, n, h), h[p[1]] # NoPacket, h[p[1]][2] = p, p[2] <= n, g[p[1]] = NoPacket,
         \A s \in Sessions : s # p[1] => g[s] = h[s]
  PROVE  Good(Append(q, p), n, g)
  <1> DEFINE r == Append(q, p)
             l == Len(q)
  <1>1. /\ l \in Nat /\ Len(r) = l + 1 /\ \A i \in 1..l : r[i] = q[i] /\ r[l + 1] = p
    BY AppendProperties, LenProperties
  <1>2. \A i \in 1..l : q[i] \in Packets /\ q[i][1] \in Sessions /\ q[i][2] \in Nat
    BY PacketParts
  <1>3. r[l + 1] = p
    BY AppendProperties
  <1>. HIDE DEF r
  <1>4. Increasing(r)
    <2>. SUFFICES ASSUME NEW i \in 1..Len(r), NEW j \in 1..Len(r), i < j, r[i][1] = r[j][1]
                  PROVE  r[i][2] < r[j][2]
      BY DEF Increasing
    <2>1. i \in 1..l /\ r[i] = q[i]
      BY <1>1
    <2>2. CASE j \in 1..l
      BY <1>1, <2>1, <2>2 DEF Good, Increasing
    <2>3. CASE j = l + 1
      BY <1>3, <2>1, <2>3 DEF Good
    <2>. QED
      BY <1>1, <2>2, <2>3
  <1>5. ASSUME NEW i \in 1..Len(r)
        PROVE  r[i][2] <= n /\ (g[r[i][1]] # NoPacket => r[i][2] < g[r[i][1]][2][2])
    <2>1. CASE i \in 1..l
      <3>1. r[i] = q[i] /\ q[i][1] \in Sessions
        BY <1>1, <1>2, <2>1
      <3>. QED
        BY <2>1, <3>1 DEF Good
    <2>2. CASE i = l + 1
      BY <1>3, <2>2
    <2>. QED
      BY <1>1, <2>1, <2>2
  <1>6. Good(r, n, g)
    BY <1>4, <1>5 DEF Good
  <1>. QED
    BY <1>6 DEF r

LEMMA InitOrder == Init => OrderInv
  <1>. SUFFICES ASSUME Init PROVE OrderInv
    OBVIOUS
  <1>1. TypeOK /\ HoldingInv
    BY InitTypes DEF Init, HoldingInv
  <1>2. Said(<<>>, NoPacket, <<>>) = <<>> /\ Len(<<>>) = 0
    BY Empty, EmptyQueue DEF Said, Hand
  <1>3. \A b \in Bridges : Said(written[b], first[b], queue[b]) = <<>>
    BY <1>2 DEF Init
  <1>4. SaidInv
    BY <1>2, <1>3 DEF SaidInv, Good, Increasing
  <1>. QED
    BY <1>1, <1>4 DEF OrderInv

LEMMA OrderTypes ==
  ASSUME OrderInv, NEW b \in Bridges
  PROVE  /\ written[b] \in Seq(Packets) /\ first[b] \in PacketOrNone /\ queue[b] \in Seq(Packets)
         /\ Good(Said(written[b], first[b], queue[b]), spoken, holding)
         /\ Said(written[b], first[b], queue[b]) \in Seq(Packets)
         /\ spoken \in Nat
  <1>1. written[b] \in Seq(Packets) /\ first[b] \in PacketOrNone /\ queue[b] \in Seq(Packets)
        /\ spoken \in Nat
    BY SizesAssumption DEF OrderInv, TypeOK, PipeTypes, InputTypes
  <1>. QED
    BY <1>1, SaidType DEF OrderInv, SaidInv

\* A session speaks: its packet is younger than everything.
LEMMA SpeakOrder ==
  ASSUME OrderInv, TypeOK', NEW s \in Sessions, Speak(s)
  PROVE  OrderInv'
  <1>1. /\ spoken' = spoken + 1 /\ holding' = [holding EXCEPT ![s] = <<talk[s], <<s, spoken + 1>>>>]
        /\ written' = written /\ first' = first /\ queue' = queue
    BY DEF Speak, pipeVars
  <1>2. /\ holding \in [Sessions -> ((1..bridges) \X Packets) \cup {NoPacket}] /\ spoken \in Nat
    BY SizesAssumption DEF OrderInv, TypeOK, InputTypes
  <1>3. \A z \in Sessions : holding[z] # NoPacket => holding[z][2] \in Packets /\ holding[z][2][2] \in Nat
    BY <1>2, SizesAssumption DEF Packets
  <1>4. /\ holding'[s][2] = <<s, spoken + 1>>
        /\ \A z \in Sessions : z # s => holding'[z] = holding[z]
    BY <1>1, <1>2
  <1>5. HoldingInv'
    BY <1>1, <1>2, <1>3, <1>4 DEF OrderInv, HoldingInv
  <1>6. ASSUME NEW b \in Bridges
        PROVE  Good(Said(written[b], first[b], queue[b]), spoken', holding')
    <2> DEFINE q == Said(written[b], first[b], queue[b])
    <2>1. Good(q, spoken, holding) /\ q \in Seq(Packets)
      BY OrderTypes
    <2>. HIDE DEF q
    <2>2. \A i \in 1..Len(q) : q[i][2] \in Nat /\ q[i][1] \in Sessions
      BY <2>1, PacketParts
    <2>3. Good(q, spoken', holding')
      BY <1>1, <1>2, <1>4, <2>1, <2>2 DEF Good
    <2>. QED
      BY <2>3 DEF q
  <1>7. SaidInv'
    BY <1>1, <1>6 DEF SaidInv
  <1>. QED
    BY <1>5, <1>7 DEF OrderInv

\* A packet enters the queue, or never does.
LEMMA HandedOver ==
  ASSUME OrderInv, NEW s \in Sessions, spoken' = spoken, holding' = [holding EXCEPT ![s] = NoPacket]
  PROVE  /\ HoldingInv' /\ holding'[s] = NoPacket
         /\ \A z \in Sessions : z # s => holding'[z] = holding[z]
         /\ \A b \in Bridges : Good(Said(written[b], first[b], queue[b]), spoken, holding')
  <1>1. holding \in [Sessions -> ((1..bridges) \X Packets) \cup {NoPacket}]
    BY DEF OrderInv, TypeOK, InputTypes
  <1>2. holding'[s] = NoPacket /\ \A z \in Sessions : z # s => holding'[z] = holding[z]
    BY <1>1
  <1>3. HoldingInv'
    BY <1>2 DEF OrderInv, HoldingInv
  <1>4. ASSUME NEW b \in Bridges
        PROVE  Good(Said(written[b], first[b], queue[b]), spoken, holding')
    <2> DEFINE q == Said(written[b], first[b], queue[b])
    <2>1. Good(q, spoken, holding) /\ q \in Seq(Packets)
      BY OrderTypes
    <2>. HIDE DEF q
    <2>2. \A i \in 1..Len(q) : q[i][1] \in Sessions
      BY <2>1, PacketParts
    <2>3. Good(q, spoken, holding')
      BY <1>2, <2>1, <2>2 DEF Good
    <2>. QED
      BY <2>3 DEF q
  <1>. QED
    BY <1>2, <1>3, <1>4

\* A step that leaves the sessions alone and touches what one bridge has.
LEMMA OneBridge ==
  ASSUME OrderInv, TypeOK', NEW b \in Bridges, spoken' = spoken, holding' = holding,
         \A c \in Bridges : c # b => written'[c] = written[c] /\ first'[c] = first[c] /\ queue'[c] = queue[c],
         Good(Said(written'[b], first'[b], queue'[b]), spoken, holding)
  PROVE  OrderInv'
  <1>1. HoldingInv'
    BY DEF OrderInv, HoldingInv
  <1>2. ASSUME NEW c \in Bridges PROVE Good(Said(written'[c], first'[c], queue'[c]), spoken', holding')
    <2>1. CASE c = b
      BY <2>1
    <2>2. CASE c # b
      BY <2>2, OrderTypes
    <2>. QED
      BY <2>1, <2>2
  <1>3. SaidInv'
    BY <1>2 DEF SaidInv
  <1>. QED
    BY <1>1, <1>3 DEF OrderInv

LEMMA InputOrder ==
  ASSUME OrderInv, TypeOK', NEW s \in Sessions, Input(s)
  PROVE  OrderInv'
  <1>1. /\ holding \in [Sessions -> ((1..bridges) \X Packets) \cup {NoPacket}]
        /\ 1..bridges \subseteq Bridges /\ queue \in [Bridges -> Seq(Packets)]
    BY SizesAssumption DEF OrderInv, TypeOK, InputTypes, PublisherTypes, Bridges
  <1>2. CASE Enqueue(s)
    <2>1. /\ holding[s] # NoPacket /\ spoken' = spoken /\ holding' = [holding EXCEPT ![s] = NoPacket]
          /\ queue' = [queue EXCEPT ![holding[s][1]] = Append(queue[holding[s][1]], holding[s][2])]
          /\ written' = written /\ first' = first
      BY <1>2 DEF Enqueue, Target, pipeVars
    <2> DEFINE b == holding[s][1]
               p == holding[s][2]
    <2>2. b \in Bridges /\ p \in Packets /\ p[1] = s /\ p[2] <= spoken
      BY <1>1, <2>1 DEF OrderInv, HoldingInv
    <2>3. /\ HoldingInv' /\ holding'[s] = NoPacket
          /\ \A z \in Sessions : z # s => holding'[z] = holding[z]
          /\ \A c \in Bridges : Good(Said(written[c], first[c], queue[c]), spoken, holding')
      BY <2>1, HandedOver
    <2>4. /\ queue'[b] = Append(queue[b], p)
          /\ \A c \in Bridges : c # b => queue'[c] = queue[c]
      BY <1>1, <2>1, <2>2
    <2>5. holding[s] # NoPacket /\ holding[s][2] = p
      BY <2>1
    <2>. HIDE DEF b, p
    <2>6. Good(Said(written[b], first[b], queue'[b]), spoken, holding')
      <3> DEFINE q == Said(written[b], first[b], queue[b])
      <3>1. q \in Seq(Packets) /\ Good(q, spoken, holding) /\ spoken \in Nat
        BY <2>2, OrderTypes
      <3>2. Said(written[b], first[b], queue'[b]) = Append(q, p)
        BY <2>2, <2>4, OrderTypes, AppendSaid
      <3>. HIDE DEF q
      <3>3. Good(Append(q, p), spoken, holding')
        BY <2>2, <2>3, <2>5, <3>1, GoodAppend
      <3>. QED
        BY <3>2, <3>3
    <2>7. \A c \in Bridges : Good(Said(written'[c], first'[c], queue'[c]), spoken', holding')
      BY <2>1, <2>3, <2>4, <2>6
    <2>. QED
      BY <2>3, <2>7 DEF OrderInv, SaidInv
  <1>3. CASE DropOldest(s)
    <2> DEFINE b == holding[s][1]
    <2>1. /\ holding[s] # NoPacket /\ spoken' = spoken /\ holding' = holding
          /\ Len(queue[b]) = QueueSize /\ queue' = [queue EXCEPT ![b] = Tail(queue[b])]
          /\ written' = written /\ first' = first
      BY <1>3 DEF DropOldest, Target, Full, inputVars, pipeVars
    <2>2. b \in Bridges
      BY <1>1, <2>1
    <2>. HIDE DEF b
    <2>3. queue[b] # <<>>
      BY <2>1, EmptyQueue, SizesAssumption
    <2>4. Good(Said(written[b], first[b], Tail(queue[b])), spoken, holding)
      BY <2>2, <2>3, OrderTypes, DropHead
    <2>5. queue'[b] = Tail(queue[b]) /\ \A c \in Bridges : c # b => queue'[c] = queue[c]
      BY <1>1, <2>1, <2>2
    <2>. QED
      BY <2>1, <2>2, <2>4, <2>5, OneBridge
  <1>4. CASE GiveUp(s)
    <2>1. /\ spoken' = spoken /\ holding' = [holding EXCEPT ![s] = NoPacket]
          /\ written' = written /\ first' = first /\ queue' = queue
      BY <1>4 DEF GiveUp, pipeVars
    <2>2. HoldingInv' /\ \A c \in Bridges : Good(Said(written[c], first[c], queue[c]), spoken, holding')
      BY <2>1, HandedOver
    <2>. QED
      BY <2>1, <2>2 DEF OrderInv, SaidInv
  <1>. QED
    BY <1>2, <1>3, <1>4 DEF Input

\* A pipeline's step leaves bridge b with w written, f in hand and q queued.
Leaves(b, w, f, q) ==
  /\ spoken' = spoken /\ holding' = holding
  /\ written' = [written EXCEPT ![b] = w] /\ first' = [first EXCEPT ![b] = f]
  /\ queue' = [queue EXCEPT ![b] = q]

LEMMA LeavesOrder ==
  ASSUME OrderInv, TypeOK', NEW b \in Bridges, NEW w, NEW f, NEW q, Leaves(b, w, f, q),
         Good(Said(w, f, q), spoken, holding)
  PROVE  OrderInv'
  <1>1. /\ written \in [Bridges -> Seq(Packets)] /\ first \in [Bridges -> PacketOrNone]
        /\ queue \in [Bridges -> Seq(Packets)]
    BY DEF OrderInv, TypeOK, PipeTypes, InputTypes
  <1>2. /\ written'[b] = w /\ first'[b] = f /\ queue'[b] = q /\ spoken' = spoken /\ holding' = holding
        /\ \A c \in Bridges : c # b => written'[c] = written[c] /\ first'[c] = first[c] /\ queue'[c] = queue[c]
    BY <1>1 DEF Leaves
  <1>. QED
    BY <1>2, OneBridge

LEMMA PipelineOrder ==
  ASSUME OrderInv, TypeOK', NEW b \in Bridges, Pipeline(b)
  PROVE  OrderInv'
  <1>0. /\ spoken' = spoken /\ holding' = holding
        /\ written = [written EXCEPT ![b] = written[b]] /\ first = [first EXCEPT ![b] = first[b]]
        /\ queue = [queue EXCEPT ![b] = queue[b]]
    <2>1. spoken' = spoken /\ holding' = holding
      BY DEF Pipeline, Discard, Hear, Start, Accepted, Busy, ResetSlot, StartFailed,
        Write, KeepNewest, WriteFirst, WriteFirstFailed, WritePacket, RetryPacket, LosePacket,
        PhraseEnded, Flushed, CloseTalk, PipeEnd, KeepInput, inputVars
    <2>. QED
      BY <2>1 DEF OrderInv, TypeOK, PipeTypes, InputTypes
  <1>1. /\ written[b] \in Seq(Packets) /\ first[b] \in PacketOrNone /\ queue[b] \in Seq(Packets)
        /\ Good(Said(written[b], first[b], queue[b]), spoken, holding)
        /\ pipe[b] \in Asking => first[b] \in Packets
        /\ pipe[b] \notin Asking => first[b] = NoPacket
    BY OrderTypes, InPipe DEF OrderInv
  <1>2. ASSUME UNCHANGED <<written, first, queue>> PROVE OrderInv'
    BY <1>0, <1>1, <1>2, OneBridge
  <1>3. ASSUME queue[b] # <<>>
        PROVE  /\ Good(Said(written[b], first[b], Tail(queue[b])), spoken, holding)
               /\ Head(queue[b]) \in Packets /\ Tail(queue[b]) \in Seq(Packets)
               /\ Said(written[b], Head(queue[b]), Tail(queue[b])) = Said(written[b], NoPacket, queue[b])
    BY <1>1, <1>3, DropHead, HeadFirst, TakeHead
  <1>4. Good(Said(written[b], NoPacket, queue[b]), spoken, holding)
    BY <1>1, DropHand
  <1>. USE DEF Asking, At, Move, Pop
  <1>5. CASE Discard(b)
    <2>1. Leaves(b, written[b], first[b], Tail(queue[b]))
      BY <1>0, <1>5 DEF Leaves, Discard, pipeVars
    <2>2. Good(Said(written[b], first[b], Tail(queue[b])), spoken, holding)
      BY <1>0, <1>1, <1>5, <1>3 DEF Discard, pipeVars
    <2>. QED
      BY <2>1, <2>2, LeavesOrder
  <1>6. CASE Hear(b)
    <2>1. Leaves(b, written[b], Head(queue[b]), Tail(queue[b]))
      BY <1>0, <1>6 DEF Leaves, Hear, StartTalk
    <2>2. Good(Said(written[b], Head(queue[b]), Tail(queue[b])), spoken, holding)
      BY <1>0, <1>1, <1>6, <1>3, <1>4 DEF Hear, StartTalk
    <2>. QED
      BY <2>1, <2>2, LeavesOrder
  <1>7. CASE Accepted(b)
    BY <1>2, <1>7 DEF Accepted
  <1>8. CASE Busy(b)
    BY <1>2, <1>8 DEF Busy
  <1>9. CASE ResetSlot(b)
    BY <1>2, <1>9 DEF ResetSlot
  <1>10. CASE StartFailed(b)
    <2>1. Leaves(b, written[b], NoPacket, queue[b])
      BY <1>0, <1>10 DEF Leaves, StartFailed
    <2>2. Good(Said(written[b], NoPacket, queue[b]), spoken, holding)
      BY <1>0, <1>1, <1>10, <1>4 DEF StartFailed
    <2>. QED
      BY <2>1, <2>2, LeavesOrder
  <1>11. CASE KeepNewest(b)
    <2>1. Leaves(b, written[b], Head(queue[b]), Tail(queue[b]))
      BY <1>0, <1>11 DEF Leaves, KeepNewest
    <2>2. Good(Said(written[b], Head(queue[b]), Tail(queue[b])), spoken, holding)
      BY <1>0, <1>1, <1>11, <1>3, <1>4 DEF KeepNewest
    <2>. QED
      BY <2>1, <2>2, LeavesOrder
  <1>12. CASE WriteFirst(b)
    <2>1. Leaves(b, Append(written[b], first[b]), NoPacket, queue[b])
      BY <1>0, <1>12 DEF Leaves, WriteFirst
    <2>2. Good(Said(Append(written[b], first[b]), NoPacket, queue[b]), spoken, holding)
      BY <1>0, <1>1, <1>12, WriteHand DEF WriteFirst
    <2>. QED
      BY <2>1, <2>2, LeavesOrder
  <1>13. CASE WriteFirstFailed(b)
    <2>1. CASE resume[b] = "wait"
      BY <1>2, <1>13, <2>1 DEF WriteFirstFailed
    <2>2. CASE resume[b] # "wait"
      <3>1. Leaves(b, written[b], NoPacket, queue[b])
        BY <1>0, <1>13, <2>2 DEF Leaves, WriteFirstFailed
      <3>. QED
        BY <1>4, <3>1, LeavesOrder
    <2>. QED
      BY <2>1, <2>2
  <1>14. CASE WritePacket(b)
    <2>1. queue[b] # <<>> /\ first[b] = NoPacket
      BY <1>1, <1>14 DEF WritePacket, NextPacket
    <2>2. Leaves(b, Append(written[b], Head(queue[b])), NoPacket, Tail(queue[b]))
      BY <1>0, <1>14, <2>1 DEF Leaves, WritePacket
    <2>3. Said(Append(written[b], Head(queue[b])), NoPacket, Tail(queue[b]))
            = Said(written[b], Head(queue[b]), Tail(queue[b]))
      BY <1>1, <1>3, <2>1, WriteHand
    <2>4. Good(Said(Append(written[b], Head(queue[b])), NoPacket, Tail(queue[b])), spoken, holding)
      BY <1>3, <1>4, <2>1, <2>3
    <2>. QED
      BY <2>2, <2>4, LeavesOrder
  <1>15. CASE RetryPacket(b)
    <2>1. Leaves(b, written[b], Head(queue[b]), Tail(queue[b]))
      BY <1>0, <1>15 DEF Leaves, RetryPacket, StartTalk, NextPacket
    <2>2. Good(Said(written[b], Head(queue[b]), Tail(queue[b])), spoken, holding)
      BY <1>0, <1>1, <1>15, <1>3, <1>4 DEF RetryPacket, StartTalk, NextPacket
    <2>. QED
      BY <2>1, <2>2, LeavesOrder
  <1>16. CASE LosePacket(b)
    <2>1. Leaves(b, written[b], first[b], Tail(queue[b]))
      BY <1>0, <1>16 DEF Leaves, LosePacket, NextPacket
    <2>2. Good(Said(written[b], first[b], Tail(queue[b])), spoken, holding)
      BY <1>0, <1>1, <1>16, <1>3 DEF LosePacket, NextPacket
    <2>. QED
      BY <2>1, <2>2, LeavesOrder
  <1>17. CASE PhraseEnded(b)
    BY <1>2, <1>17 DEF PhraseEnded
  <1>18. CASE Flushed(b)
    BY <1>2, <1>18 DEF Flushed
  <1>19. CASE CloseTalk(b)
    BY <1>2, <1>19 DEF CloseTalk
  <1>20. CASE PipeEnd(b)
    BY <1>2, <1>20 DEF PipeEnd
  <1>. QED
    BY <1>5, <1>6, <1>7, <1>8, <1>9, <1>10, <1>11, <1>12, <1>13, <1>14, <1>15, <1>16, <1>17,
       <1>18, <1>19, <1>20 DEF Pipeline, Start, Write

LEMMA NextOrder == OrderInv /\ [Next]_vars => OrderInv'
  <1>. SUFFICES ASSUME OrderInv, [Next]_vars PROVE OrderInv'
    OBVIOUS
  <1>1. TypeOK'
    BY NextTypes DEF OrderInv
  <1>2. ASSUME UNCHANGED <<spoken, holding, written, first, queue>> PROVE OrderInv'
    BY <1>1, <1>2 DEF OrderInv, HoldingInv, SaidInv
  <1>3. ASSUME NEW s \in Sessions, Session(s) \/ CloseBridge(s) PROVE OrderInv'
    BY <1>2, <1>3 DEF Session, CloseBridge, Join, Create, Release, Finish, CancelBridge,
      inputVars, pipeVars
  <1>4. ASSUME NEW s \in Sessions, Speak(s) \/ Input(s) PROVE OrderInv'
    BY <1>1, <1>4, SpeakOrder, InputOrder
  <1>5. ASSUME NEW b \in Bridges, Pipeline(b) PROVE OrderInv'
    BY <1>1, <1>5, PipelineOrder
  <1>6. CASE CameraDrops
    BY <1>2, <1>6 DEF CameraDrops, KeepInput, inputVars
  <1>7. CASE UNCHANGED vars
    BY <1>2, <1>7 DEF vars, inputVars, pipeVars
  <1>. QED
    BY <1>3, <1>4, <1>5, <1>6, <1>7 DEF Next

\* What a session says is written to the camera in the order it was said, and
\* no packet twice, whatever the queue drops and however often the talk session
\* is reopened.
THEOREM SpokenInOrder == Spec => []InOrder
  <1>1. Spec => []OrderInv
    BY InitOrder, NextOrder, PTL DEF Spec
  <1>2. OrderInv => InOrder
    BY DEF OrderInv, SaidInv, Good, Said, Hand, InOrder, InHand
  <1>. QED
    BY <1>1, <1>2, PTL

-----------------------------------------------------------------------------
(***************************************************************************)
(* The camera's talk slot.                                                  *)
(***************************************************************************)
\* The only bridge whose close has not begun is the active one.
OneOpenInv == TypeOK /\ \A b \in 1..bridges : once[b] = "no" => active = b

LEMMA InitOneOpen == Init => OneOpenInv
  <1>1. ASSUME Init PROVE 1..bridges = {}
    BY <1>1 DEF Init
  <1>. QED
    BY <1>1, InitTypes DEF OneOpenInv

LEMMA NextOneOpen == OneOpenInv /\ [Next]_vars => OneOpenInv'
  <1>. SUFFICES ASSUME OneOpenInv, [Next]_vars PROVE OneOpenInv'
    OBVIOUS
  <1>1. TypeOK'
    BY NextTypes DEF OneOpenInv
  <1>2. /\ bridges \in Nat /\ active \in 0..bridges /\ 1..bridges \subseteq Bridges
        /\ once \in [Bridges -> {"no", "finished", "done"}]
        /\ \A s \in Sessions : leaving[s] \in 0..bridges
    BY SizesAssumption DEF OneOpenInv, TypeOK, PublisherTypes, Bridges
  <1>3. ASSUME UNCHANGED <<active, bridges, once>> PROVE OneOpenInv'
    BY <1>1, <1>3 DEF OneOpenInv
  <1>4. ASSUME NEW s \in Sessions, Create(s) PROVE OneOpenInv'
    <2>1. \A b \in 1..bridges : once[b] # "no"
      BY <1>2, <1>4 DEF OneOpenInv, Create, ActiveAlive, Done
    <2>2. once' = once /\ bridges' = bridges + 1 /\ active' = bridges + 1
      BY <1>4 DEF Create
    <2>3. \A b \in 1..(bridges + 1) : b \in 1..bridges \/ b = bridges + 1
      BY <1>2
    <2>. QED
      BY <1>1, <2>1, <2>2, <2>3 DEF OneOpenInv
  <1>5. ASSUME NEW s \in Sessions, Finish(s) PROVE OneOpenInv'
    BY <1>1, <1>2, <1>5 DEF OneOpenInv, Finish, Forget
  <1>6. ASSUME NEW s \in Sessions, CancelBridge(s) PROVE OneOpenInv'
    BY <1>1, <1>2, <1>6 DEF OneOpenInv, CancelBridge
  <1>7. ASSUME NEW b \in Bridges, PipeEnd(b) PROVE OneOpenInv'
    BY <1>1, <1>2, <1>7 DEF OneOpenInv, PipeEnd, Forget, Done
  <1>8. ASSUME NEW s \in Sessions, Join(s) \/ Release(s) \/ Speak(s) \/ Input(s)
        PROVE  OneOpenInv'
    BY <1>3, <1>8 DEF Join, Release, Speak, Input, Enqueue, DropOldest, GiveUp, publisherVars
  <1>9. ASSUME NEW b \in Bridges, Pipeline(b) /\ ~PipeEnd(b) PROVE OneOpenInv'
    BY <1>3, <1>9 DEF Pipeline, Start, Write, KeepInput, publisherVars,
      Discard, Hear, Accepted, Busy, ResetSlot, StartFailed, KeepNewest, WriteFirst,
      WriteFirstFailed, WritePacket, RetryPacket, LosePacket, PhraseEnded, Flushed, CloseTalk
  <1>10. CASE CameraDrops \/ UNCHANGED vars
    BY <1>3, <1>10 DEF CameraDrops, KeepInput, publisherVars, vars
  <1>. QED
    BY <1>4, <1>5, <1>6, <1>7, <1>8, <1>9, <1>10 DEF Next, Session, CloseBridge

\* A step that changes the camera's slot and a pipeline is one of that pipeline.
LEMMA SlotStep ==
  ASSUME TypeOK, [Next]_vars, NEW b \in Bridges, NEW c \in Bridges,
         slot = b, slot' # b, pipe'[c] # pipe[c]
  PROVE  c \in 1..bridges
  <1>0. /\ pipe \in [Bridges -> Places] /\ bridges \in 0..MaxBridges
        /\ \A d \in Bridges : pipe[d] = "none" <=> d > bridges
        /\ \A d \in Bridges : d >= 1 /\ d \in Nat
    BY SizesAssumption DEF TypeOK, PipeTypes, PublisherTypes, Bridges
  <1>1. ASSUME NEW s \in Sessions PROVE ~(Session(s) \/ CloseBridge(s) \/ Speak(s) \/ Input(s))
    BY DEF Session, CloseBridge, Speak, Input, Join, Create, Release, Finish, CancelBridge,
      Enqueue, DropOldest, GiveUp, pipeVars
  <1>2. ~CameraDrops /\ ~UNCHANGED vars
    BY DEF CameraDrops, vars, pipeVars
  <1>3. PICK d \in Bridges : Pipeline(d)
    BY <1>1, <1>2 DEF Next
  <1>4. ResetSlot(d) \/ StartFailed(d) \/ CloseTalk(d)
    BY <1>0, <1>3 DEF Pipeline, Start, Write, pipeVars, Discard, Hear, Accepted, Busy,
      KeepNewest, WriteFirst, WriteFirstFailed, WritePacket, RetryPacket, LosePacket,
      PhraseEnded, Flushed, PipeEnd, StartTalk
  <1>5. pipe[d] # "none" /\ \A e \in Bridges : e # d => pipe'[e] = pipe[e]
    BY <1>0, <1>4 DEF ResetSlot, StartFailed, CloseTalk, At, Move
  <1>. QED
    BY <1>0, <1>5

\* For any sessions and bridges, a pipeline ends the talk session of another
\* only while one of their bridges is being closed.
THEOREM SlotTakenLate == Spec => SlotTakenOnlyAtHandover
  <1>1. OneOpenInv /\ [Next]_vars =>
          [\A b, c \in Bridges :
             slot = b /\ slot' # b /\ c # b /\ pipe'[c] # pipe[c]
               => once[b] # "no" \/ once[c] # "no"]_vars
    <2>. SUFFICES ASSUME OneOpenInv, [Next]_vars, NEW b \in Bridges, NEW c \in Bridges,
                         slot = b, slot' # b, c # b, pipe'[c] # pipe[c]
                  PROVE  once[b] # "no" \/ once[c] # "no"
      OBVIOUS
    <2>1. c \in 1..bridges
      BY SlotStep DEF OneOpenInv
    <2>2. b \in 1..bridges
      BY SizesAssumption DEF OneOpenInv, TypeOK, PipeTypes, PublisherTypes, Bridges
    <2>. QED
      BY <2>1, <2>2 DEF OneOpenInv
  <1>. QED
    BY <1>1, InitOneOpen, NextOneOpen, PTL DEF Spec, SlotTakenOnlyAtHandover

=============================================================================
