----------------------------- MODULE TalkBridge -----------------------------
(***************************************************************************)
(* Talkback: the RTSP sessions of one camera share a talk bridge            *)
(* (rtspTalkPublisher in pkg/bridge/talk_rtsp.go), whose pipeline           *)
(* (pkg/bridge/talk_pipeline.go) opens a talk session on the camera when    *)
(* somebody speaks, writes what is said and closes it after a pause.        *)
(*                                                                          *)
(* Bridges are numbered in the order they are created.  An action is one    *)
(* critical section of publisher.mu, one step on a pipeline's queue or one  *)
(* request to the camera.  A packet is <<session, number>>; resampling and  *)
(* the cutting into ADPCM blocks are left out: one packet is one block.     *)
(***************************************************************************)
EXTENDS Integers, Sequences, FiniteSets

CONSTANTS
  Sessions,    \* RTSP sessions that may carry speech
  QueueSize,   \* rtspTalkPCMQueueSize (8)
  MaxBridges,  \* bound: bridges created in one behaviour
  MaxPackets,  \* bound: packets sent in one behaviour
  HandoverPackets  \* bound: packets sent in one that has a second bridge

ASSUME SizesAssumption ==
  /\ QueueSize \in Nat \ {0} /\ MaxBridges \in Nat /\ MaxPackets \in Nat
  /\ HandoverPackets \in 0..MaxPackets

ASSUME SessionsAssumption == IsFiniteSet(Sessions)

VARIABLES
  active,    \* p.active, 0 for nil
  bridges,   \* bridges created so far
  talk,      \* state.talk of every session, 0 for nil
  refs,      \* refs of every bridge
  leaving,   \* the bridge a session that left it has still to close, or 0
  once,      \* close of every bridge: "no", "finished", then "done" (cancelled)
  spoken,    \* packets the sessions have sent
  holding,   \* the packet each session is about to queue, with its bridge
  queue,     \* pcmCh of every bridge
  pipe,      \* where every pipeline is
  first,     \* the packet every pipeline has in hand while it opens a session
  resume,    \* where its StartTalk returns to
  open,      \* the pipelines whose resilientTalkSession has a session
  written,   \* packets written by every pipeline (history)
  slot       \* the camera's talk slot: the bridge that opened it, or 0

publisherVars == <<active, bridges, talk, refs, leaving, once>>
inputVars == <<spoken, holding>>
pipeVars == <<pipe, first, resume, open, written, slot>>
vars == <<publisherVars, inputVars, queue, pipeVars>>

Bridges == 1..MaxBridges
Done(b) == once[b] = "done"
NoPacket == <<>>

Init ==
  /\ active = 0 /\ bridges = 0
  /\ talk = [s \in Sessions |-> 0] /\ leaving = [s \in Sessions |-> 0]
  /\ refs = [b \in Bridges |-> 0] /\ once = [b \in Bridges |-> "no"]
  /\ spoken = 0
  /\ holding = [s \in Sessions |-> NoPacket]
  /\ queue = [b \in Bridges |-> <<>>]
  /\ pipe = [b \in Bridges |-> "none"]
  /\ first = [b \in Bridges |-> NoPacket]
  /\ resume = [b \in Bridges |-> "wait"]
  /\ open = {}
  /\ written = [b \in Bridges |-> <<>>]
  /\ slot = 0

(***************************************************************************)
(* Sessions come and go.                                                    *)
(***************************************************************************)
Idle(s) == talk[s] = 0 /\ leaving[s] = 0

\* ensureSessionState forgets an active bridge whose context is done.
ActiveAlive == active # 0 /\ ~Done(active)

Join(s) ==
  /\ Idle(s) /\ ActiveAlive
  /\ refs' = [refs EXCEPT ![active] = @ + 1]
  /\ talk' = [talk EXCEPT ![s] = active]
  /\ UNCHANGED <<active, bridges, leaving, once, inputVars, queue, pipeVars>>

\* Mutant of Create: an active bridge is replaced.
CreateAlways(s) ==
  /\ Idle(s)
  /\ bridges < MaxBridges /\ spoken <= HandoverPackets
  /\ bridges' = bridges + 1
  /\ active' = bridges + 1
  /\ refs' = [refs EXCEPT ![bridges + 1] = 1]
  /\ talk' = [talk EXCEPT ![s] = bridges + 1]
  /\ pipe' = [pipe EXCEPT ![bridges + 1] = "wait"]
  /\ UNCHANGED <<leaving, once, inputVars, queue, first, resume, open, written, slot>>

\* It finds none, creates one, and startBridge starts its pipeline.
Create(s) ==
  /\ Idle(s) /\ ~ActiveAlive
  /\ bridges < MaxBridges /\ spoken <= HandoverPackets
  /\ bridges' = bridges + 1
  /\ active' = bridges + 1
  /\ refs' = [refs EXCEPT ![bridges + 1] = 1]
  /\ talk' = [talk EXCEPT ![s] = bridges + 1]
  /\ pipe' = [pipe EXCEPT ![bridges + 1] = "wait"]
  /\ UNCHANGED <<leaving, once, inputVars, queue, first, resume, open, written, slot>>

\* Mutant of Release: the comparison with zero is off by one.
ReleaseOffByOne(s) ==
  /\ talk[s] # 0
  /\ LET b == talk[s] IN
       /\ refs' = [refs EXCEPT ![b] = @ - 1]
       /\ leaving' = [leaving EXCEPT ![s] = IF refs[b] - 1 < 0 THEN b ELSE 0]
  /\ talk' = [talk EXCEPT ![s] = 0]
  /\ UNCHANGED <<active, bridges, once, inputVars, queue, pipeVars>>

\* release, on PAUSE or the end of the session: the last one closes the
\* bridge, but outside publisher.mu.
Release(s) ==
  /\ talk[s] # 0
  /\ LET b == talk[s] IN
       /\ refs' = [refs EXCEPT ![b] = @ - 1]
       /\ leaving' = [leaving EXCEPT ![s] = IF refs[b] - 1 <= 0 THEN b ELSE 0]
  /\ talk' = [talk EXCEPT ![s] = 0]
  /\ UNCHANGED <<active, bridges, once, inputVars, queue, pipeVars>>

Forget(b) == active' = IF active = b THEN 0 ELSE active

\* close: finish, then cancel, once; whoever comes later waits for the end.
Finish(s) ==
  /\ leaving[s] # 0 /\ once[leaving[s]] = "no"
  /\ once' = [once EXCEPT ![leaving[s]] = "finished"]
  /\ Forget(leaving[s])
  /\ UNCHANGED <<bridges, talk, refs, leaving, inputVars, queue, pipeVars>>

\* Mutant of CancelBridge: cancel is not called.
CancelNothing(s) ==
  /\ leaving[s] # 0 /\ once[leaving[s]] \in {"finished", "done"}
  /\ leaving' = [leaving EXCEPT ![s] = 0]
  /\ UNCHANGED <<active, bridges, talk, refs, once, inputVars, queue, pipeVars>>

CancelBridge(s) ==
  /\ leaving[s] # 0 /\ once[leaving[s]] \in {"finished", "done"}
  /\ once' = [once EXCEPT ![leaving[s]] = "done"]
  /\ leaving' = [leaving EXCEPT ![s] = 0]
  /\ UNCHANGED <<active, bridges, talk, refs, inputVars, queue, pipeVars>>

(***************************************************************************)
(* Speech enters the queue: enqueueTalkPCM.                                 *)
(***************************************************************************)
Speak(s) ==
  /\ talk[s] # 0 /\ holding[s] = NoPacket
  /\ spoken < MaxPackets /\ (bridges > 1 => spoken < HandoverPackets)
  /\ spoken' = spoken + 1
  /\ holding' = [holding EXCEPT ![s] = <<talk[s], <<s, spoken + 1>>>>]
  /\ UNCHANGED <<publisherVars, queue, pipeVars>>

Target(s) == holding[s][1]
Full(b) == Len(queue[b]) = QueueSize

Enqueue(s) ==
  /\ holding[s] # NoPacket /\ ~Full(Target(s))
  /\ queue' = [queue EXCEPT ![Target(s)] = Append(@, holding[s][2])]
  /\ holding' = [holding EXCEPT ![s] = NoPacket]
  /\ UNCHANGED <<publisherVars, spoken, pipeVars>>

\* Mutant of DropOldest: the packet is put in the place of the oldest one, as in
\* a ring buffer.
DropOldestInPlace(s) ==
  /\ holding[s] # NoPacket /\ Full(Target(s))
  /\ queue' = [queue EXCEPT ![Target(s)][1] = holding[s][2]]
  /\ holding' = [holding EXCEPT ![s] = NoPacket]
  /\ UNCHANGED <<publisherVars, spoken, pipeVars>>

\* The queue is full: its oldest packet makes room, and the loop tries again.
DropOldest(s) ==
  /\ holding[s] # NoPacket /\ Full(Target(s))
  /\ queue' = [queue EXCEPT ![Target(s)] = Tail(@)]
  /\ UNCHANGED <<publisherVars, inputVars, pipeVars>>

GiveUp(s) ==
  /\ holding[s] # NoPacket /\ Done(Target(s))
  /\ holding' = [holding EXCEPT ![s] = NoPacket]
  /\ UNCHANGED <<publisherVars, spoken, queue, pipeVars>>

(***************************************************************************)
(* The pipeline: run, runBridgeInternal and the resilientTalkSession.       *)
(***************************************************************************)
KeepInput == UNCHANGED <<publisherVars, inputVars>>
At(b, l) == pipe[b] = l
Move(b, l) == pipe' = [pipe EXCEPT ![b] = l]
Pop(b) == queue' = [queue EXCEPT ![b] = Tail(@)]

\* Silence, or a failed start less than talkRetryPause ago.
Discard(b) ==
  /\ At(b, "wait") /\ queue[b] # <<>>
  /\ Pop(b)
  /\ KeepInput /\ UNCHANGED pipeVars

\* A packet in hand and no session: StartTalk, which returns to resume.
StartTalk(b, caller) ==
  /\ first' = [first EXCEPT ![b] = Head(queue[b])]
  /\ resume' = [resume EXCEPT ![b] = caller]
  /\ Pop(b) /\ Move(b, "ask")

Hear(b) ==
  /\ At(b, "wait") /\ queue[b] # <<>>
  /\ StartTalk(b, "wait")
  /\ KeepInput /\ UNCHANGED <<open, written, slot>>

\* startTalkSession: the camera has no talk session.
Accepted(b) ==
  /\ pipe[b] \in {"ask", "askAgain"} /\ slot = 0
  /\ slot' = b /\ open' = open \cup {b}
  /\ Move(b, "opened")
  /\ KeepInput /\ UNCHANGED <<queue, first, resume, written>>

\* 421 or 422: it has one, which is reset before the second and last try.
Busy(b) ==
  /\ At(b, "ask") /\ slot # 0
  /\ Move(b, "reset")
  /\ KeepInput /\ UNCHANGED <<queue, first, resume, open, written, slot>>

ResetSlot(b) ==
  /\ At(b, "reset")
  /\ slot' = 0
  /\ Move(b, "askAgain")
  /\ KeepInput /\ UNCHANGED <<queue, first, resume, open, written>>

\* Mutant of StartFailed: the loop goes on with the packet still in hand.
StartFailedKeeps(b) ==
  /\ pipe[b] \in {"ask", "reset", "askAgain"}
  /\ Move(b, resume[b])
  /\ KeepInput /\ UNCHANGED <<queue, first, resume, open, written, slot>>

\* A refusal, a timeout or a lost connection; the camera may have done what
\* was asked although the answer is lost. The packet is dropped.
StartFailed(b) ==
  /\ pipe[b] \in {"ask", "reset", "askAgain"}
  /\ slot' \in {slot, IF At(b, "reset") THEN 0 ELSE IF slot = 0 THEN b ELSE slot}
  /\ Move(b, resume[b])
  /\ first' = [first EXCEPT ![b] = NoPacket]
  /\ KeepInput /\ UNCHANGED <<queue, resume, open, written>>

\* What piled up while the first session opened is dropped, but the newest.
KeepNewest(b) ==
  /\ At(b, "opened") /\ resume[b] = "wait" /\ queue[b] # <<>>
  /\ first' = [first EXCEPT ![b] = Head(queue[b])]
  /\ Pop(b)
  /\ KeepInput /\ UNCHANGED <<pipe, resume, open, written, slot>>

Into(b) == IF resume[b] = "wait" THEN "bridge" ELSE resume[b]

\* The packet in hand is the first one written to the new session.
WriteFirst(b) ==
  /\ At(b, "opened") /\ (resume[b] = "wait" => queue[b] = <<>>)
  /\ written' = [written EXCEPT ![b] = Append(@, first[b])]
  /\ first' = [first EXCEPT ![b] = NoPacket]
  /\ Move(b, Into(b))
  /\ KeepInput /\ UNCHANGED <<queue, resume, open, slot>>

\* That write fails: a first session is replaced at once, the error of a
\* replacement is left for the next packet to find.
WriteFirstFailed(b) ==
  /\ At(b, "opened") /\ (resume[b] = "wait" => queue[b] = <<>>)
  /\ IF resume[b] = "wait"
     THEN /\ open' = open \ {b} /\ Move(b, "ask")
          /\ resume' = [resume EXCEPT ![b] = "bridge"] /\ UNCHANGED first
     ELSE /\ Move(b, resume[b])
          /\ first' = [first EXCEPT ![b] = NoPacket] /\ UNCHANGED <<open, resume>>
  /\ KeepInput /\ UNCHANGED <<queue, written, slot>>

NextPacket(b) == pipe[b] \in {"bridge", "flush"} /\ queue[b] # <<>>

WritePacket(b) ==
  /\ NextPacket(b) /\ b \in open
  /\ Pop(b)
  /\ written' = [written EXCEPT ![b] = Append(@, Head(queue[b]))]
  /\ KeepInput /\ UNCHANGED <<pipe, first, resume, open, slot>>

\* The write failed now or before: a new session is opened with this packet,
\* unless the last try is less than talkRetryPause ago and it is dropped.
RetryPacket(b) ==
  /\ NextPacket(b)
  /\ open' = open \ {b}
  /\ StartTalk(b, pipe[b])
  /\ KeepInput /\ UNCHANGED <<written, slot>>

LosePacket(b) ==
  /\ NextPacket(b)
  /\ open' = open \ {b}
  /\ Pop(b)
  /\ KeepInput /\ UNCHANGED <<pipe, first, resume, written, slot>>

\* Five seconds without speech, or the end of the bridge's context.
PhraseEnded(b) ==
  /\ At(b, "bridge")
  /\ Move(b, "flush")
  /\ KeepInput /\ UNCHANGED <<queue, first, resume, open, written, slot>>

Flushed(b) ==
  /\ At(b, "flush") /\ queue[b] = <<>>
  /\ Move(b, "closing")
  /\ KeepInput /\ UNCHANGED <<queue, first, resume, open, written, slot>>

\* TalkSession.Close: TalkReset ends whatever talk session the camera has.
CloseTalk(b) ==
  /\ At(b, "closing")
  /\ slot' \in {slot, IF b \in open THEN 0 ELSE slot}
  /\ open' = open \ {b}
  /\ Move(b, "wait")
  /\ KeepInput /\ UNCHANGED <<queue, first, resume, written>>

\* The context is done: run returns, and the deferred calls find the bridge
\* closed already.
PipeEnd(b) ==
  /\ At(b, "wait") /\ Done(b)
  /\ Move(b, "ended")
  /\ Forget(b)
  /\ UNCHANGED <<bridges, talk, refs, leaving, once, inputVars, queue,
                 first, resume, open, written, slot>>

\* The camera restarts or drops the connection of the talk session.
CameraDrops ==
  /\ slot # 0 /\ slot' = 0
  /\ KeepInput /\ UNCHANGED <<queue, pipe, first, resume, open, written>>

-----------------------------------------------------------------------------
Session(s) == Join(s) \/ Create(s) \/ Release(s)
CloseBridge(s) == Finish(s) \/ CancelBridge(s)
Input(s) == Enqueue(s) \/ DropOldest(s) \/ GiveUp(s)
Start(b) == Accepted(b) \/ Busy(b) \/ ResetSlot(b) \/ StartFailed(b)
Write(b) ==
  \/ KeepNewest(b) \/ WriteFirst(b) \/ WriteFirstFailed(b)
  \/ WritePacket(b) \/ RetryPacket(b) \/ LosePacket(b)
Pipeline(b) ==
  \/ Discard(b) \/ Hear(b) \/ Start(b) \/ Write(b)
  \/ PhraseEnded(b) \/ Flushed(b) \/ CloseTalk(b) \/ PipeEnd(b)

Next ==
  \/ \E s \in Sessions : Session(s) \/ CloseBridge(s) \/ Speak(s) \/ Input(s)
  \/ \E b \in Bridges : Pipeline(b)
  \/ CameraDrops

Spec == Init /\ [][Next]_vars

(***************************************************************************)
(* Fairness.  The goroutines run on and every request to the camera has a   *)
(* timeout (WF).  In the write loop and in run, Go's select does not        *)
(* overlook a context that is done for ever: PhraseEnded and PipeEnd (WF,   *)
(* SF since packets may interrupt the wait).  Nothing is assumed of the     *)
(* sessions: they may stay and speak for ever.                              *)
(***************************************************************************)
Fairness ==
  /\ \A s \in Sessions : WF_vars(CloseBridge(s)) /\ WF_vars(Input(s))
  /\ \A b \in Bridges :
       /\ WF_vars(Pipeline(b) /\ ~PhraseEnded(b))
       /\ WF_vars(PhraseEnded(b) /\ Done(b))
       /\ SF_vars(PipeEnd(b))

FairSpec == Spec /\ Fairness

-----------------------------------------------------------------------------
Packets == Sessions \X (1..MaxPackets)
PacketOrNone == Packets \cup {NoPacket}
Places == {"none", "wait", "ask", "reset", "askAgain", "opened", "bridge",
           "flush", "closing", "ended"}

PublisherTypes ==
  /\ active \in 0..bridges /\ bridges \in 0..MaxBridges
  /\ talk \in [Sessions -> 0..bridges] /\ leaving \in [Sessions -> 0..bridges]
  /\ refs \in [Bridges -> Int]
  /\ once \in [Bridges -> {"no", "finished", "done"}]

InputTypes ==
  /\ spoken \in 0..MaxPackets
  /\ holding \in [Sessions -> ((1..bridges) \X Packets) \cup {NoPacket}]
  /\ queue \in [Bridges -> Seq(Packets)]
  /\ \A b \in Bridges : Len(queue[b]) <= QueueSize

PipeTypes ==
  /\ pipe \in [Bridges -> Places]
  /\ \A b \in Bridges : pipe[b] = "none" <=> b > bridges
  /\ first \in [Bridges -> PacketOrNone]
  /\ \A b \in Bridges :
       first[b] # NoPacket <=> pipe[b] \in {"ask", "reset", "askAgain", "opened"}
  /\ resume \in [Bridges -> {"wait", "bridge", "flush"}]
  /\ open \subseteq 1..bridges /\ slot \in 0..bridges
  /\ written \in [Bridges -> Seq(Packets)]

\* The types of the variables; a pipeline that opens a talk session has a
\* packet in hand, no other has.
TypeOK == PublisherTypes /\ InputTypes /\ PipeTypes

\* ensureSessionState, release, close: refs counts the sessions of a bridge,
\* and a bridge whose context is alive has a session or one that is closing
\* it. However sessions come and go, no pipeline is left running for nobody.
HeldOrClosing ==
  \A b \in 1..bridges :
    /\ refs[b] = Cardinality({s \in Sessions : talk[s] = b})
    /\ ~Done(b) => \E s \in Sessions : talk[s] = b \/ leaving[s] = b

\* ensureSessionState: sessions share one bridge, so two pipelines meet at the
\* camera's single talk slot only when a bridge is replaced: a pipeline ends
\* the talk session of another only if one of their bridges is being closed.
SlotTakenOnlyAtHandover ==
  [][ \A b, c \in Bridges :
        slot = b /\ slot' # b /\ c # b /\ pipe'[c] # pipe[c]
          => once[b] # "no" \/ once[c] # "no" ]_vars

Increasing(q) ==
  \A i, j \in 1..Len(q) : i < j /\ q[i][1] = q[j][1] => q[i][2] < q[j][2]

InHand(b) == IF first[b] = NoPacket THEN <<>> ELSE <<first[b]>>

\* enqueueTalkPCM and runBridgeInternal: what a session says reaches the camera
\* in the order it was said, and no packet twice, however the queue overflows,
\* sessions are reopened and the backlog is dropped.
InOrder == \A b \in Bridges : Increasing(written[b] \o InHand(b) \o queue[b])

\* release and close: once no session holds a bridge its pipeline ends, having
\* closed its talk session, and the camera is not kept listening.
ReleasedBridgeEnds ==
  \A b \in Bridges :
    []<>( \/ pipe[b] = "none"
          \/ pipe[b] = "ended" /\ b \notin open
          \/ \E s \in Sessions : talk[s] = b )
=============================================================================
