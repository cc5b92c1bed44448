--------------------------- MODULE StreamSession ---------------------------
(***************************************************************************)
(* One stream profile of a camera: runStream (pkg/bridge/stream_run.go)    *)
(* with its audioPublisher, the rtspStreamHandler and its two-way mirror   *)
(* (rtsp.go), the idle gate (bridge.go) with the preview it starts and     *)
(* stops (device.go), and the sessions of the RTSP server.                 *)
(*                                                                         *)
(* The pipeline takes one packet at a time; RTSP sessions run beside it    *)
(* and meet it in the handlers, which are exposed and reset one after the  *)
(* other. When a packet is published, and as of when, is MediaClock's.     *)
(***************************************************************************)
EXTENDS Integers

CONSTANTS
  Sessions,        \* RTSP sessions
  AudioKinds,      \* audio formats the camera may send
  Hints,           \* tracks the program may carry over from the last run
  IdleDisconnect,  \* CameraConfig.IdleDisconnect
  PauseOnClient    \* CameraConfig.PauseOnClient

Codecs == {"H264", "H265"}
Handlers == {"main", "twoway"}

\* Audio formats: AAC of two parameter sets, the second one 8000 Hz mono, and
\* ADPCM, which is always 8000 Hz mono and becomes PCMA.
AACs == {"aac", "aac8"}
Tracks == AACs \cup {"pcma"}
Rate(k) == IF k = "pcma" THEN "aac8" ELSE k

ASSUME SessionAssumption ==
  /\ AudioKinds \subseteq Tracks /\ Hints \subseteq AACs \cup {"none"}
  /\ IdleDisconnect \in BOOLEAN /\ PauseOnClient \in BOOLEAN

VARIABLES
  pc,        \* the pipeline, see Steps
  codec,     \* videoFormat
  params,    \* the parameter sets of codec are known
  track,     \* audioPublisher: the format its media and encoder were made for
  carried,   \* the track carried over from the last run, see Carried
  decided,   \* startupDeadline has passed, or audioPublisher.unsupported
  changes,   \* how often the track changed under an exposed stream, 2: again
  rebuild,   \* rebuildForAudio
  stream,    \* the ServerStream of each handler, see Streams
  st,        \* what each session does, see Places
  at,        \* the handler of the session, rtspSessionState.stream
  offer,     \* the codec the session was set up with
  clients,   \* handler.clients
  interest,  \* a DESCRIBE or SETUP within the idle timeout
  idle,      \* idleGate's idleSince: "no", "since", "over" after the timeout
  preview    \* a preview runs at the camera

audioVars == <<track, carried, decided, changes, rebuild>>
pipeVars == <<pc, codec, params>>
sessionVars == <<at, offer, clients>>
gateVars == <<interest, idle, preview>>
vars == <<pipeVars, audioVars, stream, st, sessionVars, gateVars>>

Steps == {"next", "resetMirror", "resetMirrorOn", "decide", "exposeMirror", "crashed"}
Places == {"new", "describing", "waiting", "found", "ready", "playing", "talking", "ended"}

\* declared, confirmDeadline and published: nothing declared, declared, its
\* deadline running, the deadline over, published since, deadline cleared.
Carried == {"none", "declared", "running", "over", "published", "confirmed"}

\* A stream carries video only, the publisher's media too, or an audio media
\* the publisher has given up.
Streams == {"none", "video", "audio", "stale"}
Ready(h) == stream[h] # "none"
Built == IF track = "none" THEN "video" ELSE "audio"
\* The publisher's media is a new object: what a stream carries is not it.
NewMedia == [h \in Handlers |-> IF stream[h] = "audio" THEN "stale" ELSE stream[h]]

Reading(s) == st[s] \in {"ready", "playing"}
Waiting(s) == st[s] \in {"describing", "waiting"}

Init ==
  /\ pc = "next" /\ codec = "none" /\ params = FALSE
  /\ track \in Hints /\ carried = IF track = "none" THEN "none" ELSE "declared"
  /\ decided = FALSE /\ changes = 0 /\ rebuild = FALSE
  /\ stream = [h \in Handlers |-> "none"]
  /\ st = [s \in Sessions |-> "new"] /\ at = [s \in Sessions |-> "main"]
  /\ offer = [s \in Sessions |-> "none"] /\ clients = [h \in Handlers |-> {}]
  /\ interest = FALSE /\ idle = "no" /\ preview = FALSE

(***************************************************************************)
(* The idle gate.                                                           *)
(***************************************************************************)
\* hasClients and interestedSince ask the mirror too.
HasClients == \E h \in Handlers : clients[h] # {}
Paused == PauseOnClient /\ ~HasClients

KeepRun == UNCHANGED <<pipeVars, audioVars, stream, st, sessionVars>>

\* Mutant of Gate: clients of the mirror do not count.
GateMainOnly ==
  /\ idle' = IF clients["main"] # {} \/ interest THEN "no" ELSE IF idle = "no" THEN "since" ELSE idle
  /\ preview' = (~IdleDisconnect \/ idle' # "over")
  /\ KeepRun /\ UNCHANGED interest

\* StreamPackets and pumpPreview ask the gate, between two previews and every
\* second of one, and start or stop the preview accordingly.
Gate ==
  /\ idle' = IF HasClients \/ interest THEN "no" ELSE IF idle = "no" THEN "since" ELSE idle
  /\ preview' = (~IdleDisconnect \/ idle' # "over")
  /\ KeepRun /\ UNCHANGED interest

IdleOver == idle = "since" /\ idle' = "over" /\ KeepRun /\ UNCHANGED <<interest, preview>>

\* A preview that stalls, loses sync or its connection; see DeviceConn.
PreviewEnds == preview /\ preview' = FALSE /\ KeepRun /\ UNCHANGED <<interest, idle>>

\* A request that waits renews its interest every 100 ms.
InterestLapses ==
  /\ interest /\ \A s \in Sessions : ~Waiting(s)
  /\ interest' = FALSE /\ KeepRun /\ UNCHANGED <<idle, preview>>

(***************************************************************************)
(* RTSP sessions.                                                           *)
(***************************************************************************)
Go(s, p) == st' = [st EXCEPT ![s] = p]
KeepPipe == UNCHANGED <<pipeVars, audioVars, stream, idle, preview>>

\* OnDescribe: interest first, then the wait for a stream.
Describe(s, h) ==
  /\ st[s] = "new" /\ Go(s, "describing")
  /\ at' = [at EXCEPT ![s] = h] /\ interest' = TRUE
  /\ KeepPipe /\ UNCHANGED <<offer, clients>>

\* The stream is there; the client goes on with SETUP: OnSetup ties the
\* session to the handler, then waits in its turn.
Setup(s) ==
  /\ st[s] = "describing" /\ Ready(at[s]) /\ Go(s, "waiting")
  /\ interest' = TRUE /\ KeepPipe /\ UNCHANGED sessionVars

\* The stream is found; the server library adds the session to it afterwards.
SetupOk(s) ==
  /\ st[s] = "waiting" /\ Ready(at[s]) /\ Go(s, "found")
  /\ interest' = TRUE /\ offer' = [offer EXCEPT ![s] = codec]
  /\ KeepPipe /\ UNCHANGED <<at, clients>>

Join(s) == st[s] = "found" /\ Go(s, "ready") /\ KeepPipe /\ UNCHANGED <<sessionVars, interest>>

\* describeReadyTimeout: 503, and the client goes away; a two-way path is set
\* up without the stream, for talk alone.
Timeout(s) ==
  /\ Waiting(s) /\ ~Ready(at[s])
  /\ Go(s, IF st[s] = "waiting" /\ at[s] = "twoway" THEN "talking" ELSE "ended")
  /\ KeepPipe /\ UNCHANGED <<sessionVars, interest>>

\* OnPlay; playing is s \in clients[at[s]].
Play(s) ==
  /\ st[s] \in {"ready", "talking"}
  /\ clients' = [clients EXCEPT ![at[s]] = @ \cup {s}]
  /\ st' = [st EXCEPT ![s] = IF @ = "ready" THEN "playing" ELSE @]
  /\ KeepPipe /\ UNCHANGED <<at, offer, interest>>

OnPause(s) ==
  /\ st[s] = "playing" /\ Go(s, "ready")
  /\ clients' = [clients EXCEPT ![at[s]] = @ \ {s}]
  /\ KeepPipe /\ UNCHANGED <<at, offer, interest>>

\* Mutant of OnSessionClose: a session that was cut off keeps counting.
OnSessionCloseKeeps(s) ==
  /\ st[s] # "new" /\ Go(s, "new")
  /\ clients' = IF st[s] = "ended" THEN clients ELSE [clients EXCEPT ![at[s]] = @ \ {s}]
  /\ at' = [at EXCEPT ![s] = "main"] /\ offer' = [offer EXCEPT ![s] = "none"]
  /\ KeepPipe /\ UNCHANGED interest

\* The client leaves or was cut off.
OnSessionClose(s) ==
  /\ st[s] # "new" /\ Go(s, "new")
  /\ clients' = [clients EXCEPT ![at[s]] = @ \ {s}]
  /\ at' = [at EXCEPT ![s] = "main"] /\ offer' = [offer EXCEPT ![s] = "none"]
  /\ KeepPipe /\ UNCHANGED interest

SessionStep(s) ==
  \/ \E h \in Handlers : Describe(s, h)
  \/ Setup(s) \/ SetupOk(s) \/ Join(s) \/ Timeout(s)
  \/ Play(s) \/ OnPause(s) \/ OnSessionClose(s)

(***************************************************************************)
(* A video frame.                                                           *)
(***************************************************************************)
KeepFrame == UNCHANGED <<sessionVars, gateVars>>

\* handler.reset for one handler: the library closes the sessions that read
\* the stream; one about to be added to it finds it closed.
ResetTo(next, h) ==
  /\ stream' = [next EXCEPT ![h] = "none"]
  /\ st' = [s \in Sessions |->
             IF at[s] = h /\ Ready(h) /\ (Reading(s) \/ st[s] = "found") THEN "ended" ELSE st[s]]

\* reset and continue: the keyframe itself is dropped.
ResetAndDrop(next) == pc' = "resetMirror" /\ ResetTo(next, "main")

Drop == pc' = "next" /\ UNCHANGED <<audioVars, stream, st>>

\* The path is not exposed yet: it waits for the parameter sets, then for the
\* audio to show up or its window to end. setReady takes the main handler and
\* then its mirror.
Expose ==
  IF ~params' \/ (track = "none" /\ ~decided)
  THEN Drop
  ELSE /\ stream' = [stream EXCEPT !["main"] = Built]
       /\ carried' = CASE carried = "declared" -> "running"
                       [] carried = "confirmed" -> "published"
                       [] OTHER -> carried
       /\ pc' = "exposeMirror"
       /\ UNCHANGED <<track, decided, changes, rebuild, st>>

\* The track carried over never got a packet: drop it, at a keyframe.
DropDeclared(key) ==
  IF key
  THEN /\ carried' = "none" /\ track' = "none"
       /\ ResetAndDrop(NewMedia) /\ UNCHANGED <<decided, changes, rebuild>>
  ELSE Drop

\* Late audio: rebuild the session, at a keyframe.
Rebuild(key) ==
  IF key
  THEN /\ rebuild' = FALSE
       /\ ResetAndDrop(stream) /\ UNCHANGED <<track, carried, decided, changes>>
  ELSE Drop

\* The frame is written to both handlers, unless the stream is paused or
\* catches up; the confirmation of a carried track goes before a rebuild.
Pass ==
  /\ carried' = IF carried = "published" THEN "confirmed" ELSE carried
  /\ pc' = "next" /\ UNCHANGED <<track, decided, changes, rebuild, stream, st>>

Decide(key) ==
  \/ ~Ready("main") /\ Expose
  \/ Ready("main") /\ carried = "over" /\ DropDeclared(key)
  \/ Ready("main") /\ carried # "over" /\ carried # "published" /\ rebuild /\ Rebuild(key)
  \/ Ready("main") /\ (carried = "published" \/ (carried # "over" /\ ~rebuild)) /\ Pass

\* Mutant of Frame: the codec changes under the running session.
FrameNoReset(key, c, ps) ==
  /\ pc = "next" /\ preview
  /\ codec \notin {"none", c} => key
  /\ codec' = c
  /\ params' = (ps \/ (codec = c /\ params))
  /\ Decide(key)
  /\ KeepFrame

\* A frame with a codec supported, a timestamp and a picture; ps: it has the
\* parameter sets. A codec change waits for a keyframe and resets the session.
Frame(key, c, ps) ==
  /\ pc = "next" /\ preview
  /\ codec \notin {"none", c} => key
  /\ codec' = c
  /\ params' = (ps \/ (codec = c /\ params))
  /\ IF codec \in {"none", c}
       THEN Decide(key)
       ELSE pc' = "resetMirrorOn" /\ ResetTo(stream, "main") /\ UNCHANGED audioVars
  /\ KeepFrame

MirrorReset ==
  /\ pc \in {"resetMirror", "resetMirrorOn"} /\ ResetTo(stream, "twoway")
  /\ pc' = IF pc = "resetMirror" THEN "next" ELSE "decide"
  /\ KeepFrame /\ UNCHANGED <<codec, params, audioVars>>

\* The keyframe that changed the codec goes on.
AfterReset == pc = "decide" /\ UNCHANGED <<codec, params>> /\ Decide(TRUE) /\ KeepFrame

ExposeMirror ==
  /\ pc = "exposeMirror" /\ pc' = "next"
  /\ stream' = [stream EXCEPT !["twoway"] = IF @ = "none" THEN Built ELSE @]
  /\ KeepFrame /\ UNCHANGED <<codec, params, audioVars, st>>

(***************************************************************************)
(* An audio packet of format k: processAAC, processADPCM.                   *)
(***************************************************************************)
\* AAC of other parameters than the track's makes a new one; the track of the
\* other codec with the same parameters is left as it is.
NewTrack(k) == track = "none" \/ (k \in AACs /\ Rate(track) # Rate(k))

\* Mutant of Configure: a track that starts late asks for no rebuild.
ConfigureNoRebuild(k) ==
  IF NewTrack(k)
  THEN /\ track' = k /\ stream' = NewMedia
       /\ changes' = IF Ready("main") /\ changes < 2 THEN changes + 1 ELSE changes
       /\ UNCHANGED rebuild
  ELSE UNCHANGED <<track, stream, changes, rebuild>>

Configure(k) ==
  IF NewTrack(k)
  THEN /\ track' = k /\ stream' = NewMedia
       /\ changes' = IF Ready("main") /\ changes < 2 THEN changes + 1 ELSE changes
       /\ rebuild' = (rebuild \/ (Ready("main") /\ changes = 0))
  ELSE UNCHANGED <<track, stream, changes, rebuild>>

\* held: the picture is catching up. The packet is published although the
\* stream may not carry its media: writePacket skips it then. The encoder of
\* the other codec is nil, and using it ends the program.
Audio(k, held) ==
  /\ pc = "next" /\ preview
  /\ Configure(k)
  /\ LET publish == Ready("main") /\ ~Paused /\ ~held IN
       /\ pc' = IF publish /\ ~(k \in AACs <=> track' \in AACs) THEN "crashed" ELSE "next"
       /\ carried' = IF publish /\ carried \in {"running", "over"} THEN "published" ELSE carried
  /\ KeepFrame /\ UNCHANGED <<codec, params, decided, st>>

\* An AAC payload that cannot be parsed, or the end of startupDeadline: the
\* window is 5 s or 2 s, or none after a run without audio.
AudioDecided ==
  /\ ~decided /\ decided' = TRUE
  /\ KeepFrame /\ UNCHANGED <<pipeVars, track, carried, changes, rebuild, stream, st>>

ConfirmOver ==
  /\ carried = "running" /\ carried' = "over"
  /\ KeepFrame /\ UNCHANGED <<pipeVars, track, decided, changes, rebuild, stream, st>>

FrameStep == MirrorReset \/ AfterReset \/ ExposeMirror
Packet ==
  \/ \E key \in BOOLEAN, c \in Codecs, ps \in BOOLEAN : Frame(key, c, ps)
  \/ \E k \in AudioKinds, held \in BOOLEAN : Audio(k, held)
Timers == AudioDecided \/ ConfirmOver \/ IdleOver \/ InterestLapses

Next ==
  /\ pc # "crashed"
  /\ FrameStep \/ Packet \/ Timers \/ Gate \/ PreviewEnds \/ \E s \in Sessions : SessionStep(s)

Spec == Init /\ [][Next]_vars

(***************************************************************************)
(* Fairness.  The pipeline goes on, the device's loop asks the gate, time   *)
(* passes; a session that waits or was cut off is served.  As long as a    *)
(* preview runs the camera sends keyframes with parameter sets.            *)
(***************************************************************************)
Keyframe == \E c \in Codecs : codec \in {"none", c} /\ Frame(TRUE, c, TRUE)

Fairness ==
  /\ WF_vars(FrameStep) /\ WF_vars(Gate) /\ SF_vars(Keyframe)
  /\ WF_vars(AudioDecided) /\ WF_vars(ConfirmOver) /\ WF_vars(IdleOver) /\ WF_vars(InterestLapses)
  /\ \A s \in Sessions :
       /\ SF_vars(Setup(s)) /\ SF_vars(SetupOk(s)) /\ WF_vars(Join(s))
       /\ WF_vars(st[s] = "ended" /\ OnSessionClose(s))

FairSpec == Spec /\ Fairness

-----------------------------------------------------------------------------
\* The types of the variables; and addClient, removeClient: a handler counts
\* only sessions set up on it that have not gone.
TypeOK ==
  /\ pc \in Steps /\ codec \in Codecs \cup {"none"} /\ params \in BOOLEAN
  /\ track \in Tracks \cup {"none"} /\ carried \in Carried
  /\ decided \in BOOLEAN /\ changes \in 0..2 /\ rebuild \in BOOLEAN
  /\ stream \in [Handlers -> Streams] /\ DOMAIN clients = Handlers
  /\ st \in [Sessions -> Places] /\ at \in [Sessions -> Handlers]
  /\ offer \in [Sessions -> Codecs \cup {"none"}]
  /\ \A h \in Handlers : clients[h] \subseteq {s \in Sessions : at[s] = h /\ st[s] # "new"}
  /\ interest \in BOOLEAN /\ idle \in {"no", "since", "over"} /\ preview \in BOOLEAN

\* runStream's codec change, reset and writePacket: a session that reads a
\* stream gets frames of the codec it was set up with and of no other, on the
\* main path and on the two-way path, whenever it joined. (Frames are written
\* with the codec videoFormat stands for, and only outside of a reset.)
GetsWhatWasOffered ==
  pc # "resetMirrorOn" => \A s \in Sessions : Reading(s) => offer[s] = codec

\* requestRebuildIfLate, rebuildForAudio: a track that starts late, or turns
\* out to be another one than declared, is carried by both streams in the end,
\* as long as previews go on. The code asks for one rebuild in its life, so
\* this ends with the second track that changes under an exposed stream, and
\* with the program when the audio codec itself changes.
Mute == track # "none" /\ \E h \in Handlers : stream[h] \in {"video", "stale"}
LateAudioCarried ==
  ([]<>preview) => ((Mute /\ changes < 2) ~> (~Mute \/ changes = 2 \/ pc = "crashed"))

\* idleGate, touchInterest, addClient, removeClient: a request that waits for
\* the stream starts the preview and is served unless it gives up first; a
\* session that plays, on the mirror too, keeps the preview coming back; and
\* when all sessions have gone it stops for good, so that the camera can
\* sleep: no session that is gone still counts.
InterestDecides ==
  /\ \A s \in Sessions : Waiting(s) ~> (~Waiting(s) \/ pc = "crashed")
  /\ \A s \in Sessions : <>[](st[s] = "playing") => []<>(preview \/ pc = "crashed")
  /\ IdleDisconnect =>
       (<>[](\A s \in Sessions : st[s] = "new") => <>[](~preview \/ pc = "crashed"))

\* declareAAC: "The stream corrects itself if the camera turns out to send
\* something else".
CorrectsItself == pc # "crashed"
=============================================================================
