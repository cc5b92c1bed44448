---------------------------- MODULE StreamProofs ----------------------------
(***************************************************************************)
(* Theorems about the two halves of the stream pipeline, which share no    *)
(* variable: StreamSession, for any number of sessions, any audio the      *)
(* camera may send and any hint, with and without idling and pausing; and  *)
(* MediaClock, for all widths and rates and any camera clock.              *)
(***************************************************************************)
EXTENDS StreamSession, MediaClock, TLAPS


\* A session that was given a stream: the library knows it, or is about to.
Given(s) == st[s] \in {"found", "ready", "playing"}

\* Whoever was given a stream has one, of the codec it was set up with; only
\* while a codec change has reset the main handler and not yet its mirror may
\* a session of the mirror be left with the codec before.
OfferInv ==
  /\ \A s \in Sessions : Given(s) => Ready(at[s])
  /\ \A s \in Sessions : Given(s) /\ ~(pc = "resetMirrorOn" /\ at[s] = "twoway") => offer[s] = codec
  /\ \A h \in Handlers : Ready(h) => codec # "none"
  /\ pc \notin {"next", "crashed"} => codec # "none"

IInv == TypeOK /\ OfferInv

USE DEF Handlers

-----------------------------------------------------------------------------
(***************************************************************************)
(* The steps of the pipeline that do something to the streams.             *)
(***************************************************************************)
\* The media of the publisher replaced: no stream comes or goes.
LEMMA NewMediaType ==
  ASSUME stream \in [Handlers -> Streams]
  PROVE  /\ NewMedia \in [Handlers -> Streams]
         /\ \A h \in Handlers : NewMedia[h] # "none" <=> stream[h] # "none"
  BY DEF NewMedia, Streams

\* A reset of one handler: its stream goes, and the sessions given it with it.
LEMMA ResetParts ==
  ASSUME TypeOK, NEW next \in [Handlers -> Streams], NEW h \in Handlers, ResetTo(next, h)
  PROVE  /\ stream' \in [Handlers -> Streams] /\ stream'[h] = "none"
         /\ \A g \in Handlers \ {h} : stream'[g] = next[g]
         /\ st' \in [Sessions -> Places]
         /\ \A s \in Sessions : /\ st'[s] = st[s] \/ (st[s] # "new" /\ st'[s] = "ended")
                                /\ at[s] = h /\ Ready(h) => st'[s] \notin {"found", "ready", "playing"}
  BY DEF ResetTo, TypeOK, Streams, Places, Reading

\* What every branch of Decide does, from where the frame was taken.
DecideParts ==
  /\ pc' \in {"resetMirror", "next", "exposeMirror"}
  /\ track' \in Tracks \cup {"none"} /\ carried' \in Carried
  /\ decided' \in BOOLEAN /\ changes' \in 0..2 /\ rebuild' \in BOOLEAN
  /\ stream' \in [Handlers -> Streams] /\ st' \in [Sessions -> Places]
  /\ \A s \in Sessions :
       /\ st'[s] = st[s] \/ (st[s] # "new" /\ st'[s] = "ended")
       /\ stream'[at[s]] = "none" /\ stream[at[s]] # "none" => st'[s] \notin {"found", "ready", "playing"}

LEMMA DecideDoes ==
  ASSUME TypeOK, NEW key \in BOOLEAN, Decide(key)
  PROVE  DecideParts
  <1>1. CASE Drop
    BY <1>1 DEF Drop, TypeOK, DecideParts, audioVars
  <1>2. CASE Pass
    BY <1>2 DEF Pass, TypeOK, DecideParts, Carried
  <1>3. CASE Expose
    <2>1. Built \in Streams /\ Built # "none"
      BY DEF Built, Streams
    <2>2. CASE ~Drop
      <3>1. /\ stream' = [stream EXCEPT !["main"] = Built]
            /\ carried' \in {"running", "published", carried}
            /\ pc' = "exposeMirror"
            /\ UNCHANGED <<track, decided, changes, rebuild, st>>
        BY <1>3, <2>2 DEF Expose
      <3>2. /\ stream' \in [Handlers -> Streams] /\ carried' \in Carried
            /\ \A h \in Handlers : stream'[h] = "none" => stream[h] = "none"
        BY <2>1, <3>1 DEF TypeOK, Carried
      <3>. QED
        BY <3>1, <3>2 DEF TypeOK, DecideParts
    <2>. QED
      BY <1>1, <2>2
  <1>4. CASE DropDeclared(key)
    <2>1. CASE key
      <3>1. ResetTo(NewMedia, "main") /\ pc' = "resetMirror"
        BY <1>4, <2>1 DEF DropDeclared, ResetAndDrop
      <3>2. /\ NewMedia \in [Handlers -> Streams]
            /\ \A h \in Handlers : NewMedia[h] # "none" <=> stream[h] # "none"
        BY NewMediaType DEF TypeOK
      <3>3. /\ stream' \in [Handlers -> Streams] /\ stream'["main"] = "none"
            /\ stream'["twoway"] = NewMedia["twoway"]
            /\ st' \in [Sessions -> Places]
            /\ \A s \in Sessions : /\ st'[s] = st[s] \/ (st[s] # "new" /\ st'[s] = "ended")
                                   /\ at[s] = "main" /\ Ready("main") => st'[s] \notin {"found", "ready", "playing"}
        BY <3>1, <3>2, ResetParts
      <3>4. track' \in Tracks \cup {"none"} /\ carried' \in Carried
            /\ decided' \in BOOLEAN /\ changes' \in 0..2 /\ rebuild' \in BOOLEAN
        BY <1>4, <2>1 DEF DropDeclared, TypeOK, Carried
      <3>. QED
        BY <3>1, <3>2, <3>3, <3>4 DEF DecideParts, TypeOK, Ready
    <2>. QED
      BY <1>1, <1>4, <2>1 DEF DropDeclared
  <1>5. CASE Rebuild(key)
    <2>1. CASE key
      <3>1. ResetTo(stream, "main") /\ pc' = "resetMirror"
        BY <1>5, <2>1 DEF Rebuild, ResetAndDrop
      <3>2. /\ stream' \in [Handlers -> Streams] /\ stream'["main"] = "none"
            /\ stream'["twoway"] = stream["twoway"]
            /\ st' \in [Sessions -> Places]
            /\ \A s \in Sessions : /\ st'[s] = st[s] \/ (st[s] # "new" /\ st'[s] = "ended")
                                   /\ at[s] = "main" /\ Ready("main") => st'[s] \notin {"found", "ready", "playing"}
        BY <3>1, ResetParts DEF TypeOK
      <3>3. track' \in Tracks \cup {"none"} /\ carried' \in Carried
            /\ decided' \in BOOLEAN /\ changes' \in 0..2 /\ rebuild' \in BOOLEAN
        BY <1>5, <2>1 DEF Rebuild, TypeOK
      <3>. QED
        BY <3>1, <3>2, <3>3 DEF DecideParts, TypeOK, Ready
    <2>. QED
      BY <1>1, <1>5, <2>1 DEF Rebuild
  <1>. QED
    BY <1>2, <1>3, <1>4, <1>5 DEF Decide

\* A step that takes sessions only to their end keeps who is counted.
LEMMA KeepCounts ==
  ASSUME TypeOK, UNCHANGED sessionVars,
         \A s \in Sessions : st'[s] = st[s] \/ (st[s] # "new" /\ st'[s] = "ended")
  PROVE  /\ DOMAIN clients' = Handlers
         /\ at' \in [Sessions -> Handlers] /\ offer' \in [Sessions -> Codecs \cup {"none"}]
         /\ \A h \in Handlers : clients'[h] \subseteq {s \in Sessions : at'[s] = h /\ st'[s] # "new"}
  BY DEF TypeOK, sessionVars

\* A frame handled: Decide keeps the invariant.
LEMMA DecideKeeps ==
  ASSUME IInv, NEW key \in BOOLEAN, Decide(key), KeepFrame,
         codec' \in Codecs, params' \in BOOLEAN,
         \/ codec' = codec
         \/ codec = "none",
         pc # "resetMirrorOn"
  PROVE  IInv'
  <1>1. TypeOK /\ OfferInv /\ DecideParts
    BY DecideDoes DEF IInv
  <1>2. UNCHANGED sessionVars /\ UNCHANGED gateVars
    BY DEF KeepFrame
  <1>3. TypeOK'
    <2>1. /\ DOMAIN clients' = Handlers
          /\ at' \in [Sessions -> Handlers] /\ offer' \in [Sessions -> Codecs \cup {"none"}]
          /\ \A h \in Handlers : clients'[h] \subseteq {s \in Sessions : at'[s] = h /\ st'[s] # "new"}
      BY <1>1, <1>2, KeepCounts DEF DecideParts
    <2>2. interest' \in BOOLEAN /\ idle' \in {"no", "since", "over"} /\ preview' \in BOOLEAN
      BY <1>1, <1>2 DEF TypeOK, gateVars
    <2>. QED
      BY <1>1, <2>1, <2>2 DEF TypeOK, DecideParts, Steps
  <1>4. OfferInv'
    <2>1. \A s \in Sessions : at'[s] = at[s] /\ at[s] \in Handlers /\ offer'[s] = offer[s]
      BY <1>1, <1>2 DEF TypeOK, sessionVars
    <2>2. \A s \in Sessions : Given(s)' => Given(s) /\ Ready(at[s]) /\ offer[s] = codec /\ codec' = codec
      BY <1>1 DEF DecideParts, Given, OfferInv, TypeOK
    <2>3. \A s \in Sessions : Given(s)' => Ready(at[s])'
      BY <1>1, <2>1, <2>2 DEF DecideParts, Given, Ready
    <2>4. codec' # "none"
      BY DEF Codecs
    <2>. QED
      BY <2>1, <2>2, <2>3, <2>4 DEF OfferInv
  <1>. QED
    BY <1>3, <1>4 DEF IInv

-----------------------------------------------------------------------------
LEMMA InitInv == Init => IInv
  <1> SUFFICES ASSUME Init PROVE IInv
    OBVIOUS
  <1>1. track \in Tracks \cup {"none"} /\ carried \in Carried
    BY SessionAssumption DEF Init, Tracks, Carried
  <1>2. /\ stream \in [Handlers -> Streams] /\ DOMAIN clients = Handlers
        /\ st \in [Sessions -> Places] /\ at \in [Sessions -> Handlers]
        /\ offer \in [Sessions -> Codecs \cup {"none"}]
        /\ \A h \in Handlers : clients[h] = {} /\ stream[h] = "none"
        /\ \A s \in Sessions : st[s] = "new"
    BY DEF Init, Streams, Places, Codecs
  <1>3. TypeOK
    <2>1. \A h \in Handlers : clients[h] \subseteq {s \in Sessions : at[s] = h /\ st[s] # "new"}
      BY <1>2
    <2>2. pc \in Steps /\ codec \in Codecs \cup {"none"} /\ idle \in {"no", "since", "over"}
      BY DEF Init, Steps
    <2>3. changes \in 0..2
      BY DEF Init
    <2>4. params \in BOOLEAN /\ decided \in BOOLEAN /\ rebuild \in BOOLEAN
      BY Zenon DEF Init
    <2>5. interest \in BOOLEAN /\ preview \in BOOLEAN
      BY Zenon DEF Init
    <2>. QED
      BY <1>1, <1>2, <2>1, <2>2, <2>3, <2>4, <2>5 DEF TypeOK
  <1>4. OfferInv
    BY <1>2 DEF Init, OfferInv, Given, Ready
  <1>. QED
    BY <1>3, <1>4 DEF IInv

\* The pipeline's steps.
LEMMA FrameInv ==
  ASSUME IInv, NEW key \in BOOLEAN, NEW c \in Codecs, NEW ps \in BOOLEAN, Frame(key, c, ps)
  PROVE  IInv'
  <1>1. /\ pc = "next" /\ codec' = c /\ params' \in BOOLEAN /\ KeepFrame /\ c # "none"
    BY DEF Frame, IInv, TypeOK, Codecs
  <1>2. CASE codec \in {"none", c}
    BY <1>1, <1>2, DecideKeeps DEF Frame
  <1>3. CASE codec \notin {"none", c}
    <2>1. pc' = "resetMirrorOn" /\ ResetTo(stream, "main") /\ UNCHANGED audioVars
      BY <1>3 DEF Frame
    <2>2. /\ stream' \in [Handlers -> Streams] /\ stream'["main"] = "none"
          /\ stream'["twoway"] = stream["twoway"]
          /\ st' \in [Sessions -> Places]
          /\ \A s \in Sessions : /\ st'[s] = st[s] \/ (st[s] # "new" /\ st'[s] = "ended")
                                 /\ at[s] = "main" /\ Ready("main") => st'[s] \notin {"found", "ready", "playing"}
      BY <2>1, ResetParts DEF IInv, TypeOK
    <2>3. TypeOK'
      <3>1. /\ DOMAIN clients' = Handlers
            /\ at' \in [Sessions -> Handlers] /\ offer' \in [Sessions -> Codecs \cup {"none"}]
            /\ \A h \in Handlers : clients'[h] \subseteq {s \in Sessions : at'[s] = h /\ st'[s] # "new"}
        BY <1>1, <2>2, KeepCounts DEF KeepFrame, IInv
      <3>. QED
        BY <1>1, <2>1, <2>2, <3>1 DEF IInv, TypeOK, Steps, KeepFrame, gateVars, audioVars
    <2>4. \A s \in Sessions : Given(s)' => Given(s) /\ at[s] # "main" /\ at'[s] = at[s] /\ at[s] \in Handlers
      BY <1>1, <2>2 DEF Given, IInv, TypeOK, OfferInv, KeepFrame, sessionVars
    <2>5. ASSUME NEW s \in Sessions, Given(s)' PROVE at'[s] = "twoway" /\ stream'["twoway"] # "none"
      <3>1. Given(s) /\ at'[s] = "twoway" /\ at[s] = "twoway"
        BY <2>4, <2>5
      <3>2. stream["twoway"] # "none"
        BY <3>1 DEF IInv, OfferInv, Ready
      <3>. QED
        BY <2>2, <3>1, <3>2
    <2>6. OfferInv'
      BY <1>1, <2>1, <2>5 DEF OfferInv, Ready
    <2>. QED
      BY <2>3, <2>6 DEF IInv
  <1>. QED
    BY <1>2, <1>3

LEMMA FrameStepInv ==
  ASSUME IInv, FrameStep
  PROVE  IInv'
  <1>1. CASE MirrorReset
    <2>1. /\ ResetTo(stream, "twoway") /\ pc' \in {"next", "decide"} /\ KeepFrame
          /\ UNCHANGED <<codec, params, audioVars>>
      BY <1>1 DEF MirrorReset
    <2>2. /\ stream' \in [Handlers -> Streams] /\ stream'["twoway"] = "none"
          /\ stream'["main"] = stream["main"]
          /\ st' \in [Sessions -> Places]
          /\ \A s \in Sessions : /\ st'[s] = st[s] \/ (st[s] # "new" /\ st'[s] = "ended")
                                 /\ at[s] = "twoway" /\ Ready("twoway") => st'[s] \notin {"found", "ready", "playing"}
      BY <2>1, ResetParts DEF IInv, TypeOK
    <2>3. TypeOK'
      <3>1. /\ DOMAIN clients' = Handlers
            /\ at' \in [Sessions -> Handlers] /\ offer' \in [Sessions -> Codecs \cup {"none"}]
            /\ \A h \in Handlers : clients'[h] \subseteq {s \in Sessions : at'[s] = h /\ st'[s] # "new"}
        BY <2>1, <2>2, KeepCounts DEF KeepFrame, IInv
      <3>. QED
        BY <2>1, <2>2, <3>1 DEF IInv, TypeOK, Steps, KeepFrame, gateVars, audioVars
    <2>4. \A s \in Sessions : Given(s)' => /\ Given(s) /\ at[s] = "main" /\ at'[s] = at[s]
                                           /\ offer'[s] = offer[s]
      BY <2>1, <2>2 DEF Given, IInv, TypeOK, OfferInv, KeepFrame, sessionVars
    <2>5. ASSUME NEW s \in Sessions, Given(s)'
          PROVE  stream'[at'[s]] # "none" /\ offer'[s] = codec'
      <3>1. /\ Given(s) /\ at[s] = "main" /\ at'[s] = "main"
            /\ offer'[s] = offer[s] /\ codec' = codec
        BY <2>1, <2>4, <2>5
      <3>2. stream["main"] # "none" /\ offer[s] = codec
        BY <3>1 DEF IInv, OfferInv, Ready
      <3>. QED
        BY <2>2, <3>1, <3>2
    <2>6. codec # "none" /\ codec' = codec
      BY <1>1, <2>1 DEF MirrorReset, IInv, OfferInv
    <2>7. OfferInv'
      BY <2>5, <2>6 DEF OfferInv, Ready
    <2>. QED
      BY <2>3, <2>7 DEF IInv
  <1>2. CASE AfterReset
    <2>1. pc = "decide" /\ UNCHANGED <<codec, params>> /\ Decide(TRUE) /\ KeepFrame
      BY <1>2 DEF AfterReset
    <2>2. codec \in Codecs /\ params \in BOOLEAN
      BY <2>1 DEF IInv, TypeOK, OfferInv
    <2>. QED
      BY <2>1, <2>2, DecideKeeps
  <1>3. CASE ExposeMirror
    <2>1. Built \in Streams /\ Built # "none"
      BY DEF Built, Streams
    <2>2. \A h \in Handlers : Ready(h)' <=> (Ready(h) \/ h = "twoway")
      BY <1>3, <2>1 DEF ExposeMirror, IInv, TypeOK, Ready
    <2>3. TypeOK'
      BY <1>3, <2>1 DEF ExposeMirror, IInv, TypeOK, Steps, KeepFrame, sessionVars, gateVars, audioVars
    <2>4. /\ pc = "exposeMirror" /\ pc' = "next" /\ codec' = codec /\ codec # "none"
          /\ st' = st /\ at' = at /\ offer' = offer /\ at \in [Sessions -> Handlers]
      BY <1>3 DEF ExposeMirror, IInv, OfferInv, TypeOK, KeepFrame, sessionVars
    <2>5. \A s \in Sessions : Given(s)' => Given(s) /\ Ready(at[s])' /\ offer'[s] = codec'
      BY <2>2, <2>4 DEF IInv, OfferInv, Given
    <2>. QED
      BY <2>3, <2>4, <2>5 DEF IInv, OfferInv
  <1>. QED
    BY <1>1, <1>2, <1>3 DEF FrameStep

-----------------------------------------------------------------------------
(***************************************************************************)
(* The sessions.                                                           *)
(***************************************************************************)
\* What a step of session s does: it goes to p with handler h and offer o.
SessionMoves(s, p, h, o) ==
  /\ KeepPipe /\ interest' \in BOOLEAN
  /\ p \in Places /\ h \in Handlers /\ o \in Codecs \cup {"none"}
  /\ st' = [st EXCEPT ![s] = p] /\ at' = [at EXCEPT ![s] = h] /\ offer' = [offer EXCEPT ![s] = o]
  /\ DOMAIN clients' = Handlers
  /\ \A g \in Handlers : clients'[g] \subseteq clients[g] \cup {s}
  /\ \A g \in Handlers : s \in clients'[g] => g = h /\ p # "new"
  /\ p \in {"found", "ready", "playing"} =>
       Ready(h) /\ ((pc = "resetMirrorOn" /\ h = "twoway") \/ o = codec)

LEMMA SessionStepKeeps ==
  ASSUME IInv, NEW s \in Sessions, NEW p, NEW h, NEW o, SessionMoves(s, p, h, o)
  PROVE  IInv'
  <1>. USE DEF SessionMoves
  <1>1. /\ pc' = pc /\ codec' = codec /\ params' = params /\ stream' = stream
        /\ UNCHANGED audioVars /\ idle' = idle /\ preview' = preview
    BY DEF KeepPipe, pipeVars
  <1>2. \A t \in Sessions : /\ st'[t] = IF t = s THEN p ELSE st[t]
                            /\ at'[t] = IF t = s THEN h ELSE at[t]
                            /\ offer'[t] = IF t = s THEN o ELSE offer[t]
    BY DEF IInv, TypeOK
  <1>3. \A g \in Handlers : clients'[g] \subseteq {t \in Sessions : at'[t] = g /\ st'[t] # "new"}
    BY <1>2 DEF IInv, TypeOK
  <1>4. TypeOK'
    BY <1>1, <1>3 DEF IInv, TypeOK, audioVars
  <1>5. OfferInv'
    BY <1>1, <1>2 DEF IInv, OfferInv, Given, Ready
  <1>. QED
    BY <1>4, <1>5 DEF IInv

LEMMA SessionInv ==
  ASSUME IInv, NEW s \in Sessions, SessionStep(s)
  PROVE  IInv'
  <1>. /\ at[s] \in Handlers /\ offer[s] \in Codecs \cup {"none"} /\ st[s] \in Places
       /\ interest \in BOOLEAN /\ codec \in Codecs \cup {"none"}
       /\ at \in [Sessions -> Handlers] /\ offer \in [Sessions -> Codecs \cup {"none"}]
       /\ DOMAIN clients = Handlers
       /\ \A g \in Handlers : clients[g] \subseteq {t \in Sessions : at[t] = g /\ st[t] # "new"}
    BY DEF IInv, TypeOK
  <1>. at = [at EXCEPT ![s] = at[s]] /\ offer = [offer EXCEPT ![s] = offer[s]]
    OBVIOUS
  <1>. USE DEF Go
  <1>1. ASSUME NEW h \in Handlers, Describe(s, h) PROVE IInv'
    <2>1. \A g \in Handlers : s \notin clients[g]
      BY <1>1 DEF Describe
    <2>2. SessionMoves(s, "describing", h, offer[s])
      BY <1>1, <2>1 DEF Describe, Places, SessionMoves
    <2>. QED
      BY <2>2, SessionStepKeeps
  <1>2. CASE Setup(s)
    <2>1. SessionMoves(s, "waiting", at[s], offer[s])
      BY <1>2 DEF Setup, Places, sessionVars, SessionMoves
    <2>. QED
      BY <2>1, SessionStepKeeps
  <1>3. CASE SetupOk(s)
    <2>1. SessionMoves(s, "found", at[s], codec)
      BY <1>3 DEF SetupOk, Places, SessionMoves
    <2>. QED
      BY <2>1, SessionStepKeeps
  <1>4. CASE Join(s)
    <2>1. Ready(at[s]) /\ ((pc = "resetMirrorOn" /\ at[s] = "twoway") \/ offer[s] = codec)
      BY <1>4 DEF Join, IInv, OfferInv, Given
    <2>2. SessionMoves(s, "ready", at[s], offer[s])
      BY <1>4, <2>1 DEF Join, Places, sessionVars, SessionMoves
    <2>. QED
      BY <2>2, SessionStepKeeps
  <1>5. CASE Timeout(s)
    <2>1. PICK p \in {"talking", "ended"} : st' = [st EXCEPT ![s] = p]
      BY <1>5 DEF Timeout
    <2>2. SessionMoves(s, p, at[s], offer[s])
      BY <1>5, <2>1 DEF Timeout, Places, sessionVars, SessionMoves, Waiting
    <2>. QED
      BY <2>2, SessionStepKeeps
  <1>6. CASE Play(s)
    <2>1. st[s] = "ready" => Ready(at[s]) /\ ((pc = "resetMirrorOn" /\ at[s] = "twoway") \/ offer[s] = codec)
      BY DEF IInv, OfferInv, Given
    <2>2. /\ DOMAIN clients' = Handlers
          /\ \A g \in Handlers : clients'[g] \subseteq clients[g] \cup {s}
          /\ \A g \in Handlers : s \in clients'[g] => g = at[s]
      BY <1>6 DEF Play
    <2>3. CASE st[s] = "ready"
      <3>1. SessionMoves(s, "playing", at[s], offer[s])
        BY <1>6, <2>1, <2>2, <2>3 DEF Play, Places, SessionMoves
      <3>. QED
        BY <3>1, SessionStepKeeps
    <2>4. CASE st[s] = "talking"
      <3>1. SessionMoves(s, "talking", at[s], offer[s])
        BY <1>6, <2>2, <2>4 DEF Play, Places, SessionMoves
      <3>. QED
        BY <3>1, SessionStepKeeps
    <2>. QED
      BY <1>6, <2>3, <2>4 DEF Play
  <1>7. CASE OnPause(s)
    <2>1. Ready(at[s]) /\ ((pc = "resetMirrorOn" /\ at[s] = "twoway") \/ offer[s] = codec)
      BY <1>7 DEF OnPause, IInv, OfferInv, Given
    <2>2. /\ DOMAIN clients' = Handlers
          /\ \A g \in Handlers : clients'[g] \subseteq clients[g]
      BY <1>7 DEF OnPause
    <2>3. SessionMoves(s, "ready", at[s], offer[s])
      BY <1>7, <2>1, <2>2 DEF OnPause, Places, SessionMoves
    <2>. QED
      BY <2>3, SessionStepKeeps
  <1>8. CASE OnSessionClose(s)
    <2>1. /\ DOMAIN clients' = Handlers
          /\ \A g \in Handlers : clients'[g] \subseteq clients[g] /\ s \notin clients'[g]
      BY <1>8 DEF OnSessionClose
    <2>2. SessionMoves(s, "new", "main", "none")
      BY <1>8, <2>1 DEF OnSessionClose, Places, SessionMoves
    <2>. QED
      BY <2>2, SessionStepKeeps
  <1>. QED
    BY <1>1, <1>2, <1>3, <1>4, <1>5, <1>6, <1>7, <1>8 DEF SessionStep

-----------------------------------------------------------------------------
(***************************************************************************)
(* Audio, the gate and the timers.                                          *)
(***************************************************************************)
\* Steps after which the same streams are there for the same sessions.
Quiet ==
  /\ UNCHANGED <<codec, params, st>> /\ UNCHANGED sessionVars
  /\ (pc' = pc \/ (pc' \in {"next", "crashed"} /\ pc # "resetMirrorOn"))
  /\ stream' \in [Handlers -> Streams]
  /\ \A h \in Handlers : stream'[h] # "none" <=> stream[h] # "none"
  /\ track' \in Tracks \cup {"none"} /\ carried' \in Carried
  /\ decided' \in BOOLEAN /\ changes' \in 0..2 /\ rebuild' \in BOOLEAN
  /\ interest' \in BOOLEAN /\ idle' \in {"no", "since", "over"} /\ preview' \in BOOLEAN

LEMMA QuietKeeps ==
  ASSUME IInv, Quiet
  PROVE  IInv'
  <1>1. TypeOK'
    BY DEF IInv, TypeOK, sessionVars, Steps, Quiet
  <1>2. OfferInv'
    <2>1. \A h \in Handlers : Ready(h)' <=> Ready(h)
      BY DEF Ready, Quiet
    <2>. QED
      BY <2>1 DEF IInv, OfferInv, Given, sessionVars, TypeOK, Quiet
  <1>. QED
    BY <1>1, <1>2 DEF IInv

LEMMA AudioInv ==
  ASSUME IInv, NEW k \in AudioKinds, NEW held \in BOOLEAN, Audio(k, held)
  PROVE  IInv'
  <1>1. k \in Tracks
    BY SessionAssumption
  <1>2. TypeOK /\ stream \in [Handlers -> Streams]
    BY DEF IInv, TypeOK
  <1>3. /\ NewMedia \in [Handlers -> Streams]
        /\ \A h \in Handlers : NewMedia[h] # "none" <=> stream[h] # "none"
    BY <1>2, NewMediaType
  <1>4. /\ stream' \in [Handlers -> Streams] /\ track' \in Tracks \cup {"none"}
        /\ \A h \in Handlers : stream'[h] # "none" <=> stream[h] # "none"
    BY <1>1, <1>2, <1>3 DEF Audio, Configure, TypeOK
  <1>5. changes' \in 0..2
    BY <1>2 DEF Audio, Configure, TypeOK
  <1>6. rebuild' \in BOOLEAN
    BY <1>2, Zenon DEF Audio, Configure, TypeOK
  <1>7. /\ pc = "next" /\ pc' \in {"next", "crashed"} /\ carried' \in Carried
        /\ UNCHANGED <<codec, params, decided, st>> /\ KeepFrame
    BY <1>2 DEF Audio, TypeOK, Carried
  <1>8. Quiet
    BY <1>2, <1>4, <1>5, <1>6, <1>7 DEF KeepFrame, gateVars, TypeOK, Quiet
  <1>. QED
    BY <1>8, QuietKeeps

LEMMA QuietInv ==
  ASSUME IInv, Timers \/ Gate \/ PreviewEnds \/ UNCHANGED vars
  PROVE  IInv'
  <1>. SUFFICES Quiet
    BY QuietKeeps
  <1>. TypeOK
    BY DEF IInv
  <1>1. CASE AudioDecided
    BY <1>1 DEF AudioDecided, KeepFrame, gateVars, pipeVars, TypeOK, Quiet
  <1>2. CASE ConfirmOver
    BY <1>2 DEF ConfirmOver, KeepFrame, gateVars, pipeVars, TypeOK, Carried, Quiet
  <1>3. CASE IdleOver
    BY <1>3 DEF IdleOver, KeepRun, pipeVars, audioVars, TypeOK, Quiet
  <1>4. CASE InterestLapses
    BY <1>4 DEF InterestLapses, KeepRun, pipeVars, audioVars, TypeOK, Quiet
  <1>5. CASE Gate
    <2>1. idle' \in {"no", "since", "over"} /\ preview' \in BOOLEAN /\ KeepRun /\ interest' = interest
      BY <1>5, SessionAssumption DEF Gate, TypeOK
    <2>. QED
      BY <2>1 DEF KeepRun, pipeVars, audioVars, TypeOK, Quiet
  <1>6. CASE PreviewEnds
    BY <1>6 DEF PreviewEnds, KeepRun, pipeVars, audioVars, TypeOK, Quiet
  <1>7. CASE UNCHANGED vars
    BY <1>7 DEF vars, pipeVars, audioVars, gateVars, TypeOK, Quiet
  <1>. QED
    BY <1>1, <1>2, <1>3, <1>4, <1>5, <1>6, <1>7 DEF Timers

-----------------------------------------------------------------------------
LEMMA NextInv == IInv /\ [Next]_vars => IInv'
  <1>. SUFFICES ASSUME IInv, [Next]_vars PROVE IInv'
    OBVIOUS
  <1>1. CASE UNCHANGED vars
    BY <1>1, QuietInv
  <1>2. CASE Next
    <2>1. CASE FrameStep
      BY <2>1, FrameStepInv
    <2>2. CASE Packet
      BY <2>2, FrameInv, AudioInv DEF Packet
    <2>3. CASE Timers \/ Gate \/ PreviewEnds
      BY <2>3, QuietInv
    <2>4. CASE \E s \in Sessions : SessionStep(s)
      BY <2>4, SessionInv
    <2>. QED
      BY <1>2, <2>1, <2>2, <2>3, <2>4 DEF Next
  <1>. QED
    BY <1>1, <1>2

LEMMA InvHolds == Spec => []IInv
  BY InitInv, NextInv, PTL DEF Spec

\* The variables keep their types, and a handler counts only sessions set up
\* on it that have not gone (addClient, removeClient).
THEOREM TypeCorrect == Spec => []TypeOK
  <1>1. IInv => TypeOK
    BY DEF IInv
  <1>. QED
    BY <1>1, InvHolds, PTL

\* A session that reads a stream gets the codec it was set up with, although
\* the main handler and its mirror are reset one after the other, while
\* sessions are set up, join, play and leave (runStream, reset, OnSetup).
THEOREM OfferedCodec == Spec => []GetsWhatWasOffered
  <1>1. IInv => GetsWhatWasOffered
    BY DEF IInv, OfferInv, GetsWhatWasOffered, Given, Reading
  <1>. QED
    BY <1>1, InvHolds, PTL

-----------------------------------------------------------------------------

(***************************************************************************)
(* Remainders and quotients, for any divisor.                              *)
(***************************************************************************)
LEMMA DivMod ==
  \A n \in Nat \ {0}, a \in Int : a % n \in 0..(n - 1) /\ a \div n \in Int /\ a = (n * (a \div n)) + (a % n)
  OBVIOUS

LEMMA TimesAtLeast == \A n \in Nat \ {0}, d \in Int : d >= 1 => n * d >= n
  OBVIOUS

\* There is one quotient and one remainder.
LEMMA DivModUnique ==
  ASSUME NEW n \in Nat \ {0}, NEW r \in 0..(n - 1), NEW q \in Int, NEW a \in Int, a = r + (n * q)
  PROVE  a % n = r /\ a \div n = q
  <1>. DEFINE p == a \div n
              m == a % n
  <1>1. p \in Int /\ m \in 0..(n - 1) /\ a = (n * p) + m
    BY DivMod
  <1>. HIDE DEF p, m
  <1>2. n * (p - q) = r - m /\ n * (q - p) = m - r
    BY <1>1
  <1>3. p - q < 1 /\ q - p < 1
    BY <1>1, <1>2, TimesAtLeast
  <1>4. p = q
    BY <1>1, <1>3
  <1>5. m = r
    BY <1>1, <1>4
  <1>. QED
    BY <1>4, <1>5 DEF p, m

LEMMA ModShift ==
  ASSUME NEW n \in Nat \ {0}, NEW a \in Int, NEW k \in Int
  PROVE  (a + (n * k)) % n = a % n
  <1>. DEFINE q == a \div n
              m == a % n
  <1>1. q \in Int /\ m \in 0..(n - 1) /\ a = (n * q) + m
    BY DivMod
  <1>. HIDE DEF q, m
  <1>2. a + (n * k) = m + (n * (q + k)) /\ q + k \in Int /\ a + (n * k) \in Int
    BY <1>1
  <1>3. (a + (n * k)) % n = m
    BY <1>1, <1>2, DivModUnique
  <1>. QED
    BY <1>3 DEF m

LEMMA ModSmall ==
  ASSUME NEW n \in Nat \ {0}, NEW a \in 0..(n - 1)
  PROVE  a % n = a
  <1>1. 0 \in Int /\ a = a + (n * 0)
    OBVIOUS
  <1>. QED
    BY <1>1, DivModUnique

\* A remainder may be taken of a part first.
LEMMA ModAdd ==
  ASSUME NEW n \in Nat \ {0}, NEW a \in Int, NEW b \in Int
  PROVE  /\ ((a % n) + b) % n = (a + b) % n
         /\ (b + (a % n)) % n = (a + b) % n
         /\ (b - (a % n)) % n = (b - a) % n
  <1>. DEFINE q == a \div n
              m == a % n
  <1>1. q \in Int /\ m \in Int /\ a = (n * q) + m
    BY DivMod
  <1>. HIDE DEF q, m
  <1>2. /\ a + b \in Int /\ b - a \in Int /\ -q \in Int
        /\ m + b = (a + b) + (n * (-q)) /\ b + m = (a + b) + (n * (-q)) /\ b - m = (b - a) + (n * q)
    BY <1>1
  <1>3. ((a + b) + (n * (-q))) % n = (a + b) % n /\ ((b - a) + (n * q)) % n = (b - a) % n
    BY ONLY <1>1, <1>2, ModShift, n \in Nat \ {0}
  <1>4. (m + b) % n = (a + b) % n /\ (b + m) % n = (a + b) % n /\ (b - m) % n = (b - a) % n
    BY <1>2, <1>3
  <1>. QED
    BY <1>4 DEF m

LEMMA ModSub ==
  ASSUME NEW n \in Nat \ {0}, NEW a \in Int, NEW b \in Int
  PROVE  ((a % n) - (b % n)) % n = (a - b) % n
  <1>1. a % n \in Int /\ b % n \in Int /\ -b \in Int
    BY DivMod
  <1>2. ((a % n) - (b % n)) % n = ((a % n) - b) % n
    BY <1>1, ModAdd
  <1>3. (a % n) - b = (a % n) + (-b) /\ a - b = a + (-b)
    BY <1>1
  <1>. QED
    BY <1>1, <1>2, <1>3, ModAdd

LEMMA QuotientNat ==
  ASSUME NEW n \in Nat \ {0}, NEW a \in Nat
  PROVE  a \div n >= 0
  <1>. DEFINE q == a \div n
              m == a % n
  <1>1. q \in Int /\ m \in 0..(n - 1) /\ a = (n * q) + m
    BY DivMod
  <1>. HIDE DEF q, m
  <1>2. q >= 0
    <2>1. SUFFICES ASSUME -q >= 1 PROVE FALSE
      BY <1>1
    <2>2. n * (-q) >= n
      BY <1>1, <2>1, TimesAtLeast
    <2>. QED
      BY <1>1, <2>2
  <1>. QED
    BY <1>2 DEF q

\* Of numbers next to zero.
LEMMA ModNear ==
  ASSUME NEW n \in Nat \ {0}, NEW a \in Int
  PROVE  /\ a >= 0 => a % n <= a
         /\ a < 0 /\ a >= -n => a % n = a + n
  <1>1. ASSUME a >= 0 PROVE a % n <= a
    <2>. DEFINE q == a \div n
                m == a % n
    <2>1. q \in Int /\ m \in 0..(n - 1) /\ a = (n * q) + m
      BY DivMod
    <2>. HIDE DEF q, m
    <2>2. q >= 0
      BY <1>1, QuotientNat DEF q
    <2>3. n * q >= 0
      BY <2>1, <2>2
    <2>4. m <= a
      BY <2>1, <2>3
    <2>. QED
      BY <2>4 DEF m
  <1>2. ASSUME a < 0, a >= -n PROVE a % n = a + n
    <2>1. a + n \in 0..(n - 1) /\ a = (a + n) + (n * (-1)) /\ -1 \in Int
      BY <1>2
    <2>. QED
      BY <2>1, DivModUnique
  <1>. QED
    BY <1>1, <1>2

\* The quotient of a sum is that of its parts or one more.
LEMMA DivAdd ==
  ASSUME NEW n \in Nat \ {0}, NEW a \in Int, NEW b \in Int
  PROVE  /\ (a + b) \div n \in Int /\ a \div n \in Int /\ b \div n \in Int
         /\ (a \div n) + (b \div n) <= (a + b) \div n
         /\ (a + b) \div n <= (a \div n) + (b \div n) + 1
         /\ b % n = 0 => (a + b) \div n = (a \div n) + (b \div n)
  <1>. DEFINE p == a \div n
              q == b \div n
              k == a % n
              m == b % n
  <1>1. p \in Int /\ k \in 0..(n - 1) /\ a = (n * p) + k
    BY DivMod
  <1>2. q \in Int /\ m \in 0..(n - 1) /\ b = (n * q) + m
    BY DivMod
  <1>. HIDE DEF p, q, k, m
  <1>3. ASSUME k + m < n PROVE (a + b) \div n = p + q
    <2>1. k + m \in 0..(n - 1) /\ p + q \in Int /\ a + b = (k + m) + (n * (p + q))
      BY <1>1, <1>2, <1>3
    <2>. QED
      BY <2>1, DivModUnique
  <1>4. ASSUME k + m >= n PROVE (a + b) \div n = p + q + 1
    <2>1. (k + m) - n \in 0..(n - 1) /\ p + q + 1 \in Int /\ a + b = ((k + m) - n) + (n * (p + q + 1))
      BY <1>1, <1>2, <1>4
    <2>. QED
      BY <2>1, DivModUnique
  <1>5. m = 0 => k + m < n
    BY <1>1
  <1>6. p + q \in Int /\ (k + m < n \/ k + m >= n)
    BY <1>1, <1>2
  <1>7. /\ (a + b) \div n \in Int /\ p + q <= (a + b) \div n /\ (a + b) \div n <= p + q + 1
        /\ m = 0 => (a + b) \div n = p + q
    BY <1>1, <1>2, <1>3, <1>4, <1>5, <1>6
  <1>. QED
    BY <1>1, <1>2, <1>7 DEF p, q, m

LEMMA DivMono ==
  ASSUME NEW n \in Nat \ {0}, NEW a \in Int, NEW b \in Int, a <= b
  PROVE  a \div n <= b \div n
  <1>1. b - a \in Nat /\ a + (b - a) = b
    OBVIOUS
  <1>2. (b - a) \div n >= 0
    BY <1>1, QuotientNat
  <1>3. (a \div n) + ((b - a) \div n) <= b \div n /\ a \div n \in Int /\ (b - a) \div n \in Int
    BY <1>1, DivAdd
  <1>. QED
    BY <1>2, <1>3, DivAdd

-----------------------------------------------------------------------------
(***************************************************************************)
(* The helpers of the clocks.                                              *)
(***************************************************************************)
LEMMA Widths ==
  /\ Word \in Nat \ {0} /\ RtpWord \in Nat \ {0} /\ Second \in Nat \ {0} /\ VideoRate \in Nat \ {0}
  /\ AudioRate \in Nat \ {0} /\ Trusted \in Nat \ {0} /\ Fallback \in Nat \ {0} /\ Samples \in Nat \ {0}
  /\ Epoch \in Nat \ {0} /\ Jump \in Nat /\ MaxLag \in Nat /\ MaxSkew \in Nat /\ MaxSlips \in Nat /\ MaxTime \in Nat
  BY ClockAssumption

LEMMA RtpHalf == RtpWord \div 2 \in Nat /\ RtpWord = 2 * (RtpWord \div 2) /\ RtpWord \div 2 >= 2
  <1>1. RtpWord \div 2 \in Int /\ RtpWord = (2 * (RtpWord \div 2)) + (RtpWord % 2) /\ RtpWord % 2 = 0
    BY Widths, WidthAssumption, DivMod
  <1>. QED
    BY <1>1, WidthAssumption

LEMMA AheadType == \A a, b \in Int : Ahead(a, b) \in 0..(RtpWord - 1)
  BY Widths, DivMod DEF Ahead

LEMMA TicksType == \A t \in Int, rate \in Nat : Ticks(t, rate) \in 0..(RtpWord - 1) /\ (t * rate) \div Second \in Int
  <1>. SUFFICES ASSUME NEW t \in Int, NEW rate \in Nat
                PROVE  Ticks(t, rate) \in 0..(RtpWord - 1) /\ (t * rate) \div Second \in Int
    OBVIOUS
  <1>1. t * rate \in Int
    OBVIOUS
  <1>2. (t * rate) \div Second \in Int
    BY <1>1, Widths, DivMod
  <1>. QED
    BY <1>2, Widths, DivMod DEF Ticks

\* rtpTimestampForClock: how far the quotients of two times are apart.
LEMMA TicksApart ==
  ASSUME NEW t \in Int, NEW s \in Nat, NEW m \in Nat, s <= m, NEW rate \in Nat
  PROVE  /\ ((t + s) * rate) \div Second \in Int /\ (t * rate) \div Second \in Int /\ (m * rate) \div Second \in Nat
         /\ (t * rate) \div Second <= ((t + s) * rate) \div Second
         /\ ((t + s) * rate) \div Second <= ((t * rate) \div Second) + ((m * rate) \div Second) + 1
  <1>. DEFINE a == t * rate
              b == s * rate
              c == m * rate
  <1>1. a \in Int /\ b \in Nat /\ c \in Nat /\ (t + s) * rate = a + b
    OBVIOUS
  <1>2. b <= c
    <2>1. (m - s) * rate >= 0 /\ c = b + ((m - s) * rate) /\ (m - s) * rate \in Int
      OBVIOUS
    <2>. QED
      BY <1>1, <2>1
  <1>. HIDE DEF a, b, c
  <1>3. /\ (a + b) \div Second \in Int /\ a \div Second \in Int /\ b \div Second \in Int
        /\ (a \div Second) + (b \div Second) <= (a + b) \div Second
        /\ (a + b) \div Second <= (a \div Second) + (b \div Second) + 1
    BY <1>1, Widths, DivAdd
  <1>4. b \div Second >= 0 /\ b \div Second <= c \div Second /\ c \div Second \in Int
    BY <1>1, <1>2, Widths, QuotientNat, DivMono, DivMod
  <1>5. /\ (a + b) \div Second \in Int /\ a \div Second \in Int /\ c \div Second \in Nat
        /\ a \div Second <= (a + b) \div Second
        /\ (a + b) \div Second <= (a \div Second) + (c \div Second) + 1
    BY <1>3, <1>4
  <1>. QED
    BY <1>1, <1>5 DEF a, c

\* unwrapTimestamp: the value continued is not below highest by more than half a
\* word, and has the stamp as its low word.
LEMMA UnwrapClose ==
  ASSUME NEW ts \in 0..(Word - 1), NEW highest \in Nat
  PROVE  LET c == Unwrap(ts, highest) IN
         c \in Nat /\ (c < highest => 2 * (highest - c) <= Word) /\ c % Word = ts
  <1>. DEFINE e == highest \div Word
              own == (e * Word) + ts
              before == IF own >= Word THEN own - Word ELSE own
              near == IF Dist(before, highest) < Dist(own, highest) THEN before ELSE own
              c == IF Dist(own + Word, highest) < Dist(near, highest) THEN own + Word ELSE near
  <1>1. CASE highest = 0
    BY <1>1, Widths, ModSmall DEF Unwrap
  <1>2. CASE highest # 0
    <2>1. Unwrap(ts, highest) = c
      BY <1>2 DEF Unwrap
    <2>2. e \in Int /\ highest = (Word * e) + (highest % Word) /\ highest % Word \in 0..(Word - 1)
      BY Widths, DivMod
    <2>3. e >= 0
      BY Widths, QuotientNat
    <2>. HIDE DEF e
    <2>4. /\ own \in Nat /\ own = ts + (Word * e) /\ own + Word = ts + (Word * (e + 1)) /\ own - Word = ts + (Word * (e - 1))
          /\ own + Word > highest /\ own < highest + Word
      BY <2>2, <2>3, Widths
    <2>5. own % Word = ts /\ (own + Word) % Word = ts /\ (own - Word) % Word = ts
      <3>1. ts % Word = ts /\ ts \in Int /\ e \in Int /\ e + 1 \in Int /\ e - 1 \in Int
        <4>1. ts % Word = ts
          BY Widths, ModSmall
        <4>. QED
          BY <2>2, <4>1, Widths
      <3>2. (ts + (Word * e)) % Word = ts % Word
        BY <3>1, Widths, ModShift
      <3>3. (ts + (Word * (e + 1))) % Word = ts % Word
        BY <3>1, Widths, ModShift
      <3>4. (ts + (Word * (e - 1))) % Word = ts % Word
        BY <3>1, Widths, ModShift
      <3>. QED
        BY <2>4, <3>1, <3>2, <3>3, <3>4
    <2>. HIDE DEF own
    <2>6. c \in Nat /\ (c = own \/ c = own + Word \/ c = own - Word)
      BY <2>4, Widths DEF Dist
    <2>7. c < highest => 2 * (highest - c) <= Word
      BY <2>4, Widths DEF Dist
    <2>. QED
      BY <2>1, <2>5, <2>6, <2>7
  <1>. QED
    BY <1>1, <1>2

\* unwrapTimestamp: a frame d after one that lies within half a word below
\* highest is put d after it.
LEMMA UnwrapGoesOn ==
  ASSUME NEW highest \in Nat, NEW c \in Nat, c <= highest, 2 * (highest - c) <= Word, NEW d \in 1..Trusted
  PROVE  Unwrap((c + d) % Word, highest) = c + d
  <1>. DEFINE to == c + d
              ts == to % Word
  <1>1. to \in Nat /\ to > c /\ to <= c + Trusted /\ 2 * Trusted < Word
    BY Widths, WidthAssumption
  <1>. HIDE DEF to
  <1>2. CASE highest = 0
    <2>1. to \in 0..(Word - 1)
      BY <1>1, <1>2, Widths DEF to
    <2>. QED
      BY <1>2, <2>1, Widths, ModSmall DEF Unwrap, to
  <1>3. CASE highest # 0
    <2>. DEFINE e == highest \div Word
                own == (e * Word) + ts
                before == IF own >= Word THEN own - Word ELSE own
                near == IF Dist(before, highest) < Dist(own, highest) THEN before ELSE own
                f == to \div Word
    <2>1. Unwrap(ts, highest) = IF Dist(own + Word, highest) < Dist(near, highest) THEN own + Word ELSE near
      BY <1>3 DEF Unwrap
    <2>2. e \in Int /\ highest = (Word * e) + (highest % Word) /\ highest % Word \in 0..(Word - 1)
      BY Widths, DivMod
    <2>3. f \in Int /\ to = (Word * f) + ts /\ ts \in 0..(Word - 1)
      BY <1>1, Widths, DivMod
    <2>. HIDE DEF e, f, ts
    <2>4. own \in Int /\ own - to = Word * (e - f) /\ own + Word > highest /\ own < highest + Word
      BY <2>2, <2>3, Widths
    <2>5. 2 * (to - highest) < Word /\ 2 * (highest - to) < Word
      BY <1>1, <2>3, Widths
    <2>6. e - f < 2 /\ f - e < 2
      <3>1. e - f >= 2 => Word * (e - f - 1) >= Word
        BY <2>2, <2>3, Widths, TimesAtLeast
      <3>2. f - e >= 2 => Word * (f - e - 1) >= Word
        BY <2>2, <2>3, Widths, TimesAtLeast
      <3>3. Word * (e - f - 1) = (own - to) - Word /\ Word * (f - e - 1) = (to - own) - Word
        BY <2>2, <2>3, <2>4, Widths
      <3>. QED
        BY <1>1, <2>2, <2>3, <2>4, <2>5, <3>1, <3>2, <3>3, Widths
    <2>7. own = to \/ own = to + Word \/ own = to - Word
      <3>1. e - f \in {-1, 0, 1}
        BY <2>2, <2>3, <2>6
      <3>2. Word * (-1) = -Word /\ Word * 0 = 0 /\ Word * 1 = Word
        BY Widths
      <3>. QED
        BY <1>1, <2>4, <3>1, <3>2, Widths
    <2>. HIDE DEF own
    <2>8. (IF Dist(own + Word, highest) < Dist(near, highest) THEN own + Word ELSE near) = to
      BY <1>1, <2>4, <2>5, <2>7, Widths DEF Dist
    <2>. QED
      BY <2>1, <2>8 DEF to, ts
  <1>. QED
    BY <1>2, <1>3

\* rtpTimestampGuard.next: what is published rises, by one where the clock did
\* not, and trails the corrected clock by the jump and one at most.
LEMMA GuardRises ==
  ASSUME NEW g \in Guards, g.set, NEW ts \in 0..(RtpWord - 1)
  PROVE  LET n == GuardNext(g, ts)
             moved == (ts + g.offset) % RtpWord
         IN  /\ n \in Guards /\ n.set
             /\ \/ n.last = moved /\ n.offset = g.offset /\ After(moved, g.last)
                \/ Ahead(n.last, g.last) = 1
             /\ Ahead(n.last, (ts + n.offset) % RtpWord) <= Jump + 1
  <1>. DEFINE n == GuardNext(g, ts)
              moved == (ts + g.offset) % RtpWord
              next == (g.last + 1) % RtpWord
              fresh == (next - ts) % RtpWord
  <1>1. /\ g = [set |-> g.set, offset |-> g.offset, last |-> g.last]
        /\ g.offset \in 0..(RtpWord - 1) /\ g.last \in 0..(RtpWord - 1)
    BY DEF Guards
  <1>2. moved \in 0..(RtpWord - 1) /\ next \in 0..(RtpWord - 1) /\ fresh \in 0..(RtpWord - 1)
    <2>1. moved \in 0..(RtpWord - 1) /\ next \in 0..(RtpWord - 1)
      BY <1>1, Widths, DivMod
    <2>2. next - ts \in Int
      BY <2>1
    <2>. QED
      BY <2>1, <2>2, Widths, DivMod
  <1>3. Ahead(next, g.last) = 1
    <2>1. (next - g.last) % RtpWord = ((g.last + 1) - g.last) % RtpWord
      <3>1. next - g.last = next + (-g.last) /\ -g.last \in Int /\ g.last + 1 \in Int
        BY <1>1, <1>2
      <3>2. (next + (-g.last)) % RtpWord = ((g.last + 1) + (-g.last)) % RtpWord
        BY <3>1, Widths, ModAdd
      <3>3. (g.last + 1) + (-g.last) = (g.last + 1) - g.last
        BY <1>1
      <3>. QED
        BY <3>1, <3>2, <3>3
    <2>2. (g.last + 1) - g.last = 1 /\ 1 \in 0..(RtpWord - 1)
      BY <1>1, Widths, WidthAssumption
    <2>. QED
      BY <2>1, <2>2, Widths, ModSmall DEF Ahead
  <1>4. Ahead(moved, moved) = 0 /\ Ahead(next, next) = 0 /\ 0 <= Jump + 1
    <2>1. moved - moved = 0 /\ next - next = 0 /\ 0 \in 0..(RtpWord - 1)
      BY <1>2, Widths
    <2>. QED
      BY <2>1, Widths, ModSmall DEF Ahead
  <1>5. CASE ts # g.last /\ After(moved, g.last)
    <2>1. n = [set |-> g.set, offset |-> g.offset, last |-> moved]
      BY <1>1, <1>5 DEF GuardNext
    <2>. QED
      BY <1>1, <1>2, <1>4, <1>5, <2>1 DEF Guards
  <1>6. CASE ~(ts # g.last /\ After(moved, g.last)) /\ (ts = g.last \/ Ahead(g.last, moved) > Jump)
    <2>1. n = [set |-> g.set, offset |-> fresh, last |-> next]
      BY <1>1, <1>6 DEF GuardNext
    <2>2. (ts + fresh) % RtpWord = next
      <3>1. next - ts \in Int
        BY <1>2
      <3>2. (ts + fresh) % RtpWord = ((next - ts) + ts) % RtpWord
        BY <3>1, Widths, ModAdd
      <3>3. (next - ts) + ts = next
        BY <1>2
      <3>. QED
        BY <1>2, <3>2, <3>3, Widths, ModSmall
    <2>. QED
      BY <1>1, <1>2, <1>3, <1>4, <2>1, <2>2 DEF Guards
  <1>7. CASE ~(ts # g.last /\ After(moved, g.last)) /\ ~(ts = g.last \/ Ahead(g.last, moved) > Jump)
    <2>1. n = [set |-> g.set, offset |-> g.offset, last |-> next]
      BY <1>1, <1>7 DEF GuardNext
    <2>2. Ahead(g.last, moved) <= Jump /\ Ahead(g.last, moved) \in 0..(RtpWord - 1)
      BY <1>1, <1>2, <1>7, AheadType, Widths
    <2>3. Ahead(next, moved) <= Jump + 1
      <3>. DEFINE k == g.last - moved
      <3>1. next - moved = next + (-moved) /\ -moved \in Int /\ g.last + 1 \in Int /\ k \in Int
        BY <1>1, <1>2
      <3>2. (next + (-moved)) % RtpWord = ((g.last + 1) + (-moved)) % RtpWord
        BY <3>1, Widths, ModAdd
      <3>3. (g.last + 1) + (-moved) = k + 1
        BY <1>1, <1>2
      <3>4. ((k % RtpWord) + 1) % RtpWord = (k + 1) % RtpWord
        BY <3>1, Widths, ModAdd
      <3>5. k % RtpWord \in 0..(RtpWord - 1) /\ k % RtpWord <= Jump
        BY <2>2 DEF Ahead
      <3>6. ((k % RtpWord) + 1) % RtpWord <= (k % RtpWord) + 1
        BY <3>5, Widths, ModNear
      <3>7. (next - moved) % RtpWord = ((k % RtpWord) + 1) % RtpWord
        BY <3>1, <3>2, <3>3, <3>4
      <3>8. (next - moved) % RtpWord \in Int
        BY <1>2, Widths, DivMod
      <3>. HIDE DEF k
      <3>. QED
        BY <3>5, <3>6, <3>7, <3>8, Widths DEF Ahead
    <2>. QED
      BY <1>1, <1>2, <1>3, <2>1, <2>3 DEF Guards
  <1>. QED
    BY <1>5, <1>6, <1>7

\* The first timestamp is published as it is.
LEMMA GuardStarts ==
  ASSUME NEW ts \in 0..(RtpWord - 1)
  PROVE  LET n == GuardNext(NoGuard, ts)
         IN  n \in Guards /\ n.set /\ Ahead(n.last, (ts + n.offset) % RtpWord) <= Jump + 1
  <1>1. GuardNext(NoGuard, ts) = [set |-> TRUE, offset |-> 0, last |-> ts]
    BY DEF GuardNext, NoGuard
  <1>2. (ts + 0) % RtpWord = ts /\ ts - ts = 0 /\ 0 \in 0..(RtpWord - 1)
    BY Widths, ModSmall
  <1>3. Ahead(ts, ts) = 0
    BY <1>2, Widths, ModSmall DEF Ahead
  <1>. QED
    BY <1>1, <1>2, <1>3, Widths DEF Guards

\* A frame at most one trusted delta later, after one whose timestamp trails
\* the corrected clock by the jump at most, is not further ahead.
LEMMA RiseBounded ==
  ASSUME NEW last \in 0..(RtpWord - 1), NEW offset \in 0..(RtpWord - 1), NEW t \in Int, NEW s \in 0..Trusted,
         Ahead(last, (Ticks(t, VideoRate) + offset) % RtpWord) <= Jump + 1,
         After((Ticks(t + s, VideoRate) + offset) % RtpWord, last)
  PROVE  Ahead((Ticks(t + s, VideoRate) + offset) % RtpWord, last) <= ((Trusted * VideoRate) \div Second) + 1
  <1>. DEFINE p == (t * VideoRate) \div Second
              q == ((t + s) * VideoRate) \div Second
              b == (Trusted * VideoRate) \div Second
              gap == (last - (p + offset)) % RtpWord
              rise == ((q + offset) - last) % RtpWord
  <1>1. p \in Int /\ q \in Int /\ b \in Nat /\ p <= q /\ q <= p + b + 1
    BY Widths, TicksApart
  <1>0. Ticks(t, VideoRate) = p % RtpWord /\ Ticks(t + s, VideoRate) = q % RtpWord
    BY DEF Ticks
  <1>. HIDE DEF p, q, b
  <1>2. /\ (Ticks(t, VideoRate) + offset) % RtpWord = (p + offset) % RtpWord
        /\ (Ticks(t + s, VideoRate) + offset) % RtpWord = (q + offset) % RtpWord
    <2>1. offset \in Int
      OBVIOUS
    <2>2. ((p % RtpWord) + offset) % RtpWord = (p + offset) % RtpWord
      BY <1>1, <2>1, Widths, ModAdd
    <2>3. ((q % RtpWord) + offset) % RtpWord = (q + offset) % RtpWord
      BY <1>1, <2>1, Widths, ModAdd
    <2>. QED
      BY <1>0, <2>2, <2>3
  <1>3. Ahead(last, (p + offset) % RtpWord) = gap
    <2>1. p + offset \in Int /\ last \in Int
      BY <1>1
    <2>2. (last - ((p + offset) % RtpWord)) % RtpWord = (last - (p + offset)) % RtpWord
      BY <2>1, Widths, ModAdd
    <2>. QED
      BY <2>2 DEF Ahead
  <1>4. Ahead((q + offset) % RtpWord, last) = rise
    <2>1. q + offset \in Int /\ -last \in Int
      BY <1>1
    <2>2. (((q + offset) % RtpWord) + (-last)) % RtpWord = ((q + offset) + (-last)) % RtpWord
      BY <2>1, Widths, ModAdd
    <2>3. (q + offset) % RtpWord \in Int
      BY <2>1, Widths, DivMod
    <2>4. ((q + offset) % RtpWord) + (-last) = ((q + offset) % RtpWord) - last /\ (q + offset) + (-last) = (q + offset) - last
      BY <2>1, <2>3
    <2>. QED
      BY <2>2, <2>4 DEF Ahead
  <1>5. gap \in 0..(RtpWord - 1) /\ gap <= Jump + 1 /\ rise \in 0..(RtpWord - 1) /\ rise < RtpWord \div 2
    <2>1. last - (p + offset) \in Int /\ (q + offset) - last \in Int
      BY <1>1
    <2>2. gap \in 0..(RtpWord - 1) /\ rise \in 0..(RtpWord - 1)
      BY <2>1, Widths, DivMod
    <2>3. gap <= Jump + 1 /\ rise < RtpWord \div 2
      BY <1>2, <1>3, <1>4 DEF After
    <2>. QED
      BY <2>2, <2>3
  <1>6. rise = ((q - p) - gap) % RtpWord
    <2>1. ((q - p) - gap) % RtpWord = ((q - p) - (last - (p + offset))) % RtpWord
      <3>1. q - p \in Int /\ last - (p + offset) \in Int
        BY <1>1
      <3>. QED
        BY <3>1, Widths, ModAdd
    <2>2. (q - p) - (last - (p + offset)) = (q + offset) - last
      BY <1>1
    <2>. QED
      BY <2>1, <2>2
  <1>. HIDE DEF gap, rise
  <1>7. rise <= b + 1
    <2>1. CASE (q - p) - gap >= 0
      <3>1. rise <= (q - p) - gap
        BY <1>1, <1>5, <1>6, <2>1, Widths, ModNear
      <3>. QED
        BY <1>1, <1>5, <3>1
    <2>2. CASE (q - p) - gap < 0
      <3>1. (q - p) - gap >= -RtpWord /\ (q - p) - gap \in Int
        BY <1>1, <1>5, Widths
      <3>2. rise = ((q - p) - gap) + RtpWord
        BY <1>6, <2>2, <3>1, Widths, ModNear
      <3>3. 2 * (Jump + 1) <= RtpWord
        BY WidthAssumption
      <3>. QED
        BY <1>1, <1>5, <3>2, <3>3, RtpHalf, Widths
    <2>. QED
      BY <1>1, <1>5, <2>1, <2>2
  <1>. QED
    BY <1>2, <1>4, <1>7 DEF b

LEMMA ModEqual ==
  ASSUME NEW n \in Nat \ {0}, NEW a \in Int, NEW b \in Int
  PROVE  /\ (a - b) % n = 0 => \A d \in Int : (a + d) % n = (b + d) % n
         /\ a % n = b % n => (a - b) % n = 0
  <1>1. ASSUME (a - b) % n = 0, NEW d \in Int PROVE (a + d) % n = (b + d) % n
    <2>. DEFINE q == (a - b) \div n
                c == a - b
    <2>1. c \in Int
      OBVIOUS
    <2>2. c \div n \in Int /\ c = (n * (c \div n)) + (c % n)
      BY <2>1, DivMod
    <2>3. q \in Int /\ c = n * q
      BY <1>1, <2>2
    <2>. HIDE DEF q
    <2>4. a + d = (b + d) + (n * q) /\ b + d \in Int
      BY <2>3
    <2>5. ((b + d) + (n * q)) % n = (b + d) % n
      BY <2>3, <2>4, ModShift
    <2>. QED
      BY <2>4, <2>5
  <1>2. ASSUME a % n = b % n PROVE (a - b) % n = 0
    <2>1. ((a % n) - (b % n)) % n = (a - b) % n
      BY ModSub
    <2>2. (a % n) - (b % n) = 0 /\ 0 \in 0..(n - 1)
      BY <1>2, DivMod
    <2>. QED
      BY <2>1, <2>2, ModSmall
  <1>. QED
    BY <1>1, <1>2

-----------------------------------------------------------------------------
(***************************************************************************)
(* The inductive invariant.                                                *)
(***************************************************************************)
\* The last frame's stamp as the unwrapper continued it.
Cont == timeline.last + timeline.offset - unwrapper.offset

\* Unwrapper and timeline know the same frame; it is not below the highest by
\* more than half a word, and, unless time was lost since, it is the camera's
\* time in the low word.
LinkInv ==
  /\ unwrapper.set = timeline.set
  /\ ~timeline.set => timeline.last = 0 /\ timeline.offset = 0
  /\ timeline.set => Cont \in Nat /\ Cont <= unwrapper.highest /\ 2 * (unwrapper.highest - Cont) <= Word
  /\ timeline.set => timeline.last >= Epoch
  /\ timeline.set /\ ~lost => (Cont - (time.video + skew)) % Word = 0
  /\ Epoch <= now

SkewInv == time.video <= time.audio + MaxSkew /\ time.audio <= time.video + MaxSkew

\* The video published last trails the corrected clock by the jump and one.
VideoInv ==
  /\ ~videoRTP.set => videoRTP = NoGuard
  /\ videoRTP.set => timeline.set
  /\ videoRTP.set /\ "video" \notin withheld =>
       Ahead(videoRTP.last, (Ticks(timeline.last, VideoRate) + videoRTP.offset) % RtpWord) <= Jump + 1

\* The publisher's sample counter and its guard know the same end.
CounterInv ==
  /\ anchored = audioRTP.set
  /\ anchored => nextTimestamp = audioRTP.last /\ timeline.set
  /\ ~anchored => audioRTP = NoGuard

\* The time of the next sample as the video track shows it.
Shown == timeline.last + time.audio - time.video
Allowance == MaxSkew + (slips * (Trusted - 1))
DriftInv ==
  anchored /\ "audio" \notin withheld =>
    \E x \in Int : nextTimestamp = Ticks(x, AudioRate) /\ x - Shown <= Allowance /\ Shown - x <= Allowance

ClockInv == ClockTypeOK /\ LinkInv /\ SkewInv /\ VideoInv /\ CounterInv /\ DriftInv

LEMMA ClockInitInv == ClockInit => ClockInv
  <1>. SUFFICES ASSUME ClockInit PROVE ClockInv
    OBVIOUS
  <1>1. skew \in Int
    BY ClockAssumption DEF ClockInit
  <1>2. ClockTypeOK
    <2>1. NoGuard \in Guards
      BY Widths DEF NoGuard, Guards
    <2>2. time \in [video : Nat, audio : Nat] /\ now \in Nat /\ skew \in Int
      BY <1>1, Widths DEF ClockInit
    <2>3. unwrapper \in [set : BOOLEAN, highest : Nat, offset : Int]
      BY DEF ClockInit
    <2>4. timeline \in [set : BOOLEAN, last : Nat, offset : Int, avg : 0..Trusted]
      BY Widths DEF ClockInit
    <2>5. live \in [set : BOOLEAN, edge : Int, catching : BOOLEAN]
      BY DEF ClockInit
    <2>6. nextTimestamp \in 0..(RtpWord - 1) /\ slips \in 0..MaxSlips
      BY Widths DEF ClockInit
    <2>8. anchored \in BOOLEAN /\ lost \in BOOLEAN
      BY Zenon DEF ClockInit
    <2>7. videoRTP \in Guards /\ audioRTP \in Guards /\ withheld \subseteq {"video", "audio"}
      BY <2>1 DEF ClockInit
    <2>. QED
      BY <2>7, <2>8, <2>2, <2>3, <2>4, <2>5, <2>6 DEF ClockTypeOK
  <1>3. LinkInv /\ SkewInv
    BY Widths DEF ClockInit, LinkInv, SkewInv
  <1>4. VideoInv /\ CounterInv /\ DriftInv
    BY DEF ClockInit, VideoInv, CounterInv, DriftInv, NoGuard
  <1>. QED
    BY <1>2, <1>3, <1>4 DEF ClockInv

-----------------------------------------------------------------------------
(***************************************************************************)
(* A video frame.                                                          *)
(***************************************************************************)
\* The environment's part of a frame.
LEMMA FrameTime ==
  ASSUME ClockInv, NEW d \in 1..Trusted, NEW h \in Hiccups, NEW key, NEW delay \in Delays, NEW paused,
         VideoFrame(d, h, key, delay, paused)
  PROVE  /\ time' \in [video : Nat, audio : Nat] /\ time'.video = time.video + d /\ time'.audio = time.audio
         /\ skew' \in Int /\ skew' = skew + h
         /\ now' \in Nat /\ now' >= Epoch
         /\ SkewInv'
         /\ slips' \in 0..MaxSlips /\ lost' = FALSE
         /\ slips' = IF h # 0 \/ lost THEN slips + 1 ELSE slips
         /\ Stamp \in 0..(Word - 1) /\ Stamp = (time.video + d + skew + h) % Word
  <1>1. h \in Int /\ delay \in Nat /\ d \in Nat
    BY ClockAssumption, Widths
  <1>2. /\ time \in [video : Nat, audio : Nat] /\ skew \in Int /\ now \in Nat /\ slips \in 0..MaxSlips
        /\ SkewInv /\ Epoch <= now
    BY DEF ClockInv, ClockTypeOK, LinkInv
  <1>3. time' = [time EXCEPT !.video = @ + d]
    BY DEF VideoFrame
  <1>4. time' \in [video : Nat, audio : Nat] /\ time'.video = time.video + d /\ time'.audio = time.audio
    BY <1>1, <1>2, <1>3
  <1>5. skew' \in Int /\ skew' = skew + h
    BY <1>1, <1>2 DEF VideoFrame
  <1>6. now' \in Nat /\ now' >= Epoch
    BY <1>1, <1>2, <1>4, Widths DEF VideoFrame, Max2
  <1>7. SkewInv'
    BY <1>1, <1>2, <1>4, Widths DEF VideoFrame, SkewInv
  <1>8. /\ slips' \in 0..MaxSlips /\ lost' = FALSE
        /\ slips' = IF h # 0 \/ lost THEN slips + 1 ELSE slips
    BY <1>2, Widths DEF VideoFrame
  <1>9. Stamp \in 0..(Word - 1) /\ Stamp = (time.video + d + skew + h) % Word
    <2>1. time'.video + skew' = time.video + d + skew + h /\ time'.video + skew' \in Int
      BY <1>1, <1>2, <1>4, <1>5
    <2>. QED
      BY <2>1, Widths, DivMod DEF Stamp
  <1>. QED
    BY <1>4, <1>5, <1>6, <1>7, <1>8, <1>9

\* timestampUnwrapper.unwrap and mediaTimeline.video: the picture moves on by at
\* least one unit and at most a trusted delta, and by the camera's own where
\* neither its clock slipped nor anything was lost.
LEMMA FrameClock ==
  ASSUME ClockInv, NEW d \in 1..Trusted, NEW h \in Hiccups, NEW key, NEW delay \in Delays, NEW paused,
         VideoFrame(d, h, key, delay, paused)
  PROVE  /\ unwrapper' \in [set : BOOLEAN, highest : Nat, offset : Int]
         /\ timeline' \in [set : BOOLEAN, last : Nat, offset : Int, avg : 0..Trusted]
         /\ LinkInv' /\ timeline'.set /\ Raw \in Int
         /\ timeline.set => /\ timeline'.last - timeline.last \in 1..Trusted
                            /\ h = 0 /\ ~lost => timeline'.last = timeline.last + d
  <1>. DEFINE X == time.video + d + skew + h
  <1>1. h \in Int /\ delay \in Nat /\ d \in Nat
    BY ClockAssumption, Widths
  <1>2. /\ time \in [video : Nat, audio : Nat] /\ skew \in Int
        /\ unwrapper \in [set : BOOLEAN, highest : Nat, offset : Int]
        /\ timeline \in [set : BOOLEAN, last : Nat, offset : Int, avg : 0..Trusted]
        /\ LinkInv /\ unwrapper.set = timeline.set
    BY DEF ClockInv, ClockTypeOK, LinkInv
  <1>3. /\ time' \in [video : Nat, audio : Nat] /\ time'.video = time.video + d /\ skew' \in Int /\ skew' = skew + h
        /\ now' \in Nat /\ now' >= Epoch /\ lost' = FALSE
        /\ Stamp \in 0..(Word - 1) /\ Stamp = X % Word
    BY FrameTime
  <1>4. UnwrapVideo /\ Advance
    BY DEF VideoFrame
  <1>5. X \in Int /\ X = time'.video + skew'
    BY <1>1, <1>2, <1>3
  <1>. HIDE DEF X
  <1>6. CASE ~timeline.set
    <2>1. unwrapper' = [set |-> TRUE, highest |-> Stamp, offset |-> now' - Stamp] /\ Raw = now'
      BY <1>2, <1>4, <1>6 DEF UnwrapVideo, Raw
    <2>2. timeline.offset = 0 /\ Place = now'
      BY <1>2, <1>3, <1>6, <2>1 DEF LinkInv, Place, Max2
    <2>3. timeline' = [timeline EXCEPT !.set = TRUE, !.last = now']
      BY <1>4, <1>6, <2>2 DEF Advance
    <2>4. /\ timeline' \in [set : BOOLEAN, last : Nat, offset : Int, avg : 0..Trusted]
          /\ timeline'.set /\ timeline'.last = now' /\ timeline'.offset = 0
      BY <1>2, <1>3, <2>2, <2>3
    <2>5. unwrapper' \in [set : BOOLEAN, highest : Nat, offset : Int] /\ unwrapper'.set /\ unwrapper'.highest = Stamp /\ Cont' = Stamp
      BY <1>3, <2>1, <2>4, Widths DEF Cont
    <2>6. (Stamp - X) % Word = 0
      <3>1. Stamp % Word = X % Word /\ Stamp \in Int
        BY <1>3, Widths, ModSmall
      <3>. QED
        BY <1>5, <3>1, Widths, ModEqual
    <2>7. LinkInv'
      BY <1>3, <1>5, <2>4, <2>5, <2>6, Widths DEF LinkInv
    <2>. QED
      BY <1>3, <1>6, <2>1, <2>4, <2>5, <2>7
  <1>7. CASE timeline.set
    <2>. DEFINE c == Unwrap(Stamp, unwrapper.highest)
                delta == c - Cont
    <2>1. c \in Nat /\ (c < unwrapper.highest => 2 * (unwrapper.highest - c) <= Word) /\ c % Word = Stamp
      BY <1>2, <1>3, UnwrapClose
    <2>2. /\ Cont \in Nat /\ Cont <= unwrapper.highest /\ 2 * (unwrapper.highest - Cont) <= Word
          /\ timeline.last >= Epoch /\ Cont = timeline.last + timeline.offset - unwrapper.offset
      BY <1>2, <1>7 DEF LinkInv, Cont
    <2>3. Continuous = c /\ Raw = c + unwrapper.offset
      BY <1>2, <1>7 DEF Continuous, Raw
    <2>4. unwrapper' = [unwrapper EXCEPT !.highest = Max2(c, @)]
      BY <1>2, <1>4, <1>7, <2>3 DEF UnwrapVideo
    <2>5. h = 0 /\ ~lost => delta = d
      <3>1. SUFFICES ASSUME h = 0, ~lost PROVE c = Cont + d
        BY <1>1, <2>2
      <3>2. (Cont - (time.video + skew)) % Word = 0
        BY <1>2, <1>7, <3>1 DEF LinkInv
      <3>3. time.video + skew \in Int /\ X = (time.video + skew) + d
        BY <1>1, <1>2, <3>1 DEF X
      <3>4. (Cont + d) % Word = Stamp
        <4>1. Cont \in Int /\ d \in Int /\ Word \in Nat \ {0}
          BY <1>1, <2>2, Widths
        <4>2. (Cont + d) % Word = ((time.video + skew) + d) % Word
          BY <3>2, <3>3, <4>1, ModEqual
        <4>. QED
          BY <1>3, <3>3, <4>2
      <3>. QED
        BY <1>2, <2>2, <3>4, UnwrapGoesOn
    <2>. HIDE DEF c
    <2>6. unwrapper' \in [set : BOOLEAN, highest : Nat, offset : Int] /\ unwrapper'.set
          /\ unwrapper'.offset = unwrapper.offset /\ c <= unwrapper'.highest /\ 2 * (unwrapper'.highest - c) <= Word
      <3>1. unwrapper' = [set |-> unwrapper.set, highest |-> Max2(c, unwrapper.highest), offset |-> unwrapper.offset]
        BY <1>2, <2>4
      <3>2. unwrapper.highest \in Nat
        BY <1>2
      <3>3. CASE c < unwrapper.highest
        <4>1. Max2(c, unwrapper.highest) = unwrapper.highest
          BY <2>1, <3>2, <3>3 DEF Max2
        <4>. QED
          BY <1>2, <1>7, <2>1, <3>1, <3>2, <3>3, <4>1, Widths
      <3>4. CASE c >= unwrapper.highest
        <4>1. Max2(c, unwrapper.highest) = c
          BY <2>1, <3>2, <3>4 DEF Max2
        <4>. QED
          BY <1>2, <1>7, <2>1, <3>1, <3>2, <3>4, <4>1, Widths
      <3>. QED
        BY <2>1, <3>2, <3>3, <3>4
    <2>7. Place = timeline.last + delta
      <3>1. 2 * (timeline.last + delta) >= 0
        BY <1>2, <2>1, <2>2, Widths, WidthAssumption
      <3>. QED
        BY <1>2, <2>1, <2>2, <2>3, <3>1 DEF Place, Max2
    <2>8. delta \in Int /\ Place - timeline.last = delta /\ Raw \in Int
      BY <1>2, <2>1, <2>2, <2>3, <2>7
    <2>9. Step \in 1..Trusted
      BY <1>2, Widths, ClockAssumption DEF Step
    <2>10. /\ timeline' \in [set : BOOLEAN, last : Nat, offset : Int, avg : 0..Trusted]
           /\ timeline'.set /\ timeline'.last - timeline.last \in 1..Trusted
           /\ timeline'.last + timeline'.offset = timeline.last + timeline.offset + delta
           /\ delta \in 1..Trusted => timeline'.last = timeline.last + delta
      <3>1. CASE Trust(delta)
        <4>1. delta \in 1..Trusted
          BY <2>8, <3>1, Widths DEF Trust
        <4>2. PICK avg \in 0..Trusted : timeline' = [timeline EXCEPT !.last = Place, !.avg = avg]
          <5>1. PICK avg \in (IF timeline.avg = 0 THEN {delta}
                   ELSE {a \in 1..Trusted : (timeline.avg <= a /\ a <= delta) \/ (delta <= a /\ a <= timeline.avg)}) :
                  timeline' = [timeline EXCEPT !.last = Place, !.avg = avg]
            BY <1>4, <1>7, <2>8, <3>1 DEF Advance
          <5>2. avg \in 0..Trusted
            BY <4>1, Widths
          <5>. QED
            BY <5>1, <5>2
        <4>. HIDE DEF delta
        <4>. QED
          <5>1. timeline' = [set |-> timeline.set, last |-> timeline.last + delta, offset |-> timeline.offset, avg |-> avg]
            BY <1>2, <2>7, <4>2
          <5>2. timeline'.set = TRUE /\ timeline'.last = timeline.last + delta /\ timeline'.offset = timeline.offset
            BY <1>7, <5>1
          <5>3. timeline.last \in Nat /\ timeline.offset \in Int /\ timeline.last + delta \in Nat /\ avg \in 0..Trusted
            BY <1>2, <4>1, <4>2, Widths
          <5>4. timeline' \in [set : BOOLEAN, last : Nat, offset : Int, avg : 0..Trusted]
            BY <1>2, <5>1, <5>3
          <5>. QED
            BY <4>1, <5>2, <5>3, <5>4, Widths
      <3>2. CASE ~Trust(delta)
        <4>1. timeline' = [timeline EXCEPT !.offset = @ + delta - Step, !.last = @ + Step]
          BY <1>4, <1>7, <2>8, <3>2 DEF Advance
        <4>2. delta \notin 1..Trusted
          BY <3>2, Widths DEF Trust
        <4>. HIDE DEF delta
        <4>. QED
          <5>1. timeline' = [set |-> timeline.set, last |-> timeline.last + Step,
                             offset |-> timeline.offset + delta - Step, avg |-> timeline.avg]
            BY <1>2, <4>1
          <5>. QED
            BY <1>2, <1>7, <2>8, <2>9, <4>2, <5>1, Widths
      <3>. QED
        BY <3>1, <3>2
    <2>11. Cont' = c
      <3>1. Cont' = timeline'.last + timeline'.offset - unwrapper'.offset
        BY DEF Cont
      <3>2. timeline'.last \in Int /\ timeline'.offset \in Int
        BY <2>10
      <3>3. delta = c - Cont
        OBVIOUS
      <3>. HIDE DEF delta
      <3>. QED
        BY <1>2, <2>1, <2>2, <2>6, <2>8, <2>10, <3>1, <3>2, <3>3
    <2>12. (c - X) % Word = 0
      BY <1>3, <1>5, <2>1, Widths, ModEqual
    <2>13. LinkInv'
      BY <1>2, <1>3, <1>5, <2>1, <2>2, <2>6, <2>10, <2>11, <2>12, Widths DEF LinkInv
    <2>14. h = 0 /\ ~lost => timeline'.last = timeline.last + d
      BY <2>5, <2>10
    <2>. QED
      BY <2>6, <2>8, <2>10, <2>13, <2>14
  <1>. QED
    BY <1>2, <1>6, <1>7

\* rtpTimestampGuard.next in runStream: a frame that is published rises over the
\* one before.
LEMMA FramePublished ==
  ASSUME ClockInv, NEW d \in 1..Trusted, NEW h \in Hiccups, NEW key, NEW delay \in Delays, NEW paused,
         VideoFrame(d, h, key, delay, paused)
  PROVE  /\ videoRTP' \in Guards /\ VideoInv'
         /\ withheld' \subseteq {"video", "audio"} /\ ("audio" \in withheld' <=> "audio" \in withheld)
         /\ Published => FrameRises
  <1>. DEFINE ts == Ticks(timeline'.last, VideoRate)
              moved == (ts + videoRTP.offset) % RtpWord
  <1>1. /\ timeline' \in [set : BOOLEAN, last : Nat, offset : Int, avg : 0..Trusted] /\ timeline'.set
        /\ timeline.set => timeline'.last - timeline.last \in 1..Trusted
    BY FrameClock
  <1>2. /\ timeline \in [set : BOOLEAN, last : Nat, offset : Int, avg : 0..Trusted]
        /\ videoRTP \in Guards /\ withheld \subseteq {"video", "audio"} /\ VideoInv
    BY DEF ClockInv, ClockTypeOK
  <1>3. PublishVideo(paused)
    BY DEF VideoFrame
  <1>4. ts \in 0..(RtpWord - 1) /\ timeline'.last \in Nat /\ timeline.last \in Nat
    <2>1. timeline'.last \in Nat /\ timeline.last \in Nat
      BY <1>1, <1>2
    <2>2. timeline'.last \in Int /\ VideoRate \in Nat
      BY <2>1, Widths
    <2>. QED
      BY <2>1, <2>2, TicksType
  <1>5. CASE paused \/ live'.catching
    <2>1. withheld' = withheld \cup {"video"} /\ videoRTP' = videoRTP
      BY <1>3, <1>5 DEF PublishVideo
    <2>. QED
      BY <1>1, <1>2, <2>1 DEF VideoInv, Published
  <1>6. CASE ~(paused \/ live'.catching)
    <2>1. videoRTP' = GuardNext(videoRTP, ts) /\ withheld' = withheld \ {"video"}
      BY <1>3, <1>6 DEF PublishVideo
    <2>. HIDE DEF ts
    <2>2. CASE ~videoRTP.set
      <3>1. videoRTP' \in Guards /\ videoRTP'.set /\ Ahead(videoRTP'.last, (ts + videoRTP'.offset) % RtpWord) <= Jump + 1
        BY <1>2, <1>4, <2>1, <2>2, GuardStarts DEF VideoInv
      <3>2. VideoInv'
        BY <1>1, <3>1 DEF VideoInv, ts
      <3>. QED
        BY <1>2, <2>1, <2>2, <3>1, <3>2 DEF Published
    <2>3. CASE videoRTP.set
      <3>1. /\ videoRTP' \in Guards /\ videoRTP'.set
            /\ \/ videoRTP'.last = moved /\ videoRTP'.offset = videoRTP.offset /\ After(moved, videoRTP.last)
               \/ Ahead(videoRTP'.last, videoRTP.last) = 1
            /\ Ahead(videoRTP'.last, (ts + videoRTP'.offset) % RtpWord) <= Jump + 1
        BY <1>2, <1>4, <2>1, <2>3, GuardRises
      <3>2. VideoInv'
        BY <1>1, <3>1 DEF VideoInv, ts
      <3>3. (Trusted * VideoRate) \div Second \in Nat
        BY Widths, TicksApart
      <3>4. CASE Ahead(videoRTP'.last, videoRTP.last) = 1
        BY <1>2, <2>1, <3>1, <3>2, <3>3, <3>4, RtpHalf DEF FrameRises
      <3>5. CASE videoRTP'.last = moved /\ After(moved, videoRTP.last)
        <4>. DEFINE rise == Ahead(moved, videoRTP.last)
        <4>1. videoRTP.last \in 0..(RtpWord - 1) /\ videoRTP.offset \in 0..(RtpWord - 1) /\ moved \in Int
          BY <1>2, <3>1, <3>5 DEF Guards
        <4>2. rise \in 0..(RtpWord - 1) /\ rise # 0 /\ rise < RtpWord \div 2
          <5>1. rise # 0 /\ rise < RtpWord \div 2
            BY <3>5 DEF After
          <5>. HIDE DEF moved
          <5>2. videoRTP.last \in Int
            BY <4>1, Widths
          <5>. QED
            BY <4>1, <5>1, <5>2, AheadType
        <4>3. ASSUME "video" \notin withheld PROVE rise <= ((Trusted * VideoRate) \div Second) + 1
          <5>. DEFINE s == timeline'.last - timeline.last
          <5>1. s \in 0..Trusted /\ timeline.last + s = timeline'.last
            BY <1>1, <1>2, <1>4, <2>3, Widths DEF VideoInv
          <5>2. Ahead(videoRTP.last, (Ticks(timeline.last, VideoRate) + videoRTP.offset) % RtpWord) <= Jump + 1
            BY <1>2, <2>3, <4>3 DEF VideoInv
          <5>3. moved = (Ticks(timeline.last + s, VideoRate) + videoRTP.offset) % RtpWord
            BY <5>1 DEF ts
          <5>. HIDE DEF s, moved
          <5>. QED
            BY <1>4, <3>5, <4>1, <5>1, <5>2, <5>3, RiseBounded
        <4>4. FrameRises
          BY <3>5, <4>2, <4>3 DEF FrameRises
        <4>. QED
          BY <1>2, <2>1, <3>1, <3>2, <4>4
      <3>. QED
        BY <3>1, <3>4, <3>5
    <2>. QED
      BY <2>2, <2>3
  <1>. QED
    BY <1>5, <1>6

LEMMA FrameType ==
  ASSUME ClockInv, NEW d \in 1..Trusted, NEW h \in Hiccups, NEW key \in BOOLEAN, NEW delay \in Delays, NEW paused \in BOOLEAN,
         VideoFrame(d, h, key, delay, paused)
  PROVE  ClockTypeOK'
  <1>1. /\ time' \in [video : Nat, audio : Nat] /\ skew' \in Int /\ now' \in Nat /\ slips' \in 0..MaxSlips /\ lost' = FALSE
    BY FrameTime
  <1>2. /\ unwrapper' \in [set : BOOLEAN, highest : Nat, offset : Int] /\ Raw \in Int
        /\ timeline' \in [set : BOOLEAN, last : Nat, offset : Int, avg : 0..Trusted]
    BY FrameClock
  <1>3. videoRTP' \in Guards /\ withheld' \subseteq {"video", "audio"}
    BY FramePublished
  <1>4. /\ audioRTP \in Guards /\ nextTimestamp \in 0..(RtpWord - 1) /\ anchored \in BOOLEAN
        /\ live \in [set : BOOLEAN, edge : Int, catching : BOOLEAN]
    BY DEF ClockInv, ClockTypeOK
  <1>5. audioRTP' = audioRTP /\ nextTimestamp' = nextTimestamp /\ anchored' = anchored
    BY DEF VideoFrame, publisherVars
  <1>6. live' \in [set : BOOLEAN, edge : Int, catching : BOOLEAN]
    <2>1. Behind(key)
      BY DEF VideoFrame
    <2>. DEFINE edge == now' - Raw
                late == edge - live.edge > MaxLag
                catching == live.catching \/ late
                anchor == ~live.set \/ edge < live.edge \/ (catching /\ key)
    <2>2. CASE MaxLag = 0
      <3>1. live' = [live EXCEPT !.catching = FALSE]
        BY <2>1, <2>2 DEF Behind
      <3>. QED
        BY <1>4, <3>1
    <2>3. CASE MaxLag # 0
      <3>1. live' = [set |-> TRUE, edge |-> IF anchor THEN edge ELSE live.edge, catching |-> live.set /\ catching /\ ~key]
        BY <2>1, <2>3 DEF Behind
      <3>2. (IF anchor THEN edge ELSE live.edge) \in Int
        BY <1>1, <1>2, <1>4
      <3>3. (live.set /\ catching /\ ~key) \in BOOLEAN
        OBVIOUS
      <3>. HIDE DEF anchor, catching, edge
      <3>. QED
        BY <3>1, <3>2, <3>3
    <2>. QED
      BY <2>2, <2>3
  <1>7. lost' \in BOOLEAN
    BY <1>1
  <1>. QED
    BY <1>1, <1>2, <1>3, <1>4, <1>5, <1>6, <1>7 DEF ClockTypeOK

\* What a frame leaves between the tracks: nothing, or less than a trusted delta
\* after a slip.
LEMMA FrameDrift ==
  ASSUME ClockInv, NEW d \in 1..Trusted, NEW h \in Hiccups, NEW key, NEW delay \in Delays, NEW paused,
         VideoFrame(d, h, key, delay, paused)
  PROVE  DriftInv'
  <1>1. /\ time'.video = time.video + d /\ time'.audio = time.audio
        /\ slips' = IF h # 0 \/ lost THEN slips + 1 ELSE slips
    BY FrameTime
  <1>2. /\ timeline.set => /\ timeline'.last - timeline.last \in 1..Trusted
                           /\ h = 0 /\ ~lost => timeline'.last = timeline.last + d
        /\ timeline'.last \in Nat
    BY FrameClock
  <1>3. "audio" \in withheld' <=> "audio" \in withheld
    BY FramePublished
  <1>4. anchored' = anchored /\ nextTimestamp' = nextTimestamp
    BY DEF VideoFrame, publisherVars
  <1>5. /\ time.video \in Nat /\ time.audio \in Nat /\ timeline.last \in Nat /\ slips \in Nat
        /\ DriftInv /\ (anchored => timeline.set)
    BY Widths DEF ClockInv, ClockTypeOK, CounterInv
  <1>6. SUFFICES ASSUME anchored, "audio" \notin withheld
                 PROVE  \E x \in Int : nextTimestamp = Ticks(x, AudioRate) /\ x - Shown' <= Allowance' /\ Shown' - x <= Allowance'
    BY <1>3, <1>4 DEF DriftInv
  <1>7. PICK x \in Int : nextTimestamp = Ticks(x, AudioRate) /\ x - Shown <= Allowance /\ Shown - x <= Allowance
    BY <1>5, <1>6 DEF DriftInv
  <1>8. Shown \in Int /\ Shown' \in Int /\ Shown' = Shown + (timeline'.last - timeline.last) - d
    BY <1>1, <1>2, <1>5, Widths DEF Shown
  <1>9. Allowance \in Int /\ Allowance' \in Int /\ Allowance' = IF h # 0 \/ lost THEN Allowance + (Trusted - 1) ELSE Allowance
    <2>1. slips * (Trusted - 1) \in Int /\ (slips + 1) * (Trusted - 1) = (slips * (Trusted - 1)) + (Trusted - 1)
      BY <1>5, Widths
    <2>. QED
      BY <1>1, <2>1, Widths DEF Allowance
  <1>10. x - Shown' <= Allowance' /\ Shown' - x <= Allowance'
    <2>1. CASE h # 0 \/ lost
      BY <1>2, <1>5, <1>6, <1>7, <1>8, <1>9, <2>1, Widths
    <2>2. CASE ~(h # 0 \/ lost)
      BY <1>2, <1>5, <1>6, <1>7, <1>8, <1>9, <2>2, Widths
    <2>. QED
      BY <2>1, <2>2
  <1>. QED
    BY <1>7, <1>10

LEMMA FrameKeepsInv ==
  ASSUME ClockInv, NEW d \in 1..Trusted, NEW h \in Hiccups, NEW key \in BOOLEAN, NEW delay \in Delays, NEW paused \in BOOLEAN,
         VideoFrame(d, h, key, delay, paused)
  PROVE  ClockInv' /\ (Published => FrameRises) /\ audioRTP' = audioRTP
  <1>1. audioRTP' = audioRTP /\ nextTimestamp' = nextTimestamp /\ anchored' = anchored
    BY DEF VideoFrame, publisherVars
  <1>2. LinkInv' /\ timeline'.set
    BY FrameClock
  <1>3. CounterInv'
    BY <1>1, <1>2 DEF ClockInv, CounterInv
  <1>4. SkewInv'
    BY FrameTime
  <1>. QED
    BY <1>1, <1>2, <1>3, <1>4, FrameType, FramePublished, FrameDrift DEF ClockInv

-----------------------------------------------------------------------------
(***************************************************************************)
(* An audio packet, a loss.                                                *)
(***************************************************************************)
\* applyBaseToPackets: where the track begins, and where it goes on at its end.
LEMMA BaseGoesOn ==
  ASSUME NEW g, NEW base \in 0..(RtpWord - 1), NEW length,
         g = NoGuard \/ (g.set /\ base = g.last)
  PROVE  GuardBase(g, base, length).guard = [set |-> TRUE, offset |-> 0, last |-> (base + length) % RtpWord]
  <1>1. CASE g = NoGuard
    <2>1. base + 0 = base /\ base % RtpWord = base
      BY Widths, ModSmall
    <2>2. g.set = FALSE /\ g.offset = 0
      BY <1>1 DEF NoGuard
    <2>. QED
      BY <2>1, <2>2 DEF GuardBase
  <1>2. CASE g.set /\ base = g.last
    BY <1>2 DEF GuardBase
  <1>. QED
    BY <1>1, <1>2

\* A packet is a whole number of ticks: its samples count on exactly.
LEMMA TicksOfPacket ==
  ASSUME NEW x \in Int
  PROVE  (Ticks(x, AudioRate) + ((Samples * AudioRate) \div Second)) % RtpWord = Ticks(x + Samples, AudioRate)
  <1>. DEFINE a == x * AudioRate
              b == Samples * AudioRate
              p == a \div Second
              q == b \div Second
  <1>1. a \in Int /\ b \in Int /\ (x + Samples) * AudioRate = a + b
    BY Widths
  <1>2. b % Second = 0
    BY WidthAssumption
  <1>. HIDE DEF a, b
  <1>3. (a + b) \div Second = p + q /\ p \in Int /\ q \in Int
    BY <1>1, <1>2, Widths, DivAdd
  <1>. HIDE DEF p, q
  <1>4. ((p % RtpWord) + q) % RtpWord = (p + q) % RtpWord
    BY <1>3, Widths, ModAdd
  <1>. QED
    BY <1>1, <1>3, <1>4 DEF a, b, p, q, Ticks

LEMMA AudioKeepsInv ==
  ASSUME ClockInv, NEW paused, AudioPacket(paused)
  PROVE  /\ ClockInv' /\ timeline' = timeline
         /\ audioRTP' # audioRTP /\ audioRTP.set => AudioGoesOn
  <1>. DEFINE length == (Samples * AudioRate) \div Second
              base == IF anchored THEN nextTimestamp ELSE Ticks(timeline.last, AudioRate)
  <1>1. ClockTypeOK /\ LinkInv /\ SkewInv /\ VideoInv /\ CounterInv /\ DriftInv
    BY DEF ClockInv
  <1>2. /\ timeline.set /\ time.audio + Samples <= time.video + MaxSkew
        /\ time' = [time EXCEPT !.audio = @ + Samples]
        /\ skew' = skew /\ now' = now /\ lost' = lost /\ unwrapper' = unwrapper /\ timeline' = timeline
        /\ live' = live /\ videoRTP' = videoRTP
    BY DEF AudioPacket, videoVars
  <1>3. time \in [video : Nat, audio : Nat] /\ timeline.last \in Nat /\ slips \in 0..MaxSlips /\ nextTimestamp \in 0..(RtpWord - 1)
    BY <1>1 DEF ClockTypeOK
  <1>4. time' \in [video : Nat, audio : Nat] /\ time'.video = time.video /\ time'.audio = time.audio + Samples
    BY <1>2, <1>3, Widths
  <1>5. LinkInv'
    BY <1>1, <1>2, <1>4 DEF LinkInv, Cont
  <1>6. SkewInv'
    BY <1>1, <1>2, <1>3, <1>4, Widths DEF SkewInv
  <1>7. Shown' = Shown + Samples /\ Shown \in Int
    BY <1>2, <1>3, <1>4, Widths DEF Shown
  <1>8. CASE paused \/ live.catching
    <2>1. /\ withheld' = (IF anchored THEN withheld \cup {"audio"} ELSE withheld)
          /\ audioRTP' = audioRTP /\ nextTimestamp' = nextTimestamp /\ anchored' = anchored /\ slips' = slips
      BY <1>8 DEF AudioPacket, publisherVars
    <2>2. withheld' \subseteq {"video", "audio"} /\ ("video" \in withheld' <=> "video" \in withheld)
      BY <1>1, <2>1 DEF ClockTypeOK
    <2>3. ClockTypeOK'
      BY <1>1, <1>2, <1>4, <2>1, <2>2 DEF ClockTypeOK
    <2>4. VideoInv' /\ CounterInv'
      BY <1>1, <1>2, <2>1, <2>2 DEF VideoInv, CounterInv
    <2>5. DriftInv'
      BY <2>1 DEF DriftInv
    <2>. QED
      BY <1>2, <1>5, <1>6, <2>1, <2>3, <2>4, <2>5 DEF ClockInv
  <1>9. CASE ~(paused \/ live.catching)
    <2>1. /\ audioRTP' = GuardBase(audioRTP, base, length).guard /\ nextTimestamp' = GuardBase(audioRTP, base, length).guard.last
          /\ anchored' = TRUE /\ slips' = (IF anchored THEN slips ELSE 0) /\ withheld' = withheld
      BY <1>9 DEF AudioPacket
    <2>2. base \in 0..(RtpWord - 1)
      <3>1. Ticks(timeline.last, AudioRate) \in 0..(RtpWord - 1)
        <4>1. timeline.last \in Int /\ AudioRate \in Nat
          BY <1>3, Widths
        <4>. QED
          BY <4>1, TicksType
      <3>. QED
        BY <1>3, <3>1
    <2>3. audioRTP = NoGuard \/ (audioRTP.set /\ base = audioRTP.last)
      BY <1>1 DEF CounterInv
    <2>4. length \in Int
      BY Widths, DivMod
    <2>. HIDE DEF base, length
    <2>5. audioRTP' = [set |-> TRUE, offset |-> 0, last |-> (base + length) % RtpWord] /\ nextTimestamp' = (base + length) % RtpWord
      BY <2>1, <2>2, <2>3, BaseGoesOn
    <2>6. (base + length) % RtpWord \in 0..(RtpWord - 1)
      BY <2>2, <2>4, Widths, DivMod
    <2>7. ClockTypeOK'
      <3>1. audioRTP' \in Guards /\ nextTimestamp' \in 0..(RtpWord - 1)
        BY <2>5, <2>6, Widths DEF Guards
      <3>2. anchored' \in BOOLEAN /\ slips' \in 0..MaxSlips
        BY <1>3, <2>1, Widths
      <3>. QED
        BY <1>1, <1>2, <1>4, <2>1, <3>1, <3>2 DEF ClockTypeOK
    <2>8. VideoInv' /\ CounterInv'
      BY <1>1, <1>2, <2>1, <2>5 DEF VideoInv, CounterInv
    <2>9. DriftInv'
      <3>1. SUFFICES ASSUME "audio" \notin withheld
                     PROVE  \E x \in Int : nextTimestamp' = Ticks(x, AudioRate) /\ x - Shown' <= Allowance' /\ Shown' - x <= Allowance'
        BY <2>1 DEF DriftInv
      <3>2. CASE anchored
        <4>1. PICK x \in Int : nextTimestamp = Ticks(x, AudioRate) /\ x - Shown <= Allowance /\ Shown - x <= Allowance
          BY <1>1, <3>1, <3>2 DEF DriftInv
        <4>2. nextTimestamp' = Ticks(x + Samples, AudioRate)
          BY <2>5, <3>2, <4>1, TicksOfPacket DEF base, length
        <4>3. Allowance' = Allowance /\ Allowance \in Int
          BY <1>3, <2>1, <3>2, Widths DEF Allowance
        <4>4. x + Samples \in Int /\ (x + Samples) - Shown' <= Allowance' /\ Shown' - (x + Samples) <= Allowance'
          BY <1>7, <4>1, <4>3, Widths
        <4>. QED
          BY <4>2, <4>4
      <3>3. CASE ~anchored
        <4>1. nextTimestamp' = Ticks(timeline.last + Samples, AudioRate)
          BY <1>3, <2>5, <3>3, TicksOfPacket DEF base, length
        <4>2. Allowance' = MaxSkew
          BY <2>1, <3>3, Widths DEF Allowance
        <4>3. /\ timeline.last + Samples \in Int
              /\ (timeline.last + Samples) - Shown' <= Allowance' /\ Shown' - (timeline.last + Samples) <= Allowance'
          BY <1>1, <1>3, <1>7, <4>2, Widths DEF SkewInv, Shown
        <4>. QED
          BY <4>1, <4>3
      <3>. QED
        BY <3>2, <3>3
    <2>10. audioRTP.set => AudioGoesOn
      <3>1. SUFFICES ASSUME audioRTP.set PROVE audioRTP'.last = (audioRTP.last + length) % RtpWord
        BY DEF AudioGoesOn, length
      <3>2. base = audioRTP.last
        BY <2>3, <3>1 DEF NoGuard
      <3>. QED
        BY <2>5, <3>2
    <2>. QED
      BY <1>2, <1>5, <1>6, <2>7, <2>8, <2>9, <2>10 DEF ClockInv
  <1>. QED
    BY <1>8, <1>9

LEMMA LossKeepsInv ==
  ASSUME ClockInv, NEW g \in Gaps, LoseTime(g)
  PROVE  ClockInv' /\ timeline' = timeline /\ audioRTP' = audioRTP
  <1>1. ClockTypeOK /\ LinkInv /\ SkewInv /\ VideoInv /\ CounterInv /\ DriftInv
    BY DEF ClockInv
  <1>2. /\ lost' = TRUE /\ time' = [video |-> time.video + g, audio |-> time.audio + g]
        /\ skew' = skew /\ now' = now /\ slips' = slips /\ withheld' = withheld
        /\ unwrapper' = unwrapper /\ timeline' = timeline /\ live' = live /\ videoRTP' = videoRTP
        /\ audioRTP' = audioRTP /\ nextTimestamp' = nextTimestamp /\ anchored' = anchored
    BY DEF LoseTime, videoVars, publisherVars
  <1>3. g \in Nat /\ time.video \in Nat /\ time.audio \in Nat /\ timeline.last \in Nat
    BY <1>1, ClockAssumption DEF ClockTypeOK
  <1>4. time' \in [video : Nat, audio : Nat] /\ time'.video = time.video + g /\ time'.audio = time.audio + g
    BY <1>2, <1>3
  <1>5. ClockTypeOK'
    <2>1. lost' \in BOOLEAN
      BY <1>2
    <2>. QED
      BY <1>1, <1>2, <1>4, <2>1 DEF ClockTypeOK
  <1>6. LinkInv'
    BY <1>1, <1>2 DEF LinkInv, Cont
  <1>7. SkewInv'
    BY <1>1, <1>3, <1>4, Widths DEF SkewInv
  <1>8. VideoInv' /\ CounterInv'
    BY <1>1, <1>2 DEF VideoInv, CounterInv
  <1>9. DriftInv'
    <2>1. Shown' = Shown
      BY <1>2, <1>3, <1>4 DEF Shown
    <2>2. Allowance' = Allowance
      BY <1>2 DEF Allowance
    <2>. QED
      BY <1>1, <1>2, <2>1, <2>2 DEF DriftInv
  <1>. QED
    BY <1>2, <1>5, <1>6, <1>7, <1>8, <1>9 DEF ClockInv

-----------------------------------------------------------------------------
(***************************************************************************)
(* The steps together.                                                     *)
(***************************************************************************)
Rises == (Published => FrameRises) /\ (audioRTP' # audioRTP /\ audioRTP.set => AudioGoesOn)

LEMMA ClockStep == ClockInv /\ [ClockNext]_clockVars => ClockInv' /\ (Rises \/ UNCHANGED clockVars)
  <1>. SUFFICES ASSUME ClockInv, [ClockNext]_clockVars PROVE ClockInv' /\ (Rises \/ UNCHANGED clockVars)
    OBVIOUS
  <1>1. ASSUME NEW paused \in BOOLEAN, NEW d \in 1..Trusted, NEW h \in Hiccups, NEW key \in BOOLEAN, NEW delay \in Delays,
               VideoFrame(d, h, key, delay, paused)
        PROVE  ClockInv' /\ Rises
    BY <1>1, FrameKeepsInv DEF Rises
  <1>2. ASSUME NEW g \in Gaps, LoseTime(g) PROVE ClockInv' /\ Rises
    BY <1>2, LossKeepsInv DEF Rises, Published
  <1>3. ASSUME NEW paused \in BOOLEAN, AudioPacket(paused) PROVE ClockInv' /\ Rises
    BY <1>3, AudioKeepsInv DEF Rises, Published
  <1>4. CASE UNCHANGED clockVars
    <2>1. /\ time' = time /\ skew' = skew /\ now' = now /\ slips' = slips /\ lost' = lost /\ withheld' = withheld
          /\ unwrapper' = unwrapper /\ timeline' = timeline /\ live' = live /\ videoRTP' = videoRTP
          /\ audioRTP' = audioRTP /\ nextTimestamp' = nextTimestamp /\ anchored' = anchored
      BY <1>4 DEF clockVars, envVars, videoVars, publisherVars, history
    <2>2. ClockTypeOK' /\ LinkInv' /\ SkewInv'
      BY <2>1 DEF ClockInv, ClockTypeOK, LinkInv, Cont, SkewInv
    <2>3. VideoInv' /\ CounterInv' /\ DriftInv'
      BY <2>1 DEF ClockInv, VideoInv, CounterInv, DriftInv, Shown, Allowance
    <2>. QED
      BY <1>4, <2>2, <2>3 DEF ClockInv
  <1>. QED
    BY <1>1, <1>2, <1>3, <1>4 DEF ClockNext

LEMMA ClockInvAlways == ClockSpec => []ClockInv
  BY ClockInitInv, ClockStep, PTL DEF ClockSpec

\* The variables of the clocks keep their types.
THEOREM ClockTypeCorrect == ClockSpec => []ClockTypeOK
  <1>1. ClockInv => ClockTypeOK
    BY DEF ClockInv
  <1>. QED
    BY <1>1, ClockInvAlways, PTL

\* mediaTimeline and the guards, for all widths and rates and any camera clock:
\* each frame published rises over the one before, and audio goes on at its end.
THEOREM ClockRises == ClockSpec => TimestampsRise
  <1>1. ClockInv /\ [ClockNext]_clockVars =>
          [(Published => FrameRises) /\ (audioRTP' # audioRTP /\ audioRTP.set => AudioGoesOn)]_clockVars
    BY ClockStep DEF Rises
  <1>. QED
    BY <1>1, ClockInvAlways, PTL DEF ClockSpec, TimestampsRise

-----------------------------------------------------------------------------
(***************************************************************************)
(* From times close together to ticks close together.                      *)
(***************************************************************************)
LEMMA SignedNear ==
  ASSUME NEW k \in Int, NEW b \in Nat, k <= b, -b <= k
  PROVE  -b <= Signed(k % RtpWord) /\ Signed(k % RtpWord) <= b
  <1>. DEFINE half == RtpWord \div 2
              r == k % RtpWord
  <1>1. half \in Nat /\ RtpWord = 2 * half /\ half >= 2
    BY RtpHalf
  <1>2. r \in 0..(RtpWord - 1) /\ (k >= 0 => r <= k) /\ (k < 0 /\ k >= -RtpWord => r = k + RtpWord)
    BY Widths, DivMod, ModNear
  <1>. HIDE DEF half, r
  <1>3. Signed(r) = IF r < half THEN r ELSE r - RtpWord
    BY DEF Signed, half
  <1>4. ASSUME b >= half PROVE -b <= Signed(r) /\ Signed(r) <= b
    BY <1>1, <1>2, <1>3, <1>4
  <1>5. ASSUME b < half, k >= 0 PROVE -b <= Signed(r) /\ Signed(r) <= b
    BY <1>1, <1>2, <1>3, <1>5
  <1>6. ASSUME b < half, k < 0 PROVE -b <= Signed(r) /\ Signed(r) <= b
    BY <1>1, <1>2, <1>3, <1>6
  <1>7. -b <= Signed(r) /\ Signed(r) <= b
    BY <1>1, <1>4, <1>5, <1>6
  <1>. QED
    BY <1>7 DEF r

LEMMA TicksNear ==
  ASSUME NEW x \in Int, NEW y \in Int, NEW m \in Nat, x - y <= m, y - x <= m
  PROVE  LET b == ((m * AudioRate) \div Second) + 1
             drift == Ahead(Ticks(x, AudioRate), Ticks(y, AudioRate))
         IN  -b <= Signed(drift) /\ Signed(drift) <= b
  <1>. DEFINE p == (x * AudioRate) \div Second
              q == (y * AudioRate) \div Second
              c == (m * AudioRate) \div Second
  <1>1. AudioRate \in Nat
    BY Widths
  <1>2. p \in Int /\ q \in Int /\ c \in Nat
    <2>1. p \in Int /\ q \in Int
      BY <1>1, TicksType
    <2>2. c \in Nat
      <3>1. 0 \in Int /\ 0 \in Nat /\ 0 <= m
        OBVIOUS
      <3>. QED
        BY <1>1, <3>1, TicksApart
    <2>. QED
      BY <2>1, <2>2
  <1>3. p - q <= c + 1 /\ q - p <= c + 1
    <2>1. ASSUME x >= y PROVE q <= p /\ p <= q + c + 1
      <3>1. x - y \in Nat /\ y + (x - y) = x
        BY <2>1
      <3>. QED
        BY <1>1, <3>1, TicksApart
    <2>2. ASSUME y >= x PROVE p <= q /\ q <= p + c + 1
      <3>1. y - x \in Nat /\ x + (y - x) = y
        BY <2>2
      <3>. QED
        BY <1>1, <3>1, TicksApart
    <2>. HIDE DEF p, q, c
    <2>. QED
      BY <1>2, <2>1, <2>2
  <1>4. Ticks(x, AudioRate) = p % RtpWord /\ Ticks(y, AudioRate) = q % RtpWord
    BY DEF Ticks
  <1>. HIDE DEF p, q, c
  <1>5. Ahead(Ticks(x, AudioRate), Ticks(y, AudioRate)) = (p - q) % RtpWord
    <2>1. ((p % RtpWord) - (q % RtpWord)) % RtpWord = (p - q) % RtpWord
      BY <1>2, Widths, ModSub
    <2>. QED
      BY <1>4, <2>1 DEF Ahead
  <1>6. p - q \in Int /\ c + 1 \in Nat /\ p - q <= c + 1 /\ -(c + 1) <= p - q
    BY <1>2, <1>3
  <1>7. -(c + 1) <= Signed((p - q) % RtpWord) /\ Signed((p - q) % RtpWord) <= c + 1
    BY <1>6, SignedNear
  <1>. QED
    BY <1>5, <1>7 DEF c

LEMMA DriftTolerated == ClockInv => TracksTogether
  <1>. SUFFICES ASSUME ClockInv, anchored, "audio" \notin withheld
                PROVE  -Tolerance <= Signed(Drift) /\ Signed(Drift) <= Tolerance
    BY DEF TracksTogether
  <1>1. PICK x \in Int : nextTimestamp = Ticks(x, AudioRate) /\ x - Shown <= Allowance /\ Shown - x <= Allowance
    BY DEF ClockInv, DriftInv
  <1>2. timeline.last \in Nat /\ time.audio \in Nat /\ time.video \in Nat /\ slips \in Nat
    BY Widths DEF ClockInv, ClockTypeOK
  <1>3. Shown \in Int
    BY <1>2 DEF Shown
  <1>4. Allowance \in Nat
    <2>1. Trusted - 1 \in Nat
      BY Widths
    <2>2. slips * (Trusted - 1) \in Nat
      BY <1>2, <2>1
    <2>. QED
      BY <2>2, Widths DEF Allowance
  <1>5. Drift = Ahead(Ticks(x, AudioRate), Ticks(Shown, AudioRate))
    BY <1>1 DEF Drift, Shown
  <1>6. Tolerance = ((Allowance * AudioRate) \div Second) + 1
    BY DEF Tolerance, Allowance
  <1>. QED
    BY <1>1, <1>3, <1>4, <1>5, <1>6, TicksNear

\* mediaTimeline and the sample counter, for all widths and rates: a sample lies
\* where the frame of its time lies, up to the delivery skew and less than one
\* trusted delta per frame that came after a slip or a loss.
THEOREM ClockTogether == ClockSpec => []TracksTogether
  BY DriftTolerated, ClockInvAlways, PTL
=============================================================================
