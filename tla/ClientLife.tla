----------------------------- MODULE ClientLife -----------------------------
(***************************************************************************)
(* The life of one Baichuan connection (Client in pkg/baichuan/client.go):  *)
(* the loops that run on it, the ways they find that it must end, and the   *)
(* shutdown they all lead to.                                               *)
(*                                                                          *)
(* Of a request only matters that somebody waits for its answer; numbers    *)
(* and answers are the subject of ClientRpc.  Of time only its order is     *)
(* kept: a span or a time-out may have passed at any moment, and "heard"    *)
(* says that a message was read since the ping on its way was sent.         *)
(***************************************************************************)
EXTENDS Integers

CONSTANTS
  Callers,         \* goroutines that wait for answers, without a time-out
  MaxPingFailures  \* 3 in the code

ASSUME PingsAssumption == MaxPingFailures \in Nat \ {0}

\* The goroutines wg counts, and Close, which waits for them.
Loops == {"read", "keepAlive", "idle", "media"}
Enders == Loops \cup {"close"}
Reasons == {"lost", "ping", "silence", "idle", "canceled"}

VARIABLES
  isUDP,     \* the transport is a UID session
  linkUp,    \* FALSE: the link is dead, and nobody has been told
  ender,     \* every loop and Close: "off", "run", "shut", "waiting", "ended"
  phase,     \* shutdown has: "open" not begun, set the "reason", "closed" the
             \* channel, taken the transport "down"
  err,       \* closeErr
  ping,      \* the ping: "none", "wait", "ok", "failed"
  heard,
  failures,  \* pingFailures
  call       \* every caller: "idle", "wait", or what it was told last

shutVars == <<phase, err>>
pingVars == <<ping, heard, failures>>
vars == <<isUDP, linkUp, ender, shutVars, pingVars, call>>

Running(x) == ender[x] \notin {"off", "ended"}
Closed == phase \in {"closed", "down"}
Waiting(c) == call[c] = "wait"
Become(x, s) == ender' = [ender EXCEPT ![x] = s]

Init ==
  /\ isUDP \in BOOLEAN
  /\ linkUp = TRUE
  /\ ender = [x \in Enders |-> IF x = "read" THEN "run" ELSE "off"]
  /\ phase = "open" /\ err = "none"
  /\ ping = "none" /\ heard = FALSE /\ failures = 0
  /\ call = [c \in Callers |-> "idle"]

(***************************************************************************)
(* Callers and readLoop.                                                    *)
(***************************************************************************)
\* A dead link takes what is written, a closed one does not.
Request(c) ==
  /\ ~Waiting(c)
  /\ call' = [call EXCEPT ![c] = IF phase = "down" THEN "failed" ELSE "wait"]
  /\ UNCHANGED <<isUDP, linkUp, ender, shutVars, pingVars>>

SeesClosed(c) ==
  /\ Waiting(c) /\ Closed
  /\ call' = [call EXCEPT ![c] = IF err = "none" THEN "canceled" ELSE err]
  /\ UNCHANGED <<isUDP, linkUp, ender, shutVars, pingVars>>

\* Whatever is read is a sign of life: an answer to a caller or to the ping, a
\* push, media.  It counts until the ping's outcome is judged (Pinged), be it
\* read after the ping has failed.
Reading ==
  /\ ender["read"] = "run" /\ linkUp /\ phase # "down"
  /\ heard' = (ping # "none")

Answer(c) ==
  /\ Reading /\ Waiting(c)
  /\ call' = [call EXCEPT ![c] = "answered"]
  /\ UNCHANGED <<isUDP, linkUp, ender, shutVars, ping, failures>>

PingAnswer ==
  /\ Reading /\ ping = "wait" /\ ping' = "ok"
  /\ UNCHANGED <<isUDP, linkUp, ender, shutVars, failures, call>>

ReceivePush == Reading /\ UNCHANGED <<isUDP, linkUp, ender, shutVars, ping, failures, call>>

ReadError ==
  /\ ender["read"] = "run"
  /\ Become("read", "shut")
  /\ UNCHANGED <<isUDP, linkUp, shutVars, pingVars, call>>

\* The link dies silently (power cut, NAT mapping gone).
LinkDies ==
  /\ linkUp /\ linkUp' = FALSE
  /\ UNCHANGED <<isUDP, ender, shutVars, pingVars, call>>

(***************************************************************************)
(* The other loops.                                                         *)
(***************************************************************************)
\* StartKeepAlive and CloseWhenIdle run once each, also on a closed client.
StartLoop(x) ==
  /\ ender[x] = "off" /\ Become(x, "run")
  /\ UNCHANGED <<isUDP, linkUp, shutVars, pingVars, call>>

StartKeepAlive == StartLoop("keepAlive")
CloseWhenIdle == StartLoop("idle")

\* The media reader starts when the camera has answered, which may be at the
\* moment the connection is closed.
StartPreview == phase # "down" /\ StartLoop("media")

\* The media reader is stopped, or gives up on a gap or a corrupt message.
MediaStops ==
  /\ ender["media"] = "run" /\ Become("media", "off")
  /\ UNCHANGED <<isUDP, linkUp, shutVars, pingVars, call>>

\* Mutant of Ping: what was read before the ping counts as well.
PingKeepsHeard ==
  /\ ender["keepAlive"] = "run" /\ ~isUDP /\ ping = "none"
  /\ ping' = IF phase = "down" THEN "failed" ELSE "wait"
  /\ UNCHANGED <<isUDP, linkUp, ender, shutVars, heard, failures, call>>

Ping ==
  /\ ender["keepAlive"] = "run" /\ ~isUDP /\ ping = "none"
  /\ ping' = IF phase = "down" THEN "failed" ELSE "wait"
  /\ heard' = FALSE
  /\ UNCHANGED <<isUDP, linkUp, ender, shutVars, failures, call>>

\* The camera refuses the ping, it times out, or the client is closed.
PingFails ==
  /\ ping = "wait" /\ ping' = "failed"
  /\ UNCHANGED <<isUDP, linkUp, ender, shutVars, heard, failures, call>>

\* An answer, or anything read since the ping, proves the link alive.
Pinged ==
  /\ ping \in {"ok", "failed"} /\ ping' = "none"
  /\ LET n == IF ping = "ok" \/ heard THEN 0 ELSE failures + 1 IN
       /\ failures' = n
       /\ ender' = IF n >= MaxPingFailures THEN [ender EXCEPT !["keepAlive"] = "shut"] ELSE ender
  /\ UNCHANGED <<isUDP, linkUp, shutVars, heard, call>>

\* Over UDP the ping wants no reply, so only the silence of the session counts.
\* Assumption: only a dead link is silent, for a live peer acknowledges every
\* keep-alive.
UDPSilence ==
  /\ ender["keepAlive"] = "run" /\ isUDP /\ ~linkUp
  /\ Become("keepAlive", "shut")
  /\ UNCHANGED <<isUDP, linkUp, shutVars, pingVars, call>>

\* Nothing was sent or read for the span.
IdleExpires ==
  /\ ender["idle"] = "run" /\ Become("idle", "shut")
  /\ UNCHANGED <<isUDP, linkUp, shutVars, pingVars, call>>

\* Mutant of LoopSeesClosed: the media reader ends only when it is stopped.
LoopSeesClosedNotMedia(x) ==
  /\ x \notin {"read", "media"} /\ ender[x] = "run" /\ Closed
  /\ x = "keepAlive" => ping = "none"
  /\ Become(x, "ended")
  /\ UNCHANGED <<isUDP, linkUp, shutVars, pingVars, call>>

\* A loop at its select sees that the client is closed.
LoopSeesClosed(x) ==
  /\ x # "read" /\ ender[x] = "run" /\ Closed
  /\ x = "keepAlive" => ping = "none"
  /\ Become(x, IF x = "media" THEN "off" ELSE "ended")
  /\ UNCHANGED <<isUDP, linkUp, shutVars, pingVars, call>>

(***************************************************************************)
(* shutdown: closeOnce lets one goroutine through; the others wait for it.  *)
(***************************************************************************)
Reason(x) ==
  CASE x = "read" -> "lost" [] x = "idle" -> "idle" [] x = "close" -> "canceled"
    [] x = "keepAlive" -> IF isUDP THEN "silence" ELSE "ping"

\* Mutant of SetReason: every shutdown sets its reason.
SetReasonAlways(x) ==
  /\ ender[x] = "shut"
  /\ phase' = (IF phase = "open" THEN "reason" ELSE phase) /\ err' = Reason(x)
  /\ UNCHANGED <<isUDP, linkUp, ender, pingVars, call>>

SetReason(x) ==
  /\ ender[x] = "shut" /\ phase = "open"
  /\ phase' = "reason" /\ err' = Reason(x)
  /\ UNCHANGED <<isUDP, linkUp, ender, pingVars, call>>

CloseChannel ==
  /\ phase = "reason" /\ phase' = "closed"
  /\ UNCHANGED <<isUDP, linkUp, ender, err, pingVars, call>>

CloseTransport ==
  /\ phase = "closed" /\ phase' = "down"
  /\ UNCHANGED <<isUDP, linkUp, ender, err, pingVars, call>>

ShutdownReturns(x) ==
  /\ ender[x] = "shut" /\ phase = "down"
  /\ Become(x, IF x = "close" THEN "waiting" ELSE "ended")
  /\ UNCHANGED <<isUDP, linkUp, shutVars, pingVars, call>>

Close ==
  /\ ender["close"] = "off" /\ Become("close", "shut")
  /\ UNCHANGED <<isUDP, linkUp, shutVars, pingVars, call>>

\* wg.Wait
CloseReturns ==
  /\ ender["close"] = "waiting" /\ \A x \in Loops : ~Running(x)
  /\ Become("close", "ended")
  /\ UNCHANGED <<isUDP, linkUp, shutVars, pingVars, call>>

Next ==
  \/ \E c \in Callers : Request(c) \/ SeesClosed(c) \/ Answer(c)
  \/ PingAnswer \/ ReceivePush \/ ReadError \/ LinkDies
  \/ StartKeepAlive \/ CloseWhenIdle \/ StartPreview \/ MediaStops
  \/ Ping \/ PingFails \/ Pinged \/ UDPSilence \/ IdleExpires
  \/ \E x \in Loops : LoopSeesClosed(x)
  \/ \E x \in Enders : SetReason(x) \/ ShutdownReturns(x)
  \/ CloseChannel \/ CloseTransport \/ Close \/ CloseReturns

Spec == Init /\ [][Next]_vars

(***************************************************************************)
(* Fairness.  Every goroutine goes on.  Go's select is fair, so a loop sees *)
(* a closed client although its ticker, or media, is ready too.  A ping has *)
(* a time-out and a tick comes; a closed transport fails the read.  A call  *)
(* may wait for ever, and nothing is assumed of the camera.                 *)
(***************************************************************************)
FairSpec ==
  /\ Spec
  /\ \A c \in Callers : WF_vars(SeesClosed(c))
  /\ WF_vars(Ping \/ PingFails \/ Pinged)
  /\ SF_vars(UDPSilence)
  /\ \A x \in Loops : SF_vars(LoopSeesClosed(x))
  /\ \A x \in Enders : WF_vars(SetReason(x) \/ ShutdownReturns(x))
  /\ WF_vars(CloseChannel \/ CloseTransport) /\ WF_vars(CloseReturns)
  /\ WF_vars(phase = "down" /\ ReadError)

(***************************************************************************)
(* Properties.                                                              *)
(***************************************************************************)
\* Every variable has its type.  A ping is under way only while keepAliveLoop
\* runs, over TCP, and failures past the limit are never counted.
TypeOK ==
  /\ isUDP \in BOOLEAN /\ linkUp \in BOOLEAN
  /\ ender \in [Enders -> {"off", "run", "shut", "waiting", "ended"}]
  /\ phase \in {"open", "reason", "closed", "down"} /\ err \in Reasons \cup {"none"}
  /\ ping \in {"none", "wait", "ok", "failed"} /\ heard \in BOOLEAN
  /\ ping # "none" => ~isUDP /\ ender["keepAlive"] = "run"
  /\ failures \in 0..MaxPingFailures
  /\ call \in [Callers -> {"idle", "wait", "answered", "failed"} \cup Reasons]

\* Whoever can see that the client is closed sees why, and the reason is the
\* first one: the read error that follows an idle close does not replace it, or
\* the device would announce a lost camera (shutdown, cameraDevice.closeLocked).
FirstReasonKept ==
  [][/\ phase # "open" => err # "none" /\ err' = err
     /\ \A c \in Callers : Waiting(c) /\ call'[c] \in Reasons => call'[c] = err]_vars

\* A dead link is noticed once pings run, over TCP and UDP, and then everybody
\* who waits for an answer returns, callers without a time-out included.
DeadLinkReleases ==
  \A c \in Callers : ~linkUp /\ ender["keepAlive"] = "run" /\ Waiting(c) ~> ~Waiting(c)

\* Close returns, and then no goroutine of the connection runs on for ever,
\* whoever else shuts the connection down meanwhile.
CloseEndsAll ==
  /\ ender["close"] = "shut" ~> ender["close"] = "ended"
  /\ \A x \in Loops : ender["close"] = "ended" ~> ~Running(x)
=============================================================================
