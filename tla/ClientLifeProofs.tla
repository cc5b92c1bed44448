-------------------------- MODULE ClientLifeProofs --------------------------
(***************************************************************************)
(* Theorems about ClientLife, for any number of callers and of ping        *)
(* failures, over TCP and UDP.                                             *)
(***************************************************************************)
EXTENDS ClientLife, TLAPS

\* The media reader never shuts the connection down, and a keep-alive loop that
\* may still ping has not counted to the limit.
LoopInv ==
  /\ ender["media"] # "shut"
  /\ ender["keepAlive"] \in {"off", "run"} => failures < MaxPingFailures

\* The reason is there from the moment the shutdown has begun.
ReasonInv == phase = "open" <=> err = "none"

IInv == TypeOK /\ LoopInv /\ ReasonInv

USE DEF Enders, Loops

-----------------------------------------------------------------------------
LEMMA InitInv == Init => IInv
  <1>. SUFFICES ASSUME Init PROVE IInv
    OBVIOUS
  <1>1. /\ ender \in [Enders -> {"off", "run", "shut", "waiting", "ended"}]
        /\ ender["media"] = "off" /\ ender["keepAlive"] = "off"
    BY DEF Init
  <1>2. call \in [Callers -> {"idle", "wait", "answered", "failed"} \cup Reasons]
    BY DEF Init
  <1>3. TypeOK
    <2>1. isUDP \in BOOLEAN /\ linkUp \in BOOLEAN /\ heard \in BOOLEAN
      BY Zenon DEF Init
    <2>2. failures \in 0..MaxPingFailures
      BY PingsAssumption DEF Init
    <2>3. /\ phase = "open" /\ err = "none" /\ ping = "none"
      BY DEF Init
    <2>. QED
      BY <1>1, <1>2, <2>1, <2>2, <2>3 DEF TypeOK
  <1>. QED
    BY <1>1, <1>3, PingsAssumption DEF Init, IInv, LoopInv, ReasonInv

\* One loop, or Close, goes on; everything else stays.
LEMMA LoopMoves ==
  ASSUME IInv, NEW x \in Enders, NEW s \in {"off", "run", "shut", "waiting", "ended"},
         Become(x, s), UNCHANGED <<isUDP, linkUp, shutVars, pingVars, call>>,
         s = "shut" => x # "media",
         x = "keepAlive" => ping = "none" /\ (s \in {"off", "run"} => ender[x] \in {"off", "run"})
  PROVE  IInv'
  BY DEF IInv, TypeOK, LoopInv, ReasonInv, Become, shutVars, pingVars

\* A caller asks, or is told something.
LEMMA CallMoves ==
  ASSUME IInv, NEW c \in Callers,
         NEW a \in {"idle", "wait", "answered", "failed"} \cup Reasons,
         call' = [call EXCEPT ![c] = a], heard' \in BOOLEAN,
         UNCHANGED <<isUDP, linkUp, ender, shutVars, ping, failures>>
  PROVE  IInv'
  BY DEF IInv, TypeOK, LoopInv, ReasonInv, shutVars

LEMMA CallerInv ==
  ASSUME IInv, NEW c \in Callers, Request(c) \/ SeesClosed(c) \/ Answer(c)
  PROVE  IInv'
  <1>. /\ heard \in BOOLEAN /\ err \in Reasons \cup {"none"}
    BY DEF IInv, TypeOK
  <1>1. CASE Request(c)
    BY <1>1, CallMoves DEF Request, pingVars
  <1>2. CASE SeesClosed(c)
    <2>1. (IF err = "none" THEN "canceled" ELSE err) \in Reasons
      BY DEF Reasons
    <2>. QED
      BY <1>2, <2>1, CallMoves DEF SeesClosed, pingVars
  <1>3. CASE Answer(c)
    BY <1>3, CallMoves DEF Answer, Reading
  <1>. QED
    BY <1>1, <1>2, <1>3

LEMMA LinkInv ==
  ASSUME IInv, PingAnswer \/ ReceivePush \/ LinkDies
  PROVE  IInv'
  <1>1. /\ UNCHANGED <<isUDP, ender, phase, err, failures, call>>
        /\ linkUp' \in BOOLEAN /\ heard' \in BOOLEAN
        /\ ping' = ping \/ (ping = "wait" /\ ping' = "ok")
    BY DEF PingAnswer, ReceivePush, LinkDies, Reading, IInv, TypeOK, shutVars, pingVars
  <1>. QED
    BY <1>1 DEF IInv, TypeOK, LoopInv, ReasonInv

LEMMA PingInv ==
  ASSUME IInv, Ping \/ PingFails
  PROVE  IInv'
  <1>1. /\ UNCHANGED <<isUDP, linkUp, ender, phase, err, failures, call>>
        /\ heard' \in BOOLEAN /\ ping' \in {"failed", "wait"}
        /\ ~isUDP /\ ender["keepAlive"] = "run"
    BY DEF Ping, PingFails, IInv, TypeOK, shutVars
  <1>. QED
    BY <1>1 DEF IInv, TypeOK, LoopInv, ReasonInv

\* The count goes up by one from below the limit, and the loop leaves at it.
LEMMA PingedInv ==
  ASSUME IInv, Pinged
  PROVE  IInv'
  <1>. DEFINE n == IF ping = "ok" \/ heard THEN 0 ELSE failures + 1
  <1>1. /\ ping # "none" /\ ping' = "none" /\ failures' = n
        /\ ender' = IF n >= MaxPingFailures THEN [ender EXCEPT !["keepAlive"] = "shut"] ELSE ender
        /\ UNCHANGED <<isUDP, linkUp, phase, err, heard, call>>
    BY DEF Pinged, shutVars
  <1>2. n \in 0..MaxPingFailures
    BY <1>1, PingsAssumption DEF IInv, TypeOK, LoopInv
  <1>. HIDE DEF n
  <1>3. TypeOK'
    BY <1>1, <1>2 DEF IInv, TypeOK
  <1>4. LoopInv'
    BY <1>1, <1>2, PingsAssumption DEF IInv, TypeOK, LoopInv
  <1>. QED
    BY <1>1, <1>3, <1>4 DEF IInv, ReasonInv

LEMMA EnderInv ==
  ASSUME IInv,
         \/ ReadError \/ StartKeepAlive \/ CloseWhenIdle \/ StartPreview \/ MediaStops
         \/ UDPSilence \/ IdleExpires \/ Close \/ CloseReturns
         \/ \E x \in Loops : LoopSeesClosed(x)
         \/ \E x \in Enders : ShutdownReturns(x)
  PROVE  IInv'
  <1>. /\ ping # "none" => ~isUDP /\ ender["keepAlive"] = "run"
    BY DEF IInv, TypeOK
  <1>1. CASE ReadError
    BY <1>1, LoopMoves DEF ReadError
  <1>2. CASE StartKeepAlive \/ CloseWhenIdle \/ StartPreview
    BY <1>2, LoopMoves DEF StartKeepAlive, CloseWhenIdle, StartPreview, StartLoop
  <1>3. CASE MediaStops
    BY <1>3, LoopMoves DEF MediaStops
  <1>4. CASE UDPSilence
    BY <1>4, LoopMoves DEF UDPSilence
  <1>5. CASE IdleExpires
    BY <1>5, LoopMoves DEF IdleExpires
  <1>6. CASE Close
    BY <1>6, LoopMoves DEF Close
  <1>7. CASE CloseReturns
    BY <1>7, LoopMoves DEF CloseReturns
  <1>8. ASSUME NEW x \in Loops, LoopSeesClosed(x) PROVE IInv'
    <2>1. CASE x = "media"
      BY <1>8, <2>1, LoopMoves DEF LoopSeesClosed
    <2>2. CASE x # "media"
      BY <1>8, <2>2, LoopMoves DEF LoopSeesClosed
    <2>. QED
      BY <2>1, <2>2
  <1>9. ASSUME NEW x \in Enders, ShutdownReturns(x) PROVE IInv'
    <2>1. CASE x = "close"
      BY <1>9, <2>1, LoopMoves DEF ShutdownReturns
    <2>2. CASE x # "close"
      BY <1>9, <2>2, LoopMoves DEF ShutdownReturns
    <2>. QED
      BY <2>1, <2>2
  <1>. QED
    BY <1>1, <1>2, <1>3, <1>4, <1>5, <1>6, <1>7, <1>8, <1>9

\* Whoever gets through closeOnce has a reason.
LEMMA ReasonType ==
  ASSUME LoopInv, NEW x \in Enders, ender[x] = "shut"
  PROVE  Reason(x) \in Reasons
  BY DEF LoopInv, Reason, Reasons

LEMMA ShutInv ==
  ASSUME IInv, CloseChannel \/ CloseTransport \/ \E x \in Enders : SetReason(x)
  PROVE  IInv'
  <1>1. CASE CloseChannel \/ CloseTransport
    BY <1>1 DEF CloseChannel, CloseTransport, IInv, TypeOK, LoopInv, ReasonInv, pingVars
  <1>2. ASSUME NEW x \in Enders, SetReason(x) PROVE IInv'
    <2>1. Reason(x) \in Reasons /\ Reason(x) # "none"
      BY <1>2, ReasonType DEF SetReason, IInv, Reasons
    <2>. QED
      BY <1>2, <2>1 DEF SetReason, IInv, TypeOK, LoopInv, ReasonInv, pingVars
  <1>. QED
    BY <1>1, <1>2

LEMMA NextInv == IInv /\ [Next]_vars => IInv'
  <1>. SUFFICES ASSUME IInv, [Next]_vars PROVE IInv'
    OBVIOUS
  <1>1. CASE Next
    BY <1>1, CallerInv, LinkInv, PingInv, PingedInv, EnderInv, ShutInv DEF Next
  <1>2. CASE UNCHANGED vars
    BY <1>2 DEF vars, shutVars, pingVars, IInv, TypeOK, LoopInv, ReasonInv
  <1>. QED
    BY <1>1, <1>2

LEMMA Invariance == Spec => []IInv
  BY InitInv, NextInv, PTL DEF Spec

\* Loops, pings and callers are well typed for any bounds: a ping is under way
\* only while keepAliveLoop runs over TCP, and it never counts past the limit.
THEOREM TypeCorrect == Spec => []TypeOK
  <1>1. IInv => TypeOK
    BY DEF IInv
  <1>. QED
    BY <1>1, Invariance, PTL

-----------------------------------------------------------------------------
\* A step that changes neither the reason nor what callers are told.
LEMMA FirstReasonStep ==
  ASSUME IInv, [Next]_vars
  PROVE  /\ phase # "open" => err # "none" /\ err' = err
         /\ \A c \in Callers : Waiting(c) /\ call'[c] \in Reasons => call'[c] = err
  <1>. /\ call \in [Callers -> {"idle", "wait", "answered", "failed"} \cup Reasons]
       /\ "wait" \notin Reasons /\ "answered" \notin Reasons /\ "failed" \notin Reasons
    BY DEF IInv, TypeOK, Reasons
  <1>1. phase # "open" => err # "none"
    BY DEF IInv, ReasonInv
  <1>2. CASE UNCHANGED <<err, call>>
    BY <1>1, <1>2 DEF Waiting
  <1>3. ASSUME NEW c \in Callers, Request(c) \/ SeesClosed(c) \/ Answer(c)
        PROVE  /\ err' = err
               /\ \A d \in Callers : Waiting(d) /\ call'[d] \in Reasons => call'[d] = err
    <2>1. err' = err
      BY <1>3 DEF Request, SeesClosed, Answer, shutVars
    <2>2. CASE Request(c)
      <3>1. \A d \in Callers : d # c => call'[d] = call[d]
        BY <2>2 DEF Request
      <3>2. Waiting(c) => call'[c] \notin Reasons
        BY <2>2 DEF Request
      <3>. QED
        BY <2>1, <3>1, <3>2 DEF Waiting
    <2>3. CASE SeesClosed(c)
      <3>1. \A d \in Callers : d # c => call'[d] = call[d]
        BY <2>3 DEF SeesClosed
      <3>2. call'[c] = err
        BY <1>1, <2>3 DEF SeesClosed, Closed
      <3>. QED
        BY <2>1, <3>1, <3>2 DEF Waiting
    <2>4. CASE Answer(c)
      <3>1. \A d \in Callers : d # c => call'[d] = call[d]
        BY <2>4 DEF Answer
      <3>2. Waiting(c) => call'[c] \notin Reasons
        BY <2>4 DEF Answer
      <3>. QED
        BY <2>1, <3>1, <3>2 DEF Waiting
    <2>. QED
      BY <1>3, <2>1, <2>2, <2>3, <2>4
  <1>4. ASSUME NEW x \in Enders, SetReason(x) PROVE phase = "open" /\ UNCHANGED call
    BY <1>4 DEF SetReason
  <1>5. CASE \/ PingAnswer \/ ReceivePush \/ LinkDies \/ Ping \/ PingFails \/ Pinged
             \/ CloseChannel \/ CloseTransport
    BY <1>2, <1>5 DEF PingAnswer, ReceivePush, LinkDies, Ping, PingFails, Pinged,
         CloseChannel, CloseTransport, shutVars
  <1>6. CASE \/ ReadError \/ StartKeepAlive \/ CloseWhenIdle \/ StartPreview \/ MediaStops
             \/ UDPSilence \/ IdleExpires \/ Close \/ CloseReturns
             \/ \E x \in Loops : LoopSeesClosed(x)
             \/ \E x \in Enders : ShutdownReturns(x)
    BY <1>2, <1>6 DEF ReadError, StartKeepAlive, CloseWhenIdle, StartPreview, StartLoop, MediaStops,
         UDPSilence, IdleExpires, Close, CloseReturns, LoopSeesClosed, ShutdownReturns, shutVars
  <1>7. CASE UNCHANGED vars
    BY <1>2, <1>7 DEF vars, shutVars
  <1>8. CASE \E x \in Enders : SetReason(x)
    BY <1>4, <1>8 DEF Waiting
  <1>9. CASE \E c \in Callers : Request(c) \/ SeesClosed(c) \/ Answer(c)
    BY <1>1, <1>3, <1>9
  <1>. QED
    BY <1>5, <1>6, <1>7, <1>8, <1>9 DEF Next

\* shutdown, closeOnce: for any number of callers, whoever shuts the connection
\* down and in whatever order, the first reason is the one everybody sees.
THEOREM FirstReasonStands == Spec => FirstReasonKept
  <1>1. IInv /\ [Next]_vars =>
          [/\ phase # "open" => err # "none" /\ err' = err
           /\ \A c \in Callers : Waiting(c) /\ call'[c] \in Reasons => call'[c] = err]_vars
    BY FirstReasonStep
  <1>. QED
    BY <1>1, Invariance, PTL DEF Spec, FirstReasonKept
=============================================================================
