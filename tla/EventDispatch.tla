---------------------------- MODULE EventDispatch ----------------------------
(***************************************************************************)
(* Camera events on their way to the embedding program                      *)
(* (pkg/bridge/events.go, handleWebhookPush in pkg/bridge/webhook.go,       *)
(* AlarmMerger and ListenForAlarms in pkg/baichuan/motion.go).              *)
(*                                                                          *)
(* A push reaches the bridge through the listener of a connection or as a   *)
(* POST, in a goroutine of its own.  What a goroutine still has to do is    *)
(* its list of steps, todo[w]; an action is the first of them: a critical   *)
(* section of the merger or of events.mu, or a call of the program's        *)
(* handlers, which is made outside every lock.  The order of AITypes, which *)
(* only decides whether an unchanged motion is reported once more, is left  *)
(* out.  The sleep and spotlight listeners of a connection do what a POST   *)
(* of the same report does.                                                 *)
(***************************************************************************)
EXTENDS Integers, Sequences, FiniteSets

CONSTANTS
  Listeners,  \* goroutines ListenForAlarms starts
  Posts,      \* goroutines of the webhook's HTTP server
  Types,      \* AI classifications
  Alarms,     \* alarm states the camera pushes
  Handlers,   \* the handlers the program registers: "motion", "doorbell", ...
  Early,      \* those it registers before the first input
  MaxInputs   \* bound: pushes and connection changes

AlarmState == [motion : BOOLEAN, visitor : BOOLEAN, types : SUBSET Types]
NoAlarm == [motion |-> FALSE, visitor |-> FALSE, types |-> {}]

ASSUME AlarmsAssumption == Alarms \subseteq AlarmState

ASSUME MaxInputsAssumption == MaxInputs \in Nat

HandlerNames == {"motion", "doorbell", "sleep", "connection"}

ASSUME HandlersAssumption == Early \subseteq Handlers /\ Handlers \subseteq HandlerNames

Webhook == "webhook"  \* the merger the POSTs share (Camera.webhookAlarms)
Link == "link"        \* the goroutine that delivers connection states
Api == "api"          \* the program's own goroutine
Workers == Listeners \cup Posts \cup {Link, Api}

ASSUME WorkersAssumption ==
  /\ IsFiniteSet(Listeners \cup Posts)
  /\ Listeners \cap Posts = {} /\ {Webhook, Link, Api} \cap (Listeners \cup Posts) = {}

VARIABLES
  session,     \* of every listener: "off", "on", "ending"
  todo,        \* the steps every goroutine has still to take
  merger,      \* AlarmMerger of every listener and of the webhook
  handlers,    \* the handlers the program has registered
  last,        \* cameraEvents: visitor, motion, sleep, connection; {} is nil
  pause,       \* cameraMotionState: {} unknown, or {Active}
  inputs,      \* pushes and connection changes so far
  reports,     \* alarm states dispatched under events.mu (history)
  told,        \* what every handler was called with so far, in order (history)
  raced,       \* a state was decided while an older one was undelivered (history)
  lone         \* the last push was a sleep push handled alone (history)

vars == <<session, todo, merger, handlers, last, pause, inputs, reports, told, raced, lone>>

Forgotten == [alarm |-> NoAlarm, basic |-> {}, detail |-> {}]
MotionEvent == [active : BOOLEAN, types : SUBSET Types]
EventOf(s) == [active |-> s.motion \/ s.types # {}, types |-> s.types]

\* The steps of a push.
Alarm(s) == [op |-> "alarm", state |-> s]
Yolo(cmd, types) == [op |-> cmd, types |-> types]
Report(s) == [op |-> "report", state |-> s]
Flag(sleeping) == [op |-> "flag", value |-> sleeping]
Call(h, v) == [op |-> "call", handler |-> h, value |-> v]
SetActive(b) == [op |-> "setActive", value |-> b]

\* The simple events "sleep" and "wake".  A sleep state in XML (cmd 145) is a
\* Flag alone: unlike the sleep event it ends no alarm.
SleepPush == <<Flag(TRUE), [op |-> "reset"], Report(NoAlarm)>>
WakePush(s) == <<Flag(FALSE), Alarm(s)>>

AlarmPushes ==
  {<<Alarm(s)>> : s \in Alarms}
    \cup {<<Yolo(cmd, t)>> : cmd \in {"basic", "detail"}, t \in SUBSET Types}
WebhookPushes ==
  AlarmPushes \cup {<<Flag(b)>> : b \in BOOLEAN}
    \cup {SleepPush, WakePush([NoAlarm EXCEPT !.visitor = TRUE]),
          WakePush([NoAlarm EXCEPT !.motion = TRUE])}

Idle(w) == todo[w] = <<>>
Quiet == \A w \in Workers : Idle(w)
Next1(w) == Head(todo[w])
At(w, op) == ~Idle(w) /\ Next1(w).op = op
Proceed(w, steps) == todo' = [todo EXCEPT ![w] = steps \o Tail(@)]
\* what w has merged or decided and not delivered
Undelivered(w) == \E i \in DOMAIN todo[w] : todo[w][i].op \in {"report", "call", "setActive"}
SourceOf(w) == IF w \in Listeners THEN w ELSE Webhook
When(cond, steps) == IF cond THEN steps ELSE <<>>

Init ==
  /\ session = [l \in Listeners |-> "off"]
  /\ todo = [w \in Workers |-> <<>>]
  /\ merger = [m \in Listeners \cup {Webhook} |-> Forgotten]
  /\ handlers = Early
  /\ last = [visitor |-> FALSE, motion |-> {}, sleep |-> {}, connection |-> {}]
  /\ pause = {}
  /\ inputs = 0
  /\ reports = <<>> /\ told = [h \in HandlerNames |-> <<>>] /\ raced = FALSE /\ lone = FALSE

(***************************************************************************)
(* Inputs.                                                                  *)
(***************************************************************************)
Input == inputs < MaxInputs /\ inputs' = inputs + 1

\* A connection comes up, with a listener and a merger of its own.  The listener
\* of the connection it replaces may still take pushes that wait, or be inside a
\* call of the program.
StartListener(l) ==
  /\ session[l] = "off"
  /\ session' = [k \in Listeners |-> IF k = l THEN "on"
                   ELSE IF session[k] = "on" THEN "ending" ELSE session[k]]
  /\ merger' = [merger EXCEPT ![l] = Forgotten]
  /\ UNCHANGED <<todo, handlers, last, pause, inputs, reports, told, raced, lone>>

ListenerExit(l) ==
  /\ session[l] = "ending" /\ Idle(l)
  /\ session' = [session EXCEPT ![l] = "off"]
  /\ UNCHANGED <<todo, merger, handlers, last, pause, inputs, reports, told, raced, lone>>

Receive(w, push) ==
  /\ Idle(w) /\ Input
  /\ todo' = [todo EXCEPT ![w] = push]
  /\ lone' = (push = SleepPush /\ Quiet)
  /\ UNCHANGED <<session, merger, handlers, last, pause, reports, told, raced>>

ListenerPush(l) == session[l] # "off" /\ \E push \in AlarmPushes : Receive(l, push)
WebhookPush(p) == \E push \in WebhookPushes : Receive(p, push)
ConnectionState == \E up \in BOOLEAN : Receive(Link, <<[op |-> "connection", value |-> up]>>)

(***************************************************************************)
(* Merging: the critical sections of AlarmMerger.mu.                        *)
(***************************************************************************)
Merged(m) == [m.alarm EXCEPT !.types = @ \cup m.basic \cup m.detail]
MergeInto(w, m) == merger' = [merger EXCEPT ![SourceOf(w)] = m]

\* Mutant of MergeAlarm: the alarm push is reported as it came.
MergeAlarmRaw(w) ==
  /\ At(w, "alarm")
  /\ MergeInto(w, [merger[SourceOf(w)] EXCEPT !.alarm = Next1(w).state])
  /\ Proceed(w, <<Report(Next1(w).state)>>)
  /\ UNCHANGED <<session, handlers, last, pause, inputs, reports, told, raced, lone>>

MergeAlarm(w) ==
  /\ At(w, "alarm")
  /\ LET m == [merger[SourceOf(w)] EXCEPT !.alarm = Next1(w).state] IN
       /\ MergeInto(w, m)
       /\ Proceed(w, <<Report(Merged(m))>>)
  /\ UNCHANGED <<session, handlers, last, pause, inputs, reports, told, raced, lone>>

\* A push that leaves the channel as it was is not reported.
MergeYolo(w) ==
  /\ ~Idle(w) /\ Next1(w).op \in {"basic", "detail"}
  /\ LET old == merger[SourceOf(w)]
         m == [old EXCEPT ![Next1(w).op] = Next1(w).types]
     IN /\ MergeInto(w, m)
        /\ Proceed(w, When(m # old, <<Report(Merged(m))>>))
  /\ UNCHANGED <<session, handlers, last, pause, inputs, reports, told, raced, lone>>

\* Mutant of Reset: only the alarm push is forgotten.
ResetAlarmOnly(w) ==
  /\ At(w, "reset")
  /\ MergeInto(w, [merger[Webhook] EXCEPT !.alarm = NoAlarm])
  /\ Proceed(w, <<>>)
  /\ UNCHANGED <<session, handlers, last, pause, inputs, reports, told, raced, lone>>

Reset(w) ==
  /\ At(w, "reset")
  /\ MergeInto(w, Forgotten)
  /\ Proceed(w, <<>>)
  /\ UNCHANGED <<session, handlers, last, pause, inputs, reports, told, raced, lone>>

(***************************************************************************)
(* Dispatch: the critical sections of events.mu.                            *)
(***************************************************************************)
Reported(w, s) ==
  [webhook |-> w \in Posts, visitor |-> s.visitor, event |-> EventOf(s),
   heard |-> handlers \cap {"motion", "doorbell"}]
Races(w) == raced \/ \E v \in Workers \ {w} : Undelivered(v)

\* Mutant of HandleAlarm: the states are kept only when motion is reported.
HandleAlarmForgets(w) ==
  /\ At(w, "report")
  /\ LET s == Next1(w).state
         ring == s.visitor /\ ~last.visitor
         moved == last.motion # {EventOf(s)}
     IN /\ Proceed(w, <<SetActive(EventOf(s).active)>>
             \o When(ring /\ "doorbell" \in handlers, <<Call("doorbell", TRUE)>>)
             \o When(moved /\ "motion" \in handlers, <<Call("motion", EventOf(s))>>))
        /\ last' = IF moved THEN [last EXCEPT !.visitor = s.visitor, !.motion = {EventOf(s)}]
                            ELSE last
        /\ reports' = Append(reports, Reported(w, s))
  /\ raced' = Races(w)
  /\ UNCHANGED <<session, merger, handlers, pause, inputs, told, lone>>

HandleAlarm(w) ==
  /\ At(w, "report")
  /\ LET s == Next1(w).state
         ring == s.visitor /\ ~last.visitor
         moved == last.motion # {EventOf(s)}
     IN /\ Proceed(w, <<SetActive(EventOf(s).active)>>
             \o When(ring /\ "doorbell" \in handlers, <<Call("doorbell", TRUE)>>)
             \o When(moved /\ "motion" \in handlers, <<Call("motion", EventOf(s))>>))
        /\ last' = [last EXCEPT !.visitor = s.visitor, !.motion = {EventOf(s)}]
        /\ reports' = Append(reports, Reported(w, s))
  /\ raced' = Races(w)
  /\ UNCHANGED <<session, merger, handlers, pause, inputs, told, lone>>

HandleSleep(w) ==
  /\ At(w, "flag")
  /\ LET v == Next1(w).value IN
       /\ Proceed(w, When(last.sleep # {v} /\ "sleep" \in handlers, <<Call("sleep", v)>>))
       /\ last' = [last EXCEPT !.sleep = {v}]
  /\ raced' = Races(w)
  /\ UNCHANGED <<session, merger, handlers, pause, inputs, reports, told, lone>>

\* Mutant of HandleConnection: the handler is called without a test for nil.
HandleConnectionNil ==
  /\ At(Link, "connection")
  /\ LET v == Next1(Link).value IN
       /\ Proceed(Link, <<Call("connection", v)>>)
       /\ last' = [last EXCEPT !.connection = {v}]
  /\ raced' = Races(Link)
  /\ UNCHANGED <<session, merger, handlers, pause, inputs, reports, told, lone>>

HandleConnection ==
  /\ At(Link, "connection")
  /\ LET v == Next1(Link).value IN
       /\ Proceed(Link, When("connection" \in handlers, <<Call("connection", v)>>))
       /\ last' = [last EXCEPT !.connection = {v}]
  /\ raced' = Races(Link)
  /\ UNCHANGED <<session, merger, handlers, pause, inputs, reports, told, lone>>

\* Mutant of Register: a connection state reached before is not replayed.
RegisterNoReplay(h) ==
  /\ Idle(Api) /\ h \notin handlers
  /\ handlers' = handlers \cup {h}
  /\ UNCHANGED <<session, todo, merger, last, pause, inputs, reports, told, raced, lone>>

\* OnMotion, OnDoorbell, OnSleep, OnConnection; only the last replays its state.
Register(h) ==
  /\ Idle(Api) /\ h \notin handlers
  /\ handlers' = handlers \cup {h}
  /\ IF h = "connection" /\ last.connection # {}
       THEN \E v \in last.connection : todo' = [todo EXCEPT ![Api] = <<Call(h, v)>>]
       ELSE UNCHANGED todo
  /\ UNCHANGED <<session, merger, last, pause, inputs, reports, told, raced, lone>>

(***************************************************************************)
(* What follows outside the lock.                                           *)
(***************************************************************************)
PauseSetActive(w) ==
  /\ At(w, "setActive")
  /\ pause' = {Next1(w).value}
  /\ Proceed(w, <<>>)
  /\ UNCHANGED <<session, merger, handlers, last, inputs, reports, told, raced, lone>>

CallHandler(w) ==
  /\ At(w, "call")
  /\ told' = [told EXCEPT ![Next1(w).handler] = Append(@, Next1(w).value)]
  /\ Proceed(w, <<>>)
  /\ UNCHANGED <<session, merger, handlers, last, pause, inputs, reports, raced, lone>>

Session(l) == StartListener(l) \/ ListenerExit(l) \/ ListenerPush(l)
Work(w) ==
  \/ MergeAlarm(w) \/ MergeYolo(w) \/ Reset(w)
  \/ HandleAlarm(w) \/ HandleSleep(w) \/ PauseSetActive(w) \/ CallHandler(w)

Next ==
  \/ \E l \in Listeners : Session(l)
  \/ \E p \in Posts : WebhookPush(p)
  \/ ConnectionState \/ HandleConnection
  \/ \E h \in Handlers : Register(h)
  \/ \E w \in Workers : Work(w)

Spec == Init /\ [][Next]_vars

(***************************************************************************)
(* Properties.                                                              *)
(***************************************************************************)
Ops == {"alarm", "basic", "detail", "report", "flag", "connection", "setActive", "call", "reset"}
Merger == [alarm : AlarmState, basic : SUBSET Types, detail : SUBSET Types]

\* Every variable has its type: nobody has more steps left than one push gives,
\* the states the dispatcher remembers are single values or nil, and only
\* registered handlers are called.
TypeOK ==
  /\ session \in [Listeners -> {"off", "on", "ending"}]
  /\ \A w \in Workers : Len(todo[w]) <= 3 /\ \A i \in DOMAIN todo[w] :
       todo[w][i].op \in Ops /\ (todo[w][i].op = "call" => todo[w][i].handler \in handlers)
  /\ merger \in [Listeners \cup {Webhook} -> Merger]
  /\ handlers \subseteq Handlers
  /\ last.visitor \in BOOLEAN /\ last.motion \subseteq MotionEvent
  /\ Cardinality(last.motion) <= 1
  /\ \A x \in {last.sleep, last.connection, pause} : Cardinality(x) <= 1
  /\ last.sleep \cup last.connection \cup pause \subseteq BOOLEAN
  /\ inputs \in 0..MaxInputs
  /\ \A h \in HandlerNames : told[h] # <<>> => h \in handlers

\* Calls made and calls still to be made. No goroutine has the same one twice.
IsCall(s, h, v) == s.op = "call" /\ s.handler = h /\ s.value = v
Pending(w, h, v) == \E i \in DOMAIN todo[w] : IsCall(todo[w][i], h, v)
Calls(h, v) ==
  Cardinality({i \in DOMAIN told[h] : told[h][i] = v})
    + Cardinality({w \in Workers : Pending(w, h, v)})

\* The reports that change the motion state, or begin a press, while the
\* program listens; the first changes, the second, ...
Changes == {i \in DOMAIN reports : "motion" \in reports[i].heard
              /\ (i > 1 => reports[i - 1].event # reports[i].event)}
Presses == {i \in DOMAIN reports : "doorbell" \in reports[i].heard /\ reports[i].visitor
              /\ (i > 1 => ~reports[i - 1].visitor)}
IsChange(i, c) == Cardinality({d \in Changes : d <= c}) = i
LastTold(h) == {told[h][i] : i \in {Len(told[h])} \ {0}}

\* However the listeners of two connections and concurrent POSTs interleave,
\* each change of the motion state and each rising edge of the doorbell, in the
\* order events.mu gave them, causes exactly one call of its handler: edge
\* detection and deduplication lose and repeat nothing (handleAlarm).
EdgesToldOnce ==
  /\ \A e \in MotionEvent :
       Calls("motion", e) = Cardinality({i \in Changes : reports[i].event = e})
  /\ Calls("doorbell", TRUE) = Cardinality(Presses)

\* Only a push decided while an older one is still being delivered disturbs the
\* order: otherwise the motion handler is told the changes in their order, and
\* when all is quiet the pause logic follows the last report and the connection
\* handler was last told the connection's state, reached before its
\* registration or after it (setActive and the calls follow events.mu's unlock).
SettlesUnlessRaced ==
  ~raced =>
    /\ \A i \in DOMAIN told["motion"] :
         \E c \in Changes : IsChange(i, c) /\ told["motion"][i] = reports[c].event
    /\ Quiet =>
         /\ pause = {e.active : e \in last.motion}
         /\ "connection" \in handlers => last.connection = LastTold("connection")

\* Unless raced, what the program was told last of the webhook is the union of
\* the alarm push and both YOLO World pushes, pushes that changed nothing and
\* were not reported included (AlarmMerger).
WebhookStateShown ==
  ~raced /\ Quiet /\ reports # <<>> /\ reports[Len(reports)].webhook =>
    LET m == merger[Webhook] IN
      last.motion = {EventOf(Merged(m))} /\ last.visitor = m.alarm.visitor

\* A battery camera pushes no end of its events.  Once its sleep event has been
\* handled, with no other push beside it, nothing of them is left: the doorbell
\* is armed, motion is over for the program and for the pause logic, and the
\* webhook's merger adds nothing to the next push (handleWebhookPush: "sleep").
\* A sleep state in XML (cmd 145) is no such event, in the code as here.
SleepEndsEvents ==
  lone /\ Quiet =>
    /\ ~last.visitor
    /\ last.motion = {EventOf(NoAlarm)} /\ pause = {FALSE}
    /\ merger[Webhook] = Forgotten
    /\ last.sleep = {TRUE}
=============================================================================
