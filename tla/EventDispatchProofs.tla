------------------------- MODULE EventDispatchProofs -------------------------
(***************************************************************************)
(* Theorems about EventDispatch, for any listeners, POSTs, AI types, alarm *)
(* states, handlers and number of inputs.                                  *)
(***************************************************************************)
EXTENDS EventDispatch, SequenceTheorems, FiniteSetTheorems, TLAPS

\* The variables are functions and records of the right keys.
Keys == [visitor : {last.visitor}, motion : {last.motion}, sleep : {last.sleep},
         connection : {last.connection}]
ShapeInv ==
  /\ todo = [w \in Workers |-> todo[w]]
  /\ merger = [m \in Listeners \cup {Webhook} |-> merger[m]]
  /\ last \in Keys

\* The program's goroutine only replays a connection state.
ApiInv == todo[Api] = <<>> \/ \E v : todo[Api] = <<Call("connection", v)>>

\* How far the goroutine of a sleep push is, and what it has done by then.
Clear == [op |-> "reset"]
Rest == EventOf(NoAlarm)
Forgot == last.sleep = {TRUE} /\ merger[Webhook] = Forgotten
Over == Forgot /\ last.visitor = FALSE /\ last.motion = {Rest}
Stage(s) ==
  \/ s = SleepPush
  \/ last.sleep = {TRUE} /\ s = <<Call("sleep", TRUE), Clear, Report(NoAlarm)>>
  \/ last.sleep = {TRUE} /\ s = <<Clear, Report(NoAlarm)>>
  \/ Forgot /\ s = <<Report(NoAlarm)>>
  \/ Over /\ s = <<SetActive(FALSE), Call("motion", Rest)>>
  \/ Over /\ s = <<SetActive(FALSE)>>
  \/ Over /\ pause = {FALSE} /\ s = <<Call("motion", Rest)>>
  \/ Over /\ pause = {FALSE} /\ s = <<>>

Alone(p) == \A w \in Workers : w \notin {p, Api} => todo[w] = <<>>
SleepInv == lone => \E p \in Posts : Alone(p) /\ Stage(todo[p])

IInv == ShapeInv /\ ApiInv /\ SleepInv

-----------------------------------------------------------------------------
(***************************************************************************)
(* Lists of steps.                                                         *)
(***************************************************************************)
LEMMA ListOne ==
  ASSUME NEW a
  PROVE  <<a>> # <<>> /\ Head(<<a>>) = a /\ Tail(<<a>>) = <<>>
  OBVIOUS

LEMMA ListTwo ==
  ASSUME NEW a, NEW b
  PROVE  <<a, b>> # <<>> /\ Head(<<a, b>>) = a /\ Tail(<<a, b>>) = <<b>>
  OBVIOUS

LEMMA Joins ==
  ASSUME NEW a, NEW b, NEW c
  PROVE  /\ <<>> \o <<>> = <<>> /\ <<a>> \o <<>> = <<a>> /\ <<>> \o <<b>> = <<b>>
         /\ <<a>> \o <<b>> = <<a, b>> /\ <<>> \o <<b, c>> = <<b, c>>
         /\ <<a, b>> \o <<>> = <<a, b>>
  <1>. DEFINE S == {a, b, c}
  <1>1. /\ <<>> \in Seq(S) /\ <<a>> \in Seq(S) /\ <<b>> \in Seq(S) /\ <<b, c>> \in Seq(S)
        /\ <<a, b>> \in Seq(S)
    OBVIOUS
  <1>. HIDE DEF S
  <1>2. \A s \in Seq(S) : <<>> \o s = s /\ s \o <<>> = s
    BY ConcatEmptySeq
  <1>3. <<a>> \o <<b>> = <<a, b>>
    <2>1. /\ <<a>> \o <<b>> \in Seq(S) /\ Len(<<a>> \o <<b>>) = 2
          /\ (<<a>> \o <<b>>)[1] = a /\ (<<a>> \o <<b>>)[2] = b
      BY <1>1, ConcatProperties
    <2>2. Len(<<a, b>>) = 2 /\ <<a, b>>[1] = a /\ <<a, b>>[2] = b
      OBVIOUS
    <2>3. \A i \in 1..2 : (<<a>> \o <<b>>)[i] = <<a, b>>[i]
      BY <2>1, <2>2
    <2>. QED
      BY <1>1, <2>1, <2>2, <2>3, SeqEqual
  <1>. QED
    BY <1>1, <1>2, <1>3

LEMMA JoinThree ==
  ASSUME NEW a, NEW b, NEW c PROVE <<a>> \o <<b, c>> = <<a, b, c>>
  <1>. DEFINE S == {a, b, c}
  <1>1. <<a>> \in Seq(S) /\ <<b, c>> \in Seq(S) /\ <<a, b, c>> \in Seq(S)
    OBVIOUS
  <1>. HIDE DEF S
  <1>2. /\ <<a>> \o <<b, c>> \in Seq(S) /\ Len(<<a>> \o <<b, c>>) = 3
        /\ (<<a>> \o <<b, c>>)[1] = a /\ (<<a>> \o <<b, c>>)[2] = b
        /\ (<<a>> \o <<b, c>>)[3] = c
    BY <1>1, ConcatProperties
  <1>3. Len(<<a, b, c>>) = 3 /\ <<a, b, c>>[1] = a /\ <<a, b, c>>[2] = b /\ <<a, b, c>>[3] = c
    OBVIOUS
  <1>4. \A i \in 1..3 : (<<a>> \o <<b, c>>)[i] = <<a, b, c>>[i]
    BY <1>2, <1>3
  <1>. QED
    BY <1>1, <1>2, <1>3, <1>4, SeqEqual

LEMMA JoinTwo ==
  ASSUME NEW a, NEW b PROVE (<<a>> \o <<>> \o <<b>>) \o <<>> = <<a, b>>
  <1>1. <<a>> \o <<>> = <<a>> /\ <<a>> \o <<b>> = <<a, b>> /\ <<a, b>> \o <<>> = <<a, b>>
    BY Joins
  <1>. QED
    BY <1>1

\* A sleep push is no push of a listener, and no connection state.
LEMMA SleepIsItself ==
  /\ SleepPush \notin AlarmPushes
  /\ \A up : SleepPush # <<[op |-> "connection", value |-> up]>>
  <1>1. \A a : SleepPush # <<a>>
    BY DEF SleepPush
  <1>. QED
    BY <1>1 DEF AlarmPushes

-----------------------------------------------------------------------------
LEMMA InitInv == Init => IInv
  <1>. SUFFICES ASSUME Init PROVE IInv
    OBVIOUS
  <1>1. ShapeInv
    BY DEF Init, ShapeInv, Keys
  <1>2. ApiInv
    BY DEF Init, ApiInv, Workers
  <1>. QED
    BY <1>1, <1>2 DEF Init, IInv, SleepInv

\* A push or a connection state arrives; only a sleep push is one handled alone.
LEMMA ReceiveInv ==
  ASSUME IInv, NEW w \in Workers, w # Api, NEW push, Receive(w, push),
         push = SleepPush => w \in Posts
  PROVE  IInv'
  <1>1. /\ todo' = [todo EXCEPT ![w] = push] /\ lone' = (push = SleepPush /\ Quiet)
        /\ UNCHANGED <<merger, last, pause>>
    BY DEF Receive
  <1>2. ShapeInv'
    BY <1>1 DEF IInv, ShapeInv, Keys
  <1>3. todo'[w] = push /\ \A v \in Workers : v # w => todo'[v] = todo[v]
    BY <1>1 DEF IInv, ShapeInv
  <1>4. ApiInv'
    BY <1>3 DEF IInv, ApiInv, Workers
  <1>5. SleepInv'
    <2>. SUFFICES ASSUME lone' PROVE \E p \in Posts : Alone(p)' /\ Stage(todo[p])'
      BY DEF SleepInv
    <2>1. w \in Posts /\ push = SleepPush /\ \A v \in Workers : todo[v] = <<>>
      BY <1>1 DEF Quiet, Idle
    <2>2. Alone(w)'
      BY <1>3, <2>1 DEF Alone
    <2>3. Stage(todo[w])'
      BY <1>3, <2>1 DEF Stage
    <2>. QED
      BY <2>1, <2>2, <2>3
  <1>. QED
    BY <1>2, <1>4, <1>5 DEF IInv

LEMMA SessionInv ==
  ASSUME IInv, NEW l \in Listeners, StartListener(l) \/ ListenerExit(l)
  PROVE  IInv'
  <1>1. UNCHANGED <<todo, last, pause, lone>>
    BY DEF StartListener, ListenerExit
  <1>2. merger'[Webhook] = merger[Webhook] /\ merger' = [m \in Listeners \cup {Webhook} |-> merger'[m]]
    BY WorkersAssumption DEF StartListener, ListenerExit, IInv, ShapeInv
  <1>. QED
    BY <1>1, <1>2 DEF IInv, ShapeInv, Keys, ApiInv, SleepInv, Alone, Stage, Over, Forgot

\* The replay of the connection state meets no push.
LEMMA RegisterInv ==
  ASSUME IInv, NEW h, Register(h)
  PROVE  IInv'
  <1>1. /\ UNCHANGED <<merger, last, pause, lone>>
        /\ \/ UNCHANGED todo
           \/ \E v : todo' = [todo EXCEPT ![Api] = <<Call("connection", v)>>]
    BY DEF Register
  <1>2. /\ \A w \in Workers : w # Api => todo'[w] = todo[w]
        /\ todo' = [w \in Workers |-> todo'[w]]
        /\ ApiInv'
    BY <1>1 DEF IInv, ShapeInv, ApiInv, Workers
  <1>3. SleepInv'
    <2>. SUFFICES ASSUME lone' PROVE \E p \in Posts : Alone(p)' /\ Stage(todo[p])'
      BY DEF SleepInv
    <2>1. PICK p \in Posts : Alone(p) /\ Stage(todo[p])
      BY <1>1 DEF IInv, SleepInv
    <2>2. todo'[p] = todo[p] /\ Alone(p)'
      BY <1>2, <2>1, WorkersAssumption DEF Alone, Workers
    <2>. QED
      BY <1>1, <2>1, <2>2 DEF Stage, Over, Forgot
  <1>. QED
    BY <1>1, <1>2, <1>3 DEF IInv, ShapeInv, Keys

\* A connection state is handled while no sleep push is handled alone.
LEMMA ConnectionInv ==
  ASSUME IInv, HandleConnection
  PROVE  IInv'
  <1>1. /\ todo[Link] # <<>> /\ lone' = lone /\ UNCHANGED <<merger, pause>>
        /\ \E s : todo' = [todo EXCEPT ![Link] = s]
        /\ \E v : last' = [last EXCEPT !.connection = v]
    BY DEF HandleConnection, At, Idle, Proceed
  <1>2. ~lone
    BY <1>1, WorkersAssumption DEF IInv, SleepInv, Alone, Workers, Link, Api
  <1>. QED
    BY <1>1, <1>2 DEF IInv, ShapeInv, Keys, ApiInv, SleepInv, Workers, Link, Api

-----------------------------------------------------------------------------
(***************************************************************************)
(* A goroutine takes its next step.                                        *)
(***************************************************************************)
\* What a step of w may touch.
LEMMA WorkParts ==
  ASSUME ShapeInv, NEW w \in Workers, Work(w)
  PROVE  /\ todo[w] # <<>> /\ lone' = lone /\ ShapeInv'
         /\ \A v \in Workers : v # w => todo'[v] = todo[v]
  <1>1. todo[w] # <<>> /\ lone' = lone
    BY DEF Work, MergeAlarm, MergeYolo, Reset, HandleAlarm, HandleSleep, PauseSetActive, CallHandler,
         At, Idle
  <1>2. \E s : todo' = [todo EXCEPT ![w] = s]
    BY DEF Work, MergeAlarm, MergeYolo, Reset, HandleAlarm, HandleSleep, PauseSetActive, CallHandler,
         Proceed
  <1>3. merger' = merger \/ \E m : merger' = [merger EXCEPT ![SourceOf(w)] = m]
    BY DEF Work, MergeAlarm, MergeYolo, Reset, HandleAlarm, HandleSleep, PauseSetActive, CallHandler,
         MergeInto
  <1>4. \/ last' = last \/ \E v : last' = [last EXCEPT !.sleep = v]
        \/ \E v, m : last' = [last EXCEPT !.visitor = v, !.motion = m]
    BY DEF Work, MergeAlarm, MergeYolo, Reset, HandleAlarm, HandleSleep, PauseSetActive, CallHandler
  <1>5. last' \in Keys'
    BY <1>4 DEF ShapeInv, Keys
  <1>. QED
    BY <1>1, <1>2, <1>3, <1>5 DEF ShapeInv

\* The program's goroutine has calls only.
LEMMA ApiStep ==
  ASSUME IInv, Work(Api)
  PROVE  todo'[Api] = <<>> /\ UNCHANGED <<merger, last, pause, lone>>
  <1>1. PICK v : todo[Api] = <<Call("connection", v)>>
    BY WorkParts DEF IInv, ApiInv, Workers
  <1>2. Head(todo[Api]) = Call("connection", v) /\ Tail(todo[Api]) = <<>>
    BY <1>1, ListOne
  <1>3. CallHandler(Api)
    BY <1>2 DEF Work, MergeAlarm, MergeYolo, Reset, HandleAlarm, HandleSleep, PauseSetActive, At, Next1, Call
  <1>4. todo' = [todo EXCEPT ![Api] = <<>> \o <<>>]
    BY <1>2, <1>3 DEF CallHandler, Proceed
  <1>. QED
    BY <1>3, <1>4, Joins DEF CallHandler, IInv, ShapeInv, Workers

\* The first step of a list decides which action can take it.
LEMMA WorkOp ==
  ASSUME ShapeInv, NEW w \in Workers, Work(w)
  PROVE  /\ Next1(w).op = "flag" => HandleSleep(w) /\ todo'[w] =
              When(last.sleep # {Next1(w).value} /\ "sleep" \in handlers, <<Call("sleep", Next1(w).value)>>)
                \o Tail(todo[w])
         /\ Next1(w).op = "reset" => Reset(w) /\ todo'[w] = <<>> \o Tail(todo[w])
         /\ Next1(w).op = "report" => HandleAlarm(w)
         /\ Next1(w).op = "setActive" => PauseSetActive(w) /\ todo'[w] = <<>> \o Tail(todo[w])
         /\ Next1(w).op = "call" => CallHandler(w) /\ todo'[w] = <<>> \o Tail(todo[w])
  <1>. todo = [v \in Workers |-> todo[v]]
    BY DEF ShapeInv
  <1>1. CASE Next1(w).op = "flag"
    <2>1. HandleSleep(w)
      BY <1>1 DEF Work, MergeAlarm, MergeYolo, Reset, HandleAlarm, PauseSetActive, CallHandler, At
    <2>. QED
      BY <1>1, <2>1 DEF HandleSleep, Proceed
  <1>2. CASE Next1(w).op = "reset"
    <2>1. Reset(w)
      BY <1>2 DEF Work, MergeAlarm, MergeYolo, HandleSleep, HandleAlarm, PauseSetActive, CallHandler, At
    <2>. QED
      BY <1>2, <2>1 DEF Reset, Proceed
  <1>3. CASE Next1(w).op = "report"
    BY <1>3 DEF Work, MergeAlarm, MergeYolo, Reset, HandleSleep, PauseSetActive, CallHandler, At
  <1>4. CASE Next1(w).op = "setActive"
    <2>1. PauseSetActive(w)
      BY <1>4 DEF Work, MergeAlarm, MergeYolo, Reset, HandleSleep, HandleAlarm, CallHandler, At
    <2>. QED
      BY <1>4, <2>1 DEF PauseSetActive, Proceed
  <1>5. CASE Next1(w).op = "call"
    <2>1. CallHandler(w)
      BY <1>5 DEF Work, MergeAlarm, MergeYolo, Reset, HandleSleep, HandleAlarm, PauseSetActive, At
    <2>. QED
      BY <1>5, <2>1 DEF CallHandler, Proceed
  <1>. QED
    BY <1>1, <1>2, <1>3, <1>4, <1>5

\* Each step of a sleep push that is handled alone leads to the next stage.
LEMMA StageStep ==
  ASSUME IInv, NEW p \in Posts, Stage(todo[p]), Work(p)
  PROVE  Stage(todo[p])'
  <1>. DEFINE s == todo[p]
  <1>. p \in Workers /\ p # Webhook /\ p \notin Listeners
    BY WorkersAssumption DEF Workers
  <1>. /\ todo = [v \in Workers |-> todo[v]]
       /\ merger = [m \in Listeners \cup {Webhook} |-> merger[m]] /\ last \in Keys
       /\ ShapeInv
    BY DEF IInv, ShapeInv
  <1>. s # <<>>
    BY WorkParts DEF IInv
  <1>1. CASE s = SleepPush
    <2>1. Next1(p) = Flag(TRUE) /\ Tail(s) = <<Clear, Report(NoAlarm)>>
      <3>1. s = <<Flag(TRUE), Clear, Report(NoAlarm)>>
        BY <1>1 DEF SleepPush, Clear
      <3>2. /\ Head(<<Flag(TRUE), Clear, Report(NoAlarm)>>) = Flag(TRUE)
            /\ Tail(<<Flag(TRUE), Clear, Report(NoAlarm)>>) = <<Clear, Report(NoAlarm)>>
        BY ONLY TRUE
      <3>. QED
        BY ONLY <3>1, <3>2, Zenon DEF Next1
    <2>2. /\ HandleSleep(p)
          /\ todo'[p] = When(last.sleep # {TRUE} /\ "sleep" \in handlers, <<Call("sleep", TRUE)>>)
                         \o <<Clear, Report(NoAlarm)>>
      <3>1. Next1(p).op = "flag" /\ Next1(p).value = TRUE
        BY <2>1 DEF Flag
      <3>. QED
        BY <2>1, <3>1, WorkOp
    <2>3. todo'[p] = <<Clear, Report(NoAlarm)>> \/ todo'[p] = <<Call("sleep", TRUE), Clear, Report(NoAlarm)>>
      <3>1. CASE last.sleep # {TRUE} /\ "sleep" \in handlers
        <4>1. <<Call("sleep", TRUE)>> \o <<Clear, Report(NoAlarm)>> = <<Call("sleep", TRUE), Clear, Report(NoAlarm)>>
          BY ONLY JoinThree, Zenon
        <4>. QED
          BY ONLY <2>2, <3>1, <4>1, Zenon DEF When
      <3>2. CASE ~(last.sleep # {TRUE} /\ "sleep" \in handlers)
        BY <2>2, <3>2, Joins DEF When
      <3>. QED
        BY <3>1, <3>2
    <2>4. last'.sleep = {TRUE}
      <3>1. Next1(p).value = TRUE
        BY <2>1 DEF Flag
      <3>. QED
        BY <2>2, <3>1 DEF HandleSleep, Keys
    <2>. QED
      BY <2>3, <2>4 DEF Stage
  <1>2. CASE last.sleep = {TRUE} /\ s = <<Call("sleep", TRUE), Clear, Report(NoAlarm)>>
    <2>1. Next1(p) = Call("sleep", TRUE) /\ Tail(s) = <<Clear, Report(NoAlarm)>>
      <3>1. /\ Head(<<Call("sleep", TRUE), Clear, Report(NoAlarm)>>) = Call("sleep", TRUE)
            /\ Tail(<<Call("sleep", TRUE), Clear, Report(NoAlarm)>>) = <<Clear, Report(NoAlarm)>>
        BY ONLY TRUE
      <3>. QED
        BY ONLY <1>2, <3>1, Zenon DEF Next1
    <2>2. CallHandler(p) /\ todo'[p] = <<>> \o <<Clear, Report(NoAlarm)>>
      <3>1. Next1(p).op = "call"
        BY <2>1 DEF Call
      <3>. QED
        BY <2>1, <3>1, WorkOp
    <2>3. todo'[p] = <<Clear, Report(NoAlarm)>> /\ last' = last
      BY <2>2, Joins DEF CallHandler
    <2>. QED
      BY <1>2, <2>3 DEF Stage
  <1>3. CASE last.sleep = {TRUE} /\ s = <<Clear, Report(NoAlarm)>>
    <2>1. Next1(p) = Clear /\ Tail(s) = <<Report(NoAlarm)>>
      BY ONLY <1>3, ListTwo, Zenon DEF Next1
    <2>2. Reset(p) /\ todo'[p] = <<>> \o <<Report(NoAlarm)>>
      <3>1. Next1(p).op = "reset"
        BY <2>1 DEF Clear
      <3>. QED
        BY <2>1, <3>1, WorkOp
    <2>3. todo'[p] = <<Report(NoAlarm)>> /\ last' = last
      BY <2>2, Joins DEF Reset
    <2>4. merger'[Webhook] = Forgotten
      BY <2>2 DEF Reset, MergeInto, SourceOf
    <2>. QED
      BY <1>3, <2>3, <2>4 DEF Stage, Forgot
  <1>4. CASE Forgot /\ s = <<Report(NoAlarm)>>
    <2>1. Next1(p) = Report(NoAlarm) /\ Tail(s) = <<>>
      BY ONLY <1>4, ListOne, Zenon DEF Next1
    <2>2. HandleAlarm(p) /\ Next1(p).state = NoAlarm
      <3>1. Next1(p).op = "report" /\ Next1(p).state = NoAlarm
        BY <2>1 DEF Report
      <3>. QED
        BY <3>1, WorkOp
    <2>3. NoAlarm.visitor = FALSE /\ EventOf(NoAlarm).active = FALSE
      BY DEF NoAlarm, EventOf
    <2>4. /\ todo'[p] = (<<SetActive(FALSE)>> \o <<>>
              \o When(last.motion # {Rest} /\ "motion" \in handlers, <<Call("motion", Rest)>>)) \o <<>>
          /\ last' = [last EXCEPT !.visitor = FALSE, !.motion = {Rest}]
          /\ UNCHANGED merger
      BY <2>1, <2>2, <2>3 DEF HandleAlarm, Proceed, When, Rest
    <2>5. todo'[p] = <<SetActive(FALSE)>> \/ todo'[p] = <<SetActive(FALSE), Call("motion", Rest)>>
      <3>1. CASE last.motion # {Rest} /\ "motion" \in handlers
        <4>1. (<<SetActive(FALSE)>> \o <<>> \o <<Call("motion", Rest)>>) \o <<>> = <<SetActive(FALSE), Call("motion", Rest)>>
          BY ONLY JoinTwo, Zenon
        <4>. QED
          BY ONLY <2>4, <3>1, <4>1, Zenon DEF When
      <3>2. CASE ~(last.motion # {Rest} /\ "motion" \in handlers)
        BY <2>4, <3>2, Joins DEF When
      <3>. QED
        BY <3>1, <3>2
    <2>6. Over'
      BY <1>4, <2>4 DEF Over, Forgot, Keys
    <2>. QED
      BY <2>5, <2>6 DEF Stage
  <1>5. CASE Over /\ s \in {<<SetActive(FALSE), Call("motion", Rest)>>, <<SetActive(FALSE)>>}
    <2>1. Next1(p) = SetActive(FALSE) /\ (Tail(s) = <<Call("motion", Rest)>> \/ Tail(s) = <<>>)
      <3>1. s = <<SetActive(FALSE), Call("motion", Rest)>> \/ s = <<SetActive(FALSE)>>
        BY <1>5
      <3>. QED
        <4>1. /\ Head(<<SetActive(FALSE), Call("motion", Rest)>>) = SetActive(FALSE)
              /\ Tail(<<SetActive(FALSE), Call("motion", Rest)>>) = <<Call("motion", Rest)>>
              /\ Head(<<SetActive(FALSE)>>) = SetActive(FALSE) /\ Tail(<<SetActive(FALSE)>>) = <<>>
          BY ONLY TRUE
        <4>. QED
          BY ONLY <3>1, <4>1, Zenon DEF Next1
    <2>2. PauseSetActive(p) /\ todo'[p] = <<>> \o Tail(s)
      <3>1. Next1(p).op = "setActive"
        BY <2>1 DEF SetActive
      <3>. QED
        BY <2>1, <3>1, WorkOp
    <2>3. todo'[p] \in {<<Call("motion", Rest)>>, <<>>}
      BY <2>1, <2>2, Joins
    <2>4. pause' = {FALSE} /\ UNCHANGED <<last, merger>>
      <3>1. Next1(p).value = FALSE
        BY <2>1 DEF SetActive
      <3>. QED
        BY <2>2, <3>1 DEF PauseSetActive
    <2>. QED
      BY <1>5, <2>3, <2>4 DEF Stage, Over, Forgot
  <1>6. CASE Over /\ pause = {FALSE} /\ s = <<Call("motion", Rest)>>
    <2>1. Next1(p) = Call("motion", Rest) /\ Tail(s) = <<>>
      BY ONLY <1>6, ListOne, Zenon DEF Next1
    <2>2. CallHandler(p) /\ todo'[p] = <<>> \o <<>>
      <3>1. Next1(p).op = "call"
        BY <2>1 DEF Call
      <3>. QED
        BY <2>1, <3>1, WorkOp
    <2>3. todo'[p] = <<>> /\ UNCHANGED <<last, merger, pause>>
      BY <2>2, Joins DEF CallHandler
    <2>. QED
      BY <1>6, <2>3 DEF Stage, Over, Forgot
  <1>. QED
    BY <1>1, <1>2, <1>3, <1>4, <1>5, <1>6 DEF Stage

LEMMA WorkInv ==
  ASSUME IInv, NEW w \in Workers, Work(w)
  PROVE  IInv'
  <1>1. /\ todo[w] # <<>> /\ lone' = lone /\ ShapeInv'
        /\ \A v \in Workers : v # w => todo'[v] = todo[v]
    BY WorkParts DEF IInv
  <1>2. ApiInv'
    <2>1. CASE w = Api
      BY <2>1, ApiStep DEF ApiInv
    <2>2. CASE w # Api
      BY <1>1, <2>2 DEF IInv, ApiInv, Workers
    <2>. QED
      BY <2>1, <2>2
  <1>3. SleepInv'
    <2>. SUFFICES ASSUME lone' PROVE \E p \in Posts : Alone(p)' /\ Stage(todo[p])'
      BY DEF SleepInv
    <2>1. PICK p \in Posts : Alone(p) /\ Stage(todo[p])
      BY <1>1 DEF IInv, SleepInv
    <2>2. p \in Workers /\ p # Api /\ w \in {p, Api}
      BY <1>1, <2>1, WorkersAssumption DEF Alone, Workers
    <2>3. Alone(p)'
      BY <1>1, <2>1, <2>2 DEF Alone
    <2>4. CASE w = p
      BY <2>1, <2>3, <2>4, StageStep
    <2>5. CASE w = Api
      <3>1. todo'[p] = todo[p] /\ UNCHANGED <<merger, last, pause>>
        BY <1>1, <2>2, <2>5, ApiStep
      <3>. QED
        BY <2>1, <2>3, <3>1 DEF Stage, Over, Forgot
    <2>. QED
      BY <2>2, <2>4, <2>5
  <1>. QED
    BY <1>1, <1>2, <1>3 DEF IInv

LEMMA NextInv == IInv /\ [Next]_vars => IInv'
  <1>. SUFFICES ASSUME IInv, [Next]_vars PROVE IInv'
    OBVIOUS
  <1>1. ASSUME NEW l \in Listeners, Session(l) PROVE IInv'
    <2>1. CASE StartListener(l) \/ ListenerExit(l)
      BY <2>1, SessionInv
    <2>2. ASSUME NEW push \in AlarmPushes, Receive(l, push) PROVE IInv'
      BY <2>2, ReceiveInv, SleepIsItself, WorkersAssumption DEF Workers
    <2>. QED
      BY <1>1, <2>1, <2>2 DEF Session, ListenerPush
  <1>2. ASSUME NEW p \in Posts, WebhookPush(p) PROVE IInv'
    BY <1>2, ReceiveInv, WorkersAssumption DEF Workers, WebhookPush
  <1>3. CASE ConnectionState
    BY <1>3, ReceiveInv, SleepIsItself DEF Workers, ConnectionState, Link, Api
  <1>4. CASE HandleConnection
    BY <1>4, ConnectionInv
  <1>5. ASSUME NEW h \in Handlers, Register(h) PROVE IInv'
    BY <1>5, RegisterInv
  <1>6. ASSUME NEW w \in Workers, Work(w) PROVE IInv'
    BY <1>6, WorkInv
  <1>7. CASE UNCHANGED vars
    BY <1>7 DEF vars, IInv, ShapeInv, Keys, ApiInv, SleepInv, Alone, Stage, Over, Forgot
  <1>. QED
    BY <1>1, <1>2, <1>3, <1>4, <1>5, <1>6, <1>7 DEF Next

\* handleWebhookPush, "sleep": for any cameras, handlers and interleavings, once
\* the sleep push of a battery camera was handled with no other push beside it,
\* nothing is left of the events before it.
THEOREM SleepEndsThem == Spec => []SleepEndsEvents
  <1>1. IInv => SleepEndsEvents
    <2>. SUFFICES ASSUME IInv, lone, Quiet
         PROVE  /\ ~last.visitor /\ last.motion = {Rest} /\ pause = {FALSE}
                /\ merger[Webhook] = Forgotten /\ last.sleep = {TRUE}
      BY DEF SleepEndsEvents, Rest
    <2>1. PICK p \in Posts : Stage(todo[p]) /\ todo[p] = <<>>
      BY DEF IInv, SleepInv, Quiet, Idle, Workers
    <2>2. \A a, b, c : <<a>> # <<>> /\ <<a, b>> # <<>> /\ <<a, b, c>> # <<>>
      OBVIOUS
    <2>. QED
      BY <2>1, <2>2 DEF Stage, Over, Forgot, SleepPush
  <1>. QED
    BY <1>1, InitInv, NextInv, PTL DEF Spec

-----------------------------------------------------------------------------
(***************************************************************************)
(* The lists of steps a goroutine may have: at most three, in the order of *)
(* their rank, and nothing behind a push, a report or a connection state.  *)
(***************************************************************************)
In(x, s) == \E i \in 1..Len(s) : s[i] = x
Final == {"alarm", "basic", "detail", "report", "connection"}
Rank(x) ==
  IF x.op = "reset" THEN 2
  ELSE IF x.op \in {"flag", "connection"} THEN 1
  ELSE IF x.op # "call" THEN 3
  ELSE IF x.handler = "doorbell" THEN 4 ELSE IF x.handler = "motion" THEN 5 ELSE 1

StepOK(x) ==
  /\ x.op \in Ops
  /\ x.op \in {"alarm", "report"} => x.state \in AlarmState
  /\ x.op \in {"basic", "detail"} => x.types \subseteq Types
  /\ x.op \in {"flag", "connection", "setActive"} => x.value \in BOOLEAN
  /\ x.op = "call" =>
       /\ x.handler \in HandlerNames
       /\ x.value \in (IF x.handler = "motion" THEN MotionEvent ELSE BOOLEAN)

ListOK(s) ==
  /\ \E S : s \in Seq(S)
  /\ Len(s) <= 3
  /\ \A i \in 1..Len(s) :
       /\ StepOK(s[i])
       /\ s[i].op \in Final => i = Len(s)
       /\ s[i].op = "reset" => s[Len(s)] = Report(NoAlarm)
  /\ \A i, j \in 1..Len(s) : i < j => Rank(s[i]) < Rank(s[j])

LEMMA RankIsNat == \A x : Rank(x) \in Nat /\ Rank(x) >= 1 /\ Rank(x) <= 5
  BY DEF Rank

LEMMA EmptyList == ListOK(<<>>) /\ \A x : ~In(x, <<>>)
  BY DEF ListOK, In

LEMMA OneStep ==
  ASSUME NEW x, StepOK(x), x.op # "reset"
  PROVE  ListOK(<<x>>) /\ \A y : In(y, <<x>>) <=> y = x
  <1>. DEFINE t == <<x>>
  <1>1. t \in Seq({x}) /\ Len(t) = 1 /\ t[1] = x
    OBVIOUS
  <1>. HIDE DEF t
  <1>2. \A y : In(y, t) <=> y = x
    BY <1>1 DEF In
  <1>3. \A i \in 1..1 : i = 1
    OBVIOUS
  <1>4. ListOK(t)
    BY <1>1, <1>3 DEF ListOK
  <1>. QED
    BY <1>2, <1>4 DEF t

LEMMA WhenStep ==
  ASSUME NEW c, NEW x, StepOK(x), x.op # "reset"
  PROVE  ListOK(When(c, <<x>>)) /\ Len(When(c, <<x>>)) \in Nat /\ Len(When(c, <<x>>)) <= 1
         /\ \A y : In(y, When(c, <<x>>)) <=> c /\ y = x
  <1>1. Len(<<x>>) = 1 /\ Len(<<>>) = 0
    OBVIOUS
  <1>. QED
    BY <1>1, OneStep, EmptyList DEF When

\* Distinct ranks make the steps of a list distinct.
LEMMA TailList ==
  ASSUME NEW s, ListOK(s), s # <<>>
  PROVE  /\ ListOK(Tail(s)) /\ Len(Tail(s)) = Len(s) - 1 /\ Len(s) \in Nat \ {0} /\ Len(s) <= 3
         /\ Head(s) = s[1] /\ StepOK(s[1]) /\ In(s[1], s)
         /\ s[1].op \in Final => Len(s) = 1
         /\ \A y : In(y, Tail(s)) <=> In(y, s) /\ y # s[1]
         /\ \A y : In(y, Tail(s)) => Rank(s[1]) < Rank(y)
  <1>. PICK S : s \in Seq(S)
    BY DEF ListOK
  <1>. DEFINE t == Tail(s)
  <1>1. /\ Len(s) \in Nat \ {0} /\ Len(s) <= 3 /\ Head(s) = s[1] /\ t \in Seq(S) /\ Len(t) = Len(s) - 1
        /\ \A i \in 1..Len(t) : t[i] = s[i + 1]
    <2>1. Len(s) \in Nat /\ Len(s) # 0 /\ Len(s) <= 3
      BY EmptySeq DEF ListOK
    <2>2. t \in Seq(S) /\ Len(t) = Len(s) - 1 /\ \A i \in 1..Len(t) : t[i] = s[i + 1]
      BY HeadTailProperties
    <2>. QED
      BY <2>1, <2>2
  <1>. HIDE DEF t
  <1>2. \A i \in 1..Len(t) : i + 1 \in 1..Len(s) /\ t[i] = s[i + 1] /\ 1 < i + 1
    BY <1>1
  <1>3. /\ StepOK(s[1]) /\ In(s[1], s)
        /\ s[1].op \in Final => Len(s) = 1
        /\ \A y : In(y, t) => Rank(s[1]) < Rank(y) /\ In(y, s)
    BY <1>1, <1>2 DEF ListOK, In
  <1>4. \A y : In(y, t) <=> In(y, s) /\ y # s[1]
    <2>1. \A y : In(y, t) => y # s[1]
      BY <1>3, RankIsNat
    <2>2. \A i \in 1..Len(s) : i = 1 \/ (i - 1 \in 1..Len(t) /\ s[i] = t[i - 1])
      BY <1>1
    <2>3. ASSUME NEW y, In(y, s), y # s[1]
          PROVE  In(y, t)
      <3>1. PICK i \in 1..Len(s) : s[i] = y
        BY <2>3 DEF In
      <3>2. i - 1 \in 1..Len(t) /\ t[i - 1] = y
        BY <2>2, <2>3, <3>1
      <3>. QED
        BY <3>2 DEF In
    <2>4. \A y : In(y, t) => In(y, s)
      BY <1>3
    <2>. QED
      BY <2>1, <2>3, <2>4
  <1>5. ListOK(t)
    <2>1. ASSUME NEW i \in 1..Len(t)
          PROVE  /\ StepOK(t[i])
                 /\ t[i].op \in Final => i = Len(t)
                 /\ t[i].op = "reset" => t[Len(t)] = Report(NoAlarm)
      <3>1. t[Len(t)] = s[Len(s)]
        BY <1>1
      <3>. QED
        BY <1>1, <1>2, <3>1 DEF ListOK
    <2>2. \A i, j \in 1..Len(t) : i < j => Rank(t[i]) < Rank(t[j])
      BY <1>1, <1>2 DEF ListOK
    <2>. QED
      BY <1>1, <2>1, <2>2 DEF ListOK
  <1>. QED
    <2>1. Head(s) = s[1]
      BY <1>1
    <2>. QED
      BY <1>1, <1>3, <1>4, <1>5, <2>1 DEF t

LEMMA JoinLists ==
  ASSUME NEW a, NEW b, ListOK(a), ListOK(b), Len(a) + Len(b) <= 3,
         \A x, y : In(x, a) /\ In(y, b) => Rank(x) < Rank(y),
         b # <<>> => \A x : In(x, a) => x.op \notin Final /\ x.op # "reset"
  PROVE  /\ ListOK(a \o b) /\ Len(a \o b) = Len(a) + Len(b)
         /\ \A y : In(y, a \o b) <=> In(y, a) \/ In(y, b)
  <1>. PICK S : a \in Seq(S)
    BY DEF ListOK
  <1>. PICK T : b \in Seq(T)
    BY DEF ListOK
  <1>. DEFINE c == a \o b
  <1>1. a \in Seq(S \cup T) /\ b \in Seq(S \cup T)
    OBVIOUS
  <1>2. /\ c \in Seq(S \cup T) /\ Len(c) = Len(a) + Len(b) /\ Len(a) \in Nat /\ Len(b) \in Nat
        /\ \A i \in 1..Len(c) : c[i] = IF i <= Len(a) THEN a[i] ELSE b[i - Len(a)]
    BY <1>1, ConcatProperties
  <1>. HIDE DEF c
  <1>3. \A i \in 1..Len(c) :
          \/ i \in 1..Len(a) /\ c[i] = a[i]
          \/ i - Len(a) \in 1..Len(b) /\ c[i] = b[i - Len(a)] /\ i > Len(a)
    BY <1>2
  <1>4. (\A i \in 1..Len(a) : i \in 1..Len(c)) /\ (\A i \in 1..Len(b) : i + Len(a) \in 1..Len(c) /\ c[i + Len(a)] = b[i])
    <2>1. \A i \in 1..Len(a) : i \in 1..Len(c)
      BY <1>2
    <2>2. ASSUME NEW i \in 1..Len(b)
          PROVE  i + Len(a) \in 1..Len(c) /\ c[i + Len(a)] = b[i]
      <3>1. i + Len(a) \in 1..Len(c) /\ ~(i + Len(a) <= Len(a)) /\ (i + Len(a)) - Len(a) = i
        BY <1>2
      <3>. QED
        BY <1>2, <3>1
    <2>. QED
      BY <2>1, <2>2
  <1>5. \A y : In(y, c) <=> In(y, a) \/ In(y, b)
    <2>1. ASSUME NEW y, In(y, c) PROVE In(y, a) \/ In(y, b)
      BY <1>3, <2>1 DEF In
    <2>2. ASSUME NEW y, In(y, a) PROVE In(y, c)
      <3>1. PICK i \in 1..Len(a) : a[i] = y
        BY <2>2 DEF In
      <3>2. i \in 1..Len(c) /\ c[i] = a[i]
        BY <1>2
      <3>. QED
        BY <3>1, <3>2 DEF In
    <2>3. ASSUME NEW y, In(y, b) PROVE In(y, c)
      BY <1>4, <2>3 DEF In
    <2>. QED
      BY <2>1, <2>2, <2>3
  <1>6. CASE b = <<>>
    <2>1. c = a
      BY <1>6, ConcatEmptySeq DEF c
    <2>. QED
      BY <1>2, <1>5, <2>1 DEF c
  <1>7. CASE b # <<>>
    <2>1. Len(b) > 0 /\ c[Len(c)] = b[Len(b)]
      BY <1>2, <1>7, EmptySeq
    <2>2. \A i \in 1..Len(a) : In(a[i], a) /\ a[i].op \notin Final /\ a[i].op # "reset" /\ StepOK(a[i])
      BY <1>7 DEF In, ListOK
    <2>3. \A i \in 1..Len(b) : /\ In(b[i], b) /\ StepOK(b[i])
                               /\ b[i].op \in Final => i = Len(b)
                               /\ b[i].op = "reset" => b[Len(b)] = Report(NoAlarm)
      BY DEF In, ListOK
    <2>4. ASSUME NEW i \in 1..Len(c)
          PROVE  /\ StepOK(c[i])
                 /\ c[i].op \in Final => i = Len(c)
                 /\ c[i].op = "reset" => c[Len(c)] = Report(NoAlarm)
      <3>1. CASE i \in 1..Len(a) /\ c[i] = a[i]
        BY <2>2, <3>1
      <3>2. CASE i - Len(a) \in 1..Len(b) /\ c[i] = b[i - Len(a)]
        <4>1. i - Len(a) = Len(b) => i = Len(c)
          BY <1>2
        <4>2. /\ StepOK(b[i - Len(a)])
              /\ b[i - Len(a)].op \in Final => i - Len(a) = Len(b)
              /\ b[i - Len(a)].op = "reset" => b[Len(b)] = Report(NoAlarm)
          BY <2>3, <3>2
        <4>. QED
          BY <2>1, <3>2, <4>1, <4>2
      <3>. QED
        BY <1>3, <3>1, <3>2
    <2>5. ASSUME NEW i \in 1..Len(c), NEW j \in 1..Len(c), i < j
          PROVE  Rank(c[i]) < Rank(c[j])
      <3>1. CASE j \in 1..Len(a)
        <4>1. i \in 1..Len(a) /\ c[i] = a[i] /\ c[j] = a[j]
          BY <1>2, <2>5, <3>1
        <4>. QED
          BY <2>5, <3>1, <4>1 DEF ListOK
      <3>2. CASE i > Len(a)
        <4>1. /\ i - Len(a) \in 1..Len(b) /\ j - Len(a) \in 1..Len(b) /\ i - Len(a) < j - Len(a)
              /\ c[i] = b[i - Len(a)] /\ c[j] = b[j - Len(a)]
          BY <1>2, <2>5, <3>2
        <4>. QED
          BY <4>1 DEF ListOK
      <3>3. CASE i <= Len(a) /\ j > Len(a)
        <4>1. i \in 1..Len(a) /\ c[i] = a[i] /\ j - Len(a) \in 1..Len(b) /\ c[j] = b[j - Len(a)]
          BY <1>2, <3>3
        <4>2. In(a[i], a) /\ In(b[j - Len(a)], b)
          BY <2>2, <2>3, <4>1
        <4>. QED
          BY <4>1, <4>2
      <3>. QED
        BY <1>2, <3>1, <3>2, <3>3
    <2>. QED
      BY <1>2, <1>5, <2>4, <2>5 DEF ListOK, c
  <1>. QED
    BY <1>6, <1>7

-----------------------------------------------------------------------------
(***************************************************************************)
(* Types.                                                                   *)
(***************************************************************************)
Reports == [webhook : BOOLEAN, visitor : BOOLEAN, event : MotionEvent,
            heard : SUBSET {"motion", "doorbell"}]

\* Lists of steps; the goroutines of connection states and of the program only
\* handle connection states and call the program.
ListInv ==
  /\ \A w \in Workers : ListOK(todo[w])
  /\ \A w \in {Link, Api} : \A y : In(y, todo[w]) => y.op \in {"connection", "call"}
  /\ \A w \in Workers : \A y : In(y, todo[w]) /\ y.op = "call" => y.handler \in handlers

KindInv ==
  /\ session \in [Listeners -> {"off", "on", "ending"}]
  /\ merger \in [Listeners \cup {Webhook} -> Merger]
  /\ handlers \subseteq Handlers
  /\ last.visitor \in BOOLEAN
  /\ last.motion = {} \/ \E e \in MotionEvent : last.motion = {e}
  /\ \A x \in {last.sleep, last.connection, pause} : x = {} \/ \E b \in BOOLEAN : x = {b}
  /\ inputs \in 0..MaxInputs /\ raced \in BOOLEAN
  /\ reports \in Seq(Reports)

ToldInv ==
  /\ told = [h \in HandlerNames |-> told[h]]
  /\ told["motion"] \in Seq(MotionEvent)
  /\ \A h \in HandlerNames \ {"motion"} : told[h] \in Seq(BOOLEAN)
  /\ \A h \in HandlerNames : told[h] # <<>> => h \in handlers

BaseInv == ShapeInv /\ ListInv /\ KindInv /\ ToldInv

LEMMA AlarmStates ==
  /\ NoAlarm \in AlarmState /\ Forgotten \in Merger
  /\ \A m \in Merger : Merged(m) \in AlarmState
  /\ \A s \in AlarmState : EventOf(s) \in MotionEvent
  BY DEF NoAlarm, AlarmState, Forgotten, Merger, Merged, EventOf, MotionEvent

LEMMA StepNames ==
  /\ \A s \in AlarmState : /\ StepOK(Alarm(s)) /\ Alarm(s).op = "alarm" /\ Alarm(s).state = s
                           /\ StepOK(Report(s)) /\ Report(s).op = "report" /\ Report(s).state = s
  /\ \A b \in BOOLEAN : /\ StepOK(SetActive(b)) /\ SetActive(b).op = "setActive" /\ SetActive(b).value = b
                        /\ StepOK(Flag(b)) /\ Flag(b).op = "flag" /\ Flag(b).value = b
  /\ \A h \in HandlerNames : \A v :
       /\ Call(h, v).op = "call" /\ Call(h, v).handler = h /\ Call(h, v).value = v
       /\ v \in (IF h = "motion" THEN MotionEvent ELSE BOOLEAN) => StepOK(Call(h, v))
  /\ \A c \in {"basic", "detail"}, t \in SUBSET Types : StepOK(Yolo(c, t)) /\ Yolo(c, t).op = c
  BY DEF StepOK, Alarm, Report, SetActive, Flag, Call, Yolo, Ops

-----------------------------------------------------------------------------
\* w's next step is taken, and the steps of N come instead.
Turns(w, N) ==
  /\ todo[w] # <<>> /\ ListOK(todo'[w])
  /\ \A y : In(y, todo'[w]) <=> y \in N \/ (In(y, todo[w]) /\ y # Next1(w))
  /\ In(Next1(w), todo[w]) /\ StepOK(Next1(w))
  /\ \A v \in Workers \ {w} : todo'[v] = todo[v]

LEMMA ProceedTurns ==
  ASSUME ShapeInv, NEW w \in Workers, ListOK(todo[w]), todo[w] # <<>>,
         NEW new, Proceed(w, new), ListOK(new), NEW N, \A y : In(y, new) <=> y \in N,
         Len(new) + Len(todo[w]) <= 4,
         Len(todo[w]) > 1 => \A x \in N : /\ x.op \notin Final /\ x.op # "reset"
                                          /\ Rank(x) <= Rank(Next1(w))
  PROVE  Turns(w, N)
  <1>. DEFINE s == todo[w]
              t == Tail(todo[w])
  <1>1. /\ ListOK(t) /\ Len(t) = Len(s) - 1 /\ Len(s) \in Nat \ {0} /\ Len(s) <= 3
        /\ Next1(w) = s[1]
        /\ StepOK(s[1]) /\ In(s[1], s)
        /\ \A y : In(y, t) <=> In(y, s) /\ y # s[1]
        /\ \A y : In(y, t) => Rank(s[1]) < Rank(y)
    BY TailList DEF Next1
  <1>2. todo'[w] = new \o t /\ \A v \in Workers \ {w} : todo'[v] = todo[v]
    BY DEF Proceed, ShapeInv
  <1>3. Len(new) + Len(t) <= 3 /\ Len(new) \in Nat
    BY <1>1 DEF ListOK
  <1>4. t # <<>> => Len(s) > 1
    BY <1>1, EmptySeq DEF ListOK
  <1>5. ASSUME NEW x, NEW y, In(x, new), In(y, t) PROVE Rank(x) < Rank(y)
    <2>1. t # <<>>
      BY <1>5, EmptyList
    <2>2. Rank(x) <= Rank(s[1]) /\ Rank(s[1]) < Rank(y)
      BY <1>1, <1>4, <1>5, <2>1
    <2>. QED
      BY <2>2, RankIsNat
  <1>6. t # <<>> => \A x : In(x, new) => x.op \notin Final /\ x.op # "reset"
    BY <1>4
  <1>. HIDE DEF s, t
  <1>7. ListOK(new \o t) /\ \A y : In(y, new \o t) <=> In(y, new) \/ In(y, t)
    BY <1>1, <1>3, <1>5, <1>6, JoinLists
  <1>8. \A y : In(y, todo'[w]) <=> y \in N \/ (In(y, s) /\ y # s[1])
    BY <1>1, <1>2, <1>7
  <1>. QED
    BY <1>1, <1>2, <1>7, <1>8 DEF Turns, s

LEMMA MergersTyped ==
  ASSUME BaseInv, NEW w \in Workers
  PROVE  SourceOf(w) \in Listeners \cup {Webhook} /\ merger[SourceOf(w)] \in Merger
  BY DEF BaseInv, KindInv, SourceOf

\* A first step that ends its list is its only step.
LEMMA Alone1 ==
  ASSUME BaseInv, NEW w \in Workers, todo[w] # <<>>
  PROVE  /\ ListOK(todo[w]) /\ Len(todo[w]) \in Nat /\ Len(todo[w]) <= 3 /\ StepOK(Next1(w)) /\ In(Next1(w), todo[w])
         /\ Next1(w).op \in Final => Len(todo[w]) = 1
  <1>1. ListOK(todo[w])
    BY DEF BaseInv, ListInv
  <1>. QED
    BY <1>1, TailList DEF Next1

LEMMA MergeAlarmTurns ==
  ASSUME BaseInv, NEW w \in Workers, MergeAlarm(w)
  PROVE  LET m == [merger[SourceOf(w)] EXCEPT !.alarm = Next1(w).state] IN
           /\ m \in Merger /\ merger' = [merger EXCEPT ![SourceOf(w)] = m]
           /\ Turns(w, {Report(Merged(m))})
  <1>. DEFINE m == [merger[SourceOf(w)] EXCEPT !.alarm = Next1(w).state]
  <1>1. At(w, "alarm") /\ todo[w] # <<>> /\ merger' = [merger EXCEPT ![SourceOf(w)] = m]
        /\ Proceed(w, <<Report(Merged(m))>>)
    BY DEF MergeAlarm, MergeInto, At, Idle
  <1>2. Len(todo[w]) = 1 /\ Next1(w).state \in AlarmState
    BY <1>1, Alone1 DEF At, Final, StepOK
  <1>3. m \in Merger
    BY <1>2, MergersTyped DEF Merger
  <1>. HIDE DEF m
  <1>4. StepOK(Report(Merged(m))) /\ Report(Merged(m)).op # "reset"
    BY <1>3, AlarmStates, StepNames
  <1>5. /\ ListOK(<<Report(Merged(m))>>) /\ Len(<<Report(Merged(m))>>) = 1
        /\ \A y : In(y, <<Report(Merged(m))>>) <=> y \in {Report(Merged(m))}
    BY <1>4, OneStep
  <1>6. Turns(w, {Report(Merged(m))})
    <2>1. ShapeInv /\ ListOK(todo[w]) /\ ~(Len(todo[w]) > 1)
          /\ Len(<<Report(Merged(m))>>) + Len(todo[w]) <= 4
      BY <1>1, <1>2, <1>5, Alone1 DEF BaseInv
    <2>. QED
      BY <1>1, <1>5, <2>1, ProceedTurns
  <1>. QED
    BY <1>1, <1>3, <1>6 DEF m

LEMMA MergeYoloTurns ==
  ASSUME BaseInv, NEW w \in Workers, MergeYolo(w)
  PROVE  \E m \in Merger :
           /\ merger' = [merger EXCEPT ![SourceOf(w)] = m]
           /\ m.alarm = merger[SourceOf(w)].alarm
           /\ Turns(w, {y \in {Report(Merged(m))} : m # merger[SourceOf(w)]})
  <1>. DEFINE old == merger[SourceOf(w)]
              m == [old EXCEPT ![Next1(w).op] = Next1(w).types]
  <1>1. /\ Next1(w).op \in {"basic", "detail"} /\ todo[w] # <<>>
        /\ merger' = [merger EXCEPT ![SourceOf(w)] = m]
        /\ Proceed(w, When(m # old, <<Report(Merged(m))>>))
    BY DEF MergeYolo, MergeInto, Idle
  <1>2. Len(todo[w]) = 1 /\ Next1(w).types \subseteq Types
    BY <1>1, Alone1 DEF Final, StepOK
  <1>3. m \in Merger /\ m.alarm = old.alarm
    <2>1. CASE Next1(w).op = "basic"
      BY <1>2, <2>1, MergersTyped DEF Merger
    <2>2. CASE Next1(w).op = "detail"
      BY <1>2, <2>2, MergersTyped DEF Merger
    <2>. QED
      BY <1>1, <2>1, <2>2
  <1>. HIDE DEF m
  <1>4. StepOK(Report(Merged(m))) /\ Report(Merged(m)).op # "reset"
    BY <1>3, AlarmStates, StepNames
  <1>. DEFINE new == When(m # old, <<Report(Merged(m))>>)
              N == {y \in {Report(Merged(m))} : m # old}
  <1>5. /\ ListOK(new) /\ Len(new) \in Nat /\ Len(new) <= 1 /\ \A y : In(y, new) <=> y \in N
    BY <1>4, WhenStep
  <1>. HIDE DEF new, N
  <1>6. Turns(w, N)
    <2>1. ShapeInv /\ ListOK(todo[w])
      BY <1>1, Alone1 DEF BaseInv
    <2>2. ~(Len(todo[w]) > 1) /\ Len(new) + Len(todo[w]) <= 4
      BY <1>2, <1>5
    <2>3. Proceed(w, new)
      BY <1>1 DEF new
    <2>. QED
      BY <1>1, <1>5, <2>1, <2>2, <2>3, ProceedTurns
  <1>. QED
    BY <1>1, <1>3, <1>6 DEF N

\* Steps that only take their turn.
LEMMA PlainTurns ==
  ASSUME BaseInv, NEW w \in Workers, todo[w] # <<>>, Proceed(w, <<>>)
  PROVE  Turns(w, {})
  <1>1. ListOK(<<>>) /\ Len(<<>>) = 0 /\ \A y : In(y, <<>>) <=> y \in {}
    BY EmptyList
  <1>. QED
    <2>1. ShapeInv /\ ListOK(todo[w]) /\ Len(todo[w]) \in Nat /\ Len(todo[w]) <= 3
      BY Alone1 DEF BaseInv
    <2>2. Len(<<>>) + Len(todo[w]) <= 4
      BY <1>1, <2>1
    <2>. QED
      BY <1>1, <2>1, <2>2, ProceedTurns

LEMMA HandleAlarmTurns ==
  ASSUME BaseInv, NEW w \in Workers, HandleAlarm(w)
  PROVE  LET s == Next1(w).state
             ring == s.visitor /\ ~last.visitor /\ "doorbell" \in handlers
             moved == last.motion # {EventOf(s)} /\ "motion" \in handlers
         IN  /\ Next1(w).op = "report" /\ s \in AlarmState /\ Len(todo[w]) = 1
             /\ Turns(w, {SetActive(EventOf(s).active)}
                          \cup {y \in {Call("doorbell", TRUE)} : ring}
                          \cup {y \in {Call("motion", EventOf(s))} : moved})
  <1>. DEFINE s == Next1(w).state
              e == EventOf(s)
              ring == s.visitor /\ ~last.visitor /\ "doorbell" \in handlers
              moved == last.motion # {e} /\ "motion" \in handlers
              a == <<SetActive(e.active)>>
              b == When(ring, <<Call("doorbell", TRUE)>>)
              c == When(moved, <<Call("motion", e)>>)
  <1>1. /\ Next1(w).op = "report" /\ todo[w] # <<>> /\ Proceed(w, a \o b \o c)
    BY Zenon DEF HandleAlarm, At, Idle
  <1>2. Len(todo[w]) = 1 /\ s \in AlarmState /\ ListOK(todo[w])
    BY <1>1, Alone1 DEF Final, StepOK
  <1>3. e \in MotionEvent /\ e.active \in BOOLEAN
    BY <1>2, AlarmStates DEF MotionEvent
  <1>. HIDE DEF s, e
  <1>4. /\ StepOK(SetActive(e.active)) /\ SetActive(e.active).op = "setActive"
        /\ Rank(SetActive(e.active)) = 3
        /\ StepOK(Call("doorbell", TRUE)) /\ Call("doorbell", TRUE).op = "call"
        /\ Rank(Call("doorbell", TRUE)) = 4
        /\ StepOK(Call("motion", e)) /\ Call("motion", e).op = "call"
        /\ Rank(Call("motion", e)) = 5
    BY <1>3 DEF StepOK, SetActive, Call, Rank, Ops, HandlerNames
  <1>. HIDE DEF ring, moved
  <1>5. /\ ListOK(a) /\ Len(a) = 1 /\ \A y : In(y, a) <=> y = SetActive(e.active)
    BY <1>4, OneStep
  <1>6. /\ ListOK(b) /\ Len(b) \in Nat /\ Len(b) <= 1 /\ \A y : In(y, b) <=> ring /\ y = Call("doorbell", TRUE)
        /\ ListOK(c) /\ Len(c) \in Nat /\ Len(c) <= 1
    BY <1>4, WhenStep
  <1>7. \A y : In(y, c) <=> moved /\ y = Call("motion", e)
    BY <1>4, WhenStep
  <1>. HIDE DEF a, b, c
  <1>8. /\ ListOK(a \o b) /\ Len(a \o b) = 1 + Len(b)
        /\ \A y : In(y, a \o b) <=> In(y, a) \/ In(y, b)
    <2>1. ASSUME NEW x, NEW y, In(x, a), In(y, b) PROVE Rank(x) < Rank(y)
      <3>1. x = SetActive(e.active) /\ y = Call("doorbell", TRUE)
        BY <1>5, <1>6, <2>1
      <3>2. Rank(x) = 3 /\ Rank(y) = 4
        BY <1>4, <3>1
      <3>. QED
        BY ONLY <3>2
    <2>2. Len(a) + Len(b) <= 3 /\ \A x : In(x, a) => x.op \notin Final /\ x.op # "reset"
      BY <1>4, <1>5, <1>6 DEF Final
    <2>. QED
      BY <1>5, <1>6, <2>1, <2>2, JoinLists
  <1>9. /\ ListOK(a \o b \o c) /\ Len(a \o b \o c) = 1 + Len(b) + Len(c)
        /\ \A y : In(y, a \o b \o c) <=> In(y, a \o b) \/ In(y, c)
    <2>1. ASSUME NEW x, NEW y, In(x, a \o b), In(y, c) PROVE Rank(x) < Rank(y)
      <3>1. x \in {SetActive(e.active), Call("doorbell", TRUE)} /\ y = Call("motion", e)
        BY <1>5, <1>6, <1>7, <1>8, <2>1
      <3>2. Rank(x) \in {3, 4} /\ Rank(y) = 5
        BY <1>4, <3>1
      <3>. QED
        BY ONLY <3>2, RankIsNat
    <2>2. Len(a \o b) + Len(c) <= 3
      BY <1>6, <1>8
    <2>3. \A x : In(x, a \o b) => x.op \notin Final /\ x.op # "reset"
      BY <1>4, <1>5, <1>6, <1>8 DEF Final
    <2>. QED
      BY <1>6, <1>8, <2>1, <2>2, <2>3, JoinLists
  <1>. DEFINE N == {SetActive(e.active)} \cup {y \in {Call("doorbell", TRUE)} : ring}
                     \cup {y \in {Call("motion", e)} : moved}
              new == a \o b \o c
  <1>10. \A y : In(y, new) <=> y \in N
    <2>1. \A y : In(y, new) <=> In(y, a) \/ In(y, b) \/ In(y, c)
      BY <1>8, <1>9
    <2>2. ASSUME NEW y PROVE In(y, new) <=> y \in N
      <3>1. In(y, new) <=> y = SetActive(e.active) \/ In(y, b) \/ In(y, c)
        BY <2>1, <1>5
      <3>2. In(y, b) <=> y \in {z \in {Call("doorbell", TRUE)} : ring}
        <4>1. In(y, b) <=> ring /\ y = Call("doorbell", TRUE)
          BY <1>6
        <4>. QED
          BY ONLY <4>1, Zenon
      <3>3. In(y, c) <=> y \in {z \in {Call("motion", e)} : moved}
        <4>1. In(y, c) <=> moved /\ y = Call("motion", e)
          BY <1>7
        <4>. QED
          BY ONLY <4>1, Zenon
      <3>. QED
        BY ONLY <3>1, <3>2, <3>3, Zenon DEF N
    <2>. QED
      BY <2>2
  <1>11. ListOK(new) /\ Len(new) + Len(todo[w]) <= 4 /\ ~(Len(todo[w]) > 1)
    BY <1>2, <1>6, <1>9
  <1>. HIDE DEF N, new
  <1>12. Turns(w, N)
    <2>1. ShapeInv /\ Proceed(w, new)
      BY <1>1 DEF BaseInv, new
    <2>. QED
      BY <1>1, <1>2, <1>10, <1>11, <2>1, ProceedTurns
  <1>. QED
    BY <1>1, <1>2, <1>12, Zenon DEF N, s, e, ring, moved

LEMMA HandleSleepTurns ==
  ASSUME BaseInv, NEW w \in Workers, HandleSleep(w)
  PROVE  /\ Next1(w).op = "flag" /\ Next1(w).value \in BOOLEAN
         /\ Turns(w, {y \in {Call("sleep", Next1(w).value)} :
                        last.sleep # {Next1(w).value} /\ "sleep" \in handlers})
  <1>. DEFINE v == Next1(w).value
              rings == last.sleep # {v} /\ "sleep" \in handlers
              N == {y \in {Call("sleep", v)} : rings}
              new == When(rings, <<Call("sleep", v)>>)
  <1>1. Next1(w).op = "flag" /\ todo[w] # <<>> /\ Proceed(w, new)
    BY DEF HandleSleep, At, Idle
  <1>2. v \in BOOLEAN /\ ListOK(todo[w]) /\ Len(todo[w]) \in Nat /\ Len(todo[w]) <= 3
    BY <1>1, Alone1 DEF StepOK
  <1>. HIDE DEF v
  <1>3. /\ StepOK(Call("sleep", v)) /\ Call("sleep", v).op = "call" /\ Rank(Call("sleep", v)) = 1
    BY <1>2 DEF StepOK, Call, Rank, Ops, HandlerNames
  <1>. HIDE DEF rings
  <1>4. ListOK(new) /\ Len(new) \in Nat /\ Len(new) <= 1 /\ \A y : In(y, new) <=> y \in N
    BY <1>3, WhenStep
  <1>5. Rank(Next1(w)) >= 1
    BY RankIsNat
  <1>6. Len(new) + Len(todo[w]) <= 4
    BY <1>2, <1>4
  <1>7. \A x \in N : x.op \notin Final /\ x.op # "reset" /\ Rank(x) <= Rank(Next1(w))
    BY <1>3, <1>5 DEF Final
  <1>. HIDE DEF N, new
  <1>8. Turns(w, N)
    BY <1>1, <1>2, <1>4, <1>6, <1>7, ProceedTurns DEF BaseInv
  <1>. QED
    BY <1>1, <1>2, <1>8 DEF N, v, rings

LEMMA HandleConnectionTurns ==
  ASSUME BaseInv, HandleConnection
  PROVE  /\ Next1(Link).op = "connection" /\ Next1(Link).value \in BOOLEAN /\ Len(todo[Link]) = 1
         /\ Turns(Link, {y \in {Call("connection", Next1(Link).value)} : "connection" \in handlers})
  <1>. DEFINE v == Next1(Link).value
              heard == "connection" \in handlers
              N == {y \in {Call("connection", v)} : heard}
              new == When(heard, <<Call("connection", v)>>)
  <1>1. Next1(Link).op = "connection" /\ todo[Link] # <<>> /\ Proceed(Link, new) /\ Link \in Workers
    BY DEF HandleConnection, At, Idle, Workers
  <1>2. v \in BOOLEAN /\ ListOK(todo[Link]) /\ Len(todo[Link]) = 1
    BY <1>1, Alone1 DEF StepOK, Final
  <1>. HIDE DEF v
  <1>3. StepOK(Call("connection", v)) /\ Call("connection", v).op = "call"
    BY <1>2 DEF StepOK, Call, Ops, HandlerNames
  <1>. HIDE DEF heard
  <1>4. ListOK(new) /\ Len(new) \in Nat /\ Len(new) <= 1 /\ \A y : In(y, new) <=> y \in N
    BY <1>3, WhenStep
  <1>6. Len(new) + Len(todo[Link]) <= 4 /\ ~(Len(todo[Link]) > 1)
    BY <1>2, <1>4
  <1>. HIDE DEF N, new
  <1>8. Turns(Link, N)
    BY <1>1, <1>2, <1>4, <1>6, ProceedTurns DEF BaseInv
  <1>. QED
    BY <1>1, <1>2, <1>8 DEF N, v, heard

LEMMA CallTurns ==
  ASSUME BaseInv, NEW w \in Workers, CallHandler(w)
  PROVE  LET h == Next1(w).handler
             v == Next1(w).value
         IN  /\ h \in handlers /\ h \in HandlerNames /\ IsCall(Next1(w), h, v)
             /\ v \in (IF h = "motion" THEN MotionEvent ELSE BOOLEAN)
             /\ told' = [told EXCEPT ![h] = Append(told[h], v)]
             /\ Turns(w, {})
  <1>1. /\ Next1(w).op = "call" /\ todo[w] # <<>> /\ Proceed(w, <<>>)
        /\ told' = [told EXCEPT ![Next1(w).handler] = Append(told[Next1(w).handler], Next1(w).value)]
    BY DEF CallHandler, At, Idle
  <1>2. /\ Next1(w).handler \in HandlerNames
        /\ Next1(w).value \in (IF Next1(w).handler = "motion" THEN MotionEvent ELSE BOOLEAN)
        /\ In(Next1(w), todo[w])
    BY <1>1, Alone1 DEF StepOK
  <1>3. Next1(w).handler \in handlers
    BY <1>1, <1>2 DEF BaseInv, ListInv
  <1>. QED
    BY <1>1, <1>2, <1>3, PlainTurns DEF IsCall

\* What a push puts into the list of a goroutine.
LEMMA PushLists ==
  /\ \A push \in WebhookPushes :
       /\ ListOK(push)
       /\ \A y : In(y, push) => y.op \in {"alarm", "basic", "detail", "flag", "reset", "report"}
       /\ \A y : In(y, push) /\ y.op = "report" => \E z : In(z, push) /\ z.op = "reset"
  /\ \A b \in BOOLEAN : LET push == <<[op |-> "connection", value |-> b]>> IN
       ListOK(push) /\ \A y : In(y, push) <=> y = [op |-> "connection", value |-> b]
  <1>1. ASSUME NEW s \in AlarmState
        PROVE  ListOK(<<Alarm(s)>>) /\ \A y : In(y, <<Alarm(s)>>) <=> y = Alarm(s)
    <2>1. StepOK(Alarm(s)) /\ Alarm(s).op # "reset"
      BY StepNames
    <2>. QED
      BY <2>1, OneStep
  <1>2. ASSUME NEW c \in {"basic", "detail"}, NEW t \in SUBSET Types
        PROVE  ListOK(<<Yolo(c, t)>>) /\ \A y : In(y, <<Yolo(c, t)>>) <=> y = Yolo(c, t)
    <2>1. StepOK(Yolo(c, t)) /\ Yolo(c, t).op # "reset"
      BY StepNames
    <2>. QED
      BY <2>1, OneStep
  <1>3. ASSUME NEW b \in BOOLEAN
        PROVE  ListOK(<<Flag(b)>>) /\ Len(<<Flag(b)>>) = 1 /\ \A y : In(y, <<Flag(b)>>) <=> y = Flag(b)
    <2>1. StepOK(Flag(b)) /\ Flag(b).op # "reset"
      BY StepNames
    <2>. QED
      BY <2>1, OneStep
  <1>4. ASSUME NEW s \in AlarmState
        PROVE  ListOK(WakePush(s)) /\ \A y : In(y, WakePush(s)) <=> y \in {Flag(FALSE), Alarm(s)}
    <2>. DEFINE a == <<Flag(FALSE)>>
                b == <<Alarm(s)>>
    <2>1. /\ Rank(Flag(FALSE)) = 1 /\ Rank(Alarm(s)) = 3 /\ Flag(FALSE).op = "flag"
          /\ Len(a) = 1 /\ Len(b) = 1
      BY DEF Rank, Flag, Alarm
    <2>2. WakePush(s) = a \o b
      BY Joins DEF WakePush
    <2>3. /\ ListOK(a) /\ \A y : In(y, a) <=> y = Flag(FALSE)
          /\ ListOK(b) /\ \A y : In(y, b) <=> y = Alarm(s)
      BY <1>1, <1>3
    <2>. HIDE DEF a, b
    <2>4. ASSUME NEW x, NEW y, In(x, a), In(y, b) PROVE Rank(x) < Rank(y)
      <3>1. x = Flag(FALSE) /\ y = Alarm(s)
        BY <2>3, <2>4
      <3>2. Rank(x) = 1 /\ Rank(y) = 3
        BY <2>1, <3>1
      <3>. QED
        BY ONLY <3>2
    <2>5. \A x : In(x, a) => x.op \notin Final /\ x.op # "reset"
      BY <2>1, <2>3 DEF Final
    <2>6. Len(a) + Len(b) <= 3
      BY <2>1
    <2>7. /\ ListOK(a \o b)
          /\ \A y : In(y, a \o b) <=> In(y, a) \/ In(y, b)
      BY <2>3, <2>4, <2>5, <2>6, JoinLists
    <2>. QED
      BY <2>2, <2>3, <2>7
  <1>5. /\ ListOK(SleepPush)
        /\ \A y : In(y, SleepPush) <=> y \in {Flag(TRUE), Clear, Report(NoAlarm)}
    <2>. DEFINE s == <<Flag(TRUE), Clear, Report(NoAlarm)>>
    <2>1. s \in Seq({Flag(TRUE), Clear, Report(NoAlarm)}) /\ Len(s) = 3
          /\ s[1] = Flag(TRUE) /\ s[2] = Clear /\ s[3] = Report(NoAlarm)
      OBVIOUS
    <2>2. s = SleepPush
      BY DEF SleepPush, Clear
    <2>. HIDE DEF s
    <2>3. /\ StepOK(Flag(TRUE)) /\ StepOK(Clear) /\ StepOK(Report(NoAlarm))
          /\ Flag(TRUE).op = "flag" /\ Clear.op = "reset" /\ Report(NoAlarm).op = "report"
      BY StepNames, AlarmStates DEF Clear, StepOK, Ops
    <2>4. Rank(s[1]) = 1 /\ Rank(s[2]) = 2 /\ Rank(s[3]) = 3
      BY <2>1, <2>3 DEF Rank
    <2>5. \A i \in 1..3 : i = 1 \/ i = 2 \/ i = 3
      OBVIOUS
    <2>6. \A i, j \in 1..3 : i < j => Rank(s[i]) < Rank(s[j])
      BY <2>4, <2>5
    <2>7. \A i \in 1..3 : /\ StepOK(s[i])
                          /\ s[i].op \in Final => i = 3
                          /\ s[i].op = "reset" => s[3] = Report(NoAlarm)
      BY <2>1, <2>3, <2>5 DEF Final
    <2>8. ListOK(s)
      BY <2>1, <2>6, <2>7 DEF ListOK
    <2>9. ASSUME NEW y PROVE In(y, s) <=> y \in {Flag(TRUE), Clear, Report(NoAlarm)}
      <3>1. In(y, s) <=> \E i \in 1..3 : s[i] = y
        BY <2>1 DEF In
      <3>2. (\E i \in 1..3 : s[i] = y) <=> s[1] = y \/ s[2] = y \/ s[3] = y
        OBVIOUS
      <3>. QED
        BY ONLY <2>1, <3>1, <3>2
    <2>. QED
      BY <2>2, <2>8, <2>9
  <1>6. ASSUME NEW b \in BOOLEAN
        PROVE  LET push == <<[op |-> "connection", value |-> b]>> IN
                 ListOK(push) /\ \A y : In(y, push) <=> y = [op |-> "connection", value |-> b]
    <2>1. StepOK([op |-> "connection", value |-> b]) /\ [op |-> "connection", value |-> b].op # "reset"
      BY DEF StepOK, Ops
    <2>. QED
      BY <2>1, OneStep
  <1>7. ASSUME NEW push \in WebhookPushes
        PROVE  /\ ListOK(push)
               /\ \A y : In(y, push) => y.op \in {"alarm", "basic", "detail", "flag", "reset", "report"}
               /\ \A y : In(y, push) /\ y.op = "report" => \E z : In(z, push) /\ z.op = "reset"
    <2>1. \A s \in Alarms : s \in AlarmState
      BY AlarmsAssumption
    <2>2. [NoAlarm EXCEPT !.visitor = TRUE] \in AlarmState /\ [NoAlarm EXCEPT !.motion = TRUE] \in AlarmState
      BY DEF NoAlarm, AlarmState
    <2>3. CASE \E s \in AlarmState : push = <<Alarm(s)>>
      BY <1>1, <2>3, StepNames
    <2>4. CASE \E c \in {"basic", "detail"}, t \in SUBSET Types : push = <<Yolo(c, t)>>
      BY <1>2, <2>4, StepNames
    <2>5. CASE push = SleepPush
      <3>1. Flag(TRUE).op = "flag" /\ Clear.op = "reset" /\ Report(NoAlarm).op = "report"
        BY DEF Flag, Clear, Report
      <3>. QED
        BY <1>5, <2>5, <3>1
    <2>6. ASSUME NEW b \in BOOLEAN, push = <<Flag(b)>>
          PROVE  /\ ListOK(push)
                 /\ \A y : In(y, push) => y.op = "flag"
      <3>1. ListOK(push) /\ \A y : In(y, push) => y = Flag(b)
        BY <1>3, <2>6
      <3>. QED
        BY <3>1, StepNames
    <2>7. ASSUME NEW s \in AlarmState, push = WakePush(s)
          PROVE  /\ ListOK(push)
                 /\ \A y : In(y, push) => y.op \in {"flag", "alarm"}
      <3>1. ListOK(push) /\ \A y : In(y, push) => y = Flag(FALSE) \/ y = Alarm(s)
        BY <1>4, <2>7
      <3>2. Flag(FALSE).op = "flag" /\ Alarm(s).op = "alarm"
        BY DEF Flag, Alarm
      <3>. QED
        BY <3>1, <3>2
    <2>8. CASE \E s \in AlarmState : push = WakePush(s)
      BY <2>7, <2>8
    <2>9. \/ \E s \in AlarmState : push = <<Alarm(s)>>
          \/ \E c \in {"basic", "detail"}, t \in SUBSET Types : push = <<Yolo(c, t)>>
          \/ push = SleepPush \/ \E b \in BOOLEAN : push = <<Flag(b)>>
          \/ \E s \in AlarmState : push = WakePush(s)
      <3>1. CASE push \in AlarmPushes
        <4>1. \/ \E s \in Alarms : push = <<Alarm(s)>>
              \/ \E c \in {"basic", "detail"}, t \in SUBSET Types : push = <<Yolo(c, t)>>
          BY <3>1 DEF AlarmPushes
        <4>2. (\E s \in Alarms : push = <<Alarm(s)>>) => \E s \in AlarmState : push = <<Alarm(s)>>
          BY <2>1, Zenon
        <4>. QED
          BY ONLY <4>1, <4>2, Zenon
      <3>2. \/ push \in AlarmPushes \/ push = SleepPush
            \/ \E b \in BOOLEAN : push = <<Flag(b)>>
            \/ push = WakePush([NoAlarm EXCEPT !.visitor = TRUE])
            \/ push = WakePush([NoAlarm EXCEPT !.motion = TRUE])
        BY DEF WebhookPushes
      <3>. QED
        BY ONLY <2>2, <3>1, <3>2, Zenon
    <2>10. CASE \E b \in BOOLEAN : push = <<Flag(b)>>
      <3>1. ListOK(push) /\ \A y : In(y, push) => y.op = "flag"
        BY <2>6, <2>10
      <3>. QED
        BY <3>1
    <2>. QED
      BY <2>3, <2>4, <2>5, <2>8, <2>9, <2>10
  <1>. QED
    BY <1>6, <1>7

-----------------------------------------------------------------------------
(***************************************************************************)
(* The lists and the types are kept.                                       *)
(***************************************************************************)
\* An input, for whom it may be.
Fresh(w, push) ==
  \/ w \in Listeners \cup Posts /\ push \in WebhookPushes
  \/ w = Link /\ \E b \in BOOLEAN : push = <<[op |-> "connection", value |-> b]>>
Arrives == \E w \in Workers : \E push : Fresh(w, push) /\ Receive(w, push)
Sessions == \E l \in Listeners : StartListener(l) \/ ListenerExit(l)

LEMMA NextKinds ==
  [Next]_vars =>
    \/ Arrives \/ Sessions \/ HandleConnection \/ UNCHANGED vars
    \/ \E h \in Handlers : Register(h)
    \/ \E w \in Workers : Work(w)
  <1>1. \A l \in Listeners : ListenerPush(l) => Arrives
    BY DEF ListenerPush, Arrives, Fresh, WebhookPushes, Workers
  <1>2. \A p \in Posts : WebhookPush(p) => Arrives
    BY DEF WebhookPush, Arrives, Fresh, Workers
  <1>3. ConnectionState => Arrives
    BY DEF ConnectionState, Arrives, Fresh, Workers
  <1>. QED
    BY <1>1, <1>2, <1>3 DEF Next, Session, Sessions

LEMMA ArrivesParts ==
  ASSUME BaseInv, NEW w \in Workers, NEW push, Fresh(w, push), Receive(w, push)
  PROVE  /\ todo[w] = <<>> /\ todo'[w] = push /\ ListOK(todo'[w])
         /\ \A y : ~In(y, todo[w])
         /\ \A y : In(y, todo'[w]) => y.op \notin {"call", "setActive"}
         /\ \A v \in Workers \ {w} : todo'[v] = todo[v]
         /\ UNCHANGED <<session, merger, handlers, last, pause, reports, told, raced>>
         /\ BaseInv'
  <1>1. /\ todo[w] = <<>> /\ todo'[w] = push /\ todo' = [v \in Workers |-> todo'[v]]
        /\ \A v \in Workers \ {w} : todo'[v] = todo[v]
        /\ UNCHANGED <<session, merger, handlers, last, pause, reports, told, raced>>
    BY DEF Receive, Idle, BaseInv, ShapeInv
  <1>2. inputs' \in 0..MaxInputs
    BY MaxInputsAssumption DEF Receive, Input, BaseInv, KindInv
  <1>3. ListOK(push) /\ \A y : In(y, push) => y.op \notin {"call", "setActive"}
    BY PushLists DEF Fresh
  <1>4. w \in {Link, Api} => \A y : In(y, push) => y.op \in {"connection", "call"}
    BY PushLists, WorkersAssumption DEF Fresh
  <1>5. ShapeInv' /\ ListInv'
    <2>1. ShapeInv'
      BY <1>1 DEF BaseInv, ShapeInv, Keys
    <2>2. \A v \in Workers : ListOK(todo'[v])
      BY <1>1, <1>3 DEF BaseInv, ListInv
    <2>3. \A v \in {Link, Api} : \A y : In(y, todo'[v]) => y.op \in {"connection", "call"}
      BY <1>1, <1>4 DEF BaseInv, ListInv, Workers
    <2>4. \A v \in Workers : \A y : In(y, todo'[v]) /\ y.op = "call" => y.handler \in handlers'
      BY <1>1, <1>3 DEF BaseInv, ListInv
    <2>. QED
      BY <2>1, <2>2, <2>3, <2>4 DEF ListInv
  <1>6. KindInv' /\ ToldInv'
    BY <1>1, <1>2 DEF BaseInv, KindInv, ToldInv
  <1>. QED
    BY <1>1, <1>3, <1>5, <1>6, EmptyList DEF BaseInv

LEMMA SessionsBase ==
  ASSUME BaseInv, Sessions
  PROVE  BaseInv' /\ merger'[Webhook] = merger[Webhook]
         /\ UNCHANGED <<todo, handlers, last, pause, reports, told, raced>>
  <1>. PICK l \in Listeners : StartListener(l) \/ ListenerExit(l)
    BY DEF Sessions
  <1>1. UNCHANGED <<todo, handlers, last, pause, reports, told, raced, inputs>>
    BY DEF StartListener, ListenerExit
  <1>2. session' \in [Listeners -> {"off", "on", "ending"}]
    BY DEF StartListener, ListenerExit, BaseInv, KindInv
  <1>3. /\ merger' \in [Listeners \cup {Webhook} -> Merger]
        /\ merger'[Webhook] = merger[Webhook]
    BY AlarmStates, WorkersAssumption DEF StartListener, ListenerExit, BaseInv, KindInv
  <1>4. merger' = [m \in Listeners \cup {Webhook} |-> merger'[m]]
    BY <1>3
  <1>. QED
    BY <1>1, <1>2, <1>3, <1>4 DEF BaseInv, ShapeInv, Keys, ListInv, KindInv, ToldInv

LEMMA RegisterBase ==
  ASSUME BaseInv, NEW h \in Handlers, Register(h)
  PROVE  /\ BaseInv' /\ handlers' = handlers \cup {h} /\ h \notin handlers /\ todo[Api] = <<>>
         /\ UNCHANGED <<merger, last, pause, reports, told, raced>>
         /\ \A v \in Workers \ {Api} : todo'[v] = todo[v]
         /\ \/ UNCHANGED todo /\ ~(h = "connection" /\ last.connection # {})
            \/ \E b \in BOOLEAN : /\ h = "connection" /\ last.connection = {b}
                                  /\ \A y : In(y, todo'[Api]) <=> y = Call("connection", b)
  <1>1. /\ handlers' = handlers \cup {h} /\ h \notin handlers /\ todo[Api] = <<>>
        /\ UNCHANGED <<session, merger, last, pause, inputs, reports, told, raced>>
    BY DEF Register, Idle
  <1>2. handlers' \subseteq Handlers
    BY <1>1 DEF BaseInv, KindInv
  <1>3. KindInv' /\ ToldInv'
    BY <1>1, <1>2 DEF BaseInv, KindInv, ToldInv
  <1>4. CASE UNCHANGED todo /\ ~(h = "connection" /\ last.connection # {})
    <2>1. ShapeInv' /\ ListInv'
      BY <1>1, <1>4 DEF BaseInv, ShapeInv, Keys, ListInv
    <2>. QED
      BY <1>1, <1>3, <1>4, <2>1 DEF BaseInv
  <1>5. ASSUME h = "connection", NEW b \in last.connection, todo' = [todo EXCEPT ![Api] = <<Call(h, b)>>]
        PROVE  /\ BaseInv' /\ last.connection = {b} /\ b \in BOOLEAN
               /\ \A v \in Workers \ {Api} : todo'[v] = todo[v]
               /\ \A y : In(y, todo'[Api]) <=> y = Call("connection", b)
    <2>1. last.connection = {b} /\ b \in BOOLEAN
      BY DEF BaseInv, KindInv
    <2>2. /\ StepOK(Call("connection", b)) /\ Call("connection", b).op = "call"
          /\ Call("connection", b).handler = "connection"
      BY <2>1 DEF StepOK, Call, Ops, HandlerNames
    <2>3. /\ todo'[Api] = <<Call("connection", b)>> /\ todo' = [v \in Workers |-> todo'[v]]
          /\ \A v \in Workers \ {Api} : todo'[v] = todo[v]
      BY <1>5 DEF BaseInv, ShapeInv, Workers
    <2>4. ListOK(todo'[Api]) /\ \A y : In(y, todo'[Api]) <=> y = Call("connection", b)
      BY <2>2, <2>3, OneStep
    <2>5. ListInv'
      <3>1. \A w \in Workers : ListOK(todo'[w])
        BY <2>3, <2>4 DEF BaseInv, ListInv
      <3>2. \A w \in {Link, Api} : \A y : In(y, todo'[w]) => y.op \in {"connection", "call"}
        BY <2>2, <2>3, <2>4 DEF BaseInv, ListInv, Workers
      <3>3. \A w \in Workers : \A y : In(y, todo'[w]) /\ y.op = "call" => y.handler \in handlers'
        BY <1>1, <1>5, <2>2, <2>3, <2>4 DEF BaseInv, ListInv
      <3>. QED
        BY <3>1, <3>2, <3>3 DEF ListInv
    <2>6. ShapeInv'
      BY <1>1, <2>3 DEF BaseInv, ShapeInv, Keys
    <2>. QED
      BY <1>3, <2>1, <2>3, <2>4, <2>5, <2>6 DEF BaseInv
  <1>. QED
    <2>1. CASE h = "connection" /\ last.connection # {}
      <3>1. PICK b \in last.connection : todo' = [todo EXCEPT ![Api] = <<Call(h, b)>>]
        BY <2>1 DEF Register
      <3>. QED
        BY <1>1, <1>5, <2>1, <3>1
    <2>2. CASE ~(h = "connection" /\ last.connection # {})
      <3>1. UNCHANGED todo
        BY <2>2 DEF Register
      <3>. QED
        BY <1>1, <1>4, <2>2, <3>1
    <2>. QED
      BY <2>1, <2>2

\* A turn keeps the lists, when the new steps call registered handlers only.
LEMMA TurnsList ==
  ASSUME BaseInv, NEW w \in Workers, NEW N, Turns(w, N), handlers' = handlers,
         \A y \in N : y.op = "call" => y.handler \in handlers,
         w \in {Link, Api} => \A y \in N : y.op \in {"connection", "call"}
  PROVE  ListInv'
  <1>1. \A v \in Workers : ListOK(todo'[v])
    BY DEF BaseInv, ListInv, Turns
  <1>2. \A v \in {Link, Api} : \A y : In(y, todo'[v]) => y.op \in {"connection", "call"}
    BY DEF BaseInv, ListInv, Turns, Workers
  <1>3. \A v \in Workers : \A y : In(y, todo'[v]) /\ y.op = "call" => y.handler \in handlers'
    BY DEF BaseInv, ListInv, Turns
  <1>. QED
    BY <1>1, <1>2, <1>3 DEF ListInv

\* A goroutine of the camera has no calls only; those of the connection and of
\* the program have nothing else.
LEMMA OwnWork ==
  ASSUME BaseInv, NEW w \in {Link, Api}, Work(w)
  PROVE  CallHandler(w)
  <1>1. w \in Workers /\ (todo[w] # <<>> => Next1(w).op \in {"connection", "call"})
    <2>1. w \in Workers
      BY DEF Workers
    <2>. QED
      BY <2>1, Alone1 DEF BaseInv, ListInv
  <1>. QED
    BY <1>1 DEF Work, MergeAlarm, MergeYolo, Reset, HandleAlarm, HandleSleep, PauseSetActive, At, Idle

LEMMA ReportTyped ==
  ASSUME BaseInv, NEW w, NEW s \in AlarmState
  PROVE  Reported(w, s) \in Reports /\ Append(reports, Reported(w, s)) \in Seq(Reports)
  <1>1. Reported(w, s) \in Reports
    BY AlarmStates DEF Reported, Reports, AlarmState
  <1>. QED
    BY <1>1 DEF BaseInv, KindInv

LEMMA WorkBase ==
  ASSUME BaseInv, NEW w \in Workers, Work(w)
  PROVE  BaseInv'
  <1>1. ShapeInv'
    BY WorkParts DEF BaseInv
  <1>2. CASE w \in {Link, Api} /\ ~CallHandler(w)
    BY <1>2, OwnWork
  <1>3. CASE CallHandler(w)
    <2>1. handlers' = handlers /\ UNCHANGED <<session, merger, last, pause, inputs, reports, raced>>
      BY <1>3 DEF CallHandler
    <2>2. ListInv'
      BY <1>3, <2>1, CallTurns, TurnsList
    <2>3. ToldInv'
      <3>. DEFINE h == Next1(w).handler
                  v == Next1(w).value
      <3>1. /\ h \in handlers /\ h \in HandlerNames
            /\ v \in (IF h = "motion" THEN MotionEvent ELSE BOOLEAN)
            /\ told' = [told EXCEPT ![h] = Append(told[h], v)]
        BY <1>3, CallTurns
      <3>. HIDE DEF h, v
      <3>2. /\ told = [k \in HandlerNames |-> told[k]] /\ told["motion"] \in Seq(MotionEvent)
            /\ \A k \in HandlerNames \ {"motion"} : told[k] \in Seq(BOOLEAN)
            /\ \A k \in HandlerNames : told[k] # <<>> => k \in handlers
        BY DEF BaseInv, ToldInv
      <3>3. told'[h] = Append(told[h], v) /\ told' = [k \in HandlerNames |-> told'[k]]
            /\ \A k \in HandlerNames \ {h} : told'[k] = told[k]
        BY <3>1, <3>2
      <3>4. CASE h = "motion"
        BY <2>1, <3>1, <3>2, <3>3, <3>4 DEF ToldInv
      <3>5. CASE h # "motion"
        <4>1. told'["motion"] = told["motion"]
          BY <3>3, <3>5 DEF HandlerNames
        <4>2. told'[h] \in Seq(BOOLEAN)
          BY <3>1, <3>2, <3>3, <3>5
        <4>. QED
          BY <2>1, <3>1, <3>2, <3>3, <4>1, <4>2 DEF ToldInv
      <3>. QED
        BY <3>4, <3>5
    <2>. QED
      BY <1>1, <2>1, <2>2, <2>3 DEF BaseInv, KindInv
  <1>4. CASE w \notin {Link, Api} /\ MergeAlarm(w)
    <2>1. UNCHANGED <<session, handlers, last, pause, inputs, reports, told, raced>>
      BY <1>4 DEF MergeAlarm
    <2>2. PICK m \in Merger : /\ merger' = [merger EXCEPT ![SourceOf(w)] = m]
                              /\ Turns(w, {Report(Merged(m))})
      BY <1>4, MergeAlarmTurns
    <2>3. Report(Merged(m)).op = "report"
      BY DEF Report
    <2>4. ListInv'
      BY <1>4, <2>1, <2>2, <2>3, TurnsList
    <2>. QED
      BY <1>1, <2>1, <2>2, <2>4 DEF BaseInv, KindInv, ToldInv
  <1>5. CASE w \notin {Link, Api} /\ MergeYolo(w)
    <2>1. UNCHANGED <<session, handlers, last, pause, inputs, reports, told, raced>>
      BY <1>5 DEF MergeYolo
    <2>2. PICK m \in Merger : /\ merger' = [merger EXCEPT ![SourceOf(w)] = m]
                              /\ Turns(w, {y \in {Report(Merged(m))} : m # merger[SourceOf(w)]})
      BY <1>5, MergeYoloTurns
    <2>3. Report(Merged(m)).op = "report"
      BY DEF Report
    <2>4. ListInv'
      BY <1>5, <2>1, <2>2, <2>3, TurnsList
    <2>. QED
      BY <1>1, <2>1, <2>2, <2>4 DEF BaseInv, KindInv, ToldInv
  <1>6. CASE w \notin {Link, Api} /\ Reset(w)
    <2>1. /\ UNCHANGED <<session, handlers, last, pause, inputs, reports, told, raced>>
          /\ todo[w] # <<>> /\ Proceed(w, <<>>) /\ merger' = [merger EXCEPT ![SourceOf(w)] = Forgotten]
      BY <1>6 DEF Reset, MergeInto, At, Idle
    <2>2. ListInv'
      BY <1>6, <2>1, PlainTurns, TurnsList
    <2>. QED
      BY <1>1, <2>1, <2>2, AlarmStates DEF BaseInv, KindInv, ToldInv
  <1>7. CASE w \notin {Link, Api} /\ HandleAlarm(w)
    <2>. DEFINE s == Next1(w).state
    <2>1. UNCHANGED <<session, merger, handlers, pause, inputs, told>>
      BY <1>7 DEF HandleAlarm
    <2>2. /\ last' = [last EXCEPT !.visitor = s.visitor, !.motion = {EventOf(s)}]
          /\ reports' = Append(reports, Reported(w, s))
          /\ raced' = Races(w)
      BY <1>7 DEF HandleAlarm
    <2>3. s \in AlarmState
      BY <1>7, HandleAlarmTurns
    <2>4. ListInv'
      <3>. DEFINE ring == s.visitor /\ ~last.visitor /\ "doorbell" \in handlers
                  moved == last.motion # {EventOf(s)} /\ "motion" \in handlers
                  N == {SetActive(EventOf(s).active)}
                          \cup {y \in {Call("doorbell", TRUE)} : ring}
                          \cup {y \in {Call("motion", EventOf(s))} : moved}
      <3>1. Turns(w, N)
        BY <1>7, HandleAlarmTurns
      <3>2. ASSUME NEW y \in N, y.op = "call" PROVE y.handler \in handlers
        <4>1. \/ y = SetActive(EventOf(s).active)
              \/ y = Call("doorbell", TRUE) /\ "doorbell" \in handlers
              \/ y = Call("motion", EventOf(s)) /\ "motion" \in handlers
          OBVIOUS
        <4>. HIDE DEF s
        <4>. QED
          BY ONLY <3>2, <4>1 DEF SetActive, Call
      <3>. HIDE DEF N
      <3>. QED
        BY <1>7, <2>1, <3>1, <3>2, TurnsList
    <2>5. reports' \in Seq(Reports)
      BY <2>2, <2>3, ReportTyped
    <2>6. last'.visitor \in BOOLEAN /\ \E e \in MotionEvent : last'.motion = {e}
          /\ last'.sleep = last.sleep /\ last'.connection = last.connection
      BY <2>2, <2>3, AlarmStates DEF BaseInv, ShapeInv, Keys, AlarmState
    <2>7. raced' \in BOOLEAN
      BY <2>2 DEF Races, BaseInv, KindInv
    <2>. QED
      BY <1>1, <2>1, <2>4, <2>5, <2>6, <2>7 DEF BaseInv, KindInv, ToldInv
  <1>8. CASE w \notin {Link, Api} /\ HandleSleep(w)
    <2>. DEFINE v == Next1(w).value
    <2>1. /\ UNCHANGED <<session, merger, handlers, pause, inputs, reports, told>>
          /\ last' = [last EXCEPT !.sleep = {v}] /\ raced' = Races(w)
      BY <1>8 DEF HandleSleep
    <2>2. v \in BOOLEAN /\ Turns(w, {y \in {Call("sleep", v)} : last.sleep # {v} /\ "sleep" \in handlers})
      BY <1>8, HandleSleepTurns
    <2>3. ListInv'
      <3>1. Call("sleep", v).handler = "sleep"
        BY DEF Call
      <3>. QED
        BY <1>8, <2>1, <2>2, <3>1, TurnsList
    <2>4. /\ last'.sleep = {v} /\ last'.visitor = last.visitor /\ last'.motion = last.motion
          /\ last'.connection = last.connection
      BY <2>1 DEF BaseInv, ShapeInv, Keys
    <2>5. raced' \in BOOLEAN
      BY <2>1 DEF Races, BaseInv, KindInv
    <2>. QED
      BY <1>1, <2>1, <2>2, <2>3, <2>4, <2>5 DEF BaseInv, KindInv, ToldInv
  <1>9. CASE w \notin {Link, Api} /\ PauseSetActive(w)
    <2>1. /\ UNCHANGED <<session, merger, handlers, last, inputs, reports, told, raced>>
          /\ todo[w] # <<>> /\ Proceed(w, <<>>) /\ pause' = {Next1(w).value}
          /\ Next1(w).op = "setActive"
      BY <1>9 DEF PauseSetActive, At, Idle
    <2>2. ListInv'
      BY <1>9, <2>1, PlainTurns, TurnsList
    <2>3. Next1(w).value \in BOOLEAN
      BY <2>1, Alone1 DEF StepOK
    <2>. QED
      BY <1>1, <2>1, <2>2, <2>3 DEF BaseInv, KindInv, ToldInv
  <1>. QED
    BY <1>2, <1>3, <1>4, <1>5, <1>6, <1>7, <1>8, <1>9 DEF Work

LEMMA ConnectionBase ==
  ASSUME BaseInv, HandleConnection
  PROVE  LET v == Next1(Link).value IN
           /\ BaseInv' /\ v \in BOOLEAN
           /\ last' = [last EXCEPT !.connection = {v}]
           /\ UNCHANGED <<session, merger, handlers, pause, inputs, reports, told>>
           /\ raced' = Races(Link)
           /\ Next1(Link).op = "connection" /\ Len(todo[Link]) = 1
           /\ Turns(Link, {y \in {Call("connection", v)} : "connection" \in handlers})
  <1>. DEFINE v == Next1(Link).value
  <1>1. /\ UNCHANGED <<session, merger, handlers, pause, inputs, reports, told>>
        /\ last' = [last EXCEPT !.connection = {v}] /\ raced' = Races(Link)
        /\ \E s : todo' = [todo EXCEPT ![Link] = s]
    BY DEF HandleConnection, Proceed
  <1>2. /\ v \in BOOLEAN /\ Turns(Link, {y \in {Call("connection", v)} : "connection" \in handlers})
        /\ Next1(Link).op = "connection" /\ Len(todo[Link]) = 1
    BY HandleConnectionTurns
  <1>3. ListInv'
    <2>1. Call("connection", v).handler = "connection" /\ Call("connection", v).op = "call" /\ Link \in Workers
      BY DEF Call, Workers
    <2>. QED
      BY <1>1, <1>2, <2>1, TurnsList
  <1>4. /\ last'.connection = {v} /\ last'.visitor = last.visitor /\ last'.motion = last.motion
        /\ last'.sleep = last.sleep
    BY <1>1 DEF BaseInv, ShapeInv, Keys
  <1>5. raced' \in BOOLEAN
    BY <1>1 DEF Races, BaseInv, KindInv
  <1>6. ShapeInv'
    BY <1>1 DEF BaseInv, ShapeInv, Keys
  <1>7. BaseInv'
    BY <1>1, <1>2, <1>3, <1>4, <1>5, <1>6 DEF BaseInv, KindInv, ToldInv
  <1>. QED
    BY <1>1, <1>2, <1>7

LEMMA InitBase == Init => BaseInv
  <1>. SUFFICES ASSUME Init PROVE BaseInv
    OBVIOUS
  <1>1. ShapeInv
    BY InitInv DEF IInv
  <1>2. ListInv
    BY EmptyList DEF Init, ListInv, Workers
  <1>3. KindInv
    <2>1. reports \in Seq(Reports)
      BY DEF Init
    <2>2. inputs \in 0..MaxInputs
      BY MaxInputsAssumption DEF Init
    <2>3. handlers \subseteq Handlers
      BY HandlersAssumption DEF Init
    <2>4. /\ session \in [Listeners -> {"off", "on", "ending"}]
          /\ merger \in [Listeners \cup {Webhook} -> Merger]
      BY AlarmStates DEF Init
    <2>5. /\ last.visitor = FALSE /\ last.motion = {} /\ last.sleep = {} /\ last.connection = {}
          /\ pause = {} /\ raced = FALSE
      BY DEF Init
    <2>. QED
      BY <2>1, <2>2, <2>3, <2>4, <2>5 DEF KindInv
  <1>4. ToldInv
    <2>1. told = [h \in HandlerNames |-> <<>>]
      BY DEF Init
    <2>2. <<>> \in Seq(MotionEvent) /\ <<>> \in Seq(BOOLEAN)
      OBVIOUS
    <2>3. "motion" \in HandlerNames
      BY DEF HandlerNames
    <2>. QED
      BY <2>1, <2>2, <2>3 DEF ToldInv
  <1>. QED
    BY <1>1, <1>2, <1>3, <1>4 DEF BaseInv

LEMMA NextBase == BaseInv /\ [Next]_vars => BaseInv'
  <1>. SUFFICES ASSUME BaseInv, [Next]_vars PROVE BaseInv'
    OBVIOUS
  <1>1. CASE UNCHANGED vars
    BY <1>1 DEF vars, BaseInv, ShapeInv, Keys, ListInv, KindInv, ToldInv
  <1>. QED
    BY <1>1, NextKinds, ArrivesParts, SessionsBase, RegisterBase, ConnectionBase, WorkBase DEF Arrives

\* Every variable has its type: whatever the listeners, POSTs and the program do,
\* no goroutine has more steps left than one push gives, and only registered
\* handlers are called.
THEOREM TypeCorrect == Spec => []TypeOK
  <1>1. BaseInv => TypeOK
    <2>. SUFFICES ASSUME BaseInv PROVE TypeOK
      OBVIOUS
    <2>1. ASSUME NEW w \in Workers
          PROVE  /\ Len(todo[w]) <= 3
                 /\ \A i \in DOMAIN todo[w] :
                      todo[w][i].op \in Ops /\ (todo[w][i].op = "call" => todo[w][i].handler \in handlers)
      <3>1. DOMAIN todo[w] = 1..Len(todo[w]) /\ Len(todo[w]) <= 3
        BY DEF BaseInv, ListInv, ListOK
      <3>2. \A i \in 1..Len(todo[w]) : StepOK(todo[w][i]) /\ In(todo[w][i], todo[w])
        BY DEF BaseInv, ListInv, ListOK, In
      <3>. QED
        BY <3>1, <3>2 DEF BaseInv, ListInv, StepOK
    <2>2. \A x : Cardinality({x}) = 1 /\ Cardinality({}) = 0
      BY FS_EmptySet, FS_Singleton
    <2>3. ASSUME NEW x, x = {} \/ (\E b : x = {b}) PROVE Cardinality(x) <= 1
      <3>1. Cardinality(x) = 0 \/ Cardinality(x) = 1
        BY <2>2, <2>3
      <3>. QED
        BY <3>1
    <2>4. last.motion \subseteq MotionEvent /\ Cardinality(last.motion) <= 1
      BY <2>3 DEF BaseInv, KindInv
    <2>5. ASSUME NEW x \in {last.sleep, last.connection, pause}
          PROVE  Cardinality(x) <= 1 /\ x \subseteq BOOLEAN
      <3>1. x = {} \/ \E b \in BOOLEAN : x = {b}
        BY DEF BaseInv, KindInv
      <3>. QED
        BY <2>3, <3>1
    <2>6. last.sleep \cup last.connection \cup pause \subseteq BOOLEAN
      BY <2>5
    <2>. QED
      BY <2>1, <2>4, <2>5, <2>6 DEF TypeOK, BaseInv, KindInv, ToldInv
  <1>. QED
    BY <1>1, InitBase, NextBase, PTL DEF Spec

-----------------------------------------------------------------------------
(***************************************************************************)
(* Which calls a step leaves to be made.                                   *)
(***************************************************************************)
LEMMA OnlyStep ==
  ASSUME BaseInv, NEW w \in Workers, todo[w] # <<>>, Len(todo[w]) = 1
  PROVE  \A y : In(y, todo[w]) <=> y = Next1(w)
  <1>1. ListOK(todo[w])
    BY DEF BaseInv, ListInv
  <1>2. DOMAIN todo[w] = 1..1 /\ Head(todo[w]) = todo[w][1]
    BY <1>1, TailList DEF ListOK
  <1>3. \A i \in 1..1 : i = 1
    OBVIOUS
  <1>. QED
    BY <1>2, <1>3 DEF In, Next1

LEMMA RankApart ==
  ASSUME NEW s, ListOK(s), NEW x, NEW y, In(x, s), In(y, s), Rank(x) = Rank(y)
  PROVE  x = y
  <1>. PICK i \in 1..Len(s) : s[i] = x
    BY DEF In
  <1>. PICK j \in 1..Len(s) : s[j] = y
    BY DEF In
  <1>1. Len(s) \in Nat
    BY DEF ListOK
  <1>2. ~(i < j) /\ ~(j < i)
    BY RankIsNat DEF ListOK
  <1>. QED
    BY <1>1, <1>2

LEMMA PendingIn ==
  /\ \A w \in Workers : \A h, v : ListOK(todo[w]) =>
       (Pending(w, h, v) <=> \E y : In(y, todo[w]) /\ IsCall(y, h, v))
  /\ \A w \in Workers : \A h, v : ListOK(todo'[w]) =>
       (Pending(w, h, v)' <=> \E y : In(y, todo'[w]) /\ IsCall(y, h, v))
  <1>1. \A s : ListOK(s) => DOMAIN s = 1..Len(s)
    BY DEF ListOK
  <1>. QED
    BY <1>1 DEF Pending, In, IsCall

LEMMA TurnsPending ==
  ASSUME BaseInv, NEW w \in Workers, NEW N, Turns(w, N), NEW h, NEW v
  PROVE  /\ \A u \in Workers \ {w} : Pending(u, h, v)' <=> Pending(u, h, v)
         /\ Pending(w, h, v)' <=> \/ \E y \in N : IsCall(y, h, v)
                                  \/ Pending(w, h, v) /\ ~IsCall(Next1(w), h, v)
  <1>1. ListOK(todo[w]) /\ ListOK(todo'[w]) /\ In(Next1(w), todo[w])
    BY DEF BaseInv, ListInv, Turns
  <1>2. \A u \in Workers \ {w} : Pending(u, h, v)' <=> Pending(u, h, v)
    BY DEF Turns, Pending, IsCall
  <1>3. \A x, y : IsCall(x, h, v) /\ IsCall(y, h, v) => Rank(x) = Rank(y)
    BY DEF IsCall, Rank
  <1>4. \A y : In(y, todo[w]) /\ IsCall(y, h, v) /\ y # Next1(w) => ~IsCall(Next1(w), h, v)
    BY <1>1, <1>3, RankApart
  <1>5. \A y : In(y, todo'[w]) <=> y \in N \/ (In(y, todo[w]) /\ y # Next1(w))
    BY DEF Turns
  <1>6. Pending(w, h, v) <=> \E y : In(y, todo[w]) /\ IsCall(y, h, v)
    BY <1>1, PendingIn
  <1>7. Pending(w, h, v)' <=> \E y : In(y, todo'[w]) /\ IsCall(y, h, v)
    BY <1>1, PendingIn
  <1>8. ASSUME Pending(w, h, v)'
        PROVE  (\E y \in N : IsCall(y, h, v)) \/ (Pending(w, h, v) /\ ~IsCall(Next1(w), h, v))
    BY <1>4, <1>5, <1>6, <1>7, <1>8
  <1>9. ASSUME (\E y \in N : IsCall(y, h, v)) \/ (Pending(w, h, v) /\ ~IsCall(Next1(w), h, v))
        PROVE  Pending(w, h, v)'
    BY <1>5, <1>6, <1>7, <1>9
  <1>. QED
    BY <1>2, <1>8, <1>9

\* The steps besides a report, a call and a change of the pause logic.
Behind(w, N) ==
  /\ Turns(w, N) /\ Next1(w).op \notin {"call", "report", "setActive", "connection"}
  /\ \A y \in N : y.op = "report" \/ (y.op = "call" /\ y.handler = "sleep")
  /\ UNCHANGED <<handlers, pause, reports, told>>
  /\ last'.visitor = last.visitor /\ last'.motion = last.motion /\ last'.connection = last.connection
  /\ raced' = raced \/ raced' = Races(w)

LEMMA WorkKinds ==
  ASSUME BaseInv, NEW w \in Workers, Work(w)
  PROVE  \/ CallHandler(w) \/ HandleAlarm(w) \/ PauseSetActive(w)
         \/ \E N : Behind(w, N)
  <1>1. CASE MergeAlarm(w)
    <2>1. PICK m \in Merger : Turns(w, {Report(Merged(m))})
      BY <1>1, MergeAlarmTurns
    <2>2. Next1(w).op = "alarm" /\ UNCHANGED <<handlers, pause, reports, told, last, raced>>
      BY <1>1 DEF MergeAlarm, At
    <2>. QED
      BY <2>1, <2>2 DEF Behind, Report
  <1>2. CASE MergeYolo(w)
    <2>1. PICK m \in Merger : Turns(w, {y \in {Report(Merged(m))} : m # merger[SourceOf(w)]})
      BY <1>2, MergeYoloTurns
    <2>2. Next1(w).op \in {"basic", "detail"} /\ UNCHANGED <<handlers, pause, reports, told, last, raced>>
      BY <1>2 DEF MergeYolo
    <2>. QED
      BY <2>1, <2>2 DEF Behind, Report
  <1>3. CASE Reset(w)
    <2>1. /\ Next1(w).op = "reset" /\ UNCHANGED <<handlers, pause, reports, told, last, raced>>
          /\ todo[w] # <<>> /\ Proceed(w, <<>>)
      BY <1>3 DEF Reset, At, Idle
    <2>. QED
      BY <2>1, PlainTurns DEF Behind
  <1>4. CASE HandleSleep(w)
    <2>. DEFINE v == Next1(w).value
                N == {y \in {Call("sleep", v)} : last.sleep # {v} /\ "sleep" \in handlers}
    <2>1. /\ Next1(w).op = "flag" /\ UNCHANGED <<handlers, pause, reports, told>>
          /\ last' = [last EXCEPT !.sleep = {v}] /\ raced' = Races(w)
      BY <1>4 DEF HandleSleep, At
    <2>2. Turns(w, N)
      BY <1>4, HandleSleepTurns
    <2>3. last'.visitor = last.visitor /\ last'.motion = last.motion /\ last'.connection = last.connection
      BY <2>1 DEF BaseInv, ShapeInv, Keys
    <2>4. \A y \in N : y.op = "call" /\ y.handler = "sleep"
      BY DEF Call
    <2>. HIDE DEF N
    <2>. QED
      BY <2>1, <2>2, <2>3, <2>4 DEF Behind
  <1>. QED
    BY <1>1, <1>2, <1>3, <1>4 DEF Work

-----------------------------------------------------------------------------
(***************************************************************************)
(* Every edge is told once.                                                *)
(***************************************************************************)
\* The dispatcher remembers the last report.
LastInv ==
  /\ reports = <<>> => last.motion = {} /\ ~last.visitor
  /\ reports # <<>> => /\ last.motion = {reports[Len(reports)].event}
                       /\ last.visitor = reports[Len(reports)].visitor

\* What a report adds to the changes and to the presses.
LEMMA ReportSets ==
  ASSUME BaseInv, LastInv, NEW w \in Workers, HandleAlarm(w)
  PROVE  LET s == Next1(w).state
             n == Len(reports) + 1
             ring == s.visitor /\ ~last.visitor /\ "doorbell" \in handlers
             moved == last.motion # {EventOf(s)} /\ "motion" \in handlers
         IN  /\ Len(reports') = n /\ n \in Nat \ {0} /\ DOMAIN reports = 1..(n - 1)
             /\ reports'[n] = Reported(w, s)
             /\ \A i \in 1..(n - 1) : reports'[i] = reports[i]
             /\ \A i : i \in Changes' <=> i \in Changes \/ (i = n /\ moved)
             /\ \A i : i \in Presses' <=> i \in Presses \/ (i = n /\ ring)
             /\ Changes \subseteq 1..(n - 1) /\ Presses \subseteq 1..(n - 1)
             /\ LastInv'
  <1>. DEFINE s == Next1(w).state
              n == Len(reports) + 1
              ring == s.visitor /\ ~last.visitor /\ "doorbell" \in handlers
              moved == last.motion # {EventOf(s)} /\ "motion" \in handlers
              r == Reported(w, s)
  <1>1. /\ reports' = Append(reports, r)
        /\ last' = [last EXCEPT !.visitor = s.visitor, !.motion = {EventOf(s)}]
    BY DEF HandleAlarm
  <1>2. reports \in Seq(Reports) /\ s \in AlarmState
    BY HandleAlarmTurns DEF BaseInv, KindInv
  <1>3. r \in Reports /\ r.event = EventOf(s) /\ r.visitor = s.visitor
        /\ ("motion" \in r.heard <=> "motion" \in handlers)
        /\ ("doorbell" \in r.heard <=> "doorbell" \in handlers)
    BY <1>2, ReportTyped DEF Reported
  <1>. HIDE DEF r
  <1>4. /\ Len(reports') = n /\ n \in Nat \ {0} /\ DOMAIN reports = 1..(n - 1) /\ DOMAIN reports' = 1..n
        /\ reports'[n] = r
        /\ \A i \in 1..(n - 1) : reports'[i] = reports[i]
    BY <1>1, <1>2, <1>3
  <1>5. last'.visitor = s.visitor /\ last'.motion = {EventOf(s)}
    BY <1>1 DEF BaseInv, ShapeInv, Keys
  <1>6. LastInv'
    <2>1. reports' # <<>>
      BY <1>4
    <2>. QED
      BY <1>3, <1>4, <1>5, <2>1 DEF LastInv
  <1>7. n > 1 => reports # <<>> /\ n - 1 = Len(reports) /\ reports'[n - 1] = reports[Len(reports)]
    BY <1>2, <1>4
  <1>8. n <= 1 => reports = <<>>
    BY <1>2, EmptySeq
  <1>9. moved <=> "motion" \in r.heard /\ (n > 1 => reports'[n - 1].event # r.event)
    <2>1. CASE n > 1
      BY <1>3, <1>7, <2>1 DEF LastInv
    <2>2. CASE ~(n > 1)
      <3>1. reports = <<>>
        BY <1>4, <1>8, <2>2
      <3>2. last.motion # {EventOf(s)}
        BY <3>1 DEF LastInv
      <3>. QED
        BY ONLY <1>3, <2>2, <3>2, Zenon
    <2>. QED
      BY <2>1, <2>2
  <1>10. ring <=> "doorbell" \in r.heard /\ r.visitor /\ (n > 1 => ~reports'[n - 1].visitor)
    <2>1. CASE n > 1
      BY <1>3, <1>7, <2>1 DEF LastInv
    <2>2. CASE ~(n > 1)
      <3>1. reports = <<>>
        BY <1>4, <1>8, <2>2
      <3>2. ~last.visitor
        BY <3>1 DEF LastInv
      <3>. QED
        BY ONLY <1>3, <2>2, <3>2, Zenon
    <2>. QED
      BY <2>1, <2>2
  <1>. HIDE DEF ring, moved, s
  <1>11. \A i \in 1..(n - 1) : i \in 1..n /\ i # n /\ (i > 1 => i - 1 \in 1..(n - 1))
    BY <1>4
  <1>. HIDE DEF n
  <1>12. Changes \subseteq 1..(n - 1) /\ Presses \subseteq 1..(n - 1)
    BY <1>4 DEF Changes, Presses
  <1>13. ASSUME NEW i \in 1..(n - 1) PROVE i # n /\ (i \in Changes' <=> i \in Changes)
                                           /\ (i \in Presses' <=> i \in Presses)
    BY <1>4, <1>11 DEF Changes, Presses
  <1>14. (n \in Changes' <=> moved) /\ (n \in Presses' <=> ring)
    <2>1. n \in DOMAIN reports'
      BY <1>4
    <2>. QED
      BY <1>4, <1>9, <1>10, <2>1 DEF Changes, Presses
  <1>15. \A i : i \in Changes' \/ i \in Presses' => i = n \/ i \in 1..(n - 1)
    BY <1>4 DEF Changes, Presses
  <1>16. \A i : i \in Changes' <=> i \in Changes \/ (i = n /\ moved)
    BY <1>12, <1>13, <1>14, <1>15
  <1>17. \A i : i \in Presses' <=> i \in Presses \/ (i = n /\ ring)
    BY <1>12, <1>13, <1>14, <1>15
  <1>. QED
    BY <1>4, <1>6, <1>12, <1>16, <1>17 DEF n, s, r, moved, ring

LEMMA WorkersFinite == IsFiniteSet(Workers)
  <1>1. Workers = ((Listeners \cup Posts) \cup {Link}) \cup {Api}
    BY DEF Workers
  <1>2. \A x : IsFiniteSet({x})
    BY FS_Singleton
  <1>3. IsFiniteSet((Listeners \cup Posts) \cup {Link})
    BY <1>2, WorkersAssumption, FS_Union
  <1>. QED
    BY <1>1, <1>2, <1>3, FS_Union

Waiting(h, v) == {w \in Workers : Pending(w, h, v)}
Made(h, v) == {i \in DOMAIN told[h] : told[h][i] = v}

LEMMA WaitingFinite == \A h, v : IsFiniteSet(Waiting(h, v)) /\ Cardinality(Waiting(h, v)) \in Nat
  BY WorkersFinite, FS_Subset, FS_CardinalityType DEF Waiting

LEMMA CountFinite == \A k \in Nat : IsFiniteSet(1..k)
  <1>1. \A k \in Nat : k \in Int /\ 1 \in Int
    OBVIOUS
  <1>. QED
    BY <1>1, FS_Interval, Zenon

LEMMA MadeFinite ==
  ASSUME BaseInv, NEW h \in HandlerNames, NEW v
  PROVE  /\ IsFiniteSet(Made(h, v)) /\ Cardinality(Made(h, v)) \in Nat
         /\ \A x : told'[h] = Append(told[h], x) =>
              Cardinality(Made(h, v)') = Cardinality(Made(h, v)) + (IF x = v THEN 1 ELSE 0)
  <1>1. PICK S : told[h] \in Seq(S)
    BY DEF BaseInv, ToldInv
  <1>. DEFINE q == told[h]
              n == Len(q) + 1
  <1>2. Len(q) \in Nat /\ DOMAIN q = 1..Len(q)
    BY <1>1
  <1>3. IsFiniteSet(Made(h, v))
    <2>1. IsFiniteSet(1..Len(q))
      BY <1>2, CountFinite
    <2>. QED
      BY <1>2, <2>1, FS_Subset DEF Made
  <1>4. Cardinality(Made(h, v)) \in Nat
    BY <1>3, FS_CardinalityType
  <1>5. ASSUME NEW x, told'[h] = Append(q, x)
        PROVE  Cardinality(Made(h, v)') = Cardinality(Made(h, v)) + (IF x = v THEN 1 ELSE 0)
    <2>1. /\ DOMAIN told'[h] = 1..n /\ told'[h][n] = x /\ n \notin 1..Len(q)
          /\ \A i \in 1..Len(q) : i \in 1..n /\ i # n /\ told'[h][i] = q[i]
          /\ \A i \in 1..n : i = n \/ i \in 1..Len(q)
      <3>1. q \in Seq(S \cup {x})
        BY <1>1
      <3>. QED
        BY <1>2, <1>5, <3>1
    <2>2. Made(h, v) \subseteq 1..Len(q) /\ n \notin Made(h, v)
      BY <1>2, <2>1 DEF Made
    <2>3. Made(h, v)' = {i \in 1..n : told'[h][i] = v} /\ Made(h, v) = {i \in 1..Len(q) : q[i] = v}
      BY <1>2, <2>1 DEF Made
    <2>. HIDE DEF n, q
    <2>4. CASE x = v
      <3>1. Made(h, v)' = Made(h, v) \cup {n}
        <4>1. n \in 1..n
          BY <1>2 DEF n
        <4>. QED
          BY <2>1, <2>3, <2>4, <4>1
      <3>. QED
        BY <1>3, <1>4, <2>2, <2>4, <3>1, FS_AddElement
    <2>5. CASE x # v
      <3>1. Made(h, v)' = Made(h, v)
        BY <2>1, <2>3, <2>5
      <3>. QED
        BY <1>4, <2>5, <3>1
    <2>. QED
      BY <2>4, <2>5
  <1>. QED
    BY <1>3, <1>4, <1>5

\* Nothing is reported, called or left to be called.
LEMMA EdgesStay ==
  ASSUME LastInv, EdgesToldOnce, UNCHANGED <<told, reports>>,
         last'.visitor = last.visitor, last'.motion = last.motion,
         \A w \in Workers : \A h \in {"motion", "doorbell"} : \A v : Pending(w, h, v)' <=> Pending(w, h, v)
  PROVE  LastInv' /\ EdgesToldOnce'
  <1>1. LastInv'
    BY DEF LastInv
  <1>2. \A h \in {"motion", "doorbell"} : \A v : Waiting(h, v)' = Waiting(h, v)
    BY DEF Waiting
  <1>3. \A h, v : Made(h, v)' = Made(h, v)
    BY DEF Made
  <1>4. \A h \in {"motion", "doorbell"} : \A v : Calls(h, v)' = Calls(h, v)
    BY <1>2, <1>3 DEF Calls, Waiting, Made
  <1>5. Changes' = Changes /\ Presses' = Presses
    BY DEF Changes, Presses
  <1>6. \A e \in MotionEvent : Calls("motion", e)' = Cardinality({i \in Changes' : reports'[i].event = e})
    BY <1>4, <1>5 DEF EdgesToldOnce
  <1>7. Calls("doorbell", TRUE)' = Cardinality(Presses')
    BY <1>4, <1>5 DEF EdgesToldOnce
  <1>. QED
    BY <1>1, <1>6, <1>7 DEF EdgesToldOnce

\* A call is made: it was left to be made, once.
LEMMA EdgesCall ==
  ASSUME BaseInv, LastInv, EdgesToldOnce, NEW w \in Workers, CallHandler(w)
  PROVE  LastInv' /\ EdgesToldOnce'
  <1>. DEFINE h == Next1(w).handler
              v == Next1(w).value
  <1>1. /\ h \in HandlerNames /\ IsCall(Next1(w), h, v) /\ Turns(w, {})
        /\ told' = [told EXCEPT ![h] = Append(told[h], v)]
    BY CallTurns
  <1>2. UNCHANGED <<reports, last>>
    BY DEF CallHandler
  <1>3. \A k, x : (k # h \/ x # v) => ~IsCall(Next1(w), k, x)
    BY DEF IsCall
  <1>4. In(Next1(w), todo[w]) /\ ListOK(todo[w])
    BY <1>1 DEF Turns, BaseInv, ListInv
  <1>. HIDE DEF h, v
  <1>5. \A k, x : Calls(k, x) = Cardinality(Made(k, x)) + Cardinality(Waiting(k, x))
    BY DEF Calls, Made, Waiting
  <1>6. \A k, x : Calls(k, x)' = Cardinality(Made(k, x)') + Cardinality(Waiting(k, x)')
    BY DEF Calls, Made, Waiting
  <1>7. told'[h] = Append(told[h], v) /\ \A k \in HandlerNames \ {h} : told'[k] = told[k]
    BY <1>1 DEF BaseInv, ToldInv
  <1>8. ASSUME NEW k \in HandlerNames, NEW x PROVE Calls(k, x)' = Calls(k, x)
    <2>1. CASE k = h /\ x = v
      <3>1. Pending(w, k, x) /\ ~Pending(w, k, x)'
        <4>1. Pending(w, k, x)
          BY <1>1, <1>4, <2>1, PendingIn
        <4>2. ~Pending(w, k, x)'
          BY <1>1, <2>1, TurnsPending
        <4>. QED
          BY <4>1, <4>2
      <3>2. \A u \in Workers \ {w} : Pending(u, k, x)' <=> Pending(u, k, x)
        BY <1>1, TurnsPending
      <3>3. Waiting(k, x)' = Waiting(k, x) \ {w} /\ w \in Waiting(k, x)
        BY <3>1, <3>2 DEF Waiting
      <3>4. Cardinality(Waiting(k, x)') = Cardinality(Waiting(k, x)) - 1
        BY <3>3, WaitingFinite, FS_RemoveElement
      <3>5. Cardinality(Made(k, x)') = Cardinality(Made(k, x)) + 1 /\ Cardinality(Made(k, x)) \in Nat
        BY <1>7, <2>1, MadeFinite
      <3>6. Cardinality(Waiting(k, x)) \in Nat
        BY WaitingFinite
      <3>. QED
        BY ONLY <1>5, <1>6, <3>4, <3>5, <3>6
    <2>2. CASE ~(k = h /\ x = v)
      <3>1. \A u \in Workers : Pending(u, k, x)' <=> Pending(u, k, x)
        <4>1. \A u \in Workers \ {w} : Pending(u, k, x)' <=> Pending(u, k, x)
          BY <1>1, TurnsPending
        <4>2. Pending(w, k, x)' <=> Pending(w, k, x) /\ ~IsCall(Next1(w), k, x)
          BY <1>1, TurnsPending
        <4>3. ~IsCall(Next1(w), k, x)
          BY <1>3, <2>2
        <4>. QED
          BY <4>1, <4>2, <4>3
      <3>2. Waiting(k, x)' = Waiting(k, x)
        BY <3>1 DEF Waiting
      <3>3. Cardinality(Made(k, x)') = Cardinality(Made(k, x))
        <4>1. CASE k # h
          <5>1. Made(k, x)' = Made(k, x)
            BY <1>7, <4>1 DEF Made
          <5>. QED
            BY <5>1
        <4>2. CASE k = h /\ x # v
          <5>1. told'[k] = Append(told[k], v)
            BY <1>7, <4>2
          <5>2. /\ Cardinality(Made(k, x)) \in Nat
                /\ Cardinality(Made(k, x)') = Cardinality(Made(k, x)) + (IF v = x THEN 1 ELSE 0)
            BY <5>1, MadeFinite
          <5>. QED
            BY <4>2, <5>2
        <4>. QED
          BY <2>2, <4>1, <4>2
      <3>. QED
        BY ONLY <1>5, <1>6, <3>2, <3>3
    <2>. QED
      BY <2>1, <2>2
  <1>9. LastInv'
    BY <1>2 DEF LastInv
  <1>10. Changes' = Changes /\ Presses' = Presses
    BY <1>2 DEF Changes, Presses
  <1>11. \A e \in MotionEvent : Calls("motion", e)' = Cardinality({i \in Changes' : reports'[i].event = e})
    BY <1>2, <1>8, <1>10 DEF EdgesToldOnce, HandlerNames
  <1>12. Calls("doorbell", TRUE)' = Cardinality(Presses')
    BY <1>8, <1>10 DEF EdgesToldOnce, HandlerNames
  <1>. QED
    BY <1>9, <1>11, <1>12 DEF EdgesToldOnce

LEMMA PlusOne ==
  ASSUME NEW A, IsFiniteSet(A), NEW x, x \notin A, NEW p \in BOOLEAN, NEW B,
         \A i : i \in B <=> i \in A \/ (i = x /\ p)
  PROVE  Cardinality(A) \in Nat /\ Cardinality(B) = Cardinality(A) + (IF p THEN 1 ELSE 0)
  <1>1. Cardinality(A) \in Nat
    BY FS_CardinalityType
  <1>2. CASE p
    <2>1. B = A \cup {x}
      BY <1>2
    <2>. QED
      BY <1>1, <1>2, <2>1, FS_AddElement
  <1>3. CASE ~p
    <2>1. B = A
      BY <1>3
    <2>. QED
      BY <1>1, <1>3, <2>1
  <1>. QED
    BY <1>2, <1>3

\* A report adds an edge and the call for it, or neither.
LEMMA EdgesReport ==
  ASSUME BaseInv, LastInv, EdgesToldOnce, NEW w \in Workers, HandleAlarm(w)
  PROVE  LastInv' /\ EdgesToldOnce'
  <1>. DEFINE s == Next1(w).state
              e == EventOf(s)
              n == Len(reports) + 1
              ring == s.visitor /\ ~last.visitor /\ "doorbell" \in handlers
              moved == last.motion # {e} /\ "motion" \in handlers
              N == {SetActive(e.active)} \cup {y \in {Call("doorbell", TRUE)} : ring}
                     \cup {y \in {Call("motion", e)} : moved}
  <1>1. Turns(w, N) /\ Next1(w).op = "report" /\ Len(todo[w]) = 1
    BY HandleAlarmTurns
  <1>2. /\ n \in Nat \ {0} /\ reports'[n] = Reported(w, s)
        /\ \A i \in 1..(n - 1) : reports'[i] = reports[i]
        /\ Changes \subseteq 1..(n - 1) /\ Presses \subseteq 1..(n - 1) /\ LastInv'
    BY ReportSets
  <1>3. \A i : i \in Changes' <=> i \in Changes \/ (i = n /\ moved)
    BY ReportSets
  <1>4. \A i : i \in Presses' <=> i \in Presses \/ (i = n /\ ring)
    BY ReportSets
  <1>5. reports'[n].event = e
    BY <1>2 DEF Reported
  <1>6. \A h, v : ~IsCall(Next1(w), h, v) /\ ~Pending(w, h, v)
    <2>1. todo[w] # <<>> /\ ListOK(todo[w])
      BY <1>1 DEF Turns, BaseInv, ListInv
    <2>2. \A y : In(y, todo[w]) => y = Next1(w)
      BY <1>1, <2>1, OnlyStep
    <2>. QED
      BY <1>1, <2>1, <2>2, PendingIn DEF IsCall
  <1>. HIDE DEF s, e, n
  <1>. DEFINE a == SetActive(e.active)
              b == Call("doorbell", TRUE)
              c == Call("motion", e)
  <1>7. /\ \A h, v : ~IsCall(a, h, v)
        /\ \A h, v : IsCall(b, h, v) <=> h = "doorbell" /\ v = TRUE
        /\ \A h, v : IsCall(c, h, v) <=> h = "motion" /\ v = e
    <2>1. /\ a.op = "setActive" /\ b.op = "call" /\ b.handler = "doorbell" /\ b.value = TRUE
          /\ c.op = "call" /\ c.handler = "motion" /\ c.value = e
      BY DEF SetActive, Call
    <2>. HIDE DEF a, b, c
    <2>. QED
      BY <2>1, Zenon DEF IsCall
  <1>. HIDE DEF ring, moved, a, b, c
  <1>8. ASSUME NEW v
        PROVE  /\ (\E y \in N : IsCall(y, "doorbell", v)) <=> v = TRUE /\ ring
               /\ (\E y \in N : IsCall(y, "motion", v)) <=> v = e /\ moved
    <2>1. \A y : y \in N <=> y = a \/ y \in {z \in {b} : ring} \/ y \in {z \in {c} : moved}
      BY Zenon DEF N, a, b, c
    <2>2. /\ \A y : y \in {z \in {b} : ring} <=> ring /\ y = b
          /\ \A y : y \in {z \in {c} : moved} <=> moved /\ y = c
      BY ONLY Zenon
    <2>3. \A y : y \in N <=> y = a \/ (ring /\ y = b) \/ (moved /\ y = c)
      BY ONLY <2>1, <2>2, Zenon
    <2>4. "doorbell" # "motion"
      OBVIOUS
    <2>. QED
      BY ONLY <1>7, <2>3, <2>4, Zenon
  <1>. DEFINE ringing == IF ring THEN TRUE ELSE FALSE
              moving(v) == IF v = e /\ moved THEN TRUE ELSE FALSE
  <1>. HIDE DEF N
  <1>9. ASSUME NEW h, NEW v, NEW u \in Workers
        PROVE  Pending(u, h, v)' <=> Pending(u, h, v) \/ (u = w /\ \E y \in N : IsCall(y, h, v))
    <2>1. CASE u # w
      BY <1>1, <2>1, TurnsPending
    <2>2. CASE u = w
      <3>1. Pending(w, h, v)' <=> \/ \E y \in N : IsCall(y, h, v)
                                  \/ Pending(w, h, v) /\ ~IsCall(Next1(w), h, v)
        BY <1>1, TurnsPending
      <3>. QED
        BY <1>6, <2>2, <3>1
    <2>. QED
      BY <2>1, <2>2
  <1>10. told' = told
    BY DEF HandleAlarm
  <1>11. \A h, v : Made(h, v)' = Made(h, v)
    BY <1>10 DEF Made
  <1>12. /\ \A h, v : Calls(h, v) = Cardinality(Made(h, v)) + Cardinality(Waiting(h, v))
         /\ \A h, v : Calls(h, v)' = Cardinality(Made(h, v)') + Cardinality(Waiting(h, v)')
    BY DEF Calls, Made, Waiting
  <1>13. IsFiniteSet(1..(n - 1)) /\ n \notin 1..(n - 1)
    BY <1>2, FS_Interval
  <1>14. ASSUME NEW v \in MotionEvent
         PROVE  Calls("motion", v)' = Cardinality({i \in Changes' : reports'[i].event = v})
    <2>. DEFINE A == {i \in Changes : reports[i].event = v}
                B == {i \in Changes' : reports'[i].event = v}
                p == moving(v)
    <2>1. \A u : u \in Waiting("motion", v)' <=> u \in Waiting("motion", v) \/ (u = w /\ p)
      BY <1>8, <1>9 DEF Waiting
    <2>2. w \notin Waiting("motion", v)
      BY <1>6 DEF Waiting
    <2>3. \A i : i \in B <=> i \in A \/ (i = n /\ p)
      BY <1>2, <1>3, <1>5
    <2>4. IsFiniteSet(A) /\ n \notin A
      BY <1>2, <1>13, FS_Subset
    <2>5. p \in BOOLEAN
      OBVIOUS
    <2>. HIDE DEF A, B, p
    <2>6. Cardinality(B) = Cardinality(A) + (IF p THEN 1 ELSE 0) /\ Cardinality(A) \in Nat
      BY <2>3, <2>4, <2>5, PlusOne
    <2>7. Cardinality(Waiting("motion", v)') = Cardinality(Waiting("motion", v)) + (IF p THEN 1 ELSE 0)
      BY <2>1, <2>2, <2>5, WaitingFinite, PlusOne
    <2>8. Calls("motion", v) = Cardinality(A)
      BY DEF EdgesToldOnce, A
    <2>9. Cardinality(Made("motion", v)) \in Nat /\ Cardinality(Waiting("motion", v)) \in Nat
      BY MadeFinite, WaitingFinite DEF HandlerNames
    <2>10. Calls("motion", v)' = Cardinality(B)
      BY <1>11, <1>12, <2>6, <2>7, <2>8, <2>9
    <2>. QED
      BY <2>10 DEF B
  <1>15. Calls("doorbell", TRUE)' = Cardinality(Presses')
    <2>. DEFINE A == Waiting("doorbell", TRUE)
                B == Waiting("doorbell", TRUE)'
                M == Cardinality(Made("doorbell", TRUE))
                C == Calls("doorbell", TRUE)'
    <2>1. /\ \A u : u \in B <=> u \in A \/ (u = w /\ ringing)
          /\ w \notin A
      BY <1>6, <1>8, <1>9 DEF Waiting
    <2>2. \A i : i \in Presses' <=> i \in Presses \/ (i = n /\ ringing)
      BY <1>4
    <2>3. IsFiniteSet(Presses) /\ n \notin Presses
      BY <1>2, <1>13, FS_Subset
    <2>4. ringing \in BOOLEAN
      OBVIOUS
    <2>5. IsFiniteSet(A) /\ Cardinality(A) \in Nat /\ M \in Nat
      BY MadeFinite, WaitingFinite DEF HandlerNames
    <2>6. Cardinality(Presses) = M + Cardinality(A) /\ C = M + Cardinality(B)
      BY <1>11, <1>12 DEF EdgesToldOnce
    <2>. HIDE DEF A, B, M, C, ringing
    <2>7. Cardinality(Presses') = Cardinality(Presses) + (IF ringing THEN 1 ELSE 0)
      BY <2>2, <2>3, <2>4, PlusOne
    <2>8. Cardinality(B) = Cardinality(A) + (IF ringing THEN 1 ELSE 0)
      BY <2>1, <2>4, <2>5, PlusOne
    <2>9. C = Cardinality(Presses')
      BY ONLY <2>5, <2>6, <2>7, <2>8
    <2>. QED
      BY ONLY <2>9 DEF C
  <1>16. EdgesToldOnce'
    BY <1>14, <1>15 DEF EdgesToldOnce
  <1>. QED
    BY <1>2, <1>16

EdgesInv == BaseInv /\ LastInv /\ EdgesToldOnce

\* Neither motion nor a press is called by the steps of the list.
LEMMA EdgesTurn ==
  ASSUME EdgesInv, NEW w \in Workers, NEW N, Turns(w, N), UNCHANGED <<told, reports>>,
         last'.visitor = last.visitor, last'.motion = last.motion, Next1(w).op # "call",
         \A y \in N : y.op = "call" => y.handler \notin {"motion", "doorbell"}
  PROVE  LastInv' /\ EdgesToldOnce'
  <1>1. ASSUME NEW h \in {"motion", "doorbell"}, NEW v, NEW u \in Workers
        PROVE  Pending(u, h, v)' <=> Pending(u, h, v)
    <2>1. ~IsCall(Next1(w), h, v) /\ ~\E y \in N : IsCall(y, h, v)
      BY DEF IsCall
    <2>2. Pending(w, h, v)' <=> \/ \E y \in N : IsCall(y, h, v)
                                \/ Pending(w, h, v) /\ ~IsCall(Next1(w), h, v)
      BY TurnsPending DEF EdgesInv
    <2>3. \A x \in Workers \ {w} : Pending(x, h, v)' <=> Pending(x, h, v)
      BY TurnsPending DEF EdgesInv
    <2>. QED
      BY <2>1, <2>2, <2>3
  <1>. QED
    BY <1>1, EdgesStay DEF EdgesInv

LEMMA InitEdges == Init => EdgesInv
  <1>. SUFFICES ASSUME Init PROVE EdgesInv
    OBVIOUS
  <1>1. BaseInv
    BY InitBase
  <1>2. LastInv
    BY DEF Init, LastInv
  <1>3. \A h, v : Waiting(h, v) = {}
    <2>1. \A u \in Workers : DOMAIN todo[u] = {}
      BY DEF Init
    <2>. QED
      BY <2>1 DEF Waiting, Pending
  <1>4. \A h \in HandlerNames : \A v : Made(h, v) = {}
    <2>1. \A h \in HandlerNames : DOMAIN told[h] = {}
      BY DEF Init
    <2>. QED
      BY <2>1 DEF Made
  <1>5. Changes = {} /\ Presses = {}
    <2>1. DOMAIN reports = {}
      BY DEF Init
    <2>. QED
      BY <2>1 DEF Changes, Presses
  <1>6. \A h, v : Calls(h, v) = Cardinality(Made(h, v)) + Cardinality(Waiting(h, v))
    BY DEF Calls, Made, Waiting
  <1>7. Cardinality({}) = 0
    BY FS_EmptySet
  <1>8. \A h \in HandlerNames : \A v : Calls(h, v) = 0
    BY <1>3, <1>4, <1>6, <1>7
  <1>9. EdgesToldOnce
    <2>1. "motion" \in HandlerNames /\ "doorbell" \in HandlerNames
      BY DEF HandlerNames
    <2>2. \A v : {i \in Changes : reports[i].event = v} = {}
      BY <1>5
    <2>. QED
      BY <1>5, <1>7, <1>8, <2>1, <2>2 DEF EdgesToldOnce
  <1>. QED
    BY <1>1, <1>2, <1>9 DEF EdgesInv

LEMMA NextEdges == EdgesInv /\ [Next]_vars => EdgesInv'
  <1>. SUFFICES ASSUME EdgesInv, [Next]_vars PROVE EdgesInv'
    OBVIOUS
  <1>0. BaseInv /\ BaseInv'
    BY NextBase DEF EdgesInv
  <1>. SUFFICES LastInv' /\ EdgesToldOnce'
    BY <1>0 DEF EdgesInv
  <1>1. CASE UNCHANGED vars \/ Sessions
    <2>1. UNCHANGED <<todo, last, reports, told>>
      BY <1>0, <1>1, SessionsBase DEF vars
    <2>. QED
      BY <2>1, EdgesStay DEF EdgesInv, Pending, IsCall
  <1>2. ASSUME NEW w \in Workers, NEW push, Fresh(w, push), Receive(w, push)
        PROVE  LastInv' /\ EdgesToldOnce'
    <2>1. /\ UNCHANGED <<last, reports, told>>
          /\ \A v \in Workers \ {w} : todo'[v] = todo[v]
          /\ \A y : ~In(y, todo[w])
          /\ \A y : In(y, todo'[w]) => y.op \notin {"call", "setActive"}
          /\ ListOK(todo'[w]) /\ ListOK(todo[w])
      BY <1>0, <1>2, ArrivesParts DEF BaseInv, ListInv
    <2>2. \A h, v : ~Pending(w, h, v) /\ ~Pending(w, h, v)'
      BY <2>1, PendingIn DEF IsCall
    <2>3. \A u \in Workers \ {w} : \A h, v : Pending(u, h, v)' <=> Pending(u, h, v)
      BY <2>1 DEF Pending, IsCall
    <2>. QED
      BY <2>1, <2>2, <2>3, EdgesStay DEF EdgesInv
  <1>3. CASE HandleConnection
    <2>. DEFINE v == Next1(Link).value
    <2>1. /\ last' = [last EXCEPT !.connection = {v}] /\ UNCHANGED <<reports, told>>
          /\ Next1(Link).op = "connection" /\ Link \in Workers
          /\ Turns(Link, {y \in {Call("connection", v)} : "connection" \in handlers})
      BY <1>0, <1>3, ConnectionBase DEF Workers
    <2>2. last'.visitor = last.visitor /\ last'.motion = last.motion
      BY <1>0, <2>1 DEF BaseInv, ShapeInv, Keys
    <2>3. Call("connection", v).handler = "connection"
      BY DEF Call
    <2>. QED
      BY <2>1, <2>2, <2>3, EdgesTurn
  <1>4. ASSUME NEW h \in Handlers, Register(h)
        PROVE  LastInv' /\ EdgesToldOnce'
    <2>1. /\ UNCHANGED <<last, reports, told>> /\ todo[Api] = <<>> /\ Api \in Workers
          /\ \A v \in Workers \ {Api} : todo'[v] = todo[v]
          /\ \/ UNCHANGED todo
             \/ \E b \in BOOLEAN : \A y : In(y, todo'[Api]) <=> y = Call("connection", b)
      BY <1>0, <1>4, RegisterBase DEF Workers
    <2>2. \A b \in BOOLEAN : \A v : \A k \in {"motion", "doorbell"} : ~IsCall(Call("connection", b), k, v)
      BY DEF IsCall, Call
    <2>3. ListOK(todo'[Api]) /\ ListOK(todo[Api]) /\ \A y : ~In(y, todo[Api])
      BY <1>0, <2>1, EmptyList DEF BaseInv, ListInv
    <2>4. \A k \in {"motion", "doorbell"} : \A v : ~Pending(Api, k, v)
      BY <2>1, <2>3, PendingIn
    <2>5. \A k \in {"motion", "doorbell"} : \A v : ~Pending(Api, k, v)'
      BY <2>1, <2>2, <2>3, PendingIn
    <2>6. \A u \in Workers \ {Api} : \A k, v : Pending(u, k, v)' <=> Pending(u, k, v)
      BY <2>1 DEF Pending, IsCall
    <2>. QED
      BY <2>1, <2>4, <2>5, <2>6, EdgesStay DEF EdgesInv
  <1>5. ASSUME NEW w \in Workers, Work(w)
        PROVE  LastInv' /\ EdgesToldOnce'
    <2>1. CASE CallHandler(w)
      BY <2>1, EdgesCall DEF EdgesInv
    <2>2. CASE HandleAlarm(w)
      BY <2>2, EdgesReport DEF EdgesInv
    <2>3. CASE PauseSetActive(w)
      <3>1. /\ todo[w] # <<>> /\ Proceed(w, <<>>) /\ Next1(w).op # "call"
            /\ UNCHANGED <<last, reports, told>>
        BY <2>3 DEF PauseSetActive, At, Idle
      <3>2. Turns(w, {})
        BY <1>0, <3>1, PlainTurns
      <3>. QED
        BY <3>1, <3>2, EdgesTurn
    <2>4. ASSUME NEW N, Behind(w, N) PROVE LastInv' /\ EdgesToldOnce'
      BY <2>4, EdgesTurn DEF Behind
    <2>. QED
      BY <1>0, <1>5, <2>1, <2>2, <2>3, <2>4, WorkKinds
  <1>. QED
    BY <1>1, <1>2, <1>3, <1>4, <1>5, NextKinds DEF Arrives

\* handleAlarm: whatever the listeners, POSTs and registrations, every change of
\* the motion state and every rising edge of the doorbell is told exactly once.
THEOREM EdgesTold == Spec => []EdgesToldOnce
  <1>1. EdgesInv => EdgesToldOnce
    BY DEF EdgesInv
  <1>. QED
    BY <1>1, InitEdges, NextEdges, PTL DEF Spec

-----------------------------------------------------------------------------
(***************************************************************************)
(* What holds unless a push was decided while an older one was undelivered. *)
(***************************************************************************)
Has(w, op) == \E y : In(y, todo[w]) /\ y.op = op

\* The motion handler is told the changes in order; at most the last of them is
\* still to be told.
OrderInv ==
  /\ \A i \in DOMAIN told["motion"] :
       \E c \in Changes : IsChange(i, c) /\ told["motion"][i] = reports[c].event
  /\ (\A w \in Workers : \A e : ~Pending(w, "motion", e)) => Len(told["motion"]) = Cardinality(Changes)
  /\ \A w \in Workers : \A e : Pending(w, "motion", e) =>
       /\ Len(told["motion"]) + 1 = Cardinality(Changes)
       /\ \A u \in Workers : \A f : Pending(u, "motion", f) => u = w /\ f = e
       /\ \E c \in Changes : reports[c].event = e /\ \A d \in Changes : d <= c

\* The pause logic has the last report, or is about to.
Active == {e.active : e \in last.motion}
PauseInv ==
  /\ \A w \in Workers : \A y : In(y, todo[w]) /\ y.op = "setActive" => Active = {y.value}
  /\ (\A w \in Workers : ~Has(w, "setActive")) => pause = Active

\* So has the connection handler the connection's state.
LinkInv ==
  "connection" \in handlers =>
    /\ \A w \in Workers : \A b : Pending(w, "connection", b) => last.connection = {b}
    /\ (\A w \in Workers : \A b : ~Pending(w, "connection", b)) => last.connection = LastTold("connection")

\* A report of the webhook is what its merger holds, unless a sleep push is about
\* to reset it or a later POST has merged more; so is the last report handled.
HookInv ==
  /\ \A p \in Posts : \A y :
       In(y, todo[p]) /\ y.op = "report" /\ ~Has(p, "reset") /\ (\A q \in Posts \ {p} : ~Has(q, "report"))
         => y.state = Merged(merger[Webhook])
  /\ (\A p \in Posts : ~Has(p, "report")) /\ reports # <<>> /\ reports[Len(reports)].webhook =>
       /\ last.motion = {EventOf(Merged(merger[Webhook]))}
       /\ last.visitor = merger[Webhook].alarm.visitor

UnracedInv == ~raced => OrderInv /\ PauseInv /\ LinkInv /\ HookInv
SettleInv == BaseInv /\ LastInv /\ UnracedInv

-----------------------------------------------------------------------------
\* Steps that leave each part as it was.
LEMMA OrderStay ==
  ASSUME OrderInv, UNCHANGED reports, told'["motion"] = told["motion"],
         \A w \in Workers : \A e : Pending(w, "motion", e)' <=> Pending(w, "motion", e)
  PROVE  OrderInv'
  <1>1. Changes' = Changes
    BY DEF Changes
  <1>2. \A i, c : IsChange(i, c)' <=> IsChange(i, c)
    BY <1>1 DEF IsChange
  <1>. QED
    BY <1>1, <1>2 DEF OrderInv

LEMMA PauseStay ==
  ASSUME PauseInv, UNCHANGED pause, last'.motion = last.motion,
         \A w \in Workers : \A y : y.op = "setActive" => (In(y, todo'[w]) <=> In(y, todo[w]))
  PROVE  PauseInv'
  <1>1. Active' = Active
    BY DEF Active
  <1>2. \A w \in Workers : Has(w, "setActive")' <=> Has(w, "setActive")
    BY DEF Has, In
  <1>3. \A w \in Workers : \A y : In(y, todo[w])' <=> In(y, todo'[w])
    BY DEF In
  <1>4. \A w \in Workers : \A y : In(y, todo[w])' /\ y.op = "setActive" => Active' = {y.value}
    BY <1>1, <1>3 DEF PauseInv
  <1>. QED
    BY <1>1, <1>2, <1>4 DEF PauseInv

LEMMA LinkStay ==
  ASSUME LinkInv, told'["connection"] = told["connection"], last'.connection = last.connection,
         "connection" \in handlers' => "connection" \in handlers,
         \A w \in Workers : \A b : Pending(w, "connection", b)' <=> Pending(w, "connection", b)
  PROVE  LinkInv'
  <1>1. LastTold("connection")' = LastTold("connection")
    BY DEF LastTold
  <1>. QED
    BY <1>1 DEF LinkInv

LEMMA HookStay ==
  ASSUME HookInv, UNCHANGED reports, last'.motion = last.motion, last'.visitor = last.visitor,
         merger'[Webhook] = merger[Webhook],
         \A p \in Posts : \A y : y.op \in {"report", "reset"} => (In(y, todo'[p]) <=> In(y, todo[p]))
  PROVE  HookInv'
  <1>1. \A p \in Posts : \A op \in {"report", "reset"} : Has(p, op)' <=> Has(p, op)
    BY DEF Has, In
  <1>2. \A p \in Posts : \A y : y.op = "report" => (In(y, todo[p])' <=> In(y, todo[p]))
    BY DEF In
  <1>3. EventOf(Merged(merger[Webhook]))' = EventOf(Merged(merger[Webhook]))
        /\ Merged(merger[Webhook])' = Merged(merger[Webhook])
    BY DEF EventOf, Merged
  <1>4. ASSUME NEW p \in Posts, NEW y, In(y, todo[p])', y.op = "report", ~Has(p, "reset")',
               \A q \in Posts \ {p} : ~Has(q, "report")'
        PROVE  y.state = Merged(merger[Webhook])'
    BY <1>1, <1>2, <1>3, <1>4 DEF HookInv
  <1>5. ASSUME \A p \in Posts : ~Has(p, "report")', reports' # <<>>, reports'[Len(reports')].webhook
        PROVE  /\ last'.motion = {EventOf(Merged(merger[Webhook]))'}
               /\ last'.visitor = merger'[Webhook].alarm.visitor
    <2>1. \A p \in Posts : ~Has(p, "report")
      BY <1>1, <1>5
    <2>2. reports # <<>> /\ reports[Len(reports)].webhook
      BY <1>5
    <2>. QED
      BY <1>3, <2>1, <2>2 DEF HookInv
  <1>. QED
    BY <1>4, <1>5 DEF HookInv

-----------------------------------------------------------------------------
(***************************************************************************)
(* The steps that change a part.                                           *)
(***************************************************************************)
\* What a state decided unraced means for the others.
LEMMA UnracedAlone ==
  ASSUME BaseInv, NEW w \in Workers, ~Races(w)
  PROVE  /\ ~raced
         /\ \A v \in Workers \ {w} : \A y : In(y, todo[v]) => y.op \notin {"report", "call", "setActive"}
         /\ \A v \in Workers \ {w} : \A h, x : ~Pending(v, h, x)
  <1>1. ~raced
    BY DEF Races
  <1>2. ASSUME NEW v \in Workers \ {w}, NEW y, In(y, todo[v])
        PROVE  y.op \notin {"report", "call", "setActive"}
    <2>1. DOMAIN todo[v] = 1..Len(todo[v])
      BY DEF BaseInv, ListInv, ListOK
    <2>. QED
      BY <1>2, <2>1 DEF Races, Undelivered, In
  <1>3. \A v \in Workers \ {w} : \A h, x : ~Pending(v, h, x)
    <2>1. \A v \in Workers : ListOK(todo[v])
      BY DEF BaseInv, ListInv
    <2>. QED
      BY <1>2, <2>1, PendingIn DEF IsCall
  <1>. QED
    BY <1>1, <1>2, <1>3

\* A report handled unraced.
LEMMA ReportOrder ==
  ASSUME BaseInv, LastInv, OrderInv, NEW w \in Workers, HandleAlarm(w), ~Races(w)
  PROVE  OrderInv'
  <1>. DEFINE s == Next1(w).state
              e == EventOf(s)
              n == Len(reports) + 1
              moved == last.motion # {e} /\ "motion" \in handlers
              ring == s.visitor /\ ~last.visitor /\ "doorbell" \in handlers
              N == {SetActive(e.active)} \cup {y \in {Call("doorbell", TRUE)} : ring}
                     \cup {y \in {Call("motion", e)} : moved}
  <1>1. Turns(w, N) /\ Next1(w).op = "report" /\ Len(todo[w]) = 1
    BY HandleAlarmTurns
  <1>2. /\ n \in Nat \ {0} /\ reports'[n] = Reported(w, s)
        /\ \A i \in 1..(n - 1) : reports'[i] = reports[i]
        /\ Changes \subseteq 1..(n - 1)
    BY ReportSets
  <1>3. \A i : i \in Changes' <=> i \in Changes \/ (i = n /\ moved)
    BY ReportSets
  <1>4. reports'[n].event = e /\ told' = told
    BY <1>2 DEF Reported, HandleAlarm
  <1>5. \A v \in Workers : \A h, x : ~Pending(v, h, x)
    <2>1. todo[w] # <<>> /\ ListOK(todo[w])
      BY <1>1 DEF Turns, BaseInv, ListInv
    <2>2. \A y : In(y, todo[w]) => y = Next1(w)
      BY <1>1, <2>1, OnlyStep
    <2>3. \A h, x : ~Pending(w, h, x)
      BY <1>1, <2>1, <2>2, PendingIn DEF IsCall
    <2>. QED
      BY <2>3, UnracedAlone
  <1>6. \A y \in N : \A x : IsCall(y, "motion", x) => x = e /\ moved
    <2>1. \A y \in N : \/ y = SetActive(e.active) \/ y = Call("doorbell", TRUE)
                       \/ moved /\ y = Call("motion", e)
      OBVIOUS
    <2>2. \A x : /\ ~IsCall(SetActive(e.active), "motion", x) /\ ~IsCall(Call("doorbell", TRUE), "motion", x)
                 /\ IsCall(Call("motion", e), "motion", x) => x = e
      BY DEF IsCall, SetActive, Call
    <2>. HIDE DEF N, moved, e
    <2>. QED
      BY <2>1, <2>2
  <1>7. \E x : moved => IsCall(Call("motion", e), "motion", x) /\ Call("motion", e) \in N
    BY DEF IsCall, Call
  <1>. HIDE DEF N, s
  <1>8. ASSUME NEW v \in Workers, NEW x, Pending(v, "motion", x)' PROVE v = w /\ x = e /\ moved
    <2>1. v = w
      BY <1>1, <1>5, <1>8, TurnsPending
    <2>2. \E y \in N : IsCall(y, "motion", x)
      BY <1>1, <1>5, <1>8, <2>1, TurnsPending
    <2>. QED
      BY <1>6, <2>1, <2>2
  <1>9. moved => \E x : Pending(w, "motion", x)'
    BY <1>1, <1>7, TurnsPending
  <1>. HIDE DEF n, e, moved
  <1>10. IsFiniteSet(Changes) /\ n \notin Changes
    <2>1. IsFiniteSet(1..(n - 1)) /\ n \notin 1..(n - 1)
      BY <1>2, FS_Interval
    <2>. QED
      BY <1>2, <2>1, FS_Subset
  <1>11. Cardinality(Changes) = Len(told["motion"]) /\ Cardinality(Changes) \in Nat
    BY <1>5, <1>10, FS_CardinalityType DEF OrderInv
  <1>12. ASSUME NEW i \in DOMAIN told'["motion"]
         PROVE  \E c \in Changes' : IsChange(i, c)' /\ told'["motion"][i] = reports'[c].event
    <2>1. PICK c \in Changes : IsChange(i, c) /\ told["motion"][i] = reports[c].event
      BY <1>4, <1>12 DEF OrderInv
    <2>2. c \in Changes' /\ reports'[c] = reports[c]
      BY <1>2, <1>3
    <2>3. {d \in Changes' : d <= c} = {d \in Changes : d <= c}
      BY <1>2, <1>3
    <2>4. IsChange(i, c)'
      BY <2>1, <2>3 DEF IsChange
    <2>. QED
      BY <1>4, <2>1, <2>2, <2>4
  <1>13. CASE ~moved
    <2>1. Changes' = Changes
      BY <1>3, <1>13
    <2>2. \A v \in Workers : \A x : ~Pending(v, "motion", x)'
      BY <1>8, <1>13
    <2>. QED
      BY <1>4, <1>11, <1>12, <2>1, <2>2 DEF OrderInv
  <1>14. CASE moved
    <2>1. Changes' = Changes \cup {n} /\ n \in Changes'
      BY <1>3, <1>14
    <2>2. Cardinality(Changes') = Cardinality(Changes) + 1
      BY <1>10, <2>1, FS_AddElement
    <2>3. \A d \in Changes' : d <= n
      BY <1>2, <2>1
    <2>4. Len(told'["motion"]) + 1 = Cardinality(Changes')
      BY <1>4, <1>11, <2>2
    <2>5. ~\A v \in Workers : \A x : ~Pending(v, "motion", x)'
      BY <1>9, <1>14
    <2>6. ASSUME NEW v \in Workers, NEW x, Pending(v, "motion", x)'
          PROVE  /\ Len(told'["motion"]) + 1 = Cardinality(Changes')
                 /\ \A u \in Workers : \A f : Pending(u, "motion", f)' => u = v /\ f = x
                 /\ \E c \in Changes' : reports'[c].event = x /\ \A d \in Changes' : d <= c
      <3>1. v = w /\ x = e
        BY <1>8, <2>6
      <3>2. \A u \in Workers : \A f : Pending(u, "motion", f)' => u = v /\ f = x
        BY <1>8, <3>1
      <3>3. reports'[n].event = x
        BY <1>4, <3>1
      <3>. QED
        BY <2>1, <2>3, <2>4, <3>2, <3>3
    <2>. QED
      BY <1>12, <2>5, <2>6 DEF OrderInv
  <1>. QED
    BY <1>13, <1>14

\* The motion handler is called.
LEMMA CallOrder ==
  ASSUME BaseInv, OrderInv, NEW w \in Workers, CallHandler(w)
  PROVE  OrderInv'
  <1>. DEFINE h == Next1(w).handler
              v == Next1(w).value
              t == told["motion"]
  <1>1. /\ h \in HandlerNames /\ IsCall(Next1(w), h, v) /\ Turns(w, {})
        /\ told' = [told EXCEPT ![h] = Append(told[h], v)]
    BY CallTurns
  <1>2. UNCHANGED reports
    BY DEF CallHandler
  <1>3. \A k, x : (k # h \/ x # v) => ~IsCall(Next1(w), k, x)
    BY DEF IsCall
  <1>4. In(Next1(w), todo[w]) /\ ListOK(todo[w])
    BY <1>1 DEF Turns, BaseInv, ListInv
  <1>5. told'[h] = Append(told[h], v) /\ \A k \in HandlerNames \ {h} : told'[k] = told[k]
    BY <1>1 DEF BaseInv, ToldInv
  <1>. HIDE DEF h, v
  <1>6. CASE h # "motion"
    <2>1. told'["motion"] = told["motion"]
      BY <1>5, <1>6 DEF HandlerNames
    <2>2. ASSUME NEW u \in Workers, NEW e PROVE Pending(u, "motion", e)' <=> Pending(u, "motion", e)
      <3>1. ~IsCall(Next1(w), "motion", e)
        BY <1>3, <1>6
      <3>2. Pending(w, "motion", e)' <=> Pending(w, "motion", e) /\ ~IsCall(Next1(w), "motion", e)
        BY <1>1, TurnsPending
      <3>3. u # w => (Pending(u, "motion", e)' <=> Pending(u, "motion", e))
        BY <1>1, TurnsPending
      <3>. QED
        BY <3>1, <3>2, <3>3
    <2>. QED
      BY <1>2, <2>1, <2>2, OrderStay
  <1>7. CASE h = "motion"
    <2>1. Pending(w, "motion", v)
      BY <1>1, <1>4, <1>7, PendingIn
    <2>2. /\ Len(t) + 1 = Cardinality(Changes)
          /\ \A u \in Workers : \A f : Pending(u, "motion", f) => u = w /\ f = v
      BY <2>1 DEF OrderInv
    <2>3. PICK c \in Changes : reports[c].event = v /\ \A d \in Changes : d <= c
      BY <2>1 DEF OrderInv
    <2>4. \A u \in Workers : \A f : ~Pending(u, "motion", f)'
      <3>1. \A f : Pending(w, "motion", f)' <=> Pending(w, "motion", f) /\ ~IsCall(Next1(w), "motion", f)
        BY <1>1, TurnsPending
      <3>2. \A u \in Workers \ {w} : \A f : Pending(u, "motion", f)' <=> Pending(u, "motion", f)
        BY <1>1, TurnsPending
      <3>. QED
        BY <1>1, <1>7, <2>2, <3>1, <3>2
    <2>5. PICK S : t \in Seq(S)
      BY DEF BaseInv, ToldInv
    <2>6. told'["motion"] = Append(t, v)
      BY <1>5, <1>7
    <2>. HIDE DEF t
    <2>7. /\ Len(told'["motion"]) = Len(t) + 1 /\ Len(t) \in Nat /\ told'["motion"][Len(t) + 1] = v
          /\ \A i \in DOMAIN told'["motion"] : i = Len(t) + 1 \/ (i \in DOMAIN t /\ told'["motion"][i] = t[i])
      <3>1. t \in Seq(S \cup {v})
        BY <2>5
      <3>. QED
        BY <2>6, <3>1
    <2>8. Changes' = Changes /\ \A i, d : IsChange(i, d)' <=> IsChange(i, d)
      BY <1>2 DEF Changes, IsChange
    <2>9. IsChange(Len(t) + 1, c)
      <3>1. {d \in Changes : d <= c} = Changes
        BY <2>3
      <3>. QED
        BY <2>2, <3>1 DEF IsChange, t
    <2>10. \A i \in DOMAIN t : \E d \in Changes : IsChange(i, d) /\ t[i] = reports[d].event
      BY DEF OrderInv, t
    <2>11. ASSUME NEW i \in DOMAIN told'["motion"]
           PROVE  \E d \in Changes' : IsChange(i, d)' /\ told'["motion"][i] = reports'[d].event
      <3>1. CASE i = Len(t) + 1
        BY <1>2, <2>3, <2>7, <2>8, <2>9, <3>1
      <3>2. CASE i \in DOMAIN t /\ told'["motion"][i] = t[i]
        BY <1>2, <2>8, <2>10, <3>2
      <3>. QED
        BY <2>7, <3>1, <3>2
    <2>12. Len(told'["motion"]) = Cardinality(Changes')
      BY <2>2, <2>7, <2>8 DEF t
    <2>. QED
      BY <2>4, <2>11, <2>12 DEF OrderInv
  <1>. QED
    BY <1>6, <1>7

LEMMA TurnOps ==
  ASSUME BaseInv, NEW w \in Workers, NEW N, Turns(w, N), NEW op, Next1(w).op # op, \A y \in N : y.op # op
  PROVE  \A u \in Workers : \A y : y.op = op => (In(y, todo'[u]) <=> In(y, todo[u]))
  <1>. SUFFICES ASSUME NEW u \in Workers, NEW y, y.op = op PROVE In(y, todo'[u]) <=> In(y, todo[u])
    OBVIOUS
  <1>1. CASE u # w
    BY <1>1 DEF Turns
  <1>2. CASE u = w
    <2>1. In(y, todo'[w]) <=> y \in N \/ (In(y, todo[w]) /\ y # Next1(w))
      BY DEF Turns
    <2>. QED
      BY <1>2, <2>1
  <1>. QED
    BY <1>1, <1>2

LEMMA TurnCalls ==
  ASSUME BaseInv, NEW w \in Workers, NEW N, Turns(w, N), NEW h,
         ~(Next1(w).op = "call" /\ Next1(w).handler = h), \A y \in N : ~(y.op = "call" /\ y.handler = h)
  PROVE  \A u \in Workers : \A x : Pending(u, h, x)' <=> Pending(u, h, x)
  <1>. SUFFICES ASSUME NEW u \in Workers, NEW x PROVE Pending(u, h, x)' <=> Pending(u, h, x)
    OBVIOUS
  <1>1. ~IsCall(Next1(w), h, x) /\ ~\E y \in N : IsCall(y, h, x)
    BY DEF IsCall
  <1>2. Pending(w, h, x)' <=> \/ \E y \in N : IsCall(y, h, x)
                              \/ Pending(w, h, x) /\ ~IsCall(Next1(w), h, x)
    BY TurnsPending
  <1>3. \A v \in Workers \ {w} : Pending(v, h, x)' <=> Pending(v, h, x)
    BY TurnsPending
  <1>. QED
    BY <1>1, <1>2, <1>3

\* A report handled unraced, for the pause logic, the connection and the webhook.
LEMMA ReportRest ==
  ASSUME BaseInv, LastInv, PauseInv, LinkInv, HookInv, NEW w \in Workers, HandleAlarm(w), ~Races(w)
  PROVE  PauseInv' /\ LinkInv' /\ HookInv'
  <1>. DEFINE s == Next1(w).state
              e == EventOf(s)
              n == Len(reports) + 1
              moved == last.motion # {e} /\ "motion" \in handlers
              ring == s.visitor /\ ~last.visitor /\ "doorbell" \in handlers
              N == {SetActive(e.active)} \cup {y \in {Call("doorbell", TRUE)} : ring}
                     \cup {y \in {Call("motion", e)} : moved}
  <1>1. Turns(w, N) /\ Next1(w).op = "report" /\ Len(todo[w]) = 1 /\ todo[w] # <<>>
    BY HandleAlarmTurns DEF Turns
  <1>2. /\ Len(reports') = n /\ reports'[n] = Reported(w, s)
    BY ReportSets
  <1>3. /\ UNCHANGED <<merger, handlers, pause, told>>
        /\ last' = [last EXCEPT !.visitor = s.visitor, !.motion = {e}]
    BY DEF HandleAlarm
  <1>4. last'.visitor = s.visitor /\ last'.motion = {e} /\ last'.connection = last.connection
    BY <1>3 DEF BaseInv, ShapeInv, Keys
  <1>5. \A y : In(y, todo[w]) <=> y = Next1(w)
    BY <1>1, OnlyStep
  <1>6. \A u \in Workers \ {w} : \A y : In(y, todo[u]) => y.op \notin {"report", "call", "setActive"}
    BY UnracedAlone
  <1>7. \A y \in N : \/ y = SetActive(e.active)
                     \/ y.op = "call" /\ y.handler \in {"doorbell", "motion"}
    BY DEF Call
  <1>8. SetActive(e.active) \in N /\ SetActive(e.active).op = "setActive" /\ SetActive(e.active).value = e.active
    BY DEF SetActive
  <1>. HIDE DEF N
  <1>9. \A y : In(y, todo'[w]) <=> y \in N
    BY <1>1, <1>5 DEF Turns
  <1>10. \A u \in Workers \ {w} : todo'[u] = todo[u]
    BY <1>1 DEF Turns
  <1>. HIDE DEF e, s, n
  <1>11. PauseInv'
    <2>1. Active' = {e.active}
      BY <1>4 DEF Active
    <2>2. ASSUME NEW u \in Workers, NEW y, In(y, todo'[u]), y.op = "setActive" PROVE Active' = {y.value}
      <3>1. u = w
        BY <1>6, <1>10, <2>2
      <3>2. y = SetActive(e.active)
        BY <1>7, <1>9, <2>2, <3>1
      <3>. QED
        BY <1>8, <2>1, <3>2
    <2>3. Has(w, "setActive")'
      <3>1. In(SetActive(e.active), todo'[w])
        BY <1>8, <1>9
      <3>. QED
        BY <1>8, <3>1 DEF Has, In
    <2>. QED
      BY <2>2, <2>3 DEF PauseInv, In
  <1>12. LinkInv'
    <2>1. \A u \in Workers : \A b : Pending(u, "connection", b)' <=> Pending(u, "connection", b)
      BY <1>1, <1>7, <1>8, TurnCalls
    <2>. QED
      BY <1>3, <1>4, <2>1, LinkStay
  <1>13. HookInv'
    <2>1. \A p \in Posts : p \in Workers
      BY DEF Workers
    <2>2. \A p \in Posts : ~Has(p, "report")'
      <3>1. \A p \in Posts : \A y : In(y, todo'[p]) => y.op # "report"
        BY <1>6, <1>7, <1>8, <1>9, <1>10, <2>1
      <3>. QED
        BY <3>1 DEF Has, In
    <2>3. reports'[Len(reports')].webhook = (w \in Posts)
      <3>1. reports'[Len(reports')] = Reported(w, s)
        BY <1>2
      <3>2. Reported(w, s).webhook = (w \in Posts)
        BY DEF Reported
      <3>. QED
        BY ONLY <3>1, <3>2, Zenon
    <2>4. CASE w \notin Posts
      <3>1. \A p \in Posts : \A y : ~(In(y, todo[p])' /\ y.op = "report")
        BY <2>2 DEF Has
      <3>. QED
        BY <2>3, <2>4, <3>1 DEF HookInv
    <2>5. CASE w \in Posts
      <3>1. In(Next1(w), todo[w]) /\ ~Has(w, "reset")
        BY <1>1, <1>5 DEF Has
      <3>2. \A p \in Posts \ {w} : ~Has(p, "report")
        BY <1>6, <2>1 DEF Has
      <3>3. s = Merged(merger[Webhook])
        BY <1>1, <2>5, <3>1, <3>2 DEF HookInv, s
      <3>4. s.visitor = merger[Webhook].alarm.visitor
        <4>1. merger[Webhook].alarm \in AlarmState
          BY DEF BaseInv, KindInv, Merger
        <4>. QED
          BY <3>3, <4>1 DEF Merged, AlarmState
      <3>5. last'.motion = {EventOf(Merged(merger'[Webhook]))} /\ last'.visitor = merger'[Webhook].alarm.visitor
        BY <1>3, <1>4, <3>3, <3>4 DEF e
      <3>6. \A p \in Posts : \A y : ~(In(y, todo[p])' /\ y.op = "report")
        BY <2>2 DEF Has
      <3>7. Merged(merger[Webhook])' = Merged(merger'[Webhook]) /\ EventOf(Merged(merger[Webhook]))' = EventOf(Merged(merger'[Webhook]))
        BY DEF Merged, EventOf
      <3>. QED
        BY <3>5, <3>6, <3>7 DEF HookInv
    <2>. QED
      BY <2>4, <2>5
  <1>. QED
    BY <1>11, <1>12, <1>13

LEMMA CallRest ==
  ASSUME BaseInv, PauseInv, LinkInv, HookInv, NEW w \in Workers, CallHandler(w)
  PROVE  PauseInv' /\ LinkInv' /\ HookInv'
  <1>. DEFINE h == Next1(w).handler
              v == Next1(w).value
  <1>1. /\ h \in HandlerNames /\ IsCall(Next1(w), h, v) /\ Turns(w, {})
        /\ told' = [told EXCEPT ![h] = Append(told[h], v)]
        /\ v \in (IF h = "motion" THEN MotionEvent ELSE BOOLEAN)
    BY CallTurns
  <1>2. UNCHANGED <<merger, handlers, last, pause, reports>>
    BY DEF CallHandler
  <1>3. Next1(w).op = "call" /\ In(Next1(w), todo[w]) /\ ListOK(todo[w])
    BY <1>1 DEF Turns, BaseInv, ListInv, IsCall
  <1>4. told'[h] = Append(told[h], v) /\ \A k \in HandlerNames \ {h} : told'[k] = told[k]
    BY <1>1 DEF BaseInv, ToldInv
  <1>5. Turns(w, {}) /\ \A op \in {"setActive", "report", "reset"} : Next1(w).op # op
    BY <1>1, <1>3
  <1>6. PauseInv'
    <2>1. \A u \in Workers : \A y : y.op = "setActive" => (In(y, todo'[u]) <=> In(y, todo[u]))
      BY <1>5, TurnOps
    <2>. QED
      BY <1>2, <2>1, PauseStay
  <1>7. HookInv'
    <2>1. \A u \in Workers : \A y : y.op = "report" => (In(y, todo'[u]) <=> In(y, todo[u]))
      BY <1>5, TurnOps
    <2>2. \A u \in Workers : \A y : y.op = "reset" => (In(y, todo'[u]) <=> In(y, todo[u]))
      BY <1>5, TurnOps
    <2>. QED
      BY <1>2, <2>1, <2>2, HookStay DEF Workers
  <1>8. LinkInv'
    <2>1. CASE h # "connection"
      <3>1. \A u \in Workers : \A b : Pending(u, "connection", b)' <=> Pending(u, "connection", b)
        BY <1>1, <2>1, TurnCalls
      <3>2. told'["connection"] = told["connection"]
        BY <1>4, <2>1 DEF HandlerNames
      <3>. QED
        BY <1>2, <3>1, <3>2, LinkStay
    <2>2. CASE h = "connection"
      <3>. SUFFICES ASSUME "connection" \in handlers
           PROVE  /\ \A u \in Workers : \A b : Pending(u, "connection", b)' => last'.connection = {b}
                  /\ last'.connection = LastTold("connection")'
        BY <1>2 DEF LinkInv
      <3>1. Pending(w, "connection", v)
        BY <1>1, <1>3, <2>2, PendingIn
      <3>2. last.connection = {v}
        BY <3>1 DEF LinkInv
      <3>3. \A u \in Workers : \A b : Pending(u, "connection", b)' => Pending(u, "connection", b)
        <4>1. \A b : Pending(w, "connection", b)' => Pending(w, "connection", b)
          BY <1>1, TurnsPending
        <4>2. \A u \in Workers \ {w} : \A b : Pending(u, "connection", b)' <=> Pending(u, "connection", b)
          BY <1>1, TurnsPending
        <4>. QED
          BY <4>1, <4>2
      <3>4. LastTold("connection")' = {v}
        <4>1. told["connection"] \in Seq(BOOLEAN) /\ v \in BOOLEAN /\ told'["connection"] = Append(told["connection"], v)
          BY <1>1, <1>4, <2>2 DEF BaseInv, ToldInv, HandlerNames
        <4>. DEFINE t == told["connection"]
                    k == Len(t) + 1
        <4>. HIDE DEF t, v
        <4>2. Len(Append(t, v)) = k /\ k \in Nat \ {0} /\ Append(t, v)[k] = v
          BY <4>1 DEF t
        <4>. HIDE DEF k
        <4>3. LastTold("connection")' = {Append(t, v)[i] : i \in {k} \ {0}}
          BY <4>1, <4>2 DEF LastTold, t
        <4>. QED
          BY <4>2, <4>3
      <3>. QED
        BY <1>2, <3>2, <3>3, <3>4 DEF LinkInv
    <2>. QED
      BY <2>1, <2>2
  <1>. QED
    BY <1>6, <1>7, <1>8

\* The pause logic is told of a report.
LEMMA PauseStep ==
  ASSUME BaseInv, OrderInv, PauseInv, LinkInv, HookInv, NEW w \in Workers, PauseSetActive(w)
  PROVE  OrderInv' /\ PauseInv' /\ LinkInv' /\ HookInv'
  <1>1. /\ UNCHANGED <<merger, handlers, last, reports, told>> /\ Next1(w).op = "setActive"
        /\ pause' = {Next1(w).value} /\ todo[w] # <<>> /\ Proceed(w, <<>>)
    BY DEF PauseSetActive, At, Idle
  <1>2. Turns(w, {})
    BY <1>1, PlainTurns
  <1>3. \A h : \A u \in Workers : \A x : Pending(u, h, x)' <=> Pending(u, h, x)
    BY <1>1, <1>2, TurnCalls
  <1>4. OrderInv' /\ LinkInv'
    BY <1>1, <1>3, OrderStay, LinkStay
  <1>5. HookInv'
    <2>1. \A u \in Workers : \A y : y.op = "report" => (In(y, todo'[u]) <=> In(y, todo[u]))
      BY <1>1, <1>2, TurnOps
    <2>2. \A u \in Workers : \A y : y.op = "reset" => (In(y, todo'[u]) <=> In(y, todo[u]))
      BY <1>1, <1>2, TurnOps
    <2>. QED
      BY <1>1, <2>1, <2>2, HookStay DEF Workers
  <1>6. PauseInv'
    <2>1. Active = {Next1(w).value} /\ Active' = Active
      BY <1>1, <1>2 DEF PauseInv, Turns, Active
    <2>2. \A u \in Workers : \A y : In(y, todo'[u]) => In(y, todo[u])
      <3>1. \A y : In(y, todo'[w]) => In(y, todo[w])
        BY <1>2 DEF Turns
      <3>2. \A u \in Workers \ {w} : todo'[u] = todo[u]
        BY <1>2 DEF Turns
      <3>. QED
        BY <3>1, <3>2
    <2>3. \A u \in Workers : \A y : In(y, todo[u])' /\ y.op = "setActive" => Active' = {y.value}
      BY <2>1, <2>2 DEF PauseInv, In
    <2>. QED
      BY <1>1, <2>1, <2>3 DEF PauseInv
  <1>. QED
    BY <1>4, <1>5, <1>6

\* A connection state decided unraced.
LEMMA ConnectionStep ==
  ASSUME BaseInv, OrderInv, PauseInv, LinkInv, HookInv, HandleConnection, ~Races(Link)
  PROVE  OrderInv' /\ PauseInv' /\ LinkInv' /\ HookInv'
  <1>. DEFINE v == Next1(Link).value
              N == {y \in {Call("connection", v)} : "connection" \in handlers}
  <1>1. /\ last' = [last EXCEPT !.connection = {v}]
        /\ UNCHANGED <<merger, handlers, pause, reports, told>>
        /\ Next1(Link).op = "connection" /\ Len(todo[Link]) = 1 /\ Turns(Link, N)
        /\ Link \in Workers /\ todo[Link] # <<>>
    BY ConnectionBase DEF Workers, Turns
  <1>2. last'.visitor = last.visitor /\ last'.motion = last.motion /\ last'.connection = {v}
    BY <1>1 DEF BaseInv, ShapeInv, Keys
  <1>3. \A y \in N : y.op = "call" /\ y.handler = "connection" /\ y.value = v
    BY DEF Call
  <1>4. "connection" \in handlers => \E y \in N : IsCall(y, "connection", v)
    <2>1. IsCall(Call("connection", v), "connection", v)
      BY DEF Call, IsCall
    <2>2. "connection" \in handlers => Call("connection", v) \in N
      OBVIOUS
    <2>. HIDE DEF N, v
    <2>. QED
      BY ONLY <2>1, <2>2, Zenon
  <1>. HIDE DEF N, v
  <1>5. OrderInv'
    <2>1. \A u \in Workers : \A x : Pending(u, "motion", x)' <=> Pending(u, "motion", x)
      BY <1>1, <1>3, TurnCalls
    <2>. QED
      BY <1>1, <2>1, OrderStay
  <1>6. PauseInv'
    <2>1. \A u \in Workers : \A y : y.op = "setActive" => (In(y, todo'[u]) <=> In(y, todo[u]))
      BY <1>1, <1>3, TurnOps
    <2>. QED
      BY <1>1, <1>2, <2>1, PauseStay
  <1>7. HookInv'
    <2>1. \A u \in Workers : \A y : y.op = "report" => (In(y, todo'[u]) <=> In(y, todo[u]))
      BY <1>1, <1>3, TurnOps
    <2>2. \A u \in Workers : \A y : y.op = "reset" => (In(y, todo'[u]) <=> In(y, todo[u]))
      BY <1>1, <1>3, TurnOps
    <2>. QED
      BY <1>1, <1>2, <2>1, <2>2, HookStay DEF Workers
  <1>8. LinkInv'
    <2>. SUFFICES ASSUME "connection" \in handlers
         PROVE  /\ \A u \in Workers : \A b : Pending(u, "connection", b)' => last'.connection = {b}
                /\ \E u \in Workers : \E b : Pending(u, "connection", b)'
      BY <1>1 DEF LinkInv
    <2>1. \A b : ~Pending(Link, "connection", b)
      <3>1. ListOK(todo[Link]) /\ \A y : In(y, todo[Link]) => y = Next1(Link)
        BY <1>1, OnlyStep DEF BaseInv, ListInv
      <3>. QED
        BY <1>1, <3>1, PendingIn DEF IsCall
    <2>2. \A u \in Workers \ {Link} : \A b : ~Pending(u, "connection", b)'
      <3>1. \A u \in Workers \ {Link} : \A b : ~Pending(u, "connection", b)
        BY <1>1, UnracedAlone
      <3>2. \A u \in Workers \ {Link} : \A b : Pending(u, "connection", b)' <=> Pending(u, "connection", b)
        BY <1>1, TurnsPending
      <3>. QED
        BY <3>1, <3>2
    <2>3. \A b : Pending(Link, "connection", b)' <=> \E y \in N : IsCall(y, "connection", b)
      BY <1>1, <2>1, TurnsPending
    <2>4. \A b : Pending(Link, "connection", b)' => b = v
      BY <1>3, <2>3 DEF IsCall
    <2>. QED
      BY <1>1, <1>2, <1>4, <2>2, <2>3, <2>4
  <1>. QED
    BY <1>5, <1>6, <1>7, <1>8

\* A handler is registered; that of the connection is told its state.
LEMMA RegisterStep ==
  ASSUME BaseInv, OrderInv, PauseInv, LinkInv, HookInv, NEW h \in Handlers, Register(h)
  PROVE  OrderInv' /\ PauseInv' /\ LinkInv' /\ HookInv'
  <1>1. /\ UNCHANGED <<merger, last, pause, reports, told>> /\ todo[Api] = <<>> /\ Api \in Workers
        /\ \A v \in Workers \ {Api} : todo'[v] = todo[v]
        /\ handlers' = handlers \cup {h} /\ h \notin handlers
    BY RegisterBase DEF Workers
  <1>2. \/ UNCHANGED todo /\ ~(h = "connection" /\ last.connection # {})
        \/ \E b \in BOOLEAN : /\ h = "connection" /\ last.connection = {b}
                              /\ \A y : In(y, todo'[Api]) <=> y = Call("connection", b)
    BY RegisterBase
  <1>3. ListOK(todo'[Api]) /\ ListOK(todo[Api]) /\ \A y : ~In(y, todo[Api])
    BY <1>1, RegisterBase, EmptyList DEF BaseInv, ListInv
  <1>4. \A y : In(y, todo'[Api]) => y.op = "call" /\ y.handler = "connection"
    <2>1. UNCHANGED todo => \A y : ~In(y, todo'[Api])
      BY <1>3
    <2>. QED
      BY <1>2, <2>1 DEF Call
  <1>5. \A u \in Workers : \A y : y.op # "call" => (In(y, todo'[u]) <=> In(y, todo[u]))
    BY <1>1, <1>3, <1>4
  <1>6. PauseInv' /\ HookInv'
    <2>1. \A u \in Workers : \A y : y.op = "setActive" => (In(y, todo'[u]) <=> In(y, todo[u]))
      BY <1>5
    <2>2. \A p \in Posts : \A y : y.op \in {"report", "reset"} => (In(y, todo'[p]) <=> In(y, todo[p]))
      BY <1>5 DEF Workers
    <2>. QED
      BY <1>1, <2>1, <2>2, PauseStay, HookStay
  <1>7. \A u \in Workers \ {Api} : \A k, x : Pending(u, k, x)' <=> Pending(u, k, x)
    BY <1>1 DEF Pending, IsCall
  <1>8. OrderInv'
    <2>1. \A x : ~Pending(Api, "motion", x) /\ ~Pending(Api, "motion", x)'
      BY <1>1, <1>3, <1>4, PendingIn DEF IsCall
    <2>. QED
      BY <1>1, <1>7, <2>1, OrderStay
  <1>9. CASE UNCHANGED todo /\ h # "connection"
    <2>1. \A u \in Workers : \A x : Pending(u, "connection", x)' <=> Pending(u, "connection", x)
      BY <1>9 DEF Pending, IsCall
    <2>. QED
      BY <1>1, <1>6, <1>8, <1>9, <2>1, LinkStay
  <1>10. CASE h = "connection"
    <2>1. \A u \in Workers : \A x : ~Pending(u, "connection", x)
      <3>1. \A u \in Workers : ListOK(todo[u]) /\ \A y : In(y, todo[u]) /\ y.op = "call" => y.handler # "connection"
        BY <1>1, <1>10 DEF BaseInv, ListInv
      <3>. QED
        BY <3>1, PendingIn DEF IsCall
    <2>2. told["connection"] = <<>>
      BY <1>1, <1>10 DEF BaseInv, ToldInv, HandlerNames
    <2>3. LastTold("connection")' = {}
      <3>1. told' = told /\ Len(told["connection"]) = 0
        BY <1>1, <2>2
      <3>. QED
        BY <3>1 DEF LastTold
    <2>4. CASE UNCHANGED todo /\ last.connection = {}
      <3>1. \A u \in Workers : \A x : ~Pending(u, "connection", x)'
        BY <2>1, <2>4 DEF Pending, IsCall
      <3>2. last'.connection = LastTold("connection")'
        BY <1>1, <2>3, <2>4
      <3>. QED
        BY <1>6, <1>8, <3>1, <3>2 DEF LinkInv
    <2>5. ASSUME NEW b \in BOOLEAN, last.connection = {b},
                 \A y : In(y, todo'[Api]) <=> y = Call("connection", b)
          PROVE  LinkInv'
      <3>1. \A x : IsCall(Call("connection", b), "connection", x) <=> x = b
        BY DEF IsCall, Call
      <3>2. \A x : Pending(Api, "connection", x)' <=> x = b
        BY <1>1, <1>3, <2>5, <3>1, PendingIn
      <3>3. \A u \in Workers : \A x : Pending(u, "connection", x)' => last'.connection = {x}
        BY <1>1, <1>7, <2>1, <2>5, <3>2
      <3>4. ~\A u \in Workers : \A x : ~Pending(u, "connection", x)'
        BY <1>1, <3>2
      <3>. QED
        BY <3>3, <3>4 DEF LinkInv
    <2>. QED
      BY <1>2, <1>6, <1>8, <1>10, <2>4, <2>5
  <1>. QED
    BY <1>2, <1>9, <1>10

\* An input arrives.
LEMMA ArrivesStep ==
  ASSUME BaseInv, OrderInv, PauseInv, LinkInv, HookInv,
         NEW w \in Workers, NEW push, Fresh(w, push), Receive(w, push)
  PROVE  OrderInv' /\ PauseInv' /\ LinkInv' /\ HookInv'
  <1>1. /\ UNCHANGED <<merger, handlers, last, pause, reports, told>> /\ todo'[w] = push
        /\ \A v \in Workers \ {w} : todo'[v] = todo[v]
        /\ \A y : ~In(y, todo[w])
        /\ \A y : In(y, todo'[w]) => y.op \notin {"call", "setActive"}
        /\ ListOK(todo'[w]) /\ ListOK(todo[w])
    BY ArrivesParts DEF BaseInv, ListInv
  <1>2. ASSUME NEW u \in Workers, NEW h, NEW x PROVE Pending(u, h, x)' <=> Pending(u, h, x)
    <2>1. u # w => (Pending(u, h, x)' <=> Pending(u, h, x))
      BY <1>1 DEF Pending, IsCall
    <2>2. ~Pending(w, h, x) /\ ~Pending(w, h, x)'
      BY <1>1, PendingIn DEF IsCall
    <2>. QED
      BY <2>1, <2>2
  <1>3. OrderInv' /\ LinkInv'
    BY <1>1, <1>2, OrderStay, LinkStay
  <1>4. PauseInv'
    <2>1. \A u \in Workers : \A y : y.op = "setActive" => (In(y, todo'[u]) <=> In(y, todo[u]))
      BY <1>1
    <2>. QED
      BY <1>1, <2>1, PauseStay
  <1>5. CASE \A y : In(y, todo'[w]) => y.op # "report"
    <2>1. \A p \in Posts : \A y : In(y, todo'[p]) /\ y.op = "report" => In(y, todo[p]) /\ p # w
      BY <1>1, <1>5 DEF Workers
    <2>2. \A p \in Posts : Has(p, "report")' <=> Has(p, "report")
      <3>1. \A p \in Posts : \A y : y.op = "report" => (In(y, todo'[p]) <=> In(y, todo[p]))
        BY <1>1, <2>1 DEF Workers
      <3>. QED
        BY <3>1 DEF Has, In
    <2>3. \A p \in Posts \ {w} : Has(p, "reset")' <=> Has(p, "reset")
      BY <1>1 DEF Has, In, Workers
    <2>4. Merged(merger[Webhook])' = Merged(merger[Webhook])
          /\ EventOf(Merged(merger[Webhook]))' = EventOf(Merged(merger[Webhook]))
      BY <1>1 DEF Merged, EventOf
    <2>5. ASSUME NEW p \in Posts, NEW y, In(y, todo[p])', y.op = "report", ~Has(p, "reset")',
                 \A q \in Posts \ {p} : ~Has(q, "report")'
          PROVE  y.state = Merged(merger[Webhook])'
      <3>1. In(y, todo[p]) /\ p # w
        BY <2>1, <2>5 DEF In
      <3>. QED
        BY <2>2, <2>3, <2>4, <2>5, <3>1 DEF HookInv
    <2>6. ASSUME \A p \in Posts : ~Has(p, "report")', reports' # <<>>, reports'[Len(reports')].webhook
          PROVE  /\ last'.motion = {EventOf(Merged(merger[Webhook]))'}
                 /\ last'.visitor = merger'[Webhook].alarm.visitor
      BY <1>1, <2>2, <2>4, <2>6 DEF HookInv
    <2>7. HookInv'
      BY <2>5, <2>6 DEF HookInv
    <2>. QED
      BY <1>3, <1>4, <2>7
  <1>6. CASE w \notin Posts
    <2>1. \A p \in Posts : todo'[p] = todo[p]
      BY <1>1, <1>6 DEF Workers
    <2>. QED
      BY <1>1, <1>3, <1>4, <2>1, HookStay
  <1>7. CASE w \in Posts /\ \E y : In(y, todo'[w]) /\ y.op = "report"
    <2>1. push \in WebhookPushes
      BY <1>7, WorkersAssumption DEF Fresh
    <2>2. \E z : In(z, todo'[w]) /\ z.op = "reset"
      BY <1>1, <1>7, <2>1, PushLists
    <2>3. Has(w, "reset")' /\ Has(w, "report")'
      BY <1>7, <2>2 DEF Has, In
    <2>4. HookInv'
      BY <1>7, <2>3 DEF HookInv
    <2>. QED
      BY <1>3, <1>4, <2>4
  <1>. QED
    BY <1>5, <1>6, <1>7

\* A POST has merged: its report is what the merger now holds.
LEMMA HookMerge ==
  ASSUME HookInv, NEW p \in Posts, merger'[Webhook] \in Merger,
         \E y : In(y, todo'[p]) /\ y.op = "report",
         \A y : In(y, todo'[p]) /\ y.op = "report" => y.state = Merged(merger'[Webhook])
  PROVE  HookInv'
  <1>1. Has(p, "report")'
    BY DEF Has, In
  <1>2. Merged(merger[Webhook])' = Merged(merger'[Webhook])
    BY DEF Merged
  <1>3. ASSUME NEW q \in Posts, NEW y, In(y, todo[q])', y.op = "report", \A r \in Posts \ {q} : ~Has(r, "report")'
        PROVE  y.state = Merged(merger[Webhook])'
    <2>1. q = p
      BY <1>1, <1>3
    <2>2. In(y, todo'[p])
      BY <1>3, <2>1 DEF In
    <2>. QED
      BY <1>2, <1>3, <2>2
  <1>. QED
    BY <1>1, <1>3 DEF HookInv

LEMMA HookWork ==
  ASSUME BaseInv, HookInv, NEW w \in Listeners \cup Posts, NEW N, Behind(w, N), Work(w)
  PROVE  HookInv'
  <1>. w \in Workers
    BY DEF Workers
  <1>1. /\ UNCHANGED reports /\ last'.visitor = last.visitor /\ last'.motion = last.motion
        /\ \A v \in Workers \ {w} : todo'[v] = todo[v]
    BY DEF Behind, Turns
  <1>2. MergeAlarm(w) \/ MergeYolo(w) \/ Reset(w) \/ HandleSleep(w)
    BY DEF Work, Behind, HandleAlarm, PauseSetActive, CallHandler, At
  <1>3. Webhook \in Listeners \cup {Webhook} /\ merger = [m \in Listeners \cup {Webhook} |-> merger[m]]
    BY DEF BaseInv, ShapeInv
  <1>4. CASE w \in Listeners
    <2>1. \A p \in Posts : todo'[p] = todo[p]
      BY <1>1, <1>4, WorkersAssumption DEF Workers
    <2>2. SourceOf(w) # Webhook
      BY <1>4, WorkersAssumption DEF SourceOf
    <2>3. merger' = merger \/ \E m : merger' = [merger EXCEPT ![SourceOf(w)] = m]
      BY <1>2 DEF MergeAlarm, MergeYolo, Reset, HandleSleep, MergeInto
    <2>4. merger'[Webhook] = merger[Webhook]
      BY <1>3, <2>2, <2>3
    <2>. QED
      BY <1>1, <2>1, <2>4, HookStay
  <1>5. CASE w \in Posts
    <2>1. SourceOf(w) = Webhook
      BY <1>5, WorkersAssumption DEF SourceOf
    <2>2. CASE MergeAlarm(w)
      <3>1. PICK m \in Merger : /\ merger' = [merger EXCEPT ![SourceOf(w)] = m]
                                /\ Turns(w, {Report(Merged(m))})
        BY <2>2, MergeAlarmTurns
      <3>2. merger'[Webhook] = m
        BY <1>3, <2>1, <3>1
      <3>3. Next1(w).op = "alarm" /\ todo[w] # <<>>
        BY <2>2 DEF MergeAlarm, At, Idle
      <3>4. \A y : In(y, todo[w]) => y = Next1(w)
        BY <3>3, Alone1, OnlyStep DEF Final
      <3>5. \A y : In(y, todo'[w]) <=> y = Report(Merged(m))
        BY <3>1, <3>4 DEF Turns
      <3>6. Report(Merged(m)).op = "report" /\ Report(Merged(m)).state = Merged(m)
        BY DEF Report
      <3>. QED
        BY <1>5, <3>2, <3>5, <3>6, HookMerge
    <2>3. CASE MergeYolo(w)
      <3>1. PICK m \in Merger : /\ merger' = [merger EXCEPT ![SourceOf(w)] = m]
                                /\ Turns(w, {y \in {Report(Merged(m))} : m # merger[SourceOf(w)]})
        BY <2>3, MergeYoloTurns
      <3>2. merger'[Webhook] = m
        BY <1>3, <2>1, <3>1
      <3>3. Next1(w).op \in {"basic", "detail"} /\ todo[w] # <<>>
        BY <2>3 DEF MergeYolo, Idle
      <3>4. \A y : In(y, todo[w]) => y = Next1(w)
        BY <3>3, Alone1, OnlyStep DEF Final
      <3>5. Report(Merged(m)).op = "report" /\ Report(Merged(m)).state = Merged(m)
        BY DEF Report
      <3>6. CASE m # merger[Webhook]
        <4>1. \A y : In(y, todo'[w]) <=> y = Report(Merged(m))
          BY <2>1, <3>1, <3>4, <3>6 DEF Turns
        <4>. QED
          BY <1>5, <3>2, <3>5, <4>1, HookMerge
      <3>7. CASE m = merger[Webhook]
        <4>1. \A y : ~In(y, todo'[w])
          BY <2>1, <3>1, <3>4, <3>7 DEF Turns
        <4>2. \A y : y.op \in {"report", "reset"} => ~In(y, todo[w])
          BY <3>3, <3>4
        <4>3. \A p \in Posts : \A y : y.op \in {"report", "reset"} => (In(y, todo'[p]) <=> In(y, todo[p]))
          BY <1>1, <4>1, <4>2 DEF Workers
        <4>. QED
          BY <1>1, <3>2, <3>7, <4>3, HookStay
      <3>. QED
        BY <3>6, <3>7
    <2>4. CASE Reset(w)
      <3>1. /\ Next1(w).op = "reset" /\ todo[w] # <<>> /\ Proceed(w, <<>>)
            /\ merger' = [merger EXCEPT ![Webhook] = Forgotten]
        BY <2>1, <2>4 DEF Reset, At, Idle, MergeInto
      <3>2. merger'[Webhook] = Forgotten
        BY <1>3, <3>1
      <3>3. Turns(w, {})
        BY <3>1, PlainTurns
      <3>4. \A y : In(y, todo[w]) /\ y.op = "report" => y = Report(NoAlarm)
        <4>. DEFINE s == todo[w]
        <4>1. ListOK(s) /\ In(Next1(w), s)
          BY <3>1, Alone1
        <4>2. s[Len(s)] = Report(NoAlarm)
          BY <3>1, <4>1 DEF ListOK, In
        <4>. HIDE DEF s
        <4>3. \A i \in 1..Len(s) : s[i].op = "report" => i = Len(s)
          BY <4>1 DEF ListOK, Final
        <4>. QED
          BY <4>2, <4>3 DEF In, s
      <3>5. In(Report(NoAlarm), todo[w])
        <4>. DEFINE s == todo[w]
        <4>1. ListOK(s) /\ In(Next1(w), s)
          BY <3>1, Alone1
        <4>2. s[Len(s)] = Report(NoAlarm)
          BY <3>1, <4>1 DEF ListOK, In
        <4>3. Len(s) \in Nat \ {0}
          BY <3>1, <4>1, EmptySeq DEF ListOK
        <4>. HIDE DEF s
        <4>. QED
          BY <4>2, <4>3 DEF In, s
      <3>6. Report(NoAlarm).op = "report" /\ Report(NoAlarm).state = NoAlarm
        BY DEF Report
      <3>7. Merged(Forgotten) = NoAlarm
        BY DEF Merged, Forgotten, NoAlarm
      <3>8. \A y : In(y, todo'[w]) <=> In(y, todo[w]) /\ y # Next1(w)
        BY <3>3 DEF Turns
      <3>9. In(Report(NoAlarm), todo'[w]) /\ \A y : In(y, todo'[w]) /\ y.op = "report" => y = Report(NoAlarm)
        BY <3>1, <3>4, <3>5, <3>6, <3>8
      <3>. QED
        BY <1>5, <3>2, <3>6, <3>7, <3>9, AlarmStates, HookMerge
    <2>5. CASE HandleSleep(w)
      <3>1. Turns(w, {y \in {Call("sleep", Next1(w).value)} : last.sleep # {Next1(w).value} /\ "sleep" \in handlers})
            /\ Next1(w).op = "flag"
        BY <2>5, HandleSleepTurns
      <3>2. Call("sleep", Next1(w).value).op = "call"
        BY DEF Call
      <3>3. \A u \in Workers : \A y : y.op = "report" => (In(y, todo'[u]) <=> In(y, todo[u]))
        BY <3>1, <3>2, TurnOps
      <3>4. \A u \in Workers : \A y : y.op = "reset" => (In(y, todo'[u]) <=> In(y, todo[u]))
        BY <3>1, <3>2, TurnOps
      <3>5. merger'[Webhook] = merger[Webhook]
        BY <2>5 DEF HandleSleep
      <3>. QED
        BY <1>1, <3>3, <3>4, <3>5, HookStay DEF Workers
    <2>. QED
      BY <1>2, <2>2, <2>3, <2>4, <2>5
  <1>. QED
    BY <1>4, <1>5

LEMMA BehindStep ==
  ASSUME BaseInv, OrderInv, PauseInv, LinkInv, HookInv, NEW w \in Workers, Work(w), NEW N, Behind(w, N)
  PROVE  OrderInv' /\ PauseInv' /\ LinkInv' /\ HookInv'
  <1>1. /\ Turns(w, N) /\ Next1(w).op \notin {"call", "report", "setActive", "connection"}
        /\ \A y \in N : y.op = "report" \/ (y.op = "call" /\ y.handler = "sleep")
        /\ UNCHANGED <<handlers, pause, reports, told>>
        /\ last'.visitor = last.visitor /\ last'.motion = last.motion /\ last'.connection = last.connection
    BY DEF Behind
  <1>2. \A h \in {"motion", "connection"} : \A u \in Workers : \A x : Pending(u, h, x)' <=> Pending(u, h, x)
    BY <1>1, TurnCalls
  <1>3. \A u \in Workers : \A y : y.op = "setActive" => (In(y, todo'[u]) <=> In(y, todo[u]))
    BY <1>1, TurnOps
  <1>4. OrderInv' /\ LinkInv' /\ PauseInv'
    BY <1>1, <1>2, <1>3, OrderStay, LinkStay, PauseStay
  <1>5. w \in Listeners \cup Posts
    <2>1. w \in {Link, Api} => Next1(w).op = "call"
      BY OwnWork DEF CallHandler, At
    <2>. QED
      BY <1>1, <2>1 DEF Workers
  <1>. QED
    BY <1>4, <1>5, HookWork

-----------------------------------------------------------------------------
LEMMA InitSettle == Init => SettleInv
  <1>. SUFFICES ASSUME Init PROVE SettleInv
    OBVIOUS
  <1>1. BaseInv /\ LastInv
    BY InitEdges DEF EdgesInv
  <1>2. \A w \in Workers : \A y : ~In(y, todo[w])
    BY EmptyList DEF Init
  <1>3. \A w \in Workers : ListOK(todo[w])
    BY <1>1 DEF BaseInv, ListInv
  <1>4. \A w \in Workers : \A h, x : ~Pending(w, h, x)
    BY <1>2, <1>3, PendingIn
  <1>5. told["motion"] = <<>> /\ told["connection"] = <<>> /\ reports = <<>> /\ last.motion = {}
        /\ last.connection = {} /\ pause = {}
    BY DEF Init, HandlerNames
  <1>6. DOMAIN <<>> = {} /\ Len(<<>>) = 0
    OBVIOUS
  <1>7. Changes = {} /\ Cardinality(Changes) = 0
    BY <1>5, <1>6, FS_EmptySet DEF Changes
  <1>8. OrderInv
    BY <1>4, <1>5, <1>6, <1>7 DEF OrderInv
  <1>9. PauseInv
    BY <1>2, <1>5 DEF PauseInv, Active
  <1>10. LinkInv
    <2>1. LastTold("connection") = {}
      BY <1>5, <1>6 DEF LastTold
    <2>. QED
      BY <1>4, <1>5, <2>1 DEF LinkInv
  <1>11. HookInv
    BY <1>2, <1>5 DEF HookInv, Workers
  <1>. QED
    BY <1>1, <1>8, <1>9, <1>10, <1>11 DEF SettleInv, UnracedInv

LEMMA NextSettle == SettleInv /\ EdgesInv /\ [Next]_vars => SettleInv'
  <1>. SUFFICES ASSUME SettleInv, EdgesInv, [Next]_vars, ~raced'
       PROVE  OrderInv' /\ PauseInv' /\ LinkInv' /\ HookInv'
    BY NextEdges DEF SettleInv, EdgesInv, UnracedInv
  <1>0. BaseInv /\ LastInv /\ (~raced => OrderInv /\ PauseInv /\ LinkInv /\ HookInv)
    BY DEF SettleInv, UnracedInv
  <1>1. CASE UNCHANGED vars \/ Sessions
    <2>1. UNCHANGED <<todo, handlers, last, pause, reports, told, raced>> /\ merger'[Webhook] = merger[Webhook]
      BY <1>0, <1>1, SessionsBase DEF vars
    <2>2. \A h, x : \A w \in Workers : Pending(w, h, x)' <=> Pending(w, h, x)
      BY <2>1 DEF Pending, IsCall
    <2>. QED
      BY <1>0, <2>1, <2>2, OrderStay, PauseStay, LinkStay, HookStay
  <1>2. ASSUME NEW w \in Workers, NEW push, Fresh(w, push), Receive(w, push)
        PROVE  OrderInv' /\ PauseInv' /\ LinkInv' /\ HookInv'
    <2>1. raced' = raced
      BY <1>2 DEF Receive
    <2>. QED
      BY <1>0, <1>2, <2>1, ArrivesStep
  <1>3. CASE HandleConnection
    <2>1. ~Races(Link) /\ ~raced
      BY <1>3 DEF HandleConnection, Races
    <2>. QED
      BY <1>0, <1>3, <2>1, ConnectionStep
  <1>4. ASSUME NEW h \in Handlers, Register(h)
        PROVE  OrderInv' /\ PauseInv' /\ LinkInv' /\ HookInv'
    <2>1. raced' = raced
      BY <1>4 DEF Register
    <2>. QED
      BY <1>0, <1>4, <2>1, RegisterStep
  <1>5. ASSUME NEW w \in Workers, Work(w)
        PROVE  OrderInv' /\ PauseInv' /\ LinkInv' /\ HookInv'
    <2>1. CASE CallHandler(w)
      <3>1. raced' = raced
        BY <2>1 DEF CallHandler
      <3>. QED
        BY <1>0, <2>1, <3>1, CallOrder, CallRest
    <2>2. CASE HandleAlarm(w)
      <3>1. ~Races(w) /\ ~raced
        BY <2>2 DEF HandleAlarm, Races
      <3>. QED
        BY <1>0, <2>2, <3>1, ReportOrder, ReportRest
    <2>3. CASE PauseSetActive(w)
      <3>1. raced' = raced
        BY <2>3 DEF PauseSetActive
      <3>. QED
        BY <1>0, <2>3, <3>1, PauseStep
    <2>4. ASSUME NEW N, Behind(w, N) PROVE OrderInv' /\ PauseInv' /\ LinkInv' /\ HookInv'
      <3>1. ~raced
        BY <2>4 DEF Behind, Races
      <3>. QED
        BY <1>0, <1>5, <2>4, <3>1, BehindStep
    <2>. QED
      BY <1>0, <1>5, <2>1, <2>2, <2>3, <2>4, WorkKinds
  <1>. QED
    BY <1>1, <1>2, <1>3, <1>4, <1>5, NextKinds DEF Arrives

\* When every list is empty nothing is left to be told.
LEMMA QuietNow ==
  ASSUME BaseInv, Quiet
  PROVE  /\ \A w \in Workers : \A op : ~Has(w, op)
         /\ \A w \in Workers : \A h, x : ~Pending(w, h, x)
  <1>1. \A w \in Workers : todo[w] = <<>> /\ ListOK(todo[w])
    BY DEF Quiet, Idle, BaseInv, ListInv
  <1>2. \A w \in Workers : \A y : ~In(y, todo[w])
    BY <1>1, EmptyList
  <1>. QED
    BY <1>1, <1>2, PendingIn DEF Has

\* handleAlarm, setActive, OnConnection: unless a push was decided while an older
\* one was being delivered, the motion handler is told the changes in their
\* order, and the pause logic and the connection handler end with the last state.
THEOREM SettlesInOrder == Spec => []SettlesUnlessRaced
  <1>1. SettleInv => SettlesUnlessRaced
    <2>. SUFFICES ASSUME SettleInv, ~raced
         PROVE  /\ \A i \in DOMAIN told["motion"] :
                     \E c \in Changes : IsChange(i, c) /\ told["motion"][i] = reports[c].event
                /\ Quiet => /\ pause = {e.active : e \in last.motion}
                            /\ "connection" \in handlers => last.connection = LastTold("connection")
      BY DEF SettlesUnlessRaced
    <2>1. BaseInv /\ OrderInv /\ PauseInv /\ LinkInv
      BY DEF SettleInv, UnracedInv
    <2>2. ASSUME Quiet
          PROVE  /\ pause = {e.active : e \in last.motion}
                 /\ "connection" \in handlers => last.connection = LastTold("connection")
      BY <2>1, <2>2, QuietNow DEF PauseInv, LinkInv, Active
    <2>. QED
      BY <2>1, <2>2 DEF OrderInv
  <1>. QED
    BY <1>1, InitSettle, NextSettle, InitEdges, NextEdges, PTL DEF Spec

\* AlarmMerger: unless raced, what the program was told last of the webhook is
\* everything its merger holds.
THEOREM WebhookShown == Spec => []WebhookStateShown
  <1>1. SettleInv => WebhookStateShown
    <2>. SUFFICES ASSUME SettleInv, ~raced, Quiet, reports # <<>>, reports[Len(reports)].webhook
         PROVE  /\ last.motion = {EventOf(Merged(merger[Webhook]))}
                /\ last.visitor = merger[Webhook].alarm.visitor
      BY DEF WebhookStateShown
    <2>1. BaseInv /\ HookInv
      BY DEF SettleInv, UnracedInv
    <2>2. \A p \in Posts : ~Has(p, "report")
      BY <2>1, QuietNow DEF Workers
    <2>. QED
      BY <2>1, <2>2 DEF HookInv
  <1>. QED
    BY <1>1, InitSettle, NextSettle, InitEdges, NextEdges, PTL DEF Spec
=============================================================================
