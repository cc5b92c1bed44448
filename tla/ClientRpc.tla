------------------------------ MODULE ClientRpc ------------------------------
(***************************************************************************)
(* Requests over one Baichuan connection (Client in                         *)
(* pkg/baichuan/client.go): the login every call begins with, message       *)
(* numbers, pending requests, and answers that come late or never.          *)
(*                                                                          *)
(* Numbers wrap, so an answer the camera owes is remembered with its        *)
(* caller, or as "stale" once nobody waits for it, and with its age: the    *)
(* numbers reserved since.  How a connection comes to its end is the        *)
(* subject of ClientLife; here it is closed in one step.  Encryption and    *)
(* message contents are left out.                                           *)
(***************************************************************************)
EXTENDS Integers, Sequences, FiniteSets

CONSTANTS
  Callers,  \* goroutines that call the client
  Modulus,  \* message numbers; 2^16 in the code
  MaxLate,  \* bound: late answers on their way when a request starts
  None      \* no caller

ASSUME NumbersAssumption == Modulus \in Nat \ {0} /\ MaxLate \in Nat

ASSUME NoneAssumption == None \notin Callers /\ "stale" \notin Callers

Kinds == {"login", "call"}
NoKey == <<"none", 0>>
Keys == Kinds \X (0..Modulus - 1)

VARIABLES
  next,      \* msgNum
  pc,        \* where a caller is
  todo,      \* the kinds of request it has still to make
  key,       \* <<kind, number>> of its request
  box,       \* its response channel: "empty", "own", "refused", "other"
  outcome,   \* what its last request returned
  age,       \* age of its request
  pending,   \* the caller registered under each key
  owed,      \* answers the camera owes: <<key, caller or "stale", age>>
  skipped,   \* callers whose request the camera will not answer (history)
  loginMu,   \* holder of loginMu
  loggedIn,
  closed     \* the client is closed

loginVars == <<loginMu, loggedIn>>
vars == <<next, pc, todo, key, box, outcome, age, pending, owed, skipped, loginVars, closed>>

Init ==
  /\ next = 0
  /\ pc = [c \in Callers |-> "idle"]
  /\ todo = [c \in Callers |-> <<>>]
  /\ key = [c \in Callers |-> NoKey]
  /\ box = [c \in Callers |-> "empty"]
  /\ outcome = [c \in Callers |-> "ok"]
  /\ age = [c \in Callers |-> 0]
  /\ pending = [k \in Keys |-> None]
  /\ owed = {} /\ skipped = {}
  /\ loginMu = None /\ loggedIn = FALSE
  /\ closed = FALSE

Goto(r, l) == pc' = [pc EXCEPT ![r] = l]

(***************************************************************************)
(* One request: roundTripRequest.                                           *)
(***************************************************************************)
InFlight(r) == pc[r] \in {"write", "wait"}

\* Assumption: of one kind no request is open, and no answer on its way, while
\* all the other numbers are reserved.
Room(kind) ==
  /\ Cardinality({o \in owed : o[2] = "stale"}) < MaxLate
  /\ \A o \in owed : o[1][1] = kind => o[3] < Modulus - 1
  /\ \A q \in Callers : InFlight(q) /\ key[q][1] = kind => age[q] < Modulus - 1

Older(n) == IF n < Modulus - 1 THEN n + 1 ELSE n

Reserve ==
  /\ next' = (next + 1) % Modulus
  /\ owed' = {<<o[1], o[2], Older(o[3])>> : o \in owed}

\* Mutant of Register: two requests that start together read the same number.
RegisterRace(r) ==
  /\ pc[r] = "start" /\ Room(Head(todo[r]))
  /\ LET k == <<Head(todo[r]), next>> IN
       /\ key' = [key EXCEPT ![r] = k]
       /\ pending' = [pending EXCEPT ![k] = r]
  /\ next' = IF \E q \in Callers \ {r} : pc[q] = "start" THEN next ELSE (next + 1) % Modulus
  /\ owed' = {<<o[1], o[2], Older(o[3])>> : o \in owed}
  /\ age' = [q \in Callers |-> IF q # r /\ InFlight(q) THEN Older(age[q]) ELSE 0]
  /\ box' = [box EXCEPT ![r] = "empty"]
  /\ Goto(r, "write")
  /\ UNCHANGED <<todo, outcome, skipped, loginVars, closed>>

\* Mutant of Register: the channel is registered once the request is written.
RegisterLate(r) ==
  /\ \/ /\ pc[r] = "start" /\ Room(Head(todo[r]))
        /\ key' = [key EXCEPT ![r] = <<Head(todo[r]), next>>]
        /\ Reserve
        /\ age' = [q \in Callers |-> IF q # r /\ InFlight(q) THEN Older(age[q]) ELSE 0]
        /\ box' = [box EXCEPT ![r] = "empty"]
        /\ Goto(r, "write")
        /\ UNCHANGED pending
     \/ /\ pc[r] = "wait" /\ pending[key[r]] # r
        /\ pending' = [pending EXCEPT ![key[r]] = r]
        /\ UNCHANGED <<key, next, owed, age, box, pc>>
  /\ UNCHANGED <<todo, outcome, skipped, loginVars, closed>>

\* The number is reserved and the response channel is registered under it.
Register(r) ==
  /\ pc[r] = "start" /\ Room(Head(todo[r]))
  /\ LET k == <<Head(todo[r]), next>> IN
       /\ key' = [key EXCEPT ![r] = k]
       /\ pending' = [pending EXCEPT ![k] = r]
  /\ Reserve
  /\ age' = [q \in Callers |-> IF q # r /\ InFlight(q) THEN Older(age[q]) ELSE 0]
  /\ box' = [box EXCEPT ![r] = "empty"]
  /\ Goto(r, "write")
  /\ UNCHANGED <<todo, outcome, skipped, loginVars, closed>>

\* Mutant of Return: a request that failed stays registered.
ReturnRegistered(r, o) ==
  /\ outcome' = [outcome EXCEPT ![r] = o]
  /\ pending' = IF o = "ok" THEN [pending EXCEPT ![key[r]] = None] ELSE pending
  /\ owed' = {IF w[2] = r THEN <<w[1], "stale", w[3]>> ELSE w : w \in owed}
  /\ skipped' = skipped \ {r}
  /\ key' = [key EXCEPT ![r] = NoKey] /\ box' = [box EXCEPT ![r] = "empty"]
  /\ age' = [age EXCEPT ![r] = 0]
  /\ Goto(r, "left")
  /\ UNCHANGED <<next, todo, loginVars, closed>>

\* The request returns o, and the deferred delete forgets its channel: whatever
\* the camera still owes is for nobody now.
Return(r, o) ==
  /\ outcome' = [outcome EXCEPT ![r] = o]
  /\ pending' = [pending EXCEPT ![key[r]] = None]
  /\ owed' = {IF w[2] = r THEN <<w[1], "stale", w[3]>> ELSE w : w \in owed}
  /\ skipped' = skipped \ {r}
  /\ key' = [key EXCEPT ![r] = NoKey] /\ box' = [box EXCEPT ![r] = "empty"]
  /\ age' = [age EXCEPT ![r] = 0]
  /\ Goto(r, "left")
  /\ UNCHANGED <<next, todo, loginVars, closed>>

\* writeRequest.
Write(r) ==
  /\ pc[r] = "write" /\ ~closed
  /\ owed' = owed \cup {<<key[r], r, age[r]>>}
  /\ Goto(r, "wait")
  /\ UNCHANGED <<age, next, todo, key, box, outcome, pending, skipped, loginVars, closed>>

WriteFails(r) == pc[r] = "write" /\ Return(r, "failed")

\* The three cases of the select.
Answered(r) ==
  /\ pc[r] = "wait" /\ box[r] # "empty"
  /\ Return(r, IF box[r] = "own" THEN "ok" ELSE box[r])

SeesClosed(r) == pc[r] = "wait" /\ closed /\ Return(r, "closed")

TimesOut(r) == pc[r] = "wait" /\ Return(r, "timeout")

(***************************************************************************)
(* Callers: Login, then the call.                                           *)
(***************************************************************************)
\* Login waits for loginMu; the first caller asks for a nonce and logs in.
Call(c) ==
  /\ pc[c] = "idle" /\ loginMu = None
  /\ todo' = [todo EXCEPT ![c] = IF loggedIn THEN <<"call">> ELSE <<"login", "login", "call">>]
  /\ loginMu' = IF loggedIn THEN None ELSE c
  /\ Goto(c, "start")
  /\ UNCHANGED <<age, next, key, box, outcome, pending, owed, skipped, loggedIn, closed>>

\* Mutant of CallFailed: a login that failed keeps loginMu.
CallFailedLocked(c) ==
  /\ pc[c] = "left" /\ outcome[c] # "ok"
  /\ todo' = [todo EXCEPT ![c] = <<>>]
  /\ Goto(c, "idle")
  /\ outcome' = [outcome EXCEPT ![c] = "ok"]
  /\ UNCHANGED <<age, next, key, box, pending, owed, skipped, loginVars, closed>>

\* The error of a request is the caller's, and gives loginMu back.
CallFailed(c) ==
  /\ pc[c] = "left" /\ outcome[c] # "ok"
  /\ todo' = [todo EXCEPT ![c] = <<>>]
  /\ loginMu' = IF loginMu = c THEN None ELSE loginMu
  /\ Goto(c, "idle")
  /\ outcome' = [outcome EXCEPT ![c] = "ok"]
  /\ UNCHANGED <<age, next, key, box, pending, owed, skipped, loggedIn, closed>>

\* The login is complete with its second answer.
CallProceeds(c) ==
  /\ pc[c] = "left" /\ outcome[c] = "ok"
  /\ todo' = [todo EXCEPT ![c] = Tail(@)]
  /\ Goto(c, IF Len(todo[c]) = 1 THEN "idle" ELSE "start")
  /\ LET complete == Len(todo[c]) = 2 IN
       /\ loggedIn' = (loggedIn \/ complete)
       /\ loginMu' = IF complete THEN None ELSE loginMu
  /\ outcome' = [outcome EXCEPT ![c] = "ok"]
  /\ UNCHANGED <<age, next, key, box, pending, owed, skipped, closed>>

(***************************************************************************)
(* readLoop and dispatch.                                                   *)
(***************************************************************************)
\* An answer goes to the channel registered under its key, if there is one and
\* it is empty.
Receive(o) ==
  /\ owed' = owed \ {o}
  /\ \E refused \in BOOLEAN :
       LET r == pending[o[1]] IN
         box' = IF r = None \/ box[r] # "empty" THEN box
                ELSE [box EXCEPT ![r] = IF o[2] # r THEN "other" ELSE IF refused THEN "refused" ELSE "own"]
  /\ UNCHANGED <<age, next, pc, todo, key, outcome, pending, skipped, loginVars, closed>>

\* The camera never answers a request.
CameraForgets(o) ==
  /\ ~closed
  /\ owed' = owed \ {o}
  /\ skipped' = skipped \cup ({o[2]} \ {"stale"})
  /\ UNCHANGED <<age, next, pc, todo, key, box, outcome, pending, loginVars, closed>>

\* sendNoReply: the keep-alive of a UID session takes a number and waits for nobody.
SendNoReply ==
  /\ loggedIn /\ ~closed
  /\ Reserve
  /\ age' = [c \in Callers |-> IF InFlight(c) THEN Older(age[c]) ELSE 0]
  /\ UNCHANGED <<pc, todo, key, box, outcome, pending, skipped, loginVars, closed>>

\* The connection ends: but for the answer readLoop may have in hand, what the
\* camera has not answered by now is never read.
Shutdown ==
  /\ ~closed /\ closed' = TRUE
  /\ owed' \in {{}} \cup {{o} : o \in owed}
  /\ skipped' = skipped \cup {c \in Callers : \E o \in owed \ owed' : o[2] = c}
  /\ UNCHANGED <<next, pc, todo, key, box, outcome, age, pending, loginVars>>

Caller(c) ==
  \/ Call(c) \/ Register(c) \/ Write(c) \/ WriteFails(c)
  \/ Answered(c) \/ SeesClosed(c) \/ TimesOut(c)
  \/ CallFailed(c) \/ CallProceeds(c)

Next ==
  \/ \E c \in Callers : Caller(c)
  \/ \E o \in owed : Receive(o) \/ CameraForgets(o)
  \/ SendNoReply \/ Shutdown

Spec == Init /\ [][Next]_vars

(***************************************************************************)
(* Properties.                                                              *)
(***************************************************************************)
\* Every variable has its type; loginMu is held through the two requests of a
\* login and nothing else, and never once the client is logged in.
TypeOK ==
  /\ next \in 0..Modulus - 1
  /\ pc \in [Callers -> {"idle", "start", "write", "wait", "left"}]
  /\ key \in [Callers -> Keys \cup {NoKey}] /\ age \in [Callers -> 0..Modulus - 1]
  /\ box \in [Callers -> {"empty", "own", "refused", "other"}]
  /\ outcome \in [Callers -> {"ok", "refused", "other", "failed", "timeout", "closed"}]
  /\ pending \in [Keys -> Callers \cup {None}]
  /\ owed \subseteq Keys \X (Callers \cup {"stale"}) \X (0..Modulus - 1)
  /\ skipped \subseteq Callers
  /\ loginMu \in Callers \cup {None}
  /\ \A c \in Callers : (loginMu = c) = (Len(todo[c]) > 1)
  /\ loggedIn \in BOOLEAN /\ (loggedIn => loginMu = None)
  /\ closed \in BOOLEAN

\* An answer never reaches another request than the one it answers: a late
\* answer after a time-out does not, nor do two requests at a time cross,
\* although the numbers are 16 bits wide (roundTripRequestWithReservedMsgNum).
AnswersOwn == \A c \in Callers : box[c] # "other"

\* An answer that came while its requester waits was not dropped: it is in the
\* channel, or the camera still owes it or will never give it (dispatch).
AnswerReachesWaiter ==
  \A c \in Callers : pc[c] = "wait" /\ box[c] = "empty" =>
    c \in skipped \/ \E o \in owed : o[2] = c

\* No path, of errors or time-outs, leaves a channel behind in the table of
\* pending requests, and no request in flight has lost its own.
NoStalePending ==
  /\ \A k \in Keys : pending[k] # None => InFlight(pending[k]) /\ key[pending[k]] = k
  /\ \A c \in Callers : InFlight(c) => pending[key[c]] = c
=============================================================================
