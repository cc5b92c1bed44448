----------------------------- MODULE DeviceConn -----------------------------
(***************************************************************************)
(* The shared camera connection of pkg/bridge/device.go.  One cameraDevice *)
(* owns at most one Baichuan client; stream loops, the event watcher, talk *)
(* pipelines and API calls obtain it with Ensure, report it broken with    *)
(* ResetIfCurrent, and the camera's owner ends it with Close.  Every change*)
(* of m.client queues a connection state that a single goroutine delivers. *)
(*                                                                         *)
(* Connections are numbered in the order they are dialled.  An action is   *)
(* one critical section of m.mu, one network answer or one step of the     *)
(* delivering goroutine; Ensure keeps m.mu over the dial and the login.    *)
(***************************************************************************)
EXTENDS Integers, Sequences

CONSTANTS
  Streams,   \* one StreamPackets loop per profile (camera context)
  Watchers,  \* watchEventsLoop (camera context)
  Talkers,   \* talkback pipelines (a context of their own)
  Callers,   \* WithClient users: snapshots, PTZ, ... (the caller's context)
  Drainers,  \* goroutines notifyState may have started
  LowPower,  \* the connection may close itself with ErrIdle
  MaxDials   \* bound: connections dialled in one behaviour

ASSUME DialsAssumption == MaxDials \in Nat

Procs == Streams \cup Watchers \cup Talkers \cup Callers
CameraCtx == Streams \cup Watchers

ASSUME RolesAssumption ==
  /\ Streams \cap Watchers = {} /\ Talkers \cap Callers = {}
  /\ CameraCtx \cap (Talkers \cup Callers) = {}
  /\ 0 \notin Procs
  /\ LowPower \in BOOLEAN

VARIABLES
  mu,        \* holder of m.mu across a dial, 0 when free
  client,    \* m.client, 0 for nil
  dials,     \* connections dialled so far
  err,       \* closeErr of every connection, "none" before it is dialled
  latest,    \* the last connection m.client was set to, 0 if none (history)
  pc,        \* where each user of the device is
  cl,        \* the client variable each user holds, 0 for none
  seen,      \* the connection each user last saw fail in transport, 0 for none
  healing,   \* talkers inside the Ensure of WriteADPCMBlock's error path
  owner,     \* Camera.stop: "live", "cancelled" or "stopped"
  queued,    \* every state given to notifyState, oldest first (history)
  pending,   \* m.statePending
  draining,  \* m.stateDraining
  running,   \* the delivering goroutines that have not returned
  carry,     \* the state each of them popped and has not delivered
  told       \* every state handed to onState (history)

connVars == <<mu, client, dials, err, latest>>
userVars == <<pc, cl, seen, healing>>
noteVars == <<queued, pending, draining, running, carry, told>>
vars == <<connVars, userVars, owner, noteVars>>

Conns == 1..MaxDials
States == {"up", "down"}  \* true and false of onState
Alive(c) == c # 0 /\ err[c] = "open"

Init ==
  /\ mu = 0 /\ client = 0 /\ dials = 0 /\ latest = 0
  /\ err = [c \in Conns |-> "none"]
  /\ pc = [p \in Procs |-> "top"]
  /\ cl = [p \in Procs |-> 0]
  /\ seen = [p \in Procs |-> 0]
  /\ healing = {}
  /\ owner = "live"
  /\ queued = <<>> /\ pending = <<>> /\ told = <<>>
  /\ draining = FALSE /\ running = {}
  /\ carry = [d \in Drainers |-> <<>>]

(***************************************************************************)
(* Queueing a state: notifyState appends it and starts the delivering      *)
(* goroutine unless one runs already.                                      *)
(***************************************************************************)
\* Mutant of Notify: a goroutine for every state, without stateDraining.
NotifyNoFlag(b) ==
  /\ queued' = Append(queued, b)
  /\ pending' = Append(pending, b)
  /\ draining' = TRUE
  /\ IF Drainers = running THEN UNCHANGED running
     ELSE \E d \in Drainers \ running : running' = running \cup {d}
  /\ UNCHANGED <<carry, told>>

Notify(b) ==
  /\ queued' = Append(queued, b)
  /\ pending' = Append(pending, b)
  /\ draining' = TRUE
  /\ \/ draining /\ UNCHANGED running
     \/ ~draining /\ \E d \in Drainers \ running : running' = running \cup {d}
  /\ UNCHANGED <<carry, told>>

\* Mutant of CloseLocked: an idle close is remembered beyond its connection.
CloseLockedOnceIdle ==
  IF client = 0
  THEN UNCHANGED <<client, err, noteVars>>
  ELSE /\ client' = 0
       /\ err' = [err EXCEPT ![client] = IF @ = "open" THEN "closed" ELSE @]
       /\ IF \E c \in Conns : err[c] = "idle" THEN UNCHANGED noteVars ELSE Notify("down")

\* closeLocked: an idle close the device asked for is not reported as a loss.
CloseLocked ==
  IF client = 0
  THEN UNCHANGED <<client, err, noteVars>>
  ELSE /\ client' = 0
       /\ err' = [err EXCEPT ![client] = IF @ = "open" THEN "closed" ELSE @]
       /\ IF err[client] = "idle" THEN UNCHANGED noteVars ELSE Notify("down")

(***************************************************************************)
(* Ensure: hand out the live client, or drop the dead one and dial again,  *)
(* all under m.mu.  A loop under the camera's context looks at it before   *)
(* it calls Ensure; Camera.stop may cancel it at any point after that.     *)
(***************************************************************************)
Cancelled(p) == p \in CameraCtx /\ owner # "live"

Enter(p) ==
  /\ pc[p] = "top" /\ ~Cancelled(p)
  /\ pc' = [pc EXCEPT ![p] = "ensure"]
  /\ UNCHANGED <<connVars, cl, seen, healing, owner, noteVars>>

EnsureReuse(p) ==
  /\ pc[p] = "ensure" /\ mu = 0
  /\ Alive(client)
  /\ pc' = [pc EXCEPT ![p] = "have"]
  /\ cl' = [cl EXCEPT ![p] = client]
  /\ UNCHANGED <<connVars, seen, healing, owner, noteVars>>

\* Mutant of EnsureLock: Ensure dials under a context of its own.
EnsureLockBackground(p) ==
  /\ pc[p] = "ensure" /\ mu = 0
  /\ ~Alive(client)
  /\ CloseLocked
  /\ mu' = p
  /\ pc' = [pc EXCEPT ![p] = "dial"]
  /\ cl' = [cl EXCEPT ![p] = 0]
  /\ UNCHANGED <<dials, latest, seen, healing, owner>>

EnsureLock(p) ==
  /\ pc[p] = "ensure" /\ mu = 0
  /\ ~Alive(client) /\ ~Cancelled(p)
  /\ CloseLocked
  /\ mu' = p
  /\ pc' = [pc EXCEPT ![p] = "dial"]
  /\ cl' = [cl EXCEPT ![p] = 0]
  /\ UNCHANGED <<dials, latest, seen, healing, owner>>

\* Dial under a context that is already cancelled fails at once.
EnsureCancelled(p) ==
  /\ pc[p] = "ensure" /\ mu = 0
  /\ ~Alive(client) /\ Cancelled(p)
  /\ CloseLocked
  /\ pc' = [pc EXCEPT ![p] = "failed"]
  /\ cl' = [cl EXCEPT ![p] = 0]
  /\ UNCHANGED <<mu, dials, latest, seen, healing, owner>>

DialOk(p) ==
  /\ pc[p] = "dial" /\ mu = p
  /\ dials < MaxDials
  /\ dials' = dials + 1
  /\ err' = [err EXCEPT ![dials + 1] = "open"]
  /\ cl' = [cl EXCEPT ![p] = dials + 1]
  /\ pc' = [pc EXCEPT ![p] = "login"]
  /\ UNCHANGED <<mu, client, latest, seen, healing, owner, noteVars>>

\* Mutant of DialFail: the error of Dial is not looked at.
DialFailIgnored(p) ==
  /\ pc[p] = "dial" /\ mu = p
  /\ mu' = 0
  /\ pc' = [pc EXCEPT ![p] = "have"]
  /\ UNCHANGED <<client, dials, err, latest, cl, seen, healing, owner, noteVars>>

DialFail(p) ==
  /\ pc[p] = "dial" /\ mu = p
  /\ mu' = 0
  /\ pc' = [pc EXCEPT ![p] = "failed"]
  /\ UNCHANGED <<client, dials, err, latest, cl, seen, healing, owner, noteVars>>

LoginOk(p) ==
  /\ pc[p] = "login" /\ mu = p
  /\ Alive(cl[p])
  /\ mu' = 0
  /\ client' = cl[p] /\ latest' = cl[p]
  /\ Notify("up")
  /\ pc' = [pc EXCEPT ![p] = "have"]
  /\ UNCHANGED <<dials, err, cl, seen, healing, owner>>

\* Mutant of LoginFail: the client is not closed after a failed login.
LoginFailLeaks(p) ==
  /\ pc[p] = "login" /\ mu = p
  /\ mu' = 0
  /\ pc' = [pc EXCEPT ![p] = "failed"]
  /\ cl' = [cl EXCEPT ![p] = 0]
  /\ UNCHANGED <<client, err, dials, latest, seen, healing, owner, noteVars>>

LoginFail(p) ==
  /\ pc[p] = "login" /\ mu = p
  /\ mu' = 0
  /\ err' = [err EXCEPT ![cl[p]] = IF @ = "open" THEN "closed" ELSE @]
  /\ pc' = [pc EXCEPT ![p] = "failed"]
  /\ cl' = [cl EXCEPT ![p] = 0]
  /\ UNCHANGED <<client, dials, latest, seen, healing, owner, noteVars>>

(***************************************************************************)
(* What the users do with the client.  A transport failure is remembered   *)
(* in seen; it leads to ResetIfCurrent of the client the user holds.       *)
(***************************************************************************)
Goto(p, l) == pc' = [pc EXCEPT ![p] = l]
KeepRest == UNCHANGED <<connVars, cl, healing, owner, noteVars>>

\* StartPreview, ListenForAlarms or StartTalk accepted by the camera.
UseOk(p) ==
  /\ p \notin Callers /\ p \notin healing
  /\ pc[p] = "have" /\ Alive(cl[p])
  /\ Goto(p, "use") /\ UNCHANGED seen /\ KeepRest

\* The camera answered with a status error: the shared connection stays.
UseRefused(p) ==
  /\ p \in Streams \cup Talkers /\ p \notin healing
  /\ pc[p] = "have" /\ Alive(cl[p])
  /\ Goto(p, "top") /\ UNCHANGED seen /\ KeepRest

\* A timeout or a broken transport while starting.
UseFailed(p) ==
  /\ p \notin Callers /\ p \notin healing
  /\ pc[p] = "have"
  /\ Goto(p, "reset")
  /\ seen' = [seen EXCEPT ![p] = cl[p]]
  /\ KeepRest

\* WithClient: the call returned, and only a closed client is reset.
CallDone(p) ==
  /\ p \in Callers /\ pc[p] = "have"
  /\ \/ Goto(p, "top") /\ UNCHANGED seen
     \/ /\ ~Alive(cl[p])
        /\ Goto(p, "reset")
        /\ seen' = [seen EXCEPT ![p] = cl[p]]
  /\ KeepRest

\* pumpPreview: a desync or a 15 s stall restarts the preview on the client.
PumpRestart(s) ==
  /\ s \in Streams /\ pc[s] = "use"
  /\ Goto(s, "top") /\ UNCHANGED seen /\ KeepRest

\* pumpPreview: an idle stream stops its preview; a refused stop resets.
PumpIdle(s) ==
  /\ s \in Streams /\ pc[s] = "use"
  /\ \/ Goto(s, "top")
     \/ Alive(cl[s]) /\ Goto(s, "resetIdle")
  /\ UNCHANGED seen /\ KeepRest

\* The packet channel closed with the connection: previewResetClient, which
\* resets while the stream is wanted, or the watcher's client.Done().
UseEnded(p) ==
  /\ p \in CameraCtx /\ pc[p] = "use" /\ ~Alive(cl[p])
  /\ \/ /\ p \in Watchers => ~Cancelled(p)
        /\ Goto(p, "reset") /\ seen' = [seen EXCEPT ![p] = cl[p]]
     \/ p \in Streams /\ Goto(p, "top") /\ UNCHANGED seen
  /\ KeepRest

\* The camera lacks the motion ability and has no battery: the watcher ends.
WatchUnsupported(w) ==
  /\ w \in Watchers /\ pc[w] = "have" /\ Alive(cl[w])
  /\ Goto(w, "done") /\ UNCHANGED seen /\ KeepRest

\* WriteADPCMBlock failed: the session is dropped after the reset of
\* whatever client the Ensure on the error path returns.
TalkWriteFailed(t) ==
  /\ t \in Talkers /\ pc[t] = "use"
  /\ Goto(t, "ensure")
  /\ seen' = [seen EXCEPT ![t] = cl[t]]
  /\ healing' = healing \cup {t}
  /\ UNCHANGED <<connVars, cl, owner, noteVars>>

TalkHeal(t) ==
  /\ t \in healing /\ pc[t] = "have"
  /\ Goto(t, "reset") /\ UNCHANGED seen /\ KeepRest

\* The talk bridge ends: TalkSession.Close leaves the connection alone.
TalkEnded(t) ==
  /\ t \in Talkers /\ pc[t] = "use"
  /\ Goto(t, "top") /\ UNCHANGED seen /\ KeepRest

\* Mutant of ResetIfCurrent: without the m.client != client check.
ResetAnyClient(p) ==
  /\ pc[p] \in {"reset", "resetIdle"} /\ mu = 0
  /\ CloseLocked
  /\ Goto(p, "top")
  /\ cl' = [cl EXCEPT ![p] = 0]
  /\ seen' = [seen EXCEPT ![p] = 0]
  /\ healing' = healing \ {p}
  /\ UNCHANGED <<mu, dials, latest, owner>>

\* Mutant of ResetIfCurrent: a late report returns without unlocking m.mu.
ResetLateLocked(p) ==
  /\ pc[p] \in {"reset", "resetIdle"} /\ mu = 0
  /\ IF client = cl[p] THEN CloseLocked /\ UNCHANGED mu
     ELSE mu' = p /\ UNCHANGED <<client, err, noteVars>>
  /\ Goto(p, "top")
  /\ cl' = [cl EXCEPT ![p] = 0]
  /\ seen' = [seen EXCEPT ![p] = 0]
  /\ healing' = healing \ {p}
  /\ UNCHANGED <<dials, latest, owner>>

ResetIfCurrent(p) ==
  /\ pc[p] \in {"reset", "resetIdle"} /\ mu = 0
  /\ IF client = cl[p] THEN CloseLocked ELSE UNCHANGED <<client, err, noteVars>>
  /\ Goto(p, "top")
  /\ cl' = [cl EXCEPT ![p] = 0]
  /\ seen' = [seen EXCEPT ![p] = 0]
  /\ healing' = healing \ {p}
  /\ UNCHANGED <<mu, dials, latest, owner>>

\* Mutant of Retry: the loop calls Ensure again without looking at ctx.
RetryNoCheck(p) ==
  /\ pc[p] = "failed"
  /\ Goto(p, "ensure")
  /\ healing' = healing \ {p}
  /\ seen' = [seen EXCEPT ![p] = 0]
  /\ UNCHANGED <<connVars, cl, owner, noteVars>>

\* The back-off after a failed Ensure; a failed Ensure on the talk error
\* path returns a nil client, whose reset is a no-op.
Retry(p) ==
  /\ pc[p] = "failed"
  /\ Goto(p, "top")
  /\ healing' = healing \ {p}
  /\ seen' = [seen EXCEPT ![p] = 0]
  /\ UNCHANGED <<connVars, cl, owner, noteVars>>

\* A loop under the camera's context returns once it is cancelled.
LoopExit(p) ==
  /\ Cancelled(p)
  /\ pc[p] \in {"top", "failed", "use"}
  /\ Goto(p, "done") /\ UNCHANGED seen /\ KeepRest

(***************************************************************************)
(* Camera.stop cancels the context and then closes the device; the network *)
(* loses a connection at any moment; a low-power connection closes itself. *)
(***************************************************************************)
Cancel ==
  /\ owner = "live"
  /\ owner' = "cancelled"
  /\ UNCHANGED <<connVars, userVars, noteVars>>

Close ==
  /\ owner = "cancelled" /\ mu = 0
  /\ CloseLocked
  /\ owner' = "stopped"
  /\ UNCHANGED <<mu, dials, latest, userVars>>

Lose(c) ==
  /\ Alive(c)
  /\ err' = [err EXCEPT ![c] = "lost"]
  /\ UNCHANGED <<mu, client, dials, latest, userVars, owner, noteVars>>

IdleClose(c) ==
  /\ LowPower /\ c = client /\ Alive(c)
  /\ err' = [err EXCEPT ![c] = "idle"]
  /\ UNCHANGED <<mu, client, dials, latest, userVars, owner, noteVars>>

(***************************************************************************)
(* The delivering goroutine of notifyState.                                *)
(***************************************************************************)
DrainTake(d) ==
  /\ d \in running /\ carry[d] = <<>> /\ pending # <<>>
  /\ carry' = [carry EXCEPT ![d] = <<Head(pending)>>]
  /\ pending' = Tail(pending)
  /\ UNCHANGED <<connVars, userVars, owner, queued, draining, running, told>>

DrainCall(d) ==
  /\ d \in running /\ carry[d] # <<>>
  /\ told' = told \o carry[d]
  /\ carry' = [carry EXCEPT ![d] = <<>>]
  /\ UNCHANGED <<connVars, userVars, owner, queued, pending, draining, running>>

\* Mutant of DrainExit: stateDraining stays set when the goroutine returns.
DrainExitKeepsFlag(d) ==
  /\ d \in running /\ carry[d] = <<>> /\ pending = <<>>
  /\ running' = running \ {d}
  /\ UNCHANGED <<connVars, userVars, owner, queued, pending, draining, carry, told>>

DrainExit(d) ==
  /\ d \in running /\ carry[d] = <<>> /\ pending = <<>>
  /\ draining' = FALSE
  /\ running' = running \ {d}
  /\ UNCHANGED <<connVars, userVars, owner, queued, pending, carry, told>>

-----------------------------------------------------------------------------
GetMutex(p) == EnsureReuse(p) \/ EnsureLock(p) \/ EnsureCancelled(p)

Connect(p) == DialOk(p) \/ DialFail(p) \/ LoginOk(p) \/ LoginFail(p)

Use(p) ==
  \/ UseOk(p) \/ UseRefused(p) \/ UseFailed(p) \/ CallDone(p)
  \/ WatchUnsupported(p) \/ TalkHeal(p)

EndUse(p) ==
  \/ PumpRestart(p) \/ PumpIdle(p) \/ UseEnded(p)
  \/ TalkWriteFailed(p) \/ TalkEnded(p)

Step(p) ==
  \/ Enter(p) \/ GetMutex(p) \/ Connect(p) \/ Use(p) \/ EndUse(p)
  \/ ResetIfCurrent(p) \/ Retry(p) \/ LoopExit(p)

Drain(d) == DrainTake(d) \/ DrainCall(d) \/ DrainExit(d)

Network == \E c \in Conns : Lose(c) \/ IdleClose(c)

Next ==
  \/ \E p \in Procs : Step(p)
  \/ \E d \in Drainers : Drain(d)
  \/ Network \/ Cancel \/ Close

Spec == Init /\ [][Next]_vars

(***************************************************************************)
(* Fairness.  Go's sync.Mutex does not starve a waiter, so whoever wants   *)
(* m.mu gets it (SF).  Every user takes its next step (WF): dials, logins, *)
(* back-offs and pauses have time-outs, and a request that has none (the   *)
(* start of a preview) ends with an answer, the connection or the context. *)
(* That a camera which is asked again and again answers at last is an      *)
(* assumption about the camera (SF on the answers), used by StreamRecovers *)
(* only.                                                                   *)
(***************************************************************************)
Mutex(p) == GetMutex(p) \/ ResetIfCurrent(p)

CameraAnswers(s) == SF_vars(DialOk(s) \/ LoginOk(s)) /\ SF_vars(UseOk(s))

FairSpec ==
  /\ Spec
  /\ \A p \in Procs : WF_vars(Step(p)) /\ SF_vars(Mutex(p))
  /\ \A s \in Streams : CameraAnswers(s)
  /\ \A d \in Drainers : WF_vars(Drain(d))
  /\ SF_vars(Close)

-----------------------------------------------------------------------------
PCs == {"top", "ensure", "dial", "login", "failed", "have", "use", "reset",
        "resetIdle", "done"}

HasClient == {"login", "have", "use", "reset", "resetIdle"}

UserTypes ==
  /\ mu \in Procs \cup {0}
  /\ dials \in 0..MaxDials
  /\ client \in 0..dials
  /\ err \in [Conns -> {"none", "open", "lost", "idle", "closed"}]
  /\ latest \in 0..dials
  /\ pc \in [Procs -> PCs]
  /\ cl \in [Procs -> 0..dials]
  /\ \A p \in Procs : pc[p] \in HasClient => cl[p] # 0
  /\ seen \in [Procs -> 0..dials]
  /\ healing \in SUBSET Talkers
  /\ owner \in {"live", "cancelled", "stopped"}

NoteTypes ==
  /\ queued \in Seq(States) /\ pending \in Seq(States) /\ told \in Seq(States)
  /\ draining \in BOOLEAN /\ running \in SUBSET Drainers
  /\ carry \in [Drainers -> Seq(States)]

\* The types of the variables; a user past a successful dial or Ensure holds
\* a connection, never a nil client.
TypeOK == UserTypes /\ NoteTypes

\* Ensure, ResetIfCurrent, Close: however dials, logins, losses and resets
\* interleave, a connection that is still open is the one the device hands
\* out or the one being logged in under m.mu. No open socket (and no awake
\* battery camera) is left behind without an owner.
NoLeak ==
  \A c \in Conns : err[c] = "open" =>
    client = c \/ \E p \in Procs : mu = p /\ pc[p] = "login" /\ cl[p] = c

\* notifyState: the states the callback has seen, the one being delivered and
\* those waiting are together exactly the states queued, in their order. A
\* reconnect queues false and true a moment apart from different goroutines.
StatesInOrder ==
  \/ running = {} /\ queued = told \o pending
  \/ \E d \in running : running = {d} /\ queued = told \o carry[d] \o pending

\* closeLocked and Ensure: the last state queued says whether the device has a
\* client, unless the connection it lost last ended with an idle close, which is
\* not announced; and a loss is announced only after a connect, never twice in a
\* row. An idle close excuses nothing once the device has connected again.
StateMatchesClient ==
  /\ client # 0 => queued # <<>> /\ queued[Len(queued)] = "up"
  /\ client = 0 /\ queued # <<>> /\ queued[Len(queued)] = "up"
       => latest # 0 /\ err[latest] = "idle"
  /\ \A i \in 1..Len(queued) : queued[i] = "down" => i > 1 /\ queued[i - 1] = "up"

\* A working connection is dropped only by Camera.stop, by the idle-stop and
\* talk-write paths (which reset a client nobody saw fail, see the README), or
\* by a user that saw this very connection fail: a failure reported late never
\* takes down the connection that replaced the broken one.
ResetsOwnFailure ==
  [][ Alive(client) /\ client' = 0 /\ owner' = owner =>
        \E p \in Procs :
          \/ pc[p] = "reset" /\ cl[p] = client /\ (p \in healing \/ seen[p] = client)
          \/ pc[p] = "resetIdle" /\ cl[p] = client ]_vars

\* Once Camera.stop has closed the device, no stream loop and no event watcher
\* connects it again, whatever they were doing when the context was cancelled.
NoReconnectAfterStop ==
  [][ owner = "stopped" /\ client' # client /\ client' # 0
        => mu \in Talkers \cup Callers ]_vars

\* No further connection can be dialled in this behaviour, and the last is gone.
DialsUsedUp == dials = MaxDials /\ \A c \in Conns : err[c] # "open"

\* StreamPackets: after any loss, failed dial, refusal or reset by another
\* user, a stream gets its preview again on the connection that replaces the
\* broken one, unless the camera is being removed (or that connection, too, has
\* ended and the bound leaves no further one).
StreamRecovers ==
  \A s \in Streams : []<>(pc[s] = "use" \/ owner # "live" \/ DialsUsedUp)

\* Camera.stop: after the cancel every loop under the camera's context returns
\* and the device is closed, even while others hold m.mu in a dial.
LoopsEnd ==
  owner = "cancelled" ~>
    (owner = "stopped" /\ \A p \in CameraCtx : pc[p] = "done")

\* The device implements OrderedNotify: no state is lost, repeated or
\* reordered, and each is delivered at last.
Notification == INSTANCE OrderedNotify WITH hist <- queued, told <- told
ImplementsOrderedNotify == Notification!Spec

=============================================================================
