-------------------------- MODULE DeviceConnProofs --------------------------
(***************************************************************************)
(* Theorems about DeviceConn, for any sets of users, any number of dials   *)
(* and low-power cameras or not.                                           *)
(***************************************************************************)
EXTENDS DeviceConn, SequenceTheorems, TLAPS

\* Whoever is between the dial and the end of the login holds m.mu, and while
\* m.mu is held there the device has no client.
MutexInv ==
  /\ \A p \in Procs : pc[p] \in {"dial", "login"} <=> mu = p
  /\ mu # 0 => client = 0

USE DialsAssumption, RolesAssumption DEF Conns, Procs, CameraCtx

\* What notifyState is given.
LEMMA StateNames == "up" \in States /\ "down" \in States
  BY DEF States

\* Notify keeps the types of the notification variables.
LEMMA NotifyType ==
  ASSUME NoteTypes, NEW b \in States, Notify(b)
  PROVE  NoteTypes'
  <1>1. queued' \in Seq(States) /\ pending' \in Seq(States)
    BY DEF NoteTypes, Notify
  <1>2. told' \in Seq(States) /\ carry' \in [Drainers -> Seq(States)]
    BY DEF NoteTypes, Notify
  <1>3. draining' \in BOOLEAN /\ running' \in SUBSET Drainers
    BY DEF NoteTypes, Notify
  <1>. QED
    BY <1>1, <1>2, <1>3 DEF NoteTypes

\* closeLocked keeps the types, and leaves the device without a client.
LEMMA CloseType ==
  ASSUME UserTypes, NoteTypes, CloseLocked
  PROVE  /\ NoteTypes'
         /\ client' = 0
         /\ err' \in [Conns -> {"none", "open", "lost", "idle", "closed"}]
  <1>1. CASE client = 0
    BY <1>1 DEF CloseLocked, UserTypes, NoteTypes, noteVars
  <1>2. CASE client # 0 /\ err[client] = "idle"
    BY <1>2 DEF CloseLocked, UserTypes, NoteTypes, noteVars
  <1>3. CASE client # 0 /\ err[client] # "idle"
    <2>1. Notify("down")
      BY <1>3 DEF CloseLocked
    <2>2. NoteTypes'
      BY <2>1, NotifyType, StateNames
    <2>. QED
      BY <1>3, <2>2 DEF CloseLocked, UserTypes
  <1>. QED
    BY <1>1, <1>2, <1>3

\* Steps that leave the notification variables alone keep their types.
LEMMA NoteFrame ==
  ASSUME NoteTypes, UNCHANGED noteVars
  PROVE  NoteTypes'
  BY DEF NoteTypes, noteVars

-----------------------------------------------------------------------------
(***************************************************************************)
(* Type correctness.                                                       *)
(***************************************************************************)
\* The types hold at the start.
LEMMA TypeInit == Init => TypeOK
  <1>1. Init => UserTypes
    <2>. SUFFICES ASSUME Init PROVE UserTypes
      OBVIOUS
    <2>1. /\ pc \in [Procs -> PCs]
          /\ \A p \in Procs : pc[p] \in HasClient => cl[p] # 0
      BY DEF Init, PCs, HasClient
    <2>2. 0 \in 0..dials /\ client \in 0..dials /\ latest \in 0..dials
      BY DEF Init
    <2>3. cl \in [Procs -> 0..dials] /\ seen \in [Procs -> 0..dials]
      BY <2>2 DEF Init
    <2>4. mu \in Procs \cup {0} /\ dials \in 0..MaxDials
      BY DEF Init
    <2>5. /\ healing \in SUBSET Talkers
          /\ owner \in {"live", "cancelled", "stopped"}
      BY DEF Init
    <2>6. err \in [Conns -> {"none", "open", "lost", "idle", "closed"}]
      BY DEF Init
    <2>. QED
      BY <2>1, <2>2, <2>3, <2>4, <2>5, <2>6 DEF UserTypes
  <1>2. Init => NoteTypes
    <2>. SUFFICES ASSUME Init PROVE NoteTypes
      OBVIOUS
    <2>1. /\ queued \in Seq(States) /\ pending \in Seq(States)
          /\ told \in Seq(States)
      BY DEF Init
    <2>2. carry \in [Drainers -> Seq(States)]
      BY DEF Init
    <2>3. draining \in BOOLEAN /\ running \in SUBSET Drainers
      BY DEF Init
    <2>. QED
      BY <2>1, <2>2, <2>3 DEF NoteTypes
  <1>. QED
    BY <1>1, <1>2 DEF TypeOK

\* Ensure and its dial and login.
LEMMA TypeEnsure ==
  ASSUME TypeOK, NEW p \in Procs, Enter(p) \/ GetMutex(p) \/ Connect(p)
  PROVE  TypeOK'
  <1>. USE DEF UserTypes, PCs, HasClient, connVars
  <1>1. CASE Enter(p)
    BY <1>1, NoteFrame DEF TypeOK, Enter
  <1>2. CASE EnsureReuse(p)
    BY <1>2, NoteFrame DEF TypeOK, EnsureReuse, Alive
  <1>3. CASE EnsureLock(p)
    BY <1>3, CloseType DEF TypeOK, EnsureLock
  <1>4. CASE EnsureCancelled(p)
    BY <1>4, CloseType DEF TypeOK, EnsureCancelled
  <1>5. CASE DialOk(p)
    BY <1>5, NoteFrame DEF TypeOK, DialOk
  <1>6. CASE DialFail(p)
    BY <1>6, NoteFrame DEF TypeOK, DialFail
  <1>7. CASE LoginOk(p)
    BY <1>7, NotifyType, StateNames DEF TypeOK, LoginOk
  <1>8. CASE LoginFail(p)
    BY <1>8, NoteFrame DEF TypeOK, LoginFail
  <1>. QED
    BY <1>1, <1>2, <1>3, <1>4, <1>5, <1>6, <1>7, <1>8 DEF GetMutex, Connect

\* What the users do with a client, and how a use ends.
LEMMA TypeUse ==
  ASSUME TypeOK, NEW p \in Procs, Use(p) \/ EndUse(p)
  PROVE  TypeOK'
  <1>. USE DEF UserTypes, PCs, HasClient, connVars, KeepRest, Goto
  <1>1. CASE UseOk(p)
    BY <1>1, NoteFrame DEF TypeOK, UseOk
  <1>2. CASE UseRefused(p)
    BY <1>2, NoteFrame DEF TypeOK, UseRefused
  <1>3. CASE UseFailed(p)
    BY <1>3, NoteFrame DEF TypeOK, UseFailed
  <1>4. CASE CallDone(p)
    BY <1>4, NoteFrame DEF TypeOK, CallDone
  <1>5. CASE WatchUnsupported(p)
    BY <1>5, NoteFrame DEF TypeOK, WatchUnsupported
  <1>6. CASE TalkHeal(p)
    BY <1>6, NoteFrame DEF TypeOK, TalkHeal
  <1>7. CASE PumpRestart(p)
    BY <1>7, NoteFrame DEF TypeOK, PumpRestart
  <1>8. CASE PumpIdle(p)
    BY <1>8, NoteFrame DEF TypeOK, PumpIdle
  <1>9. CASE UseEnded(p)
    BY <1>9, NoteFrame DEF TypeOK, UseEnded
  <1>10. CASE TalkWriteFailed(p)
    BY <1>10, NoteFrame DEF TypeOK, TalkWriteFailed
  <1>11. CASE TalkEnded(p)
    BY <1>11, NoteFrame DEF TypeOK, TalkEnded
  <1>. QED
    BY <1>1, <1>2, <1>3, <1>4, <1>5, <1>6, <1>7, <1>8, <1>9, <1>10, <1>11 DEF Use, EndUse

\* The remaining steps of the users, of the network and of the owner.
LEMMA TypeRest ==
  ASSUME TypeOK,
         \/ \E p \in Procs : ResetIfCurrent(p) \/ Retry(p) \/ LoopExit(p)
         \/ Network \/ Cancel \/ Close
  PROVE  TypeOK'
  <1>. USE DEF UserTypes, PCs, HasClient, connVars, userVars
  <1>1. ASSUME NEW p \in Procs, ResetIfCurrent(p) PROVE TypeOK'
    <2>1. CASE client = cl[p]
      BY <1>1, <2>1, CloseType DEF TypeOK, ResetIfCurrent, Goto
    <2>2. CASE client # cl[p]
      BY <1>1, <2>2, NoteFrame DEF TypeOK, ResetIfCurrent, Goto
    <2>. QED
      BY <2>1, <2>2
  <1>2. ASSUME NEW p \in Procs, Retry(p) \/ LoopExit(p) PROVE TypeOK'
    <2>1. CASE Retry(p)
      BY <2>1, NoteFrame DEF TypeOK, Retry, Goto
    <2>2. CASE LoopExit(p)
      BY <2>2, NoteFrame DEF TypeOK, LoopExit, Goto, KeepRest
    <2>. QED
      BY <1>2, <2>1, <2>2
  <1>3. CASE Network
    BY <1>3, NoteFrame DEF TypeOK, Network, Lose, IdleClose
  <1>4. CASE Cancel
    BY <1>4, NoteFrame DEF TypeOK, Cancel
  <1>5. CASE Close
    BY <1>5, CloseType DEF TypeOK, Close
  <1>. QED
    BY <1>1, <1>2, <1>3, <1>4, <1>5

\* The delivering goroutines.
LEMMA TypeDrain ==
  ASSUME TypeOK, NEW d \in Drainers, Drain(d)
  PROVE  TypeOK'
  <1>0. UserTypes'
    BY DEF TypeOK, UserTypes, Drain, DrainTake, DrainCall, DrainExit,
           connVars, userVars
  <1>1. CASE DrainTake(d)
    BY <1>0, <1>1 DEF TypeOK, NoteTypes, DrainTake
  <1>2. CASE DrainCall(d)
    BY <1>0, <1>2 DEF TypeOK, NoteTypes, DrainCall
  <1>3. CASE DrainExit(d)
    BY <1>0, <1>3 DEF TypeOK, NoteTypes, DrainExit
  <1>. QED
    BY <1>1, <1>2, <1>3 DEF Drain

\* Every step keeps the types.
LEMMA TypeStep == TypeOK /\ [Next]_vars => TypeOK'
  <1>1. ASSUME TypeOK, UNCHANGED vars PROVE TypeOK'
    BY <1>1, NoteFrame DEF TypeOK, UserTypes, vars, connVars, userVars
  <1>. QED
    BY <1>1, TypeEnsure, TypeUse, TypeRest, TypeDrain DEF Next, Step

\* In every behaviour of the device the variables keep their types: no user
\* ever works with a nil client.
THEOREM TypeCorrect == Spec => []TypeOK
  BY TypeInit, TypeStep, PTL DEF Spec

-----------------------------------------------------------------------------
(***************************************************************************)
(* No open connection without an owner.  MutexInv is what makes NoLeak     *)
(* inductive: while somebody logs in under m.mu the device has no client,  *)
(* so LoginOk never overwrites one.                                        *)
(***************************************************************************)
LeakInv == MutexInv /\ NoLeak

\* At the start nobody holds m.mu and no connection is open.
LEMMA LeakInit == Init => LeakInv
  <1>. SUFFICES ASSUME Init PROVE LeakInv
    OBVIOUS
  <1>1. \A p \in Procs : pc[p] = "top" /\ mu # p
    BY DEF Init
  <1>2. \A c \in Conns : err[c] = "none"
    BY DEF Init
  <1>. QED
    BY <1>1, <1>2 DEF Init, LeakInv, MutexInv, NoLeak

\* closeLocked ends the connection it takes away from the device.
LEMMA CloseLeak ==
  ASSUME TypeOK, LeakInv, CloseLocked, mu = 0
  PROVE  /\ client' = 0
         /\ \A c \in Conns : err'[c] # "open"
  <1>1. \A c \in Conns : err[c] = "open" => client = c
    BY DEF LeakInv, NoLeak
  <1>2. CASE client = 0
    BY <1>1, <1>2 DEF CloseLocked
  <1>3. CASE client # 0
    <2>1. client' = 0 /\ client \in Conns
      BY <1>3 DEF CloseLocked, TypeOK, UserTypes
    <2>2. err' = [err EXCEPT ![client] = IF @ = "open" THEN "closed" ELSE @]
      BY <1>3 DEF CloseLocked
    <2>. QED
      BY <1>1, <2>1, <2>2 DEF TypeOK, UserTypes
  <1>. QED
    BY <1>2, <1>3

\* A dial and a login under m.mu: the new connection always has an owner.
LEMMA LeakConnect ==
  ASSUME TypeOK, LeakInv, NEW p \in Procs, Enter(p) \/ GetMutex(p) \/ Connect(p)
  PROVE  LeakInv'
  <1>. USE DEF LeakInv, MutexInv, NoLeak, TypeOK, UserTypes, connVars
  <1>1. CASE Enter(p)
    BY <1>1 DEF Enter
  <1>2. CASE EnsureReuse(p)
    BY <1>2 DEF EnsureReuse, Alive
  <1>3. CASE EnsureLock(p)
    BY <1>3, CloseLeak DEF EnsureLock
  <1>4. CASE EnsureCancelled(p)
    BY <1>4, CloseLeak DEF EnsureCancelled
  <1>5. CASE DialOk(p)
    BY <1>5 DEF DialOk
  <1>6. CASE DialFail(p)
    BY <1>6 DEF DialFail
  <1>7. CASE LoginOk(p)
    BY <1>7 DEF LoginOk, Alive
  <1>8. CASE LoginFail(p)
    BY <1>8 DEF LoginFail
  <1>. QED
    BY <1>1, <1>2, <1>3, <1>4, <1>5, <1>6, <1>7, <1>8 DEF GetMutex, Connect

\* A user that is neither dialling nor logging in moves between places
\* outside the mutex, and leaves the connections alone.
LEMMA LeakMove ==
  ASSUME TypeOK, LeakInv, NEW p \in Procs, UNCHANGED <<mu, client, err, cl>>,
         pc[p] \notin {"dial", "login"},
         NEW l \in PCs \ {"dial", "login"}, pc' = [pc EXCEPT ![p] = l]
  PROVE  LeakInv'
  BY DEF LeakInv, MutexInv, NoLeak, TypeOK, UserTypes

\* Using a client, and ending a use, leaves the ownership alone.
LEMMA LeakUse ==
  ASSUME TypeOK, LeakInv, NEW p \in Procs,
         Use(p) \/ EndUse(p) \/ Retry(p) \/ LoopExit(p)
  PROVE  LeakInv'
  <1>1. UNCHANGED <<mu, client, err, cl>>
    BY DEF Use, EndUse, UseOk, UseRefused, UseFailed, CallDone,
           WatchUnsupported, TalkHeal, PumpRestart, PumpIdle, UseEnded,
           TalkWriteFailed, TalkEnded, Retry, LoopExit, KeepRest, connVars
  <1>2. pc[p] \in {"have", "use", "failed", "top"}
    BY DEF Use, EndUse, UseOk, UseRefused, UseFailed, CallDone,
           WatchUnsupported, TalkHeal, PumpRestart, PumpIdle, UseEnded,
           TalkWriteFailed, TalkEnded, Retry, LoopExit
  <1>3. \E l \in PCs \ {"dial", "login"} : pc' = [pc EXCEPT ![p] = l]
    BY DEF Use, EndUse, UseOk, UseRefused, UseFailed, CallDone,
           WatchUnsupported, TalkHeal, PumpRestart, PumpIdle, UseEnded,
           TalkWriteFailed, TalkEnded, Retry, LoopExit, Goto, PCs
  <1>. QED
    BY <1>1, <1>2, <1>3, LeakMove

\* Resets, Close, losses, retries and the loops' exits leave no connection
\* without an owner.
LEMMA LeakRest ==
  ASSUME TypeOK, LeakInv,
         \/ \E p \in Procs : ResetIfCurrent(p)
         \/ \E d \in Drainers : Drain(d)
         \/ Network \/ Cancel \/ Close
  PROVE  LeakInv'
  <1>. USE DEF LeakInv, MutexInv, NoLeak, TypeOK, UserTypes, connVars, userVars
  <1>1. ASSUME NEW p \in Procs, ResetIfCurrent(p) PROVE LeakInv'
    <2>1. CASE client = cl[p]
      BY <1>1, <2>1, CloseLeak DEF ResetIfCurrent, Goto
    <2>2. CASE client # cl[p]
      BY <1>1, <2>2 DEF ResetIfCurrent, Goto
    <2>. QED
      BY <2>1, <2>2
  <1>2. ASSUME NEW d \in Drainers, Drain(d) PROVE LeakInv'
    BY <1>2 DEF Drain, DrainTake, DrainCall, DrainExit
  <1>3. CASE Network
    BY <1>3 DEF Network, Lose, IdleClose, Alive
  <1>4. CASE Cancel
    BY <1>4 DEF Cancel
  <1>5. CASE Close
    BY <1>5, CloseLeak DEF Close
  <1>. QED
    BY <1>1, <1>2, <1>3, <1>4, <1>5

\* Every step keeps the ownership of m.mu and of the open connections.
LEMMA LeakStep == TypeOK /\ LeakInv /\ [Next]_vars => LeakInv'
  <1>1. ASSUME LeakInv, UNCHANGED vars PROVE LeakInv'
    BY <1>1 DEF LeakInv, MutexInv, NoLeak, vars, connVars, userVars
  <1>. QED
    BY <1>1, LeakConnect, LeakUse, LeakRest DEF Next, Step

\* In every behaviour, an open connection is the one the device hands out or
\* the one being logged in: Ensure and closeLocked leave none behind.
THEOREM NoConnectionLeaks == Spec => []NoLeak
  <1>1. LeakInv => NoLeak
    BY DEF LeakInv
  <1>. QED
    BY <1>1, TypeCorrect, LeakInit, LeakStep, PTL DEF Spec

-----------------------------------------------------------------------------
(***************************************************************************)
(* The order of the connection states.  draining is set exactly while one  *)
(* goroutine runs, so notifyState never starts a second one beside it.     *)
(***************************************************************************)
DrainInv ==
  /\ \/ ~draining /\ running = {} /\ pending = <<>>
     \/ draining /\ \E d \in running : running = {d}
  /\ \A d \in Drainers \ running : carry[d] = <<>>
  /\ StatesInOrder

\* At the start nothing is queued and no goroutine runs.
LEMMA DrainInit == Init => DrainInv
  BY DEF Init, DrainInv, StatesInOrder

\* Appending to the last of three sequences appends to the whole.
LEMMA ConcatAppend ==
  ASSUME NEW s \in Seq(States), NEW t \in Seq(States), NEW u \in Seq(States), NEW e \in States
  PROVE  Append(s \o t \o u, e) = s \o t \o Append(u, e)
  <1>1. s \o t \in Seq(States) /\ s \o t \o u \in Seq(States) /\ <<e>> \in Seq(States)
    OBVIOUS
  <1>2. Append(s \o t \o u, e) = (s \o t \o u) \o <<e>>
    BY <1>1, AppendIsConcat
  <1>3. Append(u, e) = u \o <<e>>
    BY AppendIsConcat
  <1>4. (s \o t \o u) \o <<e>> = (s \o t) \o (u \o <<e>>)
    <2>1. \A r \in Seq(States) : (r \o u) \o <<e>> = r \o (u \o <<e>>)
      BY ONLY <1>1, u \in Seq(States), ConcatAssociative, SMTT(30)
    <2>. QED
      BY ONLY <1>1, <2>1
  <1>. QED
    BY ONLY <1>2, <1>3, <1>4

\* After any prefix, a non-empty sequence is its head followed by its tail.
LEMMA ConcatHead ==
  ASSUME NEW s \in Seq(States), NEW t \in Seq(States), t # <<>>
  PROVE  s \o t = s \o <<Head(t)>> \o Tail(t)
  <1>1. <<Head(t)>> \in Seq(States) /\ Tail(t) \in Seq(States)
    BY HeadTailProperties
  <1>2. t = <<Head(t)>> \o Tail(t)
    BY <1>1
  <1>. QED
    BY <1>1, <1>2, ConcatAssociative

\* Steps that leave the notification variables alone keep the order.
LEMMA DrainFrame ==
  ASSUME DrainInv, UNCHANGED noteVars
  PROVE  DrainInv'
  <1>1. /\ queued' = queued /\ pending' = pending /\ draining' = draining
        /\ running' = running /\ carry' = carry /\ told' = told
    BY DEF noteVars
  <1>. QED
    BY <1>1, Zenon DEF DrainInv, StatesInOrder

\* notifyState puts the new state at the end of what is still to be told.
LEMMA NotifyDrain ==
  ASSUME NoteTypes, DrainInv, NEW b \in States, Notify(b)
  PROVE  DrainInv'
  <1>1. CASE ~draining
    <2>1. running = {} /\ pending = <<>> /\ queued = told
      <3>1. running = {} /\ pending = <<>>
        BY <1>1 DEF DrainInv
      <3>2. queued = told \o <<>>
        BY <3>1 DEF DrainInv, StatesInOrder
      <3>. QED
        BY <3>1, <3>2, ConcatEmptySeq DEF NoteTypes
    <2>2. PICK d \in Drainers : running' = {d} /\ carry[d] = <<>>
      BY <1>1, <2>1 DEF Notify, DrainInv
    <2>3. pending' = <<b>> /\ queued' = told \o <<b>>
      <3>1. Append(told, b) = told \o <<b>>
        BY AppendIsConcat DEF NoteTypes
      <3>2. Append(<<>>, b) = <<b>>
        OBVIOUS
      <3>. QED
        BY <2>1, <3>1, <3>2 DEF Notify
    <2>4. carry'[d] = <<>> /\ told' = told /\ draining'
      BY <2>2 DEF Notify
    <2>5. told \o <<>> = told
      BY ConcatEmptySeq DEF NoteTypes
    <2>6. queued' = told' \o carry'[d] \o pending'
      BY <2>3, <2>4, <2>5
    <2>. QED
      BY <2>1, <2>2, <2>4, <2>6 DEF DrainInv, StatesInOrder, Notify
  <1>2. CASE draining
    <2>1. PICK d \in running : running = {d} /\ queued = told \o carry[d] \o pending
      BY <1>2 DEF DrainInv, StatesInOrder
    <2>2. /\ queued' = Append(queued, b) /\ pending' = Append(pending, b)
          /\ UNCHANGED <<running, carry, told>> /\ draining'
      BY <1>2 DEF Notify
    <2>3. carry[d] \in Seq(States)
      BY <2>1 DEF NoteTypes
    <2>4. Append(told \o carry[d] \o pending, b)
             = told \o carry[d] \o Append(pending, b)
      <3>1. /\ told \in Seq(States) /\ pending \in Seq(States)
            /\ carry[d] \in Seq(States) /\ b \in States
        BY <2>3 DEF NoteTypes
      <3>. QED
        BY ONLY <3>1, ConcatAppend
    <2>. QED
      BY <2>1, <2>2, <2>4 DEF DrainInv, StatesInOrder
  <1>. QED
    BY <1>1, <1>2 DEF NoteTypes

\* closeLocked queues at most one state.
LEMMA CloseDrain ==
  ASSUME NoteTypes, DrainInv, CloseLocked
  PROVE  DrainInv'
  <1>1. UNCHANGED noteVars \/ Notify("down")
    BY DEF CloseLocked
  <1>. QED
    BY <1>1, NotifyDrain, DrainFrame, StateNames

\* The delivering goroutine moves a state along, it never drops one.
LEMMA DrainerDrain ==
  ASSUME NoteTypes, DrainInv, NEW d \in Drainers, Drain(d)
  PROVE  DrainInv'
  <1>1. running = {d} /\ queued = told \o carry[d] \o pending /\ draining
    BY DEF Drain, DrainTake, DrainCall, DrainExit, DrainInv, StatesInOrder
  <1>2. CASE DrainTake(d)
    <2>1. /\ carry' = [carry EXCEPT ![d] = <<Head(pending)>>]
          /\ pending' = Tail(pending) /\ carry[d] = <<>> /\ pending # <<>>
          /\ UNCHANGED <<queued, told, running, draining>>
      BY <1>2 DEF DrainTake
    <2>2. told \o pending = told \o <<Head(pending)>> \o Tail(pending)
      BY <2>1, ConcatHead DEF NoteTypes
    <2>3. queued = told \o pending
      BY <1>1, <2>1 DEF NoteTypes
    <2>4. queued' = told' \o carry'[d] \o pending'
      BY <2>1, <2>2, <2>3 DEF NoteTypes
    <2>. QED
      BY <1>1, <2>1, <2>4 DEF DrainInv, StatesInOrder, NoteTypes
  <1>3. CASE DrainCall(d)
    BY <1>1, <1>3 DEF DrainCall, DrainInv, StatesInOrder, NoteTypes
  <1>4. CASE DrainExit(d)
    BY <1>1, <1>4 DEF DrainExit, DrainInv, StatesInOrder, NoteTypes
  <1>. QED
    BY <1>2, <1>3, <1>4 DEF Drain

\* Every step keeps the order of the states.
LEMMA DrainStep == TypeOK /\ DrainInv /\ [Next]_vars => DrainInv'
  <1>. SUFFICES ASSUME TypeOK, DrainInv, [Next]_vars PROVE DrainInv'
    OBVIOUS
  <1>1. \/ UNCHANGED noteVars \/ CloseLocked \/ Notify("up")
        \/ \E d \in Drainers : Drain(d)
    BY DEF Next, Step, GetMutex, Connect, Use, EndUse, Network, vars,
           Enter, EnsureReuse, EnsureLock, EnsureCancelled, DialOk, DialFail,
           LoginOk, LoginFail, UseOk, UseRefused, UseFailed, CallDone,
           WatchUnsupported, TalkHeal, PumpRestart, PumpIdle, UseEnded,
           TalkWriteFailed, TalkEnded, ResetIfCurrent, Retry, LoopExit,
           KeepRest, Lose, IdleClose, Cancel, Close
  <1>. QED
    BY <1>1, NotifyDrain, CloseDrain, DrainerDrain, DrainFrame, StateNames DEF TypeOK

\* In every behaviour, the callback sees the connection states in the order in
\* which the device reached them, none twice and none left out.
THEOREM StatesDeliveredInOrder == Spec => []StatesInOrder
  <1>1. DrainInv => StatesInOrder
    BY DEF DrainInv
  <1>. QED
    BY <1>1, TypeCorrect, DrainInit, DrainStep, PTL DEF Spec

-----------------------------------------------------------------------------
(***************************************************************************)
(* A stopped device.  Close waits for m.mu, and a loop under the camera's  *)
(* context does not get into a dial after the cancel: whoever holds m.mu   *)
(* once the device is stopped runs under another context.                  *)
(***************************************************************************)
StopInv == owner = "stopped" /\ mu # 0 => mu \in Talkers \cup Callers

\* At the start the camera is not stopped.
LEMMA StopInit == Init => StopInv
  BY DEF Init, StopInv

\* Once the device is closed for good, only users with a context of their own
\* take m.mu for a dial.
LEMMA StopStep == TypeOK /\ LeakInv /\ StopInv /\ [Next]_vars => StopInv'
  <1>. SUFFICES ASSUME TypeOK, LeakInv, StopInv, [Next]_vars PROVE StopInv'
    OBVIOUS
  <1>1. CASE \E p \in Procs : EnsureLock(p)
    BY <1>1 DEF EnsureLock, Cancelled, StopInv
  <1>2. CASE Close
    BY <1>2 DEF Close, StopInv
  <1>3. CASE /\ mu' \in {mu, 0} /\ owner' = owner
    BY <1>3 DEF StopInv
  <1>4. CASE Cancel
    BY <1>4 DEF Cancel, StopInv
  <1>. QED
    BY <1>1, <1>2, <1>3, <1>4
       DEF Next, Step, GetMutex, Connect, Use, EndUse, Network, Drain, vars,
           Enter, EnsureReuse, EnsureCancelled, DialOk, DialFail, LoginOk,
           LoginFail, UseOk, UseRefused, UseFailed, CallDone, WatchUnsupported,
           TalkHeal, PumpRestart, PumpIdle, UseEnded, TalkWriteFailed,
           TalkEnded, ResetIfCurrent, Retry, LoopExit, KeepRest, Lose,
           IdleClose, DrainTake, DrainCall, DrainExit, connVars

\* The only step that gives the device a client is a login under m.mu.
LEMMA Publish ==
  ASSUME TypeOK, [Next]_vars, client' # client, client' # 0
  PROVE  mu # 0
  <1>1. \/ \E p \in Procs : LoginOk(p)
        \/ CloseLocked
        \/ client' = client
    BY DEF Next, Step, GetMutex, Connect, Use, EndUse, Network, Drain, vars,
           Enter, EnsureReuse, EnsureLock, EnsureCancelled, DialOk, DialFail,
           LoginFail, UseOk, UseRefused, UseFailed, CallDone, WatchUnsupported,
           TalkHeal, PumpRestart, PumpIdle, UseEnded, TalkWriteFailed,
           TalkEnded, ResetIfCurrent, Retry, LoopExit, KeepRest, Lose,
           IdleClose, Cancel, Close, DrainTake, DrainCall, DrainExit, connVars
  <1>. QED
    BY <1>1 DEF LoginOk, CloseLocked

\* After Camera.stop no stream loop and no event watcher gives the device a
\* client again, in any behaviour.
THEOREM StoppedStaysClosed == Spec => NoReconnectAfterStop
  <1>1. TypeOK /\ StopInv /\ [Next]_vars
          => [owner = "stopped" /\ client' # client /\ client' # 0
                => mu \in Talkers \cup Callers]_vars
    BY Publish DEF StopInv
  <1>. QED
    BY <1>1, TypeCorrect, TypeInit, TypeStep, LeakInit, LeakStep, StopInit, StopStep,
       PTL DEF Spec, NoReconnectAfterStop

-----------------------------------------------------------------------------
(***************************************************************************)
(* What the states say of the client.  An idle close is not announced, so  *)
(* a connection that closed itself must stay one that did, and the client  *)
(* must be the connection that was announced last.                         *)
(***************************************************************************)
MatchInv ==
  /\ StateMatchesClient
  /\ client # 0 => latest = client
  /\ \A c \in Conns : c > dials => err[c] = "none"

\* At the start there is no client and no state was queued.
LEMMA MatchInit == Init => MatchInv
  BY DEF Init, MatchInv, StateMatchesClient

\* closeLocked follows a connect, and hides a loss only if it was an idle close.
LEMMA CloseMatch ==
  ASSUME TypeOK, MatchInv, CloseLocked, UNCHANGED <<dials, latest>>
  PROVE  MatchInv'
  <1>. /\ queued \in Seq(States) /\ client \in 0..dials /\ dials \in 0..MaxDials
       /\ latest \in 0..dials
       /\ err \in [Conns -> {"none", "open", "lost", "idle", "closed"}]
    BY DEF TypeOK, UserTypes, NoteTypes
  <1>1. CASE client = 0
    BY <1>1 DEF CloseLocked, MatchInv, StateMatchesClient, noteVars
  <1>2. CASE client # 0
    <2>1. /\ client' = 0 /\ client \in Conns
          /\ \A c \in Conns : err'[c] = IF c = client /\ err[c] = "open" THEN "closed" ELSE err[c]
          /\ queued # <<>> /\ queued[Len(queued)] = "up" /\ latest = client
      BY <1>2 DEF CloseLocked, MatchInv, StateMatchesClient
    <2>2. \A c \in Conns : c > dials' => err'[c] = "none"
      BY <2>1 DEF MatchInv
    <2>3. CASE err[client] = "idle"
      <3>1. queued' = queued
        BY <1>2, <2>3 DEF CloseLocked, noteVars
      <3>. QED
        BY <2>1, <2>2, <2>3, <3>1 DEF MatchInv, StateMatchesClient
    <2>4. CASE err[client] # "idle"
      <3>1. queued' = Append(queued, "down")
        BY <1>2, <2>4 DEF CloseLocked, Notify
      <3>2. /\ Len(queued') = Len(queued) + 1 /\ Len(queued) > 0
            /\ queued'[Len(queued')] = "down"
            /\ \A i \in 1..Len(queued) : queued'[i] = queued[i]
        BY <2>1, <3>1, StateNames
      <3>3. ASSUME NEW i \in 1..Len(queued'), queued'[i] = "down"
            PROVE  i > 1 /\ queued'[i - 1] = "up"
        <4>1. CASE i = Len(queued')
          BY <2>1, <3>2, <4>1
        <4>2. CASE i # Len(queued')
          <5>1. i \in 1..Len(queued) /\ queued[i] = "down"
            BY <3>2, <3>3, <4>2
          <5>2. i > 1 /\ queued[i - 1] = "up" /\ i - 1 \in 1..Len(queued)
            BY <5>1 DEF MatchInv, StateMatchesClient
          <5>. QED
            BY <3>2, <5>2
        <4>. QED
          BY <4>1, <4>2
      <3>4. queued' # <<>> /\ queued'[Len(queued')] = "down" /\ "down" # "up"
        BY <2>1, <3>2
      <3>5. StateMatchesClient'
        BY <2>1, <3>3, <3>4 DEF StateMatchesClient
      <3>. QED
        BY <2>1, <2>2, <3>5 DEF MatchInv
    <2>. QED
      BY <2>3, <2>4
  <1>. QED
    BY <1>1, <1>2

\* A login that succeeds is announced.
LEMMA LoginMatch ==
  ASSUME TypeOK, MatchInv, NEW p \in Procs, LoginOk(p)
  PROVE  MatchInv'
  <1>. /\ queued \in Seq(States) /\ "up" # "down"
    BY DEF TypeOK, NoteTypes
  <1>1. queued' = Append(queued, "up") /\ UNCHANGED <<dials, err>> /\ client' = cl[p] /\ latest' = cl[p] /\ cl[p] # 0
    BY DEF LoginOk, Notify, Alive
  <1>2. /\ Len(queued') = Len(queued) + 1 /\ Len(queued) \in Nat /\ queued' # <<>>
        /\ queued'[Len(queued')] = "up"
        /\ \A i \in 1..Len(queued) : queued'[i] = queued[i]
    BY <1>1, StateNames
  <1>3. \A i \in 1..Len(queued') : queued'[i] = "down" => i > 1 /\ queued'[i - 1] = "up"
    BY <1>2 DEF MatchInv, StateMatchesClient
  <1>. QED
    BY <1>1, <1>2, <1>3 DEF MatchInv, StateMatchesClient

\* A connection that is dialled, lost or closed is announced by nobody yet, and
\* none that closed itself becomes anything else.
LEMMA ErrMatch ==
  ASSUME TypeOK, MatchInv, UNCHANGED <<client, latest, queued>>,
         dials' >= dials, dials' \in Nat, dials \in Nat,
         \A c \in Conns : /\ err[c] = "idle" => err'[c] = "idle"
                          /\ c > dials' => err'[c] = err[c]
  PROVE  MatchInv'
  <1>1. latest # 0 => latest \in Conns
    BY DEF TypeOK, UserTypes
  <1>. QED
    BY <1>1 DEF MatchInv, StateMatchesClient

\* Every step keeps the last state true.
LEMMA MatchStep == TypeOK /\ MatchInv /\ [Next]_vars => MatchInv'
  <1>. SUFFICES ASSUME TypeOK, MatchInv, [Next]_vars PROVE MatchInv'
    OBVIOUS
  <1>. /\ dials \in 0..MaxDials /\ cl \in [Procs -> 0..dials] /\ client \in 0..dials
       /\ err \in [Conns -> {"none", "open", "lost", "idle", "closed"}]
    BY DEF TypeOK, UserTypes
  <1>1. CASE UNCHANGED <<client, latest, queued, dials, err>>
    BY <1>1, ErrMatch
  <1>2. CASE CloseLocked /\ UNCHANGED <<dials, latest>>
    BY <1>2, CloseMatch
  <1>3. ASSUME NEW p \in Procs, DialOk(p) PROVE MatchInv'
    <2>1. /\ dials' = dials + 1 /\ dials + 1 \in Conns /\ UNCHANGED <<client, latest, queued>>
          /\ err' = [err EXCEPT ![dials + 1] = "open"]
      BY <1>3 DEF DialOk, noteVars
    <2>2. err[dials + 1] = "none"
      BY <2>1 DEF MatchInv
    <2>. QED
      BY <2>1, <2>2, ErrMatch
  <1>4. ASSUME NEW p \in Procs, LoginFail(p) PROVE MatchInv'
    <2>1. cl[p] \in 1..dials
      BY <1>4 DEF LoginFail, TypeOK, UserTypes, HasClient
    <2>. QED
      BY <1>4, <2>1, ErrMatch DEF LoginFail, noteVars
  <1>5. ASSUME NEW c \in Conns, Lose(c) \/ IdleClose(c) PROVE MatchInv'
    <2>1. c <= dials
      BY <1>5 DEF Lose, IdleClose, Alive, MatchInv
    <2>. QED
      BY <1>5, <2>1, ErrMatch DEF Lose, IdleClose, Alive, noteVars
  <1>. QED
    BY <1>1, <1>2, <1>3, <1>4, <1>5, LoginMatch
       DEF Next, Step, GetMutex, Connect, Use, EndUse, Network, Drain, vars, connVars, noteVars,
           Enter, EnsureReuse, EnsureLock, EnsureCancelled, DialFail,
           UseOk, UseRefused, UseFailed, CallDone, WatchUnsupported,
           TalkHeal, PumpRestart, PumpIdle, UseEnded, TalkWriteFailed,
           TalkEnded, ResetIfCurrent, Retry, LoopExit, KeepRest,
           Cancel, Close, DrainTake, DrainCall, DrainExit

\* For any users and any order of connects, losses, idle closes and resets, the
\* last state queued says whether the device has a client, but for an idle close
\* of the connection it had last.
THEOREM StatesMatchTheClient == Spec => []StateMatchesClient
  <1>1. MatchInv => StateMatchesClient
    BY DEF MatchInv
  <1>. QED
    BY <1>1, TypeCorrect, MatchInit, MatchStep, PTL DEF Spec

-----------------------------------------------------------------------------
(***************************************************************************)
(* Who takes a connection down.                                            *)
(***************************************************************************)
\* Whoever is about to reset after a failure saw the connection fail that it
\* holds, or is in the error path of a talk write.
SeenInv == \A p \in Procs : pc[p] = "reset" => p \in healing \/ seen[p] = cl[p]

LEMMA SeenInit == Init => SeenInv
  BY DEF Init, SeenInv

\* Every user but p stays where it is.
Others(p) ==
  /\ \A q \in Procs : q # p => pc'[q] = pc[q] /\ cl'[q] = cl[q] /\ seen'[q] = seen[q]
  /\ \A q \in healing : q # p => q \in healing'

LEMMA SeenStep == TypeOK /\ SeenInv /\ [Next]_vars => SeenInv'
  <1>. SUFFICES ASSUME TypeOK, SeenInv, [Next]_vars PROVE SeenInv'
    OBVIOUS
  <1>. /\ pc \in [Procs -> PCs] /\ cl \in [Procs -> 0..dials] /\ seen \in [Procs -> 0..dials]
    BY DEF TypeOK, UserTypes
  <1>1. ASSUME NEW p \in Procs, Step(p)
        PROVE  Others(p) /\ (pc'[p] = "reset" => p \in healing' \/ seen'[p] = cl'[p])
    <2>1. CASE Enter(p) \/ GetMutex(p)
      BY <1>1, <2>1 DEF Others, Enter, GetMutex, EnsureReuse, EnsureLock, EnsureCancelled
    <2>2. CASE Connect(p)
      BY <1>1, <2>2 DEF Others, Connect, DialOk, DialFail, LoginOk, LoginFail
    <2>3. CASE UseOk(p) \/ UseRefused(p) \/ WatchUnsupported(p) \/ TalkHeal(p)
      BY <1>1, <2>3 DEF Others, UseOk, UseRefused, WatchUnsupported, TalkHeal, Goto, KeepRest
    <2>4. CASE UseFailed(p) \/ CallDone(p)
      BY <1>1, <2>4 DEF Others, UseFailed, CallDone, Goto, KeepRest
    <2>5. CASE EndUse(p)
      BY <1>1, <2>5 DEF Others, EndUse, PumpRestart, PumpIdle, UseEnded, TalkWriteFailed, TalkEnded,
           Goto, KeepRest
    <2>6. CASE ResetIfCurrent(p) \/ Retry(p) \/ LoopExit(p)
      BY <1>1, <2>6 DEF Others, ResetIfCurrent, Retry, LoopExit, Goto, KeepRest
    <2>. QED
      BY <1>1, <2>1, <2>2, <2>3, <2>4, <2>5, <2>6 DEF Step, Use
  <1>2. CASE UNCHANGED userVars
    BY <1>2 DEF SeenInv, userVars
  <1>3. ASSUME NEW p \in Procs, Step(p) PROVE SeenInv'
    BY <1>1, <1>3 DEF SeenInv, Others
  <1>. QED
    BY <1>2, <1>3 DEF Next, Drain, DrainTake, DrainCall, DrainExit, Network, Lose, IdleClose,
         Cancel, Close, vars

\* A live client is forgotten by Close and by ResetIfCurrent only.
LEMMA ResetStep ==
  ASSUME SeenInv, [Next]_vars, Alive(client), client' = 0, owner' = owner
  PROVE  \E p \in Procs :
           \/ pc[p] = "reset" /\ cl[p] = client /\ (p \in healing \/ seen[p] = client)
           \/ pc[p] = "resetIdle" /\ cl[p] = client
  <1>1. client # 0 /\ ~Close
    BY DEF Alive, Close
  <1>2. PICK p \in Procs : ResetIfCurrent(p) \/ LoginOk(p)
    BY <1>1 DEF Next, Step, GetMutex, Connect, Use, EndUse, Network, Drain, vars, connVars, noteVars,
         Enter, EnsureReuse, EnsureLock, EnsureCancelled, DialOk, DialFail, LoginFail,
         UseOk, UseRefused, UseFailed, CallDone, WatchUnsupported,
         TalkHeal, PumpRestart, PumpIdle, UseEnded, TalkWriteFailed,
         TalkEnded, Retry, LoopExit, KeepRest, Lose, IdleClose,
         Cancel, DrainTake, DrainCall, DrainExit
  <1>3. ~LoginOk(p)
    BY DEF LoginOk, Alive
  <1>4. pc[p] \in {"reset", "resetIdle"} /\ client = cl[p]
    BY <1>1, <1>2, <1>3 DEF ResetIfCurrent
  <1>. QED
    BY <1>4 DEF SeenInv

\* For any users, a working connection is dropped by Camera.stop, by the two
\* paths named, or by a user that saw this very connection fail.
THEOREM LateReportsAreHarmless == Spec => ResetsOwnFailure
  <1>1. SeenInv /\ [Next]_vars =>
          [Alive(client) /\ client' = 0 /\ owner' = owner =>
             \E p \in Procs :
               \/ pc[p] = "reset" /\ cl[p] = client /\ (p \in healing \/ seen[p] = client)
               \/ pc[p] = "resetIdle" /\ cl[p] = client]_vars
    BY ResetStep
  <1>. QED
    BY <1>1, TypeCorrect, SeenInit, SeenStep, PTL DEF Spec, ResetsOwnFailure

-----------------------------------------------------------------------------
(***************************************************************************)
(* The device implements OrderedNotify: the safety half of the refinement. *)
(***************************************************************************)
\* A delivering goroutine carries one state at most.
CarryInv == \A d \in Drainers : carry[d] = <<>> \/ \E b \in States : carry[d] = <<b>>

LEMMA CarryInit == Init => CarryInv
  BY DEF Init, CarryInv

\* The steps that do something to the notification.
LEMMA NoteSteps ==
  ASSUME [Next]_vars
  PROVE  UNCHANGED noteVars \/ CloseLocked \/ Notify("up") \/ \E d \in Drainers : Drain(d)
  BY DEF Next, Step, GetMutex, Connect, Use, EndUse, Network, vars,
         Enter, EnsureReuse, EnsureLock, EnsureCancelled, DialOk, DialFail,
         LoginOk, LoginFail, UseOk, UseRefused, UseFailed, CallDone,
         WatchUnsupported, TalkHeal, PumpRestart, PumpIdle, UseEnded,
         TalkWriteFailed, TalkEnded, ResetIfCurrent, Retry, LoopExit,
         KeepRest, Lose, IdleClose, Cancel, Close

LEMMA CarryStep == TypeOK /\ CarryInv /\ [Next]_vars => CarryInv'
  <1>. SUFFICES ASSUME TypeOK, CarryInv, [Next]_vars PROVE CarryInv'
    OBVIOUS
  <1>. pending \in Seq(States) /\ carry \in [Drainers -> Seq(States)]
    BY DEF TypeOK, NoteTypes
  <1>1. CASE UNCHANGED carry
    BY <1>1 DEF CarryInv
  <1>2. ASSUME NEW d \in Drainers, DrainTake(d) PROVE CarryInv'
    <2>1. Head(pending) \in States
      BY <1>2 DEF DrainTake
    <2>. QED
      BY <1>2, <2>1 DEF DrainTake, CarryInv
  <1>3. ASSUME NEW d \in Drainers, DrainCall(d) PROVE CarryInv'
    BY <1>3 DEF DrainCall, CarryInv
  <1>. QED
    BY <1>1, <1>2, <1>3, NoteSteps DEF CloseLocked, Notify, Drain, DrainExit, noteVars

\* The state delivered is the next one of those queued.
LEMMA TellStep ==
  ASSUME NoteTypes, DrainInv, CarryInv, NEW d \in Drainers, DrainCall(d)
  PROVE  Notification!Tell
  <1>1. running = {d} /\ queued = told \o carry[d] \o pending
    BY DEF DrainCall, DrainInv, StatesInOrder
  <1>2. PICK b \in States : carry[d] = <<b>>
    BY DEF DrainCall, CarryInv
  <1>3. told \in Seq(States) /\ pending \in Seq(States) /\ queued \in Seq(States)
    BY DEF NoteTypes
  <1>4. queued = told \o <<b>> \o pending
    BY <1>1, <1>2
  <1>5. Len(told) < Len(queued) /\ queued[Len(told) + 1] = b
    BY <1>3, <1>4
  <1>6. told' = Append(told, b) /\ queued' = queued
    BY <1>2, <1>3 DEF DrainCall
  <1>. QED
    BY <1>5, <1>6 DEF Notification!Tell

LEMMA RefinementStep ==
  TypeOK /\ DrainInv /\ CarryInv /\ [Next]_vars => [Notification!Next]_(Notification!vars)
  <1>. SUFFICES ASSUME TypeOK, DrainInv, CarryInv, [Next]_vars
       PROVE  Notification!Next \/ UNCHANGED <<queued, told>>
    BY DEF Notification!vars
  <1>1. ASSUME NEW b \in {"up", "down"}, Notify(b) PROVE Notification!Reach
    BY <1>1 DEF Notify, Notification!Reach
  <1>2. CASE CloseLocked
    BY <1>1, <1>2 DEF CloseLocked, noteVars, Notification!Next
  <1>3. ASSUME NEW d \in Drainers, Drain(d) PROVE Notification!Tell \/ UNCHANGED <<queued, told>>
    BY <1>3, TellStep DEF Drain, DrainTake, DrainExit, TypeOK
  <1>. QED
    BY <1>1, <1>2, <1>3, NoteSteps DEF noteVars, Notification!Next

\* However many users queue states, what the callback sees is what OrderedNotify
\* allows: the safety half of ImplementsOrderedNotify.
THEOREM NotifiesInOrder == Spec => Notification!Init /\ [][Notification!Next]_(Notification!vars)
  <1>1. Init => Notification!Init
    BY DEF Init, Notification!Init
  <1>. QED
    BY <1>1, TypeCorrect, DrainInit, DrainStep, CarryInit, CarryStep, RefinementStep, PTL DEF Spec
=============================================================================
