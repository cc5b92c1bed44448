-------------------------- MODULE ClientRpcProofs --------------------------
(***************************************************************************)
(* Theorems about ClientRpc, for any number of callers, any width of the   *)
(* message numbers and any number of late answers.                         *)
(***************************************************************************)
EXTENDS ClientRpc, TLAPS

\* What a caller has still to ask; it is idle when that is nothing.
Plans == {<<>>, <<"call">>, <<"login", "call">>, <<"login", "login", "call">>}
PlanInv ==
  /\ todo \in [Callers -> Plans]
  /\ \A c \in Callers : pc[c] = "idle" <=> todo[c] = <<>>

\* Number n was reserved a reservations ago; at Modulus - 1 nobody counts.
Since(n, a) == a < Modulus - 1 => next = n + 1 + a \/ next = n + 1 + a - Modulus

\* The number of a request in flight is as old as the request.
KeyInv == \A c \in Callers : InFlight(c) => key[c] \in Keys /\ Since(key[c][2], age[c])

\* So is the number of an answer still to come; it is for the request that
\* waits under its key, or for nobody and then nobody waits under its key.
OwedInv ==
  \A o \in owed :
    /\ Since(o[1][2], o[3])
    /\ o[2] \in Callers => pc[o[2]] = "wait" /\ key[o[2]] = o[1]
    /\ o[2] = "stale" => pending[o[1]] = None

IInv ==
  /\ TypeOK /\ PlanInv /\ KeyInv /\ OwedInv
  /\ NoStalePending /\ AnswersOwn /\ AnswerReachesWaiter

-----------------------------------------------------------------------------
(***************************************************************************)
(* Message numbers.                                                        *)
(***************************************************************************)
LEMMA Wraps ==
  ASSUME NEW n \in 0..Modulus - 1
  PROVE  (n + 1) % Modulus = IF n + 1 = Modulus THEN 0 ELSE n + 1
  BY NumbersAssumption

\* A reservation makes every number one older, and the new one is not new.
LEMMA Ages ==
  ASSUME next \in 0..Modulus - 1, next' = (next + 1) % Modulus,
         NEW n \in 0..Modulus - 1, NEW a \in 0..Modulus - 1, Since(n, a)
  PROVE  Older(a) \in 0..Modulus - 1 /\ Since(n, Older(a))'
  <1>1. next' = IF next + 1 = Modulus THEN 0 ELSE next + 1
    BY Wraps
  <1>. QED
    BY <1>1, NumbersAssumption DEF Since, Older

LEMMA NewNumber ==
  ASSUME NEW n \in 0..Modulus - 1, next = n, next' = (next + 1) % Modulus
  PROVE  next' \in 0..Modulus - 1 /\ Since(n, 0)'
  <1>1. next' = IF next + 1 = Modulus THEN 0 ELSE next + 1
    BY Wraps
  <1>. QED
    BY <1>1, NumbersAssumption DEF Since

\* A number that is not too old is not the next one.
LEMMA NotNext ==
  ASSUME next \in 0..Modulus - 1, NEW n \in 0..Modulus - 1, NEW a \in 0..Modulus - 1,
         Since(n, a), a < Modulus - 1
  PROVE  n # next
  BY NumbersAssumption DEF Since

\* The parts of an answer still to come.
LEMMA OwedParts ==
  ASSUME TypeOK, NEW o \in owed
  PROVE  /\ o = <<o[1], o[2], o[3]>>
         /\ o[1] \in Keys /\ o[2] \in Callers \cup {"stale"} /\ o[3] \in 0..Modulus - 1
         /\ o[1][2] \in 0..Modulus - 1
  BY DEF TypeOK, Keys

-----------------------------------------------------------------------------
\* The answers to come grow older.
LEMMA ReserveKeeps ==
  ASSUME IInv, Reserve
  PROVE  /\ next' \in 0..Modulus - 1
         /\ owed' \subseteq Keys \X (Callers \cup {"stale"}) \X (0..Modulus - 1)
         /\ \A w \in owed' : Since(w[1][2], w[3])' /\ \E o \in owed : w[1] = o[1] /\ w[2] = o[2]
         /\ \A o \in owed : \E w \in owed' : w[1] = o[1] /\ w[2] = o[2]
  <1>1. TypeOK /\ next \in 0..Modulus - 1 /\ next' = (next + 1) % Modulus
    BY DEF IInv, TypeOK, Reserve
  <1>2. owed' = {<<o[1], o[2], Older(o[3])>> : o \in owed}
    BY DEF Reserve
  <1>3. ASSUME NEW o \in owed
        PROVE  Older(o[3]) \in 0..Modulus - 1 /\ Since(o[1][2], Older(o[3]))'
    BY <1>1, OwedParts, Ages DEF IInv, OwedInv
  <1>4. ASSUME NEW w \in owed'
        PROVE  /\ w \in Keys \X (Callers \cup {"stale"}) \X (0..Modulus - 1)
               /\ Since(w[1][2], w[3])' /\ \E o \in owed : w[1] = o[1] /\ w[2] = o[2]
    <2>1. PICK o \in owed : w = <<o[1], o[2], Older(o[3])>>
      BY <1>2
    <2>2. w[1] = o[1] /\ w[2] = o[2] /\ w[3] = Older(o[3])
      BY <2>1
    <2>3. Since(w[1][2], w[3])'
      BY <1>3, <2>2
    <2>. QED
      BY <1>1, <1>3, <2>1, <2>2, <2>3, OwedParts
  <1>5. ASSUME NEW o \in owed PROVE \E w \in owed' : w[1] = o[1] /\ w[2] = o[2]
    <2>1. <<o[1], o[2], Older(o[3])>> \in owed'
      BY <1>2
    <2>. QED
      BY <2>1
  <1>. QED
    BY <1>1, <1>4, <1>5, NewNumber

\* While there is room, nobody holds or awaits the key reserved next.
LEMMA KeyIsFree ==
  ASSUME IInv, NEW kind \in Kinds, Room(kind)
  PROVE  /\ <<kind, next>> \in Keys /\ pending[<<kind, next>>] = None
         /\ \A o \in owed : o[1] # <<kind, next>>
  <1>. DEFINE k == <<kind, next>>
  <1>1. k \in Keys /\ k[1] = kind /\ k[2] = next /\ next \in 0..Modulus - 1
    BY DEF IInv, TypeOK, Keys
  <1>2. ASSUME pending[k] # None PROVE FALSE
    <2>1. pending[k] \in Callers
      BY <1>1, <1>2 DEF IInv, TypeOK
    <2>2. PICK q \in Callers : pending[k] = q
      BY <2>1
    <2>3. InFlight(q) /\ key[q] = k
      BY <1>1, <1>2, <2>2 DEF IInv, NoStalePending
    <2>4. age[q] < Modulus - 1 /\ Since(next, age[q]) /\ age[q] \in 0..Modulus - 1
      BY <1>1, <2>3 DEF Room, IInv, KeyInv, TypeOK
    <2>. QED
      BY <1>1, <2>4, NotNext
  <1>3. ASSUME NEW o \in owed, o[1] = k PROVE FALSE
    <2>1. o[3] < Modulus - 1 /\ Since(next, o[3])
      BY <1>1, <1>3 DEF Room, IInv, OwedInv
    <2>2. o[3] \in 0..Modulus - 1
      BY OwedParts DEF IInv
    <2>. QED
      BY <1>1, <2>1, <2>2, NotNext
  <1>. QED
    BY <1>1, <1>2, <1>3

LEMMA InitInv == Init => IInv
  <1>. SUFFICES ASSUME Init PROVE IInv
    OBVIOUS
  <1>1. \A c \in Callers : /\ pc[c] = "idle" /\ todo[c] = <<>> /\ key[c] = NoKey
                           /\ box[c] = "empty" /\ age[c] = 0
    BY DEF Init
  <1>2. owed = {} /\ skipped = {} /\ \A k \in Keys : pending[k] = None
    BY DEF Init
  <1>3. TypeOK
    <2>1. /\ next \in 0..Modulus - 1 /\ age \in [Callers -> 0..Modulus - 1]
      BY NumbersAssumption DEF Init
    <2>2. /\ pc \in [Callers -> {"idle", "start", "write", "wait", "left"}]
          /\ key \in [Callers -> Keys \cup {NoKey}]
          /\ box \in [Callers -> {"empty", "own", "refused", "other"}]
          /\ outcome \in [Callers -> {"ok", "refused", "other", "failed", "timeout", "closed"}]
          /\ pending \in [Keys -> Callers \cup {None}]
      BY DEF Init
    <2>3. \A c \in Callers : (loginMu = c) = (Len(todo[c]) > 1)
      BY <1>1, NoneAssumption DEF Init
    <2>4. loggedIn \in BOOLEAN /\ (loggedIn => loginMu = None) /\ closed \in BOOLEAN /\ loginMu = None
      BY DEF Init
    <2>. QED
      BY <1>2, <2>1, <2>2, <2>3, <2>4 DEF TypeOK
  <1>4. todo \in [Callers -> Plans]
    BY DEF Init, Plans
  <1>5. PlanInv /\ KeyInv /\ OwedInv /\ NoStalePending /\ AnswersOwn /\ AnswerReachesWaiter
    BY <1>1, <1>2, <1>4 DEF PlanInv, KeyInv, OwedInv, InFlight, NoStalePending, AnswersOwn,
      AnswerReachesWaiter
  <1>. QED
    BY <1>3, <1>5 DEF IInv

-----------------------------------------------------------------------------
(***************************************************************************)
(* One request.                                                            *)
(***************************************************************************)
\* A request starts: the channel is registered under a key nobody has.
LEMMA RegisterInv ==
  ASSUME IInv, NEW r \in Callers, Register(r)
  PROVE  IInv'
  <1>. DEFINE kind == Head(todo[r])
              k == <<kind, next>>
  <1>1. kind \in Kinds /\ pc[r] = "start" /\ todo[r] # <<>>
    BY DEF IInv, PlanInv, Plans, Kinds, Register
  <1>2. /\ k \in Keys /\ pending[k] = None /\ \A o \in owed : o[1] # k
        /\ k # NoKey /\ k[2] = next
    <2>1. Room(kind)
      BY DEF Register
    <2>. QED
      BY <1>1, <2>1, KeyIsFree DEF Kinds, NoKey
  <1>3. /\ key' = [key EXCEPT ![r] = k] /\ pending' = [pending EXCEPT ![k] = r]
        /\ Reserve /\ box' = [box EXCEPT ![r] = "empty"] /\ pc' = [pc EXCEPT ![r] = "write"]
        /\ age' = [q \in Callers |-> IF q # r /\ InFlight(q) THEN Older(age[q]) ELSE 0]
        /\ UNCHANGED <<todo, outcome, skipped, loginVars, closed>>
    BY DEF Register, Goto
  <1>4. /\ next' \in 0..Modulus - 1
        /\ owed' \subseteq Keys \X (Callers \cup {"stale"}) \X (0..Modulus - 1)
        /\ \A w \in owed' : Since(w[1][2], w[3])' /\ \E o \in owed : w[1] = o[1] /\ w[2] = o[2]
        /\ \A o \in owed : \E w \in owed' : w[1] = o[1] /\ w[2] = o[2]
    BY <1>3, ReserveKeeps
  <1>. HIDE DEF k, kind
  <1>5. /\ pc \in [Callers -> {"idle", "start", "write", "wait", "left"}]
        /\ key \in [Callers -> Keys \cup {NoKey}] /\ pending \in [Keys -> Callers \cup {None}]
        /\ box \in [Callers -> {"empty", "own", "refused", "other"}]
        /\ next \in 0..Modulus - 1 /\ age \in [Callers -> 0..Modulus - 1]
    BY DEF IInv, TypeOK
  <1>6. /\ pc'[r] = "write" /\ key'[r] = k /\ box'[r] = "empty" /\ age'[r] = 0 /\ pending'[k] = r
        /\ \A q \in Callers \ {r} : pc'[q] = pc[q] /\ key'[q] = key[q] /\ box'[q] = box[q]
        /\ \A j \in Keys \ {k} : pending'[j] = pending[j]
    BY <1>2, <1>3, <1>5
  <1>7. \A q \in Callers \ {r} : InFlight(q)' = InFlight(q)
    BY <1>6 DEF InFlight
  <1>8. \A q \in Callers \ {r} : /\ age'[q] \in 0..Modulus - 1
                                 /\ InFlight(q) => Since(key[q][2], age[q])'
    <2>. SUFFICES ASSUME NEW q \in Callers \ {r}
                  PROVE  /\ age'[q] \in 0..Modulus - 1
                         /\ InFlight(q) => Since(key[q][2], age[q])'
      OBVIOUS
    <2>1. CASE ~InFlight(q)
      BY <1>3, <1>5, <2>1, NumbersAssumption
    <2>2. CASE InFlight(q)
      <3>1. key[q][2] \in 0..Modulus - 1 /\ Since(key[q][2], age[q])
        BY <2>2 DEF IInv, KeyInv, Keys
      <3>2. age'[q] = Older(age[q]) /\ key'[q] = key[q]
        BY <1>3, <1>6, <2>2
      <3>3. next' = (next + 1) % Modulus
        BY <1>3 DEF Reserve
      <3>4. \A n \in 0..Modulus - 1, a \in 0..Modulus - 1 : 
              Since(n, a) => Older(a) \in 0..Modulus - 1 /\ Since(n, Older(a))'
        BY <1>5, <3>3, Ages
      <3>5. Older(age[q]) \in 0..Modulus - 1 /\ Since(key[q][2], age[q])'
        BY <1>5, <3>1, <3>2, <3>4 DEF Since
      <3>. QED
        BY <3>2, <3>5
    <2>. QED
      BY <2>1, <2>2
  <1>9. Since(key[r][2], age[r])'
    <2>1. \A n \in 0..Modulus - 1 : next = n => Since(n, 0)'
      BY <1>3, <1>5, NewNumber DEF Reserve
    <2>. QED
      BY <1>2, <1>5, <1>6, <2>1 DEF Since
  <1>10. TypeOK'
    <2>1. age' \in [Callers -> 0..Modulus - 1]
      BY <1>3, <1>6, <1>8, NumbersAssumption
    <2>2. /\ pc' \in [Callers -> {"idle", "start", "write", "wait", "left"}]
          /\ key' \in [Callers -> Keys \cup {NoKey}] /\ pending' \in [Keys -> Callers \cup {None}]
          /\ box' \in [Callers -> {"empty", "own", "refused", "other"}]
      BY <1>2, <1>3, <1>5
    <2>. QED
      BY <1>3, <1>4, <2>1, <2>2 DEF IInv, TypeOK, loginVars
  <1>11. PlanInv'
    BY <1>1, <1>3, <1>6 DEF IInv, PlanInv
  <1>12. KeyInv'
    <2>1. \A q \in Callers \ {r} : InFlight(q)' => key'[q] \in Keys
      BY <1>6, <1>7 DEF IInv, KeyInv
    <2>. QED
      BY <1>2, <1>6, <1>7, <1>8, <1>9, <2>1 DEF KeyInv
  <1>13. OwedInv'
    <2>. SUFFICES ASSUME NEW w \in owed'
                  PROVE  /\ w[2] \in Callers => pc'[w[2]] = "wait" /\ key'[w[2]] = w[1]
                         /\ w[2] = "stale" => pending'[w[1]] = None
      BY <1>4 DEF OwedInv
    <2>1. PICK o \in owed : w[1] = o[1] /\ w[2] = o[2]
      BY <1>4
    <2>2. o[1] # k /\ o[1] \in Keys
      BY <1>2, OwedParts DEF IInv
    <2>3. o[2] \in Callers => o[2] # r /\ pc[o[2]] = "wait" /\ key[o[2]] = o[1]
      BY <1>1 DEF IInv, OwedInv
    <2>4. o[2] = "stale" => pending[o[1]] = None
      BY DEF IInv, OwedInv
    <2>. QED
      BY <1>6, <2>1, <2>2, <2>3, <2>4
  <1>14. NoStalePending'
    <2>1. ASSUME NEW j \in Keys, pending'[j] # None
          PROVE  InFlight(pending[j])' /\ key'[pending'[j]] = j
      <3>1. CASE j = k
        BY <1>6, <3>1 DEF InFlight
      <3>2. CASE j # k
        <4>1. pending'[j] = pending[j] /\ pending[j] \in Callers
          BY <1>5, <1>6, <2>1, <3>2
        <4>2. InFlight(pending[j]) /\ key[pending[j]] = j
          BY <2>1, <4>1 DEF IInv, NoStalePending
        <4>3. pending[j] # r
          BY <1>1, <4>2 DEF InFlight
        <4>. QED
          BY <1>6, <4>1, <4>2, <4>3 DEF InFlight
      <3>. QED
        BY <3>1, <3>2
    <2>2. ASSUME NEW c \in Callers, InFlight(c)' PROVE pending'[key'[c]] = c
      <3>1. CASE c = r
        BY <1>6, <3>1
      <3>2. CASE c # r
        <4>1. InFlight(c) /\ key'[c] = key[c] /\ pending[key[c]] = c /\ key[c] \in Keys
          BY <1>6, <1>7, <2>2, <3>2 DEF IInv, NoStalePending, KeyInv
        <4>2. key[c] # k
          BY <1>2, <4>1, NoneAssumption
        <4>. QED
          BY <1>6, <4>1, <4>2
      <3>. QED
        BY <3>1, <3>2
    <2>. QED
      BY <2>1, <2>2 DEF NoStalePending
  <1>15. AnswersOwn'
    BY <1>6 DEF IInv, AnswersOwn
  <1>16. AnswerReachesWaiter'
    <2>. SUFFICES ASSUME NEW c \in Callers, pc'[c] = "wait", box'[c] = "empty"
                  PROVE  c \in skipped' \/ \E w \in owed' : w[2] = c
      BY DEF AnswerReachesWaiter
    <2>1. c \in skipped \/ \E o \in owed : o[2] = c
      BY <1>6 DEF IInv, AnswerReachesWaiter
    <2>. QED
      BY <1>3, <1>4, <2>1
  <1>. QED
    BY <1>10, <1>11, <1>12, <1>13, <1>14, <1>15, <1>16 DEF IInv

LEMMA WriteInv ==
  ASSUME IInv, NEW r \in Callers, Write(r)
  PROVE  IInv'
  <1>1. /\ pc[r] = "write" /\ owed' = owed \cup {<<key[r], r, age[r]>>} /\ pc' = [pc EXCEPT ![r] = "wait"]
        /\ UNCHANGED <<age, next, todo, key, box, outcome, pending, skipped, loginVars, closed>>
    BY DEF Write, Goto
  <1>2. /\ key[r] \in Keys /\ Since(key[r][2], age[r]) /\ pending[key[r]] = r
        /\ age[r] \in 0..Modulus - 1
    BY <1>1 DEF IInv, KeyInv, NoStalePending, InFlight, TypeOK
  <1>3. /\ pc' \in [Callers -> {"idle", "start", "write", "wait", "left"}]
        /\ \A q \in Callers : pc'[q] = IF q = r THEN "wait" ELSE pc[q]
    BY <1>1 DEF IInv, TypeOK
  <1>4. \A q \in Callers : InFlight(q)' = InFlight(q)
    BY <1>1, <1>3 DEF InFlight
  <1>5. TypeOK'
    <2>1. owed' \subseteq Keys \X (Callers \cup {"stale"}) \X (0..Modulus - 1)
      BY <1>1, <1>2 DEF IInv, TypeOK
    <2>. QED
      BY <1>1, <1>3, <2>1 DEF IInv, TypeOK, loginVars
  <1>6. PlanInv'
    BY <1>1, <1>3 DEF IInv, PlanInv
  <1>7. KeyInv'
    BY <1>1, <1>4 DEF IInv, KeyInv, Since
  <1>8. OwedInv'
    <2>. SUFFICES ASSUME NEW w \in owed'
                  PROVE  /\ Since(w[1][2], w[3])'
                         /\ w[2] \in Callers => pc'[w[2]] = "wait" /\ key'[w[2]] = w[1]
                         /\ w[2] = "stale" => pending'[w[1]] = None
      BY DEF OwedInv
    <2>1. CASE w \in owed
      BY <1>1, <1>3, <2>1 DEF IInv, OwedInv, Since
    <2>2. CASE w = <<key[r], r, age[r]>>
      <3>1. w[1] = key[r] /\ w[2] = r /\ w[3] = age[r]
        BY <2>2
      <3>. QED
        BY <1>1, <1>2, <1>3, <3>1, NoneAssumption DEF Since
    <2>. QED
      BY <1>1, <2>1, <2>2
  <1>9. NoStalePending'
    BY <1>1, <1>4 DEF IInv, NoStalePending, TypeOK
  <1>10. AnswersOwn'
    BY <1>1 DEF IInv, AnswersOwn
  <1>11. AnswerReachesWaiter'
    <2>1. <<key[r], r, age[r]>> \in owed' /\ <<key[r], r, age[r]>>[2] = r
      BY <1>1
    <2>. QED
      BY <1>1, <1>3, <2>1 DEF IInv, AnswerReachesWaiter
  <1>. QED
    BY <1>5, <1>6, <1>7, <1>8, <1>9, <1>10, <1>11 DEF IInv

\* A request in flight returns, whatever it returns.
LEMMA ReturnInv ==
  ASSUME IInv, NEW r \in Callers, InFlight(r),
         NEW o \in {"ok", "refused", "other", "failed", "timeout", "closed"}, Return(r, o)
  PROVE  IInv'
  <1>. DEFINE k == key[r]
  <1>1. /\ k \in Keys /\ pending[k] = r /\ k # NoKey
    BY DEF IInv, KeyInv, NoStalePending, Keys, Kinds, NoKey
  <1>2. /\ outcome' = [outcome EXCEPT ![r] = o]
        /\ pending' = [pending EXCEPT ![k] = None]
        /\ owed' = {IF w[2] = r THEN <<w[1], "stale", w[3]>> ELSE w : w \in owed}
        /\ skipped' = skipped \ {r}
        /\ key' = [key EXCEPT ![r] = NoKey] /\ box' = [box EXCEPT ![r] = "empty"]
        /\ age' = [age EXCEPT ![r] = 0] /\ pc' = [pc EXCEPT ![r] = "left"]
        /\ UNCHANGED <<next, todo, loginVars, closed>>
    BY DEF Return, Goto
  <1>. HIDE DEF k
  <1>3. /\ pc \in [Callers -> {"idle", "start", "write", "wait", "left"}]
        /\ key \in [Callers -> Keys \cup {NoKey}] /\ pending \in [Keys -> Callers \cup {None}]
        /\ box \in [Callers -> {"empty", "own", "refused", "other"}]
        /\ age \in [Callers -> 0..Modulus - 1]
        /\ outcome \in [Callers -> {"ok", "refused", "other", "failed", "timeout", "closed"}]
    BY DEF IInv, TypeOK
  <1>4. /\ pc'[r] = "left" /\ box'[r] = "empty" /\ pending'[k] = None
        /\ \A q \in Callers \ {r} : /\ pc'[q] = pc[q] /\ key'[q] = key[q] /\ box'[q] = box[q]
                                    /\ age'[q] = age[q]
        /\ \A j \in Keys \ {k} : pending'[j] = pending[j]
    BY <1>1, <1>2, <1>3
  <1>5. ~InFlight(r)' /\ \A q \in Callers \ {r} : InFlight(q)' = InFlight(q)
    BY <1>4 DEF InFlight
  <1>6. ASSUME NEW w \in owed'
        PROVE  \E v \in owed : /\ w[1] = v[1] /\ w[3] = v[3]
                               /\ w[2] = IF v[2] = r THEN "stale" ELSE v[2]
                               /\ w \in Keys \X (Callers \cup {"stale"}) \X (0..Modulus - 1)
    <2>1. PICK v \in owed : w = IF v[2] = r THEN <<v[1], "stale", v[3]>> ELSE v
      BY <1>2
    <2>2. CASE v[2] = r
      <3>1. w[1] = v[1] /\ w[2] = "stale" /\ w[3] = v[3]
        BY <2>1, <2>2
      <3>2. w \in Keys \X (Callers \cup {"stale"}) \X (0..Modulus - 1)
        BY <2>1, <2>2, OwedParts DEF IInv
      <3>. QED
        BY <2>2, <3>1, <3>2
    <2>3. CASE v[2] # r
      BY <2>1, <2>3 DEF IInv, TypeOK
    <2>. QED
      BY <2>2, <2>3
  <1>7. TypeOK'
    <2>1. owed' \subseteq Keys \X (Callers \cup {"stale"}) \X (0..Modulus - 1)
      BY <1>6
    <2>2. /\ pc' \in [Callers -> {"idle", "start", "write", "wait", "left"}]
          /\ key' \in [Callers -> Keys \cup {NoKey}] /\ pending' \in [Keys -> Callers \cup {None}]
          /\ box' \in [Callers -> {"empty", "own", "refused", "other"}]
      BY <1>1, <1>2, <1>3
    <2>3. age' \in [Callers -> 0..Modulus - 1]
      BY <1>2, <1>3, NumbersAssumption
    <2>4. outcome' \in [Callers -> {"ok", "refused", "other", "failed", "timeout", "closed"}]
      BY <1>2, <1>3
    <2>. QED
      BY <1>2, <2>1, <2>2, <2>3, <2>4 DEF IInv, TypeOK, loginVars
  <1>8. PlanInv'
    BY <1>2, <1>4 DEF IInv, PlanInv, InFlight
  <1>9. KeyInv'
    BY <1>2, <1>4, <1>5 DEF IInv, KeyInv, Since
  <1>10. OwedInv'
    <2>. SUFFICES ASSUME NEW w \in owed'
                  PROVE  /\ Since(w[1][2], w[3])'
                         /\ w[2] \in Callers => pc'[w[2]] = "wait" /\ key'[w[2]] = w[1]
                         /\ w[2] = "stale" => pending'[w[1]] = None
      BY DEF OwedInv
    <2>1. PICK v \in owed : w[1] = v[1] /\ w[3] = v[3] /\ w[2] = IF v[2] = r THEN "stale" ELSE v[2]
      BY <1>6
    <2>2. /\ Since(v[1][2], v[3]) /\ v[1] \in Keys
          /\ v[2] \in Callers => pc[v[2]] = "wait" /\ key[v[2]] = v[1]
          /\ v[2] = "stale" => pending[v[1]] = None
      BY OwedParts DEF IInv, OwedInv
    <2>3. Since(w[1][2], w[3])'
      BY <1>2, <2>1, <2>2 DEF Since
    <2>4. w[2] \in Callers => pc'[w[2]] = "wait" /\ key'[w[2]] = w[1]
      BY <1>4, <2>1, <2>2, NoneAssumption
    <2>5. w[2] = "stale" => pending'[w[1]] = None
      BY <1>4, <2>1, <2>2 DEF k
    <2>. QED
      BY <2>3, <2>4, <2>5
  <1>11. NoStalePending'
    <2>1. ASSUME NEW j \in Keys, pending'[j] # None
          PROVE  InFlight(pending[j])' /\ key'[pending'[j]] = j
      <3>1. j # k /\ pending'[j] = pending[j] /\ pending[j] \in Callers
        BY <1>3, <1>4, <2>1
      <3>2. InFlight(pending[j]) /\ key[pending[j]] = j /\ pending[j] # r
        BY <2>1, <3>1 DEF IInv, NoStalePending, k
      <3>. QED
        BY <1>4, <3>1, <3>2 DEF InFlight
    <2>2. ASSUME NEW c \in Callers, InFlight(c)' PROVE pending'[key'[c]] = c
      <3>1. c # r /\ InFlight(c)
        BY <1>5, <2>2
      <3>2. key'[c] = key[c] /\ pending[key[c]] = c /\ key[c] \in Keys
        BY <1>4, <3>1 DEF IInv, NoStalePending, KeyInv
      <3>3. key[c] # k
        BY <1>1, <3>1, <3>2
      <3>. QED
        BY <1>4, <3>2, <3>3
    <2>. QED
      BY <2>1, <2>2 DEF NoStalePending
  <1>12. AnswersOwn'
    BY <1>4 DEF IInv, AnswersOwn
  <1>13. AnswerReachesWaiter'
    <2>. SUFFICES ASSUME NEW c \in Callers, pc'[c] = "wait", box'[c] = "empty"
                  PROVE  c \in skipped' \/ \E w \in owed' : w[2] = c
      BY DEF AnswerReachesWaiter
    <2>1. c # r /\ (c \in skipped \/ \E v \in owed : v[2] = c)
      BY <1>4 DEF IInv, AnswerReachesWaiter
    <2>2. \A v \in owed : v[2] # r => v \in owed'
      BY <1>2
    <2>. QED
      BY <1>2, <2>1, <2>2
  <1>. QED
    BY <1>7, <1>8, <1>9, <1>10, <1>11, <1>12, <1>13 DEF IInv

-----------------------------------------------------------------------------
(***************************************************************************)
(* Calls: the table of requests stays as it is.                            *)
(***************************************************************************)
\* A caller not in flight goes to l with plan t, and still is not in flight.
CallMoves(c, l, t) ==
  /\ ~InFlight(c) /\ l \in {"idle", "start"} /\ t \in Plans /\ (l = "idle" <=> t = <<>>)
  /\ pc' = [pc EXCEPT ![c] = l] /\ todo' = [todo EXCEPT ![c] = t]
  /\ outcome' \in [Callers -> {"ok", "refused", "other", "failed", "timeout", "closed"}]
  /\ UNCHANGED <<age, next, key, box, pending, owed, skipped, closed>>
  /\ loginMu' \in Callers \cup {None} /\ loggedIn' \in BOOLEAN /\ (loggedIn' => loginMu' = None)
  /\ (loginMu' = c) = (Len(t) > 1)
  /\ \A q \in Callers \ {c} : (loginMu' = q) = (loginMu = q)

LEMMA CallKeeps ==
  ASSUME IInv, NEW c \in Callers, NEW l, NEW t, CallMoves(c, l, t)
  PROVE  IInv'
  <1>. USE DEF CallMoves
  <1>1. /\ todo' \in [Callers -> Plans] /\ pc' \in [Callers -> {"idle", "start", "write", "wait", "left"}]
        /\ \A q \in Callers : /\ pc'[q] = IF q = c THEN l ELSE pc[q]
                              /\ todo'[q] = IF q = c THEN t ELSE todo[q]
    BY DEF IInv, TypeOK, PlanInv
  <1>2. \A q \in Callers : InFlight(q)' = InFlight(q)
    BY <1>1 DEF InFlight
  <1>3. TypeOK'
    <2>1. \A q \in Callers : (loginMu' = q) = (Len(todo'[q]) > 1)
      BY <1>1 DEF IInv, TypeOK
    <2>. QED
      BY <1>1, <2>1 DEF IInv, TypeOK
  <1>4. PlanInv'
    BY <1>1 DEF IInv, PlanInv
  <1>5. KeyInv'
    BY <1>2 DEF IInv, KeyInv, Since
  <1>6. OwedInv'
    <2>1. \A o \in owed : o[2] \in Callers => pc'[o[2]] = "wait" /\ key[o[2]] = o[1]
      BY <1>1 DEF IInv, OwedInv, InFlight
    <2>. QED
      BY <2>1 DEF IInv, OwedInv, Since
  <1>7. NoStalePending'
    <2>1. ASSUME NEW k \in Keys, pending[k] # None
          PROVE  InFlight(pending[k])' /\ key[pending[k]] = k
      <3>1. pending[k] \in Callers
        BY <2>1 DEF IInv, TypeOK
      <3>2. InFlight(pending[k]) /\ key[pending[k]] = k
        BY <2>1 DEF IInv, NoStalePending
      <3>3. PICK q \in Callers : q = pending[k]
        BY <3>1
      <3>. QED
        BY <1>1, <3>2, <3>3 DEF InFlight
    <2>. QED
      BY <1>2, <2>1 DEF IInv, NoStalePending
  <1>8. AnswersOwn'
    BY DEF IInv, AnswersOwn
  <1>9. AnswerReachesWaiter'
    BY <1>1 DEF IInv, AnswerReachesWaiter, InFlight
  <1>. QED
    BY <1>3, <1>4, <1>5, <1>6, <1>7, <1>8, <1>9 DEF IInv

LEMMA PlanLengths ==
  /\ Len(<<>>) = 0 /\ Len(<<"call">>) = 1
  /\ Len(<<"login", "call">>) = 2 /\ Len(<<"login", "login", "call">>) = 3
  OBVIOUS

LEMMA PlanTails ==
  ASSUME NEW t \in Plans, t # <<>>
  PROVE  /\ Tail(t) \in Plans /\ Len(Tail(t)) = Len(t) - 1 /\ Len(t) \in 1..3
         /\ Len(t) = 1 <=> Tail(t) = <<>>
  <1>1. CASE t = <<"call">>
    BY <1>1 DEF Plans
  <1>2. CASE t = <<"login", "call">>
    BY <1>2 DEF Plans
  <1>3. CASE t = <<"login", "login", "call">>
    BY <1>3 DEF Plans
  <1>. QED
    BY <1>1, <1>2, <1>3 DEF Plans

LEMMA CallInv ==
  ASSUME IInv, NEW c \in Callers, Call(c) \/ CallFailed(c) \/ CallProceeds(c)
  PROVE  IInv'
  <1>. /\ outcome \in [Callers -> {"ok", "refused", "other", "failed", "timeout", "closed"}]
       /\ loginMu \in Callers \cup {None} /\ loggedIn \in BOOLEAN /\ (loggedIn => loginMu = None)
       /\ \A q \in Callers : (loginMu = q) = (Len(todo[q]) > 1)
       /\ todo \in [Callers -> Plans] /\ (pc[c] = "idle" <=> todo[c] = <<>>)
    BY DEF IInv, TypeOK, PlanInv
  <1>1. CASE Call(c)
    <2> DEFINE t == IF loggedIn THEN <<"call">> ELSE <<"login", "login", "call">>
    <2>1. t \in Plans /\ t # <<>> /\ (Len(t) > 1 <=> ~loggedIn)
      BY PlanLengths DEF Plans
    <2>2. /\ todo' = [todo EXCEPT ![c] = t] /\ pc' = [pc EXCEPT ![c] = "start"] /\ ~InFlight(c)
          /\ loginMu = None /\ loginMu' = (IF loggedIn THEN None ELSE c)
          /\ UNCHANGED <<age, next, key, box, outcome, pending, owed, skipped, loggedIn, closed>>
      BY <1>1 DEF Call, Goto, InFlight
    <2>. HIDE DEF t
    <2>3. CallMoves(c, "start", t)
      BY <2>1, <2>2, NoneAssumption DEF CallMoves
    <2>. QED
      BY <2>3, CallKeeps
  <1>2. CASE CallFailed(c)
    <2>1. /\ todo' = [todo EXCEPT ![c] = <<>>] /\ pc' = [pc EXCEPT ![c] = "idle"] /\ ~InFlight(c)
          /\ loginMu' = (IF loginMu = c THEN None ELSE loginMu)
          /\ outcome' = [outcome EXCEPT ![c] = "ok"]
          /\ UNCHANGED <<age, next, key, box, pending, owed, skipped, loggedIn, closed>>
      BY <1>2 DEF CallFailed, Goto, InFlight
    <2>2. CallMoves(c, "idle", <<>>)
      BY <2>1, PlanLengths, NoneAssumption DEF CallMoves, Plans
    <2>. QED
      BY <2>2, CallKeeps
  <1>3. CASE CallProceeds(c)
    <2> DEFINE t == Tail(todo[c])
               l == IF Len(todo[c]) = 1 THEN "idle" ELSE "start"
    <2>1. /\ todo' = [todo EXCEPT ![c] = t] /\ pc' = [pc EXCEPT ![c] = l] /\ ~InFlight(c)
          /\ todo[c] # <<>>
          /\ loggedIn' = (loggedIn \/ Len(todo[c]) = 2)
          /\ loginMu' = (IF Len(todo[c]) = 2 THEN None ELSE loginMu)
          /\ outcome' = [outcome EXCEPT ![c] = "ok"]
          /\ UNCHANGED <<age, next, key, box, pending, owed, skipped, closed>>
      BY <1>3 DEF CallProceeds, Goto, InFlight
    <2>2. /\ t \in Plans /\ Len(t) = Len(todo[c]) - 1 /\ Len(todo[c]) \in 1..3
          /\ l \in {"idle", "start"} /\ (l = "idle" <=> t = <<>>)
      BY <2>1, PlanTails
    <2>. HIDE DEF t, l
    <2>3. loggedIn' \in BOOLEAN /\ (loggedIn' <=> loggedIn \/ Len(todo[c]) = 2)
      BY <2>1
    <2>4. (loginMu = c) <=> Len(todo[c]) > 1
      OBVIOUS
    <2>5. CASE Len(todo[c]) = 2
      <3>1. loginMu = c /\ loginMu' = None /\ Len(t) = 1
        BY <2>1, <2>2, <2>4, <2>5
      <3>2. /\ (loginMu' = c) = (Len(t) > 1)
            /\ \A q \in Callers \ {c} : (loginMu' = q) = (loginMu = q)
        BY <3>1, NoneAssumption
      <3>3. CallMoves(c, l, t)
        BY <2>1, <2>2, <2>3, <3>1, <3>2 DEF CallMoves
      <3>. QED
        BY <3>3, CallKeeps
    <2>6. CASE Len(todo[c]) # 2
      <3>1. loginMu' = loginMu /\ (Len(t) > 1 <=> Len(todo[c]) > 1)
        BY <2>1, <2>2, <2>6
      <3>2. loggedIn' => loginMu' = None
        BY <2>3, <2>6, <3>1
      <3>3. (loginMu' = c) = (Len(t) > 1)
        BY <2>4, <3>1
      <3>4. CallMoves(c, l, t)
        BY <2>1, <2>2, <2>3, <3>1, <3>2, <3>3 DEF CallMoves
      <3>. QED
        BY <3>4, CallKeeps
    <2>. QED
      BY <2>5, <2>6
  <1>. QED
    BY <1>1, <1>2, <1>3

-----------------------------------------------------------------------------
(***************************************************************************)
(* The other side: answers, losses, pings and the end of the connection.   *)
(***************************************************************************)
\* Steps that leave callers and table alone and only take answers away.
Takes ==
  /\ UNCHANGED <<age, next, pc, todo, key, outcome, pending, loginVars>> /\ closed' \in BOOLEAN
  /\ owed' \subseteq owed /\ skipped' \subseteq Callers
  /\ box' \in [Callers -> {"empty", "own", "refused", "other"}]

LEMMA TakesKeeps ==
  ASSUME IInv, Takes
  PROVE  TypeOK' /\ PlanInv' /\ KeyInv' /\ OwedInv' /\ NoStalePending'
  <1>. USE DEF Takes
  <1>1. TypeOK'
    BY DEF IInv, TypeOK, loginVars
  <1>2. PlanInv' /\ KeyInv'
    BY DEF IInv, PlanInv, KeyInv, InFlight, Since
  <1>3. OwedInv'
    BY DEF IInv, OwedInv, Since
  <1>4. NoStalePending'
    BY DEF IInv, NoStalePending, InFlight
  <1>. QED
    BY <1>1, <1>2, <1>3, <1>4

LEMMA ReceiveInv ==
  ASSUME IInv, NEW o \in owed, Receive(o)
  PROVE  IInv'
  <1>. DEFINE r == pending[o[1]]
  <1>1. o[1] \in Keys /\ o[2] \in Callers \cup {"stale"} /\ r \in Callers \cup {None}
    BY OwedParts DEF IInv, TypeOK
  <1>2. r = None \/ o[2] = r
    <2>1. CASE o[2] \in Callers
      BY <2>1 DEF IInv, OwedInv, NoStalePending, InFlight
    <2>2. CASE o[2] = "stale"
      BY <2>2 DEF IInv, OwedInv
    <2>. QED
      BY <1>1, <2>1, <2>2
  <1>3. o[2] \in Callers => r = o[2]
    BY DEF IInv, OwedInv, NoStalePending, InFlight
  <1>4. /\ owed' = owed \ {o}
        /\ UNCHANGED <<age, next, pc, todo, key, outcome, pending, skipped, loginVars, closed>>
    BY DEF Receive
  <1>5. box \in [Callers -> {"empty", "own", "refused", "other"}]
    BY DEF IInv, TypeOK
  <1>6. PICK x \in {"own", "refused"} :
          box' = IF r = None \/ box[r] # "empty" THEN box ELSE [box EXCEPT ![r] = x]
    BY <1>2 DEF Receive
  <1>. HIDE DEF r
  <1>7. Takes
    BY <1>1, <1>4, <1>5, <1>6 DEF Takes, IInv, TypeOK
  <1>8. AnswersOwn'
    BY <1>1, <1>5, <1>6 DEF IInv, AnswersOwn
  <1>9. AnswerReachesWaiter'
    <2>. SUFFICES ASSUME NEW c \in Callers, pc'[c] = "wait", box'[c] = "empty"
                  PROVE  c \in skipped' \/ \E w \in owed' : w[2] = c
      BY DEF AnswerReachesWaiter
    <2>1. box[c] = "empty" /\ c # r
      BY <1>1, <1>5, <1>6, NoneAssumption
    <2>2. c \in skipped \/ \E w \in owed : w[2] = c
      BY <1>4, <2>1 DEF IInv, AnswerReachesWaiter
    <2>. QED
      BY <1>3, <1>4, <2>1, <2>2
  <1>. QED
    BY <1>7, <1>8, <1>9, TakesKeeps DEF IInv

LEMMA LossInv ==
  ASSUME IInv, Shutdown \/ \E o \in owed : CameraForgets(o)
  PROVE  IInv'
  <1>1. /\ UNCHANGED <<next, pc, todo, key, box, outcome, age, pending, loginVars>>
        /\ closed' \in BOOLEAN /\ owed' \subseteq owed
        /\ skipped \subseteq skipped' /\ skipped' \subseteq Callers
        /\ \A w \in owed \ owed' : w[2] \in Callers => w[2] \in skipped'
    <2>1. CASE Shutdown
      BY <2>1 DEF Shutdown, IInv, TypeOK
    <2>2. ASSUME NEW o \in owed, CameraForgets(o)
          PROVE  /\ UNCHANGED <<next, pc, todo, key, box, outcome, age, pending, loginVars>>
                 /\ closed' \in BOOLEAN /\ owed' \subseteq owed
                 /\ skipped \subseteq skipped' /\ skipped' \subseteq Callers
                 /\ \A w \in owed \ owed' : w[2] \in Callers => w[2] \in skipped'
      <3>1. o[2] \in Callers \cup {"stale"} /\ skipped \subseteq Callers /\ closed \in BOOLEAN
        BY OwedParts DEF IInv, TypeOK
      <3>. QED
        BY <2>2, <3>1, NoneAssumption DEF CameraForgets
    <2>. QED
      BY <2>1, <2>2
  <1>2. Takes
    BY <1>1 DEF Takes, IInv, TypeOK
  <1>3. AnswersOwn' /\ AnswerReachesWaiter'
    BY <1>1 DEF IInv, AnswersOwn, AnswerReachesWaiter
  <1>. QED
    BY <1>2, <1>3, TakesKeeps DEF IInv

\* A keep-alive takes a number: everybody grows older.
LEMMA SendNoReplyInv ==
  ASSUME IInv, SendNoReply
  PROVE  IInv'
  <1>1. /\ next' \in 0..Modulus - 1
        /\ owed' \subseteq Keys \X (Callers \cup {"stale"}) \X (0..Modulus - 1)
        /\ \A w \in owed' : Since(w[1][2], w[3])' /\ \E o \in owed : w[1] = o[1] /\ w[2] = o[2]
        /\ \A o \in owed : \E w \in owed' : w[1] = o[1] /\ w[2] = o[2]
    BY ReserveKeeps DEF SendNoReply
  <1>2. /\ age' = [c \in Callers |-> IF InFlight(c) THEN Older(age[c]) ELSE 0]
        /\ next' = (next + 1) % Modulus
        /\ UNCHANGED <<pc, todo, key, box, outcome, pending, skipped, loginVars, closed>>
    BY DEF SendNoReply, Reserve
  <1>3. next \in 0..Modulus - 1 /\ age \in [Callers -> 0..Modulus - 1]
    BY DEF IInv, TypeOK
  <1>4. \A q \in Callers : /\ age'[q] \in 0..Modulus - 1
                           /\ InFlight(q) => Since(key[q][2], age[q])'
    <2>. SUFFICES ASSUME NEW q \in Callers
                  PROVE  /\ age'[q] \in 0..Modulus - 1
                         /\ InFlight(q) => Since(key[q][2], age[q])'
      OBVIOUS
    <2>1. CASE ~InFlight(q)
      BY <1>2, <2>1, NumbersAssumption
    <2>2. CASE InFlight(q)
      <3>1. key[q][2] \in 0..Modulus - 1 /\ Since(key[q][2], age[q])
        BY <2>2 DEF IInv, KeyInv, Keys
      <3>2. age'[q] = Older(age[q]) /\ key'[q] = key[q]
        BY <1>2, <2>2
      <3>3. \A n \in 0..Modulus - 1, a \in 0..Modulus - 1 :
              Since(n, a) => Older(a) \in 0..Modulus - 1 /\ Since(n, Older(a))'
        BY <1>2, <1>3, Ages
      <3>4. Older(age[q]) \in 0..Modulus - 1 /\ Since(key[q][2], age[q])'
        BY <1>3, <3>1, <3>2, <3>3 DEF Since
      <3>. QED
        BY <3>2, <3>4
    <2>. QED
      BY <2>1, <2>2
  <1>5. TypeOK'
    <2>1. age' \in [Callers -> 0..Modulus - 1]
      BY <1>2, <1>4
    <2>. QED
      BY <1>1, <1>2, <2>1 DEF IInv, TypeOK, loginVars
  <1>6. PlanInv' /\ NoStalePending' /\ AnswersOwn'
    BY <1>2 DEF IInv, PlanInv, NoStalePending, AnswersOwn, InFlight
  <1>7. KeyInv'
    BY <1>2, <1>4 DEF IInv, KeyInv, InFlight
  <1>8. OwedInv'
    BY <1>1, <1>2 DEF IInv, OwedInv
  <1>9. AnswerReachesWaiter'
    BY <1>1, <1>2 DEF IInv, AnswerReachesWaiter
  <1>. QED
    BY <1>5, <1>6, <1>7, <1>8, <1>9 DEF IInv

-----------------------------------------------------------------------------
LEMMA NextInv == IInv /\ [Next]_vars => IInv'
  <1>. SUFFICES ASSUME IInv, [Next]_vars PROVE IInv'
    OBVIOUS
  <1>1. ASSUME NEW c \in Callers, Caller(c) PROVE IInv'
    <2>1. CASE Call(c) \/ CallFailed(c) \/ CallProceeds(c)
      BY <2>1, CallInv
    <2>2. CASE Register(c)
      BY <2>2, RegisterInv
    <2>3. CASE Write(c)
      BY <2>3, WriteInv
    <2>4. CASE WriteFails(c) \/ SeesClosed(c) \/ TimesOut(c)
      BY <2>4, ReturnInv DEF WriteFails, SeesClosed, TimesOut, InFlight
    <2>5. CASE Answered(c)
      <3>1. (IF box[c] = "own" THEN "ok" ELSE box[c])
              \in {"ok", "refused", "other", "failed", "timeout", "closed"}
        BY <2>5 DEF Answered, IInv, TypeOK
      <3>. QED
        BY <2>5, <3>1, ReturnInv DEF Answered, InFlight
    <2>. QED
      BY <1>1, <2>1, <2>2, <2>3, <2>4, <2>5 DEF Caller
  <1>2. ASSUME NEW o \in owed, Receive(o) \/ CameraForgets(o) PROVE IInv'
    BY <1>2, ReceiveInv, LossInv
  <1>3. CASE UNCHANGED vars
    <2>1. Takes /\ AnswersOwn' /\ AnswerReachesWaiter'
      BY <1>3 DEF vars, loginVars, Takes, IInv, TypeOK, AnswersOwn, AnswerReachesWaiter
    <2>. QED
      BY <2>1, TakesKeeps DEF IInv
  <1>. QED
    BY <1>1, <1>2, <1>3, SendNoReplyInv, LossInv DEF Next

LEMMA InvHolds == Spec => []IInv
  BY InitInv, NextInv, PTL DEF Spec

\* Every variable keeps its type; loginMu is held through the two requests of
\* a login and nothing else, and never once the client is logged in (Login).
THEOREM TypeCorrect == Spec => []TypeOK
  <1>1. IInv => TypeOK
    BY DEF IInv
  <1>. QED
    BY <1>1, InvHolds, PTL

\* Whatever the width of the numbers, an answer never reaches another request
\* than the one it answers, as long as a number is not used again for a kind
\* while all the others have been (Room; roundTripRequestWithReservedMsgNum).
THEOREM AnswersReachTheirOwn == Spec => []AnswersOwn
  <1>1. IInv => AnswersOwn
    BY DEF IInv
  <1>. QED
    BY <1>1, InvHolds, PTL

\* An answer that came while its requester waits was not dropped (dispatch).
THEOREM AnswersReachWaiters == Spec => []AnswerReachesWaiter
  <1>1. IInv => AnswerReachesWaiter
    BY DEF IInv
  <1>. QED
    BY <1>1, InvHolds, PTL

\* No path, of errors or time-outs, leaves a channel behind in the table, and
\* no request in flight has lost its own (the deferred delete).
THEOREM TableHasNoLeftovers == Spec => []NoStalePending
  <1>1. IInv => NoStalePending
    BY DEF IInv
  <1>. QED
    BY <1>1, InvHolds, PTL
=============================================================================
