--------------------------- MODULE RegistryProofs ---------------------------
(***************************************************************************)
(* Theorems about Registry, for any set of configurations and any number   *)
(* of cameras.                                                             *)
(***************************************************************************)
EXTENDS Registry, TLAPS


\* The life of a camera against the bridge's own state: b.mu is held for the
\* camera being added, b.cameras has live cameras under their own names, and
\* whatever has begun has a configuration.
LifeInv ==
  /\ \A i \in Cams : phase[i] # "none" => config[i] \in Configs
  /\ \A i \in Cams : phase[i] = "adding" <=> (adding = i)
  /\ adding # 0 => at \in 0..(EntryCount(config[adding]) + 1)
  /\ \A n \in Names : cameras[n] # 0 =>
       phase[cameras[n]] = "live" /\ config[cameras[n]].name = n

\* Every entry belongs to a camera whose stop will find it: its path is in the
\* list of that camera, whose paths have not been removed yet.
Holds(i) == phase[i] \notin {"none", "unlisted", "stopped"}
EntryInv ==
  /\ \A p \in Paths :
       /\ streams[p] # None => Holds(streams[p][1]) /\ p \in Listed(config[streams[p][1]])
       /\ talks[p] # 0 => Holds(talks[p]) /\ p \in Listed(config[talks[p]])
       /\ talkSDP[p] # 0 => Holds(talkSDP[p]) /\ p \in Listed(config[talkSDP[p]])
  /\ \A n \in Names : hooks[n] # 0 =>
       phase[hooks[n]] \notin {"none", "stopped"} /\ config[hooks[n]].name = n

IInv == TypeOK /\ LifeInv /\ EntryInv

-----------------------------------------------------------------------------
\* Cameras are numbers, and 0 is none of them.
LEMMA CamsAreNumbers == 0 \notin Cams /\ 0..MaxCams = Cams \cup {0} /\ Cams \subseteq Nat
  <1>1. MaxCams \in Nat
    BY ConfigsAssumption
  <1>. QED
    BY <1>1 DEF Cams

\* A handler names its camera, and is never None.
LEMMA HandlerParts ==
  ASSUME NEW h \in Handlers
  PROVE  h[1] \in Cams /\ h # None
  <1>1. h[1] \in Cams
    BY DEF Handlers
  <1>2. None[1] = 0
    BY DEF None
  <1>. QED
    BY <1>1, <1>2, CamsAreNumbers

(***************************************************************************)
(* The paths.                                                               *)
(***************************************************************************)
\* The parts of a configuration.
LEMMA ConfigParts ==
  ASSUME NEW c \in Configs
  PROVE  /\ c.streams \in Seq(Profiles) /\ Len(c.streams) \in Nat
         /\ \A k \in 1..Len(c.streams) : c.streams[k] \in Profiles
         /\ c.preferred # "" => c.preferred \in Profiles
         /\ c.name \in Names
  <1>1. c.streams \in Seq(Profiles)
    BY ConfigsAssumption
  <1>2. c.preferred = "" \/ \E k \in 1..Len(c.streams) : c.streams[k] = c.preferred
    BY ConfigsAssumption
  <1>3. Len(c.streams) \in Nat /\ \A k \in 1..Len(c.streams) : c.streams[k] \in Profiles
    BY <1>1
  <1>4. c.name \in Names
    BY DEF Names
  <1>. QED
    BY <1>1, <1>2, <1>3, <1>4

\* Three entries per profile.
LEMMA Third ==
  ASSUME NEW n \in Nat, NEW k \in Nat, 1 <= k, k <= 3 * n
  PROVE  (k + 2) \div 3 \in 1..n
  OBVIOUS

\* EntryCount is a number, beyond the profiles only if there is an alias.
LEMMA EntryCountType ==
  ASSUME NEW c \in Configs
  PROVE  /\ EntryCount(c) \in Nat
         /\ 3 * Len(c.streams) <= EntryCount(c)
         /\ \A k \in 1..EntryCount(c) : k <= 3 * Len(c.streams) \/ Aliased(c)
  <1>1. Len(c.streams) \in Nat
    BY ConfigParts
  <1>2. CASE Aliased(c)
    <2>1. EntryCount(c) = 3 * (Len(c.streams) + 1)
      BY <1>2 DEF EntryCount
    <2>. QED
      BY <1>1, <1>2, <2>1
  <1>3. CASE ~Aliased(c)
    <2>1. EntryCount(c) = 3 * (Len(c.streams) + 0)
      BY <1>3 DEF EntryCount
    <2>. QED
      BY <1>1, <2>1
  <1>. QED
    BY <1>2, <1>3

\* EntryProfile is one of the profiles, and every entry setupCameraStreams
\* makes is in cam.paths.
LEMMA EntryParts ==
  ASSUME NEW c \in Configs, NEW k \in 1..EntryCount(c)
  PROVE  EntryProfile(c, k) \in Profiles /\ EntryPath(c, k) \in Listed(c)
  <1>1. CASE k <= 3 * Len(c.streams)
    <2>. DEFINE m == (k + 2) \div 3
    <2>0. k \in Nat /\ 1 <= k
      BY EntryCountType
    <2>1. m \in 1..Len(c.streams)
      BY <1>1, <2>0, Third, ConfigParts
    <2>2. EntryProfile(c, k) = c.streams[m]
      BY <1>1 DEF EntryProfile
    <2>. HIDE DEF m
    <2>3. EntryPath(c, k) \in TwoOf(c.base, Suffix(c, c.streams[m]))
      BY <1>1, <2>2 DEF EntryPath, TwoOf
    <2>4. EntryPath(c, k) \in StreamPaths(c)
      BY <2>1, <2>3 DEF StreamPaths
    <2>5. EntryPath(c, k) \in Listed(c)
      BY <2>4 DEF Listed
    <2>. QED
      BY <2>1, <2>2, <2>5, ConfigParts
  <1>2. CASE ~(k <= 3 * Len(c.streams))
    <2>1. Aliased(c)
      BY <1>2, EntryCountType
    <2>2. EntryProfile(c, k) = c.preferred /\ c.preferred # ""
      BY <1>2, <2>1 DEF EntryProfile, Aliased
    <2>3. EntryPath(c, k) \in TwoOf(c.base, "")
      BY <1>2 DEF EntryPath, TwoOf
    <2>5. EntryPath(c, k) \in Listed(c)
      BY <2>1, <2>3 DEF Listed, AliasPaths
    <2>. QED
      BY <2>2, <2>5, ConfigParts
  <1>. QED
    BY <1>1, <1>2

\* The talk path is in cam.paths too.
LEMMA TalkListed == \A c : TalkPath(c) \in Listed(c)
  BY DEF Listed

-----------------------------------------------------------------------------
LEMMA InitInv == Init => IInv
  <1>. SUFFICES ASSUME Init PROVE IInv
    OBVIOUS
  <1>1. TypeOK
    BY CamsAreNumbers DEF Init, TypeOK, Phases
  <1>2. LifeInv
    BY CamsAreNumbers DEF Init, LifeInv
  <1>3. EntryInv
    BY DEF Init, EntryInv
  <1>. QED
    BY <1>1, <1>2, <1>3 DEF IInv

LEMMA NextInv == IInv /\ [Next]_vars => IInv'
  <1>. SUFFICES ASSUME IInv, [Next]_vars PROVE IInv'
    OBVIOUS
  <1>. USE DEF IInv
  <1>1. CASE Start
    BY <1>1, CamsAreNumbers DEF Start, TypeOK, LifeInv, EntryInv, Holds, camVars, pathVars, hookVars
  <1>2. ASSUME NEW i \in Cams, NEW c \in Configs, AddCamera(i, c) PROVE IInv'
    <2>1. TypeOK'
      BY <1>2, CamsAreNumbers DEF AddCamera, TypeOK, Phases, hookVars
    <2>2. LifeInv'
      BY <1>2, EntryCountType, CamsAreNumbers DEF AddCamera, TypeOK, LifeInv, hookVars
    <2>3. EntryInv'
      BY <1>2, TalkListed, HandlerParts DEF AddCamera, TypeOK, EntryInv, Holds, hookVars
    <2>. QED
      BY <2>1, <2>2, <2>3
  <1>3. ASSUME NEW i \in Cams, AddHook(i) PROVE IInv'
    <2>. config[i] \in Configs /\ phase[i] = "adding" /\ config[i].name \in Names
      BY <1>3, ConfigParts DEF AddHook, LifeInv
    <2>1. TypeOK'
      BY <1>3, CamsAreNumbers DEF AddHook, TypeOK, camVars, pathVars, hookVars
    <2>2. LifeInv'
      BY <1>3, EntryCountType, CamsAreNumbers DEF AddHook, TypeOK, LifeInv, camVars
    <2>3. EntryInv'
      BY <1>3, CamsAreNumbers DEF AddHook, TypeOK, EntryInv, Holds, camVars, pathVars, hookVars
    <2>. QED
      BY <2>1, <2>2, <2>3
  <1>4. ASSUME NEW i \in Cams, AddEntry(i) PROVE IInv'
    <2>. config[i] \in Configs /\ phase[i] = "adding"
      BY <1>4 DEF AddEntry, LifeInv
    <2>. DEFINE p == EntryPath(config[i], at)
                h == EntryHandler(i, config[i], at)
    <2>0. p \in Listed(config[i]) /\ h \in Handlers /\ h[1] = i
      BY <1>4, EntryParts DEF AddEntry, EntryHandler, Handlers
    <2>1. TypeOK'
      BY <1>4, <2>0 DEF AddEntry, TypeOK, camVars, hookVars
    <2>2. LifeInv'
      BY <1>4, EntryCountType, CamsAreNumbers DEF AddEntry, TypeOK, LifeInv, camVars
    <2>3. EntryInv'
      <3>. HIDE DEF p, h
      <3>1. CASE at % 3 = 0
        <4>1. talks' = [talks EXCEPT ![p] = i] /\ UNCHANGED <<streams, talkSDP, camVars, hookVars>>
          BY <1>4, <3>1 DEF AddEntry, p
        <4>. QED
          BY <2>0, <4>1 DEF TypeOK, EntryInv, Holds, camVars, hookVars
      <3>2. CASE at % 3 # 0
        <4>1. streams' = [streams EXCEPT ![p] = h] /\ UNCHANGED <<talks, talkSDP, camVars, hookVars>>
          BY <1>4, <3>2 DEF AddEntry, p, h
        <4>. QED
          BY <2>0, <4>1 DEF TypeOK, EntryInv, Holds, camVars, hookVars
      <3>. QED
        BY <3>1, <3>2 DEF TypeOK
    <2>. QED
      BY <2>1, <2>2, <2>3
  <1>5. ASSUME NEW i \in Cams, AddDone(i) PROVE IInv'
    <2>. config[i] \in Configs /\ phase[i] = "adding" /\ config[i].name \in Names
      BY <1>5, ConfigParts DEF AddDone, LifeInv
    <2>1. TypeOK'
      BY <1>5, CamsAreNumbers DEF AddDone, TypeOK, Phases, pathVars, hookVars
    <2>2. LifeInv'
      BY <1>5, CamsAreNumbers DEF AddDone, TypeOK, LifeInv
    <2>3. EntryInv'
      BY <1>5, CamsAreNumbers DEF AddDone, TypeOK, EntryInv, Holds, pathVars, hookVars
    <2>. QED
      BY <2>1, <2>2, <2>3
  <1>6. ASSUME NEW n \in Names, RemoveCamera(n) PROVE IInv'
    <2>. cameras[n] \in Cams /\ phase[cameras[n]] = "live" /\ config[cameras[n]].name = n
      BY <1>6, CamsAreNumbers DEF RemoveCamera, LifeInv, TypeOK
    <2>1. TypeOK'
      BY <1>6, CamsAreNumbers DEF RemoveCamera, TypeOK, Phases, pathVars, hookVars
    <2>2. LifeInv'
      BY <1>6, CamsAreNumbers DEF RemoveCamera, TypeOK, LifeInv
    <2>3. EntryInv'
      BY <1>6, CamsAreNumbers DEF RemoveCamera, TypeOK, EntryInv, Holds, pathVars, hookVars
    <2>. QED
      BY <2>1, <2>2, <2>3
  <1>7. CASE Close
    <2>1. TypeOK'
      BY <1>7, CamsAreNumbers DEF Close, TypeOK, Phases, pathVars, hookVars
    <2>2. LifeInv'
      BY <1>7, CamsAreNumbers DEF Close, TypeOK, LifeInv
    <2>3. EntryInv'
      <3>1. \A i \in Cams : /\ Holds(i) => Holds(i)'
                            /\ phase[i] \notin {"none", "stopped"} => phase'[i] \notin {"none", "stopped"}
        BY <1>7 DEF Close, Holds
      <3>2. \A p \in Paths : /\ streams[p] # None => streams[p][1] \in Cams
                             /\ talks[p] # 0 => talks[p] \in Cams
                             /\ talkSDP[p] # 0 => talkSDP[p] \in Cams
        BY HandlerParts, CamsAreNumbers DEF TypeOK
      <3>3. \A n \in Names : hooks[n] # 0 => hooks[n] \in Cams
        BY CamsAreNumbers DEF TypeOK
      <3>. QED
        BY <1>7, <3>1, <3>2, <3>3 DEF Close, EntryInv, pathVars, hookVars
    <2>. QED
      BY <2>1, <2>2, <2>3
  <1>8. ASSUME NEW i \in Cams, StopDevice(i) PROVE IInv'
    <2>1. TypeOK'
      BY <1>8, CamsAreNumbers DEF StopDevice, Become, TypeOK, Phases, bridgeVars, pathVars, hookVars
    <2>2. LifeInv'
      BY <1>8, CamsAreNumbers DEF StopDevice, Become, TypeOK, LifeInv, bridgeVars
    <2>3. EntryInv'
      BY <1>8, CamsAreNumbers DEF StopDevice, Become, TypeOK, EntryInv, Holds, pathVars, hookVars
    <2>. QED
      BY <2>1, <2>2, <2>3
  <1>9. ASSUME NEW i \in Cams, RemovePaths(i) PROVE IInv'
    <2>1. TypeOK'
      BY <1>9, CamsAreNumbers DEF RemovePaths, Become, TypeOK, Phases, bridgeVars, hookVars
    <2>2. LifeInv'
      BY <1>9, CamsAreNumbers DEF RemovePaths, Become, TypeOK, LifeInv, bridgeVars
    <2>3. EntryInv'
      BY <1>9, HandlerParts DEF RemovePaths, Become, TypeOK, EntryInv, Holds, hookVars
    <2>. QED
      BY <2>1, <2>2, <2>3
  <1>10. ASSUME NEW i \in Cams, Unregister(i) PROVE IInv'
    <2>1. TypeOK'
      BY <1>10, CamsAreNumbers DEF Unregister, Become, TypeOK, Phases, bridgeVars, pathVars
    <2>2. LifeInv'
      BY <1>10, CamsAreNumbers DEF Unregister, Become, TypeOK, LifeInv, bridgeVars
    <2>3. EntryInv'
      BY <1>10, CamsAreNumbers DEF Unregister, Become, TypeOK, EntryInv, Holds, pathVars
    <2>. QED
      BY <2>1, <2>2, <2>3
  <1>11. CASE CloseServers
    BY <1>11, CamsAreNumbers DEF CloseServers, TypeOK, LifeInv, EntryInv, Holds, camVars, pathVars
  <1>12. CASE UNCHANGED vars
    BY <1>12, CamsAreNumbers DEF vars, TypeOK, LifeInv, EntryInv, Holds, bridgeVars, camVars, pathVars, hookVars
  <1>. QED
    BY <1>1, <1>2, <1>3, <1>4, <1>5, <1>6, <1>7, <1>8, <1>9, <1>10, <1>11, <1>12
    DEF Next, Adding, Stopping

-----------------------------------------------------------------------------
LEMMA InvHolds == Spec => []IInv
  BY InitInv, NextInv, PTL DEF Spec

\* Type correctness of the bridge and its tables.
THEOREM TypeCorrect == Spec => []TypeOK
  <1>1. IInv => TypeOK
    BY DEF IInv
  <1>. QED
    BY <1>1, InvHolds, PTL

\* Camera.stop: no path and no webhook name leads to a camera whose stop has
\* passed it, whatever AddCamera and other stops do at the same time.
THEOREM NoDeadRegistrationHolds == Spec => []NoDeadRegistration
  <1>1. IInv => NoDeadRegistration
    BY DEF IInv, EntryInv, Holds, NoDeadRegistration
  <1>. QED
    BY <1>1, InvHolds, PTL
-----------------------------------------------------------------------------
(***************************************************************************)
(* Who is served.                                                           *)
(***************************************************************************)
\* A talk publisher is never found under a plain path, a stream never under a
\* talk path.
KindInv ==
  \A p \in Paths : (talks[p] # 0 => p[3] # "") /\ (streams[p] # None => p[3] # "talk")

\* While a camera is alone nobody else who is not stopped overlaps with it.
AloneInv ==
  \A i \in alone : /\ phase[i] # "none"
                   /\ \A j \in Cams : j # i /\ Active(i) /\ Active(j) => ~Overlap(config[i], config[j])

\* The k-th entry of camera i is in its table.
Entered(i, k) ==
  LET p == EntryPath(config[i], k) IN
  IF k % 3 = 0 THEN talks[p] = i ELSE streams[p] = EntryHandler(i, config[i], k)
Made(i, k) == k \in 1..EntryCount(config[i]) /\ (phase[i] = "adding" => k < at)
Serving(i) == i \in alone /\ phase[i] \in {"adding", "live"}

\* A camera that is alone finds every entry it made so far.
Served(i) ==
  /\ talks[TalkPath(config[i])] = i /\ talkSDP[TalkPath(config[i])] = i
  /\ \A k \in Nat : Made(i, k) => Entered(i, k)
  /\ i \in hooked => hooks[config[i].name] = i
  /\ phase[i] = "live" => cameras[config[i].name] = i
ServedInv ==
  /\ \A i \in hooked : phase[i] # "none"
  /\ \A i \in Cams : Serving(i) => Served(i)

SInv == IInv /\ KindInv /\ AloneInv /\ ServedInv

\* Entries that share a path are the same entry: a profile has one path and
\* the alias none of theirs.
LEMMA SamePathSameHandler ==
  ASSUME NEW i, NEW c \in Configs,
         NEW k \in 1..EntryCount(c), NEW l \in 1..EntryCount(c),
         EntryPath(c, k) = EntryPath(c, l), k % 3 # 0, l % 3 # 0
  PROVE  EntryHandler(i, c, k) = EntryHandler(i, c, l)
  <1>. DEFINE n == Len(c.streams)
              mk == (k + 2) \div 3
              ml == (l + 2) \div 3
              SufK == IF k <= 3 * n THEN Suffix(c, EntryProfile(c, k)) ELSE ""
              SufL == IF l <= 3 * n THEN Suffix(c, EntryProfile(c, l)) ELSE ""
              KindK == IF k % 3 = 1 THEN "" ELSE "twoway"
              KindL == IF l % 3 = 1 THEN "" ELSE "twoway"
  <1>1. SufK = SufL /\ KindK = KindL
    <2>1. EntryPath(c, k) = <<c.base, SufK, KindK>> /\ EntryPath(c, l) = <<c.base, SufL, KindL>>
      BY DEF EntryPath
    <2>. HIDE DEF SufK, SufL, KindK, KindL
    <2>2. <<c.base, SufK, KindK>> = <<c.base, SufL, KindL>>
      BY <2>1
    <2>. QED
      BY <2>2
  <1>2. n \in Nat /\ EntryCount(c) \in Nat
    BY ConfigParts, EntryCountType
  <1>3. /\ k <= 3 * n => mk \in 1..n /\ EntryProfile(c, k) = c.streams[mk]
        /\ l <= 3 * n => ml \in 1..n /\ EntryProfile(c, l) = c.streams[ml]
    BY <1>2, Third DEF EntryProfile
  <1>4. /\ ~(k <= 3 * n) => Aliased(c) /\ EntryProfile(c, k) = c.preferred
        /\ ~(l <= 3 * n) => Aliased(c) /\ EntryProfile(c, l) = c.preferred
    BY EntryCountType DEF EntryProfile
  <1>5. "" \notin Profiles
    BY DEF Profiles
  <1>6. EntryProfile(c, k) \in Profiles /\ EntryProfile(c, l) \in Profiles
    BY EntryParts
  <1>7. EntryProfile(c, k) = EntryProfile(c, l)
    <2>. HIDE DEF mk, ml, KindK, KindL
    <2>1. CASE Multi(c)
      BY <1>1, <1>4, <1>5, <1>6, <2>1 DEF Suffix
    <2>2. CASE ~Multi(c)
      <3>0. ~Aliased(c) /\ ~(n > 1)
        BY <2>2 DEF Multi, Aliased
      <3>1. n <= 1 /\ ~Aliased(c)
        BY <3>0, <1>2
      <3>2. mk = 1 /\ ml = 1
        BY <3>1, <1>2, <1>3, <1>4
      <3>. QED
        BY <3>1, <3>2, <1>3, <1>4
    <2>. QED
      BY <2>1, <2>2
  <1>. QED
    BY <1>1, <1>7 DEF EntryHandler
\* Every listed path is a path of the tables.
LEMMA ListedArePaths ==
  ASSUME NEW c \in Configs
  PROVE  Listed(c) \subseteq Paths /\ TalkPath(c) \in Paths
  <1>1. PathsOf(c) \subseteq Paths
    BY DEF Paths
  <1>2. TalkPath(c) \in PathsOf(c) /\ \A s \in Profiles \cup {""} : TwoOf(c.base, s) \subseteq PathsOf(c)
    BY DEF PathsOf
  <1>3. \A k \in 1..Len(c.streams) : Suffix(c, c.streams[k]) \in Profiles \cup {""}
    BY ConfigParts DEF Suffix
  <1>4. StreamPaths(c) \subseteq PathsOf(c)
    BY <1>2, <1>3 DEF StreamPaths
  <1>5. AliasPaths(c) \subseteq PathsOf(c)
    BY <1>2 DEF AliasPaths
  <1>. QED
    BY <1>1, <1>2, <1>4, <1>5 DEF Listed

\* The kinds of the paths.
LEMMA KindsOfPaths ==
  ASSUME NEW c \in Configs
  PROVE  /\ TalkPath(c)[3] = "talk"
         /\ \A k \in 1..EntryCount(c) :
              EntryPath(c, k)[3] = IF k % 3 = 1 THEN "" ELSE "twoway"
  BY DEF TalkPath, EntryPath

\* What a camera that is alone does not share.
LEMMA Apart ==
  ASSUME AloneInv, NEW i \in alone, NEW j \in Cams, j # i, Active(i), Active(j)
  PROVE  /\ config[i].name # config[j].name
         /\ \A p \in Listed(config[j]) : p \notin Listed(config[i])
  <1>1. ~Overlap(config[i], config[j])
    BY DEF AloneInv
  <1>. QED
    BY <1>1 DEF Overlap

\* AddCamera and AddEntry use the kinds as the tables do.
LEMMA KindNext == IInv /\ KindInv /\ [Next]_vars => KindInv'
  <1>. SUFFICES ASSUME IInv, KindInv, [Next]_vars PROVE KindInv'
    OBVIOUS
  <1>1. ASSUME NEW i \in Cams, NEW c \in Configs, AddCamera(i, c) PROVE KindInv'
    <2>1. \A p \in Paths : talks'[p] = talks[p] \/ p = TalkPath(c)
      BY <1>1 DEF AddCamera, IInv, TypeOK
    <2>. QED
      BY <1>1, <2>1, KindsOfPaths DEF AddCamera, KindInv
  <1>2. ASSUME NEW i \in Cams, AddEntry(i) PROVE KindInv'
    <2>. DEFINE p == EntryPath(config[i], at)
    <2>0. config[i] \in Configs /\ at \in 1..EntryCount(config[i])
      BY <1>2 DEF AddEntry, IInv, LifeInv
    <2>1. p[3] # "talk" /\ (at % 3 = 0 => p[3] # "")
      <3>1. p[3] = IF at % 3 = 1 THEN "" ELSE "twoway"
        BY <2>0, KindsOfPaths
      <3>2. at % 3 = 0 => at % 3 # 1
        OBVIOUS
      <3>. HIDE DEF p
      <3>. QED
        BY <3>1, <3>2
    <2>2. \A q \in Paths : /\ talks'[q] = talks[q] \/ (q = p /\ at % 3 = 0)
                           /\ streams'[q] = streams[q] \/ q = p
      BY <1>2 DEF AddEntry, IInv, TypeOK
    <2>. HIDE DEF p
    <2>. QED
      BY <2>1, <2>2 DEF KindInv
  <1>3. ASSUME NEW i \in Cams, RemovePaths(i) PROVE KindInv'
    BY <1>3 DEF RemovePaths, KindInv
  <1>4. CASE UNCHANGED <<streams, talks>>
    BY <1>4 DEF KindInv
  <1>. QED
    BY <1>1, <1>2, <1>3, <1>4 DEF Next, Adding, Stopping, Start, AddHook, AddDone, RemoveCamera,
      Close, StopDevice, Unregister, CloseServers, vars, pathVars

\* alone is kept by AddCamera, and nothing else makes a camera active.
LEMMA AloneNext == IInv /\ AloneInv /\ [Next]_vars => AloneInv'
  <1>. SUFFICES ASSUME IInv, AloneInv, [Next]_vars PROVE AloneInv'
    OBVIOUS
  <1>1. ASSUME NEW i \in Cams, NEW c \in Configs, AddCamera(i, c) PROVE AloneInv'
    <2>. DEFINE others == {j \in Cams : Active(j) /\ Overlap(config[j], c)}
    <2>0. i \notin alone /\ ~Active(i)
      BY <1>1 DEF AddCamera, AloneInv, Active
    <2>1. /\ config'[i] = c /\ phase'[i] = "adding"
          /\ \A j \in Cams \ {i} : config'[j] = config[j] /\ phase'[j] = phase[j]
      BY <1>1 DEF AddCamera, IInv, TypeOK
    <2>2. alone' = IF others = {} THEN alone \cup {i} ELSE alone \ others
      BY <1>1 DEF AddCamera
    <2>3. \A j \in Cams \ {i} : Active(j)' <=> Active(j)
      BY <2>1 DEF Active
    <2>4. ASSUME NEW k \in alone', NEW j \in Cams, j # k, Active(k)', Active(j)'
          PROVE  ~Overlap(config[k], config[j])'
      <3>0. k \in Cams
        BY <1>1, <2>2 DEF IInv, TypeOK
      <3>1. CASE k = i
        <4>1. others = {}
          BY <2>0, <2>2, <2>4, <3>1
        <4>2. Active(j) /\ config'[j] = config[j] /\ config'[k] = c
          BY <2>1, <2>3, <2>4, <3>1
        <4>3. ~Overlap(config[j], c)
          BY <4>1, <4>2
        <4>. QED
          BY <4>2, <4>3 DEF Overlap
      <3>2. CASE j = i
        <4>1. k \in alone /\ Active(k) /\ k \notin others /\ config'[k] = config[k] /\ config'[j] = c
          BY <2>1, <2>2, <2>3, <2>4, <3>0, <3>2
        <4>2. ~Overlap(config[k], c)
          BY <4>1, <3>0
        <4>. QED
          BY <4>1, <4>2 DEF Overlap
      <3>3. CASE k # i /\ j # i
        <4>1. k \in alone /\ Active(k) /\ Active(j) /\ config'[k] = config[k] /\ config'[j] = config[j]
          BY <2>1, <2>2, <2>3, <2>4, <3>0, <3>3
        <4>2. ~Overlap(config[k], config[j])
          BY <2>4, <4>1 DEF AloneInv
        <4>. QED
          BY <4>1, <4>2 DEF Overlap
      <3>. QED
        BY <3>1, <3>2, <3>3
    <2>5. \A k \in alone' : phase'[k] # "none"
      <3>. HIDE DEF others
      <3>. QED
        BY <2>1, <2>2 DEF AloneInv, IInv, TypeOK
    <2>. HIDE DEF others
    <2>. QED
      BY <2>4, <2>5 DEF AloneInv
  <1>2. CASE /\ UNCHANGED <<config, alone>>
             /\ \A i \in Cams : /\ (phase[i] = "none") = (phase'[i] = "none")
                                /\ phase'[i] = "stopped" \/ phase[i] # "stopped"
    <2>1. \A i \in Cams : Active(i)' => Active(i)
      BY <1>2 DEF Active
    <2>. QED
      BY <1>2, <2>1 DEF AloneInv, Overlap, IInv, TypeOK
  <1>3. ASSUME NEW i \in Cams, AddDone(i) \/ StopDevice(i) \/ RemovePaths(i) \/ Unregister(i)
        PROVE  AloneInv'
    BY <1>2, <1>3 DEF AddDone, StopDevice, RemovePaths, Unregister, Become, IInv, TypeOK, LifeInv
  <1>4. ASSUME NEW n \in Names, RemoveCamera(n) PROVE AloneInv'
    BY <1>2, <1>4, CamsAreNumbers DEF RemoveCamera, IInv, TypeOK, LifeInv
  <1>5. CASE Close
    BY <1>2, <1>5 DEF Close
  <1>6. CASE UNCHANGED <<config, phase, alone>>
    BY <1>2, <1>6
  <1>. QED
    BY <1>1, <1>3, <1>4, <1>5, <1>6 DEF Next, Adding, Stopping, Start, AddHook, AddEntry,
      CloseServers, vars, camVars
\* A step that leaves the entries of camera i alone keeps them.
Kept(i) ==
  /\ config'[i] = config[i]
  /\ \A p \in Listed(config[i]) : streams'[p] = streams[p] /\ talks'[p] = talks[p] /\ talkSDP'[p] = talkSDP[p]

LEMMA KeptServed ==
  ASSUME NEW i \in Cams, config[i] \in Configs, Served(i), Kept(i),
         \A k \in Nat : Made(i, k)' => Made(i, k),
         i \in hooked' => i \in hooked /\ hooks'[config[i].name] = hooks[config[i].name],
         phase'[i] = "live" => phase[i] = "live" /\ cameras'[config[i].name] = cameras[config[i].name]
  PROVE  Served(i)'
  <1>. DEFINE c == config[i]
  <1>1. config'[i] = c /\ c \in Configs
    BY DEF Kept
  <1>2. talks'[TalkPath(c)] = i /\ talkSDP'[TalkPath(c)] = i
    BY TalkListed DEF Kept, Served
  <1>3. ASSUME NEW k \in Nat, Made(i, k)' PROVE Entered(i, k)'
    <2>1. Made(i, k) /\ Entered(i, k) /\ k \in 1..EntryCount(c)
      BY <1>3 DEF Served, Made
    <2>2. EntryPath(c, k) \in Listed(c)
      BY <2>1, <1>1, EntryParts
    <2>3. /\ streams'[EntryPath(c, k)] = streams[EntryPath(c, k)]
          /\ talks'[EntryPath(c, k)] = talks[EntryPath(c, k)]
      BY <2>2 DEF Kept
    <2>. QED
      BY <1>1, <2>1, <2>3 DEF Entered
  <1>4. i \in hooked' => hooks'[c.name] = i
    BY DEF Served
  <1>5. phase'[i] = "live" => cameras'[c.name] = i
    BY DEF Served
  <1>. HIDE DEF c
  <1>. QED
    BY <1>1, <1>2, <1>3, <1>4, <1>5 DEF Served

\* Every step keeps what a camera that is alone is served with.
LEMMA ServedNext == SInv /\ IInv' /\ AloneInv' /\ [Next]_vars => ServedInv'
  <1>. SUFFICES ASSUME SInv, IInv', AloneInv', [Next]_vars PROVE ServedInv'
    OBVIOUS
  <1>. USE DEF SInv
  <1>0. \A i \in Cams : Serving(i) => config[i] \in Configs /\ Active(i) /\ Served(i)
    BY DEF Serving, Active, IInv, LifeInv, ServedInv
  <1>1. ASSUME NEW j \in Cams, NEW c \in Configs, AddCamera(j, c) PROVE ServedInv'
    <2>1. \A i \in hooked' : phase'[i] # "none"
      BY <1>1 DEF AddCamera, hookVars, ServedInv, IInv, TypeOK
    <2>2. ASSUME NEW i \in Cams, Serving(i)', i # j PROVE Served(i)'
      <3>1. phase'[i] = phase[i] /\ config'[i] = config[i] /\ i \in alone /\ phase'[j] = "adding" /\ config'[j] = c
        BY <1>1, <2>2 DEF AddCamera, IInv, TypeOK, Serving
      <3>2. Serving(i) /\ phase[i] = "live"
        BY <1>1, <2>2, <3>1, CamsAreNumbers DEF AddCamera, Serving, IInv, LifeInv
      <3>3. ~Overlap(config[i], c)
        BY <2>2, <3>1, <3>2 DEF AloneInv, Serving, Active, Overlap
      <3>4. TalkPath(c) \notin Listed(config[i])
        BY <3>3, TalkListed DEF Overlap
      <3>5. Kept(i)
        BY <1>1, <3>1, <3>4 DEF AddCamera, Kept, IInv, TypeOK
      <3>6. \A k \in Nat : Made(i, k)' => Made(i, k)
        BY <3>1, <3>2 DEF Made
      <3>. QED
        BY <1>0, <1>1, <3>1, <3>2, <3>5, <3>6, KeptServed DEF AddCamera, hookVars
    <2>3. ASSUME Serving(j)' PROVE Served(j)'
      <3>1. config'[j] = c /\ phase'[j] = "adding" /\ at' = 0 /\ j \notin hooked'
        BY <1>1 DEF AddCamera, IInv, TypeOK, ServedInv, hookVars
      <3>2. talks'[TalkPath(c)] = j /\ talkSDP'[TalkPath(c)] = j
        BY <1>1, ListedArePaths DEF AddCamera, IInv, TypeOK
      <3>3. \A k \in Nat : ~Made(j, k)'
        BY <3>1 DEF Made
      <3>. QED
        BY <3>1, <3>2, <3>3 DEF Served
    <2>. QED
      BY <2>1, <2>2, <2>3 DEF ServedInv
  <1>2. ASSUME NEW j \in Cams, AddHook(j) PROVE ServedInv'
    <2>0. phase[j] = "adding" /\ Active(j) /\ config[j] \in Configs /\ at' = 1
      BY <1>2 DEF AddHook, IInv, LifeInv, Active
    <2>1. \A i \in hooked' : phase'[i] # "none"
      BY <1>2, <2>0 DEF AddHook, hookVars, camVars, ServedInv, IInv, TypeOK
    <2>2. ASSUME NEW i \in Cams, Serving(i)', i # j PROVE Served(i)'
      <3>1. Serving(i) /\ phase'[i] = phase[i] /\ config'[i] = config[i]
        BY <1>2, <2>2 DEF AddHook, camVars, Serving
      <3>2. config[i].name # config[j].name
        BY <1>0, <2>0, <2>2, <3>1, Apart DEF Serving
      <3>3. i \in hooked' => i \in hooked /\ hooks'[config[i].name] = hooks[config[i].name]
        <4>1. config[i].name \in Names
          BY <1>0, <3>1, ConfigParts
        <4>2. hooked' \subseteq hooked \cup {j}
          BY <1>2 DEF AddHook, hookVars
        <4>3. hooks' = hooks \/ hooks' = [hooks EXCEPT ![config[j].name] = j]
          BY <1>2 DEF AddHook, hookVars
        <4>. QED
          BY <2>2, <3>2, <4>1, <4>2, <4>3 DEF IInv, TypeOK
      <3>4. phase[i] = "live"
        BY <2>0, <2>2, <3>1, <1>2 DEF Serving, AddHook, IInv, LifeInv
      <3>5. Kept(i) /\ \A k \in Nat : Made(i, k)' => Made(i, k)
        BY <1>2, <3>1, <3>4 DEF AddHook, Kept, Made, camVars, pathVars
      <3>. QED
        BY <1>0, <1>2, <3>1, <3>3, <3>4, <3>5, KeptServed DEF AddHook
    <2>3. ASSUME Serving(j)' PROVE Served(j)'
      <3>1. Serving(j) /\ phase'[j] = "adding" /\ config'[j] = config[j]
        BY <1>2, <2>0, <2>3 DEF AddHook, camVars, Serving
      <3>2. \A k \in Nat : ~Made(j, k)'
        BY <2>0, <3>1 DEF Made
      <3>3. config[j].name \in Names
        BY <2>0, ConfigParts
      <3>4. j \in hooked' => hooks'[config[j].name] = j
        BY <1>0, <1>2, <3>1, <3>3 DEF AddHook, hookVars, IInv, TypeOK, Served
      <3>. QED
        BY <1>0, <1>2, <3>1, <3>2, <3>4 DEF AddHook, pathVars, Served
    <2>. QED
      BY <2>1, <2>2, <2>3 DEF ServedInv
  <1>3. ASSUME NEW j \in Cams, AddEntry(j) PROVE ServedInv'
    <2>. DEFINE p == EntryPath(config[j], at)
                h == EntryHandler(j, config[j], at)
    <2>0. /\ phase[j] = "adding" /\ Active(j) /\ config[j] \in Configs
          /\ at \in 1..EntryCount(config[j]) /\ at' = at + 1
          /\ UNCHANGED <<server, closed, cameras, adding, camVars, talkSDP, hookVars>>
      BY <1>3 DEF AddEntry, IInv, LifeInv, Active
    <2>1. p \in Listed(config[j]) /\ p \in Paths
      BY <2>0, EntryParts, ListedArePaths
    <2>2. /\ at % 3 = 0 => talks' = [talks EXCEPT ![p] = j] /\ streams' = streams
          /\ at % 3 # 0 => streams' = [streams EXCEPT ![p] = h] /\ talks' = talks
      BY <1>3 DEF AddEntry
    <2>3. ASSUME NEW i \in Cams, Serving(i)', i # j PROVE Served(i)'
      <3>1. Serving(i) /\ phase'[i] = phase[i] /\ config'[i] = config[i]
        BY <2>0, <2>3 DEF camVars, Serving
      <3>2. p \notin Listed(config[i])
        BY <1>0, <2>0, <2>1, <2>3, <3>1, Apart DEF Serving
      <3>3. phase[i] = "live"
        BY <1>3, <2>0, <2>3, <3>1 DEF Serving, AddEntry, IInv, LifeInv
      <3>. HIDE DEF p, h
      <3>4. Kept(i)
        <4>1. Listed(config[i]) \subseteq Paths
          BY <1>0, <3>1, ListedArePaths
        <4>2. talkSDP' = talkSDP
          BY <2>0
        <4>3. \A q \in Listed(config[i]) : streams'[q] = streams[q] /\ talks'[q] = talks[q]
          BY <2>2, <3>2, <4>1 DEF IInv, TypeOK
        <4>. QED
          BY <3>1, <4>2, <4>3 DEF Kept
      <3>5. \A k \in Nat : Made(i, k)' => Made(i, k)
        BY <3>1, <3>3 DEF Made
      <3>. QED
        BY <1>0, <2>0, <3>1, <3>3, <3>4, <3>5, KeptServed DEF hookVars
    <2>4. ASSUME Serving(j)' PROVE Served(j)'
      <3>1. Serving(j) /\ phase'[j] = "adding" /\ config'[j] = config[j] /\ Served(j)
        BY <1>0, <2>0, <2>4 DEF camVars, Serving
      <3>2. ASSUME NEW k \in Nat, Made(j, k)' PROVE Entered(j, k)'
        <4>. DEFINE q == EntryPath(config[j], k)
        <4>1. k \in 1..EntryCount(config[j]) /\ k < at + 1
          BY <2>0, <3>1, <3>2 DEF Made
        <4>2. k = at \/ (k < at /\ Entered(j, k))
          BY <2>0, <3>1, <4>1, EntryCountType DEF Made, Served
        <4>3. q \in Paths
          BY <2>0, <4>1, EntryParts, ListedArePaths
        <4>4. CASE k % 3 = 0
          <5>1. k = at \/ talks[q] = j
            BY <4>2, <4>4 DEF Entered
          <5>2. talks'[q] = j
            <6>1. CASE k = at
              BY <2>1, <2>2, <4>4, <6>1 DEF IInv, TypeOK
            <6>2. CASE talks[q] = j
              <7>. HIDE DEF p, q, h
              <7>. QED
                BY <2>2, <4>3, <6>2 DEF IInv, TypeOK
            <6>. QED
              BY <5>1, <6>1, <6>2
          <5>. QED
            BY <3>1, <4>4, <5>2 DEF Entered
        <4>5. CASE k % 3 # 0
          <5>1. streams'[q] = EntryHandler(j, config[j], k)
            <6>1. CASE k = at
              BY <2>1, <2>2, <4>5, <6>1 DEF IInv, TypeOK
            <6>2. CASE k # at
              <7>1. streams[q] = EntryHandler(j, config[j], k)
                BY <4>2, <4>5, <6>2 DEF Entered
              <7>2. p = q /\ at % 3 # 0 => h = EntryHandler(j, config[j], k)
                BY <2>0, <4>1, <4>5, SamePathSameHandler
              <7>. HIDE DEF p, q, h
              <7>. QED
                BY <2>2, <4>3, <7>1, <7>2 DEF IInv, TypeOK
            <6>. QED
              BY <6>1, <6>2
          <5>. QED
            BY <3>1, <4>5, <5>1 DEF Entered
        <4>. QED
          BY <4>4, <4>5
      <3>3. talks'[TalkPath(config[j])] = j /\ talkSDP'[TalkPath(config[j])] = j
        <4>1. talks[TalkPath(config[j])] = j /\ talkSDP[TalkPath(config[j])] = j /\ TalkPath(config[j]) \in Paths
          BY <2>0, <3>1, ListedArePaths DEF Served
        <4>. HIDE DEF p, h
        <4>. QED
          BY <2>0, <2>2, <4>1 DEF IInv, TypeOK
      <3>4. j \in hooked' => hooks'[config[j].name] = j
        BY <2>0, <3>1 DEF Served, hookVars
      <3>. QED
        BY <3>1, <3>2, <3>3, <3>4 DEF Served
    <2>5. \A i \in hooked' : phase'[i] # "none"
      BY <2>0 DEF hookVars, camVars, ServedInv
    <2>. QED
      BY <2>3, <2>4, <2>5 DEF ServedInv
  <1>4. ASSUME NEW j \in Cams, AddDone(j) PROVE ServedInv'
    <2>0. /\ phase[j] = "adding" /\ Active(j) /\ config[j] \in Configs /\ config[j].name \in Names
          /\ at = EntryCount(config[j]) + 1 /\ phase'[j] = "live"
          /\ \A i \in Cams \ {j} : phase'[i] = phase[i]
      <3>1. phase[j] = "adding" /\ config[j] \in Configs
        BY <1>4 DEF AddDone, IInv, LifeInv
      <3>2. phase' = [phase EXCEPT ![j] = "live"] /\ at = EntryCount(config[j]) + 1
        BY <1>4 DEF AddDone
      <3>. QED
        BY <3>1, <3>2, ConfigParts DEF IInv, TypeOK, Active
    <2>1. \A i \in hooked' : phase'[i] # "none"
      BY <1>4, <2>0 DEF AddDone, hookVars, ServedInv, IInv, TypeOK
    <2>2. ASSUME NEW i \in Cams, Serving(i)', i # j PROVE Served(i)'
      <3>1. Serving(i) /\ phase'[i] = phase[i] /\ config'[i] = config[i]
        BY <1>4, <2>0, <2>2 DEF AddDone, Serving
      <3>2. config[i].name # config[j].name
        BY <1>0, <2>0, <2>2, <3>1, Apart DEF Serving
      <3>3. cameras'[config[i].name] = cameras[config[i].name]
        BY <1>4, <3>2 DEF AddDone, IInv, TypeOK
      <3>4. Kept(i) /\ \A k \in Nat : Made(i, k)' => Made(i, k)
        BY <1>4, <3>1 DEF AddDone, Kept, Made, pathVars
      <3>. QED
        BY <1>0, <1>4, <3>1, <3>3, <3>4, KeptServed DEF AddDone, hookVars
    <2>3. ASSUME Serving(j)' PROVE Served(j)'
      <3>1. Serving(j) /\ config'[j] = config[j] /\ Served(j)
        BY <1>0, <1>4, <2>0, <2>3 DEF AddDone, Serving
      <3>2. cameras'[config[j].name] = j
        BY <1>4, <2>0 DEF AddDone, IInv, TypeOK
      <3>3. \A k \in Nat : Made(j, k)' => Made(j, k)
        BY <2>0, <3>1, EntryCountType DEF Made
      <3>4. \A k \in Nat : Entered(j, k) => Entered(j, k)'
        BY <1>4, <3>1 DEF AddDone, pathVars, Entered
      <3>. QED
        BY <1>4, <3>1, <3>2, <3>3, <3>4 DEF AddDone, Served, pathVars, hookVars
    <2>. QED
      BY <2>1, <2>2, <2>3 DEF ServedInv
  <1>5. ASSUME NEW n \in Names, RemoveCamera(n) PROVE ServedInv'
    <2>0. /\ cameras[n] \in Cams /\ phase'[cameras[n]] = "removed"
          /\ \A i \in Cams \ {cameras[n]} : phase'[i] = phase[i]
      BY <1>5, CamsAreNumbers DEF RemoveCamera, IInv, TypeOK
    <2>1. \A i \in hooked' : phase'[i] # "none"
      BY <1>5, <2>0 DEF RemoveCamera, hookVars, ServedInv, IInv, TypeOK
    <2>2. ASSUME NEW i \in Cams, Serving(i)' PROVE Served(i)'
      <3>1. Serving(i) /\ phase'[i] = phase[i] /\ config'[i] = config[i] /\ i # cameras[n]
        BY <1>5, <2>0, <2>2 DEF RemoveCamera, Serving
      <3>2. phase[i] = "live" => config[i].name # n
        BY <1>0, <3>1 DEF Served
      <3>3. phase[i] = "live" => cameras'[config[i].name] = cameras[config[i].name]
        BY <1>0, <1>5, <3>1, <3>2, ConfigParts DEF RemoveCamera, IInv, TypeOK
      <3>4. Kept(i) /\ \A k \in Nat : Made(i, k)' => Made(i, k)
        BY <1>5, <3>1 DEF RemoveCamera, Kept, Made, pathVars
      <3>. QED
        BY <1>0, <1>5, <3>1, <3>3, <3>4, KeptServed DEF RemoveCamera, hookVars
    <2>. QED
      BY <2>1, <2>2 DEF ServedInv
  <1>6. CASE Close
    <2>1. \A i \in Cams : ~Serving(i)'
      BY <1>6, CamsAreNumbers DEF Close, Serving, IInv, LifeInv
    <2>2. \A i \in hooked' : phase'[i] # "none"
      BY <1>6 DEF Close, hookVars, ServedInv, IInv, TypeOK
    <2>. QED
      BY <2>1, <2>2 DEF ServedInv
  <1>7. ASSUME NEW j \in Cams, StopDevice(j) \/ RemovePaths(j) \/ Unregister(j) PROVE ServedInv'
    <2>0. /\ Active(j) /\ phase[j] \notin {"adding", "live"} /\ config[j] \in Configs
          /\ phase'[j] \notin {"none", "adding", "live"}
          /\ \A i \in Cams \ {j} : phase'[i] = phase[i]
      BY <1>7 DEF StopDevice, RemovePaths, Unregister, Become, Active, IInv, TypeOK, LifeInv
    <2>1. \A i \in hooked' : phase'[i] # "none"
      BY <1>7, <2>0 DEF StopDevice, RemovePaths, Unregister, hookVars, ServedInv, IInv, TypeOK
    <2>2. ASSUME NEW i \in Cams, Serving(i)' PROVE Served(i)'
      <3>1. i # j /\ Serving(i) /\ phase'[i] = phase[i] /\ config'[i] = config[i] /\ at' = at /\ hooked' = hooked /\ cameras' = cameras
        BY <1>7, <2>0, <2>2 DEF StopDevice, RemovePaths, Unregister, Serving, bridgeVars, hookVars
      <3>2. /\ config[i].name # config[j].name
            /\ \A p \in Listed(config[j]) : p \notin Listed(config[i])
        BY <1>0, <2>0, <3>1, Apart DEF Serving
      <3>3. Listed(config[i]) \subseteq Paths /\ config[i].name \in Names
        BY <1>0, <3>1, ListedArePaths, ConfigParts
      <3>4. Kept(i)
        BY <1>7, <3>1, <3>2, <3>3 DEF StopDevice, RemovePaths, Unregister, Kept, pathVars
      <3>5. hooks'[config[i].name] = hooks[config[i].name]
        BY <1>7, <3>2, <3>3 DEF StopDevice, RemovePaths, Unregister, hookVars, IInv, TypeOK
      <3>6. \A k \in Nat : Made(i, k)' => Made(i, k)
        BY <3>1 DEF Made
      <3>. QED
        BY <1>0, <3>1, <3>4, <3>5, <3>6, KeptServed
    <2>. QED
      BY <2>1, <2>2 DEF ServedInv
  <1>8. CASE UNCHANGED <<cameras, at, camVars, pathVars, hooks, hooked>>
    <2>1. \A i \in Cams : Serving(i)' => Served(i)'
      BY <1>0, <1>8 DEF Serving, Served, Made, Entered, camVars, pathVars
    <2>. QED
      BY <1>8, <2>1 DEF ServedInv, camVars
  <1>. QED
    BY <1>1, <1>2, <1>3, <1>4, <1>5, <1>6, <1>7, <1>8 DEF Next, Adding, Stopping, Start,
      CloseServers, vars, bridgeVars, hookVars
LEMMA ServiceInvariant == Spec => []SInv
  <1>1. Init => SInv
    <2>. SUFFICES ASSUME Init PROVE SInv
      OBVIOUS
    <2>1. KindInv /\ AloneInv /\ ServedInv
      BY DEF Init, KindInv, AloneInv, ServedInv, Serving
    <2>. QED
      BY <2>1, InitInv DEF SInv
  <1>2. SInv /\ [Next]_vars => SInv'
    BY NextInv, KindNext, AloneNext, ServedNext DEF SInv
  <1>. QED
    BY <1>1, <1>2, PTL DEF Spec

\* Counting by three.
LEMMA Threes ==
  ASSUME NEW m \in Nat
  PROVE  /\ (3 * m + 1) % 3 = 1 /\ (3 * m + 2) % 3 = 2 /\ (3 * m + 3) % 3 = 0
         /\ (3 * m + 3) \div 3 = m + 1 /\ (3 * m + 4) \div 3 = m + 1 /\ (3 * m + 5) \div 3 = m + 1
  OBVIOUS

\* The three entries of the m + 1st profile, and of the alias.
Trio(i, c, m, suffix, profile) ==
  /\ {3 * m + 1, 3 * m + 2, 3 * m + 3} \subseteq 1..EntryCount(c)
  /\ EntryPath(c, 3 * m + 1) = <<c.base, suffix, "">>
  /\ EntryPath(c, 3 * m + 2) = <<c.base, suffix, "twoway">>
  /\ EntryPath(c, 3 * m + 3) = <<c.base, suffix, "twoway">>
  /\ EntryHandler(i, c, 3 * m + 1) = <<i, profile, "">>
  /\ EntryHandler(i, c, 3 * m + 2) = <<i, profile, "twoway">>

LEMMA TrioOfProfile ==
  ASSUME NEW i, NEW c \in Configs, NEW m \in Nat, m + 1 \in 1..Len(c.streams)
  PROVE  Trio(i, c, m, Suffix(c, c.streams[m + 1]), c.streams[m + 1])
  <1>1. Len(c.streams) \in Nat
    BY ConfigParts
  <1>2. 3 * Len(c.streams) <= EntryCount(c) /\ EntryCount(c) \in Nat
    BY EntryCountType
  <1>3. {3 * m + 1, 3 * m + 2, 3 * m + 3} \subseteq 1..(3 * Len(c.streams))
    BY <1>1
  <1>4. /\ EntryProfile(c, 3 * m + 1) = c.streams[m + 1]
        /\ EntryProfile(c, 3 * m + 2) = c.streams[m + 1]
        /\ EntryProfile(c, 3 * m + 3) = c.streams[m + 1]
    BY <1>1, <1>3, Threes DEF EntryProfile
  <1>5. {3 * m + 1, 3 * m + 2, 3 * m + 3} \subseteq 1..EntryCount(c)
    BY <1>1, <1>2, <1>3
  <1>6. /\ EntryPath(c, 3 * m + 1) = <<c.base, Suffix(c, c.streams[m + 1]), "">>
        /\ EntryPath(c, 3 * m + 2) = <<c.base, Suffix(c, c.streams[m + 1]), "twoway">>
        /\ EntryPath(c, 3 * m + 3) = <<c.base, Suffix(c, c.streams[m + 1]), "twoway">>
    BY <1>1, <1>3, <1>4, Threes DEF EntryPath
  <1>7. /\ EntryHandler(i, c, 3 * m + 1) = <<i, c.streams[m + 1], "">>
        /\ EntryHandler(i, c, 3 * m + 2) = <<i, c.streams[m + 1], "twoway">>
    BY <1>4, Threes DEF EntryHandler
  <1>. QED
    BY <1>5, <1>6, <1>7 DEF Trio

LEMMA TrioOfAlias ==
  ASSUME NEW i, NEW c \in Configs, Aliased(c)
  PROVE  Len(c.streams) \in Nat /\ Trio(i, c, Len(c.streams), "", c.preferred)
  <1>. DEFINE m == Len(c.streams)
  <1>1. m \in Nat
    BY ConfigParts
  <1>2. EntryCount(c) = 3 * m + 3
    <2>1. EntryCount(c) = 3 * (m + 1)
      BY DEF EntryCount
    <2>. QED
      BY <1>1, <2>1
  <1>3. {3 * m + 1, 3 * m + 2, 3 * m + 3} \subseteq 1..EntryCount(c)
    BY <1>1, <1>2
  <1>4. ~(3 * m + 1 <= 3 * m) /\ ~(3 * m + 2 <= 3 * m) /\ ~(3 * m + 3 <= 3 * m)
    BY <1>1
  <1>7. (3 * m + 1) % 3 = 1 /\ (3 * m + 2) % 3 # 1 /\ (3 * m + 3) % 3 # 1
    <2>. HIDE DEF m
    <2>. QED
      BY <1>1, Threes
  <1>5. /\ EntryPath(c, 3 * m + 1) = <<c.base, "", "">>
        /\ EntryPath(c, 3 * m + 2) = <<c.base, "", "twoway">>
        /\ EntryPath(c, 3 * m + 3) = <<c.base, "", "twoway">>
    BY <1>4, <1>7 DEF EntryPath
  <1>6. /\ EntryHandler(i, c, 3 * m + 1) = <<i, c.preferred, "">>
        /\ EntryHandler(i, c, 3 * m + 2) = <<i, c.preferred, "twoway">>
    BY <1>4, <1>7 DEF EntryHandler, EntryProfile
  <1>. QED
    BY <1>1, <1>3, <1>5, <1>6 DEF Trio

\* What three entries of a live camera amount to for a request.
LEMMA TrioServes ==
  ASSUME SInv, NEW i \in alone, phase[i] = "live", NEW m \in Nat, NEW suffix, NEW profile,
         Trio(i, config[i], m, suffix, profile)
  PROVE  LET plain == <<config[i].base, suffix, "">>
             twoWay == <<config[i].base, suffix, "twoway">>
         IN /\ Described(plain) = <<i, profile, "">> /\ GetTalk(plain) = 0
            /\ Described(twoWay) = <<i, profile, "twoway">> /\ GetTalk(twoWay) = i
            /\ SetUp(twoWay, TRUE) = <<i, "talk">> /\ SetUp(plain, TRUE) = Described(plain)
  <1>. DEFINE c == config[i]
              plain == <<c.base, suffix, "">>
              twoWay == <<c.base, suffix, "twoway">>
  <1>1. i \in Cams /\ c \in Configs /\ Served(i)
    BY DEF SInv, IInv, TypeOK, LifeInv, ServedInv, Serving
  <1>2. /\ Entered(i, 3 * m + 1) /\ Entered(i, 3 * m + 2) /\ Entered(i, 3 * m + 3)
        /\ EntryPath(c, 3 * m + 1) \in Paths
    <2>1. EntryCount(c) \in Nat /\ {3 * m + 1, 3 * m + 2, 3 * m + 3} \subseteq 1..EntryCount(c)
      BY <1>1, EntryCountType DEF Trio
    <2>2. \A k \in 1..EntryCount(c) : Entered(i, k)
      BY <1>1, <2>1 DEF Served, Made
    <2>3. EntryPath(c, 3 * m + 1) \in Paths
      BY <1>1, <2>1, EntryParts, ListedArePaths
    <2>. QED
      BY <2>1, <2>2, <2>3
  <1>3. /\ streams[plain] = <<i, profile, "">> /\ streams[twoWay] = <<i, profile, "twoway">>
        /\ talks[twoWay] = i /\ plain \in Paths
    <2>1. (3 * m + 1) % 3 # 0 /\ (3 * m + 2) % 3 # 0 /\ (3 * m + 3) % 3 = 0
      BY Threes
    <2>2. /\ streams[EntryPath(c, 3 * m + 1)] = EntryHandler(i, c, 3 * m + 1)
          /\ streams[EntryPath(c, 3 * m + 2)] = EntryHandler(i, c, 3 * m + 2)
          /\ talks[EntryPath(c, 3 * m + 3)] = i
      BY <1>2, <2>1 DEF Entered
    <2>. QED
      BY <1>2, <2>2 DEF Trio
  <1>4. talks[plain] = 0
    BY <1>3 DEF SInv, KindInv
  <1>5. i # 0 /\ \A a, b : <<i, a, b>> # None
    BY <1>1, CamsAreNumbers DEF None
  <1>. HIDE DEF plain, twoWay, c
  <1>6. /\ Described(plain) = <<i, profile, "">> /\ GetTalk(plain) = 0
        /\ Described(twoWay) = <<i, profile, "twoway">> /\ GetTalk(twoWay) = i
    BY <1>3, <1>4, <1>5 DEF Described, GetStream, GetTalk
  <1>7. SetUp(twoWay, TRUE) = <<i, "talk">> /\ SetUp(plain, TRUE) = Described(plain)
    BY <1>3, <1>4, <1>5 DEF Described, SetUp, GetStream, GetTalk
  <1>. QED
    BY <1>6, <1>7 DEF plain, twoWay, c

\* setupCameraStreams and the tables: every announced path of a camera that
\* overlaps with no other leads to it, however other cameras come and go.
THEOREM LiveServedHolds == Spec => []LiveServed
  <1>1. ASSUME SInv, NEW i \in alone, phase[i] = "live"
        PROVE  LET c == config[i] IN
          /\ \A k \in 1..Len(c.streams) :
               LET plain == <<c.base, Suffix(c, c.streams[k]), "">>
                   twoWay == <<c.base, Suffix(c, c.streams[k]), "twoway">>
               IN /\ Described(plain) = <<i, c.streams[k], "">> /\ GetTalk(plain) = 0
                  /\ Described(twoWay) = <<i, c.streams[k], "twoway">> /\ GetTalk(twoWay) = i
                  /\ SetUp(twoWay, TRUE) = <<i, "talk">> /\ SetUp(plain, TRUE) = Described(plain)
          /\ Aliased(c) =>
               /\ Described(<<c.base, "", "">>) = <<i, c.preferred, "">>
               /\ Described(<<c.base, "", "twoway">>) = <<i, c.preferred, "twoway">>
               /\ GetTalk(<<c.base, "", "twoway">>) = i
    <2>. DEFINE c == config[i]
    <2>0. c \in Configs
      BY <1>1 DEF SInv, IInv, TypeOK, LifeInv
    <2>1. ASSUME NEW k \in 1..Len(c.streams)
          PROVE LET plain == <<c.base, Suffix(c, c.streams[k]), "">>
                    twoWay == <<c.base, Suffix(c, c.streams[k]), "twoway">>
                IN /\ Described(plain) = <<i, c.streams[k], "">> /\ GetTalk(plain) = 0
                   /\ Described(twoWay) = <<i, c.streams[k], "twoway">> /\ GetTalk(twoWay) = i
                   /\ SetUp(twoWay, TRUE) = <<i, "talk">> /\ SetUp(plain, TRUE) = Described(plain)
      <3>. DEFINE m == k - 1
      <3>0. Len(c.streams) \in Nat
        BY <2>0, ConfigParts
      <3>1. m \in Nat /\ m + 1 = k
        BY <3>0
      <3>2. Trio(i, c, m, Suffix(c, c.streams[k]), c.streams[k])
        <4>. HIDE DEF m
        <4>1. m + 1 \in 1..Len(c.streams)
          BY <3>1
        <4>. QED
          BY <2>0, <3>1, <4>1, TrioOfProfile
      <3>. HIDE DEF m
      <3>. QED
        BY <1>1, <3>1, <3>2, TrioServes
    <2>2. ASSUME Aliased(c)
          PROVE  /\ Described(<<c.base, "", "">>) = <<i, c.preferred, "">>
                 /\ Described(<<c.base, "", "twoway">>) = <<i, c.preferred, "twoway">>
                 /\ GetTalk(<<c.base, "", "twoway">>) = i
      <3>1. Len(c.streams) \in Nat /\ Trio(i, c, Len(c.streams), "", c.preferred)
        BY <2>0, <2>2, TrioOfAlias
      <3>2. PICK m \in Nat : Trio(i, config[i], m, "", c.preferred)
        BY <3>1
      <3>3. LET plain == <<config[i].base, "", "">>
                twoWay == <<config[i].base, "", "twoway">>
            IN /\ Described(plain) = <<i, c.preferred, "">> /\ GetTalk(plain) = 0
               /\ Described(twoWay) = <<i, c.preferred, "twoway">> /\ GetTalk(twoWay) = i
               /\ SetUp(twoWay, TRUE) = <<i, "talk">> /\ SetUp(plain, TRUE) = Described(plain)
        BY <1>1, <3>2, TrioServes, Zenon
      <3>. QED
        BY <3>3
    <2>. QED
      BY <2>1, <2>2
  <1>2. ASSUME SInv, NEW i \in alone, phase[i] = "live"
        PROVE  LET c == config[i] IN
          /\ cameras[c.name] = i
          /\ Described(TalkPath(c)) = <<i, "talk">> /\ SetUp(TalkPath(c), TRUE) = <<i, "talk">>
          /\ i \in hooked => hooks[c.name] = i
    <2>. DEFINE c == config[i]
                p == TalkPath(c)
    <2>1. i \in Cams /\ c \in Configs /\ Served(i)
      BY <1>2 DEF SInv, IInv, TypeOK, LifeInv, ServedInv, Serving
    <2>2. talks[p] = i /\ talkSDP[p] = i /\ p \in Paths /\ p[3] = "talk" /\ i # 0
      BY <2>1, ListedArePaths, KindsOfPaths, CamsAreNumbers DEF Served
    <2>3. streams[p] = None
      BY <1>2, <2>2 DEF SInv, KindInv
    <2>4. Described(p) = <<i, "talk">> /\ SetUp(p, TRUE) = <<i, "talk">>
      <3>. HIDE DEF p
      <3>. QED
        BY <2>2, <2>3 DEF Described, SetUp, GetStream, GetTalk, GetTalkSDP
    <2>. QED
      BY <1>2, <2>1, <2>4 DEF Served
  <1>3. SInv => LiveServed
    BY <1>1, <1>2 DEF LiveServed
  <1>. QED
    BY <1>3, ServiceInvariant, PTL
=============================================================================
