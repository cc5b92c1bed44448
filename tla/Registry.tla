------------------------------ MODULE Registry ------------------------------
(***************************************************************************)
(* Bridge (pkg/bridge/bridge.go) with the path tables of the RTSP server   *)
(* handler (rtsp.go) and the table of the webhook server (webhook.go).     *)
(*                                                                         *)
(* AddCamera holds b.mu from its first test to the end, but every entry it *)
(* makes is a critical section of its own in the tables.  RemoveCamera     *)
(* holds b.mu only to forget the camera: Camera.stop takes the entries     *)
(* away afterwards, while other cameras come and go.  The tables are keyed *)
(* by path and by name; nothing in them says whose entry is removed.       *)
(*                                                                         *)
(* Cameras are numbered in the order they are added.  A path is            *)
(* <<base, profile, kind>>, a stream handler <<camera, profile, kind>>.    *)
(***************************************************************************)
EXTENDS Integers, Sequences

CONSTANTS
  Configs,    \* camera configurations the program may add
  MaxCams,    \* bound: cameras added in one life of the bridge
  HasWebhook  \* Options.WebhookAddress is set

Profiles == {"main", "sub", "extern"}
Kinds == {"", "twoway", "talk"}
Names == {c.name : c \in Configs}
Cams == 1..MaxCams
Handlers == Cams \X Profiles \X {"", "twoway"}
None == <<0, "", "">>

\* A configuration after ApplyDefaults and Validate; sleepy is letSleep, a
\* battery camera that is not mains powered.
ASSUME ConfigsAssumption ==
  /\ MaxCams \in Nat /\ HasWebhook \in BOOLEAN
  /\ \A c \in Configs :
       /\ c.streams \in Seq(Profiles) /\ c.sleepy \in BOOLEAN
       /\ c.preferred = "" \/ \E k \in 1..Len(c.streams) : c.streams[k] = c.preferred

(***************************************************************************)
(* Paths: setupCameraStreams, talkPathForCamera, twoWayPathForStream.      *)
(***************************************************************************)
Multi(c) == Len(c.streams) > 1
Aliased(c) == Multi(c) /\ c.preferred # ""
Suffix(c, s) == IF Multi(c) THEN s ELSE ""
TalkPath(c) == <<c.base, "", "talk">>

\* A path per profile, and the base path for the preferred talk profile; each
\* of them plain and two-way.
TwoOf(base, suffix) == {<<base, suffix, kind>> : kind \in {"", "twoway"}}
StreamPaths(c) == UNION {TwoOf(c.base, Suffix(c, c.streams[k])) : k \in 1..Len(c.streams)}
AliasPaths(c) == IF Aliased(c) THEN TwoOf(c.base, "") ELSE {}

\* Mutant of Listed: the two-way alias is registered and not noted.
ListedNoAlias(c) == {TalkPath(c)} \cup StreamPaths(c) \cup (AliasPaths(c) \ {<<c.base, "", "twoway">>})

\* cam.paths: what Camera.stop removes.
Listed(c) == {TalkPath(c)} \cup StreamPaths(c) \cup AliasPaths(c)

PathsOf(c) == {TalkPath(c)} \cup UNION {TwoOf(c.base, s) : s \in Profiles \cup {""}}
Paths == UNION {PathsOf(c) : c \in Configs}

\* The k-th entry setupCameraStreams makes for camera i: three per profile,
\* three more under the base path for the preferred talk profile.
EntryCount(c) == 3 * (Len(c.streams) + IF Aliased(c) THEN 1 ELSE 0)
EntryProfile(c, k) ==
  IF k <= 3 * Len(c.streams) THEN c.streams[(k + 2) \div 3] ELSE c.preferred
EntryPath(c, k) ==
  <<c.base,
    IF k <= 3 * Len(c.streams) THEN Suffix(c, EntryProfile(c, k)) ELSE "",
    IF k % 3 = 1 THEN "" ELSE "twoway">>
EntryHandler(i, c, k) == <<i, EntryProfile(c, k), IF k % 3 = 1 THEN "" ELSE "twoway">>

VARIABLES
  server,    \* b.started and b.server: "new", "up", "closed"
  closed,    \* b.closed
  cameras,   \* b.cameras: name -> camera, 0 if there is none
  adding,    \* the camera whose AddCamera holds b.mu, 0 when b.mu is free
  at,        \* how far that AddCamera is: 0 webhook, k entry k is next
  config,    \* the configuration each camera was added with
  phase,     \* the life of each camera
  closing,   \* the cameras Close stops, one after another
  streams,   \* rtspServerHandler.streams: path -> handler
  talks,     \* rtspServerHandler.talks: path -> the camera whose publisher it is
  talkSDP,   \* rtspServerHandler.talkSDP
  hooks,     \* webhookServer.cameras: name -> camera
  listener,  \* the webhook's HTTP listener: "down", "up", "closed"
  hooked,    \* cameras whose event watcher was given a webhook URL
  alone      \* history: cameras that share no name or path with another one
             \* that had not been stopped completely when either was added

bridgeVars == <<server, closed, cameras, adding, at>>
camVars == <<config, phase, closing, alone>>
pathVars == <<streams, talks, talkSDP>>
hookVars == <<hooks, listener, hooked>>
vars == <<bridgeVars, camVars, pathVars, hookVars>>

\* "removed": forgotten by b.cameras; "quiet": cancelled, its device closed;
\* "unlisted": its paths are removed; "stopped": Camera.stop has returned.
Phases == {"none", "adding", "live", "removed", "quiet", "unlisted", "stopped"}
Active(i) == phase[i] \notin {"none", "stopped"}

NoConfig == [name |-> "", base |-> "", streams |-> <<>>, preferred |-> "", sleepy |-> FALSE]

Init ==
  /\ server = "new" /\ closed = FALSE /\ adding = 0 /\ at = 0
  /\ cameras = [n \in Names |-> 0]
  /\ config = [i \in Cams |-> NoConfig] /\ phase = [i \in Cams |-> "none"]
  /\ closing = {} /\ alone = {}
  /\ streams = [p \in Paths |-> None]
  /\ talks = [p \in Paths |-> 0] /\ talkSDP = [p \in Paths |-> 0]
  /\ hooks = [n \in Names |-> 0] /\ listener = "down" /\ hooked = {}

(***************************************************************************)
(* Start, AddCamera.                                                        *)
(***************************************************************************)
\* A server that cannot listen leaves the bridge as it was.
Start ==
  /\ adding = 0 /\ ~closed /\ server = "new"
  /\ server' = "up"
  /\ UNCHANGED <<closed, cameras, adding, at, camVars, pathVars, hookVars>>

Overlap(c, d) == c.name = d.name \/ Listed(c) \cap Listed(d) # {}

\* Mutant of AddCamera: the dedicated talk path is an alias only.
AddCameraNoSDP(i, c) ==
  /\ adding = 0 /\ ~closed /\ server = "up" /\ cameras[c.name] = 0
  /\ phase[i] = "none" /\ \A j \in 1..(i - 1) : phase[j] # "none"
  /\ adding' = i /\ at' = 0
  /\ config' = [config EXCEPT ![i] = c]
  /\ phase' = [phase EXCEPT ![i] = "adding"]
  /\ LET others == {j \in Cams : Active(j) /\ Overlap(config[j], c)} IN
       alone' = IF others = {} THEN alone \cup {i} ELSE alone \ others
  /\ talks' = [talks EXCEPT ![TalkPath(c)] = i]
  /\ UNCHANGED <<server, closed, cameras, closing, streams, talkSDP, hookVars>>

\* AddCamera takes b.mu, passes its tests and registers the talk publisher.
AddCamera(i, c) ==
  /\ adding = 0 /\ ~closed /\ server = "up" /\ cameras[c.name] = 0
  /\ phase[i] = "none" /\ \A j \in 1..(i - 1) : phase[j] # "none"
  /\ adding' = i /\ at' = 0
  /\ config' = [config EXCEPT ![i] = c]
  /\ phase' = [phase EXCEPT ![i] = "adding"]
  /\ LET others == {j \in Cams : Active(j) /\ Overlap(config[j], c)} IN
       alone' = IF others = {} THEN alone \cup {i} ELSE alone \ others
  /\ talks' = [talks EXCEPT ![TalkPath(c)] = i]
  /\ talkSDP' = [talkSDP EXCEPT ![TalkPath(c)] = i]
  /\ UNCHANGED <<server, closed, cameras, closing, streams, hookVars>>

\* A battery camera gets a webhook, if the listener runs or can be started.
AddHook(i) ==
  /\ adding = i /\ at = 0
  /\ at' = 1
  /\ \/ /\ config[i].sleepy /\ HasWebhook /\ listener # "closed"
        /\ listener' = "up"
        /\ hooks' = [hooks EXCEPT ![config[i].name] = i]
        /\ hooked' = hooked \cup {i}
     \/ /\ ~(config[i].sleepy /\ HasWebhook) \/ listener # "up"
        /\ UNCHANGED hookVars
  /\ UNCHANGED <<server, closed, cameras, adding, camVars, pathVars>>

\* Mutant of AddEntry: the loop runs once too often.
AddEntryOneMore(i) ==
  /\ adding = i /\ at \in 1..(EntryCount(config[i]) + 1)
  /\ at' = at + 1
  /\ LET p == EntryPath(config[i], at) IN
       IF at % 3 = 0
         THEN talks' = [talks EXCEPT ![p] = i] /\ UNCHANGED streams
         ELSE streams' = [streams EXCEPT ![p] = EntryHandler(i, config[i], at)] /\ UNCHANGED talks
  /\ UNCHANGED <<server, closed, cameras, adding, camVars, talkSDP, hookVars>>

\* addStream, addTalkAlias.
AddEntry(i) ==
  /\ adding = i /\ at \in 1..EntryCount(config[i])
  /\ at' = at + 1
  /\ LET p == EntryPath(config[i], at) IN
       IF at % 3 = 0
         THEN talks' = [talks EXCEPT ![p] = i] /\ UNCHANGED streams
         ELSE streams' = [streams EXCEPT ![p] = EntryHandler(i, config[i], at)] /\ UNCHANGED talks
  /\ UNCHANGED <<server, closed, cameras, adding, camVars, talkSDP, hookVars>>

\* The camera is in b.cameras, AddCamera unlocks b.mu.
AddDone(i) ==
  /\ adding = i /\ at = EntryCount(config[i]) + 1
  /\ adding' = 0
  /\ cameras' = [cameras EXCEPT ![config[i].name] = i]
  /\ phase' = [phase EXCEPT ![i] = "live"]
  /\ UNCHANGED <<server, closed, at, config, closing, alone, pathVars, hookVars>>

(***************************************************************************)
(* RemoveCamera, Close, Camera.stop.                                        *)
(***************************************************************************)
RemoveCamera(n) ==
  /\ adding = 0 /\ cameras[n] # 0
  /\ cameras' = [cameras EXCEPT ![n] = 0]
  /\ phase' = [phase EXCEPT ![cameras[n]] = "removed"]
  /\ UNCHANGED <<server, closed, adding, at, config, closing, alone, pathVars, hookVars>>

Close ==
  /\ adding = 0 /\ ~closed
  /\ closed' = TRUE
  /\ closing' = {i \in Cams : phase[i] = "live"}
  /\ cameras' = [n \in Names |-> 0]
  /\ phase' = [i \in Cams |-> IF phase[i] = "live" THEN "removed" ELSE phase[i]]
  /\ UNCHANGED <<server, adding, at, config, alone, pathVars, hookVars>>

\* Close stops its cameras one at a time; each RemoveCamera has a goroutine.
Turn(i) == i \in closing => \A j \in closing \ {i} : phase[j] \in {"removed", "stopped"}

Become(i, from, to) == phase[i] = from /\ phase' = [phase EXCEPT ![i] = to]

\* cancel and device.Close, the subject of DeviceConn.
StopDevice(i) ==
  /\ Turn(i) /\ Become(i, "removed", "quiet")
  /\ UNCHANGED <<bridgeVars, config, closing, alone, pathVars, hookVars>>

\* removePaths deletes the camera's keys, whoever made the entries.
RemovePaths(i) ==
  /\ Become(i, "quiet", "unlisted")
  /\ LET gone == Listed(config[i]) IN
       /\ streams' = [p \in Paths |-> IF p \in gone THEN None ELSE streams[p]]
       /\ talks' = [p \in Paths |-> IF p \in gone THEN 0 ELSE talks[p]]
       /\ talkSDP' = [p \in Paths |-> IF p \in gone THEN 0 ELSE talkSDP[p]]
  /\ UNCHANGED <<bridgeVars, config, closing, alone, hookVars>>

\* unregister deletes the name, whoever is registered under it.
Unregister(i) ==
  /\ Become(i, "unlisted", "stopped")
  /\ hooks' = [hooks EXCEPT ![config[i].name] = 0]
  /\ UNCHANGED <<bridgeVars, config, closing, alone, pathVars, listener, hooked>>

\* The end of Close.
CloseServers ==
  /\ closed /\ \A i \in closing : phase[i] = "stopped"
  /\ server # "closed"
  /\ server' = "closed"
  /\ listener' = IF listener = "up" THEN "closed" ELSE listener
  /\ UNCHANGED <<closed, cameras, adding, at, camVars, pathVars, hooks, hooked>>

Adding == \E i \in Cams : (\E c \in Configs : AddCamera(i, c)) \/ AddHook(i) \/ AddEntry(i) \/ AddDone(i)
Stopping == \E i \in Cams : StopDevice(i) \/ RemovePaths(i) \/ Unregister(i)

Next ==
  \/ Start \/ Adding
  \/ (\E n \in Names : RemoveCamera(n)) \/ Close
  \/ Stopping \/ CloseServers

Spec == Init /\ [][Next]_vars

(***************************************************************************)
(* What a request finds: OnDescribe, OnSetup, and OnPlay's back channel.    *)
(***************************************************************************)
GetStream(p) == streams[p]
GetTalk(p) == talks[p]
GetTalkSDP(p) == talkSDP[p]

\* DESCRIBE prefers the stream, then the talk publisher's own SDP.
Described(p) ==
  IF GetStream(p) # None THEN GetStream(p)
  ELSE IF GetTalkSDP(p) # 0 THEN <<GetTalkSDP(p), "talk">> ELSE None

\* SETUP of a session that has announced something goes to the publisher first.
SetUp(p, announced) ==
  IF announced /\ GetTalk(p) # 0 THEN <<GetTalk(p), "talk">>
  ELSE IF GetStream(p) # None THEN GetStream(p)
  ELSE IF GetTalk(p) # 0 THEN <<GetTalk(p), "talk">> ELSE None

-----------------------------------------------------------------------------
\* The types of the variables.
TypeOK ==
  /\ server \in {"new", "up", "closed"} /\ closed \in BOOLEAN
  /\ cameras \in [Names -> 0..MaxCams] /\ adding \in 0..MaxCams /\ at \in Nat
  /\ config \in [Cams -> Configs \cup {NoConfig}] /\ phase \in [Cams -> Phases]
  /\ closing \subseteq Cams /\ alone \subseteq Cams /\ hooked \subseteq Cams
  /\ streams \in [Paths -> Handlers \cup {None}]
  /\ talks \in [Paths -> 0..MaxCams] /\ talkSDP \in [Paths -> 0..MaxCams]
  /\ hooks \in [Names -> 0..MaxCams] /\ listener \in {"down", "up", "closed"}

\* Camera.stop against every AddCamera in progress: when stop has removed the
\* paths of a camera no path leads to it, and when it has returned no webhook
\* name does; the camera cannot come back by a late entry. Once Close is
\* through, nothing is left in any table.
NoDeadRegistration ==
  /\ \A p \in Paths :
       /\ streams[p] # None => phase[streams[p][1]] \notin {"unlisted", "stopped"}
       /\ talks[p] # 0 => phase[talks[p]] \notin {"unlisted", "stopped"}
       /\ talkSDP[p] # 0 => phase[talkSDP[p]] \notin {"unlisted", "stopped"}
  /\ \A n \in Names : hooks[n] # 0 => phase[hooks[n]] # "stopped"

\* setupCameraStreams and the tables: every path a camera announces leads to
\* it, with the handler of the right profile, the back channel on the two-way
\* paths only and the talk description on the talk path, and its webhook name
\* reports to it, whatever other cameras do meanwhile. This holds for a camera
\* that shares no name or path with one whose Camera.stop had not returned;
\* a camera added again too early may lose its entries to the old one's stop.
LiveServed ==
  \A i \in alone : phase[i] = "live" =>
    LET c == config[i] IN
      /\ cameras[c.name] = i
      /\ \A k \in 1..Len(c.streams) :
           LET plain == <<c.base, Suffix(c, c.streams[k]), "">>
               twoWay == <<c.base, Suffix(c, c.streams[k]), "twoway">>
           IN /\ Described(plain) = <<i, c.streams[k], "">> /\ GetTalk(plain) = 0
              /\ Described(twoWay) = <<i, c.streams[k], "twoway">> /\ GetTalk(twoWay) = i
              /\ SetUp(twoWay, TRUE) = <<i, "talk">> /\ SetUp(plain, TRUE) = Described(plain)
      /\ Described(TalkPath(c)) = <<i, "talk">> /\ SetUp(TalkPath(c), TRUE) = <<i, "talk">>
      /\ Aliased(c) =>
           /\ Described(<<c.base, "", "">>) = <<i, c.preferred, "">>
           /\ Described(<<c.base, "", "twoway">>) = <<i, c.preferred, "twoway">>
           /\ GetTalk(<<c.base, "", "twoway">>) = i
      /\ i \in hooked => hooks[c.name] = i
=============================================================================
