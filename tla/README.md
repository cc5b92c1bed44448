# reolinkproxy: formal models, model checks and proofs

reolinkproxy speaks Reolink's Baichuan protocol to cameras and serves their
streams over RTSP. This directory holds TLA+ models of the parts in which
goroutines, locks, callbacks and an unreliable network meet, the TLC
configurations that check them on small instances, and TLAPS proofs of the
properties of the core. Paths below are relative to the repository.

## The system

| Component | Code | State it keeps | Operations | Talks to |
|---|---|---|---|---|
| Shared camera connection | `pkg/bridge/device.go` | `cameraDevice`: the client, the lock `mu`, queued connection states, privacy, transport preference | `Ensure`, `WithClient`, `ResetIfCurrent`, `Close`, `notifyState`, the loops `StreamPackets`, `WatchEvents` | client, events (callback), stream pipeline (channel), talk pipeline |
| Baichuan client | `pkg/baichuan/client.go`, `message.go`, `media.go` | pending requests, subscriptions, message numbers, keep-alive times, close error | `Dial`, `Login`, `sendRequest`, `Subscribe`, `StartPreview`, `CloseWhenIdle`, `Close` | a transport: TCP or UID |
| UID transport | `pkg/baichuan/uid.go`, `udp.go` | send and receive windows, two queues | `dialUIDLocal`, `Read`, `Write`, `Close`, `readLoop`, `writeLoop` | camera over UDP |
| Talkback | `pkg/bridge/talk_rtsp.go`, `talk_pipeline.go`, `pkg/baichuan/talk.go` | the active bridge and its reference count, packet queue, talk session | `startBridge`, `release`, `enqueueTalkPCM`, `run`, `StartTalk`, `WriteADPCMBlock`, `Close` | RTSP sessions, device |
| Camera events | `pkg/bridge/events.go`, `webhook.go`, `pkg/baichuan/motion.go` | last reported states, merged alarm state | `handleAlarm`, `handleSleep`, `OnConnection`, `handleWebhookPush`, `AlarmMerger` | device, HTTP pushes of the camera, the embedding program |
| Bridge and registry | `pkg/bridge/bridge.go`, `rtsp.go` | cameras by name, streams and talk publishers by path | `AddCamera`, `RemoveCamera`, `Close`, `addTalk`, `removePaths` | all of the above |
| Stream pipeline | `pkg/bridge/stream_run.go`, `rtsp.go`, `pause.go` | RTSP stream with mirrors and clients, audio publisher, timestamps | `runStream`, `setReady`, `reset`, `addClient`, `shouldPause` | device, RTSP sessions |
| Discovery, controls, codecs, wire formats, commands | the rest of `pkg/`, `cmd/` | nothing that outlives a call | | |

### What is hard about it

* *One connection, many users.* Streams, the event watcher, talk pipelines and
  API calls share one client. Each of them notices a broken connection at a
  different time and may replace it, while `Camera.stop` ends the device.
* *Callbacks outside locks.* Connection states, alarms and talk bridges are
  decided under a lock and acted on after it.
* *Datagrams.* The UID transport builds a byte stream on UDP.
* *One talk slot.* The camera has a single talk session; two pipelines may live
  for a moment while one bridge replaces another.
* *Everything reconnects.* Refusals, time-outs, idle closes and losses are
  normal, so liveness matters as much as safety.

### What makes each component correct

* Connection: no connection without an owner; a late report never drops a newer
  connection; states reach the callback in order; streams recover; after the
  removal of the camera its loops end and do not reconnect.
* UID transport: an exact byte stream in both directions until the session ends;
  nobody stops repeating what the other side lacks.
* Talkback: exact reference counts, speech in order, a pipeline and the camera's
  talk session end with the last session.
* Events: the last state reported is the state the camera is in; one press, one
  doorbell event.
* Registry: a path or webhook name leads to the camera that announced it, and
  to none that was stopped.
* Client: an answer reaches the request it answers and no other; the first
  reason of an end stands; a dead link releases whoever waits.
* Streams: a session gets the codec it was set up with; audio that starts late
  is carried in the end; the sessions decide whether a preview runs; timestamps
  rise and the two tracks stay together.

## Modules

| Module | Models | Kind |
|---|---|---|
| `DeviceConn` | `cameraDevice` with its users | detailed |
| `OrderedNotify` | what the device promises of connection states | abstract |
| `UidTransport` | `uidSession`, client, camera and network | detailed |
| `ByteStream` | what the client relies on | abstract |
| `TalkBridge` | publisher, sessions, pipelines, talk sessions, the camera's slot | detailed |
| `EventDispatch` | listeners, webhook pushes, merging, dispatch to the program's handlers | detailed |
| `ClientRpc` | requests, answers, message numbers and login of a client | detailed |
| `ClientLife` | loops and shutdown of a client | detailed |
| `Registry` | `Bridge`, the path tables of the RTSP server, the webhook table | detailed |
| `StreamSession` | the pipeline of one stream, its handlers, its idle gate, RTSP sessions | detailed |
| `MediaClock` | camera, audio and RTP clocks of one stream | detailed, pure helpers |
| `MCDeviceConn`, `MCEventDispatch`, `MCRegistry`, `MCMediaClock` | symmetry, alarm states, configurations, clock hiccups for TLC | model checking |
| `DeviceConnProofs`, `UidTransportProofs`, `TalkBridgeProofs`, `EventDispatchProofs`, `ClientRpcProofs`, `ClientLifeProofs`, `RegistryProofs` | theorems about the module of that name | proofs |
| `StreamProofs` | theorems about `StreamSession` and `MediaClock`, which share no variable | proofs |

In every module a definition named `...Shifted`, `...OffByOne`, `...Twice` and the
like, marked "Mutant of" in its comment, stands before the action it distorts.
No specification uses it: substituting it for that action shows that the
property named in `PROJECT.json` notices the bug.

The modules meet at narrow seams. `DeviceConn` takes from `ClientLife` that a
connection ends with one reason, and from `ClientRpc` that a login has one
outcome; `ClientRpc` takes from `ByteStream` that messages arrive whole and in
order. `StreamSession` takes a preview that may end at any moment from
`DeviceConn`, leaves the time of what it publishes to `MediaClock`, and its
handlers are the values of `Registry`'s path table. `TalkBridge` sits behind the
publishers of that table. `EventDispatch` keeps the motion state the pause
logic reads.

### DeviceConn

Connections are numbered as they are dialled; `err` holds the close error of
each (`open`, `lost`, `idle`, `closed`). `pc[p]` says where a user is: `top` of
its loop, waiting for `m.mu` (`ensure`), holding it (`dial`, `login`), with the
client in hand (`have`), using it (`use`), about to reset it. An action is one
critical section of `m.mu`, one answer of the network or one step of the
goroutine `notifyState` starts. `EnsureLock` to `LoginOk`/`LoginFail` is the one
critical section with time inside, so `mu` is a variable.

The roles differ in what they do with the client and in their context: `Streams`
and `Watchers` run under the camera's context, `Talkers` under
`context.Background`, `Callers` under their caller's. `healing` marks talkers in
the error path of `WriteADPCMBlock`, which resets whatever connection `Ensure`
returns there. `queued`, `told` and `latest`, the connection that was the client
last, are history variables.

### UidTransport

A packet id stands for its payload. Every datagram class is a set (a message is
there or not; taking it may leave it: duplicates), so order is arbitrary. The
read loop keeps `recv` (`recvPackets`), `next` (`consumedID + 1`) and the chunks
it is handing over; the write loop keeps `sent`, `nextID` and the packet it has
sent and not stored yet. The camera's side is external: it repeats until
acknowledged and acknowledges what it has.

### TalkBridge

Bridges are numbered; `active`, `refs` and `once` are the publisher's state,
`leaving` the session between `release`'s unlock and `close`. A pipeline's place
is one of `wait`, `ask`, `reset`, `askAgain`, `opened`, `bridge`, `flush`,
`closing`, `ended`; `slot` is the talk session the camera has. A request whose
answer is lost may have taken effect.

### EventDispatch

A goroutine (a listener, a POST, the one that delivers connection states, the
program's own) has a list of steps left, `todo[w]`; an action takes the first: a
critical section of `AlarmMerger.mu` or of `events.mu`, or a call of a handler,
which the code makes outside every lock. `last` is the state `cameraEvents`
remembers, with `{}` for nil. `reports` and `told` are histories of what was
decided under the lock and what the program heard. `raced` becomes true when a
state is decided while another goroutine has one still to deliver: the code then
lets two calls overtake each other, so the properties about the last word exclude
it and `EdgesToldOnce` does not. `lone` marks the event "sleep" with no other push
beside it, for the same reason; a sleep state in XML (cmd 145) resets nothing in
the code and is a `Flag` alone.

### ClientRpc and ClientLife

The client is split along what its properties need. `ClientRpc` has the numbers,
the table of pending requests and the response channels. Numbers wrap; an answer
on its way carries the caller it is for and its age in reserved numbers, and
`Room` is the one assumption: a number is not used again for a kind of request
before an open request or a late answer of that kind with that number is gone
(65,535 numbers in the code). Reserving the number and registering the channel
are two critical sections in the code and one action here: nobody else knows
the number in between. `ClientLife` has the read loop, keep-alive loop, idle
loop, media reader and `Close`, the four steps of `shutdown`, and callers that
wait without a time-out. `heard` stands for `lastRead > sentAt` at the moment a ping
that failed is judged.

### Registry

`AddCamera` holds `b.mu` over everything it does, so `adding` names the camera
whose call that is and `at` how far it has come; but each entry it makes
(`AddHook`, `AddEntry`) is a critical section of its own in the table and an
action. `RemoveCamera` holds the lock only to forget the camera; `Camera.stop`
follows outside of it in three steps (`StopDevice`, `RemovePaths`,
`Unregister`), while other cameras are added. `Close` stops the cameras one
after another in any order. The tables are keyed by path and name alone, and so
are the removals. `GetStream`, `GetTalk`, `GetTalkSDP`, `Described` and `SetUp`
are what a DESCRIBE or SETUP finds. `alone` is a history variable: cameras that
never shared a name or path with one that had not been stopped completely.
Paths are triples, a configuration is taken after `ApplyDefaults` and
`Validate`; a profile may occur twice in it, as in the code.

### StreamSession

The pipeline (`pc`) takes one packet at a time: `Frame` up to its first step on
a handler, then `MirrorReset`, `AfterReset`, `ExposeMirror`, because a session
may come between the main handler and its two-way mirror. `Decide` is the switch
of `runStream` in its order: expose, drop a track that was only declared, rebuild
for late audio, or write the frame. `track` is the format the audio publisher's
media was made for, `carried` the state of a track carried over from the last
run, `stream[h]` what the handler's `ServerStream` carries; `stale` means an
audio media the publisher has replaced. An RTSP session waits for a stream twice
(DESCRIBE and SETUP), is given one (`found`) and is added to its readers by the
library afterwards (`ready`); `clients` are the ones that play. `Gate` is the
idle gate together with the preview it starts and stops. `crashed` is the end of
the program by a nil encoder.

### MediaClock

Time is counted in units; the camera's stamp is that time, off by `skew`, in a
small word that wraps. `Unwrap`, `GuardNext` and `GuardBase` are the code's pure
helpers with the widths as constants; `UnwrapVideo`, `Advance` and `Behind` are
`timestampUnwrapper`, `mediaTimeline` and `liveEdge`. The moving average is any
value between the old one and the new delta. A frame comes with a step, a hiccup
of the camera's clock and a network delay; audio carries no time at all. `slips`
and `lost` are histories of the frames that came after a hiccup or a loss,
`withheld` of what was not published: a loss counts with the frame that meets
it, which may come after the audio was anchored. `WidthAssumption` states what the
real widths give by far: a trusted delta (0.5 s) is less than half a camera word
(71 minutes), the wall clock is past half a word, an RTP word is a power of two
and over twice the guards' 90000 ticks, a packet counts whole samples. The
definitions that other modules name too carry the prefix `Clock`, so that one
module can prove about both halves of the pipeline.

## Runs

| Run | Shows | Instance |
|---|---|---|
| `device` | `NoLeak`, `StatesInOrder`, `StateMatchesClient`, `ResetsOwnFailure`, `NoReconnectAfterStop` | one stream, one talker, one caller, two possible deliverers, two dials |
| `device_live` | `StreamRecovers`, `LoopsEnd`, implements `OrderedNotify` | one stream, one watcher, two dials |
| `uid` | `InOrder`, `WindowsKept` | 3 packets in, 2 out, queues of 1, both overflow limits reached |
| `uid_live` | implements `ByteStream`; `TrafficSettles` | 2 packets in, 1 out |
| `talk` | `HeldOrClosing`, `InOrder`, `SlotTakenOnlyAtHandover`, `ReleasedBridgeEnds` | two sessions; one bridge and three packets, or two bridges and two; a queue of 2 |
| `events` | `EdgesToldOnce`, `SettlesUnlessRaced`, `WebhookStateShown`, `SleepEndsEvents` | two listeners, one POST at a time, one AI type, three pushes or connection changes, a late connection handler |
| `client_rpc` | `AnswersOwn`, `AnswerReachesWaiter`, `NoStalePending` | three callers, three numbers, two late answers |
| `client_life` | `FirstReasonKept`, `DeadLinkReleases`, `CloseEndsAll` | one caller, three ping failures, TCP and UDP |
| `registry` | `NoDeadRegistration`, `LiveServed` | three cameras in one life of the bridge, out of three configurations: a battery camera, one with two streams and a talk alias, one that shares the path of the first |
| `session` | `GetsWhatWasOffered`, `LateAudioCarried`, `InterestDecides` | one session, on the main or the two-way path; AAC of 8000 Hz and ADPCM; with and without a track carried over; idling and pausing on |
| `audio_switch` | violated: `CorrectsItself`, an audio track of the wrong codec ends the program | as `session`, with AAC of other parameters, no idling |
| `clock` | `TracksTogether`, `TimestampsRise` | camera clock of 16 values, RTP clock of 32, six units of time, one slip |

Type invariants are checked by the runs whose properties need no other reason to
fail (`device`, `talk`, `events`, `client_rpc`, `registry`, `session`, `clock`)
and proved for every module whose `TypeCorrect` is in the table of proofs below.

Every run bounds only what would grow for ever: dials, packets, bridges, cameras,
time. Two dials are enough for "the connection that replaced the broken one":
`StreamRecovers` demands the preview on the second connection as well as on the
first, and lets a stream off only when that one has ended too and none can follow
(`DialsUsedUp`). With three users each pair of roles meets, and every role has the
same lock protocol. Two dials also give an idle close, a new connection and its
loss, which must be announced (`StateMatchesClient`).
The UID transport's queues of one reach full and empty; a window limit of one
reaches the overflow branch, and a send limit of zero reaches it with two packets
out. Three datagrams are the fewest with a gap, a packet behind it and one
consumed before. In talkback a queue of two and three packets are the fewest with
two packets in the queue after an overflow. Two bridges are the fewest for a
hand-over; a behaviour with two of them has two packets (`HandoverPackets`), one
for each pipeline, since every bridge has a queue of its own. Three inputs give an event its start,
its end and a disturbance from another goroutine. Three numbers wrap while a
request waits and an older answer is on its way. Callers of `ClientLife` do not
know of each other, so one is enough; nor do RTSP sessions, which meet the
pipeline only in `clients`, where one session that stays and one that was cut
off can be the same one at two times. Three cameras are one being stopped, one
added in its place and one beside them. The
clocks start a few values before the wrap of the camera's word and of both RTP
words, so six units of time reach the wraps, a gap, a hiccup over half a word,
catching up and a pause. `CHECK_DEADLOCK FALSE` stands where the
system really stops: after the removal of the camera, after the end of a
session, of the bridge or of the program, when all bounded traffic is through.

### Fairness

* `sync.Mutex` does not starve a waiter: strong fairness for whoever wants `m.mu`.
* Weak fairness for each user's next step, whatever its outcome. Dials, logins
  and pauses have time-outs. The start of a preview (`device.go:355`) has none:
  there the assumption is that the camera answers or the connection ends, and
  `DeadLinkReleases` shows the latter for a dead link on which pings run.
* In `ClientLife` pings come and time out, every loop goes on, a closed
  transport fails the read; a call may wait for ever and the camera owes nothing.
* Go's `select` picks fairly among ready cases: strong fairness where a ready
  queue and a ready ticker compete, and where a context that is done for ever
  competes with packets.
* A camera that is asked again and again answers at last, a datagram repeated
  for ever gets through (`CameraAnswers`, `NetworkFairness`): assumptions about
  the world, without which no reconnecting program recovers.
* In `StreamSession` the pipeline finishes a step it began, the device's loop
  asks the gate (a ticker of one second, `device.go`), and the windows of time
  end: weak fairness. A camera whose preview runs again and again sends a keyframe
  with its parameter sets again and again: strong fairness, since previews end. A
  request polls every 100 ms whether the stream is there: strong fairness, since
  a stream is reset and comes back. The library adds a session it was given a
  stream for, and closes one that was cut off.
* Nothing is assumed of when RTSP sessions come, play or leave, of API callers or
  of the moment of a loss.

## Proofs

Every theorem holds for any values of the constants that satisfy the named
assumptions of its module, and follows the same plan: an inductive invariant, a
lemma per group of actions that keeps it, and one temporal step.

| Module | From | Theorems |
|---|---|---|
| `DeviceConnProofs` | `DialsAssumption`, `RolesAssumption` | `TypeCorrect`, `NoConnectionLeaks`, `StatesDeliveredInOrder`, `StoppedStaysClosed`, `StatesMatchTheClient`, `LateReportsAreHarmless`, `NotifiesInOrder` |
| `UidTransportProofs` | `BoundsAssumption` | `TypeCorrect`, `ChunksInOrder`, `NothingForgotten`, `InboundIsByteStream` |
| `TalkBridgeProofs` | `SizesAssumption`, `SessionsAssumption` | `TypeCorrect`, `NobodyForgotten`, `SpokenInOrder`, `SlotTakenLate` |
| `EventDispatchProofs` | `WorkersAssumption`, `HandlersAssumption`, `AlarmsAssumption`, `MaxInputsAssumption` | `TypeCorrect`, `EdgesTold`, `SettlesInOrder`, `WebhookShown`, `SleepEndsThem` |
| `ClientRpcProofs` | `NumbersAssumption`, `NoneAssumption` | `TypeCorrect`, `AnswersReachTheirOwn`, `AnswersReachWaiters`, `TableHasNoLeftovers` |
| `ClientLifeProofs` | `PingsAssumption` | `TypeCorrect`, `FirstReasonStands` |
| `RegistryProofs` | `ConfigsAssumption` | `TypeCorrect`, `NoDeadRegistrationHolds`, `LiveServedHolds` |
| `StreamProofs` | `SessionAssumption`; for the clocks `ClockAssumption`, `WidthAssumption` | `TypeCorrect`, `OfferedCodec`; `ClockTypeCorrect`, `ClockRises`, `ClockTogether` and the helpers' `UnwrapGoesOn`, `GuardRises` |

Why the properties alone are not inductive, and what is added:

* `NoLeak`: a login that succeeds replaces `client`, which leaks nothing only if
  there was none. `MutexInv` adds what the lock gives: whoever dials or logs in
  holds `mu`, and while it is held there is no client.
* `StatesInOrder`: `DrainInv` ties `stateDraining` to the one running goroutine
  and says that the others carry nothing.
* `NoReconnectAfterStop`: `StopInv` says that once the owner has stopped the
  device, whoever is still dialling is not one of the loops under the camera's
  context: `Close` waited for `mu`.
* `StateMatchesClient`: `MatchInv` adds that the client is the connection announced
  last, that a connection number not dialled yet has no error and that an idle close
  stays one. `ResetsOwnFailure`: `SeenInv` says
  that whoever is about to reset a connection saw that one fail, or is on one of
  the two paths the property names.
* `NotifiesInOrder`: `CarryInv` says that a deliverer carries one state at most, so
  that each of its calls is one `Tell` of `OrderedNotify`.
* `SleepEndsEvents`: `Stage` says how far the goroutine of the sleep push is and what
  it has done by then; all others are idle, except the program's own when it
  replays a connection state.
* `EdgesToldOnce`: `ListInv` describes the steps a goroutine may have left as a list
  in which every step has a rank and the ranks rise, so that a goroutine has a call
  at most once and a step that is taken is gone; `LastInv` says that what the
  dispatcher remembers is the last report, so that an edge under the lock is an
  edge in the history. What is called and what is still to be called are counted
  together, which is why the goroutines must be finitely many.
* `SettlesUnlessRaced` and `WebhookStateShown`: `OrderInv`, `PauseInv`, `LinkInv` and
  `HookInv` say for each listener of the events what it has or is about to be told.
  Each of them needs that nothing older was pending when a state was decided, which
  is what `~raced` says; `HookInv` allows for a sleep push that has yet to reset the
  merger and for a second POST that has merged more.
* `UidTransport!InOrder` (both directions) and `WindowsKept`: the datagrams on their way have to be
  described too. `PacketInv` says that every packet carries the chunk of its
  number, `QueueInv` how the queue continues the numbers, `AckInv` and
  `CamAckInv` that no ack on its way, however old, covers more than its sender
  has, `NumberedInv` where a numbered packet is until the camera has it.
  `InboundIsByteStream` maps every step of the session to a step of `ByteStream`
  or a stutter.
* `HeldOrClosing`: `LeaveInv` says that a session that holds a bridge is not
  leaving one. The counts are cardinalities, so the sessions must be finite.
* `TalkBridge!InOrder`: `SaidInv` describes what is written, in the pipeline's
  hand and queued as one sequence, and says of each session that what it is about
  to queue is younger than everything of it in there, which is what dropping the
  oldest packet of a full queue must not disturb.
* `SlotTakenOnlyAtHandover`: `OneOpenInv` says that the only bridge whose close has
  not begun is the active one.
* `ClientRpc`: `KeyInv` and `OwedInv` say how many reservations ago a number was
  given out (`Since`), so that `Room` keeps a number from being used twice, and
  whom a late answer belongs to. `NoStalePending`, `AnswersOwn` and
  `AnswerReachesWaiter` then hold together, and only together.
* `FirstReasonKept`: the reason is set exactly when the shutdown has begun, and
  nobody begins a second one.
* `NoDeadRegistration`: `EntryInv` says that every entry is in the list of a
  camera whose stop is still to come. `LiveServed` needs the converse for cameras
  that are alone: `AloneInv` (nobody else who is not stopped overlaps),
  `ServedInv` (every entry made so far is there), `KindInv` (which tables a path
  may be in), and lemmas that two entries of a configuration meet at a path only
  if they are the same.
* `GetsWhatWasOffered`: `OfferInv` extends it to sessions the library has not
  added yet, and says when exactly a session of the mirror is behind: while a
  codec change has reset the main handler and not yet its mirror.
* `TimestampsRise`: `VideoInv` says that what was published trails the corrected
  clock by the jump and one at most, so that the guard lets a frame through at its
  own time or one tick on, and the rise is the clock's advance. `CounterInv`: the
  sample counter and the guard of the audio know the same end.
* `TracksTogether`: `LinkInv` says where the last frame lies in the unwrapped time:
  within half a word below the highest stamp, so that the next one, a trusted delta
  on, is unwrapped next to it (`UnwrapGoesOn`), and that the corrected time is
  never clamped at zero. `DriftInv` names the time the audio has reached and keeps it
  next to the time the video shows of the same moment; only a frame after a
  slip or a loss moves one against the other. Both rest on lemmas on quotients and
  remainders of any divisor, which the library does not have.

Only model-checked: everything with fairness (`StreamRecovers`, `LoopsEnd`,
`TrafficSettles`, `ReleasedBridgeEnds`, `DeadLinkReleases`, `CloseEndsAll`,
`LateAudioCarried`, `InterestDecides` and the refinements with their liveness),
since temporal logic with fairness is beyond the prover.

## What the models show of the code

The run `audio_switch` is a divergence between the code and what the repository
says of it, quoted with its lines in `PROJECT.json`: ADPCM on a track declared or
made as AAC, or AAC of 8000 Hz mono on a PCMA track, uses an encoder that is nil.

The other properties hold, and say themselves where they end. What they end at
is in the code, and the passing runs contain it:

* A refused stop of an idle stream's preview resets the shared connection
  (`device.go:480`), and the error path of a talk write resets whatever connection
  `Ensure` returns (`device.go:881`): `ResetsOwnFailure` excepts both by name.
* A session that starts its back channel between the unlock of `release` and the
  `close` of the bridge feeds a closed bridge and stays mute.
* `recvPackets` keeps late duplicates of consumed packets, which count towards the
  limit that ends the session.
* A camera added again before `Camera.stop` of its predecessor has returned may
  lose its paths and its webhook registration to it (`alone`).
* `rebuildAsked` is never cleared: a second change of the audio track under an
  exposed stream leaves it mute (`changes`).
* A rebuild, and the drop of a track that never came, end with `continue` after
  the reset: the keyframe they waited for is dropped and the session is exposed
  again at the frame after it, though `stream_run.go:284` wants it to start
  decodable. The drop also happens when audio did come and was withheld by a pause.
* Audio withheld by a pause or while catching up is not counted, so the tracks are
  apart afterwards (`withheld`).
* Two deliveries of an event may overtake each other (`raced`, `lone`).

## Not modelled

Byte and XML formats, encryption, codecs and resampling are data, covered by the
repository's unit tests; so are SDP text and the division of frames into RTP
packets. Discovery and single camera controls keep no state; a control's effect
on the connection is the `Callers` role. Configuration and commands are parsing
and wiring. Time is abstracted to the order of events, except in `MediaClock`:
that a pause lasts 30 s is not stated anywhere.

Of the modelled parts are left out:

* device: privacy waits and the battery set-up of `watchLowPower`, which need the
  event listener of the connection the loop itself holds; the choice between TCP
  and UID;
* UID transport: the handshake and the heartbeat; `Read`'s division of a chunk;
* client: which messages a full subscription loses, and how a media reader finds
  its way back into the stream; writes that block in a full socket buffer;
* events: battery pushes, audio hints and spotlight states, which follow the
  pattern of `handleSleep`; the renewal of the alarm subscription;
* registry: motion and state queries, authentication, the RTSP library;
* streams: a mirror that fails to initialise, the write queue of a slow reader,
  a DESCRIBE that reads the description of a stream whose formats a codec change
  has already cleared (`stream_run.go:183`): `StreamSession` takes the codec at
  SETUP for what the session was offered.
