----------------------------- MODULE MediaClock -----------------------------
(***************************************************************************)
(* The clocks of one stream: what runStream (pkg/bridge/stream_run.go)     *)
(* publishes of the frames a camera sends, and with which RTP timestamps:  *)
(* timestampUnwrapper, mediaTimeline, liveEdge, rtpTimestampGuard, the     *)
(* sample counter of the audioPublisher (rtsp.go) and pausing (pause.go).  *)
(*                                                                         *)
(* The camera stamps its video frames with a clock of Word values that     *)
(* wraps, hiccups and is set; its audio carries no time at all.  Time is   *)
(* counted in units: Second of them make a second.                         *)
(***************************************************************************)
EXTENDS Integers

CONSTANTS
  Word,        \* values of a camera timestamp, 2^32
  RtpWord,     \* values of an RTP timestamp, 2^32
  Second, VideoRate, AudioRate,  \* units and RTP ticks of each track per second
  Trusted,     \* maxTrustedVideoDeltaUS
  Fallback,    \* fallbackVideoDeltaUS
  Jump,        \* the guards' 90000 ticks
  MaxLag,      \* liveCatchUp, 0: off
  Samples,     \* units of sound in an audio packet
  Epoch        \* the wall clock at the first frame

\* Bounds and the environment: how far the camera's video and audio may be
\* apart in delivery, slips of its clock and losses, their sizes, the delay of
\* the network, and how long the run lasts.
CONSTANTS MaxSkew, MaxSlips, Hiccups, Gaps, Delays, MaxTime, FirstStamps

ASSUME ClockAssumption ==
  /\ {Word, RtpWord, Second, VideoRate, AudioRate, Trusted, Fallback, Samples, Epoch} \subseteq Nat \ {0}
  /\ {Jump, MaxLag, MaxSkew, MaxSlips, MaxTime} \subseteq Nat
  /\ Fallback <= Trusted
  /\ Hiccups \subseteq Int /\ Gaps \subseteq Nat \ {0} /\ Delays \subseteq Nat
  /\ FirstStamps \subseteq 0..(Word - 1)

\* The widths next to the deltas: a trusted delta is less than half a camera
\* word (4295 seconds), the wall clock more than half of one, the guards' jump
\* less than half an RTP word, a power of 2, and an audio packet counts whole
\* samples.
ASSUME WidthAssumption ==
  /\ 2 * Trusted < Word /\ Word <= 2 * Epoch
  /\ RtpWord >= 4 /\ RtpWord % 2 = 0 /\ 2 * (Jump + 1) <= RtpWord
  /\ (Samples * AudioRate) % Second = 0

VARIABLES
  time,      \* the camera's: of its last frame, and of its last sample
  skew,      \* what its clock is off by
  now,       \* time.Now()
  unwrapper, \* timestampUnwrapper
  timeline,  \* mediaTimeline
  live,      \* liveEdge; edge: wallAnchor - mediaAnchor
  videoRTP, audioRTP, \* rtpTimestampGuard of each track
  nextTimestamp, anchored,  \* audioPublisher
  slips,     \* history: frames after a hiccup or a loss since the audio was anchored
  lost,      \* history: something was lost since the last frame
  withheld   \* history: tracks withheld, video since its last frame published

envVars == <<time, skew, now>>
videoVars == <<unwrapper, timeline, live, videoRTP>>
publisherVars == <<audioRTP, nextTimestamp, anchored>>
history == <<slips, lost, withheld>>
clockVars == <<envVars, videoVars, publisherVars, history>>

Max2(a, b) == IF a > b THEN a ELSE b
Dist(a, b) == IF a > b THEN a - b ELSE b - a

(***************************************************************************)
(* The helpers.                                                             *)
(***************************************************************************)
\* unwrapTimestamp: the value with the low word ts nearest to highest, the one
\* in highest's own epoch first, then the one before, then the one after.
Unwrap(ts, highest) ==
  IF highest = 0 THEN ts
  ELSE LET own == (highest \div Word) * Word + ts
           before == IF own >= Word THEN own - Word ELSE own
           near == IF Dist(before, highest) < Dist(own, highest) THEN before ELSE own
       IN  IF Dist(own + Word, highest) < Dist(near, highest) THEN own + Word ELSE near

\* rtpTimestampForClock
Ticks(t, rate) == ((t * rate) \div Second) % RtpWord

\* rtpTimestampAfter, rtpTimestampBefore: the sign of a difference in RtpWord
Ahead(a, b) == (a - b) % RtpWord
After(a, b) == Ahead(a, b) # 0 /\ Ahead(a, b) < RtpWord \div 2
Before(a, b) == Ahead(a, b) >= RtpWord \div 2

NoGuard == [set |-> FALSE, offset |-> 0, last |-> 0]

\* Mutant of GuardNext: a timestamp seen before is let through.
GuardNextEqual(g, ts) ==
  LET moved == (ts + g.offset) % RtpWord
      next == (g.last + 1) % RtpWord
  IN  IF ~g.set THEN [g EXCEPT !.set = TRUE, !.last = ts]
      ELSE IF Ahead(moved, g.last) < RtpWord \div 2 THEN [g EXCEPT !.last = moved]
      ELSE IF Ahead(g.last, moved) > Jump THEN [g EXCEPT !.offset = (next - ts) % RtpWord, !.last = next]
      ELSE [g EXCEPT !.last = next]

\* rtpTimestampGuard.next: g.last is the timestamp of the frame.
GuardNext(g, ts) ==
  LET moved == (ts + g.offset) % RtpWord
      next == (g.last + 1) % RtpWord
  IN  IF ~g.set THEN [g EXCEPT !.set = TRUE, !.last = ts]
      ELSE IF ts # g.last /\ After(moved, g.last) THEN [g EXCEPT !.last = moved]
      ELSE IF ts = g.last \/ Ahead(g.last, moved) > Jump
           THEN [g EXCEPT !.offset = (next - ts) % RtpWord, !.last = next]
      ELSE [g EXCEPT !.last = next]

\* rtpTimestampGuard.applyBaseToPackets: the timestamp of the first packet and
\* the guard after it; g.last is the end of what was published.
GuardBase(g, base, length) ==
  LET moved == (base + g.offset) % RtpWord
      reset == g.set /\ base = g.last
      back == g.set /\ ~reset /\ Before(moved, g.last)
      far == back /\ Ahead(g.last, moved) > Jump
      first == IF reset THEN base ELSE IF back THEN g.last ELSE moved
  IN  [first |-> first,
       guard |-> [set |-> TRUE, last |-> (first + length) % RtpWord,
                  offset |-> IF reset THEN 0 ELSE IF far THEN (g.last - base) % RtpWord ELSE g.offset]]

(***************************************************************************)
(* A video frame.                                                           *)
(***************************************************************************)
ClockInit ==
  /\ time = [video |-> 0, audio |-> 0] /\ skew \in FirstStamps /\ now = Epoch
  /\ unwrapper = [set |-> FALSE, highest |-> 0, offset |-> 0]
  /\ timeline = [set |-> FALSE, last |-> 0, offset |-> 0, avg |-> 0]
  /\ live = [set |-> FALSE, edge |-> 0, catching |-> FALSE]
  /\ videoRTP = NoGuard /\ audioRTP = NoGuard
  /\ nextTimestamp = 0 /\ anchored = FALSE
  /\ slips = 0 /\ lost = FALSE /\ withheld = {}

Stamp == (time'.video + skew') % Word

\* timestampUnwrapper.unwrap: the first stamp is the wall clock's time.
Continuous == IF unwrapper.set THEN Unwrap(Stamp, unwrapper.highest) ELSE Stamp
Raw == IF unwrapper.set THEN Continuous + unwrapper.offset ELSE now'
UnwrapVideo ==
  unwrapper' = IF unwrapper.set
               THEN [unwrapper EXCEPT !.highest = Max2(Continuous, @)]
               ELSE [set |-> TRUE, highest |-> Stamp, offset |-> now' - Stamp]

\* Mutant of Trust: a gap is trusted however long it is.
TrustGaps(delta) == delta > 0

\* mediaTimeline.video: a delta that cannot be trusted is replaced by the
\* average one; a trusted one moves the average some way towards it.
Trust(delta) == delta > 0 /\ delta <= Trusted

Step == IF timeline.avg > 0 THEN timeline.avg ELSE Fallback
Place == Max2(Raw - timeline.offset, 0)

\* Mutant of Advance: the correction is not carried on.
AdvanceForgets ==
  LET delta == Place - timeline.last IN
  IF ~timeline.set THEN timeline' = [timeline EXCEPT !.set = TRUE, !.last = Place]
  ELSE IF ~Trust(delta) THEN timeline' = [timeline EXCEPT !.last = @ + Step]
  ELSE \E avg \in (IF timeline.avg = 0 THEN {delta}
                   ELSE {a \in 1..Trusted : (timeline.avg <= a /\ a <= delta) \/ (delta <= a /\ a <= timeline.avg)}) :
         timeline' = [timeline EXCEPT !.last = Place, !.avg = avg]

Advance ==
  LET delta == Place - timeline.last IN
  IF ~timeline.set THEN timeline' = [timeline EXCEPT !.set = TRUE, !.last = Place]
  ELSE IF ~Trust(delta)
  THEN timeline' = [timeline EXCEPT !.offset = @ + delta - Step, !.last = @ + Step]
  ELSE \E avg \in (IF timeline.avg = 0 THEN {delta}
                   ELSE {a \in 1..Trusted : (timeline.avg <= a /\ a <= delta) \/ (delta <= a /\ a <= timeline.avg)}) :
         timeline' = [timeline EXCEPT !.last = Place, !.avg = avg]

\* liveEdge.behind: lag counts from the anchor; catching up ends at a keyframe.
Behind(key) ==
  LET edge == now' - Raw
      late == edge - live.edge > MaxLag
      catching == live.catching \/ late
      anchor == ~live.set \/ edge < live.edge \/ (catching /\ key)
  IN  live' = IF MaxLag = 0 THEN [live EXCEPT !.catching = FALSE]
              ELSE [set |-> TRUE,
                    edge |-> IF anchor THEN edge ELSE live.edge,
                    catching |-> live.set /\ catching /\ ~key]

\* The frame is published unless it is behind or the stream paused.
PublishVideo(paused) ==
  IF paused \/ live'.catching
  THEN withheld' = withheld \cup {"video"} /\ UNCHANGED videoRTP
  ELSE /\ videoRTP' = GuardNext(videoRTP, Ticks(timeline'.last, VideoRate))
       /\ withheld' = withheld \ {"video"}

\* The next frame, d units after the one before, with a hiccup of h, and late
\* by what the network makes of it; paused: shouldPause finds no client, or no
\* motion for its timeout.
VideoFrame(d, h, key, delay, paused) ==
  /\ time.video + d <= MaxTime /\ time.video + d <= time.audio + MaxSkew
  /\ h # 0 \/ lost => slips < MaxSlips
  /\ time' = [time EXCEPT !.video = @ + d]
  /\ skew' = skew + h
  /\ now' = Max2(now, Epoch + time'.video + delay)
  /\ slips' = (IF h # 0 \/ lost THEN slips + 1 ELSE slips) /\ lost' = FALSE
  /\ UnwrapVideo /\ Advance /\ Behind(key)
  /\ PublishVideo(paused)
  /\ UNCHANGED publisherVars

\* Video and audio of g units are lost with the connection.
LoseTime(g) ==
  /\ timeline.set /\ slips < MaxSlips /\ lost' = TRUE
  /\ time.video + g <= MaxTime
  /\ time' = [video |-> time.video + g, audio |-> time.audio + g]
  /\ UNCHANGED <<skew, now, videoVars, publisherVars, slips, withheld>>

(***************************************************************************)
(* An audio packet, of the track made for its format.                       *)
(***************************************************************************)
\* audioTimestampForPacket, processAAC, processADPCM: the video clock anchors
\* the first packet published, from then on samples are counted.
AudioPacket(paused) ==
  /\ timeline.set
  /\ time.audio + Samples <= time.video + MaxSkew
  /\ time' = [time EXCEPT !.audio = @ + Samples]
  /\ IF paused \/ live.catching
     THEN /\ withheld' = IF anchored THEN withheld \cup {"audio"} ELSE withheld
          /\ UNCHANGED <<publisherVars, slips>>
     ELSE LET base == IF anchored THEN nextTimestamp ELSE Ticks(timeline.last, AudioRate)
              put == GuardBase(audioRTP, base, (Samples * AudioRate) \div Second)
          IN  /\ audioRTP' = put.guard /\ nextTimestamp' = put.guard.last
              /\ anchored' = TRUE
              /\ slips' = IF anchored THEN slips ELSE 0
              /\ UNCHANGED withheld
  /\ UNCHANGED <<skew, now, videoVars, lost>>

ClockNext ==
  \E paused \in BOOLEAN :
    \/ \E d \in 1..Trusted, h \in Hiccups, key \in BOOLEAN, delay \in Delays : VideoFrame(d, h, key, delay, paused)
    \/ \E g \in Gaps : LoseTime(g)
    \/ AudioPacket(paused)

ClockSpec == ClockInit /\ [][ClockNext]_clockVars

-----------------------------------------------------------------------------
Guards == [set : BOOLEAN, offset : 0..(RtpWord - 1), last : 0..(RtpWord - 1)]

\* The types of the variables.
ClockTypeOK ==
  /\ time \in [video : Nat, audio : Nat] /\ skew \in Int /\ now \in Nat
  /\ unwrapper \in [set : BOOLEAN, highest : Nat, offset : Int]
  /\ timeline \in [set : BOOLEAN, last : Nat, offset : Int, avg : 0..Trusted]
  /\ live \in [set : BOOLEAN, edge : Int, catching : BOOLEAN]
  /\ videoRTP \in Guards /\ audioRTP \in Guards
  /\ nextTimestamp \in 0..(RtpWord - 1) /\ anchored \in BOOLEAN
  /\ slips \in 0..MaxSlips /\ lost \in BOOLEAN /\ withheld \subseteq {"video", "audio"}

\* mediaTimeline and the guards: whatever the camera's clock does, a frame is
\* published after the one before and, unless frames in between were withheld,
\* at most one trusted delta later; audio goes on where it ended, with no
\* step back and no hole.
Published == timeline' # timeline /\ "video" \notin withheld' /\ videoRTP.set
FrameRises ==
  LET rise == Ahead(videoRTP'.last, videoRTP.last) IN
  /\ rise > 0 /\ rise < RtpWord \div 2
  /\ "video" \notin withheld => rise <= (Trusted * VideoRate) \div Second + 1
AudioGoesOn == audioRTP'.last = (audioRTP.last + (Samples * AudioRate) \div Second) % RtpWord
TimestampsRise ==
  [][(Published => FrameRises) /\ (audioRTP' # audioRTP /\ audioRTP.set => AudioGoesOn)]_clockVars

\* mediaTimeline and the sample counter: from the anchor on the tracks stay
\* together: a sample lies on the audio track where the frame of its time lies
\* on the video track, up to the delivery skew and less than one trusted delta
\* per frame that came after a slip of the camera's clock or a loss. Samples withheld while the stream paused or
\* caught up are not counted: the claim ends with the first of them.
Drift == Ahead(nextTimestamp, Ticks(timeline.last + time.audio - time.video, AudioRate))
Signed(x) == IF x < RtpWord \div 2 THEN x ELSE x - RtpWord
Tolerance == ((MaxSkew + slips * (Trusted - 1)) * AudioRate) \div Second + 1
TracksTogether ==
  anchored /\ "audio" \notin withheld => -Tolerance <= Signed(Drift) /\ Signed(Drift) <= Tolerance
=============================================================================
