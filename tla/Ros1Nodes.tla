----------------------------- MODULE Ros1Nodes -----------------------------
(***************************************************************************)
(* The ROS 1 nodes (src/ros1/src): talker1 turns the azimuths of the older *)
(* SDK into polar images on /Navtech/Polar and its configuration into      *)
(* parameters of the server; one of Mobile_Platform, RosToColraw and       *)
(* Movement-Detector takes the images.  (The detector subscribes to        *)
(* talker1/Navtech/Polar, which nothing publishes: it runs here with that  *)
(* topic remapped.)                                                        *)
(*                                                                         *)
(* A column of an image is the turn of the radar that painted it, 0 before *)
(* any; its size is that of its configuration.  What OpenCV computes from  *)
(* the pixels is left out; the sizes it insists on are not.  Any azimuth   *)
(* may get lost: in the framing of the older SDK or in its queue.          *)
(***************************************************************************)
EXTENDS Integers, Sequences, FiniteSets

CONSTANTS Configs,        \* the radar's: records [bins, azimuths]
          Subscribers,    \* "platform", "recorder", "detector": which nodes a launch file may start
          MaxTurns,       \* bound: turns of the radar
          MaxReconnects,  \* bound: further configuration messages
          MaxLost,        \* bound: azimuths that get lost
          MaxUnopened,    \* bound: times the recorder's file cannot be opened
          MaxInbox,       \* the subscriber's queue_size
          MaxFactor,      \* 8, of downsamplingFactor
          SweepWrap,      \* 65536, of Sweep_Counter
          TickWrap,       \* 2^32, of the lower word of a time
          TurnTicks,      \* ticks in a turn: 10 * 1000000000 / rotation_speed
          FirstTicks,     \* 36530730
          Angles,         \* of the motor, for a 3D scan
          RangeRes,       \* configuration_range_res on the server, once it is there
          GridSizes,      \* of the grid Mobile_Platform draws, in the same unit
          RoundedDown     \* azimuths whose place in the image the double misses from below

VARIABLES
    radar,      \* its configuration, the azimuth sent last, its turn, its connections, how many
                \* azimuths got lost; `came`, history: the turn talker1 last got each azimuth in
    params,     \* the parameter server's configuration, or NoParams
    imageOn,    \* /talker1/param3 is "image_on"
    talker,     \* talker1's globals
    topic,      \* history: the image published last, and what had come by then
    node,       \* which subscriber runs
    inbox,      \* its queue: of each image, the configuration it was made with
    platform,   \* Mobile_Platform's globals; `sizes`, history: of the images averaged since one
                \* last came with the average off
    recorder,   \* RosToColraw's; `file`: its last, and which parts of it were written
    detector    \* Movement-Detector's

vars == <<radar, params, imageOn, talker, topic, node, inbox, platform, recorder, detector>>
subscribers == <<node, inbox, platform, recorder, detector>>

NoParams == [bins |-> 0, azimuths |-> 0]
NoSize == <<0, 0>>
NoImage == [cfg |-> NoParams, columns |-> <<>>, came |-> <<>>]

Init ==
    /\ \E c \in Configs : radar = [cfg |-> c, azimuth |-> 0, turn |-> 1, connections |-> 0, lost |-> 0, came |-> <<>>]
    /\ params = NoParams /\ imageOn \in BOOLEAN
    /\ talker = [cfg |-> NoParams, publish |-> FALSE, frame |-> 0, last |-> 0, columns |-> <<>>]
    /\ topic = NoImage
    /\ node \in Subscribers
    /\ inbox = <<>>
    /\ platform = [started |-> FALSE, range_res |-> 0, factor |-> 1, average |-> NoSize, average_on |-> FALSE,
                   grid |-> FALSE, grid_stepSize |-> 0, grid_stepSize_m |-> 0,
                   scan_on |-> FALSE, Phi |-> 0, last_Phi |-> 0, sizes |-> {}, ended |-> "no"]
    /\ recorder = [started |-> FALSE, cfg |-> NoParams, firstpass |-> TRUE, ticks |-> 0, sweep |-> 0,
                   unopened |-> 0, file |-> <<>>]
    /\ detector = [frame |-> 0, clutter |-> NoSize, dead |-> FALSE]

-----------------------------------------------------------------------------
(***************************************************************************)
(* talker1, in the thread of the SDK's queue.                              *)
(***************************************************************************)

\* ConfigurationDataHandler(): image_off does not take back image_on.
Configured(t, c) ==
    [t EXCEPT !.cfg = c, !.last = 0, !.publish = @ \/ imageOn, !.columns = [a \in 1..c.azimuths |-> 0]]

Connect ==
    /\ radar.connections <= MaxReconnects
    /\ \E c \in Configs, a \in 0..2 :
          /\ a <= c.azimuths
          /\ radar.connections = 0 => c = radar.cfg
          /\ radar' = [radar EXCEPT !.cfg = c, !.azimuth = a, !.connections = @ + 1,
                                    !.came = [b \in 1..c.azimuths |-> 0]]
          /\ params' = c
          /\ talker' = Configured(talker, c)
    /\ UNCHANGED <<imageOn, topic, subscribers>>

\* publish() drops the oldest of a full queue.
Publish(image) ==
    /\ topic' = image
    /\ inbox' = LET room == IF Len(inbox) = MaxInbox THEN Tail(inbox) ELSE inbox IN Append(room, image.cfg)

\* int bearing = ((double)Azimuth / (double)encoder_size) * (double)azimuths:
\* an azimuth that the division leaves just below its place falls one column early.
Bearing(a) == IF a \in RoundedDown THEN a - 1 ELSE a

\* FFTDataHandler(): the image goes out when the azimuth has turned round, and
\* is painted from the fourth turn on; it is not cleared in between.
Painted(t, a, turn) ==
    [t EXCEPT !.columns = IF t.frame > 2 THEN [@ EXCEPT ![Bearing(a)] = turn] ELSE @, !.last = a]

TurnedRound(t, a) == a < t.last

TalkerFftData(a, turn, before) ==
    LET t == talker IN
    IF TurnedRound(t, a)
    THEN /\ talker' = Painted([t EXCEPT !.frame = IF @ > 3 THEN @ ELSE @ + 1], a, turn)
         /\ IF t.frame > 2 /\ t.publish
            THEN Publish([cfg |-> t.cfg, columns |-> before.columns, came |-> radar.came])
            ELSE UNCHANGED <<topic, inbox>>
    ELSE talker' = Painted(t, a, turn) /\ UNCHANGED <<topic, inbox>>

PaintsFirst(a, turn) == TalkerFftData(a, turn, Painted(talker, a, turn))   \* (then publishes)
FFTDataHandler(a, turn) == TalkerFftData(a, turn, talker)

Wraps == radar.azimuth >= radar.cfg.azimuths
NextAzimuth == IF Wraps THEN 1 ELSE radar.azimuth + 1
NextTurn == IF Wraps THEN radar.turn + 1 ELSE radar.turn

RadarTurns ==
    /\ radar.connections > 0 /\ NextTurn <= MaxTurns
    /\ radar' = [radar EXCEPT !.azimuth = NextAzimuth, !.turn = NextTurn, !.came[NextAzimuth] = NextTurn]
    /\ FFTDataHandler(NextAzimuth, NextTurn)
    /\ UNCHANGED <<params, imageOn, node, platform, recorder, detector>>

\* A short peek skips a message, and the queue before the handler drops what it has no room for.
AzimuthLost ==
    /\ radar.connections > 0 /\ NextTurn <= MaxTurns /\ radar.lost < MaxLost
    /\ radar' = [radar EXCEPT !.azimuth = NextAzimuth, !.turn = NextTurn, !.lost = @ + 1]
    /\ UNCHANGED <<params, imageOn, talker, topic, subscribers>>

\* The launch files and rosparam set /talker1/param3.
SetImageOn ==
    /\ imageOn' = ~imageOn
    /\ UNCHANGED <<radar, params, talker, topic, subscribers>>

-----------------------------------------------------------------------------
(***************************************************************************)
(* Mobile_Platform.  A callback runs with the settings ParamCallback() set *)
(* last; the load of the machine decides what it takes.                    *)
(***************************************************************************)
talkerSide == <<radar, params, imageOn, talker, topic, node>>

\* InitialiseParameters() reads the server once; without a configuration there it
\* says "Exiting..." and goes on with a resolution of 0.
PlatformStarts ==
    /\ node = "platform" /\ ~platform.started
    /\ platform' = [platform EXCEPT !.started = TRUE, !.range_res = IF params = NoParams THEN 0 ELSE RangeRes]
    /\ UNCHANGED <<talkerSide, inbox, recorder, detector>>

PlatformRuns == node = "platform" /\ platform.started /\ platform.ended = "no"

\* grid_stepSize_m: the infinity of a division by 0 has no defined value in 16
\* bits; builds make it the least or the greatest.
GridSteps(range_res, size) == IF range_res = 0 THEN {0, 65535} ELSE {size \div (2 * range_res)}

\* `grid` stands for radarimage && grid: the grid is drawn in that image only, and
\* whatever switches one of them on sets the step anew.
ParamCallback ==
    /\ PlatformRuns
    /\ \E average, scan, grid \in BOOLEAN, size \in GridSizes : \E step \in GridSteps(platform.range_res, size) :
          platform' = [platform EXCEPT !.average_on = average, !.scan_on = scan, !.grid = grid,
                                       !.grid_stepSize = IF grid THEN size ELSE @,
                                       !.grid_stepSize_m = IF grid THEN step ELSE @]
    /\ UNCHANGED <<talkerSide, inbox, recorder, detector>>

UpdatePhi ==
    /\ PlatformRuns
    /\ \E phi \in Angles : platform' = [platform EXCEPT !.Phi = phi]
    /\ UNCHANGED <<talkerSide, inbox, recorder, detector>>

\* The image as OpenCV gets it: a row for each azimuth, its bins resized.
SizeAt(cfg, factor) == <<cfg.azimuths, (2 * cfg.bins + factor) \div (2 * factor)>>

\* The average restarts after an image that came while it was switched off.
AverageKept(p, size) == IF p.average_on THEN size ELSE p.average          \* (it does not)
AverageAfter(p, size) == IF p.average_on THEN size ELSE NoSize

\* Arithmetic on images of two sizes throws, and nothing catches it.
Throws(p, size) == p.average_on /\ p.average \notin {NoSize, size}

NextFactor(factor, load) ==
    IF load = "over150ms" /\ factor < MaxFactor THEN factor + 1
    ELSE IF load = "under50ms" /\ factor > 1 THEN factor - 1 ELSE factor

\* PublishProcessedImage() divides by the grid's step (where 0 does not trap, its
\* loops over the lines never end).
Divides(p) == p.grid /\ p.grid_stepSize_m = 0

ChatterCallback ==
    /\ PlatformRuns /\ inbox # <<>>
    /\ inbox' = Tail(inbox)
    /\ \E load \in {"under50ms", "between", "over150ms"} :
        LET p == platform
            size == SizeAt(Head(inbox), p.factor)
            seen == IF p.average_on THEN p.sizes \cup {size} ELSE {}
            scan == p.scan_on /\ p.Phi # p.last_Phi
        IN  platform' = IF Divides(p) THEN [p EXCEPT !.ended = "grid"]
                        ELSE IF Throws(p, size) THEN [p EXCEPT !.ended = "average", !.sizes = seen]
                        ELSE [p EXCEPT !.average = AverageAfter(p, size), !.sizes = seen,
                                       !.factor = NextFactor(@, load),
                                       !.last_Phi = IF scan THEN p.Phi ELSE @]
    /\ UNCHANGED <<talkerSide, recorder, detector>>

-----------------------------------------------------------------------------
(***************************************************************************)
(* RosToColraw.  A record has its sweep counter, its time, of which only   *)
(* the lower word is written, and the image it is a column of.  The file   *)
(* is opened for each of its parts; what it cannot be opened for is not in *)
(* it, and the recorder goes on.  Here it is a part that is not `written`. *)
(***************************************************************************)

\* WriteConfigToFile(): a file begins with the configuration
NewFile(opened) == <<[written |-> opened]>>
Unopened(opened) == IF opened THEN 0 ELSE 1

\* main(): SetParams(), and the first file
RecorderStarts ==
    /\ node = "recorder" /\ ~recorder.started /\ params # NoParams
    /\ \E opened \in BOOLEAN :
          /\ Unopened(opened) <= MaxUnopened
          /\ recorder' = [recorder EXCEPT !.started = TRUE, !.cfg = params, !.file = NewFile(opened),
                                          !.unopened = Unopened(opened)]
    /\ UNCHANGED <<talkerSide, inbox, platform, detector>>

Step(cfg) == TurnTicks \div cfg.azimuths

\* The first image gives the times only; its own step is ten times too short.
RecordsFirst(r) ==
    [r EXCEPT !.firstpass = FALSE, !.ticks = FirstTicks - (TurnTicks \div 10) \div r.cfg.azimuths]

Sweep(r, az) == (r.sweep + az) % SweepWrap
Ticks(r, az) == r.ticks + Step(r.cfg) + (az * TurnTicks) \div r.cfg.azimuths
FirstTicksOf(r) == Ticks(r, 0)                            \* (the time of its first azimuth)
LastTicksOf(r) == Ticks(r, r.cfg.azimuths - 1)

\* A later one, of which the file cannot be opened for the azimuths in `failed`.
\* What is not written has its sweep and its time all the same.
RecordsImage(r, file, failed) ==
    LET records == [i \in 1..r.cfg.azimuths |->
                       [written |-> i \notin failed, sweep |-> Sweep(r, i - 1),
                        bottom |-> Ticks(r, i - 1) % TickWrap, azimuth |-> 14 * (i - 1)]]
    IN  [r EXCEPT !.file = file \o records,
                  !.sweep = Sweep(r, r.cfg.azimuths),
                  !.ticks = LastTicksOf(r),
                  !.unopened = @ + Cardinality(failed)]

\* A new file is begun when the current one has lasted long enough.
DataHandler ==
    /\ node = "recorder" /\ recorder.started /\ inbox # <<>>
    /\ inbox' = Tail(inbox)
    /\ LET r == recorder
       IN  \/ r.firstpass /\ recorder' = RecordsFirst(r)
           \/ /\ ~r.firstpass
              /\ \E failed \in SUBSET (1..r.cfg.azimuths), split, opened \in BOOLEAN :
                    /\ r.unopened + Cardinality(failed) + Unopened(opened) <= MaxUnopened
                    /\ split \/ opened
                    /\ recorder' = IF split THEN RecordsImage([r EXCEPT !.unopened = @ + Unopened(opened)],
                                                              NewFile(opened), failed)
                                            ELSE RecordsImage(r, r.file, failed)
    /\ UNCHANGED <<talkerSide, platform, detector>>

(***************************************************************************)
(* Movement-Detector: the fourth image begins the clutter map.             *)
(***************************************************************************)
DetectorCallback ==
    /\ node = "detector" /\ ~detector.dead /\ inbox # <<>>
    /\ inbox' = Tail(inbox)
    /\ LET size == <<Head(inbox).bins, Head(inbox).bins>>   \* turned into a square
           frame == IF detector.frame > 3 THEN 4 ELSE detector.frame + 1
       IN  detector' = CASE detector.frame < 3 -> [detector EXCEPT !.frame = frame]
                         [] detector.frame = 3 -> [detector EXCEPT !.frame = frame, !.clutter = size]
                         [] OTHER -> [detector EXCEPT !.dead = (detector.clutter # size)]
    /\ UNCHANGED <<talkerSide, platform, recorder>>

Next ==
    \/ Connect \/ RadarTurns \/ AzimuthLost \/ SetImageOn
    \/ PlatformStarts \/ ParamCallback \/ UpdatePhi \/ ChatterCallback
    \/ RecorderStarts \/ DataHandler \/ DetectorCallback

Spec == Init /\ [][Next]_vars

-----------------------------------------------------------------------------
\* An image on the topic shows in every column the last pass of the radar over it
\* that came, up to the end of a turn: the turn of the image where nothing of that
\* was lost, and an older one only where all azimuths on the column were lost since.
\* It is of one configuration.  A column is empty if none has come since talker1
\* began to paint, or since it connected anew.
ImagesAsReceived ==
    topic # NoImage =>
        /\ {DOMAIN topic.columns, DOMAIN topic.came} = {1..topic.cfg.azimuths}
        /\ \A c \in DOMAIN topic.columns :
              LET on == {a \in DOMAIN topic.came : Bearing(a) = c}
              IN  /\ topic.columns[c] = 0 \/ \E a \in on : topic.came[a] = topic.columns[c]
                  /\ \A a \in on : \/ topic.came[a] <= topic.columns[c]
                                   \/ topic.columns[c] = 0
                                      /\ \E b \in DOMAIN topic.came : topic.came[b] > topic.came[a]

\* The records of a file tell how many are missing between them: the sweeps count on
\* over those that could not be written, within an image and from one to the next.
\* And the times go on from each record to the next, but for the one word they have,
\* which wraps.
FileRunsOn ==
    \A i, j \in 2..Len(recorder.file) :
        LET before == recorder.file[i] after == recorder.file[j] IN
        i < j /\ before.written /\ after.written =>
            /\ after.sweep = (before.sweep + (j - i)) % SweepWrap
            /\ j = i + 1 => (after.bottom - before.bottom) % TickWrap \in 1..(2 * Step(recorder.cfg))

\* Of the average, only an image of another size than one averaged before it ends
\* Mobile_Platform, with none in between that came while the average was off.  Of the
\* grid, only a step of less than two bins does, or any step when the node was
\* started before talker1 had put its configuration on the server.
WhatEndsPlatform ==
    /\ platform.ended = "average" => \E one, other \in platform.sizes : one # other
    /\ platform.ended = "grid" => platform.range_res = 0 \/ platform.grid_stepSize < 2 * RangeRes

=============================================================================
