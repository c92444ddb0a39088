---------------------------- MODULE VideoPipeline ----------------------------
(***************************************************************************)
(* From a radar and a camera to video files, over ROS 2 topics: one of the *)
(* publishers colossus_publisher, colossus_and_camera_publisher and        *)
(* camera_publisher, and a subscriber_to_video of the same kind or of      *)
(* another.  A topic keeps the last messages up to its queue size, is      *)
(* silent before the subscriber is there, and keeps no order with other    *)
(* topics.                                                                 *)
(***************************************************************************)
EXTENDS Integers, Sequences, FiniteSets

CONSTANTS
    Azimuths,            \* azimuths that the radar sends, in steps of one row
    RoundedDown,         \* those whose bearing, azimuth / encoder_size * azimuth_samples in
                         \* double precision, is just below the whole number
    ConfigPublishCount,  \* 4 in the code
    FftDepth,            \* 400 in the code
    ImageDepth,          \* 25 in the code
    Kinds, MaxTurns, MaxFrames, MaxConfigs

VARIABLES
    kind,        \* [publisher, subscriber]
    radar,       \* [configs, turn]: configurations sent, rotations begun
    publisher,   \* [last, rotations, rotated_once, fps, swept]
    camera,      \* [frames, message, frame_count, configuration_sent, filling]
    topics,      \* [config, fft, cameraConfig, image]: sequences of messages
    subscriber,  \* [joined, config, last, cameraConfig]
    radarVideo,  \* [rows, frame, intact]: the image, the last frame written, and
                 \* ghost: whether every message of its rotation came in
    cameraVideo, \* how many images the file holds; Closed before it is opened
    waited       \* ghost: configurations the publisher was due since the subscriber joined

videoVars == <<kind, radar, publisher, camera, topics, subscriber, radarVideo,
               cameraVideo, waited>>

None == 0
Torn == -1
Closed == -1
HasRadar == kind.publisher # "camera"
HasCamera == kind.publisher # "colossus"
Rows == {IF a \in RoundedDown THEN a - 1 ELSE a : a \in Azimuths}

\* int current_bearing: truncated
Row(a) == IF a \in RoundedDown THEN a - 1 ELSE a

Topics(kinds) ==
    (IF kinds # "camera" THEN {"config", "fft"} ELSE {})
        \cup (IF kinds # "colossus" THEN {"cameraConfig", "image"} ELSE {})

Depth(topic) ==
    CASE topic = "fft" -> FftDepth [] topic = "image" -> ImageDepth [] OTHER -> 1

KeepLast(queue, message, depth) ==
    IF Len(queue) < depth THEN Append(queue, message) ELSE Append(Tail(queue), message)

\* publish(): messages is a function from some of the topics
Published(messages) ==
    [t \in DOMAIN topics |->
        IF subscriber.joined /\ t \in DOMAIN messages \cap Topics(kind.subscriber)
        THEN KeepLast(topics[t], messages[t], Depth(t)) ELSE topics[t]]

VideoInit ==
    /\ kind \in [publisher : Kinds, subscriber : Kinds]
    /\ radar = [configs |-> 0, turn |-> 1]
    /\ publisher = [last |-> 0, rotations |-> 0, rotated_once |-> FALSE, fps |-> 0,
                    swept |-> {}]
    /\ camera = [frames |-> 0, message |-> None, frame_count |-> 0,
                 configuration_sent |-> FALSE, filling |-> FALSE]
    /\ topics = [t \in {"config", "fft", "cameraConfig", "image"} |-> <<>>]
    /\ subscriber = [joined |-> FALSE, config |-> None, last |-> 0, cameraConfig |-> FALSE]
    /\ radarVideo = [rows |-> [r \in Rows |-> 0], frame |-> <<>>, intact |-> FALSE]
    /\ cameraVideo = Closed
    /\ waited = 0

----------------------------------------------------------------------------
(* The publishers.  Rates are numbered like the configurations that set them. *)

ConfigurationData ==
    /\ HasRadar /\ radar.configs < MaxConfigs
    /\ radar' = [radar EXCEPT !.configs = @ + 1]
    /\ publisher' = [publisher EXCEPT !.fps = radar.configs + 1]
    /\ topics' = Published([t \in {"config"} |-> radar.configs + 1])
    /\ UNCHANGED <<kind, camera, subscriber, radarVideo, cameraVideo, waited>>

\* on every rotation, send the latest camera frame; after ConfigPublishCount of
\* them, the configuration
Turned(azimuth) ==
    LET wrapped == azimuth < publisher.last
        count   == publisher.rotations + IF wrapped THEN 1 ELSE 0
    IN  [publisher EXCEPT
            !.last = azimuth,
            !.rotated_once = @ \/ wrapped,
            !.rotations = IF count >= ConfigPublishCount THEN 0 ELSE count,
            !.swept = IF wrapped THEN {azimuth} ELSE @ \cup {azimuth}]

ConfigDue(azimuth) ==
    azimuth < publisher.last /\ publisher.rotations + 1 >= ConfigPublishCount

FftPublished(azimuth, turn) ==
    LET wrapped == azimuth < publisher.last
        topic(name, send) == IF send THEN {name} ELSE {}
    IN  Published([t \in topic("fft", publisher.rotated_once \/ wrapped)
                         \cup topic("config", ConfigDue(azimuth))
                         \cup topic("image", wrapped /\ HasCamera) |->
            CASE t = "fft" -> [turn |-> turn, azimuth |-> azimuth,
                               swept |-> IF wrapped THEN publisher.swept ELSE {}]
              [] t = "config" -> publisher.fps
              [] t = "image" -> camera.message])

\* the camera's node does nothing with an azimuth before it has a camera frame
FftData(azimuth) ==
    /\ HasRadar /\ radar.configs > 0
    /\ HasCamera => camera.message # None
    /\ LET turn == radar.turn + IF azimuth < publisher.last THEN 1 ELSE 0
       IN  /\ turn <= MaxTurns
           /\ radar' = [radar EXCEPT !.turn = turn]
           /\ topics' = FftPublished(azimuth, turn)
           /\ radarVideo' = IF subscriber.joined /\ publisher.rotated_once
                                 /\ Len(topics.fft) = FftDepth
                            THEN [radarVideo EXCEPT !.intact = FALSE] ELSE radarVideo
    /\ publisher' = Turned(azimuth)
    /\ waited' = IF subscriber.joined /\ azimuth < publisher.last /\ waited < MaxTurns
                 THEN waited + 1 ELSE waited
    /\ UNCHANGED <<kind, camera, subscriber, cameraVideo>>

(* camera_image_handler().  In colossus_and_camera_publisher it fills the    *)
(* message, on the main thread, that the radar client's thread publishes:    *)
(* without a lock, so that what is published meanwhile may be of any form.   *)
CameraImageBegins ==
    /\ HasCamera /\ ~camera.filling /\ camera.frames < MaxFrames
    /\ LET configure == \/ ~camera.configuration_sent
                        \/ camera.frame_count >= ConfigPublishCount
       IN  /\ topics' = IF configure THEN Published([t \in {"cameraConfig"} |-> publisher.fps])
                                     ELSE topics
           /\ camera' = [camera EXCEPT
                  !.filling = TRUE, !.message = Torn, !.frames = @ + 1,
                  !.configuration_sent = TRUE,
                  !.frame_count = IF configure THEN 1 ELSE @ + 1]
    /\ UNCHANGED <<kind, radar, publisher, subscriber, radarVideo, cameraVideo, waited>>

\* camera_publisher publishes the frame itself
CameraImageEnds ==
    /\ camera.filling
    /\ camera' = [camera EXCEPT !.filling = FALSE, !.message = camera.frames]
    /\ topics' = IF HasRadar THEN topics
                 ELSE Published([t \in {"image"} |-> camera.frames])
    /\ UNCHANGED <<kind, radar, publisher, subscriber, radarVideo, cameraVideo, waited>>

----------------------------------------------------------------------------
(* The subscribers *)

Join ==
    /\ ~subscriber.joined
    /\ subscriber' = [subscriber EXCEPT !.joined = TRUE]
    /\ UNCHANGED <<kind, radar, publisher, camera, topics, radarVideo, cameraVideo, waited>>

Take(topic) ==
    /\ topics[topic] # <<>>
    /\ topics' = [topics EXCEPT ![topic] = Tail(@)]
    /\ UNCHANGED <<kind, radar, publisher, camera, waited>>

\* only the first configuration counts: it opens the file
ReceiveConfiguration ==
    /\ Take("config")
    /\ subscriber' = [subscriber EXCEPT
                         !.config = IF @ = None THEN Head(topics.config) ELSE @]
    /\ UNCHANGED <<radarVideo, cameraVideo>>

WrittenAfterwards(message) ==
    [rows |-> [radarVideo.rows EXCEPT ![Row(message.azimuth)] = message.turn],
     frame |-> radarVideo.rows]

\* the row is drawn before the azimuth is compared with the last: a frame has
\* the first row of the next rotation
Written(message) ==
    LET rows == [radarVideo.rows EXCEPT ![Row(message.azimuth)] = message.turn]
    IN  [rows |-> rows, frame |-> rows]

ReceiveFftData ==
    /\ Take("fft")
    /\ LET m == Head(topics.fft)
           wrapped == m.azimuth < subscriber.last
       IN  IF subscriber.config = None
           THEN /\ radarVideo' = [radarVideo EXCEPT !.intact = FALSE]
                /\ UNCHANGED subscriber
           ELSE /\ subscriber' = [subscriber EXCEPT !.last = m.azimuth]
                /\ radarVideo' =
                     [rows |-> Written(m).rows,
                      frame |-> IF wrapped
                                THEN <<[rows |-> Written(m).frame, last |-> m,
                                        intact |-> radarVideo.intact]>>
                                ELSE <<>>,
                      intact |-> radarVideo.intact \/ m.swept # {}]
    /\ UNCHANGED cameraVideo

\* the subscriber to both tests the flag of the radar's configuration
CameraConfigTaken(s) ==
    IF kind.subscriber = "camera" THEN ~s.cameraConfig ELSE s.config = None

\* a file opened once more is written from its beginning
ReceiveCameraConfiguration ==
    /\ Take("cameraConfig")
    /\ IF CameraConfigTaken(subscriber)
       THEN subscriber' = [subscriber EXCEPT !.cameraConfig = TRUE] /\ cameraVideo' = 0
       ELSE UNCHANGED <<subscriber, cameraVideo>>
    /\ UNCHANGED radarVideo

ReceiveCameraImage ==
    /\ Take("image")
    /\ cameraVideo' = IF subscriber.cameraConfig THEN cameraVideo + 1 ELSE cameraVideo
    /\ UNCHANGED <<subscriber, radarVideo>>

VideoNext ==
    \/ ConfigurationData
    \/ \E a \in Azimuths : FftData(a)
    \/ CameraImageBegins \/ CameraImageEnds \/ Join
    \/ ReceiveConfiguration \/ ReceiveFftData
    \/ ReceiveCameraConfiguration \/ ReceiveCameraImage

VideoSpec == VideoInit /\ [][VideoNext]_videoVars

----------------------------------------------------------------------------
(* A frame of the radar's video is written when a rotation ended, and shows  *)
(* it in every row of it that the publisher sent, and in one row the         *)
(* beginning of the next: unless a message was lost, or ignored for want of  *)
(* a configuration, since the frame before.                                  *)
FrameIsARotation ==
    \A i \in DOMAIN radarVideo.frame :
        LET frame == radarVideo.frame[i]
        IN  frame.intact =>
              /\ frame.last.swept # {}
              /\ \A r \in {Row(a) : a \in frame.last.swept} :
                     frame.rows[r] = IF r = Row(frame.last.azimuth) THEN frame.last.turn
                                                                    ELSE frame.last.turn - 1

(* A subscriber that comes late does not miss the configuration for good:    *)
(* it has it, or can take it off the topic, after ConfigPublishCount         *)
(* rotations at the latest.                                                  *)
LateComerConfigured ==
    waited >= ConfigPublishCount /\ "config" \in Topics(kind.subscriber) =>
        subscriber.config # None \/ topics.config # <<>>
=============================================================================
