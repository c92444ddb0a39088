--------------------------- MODULE RosWorkspaces ---------------------------
(***************************************************************************)
(* What the launch files of the two ROS workspaces start beside one radar: *)
(* in ROS 2 a view of the raw data, the node for a radar that              *)
(* looks for peaks, or a publisher and a subscriber that saves video; in   *)
(* ROS 1 talker1 and one of the nodes that take its images.                *)
(***************************************************************************)
EXTENDS RadarPublishers, NavigationPublisher

CONSTANTS VideoAzimuths, VideoRoundedDown, FftDepth, ImageDepth, Kinds, MaxTurns, MaxFrames
CONSTANTS Configs, PolarTurns, MaxReconnects, MaxInbox, MaxFactor,
          SweepWrap, TickWrap, TurnTicks, FirstTicks, Angles, PolarRoundedDown,
          MaxLost, MaxUnopened, RangeRes, GridSizes, Subscribers
CONSTANT LaunchFiles     \* which of the launch files are used

ASSUME LaunchAssumption ==
    /\ LaunchFiles \subseteq {"view", "navigation", "video", "ros1"}
    /\ Subscribers \subseteq {"platform", "recorder", "detector"}
ASSUME VideoAssumption ==
    /\ VideoAzimuths \subseteq Nat /\ VideoRoundedDown \subseteq VideoAzimuths \ {0}
    /\ Kinds \subseteq {"colossus", "colossus_and_camera", "camera"}
    /\ {FftDepth, ImageDepth} \subseteq Nat \ {0}
ASSUME WidthsAssumption ==
    /\ {TickWrap, TurnTicks, PolarTurns, FirstTicks} \subseteq Nat
    /\ TickWrap > TurnTicks /\ SweepWrap \in Nat \ {0} /\ 0 \in Angles
    /\ PolarRoundedDown \subseteq Nat \ {0, 1}
    /\ RangeRes \in Nat \ {0} /\ GridSizes \subseteq Nat /\ {MaxLost, MaxUnopened} \subseteq Nat
\* No two azimuths at the same tick: RosToColraw would write one time twice.
ASSUME TicksAssumption ==
    /\ Configs \subseteq [bins : Nat, azimuths : Nat \ {0}]
    /\ \A c \in Configs : c.azimuths <= TurnTicks

VARIABLES launched, kind, videoRadar, publisher, camera, topics, subscriber, radarVideo, cameraVideo, waited
VARIABLES polarRadar, params, imageOn, talker, topic, taker, inbox, platform, recorder, detector

Video == INSTANCE VideoPipeline WITH
             Azimuths <- VideoAzimuths, RoundedDown <- VideoRoundedDown, radar <- videoRadar
Ros1 == INSTANCE Ros1Nodes WITH
            MaxTurns <- PolarTurns, RoundedDown <- PolarRoundedDown, radar <- polarRadar, node <- taker

videoVars == <<kind, videoRadar, publisher, camera, topics, subscriber, radarVideo, cameraVideo, waited>>
ros1Vars == <<polarRadar, params, imageOn, talker, topic, taker, inbox, platform, recorder, detector>>
workspaceVars == <<launched, publisherVars, navigationVars, videoVars, ros1Vars>>

\* What is not launched does not matter: its variables have one value.
WorkspaceInit ==
    /\ launched \in LaunchFiles
    /\ Init /\ NavInit /\ Video!VideoInit /\ Ros1!Init
    /\ launched # "view" => view = "laser_scan" /\ node.param = CHOOSE p \in Launch : TRUE
    /\ launched # "navigation" => navigation.local /\ navigation.param = CHOOSE p \in NavLaunch : TRUE
    /\ launched # "video" => kind = [publisher |-> "colossus", subscriber |-> "colossus"]
    /\ launched # "ros1" => imageOn /\ taker = (CHOOSE t \in Subscribers : TRUE) /\ polarRadar.cfg = CHOOSE c \in Configs : TRUE

WorkspaceNext ==
    /\ UNCHANGED launched
    /\ \/ launched = "view" /\ Next /\ UNCHANGED <<navigationVars, videoVars, ros1Vars>>
       \/ launched = "navigation" /\ NavNext /\ UNCHANGED <<publisherVars, videoVars, ros1Vars>>
       \/ launched = "video" /\ Video!VideoNext /\ UNCHANGED <<publisherVars, navigationVars, ros1Vars>>
       \/ launched = "ros1" /\ Ros1!Next /\ UNCHANGED <<publisherVars, navigationVars, videoVars>>

WorkspaceSpec == WorkspaceInit /\ [][WorkspaceNext]_workspaceVars

\* What is set with `ros2 param set` takes effect in the nodes that read it
\* (RadarPublishers, NavigationPublisher).
WhatIsSetTakesEffect == SettingsTakeEffect /\ NavSettingsTakeEffect

\* The properties of VideoPipeline: a subscriber that comes late is configured,
\* and a frame of its video shows one rotation.
VideoOfRotations == Video!LateComerConfigured /\ Video!FrameIsARotation

\* The properties of Ros1Nodes: a polar image shows the last passes of the radar that
\* came, the records of a file tell what is missing between them, and the average and
\* the grid end Mobile_Platform in few ways.
ImagesAsReceived == Ros1!ImagesAsReceived
FileRunsOn == Ros1!FileRunsOn
WhatEndsPlatform == Ros1!WhatEndsPlatform
=============================================================================
