-------------------------- MODULE RadarPublishers --------------------------
(***************************************************************************)
(* The ROS 2 nodes b_scan_publisher, laser_scan_publisher and              *)
(* point_cloud_publisher, three views of a radar.  Each is a process with  *)
(* a Radar_client, parameters and topics of its own, which nothing another *)
(* does can touch: a behaviour is that of one of them.  Its handler        *)
(* publishes when it sees the azimuth fall.  Any azimuth may follow any    *)
(* other, since framing loses messages and the queue before the handler    *)
(* drops what it has no room for.  A handler is one action: a node has one *)
(* thread that calls it.                                                   *)
(***************************************************************************)
EXTENDS RosNode, Functions

CONSTANTS BinCounts,    \* values of range_in_bins
          Strong,       \* the power of an echo; of noise it is 0
          Launch,       \* parameters a launch file may start a node with
          Settings,     \* values `ros2 param set` may give: sets of <<name, value>>
          MaxConfigs,   \* configurations the radar sends the node (it does on connection)
          MaxSettings,  \* parameters set while the node runs
          MaxImages     \* b_scan: the growth of its vector is not followed further

ViewParams == {"azimuth_offset", "start_azimuth", "end_azimuth", "start_bin", "end_bin",
               "power_threshold"}

\* Two images and one are told apart: the vector is followed that far at least.
ASSUME ViewsAssumption ==
    /\ BinCounts \subseteq Word \ {0} /\ Strong \in 1..255
    /\ Launch \subseteq [ViewParams -> Int] /\ Settings \subseteq ViewParams \X Int
    /\ MaxImages \in Nat /\ MaxImages >= 2

VARIABLES
    view,        \* which of the three nodes it is
    radar,       \* [configs, bins]: what the radar has sent it, and its present range
    settings,    \* how often a parameter was set
    node,        \* a node, and of b_scan [size, cells]: intensity_values and its
                 \* non-zero elements; of laser_scan [ranges]: the rows written so far
                 \* and the bin in each; of point_cloud [points]: a set of <<row, bin>>
    published,   \* what it published when the last rotation ended
    outside,     \* offsets with which a row outside the image was written
    swept,       \* ghost: for each row an azimuth came for since the last rotation ended,
                 \* what was looked at in the last of them, and the echoes in them all
    readings     \* ghost: how often the parameters were read since one was set
                 \* or the range changed, counted to 2

publisherVars == <<view, radar, settings, node, published, outside, swept, readings>>

Views == {"b_scan", "laser_scan", "point_cloud"}
Levels(bins) == [0..(bins - 1) -> {0, Strong}]
Limit(d, n) == Min({Cardinality(DOMAIN d.data), n.used.end_bin})
RowOf(n, d) == Adjusted(n, AzimuthIndex(d.azimuth))
Inside(n, d) == InSector(n, AzimuthIndex(d.azimuth))

----------------------------------------------------------------------------
(* b_scan_publisher *)

Image(n) == n.samples * n.bins

\* push_back of one image of zeros
Grown(n) == IF n.size >= MaxImages * Image(n) THEN n ELSE [n EXCEPT !.size = @ + Image(n)]

BScanRow(n, d) ==
    LET row == RowOf(n, d)
        lit == {<<row, b>> : b \in {b \in DOMAIN d.data : InWindow(n, b) /\ d.data[b] > 0}}
    IN  {c \in n.cells : c[1] # row} \cup (IF Inside(n, d) THEN lit ELSE {})

\* image_data_handler() returns when the vector is not exactly one image
ImagePublished(n) == n.size = Image(n)

BScanFftData(n, d) ==
    LET written == [n EXCEPT !.cells = BScanRow(n, d)]
        moved   == IF ImagePublished(n) THEN [written EXCEPT !.size = 0, !.cells = {}]
                                        ELSE written
    IN  Turned(IF RotationEnds(n, d) THEN Grown(moved) ELSE written, d)

BScanConfiguration(n, bins) == Grown([n EXCEPT !.samples = Samples, !.bins = bins])

----------------------------------------------------------------------------
(* laser_scan_publisher *)

LastPeak(n, d) ==
    LET over == {b \in DOMAIN d.data : InWindow(n, b) /\ d.data[b] > n.used.power_threshold}
    IN  IF over # {} THEN Max(over) ELSE Max({n.used.start_bin, Limit(d, n)})

\* the loop's index: one behind the last bin when there is no peak
FirstPeak(n, d) ==
    LET over == {b \in DOMAIN d.data : InWindow(n, b) /\ d.data[b] > n.used.power_threshold}
    IN  IF over # {} THEN Min(over) ELSE Max({n.used.start_bin, Limit(d, n)})

LaserScanFftData(n, d) ==
    LET value == IF Inside(n, d) THEN FirstPeak(n, d) ELSE 0
        row   == RowOf(n, d)
    IN  Turned([n EXCEPT !.ranges = [r \in DOMAIN @ \cup {row} |->
                                        IF r = row THEN value ELSE @[r]]], d)

\* end_bin becomes the whole range, whatever its parameter says
LaserScanConfiguration(n, bins) ==
    [n EXCEPT !.samples = Samples, !.bins = bins, !.used.end_bin = bins]

----------------------------------------------------------------------------
(* point_cloud_publisher *)

PointsOf(n, d) ==
    IF ~Inside(n, d) THEN {}
    ELSE {<<RowOf(n, d), b>> : b \in {b \in DOMAIN d.data :
                InWindow(n, b) /\ d.data[b] > n.used.power_threshold}}

Points(n, d) == n.points \cup PointsOf(n, d)

PointCloudFftDataKept(n, d) == Turned([n EXCEPT !.points = Points(n, d)], d)
\* the vectors are cleared once they are published
PointCloudFftData(n, d) ==
    Turned([n EXCEPT !.points = IF RotationEnds(n, d) THEN {} ELSE Points(n, d)], d)

PointCloudConfiguration(n, bins) ==
    [n EXCEPT !.samples = Samples, !.bins = bins, !.used.end_bin = bins]

----------------------------------------------------------------------------
(* The node and the radar *)

\* the constructor
Started(param) ==
    LET image == [p \in DOMAIN param \ {"power_threshold"} |-> param[p]]
    IN  CASE view = "b_scan" -> [samples |-> 0, bins |-> 0, last |-> 0, rotations |-> 0,
                     param |-> image, used |-> Taken(image), size |-> 0, cells |-> {}]
          [] view = "laser_scan" -> [samples |-> 0, bins |-> 0, last |-> 0, rotations |-> 0,
                     param |-> param, used |-> Taken(param), ranges |-> <<>>]
          [] view = "point_cloud" -> [samples |-> 0, bins |-> 0, last |-> 0, rotations |-> 0,
                     param |-> param, used |-> Taken(param), points |-> {}]

Init ==
    /\ view \in Views
    /\ radar = [configs |-> 0, bins |-> 0]
    /\ settings = 0
    /\ \E param \in Launch : node = Started(param)
    /\ published = [ended |-> FALSE]
    /\ outside = {}
    /\ swept = <<>>
    /\ readings = 0

\* a connection: the radar sends its configuration, to which the node answers
\* with start_fft_data
ConfigurationData(bins) ==
    /\ radar.configs < MaxConfigs
    /\ radar' = [configs |-> radar.configs + 1, bins |-> bins]
    /\ node' = CASE view = "b_scan" -> BScanConfiguration(node, bins)
                 [] view = "laser_scan" -> LaserScanConfiguration(node, bins)
                 [] view = "point_cloud" -> PointCloudConfiguration(node, bins)
    /\ readings' = 0
    /\ UNCHANGED <<view, settings, published, outside, swept>>

\* the message of a rotation that ends; b_scan_publisher may have none
Messages(n, d) ==
    CASE view = "b_scan" -> IF ImagePublished(n) THEN <<BScanRow(n, d)>> ELSE <<>>
      [] view = "laser_scan" -> <<LaserScanFftData(n, d).ranges>>
      [] view = "point_cloud" -> <<Points(n, d)>>

\* what a node looks at in an azimuth: the powers in its sector and its window
Looked(n, d) ==
    [b \in {b \in DOMAIN d.data : Inside(n, d) /\ InWindow(n, b)} |-> d.data[b]]

\* the image shows every power but 0
Threshold(n) == IF view = "b_scan" THEN 0 ELSE n.used.power_threshold

Echoes(seen, threshold) == {b \in DOMAIN seen : seen[b] > threshold}

FftData(d) ==
    /\ radar.configs > 0
    /\ node' = CASE view = "b_scan" -> BScanFftData(node, d)
                 [] view = "laser_scan" -> LaserScanFftData(node, d)
                 [] view = "point_cloud" -> PointCloudFftData(node, d)
    /\ published' = IF RotationEnds(node, d)
                    THEN [ended |-> TRUE, messages |-> Messages(node, d)]
                    ELSE [ended |-> FALSE]
    /\ outside' = IF view # "point_cloud" /\ RowOf(node, d) >= Samples
                  THEN outside \cup {node.used.azimuth_offset} ELSE outside
    /\ swept' = LET rows   == IF published.ended THEN <<>> ELSE swept
                    row    == RowOf(node, d)
                    seen   == Looked(node, d)
                    before == IF row \in DOMAIN rows THEN rows[row].echoes ELSE {}
                    now    == [seen |-> seen, threshold |-> Threshold(node),
                               echoes |-> before \cup Echoes(seen, Threshold(node))]
                IN  [r \in DOMAIN rows \cup {row} |-> IF r = row THEN now ELSE rows[r]]
    /\ readings' = IF RotationEnds(node, d) /\ node'.rotations = 0
                   THEN Min({readings + 1, 2}) ELSE readings
    /\ UNCHANGED <<view, radar, settings>>

\* `ros2 param set <node>`
SetParameter(name, value) ==
    /\ settings < MaxSettings /\ name \in DOMAIN node.param
    /\ settings' = settings + 1
    /\ node' = [node EXCEPT !.param[name] = value]
    /\ readings' = 0
    /\ UNCHANGED <<view, radar, published, outside, swept>>

Data(bins) == [azimuth : Azimuths, data : Levels(bins)]

Next ==
    \/ \E bins \in BinCounts : ConfigurationData(bins)
    \/ \E d \in Data(radar.bins) : FftData(d)
    \/ \E s \in Settings : SetParameter(s[1], s[2])

Spec == Init /\ [][Next]_publisherVars

----------------------------------------------------------------------------
RowBins(cells, r) == {c[2] : c \in {c \in cells : c[1] = r}}

(* What a node publishes shows, in every row an azimuth of the rotation came *)
(* for, what it looked at in it with the parameters of that moment: the image*)
(* the last such azimuth, the scan the nearest echo of it, and the cloud the *)
(* echoes of all of them; whatever azimuths were lost, whichever were        *)
(* computed to fall on the same row, and with parameters set and read in     *)
(* between.  An echo is a power above the threshold: one that is equal to it *)
(* is passed over in a scan (line 79), though README.md:183 of nav_ros says  *)
(* "any equal to or above is used".  (A scan shows something, too, where     *)
(* there is no echo: one bin behind the last it looked at.)                  *)
RowsAsReceived ==
    published.ended =>
        \A message \in Range(published.messages), r \in DOMAIN swept :
            LET echoes == Echoes(swept[r].seen, swept[r].threshold)
            IN  CASE view = "b_scan" -> RowBins(message, r) = echoes
                  [] view = "laser_scan" -> echoes # {} => message[r] = Min(echoes)
                  [] view = "point_cloud" -> RowBins(message, r) = swept[r].echoes

(* No row outside the image or the scan is written but with an offset of     *)
(* more than a rotation: one that was launched with, or a negative one,      *)
(* which its 16 bits make large and which no reading rejects.                *)
RowsInside == \A offset \in outside : offset > Samples

(* Every rotation that ends is published, as long as the radar was connected *)
(* once only, and what is published is that rotation: no row of an earlier   *)
(* one is left in the image or the cloud.  (After a second configuration no  *)
(* image is published again.  A scan does keep the rows of lost azimuths.)   *)
RotationPublished ==
    published.ended =>
        /\ radar.configs = 1 => published.messages # <<>>
        /\ view # "laser_scan" =>
               \A message \in Range(published.messages) :
                   \A c \in message : c[1] \in DOMAIN swept

(* What was set is in use after two readings of the parameters: the first    *)
(* takes a valid value and replaces an invalid one, which the second takes.  *)
(* (An invalid power_threshold is replaced by the one in use, valid or not.) *)
SettingsTakeEffect ==
    readings = 2 => \A p \in DOMAIN node.param :
                        /\ node.used[p] = UInt16(node.param[p])
                        /\ p # "power_threshold" => Valid(node, p)
=============================================================================
