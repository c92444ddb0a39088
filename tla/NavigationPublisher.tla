------------------------ MODULE NavigationPublisher ------------------------
(***************************************************************************)
(* The ROS 2 node navigation_mode_point_cloud_publisher: it publishes the  *)
(* peaks of each rotation as a cloud, found by the radar or, when          *)
(* process_locally is set, by a Peak_finder in the node.  Besides the      *)
(* parameters of the other nodes it has four that configure whoever looks  *)
(* for the peaks.  Which peaks those are is PeakFinder's matter.           *)
(***************************************************************************)
EXTENDS RosNode

CONSTANTS NavBins,         \* range_in_bins of this radar
          NavLaunch,       \* parameters a launch file may start the node with
          NavSettings,     \* values `ros2 param set` may give
          NavMaxConfigs,
          NavMaxSettings

VARIABLES
    navigation,   \* a node, and [local, points]
    inForce,      \* the configuration of the radar's or the node's peak finder
    connection,   \* [configs, settings, up]: what the radar and the operator did so far,
                  \* and whether its link is still that of the last configuration
    navReadings   \* ghost, as RadarPublishers!readings

navigationVars == <<navigation, inForce, connection, navReadings>>

Window == {"azimuth_offset", "start_azimuth", "end_azimuth", "start_bin", "end_bin"}
Finder == {"bins_to_operate_on", "min_bin", "power_threshold", "max_peaks_per_azimuth"}

ASSUME NavigationAssumption ==
    /\ NavBins \in Word \ {0}
    /\ NavLaunch \subseteq [Window \cup Finder -> Int]
    /\ NavSettings \subseteq (Window \cup Finder) \X Int

NotConfigured == [p \in {} |-> 0]

FinderValid(n, p) ==
    n.param[p] \in 0..(CASE p = "bins_to_operate_on" -> 10
                         [] p = "min_bin" -> n.bins
                         [] p = "power_threshold" -> 255
                         [] OTHER -> 5)

FinderFallback(n, p) ==
    CASE p = "power_threshold" -> 63
      [] p = "max_peaks_per_azimuth" -> 5
      [] OTHER -> n.used[p]

\* a parameter of the peak finder is looked at only when it has changed
FinderChanged(n) == {p \in Finder : n.param[p] # n.used[p]}

FinderSettings(n) == [p \in Finder |-> n.used[p]]

\* check_config_publish(); end_bin, when valid, takes the value of end_azimuth
CheckConfigPublish(n) ==
    LET m == Reread(n)
        replaced == {p \in FinderChanged(n) : ~FinderValid(n, p)}
    IN  [m EXCEPT
          !.rotations = 0,
          !.param = [p \in DOMAIN @ |-> IF p \in replaced THEN FinderFallback(n, p)
                                        ELSE IF p \in Finder THEN n.param[p] ELSE @[p]],
          !.used = [p \in DOMAIN @ |->
                       IF p = "end_bin" /\ Valid(n, p) THEN UInt16(n.param["end_azimuth"])
                       ELSE IF p \in replaced THEN n.used[p]
                       ELSE IF p \in Finder THEN n.param[p] ELSE @[p]]]

PeakPoints(n, peaks, i) ==
    IF InSector(n, i) THEN {<<Adjusted(n, i), b>> : b \in {b \in peaks : InWindow(n, b)}}
                      ELSE {}

MustReconfigure(m) == m.rotations >= ConfigPublishCount /\ FinderChanged(m) # {}

----------------------------------------------------------------------------
NavInit ==
    /\ \E param \in NavLaunch, local \in BOOLEAN :
        navigation = [samples |-> 0, bins |-> 0, last |-> 0, rotations |-> 0, param |-> param,
                      used |-> Taken(param), local |-> local, points |-> {}]
    /\ inForce = NotConfigured
    /\ connection = [configs |-> 0, settings |-> 0, up |-> FALSE]
    /\ navReadings = 0

\* Configure the finder in the node, or send the radar its settings, which
\* send() drops when it is not connected or finds out that it is not.  (The link
\* may be a new one, too, whose configuration has not come yet or never will.)
Configures(n, link) ==
    \/ inForce' = FinderSettings(n) /\ connection' = link
    \/ ~n.local /\ inForce' = inForce /\ connection' = [link EXCEPT !.up = FALSE]

\* then ask for the data that belong to it
NavConfigurationData ==
    /\ connection.configs < NavMaxConfigs
    /\ navigation' = [navigation EXCEPT !.samples = Samples, !.bins = NavBins]
    /\ Configures(navigation, [connection EXCEPT !.configs = @ + 1, !.up = TRUE])
    /\ navReadings' = 0

\* The connection is lost: what is queued of it is still handled.
NavConnectionLost ==
    /\ connection.up
    /\ connection' = [connection EXCEPT !.up = FALSE]
    /\ UNCHANGED <<navigation, inForce, navReadings>>

\* the radar's navigation data, or the targets of the local peak finder
NavigationData(azimuth, peaks) ==
    LET d == [azimuth |-> azimuth]
        n == [navigation EXCEPT
                !.points = IF RotationEnds(navigation, d) THEN {}
                           ELSE @ \cup PeakPoints(navigation, peaks, AzimuthIndex(azimuth)),
                !.last = azimuth,
                !.rotations = IF RotationEnds(navigation, d) THEN @ + 1 ELSE @]
    IN  /\ connection.configs > 0
        /\ navigation' = IF n.rotations >= ConfigPublishCount THEN CheckConfigPublish(n) ELSE n
        /\ IF MustReconfigure(n) THEN Configures(CheckConfigPublish(n), connection)
                                 ELSE UNCHANGED <<inForce, connection>>
        /\ navReadings' = IF n.rotations >= ConfigPublishCount
                          THEN Min({navReadings + 1, 2}) ELSE navReadings

NavSetParameter(name, value) ==
    /\ connection.settings < NavMaxSettings
    /\ connection' = [connection EXCEPT !.settings = @ + 1]
    /\ navigation' = [navigation EXCEPT !.param[name] = value]
    /\ navReadings' = 0
    /\ UNCHANGED inForce

NavNext ==
    \/ NavConfigurationData
    \/ NavConnectionLost
    \/ \E a \in Azimuths, peaks \in SUBSET (0..(NavBins - 1)) : NavigationData(a, peaks)
    \/ \E s \in NavSettings : NavSetParameter(s[1], s[2])

----------------------------------------------------------------------------
(* The peak finder, in the node or on the radar, works with what the node    *)
(* believes it does, after every reconnection and every setting: on the      *)
(* radar from each configuration until the link is lost, and again from the  *)
(* next.  And what was set is in use after two readings of the parameters,   *)
(* or replaced by something valid that is: all but end_bin, which the second *)
(* reading of end_azimuth overwrites (README.md:236 of nav_ros: "The end bin *)
(* for which you want to stop processing radar data").                       *)
NavSettingsTakeEffect ==
    /\ connection.configs > 0 /\ (navigation.local \/ connection.up)
           => inForce = FinderSettings(navigation)
    /\ navReadings = 2 => \A p \in DOMAIN navigation.param \ {"end_bin"} :
                          navigation.used[p] = UInt16(navigation.param[p])
=============================================================================
