-------------------------- MODULE MCRosWorkspaces --------------------------
EXTENDS RosWorkspaces, TLC

Param(offset, endAzimuth, endBin, threshold) ==
    [azimuth_offset |-> offset, start_azimuth |-> 0, end_azimuth |-> endAzimuth,
     start_bin |-> 0, end_bin |-> endBin, power_threshold |-> threshold]

FinderParam == [bins_to_operate_on |-> 5, min_bin |-> 0, max_peaks_per_azimuth |-> 2]

MCLaunch == {Param(0, 400, 2, 0), Param(399, 2, 2, 300)}
MCSettings == {<<"azimuth_offset", -1>>, <<"azimuth_offset", 401>>, <<"end_bin", 1>>,
               <<"power_threshold", 9>>}
MCNavLaunch == {FinderParam @@ Param(0, 400, 1, 63), FinderParam @@ Param(9, 2, 2, 300)}
MCNavSettings == {<<"azimuth_offset", -1>>, <<"end_bin", 1>>, <<"start_bin", 1>>,
                  <<"end_azimuth", 401>>, <<"bins_to_operate_on", 11>>, <<"min_bin", 1>>,
                  <<"power_threshold", 256>>, <<"max_peaks_per_azimuth", 6>>}
MCConfigs == {[bins |-> 4, azimuths |-> 2], [bins |-> 6, azimuths |-> 3]}
MCKinds == {"colossus", "colossus_and_camera", "camera"}

\* The subscribers see of an image its configuration only.  So lost azimuths, which change
\* its columns and delay it, are left to the one with the fewest states of its own, and
\* two turns less are enough for the one with the most.
SubscriberBound ==
    /\ taker # "detector" => polarRadar.lost = 0
    /\ taker = "platform" => polarRadar.turn < PolarTurns - 1
=============================================================================
