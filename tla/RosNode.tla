------------------------------ MODULE RosNode ------------------------------
(***************************************************************************)
(* What the four ROS 2 nodes that turn radar data into images, scans and   *)
(* clouds have in common: the row an azimuth falls on, the rotations they  *)
(* count, and the parameters they read again after ConfigPublishCount of   *)
(* them.  A node is a record; an operator returns the node's next record.  *)
(* An azimuth is counted in steps of the encoder that give one azimuth.    *)
(***************************************************************************)
EXTENDS Integers, Sequences, FiniteSets, FiniteSetsExt

CONSTANTS Samples,            \* azimuth_samples of the radar's configuration
          Azimuths,           \* the azimuths that it sends, of 0..Samples - 1
          ConfigPublishCount  \* rotations between two readings of the parameters

Word == {x \in Nat : x < 65536}  \* uint16_t

ASSUME SamplesAssumption == Samples \in Word \ {0}
ASSUME AzimuthsAssumption == Azimuths \subseteq 0..(Samples - 1)
ASSUME CountAssumption == ConfigPublishCount \in Nat \ {0}

UInt16(x) == x % 65536

(***************************************************************************)
(* The row of an azimuth: int(angle / (360.0 / azimuth_samples)), of an    *)
(* angle that radar_client.cpp:335 computed in single precision.  Num/Den  *)
(* is one azimuth in degrees; the angle of azimuth k is Num*k/Den rounded  *)
(* to 24 bits, half to even.  Rounded down it is less than k azimuths, and *)
(* the conversion to int makes it k - 1.  The division is done in double   *)
(* precision, whose error is too small to matter.                          *)
(***************************************************************************)
Common == Max({g \in 1..360 : 360 % g = 0 /\ Samples % g = 0})
Num == 360 \div Common
Den == Samples \div Common

Scaled[x \in Nat] == IF x >= 8388608 * Den THEN x ELSE Scaled[2 * x]

ComesEarly(k) ==
    LET mantissa  == Scaled[Num * k] \div Den
        remainder == Scaled[Num * k] % Den
    IN  /\ remainder # 0
        /\ \/ 2 * remainder < Den
           \/ 2 * remainder = Den /\ mantissa % 2 = 0

Early == {k \in Azimuths \ {0} : ComesEarly(k)}

AzimuthIndex(k) == IF k \in Early THEN k - 1 ELSE k

AdjustedNever(n, i) == i + n.used.azimuth_offset

\* only the upper end is corrected, and by one rotation
Adjusted(n, i) ==
    LET j == i + n.used.azimuth_offset
    IN  IF j >= n.samples THEN j - n.samples ELSE j

InSector(n, i) == i >= n.used.start_azimuth /\ i < n.used.end_azimuth
InWindow(n, b) == b >= n.used.start_bin /\ b < n.used.end_bin

----------------------------------------------------------------------------
(* Parameters: `param` is what the parameter server holds, `used` what the *)
(* node works with.                                                        *)

\* the constructor takes every value as it is, in 16 bits
Taken(param) == [p \in DOMAIN param |-> UInt16(param[p])]

Valid(n, p) ==
    LET v == n.param[p]
    IN  CASE p = "azimuth_offset" -> v <= n.samples
          [] p \in {"start_azimuth", "end_azimuth"} -> v \in 0..n.samples
          [] p \in {"start_bin", "end_bin"} -> v \in 0..n.bins
          [] OTHER -> v \in 0..255

Fallback(n, p) ==
    CASE p \in {"azimuth_offset", "end_azimuth"} -> n.samples
      [] p \in {"start_azimuth", "start_bin"} -> 0
      [] p = "end_bin" -> n.bins
      [] OTHER -> n.used[p]

RereadLeavesInvalid(n) ==
    [n EXCEPT !.used = [p \in DOMAIN n.param |->
                          IF Valid(n, p) THEN UInt16(n.param[p]) ELSE n.used[p]]]

\* an invalid parameter is replaced, and taken over with the next reading
Reread(n) ==
    [n EXCEPT
        !.param = [p \in DOMAIN n.param |->
                     IF Valid(n, p) THEN n.param[p] ELSE Fallback(n, p)],
        !.used = [p \in DOMAIN n.param |->
                     IF Valid(n, p) THEN UInt16(n.param[p]) ELSE n.used[p]]]

RotationEnds(n, d) == d.azimuth < n.last

\* the end of a handler: count the rotation, remember the azimuth, and after
\* ConfigPublishCount rotations read the parameters
Turned(n, d) ==
    LET m == [n EXCEPT !.last = d.azimuth,
                       !.rotations = IF RotationEnds(n, d) THEN @ + 1 ELSE @]
    IN  IF m.rotations >= ConfigPublishCount
        THEN [Reread(m) EXCEPT !.rotations = 0]
        ELSE m
=============================================================================
