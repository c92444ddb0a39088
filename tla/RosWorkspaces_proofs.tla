------------------------ MODULE RosWorkspaces_proofs ------------------------
(***************************************************************************)
(* Theorems about the nodes of the two ROS workspaces, for every number    *)
(* of azimuths and bins, every range of parameters and every bound.        *)
(***************************************************************************)
EXTENDS RosWorkspaces, SequenceTheorems, TLAPS

Base == {"samples", "bins", "last", "rotations", "param", "used"}

\* A node: its own fields beside those all have, and its parameters
IsNode(n, own, names) ==
    /\ DOMAIN n = Base \cup own
    /\ n.samples \in Nat /\ n.bins \in Nat /\ n.last \in Nat
    /\ n.rotations \in 0..(ConfigPublishCount - 1)
    /\ n.param \in [names -> Int] /\ n.used \in [names -> Word]

----------------------------------------------------------------------------
(* A node *)

LEMMA RowFacts ==
    ASSUME NEW k \in Azimuths
    PROVE  /\ k \in 0..(Samples - 1) /\ AzimuthIndex(k) \in 0..(Samples - 1)
<1>1. k \in 0..(Samples - 1) /\ Samples \in Nat BY SamplesAssumption, AzimuthsAssumption DEF Word
<1>2. k \in Early => k # 0 BY DEF Early
<1> QED BY <1>1, <1>2 DEF AzimuthIndex

LEMMA UInt16Facts == ASSUME NEW x \in Int PROVE UInt16(x) \in Word
BY DEF UInt16, Word

LEMMA UInt16Same == ASSUME NEW x \in Word PROVE UInt16(x) = x
BY DEF UInt16, Word

\* What a reading makes of the parameters
ParamRead(n) == [p \in DOMAIN n.param |-> IF Valid(n, p) THEN n.param[p] ELSE Fallback(n, p)]
UsedRead(n) == [p \in DOMAIN n.param |-> IF Valid(n, p) THEN UInt16(n.param[p]) ELSE n.used[p]]
ReadDue(n, d) == RotationEnds(n, d) /\ n.rotations + 1 >= ConfigPublishCount

\* What a handler does to what all nodes have
Moves(n, d, m) ==
    /\ m.samples = n.samples /\ m.bins = n.bins /\ m.last = d.azimuth
    /\ m.rotations = IF ReadDue(n, d) THEN 0
                     ELSE IF RotationEnds(n, d) THEN n.rotations + 1 ELSE n.rotations
    /\ m.param = IF ReadDue(n, d) THEN ParamRead(n) ELSE n.param
    /\ m.used = IF ReadDue(n, d) THEN UsedRead(n) ELSE n.used

\* The end of a handler: the azimuth and the rotations are counted, and when they are
\* due the parameters read; the node's data stay.
LEMMA TurnedFacts ==
    ASSUME NEW n, NEW own, NEW names, IsNode(n, own, names), own \cap Base = {},
           names \subseteq ViewParams, NEW d, d.azimuth \in Nat
    PROVE  /\ IsNode(Turned(n, d), own, names)
           /\ Moves(n, d, Turned(n, d))
           /\ \A f \in own : Turned(n, d)[f] = n[f]
<1> DEFINE k == [n EXCEPT !.last = d.azimuth,
                          !.rotations = IF RotationEnds(n, d) THEN @ + 1 ELSE @]
           m == Turned(n, d)
<1>0. /\ DOMAIN n = Base \cup own /\ n.samples \in Nat /\ n.bins \in Nat
      /\ n.rotations \in 0..(ConfigPublishCount - 1) /\ ConfigPublishCount \in Nat
      /\ ConfigPublishCount >= 1
      /\ n.param \in [names -> Int] /\ n.used \in [names -> Word]
  BY CountAssumption DEF IsNode
<1>1. /\ DOMAIN k = Base \cup own /\ k.samples = n.samples /\ k.bins = n.bins
      /\ k.last = d.azimuth /\ k.param = n.param /\ k.used = n.used
      /\ k.rotations = IF RotationEnds(n, d) THEN n.rotations + 1 ELSE n.rotations
  BY <1>0 DEF Base
<1>2. \A f \in own : k[f] = n[f] BY <1>0 DEF Base
<1> HIDE DEF k
<1>3. k.rotations >= ConfigPublishCount <=> ReadDue(n, d)
  BY <1>0, <1>1 DEF ReadDue
<1>4. \A p \in names : /\ Valid(k, p) <=> Valid(n, p)
                       /\ Fallback(k, p) = Fallback(n, p)
  BY <1>1 DEF Valid, Fallback
<1>5. CASE ~ReadDue(n, d)
  <2>1. m = k BY <1>3, <1>5 DEF Turned, k
  <2>2. k.rotations \in 0..(ConfigPublishCount - 1) BY <1>0, <1>1, <1>3, <1>5
  <2> QED BY <1>0, <1>1, <1>2, <1>5, <2>1, <2>2 DEF IsNode, Moves
<1>6. CASE ReadDue(n, d)
  <2>1. m = [Reread(k) EXCEPT !.rotations = 0] BY <1>3, <1>6 DEF Turned, k
  <2>2. /\ DOMAIN Reread(k) = Base \cup own
        /\ Reread(k).param = [p \in DOMAIN k.param |->
               IF Valid(k, p) THEN k.param[p] ELSE Fallback(k, p)]
        /\ Reread(k).used = [p \in DOMAIN k.param |->
               IF Valid(k, p) THEN UInt16(k.param[p]) ELSE k.used[p]]
        /\ Reread(k).samples = k.samples /\ Reread(k).bins = k.bins /\ Reread(k).last = k.last
        /\ \A f \in own : Reread(k)[f] = k[f]
    BY <1>1, Zenon DEF Reread, Base
  <2>3. Reread(k).param = ParamRead(n) /\ Reread(k).used = UsedRead(n)
    BY <1>0, <1>1, <1>4, <2>2 DEF ParamRead, UsedRead
  <2>4. /\ DOMAIN m = Base \cup own /\ m.param = ParamRead(n) /\ m.used = UsedRead(n)
        /\ m.samples = n.samples /\ m.bins = n.bins /\ m.last = d.azimuth /\ m.rotations = 0
        /\ \A f \in own : m[f] = n[f]
    <3> HIDE DEF m
    <3> QED BY <1>1, <1>2, <2>1, <2>2, <2>3 DEF Base
  <2>5. ParamRead(n) \in [names -> Int]
    <3>1. \A p \in names : Fallback(n, p) \in Int BY <1>0 DEF Fallback, Word
    <3> QED BY <1>0, <3>1 DEF ParamRead
  <2>6. UsedRead(n) \in [names -> Word]
    <3>1. \A p \in names : UInt16(n.param[p]) \in Word BY <1>0, UInt16Facts
    <3> QED BY <1>0, <3>1 DEF UsedRead
  <2> QED BY <1>0, <1>6, <2>4, <2>5, <2>6 DEF IsNode, Moves
<1> QED BY <1>5, <1>6

Alike(n, w) ==
    /\ w.samples = n.samples /\ w.bins = n.bins /\ w.last = n.last
    /\ w.rotations = n.rotations /\ w.param = n.param /\ w.used = n.used

LEMMA MovesAlike ==
    ASSUME NEW n, NEW w, Alike(n, w), NEW d, NEW m, Moves(w, d, m)
    PROVE  Moves(n, d, m)
<1>1. RotationEnds(w, d) <=> RotationEnds(n, d) BY DEF Alike, RotationEnds
<1>2. ReadDue(w, d) <=> ReadDue(n, d) BY <1>1 DEF Alike, ReadDue
<1>3. \A p : (Valid(w, p) <=> Valid(n, p)) /\ Fallback(w, p) = Fallback(n, p)
  BY DEF Alike, Valid, Fallback
<1>4. ParamRead(w) = ParamRead(n) BY <1>3 DEF Alike, ParamRead
<1>5. UsedRead(w) = UsedRead(n) BY <1>3 DEF Alike, UsedRead
<1> QED BY <1>1, <1>2, <1>4, <1>5 DEF Moves, Alike

----------------------------------------------------------------------------
(* The views: a behaviour is that of one of the three nodes *)

ImageParams == ViewParams \ {"power_threshold"}

IsBScan(n) == IsNode(n, {"size", "cells"}, ImageParams) /\ n.size \in Nat
IsLaserScan(n) == IsNode(n, {"ranges"}, ViewParams)
IsPointCloud(n) == IsNode(n, {"points"}, ViewParams)

NodeOwn == IF view = "b_scan" THEN {"size", "cells"}
           ELSE IF view = "laser_scan" THEN {"ranges"} ELSE {"points"}
NodeParams == IF view = "b_scan" THEN ImageParams ELSE ViewParams

ViewType ==
    /\ DOMAIN radar = {"configs", "bins"}
    /\ radar.configs \in Nat
    /\ radar.bins \in Nat
    /\ view \in Views
    /\ view = "b_scan" => IsBScan(node)
    /\ view = "laser_scan" => IsLaserScan(node)
    /\ view = "point_cloud" => IsPointCloud(node)

\* A node has the sizes of the last configuration.
StepInv ==
    radar.configs > 0 => /\ node.samples = Samples
                         /\ node.bins = radar.bins
                         /\ radar.bins \in BinCounts

LEMMA SizesFacts ==
    /\ Samples \in Nat /\ Samples > 0
    /\ \A bins \in BinCounts : bins \in Nat /\ bins > 0
    /\ ConfigPublishCount \in Nat /\ ConfigPublishCount > 0
BY SamplesAssumption, ViewsAssumption, CountAssumption DEF Word

LEMMA ViewParamsFacts ==
    /\ ImageParams \subseteq ViewParams
    /\ ImageParams = {"azimuth_offset", "start_azimuth", "end_azimuth", "start_bin", "end_bin"}
BY DEF ImageParams, ViewParams

\* Whichever node it is, it is a node.
LEMMA ViewIsNode ==
    ASSUME ViewType
    PROVE  /\ IsNode(node, NodeOwn, NodeParams)
           /\ NodeOwn \cap Base = {} /\ NodeParams \subseteq ViewParams
           /\ ImageParams \subseteq NodeParams
<1>1. IsNode(node, NodeOwn, NodeParams)
  BY DEF ViewType, Views, IsBScan, IsLaserScan, IsPointCloud, NodeOwn, NodeParams
<1>2. NodeOwn \cap Base = {} BY DEF NodeOwn, Base
<1> QED BY <1>1, <1>2, ViewParamsFacts DEF NodeParams

LEMMA ImageFacts ==
    ASSUME NEW n, n.samples \in Nat, n.bins \in Nat
    PROVE  /\ Image(n) \in Nat
           /\ n.samples > 0 /\ n.bins > 0 => Image(n) > 0
<1>1. \A x, y \in Nat : x * y \in Nat /\ (x > 0 /\ y > 0 => x * y > 0) OBVIOUS
<1> QED BY <1>1 DEF Image

\* The vector grows by an image, or holds two of them already.
LEMMA GrownFacts ==
    ASSUME NEW n, DOMAIN n = Base \cup {"size", "cells"}, n.size \in Nat,
           n.samples \in Nat, n.bins \in Nat
    PROVE  /\ DOMAIN Grown(n) = Base \cup {"size", "cells"}
           /\ Alike(n, Grown(n))
           /\ Grown(n).cells = n.cells
           /\ Grown(n).size \in Nat
           /\ Image(n) > 0 => \/ Grown(n).size = n.size + Image(n)
                              \/ Grown(n).size = n.size /\ n.size > Image(n)
<1>1. Image(n) \in Nat BY ImageFacts
<1>2. MaxImages \in Nat /\ MaxImages >= 2 BY ViewsAssumption
<1>3. \A x, y \in Nat : x >= 2 => x * y \in Nat /\ x * y >= 2 * y OBVIOUS
<1>4. MaxImages * Image(n) \in Nat /\ MaxImages * Image(n) >= 2 * Image(n)
  BY <1>1, <1>2, <1>3
<1>5. CASE n.size >= MaxImages * Image(n)
  <2>1. Grown(n) = n BY <1>5 DEF Grown
  <2> QED BY <1>1, <1>4, <1>5, <2>1 DEF Alike
<1>6. CASE ~(n.size >= MaxImages * Image(n))
  <2>1. Grown(n) = [n EXCEPT !.size = n.size + Image(n)] BY <1>6 DEF Grown
  <2> QED BY <1>1, <2>1 DEF Alike, Base
<1> QED BY <1>5, <1>6

LEMMA NodeFacts ==
    ASSUME NEW n, NEW own, NEW names, IsNode(n, own, names)
    PROVE  /\ DOMAIN n = Base \cup own
           /\ n.samples \in Nat /\ n.bins \in Nat /\ n.last \in Nat
           /\ n.rotations \in 0..(ConfigPublishCount - 1)
           /\ n.param \in [names -> Int] /\ n.used \in [names -> Word]
BY DEF IsNode

LEMMA AlikeNode ==
    ASSUME NEW n, NEW own, NEW names, IsNode(n, own, names), NEW w, Alike(n, w),
           DOMAIN w = DOMAIN n
    PROVE  IsNode(w, own, names)
BY DEF IsNode, Alike

LEMMA BScanStep ==
    ASSUME NEW n, IsBScan(n), NEW d, d.azimuth \in Nat
    PROVE  LET m == BScanFftData(n, d)
           IN  /\ IsBScan(m)
               /\ Moves(n, d, m)
               /\ m.cells = IF RotationEnds(n, d) /\ ImagePublished(n) THEN {} ELSE BScanRow(n, d)
               /\ ~RotationEnds(n, d) => m.size = n.size
               /\ RotationEnds(n, d) /\ Image(n) > 0 =>
                     /\ ImagePublished(n) => m.size = Image(n)
                     /\ n.size > Image(n) => m.size > Image(n)
<1> DEFINE written == [n EXCEPT !.cells = BScanRow(n, d)]
           moved == IF ImagePublished(n) THEN [written EXCEPT !.size = 0, !.cells = {}]
                                         ELSE written
           w == IF RotationEnds(n, d) THEN Grown(moved) ELSE written
           m == BScanFftData(n, d)
<1>0. m = Turned(w, d) BY DEF BScanFftData
<1>n. /\ DOMAIN n = Base \cup {"size", "cells"} /\ n.size \in Nat
      /\ n.samples \in Nat /\ n.bins \in Nat
  BY NodeFacts DEF IsBScan
<1>1. /\ DOMAIN written = Base \cup {"size", "cells"} /\ Alike(n, written)
      /\ written.size = n.size /\ written.cells = BScanRow(n, d)
  BY <1>n DEF Base, Alike
<1> HIDE DEF written
<1>2. /\ DOMAIN moved = Base \cup {"size", "cells"} /\ Alike(n, moved)
      /\ moved.size = IF ImagePublished(n) THEN 0 ELSE n.size
      /\ moved.cells = IF ImagePublished(n) THEN {} ELSE BScanRow(n, d)
  BY <1>1 DEF Base, Alike
<1> HIDE DEF moved
<1>3. moved.size \in Nat /\ moved.samples \in Nat /\ moved.bins \in Nat /\ Image(moved) = Image(n)
  BY <1>n, <1>2 DEF Alike, Image
<1>g. /\ DOMAIN Grown(moved) = Base \cup {"size", "cells"}
      /\ Alike(moved, Grown(moved))
      /\ Grown(moved).cells = moved.cells
      /\ Grown(moved).size \in Nat
      /\ Image(n) > 0 => \/ Grown(moved).size = moved.size + Image(n)
                         \/ Grown(moved).size = moved.size /\ moved.size > Image(n)
  <2>0. /\ DOMAIN moved = Base \cup {"size", "cells"}
        /\ moved.size \in Nat
        /\ moved.samples \in Nat
        /\ moved.bins \in Nat
    BY <1>2, <1>3
  <2>1. /\ DOMAIN Grown(moved) = Base \cup {"size", "cells"}
        /\ Alike(moved, Grown(moved))
        /\ Grown(moved).cells = moved.cells
        /\ Grown(moved).size \in Nat
        /\ Image(moved) > 0 => \/ Grown(moved).size = moved.size + Image(moved)
                               \/ Grown(moved).size = moved.size /\ moved.size > Image(moved)
    BY <2>0, GrownFacts
  <2> QED BY <1>3, <2>1
<1>4. /\ DOMAIN w = Base \cup {"size", "cells"} /\ Alike(n, w) /\ w.size \in Nat
      /\ w.cells = IF RotationEnds(n, d) /\ ImagePublished(n) THEN {} ELSE BScanRow(n, d)
      /\ ~RotationEnds(n, d) => w.size = n.size
  BY <1>n, <1>1, <1>2, <1>g DEF Alike
<1>5. RotationEnds(n, d) /\ Image(n) > 0 =>
         /\ ImagePublished(n) => w.size = Image(n)
         /\ n.size > Image(n) => w.size > Image(n)
  <2>1. Image(n) \in Nat BY <1>n, ImageFacts
  <2>2. ImagePublished(n) <=> n.size = Image(n) BY DEF ImagePublished
  <2> QED BY <1>n, <1>2, <1>g, <2>1, <2>2
<1> HIDE DEF w
<1>6. IsNode(w, {"size", "cells"}, ImageParams)
  BY <1>n, <1>4, AlikeNode DEF IsBScan
<1>7. /\ IsNode(m, {"size", "cells"}, ImageParams) /\ Moves(w, d, m)
      /\ m.size = w.size /\ m.cells = w.cells
  <2>1. {"size", "cells"} \cap Base = {} BY DEF Base
  <2>2. \A f \in {"size", "cells"} : Turned(w, d)[f] = w[f]
    BY <1>6, <2>1, ViewParamsFacts, TurnedFacts
  <2>3. IsNode(m, {"size", "cells"}, ImageParams) /\ Moves(w, d, m)
    BY <1>0, <1>6, <2>1, ViewParamsFacts, TurnedFacts
  <2> QED BY <1>0, <2>2, <2>3
<1>8. Moves(n, d, m) BY <1>4, <1>7, MovesAlike
<1> QED BY <1>4, <1>5, <1>7, <1>8 DEF IsBScan

LEMMA LaserScanStep ==
    ASSUME NEW n, IsLaserScan(n), NEW d, d.azimuth \in Nat
    PROVE  LET m == LaserScanFftData(n, d)
           IN  /\ IsLaserScan(m)
               /\ Moves(n, d, m)
               /\ m.ranges = [r \in DOMAIN n.ranges \cup {RowOf(n, d)} |->
                                 IF r = RowOf(n, d)
                                 THEN IF Inside(n, d) THEN FirstPeak(n, d) ELSE 0
                                 ELSE n.ranges[r]]
<1> DEFINE ranges == [r \in DOMAIN n.ranges \cup {RowOf(n, d)} |->
                         IF r = RowOf(n, d)
                         THEN IF Inside(n, d) THEN FirstPeak(n, d) ELSE 0
                         ELSE n.ranges[r]]
           w == [n EXCEPT !.ranges = ranges]
           m == LaserScanFftData(n, d)
<1>0. m = Turned(w, d) BY DEF LaserScanFftData
<1>n. DOMAIN n = Base \cup {"ranges"} BY NodeFacts DEF IsLaserScan
<1> HIDE DEF ranges
<1>1. DOMAIN w = Base \cup {"ranges"} /\ Alike(n, w) /\ w.ranges = ranges
  BY <1>n DEF Base, Alike
<1> HIDE DEF w
<1>2. IsNode(w, {"ranges"}, ViewParams) BY <1>n, <1>1, AlikeNode DEF IsLaserScan
<1>3. {"ranges"} \cap Base = {} BY DEF Base
<1>4. \A f \in {"ranges"} : Turned(w, d)[f] = w[f] BY <1>2, <1>3, TurnedFacts
<1>5. IsNode(m, {"ranges"}, ViewParams) /\ Moves(w, d, m) BY <1>0, <1>2, <1>3, TurnedFacts
<1>6. Moves(n, d, m) BY <1>1, <1>5, MovesAlike
<1>7. m.ranges = ranges BY <1>0, <1>1, <1>4
<1> QED BY <1>5, <1>6, <1>7 DEF IsLaserScan, ranges

LEMMA PointCloudStep ==
    ASSUME NEW n, IsPointCloud(n), NEW d, d.azimuth \in Nat
    PROVE  LET m == PointCloudFftData(n, d)
           IN  /\ IsPointCloud(m)
               /\ Moves(n, d, m)
               /\ m.points = IF RotationEnds(n, d) THEN {} ELSE Points(n, d)
<1> DEFINE points == IF RotationEnds(n, d) THEN {} ELSE Points(n, d)
           w == [n EXCEPT !.points = points]
           m == PointCloudFftData(n, d)
<1>0. m = Turned(w, d) BY DEF PointCloudFftData
<1>n. DOMAIN n = Base \cup {"points"} BY NodeFacts DEF IsPointCloud
<1> HIDE DEF points
<1>1. DOMAIN w = Base \cup {"points"} /\ Alike(n, w) /\ w.points = points
  BY <1>n DEF Base, Alike
<1> HIDE DEF w
<1>2. IsNode(w, {"points"}, ViewParams) BY <1>n, <1>1, AlikeNode DEF IsPointCloud
<1>3. {"points"} \cap Base = {} BY DEF Base
<1>4. \A f \in {"points"} : Turned(w, d)[f] = w[f] BY <1>2, <1>3, TurnedFacts
<1>5. IsNode(m, {"points"}, ViewParams) /\ Moves(w, d, m) BY <1>0, <1>2, <1>3, TurnedFacts
<1>6. Moves(n, d, m) BY <1>1, <1>5, MovesAlike
<1>7. m.points = points BY <1>0, <1>1, <1>4
<1> QED BY <1>5, <1>6, <1>7 DEF IsPointCloud, points

\* A configuration changes the size, and the end of the window in the nodes that reset it.
LEMMA BScanConfigured ==
    ASSUME NEW n, IsBScan(n), NEW bins \in BinCounts
    PROVE  LET m == BScanConfiguration(n, bins)
           IN  /\ IsBScan(m)
               /\ m.samples = Samples /\ m.bins = bins /\ m.last = n.last
               /\ m.rotations = n.rotations /\ m.param = n.param /\ m.used = n.used
               /\ m.cells = n.cells
               /\ n.size = 0 => m.size = Image(m)
               /\ n.size > 0 => m.size > Image(m)
               /\ m.size > 0
<1> DEFINE w == [n EXCEPT !.samples = Samples, !.bins = bins]
           m == BScanConfiguration(n, bins)
<1>0. m = Grown(w) BY DEF BScanConfiguration
<1>n. /\ DOMAIN n = Base \cup {"size", "cells"}
      /\ n.samples \in Nat /\ n.bins \in Nat /\ n.last \in Nat
      /\ n.rotations \in 0..(ConfigPublishCount - 1)
      /\ n.param \in [ImageParams -> Int] /\ n.used \in [ImageParams -> Word]
      /\ n.size \in Nat
  BY NodeFacts DEF IsBScan
<1>1. /\ DOMAIN w = Base \cup {"size", "cells"} /\ w.samples = Samples /\ w.bins = bins
      /\ w.last = n.last /\ w.rotations = n.rotations /\ w.param = n.param /\ w.used = n.used
      /\ w.size = n.size /\ w.cells = n.cells
  BY <1>n DEF Base
<1> HIDE DEF w
<1>2. w.size \in Nat /\ w.samples \in Nat /\ w.bins \in Nat /\ w.samples > 0 /\ w.bins > 0
  BY <1>n, <1>1, SizesFacts
<1>3. Image(w) \in Nat /\ Image(w) > 0 BY <1>2, ImageFacts
<1>4. /\ DOMAIN m = Base \cup {"size", "cells"}
      /\ Alike(w, m)
      /\ m.cells = w.cells
      /\ m.size \in Nat
      /\ m.size = w.size + Image(w) \/ (m.size = w.size /\ w.size > Image(w))
  BY <1>0, <1>1, <1>2, <1>3, GrownFacts
<1>5. Image(m) = Image(w) BY <1>4 DEF Alike, Image
<1>6. IsNode(w, {"size", "cells"}, ImageParams) BY <1>n, <1>1, <1>2 DEF IsNode
<1>7. IsNode(m, {"size", "cells"}, ImageParams) BY <1>1, <1>4, <1>6, AlikeNode
<1> QED BY <1>1, <1>2, <1>3, <1>4, <1>5, <1>7 DEF IsBScan, Alike

EndBinReset(n, bins) ==
    [n EXCEPT !.samples = Samples, !.bins = bins, !.used.end_bin = bins]

SameData(n, m, own) == \A f \in own : m[f] = n[f]

LEMMA EndBinResetFacts ==
    ASSUME NEW n, NEW own, IsNode(n, own, ViewParams), NEW bins \in BinCounts,
           own \cap Base = {}, NEW m, m = EndBinReset(n, bins)
    PROVE  /\ IsNode(m, own, ViewParams)
           /\ m.samples = Samples /\ m.bins = bins
           /\ SameData(n, m, own)
<1>n. /\ DOMAIN n = Base \cup own
      /\ n.samples \in Nat /\ n.bins \in Nat /\ n.last \in Nat
      /\ n.rotations \in 0..(ConfigPublishCount - 1)
      /\ n.param \in [ViewParams -> Int] /\ n.used \in [ViewParams -> Word]
  BY NodeFacts
<1>1. /\ DOMAIN m = Base \cup own /\ m.samples = Samples /\ m.bins = bins
      /\ m.last = n.last /\ m.rotations = n.rotations /\ m.param = n.param
      /\ m.used = [n.used EXCEPT !.end_bin = bins]
      /\ \A f \in own : m[f] = n[f]
  BY <1>n DEF Base, EndBinReset
<1>2. bins \in Word /\ bins \in Nat /\ Samples \in Nat
  BY ViewsAssumption, SizesFacts
<1>3. [n.used EXCEPT !.end_bin = bins] \in [ViewParams -> Word] BY <1>n, <1>2
<1>4. IsNode(m, own, ViewParams) BY <1>n, <1>1, <1>2, <1>3 DEF IsNode
<1> QED BY <1>1, <1>4 DEF SameData

\* Setting a parameter changes that parameter.
LEMMA SetFacts ==
    ASSUME NEW n, NEW own, NEW names, IsNode(n, own, names), NEW name \in names,
           NEW value \in Int, own \cap Base = {}
    PROVE  LET m == [n EXCEPT !.param[name] = value]
           IN  /\ IsNode(m, own, names)
               /\ m.samples = n.samples /\ m.bins = n.bins /\ m.last = n.last
               /\ m.rotations = n.rotations /\ m.used = n.used
               /\ SameData(n, m, own)
<1> DEFINE m == [n EXCEPT !.param[name] = value]
<1>n. /\ DOMAIN n = Base \cup own
      /\ n.samples \in Nat /\ n.bins \in Nat /\ n.last \in Nat
      /\ n.rotations \in 0..(ConfigPublishCount - 1)
      /\ n.param \in [names -> Int] /\ n.used \in [names -> Word]
  BY NodeFacts
<1>1. /\ DOMAIN m = Base \cup own /\ m.samples = n.samples /\ m.bins = n.bins
      /\ m.last = n.last /\ m.rotations = n.rotations /\ m.used = n.used
      /\ m.param = [n.param EXCEPT ![name] = value]
      /\ \A f \in own : m[f] = n[f]
  BY <1>n DEF Base
<1>2. m.param \in [names -> Int] BY <1>n, <1>1
<1>3. IsNode(m, own, names) BY <1>n, <1>1, <1>2 DEF IsNode
<1> QED BY <1>1, <1>3 DEF SameData

----------------------------------------------------------------------------
(* The rotation that is being written *)

SweptRows == IF published.ended THEN {} ELSE DOMAIN swept

\* As long as the radar was connected once, the vector is one image; nothing in it or in
\* the cloud is older than the rotation.
RotationInv ==
    /\ published.ended \in BOOLEAN
    /\ radar.configs = 0 => ~published.ended
    /\ view = "b_scan" =>
          /\ radar.configs = 0 => node.size = 0
          /\ radar.configs = 1 => node.size = Image(node)
          /\ radar.configs > 1 => node.size > Image(node)
          /\ radar.configs < 2 => \A c \in node.cells : c[1] \in SweptRows
    /\ view = "point_cloud" => \A c \in node.points : c[1] \in SweptRows
    /\ view = "laser_scan" => SweptRows \subseteq DOMAIN node.ranges

\* The rows of an image, a scan and a cloud, and what the node looked at in them
ImageShows(cells, row, r) == RowBins(cells, r) = Echoes(row.seen, row.threshold)
ScanShows(ranges, row, r) ==
    Echoes(row.seen, row.threshold) # {} => ranges[r] = Min(Echoes(row.seen, row.threshold))
CloudShows(points, row, r) == RowBins(points, r) = row.echoes

\* RowsAsReceived, of the rotation that is being written
ShowsInv ==
    \A r \in SweptRows :
        /\ view = "b_scan" /\ radar.configs < 2 => ImageShows(node.cells, swept[r], r)
        /\ view = "laser_scan" => ScanShows(node.ranges, swept[r], r)
        /\ view = "point_cloud" => CloudShows(node.points, swept[r], r)

\* What the first reading of the parameters leaves
ReadOnce(n) ==
    \A p \in DOMAIN n.param : IF p = "power_threshold" THEN n.used[p] = UInt16(n.param[p])
                                                       ELSE Valid(n, p)
ReadTwice(n) == \A p \in DOMAIN n.param : n.used[p] = UInt16(n.param[p])

SettleInv ==
    /\ readings \in 0..2
    /\ readings >= 1 => ReadOnce(node)
    /\ readings = 2 => ReadTwice(node)

ViewInv == ViewType /\ StepInv /\ RotationInv /\ ShowsInv /\ SettleInv

LEMMA ReadingFacts ==
    ASSUME NEW n, NEW own, NEW names, IsNode(n, own, names), names \subseteq ViewParams,
           NEW d, NEW m, Moves(n, d, m), IsNode(m, own, names)
    PROVE  /\ ReadDue(n, d) => ReadOnce(m)
           /\ ReadDue(n, d) /\ ReadOnce(n) => ReadTwice(m)
           /\ ~ReadDue(n, d) /\ ReadOnce(n) => ReadOnce(m)
           /\ ~ReadDue(n, d) /\ ReadTwice(n) => ReadTwice(m)
<1>1. /\ n.param \in [names -> Int] /\ n.used \in [names -> Word]
      /\ m.param \in [names -> Int] /\ m.used \in [names -> Word]
      /\ n.samples \in Nat /\ n.bins \in Nat /\ m.samples = n.samples /\ m.bins = n.bins
  BY NodeFacts DEF Moves
<1>2. CASE ~ReadDue(n, d)
  <2>1. m.param = n.param /\ m.used = n.used BY <1>2 DEF Moves
  <2>2. \A p : Valid(m, p) <=> Valid(n, p) BY <1>1, <2>1 DEF Valid
  <2> QED BY <1>2, <2>1, <2>2 DEF ReadOnce, ReadTwice
<1>3. CASE ReadDue(n, d)
  <2>1. \A p \in names : /\ m.param[p] = IF Valid(n, p) THEN n.param[p] ELSE Fallback(n, p)
                         /\ m.used[p] = IF Valid(n, p) THEN UInt16(n.param[p]) ELSE n.used[p]
    BY <1>1, <1>3 DEF Moves, ParamRead, UsedRead
  <2>2. \A p \in names \ {"power_threshold"} : Valid(m, p)
    <3> TAKE p \in names \ {"power_threshold"}
    <3>1. p \in {"azimuth_offset", "start_azimuth", "end_azimuth", "start_bin", "end_bin"}
      BY DEF ViewParams
    <3>2. CASE Valid(n, p) BY <1>1, <2>1, <3>2 DEF Valid
    <3>3. CASE ~Valid(n, p)
      <4>1. m.param[p] = Fallback(n, p) BY <2>1, <3>3
      <4> QED BY <1>1, <3>1, <4>1 DEF Valid, Fallback
    <3> QED BY <3>2, <3>3
  <2>3. "power_threshold" \in names => m.used["power_threshold"] = UInt16(m.param["power_threshold"])
    <3> DEFINE p == "power_threshold"
    <3>1. CASE Valid(n, p) BY <2>1, <3>1
    <3>2. CASE ~Valid(n, p) /\ p \in names
      <4>1. m.param[p] = Fallback(n, p) /\ m.used[p] = n.used[p] BY <2>1, <3>2
      <4>2. Fallback(n, p) = n.used[p] BY DEF Fallback
      <4>3. n.used[p] \in Word BY <1>1, <3>2
      <4> QED BY <4>1, <4>2, <4>3, UInt16Same
    <3> QED BY <3>1, <3>2
  <2>4. ReadOnce(m) BY <1>1, <2>2, <2>3 DEF ReadOnce
  <2>5. ReadOnce(n) => ReadTwice(m)
    <3> SUFFICES ASSUME ReadOnce(n), NEW p \in names PROVE m.used[p] = UInt16(m.param[p])
      BY <1>1 DEF ReadTwice
    <3>1. p # "power_threshold" => Valid(n, p) BY <1>1 DEF ReadOnce
    <3> QED BY <2>1, <2>3, <3>1
  <2> QED BY <1>3, <2>4, <2>5
<1> QED BY <1>2, <1>3

LEMMA MinOfTwo == \A x \in {1, 2, 3} : Min({x, 2}) = IF x = 1 THEN 1 ELSE 2
<1> TAKE x \in {1, 2, 3}
<1> DEFINE least == IF x = 1 THEN 1 ELSE 2
<1>1. least \in {x, 2} /\ \A y \in {x, 2} : least <= y OBVIOUS
<1>2. \A z \in {x, 2} : (\A y \in {x, 2} : z <= y) => z = least OBVIOUS
<1> HIDE DEF least
<1>3. Min({x, 2}) = least BY <1>1, <1>2 DEF Min
<1> QED BY <1>3 DEF least

LEMMA DataFacts ==
    ASSUME NEW d \in Data(radar.bins), radar.bins \in Nat
    PROVE  /\ d.azimuth \in Azimuths /\ d.azimuth \in Nat
           /\ AzimuthIndex(d.azimuth) \in 0..(Samples - 1)
           /\ d.data \in [0..(radar.bins - 1) -> {0, Strong}]
<1>1. d.azimuth \in Azimuths /\ d.data \in [0..(radar.bins - 1) -> {0, Strong}]
  BY DEF Data, Levels
<1> QED BY <1>1, RowFacts

\* The node after an azimuth
LEMMA FftSteps ==
    ASSUME ViewType, StepInv, NEW d \in Data(radar.bins), FftData(d)
    PROVE  /\ ViewType' /\ StepInv' /\ radar.configs > 0 /\ radar' = radar /\ view' = view
           /\ d.azimuth \in Nat
           /\ Moves(node, d, node')
           /\ NodeOwn' = NodeOwn /\ NodeParams' = NodeParams
<1>1. /\ radar.configs > 0 /\ radar' = radar /\ view' = view
      /\ view = "b_scan" => node' = BScanFftData(node, d)
      /\ view = "laser_scan" => node' = LaserScanFftData(node, d)
      /\ view = "point_cloud" => node' = PointCloudFftData(node, d)
  BY DEF FftData
<1>2. d.azimuth \in Nat BY DataFacts DEF ViewType
<1>3. CASE view = "b_scan"
  <2>1. IsBScan(node') /\ Moves(node, d, node') BY <1>1, <1>2, <1>3, BScanStep DEF ViewType
  <2>2. ViewType' BY <1>1, <1>3, <2>1 DEF ViewType
  <2>3. StepInv' BY <1>1, <2>1 DEF StepInv, Moves
  <2> QED BY <1>1, <1>2, <2>1, <2>2, <2>3 DEF NodeOwn, NodeParams
<1>4. CASE view = "laser_scan"
  <2>1. IsLaserScan(node') /\ Moves(node, d, node')
    BY <1>1, <1>2, <1>4, LaserScanStep DEF ViewType
  <2>2. ViewType' BY <1>1, <1>4, <2>1 DEF ViewType
  <2>3. StepInv' BY <1>1, <2>1 DEF StepInv, Moves
  <2> QED BY <1>1, <1>2, <2>1, <2>2, <2>3 DEF NodeOwn, NodeParams
<1>5. CASE view = "point_cloud"
  <2>1. IsPointCloud(node') /\ Moves(node, d, node')
    BY <1>1, <1>2, <1>5, PointCloudStep DEF ViewType
  <2>2. ViewType' BY <1>1, <1>5, <2>1 DEF ViewType
  <2>3. StepInv' BY <1>1, <2>1 DEF StepInv, Moves
  <2> QED BY <1>1, <1>2, <2>1, <2>2, <2>3 DEF NodeOwn, NodeParams
<1> QED BY <1>3, <1>4, <1>5 DEF ViewType, Views

LEMMA RowInside ==
    ASSUME ViewType, StepInv, radar.configs > 0, NEW d \in Data(radar.bins)
    PROVE  RowOf(node, d) >= Samples => node.used.azimuth_offset > Samples
<1>1. node.samples = Samples BY DEF StepInv
<1>2. node.used.azimuth_offset \in Nat
  <2>1. node.used \in [NodeParams -> Word] /\ ImageParams \subseteq NodeParams
    BY ViewIsNode, NodeFacts
  <2> QED BY <2>1, ViewParamsFacts DEF Word
<1>3. AzimuthIndex(d.azimuth) \in 0..(Samples - 1) BY DataFacts DEF ViewType
<1> QED BY <1>1, <1>2, <1>3, SizesFacts DEF RowOf, Adjusted

\* The echoes of an azimuth, and what is swept once it came
LitIn(n, d, threshold) ==
    {b \in DOMAIN d.data : Inside(n, d) /\ InWindow(n, b) /\ d.data[b] > threshold}

Now(d) ==
    [seen |-> Looked(node, d), threshold |-> Threshold(node),
     echoes |-> (IF RowOf(node, d) \in SweptRows THEN swept[RowOf(node, d)].echoes ELSE {})
                    \cup LitIn(node, d, Threshold(node))]

LEMMA LookedFacts ==
    ASSUME NEW n, NEW d, NEW threshold
    PROVE  Echoes(Looked(n, d), threshold) = LitIn(n, d, threshold)
<1> DEFINE seen == {b \in DOMAIN d.data : Inside(n, d) /\ InWindow(n, b)}
<1>1. DOMAIN Looked(n, d) = seen /\ \A b \in seen : Looked(n, d)[b] = d.data[b] BY DEF Looked
<1> QED BY <1>1 DEF Echoes, LitIn

LEMMA FftEnds ==
    ASSUME NEW d, FftData(d)
    PROVE  published'.ended = RotationEnds(node, d)
<1>1. CASE RotationEnds(node, d)
  <2>1. published'.ended = TRUE BY <1>1 DEF FftData
  <2> QED BY <1>1, <2>1 DEF RotationEnds
<1>2. CASE ~RotationEnds(node, d)
  <2>1. published'.ended = FALSE BY <1>2 DEF FftData
  <2>2. RotationEnds(node, d) = FALSE BY <1>2 DEF RotationEnds
  <2> QED BY <2>1, <2>2
<1> QED BY <1>1, <1>2

LEMMA SweptAfter ==
    ASSUME NEW d, FftData(d)
    PROVE  /\ DOMAIN swept' = SweptRows \cup {RowOf(node, d)}
           /\ \A r \in SweptRows \ {RowOf(node, d)} : swept'[r] = swept[r]
           /\ swept'[RowOf(node, d)] = Now(d)
           /\ SweptRows' = IF RotationEnds(node, d) THEN {} ELSE DOMAIN swept'
<1> DEFINE rows == IF published.ended THEN <<>> ELSE swept
           row == RowOf(node, d)
           now == [seen |-> Looked(node, d), threshold |-> Threshold(node),
                   echoes |-> (IF row \in DOMAIN rows THEN rows[row].echoes ELSE {})
                                  \cup Echoes(Looked(node, d), Threshold(node))]
<1>1. swept' = [r \in DOMAIN rows \cup {row} |-> IF r = row THEN now ELSE rows[r]]
  BY DEF FftData
<1>2. DOMAIN rows = SweptRows /\ \A r \in SweptRows : rows[r] = swept[r] BY DEF SweptRows
<1>3. now = Now(d)
  <2>1. Echoes(Looked(node, d), Threshold(node)) = LitIn(node, d, Threshold(node))
    BY LookedFacts
  <2>2. (IF row \in DOMAIN rows THEN rows[row].echoes ELSE {})
            = (IF row \in SweptRows THEN swept[row].echoes ELSE {})
    BY <1>2
  <2> HIDE DEF rows, row
  <2> QED BY <2>1, <2>2 DEF Now, row
<1>4. published'.ended = RotationEnds(node, d) BY FftEnds
<1> HIDE DEF rows, now
<1>5. SweptRows' = IF RotationEnds(node, d) THEN {} ELSE DOMAIN swept' BY <1>4 DEF SweptRows
<1> QED BY <1>1, <1>2, <1>3, <1>5

\* The bins of a row of the image, before and after it is written
LEMMA RowWritten ==
    ASSUME NEW n, NEW d, NEW r
    PROVE  RowBins(BScanRow(n, d), r) =
             IF r # RowOf(n, d) THEN RowBins(n.cells, r)
             ELSE IF Inside(n, d) THEN {b \in DOMAIN d.data : InWindow(n, b) /\ d.data[b] > 0}
             ELSE {}
<1> DEFINE row == RowOf(n, d)
           bins == {b \in DOMAIN d.data : InWindow(n, b) /\ d.data[b] > 0}
           lit == {<<row, b>> : b \in bins}
<1> HIDE DEF row, bins
<1>1. BScanRow(n, d) = {c \in n.cells : c[1] # row} \cup (IF Inside(n, d) THEN lit ELSE {})
  BY DEF BScanRow, row, bins
<1>2. CASE r # row
  <2>1. \A c \in lit : c[1] # r BY <1>2
  <2>2. {c \in BScanRow(n, d) : c[1] = r} = {c \in n.cells : c[1] = r}
    BY <1>1, <1>2, <2>1
  <2> QED BY <1>2, <2>2 DEF RowBins, row
<1>3. CASE r = row
  <2>1. {c \in BScanRow(n, d) : c[1] = r} = IF Inside(n, d) THEN lit ELSE {}
    BY <1>1, <1>3
  <2>2. {c[2] : c \in lit} = bins
    <3>1. \A b \in bins : <<row, b>> \in lit /\ <<row, b>>[2] = b OBVIOUS
    <3>2. \A c \in lit : c[2] \in bins OBVIOUS
    <3> HIDE DEF lit
    <3> QED BY <3>1, <3>2
  <2> QED BY <1>3, <2>1, <2>2 DEF RowBins, row, bins
<1> QED BY <1>2, <1>3

LEMMA PointsFacts ==
    ASSUME NEW n, NEW d, NEW r
    PROVE  /\ RowBins(Points(n, d), r) =
                 RowBins(n.points, r) \cup
                 (IF r = RowOf(n, d) THEN LitIn(n, d, n.used.power_threshold) ELSE {})
           /\ \A c \in Points(n, d) : c \in n.points \/ c[1] = RowOf(n, d)
<1> DEFINE row == RowOf(n, d)
           lit == LitIn(n, d, n.used.power_threshold)
           new == {<<row, b>> : b \in lit}
<1>1. PointsOf(n, d) = new
  <2>1. CASE Inside(n, d)
    <3> DEFINE bins == {b \in DOMAIN d.data : InWindow(n, b) /\ d.data[b] > n.used.power_threshold}
    <3>1. lit = bins BY <2>1 DEF LitIn
    <3> HIDE DEF lit, bins
    <3>2. PointsOf(n, d) = {<<row, b>> : b \in bins} BY <2>1 DEF PointsOf, bins
    <3> QED BY <3>1, <3>2
  <2>2. CASE ~Inside(n, d)
    <3>1. lit = {} BY <2>2 DEF LitIn
    <3> HIDE DEF lit
    <3> QED BY <2>2, <3>1 DEF PointsOf
  <2> QED BY <2>1, <2>2
<1> HIDE DEF row, lit
<1>2. Points(n, d) = n.points \cup new BY <1>1 DEF Points
<1>3. \A c \in new : c[1] = row /\ c[2] \in lit OBVIOUS
<1>4. \A b \in lit : <<row, b>> \in new /\ <<row, b>>[1] = row /\ <<row, b>>[2] = b OBVIOUS
<1> HIDE DEF new
<1>5. RowBins(Points(n, d), r) = RowBins(n.points, r) \cup {c[2] : c \in {c \in new : c[1] = r}}
  BY <1>2 DEF RowBins
<1>6. {c[2] : c \in {c \in new : c[1] = r}} = IF r = row THEN lit ELSE {}
  BY <1>3, <1>4
<1>7. \A c \in Points(n, d) : c \in n.points \/ c[1] = row BY <1>2, <1>3
<1> QED BY <1>5, <1>6, <1>7 DEF row, lit

\* What an azimuth writes shows what was looked at in it, and leaves the other rows; it is
\* of rows swept.
LEMMA ImageSwept ==
    ASSUME ViewInv, NEW d \in Data(radar.bins), FftData(d), view = "b_scan", radar.configs < 2
    PROVE  /\ \A r \in DOMAIN swept' : ImageShows(BScanRow(node, d), swept'[r], r)
           /\ \A c \in BScanRow(node, d) : c[1] \in DOMAIN swept'
<1> DEFINE row == RowOf(node, d)
<1>0. RotationInv /\ ShowsInv BY DEF ViewInv
<1>1. /\ DOMAIN swept' = SweptRows \cup {row}
      /\ \A r \in SweptRows \ {row} : swept'[r] = swept[r]
      /\ swept'[row] = Now(d)
  BY SweptAfter
<1>2. Now(d).seen = Looked(node, d) /\ Now(d).threshold = 0 BY DEF Now, Threshold
<1>3. Echoes(Looked(node, d), 0) = LitIn(node, d, 0) BY LookedFacts
<1>4. \A r : RowBins(BScanRow(node, d), r) =
               IF r # row THEN RowBins(node.cells, r) ELSE LitIn(node, d, 0)
  <2> TAKE r
  <2>1. RowBins(BScanRow(node, d), r) =
             IF r # row THEN RowBins(node.cells, r)
             ELSE IF Inside(node, d) THEN {b \in DOMAIN d.data : InWindow(node, b) /\ d.data[b] > 0}
             ELSE {}
    BY RowWritten
  <2>2. LitIn(node, d, 0) = IF Inside(node, d)
                            THEN {b \in DOMAIN d.data : InWindow(node, b) /\ d.data[b] > 0}
                            ELSE {}
    BY DEF LitIn
  <2> QED BY <2>1, <2>2
<1>5. \A c \in BScanRow(node, d) : c \in node.cells \/ c[1] = row BY DEF BScanRow
<1> HIDE DEF row
<1>6. ASSUME NEW r \in DOMAIN swept' PROVE ImageShows(BScanRow(node, d), swept'[r], r)
  <2>1. CASE r = row BY <1>1, <1>2, <1>3, <1>4, <2>1 DEF ImageShows
  <2>2. CASE r # row
    <3>1. r \in SweptRows /\ swept'[r] = swept[r] BY <1>1, <2>2
    <3>2. ImageShows(node.cells, swept[r], r) BY <1>0, <3>1 DEF ShowsInv
    <3> QED BY <1>4, <2>2, <3>1, <3>2 DEF ImageShows
  <2> QED BY <2>1, <2>2
<1>7. \A c \in BScanRow(node, d) : c[1] \in DOMAIN swept' BY <1>0, <1>1, <1>5 DEF RotationInv
<1> QED BY <1>6, <1>7

LEMMA ScanSwept ==
    ASSUME ViewInv, NEW d \in Data(radar.bins), FftData(d), view = "laser_scan"
    PROVE  LET ranges == LaserScanFftData(node, d).ranges
           IN  /\ \A r \in DOMAIN swept' : ScanShows(ranges, swept'[r], r)
               /\ DOMAIN swept' \subseteq DOMAIN ranges
<1> DEFINE row == RowOf(node, d)
           threshold == node.used.power_threshold
           ranges == LaserScanFftData(node, d).ranges
<1>0. RotationInv /\ ShowsInv /\ IsLaserScan(node) /\ d.azimuth \in Nat
  BY DataFacts DEF ViewInv, ViewType
<1>1. /\ DOMAIN swept' = SweptRows \cup {row}
      /\ \A r \in SweptRows \ {row} : swept'[r] = swept[r]
      /\ swept'[row] = Now(d)
  BY SweptAfter
<1>2. Now(d).seen = Looked(node, d) /\ Now(d).threshold = threshold
  BY DEF Now, Threshold
<1>3. Echoes(Looked(node, d), threshold) = LitIn(node, d, threshold) BY LookedFacts
<1>4. ranges = [r \in DOMAIN node.ranges \cup {row} |->
                   IF r = row THEN IF Inside(node, d) THEN FirstPeak(node, d) ELSE 0
                   ELSE node.ranges[r]]
  BY <1>0, LaserScanStep
<1>5. LitIn(node, d, threshold) # {} =>
          Inside(node, d) /\ FirstPeak(node, d) = Min(LitIn(node, d, threshold))
  <2>1. ~Inside(node, d) => LitIn(node, d, threshold) = {} BY DEF LitIn
  <2>2. Inside(node, d) => LitIn(node, d, threshold) =
           {b \in DOMAIN d.data : InWindow(node, b) /\ d.data[b] > node.used.power_threshold}
    BY DEF LitIn
  <2> QED BY <2>1, <2>2 DEF FirstPeak
<1> HIDE DEF row, ranges, threshold
<1>6. ASSUME NEW r \in DOMAIN swept' PROVE ScanShows(ranges, swept'[r], r)
  <2>1. CASE r = row
    <3>1. Echoes(swept'[r].seen, swept'[r].threshold) = LitIn(node, d, threshold)
      BY <1>1, <1>2, <1>3, <2>1
    <3>2. Inside(node, d) => ranges[r] = FirstPeak(node, d) BY <1>4, <2>1
    <3> QED BY <1>5, <3>1, <3>2 DEF ScanShows
  <2>2. CASE r # row
    <3>1. r \in SweptRows /\ swept'[r] = swept[r] BY <1>1, <2>2
    <3>2. ScanShows(node.ranges, swept[r], r) BY <1>0, <3>1 DEF ShowsInv
    <3>3. ranges[r] = node.ranges[r] BY <1>0, <1>4, <2>2, <3>1 DEF RotationInv
    <3> QED BY <3>1, <3>2, <3>3 DEF ScanShows
  <2> QED BY <2>1, <2>2
<1>7. DOMAIN swept' \subseteq DOMAIN ranges BY <1>0, <1>1, <1>4 DEF RotationInv
<1> QED BY <1>6, <1>7 DEF ranges

LEMMA CloudSwept ==
    ASSUME ViewInv, NEW d \in Data(radar.bins), FftData(d), view = "point_cloud"
    PROVE  /\ \A r \in DOMAIN swept' : CloudShows(Points(node, d), swept'[r], r)
           /\ \A c \in Points(node, d) : c[1] \in DOMAIN swept'
<1> DEFINE row == RowOf(node, d)
           lit == LitIn(node, d, node.used.power_threshold)
<1>0. RotationInv /\ ShowsInv BY DEF ViewInv
<1>1. /\ DOMAIN swept' = SweptRows \cup {row}
      /\ \A r \in SweptRows \ {row} : swept'[r] = swept[r]
      /\ swept'[row] = Now(d)
  BY SweptAfter
<1>2. Now(d).echoes = (IF row \in SweptRows THEN swept[row].echoes ELSE {}) \cup lit
  BY DEF Now, Threshold
<1>3. \A r : RowBins(Points(node, d), r) = RowBins(node.points, r) \cup (IF r = row THEN lit ELSE {})
  BY PointsFacts
<1>4. \A c \in Points(node, d) : c \in node.points \/ c[1] = row BY PointsFacts
<1> HIDE DEF row, lit
<1>5. \A r : r \notin SweptRows => RowBins(node.points, r) = {}
  BY <1>0 DEF RotationInv, RowBins
<1>6. \A r \in SweptRows : RowBins(node.points, r) = swept[r].echoes
  BY <1>0 DEF ShowsInv, CloudShows
<1>7. ASSUME NEW r \in DOMAIN swept' PROVE CloudShows(Points(node, d), swept'[r], r)
  <2>1. CASE r = row BY <1>1, <1>2, <1>3, <1>5, <1>6, <2>1 DEF CloudShows
  <2>2. CASE r # row BY <1>1, <1>3, <1>6, <2>2 DEF CloudShows
  <2> QED BY <2>1, <2>2
<1>8. \A c \in Points(node, d) : c[1] \in DOMAIN swept' BY <1>0, <1>1, <1>4 DEF RotationInv
<1> QED BY <1>7, <1>8

\* The vector of b_scan_publisher is one image just as long as there was one configuration.
LEMMA OneImage ==
    ASSUME ViewInv, radar.configs > 0, view = "b_scan"
    PROVE  /\ ImagePublished(node) <=> radar.configs < 2
           /\ Image(node) \in Nat /\ Image(node) > 0 /\ node.size \in Nat
<1>1. /\ radar.configs \in Nat /\ node.size \in Nat
      /\ node.samples \in Nat /\ node.bins \in Nat /\ node.samples > 0 /\ node.bins > 0
  BY SizesFacts DEF ViewInv, ViewType, IsBScan, StepInv
<1>2. Image(node) \in Nat /\ Image(node) > 0 BY <1>1, ImageFacts
<1> QED BY <1>1, <1>2 DEF ViewInv, RotationInv, ImagePublished

LEMMA FftKeepsRotation ==
    ASSUME ViewInv, NEW d \in Data(radar.bins), FftData(d)
    PROVE  RotationInv' /\ ShowsInv'
<1> DEFINE ends == RotationEnds(node, d)
<1>0. /\ ViewType /\ StepInv /\ RotationInv /\ ShowsInv /\ radar.configs > 0 /\ radar' = radar
      /\ view' = view /\ radar.configs \in Nat /\ d.azimuth \in Nat /\ view \in Views
  BY FftSteps DEF ViewInv, ViewType
<1>1. published'.ended = ends BY FftEnds
<1>2. SweptRows' = IF ends THEN {} ELSE DOMAIN swept' BY SweptAfter
<1>3. published'.ended \in BOOLEAN BY <1>1 DEF RotationEnds
<1>4. CASE view = "b_scan"
  <2>0. node' = BScanFftData(node, d) /\ IsBScan(node) BY <1>0, <1>4 DEF FftData, ViewType
  <2>1. /\ node'.cells = IF ends /\ ImagePublished(node) THEN {} ELSE BScanRow(node, d)
        /\ ~ends => node'.size = node.size
        /\ ends /\ Image(node) > 0 =>
              /\ ImagePublished(node) => node'.size = Image(node)
              /\ node.size > Image(node) => node'.size > Image(node)
        /\ Moves(node, d, node')
    BY <1>0, <2>0, BScanStep
  <2>2. /\ ImagePublished(node) <=> radar.configs < 2
        /\ Image(node) \in Nat /\ Image(node) > 0
    BY <1>0, <1>4, OneImage
  <2>3. Image(node') = Image(node) BY <2>1 DEF Moves, Image
  <2>4. /\ radar.configs = 1 => node'.size = Image(node')
        /\ radar.configs > 1 => node'.size > Image(node')
    BY <1>0, <1>4, <2>1, <2>2, <2>3 DEF RotationInv, ImagePublished
  <2>5. radar.configs < 2 => /\ \A c \in node'.cells : c[1] \in SweptRows'
                             /\ \A r \in SweptRows' : ImageShows(node'.cells, swept'[r], r)
    <3>1. CASE ends BY <1>2, <2>1, <2>2, <3>1
    <3>2. CASE ~ends BY <1>2, <1>4, <2>1, <3>2, ImageSwept
    <3> QED BY <3>1, <3>2
  <2>6. RotationInv' BY <1>0, <1>3, <1>4, <2>4, <2>5 DEF RotationInv
  <2> QED BY <1>0, <1>4, <2>5, <2>6 DEF ShowsInv
<1>5. CASE view = "laser_scan"
  <2>1. node' = LaserScanFftData(node, d) BY <1>5 DEF FftData
  <2>2. /\ \A r \in SweptRows' : ScanShows(node'.ranges, swept'[r], r)
        /\ SweptRows' \subseteq DOMAIN node'.ranges
    BY <1>2, <1>5, <2>1, ScanSwept
  <2>3. RotationInv' BY <1>0, <1>3, <1>5, <2>2 DEF RotationInv
  <2> QED BY <1>0, <1>5, <2>2, <2>3 DEF ShowsInv
<1>6. CASE view = "point_cloud"
  <2>1. node' = PointCloudFftData(node, d) /\ IsPointCloud(node)
    BY <1>0, <1>6 DEF FftData, ViewType
  <2>2. node'.points = IF ends THEN {} ELSE Points(node, d) BY <1>0, <2>1, PointCloudStep
  <2>3. /\ \A r \in SweptRows' : CloudShows(node'.points, swept'[r], r)
        /\ \A c \in node'.points : c[1] \in SweptRows'
    BY <1>2, <1>6, <2>2, CloudSwept
  <2>4. RotationInv' BY <1>0, <1>3, <1>6, <2>3 DEF RotationInv
  <2> QED BY <1>0, <1>6, <2>3, <2>4 DEF ShowsInv
<1> QED BY <1>0, <1>4, <1>5, <1>6 DEF Views

LEMMA RangeOfOne == ASSUME NEW x PROVE Range(<<x>>) = {x} /\ Range(<<>>) = {}
BY DEF Range

LEMMA FftPublishes ==
    ASSUME ViewInv, NEW d \in Data(radar.bins), FftData(d)
    PROVE  RowsAsReceived' /\ RotationPublished'
<1>0. /\ radar.configs > 0 /\ radar' = radar /\ view' = view /\ view \in Views
      /\ radar.configs \in Nat
  BY FftSteps DEF ViewInv, ViewType
<1>1. CASE ~RotationEnds(node, d)
  <2>1. published' = [ended |-> FALSE] BY <1>1 DEF FftData
  <2> QED BY <2>1 DEF RowsAsReceived, RotationPublished
<1>2. CASE RotationEnds(node, d)
  <2>1. published'.messages = Messages(node, d)
    <3>1. published' = [ended |-> TRUE, messages |-> Messages(node, d)] BY <1>2 DEF FftData
    <3> QED BY <3>1
  <2>2. CASE view = "b_scan"
    <3>1. published'.messages = IF ImagePublished(node) THEN <<BScanRow(node, d)>> ELSE <<>>
      BY <2>1, <2>2 DEF Messages
    <3>2. ImagePublished(node) <=> radar.configs < 2 BY <1>0, <2>2, OneImage
    <3>3. \A m \in Range(published'.messages) :
             /\ \A r \in DOMAIN swept' : ImageShows(m, swept'[r], r)
             /\ \A c \in m : c[1] \in DOMAIN swept'
      <4>1. CASE radar.configs < 2
        <5>1. Range(published'.messages) = {BScanRow(node, d)}
          BY <3>1, <3>2, <4>1, RangeOfOne
        <5> QED BY <2>2, <4>1, <5>1, ImageSwept
      <4>2. CASE ~(radar.configs < 2)
        <5>1. Range(published'.messages) = {} BY <3>1, <3>2, <4>2, RangeOfOne
        <5> QED BY <5>1
      <4> QED BY <4>1, <4>2
    <3>4. radar'.configs = 1 => published'.messages # <<>> BY <1>0, <3>1, <3>2
    <3>5. RowsAsReceived' BY <1>0, <2>2, <3>3 DEF RowsAsReceived, ImageShows
    <3> QED BY <3>3, <3>4, <3>5 DEF RotationPublished
  <2>3. CASE view = "laser_scan"
    <3>1. published'.messages = <<LaserScanFftData(node, d).ranges>> BY <2>1, <2>3 DEF Messages
    <3>2. Range(published'.messages) = {LaserScanFftData(node, d).ranges} BY <3>1, RangeOfOne
    <3>3. \A m \in Range(published'.messages) : \A r \in DOMAIN swept' : ScanShows(m, swept'[r], r)
      BY <2>3, <3>2, ScanSwept
    <3>4. RowsAsReceived' BY <1>0, <2>3, <3>3 DEF RowsAsReceived, ScanShows
    <3> QED BY <1>0, <2>3, <3>1, <3>4 DEF RotationPublished
  <2>4. CASE view = "point_cloud"
    <3>1. published'.messages = <<Points(node, d)>> BY <2>1, <2>4 DEF Messages
    <3>2. Range(published'.messages) = {Points(node, d)} BY <3>1, RangeOfOne
    <3>3. \A m \in Range(published'.messages) :
             /\ \A r \in DOMAIN swept' : CloudShows(m, swept'[r], r)
             /\ \A c \in m : c[1] \in DOMAIN swept'
      BY <2>4, <3>2, CloudSwept
    <3>4. RowsAsReceived' BY <1>0, <2>4, <3>3 DEF RowsAsReceived, CloudShows
    <3> QED BY <3>1, <3>3, <3>4 DEF RotationPublished
  <2> QED BY <1>0, <2>2, <2>3, <2>4 DEF Views
<1> QED BY <1>1, <1>2

LEMMA FftStaysInside ==
    ASSUME ViewInv, RowsInside, NEW d \in Data(radar.bins), FftData(d)
    PROVE  RowsInside'
<1>0. ViewType /\ StepInv /\ radar.configs > 0 BY FftSteps DEF ViewInv
<1>1. RowOf(node, d) >= Samples => node.used.azimuth_offset > Samples BY <1>0, RowInside
<1>2. outside' = IF view # "point_cloud" /\ RowOf(node, d) >= Samples
                 THEN outside \cup {node.used.azimuth_offset} ELSE outside
  BY DEF FftData
<1> QED BY <1>1, <1>2 DEF RowsInside

LEMMA FftSettles ==
    ASSUME ViewInv, NEW d \in Data(radar.bins), FftData(d)
    PROVE  SettleInv'
<1> DEFINE due == ReadDue(node, d)
<1>0. /\ ViewType /\ SettleInv /\ ViewType' /\ Moves(node, d, node')
      /\ NodeOwn' = NodeOwn /\ NodeParams' = NodeParams
  BY FftSteps DEF ViewInv
<1>1. /\ IsNode(node, NodeOwn, NodeParams) /\ NodeParams \subseteq ViewParams
      /\ IsNode(node', NodeOwn, NodeParams)
  <2>1. IsNode(node', NodeOwn', NodeParams')
    BY <1>0 DEF ViewType, Views, IsBScan, IsLaserScan, IsPointCloud, NodeOwn, NodeParams
  <2> QED BY <1>0, <2>1, ViewIsNode
<1>2. RotationEnds(node, d) /\ node'.rotations = 0 <=> due
  <2>1. node.rotations \in Nat BY <1>1, SizesFacts DEF IsNode
  <2> QED BY <1>0, <2>1 DEF Moves, ReadDue
<1>3. readings' = IF due THEN Min({readings + 1, 2}) ELSE readings
  BY <1>2 DEF FftData
<1>4. /\ readings \in 0..2 /\ readings' \in 0..2
      /\ due /\ readings' = 2 => readings >= 1
      /\ ~due => readings' = readings
  <2>1. readings \in 0..2 BY <1>0 DEF SettleInv
  <2>2. readings + 1 \in {1, 2, 3} BY <2>1
  <2>3. Min({readings + 1, 2}) = IF readings + 1 = 1 THEN 1 ELSE 2 BY <2>2, MinOfTwo
  <2> QED BY <1>3, <2>1, <2>3
<1>5. /\ due => ReadOnce(node')
      /\ due /\ ReadOnce(node) => ReadTwice(node')
      /\ ~due /\ ReadOnce(node) => ReadOnce(node')
      /\ ~due /\ ReadTwice(node) => ReadTwice(node')
  BY <1>0, <1>1, ReadingFacts
<1>6. (readings >= 1 => ReadOnce(node)) /\ (readings = 2 => ReadTwice(node))
  BY <1>0 DEF SettleInv
<1> HIDE DEF due
<1>7. (readings' >= 1 => ReadOnce(node')) /\ (readings' = 2 => ReadTwice(node'))
  BY <1>4, <1>5, <1>6
<1> QED BY <1>4, <1>7 DEF SettleInv, ReadOnce, ReadTwice

LEMMA ConfigurationKeeps ==
    ASSUME ViewInv, RotationPublished, NEW bins \in BinCounts, ConfigurationData(bins)
    PROVE  ViewInv' /\ RotationPublished'
<1>0. /\ ViewType /\ StepInv /\ RotationInv /\ ShowsInv
      /\ radar.configs \in Nat /\ view \in Views
  BY DEF ViewInv, ViewType
<1>1. /\ radar' = [configs |-> radar.configs + 1, bins |-> bins] /\ view' = view
      /\ readings' = 0
      /\ UNCHANGED <<published, swept>>
  BY DEF ConfigurationData
<1>2. /\ DOMAIN radar' = {"configs", "bins"}
      /\ radar'.configs = radar.configs + 1 /\ radar'.bins = bins /\ bins \in Nat
  BY <1>1, SizesFacts
<1>3. SweptRows' = SweptRows BY <1>1 DEF SweptRows
<1>4. SettleInv' BY <1>1 DEF SettleInv
<1>5. RotationPublished'
  <2>1. radar.configs = 0 => ~published.ended BY <1>0 DEF RotationInv
  <2> QED BY <1>0, <1>1, <1>2, <2>1 DEF RotationPublished
<1>6. CASE view = "b_scan"
  <2>0. IsBScan(node) /\ node' = BScanConfiguration(node, bins)
    BY <1>0, <1>6 DEF ConfigurationData, ViewType
  <2>1. /\ IsBScan(node') /\ node'.samples = Samples /\ node'.bins = bins
        /\ node'.cells = node.cells
        /\ node.size = 0 => node'.size = Image(node')
        /\ node.size > 0 => node'.size > Image(node')
    BY <2>0, BScanConfigured
  <2>2. ViewType' BY <1>0, <1>1, <1>2, <1>6, <2>1 DEF ViewType
  <2>3. StepInv' BY <1>2, <2>1 DEF StepInv
  <2>4. radar.configs > 0 => node.size > 0
    <3>1. radar.configs > 0 => Image(node) \in Nat /\ Image(node) > 0 /\ node.size \in Nat
      BY <1>6, OneImage
    <3> QED BY <1>0, <1>6, <3>1 DEF RotationInv
  <2>5. /\ radar'.configs = 1 => node'.size = Image(node')
        /\ radar'.configs > 1 => node'.size > Image(node')
    BY <1>0, <1>2, <1>6, <2>1, <2>4 DEF RotationInv
  <2>6. RotationInv' BY <1>0, <1>1, <1>2, <1>3, <1>6, <2>1, <2>5 DEF RotationInv
  <2>7. ShowsInv' BY <1>0, <1>1, <1>2, <1>3, <1>6, <2>1 DEF ShowsInv
  <2> QED BY <1>4, <1>5, <2>2, <2>3, <2>6, <2>7 DEF ViewInv
<1>7. CASE view = "laser_scan"
  <2>0. IsNode(node, {"ranges"}, ViewParams) /\ node' = EndBinReset(node, bins)
        /\ {"ranges"} \cap Base = {}
    BY <1>0, <1>7 DEF ConfigurationData, LaserScanConfiguration, EndBinReset, ViewType,
       IsLaserScan, Base
  <2>1. /\ IsNode(node', {"ranges"}, ViewParams)
        /\ node'.samples = Samples /\ node'.bins = bins
        /\ SameData(node, node', {"ranges"})
    <3>1. PICK own : own = {"ranges"} OBVIOUS
    <3>2. IsNode(node, own, ViewParams) /\ own \cap Base = {} BY <2>0, <3>1
    <3>3. PICK m : m = EndBinReset(node, bins) OBVIOUS
    <3>4. /\ IsNode(m, own, ViewParams) /\ m.samples = Samples /\ m.bins = bins
          /\ SameData(node, m, own)
      BY <3>2, <3>3, EndBinResetFacts
    <3> QED BY <2>0, <3>1, <3>3, <3>4
  <2>2. node'.ranges = node.ranges BY <2>1 DEF SameData
  <2>3. ViewType' BY <1>0, <1>1, <1>2, <1>7, <2>1 DEF ViewType, IsLaserScan
  <2>4. StepInv' BY <1>2, <2>1 DEF StepInv
  <2>5. RotationInv' BY <1>0, <1>1, <1>2, <1>3, <1>7, <2>2 DEF RotationInv
  <2>6. ShowsInv' BY <1>0, <1>1, <1>3, <1>7, <2>2 DEF ShowsInv
  <2> QED BY <1>4, <1>5, <2>3, <2>4, <2>5, <2>6 DEF ViewInv
<1>8. CASE view = "point_cloud"
  <2>0. IsNode(node, {"points"}, ViewParams) /\ node' = EndBinReset(node, bins)
        /\ {"points"} \cap Base = {}
    BY <1>0, <1>8 DEF ConfigurationData, PointCloudConfiguration, EndBinReset, ViewType,
       IsPointCloud, Base
  <2>1. /\ IsNode(node', {"points"}, ViewParams)
        /\ node'.samples = Samples /\ node'.bins = bins
        /\ SameData(node, node', {"points"})
    <3>1. PICK own : own = {"points"} OBVIOUS
    <3>2. IsNode(node, own, ViewParams) /\ own \cap Base = {} BY <2>0, <3>1
    <3>3. PICK m : m = EndBinReset(node, bins) OBVIOUS
    <3>4. /\ IsNode(m, own, ViewParams) /\ m.samples = Samples /\ m.bins = bins
          /\ SameData(node, m, own)
      BY <3>2, <3>3, EndBinResetFacts
    <3> QED BY <2>0, <3>1, <3>3, <3>4
  <2>2. node'.points = node.points BY <2>1 DEF SameData
  <2>3. ViewType' BY <1>0, <1>1, <1>2, <1>8, <2>1 DEF ViewType, IsPointCloud
  <2>4. StepInv' BY <1>2, <2>1 DEF StepInv
  <2>5. RotationInv' BY <1>0, <1>1, <1>2, <1>3, <1>8, <2>2 DEF RotationInv
  <2>6. ShowsInv' BY <1>0, <1>1, <1>3, <1>8, <2>2 DEF ShowsInv
  <2> QED BY <1>4, <1>5, <2>3, <2>4, <2>5, <2>6 DEF ViewInv
<1> QED BY <1>0, <1>6, <1>7, <1>8 DEF Views

LEMMA SettingKeeps ==
    ASSUME ViewInv, NEW s \in Settings, SetParameter(s[1], s[2])
    PROVE  ViewInv'
<1> DEFINE name == s[1]
           value == s[2]
<1>0. /\ ViewType /\ StepInv /\ RotationInv /\ ShowsInv
      /\ IsNode(node, NodeOwn, NodeParams) /\ NodeOwn \cap Base = {}
  BY ViewIsNode DEF ViewInv
<1>1. value \in Int BY ViewsAssumption
<1>2. /\ name \in DOMAIN node.param
      /\ node' = [node EXCEPT !.param[name] = value]
      /\ readings' = 0
      /\ UNCHANGED <<view, radar, published, swept>>
  BY DEF SetParameter
<1> HIDE DEF name, value
<1>3. name \in NodeParams BY <1>0, <1>2, NodeFacts
<1>4. /\ IsNode(node', NodeOwn, NodeParams)
      /\ node'.samples = node.samples /\ node'.bins = node.bins
      /\ SameData(node, node', NodeOwn)
  BY <1>0, <1>1, <1>2, <1>3, SetFacts
<1>5. /\ view = "b_scan" => node'.size = node.size /\ node'.cells = node.cells
      /\ view = "laser_scan" => node'.ranges = node.ranges
      /\ view = "point_cloud" => node'.points = node.points
  BY <1>4 DEF SameData, NodeOwn
<1>6. ViewType'
  BY <1>0, <1>2, <1>4, <1>5 DEF ViewType, Views, IsBScan, IsLaserScan, IsPointCloud, NodeOwn,
     NodeParams
<1>7. StepInv' BY <1>0, <1>2, <1>4 DEF StepInv
<1>8. SweptRows' = SweptRows BY <1>2 DEF SweptRows
<1>9. Image(node') = Image(node) BY <1>4 DEF Image
<1>10. RotationInv' BY <1>0, <1>2, <1>5, <1>8, <1>9 DEF RotationInv
<1>11. ShowsInv' BY <1>0, <1>2, <1>5, <1>8 DEF ShowsInv
<1>12. SettleInv' BY <1>2 DEF SettleInv
<1> QED BY <1>6, <1>7, <1>10, <1>11, <1>12 DEF ViewInv

LEMMA ViewInit == Init => ViewInv /\ RowsInside /\ RotationPublished /\ RowsAsReceived
<1> SUFFICES ASSUME Init PROVE ViewInv /\ RowsInside /\ RotationPublished /\ RowsAsReceived
  OBVIOUS
<1>1. PICK param \in Launch : node = Started(param) BY DEF Init
<1> DEFINE image == [p \in DOMAIN param \ {"power_threshold"} |-> param[p]]
<1>2. param \in [ViewParams -> Int] BY ViewsAssumption
<1>3. image \in [ImageParams -> Int] BY <1>2 DEF ImageParams
<1>4. Taken(param) \in [ViewParams -> Word] /\ Taken(image) \in [ImageParams -> Word]
  <2> HIDE DEF image
  <2> QED BY <1>2, <1>3, UInt16Facts, ViewParamsFacts DEF Taken
<1>s. /\ view = "b_scan" =>
           node = [samples |-> 0, bins |-> 0, last |-> 0, rotations |-> 0,
                   param |-> image, used |-> Taken(image), size |-> 0, cells |-> {}]
      /\ view = "laser_scan" =>
           node = [samples |-> 0, bins |-> 0, last |-> 0, rotations |-> 0,
                   param |-> param, used |-> Taken(param), ranges |-> <<>>]
      /\ view = "point_cloud" =>
           node = [samples |-> 0, bins |-> 0, last |-> 0, rotations |-> 0,
                   param |-> param, used |-> Taken(param), points |-> {}]
  BY <1>1 DEF Started
<1> HIDE DEF image
<1>5. /\ radar = [configs |-> 0, bins |-> 0] /\ published = [ended |-> FALSE]
      /\ outside = {} /\ swept = <<>> /\ readings = 0 /\ view \in Views
  BY DEF Init
<1>6. 0 \in 0..(ConfigPublishCount - 1) BY SizesFacts
<1>7. view = "b_scan" => IsBScan(node) /\ node.size = 0 /\ node.cells = {}
  BY <1>s, <1>3, <1>4, <1>6 DEF IsBScan, IsNode, Base
<1>8. view = "laser_scan" => IsLaserScan(node)
  BY <1>s, <1>2, <1>4, <1>6 DEF IsLaserScan, IsNode, Base
<1>9. view = "point_cloud" => IsPointCloud(node) /\ node.points = {}
  BY <1>s, <1>2, <1>4, <1>6 DEF IsPointCloud, IsNode, Base
<1>12. radar.configs = 0 /\ radar.bins = 0 /\ DOMAIN radar = {"configs", "bins"} BY <1>5
<1>13. ~published.ended /\ published.ended \in BOOLEAN /\ DOMAIN swept = {} BY <1>5
<1>14. ViewType BY <1>5, <1>7, <1>8, <1>9, <1>12 DEF ViewType
<1>15. StepInv BY <1>12 DEF StepInv
<1>16. SweptRows = {} BY <1>13 DEF SweptRows
<1>17. RotationInv BY <1>7, <1>9, <1>12, <1>13, <1>16 DEF RotationInv
<1>18. ShowsInv BY <1>16 DEF ShowsInv
<1>19. SettleInv BY <1>5 DEF SettleInv
<1>20. RowsInside /\ RotationPublished /\ RowsAsReceived
  BY <1>5, <1>13 DEF RowsInside, RotationPublished, RowsAsReceived
<1> QED BY <1>14, <1>15, <1>17, <1>18, <1>19, <1>20 DEF ViewInv

LEMMA ViewStep ==
    ASSUME ViewInv, RowsInside, RotationPublished, RowsAsReceived, Next \/ UNCHANGED publisherVars
    PROVE  (ViewInv /\ RowsInside /\ RotationPublished /\ RowsAsReceived)'
<1>1. ASSUME NEW bins \in BinCounts, ConfigurationData(bins)
      PROVE  (ViewInv /\ RowsInside /\ RotationPublished /\ RowsAsReceived)'
  <2>1. ViewInv' /\ RotationPublished' BY <1>1, ConfigurationKeeps
  <2>2. UNCHANGED <<view, published, outside, swept>> BY <1>1 DEF ConfigurationData
  <2> QED BY <2>1, <2>2 DEF RowsInside, RowsAsReceived
<1>2. ASSUME NEW d \in Data(radar.bins), FftData(d)
      PROVE  (ViewInv /\ RowsInside /\ RotationPublished /\ RowsAsReceived)'
  <2>1. ViewType' /\ StepInv' BY <1>2, FftSteps DEF ViewInv
  <2>2. RotationInv' /\ ShowsInv' BY <1>2, FftKeepsRotation
  <2>3. SettleInv' BY <1>2, FftSettles
  <2>4. RowsInside' BY <1>2, FftStaysInside
  <2>5. RotationPublished' /\ RowsAsReceived' BY <1>2, FftPublishes
  <2> QED BY <2>1, <2>2, <2>3, <2>4, <2>5 DEF ViewInv
<1>3. ASSUME NEW s \in Settings, SetParameter(s[1], s[2])
      PROVE  (ViewInv /\ RowsInside /\ RotationPublished /\ RowsAsReceived)'
  <2>1. ViewInv' BY <1>3, SettingKeeps
  <2>2. UNCHANGED <<view, radar, published, outside, swept>> BY <1>3 DEF SetParameter
  <2> QED BY <2>1, <2>2 DEF RowsInside, RowsAsReceived, RotationPublished
<1>4. CASE UNCHANGED publisherVars
  <2>1. UNCHANGED <<view, radar, node, published, outside, swept, readings>>
    BY <1>4 DEF publisherVars
  <2>2. ViewInv'
    BY <2>1 DEF ViewInv, ViewType, StepInv, RotationInv, ShowsInv, SettleInv, SweptRows,
       ReadOnce, ReadTwice
  <2> QED BY <2>1, <2>2 DEF RowsInside, RowsAsReceived, RotationPublished
<1> QED BY <1>1, <1>2, <1>3, <1>4 DEF Next

----------------------------------------------------------------------------
(* The navigation node *)

NavParams == Window \cup Finder
NavOwn == {"local", "points"}

NavNode(n) ==
    /\ DOMAIN n = Base \cup NavOwn
    /\ n.samples \in Nat /\ n.bins \in Word /\ n.last \in Nat
    /\ n.param \in [NavParams -> Int] /\ n.used \in [NavParams -> Word]

\* What the first reading leaves of the parameters of the node and of the finder
NavReadOnce(n) ==
    /\ \A p \in Window \ {"end_bin"} : Valid(n, p)
    /\ \A p \in Finder : n.param[p] = n.used[p] \/ FinderValid(n, p)
NavReadTwice(n) == \A p \in NavParams \ {"end_bin"} : n.used[p] = UInt16(n.param[p])

\* The finder has the settings of the node, when the node can know of it.
Configured(n, link, finder) ==
    link.configs > 0 /\ (n.local \/ link.up) => finder = FinderSettings(n)

NavInv ==
    /\ NavNode(navigation)
    /\ DOMAIN connection = {"configs", "settings", "up"}
    /\ Configured(navigation, connection, inForce)
    /\ navReadings \in 0..2
    /\ navReadings >= 1 => NavReadOnce(navigation)
    /\ navReadings = 2 => NavReadTwice(navigation)

LEMMA NavParamsFacts ==
    /\ Window \cap Finder = {} /\ Window \cup Finder = NavParams
    /\ Window = {"azimuth_offset", "start_azimuth", "end_azimuth", "start_bin", "end_bin"}
    /\ Finder = {"bins_to_operate_on", "min_bin", "power_threshold", "max_peaks_per_azimuth"}
BY DEF Window, Finder, NavParams

Replaced(n, p) == n.param[p] # n.used[p] /\ ~FinderValid(n, p)

IsAFunction(f) == f = [x \in DOMAIN f |-> f[x]]

\* A reading of all parameters
LEMMA CheckFacts ==
    ASSUME NEW n, NavNode(n)
    PROVE  LET m == CheckConfigPublish(n)
           IN  /\ DOMAIN m = Base \cup NavOwn
               /\ m.samples = n.samples /\ m.bins = n.bins /\ m.last = n.last
               /\ m.rotations = 0 /\ m.local = n.local
               /\ IsAFunction(m.param) /\ DOMAIN m.param = NavParams
               /\ IsAFunction(m.used) /\ DOMAIN m.used = NavParams
               /\ \A p \in Window : m.param[p] = IF Valid(n, p) THEN n.param[p] ELSE Fallback(n, p)
               /\ \A p \in Window \ {"end_bin"} :
                     m.used[p] = IF Valid(n, p) THEN UInt16(n.param[p]) ELSE n.used[p]
               /\ m.used["end_bin"] = IF Valid(n, "end_bin") THEN UInt16(n.param["end_azimuth"])
                                      ELSE n.used["end_bin"]
               /\ \A p \in Finder : /\ m.param[p] = IF Replaced(n, p) THEN FinderFallback(n, p)
                                                    ELSE n.param[p]
                                    /\ m.used[p] = IF Replaced(n, p) THEN n.used[p] ELSE n.param[p]
<1> DEFINE k == Reread(n)
           replaced == {p \in FinderChanged(n) : ~FinderValid(n, p)}
           m == CheckConfigPublish(n)
<1>0. DOMAIN n = Base \cup NavOwn /\ DOMAIN n.param = NavParams BY DEF NavNode
<1>l. "local" \in DOMAIN n BY <1>0 DEF NavOwn
<1>1. /\ DOMAIN k = Base \cup NavOwn
      /\ k.samples = n.samples /\ k.bins = n.bins /\ k.last = n.last /\ k.local = n.local
      /\ k.param = [p \in NavParams |-> IF Valid(n, p) THEN n.param[p] ELSE Fallback(n, p)]
      /\ k.used = [p \in NavParams |-> IF Valid(n, p) THEN UInt16(n.param[p]) ELSE n.used[p]]
  BY <1>0, <1>l DEF Reread, Base
<1>2. m = [k EXCEPT
            !.rotations = 0,
            !.param = [p \in DOMAIN k.param |-> IF p \in replaced THEN FinderFallback(n, p)
                                          ELSE IF p \in Finder THEN n.param[p] ELSE k.param[p]],
            !.used = [p \in DOMAIN k.used |->
                         IF p = "end_bin" /\ Valid(n, p) THEN UInt16(n.param["end_azimuth"])
                         ELSE IF p \in replaced THEN n.used[p]
                         ELSE IF p \in Finder THEN n.param[p] ELSE k.used[p]]]
  BY DEF CheckConfigPublish
<1>3. \A p : p \in replaced <=> p \in Finder /\ Replaced(n, p) BY DEF FinderChanged, Replaced
<1> HIDE DEF k, replaced, m
<1>4. /\ DOMAIN m = Base \cup NavOwn
      /\ m.samples = n.samples /\ m.bins = n.bins /\ m.last = n.last /\ m.rotations = 0
      /\ m.local = n.local
      /\ m.param = [p \in NavParams |-> IF p \in replaced THEN FinderFallback(n, p)
                                        ELSE IF p \in Finder THEN n.param[p] ELSE k.param[p]]
      /\ m.used = [p \in NavParams |->
                     IF p = "end_bin" /\ Valid(n, p) THEN UInt16(n.param["end_azimuth"])
                     ELSE IF p \in replaced THEN n.used[p]
                     ELSE IF p \in Finder THEN n.param[p] ELSE k.used[p]]
  BY <1>1, <1>2 DEF Base, NavOwn
<1>5. \A p \in Window : p \notin Finder /\ p \notin replaced /\ p \in NavParams
  BY <1>3, NavParamsFacts
<1>6. \A p \in Finder : p # "end_bin" /\ p \in NavParams BY NavParamsFacts
<1>7. "end_bin" \in Window BY NavParamsFacts
<1>8. \A p \in Window : m.param[p] = IF Valid(n, p) THEN n.param[p] ELSE Fallback(n, p)
  BY <1>1, <1>4, <1>5
<1>9. \A p \in Window \ {"end_bin"} :
         m.used[p] = IF Valid(n, p) THEN UInt16(n.param[p]) ELSE n.used[p]
  BY <1>1, <1>4, <1>5
<1>10. m.used["end_bin"] = IF Valid(n, "end_bin") THEN UInt16(n.param["end_azimuth"])
                           ELSE n.used["end_bin"]
  BY <1>1, <1>4, <1>5, <1>7
<1>11. \A p \in Finder :
          /\ m.param[p] = IF Replaced(n, p) THEN FinderFallback(n, p) ELSE n.param[p]
          /\ m.used[p] = IF Replaced(n, p) THEN n.used[p] ELSE n.param[p]
  BY <1>3, <1>4, <1>6
<1>12. /\ IsAFunction(m.param) /\ DOMAIN m.param = NavParams
       /\ IsAFunction(m.used) /\ DOMAIN m.used = NavParams
  BY <1>4 DEF IsAFunction
<1> QED BY <1>4, <1>8, <1>9, <1>10, <1>11, <1>12 DEF m

LEMMA WordFacts ==
    /\ \A x \in Nat : x < 65536 => x \in Word
    /\ \A x \in Word : x \in Int /\ x \in Nat /\ UInt16(x) = x
BY UInt16Same DEF Word

\* A value the finder accepts fits in 16 bits.
LEMMA FinderValidFacts ==
    ASSUME NEW n, NavNode(n), NEW p \in Finder, FinderValid(n, p)
    PROVE  n.param[p] \in Word
<1>1. n.bins \in Word /\ n.param[p] \in Int BY NavParamsFacts DEF NavNode
<1>2. \E top \in Nat : top < 65536 /\ n.param[p] \in 0..top
  <2>1. CASE p = "bins_to_operate_on" BY <2>1 DEF FinderValid
  <2>2. CASE p = "min_bin" BY <1>1, <2>2 DEF FinderValid, Word
  <2>3. CASE p = "power_threshold"
    <3>1. n.param[p] \in 0..255 BY <2>3 DEF FinderValid
    <3> WITNESS 255 \in Nat
    <3> QED BY <3>1
  <2>4. CASE p = "max_peaks_per_azimuth" BY <2>4 DEF FinderValid
  <2> QED BY <2>1, <2>2, <2>3, <2>4, NavParamsFacts
<1> QED BY <1>1, <1>2, WordFacts

LEMMA CheckReads ==
    ASSUME NEW n, NavNode(n)
    PROVE  LET m == CheckConfigPublish(n)
           IN  /\ NavNode(m) /\ m.local = n.local
               /\ NavReadOnce(m)
               /\ NavReadOnce(n) => NavReadTwice(m)
               /\ FinderChanged(n) = {} => FinderSettings(m) = FinderSettings(n)
<1> DEFINE m == CheckConfigPublish(n)
<1>0. /\ n.samples \in Nat /\ n.bins \in Word /\ n.last \in Nat
      /\ n.param \in [NavParams -> Int] /\ n.used \in [NavParams -> Word]
  BY DEF NavNode
<1>1. /\ DOMAIN m = Base \cup NavOwn
      /\ m.samples = n.samples /\ m.bins = n.bins /\ m.last = n.last /\ m.local = n.local
      /\ IsAFunction(m.param) /\ DOMAIN m.param = NavParams
      /\ IsAFunction(m.used) /\ DOMAIN m.used = NavParams
      /\ \A p \in Window : m.param[p] = IF Valid(n, p) THEN n.param[p] ELSE Fallback(n, p)
      /\ \A p \in Window \ {"end_bin"} :
            m.used[p] = IF Valid(n, p) THEN UInt16(n.param[p]) ELSE n.used[p]
      /\ m.used["end_bin"] = IF Valid(n, "end_bin") THEN UInt16(n.param["end_azimuth"])
                             ELSE n.used["end_bin"]
      /\ \A p \in Finder : /\ m.param[p] = IF Replaced(n, p) THEN FinderFallback(n, p)
                                           ELSE n.param[p]
                           /\ m.used[p] = IF Replaced(n, p) THEN n.used[p] ELSE n.param[p]
  BY CheckFacts
<1> HIDE DEF m
<1>2. \A p \in Finder : ~Replaced(n, p) => n.param[p] \in Word
  BY <1>0, FinderValidFacts, NavParamsFacts DEF Replaced
<1>3. \A p \in NavParams : m.param[p] \in Int /\ m.used[p] \in Word
  <2>1. ASSUME NEW p \in Window PROVE m.param[p] \in Int /\ m.used[p] \in Word
    <3>1. p \in NavParams /\ "end_azimuth" \in NavParams BY NavParamsFacts
    <3>2. Fallback(n, p) \in Int BY <1>0, <3>1, WordFacts DEF Fallback
    <3>3. UInt16(n.param[p]) \in Word /\ UInt16(n.param["end_azimuth"]) \in Word
      BY <1>0, <3>1, UInt16Facts
    <3>4. n.param[p] \in Int /\ n.used[p] \in Word BY <1>0, <3>1
    <3>5. m.param[p] \in Int BY <1>1, <2>1, <3>2, <3>4
    <3>6. CASE p = "end_bin" BY <1>1, <3>3, <3>4, <3>5, <3>6
    <3>7. CASE p # "end_bin" BY <1>1, <2>1, <3>3, <3>4, <3>5, <3>7
    <3> QED BY <3>6, <3>7
  <2>2. ASSUME NEW p \in Finder PROVE m.param[p] \in Int /\ m.used[p] \in Word
    <3>1. n.param[p] \in Int /\ n.used[p] \in Word BY <1>0, NavParamsFacts
    <3>2. FinderFallback(n, p) \in Int BY <3>1, WordFacts DEF FinderFallback
    <3> QED BY <1>1, <1>2, <3>1, <3>2
  <2> QED BY <2>1, <2>2, NavParamsFacts
<1>4. NavNode(m)
  <2>1. m.param = [p \in NavParams |-> m.param[p]] /\ m.used = [p \in NavParams |-> m.used[p]]
    BY <1>1 DEF IsAFunction
  <2> QED BY <1>0, <1>1, <1>3, <2>1 DEF NavNode
<1>5. \A p \in Window \ {"end_bin"} : Valid(m, p)
  <2> TAKE p \in Window \ {"end_bin"}
  <2>1. p \in {"azimuth_offset", "start_azimuth", "end_azimuth", "start_bin"} /\ p \in NavParams
    BY NavParamsFacts
  <2>2. n.param[p] \in Int /\ n.bins \in Nat BY SMTT(90), <1>0, <2>1, WordFacts
  <2>3. CASE Valid(n, p) BY SMTT(90), <1>1, <2>3 DEF Valid
  <2>4. CASE ~Valid(n, p)
    <3>1. m.param[p] = Fallback(n, p) BY <1>1, <2>4
    <3> QED BY <1>0, <1>1, <2>1, <2>2, <3>1 DEF Valid, Fallback
  <2> QED BY <2>3, <2>4
<1>6. \A p \in Finder : m.param[p] = m.used[p] \/ FinderValid(m, p)
  <2> TAKE p \in Finder
  <2>1. CASE ~Replaced(n, p) BY <1>1, <2>1
  <2>2. CASE Replaced(n, p)
    <3>1. m.param[p] = FinderFallback(n, p) /\ m.used[p] = n.used[p] BY <1>1, <2>2
    <3>2. CASE p = "power_threshold"
      <4>1. m.param[p] = 63 BY <3>1, <3>2 DEF FinderFallback
      <4> QED BY <3>2, <4>1 DEF FinderValid
    <3>3. CASE p = "max_peaks_per_azimuth"
      <4>1. m.param[p] = 5 BY <3>1, <3>3 DEF FinderFallback
      <4> QED BY <3>3, <4>1 DEF FinderValid
    <3>4. CASE p \notin {"power_threshold", "max_peaks_per_azimuth"}
      BY <3>1, <3>4 DEF FinderFallback
    <3> QED BY <3>2, <3>3, <3>4
  <2> QED BY <2>1, <2>2
<1>7. NavReadOnce(m) BY <1>5, <1>6 DEF NavReadOnce
<1>8. NavReadOnce(n) => NavReadTwice(m)
  <2> SUFFICES ASSUME NavReadOnce(n), NEW p \in NavParams \ {"end_bin"}
               PROVE  m.used[p] = UInt16(m.param[p])
    BY DEF NavReadTwice
  <2>1. CASE p \in Window BY <1>1, <2>1 DEF NavReadOnce
  <2>2. CASE p \in Finder
    <3>1. ~Replaced(n, p) BY <2>2 DEF NavReadOnce, Replaced
    <3>2. m.used[p] = m.param[p] /\ m.param[p] \in Word BY <1>1, <1>2, <2>2, <3>1
    <3> QED BY <3>2, WordFacts
  <2> QED BY <2>1, <2>2, NavParamsFacts
<1>9. FinderChanged(n) = {} => FinderSettings(m) = FinderSettings(n)
  <2> SUFFICES ASSUME FinderChanged(n) = {} PROVE FinderSettings(m) = FinderSettings(n)
    OBVIOUS
  <2>1. \A p \in Finder : n.param[p] = n.used[p] BY DEF FinderChanged
  <2>2. \A p \in Finder : m.used[p] = n.used[p] BY <1>1, <2>1
  <2> QED BY <2>2 DEF FinderSettings
<1> QED BY <1>1, <1>4, <1>7, <1>8, <1>9 DEF m

\* What the node sends of its settings is what the finder has, or the link is known to be
\* lost.
LEMMA ConfiguresFacts ==
    ASSUME NEW n, NEW link, DOMAIN link = {"configs", "settings", "up"}, Configures(n, link)
    PROVE  /\ DOMAIN connection' = {"configs", "settings", "up"}
           /\ Configured(n, connection', inForce')
<1>1. CASE inForce' = FinderSettings(n) /\ connection' = link BY <1>1 DEF Configured
<1>2. CASE ~n.local /\ inForce' = inForce /\ connection' = [link EXCEPT !.up = FALSE]
  <2>1. connection'.up = FALSE /\ DOMAIN connection' = {"configs", "settings", "up"} BY <1>2
  <2>2. ~(n.local \/ connection'.up) BY <1>2, <2>1, Zenon
  <2> QED BY <2>1, <2>2, Zenon DEF Configured
<1> QED BY <1>1, <1>2 DEF Configures

LEMMA NavigationStep ==
    ASSUME NavInv, NEW azimuth \in Azimuths, NEW peaks, NavigationData(azimuth, peaks)
    PROVE  NavInv'
<1> DEFINE d == [azimuth |-> azimuth]
           points == IF RotationEnds(navigation, d) THEN {}
                     ELSE navigation.points
                            \cup PeakPoints(navigation, peaks, AzimuthIndex(azimuth))
           rotations == IF RotationEnds(navigation, d) THEN navigation.rotations + 1
                        ELSE navigation.rotations
           k == [navigation EXCEPT !.points = points, !.last = azimuth, !.rotations = rotations]
<1>n. PICK n : n = k OBVIOUS
<1> DEFINE due == n.rotations >= ConfigPublishCount
<1>0. /\ navigation' = IF due THEN CheckConfigPublish(n) ELSE n
      /\ IF MustReconfigure(n) THEN Configures(CheckConfigPublish(n), connection)
                               ELSE UNCHANGED <<inForce, connection>>
      /\ navReadings' = IF due THEN Min({navReadings + 1, 2}) ELSE navReadings
  BY <1>n DEF NavigationData
<1>1. MustReconfigure(n) <=> due /\ FinderChanged(n) # {} BY DEF MustReconfigure
<1>2. /\ NavNode(navigation) /\ navReadings \in 0..2
      /\ DOMAIN connection = {"configs", "settings", "up"}
      /\ Configured(navigation, connection, inForce)
      /\ navReadings >= 1 => NavReadOnce(navigation)
      /\ navReadings = 2 => NavReadTwice(navigation)
  BY DEF NavInv
<1>3. azimuth \in Nat BY RowFacts
<1> HIDE DEF d, points, rotations
<1>4. /\ DOMAIN n = Base \cup NavOwn /\ n.last = azimuth
      /\ n.samples = navigation.samples /\ n.bins = navigation.bins
      /\ n.param = navigation.param /\ n.used = navigation.used /\ n.local = navigation.local
  BY <1>n, <1>2 DEF NavNode, Base, NavOwn
<1> HIDE DEF k
<1>5. NavNode(n) BY <1>2, <1>3, <1>4 DEF NavNode
<1>6. Configured(n, connection, inForce) BY <1>2, <1>4, Zenon DEF Configured, FinderSettings
<1>7. /\ NavReadOnce(n) <=> NavReadOnce(navigation)
      /\ NavReadTwice(n) <=> NavReadTwice(navigation)
  <2>1. \A p : (Valid(n, p) <=> Valid(navigation, p)) /\ (FinderValid(n, p) <=> FinderValid(navigation, p))
    BY <1>4 DEF Valid, FinderValid
  <2> QED BY <1>4, <2>1 DEF NavReadOnce, NavReadTwice
<1> HIDE DEF due
<1>8. CASE due
  <2>1. navigation' = CheckConfigPublish(n) BY <1>0, <1>8
  <2>2. /\ NavNode(navigation') /\ NavReadOnce(navigation')
        /\ navigation'.local = n.local
        /\ NavReadOnce(n) => NavReadTwice(navigation')
        /\ FinderChanged(n) = {} => FinderSettings(navigation') = FinderSettings(n)
    BY <1>5, <2>1, CheckReads
  <2>3. /\ DOMAIN connection' = {"configs", "settings", "up"}
        /\ Configured(navigation', connection', inForce')
    <3>1. CASE FinderChanged(n) = {}
      <4>1. connection' = connection /\ inForce' = inForce BY <1>0, <1>1, <3>1
      <4> QED BY <1>2, <1>6, <2>2, <3>1, <4>1, Zenon DEF Configured
    <3>2. CASE FinderChanged(n) # {}
      <4>1. Configures(navigation', connection) BY <1>0, <1>1, <1>8, <2>1, <3>2
      <4> QED BY <1>2, <4>1, ConfiguresFacts
    <3> QED BY <3>1, <3>2
  <2>4. navReadings' \in 0..2 /\ (navReadings' = 2 => navReadings >= 1)
    <3>1. navReadings + 1 \in {1, 2, 3} BY <1>2
    <3>2. Min({navReadings + 1, 2}) = IF navReadings + 1 = 1 THEN 1 ELSE 2 BY <3>1, MinOfTwo
    <3> QED BY <1>0, <1>2, <1>8, <3>2
  <2> QED BY <1>2, <1>7, <2>2, <2>3, <2>4 DEF NavInv
<1>9. CASE ~due
  <2>1. /\ navigation' = n /\ inForce' = inForce /\ navReadings' = navReadings
        /\ connection' = connection
    BY <1>0, <1>1, <1>9
  <2>2. Configured(navigation', connection', inForce') BY <1>6, <2>1
  <2>3. /\ NavNode(navigation')
        /\ NavReadOnce(navigation') <=> NavReadOnce(navigation)
        /\ NavReadTwice(navigation') <=> NavReadTwice(navigation)
    BY <1>5, <1>7, <2>1
  <2> QED BY <1>2, <2>1, <2>2, <2>3 DEF NavInv
<1> QED BY <1>8, <1>9

LEMMA NavKeeps ==
    ASSUME NavInv, NavNext \/ UNCHANGED navigationVars
    PROVE  NavInv'
<1>0. /\ DOMAIN navigation = Base \cup NavOwn /\ DOMAIN connection = {"configs", "settings", "up"}
      /\ navigation.param \in [NavParams -> Int] /\ NavNode(navigation)
      /\ Configured(navigation, connection, inForce)
  BY DEF NavInv, NavNode
<1>1. CASE NavConfigurationData
  <2> DEFINE up == [connection EXCEPT !.configs = @ + 1, !.up = TRUE]
  <2>0. PICK link : link = up OBVIOUS
  <2>1. /\ navigation' = [navigation EXCEPT !.samples = Samples, !.bins = NavBins]
        /\ Configures(navigation, link) /\ navReadings' = 0
    BY <1>1, <2>0 DEF NavConfigurationData
  <2>2. /\ DOMAIN navigation' = Base \cup NavOwn
        /\ navigation'.samples = Samples /\ navigation'.bins = NavBins
        /\ navigation'.last = navigation.last /\ navigation'.local = navigation.local
        /\ navigation'.param = navigation.param /\ navigation'.used = navigation.used
    BY <1>0, <2>1 DEF Base, NavOwn
  <2>3. Samples \in Nat /\ NavBins \in Word BY SizesFacts, NavigationAssumption
  <2>4. NavNode(navigation') BY <1>0, <2>2, <2>3 DEF NavNode
  <2>5. DOMAIN link = {"configs", "settings", "up"} BY <1>0, <2>0
  <2>6. /\ DOMAIN connection' = {"configs", "settings", "up"}
        /\ Configured(navigation, connection', inForce')
    BY <2>1, <2>5, ConfiguresFacts
  <2>7. Configured(navigation', connection', inForce')
    BY <2>2, <2>6, Zenon DEF Configured, FinderSettings
  <2> QED BY <2>1, <2>4, <2>6, <2>7 DEF NavInv
<1>2. ASSUME NEW a \in Azimuths, NEW peaks \in SUBSET (0..(NavBins - 1)), NavigationData(a, peaks)
      PROVE  NavInv'
  BY <1>2, NavigationStep
<1>3. ASSUME NEW s \in NavSettings, NavSetParameter(s[1], s[2])
      PROVE  NavInv'
  <2>1. s[1] \in NavParams /\ s[2] \in Int BY NavigationAssumption DEF NavParams
  <2>2. /\ navigation' = [navigation EXCEPT !.param[s[1]] = s[2]]
        /\ inForce' = inForce /\ navReadings' = 0
        /\ connection' = [connection EXCEPT !.settings = @ + 1]
    BY <1>3 DEF NavSetParameter
  <2>3. /\ DOMAIN navigation' = Base \cup NavOwn
        /\ navigation'.samples = navigation.samples /\ navigation'.bins = navigation.bins
        /\ navigation'.last = navigation.last /\ navigation'.local = navigation.local
        /\ navigation'.used = navigation.used
        /\ navigation'.param = [navigation.param EXCEPT ![s[1]] = s[2]]
    BY <1>0, <2>2 DEF Base, NavOwn
  <2>4. navigation'.param \in [NavParams -> Int] BY <1>0, <2>1, <2>3
  <2>5. NavNode(navigation') BY <1>0, <2>3, <2>4 DEF NavNode
  <2>6. /\ connection'.configs = connection.configs /\ connection'.up = connection.up
        /\ DOMAIN connection' = {"configs", "settings", "up"}
    BY <1>0, <2>2
  <2>7. Configured(navigation', connection', inForce')
    BY <1>0, <2>2, <2>3, <2>6, Zenon DEF Configured, FinderSettings
  <2> QED BY <2>2, <2>5, <2>6, <2>7 DEF NavInv
<1>4. CASE NavConnectionLost
  <2>1. /\ connection' = [connection EXCEPT !.up = FALSE]
        /\ navigation' = navigation /\ inForce' = inForce /\ navReadings' = navReadings
        /\ connection.up
    BY <1>4 DEF NavConnectionLost
  <2>2. /\ connection'.configs = connection.configs /\ connection'.up = FALSE
        /\ DOMAIN connection' = {"configs", "settings", "up"}
    BY <1>0, <2>1
  <2>3. Configured(navigation', connection', inForce')
    BY <1>0, <2>1, <2>2, Zenon DEF Configured
  <2> QED BY <2>1, <2>2, <2>3 DEF NavInv
<1>5. CASE UNCHANGED navigationVars
  BY <1>5 DEF navigationVars, NavInv
<1> QED BY <1>1, <1>2, <1>3, <1>4, <1>5 DEF NavNext

LEMMA NavBegins == NavInit => NavInv
<1> SUFFICES ASSUME NavInit PROVE NavInv OBVIOUS
<1>1. PICK param \in NavLaunch, local \in BOOLEAN :
        navigation = [samples |-> 0, bins |-> 0, last |-> 0, rotations |-> 0, param |-> param,
                      used |-> Taken(param), local |-> local, points |-> {}]
  BY DEF NavInit
<1>2. param \in [NavParams -> Int] BY NavigationAssumption DEF NavParams
<1>3. Taken(param) \in [NavParams -> Word] BY <1>2, UInt16Facts DEF Taken
<1>4. NavNode(navigation) BY <1>1, <1>2, <1>3, WordFacts DEF NavNode, Base, NavOwn
<1>5. connection = [configs |-> 0, settings |-> 0, up |-> FALSE] /\ navReadings = 0 BY DEF NavInit
<1>6. Configured(navigation, connection, inForce) BY <1>5 DEF Configured
<1>7. DOMAIN connection = {"configs", "settings", "up"} BY <1>5
<1> QED BY <1>4, <1>5, <1>6, <1>7 DEF NavInv

----------------------------------------------------------------------------
(* Mobile_Platform *)

PlatformFields == {"started", "range_res", "factor", "average", "average_on", "grid",
                   "grid_stepSize", "grid_stepSize_m", "scan_on", "Phi", "last_Phi",
                   "sizes", "ended"}

\* The step of a grid that is drawn is that of its size.
GridInv(p) ==
    /\ p.range_res \in {0, RangeRes}
    /\ p.grid => /\ p.grid_stepSize \in Nat
                 /\ p.grid_stepSize_m \in Ros1!GridSteps(p.range_res, p.grid_stepSize)
    /\ ~p.started => ~p.grid /\ p.ended = "no"

\* The average has the size of one of the images it was made of.
PlatformInv ==
    /\ DOMAIN platform = PlatformFields
    /\ platform.average = Ros1!NoSize \/ platform.average \in platform.sizes
    /\ GridInv(platform)
    /\ WhatEndsPlatform

LEMMA GridStepFacts ==
    ASSUME NEW res \in {0, RangeRes}, NEW size \in Nat, 0 \in Ros1!GridSteps(res, size)
    PROVE  res = 0 \/ size < 2 * RangeRes
<1> SUFFICES ASSUME res # 0 PROVE size < 2 * RangeRes OBVIOUS
<1>1. RangeRes \in Nat \ {0} /\ res = RangeRes BY WidthsAssumption
<1>2. size \div (2 * RangeRes) = 0 BY <1>1 DEF Ros1!GridSteps
<1> DEFINE n == 2 * RangeRes
<1>3. n \in Nat \ {0} BY <1>1
<1>4. size \div n = 0 BY <1>2
<1> HIDE DEF n
<1>5. size = n * (size \div n) + (size % n) /\ size % n \in Nat /\ size % n < n BY <1>3
<1>6. size = size % n BY <1>3, <1>4, <1>5
<1> QED BY <1>5, <1>6 DEF n

LEMMA PlatformStep ==
    ASSUME PlatformInv, Ros1!ChatterCallback
    PROVE  PlatformInv'
<1>1. PICK load \in {"under50ms", "between", "over150ms"} :
        LET p == platform
            size == Ros1!SizeAt(Head(inbox), p.factor)
            seen == IF p.average_on THEN p.sizes \cup {size} ELSE {}
            scan == p.scan_on /\ p.Phi # p.last_Phi
        IN  platform' = IF Ros1!Divides(p) THEN [p EXCEPT !.ended = "grid"]
                        ELSE IF Ros1!Throws(p, size) THEN [p EXCEPT !.ended = "average", !.sizes = seen]
                        ELSE [p EXCEPT !.average = Ros1!AverageAfter(p, size), !.sizes = seen,
                                       !.factor = Ros1!NextFactor(@, load),
                                       !.last_Phi = IF scan THEN p.Phi ELSE @]
  BY DEF Ros1!ChatterCallback
<1> DEFINE size == Ros1!SizeAt(Head(inbox), platform.factor)
           seen == IF platform.average_on THEN platform.sizes \cup {size} ELSE {}
<1>3. platform.started /\ platform.ended = "no"
  BY DEF Ros1!ChatterCallback, Ros1!PlatformRuns
<1>4. DOMAIN platform = PlatformFields /\ GridInv(platform) BY DEF PlatformInv
<1>g. ASSUME /\ platform'.started = platform.started /\ platform'.grid = platform.grid
             /\ platform'.range_res = platform.range_res
             /\ platform'.grid_stepSize = platform.grid_stepSize
             /\ platform'.grid_stepSize_m = platform.grid_stepSize_m
      PROVE  GridInv(platform')
  BY <1>3, <1>4, <1>g, Zenon DEF GridInv
<1>5. CASE Ros1!Divides(platform)
  <2>1. platform' = [platform EXCEPT !.ended = "grid"] BY <1>1, <1>5
  <2>2. /\ DOMAIN platform' = PlatformFields /\ platform'.ended = "grid"
        /\ platform'.average = platform.average /\ platform'.sizes = platform.sizes
        /\ platform'.started = platform.started /\ platform'.grid = platform.grid
        /\ platform'.range_res = platform.range_res
        /\ platform'.grid_stepSize = platform.grid_stepSize
        /\ platform'.grid_stepSize_m = platform.grid_stepSize_m
    BY <1>4, <2>1 DEF PlatformFields
  <2>3. platform.range_res = 0 \/ platform.grid_stepSize < 2 * RangeRes
    <3>1. platform.grid /\ platform.grid_stepSize_m = 0 BY <1>5 DEF Ros1!Divides
    <3>2. /\ platform.range_res \in {0, RangeRes} /\ platform.grid_stepSize \in Nat
          /\ 0 \in Ros1!GridSteps(platform.range_res, platform.grid_stepSize)
      BY <1>4, <3>1, Zenon DEF GridInv
    <3> QED BY <3>2, GridStepFacts
  <2>4. WhatEndsPlatform' BY <2>2, <2>3 DEF WhatEndsPlatform, Ros1!WhatEndsPlatform
  <2>5. GridInv(platform') BY <1>g, <2>2
  <2> QED BY <2>2, <2>4, <2>5 DEF PlatformInv
<1>6. CASE ~Ros1!Divides(platform) /\ Ros1!Throws(platform, size)
  <2>1. platform' = [platform EXCEPT !.ended = "average", !.sizes = seen] BY <1>1, <1>6
  <2> HIDE DEF seen, size
  <2>2. /\ DOMAIN platform' = PlatformFields /\ platform'.average = platform.average
        /\ platform'.sizes = seen /\ platform'.ended = "average"
        /\ platform'.started = platform.started /\ platform'.grid = platform.grid
        /\ platform'.range_res = platform.range_res
        /\ platform'.grid_stepSize = platform.grid_stepSize
        /\ platform'.grid_stepSize_m = platform.grid_stepSize_m
    BY <1>4, <2>1 DEF PlatformFields
  <2>3. platform.average \in platform.sizes /\ platform.average # size /\ platform.average_on
    BY <1>6 DEF Ros1!Throws, PlatformInv
  <2>4. platform.average \in seen /\ size \in seen BY <2>3 DEF seen
  <2>5. WhatEndsPlatform'
    <3>1. platform'.ended # "grid" BY <2>2
    <3> QED BY <2>2, <2>3, <2>4, <3>1 DEF WhatEndsPlatform, Ros1!WhatEndsPlatform
  <2>6. platform'.average \in platform'.sizes BY <2>2, <2>4
  <2>7. GridInv(platform') BY <1>g, <2>2
  <2> QED BY <2>2, <2>5, <2>6, <2>7 DEF PlatformInv
<1>7. CASE ~Ros1!Divides(platform) /\ ~Ros1!Throws(platform, size)
  <2>1. /\ DOMAIN platform' = PlatformFields
        /\ platform'.average = Ros1!AverageAfter(platform, size)
        /\ platform'.sizes = seen /\ platform'.ended = platform.ended
        /\ platform'.started = platform.started /\ platform'.grid = platform.grid
        /\ platform'.range_res = platform.range_res
        /\ platform'.grid_stepSize = platform.grid_stepSize
        /\ platform'.grid_stepSize_m = platform.grid_stepSize_m
    <3> HIDE DEF seen, size
    <3> QED BY <1>1, <1>4, <1>7 DEF PlatformFields, seen, size
  <2>2. platform'.average = Ros1!NoSize \/ platform'.average \in seen
    BY <2>1 DEF Ros1!AverageAfter
  <2>3. GridInv(platform') BY <1>g, <2>1
  <2>4. platform'.ended \notin {"average", "grid"} BY <1>3, <2>1
  <2>5. WhatEndsPlatform' BY <2>4 DEF WhatEndsPlatform, Ros1!WhatEndsPlatform
  <2> QED BY <2>1, <2>2, <2>3, <2>5 DEF PlatformInv
<1> QED BY <1>5, <1>6, <1>7

LEMMA PlatformKeeps ==
    ASSUME PlatformInv, Ros1!Next \/ UNCHANGED ros1Vars
    PROVE  PlatformInv'
<1>0. DOMAIN platform = PlatformFields /\ GridInv(platform) BY DEF PlatformInv
<1>1. CASE Ros1!ChatterCallback BY <1>1, PlatformStep
<1>2. ASSUME /\ DOMAIN platform' = PlatformFields /\ platform.ended = "no"
             /\ platform'.sizes = platform.sizes /\ platform'.average = platform.average
             /\ platform'.ended = platform.ended /\ GridInv(platform')
      PROVE  PlatformInv'
  <2>1. platform'.ended \notin {"average", "grid"} BY <1>2
  <2>2. WhatEndsPlatform' BY <2>1 DEF WhatEndsPlatform, Ros1!WhatEndsPlatform
  <2> QED BY <1>2, <2>2 DEF PlatformInv
<1>3. CASE Ros1!PlatformStarts
  <2>1. /\ platform' = [platform EXCEPT !.started = TRUE,
                                        !.range_res = IF params = Ros1!NoParams THEN 0 ELSE RangeRes]
        /\ ~platform.started
    BY <1>3 DEF Ros1!PlatformStarts
  <2>2. /\ DOMAIN platform' = PlatformFields /\ platform'.sizes = platform.sizes
        /\ platform'.average = platform.average /\ platform'.ended = platform.ended
        /\ platform'.grid = platform.grid /\ platform'.started = TRUE
        /\ platform'.range_res \in {0, RangeRes}
    BY <1>0, <2>1 DEF PlatformFields
  <2>3. ~platform.grid /\ platform.ended = "no" BY <1>0, <2>1, Zenon DEF GridInv
  <2>4. GridInv(platform') BY <2>2, <2>3, Zenon DEF GridInv
  <2> QED BY <1>2, <2>2, <2>3, <2>4
<1>4. CASE Ros1!ParamCallback
  <2>1. PICK average, scan, grid \in BOOLEAN, size \in GridSizes :
           \E step \in Ros1!GridSteps(platform.range_res, size) :
              platform' = [platform EXCEPT !.average_on = average, !.scan_on = scan, !.grid = grid,
                                           !.grid_stepSize = IF grid THEN size ELSE @,
                                           !.grid_stepSize_m = IF grid THEN step ELSE @]
    BY <1>4, Zenon DEF Ros1!ParamCallback
  <2>2. PICK step \in Ros1!GridSteps(platform.range_res, size) :
              platform' = [platform EXCEPT !.average_on = average, !.scan_on = scan, !.grid = grid,
                                           !.grid_stepSize = IF grid THEN size ELSE @,
                                           !.grid_stepSize_m = IF grid THEN step ELSE @]
    BY <2>1, Zenon
  <2>3. platform.started /\ platform.ended = "no"
    BY <1>4 DEF Ros1!ParamCallback, Ros1!PlatformRuns
  <2>4. /\ DOMAIN platform' = PlatformFields /\ platform'.sizes = platform.sizes
        /\ platform'.average = platform.average /\ platform'.ended = platform.ended
        /\ platform'.grid = grid /\ platform'.started = platform.started
        /\ platform'.range_res = platform.range_res
        /\ platform'.grid_stepSize = IF grid THEN size ELSE platform.grid_stepSize
        /\ platform'.grid_stepSize_m = IF grid THEN step ELSE platform.grid_stepSize_m
    BY <1>0, <2>2 DEF PlatformFields
  <2>5. size \in Nat BY WidthsAssumption
  <2>6. GridInv(platform')
    <3>1. CASE grid
      <4>1. platform'.grid_stepSize = size /\ platform'.grid_stepSize_m = step BY <2>4, <3>1
      <4> QED BY <1>0, <2>3, <2>4, <2>5, <4>1, Zenon DEF GridInv
    <3>2. CASE ~grid BY <1>0, <2>3, <2>4, <3>2, Zenon DEF GridInv
    <3> QED BY <3>1, <3>2
  <2> QED BY <1>2, <2>3, <2>4, <2>6
<1>5. CASE Ros1!UpdatePhi
  <2>1. PICK phi \in Angles : platform' = [platform EXCEPT !.Phi = phi]
    BY <1>5 DEF Ros1!UpdatePhi
  <2>2. platform.started /\ platform.ended = "no"
    BY <1>5 DEF Ros1!UpdatePhi, Ros1!PlatformRuns
  <2>3. /\ DOMAIN platform' = PlatformFields /\ platform'.sizes = platform.sizes
        /\ platform'.average = platform.average /\ platform'.ended = platform.ended
        /\ platform'.grid = platform.grid /\ platform'.started = platform.started
        /\ platform'.range_res = platform.range_res
        /\ platform'.grid_stepSize = platform.grid_stepSize
        /\ platform'.grid_stepSize_m = platform.grid_stepSize_m
    BY <1>0, <2>1 DEF PlatformFields
  <2>4. GridInv(platform') BY <1>0, <2>2, <2>3, Zenon DEF GridInv
  <2> QED BY <1>2, <2>2, <2>3, <2>4
<1>6. CASE UNCHANGED platform
  BY <1>6 DEF PlatformInv, WhatEndsPlatform, Ros1!WhatEndsPlatform
<1>7. UNCHANGED ros1Vars => UNCHANGED platform BY Zenon DEF ros1Vars
<1>8. Ros1!Connect \/ Ros1!RadarTurns \/ Ros1!AzimuthLost \/ Ros1!SetImageOn
        \/ Ros1!RecorderStarts \/ Ros1!DataHandler \/ Ros1!DetectorCallback => UNCHANGED platform
  BY Zenon DEF Ros1!Connect, Ros1!RadarTurns, Ros1!AzimuthLost, Ros1!SetImageOn,
         Ros1!RecorderStarts, Ros1!DataHandler, Ros1!DetectorCallback, Ros1!subscribers
<1> QED BY <1>1, <1>3, <1>4, <1>5, <1>6, <1>7, <1>8 DEF Ros1!Next

LEMMA PlatformBegins == Ros1!Init => PlatformInv
<1> SUFFICES ASSUME Ros1!Init PROVE PlatformInv OBVIOUS
<1>1. platform = [started |-> FALSE, range_res |-> 0, factor |-> 1, average |-> Ros1!NoSize,
                  average_on |-> FALSE, grid |-> FALSE, grid_stepSize |-> 0,
                  grid_stepSize_m |-> 0, scan_on |-> FALSE, Phi |-> 0, last_Phi |-> 0,
                  sizes |-> {}, ended |-> "no"]
  BY DEF Ros1!Init
<1>2. platform.ended \notin {"average", "grid"} BY <1>1
<1>3. WhatEndsPlatform BY <1>2 DEF WhatEndsPlatform, Ros1!WhatEndsPlatform
<1>4. GridInv(platform) BY <1>1 DEF GridInv
<1> QED BY <1>1, <1>3, <1>4 DEF PlatformInv, PlatformFields

----------------------------------------------------------------------------
(* Numbers *)

LEMMA DivMod ==
    ASSUME NEW a \in Int, NEW n \in Nat \ {0}
    PROVE  /\ a \div n \in Int /\ a % n \in Nat /\ a % n < n
           /\ a = n * (a \div n) + (a % n)
OBVIOUS

LEMMA Times ==
    ASSUME NEW n \in Nat \ {0}, NEW x \in Int, NEW y \in Int, n * x < n * y
    PROVE  x < y
OBVIOUS

LEMMA Between ==
    ASSUME NEW n \in Nat \ {0}, NEW x \in Int, NEW y \in Int, n * x < n * y + n
    PROVE  x <= y
<1>1. n * x < n * (y + 1) OBVIOUS
<1> QED BY <1>1, Times

LEMMA ModOf ==
    ASSUME NEW n \in Nat \ {0}, NEW a \in Int, NEW q \in Int, NEW r \in 0..(n - 1), a = n * q + r
    PROVE  a % n = r /\ a \div n = q
<1>1. a = n * (a \div n) + (a % n) /\ a \div n \in Int /\ a % n \in Nat /\ a % n < n BY DivMod
<1>2. q <= a \div n
  <2>1. n * q < n * (a \div n) + n BY <1>1
  <2> QED BY <1>1, <2>1, Between
<1>3. a \div n <= q
  <2>1. n * (a \div n) < n * q + n BY <1>1
  <2> QED BY <1>1, <2>1, Between
<1> QED BY <1>1, <1>2, <1>3

\* Steps of a turn that is divided into n azimuths
LEMMA StepsOfATurn ==
    ASSUME NEW n \in Nat \ {0}, NEW T \in Nat, n <= T, NEW i \in Nat
    PROVE  LET d == ((i + 1) * T) \div n - (i * T) \div n
           IN  /\ T \div n >= 1 /\ d \in (T \div n)..(T \div n + 1) /\ d <= T
<1> DEFINE q == T \div n
           q1 == (i * T) \div n
           q2 == ((i + 1) * T) \div n
<1>1. i * T \in Nat /\ (i + 1) * T \in Nat /\ (i + 1) * T = i * T + T OBVIOUS
<1>2. /\ q \in Int /\ T % n \in Nat /\ T % n < n /\ T = n * q + (T % n) BY DivMod
<1>3. /\ q1 \in Int /\ i * T < n * q1 + n /\ n * q1 <= i * T
  <2>1. /\ q1 \in Int /\ (i * T) % n \in Nat /\ (i * T) % n < n
        /\ i * T = n * q1 + ((i * T) % n)
    BY <1>1, DivMod
  <2> QED BY <2>1
<1>4. /\ q2 \in Int /\ (i + 1) * T < n * q2 + n /\ n * q2 <= (i + 1) * T
  <2>1. /\ q2 \in Int /\ ((i + 1) * T) % n \in Nat /\ ((i + 1) * T) % n < n
        /\ (i + 1) * T = n * q2 + (((i + 1) * T) % n)
    BY <1>1, DivMod
  <2> QED BY <2>1
<1> HIDE DEF q, q1, q2
<1>5. q >= 1
  <2>1. n * 1 < n * q + n BY <1>2
  <2> QED BY <1>2, <2>1, Between
<1>6. q2 <= q1 + q + 1
  <2>1. n * q2 < n * (q1 + q + 1) + n
    <3>1. n * q2 <= i * T + T BY <1>1, <1>4
    <3>2. i * T + T < n * q1 + n + n * q + n BY <1>1, <1>2, <1>3
    <3>3. n * (q1 + q + 1) = n * q1 + n * q + n BY <1>2, <1>3
    <3> QED BY <1>2, <1>3, <1>4, <3>1, <3>2, <3>3
  <2> QED BY <1>2, <1>3, <1>4, <2>1, Between
<1>7. q1 + q <= q2
  <2>1. n * (q1 + q) < n * q2 + n
    <3>1. n * (q1 + q) = n * q1 + n * q BY <1>2, <1>3
    <3> QED BY <1>1, <1>2, <1>3, <1>4, <3>1
  <2> QED BY <1>2, <1>3, <1>4, <2>1, Between
<1>8. q2 - q1 <= T
  <2>1. CASE n = 1
    <3>1. q1 = i * T /\ q2 = (i + 1) * T BY <1>1, <1>3, <1>4, <2>1
    <3> QED BY <1>1, <3>1
  <2>2. CASE n >= 2
    <3>1. n * q <= T BY <1>2
    <3>2. 2 * q <= n * q BY <1>2, <1>5, <2>2
    <3> QED BY <1>2, <1>3, <1>4, <1>5, <1>6, <3>1, <3>2
  <2> QED BY <2>1, <2>2
<1> QED BY <1>2, <1>3, <1>4, <1>5, <1>6, <1>7, <1>8 DEF q, q1, q2

\* What follows in a counter that wraps
LEMMA WrapSame ==
    ASSUME NEW w \in Nat \ {0}, NEW a \in 0..(w - 1)
    PROVE  a % w = a
<1>1. a = w * 0 + a OBVIOUS
<1> QED BY <1>1, ModOf

LEMMA WrapMore ==
    ASSUME NEW w \in Nat \ {0}, NEW a \in Int, NEW k \in Int
    PROVE  ((a % w) + k) % w = (a + k) % w
<1> DEFINE r == a % w
           q == a \div w
           c == r + k
           p == c \div w
           e == c % w
<1>1. q \in Int /\ r \in Nat /\ r < w /\ a = w * q + r BY DivMod
<1>2. c \in Int BY <1>1
<1> HIDE DEF r, q
<1>3. p \in Int /\ e \in Nat /\ e < w /\ c = w * p + e BY <1>2, DivMod
<1> HIDE DEF p, e
<1>4. a + k = w * (q + p) + e
  <2>1. w * (q + p) = w * q + w * p BY <1>1, <1>3
  <2>2. w * q \in Int /\ w * p \in Int BY <1>1, <1>3
  <2> QED BY <1>1, <1>3, <2>1, <2>2
<1>5. q + p \in Int /\ e \in 0..(w - 1) /\ a + k \in Int BY <1>1, <1>3
<1>6. (a + k) % w = e BY <1>4, <1>5, ModOf
<1> QED BY <1>6 DEF e, r

LEMMA WrapApart ==
    ASSUME NEW w \in Nat \ {0}, NEW a \in Int, NEW k \in Nat, k < w
    PROVE  (((a + k) % w) - (a % w)) % w = k
<1> DEFINE r == a % w
           q == a \div w
           b == a + k
           c == r + k
<1>1. q \in Int /\ r \in Nat /\ r < w /\ a = w * q + r BY DivMod
<1>2. b \in Int /\ c \in Nat /\ c < 2 * w /\ b = w * q + c BY <1>1
<1> HIDE DEF r, q, b
<1>4. CASE c < w
  <2>1. c \in 0..(w - 1) BY <1>2, <1>4
  <2>2. b % w = c BY <1>1, <1>2, <2>1, ModOf
  <2>3. (b % w) - r = k BY <1>1, <2>2
  <2>4. k = w * 0 + k /\ k \in 0..(w - 1) OBVIOUS
  <2>5. k % w = k BY <2>4, ModOf
  <2> QED BY <2>3, <2>5 DEF b, r
<1>5. CASE c >= w
  <2> DEFINE e == c - w
             l == k - w
  <2>1. e \in 0..(w - 1) /\ b = w * (q + 1) + e /\ q + 1 \in Int BY <1>1, <1>2, <1>5
  <2>2. l \in Int /\ l = w * (-1) + k /\ k \in 0..(w - 1) OBVIOUS
  <2>3. e - r = l BY <1>1
  <2> HIDE DEF e, l
  <2>4. b % w = e BY <1>2, <2>1, ModOf
  <2>5. l % w = k BY <2>2, ModOf
  <2> QED BY <2>3, <2>4, <2>5 DEF b, r
<1> QED BY <1>2, <1>4, <1>5

----------------------------------------------------------------------------
(* RosToColraw *)

RecorderFields == {"started", "cfg", "firstpass", "ticks", "sweep", "unopened", "file"}
Records == [written : BOOLEAN, sweep : Nat, bottom : Nat, azimuth : Nat]
Entries == [written : BOOLEAN] \cup Records

\* The sweeps of a file count on from one, written or not, and the next is the recorder's.
CountsFrom(file, one, sweep) ==
    /\ \A i \in 2..Len(file) : file[i].sweep = (one + i) % SweepWrap
    /\ sweep = (one + Len(file) + 1) % SweepWrap
CountsOn(file, sweep) == \E one \in Int : CountsFrom(file, one, sweep)

\* The times go on from each record to the next, and the last is the one that the recorder
\* remembers.
Follows(before, after, step) == (after.bottom - before.bottom) % TickWrap \in 1..(2 * step)
RunsOn(file, step) == \A i \in 3..Len(file) : Follows(file[i - 1], file[i], step)
LinkedTo(file, ticks) == Len(file) > 1 => file[Len(file)].bottom = ticks % TickWrap

IsFile(file) ==
    /\ file \in Seq(Entries) /\ Len(file) >= 1
    /\ \A i \in 2..Len(file) : file[i] \in Records

\* A file, of a recorder with this sweep and these ticks
FileInv(file, sweep, ticks, step) ==
    /\ IsFile(file) /\ CountsOn(file, sweep) /\ RunsOn(file, step) /\ LinkedTo(file, ticks)

RecorderInv ==
    /\ DOMAIN recorder = RecorderFields
    /\ recorder.sweep \in 0..(SweepWrap - 1) /\ recorder.ticks \in Int
    /\ params # Ros1!NoParams => params \in Configs
    /\ ~recorder.started => recorder.file = <<>>
    /\ recorder.started => /\ recorder.cfg \in Configs
                           /\ FileInv(recorder.file, recorder.sweep, recorder.ticks,
                                      Ros1!Step(recorder.cfg))
                           /\ recorder.firstpass => Len(recorder.file) = 1

LEMMA ConfigFacts ==
    ASSUME NEW c \in Configs
    PROVE  /\ c.azimuths \in Nat \ {0} /\ c.azimuths <= TurnTicks
           /\ TurnTicks \in Nat /\ TickWrap \in Nat \ {0} /\ TurnTicks < TickWrap
           /\ SweepWrap \in Nat \ {0} /\ FirstTicks \in Nat
           /\ Ros1!Step(c) \in Nat /\ Ros1!Step(c) >= 1 /\ Ros1!Step(c) <= TurnTicks
<1>1. c.azimuths \in Nat \ {0} /\ c.azimuths <= TurnTicks BY TicksAssumption
<1>2. /\ TurnTicks \in Nat /\ TickWrap \in Nat /\ TurnTicks < TickWrap
      /\ SweepWrap \in Nat \ {0} /\ FirstTicks \in Nat
  BY WidthsAssumption
<1>3. /\ Ros1!Step(c) \in Int /\ Ros1!Step(c) >= 1
  <2>1. TurnTicks \div c.azimuths \in Int BY <1>1, <1>2, DivMod
  <2>2. TurnTicks \div c.azimuths >= 1 BY <1>1, <1>2, StepsOfATurn, 0 \in Nat
  <2> QED BY <2>1, <2>2 DEF Ros1!Step
<1>4. Ros1!Step(c) <= TurnTicks
  <2> DEFINE s == TurnTicks \div c.azimuths
             n == c.azimuths
  <2>1. n * s <= TurnTicks /\ s \in Int BY SMTT(90), <1>1, <1>2, DivMod
  <2>2. s = Ros1!Step(c) /\ n \in Nat \ {0} BY <1>1 DEF Ros1!Step
  <2> HIDE DEF s, n
  <2>3. s <= n * s BY <1>3, <2>1, <2>2
  <2> QED BY <1>2, <1>3, <2>1, <2>2, <2>3
<1> QED BY <1>1, <1>2, <1>3, <1>4

\* The sweeps of an image, and its times
LEMMA SweepsOn ==
    ASSUME NEW r, SweepWrap \in Nat \ {0}, NEW a \in Int, r.sweep = a % SweepWrap, NEW j \in Nat
    PROVE  /\ Ros1!Sweep(r, j) \in 0..(SweepWrap - 1)
           /\ Ros1!Sweep(r, j) = (a + j) % SweepWrap
<1>0. j \in Int OBVIOUS
<1>1. ((a % SweepWrap) + j) % SweepWrap = (a + j) % SweepWrap BY <1>0, WrapMore, Zenon
<1>2. a + j \in Int OBVIOUS
<1>3. (a + j) % SweepWrap \in 0..(SweepWrap - 1) BY SMTT(90), <1>2, DivMod
<1> QED BY <1>1, <1>3 DEF Ros1!Sweep

LEMMA TicksOn ==
    ASSUME NEW r, r.ticks \in Int, r.cfg \in Configs, NEW j \in Nat
    PROVE  /\ Ros1!Ticks(r, j) \in Int
           /\ Ros1!Ticks(r, 0) = r.ticks + Ros1!Step(r.cfg)
           /\ ((Ros1!Ticks(r, j + 1) % TickWrap) - (Ros1!Ticks(r, j) % TickWrap)) % TickWrap
                 \in 1..(2 * Ros1!Step(r.cfg))
<1> DEFINE n == r.cfg.azimuths
           k == ((j + 1) * TurnTicks) \div n - (j * TurnTicks) \div n
           s == Ros1!Step(r.cfg)
<1>1. /\ n \in Nat \ {0} /\ n <= TurnTicks /\ TurnTicks \in Nat
      /\ TickWrap \in Nat \ {0} /\ TurnTicks < TickWrap
      /\ s \in Nat /\ s >= 1
  BY ConfigFacts
<1>2. k \in s..(s + 1) /\ k <= TurnTicks BY <1>1, StepsOfATurn DEF Ros1!Step
<1>3. j * TurnTicks \in Nat /\ (j + 1) * TurnTicks \in Nat BY <1>1
<1>4. (j * TurnTicks) \div n \in Int /\ ((j + 1) * TurnTicks) \div n \in Int
  <2> HIDE DEF n
  <2>1. \A x \in Int : x \div n \in Int BY <1>1, DivMod
  <2> QED BY <1>3, <2>1
<1>5. Ros1!Ticks(r, j) \in Int /\ Ros1!Ticks(r, j + 1) = Ros1!Ticks(r, j) + k
  <2>1. /\ Ros1!Ticks(r, j) = r.ticks + s + (j * TurnTicks) \div n
        /\ Ros1!Ticks(r, j + 1) = r.ticks + s + ((j + 1) * TurnTicks) \div n
    BY DEF Ros1!Ticks
  <2> HIDE DEF n, s
  <2> QED BY <1>1, <1>4, <2>1
<1>6. Ros1!Ticks(r, 0) = r.ticks + s
  <2>1. (0 * TurnTicks) \div n = 0
    <3>1. 0 * TurnTicks = 0 /\ 0 = n * 0 + 0 BY <1>1
    <3> QED BY <1>1, <3>1, ModOf
  <2>2. Ros1!Ticks(r, 0) = r.ticks + s + (0 * TurnTicks) \div n BY DEF Ros1!Ticks
  <2> HIDE DEF n, s
  <2> QED BY <1>1, <2>1, <2>2
<1> HIDE DEF n, k, s
<1>7. k \in Nat /\ k < TickWrap /\ k \in 1..(2 * s) BY <1>1, <1>2
<1> DEFINE t == Ros1!Ticks(r, j)
<1>8. (((t + k) % TickWrap) - (t % TickWrap)) % TickWrap = k BY <1>1, <1>5, <1>7, WrapApart
<1> QED BY <1>5, <1>6, <1>7, <1>8 DEF s

LEMMA Unlinked ==
    ASSUME NEW file, IsFile(file), Len(file) = 1, NEW step, NEW ticks,
           NEW sweep \in 0..(SweepWrap - 1)
    PROVE  FileInv(file, sweep, ticks, step)
<1>1. SweepWrap \in Nat \ {0} BY WidthsAssumption
<1>2. sweep - 2 \in Int /\ (sweep - 2) + 1 + 1 = sweep BY <1>1
<1>3. sweep % SweepWrap = sweep BY <1>1, WrapSame
<1>4. CountsFrom(file, sweep - 2, sweep) BY <1>2, <1>3 DEF CountsFrom
<1>5. CountsOn(file, sweep) BY <1>2, <1>4 DEF CountsOn
<1> QED BY <1>5 DEF FileInv, RunsOn, LinkedTo, IsFile

LEMMA FirstFile ==
    ASSUME NEW opened \in BOOLEAN
    PROVE  IsFile(Ros1!NewFile(opened)) /\ Len(Ros1!NewFile(opened)) = 1
<1> DEFINE e == [written |-> opened]
<1>1. Ros1!NewFile(opened) = <<e>> BY DEF Ros1!NewFile
<1>2. e \in Entries BY DEF Entries
<1> HIDE DEF e
<1> QED BY <1>1, <1>2 DEF IsFile

\* The records of an image, of which those in `failed` cannot be written
Recorded(r, failed) ==
    [i \in 1..r.cfg.azimuths |->
        [written |-> i \notin failed, sweep |-> Ros1!Sweep(r, i - 1),
         bottom |-> Ros1!Ticks(r, i - 1) % TickWrap, azimuth |-> 14 * (i - 1)]]

\* An image's records run on from those before it.
LEMMA RecordsRunOn ==
    ASSUME NEW r, r.sweep \in 0..(SweepWrap - 1), r.ticks \in Int, r.cfg \in Configs,
           NEW file, FileInv(file, r.sweep, r.ticks, Ros1!Step(r.cfg)), NEW failed
    PROVE  /\ FileInv(file \o Recorded(r, failed), Ros1!Sweep(r, r.cfg.azimuths),
                      Ros1!LastTicksOf(r), Ros1!Step(r.cfg))
           /\ Ros1!Sweep(r, r.cfg.azimuths) \in 0..(SweepWrap - 1)
           /\ Ros1!LastTicksOf(r) \in Int
<1> DEFINE n == r.cfg.azimuths
           step == Ros1!Step(r.cfg)
           records == Recorded(r, failed)
           whole == file \o records
           l == Len(file)
<1>1. /\ n \in Nat \ {0} /\ TickWrap \in Nat \ {0} /\ TurnTicks < TickWrap /\ TurnTicks \in Nat
      /\ SweepWrap \in Nat \ {0} /\ step \in Nat /\ step >= 1 /\ step <= TurnTicks
  BY ConfigFacts
<1>2. PICK one \in Int : CountsFrom(file, one, r.sweep) BY DEF FileInv, CountsOn
<1>3. /\ IsFile(file) /\ RunsOn(file, step) /\ LinkedTo(file, r.ticks) BY DEF FileInv
<1> DEFINE a == one + l + 1
<1>9. /\ file \in Seq(Entries) /\ l \in Nat /\ l >= 1
      /\ \A i \in 2..l : file[i] \in Records
  BY <1>3 DEF IsFile
<1>4. /\ a \in Int /\ r.sweep = a % SweepWrap
      /\ \A i \in 2..l : file[i].sweep = (one + i) % SweepWrap
  BY <1>2, <1>9 DEF CountsFrom
<1> HIDE DEF a, l
<1>5. \A j \in Nat : /\ Ros1!Sweep(r, j) \in 0..(SweepWrap - 1)
                     /\ Ros1!Sweep(r, j) = (a + j) % SweepWrap
  BY <1>1, <1>4, SweepsOn
<1>6. \A j \in Nat :
         /\ Ros1!Ticks(r, j) \in Int
         /\ ((Ros1!Ticks(r, j + 1) % TickWrap) - (Ros1!Ticks(r, j) % TickWrap)) % TickWrap
               \in 1..(2 * step)
  BY TicksOn
<1>t. Ros1!Ticks(r, 0) = r.ticks + step BY TicksOn, 0 \in Nat
<1>s. \A j \in Nat : Ros1!Ticks(r, j) % TickWrap \in Nat BY <1>1, <1>6, DivMod
<1> HIDE DEF n, step
<1>7. /\ records = [i \in 1..n |-> records[i]]
      /\ \A i \in 1..n : /\ records[i] \in Records
                         /\ records[i].sweep = (a + (i - 1)) % SweepWrap
                         /\ records[i].bottom = Ros1!Ticks(r, i - 1) % TickWrap
  <2>1. records = [i \in 1..n |->
                         [written |-> i \notin failed, sweep |-> Ros1!Sweep(r, i - 1),
                          bottom |-> Ros1!Ticks(r, i - 1) % TickWrap, azimuth |-> 14 * (i - 1)]]
    BY DEF n, Recorded
  <2> HIDE DEF records
  <2>2. ASSUME NEW i \in 1..n
        PROVE  /\ records[i] \in Records
               /\ records[i].sweep = (a + (i - 1)) % SweepWrap
               /\ records[i].bottom = Ros1!Ticks(r, i - 1) % TickWrap
    <3>1. i - 1 \in Nat BY <1>1
    <3>2. /\ Ros1!Sweep(r, i - 1) \in 0..(SweepWrap - 1)
          /\ Ros1!Sweep(r, i - 1) = (a + (i - 1)) % SweepWrap
          /\ Ros1!Ticks(r, i - 1) % TickWrap \in Nat
      BY <1>5, <1>s, <3>1
    <3>3. Ros1!Sweep(r, i - 1) \in Nat /\ 14 * (i - 1) \in Nat BY <1>1, <3>1, <3>2
    <3>4. records[i] = [written |-> i \notin failed, sweep |-> Ros1!Sweep(r, i - 1),
                        bottom |-> Ros1!Ticks(r, i - 1) % TickWrap,
                        azimuth |-> 14 * (i - 1)]
      BY <2>1
    <3>5. (i \notin failed) \in BOOLEAN OBVIOUS
    <3> QED BY <3>2, <3>3, <3>4, <3>5 DEF Records
  <2>3. records = [i \in 1..n |-> records[i]] BY <2>1
  <2> QED BY <2>2, <2>3
<1> HIDE DEF records
<1>8. records \in Seq(Records) /\ Len(records) = n
  <2>1. n \in Nat BY <1>1
  <2>2. records \in [1..n -> Records] BY <1>7
  <2>3. records \in Seq(Records)
    <3> HIDE DEF n
    <3> QED BY ZenonT(90), <2>1, <2>2, SeqDef
  <2>4. DOMAIN records = 1..Len(records) /\ Len(records) \in Nat BY <2>3, LenProperties
  <2>5. 1..Len(records) = 1..n BY <2>2, <2>4
  <2>6. \A x, y \in Nat : 1..x = 1..y => x = y
    <3> SUFFICES ASSUME NEW x \in Nat, NEW y \in Nat, 1..x = 1..y PROVE x = y OBVIOUS
    <3>1. CASE x < y
      <4>1. y \in 1..y /\ y \notin 1..x BY <3>1
      <4> QED BY <4>1
    <3>2. CASE y < x
      <4>1. x \in 1..x /\ x \notin 1..y BY <3>2
      <4> QED BY <4>1
    <3> QED BY <3>1, <3>2
  <2> HIDE DEF n
  <2> QED BY <2>1, <2>3, <2>4, <2>5, <2>6
<1>10. /\ whole \in Seq(Entries) /\ Len(whole) = l + n
       /\ \A i \in 1..l : whole[i] = file[i]
       /\ \A i \in 1..n : whole[l + i] = records[i]
  <2>1. records \in Seq(Entries) BY <1>8 DEF Entries
  <2>2. /\ whole \in Seq(Entries) /\ Len(whole) = Len(file) + Len(records)
        /\ \A i \in 1..(Len(file) + Len(records)) :
               whole[i] = IF i <= Len(file) THEN file[i] ELSE records[i - Len(file)]
    BY ZenonT(90), <1>9, <2>1, ConcatProperties
  <2> HIDE DEF whole
  <2>3. ASSUME NEW i \in 1..l PROVE whole[i] = file[i]
    <3>1. i \in 1..(l + n) /\ i <= l BY <1>1, <1>9
    <3> QED BY <1>8, <2>2, <3>1 DEF l
  <2>4. ASSUME NEW i \in 1..n PROVE whole[l + i] = records[i]
    <3>1. l + i \in 1..(l + n) /\ ~(l + i <= l) /\ (l + i) - l = i BY <1>1, <1>9
    <3> QED BY <1>8, <2>2, <3>1 DEF l
  <2> QED BY <1>8, <2>2, <2>3, <2>4 DEF l
<1> HIDE DEF whole
\* The entries of the whole, before and after the seam
<1>e. ASSUME NEW i \in 2..(l + n)
      PROVE  \/ i <= l /\ whole[i] = file[i]
             \/ /\ i > l /\ i - l \in 1..n /\ whole[i] = records[i - l]
                /\ (i - l) - 1 \in Nat
  <2>1. CASE i <= l BY <1>9, <1>10, <2>1
  <2>2. CASE i > l
    <3>1. i - l \in 1..n /\ l + (i - l) = i /\ (i - l) - 1 \in Nat BY <1>1, <1>9, <2>2
    <3>2. whole[l + (i - l)] = records[i - l] BY <1>10, <3>1
    <3> QED BY <2>2, <3>1, <3>2
  <2> QED BY <1>1, <1>9, <2>1, <2>2
<1>11. IsFile(whole)
  <2>1. ASSUME NEW i \in 2..(l + n) PROVE whole[i] \in Records
    <3>1. CASE i <= l /\ whole[i] = file[i]
      <4>1. i \in 2..l BY <1>9, <3>1
      <4> QED BY <1>9, <3>1, <4>1
    <3>2. CASE i - l \in 1..n /\ whole[i] = records[i - l] BY <1>7, <3>2
    <3> QED BY <1>e, <3>1, <3>2
  <2> QED BY <1>1, <1>9, <1>10, <2>1 DEF IsFile
<1>12. CountsOn(whole, Ros1!Sweep(r, n))
  <2>1. ASSUME NEW i \in 2..(l + n) PROVE whole[i].sweep = (one + i) % SweepWrap
    <3>1. CASE i <= l /\ whole[i] = file[i] BY <1>4, <1>9, <3>1
    <3>2. CASE i > l /\ i - l \in 1..n /\ whole[i] = records[i - l]
      <4>1. a + ((i - l) - 1) = one + i BY <1>9 DEF a
      <4>2. whole[i].sweep = (a + ((i - l) - 1)) % SweepWrap BY <1>7, <3>2
      <4> QED BY <4>1, <4>2
    <3> QED BY <1>e, <3>1, <3>2
  <2>2. Ros1!Sweep(r, n) = (one + (l + n) + 1) % SweepWrap
    <3>1. n \in Nat /\ a + n = one + (l + n) + 1 BY <1>1, <1>9 DEF a
    <3>2. Ros1!Sweep(r, n) = (a + n) % SweepWrap BY <1>5, <3>1
    <3> QED BY <3>1, <3>2
  <2>3. CountsFrom(whole, one, Ros1!Sweep(r, n)) BY <1>10, <2>1, <2>2 DEF CountsFrom
  <2> QED BY <2>3 DEF CountsOn
<1>13. ASSUME NEW i \in 3..(l + n) PROVE Follows(whole[i - 1], whole[i], step)
  <2>1. CASE i <= l
    <3>1. whole[i] = file[i] /\ whole[i - 1] = file[i - 1] BY <1>9, <1>10, <2>1
    <3>2. Follows(file[i - 1], file[i], step) BY <1>3, <1>9, <2>1 DEF RunsOn, l
    <3> QED BY <3>1, <3>2
  <2>2. CASE i = l + 1
    <3>1. l > 1 BY <1>9, <2>2
    <3>2. /\ whole[i - 1] = file[l] /\ whole[i] = records[1] /\ 1 \in 1..n
      <4>1. i - 1 = l /\ 1 \in 1..n /\ l \in 1..l BY <1>1, <1>9, <2>2
      <4>2. whole[l] = file[l] /\ whole[l + 1] = records[1] BY <1>10, <4>1
      <4> QED BY <2>2, <4>1, <4>2
    <3>3. file[l].bottom = r.ticks % TickWrap BY <1>3, <3>1 DEF LinkedTo, l
    <3>4. records[1].bottom = Ros1!Ticks(r, 0) % TickWrap
      <4>1. 1 - 1 = 0 OBVIOUS
      <4> QED BY <1>7, <3>2, <4>1
    <3>6. (((r.ticks + step) % TickWrap) - (r.ticks % TickWrap)) % TickWrap = step
      <4>1. step < TickWrap BY <1>1
      <4> QED BY <1>1, <4>1, WrapApart
    <3>7. step \in 1..(2 * step) BY <1>1
    <3> QED BY <1>t, <3>2, <3>3, <3>4, <3>6, <3>7 DEF Follows
  <2>3. CASE i > l + 1
    <3> DEFINE j == i - l - 2
    <3>1. j \in Nat /\ j + 1 = (i - l) - 1 /\ j = (i - l - 1) - 1 BY SMTT(90), <1>9, <2>3
    <3>2. i - l \in 1..n /\ i - l - 1 \in 1..n BY <1>1, <1>9, <2>3
    <3>3. whole[i] = records[i - l] /\ whole[i - 1] = records[i - l - 1]
      <4>1. l + (i - l) = i /\ l + (i - l - 1) = i - 1 BY <1>9
      <4> QED BY <1>10, <3>2, <4>1
    <3>4. /\ whole[i].bottom = Ros1!Ticks(r, j + 1) % TickWrap
          /\ whole[i - 1].bottom = Ros1!Ticks(r, j) % TickWrap
      BY ZenonT(90), <1>7, <3>1, <3>2, <3>3
    <3> HIDE DEF j
    <3> QED BY <1>6, <3>1, <3>4 DEF Follows
  <2> QED BY <1>9, <2>1, <2>2, <2>3
<1>14. RunsOn(whole, step) BY <1>10, <1>13 DEF RunsOn
<1>15. Ros1!LastTicksOf(r) = Ros1!Ticks(r, n - 1) /\ n - 1 \in Nat /\ n \in Nat
  BY <1>1 DEF Ros1!LastTicksOf, n
<1>16. LinkedTo(whole, Ros1!LastTicksOf(r))
  <2>0. n \in 1..n BY <1>1
  <2>1. Len(whole) = l + n /\ whole[l + n] = records[n] BY <1>10, <2>0
  <2>2. records[n].bottom = Ros1!Ticks(r, n - 1) % TickWrap BY <1>7, <2>0
  <2> QED BY <1>15, <2>1, <2>2 DEF LinkedTo
<1>17. FileInv(whole, Ros1!Sweep(r, n), Ros1!LastTicksOf(r), step)
  BY <1>11, <1>12, <1>14, <1>16 DEF FileInv
<1>18. Ros1!Sweep(r, n) \in 0..(SweepWrap - 1) /\ Ros1!LastTicksOf(r) \in Int
  BY <1>5, <1>6, <1>15
<1> QED BY <1>17, <1>18 DEF whole, step, records, n

LEMMA RecorderBegins == Ros1!Init => RecorderInv
<1> SUFFICES ASSUME Ros1!Init PROVE RecorderInv OBVIOUS
<1>1. recorder = [started |-> FALSE, cfg |-> Ros1!NoParams, firstpass |-> TRUE, ticks |-> 0,
                  sweep |-> 0, unopened |-> 0, file |-> <<>>]
  BY DEF Ros1!Init
<1>2. params = Ros1!NoParams BY DEF Ros1!Init
<1>3. 0 \in 0..(SweepWrap - 1) BY WidthsAssumption
<1> QED BY <1>1, <1>2, <1>3 DEF RecorderInv, RecorderFields

LEMMA RecorderStep ==
    ASSUME RecorderInv, Ros1!DataHandler
    PROVE  RecorderInv'
<1>0. /\ recorder.started /\ DOMAIN recorder = RecorderFields
      /\ recorder.cfg \in Configs
      /\ recorder.sweep \in 0..(SweepWrap - 1) /\ recorder.ticks \in Int
      /\ FileInv(recorder.file, recorder.sweep, recorder.ticks, Ros1!Step(recorder.cfg))
      /\ recorder.firstpass => Len(recorder.file) = 1
      /\ params # Ros1!NoParams => params \in Configs
  BY DEF RecorderInv, Ros1!DataHandler
<1>p. params' = params BY DEF Ros1!DataHandler, Ros1!talkerSide
<1>1. CASE recorder.firstpass
  <2> DEFINE t == FirstTicks - (TurnTicks \div 10) \div recorder.cfg.azimuths
  <2>1. recorder' = [recorder EXCEPT !.firstpass = FALSE, !.ticks = t]
    BY <1>1 DEF Ros1!DataHandler, Ros1!RecordsFirst
  <2>2. t \in Int
    <3>1. TurnTicks \in Nat /\ FirstTicks \in Nat /\ recorder.cfg.azimuths \in Nat \ {0}
      BY <1>0, ConfigFacts
    <3>2. TurnTicks \div 10 \in Int BY <3>1
    <3>3. \A x \in Int : x \div recorder.cfg.azimuths \in Int BY <3>1, DivMod
    <3> QED BY <3>1, <3>2, <3>3
  <2> HIDE DEF t
  <2>3. /\ DOMAIN recorder' = RecorderFields /\ recorder'.started
        /\ recorder'.cfg = recorder.cfg /\ recorder'.file = recorder.file
        /\ recorder'.sweep = recorder.sweep /\ recorder'.ticks = t
    BY <1>0, <2>1 DEF RecorderFields
  <2>4. IsFile(recorder.file) /\ Len(recorder.file) = 1 BY <1>0, <1>1 DEF FileInv
  <2>5. FileInv(recorder'.file, recorder'.sweep, recorder'.ticks, Ros1!Step(recorder'.cfg))
    BY <1>0, <2>3, <2>4, Unlinked
  <2> QED BY <1>0, <1>p, <2>2, <2>3, <2>4, <2>5 DEF RecorderInv
<1>2. CASE ~recorder.firstpass
  <2>1. PICK failed \in SUBSET (1..recorder.cfg.azimuths), split, opened \in BOOLEAN :
           recorder' = IF split
                       THEN Ros1!RecordsImage([recorder EXCEPT !.unopened = @ + Ros1!Unopened(opened)],
                                              Ros1!NewFile(opened), failed)
                       ELSE Ros1!RecordsImage(recorder, recorder.file, failed)
    BY <1>2 DEF Ros1!DataHandler
  <2>2. PICK r : r = IF split THEN [recorder EXCEPT !.unopened = @ + Ros1!Unopened(opened)]
                              ELSE recorder
    OBVIOUS
  <2>3. PICK before : before = IF split THEN Ros1!NewFile(opened) ELSE recorder.file
    OBVIOUS
  <2>4. recorder' = Ros1!RecordsImage(r, before, failed) BY <2>1, <2>2, <2>3
  <2>5. /\ DOMAIN r = RecorderFields /\ r.started = recorder.started
        /\ r.cfg = recorder.cfg /\ r.firstpass = recorder.firstpass
        /\ r.sweep = recorder.sweep /\ r.ticks = recorder.ticks
    BY <1>0, <2>2 DEF RecorderFields
  <2>6. FileInv(before, r.sweep, r.ticks, Ros1!Step(r.cfg))
    <3>1. CASE split
      <4>1. IsFile(before) /\ Len(before) = 1 BY <2>3, <3>1, FirstFile
      <4> QED BY <1>0, <2>5, <4>1, Unlinked
    <3>2. CASE ~split BY <1>0, <2>3, <2>5, <3>2
    <3> QED BY <3>1, <3>2
  <2> DEFINE records == Recorded(r, failed)
             sweep == Ros1!Sweep(r, r.cfg.azimuths)
             ticks == Ros1!LastTicksOf(r)
  <2>7. recorder' = [r EXCEPT !.file = before \o records, !.sweep = sweep, !.ticks = ticks,
                              !.unopened = @ + Ros1!Cardinality(failed)]
    BY <2>4 DEF Ros1!RecordsImage, Recorded, Ros1!Sweep, Ros1!LastTicksOf, Ros1!Ticks
  <2>8. /\ FileInv(before \o records, sweep, ticks, Ros1!Step(r.cfg))
        /\ sweep \in 0..(SweepWrap - 1) /\ ticks \in Int
    BY <1>0, <2>5, <2>6, RecordsRunOn
  <2> HIDE DEF records, sweep, ticks
  <2>9. /\ DOMAIN recorder' = RecorderFields /\ recorder'.started = r.started
        /\ recorder'.cfg = r.cfg /\ recorder'.file = before \o records
        /\ recorder'.sweep = sweep /\ recorder'.ticks = ticks
        /\ recorder'.firstpass = r.firstpass
    BY <2>5, <2>7 DEF RecorderFields
  <2> QED BY <1>0, <1>2, <1>p, <2>5, <2>8, <2>9 DEF RecorderInv
<1> QED BY <1>1, <1>2

LEMMA RecorderKeeps ==
    ASSUME RecorderInv, Ros1!Next \/ UNCHANGED ros1Vars
    PROVE  RecorderInv'
<1>1. CASE Ros1!DataHandler BY <1>1, RecorderStep
<1>2. CASE Ros1!RecorderStarts
  <2>0. params # Ros1!NoParams /\ params' = params /\ params \in Configs
    BY <1>2 DEF Ros1!RecorderStarts, Ros1!talkerSide, RecorderInv
  <2>1. PICK opened \in BOOLEAN :
           recorder' = [recorder EXCEPT !.started = TRUE, !.cfg = params,
                                        !.file = Ros1!NewFile(opened),
                                        !.unopened = Ros1!Unopened(opened)]
    BY <1>2 DEF Ros1!RecorderStarts
  <2>2. /\ DOMAIN recorder' = RecorderFields /\ recorder'.started /\ recorder'.cfg = params
        /\ recorder'.file = Ros1!NewFile(opened)
        /\ recorder'.sweep = recorder.sweep /\ recorder'.ticks = recorder.ticks
    BY <2>1 DEF RecorderInv, RecorderFields
  <2>3. IsFile(recorder'.file) /\ Len(recorder'.file) = 1 BY <2>2, FirstFile
  <2>4. recorder.sweep \in 0..(SweepWrap - 1) /\ recorder.ticks \in Int BY DEF RecorderInv
  <2>5. FileInv(recorder'.file, recorder'.sweep, recorder'.ticks, Ros1!Step(recorder'.cfg))
    BY <2>2, <2>3, <2>4, Unlinked
  <2> QED BY <2>0, <2>2, <2>3, <2>4, <2>5 DEF RecorderInv
<1>3. CASE Ros1!Connect
  <2>1. recorder' = recorder /\ params' \in Configs
    BY <1>3 DEF Ros1!Connect, Ros1!subscribers
  <2> QED BY <2>1 DEF RecorderInv
<1>4. CASE UNCHANGED <<recorder, params>> BY <1>4 DEF RecorderInv
<1>5. UNCHANGED ros1Vars => UNCHANGED <<recorder, params>> BY DEF ros1Vars
<1>6. Ros1!RadarTurns \/ Ros1!AzimuthLost \/ Ros1!SetImageOn \/ Ros1!PlatformStarts
        \/ Ros1!ParamCallback \/ Ros1!UpdatePhi \/ Ros1!ChatterCallback \/ Ros1!DetectorCallback
      => UNCHANGED <<recorder, params>>
  BY Zenon DEF Ros1!RadarTurns, Ros1!AzimuthLost, Ros1!SetImageOn, Ros1!PlatformStarts,
         Ros1!ParamCallback, Ros1!UpdatePhi, Ros1!ChatterCallback, Ros1!DetectorCallback,
         Ros1!subscribers, Ros1!talkerSide
<1> QED BY <1>1, <1>2, <1>3, <1>4, <1>5, <1>6 DEF Ros1!Next

LEMMA RecorderRunsOn == RecorderInv => FileRunsOn
<1> SUFFICES ASSUME RecorderInv, NEW i \in 2..Len(recorder.file), NEW j \in 2..Len(recorder.file),
                    i < j
             PROVE  /\ recorder.file[j].sweep = (recorder.file[i].sweep + (j - i)) % SweepWrap
                    /\ j = i + 1 => Follows(recorder.file[i], recorder.file[j],
                                            Ros1!Step(recorder.cfg))
  BY DEF FileRunsOn, Ros1!FileRunsOn, Follows
<1>1. recorder.started
  <2>1. CASE recorder.file = <<>>
    <3>1. Len(recorder.file) = 0 BY <2>1
    <3> QED BY <3>1
  <2> QED BY <2>1 DEF RecorderInv
<1>2. FileInv(recorder.file, recorder.sweep, recorder.ticks, Ros1!Step(recorder.cfg))
  BY <1>1 DEF RecorderInv
<1>3. Len(recorder.file) \in Nat BY <1>2 DEF FileInv, IsFile
<1>4. PICK one \in Int : CountsFrom(recorder.file, one, recorder.sweep)
  BY <1>2 DEF FileInv, CountsOn
<1>5. recorder.file[j].sweep = (recorder.file[i].sweep + (j - i)) % SweepWrap
  <2>1. /\ recorder.file[i].sweep = (one + i) % SweepWrap
        /\ recorder.file[j].sweep = (one + j) % SweepWrap
    BY <1>4 DEF CountsFrom
  <2>2. /\ SweepWrap \in Nat \ {0} /\ one + i \in Int /\ j - i \in Int
        /\ (one + i) + (j - i) = one + j
    BY WidthsAssumption
  <2>3. (((one + i) % SweepWrap) + (j - i)) % SweepWrap = ((one + i) + (j - i)) % SweepWrap
    BY <2>2, WrapMore
  <2> QED BY <2>1, <2>2, <2>3
<1>6. ASSUME j = i + 1
      PROVE  Follows(recorder.file[i], recorder.file[j], Ros1!Step(recorder.cfg))
  <2>1. RunsOn(recorder.file, Ros1!Step(recorder.cfg)) BY <1>2 DEF FileInv
  <2>2. j \in 3..Len(recorder.file) /\ j - 1 = i BY <1>3, <1>6
  <2> QED BY <2>1, <2>2 DEF RunsOn
<1> QED BY <1>5, <1>6

----------------------------------------------------------------------------
(* talker1 *)

PolarFields == {"cfg", "azimuth", "turn", "connections", "lost", "came"}
TalkerFields == {"cfg", "publish", "frame", "last", "columns"}
Bearing(a) == Ros1!Bearing(a)

\* An image with n columns, and the turn that each of n azimuths came last in
AsReceived(columns, came, n) ==
    /\ \A c \in 1..n : columns[c] = 0 \/ \E a \in 1..n : Bearing(a) = c /\ came[a] = columns[c]
    /\ \A a \in 1..n : \/ came[a] <= columns[Bearing(a)]
                       \/ columns[Bearing(a)] = 0 /\ \E b \in 1..n : came[b] > came[a]

\* The last azimuth that came has the latest turn of all, and is not ahead of the radar's.
LatestPass(r, last, n) ==
    /\ \A a \in 1..n : r.came[a] <= r.came[last]
    /\ r.came[last] = r.turn => last <= r.azimuth

TalkerConnected(n) ==
    /\ talker.cfg = polarRadar.cfg
    /\ polarRadar.azimuth \in 0..n
    /\ talker.last \in 0..n
    /\ polarRadar.came \in [1..n -> 0..polarRadar.turn]
    /\ talker.last > 0 => LatestPass(polarRadar, talker.last, n)
    /\ DOMAIN talker.columns = 1..n
    /\ talker.frame <= 2 => \A c \in 1..n : talker.columns[c] = 0
    /\ talker.frame > 2 => AsReceived(talker.columns, polarRadar.came, n)

TalkerInv ==
    /\ DOMAIN talker = TalkerFields /\ talker.frame \in Nat
    /\ DOMAIN polarRadar = PolarFields
    /\ polarRadar.cfg \in Configs /\ polarRadar.turn \in Nat \ {0}
    /\ polarRadar.connections \in Nat
    /\ polarRadar.connections > 0 => TalkerConnected(polarRadar.cfg.azimuths)
    /\ ImagesAsReceived

LEMMA BearingFacts ==
    ASSUME NEW n \in Nat \ {0}, NEW a \in 1..n
    PROVE  Bearing(a) \in 1..n
<1>1. a \in PolarRoundedDown => a # 1 BY WidthsAssumption
<1>2. Bearing(a) = IF a \in PolarRoundedDown THEN a - 1 ELSE a BY DEF Bearing, Ros1!Bearing
<1> QED BY <1>1, <1>2

\* An azimuth is painted over what was painted before.
LEMMA PaintsOver ==
    ASSUME NEW n \in Nat \ {0}, NEW columns, DOMAIN columns = 1..n, NEW a \in 1..n,
           NEW t \in Nat, NEW came, came \in [1..n -> 0..t],
           \/ AsReceived(columns, came, n)
           \/ (\A c \in 1..n : columns[c] = 0) /\ (\A b \in 1..n : came[b] < t),
           NEW painted, painted = [columns EXCEPT ![Bearing(a)] = t],
           NEW now, now = [came EXCEPT ![a] = t]
    PROVE  DOMAIN painted = 1..n /\ AsReceived(painted, now, n)
<1>1. Bearing(a) \in 1..n BY BearingFacts
<1>2. /\ DOMAIN painted = 1..n /\ painted[Bearing(a)] = t
      /\ \A c \in 1..n : c # Bearing(a) => painted[c] = columns[c]
  BY <1>1
<1>3. /\ now[a] = t /\ \A b \in 1..n : b # a => now[b] = came[b]
  OBVIOUS
<1>4. \A b \in 1..n : came[b] \in 0..t /\ now[b] \in 0..t /\ came[b] <= now[b] BY <1>3
<1>5. ASSUME NEW c \in 1..n
      PROVE  painted[c] = 0 \/ \E b \in 1..n : Bearing(b) = c /\ now[b] = painted[c]
  <2>1. CASE c = Bearing(a) BY <1>2, <1>3, <2>1
  <2>2. CASE c # Bearing(a) /\ columns[c] = 0 BY <1>2, <2>2
  <2>3. CASE c # Bearing(a) /\ columns[c] # 0
    <3>1. PICK b \in 1..n : Bearing(b) = c /\ came[b] = columns[c] BY <2>3 DEF AsReceived
    <3>2. now[b] = painted[c] BY <1>2, <1>3, <2>3, <3>1
    <3> QED BY <3>1, <3>2
  <2> QED BY <2>1, <2>2, <2>3
<1>6. ASSUME NEW b \in 1..n
      PROVE  \/ now[b] <= painted[Bearing(b)]
             \/ painted[Bearing(b)] = 0 /\ \E d \in 1..n : now[d] > now[b]
  <2>0. Bearing(b) \in 1..n BY BearingFacts
  <2>1. CASE Bearing(b) = Bearing(a) BY <1>2, <1>4, <2>1
  <2>2. CASE Bearing(b) # Bearing(a)
    <3>1. painted[Bearing(b)] = columns[Bearing(b)] /\ now[b] = came[b]
      BY <1>2, <1>3, <2>0, <2>2
    <3>2. CASE came[b] <= columns[Bearing(b)] BY <3>1, <3>2
    <3>3. CASE columns[Bearing(b)] = 0 /\ \E d \in 1..n : came[d] > came[b]
      <4>1. PICK d \in 1..n : came[d] > came[b] BY <3>3
      <4>2. now[d] > now[b] BY <1>4, <3>1, <4>1
      <4> QED BY <3>1, <3>3, <4>2
    <3>4. CASE (\A c \in 1..n : columns[c] = 0) /\ (\A d \in 1..n : came[d] < t)
      <4>1. columns[Bearing(b)] = 0 /\ now[a] > now[b] BY <1>3, <1>4, <2>0, <3>1, <3>4
      <4> QED BY <3>1, <4>1
    <3> QED BY <3>2, <3>3, <3>4 DEF AsReceived
  <2> QED BY <2>1, <2>2
<1> QED BY <1>2, <1>5, <1>6 DEF AsReceived

LEMMA TalkerBegins == Ros1!Init => TalkerInv
<1> SUFFICES ASSUME Ros1!Init PROVE TalkerInv OBVIOUS
<1>1. PICK c \in Configs :
        polarRadar = [cfg |-> c, azimuth |-> 0, turn |-> 1, connections |-> 0, lost |-> 0,
                      came |-> <<>>]
  BY DEF Ros1!Init
<1>2. talker = [cfg |-> Ros1!NoParams, publish |-> FALSE, frame |-> 0, last |-> 0,
                columns |-> <<>>]
  BY DEF Ros1!Init
<1>3. ImagesAsReceived BY DEF Ros1!Init, ImagesAsReceived, Ros1!ImagesAsReceived
<1> QED BY <1>1, <1>2, <1>3 DEF TalkerInv, TalkerFields, PolarFields

\* A new connection begins an empty image.
LEMMA ConnectKeeps ==
    ASSUME TalkerInv, Ros1!Connect
    PROVE  TalkerInv'
<1>1. PICK c \in Configs, a \in 0..2 :
        /\ a <= c.azimuths
        /\ polarRadar' = [polarRadar EXCEPT !.cfg = c, !.azimuth = a, !.connections = @ + 1,
                                            !.came = [b \in 1..c.azimuths |-> 0]]
        /\ talker' = Ros1!Configured(talker, c)
  BY Zenon DEF Ros1!Connect
<1>n. PICK n : n = c.azimuths OBVIOUS
<1>z. PICK zeros : zeros = [b \in 1..n |-> 0] OBVIOUS
<1>2. n \in Nat \ {0} BY <1>n, ConfigFacts
<1>3. talker' = [talker EXCEPT !.cfg = c, !.last = 0, !.publish = @ \/ imageOn,
                               !.columns = zeros]
  BY <1>1, <1>n, <1>z DEF Ros1!Configured
<1>4. /\ DOMAIN zeros = 1..n
      /\ \A b \in 1..n : zeros[b] = 0
  BY <1>z
<1>5. /\ DOMAIN talker' = TalkerFields /\ talker'.frame = talker.frame /\ talker'.last = 0
      /\ talker'.cfg = c /\ talker'.columns = zeros
  BY <1>3 DEF TalkerInv, TalkerFields
<1>6. /\ DOMAIN polarRadar' = PolarFields /\ polarRadar'.cfg = c /\ polarRadar'.azimuth = a
      /\ polarRadar'.turn = polarRadar.turn /\ polarRadar'.came = zeros
      /\ polarRadar'.connections = polarRadar.connections + 1
  BY <1>1, <1>n, <1>z DEF TalkerInv, PolarFields
<1>7. /\ polarRadar.connections \in Nat /\ talker.frame \in Nat
      /\ polarRadar.turn \in Nat \ {0}
  BY DEF TalkerInv
<1>8. AsReceived(zeros, zeros, n)
  <2>1. \A b \in 1..n : zeros[b] <= zeros[Bearing(b)] BY <1>2, <1>4, BearingFacts
  <2> QED BY <1>4, <2>1 DEF AsReceived
<1>9. TalkerConnected(n)'
  <2>1. a \in 0..n /\ 0 \in 0..n BY <1>1, <1>2, <1>n
  <2>2. zeros \in [1..n -> 0..polarRadar.turn] BY <1>7, <1>z
  <2>3. polarRadar'.azimuth \in 0..n /\ talker'.cfg = polarRadar'.cfg /\ ~(talker'.last > 0)
    BY <1>5, <1>6, <2>1
  <2> QED BY <1>4, <1>5, <1>6, <1>8, <2>1, <2>2, <2>3 DEF TalkerConnected
<1>10. ImagesAsReceived'
  <2>1. topic' = topic BY DEF Ros1!Connect
  <2> QED BY <2>1 DEF TalkerInv, ImagesAsReceived, Ros1!ImagesAsReceived
<1>11. polarRadar'.cfg.azimuths = n /\ polarRadar'.cfg \in Configs BY <1>6, <1>n
<1>12. polarRadar'.connections \in Nat BY <1>6, <1>7
<1> QED BY <1>5, <1>6, <1>7, <1>9, <1>10, <1>11, <1>12 DEF TalkerInv

\* The azimuth after the radar's last, and its turn
LEMMA NextFacts ==
    ASSUME TalkerInv, polarRadar.connections > 0,
           NEW n, n = polarRadar.cfg.azimuths, NEW a, a = Ros1!NextAzimuth,
           NEW turn, turn = Ros1!NextTurn
    PROVE  /\ n \in Nat \ {0} /\ TalkerConnected(n) /\ a \in 1..n
           /\ turn \in Nat \ {0} /\ polarRadar.turn <= turn
           /\ polarRadar.came \in [1..n -> 0..turn]
           /\ turn = polarRadar.turn => a = polarRadar.azimuth + 1
<1>1. /\ polarRadar.cfg \in Configs /\ TalkerConnected(n) /\ polarRadar.turn \in Nat \ {0}
  BY DEF TalkerInv
<1>2. n \in Nat \ {0} BY <1>1, ConfigFacts
<1>3. polarRadar.azimuth \in 0..n /\ polarRadar.came \in [1..n -> 0..polarRadar.turn]
  BY <1>1 DEF TalkerConnected
<1>4. /\ Ros1!Wraps => a = 1 /\ turn = polarRadar.turn + 1
      /\ ~Ros1!Wraps => a = polarRadar.azimuth + 1 /\ turn = polarRadar.turn
  BY DEF Ros1!NextAzimuth, Ros1!NextTurn
<1>5. Ros1!Wraps <=> polarRadar.azimuth >= n BY DEF Ros1!Wraps
<1>6. /\ a \in 1..n /\ turn \in Nat \ {0} /\ polarRadar.turn <= turn
      /\ turn = polarRadar.turn => a = polarRadar.azimuth + 1
  BY <1>1, <1>2, <1>3, <1>4, <1>5
<1>7. 0..polarRadar.turn \subseteq 0..turn BY <1>1, <1>6
<1>8. polarRadar.came \in [1..n -> 0..turn] BY <1>3, <1>7
<1> QED BY <1>1, <1>2, <1>6, <1>8

\* What an azimuth that comes makes of talker1's globals
LEMMA TurnFacts ==
    ASSUME TalkerInv, Ros1!RadarTurns,
           NEW a, a = Ros1!NextAzimuth, NEW turn, turn = Ros1!NextTurn
    PROVE  LET frame == IF a < talker.last /\ ~(talker.frame > 3) THEN talker.frame + 1
                                                                 ELSE talker.frame
           IN  /\ polarRadar.connections > 0
               /\ DOMAIN polarRadar' = PolarFields
               /\ polarRadar'.cfg = polarRadar.cfg
               /\ polarRadar'.connections = polarRadar.connections
               /\ polarRadar'.azimuth = a /\ polarRadar'.turn = turn
               /\ polarRadar'.came = [polarRadar.came EXCEPT ![a] = turn]
               /\ DOMAIN talker' = TalkerFields /\ talker'.cfg = talker.cfg
               /\ talker'.frame = frame /\ frame \in Nat /\ talker'.last = a
               /\ talker'.columns = IF frame > 2 THEN [talker.columns EXCEPT ![Bearing(a)] = turn]
                                                 ELSE talker.columns
               /\ \/ topic' = topic
                  \/ /\ talker.frame > 2
                     /\ topic' = [cfg |-> talker.cfg, columns |-> talker.columns,
                                  came |-> polarRadar.came]
<1> DEFINE frame == IF a < talker.last /\ ~(talker.frame > 3) THEN talker.frame + 1
                                                             ELSE talker.frame
           t == IF a < talker.last
                THEN [talker EXCEPT !.frame = IF talker.frame > 3 THEN talker.frame
                                              ELSE talker.frame + 1]
                ELSE talker
<1>1. /\ polarRadar.connections > 0
      /\ polarRadar' = [polarRadar EXCEPT !.azimuth = a, !.turn = turn, !.came[a] = turn]
      /\ Ros1!FFTDataHandler(a, turn)
  BY DEF Ros1!RadarTurns
<1>2. DOMAIN talker = TalkerFields /\ talker.frame \in Nat /\ DOMAIN polarRadar = PolarFields
  BY DEF TalkerInv
<1>6. /\ DOMAIN polarRadar' = PolarFields /\ polarRadar'.cfg = polarRadar.cfg
      /\ polarRadar'.connections = polarRadar.connections
      /\ polarRadar'.azimuth = a /\ polarRadar'.turn = turn
      /\ polarRadar'.came = [polarRadar.came EXCEPT ![a] = turn]
  BY <1>1, <1>2 DEF PolarFields
<1>7. /\ talker' = Ros1!Painted(t, a, turn)
      /\ \/ topic' = topic
         \/ /\ talker.frame > 2
            /\ topic' = [cfg |-> talker.cfg, columns |-> talker.columns, came |-> polarRadar.came]
  BY <1>1 DEF Ros1!FFTDataHandler, Ros1!TalkerFftData, Ros1!TurnedRound, Ros1!Publish
<1>8. /\ DOMAIN t = TalkerFields /\ t.cfg = talker.cfg /\ t.columns = talker.columns
      /\ t.frame = frame
  BY <1>2 DEF TalkerFields
<1> HIDE DEF t
<1>9. talker' = [t EXCEPT !.columns = IF t.frame > 2 THEN [t.columns EXCEPT ![Bearing(a)] = turn]
                                      ELSE t.columns,
                          !.last = a]
  BY <1>7 DEF Ros1!Painted, Bearing
<1>10. /\ DOMAIN talker' = TalkerFields /\ talker'.cfg = t.cfg /\ talker'.frame = t.frame
       /\ talker'.last = a
       /\ talker'.columns = IF t.frame > 2 THEN [t.columns EXCEPT ![Bearing(a)] = turn]
                            ELSE t.columns
  BY <1>8, <1>9 DEF TalkerFields
<1>11. frame \in Nat BY <1>2
<1> QED BY <1>1, <1>6, <1>7, <1>8, <1>10, <1>11

LEMMA TurnKeeps ==
    ASSUME TalkerInv, Ros1!RadarTurns
    PROVE  TalkerInv'
<1>n. PICK n, a, turn : n = polarRadar.cfg.azimuths /\ a = Ros1!NextAzimuth /\ turn = Ros1!NextTurn
  OBVIOUS
<1> DEFINE frame == IF a < talker.last /\ ~(talker.frame > 3) THEN talker.frame + 1
                                                             ELSE talker.frame
           columns == talker.columns
           came == polarRadar.came
           painted == [columns EXCEPT ![Bearing(a)] = turn]
           now == [came EXCEPT ![a] = turn]
<1>1. /\ polarRadar.connections > 0
      /\ DOMAIN polarRadar' = PolarFields
      /\ polarRadar'.cfg = polarRadar.cfg
      /\ polarRadar'.connections = polarRadar.connections
      /\ polarRadar'.azimuth = a /\ polarRadar'.turn = turn /\ polarRadar'.came = now
      /\ DOMAIN talker' = TalkerFields /\ talker'.cfg = talker.cfg
      /\ talker'.frame = frame /\ frame \in Nat /\ talker'.last = a
      /\ talker'.columns = IF frame > 2 THEN painted ELSE columns
      /\ \/ topic' = topic
         \/ /\ talker.frame > 2
            /\ topic' = [cfg |-> talker.cfg, columns |-> columns, came |-> came]
  BY <1>n, TurnFacts
<1>2. /\ n \in Nat \ {0} /\ TalkerConnected(n) /\ a \in 1..n
      /\ turn \in Nat \ {0} /\ polarRadar.turn <= turn
      /\ came \in [1..n -> 0..turn]
      /\ turn = polarRadar.turn => a = polarRadar.azimuth + 1
  BY <1>n, <1>1, NextFacts
<1>3. /\ talker.cfg = polarRadar.cfg
      /\ polarRadar.azimuth \in 0..n /\ talker.last \in 0..n
      /\ came \in [1..n -> 0..polarRadar.turn]
      /\ talker.last > 0 => LatestPass(polarRadar, talker.last, n)
      /\ DOMAIN columns = 1..n
      /\ talker.frame <= 2 => \A c \in 1..n : columns[c] = 0
      /\ talker.frame > 2 => AsReceived(columns, came, n)
  BY <1>2 DEF TalkerConnected
<1>4. /\ talker.frame \in Nat /\ polarRadar.turn \in Nat \ {0}
      /\ polarRadar.cfg \in Configs /\ polarRadar.connections \in Nat
  BY DEF TalkerInv
\* The azimuth with which talker1 begins to paint is of a later turn than all before.
<1>5. ASSUME a < talker.last PROVE \A b \in 1..n : came[b] < turn
  <2> DEFINE last == talker.last
  <2>1. last \in 1..n /\ LatestPass(polarRadar, last, n) BY <1>2, <1>3, <1>5
  <2>2. came[last] \in 0..polarRadar.turn /\ came[last] # turn
    <3>1. CASE turn = polarRadar.turn
      <4>1. a = polarRadar.azimuth + 1 BY <1>2, <3>1
      <4>2. ~(last <= polarRadar.azimuth) BY <1>2, <1>3, <1>5, <2>1, <4>1
      <4> QED BY <1>3, <2>1, <3>1, <4>2 DEF LatestPass
    <3>2. CASE turn # polarRadar.turn BY <1>2, <1>3, <1>4, <2>1, <3>2
    <3> QED BY <3>1, <3>2
  <2>3. came[last] < turn BY <1>2, <1>4, <2>2
  <2>4. \A b \in 1..n : came[b] <= came[last] BY <2>1 DEF LatestPass
  <2>5. ASSUME NEW b \in 1..n PROVE came[b] \in Nat
    <3>1. came[b] \in 0..polarRadar.turn BY <1>3
    <3> QED BY <1>4, <3>1
  <2> HIDE DEF last, came
  <2> QED BY <1>2, <1>4, <2>1, <2>3, <2>4, <2>5
<1>6. frame > 2 => talker.frame > 2 \/ (talker.frame <= 2 /\ a < talker.last)
  BY <1>4
<1>7. talker.frame > 2 => frame > 2 BY <1>4
<1> HIDE DEF frame
<1>8. ASSUME frame > 2 PROVE DOMAIN painted = 1..n /\ AsReceived(painted, now, n)
  <2>1. \/ AsReceived(columns, came, n)
        \/ (\A c \in 1..n : columns[c] = 0) /\ (\A b \in 1..n : came[b] < turn)
    BY <1>3, <1>5, <1>6, <1>8
  <2>2. turn \in Nat BY <1>2
  <2>3. painted = [columns EXCEPT ![Bearing(a)] = turn] /\ now = [came EXCEPT ![a] = turn]
    OBVIOUS
  <2> HIDE DEF painted, now, columns, came
  <2> QED BY <1>2, <1>3, <2>1, <2>2, <2>3, PaintsOver
<1>9. now \in [1..n -> 0..turn] /\ now[a] = turn /\ \A b \in 1..n : now[b] <= now[a]
  <2>1. turn \in 0..turn BY <1>2
  <2>2. now \in [1..n -> 0..turn] /\ now[a] = turn BY <1>2, <2>1
  <2>3. \A b \in 1..n : now[b] \in 0..turn BY <2>2
  <2> QED BY <1>2, <2>2, <2>3
<1> HIDE DEF painted, now
<1>10. TalkerConnected(n)'
  <2>1. DOMAIN talker'.columns = 1..n BY <1>1, <1>3, <1>8
  <2>2. LatestPass(polarRadar', talker'.last, n)
    <3>1. a <= polarRadar'.azimuth BY <1>1, <1>2
    <3>2. \A b \in 1..n : now[b] <= now[a] BY <1>9
    <3>3. polarRadar'.came = now /\ talker'.last = a BY <1>1
    <3> QED BY <3>1, <3>2, <3>3 DEF LatestPass
  <2>3. talker'.frame <= 2 => \A c \in 1..n : talker'.columns[c] = 0
    <3>1. frame <= 2 => ~(frame > 2) /\ talker.frame <= 2 BY <1>1, <1>4, <1>7
    <3> QED BY <1>1, <1>3, <3>1
  <2>4. talker'.frame > 2 => AsReceived(talker'.columns, polarRadar'.came, n) BY <1>1, <1>8
  <2>5. a \in 0..n /\ talker'.cfg = polarRadar'.cfg BY <1>1, <1>2, <1>3
  <2> QED BY <1>1, <1>9, <2>1, <2>2, <2>3, <2>4, <2>5 DEF TalkerConnected
<1>11. ImagesAsReceived'
  <2>1. CASE topic' = topic BY <2>1 DEF TalkerInv, ImagesAsReceived, Ros1!ImagesAsReceived
  <2>2. CASE /\ talker.frame > 2
             /\ topic' = [cfg |-> talker.cfg, columns |-> columns, came |-> came]
    <3>1. /\ topic'.cfg.azimuths = n /\ topic'.columns = columns /\ topic'.came = came
          /\ DOMAIN columns = 1..n /\ DOMAIN came = 1..n /\ AsReceived(columns, came, n)
      BY <1>3, <1>n, <2>2
    <3> HIDE DEF columns, came
    <3>2. ASSUME NEW c \in 1..n
          PROVE  LET on == {b \in 1..n : Bearing(b) = c}
                 IN  /\ columns[c] = 0 \/ \E b \in on : came[b] = columns[c]
                     /\ \A b \in on : \/ came[b] <= columns[c]
                                      \/ columns[c] = 0 /\ \E e \in 1..n : came[e] > came[b]
      BY <3>1 DEF AsReceived
    <3>3. {DOMAIN topic'.columns, DOMAIN topic'.came} = {1..topic'.cfg.azimuths} BY <3>1
    <3> QED BY <3>1, <3>2, <3>3 DEF ImagesAsReceived, Ros1!ImagesAsReceived, Bearing
  <2> QED BY <1>1, <2>1, <2>2
<1>12. polarRadar'.cfg.azimuths = n BY <1>n, <1>1
<1> QED BY <1>1, <1>2, <1>4, <1>10, <1>11, <1>12 DEF TalkerInv

\* An azimuth that gets lost leaves talker1 as it is.
LEMMA LostKeeps ==
    ASSUME TalkerInv, Ros1!AzimuthLost
    PROVE  TalkerInv'
<1>n. PICK n, a, turn : n = polarRadar.cfg.azimuths /\ a = Ros1!NextAzimuth /\ turn = Ros1!NextTurn
  OBVIOUS
<1>0. /\ polarRadar.connections > 0 /\ talker' = talker /\ topic' = topic
      /\ polarRadar' = [polarRadar EXCEPT !.azimuth = a, !.turn = turn, !.lost = @ + 1]
  BY <1>n DEF Ros1!AzimuthLost
<1>1. /\ DOMAIN polarRadar' = PolarFields
      /\ polarRadar'.cfg = polarRadar.cfg /\ polarRadar'.came = polarRadar.came
      /\ polarRadar'.connections = polarRadar.connections
      /\ polarRadar'.azimuth = a /\ polarRadar'.turn = turn
  BY <1>0 DEF TalkerInv, PolarFields
<1>2. /\ n \in Nat \ {0} /\ TalkerConnected(n) /\ a \in 1..n
      /\ turn \in Nat \ {0} /\ polarRadar.turn <= turn
      /\ polarRadar.came \in [1..n -> 0..turn]
      /\ turn = polarRadar.turn => a = polarRadar.azimuth + 1
  BY <1>n, <1>0, NextFacts
<1>3. polarRadar.turn \in Nat \ {0} BY DEF TalkerInv
<1>4. /\ polarRadar.azimuth \in 0..n /\ talker.last \in 0..n
      /\ polarRadar.came \in [1..n -> 0..polarRadar.turn]
      /\ talker.last > 0 => LatestPass(polarRadar, talker.last, n)
  BY <1>2 DEF TalkerConnected
<1>5. ASSUME talker.last > 0 PROVE LatestPass(polarRadar', talker'.last, n)
  <2> DEFINE last == talker.last
             came == polarRadar.came
  <2>1. last \in 1..n /\ LatestPass(polarRadar, last, n) BY <1>2, <1>4, <1>5
  <2>2. ASSUME came[last] = turn PROVE last <= a
    <3>1. came[last] \in 0..polarRadar.turn BY <1>4, <2>1
    <3>2. turn = polarRadar.turn BY <1>2, <1>3, <2>2, <3>1
    <3>3. last <= polarRadar.azimuth /\ a = polarRadar.azimuth + 1
      BY <1>2, <2>1, <2>2, <3>2 DEF LatestPass
    <3> QED BY <1>2, <1>4, <2>1, <3>3
  <2>3. \A b \in 1..n : came[b] <= came[last] BY <2>1 DEF LatestPass
  <2> QED BY <1>0, <1>1, <2>2, <2>3 DEF LatestPass
<1>6. TalkerConnected(n)'
  <2>1. a \in 0..n BY <1>2
  <2> QED BY <1>0, <1>1, <1>2, <1>5, <2>1 DEF TalkerConnected
<1>7. ImagesAsReceived' BY <1>0 DEF TalkerInv, ImagesAsReceived, Ros1!ImagesAsReceived
<1>8. polarRadar'.cfg.azimuths = n BY <1>n, <1>1
<1> QED BY <1>0, <1>1, <1>2, <1>6, <1>7, <1>8 DEF TalkerInv

LEMMA TalkerKeeps ==
    ASSUME TalkerInv, Ros1!Next \/ UNCHANGED ros1Vars
    PROVE  TalkerInv'
<1>1. CASE Ros1!Connect BY <1>1, ConnectKeeps
<1>2. CASE Ros1!RadarTurns BY <1>2, TurnKeeps
<1>3. CASE Ros1!AzimuthLost BY <1>3, LostKeeps
<1>4. CASE UNCHANGED <<polarRadar, talker, topic>>
  <2>1. polarRadar' = polarRadar /\ talker' = talker /\ topic' = topic BY <1>4
  <2>2. \A n : TalkerConnected(n)' <=> TalkerConnected(n)
    BY <2>1 DEF TalkerConnected, LatestPass
  <2> QED BY <2>1, <2>2 DEF TalkerInv, ImagesAsReceived, Ros1!ImagesAsReceived
<1>5. UNCHANGED ros1Vars => UNCHANGED <<polarRadar, talker, topic>> BY DEF ros1Vars
<1>6. Ros1!SetImageOn \/ Ros1!PlatformStarts \/ Ros1!ParamCallback \/ Ros1!UpdatePhi
        \/ Ros1!ChatterCallback \/ Ros1!RecorderStarts \/ Ros1!DataHandler
        \/ Ros1!DetectorCallback
      => UNCHANGED <<polarRadar, talker, topic>>
  BY Zenon DEF Ros1!SetImageOn, Ros1!PlatformStarts, Ros1!ParamCallback, Ros1!UpdatePhi,
         Ros1!ChatterCallback, Ros1!RecorderStarts, Ros1!DataHandler, Ros1!DetectorCallback,
         Ros1!talkerSide
<1> QED BY <1>1, <1>2, <1>3, <1>4, <1>5, <1>6 DEF Ros1!Next

----------------------------------------------------------------------------
(* The radar's video *)

Row(a) == Video!Row(a)
FftMessages == [turn : Nat, azimuth : VideoAzimuths, swept : SUBSET VideoAzimuths]

\* The azimuths S of the turn t are in the messages from k to n.
Covered(q, k, n, S, t) ==
    \A a \in S : \E i \in k..n : q[i].azimuth = a /\ q[i].turn = t

\* The queue holds the publisher's messages without a gap: those of a turn after those of
\* the turn before, and whoever sees one end, and the next, sees all its azimuths.
Stream(q) ==
    /\ \A i, j \in 1..Len(q) :
          i < j => /\ q[i].turn <= q[j].turn
                   /\ q[j].swept # {} => q[i].turn < q[j].turn
                   /\ q[i].swept # {} /\ q[j].swept # {} =>
                         Covered(q, i, j - 1, q[j].swept, q[j].turn - 1)
    /\ \A i \in 1..(Len(q) - 1) : q[i + 1].swept # {} <=> q[i + 1].azimuth < q[i].azimuth

\* The publisher, of turn t and whose last azimuth is `last` of the set S, goes on from it.
Ahead(q, last, S, t) ==
    /\ \A i \in 1..Len(q) : /\ q[i].turn <= t
                            /\ q[i].swept # {} => Covered(q, i, Len(q), S, t)
    /\ q # <<>> => last = q[Len(q)].azimuth

\* The subscriber, whose last azimuth is `seen`, has drawn what came before it.
Behind(q, rows, seen, last, S, t) ==
    /\ \A j \in 1..Len(q) : \A a \in q[j].swept :
          \/ rows[Row(a)] = q[j].turn - 1
          \/ \E i \in 1..(j - 1) : q[i].azimuth = a /\ q[i].turn = q[j].turn - 1
    /\ \A a \in S : \/ rows[Row(a)] = t
                    \/ \E i \in 1..Len(q) : q[i].azimuth = a /\ q[i].turn = t
    /\ IF q = <<>> THEN seen = last ELSE q[1].swept # {} <=> q[1].azimuth < seen

\* No row is of a later turn than what is to come.
NotAhead(rows, q, t) ==
    \A r \in DOMAIN rows : rows[r] <= t /\ \A i \in 1..Len(q) : rows[r] <= q[i].turn

PublisherFields == {"last", "rotations", "rotated_once", "fps", "swept"}
SubscriberFields == {"joined", "config", "last", "cameraConfig"}
TopicNames == {"config", "fft", "cameraConfig", "image"}

VideoType ==
    /\ DOMAIN publisher = PublisherFields
    /\ publisher.last \in Nat /\ publisher.rotations \in 0..(ConfigPublishCount - 1)
    /\ publisher.rotated_once \in BOOLEAN /\ publisher.fps \in Nat
    /\ publisher.swept \subseteq VideoAzimuths
    /\ publisher.last > 0 => publisher.swept # {}
    /\ DOMAIN videoRadar = {"configs", "turn"}
    /\ videoRadar.configs \in Nat /\ videoRadar.turn \in Nat \ {0}
    /\ videoRadar.configs > 0 => publisher.fps > 0
    /\ DOMAIN subscriber = SubscriberFields
    /\ subscriber.joined \in BOOLEAN /\ subscriber.config \in Nat /\ subscriber.last \in Nat
    /\ DOMAIN topics = TopicNames
    /\ topics.fft \in Seq(FftMessages) /\ Len(topics.fft) <= FftDepth
    /\ topics.config \in Seq(Nat \ {0})
    /\ DOMAIN radarVideo = {"rows", "frame", "intact"}
    /\ radarVideo.rows \in [Video!Rows -> Nat] /\ radarVideo.intact \in BOOLEAN
    /\ waited \in Nat

\* A subscriber that is not configured has not waited longer than the publisher counts.
WaitInv ==
    /\ ~subscriber.joined => waited = 0
    /\ "config" \in Video!Topics(kind.subscriber) =>
          \/ subscriber.config # Video!None
          \/ topics.config # <<>>
          \/ waited <= publisher.rotations

QueueInv ==
    /\ topics.fft # <<>> \/ radarVideo.intact =>
          subscriber.joined /\ publisher.rotated_once /\ "fft" \in Video!Topics(kind.subscriber)
    /\ Stream(topics.fft)
    /\ Ahead(topics.fft, publisher.last, publisher.swept, videoRadar.turn)
    /\ NotAhead(radarVideo.rows, topics.fft, videoRadar.turn)
    /\ radarVideo.intact => Behind(topics.fft, radarVideo.rows, subscriber.last,
                                   publisher.last, publisher.swept, videoRadar.turn)

VideoInv == VideoType /\ WaitInv /\ QueueInv /\ Video!FrameIsARotation

LEMMA MessageFacts ==
    ASSUME NEW q \in Seq(FftMessages)
    PROVE  /\ Len(q) \in Nat
           /\ \A i \in 1..Len(q) : /\ q[i] \in FftMessages
                                   /\ q[i].turn \in Nat /\ q[i].azimuth \in VideoAzimuths
                                   /\ q[i].azimuth \in Nat /\ q[i].swept \subseteq VideoAzimuths
<1>1. Len(q) \in Nat /\ \A i \in 1..Len(q) : q[i] \in FftMessages BY ElementOfSeq, LenProperties
<1> QED BY <1>1, VideoAssumption DEF FftMessages

LEMMA TailFacts ==
    ASSUME NEW q \in Seq(FftMessages), q # <<>>
    PROVE  LET s == Tail(q)
           IN  /\ s \in Seq(FftMessages) /\ Len(s) = Len(q) - 1 /\ Len(q) \in Nat /\ Len(q) >= 1
               /\ \A i \in 1..(Len(q) - 1) : s[i] = q[i + 1]
               /\ Head(q) = q[1] /\ q[1] \in FftMessages
               /\ s = <<>> <=> Len(q) = 1
<1>1. Len(q) \in Nat /\ Len(q) >= 1 BY EmptySeq, LenProperties
<1>2. /\ Tail(q) \in Seq(FftMessages) /\ Len(Tail(q)) = Len(q) - 1
      /\ \A i \in 1..(Len(q) - 1) : Tail(q)[i] = q[i + 1]
      /\ Head(q) = q[1] /\ q[1] \in FftMessages
  BY <1>1, HeadTailProperties, ElementOfSeq
<1>3. Tail(q) = <<>> <=> Len(q) = 1
  <2>1. Tail(q) = <<>> => Len(Tail(q)) = 0 BY <1>2, EmptySeq
  <2>2. Len(Tail(q)) = 0 => Tail(q) = <<>> BY <1>2, EmptySeq
  <2> QED BY <1>1, <1>2, <2>1, <2>2
<1> QED BY <1>1, <1>2, <1>3

LEMMA AppendFacts ==
    ASSUME NEW q \in Seq(FftMessages), NEW m \in FftMessages
    PROVE  LET s == Append(q, m)
           IN  /\ s \in Seq(FftMessages) /\ Len(s) = Len(q) + 1 /\ Len(q) \in Nat
               /\ \A i \in 1..Len(q) : s[i] = q[i]
               /\ s[Len(q) + 1] = m /\ s # <<>>
<1>1. Len(q) \in Nat BY LenProperties
<1>2. /\ Append(q, m) \in Seq(FftMessages) /\ Len(Append(q, m)) = Len(q) + 1
      /\ \A i \in 1..Len(q) : Append(q, m)[i] = q[i]
      /\ Append(q, m)[Len(q) + 1] = m
  BY <1>1, AppendProperties
<1>3. Append(q, m) # <<>> BY <1>1, <1>2, EmptySeq
<1> QED BY <1>1, <1>2, <1>3

\* What is in the queue and its publisher still holds without the first message.
LEMMA TailKeeps ==
    ASSUME NEW q \in Seq(FftMessages), q # <<>>, Stream(q),
           NEW last, NEW S, NEW t \in Nat, Ahead(q, last, S, t),
           NEW rows, NotAhead(rows, q, t)
    PROVE  Stream(Tail(q)) /\ Ahead(Tail(q), last, S, t) /\ NotAhead(rows, Tail(q), t)
<1> DEFINE s == Tail(q)
           n == Len(q)
<1>1. /\ s \in Seq(FftMessages) /\ Len(s) = n - 1 /\ n \in Nat /\ n >= 1
      /\ \A i \in 1..(n - 1) : s[i] = q[i + 1]
      /\ s = <<>> <=> n = 1
  BY TailFacts
<1> HIDE DEF s
<1>2. \A A, u : \A i \in 1..(n - 1), k \in 1..(n - 1) :
         Covered(q, i + 1, k + 1, A, u) => Covered(s, i, k, A, u)
  <2> SUFFICES ASSUME NEW A, NEW u, NEW i \in 1..(n - 1), NEW k \in 1..(n - 1),
                      Covered(q, i + 1, k + 1, A, u), NEW a \in A
               PROVE  \E j \in i..k : s[j].azimuth = a /\ s[j].turn = u
    BY DEF Covered
  <2>1. PICK j \in (i + 1)..(k + 1) : q[j].azimuth = a /\ q[j].turn = u BY DEF Covered
  <2>2. j - 1 \in i..k /\ j - 1 \in 1..(n - 1) /\ (j - 1) + 1 = j BY <1>1, <2>1
  <2>3. s[j - 1] = q[j] BY <1>1, <2>2
  <2> QED BY <2>1, <2>2, <2>3
<1>3. Stream(s)
  <2>1. ASSUME NEW i \in 1..Len(s), NEW j \in 1..Len(s), i < j
        PROVE  /\ s[i].turn <= s[j].turn
               /\ s[j].swept # {} => s[i].turn < s[j].turn
               /\ s[i].swept # {} /\ s[j].swept # {} =>
                     Covered(s, i, j - 1, s[j].swept, s[j].turn - 1)
    <3>1. i + 1 \in 1..n /\ j + 1 \in 1..n /\ i + 1 < j + 1 /\ (j + 1) - 1 = j /\ j = (j - 1) + 1
          /\ i \in 1..(n - 1) /\ j \in 1..(n - 1) /\ j - 1 \in 1..(n - 1)
      BY <1>1, <2>1
    <3>2. s[i] = q[i + 1] /\ s[j] = q[j + 1] BY <1>1, <3>1
    <3>3. /\ q[i + 1].turn <= q[j + 1].turn
          /\ q[j + 1].swept # {} => q[i + 1].turn < q[j + 1].turn
          /\ q[i + 1].swept # {} /\ q[j + 1].swept # {} =>
                Covered(q, i + 1, (j - 1) + 1, q[j + 1].swept, q[j + 1].turn - 1)
      BY <3>1 DEF Stream
    <3> QED BY <1>2, <3>1, <3>2, <3>3
  <2>2. ASSUME NEW i \in 1..(Len(s) - 1)
        PROVE  s[i + 1].swept # {} <=> s[i + 1].azimuth < s[i].azimuth
    <3>1. i \in 1..(n - 1) /\ i + 1 \in 1..(n - 1) BY <1>1
    <3>2. s[i] = q[i + 1] /\ s[i + 1] = q[(i + 1) + 1] BY <1>1, <3>1
    <3>3. q[(i + 1) + 1].swept # {} <=> q[(i + 1) + 1].azimuth < q[i + 1].azimuth
      BY <3>1 DEF Stream
    <3> QED BY <3>2, <3>3
  <2> QED BY <2>1, <2>2 DEF Stream
<1>4. Ahead(s, last, S, t)
  <2>1. ASSUME NEW i \in 1..Len(s)
        PROVE  s[i].turn <= t /\ (s[i].swept # {} => Covered(s, i, Len(s), S, t))
    <3>1. i \in 1..(n - 1) /\ n - 1 \in 1..(n - 1) /\ i + 1 \in 1..n /\ n = (n - 1) + 1
      BY <1>1
    <3>2. s[i] = q[i + 1] BY <1>1, <3>1
    <3>3. q[i + 1].turn <= t /\ (q[i + 1].swept # {} => Covered(q, i + 1, (n - 1) + 1, S, t))
      BY <3>1 DEF Ahead
    <3> QED BY <1>1, <1>2, <3>1, <3>2, <3>3
  <2>2. s # <<>> => last = s[Len(s)].azimuth
    <3> SUFFICES ASSUME s # <<>> PROVE last = s[Len(s)].azimuth OBVIOUS
    <3>1. n - 1 \in 1..(n - 1) /\ (n - 1) + 1 = n BY <1>1
    <3>2. s[n - 1] = q[n] BY <1>1, <3>1
    <3> QED BY <1>1, <3>2 DEF Ahead
  <2> QED BY <2>1, <2>2 DEF Ahead
<1>5. NotAhead(rows, s, t)
  <2>1. \A i \in 1..Len(s) : i + 1 \in 1..n /\ s[i] = q[i + 1] BY <1>1
  <2> QED BY <2>1 DEF NotAhead
<1> QED BY <1>3, <1>4, <1>5 DEF s

\* What the publisher sends next goes on from what it sent.
LEMMA AppendKeeps ==
    ASSUME NEW q \in Seq(FftMessages), Stream(q),
           NEW last \in Nat, NEW S \in SUBSET VideoAzimuths, NEW t \in Nat, Ahead(q, last, S, t),
           NEW rows, NotAhead(rows, q, t),
           DOMAIN rows = Video!Rows, \A r \in DOMAIN rows : rows[r] \in Nat,
           NEW m \in FftMessages, m.azimuth < last => S # {},
           m.turn = IF m.azimuth < last THEN t + 1 ELSE t,
           m.swept = IF m.azimuth < last THEN S ELSE {},
           NEW next, next = IF m.azimuth < last THEN {m.azimuth} ELSE S \cup {m.azimuth}
    PROVE  /\ Stream(Append(q, m))
           /\ Ahead(Append(q, m), m.azimuth, next, m.turn)
           /\ NotAhead(rows, Append(q, m), m.turn)
           /\ \A seen : Behind(q, rows, seen, last, S, t) =>
                           Behind(Append(q, m), rows, seen, m.azimuth, next, m.turn)
<1> DEFINE s == Append(q, m)
           n == Len(q)
           wrapped == m.azimuth < last
<1>1. /\ s \in Seq(FftMessages) /\ Len(s) = n + 1 /\ n \in Nat
      /\ \A i \in 1..n : s[i] = q[i]
      /\ s[n + 1] = m /\ s # <<>>
  BY AppendFacts
<1>2. /\ \A i \in 1..n : q[i].turn \in Nat /\ q[i].azimuth \in Nat
      /\ m.turn \in Nat /\ m.azimuth \in Nat
  BY MessageFacts, VideoAssumption DEF FftMessages
<1>3. \A i \in 1..(n + 1) : i \in 1..n \/ i = n + 1 BY <1>1
<1>4. m.swept # {} <=> wrapped OBVIOUS
<1>5. t <= m.turn /\ (wrapped => t < m.turn /\ m.turn - 1 = t) OBVIOUS
<1> HIDE DEF s
<1>6. \A A, u : \A i \in 1..n, k \in 0..n : Covered(q, i, k, A, u) => Covered(s, i, k, A, u)
  <2> SUFFICES ASSUME NEW A, NEW u, NEW i \in 1..n, NEW k \in 0..n,
                      Covered(q, i, k, A, u), NEW a \in A
               PROVE  \E j \in i..k : s[j].azimuth = a /\ s[j].turn = u
    BY DEF Covered
  <2>1. PICK j \in i..k : q[j].azimuth = a /\ q[j].turn = u BY DEF Covered
  <2>2. j \in 1..n BY <1>1, <2>1
  <2> QED BY <1>1, <2>1, <2>2
<1>7. Stream(s)
  <2>1. ASSUME NEW i \in 1..Len(s), NEW j \in 1..Len(s), i < j
        PROVE  /\ s[i].turn <= s[j].turn
               /\ s[j].swept # {} => s[i].turn < s[j].turn
               /\ s[i].swept # {} /\ s[j].swept # {} =>
                     Covered(s, i, j - 1, s[j].swept, s[j].turn - 1)
    <3>1. i \in 1..n BY <1>1, <2>1
    <3>2. s[i] = q[i] BY <1>1, <3>1
    <3>3. CASE j \in 1..n
      <4>1. s[j] = q[j] /\ j - 1 \in 0..n BY <1>1, <3>3
      <4>2. /\ q[i].turn <= q[j].turn
            /\ q[j].swept # {} => q[i].turn < q[j].turn
            /\ q[i].swept # {} /\ q[j].swept # {} =>
                  Covered(q, i, j - 1, q[j].swept, q[j].turn - 1)
        BY <2>1, <3>1, <3>3 DEF Stream
      <4> QED BY <1>6, <3>1, <3>2, <4>1, <4>2
    <3>4. CASE j = n + 1
      <4>1. s[j] = m /\ j - 1 = n /\ n \in 0..n BY <1>1, <3>4
      <4>2. q[i].turn <= t /\ (q[i].swept # {} => Covered(q, i, n, S, t)) BY <3>1 DEF Ahead
      <4>3. q[i].turn <= m.turn /\ (wrapped => q[i].turn < m.turn)
        BY SMTT(90), <1>2, <1>5, <3>1, <4>2
      <4>4. q[i].swept # {} /\ wrapped => Covered(s, i, n, m.swept, m.turn - 1)
        BY <1>5, <1>6, <3>1, <4>1, <4>2
      <4> QED BY <1>4, <3>2, <4>1, <4>3, <4>4
    <3> QED BY <1>1, <1>3, <3>3, <3>4
  <2>2. ASSUME NEW i \in 1..(Len(s) - 1)
        PROVE  s[i + 1].swept # {} <=> s[i + 1].azimuth < s[i].azimuth
    <3>1. i \in 1..n BY <1>1
    <3>2. s[i] = q[i] BY <1>1, <3>1
    <3>3. CASE i = n
      <4>1. s[i + 1] = m /\ q # <<>> BY <1>1, <3>1, <3>3, EmptySeq
      <4>2. last = q[n].azimuth BY <4>1 DEF Ahead
      <4> QED BY <1>4, <3>2, <3>3, <4>1, <4>2
    <3>4. CASE i # n
      <4>1. i + 1 \in 1..n /\ i \in 1..(n - 1) BY <1>1, <3>1, <3>4
      <4>2. s[i + 1] = q[i + 1] BY <1>1, <4>1
      <4> QED BY <3>2, <4>1, <4>2 DEF Stream
    <3> QED BY <3>3, <3>4
  <2> QED BY <2>1, <2>2 DEF Stream
<1>8. Ahead(s, m.azimuth, next, m.turn)
  <2>1. ASSUME NEW i \in 1..Len(s)
        PROVE  /\ s[i].turn <= m.turn
               /\ s[i].swept # {} => Covered(s, i, Len(s), next, m.turn)
    <3>1. s[i].turn <= m.turn
      <4>1. CASE i = n + 1 BY <1>1, <1>2, <4>1
      <4>2. CASE i \in 1..n
        <5>1. q[i].turn <= t BY <4>2 DEF Ahead
        <5> QED BY <1>1, <1>2, <1>5, <4>2, <5>1
      <4> QED BY <1>1, <1>3, <4>1, <4>2
    <3>2. ASSUME s[i].swept # {}, NEW a \in next
          PROVE  \E j \in i..(n + 1) : s[j].azimuth = a /\ s[j].turn = m.turn
      <4>1. n + 1 \in i..(n + 1) BY <1>1
      <4>2. CASE a = m.azimuth BY <1>1, <4>1, <4>2
      <4>3. CASE a # m.azimuth
        <5>1. ~wrapped /\ a \in S /\ m.turn = t BY <3>2, <4>3
        <5>2. i # n + 1 BY <1>1, <1>4, <3>2, <5>1
        <5>3. i \in 1..n /\ s[i] = q[i] BY <1>1, <1>3, <5>2
        <5>4. Covered(q, i, n, S, t) BY <3>2, <5>3 DEF Ahead
        <5>5. n \in 0..n BY <1>1
        <5>6. Covered(s, i, n, S, t) BY <1>6, <5>3, <5>4, <5>5
        <5>7. PICK j \in i..n : s[j].azimuth = a /\ s[j].turn = t BY <5>1, <5>6 DEF Covered
        <5>8. j \in i..(n + 1) BY <1>1, <5>7
        <5> QED BY <5>1, <5>7, <5>8
      <4> QED BY <4>2, <4>3
    <3> QED BY <1>1, <3>1, <3>2 DEF Covered
  <2>2. m.azimuth = s[Len(s)].azimuth BY <1>1
  <2> QED BY <2>1, <2>2 DEF Ahead
<1>9. NotAhead(rows, s, m.turn)
  <2>1. ASSUME NEW r \in DOMAIN rows
        PROVE  rows[r] <= m.turn /\ \A i \in 1..Len(s) : rows[r] <= s[i].turn
    <3>1. rows[r] <= m.turn
      <4>1. rows[r] <= t /\ rows[r] \in Nat BY DEF NotAhead
      <4> QED BY <1>2, <1>5, <4>1
    <3>2. ASSUME NEW i \in 1..(n + 1) PROVE rows[r] <= s[i].turn
      <4>1. CASE i = n + 1 BY <1>1, <3>1, <4>1
      <4>2. CASE i \in 1..n BY <1>1, <4>2 DEF NotAhead
      <4> QED BY <1>3, <4>1, <4>2
    <3> QED BY <1>1, <3>1, <3>2
  <2> QED BY <2>1 DEF NotAhead
<1>10. ASSUME NEW seen, Behind(q, rows, seen, last, S, t)
       PROVE  Behind(s, rows, seen, m.azimuth, next, m.turn)
  <2>1. ASSUME NEW j \in 1..Len(s), NEW a \in s[j].swept
        PROVE  \/ rows[Row(a)] = s[j].turn - 1
               \/ \E i \in 1..(j - 1) : s[i].azimuth = a /\ s[i].turn = s[j].turn - 1
    <3>1. CASE j \in 1..n
      <4>1. s[j] = q[j] BY <1>1, <3>1
      <4>2. \/ rows[Row(a)] = q[j].turn - 1
            \/ \E i \in 1..(j - 1) : q[i].azimuth = a /\ q[i].turn = q[j].turn - 1
        BY <1>10, <2>1, <3>1, <4>1 DEF Behind
      <4>3. \A i \in 1..(j - 1) : i \in 1..n /\ s[i] = q[i] BY <1>1, <3>1
      <4> QED BY <4>1, <4>2, <4>3
    <3>2. CASE j = n + 1
      <4>1. s[j] = m /\ a \in S /\ m.turn - 1 = t /\ j - 1 = n
        BY <1>1, <1>4, <1>5, <2>1, <3>2
      <4>2. \/ rows[Row(a)] = t
            \/ \E i \in 1..n : q[i].azimuth = a /\ q[i].turn = t
        BY <1>10, <4>1 DEF Behind
      <4> QED BY <1>1, <4>1, <4>2
    <3> QED BY <1>1, <1>3, <3>1, <3>2
  <2>2. ASSUME NEW a \in next
        PROVE  \/ rows[Row(a)] = m.turn
               \/ \E i \in 1..Len(s) : s[i].azimuth = a /\ s[i].turn = m.turn
    <3>1. n + 1 \in 1..Len(s) BY <1>1
    <3>2. CASE a = m.azimuth BY <1>1, <3>1, <3>2
    <3>3. CASE a # m.azimuth
      <4>1. a \in S /\ m.turn = t BY <2>2, <3>3
      <4>2. \/ rows[Row(a)] = t
            \/ \E i \in 1..n : q[i].azimuth = a /\ q[i].turn = t
        BY <1>10, <4>1 DEF Behind
      <4>3. \A i \in 1..n : i \in 1..Len(s) /\ s[i] = q[i] BY <1>1
      <4> QED BY <4>1, <4>2, <4>3
    <3> QED BY <3>2, <3>3
  <2>3. s[1].swept # {} <=> s[1].azimuth < seen
    <3>1. CASE q = <<>>
      <4>1. n = 0 BY <3>1, EmptySeq
      <4>2. s[1] = m BY <1>1, <4>1
      <4>3. seen = last BY <1>10, <3>1 DEF Behind
      <4> QED BY <1>4, <4>2, <4>3
    <3>2. CASE q # <<>>
      <4>1. 1 \in 1..n BY <1>1, <3>2, EmptySeq
      <4>2. s[1] = q[1] BY <1>1, <4>1
      <4> QED BY <1>10, <3>2, <4>2 DEF Behind
    <3> QED BY <3>1, <3>2
  <2> QED BY <1>1, <2>1, <2>2, <2>3 DEF Behind
<1> QED BY <1>7, <1>8, <1>9, <1>10 DEF s

\* What the subscriber takes it draws: it is then behind by the rest, if it was before or
\* if a rotation ended with this message.
LEMMA DrawKeeps ==
    ASSUME NEW q \in Seq(FftMessages), q # <<>>, Stream(q),
           NEW last, NEW S \in SUBSET VideoAzimuths, NEW t \in Nat, Ahead(q, last, S, t),
           NEW rows, NotAhead(rows, q, t),
           DOMAIN rows = Video!Rows, \A r \in DOMAIN rows : rows[r] \in Nat,
           NEW seen, Behind(q, rows, seen, last, S, t) \/ Head(q).swept # {},
           NEW drawn, drawn = [rows EXCEPT ![Row(Head(q).azimuth)] = Head(q).turn]
    PROVE  Behind(Tail(q), drawn, Head(q).azimuth, last, S, t)
<1> DEFINE s == Tail(q)
           n == Len(q)
           m == Head(q)
           row == Row(m.azimuth)
<1>1. /\ s \in Seq(FftMessages) /\ Len(s) = n - 1 /\ n \in Nat /\ n >= 1
      /\ \A i \in 1..(n - 1) : s[i] = q[i + 1]
      /\ m = q[1] /\ m \in FftMessages
      /\ s = <<>> <=> n = 1
  BY TailFacts
<1>2. /\ \A i \in 1..n : q[i].turn \in Nat /\ q[i].azimuth \in Nat
      /\ m.turn \in Nat /\ m.azimuth \in VideoAzimuths
  BY <1>1, MessageFacts DEF FftMessages
<1>3. row \in DOMAIN rows BY <1>2 DEF Row, Video!Row, Video!Rows
<1> HIDE DEF s, m, row
<1>5. \A r \in DOMAIN rows : drawn[r] = IF r = row THEN m.turn ELSE rows[r]
  BY <1>3 DEF row, m
<1>6. 1 \in 1..n BY <1>1
<1>7. \A a \in VideoAzimuths : Row(a) \in DOMAIN rows BY DEF Row, Video!Row, Video!Rows
\* A row that showed the turn before a message still does, or this message is of that turn.
<1>9. ASSUME NEW a \in VideoAzimuths, NEW u \in Int, m.turn <= u, rows[Row(a)] = u
      PROVE  drawn[Row(a)] = u
  <2>1. rows[Row(a)] <= m.turn BY <1>1, <1>6, <1>7 DEF NotAhead
  <2>2. u = m.turn BY <1>2, <1>9, <2>1
  <2> QED BY <1>5, <1>7, <1>9, <2>2
<1>10. ASSUME NEW j \in 2..n, NEW a \in q[j].swept
       PROVE  \/ rows[Row(a)] = q[j].turn - 1
              \/ \E i \in 1..(j - 1) : q[i].azimuth = a /\ q[i].turn = q[j].turn - 1
  <2>1. j \in 1..n BY <1>1
  <2>2. CASE Behind(q, rows, seen, last, S, t) BY <2>1, <2>2 DEF Behind
  <2>3. CASE m.swept # {}
    <3>1. 1 < j /\ q[j].swept # {} BY <1>1, <1>10
    <3>2. Covered(q, 1, j - 1, q[j].swept, q[j].turn - 1)
      BY <1>1, <1>6, <2>1, <2>3, <3>1 DEF Stream
    <3> QED BY <3>2 DEF Covered
  <2> QED BY <2>2, <2>3 DEF m
<1>11. ASSUME NEW a \in S
       PROVE  \/ rows[Row(a)] = t
              \/ \E i \in 1..n : q[i].azimuth = a /\ q[i].turn = t
  <2>1. CASE Behind(q, rows, seen, last, S, t) BY <2>1 DEF Behind
  <2>2. CASE m.swept # {}
    <3>1. Covered(q, 1, n, S, t) BY <1>1, <1>6, <2>2 DEF Ahead
    <3> QED BY <3>1 DEF Covered
  <2> QED BY <2>1, <2>2 DEF m
\* From what the queue holds to what the rest of it holds
<1>12. ASSUME NEW a \in VideoAzimuths, NEW u \in Int, m.turn <= u, NEW k \in 1..n,
              \/ rows[Row(a)] = u
              \/ \E i \in 1..k : q[i].azimuth = a /\ q[i].turn = u
       PROVE  \/ drawn[Row(a)] = u
              \/ \E i \in 1..(k - 1) : s[i].azimuth = a /\ s[i].turn = u
  <2>1. CASE rows[Row(a)] = u BY <1>9, <1>12, <2>1
  <2>2. ASSUME NEW i \in 1..k, q[i].azimuth = a, q[i].turn = u
        PROVE  \/ drawn[Row(a)] = u
               \/ \E l \in 1..(k - 1) : s[l].azimuth = a /\ s[l].turn = u
    <3>1. CASE i = 1
      <4>1. m.azimuth = a /\ m.turn = u BY <1>1, <2>2, <3>1
      <4>2. Row(a) = row BY <4>1 DEF row
      <4> QED BY <1>3, <1>5, <4>1, <4>2
    <3>2. CASE i # 1
      <4>1. i - 1 \in 1..(k - 1) /\ i - 1 \in 1..(n - 1) /\ (i - 1) + 1 = i BY <1>1, <3>2
      <4>2. s[i - 1] = q[i] BY <1>1, <4>1
      <4> QED BY <2>2, <4>1, <4>2
    <3> QED BY <3>1, <3>2
  <2> QED BY <1>12, <2>1, <2>2
<1>13. ASSUME NEW j \in 1..Len(s), NEW a \in s[j].swept
       PROVE  \/ drawn[Row(a)] = s[j].turn - 1
              \/ \E i \in 1..(j - 1) : s[i].azimuth = a /\ s[i].turn = s[j].turn - 1
  <2>1. /\ j + 1 \in 2..n /\ j + 1 \in 1..n /\ j \in 1..n /\ (j + 1) - 1 = j /\ 1 < j + 1
        /\ j \in 1..(n - 1)
    BY SMTT(90), <1>1
  <2>2. s[j] = q[j + 1] BY <1>1, <2>1
  <2>3. q[j + 1].swept # {} BY <1>13, <2>2
  <2>4. m.turn < q[j + 1].turn BY <1>1, <1>6, <2>1, <2>3 DEF Stream
  <2>5. a \in VideoAzimuths BY <1>13, <2>1, <2>2, MessageFacts
  <2> DEFINE u == q[j + 1].turn - 1
  <2>6. u \in Int /\ m.turn <= u BY SMTT(90), <1>2, <2>1, <2>4
  <2>7. \/ rows[Row(a)] = u
        \/ \E i \in 1..j : q[i].azimuth = a /\ q[i].turn = u
    BY <1>10, <1>13, <2>1, <2>2
  <2> HIDE DEF u
  <2>8. \/ drawn[Row(a)] = u
        \/ \E i \in 1..(j - 1) : s[i].azimuth = a /\ s[i].turn = u
    <3>1. j \in 1..n /\ a \in VideoAzimuths /\ u \in Int /\ m.turn <= u BY <2>1, <2>5, <2>6
    <3> QED BY SMTT(90), <1>12, <2>7, <3>1
  <2> QED BY <2>2, <2>8 DEF u
<1>14. ASSUME NEW a \in S
       PROVE  \/ drawn[Row(a)] = t
              \/ \E i \in 1..Len(s) : s[i].azimuth = a /\ s[i].turn = t
  <2>1. m.turn <= t BY <1>1, <1>6 DEF Ahead
  <2>2. n \in 1..n /\ Len(s) = n - 1 /\ a \in VideoAzimuths BY <1>1, <1>14
  <2> QED BY SMTT(90), <1>11, <1>12, <1>14, <2>1, <2>2
<1>15. IF s = <<>> THEN m.azimuth = last ELSE s[1].swept # {} <=> s[1].azimuth < m.azimuth
  <2>1. CASE n = 1
    <3>1. last = q[n].azimuth BY DEF Ahead
    <3> QED BY <1>1, <2>1, <3>1
  <2>2. CASE n # 1
    <3>1. 1 \in 1..(n - 1) /\ 1 + 1 = 2 BY <1>1, <2>2
    <3>2. s[1] = q[2] BY <1>1, <3>1
    <3>3. q[2].swept # {} <=> q[2].azimuth < q[1].azimuth BY <3>1 DEF Stream
    <3> QED BY <1>1, <2>2, <3>2, <3>3
  <2> QED BY <2>1, <2>2
<1> QED BY <1>13, <1>14, <1>15 DEF Behind, s, m

LEMMA EmptyQueue ==
    /\ Stream(<<>>)
    /\ \A last, S, t : Ahead(<<>>, last, S, t)
<1>1. Len(<<>>) = 0 OBVIOUS
<1>2. \A i \in 1..Len(<<>>) : FALSE BY <1>1
<1>3. \A i \in 1..(Len(<<>>) - 1) : FALSE BY <1>1
<1> QED BY <1>2, <1>3 DEF Stream, Ahead

LEMMA PublishedFacts ==
    ASSUME VideoType, NEW messages
    PROVE  LET p == Video!Published(messages)
           IN  /\ DOMAIN p = TopicNames
               /\ \A t \in TopicNames :
                     p[t] = IF subscriber.joined /\ t \in DOMAIN messages
                                /\ t \in Video!Topics(kind.subscriber)
                            THEN Video!KeepLast(topics[t], messages[t], Video!Depth(t))
                            ELSE topics[t]
BY DEF VideoType, Video!Published

LEMMA KeepConfiguration ==
    ASSUME NEW c \in Seq(Nat \ {0}), NEW x \in Nat \ {0}
    PROVE  LET k == Video!KeepLast(c, x, Video!Depth("config"))
           IN  k \in Seq(Nat \ {0}) /\ k # <<>>
<1>1. \A b \in Seq(Nat \ {0}) : Append(b, x) \in Seq(Nat \ {0}) /\ Append(b, x) # <<>>
  <2> SUFFICES ASSUME NEW b \in Seq(Nat \ {0})
               PROVE  Append(b, x) \in Seq(Nat \ {0}) /\ Append(b, x) # <<>>
    OBVIOUS
  <2>1. /\ Append(b, x) \in Seq(Nat \ {0}) /\ Len(Append(b, x)) = Len(b) + 1 /\ Len(b) \in Nat
    BY AppendProperties, LenProperties
  <2> QED BY SMTT(90), <2>1, EmptySeq
<1>2. Len(c) \in Nat /\ (c # <<>> => Tail(c) \in Seq(Nat \ {0}))
  BY HeadTailProperties, LenProperties
<1>3. ~(Len(c) < 1) => c # <<>> BY <1>2, EmptySeq
<1>4. Video!Depth("config") = 1 BY DEF Video!Depth
<1> QED BY <1>1, <1>2, <1>3, <1>4 DEF Video!KeepLast

\* The steps that neither send nor take radar data
LEMMA QueueUnaffected ==
    ASSUME QueueInv, kind' = kind, topics'.fft = topics.fft, radarVideo' = radarVideo,
           publisher'.last = publisher.last, publisher'.swept = publisher.swept,
           publisher'.rotated_once = publisher.rotated_once,
           videoRadar'.turn = videoRadar.turn, subscriber'.last = subscriber.last,
           subscriber.joined => subscriber'.joined
    PROVE  QueueInv'
<1>2. Ahead(topics'.fft, publisher'.last, publisher'.swept, videoRadar'.turn)
  BY DEF QueueInv
<1>3. NotAhead(radarVideo'.rows, topics'.fft, videoRadar'.turn) BY DEF QueueInv
<1>4. radarVideo'.intact => Behind(topics'.fft, radarVideo'.rows, subscriber'.last,
                                   publisher'.last, publisher'.swept, videoRadar'.turn)
  BY DEF QueueInv
<1>5. /\ topics'.fft # <<>> \/ radarVideo'.intact =>
            /\ subscriber'.joined /\ publisher'.rotated_once
            /\ "fft" \in Video!Topics(kind'.subscriber)
  BY DEF QueueInv
<1>6. Stream(topics'.fft) BY DEF QueueInv
<1> QED BY <1>2, <1>3, <1>4, <1>5, <1>6 DEF QueueInv, Video!Topics

LEMMA VideoBegins == Video!VideoInit => VideoInv
<1> SUFFICES ASSUME Video!VideoInit PROVE VideoInv OBVIOUS
<1>1. /\ videoRadar = [configs |-> 0, turn |-> 1]
      /\ publisher = [last |-> 0, rotations |-> 0, rotated_once |-> FALSE, fps |-> 0,
                      swept |-> {}]
      /\ topics = [t \in {"config", "fft", "cameraConfig", "image"} |-> <<>>]
      /\ subscriber = [joined |-> FALSE, config |-> Video!None, last |-> 0,
                       cameraConfig |-> FALSE]
      /\ radarVideo = [rows |-> [r \in Video!Rows |-> 0], frame |-> <<>>, intact |-> FALSE]
      /\ waited = 0
  BY DEF Video!VideoInit
<1>2. topics.fft = <<>> /\ topics.config = <<>> /\ DOMAIN topics = TopicNames
  BY <1>1 DEF TopicNames
<1>3. VideoType
  <2>1. 0 \in 0..(ConfigPublishCount - 1) BY CountAssumption
  <2>2. <<>> \in Seq(FftMessages) /\ <<>> \in Seq(Nat \ {0}) /\ Len(<<>>) = 0 OBVIOUS
  <2>3. FftDepth \in Nat BY VideoAssumption
  <2>4. DOMAIN publisher = PublisherFields /\ DOMAIN subscriber = SubscriberFields
    BY <1>1 DEF PublisherFields, SubscriberFields
  <2>5. radarVideo.rows \in [Video!Rows -> Nat] /\ DOMAIN radarVideo = {"rows", "frame", "intact"}
    BY <1>1
  <2> QED BY <1>1, <1>2, <2>1, <2>2, <2>3, <2>4, <2>5 DEF VideoType, Video!None
<1>4. WaitInv BY <1>1, CountAssumption DEF WaitInv
<1>5. QueueInv
  <2>1. Stream(topics.fft) /\ Ahead(topics.fft, publisher.last, publisher.swept, videoRadar.turn)
    BY <1>2, EmptyQueue
  <2>2. NotAhead(radarVideo.rows, topics.fft, videoRadar.turn)
    <3>1. \A i \in 1..Len(<<>>) : FALSE OBVIOUS
    <3>2. \A r \in Video!Rows : radarVideo.rows[r] = 0 BY <1>1
    <3>3. DOMAIN radarVideo.rows = Video!Rows /\ videoRadar.turn = 1 BY <1>1
    <3> QED BY <1>2, <3>1, <3>2, <3>3 DEF NotAhead
  <2>3. ~radarVideo.intact /\ topics.fft = <<>> BY <1>1, <1>2
  <2> QED BY <2>1, <2>2, <2>3 DEF QueueInv
<1>6. Video!FrameIsARotation
  <2>1. radarVideo.frame = <<>> BY <1>1
  <2> QED BY <2>1 DEF Video!FrameIsARotation
<1> QED BY <1>3, <1>4, <1>5, <1>6 DEF VideoInv

\* The configurations, the camera and the subscriber's arrival
LEMMA OthersKeep ==
    ASSUME VideoInv,
           \/ Video!ConfigurationData
           \/ Video!CameraImageBegins
           \/ Video!CameraImageEnds
           \/ Video!Join
           \/ UNCHANGED videoVars
    PROVE  VideoInv'
<1>0. VideoType /\ WaitInv /\ QueueInv /\ Video!FrameIsARotation BY DEF VideoInv
<1>1. CASE Video!ConfigurationData
  <2> DEFINE messages == [t \in {"config"} |-> videoRadar.configs + 1]
             p == Video!Published(messages)
  <2>1. /\ videoRadar' = [videoRadar EXCEPT !.configs = @ + 1]
        /\ publisher' = [publisher EXCEPT !.fps = videoRadar.configs + 1]
        /\ topics' = p
        /\ UNCHANGED <<kind, subscriber, radarVideo, waited>>
    BY <1>1 DEF Video!ConfigurationData
  <2>2. /\ DOMAIN p = TopicNames /\ p["fft"] = topics["fft"]
        /\ p["config"] = IF subscriber.joined /\ "config" \in Video!Topics(kind.subscriber)
                         THEN Video!KeepLast(topics["config"], videoRadar.configs + 1,
                                             Video!Depth("config"))
                         ELSE topics["config"]
    BY <1>0, PublishedFacts DEF TopicNames
  <2> HIDE DEF p
  <2>3. videoRadar.configs + 1 \in Nat \ {0} BY <1>0 DEF VideoType
  <2>4. /\ DOMAIN topics' = TopicNames /\ topics'.fft = topics.fft
        /\ topics'.config \in Seq(Nat \ {0})
        /\ topics.config # <<>> => topics'.config # <<>>
    BY <1>0, <2>1, <2>2, <2>3, KeepConfiguration DEF VideoType
  <2>5. /\ DOMAIN videoRadar' = {"configs", "turn"} /\ videoRadar'.turn = videoRadar.turn
        /\ videoRadar'.configs = videoRadar.configs + 1
        /\ DOMAIN publisher' = PublisherFields /\ publisher'.fps = videoRadar.configs + 1
        /\ publisher'.last = publisher.last /\ publisher'.rotations = publisher.rotations
        /\ publisher'.rotated_once = publisher.rotated_once
        /\ publisher'.swept = publisher.swept
    BY <1>0, <2>1 DEF VideoType, PublisherFields
  <2>6. VideoType' BY <1>0, <2>1, <2>3, <2>4, <2>5 DEF VideoType, Video!Rows
  <2>7. WaitInv' BY <1>0, <2>1, <2>4, <2>5 DEF WaitInv, Video!Topics, Video!None
  <2>8. QueueInv' BY <1>0, <2>1, <2>4, <2>5, QueueUnaffected
  <2>9. (Video!FrameIsARotation)' BY <1>0, <2>1 DEF Video!FrameIsARotation, Video!Row
  <2> QED BY <2>6, <2>7, <2>8, <2>9 DEF VideoInv
<1>2. CASE Video!CameraImageBegins \/ Video!CameraImageEnds
  <2>1. /\ UNCHANGED <<kind, videoRadar, publisher, subscriber, radarVideo, waited>>
        /\ topics' = topics \/ \E messages : /\ "fft" \notin DOMAIN messages
                                             /\ "config" \notin DOMAIN messages
                                             /\ topics' = Video!Published(messages)
    <3>1. CASE Video!CameraImageBegins
      <4> DEFINE messages == [t \in {"cameraConfig"} |-> publisher.fps]
      <4>1. /\ UNCHANGED <<kind, videoRadar, publisher, subscriber, radarVideo, waited>>
            /\ topics' = topics \/ topics' = Video!Published(messages)
        BY <3>1 DEF Video!CameraImageBegins
      <4>2. "fft" \notin DOMAIN messages /\ "config" \notin DOMAIN messages OBVIOUS
      <4> QED BY <4>1, <4>2
    <3>2. CASE Video!CameraImageEnds
      <4> DEFINE messages == [t \in {"image"} |-> camera.frames]
      <4>1. /\ UNCHANGED <<kind, videoRadar, publisher, subscriber, radarVideo, waited>>
            /\ topics' = topics \/ topics' = Video!Published(messages)
        BY <3>2 DEF Video!CameraImageEnds
      <4>2. "fft" \notin DOMAIN messages /\ "config" \notin DOMAIN messages OBVIOUS
      <4> QED BY <4>1, <4>2
    <3> QED BY <1>2, <3>1, <3>2
  <2>2. /\ DOMAIN topics' = TopicNames /\ topics'.fft = topics.fft
        /\ topics'.config = topics.config
    <3>1. CASE topics' = topics BY <1>0, <3>1 DEF VideoType
    <3>2. ASSUME NEW messages, "fft" \notin DOMAIN messages, "config" \notin DOMAIN messages,
                 topics' = Video!Published(messages)
          PROVE  /\ DOMAIN topics' = TopicNames /\ topics'.fft = topics.fft
                 /\ topics'.config = topics.config
      BY <1>0, <3>2, PublishedFacts DEF TopicNames
    <3> QED BY <2>1, <3>1, <3>2
  <2>3. VideoType' BY <1>0, <2>1, <2>2 DEF VideoType, Video!Rows
  <2>4. WaitInv' BY <1>0, <2>1, <2>2 DEF WaitInv, Video!Topics, Video!None
  <2>5. QueueInv' BY <1>0, <2>1, <2>2, QueueUnaffected
  <2>6. (Video!FrameIsARotation)' BY <1>0, <2>1 DEF Video!FrameIsARotation, Video!Row
  <2> QED BY <2>3, <2>4, <2>5, <2>6 DEF VideoInv
<1>3. CASE Video!Join
  <2>1. /\ subscriber' = [subscriber EXCEPT !.joined = TRUE] /\ ~subscriber.joined
        /\ UNCHANGED <<kind, videoRadar, publisher, topics, radarVideo, waited>>
    BY <1>3 DEF Video!Join
  <2>2. /\ DOMAIN subscriber' = SubscriberFields /\ subscriber'.joined
        /\ subscriber'.config = subscriber.config /\ subscriber'.last = subscriber.last
    BY <1>0, <2>1 DEF VideoType, SubscriberFields
  <2>3. VideoType' BY <1>0, <2>1, <2>2 DEF VideoType, Video!Rows
  <2>4. WaitInv'
    <3>1. waited' = 0 /\ waited' <= publisher'.rotations
      BY <1>0, <2>1, CountAssumption DEF WaitInv, VideoType
    <3> QED BY <2>2, <3>1 DEF WaitInv
  <2>5. QueueInv' BY <1>0, <2>1, <2>2, QueueUnaffected
  <2>6. (Video!FrameIsARotation)' BY <1>0, <2>1 DEF Video!FrameIsARotation, Video!Row
  <2> QED BY <2>3, <2>4, <2>5, <2>6 DEF VideoInv
<1>4. CASE UNCHANGED videoVars
  <2>1. UNCHANGED <<kind, videoRadar, publisher, topics, subscriber, radarVideo, waited>>
    BY <1>4 DEF videoVars
  <2>2. VideoType' BY <1>0, <2>1 DEF VideoType, Video!Rows
  <2>3. WaitInv' BY <1>0, <2>1 DEF WaitInv, Video!Topics, Video!None
  <2>4. QueueInv' BY <1>0, <2>1, QueueUnaffected
  <2>5. (Video!FrameIsARotation)' BY <1>0, <2>1 DEF Video!FrameIsARotation, Video!Row
  <2> QED BY <2>2, <2>3, <2>4, <2>5 DEF VideoInv
<1> QED BY <1>1, <1>2, <1>3, <1>4

\* What an azimuth makes of the publisher and its topics
LEMMA FftDataFacts ==
    ASSUME VideoInv, NEW azimuth \in VideoAzimuths, Video!FftData(azimuth)
    PROVE  LET wrapped == azimuth < publisher.last
               turn == videoRadar.turn + IF wrapped THEN 1 ELSE 0
               m == [turn |-> turn, azimuth |-> azimuth,
                     swept |-> IF wrapped THEN publisher.swept ELSE {}]
               count == publisher.rotations + IF wrapped THEN 1 ELSE 0
           IN  /\ azimuth \in Nat /\ turn \in Nat \ {0} /\ m \in FftMessages
               /\ videoRadar.configs > 0 /\ publisher.fps \in Nat \ {0}
               /\ UNCHANGED <<kind, subscriber>>
               /\ DOMAIN videoRadar' = {"configs", "turn"}
               /\ videoRadar'.configs = videoRadar.configs /\ videoRadar'.turn = turn
               /\ DOMAIN publisher' = PublisherFields /\ publisher'.last = azimuth
               /\ publisher'.fps = publisher.fps
               /\ publisher'.rotated_once = (publisher.rotated_once \/ wrapped)
               /\ publisher'.rotations = IF count >= ConfigPublishCount THEN 0 ELSE count
               /\ publisher'.swept = IF wrapped THEN {azimuth} ELSE publisher.swept \cup {azimuth}
               /\ DOMAIN topics' = TopicNames
               /\ topics'.fft = IF subscriber.joined /\ (publisher.rotated_once \/ wrapped)
                                   /\ "fft" \in Video!Topics(kind.subscriber)
                                THEN Video!KeepLast(topics.fft, m, FftDepth) ELSE topics.fft
               /\ topics'.config = IF subscriber.joined /\ wrapped
                                      /\ publisher.rotations + 1 >= ConfigPublishCount
                                      /\ "config" \in Video!Topics(kind.subscriber)
                                   THEN Video!KeepLast(topics.config, publisher.fps,
                                                       Video!Depth("config"))
                                   ELSE topics.config
               /\ DOMAIN radarVideo' = DOMAIN radarVideo
               /\ radarVideo'.rows = radarVideo.rows /\ radarVideo'.frame = radarVideo.frame
               /\ radarVideo'.intact = IF subscriber.joined /\ publisher.rotated_once
                                          /\ Len(topics.fft) = FftDepth
                                       THEN FALSE ELSE radarVideo.intact
               /\ waited' = waited \/ (waited' = waited + 1 /\ subscriber.joined /\ wrapped)
<1> DEFINE wrapped == azimuth < publisher.last
           turn == videoRadar.turn + IF wrapped THEN 1 ELSE 0
           m == [turn |-> turn, azimuth |-> azimuth,
                 swept |-> IF wrapped THEN publisher.swept ELSE {}]
           names == (IF publisher.rotated_once \/ wrapped THEN {"fft"} ELSE {})
                       \cup (IF Video!ConfigDue(azimuth) THEN {"config"} ELSE {})
                       \cup (IF wrapped /\ Video!HasCamera THEN {"image"} ELSE {})
           messages == [t \in names |->
                           CASE t = "fft" -> m
                             [] t = "config" -> publisher.fps
                             [] t = "image" -> camera.message]
           p == Video!Published(messages)
           count == publisher.rotations + IF wrapped THEN 1 ELSE 0
<1>1. VideoType BY DEF VideoInv
<1>2. azimuth \in Nat BY VideoAssumption
<1>3. turn \in Nat \ {0} BY SMTT(90), <1>1 DEF VideoType
<1>4. m \in FftMessages BY <1>1, <1>3 DEF VideoType, FftMessages
<1>5. /\ videoRadar.configs > 0
      /\ videoRadar' = [videoRadar EXCEPT !.turn = turn]
      /\ topics' = Video!FftPublished(azimuth, turn)
      /\ radarVideo' = IF subscriber.joined /\ publisher.rotated_once
                            /\ Len(topics.fft) = FftDepth
                       THEN [radarVideo EXCEPT !.intact = FALSE] ELSE radarVideo
      /\ publisher' = Video!Turned(azimuth)
      /\ waited' = IF subscriber.joined /\ wrapped /\ waited < MaxTurns
                   THEN waited + 1 ELSE waited
      /\ UNCHANGED <<kind, subscriber>>
  BY DEF Video!FftData
<1>6. topics' = p BY <1>5 DEF Video!FftPublished
<1>7. /\ DOMAIN messages = names
      /\ "fft" \in names <=> publisher.rotated_once \/ wrapped
      /\ "fft" \in names => messages["fft"] = m
      /\ "config" \in names <=> Video!ConfigDue(azimuth)
      /\ "config" \in names => messages["config"] = publisher.fps
  <2> HIDE DEF m
  <2> QED OBVIOUS
<1> HIDE DEF messages, names, m
<1>8. /\ DOMAIN p = TopicNames
      /\ p["fft"] = IF subscriber.joined /\ "fft" \in DOMAIN messages
                          /\ "fft" \in Video!Topics(kind.subscriber)
                    THEN Video!KeepLast(topics["fft"], messages["fft"], Video!Depth("fft"))
                    ELSE topics["fft"]
      /\ p["config"] = IF subscriber.joined /\ "config" \in DOMAIN messages
                             /\ "config" \in Video!Topics(kind.subscriber)
                       THEN Video!KeepLast(topics["config"], messages["config"],
                                           Video!Depth("config"))
                       ELSE topics["config"]
  BY <1>1, PublishedFacts DEF TopicNames
<1> HIDE DEF p
<1>9. Video!Depth("fft") = FftDepth BY DEF Video!Depth
<1>10. Video!ConfigDue(azimuth) <=> wrapped /\ publisher.rotations + 1 >= ConfigPublishCount
  BY DEF Video!ConfigDue
<1>11. publisher.fps \in Nat \ {0} BY <1>1, <1>5 DEF VideoType
<1>12. /\ DOMAIN publisher' = PublisherFields /\ publisher'.last = azimuth
       /\ publisher'.fps = publisher.fps
       /\ publisher'.rotated_once = (publisher.rotated_once \/ wrapped)
       /\ publisher'.rotations = IF count >= ConfigPublishCount THEN 0 ELSE count
       /\ publisher'.swept = IF wrapped THEN {azimuth} ELSE publisher.swept \cup {azimuth}
  <2>1. publisher' = [publisher EXCEPT
            !.last = azimuth,
            !.rotated_once = publisher.rotated_once \/ wrapped,
            !.rotations = IF count >= ConfigPublishCount THEN 0 ELSE count,
            !.swept = IF wrapped THEN {azimuth} ELSE publisher.swept \cup {azimuth}]
    BY <1>5 DEF Video!Turned
  <2> HIDE DEF wrapped, count
  <2> QED BY <1>1, <2>1 DEF VideoType, PublisherFields
<1>13. /\ DOMAIN videoRadar' = {"configs", "turn"}
       /\ videoRadar'.configs = videoRadar.configs /\ videoRadar'.turn = turn
  <2> HIDE DEF turn
  <2> QED BY <1>1, <1>5 DEF VideoType
<1>14. /\ DOMAIN radarVideo' = DOMAIN radarVideo
       /\ radarVideo'.rows = radarVideo.rows /\ radarVideo'.frame = radarVideo.frame
       /\ radarVideo'.intact = IF subscriber.joined /\ publisher.rotated_once
                                  /\ Len(topics.fft) = FftDepth
                               THEN FALSE ELSE radarVideo.intact
  BY <1>1, <1>5 DEF VideoType
<1>15. waited' = waited \/ (waited' = waited + 1 /\ subscriber.joined /\ wrapped) BY <1>5
<1>16. /\ DOMAIN topics' = TopicNames
       /\ topics'.fft = IF subscriber.joined /\ (publisher.rotated_once \/ wrapped)
                           /\ "fft" \in Video!Topics(kind.subscriber)
                        THEN Video!KeepLast(topics.fft, m, FftDepth) ELSE topics.fft
       /\ topics'.config = IF subscriber.joined /\ wrapped
                              /\ publisher.rotations + 1 >= ConfigPublishCount
                              /\ "config" \in Video!Topics(kind.subscriber)
                           THEN Video!KeepLast(topics.config, publisher.fps,
                                               Video!Depth("config"))
                           ELSE topics.config
  BY <1>6, <1>7, <1>8, <1>9, <1>10
<1> QED BY <1>2, <1>3, <1>4, <1>5, <1>11, <1>12, <1>13, <1>14, <1>15, <1>16 DEF m

LEMMA FftDataKeeps ==
    ASSUME VideoInv, NEW azimuth \in VideoAzimuths, Video!FftData(azimuth)
    PROVE  VideoInv'
<1> DEFINE wrapped == azimuth < publisher.last
           turn == videoRadar.turn + IF wrapped THEN 1 ELSE 0
           m == [turn |-> turn, azimuth |-> azimuth,
                 swept |-> IF wrapped THEN publisher.swept ELSE {}]
           count == publisher.rotations + IF wrapped THEN 1 ELSE 0
           q == topics.fft
           next == IF wrapped THEN {azimuth} ELSE publisher.swept \cup {azimuth}
           sends == subscriber.joined /\ (publisher.rotated_once \/ wrapped)
                       /\ "fft" \in Video!Topics(kind.subscriber)
<1>0. VideoType /\ WaitInv /\ QueueInv /\ Video!FrameIsARotation BY DEF VideoInv
<1>1. /\ azimuth \in Nat /\ turn \in Nat \ {0} /\ m \in FftMessages
      /\ videoRadar.configs > 0 /\ publisher.fps \in Nat \ {0}
      /\ UNCHANGED <<kind, subscriber>>
      /\ DOMAIN videoRadar' = {"configs", "turn"}
      /\ videoRadar'.configs = videoRadar.configs /\ videoRadar'.turn = turn
      /\ DOMAIN publisher' = PublisherFields /\ publisher'.last = azimuth
      /\ publisher'.fps = publisher.fps
      /\ publisher'.rotated_once = (publisher.rotated_once \/ wrapped)
      /\ publisher'.rotations = IF count >= ConfigPublishCount THEN 0 ELSE count
      /\ publisher'.swept = next
      /\ DOMAIN topics' = TopicNames
      /\ topics'.fft = IF sends THEN Video!KeepLast(q, m, FftDepth) ELSE q
      /\ topics'.config = IF subscriber.joined /\ wrapped
                             /\ publisher.rotations + 1 >= ConfigPublishCount
                             /\ "config" \in Video!Topics(kind.subscriber)
                          THEN Video!KeepLast(topics.config, publisher.fps,
                                              Video!Depth("config"))
                          ELSE topics.config
      /\ DOMAIN radarVideo' = DOMAIN radarVideo
      /\ radarVideo'.rows = radarVideo.rows /\ radarVideo'.frame = radarVideo.frame
      /\ radarVideo'.intact = IF subscriber.joined /\ publisher.rotated_once
                                 /\ Len(q) = FftDepth
                              THEN FALSE ELSE radarVideo.intact
      /\ waited' = waited \/ (waited' = waited + 1 /\ subscriber.joined /\ wrapped)
  BY FftDataFacts
<1>2. /\ q \in Seq(FftMessages) /\ Len(q) \in Nat /\ Len(q) <= FftDepth /\ FftDepth \in Nat \ {0}
      /\ publisher.last \in Nat /\ publisher.swept \in SUBSET VideoAzimuths
      /\ videoRadar.turn \in Nat /\ wrapped \in BOOLEAN
      /\ wrapped => publisher.swept # {}
      /\ DOMAIN radarVideo.rows = Video!Rows
      /\ \A r \in DOMAIN radarVideo.rows : radarVideo.rows[r] \in Nat
      /\ radarVideo.intact \in BOOLEAN
      /\ publisher.rotated_once \in BOOLEAN /\ subscriber.joined \in BOOLEAN
  <2>1. /\ q \in Seq(FftMessages) /\ Len(q) <= FftDepth
        /\ publisher.last \in Nat /\ publisher.swept \in SUBSET VideoAzimuths
        /\ videoRadar.turn \in Nat
        /\ publisher.last > 0 => publisher.swept # {}
        /\ radarVideo.rows \in [Video!Rows -> Nat] /\ radarVideo.intact \in BOOLEAN
        /\ publisher.rotated_once \in BOOLEAN /\ subscriber.joined \in BOOLEAN
    BY <1>0 DEF VideoType
  <2>2. Len(q) \in Nat /\ FftDepth \in Nat \ {0} BY <2>1, LenProperties, VideoAssumption
  <2>3. wrapped => publisher.last > 0 BY <1>1, <2>1
  <2> QED BY <2>1, <2>2, <2>3
<1>3. /\ Stream(q) /\ Ahead(q, publisher.last, publisher.swept, videoRadar.turn)
      /\ NotAhead(radarVideo.rows, q, videoRadar.turn)
      /\ radarVideo.intact => Behind(q, radarVideo.rows, subscriber.last,
                                     publisher.last, publisher.swept, videoRadar.turn)
      /\ q # <<>> \/ radarVideo.intact =>
            subscriber.joined /\ publisher.rotated_once /\ "fft" \in Video!Topics(kind.subscriber)
  BY <1>0 DEF QueueInv
<1>4. /\ m.azimuth = azimuth
      /\ m.turn = IF wrapped THEN videoRadar.turn + 1 ELSE videoRadar.turn
      /\ m.swept = IF wrapped THEN publisher.swept ELSE {}
      /\ turn = m.turn
  <2>1. m.azimuth = azimuth /\ m.turn = turn OBVIOUS
  <2>2. m.swept = IF wrapped THEN publisher.swept ELSE {} OBVIOUS
  <2>3. turn = IF wrapped THEN videoRadar.turn + 1 ELSE videoRadar.turn BY <1>2
  <2> QED BY <2>1, <2>2, <2>3
<1> HIDE DEF m
<1>5. ASSUME NEW s \in Seq(FftMessages), Stream(s),
             Ahead(s, publisher.last, publisher.swept, videoRadar.turn),
             NotAhead(radarVideo.rows, s, videoRadar.turn)
      PROVE  /\ Append(s, m) \in Seq(FftMessages) /\ Len(Append(s, m)) = Len(s) + 1
             /\ Stream(Append(s, m)) /\ Ahead(Append(s, m), azimuth, next, turn)
             /\ NotAhead(radarVideo.rows, Append(s, m), turn)
             /\ Behind(s, radarVideo.rows, subscriber.last, publisher.last, publisher.swept,
                       videoRadar.turn) =>
                Behind(Append(s, m), radarVideo.rows, subscriber.last, azimuth, next, turn)
  <2> DEFINE rows == radarVideo.rows
             last == publisher.last
             S == publisher.swept
             t == videoRadar.turn
  <2>1. /\ last \in Nat /\ S \in SUBSET VideoAzimuths /\ t \in Nat
        /\ Ahead(s, last, S, t) /\ NotAhead(rows, s, t)
        /\ DOMAIN rows = Video!Rows /\ \A r \in DOMAIN rows : rows[r] \in Nat
        /\ m \in FftMessages
        /\ m.azimuth < last => S # {}
        /\ m.turn = IF m.azimuth < last THEN t + 1 ELSE t
        /\ m.swept = IF m.azimuth < last THEN S ELSE {}
        /\ next = IF m.azimuth < last THEN {m.azimuth} ELSE S \cup {m.azimuth}
    <3>1. /\ last \in Nat /\ S \in SUBSET VideoAzimuths /\ t \in Nat
          /\ DOMAIN rows = Video!Rows /\ \A r \in DOMAIN rows : rows[r] \in Nat
          /\ m \in FftMessages
          /\ m.azimuth < last => S # {}
      BY <1>1, <1>2, <1>4
    <3>2. Ahead(s, last, S, t) /\ NotAhead(rows, s, t) BY <1>5
    <3>3. /\ m.turn = IF m.azimuth < last THEN t + 1 ELSE t
          /\ m.swept = IF m.azimuth < last THEN S ELSE {}
      BY <1>4
    <3>4. next = IF m.azimuth < last THEN {m.azimuth} ELSE S \cup {m.azimuth} BY <1>4
    <3> HIDE DEF rows, last, S, t, next
    <3> QED BY <3>1, <3>2, <3>3, <3>4
  <2> HIDE DEF rows, last, S, t, next
  <2>2. /\ Stream(Append(s, m))
        /\ Ahead(Append(s, m), m.azimuth, next, m.turn)
        /\ NotAhead(rows, Append(s, m), m.turn)
        /\ \A seen : Behind(s, rows, seen, last, S, t) =>
                        Behind(Append(s, m), rows, seen, m.azimuth, next, m.turn)
    BY ZenonT(90), <1>5, <2>1, AppendKeeps
  <2>3. Append(s, m) \in Seq(FftMessages) /\ Len(Append(s, m)) = Len(s) + 1
    BY <2>1, AppendFacts
  <2> QED BY <1>4, <2>2, <2>3 DEF rows, last, S, t
<1> HIDE DEF next
<1>6. /\ topics'.fft \in Seq(FftMessages) /\ Len(topics'.fft) <= FftDepth
      /\ QueueInv'
  <2>1. CASE sends /\ Len(q) < FftDepth
    <3>1. topics'.fft = Append(q, m) BY <1>1, <2>1 DEF Video!KeepLast
    <3>2. /\ Append(q, m) \in Seq(FftMessages) /\ Len(Append(q, m)) = Len(q) + 1
          /\ Stream(Append(q, m)) /\ Ahead(Append(q, m), azimuth, next, turn)
          /\ NotAhead(radarVideo.rows, Append(q, m), turn)
          /\ Behind(q, radarVideo.rows, subscriber.last, publisher.last, publisher.swept,
                    videoRadar.turn) =>
             Behind(Append(q, m), radarVideo.rows, subscriber.last, azimuth, next, turn)
      BY <1>2, <1>3, <1>5
    <3>3. radarVideo'.intact = radarVideo.intact
      <4>1. ~(Len(q) = FftDepth) BY <1>2, <2>1
      <4> QED BY <1>1, <4>1
    <3>4. /\ subscriber'.joined /\ publisher'.rotated_once
          /\ "fft" \in Video!Topics(kind'.subscriber)
      BY <1>1, <2>1
    <3>5. QueueInv'
      <4> HIDE DEF wrapped, turn, count, sends
      <4> QED BY <1>1, <1>3, <3>1, <3>2, <3>3, <3>4 DEF QueueInv, Video!Topics
    <3> QED BY <1>2, <2>1, <3>1, <3>2, <3>5
  <2>2. CASE sends /\ ~(Len(q) < FftDepth)
    <3>1. topics'.fft = Append(Tail(q), m) BY <1>1, <2>2 DEF Video!KeepLast
    <3>2. Len(q) = FftDepth /\ q # <<>> BY <1>2, <2>2, EmptySeq
    <3>3. /\ Tail(q) \in Seq(FftMessages) /\ Len(Tail(q)) = Len(q) - 1
      BY <1>2, <3>2, TailFacts
    <3>4. /\ Stream(Tail(q))
          /\ Ahead(Tail(q), publisher.last, publisher.swept, videoRadar.turn)
          /\ NotAhead(radarVideo.rows, Tail(q), videoRadar.turn)
      BY <1>2, <1>3, <3>2, TailKeeps
    <3>5. /\ Append(Tail(q), m) \in Seq(FftMessages) /\ Len(Append(Tail(q), m)) = Len(Tail(q)) + 1
          /\ Stream(Append(Tail(q), m)) /\ Ahead(Append(Tail(q), m), azimuth, next, turn)
          /\ NotAhead(radarVideo.rows, Append(Tail(q), m), turn)
      BY <1>5, <3>3, <3>4
    <3>6. ~radarVideo'.intact BY <1>1, <1>3, <3>2
    <3>7. /\ subscriber'.joined /\ publisher'.rotated_once
          /\ "fft" \in Video!Topics(kind'.subscriber)
      BY <1>1, <2>2
    <3>8. QueueInv'
      <4> HIDE DEF wrapped, turn, count, sends
      <4> QED BY <1>1, <3>1, <3>5, <3>6, <3>7 DEF QueueInv, Video!Topics
    <3> QED BY <1>2, <3>1, <3>2, <3>3, <3>5, <3>8
  <2>3. CASE ~sends
    <3>1. topics'.fft = q BY <1>1, <2>3
    <3>2. q = <<>> /\ ~radarVideo.intact BY <1>2, <1>3, <2>3
    <3>3. ~radarVideo'.intact BY <1>1, <3>2
    <3>4. Stream(q) /\ Ahead(q, azimuth, next, turn) BY <3>2, EmptyQueue
    <3>5. NotAhead(radarVideo.rows, q, turn)
      <4>1. \A i \in 1..Len(q) : FALSE BY <3>2
      <4>2. videoRadar.turn <= turn BY <1>2
      <4>3. \A r \in DOMAIN radarVideo.rows : radarVideo.rows[r] <= turn
        BY <1>1, <1>2, <1>3, <4>2 DEF NotAhead
      <4> QED BY <4>1, <4>3 DEF NotAhead
    <3>6. QueueInv'
      <4> HIDE DEF wrapped, turn, count, sends
      <4> QED BY <1>1, <3>1, <3>2, <3>3, <3>4, <3>5 DEF QueueInv
    <3> QED BY <1>2, <3>1, <3>6
  <2> QED BY <2>1, <2>2, <2>3
<1>7. /\ topics'.config \in Seq(Nat \ {0})
      /\ topics.config # <<>> => topics'.config # <<>>
      /\ subscriber.joined /\ wrapped /\ publisher.rotations + 1 >= ConfigPublishCount
            /\ "config" \in Video!Topics(kind.subscriber) => topics'.config # <<>>
  <2>1. topics.config \in Seq(Nat \ {0}) BY <1>0 DEF VideoType
  <2>2. LET k == Video!KeepLast(topics.config, publisher.fps, Video!Depth("config"))
        IN  k \in Seq(Nat \ {0}) /\ k # <<>>
    BY <1>1, <2>1, KeepConfiguration
  <2> QED BY <1>1, <2>1, <2>2
<1>8. VideoType'
  <2>1. publisher'.rotations \in 0..(ConfigPublishCount - 1)
    <3>1. publisher.rotations \in 0..(ConfigPublishCount - 1) /\ ConfigPublishCount \in Nat
          /\ ConfigPublishCount >= 1
      BY <1>0, CountAssumption DEF VideoType
    <3>2. count \in Nat BY <3>1
    <3>3. publisher'.rotations = IF count >= ConfigPublishCount THEN 0 ELSE count BY <1>1
    <3> HIDE DEF count
    <3> QED BY <3>1, <3>2, <3>3
  <2>2. publisher'.swept \subseteq VideoAzimuths /\ publisher'.swept # {}
    BY ZenonT(90), <1>1, <1>2 DEF next
  <2>3. waited' \in Nat BY SMTT(90), <1>0, <1>1 DEF VideoType
  <2>4. publisher'.rotated_once \in BOOLEAN /\ radarVideo'.intact \in BOOLEAN BY <1>1, <1>2
  <2> HIDE DEF wrapped, turn, count, sends
  <2> QED BY <1>0, <1>1, <1>6, <1>7, <2>1, <2>2, <2>3, <2>4 DEF VideoType, Video!Rows
<1>9. WaitInv'
  <2>1. ~subscriber'.joined => waited' = 0 BY <1>0, <1>1 DEF WaitInv
  <2>2. ASSUME "config" \in Video!Topics(kind.subscriber), subscriber.config = Video!None,
               topics'.config = <<>>
        PROVE  waited' <= publisher'.rotations
    <3>1. waited <= publisher.rotations BY <1>0, <1>7, <2>2 DEF WaitInv
    <3>2. waited \in Nat /\ publisher.rotations \in 0..(ConfigPublishCount - 1)
          /\ ConfigPublishCount \in Nat
      BY <1>0, CountAssumption DEF VideoType
    <3>3. CASE count >= ConfigPublishCount
      <4>1. wrapped /\ publisher.rotations + 1 >= ConfigPublishCount BY <3>2, <3>3
      <4>2. ~subscriber.joined BY <1>7, <2>2, <4>1
      <4>3. waited' = 0 /\ publisher'.rotations = 0 BY <1>0, <1>1, <3>3, <4>2 DEF WaitInv
      <4> QED BY <4>3
    <3>4. CASE ~(count >= ConfigPublishCount)
      <4>1. publisher'.rotations = count BY <1>1, <3>4
      <4>2. waited' <= waited + IF wrapped THEN 1 ELSE 0 BY <1>1, <3>2
      <4> QED BY <1>1, <3>1, <3>2, <4>1, <4>2
    <3> QED BY <3>3, <3>4
  <2>3. subscriber'.config = subscriber.config /\ kind' = kind BY <1>1
  <2> HIDE DEF wrapped, turn, count, sends
  <2> QED BY <2>1, <2>2, <2>3 DEF WaitInv, Video!Topics, Video!None
<1>10. (Video!FrameIsARotation)'
  <2>1. radarVideo'.frame = radarVideo.frame BY <1>1
  <2> QED BY <1>0, <2>1 DEF Video!FrameIsARotation, Video!Row
<1> QED BY <1>6, <1>8, <1>9, <1>10 DEF VideoInv

\* The row drawn is of no later turn than what follows it.
LEMMA DrawNotAhead ==
    ASSUME NEW q \in Seq(FftMessages), q # <<>>, Stream(q),
           NEW last, NEW S, NEW t \in Nat, Ahead(q, last, S, t),
           NEW rows, NotAhead(rows, q, t), DOMAIN rows = Video!Rows,
           NEW drawn, drawn = [rows EXCEPT ![Row(Head(q).azimuth)] = Head(q).turn]
    PROVE  NotAhead(drawn, Tail(q), t)
<1> DEFINE s == Tail(q)
           m == Head(q)
<1>1. /\ Len(s) = Len(q) - 1 /\ Len(q) \in Nat /\ Len(q) >= 1
      /\ \A i \in 1..(Len(q) - 1) : s[i] = q[i + 1]
      /\ m = q[1]
  BY TailFacts
<1>2. NotAhead(rows, s, t) BY TailKeeps
<1> HIDE DEF s, m
<1>3. m.turn <= t BY <1>1 DEF Ahead
<1>4. \A i \in 1..Len(s) : m.turn <= s[i].turn
  <2> SUFFICES ASSUME NEW i \in 1..Len(s) PROVE m.turn <= s[i].turn OBVIOUS
  <2>1. 1 \in 1..Len(q) /\ i + 1 \in 1..Len(q) /\ 1 < i + 1 /\ s[i] = q[i + 1] BY <1>1
  <2>2. q[1].turn <= q[i + 1].turn BY <2>1 DEF Stream
  <2> QED BY <1>1, <2>1, <2>2
<1>5. ASSUME NEW r \in DOMAIN drawn
      PROVE  drawn[r] <= t /\ \A i \in 1..Len(s) : drawn[r] <= s[i].turn
  <2>1. r \in DOMAIN rows BY <1>5
  <2>2. drawn[r] = rows[r] \/ drawn[r] = m.turn BY <2>1 DEF m
  <2> QED BY <1>2, <1>3, <1>4, <2>1, <2>2 DEF NotAhead
<1> QED BY <1>5 DEF NotAhead, s

\* Whoever is behind a message that ends a rotation has drawn the rotation.
LEMMA RotationDrawn ==
    ASSUME NEW q \in Seq(FftMessages), q # <<>>,
           NEW rows, DOMAIN rows = Video!Rows, NEW seen, NEW last, NEW S, NEW t,
           Behind(q, rows, seen, last, S, t), Head(q).azimuth < seen,
           NEW drawn, drawn = [rows EXCEPT ![Row(Head(q).azimuth)] = Head(q).turn]
    PROVE  /\ Head(q).swept # {}
           /\ \A a \in Head(q).swept :
                 drawn[Row(a)] = IF Row(a) = Row(Head(q).azimuth) THEN Head(q).turn
                                                                  ELSE Head(q).turn - 1
<1> DEFINE m == Head(q)
<1>1. m = q[1] /\ m \in FftMessages /\ Len(q) \in Nat /\ Len(q) >= 1 BY TailFacts
<1> HIDE DEF m
<1>2. m.swept # {} BY <1>1 DEF Behind, m
<1>3. \A a \in m.swept : rows[Row(a)] = m.turn - 1
  <2>1. 1 \in 1..Len(q) /\ ~\E i \in 1..(1 - 1) : TRUE BY <1>1
  <2> QED BY <1>1, <2>1 DEF Behind
<1>4. \A a \in m.swept : Row(a) \in DOMAIN rows
  BY <1>1 DEF FftMessages, Row, Video!Row, Video!Rows
<1> QED BY <1>2, <1>3, <1>4 DEF m

LEMMA ReceiveFftDataKeeps ==
    ASSUME VideoInv, Video!ReceiveFftData
    PROVE  VideoInv'
<1> DEFINE q == topics.fft
           m == Head(q)
           rows == radarVideo.rows
           drawn == [rows EXCEPT ![Row(m.azimuth)] = m.turn]
           seen == subscriber.last
<1>0. VideoType /\ WaitInv /\ QueueInv /\ Video!FrameIsARotation BY DEF VideoInv
<1>1. /\ q # <<>>
      /\ topics' = [topics EXCEPT !["fft"] = Tail(@)]
      /\ UNCHANGED <<kind, videoRadar, publisher, waited>>
  BY DEF Video!ReceiveFftData, Video!Take
<1>2. /\ DOMAIN topics' = TopicNames /\ topics'.fft = Tail(q)
      /\ topics'.config = topics.config
  BY <1>0, <1>1 DEF VideoType, TopicNames
<1>3. /\ q \in Seq(FftMessages) /\ Len(q) <= FftDepth /\ FftDepth \in Nat
      /\ publisher.swept \in SUBSET VideoAzimuths /\ videoRadar.turn \in Nat
      /\ DOMAIN rows = Video!Rows /\ \A r \in DOMAIN rows : rows[r] \in Nat
      /\ radarVideo.intact \in BOOLEAN
  BY <1>0, VideoAssumption DEF VideoType
<1>4. /\ Tail(q) \in Seq(FftMessages) /\ Len(Tail(q)) = Len(q) - 1 /\ Len(q) \in Nat
      /\ m = q[1] /\ m \in FftMessages
  BY <1>1, <1>3, TailFacts
<1>5. m.turn \in Nat /\ m.azimuth \in Nat /\ m.azimuth \in VideoAzimuths
  BY <1>4, VideoAssumption DEF FftMessages
<1>6. /\ Stream(q) /\ Ahead(q, publisher.last, publisher.swept, videoRadar.turn)
      /\ NotAhead(rows, q, videoRadar.turn)
      /\ subscriber.joined /\ publisher.rotated_once
      /\ "fft" \in Video!Topics(kind.subscriber)
      /\ radarVideo.intact => Behind(q, rows, seen, publisher.last, publisher.swept,
                                     videoRadar.turn)
  BY <1>0, <1>1 DEF QueueInv
<1>7. /\ Stream(Tail(q))
      /\ Ahead(Tail(q), publisher.last, publisher.swept, videoRadar.turn)
      /\ NotAhead(rows, Tail(q), videoRadar.turn)
  <2> HIDE DEF q, rows
  <2> QED BY <1>1, <1>3, <1>6, TailKeeps
<1>8. Len(topics'.fft) <= FftDepth BY <1>2, <1>3, <1>4
<1>9. CASE subscriber.config = Video!None
  <2>1. radarVideo' = [radarVideo EXCEPT !.intact = FALSE] /\ subscriber' = subscriber
    BY <1>9 DEF Video!ReceiveFftData
  <2>2. /\ DOMAIN radarVideo' = {"rows", "frame", "intact"} /\ radarVideo'.rows = rows
        /\ ~radarVideo'.intact /\ radarVideo'.frame = radarVideo.frame
        /\ radarVideo'.intact \in BOOLEAN
    BY <1>0, <2>1 DEF VideoType
  <2>3. VideoType'
    BY <1>0, <1>1, <1>2, <1>4, <1>8, <2>1, <2>2 DEF VideoType, Video!Rows
  <2>4. WaitInv' BY <1>0, <1>1, <1>2, <2>1 DEF WaitInv, Video!Topics, Video!None
  <2>5. QueueInv' BY <1>1, <1>2, <1>6, <1>7, <2>1, <2>2 DEF QueueInv, Video!Topics
  <2>6. (Video!FrameIsARotation)' BY <1>0, <2>2 DEF Video!FrameIsARotation, Video!Row
  <2> QED BY <2>3, <2>4, <2>5, <2>6 DEF VideoInv
<1>10. CASE subscriber.config # Video!None
  <2>1. /\ subscriber' = [subscriber EXCEPT !.last = m.azimuth]
        /\ radarVideo' = [rows |-> drawn,
                          frame |-> IF m.azimuth < seen
                                    THEN <<[rows |-> drawn, last |-> m,
                                            intact |-> radarVideo.intact]>>
                                    ELSE <<>>,
                          intact |-> radarVideo.intact \/ m.swept # {}]
    BY <1>10 DEF Video!ReceiveFftData, Video!Written, Row
  <2>2. /\ drawn \in [Video!Rows -> Nat]
        /\ NotAhead(drawn, Tail(q), videoRadar.turn)
    <3>1. NotAhead(drawn, Tail(q), videoRadar.turn)
      <4> HIDE DEF q, rows
      <4> QED BY <1>1, <1>3, <1>6, DrawNotAhead
    <3>2. drawn \in [Video!Rows -> Nat] BY <1>0, <1>5 DEF VideoType
    <3> QED BY <3>1, <3>2
  <2>3. ASSUME radarVideo.intact \/ m.swept # {}
        PROVE  Behind(Tail(q), drawn, m.azimuth, publisher.last, publisher.swept,
                      videoRadar.turn)
    <3>1. Behind(q, rows, seen, publisher.last, publisher.swept, videoRadar.turn)
             \/ Head(q).swept # {}
      BY <1>6, <2>3
    <3> HIDE DEF q, rows, seen
    <3> QED BY <1>1, <1>3, <1>6, <3>1, DrawKeeps
  <2>4. ASSUME m.azimuth < seen, radarVideo.intact
        PROVE  /\ m.swept # {}
               /\ \A a \in m.swept : drawn[Row(a)] = IF Row(a) = Row(m.azimuth) THEN m.turn
                                                                               ELSE m.turn - 1
    <3>1. Behind(q, rows, seen, publisher.last, publisher.swept, videoRadar.turn)
      BY <1>6, <2>4
    <3>2. q \in Seq(FftMessages) /\ q # <<>> /\ DOMAIN rows = Video!Rows /\ Head(q).azimuth < seen
      BY <1>1, <1>3, <2>4
    <3>3. /\ Head(q).swept # {}
          /\ \A a \in Head(q).swept :
                drawn[Row(a)] = IF Row(a) = Row(Head(q).azimuth) THEN Head(q).turn
                                                                 ELSE Head(q).turn - 1
      <4>1. drawn = [rows EXCEPT ![Row(Head(q).azimuth)] = Head(q).turn] OBVIOUS
      <4> HIDE DEF q, rows, seen, drawn
      <4> QED BY ZenonT(90), <3>1, <3>2, <4>1, RotationDrawn
    <3> QED BY <3>3
  <2> HIDE DEF drawn
  <2>5. /\ DOMAIN subscriber' = SubscriberFields /\ subscriber'.last = m.azimuth
        /\ subscriber'.config = subscriber.config /\ subscriber'.joined = subscriber.joined
    BY <1>0, <2>1 DEF VideoType, SubscriberFields
  <2>6. /\ DOMAIN radarVideo' = {"rows", "frame", "intact"} /\ radarVideo'.rows = drawn
        /\ radarVideo'.intact = (radarVideo.intact \/ m.swept # {})
        /\ radarVideo'.frame = IF m.azimuth < seen
                               THEN <<[rows |-> drawn, last |-> m,
                                       intact |-> radarVideo.intact]>>
                               ELSE <<>>
    BY <2>1
  <2>7. radarVideo'.intact \in BOOLEAN BY <1>3, <2>6
  <2>8. VideoType'
    BY <1>0, <1>1, <1>2, <1>4, <1>5, <1>8, <2>2, <2>5, <2>6, <2>7 DEF VideoType, Video!Rows
  <2>9. WaitInv' BY <1>0, <1>1, <1>2, <2>5 DEF WaitInv, Video!Topics, Video!None
  <2>10. QueueInv'
    BY <1>1, <1>2, <1>6, <1>7, <2>2, <2>3, <2>5, <2>6 DEF QueueInv, Video!Topics
  <2>11. (Video!FrameIsARotation)'
    <3>1. CASE m.azimuth < seen /\ radarVideo.intact
      <4>1. /\ radarVideo'.frame = <<[rows |-> drawn, last |-> m, intact |-> radarVideo.intact]>>
        BY <2>6, <3>1
      <4>2. /\ DOMAIN radarVideo'.frame = {1} /\ radarVideo'.frame[1].rows = drawn
            /\ radarVideo'.frame[1].last = m
        <5> HIDE DEF m
        <5> QED BY <4>1
      <4> HIDE DEF m
      <4>3. /\ m.swept # {}
            /\ \A a \in m.swept : drawn[Row(a)] = IF Row(a) = Row(m.azimuth) THEN m.turn
                                                                            ELSE m.turn - 1
        BY <2>4, <3>1
      <4> QED BY <4>2, <4>3 DEF Video!FrameIsARotation, Row, Video!Row
    <3>2. CASE m.azimuth < seen /\ ~radarVideo.intact
      <4>1. radarVideo'.frame = <<[rows |-> drawn, last |-> m, intact |-> radarVideo.intact]>>
        BY <2>6, <3>2
      <4>2. DOMAIN radarVideo'.frame = {1} /\ ~radarVideo'.frame[1].intact
        <5> HIDE DEF m
        <5> QED BY <3>2, <4>1
      <4> QED BY <4>2 DEF Video!FrameIsARotation
    <3>3. CASE ~(m.azimuth < seen)
      <4>1. radarVideo'.frame = <<>> BY <2>6, <3>3
      <4> QED BY <4>1 DEF Video!FrameIsARotation
    <3> QED BY <3>1, <3>2, <3>3
  <2> QED BY <2>8, <2>9, <2>10, <2>11 DEF VideoInv
<1> QED BY <1>9, <1>10

\* The other topics
LEMMA ReceivesKeep ==
    ASSUME VideoInv,
           \/ Video!ReceiveConfiguration
           \/ Video!ReceiveCameraConfiguration
           \/ Video!ReceiveCameraImage
    PROVE  VideoInv'
<1>0. VideoType /\ WaitInv /\ QueueInv /\ Video!FrameIsARotation BY DEF VideoInv
<1>1. CASE Video!ReceiveConfiguration
  <2>1. /\ topics.config # <<>> /\ topics' = [topics EXCEPT !["config"] = Tail(@)]
        /\ subscriber' = [subscriber EXCEPT
                             !.config = IF subscriber.config = Video!None
                                        THEN Head(topics.config) ELSE subscriber.config]
        /\ UNCHANGED <<kind, videoRadar, publisher, radarVideo, waited>>
    BY <1>1 DEF Video!ReceiveConfiguration, Video!Take
  <2>2. topics.config \in Seq(Nat \ {0}) BY <1>0 DEF VideoType
  <2>3. Head(topics.config) \in Nat \ {0} /\ Tail(topics.config) \in Seq(Nat \ {0})
    BY <2>1, <2>2, HeadTailProperties
  <2>4. /\ DOMAIN topics' = TopicNames /\ topics'.fft = topics.fft
        /\ topics'.config \in Seq(Nat \ {0})
    BY <1>0, <2>1, <2>3 DEF VideoType, TopicNames
  <2>5. /\ DOMAIN subscriber' = SubscriberFields /\ subscriber'.last = subscriber.last
        /\ subscriber'.joined = subscriber.joined
        /\ subscriber'.config \in Nat /\ subscriber'.config # Video!None
    BY <1>0, <2>1, <2>3 DEF VideoType, SubscriberFields, Video!None
  <2>6. VideoType' BY <1>0, <2>1, <2>4, <2>5 DEF VideoType, Video!Rows
  <2>7. WaitInv' BY <1>0, <2>1, <2>5 DEF WaitInv, Video!None
  <2>8. QueueInv' BY <1>0, <2>1, <2>4, <2>5, QueueUnaffected
  <2>9. (Video!FrameIsARotation)' BY <1>0, <2>1 DEF Video!FrameIsARotation, Video!Row
  <2> QED BY <2>6, <2>7, <2>8, <2>9 DEF VideoInv
<1>2. CASE Video!ReceiveCameraConfiguration \/ Video!ReceiveCameraImage
  <2>1. /\ \E t \in {"cameraConfig", "image"} : topics' = [topics EXCEPT ![t] = Tail(@)]
        /\ subscriber' = subscriber
              \/ subscriber' = [subscriber EXCEPT !.cameraConfig = TRUE]
        /\ UNCHANGED <<kind, videoRadar, publisher, radarVideo, waited>>
    BY <1>2 DEF Video!ReceiveCameraConfiguration, Video!ReceiveCameraImage, Video!Take
  <2>2. /\ DOMAIN topics' = TopicNames /\ topics'.fft = topics.fft
        /\ topics'.config = topics.config
    BY <1>0, <2>1 DEF VideoType, TopicNames
  <2>3. /\ DOMAIN subscriber' = SubscriberFields /\ subscriber'.last = subscriber.last
        /\ subscriber'.joined = subscriber.joined /\ subscriber'.config = subscriber.config
    BY <1>0, <2>1 DEF VideoType, SubscriberFields
  <2>4. VideoType' BY <1>0, <2>1, <2>2, <2>3 DEF VideoType, Video!Rows
  <2>5. WaitInv' BY <1>0, <2>1, <2>2, <2>3 DEF WaitInv, Video!Topics, Video!None
  <2>6. QueueInv' BY <1>0, <2>1, <2>2, <2>3, QueueUnaffected
  <2>7. (Video!FrameIsARotation)' BY <1>0, <2>1 DEF Video!FrameIsARotation, Video!Row
  <2> QED BY <2>4, <2>5, <2>6, <2>7 DEF VideoInv
<1> QED BY <1>1, <1>2

LEMMA VideoKeeps == VideoInv /\ (Video!VideoNext \/ UNCHANGED videoVars) => VideoInv'
<1> SUFFICES ASSUME VideoInv, Video!VideoNext \/ UNCHANGED videoVars PROVE VideoInv' OBVIOUS
<1>1. \/ \/ Video!ConfigurationData \/ Video!CameraImageBegins \/ Video!CameraImageEnds
         \/ Video!Join \/ UNCHANGED videoVars
      \/ \E a \in VideoAzimuths : Video!FftData(a)
      \/ Video!ReceiveFftData
      \/ \/ Video!ReceiveConfiguration \/ Video!ReceiveCameraConfiguration
         \/ Video!ReceiveCameraImage
  BY DEF Video!VideoNext
<1> QED BY <1>1, OthersKeep, FftDataKeeps, ReceiveFftDataKeeps, ReceivesKeep

LEMMA VideoShows == VideoInv => VideoOfRotations
<1> SUFFICES ASSUME VideoInv PROVE VideoOfRotations OBVIOUS
<1>1. VideoType /\ WaitInv /\ Video!FrameIsARotation BY DEF VideoInv
<1>2. Video!LateComerConfigured
  BY <1>1, CountAssumption DEF Video!LateComerConfigured, WaitInv, VideoType
<1> QED BY <1>1, <1>2 DEF VideoOfRotations

----------------------------------------------------------------------------
(* The workspaces: each part takes its own steps only. *)

LEMMA PartsStep ==
    ASSUME [WorkspaceNext]_workspaceVars
    PROVE  /\ Next \/ UNCHANGED publisherVars
           /\ NavNext \/ UNCHANGED navigationVars
           /\ Video!VideoNext \/ UNCHANGED videoVars
           /\ Ros1!Next \/ UNCHANGED ros1Vars
BY DEF WorkspaceNext, workspaceVars

\* RowsInside and RotationPublished hold because the node has the sizes of its last
\* configuration (StepInv) and what it holds of the rotation that is being written is of that
\* rotation only (RotationInv), RowsAsReceived because a row of that shows the azimuths that
\* came for it (ShowsInv), and what it read of its parameters settles (SettleInv).
ViewsInv == ViewInv /\ RowsInside /\ RotationPublished /\ RowsAsReceived

LEMMA ViewsInvariant == WorkspaceSpec => []ViewsInv
<1>1. WorkspaceInit => ViewsInv BY ViewInit DEF WorkspaceInit, ViewsInv
<1>2. ViewsInv /\ [WorkspaceNext]_workspaceVars => ViewsInv'
  <2> SUFFICES ASSUME ViewsInv, [WorkspaceNext]_workspaceVars PROVE ViewsInv' OBVIOUS
  <2>1. Next \/ UNCHANGED publisherVars BY PartsStep
  <2>2. ViewInv /\ RowsInside /\ RotationPublished /\ RowsAsReceived BY DEF ViewsInv
  <2>3. (ViewInv /\ RowsInside /\ RotationPublished /\ RowsAsReceived)' BY <2>1, <2>2, ViewStep
  <2> QED BY <2>3 DEF ViewsInv
<1> QED BY <1>1, <1>2, PTL DEF WorkspaceSpec

LEMMA NavInvariant == WorkspaceSpec => []NavInv
<1>1. WorkspaceInit => NavInv BY NavBegins DEF WorkspaceInit
<1>2. NavInv /\ [WorkspaceNext]_workspaceVars => NavInv'
  <2> SUFFICES ASSUME NavInv, [WorkspaceNext]_workspaceVars PROVE NavInv' OBVIOUS
  <2>1. NavNext \/ UNCHANGED navigationVars BY PartsStep
  <2> QED BY <2>1, NavKeeps
<1> QED BY <1>1, <1>2, PTL DEF WorkspaceSpec

\* What b_scan_publisher, laser_scan_publisher and point_cloud_publisher each publish of a
\* rotation shows, in every row an azimuth came for, what the node looked at in it, whichever
\* azimuths got lost and whatever was set meanwhile (b_scan_publisher.cpp,
\* laser_scan_publisher.cpp, point_cloud_publisher.cpp).
THEOREM ViewsShowWhatCame == WorkspaceSpec => []RowsAsReceived
<1>1. ViewsInv => RowsAsReceived BY DEF ViewsInv
<1> QED BY <1>1, ViewsInvariant, PTL

\* No handler writes a row outside its image or scan, for any azimuth that a radar sends and
\* any offset but one of more than a rotation, which no reading of the parameters rejects.
THEOREM RowsStayInside == WorkspaceSpec => []RowsInside
<1>1. ViewsInv => RowsInside BY DEF ViewsInv
<1> QED BY <1>1, ViewsInvariant, PTL

\* Every rotation that ends is published, of a radar that was connected once, and nothing of
\* an earlier one is left in the image or the cloud.
THEOREM RotationIsPublished == WorkspaceSpec => []RotationPublished
<1>1. ViewsInv => RotationPublished BY DEF ViewsInv
<1> QED BY <1>1, ViewsInvariant, PTL

\* What an operator sets is in use in each of the four nodes after two readings of the
\* parameters, or has been replaced by a valid value that is; and the peak finder works with
\* what the navigation node believes, on the radar as long as its link is that of the last
\* configuration (navigation_mode_point_cloud_publisher.cpp).
THEOREM SettingsAreUsed == WorkspaceSpec => []WhatIsSetTakesEffect
<1>1. ViewsInv /\ NavInv => WhatIsSetTakesEffect
  <2> SUFFICES ASSUME ViewsInv, NavInv PROVE WhatIsSetTakesEffect OBVIOUS
  <2>1. SettleInv BY DEF ViewsInv, ViewInv
  <2>2. SettingsTakeEffect
    BY <2>1 DEF SettleInv, ReadOnce, ReadTwice, SettingsTakeEffect
  <2>3. DOMAIN navigation.param = NavParams BY DEF NavInv, NavNode
  <2>4. NavSettingsTakeEffect
    BY <2>3 DEF NavInv, Configured, NavReadTwice, NavSettingsTakeEffect
  <2> QED BY <2>2, <2>4 DEF WhatIsSetTakesEffect
<1> QED BY <1>1, ViewsInvariant, NavInvariant, PTL

\* OpenCV throws in Mobile_Platform only if images of two sizes came while it averaged, with
\* none between that came while it did not; and the grid's division by 0 takes a step of less
\* than two bins or a node that was started without a configuration (Mobile_Platform.cpp).
THEOREM PlatformEndsOnlySo == WorkspaceSpec => []WhatEndsPlatform
<1>1. WorkspaceInit => PlatformInv BY PlatformBegins DEF WorkspaceInit
<1>2. PlatformInv /\ [WorkspaceNext]_workspaceVars => PlatformInv'
  <2> SUFFICES ASSUME PlatformInv, [WorkspaceNext]_workspaceVars PROVE PlatformInv' OBVIOUS
  <2>1. Ros1!Next \/ UNCHANGED ros1Vars BY PartsStep
  <2> QED BY <2>1, PlatformKeeps
<1>3. PlatformInv => WhatEndsPlatform BY DEF PlatformInv
<1> QED BY <1>1, <1>2, <1>3, PTL DEF WorkspaceSpec

\* In a file of RosToColraw the sweeps tell how many records could not be written between
\* any two that were, and the times run on from each to the next, in whichever file and
\* whenever it could not be opened, but for the one word they have (RosToColraw.cpp).
THEOREM RecordsRunOnInFiles == WorkspaceSpec => []FileRunsOn
<1>1. WorkspaceInit => RecorderInv BY RecorderBegins DEF WorkspaceInit
<1>2. RecorderInv /\ [WorkspaceNext]_workspaceVars => RecorderInv'
  <2> SUFFICES ASSUME RecorderInv, [WorkspaceNext]_workspaceVars PROVE RecorderInv' OBVIOUS
  <2>1. Ros1!Next \/ UNCHANGED ros1Vars BY PartsStep
  <2> QED BY <2>1, RecorderKeeps
<1> QED BY <1>1, <1>2, RecorderRunsOn, PTL DEF WorkspaceSpec

\* An image that talker1 publishes is of one configuration and shows in every column the last
\* pass of the radar that came, whichever azimuths got lost: it is not of one turn if any did,
\* but never older than the last that came for the column (talker1.cpp).
THEOREM PolarImagesAsReceived == WorkspaceSpec => []ImagesAsReceived
<1>1. WorkspaceInit => TalkerInv BY TalkerBegins DEF WorkspaceInit
<1>2. TalkerInv /\ [WorkspaceNext]_workspaceVars => TalkerInv'
  <2> SUFFICES ASSUME TalkerInv, [WorkspaceNext]_workspaceVars PROVE TalkerInv' OBVIOUS
  <2>1. Ros1!Next \/ UNCHANGED ros1Vars BY PartsStep
  <2> QED BY <2>1, TalkerKeeps
<1>3. TalkerInv => ImagesAsReceived BY DEF TalkerInv
<1> QED BY <1>1, <1>2, <1>3, PTL DEF WorkspaceSpec

\* A frame of the radar's video is written when a rotation ended, and shows all that the
\* publisher sent of it and one row of the next, unless a message since the frame before was
\* lost off the queue or came before the configuration; and who joins late has the
\* configuration within the rotations after which the publisher repeats it
\* (colossus_subscriber_to_video.cpp, colossus_publisher.cpp).
THEOREM VideoShowsRotations == WorkspaceSpec => []VideoOfRotations
<1>1. WorkspaceInit => VideoInv BY VideoBegins DEF WorkspaceInit
<1>2. VideoInv /\ [WorkspaceNext]_workspaceVars => VideoInv'
  <2> SUFFICES ASSUME VideoInv, [WorkspaceNext]_workspaceVars PROVE VideoInv' OBVIOUS
  <2>1. Video!VideoNext \/ UNCHANGED videoVars BY PartsStep
  <2> QED BY <2>1, VideoKeeps
<1>3. VideoInv => VideoOfRotations BY VideoShows
<1> QED BY <1>1, <1>2, <1>3, PTL DEF WorkspaceSpec
=============================================================================
