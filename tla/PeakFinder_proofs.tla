------------------------- MODULE PeakFinder_proofs -------------------------
(***************************************************************************)
(* Theorems about PeakFinder, for every size of azimuth, every power and   *)
(* every configuration.                                                    *)
(***************************************************************************)
EXTENDS PeakFinder, TLAPS, SequenceTheorems

USE PeakFinderAssumption
USE DEF BinsOf

Searching == pc \in {"search", "report"}

\* Bins are numbered from 0, those that were found and the one to look at next.
BinsInv ==
    /\ pc \in {"none", "idle"} => found = <<>> /\ awaiting = FALSE
    /\ found # <<>> => data \in [BinsOf(settings.range) -> Nat]
                       /\ settings.bins \in MinBins .. MaxBins
    /\ pc = "search" => bin >= settings.minBin
    /\ \A i \in DOMAIN found : settings.minBin <= found[i] /\ found[i] <= LastBin

\* The search continues behind the bins of every peak.
SpacingInv ==
    /\ \A i \in DOMAIN found : found[i] + settings.bins <= bin
    /\ \A i \in DOMAIN found : i > 1 => found[i - 1] + settings.bins <= found[i]

\* What is known of the bin before the one to look at: if a rise is awaited, it
\* was passed because it falls, or the search has just resumed behind a peak;
\* otherwise it does not fall, or is below the threshold.
RiseInv ==
    pc = "search" /\ bin <= LastBin =>
        /\ awaiting = FALSE /\ bin > settings.minBin =>
               data[bin - 1] <= data[bin] \/ data[bin - 1] <= settings.threshold
        /\ awaiting = TRUE =>
               \/ \E i \in DOMAIN found : bin = found[i] + settings.bins
               \/ bin > settings.minBin /\ data[bin - 1] > data[bin]

Near(b) == \E i \in DOMAIN found : found[i] <= b /\ b <= found[i] + settings.bins

\* NoPeakMissed, of the bins that were looked at so far.
CoverInv ==
    Searching =>
        /\ \A b \in settings.minBin .. LastBin :
               b < bin /\ data[b] > settings.threshold /\ FallsAfter(b) /\ Rises(b) => Near(b)
        /\ pc = "report" => bin > LastBin \/ Len(targets) >= settings.maxPeaks

SearchInv == BinsInv /\ SpacingInv /\ RiseInv /\ CoverInv /\ PeaksAreMaxima

IInv == TypeOK /\ SearchInv
----------------------------------------------------------------------------
(* Facts about settings, bins and sequences *)

SettingsType ==
    [range : Nat, threshold : Nat, bins : Nat, minBin : Nat,
     mode : {"off", "average", "max"}, length : Nat, maxPeaks : Nat]

\* configure() brings `bins` within its limits.
LEMMA ClampFacts ==
    ASSUME NEW n \in Nat
    PROVE  Clamped(n) \in MinBins .. MaxBins
BY DEF Clamped, Least, Greatest

\* One setting replaced by a number leaves the others as they are.
LEMMA SettingFacts ==
    ASSUME NEW s \in SettingsType, NEW n \in Nat
    PROVE  /\ [s EXCEPT !.bins = n] \in SettingsType /\ [s EXCEPT !.bins = n].bins = n
           /\ [s EXCEPT !.threshold = n] \in SettingsType
           /\ [s EXCEPT !.threshold = n].bins = s.bins
           /\ [s EXCEPT !.threshold = n].range = s.range
BY DEF SettingsType

\* Half of a window lies within it.
LEMMA HalfFacts ==
    ASSUME NEW n \in Nat
    PROVE  n \div 2 \in Nat /\ n \div 2 <= n
OBVIOUS

\* Windows of peaks that are a window apart do not overlap.
LEMMA ApartFacts ==
    ASSUME NEW p \in Nat, NEW q \in Nat, NEW width \in Nat, NEW offset \in Nat,
           p + width <= q
    PROVE  p - offset + width - 1 < q - offset
OBVIOUS

\* A found bin is added behind the others.
LEMMA AppendFacts ==
    ASSUME NEW s \in Seq(Nat), NEW e \in Nat
    PROVE  /\ Append(s, e) \in Seq(Nat) /\ Append(s, e) # <<>>
           /\ Len(s) \in Nat /\ DOMAIN s = 1 .. Len(s)
           /\ DOMAIN Append(s, e) = 1 .. Len(s) + 1
           /\ \A i \in 1 .. Len(s) : Append(s, e)[i] = s[i]
           /\ Append(s, e)[Len(s) + 1] = e
OBVIOUS

----------------------------------------------------------------------------
(* Type correctness *)

\* Every bin that is searched holds a power, and the window fits the arrays of
\* peak_resolve(), whatever configure() was called with.
THEOREM TypeCorrect == Spec => []TypeOK
<1>1. Init => TypeOK
  <2> SUFFICES ASSUME Init
               PROVE  TypeOK
    OBVIOUS
  <2>1. settings \in SettingsType /\ pc = "none" /\ bin \in Nat
    BY DEF Init, SettingsType
  <2>2. found \in Seq(Nat) /\ targets \in Seq(Nat)
    BY DEF Init
  <2>3. awaiting \in BOOLEAN
    BY Zenon DEF Init
  <2> QED
    BY <2>1, <2>2, <2>3 DEF TypeOK, SettingsType
<1>2. TypeOK /\ [Next]_vars => TypeOK'
  <2> SUFFICES ASSUME TypeOK, [Next]_vars
               PROVE  TypeOK'
    OBVIOUS
  <2> USE DEF TypeOK
  <2>1. CASE Configure
    <3>1. PICK s \in Settings : settings' = [s EXCEPT !.bins = Clamped(s.bins)]
      BY <2>1 DEF Configure
    <3>2. s \in SettingsType /\ Clamped(s.bins) \in MinBins .. MaxBins
      BY ClampFacts DEF SettingsType
    <3> DEFINE c == Clamped(s.bins)
    <3>4. c \in Nat
      BY SMTT(90), <3>2
    <3>5. settings' = [s EXCEPT !.bins = c] /\ s \in SettingsType /\ c \in MinBins .. MaxBins
      BY <3>1, <3>2
    <3> HIDE DEF c
    <3>3. settings' \in SettingsType /\ settings'.bins \in MinBins .. MaxBins
      BY <3>4, <3>5, SettingFacts
    <3> QED
      BY <2>1, <3>3 DEF Configure, SettingsType
  <2>2. CASE SetThreshold
    <3>1. PICK s \in Settings : settings' = [settings EXCEPT !.threshold = s.threshold]
      BY <2>2 DEF SetThreshold
    <3>2. s.threshold \in Nat /\ settings \in SettingsType
      BY DEF SettingsType
    <3>3. /\ settings' \in SettingsType /\ settings'.bins = settings.bins
          /\ settings'.range = settings.range
      BY <3>1, <3>2, SettingFacts
    <3> QED
      BY <2>2, <3>3 DEF SetThreshold, SettingsType
  <2>3. CASE SearchAzimuth
    <3>1. PICK azimuth \in Azimuths :
              /\ DOMAIN azimuth = BinsOf(settings.range)
              /\ StartSearch([b \in BinsOf(settings.range) |-> 2 * azimuth[b]])
      BY <2>3 DEF SearchAzimuth, Accepts
    <3>2. PICK n \in Sizes : azimuth \in [BinsOf(n) -> Powers]
      BY DEF Azimuths
    <3>4. \A b \in BinsOf(settings.range) : azimuth[b] \in Nat
      BY <3>1, <3>2
    <3>5. data' = [b \in BinsOf(settings.range) |-> 2 * azimuth[b]]
      BY <3>1 DEF StartSearch
    <3>3. data' \in [BinsOf(settings.range) -> Nat]
      BY SMTT(90), <3>4, <3>5
    <3> QED
      BY <2>3, <3>1, <3>3 DEF SearchAzimuth, StartSearch
  <2>4. CASE BufferAzimuth
    BY <2>4 DEF BufferAzimuth
  <2>5. CASE SearchBuffer
    <3>1. PICK levels \in [BinsOf(settings.range) -> Powers] : StartSearch(levels)
      BY <2>5 DEF SearchBuffer
    <3>2. data' \in [BinsOf(settings.range) -> Nat]
      BY <3>1 DEF StartSearch
    <3> QED
      BY <2>5, <3>1, <3>2 DEF SearchBuffer, StartSearch
  <2>6. CASE CrashInBuffer
    BY <2>6 DEF CrashInBuffer
  <2>7. CASE PassFalling
    BY <2>7 DEF PassFalling
  <2>8. CASE PassBin
    <3>1. awaiting' \in BOOLEAN
      BY <2>8, Zenon DEF PassBin, Awaiting
    <3> QED
      BY <2>8, <3>1 DEF PassBin
  <2>9. CASE FindPeak
    <3>1. found' \in Seq(Nat) /\ bin' \in Nat
      BY SMTT(90), <2>9, AppendFacts DEF FindPeak, NextStart
    <3>2. targets' \in Seq(Nat) /\ pc' \in {"search", "report"}
      <4>1. Append(targets, bin) \in Seq(Nat) BY AppendFacts
      <4>2. targets' = targets \/ targets' = Append(targets, bin) BY <2>9, Zenon DEF FindPeak
      <4>3. pc = "search" /\ (pc' = pc \/ pc' = "report") BY <2>9, Zenon DEF FindPeak
      <4> QED BY <4>1, <4>2, <4>3, Zenon
    <3>3. awaiting' \in BOOLEAN
      BY <2>9, Zenon DEF FindPeak
    <3> QED
      BY <2>9, <3>1, <3>2, <3>3 DEF FindPeak
  <2>10. CASE CrashInWindow
    BY <2>10 DEF CrashInWindow
  <2>11. CASE EndSearch
    BY <2>11 DEF EndSearch
  <2>12. CASE Report
    <3>1. found' \in Seq(Nat) /\ targets' \in Seq(Nat)
      BY <2>12 DEF Report
    <3>2. awaiting' \in BOOLEAN
      BY <2>12, Zenon DEF Report
    <3> QED
      BY <2>12, <3>1, <3>2 DEF Report
  <2>13. CASE UNCHANGED vars
    BY <2>13 DEF vars
  <2> QED
    BY <2>1, <2>2, <2>3, <2>4, <2>5, <2>6, <2>7, <2>8, <2>9, <2>10, <2>11, <2>12, <2>13
    DEF Next, Search
<1> QED
  BY <1>1, <1>2, PTL DEF Spec
----------------------------------------------------------------------------
(* The invariant of the search *)

USE DEF SearchInv, BinsInv, SpacingInv, RiseInv, CoverInv, PeaksAreMaxima, Searching,
    FallsAfter, LastBin, Near, Rises

\* Between two azimuths there is nothing to show.
Quiet == found = <<>> /\ awaiting = FALSE /\ pc \in {"none", "idle", "crashed"}

LEMMA QuietFacts ==
    /\ Quiet => SearchInv
    /\ Quiet' => SearchInv'
BY DEF Quiet

\* A search begins with no peak, at the first bin.
LEMMA BeginKeepsInv ==
    ASSUME TypeOK', SearchInv, pc = "idle", pc' = "search",
           UNCHANGED <<settings, awaiting, found>>, bin' = settings.minBin
    PROVE  SearchInv'
<1>1. found' = <<>> /\ awaiting' = FALSE /\ bin' = settings'.minBin
  OBVIOUS
<1>2. settings'.minBin \in Nat
  BY DEF TypeOK
<1>3. BinsInv' /\ SpacingInv' /\ PeaksAreMaxima'
  BY <1>1, <1>2
<1>4. RiseInv'
  BY <1>1, <1>2
<1>5. CoverInv'
  BY <1>1, <1>2
<1> QED
  BY <1>3, <1>4, <1>5

\* What the type invariant says of the numbers the search compares.
LEMMA NumberFacts ==
    ASSUME TypeOK, pc = "search"
    PROVE  /\ settings.minBin \in Nat /\ settings.threshold \in Nat /\ settings.range \in Nat
           /\ settings.bins \in Nat /\ settings.bins >= 2 /\ settings.maxPeaks \in Nat
           /\ bin \in Nat /\ LastBin \in Int
           /\ \A b \in Nat : b <= LastBin => data[b] \in Nat /\ data[b + 1] \in Nat
<1>1. /\ settings.minBin \in Nat /\ settings.threshold \in Nat /\ settings.range \in Nat
      /\ settings.bins \in MinBins .. MaxBins /\ settings.maxPeaks \in Nat /\ bin \in Nat
  BY DEF TypeOK
<1>2. settings.bins \in Nat /\ settings.bins >= 2
  BY <1>1
<1>3. data \in [BinsOf(settings.range) -> Nat]
  BY DEF TypeOK
<1>4. \A b \in Nat : b <= LastBin => b \in BinsOf(settings.range) /\ b + 1 \in BinsOf(settings.range)
  BY <1>1, <1>2
<1> QED
  BY SMTT(90), <1>1, <1>2, <1>3, <1>4

\* Bins that were found are numbers.
LEMMA FoundFacts ==
    ASSUME TypeOK
    PROVE  \A i \in DOMAIN found : found[i] \in Nat
<1>1. found \in Seq(Nat)
  BY DEF TypeOK
<1> QED
  BY ONLY <1>1

\* Passing over a fall shows nothing new: the bin neither rises nor is it near
\* enough to be of another peak.
LEMMA PassFallingKeepsInv ==
    ASSUME TypeOK, SearchInv, PassFalling
    PROVE  SearchInv'
<1> USE DEF PassFalling
<1>1. awaiting = TRUE /\ FallsAfter(bin)
  BY Zenon DEF Passes, TypeOK
<1>2. bin' = bin + 1 /\ bin >= settings.minBin /\ bin <= LastBin
  OBVIOUS
<1>6. \A i \in DOMAIN found : found[i] \in Nat
  BY ONLY TypeOK, FoundFacts
<1>3. BinsInv' /\ SpacingInv' /\ PeaksAreMaxima'
  <2>1. BinsInv'
    BY SMTT(90), <1>2, NumberFacts
  <2>2. SpacingInv'
    BY SMTT(90), <1>2, <1>6, NumberFacts
  <2>3. PeaksAreMaxima'
    OBVIOUS
  <2> QED
    BY <2>1, <2>2, <2>3
<1>4. RiseInv'
  BY SMTT(90), <1>1, <1>2, NumberFacts
<1>5. CoverInv'
  <2> SUFFICES ASSUME NEW b \in settings.minBin .. LastBin,
                      b < bin + 1, data[b] > settings.threshold, FallsAfter(b), Rises(b)
               PROVE  Near(b)
    BY <1>2
  <2>1. CASE b < bin
    BY <2>1
  <2>2. CASE b = bin
    <3>1. ~(data[bin - 1] > data[bin])
      BY SMTT(90), <2>2, <1>2, NumberFacts
    <3> QED
      BY SMTT(90), <3>1, <2>2, <1>1, <1>2, NumberFacts DEF TypeOK
  <2> QED
    BY <2>1, <2>2, NumberFacts
<1> QED
  BY <1>3, <1>4, <1>5

\* A bin that is passed as no peak does not fall, or is below the threshold.
LEMMA PassBinKeepsInv ==
    ASSUME TypeOK, SearchInv, PassBin
    PROVE  SearchInv'
<1> USE DEF PassBin
<1>1. awaiting' = FALSE
  BY DEF Awaiting
<1>2. bin' = bin + 1 /\ bin >= settings.minBin /\ bin <= LastBin
  OBVIOUS
<1>7. \A i \in DOMAIN found : found[i] \in Nat
  BY ONLY TypeOK, FoundFacts
<1>3. BinsInv' /\ SpacingInv' /\ PeaksAreMaxima'
  <2>1. BinsInv'
    BY SMTT(90), <1>2, NumberFacts
  <2>2. SpacingInv'
    BY <1>2, <1>7, NumberFacts
  <2>3. PeaksAreMaxima'
    OBVIOUS
  <2> QED
    BY <2>1, <2>2, <2>3
<1>8. ~(data[bin] > settings.threshold /\ data[bin] > data[bin + 1])
  BY Zenon DEF IsPeak
<1>6. data[bin] <= data[bin + 1] \/ data[bin] <= settings.threshold
  BY SMTT(90), <1>2, <1>8, NumberFacts
<1>4. RiseInv'
  BY SMTT(90), <1>1, <1>2, <1>6, NumberFacts
<1>5. CoverInv'
  <2> SUFFICES ASSUME NEW b \in settings.minBin .. LastBin,
                      b < bin + 1, data[b] > settings.threshold, FallsAfter(b), Rises(b)
               PROVE  Near(b)
    BY <1>2
  <2>1. b # bin
    BY <1>8
  <2>2. b < bin
    BY <2>1, <1>2, NumberFacts
  <2> QED
    BY <2>2
<1> QED
  BY <1>3, <1>4, <1>5
\* A peak is found where a rise was seen before the fall, and its bins follow
\* those of the last one.
LEMMA FindPeakKeepsInv ==
    ASSUME TypeOK, SearchInv, FindPeak
    PROVE  SearchInv'
<1> USE DEF FindPeak
<1> DEFINE n == Len(found)
<1>1. /\ data[bin] > settings.threshold /\ FallsAfter(bin)
      /\ awaiting = FALSE
  <2>1. IsPeak /\ ~Passes
    OBVIOUS
  <2>2. data[bin] > settings.threshold /\ FallsAfter(bin)
    BY <2>1, Zenon DEF IsPeak
  <2> QED
    BY <2>1, <2>2, Zenon DEF Passes, TypeOK
<1>2. /\ bin \in Nat /\ bin >= settings.minBin /\ bin <= LastBin
      /\ bin' = bin + settings.bins /\ awaiting' = TRUE
  BY NumberFacts DEF NextStart
<1>3. /\ n \in Nat /\ DOMAIN found = 1 .. n /\ DOMAIN found' = 1 .. n + 1
      /\ \A i \in 1 .. n : found'[i] = found[i] /\ found[i] \in Nat
      /\ found'[n + 1] = bin /\ found' # <<>>
  <2>1. found \in Seq(Nat) /\ found' = Append(found, bin)
    BY DEF TypeOK
  <2>2. \A i \in DOMAIN found : found[i] \in Nat
    BY SMTT(90), <2>1
  <2>3. bin \in Nat
    BY <1>2
  <2>4. /\ found' # <<>> /\ n \in Nat /\ DOMAIN found = 1 .. n
        /\ DOMAIN found' = 1 .. n + 1
        /\ \A i \in 1 .. n : found'[i] = found[i]
        /\ found'[n + 1] = bin
    <3> HIDE DEF FindPeak
    <3> QED
      BY ONLY <2>1, <2>3, AppendFacts
  <2> QED
    BY <2>2, <2>4
<1>4. UNCHANGED <<settings, data>> /\ pc' \in {"search", "report"}
  OBVIOUS
<1> HIDE DEF n
<1>5. BinsInv'
  <2>1. data \in [BinsOf(settings.range) -> Nat] /\ settings.bins \in MinBins .. MaxBins
    BY DEF TypeOK
  <2>2. bin' >= settings.minBin
    BY SMTT(90), <1>2, NumberFacts
  <2>3. \A i \in DOMAIN found' : settings.minBin <= found'[i] /\ found'[i] <= LastBin
    BY SMTT(90), <1>2, <1>3
  <2> QED
    BY <2>1, <2>2, <2>3, <1>4
<1>6. SpacingInv'
  <2>3. settings.bins \in Nat /\ \A i \in 1 .. n : found[i] + settings.bins <= bin
    BY <1>3, NumberFacts
  <2>1. ASSUME NEW i \in DOMAIN found'
        PROVE  found'[i] + settings.bins <= bin'
    <3>1. CASE i = n + 1
      BY <3>1, <2>3, <1>2, <1>3
    <3>2. CASE i \in 1 .. n
      <4>1. found'[i] = found[i] /\ found[i] \in Nat /\ found[i] + settings.bins <= bin
        BY <3>2, <2>3, <1>3
      <4> QED
        BY SMTT(90), <4>1, <2>3, <1>2
    <3> QED
      BY <3>1, <3>2, <1>3
  <2>2. ASSUME NEW i \in DOMAIN found', i > 1
        PROVE  found'[i - 1] + settings.bins <= found'[i]
    <3>1. CASE i = n + 1
      <4>1. i - 1 \in 1 .. n /\ found'[i] = bin
        BY <3>1, <2>2, <1>3
      <4>2. found'[i - 1] = found[i - 1]
        BY <4>1, <1>3
      <4> QED
        BY <4>1, <4>2, <2>3
    <3>2. CASE i \in 1 .. n
      <4>1. i - 1 \in 1 .. n
        BY ONLY <3>2, <2>2, <1>3
      <4>2. found'[i] = found[i] /\ found'[i - 1] = found[i - 1]
        BY <3>2, <4>1, <1>3
      <4>3. found[i - 1] + settings.bins <= found[i]
        BY <3>2, <2>2, <1>3
      <4> QED
        BY <4>2, <4>3
    <3>3. i = n + 1 \/ i \in 1 .. n
      BY ONLY <2>2, <1>3
    <3> QED
      BY <3>1, <3>2, <3>3
  <2> QED
    BY <2>1, <2>2, <1>4
<1>7. PeaksAreMaxima'
  <2>1. bin > settings.minBin => data[bin - 1] <= data[bin]
    <3>1. bin > settings.minBin => bin - 1 \in Nat /\ bin - 1 <= LastBin
      BY <1>2, NumberFacts
    <3> QED
      BY SMTT(90), <3>1, <1>1, <1>2, NumberFacts
  <2>2. ASSUME NEW i \in DOMAIN found'
        PROVE  LET p == found'[i]
               IN  /\ data[p] > settings.threshold /\ data[p] > data[p + 1]
                   /\ p > settings.minBin => data[p - 1] <= data[p]
    <3>1. CASE i = n + 1
      BY <3>1, <2>1, <1>1, <1>3
    <3>2. CASE i \in 1 .. n
      BY <3>2, <1>3
    <3> QED
      BY SMTT(90), <3>1, <3>2, <1>3
  <2> QED
    BY <2>2, <1>4
<1>8. RiseInv'
  <2>1. n + 1 \in DOMAIN found' /\ bin' = found'[n + 1] + settings'.bins
    BY <1>2, <1>3, <1>4
  <2> QED
    BY <2>1, <1>2
<1>9. CoverInv'
  <2>1. ASSUME NEW b \in settings.minBin .. LastBin, b < bin',
               data[b] > settings.threshold, FallsAfter(b), Rises(b)
        PROVE  Near(b)'
    <3>1. CASE b < bin
      <4>1. PICK i \in DOMAIN found : found[i] <= b /\ b <= found[i] + settings.bins
        BY <3>1, <2>1
      <4> QED
        BY <4>1, <1>3, <1>4
    <3>2. CASE b >= bin
      <4>1. n + 1 \in DOMAIN found' /\ found'[n + 1] = bin
        BY <1>3
      <4>2. bin <= b /\ b <= bin + settings.bins
        BY <3>2, <2>1, <1>2, NumberFacts
      <4> QED
        BY <4>1, <4>2, <1>4
    <3> QED
      BY SMTT(90), <3>1, <3>2, <1>2, NumberFacts
  <2>2. pc' = "report" => Len(targets') >= settings.maxPeaks
    OBVIOUS
  <2> QED
    BY <2>1, <2>2, <1>4
<1> QED
  BY <1>5, <1>6, <1>7, <1>8, <1>9
----------------------------------------------------------------------------
(* The theorems *)

USE DEF IInv

LEMMA InvariantInductive ==
    /\ Init => SearchInv
    /\ TypeOK /\ TypeOK' /\ SearchInv /\ [Next]_vars => SearchInv'
<1>1. Init => SearchInv
  <2>1. Init => Quiet
    BY SMTT(90) DEF Init, Quiet
  <2> QED
    BY <2>1, QuietFacts
<1>2. ASSUME TypeOK, TypeOK', SearchInv, [Next]_vars
      PROVE  SearchInv'
  <2>1. CASE Configure
    <3>1. found = <<>> /\ awaiting = FALSE
      BY <2>1, <1>2 DEF Configure
    <3>2. found' = <<>> /\ awaiting' = FALSE /\ pc' = "idle"
      BY <2>1, <3>1 DEF Configure
    <3> QED
      BY <3>2, QuietFacts DEF Quiet
  <2>2. CASE SetThreshold
    <3>1. found = <<>> /\ awaiting = FALSE
      BY <2>2, <1>2 DEF SetThreshold
    <3>2. found' = <<>> /\ awaiting' = FALSE /\ pc' = "idle"
      BY <2>2, <3>1 DEF SetThreshold
    <3> QED
      BY <3>2, QuietFacts DEF Quiet
  <2>3. CASE SearchAzimuth
    BY <2>3, BeginKeepsInv, <1>2 DEF SearchAzimuth, StartSearch
  <2>4. CASE BufferAzimuth
    BY <2>4, QuietFacts, <1>2 DEF BufferAzimuth, Quiet
  <2>5. CASE SearchBuffer
    BY <2>5, BeginKeepsInv, <1>2 DEF SearchBuffer, StartSearch
  <2>6. CASE CrashInBuffer
    BY <2>6, QuietFacts, <1>2 DEF CrashInBuffer, Quiet
  <2>7. CASE PassFalling
    BY <2>7, PassFallingKeepsInv, <1>2, Zenon
  <2>8. CASE PassBin
    BY <2>8, PassBinKeepsInv, <1>2, Zenon
  <2>9. CASE FindPeak
    BY <2>9, FindPeakKeepsInv, <1>2
  <2>10. CASE CrashInWindow
    <3>1. BinsInv' /\ SpacingInv' /\ PeaksAreMaxima'
      BY <2>10, <1>2 DEF CrashInWindow
    <3>2. RiseInv' /\ CoverInv'
      BY <2>10 DEF CrashInWindow
    <3> QED
      BY <3>1, <3>2
  <2>11. CASE EndSearch
    <3>1. BinsInv' /\ SpacingInv' /\ PeaksAreMaxima'
      BY <2>11, <1>2 DEF EndSearch
    <3>2. RiseInv' /\ CoverInv'
      BY <2>11, <1>2 DEF EndSearch
    <3> QED
      BY <3>1, <3>2
  <2>12. CASE Report
    BY <2>12, QuietFacts DEF Report, Quiet
  <2>13. CASE UNCHANGED vars
    BY <2>13, <1>2 DEF vars
  <2> QED
    BY <1>2, <2>1, <2>2, <2>3, <2>4, <2>5, <2>6, <2>7, <2>8, <2>9, <2>10, <2>11, <2>12, <2>13
    DEF Next, Search
<1> QED
  BY <1>1, <1>2

LEMMA Invariant == Spec => []IInv
<1>1. Init => SearchInv
  BY InvariantInductive
<1>2. TypeOK /\ TypeOK' /\ SearchInv /\ [Next]_vars => SearchInv'
  BY InvariantInductive
<1> QED
  BY <1>1, <1>2, TypeCorrect, PTL DEF Spec, IInv

\* What find_peak_bin() returns is a peak: the fall from a peak is never taken
\* for another one.
THEOREM PeaksAreMaximaHolds == Spec => []PeaksAreMaxima
<1>1. IInv => PeaksAreMaxima
  OBVIOUS
<1> QED
  BY <1>1, Invariant, PTL

\* peak_resolve() reads bins that exist, and no bin for two peaks.
THEOREM WindowsInsideHolds == Spec => []WindowsInside
<1>1. IInv => WindowsInside
  <2> SUFFICES ASSUME IInv, settings.minBin >= (settings.bins - 1) \div 2,
                      NEW i \in DOMAIN found
               PROVE  /\ WindowLow(found[i]) >= 0 /\ WindowHigh(found[i]) < settings.range
                      /\ i > 1 => WindowHigh(found[i - 1]) < WindowLow(found[i])
    BY DEF WindowsInside
  <2> DEFINE half == (settings.bins - 1) \div 2
  <2>1. /\ settings.bins \in Nat /\ settings.bins >= 2 /\ settings.range \in Nat
        /\ settings.minBin \in Nat
    BY SMTT(90) DEF TypeOK
  <2>2. half \in Nat
    BY <2>1, HalfFacts
  <2>3. found \in Seq(Nat) /\ i \in 1 .. Len(found) /\ found[i] \in Nat
    <3>1. found \in Seq(Nat)
      BY DEF TypeOK
    <3> QED
      BY ONLY <3>1, i \in DOMAIN found
  <2>4. settings.minBin <= found[i] /\ found[i] <= settings.range - settings.bins
    OBVIOUS
  <2> HIDE DEF half
  <2>5. WindowLow(found[i]) = found[i] - half
        /\ WindowHigh(found[i]) = found[i] - half + settings.bins - 1
    BY DEF WindowLow, WindowHigh, half
  <2>6. half <= settings.minBin
    BY DEF half
  <2>7. ASSUME i > 1
        PROVE  WindowHigh(found[i - 1]) < WindowLow(found[i])
    <3>3. i - 1 \in 1 .. Len(found)
      BY ONLY <2>7, <2>3
    <3>4. found[i - 1] \in Nat
      BY ONLY <3>3, <2>3
    <3>1. found[i - 1] \in Nat /\ found[i - 1] + settings.bins <= found[i]
      BY <2>7, <3>4
    <3>2. WindowHigh(found[i - 1]) = found[i - 1] - half + settings.bins - 1
      BY DEF WindowLow, WindowHigh, half
    <3>5. found[i - 1] - half + settings.bins - 1 < found[i] - half
      BY ONLY <3>1, <2>1, <2>2, <2>3, ApartFacts
    <3> QED
      BY ONLY <3>2, <3>5, <2>5
  <2> QED
    BY ONLY SMTT(90), <2>1, <2>2, <2>3, <2>4, <2>5, <2>6, <2>7
<1> QED
  BY <1>1, Invariant, PTL

\* Only in the bins of a peak, or right behind them, does the search miss one.
THEOREM NoPeakMissedHolds == Spec => []NoPeakMissed
<1>1. IInv => NoPeakMissed
  <2> SUFFICES ASSUME IInv, pc = "report", Len(targets) < settings.maxPeaks,
                      NEW b \in settings.minBin .. LastBin,
                      data[b] > settings.threshold, FallsAfter(b), Rises(b)
               PROVE  Near(b)
    BY DEF NoPeakMissed
  <2>1. settings.maxPeaks \in Nat /\ Len(targets) \in Nat /\ bin \in Nat
    BY DEF TypeOK
  <2>2. bin > LastBin
    BY <2>1
  <2>3. settings.minBin \in Nat /\ LastBin \in Int
    BY DEF TypeOK
  <2>4. b < bin
    BY <2>1, <2>2, <2>3
  <2> QED
    BY <2>4
<1> QED
  BY <1>1, Invariant, PTL
=============================================================================
