----------------------------- MODULE PeakFinder -----------------------------
(***************************************************************************)
(* Peak_finder (cpp_17/navigation/peak_finder.cpp): the peaks of an        *)
(* azimuth, searched bin by bin.  In the buffer modes several azimuths are *)
(* combined into one first.                                                *)
(*                                                                         *)
(* A bin holds a power in half dBs, which the buffer modes halve before    *)
(* they compare it with the threshold and mode off does not: levels and    *)
(* the threshold are twice the numbers the code compares.  The average of  *)
(* powers is any value between the least and the greatest.                 *)
(* Where peak_resolve() puts the peak between the bins is floating-point   *)
(* arithmetic and left out, but for the outcome: the range it gives is     *)
(* kept or, outside the radar's range, dropped.                            *)
(***************************************************************************)
EXTENDS Integers, Sequences

CONSTANTS
    Powers,     \* what a bin may hold, in half dBs
    Sizes,      \* how many bins an azimuth may have
    Settings,   \* what configure() may be called with
    MinBins,    \* min_bins_to_operate_on, 5 in the code
    MaxBins     \* max_bins_to_operate_on, 15 in the code

ASSUME PeakFinderAssumption ==
    /\ Powers \subseteq Nat /\ Sizes \subseteq Nat
    /\ MinBins \in Nat /\ MinBins >= 2 /\ MaxBins \in Nat /\ MaxBins >= MinBins
    /\ Settings \subseteq [range : Nat, threshold : Nat, bins : Nat, minBin : Nat,
                           mode : {"off", "average", "max"}, length : Nat, maxPeaks : Nat]

VARIABLES
    settings,   \* as configured, with `bins` within its limits
    buffer,     \* data_buffer: azimuths in half dBs
    pc,         \* "none" before configure(), "idle", "search", "report", "crashed"
    data,       \* the azimuth that is searched
    bin,        \* peakBin
    awaiting,   \* awaiting_rise
    found,      \* the bins find_peak_bin() returned
    targets,    \* those of them that became targets
    echoes      \* history: bins where each of the combined azimuths has a peak

vars == <<settings, buffer, pc, data, bin, awaiting, found, targets, echoes>>

BinsOf(n) == 0 .. n - 1

Azimuths == UNION {[BinsOf(n) -> Powers] : n \in Sizes}

NoData == [b \in {} |-> 0]

Init ==
    /\ settings \in Settings
    /\ buffer = <<>>
    /\ pc = "none"
    /\ data = NoData /\ bin = 0 /\ awaiting = FALSE
    /\ found = <<>> /\ targets = <<>> /\ echoes = {}

Least(m, n) == IF m < n THEN m ELSE n
Greatest(m, n) == IF m > n THEN m ELSE n

ClampedAbove(bins) == Least(bins, MaxBins)

Clamped(bins) == Greatest(Least(bins, MaxBins), MinBins)

\* configure(): the buffer keeps what it holds.
Configure ==
    /\ pc \in {"none", "idle"}
    /\ \E s \in Settings : settings' = [s EXCEPT !.bins = Clamped(s.bins)]
    /\ pc' = "idle"
    /\ UNCHANGED <<buffer, data, bin, awaiting, found, targets, echoes>>

\* set_threshold(), between two azimuths
SetThreshold ==
    /\ pc = "idle"
    /\ \E s \in Settings : settings' = [settings EXCEPT !.threshold = s.threshold]
    /\ UNCHANGED <<buffer, pc, data, bin, awaiting, found, targets, echoes>>

----------------------------------------------------------------------------
(* fft_data_handler() *)

\* Contoured data has another size and is refused.
Accepts(azimuth) == DOMAIN azimuth = BinsOf(settings.range)

StartSearch(levels) ==
    /\ data' = levels
    /\ bin' = settings.minBin
    /\ pc' = "search"

SearchAzimuth ==
    /\ pc = "idle" /\ settings.mode = "off"
    /\ \E azimuth \in Azimuths :
           /\ Accepts(azimuth)
           /\ StartSearch([b \in BinsOf(settings.range) |-> 2 * azimuth[b]])
    /\ UNCHANGED <<settings, buffer, awaiting, found, targets, echoes>>

BufferAzimuth ==
    /\ pc = "idle" /\ settings.mode # "off"
    /\ Len(buffer) + 1 < settings.length
    /\ \E azimuth \in Azimuths : Accepts(azimuth) /\ buffer' = Append(buffer, azimuth)
    /\ UNCHANGED <<settings, pc, data, bin, awaiting, found, targets, echoes>>

PowersAt(azimuths, bins) == {azimuths[i][b] : i \in DOMAIN azimuths, b \in bins}

\* max is set to 0 before the loop over the bins and not again inside it.
IsMax(level, azimuths, b) ==
    /\ level \in PowersAt(azimuths, 0 .. b)
    /\ \A p \in PowersAt(azimuths, 0 .. b) : p <= level

IsMean(level, azimuths, b) ==
    /\ \E p \in PowersAt(azimuths, {b}) : p <= level
    /\ \E p \in PowersAt(azimuths, {b}) : p >= level

Combines(level, azimuths, b) ==
    IF settings.mode = "max" THEN IsMax(level, azimuths, b) ELSE IsMean(level, azimuths, b)

\* An azimuth buffered before the last configure() may have fewer bins.
Readable(azimuths, b) == \A i \in DOMAIN azimuths : 0 .. b \subseteq DOMAIN azimuths[i]

Echo(azimuths, b) ==
    /\ b > settings.minBin /\ b <= settings.range - settings.bins
    /\ \A i \in DOMAIN azimuths :
           /\ 0 .. b + 1 \subseteq DOMAIN azimuths[i]
           /\ azimuths[i][b] > settings.threshold
           /\ azimuths[i][b - 1] < azimuths[i][b]
           /\ azimuths[i][b + 1] < azimuths[i][b]

\* The buffer is full: search the combination of its azimuths.  What is read
\* behind the end of one may be anything.
SearchBuffer ==
    /\ pc = "idle" /\ settings.mode # "off"
    /\ Len(buffer) + 1 >= settings.length
    /\ \E azimuth \in Azimuths, levels \in [BinsOf(settings.range) -> Powers] :
           LET azimuths == Append(buffer, azimuth)
           IN  /\ Accepts(azimuth)
               /\ \A b \in DOMAIN levels :
                      Readable(azimuths, b) => Combines(levels[b], azimuths, b)
               /\ echoes' = {b \in BinsOf(settings.range) : Echo(azimuths, b)}
               /\ StartSearch(levels)
    /\ buffer' = <<>>
    /\ UNCHANGED <<settings, awaiting, found, targets>>

\* The other outcome of a read behind the end.
CrashInBuffer ==
    /\ pc = "idle" /\ settings.mode # "off"
    /\ Len(buffer) + 1 >= settings.length
    /\ ~Readable(buffer, settings.range - 1)
    /\ pc' = "crashed"
    /\ UNCHANGED <<settings, buffer, data, bin, awaiting, found, targets, echoes>>

----------------------------------------------------------------------------
(* find_peaks() and find_peak_bin() *)

FallsAfter(b) == data[b] > data[b + 1]

LastBin == settings.range - settings.bins

PassesNothing == FALSE

\* After a peak the fall from it is passed over.
Passes == awaiting /\ FallsAfter(bin)

PassFalling ==
    /\ pc = "search" /\ bin <= LastBin
    /\ Passes
    /\ bin' = bin + 1
    /\ UNCHANGED <<settings, buffer, pc, data, awaiting, found, targets, echoes>>

StillAwaiting == awaiting

Awaiting == FALSE

IsPeak == data[bin] > settings.threshold /\ FallsAfter(bin)

PassBin ==
    /\ pc = "search" /\ bin <= LastBin
    /\ ~Passes /\ ~IsPeak
    /\ awaiting' = Awaiting
    /\ bin' = bin + 1
    /\ UNCHANGED <<settings, buffer, pc, data, found, targets, echoes>>

\* The `bins` bins that peak_resolve() reads around a peak
WindowLow(p) == p - ((settings.bins - 1) \div 2)
WindowHigh(p) == WindowLow(p) + settings.bins - 1

NextStartAtOnce == bin + 1

\* The search goes on behind the bins the peak was resolved with.
NextStart == bin + settings.bins

FindPeak ==
    /\ pc = "search" /\ bin <= LastBin
    /\ ~Passes /\ IsPeak
    /\ awaiting' = TRUE
    /\ found' = Append(found, bin)
    /\ bin' = NextStart
    /\ \/ UNCHANGED <<targets, pc>>
       \/ /\ targets' = Append(targets, bin)
          /\ pc' = IF Len(targets') >= settings.maxPeaks THEN "report" ELSE pc
    /\ UNCHANGED <<settings, buffer, data, echoes>>

\* A peak too near to the first bin: peak_resolve() reads in front of the
\* azimuth.  Either what it reads there only moves the peak (FindPeak), or this.
CrashInWindow ==
    /\ pc = "search" /\ bin <= LastBin
    /\ ~Passes /\ IsPeak
    /\ WindowLow(bin) < 0
    /\ pc' = "crashed"
    /\ UNCHANGED <<settings, buffer, data, bin, awaiting, found, targets, echoes>>

EndSearch ==
    /\ pc = "search" /\ bin > LastBin
    /\ pc' = "report"
    /\ UNCHANGED <<settings, buffer, data, bin, awaiting, found, targets, echoes>>

\* target_callback(), if there are targets
Report ==
    /\ pc = "report"
    /\ pc' = "idle"
    /\ data' = NoData /\ bin' = 0 /\ awaiting' = FALSE
    /\ found' = <<>> /\ targets' = <<>> /\ echoes' = {}
    /\ UNCHANGED <<settings, buffer>>

Search == PassFalling \/ PassBin \/ FindPeak \/ CrashInWindow \/ EndSearch

Next ==
    \/ Configure \/ SetThreshold
    \/ SearchAzimuth \/ BufferAzimuth \/ SearchBuffer \/ CrashInBuffer
    \/ Search \/ Report

Spec == Init /\ [][Next]_vars

----------------------------------------------------------------------------
(* Properties *)

TypeOK ==
    /\ settings \in [range : Nat, threshold : Nat, bins : Nat, minBin : Nat,
                     mode : {"off", "average", "max"}, length : Nat, maxPeaks : Nat]
    /\ pc # "none" => settings.bins \in MinBins .. MaxBins
    /\ pc \in {"none", "idle", "search", "report", "crashed"}
    /\ pc \in {"search", "report"} => data \in [BinsOf(settings.range) -> Nat]
    /\ bin \in Nat /\ awaiting \in BOOLEAN
    /\ found \in Seq(Nat) /\ targets \in Seq(Nat)

\* A peak is above the threshold, higher than its next bin, and not lower than
\* its last one, unless it is the very first bin that is looked at: the fall
\* from one peak is never taken for another.
PeaksAreMaxima ==
    \A i \in DOMAIN found :
        LET p == found[i]
        IN  /\ data[p] > settings.threshold /\ data[p] > data[p + 1]
            /\ p > settings.minBin => data[p - 1] <= data[p]

\* peak_resolve() reads `bins` bins around the peak, which exist and of which no
\* other peak was made, if the search starts half that many bins into the
\* azimuth.
WindowsInside ==
    settings.minBin >= (settings.bins - 1) \div 2 =>
        \A i \in DOMAIN found :
            /\ WindowLow(found[i]) >= 0 /\ WindowHigh(found[i]) < settings.range
            /\ i > 1 => WindowHigh(found[i - 1]) < WindowLow(found[i])

\* A rise and fall above the threshold is a peak, unless it lies in the bins of
\* a peak before it or immediately behind them.
Rises(b) == b > settings.minBin /\ data[b - 1] < data[b]

NoPeakMissed ==
    pc = "report" /\ Len(targets) < settings.maxPeaks =>
        \A b \in settings.minBin .. LastBin :
            data[b] > settings.threshold /\ FallsAfter(b) /\ Rises(b) =>
                \E i \in DOMAIN found : found[i] <= b /\ b <= found[i] + settings.bins

\* "when the FFT has risen and then fallen, the peak resolving algorithm is run"
\* (README.md): of an echo that every azimuth of the buffer shows, mode max finds a
\* peak.
MaxModeFindsEchoes ==
    pc = "report" /\ settings.mode = "max" /\ echoes # {} => found # <<>>
=============================================================================
