---------------------------- MODULE MCPeakFinder ----------------------------
(***************************************************************************)
(* Small instances of PeakFinder: every azimuth of a few bins and powers,  *)
(* searched at once or combined with a second one.  SearchBins is enough   *)
(* for two peaks with a fall and a rise between them; BufferBins - 1 for   *)
(* azimuths that are too short once configure() was called.                *)
(***************************************************************************)
EXTENDS PeakFinder

CONSTANTS SearchBins, BufferBins

Setting(range, threshold, bins, minBin, mode, maxPeaks) ==
    [range |-> range, threshold |-> threshold, bins |-> bins, minBin |-> minBin,
     mode |-> mode, length |-> 2, maxPeaks |-> maxPeaks]

MCSettings ==
    {Setting(SearchBins, 0, bins, minBin, "off", 3) :
        bins \in {1, MaxBins + 1}, minBin \in {0, 1}}
    \cup {Setting(SearchBins, 2, MaxBins, 1, "off", 1)}
    \cup {Setting(BufferBins - 1, 0, 2, 1, "average", 3)}
    \cup {Setting(BufferBins, 0, 2, 1, mode, 3) : mode \in {"average", "max"}}
=============================================================================
