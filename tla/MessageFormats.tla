-------------------------- MODULE MessageFormats --------------------------
(***************************************************************************)
(* The bytes of Colossus messages as the C++17 SDK, the older C++ SDK, the *)
(* C# SDK and the Python examples write and read them.  A value is the     *)
(* sequence of its bytes, the most significant first, and a byte is named  *)
(* by the value it belongs to and its place there: what is read from a     *)
(* message is compared with what was put there, for values of any size at  *)
(* once.  The hosts are little-endian.                                     *)
(***************************************************************************)
EXTENDS Integers, Sequences, FiniteSets, SequencesExt, FiniteSetsExt

Value(name, width) == [k \in 1..width |-> <<name, k>>]

(***************************************************************************)
(* Conversions, between a value and the memory of a host.  The floating    *)
(* point ones are the same bytes seen through a union.                     *)
(***************************************************************************)
HostMemory(value) == Reverse(value)
HostValue(memory) == Reverse(memory)

\* htons() and htonl() swap the memory of their argument, ntohs() and ntohl() too.
ToNetwork(value)    == Reverse(HostMemory(value))
FromNetwork(memory) == HostValue(Reverse(memory))

\* C# swaps two bytes, and four by swapping the halves and the bytes of each.
SwapUInt16(m) == <<m[2], m[1]>>
SwapUInt32(m) == SwapUInt16(SubSeq(m, 3, 4)) \o SwapUInt16(SubSeq(m, 1, 2))
Swap(memory)  == IF Len(memory) = 2 THEN SwapUInt16(memory) ELSE SwapUInt32(memory)

(***************************************************************************)
(* Layouts: the place and the width of each field of a message's header.   *)
(* Packed places the fields one after another.                             *)
(***************************************************************************)
Packed(fields) ==
    LET place[i \in DOMAIN fields] == IF i = 1 THEN 0 ELSE place[i - 1] + fields[i - 1][2]
        Index(f) == CHOOSE i \in DOMAIN fields : fields[i][1] = f
    IN  [f \in {fields[i][1] : i \in DOMAIN fields} |-> <<place[Index(f)], fields[Index(f)][2]>>]

SizeOf(layout) == Max({0} \cup {layout[f][1] + layout[f][2] : f \in DOMAIN layout})

FieldOf(layout, f, payload) == SubSeq(payload, layout[f][1] + 1, layout[f][1] + layout[f][2])

\* C++17: colossus_messages.h
Cpp17Configuration == Packed(<< <<"azimuth_samples", 2>>, <<"bin_size", 2>>, <<"range_in_bins", 2>>,
    <<"encoder_size", 2>>, <<"rotation_speed", 2>>, <<"packet_rate", 2>>, <<"range_gain", 4>>, <<"range_offset", 4>> >>)
Cpp17FftData == Packed(<< <<"data_offset", 2>>, <<"sweep_counter", 2>>, <<"azimuth", 2>>,
    <<"seconds", 4>>, <<"split_seconds", 4>> >>)
Cpp17NavigationData == Packed(<< <<"azimuth", 2>>, <<"seconds", 4>>, <<"split_seconds", 4>> >>)
Cpp17NavigationConfig == Packed(<< <<"bins", 2>>, <<"min_bin", 2>>, <<"threshold", 4>>, <<"max_peaks", 4>> >>)

\* C++: cndpconfigurationmessage.h, cndpfftdatamessage.h, radarclient.cpp
CppConfiguration == Packed(<< <<"azimuth_samples", 2>>, <<"bin_size", 2>>, <<"range_in_bins", 2>>,
    <<"encoder_size", 2>>, <<"rotation_speed", 2>>, <<"packet_rate", 2>>, <<"range_gain", 4>>, <<"range_offset", 4>> >>)
CppFftData == Packed(<< <<"data_offset", 2>>, <<"sweep_counter", 2>>, <<"azimuth", 2>>,
    <<"seconds", 4>>, <<"split_seconds", 4>> >>)
CppNavigationData == Packed(<< <<"azimuth", 2>>, <<"seconds", 4>>, <<"split_seconds", 4>> >>)

\* C#: the places that the Data of each structure gives its fields
CSharpConfiguration == [azimuth_samples |-> <<0, 2>>, bin_size |-> <<2, 2>>, range_in_bins |-> <<4, 2>>,
    encoder_size |-> <<6, 2>>, rotation_speed |-> <<8, 2>>, packet_rate |-> <<10, 2>>,
    range_gain |-> <<12, 4>>, range_offset |-> <<16, 4>>]
CSharpFftData == [data_offset |-> <<0, 2>>, sweep_counter |-> <<2, 2>>, azimuth |-> <<4, 2>>,
    seconds |-> <<6, 4>>, split_seconds |-> <<10, 4>>]
CSharpNavigationData == [azimuth |-> <<0, 2>>, seconds |-> <<2, 4>>, split_seconds |-> <<6, 4>>]

\* Python: the slices its handlers take
PythonConfiguration == [azimuth_samples |-> <<0, 2>>, bin_size |-> <<2, 2>>, range_in_bins |-> <<4, 2>>,
    encoder_size |-> <<6, 2>>, rotation_speed |-> <<8, 2>>, packet_rate |-> <<10, 2>>]
PythonFftData == [sweep_counter |-> <<2, 2>>, azimuth |-> <<4, 2>>, seconds |-> <<6, 4>>, split_seconds |-> <<10, 4>>]
PythonNavigationData == [azimuth |-> <<0, 2>>, seconds |-> <<2, 4>>, split_seconds |-> <<6, 4>>]
PythonNavigationConfig == [bins |-> <<0, 2>>, min_bin |-> <<2, 2>>, threshold |-> <<4, 4>>, max_peaks |-> <<8, 4>>]

(***************************************************************************)
(* A navigation message's buffer is a sequence of peaks, each a range and  *)
(* a power.  C++ counts whole records and converts both from network       *)
(* order; C# and Python cut the same records.                              *)
(***************************************************************************)
PeakSize == 6
PeakAt(buffer, n) == [range |-> SubSeq(buffer, n * PeakSize + 1, n * PeakSize + 4),
                      power |-> SubSeq(buffer, n * PeakSize + 5, n * PeakSize + 6)]

Cpp17Peaks(buffer) ==
    [n \in 1..(Len(buffer) \div PeakSize) |->
        LET peak == PeakAt(buffer, n - 1)
        IN  [range |-> FromNetwork(peak.range), power |-> FromNetwork(peak.power)]]

CppPeaks(payload) ==
    [n \in 1..((Len(payload) - SizeOf(CppNavigationData)) \div PeakSize) |->
        LET peak == PeakAt(SubSeq(payload, SizeOf(CppNavigationData) + 1, Len(payload)), n - 1)
        IN  [range |-> FromNetwork(peak.range), power |-> FromNetwork(peak.power)]]

CSharpPeaks(buffer) ==
    [n \in 1..(Len(buffer) \div PeakSize) |->
        LET peak == PeakAt(buffer, n - 1)
        IN  [range |-> HostValue(Swap(peak.range)), power |-> HostValue(Swap(peak.power))]]

(***************************************************************************)
(* The blanking sectors of sector_blanking.cpp: their number in one byte,  *)
(* then two angles of each.  A sector is named by a number; a byte that    *)
(* is the number n is << <<"count">>, n>>.                                 *)
(***************************************************************************)
SectorBytes(s) == ToNetwork(Value(<<"start", s>>, 4)) \o ToNetwork(Value(<<"finish", s>>, 4))

SectorsToVector(sectors) ==
    << << <<"count">>, Len(sectors)>> >> \o FlattenSeq([i \in DOMAIN sectors |-> SectorBytes(sectors[i])])

\* from_vector(): does it throw, and the angles it appends to the list otherwise
NumSectors(buffer) == (Len(buffer) - 1) \div 8
FromVectorThrows(buffer) ==
    \/ NumSectors(buffer) % 4 # 0
    \/ buffer[1] # << <<"count">>, NumSectors(buffer)>>
SectorsFromVector(buffer) ==
    [i \in 1..NumSectors(buffer) |->
        [start  |-> FromNetwork(SubSeq(buffer, 8 * i - 6, 8 * i - 3)),
         finish |-> FromNetwork(SubSeq(buffer, 8 * i - 2, 8 * i + 1))]]

=============================================================================
