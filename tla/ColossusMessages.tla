------------------------- MODULE ColossusMessages -------------------------
(***************************************************************************)
(* A Colossus message from the calls that build it, in one of the four     *)
(* implementations, to what the readers of all of them make of it.  The    *)
(* C++17 Message keeps header and payload in one vector and lets a program *)
(* add its parts in any order; the others compose a message in one go.     *)
(* Bytes are those of MessageFormats.                                      *)
(***************************************************************************)
EXTENDS MessageFormats

CONSTANTS MaxParts,        \* parts appended to a message, and peaks in one
          PartSize,        \* bytes of a part
          MaxSectors,      \* max_sectors of a blanking list
          LargestPayload,  \* largest_payload, of C++17
          MaxPayloadSize   \* MAXPAYLOADSIZE, of C++

ASSUME LimitsAssumption ==
    /\ MaxParts \in Nat /\ PartSize \in Nat /\ MaxSectors \in Nat
    /\ LargestPayload \in Nat /\ MaxPayloadSize \in Nat /\ LargestPayload <= MaxPayloadSize

(***************************************************************************)
(* Kinds of messages, and the number each implementation gives them.       *)
(***************************************************************************)
Cpp17Type == [configuration |-> 10, start_fft_data |-> 21, fft_data |-> 30, health |-> 40, contour_update |-> 50,
    sector_blanking_update |-> 51, start_nav_data |-> 120, set_nav_threshold |-> 122, navigation_data |-> 123,
    set_nav_range_offset_and_gain |-> 124, navigation_configuration |-> 204, set_navigation_configuration |-> 205]
CppType == [configuration |-> 10, start_fft_data |-> 21, fft_data |-> 30, contour_update |-> 50,
    start_nav_data |-> 120, set_nav_threshold |-> 122, navigation_data |-> 123, set_nav_range_offset_and_gain |-> 124]
CSharpType == [configuration |-> 10, start_fft_data |-> 21, fft_data |-> 30, contour_update |-> 50,
    start_nav_data |-> 120, set_nav_threshold |-> 122, navigation_data |-> 123, set_nav_range_offset_and_gain |-> 124]
PythonType == [configuration |-> 10, start_fft_data |-> 21, fft_data |-> 30, start_nav_data |-> 120,
    navigation_data |-> 123, navigation_configuration |-> 204, set_navigation_configuration |-> 205]

TypeIn == [cpp17 |-> Cpp17Type, cpp |-> CppType, csharp |-> CSharpType, python |-> PythonType]

\* What each can send: C# has no constructor for a configuration, Python builds requests only.
Sends == [cpp17  |-> DOMAIN Cpp17Type,
          cpp    |-> DOMAIN CppType \ {"navigation_data"},
          csharp |-> DOMAIN CSharpType \ {"configuration"},
          python |-> {"start_fft_data", "start_nav_data", "set_navigation_configuration"}]

LayoutIn ==
    [cpp17  |-> [configuration |-> Cpp17Configuration, fft_data |-> Cpp17FftData, navigation_data |-> Cpp17NavigationData,
                 navigation_configuration |-> Cpp17NavigationConfig, set_navigation_configuration |-> Cpp17NavigationConfig],
     cpp    |-> [configuration |-> CppConfiguration, fft_data |-> CppFftData, navigation_data |-> CppNavigationData],
     csharp |-> [configuration |-> CSharpConfiguration, fft_data |-> CSharpFftData, navigation_data |-> CSharpNavigationData],
     python |-> [configuration |-> PythonConfiguration, fft_data |-> PythonFftData, navigation_data |-> PythonNavigationData,
                 navigation_configuration |-> PythonNavigationConfig, set_navigation_configuration |-> PythonNavigationConfig]]

HasHeader(s, k) == k \in DOMAIN LayoutIn[s]

\* The header's bytes as the setters leave them: every one converts to network order.
HeaderBytes(layout) ==
    [b \in 1..SizeOf(layout) |->
        LET f == CHOOSE g \in DOMAIN layout : layout[g][1] < b /\ b <= layout[g][1] + layout[g][2]
        IN  ToNetwork(Value(<<f>>, layout[f][2]))[b - layout[f][1]]]

(***************************************************************************)
(* What follows the header: parts of a protocol buffer or of FFT data,     *)
(* peaks, or the body of a request, which each SDK encodes itself.         *)
(***************************************************************************)
Part(k, i) == IF k = "navigation_data"
              THEN Value(<<"range", i>>, 4) \o Value(<<"power", i>>, 2)
              ELSE Value(<<"part", i>>, PartSize)

Streamed == {"configuration", "fft_data", "navigation_data", "health"}

Cpp17Threshold == ToNetwork(Value(<<"threshold">>, 2))
Cpp17GainAndOffset == ToNetwork(Value(<<"gain">>, 4)) \o ToNetwork(Value(<<"offset">>, 4))
Cpp17Contour == Value(<<"contour">>, 2)
CppThreshold == ToNetwork(Value(<<"threshold">>, 2))
CppGainAndOffset == ToNetwork(Value(<<"gain">>, 4)) \o ToNetwork(Value(<<"offset">>, 4))
CppContour == Value(<<"contour">>, 2)
CSharpThreshold == Swap(HostMemory(Value(<<"threshold">>, 2)))
CSharpGainAndOffset == Swap(HostMemory(Value(<<"gain">>, 4))) \o Swap(HostMemory(Value(<<"offset">>, 4)))
CSharpContour == Value(<<"contour">>, 2)

BodyIn ==
    [cpp17  |-> [set_nav_threshold |-> Cpp17Threshold, set_nav_range_offset_and_gain |-> Cpp17GainAndOffset,
                 contour_update |-> Cpp17Contour],
     cpp    |-> [set_nav_threshold |-> CppThreshold, set_nav_range_offset_and_gain |-> CppGainAndOffset,
                 contour_update |-> CppContour],
     csharp |-> [set_nav_threshold |-> CSharpThreshold, set_nav_range_offset_and_gain |-> CSharpGainAndOffset,
                 contour_update |-> CSharpContour],
     python |-> <<>>]

(***************************************************************************)
(* The C++17 Message.                                                      *)
(***************************************************************************)
NewMessage == [signed |-> TRUE, version |-> 1, type |-> 0, size |-> 0, payload |-> <<>>, has_protobuf |-> FALSE]

WithType(m, t) == [m EXCEPT !.type = t]

AppendBuffer(m, buffer) ==
    [m EXCEPT !.payload = @ \o buffer, !.size = Len(m.payload \o buffer), !.has_protobuf = TRUE]

\* The vector grows by the header's length; a buffer that is there moves to the end first.
Grown(m, header) == m.payload \o [i \in 1..Len(header) |-> << <<"zero">>, 1>>]
Shifted(m, header) ==
    IF m.has_protobuf
    THEN LET n == Len(Grown(m, header))
         IN  [i \in 1..n |-> IF i > n - m.size THEN m.payload[i - n + m.size] ELSE Grown(m, header)[i]]
    ELSE Grown(m, header)
AppendHeaderInPlace(m, header) ==       \* (the same without the move)
    [m EXCEPT !.payload = [i \in DOMAIN Grown(m, header) |->
                              IF i <= Len(header) THEN header[i] ELSE Grown(m, header)[i]],
              !.size = Len(Grown(m, header))]
AppendHeader(m, header) ==
    [m EXCEPT !.payload = [i \in DOMAIN Shifted(m, header) |->
                              IF i <= Len(header) THEN header[i] ELSE Shifted(m, header)[i]],
              !.size = Len(Shifted(m, header))]

Data(m) == [signed |-> m.signed, version |-> m.version, type |-> m.type, size |-> m.size, payload |-> m.payload]
Replace(m, data) == [m EXCEPT !.signed = data.signed, !.version = data.version, !.type = data.type,
                              !.size = data.size, !.payload = data.payload]
Relinquish(m) == [Data(m) EXCEPT !.signed = TRUE]

Cpp17Valid(m)  == m.signed /\ m.version = 1 /\ m.type <= 255 /\ m.size < LargestPayload
CppValid(w)    == w.signed /\ w.version = 1 /\ w.size <= MaxPayloadSize
CSharpValid(w) == w.signed

-----------------------------------------------------------------------------
VARIABLES sdk,       \* the implementation that builds the message
          kind,      \* and its kind
          message,   \* the C++17 Message being built
          headed,    \* its header has been added
          parts,     \* how many parts have been
          wire,      \* the message sent, or NotSent
          received,  \* what each implementation read, or NotRead
          sectors,   \* the blanking list: its sectors, in order
          answer,    \* what the last add() returned
          readBack   \* what a list of its own read from the list's bytes

messageVars == <<sdk, kind, message, headed, parts, wire, received, sectors, answer, readBack>>

NotSent  == [state |-> "not sent"]
NotRead  == [state |-> "not read"]
Rejected == [state |-> "rejected"]
Readers == {"cpp17", "cpp", "csharp", "python"}

MessageInit ==
    /\ sdk \in DOMAIN Sends
    /\ kind \in Sends[sdk]
    /\ message = NewMessage
    /\ headed = FALSE
    /\ parts = 0
    /\ wire = NotSent
    /\ received = [r \in Readers |-> NotRead]
    \* Blanking_sector_list { s1, ... } copies at most max_sectors.
    /\ sectors \in IF kind = "sector_blanking_update" THEN {<<>>, <<1, 2, 3>>} ELSE {<<>>}
    /\ answer = FALSE
    /\ readBack = NotRead

Building == wire = NotSent
BuildOn == UNCHANGED <<sdk, kind, wire, received, sectors, answer, readBack>>

SetType ==
    /\ Building /\ sdk = "cpp17" /\ message.type = 0
    /\ message' = WithType(message, Cpp17Type[kind])
    /\ UNCHANGED <<headed, parts>> /\ BuildOn

AddHeader ==
    /\ Building /\ sdk = "cpp17" /\ HasHeader(sdk, kind) /\ ~headed
    /\ message' = AppendHeader(message, HeaderBytes(LayoutIn[sdk][kind]))
    /\ headed' = TRUE
    /\ UNCHANGED parts /\ BuildOn

AddPart ==
    /\ Building /\ sdk = "cpp17" /\ kind \in Streamed /\ parts < MaxParts
    /\ message' = AppendBuffer(message, Part(kind, parts + 1))
    /\ parts' = parts + 1
    /\ UNCHANGED headed /\ BuildOn

\* The body of a request is appended whole.
AddBody ==
    /\ Building /\ sdk = "cpp17" /\ parts = 0
    /\ \/ kind \in DOMAIN BodyIn[sdk] /\ message' = AppendBuffer(message, BodyIn[sdk][kind])
       \/ kind = "sector_blanking_update" /\ message' = AppendBuffer(message, SectorsToVector(sectors))
    /\ parts' = 1
    /\ UNCHANGED headed /\ BuildOn

Send ==
    /\ Building /\ sdk = "cpp17" /\ message.type # 0
    /\ HasHeader(sdk, kind) => headed
    /\ kind \in DOMAIN BodyIn[sdk] \cup {"sector_blanking_update"} => parts = 1
    /\ wire' = Relinquish(message)
    /\ UNCHANGED <<sdk, kind, message, headed, parts, received, sectors, answer, readBack>>

(***************************************************************************)
(* The other implementations: the header's bytes, then all that follows.   *)
(***************************************************************************)
Composed(s, k, n) ==
    (IF HasHeader(s, k) THEN HeaderBytes(LayoutIn[s][k]) ELSE <<>>)
    \o (IF k \in Streamed THEN FlattenSeq([i \in 1..n |-> Part(k, i)]) ELSE <<>>)
    \o (IF k \in DOMAIN BodyIn[s] THEN BodyIn[s][k] ELSE <<>>)

CppMessage(k, n) ==
    [signed |-> TRUE, version |-> 1, type |-> CppType[k],
     size |-> Len(Composed("cpp", k, n)), payload |-> Composed("cpp", k, n)]

\* UpdateContourMap sends another type.
CSharpMessage(k, n) ==
    [signed |-> TRUE, version |-> 1,
     type |-> CSharpType[IF k = "contour_update" THEN "set_nav_range_offset_and_gain" ELSE k],
     size |-> Len(Composed("csharp", k, n)), payload |-> Composed("csharp", k, n)]

\* version is 0 until a message of the radar has been read.
PythonMessage(k, v) ==
    [signed |-> TRUE, version |-> v, type |-> PythonType[k],
     size |-> Len(Composed("python", k, 0)), payload |-> Composed("python", k, 0)]

SendComposed ==
    /\ Building
    /\ \E n \in IF kind \in Streamed THEN 0..MaxParts ELSE {0} :
        /\ \/ sdk = "cpp" /\ wire' = CppMessage(kind, n)
           \/ sdk = "csharp" /\ wire' = CSharpMessage(kind, n)
           \/ sdk = "python" /\ \E v \in {0, 1} : wire' = PythonMessage(kind, v)
        /\ parts' = n
    /\ UNCHANGED <<sdk, kind, message, headed, received, sectors, answer, readBack>>

(***************************************************************************)
(* Readers.  The times of FFT data are read as host integers by C++17, C++ *)
(* and Python.                                                             *)
(***************************************************************************)
Times == {"seconds", "split_seconds"}

ReadField(bytes, host) == IF host THEN HostValue(bytes) ELSE FromNetwork(bytes)
View(layout, payload, hostOrder) ==
    [f \in DOMAIN layout |-> ReadField(FieldOf(layout, f, payload), f \in hostOrder)]
HostOrder(k) == IF k = "fft_data" THEN Times ELSE {}

\* protobuf_begin() to protobuf_end(), which trusts the claimed size
ProtobufOfHeaderToo(layout, m) ==        \* (without the header's size)
    SubSeq(m.payload, 1, m.size)
Protobuf(layout, m) == SubSeq(m.payload, SizeOf(layout) + 1, SizeOf(layout) + m.size - SizeOf(layout))

\* handle_data() of tcp_radar_client: a header replaces an empty message, the payload is appended.
Reassembled(w) ==
    LET header == Replace(NewMessage, [w EXCEPT !.payload = <<>>])
    IN  IF ~Cpp17Valid(header) THEN Rejected
        ELSE Relinquish(IF w.size # 0 THEN AppendBuffer(header, w.payload) ELSE header)

Cpp17Reading(w) ==
    IF Reassembled(w) = Rejected THEN Rejected
    ELSE LET m == Replace([NewMessage EXCEPT !.signed = FALSE], Reassembled(w))
             layout == IF HasHeader("cpp17", kind) THEN LayoutIn["cpp17"][kind] ELSE <<>>
             buffer == Protobuf(layout, m)
         IN  [type |-> m.type, fields |-> View(layout, m.payload, HostOrder(kind)),
              buffer |-> IF kind = "navigation_data" THEN Cpp17Peaks(buffer) ELSE buffer]

\* The older handler of a configuration takes the header only.
CppReading(w) ==
    IF ~CppValid(w) THEN Rejected
    ELSE LET layout == LayoutIn["cpp"][kind]
         IN  [type |-> w.type, fields |-> View(layout, w.payload, HostOrder(kind)),
              buffer |-> CASE kind = "configuration"   -> <<>>
                           [] kind = "fft_data"        -> SubSeq(w.payload, SizeOf(layout) + 1, w.size)
                           [] kind = "navigation_data" -> CppPeaks(w.payload)]

CSharpReading(w) ==
    IF ~CSharpValid(w) THEN Rejected
    ELSE LET layout == LayoutIn["csharp"][kind]
             buffer == SubSeq(w.payload, SizeOf(layout) + 1, w.size)
         IN  [type |-> w.type, fields |-> [f \in DOMAIN layout |-> HostValue(Swap(FieldOf(layout, f, w.payload)))],
              buffer |-> IF kind = "navigation_data" THEN CSharpPeaks(buffer) ELSE buffer]

\* int(len(nav_data)/6) whole records
PythonPeaks(nav_data) ==
    [n \in 1..(Len(nav_data) \div PeakSize) |-> PeakAt(nav_data, n - 1)]

PythonReading(w) ==
    LET layout == LayoutIn["python"][kind]
    IN  [type |-> w.type, fields |-> View(layout, w.payload, HostOrder(kind)),
         buffer |-> CASE kind = "fft_data"        -> SubSeq(w.payload, 15, Len(w.payload))
                      [] kind = "navigation_data" -> PythonPeaks(SubSeq(w.payload, 11, Len(w.payload)))
                      [] OTHER                    -> <<>>]

\* What each reader has a handler for
Handles == [cpp17  |-> {"configuration", "fft_data", "navigation_data", "health", "navigation_configuration"},
            cpp    |-> {"configuration", "fft_data", "navigation_data"},
            csharp |-> {"configuration", "fft_data", "navigation_data"},
            python |-> {"configuration", "fft_data", "navigation_data", "navigation_configuration"}]

Read(r, reading) ==
    /\ wire # NotSent /\ received[r] = NotRead /\ kind \in Handles[r]
    /\ received' = [received EXCEPT ![r] = reading]
    /\ UNCHANGED <<sdk, kind, message, headed, parts, wire, sectors, answer, readBack>>

Cpp17Reads  == Read("cpp17", Cpp17Reading(wire))
CppReads    == Read("cpp", CppReading(wire))
CSharpReads == Read("csharp", CSharpReading(wire))
PythonReads == Read("python", PythonReading(wire))

(***************************************************************************)
(* The blanking list.  add(const Sector&) answers false even when it adds. *)
(***************************************************************************)
ListRests == UNCHANGED <<sdk, kind, message, headed, parts, wire, received>>

WithSector(list) == IF Len(list) >= MaxSectors THEN list ELSE Append(list, Len(list) + 1)

Listing == kind = "sector_blanking_update" /\ Building /\ parts = 0

AddSectorCopy ==
    /\ Listing
    /\ sectors' = WithSector(sectors)
    /\ answer' = FALSE
    /\ UNCHANGED readBack /\ ListRests

AddSectorMove ==
    /\ Listing
    /\ sectors' = WithSector(sectors)
    /\ answer' = (Len(sectors) < MaxSectors)
    /\ UNCHANGED readBack /\ ListRests

ReadSectors ==
    /\ kind = "sector_blanking_update" /\ wire # NotSent /\ readBack = NotRead
    /\ readBack' = IF FromVectorThrows(wire.payload) THEN Rejected ELSE [list |-> SectorsFromVector(wire.payload)]
    /\ UNCHANGED <<sectors, answer>> /\ ListRests

MessageNext ==
    \/ SetType \/ AddHeader \/ AddPart \/ AddBody \/ Send \/ SendComposed
    \/ Cpp17Reads \/ CppReads \/ CSharpReads \/ PythonReads
    \/ AddSectorCopy \/ AddSectorMove \/ ReadSectors

MessageSpec == MessageInit /\ [][MessageNext]_messageVars

-----------------------------------------------------------------------------

\* Whatever the order of the calls and the implementation, the message on the
\* wire is the header, in network order, then the parts as they were appended
\* ("The header is always inserted before any protocol buffer"), and its size
\* is theirs; the requests of the SDKs are the same bytes.
SentAsBuilt ==
    wire # NotSent =>
        /\ wire.signed /\ wire.size = Len(wire.payload)
        /\ wire.payload = IF kind = "sector_blanking_update" THEN SectorsToVector(sectors)
                          ELSE Composed("cpp17", kind, parts)

BufferRead(r) ==
    CASE kind = "navigation_data" ->
            [i \in 1..parts |-> [range |-> Value(<<"range", i>>, 4), power |-> Value(<<"power", i>>, 2)]]
      [] kind = "configuration" /\ r \in {"cpp", "python"} -> <<>>
      [] OTHER -> FlattenSeq([i \in 1..parts |-> Part(kind, i)])

\* Every reader gets the type, the fields, the data and the peaks that were
\* sent, from every sender: the times of FFT data too, which all but C# read
\* in the order of the host.  Only what is too long is rejected, by C++17
\* first.  A list of blanking sectors is read back as it was written if it has
\* a multiple of four, and is refused otherwise.
ReadAsSent ==
    /\ \A r \in Readers : received[r] \notin {NotRead, Rejected} =>
          /\ received[r].type = Cpp17Type[kind]
          /\ \A f \in DOMAIN received[r].fields :
                LET sent == Value(<<f>>, LayoutIn["cpp17"][kind][f][2])
                IN  received[r].fields[f] = IF kind = "fft_data" /\ f \in Times /\ r # "csharp"
                                            THEN Reverse(sent) ELSE sent
          /\ received[r].buffer = BufferRead(r)
    /\ received["cpp17"] = Rejected => wire.size >= LargestPayload
    /\ received["cpp"] = Rejected => wire.size > MaxPayloadSize /\ received["cpp17"] \in {NotRead, Rejected}
    /\ readBack # NotRead => (readBack = Rejected <=> Len(sectors) % 4 # 0)
    /\ readBack \notin {NotRead, Rejected} =>
          readBack.list = [i \in DOMAIN sectors |-> [start  |-> Value(<<"start", i>>, 4),
                                                     finish |-> Value(<<"finish", i>>, 4)]]

=============================================================================
