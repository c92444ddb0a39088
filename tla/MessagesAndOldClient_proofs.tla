--------------------- MODULE MessagesAndOldClient_proofs --------------------
(***************************************************************************)
(* Theorems about ColossusMessages, for parts and payloads of every size,  *)
(* messages of any number of parts and lists of any number of sectors:     *)
(* what the four implementations put on the wire, and what each of them    *)
(* reads from it.  Then those about OldRadarClient, the client of the      *)
(* older C++ SDK.  Neither needs fairness.                                 *)
(*                                                                         *)
(* The first part proves what the operators of MessageFormats compute      *)
(* (sequences run together, values converted, layouts packed), then that   *)
(* each reader undoes what was written, then the invariant MessageInv: the *)
(* Message, at every point of its building, is a header that may be there  *)
(* and the parts so far; what is on the wire is the whole of it; what was  *)
(* read is a reading of the wire.                                          *)
(***************************************************************************)
EXTENDS ColossusMessages, OldRadarClient, TLAPS, SequenceTheorems, WellFoundedInduction

-----------------------------------------------------------------------------
(* Induction, and what FlattenSeq() makes of sequences *)

\* A set of numbers that has 0, and with a number the next, has them all.  (The
\* library's induction is about operators; this is its fact about minimal elements.)
LEMMA NumberByNumber ==
    ASSUME NEW T, 0 \in T, \A n \in Nat : n \in T => n + 1 \in T
    PROVE  \A n \in Nat : n \in T
<1> DEFINE Outside == {n \in Nat : n \notin T}
           Less == {ss \in Nat \X Nat : ss[1] < ss[2]}
<1> SUFFICES ASSUME Outside # {} PROVE FALSE OBVIOUS
<1>1. IsWellFoundedOn(Less, Nat)
  BY NatLessThanWellFounded DEF OpToRel
<1>2. Outside \subseteq Nat OBVIOUS
<1> HIDE DEF Less, Outside
<1>3. PICK x \in Outside : \A y \in Outside : ~ (<<y, x>> \in Less)
  BY <1>1, <1>2, WFMin
<1>4. x \in Nat /\ x # 0 /\ x - 1 \in Nat
  BY <1>3 DEF Outside
<1>5. <<x - 1, x>> \in Less BY <1>4 DEF Less
<1>6. x - 1 \in T BY <1>3, <1>4, <1>5 DEF Outside
<1> QED BY <1>3, <1>4, <1>6 DEF Outside

\* A function on the numbers up to n is a sequence.
LEMMA FunctionIsSeq ==
    ASSUME NEW S, NEW n \in Nat, NEW s \in [1 .. n -> S]
    PROVE  s \in Seq(S) /\ Len(s) = n
<1>1. s \in Seq(S) BY SeqDef
<1>2. DOMAIN s = 1 .. Len(s) /\ Len(s) \in Nat BY <1>1, LenProperties
<1>3. DOMAIN s = 1 .. n OBVIOUS
<1> QED BY <1>1, <1>2, <1>3

Flattens(f, ss) == \A i \in 1 .. Len(ss) : f[i] = IF i = 1 THEN ss[i] ELSE f[i - 1] \o ss[i]

LEMMA FlattenDef ==
    ASSUME NEW S, NEW ss \in Seq(Seq(S)), Len(ss) # 0
    PROVE  \E f : Flattens(f, ss) /\ FlattenSeq(ss) = f[Len(ss)]
<1> DEFINE L == Len(ss)
           D(f, n) == [i \in 1 .. n |-> IF i = 1 THEN ss[i] ELSE f[i - 1] \o ss[i]]
           T == {n \in Nat : \E f : f = D(f, n)}
<1>0. L \in Nat BY LenProperties
<1>1. 0 \in T
  <2> DEFINE e == [i \in 1 .. 0 |-> 0]
  <2>1. e = D(e, 0) OBVIOUS
  <2> HIDE DEF e
  <2> QED BY <2>1
<1>2. ASSUME NEW n \in Nat, n \in T PROVE n + 1 \in T
  <2>1. PICK f : f = D(f, n) BY <1>2
  <2> DEFINE g == [i \in 1 .. n + 1 |->
                      IF i = n + 1 THEN IF i = 1 THEN ss[i] ELSE f[i - 1] \o ss[i] ELSE f[i]]
  <2>2. \A i \in 1 .. n : f[i] = IF i = 1 THEN ss[i] ELSE f[i - 1] \o ss[i]
    BY <2>1
  <2>3. \A i \in 1 .. n : i # 1 => i - 1 \in 1 .. n /\ i - 1 # n + 1 /\ i # n + 1
    OBVIOUS
  <2>4. n + 1 # 1 => n + 1 - 1 \in 1 .. n /\ n + 1 - 1 # n + 1
    OBVIOUS
  <2>5. \A i \in 1 .. n + 1 : g[i] = IF i = 1 THEN ss[i] ELSE g[i - 1] \o ss[i]
    <3> TAKE i \in 1 .. n + 1
    <3>1. CASE i = n + 1 BY <3>1, <2>4
    <3>2. CASE i \in 1 .. n BY <3>2, <2>2, <2>3
    <3> QED BY <3>1, <3>2
  <2>6. g = D(g, n + 1) BY <2>5
  <2>7. n + 1 \in Nat OBVIOUS
  <2> HIDE DEF g, D
  <2>8. \E h : h = D(h, n + 1) BY <2>6
  <2> QED BY <2>7, <2>8
<1> HIDE DEF T
<1>3. L \in T BY SMTT(90), <1>0, <1>1, <1>2, NumberByNumber
<1> DEFINE F == CHOOSE f : f = D(f, L)
<1>4. F = D(F, L) BY <1>3 DEF T
<1>5. FlattenSeq(ss) = F[L] BY DEF FlattenSeq
<1> HIDE DEF F
<1>6. Flattens(F, ss) BY <1>4 DEF Flattens
<1> QED BY <1>5, <1>6

LEMMA FlattensNext ==
    ASSUME NEW ss, NEW f, Flattens(f, ss), Len(ss) \in Nat, NEW n \in Nat, n + 1 \in 1 .. Len(ss)
    PROVE  /\ n = 0 => f[n + 1] = ss[n + 1]
           /\ n # 0 => n \in 1 .. Len(ss) /\ f[n + 1] = f[n] \o ss[n + 1]
<1> DEFINE m == n + 1
<1>1. m \in 1 .. Len(ss) /\ m - 1 = n OBVIOUS
<1>2. m = 1 <=> n = 0 OBVIOUS
<1>3. n # 0 => n \in 1 .. Len(ss) BY <1>1
<1> HIDE DEF m
<1>4. f[m] = IF m = 1 THEN ss[m] ELSE f[m - 1] \o ss[m] BY <1>1 DEF Flattens
<1>5. n = 0 => f[m] = ss[m] BY <1>2, <1>4
<1>6. n # 0 => f[m] = f[n] \o ss[m] BY <1>1, <1>2, <1>4
<1> QED BY <1>3, <1>5, <1>6 DEF m

\* Each of the sequences it runs through is one.
LEMMA FlattensType ==
    ASSUME NEW S, NEW ss \in Seq(Seq(S)), NEW f, Flattens(f, ss)
    PROVE  \A i \in 1 .. Len(ss) : f[i] \in Seq(S)
<1> DEFINE T == {n \in Nat : n \in 1 .. Len(ss) => f[n] \in Seq(S)}
<1>0. Len(ss) \in Nat BY LenProperties
<1>1. 0 \in T OBVIOUS
<1>2. ASSUME NEW n \in Nat, n \in T PROVE n + 1 \in T
  <2>1. SUFFICES ASSUME n + 1 \in 1 .. Len(ss) PROVE f[n + 1] \in Seq(S) OBVIOUS
  <2>2. ss[n + 1] \in Seq(S) BY <2>1, ElementOfSeq
  <2>3. CASE n = 0
    <3>1. f[n + 1] = ss[n + 1] BY ZenonT(90), <1>0, <2>1, <2>3, FlattensNext
    <3> QED BY <3>1, <2>2
  <2>4. CASE n # 0
    <3>1. n \in 1 .. Len(ss) /\ f[n + 1] = f[n] \o ss[n + 1] BY <1>0, <2>1, <2>4, FlattensNext
    <3>2. f[n] \in Seq(S) BY <1>2, <3>1
    <3> QED BY <3>1, <3>2, <2>2, ConcatProperties
  <2> QED BY <2>3, <2>4
<1>3. \A n \in Nat : n \in T
  <2> HIDE DEF T
  <2> QED BY <1>1, <1>2, NumberByNumber
<1> QED BY <1>3, <1>0

LEMMA FlattenType ==
    ASSUME NEW S, NEW ss \in Seq(Seq(S))
    PROVE  FlattenSeq(ss) \in Seq(S)
<1>0. Len(ss) \in Nat BY LenProperties
<1>1. CASE Len(ss) = 0
  <2>1. ss = << >> BY <1>1, EmptySeq
  <2>2. FlattenSeq(ss) = ss BY <1>1 DEF FlattenSeq
  <2> QED BY <2>1, <2>2, EmptySeq
<1>2. CASE Len(ss) # 0
  <2>1. PICK f : Flattens(f, ss) /\ FlattenSeq(ss) = f[Len(ss)] BY <1>2, FlattenDef
  <2>2. \A i \in 1 .. Len(ss) : f[i] \in Seq(S) BY <2>1, FlattensType
  <2> QED BY <1>0, <1>2, <2>1, <2>2
<1> QED BY <1>1, <1>2

\* A sequence more puts its elements at the end.
LEMMA FlattenLonger ==
    ASSUME NEW S, NEW ss \in Seq(Seq(S)), NEW tt \in Seq(Seq(S)),
           Len(tt) = Len(ss) + 1, \A i \in 1 .. Len(ss) : tt[i] = ss[i]
    PROVE  FlattenSeq(tt) = FlattenSeq(ss) \o tt[Len(tt)]
<1>0. Len(ss) \in Nat /\ Len(tt) \in Nat /\ Len(tt) # 0 BY LenProperties
<1>1. PICK g : Flattens(g, tt) /\ FlattenSeq(tt) = g[Len(tt)] BY <1>0, FlattenDef
<1>2. tt[Len(tt)] \in Seq(S) BY <1>0, ElementOfSeq
<1>3. CASE Len(ss) = 0
  <2>1. g[1] = tt[1] BY <1>1, <1>3 DEF Flattens
  <2>2. ss = << >> BY <1>3, EmptySeq
  <2>3. FlattenSeq(ss) = << >> BY <1>3, <2>2 DEF FlattenSeq
  <2> QED BY <1>1, <1>2, <1>3, <2>1, <2>3, ConcatEmptySeq
<1>4. CASE Len(ss) # 0
  <2>1. PICK f : Flattens(f, ss) /\ FlattenSeq(ss) = f[Len(ss)] BY <1>4, FlattenDef
  <2> DEFINE T == {n \in Nat : n \in 1 .. Len(ss) => f[n] = g[n]}
  <2>2. 0 \in T OBVIOUS
  <2>3. ASSUME NEW n \in Nat, n \in T PROVE n + 1 \in T
    <3>1. SUFFICES ASSUME n + 1 \in 1 .. Len(ss) PROVE f[n + 1] = g[n + 1] OBVIOUS
    <3>2. n + 1 \in 1 .. Len(tt) BY <1>0, <3>1
    <3>3. tt[n + 1] = ss[n + 1] BY <3>1
    <3>4. /\ n = 0 => f[n + 1] = ss[n + 1]
          /\ n # 0 => n \in 1 .. Len(ss) /\ f[n + 1] = f[n] \o ss[n + 1]
      BY <1>0, <2>1, <3>1, FlattensNext
    <3>5. /\ n = 0 => g[n + 1] = tt[n + 1]
          /\ n # 0 => n \in 1 .. Len(tt) /\ g[n + 1] = g[n] \o tt[n + 1]
      BY <1>0, <1>1, <3>2, FlattensNext
    <3>6. CASE n = 0 BY <3>3, <3>4, <3>5, <3>6
    <3>7. CASE n # 0
      <4>1. f[n] = g[n] BY <2>3, <3>4, <3>7
      <4> QED BY <4>1, <3>3, <3>4, <3>5, <3>7
    <3> QED BY <3>6, <3>7
  <2>4. \A n \in Nat : n \in T
    <3> HIDE DEF T
    <3> QED BY <2>2, <2>3, NumberByNumber
  <2>5. f[Len(ss)] = g[Len(ss)]
    <3>1. Len(ss) \in T BY <1>0, <2>4
    <3>2. Len(ss) \in 1 .. Len(ss) BY <1>0, <1>4
    <3> QED BY <3>1, <3>2
  <2>6. g[Len(tt)] = g[Len(ss)] \o tt[Len(tt)]
    <3> DEFINE n == Len(ss)
    <3>1. n \in Nat /\ n # 0 /\ Len(tt) = n + 1 BY <1>0, <1>4
    <3>2. Len(tt) \in Nat /\ n + 1 \in 1 .. Len(tt) BY <3>1
    <3> HIDE DEF n
    <3>3. g[n + 1] = g[n] \o tt[n + 1] BY <1>1, <3>1, <3>2, FlattensNext
    <3> QED BY <3>1, <3>3 DEF n
  <2> QED BY <1>1, <2>1, <2>5, <2>6
<1> QED BY <1>3, <1>4

\* With sequences of one width, an element is found by counting.
LEMMA FlattenAt ==
    ASSUME NEW S, NEW w \in {6, 8}, NEW ss \in Seq(Seq(S)),
           \A i \in 1 .. Len(ss) : Len(ss[i]) = w
    PROVE  /\ Len(FlattenSeq(ss)) = w * Len(ss)
           /\ \A i \in 1 .. Len(ss), j \in 1 .. w : FlattenSeq(ss)[w * (i - 1) + j] = ss[i][j]
<1>0. Len(ss) \in Nat BY LenProperties
<1>1. CASE Len(ss) = 0
  <2>1. FlattenSeq(ss) = ss BY <1>1 DEF FlattenSeq
  <2> QED BY <1>1, <2>1
<1>2. CASE Len(ss) # 0
  <2>1. PICK f : Flattens(f, ss) /\ FlattenSeq(ss) = f[Len(ss)] BY <1>2, FlattenDef
  <2>2. \A n \in 1 .. Len(ss) : f[n] \in Seq(S) BY <2>1, FlattensType
  <2> DEFINE At(n) == /\ Len(f[n]) = w * n
                      /\ \A i \in 1 .. n, j \in 1 .. w : f[n][w * (i - 1) + j] = ss[i][j]
             T == {n \in Nat : n \in 1 .. Len(ss) => At(n)}
  <2>3. 0 \in T OBVIOUS
  <2>4. ASSUME NEW n \in Nat, n \in T PROVE n + 1 \in T
    <3>1. SUFFICES ASSUME n + 1 \in 1 .. Len(ss) PROVE At(n + 1) OBVIOUS
    <3>2. ss[n + 1] \in Seq(S) /\ Len(ss[n + 1]) = w BY <3>1, ElementOfSeq
    <3>n. /\ n = 0 => f[n + 1] = ss[n + 1]
          /\ n # 0 => n \in 1 .. Len(ss) /\ f[n + 1] = f[n] \o ss[n + 1]
      <4> HIDE DEF At
      <4> QED BY <1>0, <2>1, <3>1, FlattensNext
    <3>3. CASE n = 0 BY <3>n, <3>2, <3>3
    <3>4. CASE n # 0
      <4>1. n \in 1 .. Len(ss) BY <3>n, <3>4
      <4>2. f[n + 1] = f[n] \o ss[n + 1] BY <3>n, <3>4
      <4>3. At(n) BY <2>4, <4>1
      <4>4. f[n] \in Seq(S) BY <2>2, <4>1
      <4>5. Len(f[n]) = w * n BY <4>3
      <4>c. /\ Len(f[n] \o ss[n + 1]) = Len(f[n]) + Len(ss[n + 1])
            /\ \A x \in 1 .. Len(f[n]) + Len(ss[n + 1]) :
                  (f[n] \o ss[n + 1])[x] = IF x <= Len(f[n]) THEN f[n][x] ELSE ss[n + 1][x - Len(f[n])]
        <5> HIDE DEF At
        <5>1. ss[n + 1] \in Seq(S) BY <3>2
        <5> QED BY ZenonT(90), <5>1, <4>4, ConcatProperties
      <4>6. Len(f[n + 1]) = w * n + w BY <3>2, <4>2, <4>5, <4>c
      <4>7. \A x \in 1 .. w * n + w : f[n + 1][x] = IF x <= w * n THEN f[n][x] ELSE ss[n + 1][x - w * n]
        BY <3>2, <4>2, <4>5, <4>c
      <4>8. ASSUME NEW i \in 1 .. n + 1, NEW j \in 1 .. w
            PROVE  f[n + 1][w * (i - 1) + j] = ss[i][j]
        <5> DEFINE x == w * (i - 1) + j
        <5>1. x \in 1 .. w * n + w OBVIOUS
        <5>2. CASE i = n + 1
          <6>1. ~ (x <= w * n) /\ x - w * n = j BY <5>2
          <6> QED BY <4>7, <5>1, <5>2, <6>1
        <5>3. CASE i \in 1 .. n
          <6>1. x <= w * n BY <5>3
          <6>2. f[n][x] = ss[i][j] BY <4>3, <5>3
          <6> HIDE DEF x
          <6>3. f[n + 1][x] = ss[i][j] BY <4>7, <5>1, <6>1, <6>2
          <6> QED BY <6>3 DEF x
        <5> QED BY <5>2, <5>3
      <4> QED BY <4>6, <4>8
    <3> QED BY <3>3, <3>4
  <2>5. \A n \in Nat : n \in T
    <3> HIDE DEF T
    <3> QED BY <2>3, <2>4, NumberByNumber
  <2>6. At(Len(ss)) BY <1>0, <1>2, <2>5
  <2> QED BY <2>1, <2>6
<1> QED BY <1>1, <1>2

-----------------------------------------------------------------------------
(* Values, and the conversions between networks and hosts *)

Word == {"azimuth_samples", "bin_size", "range_in_bins", "encoder_size", "rotation_speed", "packet_rate", "range_gain",
         "range_offset", "data_offset", "sweep_counter", "azimuth", "seconds", "split_seconds", "bins", "min_bin",
         "threshold", "max_peaks", "range", "power", "part", "gain", "offset", "contour", "start", "finish", "count", "zero"}
Name == {<<f>> : f \in Word} \cup (Word \X Nat)
Byte == Name \X Nat

LEMMA ValueType ==
    ASSUME NEW name \in Name, NEW w \in Nat
    PROVE  /\ Value(name, w) \in Seq(Byte)
           /\ Len(Value(name, w)) = w
           /\ \A k \in 1 .. w : Value(name, w)[k] = <<name, k>>
<1>1. Value(name, w) \in [1 .. w -> Byte] BY DEF Value, Byte
<1>2. \A k \in 1 .. w : Value(name, w)[k] = <<name, k>> BY DEF Value
<1> QED BY <1>1, <1>2, FunctionIsSeq

LEMMA ReverseType ==
    ASSUME NEW S, NEW s \in Seq(S)
    PROVE  /\ Reverse(s) \in Seq(S)
           /\ Len(Reverse(s)) = Len(s)
           /\ \A i \in 1 .. Len(s) : Reverse(s)[i] = s[Len(s) - i + 1]
<1>1. Len(s) \in Nat /\ s \in [1 .. Len(s) -> S] BY LenProperties
<1>2. \A i \in 1 .. Len(s) : Len(s) - i + 1 \in 1 .. Len(s) BY <1>1
<1>3. Reverse(s) \in [1 .. Len(s) -> S] BY <1>1, <1>2 DEF Reverse
<1>4. \A i \in 1 .. Len(s) : Reverse(s)[i] = s[Len(s) - i + 1] BY DEF Reverse
<1> QED BY <1>1, <1>3, <1>4, FunctionIsSeq

\* What one conversion does the next undoes.
LEMMA ReverseTwice ==
    ASSUME NEW S, NEW s \in Seq(S)
    PROVE  Reverse(Reverse(s)) = s
<1> DEFINE r == Reverse(s)
<1>0. Len(s) \in Nat BY LenProperties
<1>1. r \in Seq(S) /\ Len(r) = Len(s) /\ \A i \in 1 .. Len(s) : r[i] = s[Len(s) - i + 1]
  BY ReverseType
<1> HIDE DEF r
<1>2. Reverse(r) \in Seq(S) /\ Len(Reverse(r)) = Len(r)
      /\ \A i \in 1 .. Len(r) : Reverse(r)[i] = r[Len(r) - i + 1]
  BY <1>1, ReverseType
<1>3. ASSUME NEW i \in 1 .. Len(s) PROVE Reverse(r)[i] = s[i]
  <2>1. Len(s) - i + 1 \in 1 .. Len(s) /\ Len(s) - (Len(s) - i + 1) + 1 = i BY <1>0
  <2>2. Reverse(r)[i] = r[Len(s) - i + 1] BY <1>1, <1>2
  <2> QED BY <1>1, <2>1, <2>2
<1>4. Reverse(r) = s BY <1>1, <1>2, <1>3, SeqEqual
<1> QED BY <1>4 DEF r

LEMMA Conversions ==
    ASSUME NEW S, NEW s \in Seq(S)
    PROVE  ToNetwork(s) = s /\ FromNetwork(s) = s
BY ReverseTwice DEF ToNetwork, FromNetwork, HostMemory, HostValue

\* C#'s swap of two bytes, or of four, reverses them.
LEMMA SwapReverses ==
    ASSUME NEW S, NEW s \in Seq(S), Len(s) \in {2, 4}
    PROVE  Swap(s) = Reverse(s)
<1>1. Reverse(s) \in Seq(S) /\ Len(Reverse(s)) = Len(s)
      /\ \A i \in 1 .. Len(s) : Reverse(s)[i] = s[Len(s) - i + 1]
  BY ReverseType
<1>2. \A i \in 1 .. Len(s) : s[i] \in S BY ElementOfSeq
<1>3. CASE Len(s) = 2
  <2>1. Swap(s) = <<s[2], s[1]>> BY <1>3 DEF Swap, SwapUInt16
  <2>2. Swap(s) \in Seq(S) /\ Len(Swap(s)) = 2 BY <1>2, <1>3, <2>1
  <2>3. Reverse(s)[1] = s[2] /\ Reverse(s)[2] = s[1] BY <1>1, <1>3
  <2>4. \A i \in 1 .. 2 : Swap(s)[i] = Reverse(s)[i] BY <2>1, <2>3
  <2> QED BY <1>1, <1>3, <2>2, <2>4, SeqEqual
<1>4. CASE Len(s) = 4
  <2> DEFINE low == SubSeq(s, 3, 4)
             high == SubSeq(s, 1, 2)
  <2>1. low[1] = s[3] /\ low[2] = s[4] /\ high[1] = s[1] /\ high[2] = s[2]
    <3>1. /\ \A i \in 1 .. 4 - 3 + 1 : low[i] = s[3 + i - 1]
          /\ \A i \in 1 .. 2 - 1 + 1 : high[i] = s[1 + i - 1]
      <4>1. \A i \in 3 .. 4 : s[i] \in S BY <1>2, <1>4
      <4>2. \A i \in 1 .. 2 : s[i] \in S BY <1>2, <1>4
      <4>3. 1 \in Int /\ 2 \in Int /\ 3 \in Int /\ 4 \in Int OBVIOUS
      <4> QED BY <4>1, <4>2, <4>3, SubSeqProperties
    <3> QED BY <3>1
  <2> HIDE DEF low, high
  <2>2. Swap(s) = <<s[4], s[3]>> \o <<s[2], s[1]>>
    BY <1>4, <2>1 DEF Swap, SwapUInt32, SwapUInt16, low, high
  <2>3. <<s[4], s[3]>> \in Seq(S) /\ <<s[2], s[1]>> \in Seq(S) BY <1>2, <1>4
  <2> DEFINE p == <<s[4], s[3]>>
             q == <<s[2], s[1]>>
  <2>a. Len(p) = 2 /\ Len(q) = 2 /\ p[1] = s[4] /\ p[2] = s[3] /\ q[1] = s[2] /\ q[2] = s[1]
    OBVIOUS
  <2> HIDE DEF p, q
  <2>b. p \o q \in Seq(S) /\ Len(p \o q) = Len(p) + Len(q)
        /\ \A i \in 1 .. Len(p) + Len(q) : (p \o q)[i] = IF i <= Len(p) THEN p[i] ELSE q[i - Len(p)]
    BY <2>3, ConcatProperties DEF p, q
  <2>4. Swap(s) = p \o q BY <2>2 DEF p, q
  <2>5. \A i \in 1 .. 4 : (p \o q)[i] = Reverse(s)[i] BY <1>1, <1>4, <2>a, <2>b
  <2> QED BY SMTT(90), <1>1, <1>4, <2>a, <2>b, <2>4, <2>5, SeqEqual
<1> QED BY <1>3, <1>4

LEMMA SwapConversions ==
    ASSUME NEW S, NEW s \in Seq(S), Len(s) \in {2, 4}
    PROVE  Swap(HostMemory(s)) = s /\ HostValue(Swap(s)) = s
<1>1. Reverse(s) \in Seq(S) /\ Len(Reverse(s)) = Len(s) BY ReverseType
<1>2. Swap(Reverse(s)) = Reverse(Reverse(s)) BY <1>1, SwapReverses
<1> QED BY <1>2, SwapReverses, ReverseTwice DEF HostMemory, HostValue

-----------------------------------------------------------------------------
(* Layouts *)

\* A list of n fields places them at p: one after another, each with its width.
Places(fields, n, l, p) ==
    /\ n \in Nat \ {0} /\ DOMAIN fields = 1 .. n
    /\ \A i, j \in 1 .. n : fields[i][1] = fields[j][1] => i = j
    /\ \A i \in 1 .. n : fields[i][1] \in Word /\ fields[i][2] \in {2, 4}
    /\ p[1] = 0
    /\ \A i \in 1 .. n : i + 1 \in 1 .. n => p[i + 1] = p[i] + fields[i][2]
    /\ l = [f \in DOMAIN l |-> l[f]]
    /\ DOMAIN l = {fields[i][1] : i \in 1 .. n}
    /\ \A i \in 1 .. n : l[fields[i][1]] = <<p[i], fields[i][2]>>

LEMMA PackedIs ==
    ASSUME NEW fields, NEW n, NEW l, NEW p, Places(fields, n, l, p)
    PROVE  Packed(fields) = l
<1> DEFINE D(q, m) == [i \in 1 .. m |-> IF i = 1 THEN 0 ELSE q[i - 1] + fields[i - 1][2]]
           place == CHOOSE q : q = [i \in DOMAIN fields |-> IF i = 1 THEN 0 ELSE q[i - 1] + fields[i - 1][2]]
           Index(f) == CHOOSE i \in DOMAIN fields : fields[i][1] = f
           given == [i \in 1 .. n |-> p[i]]
<1>0. n \in Nat \ {0} /\ DOMAIN fields = 1 .. n BY DEF Places
<1>1. given = D(given, n)
  <2>1. \A i \in 1 .. n : given[i] = IF i = 1 THEN 0 ELSE given[i - 1] + fields[i - 1][2]
    <3> TAKE i \in 1 .. n
    <3>1. CASE i = 1 BY <1>0, <3>1 DEF Places
    <3>2. CASE i # 1
      <4> DEFINE j == i - 1
      <4>1. j \in 1 .. n /\ j + 1 = i BY <1>0, <3>2
      <4> HIDE DEF j
      <4>2. p[j + 1] = p[j] + fields[j][2] BY <4>1 DEF Places
      <4>3. given[i] = given[j] + fields[j][2] BY <4>1, <4>2
      <4> QED BY <4>3, <3>2 DEF j
    <3> QED BY <3>1, <3>2
  <2> QED BY <2>1
<1>2. place = D(place, n)
  <2>1. \A q : D(q, n) = [i \in DOMAIN fields |-> IF i = 1 THEN 0 ELSE q[i - 1] + fields[i - 1][2]]
    BY <1>0
  <2> HIDE DEF D, given
  <2>2. \E q : q = [i \in DOMAIN fields |-> IF i = 1 THEN 0 ELSE q[i - 1] + fields[i - 1][2]]
    BY <1>1, <2>1
  <2>3. place = [i \in DOMAIN fields |-> IF i = 1 THEN 0 ELSE place[i - 1] + fields[i - 1][2]]
    BY <2>2
  <2> HIDE DEF place
  <2> QED BY <2>1, <2>3
<1>3. Packed(fields) = [f \in {fields[i][1] : i \in DOMAIN fields} |-> <<place[Index(f)], fields[Index(f)][2]>>]
  BY DEF Packed
<1> HIDE DEF place
<1> DEFINE T == {m \in Nat : m \in 1 .. n => place[m] = p[m]}
<1>4. 0 \in T OBVIOUS
<1>5. ASSUME NEW m \in Nat, m \in T PROVE m + 1 \in T
  <2>1. SUFFICES ASSUME m + 1 \in 1 .. n PROVE place[m + 1] = p[m + 1] OBVIOUS
  <2> DEFINE x == m + 1
  <2>2. x \in 1 .. n /\ x - 1 = m /\ (x = 1 <=> m = 0) BY <2>1
  <2> HIDE DEF x
  <2>3. place[x] = IF x = 1 THEN 0 ELSE place[x - 1] + fields[x - 1][2] BY <1>2, <2>2
  <2>4. CASE m = 0
    <3>1. p[1] = 0 BY DEF Places
    <3> QED BY <2>2, <2>3, <2>4, <3>1 DEF x
  <2>5. CASE m # 0
    <3>1. m \in 1 .. n BY <1>0, <2>1, <2>5
    <3>2. p[m + 1] = p[m] + fields[m][2] BY <2>1, <3>1 DEF Places
    <3>3. place[m] = p[m] BY <1>5, <3>1
    <3> QED BY <2>2, <2>3, <2>5, <3>2, <3>3 DEF x
  <2> QED BY <2>4, <2>5
<1>6. \A m \in Nat : m \in T
  <2> HIDE DEF T
  <2> QED BY <1>4, <1>5, NumberByNumber
<1>7. \A i \in 1 .. n : place[i] = p[i] BY <1>0, <1>6
<1>8. ASSUME NEW i \in 1 .. n PROVE Index(fields[i][1]) = i
  BY <1>0 DEF Places
<1> HIDE DEF Index
<1>9. DOMAIN Packed(fields) = DOMAIN l BY <1>0, <1>3 DEF Places
<1>10. ASSUME NEW i \in 1 .. n PROVE Packed(fields)[fields[i][1]] = l[fields[i][1]]
  <2>1. Packed(fields)[fields[i][1]] = <<place[i], fields[i][2]>> BY <1>0, <1>3, <1>8
  <2>2. l[fields[i][1]] = <<p[i], fields[i][2]>> BY DEF Places
  <2> QED BY <1>7, <2>1, <2>2
<1>11. \A f \in DOMAIN l : Packed(fields)[f] = l[f] BY <1>10 DEF Places
<1> DEFINE P == Packed(fields)
<1>12. P = [f \in DOMAIN P |-> P[f]] BY <1>3
<1>13. l = [f \in DOMAIN l |-> l[f]] BY DEF Places
<1> HIDE DEF P
<1>14. P = l BY <1>9, <1>11, <1>12, <1>13 DEF P
<1> QED BY <1>14 DEF P

LEMMA MaxIs ==
    ASSUME NEW A \in SUBSET Nat, NEW m \in A, \A x \in A : x <= m
    PROVE  Max(A) = m
<1>1. m \in A /\ \A x \in A : m >= x OBVIOUS
<1>2. Max(A) \in A /\ \A x \in A : Max(A) >= x BY <1>1 DEF Max
<1>3. Max(A) \in Nat /\ m \in Nat BY <1>2
<1>4. Max(A) >= m /\ Max(A) <= m BY <1>2
<1> QED BY <1>3, <1>4

Within(l, f, b) == l[f][1] < b /\ b <= l[f][1] + l[f][2]

\* Fields of two or four bytes that cover the header, and do not overlap.
LayoutOK(l, size) ==
    /\ size \in Nat /\ SizeOf(l) = size
    /\ \A f \in DOMAIN l : /\ f \in Word /\ l[f][1] \in Nat /\ l[f][2] \in {2, 4}
                           /\ l[f][1] + l[f][2] <= size
    /\ \A f, g \in DOMAIN l, b \in Nat : Within(l, f, b) /\ Within(l, g, b) => f = g
    /\ \A b \in 1 .. size : \E f \in DOMAIN l : Within(l, f, b)

LEMMA PlacesOK ==
    ASSUME NEW fields, NEW n, NEW l, NEW p, Places(fields, n, l, p)
    PROVE  LayoutOK(l, p[n] + fields[n][2])
<1> DEFINE w == [i \in 1 .. n |-> fields[i][2]]
           size == p[n] + w[n]
<1>0. n \in Nat \ {0} /\ n \in 1 .. n BY DEF Places
<1>1. /\ p[1] = 0
      /\ \A i \in 1 .. n : w[i] \in {2, 4}
      /\ \A i \in 1 .. n : i + 1 \in 1 .. n => p[i + 1] = p[i] + w[i]
  BY DEF Places
<1>2. DOMAIN l = {fields[i][1] : i \in 1 .. n} BY DEF Places
<1>3. ASSUME NEW i \in 1 .. n
      PROVE  fields[i][1] \in Word /\ l[fields[i][1]][1] = p[i] /\ l[fields[i][1]][2] = w[i]
  BY DEF Places
<1>w. fields[n][2] = w[n] BY <1>0
<1> HIDE DEF w
<1> DEFINE U == {m \in Nat : m \in 1 .. n => p[m] \in Nat}
<1>a. 0 \in U OBVIOUS
<1>b. ASSUME NEW m \in Nat, m \in U PROVE m + 1 \in U
  <2>1. SUFFICES ASSUME m + 1 \in 1 .. n PROVE p[m + 1] \in Nat OBVIOUS
  <2>2. CASE m = 0 BY <1>1, <2>2
  <2>3. CASE m # 0
    <3>1. m \in 1 .. n BY <1>0, <2>1, <2>3
    <3>2. p[m + 1] = p[m] + w[m] /\ w[m] \in {2, 4} BY <1>1, <2>1, <3>1
    <3> QED BY <1>b, <3>1, <3>2
  <2> QED BY <2>2, <2>3
<1>c. \A m \in Nat : m \in U
  <2> HIDE DEF U
  <2> QED BY <1>a, <1>b, NumberByNumber
<1>8. \A i \in 1 .. n : p[i] \in Nat /\ w[i] \in {2, 4} BY <1>0, <1>1, <1>c
<1> HIDE DEF U
<1> DEFINE T == {m \in Nat : m \in 1 .. n =>
                    /\ \A i \in 1 .. m : i # m => p[i] + w[i] <= p[m]
                    /\ \A b \in 1 .. p[m] + w[m] : \E i \in 1 .. m : p[i] < b /\ b <= p[i] + w[i]}
<1>4. 0 \in T OBVIOUS
<1>5. ASSUME NEW m \in Nat, m \in T PROVE m + 1 \in T
  <2>1. SUFFICES ASSUME m + 1 \in 1 .. n
                 PROVE  /\ \A i \in 1 .. m + 1 : i # m + 1 => p[i] + w[i] <= p[m + 1]
                        /\ \A b \in 1 .. p[m + 1] + w[m + 1] :
                               \E i \in 1 .. m + 1 : p[i] < b /\ b <= p[i] + w[i]
    OBVIOUS
  <2>2. CASE m = 0
    <3>1. p[m + 1] = 0 /\ w[m + 1] \in Nat BY <1>1, <1>8, <2>1, <2>2
    <3> QED BY <2>2, <3>1
  <2>3. CASE m # 0
    <3>1. m \in 1 .. n BY <1>0, <2>1, <2>3
    <3>2. p[m + 1] = p[m] + w[m] /\ p[m] \in Nat /\ w[m] \in {2, 4} /\ w[m + 1] \in {2, 4}
      BY <1>1, <1>8, <2>1, <3>1
    <3>3. /\ \A i \in 1 .. m : i # m => p[i] + w[i] <= p[m]
          /\ \A b \in 1 .. p[m] + w[m] : \E i \in 1 .. m : p[i] < b /\ b <= p[i] + w[i]
      BY <1>5, <3>1
    <3>5. ASSUME NEW i \in 1 .. m PROVE p[i] + w[i] <= p[m + 1]
      <4>1. i \in 1 .. n BY <1>0, <3>1
      <4>2. p[i] \in Nat /\ w[i] \in {2, 4} BY <1>8, <4>1
      <4>3. CASE i = m BY <3>2, <4>3
      <4>4. CASE i # m BY <3>2, <3>3, <4>2, <4>4
      <4> QED BY <4>3, <4>4
    <3>6. ASSUME NEW b \in 1 .. p[m + 1] + w[m + 1]
          PROVE  \E i \in 1 .. m + 1 : p[i] < b /\ b <= p[i] + w[i]
      <4>1. CASE b <= p[m] + w[m]
        <5>1. b \in 1 .. p[m] + w[m] BY <3>2, <3>3, <4>1
        <5>2. PICK i \in 1 .. m : p[i] < b /\ b <= p[i] + w[i] BY <3>3, <5>1
        <5>3. i \in 1 .. m + 1 OBVIOUS
        <5> QED BY <5>2, <5>3
      <4>2. CASE ~ (b <= p[m] + w[m])
        <5>1. p[m + 1] < b /\ b <= p[m + 1] + w[m + 1] BY <3>2, <3>3, <4>2
        <5>2. m + 1 \in 1 .. m + 1 OBVIOUS
        <5> QED BY <5>1, <5>2
      <4> QED BY <4>1, <4>2
    <3> QED BY <3>5, <3>6
  <2> QED BY <2>2, <2>3
<1>6. \A m \in Nat : m \in T
  <2> HIDE DEF T
  <2> QED BY <1>4, <1>5, NumberByNumber
<1>7. \A m \in 1 .. n :
        /\ \A i \in 1 .. m : i # m => p[i] + w[i] <= p[m]
        /\ \A b \in 1 .. p[m] + w[m] : \E i \in 1 .. m : p[i] < b /\ b <= p[i] + w[i]
  BY <1>0, <1>6
<1> HIDE DEF T
<1>9. size \in Nat BY <1>0, <1>8
<1>10. ASSUME NEW i \in 1 .. n PROVE p[i] + w[i] <= size
  <2>1. CASE i = n BY <2>1, <1>8
  <2>2. CASE i # n BY <2>2, <1>0, <1>7, <1>8
  <2> QED BY <2>1, <2>2
<1>11. ASSUME NEW f \in DOMAIN l, NEW g \in DOMAIN l, NEW b \in Nat, Within(l, f, b), Within(l, g, b)
       PROVE  f = g
  <2>1. PICK i \in 1 .. n : f = fields[i][1] BY <1>2
  <2>2. PICK j \in 1 .. n : g = fields[j][1] BY <1>2
  <2>3. p[i] < b /\ b <= p[i] + w[i] /\ p[j] < b /\ b <= p[j] + w[j]
    BY <1>3, <1>11, <2>1, <2>2 DEF Within
  <2>4. ~ (i < j)
    <3> SUFFICES ASSUME i < j PROVE FALSE OBVIOUS
    <3>1. p[i] + w[i] <= p[j] BY <1>0, <1>7
    <3> QED BY <1>8, <2>3, <3>1
  <2>5. ~ (j < i)
    <3> SUFFICES ASSUME j < i PROVE FALSE OBVIOUS
    <3>1. p[j] + w[j] <= p[i] BY <1>0, <1>7
    <3> QED BY <1>8, <2>3, <3>1
  <2>6. i = j BY <2>4, <2>5, <1>0
  <2> QED BY <2>1, <2>2, <2>6
<1>12. ASSUME NEW b \in 1 .. size PROVE \E f \in DOMAIN l : Within(l, f, b)
  <2>1. PICK i \in 1 .. n : p[i] < b /\ b <= p[i] + w[i] BY <1>0, <1>7
  <2>2. fields[i][1] \in DOMAIN l /\ Within(l, fields[i][1], b) BY <1>2, <1>3, <2>1 DEF Within
  <2> QED BY <2>2
<1>13. \A f \in DOMAIN l : /\ f \in Word /\ l[f][1] \in Nat /\ l[f][2] \in {2, 4}
                           /\ l[f][1] + l[f][2] <= size
  <2> TAKE f \in DOMAIN l
  <2>1. PICK i \in 1 .. n : f = fields[i][1] BY <1>2
  <2> QED BY <1>3, <1>8, <1>10, <2>1
<1>14. SizeOf(l) = size
  <2> DEFINE ends == {0} \cup {l[f][1] + l[f][2] : f \in DOMAIN l}
  <2>1. ends \in SUBSET Nat BY <1>13
  <2>2. size \in ends
    <3>1. fields[n][1] \in DOMAIN l /\ l[fields[n][1]][1] = p[n] /\ l[fields[n][1]][2] = w[n]
      BY <1>0, <1>2, <1>3
    <3> QED BY <3>1
  <2>3. \A x \in ends : x <= size BY <1>9, <1>13
  <2>4. SizeOf(l) = Max(ends) BY DEF SizeOf
  <2> HIDE DEF ends, size
  <2> QED BY <2>1, <2>2, <2>3, <2>4, MaxIs
<1> HIDE DEF size
<1>15. LayoutOK(l, size) BY <1>9, <1>11, <1>12, <1>13, <1>14 DEF LayoutOK
<1> QED BY <1>15, <1>w DEF size

LEMMA HeaderType ==
    ASSUME NEW l, NEW size, LayoutOK(l, size)
    PROVE  /\ HeaderBytes(l) \in Seq(Byte)
           /\ Len(HeaderBytes(l)) = size
           /\ \A f \in DOMAIN l, k \in Nat : k \in 1 .. l[f][2] => HeaderBytes(l)[l[f][1] + k] = << <<f>>, k>>
<1> DEFINE H == HeaderBytes(l)
           Field(b) == CHOOSE g \in DOMAIN l : Within(l, g, b)
<1>1. size \in Nat BY DEF LayoutOK
<1>2. \A f \in DOMAIN l : f \in Word /\ l[f][1] \in Nat /\ l[f][2] \in {2, 4} /\ l[f][1] + l[f][2] <= size
  BY DEF LayoutOK
<1>3. \A b \in 1 .. size : Field(b) \in DOMAIN l /\ Within(l, Field(b), b)
  BY DEF LayoutOK
<1>4. H = [b \in 1 .. size |-> ToNetwork(Value(<<Field(b)>>, l[Field(b)][2]))[b - l[Field(b)][1]]]
  BY DEF HeaderBytes, LayoutOK, Within
<1>5. \A f \in DOMAIN l, b \in 1 .. size : Within(l, f, b) => Field(b) = f
  BY <1>1, <1>3 DEF LayoutOK
<1>6. ASSUME NEW f \in DOMAIN l, NEW b \in 1 .. size, Within(l, f, b)
      PROVE  H[b] = << <<f>>, b - l[f][1]>> /\ H[b] \in Byte
  <2>1. Field(b) = f BY <1>5, <1>6
  <2>2. <<f>> \in Name /\ l[f][2] \in Nat BY <1>2 DEF Name
  <2>3. b - l[f][1] \in 1 .. l[f][2] BY <1>2, <1>6 DEF Within
  <2> HIDE DEF Field
  <2>4. Value(<<f>>, l[f][2]) \in Seq(Byte) BY <2>2, ValueType
  <2>5. ToNetwork(Value(<<f>>, l[f][2])) = Value(<<f>>, l[f][2]) BY <2>4, Conversions
  <2>6. H[b] = Value(<<f>>, l[f][2])[b - l[f][1]] BY <1>4, <2>1, <2>5
  <2>7. H[b] = << <<f>>, b - l[f][1]>> BY <2>2, <2>3, <2>6, ValueType
  <2> QED BY <2>2, <2>3, <2>7 DEF Byte
<1>7. H \in [1 .. size -> Byte]
  <2>1. \A b \in 1 .. size : H[b] \in Byte BY <1>3, <1>6
  <2> HIDE DEF H, Field
  <2> QED BY <1>4, <2>1
<1>8. ASSUME NEW f \in DOMAIN l, NEW k \in Nat, k \in 1 .. l[f][2]
      PROVE  H[l[f][1] + k] = << <<f>>, k>>
  <2> DEFINE b == l[f][1] + k
  <2>1. b \in 1 .. size /\ Within(l, f, b) /\ b - l[f][1] = k BY <1>1, <1>2, <1>8 DEF Within
  <2> HIDE DEF b, H
  <2> QED BY <1>6, <2>1 DEF b
<1> HIDE DEF H
<1>9. H \in Seq(Byte) /\ Len(H) = size BY <1>1, <1>7, FunctionIsSeq
<1> QED BY <1>8, <1>9 DEF H

\* A slice is what its elements say it is.
LEMMA SliceIs ==
    ASSUME NEW S, NEW s \in Seq(S), NEW v \in Seq(S), NEW from \in Nat, NEW w \in Nat, Len(v) = w,
           from + w <= Len(s), \A j \in 1 .. w : s[from + j] = v[j]
    PROVE  SubSeq(s, from + 1, from + w) = v
<1> DEFINE a == from + 1
           b == from + w
           t == SubSeq(s, a, b)
<1>0. Len(s) \in Nat BY LenProperties
<1>1. a \in Int /\ b \in Int /\ \A i \in a .. b : i \in 1 .. Len(s) BY <1>0
<1>2. \A i \in a .. b : s[i] \in S BY <1>1, ElementOfSeq
<1>3. b - a + 1 = w /\ (~ (a <= b) => w = 0) /\ \A j \in 1 .. w : a + j - 1 = from + j OBVIOUS
<1> HIDE DEF a, b
<1>4. t \in Seq(S) /\ Len(t) = (IF a <= b THEN b - a + 1 ELSE 0)
      /\ \A j \in 1 .. b - a + 1 : t[j] = s[a + j - 1]
  BY <1>1, <1>2, SubSeqProperties
<1> HIDE DEF t
<1>5. Len(t) = w /\ \A j \in 1 .. w : t[j] = s[from + j] BY <1>3, <1>4
<1>6. t = v BY <1>4, <1>5, SeqEqual
<1> QED BY <1>6 DEF t, a, b

\* Whatever follows a header, its fields are read as they were set.
LEMMA FieldRead ==
    ASSUME NEW l, NEW size, LayoutOK(l, size), NEW rest \in Seq(Byte), NEW m, NEW f \in DOMAIN l, m[f] = l[f]
    PROVE  /\ FieldOf(m, f, HeaderBytes(l) \o rest) = Value(<<f>>, l[f][2])
           /\ Value(<<f>>, l[f][2]) \in Seq(Byte)
           /\ Len(Value(<<f>>, l[f][2])) = l[f][2]
           /\ l[f][2] \in {2, 4}
<1> DEFINE H == HeaderBytes(l)
           p == l[f][1]
           w == l[f][2]
           v == Value(<<f>>, w)
           all == H \o rest
<1>1. f \in Word /\ p \in Nat /\ w \in {2, 4} /\ p + w <= size /\ size \in Nat BY DEF LayoutOK
<1>2. v \in Seq(Byte) /\ Len(v) = w /\ \A k \in 1 .. w : v[k] = << <<f>>, k>>
  <2>1. <<f>> \in Name BY <1>1 DEF Name
  <2>2. w \in Nat BY <1>1
  <2> HIDE DEF w
  <2> QED BY <2>1, <2>2, ValueType
<1>3. H \in Seq(Byte) /\ Len(H) = size /\ \A k \in 1 .. w : H[p + k] = << <<f>>, k>>
  BY <1>1, HeaderType
<1>4. Len(rest) \in Nat BY LenProperties
<1> HIDE DEF H, v
<1>5. all \in Seq(Byte) /\ Len(all) = size + Len(rest)
      /\ \A i \in 1 .. size + Len(rest) : all[i] = IF i <= size THEN H[i] ELSE rest[i - size]
  BY <1>3, ConcatProperties
<1> HIDE DEF all
<1>6. p + w <= Len(all) BY <1>1, <1>4, <1>5
<1>7. \A k \in 1 .. w : all[p + k] = v[k]
  <2>1. \A k \in 1 .. w : p + k \in 1 .. size + Len(rest) /\ p + k <= size BY SMTT(90), <1>1, <1>4
  <2> QED BY <1>2, <1>3, <1>5, <2>1
<1> DEFINE s == SubSeq(all, p + 1, p + w)
<1>11. s = v
  <2>1. p \in Nat /\ w \in Nat BY <1>1
  <2> HIDE DEF p, w
  <2> QED BY <1>2, <1>5, <1>6, <1>7, <2>1, SliceIs
<1> HIDE DEF s, p, w
<1>12. FieldOf(m, f, H \o rest) = s BY DEF FieldOf, s, all, p, w
<1> QED BY <1>1, <1>2, <1>11, <1>12 DEF H, p, w, v

\* What the C++ structures pack is what C# and Python state place by place.
LEMMA ConfigurationLayout ==
    Cpp17Configuration = CSharpConfiguration /\ LayoutOK(CSharpConfiguration, 20)
<1> DEFINE fields == << <<"azimuth_samples", 2>>, <<"bin_size", 2>>, <<"range_in_bins", 2>>, <<"encoder_size", 2>>,
                        <<"rotation_speed", 2>>, <<"packet_rate", 2>>, <<"range_gain", 4>>, <<"range_offset", 4>> >>
           p == << 0, 2, 4, 6, 8, 10, 12, 16 >>
           l == CSharpConfiguration
<1>1. /\ DOMAIN fields = 1 .. 8
      /\ fields[1][1] = "azimuth_samples" /\ fields[1][2] = 2 /\ p[1] = 0
      /\ fields[2][1] = "bin_size" /\ fields[2][2] = 2 /\ p[2] = 2
      /\ fields[3][1] = "range_in_bins" /\ fields[3][2] = 2 /\ p[3] = 4
      /\ fields[4][1] = "encoder_size" /\ fields[4][2] = 2 /\ p[4] = 6
      /\ fields[5][1] = "rotation_speed" /\ fields[5][2] = 2 /\ p[5] = 8
      /\ fields[6][1] = "packet_rate" /\ fields[6][2] = 2 /\ p[6] = 10
      /\ fields[7][1] = "range_gain" /\ fields[7][2] = 4 /\ p[7] = 12
      /\ fields[8][1] = "range_offset" /\ fields[8][2] = 4 /\ p[8] = 16
  OBVIOUS
<1>2. /\ l = [f \in DOMAIN l |-> l[f]]
      /\ DOMAIN l = {"azimuth_samples", "bin_size", "range_in_bins", "encoder_size", "rotation_speed", "packet_rate",
                     "range_gain", "range_offset"}
      /\ l["azimuth_samples"] = <<0, 2>>
      /\ l["bin_size"] = <<2, 2>>
      /\ l["range_in_bins"] = <<4, 2>>
      /\ l["encoder_size"] = <<6, 2>>
      /\ l["rotation_speed"] = <<8, 2>>
      /\ l["packet_rate"] = <<10, 2>>
      /\ l["range_gain"] = <<12, 4>>
      /\ l["range_offset"] = <<16, 4>>
  BY DEF CSharpConfiguration
<1>3. Cpp17Configuration = Packed(fields) BY DEF Cpp17Configuration
<1> HIDE DEF fields, p, l
<1>4. \A i \in 1 .. 8 : fields[i][1] \in Word /\ fields[i][2] \in {2, 4} BY <1>1 DEF Word
<1>5. \A i, j \in 1 .. 8 : fields[i][1] = fields[j][1] => i = j BY <1>1
<1>6. \A i \in 1 .. 8 : i + 1 \in 1 .. 8 => p[i + 1] = p[i] + fields[i][2]
  <2>1. \A i \in 1 .. 7 : p[i + 1] = p[i] + fields[i][2]
    <3> TAKE i \in 1 .. 7
    <3>1. CASE i = 1 BY <1>1, <3>1
    <3>2. CASE i = 2 BY <1>1, <3>2
    <3>3. CASE i = 3 BY <1>1, <3>3
    <3>4. CASE i = 4 BY <1>1, <3>4
    <3>5. CASE i = 5 BY <1>1, <3>5
    <3>6. CASE i = 6 BY <1>1, <3>6
    <3>7. CASE i = 7 BY <1>1, <3>7
    <3> QED BY <3>1, <3>2, <3>3, <3>4, <3>5, <3>6, <3>7
  <2> QED BY <2>1
<1>7. DOMAIN l = {fields[i][1] : i \in 1 .. 8} BY <1>1, <1>2
<1>8. \A i \in 1 .. 8 : l[fields[i][1]] = <<p[i], fields[i][2]>> BY SMTT(90), <1>1, <1>2
<1>9. Places(fields, 8, l, p) BY <1>1, <1>2, <1>4, <1>5, <1>6, <1>7, <1>8 DEF Places
<1>10. Packed(fields) = l BY <1>9, PackedIs
<1>11. LayoutOK(l, p[8] + fields[8][2]) BY <1>9, PlacesOK
<1>12. p[8] + fields[8][2] = 20 BY <1>1
<1> QED BY <1>3, <1>10, <1>11, <1>12 DEF l

LEMMA FftDataLayout ==
    Cpp17FftData = CSharpFftData /\ LayoutOK(CSharpFftData, 14)
<1> DEFINE fields == << <<"data_offset", 2>>, <<"sweep_counter", 2>>, <<"azimuth", 2>>,
                        <<"seconds", 4>>, <<"split_seconds", 4>> >>
           p == << 0, 2, 4, 6, 10 >>
           l == CSharpFftData
<1>1. /\ DOMAIN fields = 1 .. 5
      /\ fields[1][1] = "data_offset" /\ fields[1][2] = 2 /\ p[1] = 0
      /\ fields[2][1] = "sweep_counter" /\ fields[2][2] = 2 /\ p[2] = 2
      /\ fields[3][1] = "azimuth" /\ fields[3][2] = 2 /\ p[3] = 4
      /\ fields[4][1] = "seconds" /\ fields[4][2] = 4 /\ p[4] = 6
      /\ fields[5][1] = "split_seconds" /\ fields[5][2] = 4 /\ p[5] = 10
  OBVIOUS
<1>2. /\ l = [f \in DOMAIN l |-> l[f]]
      /\ DOMAIN l = {"data_offset", "sweep_counter", "azimuth", "seconds", "split_seconds"}
      /\ l["data_offset"] = <<0, 2>>
      /\ l["sweep_counter"] = <<2, 2>>
      /\ l["azimuth"] = <<4, 2>>
      /\ l["seconds"] = <<6, 4>>
      /\ l["split_seconds"] = <<10, 4>>
  BY DEF CSharpFftData
<1>3. Cpp17FftData = Packed(fields) BY DEF Cpp17FftData
<1> HIDE DEF fields, p, l
<1>4. \A i \in 1 .. 5 : fields[i][1] \in Word /\ fields[i][2] \in {2, 4} BY <1>1 DEF Word
<1>5. \A i, j \in 1 .. 5 : fields[i][1] = fields[j][1] => i = j BY <1>1
<1>6. \A i \in 1 .. 5 : i + 1 \in 1 .. 5 => p[i + 1] = p[i] + fields[i][2]
  <2>1. \A i \in 1 .. 4 : p[i + 1] = p[i] + fields[i][2]
    <3> TAKE i \in 1 .. 4
    <3>1. CASE i = 1 BY <1>1, <3>1
    <3>2. CASE i = 2 BY <1>1, <3>2
    <3>3. CASE i = 3 BY <1>1, <3>3
    <3>4. CASE i = 4 BY <1>1, <3>4
    <3> QED BY <3>1, <3>2, <3>3, <3>4
  <2> QED BY <2>1
<1>7. DOMAIN l = {fields[i][1] : i \in 1 .. 5} BY <1>1, <1>2
<1>8. \A i \in 1 .. 5 : l[fields[i][1]] = <<p[i], fields[i][2]>> BY <1>1, <1>2
<1>9. Places(fields, 5, l, p) BY <1>1, <1>2, <1>4, <1>5, <1>6, <1>7, <1>8 DEF Places
<1>10. Packed(fields) = l BY <1>9, PackedIs
<1>11. LayoutOK(l, p[5] + fields[5][2]) BY <1>9, PlacesOK
<1>12. p[5] + fields[5][2] = 14 BY <1>1
<1> QED BY <1>3, <1>10, <1>11, <1>12 DEF l

LEMMA NavigationDataLayout ==
    Cpp17NavigationData = CSharpNavigationData /\ LayoutOK(CSharpNavigationData, 10)
<1> DEFINE fields == << <<"azimuth", 2>>, <<"seconds", 4>>, <<"split_seconds", 4>> >>
           p == << 0, 2, 6 >>
           l == CSharpNavigationData
<1>1. /\ DOMAIN fields = 1 .. 3
      /\ fields[1][1] = "azimuth" /\ fields[1][2] = 2 /\ p[1] = 0
      /\ fields[2][1] = "seconds" /\ fields[2][2] = 4 /\ p[2] = 2
      /\ fields[3][1] = "split_seconds" /\ fields[3][2] = 4 /\ p[3] = 6
  OBVIOUS
<1>2. /\ l = [f \in DOMAIN l |-> l[f]]
      /\ DOMAIN l = {"azimuth", "seconds", "split_seconds"}
      /\ l["azimuth"] = <<0, 2>>
      /\ l["seconds"] = <<2, 4>>
      /\ l["split_seconds"] = <<6, 4>>
  BY DEF CSharpNavigationData
<1>3. Cpp17NavigationData = Packed(fields) BY DEF Cpp17NavigationData
<1> HIDE DEF fields, p, l
<1>4. \A i \in 1 .. 3 : fields[i][1] \in Word /\ fields[i][2] \in {2, 4} BY <1>1 DEF Word
<1>5. \A i, j \in 1 .. 3 : fields[i][1] = fields[j][1] => i = j BY <1>1
<1>6. \A i \in 1 .. 3 : i + 1 \in 1 .. 3 => p[i + 1] = p[i] + fields[i][2]
  <2>1. \A i \in 1 .. 2 : p[i + 1] = p[i] + fields[i][2]
    <3> TAKE i \in 1 .. 2
    <3>1. CASE i = 1 BY <1>1, <3>1
    <3>2. CASE i = 2 BY <1>1, <3>2
    <3> QED BY <3>1, <3>2
  <2> QED BY <2>1
<1>7. DOMAIN l = {fields[i][1] : i \in 1 .. 3} BY <1>1, <1>2
<1>8. \A i \in 1 .. 3 : l[fields[i][1]] = <<p[i], fields[i][2]>> BY <1>1, <1>2
<1>9. Places(fields, 3, l, p) BY <1>1, <1>2, <1>4, <1>5, <1>6, <1>7, <1>8 DEF Places
<1>10. Packed(fields) = l BY <1>9, PackedIs
<1>11. LayoutOK(l, p[3] + fields[3][2]) BY <1>9, PlacesOK
<1>12. p[3] + fields[3][2] = 10 BY <1>1
<1> QED BY <1>3, <1>10, <1>11, <1>12 DEF l

LEMMA NavigationConfigLayout ==
    Cpp17NavigationConfig = PythonNavigationConfig /\ LayoutOK(PythonNavigationConfig, 12)
<1> DEFINE fields == << <<"bins", 2>>, <<"min_bin", 2>>, <<"threshold", 4>>, <<"max_peaks", 4>> >>
           p == << 0, 2, 4, 8 >>
           l == PythonNavigationConfig
<1>1. /\ DOMAIN fields = 1 .. 4
      /\ fields[1][1] = "bins" /\ fields[1][2] = 2 /\ p[1] = 0
      /\ fields[2][1] = "min_bin" /\ fields[2][2] = 2 /\ p[2] = 2
      /\ fields[3][1] = "threshold" /\ fields[3][2] = 4 /\ p[3] = 4
      /\ fields[4][1] = "max_peaks" /\ fields[4][2] = 4 /\ p[4] = 8
  OBVIOUS
<1>2. /\ l = [f \in DOMAIN l |-> l[f]]
      /\ DOMAIN l = {"bins", "min_bin", "threshold", "max_peaks"}
      /\ l["bins"] = <<0, 2>>
      /\ l["min_bin"] = <<2, 2>>
      /\ l["threshold"] = <<4, 4>>
      /\ l["max_peaks"] = <<8, 4>>
  BY DEF PythonNavigationConfig
<1>3. Cpp17NavigationConfig = Packed(fields) BY DEF Cpp17NavigationConfig
<1> HIDE DEF fields, p, l
<1>4. \A i \in 1 .. 4 : fields[i][1] \in Word /\ fields[i][2] \in {2, 4} BY <1>1 DEF Word
<1>5. \A i, j \in 1 .. 4 : fields[i][1] = fields[j][1] => i = j BY <1>1
<1>6. \A i \in 1 .. 4 : i + 1 \in 1 .. 4 => p[i + 1] = p[i] + fields[i][2]
  <2>1. \A i \in 1 .. 3 : p[i + 1] = p[i] + fields[i][2]
    <3> TAKE i \in 1 .. 3
    <3>1. CASE i = 1 BY <1>1, <3>1
    <3>2. CASE i = 2 BY <1>1, <3>2
    <3>3. CASE i = 3 BY <1>1, <3>3
    <3> QED BY <3>1, <3>2, <3>3
  <2> QED BY <2>1
<1>7. DOMAIN l = {fields[i][1] : i \in 1 .. 4} BY <1>1, <1>2
<1>8. \A i \in 1 .. 4 : l[fields[i][1]] = <<p[i], fields[i][2]>> BY <1>1, <1>2
<1>9. Places(fields, 4, l, p) BY <1>1, <1>2, <1>4, <1>5, <1>6, <1>7, <1>8 DEF Places
<1>10. Packed(fields) = l BY <1>9, PackedIs
<1>11. LayoutOK(l, p[4] + fields[4][2]) BY <1>9, PlacesOK
<1>12. p[4] + fields[4][2] = 12 BY <1>1
<1> QED BY <1>3, <1>10, <1>11, <1>12 DEF l

LEMMA OtherLayouts ==
    /\ CppConfiguration = Cpp17Configuration /\ CppFftData = Cpp17FftData /\ CppNavigationData = Cpp17NavigationData
    /\ \A f \in DOMAIN PythonConfiguration : f \in DOMAIN CSharpConfiguration /\ PythonConfiguration[f] = CSharpConfiguration[f]
    /\ \A f \in DOMAIN PythonFftData : f \in DOMAIN CSharpFftData /\ PythonFftData[f] = CSharpFftData[f]
    /\ PythonNavigationData = CSharpNavigationData
<1>1. CppConfiguration = Cpp17Configuration BY DEF CppConfiguration, Cpp17Configuration
<1>2. CppFftData = Cpp17FftData BY DEF CppFftData, Cpp17FftData
<1>3. CppNavigationData = Cpp17NavigationData BY DEF CppNavigationData, Cpp17NavigationData
<1>4. \A f \in DOMAIN PythonConfiguration : f \in DOMAIN CSharpConfiguration /\ PythonConfiguration[f] = CSharpConfiguration[f]
  BY DEF PythonConfiguration, CSharpConfiguration
<1>5. \A f \in DOMAIN PythonFftData : f \in DOMAIN CSharpFftData /\ PythonFftData[f] = CSharpFftData[f]
  BY DEF PythonFftData, CSharpFftData
<1>6. PythonNavigationData = CSharpNavigationData BY DEF PythonNavigationData, CSharpNavigationData
<1> QED BY <1>1, <1>2, <1>3, <1>4, <1>5, <1>6

-----------------------------------------------------------------------------
(* Parts and peaks *)

LEMMA PartType ==
    ASSUME NEW k, NEW i \in Nat
    PROVE  /\ Part(k, i) \in Seq(Byte)
           /\ k = "navigation_data" =>
                 /\ Len(Part(k, i)) = 6
                 /\ \A j \in 1 .. 4 : Part(k, i)[j] = << <<"range", i>>, j>>
                 /\ \A j \in 1 .. 2 : Part(k, i)[4 + j] = << <<"power", i>>, j>>
<1> DEFINE r == Value(<<"range", i>>, 4)
           p == Value(<<"power", i>>, 2)
<1>1. <<"range", i>> \in Name /\ <<"power", i>> \in Name /\ <<"part", i>> \in Name BY DEF Name, Word
<1>2. Value(<<"part", i>>, PartSize) \in Seq(Byte) BY <1>1, LimitsAssumption, ValueType
<1>3. r \in Seq(Byte) /\ Len(r) = 4 /\ \A j \in 1 .. 4 : r[j] = << <<"range", i>>, j>>
  BY <1>1, ValueType
<1>4. p \in Seq(Byte) /\ Len(p) = 2 /\ \A j \in 1 .. 2 : p[j] = << <<"power", i>>, j>>
  BY <1>1, ValueType
<1> HIDE DEF r, p
<1> DEFINE c == r \o p
<1>5. /\ c \in Seq(Byte) /\ Len(c) = Len(r) + Len(p)
      /\ \A j \in 1 .. Len(r) + Len(p) : c[j] = IF j <= Len(r) THEN r[j] ELSE p[j - Len(r)]
  BY <1>3, <1>4, ConcatProperties
<1> HIDE DEF c
<1>6. Len(c) = 6 /\ \A j \in 1 .. 6 : c[j] = IF j <= 4 THEN r[j] ELSE p[j - 4]
  BY <1>3, <1>4, <1>5
<1>7. \A j \in 1 .. 4 : c[j] = r[j] BY <1>6
<1>8. \A j \in 1 .. 2 : c[4 + j] = p[j]
  <2> TAKE j \in 1 .. 2
  <2> DEFINE x == 4 + j
  <2>1. x \in 1 .. 6 /\ ~ (x <= 4) /\ x - 4 = j OBVIOUS
  <2> HIDE DEF x
  <2>2. c[x] = p[j] BY <1>6, <2>1
  <2> QED BY <2>2 DEF x
<1>9. k = "navigation_data" => Part(k, i) = c BY DEF Part, r, p, c
<1>10. k # "navigation_data" => Part(k, i) = Value(<<"part", i>>, PartSize) BY DEF Part
<1> QED BY ZenonT(90), <1>2, <1>3, <1>4, <1>5, <1>6, <1>7, <1>8, <1>9, <1>10

\* What the first n parts make, as the operators of the model write it
Stream(k, n) == FlattenSeq([i \in 1 .. n |-> Part(k, i)])

LEMMA PartsType ==
    ASSUME NEW k, NEW n \in Nat
    PROVE  /\ [i \in 1 .. n |-> Part(k, i)] \in Seq(Seq(Byte))
           /\ Len([i \in 1 .. n |-> Part(k, i)]) = n
<1> DEFINE ss == [i \in 1 .. n |-> Part(k, i)]
<1>1. \A i \in 1 .. n : Part(k, i) \in Seq(Byte) BY PartType
<1>2. ss \in [1 .. n -> Seq(Byte)] BY <1>1
<1> HIDE DEF ss
<1>3. ss \in Seq(Seq(Byte)) /\ Len(ss) = n BY <1>2, FunctionIsSeq
<1> QED BY <1>3 DEF ss

LEMMA StreamType ==
    ASSUME NEW k, NEW n \in Nat
    PROVE  Stream(k, n) \in Seq(Byte)
<1> DEFINE ss == [i \in 1 .. n |-> Part(k, i)]
<1>1. ss \in Seq(Seq(Byte)) BY PartsType
<1>2. Stream(k, n) = FlattenSeq(ss) BY DEF Stream
<1> HIDE DEF ss
<1> QED BY <1>1, <1>2, FlattenType

LEMMA StreamNone ==
    ASSUME NEW k
    PROVE  Stream(k, 0) = << >>
<1> DEFINE ss == [i \in 1 .. 0 |-> Part(k, i)]
<1>1. ss \in Seq(Seq(Byte)) /\ Len(ss) = 0 BY PartsType
<1>2. Stream(k, 0) = FlattenSeq(ss) BY DEF Stream
<1> HIDE DEF ss
<1>3. ss = << >> BY <1>1, EmptySeq
<1>4. FlattenSeq(ss) = ss BY <1>1 DEF FlattenSeq
<1> QED BY <1>2, <1>3, <1>4

LEMMA StreamNext ==
    ASSUME NEW k, NEW n \in Nat
    PROVE  Stream(k, n + 1) = Stream(k, n) \o Part(k, n + 1)
<1> DEFINE m == n + 1
           ss == [i \in 1 .. n |-> Part(k, i)]
           tt == [i \in 1 .. m |-> Part(k, i)]
<1>0. m \in Nat /\ m \in 1 .. m OBVIOUS
<1>1. ss \in Seq(Seq(Byte)) /\ Len(ss) = n BY PartsType
<1>2. tt \in Seq(Seq(Byte)) /\ Len(tt) = m
  <2> HIDE DEF m
  <2> QED BY <1>0, PartsType
<1>3. \A i \in 1 .. n : tt[i] = ss[i] OBVIOUS
<1>4. tt[m] = Part(k, m) BY <1>0
<1>5. Stream(k, n) = FlattenSeq(ss) /\ Stream(k, m) = FlattenSeq(tt) BY DEF Stream
<1> HIDE DEF ss, tt
<1>6. Len(tt) = Len(ss) + 1 /\ \A i \in 1 .. Len(ss) : tt[i] = ss[i] BY <1>1, <1>2, <1>3
<1>7. FlattenSeq(tt) = FlattenSeq(ss) \o tt[Len(tt)] BY <1>1, <1>2, <1>6, FlattenLonger
<1> QED BY <1>2, <1>4, <1>5, <1>7

PeaksSent(n) == [i \in 1 .. n |-> [range |-> Value(<<"range", i>>, 4), power |-> Value(<<"power", i>>, 2)]]

\* The peaks of navigation data are found where they were put.
LEMMA PeaksFound ==
    ASSUME NEW n \in Nat
    PROVE  /\ Stream("navigation_data", n) \in Seq(Byte)
           /\ Len(Stream("navigation_data", n)) = 6 * n
           /\ Len(Stream("navigation_data", n)) \div PeakSize = n
           /\ \A i \in 1 .. n :
                 PeakAt(Stream("navigation_data", n), i - 1)
                    = [range |-> Value(<<"range", i>>, 4), power |-> Value(<<"power", i>>, 2)]
<1> DEFINE k == "navigation_data"
           ss == [i \in 1 .. n |-> Part(k, i)]
           all == Stream(k, n)
<1>1. ss \in Seq(Seq(Byte)) /\ Len(ss) = n BY PartsType
<1>2. all \in Seq(Byte) BY StreamType
<1>3. \A i \in 1 .. n : ss[i] = Part(k, i) OBVIOUS
<1>4. \A i \in 1 .. n : Len(ss[i]) = 6 BY <1>3, PartType
<1>5. all = FlattenSeq(ss) BY DEF Stream
<1> HIDE DEF ss
<1>6. /\ Len(FlattenSeq(ss)) = 6 * Len(ss)
      /\ \A i \in 1 .. Len(ss), j \in 1 .. 6 : FlattenSeq(ss)[6 * (i - 1) + j] = ss[i][j]
  <2>1. \A i \in 1 .. Len(ss) : Len(ss[i]) = 6 BY <1>1, <1>4
  <2>2. 6 \in {6, 8} OBVIOUS
  <2> QED BY ZenonT(90), <1>1, <2>1, <2>2, FlattenAt
<1> HIDE DEF all
<1>7. Len(all) = 6 * n /\ \A i \in 1 .. n, j \in 1 .. 6 : all[6 * (i - 1) + j] = Part(k, i)[j]
  BY ZenonT(90), <1>1, <1>3, <1>5, <1>6
<1>8. (6 * n) \div PeakSize = n BY DEF PeakSize
<1>9. ASSUME NEW i \in 1 .. n
      PROVE  PeakAt(all, i - 1) = [range |-> Value(<<"range", i>>, 4), power |-> Value(<<"power", i>>, 2)]
  <2> DEFINE r == Value(<<"range", i>>, 4)
             p == Value(<<"power", i>>, 2)
             a == 6 * (i - 1)
             b == a + 4
  <2>0. i \in Nat BY <1>9
  <2>1. <<"range", i>> \in Name /\ <<"power", i>> \in Name BY <2>0 DEF Name, Word
  <2>2. r \in Seq(Byte) /\ Len(r) = 4 /\ \A j \in 1 .. 4 : r[j] = << <<"range", i>>, j>>
    BY <2>1, ValueType
  <2>3. p \in Seq(Byte) /\ Len(p) = 2 /\ \A j \in 1 .. 2 : p[j] = << <<"power", i>>, j>>
    BY <2>1, ValueType
  <2>4. a \in Nat /\ b \in Nat /\ a + 4 <= Len(all) /\ b + 2 <= Len(all) BY <1>7
  <2>5. \A j \in 1 .. 4 : all[a + j] = r[j]
    <3>1. \A j \in 1 .. 4 : all[a + j] = Part(k, i)[j] BY SMTT(90), <1>7
    <3> HIDE DEF a, r
    <3> QED BY ZenonT(90), <2>0, <2>2, <3>1, PartType
  <2>6. \A j \in 1 .. 2 : all[b + j] = p[j]
    <3> TAKE j \in 1 .. 2
    <3>1. 4 + j \in 1 .. 6 /\ b + j = a + (4 + j) OBVIOUS
    <3>2. all[a + (4 + j)] = Part(k, i)[4 + j] BY <1>7, <3>1
    <3>3. Part(k, i)[4 + j] = << <<"power", i>>, j>> BY SMTT(90), <2>0, PartType
    <3> HIDE DEF a, b, p
    <3> QED BY <2>3, <3>1, <3>2, <3>3
  <2>7. b + 1 = a + 5 /\ b + 2 = a + 6 /\ (i - 1) * PeakSize = a BY DEF PeakSize
  <2> HIDE DEF a, b, r, p
  <2>8. SubSeq(all, a + 1, a + 4) = r
    <3>1. 4 \in Nat OBVIOUS
    <3> QED BY <1>2, <2>2, <2>4, <2>5, <3>1, SliceIs
  <2>9. SubSeq(all, b + 1, b + 2) = p
    <3>1. 2 \in Nat OBVIOUS
    <3> QED BY <1>2, <2>3, <2>4, <2>6, <3>1, SliceIs
  <2> QED BY <2>7, <2>8, <2>9 DEF PeakAt, r, p
<1> QED BY <1>2, <1>7, <1>8, <1>9 DEF all

-----------------------------------------------------------------------------
(* Blanking sectors *)

LEMMA SectorType ==
    ASSUME NEW i \in Nat
    PROVE  /\ SectorBytes(i) \in Seq(Byte) /\ Len(SectorBytes(i)) = 8
           /\ \A j \in 1 .. 4 : SectorBytes(i)[j] = << <<"start", i>>, j>>
           /\ \A j \in 1 .. 4 : SectorBytes(i)[4 + j] = << <<"finish", i>>, j>>
<1> DEFINE s == Value(<<"start", i>>, 4)
           f == Value(<<"finish", i>>, 4)
           c == s \o f
<1>1. <<"start", i>> \in Name /\ <<"finish", i>> \in Name BY DEF Name, Word
<1>2. s \in Seq(Byte) /\ Len(s) = 4 /\ \A j \in 1 .. 4 : s[j] = << <<"start", i>>, j>>
  BY <1>1, ValueType
<1>3. f \in Seq(Byte) /\ Len(f) = 4 /\ \A j \in 1 .. 4 : f[j] = << <<"finish", i>>, j>>
  BY <1>1, ValueType
<1>4. SectorBytes(i) = ToNetwork(s) \o ToNetwork(f) BY DEF SectorBytes
<1> HIDE DEF s, f
<1>5. SectorBytes(i) = c
  <2>1. ToNetwork(s) = s /\ ToNetwork(f) = f BY <1>2, <1>3, Conversions
  <2> QED BY <1>4, <2>1
<1>6. /\ c \in Seq(Byte) /\ Len(c) = Len(s) + Len(f)
      /\ \A j \in 1 .. Len(s) + Len(f) : c[j] = IF j <= Len(s) THEN s[j] ELSE f[j - Len(s)]
  BY <1>2, <1>3, ConcatProperties
<1> HIDE DEF c
<1>7. Len(c) = 8 /\ \A j \in 1 .. 8 : c[j] = IF j <= 4 THEN s[j] ELSE f[j - 4]
  BY <1>2, <1>3, <1>6
<1>8. \A j \in 1 .. 4 : c[j] = s[j] BY <1>7
<1>9. \A j \in 1 .. 4 : c[4 + j] = f[j]
  <2> TAKE j \in 1 .. 4
  <2> DEFINE x == 4 + j
  <2>1. x \in 1 .. 8 /\ ~ (x <= 4) /\ x - 4 = j OBVIOUS
  <2> HIDE DEF x
  <2>2. c[x] = f[j] BY <1>7, <2>1
  <2> QED BY <2>2 DEF x
<1> QED BY <1>2, <1>3, <1>5, <1>6, <1>7, <1>8, <1>9

\* The sectors of a list are numbered as they were added.
Numbered(list) == list \in Seq(Nat) /\ \A i \in 1 .. Len(list) : list[i] = i

\* The list's bytes: the count, then eight of each sector.
LEMMA VectorOfSectors ==
    ASSUME NEW list, Numbered(list)
    PROVE  /\ SectorsToVector(list) \in Seq(Byte)
           /\ Len(SectorsToVector(list)) = 8 * Len(list) + 1
           /\ SectorsToVector(list)[1] = << <<"count">>, Len(list)>>
           /\ \A i \in 1 .. Len(list), j \in 1 .. 8 :
                 SectorsToVector(list)[8 * (i - 1) + j + 1] = SectorBytes(i)[j]
<1> DEFINE n == Len(list)
           ss == [i \in DOMAIN list |-> SectorBytes(list[i])]
           count == << << <<"count">>, n>> >>
           body == FlattenSeq(ss)
           all == count \o body
<1>1. n \in Nat /\ DOMAIN list = 1 .. n BY LenProperties DEF Numbered
<1>2. \A i \in 1 .. n : ss[i] = SectorBytes(i) BY <1>1 DEF Numbered
<1>3. \A i \in 1 .. n : SectorBytes(i) \in Seq(Byte) /\ Len(SectorBytes(i)) = 8
  BY <1>1, SectorType
<1>4. ss \in [1 .. n -> Seq(Byte)] BY <1>1, <1>2, <1>3
<1> HIDE DEF ss
<1>5. ss \in Seq(Seq(Byte)) /\ Len(ss) = n BY <1>1, <1>4, FunctionIsSeq
<1>6. body \in Seq(Byte) BY <1>5, FlattenType
<1>7. /\ Len(body) = 8 * Len(ss)
      /\ \A i \in 1 .. Len(ss), j \in 1 .. 8 : body[8 * (i - 1) + j] = ss[i][j]
  <2>1. \A i \in 1 .. Len(ss) : Len(ss[i]) = 8 BY <1>2, <1>3, <1>5
  <2>2. 8 \in {6, 8} OBVIOUS
  <2> QED BY ZenonT(90), <1>5, <2>1, <2>2, FlattenAt
<1>8. count \in Seq(Byte) /\ Len(count) = 1 /\ count[1] = << <<"count">>, n>>
  <2>1. << <<"count">>, n>> \in Byte BY <1>1 DEF Byte, Name, Word
  <2> QED BY <2>1
<1>9. SectorsToVector(list) = all BY DEF SectorsToVector, ss
<1> HIDE DEF body, count, n
<1>10. /\ all \in Seq(Byte) /\ Len(all) = Len(count) + Len(body)
       /\ \A x \in 1 .. Len(count) + Len(body) : all[x] = IF x <= Len(count) THEN count[x] ELSE body[x - Len(count)]
  BY <1>6, <1>8, ConcatProperties
<1> HIDE DEF all
<1>11. Len(body) = 8 * n /\ \A i \in 1 .. n, j \in 1 .. 8 : body[8 * (i - 1) + j] = SectorBytes(i)[j]
  BY ZenonT(90), <1>2, <1>5, <1>7
<1>12. Len(all) = 8 * n + 1 /\ \A x \in 1 .. 8 * n + 1 : all[x] = IF x <= 1 THEN count[x] ELSE body[x - 1]
  BY <1>1, <1>8, <1>10, <1>11
<1>13. all[1] = << <<"count">>, n>> BY <1>1, <1>8, <1>12
<1>14. ASSUME NEW i \in 1 .. n, NEW j \in 1 .. 8 PROVE all[8 * (i - 1) + j + 1] = SectorBytes(i)[j]
  <2> DEFINE y == 8 * (i - 1) + j
             x == y + 1
  <2>1. x \in 1 .. 8 * n + 1 /\ ~ (x <= 1) /\ x - 1 = y BY <1>1
  <2>2. body[y] = SectorBytes(i)[j] BY <1>11
  <2> HIDE DEF x, y
  <2>3. all[x] = SectorBytes(i)[j] BY <1>12, <2>1, <2>2
  <2> QED BY <2>3 DEF x, y
<1> QED BY <1>9, <1>10, <1>12, <1>13, <1>14 DEF n

SectorsSent(list) == [i \in DOMAIN list |-> [start |-> Value(<<"start", i>>, 4), finish |-> Value(<<"finish", i>>, 4)]]

LEMMA SectorsFound ==
    ASSUME NEW list, Numbered(list)
    PROVE  /\ FromVectorThrows(SectorsToVector(list)) <=> Len(list) % 4 # 0
           /\ SectorsFromVector(SectorsToVector(list)) = SectorsSent(list)
<1> DEFINE n == Len(list)
           all == SectorsToVector(list)
<1>1. n \in Nat /\ DOMAIN list = 1 .. n BY LenProperties DEF Numbered
<1>2. /\ all \in Seq(Byte) /\ Len(all) = 8 * n + 1 /\ all[1] = << <<"count">>, n>>
      /\ \A i \in 1 .. n, j \in 1 .. 8 : all[8 * (i - 1) + j + 1] = SectorBytes(i)[j]
  BY VectorOfSectors
<1> HIDE DEF all, n
<1>3. NumSectors(all) = n
  <2>1. (8 * n) \div 8 = n /\ Len(all) - 1 = 8 * n BY <1>1, <1>2
  <2>2. NumSectors(all) = (Len(all) - 1) \div 8 BY DEF NumSectors
  <2> QED BY <2>1, <2>2
<1>4. FromVectorThrows(all) <=> n % 4 # 0 BY <1>2, <1>3 DEF FromVectorThrows
<1>5. ASSUME NEW i \in 1 .. n
      PROVE  [start  |-> FromNetwork(SubSeq(all, 8 * i - 6, 8 * i - 3)),
              finish |-> FromNetwork(SubSeq(all, 8 * i - 2, 8 * i + 1))]
             = [start |-> Value(<<"start", i>>, 4), finish |-> Value(<<"finish", i>>, 4)]
  <2> DEFINE s == Value(<<"start", i>>, 4)
             f == Value(<<"finish", i>>, 4)
             a == 8 * (i - 1) + 1
             b == a + 4
  <2>0. i \in Nat BY <1>5, <1>1
  <2>1. <<"start", i>> \in Name /\ <<"finish", i>> \in Name BY <2>0 DEF Name, Word
  <2>2. s \in Seq(Byte) /\ Len(s) = 4 /\ \A j \in 1 .. 4 : s[j] = << <<"start", i>>, j>>
    BY <2>1, ValueType
  <2>3. f \in Seq(Byte) /\ Len(f) = 4 /\ \A j \in 1 .. 4 : f[j] = << <<"finish", i>>, j>>
    BY <2>1, ValueType
  <2>4. a \in Nat /\ b \in Nat /\ a + 4 <= Len(all) /\ b + 4 <= Len(all) BY <1>1, <1>2
  <2>5. \A j \in 1 .. 4 : all[a + j] = s[j]
    <3> TAKE j \in 1 .. 4
    <3>1. 8 * (i - 1) + j + 1 = a + j /\ j \in 1 .. 8 OBVIOUS
    <3>2. all[8 * (i - 1) + j + 1] = SectorBytes(i)[j] BY <1>2, <3>1
    <3> HIDE DEF a, s
    <3> QED BY <2>0, <2>2, <3>1, <3>2, SectorType
  <2>6. \A j \in 1 .. 4 : all[b + j] = f[j]
    <3> TAKE j \in 1 .. 4
    <3> DEFINE x == 4 + j
    <3>1. 8 * (i - 1) + x + 1 = b + j /\ x \in 1 .. 8 OBVIOUS
    <3>2. SectorBytes(i)[x] = << <<"finish", i>>, j>> BY <2>0, SectorType
    <3> HIDE DEF b, f, x
    <3>3. all[8 * (i - 1) + x + 1] = SectorBytes(i)[x] BY <1>2, <3>1
    <3> QED BY <2>3, <3>1, <3>2, <3>3
  <2>7. a + 1 = 8 * i - 6 /\ a + 4 = 8 * i - 3 /\ b + 1 = 8 * i - 2 /\ b + 4 = 8 * i + 1 BY <1>1
  <2> HIDE DEF a, b, s, f
  <2>8. SubSeq(all, a + 1, a + 4) = s
    <3>1. 4 \in Nat OBVIOUS
    <3> QED BY ZenonT(90), <1>2, <2>2, <2>4, <2>5, <3>1, SliceIs
  <2>9. SubSeq(all, b + 1, b + 4) = f
    <3>1. 4 \in Nat OBVIOUS
    <3> QED BY ZenonT(90), <1>2, <2>3, <2>4, <2>6, <3>1, SliceIs
  <2>10. FromNetwork(s) = s /\ FromNetwork(f) = f BY <2>2, <2>3, Conversions
  <2> QED BY <2>7, <2>8, <2>9, <2>10 DEF s, f
<1>6. SectorsFromVector(all) = SectorsSent(list)
  BY <1>1, <1>3, <1>5 DEF SectorsFromVector, SectorsSent
<1> QED BY <1>4, <1>6 DEF all, n

-----------------------------------------------------------------------------
(* The Message of C++17, with payload p; b: has_protobuf *)

WireFields == {"signed", "version", "type", "size", "payload"}

IsMessage(m, t, p, b) ==
    /\ DOMAIN m = WireFields \cup {"has_protobuf"}
    /\ m.signed = TRUE /\ m.version = 1 /\ m.type = t /\ m.size = Len(p) /\ m.payload = p
    /\ m.has_protobuf = b

IsOnWire(w, v, t, p) ==
    /\ DOMAIN w = WireFields
    /\ w.signed = TRUE /\ w.version = v /\ w.type = t /\ w.size = Len(p) /\ w.payload = p

LEMMA NewMessageIs == IsMessage(NewMessage, 0, << >>, FALSE)
BY DEF IsMessage, NewMessage, WireFields

LEMMA MessageCalls ==
    ASSUME NEW m, NEW t, NEW p, NEW b, IsMessage(m, t, p, b)
    PROVE  /\ \A u : IsMessage(WithType(m, u), u, p, b)
           /\ \A x : IsMessage(AppendBuffer(m, x), t, p \o x, TRUE)
           /\ IsOnWire(Relinquish(m), 1, t, p)
<1>1. \A u : IsMessage(WithType(m, u), u, p, b) BY DEF IsMessage, WithType, WireFields
<1>2. \A x : IsMessage(AppendBuffer(m, x), t, p \o x, TRUE) BY DEF IsMessage, AppendBuffer, WireFields
<1>3. IsOnWire(Relinquish(m), 1, t, p) BY DEF IsMessage, Data, Relinquish, IsOnWire, WireFields
<1> QED BY <1>1, <1>2, <1>3

\* A header goes before the buffers that are there.
LEMMA HeaderFirst ==
    ASSUME NEW m, NEW t, NEW p \in Seq(Byte), NEW b \in BOOLEAN, IsMessage(m, t, p, b),
           b = FALSE => p = << >>, NEW h \in Seq(Byte)
    PROVE  IsMessage(AppendHeader(m, h), t, h \o p, b)
<1> DEFINE zeros == [i \in 1 .. Len(h) |-> << <<"zero">>, 1>>]
           grown == p \o zeros
           shifted == Shifted(m, h)
           set == [i \in DOMAIN shifted |-> IF i <= Len(h) THEN h[i] ELSE shifted[i]]
           all == h \o p
<1>1. m.payload = p /\ m.size = Len(p) /\ m.has_protobuf = b BY DEF IsMessage
<1>2. Len(h) \in Nat /\ Len(p) \in Nat /\ h \in [1 .. Len(h) -> Byte] /\ p \in [1 .. Len(p) -> Byte]
  BY LenProperties
<1>3. zeros \in Seq(Byte) /\ Len(zeros) = Len(h)
  <2>1. << <<"zero">>, 1>> \in Byte BY DEF Byte, Name, Word
  <2>2. zeros \in [1 .. Len(h) -> Byte] BY <2>1
  <2> HIDE DEF zeros
  <2> QED BY <1>2, <2>2, FunctionIsSeq
<1>4. Grown(m, h) = grown BY <1>1 DEF Grown
<1> HIDE DEF zeros
<1>5. grown \in Seq(Byte) /\ Len(grown) = Len(p) + Len(h)
  <2>1. p \o zeros \in Seq(Byte) /\ Len(p \o zeros) = Len(p) + Len(zeros) BY <1>3, ConcatProperties
  <2> QED BY <1>3, <2>1
<1>6. DOMAIN grown = 1 .. Len(p) + Len(h) BY <1>5, LenProperties
<1> HIDE DEF grown
<1>7. all \in Seq(Byte) /\ Len(all) = Len(h) + Len(p)
      /\ \A i \in 1 .. Len(h) + Len(p) : all[i] = IF i <= Len(h) THEN h[i] ELSE p[i - Len(h)]
  BY ConcatProperties
<1> HIDE DEF all
<1>8. DOMAIN shifted = 1 .. Len(p) + Len(h) /\ \A i \in 1 .. Len(p) + Len(h) : i > Len(h) => shifted[i] = p[i - Len(h)]
  <2>1. CASE b = TRUE
    <3>1. shifted = [i \in 1 .. Len(p) + Len(h) |->
                        IF i > Len(p) + Len(h) - Len(p) THEN p[i - (Len(p) + Len(h)) + Len(p)] ELSE grown[i]]
      BY <1>1, <1>4, <1>5, <2>1 DEF Shifted
    <3>2. \A i \in 1 .. Len(p) + Len(h) :
             /\ i > Len(p) + Len(h) - Len(p) <=> i > Len(h)
             /\ i - (Len(p) + Len(h)) + Len(p) = i - Len(h)
      BY <1>2
    <3> HIDE DEF shifted
    <3>3. DOMAIN shifted = 1 .. Len(p) + Len(h) BY <3>1
    <3>4. \A i \in 1 .. Len(p) + Len(h) : i > Len(h) => shifted[i] = p[i - Len(h)] BY <3>1, <3>2
    <3> QED BY <3>3, <3>4
  <2>2. CASE b = FALSE
    <3>1. shifted = grown BY <1>1, <1>4, <2>2 DEF Shifted
    <3>2. Len(p) = 0 BY <2>2
    <3> HIDE DEF shifted
    <3>3. \A i \in 1 .. Len(p) + Len(h) : ~ (i > Len(h)) BY <1>2, <3>2
    <3> QED BY <1>6, <3>1, <3>3
  <2> QED BY <2>1, <2>2
<1> HIDE DEF shifted
<1>9. \A i \in 1 .. Len(h) + Len(p) : set[i] = all[i] BY <1>2, <1>7, <1>8
<1>10. set \in [1 .. Len(h) + Len(p) -> Byte]
  <2>1. DOMAIN set = 1 .. Len(h) + Len(p) BY <1>2, <1>8
  <2>2. \A i \in 1 .. Len(h) + Len(p) : all[i] \in Byte BY <1>7, ElementOfSeq
  <2> QED BY <1>9, <2>1, <2>2
<1> HIDE DEF set
<1>11. Len(h) + Len(p) \in Nat BY <1>2
<1>12. set \in Seq(Byte) /\ Len(set) = Len(h) + Len(p) BY <1>10, <1>11, FunctionIsSeq
<1>13. set = all BY <1>7, <1>9, <1>12, SeqEqual
<1>14. Len(shifted) = Len(h) + Len(p)
  <2>1. shifted = [i \in 1 .. Len(p) + Len(h) |-> shifted[i]]
    <3>1. CASE b = TRUE
      <4>1. shifted = [i \in 1 .. Len(p) + Len(h) |->
                          IF i > Len(p) + Len(h) - Len(p) THEN p[i - (Len(p) + Len(h)) + Len(p)] ELSE grown[i]]
        BY <1>1, <1>4, <1>5, <3>1 DEF shifted, Shifted
      <4> QED BY <4>1
    <3>2. CASE b = FALSE
      <4>1. shifted = grown BY <1>1, <1>4, <3>2 DEF shifted, Shifted
      <4>2. grown \in [1 .. Len(p) + Len(h) -> Byte] BY <1>5, LenProperties
      <4> QED BY <4>1, <4>2
    <3> QED BY <3>1, <3>2
  <2>2. Len([i \in 1 .. Len(p) + Len(h) |-> shifted[i]]) = Len(p) + Len(h)
    <3> DEFINE n == Len(p) + Len(h)
    <3>1. n \in Nat BY <1>2
    <3> HIDE DEF n
    <3>2. Len([i \in 1 .. n |-> shifted[i]]) = n BY <3>1
    <3> QED BY <3>2 DEF n
  <2> QED BY <1>2, <2>1, <2>2
<1>15. AppendHeader(m, h) = [m EXCEPT !.payload = set, !.size = Len(shifted)]
  BY DEF AppendHeader, set, shifted
<1>16. AppendHeader(m, h) = [m EXCEPT !.payload = all, !.size = Len(all)] BY <1>7, <1>13, <1>14, <1>15
<1>17. IsMessage([m EXCEPT !.payload = all, !.size = Len(all)], t, all, b) BY DEF IsMessage, WireFields
<1> QED BY <1>16, <1>17 DEF all

\* Data put in a message's place; what does not fit is not valid.
LEMMA MessageReplaced ==
    ASSUME NEW m, NEW w, NEW t, NEW p, NEW b, DOMAIN m = WireFields \cup {"has_protobuf"}, m.has_protobuf = b,
           IsOnWire(w, 1, t, p)
    PROVE  /\ IsMessage(Replace(m, w), t, p, b)
           /\ Replace(m, [w EXCEPT !.payload = << >>]).size = Len(p)
           /\ \A x : IsMessage(AppendBuffer(Replace(m, [w EXCEPT !.payload = << >>]), x), t, << >> \o x, TRUE)
           /\ Len(p) = 0 => IsMessage(Replace(m, [w EXCEPT !.payload = << >>]), t, << >>, b)
<1>1. IsMessage(Replace(m, w), t, p, b) BY DEF IsMessage, Replace, IsOnWire, WireFields
<1> DEFINE e == Replace(m, [w EXCEPT !.payload = << >>])
<1>2. /\ DOMAIN e = WireFields \cup {"has_protobuf"}
      /\ e.signed = TRUE /\ e.version = 1 /\ e.type = t /\ e.size = Len(p) /\ e.payload = << >>
      /\ e.has_protobuf = b
  BY DEF Replace, IsOnWire, WireFields
<1> HIDE DEF e
<1>3. \A x : IsMessage(AppendBuffer(e, x), t, << >> \o x, TRUE) BY <1>2 DEF IsMessage, AppendBuffer, WireFields
<1>4. Len(p) = 0 => IsMessage(e, t, << >>, b)
  <2>1. Len(<< >>) = 0 OBVIOUS
  <2> QED BY <1>2, <2>1 DEF IsMessage
<1> QED BY <1>1, <1>2, <1>3, <1>4 DEF e

-----------------------------------------------------------------------------
(* What is read from a header and what follows it *)

\* The fields read by a layout that agrees with the sender's on each.
LEMMA ViewRead ==
    ASSUME NEW l, NEW size, LayoutOK(l, size), NEW rest \in Seq(Byte), NEW host,
           NEW m, \A f \in DOMAIN m : f \in DOMAIN l /\ m[f] = l[f]
    PROVE  /\ DOMAIN View(m, HeaderBytes(l) \o rest, host) = DOMAIN m
           /\ \A f \in DOMAIN m :
                 View(m, HeaderBytes(l) \o rest, host)[f]
                    = IF f \in host THEN Reverse(Value(<<f>>, l[f][2])) ELSE Value(<<f>>, l[f][2])
<1> DEFINE p == HeaderBytes(l) \o rest
<1>1. ASSUME NEW f \in DOMAIN m
      PROVE  ReadField(FieldOf(m, f, p), f \in host)
             = IF f \in host THEN Reverse(Value(<<f>>, l[f][2])) ELSE Value(<<f>>, l[f][2])
  <2>1. FieldOf(m, f, p) = Value(<<f>>, l[f][2]) /\ Value(<<f>>, l[f][2]) \in Seq(Byte) BY FieldRead
  <2> HIDE DEF p
  <2>2. CASE f \in host BY <2>1, <2>2 DEF ReadField, HostValue
  <2>3. CASE f \notin host
    <3>1. ReadField(FieldOf(m, f, p), f \in host) = FromNetwork(Value(<<f>>, l[f][2])) BY <2>1, <2>3 DEF ReadField
    <3>2. FromNetwork(Value(<<f>>, l[f][2])) = Value(<<f>>, l[f][2]) BY <2>1, Conversions
    <3> QED BY <3>1, <3>2, <2>3
  <2> QED BY <2>2, <2>3
<1> HIDE DEF p
<1>2. View(m, p, host) = [f \in DOMAIN m |-> ReadField(FieldOf(m, f, p), f \in host)] BY DEF View
<1>3. DOMAIN View(m, p, host) = DOMAIN m BY <1>2
<1>4. \A f \in DOMAIN m : View(m, p, host)[f] = ReadField(FieldOf(m, f, p), f \in host) BY <1>2
<1>5. \A f \in DOMAIN m :
         View(m, p, host)[f] = IF f \in host THEN Reverse(Value(<<f>>, l[f][2])) ELSE Value(<<f>>, l[f][2])
  BY <1>1, <1>4
<1> QED BY <1>3, <1>5 DEF p

\* C# swaps the bytes of what it reads.
LEMMA SwappedRead ==
    ASSUME NEW l, NEW size, LayoutOK(l, size), NEW rest \in Seq(Byte), NEW f \in DOMAIN l
    PROVE  HostValue(Swap(FieldOf(l, f, HeaderBytes(l) \o rest))) = Value(<<f>>, l[f][2])
<1> DEFINE v == Value(<<f>>, l[f][2])
<1>1. /\ FieldOf(l, f, HeaderBytes(l) \o rest) = v /\ v \in Seq(Byte)
      /\ Len(v) = l[f][2] /\ l[f][2] \in {2, 4}
  BY FieldRead
<1> HIDE DEF v
<1>2. HostValue(Swap(v)) = v BY <1>1, SwapConversions
<1> QED BY <1>1, <1>2 DEF v

\* What follows a header is read whole.
LEMMA RestRead ==
    ASSUME NEW h \in Seq(Byte), NEW rest \in Seq(Byte)
    PROVE  /\ h \o rest \in Seq(Byte)
           /\ Len(h \o rest) = Len(h) + Len(rest)
           /\ SubSeq(h \o rest, Len(h) + 1, Len(h \o rest)) = rest
<1> DEFINE all == h \o rest
           from == Len(h)
           w == Len(rest)
<1>1. from \in Nat /\ w \in Nat BY LenProperties
<1>2. all \in Seq(Byte) /\ Len(all) = from + w
      /\ \A i \in 1 .. from + w : all[i] = IF i <= from THEN h[i] ELSE rest[i - from]
  BY ConcatProperties
<1> HIDE DEF all, from, w
<1>3. \A j \in 1 .. w : all[from + j] = rest[j]
  <2> TAKE j \in 1 .. w
  <2> DEFINE x == from + j
  <2>1. x \in 1 .. from + w /\ ~ (x <= from) /\ x - from = j BY <1>1
  <2> HIDE DEF x
  <2>2. all[x] = rest[j] BY <1>2, <2>1
  <2> QED BY <2>2 DEF x
<1>4. SubSeq(all, from + 1, from + w) = rest
  <2>1. Len(rest) = w /\ from + w <= Len(all) BY <1>1, <1>2 DEF w
  <2> QED BY <1>1, <1>2, <1>3, <2>1, SliceIs
<1> QED BY <1>2, <1>4 DEF all, from, w

\* The client puts a message together again, unless it is too long.
LEMMA ReassembledIs ==
    ASSUME NEW w, NEW t \in Nat, t <= 255, NEW p \in Seq(Byte), IsOnWire(w, 1, t, p)
    PROVE  /\ Len(p) >= LargestPayload => Reassembled(w) = Rejected
           /\ Len(p) < LargestPayload => IsOnWire(Reassembled(w), 1, t, p) /\ Reassembled(w) # Rejected
<1> DEFINE header == Replace(NewMessage, [w EXCEPT !.payload = << >>])
           whole == AppendBuffer(header, w.payload)
<1>0. Len(p) \in Nat /\ w.payload = p /\ w.size = Len(p) BY LenProperties DEF IsOnWire
<1>1. DOMAIN NewMessage = WireFields \cup {"has_protobuf"} /\ NewMessage.has_protobuf = FALSE
  BY NewMessageIs DEF IsMessage
<1>2. /\ header.size = Len(p)
      /\ \A x : IsMessage(AppendBuffer(header, x), t, << >> \o x, TRUE)
      /\ Len(p) = 0 => IsMessage(header, t, << >>, FALSE)
  BY <1>1, MessageReplaced
<1>3. header.signed = TRUE /\ header.version = 1 /\ header.type = t
  BY DEF Replace, IsOnWire, NewMessage
<1> HIDE DEF header
<1>4. Cpp17Valid(header) <=> Len(p) < LargestPayload
  BY <1>2, <1>3 DEF Cpp17Valid
<1>5. Reassembled(w) = IF ~ Cpp17Valid(header) THEN Rejected
                       ELSE Relinquish(IF w.size # 0 THEN whole ELSE header)
  BY DEF Reassembled, header
<1>6. CASE Len(p) >= LargestPayload BY <1>0, <1>4, <1>5, <1>6, LimitsAssumption
<1>7. CASE Len(p) < LargestPayload
  <2>1. << >> \o p = p BY ConcatEmptySeq
  <2>2. IsMessage(whole, t, p, TRUE) BY <1>0, <1>2, <2>1
  <2> HIDE DEF whole
  <2>3. IsOnWire(Relinquish(whole), 1, t, p) BY <2>2, MessageCalls
  <2>4. CASE Len(p) # 0
    <3>1. Reassembled(w) = Relinquish(whole) BY <1>0, <1>4, <1>5, <1>7, <2>4
    <3> QED BY SMTT(90), <1>0, <1>7, <2>3, <3>1, LimitsAssumption DEF IsOnWire, Rejected, WireFields
  <2>5. CASE Len(p) = 0
    <3>1. Reassembled(w) = Relinquish(header) BY <1>0, <1>4, <1>5, <1>7, <2>5
    <3>2. IsMessage(header, t, << >>, FALSE) BY <1>2, <2>5
    <3>3. IsOnWire(Relinquish(header), 1, t, << >>) BY <3>2, MessageCalls
    <3>4. p = << >> BY <2>5, EmptySeq
    <3> QED BY <1>0, <1>7, <3>1, <3>3, <3>4, LimitsAssumption DEF IsOnWire, Rejected, WireFields
  <2> QED BY <2>4, <2>5
<1> QED BY <1>0, <1>6, <1>7, LimitsAssumption

-----------------------------------------------------------------------------
(* The headers of each kind, in each implementation *)

SharedKinds == {"configuration", "fft_data", "navigation_data"}
HeadedKinds == SharedKinds \cup {"navigation_configuration", "set_navigation_configuration"}

LayoutOf(k) == IF HasHeader("cpp17", k) THEN LayoutIn["cpp17"][k] ELSE << >>
Header(k) == IF HasHeader("cpp17", k) THEN HeaderBytes(LayoutIn["cpp17"][k]) ELSE << >>

LEMMA HeadedKindsAre ==
    /\ \A k : HasHeader("cpp17", k) <=> k \in HeadedKinds
    /\ \A k : HasHeader("python", k) <=> k \in HeadedKinds
    /\ \A k : HasHeader("cpp", k) <=> k \in SharedKinds
    /\ \A k : HasHeader("csharp", k) <=> k \in SharedKinds
<1>1. DOMAIN LayoutIn["cpp17"] = HeadedKinds BY DEF LayoutIn, HeadedKinds, SharedKinds
<1>2. DOMAIN LayoutIn["python"] = HeadedKinds BY DEF LayoutIn, HeadedKinds, SharedKinds
<1>3. DOMAIN LayoutIn["cpp"] = SharedKinds BY DEF LayoutIn, SharedKinds
<1>4. DOMAIN LayoutIn["csharp"] = SharedKinds BY DEF LayoutIn, SharedKinds
<1> QED BY <1>1, <1>2, <1>3, <1>4 DEF HasHeader

LEMMA HeadersAgree ==
    /\ \A k \in HeadedKinds : \E size : LayoutOK(LayoutIn["cpp17"][k], size)
    /\ \A k \in SharedKinds : /\ LayoutIn["cpp"][k] = LayoutIn["cpp17"][k]
                              /\ LayoutIn["csharp"][k] = LayoutIn["cpp17"][k]
    /\ \A k \in HeadedKinds : \A f \in DOMAIN LayoutIn["python"][k] :
          f \in DOMAIN LayoutIn["cpp17"][k] /\ LayoutIn["python"][k][f] = LayoutIn["cpp17"][k][f]
    /\ LayoutIn["python"]["set_navigation_configuration"] = LayoutIn["cpp17"]["set_navigation_configuration"]
<1>1. /\ LayoutIn["cpp17"]["configuration"] = CSharpConfiguration
      /\ LayoutIn["cpp"]["configuration"] = CSharpConfiguration
      /\ LayoutIn["csharp"]["configuration"] = CSharpConfiguration
      /\ LayoutIn["python"]["configuration"] = PythonConfiguration
  BY ConfigurationLayout, OtherLayouts DEF LayoutIn
<1>2. /\ LayoutIn["cpp17"]["fft_data"] = CSharpFftData
      /\ LayoutIn["cpp"]["fft_data"] = CSharpFftData
      /\ LayoutIn["csharp"]["fft_data"] = CSharpFftData
      /\ LayoutIn["python"]["fft_data"] = PythonFftData
  BY FftDataLayout, OtherLayouts DEF LayoutIn
<1>3. /\ LayoutIn["cpp17"]["navigation_data"] = CSharpNavigationData
      /\ LayoutIn["cpp"]["navigation_data"] = CSharpNavigationData
      /\ LayoutIn["csharp"]["navigation_data"] = CSharpNavigationData
      /\ LayoutIn["python"]["navigation_data"] = CSharpNavigationData
  BY NavigationDataLayout, OtherLayouts DEF LayoutIn
<1>4. /\ LayoutIn["cpp17"]["navigation_configuration"] = PythonNavigationConfig
      /\ LayoutIn["python"]["navigation_configuration"] = PythonNavigationConfig
      /\ LayoutIn["cpp17"]["set_navigation_configuration"] = PythonNavigationConfig
      /\ LayoutIn["python"]["set_navigation_configuration"] = PythonNavigationConfig
  BY NavigationConfigLayout DEF LayoutIn
<1>5. \A k \in HeadedKinds : \E size : LayoutOK(LayoutIn["cpp17"][k], size)
  BY <1>1, <1>2, <1>3, <1>4, ConfigurationLayout, FftDataLayout, NavigationDataLayout, NavigationConfigLayout
     DEF HeadedKinds, SharedKinds
<1>6. \A k \in SharedKinds : /\ LayoutIn["cpp"][k] = LayoutIn["cpp17"][k]
                             /\ LayoutIn["csharp"][k] = LayoutIn["cpp17"][k]
  BY <1>1, <1>2, <1>3 DEF SharedKinds
<1>7. \A k \in HeadedKinds : \A f \in DOMAIN LayoutIn["python"][k] :
          f \in DOMAIN LayoutIn["cpp17"][k] /\ LayoutIn["python"][k][f] = LayoutIn["cpp17"][k][f]
  BY <1>1, <1>2, <1>3, <1>4, OtherLayouts DEF HeadedKinds, SharedKinds
<1> QED BY <1>4, <1>5, <1>6, <1>7

LEMMA NoLayout == LayoutOK(<< >>, 0) /\ HeaderBytes(<< >>) = << >>
<1> DEFINE ends == {0} \cup {<< >>[f][1] + << >>[f][2] : f \in DOMAIN << >>}
<1>1. DOMAIN << >> = {} OBVIOUS
<1>2. ends \in SUBSET Nat /\ 0 \in ends /\ \A x \in ends : x <= 0 BY <1>1
<1>3. SizeOf(<< >>) = Max(ends) BY DEF SizeOf
<1> HIDE DEF ends
<1>4. SizeOf(<< >>) = 0 BY <1>2, <1>3, MaxIs
<1>5. LayoutOK(<< >>, 0) BY <1>1, <1>4 DEF LayoutOK
<1>6. HeaderBytes(<< >>) \in Seq(Byte) /\ Len(HeaderBytes(<< >>)) = 0 BY <1>5, HeaderType
<1> QED BY <1>5, <1>6, EmptySeq

LEMMA HeaderIs ==
    ASSUME NEW k
    PROVE  /\ \E size : LayoutOK(LayoutOf(k), size)
           /\ Header(k) = HeaderBytes(LayoutOf(k))
           /\ Header(k) \in Seq(Byte)
           /\ SizeOf(LayoutOf(k)) = Len(Header(k))
           /\ SizeOf(LayoutOf(k)) \in Nat
<1>1. PICK size : LayoutOK(LayoutOf(k), size)
  <2>1. CASE HasHeader("cpp17", k) BY <2>1, HeadedKindsAre, HeadersAgree DEF LayoutOf
  <2>2. CASE ~ HasHeader("cpp17", k) BY <2>2, NoLayout DEF LayoutOf
  <2> QED BY <2>1, <2>2
<1>2. Header(k) = HeaderBytes(LayoutOf(k)) BY NoLayout DEF Header, LayoutOf
<1>3. HeaderBytes(LayoutOf(k)) \in Seq(Byte) /\ Len(HeaderBytes(LayoutOf(k))) = size BY <1>1, HeaderType
<1>4. SizeOf(LayoutOf(k)) = size /\ size \in Nat BY <1>1 DEF LayoutOK
<1> QED BY <1>1, <1>2, <1>3, <1>4

-----------------------------------------------------------------------------
(* The readings *)

LEMMA TypesAre ==
    /\ \A k \in DOMAIN Cpp17Type : Cpp17Type[k] \in Nat /\ Cpp17Type[k] <= 255 /\ Cpp17Type[k] # 0
    /\ \A k \in SharedKinds : CppType[k] = Cpp17Type[k] /\ CSharpType[k] = Cpp17Type[k]
    /\ HeadedKinds \subseteq DOMAIN Cpp17Type /\ Streamed \subseteq DOMAIN Cpp17Type
<1>1. \A k \in DOMAIN Cpp17Type : Cpp17Type[k] \in Nat /\ Cpp17Type[k] <= 255 /\ Cpp17Type[k] # 0 BY DEF Cpp17Type
<1>2. \A k \in SharedKinds : CppType[k] = Cpp17Type[k] /\ CSharpType[k] = Cpp17Type[k]
  BY DEF CppType, CSharpType, Cpp17Type, SharedKinds
<1>3. HeadedKinds \subseteq DOMAIN Cpp17Type /\ Streamed \subseteq DOMAIN Cpp17Type
  BY DEF Cpp17Type, HeadedKinds, SharedKinds, Streamed
<1> QED BY <1>1, <1>2, <1>3

\* What follows the header of a message of n parts
Carried(k, n) == IF k \in Streamed THEN Stream(k, n)
                 ELSE IF k \in DOMAIN BodyIn["cpp17"] THEN BodyIn["cpp17"][k] ELSE << >>

HandledKinds == SharedKinds \cup {"health", "navigation_configuration"}

\* A message that some reader handles, on the wire
Readable ==
    /\ kind \in HandledKinds /\ parts \in Nat
    /\ kind = "navigation_configuration" => parts = 0
    /\ IsOnWire(wire, 1, Cpp17Type[kind], Header(kind) \o Carried(kind, parts))

FieldsAsSent(r, fields) ==
    \A f \in DOMAIN fields :
        LET sent == Value(<<f>>, LayoutIn["cpp17"][kind][f][2])
        IN  fields[f] = IF kind = "fft_data" /\ f \in Times /\ r # "csharp" THEN Reverse(sent) ELSE sent
AsSent(r, x) == x.type = Cpp17Type[kind] /\ FieldsAsSent(r, x.fields) /\ x.buffer = BufferRead(r)

\* What is carried is the data that ReadAsSent expects.
LEMMA CarriedIs ==
    ASSUME Readable, NEW r
    PROVE  /\ Carried(kind, parts) \in Seq(Byte)
           /\ kind = "navigation_data" => BufferRead(r) = PeaksSent(parts) /\ Carried(kind, parts) = Stream(kind, parts)
           /\ kind = "configuration" /\ r \in {"cpp", "python"} => BufferRead(r) = << >>
           /\ kind # "navigation_data" /\ ~ (kind = "configuration" /\ r \in {"cpp", "python"}) =>
                 BufferRead(r) = Carried(kind, parts)
           /\ kind = "navigation_configuration" => BufferRead(r) = << >>
<1>0. kind \in HandledKinds /\ parts \in Nat /\ (kind = "navigation_configuration" => parts = 0) BY DEF Readable
<1>1. CASE kind = "navigation_configuration"
  <2>1. kind \notin Streamed /\ kind \notin DOMAIN BodyIn["cpp17"] BY <1>1 DEF Streamed, BodyIn
  <2>2. Carried(kind, parts) = << >> BY <2>1 DEF Carried
  <2>3. BufferRead(r) = Stream(kind, parts) BY <1>1 DEF BufferRead, Stream
  <2>4. parts = 0 BY <1>0, <1>1
  <2>5. BufferRead(r) = << >> BY <2>3, <2>4, StreamNone
  <2>6. << >> \in Seq(Byte) BY EmptySeq
  <2> QED BY <1>1, <2>2, <2>5, <2>6
<1>2. CASE kind # "navigation_configuration"
  <2>1. kind \in Streamed BY <1>0, <1>2 DEF HandledKinds, SharedKinds, Streamed
  <2>2. Carried(kind, parts) = Stream(kind, parts) BY <2>1 DEF Carried
  <2>3. Stream(kind, parts) \in Seq(Byte) BY <1>0, StreamType
  <2>4. kind = "navigation_data" => BufferRead(r) = PeaksSent(parts) BY DEF BufferRead, PeaksSent
  <2>5. kind = "configuration" /\ r \in {"cpp", "python"} => BufferRead(r) = << >> BY DEF BufferRead
  <2>6. kind # "navigation_data" /\ ~ (kind = "configuration" /\ r \in {"cpp", "python"}) =>
           BufferRead(r) = Stream(kind, parts)
    BY DEF BufferRead, Stream
  <2> QED BY <1>2, <2>2, <2>3, <2>4, <2>5, <2>6
<1> QED BY <1>1, <1>2

\* The payload, and its header and its rest as every reader takes them
LEMMA PayloadIs ==
    ASSUME Readable
    PROVE  LET p == Header(kind) \o Carried(kind, parts)
               l == LayoutOf(kind)
           IN  /\ p \in Seq(Byte) /\ wire.payload = p /\ wire.size = Len(p) /\ wire.type = Cpp17Type[kind]
               /\ wire.signed = TRUE /\ wire.version = 1
               /\ SizeOf(l) \in Nat /\ Len(p) \in Nat /\ Len(p) = SizeOf(l) + Len(Carried(kind, parts))
               /\ SubSeq(p, SizeOf(l) + 1, Len(p)) = Carried(kind, parts)
               /\ \A m, host : (\A f \in DOMAIN m : f \in DOMAIN l /\ m[f] = l[f]) =>
                     /\ DOMAIN View(m, p, host) = DOMAIN m
                     /\ \A f \in DOMAIN m : View(m, p, host)[f] = IF f \in host THEN Reverse(Value(<<f>>, l[f][2]))
                                                                  ELSE Value(<<f>>, l[f][2])
               /\ \A f \in DOMAIN l : HostValue(Swap(FieldOf(l, f, p))) = Value(<<f>>, l[f][2])
<1> DEFINE rest == Carried(kind, parts)
           l == LayoutOf(kind)
           h == Header(kind)
           p == h \o rest
<1>1. rest \in Seq(Byte) BY CarriedIs
<1>2. h = HeaderBytes(l) /\ h \in Seq(Byte) /\ SizeOf(l) = Len(h) /\ SizeOf(l) \in Nat BY HeaderIs
<1>3. PICK size : LayoutOK(l, size) BY HeaderIs
<1>4. IsOnWire(wire, 1, Cpp17Type[kind], p) BY DEF Readable
<1> HIDE DEF rest, l, h
<1>5. p \in Seq(Byte) /\ Len(p) = Len(h) + Len(rest) /\ SubSeq(p, Len(h) + 1, Len(p)) = rest
  BY <1>1, <1>2, RestRead
<1>6. Len(p) \in Nat BY <1>5, LenProperties
<1>7. ASSUME NEW m, NEW host, \A f \in DOMAIN m : f \in DOMAIN l /\ m[f] = l[f]
      PROVE  /\ DOMAIN View(m, p, host) = DOMAIN m
             /\ \A f \in DOMAIN m : View(m, p, host)[f] = IF f \in host THEN Reverse(Value(<<f>>, l[f][2]))
                                                          ELSE Value(<<f>>, l[f][2])
  BY <1>1, <1>2, <1>3, <1>7, ViewRead
<1>8. \A f \in DOMAIN l : HostValue(Swap(FieldOf(l, f, p))) = Value(<<f>>, l[f][2])
  BY <1>1, <1>2, <1>3, SwappedRead
<1> HIDE DEF p
<1> QED BY <1>2, <1>4, <1>5, <1>6, <1>7, <1>8 DEF IsOnWire, p, l, h, rest

\* The fields, in each of the four readers
LEMMA FieldsRead ==
    ASSUME Readable
    PROVE  LET p == Header(kind) \o Carried(kind, parts)
           IN  /\ FieldsAsSent("cpp17", View(LayoutOf(kind), p, HostOrder(kind)))
               /\ kind \in SharedKinds => FieldsAsSent("cpp", View(LayoutIn["cpp"][kind], p, HostOrder(kind)))
               /\ kind \in HeadedKinds => FieldsAsSent("python", View(LayoutIn["python"][kind], p, HostOrder(kind)))
               /\ kind \in SharedKinds =>
                     FieldsAsSent("csharp", [f \in DOMAIN LayoutIn["csharp"][kind] |->
                                                HostValue(Swap(FieldOf(LayoutIn["csharp"][kind], f, p)))])
<1> DEFINE l == LayoutOf(kind)
           p == Header(kind) \o Carried(kind, parts)
<1>1. \A m, host : (\A f \in DOMAIN m : f \in DOMAIN l /\ m[f] = l[f]) =>
         /\ DOMAIN View(m, p, host) = DOMAIN m
         /\ \A f \in DOMAIN m : View(m, p, host)[f] = IF f \in host THEN Reverse(Value(<<f>>, l[f][2]))
                                                      ELSE Value(<<f>>, l[f][2])
  BY PayloadIs
<1>2. \A f \in DOMAIN l : HostValue(Swap(FieldOf(l, f, p))) = Value(<<f>>, l[f][2])
  BY PayloadIs
<1>3. kind \in HeadedKinds => l = LayoutIn["cpp17"][kind] BY HeadedKindsAre DEF LayoutOf
<1>4. kind \notin HeadedKinds => DOMAIN l = {} BY HeadedKindsAre DEF LayoutOf
<1>5. \A f : f \in HostOrder(kind) <=> kind = "fft_data" /\ f \in Times BY DEF HostOrder
<1>6. SharedKinds \subseteq HeadedKinds BY DEF HeadedKinds
<1> HIDE DEF p, l
<1>7. ASSUME NEW m, NEW r, r # "csharp", \A f \in DOMAIN m : f \in DOMAIN l /\ m[f] = l[f]
      PROVE  FieldsAsSent(r, View(m, p, HostOrder(kind)))
  <2> DEFINE v == View(m, p, HostOrder(kind))
  <2>1. /\ DOMAIN v = DOMAIN m
        /\ \A f \in DOMAIN m : v[f] = IF f \in HostOrder(kind) THEN Reverse(Value(<<f>>, l[f][2])) ELSE Value(<<f>>, l[f][2])
    BY <1>1, <1>7
  <2> HIDE DEF v
  <2>2. ASSUME NEW f \in DOMAIN v PROVE l = LayoutIn["cpp17"][kind]
    BY <1>3, <1>4, <1>7, <2>1
  <2> QED BY <1>5, <1>7, <2>1, <2>2 DEF FieldsAsSent, v
<1>8. FieldsAsSent("cpp17", View(l, p, HostOrder(kind))) BY <1>7
<1>9. kind \in SharedKinds => FieldsAsSent("cpp", View(LayoutIn["cpp"][kind], p, HostOrder(kind)))
  <2> SUFFICES ASSUME kind \in SharedKinds PROVE FieldsAsSent("cpp", View(LayoutIn["cpp"][kind], p, HostOrder(kind))) OBVIOUS
  <2>1. LayoutIn["cpp"][kind] = l BY <1>3, <1>6, HeadersAgree
  <2> QED BY <2>1, <1>7
<1>10. kind \in HeadedKinds => FieldsAsSent("python", View(LayoutIn["python"][kind], p, HostOrder(kind)))
  <2> SUFFICES ASSUME kind \in HeadedKinds PROVE FieldsAsSent("python", View(LayoutIn["python"][kind], p, HostOrder(kind)))
    OBVIOUS
  <2>1. \A f \in DOMAIN LayoutIn["python"][kind] : f \in DOMAIN l /\ LayoutIn["python"][kind][f] = l[f]
    BY <1>3, HeadersAgree
  <2> QED BY <2>1, <1>7
<1>11. kind \in SharedKinds =>
         FieldsAsSent("csharp", [f \in DOMAIN LayoutIn["csharp"][kind] |->
                                    HostValue(Swap(FieldOf(LayoutIn["csharp"][kind], f, p)))])
  <2> SUFFICES ASSUME kind \in SharedKinds
               PROVE  FieldsAsSent("csharp", [f \in DOMAIN LayoutIn["csharp"][kind] |->
                                                 HostValue(Swap(FieldOf(LayoutIn["csharp"][kind], f, p)))])
    OBVIOUS
  <2>1. LayoutIn["csharp"][kind] = l /\ l = LayoutIn["cpp17"][kind] BY <1>3, <1>6, HeadersAgree
  <2> DEFINE v == [f \in DOMAIN l |-> HostValue(Swap(FieldOf(l, f, p)))]
  <2>2. DOMAIN v = DOMAIN l /\ \A f \in DOMAIN l : v[f] = Value(<<f>>, l[f][2]) BY <1>2
  <2> HIDE DEF v
  <2>3. FieldsAsSent("csharp", v) BY <2>1, <2>2 DEF FieldsAsSent
  <2> QED BY <2>1, <2>3 DEF v
<1> QED BY <1>8, <1>9, <1>10, <1>11 DEF p, l

\* The peaks of what is carried, as each reader cuts them
LEMMA PeaksRead ==
    ASSUME Readable, kind = "navigation_data"
    PROVE  /\ Cpp17Peaks(Carried(kind, parts)) = PeaksSent(parts)
           /\ CSharpPeaks(Carried(kind, parts)) = PeaksSent(parts)
           /\ PythonPeaks(Carried(kind, parts)) = PeaksSent(parts)
           /\ CppPeaks(wire.payload) = PeaksSent(parts)
<1> DEFINE b == Carried(kind, parts)
           r(i) == Value(<<"range", i>>, 4)
           w(i) == Value(<<"power", i>>, 2)
<1>0. parts \in Nat BY DEF Readable
<1>1. b = Stream("navigation_data", parts) BY CarriedIs
<1>2. /\ Len(b) \div PeakSize = parts
      /\ \A i \in 1 .. parts : PeakAt(b, i - 1) = [range |-> r(i), power |-> w(i)]
  BY <1>0, <1>1, PeaksFound
<1>3. ASSUME NEW i \in 1 .. parts
      PROVE  /\ FromNetwork(r(i)) = r(i) /\ FromNetwork(w(i)) = w(i)
             /\ HostValue(Swap(r(i))) = r(i) /\ HostValue(Swap(w(i))) = w(i)
  <2>1. <<"range", i>> \in Name /\ <<"power", i>> \in Name BY <1>0 DEF Name, Word
  <2>2. r(i) \in Seq(Byte) /\ Len(r(i)) = 4 /\ w(i) \in Seq(Byte) /\ Len(w(i)) = 2 BY <2>1, ValueType
  <2>3. FromNetwork(r(i)) = r(i) /\ FromNetwork(w(i)) = w(i) BY <2>2, Conversions
  <2>4. HostValue(Swap(r(i))) = r(i)
    <3> HIDE DEF r
    <3>1. Len(r(i)) \in {2, 4} BY <2>2
    <3> QED BY <2>2, <3>1, SwapConversions
  <2>5. HostValue(Swap(w(i))) = w(i)
    <3> HIDE DEF w
    <3>1. Len(w(i)) \in {2, 4} BY <2>2
    <3> QED BY <2>2, <3>1, SwapConversions
  <2> QED BY <2>3, <2>4, <2>5
<1>4. PeaksSent(parts) = [i \in 1 .. parts |-> [range |-> r(i), power |-> w(i)]] BY DEF PeaksSent
<1> HIDE DEF b, r, w
<1>5. Cpp17Peaks(b) = PeaksSent(parts)
  <2>1. \A i \in 1 .. parts : [range |-> FromNetwork(PeakAt(b, i - 1).range), power |-> FromNetwork(PeakAt(b, i - 1).power)]
                              = [range |-> r(i), power |-> w(i)]
    BY <1>2, <1>3
  <2>2. Cpp17Peaks(b) = [i \in 1 .. parts |-> [range |-> FromNetwork(PeakAt(b, i - 1).range),
                                               power |-> FromNetwork(PeakAt(b, i - 1).power)]]
    BY <1>2 DEF Cpp17Peaks
  <2> QED BY <1>4, <2>1, <2>2
<1>6. CSharpPeaks(b) = PeaksSent(parts)
  <2>1. \A i \in 1 .. parts : [range |-> HostValue(Swap(PeakAt(b, i - 1).range)), power |-> HostValue(Swap(PeakAt(b, i - 1).power))]
                              = [range |-> r(i), power |-> w(i)]
    BY <1>2, <1>3
  <2>2. CSharpPeaks(b) = [i \in 1 .. parts |-> [range |-> HostValue(Swap(PeakAt(b, i - 1).range)),
                                                power |-> HostValue(Swap(PeakAt(b, i - 1).power))]]
    BY <1>2 DEF CSharpPeaks
  <2> QED BY <1>4, <2>1, <2>2
<1>7. PythonPeaks(b) = PeaksSent(parts) BY <1>2, <1>4 DEF PythonPeaks
<1>8. CppPeaks(wire.payload) = PeaksSent(parts)
  <2> DEFINE p == wire.payload
             s == SizeOf(CppNavigationData)
  <2>1. LayoutOf(kind) = CppNavigationData
    <3>1. LayoutIn["cpp"][kind] = CppNavigationData BY DEF LayoutIn
    <3>2. kind \in SharedKinds /\ kind \in HeadedKinds BY DEF SharedKinds, HeadedKinds
    <3> QED BY <3>1, <3>2, HeadersAgree, HeadedKindsAre DEF LayoutOf
  <2>2. s \in Nat /\ Len(p) \in Nat /\ Len(p) = s + Len(b) /\ SubSeq(p, s + 1, Len(p)) = b
    BY <2>1, PayloadIs DEF b
  <2>3. b \in Seq(Byte) BY CarriedIs DEF b
  <2>4. Len(b) \in Nat BY <2>3, LenProperties
  <2>5. CppPeaks(p) = [n \in 1 .. ((Len(p) - s) \div PeakSize) |->
                          [range |-> FromNetwork(PeakAt(SubSeq(p, s + 1, Len(p)), n - 1).range),
                           power |-> FromNetwork(PeakAt(SubSeq(p, s + 1, Len(p)), n - 1).power)]]
    BY DEF CppPeaks
  <2> HIDE DEF p, s
  <2>6. Len(p) - s = Len(b) BY <2>2, <2>4
  <2>7. CppPeaks(p) = [n \in 1 .. parts |-> [range |-> FromNetwork(PeakAt(b, n - 1).range),
                                             power |-> FromNetwork(PeakAt(b, n - 1).power)]]
    BY <1>2, <2>2, <2>5, <2>6
  <2>8. CppPeaks(p) = Cpp17Peaks(b) BY <1>2, <2>7 DEF Cpp17Peaks
  <2> QED BY <1>5, <2>8 DEF p
<1> QED BY <1>5, <1>6, <1>7, <1>8 DEF b

LEMMA Cpp17Read ==
    ASSUME Readable
    PROVE  /\ Cpp17Reading(wire) # NotRead
           /\ wire.size >= LargestPayload => Cpp17Reading(wire) = Rejected
           /\ wire.size < LargestPayload => Cpp17Reading(wire) # Rejected /\ AsSent("cpp17", Cpp17Reading(wire))
<1> DEFINE p == Header(kind) \o Carried(kind, parts)
           l == LayoutOf(kind)
           t == Cpp17Type[kind]
           m == Replace([NewMessage EXCEPT !.signed = FALSE], Reassembled(wire))
           b == Protobuf(l, m)
           x == Cpp17Reading(wire)
<1>1. /\ p \in Seq(Byte) /\ wire.payload = p /\ wire.size = Len(p) /\ wire.type = t
      /\ SizeOf(l) \in Nat /\ Len(p) \in Nat /\ SubSeq(p, SizeOf(l) + 1, Len(p)) = Carried(kind, parts)
  BY PayloadIs
<1>2. t \in Nat /\ t <= 255
  <2>1. kind \in DOMAIN Cpp17Type BY DEF Readable, HandledKinds, SharedKinds, Cpp17Type
  <2> QED BY <2>1, TypesAre
<1>3. IsOnWire(wire, 1, t, p) BY DEF Readable
<1>4. HasHeader("cpp17", kind) \/ ~ HasHeader("cpp17", kind) OBVIOUS
<1>5. x = IF Reassembled(wire) = Rejected THEN Rejected
          ELSE [type |-> m.type, fields |-> View(l, m.payload, HostOrder(kind)),
                buffer |-> IF kind = "navigation_data" THEN Cpp17Peaks(b) ELSE b]
  BY DEF Cpp17Reading, LayoutOf
<1> HIDE DEF p, l, t, x
<1>6. /\ Len(p) >= LargestPayload => Reassembled(wire) = Rejected
      /\ Len(p) < LargestPayload => IsOnWire(Reassembled(wire), 1, t, p) /\ Reassembled(wire) # Rejected
  BY <1>1, <1>2, <1>3, ReassembledIs
<1>7. CASE wire.size >= LargestPayload
  <2>1. x = Rejected BY <1>1, <1>5, <1>6, <1>7
  <2>2. Rejected # NotRead BY DEF Rejected, NotRead
  <2> QED BY <1>1, <1>7, <2>1, <2>2, LimitsAssumption DEF x
<1>8. CASE wire.size < LargestPayload
  <2>1. IsOnWire(Reassembled(wire), 1, t, p) /\ Reassembled(wire) # Rejected BY <1>1, <1>6, <1>8
  <2>2. m.type = t /\ m.payload = p /\ m.size = Len(p)
    <3> DEFINE e == [NewMessage EXCEPT !.signed = FALSE]
    <3>1. DOMAIN e = WireFields \cup {"has_protobuf"} /\ e.has_protobuf = FALSE BY DEF NewMessage, WireFields
    <3>2. m = Replace(e, Reassembled(wire)) OBVIOUS
    <3> HIDE DEF e, m
    <3>3. IsMessage(m, t, p, FALSE) BY <2>1, <3>1, <3>2, MessageReplaced
    <3> QED BY <3>3 DEF IsMessage
  <2>3. b = Carried(kind, parts)
    <3>1. SizeOf(l) + Len(p) - SizeOf(l) = Len(p) BY <1>1
    <3>2. b = SubSeq(p, SizeOf(l) + 1, SizeOf(l) + Len(p) - SizeOf(l)) BY <2>2 DEF Protobuf
    <3> QED BY <1>1, <3>1, <3>2
  <2> HIDE DEF m, b
  <2>4. x = [type |-> t, fields |-> View(l, p, HostOrder(kind)),
             buffer |-> IF kind = "navigation_data" THEN Cpp17Peaks(b) ELSE b]
    BY <1>5, <2>1, <2>2
  <2>5. (IF kind = "navigation_data" THEN Cpp17Peaks(b) ELSE b) = BufferRead("cpp17")
    <3>1. CASE kind = "navigation_data" BY <2>3, <3>1, PeaksRead, CarriedIs
    <3>2. CASE kind # "navigation_data" BY <2>3, <3>2, CarriedIs
    <3> QED BY <3>1, <3>2
  <2>6. FieldsAsSent("cpp17", View(l, p, HostOrder(kind))) BY FieldsRead DEF l, p
  <2>7. x.type = t /\ x.fields = View(l, p, HostOrder(kind)) /\ x.buffer = BufferRead("cpp17")
    BY <2>4, <2>5
  <2>8. x # Rejected /\ x # NotRead
    <3>1. DOMAIN x = {"type", "fields", "buffer"} BY <2>4
    <3>2. DOMAIN Rejected = {"state"} /\ DOMAIN NotRead = {"state"} BY DEF Rejected, NotRead
    <3> QED BY <3>1, <3>2
  <2>9. AsSent("cpp17", x) BY <2>6, <2>7 DEF AsSent, t
  <2> QED BY <1>1, <1>8, <2>8, <2>9, LimitsAssumption DEF x
<1> QED BY <1>1, <1>7, <1>8, LimitsAssumption

LEMMA CppRead ==
    ASSUME Readable, kind \in SharedKinds
    PROVE  /\ CppReading(wire) # NotRead
           /\ wire.size > MaxPayloadSize => CppReading(wire) = Rejected
           /\ wire.size <= MaxPayloadSize => CppReading(wire) # Rejected /\ AsSent("cpp", CppReading(wire))
<1> DEFINE p == Header(kind) \o Carried(kind, parts)
           l == LayoutIn["cpp"][kind]
           t == Cpp17Type[kind]
           c == CASE kind = "configuration"   -> << >>
                  [] kind = "fft_data"        -> SubSeq(wire.payload, SizeOf(l) + 1, wire.size)
                  [] kind = "navigation_data" -> CppPeaks(wire.payload)
           x == CppReading(wire)
<1>1. l = LayoutOf(kind)
  <2>1. kind \in HeadedKinds BY DEF HeadedKinds
  <2> QED BY <2>1, HeadersAgree, HeadedKindsAre DEF LayoutOf
<1>2. /\ wire.payload = p /\ wire.size = Len(p) /\ wire.type = t /\ wire.signed = TRUE /\ wire.version = 1
      /\ Len(p) \in Nat /\ SubSeq(p, SizeOf(l) + 1, Len(p)) = Carried(kind, parts)
  BY <1>1, PayloadIs
<1>3. CppValid(wire) <=> wire.size <= MaxPayloadSize BY <1>2 DEF CppValid
<1>4. x = IF ~ CppValid(wire) THEN Rejected
          ELSE [type |-> wire.type, fields |-> View(l, wire.payload, HostOrder(kind)), buffer |-> c]
  BY DEF CppReading
<1>5. c = BufferRead("cpp")
  <2>1. CASE kind = "configuration" BY <2>1, CarriedIs
  <2>2. CASE kind = "fft_data" BY <1>2, <2>2, CarriedIs
  <2>3. CASE kind = "navigation_data" BY <2>3, PeaksRead, CarriedIs
  <2> QED BY <2>1, <2>2, <2>3 DEF SharedKinds
<1>6. FieldsAsSent("cpp", View(l, p, HostOrder(kind))) BY FieldsRead
<1> HIDE DEF p, l, t, c, x
<1>7. DOMAIN Rejected = {"state"} /\ DOMAIN NotRead = {"state"} /\ Rejected # NotRead BY DEF Rejected, NotRead
<1>8. CASE wire.size > MaxPayloadSize
  <2>1. x = Rejected BY <1>2, <1>3, <1>4, <1>8, LimitsAssumption
  <2> QED BY <1>2, <1>7, <1>8, <2>1, LimitsAssumption DEF x
<1>9. CASE wire.size <= MaxPayloadSize
  <2>1. x = [type |-> wire.type, fields |-> View(l, wire.payload, HostOrder(kind)), buffer |-> c] BY <1>3, <1>4, <1>9
  <2>2. DOMAIN x = {"type", "fields", "buffer"} BY <2>1
  <2>3. x.type = t /\ x.fields = View(l, p, HostOrder(kind)) /\ x.buffer = BufferRead("cpp") BY <1>2, <1>5, <2>1
  <2>4. AsSent("cpp", x) BY <1>6, <2>3 DEF AsSent, t
  <2>5. x # Rejected /\ x # NotRead BY <1>7, <2>2
  <2> QED BY <1>2, <1>9, <2>4, <2>5, LimitsAssumption DEF x
<1> QED BY <1>2, <1>8, <1>9, LimitsAssumption

LEMMA CSharpRead ==
    ASSUME Readable, kind \in SharedKinds
    PROVE  CSharpReading(wire) \notin {NotRead, Rejected} /\ AsSent("csharp", CSharpReading(wire))
<1> DEFINE p == Header(kind) \o Carried(kind, parts)
           l == LayoutIn["csharp"][kind]
           t == Cpp17Type[kind]
           b == SubSeq(wire.payload, SizeOf(l) + 1, wire.size)
           v == [f \in DOMAIN l |-> HostValue(Swap(FieldOf(l, f, wire.payload)))]
           x == CSharpReading(wire)
<1>1. l = LayoutOf(kind)
  <2>1. kind \in HeadedKinds BY DEF HeadedKinds
  <2> QED BY <2>1, HeadersAgree, HeadedKindsAre DEF LayoutOf
<1>2. /\ wire.payload = p /\ wire.size = Len(p) /\ wire.type = t /\ wire.signed = TRUE
      /\ SubSeq(p, SizeOf(l) + 1, Len(p)) = Carried(kind, parts)
  BY <1>1, PayloadIs
<1>3. b = Carried(kind, parts) BY <1>2
<1>4. CSharpValid(wire) BY <1>2 DEF CSharpValid
<1>5. x = [type |-> wire.type, fields |-> v, buffer |-> IF kind = "navigation_data" THEN CSharpPeaks(b) ELSE b]
  BY <1>4 DEF CSharpReading
<1>6. FieldsAsSent("csharp", v) BY <1>2, FieldsRead
<1> HIDE DEF v, b, x, t
<1>7. (IF kind = "navigation_data" THEN CSharpPeaks(b) ELSE b) = BufferRead("csharp")
  <2>1. CASE kind = "navigation_data" BY <1>3, <2>1, PeaksRead, CarriedIs
  <2>2. CASE kind # "navigation_data" BY <1>3, <2>2, CarriedIs
  <2> QED BY <2>1, <2>2
<1>8. x.type = t /\ x.fields = v /\ x.buffer = BufferRead("csharp") BY <1>2, <1>5, <1>7
<1>9. AsSent("csharp", x) BY <1>6, <1>8 DEF AsSent, t
<1>10. DOMAIN x = {"type", "fields", "buffer"} BY <1>5
<1>11. DOMAIN Rejected = {"state"} /\ DOMAIN NotRead = {"state"} BY DEF Rejected, NotRead
<1>12. x \notin {NotRead, Rejected} BY <1>10, <1>11
<1> QED BY <1>9, <1>12 DEF x

LEMMA PythonRead ==
    ASSUME Readable, kind \in HeadedKinds
    PROVE  PythonReading(wire) \notin {NotRead, Rejected} /\ AsSent("python", PythonReading(wire))
<1> DEFINE p == Header(kind) \o Carried(kind, parts)
           l == LayoutIn["python"][kind]
           t == Cpp17Type[kind]
           v == View(l, p, HostOrder(kind))
           c == CASE kind = "fft_data"        -> SubSeq(wire.payload, 15, Len(wire.payload))
                  [] kind = "navigation_data" -> PythonPeaks(SubSeq(wire.payload, 11, Len(wire.payload)))
                  [] OTHER                    -> << >>
           x == PythonReading(wire)
<1>1. /\ wire.payload = p /\ wire.type = t
      /\ SubSeq(p, SizeOf(LayoutOf(kind)) + 1, Len(p)) = Carried(kind, parts)
  BY PayloadIs
<1>2. x = [type |-> wire.type, fields |-> View(l, wire.payload, HostOrder(kind)), buffer |-> c] BY DEF PythonReading
<1>3. FieldsAsSent("python", v) BY FieldsRead
<1>4. kind \in HandledKinds BY DEF Readable
<1>5. c = BufferRead("python")
  <2>1. CASE kind = "fft_data"
    <3>1. LayoutOf(kind) = CSharpFftData
      BY <2>1, HeadedKindsAre, FftDataLayout DEF LayoutOf, LayoutIn, HeadedKinds, SharedKinds
    <3>2. SizeOf(LayoutOf(kind)) + 1 = 15 BY <3>1, FftDataLayout DEF LayoutOK
    <3>3. c = SubSeq(p, 15, Len(p)) BY <1>1, <2>1
    <3>4. BufferRead("python") = Carried(kind, parts) BY <2>1, CarriedIs
    <3> HIDE DEF c, p
    <3> QED BY <1>1, <3>2, <3>3, <3>4
  <2>2. CASE kind = "navigation_data"
    <3>1. LayoutOf(kind) = CSharpNavigationData
      BY <2>2, HeadedKindsAre, NavigationDataLayout DEF LayoutOf, LayoutIn, HeadedKinds, SharedKinds
    <3>2. SizeOf(LayoutOf(kind)) + 1 = 11 BY <3>1, NavigationDataLayout DEF LayoutOK
    <3>3. c = PythonPeaks(SubSeq(p, 11, Len(p))) BY <1>1, <2>2
    <3>4. BufferRead("python") = PeaksSent(parts) BY <2>2, CarriedIs
    <3>5. PythonPeaks(Carried(kind, parts)) = PeaksSent(parts) BY <2>2, PeaksRead
    <3> HIDE DEF c, p
    <3> QED BY <1>1, <3>2, <3>3, <3>4, <3>5
  <2>3. CASE kind = "configuration" BY <2>3, CarriedIs
  <2>4. CASE kind = "navigation_configuration" BY <2>4, CarriedIs
  <2>5. kind # "health" BY DEF HeadedKinds, SharedKinds
  <2> QED BY <1>4, <2>1, <2>2, <2>3, <2>4, <2>5 DEF HandledKinds, SharedKinds
<1> HIDE DEF v, c, x, t, p
<1>6. x.type = t /\ x.fields = v /\ x.buffer = BufferRead("python") BY <1>1, <1>2, <1>5 DEF v
<1>7. AsSent("python", x) BY <1>3, <1>6 DEF AsSent, t
<1>8. DOMAIN x = {"type", "fields", "buffer"} BY <1>2
<1>9. DOMAIN Rejected = {"state"} /\ DOMAIN NotRead = {"state"} BY DEF Rejected, NotRead
<1>10. x \notin {NotRead, Rejected} BY <1>8, <1>9
<1> QED BY <1>7, <1>10 DEF x

-----------------------------------------------------------------------------
(* What the implementations compose *)

Bodied == {"set_nav_threshold", "set_nav_range_offset_and_gain", "contour_update"}

LEMMA BodiesAgree ==
    /\ DOMAIN BodyIn["cpp17"] = Bodied /\ DOMAIN BodyIn["cpp"] = Bodied /\ DOMAIN BodyIn["csharp"] = Bodied
    /\ DOMAIN BodyIn["python"] = {}
    /\ \A k \in Bodied : /\ BodyIn["cpp17"][k] \in Seq(Byte)
                         /\ BodyIn["cpp"][k] = BodyIn["cpp17"][k] /\ BodyIn["csharp"][k] = BodyIn["cpp17"][k]
<1> DEFINE t == Value(<<"threshold">>, 2)
           g == Value(<<"gain">>, 4)
           o == Value(<<"offset">>, 4)
           c == Value(<<"contour">>, 2)
<1>1. t \in Seq(Byte) /\ Len(t) = 2
  <2>1. <<"threshold">> \in Name BY DEF Name, Word
  <2> QED BY <2>1, ValueType
<1>2. g \in Seq(Byte) /\ Len(g) = 4
  <2>1. <<"gain">> \in Name BY DEF Name, Word
  <2> QED BY <2>1, ValueType
<1>3. o \in Seq(Byte) /\ Len(o) = 4
  <2>1. <<"offset">> \in Name BY DEF Name, Word
  <2> QED BY <2>1, ValueType
<1>4. c \in Seq(Byte)
  <2>1. <<"contour">> \in Name BY DEF Name, Word
  <2> QED BY <2>1, ValueType
<1>5. DOMAIN BodyIn["cpp17"] = Bodied /\ DOMAIN BodyIn["cpp"] = Bodied /\ DOMAIN BodyIn["csharp"] = Bodied
  BY DEF BodyIn, Bodied
<1>6. DOMAIN BodyIn["python"] = {} BY DEF BodyIn
<1>7. /\ BodyIn["cpp17"]["set_nav_threshold"] = ToNetwork(t)
      /\ BodyIn["cpp"]["set_nav_threshold"] = ToNetwork(t)
      /\ BodyIn["csharp"]["set_nav_threshold"] = Swap(HostMemory(t))
  BY DEF BodyIn, Cpp17Threshold, CppThreshold, CSharpThreshold
<1>8. /\ BodyIn["cpp17"]["set_nav_range_offset_and_gain"] = ToNetwork(g) \o ToNetwork(o)
      /\ BodyIn["cpp"]["set_nav_range_offset_and_gain"] = ToNetwork(g) \o ToNetwork(o)
      /\ BodyIn["csharp"]["set_nav_range_offset_and_gain"] = Swap(HostMemory(g)) \o Swap(HostMemory(o))
  BY DEF BodyIn, Cpp17GainAndOffset, CppGainAndOffset, CSharpGainAndOffset
<1>9. /\ BodyIn["cpp17"]["contour_update"] = c
      /\ BodyIn["cpp"]["contour_update"] = c
      /\ BodyIn["csharp"]["contour_update"] = c
  BY DEF BodyIn, Cpp17Contour, CppContour, CSharpContour
<1> HIDE DEF t, g, o, c
<1>10. ToNetwork(t) = t /\ ToNetwork(g) = g /\ ToNetwork(o) = o BY <1>1, <1>2, <1>3, Conversions
<1>11. Swap(HostMemory(t)) = t /\ Swap(HostMemory(g)) = g /\ Swap(HostMemory(o)) = o
  <2>1. Len(t) \in {2, 4} /\ Len(g) \in {2, 4} /\ Len(o) \in {2, 4} BY <1>1, <1>2, <1>3
  <2> QED BY <1>1, <1>2, <1>3, <2>1, SwapConversions
<1>12. g \o o \in Seq(Byte) BY <1>2, <1>3, ConcatProperties
<1>13. \A k \in Bodied : /\ BodyIn["cpp17"][k] \in Seq(Byte)
                         /\ BodyIn["cpp"][k] = BodyIn["cpp17"][k] /\ BodyIn["csharp"][k] = BodyIn["cpp17"][k]
  BY <1>1, <1>4, <1>7, <1>8, <1>9, <1>10, <1>11, <1>12 DEF Bodied
<1> QED BY <1>5, <1>6, <1>13

LEMMA CarriedType ==
    ASSUME NEW k, NEW n \in Nat
    PROVE  Carried(k, n) \in Seq(Byte)
<1>1. Stream(k, n) \in Seq(Byte) BY StreamType
<1>2. << >> \in Seq(Byte) BY EmptySeq
<1> QED BY <1>1, <1>2, BodiesAgree DEF Carried

LEMMA ComposedIs ==
    ASSUME NEW k, NEW n \in Nat
    PROVE  Composed("cpp17", k, n) = Header(k) \o Carried(k, n)
<1> DEFINE h == Header(k)
           s == IF k \in Streamed THEN Stream(k, n) ELSE << >>
           b == IF k \in DOMAIN BodyIn["cpp17"] THEN BodyIn["cpp17"][k] ELSE << >>
<1>1. Composed("cpp17", k, n) = h \o s \o b BY DEF Composed, Header, Stream
<1>2. h \in Seq(Byte) BY HeaderIs
<1>3. Stream(k, n) \in Seq(Byte) /\ << >> \in Seq(Byte) BY StreamType, EmptySeq
<1>4. s \in Seq(Byte) /\ b \in Seq(Byte) BY <1>3, BodiesAgree
<1>5. k \in Streamed => b = << >> BY BodiesAgree DEF Bodied, Streamed
<1>6. k \notin Streamed => s = << >> OBVIOUS
<1>7. Carried(k, n) = IF k \in Streamed THEN s ELSE b BY DEF Carried
<1> HIDE DEF h, s, b
<1>8. (h \o s) \o b = h \o (s \o b) BY SMTT(90), <1>2, <1>4, ConcatAssociative
<1>9. s \o << >> = s /\ << >> \o b = b BY <1>4, ConcatEmptySeq
<1> QED BY <1>1, <1>5, <1>6, <1>7, <1>8, <1>9 DEF h

\* What an implementation composes is what C++17 builds.
LEMMA ComposedAgree ==
    ASSUME NEW s \in {"cpp", "csharp", "python"}, NEW k \in Sends[s], NEW n \in Nat
    PROVE  Composed(s, k, n) = Composed("cpp17", k, n)
<1> DEFINE H(x) == IF HasHeader(x, k) THEN HeaderBytes(LayoutIn[x][k]) ELSE << >>
           B(x) == IF k \in DOMAIN BodyIn[x] THEN BodyIn[x][k] ELSE << >>
<1>1. H(s) = H("cpp17") /\ B(s) = B("cpp17")
  <2>1. CASE s = "cpp"
    <3>1. k \in HeadedKinds <=> k \in SharedKinds BY <2>1 DEF Sends, CppType, HeadedKinds, SharedKinds
    <3>2. H("cpp") = H("cpp17") BY <3>1, HeadedKindsAre, HeadersAgree
    <3>3. B("cpp") = B("cpp17") BY BodiesAgree
    <3> QED BY <2>1, <3>2, <3>3
  <2>2. CASE s = "csharp"
    <3>1. k \in HeadedKinds <=> k \in SharedKinds BY <2>2 DEF Sends, CSharpType, HeadedKinds, SharedKinds
    <3>2. H("csharp") = H("cpp17") BY <3>1, HeadedKindsAre, HeadersAgree
    <3>3. B("csharp") = B("cpp17") BY BodiesAgree
    <3> QED BY <2>2, <3>2, <3>3
  <2>3. CASE s = "python"
    <3>1. k \in {"start_fft_data", "start_nav_data", "set_navigation_configuration"} BY <2>3 DEF Sends
    <3>2. k \in HeadedKinds => k = "set_navigation_configuration" BY <3>1 DEF HeadedKinds, SharedKinds
    <3>3. H("python") = H("cpp17") BY <3>2, HeadedKindsAre, HeadersAgree
    <3>4. k \notin Bodied BY <3>1 DEF Bodied
    <3>5. B("python") = B("cpp17") BY <3>4, BodiesAgree
    <3> QED BY <2>3, <3>3, <3>5
  <2> QED BY <2>1, <2>2, <2>3
<1>2. \A x : Composed(x, k, n) = H(x) \o (IF k \in Streamed THEN FlattenSeq([i \in 1 .. n |-> Part(k, i)]) ELSE << >>) \o B(x)
  BY DEF Composed
<1> HIDE DEF H, B
<1> QED BY <1>1, <1>2

-----------------------------------------------------------------------------
(* The inductive invariant *)

Blanking == "sector_blanking_update"

\* What has been called so far
CallInv ==
    /\ sdk \in DOMAIN Sends /\ kind \in Sends[sdk]
    /\ headed \in BOOLEAN /\ (headed => HasHeader("cpp17", kind))
    /\ parts \in Nat
    /\ parts # 0 /\ kind \notin Streamed => parts = 1 /\ kind \in Bodied \cup {Blanking}
    /\ Numbered(sectors)

\* The Message: its header, if it has been added, then what has been appended
Prefix == IF headed THEN Header(kind) ELSE << >>
Content == IF parts = 0 THEN << >> ELSE IF kind = Blanking THEN SectorsToVector(sectors) ELSE Carried(kind, parts)

BuildInv ==
    sdk = "cpp17" =>
        /\ message.type \in {0, Cpp17Type[kind]}
        /\ parts = 0 => IsMessage(message, message.type, Prefix \o Content, FALSE)
        /\ parts # 0 => IsMessage(message, message.type, Prefix \o Content, TRUE)

\* What is sent
WireInv ==
    wire # NotSent =>
        /\ kind = Blanking => \E v, t : IsOnWire(wire, v, t, SectorsToVector(sectors))
        /\ kind # Blanking => \E v, t : IsOnWire(wire, v, t, Composed("cpp17", kind, parts))
        /\ kind \in HandledKinds => IsOnWire(wire, 1, Cpp17Type[kind], Composed("cpp17", kind, parts))

\* What has been read is a reading of it.
ReadInv ==
    /\ DOMAIN received = Readers
    /\ \A r \in Readers : received[r] # NotRead => wire # NotSent /\ kind \in Handles[r]
    /\ received["cpp17"] \in {NotRead, Cpp17Reading(wire)}
    /\ received["cpp"] \in {NotRead, CppReading(wire)}
    /\ received["csharp"] \in {NotRead, CSharpReading(wire)}
    /\ received["python"] \in {NotRead, PythonReading(wire)}

ListInv ==
    readBack # NotRead =>
        /\ wire # NotSent /\ kind = Blanking
        /\ readBack = IF FromVectorThrows(wire.payload) THEN Rejected ELSE [list |-> SectorsFromVector(wire.payload)]

MessageInv == CallInv /\ BuildInv /\ WireInv /\ ReadInv /\ ListInv

KindFacts ==
    /\ kind \in DOMAIN Cpp17Type
    /\ kind = Blanking => sdk = "cpp17" /\ kind \notin Streamed /\ kind \notin Bodied /\ ~ HasHeader("cpp17", kind)
    /\ kind \in Streamed => kind \notin Bodied

LEMMA KindsAre ==
    ASSUME sdk \in DOMAIN Sends, kind \in Sends[sdk]
    PROVE  KindFacts
<1>1. sdk \in {"cpp17", "cpp", "csharp", "python"} BY DEF Sends
<1>2. kind \in DOMAIN Cpp17Type
  <2>1. Sends["cpp17"] \subseteq DOMAIN Cpp17Type BY DEF Sends
  <2>2. Sends["cpp"] \subseteq DOMAIN Cpp17Type BY DEF Sends, CppType, Cpp17Type
  <2>3. Sends["csharp"] \subseteq DOMAIN Cpp17Type BY DEF Sends, CSharpType, Cpp17Type
  <2>4. Sends["python"] \subseteq DOMAIN Cpp17Type BY DEF Sends, Cpp17Type
  <2> QED BY <1>1, <2>1, <2>2, <2>3, <2>4
<1>3. kind = Blanking => sdk = "cpp17"
  <2>1. Blanking \notin Sends["cpp"] BY DEF Sends, CppType, Blanking
  <2>2. Blanking \notin Sends["csharp"] BY DEF Sends, CSharpType, Blanking
  <2>3. Blanking \notin Sends["python"] BY DEF Sends, Blanking
  <2> QED BY <1>1, <2>1, <2>2, <2>3
<1>4. Blanking \notin Streamed /\ Blanking \notin Bodied /\ Blanking \notin HeadedKinds
  BY DEF Blanking, Streamed, Bodied, HeadedKinds, SharedKinds
<1>5. kind \in Streamed => kind \notin Bodied BY DEF Streamed, Bodied
<1> QED BY <1>2, <1>3, <1>4, <1>5, HeadedKindsAre DEF KindFacts

LEMMA MessageInitInv == MessageInit => MessageInv
<1> SUFFICES ASSUME MessageInit PROVE MessageInv OBVIOUS
<1>1. CallInv
  <2>1. Numbered(sectors)
    <3>1. << >> \in Seq(Nat) /\ Len(<< >>) = 0 BY EmptySeq
    <3>2. Numbered(<< >>) BY <3>1 DEF Numbered
    <3>3. Numbered(<<1, 2, 3>>) BY DEF Numbered
    <3> QED BY <3>2, <3>3 DEF MessageInit
  <2> QED BY <2>1 DEF MessageInit, CallInv
<1>2. BuildInv
  <2>1. message.type = 0 /\ parts = 0 /\ Prefix = << >> /\ Content = << >> BY DEF MessageInit, NewMessage, Prefix, Content
  <2>2. << >> \o << >> = << >>
    <3>1. << >> \in Seq(Byte) BY EmptySeq
    <3> QED BY <3>1, ConcatEmptySeq
  <2>3. message = NewMessage BY DEF MessageInit
  <2> QED BY <2>1, <2>2, <2>3, NewMessageIs DEF BuildInv
<1>3. WireInv BY DEF MessageInit, WireInv
<1>4. ReadInv BY DEF MessageInit, ReadInv, Readers
<1>5. ListInv BY DEF MessageInit, ListInv
<1> QED BY <1>1, <1>2, <1>3, <1>4, <1>5 DEF MessageInv

-----------------------------------------------------------------------------
(* What the steps leave alone *)

LEMMA ReadingsRest ==
    ASSUME ReadInv, UNCHANGED <<kind, wire, received>>
    PROVE  ReadInv'
<1>1. Cpp17Reading(wire)' = Cpp17Reading(wire) BY DEF Cpp17Reading
<1>2. CppReading(wire)' = CppReading(wire) BY DEF CppReading
<1>3. CSharpReading(wire)' = CSharpReading(wire) BY DEF CSharpReading
<1>4. PythonReading(wire)' = PythonReading(wire) BY DEF PythonReading
<1> QED BY <1>1, <1>2, <1>3, <1>4, Zenon DEF ReadInv

\* Nothing is read before it is sent.
LEMMA ReadNothing ==
    ASSUME ReadInv, ListInv, wire = NotSent, UNCHANGED <<kind, received, readBack>>
    PROVE  ReadInv' /\ ListInv'
<1>1. \A r \in Readers : received[r] = NotRead BY DEF ReadInv
<1>2. {"cpp17", "cpp", "csharp", "python"} = Readers BY DEF Readers
<1>3. ReadInv' BY <1>1, <1>2 DEF ReadInv
<1>4. ListInv' BY DEF ListInv
<1> QED BY <1>3, <1>4

LEMMA ListRestsInv ==
    ASSUME ListInv, UNCHANGED <<kind, wire, readBack>>
    PROVE  ListInv'
BY DEF ListInv

LEMMA PrefixType ==
    ASSUME CallInv
    PROVE  Prefix \in Seq(Byte) /\ Content \in Seq(Byte)
<1>1. << >> \in Seq(Byte) BY EmptySeq
<1>2. Header(kind) \in Seq(Byte) BY HeaderIs
<1>3. SectorsToVector(sectors) \in Seq(Byte) BY VectorOfSectors DEF CallInv
<1>4. Carried(kind, parts) \in Seq(Byte) BY CarriedType DEF CallInv
<1> QED BY <1>1, <1>2, <1>3, <1>4 DEF Prefix, Content

-----------------------------------------------------------------------------
(* The steps *)

\* While a message is being built, nothing is sent or read.
LEMMA BuildingRests ==
    ASSUME MessageInv, wire = NotSent, wire' = NotSent, UNCHANGED <<sdk, kind, received, readBack>>, CallInv', BuildInv'
    PROVE  MessageInv'
<1>1. ReadInv' /\ ListInv' BY ReadNothing DEF MessageInv
<1>2. WireInv' BY DEF WireInv
<1> QED BY <1>1, <1>2 DEF MessageInv

LEMMA SetTypeInv == MessageInv /\ SetType => MessageInv'
<1> SUFFICES ASSUME MessageInv, SetType PROVE MessageInv' OBVIOUS
<1>0. CallInv /\ BuildInv BY DEF MessageInv
<1>1. /\ wire = NotSent /\ sdk = "cpp17" /\ message' = WithType(message, Cpp17Type[kind])
      /\ UNCHANGED <<headed, parts, sdk, kind, wire, received, sectors, answer, readBack>>
  BY DEF SetType, Building, BuildOn
<1>2. CallInv' BY <1>0, <1>1 DEF CallInv, Numbered
<1>3. Prefix' = Prefix /\ Content' = Content BY <1>1 DEF Prefix, Content
<1>4. PICK b : IsMessage(message, message.type, Prefix \o Content, b) BY <1>0, <1>1 DEF BuildInv
<1>5. message'.type = Cpp17Type[kind]
  <2>1. IsMessage(message', Cpp17Type[kind], Prefix \o Content, b) BY <1>1, <1>4, MessageCalls
  <2> QED BY <2>1 DEF IsMessage
<1>6. parts = 0 => IsMessage(message', Cpp17Type[kind], Prefix \o Content, FALSE)
  BY <1>0, <1>1, MessageCalls DEF BuildInv
<1>7. parts # 0 => IsMessage(message', Cpp17Type[kind], Prefix \o Content, TRUE)
  BY <1>0, <1>1, MessageCalls DEF BuildInv
<1>8. BuildInv' BY <1>1, <1>3, <1>5, <1>6, <1>7 DEF BuildInv
<1> QED BY <1>1, <1>2, <1>8, BuildingRests

LEMMA AddHeaderInv == MessageInv /\ AddHeader => MessageInv'
<1> SUFFICES ASSUME MessageInv, AddHeader PROVE MessageInv' OBVIOUS
<1>0. CallInv /\ BuildInv BY DEF MessageInv
<1> DEFINE h == Header(kind)
<1>1. /\ wire = NotSent /\ sdk = "cpp17" /\ HasHeader("cpp17", kind) /\ headed = FALSE /\ headed' = TRUE
      /\ message' = AppendHeader(message, h)
      /\ UNCHANGED <<parts, sdk, kind, wire, received, sectors, answer, readBack>>
  BY <1>0 DEF AddHeader, Building, BuildOn, Header, CallInv
<1>2. CallInv' BY <1>0, <1>1 DEF CallInv, HasHeader, Numbered
<1>3. Prefix = << >> /\ Prefix' = h /\ Content' = Content
  <2>1. Prefix = << >> BY <1>1 DEF Prefix
  <2>2. Content' = Content BY <1>1 DEF Content
  <2>3. Header(kind)' = Header(kind) BY <1>1 DEF Header
  <2>4. Prefix' = h BY <1>1, <2>3 DEF Prefix
  <2> QED BY <2>1, <2>2, <2>4
<1>4. h \in Seq(Byte) /\ Content \in Seq(Byte) BY <1>0, HeaderIs, PrefixType
<1> HIDE DEF h
<1>5. Prefix \o Content = Content BY <1>3, <1>4, ConcatEmptySeq
<1>6. message.type \in {0, Cpp17Type[kind]} BY <1>0, <1>1 DEF BuildInv
<1>7. CASE parts = 0
  <2>1. IsMessage(message, message.type, Content, FALSE) BY <1>0, <1>1, <1>5, <1>7 DEF BuildInv
  <2>2. Content = << >> BY <1>7 DEF Content
  <2>3. IsMessage(message', message.type, h \o Content, FALSE) BY <1>1, <1>4, <2>1, <2>2, HeaderFirst
  <2>4. message'.type = message.type BY <2>3 DEF IsMessage
  <2>5. BuildInv' BY <1>1, <1>3, <1>6, <1>7, <2>3, <2>4 DEF BuildInv
  <2> QED BY <1>1, <1>2, <2>5, BuildingRests
<1>8. CASE parts # 0
  <2>1. IsMessage(message, message.type, Content, TRUE) BY <1>0, <1>1, <1>5, <1>8 DEF BuildInv
  <2>2. IsMessage(message', message.type, h \o Content, TRUE) BY <1>1, <1>4, <2>1, HeaderFirst
  <2>3. message'.type = message.type BY <2>2 DEF IsMessage
  <2>4. BuildInv' BY <1>1, <1>3, <1>6, <1>8, <2>2, <2>3 DEF BuildInv
  <2> QED BY <1>1, <1>2, <2>4, BuildingRests
<1> QED BY <1>7, <1>8

\* A buffer that is appended goes after the content that is there.
LEMMA Appended ==
    ASSUME MessageInv, wire = NotSent, sdk = "cpp17", NEW x \in Seq(Byte), message' = AppendBuffer(message, x),
           UNCHANGED <<headed, sdk, kind, wire, received, sectors, answer, readBack>>,
           CallInv', parts' # 0, Content' = Content \o x
    PROVE  MessageInv'
<1>0. CallInv /\ BuildInv BY DEF MessageInv
<1>1. Prefix \in Seq(Byte) /\ Content \in Seq(Byte) BY <1>0, PrefixType
<1>2. (Prefix \o Content) \o x = Prefix \o (Content \o x) BY SMTT(90), <1>1, ConcatAssociative
<1>3. Prefix' = Prefix
  <2>1. Header(kind)' = Header(kind) BY DEF Header
  <2> QED BY <2>1 DEF Prefix
<1>4. PICK b : IsMessage(message, message.type, Prefix \o Content, b) BY <1>0 DEF BuildInv
<1>5. IsMessage(message', message.type, (Prefix \o Content) \o x, TRUE) BY <1>4, MessageCalls
<1>6. message'.type = message.type BY <1>5 DEF IsMessage
<1>7. message.type \in {0, Cpp17Type[kind]} BY <1>0 DEF BuildInv
<1>8. BuildInv' BY <1>2, <1>3, <1>5, <1>6, <1>7 DEF BuildInv
<1> QED BY <1>8, BuildingRests

LEMMA AddPartInv == MessageInv /\ AddPart => MessageInv'
<1> SUFFICES ASSUME MessageInv, AddPart PROVE MessageInv' OBVIOUS
<1>0. CallInv BY DEF MessageInv
<1> DEFINE n == parts + 1
           x == Part(kind, n)
<1>1. /\ wire = NotSent /\ sdk = "cpp17" /\ kind \in Streamed /\ parts' = n
      /\ message' = AppendBuffer(message, x)
      /\ UNCHANGED <<headed, sdk, kind, wire, received, sectors, answer, readBack>>
  BY DEF AddPart, Building, BuildOn
<1>2. parts \in Nat /\ n \in Nat /\ n # 0 BY <1>0 DEF CallInv
<1>3. x \in Seq(Byte) BY <1>2, PartType
<1>4. kind # Blanking BY <1>0, <1>1, KindsAre DEF CallInv, KindFacts
<1>5. Carried(kind, parts) = Stream(kind, parts) /\ Carried(kind, n) = Stream(kind, n) BY <1>1 DEF Carried
<1>6. Content = Stream(kind, parts)
  <2>1. parts = 0 => Stream(kind, parts) = << >> BY StreamNone
  <2> QED BY <1>4, <1>5, <2>1 DEF Content
<1>7. Stream(kind, n) = Stream(kind, parts) \o x BY <1>2, StreamNext
<1> HIDE DEF n, x
<1>8. Content' = Stream(kind, n)
  <2>1. Content' = Carried(kind', parts') BY <1>1, <1>2, <1>4 DEF Content
  <2> QED BY <1>1, <1>5, <2>1
<1>9. CallInv' BY <1>0, <1>1, <1>2 DEF CallInv, HasHeader, Numbered
<1> QED BY <1>1, <1>2, <1>3, <1>6, <1>7, <1>8, <1>9, Appended

LEMMA AddBodyInv == MessageInv /\ AddBody => MessageInv'
<1> SUFFICES ASSUME MessageInv, AddBody PROVE MessageInv' OBVIOUS
<1>0. CallInv BY DEF MessageInv
<1>1. /\ wire = NotSent /\ sdk = "cpp17" /\ parts = 0 /\ parts' = 1
      /\ UNCHANGED <<headed, sdk, kind, wire, received, sectors, answer, readBack>>
  BY DEF AddBody, Building, BuildOn
<1>2. KindFacts BY <1>0, KindsAre DEF CallInv
<1>3. Content = << >> BY <1>1 DEF Content
<1>4. CASE kind \in DOMAIN BodyIn[sdk] /\ message' = AppendBuffer(message, BodyIn[sdk][kind])
  <2> DEFINE x == BodyIn["cpp17"][kind]
  <2>1. kind \in Bodied BY <1>1, <1>4, BodiesAgree
  <2>2. kind # Blanking /\ kind \notin Streamed BY <1>2, <2>1 DEF KindFacts
  <2>3. x \in Seq(Byte) BY <2>1, BodiesAgree
  <2>4. message' = AppendBuffer(message, x) BY <1>1, <1>4
  <2>5. Carried(kind, 1) = x BY <2>1, <2>2, BodiesAgree DEF Carried
  <2> HIDE DEF x
  <2>6. << >> \o x = x BY <2>3, ConcatEmptySeq
  <2>7. Content' = Carried(kind', parts') BY <1>1, <2>2 DEF Content
  <2>8. Content' = Content \o x BY <1>1, <1>3, <2>5, <2>6, <2>7
  <2>9. CallInv' BY <1>0, <1>1, <2>1 DEF CallInv, HasHeader, Numbered
  <2> QED BY <1>1, <2>3, <2>4, <2>8, <2>9, Appended
<1>5. CASE kind = Blanking /\ message' = AppendBuffer(message, SectorsToVector(sectors))
  <2> DEFINE x == SectorsToVector(sectors)
  <2>1. x \in Seq(Byte) BY <1>0, VectorOfSectors DEF CallInv
  <2>2. Content' = SectorsToVector(sectors') BY <1>1, <1>5 DEF Content
  <2>3. Content' = x BY <1>1, <2>2
  <2> HIDE DEF x
  <2>4. << >> \o x = x BY <2>1, ConcatEmptySeq
  <2>5. Content' = Content \o x BY <1>3, <2>3, <2>4
  <2>6. CallInv' BY <1>0, <1>1, <1>5 DEF CallInv, HasHeader, Numbered
  <2>7. message' = AppendBuffer(message, x) BY <1>5 DEF x
  <2> QED BY <1>1, <2>1, <2>5, <2>6, <2>7, Appended
<1> QED BY <1>4, <1>5 DEF AddBody, Blanking

\* A record on the wire is not the NotSent one.
LEMMA OnWireIsSent ==
    ASSUME NEW w, NEW v, NEW t, NEW p, IsOnWire(w, v, t, p)
    PROVE  w # NotSent
<1>1. DOMAIN w = WireFields BY DEF IsOnWire
<1>2. DOMAIN NotSent = {"state"} BY DEF NotSent
<1>3. "signed" \in WireFields BY DEF WireFields
<1> QED BY <1>1, <1>2, <1>3

LEMMA SendInv == MessageInv /\ Send => MessageInv'
<1> SUFFICES ASSUME MessageInv, Send PROVE MessageInv' OBVIOUS
<1>0. CallInv /\ BuildInv BY DEF MessageInv
<1>1. /\ wire = NotSent /\ sdk = "cpp17" /\ message.type # 0 /\ wire' = Relinquish(message)
      /\ HasHeader("cpp17", kind) => headed
      /\ kind \in Bodied \cup {Blanking} => parts = 1
      /\ UNCHANGED <<sdk, kind, message, headed, parts, received, sectors, answer, readBack>>
  BY BodiesAgree DEF Send, Building, Blanking
<1>2. KindFacts BY <1>0, KindsAre DEF CallInv
<1>3. parts \in Nat BY <1>0 DEF CallInv
<1> DEFINE p == Prefix \o Content
           t == Cpp17Type[kind]
<1>4. message.type = t BY <1>0, <1>1 DEF BuildInv
<1>5. PICK b : IsMessage(message, t, p, b) BY <1>0, <1>1, <1>4 DEF BuildInv
<1>6. IsOnWire(wire', 1, t, p) BY <1>1, <1>5, MessageCalls
<1>7. Prefix = Header(kind) BY <1>0, <1>1 DEF Prefix, Header, CallInv
<1>8. ASSUME kind = Blanking PROVE WireInv'
  <2>1. Header(kind) = << >> BY <1>2, <1>8 DEF KindFacts, Header
  <2>2. Content = SectorsToVector(sectors) BY <1>1, <1>8 DEF Content
  <2>3. SectorsToVector(sectors) \in Seq(Byte) BY <1>0, VectorOfSectors DEF CallInv
  <2>4. p = SectorsToVector(sectors) BY <1>7, <2>1, <2>2, <2>3, ConcatEmptySeq
  <2>5. kind \notin HandledKinds BY <1>8 DEF HandledKinds, SharedKinds, Blanking
  <2> HIDE DEF p, t
  <2>6. WireInv' BY <1>1, <1>6, <1>8, <2>4, <2>5 DEF WireInv
  <2> QED BY <2>6
<1>9. ASSUME kind # Blanking PROVE WireInv'
  <2>1. Content = Carried(kind, parts)
    <3>1. CASE parts = 0
      <4>1. kind \notin Bodied BY <1>1, <3>1
      <4>2. Carried(kind, 0) = << >> BY <4>1, StreamNone, BodiesAgree DEF Carried
      <4> QED BY <3>1, <4>2 DEF Content
    <3>2. CASE parts # 0 BY <1>9, <3>2 DEF Content
    <3> QED BY <3>1, <3>2
  <2>2. p = Composed("cpp17", kind, parts) BY <1>3, <1>7, <2>1, ComposedIs
  <2>3. Composed("cpp17", kind, parts)' = Composed("cpp17", kind, parts) BY <1>1 DEF Composed
  <2> HIDE DEF p, t
  <2>4. IsOnWire(wire', 1, t, Composed("cpp17", kind, parts)) BY <1>6, <2>2
  <2>5. WireInv' BY <1>1, <1>9, <2>3, <2>4 DEF WireInv, t
  <2> QED BY <2>5
<1>10. WireInv' BY <1>8, <1>9
<1>11. CallInv' BY <1>0, <1>1 DEF CallInv, HasHeader, Numbered
<1>12. BuildInv'
  <2>1. Prefix' = Prefix /\ Content' = Content BY <1>1 DEF Prefix, Content, Header
  <2> QED BY <1>0, <1>1, <2>1 DEF BuildInv
<1>13. ReadInv' /\ ListInv' BY <1>1, ReadNothing DEF MessageInv
<1> QED BY <1>10, <1>11, <1>12, <1>13 DEF MessageInv

LEMMA SendComposedInv == MessageInv /\ SendComposed => MessageInv'
<1> SUFFICES ASSUME MessageInv, SendComposed PROVE MessageInv' OBVIOUS
<1>0. CallInv BY DEF MessageInv
<1>1. /\ wire = NotSent
      /\ UNCHANGED <<sdk, kind, message, headed, received, sectors, answer, readBack>>
  BY DEF SendComposed, Building
<1>2. PICK n \in IF kind \in Streamed THEN 0 .. MaxParts ELSE {0} :
         /\ \/ sdk = "cpp" /\ wire' = CppMessage(kind, n)
            \/ sdk = "csharp" /\ wire' = CSharpMessage(kind, n)
            \/ sdk = "python" /\ \E v \in {0, 1} : wire' = PythonMessage(kind, v)
         /\ parts' = n
  BY DEF SendComposed
<1>3. n \in Nat /\ (kind \notin Streamed => n = 0) BY <1>2, LimitsAssumption
<1>4. KindFacts /\ kind \in Sends[sdk] BY <1>0, KindsAre DEF CallInv
<1>5. sdk # "cpp17" /\ sdk \in {"cpp", "csharp", "python"} BY <1>2
<1>6. kind # Blanking BY <1>4, <1>5 DEF KindFacts
<1> DEFINE p == Composed("cpp17", kind, n)
           t == Cpp17Type[kind]
<1>7. Composed(sdk, kind, n) = p BY <1>3, <1>4, <1>5, ComposedAgree
<1>8. Composed("cpp17", kind, parts)' = p BY <1>1, <1>2 DEF Composed
<1>9. (\E v, u : IsOnWire(wire', v, u, p)) /\ (kind \in HandledKinds => IsOnWire(wire', 1, t, p))
  <2>1. CASE sdk = "cpp"
    <3>1. wire' = CppMessage(kind, n) BY <1>2, <2>1
    <3>2. Composed("cpp", kind, n) = p BY <1>7, <2>1
    <3> HIDE DEF p, t
    <3>3. IsOnWire(wire', 1, CppType[kind], p) BY <3>1, <3>2 DEF CppMessage, IsOnWire, WireFields
    <3>4. kind \in HandledKinds => kind \in SharedKinds BY <1>4, <2>1 DEF HandledKinds, SharedKinds, Sends, CppType
    <3>5. kind \in SharedKinds => CppType[kind] = t BY TypesAre DEF t
    <3> QED BY <3>3, <3>4, <3>5
  <2>2. CASE sdk = "csharp"
    <3> DEFINE u == CSharpType[IF kind = "contour_update" THEN "set_nav_range_offset_and_gain" ELSE kind]
    <3>1. wire' = CSharpMessage(kind, n) BY <1>2, <2>2
    <3>2. Composed("csharp", kind, n) = p BY <1>7, <2>2
    <3>3. kind \in HandledKinds => kind \in SharedKinds BY <1>4, <2>2 DEF HandledKinds, SharedKinds, Sends, CSharpType
    <3>4. kind \in SharedKinds => u = t
      <4>1. kind \in SharedKinds => kind # "contour_update" BY DEF SharedKinds
      <4> QED BY <4>1, TypesAre
    <3>5. wire' = [signed |-> TRUE, version |-> 1, type |-> u, size |-> Len(p), payload |-> p]
      BY <3>1, <3>2 DEF CSharpMessage
    <3> HIDE DEF p, t, u
    <3>6. IsOnWire(wire', 1, u, p) BY <3>5 DEF IsOnWire, WireFields
    <3> QED BY <3>3, <3>4, <3>6
  <2>3. CASE sdk = "python"
    <3>1. PICK v \in {0, 1} : wire' = PythonMessage(kind, v) BY <1>2, <2>3
    <3>2. kind \in {"start_fft_data", "start_nav_data", "set_navigation_configuration"} BY <1>4, <2>3 DEF Sends
    <3>3. kind \notin HandledKinds /\ kind \notin Streamed BY <3>2 DEF HandledKinds, SharedKinds, Streamed
    <3>4. n = 0 BY <1>3, <3>3
    <3>5. Composed("python", kind, 0) = p BY <1>7, <2>3, <3>4
    <3>6. wire' = [signed |-> TRUE, version |-> v, type |-> PythonType[kind], size |-> Len(p), payload |-> p]
      BY <3>1, <3>5 DEF PythonMessage
    <3> HIDE DEF p, t
    <3>7. IsOnWire(wire', v, PythonType[kind], p) BY <3>6 DEF IsOnWire, WireFields
    <3> QED BY <3>3, <3>7
  <2> QED BY <1>5, <2>1, <2>2, <2>3
<1> HIDE DEF p, t
<1>10. WireInv' BY <1>1, <1>6, <1>8, <1>9 DEF WireInv, t
<1>11. CallInv' BY <1>0, <1>1, <1>2, <1>3 DEF CallInv, HasHeader, Numbered
<1>12. BuildInv' BY <1>1, <1>5 DEF BuildInv
<1>13. ReadInv' /\ ListInv' BY <1>1, ReadNothing DEF MessageInv
<1> QED BY <1>10, <1>11, <1>12, <1>13 DEF MessageInv

\* A reading is put in its place, of a message that is there to be read.
LEMMA ReadingStep ==
    ASSUME MessageInv, NEW r \in Readers, NEW x, Read(r, x)
    PROVE  /\ CallInv' /\ BuildInv' /\ WireInv' /\ ListInv'
           /\ UNCHANGED <<sdk, kind, parts, wire>>
           /\ DOMAIN received' = Readers /\ received'[r] = x
           /\ \A q \in Readers \ {r} : received'[q] = received[q]
           /\ \A q \in Readers : received'[q] # NotRead => wire # NotSent /\ kind \in Handles[q]
<1>0. CallInv /\ BuildInv /\ WireInv /\ ReadInv /\ ListInv BY DEF MessageInv
<1>1. /\ wire # NotSent /\ kind \in Handles[r] /\ received' = [received EXCEPT ![r] = x]
      /\ UNCHANGED <<sdk, kind, message, headed, parts, wire, sectors, answer, readBack>>
  BY DEF Read
<1>2. CallInv' BY <1>0, <1>1 DEF CallInv, HasHeader, Numbered
<1>3. BuildInv'
  <2>1. Prefix' = Prefix /\ Content' = Content BY <1>1 DEF Prefix, Content, Header
  <2> QED BY <1>0, <1>1, <2>1 DEF BuildInv
<1>4. WireInv'
  <2>1. Composed("cpp17", kind, parts)' = Composed("cpp17", kind, parts) BY <1>1 DEF Composed
  <2> QED BY <1>0, <1>1, <2>1 DEF WireInv
<1>5. ListInv' BY <1>0, <1>1, ListRestsInv
<1>6. /\ DOMAIN received' = Readers /\ received'[r] = x
      /\ \A q \in Readers \ {r} : received'[q] = received[q]
  BY <1>0, <1>1 DEF ReadInv
<1>7. \A q \in Readers : received'[q] # NotRead => wire # NotSent /\ kind \in Handles[q]
  BY <1>0, <1>1, <1>6 DEF ReadInv
<1> QED BY <1>1, <1>2, <1>3, <1>4, <1>5, <1>6, <1>7

LEMMA ReadsInv == MessageInv /\ (Cpp17Reads \/ CppReads \/ CSharpReads \/ PythonReads) => MessageInv'
<1> SUFFICES ASSUME MessageInv, Cpp17Reads \/ CppReads \/ CSharpReads \/ PythonReads PROVE MessageInv' OBVIOUS
<1> DEFINE a == Cpp17Reading(wire)
           b == CppReading(wire)
           c == CSharpReading(wire)
           d == PythonReading(wire)
<1>1. /\ received["cpp17"] \in {NotRead, a} /\ received["cpp"] \in {NotRead, b}
      /\ received["csharp"] \in {NotRead, c} /\ received["python"] \in {NotRead, d}
  BY DEF MessageInv, ReadInv
<1>2. \/ Read("cpp17", a) \/ Read("cpp", b) \/ Read("csharp", c) \/ Read("python", d)
  BY DEF Cpp17Reads, CppReads, CSharpReads, PythonReads
<1>3. Readers = {"cpp17", "cpp", "csharp", "python"} BY DEF Readers
<1>4. kind' = kind /\ wire' = wire BY <1>2 DEF Read
<1>5. Cpp17Reading(wire)' = a BY <1>4 DEF Cpp17Reading
<1>6. CppReading(wire)' = b BY <1>4 DEF CppReading
<1>7. CSharpReading(wire)' = c BY <1>4 DEF CSharpReading
<1>8. PythonReading(wire)' = d BY <1>4 DEF PythonReading
<1> HIDE DEF a, b, c, d
<1>9. ASSUME NEW r \in Readers, NEW x, Read(r, x), <<r, x>> \in {<<"cpp17", a>>, <<"cpp", b>>, <<"csharp", c>>, <<"python", d>>}
      PROVE  MessageInv'
  <2>1. /\ CallInv' /\ BuildInv' /\ WireInv' /\ ListInv' /\ DOMAIN received' = Readers /\ received'[r] = x
        /\ \A q \in Readers \ {r} : received'[q] = received[q]
        /\ \A q \in Readers : received'[q] # NotRead => wire # NotSent /\ kind \in Handles[q]
    BY <1>9, ReadingStep
  <2>2. /\ received'["cpp17"] \in {NotRead, a} /\ received'["cpp"] \in {NotRead, b}
        /\ received'["csharp"] \in {NotRead, c} /\ received'["python"] \in {NotRead, d}
    BY <1>1, <1>3, <1>9, <2>1
  <2>3. ReadInv' BY <1>4, <1>5, <1>6, <1>7, <1>8, <2>1, <2>2 DEF ReadInv
  <2> QED BY <2>1, <2>3 DEF MessageInv
<1>10. "cpp17" \in Readers /\ "cpp" \in Readers /\ "csharp" \in Readers /\ "python" \in Readers BY <1>3
<1> QED BY <1>2, <1>9, <1>10

LEMMA NumberedNext ==
    ASSUME NEW list, Numbered(list)
    PROVE  Numbered(WithSector(list))
<1> DEFINE n == Len(list) + 1
           longer == Append(list, n)
<1>1. list \in Seq(Nat) /\ Len(list) \in Nat BY LenProperties DEF Numbered
<1>2. n \in Nat BY <1>1
<1> HIDE DEF n
<1>3. /\ longer \in Seq(Nat) /\ Len(longer) = Len(list) + 1
      /\ \A i \in 1 .. Len(list) : longer[i] = list[i]
      /\ longer[Len(list) + 1] = n
  BY <1>1, <1>2, AppendProperties
<1> HIDE DEF longer
<1>4. \A i \in 1 .. Len(longer) : i \in 1 .. Len(list) \/ i = n BY <1>1, <1>3 DEF n
<1>5. longer[n] = n BY <1>3 DEF n
<1>6. \A i \in 1 .. Len(longer) : longer[i] = i BY <1>3, <1>4, <1>5 DEF Numbered
<1>7. Numbered(longer) BY <1>3, <1>6 DEF Numbered
<1> QED BY <1>7 DEF WithSector, longer, n

LEMMA AddSectorInv == MessageInv /\ (AddSectorCopy \/ AddSectorMove) => MessageInv'
<1> SUFFICES ASSUME MessageInv, AddSectorCopy \/ AddSectorMove PROVE MessageInv' OBVIOUS
<1>0. CallInv /\ BuildInv BY DEF MessageInv
<1>1. /\ wire = NotSent /\ parts = 0 /\ sectors' = WithSector(sectors)
      /\ UNCHANGED <<sdk, kind, message, headed, parts, wire, received, readBack>>
  BY DEF AddSectorCopy, AddSectorMove, Listing, Building, ListRests
<1>2. Numbered(sectors') BY <1>0, <1>1, NumberedNext DEF CallInv
<1>3. CallInv' BY <1>0, <1>1, <1>2 DEF CallInv, HasHeader
<1>4. BuildInv'
  <2>1. Content' = << >> /\ Content = << >> BY <1>1 DEF Content
  <2>2. Prefix' = Prefix BY <1>1 DEF Prefix, Header
  <2> QED BY <1>0, <1>1, <2>1, <2>2 DEF BuildInv
<1> QED BY <1>1, <1>3, <1>4, BuildingRests

LEMMA ReadSectorsInv == MessageInv /\ ReadSectors => MessageInv'
<1> SUFFICES ASSUME MessageInv, ReadSectors PROVE MessageInv' OBVIOUS
<1>0. CallInv /\ BuildInv /\ WireInv /\ ReadInv BY DEF MessageInv
<1>1. /\ kind = Blanking /\ wire # NotSent
      /\ readBack' = IF FromVectorThrows(wire.payload) THEN Rejected ELSE [list |-> SectorsFromVector(wire.payload)]
      /\ UNCHANGED <<sectors, answer, sdk, kind, message, headed, parts, wire, received>>
  BY DEF ReadSectors, ListRests, Blanking
<1>2. CallInv' BY <1>0, <1>1 DEF CallInv, HasHeader, Numbered
<1>3. BuildInv'
  <2>1. Prefix' = Prefix /\ Content' = Content BY <1>1 DEF Prefix, Content, Header
  <2> QED BY <1>0, <1>1, <2>1 DEF BuildInv
<1>4. WireInv'
  <2>1. Composed("cpp17", kind, parts)' = Composed("cpp17", kind, parts) BY <1>1 DEF Composed
  <2> QED BY <1>0, <1>1, <2>1 DEF WireInv
<1>5. ReadInv' BY <1>0, <1>1, ReadingsRest
<1>6. ListInv' BY <1>1 DEF ListInv
<1> QED BY <1>2, <1>3, <1>4, <1>5, <1>6 DEF MessageInv

LEMMA MessageStutterInv == MessageInv /\ UNCHANGED messageVars => MessageInv'
<1> SUFFICES ASSUME MessageInv, UNCHANGED messageVars PROVE MessageInv' OBVIOUS
<1>0. CallInv /\ BuildInv /\ WireInv /\ ReadInv /\ ListInv BY DEF MessageInv
<1>1. UNCHANGED <<sdk, kind, message, headed, parts, wire, received, sectors, answer, readBack>> BY DEF messageVars
<1>2. CallInv' BY <1>0, <1>1 DEF CallInv, HasHeader, Numbered
<1>3. BuildInv'
  <2>1. Prefix' = Prefix /\ Content' = Content BY <1>1 DEF Prefix, Content, Header
  <2> QED BY <1>0, <1>1, <2>1 DEF BuildInv
<1>4. WireInv'
  <2>1. Composed("cpp17", kind, parts)' = Composed("cpp17", kind, parts) BY <1>1 DEF Composed
  <2> QED BY <1>0, <1>1, <2>1 DEF WireInv
<1>5. ReadInv' BY <1>0, <1>1, ReadingsRest
<1>6. ListInv' BY <1>0, <1>1, ListRestsInv
<1> QED BY <1>2, <1>3, <1>4, <1>5, <1>6 DEF MessageInv

LEMMA MessageNextInv == MessageInv /\ [MessageNext]_messageVars => MessageInv'
BY SetTypeInv, AddHeaderInv, AddPartInv, AddBodyInv, SendInv, SendComposedInv, ReadsInv, AddSectorInv,
   ReadSectorsInv, MessageStutterInv
   DEF MessageNext

LEMMA MessageInvSent == MessageInv => SentAsBuilt
<1> SUFFICES ASSUME MessageInv, wire # NotSent
             PROVE  /\ wire.signed /\ wire.size = Len(wire.payload)
                    /\ wire.payload = IF kind = Blanking THEN SectorsToVector(sectors) ELSE Composed("cpp17", kind, parts)
  BY DEF SentAsBuilt, Blanking
<1>1. WireInv BY DEF MessageInv
<1>2. CASE kind = Blanking BY <1>1, <1>2 DEF WireInv, IsOnWire
<1>3. CASE kind # Blanking BY <1>1, <1>3 DEF WireInv, IsOnWire
<1> QED BY <1>2, <1>3

\* A reader reads what it has a handler for.
LEMMA HandlesAre ==
    /\ \A r \in Readers : Handles[r] \subseteq HandledKinds
    /\ Handles["cpp"] = SharedKinds /\ Handles["csharp"] = SharedKinds
    /\ Handles["python"] \subseteq HeadedKinds
BY DEF Handles, Readers, HandledKinds, SharedKinds, HeadedKinds

LEMMA ReadIsReadable ==
    ASSUME MessageInv, NEW r \in Readers, received[r] # NotRead
    PROVE  /\ Readable /\ kind \in Handles[r]
           /\ received["cpp17"] \in {NotRead, Cpp17Reading(wire)}
           /\ received["cpp"] \in {NotRead, CppReading(wire)}
           /\ received["csharp"] \in {NotRead, CSharpReading(wire)}
           /\ received["python"] \in {NotRead, PythonReading(wire)}
<1>1. CallInv /\ WireInv /\ ReadInv BY DEF MessageInv
<1>2. wire # NotSent /\ kind \in Handles[r] BY <1>1 DEF ReadInv
<1>3. kind \in HandledKinds BY <1>2, HandlesAre
<1>4. parts \in Nat BY <1>1 DEF CallInv
<1>5. kind = "navigation_configuration" => parts = 0
  <2>1. "navigation_configuration" \notin Streamed /\ "navigation_configuration" \notin Bodied \cup {Blanking}
    BY DEF Streamed, Bodied, Blanking
  <2> QED BY <1>1, <2>1 DEF CallInv
<1>6. IsOnWire(wire, 1, Cpp17Type[kind], Composed("cpp17", kind, parts)) BY <1>1, <1>2, <1>3 DEF WireInv
<1>7. Composed("cpp17", kind, parts) = Header(kind) \o Carried(kind, parts) BY <1>4, ComposedIs
<1>8. Readable BY <1>3, <1>4, <1>5, <1>6, <1>7 DEF Readable
<1> QED BY <1>1, <1>2, <1>8 DEF ReadInv

LEMMA MessageInvRead == MessageInv => ReadAsSent
<1> SUFFICES ASSUME MessageInv PROVE ReadAsSent OBVIOUS
<1>1. CallInv /\ WireInv /\ ReadInv /\ ListInv BY DEF MessageInv
<1>2. "cpp17" \in Readers /\ "cpp" \in Readers /\ "csharp" \in Readers /\ "python" \in Readers BY DEF Readers
<1>3. ASSUME NEW r \in Readers, received[r] \notin {NotRead, Rejected}
      PROVE  AsSent(r, received[r])
  <2>1. Readable /\ kind \in Handles[r] BY <1>3, ReadIsReadable
  <2>2. wire.size \in Nat BY <2>1, PayloadIs
  <2>3. CASE r = "cpp17"
    <3>1. received[r] = Cpp17Reading(wire) BY <1>3, <2>3, ReadIsReadable
    <3>2. ~ (wire.size >= LargestPayload) BY <1>3, <2>1, <3>1, Cpp17Read
    <3>3. wire.size < LargestPayload BY <2>2, <3>2, LimitsAssumption
    <3> QED BY <2>1, <2>3, <3>1, <3>3, Cpp17Read
  <2>4. CASE r = "cpp"
    <3>1. received[r] = CppReading(wire) BY <1>3, <2>4, ReadIsReadable
    <3>2. kind \in SharedKinds BY <2>1, <2>4, HandlesAre
    <3>3. ~ (wire.size > MaxPayloadSize) BY <1>3, <2>1, <3>1, <3>2, CppRead
    <3>4. wire.size <= MaxPayloadSize BY <2>2, <3>3, LimitsAssumption
    <3> QED BY <2>1, <2>4, <3>1, <3>2, <3>4, CppRead
  <2>5. CASE r = "csharp"
    <3>1. received[r] = CSharpReading(wire) BY <1>3, <2>5, ReadIsReadable
    <3>2. kind \in SharedKinds BY <2>1, <2>5, HandlesAre
    <3> QED BY <2>1, <2>5, <3>1, <3>2, CSharpRead
  <2>6. CASE r = "python"
    <3>1. received[r] = PythonReading(wire) BY <1>3, <2>6, ReadIsReadable
    <3>2. kind \in HeadedKinds BY <2>1, <2>6, HandlesAre
    <3> QED BY <2>1, <2>6, <3>1, <3>2, PythonRead
  <2> QED BY <2>3, <2>4, <2>5, <2>6 DEF Readers
<1>4. NotRead # Rejected BY DEF NotRead, Rejected
<1>5. received["cpp17"] = Rejected => wire.size >= LargestPayload
  <2> SUFFICES ASSUME received["cpp17"] = Rejected PROVE wire.size >= LargestPayload OBVIOUS
  <2>1. Readable /\ received["cpp17"] = Cpp17Reading(wire) BY <1>2, <1>4, ReadIsReadable
  <2>2. wire.size \in Nat BY <2>1, PayloadIs
  <2>3. ~ (wire.size < LargestPayload) BY <2>1, Cpp17Read
  <2> QED BY <2>2, <2>3, LimitsAssumption
<1>6. received["cpp"] = Rejected => wire.size > MaxPayloadSize /\ received["cpp17"] \in {NotRead, Rejected}
  <2> SUFFICES ASSUME received["cpp"] = Rejected
               PROVE  wire.size > MaxPayloadSize /\ received["cpp17"] \in {NotRead, Rejected}
    OBVIOUS
  <2>1. /\ Readable /\ kind \in Handles["cpp"] /\ received["cpp"] = CppReading(wire)
        /\ received["cpp17"] \in {NotRead, Cpp17Reading(wire)}
    BY <1>2, <1>4, ReadIsReadable
  <2>2. kind \in SharedKinds BY <2>1, HandlesAre
  <2>3. wire.size \in Nat BY <2>1, PayloadIs
  <2>4. ~ (wire.size <= MaxPayloadSize) BY <2>1, <2>2, CppRead
  <2>5. wire.size > MaxPayloadSize /\ wire.size >= LargestPayload BY <2>3, <2>4, LimitsAssumption
  <2>6. Cpp17Reading(wire) = Rejected BY <2>1, <2>5, Cpp17Read
  <2> QED BY <2>1, <2>5, <2>6
<1>7. ASSUME readBack # NotRead
      PROVE  /\ readBack = Rejected <=> Len(sectors) % 4 # 0
             /\ readBack # Rejected => readBack.list = SectorsSent(sectors)
  <2>1. /\ wire # NotSent /\ kind = Blanking
        /\ readBack = IF FromVectorThrows(wire.payload) THEN Rejected ELSE [list |-> SectorsFromVector(wire.payload)]
    BY <1>1, <1>7 DEF ListInv
  <2>2. wire.payload = SectorsToVector(sectors) BY <1>1, <2>1 DEF WireInv, IsOnWire
  <2>3. /\ FromVectorThrows(wire.payload) <=> Len(sectors) % 4 # 0
        /\ SectorsFromVector(wire.payload) = SectorsSent(sectors)
    BY <1>1, <2>2, SectorsFound DEF CallInv
  <2> DEFINE x == [list |-> SectorsFromVector(wire.payload)]
  <2>4. DOMAIN x = {"list"} /\ x.list = SectorsSent(sectors) BY <2>3
  <2>5. DOMAIN Rejected = {"state"} BY DEF Rejected
  <2>6. readBack = IF Len(sectors) % 4 # 0 THEN Rejected ELSE x BY <2>1, <2>3
  <2> HIDE DEF x
  <2>7. x # Rejected BY <2>4, <2>5
  <2> QED BY <2>4, <2>6, <2>7
<1>8. \A r \in Readers : received[r] \notin {NotRead, Rejected} =>
          /\ received[r].type = Cpp17Type[kind]
          /\ FieldsAsSent(r, received[r].fields)
          /\ received[r].buffer = BufferRead(r)
  BY <1>3 DEF AsSent
<1>9. readBack \notin {NotRead, Rejected} => readBack.list = SectorsSent(sectors) BY <1>7
<1>10. readBack # NotRead => (readBack = Rejected <=> Len(sectors) % 4 # 0) BY <1>7
<1> QED BY <1>5, <1>6, <1>8, <1>9, <1>10 DEF ReadAsSent, FieldsAsSent, SectorsSent

\* However the calls of the C++17 Message are ordered, and whichever
\* implementation sends, what was called, what the Message holds, what is on
\* the wire and what was read from it fit together.
THEOREM MessageSpecInv == MessageSpec => []MessageInv
<1>1. MessageInit => MessageInv BY MessageInitInv
<1>2. MessageInv /\ [MessageNext]_messageVars => MessageInv' BY MessageNextInv
<1> QED BY <1>1, <1>2, PTL DEF MessageSpec

\* For every order of append() calls, any number of parts of any size and any
\* list of sectors: the message on the wire is its header, in network order,
\* then the parts as they were appended, and its size is theirs; what the
\* older C++, the C# and the Python code send is byte for byte what C++17 does.
THEOREM MessageSentAsBuilt == MessageSpec => []SentAsBuilt
<1>1. MessageInv => SentAsBuilt BY MessageInvSent
<1> QED BY <1>1, MessageSpecInv, PTL

\* Every handler of the four implementations gets the type, the fields, the
\* data and the peaks that were sent, from every sender; a message is rejected
\* only for its length, by C++17's is_valid() before the older HeaderIsValid();
\* from_vector() of a list's to_vector() is the list, or throws when the number
\* of sectors is no multiple of four.
THEOREM MessageReadAsSent == MessageSpec => []ReadAsSent
<1>1. MessageInv => ReadAsSent BY MessageInvRead
<1> QED BY <1>1, MessageSpecInv, PTL

-----------------------------------------------------------------------------
(***************************************************************************)
(* OldRadarClient, for any number of sessions, of lost connections and of  *)
(* messages, and for every depth of the queue.                             *)
(***************************************************************************)

USE DEF None, SetConnectionState, GetConnectionState, NotifyConnect, Copied, Idle

\* The types of what the invariant speaks of.
ThreadType ==
    /\ bound \in BOOLEAN /\ running \in BOOLEAN /\ reading \in BOOLEAN
    /\ late \in Nat /\ starts \in Nat

\* `_running` is set from Start() to the step of Stop() that closes the socket.
RunningInv ==
    /\ app \in {"idle", "starting", "started", "stoppingQueue", "joiningQueue",
                "joiningConnect", "joiningRead"}
    /\ running <=> app \in {"starting", "started", "stoppingQueue", "joiningQueue"}

\* Stop() waits for the three threads in turn, and none comes back.
JoinedInv ==
    /\ app \in {"joiningConnect", "joiningRead", "idle"} => worker \in Idle
    /\ app \in {"joiningRead", "idle"} => connect \in Idle
    /\ app = "idle" => read \in Idle

\* Inside a session the read thread is told to go on until it has left its loop.
ReadingInv == running /\ read \in {"testing", "pushing"} => reading

\* A callback counted as late was copied before it was unset: none is left.
LateInv == late = 0 \/ (late = 1 /\ ~bound /\ worker # "calling")

\* Before the first session nothing was ever reported ...
FreshInv == starts = 0 => ~running /\ state = "Disconnected"

\* ... and in it the state follows the connect and the read thread.
FirstSessionInv ==
    starts = 1 /\ running =>
        /\ state = "Connected" => read \in {"testing", "pushing"} \/ connect = "reporting"
        /\ connect \in {"dialling", "joining"} => state # "Connected"
        /\ read \in {"none", "testing", "pushing", "ended"}

ControlInv ==
    /\ RunningInv /\ JoinedInv /\ ReadingInv /\ LateInv /\ FreshInv /\ FirstSessionInv

IInv == ThreadType /\ ControlInv

LEMMA InvInit == Init => IInv
<1>1. Init => ThreadType
  <2>1. 0 \in Nat OBVIOUS
  <2> QED BY <2>1, Zenon DEF Init, ThreadType
<1>2. Init => ControlInv
  BY DEF Init, ControlInv, RunningInv, JoinedInv, ReadingInv, LateInv, FreshInv,
     FirstSessionInv
<1> QED BY <1>1, <1>2 DEF IInv

----------------------------------------------------------------------------
\* Every step keeps the types.
LEMMA TypeStep == ASSUME ThreadType, Next PROVE ThreadType'
<1> USE DEF ThreadType
<1>1. CASE AppSteps
  <2>1. CASE Start
    <3>1. starts' \in Nat /\ late' \in Nat BY <2>1 DEF Start
    <3> QED BY <2>1, <3>1, Zenon DEF Start, readVars
  <2>2. CASE UnsetCallbacks
    BY <2>2, Zenon DEF UnsetCallbacks, connVars, readVars, workVars
  <2>3. CASE StopJoinsQueue
    BY <2>3, Zenon DEF StopJoinsQueue, readVars, workVars
  <2>4. CASE StopJoinsConnect
    BY <2>4, Zenon DEF StopJoinsConnect, connVars, workVars
  <2>5. CASE StartNotifies \/ AppRequests \/ StopFFTData \/ StopRequestsQueue
             \/ StopClearsQueue \/ StopJoinsRead
    BY <2>5 DEF StartNotifies, AppRequests, StopFFTData, StopRequestsQueue,
       StopClearsQueue, StopJoinsRead, appVars, connVars, readVars, workVars
  <2> QED BY <1>1, <2>1, <2>2, <2>3, <2>4, <2>5 DEF AppSteps
<1>2. CASE ConnectSteps
  <2>1. CASE ReaderStarts
    BY <2>1, Zenon DEF ReaderStarts, ConnectRests, appVars, workVars
  <2>2. CASE ConnectSteps /\ ~ReaderStarts
    BY <2>2 DEF ConnectSteps, ConnectTests, ConnectWaits, ConnectWakes, DialFails,
       DialSucceeds, ReportThenRead, ConnectReports, TimerTicks, ConnectRests, appVars,
       readVars, workVars
  <2> QED BY <1>2, <2>1, <2>2
<1>3. CASE ReadSteps
  <2>1. CASE ReadStops \/ ReadInterrupted \/ ReadFails
    BY <2>1, Zenon DEF ReadStops, ReadInterrupted, ReadFails, ReadRests, appVars, workVars
  <2>2. CASE ReadMessage \/ SkipMessage \/ ReadPushes
    BY <2>2 DEF ReadMessage, SkipMessage, ReadPushes, ReadRests, appVars, connVars,
       readVars, workVars
  <2> QED BY <1>3, <2>1, <2>2 DEF ReadSteps
<1>4. CASE WorkerSteps
  BY <1>4 DEF WorkerSteps, WorkerTakes, WorkerWaits, WorkerEnds, Handle, CallBack,
     WorkRests, appVars, readVars
<1>5. CASE RadarSends \/ RadarCloses
  BY <1>5 DEF RadarSends, RadarCloses, RadarRests, appVars, connVars, readVars, workVars
<1> QED BY <1>1, <1>2, <1>3, <1>4, <1>5 DEF Next

\* A request changes the state only to say that the connection is lost.
LEMMA RequestFact ==
    ASSUME NEW on, Request(on)
    PROVE  state' = state \/ state' = "Disconnected"
BY DEF Request

\* The application's calls.
LEMMA AppStep == ASSUME IInv, AppSteps PROVE ControlInv'
<1> USE DEF IInv, ControlInv, ThreadType, appVars, connVars, readVars, workVars
<1>1. CASE Start
  BY <1>1 DEF Start, RunningInv, JoinedInv, ReadingInv, LateInv, FreshInv,
     FirstSessionInv
<1>2. CASE StartNotifies
  BY <1>2 DEF StartNotifies, RunningInv, JoinedInv, ReadingInv, LateInv, FreshInv,
     FirstSessionInv
<1>3. CASE AppRequests \/ StopFFTData
  <2>1. state' = state \/ state' = "Disconnected"
    BY <1>3, RequestFact DEF AppRequests, StopFFTData
  <2> QED
    BY <1>3, <2>1 DEF AppRequests, StopFFTData, RunningInv, JoinedInv, ReadingInv,
       LateInv, FreshInv, FirstSessionInv
<1>4. CASE UnsetCallbacks
  BY <1>4 DEF UnsetCallbacks, RunningInv, JoinedInv, ReadingInv, LateInv, FreshInv,
     FirstSessionInv
<1>5. CASE StopRequestsQueue \/ StopClearsQueue
  <2>1. /\ app \in {"started", "stoppingQueue"} /\ app' \in {"stoppingQueue", "joiningQueue"}
        /\ worker' # worker => worker' = "testing"
        /\ UNCHANGED <<bound, starts, running, state, connect, reading, read, late>>
    BY <1>5 DEF StopRequestsQueue, StopClearsQueue
  <2> QED
    BY <2>1 DEF RunningInv, JoinedInv, ReadingInv, LateInv, FreshInv, FirstSessionInv
<1>6. CASE StopJoinsQueue
  BY <1>6 DEF StopJoinsQueue, RunningInv, JoinedInv, ReadingInv, LateInv, FreshInv,
     FirstSessionInv
<1>7. CASE StopJoinsConnect \/ StopJoinsRead
  BY <1>7 DEF StopJoinsConnect, StopJoinsRead, RunningInv, JoinedInv, ReadingInv,
     LateInv, FreshInv, FirstSessionInv
<1> QED BY <1>1, <1>2, <1>3, <1>4, <1>5, <1>6, <1>7 DEF AppSteps

\* connect() reports the connection before it starts the reader, and after it
\* joined the last one.
LEMMA ConnectStep == ASSUME IInv, ConnectSteps PROVE ControlInv'
<1> USE DEF IInv, ControlInv, ThreadType, appVars, readVars, workVars, ConnectRests
<1>1. CASE ConnectTests \/ ConnectWaits \/ TimerTicks
  BY <1>1 DEF ConnectTests, ConnectWaits, TimerTicks, RunningInv, JoinedInv, ReadingInv,
     LateInv, FreshInv, FirstSessionInv
<1>2. CASE ConnectWakes
  BY <1>2 DEF ConnectWakes, RunningInv, JoinedInv, ReadingInv, LateInv, FreshInv,
     FirstSessionInv
<1>3. CASE DialFails \/ DialSucceeds
  BY <1>3 DEF DialFails, DialSucceeds, RunningInv, JoinedInv, ReadingInv, LateInv,
     FreshInv, FirstSessionInv
<1>4. CASE ConnectReports
  BY <1>4 DEF ConnectReports, RunningInv, JoinedInv, ReadingInv, LateInv, FreshInv,
     FirstSessionInv
<1>5. CASE ReaderStarts
  BY <1>5 DEF ReaderStarts, RunningInv, JoinedInv, ReadingInv, LateInv, FreshInv,
     FirstSessionInv
<1> QED BY <1>1, <1>2, <1>3, <1>4, <1>5 DEF ConnectSteps, ReportThenRead

\* The read thread reports the loss whenever it leaves a session that goes on.
LEMMA ReadStep == ASSUME IInv, ReadSteps PROVE ControlInv'
<1> USE DEF IInv, ControlInv, ThreadType, appVars, workVars, ReadRests
<1>1. CASE ReadStops
  BY <1>1 DEF ReadStops, RunningInv, JoinedInv, ReadingInv, LateInv, FreshInv,
     FirstSessionInv
<1>2. CASE ReadMessage \/ SkipMessage
  BY <1>2 DEF ReadMessage, SkipMessage, connVars, readVars, RunningInv, JoinedInv,
     ReadingInv, LateInv, FreshInv, FirstSessionInv
<1>3. CASE ReadInterrupted \/ ReadFails
  BY <1>3 DEF ReadInterrupted, ReadFails, RunningInv, JoinedInv, ReadingInv, LateInv,
     FreshInv, FirstSessionInv
<1>4. CASE ReadPushes
  BY <1>4 DEF ReadPushes, RunningInv, JoinedInv, ReadingInv, LateInv, FreshInv,
     FirstSessionInv
<1> QED BY <1>1, <1>2, <1>3, <1>4 DEF ReadSteps

\* A callback is copied while it is bound and called once.
LEMMA WorkerStep == ASSUME IInv, WorkerSteps PROVE ControlInv'
<1> USE DEF IInv, ControlInv, ThreadType, appVars, readVars, WorkRests
<1>1. CASE WorkerTakes \/ WorkerWaits \/ WorkerEnds
  BY <1>1 DEF WorkerTakes, WorkerWaits, WorkerEnds, RunningInv, JoinedInv, ReadingInv,
     LateInv, FreshInv, FirstSessionInv
<1>2. CASE Handle
  <2>1. state' = state \/ state' = "Disconnected" BY <1>2, RequestFact DEF Handle
  <2> QED
    BY <1>2, <2>1 DEF Handle, RunningInv, JoinedInv, ReadingInv, LateInv, FreshInv,
       FirstSessionInv
<1>3. CASE CallBack
  <2>1. state' = state \/ state' = "Disconnected" BY <1>3, RequestFact DEF CallBack
  <2> QED
    BY <1>3, <2>1 DEF CallBack, RunningInv, JoinedInv, ReadingInv, LateInv, FreshInv,
       FirstSessionInv
<1> QED BY <1>1, <1>2, <1>3 DEF WorkerSteps

LEMMA InvStep == IInv /\ [Next]_vars => IInv'
<1> SUFFICES ASSUME IInv, [Next]_vars PROVE IInv'
  OBVIOUS
<1> USE DEF appVars, connVars, readVars, workVars
<1>1. CASE Next
  <2>1. CASE RadarSends \/ RadarCloses
    BY <2>1 DEF RadarSends, RadarCloses, RadarRests, IInv, ControlInv, ThreadType,
       RunningInv, JoinedInv, ReadingInv, LateInv, FreshInv, FirstSessionInv
  <2>2. ControlInv' \/ RadarSends \/ RadarCloses
    BY <1>1, AppStep, ConnectStep, ReadStep, WorkerStep DEF Next
  <2>3. ThreadType' BY <1>1, TypeStep DEF IInv
  <2> QED BY <2>1, <2>2, <2>3 DEF IInv
<1>2. CASE UNCHANGED vars
  BY <1>2 DEF vars, IInv, ControlInv, ThreadType, RunningInv, JoinedInv, ReadingInv,
     LateInv, FreshInv, FirstSessionInv
<1> QED BY <1>1, <1>2

LEMMA Invariance == Spec => []IInv
BY InvInit, InvStep, PTL DEF Spec

\* In its first session the older client, too, says that it is connected only with
\* a reader at work or about to start.
THEOREM StateHasReader == Spec => []ConnectedHasReader
<1>1. IInv => ConnectedHasReader
  BY DEF IInv, ControlInv, FirstSessionInv, ConnectedHasReader
<1> QED BY <1>1, Invariance, PTL

\* An unset callback runs at most once more, and Stop() leaves no thread behind.
THEOREM StopIsQuiet == Spec => []QuietAfterUnset
<1>1. IInv => QuietAfterUnset
  BY DEF IInv, ControlInv, LateInv, JoinedInv, QuietAfterUnset
<1> QED BY <1>1, Invariance, PTL

=============================================================================
