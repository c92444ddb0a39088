------------------------ MODULE StreamFraming_proofs ------------------------
(***************************************************************************)
(* Theorems about StreamFraming, for every signature, header and payload   *)
(* size, any number of messages and every division into pieces.            *)
(***************************************************************************)
EXTENDS StreamFraming, TLAPS, SequenceTheorems

Byte == [msg : Nat, at : Nat]

TypeOK ==
    /\ wire \in Wires /\ sent \in 0 .. Len(wire)
    /\ pc \in {"peek", "skip", "header", "payload", "lost"}
    /\ pending \in Seq(Byte) /\ inbox \in Seq(Byte)
    /\ signature \in Seq(Byte) /\ taken \in Seq(Byte)
    /\ delivered \in Seq(Seq(Byte)) /\ shortPeeks \subseteq Nat

Total(i) == HeaderSize + wire[i].size

\* Byte b starts, and ends, a message.
Starts(b) == b.at = 1
Ends(b) == b.at = Total(b.msg)

\* A piece of the radar's stream that ends where message n ends: two of its bytes are
\* of one message exactly if they are as far from each other as in that message, and
\* a message is followed by the first byte of the next.
PieceUpTo(s, n) ==
    /\ \A k \in 1 .. Len(s) : s[k].msg \in 1 .. n /\ s[k].at \in 1 .. Total(s[k].msg)
    /\ \A j, k \in 1 .. Len(s) :
           /\ s[j].msg = s[k].msg <=> s[k].at + (j - k) \in 1 .. Total(s[k].msg)
           /\ s[j].msg = s[k].msg => s[j].at = s[k].at + (j - k)
    /\ \A k \in 1 .. Len(s) - 1 :
           Ends(s[k]) => s[k + 1].msg = s[k].msg + 1 /\ Starts(s[k + 1])
    /\ s # <<>> => s[Len(s)].msg = n /\ Ends(s[Len(s)])

StreamInv == PieceUpTo(Ahead, sent)

\* What a peek that was cut short leaves behind, and the byte it makes the thread skip.
PeekInv ==
    /\ signature # <<>> =>
           /\ pc = "peek" /\ Len(signature) < SignatureSize
           /\ inbox # <<>> /\ signature[1] = inbox[1]
    /\ signature # <<>> \/ pc = "skip" =>
           inbox # <<>> /\ (Starts(inbox[1]) => inbox[1].msg \in shortPeeks)

\* A message is received from its first byte, and no further than it goes.
TakenInv ==
    /\ pc \in {"peek", "skip"} => taken = <<>>
    /\ pc = "header" /\ taken = <<>> => inbox # <<>> /\ Starts(inbox[1])
    /\ taken # <<>> => Starts(taken[1])
    /\ pc = "header" => Len(taken) <= HeaderSize
    /\ pc = "payload" => taken # <<>> /\ wire[taken[1].msg].valid
                                      /\ Len(taken) <= Total(taken[1].msg)

\* The message the thread is at, and whether it is past its first byte
Current == IF Ahead = <<>> THEN sent + 1 ELSE Ahead[1].msg
Within == Ahead # <<>> /\ ~Starts(Ahead[1])

\* What was delivered are messages, in order, and the thread is past them.
DeliveredInv ==
    \A d \in 1 .. Len(delivered) :
        LET i == delivered[d][1].msg
        IN  /\ i \in 1 .. sent /\ wire[i].valid /\ delivered[d] = Bytes(i)
            /\ d > 1 => delivered[d - 1][1].msg < i
            /\ i < Current

\* The first byte of message i is behind the thread.
Begun(i) == i < Current \/ (i = Current /\ Within)

LostInv ==
    \A i \in 1 .. sent : wire[i].valid /\ Begun(i) => IsDelivered(i) \/ i \in shortPeeks

IInv == TypeOK /\ StreamInv /\ PeekInv /\ TakenInv /\ DeliveredInv /\ LostInv

----------------------------------------------------------------------------
(* Sequences *)

LEMMA CutFacts ==
    ASSUME NEW S, NEW s \in Seq(S), NEW n \in 0 .. Len(s)
    PROVE  /\ First(s, n) \in Seq(S) /\ Len(First(s, n)) = n
           /\ \A i \in 1 .. n : First(s, n)[i] = s[i]
           /\ After(s, n) \in Seq(S) /\ Len(After(s, n)) = Len(s) - n
           /\ \A i \in 1 .. Len(s) - n : After(s, n)[i] = s[n + i]
<1>1. Len(s) \in Nat BY LenProperties
<1>2. \A i \in 1 .. Len(s) : s[i] \in S BY ElementOfSeq
<1>3. /\ First(s, n) \in Seq(S) /\ Len(First(s, n)) = n
      /\ \A i \in 1 .. n : First(s, n)[i] = s[i]
  <2>1. \A i \in 1 .. n : s[i] \in S BY <1>1, <1>2
  <2>2. /\ SubSeq(s, 1, n) \in Seq(S)
        /\ Len(SubSeq(s, 1, n)) = IF 1 <= n THEN n - 1 + 1 ELSE 0
        /\ \A i \in 1 .. n - 1 + 1 : SubSeq(s, 1, n)[i] = s[1 + i - 1]
    BY <1>1, <2>1, SubSeqProperties
  <2> QED BY <1>1, <2>2 DEF First
<1>4. /\ After(s, n) \in Seq(S) /\ Len(After(s, n)) = Len(s) - n
      /\ \A i \in 1 .. Len(s) - n : After(s, n)[i] = s[n + i]
  <2>1. \A i \in n + 1 .. Len(s) : s[i] \in S BY <1>1, <1>2
  <2>2. /\ SubSeq(s, n + 1, Len(s)) \in Seq(S)
        /\ Len(SubSeq(s, n + 1, Len(s))) = IF n + 1 <= Len(s) THEN Len(s) - (n + 1) + 1 ELSE 0
        /\ \A i \in 1 .. Len(s) - (n + 1) + 1 : SubSeq(s, n + 1, Len(s))[i] = s[n + 1 + i - 1]
    BY <1>1, <2>1, SubSeqProperties
  <2> QED BY SMTT(90), <1>1, <2>2 DEF After
<1> QED BY <1>3, <1>4

LEMMA CutJoined ==
    ASSUME NEW S, NEW s \in Seq(S), NEW n \in 0 .. Len(s)
    PROVE  First(s, n) \o After(s, n) = s
<1> DEFINE f == First(s, n)
           a == After(s, n)
<1>1. Len(s) \in Nat BY LenProperties
<1>2. /\ f \in Seq(S) /\ Len(f) = n /\ \A i \in 1 .. n : f[i] = s[i]
      /\ a \in Seq(S) /\ Len(a) = Len(s) - n /\ \A i \in 1 .. Len(s) - n : a[i] = s[n + i]
  BY CutFacts
<1> HIDE DEF f, a
<1>3. /\ f \o a \in Seq(S) /\ Len(f \o a) = Len(f) + Len(a)
      /\ \A i \in 1 .. Len(f) + Len(a) :
             (f \o a)[i] = IF i <= Len(f) THEN f[i] ELSE a[i - Len(f)]
  BY <1>2, ConcatProperties
<1>4. \A i \in 1 .. Len(s) : (f \o a)[i] = s[i]
  BY <1>1, <1>2, <1>3
<1>5. Len(f \o a) = Len(s) /\ \A i \in 1 .. Len(f \o a) : (f \o a)[i] = s[i]
  BY <1>1, <1>2, <1>3, <1>4
<1>6. f \o a = s BY <1>3, <1>5, SeqEqual
<1> QED BY <1>6 DEF f, a

\* Moving the beginning of one sequence to the end of the one before it leaves what
\* they make together.
LEMMA MovedToSecond ==
    \A r, s, t, u \in Seq(Byte) : (r \o (s \o t)) \o u = (r \o s) \o (t \o u)
<1> TAKE r, s, t, u \in Seq(Byte)
<1>1. r \o s \in Seq(Byte) BY ConcatProperties
<1>2. r \o (s \o t) = (r \o s) \o t BY SMTT(90), ConcatAssociative
<1>3. ((r \o s) \o t) \o u = (r \o s) \o (t \o u) BY SMTT(90), <1>1, ConcatAssociative
<1> QED BY <1>2, <1>3

----------------------------------------------------------------------------
(* Pieces of the stream *)

LEMMA TotalFacts ==
    ASSUME TypeOK
    PROVE  /\ Len(wire) \in Nat /\ sent \in Nat
           /\ \A i \in 1 .. Len(wire) :
                  /\ wire[i].valid \in BOOLEAN /\ wire[i].size \in Nat
                  /\ Total(i) \in Nat /\ Total(i) = HeaderSize + wire[i].size
                  /\ Total(i) >= HeaderSize
           /\ HeaderSize \in Nat /\ SignatureSize \in Nat
           /\ SignatureSize >= 1 /\ HeaderSize >= SignatureSize
<1>1. wire \in Seq([size : Nat, valid : BOOLEAN])
  BY FramingAssumption DEF TypeOK
<1>2. \A i \in 1 .. Len(wire) : wire[i] \in [size : Nat, valid : BOOLEAN]
  BY <1>1, ElementOfSeq
<1> QED BY SMTT(90), <1>1, <1>2, FramingAssumption, LenProperties DEF TypeOK, Total

LEMMA BytesFacts ==
    ASSUME TypeOK, NEW i \in 1 .. Len(wire)
    PROVE  /\ Bytes(i) \in Seq(Byte) /\ Len(Bytes(i)) = Total(i)
           /\ \A k \in 1 .. Total(i) : Bytes(i)[k].msg = i /\ Bytes(i)[k].at = k
<1>1. Total(i) \in Nat /\ Total(i) = HeaderSize + wire[i].size /\ i \in Nat
  BY TotalFacts
<1>2. Bytes(i) = [k \in 1 .. Total(i) |-> [msg |-> i, at |-> k]]
  BY <1>1 DEF Bytes
<1> HIDE DEF Total
<1>3. Bytes(i) \in [1 .. Total(i) -> Byte] BY <1>1, <1>2 DEF Byte
<1>4. Bytes(i) \in Seq(Byte) BY <1>1, <1>3
<1> QED BY <1>1, <1>2, <1>3, <1>4

LEMMA PiecePairs ==
    ASSUME NEW s \in Seq(Byte), NEW n, PieceUpTo(s, n),
           NEW j \in 1 .. Len(s), NEW k \in 1 .. Len(s)
    PROVE  /\ s[j].msg = s[k].msg <=> s[k].at + (j - k) \in 1 .. Total(s[k].msg)
           /\ s[j].msg = s[k].msg => s[j].at = s[k].at + (j - k)
BY DEF PieceUpTo

\* A piece that starts with a message has it in its places, and then the next.
LEMMA PieceFacts ==
    ASSUME TypeOK, NEW s \in Seq(Byte), NEW n \in 0 .. Len(wire), PieceUpTo(s, n), s # <<>>,
           Starts(s[1])
    PROVE  LET m == s[1].msg
           IN  /\ m \in 1 .. n /\ Total(m) <= Len(s)
               /\ \A k \in 1 .. Total(m) : s[k].msg = m /\ s[k].at = k
               /\ Total(m) < Len(s) =>
                      s[Total(m) + 1].msg = m + 1 /\ Starts(s[Total(m) + 1])
               /\ Total(m) = Len(s) => m = n
<1> DEFINE m == s[1].msg
           L == Len(s)
<1>1. L \in Nat /\ L >= 1 BY EmptySeq
<1>2. m \in 1 .. n /\ m \in 1 .. Len(wire) /\ s[1].at = 1
  BY <1>1, TotalFacts DEF PieceUpTo, Starts
<1>3. Total(m) \in Nat /\ Total(m) >= 1 BY SMTT(90), <1>2, TotalFacts
<1> HIDE DEF Total
<1>4. Total(m) <= L
  <2> SUFFICES ASSUME L < Total(m) PROVE FALSE BY <1>1, <1>3
  <2>1. s[1].at + (L - 1) \in 1 .. Total(s[1].msg) BY <1>1, <1>2, <1>3
  <2>p. 1 \in 1 .. Len(s) /\ Len(s) \in 1 .. Len(s) BY <1>1
  <2>2. s[L].msg = m /\ s[L].at = s[1].at + (L - 1) BY <2>1, <2>p, PiecePairs
  <2>3. s[L].at = Total(s[L].msg) BY DEF PieceUpTo, Ends
  <2> QED BY <1>1, <1>2, <1>3, <2>2, <2>3
<1>5. \A k \in 1 .. Total(m) : s[k].msg = m /\ s[k].at = k
  <2> TAKE k \in 1 .. Total(m)
  <2>1. k \in 1 .. L /\ 1 \in 1 .. L BY <1>1, <1>3, <1>4
  <2>2. s[1].at + (k - 1) = k /\ s[1].at + (k - 1) \in 1 .. Total(s[1].msg)
    BY <1>2, <1>3
  <2> QED BY <1>2, <2>1, <2>2, PiecePairs
<1>6. s[Total(m)].msg = m /\ s[Total(m)].at = Total(m) BY <1>3, <1>5
<1>7. ASSUME Total(m) < L PROVE s[Total(m) + 1].msg = m + 1 /\ Starts(s[Total(m) + 1])
  <2>1. Total(m) \in 1 .. Len(s) - 1 /\ Ends(s[Total(m)])
    BY <1>1, <1>3, <1>6, <1>7 DEF Ends
  <2>2. \A k \in 1 .. Len(s) - 1 :
            Ends(s[k]) => s[k + 1].msg = s[k].msg + 1 /\ Starts(s[k + 1])
    BY DEF PieceUpTo
  <2> QED BY <1>6, <2>1, <2>2
<1>8. Total(m) = L => m = n
  BY <1>6 DEF PieceUpTo
<1> QED BY <1>2, <1>4, <1>5, <1>7, <1>8

\* What is left of a piece is a piece.
LEMMA PieceAfter ==
    ASSUME TypeOK, NEW s \in Seq(Byte), NEW n \in 0 .. Len(wire), PieceUpTo(s, n),
           NEW d \in 0 .. Len(s)
    PROVE  PieceUpTo(After(s, d), n)
<1> DEFINE a == After(s, d)
<1>0. Len(s) \in Nat BY LenProperties
<1>c. a \in Seq(Byte) /\ Len(a) = Len(s) - d /\ \A k \in 1 .. Len(s) - d : a[k] = s[d + k]
  BY CutFacts
<1>1. /\ a \in Seq(Byte) /\ Len(a) = Len(s) - d /\ Len(s) \in Nat
      /\ \A k \in 1 .. Len(a) : a[k] = s[d + k] /\ d + k \in 1 .. Len(s)
  BY <1>0, <1>c
<1> HIDE DEF a
<1>2. \A k \in 1 .. Len(a) : a[k].msg \in 1 .. n /\ a[k].at \in 1 .. Total(a[k].msg)
  <2> TAKE k \in 1 .. Len(a)
  <2>1. a[k] = s[d + k] /\ d + k \in 1 .. Len(s) BY <1>1
  <2>2. s[d + k].msg \in 1 .. n /\ s[d + k].at \in 1 .. Total(s[d + k].msg)
    BY <2>1, Zenon DEF PieceUpTo
  <2> QED BY <2>1, <2>2, Zenon
<1>3. ASSUME NEW j \in 1 .. Len(a), NEW k \in 1 .. Len(a)
      PROVE  /\ a[j].msg = a[k].msg <=> a[k].at + (j - k) \in 1 .. Total(a[k].msg)
             /\ a[j].msg = a[k].msg => a[j].at = a[k].at + (j - k)
  <2>i. d \in Int /\ j \in Int /\ k \in Int BY <1>1
  <2>j. (d + j) - (d + k) = j - k BY <2>i
  <2>k. d + j \in 1 .. Len(s) /\ d + k \in 1 .. Len(s) /\ a[j] = s[d + j] /\ a[k] = s[d + k]
    BY <1>1, Zenon
  <2>1. (d + j) - (d + k) = j - k /\ d + j \in 1 .. Len(s) /\ d + k \in 1 .. Len(s)
        /\ a[j] = s[d + j] /\ a[k] = s[d + k]
    BY <2>j, <2>k
  <2>2. /\ s[d + j].msg = s[d + k].msg
               <=> s[d + k].at + ((d + j) - (d + k)) \in 1 .. Total(s[d + k].msg)
        /\ s[d + j].msg = s[d + k].msg => s[d + j].at = s[d + k].at + ((d + j) - (d + k))
    BY <2>1 DEF PieceUpTo
  <2> QED BY <2>1, <2>2
<1>4. ASSUME NEW k \in 1 .. Len(a) - 1, Ends(a[k])
      PROVE  a[k + 1].msg = a[k].msg + 1 /\ Starts(a[k + 1])
  <2>1. d \in Nat /\ Len(a) = Len(s) - d /\ Len(s) \in Nat BY <1>1
  <2>2. k \in 1 .. Len(a) /\ k + 1 \in 1 .. Len(a) /\ k \in Int BY <2>1
  <2>3. d + k \in 1 .. Len(s) - 1 /\ d + (k + 1) = (d + k) + 1 BY <2>1, <2>2
  <2>4. a[k] = s[d + k] /\ a[k + 1] = s[d + (k + 1)] BY <1>1, <2>2, Zenon
  <2>5. a[k + 1] = s[(d + k) + 1] BY <2>3, <2>4, Zenon
  <2> QED BY <1>4, <2>3, <2>4, <2>5 DEF PieceUpTo
<1>5. ASSUME a # <<>> PROVE a[Len(a)].msg = n /\ Ends(a[Len(a)])
  <2>1. Len(a) >= 1 BY <1>1, <1>5, EmptySeq
  <2>2. a[Len(a)] = s[Len(s)] /\ s # <<>> BY SMTT(90), <1>1, <2>1
  <2> QED BY <2>2 DEF PieceUpTo
<1> QED BY <1>2, <1>3, <1>4, <1>5 DEF PieceUpTo, a

\* The next message makes it longer.
LEMMA PieceAnd ==
    ASSUME TypeOK, NEW s \in Seq(Byte), sent < Len(wire), PieceUpTo(s, sent)
    PROVE  PieceUpTo(s \o Bytes(sent + 1), sent + 1)
<1> DEFINE b == Bytes(sent + 1)
           t == s \o b
           L == Len(s)
           T == Total(sent + 1)
<1>0. sent \in Nat /\ sent + 1 \in 1 .. Len(wire) /\ L \in Nat /\ T \in Nat /\ T >= 1
  BY TotalFacts, LenProperties
<1>1. b \in Seq(Byte) /\ Len(b) = T /\ \A k \in 1 .. T : b[k].msg = sent + 1 /\ b[k].at = k
  BY <1>0, BytesFacts
<1>2. /\ t \in Seq(Byte) /\ Len(t) = L + T
      /\ \A k \in 1 .. L : t[k] = s[k]
      /\ \A k \in L + 1 .. L + T : t[k].msg = sent + 1 /\ t[k].at = k - L
  <2> HIDE DEF b
  <2>1. /\ s \o b \in Seq(Byte) /\ Len(s \o b) = Len(s) + Len(b)
        /\ \A k \in 1 .. Len(s) + Len(b) :
               (s \o b)[k] = IF k <= Len(s) THEN s[k] ELSE b[k - Len(s)]
    BY <1>1, ConcatProperties
  <2> QED BY SMTT(90), <1>0, <1>1, <2>1
<1> HIDE DEF b, t, L, T
<1>3. \A k \in 1 .. L : /\ s[k].msg \in 1 .. sent /\ s[k].at \in 1 .. Total(s[k].msg)
                        /\ Total(s[k].msg) \in Nat
  BY SMTT(90), <1>0, TotalFacts DEF PieceUpTo, L
<1>4. \A k \in 1 .. L, j \in L + 1 .. L + T : s[k].at + (j - k) > Total(s[k].msg)
  <2> TAKE k \in 1 .. L, j \in L + 1 .. L + T
  <2>i. s[k].at \in 1 .. Total(s[k].msg) /\ Total(s[k].msg) \in Nat BY <1>3
  <2>j. L \in Nat /\ T \in Nat BY <1>0
  <2>k. /\ s[k].at \in Nat /\ s[k].at >= 1 /\ Total(s[k].msg) \in Nat
        /\ L - k \in Nat /\ j - k \in Nat /\ L - k < j - k
    BY <2>i, <2>j
  <2>1. L \in 1 .. L /\ s # <<>> BY <1>0 DEF L
  <2>2. s[L].at = Total(s[L].msg) BY <2>1 DEF PieceUpTo, Ends, L
  <2>3. s[k].at + (L - k) >= Total(s[k].msg)
    <3>1. CASE s[L].msg = s[k].msg
      <4>1. s[L].at = s[k].at + (L - k) BY <2>1, <3>1, PiecePairs DEF L
      <4> QED BY <1>0, <1>3, <2>2, <3>1, <4>1
    <3>2. CASE s[L].msg # s[k].msg
      <4>1. s[k].at + (L - k) \notin 1 .. Total(s[k].msg)
        BY <2>1, <3>2, PiecePairs DEF L
      <4> QED BY <2>k, <4>1
    <3> QED BY <3>1, <3>2
  <2> QED BY SMTT(90), <2>k, <2>3
<1>5. \A k \in 1 .. L + T : t[k].msg \in 1 .. sent + 1 /\ t[k].at \in 1 .. Total(t[k].msg)
  <2> TAKE k \in 1 .. L + T
  <2>1. CASE k <= L
    <3>1. k \in 1 .. L /\ t[k] = s[k] BY <1>0, <1>2, <2>1
    <3> QED BY SMTT(90), <1>0, <1>3, <3>1
  <2>2. CASE k > L
    <3>1. k \in L + 1 .. L + T BY <1>0, <2>2
    <3>2. t[k].msg = sent + 1 /\ t[k].at = k - L BY <1>2, <3>1
    <3> QED BY <1>0, <3>1, <3>2 DEF T
  <2> QED BY <1>0, <2>1, <2>2
<1>6. ASSUME NEW j \in 1 .. L + T, NEW k \in 1 .. L + T
      PROVE  /\ t[j].msg = t[k].msg <=> t[k].at + (j - k) \in 1 .. Total(t[k].msg)
             /\ t[j].msg = t[k].msg => t[j].at = t[k].at + (j - k)
  <2>1. CASE k <= L /\ j <= L
    <3>1. k \in 1 .. L /\ j \in 1 .. L /\ t[k] = s[k] /\ t[j] = s[j] BY <1>0, <1>2, <2>1
    <3> QED BY <3>1 DEF PieceUpTo, L
  <2>2. CASE k <= L /\ j > L
    <3>1. k \in 1 .. L /\ j \in L + 1 .. L + T /\ t[k] = s[k] /\ t[j].msg = sent + 1
      BY <1>0, <1>2, <2>2
    <3> QED BY SMTT(90), <1>0, <1>3, <1>4, <3>1
  <2>3. CASE k > L /\ j <= L
    <3>1. k \in L + 1 .. L + T /\ j \in 1 .. L /\ t[j] = s[j] /\ t[k].msg = sent + 1
          /\ t[k].at = k - L
      BY SMTT(90), <1>0, <1>2, <2>3
    <3> QED BY <1>0, <1>3, <3>1
  <2>4. CASE k > L /\ j > L
    <3>1. k \in L + 1 .. L + T /\ j \in L + 1 .. L + T BY <1>0, <2>4
    <3> QED BY SMTT(90), <1>0, <1>2, <3>1 DEF T
  <2> QED BY <1>0, <2>1, <2>2, <2>3, <2>4
<1>7. ASSUME NEW k \in 1 .. L + T - 1, Ends(t[k])
      PROVE  t[k + 1].msg = t[k].msg + 1 /\ Starts(t[k + 1])
  <2>1. CASE k < L
    <3>1. k \in 1 .. L - 1 /\ t[k] = s[k] /\ t[k + 1] = s[k + 1] BY SMTT(90), <1>0, <1>2, <2>1
    <3> QED BY <1>7, <3>1 DEF PieceUpTo, L
  <2>2. CASE k = L
    <3>1. t[k] = s[L] /\ s # <<>> /\ t[k + 1].msg = sent + 1 /\ t[k + 1].at = 1
      BY SMTT(90), <1>0, <1>2, <2>2 DEF L
    <3> QED BY <3>1 DEF PieceUpTo, Starts, L
  <2>3. CASE k > L
    <3>1. t[k].msg = sent + 1 /\ t[k].at = k - L BY <1>0, <1>2, <2>3
    <3> QED BY <1>0, <1>7, <2>3, <3>1 DEF Ends, T
  <2> QED BY <1>0, <2>1, <2>2, <2>3
<1>8. t[L + T].msg = sent + 1 /\ Ends(t[L + T])
  BY <1>0, <1>2 DEF Ends, T
<1>9. PieceUpTo(t, sent + 1)
  <2>0. Len(t) = L + T /\ L + T >= 1 BY <1>0, <1>2
  <2>1. \A k \in 1 .. Len(t) : t[k].msg \in 1 .. sent + 1 /\ t[k].at \in 1 .. Total(t[k].msg)
    BY <1>5, <2>0
  <2>2. \A j, k \in 1 .. Len(t) :
            /\ t[j].msg = t[k].msg <=> t[k].at + (j - k) \in 1 .. Total(t[k].msg)
            /\ t[j].msg = t[k].msg => t[j].at = t[k].at + (j - k)
    BY <1>6, <2>0
  <2>3. \A k \in 1 .. Len(t) - 1 :
            Ends(t[k]) => t[k + 1].msg = t[k].msg + 1 /\ Starts(t[k + 1])
    <3> TAKE k \in 1 .. Len(t) - 1
    <3>1. k \in 1 .. L + T - 1 BY <1>0, <2>0
    <3> QED BY <1>7, <3>1
  <2>4. t[Len(t)].msg = sent + 1 /\ Ends(t[Len(t)]) BY <1>8, <2>0
  <2> QED BY <2>1, <2>2, <2>3, <2>4 DEF PieceUpTo
<1> QED BY <1>9 DEF t, b

----------------------------------------------------------------------------
(* What is ahead of the thread *)

LEMMA AheadFacts ==
    ASSUME TypeOK
    PROVE  /\ Ahead \in Seq(Byte) /\ Len(Ahead) \in Nat
           /\ Len(taken) \in Nat /\ Len(inbox) \in Nat /\ Len(taken) <= Len(Ahead)
           /\ Len(Ahead) = Len(taken) + Len(inbox) + Len(pending)
           /\ \A k \in 1 .. Len(taken) : Ahead[k] = taken[k]
           /\ taken = <<>> => /\ Len(inbox) <= Len(Ahead)
                              /\ \A k \in 1 .. Len(inbox) : Ahead[k] = inbox[k]
<1>1. taken \o inbox \in Seq(Byte) BY ConcatProperties DEF TypeOK
<1>2. /\ Len(taken) \in Nat /\ Len(inbox) \in Nat /\ Len(pending) \in Nat
      /\ Len(taken \o inbox) = Len(taken) + Len(inbox)
      /\ \A k \in 1 .. Len(taken) + Len(inbox) : (taken \o inbox)[k] =
             IF k <= Len(taken) THEN taken[k] ELSE inbox[k - Len(taken)]
  BY ConcatProperties, LenProperties DEF TypeOK
<1>3. /\ Ahead \in Seq(Byte) /\ Len(Ahead) = Len(taken \o inbox) + Len(pending)
      /\ \A k \in 1 .. Len(taken \o inbox) + Len(pending) : Ahead[k] =
             IF k <= Len(taken \o inbox) THEN (taken \o inbox)[k]
             ELSE pending[k - Len(taken \o inbox)]
  BY <1>1, ConcatProperties DEF TypeOK, Ahead
<1>4. \A k \in 1 .. Len(taken) : Ahead[k] = taken[k]
  BY <1>2, <1>3
<1>5. ASSUME taken = <<>>, NEW k \in 1 .. Len(inbox) PROVE Ahead[k] = inbox[k]
  <2>1. Len(taken) = 0 BY <1>5, EmptySeq
  <2> QED BY <1>2, <1>3, <1>5, <2>1
<1> QED BY <1>2, <1>3, <1>4, <1>5

\* Where the thread looks, if it looks at anything, is the first byte ahead.
LEMMA FirstAhead ==
    ASSUME TypeOK
    PROVE  /\ taken # <<>> => Ahead # <<>> /\ Ahead[1] = taken[1]
           /\ taken = <<>> /\ inbox # <<>> => Ahead # <<>> /\ Ahead[1] = inbox[1]
           /\ inbox # <<>> => inbox[1] \in Byte
<1>1. taken # <<>> => 1 \in 1 .. Len(taken) BY EmptySeq DEF TypeOK
<1>2. inbox # <<>> => 1 \in 1 .. Len(inbox) BY EmptySeq DEF TypeOK
<1>3. Len(Ahead) >= 1 => Ahead # <<>> BY EmptySeq
<1> QED BY <1>1, <1>2, <1>3, AheadFacts, ElementOfSeq DEF TypeOK

LEMMA AfterJoined ==
    ASSUME NEW S, NEW s \in Seq(S), NEW t \in Seq(S), NEW n \in 0 .. Len(s)
    PROVE  After(s \o t, n) = After(s, n) \o t
<1> DEFINE a == After(s, n)
           b == After(s \o t, n)
<1>1. /\ Len(s) \in Nat /\ Len(t) \in Nat /\ s \o t \in Seq(S) /\ Len(s \o t) = Len(s) + Len(t)
      /\ \A i \in 1 .. Len(s) + Len(t) : (s \o t)[i] = IF i <= Len(s) THEN s[i] ELSE t[i - Len(s)]
  BY ConcatProperties, LenProperties
<1>2. a \in Seq(S) /\ Len(a) = Len(s) - n /\ \A i \in 1 .. Len(s) - n : a[i] = s[n + i]
  BY CutFacts
<1>3. n \in 0 .. Len(s \o t) BY <1>1
<1>4. /\ b \in Seq(S) /\ Len(b) = Len(s \o t) - n
      /\ \A i \in 1 .. Len(s \o t) - n : b[i] = (s \o t)[n + i]
  BY ZenonT(90), <1>1, <1>3, CutFacts
<1> HIDE DEF a, b
<1>5. /\ a \o t \in Seq(S) /\ Len(a \o t) = Len(a) + Len(t)
      /\ \A i \in 1 .. Len(a) + Len(t) : (a \o t)[i] = IF i <= Len(a) THEN a[i] ELSE t[i - Len(a)]
  BY <1>2, ConcatProperties
<1>6. Len(b) = Len(a \o t) BY <1>1, <1>2, <1>4, <1>5
<1>7. ASSUME NEW i \in 1 .. Len(b) PROVE b[i] = (a \o t)[i]
  <2>1. /\ b[i] = (s \o t)[n + i] /\ n + i \in 1 .. Len(s) + Len(t)
        /\ i \in 1 .. Len(a) + Len(t)
    BY SMTT(90), <1>1, <1>2, <1>4, <1>5
  <2>2. CASE i <= Len(a)
    BY SMTT(90), <1>1, <1>2, <1>5, <2>1, <2>2
  <2>3. CASE i > Len(a)
    <3>1. (n + i) - Len(s) = i - Len(a) /\ ~(n + i <= Len(s)) BY <1>1, <1>2, <2>3
    <3> QED BY SMTT(90), <1>1, <1>5, <2>1, <2>3, <3>1
  <2> QED BY SMTT(90), <1>1, <1>2, <2>1, <2>2, <2>3
<1>8. b = a \o t BY <1>4, <1>5, <1>6, <1>7, SeqEqual
<1> QED BY <1>8 DEF a, b

\* What the steps do to it: the radar makes it longer, and what the thread is done
\* with leaves it.
LEMMA AheadSends ==
    ASSUME TypeOK, RadarSends
    PROVE  Ahead' = Ahead \o Bytes(sent + 1)
<1>1. /\ sent + 1 \in 1 .. Len(wire) /\ UNCHANGED <<taken, inbox>>
      /\ pending' = pending \o Bytes(sent + 1)
  BY TotalFacts DEF RadarSends, thread
<1>2. Bytes(sent + 1) \in Seq(Byte) BY <1>1, BytesFacts
<1>3. taken \o inbox \in Seq(Byte) /\ pending \in Seq(Byte) BY ConcatProperties DEF TypeOK
<1>4. ((taken \o inbox) \o pending) \o Bytes(sent + 1)
          = (taken \o inbox) \o (pending \o Bytes(sent + 1))
  BY SMTT(90), <1>2, <1>3, ConcatAssociative
<1> QED BY <1>1, <1>4 DEF Ahead

LEMMA AheadArrives ==
    ASSUME TypeOK, Arrive
    PROVE  Ahead' = Ahead /\ inbox' \in Seq(Byte) /\ pending' \in Seq(Byte)
           /\ (inbox # <<>> => inbox' # <<>> /\ inbox'[1] = inbox[1])
<1>1. PICK n \in 1 .. Len(pending) :
          inbox' = inbox \o First(pending, n) /\ pending' = After(pending, n)
  BY DEF Arrive
<1> DEFINE f == First(pending, n)
           a == After(pending, n)
<1>2. Len(pending) \in Nat /\ n \in 0 .. Len(pending) BY LenProperties DEF TypeOK
<1>3. f \in Seq(Byte) /\ a \in Seq(Byte) /\ f \o a = pending
  BY <1>2, CutFacts, CutJoined DEF TypeOK
<1>4. inbox' = inbox \o f /\ pending' = a /\ taken' = taken BY <1>1 DEF Arrive, thread
<1> HIDE DEF f, a
<1>t. taken \in Seq(Byte) /\ inbox \in Seq(Byte) BY DEF TypeOK
<1>5. (taken \o (inbox \o f)) \o a = (taken \o inbox) \o (f \o a)
  <2>1. f \in Seq(Byte) /\ a \in Seq(Byte) BY <1>3
  <2>2. \A t, u \in Seq(Byte) : (taken \o (inbox \o t)) \o u = (taken \o inbox) \o (t \o u)
    BY <1>t, MovedToSecond, Zenon
  <2> QED BY <2>1, <2>2, Zenon
<1>6. Ahead' = Ahead BY <1>3, <1>4, <1>5 DEF Ahead
<1>7. /\ inbox \o f \in Seq(Byte) /\ Len(inbox \o f) = Len(inbox) + Len(f)
      /\ Len(inbox) \in Nat /\ Len(f) \in Nat
      /\ \A i \in 1 .. Len(inbox) + Len(f) :
             (inbox \o f)[i] = IF i <= Len(inbox) THEN inbox[i] ELSE f[i - Len(inbox)]
  BY <1>3, ConcatProperties, LenProperties DEF TypeOK
<1>8. ASSUME inbox # <<>> PROVE inbox' # <<>> /\ inbox'[1] = inbox[1]
  <2>1. Len(inbox) >= 1 BY <1>8, EmptySeq DEF TypeOK
  <2>2. Len(inbox') >= 1 /\ inbox'[1] = inbox[1] BY <1>4, <1>7, <2>1
  <2> QED BY <2>2, EmptySeq
<1> QED BY <1>3, <1>4, <1>6, <1>7, <1>8

LEMMA AheadReceived ==
    ASSUME TypeOK, TakenInv, StreamInv, ReceiveSome
    PROVE  /\ Ahead' = Ahead /\ inbox' \in Seq(Byte) /\ taken' \in Seq(Byte)
           /\ taken' # <<>> /\ Starts(taken'[1]) /\ Len(taken') <= Needed
           /\ taken # <<>> => taken'[1] = taken[1]
<1> DEFINE n == Least(Len(inbox), Needed - Len(taken))
           f == First(inbox, n)
           a == After(inbox, n)
<1>0. Needed \in Nat
  <2>1. CASE pc = "header" BY <2>1, TotalFacts DEF Needed
  <2>2. CASE pc = "payload"
    <3>1. taken # <<>> BY <2>2 DEF TakenInv
    <3>2. 1 \in 1 .. Len(Ahead) /\ Ahead[1] = taken[1]
      BY <3>1, FirstAhead, EmptySeq, AheadFacts
    <3>3. taken[1].msg \in 1 .. Len(wire)
      BY SMTT(90), <3>2, TotalFacts DEF StreamInv, PieceUpTo, TypeOK
    <3> QED BY <2>2, <3>3, TotalFacts DEF Needed, Received
  <2> QED BY <2>1, <2>2 DEF ReceiveSome
<1>1. /\ Len(inbox) \in Nat /\ Len(inbox) >= 1 /\ Len(taken) \in Nat /\ Len(taken) < Needed
      /\ taken' = taken \o f /\ inbox' = a /\ pending' = pending
  BY EmptySeq, LenProperties DEF ReceiveSome, TypeOK
<1>2. n \in 1 .. Len(inbox) /\ n <= Needed - Len(taken) BY <1>0, <1>1 DEF Least
<1> HIDE DEF n
<1>i. inbox \in Seq(Byte) /\ n \in 0 .. Len(inbox) /\ 1 \in 1 .. n
  BY <1>1, <1>2 DEF TypeOK
<1>3. /\ f \in Seq(Byte) /\ a \in Seq(Byte) /\ f \o a = inbox
      /\ Len(f) = n /\ f[1] = inbox[1]
  BY <1>i, CutFacts, CutJoined
<1> HIDE DEF f, a
<1>t. taken \in Seq(Byte) /\ pending \in Seq(Byte) BY DEF TypeOK
<1>4. ((taken \o f) \o a) \o pending = (taken \o (f \o a)) \o pending
  <2>1. f \in Seq(Byte) /\ a \in Seq(Byte) BY <1>3
  <2>2. (taken \o f) \o a = taken \o (f \o a) BY SMTT(90), <1>t, <2>1, ConcatAssociative
  <2> QED BY <2>2
<1>5. Ahead' = Ahead BY <1>1, <1>3, <1>4 DEF Ahead
<1>6. /\ taken \o f \in Seq(Byte) /\ Len(taken \o f) = Len(taken) + n
      /\ \A i \in 1 .. Len(taken) + n :
             (taken \o f)[i] = IF i <= Len(taken) THEN taken[i] ELSE f[i - Len(taken)]
  BY ZenonT(90), <1>3, ConcatProperties DEF TypeOK
<1>7. taken' # <<>> /\ Len(taken') <= Needed
  BY <1>0, <1>1, <1>2, <1>6, EmptySeq
<1>8. CASE taken # <<>>
  <2>1. Len(taken) >= 1 BY <1>8, EmptySeq DEF TypeOK
  <2>2. taken'[1] = taken[1] BY <1>1, <1>2, <1>6, <2>1
  <2> QED BY <1>1, <1>3, <1>5, <1>6, <1>7, <1>8, <2>2 DEF TakenInv
<1>9. CASE taken = <<>>
  <2>1. Len(taken) = 0 BY <1>9, EmptySeq
  <2>2. taken'[1] = inbox[1] BY <1>1, <1>2, <1>3, <1>6, <2>1
  <2>3. pc = "header" BY <1>9 DEF ReceiveSome, TakenInv
  <2> QED BY <1>1, <1>3, <1>5, <1>6, <1>7, <1>9, <2>2, <2>3 DEF TakenInv
<1> QED BY <1>8, <1>9

LEMMA AheadSkipped ==
    ASSUME TypeOK, TakenInv, Skip
    PROVE  /\ Ahead' = After(Ahead, 1) /\ Ahead # <<>> /\ Ahead[1] = inbox[1]
           /\ inbox' \in Seq(Byte)
<1>1. taken = <<>> /\ taken' = taken /\ inbox' = After(inbox, 1) /\ pending' = pending
      /\ inbox # <<>>
  BY DEF Skip, Skipped, TakenInv
<1>2. 1 \in 0 .. Len(inbox) BY <1>1, EmptySeq DEF TypeOK
<1>3. After(inbox, 1) \in Seq(Byte) BY <1>2, CutFacts DEF TypeOK
<1>4. After(inbox \o pending, 1) = After(inbox, 1) \o pending
  BY <1>2, AfterJoined DEF TypeOK
<1>5. <<>> \o inbox = inbox /\ <<>> \o After(inbox, 1) = After(inbox, 1)
  BY <1>3, ConcatEmptySeq DEF TypeOK
<1> QED BY <1>1, <1>3, <1>4, <1>5, FirstAhead DEF Ahead

LEMMA AheadDropped ==
    ASSUME TypeOK, taken' = <<>>, UNCHANGED <<inbox, pending>>
    PROVE  Ahead' = After(Ahead, Len(taken))
<1>t. taken \in Seq(Byte) /\ inbox \in Seq(Byte) /\ pending \in Seq(Byte) BY DEF TypeOK
<1>1. Len(taken) \in Nat /\ Len(taken) \in 0 .. Len(taken) BY <1>t, LenProperties
<1>2. inbox \o pending \in Seq(Byte) BY <1>t, ConcatProperties
<1>3. After(taken \o (inbox \o pending), Len(taken)) = After(taken, Len(taken)) \o (inbox \o pending)
  BY <1>t, <1>1, <1>2, AfterJoined
<1>4. taken \o (inbox \o pending) = (taken \o inbox) \o pending
  BY SMTT(90), <1>t, ConcatAssociative
<1>5. After(taken, Len(taken)) = <<>>
  <2>1. /\ After(taken, Len(taken)) \in Seq(Byte)
        /\ Len(After(taken, Len(taken))) = Len(taken) - Len(taken)
    BY <1>t, <1>1, CutFacts
  <2> QED BY <1>1, <2>1, EmptySeq
<1>6. <<>> \o (inbox \o pending) = inbox \o pending /\ <<>> \o inbox = inbox
  BY <1>2, ConcatEmptySeq DEF TypeOK
<1> QED BY <1>3, <1>4, <1>5, <1>6 DEF Ahead

LEMMA CurrentFacts ==
    ASSUME TypeOK, StreamInv
    PROVE  /\ sent \in Nat /\ Len(wire) \in Nat /\ sent <= Len(wire)
           /\ Current \in 1 .. sent + 1
           /\ Within => Current \in 1 .. sent
           /\ taken # <<>> => /\ taken[1] \in Byte /\ taken[1] = Ahead[1]
                              /\ taken[1].msg = Current /\ Current \in 1 .. sent
<1>1. sent \in Nat /\ Len(wire) \in Nat /\ sent <= Len(wire) BY TotalFacts DEF TypeOK
<1>2. ASSUME Ahead # <<>> PROVE Current = Ahead[1].msg /\ Current \in 1 .. sent
  <2>1. 1 \in 1 .. Len(Ahead) BY <1>2, AheadFacts, EmptySeq
  <2>2. Current = Ahead[1].msg BY <1>2 DEF Current
  <2> QED BY <2>1, <2>2 DEF StreamInv, PieceUpTo
<1>3. Ahead = <<>> => Current = sent + 1 BY DEF Current
<1>4. ASSUME taken # <<>> PROVE taken[1] \in Byte /\ taken[1] = Ahead[1] /\ Ahead # <<>>
  <2>1. 1 \in 1 .. Len(taken) BY <1>4, AheadFacts, EmptySeq DEF TypeOK
  <2>2. taken[1] \in Byte BY <2>1, ElementOfSeq DEF TypeOK
  <2> QED BY <1>4, <2>2, FirstAhead
<1> QED BY <1>1, <1>2, <1>3, <1>4 DEF Within

\* Leaving bytes of one message behind, the thread is still in it or at the start of
\* the next.
LEMMA CurrentMoves ==
    ASSUME TypeOK, StreamInv, NEW d \in 1 .. Len(Ahead),
           d = 1 \/ (Starts(Ahead[1]) /\ d <= Total(Ahead[1].msg)),
           Ahead' = After(Ahead, d), sent' = sent
    PROVE  LET m == Ahead[1].msg
           IN  /\ Current = m /\ m \in 1 .. sent
               /\ (Current' = m /\ Within') \/ (Current' = m + 1 /\ ~Within')
               /\ Starts(Ahead[1]) /\ d = Total(m) => Current' = m + 1 /\ ~Within'
<1> DEFINE m == Ahead[1].msg
           L == Len(Ahead)
           x == Ahead[d]
<1>0. L \in Nat /\ L >= 1 /\ Ahead # <<>> /\ d \in 1 .. L /\ Ahead \in Seq(Byte)
  BY AheadFacts, EmptySeq
<1>1. Current = m /\ m \in 1 .. sent /\ m \in 1 .. Len(wire) /\ sent \in 0 .. Len(wire)
  <2>1. m \in 1 .. sent BY <1>0 DEF StreamInv, PieceUpTo
  <2>2. Current = m BY <1>0 DEF Current
  <2> QED BY <2>1, <2>2, CurrentFacts
<1>2. Total(m) \in Nat BY <1>1, TotalFacts
<1> HIDE DEF Total
<1>3. x.msg = m /\ x.at \in 1 .. Total(m) /\ (Starts(Ahead[1]) => x.at = d)
  <2>1. CASE d = 1 BY <1>0, <2>1 DEF StreamInv, PieceUpTo, Starts
  <2>2. CASE Starts(Ahead[1]) /\ d <= Total(m)
    BY <1>0, <1>1, <1>2, <2>2, PieceFacts DEF StreamInv
  <2> QED BY <2>1, <2>2
<1>c. /\ After(Ahead, d) \in Seq(Byte) /\ Len(After(Ahead, d)) = L - d
      /\ \A i \in 1 .. L - d : After(Ahead, d)[i] = Ahead[d + i]
  <2>1. d \in 0 .. Len(Ahead) BY <1>0
  <2> QED BY ZenonT(90), <1>0, <2>1, CutFacts
<1>4. CASE d = L
  <2>1. Ends(x) /\ m = sent BY <1>0, <1>3, <1>4 DEF StreamInv, PieceUpTo
  <2>2. Ahead' = <<>> BY <1>0, <1>4, <1>c, EmptySeq
  <2>3. Current' = m + 1 /\ ~Within' BY <2>1, <2>2 DEF Current, Within
  <2> QED BY <1>1, <2>3
<1>5. CASE d < L
  <2>0. Ahead' # <<>> /\ Ahead'[1] = Ahead[d + 1]
    BY <1>0, <1>5, <1>c, EmptySeq
  <2>1. CASE Ends(x)
    <3>1. d \in 1 .. Len(Ahead) - 1 BY <1>0, <1>5
    <3>2. Ahead[d + 1].msg = m + 1 /\ Starts(Ahead[d + 1])
      BY <1>3, <2>1, <3>1 DEF StreamInv, PieceUpTo
    <3>3. Current' = m + 1 /\ ~Within' BY <2>0, <3>2 DEF Current, Within, Starts
    <3> QED BY <1>1, <3>3
  <2>2. CASE ~Ends(x)
    <3>1. x.at # Total(m) BY <1>3, <2>2 DEF Ends
    <3>2. x.at + ((d + 1) - d) \in 1 .. Total(x.msg) BY <1>0, <1>2, <1>3, <3>1
    <3>3. d + 1 \in 1 .. Len(Ahead) /\ d \in 1 .. Len(Ahead) BY <1>0, <1>5
    <3>4. Ahead[d + 1].msg = m /\ Ahead[d + 1].at = x.at + ((d + 1) - d)
      BY <1>0, <1>3, <3>2, <3>3, PiecePairs DEF StreamInv
    <3>a. Ahead[d + 1].at # 1
      <4>1. d \in Nat /\ x.at \in Nat /\ x.at >= 1 BY <1>0, <1>2, <1>3
      <4>2. x.at + ((d + 1) - d) # 1
        <5> HIDE DEF x
        <5> QED BY <4>1
      <4> QED BY <3>4, <4>2
    <3>5. Current' = m /\ Within'
      BY <2>0, <3>4, <3>a DEF Current, Within, Starts
    <3>6. ~(Starts(Ahead[1]) /\ d = Total(m)) BY <1>3, <3>1
    <3> QED BY <1>1, <3>5, <3>6
  <2> QED BY <2>1, <2>2
<1> QED BY <1>0, <1>4, <1>5

\* A longer stream does not move it.
LEMMA CurrentWaits ==
    ASSUME TypeOK, StreamInv, RadarSends
    PROVE  Current' = Current /\ Within' = Within
<1> DEFINE b == Bytes(sent + 1)
<1>1. sent + 1 \in 1 .. Len(wire) /\ sent' = sent + 1 BY CurrentFacts DEF RadarSends
<1>2. /\ b \in Seq(Byte) /\ Len(b) \in Nat /\ Len(b) >= 1
      /\ b[1].msg = sent + 1 /\ b[1].at = 1
  <2>1. Total(sent + 1) \in Nat /\ Total(sent + 1) >= 1 BY <1>1, TotalFacts
  <2> QED BY <1>1, <2>1, BytesFacts
<1>3. Ahead' = Ahead \o b BY AheadSends
<1> HIDE DEF b
<1>4. /\ Len(Ahead) \in Nat /\ Ahead \o b \in Seq(Byte) /\ Len(Ahead \o b) = Len(Ahead) + Len(b)
      /\ \A i \in 1 .. Len(Ahead) + Len(b) : (Ahead \o b)[i] =
             IF i <= Len(Ahead) THEN Ahead[i] ELSE b[i - Len(Ahead)]
  BY <1>2, AheadFacts, ConcatProperties
<1>5. Ahead' # <<>> BY <1>2, <1>3, <1>4, EmptySeq
<1>6. CASE Ahead = <<>>
  <2>1. Len(Ahead) = 0 BY <1>6, EmptySeq
  <2>2. Ahead'[1] = b[1] BY <1>2, <1>3, <1>4, <2>1
  <2> QED BY <1>1, <1>2, <1>5, <1>6, <2>2 DEF Current, Within, Starts
<1>7. CASE Ahead # <<>>
  <2>1. Len(Ahead) >= 1 BY <1>4, <1>7, AheadFacts, EmptySeq
  <2>2. Ahead'[1] = Ahead[1] BY <1>2, <1>3, <1>4, <2>1
  <2> QED BY <1>5, <1>7, <2>2 DEF Current, Within, Starts
<1> QED BY <1>6, <1>7

----------------------------------------------------------------------------
(* The types *)

\* What a peek has in its buffer once it has read
Peeked == signature \o First(inbox, Least(Len(inbox), SignatureSize - Len(signature)))

LEMMA PeekFacts ==
    ASSUME TypeOK, PeekInv, TakenInv, Peek
    PROVE  /\ pc = "peek" /\ taken = <<>> /\ inbox # <<>> /\ inbox[1] \in Byte
           /\ Peeked \in Seq(Byte) /\ Len(Peeked) \in 1 .. SignatureSize
           /\ Peeked # <<>> /\ Peeked[1] = inbox[1]
           /\ signature = <<>> => /\ Len(Peeked) <= Len(inbox)
                                  /\ \A k \in 1 .. Len(Peeked) : Peeked[k] = inbox[k]
<1> DEFINE n == Least(Len(inbox), SignatureSize - Len(signature))
           f == First(inbox, n)
<1>1. pc = "peek" /\ taken = <<>> /\ inbox # <<>> BY DEF Peek, TakenInv
<1>2. Len(inbox) \in Nat /\ Len(inbox) >= 1 /\ Len(signature) \in Nat /\ inbox[1] \in Byte
  BY <1>1, EmptySeq, LenProperties, FirstAhead DEF TypeOK
<1>3. Len(signature) < SignatureSize /\ SignatureSize \in Nat
  BY <1>2, EmptySeq, FramingAssumption DEF PeekInv
<1>4. n \in 1 .. Len(inbox) /\ n <= SignatureSize - Len(signature)
  BY <1>2, <1>3 DEF Least
<1> HIDE DEF n
<1>5. f \in Seq(Byte) /\ Len(f) = n /\ \A k \in 1 .. n : f[k] = inbox[k]
  <2>1. inbox \in Seq(Byte) /\ n \in 0 .. Len(inbox) BY <1>2, <1>4 DEF TypeOK
  <2> QED BY ZenonT(90), <2>1, CutFacts
<1> HIDE DEF f
<1>6. /\ signature \o f \in Seq(Byte) /\ Len(signature \o f) = Len(signature) + n
      /\ \A k \in 1 .. Len(signature) + n : (signature \o f)[k] =
             IF k <= Len(signature) THEN signature[k] ELSE f[k - Len(signature)]
  <2>1. signature \in Seq(Byte) BY DEF TypeOK
  <2> QED BY <1>5, <2>1, ConcatProperties
<1>7. Peeked = signature \o f BY DEF Peeked, f, n
<1>8. Peeked \in Seq(Byte) /\ Len(Peeked) \in 1 .. SignatureSize
  BY <1>2, <1>3, <1>4, <1>6, <1>7
<1>9. Peeked # <<>> BY <1>8, EmptySeq
<1>10. CASE signature = <<>>
  <2>1. Len(signature) = 0 BY <1>10, EmptySeq
  <2>2. Len(Peeked) = n BY <1>4, <1>6, <1>7, <2>1
  <2>3. \A k \in 1 .. Len(Peeked) : Peeked[k] = inbox[k]
    BY <1>4, <1>5, <1>6, <1>7, <2>1, <2>2
  <2>4. Peeked[1] = inbox[1] BY <1>8, <2>3
  <2> QED BY <1>1, <1>2, <1>4, <1>8, <1>9, <2>2, <2>3, <2>4
<1>11. CASE signature # <<>>
  <2>1. Len(signature) >= 1 BY <1>2, <1>11, EmptySeq DEF TypeOK
  <2>2. Peeked[1] = signature[1] BY <1>2, <1>4, <1>6, <1>7, <2>1
  <2>3. signature[1] = inbox[1] BY <1>11 DEF PeekInv
  <2> QED BY <1>1, <1>2, <1>8, <1>9, <1>11, <2>2, <2>3
<1> QED BY <1>10, <1>11

\* What a peek does, in terms of that
LEMMA PeekStep ==
    ASSUME Peek
    PROVE  /\ UNCHANGED <<wire, sent, pending, inbox, taken, delivered>>
           /\ \/ /\ Len(Peeked) < SignatureSize
                 /\ signature' = Peeked /\ pc' = pc
                 /\ shortPeeks' = IF inbox[1].at = 1 THEN shortPeeks \cup {inbox[1].msg}
                                                     ELSE shortPeeks
              \/ /\ ~(Len(Peeked) < SignatureSize)
                 /\ signature' = <<>> /\ shortPeeks' = shortPeeks
                 /\ pc' = IF IsSignature(Peeked) THEN "header" ELSE "skip"
<1>1. CASE Len(Peeked) < SignatureSize BY <1>1 DEF Peek, Peeked
<1>2. CASE ~(Len(Peeked) < SignatureSize) BY <1>2 DEF Peek, Peeked
<1> QED BY <1>1, <1>2 DEF Peek

LEMMA TypeStep ==
    ASSUME TypeOK, StreamInv, PeekInv, TakenInv, [Next]_vars
    PROVE  TypeOK'
<1>t. /\ wire \in Wires /\ sent \in 0 .. Len(wire)
      /\ pc \in {"peek", "skip", "header", "payload", "lost"}
      /\ pending \in Seq(Byte) /\ inbox \in Seq(Byte)
      /\ signature \in Seq(Byte) /\ taken \in Seq(Byte)
      /\ delivered \in Seq(Seq(Byte)) /\ shortPeeks \subseteq Nat
  BY DEF TypeOK
<1>e. <<>> \in Seq(Byte) BY EmptySeq
<1>1. CASE RadarSends
  <2>1. sent + 1 \in 1 .. Len(wire) /\ sent' \in 0 .. Len(wire)
    BY <1>1, CurrentFacts DEF RadarSends
  <2>2. pending \o Bytes(sent + 1) \in Seq(Byte) BY <1>t, <2>1, BytesFacts, ConcatProperties
  <2> QED BY <1>1, <1>t, <2>1, <2>2 DEF RadarSends, thread, TypeOK
<1>2. CASE Arrive
  <2>1. inbox' \in Seq(Byte) /\ pending' \in Seq(Byte) BY <1>2, AheadArrives
  <2> QED BY <1>2, <1>t, <2>1 DEF Arrive, thread, TypeOK
<1>3. CASE Peek
  <2>1. Peeked \in Seq(Byte) /\ inbox[1] \in Byte BY <1>3, PeekFacts
  <2>2. signature' \in Seq(Byte) BY <1>3, <1>e, <2>1, PeekStep
  <2>3. shortPeeks' \subseteq Nat BY <1>3, <1>t, <2>1, PeekStep DEF Byte
  <2>4. pc' \in {"peek", "skip", "header", "payload", "lost"} BY <1>3, <1>t, PeekStep
  <2>5. UNCHANGED <<wire, sent, pending, inbox, taken, delivered>> BY <1>3, PeekStep
  <2> QED BY <1>t, <2>2, <2>3, <2>4, <2>5 DEF TypeOK
<1>4. CASE Skip
  <2>1. inbox' \in Seq(Byte) BY <1>4, AheadSkipped
  <2> QED BY <1>4, <1>t, <2>1 DEF Skip, TypeOK
<1>5. CASE ReceiveSome
  <2>1. inbox' \in Seq(Byte) /\ taken' \in Seq(Byte) BY <1>5, AheadReceived
  <2> QED BY <1>5, <1>t, <2>1 DEF ReceiveSome, TypeOK
<1>6. CASE ReceiveFails BY <1>6, <1>t DEF ReceiveFails, TypeOK
<1>7. CASE HeaderOfPayload BY <1>7, <1>t DEF HeaderOfPayload, TypeOK
<1>8. CASE HeaderInvalid BY <1>8, <1>t, <1>e DEF HeaderInvalid, TypeOK
<1>9. CASE Enqueue
  <2>1. Append(delivered, taken) \in Seq(Seq(Byte)) BY <1>t, AppendProperties
  <2> QED BY <1>9, <1>t, <1>e, <2>1 DEF Enqueue, TypeOK
<1>10. CASE UNCHANGED vars BY <1>10, <1>t DEF vars, thread, TypeOK
<1> QED BY <1>1, <1>2, <1>3, <1>4, <1>5, <1>6, <1>7, <1>8, <1>9, <1>10 DEF Next, Read

----------------------------------------------------------------------------
(* The stream, the peeks and the message being received *)

\* When a header or a message is there, it is of one message, from its first byte.
LEMMA CompleteFacts ==
    ASSUME TypeOK, StreamInv, TakenInv, pc \in {"header", "payload"}, Complete
    PROVE  LET m == taken[1].msg
           IN  /\ taken # <<>> /\ taken[1] = Ahead[1] /\ Starts(taken[1])
               /\ m = Current /\ m \in 1 .. sent /\ m \in 1 .. Len(wire)
               /\ Received = wire[m]
               /\ Len(taken) \in 1 .. Len(Ahead) /\ Len(taken) <= Total(m)
               /\ pc = "header" => Len(taken) = HeaderSize
               /\ pc = "payload" => wire[m].valid
               /\ pc = "payload" \/ wire[m].size = 0 => Len(taken) = Total(m)
<1> DEFINE m == taken[1].msg
<1>1. SignatureSize \in Nat /\ SignatureSize >= 1 /\ HeaderSize \in Nat /\ HeaderSize >= 1
  BY FramingAssumption
<1>2. taken # <<>>
  <2>1. CASE pc = "payload" BY <2>1 DEF TakenInv
  <2>2. CASE pc = "header"
    <3>1. Len(taken) = HeaderSize BY <2>2 DEF Complete, Needed
    <3> QED BY <1>1, <3>1, EmptySeq
  <2> QED BY <2>1, <2>2
<1>3. /\ taken[1] = Ahead[1] /\ m = Current /\ m \in 1 .. sent /\ m \in 1 .. Len(wire)
  BY <1>2, CurrentFacts
<1>4. Starts(taken[1]) BY <1>2 DEF TakenInv
<1>5. Len(taken) \in 1 .. Len(Ahead) BY <1>2, AheadFacts, EmptySeq DEF TypeOK
<1>6. Total(m) = HeaderSize + wire[m].size /\ wire[m].size \in Nat
  BY <1>3, TotalFacts
<1>7. pc = "header" => Len(taken) = HeaderSize BY DEF Complete, Needed
<1>8. pc = "payload" => Len(taken) = Total(m)
  BY <1>6 DEF Complete, Needed, Received
<1>9. pc = "payload" => wire[m].valid BY DEF TakenInv
<1>10. Received = wire[m] BY DEF Received
<1> HIDE DEF m
<1>11. /\ Len(taken) <= Total(m)
       /\ pc = "payload" \/ wire[m].size = 0 => Len(taken) = Total(m)
  BY <1>1, <1>6, <1>7, <1>8
<1> QED BY <1>2, <1>3, <1>4, <1>5, <1>7, <1>9, <1>10, <1>11 DEF m

\* The steps that drop nothing and bring nothing
LEMMA AheadStays ==
    ASSUME TypeOK, StreamInv, TakenInv,
           Arrive \/ Peek \/ ReceiveSome \/ ReceiveFails \/ HeaderOfPayload \/ UNCHANGED vars
    PROVE  Ahead' = Ahead /\ sent' = sent /\ wire' = wire
<1>1. CASE Arrive BY <1>1, AheadArrives DEF Arrive
<1>2. CASE Peek BY <1>2 DEF Peek, Ahead
<1>3. CASE ReceiveSome BY <1>3, AheadReceived DEF ReceiveSome
<1>4. CASE ReceiveFails BY <1>4 DEF ReceiveFails, Ahead
<1>5. CASE HeaderOfPayload BY <1>5 DEF HeaderOfPayload, Ahead
<1>6. CASE UNCHANGED vars BY <1>6 DEF vars, thread, Ahead
<1> QED BY <1>1, <1>2, <1>3, <1>4, <1>5, <1>6

\* The steps that drop a message or its header
LEMMA AheadLeft ==
    ASSUME TypeOK, StreamInv, TakenInv, HeaderInvalid \/ Enqueue
    PROVE  /\ pc \in {"header", "payload"} /\ Complete
           /\ Ahead' = After(Ahead, Len(taken)) /\ sent' = sent /\ wire' = wire
           /\ taken' = <<>> /\ pc' = "peek"
           /\ UNCHANGED <<inbox, pending, signature, shortPeeks>>
<1>1. /\ pc \in {"header", "payload"} /\ Complete
      /\ taken' = <<>> /\ pc' = "peek"
      /\ UNCHANGED <<wire, sent, inbox, pending, signature, shortPeeks>>
  BY DEF HeaderInvalid, Enqueue
<1>2. UNCHANGED <<inbox, pending>> BY <1>1
<1>3. Ahead' = After(Ahead, Len(taken)) BY <1>1, <1>2, AheadDropped
<1> QED BY <1>1, <1>3

LEMMA StreamStep ==
    ASSUME TypeOK, StreamInv, TakenInv, [Next]_vars
    PROVE  StreamInv'
<1>0. sent \in 0 .. Len(wire) /\ Ahead \in Seq(Byte) /\ PieceUpTo(Ahead, sent)
  BY AheadFacts DEF TypeOK, StreamInv
<1>1. wire' = wire /\ PieceUpTo(Ahead', sent')
  <2>1. CASE RadarSends
    <3>1. sent < Len(wire) /\ sent' = sent + 1 /\ wire' = wire BY <2>1 DEF RadarSends
    <3>2. Ahead' = Ahead \o Bytes(sent + 1) BY <2>1, AheadSends
    <3>3. PieceUpTo(Ahead \o Bytes(sent + 1), sent + 1) BY <1>0, <3>1, PieceAnd
    <3> QED BY <3>1, <3>2, <3>3
  <2>2. CASE Arrive \/ Peek \/ ReceiveSome \/ ReceiveFails \/ HeaderOfPayload
             \/ UNCHANGED vars
    <3>1. Ahead' = Ahead /\ sent' = sent /\ wire' = wire BY <2>2, AheadStays
    <3> QED BY <1>0, <3>1
  <2>3. CASE Skip
    <3>1. Ahead' = After(Ahead, 1) /\ Ahead # <<>> /\ sent' = sent /\ wire' = wire
      BY <2>3, AheadSkipped DEF Skip
    <3>2. 1 \in 0 .. Len(Ahead) BY <1>0, <3>1, AheadFacts, EmptySeq
    <3>3. PieceUpTo(After(Ahead, 1), sent) BY <1>0, <3>2, PieceAfter
    <3> QED BY <3>1, <3>3
  <2>4. CASE HeaderInvalid \/ Enqueue
    <3>1. Ahead' = After(Ahead, Len(taken)) /\ sent' = sent /\ wire' = wire
      BY <2>4, AheadLeft
    <3>2. Len(taken) \in 0 .. Len(Ahead) BY AheadFacts
    <3>3. PieceUpTo(After(Ahead, Len(taken)), sent) BY <1>0, <3>2, PieceAfter
    <3> QED BY <3>1, <3>3
  <2> QED BY <2>1, <2>2, <2>3, <2>4 DEF Next, Read
<1> QED BY <1>1 DEF StreamInv, PieceUpTo, Total, Starts, Ends

LEMMA PeekInvStep ==
    ASSUME TypeOK, StreamInv, PeekInv, TakenInv, [Next]_vars
    PROVE  PeekInv'
<1>1. CASE RadarSends
  BY <1>1 DEF RadarSends, thread, PeekInv, Starts
<1>2. CASE Arrive
  <2>1. UNCHANGED <<pc, signature, shortPeeks>> BY <1>2 DEF Arrive, thread
  <2>2. inbox # <<>> => inbox' # <<>> /\ inbox'[1] = inbox[1] BY <1>2, AheadArrives
  <2> QED BY <2>1, <2>2 DEF PeekInv, Starts
<1>3. CASE Peek
  <2>f. /\ pc = "peek" /\ taken = <<>> /\ inbox # <<>> /\ inbox[1] \in Byte
        /\ Peeked \in Seq(Byte) /\ Len(Peeked) \in 1 .. SignatureSize
        /\ Peeked # <<>> /\ Peeked[1] = inbox[1]
    BY <1>3, PeekFacts
  <2>i. inbox' = inbox BY <1>3, PeekStep
  <2>1. CASE Len(Peeked) < SignatureSize
    <3>1. /\ signature' = Peeked /\ pc' = "peek"
          /\ shortPeeks' = IF inbox[1].at = 1 THEN shortPeeks \cup {inbox[1].msg}
                                              ELSE shortPeeks
      BY <1>3, <2>1, <2>f, PeekStep
    <3>2. Starts(inbox[1]) => inbox[1].msg \in shortPeeks' BY <3>1 DEF Starts
    <3> QED BY <2>1, <2>f, <2>i, <3>1, <3>2 DEF PeekInv, Starts
  <2>2. CASE ~(Len(Peeked) < SignatureSize)
    <3>1. /\ signature' = <<>> /\ shortPeeks' = shortPeeks
          /\ pc' = IF IsSignature(Peeked) THEN "header" ELSE "skip"
      BY <1>3, <2>2, PeekStep
    <3>2. CASE IsSignature(Peeked) BY <3>1, <3>2 DEF PeekInv
    <3>3. CASE ~IsSignature(Peeked) /\ signature # <<>>
      BY <2>f, <2>i, <3>1, <3>3 DEF PeekInv, Starts
    <3>4. CASE ~IsSignature(Peeked) /\ signature = <<>>
      <4>1. ~Starts(inbox[1])
        <5> SUFFICES ASSUME Starts(inbox[1]) PROVE FALSE OBVIOUS
        <5>1. Ahead # <<>> /\ Ahead[1] = inbox[1] BY <2>f, FirstAhead
        <5> DEFINE m == Ahead[1].msg
        <5>2. m \in 1 .. sent /\ \A k \in 1 .. Total(m) : Ahead[k].msg = m /\ Ahead[k].at = k
          <6>1. Ahead \in Seq(Byte) /\ sent \in 0 .. Len(wire) /\ Starts(Ahead[1])
            BY <5>1, AheadFacts DEF TypeOK
          <6> QED BY <5>1, <6>1, PieceFacts DEF StreamInv
        <5>3. SignatureSize \in Nat /\ SignatureSize <= HeaderSize /\ HeaderSize \in Nat
          BY FramingAssumption
        <5>4. Total(m) \in Nat /\ SignatureSize <= Total(m)
          <6>1. m \in 1 .. Len(wire) BY <5>2, CurrentFacts
          <6>2. Total(m) = HeaderSize + wire[m].size /\ wire[m].size \in Nat
            BY <6>1, TotalFacts
          <6> QED BY <5>3, <6>2
        <5> HIDE DEF m
        <5>5. Len(Peeked) = SignatureSize BY <2>2, <2>f, <5>3
        <5>6. /\ SignatureSize <= Len(inbox) /\ Len(inbox) \in Nat
              /\ \A k \in 1 .. SignatureSize : Peeked[k] = inbox[k]
          BY <1>3, <3>4, <5>5, PeekFacts, AheadFacts
        <5>7. \A k \in 1 .. Len(inbox) : Ahead[k] = inbox[k] BY <2>f, AheadFacts
        <5>8. \A k \in 1 .. SignatureSize : Peeked[k].at = k
          <6> TAKE k \in 1 .. SignatureSize
          <6>1. k \in 1 .. Len(inbox) /\ k \in 1 .. Total(m) BY <5>3, <5>4, <5>6
          <6> QED BY <5>2, <5>6, <5>7, <6>1
        <5> QED BY <3>4, <5>8 DEF IsSignature
      <4> QED BY <2>f, <2>i, <3>1, <3>4, <4>1 DEF PeekInv, Starts
    <3> QED BY <3>2, <3>3, <3>4
  <2> QED BY <2>1, <2>2
<1>4. CASE Skip
  <2>1. signature' = <<>> /\ pc' = "peek" BY <1>4 DEF Skip, PeekInv
  <2> QED BY <2>1 DEF PeekInv
<1>5. CASE ReceiveSome \/ ReceiveFails \/ HeaderOfPayload \/ HeaderInvalid \/ Enqueue
  <2>1. pc \in {"header", "payload"} /\ signature' = signature /\ pc' # "skip"
    BY <1>5 DEF ReceiveSome, ReceiveFails, HeaderOfPayload, HeaderInvalid, Enqueue
  <2>2. signature' = <<>> BY <2>1 DEF PeekInv
  <2> QED BY <2>1, <2>2 DEF PeekInv
<1>6. CASE UNCHANGED vars BY <1>6 DEF vars, thread, PeekInv, Starts
<1> QED BY <1>1, <1>2, <1>3, <1>4, <1>5, <1>6 DEF Next, Read

LEMMA TakenStep ==
    ASSUME TypeOK, StreamInv, PeekInv, TakenInv, [Next]_vars
    PROVE  TakenInv'
<1>0. SignatureSize \in Nat /\ SignatureSize >= 1 /\ HeaderSize \in Nat /\ HeaderSize >= 1
  BY FramingAssumption
<1>1. CASE RadarSends
  BY <1>1 DEF RadarSends, thread, TakenInv, Starts, Total
<1>2. CASE Arrive
  <2>1. UNCHANGED <<wire, pc, taken>> BY <1>2 DEF Arrive, thread
  <2>2. inbox # <<>> => inbox' # <<>> /\ inbox'[1] = inbox[1] BY <1>2, AheadArrives
  <2> QED BY <2>1, <2>2 DEF TakenInv, Starts, Total
<1>3. CASE Peek
  <2>1. /\ pc = "peek" /\ taken = <<>> /\ inbox # <<>>
        /\ Peeked[1] = inbox[1] /\ taken' = taken /\ inbox' = inbox
    BY <1>3, PeekFacts, PeekStep
  <2>2. pc' \in {"peek", "skip"} \/ (pc' = "header" /\ IsSignature(Peeked))
    BY <1>3, <2>1, PeekStep
  <2>3. IsSignature(Peeked) => Starts(inbox[1]) BY <1>0, <2>1 DEF IsSignature, Starts
  <2>4. Len(taken') <= HeaderSize BY <1>0, <2>1, EmptySeq
  <2> QED BY <2>1, <2>2, <2>3, <2>4 DEF TakenInv, Starts
<1>4. CASE Skip
  BY <1>4 DEF Skip, TakenInv
<1>5. CASE ReceiveSome
  <2>1. /\ pc \in {"header", "payload"} /\ pc' = pc /\ wire' = wire
        /\ taken' # <<>> /\ Starts(taken'[1]) /\ Len(taken') <= Needed
        /\ taken # <<>> => taken'[1] = taken[1]
    BY <1>5, AheadReceived DEF ReceiveSome
  <2>2. pc = "header" => Len(taken') <= HeaderSize BY <2>1 DEF Needed
  <2>3. pc = "payload" => /\ wire[taken'[1].msg].valid
                          /\ Len(taken') <= Total(taken'[1].msg)
    BY <2>1 DEF Needed, Received, Total, TakenInv
  <2> QED BY <2>1, <2>2, <2>3 DEF TakenInv, Starts, Total
<1>6. CASE ReceiveFails
  BY <1>6 DEF ReceiveFails, TakenInv, Starts
<1>7. CASE HeaderOfPayload
  <2>1. /\ pc = "header" /\ Complete /\ Received.valid /\ pc' = "payload"
        /\ taken' = taken /\ wire' = wire
    BY <1>7 DEF HeaderOfPayload
  <2>2. /\ taken # <<>> /\ Starts(taken[1]) /\ Received = wire[taken[1].msg]
        /\ Len(taken) <= Total(taken[1].msg)
    BY <2>1, CompleteFacts
  <2> QED BY <2>1, <2>2 DEF TakenInv, Starts, Total
<1>8. CASE HeaderInvalid \/ Enqueue
  <2>1. taken' = <<>> /\ pc' = "peek" BY <1>8, AheadLeft
  <2> QED BY <2>1 DEF TakenInv
<1>9. CASE UNCHANGED vars BY <1>9 DEF vars, thread, TakenInv, Starts, Total
<1> QED BY <1>1, <1>2, <1>3, <1>4, <1>5, <1>6, <1>7, <1>8, <1>9 DEF Next, Read

----------------------------------------------------------------------------
(* What was delivered, and what was lost *)

\* How the steps move the thread through the stream
LEMMA CurrentStep ==
    ASSUME TypeOK, StreamInv, TakenInv, [Next]_vars
    PROVE  /\ wire' = wire /\ sent' \in Nat /\ sent <= sent'
           /\ \/ ~Skip /\ ~HeaderInvalid /\ ~Enqueue /\ Current' = Current /\ Within' = Within
              \/ /\ Skip \/ HeaderInvalid
                 /\ (Current' = Current /\ Within') \/ (Current' = Current + 1 /\ ~Within')
              \/ Enqueue /\ Current' = Current + 1 /\ ~Within'
<1>0. sent \in Nat /\ sent <= sent + 1 /\ sent <= sent BY CurrentFacts
<1>1. CASE RadarSends
  <2>1. sent' = sent + 1 /\ wire' = wire /\ delivered' = delivered /\ pc' = pc
    BY <1>1 DEF RadarSends, thread
  <2>2. Current' = Current /\ Within' = Within BY <1>1, CurrentWaits
  <2>3. ~Skip /\ ~HeaderInvalid /\ ~Enqueue BY <1>0, <2>1 DEF Skip, HeaderInvalid, Enqueue
  <2> QED BY <1>0, <2>1, <2>2, <2>3
<1>2. CASE Skip
  <2>1. Ahead' = After(Ahead, 1) /\ Ahead # <<>> /\ sent' = sent /\ wire' = wire
    BY <1>2, AheadSkipped DEF Skip
  <2>2. 1 \in 1 .. Len(Ahead) BY <2>1, AheadFacts, EmptySeq
  <2>3. /\ Current = Ahead[1].msg
        /\ (Current' = Ahead[1].msg /\ Within') \/ (Current' = Ahead[1].msg + 1 /\ ~Within')
    BY <2>1, <2>2, CurrentMoves
  <2> QED BY <1>0, <1>2, <2>1, <2>3
<1>3. CASE HeaderInvalid \/ Enqueue
  <2>1. /\ pc \in {"header", "payload"} /\ Complete
        /\ Ahead' = After(Ahead, Len(taken)) /\ sent' = sent /\ wire' = wire
    BY <1>3, AheadLeft
  <2>2. /\ taken[1] = Ahead[1] /\ Starts(Ahead[1]) /\ Received = wire[Ahead[1].msg]
        /\ Len(taken) \in 1 .. Len(Ahead) /\ Len(taken) <= Total(Ahead[1].msg)
        /\ pc = "payload" \/ wire[Ahead[1].msg].size = 0 => Len(taken) = Total(Ahead[1].msg)
    BY <2>1, CompleteFacts
  <2>3. /\ Current = Ahead[1].msg
        /\ (Current' = Ahead[1].msg /\ Within') \/ (Current' = Ahead[1].msg + 1 /\ ~Within')
        /\ Len(taken) = Total(Ahead[1].msg) => Current' = Ahead[1].msg + 1 /\ ~Within'
    BY <2>1, <2>2, CurrentMoves
  <2>4. Enqueue => Current' = Current + 1 /\ ~Within' BY <2>2, <2>3 DEF Enqueue
  <2> QED BY <1>0, <1>3, <2>1, <2>3, <2>4
<1>4. CASE /\ Arrive \/ Peek \/ ReceiveSome \/ ReceiveFails \/ HeaderOfPayload \/ UNCHANGED vars
           /\ ~Skip /\ ~HeaderInvalid /\ ~Enqueue
  <2>1. Ahead' = Ahead /\ sent' = sent /\ wire' = wire BY <1>4, AheadStays
  <2>2. Current' = Current /\ Within' = Within BY <2>1 DEF Current, Within, Starts
  <2> QED BY <1>0, <1>4, <2>1, <2>2
<1> QED BY <1>1, <1>2, <1>3, <1>4 DEF Next, Read

\* What is enqueued is a message.
LEMMA Enqueued ==
    ASSUME TypeOK, StreamInv, TakenInv, Enqueue
    PROVE  /\ taken = Bytes(Current) /\ taken[1].msg = Current /\ Current \in 1 .. sent
           /\ wire[Current].valid
<1> DEFINE m == Current
<1>1. pc \in {"header", "payload"} /\ Complete BY DEF Enqueue
<1>2. /\ taken # <<>> /\ taken[1] = Ahead[1] /\ Starts(Ahead[1]) /\ taken[1].msg = m
      /\ m \in 1 .. sent /\ m \in 1 .. Len(wire) /\ Received = wire[m]
      /\ Len(taken) \in 1 .. Len(Ahead)
      /\ pc = "payload" => wire[m].valid
      /\ pc = "payload" \/ wire[m].size = 0 => Len(taken) = Total(m)
  BY <1>1, CompleteFacts
<1> HIDE DEF m
<1>3. wire[m].valid /\ Len(taken) = Total(m) BY <1>2 DEF Enqueue
<1>4. \A k \in 1 .. Total(m) : Ahead[k].msg = m /\ Ahead[k].at = k
  <2>1. /\ Ahead \in Seq(Byte) /\ Ahead # <<>> /\ PieceUpTo(Ahead, sent)
        /\ sent \in 0 .. Len(wire)
    BY <1>2, AheadFacts, FirstAhead DEF TypeOK, StreamInv
  <2> QED BY <1>2, <2>1, PieceFacts
<1>5. taken \in Seq(Byte) BY DEF TypeOK
<1>6. Bytes(m) \in Seq(Byte) /\ Len(Bytes(m)) = Total(m) /\ Total(m) \in Nat
      /\ \A k \in 1 .. Total(m) : Bytes(m)[k].msg = m /\ Bytes(m)[k].at = k
  BY <1>2, BytesFacts, TotalFacts
<1>7. ASSUME NEW k \in 1 .. Len(taken) PROVE taken[k] = Bytes(m)[k]
  <2>1. taken[k] \in Byte /\ Bytes(m)[k] \in Byte
    <3>1. k \in 1 .. Len(taken) /\ k \in 1 .. Len(Bytes(m)) BY <1>3, <1>6
    <3> QED BY <1>5, <1>6, <3>1, ElementOfSeq
  <2>2. taken[k].msg = m /\ taken[k].at = k BY <1>3, <1>4, AheadFacts
  <2>3. Bytes(m)[k].msg = m /\ Bytes(m)[k].at = k BY <1>3, <1>6
  <2> QED BY <2>1, <2>2, <2>3 DEF Byte
<1>8. taken = Bytes(m) BY <1>3, <1>5, <1>6, <1>7, SeqEqual
<1> QED BY <1>2, <1>3, <1>8 DEF m

LEMMA DeliveredStep ==
    ASSUME TypeOK, StreamInv, TakenInv, DeliveredInv, [Next]_vars
    PROVE  DeliveredInv'
<1>0. /\ wire' = wire /\ sent \in Nat /\ sent' \in Nat /\ sent <= sent'
      /\ Current \in Nat /\ Current' \in Nat /\ Current <= Current'
      /\ Enqueue => Current' = Current + 1
  <2>1. sent \in Nat /\ Current \in Nat BY CurrentFacts
  <2>2. Current' = Current \/ Current' = Current + 1 BY CurrentStep
  <2>3. Enqueue => Current' = Current + 1
    <3> SUFFICES ASSUME Enqueue PROVE Current' = Current + 1 OBVIOUS
    <3>1. pc \in {"header", "payload"} /\ Complete BY AheadLeft
    <3>2. ~Skip BY <3>1 DEF Skip
    <3>3. ~HeaderInvalid BY <2>1 DEF Enqueue, HeaderInvalid, TypeOK
    <3> QED BY <3>2, <3>3, CurrentStep
  <2> QED BY <2>1, <2>2, <2>3, CurrentStep
<1>b. \A i \in 1 .. sent : Bytes(i)' = Bytes(i) BY <1>0 DEF Bytes
<1>1. \A d \in 1 .. Len(delivered) :
          /\ delivered[d][1].msg \in 1 .. sent /\ wire[delivered[d][1].msg].valid
          /\ delivered[d] = Bytes(delivered[d][1].msg)
          /\ d > 1 => delivered[d - 1][1].msg < delivered[d][1].msg
          /\ delivered[d][1].msg < Current
  BY SMTT(90) DEF DeliveredInv
<1>2. CASE Enqueue
  <2>1. /\ taken = Bytes(Current) /\ taken[1].msg = Current /\ Current \in 1 .. sent
        /\ wire[Current].valid
    BY <1>2, Enqueued
  <2>2. /\ delivered' = Append(delivered, taken) /\ delivered \in Seq(Seq(Byte))
        /\ taken \in Seq(Byte)
    BY <1>2 DEF Enqueue, TypeOK
  <2>3. /\ Len(delivered) \in Nat /\ Len(delivered') = Len(delivered) + 1
        /\ \A d \in 1 .. Len(delivered) : delivered'[d] = delivered[d]
        /\ delivered'[Len(delivered) + 1] = taken
    BY <2>2, AppendProperties, LenProperties
  <2>4. ASSUME NEW d \in 1 .. Len(delivered')
        PROVE  LET i == delivered'[d][1].msg
               IN  /\ i \in 1 .. sent' /\ wire[i].valid /\ delivered'[d] = Bytes(i)
                   /\ d > 1 => delivered'[d - 1][1].msg < i
                   /\ i < Current'
    <3>1. CASE d \in 1 .. Len(delivered)
      <4>1. delivered'[d] = delivered[d] /\ (d > 1 => delivered'[d - 1] = delivered[d - 1])
        BY <2>3, <3>1
      <4>2. delivered[d][1].msg \in 1 .. sent' /\ delivered[d][1].msg < Current'
        BY SMTT(90), <1>0, <1>1, <3>1
      <4> QED BY <1>1, <3>1, <4>1, <4>2
    <3>2. CASE d = Len(delivered) + 1
      <4>1. delivered'[d] = taken
            /\ (d > 1 => d - 1 \in 1 .. Len(delivered) /\ delivered'[d - 1] = delivered[d - 1])
        BY <2>3, <3>2
      <4>2. Current \in 1 .. sent' /\ Current < Current' BY <1>0, <1>2, <2>1
      <4> QED BY <1>1, <2>1, <4>1, <4>2
    <3> QED BY <2>3, <3>1, <3>2
  <2> QED BY <1>0, <2>4 DEF DeliveredInv, Bytes
<1>3. CASE ~Enqueue
  <2>1. delivered' = delivered
    BY <1>3 DEF Next, Read, RadarSends, Arrive, Peek, Skip, ReceiveSome, ReceiveFails,
                HeaderOfPayload, HeaderInvalid, thread, vars
  <2>2. \A d \in 1 .. Len(delivered) :
            delivered[d][1].msg \in 1 .. sent' /\ delivered[d][1].msg < Current'
    BY SMTT(90), <1>0, <1>1
  <2> QED BY <1>0, <1>1, <2>1, <2>2 DEF DeliveredInv, Bytes
<1> QED BY <1>2, <1>3

LEMMA LostStep ==
    ASSUME TypeOK, StreamInv, PeekInv, TakenInv, LostInv, [Next]_vars
    PROVE  LostInv'
<1>0. wire' = wire /\ sent \in Nat /\ sent' \in Nat /\ Current \in 1 .. sent + 1
      /\ (Within => Current \in 1 .. sent)
  BY CurrentFacts, CurrentStep
<1>d. /\ \A i \in 1 .. sent : IsDelivered(i) => IsDelivered(i)'
      /\ shortPeeks \subseteq shortPeeks'
  <2>1. CASE Enqueue
    <3>1. /\ delivered' = Append(delivered, taken) /\ delivered \in Seq(Seq(Byte))
          /\ taken \in Seq(Byte) /\ shortPeeks' = shortPeeks
      BY <2>1 DEF Enqueue, TypeOK
    <3>2. /\ Len(delivered) \in Nat /\ Len(delivered') = Len(delivered) + 1
          /\ delivered' \in Seq(Seq(Byte))
          /\ \A d \in 1 .. Len(delivered) : delivered'[d] = delivered[d]
      BY <3>1, AppendProperties, LenProperties
    <3>3. /\ DOMAIN delivered = 1 .. Len(delivered) /\ DOMAIN delivered' = 1 .. Len(delivered')
      BY <3>1, <3>2, LenProperties
    <3>4. \A d \in DOMAIN delivered : d \in DOMAIN delivered' /\ delivered'[d] = delivered[d]
      BY <3>2, <3>3
    <3> QED BY <1>0, <3>1, <3>4 DEF IsDelivered, Bytes
  <2>2. CASE ~Enqueue
    <3>1. delivered' = delivered
      BY <2>2 DEF Next, Read, RadarSends, Arrive, Peek, Skip, ReceiveSome, ReceiveFails,
                  HeaderOfPayload, HeaderInvalid, thread, vars
    <3>2. shortPeeks \subseteq shortPeeks'
      <4>1. CASE Peek BY <4>1, PeekStep
      <4>2. CASE ~Peek
        BY <2>2, <4>2 DEF Next, Read, RadarSends, Arrive, Skip, ReceiveSome, ReceiveFails,
                          HeaderOfPayload, HeaderInvalid, thread, vars
      <4> QED BY <4>1, <4>2
    <3> QED BY <1>0, <3>1, <3>2 DEF IsDelivered, Bytes
  <2> QED BY <2>1, <2>2
<1>1. ASSUME NEW i \in 1 .. sent', wire[i].valid,
             i < Current' \/ (i = Current' /\ Within')
      PROVE  IsDelivered(i)' \/ i \in shortPeeks'
  <2>1. CASE i \in 1 .. sent /\ Begun(i)
    <3>1. IsDelivered(i) \/ i \in shortPeeks BY <1>1, <2>1 DEF LostInv
    <3> QED BY <1>d, <2>1, <3>1
  <2>2. CASE ~(i \in 1 .. sent /\ Begun(i))
    <3>1. Skip \/ HeaderInvalid \/ Enqueue
      <4> SUFFICES ASSUME Current' = Current, Within' = Within PROVE FALSE BY CurrentStep
      <4>1. i < Current \/ (i = Current /\ Within) BY <1>1
      <4>2. i \in 1 .. sent BY <1>0, <1>1, <4>1
      <4> QED BY <2>2, <4>1, <4>2 DEF Begun
    <3>2. i = Current /\ ~Within
      <4>1. Current' = Current \/ (Current' = Current + 1 /\ ~Within') BY <3>1, CurrentStep
      <4>2. i <= Current BY <1>0, <1>1, <4>1
      <4>3. i < Current => i \in 1 .. sent BY <1>0, <1>1
      <4>4. i = Current /\ Within => i \in 1 .. sent BY <1>0
      <4> QED BY <1>0, <1>1, <2>2, <4>2, <4>3, <4>4 DEF Begun
    <3>3. CASE Skip
      <4>1. Ahead # <<>> /\ Ahead[1] = inbox[1] /\ pc = "skip"
        BY <3>3, AheadSkipped DEF Skip
      <4>2. Starts(inbox[1]) /\ inbox[1].msg = i BY <3>2, <4>1 DEF Within, Current
      <4>3. i \in shortPeeks BY <4>1, <4>2 DEF PeekInv
      <4> QED BY <1>d, <4>3
    <3>4. CASE HeaderInvalid
      <4>1. pc \in {"header", "payload"} /\ Complete /\ ~Received.valid
        BY <3>4 DEF HeaderInvalid
      <4>2. Received = wire[Current] BY <4>1, CompleteFacts
      <4> QED BY <1>1, <3>2, <4>1, <4>2
    <3>5. CASE Enqueue
      <4>1. taken = Bytes(Current) BY <3>5, Enqueued
      <4>2. /\ delivered' = Append(delivered, taken) /\ delivered \in Seq(Seq(Byte))
            /\ taken \in Seq(Byte)
        BY <3>5 DEF Enqueue, TypeOK
      <4>3. /\ Len(delivered) \in Nat /\ Len(delivered') = Len(delivered) + 1
            /\ delivered' \in Seq(Seq(Byte)) /\ delivered'[Len(delivered) + 1] = taken
        BY <4>2, AppendProperties, LenProperties
      <4>4. DOMAIN delivered' = 1 .. Len(delivered') BY <4>3, LenProperties
      <4>5. Len(delivered) + 1 \in DOMAIN delivered' BY <4>3, <4>4
      <4>6. Bytes(i)' = Bytes(i) BY <1>0 DEF Bytes
      <4> QED BY <3>2, <4>1, <4>3, <4>5, <4>6 DEF IsDelivered
    <3> QED BY <3>1, <3>3, <3>4, <3>5
  <2> QED BY <2>1, <2>2
<1> QED BY <1>0, <1>1 DEF LostInv, Begun

----------------------------------------------------------------------------
(* The invariant holds, and what follows from it *)

LEMMA InvInit == Init => IInv
<1> SUFFICES ASSUME Init PROVE IInv OBVIOUS
<1>1. /\ wire \in Wires /\ sent = 0 /\ pending = <<>> /\ inbox = <<>>
      /\ pc = "peek" /\ signature = <<>> /\ taken = <<>>
      /\ delivered = <<>> /\ shortPeeks = {}
  BY DEF Init
<1>2. Len(wire) \in Nat BY <1>1, FramingAssumption, LenProperties
<1>3. TypeOK
  <2>1. <<>> \in Seq(Byte) /\ <<>> \in Seq(Seq(Byte)) BY EmptySeq
  <2> QED BY <1>1, <1>2, <2>1 DEF TypeOK
<1>4. Ahead = <<>>
  <2>1. <<>> \o <<>> = <<>> BY EmptySeq, ConcatEmptySeq
  <2> QED BY <1>1, <2>1 DEF Ahead
<1>5. Len(<<>>) = 0 BY EmptySeq
<1>6. StreamInv
  <2>1. 1 .. Len(Ahead) = {} /\ 1 .. Len(Ahead) - 1 = {} BY <1>4, <1>5
  <2> QED BY <1>1, <1>4, <2>1 DEF StreamInv, PieceUpTo
<1>7. PeekInv BY <1>1 DEF PeekInv
<1>8. TakenInv BY <1>1 DEF TakenInv
<1>9. DeliveredInv
  <2>1. 1 .. Len(delivered) = {} BY <1>1, <1>5
  <2> QED BY <2>1 DEF DeliveredInv
<1>10. LostInv
  <2>1. 1 .. sent = {} BY <1>1
  <2> QED BY <2>1 DEF LostInv
<1> QED BY <1>3, <1>6, <1>7, <1>8, <1>9, <1>10 DEF IInv

LEMMA InvStep == IInv /\ [Next]_vars => IInv'
BY TypeStep, StreamStep, PeekInvStep, TakenStep, DeliveredStep, LostStep DEF IInv

LEMMA Invariance == Spec => []IInv
BY InvInit, InvStep, PTL DEF Spec

\* Every state is made of bytes of messages, and every number in its range.
THEOREM TypeCorrect == Spec => []TypeOK
<1>1. IInv => TypeOK BY DEF IInv
<1> QED BY <1>1, Invariance, PTL

\* What read_thread_handler() hands on are messages as the radar sent them, whole, in
\* the order of sending and none twice, however the stream was cut: resynchronising
\* byte by byte never makes a message up out of parts of others.
THEOREM DeliveredWhole == Spec => []DeliveredAsSent
<1>1. IInv => DeliveredAsSent
  <2> SUFFICES ASSUME IInv PROVE DeliveredAsSent OBVIOUS
  <2> DEFINE ids == [d \in DOMAIN delivered |-> delivered[d][1].msg]
  <2>1. DOMAIN delivered = 1 .. Len(delivered) /\ Len(delivered) \in Nat
    BY LenProperties DEF IInv, TypeOK
  <2>2. /\ DOMAIN wire = 1 .. Len(wire) /\ Len(wire) \in Nat /\ sent \in Nat
        /\ sent <= Len(wire)
    <3>1. TypeOK /\ StreamInv BY DEF IInv
    <3>2. wire \in Seq([size : Nat, valid : BOOLEAN])
      BY FramingAssumption DEF IInv, TypeOK
    <3>3. DOMAIN wire = 1 .. Len(wire) BY <3>2, LenProperties
    <3> QED BY <3>1, <3>3, CurrentFacts
  <2>3. \A d \in 1 .. Len(delivered) :
            /\ delivered[d][1].msg \in 1 .. sent /\ wire[delivered[d][1].msg].valid
            /\ delivered[d] = Bytes(delivered[d][1].msg)
            /\ d > 1 => delivered[d - 1][1].msg < delivered[d][1].msg
    BY DEF IInv, DeliveredInv
  <2>4. ids \in [DOMAIN delivered -> DOMAIN wire]
    <3>1. \A d \in DOMAIN delivered : delivered[d][1].msg \in DOMAIN wire
      BY <2>1, <2>2, <2>3
    <3> QED BY <3>1
  <2>5. \A i \in DOMAIN delivered :
            /\ wire[ids[i]].valid /\ delivered[i] = Bytes(ids[i])
            /\ i > 1 => ids[i - 1] < ids[i]
    <3> TAKE i \in DOMAIN delivered
    <3>1. i \in 1 .. Len(delivered) /\ ids[i] = delivered[i][1].msg BY <2>1
    <3>2. i > 1 => i - 1 \in DOMAIN delivered /\ ids[i - 1] = delivered[i - 1][1].msg
      BY <2>1, <3>1
    <3> QED BY <2>3, <3>1, <3>2
  <2> HIDE DEF ids
  <2> QED BY <2>4, <2>5 DEF DeliveredAsSent
<1> QED BY <1>1, Invariance, PTL

\* A valid message is lost only if its own signature was peeked at before all of it had
\* arrived: no loss takes another message with it, whatever the sizes are.
THEOREM LossesAreOwn == Spec => []LostByShortPeekOnly
<1>1. IInv => LostByShortPeekOnly
  <2> SUFFICES ASSUME IInv, NEW i \in DOMAIN wire, IsPast(i), wire[i].valid
               PROVE  IsDelivered(i) \/ i \in shortPeeks
    BY DEF LostByShortPeekOnly
  <2>1. TypeOK /\ StreamInv /\ LostInv BY DEF IInv
  <2>2. wire \in Seq([size : Nat, valid : BOOLEAN])
    BY <2>1, FramingAssumption DEF TypeOK
  <2>3. i \in 1 .. Len(wire) /\ i <= sent /\ sent \in Nat /\ Len(wire) \in Nat
    BY <2>1, <2>2, LenProperties, CurrentFacts DEF IsPast
  <2>4. i < Current
    <3>1. CASE Ahead = <<>> BY <2>3, <3>1 DEF Current
    <3>2. CASE Ahead # <<>>
      <4>1. Ahead \in Seq(Byte) BY <2>1, AheadFacts
      <4>2. 1 \in DOMAIN Ahead BY <3>2, <4>1, EmptySeq, LenProperties
      <4>3. Ahead[1] \in Byte BY <4>1, <4>2, LenProperties, ElementOfSeq
      <4>4. Ahead[1].msg > i /\ Ahead[1].msg \in Nat BY <4>2, <4>3 DEF IsPast, Byte
      <4> QED BY <2>3, <3>2, <4>4 DEF Current
    <3> QED BY <3>1, <3>2
  <2> QED BY <2>1, <2>3, <2>4 DEF LostInv, Begun
<1> QED BY <1>1, Invariance, PTL
=============================================================================
