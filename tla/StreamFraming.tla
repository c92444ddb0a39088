---------------------------- MODULE StreamFraming ----------------------------
(***************************************************************************)
(* How the read thread of Tcp_radar_client finds messages in the byte      *)
(* stream (read_thread_handler() and handle_data() of                      *)
(* cpp_17/network/tcp_radar_client.cpp, over Tcp_socket::receive()).       *)
(*                                                                         *)
(* A message starts with a fixed signature, which the rest of its header   *)
(* and its payload follow.  The thread peeks at a signature's worth of     *)
(* bytes; if they are not the signature it drops one byte and tries again, *)
(* otherwise it receives a header and then as many bytes as the header     *)
(* says.  TCP hands the stream over in pieces of any size.                 *)
(*                                                                         *)
(* A byte is known by its message and its place in it.  The bytes of the   *)
(* signature are told apart from each other and from all others, which is  *)
(* what the 16 bytes of the code are chosen for.                           *)
(***************************************************************************)
EXTENDS Naturals, Sequences

CONSTANTS
    SignatureSize,  \* 16 in the code
    HeaderSize,     \* 22 in the code
    Wires           \* what the radar may send: sequences of [size, valid]

ASSUME FramingAssumption ==
    /\ SignatureSize \in Nat \ {0} /\ HeaderSize \in Nat /\ HeaderSize >= SignatureSize
    /\ Wires \subseteq Seq([size : Nat, valid : BOOLEAN])

VARIABLES
    wire,       \* the messages: payload size, and whether is_valid() accepts the header
    sent,       \* how many of them the radar has sent
    pending,    \* bytes on their way
    inbox,      \* bytes the socket holds
    pc,         \* "peek", "skip", "header", "payload"; "lost" ends the thread
    signature,  \* the buffer of the peek
    taken,      \* the bytes of the message being received
    delivered,  \* what was enqueued
    shortPeeks  \* history: messages whose signature was peeked at before it was all there

thread == <<pc, signature, taken, delivered, shortPeeks>>
vars == <<wire, sent, pending, inbox, thread>>

Bytes(i) == [k \in 1 .. HeaderSize + wire[i].size |-> [msg |-> i, at |-> k]]

Init ==
    /\ wire \in Wires
    /\ sent = 0
    /\ pending = <<>> /\ inbox = <<>>
    /\ pc = "peek" /\ signature = <<>> /\ taken = <<>>
    /\ delivered = <<>> /\ shortPeeks = {}

First(s, n) == SubSeq(s, 1, n)
After(s, n) == SubSeq(s, n + 1, Len(s))
Least(m, n) == IF m < n THEN m ELSE n

\* The radar sends its next message.
RadarSends ==
    /\ sent < Len(wire) /\ sent' = sent + 1
    /\ pending' = pending \o Bytes(sent + 1)
    /\ UNCHANGED <<wire, inbox, thread>>

\* The network delivers any number of bytes.
Arrive ==
    /\ \E n \in 1 .. Len(pending) :
           /\ inbox' = inbox \o First(pending, n)
           /\ pending' = After(pending, n)
    /\ UNCHANGED <<wire, sent, thread>>

IsSignature(s) == \A k \in 1 .. SignatureSize : s[k].at = k

\* receive(signature, 16, peek): it asks for what its buffer lacks until that is
\* full, and since nothing is taken off the socket each recv() starts at the
\* same byte again.
Peek ==
    /\ pc = "peek" /\ inbox # <<>>
    /\ LET n == Least(Len(inbox), SignatureSize - Len(signature))
           now == signature \o First(inbox, n)
       IN  IF Len(now) < SignatureSize
           THEN /\ signature' = now
                /\ shortPeeks' = IF inbox[1].at = 1 THEN shortPeeks \cup {inbox[1].msg}
                                                    ELSE shortPeeks
                /\ UNCHANGED pc
           ELSE /\ signature' = <<>>
                /\ pc' = IF IsSignature(now) THEN "header" ELSE "skip"
                /\ UNCHANGED shortPeeks
    /\ UNCHANGED <<wire, sent, pending, inbox, taken, delivered>>

SkippedNothing(s) == s

SkippedSignature(s) == After(s, Least(Len(s), SignatureSize))

Skipped(s) == After(s, 1)

\* Not a signature: receive(signature, 1).
Skip ==
    /\ pc = "skip" /\ inbox # <<>>
    /\ inbox' = Skipped(inbox)
    /\ pc' = "peek"
    /\ UNCHANGED <<wire, sent, pending, signature, taken, delivered, shortPeeks>>

\* The header in hand: its message.
Received == wire[taken[1].msg]

\* What handle_data() waits for: the header, then payload_size() more.
Needed == IF pc = "header" THEN HeaderSize ELSE HeaderSize + Received.size

\* recv() without peek, in the loop of receive()
ReceiveSome ==
    /\ pc \in {"header", "payload"}
    /\ inbox # <<>> /\ Len(taken) < Needed
    /\ LET n == Least(Len(inbox), Needed - Len(taken))
       IN  /\ taken' = taken \o First(inbox, n)
           /\ inbox' = After(inbox, n)
    /\ UNCHANGED <<wire, sent, pending, pc, signature, delivered, shortPeeks>>

\* Nothing came before the timeout: the thread reports the loss and ends.
ReceiveFails ==
    /\ pc \in {"header", "payload"}
    /\ inbox = <<>> /\ Len(taken) < Needed
    /\ pc' = "lost"
    /\ UNCHANGED <<wire, sent, pending, inbox, signature, taken, delivered, shortPeeks>>

CompleteAtOnce == taken # <<>>

Complete == Len(taken) = Needed

\* A valid header with a payload: go on with the payload.
HeaderOfPayload ==
    /\ pc = "header" /\ Complete
    /\ Received.valid /\ Received.size # 0
    /\ pc' = "payload"
    /\ UNCHANGED <<wire, sent, pending, inbox, signature, taken, delivered, shortPeeks>>

\* An invalid header is dropped, alone: its payload is skipped byte by byte.
HeaderInvalid ==
    /\ pc = "header" /\ Complete
    /\ ~Received.valid
    /\ taken' = <<>> /\ pc' = "peek"
    /\ UNCHANGED <<wire, sent, pending, inbox, signature, delivered, shortPeeks>>

Enqueue ==
    /\ \/ pc = "payload" /\ Complete
       \/ pc = "header" /\ Complete /\ Received.valid /\ Received.size = 0
    /\ delivered' = Append(delivered, taken)
    /\ taken' = <<>> /\ pc' = "peek"
    /\ UNCHANGED <<wire, sent, pending, inbox, signature, shortPeeks>>

Read ==
    \/ Peek \/ Skip \/ ReceiveSome \/ ReceiveFails
    \/ HeaderOfPayload \/ HeaderInvalid \/ Enqueue

Next == RadarSends \/ Arrive \/ Read

Spec == Init /\ [][Next]_vars

\* The thread is scheduled, and what the radar has to send is sent and arrives.
FairSpec == Spec /\ WF_vars(RadarSends) /\ WF_vars(Arrive) /\ WF_vars(Read)

----------------------------------------------------------------------------
(* Properties *)

\* What is enqueued is a message as it was sent, in the order of sending and
\* once: resynchronising never makes one up out of parts.
DeliveredAsSent ==
    \E ids \in [DOMAIN delivered -> DOMAIN wire] :
        \A i \in DOMAIN delivered :
            /\ wire[ids[i]].valid /\ delivered[i] = Bytes(ids[i])
            /\ i > 1 => ids[i - 1] < ids[i]

IsDelivered(i) == \E d \in DOMAIN delivered : delivered[d] = Bytes(i)

\* The bytes the thread is not done with
Ahead == taken \o inbox \o pending

\* Message i was sent, and its bytes are all behind the thread.
IsPast(i) == i <= sent /\ \A k \in DOMAIN Ahead : Ahead[k].msg > i

\* A valid message is lost only if its own signature was peeked at before all
\* of it had arrived: one loss does not take the next message with it.
LostByShortPeekOnly ==
    \A i \in DOMAIN wire : IsPast(i) /\ wire[i].valid => IsDelivered(i) \/ i \in shortPeeks

\* And the thread gets through the stream: every message is delivered, was lost
\* that way, or the thread ended.
GetsThrough ==
    <>(pc = "lost" \/ \A i \in DOMAIN wire :
                          wire[i].valid => IsDelivered(i) \/ i \in shortPeeks)
=============================================================================
