-------------------------- MODULE RadarClient_proofs --------------------------
(***************************************************************************)
(* Theorems about RadarClient, for every application (what it asks for,    *)
(* from its own thread and from its configuration handler, and which       *)
(* handlers it sets), every depth of the queue, and any number of sessions *)
(* and connections.                                                        *)
(***************************************************************************)
EXTENDS RadarClient, TLAPS, SequenceTheorems

USE RadarClientAssumption
USE DEF Streams, Modes, AllHandlers

Message == [kind : {"none", "config", "fft", "other"}, link : Nat]
WorkPcs == {"idle", "restart", "resend", "store", "call", "remember", "rawTest", "rawCall"}

FlagType ==
    /\ running \in BOOLEAN /\ wanted \in BOOLEAN
    /\ overlapped \in BOOLEAN /\ configUnbound \in BOOLEAN

DataType ==
    /\ bound \subseteq AllHandlers
    /\ encoder \in Nat /\ link \in Nat /\ links \in Nat
    /\ mode \in Modes /\ queue \in Seq(Message) /\ msg \in Message
    /\ appPc \in {"idle", "stopQueue", "stopLink"} /\ workPc \in WorkPcs
    /\ appAsk \in Modes \cup {"none"} /\ workAsk \in Modes \cup {"none"}
    /\ known \in Nat /\ lost \subseteq Nat /\ lateCalls \in Nat /\ sessions \in Nat

TypeOK == FlagType /\ DataType

\* The worker handles messages inside a session only; what it does for a
\* configuration it does with one.
WorkInv ==
    /\ ~running => workPc = "idle"
    /\ appPc = "stopQueue" => running
    /\ workPc \in {"restart", "resend", "store", "remember"} => msg.kind = "config"
    /\ workPc = "remember" => workAsk \in Modes

\* Messages wait and are handled in the order of their connections, none is older
\* than the last configuration handled, and that one set the encoder size.
OrderInv ==
    /\ encoder = known /\ known <= links
    /\ link # 0 => link = links
    /\ \A i \in 1 .. Len(queue) :
           known <= queue[i].link /\ queue[i].link <= links /\ queue[i].link # 0
    /\ \A i, j \in 1 .. Len(queue) : i < j => queue[i].link <= queue[j].link
    /\ workPc # "idle" =>
           /\ known <= msg.link /\ msg.link <= links /\ msg.link # 0
           /\ \A i \in 1 .. Len(queue) : msg.link <= queue[i].link

\* Before the first session nothing was received.
FreshInv == sessions = 0 => ~running /\ queue = <<>> /\ links = 0

LostInv == lost \subseteq 1 .. links

\* A configuration is about to be handled: the worker has it, or it waits before
\* every other message of its connection.
Preparing == workPc \in {"restart", "resend", "store"}

Waiting(l, i) ==
    /\ queue[i].kind = "config" /\ queue[i].link = l
    /\ \A j \in 1 .. Len(queue) : queue[j].link = l => i <= j
    /\ workPc # "idle" => msg.link # l

Due(l) == (Preparing /\ msg.link = l) \/ \E i \in 1 .. Len(queue) : Waiting(l, i)

KeepsHandler == sessions = 1 /\ running /\ ~configUnbound /\ "config" \in bound

\* In the first session every configuration later than the last handled is due,
\* unless it was lost, and none that was lost is handled.
DueInv ==
    KeepsHandler =>
        /\ known \notin lost
        /\ \A l \in (1 .. links) \ lost : known < l => Due(l)
        /\ \A i \in 1 .. Len(queue) : queue[i].kind = "config" => queue[i].link \notin lost
        /\ Preparing => msg.link \notin lost

\* A handler called late was copied before it was unbound: it is the only one.
LateInv ==
    lateCalls = 0 \/ (lateCalls = 1 /\ "fft" \notin bound /\ ~HandlingFft)

\* What the client remembers, or is about to.
Remembers ==
    IF appAsk # "none" THEN appAsk \in Streams
    ELSE IF workPc = "remember" THEN workAsk \in Streams
    ELSE wanted

\* Requests that do not overlap: the radar streams only what is remembered, and
\* once a connection's configuration is dealt with it streams whatever is.
StreamInv ==
    ~overlapped =>
        /\ WorkerAsking => appAsk = "none"
        /\ workPc = "resend" => wanted
        /\ link # 0 =>
              /\ mode # "off" => Remembers
              /\ (link = known \/ (workPc = "store" /\ msg.link = link))
                     => (Remembers => mode # "off")

IInv ==
    /\ TypeOK /\ WorkInv /\ OrderInv /\ FreshInv /\ LostInv /\ DueInv /\ LateInv
    /\ StreamInv

----------------------------------------------------------------------------
(* The queue *)

\* What enqueue() leaves: the queue itself, or the same with one message behind.
LEMMA ReceivedFacts ==
    ASSUME queue \in Seq(Message), NEW m \in Message, Received(m)
    PROVE  /\ queue' \in Seq(Message) /\ Len(queue) \in Nat
           /\ \/ queue' = queue
              \/ /\ Len(queue') = Len(queue) + 1 /\ queue'[Len(queue) + 1] = m
                 /\ \A i \in 1 .. Len(queue) : queue'[i] = queue[i]
           /\ queue = <<>> => queue' # <<>> /\ queue'[1] = m
           /\ queue # <<>> => queue' # <<>> /\ queue'[1] = queue[1]
<1>1. /\ Append(queue, m) \in Seq(Message) /\ Len(Append(queue, m)) = Len(queue) + 1
      /\ Append(queue, m)[Len(queue) + 1] = m
      /\ \A i \in 1 .. Len(queue) : Append(queue, m)[i] = queue[i]
  BY AppendProperties
<1>2. Len(queue) \in Nat /\ (queue = <<>> <=> Len(queue) = 0)
  BY EmptySeq
<1>3. queue = <<>> => queue' = Append(queue, m)
  BY <1>2 DEF Received
<1>4. queue # <<>> => 1 \in 1 .. Len(queue)
  BY <1>2
<1>5. Append(queue, m) # <<>>
  BY <1>1, <1>2, EmptySeq
<1> QED
  BY <1>1, <1>2, <1>3, <1>4, <1>5 DEF Received

\* What pop() leaves.
LEMMA TakenFacts ==
    ASSUME queue \in Seq(Message), queue # <<>>
    PROVE  /\ Tail(queue) \in Seq(Message) /\ Head(queue) = queue[1]
           /\ Head(queue) \in Message
           /\ Len(queue) \in Nat /\ Len(queue) >= 1 /\ Len(Tail(queue)) = Len(queue) - 1
           /\ \A i \in 1 .. Len(Tail(queue)) : Tail(queue)[i] = queue[i + 1]
<1>1. Len(queue) \in Nat /\ Len(queue) # 0
  BY EmptySeq
<1> QED
  BY <1>1, HeadTailProperties

\* What stop() leaves: nothing, or one message, the last one received or one of
\* the present connection.
LEMMA StoppedFacts ==
    ASSUME TypeOK, StopQueue
    PROVE  /\ queue' \in Seq(Message)
           /\ \/ queue' = <<>> /\ Len(queue') = 0
              \/ link # 0 /\ Len(queue') = 1 /\ queue'[1].link = link
              \/ /\ Len(queue) \in 1 .. Len(queue) /\ Len(queue') = 1
                 /\ queue'[1] = queue[Len(queue)]
<1>1. Fft \in Message /\ Other \in Message /\ Fft.link = link /\ Other.link = link
  BY DEF TypeOK, DataType, Message, Fft, Other
<1>2. \/ queue' = <<>>
      \/ link # 0 /\ (queue' = <<Other>> \/ queue' = <<Fft>>)
      \/ queue # <<>> /\ queue' = <<queue[Len(queue)]>>
  BY Zenon DEF StopQueue
<1>3. CASE queue' = <<>> BY <1>3, EmptySeq
<1>4. CASE link # 0 /\ queue' = <<Other>> BY <1>1, <1>4
<1>5. CASE link # 0 /\ queue' = <<Fft>> BY <1>1, <1>5
<1>6. CASE queue # <<>> /\ queue' = <<queue[Len(queue)]>>
  <2>1. Len(queue) \in 1 .. Len(queue) BY <1>6, EmptySeq DEF TypeOK, DataType
  <2>2. queue[Len(queue)] \in Message BY <2>1, ElementOfSeq DEF TypeOK, DataType
  <2> QED BY <1>6, <2>1, <2>2
<1> QED BY <1>2, <1>3, <1>4, <1>5, <1>6

LEMMA MessageTypes ==
    ASSUME TypeOK
    PROVE  /\ \A l \in Nat : Config(l) \in Message /\ Config(l).link = l
                             /\ Config(l).kind = "config"
           /\ Fft \in Message /\ Fft.link = link /\ Other \in Message /\ Other.link = link
           /\ NoMessage \in Message
BY DEF TypeOK, DataType, Message, Config, Fft, Other, NoMessage

----------------------------------------------------------------------------
(* Types *)

LEMMA TypeInit == Init => TypeOK
<1> SUFFICES ASSUME Init PROVE TypeOK
  OBVIOUS
<1>1. NoMessage \in Message BY DEF NoMessage, Message
<1>2. FlagType BY Zenon DEF Init, FlagType
<1>3. DataType BY <1>1, EmptySeq DEF Init, DataType, WorkPcs
<1> QED BY <1>2, <1>3 DEF TypeOK

LEMMA FlagStep == ASSUME TypeOK, Next PROVE FlagType'
<1> USE DEF TypeOK, FlagType, history, workVars, linkVars, appVars
<1>1. CASE Start BY <1>1, Zenon DEF Start
<1>2. CASE StopQueue BY <1>2, Zenon DEF StopQueue
<1>3. CASE AskSend
  <2>1. overlapped' \in BOOLEAN BY <1>3 DEF AskSend, WorkerAsking
  <2> QED BY <1>3, <2>1, Zenon DEF AskSend
<1>4. CASE AskRemember
  <2>1. wanted' \in BOOLEAN BY <1>4 DEF AskRemember, Remembered
  <2> QED BY <1>4, <2>1, Zenon DEF AskRemember
<1>5. CASE Unbind
  <2>1. configUnbound' \in BOOLEAN BY <1>5, Zenon DEF Unbind
  <2> QED BY <1>5, <2>1, Zenon DEF Unbind
<1>6. CASE Take
  <2>1. overlapped' \in BOOLEAN BY <1>6, Zenon DEF Take
  <2> QED BY <1>6, <2>1, Zenon DEF Take
<1>7. CASE Call
  <2>1. overlapped' \in BOOLEAN BY <1>7, Zenon DEF Call
  <2> QED BY <1>7, <2>1, Zenon DEF Call
<1>8. CASE HandlerRemember
  <2>1. wanted' \in BOOLEAN BY <1>8 DEF HandlerRemember, Remembered
  <2> QED BY <1>8, <2>1, Zenon DEF HandlerRemember
<1>9. CASE Stop \/ StopLink \/ Bind \/ Environment
  BY <1>9 DEF Stop, StopLink, Bind, Environment, LinkUp, LinkDown, RadarSends
<1>10. CASE RestartTest \/ Resend \/ Store
  BY <1>10, Zenon DEF RestartTest, Resend, Store
<1>11. CASE RawTest \/ RawCall
  BY <1>11, Zenon DEF RawTest, RawCall
<1> QED
  BY <1>1, <1>2, <1>3, <1>4, <1>5, <1>6, <1>7, <1>8, <1>9, <1>10, <1>11
  DEF Next, App, Worker

LEMMA DataStep == ASSUME TypeOK, Next PROVE DataType'
<1> USE DEF DataType, WorkPcs, history, workVars, linkVars, appVars
<1>t. DataType BY DEF TypeOK
<1>1. CASE StopQueue BY <1>1, <1>t, StoppedFacts DEF StopQueue
<1>2. CASE AskSend BY <1>2, <1>t DEF AskSend, Send
<1>3. CASE Bind BY <1>3, <1>t DEF Bind
<1>4. CASE Unbind
  <2>1. bound' \subseteq AllHandlers BY <1>4, <1>t DEF Unbind
  <2> QED BY <1>4, <1>t, <2>1, ZenonT(90) DEF Unbind
<1>5. CASE Start
  <2>1. sessions' \in Nat BY <1>5, <1>t DEF Start
  <2> QED BY <1>5, <1>t, <2>1, ZenonT(90) DEF Start
<1>6. CASE LinkUp
  <2>1. link' \in Nat /\ (Received(Config(link')) \/ queue' = queue)
    BY <1>6, <1>t DEF LinkUp
  <2>2. queue' \in Seq(Message) BY <1>t, <2>1, MessageTypes, ReceivedFacts
  <2>3. lost' \subseteq Nat BY <1>6, <1>t, <2>1 DEF LinkUp
  <2> QED BY <1>6, <1>t, <2>2, <2>3 DEF LinkUp
<1>7. CASE LinkDown BY <1>7, <1>t DEF LinkDown
<1>8. CASE RadarSends
  <2>1. queue' \in Seq(Message)
    BY <1>8, <1>t, MessageTypes, ReceivedFacts DEF RadarSends
  <2> QED BY <1>8, <1>t, <2>1 DEF RadarSends
<1>9. CASE Take
  <2>1. queue' \in Seq(Message) /\ Head(queue) \in Message
    BY <1>9, <1>t, TakenFacts DEF Take
  <2>2. /\ msg' = Head(queue) \/ msg' = NoMessage
        /\ workPc' \in {"restart", "call", "rawTest", "idle"}
    BY <1>9 DEF Take, MoveOn, AfterHandler
  <2> QED BY <1>9, <1>t, <2>1, <2>2, MessageTypes DEF Take
<1>10. CASE RestartTest \/ Resend \/ Store
  BY ZenonT(90), <1>10, <1>t DEF RestartTest, Resend, Store, Stored, Send, Message
<1>11. CASE Call
  <2>1. msg' \in Message /\ workPc' \in WorkPcs
    BY <1>11, <1>t, MessageTypes DEF Call, MoveOn, AfterHandler
  <2>2. mode' \in Modes /\ workAsk' \in Modes \cup {"none"}
    BY <1>11, <1>t DEF Call, Send
  <2>3. lateCalls' \in Nat BY <1>11, <1>t DEF Call
  <2> QED BY <1>11, <1>t, <2>1, <2>2, <2>3 DEF Call
<1>12. CASE HandlerRemember BY <1>12, <1>t DEF HandlerRemember
<1>13. CASE RawTest \/ RawCall
  <2>1. msg' \in Message /\ workPc' \in WorkPcs
    BY <1>13, <1>t, MessageTypes DEF RawTest, RawCall, MoveOn
  <2> QED BY ZenonT(90), <1>13, <1>t, <2>1 DEF RawTest, RawCall
<1>14. CASE Stop BY <1>14, <1>t DEF Stop
<1>15. CASE StopLink BY <1>15, <1>t DEF StopLink
<1>16. CASE AskRemember BY <1>16, <1>t DEF AskRemember
<1> QED
  BY <1>1, <1>2, <1>3, <1>4, <1>5, <1>6, <1>7, <1>8, <1>9, <1>10, <1>11, <1>12, <1>13,
     <1>14, <1>15, <1>16
  DEF Next, App, Environment, Worker

LEMMA TypeStep == TypeOK /\ [Next]_vars => TypeOK'
<1> SUFFICES ASSUME TypeOK, [Next]_vars PROVE TypeOK'
  OBVIOUS
<1>1. CASE Next BY <1>1, FlagStep, DataStep DEF TypeOK
<1>2. CASE UNCHANGED vars
  BY <1>2 DEF vars, history, workVars, linkVars, appVars, TypeOK, FlagType, DataType
<1> QED BY <1>1, <1>2

\* Every reachable state is well typed.
THEOREM TypeCorrect == Spec => []TypeOK
BY TypeInit, TypeStep, PTL DEF Spec

----------------------------------------------------------------------------
(* The inductive invariant, one lemma for each of its parts *)

\* stop() joins the worker, which therefore works inside a session only.
LEMMA WorkStep == ASSUME TypeOK, WorkInv, Next PROVE WorkInv'
<1> USE DEF TypeOK, FlagType, DataType, WorkInv, WorkPcs, AppFree, linkVars, workVars, history, appVars
<1>1. CASE Start \/ Stop \/ StopQueue \/ StopLink
  BY <1>1, Zenon DEF Start, Stop, StopQueue, StopLink
<1>2. CASE AskSend \/ AskRemember \/ Bind \/ Unbind
  BY <1>2 DEF AskSend, AskRemember, Bind, Unbind
<1>3. CASE Environment
  BY <1>3 DEF Environment, LinkUp, LinkDown, RadarSends
<1>4. CASE Take
  <2>1. workPc' = "restart" => msg'.kind = "config"
    BY <1>4, TakenFacts DEF Take, MoveOn, AfterHandler, Message
  <2>2. running /\ running' /\ workPc' \in {"restart", "call", "rawTest", "idle"}
    BY <1>4 DEF Take, MoveOn, AfterHandler
  <2> QED BY <1>4, <2>1, <2>2 DEF Take
<1>5. CASE RestartTest \/ Resend \/ Store
  BY <1>5 DEF RestartTest, Resend, Store
<1>6. CASE Call
  BY <1>6 DEF Call, MoveOn, AfterHandler
<1>7. CASE HandlerRemember \/ RawTest \/ RawCall
  BY <1>7 DEF HandlerRemember, RawTest, RawCall, MoveOn
<1> QED BY <1>1, <1>2, <1>3, <1>4, <1>5, <1>6, <1>7 DEF Next, App, Worker

\* Messages are received and handled in the order of their connections.
LEMMA OrderStep == ASSUME TypeOK, WorkInv, OrderInv, Next PROVE OrderInv'
<1> USE DEF TypeOK, DataType, OrderInv, linkVars, workVars, history
<1>e. \A i \in 1 .. Len(queue) : queue[i].link \in Nat
  <2>1. \A i \in 1 .. Len(queue) : queue[i] \in Message BY ElementOfSeq
  <2> QED BY <2>1 DEF Message
<1>1. ASSUME NEW m \in Message, Received(m), link' # 0, m.link = links', links' >= links,
             links' \in Nat, link' = links',
             UNCHANGED <<encoder, known, workPc, msg>>
      PROVE  OrderInv'
  <2>1. \/ queue' = queue
        \/ /\ Len(queue') = Len(queue) + 1 /\ queue'[Len(queue) + 1] = m
           /\ \A i \in 1 .. Len(queue) : queue'[i] = queue[i]
    BY <1>1, ReceivedFacts
  <2>2. CASE queue' = queue BY SMTT(90), <1>1, <1>e, <2>2 DEF Message
  <2>3. CASE queue' # queue
    <3> DEFINE q == queue'
    <3>1. /\ Len(q) = Len(queue) + 1 /\ q[Len(queue) + 1] = m /\ Len(queue) \in Nat
          /\ \A i \in 1 .. Len(queue) : q[i] = queue[i]
      BY <2>1, <2>3
    <3>2. \A i \in 1 .. Len(q) : i \in 1 .. Len(queue) \/ i = Len(queue) + 1
      BY <3>1
    <3>3. \A i \in 1 .. Len(q) : known <= q[i].link /\ q[i].link <= links' /\ q[i].link # 0
      BY SMTT(90), <1>1, <1>e, <3>1, <3>2
    <3>4. \A i, j \in 1 .. Len(q) : i < j => q[i].link <= q[j].link
      BY SMTT(90), <1>1, <1>e, <3>1, <3>2
    <3>5. workPc # "idle" => \A i \in 1 .. Len(q) : msg.link <= q[i].link
      BY SMTT(90), <1>1, <1>e, <3>1, <3>2 DEF Message
    <3> QED BY <1>1, <3>3, <3>4, <3>5 DEF Message
  <2> QED BY <2>2, <2>3
<1>2. CASE LinkUp
  <2>1. /\ link' = links + 1 /\ links' = links + 1
        /\ Received(Config(link')) \/ queue' = queue
        /\ UNCHANGED <<encoder, known, workPc, msg>>
    BY <1>2 DEF LinkUp
  <2>2. link' \in Nat /\ Config(link') \in Message /\ Config(link').link = link'
    BY <2>1, MessageTypes
  <2>3. CASE Received(Config(link')) BY <1>1, <2>1, <2>2, <2>3
  <2>4. CASE queue' = queue
    <3>1. link' \in Nat /\ links' \in Nat /\ links' >= links /\ link' # 0 BY <2>1
    <3>2. \A i \in 1 .. Len(queue') : known' <= queue'[i].link /\ queue'[i].link <= links'
                                     /\ queue'[i].link # 0
      BY <1>e, <2>1, <2>4, <3>1
    <3>3. \A i, j \in 1 .. Len(queue') : i < j => queue'[i].link <= queue'[j].link
      BY <2>4
    <3>4. workPc' # "idle" => \A i \in 1 .. Len(queue') : msg'.link <= queue'[i].link
      BY <2>1, <2>4
    <3> QED BY <2>1, <3>1, <3>2, <3>3, <3>4 DEF Message
  <2> QED BY <2>1, <2>3, <2>4
<1>3. CASE RadarSends
  <2>1. /\ link # 0 /\ (Received(Fft) \/ Received(Other))
        /\ UNCHANGED <<encoder, known, workPc, msg, link, links>>
    BY <1>3 DEF RadarSends
  <2> QED BY <1>1, <2>1, MessageTypes
<1>4. CASE StopQueue
  <2>1. /\ UNCHANGED <<encoder, known, link, links, workPc>> /\ workPc = "idle"
    BY <1>4 DEF StopQueue
  <2>2. \/ queue' = <<>> /\ Len(queue') = 0
        \/ link # 0 /\ Len(queue') = 1 /\ queue'[1].link = link
        \/ /\ Len(queue) \in 1 .. Len(queue) /\ Len(queue') = 1
           /\ queue'[1] = queue[Len(queue)]
    BY <1>4, StoppedFacts
  <2> QED BY <1>e, <2>1, <2>2
<1>5. CASE Take
  <2> DEFINE q == queue'
  <2>1. /\ workPc = "idle" /\ queue # <<>> /\ q = Tail(queue)
        /\ workPc' # "idle" => msg' = Head(queue)
        /\ UNCHANGED <<encoder, known, link, links>>
    BY <1>5 DEF Take, MoveOn
  <2>2. /\ Head(queue) = queue[1] /\ Len(queue) \in Nat /\ Len(queue) >= 1
        /\ Len(q) = Len(queue) - 1
        /\ \A i \in 1 .. Len(q) : q[i] = queue[i + 1]
    BY <2>1, TakenFacts
  <2>3. \A i \in 1 .. Len(q) : i + 1 \in 1 .. Len(queue) /\ 1 \in 1 .. Len(queue) /\ 1 < i + 1
    BY <2>2
  <2>4. \A i \in 1 .. Len(q) : known <= q[i].link /\ q[i].link <= links /\ q[i].link # 0
    BY <2>2, <2>3
  <2>5. \A i, j \in 1 .. Len(q) : i < j => i + 1 < j + 1
    BY <2>2
  <2>6. \A i, j \in 1 .. Len(q) : i < j => q[i].link <= q[j].link
    BY <2>2, <2>3, <2>5
  <2>7. \A i \in 1 .. Len(q) : queue[1].link <= q[i].link
    BY <2>2, <2>3
  <2>8. 1 \in 1 .. Len(queue) BY <2>2
  <2> QED BY <2>1, <2>2, <2>4, <2>6, <2>7, <2>8
<1>6. CASE Store
  <2>1. /\ workPc = "store" /\ workPc' = "call"
        /\ encoder' = msg.link /\ known' = msg.link
        /\ UNCHANGED <<queue, msg, link, links>>
    BY <1>6, Zenon DEF Store, Stored, linkVars
  <2>2. /\ msg.link <= links /\ msg.link # 0
        /\ \A i \in 1 .. Len(queue) : msg.link <= queue[i].link
    BY <2>1
  <2>3. /\ encoder' = known' /\ known' <= links'
        /\ link' # 0 => link' = links'
    BY <2>1, <2>2
  <2>4. \A i \in 1 .. Len(queue') :
            known' <= queue'[i].link /\ queue'[i].link <= links' /\ queue'[i].link # 0
    BY <2>1, <2>2
  <2>5. \A i, j \in 1 .. Len(queue') : i < j => queue'[i].link <= queue'[j].link
    BY <2>1
  <2>6. msg.link <= msg.link BY <1>e, <2>1 DEF Message
  <2>7. /\ known' <= msg'.link /\ msg'.link <= links' /\ msg'.link # 0
        /\ \A i \in 1 .. Len(queue') : msg'.link <= queue'[i].link
    BY <2>1, <2>2, <2>6
  <2> QED BY <2>3, <2>4, <2>5, <2>7
<1>7. CASE Start \/ Stop \/ StopLink \/ AskSend \/ AskRemember \/ Bind \/ Unbind
           \/ LinkDown
  BY ZenonT(90), <1>7 DEF Start, Stop, StopLink, AskSend, AskRemember, Bind, Unbind, LinkDown,
     appVars
<1>8. CASE RestartTest \/ Resend \/ HandlerRemember
  BY <1>8 DEF RestartTest, Resend, HandlerRemember
<1>9. CASE Call \/ RawTest \/ RawCall
  <2>1. /\ workPc # "idle" /\ (workPc' # "idle" => msg' = msg)
        /\ UNCHANGED <<encoder, known, link, links, queue>>
    BY <1>9 DEF Call, RawTest, RawCall, MoveOn, AfterHandler
  <2> QED BY <2>1
<1> QED
  BY <1>2, <1>3, <1>4, <1>5, <1>6, <1>7, <1>8, <1>9 DEF Next, App, Environment, Worker

\* Nothing is received outside a session.
LEMMA FreshStep == ASSUME TypeOK, WorkInv, FreshInv, Next PROVE FreshInv'
<1> USE DEF TypeOK, FlagType, DataType, WorkInv, FreshInv, linkVars, workVars, history
<1>1. CASE Start BY <1>1 DEF Start
<1>2. CASE App /\ ~Start
  BY <1>2 DEF App, Stop, StopQueue, StopLink, AskSend, AskRemember, Bind, Unbind
<1>3. CASE Environment
  BY <1>3 DEF Environment, LinkUp, LinkDown, RadarSends
<1>4. CASE Worker
  BY <1>4 DEF Worker, Take, RestartTest, Resend, Store, Call, HandlerRemember, RawTest,
     RawCall
<1> QED BY <1>1, <1>2, <1>3, <1>4 DEF Next

\* Only the configuration of a connection that comes can be lost.
LEMMA LostStep == ASSUME TypeOK, LostInv, Next PROVE LostInv'
<1> USE DEF LostInv, linkVars, workVars, history
<1>1. CASE LinkUp
  <2>1. links \in Nat /\ link' = links + 1 /\ links' = links + 1
    BY <1>1 DEF LinkUp, TypeOK, DataType
  <2>2. lost' \subseteq lost \cup {links'} BY <1>1, <2>1 DEF LinkUp
  <2> QED BY <2>1, <2>2
<1>2. CASE ~LinkUp
  <2>1. UNCHANGED <<lost, links>>
    <3>1. CASE App
      BY <3>1 DEF App, Start, Stop, StopQueue, StopLink, AskSend, AskRemember, Bind, Unbind
    <3>2. CASE Environment BY <1>2, <3>2 DEF Environment, LinkDown, RadarSends
    <3>3. CASE Worker
      BY <3>3 DEF Worker, Take, RestartTest, Resend, Store, Call, HandlerRemember, RawTest,
         RawCall
    <3> QED BY <3>1, <3>2, <3>3 DEF Next
  <2> QED BY <2>1
<1> QED BY <1>1, <1>2

\* What does not touch the session, the handlers, the worker's message and the
\* configurations waiting leaves them due.
LEMMA DueKept ==
    ASSUME DueInv, KeepsHandler' => KeepsHandler,
           queue' = queue, msg' = msg, known' = known, links' = links, lost' = lost,
           \/ workPc' = workPc
           \/ Preparing /\ Preparing'
           \/ ~Preparing /\ ~Preparing' /\ workPc # "idle"
    PROVE  DueInv'
<1> SUFFICES ASSUME KeepsHandler' PROVE DueInv'
  BY DEF DueInv
<1>1. KeepsHandler OBVIOUS
<1>2. Preparing' <=> Preparing
  BY DEF Preparing
<1>3. workPc' # "idle" => workPc # "idle"
  BY DEF Preparing
<1>4. \A l \in Nat : Due(l) => Due(l)'
  <2> SUFFICES ASSUME NEW l \in Nat, Due(l) PROVE Due(l)'
    OBVIOUS
  <2>1. CASE Preparing /\ msg.link = l BY <1>2, <2>1 DEF Due
  <2>2. CASE \E i \in 1 .. Len(queue) : Waiting(l, i)
    BY <1>3, <2>2 DEF Due, Waiting
  <2> QED BY <2>1, <2>2 DEF Due
<1> QED BY <1>1, <1>2, <1>4 DEF DueInv

\* A configuration goes into the queue before the messages of its connection and
\* is handled before them, unless it is lost.
LEMMA DueStep ==
    ASSUME TypeOK, WorkInv, OrderInv, FreshInv, LostInv, DueInv, Next
    PROVE  DueInv'
<1> USE DEF TypeOK, FlagType, DataType, linkVars, workVars, history, appVars
<1>1. CASE Start
  <2>1. KeepsHandler' => sessions = 0 BY <1>1 DEF Start, KeepsHandler
  <2>2. KeepsHandler' => links' = 0 /\ known' = 0 /\ lost' = {} /\ Len(queue') = 0 /\ ~Preparing'
    BY <1>1, <2>1, EmptySeq DEF Start, FreshInv, LostInv, OrderInv, WorkInv, Preparing
  <2> QED BY <2>2 DEF DueInv
<1>2. CASE StopQueue
  BY <1>2 DEF StopQueue, DueInv, KeepsHandler
<1>3. CASE Bind
  BY <1>3 DEF Bind, DueInv, KeepsHandler
<1>4. CASE Unbind \/ Stop \/ StopLink \/ AskSend \/ AskRemember \/ LinkDown
  <2>1. /\ queue' = queue /\ msg' = msg /\ known' = known /\ links' = links /\ lost' = lost
        /\ workPc' = workPc /\ (KeepsHandler' => KeepsHandler)
    BY <1>4 DEF Unbind, Stop, StopLink, AskSend, AskRemember, LinkDown, KeepsHandler
  <2> QED BY <2>1, DueKept, Zenon
<1>5. CASE RestartTest \/ Resend \/ HandlerRemember
  <2>1. /\ queue' = queue /\ msg' = msg /\ known' = known /\ links' = links /\ lost' = lost
        /\ KeepsHandler' => KeepsHandler
        /\ \/ Preparing /\ Preparing'
           \/ ~Preparing /\ ~Preparing' /\ workPc # "idle"
    BY <1>5 DEF RestartTest, Resend, HandlerRemember, KeepsHandler, Preparing
  <2> QED BY <2>1, DueKept, Zenon
<1>6. ASSUME NEW m \in Message, queue' = Append(queue, m), links' \in Nat, links <= links',
             m.link = links', lost' = lost, m.kind = "config" => links < links',
             links' # links => m.kind = "config" /\ links' = links + 1,
             UNCHANGED <<running, sessions, configUnbound, bound, known, msg, workPc>>
      PROVE  DueInv'
  <2> SUFFICES ASSUME KeepsHandler' PROVE DueInv'
    BY DEF DueInv
  <2>k. KeepsHandler BY <1>6 DEF KeepsHandler
  <2> DEFINE q == queue'
             n == Len(queue)
  <2>1. /\ Len(q) = n + 1 /\ q[n + 1] = m /\ n \in Nat
        /\ \A i \in 1 .. n : q[i] = queue[i]
    BY <1>6, AppendProperties
  <2>2. \A i \in 1 .. Len(q) : i \in 1 .. n \/ i = n + 1
    BY <2>1
  <2>3. \A i \in 1 .. n : i \in 1 .. Len(q) /\ i <= n + 1
    BY <2>1
  <2>e. \A i \in 1 .. n : queue[i].link \in Nat /\ queue[i].link <= links
    <3>1. \A i \in 1 .. n : queue[i] \in Message BY ElementOfSeq
    <3> QED BY <3>1 DEF Message, OrderInv
  <2>4. Preparing' = Preparing BY <1>6 DEF Preparing
  <2>5. \A l \in Nat : Due(l) => Due(l)'
    <3> SUFFICES ASSUME NEW l \in Nat, Due(l) PROVE Due(l)'
      OBVIOUS
    <3>1. CASE Preparing /\ msg.link = l BY <1>6, <2>4, <3>1 DEF Due
    <3>2. CASE \E i \in 1 .. n : Waiting(l, i)
      <4>1. PICK i \in 1 .. n : Waiting(l, i) BY <3>2
      <4>2. i \in 1 .. Len(q) /\ q[i] = queue[i] BY <2>1, <2>3
      <4>3. \A j \in 1 .. Len(q) : q[j].link = l => i <= j
        BY <2>1, <2>2, <2>3, <4>1 DEF Waiting
      <4>4. Waiting(l, i)' BY <1>6, <4>1, <4>2, <4>3 DEF Waiting
      <4> QED BY <4>2, <4>4 DEF Due
    <3> QED BY <3>1, <3>2 DEF Due
  <2>6. ASSUME NEW l \in Nat, l = links', links' # links PROVE Due(l)'
    <3> PICK k \in Nat : k = n + 1 BY <2>1
    <3>1. k \in 1 .. Len(q) BY <2>1
    <3>2. \A j \in 1 .. Len(q) : q[j].link = l => k <= j
      BY <1>6, <2>1, <2>2, <2>6, <2>e
    <3>3. workPc # "idle" => msg.link <= links /\ msg.link \in Nat BY DEF OrderInv, Message
    <3>4. Waiting(l, k)' BY <1>6, <2>1, <2>6, <3>2, <3>3 DEF Waiting
    <3> QED BY <3>1, <3>4 DEF Due
  <2>7. \A l \in (1 .. links') \ lost' : known' < l => Due(l)'
    <3> SUFFICES ASSUME NEW l \in (1 .. links') \ lost', known' < l PROVE Due(l)'
      OBVIOUS
    <3>1. CASE l \in 1 .. links BY <1>6, <2>k, <2>5, <3>1 DEF DueInv
    <3>2. CASE l \notin 1 .. links
      <4>1. l = links' /\ links' # links BY <1>6, <3>2
      <4> QED BY <2>6, <4>1
    <3> QED BY <3>1, <3>2
  <2>8. \A i \in 1 .. Len(q) : q[i].kind = "config" => q[i].link \notin lost'
    <3>1. m.kind = "config" => m.link \notin lost BY <1>6 DEF LostInv
    <3> QED BY <1>6, <2>k, <2>1, <2>2, <3>1 DEF DueInv
  <2> QED BY <1>6, <2>k, <2>4, <2>7, <2>8 DEF DueInv
<1>7. CASE LinkUp /\ queue' # queue
  <2>1. /\ queue' = Append(queue, Config(links + 1)) /\ links' = links + 1 /\ lost' = lost
        /\ UNCHANGED <<running, sessions, configUnbound, bound, known, msg, workPc>>
    BY <1>7 DEF LinkUp, Received
  <2>2. Config(links + 1) \in Message /\ Config(links + 1).link = links + 1
        /\ Config(links + 1).kind = "config"
    BY MessageTypes
  <2> QED BY <1>6, <2>1, <2>2
<1>8. CASE LinkUp /\ queue' = queue
  <2>1. /\ links' = links + 1 /\ lost' = lost \cup {links + 1}
        /\ UNCHANGED <<running, sessions, configUnbound, bound, known, msg, workPc>>
    BY <1>8 DEF LinkUp
  <2>2. \A i \in 1 .. Len(queue) : queue[i].link <= links BY DEF OrderInv
  <2>3. workPc # "idle" => msg.link <= links BY DEF OrderInv
  <2>4. \A l \in Nat : Due(l) => Due(l)' BY <1>8, <2>1, Zenon DEF Due, Waiting, Preparing
  <2>5. KeepsHandler' = KeepsHandler /\ Preparing' = Preparing
    BY <2>1 DEF KeepsHandler, Preparing
  <2>6. Preparing => workPc # "idle" BY DEF Preparing
  <2>7. KeepsHandler => /\ known' \notin lost'
                        /\ \A l \in (1 .. links') \ lost' : known' < l => Due(l)'
    BY <2>1, <2>4 DEF DueInv, OrderInv
  <2>8. KeepsHandler => \A i \in 1 .. Len(queue') :
                            queue'[i].kind = "config" => queue'[i].link \notin lost'
    BY <1>8, <2>1, <2>2 DEF DueInv
  <2>9. KeepsHandler => (Preparing' => msg'.link \notin lost')
    BY <2>1, <2>3, <2>5, <2>6 DEF DueInv
  <2> QED BY <2>5, <2>7, <2>8, <2>9 DEF DueInv
<1>9. CASE RadarSends
  <2>1. PICK m \in {Fft, Other} : queue' = Append(queue, m)
    BY <1>9 DEF RadarSends, Received
  <2>2. m \in Message /\ m.link = links /\ m.kind # "config"
    BY <1>9, <2>1, MessageTypes DEF RadarSends, OrderInv, Fft, Other
  <2>3. UNCHANGED <<running, sessions, configUnbound, bound, known, msg, workPc, links, lost>>
    BY <1>9 DEF RadarSends
  <2> QED BY <1>6, <2>1, <2>2, <2>3
<1>10. CASE Take
  <2> SUFFICES ASSUME KeepsHandler' PROVE DueInv'
    BY DEF DueInv
  <2> DEFINE q == queue'
             h == Head(queue)
  <2>1. /\ workPc = "idle" /\ queue # <<>> /\ q = Tail(queue)
        /\ MoveOn(h, IF ~CopiedHandler(h.kind) THEN AfterHandler(h.kind)
                      ELSE IF h.kind = "config" THEN "restart" ELSE "call")
        /\ UNCHANGED <<known, links, lost, running, sessions, configUnbound, bound>>
    BY <1>10 DEF Take
  <2>k. KeepsHandler BY <2>1 DEF KeepsHandler
  <2>2. /\ h = queue[1] /\ Len(queue) \in Nat /\ Len(queue) >= 1
        /\ Len(q) = Len(queue) - 1
        /\ \A i \in 1 .. Len(q) : q[i] = queue[i + 1]
    BY <2>1, TakenFacts
  <2>3. \A i \in 1 .. Len(q) : i + 1 \in 1 .. Len(queue)
    BY <2>2
  <2>4. \A i \in 1 .. Len(queue) : i # 1 => i - 1 \in 1 .. Len(q) /\ q[i - 1] = queue[i]
    BY <2>2
  <2>5. 1 \in 1 .. Len(queue) BY <2>2
  <2>6. /\ h.kind = "config" => Preparing' /\ msg' = h
        /\ Preparing' => h.kind = "config" /\ msg' = h
        /\ workPc' # "idle" => msg' = h
    BY <2>1, <2>k DEF MoveOn, CopiedHandler, AfterHandler, KeepsHandler, Preparing
  <2>7. ~Preparing BY <2>1 DEF Preparing
  <2>8. \A l \in Nat : Due(l) => Due(l)'
    <3> SUFFICES ASSUME NEW l \in Nat, Due(l) PROVE Due(l)'
      OBVIOUS
    <3>1. PICK i \in 1 .. Len(queue) : Waiting(l, i) BY <2>7 DEF Due
    <3>2. CASE i = 1 BY <2>2, <2>6, <3>1, <3>2 DEF Due, Waiting
    <3>3. CASE i # 1
      <4>1. i - 1 \in 1 .. Len(q) /\ q[i - 1] = queue[i] BY <2>4, <3>3
      <4>2. h.link # l BY <2>2, <2>5, <3>1, <3>3 DEF Waiting
      <4>3. \A j \in 1 .. Len(q) : q[j].link = l => i - 1 <= j
        <5> SUFFICES ASSUME NEW j \in 1 .. Len(q), q[j].link = l PROVE i - 1 <= j
          OBVIOUS
        <5>1. j + 1 \in 1 .. Len(queue) /\ queue[j + 1].link = l BY <2>2, <2>3
        <5>2. i <= j + 1 BY <3>1, <5>1 DEF Waiting
        <5> QED BY <2>2, <5>2
      <4>4. Waiting(l, i - 1)' BY <2>6, <3>1, <4>1, <4>2, <4>3 DEF Waiting
      <4> QED BY <4>1, <4>4 DEF Due
    <3> QED BY <3>2, <3>3
  <2>9. \A i \in 1 .. Len(q) : q[i].kind = "config" => q[i].link \notin lost'
    BY <2>1, <2>2, <2>3, <2>k DEF DueInv
  <2>10. Preparing' => msg'.link \notin lost'
    BY <2>1, <2>2, <2>5, <2>6, <2>k DEF DueInv
  <2>11. \A l \in (1 .. links') \ lost' : known' < l => Due(l)'
    BY <2>1, <2>8, <2>k DEF DueInv
  <2> QED BY <2>1, <2>9, <2>10, <2>11, <2>k DEF DueInv
<1>11. CASE Store
  <2> SUFFICES ASSUME KeepsHandler' PROVE DueInv'
    BY DEF DueInv
  <2>1. /\ workPc = "store" /\ known' = msg.link /\ workPc' = "call"
        /\ UNCHANGED <<links, lost, msg, queue, running, sessions, configUnbound, bound>>
    BY <1>11 DEF Store
  <2>k. KeepsHandler /\ Preparing BY <2>1 DEF KeepsHandler, Preparing
  <2>2. msg.link \in Nat /\ known <= msg.link BY <2>1 DEF OrderInv, Message
  <2>3. ~Preparing' BY <2>1 DEF Preparing
  <2>4. \A l \in (1 .. links') \ lost' : known' < l => Due(l)'
    <3> SUFFICES ASSUME NEW l \in (1 .. links) \ lost, msg.link < l PROVE Due(l)'
      BY <2>1
    <3>1. Due(l) BY <2>2, <2>k DEF DueInv
    <3>2. PICK i \in 1 .. Len(queue) : Waiting(l, i) BY <2>2, <3>1 DEF Due
    <3>3. Waiting(l, i)' BY <2>1, <2>2, <3>2 DEF Waiting
    <3> QED BY <2>1, <3>2, <3>3 DEF Due
  <2> QED BY <2>1, <2>3, <2>4, <2>k DEF DueInv
<1>12. CASE Call \/ RawTest \/ RawCall
  <2>1. /\ UNCHANGED <<queue, known, links, lost, running, sessions, configUnbound, bound>>
        /\ workPc # "idle" /\ ~Preparing /\ ~Preparing' /\ (workPc' # "idle" => msg' = msg)
    BY <1>12 DEF Call, RawTest, RawCall, MoveOn, AfterHandler, Preparing
  <2>2. KeepsHandler' = KeepsHandler BY <2>1 DEF KeepsHandler
  <2>3. \A l \in Nat : Due(l) => Due(l)'
    <3> SUFFICES ASSUME NEW l \in Nat, Due(l) PROVE Due(l)'
      OBVIOUS
    <3>1. PICK i \in 1 .. Len(queue) : Waiting(l, i) BY <2>1 DEF Due
    <3>2. Waiting(l, i)' BY <2>1, <3>1 DEF Waiting
    <3> QED BY <2>1, <3>1, <3>2 DEF Due
  <2>4. KeepsHandler => \A l \in (1 .. links') \ lost' : known' < l => Due(l)'
    BY <2>1, <2>3 DEF DueInv
  <2> QED BY <2>1, <2>2, <2>4 DEF DueInv
<1> QED
  BY <1>1, <1>2, <1>3, <1>4, <1>5, <1>7, <1>8, <1>9, <1>10, <1>11, <1>12
  DEF Next, App, Environment, Worker

\* The handler was copied while it was bound, and is called once.
LEMMA LateStep == ASSUME TypeOK, WorkInv, LateInv, Next PROVE LateInv'
<1> USE DEF TypeOK, DataType, WorkInv, LateInv, HandlingFft, linkVars, workVars,
    history, appVars
<1>1. CASE Bind BY <1>1 DEF Bind
<1>2. CASE Unbind BY <1>2 DEF Unbind
<1>3. CASE App /\ ~Bind /\ ~Unbind
  BY <1>3 DEF App, Start, Stop, StopQueue, StopLink, AskSend, AskRemember
<1>4. CASE Environment
  BY <1>4 DEF Environment, LinkUp, LinkDown, RadarSends
<1>5. CASE Take
  <2>1. workPc' = "call" /\ msg'.kind = "fft" => "fft" \in bound
    BY <1>5 DEF Take, MoveOn, AfterHandler, CopiedHandler
  <2> QED BY <1>5, <2>1 DEF Take
<1>6. CASE RestartTest \/ Resend \/ Store
  BY <1>6 DEF RestartTest, Resend, Store
<1>7. CASE Call
  <2>1. workPc' # "call" BY <1>7 DEF Call, MoveOn, AfterHandler
  <2> QED BY <1>7, <2>1 DEF Call
<1>8. CASE HandlerRemember BY <1>8 DEF HandlerRemember
<1>9. CASE RawTest \/ RawCall BY <1>9 DEF RawTest, RawCall, MoveOn
<1> QED
  BY <1>1, <1>2, <1>3, <1>4, <1>5, <1>6, <1>7, <1>8, <1>9 DEF Next, Worker

\* A request is sent first and remembered second: unless one of the other thread
\* comes between the two, the radar and the client agree again after both.
LEMMA StreamStep ==
    ASSUME TypeOK, WorkInv, OrderInv, StreamInv, Next
    PROVE  StreamInv'
<1> USE DEF TypeOK, FlagType, DataType, WorkInv, StreamInv, Remembers, WorkerAsking, Send,
    Remembered, AppFree, linkVars, workVars, history, appVars
<1>1. CASE Start \/ Stop \/ StopQueue \/ Bind \/ Unbind
  BY <1>1 DEF Start, Stop, StopQueue, Bind, Unbind
<1>2. CASE StopLink BY <1>2 DEF StopLink
<1>3. CASE AskSend BY <1>3 DEF AskSend
<1>4. CASE AskRemember BY <1>4 DEF AskRemember
<1>5. CASE LinkUp BY <1>5 DEF LinkUp, OrderInv
<1>6. CASE LinkDown BY <1>6 DEF LinkDown
<1>7. CASE RadarSends BY <1>7 DEF RadarSends
<1>8. CASE Take BY <1>8 DEF Take, MoveOn, AfterHandler
<1>9. CASE RestartTest BY <1>9 DEF RestartTest, Renews
<1>10. CASE Resend BY <1>10 DEF Resend
<1>11. CASE Store BY <1>11 DEF Store
<1>12. CASE Call BY <1>12 DEF Call, MoveOn, AfterHandler
<1>13. CASE HandlerRemember BY <1>13 DEF HandlerRemember
<1>14. CASE RawTest \/ RawCall BY <1>14 DEF RawTest, RawCall, MoveOn
<1> QED
  BY <1>1, <1>2, <1>3, <1>4, <1>5, <1>6, <1>7, <1>8, <1>9, <1>10, <1>11, <1>12, <1>13,
     <1>14 DEF Next, App, Environment, Worker

----------------------------------------------------------------------------
(* The safety invariants *)

LEMMA InvInit == Init => IInv
<1> SUFFICES ASSUME Init PROVE IInv
  OBVIOUS
<1>1. TypeOK BY TypeInit
<1>2. queue = <<>> /\ Len(queue) = 0 BY EmptySeq DEF Init
<1> QED
  BY <1>1, <1>2 DEF Init, IInv, WorkInv, OrderInv, FreshInv, LostInv, DueInv, KeepsHandler, LateInv,
     StreamInv, WorkerAsking

LEMMA InvStep == IInv /\ [Next]_vars => IInv'
<1> SUFFICES ASSUME IInv, [Next]_vars PROVE IInv'
  OBVIOUS
<1>1. CASE Next
  BY <1>1, TypeStep, WorkStep, OrderStep, FreshStep, LostStep, DueStep, LateStep,
     StreamStep DEF IInv
<1>2. CASE UNCHANGED vars
  <2>1. DueInv' BY <1>2, DueKept DEF vars, linkVars, workVars, history, IInv, KeepsHandler
  <2> QED
    BY <1>2, <2>1 DEF vars, linkVars, appVars, workVars, history, IInv, TypeOK, FlagType,
       DataType, WorkInv, OrderInv, FreshInv, LostInv, LateInv, HandlingFft, StreamInv, Remembers,
       WorkerAsking
<1> QED BY <1>1, <1>2

LEMMA Invariance == Spec => []IInv
BY InvInit, InvStep, PTL DEF Spec

\* No azimuth is given an angle by the configuration of another connection once
\* its own was handled, nor, in the first session, by any but the last one that was
\* not lost: whatever the queue drops and however often the client reconnects.
THEOREM OwnEncoder == Spec => []AngleOfOwnEncoder
<1>1. IInv => AngleOfOwnEncoder
  <2> SUFFICES ASSUME IInv, HandlingFft PROVE AngleOfOwnEncoder
    BY DEF AngleOfOwnEncoder
  <2>1. /\ TypeOK /\ encoder = known /\ known <= msg.link /\ msg.link <= links
        /\ running /\ ~Preparing /\ workPc # "idle"
    BY DEF IInv, OrderInv, WorkInv, HandlingFft, Preparing
  <2>2. msg.link \in Nat /\ links \in Nat /\ known \in Nat BY <2>1 DEF TypeOK, DataType, Message
  <2>3. ASSUME sessions = 1, ~configUnbound, "config" \in bound
        PROVE  known \notin lost /\ \A l \in (1 .. msg.link) \ lost : l <= known
    <3>1. KeepsHandler BY <2>1, <2>3 DEF KeepsHandler
    <3> SUFFICES ASSUME NEW l \in (1 .. msg.link) \ lost, known < l PROVE FALSE
      BY <2>2, <3>1 DEF IInv, DueInv
    <3>2. Due(l) BY <2>1, <2>2, <3>1 DEF IInv, DueInv
    <3>3. PICK i \in 1 .. Len(queue) : Waiting(l, i) BY <2>1, <3>2 DEF Due
    <3>4. msg.link <= l /\ msg.link # l
      BY <2>1, <3>3 DEF IInv, OrderInv, Waiting
    <3> QED BY <2>2, <3>4
  <2> QED BY <2>1, <2>2, <2>3 DEF AngleOfOwnEncoder
<1> QED BY <1>1, Invariance, PTL

\* An unbound handler is called at most once more.
THEOREM UnboundRests == Spec => []UnboundHandlerRests
<1>1. IInv => UnboundHandlerRests
  BY DEF IInv, LateInv, UnboundHandlerRests
<1> QED BY <1>1, Invariance, PTL

\* Requests that do not overlap leave the radar streaming exactly when the client
\* remembers it.
THEOREM RememberedStreams == Spec => []StreamsAsRemembered
<1>1. IInv => StreamsAsRemembered
  BY DEF IInv, StreamInv, Remembers, StreamsAsRemembered, Settled, AppFree
<1> QED BY <1>1, Invariance, PTL
=============================================================================
