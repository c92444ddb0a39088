------------------------ MODULE TcpRadarClient_proofs ------------------------
(***************************************************************************)
(* Theorems about TcpRadarClient, for every set of kernel sockets and any  *)
(* number of sessions.  Nothing is assumed of the radar, of the timer or   *)
(* of the threads that send.                                               *)
(***************************************************************************)
EXTENDS TcpRadarClient, TLAPS, SequenceTheorems, FiniteSetTheorems

USE ClientAssumption
USE DEF Messages, States, LinkStates

AppPcs == {"idle", "started", "enableTimer", "disableTimer", "stopRunning", "stopSocket",
           "shutSocket", "closeSocket", "forgetSocket", "stopNotify", "joinConnect",
           "joinRead"}
\* close() to the announcement of the connection, or of its failure
Dialling == {"close", "closeFd", "forget", "create", "dial", "failed", "joinRead", "up"}
ConnPcs == {"none", "top", "lock", "waiting", "woken", "begin", "spawn",
"done"} \cup Dialling
ReadPcs == {"none", "loop", "peek", "inPeek", "skip", "inSkip", "header", "inHeader",
"exit",
            "done"}

\* The types of the client's own state ...
ClientType ==
    /\ running \in BOOLEAN /\ reading \in BOOLEAN /\ queueOpen \in BOOLEAN
    /\ timerOn \in BOOLEAN /\ state \in States
    /\ appPc \in AppPcs /\ connPc \in ConnPcs /\ readPc \in ReadPcs
    /\ senderPc \in [Senders -> {"idle", "send"}]
    /\ readThread \in BOOLEAN /\ configMet \in BOOLEAN /\ missedNotify \in BOOLEAN
    /\ starts \in Nat

\* ... and of the network's.
NetType ==
    /\ sock \in Sockets \cup {NoSocket} /\ readFd \in Sockets \cup {NoSocket}
    /\ open \subseteq Sockets /\ IsFiniteSet(open)
    /\ link \in [Sockets -> LinkStates]
    /\ inbox \in [Sockets -> Seq(Messages)]

TypeOK == ClientType /\ NetType

\* `running` and the timer follow the owner through start() and stop().
AppInv ==
    /\ appPc \in {"started", "enableTimer", "disableTimer", "stopRunning"} => running
    /\ appPc \in {"stopSocket", "shutSocket", "closeSocket", "forgetSocket", "stopNotify",
                  "joinConnect", "joinRead"} => ~running
    /\ appPc \notin {"idle", "disableTimer"} => ~timerOn
    /\ appPc = "idle" /\ ~running => ~timerOn

\* The connect thread lives from start() to its join, and ends only when told to.
ConnInv ==
    /\ connPc = "none" <=> appPc = "joinRead" \/ (appPc = "idle" /\ ~running)
    /\ connPc = "done" => ~running

\* There is a read thread exactly while the pointer says so; it outlives neither
\* stop() nor the join that connect() does before it announces the connection.
ReadInv ==
    /\ readPc = "none" <=> ~readThread
    /\ appPc = "idle" /\ ~running => ~readThread
    /\ connPc \in {"up", "spawn"} => ~readThread

\* A connect thread asleep, or falling asleep, while stop() joins it was not notified.
NotifyInv == appPc = "joinConnect" /\ connPc \in {"lock", "waiting"} => missedNotify

\* Inside a session the reader is told to go on until it has left its loop.
ReadingInv == running /\ readPc \notin {"none", "exit", "done"} => reading

\* Before the first session nothing was ever reported ...
FreshInv == starts = 0 => appPc = "idle" /\ ~running /\ state = "disconnected"

\* ... and in it the state follows the two threads.
FirstSessionInv ==
    starts = 1 /\ running =>
        /\ state = "connected" => readPc \notin {"none", "exit", "done"} \/ connPc = "spawn"
        /\ state = "connecting" => connPc \in Dialling
        /\ connPc \in Dialling => state # "connected"

ControlInv ==
    /\ AppInv /\ ConnInv /\ ReadInv /\ NotifyInv
    /\ ReadingInv /\ FreshInv /\ FirstSessionInv

IInv == ClientType /\ ControlInv

\* The kernel's objects: connect() creates one only when the descriptor it has is
\* closed, and the read thread holds one only while it is inside recv().
KernelInv ==
    /\ NetType
    /\ \A s \in Sockets : link[s] # "free" <=> s \in open \/ s = readFd
    /\ connPc \in {"forget", "create"} => sock \notin open
    /\ readFd # NoSocket => readPc \in {"inPeek", "inSkip", "inHeader"}

\* A session may lose one descriptor, and only once its stop() has closed the socket.
MayStillLose ==
    running \/ appPc \in {"stopSocket", "shutSocket", "closeSocket", "forgetSocket"}

LossBound == Cardinality(LostDescriptors) <= IF MayStillLose THEN starts - 1 ELSE starts

SocketInv == KernelInv /\ LossBound

----------------------------------------------------------------------------
(* The initial states *)

LEMMA ClientTypeInit == Init => ClientType
<1>1. 0 \in Nat /\ "disconnected" \in States
  OBVIOUS
<1>2. Init => senderPc \in [Senders -> {"idle", "send"}]
  BY DEF Init
<1> QED
  BY <1>1, <1>2, Zenon DEF Init, ClientType, AppPcs, ConnPcs, ReadPcs, Dialling

LEMMA InvInit == Init => IInv
<1>1. Init => ControlInv
  BY DEF Init, ControlInv, AppInv, ConnInv, ReadInv, NotifyInv, ReadingInv, FreshInv,
     FirstSessionInv
<1> QED
  BY <1>1, ClientTypeInit DEF IInv

LEMMA SocketInit == Init => SocketInv
<1>1. Init => inbox \in [Sockets -> Seq(Messages)]
  BY EmptySeq DEF Init
<1>2. Init => LostDescriptors = {}
  BY DEF Init, LostDescriptors
<1>3. IsFiniteSet({}) /\ Cardinality({}) = 0
  BY FS_EmptySet
<1>4. Init => KernelInv
  BY <1>1, <1>3 DEF Init, KernelInv, NetType
<1>5. Init => LossBound
  <2> SUFFICES ASSUME Init PROVE LossBound
    OBVIOUS
  <2>1. ~MayStillLose /\ starts = 0 BY DEF Init, MayStillLose
  <2>2. Cardinality(LostDescriptors) = 0 BY <1>2, <1>3, Zenon
  <2> QED BY <2>1, <2>2 DEF LossBound
<1> QED
  BY <1>4, <1>5 DEF SocketInv

----------------------------------------------------------------------------
(* The threads and the connection state, one lemma for each actor *)

USE DEF SetConnectionState, LossReported, IsConnected, Notified, JoinReadThread,
    ReadingEnabled, MustRetry, ReadOn, ReadFails

\* Every step keeps the types of the client's state.
LEMMA ClientTypeStep == ASSUME ClientType, Next PROVE ClientType'
<1> USE DEF ClientType, flagVars, histVars
<1>1. CASE Start
  <2>1. /\ starts' \in Nat /\ appPc' \in AppPcs /\ connPc' \in ConnPcs
    BY <1>1 DEF Start, AppPcs, ConnPcs
  <2> QED BY <1>1, <2>1, Zenon DEF Start
<1>2. CASE StartNotify BY <1>2 DEF StartNotify, AppPcs, ConnPcs
<1>3. CASE StartTimer
  <2>1. appPc' \in AppPcs BY <1>3 DEF StartTimer, AppPcs
  <2> QED BY <1>3, <2>1, Zenon DEF StartTimer
<1>4. CASE Stop
  <2>1. appPc' \in AppPcs BY <1>4 DEF Stop, AppPcs
  <2> QED BY <1>4, <2>1, Zenon DEF Stop
<1>5. CASE StopTimer
  <2>1. appPc' \in AppPcs BY <1>5 DEF StopTimer, AppPcs
  <2> QED BY <1>5, <2>1, Zenon DEF StopTimer
<1>6. CASE StopRunning
  <2>1. appPc' \in AppPcs BY <1>6 DEF StopRunning, AppPcs
  <2> QED BY <1>6, <2>1, Zenon DEF StopRunning
<1>7. CASE StopSocket \/ StopShutdown \/ StopClose \/ StopForget
  BY <1>7 DEF StopSocket, StopShutdown, StopClose, StopForget, AppPcs
<1>8. CASE StopNotify
  <2>1. missedNotify' \in BOOLEAN BY <1>8, Zenon DEF StopNotify
  <2>2. connPc' \in ConnPcs /\ appPc' \in AppPcs BY <1>8 DEF StopNotify, AppPcs, ConnPcs
  <2> QED BY <1>8, <2>1, <2>2, Zenon DEF StopNotify
<1>9. CASE JoinConnect
  <2>1. appPc' \in AppPcs /\ connPc' \in ConnPcs BY <1>9 DEF JoinConnect, AppPcs, ConnPcs
  <2> QED BY <1>9, <2>1, Zenon DEF JoinConnect
<1>10. CASE JoinRead
  <2>1. appPc' \in AppPcs /\ readPc' \in ReadPcs BY <1>10 DEF JoinRead, AppPcs, ReadPcs
  <2> QED BY <1>10, <2>1, Zenon DEF JoinRead
<1>11. CASE TimerFires BY <1>11 DEF TimerFires, ConnPcs
<1>12. CASE ConnectThread \/ SpuriousWakeup
  <2>1. CASE ConnectJoinRead
    <3>1. connPc' \in ConnPcs /\ readPc' \in ReadPcs
      BY <2>1 DEF ConnectJoinRead, ConnPcs, ReadPcs, Dialling
    <3> QED BY <2>1, <3>1, Zenon DEF ConnectJoinRead
  <2>2. CASE ConnectSpawn
    <3>1. connPc' \in ConnPcs /\ readPc' \in ReadPcs
      BY <2>2 DEF ConnectSpawn, ConnPcs, ReadPcs
    <3> QED BY <2>2, <3>1, Zenon DEF ConnectSpawn
  <2>3. CASE SpuriousWakeup \/ (ConnectThread /\ ~ConnectJoinRead /\ ~ConnectSpawn)
    <3>1. connPc' \in ConnPcs
      BY <2>3 DEF ConnectThread, ConnectTop, ConnectWait, SpuriousWakeup, ConnectWoken,
         ConnectBegin, ConnectClose, ConnectCloseFd, ConnectForget, ConnectCreate,
         ConnectDial, ConnectFailed, ConnectUp, ConnPcs, Dialling
    <3>2. state' \in States
      BY <2>3 DEF ConnectThread, ConnectTop, ConnectWait, SpuriousWakeup, ConnectWoken,
         ConnectBegin, ConnectClose, ConnectCloseFd, ConnectForget, ConnectCreate,
         ConnectDial, ConnectFailed, ConnectUp
    <3>3. UNCHANGED <<flagVars, appPc, senderPc, readPc, readThread, histVars>>
      BY <2>3 DEF ConnectThread, ConnectTop, ConnectWait, SpuriousWakeup, ConnectWoken,
         ConnectBegin, ConnectClose, ConnectCloseFd, ConnectForget, ConnectCreate,
         ConnectDial, ConnectFailed, ConnectUp
    <3> QED BY <3>1, <3>2, <3>3, Zenon
  <2> QED BY <1>12, <2>1, <2>2, <2>3
<1>13. CASE ReadThread
  <2>1. CASE Handle \/ SkipByte
    <3>1. configMet' \in BOOLEAN BY <2>1, Zenon DEF Handle, SkipByte
    <3>2. state' \in States /\ readPc' \in ReadPcs BY <2>1 DEF Handle, SkipByte, ReadPcs
    <3> QED BY <2>1, <3>1, <3>2, Zenon DEF Handle, SkipByte
  <2>2. CASE ReadExit
    <3>1. readPc' \in ReadPcs BY <2>2 DEF ReadExit, ReadPcs
    <3> QED BY <2>2, <3>1, Zenon DEF ReadExit
  <2>3. CASE ReadThread /\ ~Handle /\ ~SkipByte /\ ~ReadExit
    BY <2>3 DEF ReadThread, ReadLoop, ReadCall, Receiving, PeekNothing, PeekSignature,
       PeekMismatch, ReceiveFails, ReadPcs
  <2> QED BY <1>13, <2>1, <2>2, <2>3
<1>14. CASE Sender BY <1>14 DEF Sender, Send, SendTest, SendSucceeds, SendFails
<1>15. CASE Radar BY <1>15 DEF Radar, RadarSends, RadarCloses
<1> QED
  BY <1>1, <1>2, <1>3, <1>4, <1>5, <1>6, <1>7, <1>8, <1>9, <1>10, <1>11, <1>12, <1>13,
     <1>14, <1>15 DEF Next, App, StopStep

\* start() and stop() keep the invariant.
LEMMA AppStep == ASSUME IInv, App PROVE ControlInv'
<1> USE DEF IInv, ControlInv, ClientType, AppPcs, ConnPcs, ReadPcs, Dialling, flagVars,
    histVars
<1>1. CASE Start
  BY <1>1 DEF Start, AppInv, ConnInv, ReadInv, NotifyInv, ReadingInv, FreshInv,
     FirstSessionInv
<1>2. CASE StartNotify
  BY <1>2 DEF StartNotify, AppInv, ConnInv, ReadInv, NotifyInv, ReadingInv, FreshInv,
     FirstSessionInv
<1>3. CASE StartTimer
  BY <1>3 DEF StartTimer, AppInv, ConnInv, ReadInv, NotifyInv, ReadingInv, FreshInv,
     FirstSessionInv
<1>4. CASE Stop
  BY <1>4 DEF Stop, AppInv, ConnInv, ReadInv, NotifyInv, ReadingInv, FreshInv,
     FirstSessionInv
<1>5. CASE StopTimer
  BY <1>5 DEF StopTimer, AppInv, ConnInv, ReadInv, NotifyInv, ReadingInv, FreshInv,
     FirstSessionInv
<1>6. CASE StopRunning
  BY <1>6 DEF StopRunning, AppInv, ConnInv, ReadInv, NotifyInv, ReadingInv, FreshInv,
     FirstSessionInv
<1>7. CASE StopSocket \/ StopShutdown \/ StopClose \/ StopForget
  BY <1>7 DEF StopSocket, StopShutdown, StopClose, StopForget, AppInv, ConnInv, ReadInv,
     NotifyInv, ReadingInv, FreshInv, FirstSessionInv
<1>8. CASE StopNotify
  BY <1>8 DEF StopNotify, AppInv, ConnInv, ReadInv, NotifyInv, ReadingInv, FreshInv,
     FirstSessionInv
<1>9. CASE JoinConnect
  BY <1>9 DEF JoinConnect, AppInv, ConnInv, ReadInv, NotifyInv, ReadingInv, FreshInv,
     FirstSessionInv
<1>10. CASE JoinRead
  BY <1>10 DEF JoinRead, AppInv, ConnInv, ReadInv, NotifyInv, ReadingInv, FreshInv,
     FirstSessionInv
<1> QED
  BY <1>1, <1>2, <1>3, <1>4, <1>5, <1>6, <1>7, <1>8, <1>9, <1>10 DEF App, StopStep

\* connect() announces a connection only with the last read thread joined.
LEMMA ConnectStep == ASSUME IInv, ConnectThread \/ SpuriousWakeup PROVE ControlInv'
<1> USE DEF IInv, ControlInv, ClientType, AppPcs, ConnPcs, ReadPcs, Dialling, flagVars,
    histVars
<1>1. CASE ConnectTop
  BY <1>1 DEF ConnectTop, AppInv, ConnInv, ReadInv, NotifyInv, ReadingInv, FreshInv,
     FirstSessionInv
<1>2. CASE ConnectWait \/ SpuriousWakeup
  BY <1>2 DEF ConnectWait, SpuriousWakeup, AppInv, ConnInv, ReadInv, NotifyInv,
     ReadingInv, FreshInv, FirstSessionInv
<1>3. CASE ConnectWoken \/ ConnectBegin
  BY <1>3 DEF ConnectWoken, ConnectBegin, AppInv, ConnInv, ReadInv, NotifyInv, ReadingInv,
     FreshInv, FirstSessionInv
<1>4. CASE ConnectClose \/ ConnectCloseFd \/ ConnectForget
  BY <1>4 DEF ConnectClose, ConnectCloseFd, ConnectForget, AppInv, ConnInv, ReadInv,
     NotifyInv, ReadingInv, FreshInv, FirstSessionInv
<1>5. CASE ConnectCreate
  BY <1>5 DEF ConnectCreate, AppInv, ConnInv, ReadInv, NotifyInv, ReadingInv, FreshInv,
     FirstSessionInv
<1>6. CASE ConnectDial
  BY <1>6 DEF ConnectDial, AppInv, ConnInv, ReadInv, NotifyInv, ReadingInv, FreshInv,
     FirstSessionInv
<1>7. CASE ConnectFailed
  BY <1>7 DEF ConnectFailed, AppInv, ConnInv, ReadInv, NotifyInv, ReadingInv, FreshInv,
     FirstSessionInv
<1>8. CASE ConnectJoinRead
  BY <1>8 DEF ConnectJoinRead, AppInv, ConnInv, ReadInv, NotifyInv, ReadingInv,
     FreshInv, FirstSessionInv
<1>9. CASE ConnectUp
  BY <1>9 DEF ConnectUp, AppInv, ConnInv, ReadInv, NotifyInv, ReadingInv, FreshInv,
     FirstSessionInv
<1>10. CASE ConnectSpawn
  BY <1>10 DEF ConnectSpawn, AppInv, ConnInv, ReadInv, NotifyInv, ReadingInv, FreshInv,
     FirstSessionInv
<1> QED
  BY <1>1, <1>2, <1>3, <1>4, <1>5, <1>6, <1>7, <1>8, <1>9, <1>10 DEF ConnectThread

\* The read thread reports the loss whenever it leaves a session that goes on.
LEMMA ReadStep == ASSUME IInv, ReadThread PROVE ControlInv'
<1> USE DEF IInv, ControlInv, ClientType, AppPcs, ConnPcs, ReadPcs, Dialling, flagVars,
    histVars
<1>1. CASE ReadLoop
  BY <1>1 DEF ReadLoop, AppInv, ConnInv, ReadInv, NotifyInv, ReadingInv, FreshInv,
     FirstSessionInv
<1>2. CASE ReadCall
  BY <1>2 DEF ReadCall, Receiving, AppInv, ConnInv, ReadInv, NotifyInv, ReadingInv,
     FreshInv, FirstSessionInv
<1>3. CASE PeekNothing
  BY <1>3 DEF PeekNothing, AppInv, ConnInv, ReadInv, NotifyInv, ReadingInv, FreshInv,
     FirstSessionInv
<1>4. CASE PeekSignature \/ PeekMismatch
  BY <1>4 DEF PeekSignature, PeekMismatch, AppInv, ConnInv, ReadInv, NotifyInv, ReadingInv,
     FreshInv, FirstSessionInv
<1>5. CASE SkipByte \/ Handle
  BY <1>5 DEF SkipByte, Handle, AppInv, ConnInv, ReadInv, NotifyInv, ReadingInv, FreshInv,
     FirstSessionInv
<1>6. CASE ReceiveFails
  BY <1>6 DEF ReceiveFails, AppInv, ConnInv, ReadInv, NotifyInv, ReadingInv, FreshInv,
     FirstSessionInv
<1>7. CASE ReadExit
  BY <1>7 DEF ReadExit, AppInv, ConnInv, ReadInv, NotifyInv, ReadingInv, FreshInv,
     FirstSessionInv
<1> QED
  BY <1>1, <1>2, <1>3, <1>4, <1>5, <1>6, <1>7 DEF ReadThread

\* A failed send reports the loss, and nobody else touches the two threads.
LEMMA OthersStep == ASSUME IInv, TimerFires \/ Sender \/ Radar PROVE ControlInv'
<1> USE DEF IInv, ControlInv, ClientType, AppPcs, ConnPcs, ReadPcs, Dialling, flagVars,
    histVars
<1>1. CASE TimerFires
  BY <1>1 DEF TimerFires, AppInv, ConnInv, ReadInv, NotifyInv, ReadingInv, FreshInv,
     FirstSessionInv
<1>2. CASE Sender
  BY <1>2 DEF Sender, Send, SendTest, SendSucceeds, SendFails, AppInv, ConnInv, ReadInv,
     NotifyInv, ReadingInv, FreshInv, FirstSessionInv
<1>3. CASE Radar
  BY <1>3 DEF Radar, RadarSends, RadarCloses, AppInv, ConnInv, ReadInv,
     NotifyInv, ReadingInv, FreshInv, FirstSessionInv
<1> QED BY <1>1, <1>2, <1>3

LEMMA InvStep == IInv /\ [Next]_vars => IInv'
<1> SUFFICES ASSUME IInv, [Next]_vars PROVE IInv'
  OBVIOUS
<1>1. CASE Next
  <2>1. ControlInv' BY <1>1, AppStep, ConnectStep, ReadStep, OthersStep DEF Next
  <2>2. ClientType' BY <1>1, ClientTypeStep DEF IInv
  <2> QED BY <2>1, <2>2 DEF IInv
<1>2. CASE UNCHANGED vars
  BY <1>2 DEF vars, flagVars, histVars, IInv, ControlInv, ClientType, AppInv, ConnInv,
     ReadInv,
     NotifyInv, ReadingInv, FreshInv, FirstSessionInv
<1> QED BY <1>1, <1>2

LEMMA Invariance == Spec => []IInv
BY InvInit, InvStep, PTL DEF Spec

\* After stop() no thread and no timer is left, no read thread is destroyed
\* while it runs, and only a missed notification makes stop() hang, in every
\* session and for every behaviour of the radar.
THEOREM StopEndsThreads == Spec => []StoppedIsQuiet
<1>1. IInv => StoppedIsQuiet
  BY DEF IInv, ControlInv, AppInv, ConnInv, ReadInv, NotifyInv, StoppedIsQuiet,
     OneReadThread,
     OnlyMissedNotifyHangs
<1> QED BY <1>1, Invariance, PTL

\* In its first session the client's connection state is true to its threads.
THEOREM FirstSessionHonest == Spec => []HonestState
<1>1. IInv => HonestState
  BY DEF IInv, ControlInv, FirstSessionInv, HonestState, ConnectedHasReader,
     ConnectingIsConnecting, Dialling
<1> QED BY <1>1, Invariance, PTL

----------------------------------------------------------------------------
(* The kernel's sockets *)

\* ::close() of an open descriptor closes that one only.
LEMMA CloseDescriptorType ==
    ASSUME NetType, sock \in open, CloseDescriptor
    PROVE  /\ link' \in [Sockets -> LinkStates] /\ inbox' \in [Sockets -> Seq(Messages)]
           /\ open' = open \ {sock}
           /\ \A s \in Sockets \ {sock} : link'[s] = link[s]
           /\ link'[sock] = IF sock = readFd THEN link[sock] ELSE "free"
<1>1. <<>> \in Seq(Messages) BY EmptySeq
<1>2. CASE sock = readFd BY <1>2 DEF NetType, CloseDescriptor
<1>3. CASE sock # readFd
  <2>1. /\ link' = [link EXCEPT ![sock] = "free"]
        /\ inbox' = [inbox EXCEPT ![sock] = <<>>]
    BY <1>3 DEF CloseDescriptor
  <2> QED BY <1>1, <1>3, <2>1 DEF NetType, CloseDescriptor
<1> QED BY <1>2, <1>3

\* What the end of a recv() leaves is well typed.
LEMMA ReleaseType ==
    ASSUME NetType, NEW in \in [Sockets -> Seq(Messages)], Release(readFd, in)
    PROVE  /\ link' \in [Sockets -> LinkStates] /\ inbox' \in [Sockets -> Seq(Messages)]
           /\ \A s \in Sockets \ {readFd} : link'[s] = link[s]
           /\ readFd # NoSocket =>
                  link'[readFd] = IF readFd \in open THEN link[readFd] ELSE "free"
<1>1. <<>> \in Seq(Messages) BY EmptySeq
<1>2. CASE readFd # NoSocket /\ readFd \notin open
  <2>1. /\ link' = [link EXCEPT ![readFd] = "free"]
        /\ inbox' = [inbox EXCEPT ![readFd] = <<>>]
    BY <1>2 DEF Release
  <2> QED BY <1>1, <1>2, <2>1 DEF NetType
<1>3. CASE ~(readFd # NoSocket /\ readFd \notin open) BY <1>3 DEF NetType, Release
<1> QED BY <1>2, <1>3

\* The descriptors that stay open do not become more, and finite sets stay so.
LEMMA FewerLost ==
    ASSUME NetType, NEW n \in Nat, Cardinality(LostDescriptors) <= n,
           open' \subseteq Sockets, LostDescriptors' \subseteq LostDescriptors
    PROVE  Cardinality(LostDescriptors') <= n
<1>1. IsFiniteSet(LostDescriptors)
  <2>1. LostDescriptors \subseteq open BY DEF LostDescriptors
  <2> QED BY <2>1, FS_Subset DEF NetType
<1>2. /\ Cardinality(LostDescriptors') <= Cardinality(LostDescriptors)
      /\ IsFiniteSet(LostDescriptors')
  BY <1>1, FS_Subset
<1>3. Cardinality(LostDescriptors) \in Nat /\ Cardinality(LostDescriptors') \in Nat
  BY <1>1, <1>2, FS_CardinalityType
<1> QED BY <1>2, <1>3

\* stop() loses at most the descriptor it takes back.
LEMMA OneMoreLost ==
    ASSUME NetType, NEW n \in Nat, Cardinality(LostDescriptors) <= n,
           open' = open
    PROVE  Cardinality(LostDescriptors') <= n + 1
<1>1. IsFiniteSet(open) /\ IsFiniteSet(LostDescriptors)
  <2>1. LostDescriptors \subseteq open BY DEF LostDescriptors
  <2> QED BY <2>1, FS_Subset DEF NetType
<1>2. Cardinality(LostDescriptors) \in Nat
  BY <1>1, FS_CardinalityType
<1>3. /\ IsFiniteSet(LostDescriptors \cup {sock})
      /\ Cardinality(LostDescriptors \cup {sock}) <= n + 1
  <2> DEFINE lost == LostDescriptors
  <2>1. IsFiniteSet(lost) /\ Cardinality(lost) \in Nat /\ Cardinality(lost) <= n
    BY <1>1, <1>2
  <2> HIDE DEF lost
  <2>2. /\ IsFiniteSet(lost \cup {sock})
        /\ Cardinality(lost \cup {sock}) = IF sock \in lost THEN Cardinality(lost)
                                                           ELSE Cardinality(lost) + 1
    BY <2>1, FS_AddElement, Zenon
  <2>3. IsFiniteSet(lost \cup {sock}) /\ Cardinality(lost \cup {sock}) <= n + 1
    BY <2>1, <2>2
  <2> QED BY <2>3 DEF lost
<1>4. LostDescriptors' \subseteq LostDescriptors \cup {sock}
  BY DEF LostDescriptors
<1>5. /\ Cardinality(LostDescriptors') <= Cardinality(LostDescriptors \cup {sock})
      /\ IsFiniteSet(LostDescriptors')
  BY <1>3, <1>4, FS_Subset
<1>6. Cardinality(LostDescriptors') \in Nat /\ Cardinality(LostDescriptors \cup {sock}) \in Nat
  BY <1>3, <1>5, FS_CardinalityType
<1> QED BY <1>3, <1>5, <1>6

\* connect() closes before it creates, and a closed socket lives on only while
\* the read thread is inside recv() on it.
LEMMA KernelStep == ASSUME IInv, KernelInv, Next PROVE KernelInv'
<1> USE DEF KernelInv
<1>q. \A s \in Sockets, m \in Messages : Append(inbox[s], m) \in Seq(Messages)
  BY AppendProperties DEF NetType
<1>1. CASE StopClose \/ ConnectCloseFd
  <2>1. CASE sock \in open
    <3>1. IsFiniteSet(open \ {sock}) BY FS_RemoveElement DEF NetType
    <3>2. CloseDescriptor /\ UNCHANGED <<sock, readFd, readPc>>
      BY <1>1, <2>1 DEF StopClose, ConnectCloseFd
    <3>3. open' = open \ {sock} BY <3>2 DEF CloseDescriptor
    <3> QED BY <2>1, <3>1, <3>2, <3>3, CloseDescriptorType DEF NetType
  <2>2. CASE sock \notin open
    BY <1>1, <2>2 DEF StopClose, ConnectCloseFd, NetType
  <2> QED BY <2>1, <2>2
<1>2. CASE StopForget \/ ConnectForget
  BY <1>2 DEF StopForget, ConnectForget, NetType
<1>3. CASE StopShutdown
  BY <1>3 DEF StopShutdown, NetType
<1>4. CASE ConnectCreate
  <2>1. PICK s \in FreeSockets : /\ sock' = s /\ open' = open \cup {s}
                                 /\ link' = [link EXCEPT ![s] = "new"]
    BY <1>4, Zenon DEF ConnectCreate
  <2>2. s \in Sockets /\ link[s] = "free" BY DEF FreeSockets
  <2>3. IsFiniteSet(open \cup {s}) BY FS_AddElement DEF NetType
  <2> QED BY <1>4, <2>1, <2>2, <2>3 DEF ConnectCreate, NetType
<1>5. CASE ConnectDial
  <2>1. <<"config">> \in Seq(Messages) OBVIOUS
  <2>2. link' \in [Sockets -> LinkStates] /\ inbox' \in [Sockets -> Seq(Messages)]
    <3>1. "up" \in LinkStates BY DEF LinkStates
    <3>2. CASE UNCHANGED <<link, inbox>> BY <3>2, Zenon DEF NetType
    <3>3. CASE /\ link' = [link EXCEPT ![sock] = "up"]
               /\ inbox' = [inbox EXCEPT ![sock] = <<"config">>]
      <4>1. link' \in [Sockets -> LinkStates] BY <3>1, <3>3, Zenon DEF NetType
      <4>2. inbox' \in [Sockets -> Seq(Messages)] BY <2>1, <3>3, Zenon DEF NetType
      <4> QED BY <4>1, <4>2
    <3> QED BY <1>5, <3>2, <3>3, Zenon DEF ConnectDial
  <2>3. \A s \in Sockets : link'[s] # "free" <=> link[s] # "free"
    BY <1>5 DEF ConnectDial, NetType
  <2>4. UNCHANGED <<sock, open, readFd, readPc>> /\ connPc' \notin {"forget", "create"}
    BY <1>5 DEF ConnectDial
  <2> QED BY <2>2, <2>3, <2>4, Zenon DEF NetType
<1>6. CASE ConnectJoinRead \/ JoinRead
  BY <1>6 DEF ConnectJoinRead, JoinRead, NetType, netVars, IInv, ControlInv, ReadInv
<1>7. CASE ConnectSpawn
  BY <1>7 DEF ConnectSpawn, NetType, netVars, IInv, ControlInv, ReadInv
<1>8. CASE ReadLoop \/ ReadCall \/ ReadExit
  BY <1>8 DEF ReadLoop, ReadCall, Receiving, ReadExit, NetType, netVars
<1>9. CASE PeekNothing \/ PeekSignature \/ PeekMismatch \/ ReceiveFails
  <2>1. Release(readFd, inbox) /\ readFd' = NoSocket /\ UNCHANGED <<sock, open, connPc>>
    BY <1>9 DEF PeekNothing, PeekSignature, PeekMismatch, ReceiveFails
  <2> QED BY <2>1, ReleaseType DEF NetType
<1>10. CASE Handle \/ SkipByte
  <2>1. readFd \in Sockets /\ inbox[readFd] # <<>>
    BY <1>10 DEF Handle, SkipByte, HasData, NetType
  <2>2. Tail(inbox[readFd]) \in Seq(Messages)
    BY <2>1, HeadTailProperties DEF NetType
  <2>3. Skipped(inbox[readFd]) \in Seq(Messages)
    <3>1. <<"rest">> \in Seq(Messages) OBVIOUS
    <3>2. <<"rest">> \o Tail(inbox[readFd]) \in Seq(Messages) BY <2>2, <3>1,
        ConcatProperties
    <3> QED BY <2>2, <3>2, Zenon DEF Skipped
  <2>4. /\ [inbox EXCEPT ![readFd] = Tail(@)] \in [Sockets -> Seq(Messages)]
        /\ [inbox EXCEPT ![readFd] = Skipped(@)] \in [Sockets -> Seq(Messages)]
    BY <2>1, <2>2, <2>3, Zenon DEF NetType
  <2>5. PICK in \in [Sockets -> Seq(Messages)] : Release(readFd, in)
    BY <1>10, <2>4, Zenon DEF Handle, SkipByte
  <2>6. readFd' = NoSocket /\ UNCHANGED <<sock, open, connPc>>
    BY <1>10, Zenon DEF Handle, SkipByte
  <2> QED BY <2>5, <2>6, ReleaseType DEF NetType
<1>11. CASE Sender
  <2>1. PICK t \in Senders : SendTest(t) \/ SendSucceeds(t) \/ SendFails(t)
    BY <1>11 DEF Sender, Send
  <2> QED BY <2>1 DEF SendTest, SendSucceeds, SendFails, NetType, netVars
<1>12. CASE RadarSends
  BY <1>12, <1>q DEF RadarSends, Attended, NetType
<1>13. CASE RadarCloses
  <2>1. \A s \in Sockets : /\ inbox[s] \o <<>> \in Seq(Messages)
                           /\ inbox[s] \o <<"cut">> \in Seq(Messages)
    BY ConcatProperties, EmptySeq DEF NetType
  <2>2. PICK s \in Sockets, last \in {<<>>, <<"cut">>} :
            /\ link[s] = "up" /\ link' = [link EXCEPT ![s] = "eof"]
            /\ inbox' = [inbox EXCEPT ![s] = @ \o last]
    BY <1>13, Zenon DEF RadarCloses, Attended
  <2>3. inbox[s] \o last \in Seq(Messages) BY <2>1, <2>2
  <2>4. inbox' \in [Sockets -> Seq(Messages)] BY <2>2, <2>3 DEF NetType
  <2>5. link' \in [Sockets -> LinkStates]
        /\ \A t \in Sockets : link'[t] = "free" <=> link[t] = "free"
    BY <2>2 DEF NetType
  <2> QED BY <1>13, <2>4, <2>5 DEF RadarCloses, NetType
<1>14. CASE ConnectTop \/ ConnectWait \/ ConnectWoken \/ ConnectBegin \/ ConnectClose
            \/ ConnectFailed \/ ConnectUp \/ SpuriousWakeup \/ TimerFires
  BY <1>14 DEF ConnectTop, ConnectWait, ConnectWoken, ConnectBegin, ConnectClose,
     ConnectFailed, ConnectUp, SpuriousWakeup, TimerFires, NetType, netVars
<1>15. CASE Start \/ StartNotify \/ StartTimer \/ Stop \/ StopTimer \/ StopRunning
            \/ StopSocket \/ StopNotify \/ JoinConnect
  BY <1>15 DEF Start, StartNotify, StartTimer, Stop, StopTimer, StopRunning, StopSocket,
     StopNotify, JoinConnect, NetType, netVars
<1> QED
  BY <1>1, <1>2, <1>3, <1>4, <1>5, <1>6, <1>7, <1>8, <1>9, <1>10, <1>11, <1>12, <1>13,
     <1>14, <1>15 DEF Next, ConnectThread, ReadThread, Radar, App, StopStep

\* Every step but four leaves `sock` alone and opens nothing.
LEMMA QuietStep ==
    ASSUME IInv, Next, ~Start, ~StopForget, ~ConnectForget, ~ConnectCreate
    PROVE  /\ sock' = sock /\ open' \subseteq open /\ starts' = starts
           /\ MayStillLose' => MayStillLose
<1> USE DEF MayStillLose, flagVars, netVars, histVars
<1>1. CASE App
  <2>1. CASE StartNotify \/ StartTimer \/ Stop \/ StopTimer \/ StopRunning \/ StopSocket
    BY <2>1 DEF StartNotify, StartTimer, Stop, StopTimer, StopRunning, StopSocket,
       IInv, ControlInv, AppInv
  <2>2. CASE StopShutdown \/ StopClose
    BY <2>2 DEF StopShutdown, StopClose, CloseDescriptor
  <2>3. CASE StopNotify \/ JoinConnect \/ JoinRead
    BY <2>3 DEF StopNotify, JoinConnect, JoinRead
  <2> QED BY <1>1, <2>1, <2>2, <2>3 DEF App, StopStep
<1>2. CASE ConnectThread \/ SpuriousWakeup \/ TimerFires
  BY <1>2 DEF ConnectThread, ConnectTop, ConnectWait, ConnectWoken, ConnectBegin,
     ConnectClose, ConnectCloseFd, CloseDescriptor, ConnectDial, ConnectFailed,
     ConnectJoinRead, ConnectUp, ConnectSpawn, SpuriousWakeup, TimerFires
<1>3. CASE ReadThread
  BY <1>3 DEF ReadThread, ReadLoop, ReadCall, PeekNothing, PeekSignature, PeekMismatch,
     SkipByte, Handle, ReceiveFails, ReadExit
<1>4. CASE Sender \/ Radar
  BY <1>4 DEF Sender, Send, SendTest, SendSucceeds, SendFails, Radar, RadarSends,
     RadarCloses
<1> QED BY <1>1, <1>2, <1>3, <1>4 DEF Next

\* Only the assignment that ends stop()'s close() can lose a descriptor.
LEMMA LossStep == ASSUME IInv, KernelInv, LossBound, Next PROVE LossBound'
<1> DEFINE bound == IF MayStillLose THEN starts - 1 ELSE starts
<1>t. /\ starts \in Nat /\ appPc \in AppPcs /\ NetType
      /\ MayStillLose => starts - 1 \in Nat
  BY DEF IInv, ClientType, ControlInv, FreshInv, KernelInv, MayStillLose
<1>b. bound \in Nat /\ Cardinality(LostDescriptors) <= bound
  BY <1>t DEF LossBound
<1>1. CASE Start
  <2>1. LostDescriptors' = LostDescriptors BY <1>1 DEF Start, netVars, LostDescriptors
  <2>2. MayStillLose' /\ ~MayStillLose /\ starts' - 1 = starts
    BY <1>1, <1>t DEF Start, MayStillLose
  <2> QED BY <2>1, <2>2 DEF LossBound
<1>2. CASE StopForget
  <2>1. MayStillLose /\ ~MayStillLose' /\ starts' = starts /\ open' = open
    BY <1>2 DEF StopForget, MayStillLose, IInv, ControlInv, AppInv, flagVars, histVars
  <2>2. Cardinality(LostDescriptors') <= starts - 1 + 1
    BY <1>t, <1>b, <2>1, OneMoreLost
  <2> QED BY <1>t, <2>1, <2>2 DEF LossBound
<1>3. CASE ConnectForget \/ ConnectCreate
  <2>1. /\ UNCHANGED <<running, appPc, starts>> /\ open' \subseteq open \cup {sock'}
        /\ sock \notin open /\ sock' \in Sockets \cup {NoSocket}
    BY <1>3 DEF ConnectForget, ConnectCreate, FreeSockets, KernelInv, flagVars, histVars
  <2>2. LostDescriptors' \subseteq LostDescriptors BY <2>1 DEF LostDescriptors
  <2>3. open' \subseteq Sockets BY KernelStep DEF KernelInv, NetType
  <2>4. Cardinality(LostDescriptors') <= bound BY <1>t, <1>b, <2>2, <2>3, FewerLost
  <2> QED BY <2>1, <2>4 DEF LossBound, MayStillLose
<1>4. CASE ~Start /\ ~StopForget /\ ~ConnectForget /\ ~ConnectCreate
  <2>1. /\ sock' = sock /\ open' \subseteq open /\ starts' = starts
        /\ MayStillLose' => MayStillLose
    BY <1>4, QuietStep
  <2>2. LostDescriptors' \subseteq LostDescriptors BY <2>1 DEF LostDescriptors
  <2>3. open' \subseteq Sockets BY KernelStep DEF KernelInv, NetType
  <2>4. Cardinality(LostDescriptors') <= bound BY <1>t, <1>b, <2>2, <2>3, FewerLost
  <2>5. Cardinality(LostDescriptors') \in Nat
    <3>1. IsFiniteSet(open') BY KernelStep DEF KernelInv, NetType
    <3>2. LostDescriptors' \subseteq open' BY DEF LostDescriptors
    <3> QED BY <3>1, <3>2, FS_Subset, FS_CardinalityType
  <2> QED BY <1>t, <2>1, <2>4, <2>5 DEF LossBound
<1> QED BY <1>1, <1>2, <1>3, <1>4

LEMMA SocketStep == IInv /\ SocketInv /\ [Next]_vars => SocketInv'
<1> SUFFICES ASSUME IInv, SocketInv, [Next]_vars PROVE SocketInv'
  OBVIOUS
<1>1. CASE Next BY <1>1, KernelStep, LossStep DEF SocketInv
<1>2. CASE UNCHANGED vars
  BY <1>2 DEF vars, flagVars, netVars, histVars, SocketInv, KernelInv, NetType, LossBound,
     MayStillLose, LostDescriptors
<1> QED BY <1>1, <1>2

\* However often the client reconnects and the application restarts it, the
\* kernel's sockets in use are those with an open descriptor and the one of a
\* recv(), and one descriptor at most per ended session is no longer `sock`.
THEOREM SocketsLost == Spec => []SocketsLostOnlyInStop
<1>1. IInv /\ SocketInv => SocketsLostOnlyInStop
  <2> SUFFICES ASSUME IInv, SocketInv PROVE SocketsLostOnlyInStop
    OBVIOUS
  <2>1. Cardinality(LostDescriptors) \in Nat
    <3>1. LostDescriptors \subseteq open /\ IsFiniteSet(open)
      BY DEF LostDescriptors, SocketInv, KernelInv, NetType
    <3> QED BY <3>1, FS_Subset, FS_CardinalityType
  <2>2. starts \in Nat BY DEF IInv, ClientType
  <2> QED BY <2>1, <2>2 DEF SocketInv, KernelInv, LossBound, MayStillLose,
      SocketsLostOnlyInStop
<1> QED BY <1>1, SocketInit, SocketStep, Invariance, PTL DEF Spec

\* Every reachable state is well typed.
THEOREM TypeCorrect == Spec => []TypeOK
<1>1. IInv /\ SocketInv => TypeOK
  BY DEF IInv, SocketInv, KernelInv, TypeOK
<1> QED BY <1>1, SocketInit, SocketStep, Invariance, PTL DEF Spec
=============================================================================
