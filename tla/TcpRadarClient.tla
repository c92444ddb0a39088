--------------------------- MODULE TcpRadarClient ---------------------------
(***************************************************************************)
(* Tcp_radar_client (cpp_17/network/tcp_radar_client.cpp), with the        *)
(* Tcp_socket it owns and the Timer that retries the connection.  Threads: *)
(*                                                                         *)
(*   app     the application: start() and stop();                          *)
(*   senders the threads that call send(): the application's and the       *)
(*           worker of the message queue (Radar_client's handlers);        *)
(*   connect connect_thread_handler(), which dials the radar;              *)
(*   read    read_thread_handler(), which takes messages off the socket;   *)
(*   timer   the connection check, every five seconds;                     *)
(*   radar   the peer, which accepts, sends, and closes connections.       *)
(*                                                                         *)
(* A socket is a kernel object.  `open` holds those with an open           *)
(* descriptor; `sock`, the member of Tcp_socket, is the number of one, or  *)
(* -1, or the number of one that was closed, with which every call fails.  *)
(* Tcp_socket has no lock: two threads may be inside close() at once.  A   *)
(* thread blocked in recv() keeps the object it was given although its     *)
(* descriptor has been closed since.                                       *)
(*                                                                         *)
(* Messages are whole here, and one whose signature is peeked at in part   *)
(* is skipped (StreamFraming has the bytes).  The receive queue is open or *)
(* closed (ThreadedQueue has its threads).  Outside a                      *)
(* session (`running` is FALSE) set_connection_state() changes nothing and *)
(* get_connection_state() answers `disconnected`.                          *)
(***************************************************************************)
EXTENDS Naturals, Sequences, FiniteSets

CONSTANTS
    Sockets,    \* kernel objects: two and one per stop() are enough
    NoSocket,   \* the invalid descriptor, -1
    Senders,    \* threads that call send()
    MaxInbox,   \* bound: messages waiting in a socket
    MaxStarts   \* bound: calls of start()

ASSUME ClientAssumption ==
    /\ NoSocket \notin Sockets
    /\ MaxInbox \in Nat \ {0} /\ MaxStarts \in Nat

VARIABLES
    running, reading,     \* the two atomic flags
    state,                \* connection_state
    queueOpen,            \* receive_data_queue is between start() and stop()
    timerOn,              \* connection_check_timer is enabled
    sock,                 \* the member of Tcp_socket
    open,                 \* the sockets whose descriptor is open
    link,                 \* per socket: what the kernel knows of it
    inbox,                \* per socket: the messages that can be received
    appPc, connPc, readPc,
    senderPc,             \* per sender
    readFd,               \* the socket the read thread is receiving from
    readThread,           \* read_thread # nullptr
    configMet,            \* history: this session enqueued or skipped a configuration
    starts,               \* history: calls of start() that started something
    missedNotify          \* history: stop() notified a connect thread about to wait

flagVars == <<running, reading, queueOpen, timerOn>>
netVars == <<sock, open, link, inbox>>
histVars == <<configMet, starts, missedNotify>>
vars == <<flagVars, state, netVars, appPc, senderPc, connPc, readPc, readFd, readThread,
          histVars>>

States == {"disconnected", "connecting", "connected"}
\* "cut": the connection ends inside it; "rest": what is left of one in part skipped
Messages == {"config", "data", "cut", "rest"}
LinkStates == {"free", "new", "up", "eof", "reset", "shut"}

Init ==
    /\ running = FALSE /\ reading = FALSE
    /\ state = "disconnected"
    /\ queueOpen = FALSE /\ timerOn = FALSE
    /\ sock = NoSocket /\ open = {}
    /\ link = [s \in Sockets |-> "free"]
    /\ inbox = [s \in Sockets |-> <<>>]
    /\ appPc = "idle" /\ connPc = "none" /\ readPc = "none"
    /\ senderPc = [t \in Senders |-> "idle"]
    /\ readFd = NoSocket /\ readThread = FALSE
    /\ configMet = FALSE /\ starts = 0 /\ missedNotify = FALSE

SetConnectionState(s) == state' = IF running THEN s ELSE state

LossUnreported == UNCHANGED state

LossReported == SetConnectionState("disconnected")

\* get_connection_state() = connected
IsConnected == running /\ state = "connected"

\* connect_condition.notify_*(): only a thread blocked in wait() is woken.
Notified(pc) == IF pc = "waiting" THEN "woken" ELSE pc

CloseForgotten == UNCHANGED <<open, link, inbox>>

\* ::close(sock): the kernel object goes with its descriptor unless the read
\* thread is still inside recv() on it.
CloseDescriptor ==
    /\ open' = open \ {sock}
    /\ IF sock = readFd THEN UNCHANGED <<link, inbox>>
       ELSE /\ link' = [link EXCEPT ![sock] = "free"]
            /\ inbox' = [inbox EXCEPT ![sock] = <<>>]

----------------------------------------------------------------------------
(* start() and stop(), on the application's thread *)

Start ==
    /\ appPc = "idle" /\ ~running
    /\ starts < MaxStarts
    /\ queueOpen' = TRUE /\ running' = TRUE
    /\ connPc' = "top"
    /\ appPc' = "started"
    /\ starts' = starts + 1 /\ configMet' = FALSE
    /\ UNCHANGED <<reading, timerOn, state, netVars, senderPc, readPc, readFd, readThread,
                   missedNotify>>

\* The notification, after a sleep of 100 ms the connect thread may not have used.
StartNotify ==
    /\ appPc = "started"
    /\ connPc' = Notified(connPc)
    /\ appPc' = "enableTimer"
    /\ UNCHANGED <<flagVars, state, netVars, senderPc, readPc, readFd, readThread,
                   histVars>>

StartTimer ==
    /\ appPc = "enableTimer"
    /\ timerOn' = TRUE
    /\ appPc' = "idle"
    /\ UNCHANGED <<running, reading, queueOpen, state, netVars, senderPc, connPc, readPc,
                   readFd, readThread, histVars>>

Stop ==
    /\ appPc = "idle" /\ running
    /\ queueOpen' = FALSE
    /\ appPc' = "disableTimer"
    /\ UNCHANGED <<running, reading, timerOn, state, netVars, senderPc, connPc, readPc,
                   readFd, readThread, histVars>>

StopTimer ==
    /\ appPc = "disableTimer"
    /\ timerOn' = FALSE
    /\ appPc' = "stopRunning"
    /\ UNCHANGED <<running, reading, queueOpen, state, netVars, senderPc, connPc, readPc,
                   readFd, readThread, histVars>>

StopRunning ==
    /\ appPc = "stopRunning"
    /\ running' = FALSE
    /\ appPc' = "stopSocket"
    /\ UNCHANGED <<reading, queueOpen, timerOn, state, netVars, senderPc, connPc, readPc,
                   readFd, readThread, histVars>>

\* socket.close(shutdown): the test of the descriptor, shutdown(), ::close() and
\* the assignment of -1 are steps between which connect() may close and create.
StopSocket ==
    /\ appPc = "stopSocket"
    /\ appPc' = IF sock = NoSocket THEN "stopNotify" ELSE "shutSocket"
    /\ UNCHANGED <<flagVars, state, netVars, senderPc, connPc, readPc, readFd, readThread,
                   histVars>>

StopShutdown ==
    /\ appPc = "shutSocket"
    /\ link' = [s \in Sockets |->
                   IF s = sock /\ s \in open /\ link[s] # "new" THEN "shut" ELSE link[s]]
    /\ appPc' = "closeSocket"
    /\ UNCHANGED <<flagVars, state, sock, open, inbox, senderPc, connPc, readPc, readFd,
                   readThread, histVars>>

StopClose ==
    /\ appPc = "closeSocket"
    /\ IF sock \in open
       THEN CloseDescriptor /\ appPc' = "forgetSocket"
       ELSE appPc' = "stopNotify" /\ UNCHANGED <<open, link, inbox>>
    /\ UNCHANGED <<flagVars, state, sock, senderPc, connPc, readPc, readFd, readThread,
                   histVars>>

StopForget ==
    /\ appPc = "forgetSocket"
    /\ sock' = NoSocket
    /\ appPc' = "stopNotify"
    /\ UNCHANGED <<flagVars, state, open, link, inbox, senderPc, connPc, readPc, readFd,
                   readThread, histVars>>

StopNotify ==
    /\ appPc = "stopNotify"
    /\ connPc' = Notified(connPc)
    /\ missedNotify' = (connPc = "lock")
    /\ appPc' = "joinConnect"
    /\ UNCHANGED <<flagVars, state, netVars, senderPc, readPc, readFd, readThread,
                   configMet, starts>>

JoinConnect ==
    /\ appPc = "joinConnect" /\ connPc = "done"
    /\ connPc' = "none" /\ missedNotify' = FALSE
    /\ reading' = FALSE
    /\ appPc' = "joinRead"
    /\ UNCHANGED <<running, queueOpen, timerOn, state, netVars, senderPc, readPc, readFd,
                   readThread, configMet, starts>>

LeaveReadThread == UNCHANGED <<readPc, readThread>>

\* if (read_thread != nullptr) { join; reset }
JoinReadThread ==
    /\ readThread => readPc = "done"
    /\ readThread' = FALSE /\ readPc' = "none"

JoinRead ==
    /\ appPc = "joinRead"
    /\ JoinReadThread
    /\ appPc' = "idle"
    /\ UNCHANGED <<flagVars, state, netVars, senderPc, connPc, readFd, histVars>>

----------------------------------------------------------------------------
(* connection_check_handler(), on the timer's thread *)

MustRetryHalfOpen == running /\ state = "connecting"

MustRetry == running /\ state = "disconnected"

TimerFires ==
    /\ timerOn /\ MustRetry
    /\ connPc' = Notified(connPc)
    /\ UNCHANGED <<flagVars, state, netVars, appPc, senderPc, readPc, readFd, readThread,
                   histVars>>

----------------------------------------------------------------------------
(* connect_thread_handler() and connect() *)

\* while (running)
ConnectTop ==
    /\ connPc = "top"
    /\ connPc' = IF running THEN "lock" ELSE "done"
    /\ UNCHANGED <<flagVars, state, netVars, appPc, senderPc, readPc, readFd, readThread,
                   histVars>>

\* connect_condition.wait(lock), without a predicate
ConnectWait ==
    /\ connPc = "lock"
    /\ connPc' = "waiting"
    /\ UNCHANGED <<flagVars, state, netVars, appPc, senderPc, readPc, readFd, readThread,
                   histVars>>

SpuriousWakeup ==
    /\ connPc = "waiting"
    /\ connPc' = "woken"
    /\ UNCHANGED <<flagVars, state, netVars, appPc, senderPc, readPc, readFd, readThread,
                   histVars>>

\* if (!running) break
ConnectWoken ==
    /\ connPc = "woken"
    /\ connPc' = IF running THEN "begin" ELSE "done"
    /\ UNCHANGED <<flagVars, state, netVars, appPc, senderPc, readPc, readFd, readThread,
                   histVars>>

\* connect() returns at once if the client counts as connected.
ConnectBegin ==
    /\ connPc = "begin"
    /\ IF IsConnected
       THEN connPc' = "top" /\ UNCHANGED state
       ELSE connPc' = "close" /\ SetConnectionState("connecting")
    /\ UNCHANGED <<flagVars, netVars, appPc, senderPc, readPc, readFd, readThread,
                   histVars>>

\* socket.close(), in the same steps as stop()'s but without the shutdown().
ConnectClose ==
    /\ connPc = "close"
    /\ connPc' = IF sock = NoSocket THEN "create" ELSE "closeFd"
    /\ UNCHANGED <<flagVars, state, netVars, appPc, senderPc, readPc, readFd, readThread,
                   histVars>>

ConnectCloseFd ==
    /\ connPc = "closeFd"
    /\ IF sock \in open
       THEN CloseDescriptor /\ connPc' = "forget"
       ELSE connPc' = "create" /\ UNCHANGED <<open, link, inbox>>
    /\ UNCHANGED <<flagVars, state, sock, appPc, senderPc, readPc, readFd, readThread,
                   histVars>>

ConnectForget ==
    /\ connPc = "forget"
    /\ sock' = NoSocket
    /\ connPc' = "create"
    /\ UNCHANGED <<flagVars, state, open, link, inbox, appPc, senderPc, readPc, readFd,
                   readThread, histVars>>

FreeSockets == {s \in Sockets : link[s] = "free"}

ConnectCreate ==
    /\ connPc = "create" /\ FreeSockets # {}
    /\ LET s == CHOOSE x \in FreeSockets : TRUE
       IN  /\ sock' = s /\ open' = open \cup {s}
           /\ link' = [link EXCEPT ![s] = "new"]
    /\ connPc' = "dial"
    /\ UNCHANGED <<flagVars, state, inbox, appPc, senderPc, readPc, readFd, readThread,
                   histVars>>

\* Tcp_socket::connect(): the radar answers a new connection with its configuration.
ConnectDial ==
    /\ connPc = "dial"
    /\ \/ /\ sock \in open
          /\ link' = [link EXCEPT ![sock] = "up"]
          /\ inbox' = [inbox EXCEPT ![sock] = <<"config">>]
          /\ connPc' = "joinRead"
       \/ /\ connPc' = "failed"
          /\ UNCHANGED <<link, inbox>>
    /\ UNCHANGED <<flagVars, state, sock, open, appPc, senderPc, readPc, readFd, readThread,
                   histVars>>

ConnectFailed ==
    /\ connPc = "failed"
    /\ LossReported
    /\ connPc' = "top"
    /\ UNCHANGED <<flagVars, netVars, appPc, senderPc, readPc, readFd, readThread,
                   histVars>>

ConnectJoinRead ==
    /\ connPc = "joinRead"
    /\ JoinReadThread
    /\ connPc' = "up"
    /\ UNCHANGED <<flagVars, state, netVars, appPc, senderPc, readFd, histVars>>

ConnectUp ==
    /\ connPc = "up"
    /\ SetConnectionState("connected")
    /\ connPc' = "spawn"
    /\ UNCHANGED <<flagVars, netVars, appPc, senderPc, readPc, readFd, readThread,
                   histVars>>

ReadingForgotten == UNCHANGED reading

ReadingEnabled == reading' = TRUE

ConnectSpawn ==
    /\ connPc = "spawn"
    /\ ReadingEnabled
    /\ readThread' = TRUE /\ readPc' = "loop"
    /\ connPc' = "top"
    /\ UNCHANGED <<running, queueOpen, timerOn, state, netVars, appPc, senderPc, readFd,
                   histVars>>

----------------------------------------------------------------------------
(* read_thread_handler() and handle_data() *)

\* while (reading && running)
ReadLoop ==
    /\ readPc = "loop"
    /\ readPc' = IF reading /\ running THEN "peek" ELSE "exit"
    /\ UNCHANGED <<flagVars, state, netVars, appPc, senderPc, connPc, readFd, readThread,
                   histVars>>

\* recv() starts on the socket the descriptor names at that moment: for the
\* signature, for one byte to skip or for a message.
Receiving == [peek |-> "inPeek", skip |-> "inSkip", header |-> "inHeader"]

ReadCall ==
    /\ readPc \in DOMAIN Receiving
    /\ readFd' = IF sock \in open THEN sock ELSE NoSocket
    /\ readPc' = Receiving[readPc]
    /\ UNCHANGED <<flagVars, state, netVars, appPc, senderPc, connPc, readThread, histVars>>

\* recv() yields data; an established connection without data makes it wait,
\* at most for the receive timeout; every other outcome is 0 or -1.  Of data that
\* came while the descriptor went, receive() says nothing.
HasData ==
    /\ readFd # NoSocket /\ link[readFd] \in {"up", "eof"} /\ inbox[readFd] # <<>>
    /\ sock # NoSocket
\* Tcp_socket::receive() answers 0 for a failure, for the end of the stream and
\* for the timeout alike, and never a negative number.
HasNothing == ~HasData

\* The kernel object of a closed descriptor goes when recv() leaves it.
Release(fd, in) ==
    IF fd # NoSocket /\ fd \notin open
    THEN /\ link' = [link EXCEPT ![fd] = "free"]
         /\ inbox' = [inbox EXCEPT ![fd] = <<>>]
    ELSE /\ inbox' = in
         /\ UNCHANGED link

\* recv() is left for `pc`, or for the end of the thread when the session ended.
ReadOn(pc) ==
    IF reading /\ running
    THEN readPc' = pc /\ UNCHANGED state
    ELSE readPc' = "exit" /\ LossReported

ReadFails == readPc' = "exit" /\ LossReported

\* bytes_read == 0 at the signature: go round again, whatever the reason was.
PeekNothing ==
    /\ readPc = "inPeek" /\ HasNothing
    /\ Release(readFd, inbox)
    /\ readFd' = NoSocket /\ readPc' = "loop"
    /\ UNCHANGED <<flagVars, state, sock, open, appPc, senderPc, connPc, readThread,
                   histVars>>

PeekSignature ==
    /\ readPc = "inPeek" /\ HasData
    /\ Head(inbox[readFd]) # "rest"
    /\ Release(readFd, inbox)
    /\ readFd' = NoSocket
    /\ ReadOn("header")
    /\ UNCHANGED <<flagVars, sock, open, appPc, senderPc, connPc, readThread, histVars>>

\* The bytes are not the signature: after a peek that found only some of them
\* and then the same again, or inside a message already skipped in part.
PeekMismatch ==
    /\ readPc = "inPeek" /\ HasData
    /\ Release(readFd, inbox)
    /\ readFd' = NoSocket
    /\ ReadOn("skip")
    /\ UNCHANGED <<flagVars, sock, open, appPc, senderPc, connPc, readThread, histVars>>

\* One byte is skipped; the last one ends the message (two stand for them all).
Skipped(in) == IF Head(in) = "rest" THEN Tail(in) ELSE <<"rest">> \o Tail(in)

SkipByte ==
    /\ readPc = "inSkip" /\ HasData
    /\ configMet' = (configMet \/ Head(inbox[readFd]) = "config")
    /\ Release(readFd, [inbox EXCEPT ![readFd] = Skipped(@)])
    /\ readFd' = NoSocket
    /\ ReadOn("loop")
    /\ UNCHANGED <<flagVars, sock, open, appPc, senderPc, connPc, readThread, starts,
                   missedNotify>>

\* handle_data() with a whole message: enqueue it, unless the session ended.
Handle ==
    /\ readPc = "inHeader" /\ HasData
    /\ LET message == Head(inbox[readFd])
           handled == message # "cut" /\ reading /\ running
       IN  /\ IF message = "cut" THEN ReadFails ELSE ReadOn("loop")
           /\ configMet' = (configMet \/ (handled /\ queueOpen /\ message = "config"))
    /\ Release(readFd, [inbox EXCEPT ![readFd] = Tail(@)])
    /\ readFd' = NoSocket
    /\ UNCHANGED <<flagVars, sock, open, appPc, senderPc, connPc, readThread, starts,
                   missedNotify>>

\* The end of the stream, an error or the timeout, at a byte to skip or in
\* handle_data().
ReceiveFails ==
    /\ readPc \in {"inSkip", "inHeader"} /\ HasNothing
    /\ Release(readFd, inbox)
    /\ readFd' = NoSocket
    /\ ReadFails
    /\ UNCHANGED <<flagVars, sock, open, appPc, senderPc, connPc, readThread, histVars>>

ReadExit ==
    /\ readPc = "exit"
    /\ reading' = FALSE
    /\ readPc' = "done"
    /\ UNCHANGED <<running, queueOpen, timerOn, state, netVars, appPc, senderPc, connPc,
                   readFd, readThread, histVars>>

----------------------------------------------------------------------------
(* send(), on any of the threads that call it *)

SendTest(t) ==
    /\ senderPc[t] = "idle"
    /\ IsConnected
    /\ senderPc' = [senderPc EXCEPT ![t] = "send"]
    /\ UNCHANGED <<flagVars, state, netVars, appPc, connPc, readPc, readFd, readThread,
                   histVars>>

\* The first send to a peer that closed is accepted and answered by a reset.
SendSucceeds(t) ==
    /\ senderPc[t] = "send"
    /\ sock \in open /\ link[sock] \in {"up", "eof"}
    /\ link' = [link EXCEPT ![sock] = IF @ = "eof" THEN "reset" ELSE @]
    /\ senderPc' = [senderPc EXCEPT ![t] = "idle"]
    /\ UNCHANGED <<flagVars, state, sock, open, inbox, appPc, connPc, readPc, readFd,
                   readThread, histVars>>

\* An error, or the send timeout of a connection that is up.
SendFails(t) ==
    /\ senderPc[t] = "send"
    /\ LossReported
    /\ senderPc' = [senderPc EXCEPT ![t] = "idle"]
    /\ UNCHANGED <<flagVars, netVars, appPc, connPc, readPc, readFd, readThread, histVars>>

----------------------------------------------------------------------------
(* The radar *)

\* What it does on a connection whose descriptor is lost is nobody's concern.
Attended == {sock, readFd} \cap Sockets

RadarSends ==
    /\ \E s \in Attended :
           /\ link[s] = "up" /\ Len(inbox[s]) < MaxInbox
           /\ inbox' = [inbox EXCEPT ![s] = Append(@, "data")]
    /\ UNCHANGED <<flagVars, state, sock, open, link, appPc, senderPc, connPc, readPc,
                   readFd, readThread, histVars>>

\* It closes a connection between two messages or inside one.
RadarCloses ==
    /\ \E s \in Attended, last \in {<<>>, <<"cut">>} :
           /\ link[s] = "up"
           /\ link' = [link EXCEPT ![s] = "eof"]
           /\ inbox' = [inbox EXCEPT ![s] = @ \o last]
    /\ UNCHANGED <<flagVars, state, sock, open, appPc, senderPc, connPc, readPc, readFd,
                   readThread, histVars>>

----------------------------------------------------------------------------
StopStep ==
    \/ StopTimer \/ StopRunning \/ StopSocket \/ StopShutdown \/ StopClose \/ StopForget
    \/ StopNotify \/ JoinConnect \/ JoinRead

App == Start \/ StartNotify \/ StartTimer \/ Stop \/ StopStep

ConnectThread ==
    \/ ConnectTop \/ ConnectWait \/ ConnectWoken \/ ConnectBegin \/ ConnectClose
    \/ ConnectCloseFd \/ ConnectForget \/ ConnectCreate \/ ConnectDial \/ ConnectFailed
    \/ ConnectJoinRead \/ ConnectUp \/ ConnectSpawn

ReadThread ==
    \/ ReadLoop \/ ReadCall \/ PeekNothing \/ PeekSignature \/ PeekMismatch \/ SkipByte
    \/ Handle \/ ReceiveFails \/ ReadExit

Send(t) == SendSucceeds(t) \/ SendFails(t)

Sender == \E t \in Senders : SendTest(t) \/ Send(t)

Radar == RadarSends \/ RadarCloses

Next ==
    \/ App \/ TimerFires \/ ConnectThread \/ SpuriousWakeup \/ ReadThread \/ Sender \/ Radar

Spec == Init /\ [][Next]_vars

\* Threads are scheduled, the timer keeps firing, a blocked recv() ends at the
\* latest with its timeout of 60 s.  The application and the radar owe nothing.
Fairness ==
    /\ WF_vars(StartNotify \/ StartTimer \/ StopStep)
    /\ WF_vars(TimerFires)
    /\ WF_vars(ConnectThread)
    /\ WF_vars(ReadThread)
    /\ \A t \in Senders : WF_vars(Send(t))

FairSpec == Spec /\ Fairness

----------------------------------------------------------------------------
(* Properties *)

\* connect() replaces the read thread only after the last one was joined: a
\* std::thread destroyed while it runs ends the process.
OneReadThread == connPc = "spawn" => readPc = "none" /\ ~readThread

\* stop() waits for a sleeping connect thread only if it notified it between
\* its test of `running` and its wait().
OnlyMissedNotifyHangs ==
    appPc = "joinConnect" /\ connPc = "waiting" => missedNotify

\* When stop() returns every thread is gone and the timer is off: no read thread
\* was replaced while it ran, and only a missed notification keeps it from returning.
StoppedIsQuiet ==
    /\ appPc = "idle" /\ ~running =>
           connPc = "none" /\ readPc = "none" /\ ~readThread /\ ~timerOn
    /\ OneReadThread
    /\ OnlyMissedNotifyHangs

\* stop() takes the descriptor back after it gave it up, perhaps from a socket
\* that connect() created meanwhile: at most once in a session.
LostDescriptors == open \ {sock}

\* Reconnecting leaks no socket: a kernel object is in use exactly if its
\* descriptor is open or a recv() is in progress on it, and open descriptors are
\* all `sock` but for one that each ended session may have lost.
SocketsLostOnlyInStop ==
    /\ \A s \in Sockets : link[s] # "free" <=> s \in open \/ s = readFd
    /\ Cardinality(LostDescriptors) <= IF running THEN starts - 1 ELSE starts

\* In the first session, a client that calls itself connected has a read thread
\* at work, or is about to start it: the thread never leaves without reporting.
ConnectedHasReader ==
    starts = 1 /\ IsConnected =>
        readPc \notin {"none", "exit", "done"} \/ connPc = "spawn"

\* In the first session, `connecting` means the connect thread is at it.
ConnectingIsConnecting ==
    starts = 1 /\ running /\ state = "connecting" =>
        connPc \in {"close", "closeFd", "forget", "create", "dial", "failed", "joinRead", "up"}

\* In the first session connection_state tells the truth.
HonestState == ConnectedHasReader /\ ConnectingIsConnecting

\* stop() returns unless that notification was missed.
StopReturnsUnlessMissed ==
    (appPc = "disableTimer") ~> (appPc = "idle" \/ missedNotify)

\* The timer retries: a lost connection is dialled again, unless the connect thread
\* has dialled and waits for a read thread that goes on: the sends of two threads
\* may fail one after the other, the second after the new connection.
LostIsRetried ==
    (running /\ state = "disconnected" /\ timerOn)
        ~> (connPc \in {"close", "joinRead"} \/ state # "disconnected" \/ ~running)

\* The threads go on: a stop() ends, and a lost connection is dialled again
\* unless it was while the connect thread waits for the read thread.
ThreadsGoOn == StopReturnsUnlessMissed /\ LostIsRetried

RadarClosed == sock \in open /\ link[sock] \in {"eof", "reset"}

\* In the first session, a connected client enqueues the radar's configuration
\* unless it skipped it, its signature having been peeked at in part, or the radar
\* closes the connection again.
FirstSessionGetsConfiguration ==
    (starts = 1 /\ IsConnected)
        ~> (configMet \/ ~IsConnected \/ RadarClosed \/ ~queueOpen)

\* The descriptor names an established connection.
ConnectionUp == sock \in open /\ link[sock] = "up"

\* "Once connected and you have the config data, tell the radar to start
\* sending FFT Data" (README.md): an established connection comes to count as
\* connected, without which send() drops what the application sends.
ConnectionBecomesUsable ==
    (running /\ ConnectionUp) ~> (IsConnected \/ ~ConnectionUp \/ ~running)
=============================================================================
