--------------------------- MODULE OldRadarClient ---------------------------
(***************************************************************************)
(* The older C++ SDK (src/cpp): the RadarClient, the TcpRadarClient it     *)
(* owns with its socket, queue and timer, and the application that the     *)
(* test client is.  Threads:                                               *)
(*                                                                         *)
(*   app      main() of the application;                                   *)
(*   connect  ConnectThread(), woken by Start() and by the timer;          *)
(*   read     ReadThread(), which frames messages and enqueues them;       *)
(*   queue    the ThreadedQueue's thread, which runs the handlers and the  *)
(*            application's callbacks.                                     *)
(*                                                                         *)
(* A message is a configuration, which the radar sends on connection, or   *)
(* data of a stream ("fft", "nav"); its bytes are those of                 *)
(* ColossusMessages, and any may be lost as in StreamFraming: a Receive()  *)
(* that peeks at a part of a signature reads it twice, and the read thread *)
(* throws the message away byte by byte.  "dead" is a connection the radar *)
(* has closed: Receive() answers 0, as for a timeout, and the read thread  *)
(* goes on; "cut" is one closed, or stalled until the timeout, inside a    *)
(* message, which HandleData() sees unless its signature is cut as well.   *)
(***************************************************************************)
EXTENDS Naturals, Sequences, FiniteSets

CONSTANTS MaxStarts,   \* bound: calls of Start()
          MaxLosses,   \* bound: connections the radar closes
          MaxSkips,    \* bound: configurations lost to a short peek
          MaxNet,      \* bound: messages between the radar and the read thread
          MaxDepth     \* MAXQUEUEDEPTH

ASSUME BoundsAssumption == {MaxStarts, MaxLosses, MaxSkips, MaxNet, MaxDepth} \subseteq Nat

Streams == {"fft", "nav"}

VARIABLES
    app,             \* where the application's thread is
    bound,           \* its callbacks are set
    sendRadarData,   \* _sendRadarData
    running,         \* _running, of TcpRadarClient
    reading,         \* _reading
    state,           \* _connectionState
    socket,          \* "closed", "up", "dead" or "cut"
    net,             \* messages that can be received from it
    streams,         \* what the radar streams on it
    timerOn,         \* _connectionCheckTimer is enabled
    connect,         \* where the connect thread is
    read,            \* where the read thread is
    holding,         \* the message the read thread is about to push
    queue,           \* _queue
    stopping,        \* <<_stopRequested, _stopping>>
    worker,          \* where the queue's thread is
    item,            \* the message it handles
    late,            \* history: callbacks begun after they were unset
    starts, losses,  \* history: calls of Start(), connections closed
    skips            \* history: configurations lost to a short peek

appVars  == <<app, bound, sendRadarData, starts>>
linkVars == <<socket, net, streams, losses, skips>>
connVars == <<running, state, timerOn, connect>>
readVars == <<reading, read, holding>>
workVars == <<stopping, worker, item, late>>
vars == <<appVars, linkVars, connVars, readVars, queue, workVars>>

None == "none"

Init ==
    /\ app = "idle" /\ bound = TRUE /\ sendRadarData = FALSE
    /\ running = FALSE /\ reading = FALSE /\ state = "Disconnected"
    /\ socket = "closed" /\ net = <<>> /\ streams = {}
    /\ timerOn = FALSE /\ connect = "none" /\ read = "none" /\ holding = None
    /\ queue = <<>> /\ stopping = <<FALSE, FALSE>> /\ worker = "none" /\ item = None
    /\ late = 0 /\ starts = 0 /\ losses = 0 /\ skips = 0

-----------------------------------------------------------------------------
SetConnectionState(s) == state' = IF running THEN s ELSE state
GetConnectionState == IF running THEN state ELSE "Disconnected"

\* Send(), of requests that leave the radar streaming on(streams): the first to
\* fail changes the state, and those after it are dropped.
Request(on) ==
    \/ GetConnectionState # "Connected" /\ UNCHANGED <<state, streams>>
    \/ GetConnectionState = "Connected" /\ socket = "up" /\ streams' = on /\ UNCHANGED state
    \/ /\ GetConnectionState = "Connected" /\ socket # "up" /\ UNCHANGED streams
       /\ UNCHANGED state \/ SetConnectionState("Disconnected")

\* notify_one() and notify_all() of _connectCondition reach a thread that waits.
NotifyConnect(c) == IF c = "waiting" THEN "woken" ELSE c

(***************************************************************************)
(* The application: Start(), requests, StopFFTData(), the setters that     *)
(* unset the callbacks, and Stop(), one step for each thread it waits for. *)
(***************************************************************************)
Start ==
    /\ app = "idle" /\ starts < MaxStarts
    /\ worker' = "testing" /\ stopping' = <<FALSE, FALSE>>
    /\ running' = TRUE /\ connect' = "testing"
    /\ app' = "starting" /\ starts' = starts + 1
    /\ bound' = TRUE /\ late' = 0
    /\ UNCHANGED <<sendRadarData, linkVars, state, timerOn, readVars, queue, item>>

\* after sleeping for 100 ms
StartNotifies ==
    /\ app = "starting"
    /\ connect' = NotifyConnect(connect)
    /\ timerOn' = TRUE
    /\ app' = "started"
    /\ UNCHANGED <<bound, sendRadarData, starts, linkVars, running, state, readVars, queue,
                   workVars>>

\* StopNavigationData(), SetNavigationThreshold() and the other requests
AppRequests ==
    /\ app = "started"
    /\ \E on \in {streams, streams \ {"nav"}} : Request(on)
    /\ UNCHANGED <<appVars, socket, net, losses, skips, running, timerOn, connect, readVars,
                   queue, workVars>>

StopFFTData ==
    /\ app = "started"
    /\ Request(streams \ {"fft"})
    /\ sendRadarData' = FALSE
    /\ UNCHANGED <<app, bound, starts, socket, net, losses, skips, running, timerOn,
                   connect, readVars, queue, workVars>>

UnsetCallbacks ==
    /\ app = "started" /\ bound
    /\ bound' = FALSE
    /\ UNCHANGED <<app, sendRadarData, starts, linkVars, connVars, readVars, queue, workVars>>

StopRequestsQueue ==
    /\ app = "started"
    /\ stopping' = <<TRUE, FALSE>>
    /\ app' = "stoppingQueue"
    /\ UNCHANGED <<bound, sendRadarData, starts, linkVars, connVars, readVars, queue,
                   worker, item, late>>

\* PreStop() takes no lock: a thread about to wait misses its notification.
StopClearsQueue ==
    /\ app = "stoppingQueue"
    /\ stopping' = <<TRUE, TRUE>>
    /\ queue' = <<>>
    /\ worker' = IF worker = "waiting" THEN "testing" ELSE worker
    /\ app' = "joiningQueue"
    /\ UNCHANGED <<bound, sendRadarData, starts, linkVars, connVars, readVars, item, late>>

\* Join() of the queue, then of the timer; close(), which takes what is unread
\* with it, and the notification a thread about to wait misses too
StopJoinsQueue ==
    /\ app = "joiningQueue" /\ worker = "ended"
    /\ timerOn' = FALSE
    /\ running' = FALSE
    /\ socket' = "closed" /\ net' = <<>> /\ streams' = {}
    /\ connect' = NotifyConnect(connect)
    /\ app' = "joiningConnect"
    /\ UNCHANGED <<bound, sendRadarData, starts, losses, skips, state, readVars, queue,
                   workVars>>

StopJoinsConnect ==
    /\ app = "joiningConnect" /\ connect = "ended"
    /\ reading' = FALSE
    /\ app' = "joiningRead"
    /\ UNCHANGED <<bound, sendRadarData, starts, linkVars, connVars, read, holding, queue,
                   workVars>>

StopJoinsRead ==
    /\ app = "joiningRead" /\ read \in {"none", "ended"}
    /\ app' = "idle"
    /\ UNCHANGED <<bound, sendRadarData, starts, linkVars, connVars, readVars, queue,
                   workVars>>

AppSteps ==
    \/ Start \/ StartNotifies \/ AppRequests \/ StopFFTData \/ UnsetCallbacks
    \/ StopRequestsQueue \/ StopClearsQueue \/ StopJoinsQueue \/ StopJoinsConnect \/ StopJoinsRead

(***************************************************************************)
(* The connect thread.  Its wait has no predicate.                         *)
(***************************************************************************)
ConnectRests == UNCHANGED <<appVars, running, timerOn, queue, workVars>>

ConnectTests ==
    /\ connect = "testing"
    /\ connect' = IF running THEN "toWait" ELSE "ended"
    /\ UNCHANGED <<linkVars, state, readVars>> /\ ConnectRests

ConnectWaits ==
    /\ connect = "toWait"
    /\ connect' = "waiting"
    /\ UNCHANGED <<linkVars, state, readVars>> /\ ConnectRests

\* Connect() up to the dialling, which closes and replaces the socket
ConnectWakes ==
    /\ connect = "woken"
    /\ IF running /\ GetConnectionState # "Connected"
       THEN /\ SetConnectionState("Connecting")
            /\ socket' = "closed" /\ net' = <<>> /\ streams' = {}
            /\ connect' = "dialling"
       ELSE /\ connect' = IF running THEN "testing" ELSE "ended"
            /\ UNCHANGED <<state, socket, net, streams>>
    /\ UNCHANGED <<losses, skips, readVars>> /\ ConnectRests

DialFails ==
    /\ connect = "dialling"
    /\ SetConnectionState("Disconnected")
    /\ connect' = "testing"
    /\ UNCHANGED <<linkVars, readVars>> /\ ConnectRests

\* The radar sends its configuration first.
DialSucceeds ==
    /\ connect = "dialling"
    /\ socket' = "up" /\ net' = <<"config">> /\ streams' = {}
    /\ connect' = "joining"
    /\ UNCHANGED <<losses, skips, state, readVars>> /\ ConnectRests

\* It joins the former read thread, which may be reading from the new socket.
ConnectReports ==
    /\ connect = "joining" /\ read \in {"none", "ended"}
    /\ SetConnectionState("Connected")
    /\ connect' = "reporting"
    /\ UNCHANGED <<linkVars, readVars>> /\ ConnectRests

ReaderStarts ==
    /\ connect = "reporting"
    /\ reading' = TRUE
    /\ read' = "testing"
    /\ connect' = "testing"
    /\ UNCHANGED <<linkVars, state, holding>> /\ ConnectRests

\* (The read thread started before the state is reported.)
ReaderStartsFirst ==
    /\ connect = "joining" /\ read \in {"none", "ended"}
    /\ reading' = TRUE
    /\ read' = "testing"
    /\ connect' = "reporting"
    /\ UNCHANGED <<linkVars, state, holding>> /\ ConnectRests
ReportsLast ==
    /\ connect = "reporting"
    /\ SetConnectionState("Connected")
    /\ connect' = "testing"
    /\ UNCHANGED <<linkVars, readVars>> /\ ConnectRests
EarlyReader == ReaderStartsFirst \/ ReportsLast
ReportThenRead == ConnectReports \/ ReaderStarts

\* ConnectionCheckHandler(), every 15 seconds
TimerTicks ==
    /\ timerOn /\ GetConnectionState = "Disconnected" /\ connect = "waiting"
    /\ connect' = NotifyConnect(connect)
    /\ UNCHANGED <<linkVars, state, readVars>> /\ ConnectRests

ConnectSteps ==
    \/ ConnectTests \/ ConnectWaits \/ ConnectWakes \/ DialFails \/ DialSucceeds \/ ReportThenRead \/ TimerTicks

(***************************************************************************)
(* The read thread.                                                        *)
(***************************************************************************)
ReadRests == UNCHANGED <<appVars, socket, streams, losses, skips, running, timerOn, connect, workVars>>

\* The loop's test; a Receive() that answers 0 leads back here.
ReadStops ==
    /\ read = "testing" /\ ~(reading /\ running)
    /\ reading' = FALSE /\ read' = "ended"
    /\ UNCHANGED <<net, state, holding, queue>> /\ ReadRests

\* A whole message, and the tests of Enqueue()
Enqueues == ~stopping[2] /\ Len(queue) <= MaxDepth
ReadMessage ==
    /\ read = "testing" /\ reading /\ running /\ net # <<>>
    /\ net' = Tail(net)
    /\ IF Enqueues THEN read' = "pushing" /\ holding' = Head(net) ELSE UNCHANGED <<read,
                                                                                   holding>>
    /\ UNCHANGED <<reading, state, queue>> /\ ReadRests

\* A message whose signature is peeked at in part is skipped; so is one cut there,
\* and then nothing tells of the closure.
SkipMessage ==
    /\ read = "testing" /\ reading /\ running
    /\ \/ /\ net # <<>> /\ net' = Tail(net)
          /\ skips' = IF Head(net) = "config" THEN skips + 1 ELSE skips
          /\ skips' <= MaxSkips
          /\ UNCHANGED socket
       \/ socket = "cut" /\ net = <<>> /\ socket' = "dead" /\ UNCHANGED <<net, skips>>
    /\ UNCHANGED <<appVars, streams, losses, connVars, readVars, queue, workVars>>

\* Stop() came while it read: the message is dropped, and it ends.
ReadInterrupted ==
    /\ read = "testing" /\ reading /\ net # <<>> /\ ~running
    /\ net' = Tail(net)
    /\ SetConnectionState("Disconnected")
    /\ reading' = FALSE /\ read' = "ended"
    /\ UNCHANGED <<holding, queue>> /\ ReadRests

\* under the lock, which the queue's thread holds until it waits
ReadPushes ==
    /\ read = "pushing" /\ worker # "toWait"
    /\ queue' = Append(queue, holding) /\ holding' = None
    /\ read' = "testing"
    /\ worker' = IF worker = "waiting" THEN "testing" ELSE worker
    /\ UNCHANGED <<net, reading, state, appVars, socket, streams, losses, skips, running,
                   timerOn, connect, stopping, item, late>>

\* HandleData() fails inside a message.
ReadFails ==
    /\ read = "testing" /\ socket = "cut" /\ net = <<>>
    /\ SetConnectionState("Disconnected")
    /\ reading' = FALSE /\ read' = "ended"
    /\ UNCHANGED <<net, holding, queue>> /\ ReadRests

ReadSteps == ReadStops \/ ReadMessage \/ SkipMessage \/ ReadInterrupted \/ ReadPushes \/ ReadFails

(***************************************************************************)
(* The queue's thread.  It is awake with the lock from the test of the     *)
(* queue to the wait; it runs the handlers and the callbacks without.      *)
(***************************************************************************)
WorkRests == UNCHANGED <<appVars, socket, net, losses, skips, running, timerOn, connect, readVars, stopping>>

WorkerTakes ==
    /\ worker = "testing" /\ ~stopping[1] /\ queue # <<>>
    /\ item' = Head(queue) /\ queue' = Tail(queue)
    /\ worker' = "handling"
    /\ UNCHANGED <<state, streams, late>> /\ WorkRests

WorkerWaits ==
    \/ /\ worker = "testing" /\ ~stopping[1] /\ queue = <<>>
       /\ worker' = "toWait"
       /\ UNCHANGED <<queue, state, streams, item, late>> /\ WorkRests
    \/ /\ worker = "toWait"
       /\ worker' = "waiting"
       /\ UNCHANGED <<queue, state, streams, item, late>> /\ WorkRests

WorkerEnds ==
    /\ worker = "testing" /\ stopping[1]
    /\ worker' = "ended"
    /\ UNCHANGED <<queue, state, streams, item, late>> /\ WorkRests

\* HandleData(): a configuration is answered, bound or not, then a callback is
\* copied under the mutex; the copy is called after.
CopiedAlways == TRUE                    \* (a callback that cannot be unset)
Copied == bound
Handle ==
    /\ worker = "handling"
    /\ IF item = "config" /\ sendRadarData
       THEN Request(streams \cup {"fft"})
       ELSE UNCHANGED <<state, streams>>
    /\ IF Copied THEN worker' = "calling" /\ UNCHANGED item
                 ELSE worker' = "testing" /\ item' = None
    /\ UNCHANGED <<queue, late>> /\ WorkRests

\* The application's callback; the one for a configuration asks for the streams.
CallBack ==
    /\ worker = "calling"
    /\ IF item = "config"
       THEN /\ Request(Streams)
            /\ sendRadarData' = TRUE
       ELSE UNCHANGED <<state, streams, sendRadarData>>
    /\ late' = IF bound THEN late ELSE late + 1
    /\ worker' = "testing" /\ item' = None
    /\ UNCHANGED <<app, bound, starts, socket, net, losses, skips, running, timerOn,
                   connect, readVars, stopping, queue>>

WorkerSteps == WorkerTakes \/ WorkerWaits \/ WorkerEnds \/ Handle \/ CallBack

(***************************************************************************)
(* The radar.                                                              *)
(***************************************************************************)
RadarRests == UNCHANGED <<appVars, connVars, readVars, queue, workVars>>

RadarSends ==
    /\ socket = "up" /\ Len(net) < MaxNet
    /\ \E s \in streams : net' = Append(net, s)
    /\ UNCHANGED <<socket, streams, losses, skips>> /\ RadarRests

RadarCloses ==
    /\ socket = "up" /\ losses < MaxLosses
    /\ socket' \in {"dead", "cut"}
    /\ net' \in {net, <<>>}
    /\ streams' = {}
    /\ losses' = losses + 1 /\ UNCHANGED skips
    /\ RadarRests

Next == AppSteps \/ ConnectSteps \/ ReadSteps \/ WorkerSteps \/ RadarSends \/ RadarCloses

\* Threads are scheduled, the timer ticks, and dialling the radar succeeds
\* sooner or later; the application need not call anything.
Fairness ==
    /\ WF_vars(StartNotifies \/ StopClearsQueue \/ StopJoinsQueue \/ StopJoinsConnect \/ StopJoinsRead)
    /\ WF_vars(ConnectSteps) /\ SF_vars(DialSucceeds)
    /\ WF_vars(ReadSteps) /\ WF_vars(WorkerSteps)

Spec == Init /\ [][Next]_vars /\ Fairness

-----------------------------------------------------------------------------
Idle == {"none", "ended"}

\* In the first session a client that says it is connected has a read thread,
\* or is about to start one: TcpRadarClient's four threads agree.
ConnectedHasReader ==
    starts = 1 /\ GetConnectionState = "Connected" => read \in {"testing", "pushing"} \/ connect = "reporting"

\* A callback that main() has unset runs at most once more, and none runs, and
\* no thread is left, once Stop() has returned.
QuietAfterUnset ==
    /\ late <= 1
    /\ app = "idle" => {worker, connect, read} \subseteq Idle

\* In the first session, whenever no thread reads and no backlog waits, the radar
\* streams sooner or later what the configuration's callback asks for: the state
\* is reported before anything can be received, so that no request is dropped.
\* Four things excuse it: main() stops or unsets; the connection is lost (once
\* more), which a closure between two messages, or inside a signature, never tells;
\* its configuration is lost to a short peek, after which nothing asks; a request
\* told of a loss that the read thread has not met, and Connect() joins a thread
\* that goes on to read from the new socket.
Undisturbed == starts = 1 /\ app \in {"starting", "started"} /\ bound
JoinsLiveReader == connect = "joining" /\ read \notin Idle
StreamsWhenConnected ==
    \A n \in 0..MaxLosses, k \in 0..MaxSkips :
        Undisturbed /\ read \in Idle /\ queue = <<>> /\ losses = n /\ skips = k
            ~> \/ streams = Streams \/ losses # n \/ socket = "dead" \/ skips # k
               \/ ~Undisturbed \/ JoinsLiveReader

=============================================================================
