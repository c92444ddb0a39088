----------------------------- MODULE RadarClient -----------------------------
(***************************************************************************)
(* Radar_client (cpp_17/network/radar_client.cpp), the object of the SDK   *)
(* an application uses, over what the modules below it provide: a link     *)
(* that comes and goes (TcpRadarClient), on which the radar first sends    *)
(* its configuration, any message of which may be lost (StreamFraming), and*)
(* a bounded queue whose worker calls handle_data() for one message at a   *)
(* time and which may keep one message across a stop() (ThreadedQueue).    *)
(* Threads:                                                                *)
(*                                                                         *)
(*   app     start(), stop(), start_fft_data(), start_non_contour_...(),   *)
(*           stop_fft_data(), and set_..._callback();                      *)
(*   worker  handle_data(), and what the application's handlers call: the  *)
(*           ROS nodes ask for data from their configuration handler.      *)
(*                                                                         *)
(* A request is sent to the radar first and remembered in send_radar_data  *)
(* afterwards, so that the worker can renew it on a new link.              *)
(***************************************************************************)
EXTENDS Naturals, Sequences

CONSTANTS
    Requests,       \* what the application's own thread asks for: modes
    HandlerAsks,    \* what its configuration handler asks for: modes or "none"
    Handlers,       \* the handlers it ever sets
    MaxQueue,       \* max_queue_depth
    MaxSessions,    \* bound: calls of start() that start something
    MaxLinks        \* bound: connections

Streams == {"contour", "plain"}
Modes == Streams \cup {"off"}
AllHandlers == {"config", "rawConfig", "fft", "rawFft", "other"}

ASSUME RadarClientAssumption ==
    /\ Requests \subseteq Modes
    /\ HandlerAsks \subseteq Modes \cup {"none"}
    /\ Handlers \subseteq AllHandlers
    /\ MaxQueue \in Nat \ {0} /\ MaxSessions \in Nat /\ MaxLinks \in Nat

VARIABLES
    running,        \* the queue and the connection are started
    wanted,         \* send_radar_data
    bound,          \* the handlers that are set
    encoder,        \* encoder_size: the link whose configuration set it, 0 before
    link,           \* the number of the connection, 0 without one
    links,          \* history: connections so far
    mode,           \* what the radar streams on the link
    queue,          \* received messages
    appPc, appAsk,  \* the application's thread and the request it is about to remember
    workPc, workAsk, msg,  \* the worker, its handler's request, the message it handles
    known,          \* history: the last link whose configuration was handled
    lost,           \* history: the links whose configuration never came to the queue
    overlapped,     \* history: a request of the app overlapped one of the worker
    lateCalls,      \* history: calls of the fft handler since it was unbound
    configUnbound,  \* history: the configuration handler was unbound
    sessions        \* history: calls of start()

appVars == <<appPc, appAsk>>
workVars == <<workPc, workAsk, msg>>
linkVars == <<link, links, mode>>
history == <<known, lost, overlapped, lateCalls, configUnbound, sessions>>
vars == <<running, wanted, bound, encoder, linkVars, queue, appVars, workVars, history>>

NoMessage == [kind |-> "none", link |-> 0]
Config(l) == [kind |-> "config", link |-> l]
Fft == [kind |-> "fft", link |-> link]
Other == [kind |-> "other", link |-> link]

Init ==
    /\ running = FALSE /\ wanted = FALSE
    /\ bound = {} /\ encoder = 0
    /\ link = 0 /\ links = 0 /\ mode = "off"
    /\ queue = <<>>
    /\ appPc = "idle" /\ appAsk = "none"
    /\ workPc = "idle" /\ workAsk = "none" /\ msg = NoMessage
    /\ known = 0 /\ lost = {} /\ overlapped = FALSE /\ lateCalls = 0
    /\ configUnbound = FALSE /\ sessions = 0

\* enqueue(): dropped when the queue is full.
Received(m) == queue' = IF Len(queue) <= MaxQueue THEN Append(queue, m) ELSE queue

\* send_simple_network_message(): nothing without a connection.
Send(m) == mode' = IF link # 0 THEN m ELSE mode

RememberedAlways(m) == wanted' = TRUE

Remembered(m) == wanted' = (m \in Streams)

\* The worker is between its test of send_radar_data and the last effect of it,
\* or between the two halves of a request its handler makes.
WorkerAsking == workPc \in {"restart", "resend", "remember"}

----------------------------------------------------------------------------
(* The application's thread *)

AppFree == appPc = "idle" /\ appAsk = "none"

Start ==
    /\ AppFree /\ ~running
    /\ sessions < MaxSessions
    /\ running' = TRUE
    /\ sessions' = sessions + 1
    /\ UNCHANGED <<wanted, bound, encoder, linkVars, queue, appVars, workVars, known, lost,
                   overlapped, lateCalls, configUnbound>>

Stop ==
    /\ AppFree /\ running
    /\ appPc' = "stopQueue"
    /\ UNCHANGED <<running, wanted, bound, encoder, linkVars, queue, appAsk, workVars,
                   history>>

\* receive_data_queue.stop(): the queue is emptied, but for a message pushed late
\* (the last one received, or another), and its worker joined.
StopQueue ==
    /\ appPc = "stopQueue" /\ workPc = "idle"
    /\ \/ queue' = <<>>
       \/ queue # <<>> /\ queue' = <<queue[Len(queue)]>>
       \/ link # 0 /\ queue' \in {<<Other>>} \cup (IF mode = "off" THEN {} ELSE {<<Fft>>})
    /\ running' = FALSE
    /\ appPc' = "stopLink"
    /\ UNCHANGED <<wanted, bound, encoder, linkVars, appAsk, workVars, history>>

StopLink ==
    /\ appPc = "stopLink"
    /\ link' = 0 /\ mode' = "off"
    /\ appPc' = "idle"
    /\ UNCHANGED <<running, wanted, bound, encoder, links, queue, appAsk, workVars,
                   history>>

\* start_fft_data(), start_non_contour_fft_data() and stop_fft_data(): the message ...
AskSend ==
    /\ AppFree
    /\ \E m \in Requests :
           /\ Send(m)
           /\ appAsk' = m
    /\ overlapped' = WorkerAsking
    /\ UNCHANGED <<running, wanted, bound, encoder, link, links, queue, appPc, workVars,
                   known, lost, lateCalls, configUnbound, sessions>>

\* ... and then the flag.
AskRemember ==
    /\ appAsk # "none"
    /\ Remembered(appAsk)
    /\ appAsk' = "none"
    /\ UNCHANGED <<running, bound, encoder, linkVars, queue, appPc, workVars, history>>

\* set_..._callback(fn), before start() as the README asks.
Bind ==
    /\ AppFree /\ ~running
    /\ \E h \in Handlers \ bound :
           /\ bound' = bound \cup {h}
           /\ lateCalls' = IF h = "fft" THEN 0 ELSE lateCalls
    /\ UNCHANGED <<running, wanted, encoder, linkVars, queue, appVars, workVars, known,
                   lost, overlapped, configUnbound, sessions>>

\* set_..._callback(), at any time
Unbind ==
    /\ AppFree
    /\ \E h \in bound :
           /\ bound' = bound \ {h}
           /\ configUnbound' = (configUnbound \/ h = "config")
    /\ UNCHANGED <<running, wanted, encoder, linkVars, queue, appVars, workVars, known,
                   lost, overlapped, lateCalls, sessions>>

----------------------------------------------------------------------------
(* The connection and the radar *)

\* The configuration may be lost below, to a short peek, or to a full queue.
LinkUp ==
    /\ running /\ link = 0 /\ links < MaxLinks
    /\ link' = links + 1 /\ links' = links + 1
    /\ mode' = "off"
    /\ Received(Config(link')) \/ UNCHANGED queue
    /\ lost' = IF queue' = queue THEN lost \cup {link'} ELSE lost
    /\ UNCHANGED <<running, wanted, bound, encoder, appVars, workVars, known, overlapped,
                   lateCalls, configUnbound, sessions>>

LinkDown ==
    /\ link # 0
    /\ link' = 0 /\ mode' = "off"
    /\ UNCHANGED <<running, wanted, bound, encoder, links, queue, appVars, workVars,
                   history>>

RadarSends ==
    /\ running /\ link # 0
    /\ \/ mode # "off" /\ Received(Fft)
       \/ Received(Other)
    /\ queue' # queue
    /\ UNCHANGED <<running, wanted, bound, encoder, linkVars, appVars, workVars, history>>

----------------------------------------------------------------------------
(* The worker: handle_data() *)

UncheckedHandler(kind) == TRUE

\* The handler is copied under callback_mutex and called without it.
CopiedHandler(kind) == kind \in bound

RawHandler(kind) == CASE kind = "fft" -> "rawFft" [] kind = "config" -> "rawConfig"

\* Where a message goes after its own handler: to the raw one, if its kind has one.
AfterHandler(kind) == IF kind \in {"fft", "config"} THEN "rawTest" ELSE "idle"

MoveOn(m, pc) == workPc' = pc /\ msg' = IF pc = "idle" THEN NoMessage ELSE m

Take ==
    /\ workPc = "idle" /\ running /\ queue # <<>>
    /\ LET m == Head(queue)
       IN  MoveOn(m, IF ~CopiedHandler(m.kind) THEN AfterHandler(m.kind)
                     ELSE IF m.kind = "config" THEN "restart" ELSE "call")
    /\ queue' = Tail(queue)
    /\ overlapped' = (overlapped \/ (appAsk # "none" /\ workPc' = "restart"))
    /\ UNCHANGED <<running, wanted, bound, encoder, linkVars, appVars, workAsk, known, lost,
                   lateCalls, configUnbound, sessions>>

RenewsNothing == FALSE

\* if (send_radar_data)
Renews == wanted

RestartTest ==
    /\ workPc = "restart"
    /\ workPc' = IF Renews THEN "resend" ELSE "store"
    /\ UNCHANGED <<running, wanted, bound, encoder, linkVars, queue, appVars, workAsk, msg,
                   history>>

\* It is always start_fft_data that is sent again.
Resend ==
    /\ workPc = "resend"
    /\ Send("contour")
    /\ workPc' = "store"
    /\ UNCHANGED <<running, wanted, bound, encoder, link, links, queue, appVars, workAsk,
                   msg, history>>

StoredOnce(l) == encoder' = IF encoder = 0 THEN l ELSE encoder

Stored(l) == encoder' = l

Store ==
    /\ workPc = "store"
    /\ Stored(msg.link)
    /\ known' = msg.link
    /\ workPc' = "call"
    /\ UNCHANGED <<running, wanted, bound, linkVars, queue, appVars, workAsk, msg, lost,
                   overlapped, lateCalls, configUnbound, sessions>>

\* The handler runs; that of the configuration may ask for data.
Call ==
    /\ workPc = "call"
    /\ lateCalls' = IF msg.kind = "fft" /\ "fft" \notin bound THEN lateCalls + 1
                                                              ELSE lateCalls
    /\ \/ /\ msg.kind # "config" \/ "none" \in HandlerAsks
          /\ MoveOn(msg, AfterHandler(msg.kind))
          /\ UNCHANGED <<mode, workAsk, overlapped>>
       \/ /\ msg.kind = "config"
          /\ \E m \in HandlerAsks \ {"none"} :
                 Send(m) /\ workAsk' = m
          /\ overlapped' = (overlapped \/ appAsk # "none")
          /\ MoveOn(msg, "remember")
    /\ UNCHANGED <<running, wanted, bound, encoder, link, links, queue, appVars, known,
                   lost, configUnbound, sessions>>

HandlerRemember ==
    /\ workPc = "remember"
    /\ Remembered(workAsk)
    /\ workAsk' = "none"
    /\ workPc' = "rawTest"
    /\ UNCHANGED <<running, bound, encoder, linkVars, queue, appVars, msg, history>>

\* The raw handlers are tested and called without callback_mutex and without a
\* copy: one unbound in between is called empty, which ends the process.
RawTest ==
    /\ workPc = "rawTest"
    /\ MoveOn(msg, IF RawHandler(msg.kind) \in bound THEN "rawCall" ELSE "idle")
    /\ UNCHANGED <<running, wanted, bound, encoder, linkVars, queue, appVars, workAsk,
                   history>>

RawCall ==
    /\ workPc = "rawCall"
    /\ MoveOn(msg, "idle")
    /\ UNCHANGED <<running, wanted, bound, encoder, linkVars, queue, appVars, workAsk,
                   history>>

----------------------------------------------------------------------------
App == Start \/ Stop \/ StopQueue \/ StopLink \/ AskSend \/ AskRemember \/ Bind \/ Unbind

Environment == LinkUp \/ LinkDown \/ RadarSends

Worker ==
    \/ Take \/ RestartTest \/ Resend \/ Store \/ Call \/ HandlerRemember
    \/ RawTest \/ RawCall

Next == App \/ Environment \/ Worker

Spec == Init /\ [][Next]_vars

\* The worker is scheduled; handlers return.
FairSpec == Spec /\ WF_vars(Worker)

----------------------------------------------------------------------------
(* Properties *)

HandlingFft == workPc = "call" /\ msg.kind = "fft"

\* The angle of an azimuth is computed with the encoder size its own connection's
\* configuration gave, unless that configuration, or a later one, is yet to come.
\* In the first session of an application that keeps its configuration handler, no
\* full queue and no reconnection lets data overtake a configuration: the encoder
\* size is that of the azimuth's own connection or, if its configuration was lost,
\* of the last connection before it whose configuration was not (0, by which the
\* angle is divided, if there is none).
AngleOfOwnEncoder ==
    HandlingFft =>
        /\ msg.link <= known => encoder = msg.link
        /\ sessions = 1 /\ ~configUnbound /\ "config" \in bound =>
               /\ encoder <= msg.link /\ encoder \notin lost
               /\ \A l \in (1 .. msg.link) \ lost : l <= encoder

\* Without synchronising with the worker, set_fft_data_callback() still ends the
\* handler's calls: at most the one under way comes after it.
UnboundHandlerRests == lateCalls <= 1

\* Nobody is in the middle of a request, no configuration is due, and that of this
\* connection was handled.
Settled ==
    /\ AppFree /\ workPc = "idle"
    /\ \A i \in DOMAIN queue : queue[i].kind # "config"
    /\ link # 0 /\ link = known

\* The radar streams exactly when the client remembers that it should, unless a
\* request of the application's thread overlapped the worker's.
StreamsAsRemembered == Settled /\ ~overlapped => (wanted <=> mode # "off")

ConfigDue == \E i \in DOMAIN queue : queue[i].kind = "config" /\ queue[i].link = link

\* A stream that was asked for comes back after a reconnection: once the new
\* connection's configuration is queued, the radar is asked again.
StreamResumes ==
    (wanted /\ link # 0 /\ ConfigDue)
        ~> (mode # "off" \/ ~wanted \/ link = 0 \/ configUnbound \/ ~AppFree
            \/ "config" \notin bound)
=============================================================================
