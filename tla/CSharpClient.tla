---------------------------- MODULE CSharpClient ----------------------------
(***************************************************************************)
(* The client of the C# SDK (csharp/IASDK/Networking): RadarTcpClient,     *)
(* which keeps the connection the application asked for, over TcpClient,   *)
(* which makes and drops connections, over one TcpClientConnection with a  *)
(* read thread per connection.  No lock guards any of it.  Threads:        *)
(*                                                                         *)
(*   User         the application: Connect(), Disconnect(), commands;      *)
(*   PoolThreads  run the Disconnected events that TcpClient.Disconnect()  *)
(*                queues, and reconnect while they are at it;              *)
(*   a reader per connection, which ends when its socket fails.            *)
(*                                                                         *)
(* A step is one access to a field another thread can change.  Sockets are *)
(* .NET's: Connected answers what the last operation on the socket showed, *)
(* so a peer that has gone is not noticed before a read or write fails.    *)
(* Messages are whole, and those that arrive change no state here.         *)
(***************************************************************************)
EXTENDS Naturals, Sequences, FiniteSets

CONSTANTS
    User, PoolThreads,
    MaxSockets,     \* bound: ASyncTcpClients made
    MaxCalls,       \* bound: calls of Connect() and Disconnect()
    MaxFailures,    \* bound: connection attempts that fail
    MaxLosses       \* bound: connections the radar or the network ends

Threads == {User} \cup PoolThreads

ASSUME SharpAssumption ==
    /\ User \notin PoolThreads
    /\ MaxSockets \in Nat \ {0}
    /\ MaxCalls \in Nat /\ MaxFailures \in Nat /\ MaxLosses \in Nat

VARIABLES
    required,   \* _requiredConnectionState
    current,    \* _currentConnectionState
    tcp,        \* TcpClient._tcpClient: which ASyncTcpClient
    client,     \* TcpClient._client: which connection, 0 for null
    sock,       \* the sockets of all ASyncTcpClients
    conns,      \* all TcpClientConnections
    events,     \* Disconnected events in the thread pool's queue
    pc, arg,    \* per thread: where it is, and the object it works on
    calls, failures, losses,
    stale,      \* history: a Disconnected event was handled although connected
    overlap,    \* history: two threads were inside TcpClient at once
    doubleDrop  \* history: two threads were inside Disconnect() at once

states == <<required, current>>
net == <<sock, conns>>
counts == <<calls, failures, losses>>
history == <<overlap, doubleDrop>>
vars == <<states, tcp, client, net, events, pc, arg, counts, stale, history>>

Init ==
    /\ required = "disconnected" /\ current = "disconnected"
    /\ tcp = 1 /\ client = 0
    /\ sock = <<"new">> /\ conns = <<>>
    /\ events = 0
    /\ pc = [t \in Threads |-> "idle"] /\ arg = [t \in Threads |-> 0]
    /\ calls = 0 /\ failures = 0 /\ losses = 0
    /\ stale = FALSE /\ overlap = FALSE /\ doubleDrop = FALSE

\* ASyncTcpClient.Connected
Connected(s) == sock[s] \in {"open", "ended", "broken"}

Dropping == {"drop", "cut", "join", "close", "renew"}

Places ==
    Dropping \cup {"idle", "connect", "raise", "begin", "dialling", "test", "attach",
                   "publish", "announce", "send", "joinSend", "sent"}

Others(t, places) == \E u \in Threads \ {t} : pc[u] \in places

\* Thread t goes on at a place.
Go(t, place) ==
    /\ pc' = [pc EXCEPT ![t] = place]
    /\ overlap' = \/ overlap
                  \/ place # "idle" /\ Others(t, Places \ {"idle"})
    /\ doubleDrop' = \/ doubleDrop
                     \/ place \in Dropping /\ Others(t, Dropping)

\* OnConnectionChangedHandler(): what the application no longer requires is ignored.
Reported(state) == IF required = "connected" THEN state ELSE current

----------------------------------------------------------------------------
(* TcpClient.Connect(), on the application's or a pool thread *)

UserConnect ==
    /\ pc[User] = "idle"
    /\ calls < MaxCalls /\ calls' = calls + 1
    /\ required' = "connected"
    /\ Go(User, "connect")
    /\ UNCHANGED <<current, tcp, client, net, events, arg, failures, losses, stale>>

TestConnected(t) ==
    /\ pc[t] = "connect"
    /\ Go(t, IF Connected(tcp) THEN "idle" ELSE "raise")
    /\ UNCHANGED <<states, tcp, client, net, events, arg, counts, stale>>

RaiseConnecting(t) ==
    /\ pc[t] = "raise"
    /\ current' = Reported("connecting")
    /\ Go(t, "begin")
    /\ UNCHANGED <<required, tcp, client, net, events, arg, counts, stale>>

\* A socket that was closed, or is in use, cannot be connected: an exception.
Begin(t) ==
    /\ pc[t] = "begin"
    /\ IF sock[tcp] = "new"
       THEN /\ sock' = [sock EXCEPT ![tcp] = "dialling"]
            /\ arg' = [arg EXCEPT ![t] = tcp]
            /\ Go(t, "dialling")
       ELSE Go(t, "drop") /\ UNCHANGED <<sock, arg>>
    /\ UNCHANGED <<states, tcp, client, conns, events, counts, stale>>

Dialled(t) ==
    /\ pc[t] = "dialling" /\ sock[arg[t]] = "dialling"
    /\ sock' = [sock EXCEPT ![arg[t]] = "open"]
    /\ arg' = [arg EXCEPT ![t] = 0]
    /\ Go(t, "test")
    /\ UNCHANGED <<states, tcp, client, conns, events, counts, stale>>

\* The timeout, with which a refused connection ends as well.
DialFails(t) ==
    /\ pc[t] = "dialling" /\ sock[arg[t]] = "dialling"
    /\ failures < MaxFailures /\ failures' = failures + 1
    /\ sock' = [sock EXCEPT ![arg[t]] = "closed"]
    /\ arg' = [arg EXCEPT ![t] = 0]
    /\ Go(t, "drop")
    /\ UNCHANGED <<states, tcp, client, conns, events, calls, losses, stale>>

\* Another thread closed the socket meanwhile.
DialCut(t) ==
    /\ pc[t] = "dialling" /\ sock[arg[t]] = "closed"
    /\ arg' = [arg EXCEPT ![t] = 0]
    /\ Go(t, "drop")
    /\ UNCHANGED <<states, tcp, client, net, events, counts, stale>>

TestDialled(t) ==
    /\ pc[t] = "test"
    /\ Go(t, IF Connected(tcp) THEN "attach" ELSE "drop")
    /\ UNCHANGED <<states, tcp, client, net, events, arg, counts, stale>>

\* new T { TcpClient = _tcpClient }: takes the stream and starts the reader.
Attach(t) ==
    /\ pc[t] = "attach"
    /\ IF Connected(tcp)
       THEN /\ conns' = Append(conns, [sock |-> tcp, attached |-> TRUE, reading |-> TRUE,
                                       reader |-> "start"])
            /\ arg' = [arg EXCEPT ![t] = Len(conns) + 1]
            /\ Go(t, "publish")
       ELSE Go(t, "drop") /\ UNCHANGED <<conns, arg>>
    /\ UNCHANGED <<states, tcp, client, sock, events, counts, stale>>

Publish(t) ==
    /\ pc[t] = "publish"
    /\ client' = arg[t]
    /\ arg' = [arg EXCEPT ![t] = 0]
    /\ Go(t, "announce")
    /\ UNCHANGED <<states, tcp, net, events, counts, stale>>

Announce(t) ==
    /\ pc[t] = "announce"
    /\ current' = Reported("connected")
    /\ Go(t, "idle")
    /\ UNCHANGED <<required, tcp, client, net, events, arg, counts, stale>>

----------------------------------------------------------------------------
(* TcpClient.Disconnect(), on any of the threads *)

UserDisconnect ==
    /\ pc[User] = "idle"
    /\ calls < MaxCalls /\ calls' = calls + 1
    /\ required' = "disconnected"
    /\ Go(User, "drop")
    /\ UNCHANGED <<current, tcp, client, net, events, arg, failures, losses, stale>>

TestClient(t) ==
    /\ pc[t] = "drop"
    /\ Go(t, IF client = 0 THEN "close" ELSE "cut")
    /\ UNCHANGED <<states, tcp, client, net, events, arg, counts, stale>>

Closed(s) == [sock EXCEPT ![s] = "closed"]

\* TcpClientConnection.Disconnect(), up to the join
CutConnection(c) ==
    /\ conns' = [conns EXCEPT ![c].reading = FALSE]
    /\ sock' = IF conns[c].attached THEN Closed(conns[c].sock) ELSE sock

\* ... and after it
Detached(c) == [conns EXCEPT ![c].attached = FALSE]

Cut(t) ==
    /\ pc[t] = "cut"
    /\ arg' = [arg EXCEPT ![t] = client]
    /\ CutConnection(client)
    /\ Go(t, "join")
    /\ UNCHANGED <<states, tcp, client, events, counts, stale>>

\* Join(1000) ends with the reader or after a second: in any case.
Join(t) ==
    /\ pc[t] = "join"
    /\ conns' = Detached(arg[t])
    /\ arg' = [arg EXCEPT ![t] = 0]
    /\ Go(t, "close")
    /\ UNCHANGED <<states, tcp, client, sock, events, counts, stale>>

LeftOpen(s) == sock

\* _tcpClient.Close()
ClosedClient(s) == Closed(s)

Close(t) ==
    /\ pc[t] = "close"
    /\ sock' = ClosedClient(tcp)
    /\ Go(t, "renew")
    /\ UNCHANGED <<states, tcp, client, conns, events, arg, counts, stale>>

NothingQueued(n) == n

\* ThreadPool.QueueUserWorkItem()
Queued(n) == n + 1

\* new ASyncTcpClient()
Fresh == Len(sock) + 1

Renew(t) ==
    /\ pc[t] = "renew"
    /\ Len(sock) < MaxSockets
    /\ sock' = Append(sock, "new")
    /\ tcp' = Fresh
    /\ events' = Queued(events)
    /\ Go(t, "idle")
    /\ UNCHANGED <<states, client, conns, arg, counts, stale>>

----------------------------------------------------------------------------
(* The commands: RadarTcpClient's tests, and TcpClient.SendData() *)

UserSend ==
    /\ pc[User] = "idle"
    /\ current = "connected"
    /\ Go(User, "send")
    /\ UNCHANGED <<states, tcp, client, net, events, arg, counts, stale>>

\* Commands follow the report of a connection, so there is a `client`; without a
\* stream it sends nothing.
SendNothing ==
    /\ pc[User] = "send"
    /\ ~conns[client].attached
    /\ Go(User, "sent")
    /\ UNCHANGED <<states, tcp, client, net, events, arg, counts, stale>>

\* To a peer that has closed one can write, once.
Send ==
    /\ pc[User] = "send"
    /\ conns[client].attached
    /\ LET s == conns[client].sock
       IN  /\ sock[s] \in {"open", "ended"}
           /\ sock' = IF sock[s] = "ended" THEN [sock EXCEPT ![s] = "broken"] ELSE sock
    /\ Go(User, "sent")
    /\ UNCHANGED <<states, tcp, client, conns, events, arg, counts, stale>>

SendFails ==
    /\ pc[User] = "send"
    /\ conns[client].attached
    /\ sock[conns[client].sock] \in {"broken", "closed"}
    /\ arg' = [arg EXCEPT ![User] = client]
    /\ CutConnection(client)
    /\ Go(User, "joinSend")
    /\ UNCHANGED <<states, tcp, client, events, counts, stale>>

JoinSend ==
    /\ pc[User] = "joinSend"
    /\ conns' = Detached(arg[User])
    /\ arg' = [arg EXCEPT ![User] = 0]
    /\ Go(User, "sent")
    /\ UNCHANGED <<states, tcp, client, sock, events, counts, stale>>

Sent ==
    /\ pc[User] = "sent"
    /\ Go(User, IF Connected(tcp) THEN "idle" ELSE "drop")
    /\ UNCHANGED <<states, tcp, client, net, events, arg, counts, stale>>

----------------------------------------------------------------------------
(* The Disconnected event, on a pool thread *)

WantedAnyway == TRUE
WantedIfConnected == current = "connected"

Wanted == required = "connected"

HandleEvent(t) ==
    /\ pc[t] = "idle" /\ events > 0
    /\ events' = events - 1
    /\ IF Wanted
       THEN /\ current' = "disconnected"
            /\ stale' = (stale \/ Connected(tcp))
            /\ Go(t, "connect")
       ELSE Go(t, "idle") /\ UNCHANGED <<current, stale>>
    /\ UNCHANGED <<required, tcp, client, net, arg, counts>>

----------------------------------------------------------------------------
(* ReadData(), on the reader of connection c *)

Reads(c, place) == conns' = [conns EXCEPT ![c].reader = place]

ReaderStart(c) ==
    /\ conns[c].reader = "start"
    /\ Reads(c, IF conns[c].attached THEN "read" ELSE "done")
    /\ UNCHANGED <<states, tcp, client, sock, events, pc, arg, counts, stale, history>>

ReaderEnds(c) ==
    /\ conns[c].reader = "read" /\ ~conns[c].reading
    /\ Reads(c, "done")
    /\ UNCHANGED <<states, tcp, client, sock, events, pc, arg, counts, stale, history>>

\* An exception: the stream is gone, or the socket failed.  A socket the peer
\* has closed reads nothing, for ever, and throws none.
ReaderFails(c) ==
    /\ conns[c].reader = "read"
    /\ ~conns[c].attached \/ sock[conns[c].sock] \in {"broken", "closed"}
    /\ conns' = [conns EXCEPT ![c].reader = "join", ![c].reading = FALSE]
    /\ sock' = IF conns[c].attached THEN Closed(conns[c].sock) ELSE sock
    /\ UNCHANGED <<states, tcp, client, events, pc, arg, counts, stale, history>>

\* It has waited a second for itself.
ReaderDetaches(c) ==
    /\ conns[c].reader = "join"
    /\ conns' = [conns EXCEPT ![c].reader = "done", ![c].attached = FALSE]
    /\ UNCHANGED <<states, tcp, client, sock, events, pc, arg, counts, stale, history>>

\* The radar closes the connection, or it breaks.
Lose(s) ==
    /\ sock[s] = "open"
    /\ losses < MaxLosses /\ losses' = losses + 1
    /\ \E fate \in {"ended", "broken"} : sock' = [sock EXCEPT ![s] = fate]
    /\ UNCHANGED <<states, tcp, client, conns, events, pc, arg, calls, failures, stale, history>>

----------------------------------------------------------------------------
Connect(t) ==
    \/ TestConnected(t) \/ RaiseConnecting(t) \/ Begin(t) \/ Dialled(t) \/ DialFails(t)
    \/ DialCut(t) \/ TestDialled(t) \/ Attach(t) \/ Publish(t) \/ Announce(t)

Disconnect(t) == TestClient(t) \/ Cut(t) \/ Join(t) \/ Close(t) \/ Renew(t)

SendData == SendNothing \/ Send \/ SendFails \/ JoinSend \/ Sent

Reader(c) == ReaderStart(c) \/ ReaderEnds(c) \/ ReaderFails(c) \/ ReaderDetaches(c)

Next ==
    \/ UserConnect \/ UserDisconnect \/ UserSend \/ SendData
    \/ \E t \in Threads : Connect(t) \/ Disconnect(t)
    \/ \E t \in PoolThreads : HandleEvent(t)
    \/ \E c \in DOMAIN conns : Reader(c)
    \/ \E s \in DOMAIN sock : Lose(s)

Spec == Init /\ [][Next]_vars

\* A thread that is inside a call goes on, and the pool runs what is queued;
\* nothing makes the application call.
Fairness ==
    /\ \A t \in Threads : WF_vars(Connect(t) \/ Disconnect(t))
    /\ WF_vars(SendData)
    /\ WF_vars(\E t \in PoolThreads : HandleEvent(t))

FairSpec == Spec /\ Fairness

----------------------------------------------------------------------------
(* Properties *)

Quiet == events = 0 /\ \A t \in Threads : pc[t] = "idle"

\* The connection of the current ASyncTcpClient, lost or not
Established == client # 0 /\ conns[client].sock = tcp

\* No connection is left behind open when another takes its place, unless two
\* threads were in TcpClient.Disconnect() at once.
OneConnection ==
    ~doubleDrop => Cardinality({s \in DOMAIN sock : Connected(s)}) <= 1

\* After Disconnect() nothing is connected, and the events it queued do not
\* connect again, unless a pool thread was reconnecting when it was called.
DisconnectHolds ==
    ~overlap /\ required = "disconnected" /\ (\A t \in Threads : pc[t] = "idle") =>
        \A s \in DOMAIN sock : ~Connected(s)

\* When all is quiet, a client that is required to be connected knows that it
\* is, whatever attempts failed before, unless a Disconnected event queued
\* earlier was handled later, or two threads were in TcpClient at once.
QuietIsConnected ==
    Quiet /\ required = "connected" /\ ~stale /\ ~overlap => current = "connected" /\ Established

\* The current ASyncTcpClient has, or had, a connection.
Attached == \E c \in DOMAIN conns : conns[c].sock = tcp

\* A required connection is attempted until there is one (or the bound on
\* sockets is reached): no failure, and no race between threads, makes the
\* client give up.  It says nothing of a connection that is lost unnoticed.
KeepsTrying ==
    (required = "connected" /\ ~Attached) ~>
        (Attached \/ required = "disconnected" \/ Len(sock) = MaxSockets)
=============================================================================
