------------------------- MODULE CSharpClient_proofs -------------------------
(***************************************************************************)
(* Theorems about CSharpClient, for every set of pool threads and any      *)
(* number of calls, sockets, failed attempts and lost connections.         *)
(***************************************************************************)
EXTENDS CSharpClient, TLAPS, SequenceTheorems, FiniteSetTheorems

USE SharpAssumption

SocketStates == {"new", "dialling", "open", "ended", "broken", "closed"}
Conn == [sock : Nat \ {0}, attached : BOOLEAN, reading : BOOLEAN,
         reader : {"start", "read", "join", "done"}]

StateType ==
    /\ required \in {"disconnected", "connected"}
    /\ current \in {"disconnected", "connecting", "connected"}
    /\ tcp \in Nat /\ client \in Nat /\ events \in Nat
    /\ sock \in Seq(SocketStates) /\ conns \in Seq(Conn)
    /\ arg \in [Threads -> Nat]

ThreadType ==
    /\ pc \in [Threads -> Places]
    /\ stale \in BOOLEAN /\ overlap \in BOOLEAN /\ doubleDrop \in BOOLEAN

TypeOK == StateType /\ ThreadType

\* What is named exists: the newest socket is the client's, a connection's socket,
\* the connection a thread works on.
RefInv ==
    /\ tcp = Len(sock) /\ tcp >= 1
    /\ \A c \in 1 .. Len(conns) : conns[c].sock <= Len(sock)
    /\ client <= Len(conns)
    /\ \A t \in Threads :
           /\ pc[t] = "dialling" => arg[t] \in 1 .. Len(sock)
           /\ pc[t] \in {"publish", "join", "joinSend"} => arg[t] \in 1 .. Len(conns)
           /\ pc[t] \in {"cut", "announce", "send", "joinSend"} => client # 0
    /\ current = "connected" => client # 0

\* While no two threads drop at once, an ASyncTcpClient is replaced only after it
\* was closed.
OneInv ==
    ~doubleDrop =>
        /\ \A t, u \in Threads : t # u => pc[t] \notin Dropping \/ pc[u] \notin Dropping
        /\ \A s \in 1 .. Len(sock) : s # tcp => sock[s] = "closed"
        /\ \A t \in Threads : pc[t] = "renew" => sock[tcp] = "closed"

Connecting == {"connect", "raise", "begin", "dialling", "test", "attach", "publish",
               "announce"}

\* While no two threads are inside TcpClient, nobody connects against the user's
\* will, and what is still connected is being dropped.
HoldInv ==
    /\ doubleDrop => overlap
    /\ ~overlap => \A t, u \in Threads : t # u => pc[t] = "idle" \/ pc[u] = "idle"
    /\ ~overlap /\ required = "disconnected" =>
           /\ \A t \in Threads : pc[t] \notin Connecting
           /\ Connected(tcp) => \E t \in Threads : pc[t] \in {"drop", "cut", "join", "close"}

Settled == events > 0 \/ (current = "connected" /\ Established)

\* While a connection is required, every attempt ends with a report and a
\* connection, or with an event that starts the next.
QuietInv ==
    ~overlap /\ ~stale /\ required = "connected" =>
        /\ \A t \in Threads : pc[t] = "publish" => conns[arg[t]].sock = tcp
        /\ \A t \in Threads : pc[t] = "announce" => Established
        /\ (\A t \in Threads : pc[t] \in {"idle", "send", "joinSend", "sent"}) => Settled
        /\ (\E t \in Threads : pc[t] = "connect") /\ Connected(tcp) => Settled

IInv == TypeOK /\ RefInv /\ OneInv /\ HoldInv /\ QuietInv

----------------------------------------------------------------------------
(* What the steps have in common *)

\* A thread that goes on moves alone, and the two histories record whether another
\* was inside TcpClient, or dropping, at that moment.
Moved(t, place) ==
    /\ pc' \in [Threads -> Places] /\ pc'[t] = place
    /\ \A u \in Threads : u # t => pc'[u] = pc[u]
    /\ overlap' \in BOOLEAN /\ doubleDrop' \in BOOLEAN
    /\ ~overlap' => /\ ~overlap
                    /\ place # "idle" => \A u \in Threads : u # t => pc[u] = "idle"
    /\ ~doubleDrop' =>
           /\ ~doubleDrop
           /\ place \in Dropping => \A u \in Threads : u # t => pc[u] \notin Dropping
    /\ doubleDrop' => doubleDrop \/ overlap'

LEMMA GoFacts ==
    ASSUME ThreadType, NEW t \in Threads, NEW place \in Places, Go(t, place)
    PROVE  Moved(t, place)
<1>1. pc' = [pc EXCEPT ![t] = place]
  BY DEF Go
<1>2. /\ overlap' \in BOOLEAN
      /\ ~overlap' => /\ ~overlap
                      /\ place # "idle" => \A u \in Threads : u # t => pc[u] = "idle"
  <2>1. overlap' = (overlap \/ (place # "idle" /\ Others(t, Places \ {"idle"})))
    BY Zenon DEF Go
  <2>2. overlap' \in BOOLEAN BY <2>1, Zenon DEF ThreadType
  <2> QED BY <2>1, <2>2 DEF Others, ThreadType
<1>3. /\ doubleDrop' \in BOOLEAN
      /\ ~doubleDrop' =>
             /\ ~doubleDrop
             /\ place \in Dropping => \A u \in Threads : u # t => pc[u] \notin Dropping
      /\ doubleDrop' => doubleDrop \/ overlap'
  <2>1. doubleDrop' = (doubleDrop \/ (place \in Dropping /\ Others(t, Dropping)))
    BY Zenon DEF Go
  <2>2. overlap' = (overlap \/ (place # "idle" /\ Others(t, Places \ {"idle"})))
    BY Zenon DEF Go
  <2>3. doubleDrop' \in BOOLEAN BY <2>1, Zenon DEF ThreadType
  <2>4. Dropping \subseteq Places \ {"idle"} /\ "idle" \notin Dropping
    BY DEF Dropping, Places
  <2>5. place \in Dropping /\ Others(t, Dropping)
           => place # "idle" /\ Others(t, Places \ {"idle"})
    BY <2>4 DEF Others
  <2> QED BY <2>1, <2>2, <2>3, <2>5, <1>2 DEF Others, ThreadType
<1> QED
  BY <1>1, <1>2, <1>3 DEF ThreadType, Moved

\* Sockets are closed for good, and none comes to be connected.
Shrinks ==
    /\ Len(sock') = Len(sock) /\ tcp' = tcp
    /\ \A s \in 1 .. Len(sock) :
           /\ sock[s] = "closed" => sock'[s] = "closed"
           /\ sock'[s] \in {"open", "ended", "broken"} =>
                  sock[s] \in {"open", "ended", "broken"}

\* Connections are never forgotten and keep their sockets.
ConnsKept ==
    /\ Len(conns) <= Len(conns')
    /\ \A c \in 1 .. Len(conns) : conns'[c].sock = conns[c].sock

\* Changing one socket, or what is known of one connection.
LEMMA OneSocket ==
    ASSUME sock \in Seq(SocketStates), NEW s \in 1 .. Len(sock), NEW x \in SocketStates
    PROVE  /\ [sock EXCEPT ![s] = x] \in Seq(SocketStates)
           /\ Len([sock EXCEPT ![s] = x]) = Len(sock)
           /\ \A i \in 1 .. Len(sock) :
                  [sock EXCEPT ![s] = x][i] = IF i = s THEN x ELSE sock[i]
BY ExceptSeq

LEMMA OneConn ==
    ASSUME conns \in Seq(Conn), NEW c \in 1 .. Len(conns), NEW v \in Conn,
           v.sock = conns[c].sock, conns' = [conns EXCEPT ![c] = v]
    PROVE  conns' \in Seq(Conn) /\ Len(conns') = Len(conns) /\ ConnsKept
<1>1. /\ conns' \in Seq(Conn) /\ Len(conns') = Len(conns) /\ Len(conns) \in Nat
      /\ \A i \in 1 .. Len(conns) : conns'[i] = IF i = c THEN v ELSE conns[i]
  BY ExceptSeq
<1> QED
  BY <1>1 DEF ConnsKept

\* Closing a socket is a change of that kind.
LEMMA ClosedFacts ==
    ASSUME StateType, NEW s \in 1 .. Len(sock), sock' = Closed(s), tcp' = tcp
    PROVE  sock' \in Seq(SocketStates) /\ Shrinks /\ sock'[s] = "closed"
<1>1. "closed" \in SocketStates BY DEF SocketStates
<1> QED
  BY <1>1, OneSocket DEF StateType, Closed, Shrinks

LEMMA Unchanging ==
    ASSUME StateType
    PROVE  /\ UNCHANGED <<sock, tcp>> => sock' \in Seq(SocketStates) /\ Shrinks
           /\ UNCHANGED conns =>
                  conns' \in Seq(Conn) /\ ConnsKept /\ Len(conns') = Len(conns)
BY DEF StateType, Shrinks, ConnsKept

\* A connection's record, cut, detached, or with its reader somewhere else.
LEMMA ConnRecord ==
    ASSUME StateType, NEW c \in 1 .. Len(conns)
    PROVE  /\ conns[c] \in Conn
           /\ [conns[c] EXCEPT !.reading = FALSE] \in Conn
           /\ [conns[c] EXCEPT !.reading = FALSE].sock = conns[c].sock
           /\ [conns[c] EXCEPT !.attached = FALSE] \in Conn
           /\ [conns[c] EXCEPT !.attached = FALSE].sock = conns[c].sock
           /\ \A r \in {"start", "read", "join", "done"} :
                  /\ [conns[c] EXCEPT !.reader = r] \in Conn
                  /\ [conns[c] EXCEPT !.reader = r].sock = conns[c].sock
                  /\ [conns[c] EXCEPT !.reader = r, !.reading = FALSE] \in Conn
                  /\ [conns[c] EXCEPT !.reader = r, !.reading = FALSE].sock = conns[c].sock
                  /\ [conns[c] EXCEPT !.reader = r, !.attached = FALSE] \in Conn
                  /\ [conns[c] EXCEPT !.reader = r, !.attached = FALSE].sock = conns[c].sock
<1>1. conns[c] \in Conn BY ElementOfSeq DEF StateType
<1> QED BY <1>1 DEF Conn

LEMMA CutFacts ==
    ASSUME StateType, RefInv, NEW c \in 1 .. Len(conns), CutConnection(c), tcp' = tcp
    PROVE  /\ conns' \in Seq(Conn) /\ Len(conns') = Len(conns) /\ ConnsKept
           /\ sock' \in Seq(SocketStates) /\ Shrinks
<1>1. conns' = [conns EXCEPT ![c] = [conns[c] EXCEPT !.reading = FALSE]]
  BY DEF CutConnection
<1>2. /\ conns[c] \in Conn /\ [conns[c] EXCEPT !.reading = FALSE] \in Conn
      /\ [conns[c] EXCEPT !.reading = FALSE].sock = conns[c].sock
  BY ConnRecord, Zenon
<1>3. conns[c].sock \in 1 .. Len(sock)
  BY SMTT(90), <1>2 DEF RefInv, Conn, StateType
<1>4. sock' \in Seq(SocketStates) /\ Shrinks
  BY <1>3, ClosedFacts, Unchanging DEF CutConnection
<1> QED
  BY <1>1, <1>2, <1>4, OneConn DEF StateType

LEMMA DetachedFacts ==
    ASSUME StateType, NEW c \in 1 .. Len(conns), conns' = Detached(c)
    PROVE  conns' \in Seq(Conn) /\ Len(conns') = Len(conns) /\ ConnsKept
<1>1. conns' = [conns EXCEPT ![c] = [conns[c] EXCEPT !.attached = FALSE]]
  BY DEF Detached
<1>2. /\ [conns[c] EXCEPT !.attached = FALSE] \in Conn
      /\ [conns[c] EXCEPT !.attached = FALSE].sock = conns[c].sock
  BY ConnRecord, Zenon
<1> QED
  BY <1>1, <1>2, OneConn DEF StateType

LEMMA ReaderFacts ==
    ASSUME StateType, RefInv, NEW c \in DOMAIN conns, Reader(c)
    PROVE  /\ conns' \in Seq(Conn) /\ Len(conns') = Len(conns) /\ ConnsKept
           /\ sock' \in Seq(SocketStates) /\ Shrinks
<1>c. c \in 1 .. Len(conns) BY DEF StateType
<1>r. /\ conns[c] \in Conn
      /\ \A r \in {"start", "read", "join", "done"} :
             /\ [conns[c] EXCEPT !.reader = r].sock = conns[c].sock
             /\ [conns[c] EXCEPT !.reader = r, !.reading = FALSE].sock = conns[c].sock
             /\ [conns[c] EXCEPT !.reader = r, !.attached = FALSE].sock = conns[c].sock
  BY <1>c, ConnRecord, ZenonT(90)
<1>1. CASE ReaderStart(c) \/ ReaderEnds(c)
  <2>1. PICK r \in {"read", "done"} :
            conns' = [conns EXCEPT ![c] = [conns[c] EXCEPT !.reader = r]]
    BY <1>1 DEF ReaderStart, ReaderEnds, Reads
  <2>2. UNCHANGED <<sock, tcp>> BY <1>1 DEF ReaderStart, ReaderEnds
  <2> QED BY <1>c, <1>r, <2>1, <2>2, ConnRecord, OneConn, Unchanging, Zenon DEF StateType
<1>2. CASE ReaderFails(c)
  <2>1. conns' = [conns EXCEPT ![c] = [conns[c] EXCEPT !.reader = "join", !.reading = FALSE]]
    BY <1>2 DEF ReaderFails
  <2>2. conns[c].sock \in 1 .. Len(sock)
    BY SMTT(90), <1>c, <1>r DEF RefInv, Conn, StateType
  <2>3. sock' \in Seq(SocketStates) /\ Shrinks
    BY <1>2, <2>2, ClosedFacts, Unchanging DEF ReaderFails
  <2> QED BY <1>c, <1>r, <2>1, <2>3, ConnRecord, OneConn, Zenon DEF StateType
<1>3. CASE ReaderDetaches(c)
  <2>1. conns' = [conns EXCEPT ![c] = [conns[c] EXCEPT !.reader = "done", !.attached = FALSE]]
    BY <1>3 DEF ReaderDetaches
  <2>2. UNCHANGED <<sock, tcp>> BY <1>3 DEF ReaderDetaches
  <2> QED BY <1>c, <1>r, <2>1, <2>2, ConnRecord, OneConn, Unchanging, Zenon DEF StateType
<1> QED BY <1>1, <1>2, <1>3 DEF Reader

----------------------------------------------------------------------------
(* What a step does to the sockets and the connections *)

\* Sockets are added at the end, where the client's is; a new connection is on
\* the client's socket; and nothing is connected but by a dial or a new socket.
NetFacts ==
    /\ sock' \in Seq(SocketStates) /\ conns' \in Seq(Conn)
    /\ tcp' = Len(sock') /\ Len(sock) <= Len(sock')
    /\ ConnsKept
    /\ \A c \in 1 .. Len(conns') : c > Len(conns) => conns'[c].sock = tcp
    /\ \/ Shrinks
       \/ \E t \in Threads : Dialled(t) \/ Renew(t)

Calm == UNCHANGED <<sock, conns, tcp>>

LEMMA CalmFacts ==
    ASSUME StateType, RefInv, Calm
    PROVE  NetFacts
BY Unchanging DEF Calm, NetFacts, StateType, RefInv

\* The sockets shrink, the connections keep their number.
LEMMA ShrinkFacts ==
    ASSUME StateType, RefInv, sock' \in Seq(SocketStates), Shrinks,
           conns' \in Seq(Conn), ConnsKept, Len(conns') = Len(conns)
    PROVE  NetFacts
BY DEF NetFacts, StateType, RefInv, Shrinks

LEMMA ConnectNet ==
    ASSUME StateType, RefInv, NEW t \in Threads, Connect(t)
    PROVE  NetFacts
<1>t. tcp \in 1 .. Len(sock) /\ (pc[t] = "dialling" => arg[t] \in 1 .. Len(sock))
  BY DEF RefInv, StateType
<1>s. {"dialling", "open", "closed"} \subseteq SocketStates BY DEF SocketStates
<1>1. CASE TestConnected(t) \/ RaiseConnecting(t) \/ DialCut(t) \/ TestDialled(t)
           \/ Publish(t) \/ Announce(t)
  <2>1. Calm
    BY <1>1 DEF TestConnected, RaiseConnecting, DialCut, TestDialled, Publish, Announce,
                Calm, net
  <2> QED BY <2>1, CalmFacts
<1>2. CASE Begin(t)
  <2>1. CASE sock[tcp] # "new"
    BY <1>2, <2>1, CalmFacts DEF Begin, Calm
  <2>2. CASE sock[tcp] = "new"
    <3>1. sock' = [sock EXCEPT ![tcp] = "dialling"] /\ UNCHANGED <<conns, tcp>>
      BY <1>2, <2>2 DEF Begin
    <3>2. sock' \in Seq(SocketStates) /\ Shrinks
      BY <1>t, <1>s, <2>2, <3>1, OneSocket DEF Shrinks, StateType
    <3> QED BY <3>1, <3>2, ShrinkFacts, Unchanging
  <2> QED BY <2>1, <2>2
<1>3. CASE Dialled(t)
  <2>1. sock' = [sock EXCEPT ![arg[t]] = "open"] /\ UNCHANGED <<conns, tcp>>
        /\ arg[t] \in 1 .. Len(sock)
    BY <1>3, <1>t DEF Dialled
  <2>2. sock' \in Seq(SocketStates) /\ Len(sock') = Len(sock)
    BY <1>s, <2>1, OneSocket DEF StateType
  <2> QED BY <1>3, <2>1, <2>2, Unchanging DEF NetFacts, StateType, RefInv
<1>4. CASE DialFails(t)
  <2>1. sock' = Closed(arg[t]) /\ UNCHANGED <<conns, tcp>> /\ arg[t] \in 1 .. Len(sock)
    BY <1>4, <1>t DEF DialFails, Closed
  <2> QED BY <2>1, ClosedFacts, ShrinkFacts, Unchanging
<1>5. CASE Attach(t)
  <2>1. UNCHANGED <<sock, tcp>> BY <1>5 DEF Attach
  <2>2. CASE ~Connected(tcp)
    BY <1>5, <2>2, CalmFacts DEF Attach, Calm
  <2>3. CASE Connected(tcp)
    <3> DEFINE c == [sock |-> tcp, attached |-> TRUE, reading |-> TRUE, reader |-> "start"]
    <3>1. conns' = Append(conns, c) BY <1>5, <2>3 DEF Attach
    <3>2. c \in Conn /\ c.sock = tcp BY <1>t DEF Conn, StateType
    <3> HIDE DEF c
    <3>3. /\ conns' \in Seq(Conn) /\ Len(conns') = Len(conns) + 1 /\ Len(conns) \in Nat
          /\ conns'[Len(conns) + 1] = c
          /\ \A i \in 1 .. Len(conns) : conns'[i] = conns[i]
      BY <3>1, <3>2, AppendProperties DEF StateType
    <3>4. ConnsKept /\ \A i \in 1 .. Len(conns') : i > Len(conns) => conns'[i].sock = tcp
      BY <3>2, <3>3 DEF ConnsKept
    <3> QED BY <2>1, <3>3, <3>4, Unchanging DEF NetFacts, RefInv, StateType
  <2> QED BY <2>2, <2>3
<1> QED BY <1>1, <1>2, <1>3, <1>4, <1>5 DEF Connect

LEMMA DisconnectNet ==
    ASSUME StateType, RefInv, NEW t \in Threads, Disconnect(t)
    PROVE  NetFacts
<1>1. CASE TestClient(t)
  BY <1>1, CalmFacts DEF TestClient, Calm, net
<1>2. CASE Cut(t)
  <2>1. client \in 1 .. Len(conns) /\ CutConnection(client) /\ UNCHANGED tcp
    BY <1>2 DEF Cut, RefInv, StateType
  <2> QED BY <2>1, CutFacts, ShrinkFacts
<1>3. CASE Join(t)
  <2>1. arg[t] \in 1 .. Len(conns) /\ conns' = Detached(arg[t]) /\ UNCHANGED <<sock, tcp>>
    BY <1>3 DEF Join, RefInv, StateType
  <2> QED BY <2>1, DetachedFacts, ShrinkFacts, Unchanging
<1>4. CASE Close(t)
  <2>1. tcp \in 1 .. Len(sock) /\ sock' = Closed(tcp) /\ UNCHANGED <<conns, tcp>>
    BY <1>4 DEF Close, ClosedClient, RefInv, StateType
  <2> QED BY <2>1, ClosedFacts, ShrinkFacts, Unchanging
<1>5. CASE Renew(t)
  <2>1. sock' = Append(sock, "new") /\ tcp' = Len(sock) + 1 /\ UNCHANGED conns
    BY <1>5 DEF Renew, Fresh
  <2>2. "new" \in SocketStates BY DEF SocketStates
  <2>3. sock' \in Seq(SocketStates) /\ Len(sock') = Len(sock) + 1 /\ Len(sock) \in Nat
    BY <2>1, <2>2, AppendProperties DEF StateType
  <2> QED BY <1>5, <2>1, <2>3, Unchanging DEF NetFacts, StateType
<1> QED BY <1>1, <1>2, <1>3, <1>4, <1>5 DEF Disconnect

LEMMA SendNet ==
    ASSUME StateType, RefInv, SendData
    PROVE  NetFacts
<1>u. User \in Threads BY DEF Threads
<1>1. CASE SendNothing \/ Sent
  BY <1>1, CalmFacts DEF SendNothing, Sent, Calm, net
<1>2. CASE Send
  <2>1. client \in 1 .. Len(conns) BY <1>2, <1>u DEF Send, RefInv, StateType
  <2> DEFINE s == conns[client].sock
  <2>c. conns[client] \in Conn BY <2>1, ConnRecord, Zenon
  <2>2. s \in 1 .. Len(sock) BY <2>1, <2>c DEF RefInv, Conn, StateType
  <2>3. /\ UNCHANGED <<conns, tcp>> /\ sock[s] \in {"open", "ended"}
        /\ sock' = IF sock[s] = "ended" THEN [sock EXCEPT ![s] = "broken"] ELSE sock
    BY <1>2 DEF Send
  <2> HIDE DEF s
  <2>4. CASE sock[s] = "ended"
    <3>1. sock' = [sock EXCEPT ![s] = "broken"] /\ "broken" \in SocketStates
      BY <2>3, <2>4 DEF SocketStates
    <3>2. sock' \in Seq(SocketStates) /\ Shrinks
      BY <2>2, <2>3, <2>4, <3>1, OneSocket DEF Shrinks, StateType
    <3> QED BY <2>3, <3>2, ShrinkFacts, Unchanging
  <2>5. CASE sock[s] # "ended"
    BY <2>3, <2>5, CalmFacts DEF Calm
  <2> QED BY <2>4, <2>5
<1>3. CASE SendFails
  <2>1. client \in 1 .. Len(conns) /\ CutConnection(client) /\ UNCHANGED tcp
    BY <1>3, <1>u DEF SendFails, RefInv, StateType
  <2> QED BY <2>1, CutFacts, ShrinkFacts
<1>4. CASE JoinSend
  <2>1. arg[User] \in 1 .. Len(conns) /\ conns' = Detached(arg[User]) /\ UNCHANGED <<sock, tcp>>
    BY <1>4, <1>u DEF JoinSend, RefInv, StateType
  <2> QED BY <2>1, DetachedFacts, ShrinkFacts, Unchanging
<1> QED BY <1>1, <1>2, <1>3, <1>4 DEF SendData

LEMMA LoseNet ==
    ASSUME StateType, RefInv, NEW s \in DOMAIN sock, Lose(s)
    PROVE  NetFacts
<1>1. PICK fate \in {"ended", "broken"} : sock' = [sock EXCEPT ![s] = fate]
  BY DEF Lose
<1>2. s \in 1 .. Len(sock) /\ fate \in SocketStates /\ sock[s] = "open"
      /\ UNCHANGED <<conns, tcp>>
  BY DEF Lose, StateType, SocketStates
<1>3. sock' \in Seq(SocketStates) /\ Shrinks
  BY SMTT(90), <1>1, <1>2, OneSocket DEF Shrinks, StateType
<1> QED BY <1>2, <1>3, ShrinkFacts, Unchanging

LEMMA NetStep ==
    ASSUME StateType, RefInv, Next
    PROVE  NetFacts
<1>1. CASE UserConnect \/ UserDisconnect \/ UserSend \/ \E t \in PoolThreads : HandleEvent(t)
  BY <1>1, CalmFacts DEF UserConnect, UserDisconnect, UserSend, HandleEvent, Calm, net
<1>2. ASSUME NEW c \in DOMAIN conns, Reader(c) PROVE NetFacts
  <2>1. UNCHANGED tcp
    BY <1>2 DEF Reader, ReaderStart, ReaderEnds, ReaderFails, ReaderDetaches
  <2> QED BY <1>2, <2>1, ReaderFacts, ShrinkFacts
<1> QED
  BY <1>1, <1>2, SendNet, ConnectNet, DisconnectNet, LoseNet DEF Next

----------------------------------------------------------------------------
(* Where the threads are *)

\* The places a step of each action may take its thread to.
LEMMA ConnectMoves ==
    ASSUME ThreadType, NEW t \in Threads
    PROVE  /\ TestConnected(t) => \/ Connected(tcp) /\ Moved(t, "idle")
                                  \/ ~Connected(tcp) /\ Moved(t, "raise")
           /\ RaiseConnecting(t) => Moved(t, "begin")
           /\ Begin(t) => \/ sock[tcp] = "new" /\ Moved(t, "dialling")
                          \/ sock[tcp] # "new" /\ Moved(t, "drop")
           /\ Dialled(t) => Moved(t, "test")
           /\ DialFails(t) \/ DialCut(t) => Moved(t, "drop")
           /\ TestDialled(t) \/ Attach(t) =>
                  \/ Connected(tcp) /\ TestDialled(t) /\ Moved(t, "attach")
                  \/ Connected(tcp) /\ Attach(t) /\ Moved(t, "publish")
                  \/ ~Connected(tcp) /\ Moved(t, "drop")
           /\ Publish(t) => Moved(t, "announce")
           /\ Announce(t) => Moved(t, "idle")
<1>p. Places = Dropping \cup {"idle", "connect", "raise", "begin", "dialling", "test",
                              "attach", "publish", "announce", "send", "joinSend", "sent"}
      /\ Dropping = {"drop", "cut", "join", "close", "renew"}
  BY DEF Places, Dropping
<1>g. \A place \in Places : Go(t, place) => Moved(t, place)
  BY GoFacts
<1>1. TestConnected(t) => \/ Connected(tcp) /\ Go(t, "idle")
                          \/ ~Connected(tcp) /\ Go(t, "raise")
  BY DEF TestConnected
<1>2. Begin(t) => \/ sock[tcp] = "new" /\ Go(t, "dialling")
                  \/ sock[tcp] # "new" /\ Go(t, "drop")
  BY DEF Begin
<1>3. TestDialled(t) \/ Attach(t) =>
          \/ Connected(tcp) /\ TestDialled(t) /\ Go(t, "attach")
          \/ Connected(tcp) /\ Attach(t) /\ Go(t, "publish")
          \/ ~Connected(tcp) /\ Go(t, "drop")
  BY DEF TestDialled, Attach
<1>4. /\ RaiseConnecting(t) => Go(t, "begin")
      /\ Dialled(t) => Go(t, "test")
      /\ DialFails(t) \/ DialCut(t) => Go(t, "drop")
      /\ Publish(t) => Go(t, "announce")
      /\ Announce(t) => Go(t, "idle")
  BY DEF RaiseConnecting, Dialled, DialFails, DialCut, Publish, Announce
<1> QED
  BY <1>p, <1>g, <1>1, <1>2, <1>3, <1>4

LEMMA DisconnectMoves ==
    ASSUME ThreadType, NEW t \in Threads
    PROVE  /\ TestClient(t) => \/ client = 0 /\ Moved(t, "close")
                               \/ client # 0 /\ Moved(t, "cut")
           /\ Cut(t) => Moved(t, "join")
           /\ Join(t) => Moved(t, "close")
           /\ Close(t) => Moved(t, "renew")
           /\ Renew(t) => Moved(t, "idle")
           /\ HandleEvent(t) => \/ Wanted /\ Moved(t, "connect")
                                \/ ~Wanted /\ Moved(t, "idle")
<1>p. {"drop", "cut", "join", "close", "renew", "idle", "connect"} \subseteq Places
  BY DEF Places, Dropping
<1>g. \A place \in Places : Go(t, place) => Moved(t, place)
  BY GoFacts
<1>1. TestClient(t) => \/ client = 0 /\ Go(t, "close")
                       \/ client # 0 /\ Go(t, "cut")
  BY DEF TestClient
<1>2. HandleEvent(t) => \/ Wanted /\ Go(t, "connect")
                        \/ ~Wanted /\ Go(t, "idle")
  BY DEF HandleEvent
<1>3. /\ Cut(t) => Go(t, "join")
      /\ Join(t) => Go(t, "close")
      /\ Close(t) => Go(t, "renew")
      /\ Renew(t) => Go(t, "idle")
  BY DEF Cut, Join, Close, Renew
<1> QED
  BY <1>p, <1>g, <1>1, <1>2, <1>3

LEMMA UserMoves ==
    ASSUME ThreadType
    PROVE  /\ User \in Threads
           /\ UserConnect => Moved(User, "connect")
           /\ UserDisconnect => Moved(User, "drop")
           /\ UserSend => Moved(User, "send")
           /\ SendNothing \/ Send \/ JoinSend => Moved(User, "sent")
           /\ SendFails => Moved(User, "joinSend")
           /\ Sent => \/ Connected(tcp) /\ Moved(User, "idle")
                      \/ ~Connected(tcp) /\ Moved(User, "drop")
<1>p. {"connect", "drop", "send", "sent", "joinSend", "idle"} \subseteq Places
  BY DEF Places, Dropping
<1>u. User \in Threads BY DEF Threads
<1>g. \A place \in Places : Go(User, place) => Moved(User, place)
  BY <1>u, GoFacts
<1>1. Sent => \/ Connected(tcp) /\ Go(User, "idle")
              \/ ~Connected(tcp) /\ Go(User, "drop")
  BY DEF Sent
<1>2. /\ UserConnect => Go(User, "connect")
      /\ UserDisconnect => Go(User, "drop")
      /\ UserSend => Go(User, "send")
      /\ SendFails => Go(User, "joinSend")
      /\ SendNothing \/ Send \/ JoinSend => Go(User, "sent")
  BY DEF UserConnect, UserDisconnect, UserSend, SendFails, SendNothing, Send, JoinSend
<1> QED
  BY <1>p, <1>u, <1>g, <1>1, <1>2

\* Readers and the network move no thread.
LEMMA NetworkMoves ==
    ASSUME \/ \E c \in DOMAIN conns : Reader(c)
           \/ \E s \in DOMAIN sock : Lose(s)
    PROVE  UNCHANGED <<states, tcp, client, events, pc, arg, stale, history>>
BY Zenon DEF Reader, ReaderStart, ReaderEnds, ReaderFails, ReaderDetaches, Lose

\* What the steps of a thread have to do with the user's wish: it begins to connect
\* when a connection is required, what it drops it closes, and it drops what is no
\* longer required.
ToClose == {"drop", "cut", "join", "close"}

Step(t, place) ==
    /\ Moved(t, place)
    /\ place = "renew" => Close(t)
    /\ place \in Connecting => pc[t] \in Connecting \/ required' = "connected"
    /\ pc[t] \in ToClose => place \in ToClose \/ Close(t)
    /\ required' \in {required, "connected"} \/ place = "drop"

Still == UNCHANGED <<required, pc, history>>

LEMMA Steps ==
    ASSUME ThreadType, Next
    PROVE  Still \/ \E t \in Threads : \E place \in Places : Step(t, place)
<1>p. /\ Places = {"drop", "cut", "join", "close", "renew", "idle", "connect", "raise",
                   "begin", "dialling", "test", "attach", "publish", "announce", "send",
                   "joinSend", "sent"}
      /\ Connecting = {"connect", "raise", "begin", "dialling", "test", "attach", "publish",
                       "announce"}
      /\ ToClose = {"drop", "cut", "join", "close"}
  BY DEF Places, Dropping, Connecting, ToClose
<1>1. ASSUME NEW t \in Threads, Connect(t) PROVE \E place \in Places : Step(t, place)
  <2>1. pc[t] \in Connecting /\ UNCHANGED required
    BY <1>1, <1>p DEF Connect, TestConnected, RaiseConnecting, Begin, Dialled, DialFails,
       DialCut, TestDialled, Attach, Publish, Announce, states
  <2>2. \E place \in Places : place \notin {"renew"} /\ Moved(t, place)
    BY <1>1, <1>p, ConnectMoves DEF Connect
  <2> QED BY <1>p, <2>1, <2>2 DEF Step
<1>2. ASSUME NEW t \in Threads, Disconnect(t) PROVE \E place \in Places : Step(t, place)
  <2>1. UNCHANGED required
    BY <1>2 DEF Disconnect, TestClient, Cut, Join, Close, Renew, states
  <2>2. CASE Renew(t)
    BY <1>p, <2>1, <2>2, DisconnectMoves DEF Renew, Step
  <2>3. CASE Close(t)
    BY <1>p, <2>1, <2>3, DisconnectMoves DEF Step
  <2>4. CASE TestClient(t) \/ Cut(t) \/ Join(t)
    <3>1. \E place \in ToClose : Moved(t, place)
      BY <1>p, <2>4, DisconnectMoves
    <3> QED BY <1>p, <2>1, <3>1 DEF Step
  <2> QED BY <1>2, <2>2, <2>3, <2>4 DEF Disconnect
<1>3. ASSUME NEW t \in Threads, HandleEvent(t) PROVE \E place \in Places : Step(t, place)
  <2>1. pc[t] = "idle" /\ UNCHANGED required BY <1>3 DEF HandleEvent
  <2>2. (Wanted /\ Moved(t, "connect")) \/ Moved(t, "idle")
    BY <1>3, DisconnectMoves
  <2> QED BY <1>p, <2>1, <2>2 DEF Step, Wanted
<1>4. CASE UserConnect
  BY <1>p, <1>4, UserMoves DEF UserConnect, Step
<1>5. CASE UserDisconnect
  BY <1>p, <1>5, UserMoves DEF UserDisconnect, Step
<1>6. ASSUME UserSend \/ SendData PROVE \E place \in Places : Step(User, place)
  <2>1. pc[User] \in {"idle", "send", "joinSend", "sent"} /\ UNCHANGED required
    BY <1>6 DEF UserSend, SendData, SendNothing, Send, SendFails, JoinSend, Sent, states
  <2>2. \E place \in {"send", "sent", "joinSend", "idle", "drop"} : Moved(User, place)
    BY <1>6, UserMoves DEF SendData
  <2> QED BY <1>p, <2>1, <2>2 DEF Step
<1> QED
  BY <1>1, <1>2, <1>3, <1>4, <1>5, <1>6, UserMoves, NetworkMoves DEF Next, Still, states, Threads

----------------------------------------------------------------------------
(* Types, and what is named exists *)

LEMMA TypeInit == Init => TypeOK
<1> SUFFICES ASSUME Init PROVE TypeOK OBVIOUS
<1>1. sock \in Seq(SocketStates) /\ conns \in Seq(Conn)
  <2>1. "new" \in SocketStates BY DEF SocketStates
  <2> QED BY <2>1 DEF Init
<1>2. pc \in [Threads -> Places] /\ arg \in [Threads -> Nat]
  BY DEF Init, Places
<1>3. stale \in BOOLEAN /\ overlap \in BOOLEAN /\ doubleDrop \in BOOLEAN
  BY Zenon DEF Init
<1> QED BY <1>1, <1>2, <1>3 DEF Init, TypeOK, StateType, ThreadType

LEMMA StateTypeStep ==
    ASSUME StateType, NetFacts, Next
    PROVE  StateType'
<1>n. tcp' \in Nat /\ sock' \in Seq(SocketStates) /\ conns' \in Seq(Conn)
  BY LenProperties DEF NetFacts
<1> DEFINE Good == /\ required' \in {"disconnected", "connected"}
                   /\ current' \in {"disconnected", "connecting", "connected"}
                   /\ client' \in Nat /\ events' \in Nat /\ arg' \in [Threads -> Nat]
<1> SUFFICES Good BY <1>n DEF StateType
<1>u. User \in Threads BY DEF Threads
<1>1. CASE UserConnect \/ UserDisconnect \/ UserSend
  BY <1>1 DEF UserConnect, UserDisconnect, UserSend, states, StateType
<1>2. CASE SendData
  BY <1>2, <1>u DEF SendData, SendNothing, Send, SendFails, JoinSend, Sent, states, StateType
<1>3. ASSUME NEW t \in Threads, Connect(t) PROVE Good
  <2>1. CASE Attach(t)
    <3>1. Len(conns) + 1 \in Nat BY LenProperties DEF StateType
    <3> QED BY <2>1, <3>1 DEF Attach, states, StateType
  <2>2. CASE ~Attach(t)
    BY SMTT(90), <1>3, <2>2
    DEF Connect, TestConnected, RaiseConnecting, Begin, Dialled, DialFails, DialCut,
        TestDialled, Publish, Announce, Reported, states, StateType
  <2> QED BY <2>1, <2>2
<1>4. ASSUME NEW t \in Threads, Disconnect(t) PROVE Good
  <2>1. CASE TestClient(t) BY <2>1 DEF TestClient, states, StateType
  <2>2. CASE Cut(t) BY <2>2 DEF Cut, Queued, states, StateType
  <2>3. CASE Join(t) BY <2>3 DEF Join, states, StateType
  <2>4. CASE Close(t) BY <2>4 DEF Close, states, StateType
  <2>5. CASE Renew(t) BY <2>5 DEF Renew, Queued, states, StateType
  <2> QED BY <1>4, <2>1, <2>2, <2>3, <2>4, <2>5 DEF Disconnect
<1>5. ASSUME NEW t \in Threads, HandleEvent(t) PROVE Good
  BY <1>5 DEF HandleEvent, StateType
<1>6. ASSUME UNCHANGED <<states, client, events, arg>> PROVE Good
  BY <1>6 DEF states, StateType
<1> QED
  BY <1>1, <1>2, <1>3, <1>4, <1>5, <1>6, NetworkMoves DEF Next, Threads

LEMMA ThreadTypeStep ==
    ASSUME ThreadType, Next
    PROVE  ThreadType'
<1>1. /\ pc' \in [Threads -> Places] /\ overlap' \in BOOLEAN /\ doubleDrop' \in BOOLEAN
  BY Steps DEF Step, Moved, Still, ThreadType, history
<1>2. stale' \in BOOLEAN
  <2>1. CASE UNCHANGED stale
    BY <2>1 DEF ThreadType
  <2>2. CASE stale' = (stale \/ Connected(tcp))
    BY <2>2, Zenon
  <2> QED
    BY <2>1, <2>2, NetworkMoves DEF Next, UserConnect, UserDisconnect, UserSend, SendData,
       SendNothing, Send, SendFails, JoinSend, Sent, Connect, TestConnected, RaiseConnecting,
       Begin, Dialled, DialFails, DialCut, TestDialled, Attach, Publish, Announce, Disconnect,
       TestClient, Cut, Join, Close, Renew, HandleEvent
<1> QED BY <1>1, <1>2 DEF ThreadType

\* What a step may do to client and current, and to the arguments of other threads,
\* for what they name to exist still.
LEMMA RefKept ==
    ASSUME StateType, RefInv, NetFacts, NEW t \in Threads,
           \A u \in Threads : u # t => pc'[u] = pc[u] /\ arg'[u] = arg[u],
           client' \in Nat /\ client' <= Len(conns') /\ (client # 0 => client' # 0),
           /\ pc'[t] = "dialling" => arg'[t] \in 1 .. Len(sock')
           /\ pc'[t] \in {"publish", "join", "joinSend"} => arg'[t] \in 1 .. Len(conns')
           /\ pc'[t] \in {"cut", "announce", "send", "joinSend"} => client' # 0,
           current' = "connected" => client' # 0
    PROVE  RefInv'
<1>1. tcp' = Len(sock') /\ tcp' >= 1 /\ Len(sock) <= Len(sock') /\ Len(conns) <= Len(conns')
      /\ Len(sock) \in Nat /\ Len(sock') \in Nat /\ Len(conns) \in Nat /\ Len(conns') \in Nat
  BY LenProperties DEF StateType, RefInv, NetFacts, ConnsKept
<1>2. ASSUME NEW c \in 1 .. Len(conns') PROVE conns'[c].sock <= Len(sock')
  <2>1. CASE c > Len(conns) BY <1>1, <2>1 DEF NetFacts, RefInv
  <2>2. CASE c <= Len(conns)
    <3>1. c \in 1 .. Len(conns) BY <1>1, <2>2
    <3>2. conns'[c].sock = conns[c].sock /\ conns[c].sock <= Len(sock)
      BY <3>1 DEF RefInv, NetFacts, ConnsKept
    <3>c. conns[c] \in Conn BY <3>1, ConnRecord, Zenon
    <3>3. conns[c].sock \in Nat BY <3>c DEF Conn
    <3> QED BY <1>1, <3>2, <3>3
  <2> QED BY <1>1, <2>1, <2>2
<1>3. ASSUME NEW u \in Threads
      PROVE  /\ pc'[u] = "dialling" => arg'[u] \in 1 .. Len(sock')
             /\ pc'[u] \in {"publish", "join", "joinSend"} => arg'[u] \in 1 .. Len(conns')
             /\ pc'[u] \in {"cut", "announce", "send", "joinSend"} => client' # 0
  <2>1. CASE u = t BY <2>1
  <2>2. CASE u # t BY <1>1, <2>2 DEF RefInv
  <2> QED BY <2>1, <2>2
<1> QED BY <1>1, <1>2, <1>3 DEF RefInv

LEMMA RefStep ==
    ASSUME TypeOK, RefInv, NetFacts, Next
    PROVE  RefInv'
<1>k. /\ StateType /\ ThreadType /\ StateType'
      /\ Len(conns) <= Len(conns') /\ Len(sock) <= Len(sock')
      /\ Len(sock) \in Nat /\ Len(sock') \in Nat /\ Len(conns) \in Nat /\ Len(conns') \in Nat
      /\ tcp \in 1 .. Len(sock) /\ client <= Len(conns')
  BY StateTypeStep, LenProperties DEF TypeOK, StateType, RefInv, NetFacts, ConnsKept
<1>a. arg \in [Threads -> Nat] /\ client \in Nat /\ client' \in Nat BY <1>k DEF StateType
<1>1. CASE UserConnect \/ UserDisconnect \/ UserSend
  <2>1. User \in Threads /\ UNCHANGED <<client, current, arg>>
        /\ (UserSend => current = "connected")
    BY <1>1, UserMoves, <1>k DEF UserConnect, UserDisconnect, UserSend, states
  <2>2. \/ Moved(User, "connect") \/ Moved(User, "drop")
        \/ Moved(User, "send") /\ current = "connected"
    BY <1>1, <1>k, <2>1, UserMoves
  <2> QED BY <1>k, <1>a, <2>1, <2>2, RefKept DEF Moved, RefInv
<1>2. CASE SendNothing \/ Send \/ Sent
  <2>1. User \in Threads /\ UNCHANGED <<client, current, arg>>
    BY <1>2, UserMoves, <1>k DEF SendNothing, Send, Sent, states
  <2>2. Moved(User, "sent") \/ Moved(User, "idle") \/ Moved(User, "drop")
    BY <1>2, <1>k, UserMoves
  <2> QED BY <1>k, <1>a, <2>1, <2>2, RefKept DEF Moved, RefInv
<1>3. CASE SendFails
  <2>1. User \in Threads /\ pc[User] = "send" /\ Moved(User, "joinSend")
        /\ UNCHANGED <<client, current>> /\ arg' = [arg EXCEPT ![User] = client]
    BY <1>3, UserMoves, <1>k DEF SendFails, states
  <2> QED BY <1>k, <1>a, <2>1, RefKept DEF Moved, RefInv
<1>4. CASE JoinSend
  <2>1. User \in Threads /\ Moved(User, "sent")
        /\ UNCHANGED <<client, current>> /\ arg' = [arg EXCEPT ![User] = 0]
    BY <1>4, UserMoves, <1>k DEF JoinSend, states
  <2> QED BY <1>k, <1>a, <2>1, RefKept DEF Moved, RefInv
<1>5. ASSUME NEW t \in Threads, TestConnected(t) \/ RaiseConnecting(t) \/ TestDialled(t)
      PROVE  RefInv'
  <2>1. UNCHANGED <<client, arg>> /\ (current' = "connected" => current = "connected")
    BY <1>5 DEF TestConnected, RaiseConnecting, TestDialled, Reported, states
  <2>2. \E place \in {"idle", "raise", "begin", "attach", "drop"} : Moved(t, place)
    BY <1>5, <1>k, ConnectMoves DEF TestDialled, Attach
  <2> QED BY <1>k, <1>a, <2>1, <2>2, RefKept DEF Moved, RefInv
<1>6. ASSUME NEW t \in Threads, Begin(t) PROVE RefInv'
  <2>1. UNCHANGED <<client, current, tcp>> BY <1>6 DEF Begin, states
  <2>2. CASE sock[tcp] = "new"
    <3>1. Moved(t, "dialling") /\ arg' = [arg EXCEPT ![t] = tcp]
      BY <1>6, <1>k, <2>2, ConnectMoves DEF Begin
    <3> QED BY SMTT(90), <1>k, <1>a, <2>1, <3>1, RefKept DEF Moved, RefInv
  <2>3. CASE sock[tcp] # "new"
    <3>1. Moved(t, "drop") /\ UNCHANGED arg
      BY <1>6, <1>k, <2>3, ConnectMoves DEF Begin
    <3> QED BY <1>k, <1>a, <2>1, <3>1, RefKept DEF Moved, RefInv
  <2> QED BY <2>2, <2>3
<1>7. ASSUME NEW t \in Threads, Dialled(t) \/ DialFails(t) \/ DialCut(t) PROVE RefInv'
  <2>1. UNCHANGED <<client, current>> /\ arg' = [arg EXCEPT ![t] = 0]
    BY <1>7 DEF Dialled, DialFails, DialCut, states
  <2>2. Moved(t, "test") \/ Moved(t, "drop")
    BY <1>7, <1>k, ConnectMoves
  <2> QED BY <1>k, <1>a, <2>1, <2>2, RefKept DEF Moved, RefInv
<1>8. ASSUME NEW t \in Threads, Attach(t) PROVE RefInv'
  <2>1. UNCHANGED <<client, current>> BY <1>8 DEF Attach, states
  <2>2. CASE Connected(tcp)
    <3>1. Moved(t, "publish")
      BY <1>8, <1>k, <2>2, ConnectMoves DEF Attach, TestDialled
    <3>2. arg' = [arg EXCEPT ![t] = Len(conns) + 1] /\ Len(conns') = Len(conns) + 1
      BY <1>8, <1>k, <2>2 DEF Attach, StateType
    <3> QED BY <1>k, <1>a, <2>1, <3>1, <3>2, RefKept DEF Moved, RefInv
  <2>3. CASE ~Connected(tcp)
    <3>1. Moved(t, "drop") /\ UNCHANGED arg
      BY <1>8, <1>k, <2>3, ConnectMoves DEF Attach
    <3> QED BY <1>k, <1>a, <2>1, <3>1, RefKept DEF Moved, RefInv
  <2> QED BY <2>2, <2>3
<1>9. ASSUME NEW t \in Threads, Publish(t) PROVE RefInv'
  <2>1. /\ Moved(t, "announce") /\ pc[t] = "publish"
        /\ client' = arg[t] /\ arg' = [arg EXCEPT ![t] = 0] /\ UNCHANGED current
    BY <1>9, <1>k, ConnectMoves DEF Publish, states
  <2>2. client' \in 1 .. Len(conns) BY <2>1 DEF RefInv
  <2> QED BY <1>k, <1>a, <2>1, <2>2, RefKept DEF Moved
<1>10. ASSUME NEW t \in Threads, Announce(t) PROVE RefInv'
  <2>1. Moved(t, "idle") /\ pc[t] = "announce" /\ UNCHANGED <<client, arg>>
    BY <1>10, <1>k, ConnectMoves DEF Announce
  <2>2. client # 0 BY <2>1 DEF RefInv
  <2> QED BY <1>k, <1>a, <2>1, <2>2, RefKept DEF Moved
<1>11. ASSUME NEW t \in Threads, TestClient(t) \/ Close(t) \/ Renew(t) \/ HandleEvent(t)
       PROVE  RefInv'
  <2>1. UNCHANGED <<client, arg>> /\ (current' = "connected" => current = "connected")
    BY <1>11 DEF TestClient, Close, Renew, HandleEvent, states
  <2>2. \/ \E place \in {"close", "renew", "idle", "connect"} : Moved(t, place)
        \/ Moved(t, "cut") /\ client # 0
    BY <1>11, <1>k, DisconnectMoves
  <2> QED BY <1>k, <1>a, <2>1, <2>2, RefKept DEF Moved, RefInv
<1>12. ASSUME NEW t \in Threads, Cut(t) PROVE RefInv'
  <2>1. /\ Moved(t, "join") /\ pc[t] = "cut"
        /\ UNCHANGED <<client, current>> /\ arg' = [arg EXCEPT ![t] = client]
    BY <1>12, <1>k, DisconnectMoves DEF Cut, states
  <2>2. client # 0 BY <2>1 DEF RefInv
  <2> QED BY <1>k, <1>a, <2>1, <2>2, RefKept DEF Moved, RefInv
<1>13. ASSUME NEW t \in Threads, Join(t) PROVE RefInv'
  <2>1. /\ Moved(t, "close")
        /\ UNCHANGED <<client, current>> /\ arg' = [arg EXCEPT ![t] = 0]
    BY <1>13, <1>k, DisconnectMoves DEF Join, states
  <2> QED BY <1>k, <1>a, <2>1, RefKept DEF Moved, RefInv
<1>14. ASSUME UNCHANGED <<states, tcp, client, events, pc, arg, stale, history>>
       PROVE  RefInv'
  <2>1. PICK t \in Threads : TRUE BY DEF Threads
  <2> QED BY <1>k, <1>a, <1>14, <2>1, RefKept DEF states, RefInv
<1> QED
  BY <1>1, <1>2, <1>3, <1>4, <1>5, <1>6, <1>7, <1>8, <1>9, <1>10, <1>11, <1>12, <1>13, <1>14,
     NetworkMoves DEF Next, SendData, Connect, Disconnect, Threads

----------------------------------------------------------------------------
(* The inductive steps about dropping *)

LEMMA OneStep ==
    ASSUME TypeOK, RefInv, OneInv, NetFacts, Next
    PROVE  OneInv'
<1>k. StateType /\ ThreadType /\ StateType' /\ tcp = Len(sock) /\ tcp \in 1 .. Len(sock)
      /\ Len(sock) \in Nat /\ tcp' = Len(sock')
  BY StateTypeStep, LenProperties DEF TypeOK, StateType, RefInv, NetFacts
<1> SUFFICES ASSUME ~doubleDrop'
    PROVE  /\ \A t, u \in Threads : t # u => pc'[t] \notin Dropping \/ pc'[u] \notin Dropping
           /\ \A s \in 1 .. Len(sock') : s # tcp' => sock'[s] = "closed"
           /\ \A t \in Threads : pc'[t] = "renew" => sock'[tcp'] = "closed"
  BY DEF OneInv
<1>m. Still \/ \E t \in Threads : \E place \in Places : Step(t, place)
  BY <1>k, Steps
<1>d. ~doubleDrop BY <1>m DEF Still, history, Step, Moved
<1>o. /\ \A t, u \in Threads : t # u => pc[t] \notin Dropping \/ pc[u] \notin Dropping
      /\ \A s \in 1 .. Len(sock) : s # tcp => sock[s] = "closed"
      /\ \A t \in Threads : pc[t] = "renew" => sock[tcp] = "closed"
  BY <1>d DEF OneInv
<1>1. \A t, u \in Threads : t # u => pc'[t] \notin Dropping \/ pc'[u] \notin Dropping
  <2>1. CASE Still BY <1>o, <2>1 DEF Still
  <2>2. ASSUME NEW t \in Threads, NEW place \in Places, Step(t, place)
        PROVE  \A v, u \in Threads : v # u => pc'[v] \notin Dropping \/ pc'[u] \notin Dropping
    BY <1>o, <2>2 DEF Step, Moved
  <2> QED BY <1>m, <2>1, <2>2
<1>2. CASE Shrinks
  <2>1. \A s \in 1 .. Len(sock') : s # tcp' => sock'[s] = "closed"
    BY <1>o, <1>2 DEF Shrinks
  <2>2. sock[tcp] = "closed" => sock'[tcp'] = "closed"
    BY <1>k, <1>2 DEF Shrinks
  <2>3. ASSUME NEW t \in Threads, Close(t) PROVE sock'[tcp'] = "closed"
    BY <1>k, <2>3, ClosedFacts DEF Close, ClosedClient
  <2>4. CASE Still BY <1>o, <2>1, <2>2, <2>4, <1>1 DEF Still
  <2>5. ASSUME NEW t \in Threads, NEW place \in Places, Step(t, place)
        PROVE  \A u \in Threads : pc'[u] = "renew" => sock'[tcp'] = "closed"
    BY <1>o, <2>2, <2>3, <2>5 DEF Step, Moved
  <2> QED BY <1>m, <1>1, <2>1, <2>4, <2>5
<1>3. ASSUME NEW t \in Threads, Dialled(t)
      PROVE  /\ \A s \in 1 .. Len(sock') : s # tcp' => sock'[s] = "closed"
             /\ \A u \in Threads : pc'[u] = "renew" => sock'[tcp'] = "closed"
  <2>1. /\ sock[arg[t]] = "dialling" /\ arg[t] \in 1 .. Len(sock)
        /\ sock' = [sock EXCEPT ![arg[t]] = "open"] /\ UNCHANGED tcp
    BY <1>3 DEF Dialled, RefInv
  <2>2. arg[t] = tcp BY <1>o, <2>1
  <2>3. Len(sock') = Len(sock) /\ \A s \in 1 .. Len(sock) : s # tcp => sock'[s] = sock[s]
    BY <1>k, <2>1, <2>2
  <2>4. \A u \in Threads : pc'[u] # "renew"
    BY <1>k, <1>o, <1>3, <2>1, <2>2, ConnectMoves DEF Moved
  <2> QED BY <1>o, <2>1, <2>3, <2>4
<1>4. ASSUME NEW t \in Threads, Renew(t)
      PROVE  /\ \A s \in 1 .. Len(sock') : s # tcp' => sock'[s] = "closed"
             /\ \A u \in Threads : pc'[u] = "renew" => sock'[tcp'] = "closed"
  <2>1. pc[t] = "renew" /\ sock' = Append(sock, "new") /\ Moved(t, "idle")
    BY <1>k, <1>4, DisconnectMoves DEF Renew
  <2>2. \A s \in 1 .. Len(sock) : sock[s] = "closed"
    BY <1>o, <2>1
  <2>3. Len(sock') = Len(sock) + 1 /\ \A s \in 1 .. Len(sock) : sock'[s] = sock[s]
    BY <1>k, <2>1, AppendProperties DEF StateType, SocketStates
  <2>4. \A u \in Threads : pc'[u] # "renew"
    BY <1>o, <2>1 DEF Moved, Dropping
  <2> QED BY <1>k, <2>2, <2>3, <2>4
<1> QED
  BY <1>1, <1>2, <1>3, <1>4 DEF NetFacts

LEMMA HoldStep ==
    ASSUME TypeOK, RefInv, HoldInv, NetFacts, Next
    PROVE  HoldInv'
<1>k. StateType /\ ThreadType /\ StateType' /\ tcp \in 1 .. Len(sock) /\ Len(sock) \in Nat
  BY StateTypeStep, LenProperties DEF TypeOK, StateType, RefInv
<1>m. Still \/ \E t \in Threads : \E place \in Places : Step(t, place)
  BY <1>k, Steps
<1>1. doubleDrop' => overlap'
  BY <1>m DEF HoldInv, Still, history, Step, Moved
<1>2. ~overlap' => ~overlap
  BY <1>m DEF Still, history, Step, Moved
<1>3. ~overlap' => \A t, u \in Threads : t # u => pc'[t] = "idle" \/ pc'[u] = "idle"
  <2>1. CASE Still BY <2>1, <1>2 DEF HoldInv, Still
  <2>2. ASSUME NEW t \in Threads, NEW place \in Places, Step(t, place), ~overlap'
        PROVE  \A v, u \in Threads : v # u => pc'[v] = "idle" \/ pc'[u] = "idle"
    BY <1>2, <2>2 DEF HoldInv, Step, Moved
  <2> QED BY <1>m, <2>1, <2>2
<1>4. ASSUME ~overlap', required' = "disconnected"
      PROVE  \A t \in Threads : pc'[t] \notin Connecting
  <2>i. "idle" \notin Connecting /\ "drop" \notin Connecting BY DEF Connecting
  <2>1. CASE Still BY <1>2, <1>4, <2>1 DEF HoldInv, Still
  <2>2. ASSUME NEW t \in Threads, NEW place \in Places, Step(t, place)
        PROVE  \A u \in Threads : pc'[u] \notin Connecting
    <3>1. CASE required = "disconnected"
      BY <1>2, <1>4, <2>2, <3>1 DEF HoldInv, Step, Moved
    <3>2. CASE required # "disconnected"
      BY <1>4, <2>i, <2>2, <3>2 DEF Step, Moved
    <3> QED BY <3>1, <3>2
  <2> QED BY <1>m, <2>1, <2>2
<1>5. ASSUME ~overlap', required' = "disconnected", sock'[tcp'] \in {"open", "ended", "broken"}
      PROVE  \E t \in Threads : pc'[t] \in ToClose
  <2>1. CASE Shrinks
    <3>1. Connected(tcp) /\ tcp' = tcp
      BY <1>k, <1>5, <2>1 DEF Shrinks, Connected
    <3>2. ASSUME NEW t \in Threads PROVE ~Close(t)
      BY <1>k, <1>5, <3>1, ClosedFacts DEF Close, ClosedClient
    <3>3. required = "disconnected" => \E u \in Threads : pc[u] \in ToClose
      BY <1>2, <1>5, <3>1 DEF HoldInv, ToClose
    <3>4. CASE Still BY <1>5, <3>3, <3>4 DEF Still
    <3>5. ASSUME NEW t \in Threads, NEW place \in Places, Step(t, place)
          PROVE  \E u \in Threads : pc'[u] \in ToClose
      <4>1. CASE required = "disconnected"
        BY <3>2, <3>3, <3>5, <4>1 DEF Step, Moved
      <4>2. CASE required # "disconnected"
        <5>1. place = "drop" BY <1>5, <3>5, <4>2 DEF Step
        <5> QED BY <3>5, <5>1 DEF Step, Moved, ToClose
      <4> QED BY <4>1, <4>2
    <3> QED BY <1>m, <3>4, <3>5
  <2>2. ASSUME NEW t \in Threads, Dialled(t) PROVE FALSE
    <3>1. pc[t] \in Connecting /\ UNCHANGED required
      BY <2>2 DEF Dialled, Connecting, states
    <3> QED BY <1>2, <1>5, <3>1 DEF HoldInv
  <2>3. ASSUME NEW t \in Threads, Renew(t) PROVE FALSE
    <3>1. sock' = Append(sock, "new") /\ tcp' = Len(sock) + 1
      BY <2>3 DEF Renew, Fresh
    <3>2. sock'[tcp'] = "new"
      BY <1>k, <3>1 DEF StateType
    <3> QED BY <1>5, <3>2
  <2> QED BY <2>1, <2>2, <2>3 DEF NetFacts
<1> QED BY <1>1, <1>3, <1>4, <1>5 DEF HoldInv, Connected, ToClose

----------------------------------------------------------------------------
(* The inductive step about what a quiet client knows *)

\* What holds of the connection the client names, or is queued, goes on to hold
\* while nobody reports, renews or publishes.
LEMMA SettledKept ==
    ASSUME StateType, RefInv, NetFacts, UNCHANGED <<current, client, tcp>>
    PROVE  /\ Established => Established'
           /\ Settled /\ UNCHANGED events => Settled'
<1>1. Established => Established'
  BY DEF Established, NetFacts, ConnsKept, StateType, RefInv
<1> QED BY <1>1 DEF Settled

\* No thread but the one that moves is inside TcpClient.
LEMMA Alone ==
    ASSUME HoldInv, NEW t \in Threads, NEW place \in Places, Moved(t, place), ~overlap',
           pc[t] # "idle" \/ place # "idle"
    PROVE  ~overlap /\ \A u \in Threads : u # t => pc[u] = "idle" /\ pc'[u] = "idle"
BY DEF HoldInv, Moved

\* ... so only its own place matters.
LEMMA QuietKept ==
    ASSUME NEW t \in Threads, \A u \in Threads : u # t => pc'[u] = "idle",
           pc'[t] = "publish" => conns'[arg'[t]].sock = tcp',
           pc'[t] = "announce" => Established',
           pc'[t] \in {"idle", "send", "joinSend", "sent"} => Settled',
           pc'[t] = "connect" /\ Connected(tcp)' => Settled'
    PROVE  QuietInv'
BY DEF QuietInv

\* The application's calls and commands
LEMMA QuietUser ==
    ASSUME TypeOK, RefInv, HoldInv, QuietInv, NetFacts,
           UserConnect \/ UserDisconnect \/ UserSend \/ SendData
    PROVE  QuietInv'
<1>k. StateType /\ ThreadType BY DEF TypeOK
<1>u. User \in Threads BY DEF Threads
<1> SUFFICES ASSUME ~overlap', ~stale', required' = "connected" PROVE QuietInv'
  BY DEF QuietInv
<1>s. UNCHANGED <<current, client, tcp, events, stale>>
  BY DEF UserConnect, UserDisconnect, UserSend, SendData, SendNothing, Send, SendFails,
     JoinSend, Sent, states
<1>p. {"connect", "send", "sent", "joinSend", "drop"} \subseteq Places
  BY DEF Places, Dropping
<1>1. CASE UserConnect
  <2>1. /\ pc[User] = "idle" /\ Moved(User, "connect") /\ UNCHANGED sock
    BY <1>k, <1>1, UserMoves DEF UserConnect, net
  <2>2. ~overlap /\ \A u \in Threads : u # User => pc[u] = "idle" /\ pc'[u] = "idle"
    BY <1>u, <1>p, <2>1, Alone
  <2>3. Connected(tcp)' => required = "connected"
    BY <1>s, <2>1, <2>2 DEF HoldInv, Connected, StateType, TypeOK
  <2>4. Connected(tcp)' => Settled'
    BY <1>k, <1>s, <2>1, <2>2, <2>3, SettledKept DEF QuietInv
  <2> QED BY <1>u, <2>1, <2>2, <2>4, QuietKept DEF Moved
<1>2. CASE UserDisconnect
  BY <1>2 DEF UserDisconnect
<1>3. CASE UserSend \/ SendData
  <2>1. /\ pc[User] \in {"idle", "send", "joinSend", "sent"} /\ UNCHANGED required
        /\ \E place \in {"send", "sent", "joinSend", "idle", "drop"} :
               Moved(User, place) /\ (pc[User] = "idle" => place = "send")
    BY <1>k, <1>3, UserMoves DEF UserSend, SendData, SendNothing, Send, SendFails, JoinSend,
       Sent, states
  <2>2. PICK place \in {"send", "sent", "joinSend", "idle", "drop"} :
            Moved(User, place) /\ (pc[User] = "idle" => place = "send")
    BY <2>1
  <2>3. place \in Places BY <1>p, <2>2 DEF Places
  <2>4. ~overlap /\ \A u \in Threads : u # User => pc[u] = "idle" /\ pc'[u] = "idle"
    BY <1>u, <2>2, <2>3, Alone
  <2>5. Settled
    BY <1>s, <2>1, <2>4 DEF QuietInv
  <2>6. Settled' BY <1>k, <1>s, <2>5, SettledKept
  <2> QED BY <1>u, <2>2, <2>4, <2>6, QuietKept DEF Moved
<1> QED BY <1>1, <1>2, <1>3

\* Connect()
LEMMA QuietConnect ==
    ASSUME TypeOK, RefInv, HoldInv, QuietInv, NetFacts, NEW t \in Threads, Connect(t)
    PROVE  QuietInv'
<1>k. StateType /\ ThreadType /\ tcp \in Nat \ {0} BY DEF TypeOK, StateType, RefInv
<1> SUFFICES ASSUME ~overlap', ~stale', required' = "connected" PROVE QuietInv'
  BY DEF QuietInv
<1>s. UNCHANGED <<required, tcp, events, stale>> /\ pc[t] \in Connecting
  BY DEF Connect, TestConnected, RaiseConnecting, Begin, Dialled, DialFails, DialCut,
     TestDialled, Attach, Publish, Announce, states, Connecting
<1>a. \A place \in Places :
          Moved(t, place) =>
              ~overlap /\ \A u \in Threads : u # t => pc[u] = "idle" /\ pc'[u] = "idle"
  BY <1>s, Alone DEF Connecting
<1>p. {"idle", "raise", "begin", "dialling", "test", "attach", "drop", "publish",
       "announce"} \subseteq Places
  BY DEF Places, Dropping
<1>1. CASE TestConnected(t)
  <2>1. pc[t] = "connect" /\ UNCHANGED <<current, client, sock>>
    BY <1>1 DEF TestConnected, states, net
  <2>2. CASE Connected(tcp) /\ Moved(t, "idle")
    <3>1. Settled BY <1>a, <1>p, <1>s, <2>1, <2>2 DEF QuietInv
    <3>2. Settled' BY <1>k, <1>s, <2>1, <3>1, SettledKept
    <3> QED BY <1>a, <1>p, <2>2, <3>2, QuietKept DEF Moved
  <2>3. CASE Moved(t, "raise")
    BY <1>a, <1>p, <2>3, QuietKept DEF Moved
  <2> QED BY <1>k, <1>1, <2>2, <2>3, ConnectMoves
<1>2. CASE RaiseConnecting(t) \/ Begin(t) \/ Dialled(t) \/ DialFails(t) \/ DialCut(t)
           \/ TestDialled(t)
  <2>1. \E place \in {"begin", "dialling", "test", "attach", "drop"} : Moved(t, place)
    BY <1>k, <1>2, ConnectMoves DEF TestDialled, Attach
  <2> QED BY <1>a, <1>p, <2>1, QuietKept DEF Moved
<1>3. CASE Attach(t)
  <2>1. CASE Moved(t, "drop")
    BY <1>a, <1>p, <2>1, QuietKept DEF Moved
  <2>2. CASE Moved(t, "publish") /\ Connected(tcp)
    <3>1. arg' = [arg EXCEPT ![t] = Len(conns) + 1] /\ Len(conns') = Len(conns) + 1
          /\ Len(conns) \in Nat /\ arg \in [Threads -> Nat]
      BY <1>k, <1>3, <2>2 DEF Attach, StateType
    <3>2. conns'[arg'[t]].sock = tcp'
      BY <1>s, <3>1 DEF NetFacts
    <3> QED BY <1>a, <1>p, <2>2, <3>2, QuietKept DEF Moved
  <2> QED BY <1>k, <1>3, <2>1, <2>2, ConnectMoves DEF Attach, TestDialled
<1>4. CASE Publish(t)
  <2>1. /\ pc[t] = "publish" /\ Moved(t, "announce") /\ client' = arg[t] /\ UNCHANGED conns
    BY <1>k, <1>4, ConnectMoves DEF Publish, net
  <2>2. conns[arg[t]].sock = tcp
    BY <1>a, <1>p, <1>s, <2>1 DEF QuietInv
  <2>3. arg[t] # 0 BY <2>1 DEF RefInv
  <2>4. Established' BY <1>s, <2>1, <2>2, <2>3 DEF Established
  <2> QED BY <1>a, <1>p, <2>1, <2>4, QuietKept DEF Moved
<1>5. CASE Announce(t)
  <2>1. /\ pc[t] = "announce" /\ Moved(t, "idle")
        /\ current' = Reported("connected") /\ UNCHANGED <<client, conns>>
    BY <1>k, <1>5, ConnectMoves DEF Announce, net
  <2>2. Established
    BY <1>a, <1>p, <1>s, <2>1 DEF QuietInv
  <2>3. Settled'
    BY <1>s, <2>1, <2>2 DEF Settled, Established, Reported
  <2> QED BY <1>a, <1>p, <2>1, <2>3, QuietKept DEF Moved
<1> QED BY <1>1, <1>2, <1>3, <1>4, <1>5 DEF Connect

\* Disconnect(), and the event it queues
LEMMA QuietDisconnect ==
    ASSUME TypeOK, RefInv, HoldInv, QuietInv, NetFacts, NEW t \in Threads,
           Disconnect(t) \/ HandleEvent(t)
    PROVE  QuietInv'
<1>k. StateType /\ ThreadType BY DEF TypeOK
<1> SUFFICES ASSUME ~overlap', ~stale', required' = "connected" PROVE QuietInv'
  BY DEF QuietInv
<1>p. {"idle", "connect", "cut", "join", "close", "renew"} \subseteq Places
  BY DEF Places, Dropping
<1>1. CASE TestClient(t) \/ Cut(t) \/ Join(t) \/ Close(t)
  <2>1. \E place \in {"cut", "join", "close", "renew"} : Moved(t, place)
    BY <1>k, <1>1, DisconnectMoves
  <2>2. \A u \in Threads : u # t => pc'[u] = "idle"
    BY <1>p, <2>1, Alone
  <2> QED BY <2>1, <2>2, QuietKept DEF Moved
<1>2. CASE Renew(t)
  <2>1. pc[t] = "renew" /\ Moved(t, "idle") /\ events' = events + 1
    BY <1>k, <1>2, DisconnectMoves DEF Renew, Queued
  <2>2. \A u \in Threads : u # t => pc'[u] = "idle"
    BY <1>p, <2>1, Alone
  <2>3. Settled' BY <1>k, <2>1 DEF Settled, StateType
  <2> QED BY <2>1, <2>2, <2>3, QuietKept DEF Moved
<1>3. CASE HandleEvent(t)
  <2>1. Wanted /\ UNCHANGED <<sock, tcp>> /\ stale' = (stale \/ Connected(tcp))
    BY <1>3 DEF HandleEvent, Wanted, net
  <2>2. Moved(t, "connect") BY <1>k, <1>3, <2>1, DisconnectMoves
  <2>3. \A u \in Threads : u # t => pc'[u] = "idle"
    BY <1>p, <2>2, Alone
  <2>4. ~Connected(tcp)' BY <2>1 DEF Connected
  <2> QED BY <2>2, <2>3, <2>4, QuietKept DEF Moved
<1> QED BY <1>1, <1>2, <1>3 DEF Disconnect

\* Readers, and lost connections
LEMMA QuietNetwork ==
    ASSUME TypeOK, RefInv, QuietInv, NetFacts,
           (\E c \in DOMAIN conns : Reader(c)) \/ (\E s \in DOMAIN sock : Lose(s))
    PROVE  QuietInv'
<1>k. StateType /\ ThreadType /\ tcp \in 1 .. Len(sock) /\ tcp' = Len(sock')
      /\ Len(sock) \in Nat
  BY LenProperties DEF TypeOK, StateType, RefInv, NetFacts
<1>1. UNCHANGED <<required, current, tcp, client, events, pc, arg, stale, overlap>>
  BY NetworkMoves DEF states, history
<1> SUFFICES ASSUME ~overlap', ~stale', required' = "connected" PROVE QuietInv'
  BY DEF QuietInv
<1>2. /\ Established => Established'
      /\ Settled => Settled'
  BY <1>k, <1>1, SettledKept
<1>3. \A t \in Threads : pc'[t] = "publish" => conns'[arg'[t]].sock = tcp'
  BY <1>1 DEF QuietInv, RefInv, NetFacts, ConnsKept
<1>4. Connected(tcp)' => Connected(tcp)
  <2>1. Shrinks
    <3>1. ASSUME NEW t \in Threads, Dialled(t) \/ Renew(t) PROVE FALSE
      BY <1>1, <3>1, <1>k, ConnectMoves, DisconnectMoves DEF Dialled, Renew, Moved
    <3> QED BY <3>1 DEF NetFacts
  <2> QED BY <1>k, <2>1 DEF Shrinks, Connected
<1> QED BY <1>1, <1>2, <1>3, <1>4 DEF QuietInv

----------------------------------------------------------------------------
(* The inductive invariant *)

LEMMA InvInit == Init => IInv
<1> SUFFICES ASSUME Init PROVE IInv OBVIOUS
<1>1. TypeOK BY TypeInit
<1>2. Len(sock) = 1 /\ Len(conns) = 0 /\ tcp = 1 /\ sock[1] = "new" BY DEF Init
<1>3. \A t \in Threads : pc[t] = "idle" BY DEF Init
<1>4. RefInv BY <1>2, <1>3 DEF Init, RefInv
<1>5. OneInv BY <1>2, <1>3 DEF OneInv, Dropping
<1>6. HoldInv BY <1>2, <1>3 DEF Init, HoldInv, Connecting, Connected
<1>7. QuietInv BY DEF Init, QuietInv
<1> QED BY <1>1, <1>4, <1>5, <1>6, <1>7 DEF IInv

LEMMA InvStep == IInv /\ [Next]_vars => IInv'
<1> SUFFICES ASSUME IInv, [Next]_vars PROVE IInv' OBVIOUS
<1>1. CASE UNCHANGED vars
  <2> USE <1>1 DEF vars, states, net, counts, history
  <2>1. TypeOK' BY DEF IInv, TypeOK, StateType, ThreadType
  <2>2. RefInv' BY DEF IInv, RefInv
  <2>3. OneInv' BY DEF IInv, OneInv
  <2>4. HoldInv' BY DEF IInv, HoldInv, Connected
  <2>5. QuietInv' BY DEF IInv, QuietInv, Settled, Established, Connected
  <2> QED BY <2>1, <2>2, <2>3, <2>4, <2>5 DEF IInv
<1>2. CASE Next
  <2>1. NetFacts BY <1>2, NetStep DEF IInv, TypeOK
  <2>2. TypeOK' BY <1>2, <2>1, StateTypeStep, ThreadTypeStep DEF IInv, TypeOK
  <2>3. RefInv' BY <1>2, <2>1, RefStep DEF IInv
  <2>4. OneInv' BY <1>2, <2>1, OneStep DEF IInv
  <2>5. HoldInv' BY <1>2, <2>1, HoldStep DEF IInv
  <2>6. QuietInv'
    BY <1>2, <2>1, QuietUser, QuietConnect, QuietDisconnect, QuietNetwork
       DEF IInv, Next, Threads
  <2> QED BY <2>2, <2>3, <2>4, <2>5, <2>6 DEF IInv
<1> QED BY <1>1, <1>2

LEMMA Invariance == Spec => []IInv
BY InvInit, InvStep, PTL DEF Spec

----------------------------------------------------------------------------
(* The theorems *)

\* The client's fields keep their types; in particular every thread is at a place
\* of TcpClient.Connect(), Disconnect() or SendData(), or outside them.
THEOREM TypeCorrect == Spec => []TypeOK
BY Invariance, PTL DEF IInv

\* However many pool threads reconnect while the application connects, disconnects
\* and sends: no socket stays connected behind the client's, unless two threads were
\* inside TcpClient.Disconnect() at once.
THEOREM OneConnectionAtMost == Spec => []OneConnection
<1>1. IInv => OneConnection
  <2> SUFFICES ASSUME IInv, ~doubleDrop
               PROVE  Cardinality({s \in DOMAIN sock : Connected(s)}) <= 1
    BY DEF OneConnection
  <2>1. {s \in DOMAIN sock : Connected(s)} \subseteq {tcp}
    BY DEF IInv, TypeOK, StateType, OneInv, Connected
  <2>2. IsFiniteSet({tcp}) /\ Cardinality({tcp}) = 1 BY FS_Singleton
  <2> QED BY <2>1, <2>2, FS_Subset
<1> QED BY <1>1, Invariance, PTL

\* After Disconnect(), once the threads have left TcpClient, nothing is connected,
\* whatever Disconnected events are still to be handled.
THEOREM DisconnectIsFinal == Spec => []DisconnectHolds
<1>1. IInv => DisconnectHolds
  <2> SUFFICES ASSUME IInv, ~overlap, required = "disconnected",
                      \A t \in Threads : pc[t] = "idle",
                      NEW s \in DOMAIN sock
               PROVE  ~Connected(s)
    BY DEF DisconnectHolds
  <2>1. ~doubleDrop BY DEF IInv, HoldInv
  <2>2. ~Connected(tcp) BY DEF IInv, HoldInv
  <2>3. s # tcp => sock[s] = "closed"
    BY <2>1 DEF IInv, OneInv, TypeOK, StateType
  <2> QED BY <2>2, <2>3 DEF Connected
<1> QED BY <1>1, Invariance, PTL

\* When the threads and the pool have finished, a client that is required to be
\* connected knows that it is, and names the connection of its socket.
THEOREM QuietClientKnows == Spec => []QuietIsConnected
<1>1. IInv => QuietIsConnected
  BY DEF IInv, QuietInv, QuietIsConnected, Quiet, Settled
<1> QED BY <1>1, Invariance, PTL
=============================================================================
