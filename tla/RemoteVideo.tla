---------------------------- MODULE RemoteVideo ----------------------------
(***************************************************************************)
(* The frames of the video server on their way to one client over TCP:     *)
(* RemoteVideoProvider and its connections, NetPacketAssembler, and the    *)
(* client's VideoServerProxy, which connects again when it loses the       *)
(* server.                                                                 *)
(*                                                                         *)
(* Capture threads, one per stream, push their frames to the provider:     *)
(* each push first removes the connections that are no use any more and    *)
(* then sends the frame on all the others, both under m_MapSync.  Each     *)
(* connection has a thread of its own, which only waits for its end.       *)
(* A packet is MarkerLen bytes that tell its length, then the frame.  A    *)
(* send may take any part of it, of which the code takes no notice; TCP    *)
(* keeps the order of the bytes it took but delivers them in pieces of any *)
(* length, from which the assembler of the client rebuilds the packets.    *)
(***************************************************************************)
EXTENDS Integers, Sequences, FiniteSets

CONSTANTS
    Streams,        \* the cameras, each with its capture thread
    Conns,          \* the connections there may be at a time
    NoConn,         \* and what the client has when it has none
    MarkerLen,      \* sizeof(int)
    PayloadLen,     \* the length of a frame
    Capacity,       \* bound on the bytes in flight: the socket's buffers
    Garbage,        \* the lengths bytes that are no marker may be read as
    MaxFrames,      \* bound on the frames, of all streams, that are followed
    MaxFaults       \* bound on the failures of a behaviour

ASSUME RemoteAssumption ==
    /\ MarkerLen \in Nat \ {0} /\ PayloadLen \in Nat \ {0}
    /\ Capacity \in Nat /\ MaxFrames \in Nat /\ MaxFaults \in Nat
    /\ Garbage \subseteq Int /\ NoConn \notin Conns /\ IsFiniteSet(Streams)

VARIABLES
    server,     \* the provider: up, stopping or down
    push,       \* where each capture thread is in PushImage
    clients,    \* m_Clients
    running,    \* whether the thread of each connection runs
    working,    \* its m_bWorking
    failed,     \* its m_bErrorWhileSending
    backlog,    \* connections the system has made and nobody has accepted
    link,       \* free, up, broken, or shut by the server alone
    wire,       \* the bytes on their way to the client
    proxy,      \* where the thread of the client's proxy is
    conn,       \* the connection it has
    buf,        \* the bytes of its last receive that are still to be handled
    valid, total, data,     \* the assembler's m_StreamData
    sent,       \* the last frame of each stream sent
    delivered,  \* the last frame of each stream the client was given
    cut,        \* history of the client's connection: a packet was sent in part
    split,      \* ... and a receive ended inside a marker
    faults      \* the failures so far

serverVars == <<server, push, clients, running, working, failed, backlog>>
asmVars == <<valid, total, data, delivered>>
proxyVars == <<proxy, conn, buf>>
history == <<cut, split>>
vars == <<serverVars, asmVars, proxyVars, link, wire, sent, history, faults>>

----------------------------------------------------------------------------
PacketLen == MarkerLen + PayloadLen
Bytes == Streams \X (1..MaxFrames) \X (1..PacketLen)

\* The bytes of a packet and of the frame in it.
Packet(s, n) == [i \in 1..PacketLen |-> <<s, n, i>>]
Payload(s, n) == [i \in 1..PayloadLen |-> <<s, n, MarkerLen + i>>]
Marker(s, n) == [i \in 1..MarkerLen |-> <<s, n, i>>]

IsSentBy(S, Part(_, _), bytes) == \E s \in Streams : \E n \in 1..S[s] : bytes = Part(s, n)

TypeOK ==
    /\ server \in {"up", "stopping", "down"}
    /\ push \in [Streams -> {"idle", "delete", "send"}]
    /\ clients \subseteq Conns
    /\ running \in [Conns -> BOOLEAN]
    /\ working \in [Conns -> BOOLEAN] /\ failed \in [Conns -> BOOLEAN]
    /\ backlog \subseteq Conns
    /\ link \in [Conns -> {"free", "up", "broken", "shut"}]
    /\ wire \in [Conns -> Seq(Bytes)]
    /\ proxy \in {"starting", "connecting", "connected", "lost", "idle", "ended"}
    /\ conn \in Conns \cup {NoConn}
    /\ buf \in Seq(Bytes) /\ data \in Seq(Bytes)
    /\ valid \in BOOLEAN /\ total \in Int
    /\ sent \in [Streams -> 0..MaxFrames] /\ delivered \in [Streams -> 0..MaxFrames]
    /\ cut \in BOOLEAN /\ split \in BOOLEAN
    /\ faults \in 0..MaxFaults

Init ==
    /\ server = "up"
    /\ push = [s \in Streams |-> "idle"]
    /\ clients = {}
    /\ running = [c \in Conns |-> FALSE]
    /\ working = [c \in Conns |-> FALSE] /\ failed = [c \in Conns |-> FALSE]
    /\ backlog = {}
    /\ link = [c \in Conns |-> "free"] /\ wire = [c \in Conns |-> <<>>]
    /\ proxy = "starting" /\ conn = NoConn
    /\ buf = <<>> /\ data = <<>>
    /\ valid = FALSE /\ total = 0
    /\ sent = [s \in Streams |-> 0] /\ delivered = [s \in Streams |-> 0]
    /\ cut = FALSE /\ split = FALSE
    /\ faults = 0

----------------------------------------------------------------------------
(* The provider.                                                           *)

\* m_MapSync is kept by whoever waits for connections to end.
Locked == server = "stopping" \/ \E s \in Streams : push[s] = "delete"

CanBeDestroyed(c) == failed[c] \/ ~working[c]

\* The server's sockets of the connections in S are closed: the client may
\* still read what is on its way, if it has not left.
CloseSockets(S) ==
    /\ link' = [c \in Conns |-> IF c \notin S THEN link[c]
                                ELSE IF conn = c THEN "shut" ELSE "free"]
    /\ wire' = [c \in Conns |-> IF c \in S /\ conn # c THEN <<>> ELSE wire[c]]

\* Mistake: a connection is erased while its thread still runs.
EraseUnjoined(S) == clients' = clients \ S /\ CloseSockets(S)

\* The join of the threads of the connections in S, and their destruction.
JoinAndErase(S) ==
    /\ \A c \in S : ~running[c]
    /\ clients' = clients \ S
    /\ CloseSockets(S)

OldClients == {c \in clients : CanBeDestroyed(c)}

\* PushImage, DeleteOldClients: Stop tells the threads of the connections
\* that can be destroyed to end ...
StopOldClients(s) ==
    /\ server = "up" /\ push[s] = "idle" /\ ~Locked
    /\ push' = [push EXCEPT ![s] = IF OldClients = {} THEN "send" ELSE "delete"]
    /\ working' = [c \in Conns |-> working[c] /\ c \notin OldClients]
    /\ UNCHANGED <<server, clients, running, failed, backlog, asmVars, proxyVars,
                   link, wire, sent, history, faults>>

\* ... and waits until they have.
EraseOldClients(s) ==
    /\ push[s] = "delete"
    /\ JoinAndErase({c \in clients : ~working[c]})
    /\ push' = [push EXCEPT ![s] = "send"]
    /\ UNCHANGED <<server, running, working, failed, backlog, asmVars, proxyVars, sent,
                   history, faults>>

Frames == {f \in Streams \X (1..MaxFrames) : f[2] <= sent[f[1]]}

\* How much of a packet the buffers of a connection take (NetSocket::Send).
\* The socket does not block: nothing is an error that is silent, and any part
\* counts as success.
Takes(c) == {k \in 0..PacketLen : k = 0 \/ (link[c] = "up" /\ Len(wire[c]) + k <= Capacity)}

\* Mistake: what was taken is sent once more, in case it was lost.
SendTwice(c, packet, k) == wire[c] \o SubSeq(packet, 1, k) \o SubSeq(packet, 1, k)

\* SendData: the marker and the frame, in one call, of which k bytes are taken.
SendData(c, packet, k) == wire[c] \o SubSeq(packet, 1, k)

\* PushImage, SendImage on each connection: what a full buffer does not take of
\* a packet is lost, silently; a connection that broke costs the packet too,
\* and may be an exception or not.  After the frames that are followed the
\* buffers are full.
SendImage(s) ==
    /\ push[s] = "send" /\ ~Locked
    /\ push' = [push EXCEPT ![s] = "idle"]
    /\ IF Cardinality(Frames) < MaxFrames
       THEN /\ sent' = [sent EXCEPT ![s] = @ + 1]
            /\ \E taken \in [clients -> 0..PacketLen] :
                /\ \A c \in clients : taken[c] \in Takes(c)
                /\ wire' = [c \in Conns |-> IF c \in clients
                        THEN SendData(c, Packet(s, sent[s] + 1), taken[c]) ELSE wire[c]]
                /\ cut' = (cut \/ \E c \in clients : taken[c] \in 1..(PacketLen - 1))
       ELSE UNCHANGED <<sent, wire, cut>>
    /\ \E bad \in SUBSET {c \in clients : link[c] = "broken"} :
        failed' = [c \in Conns |-> failed[c] \/ c \in bad]
    /\ UNCHANGED <<server, clients, running, working, backlog, asmVars, proxyVars, link,
                   split, faults>>

\* NetTCPServer::ThreadFunc and OnConnectClient.  On a connection that broke
\* in the meantime setting the socket's options may throw.
Accept(c) ==
    /\ server = "up" /\ c \in backlog /\ ~Locked
    /\ backlog' = backlog \ {c}
    /\ \/ /\ clients' = clients \cup {c}
          /\ running' = [running EXCEPT ![c] = TRUE]
          /\ working' = [working EXCEPT ![c] = TRUE]
          /\ failed' = [failed EXCEPT ![c] = FALSE]
          /\ UNCHANGED <<link, wire>>
       \/ /\ link[c] = "broken"
          /\ CloseSockets({c})
          /\ UNCHANGED <<clients, running, working, failed>>
    /\ UNCHANGED <<server, push, asmVars, proxyVars, sent, history, faults>>

\* Mistake: the connection's thread goes on after the client has left.
NoShutdown(c) == link[c] = "broken" /\ UNCHANGED vars

\* The thread of a connection: nothing to read but the end of the
\* connection, at which OnPostDisconnectConnection calls ForceShutdown.
ConnectionLost(c) ==
    /\ running[c] /\ working[c]
    /\ link[c] = "broken"
    /\ working' = [working EXCEPT ![c] = FALSE]
    /\ UNCHANGED <<server, push, clients, running, failed, backlog, asmVars, proxyVars,
                   link, wire, sent, history, faults>>

\* Its loop ends.
ConnectionEnds(c) ==
    /\ running[c] /\ ~working[c]
    /\ running' = [running EXCEPT ![c] = FALSE]
    /\ UNCHANGED <<server, push, clients, working, failed, backlog, asmVars, proxyVars,
                   link, wire, sent, history, faults>>

\* Mistake: Stop waits for the connections without telling them to end.
StopServerQuietly ==
    /\ server = "up" /\ faults < MaxFaults
    /\ \A s \in Streams : push[s] = "idle"
    /\ server' = "stopping" /\ faults' = faults + 1
    /\ UNCHANGED <<push, clients, running, working, failed, backlog, asmVars, proxyVars,
                   link, wire, sent, history>>

\* BasicNetServer::Stop, after the capture has ended (UninitializeWork): the
\* thread that accepts ends, and the connections are told to.
StopServer ==
    /\ server = "up" /\ faults < MaxFaults
    /\ \A s \in Streams : push[s] = "idle"
    /\ server' = "stopping" /\ faults' = faults + 1
    /\ working' = [c \in Conns |-> working[c] /\ c \notin clients]
    /\ UNCHANGED <<push, clients, running, failed, backlog, asmVars, proxyVars, link, wire,
                   sent, history>>

\* Stop returns and the provider is destroyed, with its listening socket.
ServerStopped ==
    /\ server = "stopping"
    /\ \A c \in clients : ~running[c]
    /\ CloseSockets(clients \cup backlog)
    /\ server' = "down" /\ clients' = {} /\ backlog' = {}
    /\ UNCHANGED <<push, running, working, failed, asmVars, proxyVars, sent, history, faults>>

\* The system is started again.
StartServer ==
    /\ server = "down"
    /\ server' = "up"
    /\ UNCHANGED <<push, clients, running, working, failed, backlog, asmVars, proxyVars,
                   link, wire, sent, history, faults>>

PushImage(s) == StopOldClients(s) \/ EraseOldClients(s) \/ SendImage(s)

ConnectionThread(c) == ConnectionLost(c) \/ ConnectionEnds(c)

Provider ==
    \/ \E s \in Streams : PushImage(s)
    \/ \E c \in Conns : Accept(c) \/ ConnectionThread(c)
    \/ StopServer \/ ServerStopped \/ StartServer

----------------------------------------------------------------------------
(* The assembler: ReceiveData, one turn of its loop at a time.             *)

\* The length bytes of a marker stand for; any other bytes, read as an int,
\* are some number g, which may be negative.
MarkerValue(bytes, g) == IF IsSentBy(sent, Marker, bytes) THEN PayloadLen ELSE g

\* Mistake: another field of the header is taken for the frame's.
ReadWrongField(packet) ==
    delivered' = [s \in Streams |->
        IF packet # <<>> /\ packet[1][1] = s /\ packet[1][3] = MarkerLen + 1
        THEN packet[1][3] ELSE delivered[s]]

\* OnReceivePacket: the packet's first byte is its header, which names the
\* stream; the frame goes to that stream's filter.  A packet too small for a
\* header, or that begins with something else, is refused (ValidatePacket).
OnReceivePacket(packet) ==
    delivered' = [s \in Streams |->
        IF packet # <<>> /\ packet[1][1] = s /\ packet[1][3] = MarkerLen + 1
        THEN packet[1][2] ELSE delivered[s]]

\* The marker is complete.  Arr is cleared before its size is used: what is
\* skipped is always a whole marker, although a part of it may have come with
\* an earlier receive.  If less than that is there the size wraps round, the
\* copy of so much data throws, and the exception ends the thread.
TakeMarker ==
    /\ buf # <<>> /\ ~valid
    /\ Len(data) + Len(buf) >= MarkerLen
    /\ LET marker == data \o SubSeq(buf, 1, MarkerLen - Len(data))
       IN  \E g \in Garbage \cup {PayloadLen} : total' = MarkerValue(marker, g)
    /\ valid' = TRUE
    /\ data' = <<>>
    /\ buf' = SubSeq(buf, MarkerLen + 1, Len(buf))
    /\ proxy' = IF Len(buf) < MarkerLen THEN "ended" ELSE proxy
    /\ UNCHANGED <<serverVars, link, wire, conn, delivered, sent, history, faults>>

\* A part of the marker, or of the packet, is kept for the next receive.
KeepPart ==
    /\ buf # <<>>
    /\ Len(data) + Len(buf) < IF valid THEN total ELSE MarkerLen
    /\ data' = data \o buf
    /\ buf' = <<>>
    /\ UNCHANGED <<serverVars, link, wire, proxy, conn, valid, total, delivered,
                   sent, history, faults>>

\* The length is negative: the copy of less than nothing throws, and the
\* exception, which is no NetException, ends the thread.
RefuseLength ==
    /\ buf # <<>> /\ valid /\ total < 0
    /\ proxy' = "ended" /\ buf' = <<>>
    /\ UNCHANGED <<serverVars, asmVars, link, wire, conn, sent, history, faults>>

\* A packet of the length that was read.
Assembled == data \o SubSeq(buf, 1, total - Len(data))

\* The packet is complete, and more bytes may follow it.
CompletePacket ==
    /\ buf # <<>> /\ valid /\ total >= 0
    /\ Len(data) + Len(buf) >= total
    /\ OnReceivePacket(Assembled)
    /\ valid' = FALSE
    /\ data' = <<>>
    /\ buf' = SubSeq(buf, total - Len(data) + 1, Len(buf))
    /\ UNCHANGED <<serverVars, link, wire, proxy, conn, total, sent, history, faults>>

ReceiveData == TakeMarker \/ KeepPart \/ RefuseLength \/ CompletePacket

----------------------------------------------------------------------------
(* The client's proxy.                                                     *)

\* Mistake: what the old connection left in the assembler stays there.
KeepDataCache == UNCHANGED <<valid, total, data>>

ClearDataCache == valid' = FALSE /\ total' = 0 /\ data' = <<>>

\* The client's socket is closed: the server's thread will notice.
CloseProxySocket ==
    /\ conn' = NoConn /\ cut' = FALSE /\ split' = FALSE
    /\ link' = [c \in Conns |-> IF c # conn THEN link[c]
                                ELSE IF link[c] = "shut" THEN "free" ELSE "broken"]
    /\ wire' = [c \in Conns |-> IF c = conn THEN <<>> ELSE wire[c]]

\* Connect: the socket does not block, so that the connection is made, or
\* refused, later.  An error at once ends the thread at the start; later it
\* leaves a socket on which nothing will ever happen.
Connect ==
    /\ proxy \in {"starting", "lost"}
    /\ \/ proxy' = "connecting" /\ UNCHANGED faults
       \/ /\ faults < MaxFaults
          /\ faults' = faults + 1
          /\ proxy' = IF proxy = "starting" THEN "ended" ELSE "idle"
    /\ UNCHANGED <<serverVars, asmVars, conn, buf, link, wire, sent, history>>

\* The system makes the connection, for the server to accept.
Handshake(c) ==
    /\ proxy = "connecting" /\ server # "down" /\ link[c] = "free"
    /\ proxy' = "connected" /\ conn' = c
    /\ link' = [link EXCEPT ![c] = "up"]
    /\ backlog' = backlog \cup {c}
    /\ UNCHANGED <<server, push, clients, running, working, failed, asmVars, buf, wire, sent,
                   history, faults>>

\* There is no server: IsConnected says no.
Refused ==
    /\ proxy = "connecting" /\ server = "down"
    /\ proxy' = "lost"
    /\ ClearDataCache
    /\ UNCHANGED <<serverVars, conn, buf, delivered, link, wire, sent, history, faults>>

\* One receive, of the bytes that happen to have arrived.
Receive(k) ==
    /\ proxy = "connected" /\ buf = <<>> /\ link[conn] # "broken"
    /\ k \in 1..Len(wire[conn])
    /\ buf' = SubSeq(wire[conn], 1, k)
    /\ wire' = [wire EXCEPT ![conn] = SubSeq(@, k + 1, Len(@))]
    /\ split' = (split \/ wire[conn][k][3] < MarkerLen)
    /\ UNCHANGED <<serverVars, asmVars, proxy, conn, link, sent, cut, faults>>

\* Mistake: to read nothing is not taken for the end of the connection.
DisconnectOnError ==
    /\ proxy = "connected" /\ buf = <<>> /\ link[conn] = "broken"
    /\ proxy' = "lost"
    /\ ClearDataCache
    /\ CloseProxySocket
    /\ UNCHANGED <<serverVars, delivered, buf, sent, faults>>

\* OnDisconnectConnection: the connection broke, or the server has closed it
\* and everything it sent has been read.
Disconnect ==
    /\ proxy = "connected" /\ buf = <<>>
    /\ link[conn] = "broken" \/ (link[conn] = "shut" /\ wire[conn] = <<>>)
    /\ proxy' = "lost"
    /\ ClearDataCache
    /\ CloseProxySocket
    /\ UNCHANGED <<serverVars, delivered, buf, sent, faults>>

\* ~RemoteVideoConsumer: Stop, the end of the loop, OnCloseConnection.  A
\* thread that an exception has ended leaves the socket to the destructor.
StopProxy ==
    /\ proxy # "ended" \/ conn # NoConn
    /\ buf = <<>>
    /\ proxy' = "ended"
    /\ ClearDataCache
    /\ CloseProxySocket
    /\ UNCHANGED <<serverVars, delivered, buf, sent, faults>>

ProxySteps == Connect \/ Refused \/ Disconnect \/ ReceiveData
    \/ (\E c \in Conns : Handshake(c)) \/ (\E k \in 1..Capacity : Receive(k))

----------------------------------------------------------------------------
\* The network: a connection breaks, and what is on its way is lost.
Break(c) ==
    /\ link[c] = "up" /\ faults < MaxFaults
    /\ link' = [link EXCEPT ![c] = "broken"]
    /\ wire' = [wire EXCEPT ![c] = <<>>]
    /\ faults' = faults + 1
    /\ UNCHANGED <<serverVars, asmVars, proxyVars, sent, history>>

Next ==
    \/ Provider
    \/ ProxySteps \/ StopProxy
    \/ \E c \in Conns : Break(c)

\* Some camera's capture goes on, connections' threads run, the thread that
\* accepts gets the lock in the end, and a server that is down is started
\* again.
Fairness ==
    /\ WF_vars(\E s \in Streams : PushImage(s))
    /\ WF_vars(\E c \in Conns : ConnectionThread(c))
    /\ SF_vars(\E c \in Conns : Accept(c))
    /\ WF_vars(ServerStopped \/ StartServer)
    /\ WF_vars(ProxySteps)

Spec == Init /\ [][Next]_vars /\ Fairness

----------------------------------------------------------------------------
\* Nothing has been sent or received in part on the client's connection that
\* the assembler cannot put together again: no packet was cut, and no receive
\* ended inside a marker.
Framed == ~cut /\ ~split

\* A packet that was cut (NetSocket.cpp:135) or a marker that was split
\* (NetPacketAssembler.cpp:75) spoils what is assembled on its own connection
\* only.  On any other, whatever pieces TCP delivers and whatever was left in
\* the assembler when the last connection broke, what is handed on is a frame
\* the server has sent, whole and with nothing else in it.
PacketsIntact == [][CompletePacket /\ Framed => IsSentBy(sent, Payload, Assembled)]_vars

\* "The marker has to be passed with the data in one call"
\* (NetPacketAssembler.cpp:98-100): where all of that call is taken, what
\* arrives is what was sent.
OneCallIsEnough ==
    [][CompletePacket /\ ~cut => IsSentBy(sent, Payload, Assembled)]_vars

\* A thread that runs belongs to a connection the provider still holds: no
\* connection is deleted under its thread.
NoThreadOutlives == \A c \in Conns : running[c] => c \in clients

\* The bytes on their way over the client's connection.
InFlight == data \o buf \o (IF conn = NoConn THEN <<>> ELSE wire[conn])

\* Each stream reaches the client as a lossy FIFO channel, through every loss
\* of the connection, every restart of the server and every loss of framing: a
\* frame may be lost or spoilt, but none comes twice, late, or after one sent
\* after it.  A frame is pending as long as its header is on its way.
StreamFifo(s) == INSTANCE LossyFifo WITH
    sent <- sent[s],
    pending <- {n \in 1..sent[s] :
                   \E i \in DOMAIN InFlight : InFlight[i] = <<s, n, MarkerLen + 1>>},
    delivered <- delivered[s]
StreamsInOrder ==
    /\ \A s \in Streams : StreamFifo(s)!FifoInit
    /\ [][\A s \in Streams : [StreamFifo(s)!FifoNext]_(StreamFifo(s)!fifoVars)]_vars

\* A connection the client has left, or that broke, is dropped by the
\* provider: the dead do not pile up in m_Clients.
DeadDropped == \A c \in Conns : (c \in clients /\ link[c] = "broken") ~> (c \notin clients)

\* The provider's Stop returns: it waits for threads that are told to end,
\* with m_MapSync held all the time.
StopReturns == (server = "stopping") ~> (server = "down")

\* The client ends up with a connection the server serves, however often it
\* has lost it, unless it is destroyed, an attempt to connect fails at once, or
\* a length that was read wrong ended its thread by an exception.
ClientRecovers ==
    <>[](\/ proxy \in {"idle", "ended"}
         \/ proxy = "connected" /\ conn \in clients /\ link[conn] = "up" /\ server = "up")
=============================================================================
