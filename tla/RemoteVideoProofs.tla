------------------------- MODULE RemoteVideoProofs -------------------------
(***************************************************************************)
(* Proofs about RemoteVideo for any number of streams and connections,     *)
(* every length of the marker and of a frame, any part of a packet that a  *)
(* send may take and any pieces in which TCP may deliver the bytes.        *)
(***************************************************************************)
EXTENDS RemoteVideo, SequenceTheorems, FiniteSetTheorems, TLAPS

----------------------------------------------------------------------------
(* The inductive invariants.                                               *)

\* The types, the lengths the assembler works with, and that a client that is
\* connected has a connection.
BaseInv ==
    /\ TypeOK
    /\ NoThreadOutlives
    /\ valid /\ total >= 0 => Len(data) <= total
    /\ valid /\ total < 0 => data = <<>>
    /\ proxy = "connected" => conn # NoConn
    /\ proxy \in {"starting", "connecting", "lost", "idle"} => conn = NoConn

\* No bytes are left from one connection to the next.
LinkInv ==
    /\ \A c \in Conns : link[c] = "free" => wire[c] = <<>>
    /\ conn = NoConn => buf = <<>> /\ data = <<>> /\ ~valid

\* From any byte on, the rest of its packet follows, and then a new packet.
Chained(q) ==
    \A i \in DOMAIN q :
        /\ \A d \in 1..(PacketLen - q[i][3]) :
              i + d <= Len(q) => q[i + d] = <<q[i][1], q[i][2], q[i][3] + d>>
        /\ q[i][3] = PacketLen /\ i < Len(q) => q[i + 1][3] = 1

\* The last byte is the last of a packet.
Whole(q) == q # <<>> => q[Len(q)][3] = PacketLen

\* The bytes are of frames that were sent.
Genuine(q, S) == \A i \in DOMAIN q : q[i][2] <= S[q[i][1]]

OnWire == IF conn = NoConn THEN <<>> ELSE wire[conn]

\* On a connection where no packet was cut and no marker split, the bytes under
\* way are a run of packets, of which the first may lack its marker when the
\* assembler has taken it, and the last its end when the connection is broken.
StreamInv ==
    /\ Chained(InFlight) /\ Genuine(InFlight, sent) /\ Whole(OnWire)
    /\ InFlight # <<>> => InFlight[1][3] = IF valid THEN MarkerLen + 1 ELSE 1
    /\ conn # NoConn => (link[conn] = "up" => Whole(InFlight) /\ (valid => InFlight # <<>>))
    /\ buf # <<>> => buf[Len(buf)][3] \notin 1..(MarkerLen - 1)
    /\ IF valid THEN total = PayloadLen /\ Len(data) < PayloadLen ELSE data = <<>>

FramedInv == LinkInv /\ (Framed => StreamInv)

----------------------------------------------------------------------------
(* Facts about sequences of bytes and about packets.                       *)

LEMMA LenFacts == PacketLen \in Nat /\ PacketLen = MarkerLen + PayloadLen /\ MarkerLen > 0 /\ PayloadLen > 0
                  /\ MarkerLen \in Nat /\ PayloadLen \in Nat /\ PacketLen > MarkerLen
  BY RemoteAssumption DEF PacketLen

LEMMA ByteFields ==
    \A b \in Bytes : /\ b[1] \in Streams /\ b[2] \in 1..MaxFrames /\ b[3] \in 1..PacketLen
                     /\ b = <<b[1], b[2], b[3]>>
  BY DEF Bytes

LEMMA PacketFacts ==
    ASSUME NEW s \in Streams, NEW n \in 1..MaxFrames
    PROVE  /\ Packet(s, n) \in Seq(Bytes) /\ Len(Packet(s, n)) = PacketLen
           /\ \A i \in 1..PacketLen : Packet(s, n)[i] = <<s, n, i>>
<1>1. \A i \in 1..PacketLen : <<s, n, i>> \in Bytes
  BY DEF Bytes
<1> QED
  BY <1>1, LenFacts DEF Packet

LEMMA Parts ==
    ASSUME NEW q \in Seq(Bytes), NEW m \in Nat, m <= Len(q)
    PROVE  /\ SubSeq(q, 1, m) \in Seq(Bytes) /\ Len(SubSeq(q, 1, m)) = m
           /\ \A i \in 1..m : SubSeq(q, 1, m)[i] = q[i]
           /\ SubSeq(q, m + 1, Len(q)) \in Seq(Bytes) /\ Len(SubSeq(q, m + 1, Len(q))) = Len(q) - m
           /\ \A i \in 1..(Len(q) - m) : SubSeq(q, m + 1, Len(q))[i] = q[m + i]
  BY SubSeqProperties

LEMMA Joined ==
    ASSUME NEW q \in Seq(Bytes), NEW r \in Seq(Bytes)
    PROVE  /\ q \o r \in Seq(Bytes) /\ Len(q \o r) = Len(q) + Len(r)
           /\ \A i \in 1..Len(q) : (q \o r)[i] = q[i]
           /\ \A i \in 1..Len(r) : (q \o r)[Len(q) + i] = r[i]
  OBVIOUS

LEMMA Regroup == ASSUME NEW q \in Seq(Bytes), NEW r \in Seq(Bytes), NEW u \in Seq(Bytes)
                 PROVE  q \o (r \o u) = (q \o r) \o u
<1>1. (q \o r) \o u = q \o (r \o u)
  BY ConcatAssociative
<1> QED
  BY <1>1

LEMMA NothingAfter == ASSUME NEW q \in Seq(Bytes), NEW m \in Nat, m > Len(q)
                      PROVE  SubSeq(q, m, Len(q)) = <<>>
  BY SubSeqProperties

----------------------------------------------------------------------------
(* The base invariant: types, lengths, and no thread without a connection. *)

LEMMA InitBase == Init => BaseInv
<1> SUFFICES ASSUME Init PROVE BaseInv
  OBVIOUS
<1>1. <<>> \in Seq(Bytes) /\ 0 \in 0..MaxFrames /\ 0 \in 0..MaxFaults
  BY RemoteAssumption
<1>2. /\ wire \in [Conns -> Seq(Bytes)]
      /\ sent \in [Streams -> 0..MaxFrames] /\ delivered \in [Streams -> 0..MaxFrames]
  BY <1>1 DEF Init
<1>3. total \in Int
  BY DEF Init
<1>4. TypeOK
  BY <1>1, <1>2, <1>3 DEF Init, TypeOK
<1> QED
  BY <1>4 DEF Init, BaseInv, NoThreadOutlives

\* What closing sockets does to types.
LEMMA CloseTypes ==
    ASSUME TypeOK, NEW S \in SUBSET Conns, CloseSockets(S)
    PROVE  link' \in [Conns -> {"free", "up", "broken", "shut"}] /\ wire' \in [Conns -> Seq(Bytes)]
  BY DEF TypeOK, CloseSockets

\* While not all frames have been sent, no stream has sent so many.
LEMMA RoomForOne ==
    ASSUME TypeOK, Cardinality(Frames) < MaxFrames, NEW s \in Streams
    PROVE  sent[s] + 1 \in 1..MaxFrames
<1> DEFINE n == sent[s]
           f == [i \in 1..n |-> <<s, i>>]
<1>1. n \in 0..MaxFrames /\ MaxFrames \in Nat
  BY RemoteAssumption DEF TypeOK
<1>2. IsFiniteSet(Frames)
  <2>1. IsFiniteSet(Streams \X (1..MaxFrames))
    <3>1. IsFiniteSet(1..MaxFrames)
      BY <1>1, FS_Interval
    <3> QED
      BY <3>1, RemoteAssumption, FS_Product
  <2>2. Frames \in SUBSET (Streams \X (1..MaxFrames))
    BY DEF Frames
  <2> QED
    BY <2>1, <2>2, FS_Subset
<1>3. f \in [1..n -> Frames]
  BY <1>1 DEF Frames
<1>4. f \in Injection(1..n, Frames)
  BY <1>3 DEF Injection, IsInjective
<1>5. Cardinality(1..n) <= Cardinality(Frames)
  BY <1>2, <1>4, FS_Injection
<1>6. Cardinality(1..n) = n
  <2>1. 1 \in Int /\ n \in Int /\ n >= 0
    BY <1>1
  <2> HIDE DEF n
  <2>2. Cardinality(1..n) = IF 1 > n THEN 0 ELSE n - 1 + 1
    BY <2>1, FS_Interval
  <2> QED
    BY <2>1, <2>2
<1>7. Cardinality(Frames) \in Nat
  BY <1>2, FS_CardinalityType
<1> QED
  BY <1>1, <1>5, <1>6, <1>7

LEMMA PushBase ==
    ASSUME BaseInv, NEW s \in Streams, PushImage(s)
    PROVE  BaseInv'
<1>1. CASE StopOldClients(s)
  BY <1>1 DEF StopOldClients, proxyVars, asmVars, history, BaseInv, TypeOK, NoThreadOutlives
<1>2. CASE EraseOldClients(s)
  <2> DEFINE S == {c \in clients : ~working[c]}
  <2>1. S \in SUBSET Conns
    BY DEF BaseInv, TypeOK
  <2>2. JoinAndErase(S)
    BY <1>2 DEF EraseOldClients
  <2> HIDE DEF S
  <2>3. CloseSockets(S) /\ clients' = clients \ S /\ \A c \in S : ~running[c]
    BY <2>2 DEF JoinAndErase
  <2>4. link' \in [Conns -> {"free", "up", "broken", "shut"}] /\ wire' \in [Conns -> Seq(Bytes)]
    BY <2>1, <2>3, CloseTypes DEF BaseInv
  <2> QED
    BY <1>2, <2>3, <2>4 DEF EraseOldClients, proxyVars, asmVars, history, BaseInv, TypeOK, NoThreadOutlives
<1>3. CASE SendImage(s)
  <2>1. failed' \in [Conns -> BOOLEAN]
    <3>1. PICK bad \in SUBSET {c \in clients : link[c] = "broken"} :
             failed' = [c \in Conns |-> failed[c] \/ c \in bad]
      BY <1>3 DEF SendImage
    <3> QED
      BY <3>1
  <2>2. CASE Cardinality(Frames) < MaxFrames
    <3>1. sent[s] + 1 \in 1..MaxFrames
      BY <2>2, RoomForOne DEF BaseInv
    <3>2. sent' = [sent EXCEPT ![s] = @ + 1]
      BY <1>3, <2>2 DEF SendImage
    <3>3. Packet(s, sent[s] + 1) \in Seq(Bytes)
      BY <3>1, PacketFacts
    <3>4. PICK taken \in [clients -> 0..PacketLen] :
            /\ wire' = [c \in Conns |-> IF c \in clients
                    THEN SendData(c, Packet(s, sent[s] + 1), taken[c]) ELSE wire[c]]
            /\ cut' = (cut \/ \E c \in clients : taken[c] \in 1..(PacketLen - 1))
      BY <1>3, <2>2 DEF SendImage
    <3>5. ASSUME NEW c \in clients
          PROVE  wire[c] \o SubSeq(Packet(s, sent[s] + 1), 1, taken[c]) \in Seq(Bytes)
      <4>1. taken[c] \in Nat /\ taken[c] <= PacketLen
        BY LenFacts
      <4>2. SubSeq(Packet(s, sent[s] + 1), 1, taken[c]) \in Seq(Bytes)
        BY <3>1, <4>1, PacketFacts, Parts
      <4> QED
        BY <4>2 DEF BaseInv, TypeOK
    <3>6. wire' \in [Conns -> Seq(Bytes)] /\ sent' \in [Streams -> 0..MaxFrames] /\ cut' \in BOOLEAN
      BY <3>1, <3>2, <3>4, <3>5 DEF SendData, BaseInv, TypeOK
    <3> QED
      BY <1>3, <2>1, <3>6 DEF SendImage, proxyVars, asmVars, history, BaseInv, TypeOK, NoThreadOutlives
  <2>3. CASE ~(Cardinality(Frames) < MaxFrames)
    BY <1>3, <2>1, <2>3 DEF SendImage, proxyVars, asmVars, history, BaseInv, TypeOK, NoThreadOutlives
  <2> QED
    BY <2>2, <2>3
<1> QED
  BY <1>1, <1>2, <1>3 DEF PushImage

LEMMA ServerBase ==
    ASSUME BaseInv,
           \/ StopServer \/ ServerStopped \/ StartServer
           \/ \E c \in Conns : Accept(c) \/ ConnectionLost(c) \/ ConnectionEnds(c) \/ Break(c)
    PROVE  BaseInv'
<1>1. CASE StopServer
  BY <1>1, RemoteAssumption DEF StopServer, proxyVars, asmVars, history, BaseInv, TypeOK, NoThreadOutlives
<1>2. CASE ServerStopped
  <2> DEFINE S == clients \cup backlog
  <2>1. S \in SUBSET Conns /\ CloseSockets(S)
    BY <1>2 DEF BaseInv, TypeOK, ServerStopped
  <2> HIDE DEF S
  <2>2. link' \in [Conns -> {"free", "up", "broken", "shut"}] /\ wire' \in [Conns -> Seq(Bytes)]
    BY <2>1, CloseTypes DEF BaseInv
  <2> QED
    BY <1>2, <2>2 DEF ServerStopped, proxyVars, asmVars, history, BaseInv, TypeOK, NoThreadOutlives
<1>3. CASE StartServer
  BY <1>3 DEF StartServer, proxyVars, asmVars, history, BaseInv, TypeOK, NoThreadOutlives
<1>4. ASSUME NEW c \in Conns, Accept(c) PROVE BaseInv'
  <2>1. CASE CloseSockets({c}) /\ UNCHANGED <<clients, running, working, failed>>
    <3>1. link' \in [Conns -> {"free", "up", "broken", "shut"}] /\ wire' \in [Conns -> Seq(Bytes)]
      BY <2>1, CloseTypes DEF BaseInv
    <3> QED
      BY <1>4, <2>1, <3>1 DEF Accept, proxyVars, asmVars, history, BaseInv, TypeOK, NoThreadOutlives
  <2>2. CASE /\ clients' = clients \cup {c}
             /\ running' = [running EXCEPT ![c] = TRUE]
             /\ working' = [working EXCEPT ![c] = TRUE]
             /\ failed' = [failed EXCEPT ![c] = FALSE]
             /\ UNCHANGED <<link, wire>>
    <3>1. /\ UNCHANGED <<server, push, asmVars, proxyVars, sent, history, faults>>
          /\ backlog' = backlog \ {c}
      BY <1>4 DEF Accept
    <3>2. /\ running' \in [Conns -> BOOLEAN] /\ working' \in [Conns -> BOOLEAN]
          /\ failed' \in [Conns -> BOOLEAN] /\ clients' \subseteq Conns /\ backlog' \subseteq Conns
          /\ \A d \in Conns : running'[d] => running[d] \/ d = c
      BY <2>2, <3>1 DEF BaseInv, TypeOK
    <3>3. NoThreadOutlives'
      BY <2>2, <3>2 DEF BaseInv, NoThreadOutlives
    <3> QED
      BY <2>2, <3>1, <3>2, <3>3 DEF proxyVars, asmVars, history, BaseInv, TypeOK
  <2> QED
    BY <1>4, <2>1, <2>2 DEF Accept
<1>5. ASSUME NEW c \in Conns, ConnectionLost(c) \/ ConnectionEnds(c) PROVE BaseInv'
  <2>1. /\ running' \in [Conns -> BOOLEAN] /\ working' \in [Conns -> BOOLEAN]
        /\ \A d \in Conns : running'[d] => running[d]
    BY <1>5 DEF ConnectionLost, ConnectionEnds, BaseInv, TypeOK
  <2>2. UNCHANGED <<server, push, clients, failed, backlog, asmVars, proxyVars, link, wire, sent,
                   history, faults>>
    BY <1>5 DEF ConnectionLost, ConnectionEnds
  <2> QED
    BY <2>1, <2>2 DEF proxyVars, asmVars, history, BaseInv, TypeOK, NoThreadOutlives
<1>6. ASSUME NEW c \in Conns, Break(c) PROVE BaseInv'
  <2>1. faults' \in 0..MaxFaults
    BY <1>6, RemoteAssumption DEF Break, BaseInv, TypeOK
  <2> QED
    BY <1>6, <2>1 DEF Break, serverVars, proxyVars, asmVars, history, BaseInv, TypeOK, NoThreadOutlives
<1> QED
  BY <1>1, <1>2, <1>3, <1>4, <1>5, <1>6

\* What the assembler and the client do leaves the provider alone.
LEMMA ClientKeepsThreads == BaseInv /\ UNCHANGED <<clients, running>> => NoThreadOutlives'
  BY DEF BaseInv, NoThreadOutlives

LEMMA AssemblerBase == BaseInv /\ ReceiveData => BaseInv'
<1> SUFFICES ASSUME BaseInv, ReceiveData PROVE BaseInv'
  OBVIOUS
<1>1. TypeOK /\ NoThreadOutlives' /\ buf \in Seq(Bytes) /\ data \in Seq(Bytes) /\ total \in Int
  BY ClientKeepsThreads
     DEF BaseInv, TypeOK, ReceiveData, TakeMarker, KeepPart, RefuseLength, CompletePacket, serverVars
<1>2. CASE TakeMarker
  <2>1. SubSeq(buf, MarkerLen + 1, Len(buf)) \in Seq(Bytes)
    <3>1. CASE MarkerLen <= Len(buf)
      BY <1>1, <3>1, LenFacts, Parts
    <3>2. CASE MarkerLen > Len(buf)
      BY <1>1, <3>2, LenFacts, NothingAfter
    <3> QED
      BY <1>1, <3>1, <3>2, LenFacts
  <2>2. total' \in Int
    BY <1>2, LenFacts, RemoteAssumption DEF TakeMarker, MarkerValue
  <2>3. /\ UNCHANGED <<serverVars, link, wire, conn, delivered, sent, history, faults>>
        /\ valid' = TRUE /\ data' = <<>> /\ buf' \in Seq(Bytes)
        /\ proxy' \in {proxy, "ended"}
    BY <1>2, <2>1 DEF TakeMarker
  <2> QED
    BY <1>1, <2>2, <2>3 DEF serverVars, history, BaseInv, TypeOK
<1>3. CASE KeepPart
  <2>1. data \o buf \in Seq(Bytes) /\ Len(data \o buf) = Len(data) + Len(buf)
        /\ Len(data) \in Nat /\ Len(buf) \in Nat
    BY <1>1
  <2>2. valid => Len(data \o buf) <= total /\ total >= 0
    BY <1>1, <1>3, <2>1 DEF KeepPart
  <2> QED
    BY <1>1, <1>3, <2>1, <2>2 DEF KeepPart, serverVars, history, BaseInv, TypeOK
<1>4. CASE RefuseLength
  <2>1. <<>> \in Seq(Bytes)
    OBVIOUS
  <2> QED
    BY <1>1, <1>4, <2>1 DEF RefuseLength, serverVars, asmVars, history, BaseInv, TypeOK
<1>5. CASE CompletePacket
  <2> DEFINE m == total - Len(data)
  <2>1. m \in Nat /\ m <= Len(buf)
    BY <1>1, <1>5 DEF CompletePacket, BaseInv
  <2>2. SubSeq(buf, 1, m) \in Seq(Bytes) /\ SubSeq(buf, m + 1, Len(buf)) \in Seq(Bytes)
    BY <1>1, <2>1, Parts
  <2>3. Assembled \in Seq(Bytes)
    BY <1>1, <2>2 DEF Assembled
  <2>4. /\ OnReceivePacket(Assembled) /\ valid' = FALSE /\ data' = <<>>
        /\ buf' = SubSeq(buf, m + 1, Len(buf))
        /\ UNCHANGED <<serverVars, link, wire, proxy, conn, total, sent, history, faults>>
    BY <1>5 DEF CompletePacket
  <2>5. delivered' \in [Streams -> 0..MaxFrames]
    <3>1. Assembled # <<>> => Assembled[1][2] \in 1..MaxFrames
      BY <2>3, ByteFields
    <3>2. delivered' = [s \in Streams |->
             IF Assembled # <<>> /\ Assembled[1][1] = s /\ Assembled[1][3] = MarkerLen + 1
             THEN Assembled[1][2] ELSE delivered[s]]
      BY <2>4 DEF OnReceivePacket
    <3>3. \A s \in Streams : delivered[s] \in 0..MaxFrames
      BY <1>1 DEF TypeOK
    <3>4. \A s \in Streams : delivered'[s] \in 0..MaxFrames
      BY <3>1, <3>2, <3>3, RemoteAssumption
    <3> QED
      BY <3>2, <3>4
  <2>6. buf' \in Seq(Bytes) /\ data' \in Seq(Bytes)
    BY <2>2, <2>4
  <2> HIDE DEF m
  <2> QED
    BY <1>1, <2>4, <2>5, <2>6 DEF serverVars, history, BaseInv, TypeOK
<1> QED
  BY <1>2, <1>3, <1>4, <1>5 DEF ReceiveData

LEMMA ProxyBase ==
    ASSUME BaseInv,
           \/ Connect \/ Refused \/ Disconnect \/ StopProxy
           \/ \E c \in Conns : Handshake(c)
           \/ \E k \in 1..Capacity : Receive(k)
    PROVE  BaseInv'
<1>1. TypeOK /\ NoThreadOutlives'
  BY ClientKeepsThreads DEF BaseInv, Connect, Refused, Disconnect, StopProxy, Handshake, Receive, serverVars
<1>2. CASE Connect
  <2>1. faults' \in 0..MaxFaults
    BY <1>1, <1>2, RemoteAssumption DEF Connect, TypeOK
  <2>2. conn = NoConn /\ proxy' \in {"connecting", "ended", "idle"}
    BY <1>2 DEF BaseInv, Connect
  <2>3. UNCHANGED <<serverVars, asmVars, conn, buf, link, wire, sent, history>>
    BY <1>2 DEF Connect
  <2> QED
    BY <1>1, <2>1, <2>2, <2>3 DEF serverVars, asmVars, history, BaseInv, TypeOK
<1>3. CASE Refused
  <2>1. <<>> \in Seq(Bytes) /\ conn = NoConn
    BY <1>3 DEF BaseInv, Refused
  <2>2. total' \in Int
    BY <1>3 DEF Refused, ClearDataCache
  <2>3. TypeOK'
    BY <1>1, <1>3, <2>1, <2>2 DEF Refused, ClearDataCache, serverVars, history, TypeOK
  <2> QED
    BY <1>1, <1>3, <2>1, <2>3 DEF Refused, ClearDataCache, BaseInv
<1>4. CASE Disconnect \/ StopProxy
  <2>1. /\ proxy' \in {"lost", "ended"} /\ ClearDataCache /\ conn' = NoConn
        /\ link' \in [Conns -> {"free", "up", "broken", "shut"}] /\ wire' \in [Conns -> Seq(Bytes)]
        /\ cut' = FALSE /\ split' = FALSE
        /\ UNCHANGED <<serverVars, delivered, buf, sent, faults>>
    <3>1. CloseProxySocket
      BY <1>4 DEF Disconnect, StopProxy
    <3>2. /\ link' \in [Conns -> {"free", "up", "broken", "shut"}] /\ wire' \in [Conns -> Seq(Bytes)]
          /\ conn' = NoConn /\ cut' = FALSE /\ split' = FALSE
      BY <1>1, <3>1 DEF CloseProxySocket, TypeOK
    <3>3. /\ proxy' \in {"lost", "ended"} /\ ClearDataCache
          /\ UNCHANGED <<serverVars, delivered, buf, sent, faults>>
      BY <1>4 DEF Disconnect, StopProxy
    <3> QED
      BY <3>2, <3>3
  <2>2. <<>> \in Seq(Bytes)
    OBVIOUS
  <2>3. total' \in Int
    BY <2>1 DEF ClearDataCache
  <2>4. TypeOK'
    BY <1>1, <2>1, <2>2, <2>3 DEF ClearDataCache, serverVars, TypeOK
  <2> QED
    BY <1>1, <2>1, <2>4 DEF ClearDataCache, BaseInv
<1>5. ASSUME NEW c \in Conns, Handshake(c) PROVE BaseInv'
  <2>1. c # NoConn
    BY RemoteAssumption
  <2> QED
    BY <1>1, <1>5, <2>1 DEF Handshake, asmVars, history, BaseInv, TypeOK
<1>6. ASSUME NEW k \in 1..Capacity, Receive(k) PROVE BaseInv'
  <2>1. conn \in Conns /\ wire[conn] \in Seq(Bytes) /\ k \in Nat /\ k <= Len(wire[conn])
    BY <1>1, <1>6 DEF Receive, BaseInv, TypeOK
  <2>2. SubSeq(wire[conn], 1, k) \in Seq(Bytes) /\ SubSeq(wire[conn], k + 1, Len(wire[conn])) \in Seq(Bytes)
    BY <2>1, Parts
  <2>3. wire' \in [Conns -> Seq(Bytes)] /\ buf' \in Seq(Bytes)
    BY <1>1, <1>6, <2>1, <2>2 DEF Receive, TypeOK
  <2>4. split' \in BOOLEAN
    BY <1>1, <1>6 DEF Receive, TypeOK
  <2> QED
    BY <1>1, <1>6, <2>3, <2>4 DEF Receive, serverVars, asmVars, BaseInv, TypeOK
<1> QED
  BY <1>2, <1>3, <1>4, <1>5, <1>6

LEMMA NextBase == BaseInv /\ [Next]_vars => BaseInv'
<1> SUFFICES ASSUME BaseInv, [Next]_vars PROVE BaseInv'
  OBVIOUS
<1>1. CASE Provider \/ \E c \in Conns : Break(c)
  BY <1>1, PushBase, ServerBase DEF Provider, ConnectionThread
<1>2. CASE ProxySteps \/ StopProxy
  BY <1>2, AssemblerBase, ProxyBase DEF ProxySteps
<1>3. CASE UNCHANGED vars
  BY <1>3 DEF vars, serverVars, asmVars, proxyVars, history, BaseInv, TypeOK, NoThreadOutlives
<1> QED
  BY <1>1, <1>2, <1>3 DEF Next

LEMMA BaseInvariance == Spec => []BaseInv
  BY InitBase, NextBase, PTL DEF Spec

----------------------------------------------------------------------------
(* Runs of packets: cut, joined and read.                                  *)

LEMMA ChainedSuffix ==
    ASSUME NEW q \in Seq(Bytes), NEW S, Chained(q), Genuine(q, S), NEW m \in Nat, m <= Len(q)
    PROVE  LET r == SubSeq(q, m + 1, Len(q)) IN
           Chained(r) /\ Genuine(r, S) /\ (Whole(q) => Whole(r))
<1> DEFINE r == SubSeq(q, m + 1, Len(q))
<1>0. /\ r \in Seq(Bytes) /\ Len(r) = Len(q) - m /\ Len(q) \in Nat
      /\ \A i \in 1..(Len(q) - m) : r[i] = q[m + i]
  BY Parts
<1> HIDE DEF r
<1>1. /\ r \in Seq(Bytes) /\ Len(r) = Len(q) - m
      /\ \A i \in 1..Len(r) : r[i] = q[m + i] /\ m + i \in DOMAIN q
  <2>1. \A i \in 1..(Len(q) - m) : m + i \in 1..Len(q)
    BY <1>0
  <2> QED
    BY <1>0, <2>1
<1>2. ASSUME NEW i \in DOMAIN r
      PROVE  /\ \A d \in 1..(PacketLen - r[i][3]) :
                    i + d <= Len(r) => r[i + d] = <<r[i][1], r[i][2], r[i][3] + d>>
             /\ r[i][3] = PacketLen /\ i < Len(r) => r[i + 1][3] = 1
             /\ r[i][2] <= S[r[i][1]]
  <2>1. i \in 1..Len(r) /\ r[i] = q[m + i] /\ m + i \in DOMAIN q
    BY <1>1
  <2>2. ASSUME NEW d \in 1..(PacketLen - r[i][3]), i + d <= Len(r)
        PROVE  r[i + d] = <<r[i][1], r[i][2], r[i][3] + d>>
    <3>1. r[i + d] = q[m + i + d] /\ m + i + d <= Len(q)
      <4>0. r[i][3] \in 1..PacketLen /\ i \in Nat /\ i >= 1
        BY <1>1, <2>1, ByteFields
      <4>1. i + d \in 1..Len(r)
        <5>1. d \in Nat /\ d >= 1 /\ Len(r) \in Nat
          BY <1>1, <2>2, <4>0, LenFacts
        <5> QED
          BY <2>2, <4>0, <5>1
      <4> QED
        BY <1>1, <2>1, <2>2, <4>1
    <3> QED
      BY <2>1, <2>2, <3>1 DEF Chained
  <2>3. ASSUME r[i][3] = PacketLen, i < Len(r) PROVE r[i + 1][3] = 1
    <3>1. r[i + 1] = q[m + i + 1] /\ m + i < Len(q)
      BY <1>1, <2>1, <2>3
    <3> QED
      BY <2>1, <2>3, <3>1 DEF Chained
  <2> QED
    BY <2>1, <2>2, <2>3 DEF Genuine
<1>3. Whole(q) => Whole(r)
  <2> SUFFICES ASSUME Whole(q), r # <<>> PROVE r[Len(r)][3] = PacketLen
    BY DEF Whole
  <2>1. Len(r) \in 1..Len(r) /\ q # <<>>
    BY <1>1
  <2> QED
    BY <1>1, <2>1 DEF Whole
<1>4. Chained(r) /\ Genuine(r, S)
  BY <1>2 DEF Chained, Genuine
<1> QED
  BY <1>3, <1>4 DEF r

LEMMA ChainedPrefix ==
    ASSUME NEW q \in Seq(Bytes), NEW S, Chained(q), Genuine(q, S), NEW m \in Nat, m <= Len(q)
    PROVE  LET r == SubSeq(q, 1, m) IN Chained(r) /\ Genuine(r, S)
<1> DEFINE r == SubSeq(q, 1, m)
<1>1. /\ r \in Seq(Bytes) /\ Len(r) = m
      /\ \A i \in 1..m : r[i] = q[i] /\ i \in DOMAIN q
  BY Parts
<1> HIDE DEF r
<1>2. ASSUME NEW i \in DOMAIN r
      PROVE  /\ \A d \in 1..(PacketLen - r[i][3]) :
                    i + d <= Len(r) => r[i + d] = <<r[i][1], r[i][2], r[i][3] + d>>
             /\ r[i][3] = PacketLen /\ i < Len(r) => r[i + 1][3] = 1
             /\ r[i][2] <= S[r[i][1]]
  <2>1. i \in 1..m /\ r[i] = q[i] /\ i \in DOMAIN q
    BY <1>1
  <2>2. ASSUME NEW d \in 1..(PacketLen - r[i][3]), i + d <= Len(r)
        PROVE  r[i + d] = <<r[i][1], r[i][2], r[i][3] + d>>
    <3>1. r[i + d] = q[i + d] /\ i + d <= Len(q)
      <4>0. r[i][3] \in 1..PacketLen
        BY <1>1, <2>1, ByteFields
      <4>1. i + d \in 1..m
        BY <1>1, <2>1, <2>2, <4>0, LenFacts
      <4> QED
        BY <1>1, <2>1, <2>2, <4>1
    <3> QED
      BY <2>1, <2>2, <3>1 DEF Chained
  <2>3. ASSUME r[i][3] = PacketLen, i < Len(r) PROVE r[i + 1][3] = 1
    <3>1. r[i + 1] = q[i + 1] /\ i < Len(q)
      BY <1>1, <2>1, <2>3
    <3> QED
      BY <2>1, <2>3, <3>1 DEF Chained
  <2> QED
    BY <2>1, <2>2, <2>3 DEF Genuine
<1>3. Chained(r) /\ Genuine(r, S)
  BY <1>2 DEF Chained, Genuine
<1> QED
  BY <1>3 DEF r

\* The end of a packet and the beginning of another fit.
LEMMA ChainedJoin ==
    ASSUME NEW q \in Seq(Bytes), NEW r \in Seq(Bytes), NEW S, Chained(q), Genuine(q, S), Whole(q),
           Chained(r), Genuine(r, S), r # <<>>, r[1][3] = 1
    PROVE  Chained(q \o r) /\ Genuine(q \o r, S) /\ (Whole(r) => Whole(q \o r))
<1> DEFINE t == q \o r
<1>1. /\ t \in Seq(Bytes) /\ Len(t) = Len(q) + Len(r) /\ Len(r) >= 1
      /\ \A i \in 1..Len(q) : t[i] = q[i]
      /\ \A i \in 1..Len(r) : t[Len(q) + i] = r[i]
  BY Joined
<1> HIDE DEF t
<1>2. ASSUME NEW i \in DOMAIN t
      PROVE  /\ \A d \in 1..(PacketLen - t[i][3]) :
                    i + d <= Len(t) => t[i + d] = <<t[i][1], t[i][2], t[i][3] + d>>
             /\ t[i][3] = PacketLen /\ i < Len(t) => t[i + 1][3] = 1
             /\ t[i][2] <= S[t[i][1]]
  <2>1. CASE i <= Len(q)
    <3>1. i \in 1..Len(q) /\ t[i] = q[i] /\ i \in DOMAIN q /\ q[i] \in Bytes
      BY <1>1, <2>1
    <3>2. q[i][3] \in 1..PacketLen
      BY <3>1, ByteFields
    <3>3. ASSUME NEW d \in 1..(PacketLen - q[i][3]) PROVE i + d <= Len(q)
      <4> SUFFICES ASSUME i + d > Len(q) PROVE FALSE
        BY <3>1, <3>2, LenFacts
      <4> DEFINE e == Len(q) - i
      <4>1. e \in 0..(d - 1) /\ i + e = Len(q) /\ e \in 0..(PacketLen - q[i][3])
        <5>1. d \in Int /\ d <= PacketLen - q[i][3] /\ i + d > Len(q)
          BY <3>2, <3>3, LenFacts
        <5>2. i \in Int /\ i <= Len(q) /\ Len(q) \in Int /\ q[i][3] \in Int
          BY <3>1, <3>2, LenFacts
        <5>3. \A l, j, c, k \in Int : j <= l /\ j + c > l /\ c <= k =>
                 l - j \in 0..(c - 1) /\ j + (l - j) = l /\ l - j \in 0..k
          OBVIOUS
        <5>4. PacketLen - q[i][3] \in Int
          BY <5>2, LenFacts
        <5> QED
          BY <5>1, <5>2, <5>3, <5>4
      <4>2. q[Len(q)][3] = q[i][3] + e
        <5>1. CASE e = 0
          BY <3>1, <3>2, <5>1
        <5>2. CASE e # 0
          <6>1. e \in 1..(PacketLen - q[i][3]) /\ i + e <= Len(q)
            BY <4>1, <5>2, <3>2, LenFacts
          <6> QED
            BY <3>1, <4>1, <6>1 DEF Chained
        <5> QED
          BY <5>1, <5>2
      <4>3. q[Len(q)][3] = PacketLen
        BY <3>1 DEF Whole
      <4> QED
        BY <3>2, <4>1, <4>2, <4>3, LenFacts
    <3>4. ASSUME NEW d \in 1..(PacketLen - t[i][3])
          PROVE  t[i + d] = <<t[i][1], t[i][2], t[i][3] + d>>
      <4>1. i + d <= Len(q) /\ i + d \in 1..Len(q)
        BY <3>1, <3>2, <3>3, LenFacts
      <4> QED
        BY <1>1, <3>1, <4>1 DEF Chained
    <3>5. ASSUME t[i][3] = PacketLen PROVE i < Len(t) => t[i + 1][3] = 1
      <4>1. CASE i < Len(q)
        <5>1. i + 1 \in 1..Len(q)
          BY <3>1, <4>1
        <5> QED
          BY <1>1, <3>1, <3>5, <4>1, <5>1 DEF Chained
      <4>2. CASE i = Len(q)
        BY <1>1, <4>2
      <4> QED
        BY <2>1, <3>1, <4>1, <4>2
    <3> QED
      BY <3>1, <3>4, <3>5 DEF Genuine
  <2>2. CASE i > Len(q)
    <3> DEFINE j == i - Len(q)
    <3>1. j \in 1..Len(r) /\ t[i] = r[j] /\ j \in DOMAIN r /\ r[j] \in Bytes /\ i = Len(q) + j
      BY <1>1, <2>2
    <3>2. r[j][3] \in 1..PacketLen
      BY <3>1, ByteFields
    <3> HIDE DEF j
    <3>3. ASSUME NEW d \in 1..(PacketLen - t[i][3]), i + d <= Len(t)
          PROVE  t[i + d] = <<t[i][1], t[i][2], t[i][3] + d>>
      <4>1. d \in 1..(PacketLen - r[j][3]) /\ j + d <= Len(r) /\ j + d \in 1..Len(r)
            /\ i + d = Len(q) + (j + d)
        <5>1. d \in 1..(PacketLen - r[j][3])
          BY <3>1, <3>3
        <5>2. d \in Nat /\ d >= 1 /\ j \in Nat /\ j >= 1
          BY <3>1, <3>2, <5>1, LenFacts
        <5>3. Len(q) \in Nat /\ Len(r) \in Nat /\ Len(t) = Len(q) + Len(r) /\ i = Len(q) + j
          BY <1>1, <3>1
        <5>4. j + d <= Len(r) /\ j + d >= 1 /\ j + d \in Nat /\ i + d = Len(q) + (j + d)
          BY <3>3, <5>2, <5>3
        <5> QED
          BY <5>1, <5>3, <5>4
      <4>2. r[j + d] = <<r[j][1], r[j][2], r[j][3] + d>>
        BY <3>1, <4>1 DEF Chained
      <4>3. t[i + d] = r[j + d]
        BY <1>1, <4>1
      <4> QED
        BY <3>1, <4>2, <4>3
    <3>4. ASSUME t[i][3] = PacketLen, i < Len(t) PROVE t[i + 1][3] = 1
      <4>1. j < Len(r) /\ j + 1 \in 1..Len(r) /\ i + 1 = Len(q) + (j + 1)
        <5>1. Len(q) \in Nat /\ Len(r) \in Nat /\ Len(t) = Len(q) + Len(r)
          BY <1>1
        <5>2. j \in 1..Len(r) /\ i = Len(q) + j
          BY <3>1
        <5> QED
          BY <3>4, <5>1, <5>2
      <4>2. r[j][3] = PacketLen
        BY <3>1, <3>4
      <4>3. r[j + 1][3] = 1
        BY <3>1, <4>1, <4>2 DEF Chained
      <4> QED
        BY <1>1, <4>1, <4>3
    <3> QED
      BY <3>1, <3>3, <3>4 DEF Genuine
  <2> QED
    BY <1>1, <2>1, <2>2
<1>3. Chained(t) /\ Genuine(t, S)
  BY <1>2 DEF Chained, Genuine
<1>4. Whole(r) => Whole(t)
  <2>1. Len(r) \in 1..Len(r) /\ t[Len(q) + Len(r)] = r[Len(r)]
    BY <1>1
  <2> QED
    BY <1>1, <2>1 DEF Whole
<1> QED
  BY <1>3, <1>4 DEF t

LEMMA ChainedPacket ==
    ASSUME NEW s \in Streams, NEW n \in 1..MaxFrames, NEW S, n <= S[s]
    PROVE  LET p == Packet(s, n) IN
           p # <<>> /\ p[1][3] = 1 /\ Chained(p) /\ Genuine(p, S) /\ Whole(p)
<1> DEFINE p == Packet(s, n)
<1>1. /\ p \in Seq(Bytes) /\ Len(p) = PacketLen /\ DOMAIN p = 1..PacketLen
      /\ \A i \in 1..PacketLen : p[i] = <<s, n, i>>
  BY PacketFacts
<1> HIDE DEF p
<1>2. p # <<>> /\ 1 \in 1..PacketLen /\ PacketLen \in 1..PacketLen
  BY <1>1, LenFacts
<1>3. ASSUME NEW i \in DOMAIN p
      PROVE  /\ \A d \in 1..(PacketLen - p[i][3]) :
                    i + d <= Len(p) => p[i + d] = <<p[i][1], p[i][2], p[i][3] + d>>
             /\ p[i][3] = PacketLen /\ i < Len(p) => p[i + 1][3] = 1
             /\ p[i][2] <= S[p[i][1]]
  <2>1. p[i] = <<s, n, i>> /\ i \in 1..PacketLen
    BY <1>1
  <2>2. \A d \in 1..(PacketLen - i) : p[i + d] = <<s, n, i + d>>
    BY <1>1, <2>1, LenFacts
  <2> QED
    BY <1>1, <2>1, <2>2
<1>4. Chained(p) /\ Genuine(p, S)
  BY <1>3 DEF Chained, Genuine
<1> QED
  BY <1>1, <1>2, <1>4 DEF Whole, p

\* From byte number a on a run reads like the packet of its first byte.
LEMMA ReadsAs ==
    ASSUME NEW q \in Seq(Bytes), Chained(q), NEW m \in Nat, m >= 1, m <= Len(q),
           NEW a \in 1..PacketLen, q[1][3] = a, a + m - 1 <= PacketLen
    PROVE  \A i \in 1..m : q[i] = <<q[1][1], q[1][2], a + i - 1>>
<1> SUFFICES ASSUME NEW i \in 1..m PROVE q[i] = <<q[1][1], q[1][2], a + i - 1>>
  OBVIOUS
<1>1. 1 \in DOMAIN q /\ q[1] \in Bytes
  OBVIOUS
<1>2. CASE i = 1
  BY <1>1, <1>2, ByteFields, LenFacts
<1>3. CASE i # 1
  <2>1. i - 1 \in 1..(PacketLen - q[1][3]) /\ 1 + (i - 1) <= Len(q)
    BY <1>3, LenFacts
  <2>2. q[1 + (i - 1)] = <<q[1][1], q[1][2], q[1][3] + (i - 1)>>
    BY <1>1, <2>1 DEF Chained
  <2> QED
    BY <2>2, LenFacts
<1> QED
  BY <1>2, <1>3

LEMMA EmptyIsRun == /\ <<>> \in Seq(Bytes) /\ Chained(<<>>) /\ Whole(<<>>)
                    /\ \A S : Genuine(<<>>, S)
  BY DEF Chained, Whole, Genuine

\* What is cut off at the front of q \o r comes from q, or is all of q.
LEMMA CutFirst ==
    ASSUME NEW q \in Seq(Bytes), NEW r \in Seq(Bytes), NEW m \in Nat, m <= Len(q)
    PROVE  SubSeq(q \o r, m + 1, Len(q \o r)) = SubSeq(q, m + 1, Len(q)) \o r
<1> DEFINE a == SubSeq(q, m + 1, Len(q))
           l == SubSeq(q \o r, m + 1, Len(q \o r))
<1>1. /\ q \o r \in Seq(Bytes) /\ Len(q \o r) = Len(q) + Len(r)
      /\ \A i \in 1..Len(q) : (q \o r)[i] = q[i]
      /\ \A i \in 1..Len(r) : (q \o r)[Len(q) + i] = r[i]
  BY Joined
<1>2. /\ a \in Seq(Bytes) /\ Len(a) = Len(q) - m
      /\ \A i \in 1..(Len(q) - m) : a[i] = q[m + i]
  BY Parts
<1>3. /\ l \in Seq(Bytes) /\ Len(l) = Len(q) + Len(r) - m
      /\ \A i \in 1..(Len(q) + Len(r) - m) : l[i] = (q \o r)[m + i]
  BY <1>1, Parts
<1> HIDE DEF a, l
<1>4. /\ a \o r \in Seq(Bytes) /\ Len(a \o r) = Len(a) + Len(r)
      /\ \A i \in 1..Len(a) : (a \o r)[i] = a[i]
      /\ \A i \in 1..Len(r) : (a \o r)[Len(a) + i] = r[i]
  BY <1>2, Joined
<1>5. ASSUME NEW i \in 1..Len(l) PROVE l[i] = (a \o r)[i]
  <2>1. CASE i <= Len(q) - m
    <3>1. m + i \in 1..Len(q) /\ i \in 1..Len(a)
      BY <1>2, <2>1
    <3> QED
      BY <1>1, <1>2, <1>3, <1>4, <3>1
  <2>2. CASE i > Len(q) - m
    <3>1. PICK j \in 1..Len(r) : i = Len(a) + j /\ m + i = Len(q) + j
      <4>1. i - Len(a) \in 1..Len(r) /\ i = Len(a) + (i - Len(a)) /\ m + i = Len(q) + (i - Len(a))
        BY <1>2, <1>3, <2>2
      <4> QED
        BY <4>1
    <3> QED
      BY <1>1, <1>3, <1>4, <3>1
  <2> QED
    BY <1>2, <1>3, <2>1, <2>2
<1>6. l = a \o r
  <2>1. Len(l) = Len(a \o r)
    BY <1>2, <1>3, <1>4
  <2> QED
    BY <1>3, <1>4, <1>5, <2>1, SeqEqual
<1> QED
  BY <1>6 DEF a, l

LEMMA CutSecond ==
    ASSUME NEW q \in Seq(Bytes), NEW r \in Seq(Bytes), NEW m \in Nat, m <= Len(r)
    PROVE  /\ SubSeq(q \o r, Len(q) + m + 1, Len(q \o r)) = SubSeq(r, m + 1, Len(r))
           /\ SubSeq(q \o r, 1, Len(q) + m) = q \o SubSeq(r, 1, m)
<1> DEFINE a == SubSeq(r, m + 1, Len(r))
           b == SubSeq(r, 1, m)
           l == SubSeq(q \o r, Len(q) + m + 1, Len(q \o r))
           k == SubSeq(q \o r, 1, Len(q) + m)
<1>1. /\ q \o r \in Seq(Bytes) /\ Len(q \o r) = Len(q) + Len(r)
      /\ \A i \in 1..Len(q) : (q \o r)[i] = q[i]
      /\ \A i \in 1..Len(r) : (q \o r)[Len(q) + i] = r[i]
  BY Joined
<1>2. /\ a \in Seq(Bytes) /\ Len(a) = Len(r) - m
      /\ \A i \in 1..(Len(r) - m) : a[i] = r[m + i]
      /\ b \in Seq(Bytes) /\ Len(b) = m
      /\ \A i \in 1..m : b[i] = r[i]
  BY Parts
<1>3. /\ l \in Seq(Bytes) /\ Len(l) = Len(r) - m
      /\ \A i \in 1..(Len(r) - m) : l[i] = (q \o r)[Len(q) + m + i]
      /\ k \in Seq(Bytes) /\ Len(k) = Len(q) + m
      /\ \A i \in 1..(Len(q) + m) : k[i] = (q \o r)[i]
  <2> DEFINE u == q \o r
             n == Len(q) + m
  <2>1. u \in Seq(Bytes) /\ n \in Nat /\ n <= Len(u) /\ Len(u) - n = Len(r) - m
    BY <1>1
  <2>2. l = SubSeq(u, n + 1, Len(u)) /\ k = SubSeq(u, 1, n)
    OBVIOUS
  <2> HIDE DEF u, n, k, l
  <2>3. /\ SubSeq(u, 1, n) \in Seq(Bytes) /\ Len(SubSeq(u, 1, n)) = n
        /\ \A i \in 1..n : SubSeq(u, 1, n)[i] = u[i]
        /\ SubSeq(u, n + 1, Len(u)) \in Seq(Bytes) /\ Len(SubSeq(u, n + 1, Len(u))) = Len(u) - n
        /\ \A i \in 1..(Len(u) - n) : SubSeq(u, n + 1, Len(u))[i] = u[n + i]
    BY <2>1, Parts
  <2>4. /\ l \in Seq(Bytes) /\ Len(l) = Len(r) - m
        /\ \A i \in 1..(Len(r) - m) : l[i] = u[n + i]
        /\ k \in Seq(Bytes) /\ Len(k) = n
        /\ \A i \in 1..n : k[i] = u[i]
    BY <2>1, <2>2, <2>3
  <2> QED
    BY <2>4 DEF u, n
<1> HIDE DEF a, b, k, l
<1>4. /\ q \o b \in Seq(Bytes) /\ Len(q \o b) = Len(q) + Len(b)
      /\ \A i \in 1..Len(q) : (q \o b)[i] = q[i]
      /\ \A i \in 1..Len(b) : (q \o b)[Len(q) + i] = b[i]
  BY <1>2, Joined
<1>5. ASSUME NEW i \in 1..Len(l) PROVE l[i] = a[i]
  <2>1. i \in 1..(Len(r) - m)
    BY <1>3
  <2>2. PICK j \in 1..Len(r) : j = m + i /\ Len(q) + m + i = Len(q) + j
    <3>1. m + i \in 1..Len(r) /\ Len(q) + m + i = Len(q) + (m + i)
      BY <2>1
    <3> QED
      BY <3>1
  <2>3. l[i] = (q \o r)[Len(q) + j] /\ a[i] = r[j]
    BY <1>2, <1>3, <2>1, <2>2
  <2> QED
    BY <1>1, <2>2, <2>3
<1>6. ASSUME NEW i \in 1..Len(k) PROVE k[i] = (q \o b)[i]
  <2>0. i \in 1..(Len(q) + m) /\ k[i] = (q \o r)[i]
    BY <1>3
  <2>1. CASE i <= Len(q)
    <3>1. i \in 1..Len(q)
      BY <2>0, <2>1
    <3> QED
      BY <1>1, <1>4, <2>0, <3>1
  <2>2. CASE i > Len(q)
    <3>1. PICK j \in 1..m : i = Len(q) + j
      <4>1. i - Len(q) \in 1..m /\ i = Len(q) + (i - Len(q))
        BY <2>0, <2>2
      <4> QED
        BY <4>1
    <3>2. j \in 1..Len(r) /\ j \in 1..Len(b) /\ i \in 1..(Len(q) + m)
      BY <1>2, <3>1
    <3>3. (q \o r)[i] = r[j]
      BY <1>1, <3>1, <3>2
    <3>4. (q \o b)[i] = b[j]
      BY <1>4, <3>1, <3>2
    <3>5. b[j] = r[j]
      BY <1>2, <3>1
    <3> QED
      BY <2>0, <3>3, <3>4, <3>5
  <2>3. i <= Len(q) \/ i > Len(q)
    <3>1. i \in Int /\ Len(q) \in Int
      BY <2>0
    <3> QED
      BY <3>1
  <2> QED
    BY <2>1, <2>2, <2>3
<1>7. l = a
  BY <1>2, <1>3, <1>5, SeqEqual
<1>8. k = q \o b
  BY <1>2, <1>3, <1>4, <1>6, SeqEqual
<1> QED
  BY <1>7, <1>8 DEF a, b, k, l

----------------------------------------------------------------------------
(* The bytes under way, step by step.                                      *)

\* The three stretches in which the bytes lie.
LEMMA InFlightFacts ==
    ASSUME BaseInv
    PROVE  /\ data \in Seq(Bytes) /\ buf \in Seq(Bytes) /\ OnWire \in Seq(Bytes)
           /\ data \o buf \in Seq(Bytes) /\ Len(data \o buf) = Len(data) + Len(buf)
           /\ InFlight = (data \o buf) \o OnWire /\ InFlight \in Seq(Bytes)
           /\ Len(InFlight) = Len(data) + Len(buf) + Len(OnWire)
<1>1. data \in Seq(Bytes) /\ buf \in Seq(Bytes) /\ OnWire \in Seq(Bytes)
  BY EmptyIsRun DEF BaseInv, TypeOK, OnWire
<1>2. data \o buf \in Seq(Bytes) /\ Len(data \o buf) = Len(data) + Len(buf)
  BY <1>1
<1>3. InFlight = (data \o buf) \o OnWire
  BY DEF InFlight, OnWire
<1> QED
  BY <1>1, <1>2, <1>3, Joined

\* r is what is left of q when something is cut off at its ends.
PartOf(r, q) ==
    /\ r \in Seq(Bytes)
    /\ \E m \in Nat : m + Len(r) <= Len(q) /\ \A i \in 1..Len(r) : r[i] = q[m + i]

LEMMA EndsOf ==
    ASSUME NEW q \in Seq(Bytes), NEW r \in Seq(Bytes)
    PROVE  PartOf(q, q \o r) /\ PartOf(r, q \o r) /\ PartOf(q, q) /\ PartOf(<<>>, q)
<1>1. /\ Len(q \o r) = Len(q) + Len(r) /\ Len(q) \in Nat /\ Len(r) \in Nat
      /\ \A i \in 1..Len(q) : (q \o r)[i] = q[i]
      /\ \A i \in 1..Len(r) : (q \o r)[Len(q) + i] = r[i]
  BY Joined
<1>2. 0 + Len(q) <= Len(q \o r) /\ \A i \in 1..Len(q) : q[i] = (q \o r)[0 + i]
  BY <1>1
<1>3. Len(q) + Len(r) <= Len(q \o r) /\ \A i \in 1..Len(r) : r[i] = (q \o r)[Len(q) + i]
  BY <1>1
<1>4. 0 + Len(q) <= Len(q) /\ \A i \in 1..Len(q) : q[i] = q[0 + i]
  BY <1>1
<1>5. <<>> \in Seq(Bytes) /\ 0 + Len(<<>>) <= Len(q) /\ \A i \in 1..Len(<<>>) : <<>>[i] = q[0 + i]
  BY <1>1
<1>6. PartOf(q, q \o r) /\ PartOf(q, q)
  BY <1>2, <1>4 DEF PartOf
<1>7. PartOf(r, q \o r)
  BY <1>1, <1>3 DEF PartOf
<1>8. PartOf(<<>>, q)
  BY <1>5 DEF PartOf
<1> QED
  BY <1>6, <1>7, <1>8

LEMMA Cut ==
    ASSUME NEW q \in Seq(Bytes), NEW m \in Nat, m <= Len(q)
    PROVE  q = SubSeq(q, 1, m) \o SubSeq(q, m + 1, Len(q))
<1>1. 1 \in 1..(Len(q) + 1) /\ m \in (1 - 1)..Len(q) /\ Len(q) \in m..Len(q)
  OBVIOUS
<1>2. SubSeq(q, 1, m) \o SubSeq(q, m + 1, Len(q)) = SubSeq(q, 1, Len(q))
  BY <1>1, ConcatAdjacentSubSeq
<1>3. SubSeq(q, 1, Len(q)) = q
  OBVIOUS
<1> QED
  BY <1>2, <1>3

\* With nothing kept, the bytes under way are those of the buffer and the wire.
LEMMA NothingKept ==
    ASSUME data' = <<>>, buf' \in Seq(Bytes)
    PROVE  InFlight' = buf' \o OnWire'
<1>1. InFlight' = (<<>> \o buf') \o OnWire'
  BY DEF InFlight, OnWire
<1>2. <<>> \o buf' = buf'
  BY ConcatEmptySeq
<1> QED
  BY <1>1, <1>2

\* The assembler takes a marker, or the bytes it has when they are fewer.
LEMMA MarkerTaken ==
    ASSUME BaseInv, TakeMarker
    PROVE  PartOf(InFlight', InFlight)
<1> DEFINE m == IF Len(buf) < MarkerLen THEN Len(buf) ELSE MarkerLen
           f == SubSeq(buf, 1, m)
           g == SubSeq(buf, m + 1, Len(buf))
<1>1. m \in Nat /\ m <= Len(buf) /\ buf \in Seq(Bytes) /\ Len(buf) \in Nat
  BY InFlightFacts, LenFacts
<1>2. buf' = g /\ g \in Seq(Bytes) /\ data' = <<>> /\ OnWire' = OnWire
  <2>1. buf' = SubSeq(buf, MarkerLen + 1, Len(buf)) /\ data' = <<>> /\ UNCHANGED <<conn, wire>>
    BY DEF TakeMarker
  <2>2. CASE Len(buf) < MarkerLen
    <3>1. buf' = <<>>
      BY <1>1, <2>1, <2>2, LenFacts, NothingAfter
    <3>2. g = <<>>
      <4>1. m + 1 \in Nat /\ m + 1 > Len(buf)
        BY <1>1, <2>2
      <4> QED
        BY <1>1, <4>1, NothingAfter
    <3> HIDE DEF g
    <3> QED
      BY <2>1, <3>1, <3>2, EmptyIsRun DEF OnWire
  <2>3. CASE ~(Len(buf) < MarkerLen)
    <3>1. m = MarkerLen
      BY <2>3
    <3> QED
      BY <1>1, <2>1, <3>1, Parts DEF OnWire
  <2> QED
    BY <2>2, <2>3
<1>3. /\ data \o f \in Seq(Bytes) /\ g \o OnWire \in Seq(Bytes)
      /\ InFlight = (data \o f) \o (g \o OnWire)
  <2>1. data \in Seq(Bytes) /\ OnWire \in Seq(Bytes)
    BY InFlightFacts
  <2> HIDE DEF m
  <2>2. f \in Seq(Bytes) /\ g \in Seq(Bytes) /\ buf = f \o g
    BY <1>1, Parts, Cut
  <2>3. Len(f) = m
    BY <1>1, Parts
  <2> DEFINE a == data \o f
             w == OnWire
  <2> HIDE DEF f, g
  <2>4. data \o (f \o g) = a \o g
    BY <2>1, <2>2, Regroup
  <2>5. a \in Seq(Bytes) /\ Len(a) = Len(data) + Len(f) /\ g \in Seq(Bytes) /\ w \in Seq(Bytes)
    BY <2>1, <2>2, Joined
  <2>6. InFlight = (data \o (f \o g)) \o w
    BY <2>2, InFlightFacts
  <2> HIDE DEF a, w
  <2>7. (a \o g) \o w = a \o (g \o w) /\ g \o w \in Seq(Bytes)
    BY <2>5, ConcatAssociative
  <2> QED
    BY <2>3, <2>4, <2>5, <2>6, <2>7 DEF a, w
<1> HIDE DEF m, f, g
<1>4. InFlight' = g \o OnWire
  BY <1>2, NothingKept
<1> QED
  BY <1>3, <1>4, EndsOf

\* With a length it refuses the assembler has kept nothing yet.
LEMMA BytesRefused ==
    ASSUME BaseInv, RefuseLength
    PROVE  PartOf(InFlight', InFlight)
<1>1. /\ data = <<>> /\ data' = <<>> /\ buf' = <<>> /\ OnWire' = OnWire
      /\ buf \in Seq(Bytes) /\ OnWire \in Seq(Bytes)
  BY InFlightFacts DEF RefuseLength, asmVars, OnWire, BaseInv
<1>2. InFlight' = OnWire
  <2>1. InFlight' = <<>> \o OnWire
    BY <1>1, NothingKept
  <2> QED
    BY <1>1, <2>1, ConcatEmptySeq
<1>3. InFlight = buf \o OnWire
  <2>1. <<>> \o buf = buf
    BY <1>1, ConcatEmptySeq
  <2> QED
    BY <1>1, <2>1, InFlightFacts
<1> QED
  BY <1>1, <1>2, <1>3, EndsOf

\* A packet of whatever length is the first of the bytes under way.
LEMMA PacketTaken ==
    ASSUME BaseInv, CompletePacket
    PROVE  /\ total \in Nat /\ Assembled \in Seq(Bytes) /\ Len(Assembled) = total
           /\ InFlight' \in Seq(Bytes) /\ InFlight = Assembled \o InFlight'
           /\ OnWire' = OnWire
<1> DEFINE m == total - Len(data)
           f == SubSeq(buf, 1, m)
           g == SubSeq(buf, m + 1, Len(buf))
<1>1. /\ m \in Nat /\ m <= Len(buf) /\ buf \in Seq(Bytes) /\ data \in Seq(Bytes)
      /\ total \in Nat /\ Len(data) + m = total
  BY InFlightFacts DEF CompletePacket, BaseInv, TypeOK
<1>2. buf' = g /\ data' = <<>> /\ OnWire' = OnWire
  BY DEF CompletePacket, OnWire
<1>3. Assembled = data \o f
  BY DEF Assembled
<1>4. /\ Assembled \in Seq(Bytes) /\ Len(Assembled) = total /\ g \in Seq(Bytes)
      /\ g \o OnWire \in Seq(Bytes) /\ InFlight = Assembled \o (g \o OnWire)
  <2>1. data \in Seq(Bytes) /\ OnWire \in Seq(Bytes)
    BY InFlightFacts
  <2> HIDE DEF m
  <2>2. f \in Seq(Bytes) /\ g \in Seq(Bytes) /\ buf = f \o g
    BY <1>1, Parts, Cut
  <2>3. Len(f) = m
    BY <1>1, Parts
  <2> DEFINE a == data \o f
             w == OnWire
  <2> HIDE DEF f, g
  <2>4. data \o (f \o g) = a \o g
    BY <2>1, <2>2, Regroup
  <2>5. a \in Seq(Bytes) /\ Len(a) = Len(data) + Len(f) /\ g \in Seq(Bytes) /\ w \in Seq(Bytes)
    BY <2>1, <2>2, Joined
  <2>6. InFlight = (data \o (f \o g)) \o w
    BY <2>2, InFlightFacts
  <2> HIDE DEF a, w
  <2>7. (a \o g) \o w = a \o (g \o w) /\ g \o w \in Seq(Bytes)
    BY <2>5, ConcatAssociative
  <2> QED
    BY <1>1, <1>3, <2>3, <2>4, <2>5, <2>6, <2>7 DEF a, w
<1> HIDE DEF m, f, g
<1>5. InFlight' = g \o OnWire
  BY <1>2, <1>4, NothingKept
<1> QED
  BY <1>1, <1>2, <1>4, <1>5

\* What is kept stays under way.
LEMMA PartKept ==
    ASSUME BaseInv, KeepPart
    PROVE  InFlight' = InFlight /\ OnWire' = OnWire
<1>1. data' = data \o buf /\ buf' = <<>> /\ OnWire' = OnWire
  BY DEF KeepPart, OnWire
<1>2. InFlight' = ((data \o buf) \o <<>>) \o OnWire
  BY <1>1 DEF InFlight, OnWire
<1>3. (data \o buf) \o <<>> = data \o buf
  BY InFlightFacts, ConcatEmptySeq
<1> QED
  BY <1>1, <1>2, <1>3, InFlightFacts

\* A receive moves bytes from the wire to the buffer.
LEMMA BytesReceived ==
    ASSUME BaseInv, NEW k \in 1..Capacity, Receive(k)
    PROVE  /\ InFlight' = InFlight
           /\ conn # NoConn /\ OnWire = wire[conn] /\ OnWire \in Seq(Bytes) /\ k <= Len(OnWire)
           /\ OnWire' = SubSeq(OnWire, k + 1, Len(OnWire)) /\ buf' = SubSeq(OnWire, 1, k)
<1> DEFINE a == SubSeq(OnWire, 1, k)
           b == SubSeq(OnWire, k + 1, Len(OnWire))
<1>1. /\ conn \in Conns /\ conn # NoConn /\ k \in 1..Len(wire[conn]) /\ k \in Nat /\ buf = <<>>
      /\ buf' = SubSeq(wire[conn], 1, k) /\ conn' = conn /\ data' = data
      /\ wire' = [wire EXCEPT ![conn] = SubSeq(wire[conn], k + 1, Len(wire[conn]))]
      /\ wire \in [Conns -> Seq(Bytes)]
  BY DEF Receive, asmVars, BaseInv, TypeOK
<1>2. OnWire = wire[conn] /\ OnWire' = b /\ buf' = a /\ OnWire \in Seq(Bytes) /\ k <= Len(OnWire)
  BY <1>1 DEF OnWire
<1>3. a \in Seq(Bytes) /\ b \in Seq(Bytes) /\ OnWire = a \o b
  BY <1>1, <1>2, Parts, Cut
<1> HIDE DEF a, b
<1>4. data \in Seq(Bytes) /\ InFlight = data \o OnWire
  <2>1. data \in Seq(Bytes) /\ InFlight = (data \o buf) \o OnWire
    BY InFlightFacts
  <2>2. data \o buf = data
    BY <1>1, <2>1, ConcatEmptySeq
  <2> QED
    BY <2>1, <2>2
<1>5. InFlight' = (data \o a) \o b
  BY <1>1, <1>2 DEF InFlight, OnWire
<1>6. (data \o a) \o b = data \o (a \o b)
  BY <1>3, <1>4, Regroup
<1>7. InFlight' = InFlight
  BY <1>3, <1>4, <1>5, <1>6
<1> QED
  BY <1>1, <1>2, <1>7 DEF a, b

\* The client gets a connection, or does without.
LEMMA ConnectionMoves ==
    ASSUME BaseInv, LinkInv,
           \/ Connect \/ Refused \/ Disconnect \/ StopProxy
           \/ \E c \in Conns : Handshake(c)
    PROVE  /\ InFlight' \in {InFlight, <<>>}
           /\ Refused \/ Disconnect \/ StopProxy \/ (\E c \in Conns : Handshake(c))
                 => data' = <<>> /\ buf' = <<>> /\ OnWire' = <<>> /\ ~valid' /\ InFlight' = <<>>
<1>0. data' = <<>> /\ buf' = <<>> /\ OnWire' = <<>> => InFlight' = <<>>
  <2>1. <<>> \in Seq(Bytes) /\ <<>> \o <<>> = <<>>
    OBVIOUS
  <2> QED
    BY <2>1, NothingKept
<1>1. Connect => InFlight' = InFlight
  BY DEF Connect, asmVars, InFlight
<1>2. Refused => data' = <<>> /\ buf' = <<>> /\ OnWire' = <<>> /\ ~valid'
  BY DEF Refused, ClearDataCache, BaseInv, LinkInv, OnWire
<1>3. Disconnect \/ StopProxy => data' = <<>> /\ buf' = <<>> /\ OnWire' = <<>> /\ ~valid'
  BY DEF Disconnect, StopProxy, ClearDataCache, CloseProxySocket, OnWire
<1>4. ASSUME NEW c \in Conns, Handshake(c)
      PROVE  data' = <<>> /\ buf' = <<>> /\ OnWire' = <<>> /\ ~valid'
  <2>1. /\ conn = NoConn /\ conn' = c /\ c # NoConn /\ link[c] = "free" /\ wire' = wire
        /\ buf' = buf /\ data' = data /\ valid' = valid
    BY <1>4, RemoteAssumption DEF Handshake, asmVars, BaseInv
  <2> QED
    BY <2>1 DEF LinkInv, OnWire
<1> QED
  BY <1>0, <1>1, <1>2, <1>3, <1>4

\* A connection breaks, and what was on its wire is lost.
LEMMA BytesLost ==
    ASSUME BaseInv, NEW c \in Conns, Break(c)
    PROVE  IF conn = c THEN OnWire' = <<>> /\ InFlight' = data \o buf
                       ELSE OnWire' = OnWire /\ InFlight' = InFlight
<1>1. /\ wire' = [wire EXCEPT ![c] = <<>>] /\ UNCHANGED <<conn, buf, data>>
      /\ wire \in [Conns -> Seq(Bytes)] /\ c # NoConn
  BY RemoteAssumption DEF Break, asmVars, proxyVars, BaseInv, TypeOK
<1>2. CASE conn # c
  <2>1. conn # NoConn => wire'[conn] = wire[conn]
    BY <1>1, <1>2 DEF BaseInv, TypeOK
  <2> QED
    BY <1>1, <1>2, <2>1 DEF OnWire, InFlight
<1>3. CASE conn = c
  <2>1. OnWire' = <<>>
    BY <1>1, <1>3 DEF OnWire
  <2>2. InFlight' = (data \o buf) \o <<>>
    BY <1>1, <2>1 DEF InFlight, OnWire
  <2>3. (data \o buf) \o <<>> = data \o buf
    BY InFlightFacts, ConcatEmptySeq
  <2> QED
    BY <1>3, <2>1, <2>2, <2>3
<1> QED
  BY <1>2, <1>3

\* The server closes its sockets: what is on the client's wire stays there.
LEMMA CloseLeavesWire ==
    ASSUME BaseInv, NEW S \in SUBSET Conns, CloseSockets(S), UNCHANGED <<conn, buf, data>>
    PROVE  /\ OnWire' = OnWire /\ InFlight' = InFlight
           /\ conn # NoConn => (link'[conn] = "up" => link[conn] = "up")
<1>1. /\ \A c \in Conns : link'[c] = IF c \notin S THEN link[c]
                                       ELSE IF conn = c THEN "shut" ELSE "free"
      /\ \A c \in Conns : wire'[c] = IF c \in S /\ conn # c THEN <<>> ELSE wire[c]
      /\ conn \in Conns \cup {NoConn}
  BY DEF CloseSockets, BaseInv, TypeOK
<1> QED
  BY <1>1 DEF OnWire, InFlight

\* A part of the next frame of s, the first k bytes of its packet, follows all
\* the bytes under way; where it is not all of it the packet was cut.
SendsPart(s, k) ==
    LET part == SubSeq(Packet(s, sent[s] + 1), 1, k)
    IN  /\ OnWire' = OnWire \o part /\ InFlight' = InFlight \o part
        /\ k > 0 => conn # NoConn /\ link[conn] = "up"
        /\ k \in 1..(PacketLen - 1) => cut'

\* Nothing is sent, or a part of the next frame of s is.
SendsAtMost(s) ==
    \/ UNCHANGED <<sent, OnWire, InFlight>>
    \/ /\ sent[s] + 1 \in 1..MaxFrames
       /\ sent' = [sent EXCEPT ![s] = sent[s] + 1]
       /\ \E k \in 0..PacketLen : SendsPart(s, k)

\* A frame sent on some connections, the client's among them or not.
LEMMA BytesSent ==
    ASSUME BaseInv, NEW s \in Streams, SendImage(s)
    PROVE  SendsAtMost(s) /\ UNCHANGED <<conn, buf, data, valid, total, link>> /\ (cut => cut')
<1>0. UNCHANGED <<conn, buf, data, valid, total, link>> /\ (cut => cut')
  BY DEF SendImage, asmVars, proxyVars
<1>1. CASE ~(Cardinality(Frames) < MaxFrames)
  BY <1>0, <1>1 DEF SendImage, SendsAtMost, OnWire, InFlight
<1>2. CASE Cardinality(Frames) < MaxFrames
  <2> DEFINE n == sent[s] + 1
             p == Packet(s, n)
  <2>1. n \in 1..MaxFrames /\ sent' = [sent EXCEPT ![s] = n]
    BY <1>2, RoomForOne DEF BaseInv, SendImage
  <2>2. PICK taken \in [clients -> 0..PacketLen] :
           /\ \A c \in clients : taken[c] \in Takes(c)
           /\ wire' = [c \in Conns |-> IF c \in clients
                          THEN SendData(c, Packet(s, sent[s] + 1), taken[c]) ELSE wire[c]]
           /\ cut' = (cut \/ \E c \in clients : taken[c] \in 1..(PacketLen - 1))
    BY <1>2 DEF SendImage
  <2>3. p \in Seq(Bytes) /\ Len(p) = PacketLen
    BY <2>1, PacketFacts
  <2>4. \A k \in 0..PacketLen : SubSeq(p, 1, k) \in Seq(Bytes)
    <3> TAKE k \in 0..PacketLen
    <3>1. k \in Nat /\ k <= Len(p)
      BY <2>3, LenFacts
    <3> HIDE DEF p
    <3> QED
      BY <2>3, <3>1, Parts
  <2>5. /\ InFlight \in Seq(Bytes) /\ OnWire \in Seq(Bytes)
        /\ data \o buf \in Seq(Bytes) /\ InFlight = (data \o buf) \o OnWire
    BY InFlightFacts
  <2>6. CASE conn \in clients
    <3> DEFINE k == taken[conn]
               part == SubSeq(p, 1, k)
    <3>1. conn \in Conns /\ conn # NoConn /\ k \in 0..PacketLen /\ k \in Takes(conn)
          /\ part \in Seq(Bytes)
      BY <2>2, <2>4, <2>6, RemoteAssumption DEF BaseInv, TypeOK
    <3>2. OnWire' = OnWire \o part
      BY <1>0, <2>2, <2>6, <3>1 DEF OnWire, SendData
    <3> HIDE DEF p
    <3>3. InFlight' = InFlight \o part
      <4>1. InFlight' = (data \o buf) \o (OnWire \o part)
        BY <1>0, <3>2 DEF InFlight, OnWire
      <4> DEFINE a == data \o buf
                 w == OnWire
      <4>2. a \in Seq(Bytes) /\ w \in Seq(Bytes)
        BY <2>5
      <4> HIDE DEF a, w, part
      <4>3. a \o (w \o part) = (a \o w) \o part
        BY <3>1, <4>2, Regroup
      <4> QED
        BY <2>5, <4>1, <4>3 DEF a, w
    <3>4. k > 0 => link[conn] = "up"
      BY <3>1 DEF Takes
    <3>5. k \in 1..(PacketLen - 1) => cut'
      BY <2>2, <2>6
    <3>6. SendsPart(s, k)
      BY <3>1, <3>2, <3>3, <3>4, <3>5 DEF SendsPart, p
    <3> QED
      BY <1>0, <2>1, <3>1, <3>6 DEF SendsAtMost
  <2>7. CASE conn \notin clients
    <3>1. OnWire' = OnWire /\ InFlight' = InFlight
      <4>1. conn \in Conns => wire'[conn] = wire[conn]
        BY <2>2, <2>7
      <4>2. conn \in Conns \cup {NoConn}
        BY DEF BaseInv, TypeOK
      <4> QED
        BY <1>0, <4>1, <4>2 DEF OnWire, InFlight
    <3>2. SubSeq(p, 1, 0) = <<>>
      <4> HIDE DEF p
      <4> QED
        BY <2>3
    <3>3. OnWire \o <<>> = OnWire /\ InFlight \o <<>> = InFlight
      BY <2>5, ConcatEmptySeq
    <3>4. SendsPart(s, 0)
      <4>1. OnWire' = OnWire \o SubSeq(p, 1, 0) /\ InFlight' = InFlight \o SubSeq(p, 1, 0)
        <5> HIDE DEF p
        <5> QED
          BY <3>1, <3>2, <3>3
      <4>2. ~(0 > 0) /\ 0 \notin 1..(PacketLen - 1)
        BY LenFacts
      <4> QED
        BY <4>1, <4>2 DEF SendsPart
    <3>5. 0 \in 0..PacketLen
      BY LenFacts
    <3> QED
      BY <1>0, <2>1, <3>4, <3>5 DEF SendsAtMost
  <2> QED
    BY <2>6, <2>7
<1> QED
  BY <1>1, <1>2

\* All that the provider does to the bytes under way.
LEMMA ProviderBytes ==
    ASSUME BaseInv, Provider
    PROVE  UNCHANGED <<sent, OnWire, InFlight>> \/ \E s \in Streams : SendsAtMost(s)
<1>1. ASSUME NEW s \in Streams, PushImage(s)
      PROVE  UNCHANGED <<sent, OnWire, InFlight>> \/ SendsAtMost(s)
  <2>1. CASE StopOldClients(s)
    BY <2>1 DEF StopOldClients, asmVars, proxyVars, OnWire, InFlight
  <2>2. CASE EraseOldClients(s)
    <3> DEFINE S == {c \in clients : ~working[c]}
    <3>1. S \in SUBSET Conns /\ CloseSockets(S) /\ UNCHANGED <<conn, buf, data, sent>>
      BY <2>2 DEF EraseOldClients, JoinAndErase, asmVars, proxyVars, BaseInv, TypeOK
    <3> HIDE DEF S
    <3> QED
      BY <3>1, CloseLeavesWire
  <2>3. CASE SendImage(s)
    BY <2>3, BytesSent
  <2> QED
    BY <1>1, <2>1, <2>2, <2>3 DEF PushImage
<1>2. ASSUME NEW c \in Conns, Accept(c) PROVE UNCHANGED <<sent, OnWire, InFlight>>
  <2>1. UNCHANGED <<conn, buf, data, sent>> /\ {c} \in SUBSET Conns
    BY <1>2 DEF Accept, asmVars, proxyVars
  <2>2. wire' = wire \/ CloseSockets({c})
    BY <1>2 DEF Accept
  <2>3. CASE wire' = wire
    BY <2>1, <2>3 DEF OnWire, InFlight
  <2>4. CASE CloseSockets({c})
    BY <2>1, <2>4, CloseLeavesWire
  <2> QED
    BY <2>2, <2>3, <2>4
<1>3. ASSUME NEW c \in Conns, ConnectionThread(c) PROVE UNCHANGED <<sent, OnWire, InFlight>>
  BY <1>3 DEF ConnectionThread, ConnectionLost, ConnectionEnds, asmVars, proxyVars, OnWire, InFlight
<1>4. CASE StopServer \/ StartServer
  BY <1>4 DEF StopServer, StartServer, asmVars, proxyVars, OnWire, InFlight
<1>5. CASE ServerStopped
  <2> DEFINE S == clients \cup backlog
  <2>1. S \in SUBSET Conns /\ CloseSockets(S) /\ UNCHANGED <<conn, buf, data, sent>>
    BY <1>5 DEF ServerStopped, asmVars, proxyVars, BaseInv, TypeOK
  <2> HIDE DEF S
  <2> QED
    BY <2>1, CloseLeavesWire
<1> QED
  BY <1>1, <1>2, <1>3, <1>4, <1>5 DEF Provider

----------------------------------------------------------------------------
(* What is left between connections.                                       *)

LEMMA NextLink == BaseInv /\ LinkInv /\ [Next]_vars => LinkInv'
<1> SUFFICES ASSUME BaseInv, LinkInv, [Next]_vars PROVE LinkInv'
  OBVIOUS
<1>1. ASSUME UNCHANGED <<link, wire, conn, buf, data, valid>> PROVE LinkInv'
  BY <1>1 DEF LinkInv
<1>2. ASSUME NEW S \in SUBSET Conns, CloseSockets(S), UNCHANGED <<conn, buf, data, valid>>
      PROVE  LinkInv'
  BY <1>2 DEF CloseSockets, LinkInv
<1>3. ASSUME NEW s \in Streams, PushImage(s) PROVE LinkInv'
  <2>1. CASE StopOldClients(s)
    BY <1>1, <2>1 DEF StopOldClients, asmVars, proxyVars
  <2>2. CASE EraseOldClients(s)
    <3> DEFINE S == {c \in clients : ~working[c]}
    <3>1. S \in SUBSET Conns /\ CloseSockets(S) /\ UNCHANGED <<conn, buf, data, valid>>
      BY <2>2 DEF EraseOldClients, JoinAndErase, asmVars, proxyVars, BaseInv, TypeOK
    <3> HIDE DEF S
    <3> QED
      BY <1>2, <3>1
  <2>3. CASE SendImage(s)
    <3>1. UNCHANGED <<link, conn, buf, data, valid>>
      BY <2>3 DEF SendImage, asmVars, proxyVars
    <3>2. ASSUME NEW c \in Conns, link[c] = "free" PROVE wire'[c] = <<>>
      <4>1. wire[c] = <<>>
        BY <3>2 DEF LinkInv
      <4>2. CASE wire' = wire
        BY <4>1, <4>2
      <4>3. CASE Cardinality(Frames) < MaxFrames
        <5>1. PICK taken \in [clients -> 0..PacketLen] :
                 /\ \A d \in clients : taken[d] \in Takes(d)
                 /\ wire' = [d \in Conns |-> IF d \in clients
                        THEN SendData(d, Packet(s, sent[s] + 1), taken[d]) ELSE wire[d]]
          BY <2>3, <4>3 DEF SendImage
        <5>2. c \in clients => taken[c] = 0
          BY <3>2, <5>1 DEF Takes
        <5>3. SubSeq(Packet(s, sent[s] + 1), 1, 0) = <<>>
          <6>1. Packet(s, sent[s] + 1) \in Seq(Bytes)
            BY <4>3, RoomForOne, PacketFacts DEF BaseInv
          <6> QED
            BY <6>1
        <5>4. c \in clients => wire'[c] = <<>> \o <<>>
          BY <4>1, <5>1, <5>2, <5>3 DEF SendData
        <5>5. <<>> \o <<>> = <<>>
          OBVIOUS
        <5> QED
          BY <4>1, <5>1, <5>4, <5>5
      <4> QED
        BY <2>3, <4>2, <4>3 DEF SendImage
    <3> QED
      BY <3>1, <3>2 DEF LinkInv
  <2> QED
    BY <1>3, <2>1, <2>2, <2>3 DEF PushImage
<1>4. ASSUME NEW c \in Conns, Accept(c) PROVE LinkInv'
  <2>1. UNCHANGED <<conn, buf, data, valid>> /\ {c} \in SUBSET Conns
    BY <1>4 DEF Accept, asmVars, proxyVars
  <2>2. UNCHANGED <<link, wire>> \/ CloseSockets({c})
    BY <1>4 DEF Accept
  <2> QED
    BY <1>1, <1>2, <2>1, <2>2
<1>5. ASSUME NEW c \in Conns, ConnectionThread(c) PROVE LinkInv'
  BY <1>1, <1>5 DEF ConnectionThread, ConnectionLost, ConnectionEnds, asmVars, proxyVars
<1>6. CASE StopServer \/ StartServer \/ Connect \/ UNCHANGED vars
  BY <1>1, <1>6 DEF StopServer, StartServer, Connect, vars, asmVars, proxyVars
<1>7. CASE ServerStopped
  <2> DEFINE S == clients \cup backlog
  <2>1. S \in SUBSET Conns /\ CloseSockets(S) /\ UNCHANGED <<conn, buf, data, valid>>
    BY <1>7 DEF ServerStopped, asmVars, proxyVars, BaseInv, TypeOK
  <2> HIDE DEF S
  <2> QED
    BY <1>2, <2>1
<1>8. CASE ReceiveData
  <2>1. buf # <<>> /\ UNCHANGED <<link, wire, conn>>
    BY <1>8 DEF ReceiveData, TakeMarker, KeepPart, RefuseLength, CompletePacket
  <2> QED
    BY <2>1 DEF LinkInv
<1>9. CASE Refused \/ Disconnect \/ StopProxy
  <2>1. data' = <<>> /\ buf' = <<>> /\ ~valid'
    BY <1>9, ConnectionMoves
  <2>2. UNCHANGED <<link, wire>> \/ CloseProxySocket
    BY <1>9 DEF Refused, Disconnect, StopProxy
  <2>3. \A c \in Conns : link'[c] = "free" => wire'[c] = <<>>
    BY <2>2 DEF CloseProxySocket, LinkInv
  <2> QED
    BY <2>1, <2>3 DEF LinkInv
<1>10. ASSUME NEW c \in Conns, Handshake(c) PROVE LinkInv'
  <2>1. conn' # NoConn /\ wire' = wire /\ link' = [link EXCEPT ![c] = "up"]
    BY <1>10, RemoteAssumption DEF Handshake
  <2>2. link \in [Conns -> {"free", "up", "broken", "shut"}]
    BY DEF BaseInv, TypeOK
  <2> QED
    BY <2>1, <2>2 DEF LinkInv
<1>11. ASSUME NEW k \in 1..Capacity, Receive(k) PROVE LinkInv'
  <2>1. /\ conn \in Conns /\ conn # NoConn /\ k \in 1..Len(wire[conn]) /\ UNCHANGED <<link, conn>>
        /\ wire' = [wire EXCEPT ![conn] = SubSeq(wire[conn], k + 1, Len(wire[conn]))]
    BY <1>11 DEF Receive, BaseInv, TypeOK
  <2>2. link[conn] # "free"
    BY <2>1 DEF LinkInv
  <2>3. \A c \in Conns : c # conn => wire'[c] = wire[c]
    BY <2>1 DEF BaseInv, TypeOK
  <2> QED
    BY <2>1, <2>2, <2>3 DEF LinkInv
<1>12. ASSUME NEW c \in Conns, Break(c) PROVE LinkInv'
  <2>1. /\ link' = [link EXCEPT ![c] = "broken"] /\ wire' = [wire EXCEPT ![c] = <<>>]
        /\ UNCHANGED <<conn, buf, data, valid>>
    BY <1>12 DEF Break, asmVars, proxyVars
  <2>2. \A d \in Conns : link'[d] = "free" => wire'[d] = <<>>
    BY <2>1 DEF LinkInv, BaseInv, TypeOK
  <2> QED
    BY <2>1, <2>2 DEF LinkInv
<1> QED
  BY <1>3, <1>4, <1>5, <1>6, <1>7, <1>8, <1>9, <1>10, <1>11, <1>12 DEF Next, Provider, ProxySteps

----------------------------------------------------------------------------
(* The framing, step by step.                                              *)

\* What StreamInv says of the bytes under way, for some new values.
RunOf(q, w, b, S) ==
    /\ Chained(q) /\ Genuine(q, S) /\ Whole(w)
    /\ q # <<>> => q[1][3] = IF b THEN MarkerLen + 1 ELSE 1

LEMMA StreamParts ==
    StreamInv <=>
        /\ RunOf(InFlight, OnWire, valid, sent)
        /\ conn # NoConn => (link[conn] = "up" => Whole(InFlight) /\ (valid => InFlight # <<>>))
        /\ buf # <<>> => buf[Len(buf)][3] \notin 1..(MarkerLen - 1)
        /\ IF valid THEN total = PayloadLen /\ Len(data) < PayloadLen ELSE data = <<>>
  BY DEF StreamInv, RunOf

LEMMA StreamNext ==
    ASSUME RunOf(InFlight', OnWire', valid', sent'),
           conn' # NoConn => (link'[conn'] = "up" => Whole(InFlight') /\ (valid' => InFlight' # <<>>)),
           buf' # <<>> => buf'[Len(buf')][3] \notin 1..(MarkerLen - 1),
           IF valid' THEN total' = PayloadLen /\ Len(data') < PayloadLen ELSE data' = <<>>
    PROVE  StreamInv'
<1>1. Chained(InFlight)' /\ Genuine(InFlight, sent)' /\ Whole(OnWire)'
  BY DEF RunOf, Chained, Genuine, Whole
<1>2. InFlight' # <<>> => InFlight'[1][3] = IF valid' THEN MarkerLen + 1 ELSE 1
  BY DEF RunOf
<1>3. Whole(InFlight)' <=> Whole(InFlight')
  BY DEF Whole
<1> QED
  BY <1>1, <1>2, <1>3 DEF StreamInv

\* Nothing of the stream changes, but that the connection may come down.
LEMMA StreamStays ==
    ASSUME StreamInv, UNCHANGED <<InFlight, OnWire, conn, buf, data, valid, total, sent>>,
           conn # NoConn => (link'[conn] = "up" => link[conn] = "up")
    PROVE  StreamInv'
<1>1. RunOf(InFlight', OnWire', valid', sent')
  BY StreamParts
<1> QED
  BY <1>1, StreamParts, StreamNext

\* With no bytes under way the invariant holds.
LEMMA EmptyStream ==
    ASSUME data' = <<>>, buf' = <<>>, OnWire' = <<>>, ~valid', InFlight' = <<>>
    PROVE  StreamInv'
<1>1. RunOf(InFlight', OnWire', valid', sent') /\ Whole(InFlight')
  BY EmptyIsRun DEF RunOf
<1> QED
  BY <1>1, StreamNext

\* A connection breaks: no new packet can follow those that are lost.
LEMMA BreakKeepsStream ==
    ASSUME BaseInv, StreamInv, NEW c \in Conns, Break(c)
    PROVE  StreamInv'
<1>1. /\ UNCHANGED <<conn, buf, data, valid, total, sent>>
      /\ \A d \in Conns : link'[d] = IF d = c THEN "broken" ELSE link[d]
      /\ conn \in Conns \cup {NoConn} /\ c # NoConn
  BY RemoteAssumption DEF Break, asmVars, proxyVars, BaseInv, TypeOK
<1>2. CASE conn # c
  BY <1>1, <1>2, BytesLost, StreamStays
<1>3. CASE conn = c
  <2> DEFINE q == data \o buf
  <2>1. /\ q \in Seq(Bytes) /\ OnWire \in Seq(Bytes) /\ InFlight = q \o OnWire
        /\ InFlight \in Seq(Bytes) /\ Len(InFlight) = Len(q) + Len(OnWire)
    BY InFlightFacts
  <2>2. OnWire' = <<>> /\ InFlight' = q
    BY <1>3, BytesLost
  <2> HIDE DEF q
  <2>3. q = SubSeq(InFlight, 1, Len(q)) /\ Len(q) \in Nat /\ Len(q) <= Len(InFlight)
    <3>1. SubSeq(OnWire, 1, 0) = <<>>
      BY <2>1
    <3>2. SubSeq(q \o OnWire, 1, Len(q) + 0) = q \o SubSeq(OnWire, 1, 0)
      BY <2>1, CutSecond
    <3>3. Len(q) + 0 = Len(q) /\ Len(q) <= Len(InFlight)
      BY <2>1
    <3>4. q \o <<>> = q
      BY <2>1, ConcatEmptySeq
    <3> QED
      BY <2>1, <3>1, <3>2, <3>3, <3>4
  <2>4. Chained(q) /\ Genuine(q, sent)
    BY <2>1, <2>3, ChainedPrefix DEF StreamInv
  <2>5. q # <<>> => InFlight # <<>> /\ q[1] = InFlight[1]
    BY <2>1
  <2>6. RunOf(InFlight', OnWire', valid', sent')
    BY <1>1, <2>2, <2>4, <2>5, EmptyIsRun DEF RunOf, StreamInv
  <2>7. link'[conn] # "up"
    BY <1>1, <1>3
  <2> QED
    BY <1>1, <2>6, <2>7, StreamParts, StreamNext
<1> QED
  BY <1>2, <1>3

\* A frame of which each connection that takes a part takes all.
LEMMA SendKeepsStream ==
    ASSUME BaseInv, StreamInv, NEW s \in Streams, SendImage(s), ~cut'
    PROVE  StreamInv'
<1> DEFINE n == sent[s] + 1
<1>0. UNCHANGED <<conn, buf, data, valid, total, link>> /\ SendsAtMost(s)
  BY BytesSent
<1>1. CASE UNCHANGED <<sent, OnWire, InFlight>>
  BY <1>0, <1>1, StreamStays
<1>2. ASSUME n \in 1..MaxFrames, sent' = [sent EXCEPT ![s] = n],
             NEW k \in 0..PacketLen, SendsPart(s, k)
      PROVE  StreamInv'
  <2> DEFINE p == Packet(s, n)
  <2>1. /\ p \in Seq(Bytes) /\ p # <<>> /\ p[1][3] = 1 /\ Len(p) = PacketLen
        /\ Chained(p) /\ Genuine(p, sent') /\ Whole(p)
    <3>1. n <= sent'[s]
      BY <1>2 DEF BaseInv, TypeOK
    <3> QED
      BY <1>2, <3>1, ChainedPacket, PacketFacts
  <2>2. \A t \in Streams : sent[t] <= sent'[t] /\ sent[t] \in Nat /\ sent'[t] \in Nat
    BY <1>2, RemoteAssumption DEF BaseInv, TypeOK
  <2>3. ASSUME NEW q \in Seq(Bytes), Genuine(q, sent) PROVE Genuine(q, sent')
    <3> SUFFICES ASSUME NEW i \in DOMAIN q PROVE q[i][2] <= sent'[q[i][1]]
      BY DEF Genuine
    <3>1. q[i] \in Bytes /\ q[i][2] <= sent[q[i][1]]
      BY <2>3 DEF Genuine
    <3>2. q[i][1] \in Streams /\ q[i][2] \in Nat
      BY <3>1, ByteFields
    <3> QED
      BY <2>2, <3>1, <3>2
  <2>4. RunOf(InFlight, OnWire, valid, sent) /\ InFlight \in Seq(Bytes) /\ OnWire \in Seq(Bytes)
    BY StreamParts, InFlightFacts
  <2>5. Genuine(InFlight, sent')
    BY <2>3, <2>4 DEF RunOf
  <2>6. k = 0 \/ k = PacketLen
    BY <1>2, LenFacts DEF SendsPart
  <2>7. OnWire' = OnWire \o SubSeq(p, 1, k) /\ InFlight' = InFlight \o SubSeq(p, 1, k)
    BY <1>2 DEF SendsPart
  <2> HIDE DEF p
  <2>8. CASE k = 0
    <3>1. SubSeq(p, 1, 0) = <<>>
      BY <2>1
    <3>2. OnWire \o <<>> = OnWire /\ InFlight \o <<>> = InFlight
      BY <2>4, ConcatEmptySeq
    <3>3. OnWire' = OnWire /\ InFlight' = InFlight
      BY <2>7, <2>8, <3>1, <3>2
    <3>4. RunOf(InFlight', OnWire', valid', sent')
      BY <1>0, <2>4, <2>5, <3>3 DEF RunOf
    <3> QED
      BY <1>0, <3>3, <3>4, StreamNext, StreamParts
  <2>9. CASE k = PacketLen
    <3>1. SubSeq(p, 1, PacketLen) = p
      <4>1. SubSeq(p, 1, Len(p)) = p
        BY <2>1
      <4> QED
        BY <2>1, <4>1
    <3>2. OnWire' = OnWire \o p /\ InFlight' = InFlight \o p
      BY <2>7, <2>9, <3>1
    <3>3. conn # NoConn /\ link[conn] = "up"
      BY <1>2, <2>9, LenFacts DEF SendsPart
    <3>4. Whole(InFlight) /\ Whole(OnWire) /\ (valid => InFlight # <<>>)
      BY <3>3 DEF StreamInv
    <3>5. Chained(InFlight \o p) /\ Genuine(InFlight \o p, sent') /\ Whole(InFlight \o p)
      BY <2>1, <2>4, <2>5, <3>4, ChainedJoin DEF RunOf
    <3>6. Whole(OnWire \o p)
      <4>1. Len(OnWire \o p) = Len(OnWire) + Len(p) /\ Len(p) \in 1..Len(p)
            /\ (OnWire \o p)[Len(OnWire) + Len(p)] = p[Len(p)]
        BY <2>1, <2>4
      <4> QED
        BY <2>1, <4>1 DEF Whole
    <3>7. InFlight \o p # <<>> /\ (InFlight \o p)[1][3] = IF valid THEN MarkerLen + 1 ELSE 1
      <4>1. CASE InFlight = <<>>
        <5>1. InFlight \o p = p
          BY <2>1, <4>1, ConcatEmptySeq
        <5> QED
          BY <2>1, <3>4, <4>1, <5>1
      <4>2. CASE InFlight # <<>>
        <5>1. (InFlight \o p)[1] = InFlight[1] /\ Len(InFlight \o p) > 0
          BY <2>1, <2>4, <4>2
        <5> QED
          BY <2>4, <4>2, <5>1 DEF RunOf
      <4> QED
        BY <4>1, <4>2
    <3>8. RunOf(InFlight', OnWire', valid', sent')
      BY <1>0, <3>2, <3>5, <3>6, <3>7 DEF RunOf
    <3>9. Whole(InFlight') /\ InFlight' # <<>>
      BY <3>2, <3>5, <3>7
    <3> QED
      BY <1>0, <3>3, <3>8, <3>9, StreamNext, StreamParts
  <2> QED
    BY <2>6, <2>8, <2>9
<1> QED
  BY <1>0, <1>1, <1>2 DEF SendsAtMost

LEMMA WholeSuffix ==
    ASSUME NEW q \in Seq(Bytes), Whole(q), NEW m \in Nat, m <= Len(q)
    PROVE  Whole(SubSeq(q, m + 1, Len(q)))
<1> DEFINE r == SubSeq(q, m + 1, Len(q))
<1>1. /\ r \in Seq(Bytes) /\ Len(r) = Len(q) - m
      /\ \A i \in 1..Len(r) : r[i] = q[m + i]
  BY Parts
<1> HIDE DEF r
<1>2. ASSUME r # <<>> PROVE r[Len(r)][3] = PacketLen
  <2>1. Len(r) \in 1..Len(r) /\ q # <<>>
    BY <1>1, <1>2
  <2> QED
    BY <1>1, <2>1 DEF Whole
<1> QED
  BY <1>2 DEF Whole, r

\* A receive that ends inside no marker.
LEMMA ReceiveKeepsStream ==
    ASSUME BaseInv, StreamInv, NEW k \in 1..Capacity, Receive(k), ~split'
    PROVE  StreamInv'
<1>1. /\ InFlight' = InFlight /\ OnWire \in Seq(Bytes) /\ k <= Len(OnWire) /\ k \in Nat /\ k >= 1
      /\ OnWire' = SubSeq(OnWire, k + 1, Len(OnWire)) /\ buf' = SubSeq(OnWire, 1, k)
      /\ conn # NoConn /\ OnWire = wire[conn]
  BY BytesReceived
<1>2. UNCHANGED <<data, valid, total, conn, link, sent>> /\ ~(wire[conn][k][3] < MarkerLen)
  BY DEF Receive, asmVars
<1> DEFINE w == OnWire
<1>3. Whole(w)
  BY DEF StreamInv
<1>4. w \in Seq(Bytes) /\ k \in DOMAIN w /\ w[k][3] \in 1..PacketLen
  <2>1. w \in Seq(Bytes) /\ k \in 1..Len(w)
    BY <1>1
  <2> HIDE DEF w
  <2> QED
    BY <2>1, ByteFields
<1> HIDE DEF w
<1>5. Whole(SubSeq(w, k + 1, Len(w))) /\ Len(SubSeq(w, 1, k)) = k /\ SubSeq(w, 1, k)[k] = w[k]
  BY <1>1, <1>3, <1>4, WholeSuffix, Parts DEF w
<1>6. buf'[Len(buf')][3] \notin 1..(MarkerLen - 1)
  BY <1>1, <1>2, <1>4, <1>5, LenFacts DEF w
<1>7. RunOf(InFlight', OnWire', valid', sent')
  BY <1>1, <1>2, <1>5, StreamParts DEF RunOf, w
<1> QED
  BY <1>1, <1>2, <1>6, <1>7, StreamNext, StreamParts

\* The first byte is the first of the rest, if there is any.
LEMMA FrontOf ==
    ASSUME NEW q \in Seq(Bytes), NEW r \in Seq(Bytes), q # <<>>
    PROVE  /\ q \o r # <<>> /\ (q \o r)[1] = q[1] /\ Len(q) <= Len(q \o r)
           /\ \A i \in 1..Len(q) : (q \o r)[i] = q[i]
  OBVIOUS

\* A marker is taken only when all of it is there.
LEMMA MarkerKeepsStream ==
    ASSUME BaseInv, LinkInv, StreamInv, TakeMarker
    PROVE  StreamInv'
<1>1. /\ buf # <<>> /\ ~valid /\ data = <<>> /\ buf \in Seq(Bytes) /\ OnWire \in Seq(Bytes)
      /\ Len(buf) >= MarkerLen /\ Len(buf) \in Nat
      /\ valid' /\ data' = <<>> /\ buf' = SubSeq(buf, MarkerLen + 1, Len(buf))
      /\ UNCHANGED <<link, wire, conn, sent>>
  <2>1. data = <<>> /\ Len(data) = 0
    BY DEF TakeMarker, StreamInv
  <2> QED
    BY <2>1, InFlightFacts, LenFacts DEF TakeMarker
<1>2. conn # NoConn /\ OnWire' = OnWire
  BY <1>1 DEF LinkInv, OnWire
<1>3. InFlight = buf \o OnWire /\ InFlight \in Seq(Bytes)
  <2>1. InFlight = (<<>> \o buf) \o OnWire /\ InFlight \in Seq(Bytes)
    BY <1>1, InFlightFacts
  <2>2. <<>> \o buf = buf
    BY <1>1, ConcatEmptySeq
  <2> QED
    BY <2>1, <2>2
<1>4. InFlight' = SubSeq(InFlight, MarkerLen + 1, Len(InFlight))
  <2>1. buf' \in Seq(Bytes)
    BY <1>1, LenFacts, Parts
  <2>2. InFlight' = (<<>> \o buf') \o OnWire
    BY <1>1, <1>2 DEF InFlight, OnWire
  <2>3. <<>> \o buf' = buf'
    BY <2>1, ConcatEmptySeq
  <2>4. SubSeq(buf \o OnWire, MarkerLen + 1, Len(buf \o OnWire)) = buf' \o OnWire
    BY <1>1, LenFacts, CutFirst
  <2> QED
    BY <1>3, <2>2, <2>3, <2>4
<1> DEFINE q == InFlight
           s == q[1][1]
           n == q[1][2]
<1>5. /\ q # <<>> /\ q \in Seq(Bytes) /\ q[1][3] = 1 /\ MarkerLen <= Len(q) /\ Len(q) \in Nat
      /\ Chained(q) /\ Genuine(q, sent) /\ \A i \in 1..Len(buf) : q[i] = buf[i]
  <2>1. q # <<>> /\ Len(buf) <= Len(q) /\ Len(q) \in Nat /\ \A i \in 1..Len(buf) : q[i] = buf[i]
    BY <1>1, <1>3, FrontOf
  <2> QED
    BY <1>1, <1>3, <2>1, LenFacts DEF StreamInv
<1> HIDE DEF q
<1>6. \A m \in 1..PacketLen : m <= Len(q) => \A i \in 1..m : q[i] = <<s, n, i>>
  <2> TAKE m \in 1..PacketLen
  <2> HAVE m <= Len(q)
  <2>1. 1 \in 1..PacketLen /\ 1 + m - 1 <= PacketLen /\ m \in Nat /\ m >= 1
    BY LenFacts
  <2>2. \A i \in 1..m : q[i] = <<s, n, 1 + i - 1>>
    BY <1>5, <2>1, ReadsAs
  <2> QED
    BY <2>2
<1>7. total' = PayloadLen
  <2> DEFINE marker == data \o SubSeq(buf, 1, MarkerLen - Len(data))
  <2>1. marker = SubSeq(buf, 1, MarkerLen)
    <3>1. MarkerLen - Len(data) = MarkerLen
      BY <1>1, LenFacts
    <3>2. SubSeq(buf, 1, MarkerLen) \in Seq(Bytes)
      BY <1>1, LenFacts, Parts
    <3> QED
      BY <1>1, <3>1, <3>2, ConcatEmptySeq
  <2>2. /\ SubSeq(buf, 1, MarkerLen) \in Seq(Bytes) /\ Len(SubSeq(buf, 1, MarkerLen)) = MarkerLen
        /\ \A i \in 1..MarkerLen : SubSeq(buf, 1, MarkerLen)[i] = buf[i]
    BY <1>1, LenFacts, Parts
  <2>3. \A i \in 1..MarkerLen : buf[i] = <<s, n, i>> /\ <<s, n, i>> \in Bytes
    <3>1. \A i \in 1..MarkerLen : q[i] = <<s, n, i>>
      BY <1>5, <1>6, LenFacts
    <3>2. \A i \in 1..MarkerLen : i \in 1..Len(buf)
      BY <1>1, LenFacts
    <3>3. \A i \in 1..Len(buf) : buf[i] \in Bytes
      BY <1>1
    <3> QED
      BY <1>5, <3>1, <3>2, <3>3
  <2>4. Marker(s, n) \in Seq(Bytes) /\ Len(Marker(s, n)) = MarkerLen
        /\ \A i \in 1..MarkerLen : Marker(s, n)[i] = <<s, n, i>>
    BY <2>3, LenFacts DEF Marker
  <2> HIDE DEF marker, s, n
  <2>5. marker = Marker(s, n)
    <3>1. marker \in Seq(Bytes) /\ Len(marker) = MarkerLen /\ \A i \in 1..MarkerLen : marker[i] = <<s, n, i>>
      BY <2>1, <2>2, <2>3
    <3> QED
      BY <2>4, <3>1, SeqEqual
  <2>6. s \in Streams /\ n \in 1..sent[s]
    <3>1. q[1] \in Bytes /\ 1 \in DOMAIN q
      BY <1>5
    <3>2. q[1][1] \in Streams /\ q[1][2] \in 1..MaxFrames
      BY <3>1, ByteFields
    <3>3. q[1][2] <= sent[q[1][1]] /\ sent[q[1][1]] \in Nat
      BY <1>5, <3>1, <3>2, RemoteAssumption DEF Genuine, BaseInv, TypeOK
    <3> QED
      BY <3>2, <3>3, RemoteAssumption DEF s, n
  <2>7. IsSentBy(sent, Marker, marker)
    BY <2>5, <2>6 DEF IsSentBy
  <2> QED
    BY <2>7 DEF TakeMarker, MarkerValue, marker
<1>8. /\ InFlight' \in Seq(Bytes) /\ Len(InFlight') = Len(q) - MarkerLen
      /\ \A i \in 1..(Len(q) - MarkerLen) : InFlight'[i] = q[MarkerLen + i]
      /\ Chained(InFlight') /\ Genuine(InFlight', sent) /\ (Whole(q) => Whole(InFlight'))
  <2>1. InFlight' = SubSeq(q, MarkerLen + 1, Len(q))
    BY <1>4 DEF q
  <2>2. MarkerLen \in Nat
    BY LenFacts
  <2>3. LET r == SubSeq(q, MarkerLen + 1, Len(q)) IN
        Chained(r) /\ Genuine(r, sent) /\ (Whole(q) => Whole(r))
    BY <1>5, <2>2, ChainedSuffix
  <2> QED
    BY <1>5, <2>1, <2>2, <2>3, Parts
<1>9. InFlight' # <<>> => InFlight'[1][3] = MarkerLen + 1
  <2> HAVE InFlight' # <<>>
  <2>1. MarkerLen + 1 <= Len(q) /\ MarkerLen + 1 \in 1..PacketLen /\ 1 \in 1..(Len(q) - MarkerLen)
    BY <1>5, <1>8, LenFacts
  <2>2. MarkerLen + 1 \in 1..(MarkerLen + 1)
    BY LenFacts
  <2>3. q[MarkerLen + 1] = <<s, n, MarkerLen + 1>>
    BY <1>6, <2>1, <2>2
  <2> QED
    BY <1>8, <2>1, <2>3
<1>10. link[conn] = "up" => Whole(InFlight') /\ InFlight' # <<>>
  <2> HAVE link[conn] = "up"
  <2>1. Whole(q)
    BY <1>2 DEF StreamInv, q
  <2>2. ASSUME Len(q) = MarkerLen PROVE FALSE
    <3>1. MarkerLen \in 1..PacketLen /\ MarkerLen \in 1..MarkerLen
      BY LenFacts
    <3>2. q[MarkerLen] = <<s, n, MarkerLen>>
      BY <1>5, <1>6, <3>1
    <3>3. q[MarkerLen][3] = PacketLen
      BY <1>5, <2>1, <2>2 DEF Whole
    <3> QED
      BY <3>2, <3>3, LenFacts
  <2>3. Len(InFlight') # 0
    BY <1>5, <1>8, <2>2, LenFacts
  <2> QED
    BY <1>8, <2>1, <2>3
<1>11. buf' # <<>> => buf'[Len(buf')][3] \notin 1..(MarkerLen - 1)
  <2> HAVE buf' # <<>>
  <2>1. /\ buf' \in Seq(Bytes) /\ Len(buf') = Len(buf) - MarkerLen
        /\ \A i \in 1..(Len(buf) - MarkerLen) : buf'[i] = buf[MarkerLen + i]
    BY <1>1, LenFacts, Parts
  <2>2. Len(buf') \in 1..(Len(buf) - MarkerLen) /\ MarkerLen + Len(buf') = Len(buf)
    BY <1>1, <2>1, LenFacts
  <2>3. buf'[Len(buf')] = buf[Len(buf)]
    BY <2>1, <2>2
  <2> QED
    BY <1>1, <2>3 DEF StreamInv
<1>12. RunOf(InFlight', OnWire', valid', sent')
  <2>1. Whole(OnWire)
    BY DEF StreamInv
  <2> QED
    BY <1>1, <1>2, <1>8, <1>9, <2>1 DEF RunOf
<1>13. Len(data') < PayloadLen
  BY <1>1, LenFacts
<1> QED
  BY <1>1, <1>2, <1>7, <1>10, <1>11, <1>12, <1>13, StreamNext

\* Only a part of a packet is ever kept: a receive does not end in a marker.
LEMMA PartKeepsStream ==
    ASSUME BaseInv, LinkInv, StreamInv, KeepPart
    PROVE  StreamInv'
<1>1. /\ buf # <<>> /\ data \in Seq(Bytes) /\ buf \in Seq(Bytes) /\ OnWire \in Seq(Bytes)
      /\ data \o buf \in Seq(Bytes) /\ Len(data \o buf) = Len(data) + Len(buf)
      /\ InFlight = (data \o buf) \o OnWire /\ InFlight \in Seq(Bytes)
      /\ Len(data) + Len(buf) < IF valid THEN total ELSE MarkerLen
      /\ data' = data \o buf /\ buf' = <<>>
      /\ UNCHANGED <<link, wire, conn, valid, total, sent>>
  BY InFlightFacts DEF KeepPart
<1>2. valid
  <2> SUFFICES ASSUME ~valid PROVE FALSE
    OBVIOUS
  <2>1. data = <<>> /\ Len(data) = 0
    BY DEF StreamInv
  <2> DEFINE k == Len(buf)
  <2>2. k \in Nat /\ k >= 1 /\ k < MarkerLen
    BY <1>1, <2>1, LenFacts
  <2>3. data \o buf = buf
    BY <1>1, <2>1, ConcatEmptySeq
  <2>4. /\ InFlight # <<>> /\ k <= Len(InFlight) /\ InFlight[1] = buf[1]
        /\ k \in 1..k /\ InFlight[k] = buf[k]
    <3>1. k \in 1..Len(buf)
      BY <2>2
    <3>2. buf \o OnWire # <<>> /\ (buf \o OnWire)[1] = buf[1] /\ Len(buf) <= Len(buf \o OnWire)
          /\ \A i \in 1..Len(buf) : (buf \o OnWire)[i] = buf[i]
      BY <1>1, FrontOf
    <3> QED
      BY <1>1, <2>3, <3>1, <3>2
  <2> HIDE DEF k
  <2>5. InFlight[1][3] = 1 /\ Chained(InFlight)
    BY <2>4 DEF StreamInv
  <2>6. 1 \in 1..PacketLen /\ 1 + k - 1 <= PacketLen
    BY <2>2, LenFacts
  <2>7. InFlight[k] = <<InFlight[1][1], InFlight[1][2], 1 + k - 1>>
    BY <1>1, <2>2, <2>4, <2>5, <2>6, ReadsAs
  <2>8. buf[k][3] = k
    BY <2>2, <2>4, <2>7
  <2>9. k \in 1..(MarkerLen - 1)
    BY <2>2, LenFacts
  <2> QED
    BY <1>1, <2>8, <2>9 DEF StreamInv, k
<1>3. conn # NoConn /\ OnWire' = OnWire /\ InFlight' = InFlight
  BY <1>1, PartKept DEF LinkInv
<1>4. valid' /\ total' = PayloadLen /\ Len(data') < PayloadLen
  BY <1>1, <1>2 DEF StreamInv
<1> QED
  BY <1>1, <1>3, <1>4, StreamNext, StreamParts

\* The packet the assembler completes is a frame of the server's, and what
\* follows it begins a packet.
LEMMA PacketKeepsStream ==
    ASSUME BaseInv, LinkInv, StreamInv, CompletePacket
    PROVE  StreamInv' /\ IsSentBy(sent, Payload, Assembled)
<1> DEFINE q == InFlight
           s == q[1][1]
           n == q[1][2]
<1>1. /\ valid /\ total = PayloadLen /\ conn # NoConn
      /\ ~valid' /\ data' = <<>> /\ UNCHANGED <<link, conn, sent>>
  BY DEF CompletePacket, StreamInv, LinkInv
<1>2. /\ q \in Seq(Bytes) /\ Assembled \in Seq(Bytes) /\ Len(Assembled) = PayloadLen
      /\ InFlight' \in Seq(Bytes) /\ q = Assembled \o InFlight' /\ OnWire' = OnWire
  BY <1>1, PacketTaken, InFlightFacts
<1>3. Chained(q) /\ Genuine(q, sent) /\ (q # <<>> => q[1][3] = MarkerLen + 1)
  BY <1>1 DEF StreamInv
<1> HIDE DEF q
<1>4. /\ Len(q) = PayloadLen + Len(InFlight')
      /\ \A i \in 1..PayloadLen : q[i] = Assembled[i]
      /\ \A i \in 1..Len(InFlight') : q[PayloadLen + i] = InFlight'[i]
  <2> DEFINE a == Assembled
             r == InFlight'
  <2>1. a \in Seq(Bytes) /\ r \in Seq(Bytes) /\ Len(a) = PayloadLen /\ q = a \o r
    BY <1>2
  <2> HIDE DEF a, r
  <2>2. /\ Len(a \o r) = Len(a) + Len(r)
        /\ \A i \in 1..Len(a) : (a \o r)[i] = a[i]
        /\ \A i \in 1..Len(r) : (a \o r)[Len(a) + i] = r[i]
    <3>1. a \in Seq(Bytes) /\ r \in Seq(Bytes)
      BY <2>1
    <3> QED
      BY <3>1, Joined
  <2>3. q = a \o r /\ Len(a) = PayloadLen
    BY <2>1
  <2>4. /\ Len(q) = PayloadLen + Len(r)
        /\ \A i \in 1..PayloadLen : q[i] = a[i]
        /\ \A i \in 1..Len(r) : q[PayloadLen + i] = r[i]
    BY <2>2, <2>3
  <2> QED
    BY <2>4 DEF a, r
<1>5. \A i \in 1..PayloadLen : q[i] = <<s, n, MarkerLen + i>>
  <2>1. MarkerLen + 1 \in 1..PacketLen /\ (MarkerLen + 1) + PayloadLen - 1 <= PacketLen
        /\ PayloadLen >= 1 /\ PayloadLen \in Nat
    BY LenFacts
  <2>2. PayloadLen <= Len(q) /\ q # <<>>
    BY <1>2, <1>4, <2>1
  <2>3. \A i \in 1..PayloadLen : q[i] = <<s, n, (MarkerLen + 1) + i - 1>>
    BY <1>2, <1>3, <2>1, <2>2, ReadsAs
  <2> QED
    BY <2>3, LenFacts
<1>6. s \in Streams /\ n \in 1..sent[s]
  <2>1. 1 \in DOMAIN q /\ q[1] \in Bytes
    BY <1>2, <1>4, LenFacts
  <2>2. q[1][1] \in Streams /\ q[1][2] \in 1..MaxFrames
    BY <2>1, ByteFields
  <2>3. q[1][2] <= sent[q[1][1]] /\ sent[q[1][1]] \in Nat
    BY <1>3, <2>1, <2>2, RemoteAssumption DEF Genuine, BaseInv, TypeOK
  <2> QED
    BY <2>2, <2>3, RemoteAssumption DEF s, n
<1> HIDE DEF s, n
<1>7. Assembled = Payload(s, n)
  <2>1. \A i \in 1..PayloadLen : Assembled[i] = <<s, n, MarkerLen + i>> /\ <<s, n, MarkerLen + i>> \in Bytes
    <3>1. \A i \in 1..Len(Assembled) : Assembled[i] \in Bytes
      BY <1>2
    <3> QED
      BY <1>2, <1>4, <1>5, <3>1
  <2>2. Payload(s, n) \in Seq(Bytes) /\ Len(Payload(s, n)) = PayloadLen
        /\ \A i \in 1..PayloadLen : Payload(s, n)[i] = <<s, n, MarkerLen + i>>
    BY <2>1, LenFacts DEF Payload
  <2> QED
    BY <1>2, <2>1, <2>2, SeqEqual
<1>8. IsSentBy(sent, Payload, Assembled)
  BY <1>6, <1>7 DEF IsSentBy
<1>9. InFlight' = SubSeq(q, PayloadLen + 1, Len(q))
  <2> DEFINE a == Assembled
             r == InFlight'
             k == PayloadLen
  <2>1. a \in Seq(Bytes) /\ r \in Seq(Bytes) /\ q = a \o r /\ k \in Nat /\ k <= Len(a) /\ Len(a) = k
    BY <1>2, LenFacts
  <2> HIDE DEF a, r, k
  <2>2. SubSeq(a \o r, k + 1, Len(a \o r)) = SubSeq(a, k + 1, Len(a)) \o r
    BY <2>1, CutFirst
  <2>3. SubSeq(a, k + 1, Len(a)) = <<>>
    <3>1. k + 1 \in Nat /\ k + 1 > Len(a)
      BY <2>1
    <3> QED
      BY <2>1, <3>1, NothingAfter
  <2>4. <<>> \o r = r
    BY <2>1, ConcatEmptySeq
  <2>5. SubSeq(q, PayloadLen + 1, Len(q)) = r
    BY <2>1, <2>2, <2>3, <2>4 DEF k
  <2> QED
    BY <2>5 DEF r
<1>10. Chained(InFlight') /\ Genuine(InFlight', sent) /\ (Whole(q) => Whole(InFlight'))
  <2>1. PayloadLen \in Nat /\ PayloadLen <= Len(q)
    BY <1>2, <1>4, LenFacts
  <2>2. LET r == SubSeq(q, PayloadLen + 1, Len(q)) IN
        Chained(r) /\ Genuine(r, sent) /\ (Whole(q) => Whole(r))
    BY <1>2, <1>3, <2>1, ChainedSuffix
  <2> QED
    BY <1>9, <2>2
<1>11. InFlight' # <<>> => InFlight'[1][3] = 1
  <2> HAVE InFlight' # <<>>
  <2>1. PayloadLen < Len(q) /\ PayloadLen \in 1..PayloadLen /\ PayloadLen \in DOMAIN q
        /\ 1 \in 1..Len(InFlight')
    BY <1>2, <1>4, LenFacts
  <2>2. q[PayloadLen][3] = PacketLen
    BY <1>5, <2>1, LenFacts
  <2>3. q[PayloadLen + 1][3] = 1
    BY <1>3, <2>1, <2>2 DEF Chained
  <2> QED
    BY <1>4, <2>1, <2>3
<1>12. link[conn] = "up" => Whole(InFlight')
  BY <1>1, <1>10 DEF StreamInv, q
<1>13. buf' # <<>> => buf'[Len(buf')][3] \notin 1..(MarkerLen - 1)
  <2> HAVE buf' # <<>>
  <2> DEFINE m == total - Len(data)
  <2>1. buf \in Seq(Bytes) /\ m \in Nat /\ m <= Len(buf) /\ Len(buf) \in Nat
    BY <1>1, InFlightFacts, LenFacts DEF CompletePacket, StreamInv
  <2>2. buf' = SubSeq(buf, m + 1, Len(buf)) /\ buf # <<>>
    BY DEF CompletePacket
  <2> HIDE DEF m
  <2>3. /\ buf' \in Seq(Bytes) /\ Len(buf') = Len(buf) - m
        /\ \A i \in 1..(Len(buf) - m) : buf'[i] = buf[m + i]
    BY <2>1, <2>2, Parts
  <2>4. Len(buf') \in 1..(Len(buf) - m) /\ m + Len(buf') = Len(buf)
    BY <2>1, <2>3
  <2>5. buf'[Len(buf')] = buf[Len(buf)]
    BY <2>3, <2>4
  <2> QED
    BY <2>2, <2>5 DEF StreamInv
<1>14. RunOf(InFlight', OnWire', valid', sent')
  <2>1. Whole(OnWire)
    BY DEF StreamInv
  <2> QED
    BY <1>1, <1>2, <1>10, <1>11, <2>1 DEF RunOf
<1>15. StreamInv'
  BY <1>1, <1>12, <1>13, <1>14, StreamNext
<1> QED
  BY <1>8, <1>15

----------------------------------------------------------------------------
(* The invariant of the stream, and the theorems.                          *)

LEMMA InitStream == Init => FramedInv /\ InFlight = <<>>
<1> SUFFICES ASSUME Init PROVE FramedInv /\ InFlight = <<>>
  OBVIOUS
<1>1. conn = NoConn /\ buf = <<>> /\ data = <<>> /\ ~valid /\ \A c \in Conns : wire[c] = <<>>
  BY DEF Init
<1>2. OnWire = <<>>
  BY <1>1 DEF OnWire
<1>3. InFlight = <<>>
  <2>1. InFlight = (<<>> \o <<>>) \o <<>>
    BY <1>1 DEF InFlight
  <2>2. <<>> \o <<>> = <<>>
    OBVIOUS
  <2> QED
    BY <2>1, <2>2
<1>4. RunOf(InFlight, OnWire, valid, sent)
  BY <1>2, <1>3, EmptyIsRun DEF RunOf
<1>5. LinkInv /\ StreamInv
  BY <1>1, <1>4, StreamParts DEF LinkInv
<1> QED
  BY <1>3, <1>5 DEF FramedInv

LEMMA ServerKeepsStream ==
    ASSUME BaseInv, StreamInv, Provider, ~cut'
    PROVE  StreamInv'
<1>1. ASSUME UNCHANGED <<link, wire, conn, buf, data, valid, total, sent>> PROVE StreamInv'
  BY <1>1, StreamStays DEF InFlight, OnWire
<1>2. ASSUME NEW S \in SUBSET Conns, CloseSockets(S), UNCHANGED <<conn, buf, data, valid, total, sent>>
      PROVE  StreamInv'
  BY <1>2, CloseLeavesWire, StreamStays
<1>3. ASSUME NEW s \in Streams, PushImage(s) PROVE StreamInv'
  <2>1. CASE StopOldClients(s)
    BY <1>1, <2>1 DEF StopOldClients, asmVars, proxyVars
  <2>2. CASE EraseOldClients(s)
    <3> DEFINE S == {c \in clients : ~working[c]}
    <3>1. S \in SUBSET Conns /\ JoinAndErase(S)
          /\ UNCHANGED <<conn, buf, data, valid, total, sent>>
      BY <2>2 DEF EraseOldClients, asmVars, proxyVars, BaseInv, TypeOK
    <3> HIDE DEF S
    <3> QED
      BY <1>2, <3>1 DEF JoinAndErase
  <2>3. CASE SendImage(s)
    BY <2>3, SendKeepsStream
  <2> QED
    BY <1>3, <2>1, <2>2, <2>3 DEF PushImage
<1>4. ASSUME NEW c \in Conns, Accept(c) PROVE StreamInv'
  <2>1. UNCHANGED <<conn, buf, data, valid, total, sent>> /\ {c} \in SUBSET Conns
    BY <1>4 DEF Accept, asmVars, proxyVars
  <2>2. UNCHANGED <<link, wire>> \/ CloseSockets({c})
    BY <1>4 DEF Accept
  <2> QED
    BY <1>1, <1>2, <2>1, <2>2
<1>5. ASSUME NEW c \in Conns, ConnectionThread(c) PROVE StreamInv'
  BY <1>1, <1>5 DEF ConnectionThread, ConnectionLost, ConnectionEnds, asmVars, proxyVars
<1>6. CASE StopServer \/ StartServer
  BY <1>1, <1>6 DEF StopServer, StartServer, asmVars, proxyVars
<1>7. CASE ServerStopped
  <2> DEFINE S == clients \cup backlog
  <2>1. S \in SUBSET Conns /\ CloseSockets(S) /\ UNCHANGED <<conn, buf, data, valid, total, sent>>
    BY <1>7 DEF ServerStopped, asmVars, proxyVars, BaseInv, TypeOK
  <2> HIDE DEF S
  <2> QED
    BY <1>2, <2>1
<1> QED
  BY <1>3, <1>4, <1>5, <1>6, <1>7 DEF Provider

\* Whatever the provider and the network do, a cut stays in the history.
LEMMA CutStays ==
    ASSUME Provider \/ \E c \in Conns : Break(c)
    PROVE  (cut => cut') /\ split' = split
<1>1. ASSUME NEW s \in Streams, SendImage(s) PROVE (cut => cut') /\ split' = split
  BY <1>1 DEF SendImage
<1>2. ASSUME NEW s \in Streams, StopOldClients(s) \/ EraseOldClients(s) PROVE UNCHANGED history
  BY <1>2 DEF StopOldClients, EraseOldClients
<1>3. ASSUME NEW c \in Conns, Accept(c) PROVE UNCHANGED history
  BY <1>3 DEF Accept
<1>4. ASSUME NEW c \in Conns, ConnectionThread(c) \/ Break(c) PROVE UNCHANGED history
  BY <1>4 DEF ConnectionThread, ConnectionLost, ConnectionEnds, Break
<1>5. CASE StopServer \/ ServerStopped \/ StartServer
  BY <1>5 DEF StopServer, ServerStopped, StartServer, history
<1>6. UNCHANGED history => (cut => cut') /\ split' = split
  BY DEF history
<1> QED
  BY <1>1, <1>2, <1>3, <1>4, <1>5, <1>6 DEF Provider, PushImage

LEMMA NextStream == BaseInv /\ FramedInv /\ [Next]_vars => FramedInv'
<1> SUFFICES ASSUME BaseInv, LinkInv, Framed => StreamInv, [Next]_vars, Framed' PROVE StreamInv'
  BY NextLink DEF FramedInv
<1>0. ~cut' /\ ~split'
  BY DEF Framed
<1>1. CASE Provider
  BY <1>0, <1>1, CutStays, ServerKeepsStream DEF Framed
<1>2. ASSUME NEW c \in Conns, Break(c) PROVE StreamInv'
  BY <1>0, <1>2, CutStays, BreakKeepsStream DEF Framed
<1>3. CASE Refused \/ Disconnect \/ StopProxy \/ \E c \in Conns : Handshake(c)
  BY <1>3, ConnectionMoves, EmptyStream
<1>4. CASE Connect \/ UNCHANGED vars
  <2>1. UNCHANGED <<link, wire, conn, buf, data, valid, total, sent, cut, split>>
    BY <1>4 DEF Connect, vars, asmVars, proxyVars, history
  <2> QED
    BY <1>0, <2>1, StreamStays DEF Framed, InFlight, OnWire
<1>5. ASSUME NEW k \in 1..Capacity, Receive(k) PROVE StreamInv'
  <2>1. (cut => cut') /\ (split => split')
    BY <1>5 DEF Receive
  <2> QED
    BY <1>0, <1>5, <2>1, ReceiveKeepsStream DEF Framed
<1>6. CASE ReceiveData
  <2>1. StreamInv
    BY <1>0, <1>6 DEF ReceiveData, TakeMarker, KeepPart, RefuseLength, CompletePacket, history, Framed
  <2>2. ~RefuseLength
    BY <2>1, LenFacts DEF RefuseLength, StreamInv
  <2> QED
    BY <1>6, <2>1, <2>2, MarkerKeepsStream, PartKeepsStream, PacketKeepsStream DEF ReceiveData
<1> QED
  BY <1>1, <1>2, <1>3, <1>4, <1>5, <1>6 DEF Next, ProxySteps

LEMMA FramedInvariance == Spec => []FramedInv
<1>1. Init => FramedInv
  BY InitStream
<1> QED
  BY <1>1, NextStream, BaseInvariance, PTL DEF Spec

\* Every variable keeps its type, whatever parts of a packet a send takes,
\* whatever TCP does to the pieces the bytes come in, and whatever is then read
\* as a length.
THEOREM RemoteTypes == Spec => []TypeOK
<1>1. BaseInv => TypeOK
  BY DEF BaseInv
<1> QED
  BY <1>1, BaseInvariance, PTL

\* No connection is erased from m_Clients while its thread runs: neither by a
\* push that removes the connections that are no use, nor by Stop.
THEOREM NoThreadWithoutConnection == Spec => []NoThreadOutlives
<1>1. BaseInv => NoThreadOutlives
  BY DEF BaseInv
<1> QED
  BY <1>1, BaseInvariance, PTL

\* A packet cut by a send or a marker split by a receive spoils no connection
\* but its own: on every other one whatever the assembler hands on is a frame
\* the server has sent, whatever lengths the marker and the frames have, in
\* whatever pieces they come, and whatever the connections before it left.
THEOREM PacketsStayWhole == Spec => PacketsIntact
<1>1. BaseInv /\ FramedInv /\ [Next]_vars
        => [CompletePacket /\ Framed => IsSentBy(sent, Payload, Assembled)]_vars
  BY PacketKeepsStream DEF FramedInv
<1> QED
  BY <1>1, BaseInvariance, FramedInvariance, PTL DEF Spec, PacketsIntact

----------------------------------------------------------------------------
(* The order of the frames of a stream.                                    *)

\* If b and c are of the same stream, c was sent after b.
SentAfter(b, c) == b[1] = c[1] => b[2] < c[2] \/ (b[2] = c[2] /\ b[3] < c[3])

Ascending(q) == \A i, j \in DOMAIN q : i < j => SentAfter(q[i], q[j])

\* No header in q is of a frame that the client was given, or of an older one.
OnlyNewer(q, D) == \A i \in DOMAIN q : q[i][3] = MarkerLen + 1 => D[q[i][1]] < q[i][2]

\* Whether packets are whole or not, their bytes come in the order they were
\* sent in, and with them the headers that name the stream and the frame.
OrderInv ==
    /\ Ascending(InFlight) /\ Genuine(InFlight, sent) /\ OnlyNewer(InFlight, delivered)
    /\ \A s \in Streams : delivered[s] <= sent[s]

\* The frames of s, of the first n, whose headers are among the bytes of q.
HeadersIn(q, s, n) == {k \in 1..n : \E i \in DOMAIN q : q[i] = <<s, k, MarkerLen + 1>>}

FifoSteps == \A s \in Streams : [StreamFifo(s)!FifoNext]_(StreamFifo(s)!fifoVars)

LEMMA FifoStepIs ==
    ASSUME NEW s \in Streams,
           \/ /\ sent'[s] = sent[s] + 1 /\ delivered'[s] = delivered[s]
              /\ HeadersIn(InFlight', s, sent'[s]) \subseteq HeadersIn(InFlight, s, sent[s]) \cup {sent[s] + 1}
           \/ \E n \in HeadersIn(InFlight, s, sent[s]) :
                 /\ n > delivered[s] /\ delivered'[s] = n /\ sent'[s] = sent[s]
                 /\ HeadersIn(InFlight', s, sent'[s]) \subseteq {k \in HeadersIn(InFlight, s, sent[s]) : k > n}
           \/ /\ sent'[s] = sent[s] /\ delivered'[s] = delivered[s]
              /\ HeadersIn(InFlight', s, sent'[s]) \subseteq HeadersIn(InFlight, s, sent[s])
    PROVE  StreamFifo(s)!FifoNext
<1> DEFINE P == {n \in 1..sent[s] : \E i \in DOMAIN InFlight : InFlight[i] = <<s, n, MarkerLen + 1>>}
<1>1. P = HeadersIn(InFlight, s, sent[s]) /\ P' = HeadersIn(InFlight', s, sent'[s])
  BY DEF HeadersIn
<1> QED
  BY <1>1 DEF StreamFifo!FifoNext, StreamFifo!Send, StreamFifo!Deliver, StreamFifo!Lose

\* What is left of an ascending run is ascending.
LEMMA AscendingPart ==
    ASSUME NEW q \in Seq(Bytes), Ascending(q), NEW r, PartOf(r, q)
    PROVE  /\ r \in Seq(Bytes) /\ Ascending(r)
           /\ \A i \in DOMAIN r : \E j \in DOMAIN q : r[i] = q[j]
<1>1. PICK m \in Nat : m + Len(r) <= Len(q) /\ \A i \in 1..Len(r) : r[i] = q[m + i]
  BY DEF PartOf
<1>2. r \in Seq(Bytes) /\ DOMAIN r = 1..Len(r) /\ Len(r) \in Nat /\ DOMAIN q = 1..Len(q) /\ Len(q) \in Nat
  BY DEF PartOf
<1>3. \A i \in 1..Len(r) : m + i \in DOMAIN q /\ r[i] = q[m + i]
  BY <1>1, <1>2
<1>4. Ascending(r)
  <2> SUFFICES ASSUME NEW i \in DOMAIN r, NEW j \in DOMAIN r, i < j PROVE SentAfter(r[i], r[j])
    BY DEF Ascending
  <2>1. m + i < m + j
    BY <1>2
  <2> QED
    BY <1>2, <1>3, <2>1 DEF Ascending
<1> QED
  BY <1>2, <1>3, <1>4

\* Bytes are lost, or none are.
LEMMA LossKeepsOrder ==
    ASSUME BaseInv, OrderInv, PartOf(InFlight', InFlight), UNCHANGED <<sent, delivered>>
    PROVE  OrderInv' /\ FifoSteps
<1>1. InFlight \in Seq(Bytes) /\ Ascending(InFlight)
  BY InFlightFacts DEF OrderInv
<1>2. Ascending(InFlight') /\ \A i \in DOMAIN InFlight' : \E j \in DOMAIN InFlight : InFlight'[i] = InFlight[j]
  BY <1>1, AscendingPart
<1>3. OrderInv'
  <2>1. OnlyNewer(InFlight', delivered) /\ Genuine(InFlight', sent)
    BY <1>2 DEF OrderInv, OnlyNewer, Genuine
  <2> QED
    BY <1>2, <2>1 DEF OrderInv, OnlyNewer, Genuine, Ascending
<1>4. ASSUME NEW s \in Streams PROVE StreamFifo(s)!FifoNext
  <2>1. HeadersIn(InFlight', s, sent[s]) \subseteq HeadersIn(InFlight, s, sent[s])
    BY <1>2 DEF HeadersIn
  <2> QED
    BY <2>1, FifoStepIs
<1> QED
  BY <1>3, <1>4 DEF FifoSteps

\* A frame that is sent is the newest, and follows all the others.
LEMMA SendKeepsOrder ==
    ASSUME BaseInv, OrderInv, NEW s \in Streams, SendsAtMost(s), delivered' = delivered
    PROVE  OrderInv' /\ FifoSteps
<1> DEFINE q == InFlight
           n == sent[s] + 1
<1>1. q \in Seq(Bytes) /\ PartOf(q, q)
  BY InFlightFacts, EndsOf
<1>2. CASE UNCHANGED <<sent, OnWire, InFlight>>
  BY <1>1, <1>2, LossKeepsOrder
<1>3. ASSUME n \in 1..MaxFrames, sent' = [sent EXCEPT ![s] = n],
             NEW k \in 0..PacketLen, SendsPart(s, k)
      PROVE  OrderInv' /\ FifoSteps
  <2> DEFINE p == SubSeq(Packet(s, n), 1, k)
  <2>0. q \in Seq(Bytes)
    BY <1>1
  <2>1. \A t \in Streams : sent[t] \in Nat /\ delivered[t] \in Nat /\ delivered[t] <= sent[t]
    BY RemoteAssumption DEF BaseInv, TypeOK, OrderInv
  <2>2. sent'[s] = n /\ \A t \in Streams : t # s => sent'[t] = sent[t]
    BY <1>3 DEF BaseInv, TypeOK
  <2>3. \A i \in DOMAIN q : /\ q[i] \in Bytes /\ q[i][1] \in Streams /\ q[i][2] \in Nat /\ q[i][3] \in Nat
                            /\ q[i][2] <= sent[q[i][1]]
                            /\ (q[i][3] = MarkerLen + 1 => delivered[q[i][1]] < q[i][2])
    <3> TAKE i \in DOMAIN q
    <3>1. q[i] \in Bytes
      BY <1>1
    <3>2. q[i][2] <= sent[q[i][1]] /\ (q[i][3] = MarkerLen + 1 => delivered[q[i][1]] < q[i][2])
      BY DEF Genuine, OrderInv, OnlyNewer
    <3> HIDE DEF q
    <3> QED
      BY <3>1, <3>2, ByteFields, LenFacts, RemoteAssumption
  <2>4. p \in Seq(Bytes) /\ Len(p) = k /\ k \in Nat /\ \A i \in 1..k : p[i] = <<s, n, i>>
    <3> DEFINE r == Packet(s, n)
    <3>1. r \in Seq(Bytes) /\ Len(r) = PacketLen /\ \A i \in 1..PacketLen : r[i] = <<s, n, i>>
      BY <1>3, PacketFacts
    <3> HIDE DEF r
    <3>2. k \in Nat /\ k <= Len(r) /\ \A i \in 1..k : i \in 1..PacketLen
      BY <3>1, LenFacts
    <3>3. /\ SubSeq(r, 1, k) \in Seq(Bytes) /\ Len(SubSeq(r, 1, k)) = k
          /\ \A i \in 1..k : SubSeq(r, 1, k)[i] = r[i]
      BY <3>1, <3>2, Parts
    <3> QED
      BY <3>1, <3>2, <3>3 DEF r
  <2>5. Ascending(q) /\ q' = q \o p
    BY <1>3 DEF OrderInv, SendsPart
  <2> HIDE DEF q, p
  <2>6. ASSUME NEW i \in DOMAIN q'
        PROVE  \/ i \in DOMAIN q /\ q'[i] = q[i]
               \/ i \notin DOMAIN q /\ i - Len(q) \in 1..k /\ q'[i] = <<s, n, i - Len(q)>>
    <3>1. /\ DOMAIN q' = 1..(Len(q) + k) /\ DOMAIN q = 1..Len(q) /\ Len(q) \in Nat
          /\ \A j \in 1..Len(q) : q'[j] = q[j]
          /\ \A j \in 1..k : q'[Len(q) + j] = p[j]
      <4>1. /\ q \o p \in Seq(Bytes) /\ Len(q \o p) = Len(q) + Len(p)
            /\ \A j \in 1..Len(q) : (q \o p)[j] = q[j]
            /\ \A j \in 1..Len(p) : (q \o p)[Len(q) + j] = p[j]
        BY <2>0, <2>4, Joined
      <4>2. DOMAIN (q \o p) = 1..Len(q \o p) /\ DOMAIN q = 1..Len(q) /\ Len(q) \in Nat
        BY <2>0, <4>1
      <4> QED
        BY <2>4, <2>5, <4>1, <4>2
    <3>2. CASE i \in 1..Len(q)
      BY <3>1, <3>2
    <3>3. CASE i \notin 1..Len(q)
      <4>1. i - Len(q) \in 1..k /\ Len(q) + (i - Len(q)) = i
        BY <2>4, <2>6, <3>1, <3>3
      <4> QED
        BY <2>4, <3>1, <3>3, <4>1
    <3> QED
      BY <3>2, <3>3
  <2>7. DOMAIN q = 1..Len(q) /\ Len(q) \in Nat
    BY <1>1
  <2>8. \A i \in DOMAIN q' : i \in Nat /\ i >= 1
    <3>1. DOMAIN q' = 1..Len(q')
      <4>1. q \o p \in Seq(Bytes)
        BY <2>0, <2>4, Joined
      <4>2. DOMAIN (q \o p) = 1..Len(q \o p)
        BY <4>1
      <4> QED
        BY <2>5, <4>2
    <3> QED
      BY <3>1
  <2>9. Ascending(q')
    <3> SUFFICES ASSUME NEW i \in DOMAIN q', NEW j \in DOMAIN q', i < j PROVE SentAfter(q'[i], q'[j])
      BY DEF Ascending
    <3>1. CASE j \in DOMAIN q
      <4>1. i \in DOMAIN q
        BY <2>7, <2>8, <3>1
      <4> QED
        BY <2>5, <2>6, <3>1, <4>1 DEF Ascending
    <3>2. CASE j \notin DOMAIN q
      <4>1. q'[j] = <<s, n, j - Len(q)>>
        BY <2>6, <3>2
      <4>2. CASE i \in DOMAIN q
        <5>1. q'[i] = q[i] /\ (q[i][1] = s => q[i][2] < n)
          BY <2>1, <2>3, <2>6, <4>2
        <5> QED
          BY <4>1, <5>1 DEF SentAfter
      <4>3. CASE i \notin DOMAIN q
        <5>1. q'[i] = <<s, n, i - Len(q)>> /\ i - Len(q) < j - Len(q)
          BY <2>6, <2>7, <2>8, <4>3
        <5> QED
          BY <4>1, <5>1 DEF SentAfter
      <4> QED
        BY <4>2, <4>3
    <3> QED
      BY <3>1, <3>2
  <2>10. \A i \in DOMAIN q' : /\ q'[i][3] = MarkerLen + 1 => delivered[q'[i][1]] < q'[i][2]
                              /\ q'[i][2] <= sent'[q'[i][1]]
    <3> TAKE i \in DOMAIN q'
    <3>1. CASE i \in DOMAIN q
      <4>1. q'[i] = q[i] /\ q[i][1] \in Streams
        BY <2>3, <2>6, <3>1
      <4>2. sent[q[i][1]] <= sent'[q[i][1]] /\ sent[q[i][1]] \in Nat /\ sent'[q[i][1]] \in Nat
        BY <2>1, <2>2, <4>1
      <4> QED
        BY <2>3, <3>1, <4>1, <4>2
    <3>2. CASE i \notin DOMAIN q
      <4>1. q'[i][1] = s /\ q'[i][2] = n
        BY <2>6, <3>2
      <4> QED
        BY <2>1, <2>2, <4>1
    <3> QED
      BY <3>1, <3>2
  <2>11. \A t \in Streams : delivered[t] <= sent'[t]
    BY <2>1, <2>2
  <2>12. OrderInv'
    BY <2>9, <2>10, <2>11 DEF OrderInv, OnlyNewer, Genuine, Ascending, q
  <2>13. ASSUME NEW t \in Streams PROVE StreamFifo(t)!FifoNext
    <3>1. CASE t = s
      <4>1. HeadersIn(q', s, n) \subseteq HeadersIn(q, s, sent[s]) \cup {sent[s] + 1}
        <5> SUFFICES ASSUME NEW h \in HeadersIn(q', s, n), h # n PROVE h \in HeadersIn(q, s, sent[s])
          OBVIOUS
        <5>1. PICK i \in DOMAIN q' : q'[i] = <<s, h, MarkerLen + 1>>
          BY DEF HeadersIn
        <5>2. i \in DOMAIN q /\ q'[i] = q[i]
          BY <2>6, <5>1
        <5>3. h \in 1..sent[s]
          BY <2>1 DEF HeadersIn
        <5> QED
          BY <5>1, <5>2, <5>3 DEF HeadersIn
      <4>2. /\ sent'[s] = sent[s] + 1 /\ delivered'[s] = delivered[s]
            /\ HeadersIn(InFlight', s, sent'[s]) \subseteq HeadersIn(InFlight, s, sent[s]) \cup {sent[s] + 1}
        BY <2>2, <4>1 DEF q
      <4> QED
        BY <3>1, <4>2, FifoStepIs
    <3>2. CASE t # s
      <4>1. HeadersIn(q', t, sent[t]) \subseteq HeadersIn(q, t, sent[t])
        BY <2>6, <3>2 DEF HeadersIn
      <4>2. /\ sent'[t] = sent[t] /\ delivered'[t] = delivered[t]
            /\ HeadersIn(InFlight', t, sent'[t]) \subseteq HeadersIn(InFlight, t, sent[t])
        BY <2>2, <3>2, <4>1 DEF q
      <4> QED
        BY <4>2, FifoStepIs
    <3> QED
      BY <3>1, <3>2
  <2> QED
    BY <2>12, <2>13 DEF FifoSteps
<1> QED
  BY <1>2, <1>3 DEF SendsAtMost

\* What is handed on is what the first byte says, if it is a header: the oldest
\* frame of its stream whose header is under way.
LEMMA PacketKeepsOrder ==
    ASSUME BaseInv, OrderInv, CompletePacket
    PROVE  OrderInv' /\ FifoSteps
<1> DEFINE q == InFlight
           h == Assembled[1]
           s == h[1]
           n == h[2]
<1>1. /\ total \in Nat /\ Assembled \in Seq(Bytes) /\ Len(Assembled) = total
      /\ q \in Seq(Bytes) /\ q' \in Seq(Bytes) /\ q = Assembled \o q'
  BY PacketTaken, InFlightFacts
<1>2. sent' = sent
  BY DEF CompletePacket
<1>3. PartOf(q', q)
  BY <1>1, EndsOf
<1>4. delivered' = [t \in Streams |->
          IF Assembled # <<>> /\ h[1] = t /\ h[3] = MarkerLen + 1 THEN h[2] ELSE delivered[t]]
  BY DEF CompletePacket, OnReceivePacket
<1>5. \A t \in Streams : sent[t] \in Nat /\ delivered[t] \in Nat /\ delivered[t] <= sent[t]
  BY RemoteAssumption DEF OrderInv, BaseInv, TypeOK
<1>6. Ascending(q) /\ OnlyNewer(q, delivered) /\ Genuine(q, sent)
  BY DEF OrderInv
<1>7. CASE ~(Assembled # <<>> /\ h[3] = MarkerLen + 1)
  <2>1. delivered' = delivered
    BY <1>4, <1>7 DEF BaseInv, TypeOK
  <2> QED
    BY <1>2, <1>3, <2>1, LossKeepsOrder
<1>8. CASE Assembled # <<>> /\ h[3] = MarkerLen + 1
  <2> HIDE DEF q
  <2>1. /\ 1 \in DOMAIN q /\ q[1] = h /\ h \in Bytes /\ DOMAIN q' = 1..Len(q') /\ Len(q') \in Nat
        /\ \A i \in DOMAIN q' : 1 < total + i /\ total + i \in DOMAIN q /\ q'[i] = q[total + i]
    <3> DEFINE a == Assembled
               r == q'
    <3>1. a \in Seq(Bytes) /\ r \in Seq(Bytes) /\ q = a \o r /\ Len(a) = total /\ total \in Nat /\ a # <<>>
      BY <1>1, <1>8
    <3> HIDE DEF a, r
    <3>2. /\ Len(q) = Len(a) + Len(r) /\ 1 \in 1..Len(a) /\ q[1] = a[1] /\ a[1] \in Bytes
          /\ \A i \in 1..Len(r) : q[Len(a) + i] = r[i]
      <4>1. a \in Seq(Bytes) /\ r \in Seq(Bytes)
        BY <3>1
      <4>2. /\ Len(a \o r) = Len(a) + Len(r)
            /\ \A i \in 1..Len(a) : (a \o r)[i] = a[i]
            /\ \A i \in 1..Len(r) : (a \o r)[Len(a) + i] = r[i]
        BY <4>1, Joined
      <4>3. 1 \in 1..Len(a) /\ a[1] \in Bytes
        <5>1. a \in Seq(Bytes) /\ a # <<>>
          BY <3>1
        <5> QED
          BY <5>1
      <4>4. q = a \o r
        BY <3>1
      <4> QED
        BY <4>2, <4>3, <4>4
    <3>3. \A i \in 1..Len(r) : 1 < total + i /\ total + i \in 1..Len(q) /\ r[i] = q[total + i]
      BY <3>1, <3>2
    <3>4. 1 \in DOMAIN q /\ DOMAIN q = 1..Len(q) /\ DOMAIN r = 1..Len(r) /\ Len(r) \in Nat
      BY <1>1, <3>1, <3>2
    <3> QED
      BY <3>2, <3>3, <3>4 DEF a, r
  <2>2. /\ s \in Streams /\ n \in 1..sent[s] /\ n > delivered[s] /\ h = <<s, n, MarkerLen + 1>>
    BY <1>5, <1>6, <1>8, <2>1, ByteFields, RemoteAssumption DEF OnlyNewer, Genuine
  <2>3. delivered'[s] = n /\ \A t \in Streams : t # s => delivered'[t] = delivered[t]
    BY <1>4, <1>8, <2>2
  <2> HIDE DEF h, s, n
  <2>4. ASSUME NEW i \in DOMAIN q', q'[i][1] = s, q'[i][3] = MarkerLen + 1 PROVE q'[i][2] > n
    <3>1. SentAfter(q[1], q'[i])
      BY <1>6, <2>1 DEF Ascending
    <3>2. q'[i] \in Bytes
      BY <1>1
    <3> QED
      BY <2>1, <2>2, <2>4, <3>1, <3>2, ByteFields, LenFacts DEF SentAfter
  <2>5. Ascending(q') /\ \A i \in DOMAIN q' : \E j \in DOMAIN q : q'[i] = q[j]
    <3>1. q \in Seq(Bytes)
      BY <1>1
    <3>2. PartOf(q', q)
      BY <1>3
    <3>3. Ascending(q)
      BY <1>6
    <3> QED
      BY <3>1, <3>2, <3>3, AscendingPart
  <2>6. OnlyNewer(q', delivered')
    <3> SUFFICES ASSUME NEW i \in DOMAIN q', q'[i][3] = MarkerLen + 1
                 PROVE  delivered'[q'[i][1]] < q'[i][2]
      BY DEF OnlyNewer
    <3>1. q'[i][1] \in Streams /\ q'[i][2] \in Nat
      <4>1. q'[i] \in Bytes
        BY <1>1
      <4> QED
        BY <4>1, ByteFields, RemoteAssumption
    <3>2. CASE q'[i][1] = s
      BY <2>2, <2>3, <2>4, <3>1, <3>2
    <3>3. CASE q'[i][1] # s
      BY <1>6, <2>3, <2>5, <3>1, <3>3 DEF OnlyNewer
    <3> QED
      BY <3>2, <3>3
  <2>7. Genuine(q', sent)
    BY <1>6, <2>5 DEF Genuine
  <2>8. \A t \in Streams : delivered'[t] <= sent[t]
    BY <1>5, <2>2, <2>3
  <2>9. OrderInv'
    BY <1>2, <2>5, <2>6, <2>7, <2>8 DEF OrderInv, OnlyNewer, Genuine, Ascending, q
  <2>10. ASSUME NEW t \in Streams PROVE StreamFifo(t)!FifoNext
    <3>1. \A m : HeadersIn(q', t, m) \subseteq HeadersIn(q, t, m)
      BY <2>5 DEF HeadersIn
    <3>2. CASE t = s
      <4>1. n \in HeadersIn(q, s, sent[s])
        BY <2>1, <2>2 DEF HeadersIn
      <4>2. HeadersIn(q', s, sent[s]) \subseteq {k \in HeadersIn(q, s, sent[s]) : k > n}
        <5> SUFFICES ASSUME NEW k \in HeadersIn(q', s, sent[s])
                     PROVE  k \in HeadersIn(q, s, sent[s]) /\ k > n
          OBVIOUS
        <5>1. PICK i \in DOMAIN q' : q'[i] = <<s, k, MarkerLen + 1>>
          BY DEF HeadersIn
        <5> QED
          BY <2>4, <3>1, <3>2, <5>1
      <4> QED
        BY <1>2, <2>2, <2>3, <3>2, <4>1, <4>2, FifoStepIs DEF q
    <3>3. CASE t # s
      BY <1>2, <2>3, <3>1, <3>3, FifoStepIs DEF q
    <3> QED
      BY <3>2, <3>3
  <2> QED
    BY <2>9, <2>10 DEF FifoSteps
<1> QED
  BY <1>7, <1>8

\* Only the assembler hands packets on.
LEMMA DeliveredStays ==
    [Next]_vars => delivered' = delivered \/ CompletePacket
  BY DEF Next, Provider, PushImage, StopOldClients, EraseOldClients, SendImage, Accept, ConnectionThread,
       ConnectionLost, ConnectionEnds, StopServer, ServerStopped, StartServer, ProxySteps, Connect,
       Refused, Disconnect, ReceiveData, TakeMarker, KeepPart, RefuseLength, Handshake, Receive,
       StopProxy, Break, vars, asmVars

LEMMA NextOrder == BaseInv /\ LinkInv /\ OrderInv /\ [Next]_vars => OrderInv' /\ FifoSteps
<1> SUFFICES ASSUME BaseInv, LinkInv, OrderInv, [Next]_vars PROVE OrderInv' /\ FifoSteps
  OBVIOUS
<1>1. CASE CompletePacket
  BY <1>1, PacketKeepsOrder
<1>2. CASE delivered' = delivered
  <2>1. PartOf(InFlight, InFlight) /\ PartOf(<<>>, InFlight)
    BY InFlightFacts, EndsOf
  <2>2. CASE Provider
    <3>1. CASE UNCHANGED <<sent, OnWire, InFlight>>
      BY <1>2, <2>1, <3>1, LossKeepsOrder
    <3>2. CASE \E s \in Streams : SendsAtMost(s)
      BY <1>2, <3>2, SendKeepsOrder
    <3> QED
      BY <2>2, <3>1, <3>2, ProviderBytes
  <2>3. CASE Connect \/ Refused \/ Disconnect \/ StopProxy \/ \E c \in Conns : Handshake(c)
    <3>1. sent' = sent
      BY <2>3 DEF Connect, Refused, Disconnect, StopProxy, Handshake
    <3>2. PartOf(InFlight', InFlight)
      BY <2>1, <2>3, ConnectionMoves
    <3> QED
      BY <1>2, <3>1, <3>2, LossKeepsOrder
  <2>4. CASE TakeMarker \/ KeepPart \/ RefuseLength \/ \E k \in 1..Capacity : Receive(k)
    <3>1. sent' = sent
      BY <2>4 DEF TakeMarker, KeepPart, RefuseLength, Receive
    <3>2. PartOf(InFlight', InFlight)
      BY <2>1, <2>4, MarkerTaken, BytesRefused, PartKept, BytesReceived
    <3> QED
      BY <1>2, <3>1, <3>2, LossKeepsOrder
  <2>5. ASSUME NEW c \in Conns, Break(c) PROVE OrderInv' /\ FifoSteps
    <3>1. sent' = sent
      BY <2>5 DEF Break
    <3>2. PartOf(data \o buf, InFlight)
      BY InFlightFacts, EndsOf
    <3>3. PartOf(InFlight', InFlight)
      BY <2>1, <2>5, <3>2, BytesLost
    <3> QED
      BY <1>2, <3>1, <3>3, LossKeepsOrder
  <2>6. CASE UNCHANGED vars
    <3>1. sent' = sent /\ InFlight' = InFlight
      BY <2>6 DEF vars, asmVars, proxyVars, InFlight
    <3> QED
      BY <1>2, <2>1, <3>1, LossKeepsOrder
  <2> QED
    BY <1>1, <2>2, <2>3, <2>4, <2>5, <2>6 DEF Next, ProxySteps, ReceiveData
<1> QED
  BY <1>1, <1>2, DeliveredStays

LEMMA InitOrder == Init => OrderInv /\ \A s \in Streams : StreamFifo(s)!FifoInit
<1> SUFFICES ASSUME Init PROVE OrderInv /\ \A s \in Streams : StreamFifo(s)!FifoInit
  OBVIOUS
<1>1. InFlight = <<>>
  BY InitStream
<1>2. OrderInv
  BY <1>1 DEF Init, OrderInv, Ascending, OnlyNewer, Genuine
<1> QED
  BY <1>1, <1>2 DEF Init, StreamFifo!FifoInit

\* Each stream reaches the client as a lossy FIFO channel: through every loss
\* of the connection, every restart of the server, every packet that was cut
\* and every length that was read wrong, no frame comes twice, late, or after a
\* newer one.
THEOREM StreamsKeepOrder == Spec => StreamsInOrder
<1> DEFINE Starts == \A s \in Streams : StreamFifo(s)!FifoInit
           Inv == BaseInv /\ LinkInv /\ OrderInv
<1>1. Init => Inv /\ Starts
  BY InitBase, InitStream, InitOrder DEF FramedInv
<1>2. Inv /\ [Next]_vars => Inv' /\ FifoSteps
  BY NextBase, NextLink, NextOrder
<1>3. StreamsInOrder <=> Starts /\ [][FifoSteps]_vars
  BY DEF StreamsInOrder, FifoSteps
<1> HIDE DEF Starts, Inv
<1> QED
  BY <1>1, <1>2, <1>3, PTL DEF Spec

----------------------------------------------------------------------------
(* What a whole stream is worth to the client.                             *)

\* Only a packet cut by a send (NetSocket.cpp:135) or a marker split by a
\* receive (NetPacketAssembler.cpp:75), and one of this very connection, can
\* make the assembler throw, or take a length for another one: without them the
\* thread goes on, what is read is the length that was sent, and less than a
\* packet is kept, whatever any connection before was like
\* (NetPacketAssembler.cpp:22-89).
AssemblerSound ==
    [][ReceiveData /\ Framed => /\ proxy' = proxy
                                /\ valid' => total' = PayloadLen
                                /\ Len(data') < PayloadLen]_vars

\* For every length of markers and frames, and every way to cut what is sent
\* into receives.
THEOREM AssemblerNeverThrows == Spec => AssemblerSound
<1>1. BaseInv /\ FramedInv /\ FramedInv' /\ [Next]_vars
        => [ReceiveData /\ Framed => /\ proxy' = proxy
                                     /\ valid' => total' = PayloadLen
                                     /\ Len(data') < PayloadLen]_vars
  <2> SUFFICES ASSUME BaseInv, FramedInv, FramedInv', ReceiveData, Framed
               PROVE  /\ proxy' = proxy
                      /\ valid' => total' = PayloadLen
                      /\ Len(data') < PayloadLen
    OBVIOUS
  <2>0. StreamInv /\ StreamInv'
    BY DEF ReceiveData, TakeMarker, KeepPart, RefuseLength, CompletePacket, history, Framed, FramedInv
  <2>1. proxy' = proxy
    <3>1. CASE TakeMarker
      <4>1. data = <<>> /\ ~valid /\ Len(data) = 0 /\ buf \in Seq(Bytes)
        BY <2>0, <3>1 DEF TakeMarker, StreamInv, BaseInv, TypeOK
      <4>2. Len(buf) >= MarkerLen /\ Len(buf) \in Nat
        BY <3>1, <4>1, LenFacts DEF TakeMarker
      <4>3. ~(Len(buf) < MarkerLen)
        BY <4>2, LenFacts
      <4> QED
        BY <3>1, <4>3 DEF TakeMarker
    <3>2. ~RefuseLength
      BY <2>0, LenFacts DEF RefuseLength, StreamInv
    <3> QED
      BY <3>1, <3>2 DEF ReceiveData, KeepPart, CompletePacket
  <2>2. (valid' => total' = PayloadLen) /\ Len(data') < PayloadLen
    <3>1. IF valid' THEN total' = PayloadLen /\ Len(data') < PayloadLen ELSE data' = <<>>
      BY <2>0 DEF StreamInv
    <3> QED
      BY <3>1, LenFacts
  <2> QED
    BY <2>1, <2>2
<1> QED
  BY <1>1, BaseInvariance, FramedInvariance, PTL DEF Spec, AssemblerSound

----------------------------------------------------------------------------
(* Who has the sockets.                                                    *)

\* Every connection that exists belongs to the provider, to the system's list
\* of those to accept or to the client, and to one of the first two at most;
\* what one side has closed goes with the other.  No socket leaks through a
\* break, a refusal, an erasure or a restart, and no connection that the
\* client makes anew is one the provider still holds
\* (BasicNetExchange.h:45-102, NetTCPServer.cpp:63-89, NetSocket.cpp:93-100).
SocketsOwned ==
    /\ clients \cap backlog = {}
    /\ server = "down" => clients \cup backlog = {}
    /\ \A c \in Conns :
          /\ link[c] = "free" => c \notin clients \cup backlog /\ conn # c
          /\ link[c] = "up" => c \in clients \cup backlog /\ conn = c
          /\ link[c] = "broken" => c \in clients \cup backlog
          /\ link[c] = "shut" => c \notin clients \cup backlog /\ conn = c

\* Sockets of the provider's are closed.
LEMMA CloseKeepsOwned ==
    ASSUME BaseInv, SocketsOwned, NEW S \in SUBSET (clients \cup backlog), CloseSockets(S),
           conn' = conn, server' = server \/ server' = "down",
           clients' \cup backlog' = (clients \cup backlog) \ S,
           clients' \cap backlog' = {}, server' = "down" => clients' \cup backlog' = {}
    PROVE  SocketsOwned'
<1> SUFFICES ASSUME NEW c \in Conns
             PROVE  /\ link'[c] = "free" => c \notin clients' \cup backlog' /\ conn' # c
                    /\ link'[c] = "up" => c \in clients' \cup backlog' /\ conn' = c
                    /\ link'[c] = "broken" => c \in clients' \cup backlog'
                    /\ link'[c] = "shut" => c \notin clients' \cup backlog' /\ conn' = c
  BY DEF SocketsOwned
<1>1. link'[c] = IF c \notin S THEN link[c] ELSE IF conn = c THEN "shut" ELSE "free"
  BY DEF CloseSockets
<1>2. CASE c \in S
  BY <1>1, <1>2
<1>3. CASE c \notin S
  BY <1>1, <1>3 DEF SocketsOwned
<1> QED
  BY <1>2, <1>3

LEMMA ProviderKeepsOwned ==
    ASSUME BaseInv, SocketsOwned, Provider
    PROVE  SocketsOwned'
<1>1. ASSUME NEW s \in Streams, EraseOldClients(s) PROVE SocketsOwned'
  <2> DEFINE S == {c \in clients : ~working[c]}
  <2>1. /\ CloseSockets(S) /\ clients' = clients \ S /\ backlog' = backlog
        /\ conn' = conn /\ server' = server
    BY <1>1 DEF EraseOldClients, JoinAndErase, proxyVars
  <2>2. S \subseteq clients \cup backlog /\ S \cap backlog = {}
    BY DEF SocketsOwned
  <2> HIDE DEF S
  <2>3. clients' \cup backlog' = (clients \cup backlog) \ S /\ clients' \cap backlog' = {}
    BY <2>1, <2>2 DEF SocketsOwned
  <2>4. server' = "down" => clients' \cup backlog' = {}
    BY <2>1, <2>3 DEF SocketsOwned
  <2> QED
    BY <2>1, <2>2, <2>3, <2>4, CloseKeepsOwned
<1>2. ASSUME NEW c \in Conns, Accept(c) PROVE SocketsOwned'
  <2>1. /\ server = "up" /\ c \in backlog /\ backlog' = backlog \ {c} /\ c \notin clients
        /\ server' = server /\ conn' = conn
    BY <1>2 DEF Accept, SocketsOwned, proxyVars
  <2>2. CASE clients' = clients \cup {c} /\ UNCHANGED link
    BY <2>1, <2>2 DEF SocketsOwned
  <2>3. CASE CloseSockets({c}) /\ clients' = clients
    <3>1. clients' \cup backlog' = (clients \cup backlog) \ {c} /\ clients' \cap backlog' = {}
      BY <2>1, <2>3 DEF SocketsOwned
    <3> QED
      BY <2>1, <2>3, <3>1, CloseKeepsOwned
  <2> QED
    BY <1>2, <2>2, <2>3 DEF Accept
<1>3. CASE ServerStopped
  <2> DEFINE S == clients \cup backlog
  <2>1. CloseSockets(S) /\ clients' = {} /\ backlog' = {} /\ conn' = conn /\ server' = "down"
    BY <1>3 DEF ServerStopped, proxyVars
  <2> HIDE DEF S
  <2>2. clients' \cup backlog' = S \ S /\ clients' \cap backlog' = {}
    BY <2>1
  <2> QED
    BY <2>1, <2>2, CloseKeepsOwned DEF S
<1>4. CASE StartServer
  BY <1>4 DEF StartServer, proxyVars, SocketsOwned
<1>5. CASE StopServer
  BY <1>5 DEF StopServer, proxyVars, SocketsOwned
<1>6. ASSUME NEW c \in Conns, ConnectionThread(c) PROVE SocketsOwned'
  BY <1>6 DEF ConnectionThread, ConnectionLost, ConnectionEnds, proxyVars, SocketsOwned
<1>7. ASSUME NEW s \in Streams, StopOldClients(s) \/ SendImage(s) PROVE SocketsOwned'
  BY <1>7 DEF StopOldClients, SendImage, proxyVars, SocketsOwned
<1> QED
  BY <1>1, <1>2, <1>3, <1>4, <1>5, <1>6, <1>7 DEF Provider, PushImage

LEMMA ClientKeepsOwned ==
    ASSUME BaseInv, SocketsOwned, ProxySteps \/ StopProxy \/ \E c \in Conns : Break(c)
    PROVE  SocketsOwned'
<1>1. ASSUME NEW c \in Conns, Handshake(c) PROVE SocketsOwned'
  <2>1. /\ conn = NoConn /\ c # NoConn /\ conn' = c /\ server # "down" /\ server' = server
        /\ link[c] = "free" /\ link' = [link EXCEPT ![c] = "up"]
        /\ clients' = clients /\ backlog' = backlog \cup {c}
        /\ link \in [Conns -> {"free", "up", "broken", "shut"}] /\ NoConn \notin Conns
    BY <1>1, RemoteAssumption DEF Handshake, BaseInv, TypeOK
  <2>2. \A d \in Conns : d # c => link'[d] = link[d]
    BY <2>1
  <2>3. link'[c] = "up"
    BY <2>1
  <2> QED
    BY <2>1, <2>2, <2>3 DEF SocketsOwned
<1>2. CASE Disconnect \/ StopProxy
  <2>1. CloseProxySocket /\ UNCHANGED serverVars
    BY <1>2 DEF Disconnect, StopProxy
  <2>2. /\ conn' = NoConn /\ NoConn \notin Conns
        /\ server' = server /\ clients' = clients /\ backlog' = backlog
        /\ link \in [Conns -> {"free", "up", "broken", "shut"}]
        /\ \A d \in Conns : link'[d] = IF d # conn THEN link[d]
                                       ELSE IF link[d] = "shut" THEN "free" ELSE "broken"
    BY <2>1, RemoteAssumption DEF CloseProxySocket, serverVars, BaseInv, TypeOK
  <2>3. \A d \in Conns : link[d] \in {"free", "up", "broken", "shut"}
    BY <2>2
  <2> QED
    BY <2>2, <2>3 DEF SocketsOwned
<1>3. ASSUME NEW c \in Conns, Break(c) PROVE SocketsOwned'
  <2>1. link[c] = "up" /\ link' = [link EXCEPT ![c] = "broken"] /\ UNCHANGED <<serverVars, proxyVars>>
        /\ link \in [Conns -> {"free", "up", "broken", "shut"}]
    BY <1>3 DEF Break, BaseInv, TypeOK
  <2>2. link'[c] = "broken" /\ \A d \in Conns : d # c => link'[d] = link[d]
    BY <2>1
  <2> QED
    BY <2>1, <2>2 DEF SocketsOwned, serverVars, proxyVars
<1>4. CASE Connect \/ Refused \/ ReceiveData \/ \E k \in 1..Capacity : Receive(k)
  BY <1>4 DEF Connect, Refused, ReceiveData, TakeMarker, KeepPart, RefuseLength, CompletePacket,
     Receive, serverVars, SocketsOwned
<1> QED
  BY <1>1, <1>2, <1>3, <1>4 DEF ProxySteps

\* For every set of connections, and however often either side goes away.
THEOREM SocketsDoNotLeak == Spec => []SocketsOwned
<1>1. ASSUME Init PROVE SocketsOwned
  <2>1. /\ server = "up" /\ clients = {} /\ backlog = {} /\ conn = NoConn /\ NoConn \notin Conns
        /\ \A c \in Conns : link[c] = "free"
    BY <1>1, RemoteAssumption DEF Init
  <2> QED
    BY <2>1 DEF SocketsOwned
<1>2. BaseInv /\ SocketsOwned /\ [Next]_vars => SocketsOwned'
  <2>1. ASSUME SocketsOwned, UNCHANGED vars PROVE SocketsOwned'
    BY <2>1 DEF vars, serverVars, proxyVars, SocketsOwned
  <2> QED
    BY <2>1, ProviderKeepsOwned, ClientKeepsOwned DEF Next
<1> QED
  BY <1>1, <1>2, BaseInvariance, PTL DEF Spec

----------------------------------------------------------------------------
(* The waits under m_MapSync.                                              *)

\* One thread at a time waits for connections with m_MapSync in its hands,
\* and when it is Stop, all the connections it waits for have been told
\* (BasicNetExchange.h:50-69, 93-102).
OneWaits ==
    /\ \A s, t \in Streams : push[s] = "delete" /\ push[t] = "delete" => s = t
    /\ server # "up" => \A s \in Streams : push[s] = "idle"
    /\ server = "stopping" => \A c \in clients : ~working[c]

\* The steps the threads of the connections can still take.
ThreadsLeft ==
    {<<"end", c>> : c \in {d \in Conns : running[d]}}
    \cup {<<"lost", c>> : c \in {d \in Conns : running[d] /\ working[d]}}

\* A wait under m_MapSync is bounded: while it lasts no connection is accepted
\* and no thread started, and each step of a connection's thread brings its
\* end nearer (BasicNetExchange.h:50-69, 93-102; NetTCPConnection.cpp:65-101).
WaitsShrink ==
    [][Locked /\ Locked' =>
          /\ clients' \subseteq clients /\ ThreadsLeft' \subseteq ThreadsLeft
          /\ \A c \in Conns : ConnectionThread(c) => ThreadsLeft' # ThreadsLeft]_vars

LEMMA InitWaits == Init => OneWaits
  BY DEF Init, OneWaits

LEMMA NextWaits == BaseInv /\ OneWaits /\ [Next]_vars => OneWaits'
<1> SUFFICES ASSUME BaseInv, OneWaits, [Next]_vars PROVE OneWaits'
  OBVIOUS
<1>1. push \in [Streams -> {"idle", "delete", "send"}] /\ working \in [Conns -> BOOLEAN]
      /\ clients \subseteq Conns
  BY DEF BaseInv, TypeOK
<1>2. ASSUME NEW s \in Streams, StopOldClients(s) PROVE OneWaits'
  BY <1>1, <1>2 DEF StopOldClients, Locked, OneWaits
<1>3. ASSUME NEW s \in Streams, EraseOldClients(s) \/ SendImage(s) PROVE OneWaits'
  <2>1. /\ push[s] # "idle" /\ server' = server /\ working' = working
        /\ push' \in {[push EXCEPT ![s] = "idle"], [push EXCEPT ![s] = "send"]}
    BY <1>1, <1>3 DEF EraseOldClients, SendImage
  <2>2. server = "up"
    BY <1>1, <2>1 DEF OneWaits, BaseInv, TypeOK
  <2> QED
    BY <1>1, <2>1, <2>2 DEF OneWaits
<1>4. ASSUME NEW c \in Conns, Accept(c) PROVE OneWaits'
  BY <1>4 DEF Accept, OneWaits
<1>5. ASSUME NEW c \in Conns, ConnectionThread(c) PROVE OneWaits'
  BY <1>1, <1>5 DEF ConnectionThread, ConnectionLost, ConnectionEnds, OneWaits
<1>6. CASE StopServer
  BY <1>1, <1>6 DEF StopServer, OneWaits
<1>7. CASE ServerStopped \/ StartServer
  BY <1>7 DEF ServerStopped, StartServer, OneWaits
<1>8. CASE ProxySteps \/ StopProxy \/ (\E c \in Conns : Break(c)) \/ UNCHANGED vars
  <2>1. UNCHANGED <<server, push, clients, working>>
    BY <1>8 DEF ProxySteps, Connect, Refused, Disconnect, StopProxy, ReceiveData, TakeMarker,
       KeepPart, RefuseLength, CompletePacket, Handshake, Receive, Break, serverVars, vars
  <2> QED
    BY <2>1 DEF OneWaits
<1> QED
  BY <1>2, <1>3, <1>4, <1>5, <1>6, <1>7, <1>8 DEF Next, Provider, PushImage

\* No two threads wait under m_MapSync, and Stop waits for no thread that does
\* not know of it.
THEOREM OneWaiter == Spec => []OneWaits
  BY InitWaits, NextWaits, BaseInvariance, PTL DEF Spec

\* For every set of streams and connections.
THEOREM WaitsAreBounded == Spec => WaitsShrink
<1>1. BaseInv /\ OneWaits /\ [Next]_vars
        => [Locked /\ Locked' =>
              /\ clients' \subseteq clients /\ ThreadsLeft' \subseteq ThreadsLeft
              /\ \A c \in Conns : ConnectionThread(c) => ThreadsLeft' # ThreadsLeft]_vars
  <2> SUFFICES ASSUME BaseInv, OneWaits, Next, Locked, Locked'
               PROVE  /\ clients' \subseteq clients /\ ThreadsLeft' \subseteq ThreadsLeft
                      /\ \A c \in Conns : ConnectionThread(c) => ThreadsLeft' # ThreadsLeft
    OBVIOUS
  <2>1. running \in [Conns -> BOOLEAN] /\ working \in [Conns -> BOOLEAN]
    BY DEF BaseInv, TypeOK
  <2>2. ASSUME NEW c \in Conns, ConnectionThread(c)
        PROVE  clients' = clients /\ ThreadsLeft' \subseteq ThreadsLeft /\ ThreadsLeft' # ThreadsLeft
    <3>1. CASE ConnectionLost(c)
      <4>1. /\ clients' = clients /\ running' = running /\ running[c] /\ working[c]
            /\ working' = [working EXCEPT ![c] = FALSE]
        BY <3>1 DEF ConnectionLost
      <4>2. <<"lost", c>> \in ThreadsLeft /\ <<"lost", c>> \notin ThreadsLeft'
        BY <2>1, <4>1 DEF ThreadsLeft
      <4> QED
        BY <2>1, <4>1, <4>2 DEF ThreadsLeft
    <3>2. CASE ConnectionEnds(c)
      <4>1. /\ clients' = clients /\ running[c] /\ working' = working
            /\ running' = [running EXCEPT ![c] = FALSE]
        BY <3>2 DEF ConnectionEnds
      <4>2. <<"end", c>> \in ThreadsLeft /\ <<"end", c>> \notin ThreadsLeft'
        BY <2>1, <4>1 DEF ThreadsLeft
      <4> QED
        BY <2>1, <4>1, <4>2 DEF ThreadsLeft
    <3> QED
      BY <2>2, <3>1, <3>2 DEF ConnectionThread
  <2>3. CASE ~\E c \in Conns : ConnectionThread(c)
    <3>1. clients' \subseteq clients /\ running' = running
          /\ \A c \in Conns : working'[c] => working[c]
      <4>1. ASSUME NEW s \in Streams, PushImage(s)
            PROVE  clients' \subseteq clients /\ running' = running
                   /\ \A c \in Conns : working'[c] => working[c]
        BY <4>1 DEF PushImage, StopOldClients, EraseOldClients, JoinAndErase, SendImage
      <4>2. ASSUME NEW c \in Conns, Accept(c) PROVE FALSE
        BY <4>2 DEF Accept
      <4>3. StopServer => clients' \subseteq clients /\ running' = running
                          /\ \A c \in Conns : working'[c] => working[c]
        BY DEF StopServer
      <4>4. ServerStopped \/ StartServer
              => clients' \subseteq clients /\ running' = running /\ working' = working
        BY DEF ServerStopped, StartServer
      <4>5. ProxySteps \/ StopProxy \/ (\E c \in Conns : Break(c))
              => UNCHANGED <<clients, running, working>>
        BY DEF ProxySteps, Connect, Refused, Disconnect, StopProxy, ReceiveData, TakeMarker,
           KeepPart, RefuseLength, CompletePacket, Handshake, Receive, Break, serverVars
      <4> QED
        BY <2>3, <4>1, <4>2, <4>3, <4>4, <4>5 DEF Next, Provider
    <3> QED
      BY <2>3, <3>1 DEF ThreadsLeft
  <2> QED
    BY <2>2, <2>3
<1> QED
  BY <1>1, BaseInvariance, OneWaiter, PTL DEF Spec, WaitsShrink

=============================================================================
