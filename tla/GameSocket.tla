----------------------------- MODULE GameSocket -----------------------------
(***************************************************************************)
(* GameSocket with its TcpSocket and UdpSocket (net/game_socket.cpp,       *)
(* tcp_socket.cpp, udp_socket.cpp) between two threads of the client: one  *)
(* sits in recvPacket, another one connects and disconnects.               *)
(*                                                                         *)
(* The kernel is external.  A TCP connection is a file descriptor with the *)
(* cells that have arrived on it; the bytes of a frame are the pairs of    *)
(* its number and an index, the first LenCells of them its length prefix.  *)
(* A read returns any part of what has arrived.  `recv` on a descriptor    *)
(* that the other thread closes under it fails, or still returns what      *)
(* comes in, as the platforms differ.                                      *)
(*                                                                         *)
(* A definition ending in _m is a faulty variant of the one after it.      *)
(***************************************************************************)
EXTENDS Integers, Sequences, SequencesExt, FiniteSets

CONSTANTS Fds,          \* descriptors the kernel can give out
          LenCells,     \* cells of a length prefix
          Sizes,        \* sizes of the packets the server sends
          DATA_BUF_SIZE,
          MaxFrames,    \* frames the server sends
          MaxDatagrams,
          Servers       \* addresses

ASSUME GameSocketAssumption ==
    /\ LenCells \in Nat \ {0} /\ DATA_BUF_SIZE \in Nat /\ Sizes \subseteq 1..DATA_BUF_SIZE
    /\ {MaxFrames, MaxDatagrams} \subseteq Nat

VARIABLES socket_,       \* the descriptor of TcpSocket, NoFd for 0 and -1
          connected,     \* TcpSocket::connected
          udpConnected,  \* UdpSocket::connected
          destAddr,      \* UdpSocket::destAddr_
          used,          \* descriptors given out so far
          open,          \* those the client has not closed
          stream,        \* cells arrived on each and not read
          fin,           \* those the server has closed
          sent,          \* the frames sent on each, as their sizes
          datagrams,     \* sources of the datagrams waiting
          heard,         \* servers whose datagrams were accepted since connecting
          pc,            \* of the receiving thread
          fd,            \* the descriptor it is blocked on
          buffer, want,  \* recvExact's buffer, and bufferSize
          delivered,     \* cells of the packets decoded, with their descriptors
          torn           \* connections made while a packet was being received

tcp == <<socket_, connected, open>>
kernel == <<used, fin, sent>>
udp == <<udpConnected, destAddr, datagrams, heard>>
reader == <<pc, fd, buffer, want>>
socketVars == <<tcp, kernel, stream, udp, reader, delivered, torn>>

NoFd == 0
NoAddr == "none"

Frame(conn, n, size) == [i \in 1..LenCells + size |-> <<conn, n, i>>]
Body(conn, n) == SubSeq(Frame(conn, n, sent[conn][n]), LenCells + 1, LenCells + sent[conn][n])

SocketInit ==
    /\ socket_ = NoFd /\ connected = FALSE /\ udpConnected = FALSE /\ destAddr = NoAddr
    /\ used = {} /\ open = {} /\ fin = {}
    /\ stream = [c \in Fds |-> <<>>] /\ sent = [c \in Fds |-> <<>>]
    /\ datagrams = <<>> /\ heard = {}
    /\ pc = "poll" /\ fd = NoFd /\ buffer = <<>> /\ want = 0
    /\ delivered = <<>> /\ torn = {}

-----------------------------------------------------------------------------
(* The connecting thread.                                                  *)

(* A fresh descriptor, the address and, at last, the magic byte.           *)
TakesFd(c) == c = Cardinality(used) + 1 /\ c \in Fds /\ used' = used \union {c}

ConnectOk(c, a) ==
    /\ ~connected /\ TakesFd(c)
    /\ socket_' = c /\ connected' = TRUE /\ open' = open \union {c}
    /\ udpConnected' = TRUE /\ destAddr' = a /\ heard' = {}
    /\ torn' = IF pc = "poll" THEN torn ELSE torn \union {c}
    /\ UNCHANGED <<fin, sent, stream, datagrams, reader, delivered>>

(* poll(2500) times out: the descriptor stays behind, not connected.       *)
ConnectTimeout(c) ==
    /\ ~connected /\ TakesFd(c)
    /\ socket_' = c /\ open' = open \union {c}
    /\ UNCHANGED <<connected, fin, sent, stream, udp, reader, delivered, torn>>

(* A refused connection polls as writable; the magic byte cannot be sent   *)
(* and maybeDisconnect closes the socket again.                            *)
ConnectRefused(c, a) ==
    /\ ~connected /\ TakesFd(c)
    /\ socket_' = NoFd
    /\ udpConnected' = TRUE /\ destAddr' = a /\ heard' = {}
    /\ UNCHANGED <<connected, open, fin, sent, stream, datagrams, reader, delivered, torn>>

CloseTcp == connected' = FALSE /\ open' = open \ {socket_} /\ socket_' = NoFd

disconnect ==
    /\ socket_ # NoFd
    /\ CloseTcp
    /\ udpConnected' = FALSE
    /\ UNCHANGED <<kernel, stream, destAddr, datagrams, heard, reader, delivered, torn>>

(* sendPacket over TCP when the connection is broken: send fails.          *)
SendFails ==
    /\ connected /\ socket_ \in fin
    /\ CloseTcp
    /\ UNCHANGED <<kernel, stream, udp, reader, delivered, torn>>

-----------------------------------------------------------------------------
(* The server and the network.                                             *)

FramesSent == FoldSet(LAMBDA c, n : n + Len(sent[c]), 0, Fds)

ServerWrites ==
    \E c \in used \ fin, size \in Sizes :
        /\ c \in open /\ FramesSent < MaxFrames
        /\ sent' = [sent EXCEPT ![c] = Append(@, size)]
        /\ stream' = [stream EXCEPT ![c] = @ \o Frame(c, Len(sent[c]) + 1, size)]
        /\ UNCHANGED <<tcp, used, fin, udp, reader, delivered, torn>>

ServerCloses ==
    \E c \in open \ fin :
        /\ fin' = fin \union {c}
        /\ UNCHANGED <<tcp, used, sent, stream, udp, reader, delivered, torn>>

DatagramArrives ==
    \E a \in Servers :
        /\ Len(datagrams) < MaxDatagrams
        /\ datagrams' = Append(datagrams, a)
        /\ UNCHANGED <<tcp, kernel, stream, udpConnected, destAddr, heard, reader, delivered, torn>>

-----------------------------------------------------------------------------
(* The receiving thread.                                                   *)

Abandon == pc' = "poll" /\ fd' = NoFd /\ buffer' = <<>> /\ want' = 0

(* poll says that TCP is readable: recvPacketTCP asks for the length.      *)
PollTcp ==
    /\ pc = "poll" /\ connected
    /\ stream[socket_] # <<>> \/ socket_ \in fin
    /\ pc' = "length" /\ want' = LenCells /\ fd' = NoFd /\ buffer' = <<>>
    /\ UNCHANGED <<tcp, kernel, stream, udp, delivered, torn>>

fromConnected(a) == udpConnected /\ a = destAddr

(* Only UDP is readable.  A datagram of another server than the one we are *)
(* connected to is not `fromConnected`, and threadRecvFunc drops it.       *)
recvPacketUDP ==
    /\ pc = "poll" /\ datagrams # <<>>
    /\ connected => stream[socket_] = <<>> /\ socket_ \notin fin
    /\ datagrams' = Tail(datagrams)
    /\ heard' = IF fromConnected(Head(datagrams)) THEN heard \union {Head(datagrams)} ELSE heard
    /\ UNCHANGED <<tcp, kernel, stream, udpConnected, destAddr, reader, delivered, torn>>

(* receive(): refused when disconnected, else blocked in ::recv.           *)
EnterRecv ==
    /\ pc \in {"length", "body"} /\ fd = NoFd
    /\ IF connected THEN fd' = socket_ /\ UNCHANGED <<pc, buffer, want>> ELSE Abandon
    /\ UNCHANGED <<tcp, kernel, stream, udp, delivered, torn>>

(* The packet size in the four bytes, whatever they are: those of a frame, *)
(* or bytes of several that give any size at all.                          *)
PacketSizes(cells) ==
    LET c == cells[1][1]
        n == cells[1][2]
    IN IF cells = SubSeq(Frame(c, n, sent[c][n]), 1, LenCells) THEN {sent[c][n]} ELSE 1..DATA_BUF_SIZE

(* recvExact has all it wants: the length, which must be less than the     *)
(* buffer, or the packet.                                                  *)
Complete(cells) ==
    IF pc = "length"
    THEN /\ \E size \in PacketSizes(cells) :
              IF size < DATA_BUF_SIZE
              THEN pc' = "body" /\ want' = size /\ fd' = NoFd /\ buffer' = <<>>
              ELSE Abandon
         /\ UNCHANGED delivered
    ELSE Abandon /\ delivered' = Append(delivered, [from |-> fd, cells |-> cells])

recvExact_m(got) ==
    IF Len(buffer \o got) > 0 /\ want > 0
    THEN Complete(buffer \o got \o [i \in 1..want - Len(buffer \o got) |-> <<fd, 1, 0>>])
    ELSE FALSE

(* A part of what has arrived; the loop goes on until it has all of it.    *)
recvExact(got) ==
    IF Len(buffer \o got) < want
    THEN buffer' = buffer \o got /\ fd' = NoFd /\ UNCHANGED <<pc, want, delivered>>
    ELSE Complete(buffer \o got)

RecvSome ==
    /\ fd # NoFd
    /\ \E got \in Prefixes(stream[fd]) \ {<<>>} :
         /\ Len(got) <= want - Len(buffer)
         /\ stream' = [stream EXCEPT ![fd] = SubSeq(@, Len(got) + 1, Len(@))]
         /\ recvExact(got)
    /\ UNCHANGED <<tcp, kernel, udp, torn>>

RecvZero_m ==
    /\ fd # NoFd /\ stream[fd] = <<>> /\ fd \in fin
    /\ Abandon
    /\ UNCHANGED <<tcp, kernel, stream, udp, delivered, torn>>

(* recv returns 0 at the end of the stream: TcpSocket disconnects.         *)
RecvZero ==
    /\ fd # NoFd /\ stream[fd] = <<>> /\ fd \in fin
    /\ CloseTcp
    /\ Abandon
    /\ UNCHANGED <<kernel, stream, udp, delivered, torn>>

(* recv fails because the descriptor was closed meanwhile: maybeDisconnect *)
(* closes whatever socket_ is by then.                                     *)
RecvError ==
    /\ fd # NoFd /\ fd \notin open
    /\ CloseTcp
    /\ Abandon
    /\ UNCHANGED <<kernel, stream, udp, delivered, torn>>

-----------------------------------------------------------------------------
Receive == PollTcp \/ recvPacketUDP \/ EnterRecv \/ RecvSome \/ RecvZero \/ RecvError

SocketNext ==
    \/ \E c \in Fds : ConnectTimeout(c) \/ \E a \in Servers : ConnectOk(c, a) \/ ConnectRefused(c, a)
    \/ disconnect \/ SendFails
    \/ ServerWrites \/ ServerCloses \/ DatagramArrives
    \/ Receive

-----------------------------------------------------------------------------
SocketTypeOK ==
    /\ socket_ \in Fds \union {NoFd} /\ connected \in BOOLEAN /\ udpConnected \in BOOLEAN
    /\ open \subseteq used /\ fin \subseteq used /\ torn \subseteq used
    /\ pc \in {"poll", "length", "body"} /\ fd \in Fds \union {NoFd}
    /\ Len(buffer) <= want
    /\ connected => socket_ \in open

ReceivedOn(c) == SelectSeq(delivered, LAMBDA p : p.from = c)

(* However the network cuts the stream, the packets decoded on a           *)
(* connection are those the server framed on it, whole, in order and none  *)
(* left out (recvPacketTCP and recvExact), as long as every frame fits the *)
(* buffer and the connection was not made in the middle of receiving.      *)
FramesInOrder ==
    \A c \in used \ torn :
        (\A i \in DOMAIN sent[c] : sent[c][i] < DATA_BUF_SIZE) =>
            LET got == ReceivedOn(c)
            IN Len(got) <= Len(sent[c]) /\ \A i \in DOMAIN got : got[i].cells = Body(c, i)

(* Once the server has closed the connection, and whatever it sent before  *)
(* is read, the client is no longer connected to it: the receiving thread  *)
(* never stays in recv or spins on the end of the stream                   *)
(* (TcpSocket::receive).                                                   *)
CloseIsNoticed ==
    \A c \in Fds : (connected /\ socket_ = c /\ c \in fin) ~> ~(connected /\ socket_ = c)

=============================================================================
