--------------------------- MODULE NetworkManager ---------------------------
(***************************************************************************)
(* The client's connection to a game server: NetworkManager::Impl          *)
(* (net/manager.cpp) with the part of GameSocket and TcpSocket it drives   *)
(* and the active server of GameServerManager.                             *)
(*                                                                         *)
(* Three threads share the manager without a lock: "main" (the game, which *)
(* connects, disconnects, pushes tasks and runs queued callbacks), "in"    *)
(* (threadRecvFunc) and "out" (threadMainFunc).  `pc` says where each one  *)
(* is.  Every store to `state` that another thread can see between two     *)
(* others is a step of its own: disconnect() resets the flags in one step  *)
(* and closes the socket in the next, and the out thread stores            *)
(* Authenticating after socket.connect has returned.                       *)
(*                                                                         *)
(* The server is external: `peer` is how far it is with the current TCP    *)
(* connection, `inbox` what it has sent on it.  It answers, refuses,       *)
(* closes the connection or stays silent.  Time is kept as far as the code *)
(* looks at it: sinceLastPacket is 0, 1 (past the 5 second handshake limit *)
(* and the 10 second keepalive limit) or 2 (past the 20 second limit).     *)
(*                                                                         *)
(* A definition whose name ends in _m is a faulty variant of the one after *)
(* it, kept to see that the properties notice the fault.                   *)
(***************************************************************************)
EXTENDS Integers, Sequences

CONSTANTS MaxTasks,   \* how many tasks the game keeps in taskQueue at once
          MaxCalls    \* how often the player uses the menus

ASSUME NetworkManagerAssumption == MaxTasks \in Nat \ {0} /\ MaxCalls \in Nat

VARIABLES state,              \* ConnectionState
          recovering,
          recoverAttempt,
          cancellingRecovery,
          standalone,
          suspended,
          authToken,          \* whether the account manager holds a token
          active,             \* whether GameServerManager has an active server
          playing,            \* in a level with others: a packet every 1/tps s
          connected,          \* tcpSocket.connected
          peer,
          inbox,
          sinceLastPacket,
          taskQueue,
          callbacks,          \* queueInMainThread and PacketListenerPool
          received,           \* the packet in the in thread's hands
          pc,
          calls               \* how often the player has used the menus

flags == <<state, recovering, recoverAttempt, cancellingRecovery, standalone>>
link == <<connected, peer, inbox>>
settings == <<suspended, authToken, playing>>
game == <<settings, calls>>
vars == <<flags, link, game, active, sinceLastPacket, taskQueue, callbacks,
          received, pc>>

(* The limit in `attemptNumber > 3`.                                       *)
RecoverAttempts == 3

Packet == {"HandshakeResponse", "ProtocolMismatch", "LoggedIn", "LoginFailed",
           "LoginRecoveryFailed", "ServerDisconnect", "ServerBanned", "Other"}
Task == {"Handshake", "Login", "Claim", "Keepalive", "PlayerData", "PingActive"}
NoPacket == "none"

TypeOK ==
    /\ state \in {"Disconnected", "TcpConnecting", "Authenticating", "Established"}
    /\ recoverAttempt \in 0 .. RecoverAttempts
    /\ {recovering, cancellingRecovery, standalone, suspended, authToken,
        active, playing, connected} \subseteq BOOLEAN
    /\ peer \in {"none", "fresh", "handshake", "keyed", "login", "recovery",
                 "recovering", "session", "closed"}
    /\ (peer = "none") => inbox = << >>
    /\ inbox \in Seq(Packet) /\ taskQueue \in Seq(Task)
    /\ callbacks \in Seq({"HandshakeResponse", "ServerBanned"})
    /\ sinceLastPacket \in 0 .. 2 /\ calls \in 0 .. MaxCalls
    /\ received \in Packet \cup {NoPacket}
    /\ pc \in [main : {"idle", "closing", "reopening", "open"},
               in : {"idle", "handle", "loggedIn", "closing", "reopening", "open"},
               out : {"idle", "connect", "connected", "lost", "reconnect",
                      "reconnected", "sendData", "failed", "backoff", "tasks",
                      "ping", "closing"}]

Init ==
    /\ state = "Disconnected"
    /\ recovering = FALSE /\ recoverAttempt = 0 /\ cancellingRecovery = FALSE
    /\ standalone = FALSE /\ suspended = FALSE /\ authToken = FALSE
    /\ active = FALSE /\ playing = FALSE
    /\ connected = FALSE /\ peer = "none" /\ inbox = << >>
    /\ sinceLastPacket = 0
    /\ taskQueue = << >> /\ callbacks = << >> /\ received = NoPacket
    /\ pc = [main |-> "idle", in |-> "idle", out |-> "idle"]
    /\ calls = 0

-----------------------------------------------------------------------------
(* connect() and disconnect(), which any thread may be in.                 *)

Goto(th, label) == pc' = [pc EXCEPT ![th] = label]

send(task) == taskQueue' = Append(taskQueue, task)

(* socket.disconnect().                                                    *)
CloseSocket == connected' = FALSE /\ peer' = "none" /\ inbox' = << >>

(* The first half of disconnect(): the atomics.                            *)
StartDisconnect(th, label) ==
    /\ state' = "Disconnected"
    /\ standalone' = FALSE
    /\ recovering' = FALSE
    /\ cancellingRecovery' = FALSE
    /\ recoverAttempt' = 0
    /\ Goto(th, label)

FinishDisconnect_m(th) ==
    /\ pc[th] \in {"closing", "reopening"}
    /\ active' = FALSE
    /\ Goto(th, IF pc[th] = "closing" THEN "idle" ELSE "open")
    /\ UNCHANGED <<flags, link, game, sinceLastPacket, taskQueue, callbacks, received>>

(* The second half: the socket is closed and the active server cleared;    *)
(* the caller then returns or goes on to connect.                          *)
FinishDisconnect(th) ==
    /\ pc[th] \in {"closing", "reopening"}
    /\ CloseSocket
    /\ active' = FALSE
    /\ Goto(th, IF pc[th] = "closing" THEN "idle" ELSE "open")
    /\ UNCHANGED <<flags, game, sinceLastPacket, taskQueue, callbacks, received>>

(* connect() past the disconnect of an established connection: refused     *)
(* unless Disconnected, and without a token unless the server is a         *)
(* standalone one.                                                         *)
Connect(alone) ==
    IF state # "Disconnected"
    THEN UNCHANGED <<flags, sinceLastPacket>>
    ELSE /\ standalone' = alone
         /\ sinceLastPacket' = 0
         /\ IF alone \/ authToken'
            THEN /\ recovering' = FALSE
                 /\ recoverAttempt' = 0
                 /\ state' = "TcpConnecting"
                 /\ UNCHANGED cancellingRecovery
            ELSE UNCHANGED <<state, recovering, recoverAttempt, cancellingRecovery>>

-----------------------------------------------------------------------------
(* The main thread.  The menus request a token before they connect to a    *)
(* server of a central server, and have none for a standalone one.         *)

UsesMenu == calls < MaxCalls /\ calls' = calls + 1

UserConnect ==
    /\ pc.main = "idle" /\ UsesMenu
    /\ \/ /\ state = "Established"
          /\ StartDisconnect("main", "reopening")
       \/ /\ state # "Established"
          /\ Goto("main", "open")
          /\ UNCHANGED flags
    /\ UNCHANGED <<link, settings, active, sinceLastPacket, taskQueue, callbacks, received>>

UserOpen ==
    /\ pc.main = "open"
    /\ \E alone \in BOOLEAN :
          /\ authToken' = ~alone
          /\ Connect(alone)
    /\ Goto("main", "idle")
    /\ UNCHANGED <<link, suspended, playing, calls, active, taskQueue, callbacks, received>>

(* The Leave buttons, a refreshed server list without the active server,   *)
(* and a switch of the central server.                                     *)
UserDisconnect ==
    /\ pc.main = "idle" /\ UsesMenu
    /\ StartDisconnect("main", "closing")
    /\ UNCHANGED <<link, settings, active, sinceLastPacket, taskQueue, callbacks, received>>

cancelReconnect ==
    /\ pc.main = "idle" /\ UsesMenu
    /\ cancellingRecovery' = TRUE
    /\ UNCHANGED <<state, recovering, recoverAttempt, standalone, link, settings, active,
                   sinceLastPacket, taskQueue, callbacks, received, pc>>

suspend ==
    /\ pc.main = "idle" /\ UsesMenu
    /\ suspended' = ~suspended
    /\ UNCHANGED <<flags, link, authToken, playing, active, sinceLastPacket,
                   taskQueue, callbacks, received, pc>>

(* The player leaves a level, or enters one where others are with a        *)
(* connection (globedReady): from then on selSendPlayerData sends a packet *)
(* every 1/30 second whenever the client is established.                   *)
PlayLevel ==
    /\ pc.main = "idle" /\ UsesMenu
    /\ playing \/ state = "Established"
    /\ playing' = ~playing
    /\ UNCHANGED <<flags, link, suspended, authToken, active, sinceLastPacket,
                   taskQueue, callbacks, received, pc>>

(* selSendPlayerData while established, or updateServerPing, which is      *)
(* called four times a second: the last ping has been handled by then.     *)
PushTask ==
    /\ pc.main = "idle"
    /\ Len(taskQueue) < MaxTasks
    /\ \/ playing /\ state = "Established" /\ send("PlayerData")
       \/ pc.out # "ping" /\ send("PingActive")
    /\ UNCHANGED <<flags, link, game, active, sinceLastPacket, callbacks, received, pc>>

(* A queued callback: onCryptoHandshakeResponse answers with the login,    *)
(* the ServerBannedPacket listener disconnects.                            *)
RunCallback ==
    /\ pc.main = "idle"
    /\ callbacks # << >>
    /\ callbacks' = Tail(callbacks)
    /\ \/ /\ Head(callbacks) = "HandshakeResponse"
          /\ send("Login")
          /\ UNCHANGED <<flags, pc>>
       \/ /\ Head(callbacks) = "ServerBanned"
          /\ StartDisconnect("main", "closing")
          /\ UNCHANGED taskQueue
    /\ UNCHANGED <<link, game, active, sinceLastPacket, received>>

-----------------------------------------------------------------------------
(* The in thread (threadRecvFunc).                                         *)

(* socket.recvPacket: the next packet, or the end of the stream, on which  *)
(* TcpSocket::receive closes the socket.                                   *)
Receive ==
    /\ pc.in = "idle" /\ ~suspended /\ state # "TcpConnecting"
    /\ connected
    /\ \/ /\ inbox # << >>
          /\ received' = Head(inbox)
          /\ inbox' = Tail(inbox)
          /\ sinceLastPacket' = 0
          /\ Goto("in", "handle")
          /\ UNCHANGED <<connected, peer>>
       \/ /\ inbox = << >> /\ peer = "closed"
          /\ CloseSocket
          /\ UNCHANGED <<received, sinceLastPacket, pc>>
    /\ UNCHANGED <<flags, game, active, taskQueue, callbacks>>

(* callListener for the packets whose listeners do not touch the state on  *)
(* this thread.                                                            *)
QueueCallback ==
    /\ pc.in = "handle"
    /\ received \in {"HandshakeResponse", "ServerBanned", "Other"}
    /\ callbacks' = IF received = "Other" THEN callbacks ELSE Append(callbacks, received)
    /\ received' = NoPacket
    /\ Goto("in", "idle")
    /\ UNCHANGED <<flags, link, game, active, sinceLastPacket, taskQueue>>

(* The listeners that disconnect: ServerDisconnect, LoginFailed (which     *)
(* also clears the token), ProtocolMismatch and LoginRecoveryFailed, which *)
(* connects again afterwards.                                              *)
Refused ==
    /\ pc.in = "handle"
    /\ received \in {"ServerDisconnect", "LoginFailed", "ProtocolMismatch",
                     "LoginRecoveryFailed"}
    /\ authToken' = (authToken /\ received # "LoginFailed")
    /\ StartDisconnect("in", IF received = "LoginRecoveryFailed" THEN "reopening"
                                                                 ELSE "closing")
    /\ received' = NoPacket
    /\ UNCHANGED <<link, suspended, playing, calls, active, sinceLastPacket, taskQueue, callbacks>>

RecoveryFailedOpen ==
    /\ pc.in = "open"
    /\ UNCHANGED authToken
    /\ Connect(standalone)
    /\ Goto("in", "idle")
    /\ UNCHANGED <<link, suspended, playing, calls, active, taskQueue, callbacks, received>>

(* onLoggedIn: the state is stored first, the rest follows.                *)
LoggedIn ==
    /\ pc.in = "handle" /\ received = "LoggedIn"
    /\ state' = "Established"
    /\ received' = NoPacket
    /\ Goto("in", "loggedIn")
    /\ UNCHANGED <<recovering, recoverAttempt, cancellingRecovery, standalone, link,
                   game, active, sinceLastPacket, taskQueue, callbacks>>

(* recoverAttempt is reset if `recovering || wasFromRecovery`; the second  *)
(* flag, which nothing else reads, is left open.                           *)
LoggedInRest ==
    /\ pc.in = "loggedIn"
    /\ recovering' = FALSE
    /\ recoverAttempt' \in (IF recovering THEN {0} ELSE {0, recoverAttempt})
    /\ active' = TRUE
    /\ send("Claim")
    /\ Goto("in", "idle")
    /\ UNCHANGED <<state, cancellingRecovery, standalone, link, game, sinceLastPacket,
                   callbacks, received>>

-----------------------------------------------------------------------------
(* The out thread (threadMainFunc): the branch a turn takes.               *)

ConnectionLost_m ==
    /\ state = "Established" /\ ~connected
    /\ Goto("out", "lost")
    /\ UNCHANGED <<flags, link, taskQueue>>

BeginConnect ==
    /\ state = "TcpConnecting"
    /\ Goto("out", IF recovering THEN "reconnect" ELSE "connect")
    /\ UNCHANGED <<flags, link, taskQueue>>

ConnectionLost ==
    /\ state = "Established" /\ ~connected
    /\ state' = "TcpConnecting"
    /\ Goto("out", "lost")
    /\ UNCHANGED <<recovering, recoverAttempt, cancellingRecovery, standalone, link,
                   taskQueue>>

(* Dropped or too slow while authenticating.                               *)
AuthenticationFails ==
    /\ state = "Authenticating"
    /\ ~connected \/ (~recovering /\ sinceLastPacket >= 1)
    /\ StartDisconnect("out", "closing")
    /\ UNCHANGED <<link, taskQueue>>

Poll_m ==
    /\ state \in {"Disconnected", "Authenticating", "Established"}
    /\ ~(state = "Established" /\ ~connected)
    /\ ~(state = "Authenticating" /\ (~connected \/ (~recovering /\ sinceLastPacket >= 1)))
    /\ Goto("out", "tasks")
    /\ IF state = "Established" /\ sinceLastPacket >= 1 /\ Len(taskQueue) < MaxTasks
       THEN send("Keepalive") ELSE UNCHANGED taskQueue
    /\ UNCHANGED <<flags, link>>

(* maybeSendKeepalive when established, then on to the tasks.              *)
Poll ==
    /\ state \in {"Disconnected", "Authenticating", "Established"}
    /\ ~(state = "Established" /\ ~connected)
    /\ ~(state = "Authenticating" /\ (~connected \/ (~recovering /\ sinceLastPacket >= 1)))
    /\ Goto("out", "tasks")
    /\ IF state = "Established" /\ sinceLastPacket = 2
       THEN CloseSocket ELSE UNCHANGED link
    /\ IF state = "Established" /\ sinceLastPacket = 1 /\ Len(taskQueue) < MaxTasks
       THEN send("Keepalive") ELSE UNCHANGED taskQueue
    /\ UNCHANGED flags

BeginTurn ==
    /\ pc.out = "idle" /\ ~suspended
    /\ BeginConnect \/ ConnectionLost \/ AuthenticationFails \/ Poll
    /\ UNCHANGED <<game, active, sinceLastPacket, callbacks, received>>

(* The rest of the "connection lost" branch.                               *)
StartRecovery ==
    /\ pc.out = "lost"
    /\ recovering' = TRUE
    /\ cancellingRecovery' = FALSE
    /\ recoverAttempt' = 0
    /\ Goto("out", "idle")
    /\ UNCHANGED <<state, standalone, link, game, active, sinceLastPacket, taskQueue,
                   callbacks, received>>

(* socket.connect for a new connection; a failure disconnects.             *)
SocketConnect ==
    /\ pc.out = "connect"
    /\ \/ /\ connected' = TRUE /\ peer' = "fresh" /\ inbox' = << >>
          /\ Goto("out", "connected")
          /\ UNCHANGED flags
       \/ /\ StartDisconnect("out", "closing")
          /\ UNCHANGED link
    /\ UNCHANGED <<game, active, sinceLastPacket, taskQueue, callbacks, received>>

SendHandshake ==
    /\ pc.out = "connected"
    /\ state' = "Authenticating"
    /\ send("Handshake")
    /\ Goto("out", "tasks")
    /\ UNCHANGED <<recovering, recoverAttempt, cancellingRecovery, standalone, link, game,
                   active, sinceLastPacket, callbacks, received>>

(* socket.connect in the recovery loop.  It fails before the TCP           *)
(* connection is made, or after: UdpSocket::connect and the marker byte    *)
(* come last, and leave tcpSocket.connected set.                           *)
SocketReconnect ==
    /\ pc.out = "reconnect"
    /\ \/ /\ connected' = TRUE /\ peer' = "recovery" /\ inbox' = << >>
          /\ \E label \in {"reconnected", "failed"} : Goto("out", label)
       \/ /\ Goto("out", "failed")
          /\ UNCHANGED link
    /\ UNCHANGED <<flags, game, active, sinceLastPacket, taskQueue, callbacks, received>>

Reconnected ==
    /\ pc.out = "reconnected"
    /\ state' = "Authenticating"
    /\ Goto("out", "sendData")
    /\ UNCHANGED <<recovering, recoverAttempt, cancellingRecovery, standalone, link, game,
                   active, sinceLastPacket, taskQueue, callbacks, received>>

(* socket.sendRecoveryData; a failed send closes the socket.               *)
SendRecoveryData ==
    /\ pc.out = "sendData"
    /\ \/ /\ connected /\ peer' = IF peer = "recovery" THEN "recovering" ELSE peer
          /\ Goto("out", "idle")
          /\ UNCHANGED <<connected, inbox>>
       \/ /\ CloseSocket
          /\ Goto("out", "failed")
    /\ UNCHANGED <<flags, game, active, sinceLastPacket, taskQueue, callbacks, received>>

RecoveryAttemptFailed_m ==
    /\ pc.out = "failed"
    /\ IF recoverAttempt + 1 > RecoverAttempts
       THEN /\ recovering' = FALSE /\ recoverAttempt' = 0 /\ state' = "Disconnected"
            /\ Goto("out", "idle")
       ELSE Goto("out", "backoff") /\ UNCHANGED <<state, recovering, recoverAttempt>>
    /\ UNCHANGED <<cancellingRecovery, standalone, link, game, active, sinceLastPacket,
                   taskQueue, callbacks, received>>

(* A failed attempt: give up (failedRecovery) after the last one.          *)
RecoveryAttemptFailed ==
    /\ pc.out = "failed"
    /\ IF recoverAttempt + 1 > RecoverAttempts
       THEN /\ recovering' = FALSE /\ recoverAttempt' = 0 /\ state' = "Disconnected"
            /\ Goto("out", "idle")
       ELSE /\ recoverAttempt' = recoverAttempt + 1
            /\ Goto("out", "backoff")
            /\ UNCHANGED <<state, recovering>>
    /\ UNCHANGED <<cancellingRecovery, standalone, link, game, active, sinceLastPacket,
                   taskQueue, callbacks, received>>

(* The sleep between two attempts ends, or the user cancels.               *)
Backoff ==
    /\ pc.out = "backoff"
    /\ Goto("out", "idle")
    /\ \/ UNCHANGED flags
       \/ /\ cancellingRecovery
          /\ recovering' = FALSE /\ recoverAttempt' = 0 /\ state' = "Disconnected"
          /\ UNCHANGED <<cancellingRecovery, standalone>>
    /\ UNCHANGED <<link, game, active, sinceLastPacket, taskQueue, callbacks, received>>

(* handleSendPacketTask: what the server makes of the packet.              *)
Delivered(task) ==
    IF task = "Handshake" /\ peer = "fresh" THEN "handshake"
    ELSE IF task = "Login" /\ peer = "keyed" THEN "login"
    ELSE peer

(* The handshake and the login go over TCP, where a failed send closes the *)
(* socket; the other packets here go over UDP.                             *)
RunTask ==
    /\ pc.out = "tasks" /\ taskQueue # << >>
    /\ taskQueue' = Tail(taskQueue)
    /\ \/ /\ Head(taskQueue) = "PingActive"
          /\ Goto("out", IF state = "Established" THEN "ping" ELSE "tasks")
          /\ UNCHANGED link
       \/ /\ Head(taskQueue) # "PingActive"
          /\ peer' = IF connected THEN Delivered(Head(taskQueue)) ELSE peer
          /\ UNCHANGED <<connected, inbox, pc>>
       \/ /\ Head(taskQueue) \in {"Handshake", "Login"} /\ connected
          /\ CloseSocket
          /\ UNCHANGED pc
    /\ UNCHANGED <<flags, game, active, sinceLastPacket, callbacks, received>>

(* handlePingActive past its check: getActivePing requires an active       *)
(* server and throws without one, which abandons the turn.  A keepalive is *)
(* sent if the last one is old or the ping unknown.                        *)
PingActive ==
    /\ pc.out = "ping"
    /\ IF active
       THEN /\ Goto("out", "tasks")
            /\ UNCHANGED taskQueue \/ (Len(taskQueue) < MaxTasks /\ send("Keepalive"))
       ELSE Goto("out", "idle") /\ UNCHANGED taskQueue
    /\ UNCHANGED <<flags, link, game, active, sinceLastPacket, callbacks, received>>

(* popTimeout has waited 50 ms for a task in vain.  A player in a level    *)
(* with others sends one every 1/30 second as long as it is established.   *)
TasksDone ==
    /\ pc.out = "tasks" /\ taskQueue = << >>
    /\ ~(playing /\ state = "Established")
    /\ Goto("out", "idle")
    /\ UNCHANGED <<flags, link, game, active, sinceLastPacket, taskQueue, callbacks,
                   received>>

-----------------------------------------------------------------------------
(* The server, external to the client.                                     *)

Answers(p) == inbox' = Append(inbox, p)

ServerReplies ==
    \/ /\ peer = "handshake"
       /\ \/ Answers("HandshakeResponse") /\ peer' = "keyed"
          \/ Answers("ProtocolMismatch") /\ peer' = "closed"
    \/ /\ peer = "login"
       /\ \/ Answers("LoggedIn") /\ peer' = "session"
          \/ Answers("LoginFailed") /\ peer' = "closed"
          \/ Answers("ServerBanned") /\ peer' = "closed"
    \/ /\ peer = "recovering"
       /\ \/ Answers("LoggedIn") /\ peer' = "session"
          \/ Answers("LoginRecoveryFailed") /\ peer' = "closed"
          \/ UNCHANGED inbox /\ peer' = "closed"

ServerAnswers ==
    /\ Len(taskQueue) + Len(callbacks) <= MaxTasks
    /\ ServerReplies
    /\ UNCHANGED <<flags, connected, game, active, sinceLastPacket, taskQueue, callbacks,
                   received, pc>>

(* Level data and the like, a kick or a ban.                               *)
ServerSends ==
    /\ peer = "session" /\ inbox = << >>
    /\ Len(taskQueue) + Len(callbacks) <= MaxTasks
    /\ \/ Answers("Other") /\ UNCHANGED peer
       \/ Answers("ServerDisconnect") /\ peer' = "closed"
       \/ Answers("ServerBanned") /\ peer' = "closed"
    /\ UNCHANGED <<flags, connected, game, active, sinceLastPacket, taskQueue, callbacks,
                   received, pc>>

ServerCloses ==
    /\ peer \notin {"none", "closed"}
    /\ peer' = "closed"
    /\ UNCHANGED <<flags, connected, inbox, game, active, sinceLastPacket, taskQueue,
                   callbacks, received, pc>>

TimePasses ==
    /\ state # "Disconnected" /\ sinceLastPacket < 2
    /\ sinceLastPacket' = sinceLastPacket + 1
    /\ UNCHANGED <<flags, link, game, active, taskQueue, callbacks, received, pc>>

-----------------------------------------------------------------------------
MainCalls == UserOpen \/ RunCallback \/ FinishDisconnect("main")

User ==
    UserConnect \/ UserDisconnect \/ cancelReconnect \/ suspend \/ PlayLevel \/ PushTask

InStep == \/ Receive \/ QueueCallback \/ Refused \/ RecoveryFailedOpen \/ LoggedIn
          \/ LoggedInRest \/ FinishDisconnect("in")

OutStep == \/ BeginTurn \/ StartRecovery \/ SocketConnect \/ SendHandshake
           \/ SocketReconnect \/ Reconnected \/ SendRecoveryData
           \/ RecoveryAttemptFailed \/ Backoff \/ RunTask \/ PingActive \/ TasksDone
           \/ FinishDisconnect("out")

Server == ServerAnswers \/ ServerSends \/ ServerCloses

Next == MainCalls \/ User \/ InStep \/ OutStep \/ Server \/ TimePasses

Spec == Init /\ [][Next]_vars

(* The threads keep running, queued callbacks are run and time passes.     *)
(* Pings are pushed four times a second, so that they alone do not keep    *)
(* popTimeout from waiting 50 ms in vain.                                  *)
FairSpec ==
    /\ Spec
    /\ WF_vars(MainCalls) /\ WF_vars(InStep) /\ WF_vars(OutStep) /\ WF_vars(TimePasses)
    /\ SF_vars(TasksDone)

(* And the server answers a handshake, a login or a recovery, or closes    *)
(* the connection: it keeps no client waiting that has not logged in, but  *)
(* may fall silent once it has a session.                                  *)
AnsweringSpec ==
    FairSpec /\ WF_vars(ServerAnswers \/ (peer # "session" /\ ServerCloses))

-----------------------------------------------------------------------------
(* Nothing is under way on the client.                                     *)
AtRest ==
    /\ pc.main = "idle" /\ pc.in = "idle" /\ pc.out \in {"idle", "tasks"}
    /\ taskQueue = << >> /\ callbacks = << >> /\ inbox = << >>

(* At rest on an open connection, client and server agree: the server has  *)
(* a session only if the client is Established, whatever the player, the   *)
(* two network threads and late packets did to each other, and a client    *)
(* that is Authenticating has got its handshake out.                       *)
AgreeAtRest ==
    (AtRest /\ connected) =>
        /\ peer = "session" => state = "Established"
        /\ state = "Authenticating" => peer # "fresh"

(* A connection attempt or a recovery ends, Established or Disconnected:   *)
(* the handshake times out and the recovery loop gives up, provided that   *)
(* the application stays in the foreground.                                *)
ConnectionSettles ==
    <>[]~suspended => []<>(state \in {"Disconnected", "Established"})

ConnectionIsLost == state = "Established" /\ ~connected

(* The out thread notices that the TCP connection of an established client *)
(* is gone, if the player does not stay in a level with others.            *)
LossNoticedOutsideLevels ==
    <>[](~suspended /\ ~playing) => (ConnectionIsLost ~> ~ConnectionIsLost)

(* maybeSendKeepalive: a client does not stay Established without hearing  *)
(* from the server, again outside levels.                                  *)
SilenceNoticed ==
    <>[](~suspended /\ ~playing) => []<>(state # "Established" \/ received # NoPacket)

(* "Detect if the tcp socket has unexpectedly disconnected and start       *)
(* recovering the connection" (manager.cpp:884), wherever the player is.   *)
(* The task loop of threadMainFunc ends only when popTimeout finds no task *)
(* for 50 ms, and a player in a level sends one every 33 ms.               *)
LossNoticed == <>[]~suspended => (ConnectionIsLost ~> ~ConnectionIsLost)
=============================================================================
