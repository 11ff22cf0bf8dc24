------------------------ MODULE NetworkManagerProofs ------------------------
(***************************************************************************)
(* Proofs about NetworkManager, for any number of queued tasks and calls   *)
(* of the player.                                                          *)
(*                                                                         *)
(* The argument: the state is stored before the socket is closed and after *)
(* it is opened, so at any time it may say something else than the server. *)
(* What makes up for it is always under way: a thread that will close the  *)
(* socket (Closing), the out thread on its way from socket.connect to its  *)
(* store, a packet that says LoggedIn, or the handshake in taskQueue.      *)
(***************************************************************************)
EXTENDS NetworkManager, TLAPS

Threads == {"main", "in", "out"}

(* A thread is between the two halves of disconnect().                     *)
Closing == \E th \in Threads : pc[th] \in {"closing", "reopening"}

(* q holds x.                                                              *)
Holds(q, x) == \E i \in 1 .. Len(q) : q[i] = x

ConnectionTypes ==
    /\ pc \in [Threads -> {"idle", "closing", "reopening", "open", "handle", "loggedIn",
                           "connect", "connected", "lost", "reconnect", "reconnected",
                           "sendData", "failed", "backoff", "tasks", "ping"}]
    /\ inbox \in Seq(Packet) /\ taskQueue \in Seq(Task)
    /\ pc["in"] = "handle" \/ received = NoPacket

(* The server knows more of this connection than that it was made.         *)
Engaged ==
    /\ connected /\ peer \notin {"none", "closed", "recovery"}
    /\ peer = "fresh" => pc["out"] # "connected"

Attached == state \in {"Authenticating", "Established"}

(* A server that is dealing with the client has a client that is dealing   *)
(* with it, or is about to hang up.                                        *)
EngagedIsAttached ==
    /\ Engaged => Attached \/ Closing
    /\ pc["out"] = "sendData" /\ connected => Attached \/ Closing

(* What the out thread has just connected to, or failed to.                *)
NewConnection ==
    /\ pc["out"] = "connected" /\ connected => peer \in {"fresh", "closed"}
    /\ pc["out"] \in {"reconnected", "sendData"} /\ connected => peer \in {"recovery", "closed"}
    /\ pc["out"] \in {"reconnect", "failed", "backoff"} /\ connected =>
           peer \in {"none", "closed", "recovery"} \/ Closing

SessionIsEstablished ==
    connected /\ peer = "session" =>
        \/ state = "Established" \/ Closing
        \/ Holds(inbox, "LoggedIn") \/ received = "LoggedIn"

HandshakeIsQueued ==
    connected /\ peer = "fresh" => pc["out"] = "connected" \/ Holds(taskQueue, "Handshake")

ConnectionInv ==
    /\ ConnectionTypes /\ EngagedIsAttached /\ NewConnection
    /\ SessionIsEstablished /\ HandshakeIsQueued

-----------------------------------------------------------------------------
(* Queues *)

(* What is in a queue stays there when something is appended to it.        *)
LEMMA HoldsAppend ==
    ASSUME NEW S, NEW q \in Seq(S), NEW e \in S
    PROVE  /\ Append(q, e) \in Seq(S) /\ Holds(Append(q, e), e)
           /\ \A x : Holds(q, x) => Holds(Append(q, e), x)
<1>1. Append(q, e) \in Seq(S) /\ Len(Append(q, e)) = Len(q) + 1 /\ Len(q) \in Nat
  OBVIOUS
<1>2. Append(q, e)[Len(q) + 1] = e /\ \A i \in 1 .. Len(q) : Append(q, e)[i] = q[i]
  OBVIOUS
<1>3. QED
  BY <1>1, <1>2 DEF Holds

(* Taking the first one out leaves the others there.                       *)
LEMMA HoldsTail ==
    ASSUME NEW S, NEW q \in Seq(S), q # << >>
    PROVE  /\ Tail(q) \in Seq(S) /\ Head(q) \in S
           /\ \A x : Holds(q, x) => Head(q) = x \/ Holds(Tail(q), x)
<1>1. /\ Tail(q) \in Seq(S) /\ Head(q) \in S /\ Len(q) \in Nat /\ Len(q) # 0
      /\ Len(Tail(q)) = Len(q) - 1 /\ Head(q) = q[1]
  OBVIOUS
<1>2. \A i \in 1 .. Len(q) - 1 : Tail(q)[i] = q[i + 1]
  OBVIOUS
<1>3. ASSUME NEW x, Holds(q, x), Head(q) # x PROVE Holds(Tail(q), x)
  <2>1. PICK i \in 1 .. Len(q) : q[i] = x
    BY <1>3 DEF Holds
  <2>2. i # 1 /\ i - 1 \in 1 .. Len(Tail(q))
    BY <1>1, <1>3, <2>1
  <2>3. Tail(q)[i - 1] = x
    BY <1>1, <1>2, <2>1, <2>2
  <2>4. QED
    BY <2>2, <2>3 DEF Holds
<1>4. QED
  BY <1>1, <1>3

(* A task that is sent joins the others.                                   *)
LEMMA SendKeeps ==
    ASSUME taskQueue \in Seq(Task), NEW task \in Task, send(task)
    PROVE  /\ taskQueue' \in Seq(Task) /\ Holds(taskQueue', task)
           /\ \A x : Holds(taskQueue, x) => Holds(taskQueue', x)
BY HoldsAppend DEF send

-----------------------------------------------------------------------------
(* The steps *)

(* The main thread.                                                        *)
LEMMA MainSteps ==
    ASSUME ConnectionInv,
           \/ UserOpen \/ RunCallback \/ FinishDisconnect("main") \/ UserConnect
           \/ UserDisconnect \/ cancelReconnect \/ suspend \/ PlayLevel \/ PushTask
    PROVE  ConnectionInv'
<1> USE DEF ConnectionInv, ConnectionTypes, EngagedIsAttached, Engaged, Attached, Closing,
            NewConnection, SessionIsEstablished, HandshakeIsQueued, Threads, vars, flags, link,
            game, settings
<1>1. CASE UserOpen
  BY <1>1 DEF UserOpen, Connect, Goto
<1>2. CASE RunCallback
  <2>1. CASE pc' = pc /\ send("Login") /\ UNCHANGED <<flags, link, received>>
    <3>1. taskQueue' \in Seq(Task) /\ \A x : Holds(taskQueue, x) => Holds(taskQueue', x)
      BY <2>1, SendKeeps DEF Task
    <3>2. QED
      BY <2>1, <3>1
  <2>2. CASE StartDisconnect("main", "closing") /\ UNCHANGED <<taskQueue, link, received>>
    BY <2>2 DEF StartDisconnect, Goto
  <2>3. QED
    BY <1>2, <2>1, <2>2 DEF RunCallback
<1>3. CASE FinishDisconnect("main")
  BY <1>3 DEF FinishDisconnect, CloseSocket, Goto
<1>4. CASE UserConnect
  BY <1>4 DEF UserConnect, StartDisconnect, Goto
<1>5. CASE UserDisconnect
  BY <1>5 DEF UserDisconnect, StartDisconnect, Goto
<1>6. CASE cancelReconnect \/ suspend \/ PlayLevel
  BY <1>6 DEF cancelReconnect, suspend, PlayLevel
<1>7. CASE PushTask
  <2>1. taskQueue' \in Seq(Task) /\ \A x : Holds(taskQueue, x) => Holds(taskQueue', x)
    BY <1>7, SendKeeps DEF PushTask, Task
  <2>2. QED
    BY <1>7, <2>1 DEF PushTask
<1>8. QED
  BY <1>1, <1>2, <1>3, <1>4, <1>5, <1>6, <1>7

(* The in thread.                                                          *)
LEMMA InSteps ==
    ASSUME ConnectionInv, InStep
    PROVE  ConnectionInv'
<1> USE DEF ConnectionInv, ConnectionTypes, EngagedIsAttached, Engaged, Attached, Closing,
            NewConnection, SessionIsEstablished, HandshakeIsQueued, Threads, vars, flags, link,
            game, settings
<1>1. CASE Receive
  <2>1. CASE /\ inbox # << >> /\ received' = Head(inbox) /\ inbox' = Tail(inbox)
             /\ Goto("in", "handle") /\ pc["in"] = "idle"
             /\ UNCHANGED <<connected, peer, flags, taskQueue>>
    <3>1. /\ inbox' \in Seq(Packet)
          /\ Holds(inbox, "LoggedIn") => received' = "LoggedIn" \/ Holds(inbox', "LoggedIn")
      BY <2>1, HoldsTail
    <3>2. QED
      BY <2>1, <3>1 DEF Goto, NoPacket
  <2>2. CASE CloseSocket /\ UNCHANGED <<received, pc, flags, taskQueue>>
    BY <2>2 DEF CloseSocket
  <2>3. QED
    BY <1>1, <2>1, <2>2, Zenon DEF Receive
<1>2. CASE QueueCallback
  BY <1>2 DEF QueueCallback, Goto
<1>3. CASE Refused
  BY <1>3 DEF Refused, StartDisconnect, Goto
<1>4. CASE RecoveryFailedOpen
  BY <1>4 DEF RecoveryFailedOpen, Connect, Goto
<1>5. CASE LoggedIn
  BY <1>5 DEF LoggedIn, Goto
<1>6. CASE LoggedInRest
  <2>1. taskQueue' \in Seq(Task) /\ \A x : Holds(taskQueue, x) => Holds(taskQueue', x)
    BY <1>6, SendKeeps DEF LoggedInRest, Task
  <2>2. QED
    BY <1>6, <2>1 DEF LoggedInRest, Goto
<1>7. CASE FinishDisconnect("in")
  BY <1>7 DEF FinishDisconnect, CloseSocket, Goto
<1>8. QED
  BY <1>1, <1>2, <1>3, <1>4, <1>5, <1>6, <1>7 DEF InStep

(* The out thread.                                                         *)
LEMMA OutSteps ==
    ASSUME ConnectionInv, OutStep
    PROVE  ConnectionInv'
<1> USE DEF ConnectionInv, ConnectionTypes, EngagedIsAttached, Engaged, Attached, Closing,
            NewConnection, SessionIsEstablished, HandshakeIsQueued, Threads, vars, flags, link,
            game, settings
<1>1. CASE BeginTurn
  <2>1. pc["out"] = "idle" /\ UNCHANGED received
    BY <1>1 DEF BeginTurn
  <2>2. CASE BeginConnect
    BY <2>1, <2>2 DEF BeginConnect, Goto
  <2>3. CASE ConnectionLost
    BY <2>1, <2>3 DEF ConnectionLost, Goto
  <2>4. CASE AuthenticationFails
    BY <2>1, <2>4 DEF AuthenticationFails, StartDisconnect, Goto
  <2>5. CASE Poll
    <3>1. taskQueue' \in Seq(Task) /\ \A x : Holds(taskQueue, x) => Holds(taskQueue', x)
      BY <2>5, SendKeeps DEF Poll, Task
    <3>2. UNCHANGED flags /\ (CloseSocket \/ UNCHANGED link) /\ Goto("out", "tasks")
      BY <2>5 DEF Poll
    <3>3. CASE CloseSocket
      BY <2>1, <3>1, <3>2, <3>3 DEF CloseSocket, Goto
    <3>4. CASE UNCHANGED link
      BY <2>1, <3>1, <3>2, <3>4 DEF Goto
    <3>5. QED
      BY <3>2, <3>3, <3>4
  <2>6. QED
    BY <1>1, <2>2, <2>3, <2>4, <2>5 DEF BeginTurn
<1>2. CASE StartRecovery
  BY <1>2 DEF StartRecovery, Goto
<1>3. CASE SocketConnect
  <2>1. pc["out"] = "connect" /\ UNCHANGED <<taskQueue, received>>
    BY <1>3 DEF SocketConnect
  <2>2. CASE /\ connected' = TRUE /\ peer' = "fresh" /\ inbox' = << >>
             /\ Goto("out", "connected") /\ UNCHANGED flags
    BY <2>1, <2>2 DEF Goto
  <2>3. CASE StartDisconnect("out", "closing") /\ UNCHANGED link
    BY <2>1, <2>3 DEF StartDisconnect, Goto
  <2>4. QED
    BY <1>3, <2>2, <2>3, Zenon DEF SocketConnect
<1>4. CASE SendHandshake
  <2>1. /\ taskQueue' \in Seq(Task) /\ Holds(taskQueue', "Handshake")
    BY <1>4, SendKeeps DEF SendHandshake, Task
  <2>2. QED
    BY <1>4, <2>1 DEF SendHandshake, Goto
<1>5. CASE SocketReconnect
  <2>1. pc["out"] = "reconnect" /\ UNCHANGED <<flags, taskQueue, received>>
    BY <1>5 DEF SocketReconnect
  <2>2. ASSUME NEW label \in {"reconnected", "failed"}, Goto("out", label),
               connected' = TRUE, peer' = "recovery", inbox' = << >>
        PROVE  ConnectionInv'
    BY <2>1, <2>2 DEF Goto
  <2>3. CASE Goto("out", "failed") /\ UNCHANGED link
    BY <2>1, <2>3 DEF Goto
  <2>4. QED
    BY <1>5, <2>2, <2>3, Zenon DEF SocketReconnect
<1>6. CASE Reconnected
  BY <1>6 DEF Reconnected, Goto
<1>7. CASE SendRecoveryData
  <2>1. pc["out"] = "sendData" /\ UNCHANGED <<flags, taskQueue, received>>
    BY <1>7 DEF SendRecoveryData
  <2>2. CASE /\ connected /\ peer' = (IF peer = "recovery" THEN "recovering" ELSE peer)
             /\ Goto("out", "idle") /\ UNCHANGED <<connected, inbox>>
    BY <2>1, <2>2 DEF Goto
  <2>3. CASE CloseSocket /\ Goto("out", "failed")
    BY <2>1, <2>3 DEF CloseSocket, Goto
  <2>4. QED
    BY <1>7, <2>2, <2>3 DEF SendRecoveryData
<1>8. CASE RecoveryAttemptFailed
  BY <1>8 DEF RecoveryAttemptFailed, Goto
<1>9. CASE Backoff
  BY <1>9 DEF Backoff, Goto
<1>10. CASE RunTask
  <2>1. /\ taskQueue' \in Seq(Task)
        /\ Holds(taskQueue, "Handshake") =>
               Head(taskQueue) = "Handshake" \/ Holds(taskQueue', "Handshake")
    BY <1>10, HoldsTail DEF RunTask
  <2>2. pc["out"] = "tasks" /\ UNCHANGED <<flags, received>>
    BY <1>10 DEF RunTask
  <2>3. CASE /\ Head(taskQueue) = "PingActive" /\ UNCHANGED link
             /\ Goto("out", IF state = "Established" THEN "ping" ELSE "tasks")
    BY <2>1, <2>2, <2>3 DEF Goto
  <2>4. CASE /\ Head(taskQueue) # "PingActive" /\ UNCHANGED <<connected, inbox, pc>>
             /\ peer' = IF connected THEN Delivered(Head(taskQueue)) ELSE peer
    BY <2>1, <2>2, <2>4 DEF Delivered
  <2>5. CASE CloseSocket /\ UNCHANGED pc
    BY <2>1, <2>2, <2>5 DEF CloseSocket
  <2>6. QED
    BY <1>10, <2>3, <2>4, <2>5 DEF RunTask
<1>11. CASE PingActive
  <2>1. taskQueue' \in Seq(Task) /\ \A x : Holds(taskQueue, x) => Holds(taskQueue', x)
    BY <1>11, SendKeeps DEF PingActive, Task
  <2>2. QED
    BY <1>11, <2>1 DEF PingActive, Goto
<1>12. CASE TasksDone
  BY <1>12 DEF TasksDone, Goto
<1>13. CASE FinishDisconnect("out")
  BY <1>13 DEF FinishDisconnect, CloseSocket, Goto
<1>14. QED
  BY <1>1, <1>2, <1>3, <1>4, <1>5, <1>6, <1>7, <1>8, <1>9, <1>10, <1>11, <1>12, <1>13
     DEF OutStep

(* The server.                                                             *)
LEMMA ServerSteps ==
    ASSUME ConnectionInv, Server
    PROVE  ConnectionInv'
<1> USE DEF ConnectionInv, ConnectionTypes, EngagedIsAttached, Engaged, Attached, Closing,
            NewConnection, SessionIsEstablished, HandshakeIsQueued, Threads, vars, flags, link,
            game, settings
<1>1. ASSUME NEW p \in Packet, Answers(p)
      PROVE  /\ inbox' \in Seq(Packet) /\ Holds(inbox', p)
             /\ \A x : Holds(inbox, x) => Holds(inbox', x)
  BY <1>1, HoldsAppend DEF Answers
<1>2. ASSUME UNCHANGED <<flags, connected, taskQueue, received, pc>>
      PROVE  /\ ServerReplies => ConnectionInv'
             /\ peer \notin {"none", "closed"} /\ peer' = "closed" /\ UNCHANGED inbox =>
                    ConnectionInv'
             /\ \A p \in {"Other", "ServerDisconnect", "ServerBanned"} :
                    peer = "session" /\ Answers(p) /\ peer' \in {peer, "closed"} =>
                        ConnectionInv'
  <2>1. CASE ServerReplies
    BY <1>1, <1>2, <2>1 DEF ServerReplies, Packet
  <2>2. CASE peer \notin {"none", "closed"} /\ peer' = "closed" /\ UNCHANGED inbox
    BY <1>2, <2>2
  <2>3. ASSUME NEW p \in {"Other", "ServerDisconnect", "ServerBanned"},
               peer = "session", Answers(p), peer' \in {peer, "closed"}
        PROVE  ConnectionInv'
    <3>1. inbox' \in Seq(Packet) /\ \A x : Holds(inbox, x) => Holds(inbox', x)
      BY <1>1, <2>3 DEF Packet
    <3>2. QED
      BY <1>2, <2>3, <3>1
  <2>4. QED
    BY <2>1, <2>2, <2>3
<1>3. QED
  BY <1>2 DEF Server, ServerAnswers, ServerSends, ServerCloses

(* At rest on an open connection the client and the server agree, whatever *)
(* the player, the two network threads and late packets did to each other. *)
THEOREM AgreementAtRest == Spec => []AgreeAtRest
<1>1. Init => ConnectionInv
  BY DEF Init, ConnectionInv, ConnectionTypes, EngagedIsAttached, Engaged, NewConnection,
         SessionIsEstablished, HandshakeIsQueued, Threads
<1>2. ConnectionInv /\ [Next]_vars => ConnectionInv'
  <2> SUFFICES ASSUME ConnectionInv, [Next]_vars PROVE ConnectionInv'
    OBVIOUS
  <2>1. CASE TimePasses \/ UNCHANGED vars
    BY <2>1 DEF TimePasses, ConnectionInv, ConnectionTypes, EngagedIsAttached, Engaged,
                Attached, Closing, NewConnection, SessionIsEstablished, HandshakeIsQueued, vars,
                flags, link
  <2>2. QED
    BY <2>1, MainSteps, InSteps, OutSteps, ServerSteps DEF Next, MainCalls, User
<1>3. ConnectionInv => AgreeAtRest
  <2> SUFFICES ASSUME ConnectionInv, AtRest, connected
               PROVE  /\ peer = "session" => state = "Established"
                      /\ state = "Authenticating" => peer # "fresh"
    BY DEF AgreeAtRest
  <2>1. \A x : ~Holds(taskQueue, x) /\ ~Holds(inbox, x)
    BY DEF AtRest, Holds
  <2>2. ~Closing /\ pc["out"] # "connected" /\ received = NoPacket
    BY DEF AtRest, Closing, Threads, ConnectionInv, ConnectionTypes
  <2>3. QED
    BY <2>1, <2>2 DEF ConnectionInv, SessionIsEstablished, HandshakeIsQueued, NoPacket
<1>4. QED
  BY <1>1, <1>2, <1>3, PTL DEF Spec

=============================================================================
