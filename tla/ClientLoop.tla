----------------------------- MODULE ClientLoop -----------------------------
(***************************************************************************)
(* The life of a client session on the game server: GameServer::client_loop *)
(* (server.rs), UnauthorizedThread (client/unauthorized.rs) and the main   *)
(* loop of ClientThread (client/thread.rs).                                *)
(*                                                                         *)
(* A session c is one initial TCP connection with the thread object it     *)
(* creates.  The object is an UnauthorizedThread at first, becomes a       *)
(* ClientThread once a login succeeded and a UDP packet has claimed it,    *)
(* goes back when the TCP connection breaks, and can then be recovered by  *)
(* another TCP connection; c also stands for its secret key.  task[c] is   *)
(* where the tokio task running client_loop for c is, connection_state[c]  *)
(* the atomic of that name.                                                *)
(*                                                                         *)
(* Other tasks reach the object through the two lists of the server and    *)
(* hold an Arc to it for a while: the UDP task that delivers a claim, the  *)
(* task of a recovery connection, a login that kicks a session of the same *)
(* account, and any task that sends a message to a ClientThread.  Every    *)
(* point at which such a reference is held is a state of the model.        *)
(*                                                                         *)
(* Timeouts are steps that may happen at any moment; in_rooms stands for   *)
(* the room managers, which the module RoomManager models.                 *)
(*                                                                         *)
(* A definition whose name ends in _m is a faulty variant of the one after *)
(* it, kept to see that the properties notice the fault.                   *)
(***************************************************************************)
EXTENDS Integers, FiniteSets

CONSTANTS Session, Account, NoAccount, NoSession,
          UdpPeer, NoPeer,
          PeersOf,      \* the UDP addresses a session's client sends from
          Recovery      \* tasks of recovery connections

ASSUME ClientLoopAssumption ==
    /\ NoAccount \notin Account /\ NoSession \notin Session
    /\ NoPeer \notin UdpPeer
    /\ PeersOf \in [Session -> SUBSET UdpPeer]
    /\ IsFiniteSet(Session)

VARIABLES task,             \* client_loop of the session
          connection_state, \* AtomicClientThreadState
          account_id,       \* 0 until the login has succeeded
          wants,            \* the account in the LoginPacket being handled
          target,           \* the session a login is kicking out
          udp_peer,         \* the socket's UDP peer
          claim_udp_peer,   \* UDP peer a ClaimThreadPacket left behind
          recover_stream,   \* whether a recovered TCP stream is waiting
          terminate_notify, \* whether terminate_notify holds a permit
          destruction_notify, \* whether destruction_notify holds a permit
          message_queue,    \* whether a TerminationNotice is queued
          unauthorized_clients, \* the sessions in that list
          clients,          \* the clients map: UDP peer -> session
          claimer,          \* the UDP task: the thread it found, the peer
          recoverer,        \* recovery tasks: the thread found, its state read
          borrowed,         \* ClientThreads some other task has an Arc of
          player_count,     \* ServerState::player_count
          in_rooms          \* accounts present in the room managers

threadVars == <<udp_peer, claim_udp_peer, recover_stream, terminate_notify,
                message_queue>>
loginVars == <<account_id, wants, target, player_count, in_rooms>>
listVars == <<unauthorized_clients, clients>>
helperVars == <<claimer, recoverer, borrowed>>
vars == <<task, connection_state, threadVars, loginVars, listVars, helperVars,
          destruction_notify>>

ConnectionState == {"Unauthorized", "Unclaimed", "Established",
                    "Disconnected", "Terminating"}

Task == {"none", "unauthorized", "kick_clients", "push_notice", "wait_clients",
         "kick_unauthorized", "push_terminate", "wait_unauthorized", "fetch",
         "leave_list", "unwrap", "insert", "authorized", "leave_map", "drain",
         "unwrap_client", "cleanup", "notified", "gone", "panicked"}

(* The task is in UnauthorizedThread::run, or in handle_login below it.    *)
Kicking == {"push_notice", "wait_clients", "push_terminate",
            "wait_unauthorized"}
LoggingIn == Kicking \cup {"kick_clients", "kick_unauthorized", "fetch"}
Goto(c, t) == task' = [task EXCEPT ![c] = t]

SetState(c, s) == connection_state' = [connection_state EXCEPT ![c] = s]

(* A task other than its own holds an Arc to the thread of c.              *)
Shared(c) ==
    \/ c \in borrowed \/ claimer.session = c
    \/ \E r \in Recovery : recoverer[r].session = c
    \/ \E k \in Session : /\ task[k] \in {"push_notice", "push_terminate"}
                          /\ target[k] = c

------------------------------------------------------------------------------
(* UnauthorizedThread::run *)

(* An accepted connection that starts with MARKER_CONN_INITIAL.            *)
Connect(c) ==
    /\ task[c] = "none"
    /\ Goto(c, "unauthorized")
    /\ unauthorized_clients' = unauthorized_clients \cup {c}
    /\ UNCHANGED <<connection_state, threadVars, loginVars, clients,
                   helperVars, destruction_notify>>

(* A failure in state Unauthorized: a bad packet, a rejected handshake or  *)
(* login, a TCP error or the timeout.                                      *)
UnauthorizedFails(c) ==
    /\ task[c] = "unauthorized" /\ connection_state[c] = "Unauthorized"
    /\ SetState(c, "Terminating")
    /\ UNCHANGED <<task, threadVars, loginVars, listVars, helperVars,
                   destruction_notify>>

(* The timeouts of the states Disconnected and Unclaimed.                  *)
TimesOut(c) ==
    /\ task[c] = "unauthorized"
    /\ connection_state[c] \in {"Disconnected", "Unclaimed"}
    /\ SetState(c, "Terminating")
    /\ UNCHANGED <<task, threadVars, loginVars, listVars, helperVars,
                   destruction_notify>>

(* The select branch of wait_for_termianted, in any state that waits.      *)
TerminationRequested(c) ==
    /\ task[c] = "unauthorized" /\ terminate_notify[c]
    /\ connection_state[c] \in {"Unauthorized", "Disconnected", "Unclaimed"}
    /\ terminate_notify' = [terminate_notify EXCEPT ![c] = FALSE]
    /\ SetState(c, "Terminating")
    /\ UNCHANGED <<task, udp_peer, claim_udp_peer, recover_stream,
                   message_queue, loginVars, listVars, helperVars,
                   destruction_notify>>

(* A recovered session keeps its old UDP peer and is not claimed again. *)
Recovered_m(c, sent) ==
    /\ task[c] = "unauthorized" /\ connection_state[c] = "Disconnected"
    /\ recover_stream[c]
    /\ recover_stream' = [recover_stream EXCEPT ![c] = FALSE]
    /\ SetState(c, IF sent THEN "Established" ELSE "Terminating")
    /\ UNCHANGED <<task, udp_peer, claim_udp_peer, terminate_notify,
                   message_queue, loginVars, listVars, helperVars,
                   destruction_notify>>

(* wait_for_recovered returns a stream; send_login_success may fail on it. *)
Recovered(c, sent) ==
    /\ task[c] = "unauthorized" /\ connection_state[c] = "Disconnected"
    /\ recover_stream[c]
    /\ recover_stream' = [recover_stream EXCEPT ![c] = FALSE]
    /\ SetState(c, IF sent THEN "Unclaimed" ELSE "Terminating")
    /\ UNCHANGED <<task, udp_peer, claim_udp_peer, terminate_notify,
                   message_queue, loginVars, listVars, helperVars,
                   destruction_notify>>

(* wait_for_claimed takes the peer a ClaimThreadPacket left.               *)
Claimed(c) ==
    /\ task[c] = "unauthorized" /\ connection_state[c] = "Unclaimed"
    /\ claim_udp_peer[c] # NoPeer
    /\ udp_peer' = [udp_peer EXCEPT ![c] = claim_udp_peer[c]]
    /\ claim_udp_peer' = [claim_udp_peer EXCEPT ![c] = NoPeer]
    /\ SetState(c, "Established")
    /\ UNCHANGED <<task, recover_stream, terminate_notify, message_queue,
                   loginVars, listVars, helperVars, destruction_notify>>

(* run returns Upgrade or Terminate.                                       *)
UnauthorizedReturns(c) ==
    /\ task[c] = "unauthorized"
    /\ connection_state[c] \in {"Established", "Terminating"}
    /\ Goto(c, "leave_list")
    /\ UNCHANGED <<connection_state, threadVars, loginVars, listVars,
                   helperVars, destruction_notify>>

------------------------------------------------------------------------------
(* handle_login and check_already_logged_in *)

(* A login that passed the checks; the state is Terminating until it ends. *)
LoginStart(c, a) ==
    /\ task[c] = "unauthorized" /\ connection_state[c] = "Unauthorized"
    /\ SetState(c, "Terminating")
    /\ wants' = [wants EXCEPT ![c] = a]
    /\ Goto(c, "kick_clients")
    /\ UNCHANGED <<threadVars, account_id, target, player_count, in_rooms,
                   listVars, helperVars, destruction_notify>>

SessionsOf(sessions, a) == {u \in sessions : account_id[u] = a}

MappedClients == {clients[p] : p \in DOMAIN clients}

(* One look into a list for another session of the account: take it, or go *)
(* on when there is none.                                                  *)
Look(c, at, sessions, found, missing) ==
    /\ task[c] = at
    /\ \/ /\ \E u \in SessionsOf(sessions, wants[c]) :
                 target' = [target EXCEPT ![c] = u]
          /\ Goto(c, found)
       \/ /\ SessionsOf(sessions, wants[c]) = {}
          /\ target' = [target EXCEPT ![c] = NoSession]
          /\ Goto(c, missing)
    /\ UNCHANGED <<connection_state, threadVars, account_id, wants,
                   player_count, in_rooms, listVars, helperVars,
                   destruction_notify>>

LookIntoClients(c) ==
    Look(c, "kick_clients", MappedClients, "push_notice", "kick_unauthorized")

LookIntoUnauthorized(c) ==
    Look(c, "kick_unauthorized", unauthorized_clients, "push_terminate", "fetch")

PushNotice(c) ==
    /\ task[c] = "push_notice"
    /\ message_queue' = [message_queue EXCEPT ![target[c]] = TRUE]
    /\ Goto(c, "wait_clients")
    /\ UNCHANGED <<connection_state, udp_peer, claim_udp_peer, recover_stream,
                   terminate_notify, loginVars, listVars, helperVars,
                   destruction_notify>>

RequestTermination(c) ==
    /\ task[c] = "push_terminate"
    /\ terminate_notify' = [terminate_notify EXCEPT ![target[c]] = TRUE]
    /\ Goto(c, "wait_unauthorized")
    /\ UNCHANGED <<connection_state, udp_peer, claim_udp_peer, recover_stream,
                   message_queue, loginVars, listVars, helperVars,
                   destruction_notify>>

(* notified() takes the permit of destruction_notify: notify_one wakes one *)
(* waiter, and every session notifies once.  Then the list is read again.  *)
KickedOut(c) ==
    /\ task[c] \in {"wait_clients", "wait_unauthorized"}
    /\ destruction_notify[target[c]]
    /\ destruction_notify' = [destruction_notify EXCEPT ![target[c]] = FALSE]
    /\ Goto(c, IF task[c] = "wait_clients" THEN "kick_clients"
               ELSE "kick_unauthorized")
    /\ UNCHANGED <<connection_state, threadVars, loginVars, listVars,
                   helperVars>>

(* Without the timeout of the wait. *)
LoginFails_m(c) ==
    /\ task[c] \in {"fetch"}
    /\ Goto(c, "unauthorized")
    /\ UNCHANGED <<connection_state, threadVars, loginVars, listVars,
                   helperVars, destruction_notify>>

(* The wait takes longer than three seconds, or the central server refuses *)
(* the user: the login fails with the state still Terminating.             *)
LoginFails(c) ==
    /\ task[c] \in {"wait_clients", "wait_unauthorized", "fetch"}
    /\ Goto(c, "unauthorized")
    /\ UNCHANGED <<connection_state, threadVars, loginVars, listVars,
                   helperVars, destruction_notify>>

(* The user data is here: the account is stored, counted and added to the  *)
(* global room.  When LoggedInPacket cannot be sent the thread terminates. *)
LoginSucceeds(c, sent) ==
    /\ task[c] = "fetch"
    /\ account_id' = [account_id EXCEPT ![c] = wants[c]]
    /\ player_count' = player_count + 1
    /\ in_rooms' = in_rooms \cup {wants[c]}
    /\ SetState(c, IF sent THEN "Unclaimed" ELSE "Terminating")
    /\ Goto(c, "unauthorized")
    /\ UNCHANGED <<threadVars, wants, target, listVars, helperVars,
                   destruction_notify>>

------------------------------------------------------------------------------
(* client_loop: between the two kinds of thread *)

(* The thread leaves unauthorized_clients, then terminates or is upgraded. *)
LeaveList(c) ==
    /\ task[c] = "leave_list"
    /\ unauthorized_clients' = unauthorized_clients \ {c}
    /\ Goto(c, IF connection_state[c] = "Terminating" THEN "cleanup"
               ELSE "unwrap")
    /\ UNCHANGED <<connection_state, threadVars, loginVars, clients,
                   helperVars, destruction_notify>>

(* Arc::into_inner(thread).expect(..): a panic ends the task.              *)
Unwrap(c) ==
    /\ task[c] = "unwrap"
    /\ Goto(c, IF Shared(c) THEN "panicked" ELSE "insert")
    /\ UNCHANGED <<connection_state, threadVars, loginVars, listVars,
                   helperVars, destruction_notify>>

(* upgrade makes a ClientThread with an empty queue; the slots of the      *)
(* UnauthorizedThread are dropped.                                         *)
Insert(c) ==
    /\ task[c] = "insert"
    /\ clients' = [p \in DOMAIN clients \cup {udp_peer[c]} |->
                       IF p = udp_peer[c] THEN c ELSE clients[p]]
    /\ claim_udp_peer' = [claim_udp_peer EXCEPT ![c] = NoPeer]
    /\ recover_stream' = [recover_stream EXCEPT ![c] = FALSE]
    /\ terminate_notify' = [terminate_notify EXCEPT ![c] = FALSE]
    /\ Goto(c, "authorized")
    /\ UNCHANGED <<connection_state, udp_peer, message_queue, loginVars,
                   unauthorized_clients, helperVars, destruction_notify>>

(* ClientThread::run ends: a TCP error allows recovery; a DisconnectPacket, *)
(* a ban or 90 silent seconds do not.                                      *)
ClientReturns(c, state) ==
    /\ task[c] = "authorized"
    /\ SetState(c, state)
    /\ Goto(c, "leave_map")
    /\ UNCHANGED <<threadVars, loginVars, listVars, helperVars,
                   destruction_notify>>

(* handle_message of a TerminationNotice: kick, then run ends.             *)
ClientKicked(c) ==
    /\ task[c] = "authorized" /\ message_queue[c]
    /\ message_queue' = [message_queue EXCEPT ![c] = FALSE]
    /\ SetState(c, "Terminating")
    /\ Goto(c, "leave_map")
    /\ UNCHANGED <<udp_peer, claim_udp_peer, recover_stream, terminate_notify,
                   loginVars, listVars, helperVars, destruction_notify>>

(* A thread that may be recovered stays in the map. *)
LeaveMap_m(c) ==
    /\ task[c] = "leave_map"
    /\ clients' = IF connection_state[c] = "Disconnected" THEN clients
                  ELSE [p \in DOMAIN clients \ {udp_peer[c]} |-> clients[p]]
    /\ Goto(c, "drain")
    /\ UNCHANGED <<connection_state, threadVars, loginVars,
                   unauthorized_clients, helperVars, destruction_notify>>

(* clients.remove(&udp_peer), whoever is stored there.                     *)
LeaveMap(c) ==
    /\ task[c] = "leave_map"
    /\ clients' = [p \in DOMAIN clients \ {udp_peer[c]} |-> clients[p]]
    /\ Goto(c, "drain")
    /\ UNCHANGED <<connection_state, threadVars, loginVars,
                   unauthorized_clients, helperVars, destruction_notify>>

(* The reference count is not waited for. *)
Drained_m(c) ==
    /\ task[c] = "drain"
    /\ Goto(c, IF connection_state[c] = "Terminating" THEN "cleanup"
               ELSE "unwrap_client")
    /\ UNCHANGED <<connection_state, threadVars, loginVars, listVars,
                   helperVars, destruction_notify>>

(* The loop that waits until no other reference is left.                   *)
Drained(c) ==
    /\ task[c] = "drain" /\ ~Shared(c)
    /\ Goto(c, IF connection_state[c] = "Terminating" THEN "cleanup"
               ELSE "unwrap_client")
    /\ UNCHANGED <<connection_state, threadVars, loginVars, listVars,
                   helperVars, destruction_notify>>

(* Arc::into_inner again, downgrade (an empty slate; the message queue is  *)
(* dropped) and the way back into the list.                                *)
Downgrade(c) ==
    /\ task[c] = "unwrap_client"
    /\ IF ~Shared(c)
       THEN /\ message_queue' = [message_queue EXCEPT ![c] = FALSE]
            /\ unauthorized_clients' = unauthorized_clients \cup {c}
            /\ Goto(c, "unauthorized")
       ELSE /\ Goto(c, "panicked")
            /\ UNCHANGED <<message_queue, unauthorized_clients>>
    /\ UNCHANGED <<connection_state, udp_peer, claim_udp_peer, recover_stream,
                   terminate_notify, loginVars, clients, helperVars,
                   destruction_notify>>

------------------------------------------------------------------------------
(* post_disconnect_cleanup *)

(* The notification comes first; a session that never logged in ends here. *)
CleanupNotify(c) ==
    /\ task[c] = "cleanup"
    /\ destruction_notify' = [destruction_notify EXCEPT ![c] = TRUE]
    /\ Goto(c, IF account_id[c] = NoAccount THEN "gone" ELSE "notified")
    /\ UNCHANGED <<connection_state, threadVars, loginVars, listVars,
                   helperVars>>

(* dec_player_count and remove_with_any.                                   *)
Cleanup(c) ==
    /\ task[c] = "notified"
    /\ player_count' = player_count - 1
    /\ in_rooms' = in_rooms \ {account_id[c]}
    /\ Goto(c, "gone")
    /\ UNCHANGED <<connection_state, threadVars, account_id, wants, target,
                   listVars, helperVars, destruction_notify>>

------------------------------------------------------------------------------
(* The tasks that reach a thread from outside *)

(* try_udp_handle finds the thread of a ClaimThreadPacket.  The client has *)
(* the key from LoggedInPacket; UDP may deliver its packet late or twice.  *)
ClaimFind(c, p) ==
    /\ claimer.session = NoSession
    /\ c \in unauthorized_clients /\ account_id[c] # NoAccount
    /\ p \in PeersOf[c]
    /\ claimer' = [session |-> c, peer |-> p]
    /\ UNCHANGED <<task, connection_state, threadVars, loginVars, listVars,
                   recoverer, borrowed, destruction_notify>>

(* claim stores the peer, and the UDP task drops its Arc.                  *)
ClaimDeliver ==
    /\ claimer.session # NoSession
    /\ claim_udp_peer' = [claim_udp_peer EXCEPT ![claimer.session] = claimer.peer]
    /\ claimer' = [session |-> NoSession, peer |-> NoPeer]
    /\ UNCHANGED <<task, connection_state, udp_peer, recover_stream,
                   terminate_notify, message_queue, loginVars, listVars,
                   recoverer, borrowed, destruction_notify>>

(* A connection with MARKER_CONN_RECOVERY finds the thread of its key.     *)
RecoverFind(r, c) ==
    /\ recoverer[r].session = NoSession
    /\ c \in unauthorized_clients /\ account_id[c] # NoAccount
    /\ recoverer' = [recoverer EXCEPT ![r] =
                         [session |-> c, state |-> connection_state[c]]]
    /\ UNCHANGED <<task, connection_state, threadVars, loginVars, listVars,
                   claimer, borrowed, destruction_notify>>

(* recover hands the stream over when the state that was read allows it.   *)
RecoverDeliver(r) ==
    /\ recoverer[r].session # NoSession
    /\ IF recoverer[r].state = "Disconnected"
       THEN recover_stream' =
                [recover_stream EXCEPT ![recoverer[r].session] = TRUE]
       ELSE UNCHANGED recover_stream
    /\ recoverer' = [recoverer EXCEPT ![r] =
                         [session |-> NoSession, state |-> "Unauthorized"]]
    /\ UNCHANGED <<task, connection_state, udp_peer, claim_udp_peer,
                   terminate_notify, message_queue, loginVars, listVars,
                   claimer, borrowed, destruction_notify>>

(* get_user_by_id, find_user, the broadcasts and recv_and_handle_udp take  *)
(* an Arc out of the clients map and drop it after pushing their message.  *)
Borrow(c) ==
    /\ c \in MappedClients \ borrowed
    /\ borrowed' = borrowed \cup {c}
    /\ UNCHANGED <<task, connection_state, threadVars, loginVars, listVars,
                   claimer, recoverer, destruction_notify>>

Release(c) ==
    /\ c \in borrowed
    /\ borrowed' = borrowed \ {c}
    /\ UNCHANGED <<task, connection_state, threadVars, loginVars, listVars,
                   claimer, recoverer, destruction_notify>>

------------------------------------------------------------------------------
Init ==
    /\ task = [c \in Session |-> "none"]
    /\ connection_state = [c \in Session |-> "Unauthorized"]
    /\ account_id = [c \in Session |-> NoAccount]
    /\ wants = [c \in Session |-> NoAccount]
    /\ target = [c \in Session |-> NoSession]
    /\ udp_peer = [c \in Session |-> NoPeer]
    /\ claim_udp_peer = [c \in Session |-> NoPeer]
    /\ recover_stream = [c \in Session |-> FALSE]
    /\ terminate_notify = [c \in Session |-> FALSE]
    /\ destruction_notify = [c \in Session |-> FALSE]
    /\ message_queue = [c \in Session |-> FALSE]
    /\ unauthorized_clients = {}
    /\ clients = [p \in {} |-> NoSession]
    /\ claimer = [session |-> NoSession, peer |-> NoPeer]
    /\ recoverer = [r \in Recovery |->
                        [session |-> NoSession, state |-> "Unauthorized"]]
    /\ borrowed = {}
    /\ player_count = 0
    /\ in_rooms = {}

(* What the task of c does by itself, timeouts included.                   *)
TaskStep(c) ==
    \/ TimesOut(c) \/ TerminationRequested(c)
    \/ \E sent \in BOOLEAN : Recovered(c, sent)
    \/ Claimed(c) \/ UnauthorizedReturns(c)
    \/ LookIntoClients(c) \/ LookIntoUnauthorized(c)
    \/ PushNotice(c) \/ RequestTermination(c) \/ KickedOut(c) \/ LoginFails(c)
    \/ \E sent \in BOOLEAN : LoginSucceeds(c, sent)
    \/ LeaveList(c) \/ Unwrap(c) \/ Insert(c)
    \/ ClientKicked(c) \/ LeaveMap(c) \/ Drained(c) \/ Downgrade(c)
    \/ CleanupNotify(c) \/ Cleanup(c)

(* What its client does: connecting, logging in, failing, going away.      *)
ClientStep(c) ==
    \/ Connect(c) \/ UnauthorizedFails(c)
    \/ \E a \in Account : LoginStart(c, a)
    \/ \E state \in {"Disconnected", "Terminating"} : ClientReturns(c, state)

Next ==
    \/ \E c \in Session :
          \/ TaskStep(c) \/ ClientStep(c)
          \/ Borrow(c) \/ Release(c)
          \/ \E p \in UdpPeer : ClaimFind(c, p)
          \/ \E r \in Recovery : RecoverFind(r, c)
    \/ ClaimDeliver
    \/ \E r \in Recovery : RecoverDeliver(r)

Spec == Init /\ [][Next]_vars

(* The tokio scheduler runs every task that can run and the timers fire:   *)
(* a session that waits in UnauthorizedThread::run is at the latest ended  *)
(* by its 90 seconds, and an Arc taken to push a message is dropped.       *)
FairSpec ==
    /\ Spec
    /\ \A c \in Session : /\ WF_vars(TaskStep(c) \/ UnauthorizedFails(c))
                          /\ WF_vars(Release(c))
    /\ WF_vars(ClaimDeliver)
    /\ \A r \in Recovery : WF_vars(RecoverDeliver(r))

------------------------------------------------------------------------------
TypeOK ==
    /\ task \in [Session -> Task]
    /\ connection_state \in [Session -> ConnectionState]
    /\ account_id \in [Session -> Account \cup {NoAccount}]
    /\ wants \in [Session -> Account \cup {NoAccount}]
    /\ target \in [Session -> Session \cup {NoSession}]
    /\ udp_peer \in [Session -> UdpPeer \cup {NoPeer}]
    /\ claim_udp_peer \in [Session -> UdpPeer \cup {NoPeer}]
    /\ recover_stream \in [Session -> BOOLEAN]
    /\ terminate_notify \in [Session -> BOOLEAN]
    /\ destruction_notify \in [Session -> BOOLEAN]
    /\ message_queue \in [Session -> BOOLEAN]
    /\ unauthorized_clients \subseteq Session
    /\ DOMAIN clients \subseteq UdpPeer /\ MappedClients \subseteq Session
    /\ claimer \in [session : Session \cup {NoSession},
                    peer : UdpPeer \cup {NoPeer}]
    /\ recoverer \in [Recovery -> [session : Session \cup {NoSession},
                                   state : ConnectionState]]
    /\ borrowed \subseteq Session
    /\ player_count \in Int
    /\ in_rooms \subseteq Account
    /\ \A c \in Session :
          /\ task[c] \in LoggingIn => wants[c] \in Account
          /\ task[c] \in Kicking => target[c] \in Session

(* When no two clients send from the same UDP address, the clients map     *)
(* holds exactly the ClientThreads that run, each under the address its    *)
(* UDP packets come from: none is shadowed, left behind or removed by      *)
(* another session (insert and remove in client_loop are keyed by the      *)
(* address alone).                                                         *)
MappedWhileRunning ==
    /\ \A p \in DOMAIN clients : udp_peer[clients[p]] = p
    /\ \A c \in Session : c \in MappedClients
                              <=> task[c] \in {"authorized", "leave_map"}

(* When the task takes a disconnected ClientThread out of its Arc to       *)
(* downgrade it, no other task has a reference, and none can get one: the  *)
(* `expect("failed to unwrap thread")` of client_loop cannot fail.         *)
DowngradeIsSafe ==
    \A c \in Session : task[c] = "unwrap_client" => ~Shared(c)

(* The stage of a session that is logged in, by its connection state.      *)
StageNamed(s) ==
    CASE s = "Unclaimed" -> "unclaimed"
      [] s = "Established" -> "playing"
      [] s = "Disconnected" -> "lost"
      [] s = "Terminating" -> "closing"

(* The stage a session is in, for the specification Presence.              *)
StatusOf(c) ==
    CASE task[c] = "none" -> "new"
      [] task[c] = "gone" -> "offline"
      [] task[c] = "panicked" -> "stuck"
      [] OTHER -> IF account_id[c] = NoAccount THEN "pending"
                  ELSE StageNamed(connection_state[c])

Abstract == INSTANCE Presence
                WITH status <- [c \in Session |-> StatusOf(c)],
                     count <- player_count

(* Every step of the server is a step of Presence or none at all: only a   *)
(* lost session is recovered, only an unclaimed one is claimed, and a      *)
(* session that terminates never comes back.                               *)
ImplementsPresence == Abstract!Spec

(* A session that is being set up, logged in, kicked, downgraded, waited   *)
(* for or torn down ends up running or gone: every wait of client_loop,    *)
(* UnauthorizedThread::run and check_already_logged_in is bounded.         *)
SessionSettles ==
    \A c \in Session :
        task[c] \notin {"none", "authorized"}
            ~> task[c] \in {"authorized", "gone", "panicked"}
=============================================================================
