-------------------------- MODULE ClientLoopProofs --------------------------
(***************************************************************************)
(* The life of a client session, proved for any number of sessions,        *)
(* accounts, UDP addresses and recovery tasks.                             *)
(*                                                                         *)
(* SessionInv is inductive.  DowngradeIsSafe rests on the lists: a thread  *)
(* is reached from outside only through unauthorized_clients or the        *)
(* clients map, and a session that drains is in neither (Listed, Mapped).  *)
(* Stages says which connection states go with which point of client_loop; *)
(* it is what makes every step a step of Presence.  None of these needs    *)
(* the clients to have different UDP addresses; only the converse of       *)
(* Mapped, that no running thread is shadowed, does (Unshadowed).          *)
(***************************************************************************)
EXTENDS ClientLoop, FiniteSetTheorems, TLAPS

(* The task runs UnauthorizedThread::run or is about to leave the list.    *)
InList == LoggingIn \cup {"unauthorized", "leave_list"}

InMap == {"authorized", "leave_map"}

(* The connection states that client_loop can be in where it is.           *)
Stage(c) ==
    /\ connection_state[c] = "Unauthorized" =>
          task[c] \in {"none", "unauthorized"} /\ account_id[c] = NoAccount
    /\ connection_state[c] \in {"Unclaimed", "Established", "Disconnected"} =>
          account_id[c] # NoAccount
    /\ task[c] = "none" => connection_state[c] = "Unauthorized"
    /\ task[c] \in LoggingIn => /\ connection_state[c] = "Terminating"
                                /\ account_id[c] = NoAccount
    /\ task[c] = "leave_list" =>
          connection_state[c] \in {"Established", "Terminating"}
    /\ task[c] \in {"unwrap", "insert", "authorized"} =>
          connection_state[c] = "Established"
    /\ task[c] \in {"leave_map", "drain"} =>
          connection_state[c] \in {"Disconnected", "Terminating"}
    /\ task[c] = "unwrap_client" => connection_state[c] = "Disconnected"
    /\ task[c] \in {"cleanup", "notified"} =>
          connection_state[c] = "Terminating"
    /\ task[c] = "notified" => account_id[c] # NoAccount

Stages == \A c \in Session : Stage(c)

(* unauthorized_clients holds the sessions that are waiting or logging in. *)
Listed == \A c \in unauthorized_clients : task[c] \in InList

(* A thread in the clients map is there under its own address, and runs.   *)
Mapped ==
    \A p \in DOMAIN clients : /\ udp_peer[clients[p]] = p
                              /\ task[clients[p]] \in InMap

(* A UDP address that is kept for a session is one its client sends from.  *)
OwnPeers ==
    /\ claimer.session \in Session => claimer.peer \in PeersOf[claimer.session]
    /\ \A c \in Session :
          /\ claim_udp_peer[c] \in PeersOf[c] \cup {NoPeer}
          /\ connection_state[c] = "Established" \/ task[c] \in InMap
                => udp_peer[c] \in PeersOf[c]

SessionInv ==
    /\ TypeOK /\ Stages /\ Listed /\ Mapped /\ OwnPeers /\ DowngradeIsSafe

(* No two clients send from the same UDP address.                          *)
DistinctPeers ==
    \A c, d \in Session : c # d => PeersOf[c] \cap PeersOf[d] = {}

(* A ClientThread that runs is found under its address.                    *)
Unshadowed ==
    \A c \in Session : task[c] \in InMap =>
        udp_peer[c] \in DOMAIN clients /\ clients[udp_peer[c]] = c

------------------------------------------------------------------------------
(* The inductive invariant *)

(* Every step of the server, of a client or of a task that reaches a       *)
(* thread from outside keeps SessionInv.                                   *)
LEMMA SessionInvStep == SessionInv /\ [Next]_vars => SessionInv'
<1> SUFFICES ASSUME SessionInv, [Next]_vars PROVE SessionInv'
  OBVIOUS
<1> USE DEF SessionInv, TypeOK, Stages, Stage, Listed, InList, Mapped, InMap,
            OwnPeers, DowngradeIsSafe, Shared, MappedClients, Kicking,
            LoggingIn, Task, ConnectionState, Goto, SetState, threadVars,
            loginVars, listVars, helperVars
<1>1. ASSUME NEW c \in Session, Connect(c) PROVE SessionInv'
  BY <1>1 DEF Connect
<1>2. ASSUME NEW c \in Session, UnauthorizedFails(c) PROVE SessionInv'
  BY <1>2 DEF UnauthorizedFails
<1>3. ASSUME NEW c \in Session, TimesOut(c) PROVE SessionInv'
  BY <1>3 DEF TimesOut
<1>4. ASSUME NEW c \in Session, TerminationRequested(c) PROVE SessionInv'
  BY <1>4 DEF TerminationRequested
<1>5. ASSUME NEW c \in Session, NEW sent \in BOOLEAN,
           Recovered(c, sent)
      PROVE  SessionInv'
  BY <1>5 DEF Recovered
<1>6. ASSUME NEW c \in Session, Claimed(c) PROVE SessionInv'
  BY <1>6, ClientLoopAssumption DEF Claimed
<1>7. ASSUME NEW c \in Session, UnauthorizedReturns(c) PROVE SessionInv'
  BY <1>7 DEF UnauthorizedReturns
<1>8. ASSUME NEW c \in Session, NEW a \in Account,
           LoginStart(c, a)
      PROVE  SessionInv'
  BY <1>8 DEF LoginStart
<1>9. ASSUME NEW c \in Session, LookIntoClients(c) PROVE SessionInv'
  <2>1. TypeOK'
    BY <1>9 DEF LookIntoClients, Look, SessionsOf
  <2>2. Stages' /\ Listed' /\ Mapped' /\ OwnPeers'
    BY <1>9 DEF LookIntoClients, Look
  <2>3. DowngradeIsSafe'
    BY <1>9 DEF LookIntoClients, Look, SessionsOf
  <2> QED
    BY <2>1, <2>2, <2>3
<1>10. ASSUME NEW c \in Session, LookIntoUnauthorized(c) PROVE SessionInv'
  BY <1>10, SMTT(30) DEF LookIntoUnauthorized, Look, SessionsOf
<1>11. ASSUME NEW c \in Session, PushNotice(c) PROVE SessionInv'
  BY <1>11 DEF PushNotice
<1>12. ASSUME NEW c \in Session, RequestTermination(c) PROVE SessionInv'
  BY <1>12 DEF RequestTermination
<1>13. ASSUME NEW c \in Session, KickedOut(c) PROVE SessionInv'
  BY <1>13 DEF KickedOut
<1>14. ASSUME NEW c \in Session, LoginFails(c) PROVE SessionInv'
  BY <1>14 DEF LoginFails
<1>15. ASSUME NEW c \in Session, NEW sent \in BOOLEAN,
           LoginSucceeds(c, sent)
      PROVE  SessionInv'
  BY <1>15, ClientLoopAssumption DEF LoginSucceeds
<1>16. ASSUME NEW c \in Session, LeaveList(c) PROVE SessionInv'
  BY <1>16 DEF LeaveList
<1>17. ASSUME NEW c \in Session, Unwrap(c) PROVE SessionInv'
  BY <1>17 DEF Unwrap
<1>18. ASSUME NEW c \in Session, Insert(c) PROVE SessionInv'
  <2> DEFINE q == udp_peer[c]
  <2>0. q \in PeersOf[c]
    BY <1>18 DEF Insert
  <2>1. q \in UdpPeer
    BY <2>0, ClientLoopAssumption
  <2>2. DOMAIN clients' = DOMAIN clients \cup {q} /\ clients'[q] = c
    BY <1>18 DEF Insert
  <2>3. \A p \in DOMAIN clients : p # q => clients'[p] = clients[p]
    BY <1>18 DEF Insert
  <2>4. TypeOK'
    <3>1. DOMAIN clients' \subseteq UdpPeer /\ MappedClients' \subseteq Session
      BY <2>1, <2>2, <2>3
    <3> HIDE DEF MappedClients
    <3> QED
      BY <1>18, <3>1 DEF Insert
  <2>5. Stages' /\ Listed' /\ OwnPeers' /\ DowngradeIsSafe'
    BY <1>18 DEF Insert
  <2>6. Mapped'
    BY <1>18, <2>2, <2>3 DEF Insert
  <2> QED
    BY <2>4, <2>5, <2>6
<1>19. ASSUME NEW c \in Session, NEW state \in {"Disconnected", "Terminating"},
           ClientReturns(c, state)
      PROVE  SessionInv'
  BY <1>19 DEF ClientReturns
<1>20. ASSUME NEW c \in Session, ClientKicked(c) PROVE SessionInv'
  BY <1>20 DEF ClientKicked
<1>21. ASSUME NEW c \in Session, LeaveMap(c) PROVE SessionInv'
  <2> DEFINE q == udp_peer[c]
  <2>1. /\ DOMAIN clients' = DOMAIN clients \ {q}
        /\ \A p \in DOMAIN clients' : clients'[p] = clients[p]
    BY <1>21 DEF LeaveMap
  <2>2. TypeOK'
    <3>1. DOMAIN clients' \subseteq UdpPeer /\ MappedClients' \subseteq Session
      BY <2>1
    <3> HIDE DEF MappedClients
    <3> QED
      BY <1>21, <3>1 DEF LeaveMap
  <2>3. Stages' /\ Listed' /\ OwnPeers' /\ DowngradeIsSafe'
    BY <1>21 DEF LeaveMap
  <2>4. Mapped'
    BY <1>21, <2>1 DEF LeaveMap
  <2> QED
    BY <2>2, <2>3, <2>4
<1>22. ASSUME NEW c \in Session, Drained(c) PROVE SessionInv'
  BY <1>22 DEF Drained
<1>23. ASSUME NEW c \in Session, Downgrade(c) PROVE SessionInv'
  <2>1. ~Shared(c)
    BY <1>23 DEF Downgrade
  <2>2. TypeOK'
    <3>1. /\ message_queue' = [message_queue EXCEPT ![c] = FALSE]
          /\ unauthorized_clients' = unauthorized_clients \cup {c}
          /\ task' = [task EXCEPT ![c] = "unauthorized"]
      BY <1>23, <2>1 DEF Downgrade
    <3> QED
      BY <1>23, <3>1 DEF Downgrade
  <2>3. Stages' /\ Listed' /\ Mapped' /\ OwnPeers' /\ DowngradeIsSafe'
    BY <1>23, <2>1 DEF Downgrade
  <2> QED
    BY <2>2, <2>3
<1>24. ASSUME NEW c \in Session, CleanupNotify(c) PROVE SessionInv'
  BY <1>24 DEF CleanupNotify
<1>25. ASSUME NEW c \in Session, Cleanup(c) PROVE SessionInv'
  BY <1>25 DEF Cleanup
<1>26. ASSUME NEW c \in Session, NEW p \in UdpPeer,
           ClaimFind(c, p)
      PROVE  SessionInv'
  BY <1>26 DEF ClaimFind
<1>27. ASSUME ClaimDeliver PROVE SessionInv'
  BY <1>27, ClientLoopAssumption DEF ClaimDeliver
<1>28. ASSUME NEW r \in Recovery, NEW c \in Session,
           RecoverFind(r, c)
      PROVE  SessionInv'
  BY <1>28 DEF RecoverFind
<1>29. ASSUME NEW r \in Recovery, RecoverDeliver(r) PROVE SessionInv'
  <2>1. TypeOK'
    <3>1. recover_stream' \in [Session -> BOOLEAN]
      <4>1. \/ recover_stream' = [recover_stream EXCEPT ![recoverer[r].session]
                                   = TRUE]
            \/ recover_stream' = recover_stream
        BY <1>29 DEF RecoverDeliver
      <4>2. recover_stream \in [Session -> BOOLEAN]
        OBVIOUS
      <4> QED
        BY ONLY <4>1, <4>2, Zenon
    <3>2. recoverer' \in [Recovery -> [session : Session \cup {NoSession},
                                      state : ConnectionState]]
      BY <1>29 DEF RecoverDeliver
    <3> QED
      BY <1>29, <3>1, <3>2 DEF RecoverDeliver
  <2>2. Stages' /\ Listed' /\ Mapped' /\ OwnPeers'
    BY <1>29 DEF RecoverDeliver
  <2>3. DowngradeIsSafe'
    BY <1>29, ClientLoopAssumption DEF RecoverDeliver
  <2> QED
    BY <2>1, <2>2, <2>3
<1>30. ASSUME NEW c \in Session, Borrow(c) PROVE SessionInv'
  BY <1>30 DEF Borrow
<1>31. ASSUME NEW c \in Session, Release(c) PROVE SessionInv'
  BY <1>31 DEF Release
<1>32. CASE UNCHANGED vars
  BY <1>32 DEF vars
<1> HIDE DEF SessionInv
<1> QED
  BY <1>1, <1>2, <1>3, <1>4, <1>5, <1>6, <1>7, <1>8, <1>9, <1>10, <1>11,
     <1>12, <1>13, <1>14, <1>15, <1>16, <1>17, <1>18, <1>19, <1>20, <1>21,
     <1>22, <1>23, <1>24, <1>25, <1>26, <1>27, <1>28, <1>29, <1>30, <1>31,
     <1>32 DEF Next, TaskStep, ClientStep

(* SessionInv holds in every reachable state of the session machinery.     *)
THEOREM SessionSafety == Spec => []SessionInv
<1>1. Init => SessionInv
  BY ClientLoopAssumption
  DEF Init, SessionInv, TypeOK, Stages, Stage, Listed, Mapped, OwnPeers,
      DowngradeIsSafe, MappedClients, InMap, Kicking, LoggingIn, Task,
      ConnectionState
<1> QED
  BY <1>1, SessionInvStep, PTL DEF Spec

(* The `expect` on Arc::into_inner after the drain loop of client_loop     *)
(* cannot fail: whatever other tasks do in between, none gets a reference. *)
THEOREM DowngradeNeverFails == Spec => []DowngradeIsSafe
  BY SessionSafety, PTL DEF SessionInv

------------------------------------------------------------------------------
(* The clients map *)

(* With different addresses, inserting a thread shadows no other one, and  *)
(* a thread that leaves the map takes nobody else with it.                 *)
LEMMA UnshadowedStep ==
    ASSUME DistinctPeers, SessionInv, Unshadowed, [Next]_vars
    PROVE  Unshadowed'
<1> USE DEF SessionInv, TypeOK, Unshadowed, InMap, Goto, SetState, threadVars,
            loginVars, listVars, helperVars
<1>1. ASSUME NEW c \in Session, Insert(c) PROVE Unshadowed'
  BY <1>1 DEF Insert, DistinctPeers, OwnPeers, Stages, Stage
<1>2. ASSUME NEW c \in Session, LeaveMap(c) PROVE Unshadowed'
  BY <1>2 DEF LeaveMap, DistinctPeers, OwnPeers
<1>3. ASSUME NEW c \in Session, Claimed(c) PROVE Unshadowed'
  BY <1>3 DEF Claimed
<1>4. ASSUME NEW c \in Session, Downgrade(c) PROVE Unshadowed'
  BY <1>4 DEF Downgrade
<1>5. ASSUME NEW c \in Session,
             ClientKicked(c) \/ \E s \in {"Disconnected", "Terminating"} :
                                    ClientReturns(c, s)
      PROVE  Unshadowed'
  BY <1>5 DEF ClientKicked, ClientReturns
<1>6. ASSUME UNCHANGED <<clients, udp_peer>>,
             \A c \in Session : task'[c] \in InMap => task[c] \in InMap
      PROVE  Unshadowed'
  BY <1>6
<1>7. ASSUME NEW c \in Session,
             \/ TimesOut(c) \/ TerminationRequested(c)
             \/ \E sent \in BOOLEAN : Recovered(c, sent)
             \/ UnauthorizedReturns(c) \/ Connect(c) \/ UnauthorizedFails(c)
      PROVE  Unshadowed'
  <2>1. UNCHANGED <<clients, udp_peer>>
    BY <1>7
    DEF TimesOut, TerminationRequested, Recovered, UnauthorizedReturns,
        Connect, UnauthorizedFails
  <2>2. \A d \in Session : task'[d] \in InMap => task[d] \in InMap
    BY <1>7
    DEF TimesOut, TerminationRequested, Recovered, UnauthorizedReturns,
        Connect, UnauthorizedFails
  <2> QED
    BY ONLY <2>1, <2>2, <1>6
<1>9. ASSUME NEW c \in Session,
             \/ \E a \in Account : LoginStart(c, a)
             \/ LookIntoClients(c) \/ LookIntoUnauthorized(c)
             \/ PushNotice(c) \/ RequestTermination(c) \/ KickedOut(c)
      PROVE  Unshadowed'
  <2>1. UNCHANGED <<clients, udp_peer>>
    BY <1>9
    DEF LoginStart, LookIntoClients, LookIntoUnauthorized, Look, PushNotice,
        RequestTermination, KickedOut
  <2>2. \A d \in Session : task'[d] \in InMap => task[d] \in InMap
    BY <1>9
    DEF LoginStart, LookIntoClients, LookIntoUnauthorized, Look, PushNotice,
        RequestTermination, KickedOut
  <2> QED
    BY ONLY <2>1, <2>2, <1>6
<1>10. ASSUME NEW c \in Session,
             \/ LoginFails(c) \/ \E sent \in BOOLEAN : LoginSucceeds(c, sent)
             \/ LeaveList(c) \/ Unwrap(c) \/ Drained(c)
             \/ CleanupNotify(c) \/ Cleanup(c)
      PROVE  Unshadowed'
  <2>1. UNCHANGED <<clients, udp_peer>>
    BY <1>10
    DEF LoginFails, LoginSucceeds, LeaveList, Unwrap, Drained, CleanupNotify,
        Cleanup
  <2>2. \A d \in Session : task'[d] \in InMap => task[d] \in InMap
    BY <1>10
    DEF LoginFails, LoginSucceeds, LeaveList, Unwrap, Drained, CleanupNotify,
        Cleanup
  <2> QED
    BY ONLY <2>1, <2>2, <1>6
<1>8. CASE \/ UNCHANGED vars \/ ClaimDeliver
           \/ \E r \in Recovery : RecoverDeliver(r)
           \/ \E c \in Session : \/ Borrow(c) \/ Release(c)
                                 \/ \E p \in UdpPeer : ClaimFind(c, p)
                                 \/ \E r \in Recovery : RecoverFind(r, c)
  BY <1>8 DEF vars, ClaimDeliver, RecoverDeliver, Borrow, Release, ClaimFind,
              RecoverFind
<1> QED
  BY <1>1, <1>2, <1>3, <1>4, <1>5, <1>7, <1>8, <1>9, <1>10, Zenon
  DEF Next, TaskStep, ClientStep

(* When no two clients send from the same UDP address, the clients map     *)
(* holds exactly the ClientThreads that run, each under the address its    *)
(* client was claimed from (insert and remove in client_loop).             *)
THEOREM MapFollowsThreads ==
    ASSUME DistinctPeers PROVE Spec => []MappedWhileRunning
<1>1. Init => Unshadowed
  BY DEF Init, Unshadowed, InMap
<1>2. SessionInv /\ Unshadowed /\ [Next]_vars => Unshadowed'
  BY UnshadowedStep
<1>3. SessionInv /\ Unshadowed => MappedWhileRunning
  BY Zenon DEF SessionInv, Mapped, Unshadowed, MappedWhileRunning, MappedClients,
         InMap
<1> QED
  BY <1>1, <1>2, <1>3, SessionSafety, PTL DEF Spec

------------------------------------------------------------------------------
(* Presence *)

(* StatusOf as a function of what it reads.                                *)
StatusFor(t, s, a) ==
    CASE t = "none" -> "new"
      [] t = "gone" -> "offline"
      [] t = "panicked" -> "stuck"
      [] OTHER -> IF a = NoAccount THEN "pending" ELSE StageNamed(s)

(* Every stage by the values it is derived from.                           *)
LEMMA StatusValues ==
    ASSUME NEW t, NEW s, NEW a
    PROVE  /\ t = "none" => StatusFor(t, s, a) = "new"
           /\ t = "gone" => StatusFor(t, s, a) = "offline"
           /\ t = "panicked" => StatusFor(t, s, a) = "stuck"
           /\ t \notin {"none", "gone", "panicked"} =>
                 /\ a = NoAccount => StatusFor(t, s, a) = "pending"
                 /\ a # NoAccount =>
                       /\ s = "Unclaimed" => StatusFor(t, s, a) = "unclaimed"
                       /\ s = "Established" => StatusFor(t, s, a) = "playing"
                       /\ s = "Disconnected" => StatusFor(t, s, a) = "lost"
                       /\ s = "Terminating" => StatusFor(t, s, a) = "closing"
  BY DEF StatusFor, StageNamed

(* A step that concerns no session but c.                                  *)
Concerns(c) ==
    \A d \in Session : d # c => /\ task'[d] = task[d]
                                /\ connection_state'[d] = connection_state[d]
                                /\ account_id'[d] = account_id[d]

Before(c) == StatusFor(task[c], connection_state[c], account_id[c])

After(c) == StatusFor(task'[c], connection_state'[c], account_id'[c])

(* The stage of a session before a step.                                      *)
LEMMA StageBefore ==
    ASSUME NEW c
    PROVE  /\ task[c] = "none" => Before(c) = "new"
           /\ task[c] = "gone" => Before(c) = "offline"
           /\ task[c] = "panicked" => Before(c) = "stuck"
           /\ task[c] \notin {"none", "gone", "panicked"} =>
                 /\ account_id[c] = NoAccount => Before(c) = "pending"
                 /\ account_id[c] # NoAccount =>
                       /\ connection_state[c] = "Unclaimed" => Before(c) = "unclaimed"
                       /\ connection_state[c] = "Established" => Before(c) = "playing"
                       /\ connection_state[c] = "Disconnected" => Before(c) = "lost"
                       /\ connection_state[c] = "Terminating" => Before(c) = "closing"
  BY StatusValues DEF Before

(* The stage of a session after a step.                                       *)
LEMMA StageAfter ==
    ASSUME NEW c
    PROVE  /\ task'[c] = "none" => After(c) = "new"
           /\ task'[c] = "gone" => After(c) = "offline"
           /\ task'[c] = "panicked" => After(c) = "stuck"
           /\ task'[c] \notin {"none", "gone", "panicked"} =>
                 /\ account_id'[c] = NoAccount => After(c) = "pending"
                 /\ account_id'[c] # NoAccount =>
                       /\ connection_state'[c] = "Unclaimed" => After(c) = "unclaimed"
                       /\ connection_state'[c] = "Established" => After(c) = "playing"
                       /\ connection_state'[c] = "Disconnected" => After(c) = "lost"
                       /\ connection_state'[c] = "Terminating" => After(c) = "closing"
  BY StatusValues DEF After

(* The stages change for c alone.                                          *)
LEMMA StagesChange ==
    ASSUME NEW c \in Session, Concerns(c)
    PROVE  [d \in Session |-> StatusOf(d)]'
               = [[d \in Session |-> StatusOf(d)] EXCEPT ![c] = After(c)]
<1>1. \A d \in Session : StatusOf(d) = Before(d)
  BY DEF StatusOf, Before, StatusFor
<1>2. \A d \in Session : StatusOf(d)' = After(d)
  BY DEF StatusOf, After, StatusFor
<1>3. \A d \in Session : d # c => After(d) = Before(d)
  BY DEF Concerns, After, Before
<1> QED
  BY <1>1, <1>2, <1>3, Zenon

(* A step that changes the stage of c is a Move of Presence.               *)
LEMMA MoveOfPresence ==
    ASSUME NEW c \in Session, NEW from, NEW to, Concerns(c),
           Before(c) \in from, After(c) \in to
    PROVE  Abstract!Move(c, from, to)
<1>1. StatusOf(c) = Before(c)
  BY DEF StatusOf, Before, StatusFor
<1> QED
  BY <1>1, StagesChange DEF Abstract!Move

(* A step that leaves the stage of c and the player count alone is none.   *)
LEMMA StutterOfPresence ==
    ASSUME NEW c \in Session, Concerns(c), After(c) = Before(c),
           player_count' = player_count
    PROVE  UNCHANGED <<[d \in Session |-> StatusOf(d)], player_count>>
<1>1. StatusOf(c) = Before(c)
  BY DEF StatusOf, Before, StatusFor
<1> QED
  BY <1>1, StagesChange, Zenon

(* A step between two points of client_loop that the stage does not tell   *)
(* apart: the connection state may change only before the login.           *)
Quiet(c) ==
    /\ Concerns(c)
    /\ player_count' = player_count /\ account_id'[c] = account_id[c]
    /\ task[c] \notin {"none", "gone", "panicked"}
    /\ task'[c] \notin {"none", "gone", "panicked"}
    /\ \/ account_id[c] = NoAccount
       \/ connection_state'[c] = connection_state[c]

(* Such a step of client_loop is a stutter of Presence.                    *)
LEMMA QuietIsStutter ==
    ASSUME NEW c \in Session, Quiet(c)
    PROVE  UNCHANGED <<[d \in Session |-> StatusOf(d)], player_count>>
<1>1. After(c) = Before(c)
  <2>1. CASE account_id[c] = NoAccount
    BY <2>1, StatusValues DEF Quiet, After, Before
  <2>2. CASE connection_state'[c] = connection_state[c]
    BY <2>2 DEF Quiet, After, Before, StatusFor
  <2> QED
    BY <2>1, <2>2 DEF Quiet
<1> QED
  BY <1>1, StutterOfPresence DEF Quiet

(* What Presence makes of a step of the server.                            *)
PresenceStep ==
    Abstract!Next \/ UNCHANGED <<[d \in Session |-> StatusOf(d)], player_count>>

(* What the stage of a session depends on.                                 *)
Fields ==
    /\ task \in [Session -> Task]
    /\ connection_state \in [Session -> ConnectionState]
    /\ account_id \in [Session -> Account \cup {NoAccount}]
    /\ player_count \in Int
    /\ \A c \in Session : task[c] = "fetch" => wants[c] \in Account
    /\ Stages /\ DowngradeIsSafe

(* The inductive invariant says so of every session.                       *)
LEMMA SessionFields == SessionInv => Fields
  BY DEF SessionInv, TypeOK, LoggingIn, Fields

(* Logging in, waiting and changing between the two kinds of thread do not *)
(* show in the stage.                                                      *)
LEMMA QuietSteps ==
    ASSUME Fields, NEW c \in Session,
           \/ UnauthorizedFails(c) \/ UnauthorizedReturns(c)
           \/ \E a \in Account : LoginStart(c, a)
           \/ LookIntoClients(c) \/ LookIntoUnauthorized(c)
           \/ PushNotice(c) \/ RequestTermination(c) \/ KickedOut(c)
           \/ LoginFails(c) \/ LeaveList(c) \/ Insert(c)
           \/ LeaveMap(c) \/ Drained(c) \/ Downgrade(c)
    PROVE  PresenceStep
<1> USE DEF Fields, Stages, Stage, Quiet, Concerns, Goto, SetState,
            loginVars
<1>1. CASE UnauthorizedFails(c) \/ UnauthorizedReturns(c)
  <2>1. Quiet(c)
    BY <1>1 DEF UnauthorizedFails, UnauthorizedReturns
  <2> QED
    BY <2>1, QuietIsStutter DEF PresenceStep
<1>2. CASE \E a \in Account : LoginStart(c, a)
  <2>1. Quiet(c)
    BY <1>2 DEF LoginStart
  <2> QED
    BY <2>1, QuietIsStutter DEF PresenceStep
<1>3. CASE LookIntoClients(c) \/ LookIntoUnauthorized(c)
  <2>1. Quiet(c)
    BY <1>3 DEF LookIntoClients, LookIntoUnauthorized, Look
  <2> QED
    BY <2>1, QuietIsStutter DEF PresenceStep
<1>4. CASE \/ PushNotice(c) \/ RequestTermination(c) \/ KickedOut(c)
           \/ LoginFails(c)
  <2>1. Quiet(c)
    BY <1>4 DEF PushNotice, RequestTermination, KickedOut, LoginFails
  <2> QED
    BY <2>1, QuietIsStutter DEF PresenceStep
<1>5. CASE \/ LeaveList(c) \/ Insert(c) \/ LeaveMap(c) \/ Drained(c)
  <2>1. Quiet(c)
    BY <1>5 DEF LeaveList, Insert, LeaveMap, Drained
  <2> QED
    BY <2>1, QuietIsStutter DEF PresenceStep
<1>6. CASE Downgrade(c)
  <2>1. Quiet(c)
    BY <1>6 DEF Downgrade, DowngradeIsSafe
  <2> QED
    BY <2>1, QuietIsStutter DEF PresenceStep
<1> HIDE DEF Fields, Quiet
<1> QED
  BY <1>1, <1>2, <1>3, <1>4, <1>5, <1>6

(* The steps that do show: connecting, logging in, the claim, the recovery *)
(* and the ends.                                                           *)
LEMMA VisibleSteps ==
    ASSUME Fields, NEW c \in Session,
           \/ Connect(c) \/ \E sent \in BOOLEAN : LoginSucceeds(c, sent)
           \/ Claimed(c) \/ \E sent \in BOOLEAN : Recovered(c, sent)
           \/ TimesOut(c) \/ TerminationRequested(c) \/ ClientKicked(c)
           \/ \E s \in {"Disconnected", "Terminating"} : ClientReturns(c, s)
           \/ Unwrap(c) \/ CleanupNotify(c) \/ Cleanup(c)
    PROVE  PresenceStep
<1> USE DEF Fields, Stages, Stage, Concerns, Goto, SetState,
            loginVars
<1>1. CASE Connect(c)
  <2>1. /\ Concerns(c) /\ player_count' = player_count
        /\ Before(c) = "new" /\ After(c) = "pending"
    BY <1>1, StageBefore, StageAfter DEF Connect
  <2> QED
    BY <2>1, MoveOfPresence, Zenon DEF PresenceStep, Abstract!Next, Abstract!Open
<1>2. ASSUME NEW sent \in BOOLEAN, LoginSucceeds(c, sent) PROVE PresenceStep
  <2>1. /\ Concerns(c) /\ player_count' = player_count + 1
        /\ Before(c) = "pending" /\ After(c) \in {"unclaimed", "closing"}
    BY <1>2, StageBefore, StageAfter, ClientLoopAssumption, Zenon
    DEF LoginSucceeds, LoggingIn
  <2> QED
    BY <2>1, MoveOfPresence, Zenon DEF PresenceStep, Abstract!Next, Abstract!LogIn
<1>3. CASE Claimed(c)
  <2>1. /\ Concerns(c) /\ player_count' = player_count
        /\ Before(c) = "unclaimed" /\ After(c) = "playing"
    BY <1>3, StageBefore, StageAfter DEF Claimed
  <2> QED
    BY <2>1, MoveOfPresence, Zenon DEF PresenceStep, Abstract!Next, Abstract!Claim
<1>4. ASSUME NEW sent \in BOOLEAN, Recovered(c, sent) PROVE PresenceStep
  <2>1. /\ Concerns(c) /\ player_count' = player_count /\ Before(c) = "lost"
        /\ After(c) = "unclaimed" \/ After(c) = "closing"
    BY <1>4, StageBefore, StageAfter DEF Recovered
  <2> QED
    BY <2>1, MoveOfPresence, Zenon
    DEF PresenceStep, Abstract!Next, Abstract!Recover, Abstract!Close
<1>5. CASE TimesOut(c)
  <2>1. /\ Concerns(c) /\ player_count' = player_count
        /\ Before(c) \in {"unclaimed", "playing", "lost"}
        /\ After(c) = "closing"
    BY <1>5, StageBefore, StageAfter DEF TimesOut
  <2> QED
    BY <2>1, MoveOfPresence, Zenon DEF PresenceStep, Abstract!Next, Abstract!Close
<1>11. CASE ClientKicked(c)
  <2>1. /\ Concerns(c) /\ player_count' = player_count
        /\ Before(c) \in {"unclaimed", "playing", "lost"}
        /\ After(c) = "closing"
    BY <1>11, StageBefore, StageAfter DEF ClientKicked
  <2> QED
    BY <2>1, MoveOfPresence, Zenon DEF PresenceStep, Abstract!Next, Abstract!Close
<1>6. CASE TerminationRequested(c)
  <2>1. CASE connection_state[c] = "Unauthorized"
    <3>1. Quiet(c)
      BY <1>6, <2>1 DEF TerminationRequested, Quiet
    <3> QED
      BY <3>1, QuietIsStutter DEF PresenceStep
  <2>2. CASE connection_state[c] # "Unauthorized"
    <3>1. /\ Concerns(c) /\ player_count' = player_count
          /\ Before(c) \in {"unclaimed", "playing", "lost"}
          /\ After(c) = "closing"
      BY <1>6, <2>2, StageBefore, StageAfter DEF TerminationRequested
    <3> QED
      BY <3>1, MoveOfPresence, Zenon DEF PresenceStep, Abstract!Next, Abstract!Close
  <2> QED
    BY <2>1, <2>2
<1>7. ASSUME NEW s \in {"Disconnected", "Terminating"}, ClientReturns(c, s)
      PROVE  PresenceStep
  <2>1. /\ Concerns(c) /\ player_count' = player_count /\ Before(c) = "playing"
        /\ After(c) = "lost" \/ After(c) = "closing"
    BY <1>7, StageBefore, StageAfter DEF ClientReturns
  <2> QED
    BY <2>1, MoveOfPresence, Zenon
    DEF PresenceStep, Abstract!Next, Abstract!Lose, Abstract!Close
<1>8. CASE Unwrap(c)
  <2>1. CASE Shared(c)
    <3>1. /\ Concerns(c) /\ player_count' = player_count
          /\ Before(c) = "playing" /\ After(c) = "stuck"
      BY <1>8, <2>1, StageBefore, StageAfter DEF Unwrap
    <3> QED
      BY <3>1, MoveOfPresence, Zenon DEF PresenceStep, Abstract!Next, Abstract!Die
  <2>2. CASE ~Shared(c)
    <3>1. Quiet(c)
      BY <1>8, <2>2 DEF Unwrap, Quiet
    <3> QED
      BY <3>1, QuietIsStutter DEF PresenceStep
  <2> QED
    BY <2>1, <2>2
<1>9. CASE CleanupNotify(c)
  <2>1. CASE account_id[c] = NoAccount
    <3>1. /\ Concerns(c) /\ player_count' = player_count
          /\ Before(c) = "pending" /\ After(c) = "offline"
      BY <1>9, <2>1, StageBefore, StageAfter DEF CleanupNotify
    <3> QED
      BY <3>1, MoveOfPresence, Zenon DEF PresenceStep, Abstract!Next, Abstract!Reject
  <2>2. CASE account_id[c] # NoAccount
    <3>1. Quiet(c)
      BY <1>9, <2>2 DEF CleanupNotify, Quiet
    <3> QED
      BY <3>1, QuietIsStutter DEF PresenceStep
  <2> QED
    BY <2>1, <2>2
<1>10. CASE Cleanup(c)
  <2>1. /\ Concerns(c) /\ player_count' = player_count - 1
        /\ Before(c) = "closing" /\ After(c) = "offline"
    BY <1>10, StageBefore, StageAfter DEF Cleanup
  <2> QED
    BY <2>1, MoveOfPresence, Zenon DEF PresenceStep, Abstract!Next, Abstract!LogOut
<1> HIDE DEF Fields
<1> QED
  BY <1>1, <1>2, <1>3, <1>4, <1>5, <1>6, <1>7, <1>8, <1>9, <1>10, <1>11

(* The session machinery implements Presence, for any number of sessions:  *)
(* only a lost session is recovered, only an unclaimed one claimed, the    *)
(* player count goes up once per login and down once per end, and a        *)
(* session that terminates never comes back (client_loop, handle_login,    *)
(* post_disconnect_cleanup).                                               *)
THEOREM SessionsImplementPresence == Spec => ImplementsPresence
<1>1. Init => Abstract!Init
  BY DEF Init, Abstract!Init, StatusOf
<1>2. SessionInv /\ [Next]_vars => [Abstract!Next]_(Abstract!vars)
  <2> SUFFICES ASSUME SessionInv, [Next]_vars PROVE PresenceStep
    BY DEF PresenceStep, Abstract!vars
  <2>1. ASSUME NEW c \in Session, TaskStep(c) \/ ClientStep(c)
        PROVE  PresenceStep
    BY <2>1, SessionFields, QuietSteps, VisibleSteps DEF TaskStep, ClientStep
  <2>2. ASSUME UNCHANGED <<task, connection_state, account_id, player_count>>
        PROVE  PresenceStep
    BY <2>2 DEF PresenceStep, StatusOf
  <2>3. CASE \/ UNCHANGED vars \/ ClaimDeliver
             \/ \E r \in Recovery : RecoverDeliver(r)
             \/ \E c \in Session : \/ Borrow(c) \/ Release(c)
                                   \/ \E p \in UdpPeer : ClaimFind(c, p)
                                   \/ \E r \in Recovery : RecoverFind(r, c)
    BY <2>2, <2>3
    DEF vars, loginVars, ClaimDeliver, RecoverDeliver, Borrow, Release,
        ClaimFind, RecoverFind
  <2> QED
    BY <2>1, <2>3 DEF Next
<1> QED
  BY <1>1, <1>2, SessionSafety, PTL
  DEF Spec, ImplementsPresence, Abstract!Spec

------------------------------------------------------------------------------
(* The player count *)

(* The sessions that have logged in and have not been cleaned up.          *)
Players == {c \in Session : account_id[c] # NoAccount /\ task[c] # "gone"}

PlayersCounted == player_count = Cardinality(Players)

(* Only a login and the cleanup change who is counted, each one once.      *)
LEMMA PlayersStep ==
    ASSUME Fields, [Next]_vars
    PROVE  \/ Players' = Players /\ player_count' = player_count
           \/ \E c \in Session \ Players : /\ Players' = Players \cup {c}
                                           /\ player_count' = player_count + 1
           \/ \E c \in Players : /\ Players' = Players \ {c}
                                 /\ player_count' = player_count - 1
<1> USE DEF Fields, Stages, Stage, Players, Goto, SetState, loginVars
<1>1. ASSUME NEW c \in Session, NEW sent \in BOOLEAN, LoginSucceeds(c, sent)
      PROVE  /\ c \in Session \ Players /\ Players' = Players \cup {c}
             /\ player_count' = player_count + 1
  BY <1>1, ClientLoopAssumption DEF LoginSucceeds, LoggingIn
<1>2. ASSUME NEW c \in Session, Cleanup(c)
      PROVE  /\ c \in Players /\ Players' = Players \ {c}
             /\ player_count' = player_count - 1
  BY <1>2 DEF Cleanup
<1>3. ASSUME NEW c \in Session, CleanupNotify(c)
      PROVE  Players' = Players /\ player_count' = player_count
  BY <1>3 DEF CleanupNotify
<1>4. ASSUME NEW c \in Session,
             \/ UnauthorizedFails(c) \/ UnauthorizedReturns(c)
             \/ Connect(c) \/ Claimed(c) \/ TimesOut(c)
             \/ TerminationRequested(c)
             \/ \E sent \in BOOLEAN : Recovered(c, sent)
      PROVE  Players' = Players /\ player_count' = player_count
  BY <1>4
  DEF UnauthorizedFails, UnauthorizedReturns, Connect, Claimed, TimesOut,
      TerminationRequested, Recovered
<1>5. ASSUME NEW c \in Session, Downgrade(c)
      PROVE  Players' = Players /\ player_count' = player_count
  BY <1>5 DEF Downgrade
<1>6. ASSUME \/ UNCHANGED vars \/ ClaimDeliver
             \/ \E r \in Recovery : RecoverDeliver(r)
             \/ \E c \in Session : \/ Borrow(c) \/ Release(c)
                                   \/ \E p \in UdpPeer : ClaimFind(c, p)
                                   \/ \E r \in Recovery : RecoverFind(r, c)
      PROVE  Players' = Players /\ player_count' = player_count
  BY <1>6 DEF vars, ClaimDeliver, RecoverDeliver, Borrow, Release, ClaimFind,
              RecoverFind
<1>7. ASSUME NEW c \in Session,
             \/ \E a \in Account : LoginStart(c, a)
             \/ LookIntoClients(c) \/ LookIntoUnauthorized(c)
             \/ PushNotice(c) \/ RequestTermination(c) \/ KickedOut(c)
             \/ LoginFails(c)
      PROVE  Players' = Players /\ player_count' = player_count
  BY <1>7
  DEF LoginStart, LookIntoClients, LookIntoUnauthorized, Look, PushNotice,
      RequestTermination, KickedOut, LoginFails
<1>8. ASSUME NEW c \in Session,
             \/ LeaveList(c) \/ Insert(c) \/ LeaveMap(c) \/ Drained(c)
             \/ ClientKicked(c) \/ Unwrap(c)
             \/ \E s \in {"Disconnected", "Terminating"} : ClientReturns(c, s)
      PROVE  Players' = Players /\ player_count' = player_count
  BY <1>8
  DEF LeaveList, Insert, LeaveMap, Drained, ClientKicked, Unwrap,
      ClientReturns
<1> HIDE DEF Fields, Players
<1> QED
  BY <1>1, <1>2, <1>3, <1>4, <1>5, <1>6, <1>7, <1>8
  DEF Next, TaskStep, ClientStep

(* ServerState::player_count is the number of sessions that have logged in *)
(* and have not been cleaned up: kicks, failed sends, recoveries and       *)
(* panics never count a session twice or make the counter wrap below zero  *)
(* (inc_player_count in handle_login, dec_player_count in                  *)
(* post_disconnect_cleanup).                                               *)
THEOREM PlayerCountIsExact == Spec => [](PlayersCounted /\ player_count >= 0)
<1>1. Init => PlayersCounted
  BY FS_EmptySet, Zenon DEF Init, PlayersCounted, Players
<1>2. IsFiniteSet(Players) /\ Cardinality(Players) \in Nat
  BY FS_Subset, FS_CardinalityType, ClientLoopAssumption, Zenon DEF Players
<1>3. SessionInv /\ PlayersCounted /\ [Next]_vars => PlayersCounted'
  <2> SUFFICES ASSUME SessionInv, PlayersCounted, [Next]_vars
               PROVE  player_count' = Cardinality(Players')
    BY DEF PlayersCounted
  <2>1. CASE Players' = Players /\ player_count' = player_count
    BY <2>1 DEF PlayersCounted
  <2>2. ASSUME NEW c \in Session \ Players, Players' = Players \cup {c},
               player_count' = player_count + 1
        PROVE  player_count' = Cardinality(Players')
    BY <2>2, <1>2, FS_AddElement DEF PlayersCounted
  <2>3. ASSUME NEW c \in Players, Players' = Players \ {c},
               player_count' = player_count - 1
        PROVE  player_count' = Cardinality(Players')
    BY <2>3, <1>2, FS_RemoveElement DEF PlayersCounted
  <2> QED
    BY <2>1, <2>2, <2>3, PlayersStep, SessionFields
<1>4. PlayersCounted => player_count >= 0
  BY <1>2 DEF PlayersCounted
<1> QED
  BY <1>1, <1>3, <1>4, SessionSafety, PTL DEF Spec
=============================================================================
