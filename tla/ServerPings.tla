----------------------------- MODULE ServerPings -----------------------------
(***************************************************************************)
(* The pings of GameServerManager. The main thread adds and clears servers *)
(* and sets the active one; the outgoing network thread copies the list,   *)
(* then starts one ping per server, each under a lock of its own; answers  *)
(* come in any order, late, or not at all.                                 *)
(*                                                                         *)
(* A definition that ends in _m is a faulty variant of the one it is named *)
(* after; no specification uses it.                                        *)
(***************************************************************************)
EXTENDS Integers, FiniteSets

CONSTANTS
    PingServers,   \* ids of game servers
    PingIds,       \* ids of pings; the code draws them at random from 2^32
    MaxPending,    \* pings of a server that may be pending before they are cleared
    MaxListings,   \* bound: servers added, lists cleared, connections made and ended
    MaxLostPings   \* bound: datagrams lost

NoServer == "no server"

VARIABLES
    data,       \* the servers: id -> [ping, pending]; ping: who answered, or NoServer
    current,    \* the active server
    activePing, \* activePingId, or 0
    joining, linked,   \* the server that is being connected to, or is connected
    thread,     \* the outgoing thread: [pc, left, id]
    answers,    \* on their way back: [k, id, from]
    listings, lostPings,
    thrown      \* startPing did not find its server

pingVars ==
    <<data, current, activePing, joining, linked, thread, answers, listings, lostPings, thrown>>

Known == DOMAIN data
Idle == [pc |-> "idle", left |-> {}, id |-> NoServer]
Listing == listings < MaxListings /\ listings' = listings + 1

---------------------------------------------------------------------------
(* The main thread *)

\* What was measured is kept; what is pending is forgotten.
addOrUpdateServer(s) ==
    /\ Listing
    /\ data' = [t \in Known \cup {s} |->
                   IF t # s THEN data[t]
                   ELSE [ping |-> IF s \in Known THEN data[s].ping ELSE NoServer, pending |-> {}]]
    /\ UNCHANGED <<current, activePing, joining, linked, thread, answers, lostPings, thrown>>

clear ==
    /\ Listing /\ Known # {}
    /\ data' = [t \in {} |-> NoServer]
    /\ UNCHANGED <<current, activePing, joining, linked, thread, answers, lostPings, thrown>>

\* The outgoing thread connects, so it is not in the middle of a keepalive.
Join(s) ==
    /\ Listing /\ joining = NoServer /\ linked = NoServer /\ s \in Known
    /\ thread.pc # "keepalive"
    /\ joining' = s
    /\ UNCHANGED <<data, current, activePing, linked, thread, answers, lostPings, thrown>>

\* Logged in: a server that is not known (any more) does not become active.
setActive ==
    /\ joining # NoServer
    /\ linked' = joining /\ joining' = NoServer
    /\ current' = IF joining \in Known THEN joining ELSE current
    /\ UNCHANGED <<data, activePing, thread, answers, listings, lostPings, thrown>>

\* The connection ends; its keepalive answers are not accepted any more.
LinkEnds ==
    /\ Listing /\ linked # NoServer
    /\ linked' = NoServer /\ current' = NoServer
    /\ answers' = {a \in answers : a.k = "ping"}
    /\ UNCHANGED <<data, activePing, joining, thread, lostPings, thrown>>

---------------------------------------------------------------------------
(* The outgoing thread *)

\* A random id is taken to be new.
Unused == PingIds \ ({activePing} \cup {a.id : a \in answers} \cup UNION {data[s].pending : s \in Known})
NewPing == CHOOSE id \in Unused : TRUE

\* More pings than that were never answered: forget them all.
startPing(s, id) ==
    data' = [data EXCEPT ![s].pending = (IF Cardinality(@) > MaxPending THEN {} ELSE @) \cup {id}]

\* handlePingTask, for all but the active server. The copy may be stale by the
\* time a ping starts: startPing throws, and the rest of the loop is lost.
CopyServers ==
    /\ thread = Idle /\ Known # {}
    /\ thread' = [pc |-> "pinging", left |-> Known \ {current}, id |-> NoServer]
    /\ UNCHANGED <<data, current, activePing, joining, linked, answers, listings, lostPings, thrown>>

handlePingTask ==
    /\ thread.pc = "pinging"
    /\ UNCHANGED <<current, activePing, joining, linked, listings, lostPings>>
    /\ \/ thread.left = {} /\ thread' = Idle /\ UNCHANGED <<data, answers, thrown>>
       \/ /\ Unused # {}
          /\ \E s \in thread.left :
                IF s \in Known
                THEN /\ startPing(s, NewPing)
                     /\ answers' = answers \cup {[k |-> "ping", id |-> NewPing, from |-> s]}
                     /\ thread' = [thread EXCEPT !.left = @ \ {s}]
                     /\ UNCHANGED thrown
                ELSE thread' = Idle /\ thrown' = TRUE /\ UNCHANGED <<data, answers>>

\* startKeepalive: reads the active server, ...
startKeepalive ==
    /\ thread = Idle /\ linked # NoServer /\ current # NoServer
    /\ thread' = [pc |-> "keepalive", left |-> {}, id |-> current]
    /\ UNCHANGED <<data, current, activePing, joining, linked, answers, listings, lostPings, thrown>>

\* ... starts a ping of it and remembers its id. The packet was queued before
\* and leaves after this, also when startPing threw.
sendKeepalive ==
    /\ thread.pc = "keepalive" /\ Unused # {}
    /\ IF thread.id \in Known
       THEN startPing(thread.id, NewPing) /\ activePing' = NewPing /\ UNCHANGED thrown
       ELSE thrown' = TRUE /\ UNCHANGED <<data, activePing>>
    /\ answers' = IF linked = NoServer THEN answers
                  ELSE answers \cup {[k |-> "keepalive", id |-> 0, from |-> linked]}
    /\ thread' = Idle
    /\ UNCHANGED <<current, joining, linked, listings, lostPings>>

---------------------------------------------------------------------------
(* Answers *)

\* The server that has this ping pending, if any, has been answered.
finishPing(id, from) ==
    data' = [s \in Known |-> IF id \in data[s].pending
                             THEN [ping |-> from, pending |-> data[s].pending \ {id}]
                             ELSE data[s]]

handlePingResponse ==
    /\ \E a \in answers : a.k = "ping" /\ finishPing(a.id, a.from) /\ answers' = answers \ {a}
    /\ UNCHANGED <<current, activePing, joining, linked, thread, listings, lostPings, thrown>>

finishKeepalive_m ==
    /\ \E a \in answers :
          /\ a.k = "keepalive" /\ answers' = answers \ {a}
          /\ \E s \in Known : data' = [data EXCEPT ![s] = [ping |-> a.from, pending |-> {}]]
    /\ UNCHANGED <<current, activePing, joining, linked, thread, listings, lostPings, thrown>>
finishKeepalive ==
    /\ \E a \in answers :
          a.k = "keepalive" /\ finishPing(activePing, a.from) /\ answers' = answers \ {a}
    /\ UNCHANGED <<current, activePing, joining, linked, thread, listings, lostPings, thrown>>

LosePing ==
    /\ lostPings < MaxLostPings /\ lostPings' = lostPings + 1
    /\ \E a \in answers : answers' = answers \ {a}
    /\ UNCHANGED <<data, current, activePing, joining, linked, thread, listings, thrown>>

---------------------------------------------------------------------------

PingInit ==
    /\ data = [t \in {} |-> NoServer] /\ current = NoServer /\ activePing = 0
    /\ joining = NoServer /\ linked = NoServer /\ thread = Idle /\ answers = {}
    /\ listings = 0 /\ lostPings = 0 /\ thrown = FALSE

PingNext ==
    \/ (\E s \in PingServers : addOrUpdateServer(s) \/ Join(s)) \/ setActive \/ clear \/ LinkEnds
    \/ CopyServers \/ handlePingTask \/ startKeepalive \/ sendKeepalive
    \/ handlePingResponse \/ finishKeepalive \/ LosePing

---------------------------------------------------------------------------
(* Properties *)

\* finishPing, finishKeepalive: the ping shown for a server was measured with an
\* answer of that server, whatever was connected to, listed or cleared meanwhile.
PingOfServer == \A s \in Known : data[s].ping \in {NoServer, s}

=============================================================================
