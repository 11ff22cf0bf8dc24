----------------------------- MODULE MenuProofs -----------------------------
(***************************************************************************)
(* Proofs about the menus of the client that wait for answers which may    *)
(* come late, in another order or after the player has moved on:           *)
(* ServerPings, ServerMenu and LevelMenu, which share no state.            *)
(***************************************************************************)
EXTENDS ServerMenu, ServerPings, LevelMenu, FiniteSetTheorems, SequenceTheorems,
        TLAPS

-----------------------------------------------------------------------------
(* ServerPings *)

PingSpec == PingInit /\ [][PingNext]_pingVars

Pings(s) == data[s].pending

ServerRecords ==
    \A s \in Known : data[s] = [ping |-> data[s].ping, pending |-> data[s].pending]

(* Where the outgoing thread and the active server stand.                  *)
OneConnection ==
    /\ thread = [pc |-> thread.pc, left |-> thread.left, id |-> thread.id]
    /\ joining # NoServer => linked = NoServer
    /\ current # NoServer => linked = current
    /\ thread.pc = "keepalive" => joining = NoServer /\ linked \in {NoServer, thread.id}

(* An answer comes from the server that its ping is pending at.  For a     *)
(* keepalive that is so because the id of the last one is not looked up    *)
(* under another connection: it was forgotten with the server, or it is    *)
(* replaced before the first answer.                                       *)
AnswersMatch ==
    \A a \in answers :
        /\ a.k \in {"ping", "keepalive"}
        /\ a.k = "ping" => \A s \in Known : a.id \in Pings(s) => a.from = s
        /\ a.k = "keepalive" =>
              /\ linked # NoServer /\ a.from = linked
              /\ \A s \in Known : activePing \in Pings(s) => s = linked
KeepaliveMatches ==
    /\ current # NoServer =>
          \A s \in Known : activePing \in Pings(s) => s = current \/ current \in Known
    /\ thread.pc = "keepalive" =>
          \A s \in Known : activePing \in Pings(s) => s = thread.id \/ thread.id \in Known

PingInv == ServerRecords /\ OneConnection /\ AnswersMatch /\ KeepaliveMatches /\ PingOfServer

(* finishPing with an id that is pending at nobody but the server that     *)
(* answered.                                                               *)
LEMMA FinishPingFacts ==
    ASSUME PingInv, NEW id, NEW from, finishPing(id, from),
           \A s \in Known : id \in Pings(s) => from = s
    PROVE  /\ Known' = Known /\ ServerRecords' /\ PingOfServer'
           /\ \A s \in Known : Pings(s)' \subseteq Pings(s)
<1>1. /\ Known' = Known
      /\ \A s \in Known : data'[s] = IF id \in Pings(s)
                                     THEN [ping |-> from, pending |-> Pings(s) \ {id}]
                                     ELSE data[s]
  BY DEF finishPing, Known, Pings
<1>2. ASSUME NEW s \in Known
      PROVE  /\ data'[s].ping \in {NoServer, s} /\ Pings(s)' \subseteq Pings(s)
             /\ data'[s] = [ping |-> data'[s].ping, pending |-> data'[s].pending]
  <2>1. CASE id \in Pings(s)
    <3>1. data'[s] = [ping |-> s, pending |-> Pings(s) \ {id}]
      BY <1>1, <2>1
    <3>2. QED
      BY <3>1 DEF Pings
  <2>2. CASE id \notin Pings(s)
    BY <1>1, <2>2, Zenon DEF PingInv, ServerRecords, PingOfServer, Pings
  <2>3. QED
    BY <2>1, <2>2
<1>3. QED
  BY <1>1, <1>2, Zenon DEF ServerRecords, PingOfServer

(* What startPing changes: one more ping, of a new id, is pending at s.    *)
LEMMA StartPingFacts ==
    ASSUME PingInv, NEW s \in Known, NEW id, startPing(s, id)
    PROVE  /\ Known' = Known /\ ServerRecords' /\ PingOfServer'
           /\ \A t \in Known : Pings(t)' \subseteq Pings(t) \cup {id}
           /\ \A t \in Known : t # s => Pings(t)' = Pings(t)
<1> DEFINE kept == IF Cardinality(Pings(s)) > MaxPending THEN {} ELSE Pings(s)
<1>1. /\ Known' = Known
      /\ \A t \in Known : t # s => data'[t] = data[t]
      /\ data'[s] = [data[s] EXCEPT !.pending = kept \cup {id}]
  BY DEF startPing, Known, Pings
<1>2. kept \subseteq Pings(s)
  OBVIOUS
<1> HIDE DEF kept
<1>3. data'[s].ping = data[s].ping /\ data'[s].pending = kept \cup {id}
      /\ data'[s] = [ping |-> data[s].ping, pending |-> kept \cup {id}]
  BY <1>1, Zenon DEF PingInv, ServerRecords
<1>4. QED
  BY <1>1, <1>2, <1>3 DEF PingInv, ServerRecords, PingOfServer, Pings

(* A random id is in no other use.                                         *)
LEMMA NewPingFacts ==
    ASSUME Unused # {}
    PROVE  /\ NewPing # activePing /\ \A a \in answers : a.id # NewPing
           /\ \A s \in Known : NewPing \notin Pings(s)
<1>1. NewPing \in Unused
  BY DEF NewPing
<1>2. QED
  BY <1>1 DEF Unused, Pings

(* The ping shown for a server was measured with an answer of that server, *)
(* whatever was connected to, listed or cleared meanwhile.                 *)
THEOREM PingsAreOfTheirServer == PingSpec => []PingOfServer
<1>1. PingInit => PingInv
  BY DEF PingInit, PingInv, ServerRecords, OneConnection, AnswersMatch, KeepaliveMatches,
         PingOfServer, Known, Idle
<1>2. PingInv /\ [PingNext]_pingVars => PingInv'
  <2> SUFFICES ASSUME PingInv, [PingNext]_pingVars PROVE PingInv'
    OBVIOUS
  <2> USE DEF OneConnection, AnswersMatch, KeepaliveMatches
  <2>1. CASE UNCHANGED <<data, current, activePing, joining, linked, thread, answers>>
    BY <2>1 DEF PingInv, ServerRecords, PingOfServer, Known, Pings
  <2>2. ASSUME ServerRecords', PingOfServer',
               UNCHANGED <<current, activePing, joining, linked, thread, answers>>,
               \A s \in Known' : (s \in Known /\ Pings(s)' = Pings(s)) \/ Pings(s)' = {},
               Known \subseteq Known' \/ \A s \in Known' : Pings(s)' = {}
        PROVE  PingInv'
    BY <2>2 DEF PingInv
  <2>3. ASSUME NEW s \in PingServers, addOrUpdateServer(s) PROVE PingInv'
    <3>1. /\ Known' = Known \cup {s}
          /\ \A t \in Known : t # s => data'[t] = data[t]
          /\ data'[s] = [ping |-> IF s \in Known THEN data[s].ping ELSE NoServer, pending |-> {}]
      BY <2>3 DEF addOrUpdateServer, Known
    <3>2. ServerRecords' /\ PingOfServer'
      BY <3>1 DEF PingInv, ServerRecords, PingOfServer
    <3>3. QED
      BY <2>2, <2>3, <3>1, <3>2 DEF addOrUpdateServer, Pings
  <2>4. CASE clear
    BY <2>2, <2>4 DEF clear, Known, ServerRecords, PingOfServer
  <2>5. CASE UNCHANGED data /\ (setActive \/ LinkEnds \/ \E s \in PingServers : Join(s))
    <3>1. /\ Known' = Known /\ \A s \in Known : Pings(s)' = Pings(s)
          /\ ServerRecords' /\ PingOfServer'
      BY <2>5 DEF PingInv, Known, Pings, ServerRecords, PingOfServer
    <3>2. CASE setActive
      BY <3>1, <3>2 DEF PingInv, setActive
    <3>3. CASE LinkEnds
      BY <3>1, <3>3 DEF PingInv, LinkEnds
    <3>4. CASE \E s \in PingServers : Join(s)
      BY <3>1, <3>4 DEF PingInv, Join
    <3>5. QED
      BY <2>5, <3>2, <3>3, <3>4
  <2>6. CASE UNCHANGED data /\ (CopyServers \/ startKeepalive \/ LosePing)
    <3>1. /\ Known' = Known /\ \A s \in Known : Pings(s)' = Pings(s)
          /\ ServerRecords' /\ PingOfServer'
      BY <2>6 DEF PingInv, Known, Pings, ServerRecords, PingOfServer
    <3>2. QED
      BY <2>6, <3>1 DEF PingInv, CopyServers, startKeepalive, LosePing, Idle
  <2>7. CASE handlePingTask
    <3>1. UNCHANGED <<current, activePing, joining, linked>> /\ thread.pc = "pinging"
      BY <2>7 DEF handlePingTask
    <3>2. CASE /\ thread' = Idle \/ \E s : thread' = [thread EXCEPT !.left = @ \ {s}]
               /\ UNCHANGED <<data, answers>>
      <4>1. /\ ServerRecords' /\ PingOfServer'
            /\ Known' = Known /\ \A s \in Known : Pings(s)' = Pings(s)
        BY <3>2 DEF PingInv, Known, Pings, ServerRecords, PingOfServer
      <4>2. QED
        BY <3>1, <3>2, <4>1 DEF PingInv, Idle
    <3>3. ASSUME NEW s \in Known, startPing(s, NewPing), Unused # {},
                 answers' = answers \cup {[k |-> "ping", id |-> NewPing, from |-> s]},
                 thread' = [thread EXCEPT !.left = @ \ {s}]
          PROVE  PingInv'
      <4>1. /\ Known' = Known /\ ServerRecords' /\ PingOfServer'
            /\ \A t \in Known : Pings(t)' \subseteq Pings(t) \cup {NewPing}
            /\ \A t \in Known : t # s => Pings(t)' = Pings(t)
        BY <3>3, StartPingFacts
      <4>2. /\ NewPing # activePing /\ \A a \in answers : a.id # NewPing
            /\ \A t \in Known : NewPing \notin Pings(t)
        BY <3>3, NewPingFacts
      <4>3. OneConnection' /\ KeepaliveMatches'
        BY <3>1, <3>3, <4>1, <4>2, Zenon DEF PingInv
      <4>4. AnswersMatch'
        <5> SUFFICES ASSUME NEW a \in answers'
                     PROVE  /\ a.k \in {"ping", "keepalive"}
                            /\ a.k = "ping" => \A t \in Known : a.id \in Pings(t)' => a.from = t
                            /\ a.k = "keepalive" =>
                                  /\ linked # NoServer /\ a.from = linked
                                  /\ \A t \in Known : activePing \in Pings(t)' => t = linked
          BY <3>1, <4>1
        <5>1. CASE a \in answers
          BY <4>1, <4>2, <5>1 DEF PingInv
        <5>2. CASE a = [k |-> "ping", id |-> NewPing, from |-> s]
          BY <4>1, <4>2, <5>2
        <5>3. QED
          BY <3>3, <5>1, <5>2
      <4>5. QED
        BY <4>1, <4>3, <4>4 DEF PingInv
    <3>4. QED
      BY <2>7, <3>2, <3>3 DEF handlePingTask
  <2>8. CASE sendKeepalive
    <3>1. /\ thread.pc = "keepalive" /\ thread' = Idle /\ UNCHANGED <<current, joining, linked>>
          /\ Unused # {}
      BY <2>8 DEF sendKeepalive
    <3>2. \A a \in answers' : \/ a \in answers
                              \/ linked # NoServer /\ a.k = "keepalive" /\ a.from = linked
      BY <2>8 DEF sendKeepalive
    <3>3. OneConnection'
      BY <3>1 DEF PingInv, Idle
    <3>4. CASE thread.id \notin Known
      <4>1. UNCHANGED <<data, activePing>>
        BY <2>8, <3>4 DEF sendKeepalive
      <4>2. /\ ServerRecords' /\ PingOfServer' /\ Known' = Known
            /\ \A s \in Known : Pings(s)' = Pings(s)
        BY <4>1 DEF PingInv, Known, Pings, ServerRecords, PingOfServer
      <4>3. \A s \in Known : activePing \notin Pings(s)
        BY <3>1, <3>4 DEF PingInv
      <4>4. QED
        BY <3>1, <3>2, <3>3, <4>1, <4>2, <4>3 DEF PingInv, Idle
    <3>5. CASE thread.id \in Known
      <4>1. startPing(thread.id, NewPing) /\ activePing' = NewPing
        BY <2>8, <3>5 DEF sendKeepalive
      <4>2. /\ Known' = Known /\ ServerRecords' /\ PingOfServer'
            /\ \A t \in Known : Pings(t)' \subseteq Pings(t) \cup {NewPing}
            /\ \A t \in Known : t # thread.id => Pings(t)' = Pings(t)
        BY <3>5, <4>1, StartPingFacts
      <4>3. /\ \A a \in answers : a.id # NewPing
            /\ \A t \in Known : NewPing \notin Pings(t)
        BY <3>1, NewPingFacts
      <4>4. \A t \in Known : activePing' \in Pings(t)' => t = thread.id
        BY <4>1, <4>2, <4>3
      <4>5. KeepaliveMatches'
        BY <3>1, <3>5, <4>2, <4>4 DEF PingInv, Idle
      <4>6. AnswersMatch'
        BY <3>1, <3>2, <4>2, <4>3, <4>4 DEF PingInv
      <4>7. QED
        BY <3>3, <4>2, <4>5, <4>6 DEF PingInv
    <3>6. QED
      BY <3>4, <3>5
  <2>9. ASSUME NEW id, NEW a \in answers, finishPing(id, a.from), answers' = answers \ {a},
               \A s \in Known : id \in Pings(s) => a.from = s,
               UNCHANGED <<current, activePing, joining, linked, thread>>
        PROVE  PingInv'
    <3>1. /\ Known' = Known /\ ServerRecords' /\ PingOfServer'
          /\ \A s \in Known : Pings(s)' \subseteq Pings(s)
      BY <2>9, FinishPingFacts
    <3>2. QED
      BY <2>9, <3>1 DEF PingInv
  <2>10. CASE handlePingResponse
    BY <2>9, <2>10, Zenon DEF handlePingResponse, PingInv
  <2>11. CASE finishKeepalive
    BY <2>9, <2>11, Zenon DEF finishKeepalive, PingInv
  <2>12. QED
    BY <2>1, <2>3, <2>4, <2>5, <2>6, <2>7, <2>8, <2>10, <2>11
       DEF PingNext, pingVars, setActive, LinkEnds, Join, CopyServers, startKeepalive, LosePing
<1>3. PingInv => PingOfServer
  BY DEF PingInv
<1>4. QED
  BY <1>1, <1>2, <1>3, PTL DEF PingSpec

-----------------------------------------------------------------------------
(* ServerMenu *)

ServerSpec == SMInit /\ [][SMNext]_serverVars

CentralServers(c) ==
    /\ c = [servers |-> c.servers, active |-> c.active, switched |-> c.switched]
    /\ c.servers \in Seq(Urls) /\ c.servers # << >>
    /\ c.active \in {STANDALONE_IDX} \cup (0 .. Len(c.servers) - 1)

(* The active index is that of a server in the list, at run time and as it *)
(* is read again after a restart, and a url that is tested is a url.       *)
MenuOK ==
    /\ CentralServers(csm)
    /\ am = [central |-> am.central, token |-> am.token, keys |-> am.keys]
    /\ saved = [servers |-> saved.servers, active |-> saved.active, addr |-> saved.addr,
                last |-> saved.last, cache |-> saved.cache]
    /\ saved.servers \in Seq(Urls) /\ saved.servers # << >>
    /\ dialog = [kind |-> dialog.kind, index |-> dialog.index, url |-> dialog.url]
    /\ dialog.index \in Nat \cup {-1}
    /\ dialog.kind = "test" => dialog.url \in OtherUrls

ServerInv == MenuOK /\ TokenOfActive

(* RemoveAt, what vector::erase does: one element less, the rest in order. *)
LEMMA RemoveAtFacts ==
    ASSUME NEW S, NEW s \in Seq(S), NEW n \in 1..Len(s)
    PROVE  /\ RemoveAt(s, n) \in Seq(S)
           /\ Len(RemoveAt(s, n)) = Len(s) - 1
           /\ \A i \in 1..Len(s) - 1 :
                  RemoveAt(s, n)[i] = IF i < n THEN s[i] ELSE s[i + 1]
<1> DEFINE s1 == SubSeq(s, 1, n - 1)
           s2 == SubSeq(s, n + 1, Len(s))
<1>1. Len(s) \in Nat /\ n \in Nat /\ \A i \in 1..Len(s) : s[i] \in S
  BY LenProperties, ElementOfSeq
<1>2. /\ s1 \in Seq(S) /\ Len(s1) = n - 1
      /\ \A i \in 1..n - 1 : s1[i] = s[i]
  BY <1>1, SubSeqProperties
<1>3. /\ s2 \in Seq(S) /\ Len(s2) = Len(s) - n
      /\ \A i \in 1..Len(s) - n : s2[i] = s[n + i]
  <2>1. \A i \in n + 1 .. Len(s) : s[i] \in S
    BY <1>1
  <2>2. /\ s2 \in Seq(S)
        /\ Len(s2) = IF n + 1 <= Len(s) THEN Len(s) - (n + 1) + 1 ELSE 0
        /\ \A i \in 1..Len(s) - (n + 1) + 1 : s2[i] = s[n + 1 + i - 1]
    BY <1>1, <2>1, SubSeqProperties
  <2>3. QED
    BY <1>1, <2>2
<1>4. RemoveAt(s, n) = s1 \o s2
  BY DEF RemoveAt
<1> HIDE DEF s1, s2
<1>5. /\ s1 \o s2 \in Seq(S) /\ Len(s1 \o s2) = Len(s1) + Len(s2)
      /\ \A i \in 1..Len(s1) + Len(s2) :
             (s1 \o s2)[i] = IF i <= Len(s1) THEN s1[i] ELSE s2[i - Len(s1)]
  BY <1>2, <1>3, ConcatProperties, Zenon
<1>6. ASSUME NEW i \in 1..Len(s) - 1
      PROVE  (s1 \o s2)[i] = IF i < n THEN s[i] ELSE s[i + 1]
  <2>1. i \in 1..Len(s1) + Len(s2)
    BY <1>1, <1>2, <1>3
  <2>2. CASE i < n
    <3>1. i <= Len(s1) /\ i \in 1..n - 1
      BY <1>1, <1>2, <2>2
    <3>2. QED
      BY <1>2, <1>5, <2>1, <2>2, <3>1
  <2>3. CASE ~(i < n)
    <3>1. /\ ~(i <= Len(s1)) /\ i - Len(s1) \in 1..Len(s) - n
          /\ n + (i - Len(s1)) = i + 1
      BY <1>1, <1>2, <2>3
    <3>2. QED
      BY <1>3, <1>5, <2>1, <2>3, <3>1, Zenon
  <2>4. QED
    BY <2>2, <2>3, Zenon
<1>7. Len(s1 \o s2) = Len(s) - 1
  BY <1>1, <1>2, <1>3, <1>5
<1>8. QED
  BY <1>4, <1>5, <1>6, <1>7, Zenon

(* The saved list of a player who has used every server before.            *)
LEMMA AllServersListed == <<MainUrl>> \o SetToSeq(OtherUrls) \in Seq(Urls) \ {<< >>}
<1> DEFINE n == Cardinality(OtherUrls)
<1>1. n \in Nat /\ ExistsBijection(1 .. n, OtherUrls)
  BY ServersAssumption, FS_CardinalityType
<1>2. \E f \in [1 .. n -> OtherUrls] : IsInjective(f)
  BY <1>1 DEF ExistsBijection, Bijection, Injection
<1>3. SetToSeq(OtherUrls) \in [1 .. n -> OtherUrls]
  BY <1>2 DEF SetToSeq
<1> HIDE DEF n
<1>4. SetToSeq(OtherUrls) \in Seq(OtherUrls)
  BY <1>1, <1>3
<1>5. SetToSeq(OtherUrls) \in Seq(Urls)
  BY <1>4 DEF Urls
<1>6. <<MainUrl>> \in Seq(Urls) /\ Len(<<MainUrl>>) = 1
  BY DEF Urls
<1> HIDE DEF Urls
<1>7. QED
  BY <1>5, <1>6

(* A switch to a server of the list leaves no token.                       *)
LEMMA SwitchStep ==
    ASSUME ServerInv, NEW c, NEW index, switchRoutine(c, index),
           c = [servers |-> c.servers, active |-> c.active, switched |-> c.switched],
           c.servers \in Seq(Urls), c.servers # << >>, index \in 0 .. Len(c.servers) - 1,
           dialog' \in {dialog, NoDialog, [NoDialog EXCEPT !.kind = "switcher"]}
    PROVE  ServerInv'
<1>1. csm' = [servers |-> c.servers, active |-> index, switched |-> TRUE]
  BY Zenon DEF switchRoutine
<1>2. am' = [central |-> am'.central, token |-> Nothing, keys |-> am.keys]
  BY Zenon DEF switchRoutine, autoInitialize, ServerInv, MenuOK
<1>3. saved' = [servers |-> c.servers, active |-> index, addr |-> saved.addr,
                last |-> Nothing, cache |-> saved.cache]
  BY Zenon DEF switchRoutine, ServerInv, MenuOK
<1>4. CentralServers(csm)'
  BY <1>1 DEF CentralServers
<1>5. QED
  BY <1>2, <1>3, <1>4 DEF ServerInv, MenuOK, TokenOfActive, NoDialog

(* A change of the list that leaves the active server the same.            *)
LEMMA SaveStep ==
    ASSUME ServerInv, NEW c, CentralServers(c), save(c),
           standalone => c.active = STANDALONE_IDX,
           ~standalone => getActive(c) = getActive(csm),
           dialog' \in {dialog, [NoDialog EXCEPT !.kind = "switcher"]}
    PROVE  ServerInv'
<1>1. csm' = c /\ UNCHANGED <<am, lateToken>>
  BY DEF save
<1>2. saved' = [servers |-> c.servers, active |-> c.active, addr |-> saved.addr,
                last |-> saved.last, cache |-> saved.cache]
  BY Zenon DEF save, ServerInv, MenuOK
<1>3. TokenOfActive'
  BY <1>1 DEF ServerInv, TokenOfActive, standalone
<1>4. QED
  BY <1>1, <1>2, <1>3 DEF ServerInv, MenuOK, NoDialog, CentralServers

(* Removing a server: the list moves up under the active index.            *)
LEMMA RemoveServerStep ==
    ASSUME ServerInv, NEW index \in 1 .. Len(csm.servers) - 1, removeServer(index),
           UNCHANGED dialog
    PROVE  ServerInv'
<1> DEFINE s == RemoveAt(csm.servers, index + 1)
           c == [csm EXCEPT !.servers = s]
<1>1. csm.servers \in Seq(Urls) /\ Len(csm.servers) \in Nat /\ index + 1 \in 1 .. Len(csm.servers)
  BY DEF ServerInv, MenuOK, CentralServers
<1>2. /\ s \in Seq(Urls) /\ Len(s) = Len(csm.servers) - 1
      /\ \A i \in 1 .. Len(csm.servers) - 1 :
            s[i] = IF i < index + 1 THEN csm.servers[i] ELSE csm.servers[i + 1]
  BY <1>1, RemoveAtFacts, Zenon
<1> HIDE DEF s
<1>3. s # << >>
  BY <1>1, <1>2
<1>4. c = [servers |-> s, active |-> csm.active, switched |-> csm.switched]
  BY DEF ServerInv, MenuOK, CentralServers
<1>5. csm.active \in {STANDALONE_IDX} \cup (0 .. Len(csm.servers) - 1) /\ STANDALONE_IDX = -2
  BY DEF ServerInv, MenuOK, CentralServers, STANDALONE_IDX
<1>6. CASE index = csm.active
  <2> DEFINE j == IF index = Len(csm.servers) - 1 THEN index - 1 ELSE index
  <2>1. switchRoutine(c, j)
    BY <1>6 DEF removeServer, s
  <2>2. j \in 0 .. Len(s) - 1
    BY <1>1, <1>2
  <2> HIDE DEF j
  <2>3. QED
    BY <1>2, <1>3, <1>4, <2>1, <2>2, SwitchStep
<1>7. CASE index # csm.active
  <2> DEFINE j == IF csm.active >= index THEN csm.active - 1 ELSE csm.active
             d == [c EXCEPT !.active = j]
  <2>1. save(d)
    <3>1. c.active = csm.active
      BY <1>4
    <3>2. removeServer(index) = save([c EXCEPT !.active = IF @ >= index THEN @ - 1 ELSE @])
      BY <1>7 DEF removeServer, s
    <3>3. QED
      BY <3>1, <3>2
  <2>2. d = [servers |-> s, active |-> j, switched |-> csm.switched]
    <3> HIDE DEF c, j
    <3>1. QED
      BY <1>4
  <2>3. /\ standalone => j = STANDALONE_IDX
        /\ ~standalone => j \in 0 .. Len(s) - 1 /\ s[j + 1] = csm.servers[csm.active + 1]
    <3>1. CASE csm.active = STANDALONE_IDX
      BY <1>1, <1>5, <3>1 DEF standalone
    <3>2. CASE csm.active # STANDALONE_IDX /\ csm.active < index
      <4>1. csm.active \in 0 .. Len(csm.servers) - 1 /\ j = csm.active
        BY <1>1, <1>5, <3>2
      <4>2. j \in 0 .. Len(s) - 1 /\ j + 1 \in 1 .. Len(csm.servers) - 1 /\ j + 1 < index + 1
        BY <1>1, <1>2, <3>2, <4>1
      <4>3. QED
        BY <1>2, <3>2, <4>1, <4>2, Zenon DEF standalone
    <3>3. CASE csm.active # STANDALONE_IDX /\ csm.active > index
      <4>1. csm.active \in 0 .. Len(csm.servers) - 1 /\ j = csm.active - 1
        BY <1>1, <1>5, <3>3
      <4>2. /\ j \in 0 .. Len(s) - 1 /\ j + 1 \in 1 .. Len(csm.servers) - 1
            /\ ~(j + 1 < index + 1) /\ j + 1 + 1 = csm.active + 1
        BY <1>1, <1>2, <3>3, <4>1
      <4>3. QED
        BY <1>2, <3>3, <4>1, <4>2, Zenon DEF standalone
    <3>4. QED
      BY <1>1, <1>5, <1>7, <3>1, <3>2, <3>3
  <2>4. csm.active = STANDALONE_IDX <=> standalone
    BY DEF standalone
  <2> HIDE DEF j, c
  <2>5. CentralServers(d)
    BY <1>2, <1>3, <2>2, <2>3, <2>4 DEF CentralServers
  <2>6. ~standalone => getActive(d) = getActive(csm)
    BY <1>2, <1>5, <2>2, <2>3, <2>4, SMTT(30) DEF getActive
  <2>7. standalone => d.active = STANDALONE_IDX
    BY <2>2, <2>3
  <2> HIDE DEF d
  <2>8. QED
    BY <2>1, <2>5, <2>6, <2>7, SaveStep
<1>8. QED
  BY <1>6, <1>7

(* A server is added or gets another url.                                  *)
LEMMA OnTestSuccessStep ==
    ASSUME ServerInv, NEW index \in Nat \cup {-1}, NEW url \in OtherUrls, onTestSuccess(index, url),
           dialog' = [NoDialog EXCEPT !.kind = "switcher"]
    PROVE  ServerInv'
<1>1. /\ csm.servers \in Seq(Urls) /\ Len(csm.servers) \in Nat /\ csm.servers # << >>
      /\ url \in Urls
  BY DEF ServerInv, MenuOK, CentralServers, Urls
<1>2. /\ csm.active \in {STANDALONE_IDX} \cup (0 .. Len(csm.servers) - 1) /\ STANDALONE_IDX = -2
      /\ csm = [servers |-> csm.servers, active |-> csm.active, switched |-> csm.switched]
  BY DEF ServerInv, MenuOK, CentralServers, STANDALONE_IDX
<1>3. ASSUME NEW s \in Seq(Urls), Len(s) >= Len(csm.servers), s # << >>,
             csm.active # STANDALONE_IDX => s[csm.active + 1] = csm.servers[csm.active + 1],
             save([csm EXCEPT !.servers = s])
      PROVE  ServerInv'
  <2> DEFINE c == [csm EXCEPT !.servers = s]
  <2>1. c = [servers |-> s, active |-> csm.active, switched |-> csm.switched]
    BY <1>2
  <2>2. Len(s) \in Nat
    BY <1>3
  <2>3. CentralServers(c)
    BY <1>1, <1>2, <1>3, <2>1, <2>2 DEF CentralServers
  <2>4. ~standalone => getActive(c) = getActive(csm)
    BY <1>1, <1>2, <1>3, <2>1, <2>2 DEF getActive, standalone
  <2>5. standalone => c.active = STANDALONE_IDX
    BY <2>1 DEF standalone
  <2>6. save(c)
    BY <1>3
  <2> HIDE DEF c
  <2>7. QED
    BY <2>3, <2>4, <2>5, <2>6, SaveStep
<1>4. CASE index = -1
  <2> DEFINE s == Append(csm.servers, url)
  <2>1. /\ s \in Seq(Urls) /\ Len(s) >= Len(csm.servers) /\ s # << >>
        /\ csm.active # STANDALONE_IDX => s[csm.active + 1] = csm.servers[csm.active + 1]
    BY <1>1, <1>2
  <2>2. save([csm EXCEPT !.servers = s])
    BY <1>4 DEF onTestSuccess, addServer
  <2> HIDE DEF s
  <2>3. QED
    BY <1>3, <2>1, <2>2
<1>5. CASE index # -1
  <2> DEFINE s == [csm.servers EXCEPT ![index + 1] = url]
  <2>1. [csm EXCEPT !.servers[index + 1] = url] = [csm EXCEPT !.servers = s]
    OBVIOUS
  <2>2. s \in Seq(Urls) /\ Len(s) = Len(csm.servers) /\ s # << >>
    <3> DEFINE n == Len(csm.servers)
    <3>1. csm.servers \in [1 .. n -> Urls] /\ n \in Nat \ {0}
      BY <1>1
    <3> HIDE DEF n
    <3>2. s \in [1 .. n -> Urls]
      BY <1>1, <3>1, Zenon
    <3>3. s \in Seq(Urls) /\ Len(s) = n
      BY <3>1, <3>2
    <3>4. QED
      BY <3>1, <3>3 DEF n
  <2>3. IF index = csm.active /\ csm.servers[index + 1] # url
        THEN switchRoutine([csm EXCEPT !.servers = s], index) ELSE save([csm EXCEPT !.servers = s])
    BY <1>5, <2>1 DEF onTestSuccess
  <2>4. CASE index = csm.active /\ csm.servers[index + 1] # url
    <3> DEFINE c == [csm EXCEPT !.servers = s]
    <3>1. c = [servers |-> s, active |-> csm.active, switched |-> csm.switched]
      BY <1>2
    <3>2. index \in 0 .. Len(s) - 1
      BY <1>5, <1>2, <2>2, <2>4
    <3>3. switchRoutine(c, index)
      BY <2>3, <2>4
    <3> HIDE DEF c, s
    <3>4. QED
      BY <2>2, <3>1, <3>2, <3>3, SwitchStep
  <2>5. CASE ~(index = csm.active /\ csm.servers[index + 1] # url)
    <3>1. csm.active # STANDALONE_IDX => s[csm.active + 1] = csm.servers[csm.active + 1]
      BY <1>1, <1>2, <2>5
    <3>2. save([csm EXCEPT !.servers = s])
      BY <2>3, <2>5
    <3> HIDE DEF s
    <3>3. QED
      BY <1>1, <1>3, <2>2, <3>1, <3>2
  <2>6. QED
    BY <2>4, <2>5
<1>6. QED
  BY <1>4, <1>5

(* Steps that keep the list of servers, the active one and the token.      *)
SavedKept ==
    saved' = [servers |-> saved.servers, active |-> saved'.active, addr |-> saved'.addr,
              last |-> saved'.last, cache |-> saved'.cache]
TokenKept == am' = [central |-> am'.central, token |-> am.token, keys |-> am'.keys]
ServersKept ==
    csm' = [servers |-> csm.servers, active |-> csm.active, switched |-> csm'.switched]
DialogKept ==
    /\ dialog' = [kind |-> dialog'.kind, index |-> dialog'.index, url |-> dialog'.url]
    /\ dialog'.index \in Nat \cup {-1}
    /\ dialog'.kind = "test" => dialog'.url \in OtherUrls

(* Such steps keep the invariant, whatever else they do.                   *)
LEMMA QuietServerStep ==
    ASSUME ServerInv, ServersKept, SavedKept, TokenKept, DialogKept, lateToken => lateToken'
    PROVE  ServerInv'
<1>1. csm'.servers = csm.servers /\ csm'.active = csm.active
  BY DEF ServersKept
<1>2. CentralServers(csm)'
  BY <1>1 DEF ServersKept, ServerInv, MenuOK, CentralServers
<1>3. am'.token = am.token
  BY DEF TokenKept
<1>4. getActive(csm') = getActive(csm) /\ (standalone' <=> standalone)
  BY <1>1 DEF getActive, standalone
<1>5. TokenOfActive'
  BY <1>3, <1>4 DEF ServerInv, TokenOfActive
<1>6. saved'.servers = saved.servers
  BY DEF SavedKept
<1>7. QED
  BY <1>2, <1>5, <1>6 DEF ServerInv, MenuOK, SavedKept, TokenKept, DialogKept

(* Connecting and disconnecting change nothing but the last server.        *)
LEMMA ConnectKeeps ==
    ASSUME ServerInv,
           \/ \E id, token : connect(id, token)
           \/ connectStandalone \/ disconnect \/ UNCHANGED saved
           \/ \E x : saved' = [saved EXCEPT !.last = x]
           \/ \E x : saved' = [saved EXCEPT !.cache = x]
    PROVE  SavedKept
<1>1. \/ UNCHANGED saved \/ \E x : saved' = [saved EXCEPT !.last = x]
      \/ \E x : saved' = [saved EXCEPT !.cache = x]
  BY Zenon DEF connect, connectStandalone, disconnect, clearActive
<1>2. QED
  BY <1>1 DEF ServerInv, MenuOK, SavedKept

(* A token in hand is one of the active central server, however servers    *)
(* are switched, edited and removed while requests for tokens are on their *)
(* way, unless one came late or the server needs none.                     *)
THEOREM TokensAreOfActive == ServerSpec => []TokenOfActive
<1>1. SMInit => ServerInv
  <2> SUFFICES ASSUME SMInit PROVE ServerInv
    OBVIOUS
  <2>1. /\ saved \in [servers : {<<MainUrl>>, <<MainUrl>> \o SetToSeq(OtherUrls)}, active : {0},
                      addr : {FALSE}, last : {Nothing}, cache : {{}}]
        /\ csm = [servers |-> saved.servers, active |-> 0, switched |-> FALSE]
        /\ dialog = [kind |-> "none", index |-> -1, url |-> Nothing]
    BY Zenon DEF SMInit, NoDialog
  <2>2. am = [central |-> Nothing, token |-> Nothing, keys |-> am.keys]
    BY DEF SMInit
  <2>3. <<MainUrl>> \in Seq(Urls) \ {<< >>}
    BY DEF Urls
  <2>4. saved.servers \in Seq(Urls) \ {<< >>}
    BY <2>1, <2>3, AllServersListed, Zenon
  <2>5. Len(saved.servers) \in Nat \ {0}
    BY <2>4
  <2>6. CentralServers(csm)
    BY <2>1, <2>4, <2>5 DEF CentralServers
  <2>7. QED
    BY <2>1, <2>2, <2>4, <2>6 DEF ServerInv, MenuOK, TokenOfActive
<1>2. ServerInv /\ [SMNext]_serverVars => ServerInv'
  <2> SUFFICES ASSUME ServerInv, [SMNext]_serverVars PROVE ServerInv'
    OBVIOUS
  <2>1. /\ UNCHANGED csm => ServersKept
        /\ UNCHANGED am => TokenKept
        /\ UNCHANGED saved => SavedKept
        /\ UNCHANGED dialog => DialogKept
    BY DEF ServerInv, MenuOK, CentralServers, ServersKept, TokenKept, SavedKept, DialogKept
  <2>2. am' = autoInitialize(am, csm) => TokenKept
    BY DEF ServerInv, MenuOK, autoInitialize, TokenKept
  <2>3. ASSUME NEW k, k # "test", dialog' = [NoDialog EXCEPT !.kind = k] PROVE DialogKept
    BY <2>3 DEF NoDialog, DialogKept
  <2>4. CASE OpenServers \/ CloseServers \/ transitionToMainLayer \/ failedRecovery
    BY <2>1, <2>2, <2>4, QuietServerStep
       DEF OpenServers, CloseServers, transitionToMainLayer, failedRecovery
  <2>5. CASE updateServerList
    <3>1. UNCHANGED csm \/ csm' = [csm EXCEPT !.switched = FALSE]
      BY <2>5 DEF updateServerList
    <3>2. ServersKept
      BY <3>1 DEF ServerInv, MenuOK, CentralServers, ServersKept
    <3>3. UNCHANGED saved \/ \E x : saved' = [saved EXCEPT !.last = x]
      BY <2>5 DEF updateServerList
    <3>4. UNCHANGED <<am, dialog, lateToken>>
      BY <2>5 DEF updateServerList
    <3>5. QED
      BY <2>1, <3>2, <3>3, <3>4, ConnectKeeps, QuietServerStep
  <2>6. CASE ListAnswer
    <3>1. \E x : saved' = [saved EXCEPT !.cache = x]
      BY <2>6, Zenon DEF ListAnswer
    <3>2. UNCHANGED <<csm, am, dialog, lateToken>>
      BY <2>6, Zenon DEF ListAnswer
    <3>3. QED
      BY <2>1, <3>1, <3>2, ConnectKeeps, QuietServerStep, Zenon
  <2>7. CASE PressJoin
    <3>1. disconnect \/ connectStandalone \/ (\E id, token : connect(id, token)) \/ UNCHANGED saved
      BY <2>7 DEF PressJoin
    <3>2. UNCHANGED <<csm, am, dialog, lateToken>>
      BY <2>7 DEF PressJoin
    <3>3. QED
      BY <2>1, <3>1, <3>2, ConnectKeeps, QuietServerStep
  <2>8. CASE LoginAnswer
    <3>1. disconnect \/ UNCHANGED saved \/ \E x : saved' = [saved EXCEPT !.last = x]
      BY <2>8 DEF LoginAnswer
    <3>2. UNCHANGED <<csm, am, dialog, lateToken>>
      BY <2>8 DEF LoginAnswer
    <3>3. QED
      BY <2>1, <3>1, <3>2, ConnectKeeps, QuietServerStep
  <2>9. CASE TokenAnswer
    <3>1. UNCHANGED <<csm, dialog>> /\ (lateToken' <=> lateToken \/ tok.from # getActive(csm))
      BY <2>9, Zenon DEF TokenAnswer
    <3>2. (\E id, token : connect(id, token)) \/ UNCHANGED saved
      BY <2>9 DEF TokenAnswer
    <3>3. SavedKept
      BY <3>2, ConnectKeeps
    <3>4. CASE am' = clearAuthKey(am)
      <4>1. TokenKept
        BY <3>4, Zenon DEF ServerInv, MenuOK, clearAuthKey, TokenKept
      <4>2. QED
        BY <2>1, <3>1, <3>3, <4>1, QuietServerStep
    <3>5. CASE am' = [am EXCEPT !.token = tok.from]
      <4>1. am' = [central |-> am.central, token |-> tok.from, keys |-> am.keys]
        BY <3>5 DEF ServerInv, MenuOK
      <4>2. am'.token = tok.from
        BY <4>1
      <4>3. TokenOfActive'
        BY <3>1, <4>2 DEF TokenOfActive
      <4>4. saved'.servers = saved.servers
        BY <3>3 DEF SavedKept
      <4>5. CentralServers(csm)'
        BY <3>1 DEF ServerInv, MenuOK, CentralServers
      <4>6. QED
        BY <3>1, <3>3, <4>1, <4>3, <4>4, <4>5 DEF ServerInv, MenuOK, SavedKept
    <3>6. QED
      BY <2>9, <3>4, <3>5 DEF TokenAnswer
  <2>10. CASE OpenSwitcher \/ OpenDirect \/ PressSignup
    BY <2>1, <2>3, <2>10, QuietServerStep DEF OpenSwitcher, OpenDirect, PressSignup
  <2>11. CASE CloseDialog
    <3>1. DialogKept
      BY <2>11 DEF CloseDialog, NoDialog, DialogKept, ServerInv, MenuOK
    <3>2. QED
      BY <2>1, <2>11, <3>1, QuietServerStep DEF CloseDialog
  <2>12. CASE OpenAdd
    <3>1. Len(csm.servers) \in Nat
      BY DEF ServerInv, MenuOK, CentralServers
    <3>2. DialogKept
      BY <2>12, <3>1 DEF OpenAdd, DialogKept
    <3>3. QED
      BY <2>1, <2>12, <3>2, QuietServerStep DEF OpenAdd
  <2>13. CASE createCallback \/ uploadMessageFinished
    <3>1. dialog' \in {NoDialog} \cup {[NoDialog EXCEPT !.kind = k] : k \in {"upload", "verify"}}
      BY <2>13 DEF createCallback, uploadMessageFinished
    <3>2. DialogKept
      BY <3>1 DEF NoDialog, DialogKept
    <3>3. QED
      BY <2>1, <2>13, <3>2, QuietServerStep DEF createCallback, uploadMessageFinished
  <2>14. CASE finishCallback
    <3>1. TokenKept
      BY <2>14 DEF finishCallback, storeAuthKey, TokenKept, ServerInv, MenuOK
    <3>2. DialogKept
      BY <2>14 DEF finishCallback, NoDialog, DialogKept
    <3>3. QED
      BY <2>1, <2>14, <3>1, <3>2, QuietServerStep DEF finishCallback
  <2>15. CASE autoconnect
    <3>1. UNCHANGED am \/ am' = autoInitialize(am, csm)
      BY <2>15 DEF autoconnect
    <3>2. UNCHANGED saved \/ connectStandalone
      BY <2>15 DEF autoconnect
    <3>3. UNCHANGED <<csm, dialog, lateToken>>
      BY <2>15 DEF autoconnect
    <3>4. QED
      BY <2>1, <2>2, <3>1, <3>2, <3>3, ConnectKeeps, QuietServerStep
  <2>16. CASE PressSwitch
    <3>1. PICK index \in 0 .. Len(csm.servers) - 1 : switchRoutine(csm, index)
      BY <2>16 DEF PressSwitch
    <3>2. dialog' = NoDialog
      BY <2>16 DEF PressSwitch
    <3>3. QED
      BY <3>1, <3>2, SwitchStep DEF ServerInv, MenuOK, CentralServers
  <2>17. CASE PressDelete
    BY <2>17, RemoveServerStep DEF PressDelete
  <2>18. CASE PressSave
    <3>1. PICK url \in OtherUrls :
            \/ /\ dialog' = [dialog EXCEPT !.kind = "test", !.url = url]
               /\ UNCHANGED <<csm, saved, am, gsm, con, lateToken>>
            \/ /\ onTestSuccess(dialog.index, url)
               /\ dialog' = [NoDialog EXCEPT !.kind = "switcher"]
      BY <2>18, Zenon DEF PressSave
    <3>2. CASE /\ UNCHANGED <<csm, saved, am, lateToken>>
               /\ dialog' = [dialog EXCEPT !.kind = "test", !.url = url]
      <4>1. DialogKept
        BY <3>2, Zenon DEF DialogKept, ServerInv, MenuOK
      <4>2. QED
        BY <2>1, <3>2, <4>1, QuietServerStep
    <3>3. CASE onTestSuccess(dialog.index, url) /\ dialog' = [NoDialog EXCEPT !.kind = "switcher"]
      <4>1. dialog.index \in Nat \cup {-1}
        BY DEF ServerInv, MenuOK
      <4>2. QED
        BY <3>3, <4>1, OnTestSuccessStep
    <3>4. QED
      BY <3>1, <3>2, <3>3
  <2>19. CASE TestAnswer
    <3>1. /\ dialog.index \in Nat \cup {-1} /\ dialog.url \in OtherUrls
          /\ dialog' = [NoDialog EXCEPT !.kind = "switcher"]
      BY <2>19 DEF TestAnswer, ServerInv, MenuOK
    <3>2. CASE onTestSuccess(dialog.index, dialog.url)
      BY <3>1, <3>2, OnTestSuccessStep
    <3>3. CASE UNCHANGED <<csm, saved, am, lateToken>>
      BY <2>1, <2>3, <3>1, <3>3, QuietServerStep
    <3>4. QED
      BY <2>19, <3>2, <3>3 DEF TestAnswer
  <2>20. CASE PressConnect
    <3>1. csm' = [servers |-> csm.servers, active |-> STANDALONE_IDX, switched |-> TRUE]
      BY <2>20, Zenon DEF PressConnect, ServerInv, MenuOK, CentralServers
    <3>2. saved' = [servers |-> saved.servers, active |-> STANDALONE_IDX, addr |-> TRUE,
                    last |-> saved'.last, cache |-> {}]
      BY <2>20, Zenon DEF PressConnect, ServerInv, MenuOK
    <3>3. CentralServers(csm)' /\ standalone'
      BY <3>1 DEF ServerInv, MenuOK, CentralServers, standalone
    <3>4. UNCHANGED am /\ dialog' = NoDialog
      BY <2>20 DEF PressConnect
    <3>5. QED
      BY <3>2, <3>3, <3>4 DEF ServerInv, MenuOK, TokenOfActive, NoDialog
  <2>21. CASE Restart
    <3> DEFINE active == IF saved.active \in 1 .. Len(saved.servers) - 1
                            \/ (saved.active = STANDALONE_IDX /\ saved.addr)
                         THEN saved.active ELSE 0
    <3>1. csm' = [servers |-> saved.servers, switched |-> FALSE, active |-> active]
      BY <2>21 DEF Restart
    <3>2. Len(saved.servers) \in Nat \ {0}
      BY DEF ServerInv, MenuOK
    <3>3. active \in {STANDALONE_IDX} \cup (0 .. Len(saved.servers) - 1)
      BY <3>2
    <3> HIDE DEF active
    <3>4. CentralServers(csm)'
      BY <3>1, <3>3 DEF ServerInv, MenuOK, CentralServers
    <3>5. am' = [central |-> Nothing, token |-> Nothing, keys |-> am.keys]
      BY <2>21, Zenon DEF Restart, ServerInv, MenuOK
    <3>6. UNCHANGED <<saved, dialog>>
      BY <2>21 DEF Restart
    <3>7. QED
      BY <3>4, <3>5, <3>6 DEF ServerInv, MenuOK, TokenOfActive
  <2>22. CASE UNCHANGED serverVars
    BY <2>1, <2>22, QuietServerStep DEF serverVars
  <2>23. QED
    BY <2>4, <2>5, <2>6, <2>7, <2>8, <2>9, <2>10, <2>11, <2>12, <2>13, <2>14, <2>15, <2>16,
       <2>17, <2>18, <2>19, <2>20, <2>21, <2>22 DEF SMNext
<1>3. ServerInv => TokenOfActive
  BY DEF ServerInv
<1>4. QED
  BY <1>1, <1>2, <1>3, PTL DEF ServerSpec

-----------------------------------------------------------------------------
(* LevelMenu *)

LevelMenuSpec == LMInit /\ [][LMNext]_lmVars

(* The popup and the list are never open together, and a delegate that is  *)
(* the popup waits for what the popup waits for.                           *)
Delegates ==
    /\ dl = [stage |-> dl.stage, level |-> dl.level]
    /\ glm = [levels |-> glm.levels, download |-> glm.download, n |-> glm.n]
    /\ glm.n \in Nat
    /\ ll.open => dl.stage = "closed"
    /\ glm.levels = "popup" => dl.stage = "searching"
    /\ glm.download = "popup" => dl.stage = "downloading"

(* The latest request is the popup's, for its level, while the popup waits.*)
Popups(r) ==
    /\ r.n \in Nat /\ r.n =< glm.n
    /\ ~crossed /\ r.n = glm.n =>
          /\ glm.levels = "popup" => r.kind = "levels" /\ r.ids = {dl.level}
          /\ glm.download = "popup" => r.kind = "download" /\ r.ids = {dl.level}

LevelMenuInv ==
    /\ Delegates
    /\ pending \in Seq(Range(pending))
    /\ \A r \in Range(pending) : Popups(r)

(* One more request, and one request answered.                             *)
LEMMA RequestsChange ==
    ASSUME NEW s, s \in Seq(Range(s)), NEW r
    PROVE  /\ Append(s, r) \in Seq(Range(Append(s, r)))
           /\ Range(Append(s, r)) \subseteq Range(s) \cup {r}
           /\ s # << >> => /\ Head(s) \in Range(s) /\ Tail(s) \in Seq(Range(Tail(s)))
                           /\ Range(Tail(s)) \subseteq Range(s)
<1> DEFINE S == Range(s)
           T == S \cup {r}
<1>1. s \in Seq(S)
  OBVIOUS
<1> HIDE DEF S
<1>2. Append(s, r) \in Seq(T)
  BY <1>1
<1>3. s # << >> => Head(s) \in S /\ Tail(s) \in Seq(S)
  BY <1>1
<1>4. /\ Append(s, r) \in Seq(Range(Append(s, r))) /\ Range(Append(s, r)) \subseteq T
  BY <1>2, SeqOfRange, RangeOfSeq, Zenon
<1>5. s # << >> => Tail(s) \in Seq(Range(Tail(s))) /\ Range(Tail(s)) \subseteq S
  BY <1>3, SeqOfRange, RangeOfSeq, Zenon
<1>6. QED
  BY <1>3, <1>4, <1>5 DEF S

(* A request of a popup or a list, with no popup waiting for another one.  *)
LEMMA NewRequest ==
    ASSUME LevelMenuInv, NEW s, s \in Seq(Range(s)), Range(s) \subseteq Range(pending),
           NEW kind, NEW ids, pending' = Append(s, Query(kind, ids)), glm'.n = glm.n + 1,
           Delegates',
           crossed => crossed',
           ~crossed' => /\ glm'.levels = "popup" => kind = "levels" /\ ids = {dl'.level}
                        /\ glm'.download = "popup" => kind = "download" /\ ids = {dl'.level}
    PROVE  LevelMenuInv'
<1> DEFINE r == Query(kind, ids)
<1>1. r.n = glm.n + 1 /\ r.kind = kind /\ r.ids = ids
  BY DEF Query
<1> HIDE DEF r
<1>2. pending' = Append(s, r)
  BY DEF r
<1>3. pending' \in Seq(Range(pending')) /\ Range(pending') \subseteq Range(pending) \cup {r}
  BY <1>2, RequestsChange
<1>4. glm.n \in Nat
  BY DEF LevelMenuInv, Delegates
<1>5. ASSUME NEW q \in Range(pending) PROVE Popups(q)'
  BY <1>4 DEF LevelMenuInv, Popups
<1>6. /\ r.n \in Nat /\ r.n =< glm'.n
      /\ ~crossed' => /\ glm'.levels = "popup" => r.kind = "levels" /\ r.ids = {dl'.level}
                      /\ glm'.download = "popup" => r.kind = "download" /\ r.ids = {dl'.level}
  BY <1>1, <1>4
<1>7. ASSUME NEW q \in Range(pending') PROVE Popups(q)'
  <2>1. CASE q = r
    BY <1>6, <2>1 DEF Popups
  <2>2. QED
    BY <1>3, <1>5, <2>1
<1>8. QED
  BY <1>3, <1>7 DEF LevelMenuInv

(* Nobody is asked, and no popup starts to wait.                           *)
LEMMA NothingAsked ==
    ASSUME LevelMenuInv, pending' \in Seq(Range(pending')),
           Range(pending') \subseteq Range(pending),
           Delegates', glm'.n = glm.n, crossed => crossed',
           glm'.levels = "popup" => glm.levels = "popup" /\ dl'.level = dl.level,
           glm'.download = "popup" => glm.download = "popup" /\ dl'.level = dl.level
    PROVE  LevelMenuInv'
BY DEF LevelMenuInv, Popups

(* reloadPage, which only the open list calls.                             *)
LEMMA ReloadPageStep ==
    ASSUME LevelMenuInv, ll.open, NEW l, l.open, reloadPage(l), UNCHANGED <<dl, crossed>>
    PROVE  LevelMenuInv'
<1>1. dl.stage = "closed" /\ glm.n \in Nat
  BY DEF LevelMenuInv, Delegates
<1>2. \/ glm' = [glm EXCEPT !.levels = Nobody] /\ UNCHANGED pending
      \/ /\ glm' = [glm EXCEPT !.levels = "list", !.n = @ + 1]
         /\ pending' = Append(pending, Query("levels", Range(PageOf(l.sorted, l.page))))
  BY DEF reloadPage
<1>3. glm'.levels # "popup" /\ glm'.download # "popup" /\ Delegates'
  <2>1. \/ glm' = [levels |-> Nobody, download |-> glm.download, n |-> glm.n]
        \/ glm' = [levels |-> "list", download |-> glm.download, n |-> glm.n + 1]
    <3>1. CASE glm' = [glm EXCEPT !.levels = Nobody]
      BY <3>1 DEF LevelMenuInv, Delegates
    <3>2. CASE glm' = [glm EXCEPT !.levels = "list", !.n = @ + 1]
      BY <3>2, Zenon DEF LevelMenuInv, Delegates
    <3>3. QED
      BY <1>2, <3>1, <3>2
  <2>2. glm'.levels # "popup" /\ glm'.download # "popup" /\ glm'.n \in Nat
    BY <1>1, <2>1 DEF LevelMenuInv, Delegates, Nobody
  <2>3. glm' = [levels |-> glm'.levels, download |-> glm'.download, n |-> glm'.n]
    BY <2>1
  <2>4. QED
    BY <1>1, <2>2, <2>3 DEF LevelMenuInv, Delegates
<1>4. CASE glm' = [glm EXCEPT !.levels = Nobody] /\ UNCHANGED pending
  <2>1. glm'.n = glm.n
    BY <1>4 DEF LevelMenuInv, Delegates
  <2>2. QED
    BY <1>3, <1>4, <2>1, NothingAsked DEF LevelMenuInv
<1>5. CASE /\ glm' = [glm EXCEPT !.levels = "list", !.n = @ + 1]
           /\ pending' = Append(pending, Query("levels", Range(PageOf(l.sorted, l.page))))
  <2>1. glm'.n = glm.n + 1
    BY <1>5 DEF LevelMenuInv, Delegates
  <2>2. QED
    BY <1>3, <1>5, <2>1, NewRequest DEF LevelMenuInv
<1>6. QED
  BY <1>2, <1>4, <1>5

(* The answer of GD's servers, whoever is told of it; a level that opens   *)
(* is the popup's unless requests crossed.                                 *)
LEMMA AnswerStep ==
    ASSUME LevelMenuInv, Answer
    PROVE  /\ LevelMenuInv'
           /\ dl'.stage = "closed" /\ dl'.level # NoLevel /\ dl.stage # "closed"
                 => dl'.level = dl.level \/ crossed'
<1> DEFINE p == Head(pending)
           who == IF p.kind = "levels" THEN glm.levels ELSE glm.download
<1>1. /\ pending # << >> /\ p \in Range(pending) /\ Tail(pending) \in Seq(Range(Tail(pending)))
      /\ Range(Tail(pending)) \subseteq Range(pending)
  BY RequestsChange DEF Answer, LevelMenuInv
<1>2. Popups(p) /\ glm.n \in Nat
  BY <1>1 DEF LevelMenuInv, Delegates
<1>3. crossed' <=> crossed \/ (who # Nobody /\ p.n # glm.n)
  BY Zenon DEF Answer
<1>4. PICK ok \in BOOLEAN :
        \/ who = Nobody /\ pending' = Tail(pending) /\ UNCHANGED <<ll, dl, glm>>
        \/ /\ who = "list" /\ pending' = Tail(pending) /\ glm' = [glm EXCEPT !.levels = Nobody]
           /\ ll' = IF ok THEN loadLevelsFinished(ll, p.ids \ Deleted) ELSE loadListCommon(ll)
           /\ UNCHANGED dl
        \/ /\ who = "popup" /\ p.kind = "levels" /\ UNCHANGED ll
           /\ PopupFinds(IF ok THEN p.ids \ Deleted ELSE {})
        \/ /\ who = "popup" /\ p.kind = "download" /\ pending' = Tail(pending) /\ UNCHANGED ll
           /\ PopupCloses(IF ok THEN CHOOSE x \in p.ids : TRUE ELSE NoLevel)
  BY Zenon DEF Answer
<1> HIDE DEF p
<1>5. crossed => crossed'
  BY <1>3
<1>6. CASE who = Nobody /\ pending' = Tail(pending) /\ UNCHANGED <<ll, dl, glm>>
  <2>1. Delegates'
    BY <1>6 DEF LevelMenuInv, Delegates
  <2>2. QED
    BY <1>1, <1>5, <1>6, <2>1, NothingAsked
<1>7. CASE /\ who = "list" /\ pending' = Tail(pending) /\ glm' = [glm EXCEPT !.levels = Nobody]
           /\ ll' = IF ok THEN loadLevelsFinished(ll, p.ids \ Deleted) ELSE loadListCommon(ll)
           /\ UNCHANGED dl
  <2>1. glm' = [levels |-> Nobody, download |-> glm.download, n |-> glm.n]
    BY <1>7 DEF LevelMenuInv, Delegates
  <2>2. ll'.open = ll.open
    BY <1>7 DEF loadLevelsFinished, loadListCommon
  <2>3. Delegates'
    BY <1>7, <2>1, <2>2 DEF LevelMenuInv, Delegates, Nobody
  <2>4. QED
    BY <1>1, <1>5, <1>7, <2>1, <2>3, NothingAsked DEF Nobody
<1>8. ASSUME NEW opened, who = "popup", pending' = Tail(pending), PopupCloses(opened), UNCHANGED ll
      PROVE  LevelMenuInv' /\ dl'.level = opened
  <2>1. /\ dl' = [stage |-> "closed", level |-> opened]
        /\ glm' = [levels |-> Nobody, download |-> Nobody, n |-> glm.n]
    BY <1>8, Zenon DEF PopupCloses, LevelMenuInv, Delegates
  <2>2. Delegates'
    BY <1>2, <2>1 DEF Delegates, Nobody
  <2>3. QED
    BY <1>1, <1>5, <1>8, <2>1, <2>2, NothingAsked DEF Nobody
<1>9. who = "popup" => crossed' \/ (~crossed /\ p.n = glm.n)
  BY <1>3 DEF Nobody
<1>10. CASE /\ who = "popup" /\ p.kind = "levels" /\ UNCHANGED ll
            /\ PopupFinds(IF ok THEN p.ids \ Deleted ELSE {})
  <2>1. CASE PopupCloses(NoLevel) /\ pending' = Tail(pending)
    BY <1>8, <1>10, <2>1
  <2>2. ASSUME NEW x \in p.ids, dl' = [dl EXCEPT !.stage = "downloading"],
               glm' = [levels |-> Nobody, download |-> "popup", n |-> glm.n + 1],
               pending' = Append(Tail(pending), Query("download", {x}))
        PROVE  LevelMenuInv' /\ dl'.stage # "closed"
    <3>1. dl' = [stage |-> "downloading", level |-> dl.level]
      BY <2>2 DEF LevelMenuInv, Delegates
    <3>2. dl.stage = "searching"
      BY <1>10 DEF LevelMenuInv, Delegates
    <3>3. Delegates'
      BY <1>2, <1>10, <2>2, <3>1, <3>2 DEF LevelMenuInv, Delegates, Nobody
    <3>4. ~crossed' => x = dl.level
      BY <1>2, <1>9, <1>10, <2>2 DEF Popups
    <3>5. QED
      BY <1>1, <1>5, <2>2, <3>1, <3>3, <3>4, NewRequest, Zenon DEF Nobody
  <2>3. QED
    BY <1>10, <2>1, <2>2, Zenon DEF PopupFinds
<1>11. CASE /\ who = "popup" /\ p.kind = "download" /\ pending' = Tail(pending) /\ UNCHANGED ll
            /\ PopupCloses(IF ok THEN CHOOSE x \in p.ids : TRUE ELSE NoLevel)
  <2> DEFINE opened == IF ok THEN CHOOSE x \in p.ids : TRUE ELSE NoLevel
  <2>1. opened = NoLevel \/ opened = dl.level \/ crossed'
    <3>1. crossed' \/ p.ids = {dl.level}
      BY <1>2, <1>9, <1>11 DEF Popups
    <3>2. QED
      BY <3>1
  <2>2. PopupCloses(opened)
    BY <1>11
  <2> HIDE DEF opened
  <2>3. LevelMenuInv' /\ dl'.level = opened
    BY <1>8, <1>11, <2>2
  <2>4. QED
    BY <2>1, <2>3
<1>12. QED
  BY <1>4, <1>6, <1>7, <1>10, <1>11

(* The level that the download popup opens is the one the player plays,    *)
(* unless the answer to an older request was taken for its own, whatever   *)
(* the level list asked for and however the popups were closed meanwhile.  *)
THEOREM PopupOpensItsLevel == LevelMenuSpec => RightLevelOpened
<1> DEFINE Opens == dl'.stage = "closed" /\ dl'.level # NoLevel /\ dl.stage # "closed"
                       => dl'.level = dl.level \/ crossed'
<1>1. LMInit => LevelMenuInv
  <2> SUFFICES ASSUME LMInit PROVE LevelMenuInv
    OBVIOUS
  <2>1. pending = << >> /\ Range(pending) = {}
    BY DEF LMInit, Range
  <2>2. pending \in Seq(Range(pending))
    BY <2>1
  <2>3. Delegates
    BY DEF LMInit, Delegates, ClosedPopup, ClosedList, Nobody
  <2>4. QED
    BY <2>1, <2>2, <2>3 DEF LevelMenuInv
<1>2. LevelMenuInv /\ [LMNext]_lmVars => LevelMenuInv' /\ Opens
  <2> SUFFICES ASSUME LevelMenuInv, [LMNext]_lmVars PROVE LevelMenuInv' /\ Opens
    OBVIOUS
  <2>1. /\ dl = [stage |-> dl.stage, level |-> dl.level] /\ glm.n \in Nat
        /\ glm = [levels |-> glm.levels, download |-> glm.download, n |-> glm.n]
        /\ pending \in Seq(Range(pending))
    BY DEF LevelMenuInv, Delegates
  <2>2. ASSUME UNCHANGED <<dl, glm, pending, crossed>>, ll'.open => dl.stage = "closed"
        PROVE  LevelMenuInv' /\ Opens
    <3>1. Delegates'
      BY <2>2 DEF LevelMenuInv, Delegates
    <3>2. QED
      BY <2>2, <3>1, NothingAsked DEF LevelMenuInv
  <2>3. CASE OpenList
    BY <2>2, <2>3 DEF OpenList
  <2>4. CASE CloseList
    <3>1. glm' = [levels |-> Nobody, download |-> glm.download, n |-> glm.n] /\ ~ll'.open
      BY <2>1, <2>4 DEF CloseList, ClosedList
    <3>2. Delegates'
      BY <2>4, <3>1 DEF CloseList, LevelMenuInv, Delegates, Nobody
    <3>3. QED
      BY <2>4, <3>1, <3>2, NothingAsked DEF CloseList, Nobody, LevelMenuInv
  <2>5. CASE RefreshList
    BY <2>2, <2>5 DEF RefreshList, LevelMenuInv, Delegates
  <2>6. ASSUME ll.open, NEW l, l.open, reloadPage(l), UNCHANGED <<dl, crossed>>
        PROVE  LevelMenuInv' /\ Opens
    BY <2>6, ReloadPageStep
  <2>7. CASE TurnPage
    <3>1. PICK l : l.open = ll.open /\ reloadPage(l)
      <4>1. CASE reloadPage([ll EXCEPT !.page = @ - 1])
        <5>1. [ll EXCEPT !.page = @ - 1].open = ll.open
          OBVIOUS
        <5>2. QED
          BY <4>1, <5>1, Zenon
      <4>2. CASE reloadPage([ll EXCEPT !.page = @ + 1])
        <5>1. [ll EXCEPT !.page = @ + 1].open = ll.open
          OBVIOUS
        <5>2. QED
          BY <4>2, <5>1, Zenon
      <4>3. QED
        BY <2>7, <4>1, <4>2, Zenon DEF TurnPage
    <3>2. QED
      BY <2>6, <2>7, <3>1, Zenon DEF TurnPage
  <2>8. CASE LevelListSent \/ LoseList \/ ToggleOnline
    BY <2>2, <2>8 DEF LevelListSent, LoseList, ToggleOnline, LevelMenuInv, Delegates
  <2>9. CASE OnLevelList
    <3>1. CASE ll.open
      <4>1. PICK s : reloadPage([ll EXCEPT !.sorted = s, !.pages = <<>>, !.page = 0])
        BY <2>9, <3>1, Zenon DEF OnLevelList
      <4>2. [ll EXCEPT !.sorted = s, !.pages = <<>>, !.page = 0].open = ll.open
        OBVIOUS
      <4>3. QED
        BY <2>6, <2>9, <3>1, <4>1, <4>2, Zenon DEF OnLevelList
    <3>2. CASE ~ll.open
      BY <2>2, <2>9, <3>2 DEF OnLevelList, LevelMenuInv, Delegates
    <3>3. QED
      BY <3>1, <3>2
  <2>10. CASE OpenDownload
    <3>1. PICK x \in Levels : /\ dl' = [stage |-> "searching", level |-> x]
                              /\ pending' = Append(pending, Query("levels", {x}))
      BY <2>10, Zenon DEF OpenDownload
    <3>2. /\ glm' = [levels |-> "popup", download |-> glm.download, n |-> glm.n + 1]
          /\ UNCHANGED <<ll, crossed>> /\ ~ll.open /\ dl.stage = "closed"
      BY <2>1, <2>10, Zenon DEF OpenDownload
    <3>3. Delegates'
      BY <2>1, <3>1, <3>2 DEF LevelMenuInv, Delegates
    <3>4. glm'.download # "popup" /\ glm'.n = glm.n + 1 /\ dl'.level = x
      BY <3>1, <3>2 DEF LevelMenuInv, Delegates
    <3>5. LevelMenuInv'
      BY <2>1, <3>1, <3>2, <3>3, <3>4, NewRequest, Zenon
    <3>6. QED
      BY <3>1, <3>5
  <2>11. CASE CloseDownload
    <3>1. /\ dl' = [stage |-> "closed", level |-> NoLevel]
          /\ glm' = [levels |-> Nobody, download |-> Nobody, n |-> glm.n]
          /\ UNCHANGED <<ll, pending, crossed>>
      BY <2>1, <2>11, Zenon DEF CloseDownload, PopupCloses
    <3>2. Delegates'
      BY <2>1, <3>1 DEF Delegates, Nobody
    <3>3. LevelMenuInv'
      BY <2>1, <3>1, <3>2, NothingAsked DEF Nobody
    <3>4. QED
      BY <3>1, <3>3
  <2>12. CASE Answer
    BY <2>12, AnswerStep
  <2>13. CASE UNCHANGED lmVars
    BY <2>2, <2>13 DEF lmVars, LevelMenuInv, Delegates
  <2>14. QED
    BY <2>3, <2>4, <2>5, <2>7, <2>8, <2>9, <2>10, <2>11, <2>12, <2>13 DEF LMNext
<1>3. QED
  BY <1>1, <1>2, PTL DEF LevelMenuSpec, RightLevelOpened

=============================================================================
