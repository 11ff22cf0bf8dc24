------------------------ MODULE RoomMembershipProofs ------------------------
(***************************************************************************)
(* Which rooms and level lists an account is in, proved for any set of     *)
(* accounts, room ids and levels under the assumption that no room id is   *)
(* drawn twice (FreshIds).  Without it both theorems are false: an id that *)
(* is drawn again brings a room that was deleted back under the feet of a  *)
(* client that still has its id.                                           *)
(*                                                                         *)
(* MemberInv is inductive on top of RoomInv.  An id that was drawn and not *)
(* inserted yet is known to its drawer alone (Reserved), so the insertion  *)
(* changes no other client's with_any; a room is deleted only when nobody  *)
(* is in it, so the deletion does not either.                              *)
(***************************************************************************)
EXTENDS RoomManagerProofs

(* The rooms whose player map holds a.                                     *)
In(x, a) == {r \in DOMAIN x : a \in x[r].manager.players}

(* Account a is on the list of level l.                                    *)
Listed(levels, l, a) ==
    /\ l \in DOMAIN levels
    /\ \E i \in 1 .. Len(levels[l]) : levels[l][i] = a

(* A room id that is held anywhere was drawn; one that is about to be      *)
(* inserted is held by nobody else.                                        *)
Reserved ==
    /\ DOMAIN rooms \subseteq drawn \cup {Global}
    /\ \A a \in Account : /\ arg[a] \in drawn \cup {Global}
                          /\ room_id[a] \in drawn \cup {Global}
    /\ \A a \in Account : phase[a] = "insert" =>
          /\ arg[a] \notin DOMAIN rooms
          /\ \A b \in Account : /\ room_id[b] # arg[a]
                                /\ b # a => arg[b] # arg[a]

(* Where a handler relies on the client having no room of its own.         *)
AtHome ==
    \A a \in Account :
        /\ phase[a] \in {"offline", "insert", "leave_global", "leave_prune",
                         "reenter_global"} => room_id[a] = Global
        /\ phase[a] = "leave_global" => arg[a] \in RoomId

(* ExactlyOneRoom, as one set per account.                                 *)
Home(a) ==
    IF phase[a] \in {"idle", "insert", "swap", "fragment", "panicked"}
    THEN {with_any(room_id[a])}
    ELSE IF phase[a] = "leave_global" THEN {Global, arg[a]}
    ELSE {}

AllAtHome == \A a \in Account : In(rooms, a) = Home(a)

(* NoGhostsOnLevels, by membership.                                        *)
NoGhosts ==
    \A r \in DOMAIN rooms \ {Global} : \A l \in LevelId, a \in Account :
        Listed(rooms[r].manager.levels, l, a) =>
            a \in rooms[r].manager.players /\ room_id[a] = r /\ level_id[a] = l

MemberInv == Reserved /\ AtHome /\ AllAtHome /\ NoGhosts

------------------------------------------------------------------------------
(* Level lists *)

(* RemoveFirst of a list without duplicates takes the element out for good *)
(* and brings in no other.                                                 *)
LEMMA RemoveFirstTakesOut ==
    ASSUME NEW S, NEW s \in Seq(S), NoDuplicates(s), NEW e
    PROVE  \A i \in 1..Len(RemoveFirst(s, e)) :
               /\ RemoveFirst(s, e)[i] # e
               /\ \E j \in 1..Len(s) : s[j] = RemoveFirst(s, e)[i]
<1>1. CASE \E i \in 1..Len(s) : s[i] = e
  <2> DEFINE I == {i \in 1..Len(s) : s[i] = e}
             n == Min(I)
  <2>1. n \in 1..Len(s) /\ s[n] = e
    <3>1. I \subseteq Nat /\ I # {}
      BY <1>1, LenProperties
    <3>2. Min(I) \in I
      BY <3>1, MinOfNaturals, Zenon
    <3>3. QED
      BY <3>2
  <2>2. RemoveFirst(s, e) = RemoveAt(s, n)
    BY <1>1 DEF RemoveFirst, SelectInSeq
  <2> HIDE DEF n
  <2>3. /\ Len(RemoveAt(s, n)) = Len(s) - 1
        /\ \A i \in 1..Len(s) - 1 :
               RemoveAt(s, n)[i] = IF i < n THEN s[i] ELSE s[i + 1]
    BY <2>1, RemoveAtFacts, Zenon
  <2>4. Len(s) \in Nat
    BY LenProperties
  <2>5. ASSUME NEW i \in 1..Len(s) - 1
        PROVE  /\ RemoveAt(s, n)[i] # e
               /\ \E j \in 1..Len(s) : s[j] = RemoveAt(s, n)[i]
    <3>1. CASE i < n
      BY <2>1, <2>3, <2>4, <3>1 DEF NoDuplicates
    <3>2. CASE ~(i < n)
      BY <2>1, <2>3, <2>4, <3>2 DEF NoDuplicates
    <3>3. QED
      BY <3>1, <3>2
  <2>6. QED
    BY <2>2, <2>3, <2>5
<1>2. CASE ~\E i \in 1..Len(s) : s[i] = e
  BY <1>2 DEF RemoveFirst
<1>3. QED
  BY <1>1, <1>2

(* remove_from_level takes the account off that level's list and changes   *)
(* no other membership.                                                    *)
LEMMA RemoveFromLevelLists ==
    ASSUME NEW m, IsManager(m), WellFormedLists(m.levels), NEW a \in Account,
           NEW l
    PROVE  \A k, b : Listed(remove_from_level(m, l, a).levels, k, b) =>
               /\ Listed(m.levels, k, b)
               /\ ~(k = l /\ b = a)
<1> DEFINE list == RemoveFirst(m.levels[l], a)
           levels == IF list = << >> THEN WithoutLevel(m.levels, l)
                     ELSE WithLevel(m.levels, l, list)
<1>1. CASE l \notin DOMAIN m.levels
  BY <1>1 DEF remove_from_level, Listed
<1>2. CASE l \in DOMAIN m.levels
  <2>1. remove_from_level(m, l, a) = [m EXCEPT !.levels = levels]
    BY <1>2 DEF remove_from_level
  <2>2. m.levels[l] \in Seq(Account) /\ NoDuplicates(m.levels[l])
    BY <1>2 DEF IsManager, WellFormedLists
  <2>3. \A i \in 1..Len(list) : /\ list[i] # a
                                /\ \E j \in 1..Len(m.levels[l]) :
                                       m.levels[l][j] = list[i]
    BY <2>2, RemoveFirstTakesOut
  <2> HIDE DEF list
  <2>4. /\ DOMAIN levels \subseteq DOMAIN m.levels
        /\ \A k \in DOMAIN levels : IF k = l THEN levels[k] = list
                                    ELSE levels[k] = m.levels[k]
    BY <1>2 DEF WithLevel, WithoutLevel
  <2> HIDE DEF levels
  <2>5. [m EXCEPT !.levels = levels].levels = levels
    BY DEF IsManager
  <2>6. QED
    BY <2>1, <2>3, <2>4, <2>5 DEF Listed
<1>3. QED
  BY <1>1, <1>2

(* add_to_level puts the account on that level's list and changes no other *)
(* membership.                                                             *)
LEMMA AddToLevelLists ==
    ASSUME NEW m, IsManager(m), NEW a \in Account, NEW l
    PROVE  \A k, b : Listed(add_to_level(m, l, a).levels, k, b) =>
               Listed(m.levels, k, b) \/ (k = l /\ b = a)
<1> DEFINE old == IF l \in DOMAIN m.levels THEN m.levels[l] ELSE << >>
           new == IF Contains(old, a) THEN old ELSE Append(old, a)
           levels == WithLevel(m.levels, l, new)
<1>1. add_to_level(m, l, a) = [m EXCEPT !.levels = levels]
  BY DEF add_to_level
<1>2. old \in Seq(Account) /\ Len(old) \in Nat
  BY LenProperties DEF IsManager
<1>3. \A i \in 1..Len(new) :
          new[i] = a \/ \E j \in 1..Len(old) : old[j] = new[i]
  <2> HIDE DEF old
  <2>1. /\ Len(Append(old, a)) = Len(old) + 1
        /\ Append(old, a)[Len(old) + 1] = a
        /\ \A i \in 1..Len(old) : Append(old, a)[i] = old[i]
    BY <1>2, AppendProperties
  <2>2. QED
    BY <1>2, <2>1
<1>4. l \notin DOMAIN m.levels => Len(old) = 0
  OBVIOUS
<1>5. l \in DOMAIN m.levels => old = m.levels[l]
  OBVIOUS
<1> HIDE DEF new, old
<1>6. /\ DOMAIN levels = DOMAIN m.levels \cup {l}
      /\ \A k \in DOMAIN levels : IF k = l THEN levels[k] = new
                                  ELSE levels[k] = m.levels[k]
  BY DEF WithLevel
<1> HIDE DEF levels
<1>7. [m EXCEPT !.levels = levels].levels = levels
  BY DEF IsManager
<1>8. ASSUME NEW k, NEW b, Listed(levels, k, b)
      PROVE  Listed(m.levels, k, b) \/ (k = l /\ b = a)
  <2>1. CASE k = l
    <3>1. PICK i \in 1..Len(new) : new[i] = b
      BY <1>6, <1>8, <2>1 DEF Listed
    <3>2. CASE new[i] = a
      BY <2>1, <3>1, <3>2
    <3>3. ASSUME NEW j \in 1..Len(old), old[j] = new[i]
          PROVE  Listed(m.levels, k, b)
      BY <1>4, <1>5, <2>1, <3>1, <3>3 DEF Listed
    <3>4. QED
      BY <1>3, <3>1, <3>2, <3>3
  <2>2. CASE k # l
    BY <1>6, <1>8, <2>2 DEF Listed
  <2>3. QED
    BY <2>1, <2>2
<1>9. QED
  BY <1>1, <1>7, <1>8

------------------------------------------------------------------------------
(* What the critical sections do to players and lists *)

(* UpdateManager changes one room.                                         *)
LEMMA OneManager ==
    ASSUME GoodRooms(rooms), NEW r, NEW m, UpdateManager(r, m)
    PROVE  /\ DOMAIN rooms' = DOMAIN rooms
           /\ rooms'[with_any(r)].manager = m
           /\ \A k \in DOMAIN rooms \ {with_any(r)} : rooms'[k] = rooms[k]
<1> DEFINE w == with_any(r)
<1>1. w \in DOMAIN rooms /\ GoodRoom(rooms[w])
  BY WithAnyExists
<1>2. rooms' = [rooms EXCEPT ![w] = [rooms[w] EXCEPT !.manager = m]]
  BY DEF UpdateManager
<1> HIDE DEF w
<1>3. [rooms[w] EXCEPT !.manager = m].manager = m
  BY <1>1 DEF GoodRoom, IsRoom
<1>4. QED
  BY <1>1, <1>2, <1>3, Zenon DEF w

(* The first section of remove_with_any takes the account off the list of  *)
(* its level and changes no other membership.                              *)
LEMMA RemoveWithAnyLists ==
    ASSUME GoodRooms(rooms), TasksOK, NEW r, NEW a \in Account,
           RemoveWithAny(r, a)
    PROVE  \A k \in LevelId : \A b :
               Listed(rooms'[with_any(r)].manager.levels, k, b) =>
                   /\ Listed(rooms[with_any(r)].manager.levels, k, b)
                   /\ ~(k = level_id[a] /\ b = a)
<1> DEFINE w == with_any(r)
<1>1. w \in DOMAIN rooms /\ GoodRoom(rooms[w])
  BY WithAnyExists
<1>2. PICK owner \in NextOwners(rooms[w], a) :
          LET room == RemovePlayer(rooms[w], a, owner)
          IN  rooms' = [rooms EXCEPT ![w] =
                  IF level_id[a] = NoLevel THEN room
                  ELSE [room EXCEPT !.manager =
                                  remove_from_level(@, level_id[a], a)]]
  BY Zenon DEF RemoveWithAny
<1> DEFINE room == RemovePlayer(rooms[w], a, owner)
<1>3. GoodRoom(room) /\ room.manager = remove_player(rooms[w].manager, a)
  BY <1>1, RemovePlayerKeepsGood
<1>4. room.manager.levels = rooms[w].manager.levels
  BY <1>1, <1>3, RemovePlayerFacts DEF GoodRoom, IsRoom
<1>5. CASE level_id[a] = NoLevel
  <2>1. rooms'[w] = room
    BY <1>1, <1>2, <1>5
  <2>2. QED
    BY <1>4, <1>5, <2>1, LevelAssumption
<1>6. CASE level_id[a] # NoLevel
  <2> DEFINE m == remove_from_level(room.manager, level_id[a], a)
  <2>1. rooms'[w] = [room EXCEPT !.manager = m]
    BY <1>1, <1>2, <1>6
  <2>2. \A k, b : Listed(m.levels, k, b) =>
            Listed(room.manager.levels, k, b) /\ ~(k = level_id[a] /\ b = a)
    BY <1>3, RemoveFromLevelLists DEF GoodRoom, IsRoom
  <2> HIDE DEF m, room
  <2>3. rooms'[w].manager = m
    BY <1>3, <2>1 DEF GoodRoom, IsRoom
  <2>4. QED
    BY <1>4, <2>2, <2>3
<1>7. QED
  BY <1>5, <1>6

------------------------------------------------------------------------------
(* The inductive step, by the way a section changes the memberships *)

(* Where MemberInv puts a client that no handler is moving.                *)
LEMMA SettledIsInItsRoom ==
    ASSUME RoomInv, MemberInv, NEW a \in Account,
           phase[a] \in {"idle", "insert", "swap", "fragment", "panicked"}
    PROVE  /\ In(rooms, a) = {with_any(room_id[a])}
           /\ with_any(room_id[a]) \in DOMAIN rooms
           /\ a \in rooms[with_any(room_id[a])].manager.players
<1>1. In(rooms, a) = {with_any(room_id[a])}
  BY DEF MemberInv, AllAtHome, Home
<1>2. QED
  BY <1>1 DEF In

(* Sections that enter a client that is in no room into its room: the end  *)
(* of handle_login, of handle_join_room and of handle_leave_room.          *)
LEMMA Entered ==
    ASSUME RoomInv, MemberInv, NEW a \in Account,
           phase[a] \in {"offline", "enter", "reenter_global"},
           UpdateManager(room_id[a], create_player(ManagerOf(a), a)),
           Goto(a, "idle"), UNCHANGED <<drawn, room_id, level_id, arg>>
    PROVE  MemberInv'
<1>1. GoodRooms(rooms) /\ TasksOK
  BY RoomInvParts
<1> DEFINE w == with_any(room_id[a])
           m == create_player(ManagerOf(a), a)
<1>2. w \in DOMAIN rooms /\ GoodRoom(rooms[w])
  BY <1>1, WithAnyExists
<1>3. /\ m.players = rooms[w].manager.players \cup {a}
      /\ m.levels = rooms[w].manager.levels
  BY <1>2, CreatePlayerFacts DEF ManagerOf, GoodRoom, IsRoom
<1> HIDE DEF m
<1>4. /\ DOMAIN rooms' = DOMAIN rooms
      /\ rooms'[w].manager = m
      /\ \A k \in DOMAIN rooms \ {w} : rooms'[k] = rooms[k]
  BY <1>1, OneManager DEF m
<1>5. \A r : with_any(r)' = with_any(r)
  BY <1>4 DEF with_any
<1>6. /\ phase'[a] = "idle"
      /\ \A b \in Account \ {a} : phase'[b] = phase[b]
  BY <1>1 DEF Goto, TasksOK
<1> HIDE DEF w
<1>7. Reserved'
  BY <1>4, <1>6 DEF MemberInv, Reserved
<1>8. AtHome'
  BY <1>6 DEF MemberInv, AtHome
<1>9. AllAtHome'
  <2>1. In(rooms, a) = {}
    BY DEF MemberInv, AllAtHome, Home
  <2>2. In(rooms', a) = {w}
    BY <1>2, <1>3, <1>4, <2>1 DEF In
  <2>3. \A b \in Account \ {a} : In(rooms', b) = In(rooms, b)
    BY <1>2, <1>3, <1>4 DEF In
  <2>4. \A b \in Account \ {a} : Home(b)' = Home(b)
    BY <1>5, <1>6 DEF Home
  <2>5. Home(a)' = {w}
    BY <1>5, <1>6 DEF Home, w
  <2>6. QED
    BY <2>2, <2>3, <2>4, <2>5 DEF MemberInv, AllAtHome
<1>10. NoGhosts'
  BY <1>2, <1>3, <1>4 DEF MemberInv, NoGhosts
<1>11. QED
  BY <1>7, <1>8, <1>9, <1>10 DEF MemberInv

(* Sections that take a client out of its room: the start of cleanup, of   *)
(* handle_leave_room and the swap of handle_join_room.                     *)
LEMMA Left ==
    ASSUME RoomInv, MemberInv, NEW a \in Account, NEW p \in Pruning,
           NEW x \in {room_id[a], arg[a], Global},
           phase[a] \in {"idle", "swap"}, p = "leave_prune" => x = Global,
           RemoveWithAny(room_id[a], a), Goto(a, p),
           arg' = [arg EXCEPT ![a] = room_id[a]],
           room_id' = [room_id EXCEPT ![a] = x],
           UNCHANGED <<drawn, level_id>>
    PROVE  MemberInv'
<1>1. GoodRooms(rooms) /\ TasksOK
  BY RoomInvParts
<1> DEFINE w == with_any(room_id[a])
<1>2. In(rooms, a) = {w} /\ w \in DOMAIN rooms
  BY SettledIsInItsRoom
<1>3. /\ GoodRooms(rooms')
      /\ DOMAIN rooms' = DOMAIN rooms
      /\ \A k \in DOMAIN rooms \ {w} : rooms'[k] = rooms[k]
      /\ rooms'[w].manager.players = rooms[w].manager.players \ {a}
  BY <1>1, RemoveWithAnyFacts
<1>4. \A k \in LevelId : \A b : Listed(rooms'[w].manager.levels, k, b) =>
          Listed(rooms[w].manager.levels, k, b) /\ ~(k = level_id[a] /\ b = a)
  BY <1>1, RemoveWithAnyLists
<1>5. \A r : with_any(r)' = with_any(r)
  BY <1>3 DEF with_any
<1>6. /\ phase'[a] = p /\ arg'[a] = room_id[a] /\ room_id'[a] = x
      /\ \A b \in Account \ {a} :
             phase'[b] = phase[b] /\ arg'[b] = arg[b] /\ room_id'[b] = room_id[b]
  BY <1>1 DEF Goto, TasksOK
<1>7. w # Global => w = room_id[a]
  BY DEF with_any
<1> HIDE DEF w
<1>8. Reserved'
  <2>1. \A b \in Account : phase'[b] = "insert" =>
            b # a /\ phase[b] = "insert" /\ arg'[b] = arg[b] /\ arg[b] # Global
    BY <1>1, <1>6, RoomIdAssumption DEF Pruning, TasksOK
  <2>2. QED
    BY <1>3, <1>6, <2>1 DEF MemberInv, Reserved
<1>9. AtHome'
  BY <1>6 DEF MemberInv, AtHome, Pruning
<1>10. AllAtHome'
  <2>1. In(rooms', a) = {}
    BY <1>2, <1>3 DEF In
  <2>2. \A b \in Account \ {a} : In(rooms', b) = In(rooms, b)
    BY <1>2, <1>3 DEF In
  <2>3. \A b \in Account \ {a} : Home(b)' = Home(b)
    BY <1>5, <1>6 DEF Home
  <2>4. Home(a)' = {}
    BY <1>6 DEF Home, Pruning
  <2>5. QED
    BY <2>1, <2>2, <2>3, <2>4 DEF MemberInv, AllAtHome
<1>11. NoGhosts'
  <2> SUFFICES ASSUME NEW r \in DOMAIN rooms \ {Global}, NEW l \in LevelId,
                      NEW b \in Account,
                      Listed(rooms'[r].manager.levels, l, b)
               PROVE  /\ b \in rooms'[r].manager.players
                      /\ room_id'[b] = r /\ level_id'[b] = l
    BY <1>3 DEF NoGhosts
  <2>1. Listed(rooms[r].manager.levels, l, b)
    BY <1>3, <1>4
  <2>2. /\ b \in rooms[r].manager.players
        /\ room_id[b] = r /\ level_id[b] = l
    BY <2>1 DEF MemberInv, NoGhosts
  <2>3. b # a
    <3>1. b = a => r = w
      BY <1>2, <2>2 DEF In
    <3>2. QED
      BY <1>4, <2>2, <3>1
  <2>4. QED
    BY <1>2, <1>3, <1>6, <2>2, <2>3
<1>12. QED
  BY <1>8, <1>9, <1>10, <1>11 DEF MemberInv

(* Sections that delete the room that was left, if it is empty.            *)
LEMMA Pruned ==
    ASSUME RoomInv, MemberInv, NEW a \in Account, phase[a] \in Pruning,
           NEW p \in {"offline", "enter", "reenter_global"},
           NEW x \in {room_id[a], Global},
           p # "enter" => x = Global,
           MaybeRemoveRoom(arg[a]), Goto(a, p),
           arg' = [arg EXCEPT ![a] = Global],
           room_id' = [room_id EXCEPT ![a] = x],
           \A b \in Account \ {a} : level_id'[b] = level_id[b],
           UNCHANGED drawn
    PROVE  MemberInv'
<1>1. GoodRooms(rooms) /\ TasksOK
  BY RoomInvParts
<1>2. In(rooms, a) = {}
  BY DEF MemberInv, AllAtHome, Home, Pruning
<1>3. /\ GoodRooms(rooms')
      /\ DOMAIN rooms' \subseteq DOMAIN rooms
      /\ \A k \in DOMAIN rooms' : rooms'[k] = rooms[k]
      /\ \A k \in DOMAIN rooms \ DOMAIN rooms' :
             k # Global /\ rooms[k].manager.players = {}
  BY <1>1, MaybeRemoveRoomFacts
<1>4. /\ phase'[a] = p /\ arg'[a] = Global /\ room_id'[a] = x
      /\ \A b \in Account \ {a} :
             phase'[b] = phase[b] /\ arg'[b] = arg[b] /\ room_id'[b] = room_id[b]
  BY <1>1 DEF Goto, TasksOK
<1>5. \A b \in Account : In(rooms', b) = In(rooms, b)
  BY <1>3 DEF In
<1>6. Reserved'
  <2>1. \A b \in Account : phase'[b] = "insert" =>
            b # a /\ phase[b] = "insert" /\ arg'[b] = arg[b] /\ arg[b] # Global
    BY <1>1, <1>4, RoomIdAssumption DEF TasksOK
  <2>2. QED
    BY <1>3, <1>4, <2>1 DEF MemberInv, Reserved
<1>7. AtHome'
  BY <1>4 DEF MemberInv, AtHome
<1>8. AllAtHome'
  <2>1. ASSUME NEW b \in Account \ {a} PROVE Home(b)' = Home(b)
    <3>1. CASE phase[b] \in {"idle", "insert", "swap", "fragment", "panicked"}
      <4>1. /\ with_any(room_id[b]) \in DOMAIN rooms
            /\ b \in rooms[with_any(room_id[b])].manager.players
        BY <3>1, SettledIsInItsRoom
      <4>2. with_any(room_id[b])' = with_any(room_id[b])
        BY <1>3, <1>4, <4>1 DEF with_any
      <4>3. QED
        BY <1>4, <3>1, <4>2 DEF Home
    <3>2. CASE phase[b] \notin {"idle", "insert", "swap", "fragment", "panicked"}
      BY <1>4, <3>2 DEF Home
    <3>3. QED
      BY <3>1, <3>2
  <2>2. Home(a)' = {}
    BY <1>4 DEF Home
  <2>3. QED
    BY <1>2, <1>5, <2>1, <2>2 DEF MemberInv, AllAtHome
<1>9. NoGhosts'
  <2> SUFFICES ASSUME NEW r \in DOMAIN rooms' \ {Global}, NEW l \in LevelId,
                      NEW b \in Account,
                      Listed(rooms'[r].manager.levels, l, b)
               PROVE  /\ b \in rooms'[r].manager.players
                      /\ room_id'[b] = r /\ level_id'[b] = l
    BY DEF NoGhosts
  <2>1. /\ b \in rooms[r].manager.players
        /\ room_id[b] = r /\ level_id[b] = l
    BY <1>3 DEF MemberInv, NoGhosts
  <2>2. b # a
    BY <1>2, <1>3, <2>1 DEF In
  <2>3. QED
    BY <1>3, <1>4, <2>1, <2>2
<1>10. QED
  BY <1>6, <1>7, <1>8, <1>9 DEF MemberInv

(* Sections that move a client between the level lists of its room, or     *)
(* store its data there: handle_level_join, handle_level_leave,            *)
(* handle_player_data and handle_player_metadata.                          *)
LEMMA Moved ==
    ASSUME RoomInv, MemberInv, NEW a \in Account, phase[a] = "idle",
           NEW l \in LevelId \cup {NoLevel}, NEW m, NEW p \in {"idle", "fragment"},
           m.players = ManagerOf(a).players \cup {a},
           \A k \in LevelId : \A b : Listed(m.levels, k, b) =>
               \/ /\ Listed(ManagerOf(a).levels, k, b)
                  /\ ~(k = level_id[a] /\ b = a)
               \/ k = l /\ b = a,
           UpdateManager(room_id[a], m), Goto(a, p),
           level_id'[a] = l,
           \A b \in Account \ {a} : level_id'[b] = level_id[b],
           UNCHANGED <<drawn, room_id, arg>>
    PROVE  MemberInv'
<1>1. GoodRooms(rooms) /\ TasksOK
  BY RoomInvParts
<1> DEFINE w == with_any(room_id[a])
<1>2. /\ In(rooms, a) = {w} /\ w \in DOMAIN rooms
      /\ a \in rooms[w].manager.players
  BY SettledIsInItsRoom
<1>3. /\ DOMAIN rooms' = DOMAIN rooms
      /\ rooms'[w].manager = m
      /\ \A k \in DOMAIN rooms \ {w} : rooms'[k] = rooms[k]
  BY <1>1, OneManager
<1>4. \A k \in DOMAIN rooms :
          rooms'[k].manager.players = rooms[k].manager.players
  BY <1>2, <1>3, SMTT(30) DEF ManagerOf
<1>5. \A r : with_any(r)' = with_any(r)
  BY <1>3 DEF with_any
<1>6. /\ phase'[a] = p /\ level_id'[a] = l
      /\ \A b \in Account \ {a} :
             phase'[b] = phase[b] /\ level_id'[b] = level_id[b]
  BY <1>1 DEF Goto, TasksOK
<1>7. w # Global => w = room_id[a]
  BY DEF with_any
<1>8. ManagerOf(a) = rooms[w].manager
  BY DEF ManagerOf
<1> HIDE DEF w
<1>9. Reserved'
  BY <1>3, <1>6 DEF MemberInv, Reserved
<1>10. AtHome'
  BY <1>6 DEF MemberInv, AtHome
<1>11. AllAtHome'
  <2>1. \A b \in Account : In(rooms', b) = In(rooms, b)
    BY <1>3, <1>4 DEF In
  <2>2. \A b \in Account : Home(b)' = Home(b)
    BY <1>5, <1>6 DEF Home
  <2>3. QED
    BY <2>1, <2>2 DEF MemberInv, AllAtHome
<1>12. NoGhosts'
  <2> SUFFICES ASSUME NEW r \in DOMAIN rooms \ {Global}, NEW k \in LevelId,
                      NEW b \in Account,
                      Listed(rooms'[r].manager.levels, k, b)
               PROVE  /\ b \in rooms[r].manager.players
                      /\ room_id[b] = r /\ level_id'[b] = k
    BY <1>3, <1>4 DEF NoGhosts
  <2>1. CASE r = w /\ b = a /\ k = l
    BY <1>2, <1>6, <1>7, <2>1
  <2>2. CASE ~(r = w /\ b = a /\ k = l)
    <3>1. Listed(rooms[r].manager.levels, k, b)
      BY <1>3, <1>8, <2>2
    <3>2. /\ b \in rooms[r].manager.players
          /\ room_id[b] = r /\ level_id[b] = k
      BY <3>1 DEF MemberInv, NoGhosts
    <3>3. b # a
      <4>1. b = a => r = w
        BY <1>2, <3>2 DEF In
      <4>2. QED
        BY <1>3, <1>8, <2>2, <3>2, <4>1
    <3>4. QED
      BY <1>6, <3>2, <3>3
  <2>3. QED
    BY <2>1, <2>2
<1>13. QED
  BY <1>9, <1>10, <1>11, <1>12 DEF MemberInv

(* Sections that leave the players and the lists of every room alone, and  *)
(* every client where it is: a check of handle_join_room, a join of the    *)
(* same room, a forgotten room, the fragments, the settings.               *)
LEMMA Stayed ==
    ASSUME RoomInv, MemberInv, NEW a \in Account,
           phase[a] \in {"idle", "swap", "fragment"},
           NEW p \in {"idle", "swap", "fragment", "panicked"},
           NEW x, x = room_id[a] \/ (x = Global /\ room_id[a] \notin DOMAIN rooms),
           NEW y \in DOMAIN rooms \cup {arg[a]},
           DOMAIN rooms' = DOMAIN rooms,
           \A k \in DOMAIN rooms : rooms'[k].manager = rooms[k].manager,
           Goto(a, p),
           arg' = [arg EXCEPT ![a] = y],
           room_id' = [room_id EXCEPT ![a] = x],
           UNCHANGED <<drawn, level_id>>
    PROVE  MemberInv'
<1>1. GoodRooms(rooms) /\ TasksOK
  BY RoomInvParts
<1>2. /\ phase'[a] = p /\ arg'[a] = y /\ room_id'[a] = x
      /\ \A b \in Account \ {a} :
             phase'[b] = phase[b] /\ arg'[b] = arg[b] /\ room_id'[b] = room_id[b]
  BY <1>1 DEF Goto, TasksOK
<1>3. \A r : with_any(r)' = with_any(r)
  BY DEF with_any
<1>4. with_any(x) = with_any(room_id[a])
  BY DEF with_any
<1>5. Reserved'
  <2>1. \A b \in Account : phase'[b] = "insert" =>
            b # a /\ phase[b] = "insert" /\ arg'[b] = arg[b] /\ arg[b] # Global
    BY <1>1, <1>2, RoomIdAssumption DEF TasksOK
  <2>2. QED
    BY <1>2, <2>1 DEF MemberInv, Reserved
<1>6. AtHome'
  BY <1>2 DEF MemberInv, AtHome
<1>7. AllAtHome'
  <2>1. \A b \in Account : In(rooms', b) = In(rooms, b)
    BY DEF In
  <2>2. \A b \in Account \ {a} : Home(b)' = Home(b)
    BY <1>2, <1>3, Zenon DEF Home
  <2>3. Home(a)' = Home(a)
    BY <1>2, <1>3, <1>4, Zenon DEF Home
  <2>4. QED
    BY <2>1, <2>2, <2>3 DEF MemberInv, AllAtHome
<1>8. NoGhosts'
  <2> SUFFICES ASSUME NEW r \in DOMAIN rooms \ {Global}, NEW l \in LevelId,
                      NEW b \in Account,
                      Listed(rooms[r].manager.levels, l, b)
               PROVE  /\ b \in rooms[r].manager.players
                      /\ room_id'[b] = r /\ level_id[b] = l
    BY DEF NoGhosts
  <2>1. /\ b \in rooms[r].manager.players
        /\ room_id[b] = r /\ level_id[b] = l
    BY DEF MemberInv, NoGhosts
  <2>2. QED
    BY <1>2, <2>1
<1>9. QED
  BY <1>5, <1>6, <1>7, <1>8 DEF MemberInv

(* create_room draws an id nobody holds: the only step that needs FreshIds. *)
LEMMA Picked ==
    ASSUME RoomInv, MemberInv, FreshIds, NEW a \in Account, NEW r \in RoomId,
           CreateRoomPick(a, r)
    PROVE  MemberInv'
<1>1. TasksOK
  BY RoomInvParts
<1>2. /\ phase[a] = "idle" /\ room_id[a] = Global
      /\ r \notin DOMAIN rooms /\ r \notin drawn /\ drawn' = drawn \cup {r}
      /\ UNCHANGED <<rooms, room_id, level_id>>
  BY DEF CreateRoomPick
<1>3. /\ phase'[a] = "insert" /\ arg'[a] = r
      /\ \A b \in Account \ {a} : phase'[b] = phase[b] /\ arg'[b] = arg[b]
  BY <1>1 DEF CreateRoomPick, Goto, TasksOK
<1>4. r # Global
  BY RoomIdAssumption
<1>5. Reserved'
  <2>1. /\ DOMAIN rooms \subseteq drawn' \cup {Global}
        /\ \A b \in Account : /\ arg'[b] \in drawn' \cup {Global}
                              /\ room_id[b] \in drawn' \cup {Global}
    BY <1>2, <1>3 DEF MemberInv, Reserved
  <2>2. ASSUME NEW b \in Account, phase'[b] = "insert"
        PROVE  /\ arg'[b] \notin DOMAIN rooms
               /\ \A c \in Account : /\ room_id[c] # arg'[b]
                                     /\ c # b => arg'[c] # arg'[b]
    <3>1. CASE b = a
      BY <1>2, <1>3, <1>4, <3>1 DEF MemberInv, Reserved
    <3>2. CASE b # a
      <4>1. arg[b] # r
        BY <1>2, <1>4 DEF MemberInv, Reserved
      <4>2. QED
        BY <1>3, <2>2, <3>2, <4>1 DEF MemberInv, Reserved
    <3>3. QED
      BY <3>1, <3>2
  <2>3. QED
    BY <1>2, <2>1, <2>2 DEF Reserved
<1>6. AtHome'
  BY <1>2, <1>3 DEF MemberInv, AtHome
<1>7. AllAtHome'
  <2>1. \A x : with_any(x)' = with_any(x)
    BY <1>2 DEF with_any
  <2>2. \A b \in Account : Home(b)' = Home(b)
    BY <1>2, <1>3, <2>1 DEF Home
  <2>3. QED
    BY <1>2, <2>2 DEF MemberInv, AllAtHome
<1>8. NoGhosts'
  BY <1>2 DEF MemberInv, NoGhosts
<1>9. QED
  BY <1>5, <1>6, <1>7, <1>8 DEF MemberInv

(* _create_room inserts the room under an id that moves nobody's with_any. *)
LEMMA Inserted ==
    ASSUME RoomInv, MemberInv, NEW a \in Account, NEW protected, NEW s,
           CreateRoomInsert(a, protected, s)
    PROVE  MemberInv'
<1>1. GoodRooms(rooms) /\ TasksOK
  BY RoomInvParts
<1> DEFINE m == create_player(NoPlayers, a)
           room == NewRoom(a, protected, s, m)
<1>2. /\ phase[a] = "insert" /\ UNCHANGED <<drawn, room_id, level_id, arg>>
      /\ rooms' = [k \in DOMAIN rooms \cup {arg[a]} |->
                      IF k = arg[a] THEN room ELSE rooms[k]]
  BY DEF CreateRoomInsert
<1>3. /\ room.manager.players = {a}
      /\ \A l, b : ~Listed(room.manager.levels, l, b)
  BY DEF NewRoom, create_player, NoPlayers, Listed
<1> HIDE DEF room
<1>4. /\ arg[a] \in RoomId /\ arg[a] # Global /\ arg[a] \notin DOMAIN rooms
      /\ arg[a] \in drawn
      /\ \A b \in Account : /\ room_id[b] # arg[a]
                            /\ b # a => arg[b] # arg[a]
  BY <1>1, <1>2, RoomIdAssumption DEF TasksOK, MemberInv, Reserved
<1>5. /\ DOMAIN rooms' = DOMAIN rooms \cup {arg[a]}
      /\ rooms'[arg[a]] = room
      /\ \A k \in DOMAIN rooms : rooms'[k] = rooms[k]
  BY <1>2, <1>4
<1>6. /\ phase'[a] = "leave_global"
      /\ \A b \in Account \ {a} : phase'[b] = phase[b]
  BY <1>1 DEF CreateRoomInsert, Goto, TasksOK
<1>7. \A b \in Account : with_any(room_id[b])' = with_any(room_id[b])
  BY <1>2, <1>4, <1>5 DEF with_any
<1>8. Reserved'
  BY <1>2, <1>4, <1>5, <1>6 DEF MemberInv, Reserved
<1>9. AtHome'
  BY <1>2, <1>4, <1>6 DEF MemberInv, AtHome
<1>10. AllAtHome'
  <2>1. \A b \in Account \ {a} : In(rooms', b) = In(rooms, b)
    BY <1>3, <1>4, <1>5 DEF In
  <2>2. \A b \in Account \ {a} : Home(b)' = Home(b)
    BY <1>2, <1>6, <1>7 DEF Home
  <2>3. room_id[a] = Global /\ In(rooms, a) = {with_any(room_id[a])}
    BY <1>2, SettledIsInItsRoom DEF MemberInv, AtHome
  <2>4. In(rooms, a) = {Global}
    BY <2>3 DEF with_any
  <2>5. In(rooms', a) = {Global, arg[a]}
    BY <1>3, <1>4, <1>5, <2>4 DEF In
  <2>6. Home(a)' = {Global, arg[a]}
    BY <1>2, <1>6 DEF Home
  <2>7. QED
    BY <2>1, <2>2, <2>5, <2>6 DEF MemberInv, AllAtHome
<1>11. NoGhosts'
  BY <1>2, <1>3, <1>5 DEF MemberInv, NoGhosts
<1>12. QED
  BY <1>8, <1>9, <1>10, <1>11 DEF MemberInv

(* create_room takes the client out of the global room and into its own.   *)
LEMMA MovedIn ==
    ASSUME RoomInv, MemberInv, NEW a \in Account, CreateRoomLeaveGlobal(a)
    PROVE  MemberInv'
<1>1. GoodRooms(rooms) /\ TasksOK
  BY RoomInvParts
<1>2. PICK owner \in NextOwners(rooms[Global], a) :
          rooms' = [rooms EXCEPT ![Global] =
                        RemovePlayer(rooms[Global], a, owner)]
  BY Zenon DEF CreateRoomLeaveGlobal
<1> DEFINE room == RemovePlayer(rooms[Global], a, owner)
<1>3. Global \in DOMAIN rooms /\ GoodRoom(rooms[Global])
  BY <1>1 DEF GoodRooms
<1>4. room.manager = remove_player(rooms[Global].manager, a)
  BY <1>3, RemovePlayerKeepsGood
<1>5. room.manager.players = rooms[Global].manager.players \ {a}
  BY <1>3, <1>4, RemovePlayerFacts DEF GoodRoom, IsRoom
<1> HIDE DEF room
<1>6. /\ DOMAIN rooms' = DOMAIN rooms
      /\ rooms'[Global] = room
      /\ \A k \in DOMAIN rooms \ {Global} : rooms'[k] = rooms[k]
  BY <1>2, <1>3 DEF room
<1>7. phase[a] = "leave_global" /\ UNCHANGED <<drawn, level_id>>
  BY DEF CreateRoomLeaveGlobal
<1>8. /\ phase'[a] = "idle" /\ arg'[a] = Global /\ room_id'[a] = arg[a]
      /\ \A b \in Account \ {a} :
             phase'[b] = phase[b] /\ arg'[b] = arg[b] /\ room_id'[b] = room_id[b]
  BY <1>1 DEF CreateRoomLeaveGlobal, Goto, TasksOK
<1>9. /\ room_id[a] = Global /\ arg[a] \in RoomId /\ arg[a] # Global
      /\ In(rooms, a) = {Global, arg[a]}
  BY <1>7, RoomIdAssumption DEF MemberInv, AtHome, AllAtHome, Home
<1>10. arg[a] \in DOMAIN rooms
  BY <1>9 DEF In
<1>11. \A r : with_any(r)' = with_any(r)
  BY <1>6 DEF with_any
<1>12. Reserved'
  <2>1. \A b \in Account : phase'[b] = "insert" =>
            b # a /\ phase[b] = "insert" /\ arg'[b] = arg[b] /\ arg[b] # Global
    BY <1>1, <1>8, RoomIdAssumption DEF TasksOK
  <2>2. QED
    BY <1>6, <1>7, <1>8, <2>1 DEF MemberInv, Reserved
<1>13. AtHome'
  BY <1>8 DEF MemberInv, AtHome
<1>14. AllAtHome'
  <2>1. \A b \in Account \ {a} : In(rooms', b) = In(rooms, b)
    BY <1>3, <1>5, <1>6 DEF In
  <2>2. \A b \in Account \ {a} : Home(b)' = Home(b)
    BY <1>8, <1>11 DEF Home
  <2>3. In(rooms', a) = {arg[a]}
    BY <1>3, <1>5, <1>6, <1>9 DEF In
  <2>4. Home(a)' = {with_any(arg[a])}
    BY <1>8, <1>11 DEF Home
  <2>5. with_any(arg[a]) = arg[a]
    BY <1>10 DEF with_any
  <2>6. QED
    BY <2>1, <2>2, <2>3, <2>4, <2>5 DEF MemberInv, AllAtHome
<1>15. NoGhosts'
  <2> SUFFICES ASSUME NEW r \in DOMAIN rooms \ {Global}, NEW l \in LevelId,
                      NEW b \in Account,
                      Listed(rooms[r].manager.levels, l, b)
               PROVE  /\ b \in rooms[r].manager.players
                      /\ room_id'[b] = r /\ level_id[b] = l
    BY <1>6, <1>7 DEF NoGhosts
  <2>1. /\ b \in rooms[r].manager.players
        /\ room_id[b] = r /\ level_id[b] = l
    BY DEF MemberInv, NoGhosts
  <2>2. QED
    BY <1>8, <1>9, <2>1
<1>16. QED
  BY <1>12, <1>13, <1>14, <1>15 DEF MemberInv

(* handle_login, cleanup and their second halves.                          *)
LEMMA SessionSteps ==
    ASSUME RoomInv, MemberInv, NEW a \in Account,
           Login(a) \/ Cleanup(a) \/ CleanupPrune(a)
    PROVE  MemberInv'
<1>1. GoodRooms(rooms) /\ TasksOK
  BY RoomInvParts
<1>2. CASE Login(a)
  <2>1. phase[a] = "offline"
    BY <1>2 DEF Login
  <2>2. room_id[a] = Global
    BY <2>1 DEF MemberInv, AtHome
  <2>3. ManagerOf(a) = rooms[Global].manager
    BY <1>1, <2>2 DEF ManagerOf, with_any
  <2>4. QED
    BY <1>2, <2>1, <2>2, <2>3, Entered DEF Login
<1>3. CASE Cleanup(a)
  <2>1. room_id' = [room_id EXCEPT ![a] = room_id[a]]
    BY <1>1, <1>3 DEF Cleanup, TasksOK
  <2>2. "cleanup_prune" \in Pruning
    BY DEF Pruning
  <2>3. QED
    BY <1>3, <2>1, <2>2, Left, Zenon DEF Cleanup
<1>4. CASE CleanupPrune(a)
  <2>1. phase[a] \in Pruning
    BY <1>4 DEF CleanupPrune, Pruning
  <2>2. \A b \in Account \ {a} : level_id'[b] = level_id[b]
    BY <1>1, <1>4 DEF CleanupPrune, TasksOK
  <2>3. QED
    BY <1>4, <2>1, <2>2, Pruned, Zenon DEF CleanupPrune
<1>5. QED
  BY <1>2, <1>3, <1>4

(* handle_create_room.                                                     *)
LEMMA CreateRoomSteps ==
    ASSUME RoomInv, MemberInv, FreshIds, NEW a \in Account, CreateRoom(a)
    PROVE  MemberInv'
<1>1. GoodRooms(rooms) /\ TasksOK
  BY RoomInvParts
<1>2. CASE CreateRoomAgain(a)
  <2>1. /\ phase' = [phase EXCEPT ![a] = "idle"]
        /\ arg' = [arg EXCEPT ![a] = arg[a]]
    BY <1>1, <1>2 DEF CreateRoomAgain, TasksOK
  <2>2. QED
    BY <1>2, <2>1, Stayed, Zenon DEF CreateRoomAgain, Goto
<1>3. QED
  BY <1>2, Picked, Inserted, MovedIn DEF CreateRoom

(* handle_join_room.                                                       *)
LEMMA JoinRoomSteps ==
    ASSUME RoomInv, MemberInv, NEW a \in Account, JoinRoom(a)
    PROVE  MemberInv'
<1>1. GoodRooms(rooms) /\ TasksOK
  BY RoomInvParts
<1>2. room_id = [room_id EXCEPT ![a] = room_id[a]]
  BY <1>1 DEF TasksOK
<1>3. ASSUME NEW r \in RoomId, NEW knows, JoinRoomCheck(a, r, knows)
      PROVE  MemberInv'
  BY <1>2, <1>3, Stayed, Zenon DEF JoinRoomCheck
<1>4. CASE JoinRoomSwap(a)
  <2>1. CASE room_id[a] = arg[a]
    <3>1. Global \in DOMAIN rooms
      BY <1>1 DEF GoodRooms
    <3>2. QED
      BY <1>4, <2>1, <3>1, Stayed, Zenon DEF JoinRoomSwap
  <2>2. CASE room_id[a] # arg[a]
    <3>1. "join_prune" \in Pruning
      BY DEF Pruning
    <3>2. QED
      BY <1>4, <2>2, <3>1, Left, Zenon DEF JoinRoomSwap
  <2>3. QED
    BY <2>1, <2>2
<1>5. CASE JoinRoomPrune(a)
  <2>1. phase[a] \in Pruning
    BY <1>5 DEF JoinRoomPrune, Pruning
  <2>2. QED
    BY <1>2, <1>5, <2>1, Pruned, Zenon DEF JoinRoomPrune
<1>6. CASE JoinRoomEnter(a)
  BY <1>6, Entered DEF JoinRoomEnter
<1>7. QED
  BY <1>3, <1>4, <1>5, <1>6 DEF JoinRoom

(* handle_leave_room.                                                      *)
LEMMA LeaveRoomSteps ==
    ASSUME RoomInv, MemberInv, NEW a \in Account, LeaveRoomStep(a)
    PROVE  MemberInv'
<1>1. GoodRooms(rooms) /\ TasksOK
  BY RoomInvParts
<1>2. room_id = [room_id EXCEPT ![a] = room_id[a]]
  BY <1>1 DEF TasksOK
<1>3. CASE LeaveRoom(a)
  <2>1. "leave_prune" \in Pruning
    BY DEF Pruning
  <2>2. QED
    BY <1>3, <2>1, Left, Zenon DEF LeaveRoom
<1>4. CASE LeaveRoomPrune(a)
  <2>1. phase[a] \in Pruning /\ room_id[a] = Global
    BY <1>4 DEF LeaveRoomPrune, Pruning, MemberInv, AtHome
  <2>2. QED
    BY <1>2, <1>4, <2>1, Pruned, Zenon DEF LeaveRoomPrune
<1>5. CASE LeaveRoomEnterGlobal(a)
  <2>1. phase[a] = "reenter_global"
    BY <1>5 DEF LeaveRoomEnterGlobal
  <2>2. room_id[a] = Global
    BY <2>1 DEF MemberInv, AtHome
  <2>3. ManagerOf(a) = rooms[Global].manager
    BY <1>1, <2>2 DEF ManagerOf, with_any
  <2>4. QED
    BY <1>5, <2>1, <2>2, <2>3, Entered DEF LeaveRoomEnterGlobal
<1>6. QED
  BY <1>3, <1>4, <1>5 DEF LeaveRoomStep

(* handle_update_room_settings.                                            *)
LEMMA SettingsSteps ==
    ASSUME RoomInv, MemberInv, NEW a \in Account, NEW s,
           UpdateRoomSettings(a, s)
    PROVE  MemberInv'
<1>1. GoodRooms(rooms) /\ TasksOK
  BY RoomInvParts
<1> DEFINE w == with_any(room_id[a])
<1>2. w \in DOMAIN rooms /\ GoodRoom(rooms[w])
  BY <1>1, WithAnyExists
<1>3. /\ phase[a] = "idle"
      /\ rooms' = [rooms EXCEPT ![w] = [rooms[w] EXCEPT !.settings = s]]
      /\ UNCHANGED <<drawn, level_id>>
  BY DEF UpdateRoomSettings
<1>4. /\ phase' = [phase EXCEPT ![a] = "idle"]
      /\ arg' = [arg EXCEPT ![a] = arg[a]]
      /\ room_id' = [room_id EXCEPT ![a] = room_id[a]]
  BY <1>1, <1>3 DEF UpdateRoomSettings, TasksOK
<1> HIDE DEF w
<1>5. /\ DOMAIN rooms' = DOMAIN rooms
      /\ \A k \in DOMAIN rooms : rooms'[k].manager = rooms[k].manager
  BY <1>2, <1>3 DEF GoodRoom, IsRoom
<1>6. QED
  BY <1>3, <1>4, <1>5, Stayed, Zenon DEF Goto

(* handle_level_join, handle_level_leave, handle_player_data, its second   *)
(* read, and handle_player_metadata.                                       *)
LEMMA LevelSteps ==
    ASSUME RoomInv, MemberInv, NEW a \in Account, OnLevel(a)
    PROVE  MemberInv'
<1>1. GoodRooms(rooms) /\ TasksOK
  BY RoomInvParts
<1> DEFINE old == ManagerOf(a)
<1>2. GoodRoom(rooms[with_any(room_id[a])])
  BY <1>1, WithAnyExists
<1>3. IsManager(old) /\ WellFormedLists(old.levels)
  BY <1>2 DEF ManagerOf, GoodRoom, IsRoom
<1>4. phase[a] = "idle" => a \in old.players
  BY SettledIsInItsRoom DEF ManagerOf
<1> HIDE DEF old
<1>5. /\ level_id[a] \in LevelId \cup {NoLevel}
      /\ level_id \in [Account -> LevelId \cup {NoLevel}]
      /\ phase = [phase EXCEPT ![a] = phase[a]]
      /\ arg = [arg EXCEPT ![a] = arg[a]]
      /\ room_id = [room_id EXCEPT ![a] = room_id[a]]
  BY <1>1 DEF TasksOK
<1>6. ASSUME NEW l \in LevelId \cup {NoLevel}, LevelJoin(a, l)
      PROVE  MemberInv'
  <2> DEFINE left == IF level_id[a] = NoLevel THEN old
                     ELSE remove_from_level(old, level_id[a], a)
             m == IF l = NoLevel THEN left ELSE add_to_level(left, l, a)
  <2>1. /\ phase[a] = "idle" /\ UpdateManager(room_id[a], m)
        /\ level_id'[a] = l
        /\ \A b \in Account \ {a} : level_id'[b] = level_id[b]
        /\ UNCHANGED phase /\ UNCHANGED <<drawn, room_id, arg>>
    BY <1>5, <1>6 DEF LevelJoin, old
  <2>2. IsManager(left) /\ left.players = old.players
    BY <1>3, RemoveFromLevelFacts
  <2>3. \A k \in LevelId : \A b : Listed(left.levels, k, b) =>
            Listed(old.levels, k, b) /\ ~(k = level_id[a] /\ b = a)
    BY <1>3, RemoveFromLevelLists, LevelAssumption
  <2> HIDE DEF left
  <2>4. m.players = old.players
    BY <2>2, AddToLevelFacts
  <2>5. \A k \in LevelId : \A b : Listed(m.levels, k, b) =>
            \/ Listed(old.levels, k, b) /\ ~(k = level_id[a] /\ b = a)
            \/ k = l /\ b = a
    BY <2>2, <2>3, AddToLevelLists
  <2> HIDE DEF m
  <2>6. PICK p \in {"idle", "fragment"} : Goto(a, p)
    BY <1>5, <2>1 DEF Goto
  <2>7. m.players = old.players \cup {a}
    BY <1>4, <2>1, <2>4
  <2>8. QED
    BY <2>1, <2>5, <2>6, <2>7, Moved DEF old
<1>7. CASE LevelLeave(a)
  <2> DEFINE m == remove_from_level(old, level_id[a], a)
  <2>1. /\ phase[a] = "idle" /\ UpdateManager(room_id[a], m)
        /\ level_id'[a] = NoLevel
        /\ \A b \in Account \ {a} : level_id'[b] = level_id[b]
        /\ UNCHANGED phase /\ UNCHANGED <<drawn, room_id, arg>>
    BY <1>5, <1>7 DEF LevelLeave, old
  <2>2. m.players = old.players \cup {a}
    BY <1>3, <1>4, <2>1, RemoveFromLevelFacts
  <2>3. \A k \in LevelId : \A b : Listed(m.levels, k, b) =>
            \/ Listed(old.levels, k, b) /\ ~(k = level_id[a] /\ b = a)
            \/ k = NoLevel /\ b = a
    BY <1>3, RemoveFromLevelLists
  <2> HIDE DEF m
  <2>4. PICK p \in {"idle", "fragment"} : Goto(a, p)
    BY <1>5, <2>1 DEF Goto
  <2>5. NoLevel \in LevelId \cup {NoLevel}
    OBVIOUS
  <2>6. QED
    BY <2>1, <2>2, <2>3, <2>4, <2>5, Moved DEF old
<1>8. CASE PlayerData(a) \/ PlayerMetadata(a)
  <2> DEFINE m == set_player_data(old, a)
  <2>1. /\ phase[a] = "idle" /\ UpdateManager(room_id[a], m)
        /\ UNCHANGED <<drawn, room_id, level_id, arg>>
    BY <1>8 DEF PlayerData, PlayerMetadata, old
  <2>2. PICK p \in {"idle", "fragment"} : Goto(a, p)
    <3>1. CASE PlayerData(a)
      BY <3>1 DEF PlayerData
    <3>2. CASE PlayerMetadata(a)
      BY <1>5, <2>1, <3>2 DEF PlayerMetadata, Goto
    <3>3. QED
      BY <1>8, <3>1, <3>2
  <2>3. m.players = old.players \cup {a} /\ m.levels = old.levels
    BY <1>3, CreatePlayerFacts
  <2> HIDE DEF m
  <2>4. \A k \in LevelId : \A b : Listed(m.levels, k, b) =>
            \/ Listed(old.levels, k, b) /\ ~(k = level_id[a] /\ b = a)
            \/ k = level_id[a] /\ b = a
    BY <2>3
  <2>5. QED
    BY <1>5, <2>1, <2>2, <2>3, <2>4, Moved DEF old
<1>9. CASE SendFragments(a)
  <2>1. /\ phase[a] = "fragment"
        /\ UNCHANGED <<rooms, drawn, room_id, level_id, arg>>
    BY <1>9 DEF SendFragments
  <2>2. PICK p \in {"idle", "panicked"} : Goto(a, p)
    BY <1>9 DEF SendFragments
  <2>3. QED
    BY <1>5, <2>1, <2>2, Stayed
<1>10. QED
  BY <1>6, <1>7, <1>8, <1>9 DEF OnLevel

------------------------------------------------------------------------------
(* The theorems *)

(* A server that has just started.                                         *)
LEMMA MemberInvInit == Init => MemberInv
<1> SUFFICES ASSUME Init PROVE MemberInv
  OBVIOUS
<1>1. GlobalRoom.manager.players = {} /\ DOMAIN GlobalRoom.manager.levels = {}
  BY DEF GlobalRoom, NewRoom, NoPlayers
<1> HIDE DEF GlobalRoom
<1>2. Reserved /\ AtHome /\ NoGhosts
  BY DEF Init, Reserved, AtHome, NoGhosts
<1>3. AllAtHome
  BY <1>1 DEF Init, AllAtHome, In, Home
<1>4. QED
  BY <1>2, <1>3 DEF MemberInv

(* Every step of every task.                                               *)
LEMMA MemberInvStep ==
    ASSUME FreshIds, RoomInv, MemberInv, [Next]_vars
    PROVE  MemberInv'
<1>1. CASE UNCHANGED vars
  BY <1>1 DEF vars, MemberInv, Reserved, AtHome, AllAtHome, Home, with_any,
              NoGhosts
<1>2. ASSUME NEW a \in Account, Step(a) PROVE MemberInv'
  BY <1>2, SessionSteps, CreateRoomSteps, JoinRoomSteps, LeaveRoomSteps,
     SettingsSteps, LevelSteps DEF Step
<1>3. QED
  BY <1>1, <1>2 DEF Next

(* MemberInv holds in every reachable state when no id is drawn twice.     *)
THEOREM Membership ==
    ASSUME FreshIds
    PROVE  Spec => []MemberInv
<1>1. Init => MemberInv
  BY MemberInvInit
<1>2. RoomInv /\ MemberInv /\ [Next]_vars => MemberInv'
  BY MemberInvStep
<1>3. QED
  BY <1>1, <1>2, RoomSafety, PTL DEF Spec

(* A client is in exactly the room with_any finds for it, whatever the     *)
(* number of clients that create, join, leave and delete rooms at once.    *)
THEOREM EveryoneInOneRoom ==
    ASSUME FreshIds
    PROVE  Spec => []ExactlyOneRoom
<1>1. MemberInv => ExactlyOneRoom
  BY DEF MemberInv, AllAtHome, In, Home, ExactlyOneRoom, RoomsOf
<1>2. QED
  BY <1>1, Membership, PTL

(* Nobody is left behind on a level of a room by switching rooms, leaving, *)
(* disconnecting or changing levels.                                       *)
THEOREM NobodyLeftBehind ==
    ASSUME FreshIds
    PROVE  Spec => []NoGhostsOnLevels
<1>1. RoomInv /\ MemberInv => NoGhostsOnLevels
  <2> SUFFICES ASSUME RoomInv, MemberInv,
                      NEW r \in DOMAIN rooms \ {Global},
                      NEW l \in DOMAIN rooms[r].manager.levels,
                      NEW i \in 1..Len(rooms[r].manager.levels[l])
               PROVE  LET a == rooms[r].manager.levels[l][i]
                      IN  /\ a \in rooms[r].manager.players
                          /\ room_id[a] = r /\ level_id[a] = l
    BY DEF NoGhostsOnLevels
  <2> DEFINE a == rooms[r].manager.levels[l][i]
  <2>1. IsManager(rooms[r].manager)
    BY RoomInvParts DEF GoodRooms, GoodRoom, IsRoom
  <2>2. l \in LevelId /\ rooms[r].manager.levels[l] \in Seq(Account)
    BY <2>1 DEF IsManager
  <2>3. a \in Account
    BY <2>2, ElementOfSeq
  <2>4. Listed(rooms[r].manager.levels, l, a)
    BY DEF Listed
  <2>5. QED
    BY <2>2, <2>3, <2>4 DEF MemberInv, NoGhosts
<1>2. QED
  BY <1>1, Membership, RoomSafety, PTL

=============================================================================
