------------------------- MODULE RoomManagerProofs --------------------------
(***************************************************************************)
(* The safety invariants of the rooms of the game server, proved for any   *)
(* set of accounts, room ids and levels.  The conjunction RoomInv of the   *)
(* five invariants is inductive: the fallback of with_any is harmless      *)
(* because the global room has no owner (GlobalIsNeutral), and a room is   *)
(* emptied only by a task that then holds its id (EmptyRoomIsBeingRemoved).*)
(*                                                                         *)
(* First, what the operations of the level manager of a room do: they keep *)
(* its type, keep the level lists non-empty and free of duplicates, and    *)
(* change the player map only as they say.                                 *)
(***************************************************************************)
EXTENDS RoomManager, NaturalsInduction, WellFoundedInduction,
        SequenceTheorems, TLAPS

------------------------------------------------------------------------------
(* Lists *)

(* A non-empty set of naturals has a least element, so Min returns one.    *)
LEMMA MinOfNaturals ==
    ASSUME NEW I, I \subseteq Nat, I # {}
    PROVE  Min(I) \in I
<1> DEFINE R == OpToRel(<, Nat)
<1>1. \E x \in I : \A y \in I : ~(<<y, x>> \in R)
  BY NatLessThanWellFounded, WFMin, Zenon
<1>2. PICK x \in I : \A y \in I : ~(<<y, x>> \in R)
  BY <1>1, Zenon
<1>3. \A u, v \in Nat : u < v => <<u, v>> \in R
  BY DEF OpToRel
<1> HIDE DEF R
<1>4. ASSUME NEW y \in I PROVE x =< y
  <2>1. x \in Nat /\ y \in Nat
    OBVIOUS
  <2>2. ~(y < x)
    BY <1>2, <1>3, <2>1, Zenon
  <2>3. QED
    BY <2>1, <2>2
<1>5. QED
  BY <1>4, Zenon DEF Min

(* RemoveAt, what Vec::remove does: one element less, the others in order. *)
LEMMA RemoveAtFacts ==
    ASSUME NEW S, NEW s \in Seq(S), NEW n \in 1..Len(s)
    PROVE  /\ RemoveAt(s, n) \in Seq(S)
           /\ Len(RemoveAt(s, n)) = Len(s) - 1
           /\ \A i \in 1..Len(s) - 1 :
                  RemoveAt(s, n)[i] = IF i < n THEN s[i] ELSE s[i + 1]
<1> DEFINE s1 == SubSeq(s, 1, n - 1)
           s2 == SubSeq(s, n + 1, Len(s))
<1>1. Len(s) \in Nat /\ n \in Nat /\ \A i \in 1..Len(s) : s[i] \in S
  BY LenProperties, ElementOfSeq
<1>2. /\ s1 \in Seq(S) /\ Len(s1) = n - 1
      /\ \A i \in 1..n - 1 : s1[i] = s[i]
  BY <1>1, SubSeqProperties
<1>3. /\ s2 \in Seq(S) /\ Len(s2) = Len(s) - n
      /\ \A i \in 1..Len(s) - n : s2[i] = s[n + i]
  <2>1. \A i \in n + 1 .. Len(s) : s[i] \in S
    BY <1>1
  <2>2. /\ s2 \in Seq(S)
        /\ Len(s2) = IF n + 1 <= Len(s) THEN Len(s) - (n + 1) + 1 ELSE 0
        /\ \A i \in 1..Len(s) - (n + 1) + 1 : s2[i] = s[n + 1 + i - 1]
    BY <1>1, <2>1, SubSeqProperties
  <2>3. QED
    BY <1>1, <2>2
<1>4. RemoveAt(s, n) = s1 \o s2
  BY DEF RemoveAt
<1> HIDE DEF s1, s2
<1>5. /\ s1 \o s2 \in Seq(S) /\ Len(s1 \o s2) = Len(s1) + Len(s2)
      /\ \A i \in 1..Len(s1) + Len(s2) :
             (s1 \o s2)[i] = IF i <= Len(s1) THEN s1[i] ELSE s2[i - Len(s1)]
  BY <1>2, <1>3, ConcatProperties, Zenon
<1>6. ASSUME NEW i \in 1..Len(s) - 1
      PROVE  (s1 \o s2)[i] = IF i < n THEN s[i] ELSE s[i + 1]
  <2>1. i \in 1..Len(s1) + Len(s2)
    BY <1>1, <1>2, <1>3
  <2>2. CASE i < n
    <3>1. i <= Len(s1) /\ i \in 1..n - 1
      BY <1>1, <1>2, <2>2
    <3>2. QED
      BY <1>2, <1>5, <2>1, <2>2, <3>1
  <2>3. CASE ~(i < n)
    <3>1. /\ ~(i <= Len(s1)) /\ i - Len(s1) \in 1..Len(s) - n
          /\ n + (i - Len(s1)) = i + 1
      BY <1>1, <1>2, <2>3
    <3>2. QED
      BY <1>3, <1>5, <2>1, <2>3, <3>1, Zenon
  <2>4. QED
    BY <2>2, <2>3, Zenon
<1>7. Len(s1 \o s2) = Len(s) - 1
  BY <1>1, <1>2, <1>3, <1>5
<1>8. QED
  BY <1>4, <1>5, <1>6, <1>7

(* RemoveFirst keeps a list free of duplicates.                            *)
LEMMA RemoveFirstFacts ==
    ASSUME NEW S, NEW s \in Seq(S), NEW e
    PROVE  /\ RemoveFirst(s, e) \in Seq(S)
           /\ NoDuplicates(s) => NoDuplicates(RemoveFirst(s, e))
<1>1. CASE \E i \in 1..Len(s) : s[i] = e
  <2> DEFINE I == {i \in 1..Len(s) : s[i] = e}
             n == Min(I)
  <2>1. n \in 1..Len(s)
    <3>1. I \subseteq Nat /\ I # {}
      BY <1>1, LenProperties
    <3>2. Min(I) \in I
      BY <3>1, MinOfNaturals, Zenon
    <3>3. QED
      BY <3>2
  <2>2. RemoveFirst(s, e) = RemoveAt(s, n)
    BY <1>1 DEF RemoveFirst, SelectInSeq
  <2>3. ASSUME NoDuplicates(s) PROVE NoDuplicates(RemoveAt(s, n))
    <3> HIDE DEF n
    <3>1. /\ RemoveAt(s, n) \in Seq(S) /\ Len(RemoveAt(s, n)) = Len(s) - 1
          /\ \A i \in 1..Len(s) - 1 :
                 RemoveAt(s, n)[i] = IF i < n THEN s[i] ELSE s[i + 1]
      BY <2>1, RemoveAtFacts
    <3>2. Len(s) \in Nat
      BY LenProperties
    <3>3. QED
      BY <2>1, <2>3, <3>1, <3>2 DEF NoDuplicates
  <2>4. RemoveAt(s, n) \in Seq(S)
    BY <2>1, RemoveAtFacts
  <2>5. QED
    BY <2>2, <2>3, <2>4
<1>2. CASE ~\E i \in 1..Len(s) : s[i] = e
  BY <1>2 DEF RemoveFirst
<1>3. QED
  BY <1>1, <1>2

(* Append keeps a list free of duplicates when the element is new.         *)
LEMMA AppendNewFacts ==
    ASSUME NEW S, NEW s \in Seq(S), NEW e \in S, ~Contains(s, e)
    PROVE  /\ Append(s, e) \in Seq(S) /\ Append(s, e) # << >>
           /\ NoDuplicates(s) => NoDuplicates(Append(s, e))
<1> DEFINE t == Append(s, e)
<1>1. /\ t \in Seq(S) /\ Len(s) \in Nat /\ Len(t) = Len(s) + 1
      /\ t[Len(s) + 1] = e
      /\ \A i \in 1..Len(s) : t[i] = s[i]
  BY AppendProperties, LenProperties
<1>2. t # << >>
  BY <1>1, EmptySeq
<1>3. \A i \in 1..Len(s) : s[i] # e
  BY DEF Contains
<1> HIDE DEF t
<1>4. NoDuplicates(s) => NoDuplicates(t)
  BY <1>1, <1>3 DEF NoDuplicates
<1>5. QED
  BY <1>1, <1>2, <1>4 DEF t

------------------------------------------------------------------------------
(* The level manager *)

(* create_player and set_player_data add one player and nothing else.      *)
LEMMA CreatePlayerFacts ==
    ASSUME NEW m, IsManager(m), NEW a \in Account
    PROVE  /\ IsManager(create_player(m, a))
           /\ create_player(m, a).players = m.players \cup {a}
           /\ create_player(m, a).levels = m.levels
           /\ set_player_data(m, a) = create_player(m, a)
  BY DEF IsManager, create_player, set_player_data

(* remove_player takes one player out and leaves the levels alone.         *)
LEMMA RemovePlayerFacts ==
    ASSUME NEW m, IsManager(m), NEW a \in Account
    PROVE  /\ IsManager(remove_player(m, a))
           /\ remove_player(m, a).players = m.players \ {a}
           /\ remove_player(m, a).levels = m.levels
  BY DEF IsManager, remove_player

(* add_to_level only touches the levels, and keeps the lists well-formed.  *)
LEMMA AddToLevelFacts ==
    ASSUME NEW m, IsManager(m), NEW a \in Account, NEW l \in LevelId
    PROVE  /\ IsManager(add_to_level(m, l, a))
           /\ add_to_level(m, l, a).players = m.players
           /\ WellFormedLists(m.levels) =>
                  WellFormedLists(add_to_level(m, l, a).levels)
<1> DEFINE old == IF l \in DOMAIN m.levels THEN m.levels[l] ELSE << >>
           new == IF Contains(old, a) THEN old ELSE Append(old, a)
           levels == WithLevel(m.levels, l, new)
<1>1. add_to_level(m, l, a) = [m EXCEPT !.levels = levels]
  BY DEF add_to_level
<1>2. old \in Seq(Account)
  BY DEF IsManager
<1>3. new \in Seq(Account)
  BY <1>2, AppendNewFacts
<1>4. /\ levels \in [DOMAIN levels -> Seq(Account)]
      /\ DOMAIN levels = DOMAIN m.levels \cup {l}
      /\ levels[l] = new
      /\ \A k \in DOMAIN m.levels \ {l} : levels[k] = m.levels[k]
  <2> HIDE DEF new
  <2> QED BY <1>3 DEF WithLevel, IsManager
<1>5. WellFormedLists(m.levels) => new # << >> /\ NoDuplicates(new)
  <2>1. CASE Contains(old, a)
    <3>1. l \in DOMAIN m.levels
      BY <2>1 DEF Contains
    <3>2. QED
      BY <2>1, <3>1 DEF WellFormedLists
  <2>2. CASE ~Contains(old, a)
    <3>1. WellFormedLists(m.levels) => NoDuplicates(old)
      BY DEF WellFormedLists, NoDuplicates
    <3>2. QED
      BY <1>2, <2>2, <3>1, AppendNewFacts, Zenon
  <2>3. QED
    BY <2>1, <2>2
<1> HIDE DEF new, levels
<1>6. IsManager([m EXCEPT !.levels = levels])
  BY <1>4 DEF IsManager
<1>7. WellFormedLists(m.levels) => WellFormedLists(levels)
  BY <1>4, <1>5 DEF WellFormedLists
<1>8. /\ [m EXCEPT !.levels = levels].players = m.players
      /\ [m EXCEPT !.levels = levels].levels = levels
  BY DEF IsManager
<1>9. QED
  BY <1>1, <1>6, <1>7, <1>8

(* remove_from_level only touches the levels, and drops an emptied list.   *)
LEMMA RemoveFromLevelFacts ==
    ASSUME NEW m, IsManager(m), NEW a \in Account, NEW l
    PROVE  /\ IsManager(remove_from_level(m, l, a))
           /\ remove_from_level(m, l, a).players = m.players
           /\ WellFormedLists(m.levels) =>
                  WellFormedLists(remove_from_level(m, l, a).levels)
<1> DEFINE list == RemoveFirst(m.levels[l], a)
           levels == IF list = << >> THEN WithoutLevel(m.levels, l)
                     ELSE WithLevel(m.levels, l, list)
<1>1. CASE l \notin DOMAIN m.levels
  BY <1>1 DEF remove_from_level
<1>2. CASE l \in DOMAIN m.levels
  <2>1. remove_from_level(m, l, a) = [m EXCEPT !.levels = levels]
    BY <1>2 DEF remove_from_level
  <2>2. m.levels[l] \in Seq(Account)
    BY <1>2 DEF IsManager
  <2>3. /\ list \in Seq(Account)
        /\ NoDuplicates(m.levels[l]) => NoDuplicates(list)
    BY <2>2, RemoveFirstFacts
  <2> HIDE DEF list
  <2>4. /\ levels \in [DOMAIN levels -> Seq(Account)]
        /\ DOMAIN levels \subseteq DOMAIN m.levels
        /\ \A k \in DOMAIN levels : IF k = l THEN levels[k] = list /\ list # << >>
                                    ELSE levels[k] = m.levels[k]
    BY <1>2, <2>3 DEF WithLevel, WithoutLevel, IsManager
  <2> HIDE DEF levels
  <2>5. IsManager([m EXCEPT !.levels = levels])
    BY <2>4 DEF IsManager
  <2>6. WellFormedLists(m.levels) => WellFormedLists(levels)
    BY <1>2, <2>3, <2>4 DEF WellFormedLists
  <2>7. /\ [m EXCEPT !.levels = levels].players = m.players
        /\ [m EXCEPT !.levels = levels].levels = levels
    BY DEF IsManager
  <2>8. QED
    BY <2>1, <2>5, <2>6, <2>7
<1>3. QED
  BY <1>1, <1>2

------------------------------------------------------------------------------
(* The rooms map *)

GoodRoom(room) ==
    /\ IsRoom(room)
    /\ WellFormedLists(room.manager.levels)
    /\ room.owner = NoAccount \/ room.owner \in room.manager.players

(* The part of the invariant that is about the rooms map alone.            *)
GoodRooms(x) ==
    /\ DOMAIN x \subseteq AnyRoomId /\ Global \in DOMAIN x
    /\ \A r \in DOMAIN x : GoodRoom(x[r])
    /\ x[Global].owner = NoAccount
    /\ ~x[Global].protected
    /\ x[Global].settings = DefaultSettings

(* The type of the other variables.                                        *)
TasksOK ==
    /\ drawn \subseteq RoomId
    /\ room_id \in [Account -> AnyRoomId]
    /\ level_id \in [Account -> LevelId \cup {NoLevel}]
    /\ phase \in [Account -> Phase]
    /\ arg \in [Account -> AnyRoomId]
    /\ \A a \in Account : phase[a] = "insert" => arg[a] \in RoomId

RoomInv ==
    /\ TypeOK
    /\ LevelListsWellFormed
    /\ OwnerIsMember
    /\ GlobalIsNeutral
    /\ EmptyRoomIsBeingRemoved

(* RoomInv, regrouped.                                                     *)
LEMMA RoomInvParts ==
    RoomInv <=> GoodRooms(rooms) /\ TasksOK /\ EmptyRoomIsBeingRemoved
  BY DEF RoomInv, TypeOK, LevelListsWellFormed, OwnerIsMember, GlobalIsNeutral,
         GoodRooms, GoodRoom, TasksOK

(* The same in the next state.                                             *)
LEMMA RoomInvPartsPrime ==
    RoomInv' <=> GoodRooms(rooms') /\ TasksOK' /\ EmptyRoomIsBeingRemoved'
  BY DEF RoomInv, TypeOK, LevelListsWellFormed, OwnerIsMember, GlobalIsNeutral,
         GoodRooms, GoodRoom, TasksOK

------------------------------------------------------------------------------
(* The ways a critical section changes the rooms *)

(* with_any always finds a room.                                           *)
LEMMA WithAnyExists ==
    ASSUME NEW r, GoodRooms(rooms)
    PROVE  /\ with_any(r) \in DOMAIN rooms
           /\ GoodRoom(rooms[with_any(r)])
           /\ r \in DOMAIN rooms => with_any(r) = r
           /\ with_any(r) # Global => with_any(r) = r
  BY DEF GoodRooms, with_any

(* Replacing one room by a good one; for the global room it has to stay    *)
(* neutral.                                                                *)
LEMMA ReplaceRoom ==
    ASSUME GoodRooms(rooms), NEW w \in DOMAIN rooms, NEW room, GoodRoom(room),
           rooms' = [rooms EXCEPT ![w] = room],
           w = Global => /\ room.owner = NoAccount
                         /\ ~room.protected
                         /\ room.settings = DefaultSettings
    PROVE  /\ GoodRooms(rooms')
           /\ DOMAIN rooms' = DOMAIN rooms
           /\ rooms'[w] = room
           /\ \A k \in DOMAIN rooms \ {w} : rooms'[k] = rooms[k]
  BY DEF GoodRooms

(* UpdateManager with a manager that lost no player.                       *)
LEMMA UpdateManagerFacts ==
    ASSUME GoodRooms(rooms), NEW r, NEW m, IsManager(m),
           WellFormedLists(m.levels),
           rooms[with_any(r)].manager.players \subseteq m.players,
           UpdateManager(r, m)
    PROVE  /\ GoodRooms(rooms')
           /\ DOMAIN rooms' = DOMAIN rooms
           /\ \A k \in DOMAIN rooms :
                  rooms[k].manager.players \subseteq rooms'[k].manager.players
<1> DEFINE w == with_any(r)
           room == [rooms[w] EXCEPT !.manager = m]
<1>1. w \in DOMAIN rooms /\ GoodRoom(rooms[w])
  BY WithAnyExists
<1>2. rooms' = [rooms EXCEPT ![w] = room]
  BY DEF UpdateManager
<1>3. /\ room.manager = m /\ room.owner = rooms[w].owner
      /\ room.protected = rooms[w].protected
      /\ room.settings = rooms[w].settings
  BY <1>1 DEF GoodRoom, IsRoom
<1>4. GoodRoom(room)
  BY <1>1, <1>3 DEF GoodRoom, IsRoom
<1>5. w = Global => /\ room.owner = NoAccount /\ ~room.protected
                    /\ room.settings = DefaultSettings
  BY <1>3 DEF GoodRooms
<1> HIDE DEF w, room
<1>6. /\ GoodRooms(rooms') /\ DOMAIN rooms' = DOMAIN rooms
      /\ rooms'[w] = room
      /\ \A k \in DOMAIN rooms \ {w} : rooms'[k] = rooms[k]
  BY <1>1, <1>2, <1>4, <1>5, ReplaceRoom, Zenon
<1>7. QED
  BY <1>3, <1>6 DEF w

(* Room::remove_player keeps a room good, and an unowned room unowned.     *)
LEMMA RemovePlayerKeepsGood ==
    ASSUME NEW room, GoodRoom(room), NEW a \in Account,
           NEW owner \in NextOwners(room, a)
    PROVE  LET new == RemovePlayer(room, a, owner)
           IN  /\ GoodRoom(new)
               /\ new.manager = remove_player(room.manager, a)
               /\ new.protected = room.protected
               /\ new.settings = room.settings
               /\ new.owner = owner
               /\ room.owner = NoAccount => owner = NoAccount
<1> DEFINE m == remove_player(room.manager, a)
           new == RemovePlayer(room, a, owner)
<1>1. IsManager(m) /\ m.players = room.manager.players \ {a}
      /\ m.levels = room.manager.levels
  BY RemovePlayerFacts DEF GoodRoom, IsRoom
<1>2. room.manager.players \subseteq Account
  BY DEF GoodRoom, IsRoom, IsManager
<1>3. /\ owner \in Account \cup {NoAccount}
      /\ owner = NoAccount \/ owner \in room.manager.players \ {a}
      /\ room.owner = NoAccount => owner = NoAccount
  BY <1>2, AccountAssumption DEF NextOwners, GoodRoom, IsRoom
<1>4. new = [room EXCEPT !.owner = owner, !.manager = m]
  BY DEF RemovePlayer
<1> HIDE DEF m
<1>5. QED
  BY <1>1, <1>3, <1>4, Zenon DEF GoodRoom, IsRoom, m

(* First critical section of remove_with_any: only the player goes.        *)
LEMMA RemoveWithAnyFacts ==
    ASSUME GoodRooms(rooms), TasksOK, NEW r, NEW a \in Account,
           RemoveWithAny(r, a)
    PROVE  /\ GoodRooms(rooms')
           /\ DOMAIN rooms' = DOMAIN rooms
           /\ \A k \in DOMAIN rooms \ {with_any(r)} : rooms'[k] = rooms[k]
           /\ rooms'[with_any(r)].manager.players =
                  rooms[with_any(r)].manager.players \ {a}
<1> DEFINE w == with_any(r)
<1>1. w \in DOMAIN rooms /\ GoodRoom(rooms[w])
  BY WithAnyExists
<1>2. PICK owner \in NextOwners(rooms[w], a) :
          LET room == RemovePlayer(rooms[w], a, owner)
          IN  rooms' = [rooms EXCEPT ![w] =
                  IF level_id[a] = NoLevel THEN room
                  ELSE [room EXCEPT !.manager =
                                  remove_from_level(@, level_id[a], a)]]
  BY Zenon DEF RemoveWithAny
<1> DEFINE room == RemovePlayer(rooms[w], a, owner)
           m == IF level_id[a] = NoLevel THEN room.manager
                ELSE remove_from_level(room.manager, level_id[a], a)
           new == IF level_id[a] = NoLevel THEN room
                  ELSE [room EXCEPT !.manager =
                                  remove_from_level(@, level_id[a], a)]
<1>3. rooms' = [rooms EXCEPT ![w] = new]
  BY <1>2
<1>4. /\ GoodRoom(room)
      /\ room.manager = remove_player(rooms[w].manager, a)
      /\ room.protected = rooms[w].protected
      /\ room.settings = rooms[w].settings
      /\ rooms[w].owner = NoAccount => room.owner = NoAccount
  BY <1>1, RemovePlayerKeepsGood
<1>5. room.manager.players = rooms[w].manager.players \ {a}
  BY <1>1, <1>4, RemovePlayerFacts DEF GoodRoom, IsRoom
<1> HIDE DEF w, room
<1>6. /\ IsManager(m) /\ m.players = room.manager.players
      /\ WellFormedLists(m.levels)
  BY <1>4, RemoveFromLevelFacts DEF GoodRoom, IsRoom
<1>7. new.manager = m /\ new.owner = room.owner
      /\ new.protected = room.protected /\ new.settings = room.settings
  BY <1>4 DEF GoodRoom, IsRoom
<1>8. GoodRoom(new)
  <2>1. new = room \/ new = [room EXCEPT !.manager = m]
    BY <1>4 DEF GoodRoom, IsRoom
  <2> HIDE DEF m, new
  <2>2. QED
    BY <1>4, <1>6, <1>7, <2>1 DEF GoodRoom, IsRoom
<1> HIDE DEF m, new
<1>9. w = Global => /\ new.owner = NoAccount /\ ~new.protected
                    /\ new.settings = DefaultSettings
  BY <1>4, <1>7 DEF GoodRooms
<1>10. /\ GoodRooms(rooms') /\ DOMAIN rooms' = DOMAIN rooms
       /\ rooms'[w] = new
       /\ \A k \in DOMAIN rooms \ {w} : rooms'[k] = rooms[k]
  BY <1>1, <1>3, <1>8, <1>9, ReplaceRoom, Zenon
<1>11. QED
  BY <1>5, <1>6, <1>7, <1>10 DEF w

(* maybe_remove_room deletes the room it is asked about if it is empty.    *)
LEMMA MaybeRemoveRoomFacts ==
    ASSUME GoodRooms(rooms), NEW r, MaybeRemoveRoom(r)
    PROVE  /\ GoodRooms(rooms')
           /\ DOMAIN rooms' \subseteq DOMAIN rooms
           /\ \A k \in DOMAIN rooms' : rooms'[k] = rooms[k]
           /\ r # Global /\ r \in DOMAIN rooms' =>
                  rooms'[r].manager.players # {}
           /\ \A k \in DOMAIN rooms \ DOMAIN rooms' :
                  k # Global /\ rooms[k].manager.players = {}
  BY DEF GoodRooms, MaybeRemoveRoom

------------------------------------------------------------------------------
(* EmptyRoomIsBeingRemoved under the three ways *)

(* No room was emptied and nobody stopped pruning.                         *)
LEMMA NoRoomEmptied ==
    ASSUME EmptyRoomIsBeingRemoved, DOMAIN rooms' \subseteq DOMAIN rooms,
           \A k \in DOMAIN rooms' :
               rooms[k].manager.players \subseteq rooms'[k].manager.players,
           \A b \in Account : phase[b] \in Pruning =>
               phase'[b] = phase[b] /\ arg'[b] = arg[b]
    PROVE  EmptyRoomIsBeingRemoved'
  BY DEF EmptyRoomIsBeingRemoved

(* Task a took a player out of room r and goes on to prune r.              *)
LEMMA RoomEmptied ==
    ASSUME GoodRooms(rooms), TasksOK, EmptyRoomIsBeingRemoved,
           NEW a \in Account, NEW r, RemoveWithAny(r, a),
           phase[a] \notin Pruning,
           phase'[a] \in Pruning, arg'[a] = r,
           \A b \in Account \ {a} : phase'[b] = phase[b] /\ arg'[b] = arg[b]
    PROVE  EmptyRoomIsBeingRemoved'
<1>1. /\ DOMAIN rooms' = DOMAIN rooms
      /\ \A k \in DOMAIN rooms \ {with_any(r)} : rooms'[k] = rooms[k]
  BY RemoveWithAnyFacts
<1>2. with_any(r) # Global => with_any(r) = r
  BY WithAnyExists
<1>3. QED
  BY <1>1, <1>2 DEF EmptyRoomIsBeingRemoved

(* Task a pruned the room it held.                                         *)
LEMMA RoomPruned ==
    ASSUME GoodRooms(rooms), EmptyRoomIsBeingRemoved,
           NEW a \in Account, MaybeRemoveRoom(arg[a]),
           \A b \in Account \ {a} : phase'[b] = phase[b] /\ arg'[b] = arg[b]
    PROVE  EmptyRoomIsBeingRemoved'
<1>1. /\ DOMAIN rooms' \subseteq DOMAIN rooms
      /\ \A k \in DOMAIN rooms' : rooms'[k] = rooms[k]
      /\ arg[a] # Global /\ arg[a] \in DOMAIN rooms' =>
             rooms'[arg[a]].manager.players # {}
  BY MaybeRemoveRoomFacts
<1>2. QED
  BY <1>1 DEF EmptyRoomIsBeingRemoved

------------------------------------------------------------------------------
(* The inductive step, handler by handler *)

(* handle_login adds the player to the global room.                        *)
LEMMA LoginStep ==
    ASSUME RoomInv, NEW a \in Account, Login(a)
    PROVE  RoomInv'
<1>1. GoodRooms(rooms) /\ TasksOK /\ EmptyRoomIsBeingRemoved
  BY RoomInvParts
<1>2. GoodRoom(rooms[with_any(Global)])
  BY <1>1, WithAnyExists
<1> DEFINE old == rooms[with_any(Global)].manager
           m == create_player(old, a)
<1>3. IsManager(old) /\ WellFormedLists(old.levels)
  BY <1>2 DEF GoodRoom, IsRoom
<1>4. /\ IsManager(m) /\ WellFormedLists(m.levels)
      /\ old.players \subseteq m.players
  BY <1>3, CreatePlayerFacts
<1>5. UpdateManager(Global, m)
  BY <1>1 DEF Login, ManagerOf, with_any, GoodRooms
<1> HIDE DEF m
<1>6. /\ GoodRooms(rooms') /\ DOMAIN rooms' = DOMAIN rooms
      /\ \A k \in DOMAIN rooms :
             rooms[k].manager.players \subseteq rooms'[k].manager.players
  BY <1>1, <1>2, <1>4, <1>5, UpdateManagerFacts
<1>7. TasksOK'
  BY <1>1 DEF Login, TasksOK, Goto, Phase, AnyRoomId
<1>8. EmptyRoomIsBeingRemoved'
  <2>1. \A b \in Account : phase[b] \in Pruning =>
            phase'[b] = phase[b] /\ arg'[b] = arg[b]
    BY <1>1 DEF Login, TasksOK, Goto, Pruning
  <2>2. QED
    BY <1>1, <1>6, <2>1, NoRoomEmptied
<1>9. QED
  BY <1>6, <1>7, <1>8, RoomInvPartsPrime

(* The last section of handle_join_room.                                   *)
LEMMA JoinRoomEnterStep ==
    ASSUME RoomInv, NEW a \in Account, JoinRoomEnter(a)
    PROVE  RoomInv'
<1>1. GoodRooms(rooms) /\ TasksOK /\ EmptyRoomIsBeingRemoved
  BY RoomInvParts
<1>2. GoodRoom(rooms[with_any(room_id[a])])
  BY <1>1, WithAnyExists
<1> DEFINE old == rooms[with_any(room_id[a])].manager
           m == create_player(old, a)
<1>3. IsManager(old) /\ WellFormedLists(old.levels)
  BY <1>2 DEF GoodRoom, IsRoom
<1>4. /\ IsManager(m) /\ WellFormedLists(m.levels)
      /\ old.players \subseteq m.players
  BY <1>3, CreatePlayerFacts
<1>5. UpdateManager(room_id[a], m)
  BY <1>1 DEF JoinRoomEnter, ManagerOf, with_any, GoodRooms
<1> HIDE DEF m
<1>6. /\ GoodRooms(rooms') /\ DOMAIN rooms' = DOMAIN rooms
      /\ \A k \in DOMAIN rooms :
             rooms[k].manager.players \subseteq rooms'[k].manager.players
  BY <1>1, <1>2, <1>4, <1>5, UpdateManagerFacts
<1>7. TasksOK'
  BY <1>1 DEF JoinRoomEnter, TasksOK, Goto, Phase, AnyRoomId
<1>8. EmptyRoomIsBeingRemoved'
  <2>1. \A b \in Account : phase[b] \in Pruning =>
            phase'[b] = phase[b] /\ arg'[b] = arg[b]
    BY <1>1 DEF JoinRoomEnter, TasksOK, Goto, Pruning
  <2>2. QED
    BY <1>1, <1>6, <2>1, NoRoomEmptied
<1>9. QED
  BY <1>6, <1>7, <1>8, RoomInvPartsPrime

(* The last section of handle_leave_room.                                  *)
LEMMA LeaveRoomEnterGlobalStep ==
    ASSUME RoomInv, NEW a \in Account, LeaveRoomEnterGlobal(a)
    PROVE  RoomInv'
<1>1. GoodRooms(rooms) /\ TasksOK /\ EmptyRoomIsBeingRemoved
  BY RoomInvParts
<1>2. GoodRoom(rooms[with_any(Global)])
  BY <1>1, WithAnyExists
<1> DEFINE old == rooms[with_any(Global)].manager
           m == create_player(old, a)
<1>3. IsManager(old) /\ WellFormedLists(old.levels)
  BY <1>2 DEF GoodRoom, IsRoom
<1>4. /\ IsManager(m) /\ WellFormedLists(m.levels)
      /\ old.players \subseteq m.players
  BY <1>3, CreatePlayerFacts
<1>5. UpdateManager(Global, m)
  BY <1>1 DEF LeaveRoomEnterGlobal, ManagerOf, with_any, GoodRooms
<1> HIDE DEF m
<1>6. /\ GoodRooms(rooms') /\ DOMAIN rooms' = DOMAIN rooms
      /\ \A k \in DOMAIN rooms :
             rooms[k].manager.players \subseteq rooms'[k].manager.players
  BY <1>1, <1>2, <1>4, <1>5, UpdateManagerFacts
<1>7. TasksOK'
  BY <1>1 DEF LeaveRoomEnterGlobal, TasksOK, Goto, Phase, AnyRoomId
<1>8. EmptyRoomIsBeingRemoved'
  <2>1. \A b \in Account : phase[b] \in Pruning =>
            phase'[b] = phase[b] /\ arg'[b] = arg[b]
    BY <1>1 DEF LeaveRoomEnterGlobal, TasksOK, Goto, Pruning
  <2>2. QED
    BY <1>1, <1>6, <2>1, NoRoomEmptied
<1>9. QED
  BY <1>6, <1>7, <1>8, RoomInvPartsPrime

(* handle_player_data inserts a player that is missing.                    *)
LEMMA PlayerDataStep ==
    ASSUME RoomInv, NEW a \in Account, PlayerData(a)
    PROVE  RoomInv'
<1>1. GoodRooms(rooms) /\ TasksOK /\ EmptyRoomIsBeingRemoved
  BY RoomInvParts
<1>2. GoodRoom(rooms[with_any(room_id[a])])
  BY <1>1, WithAnyExists
<1> DEFINE old == rooms[with_any(room_id[a])].manager
           m == set_player_data(old, a)
<1>3. IsManager(old) /\ WellFormedLists(old.levels)
  BY <1>2 DEF GoodRoom, IsRoom
<1>4. /\ IsManager(m) /\ WellFormedLists(m.levels)
      /\ old.players \subseteq m.players
  BY <1>3, CreatePlayerFacts
<1>5. UpdateManager(room_id[a], m)
  BY <1>1 DEF PlayerData, ManagerOf, with_any, GoodRooms
<1> HIDE DEF m
<1>6. /\ GoodRooms(rooms') /\ DOMAIN rooms' = DOMAIN rooms
      /\ \A k \in DOMAIN rooms :
             rooms[k].manager.players \subseteq rooms'[k].manager.players
  BY <1>1, <1>2, <1>4, <1>5, UpdateManagerFacts
<1>7. TasksOK'
  BY <1>1 DEF PlayerData, TasksOK, Goto, Phase, AnyRoomId
<1>8. EmptyRoomIsBeingRemoved'
  <2>1. \A b \in Account : phase[b] \in Pruning =>
            phase'[b] = phase[b] /\ arg'[b] = arg[b]
    BY <1>1 DEF PlayerData, TasksOK, Goto, Pruning
  <2>2. QED
    BY <1>1, <1>6, <2>1, NoRoomEmptied
<1>9. QED
  BY <1>6, <1>7, <1>8, RoomInvPartsPrime

(* handle_player_metadata does the same.                                   *)
LEMMA PlayerMetadataStep ==
    ASSUME RoomInv, NEW a \in Account, PlayerMetadata(a)
    PROVE  RoomInv'
<1>1. GoodRooms(rooms) /\ TasksOK /\ EmptyRoomIsBeingRemoved
  BY RoomInvParts
<1>2. GoodRoom(rooms[with_any(room_id[a])])
  BY <1>1, WithAnyExists
<1> DEFINE old == rooms[with_any(room_id[a])].manager
           m == set_player_data(old, a)
<1>3. IsManager(old) /\ WellFormedLists(old.levels)
  BY <1>2 DEF GoodRoom, IsRoom
<1>4. /\ IsManager(m) /\ WellFormedLists(m.levels)
      /\ old.players \subseteq m.players
  BY <1>3, CreatePlayerFacts
<1>5. UpdateManager(room_id[a], m)
  BY <1>1 DEF PlayerMetadata, ManagerOf, with_any, GoodRooms
<1> HIDE DEF m
<1>6. /\ GoodRooms(rooms') /\ DOMAIN rooms' = DOMAIN rooms
      /\ \A k \in DOMAIN rooms :
             rooms[k].manager.players \subseteq rooms'[k].manager.players
  BY <1>1, <1>2, <1>4, <1>5, UpdateManagerFacts
<1>7. TasksOK'
  BY <1>1 DEF PlayerMetadata, TasksOK, Goto, Phase, AnyRoomId
<1>8. EmptyRoomIsBeingRemoved'
  <2>1. \A b \in Account : phase[b] \in Pruning =>
            phase'[b] = phase[b] /\ arg'[b] = arg[b]
    BY <1>1 DEF PlayerMetadata, TasksOK, Goto, Pruning
  <2>2. QED
    BY <1>1, <1>6, <2>1, NoRoomEmptied
<1>9. QED
  BY <1>6, <1>7, <1>8, RoomInvPartsPrime

(* handle_level_leave touches one level list.                              *)
LEMMA LevelLeaveStep ==
    ASSUME RoomInv, NEW a \in Account, LevelLeave(a)
    PROVE  RoomInv'
<1>1. GoodRooms(rooms) /\ TasksOK /\ EmptyRoomIsBeingRemoved
  BY RoomInvParts
<1>2. GoodRoom(rooms[with_any(room_id[a])])
  BY <1>1, WithAnyExists
<1> DEFINE old == rooms[with_any(room_id[a])].manager
           m == remove_from_level(old, level_id[a], a)
<1>3. IsManager(old) /\ WellFormedLists(old.levels)
  BY <1>2 DEF GoodRoom, IsRoom
<1>4. /\ IsManager(m) /\ WellFormedLists(m.levels)
      /\ old.players \subseteq m.players
  BY <1>3, RemoveFromLevelFacts
<1>5. UpdateManager(room_id[a], m)
  BY <1>1 DEF LevelLeave, ManagerOf, with_any, GoodRooms
<1> HIDE DEF m
<1>6. /\ GoodRooms(rooms') /\ DOMAIN rooms' = DOMAIN rooms
      /\ \A k \in DOMAIN rooms :
             rooms[k].manager.players \subseteq rooms'[k].manager.players
  BY <1>1, <1>2, <1>4, <1>5, UpdateManagerFacts
<1>7. TasksOK'
  BY <1>1 DEF LevelLeave, TasksOK, Goto, Phase, AnyRoomId
<1>8. EmptyRoomIsBeingRemoved'
  <2>1. \A b \in Account : phase[b] \in Pruning =>
            phase'[b] = phase[b] /\ arg'[b] = arg[b]
    BY <1>1 DEF LevelLeave, TasksOK, Goto, Pruning
  <2>2. QED
    BY <1>1, <1>6, <2>1, NoRoomEmptied
<1>9. QED
  BY <1>6, <1>7, <1>8, RoomInvPartsPrime

(* handle_level_join touches at most two level lists.                      *)
LEMMA LevelJoinStep ==
    ASSUME RoomInv, NEW a \in Account, NEW l \in LevelId \cup {NoLevel}, LevelJoin(a, l)
    PROVE  RoomInv'
<1>1. GoodRooms(rooms) /\ TasksOK /\ EmptyRoomIsBeingRemoved
  BY RoomInvParts
<1>2. GoodRoom(rooms[with_any(room_id[a])])
  BY <1>1, WithAnyExists
<1> DEFINE old == rooms[with_any(room_id[a])].manager
           m == LET left == IF level_id[a] = NoLevel THEN old
                            ELSE remove_from_level(old, level_id[a], a)
                IN  IF l = NoLevel THEN left ELSE add_to_level(left, l, a)
<1>3. IsManager(old) /\ WellFormedLists(old.levels)
  BY <1>2 DEF GoodRoom, IsRoom
<1>4. /\ IsManager(m) /\ WellFormedLists(m.levels)
      /\ old.players \subseteq m.players
  <2> DEFINE left == IF level_id[a] = NoLevel THEN old
                     ELSE remove_from_level(old, level_id[a], a)
  <2>1. /\ IsManager(left) /\ WellFormedLists(left.levels)
        /\ left.players = old.players
    BY <1>3, RemoveFromLevelFacts
  <2> HIDE DEF left
  <2>2. m = IF l = NoLevel THEN left ELSE add_to_level(left, l, a)
    BY DEF left
  <2>3. CASE l = NoLevel
    BY <2>1, <2>2, <2>3
  <2>4. CASE l # NoLevel
    <3>1. l \in LevelId
      BY <2>4
    <3>2. QED
      BY <2>1, <2>2, <2>4, <3>1, AddToLevelFacts
  <2>5. QED
    BY <2>3, <2>4
<1>5. UpdateManager(room_id[a], m)
  BY <1>1 DEF LevelJoin, ManagerOf, with_any, GoodRooms
<1> HIDE DEF m
<1>6. /\ GoodRooms(rooms') /\ DOMAIN rooms' = DOMAIN rooms
      /\ \A k \in DOMAIN rooms :
             rooms[k].manager.players \subseteq rooms'[k].manager.players
  BY <1>1, <1>2, <1>4, <1>5, UpdateManagerFacts
<1>7. TasksOK'
  BY <1>1 DEF LevelJoin, TasksOK, Goto, Phase, AnyRoomId
<1>8. EmptyRoomIsBeingRemoved'
  <2>1. \A b \in Account : phase[b] \in Pruning =>
            phase'[b] = phase[b] /\ arg'[b] = arg[b]
    BY <1>1 DEF LevelJoin, TasksOK, Goto, Pruning
  <2>2. QED
    BY <1>1, <1>6, <2>1, NoRoomEmptied
<1>9. QED
  BY <1>6, <1>7, <1>8, RoomInvPartsPrime

(* The first half of post_disconnect_cleanup.                              *)
LEMMA CleanupStep ==
    ASSUME RoomInv, NEW a \in Account, Cleanup(a)
    PROVE  RoomInv'
<1>1. GoodRooms(rooms) /\ TasksOK /\ EmptyRoomIsBeingRemoved
  BY RoomInvParts
<1>2. RemoveWithAny(room_id[a], a)
  BY DEF Cleanup
<1>3. TasksOK'
  BY <1>1 DEF Cleanup, TasksOK, Goto, Phase, AnyRoomId
<1>4. /\ phase[a] \notin Pruning /\ phase'[a] \in Pruning
      /\ arg'[a] = room_id[a]
      /\ \A b \in Account \ {a} : phase'[b] = phase[b] /\ arg'[b] = arg[b]
  BY <1>1 DEF Cleanup, TasksOK, Goto, Pruning
<1>5. GoodRooms(rooms')
  BY <1>1, <1>2, RemoveWithAnyFacts
<1>6. EmptyRoomIsBeingRemoved'
  BY <1>1, <1>2, <1>4, RoomEmptied
<1>7. QED
  BY <1>3, <1>5, <1>6, RoomInvPartsPrime

(* The first section of handle_leave_room.                                 *)
LEMMA LeaveRoomStart ==
    ASSUME RoomInv, NEW a \in Account, LeaveRoom(a)
    PROVE  RoomInv'
<1>1. GoodRooms(rooms) /\ TasksOK /\ EmptyRoomIsBeingRemoved
  BY RoomInvParts
<1>2. RemoveWithAny(room_id[a], a)
  BY DEF LeaveRoom
<1>3. TasksOK'
  BY <1>1 DEF LeaveRoom, TasksOK, Goto, Phase, AnyRoomId
<1>4. /\ phase[a] \notin Pruning /\ phase'[a] \in Pruning
      /\ arg'[a] = room_id[a]
      /\ \A b \in Account \ {a} : phase'[b] = phase[b] /\ arg'[b] = arg[b]
  BY <1>1 DEF LeaveRoom, TasksOK, Goto, Pruning
<1>5. GoodRooms(rooms')
  BY <1>1, <1>2, RemoveWithAnyFacts
<1>6. EmptyRoomIsBeingRemoved'
  BY <1>1, <1>2, <1>4, RoomEmptied
<1>7. QED
  BY <1>3, <1>5, <1>6, RoomInvPartsPrime

(* handle_join_room leaving the old room.                                  *)
LEMMA JoinRoomMove ==
    ASSUME RoomInv, NEW a \in Account, JoinRoomSwap(a), room_id[a] # arg[a]
    PROVE  RoomInv'
<1>1. GoodRooms(rooms) /\ TasksOK /\ EmptyRoomIsBeingRemoved
  BY RoomInvParts
<1>2. RemoveWithAny(room_id[a], a)
  BY DEF JoinRoomSwap
<1>3. TasksOK'
  BY <1>1 DEF JoinRoomSwap, TasksOK, Goto, Phase, AnyRoomId
<1>4. /\ phase[a] \notin Pruning /\ phase'[a] \in Pruning
      /\ arg'[a] = room_id[a]
      /\ \A b \in Account \ {a} : phase'[b] = phase[b] /\ arg'[b] = arg[b]
  BY <1>1 DEF JoinRoomSwap, TasksOK, Goto, Pruning
<1>5. GoodRooms(rooms')
  BY <1>1, <1>2, RemoveWithAnyFacts
<1>6. EmptyRoomIsBeingRemoved'
  BY <1>1, <1>2, <1>4, RoomEmptied
<1>7. QED
  BY <1>3, <1>5, <1>6, RoomInvPartsPrime

(* The second half of post_disconnect_cleanup.                             *)
LEMMA CleanupPruneStep ==
    ASSUME RoomInv, NEW a \in Account, CleanupPrune(a)
    PROVE  RoomInv'
<1>1. GoodRooms(rooms) /\ TasksOK /\ EmptyRoomIsBeingRemoved
  BY RoomInvParts
<1>2. MaybeRemoveRoom(arg[a])
  BY DEF CleanupPrune
<1>3. TasksOK'
  BY <1>1 DEF CleanupPrune, TasksOK, Goto, Phase, AnyRoomId
<1>4. \A b \in Account \ {a} : phase'[b] = phase[b] /\ arg'[b] = arg[b]
  BY <1>1 DEF CleanupPrune, TasksOK, Goto
<1>5. GoodRooms(rooms')
  BY <1>1, <1>2, MaybeRemoveRoomFacts
<1>6. EmptyRoomIsBeingRemoved'
  BY <1>1, <1>2, <1>4, RoomPruned
<1>7. QED
  BY <1>3, <1>5, <1>6, RoomInvPartsPrime

(* The second section of handle_leave_room.                                *)
LEMMA LeaveRoomPruneStep ==
    ASSUME RoomInv, NEW a \in Account, LeaveRoomPrune(a)
    PROVE  RoomInv'
<1>1. GoodRooms(rooms) /\ TasksOK /\ EmptyRoomIsBeingRemoved
  BY RoomInvParts
<1>2. MaybeRemoveRoom(arg[a])
  BY DEF LeaveRoomPrune
<1>3. TasksOK'
  BY <1>1 DEF LeaveRoomPrune, TasksOK, Goto, Phase, AnyRoomId
<1>4. \A b \in Account \ {a} : phase'[b] = phase[b] /\ arg'[b] = arg[b]
  BY <1>1 DEF LeaveRoomPrune, TasksOK, Goto
<1>5. GoodRooms(rooms')
  BY <1>1, <1>2, MaybeRemoveRoomFacts
<1>6. EmptyRoomIsBeingRemoved'
  BY <1>1, <1>2, <1>4, RoomPruned
<1>7. QED
  BY <1>3, <1>5, <1>6, RoomInvPartsPrime

(* handle_join_room pruning the old room.                                  *)
LEMMA JoinRoomPruneStep ==
    ASSUME RoomInv, NEW a \in Account, JoinRoomPrune(a)
    PROVE  RoomInv'
<1>1. GoodRooms(rooms) /\ TasksOK /\ EmptyRoomIsBeingRemoved
  BY RoomInvParts
<1>2. MaybeRemoveRoom(arg[a])
  BY DEF JoinRoomPrune
<1>3. TasksOK'
  BY <1>1 DEF JoinRoomPrune, TasksOK, Goto, Phase, AnyRoomId
<1>4. \A b \in Account \ {a} : phase'[b] = phase[b] /\ arg'[b] = arg[b]
  BY <1>1 DEF JoinRoomPrune, TasksOK, Goto
<1>5. GoodRooms(rooms')
  BY <1>1, <1>2, MaybeRemoveRoomFacts
<1>6. EmptyRoomIsBeingRemoved'
  BY <1>1, <1>2, <1>4, RoomPruned
<1>7. QED
  BY <1>3, <1>5, <1>6, RoomInvPartsPrime

(* create_room drawing an id.                                              *)
LEMMA CreateRoomPickStep ==
    ASSUME RoomInv, NEW a \in Account, NEW r \in RoomId, CreateRoomPick(a, r)
    PROVE  RoomInv'
<1>1. GoodRooms(rooms) /\ TasksOK /\ EmptyRoomIsBeingRemoved
  BY RoomInvParts
<1>2. rooms' = rooms
  BY DEF CreateRoomPick
<1>3. TasksOK'
  BY <1>1 DEF CreateRoomPick, TasksOK, Goto, Phase, AnyRoomId
<1>4. \A b \in Account : phase[b] \in Pruning =>
          phase'[b] = phase[b] /\ arg'[b] = arg[b]
  BY <1>1 DEF CreateRoomPick, TasksOK, Goto, Pruning
<1>5. EmptyRoomIsBeingRemoved'
  BY <1>1, <1>2, <1>4, NoRoomEmptied
<1>6. QED
  BY <1>1, <1>2, <1>3, <1>5, RoomInvPartsPrime

(* handle_create_room forgetting a room that is gone.                      *)
LEMMA CreateRoomAgainStep ==
    ASSUME RoomInv, NEW a \in Account, CreateRoomAgain(a)
    PROVE  RoomInv'
<1>1. GoodRooms(rooms) /\ TasksOK /\ EmptyRoomIsBeingRemoved
  BY RoomInvParts
<1>2. rooms' = rooms
  BY DEF CreateRoomAgain
<1>3. TasksOK'
  BY <1>1 DEF CreateRoomAgain, TasksOK, Goto, Phase, AnyRoomId
<1>4. \A b \in Account : phase[b] \in Pruning =>
          phase'[b] = phase[b] /\ arg'[b] = arg[b]
  BY <1>1 DEF CreateRoomAgain, TasksOK, Goto, Pruning
<1>5. EmptyRoomIsBeingRemoved'
  BY <1>1, <1>2, <1>4, NoRoomEmptied
<1>6. QED
  BY <1>1, <1>2, <1>3, <1>5, RoomInvPartsPrime

(* The checks of handle_join_room.                                         *)
LEMMA JoinRoomCheckStep ==
    ASSUME RoomInv, NEW a \in Account, NEW r \in RoomId, NEW knows, JoinRoomCheck(a, r, knows)
    PROVE  RoomInv'
<1>1. GoodRooms(rooms) /\ TasksOK /\ EmptyRoomIsBeingRemoved
  BY RoomInvParts
<1>2. rooms' = rooms
  BY DEF JoinRoomCheck
<1>3. TasksOK'
  BY <1>1 DEF JoinRoomCheck, TasksOK, Goto, Phase, AnyRoomId
<1>4. \A b \in Account : phase[b] \in Pruning =>
          phase'[b] = phase[b] /\ arg'[b] = arg[b]
  BY <1>1 DEF JoinRoomCheck, TasksOK, Goto, Pruning
<1>5. EmptyRoomIsBeingRemoved'
  BY <1>1, <1>2, <1>4, NoRoomEmptied
<1>6. QED
  BY <1>1, <1>2, <1>3, <1>5, RoomInvPartsPrime

(* handle_join_room for the room the client is in.                         *)
LEMMA JoinRoomSame ==
    ASSUME RoomInv, NEW a \in Account, JoinRoomSwap(a), room_id[a] = arg[a]
    PROVE  RoomInv'
<1>1. GoodRooms(rooms) /\ TasksOK /\ EmptyRoomIsBeingRemoved
  BY RoomInvParts
<1>2. rooms' = rooms
  BY DEF JoinRoomSwap
<1>3. TasksOK'
  BY <1>1 DEF JoinRoomSwap, TasksOK, Goto, Phase, AnyRoomId
<1>4. \A b \in Account : phase[b] \in Pruning =>
          phase'[b] = phase[b] /\ arg'[b] = arg[b]
  BY <1>1 DEF JoinRoomSwap, TasksOK, Goto, Pruning
<1>5. EmptyRoomIsBeingRemoved'
  BY <1>1, <1>2, <1>4, NoRoomEmptied
<1>6. QED
  BY <1>1, <1>2, <1>3, <1>5, RoomInvPartsPrime

(* The second read of handle_player_data.                                  *)
LEMMA SendFragmentsStep ==
    ASSUME RoomInv, NEW a \in Account, SendFragments(a)
    PROVE  RoomInv'
<1>1. GoodRooms(rooms) /\ TasksOK /\ EmptyRoomIsBeingRemoved
  BY RoomInvParts
<1>2. rooms' = rooms
  BY DEF SendFragments
<1>3. TasksOK'
  BY <1>1 DEF SendFragments, TasksOK, Goto, Phase, AnyRoomId
<1>4. \A b \in Account : phase[b] \in Pruning =>
          phase'[b] = phase[b] /\ arg'[b] = arg[b]
  BY <1>1 DEF SendFragments, TasksOK, Goto, Pruning
<1>5. EmptyRoomIsBeingRemoved'
  BY <1>1, <1>2, <1>4, NoRoomEmptied
<1>6. QED
  BY <1>1, <1>2, <1>3, <1>5, RoomInvPartsPrime

(* _create_room inserts a room whose only player is its owner.             *)
LEMMA CreateRoomInsertStep ==
    ASSUME RoomInv, NEW a \in Account, NEW protected \in Protections,
           NEW s \in Settings, CreateRoomInsert(a, protected, s)
    PROVE  RoomInv'
<1>1. GoodRooms(rooms) /\ TasksOK /\ EmptyRoomIsBeingRemoved
  BY RoomInvParts
<1> DEFINE m == create_player(NoPlayers, a)
           room == NewRoom(a, protected, s, m)
<1>2. rooms' = [k \in DOMAIN rooms \cup {arg[a]} |->
                    IF k = arg[a] THEN room ELSE rooms[k]]
  BY DEF CreateRoomInsert
<1>3. IsManager(m) /\ m.players = {a} /\ WellFormedLists(m.levels)
  BY DEF create_player, NoPlayers, IsManager, WellFormedLists
<1> HIDE DEF m
<1>4. GoodRoom(room) /\ room.manager.players # {}
  BY <1>3, SettingsAssumption, ProtectionsAssumption
     DEF NewRoom, GoodRoom, IsRoom
<1> HIDE DEF room
<1>5. arg[a] \in AnyRoomId /\ arg[a] # Global
  BY <1>1, RoomIdAssumption DEF CreateRoomInsert, TasksOK, AnyRoomId
<1>6. GoodRooms(rooms')
  BY <1>1, <1>2, <1>4, <1>5 DEF GoodRooms
<1>7. TasksOK'
  BY <1>1 DEF CreateRoomInsert, TasksOK, Goto, Phase
<1>8. \A b \in Account : phase[b] \in Pruning =>
          phase'[b] = phase[b] /\ arg'[b] = arg[b]
  BY <1>1 DEF CreateRoomInsert, TasksOK, Goto, Pruning
<1>9. EmptyRoomIsBeingRemoved'
  <2> SUFFICES ASSUME NEW r \in DOMAIN rooms' \ {Global},
                      rooms'[r].manager.players = {}
               PROVE  \E b \in Account : phase'[b] \in Pruning /\ arg'[b] = r
    BY DEF EmptyRoomIsBeingRemoved
  <2>1. r # arg[a] /\ r \in DOMAIN rooms /\ rooms'[r] = rooms[r]
    BY <1>2, <1>4
  <2>2. PICK b \in Account : phase[b] \in Pruning /\ arg[b] = r
    BY <1>1, <2>1 DEF EmptyRoomIsBeingRemoved
  <2>3. QED
    BY <1>8, <2>2
<1>10. QED
  BY <1>6, <1>7, <1>9, RoomInvPartsPrime

(* create_room taking the player out of the global room.                   *)
LEMMA CreateRoomLeaveGlobalStep ==
    ASSUME RoomInv, NEW a \in Account, CreateRoomLeaveGlobal(a)
    PROVE  RoomInv'
<1>1. GoodRooms(rooms) /\ TasksOK /\ EmptyRoomIsBeingRemoved
  BY RoomInvParts
<1>2. PICK owner \in NextOwners(rooms[Global], a) :
          rooms' = [rooms EXCEPT ![Global] =
                        RemovePlayer(rooms[Global], a, owner)]
  BY Zenon DEF CreateRoomLeaveGlobal
<1> DEFINE room == RemovePlayer(rooms[Global], a, owner)
<1>3. Global \in DOMAIN rooms /\ GoodRoom(rooms[Global])
  BY <1>1 DEF GoodRooms
<1>4. /\ GoodRoom(room)
      /\ room.owner = NoAccount /\ ~room.protected
      /\ room.settings = DefaultSettings
  BY <1>1, <1>3, RemovePlayerKeepsGood DEF GoodRooms
<1> HIDE DEF room
<1>5. /\ GoodRooms(rooms') /\ DOMAIN rooms' = DOMAIN rooms
      /\ \A k \in DOMAIN rooms \ {Global} : rooms'[k] = rooms[k]
  BY <1>1, <1>2, <1>3, <1>4, ReplaceRoom, Zenon DEF room
<1>6. TasksOK'
  BY <1>1 DEF CreateRoomLeaveGlobal, TasksOK, Goto, Phase, AnyRoomId
<1>7. \A b \in Account : phase[b] \in Pruning =>
          phase'[b] = phase[b] /\ arg'[b] = arg[b]
  BY <1>1 DEF CreateRoomLeaveGlobal, TasksOK, Goto, Pruning
<1>8. EmptyRoomIsBeingRemoved'
  BY <1>1, <1>5, <1>7 DEF EmptyRoomIsBeingRemoved
<1>9. QED
  BY <1>5, <1>6, <1>8, RoomInvPartsPrime

(* handle_update_room_settings never reaches the global room.              *)
LEMMA UpdateRoomSettingsStep ==
    ASSUME RoomInv, NEW a \in Account, NEW s \in Settings,
           UpdateRoomSettings(a, s)
    PROVE  RoomInv'
<1>1. GoodRooms(rooms) /\ TasksOK /\ EmptyRoomIsBeingRemoved
  BY RoomInvParts
<1> DEFINE w == with_any(room_id[a])
           room == [rooms[w] EXCEPT !.settings = s]
<1>2. w \in DOMAIN rooms /\ GoodRoom(rooms[w])
  BY <1>1, WithAnyExists
<1>3. rooms' = [rooms EXCEPT ![w] = room] /\ rooms[w].owner = a
  BY DEF UpdateRoomSettings
<1>4. w # Global
  BY <1>1, <1>3, AccountAssumption DEF GoodRooms
<1>5. GoodRoom(room) /\ room.manager = rooms[w].manager
  BY <1>2, SettingsAssumption DEF GoodRoom, IsRoom
<1> HIDE DEF w, room
<1>6. /\ GoodRooms(rooms') /\ DOMAIN rooms' = DOMAIN rooms
      /\ rooms'[w] = room
      /\ \A k \in DOMAIN rooms \ {w} : rooms'[k] = rooms[k]
  BY <1>1, <1>2, <1>3, <1>4, <1>5, ReplaceRoom, Zenon
<1>7. TasksOK'
  BY <1>1 DEF UpdateRoomSettings, TasksOK
<1>8. EmptyRoomIsBeingRemoved'
  BY <1>1, <1>5, <1>6 DEF UpdateRoomSettings, EmptyRoomIsBeingRemoved
<1>9. QED
  BY <1>6, <1>7, <1>8, RoomInvPartsPrime

------------------------------------------------------------------------------
(* The theorems *)

(* A server that has just started.                                         *)
LEMMA RoomInvInit == Init => RoomInv
<1> SUFFICES ASSUME Init PROVE RoomInv
  OBVIOUS
<1>1. GoodRoom(GlobalRoom) /\ GlobalRoom.owner = NoAccount
      /\ ~GlobalRoom.protected /\ GlobalRoom.settings = DefaultSettings
  <2>1. IsManager(NoPlayers) /\ WellFormedLists(NoPlayers.levels)
    BY DEF NoPlayers, IsManager, WellFormedLists
  <2>2. QED
    BY <2>1, SettingsAssumption DEF GlobalRoom, NewRoom, GoodRoom, IsRoom
<1> HIDE DEF GlobalRoom
<1>2. GoodRooms(rooms)
  BY <1>1 DEF Init, GoodRooms, AnyRoomId
<1>3. TasksOK
  BY DEF Init, TasksOK, AnyRoomId, Phase
<1>4. EmptyRoomIsBeingRemoved
  BY DEF Init, EmptyRoomIsBeingRemoved
<1>5. QED
  BY <1>2, <1>3, <1>4, RoomInvParts

(* Every step of every task.                                               *)
LEMMA RoomInvStep == RoomInv /\ [Next]_vars => RoomInv'
<1> SUFFICES ASSUME RoomInv, [Next]_vars PROVE RoomInv'
  OBVIOUS
<1>1. CASE UNCHANGED vars
  BY <1>1 DEF vars, RoomInv, TypeOK, LevelListsWellFormed, OwnerIsMember,
              GlobalIsNeutral, EmptyRoomIsBeingRemoved
<1>2. ASSUME NEW a \in Account, Step(a) PROVE RoomInv'
  <2>1. CASE Login(a) \/ Cleanup(a) \/ CleanupPrune(a)
    BY <2>1, LoginStep, CleanupStep, CleanupPruneStep
  <2>2. CASE CreateRoom(a)
    BY <2>2, CreateRoomPickStep, CreateRoomInsertStep,
       CreateRoomLeaveGlobalStep, CreateRoomAgainStep DEF CreateRoom
  <2>3. CASE JoinRoom(a)
    BY <2>3, JoinRoomCheckStep, JoinRoomMove, JoinRoomSame,
       JoinRoomPruneStep, JoinRoomEnterStep DEF JoinRoom
  <2>4. CASE LeaveRoomStep(a)
    BY <2>4, LeaveRoomStart, LeaveRoomPruneStep, LeaveRoomEnterGlobalStep
       DEF LeaveRoomStep
  <2>5. CASE \E s \in Settings : UpdateRoomSettings(a, s)
    BY <2>5, UpdateRoomSettingsStep
  <2>6. CASE OnLevel(a)
    BY <2>6, LevelJoinStep, LevelLeaveStep, PlayerDataStep,
       SendFragmentsStep, PlayerMetadataStep DEF OnLevel
  <2>7. QED
    BY <1>2, <2>1, <2>2, <2>3, <2>4, <2>5, <2>6 DEF Step
<1>3. QED
  BY <1>1, <1>2 DEF Next

(* The conjunction of the five invariants holds in every reachable state,  *)
(* whatever the number of clients, rooms and levels and whatever the       *)
(* interleaving of their handlers.                                         *)
THEOREM RoomSafety == Spec => []RoomInv
<1>1. Init => RoomInv
  BY RoomInvInit
<1>2. RoomInv /\ [Next]_vars => RoomInv'
  BY RoomInvStep
<1>3. QED
  BY <1>1, <1>2, PTL DEF Spec

(* Type correctness of the rooms, the level lists and the tasks.           *)
THEOREM RoomTypes == Spec => []TypeOK
<1>1. RoomInv => TypeOK
  BY DEF RoomInv
<1>2. QED
  BY <1>1, RoomSafety, PTL

(* The player count handle_player_data takes one from is never zero, and   *)
(* no account is counted twice.                                            *)
THEOREM LevelListsAreWellFormed == Spec => []LevelListsWellFormed
<1>1. RoomInv => LevelListsWellFormed
  BY DEF RoomInv
<1>2. QED
  BY <1>1, RoomSafety, PTL

(* Nobody outside a room owns it, across joins, leaves and disconnects.    *)
THEOREM OwnersAreMembers == Spec => []OwnerIsMember
<1>1. RoomInv => OwnerIsMember
  BY DEF RoomInv
<1>2. QED
  BY <1>1, RoomSafety, PTL

(* The global room is never owned, protected or reconfigured.              *)
THEOREM GlobalStaysNeutral == Spec => []GlobalIsNeutral
<1>1. RoomInv => GlobalIsNeutral
  BY DEF RoomInv
<1>2. QED
  BY <1>1, RoomSafety, PTL

(* No empty room is ever left without a task that deletes it.              *)
THEOREM NoRoomIsLeaked == Spec => []EmptyRoomIsBeingRemoved
<1>1. RoomInv => EmptyRoomIsBeingRemoved
  BY DEF RoomInv
<1>2. QED
  BY <1>1, RoomSafety, PTL

=============================================================================
