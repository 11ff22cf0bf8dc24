---------------------------- MODULE RoomManager -----------------------------
(***************************************************************************)
(* The rooms of the game server and the packet handlers that move players  *)
(* between rooms and levels (managers/room.rs, client/thread/handlers/     *)
(* room.rs and game.rs, and the membership part of login and of            *)
(* post_disconnect_cleanup).                                               *)
(*                                                                         *)
(* A client's packets are handled one after the other by its own task, but *)
(* the tasks of different clients run in parallel and a handler takes the  *)
(* rooms mutex or the global-room mutex several times, releasing it in     *)
(* between.  Every action below is one critical section (with the thread-  *)
(* local code next to it); phase[a] says where the handler of account a is *)
(* and arg[a] is the room id it holds in a local variable.  room_id and    *)
(* level_id are the atomics of the client thread, which only its own task  *)
(* writes and, for the decisions modelled here, only its own task reads.   *)
(*                                                                         *)
(* The global room is the room with id Global (0 in the code): it is a     *)
(* separate field there, but the same struct, and it always exists.        *)
(***************************************************************************)
EXTENDS LevelManager, FiniteSets

CONSTANTS Account,      \* accounts (i32, positive)
          NoAccount,    \* the account id 0
          RoomId,       \* ids rand can draw for a room
          Global,       \* the room id 0
          LevelId,      \* level ids
          NoLevel,      \* the level id 0
          Settings,     \* the room settings a client can ask for
          DefaultSettings,
          Protections,  \* TRUE: rooms with a password, FALSE: without
          MaxPerPacket, \* players whose data fits the fragmentation limit
          FreshIds      \* TRUE: rand never draws an id a second time

(* What is_full reads of RoomSettings.                                     *)
SettingsType == [two_player : BOOLEAN, player_limit : Nat]

ASSUME AccountAssumption == NoAccount \notin Account
ASSUME RoomIdAssumption == Global \notin RoomId
ASSUME LevelAssumption == NoLevel \notin LevelId
ASSUME SettingsAssumption ==
    /\ Settings \subseteq SettingsType
    /\ DefaultSettings \in SettingsType
    /\ ~DefaultSettings.two_player /\ DefaultSettings.player_limit = 0
ASSUME ProtectionsAssumption == Protections \subseteq BOOLEAN
ASSUME MaxPerPacketAssumption == MaxPerPacket \in Nat \ {0}
ASSUME FreshIdsAssumption == FreshIds \in BOOLEAN

VARIABLES rooms,    \* room id -> room, for the rooms that exist and Global
          drawn,    \* the ids rand has drawn so far
          room_id,  \* ClientThread::room_id
          level_id, \* ClientThread::level_id
          phase,    \* where the client's task is
          arg       \* the room id in a local variable of the handler

vars == <<rooms, drawn, room_id, level_id, phase, arg>>

AnyRoomId == RoomId \cup {Global}

Phase == {"offline", "idle", "insert", "leave_global", "swap", "join_prune",
          "enter", "leave_prune", "reenter_global", "fragment",
          "cleanup_prune", "panicked"}

(* The phases between the two critical sections of remove_with_any.        *)
Pruning == {"join_prune", "leave_prune", "cleanup_prune"}

------------------------------------------------------------------------------
(* Rooms *)

NewRoom(owner, protected, settings, manager) ==
    [owner |-> owner, protected |-> protected, settings |-> settings,
     manager |-> manager]

GlobalRoom == NewRoom(NoAccount, FALSE, DefaultSettings, NoPlayers)

(* The owners rotate_to can end with: the first other player in the        *)
(* iteration order of a hash map, or 0.                                    *)
NextOwners(room, a) ==
    IF room.owner # a THEN {room.owner}
    ELSE IF room.manager.players \ {a} # {} THEN room.manager.players \ {a}
    ELSE {NoAccount}

(* Fault: the room is not handed on.                                       *)
RemovePlayer_m(room, a, owner) ==
    [room EXCEPT !.manager = remove_player(@, a)]

RemovePlayer(room, a, owner) ==
    [room EXCEPT !.owner = owner, !.manager = remove_player(@, a)]

verify_password(room, knows) == ~room.protected \/ knows

is_full(room) ==
    LET player_count == Cardinality(room.manager.players)
    IN  IF room.settings.two_player THEN player_count >= 2
        ELSE /\ room.settings.player_limit # 0
             /\ player_count >= room.settings.player_limit

(* with_any: the room, or the global room when there is none.              *)
with_any(r) == IF r \in DOMAIN rooms THEN r ELSE Global

------------------------------------------------------------------------------
(* Steps of a task *)

Goto(a, p) == phase' = [phase EXCEPT ![a] = p]

(* Fault: the level list is forgotten.                                     *)
RemoveWithAny_m(r, a) ==
    LET w == with_any(r)
    IN  \E owner \in NextOwners(rooms[w], a) :
            rooms' = [rooms EXCEPT ![w] = RemovePlayer(@, a, owner)]

(* First critical section of remove_with_any(r, a, level_id).              *)
RemoveWithAny(r, a) ==
    LET w == with_any(r)
    IN  \E owner \in NextOwners(rooms[w], a) :
            LET room == RemovePlayer(rooms[w], a, owner)
            IN  rooms' = [rooms EXCEPT ![w] =
                    IF level_id[a] = NoLevel THEN room
                    ELSE [room EXCEPT !.manager =
                                    remove_from_level(@, level_id[a], a)]]

(* Second critical section: maybe_remove_room, skipped for the global room. *)
MaybeRemoveRoom(r) ==
    rooms' = IF /\ r # Global
                /\ r \in DOMAIN rooms
                /\ rooms[r].manager.players = {}
             THEN [k \in DOMAIN rooms \ {r} |-> rooms[k]]
             ELSE rooms

UpdateManager(r, manager) ==
    rooms' = [rooms EXCEPT ![with_any(r)].manager = manager]

ManagerOf(a) == rooms[with_any(room_id[a])].manager

------------------------------------------------------------------------------
(* Login and cleanup *)

(* The end of handle_login, which adds the player to the global room; the  *)
(* thread is a new one, so its room and level are 0.  An account whose     *)
(* task panicked cannot log in again: its thread stays in the clients map, *)
(* and check_already_logged_in times out waiting for it.                   *)
Login(a) ==
    /\ phase[a] = "offline"
    /\ UpdateManager(Global, create_player(rooms[Global].manager, a))
    /\ Goto(a, "idle")
    /\ UNCHANGED <<drawn, room_id, level_id, arg>>

(* post_disconnect_cleanup of a thread that had logged in.                 *)
Cleanup(a) ==
    /\ phase[a] = "idle"
    /\ RemoveWithAny(room_id[a], a)
    /\ arg' = [arg EXCEPT ![a] = room_id[a]]
    /\ Goto(a, "cleanup_prune")
    /\ UNCHANGED <<drawn, room_id, level_id>>

CleanupPrune(a) ==
    /\ phase[a] = "cleanup_prune"
    /\ MaybeRemoveRoom(arg[a])
    /\ room_id' = [room_id EXCEPT ![a] = Global]
    /\ level_id' = [level_id EXCEPT ![a] = NoLevel]
    /\ arg' = [arg EXCEPT ![a] = Global]
    /\ Goto(a, "offline")
    /\ UNCHANGED drawn

------------------------------------------------------------------------------
(* handle_create_room *)

(* Outside any room: create_room draws an id that is not in use and        *)
(* releases the lock again.                                                *)
CreateRoomPick(a, r) ==
    /\ phase[a] = "idle" /\ room_id[a] = Global
    /\ r \in RoomId \ DOMAIN rooms
    /\ FreshIds => r \notin drawn
    /\ drawn' = IF FreshIds THEN drawn \cup {r} ELSE drawn
    /\ arg' = [arg EXCEPT ![a] = r]
    /\ Goto(a, "insert")
    /\ UNCHANGED <<rooms, room_id, level_id>>

(* _create_room: insert replaces whatever is stored under the id.          *)
CreateRoomInsert(a, protected, settings) ==
    /\ phase[a] = "insert"
    /\ LET room == NewRoom(a, protected, settings, create_player(NoPlayers, a))
       IN  rooms' = [k \in DOMAIN rooms \cup {arg[a]} |->
                        IF k = arg[a] THEN room ELSE rooms[k]]
    /\ Goto(a, "leave_global")
    /\ UNCHANGED <<drawn, room_id, level_id, arg>>

(* Fault: the player stays in the global room.                             *)
CreateRoomLeaveGlobal_m(a) ==
    /\ phase[a] = "leave_global"
    /\ room_id' = [room_id EXCEPT ![a] = arg[a]]
    /\ arg' = [arg EXCEPT ![a] = Global]
    /\ Goto(a, "idle")
    /\ UNCHANGED <<rooms, drawn, level_id>>

(* Room::remove_player on the global room, then the store of room_id.      *)
CreateRoomLeaveGlobal(a) ==
    /\ phase[a] = "leave_global"
    /\ \E owner \in NextOwners(rooms[Global], a) :
           rooms' = [rooms EXCEPT ![Global] = RemovePlayer(@, a, owner)]
    /\ room_id' = [room_id EXCEPT ![a] = arg[a]]
    /\ arg' = [arg EXCEPT ![a] = Global]
    /\ Goto(a, "idle")
    /\ UNCHANGED <<drawn, level_id>>

(* Already in a room: reply with it, or forget a room that is gone.        *)
CreateRoomAgain(a) ==
    /\ phase[a] = "idle" /\ room_id[a] # Global
    /\ room_id[a] \notin DOMAIN rooms
    /\ room_id' = [room_id EXCEPT ![a] = Global]
    /\ UNCHANGED <<rooms, drawn, level_id, phase, arg>>

------------------------------------------------------------------------------
(* handle_join_room *)

(* The checks: the room exists, the password fits, it is not full.  A      *)
(* failed check only sends RoomJoinFailedPacket.                           *)
JoinRoomCheck(a, r, knows) ==
    /\ phase[a] = "idle"
    /\ r \in RoomId \cap DOMAIN rooms
    /\ verify_password(rooms[r], knows)
    /\ ~is_full(rooms[r])
    /\ arg' = [arg EXCEPT ![a] = r]
    /\ Goto(a, "swap")
    /\ UNCHANGED <<rooms, drawn, room_id, level_id>>

(* The swap of room_id and the removal from the old room; joining the same *)
(* room again ends here.                                                   *)
JoinRoomSwap(a) ==
    /\ phase[a] = "swap"
    /\ room_id' = [room_id EXCEPT ![a] = arg[a]]
    /\ IF room_id[a] = arg[a]
       THEN /\ arg' = [arg EXCEPT ![a] = Global]
            /\ Goto(a, "idle")
            /\ UNCHANGED rooms
       ELSE /\ arg' = [arg EXCEPT ![a] = room_id[a]]
            /\ Goto(a, "join_prune")
            /\ RemoveWithAny(room_id[a], a)
    /\ UNCHANGED <<drawn, level_id>>

(* The room that was left is tested.                                       *)
JoinRoomPrune(a) ==
    /\ phase[a] = "join_prune"
    /\ MaybeRemoveRoom(arg[a])
    /\ arg' = [arg EXCEPT ![a] = Global]
    /\ Goto(a, "enter")
    /\ UNCHANGED <<drawn, room_id, level_id>>

JoinRoomEnter(a) ==
    /\ phase[a] = "enter"
    /\ UpdateManager(room_id[a], create_player(ManagerOf(a), a))
    /\ Goto(a, "idle")
    /\ UNCHANGED <<drawn, room_id, level_id, arg>>

------------------------------------------------------------------------------
(* handle_leave_room *)

(* Fault: the room id is read back after the swap.                         *)
LeaveRoom_m(a) ==
    /\ phase[a] = "idle" /\ room_id[a] # Global
    /\ RemoveWithAny(room_id[a], a)
    /\ arg' = [arg EXCEPT ![a] = Global]
    /\ room_id' = [room_id EXCEPT ![a] = Global]
    /\ Goto(a, "leave_prune")
    /\ UNCHANGED <<drawn, level_id>>

LeaveRoom(a) ==
    /\ phase[a] = "idle" /\ room_id[a] # Global
    /\ RemoveWithAny(room_id[a], a)
    /\ arg' = [arg EXCEPT ![a] = room_id[a]]
    /\ room_id' = [room_id EXCEPT ![a] = Global]
    /\ Goto(a, "leave_prune")
    /\ UNCHANGED <<drawn, level_id>>

LeaveRoomPrune(a) ==
    /\ phase[a] = "leave_prune"
    /\ MaybeRemoveRoom(arg[a])
    /\ arg' = [arg EXCEPT ![a] = Global]
    /\ Goto(a, "reenter_global")
    /\ UNCHANGED <<drawn, room_id, level_id>>

LeaveRoomEnterGlobal(a) ==
    /\ phase[a] = "reenter_global"
    /\ UpdateManager(Global, create_player(rooms[Global].manager, a))
    /\ Goto(a, "idle")
    /\ UNCHANGED <<drawn, room_id, level_id, arg>>

------------------------------------------------------------------------------
(* handle_update_room_settings: only the owner's settings are taken.       *)

UpdateRoomSettings(a, settings) ==
    /\ phase[a] = "idle" /\ room_id[a] # Global
    /\ rooms[with_any(room_id[a])].owner = a
    /\ rooms' = [rooms EXCEPT ![with_any(room_id[a])].settings = settings]
    /\ UNCHANGED <<drawn, room_id, level_id, phase, arg>>

------------------------------------------------------------------------------
(* Levels *)

(* handle_level_join; the client may name the level 0.                     *)
LevelJoin(a, l) ==
    /\ phase[a] = "idle"
    /\ LET left   == IF level_id[a] = NoLevel THEN ManagerOf(a)
                     ELSE remove_from_level(ManagerOf(a), level_id[a], a)
           joined == IF l = NoLevel THEN left ELSE add_to_level(left, l, a)
       IN  UpdateManager(room_id[a], joined)
    /\ level_id' = [level_id EXCEPT ![a] = l]
    /\ UNCHANGED <<drawn, room_id, phase, arg>>

LevelLeave(a) ==
    /\ phase[a] = "idle" /\ level_id[a] # NoLevel
    /\ UpdateManager(room_id[a],
                     remove_from_level(ManagerOf(a), level_id[a], a))
    /\ level_id' = [level_id EXCEPT ![a] = NoLevel]
    /\ UNCHANGED <<drawn, room_id, phase, arg>>

(* The number of other players handle_player_data expects to send.         *)
WrittenPlayers(m, l) == get_player_count_on_level(m, l, 1) - 1

(* handle_player_data: store the data and count the others; when they do   *)
(* not fit one packet they are read again for the fragments.               *)
PlayerData(a) ==
    /\ phase[a] = "idle" /\ level_id[a] # NoLevel
    /\ UpdateManager(room_id[a], set_player_data(ManagerOf(a), a))
    /\ Goto(a, IF WrittenPlayers(ManagerOf(a), level_id[a]) > MaxPerPacket
               THEN "fragment" ELSE "idle")
    /\ UNCHANGED <<drawn, room_id, level_id, arg>>

(* The second read, and the fragments: chunks(0) panics when nobody else   *)
(* is left, and the task ends without its cleanup.                         *)
SendFragments(a) ==
    /\ phase[a] = "fragment"
    /\ LET others == SelectSeq(players_on_level(ManagerOf(a), level_id[a]),
                               LAMBDA b : b # a)
       IN  Goto(a, IF others = << >> THEN "panicked" ELSE "idle")
    /\ UNCHANGED <<rooms, drawn, room_id, level_id, arg>>

(* handle_player_metadata stores too and replies from the same section.    *)
PlayerMetadata(a) ==
    /\ phase[a] = "idle" /\ level_id[a] # NoLevel
    /\ UpdateManager(room_id[a], set_player_data(ManagerOf(a), a))
    /\ UNCHANGED <<drawn, room_id, level_id, phase, arg>>

------------------------------------------------------------------------------
Init ==
    /\ rooms = [r \in {Global} |-> GlobalRoom]
    /\ drawn = {}
    /\ room_id = [a \in Account |-> Global]
    /\ level_id = [a \in Account |-> NoLevel]
    /\ phase = [a \in Account |-> "offline"]
    /\ arg = [a \in Account |-> Global]

CreateRoom(a) ==
    \/ \E r \in RoomId : CreateRoomPick(a, r)
    \/ \E protected \in Protections, s \in Settings :
           CreateRoomInsert(a, protected, s)
    \/ CreateRoomLeaveGlobal(a)
    \/ CreateRoomAgain(a)

JoinRoom(a) ==
    \/ \E r \in RoomId, knows \in BOOLEAN : JoinRoomCheck(a, r, knows)
    \/ JoinRoomSwap(a)
    \/ JoinRoomPrune(a)
    \/ JoinRoomEnter(a)

LeaveRoomStep(a) ==
    LeaveRoom(a) \/ LeaveRoomPrune(a) \/ LeaveRoomEnterGlobal(a)

OnLevel(a) ==
    \/ \E l \in LevelId \cup {NoLevel} : LevelJoin(a, l)
    \/ LevelLeave(a)
    \/ PlayerData(a)
    \/ SendFragments(a)
    \/ PlayerMetadata(a)

Step(a) ==
    \/ Login(a) \/ Cleanup(a) \/ CleanupPrune(a)
    \/ CreateRoom(a) \/ JoinRoom(a) \/ LeaveRoomStep(a)
    \/ \E s \in Settings : UpdateRoomSettings(a, s)
    \/ OnLevel(a)

Next == \E a \in Account : Step(a)

Spec == Init /\ [][Next]_vars

------------------------------------------------------------------------------
(* Properties *)

IsManager(m) ==
    /\ m \in [players : SUBSET Account, levels : {m.levels}]
    /\ m.levels \in [DOMAIN m.levels -> Seq(Account)]
    /\ DOMAIN m.levels \subseteq LevelId

IsRoom(room) ==
    /\ room \in [owner : Account \cup {NoAccount}, protected : BOOLEAN,
                 settings : SettingsType, manager : {room.manager}]
    /\ IsManager(room.manager)

NoDuplicates(s) == \A i, j \in 1..Len(s) : s[i] = s[j] => i = j

WellFormedLists(levels) ==
    \A l \in DOMAIN levels : levels[l] # << >> /\ NoDuplicates(levels[l])

(* Every variable has its type: room keys are room ids, the global room is *)
(* always there, and a level list is never stored under the level id 0,    *)
(* which handle_level_join guards against.                                 *)
TypeOK ==
    /\ DOMAIN rooms \subseteq AnyRoomId /\ Global \in DOMAIN rooms
    /\ \A r \in DOMAIN rooms : IsRoom(rooms[r])
    /\ drawn \subseteq RoomId
    /\ room_id \in [Account -> AnyRoomId]
    /\ level_id \in [Account -> LevelId \cup {NoLevel}]
    /\ phase \in [Account -> Phase]
    /\ arg \in [Account -> AnyRoomId]
    /\ \A a \in Account : phase[a] = "insert" => arg[a] \in RoomId

(* A level that is present has at least one player and nobody twice, in    *)
(* every room: `get_player_count_on_level(..).unwrap_or(1) - 1` in         *)
(* handle_player_data never wraps below zero, and never counts an account  *)
(* a second time.                                                          *)
LevelListsWellFormed ==
    \A r \in DOMAIN rooms : WellFormedLists(rooms[r].manager.levels)

(* The owner of a room is 0 or a player of that room, whatever the order   *)
(* in which players join, leave and disconnect: Room::remove_player hands  *)
(* the room on before its owner is gone.                                   *)
OwnerIsMember ==
    \A r \in DOMAIN rooms :
        rooms[r].owner = NoAccount \/ rooms[r].owner \in rooms[r].manager.players

(* No client ever owns the global room or changes its settings, although   *)
(* handle_update_room_settings reaches it through the fallback of with_any *)
(* when the room of the sender is gone.                                    *)
GlobalIsNeutral ==
    /\ rooms[Global].owner = NoAccount
    /\ ~rooms[Global].protected
    /\ rooms[Global].settings = DefaultSettings

(* No room is leaked: a room without players still has a task between the  *)
(* two critical sections of remove_with_any that is about to delete it.    *)
EmptyRoomIsBeingRemoved ==
    \A r \in DOMAIN rooms \ {Global} :
        rooms[r].manager.players = {} =>
            \E a \in Account : phase[a] \in Pruning /\ arg[a] = r

(* The rooms whose player map holds a.                                     *)
RoomsOf(a) == {r \in DOMAIN rooms : a \in rooms[r].manager.players}

(* When no id is drawn twice, a client is in exactly the room with_any     *)
(* finds for it, also when its room was deleted between the join check and *)
(* the join; while a handler moves it, it is in no room, or (create_room)  *)
(* in the new and the global one; once cleaned up it is in none.           *)
ExactlyOneRoom ==
    \A a \in Account :
        CASE phase[a] = "offline" -> RoomsOf(a) = {}
          [] phase[a] \in {"idle", "insert", "swap", "fragment", "panicked"} ->
                 RoomsOf(a) = {with_any(room_id[a])}
          [] phase[a] = "leave_global" -> RoomsOf(a) = {Global, arg[a]}
          [] OTHER -> RoomsOf(a) = {}

(* Apart from the global room, a level list names only clients that are in *)
(* that room and on that level: switching rooms, leaving, disconnecting    *)
(* and changing levels leave nobody behind.                                *)
NoGhostsOnLevels ==
    \A r \in DOMAIN rooms \ {Global} :
        LET m == rooms[r].manager IN
        \A l \in DOMAIN m.levels : \A i \in 1..Len(m.levels[l]) :
            LET a == m.levels[l][i]
            IN  a \in m.players /\ room_id[a] = r /\ level_id[a] = l

=============================================================================
