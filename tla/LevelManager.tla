---------------------------- MODULE LevelManager ----------------------------
(***************************************************************************)
(* The data structure behind every room of the game server                 *)
(* (server/game/src/managers/level.rs): the map of players of the room and *)
(* the map from level ids to the list of the players on that level.        *)
(*                                                                         *)
(* A level manager is a record                                             *)
(*    players : the key set of the players map (what a player looks like   *)
(*              is data no operation branches on)                          *)
(*    levels  : a function from the level ids present in the levels map to *)
(*              the Vec of account ids, in order.                          *)
(*                                                                         *)
(* In this and the other modules a definition whose name ends in _m is a   *)
(* faulty variant of the one that follows it; it is no part of the model   *)
(* and serves to show that the checks notice the fault.                    *)
(***************************************************************************)
EXTENDS Integers, Sequences, SequencesExt

NoPlayers == [players |-> {}, levels |-> << >>]

create_player(m, a) == [m EXCEPT !.players = @ \cup {a}]

(* set_player_data and set_player_meta, through get_or_create_player: an   *)
(* unknown account is inserted first.                                      *)
set_player_data(m, a) == [m EXCEPT !.players = @ \cup {a}]

remove_player(m, a) == [m EXCEPT !.players = @ \ {a}]

(* An absent level counts as the default the caller passes to unwrap_or.   *)
get_player_count_on_level(m, l, default) ==
    IF l \in DOMAIN m.levels THEN Len(m.levels[l]) ELSE default

(* The accounts for_each_player_on_level visits: those of the level's list *)
(* that are also in the players map.                                       *)
players_on_level(m, l) ==
    IF l \in DOMAIN m.levels
    THEN SelectSeq(m.levels[l], LAMBDA a : a \in m.players)
    ELSE << >>

WithLevel(levels, l, list) ==
    [k \in DOMAIN levels \cup {l} |-> IF k = l THEN list ELSE levels[k]]

WithoutLevel(levels, l) == [k \in DOMAIN levels \ {l} |-> levels[k]]

(* entry(level).or_insert_with(Vec), then push unless already contained.   *)
add_to_level(m, l, a) ==
    LET list == IF l \in DOMAIN m.levels THEN m.levels[l] ELSE << >>
    IN  [m EXCEPT !.levels = WithLevel(@, l, IF Contains(list, a) THEN list
                                             ELSE Append(list, a))]

(* Fault: the emptied list stays.                                          *)
remove_from_level_m(m, l, a) ==
    IF l \notin DOMAIN m.levels THEN m
    ELSE [m EXCEPT !.levels = WithLevel(@, l, RemoveFirst(m.levels[l], a))]

(* Remove the first occurrence; drop the level once its list is empty.     *)
remove_from_level(m, l, a) ==
    IF l \notin DOMAIN m.levels THEN m
    ELSE LET list == RemoveFirst(m.levels[l], a)
         IN  [m EXCEPT !.levels = IF list = << >> THEN WithoutLevel(@, l)
                                  ELSE WithLevel(@, l, list)]

=============================================================================
