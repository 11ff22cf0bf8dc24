--------------------------- MODULE MCRoomManager ----------------------------
(* Instances of RoomManager for TLC. *)
EXTENDS RoomManager, TLC

OpenSettings == [two_player |-> FALSE, player_limit |-> 0]
TwoPlayerSettings == [two_player |-> TRUE, player_limit |-> 0]
LimitOne == [two_player |-> FALSE, player_limit |-> 1]

MCDefaultSettings == OpenSettings
OneSetting == {OpenSettings}
TwoSettings == {TwoPlayerSettings, LimitOne}

(* Accounts and room ids are only compared for equality. *)
Symmetry == Permutations(Account) \cup Permutations(RoomId)

=============================================================================
