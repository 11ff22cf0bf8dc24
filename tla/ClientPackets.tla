--------------------------- MODULE ClientPackets ---------------------------
(***************************************************************************)
(* What the client's headers under data/ say of every packet: its id,      *)
(* whether it is encrypted, whether it travels over TCP, and the fields in *)
(* the order in which they are serialized.  "Sends" are the packets of     *)
(* data/packets/client, "Reads" those of data/packets/server.              *)
(*                                                                         *)
(* A definition ending in _m is a faulty variant of the one after it.      *)
(***************************************************************************)
EXTENDS ByteBuffer

LOCAL INSTANCE TLC

Packet(encrypted, tcp, names, types) == [enc |-> encrypted, tcp |-> tcp, t |-> Struct(names, types)]
Empty(encrypted, tcp) == Packet(encrypted, tcp, <<>>, <<>>)

(* data/types *)
LevelId == I(8)

PlayerIconData ==
    Struct(<<"cube", "ship", "ball", "ufo", "wave", "robot", "spider", "swing", "jetpack",
             "deathEffect", "color1", "color2", "glowColor", "streak", "shipStreak">>,
           [i \in 1..9 |-> I(2)] \o [i \in 1..6 |-> U(1)])

PlayerIconDataSimple == Struct(<<"cube", "color1", "color2", "glowColor">>, <<I(2), U(1), U(1), U(1)>>)

SpecialUserData == Struct(<<"roles">>, <<Opt(Vec(U(1)))>>)

PlayerRoomPreviewAccountData ==
    Struct(<<"accountId", "userId", "name", "icons", "levelId", "specialUserData">>,
           <<I(4), I(4), Str, PlayerIconDataSimple, LevelId, SpecialUserData>>)

PlayerPreviewAccountData_m ==
    Struct(<<"userId", "accountId", "name", "icons", "specialUserData">>,
           <<I(4), I(4), Str, PlayerIconDataSimple, SpecialUserData>>)

PlayerPreviewAccountData ==
    Struct(<<"accountId", "userId", "name", "icons", "specialUserData">>,
           <<I(4), I(4), Str, PlayerIconDataSimple, SpecialUserData>>)

PlayerAccountData ==
    Struct(<<"accountId", "userId", "name", "icons", "specialUserData">>,
           <<I(4), I(4), Str, PlayerIconData, SpecialUserData>>)

PlayerIconType == Enum(0..9)

SpiderTeleportData == Struct(<<"from", "to">>, <<Point, Point>>)

SpecificIconData ==
    Struct(<<"position", "rotation", "iconType", "flags", "spiderTeleportData">>,
           <<Point, F32, PlayerIconType,
             Flags(2, <<"isVisible", "isLookingLeft", "isUpsideDown", "isDashing", "isMini", "isGrounded",
                        "isStationary", "isFalling", "didJustJump", "isRotating", "isSideways">>),
             Opt(SpiderTeleportData)>>)

PlayerData ==
    Struct(<<"timestamp", "player1", "player2", "lastDeathTimestamp", "currentPercentage", "flags">>,
           <<F32, SpecificIconData, SpecificIconData, F32, F32,
             Flags(1, <<"isDead", "isPaused", "isPracticing", "isDualMode", "isInEditor", "isEditorBuilding">>)>>)

PlayerMetadata == Struct(<<"localBest", "attempts">>, <<U(4), I(4)>>)
AssociatedPlayerData == Struct(<<"accountId", "data">>, <<I(4), PlayerData>>)
AssociatedPlayerMetadata == Struct(<<"accountId", "data">>, <<I(4), PlayerMetadata>>)

(* An opus frame is a length and its bytes.                                *)
EncodedAudioFrame == Audio(10)

RoomSettingsFlags == Flags(2, <<"isHidden", "publicInvites", "collision", "twoPlayerMode">>)
RoomSettings == Struct(<<"flags", "playerLimit">>, <<RoomSettingsFlags, U(4)>>)

RoomInfo ==
    Struct(<<"id", "owner", "name", "password", "settings">>,
           <<U(4), PlayerPreviewAccountData, Str, Str, RoomSettings>>)

RoomListingInfo ==
    Struct(<<"id", "owner", "name", "hasPassword", "settings">>,
           <<U(4), PlayerPreviewAccountData, Str, Bool, RoomSettings>>)

GlobedLevel == Struct(<<"levelId", "playerCount">>, <<LevelId, U(2)>>)

RichColor == Struct(<<"inner">>, <<Either(Color3B, Vec(Color3B))>>)

Permissions == <<"notices", "noticesToEveryone", "kick", "kickEveryone", "mute", "ban", "editRole", "admin">>
AllBools == [i \in 1..Len(Permissions) |-> Bool]

ServerRole ==
    Struct(<<"id", "priority", "badgeIcon", "nameColor", "chatColor">> \o Permissions,
           <<Str, I(4), Str, Str, Str>> \o AllBools)

GameServerRole == Struct(<<"intId", "role">>, <<U(1), ServerRole>>)

ComputedRole ==
    Struct(<<"priority", "badgeIcon", "nameColor", "chatColor">> \o Permissions,
           <<I(4), Str, Opt(RichColor), Opt(Color3B)>> \o AllBools)

UserEntry ==
    Struct(<<"accountId", "userName", "nameColor", "userRoles", "isBanned", "isMuted", "isWhitelisted",
             "adminPassword", "violationReason", "violationExpiry">>,
           <<I(4), Opt(Str), Opt(Str), Vec(Str), Bool, Bool, Bool, Opt(Str), Opt(Str), Opt(I(8))>>)

CryptoPublicKey == Struct(<<"key">>, <<Bytes(32)>>)

(* data/packets/client *)
SendsConnection ==
    10000 :> Packet(FALSE, FALSE, <<"id">>, <<U(4)>>)
 @@ 10001 :> Packet(FALSE, TRUE, <<"protocol", "key">>, <<U(2), CryptoPublicKey>>)
 @@ 10002 :> Empty(FALSE, FALSE)
 @@ 10003 :> Packet(TRUE, TRUE,
                    <<"accountId", "userId", "name", "token", "icons", "fragmentationLimit", "platform", "isInvisible">>,
                    <<I(4), I(4), Str, Str, PlayerIconData, U(2), Str, Bool>>)
 @@ 10005 :> Packet(FALSE, FALSE, <<"secretKey">>, <<U(4)>>)
 @@ 10006 :> Empty(FALSE, FALSE)
 @@ 10007 :> Empty(FALSE, TRUE)
 @@ 10200 :> Packet(FALSE, FALSE, <<"uid", "data">>, <<U(4), Vec(U(1))>>)

SendsGeneral ==
    11000 :> Packet(FALSE, FALSE, <<"icons">>, <<PlayerIconData>>)
 @@ 11001 :> Empty(FALSE, FALSE)
 @@ 11002 :> Empty(FALSE, FALSE)
 @@ 11003 :> Packet(FALSE, FALSE, <<"levelIds">>, <<Vec(LevelId)>>)
 @@ 11004 :> Packet(FALSE, FALSE, <<"isInvisible">>, <<Bool>>)

SendsGame ==
    12000 :> Packet(FALSE, FALSE, <<"requested">>, <<I(4)>>)
 @@ 12001 :> Packet(FALSE, FALSE, <<"levelId">>, <<LevelId>>)
 @@ 12002 :> Empty(FALSE, FALSE)
 @@ 12003 :> Packet(FALSE, FALSE, <<"data">>, <<PlayerData>>)
 @@ 12004 :> Packet(FALSE, FALSE, <<"data">>, <<PlayerMetadata>>)
 @@ 12010 :> Packet(TRUE, FALSE, <<"frame">>, <<EncodedAudioFrame>>)
 @@ 12011 :> Packet(TRUE, FALSE, <<"message">>, <<Str>>)

SendsRoom ==
    13000 :> Packet(FALSE, FALSE, <<"roomName", "password", "settings">>, <<Str, Str, RoomSettings>>)
 @@ 13001 :> Packet(FALSE, FALSE, <<"roomId", "password">>, <<U(4), Str>>)
 @@ 13002 :> Empty(FALSE, FALSE)
 @@ 13003 :> Empty(FALSE, FALSE)
 @@ 13004 :> Packet(FALSE, FALSE, <<"settings">>, <<RoomSettings>>)
 @@ 13005 :> Packet(FALSE, FALSE, <<"player">>, <<I(4)>>)
 @@ 13006 :> Empty(FALSE, FALSE)

SendsAdmin ==
    19000 :> Packet(TRUE, TRUE, <<"key">>, <<Str>>)
 @@ 19001 :> Packet(TRUE, TRUE, <<"ptype", "roomId", "levelId", "player", "message">>,
                    <<Enum(0..2), U(4), LevelId, Str, Str>>)
 @@ 19002 :> Packet(FALSE, TRUE, <<"player", "message">>, <<Str, Str>>)
 @@ 19003 :> Packet(FALSE, TRUE, <<"player">>, <<Str>>)
 @@ 19004 :> Packet(TRUE, TRUE, <<"userEntry">>, <<UserEntry>>)

ClientSends == SendsConnection @@ SendsGeneral @@ SendsGame @@ SendsRoom @@ SendsAdmin

(* data/packets/server *)
ReadsConnection ==
    20000 :> Packet(FALSE, FALSE, <<"id", "playerCount">>, <<U(4), U(4)>>)
 @@ 20001 :> Packet(FALSE, FALSE, <<"data">>, <<CryptoPublicKey>>)
 @@ 20002 :> Packet(FALSE, FALSE, <<"playerCount">>, <<U(4)>>)
 @@ 20003 :> Packet(FALSE, FALSE, <<"message">>, <<Str>>)
 @@ 20004 :> Packet(FALSE, FALSE, <<"tps", "specialUserData", "allRoles", "secretKey">>,
                    <<U(4), SpecialUserData, Vec(GameServerRole), U(4)>>)
 @@ 20005 :> Packet(FALSE, FALSE, <<"message">>, <<Str>>)
 @@ 20006 :> Packet(FALSE, FALSE, <<"serverProtocol", "minClientVersion">>, <<U(2), Str>>)
 @@ 20007 :> Empty(FALSE, FALSE)
 @@ 20008 :> Empty(FALSE, FALSE)
 @@ 20009 :> Empty(FALSE, FALSE)
 @@ 20100 :> Packet(FALSE, FALSE, <<"message">>, <<Str>>)
 @@ 20101 :> Packet(FALSE, FALSE, <<"message", "timestamp">>, <<Str, I(8)>>)
 @@ 20102 :> Packet(FALSE, FALSE, <<"reason", "timestamp">>, <<Str, I(8)>>)
 @@ 20200 :> Packet(FALSE, FALSE, <<"uid", "data">>, <<U(4), Vec(U(1))>>)

ReadsGeneral ==
    21000 :> Packet(FALSE, FALSE, <<"data">>, <<Vec(PlayerPreviewAccountData)>>)
 @@ 21001 :> Packet(FALSE, FALSE, <<"levels">>, <<Vec(GlobedLevel)>>)
 @@ 21002 :> Packet(FALSE, FALSE, <<"levels">>, <<Vec(Struct(<<"first", "second">>, <<LevelId, U(2)>>))>>)
 @@ 21003 :> Packet(FALSE, FALSE, <<"specialUserData">>, <<SpecialUserData>>)

ReadsGame ==
    22000 :> Packet(FALSE, FALSE, <<"players">>, <<Vec(PlayerAccountData)>>)
 @@ 22001 :> Packet(FALSE, FALSE, <<"players">>, <<Vec(AssociatedPlayerData)>>)
 @@ 22002 :> Packet(FALSE, FALSE, <<"players">>, <<Vec(AssociatedPlayerMetadata)>>)
 @@ 22010 :> Packet(TRUE, FALSE, <<"sender", "frame">>, <<I(4), EncodedAudioFrame>>)
 @@ 22011 :> Packet(TRUE, FALSE, <<"sender", "message">>, <<I(4), Str>>)

ReadsRoom ==
    23000 :> Packet(FALSE, FALSE, <<"info">>, <<RoomInfo>>)
 @@ 23001 :> Empty(FALSE, FALSE)
 @@ 23002 :> Packet(FALSE, FALSE, <<"wasInvalid", "wasProtected", "wasFull">>, <<Bool, Bool, Bool>>)
 @@ 23003 :> Packet(FALSE, FALSE, <<"info", "players">>, <<RoomInfo, Vec(PlayerRoomPreviewAccountData)>>)
 @@ 23004 :> Packet(FALSE, FALSE, <<"info">>, <<RoomInfo>>)
 @@ 23005 :> Packet(FALSE, FALSE, <<"playerData", "roomID", "password">>, <<PlayerPreviewAccountData, U(4), Str>>)
 @@ 23006 :> Packet(FALSE, FALSE, <<"rooms">>, <<Vec(RoomListingInfo)>>)
 @@ 23007 :> Packet(FALSE, FALSE, <<"reason">>, <<Str>>)

ReadsAdmin ==
    29000 :> Packet(FALSE, FALSE, <<"role">>, <<ComputedRole>>)
 @@ 29001 :> Packet(TRUE, FALSE, <<"message">>, <<Str>>)
 @@ 29002 :> Packet(TRUE, FALSE, <<"userEntry", "accountData">>, <<UserEntry, Opt(PlayerRoomPreviewAccountData)>>)
 @@ 29003 :> Packet(FALSE, FALSE, <<"message">>, <<Str>>)
 @@ 29004 :> Empty(FALSE, FALSE)

(* matchPacket: the packets the client can receive at all.                 *)
ClientReads == ReadsConnection @@ ReadsGeneral @@ ReadsGame @@ ReadsRoom @@ ReadsAdmin
=============================================================================
