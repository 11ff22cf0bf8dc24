--------------------------- MODULE ServerPackets ---------------------------
(***************************************************************************)
(* What the game server says of the same packets (server/game/src/data and *)
(* server/shared/src/data.rs).  Fields have the client's names where the   *)
(* server's only differ in style.  The server keeps the flags of a player  *)
(* and the opus frames of a voice packet as opaque bytes, and bounds its   *)
(* strings.                                                                *)
(***************************************************************************)
EXTENDS ByteBuffer

LOCAL INSTANCE TLC

MAX_NAME_SIZE == 24
MAX_MESSAGE_SIZE == 156

ESPacket(encrypted, tcp, names, types) == [enc |-> encrypted, tcp |-> tcp, t |-> Struct(names, types)]
ESEmpty(tcp) == ESPacket(FALSE, tcp, <<>>, <<>>)

ESLevelId == I(8)

ESPlayerIconData ==
    Struct(<<"cube", "ship", "ball", "ufo", "wave", "robot", "spider", "swing", "jetpack",
             "deathEffect", "color1", "color2", "glowColor", "streak", "shipStreak">>,
           <<I(2), I(2), I(2), I(2), I(2), I(2), I(2), I(2), I(2), U(1), U(1), U(1), U(1), U(1), U(1)>>)

ESPlayerIconDataSimple == Struct(<<"cube", "color1", "color2", "glowColor">>, <<I(2), U(1), U(1), U(1)>>)
ESSpecialUserData == Struct(<<"roles">>, <<Opt(FastVec(U(1), 16))>>)
ESName == Inline(MAX_NAME_SIZE)

ESPlayerAccountData ==
    Struct(<<"accountId", "userId", "name", "icons", "specialUserData">>,
           <<I(4), I(4), ESName, ESPlayerIconData, ESSpecialUserData>>)

ESPlayerPreviewAccountData ==
    Struct(<<"accountId", "userId", "name", "icons", "specialUserData">>,
           <<I(4), I(4), ESName, ESPlayerIconDataSimple, ESSpecialUserData>>)

ESPlayerRoomPreviewAccountData ==
    Struct(<<"accountId", "userId", "name", "icons", "levelId", "specialUserData">>,
           <<I(4), I(4), ESName, ESPlayerIconDataSimple, ESLevelId, ESSpecialUserData>>)

ESSpecificIconData ==
    Struct(<<"position", "rotation", "iconType", "flags", "spiderTeleportData">>,
           <<Point, F32, Enum(0..9), EspBits(2), Opt(Struct(<<"from", "to">>, <<Point, Point>>))>>)

ESPlayerData ==
    Struct(<<"timestamp", "player1", "player2", "lastDeathTimestamp", "currentPercentage", "flags">>,
           <<F32, ESSpecificIconData, ESSpecificIconData, F32, F32, EspBits(1)>>)

ESPlayerMetadata == Struct(<<"localBest", "attempts">>, <<U(4), I(4)>>)

ESRoomSettings ==
    Struct(<<"flags", "playerLimit">>,
           <<Flags(2, <<"isHidden", "publicInvites", "collision", "twoPlayerMode">>), U(4)>>)

ESRoomInfo ==
    Struct(<<"id", "owner", "name", "password", "settings">>,
           <<U(4), ESPlayerPreviewAccountData, Inline(32), Inline(16), ESRoomSettings>>)

ESRoomListingInfo ==
    Struct(<<"id", "owner", "name", "hasPassword", "settings">>,
           <<U(4), ESPlayerPreviewAccountData, Inline(32), Bool, ESRoomSettings>>)

ESRichColor == Struct(<<"inner">>, <<Either(Color3B, FastVec(Color3B, 8))>>)

ESServerRole ==
    Struct(<<"id", "priority", "badgeIcon", "nameColor", "chatColor", "notices", "noticesToEveryone",
             "kick", "kickEveryone", "mute", "ban", "editRole", "admin">>,
           <<Str, I(4), Str, Str, Str, Bool, Bool, Bool, Bool, Bool, Bool, Bool, Bool>>)

ESComputedRole ==
    Struct(<<"priority", "badgeIcon", "nameColor", "chatColor", "notices", "noticesToEveryone",
             "kick", "kickEveryone", "mute", "ban", "editRole", "admin">>,
           <<I(4), Str, Opt(ESRichColor), Opt(Color3B), Bool, Bool, Bool, Bool, Bool, Bool, Bool, Bool>>)

ESUserEntry ==
    Struct(<<"accountId", "userName", "nameColor", "userRoles", "isBanned", "isMuted", "isWhitelisted",
             "adminPassword", "violationReason", "violationExpiry">>,
           <<I(4), Opt(Str), Opt(Str), Vec(Str), Bool, Bool, Bool, Opt(Str), Opt(Str), Opt(I(8))>>)

ESKey == Struct(<<"key">>, <<Bytes(32)>>)

(* data/packets/client: what the server reads.  Only the client chooses    *)
(* the transport of these.                                                 *)
ESReadsConnection ==
    10000 :> ESPacket(FALSE, FALSE, <<"id">>, <<U(4)>>)
 @@ 10001 :> ESPacket(FALSE, TRUE, <<"protocol", "key">>, <<U(2), ESKey>>)
 @@ 10002 :> ESEmpty(FALSE)
 @@ 10003 :> ESPacket(TRUE, TRUE,
          <<"accountId", "userId", "name", "token", "icons", "fragmentationLimit", "platform", "isInvisible">>,
          <<I(4), I(4), ESName, Str, ESPlayerIconData, U(2), Inline(72), Bool>>)
 @@ 10005 :> ESPacket(FALSE, FALSE, <<"secretKey">>, <<U(4)>>)
 @@ 10006 :> ESEmpty(FALSE)
 @@ 10007 :> ESEmpty(TRUE)
 @@ 10200 :> ESPacket(FALSE, FALSE, <<"uid", "data">>, <<U(4), Vec(U(1))>>)

ESReadsGeneral ==
    11000 :> ESPacket(FALSE, FALSE, <<"icons">>, <<ESPlayerIconData>>)
 @@ 11001 :> ESEmpty(FALSE)
 @@ 11002 :> ESEmpty(FALSE)
 @@ 11003 :> ESPacket(FALSE, FALSE, <<"levelIds">>, <<FastVec(ESLevelId, 128)>>)
 @@ 11004 :> ESPacket(FALSE, FALSE, <<"isInvisible">>, <<Bool>>)

ESReadsGame ==
    12000 :> ESPacket(FALSE, FALSE, <<"requested">>, <<I(4)>>)
 @@ 12001 :> ESPacket(FALSE, FALSE, <<"levelId">>, <<ESLevelId>>)
 @@ 12002 :> ESEmpty(FALSE)
 @@ 12003 :> ESPacket(FALSE, FALSE, <<"data">>, <<ESPlayerData>>)
 @@ 12004 :> ESPacket(FALSE, FALSE, <<"data">>, <<ESPlayerMetadata>>)
 @@ 12010 :> ESPacket(TRUE, FALSE, <<"frame">>, <<Rest>>)
 @@ 12011 :> ESPacket(TRUE, FALSE, <<"message">>, <<Inline(MAX_MESSAGE_SIZE)>>)

ESReadsRoom ==
    13000 :> ESPacket(FALSE, FALSE, <<"roomName", "password", "settings">>, <<Inline(32), Inline(16), ESRoomSettings>>)
 @@ 13001 :> ESPacket(FALSE, FALSE, <<"roomId", "password">>, <<U(4), Inline(16)>>)
 @@ 13002 :> ESEmpty(FALSE)
 @@ 13003 :> ESEmpty(FALSE)
 @@ 13004 :> ESPacket(FALSE, FALSE, <<"settings">>, <<ESRoomSettings>>)
 @@ 13005 :> ESPacket(FALSE, FALSE, <<"player">>, <<I(4)>>)
 @@ 13006 :> ESEmpty(FALSE)

ESReadsAdmin ==
    19000 :> ESPacket(TRUE, TRUE, <<"key">>, <<Str>>)
 @@ 19001 :> ESPacket(FALSE, TRUE, <<"ptype", "roomId", "levelId", "player", "message">>,
          <<Enum(0..2), U(4), ESLevelId, Str, Str>>)
 @@ 19002 :> ESPacket(FALSE, TRUE, <<"player", "message">>, <<Str, Str>>)
 @@ 19003 :> ESPacket(FALSE, TRUE, <<"player">>, <<Str>>)
 @@ 19004 :> ESPacket(FALSE, TRUE, <<"userEntry">>, <<ESUserEntry>>)

ServerReads == ESReadsConnection @@ ESReadsGeneral @@ ESReadsGame @@ ESReadsRoom @@ ESReadsAdmin

(* data/packets/server: what it sends.                                     *)
ESSendsConnection ==
    20000 :> ESPacket(FALSE, FALSE, <<"id", "playerCount">>, <<U(4), U(4)>>)
 @@ 20001 :> ESPacket(FALSE, TRUE, <<"data">>, <<ESKey>>)
 @@ 20002 :> ESPacket(FALSE, FALSE, <<"playerCount">>, <<U(4)>>)
 @@ 20003 :> ESPacket(FALSE, TRUE, <<"message">>, <<Str>>)
 @@ 20004 :> ESPacket(TRUE, TRUE, <<"tps", "specialUserData", "allRoles", "secretKey">>,
          <<U(4), ESSpecialUserData, Vec(Struct(<<"intId", "role">>, <<U(1), ESServerRole>>)), U(4)>>)
 @@ 20005 :> ESPacket(FALSE, TRUE, <<"message">>, <<Str>>)
 @@ 20006 :> ESPacket(FALSE, TRUE, <<"serverProtocol", "minClientVersion">>, <<U(2), Str>>)
 @@ 20007 :> ESEmpty(TRUE)
 @@ 20008 :> ESEmpty(FALSE)
 @@ 20009 :> ESEmpty(TRUE)
 @@ 20100 :> ESPacket(FALSE, FALSE, <<"message">>, <<Str>>)
 @@ 20101 :> ESPacket(FALSE, TRUE, <<"message", "timestamp">>, <<Str, I(8)>>)
 @@ 20102 :> ESPacket(FALSE, FALSE, <<"reason", "timestamp">>, <<Str, I(8)>>)
 @@ 20200 :> ESPacket(FALSE, FALSE, <<"uid", "data">>, <<U(4), Vec(U(1))>>)

ESSendsGeneral ==
    21000 :> ESPacket(FALSE, TRUE, <<"data">>, <<Vec(ESPlayerPreviewAccountData)>>)
 @@ 21001 :> ESPacket(FALSE, TRUE, <<"levels">>, <<Vec(Struct(<<"levelId", "playerCount">>, <<ESLevelId, U(2)>>))>>)
 @@ 21002 :> ESPacket(FALSE, FALSE, <<"levels">>, <<Vec(Struct(<<"first", "second">>, <<ESLevelId, U(2)>>))>>)
 @@ 21003 :> ESPacket(FALSE, FALSE, <<"specialUserData">>, <<ESSpecialUserData>>)

ESSendsGame ==
    22000 :> ESPacket(FALSE, TRUE, <<"players">>, <<Vec(ESPlayerAccountData)>>)
 @@ 22001 :> ESPacket(FALSE, FALSE, <<"players">>, <<Vec(Struct(<<"accountId", "data">>, <<I(4), ESPlayerData>>))>>)
 @@ 22002 :> ESPacket(FALSE, TRUE, <<"players">>, <<Vec(Struct(<<"accountId", "data">>, <<I(4), ESPlayerMetadata>>))>>)
 @@ 22010 :> ESPacket(TRUE, FALSE, <<"sender", "frame">>, <<I(4), Rest>>)
 @@ 22011 :> ESPacket(TRUE, FALSE, <<"sender", "message">>, <<I(4), Inline(MAX_MESSAGE_SIZE)>>)

ESSendsRoom ==
    23000 :> ESPacket(FALSE, FALSE, <<"info">>, <<ESRoomInfo>>)
 @@ 23001 :> ESEmpty(FALSE)
 @@ 23002 :> ESPacket(FALSE, FALSE, <<"wasInvalid", "wasProtected", "wasFull">>, <<Bool, Bool, Bool>>)
 @@ 23003 :> ESPacket(FALSE, TRUE, <<"info", "players">>, <<ESRoomInfo, Vec(ESPlayerRoomPreviewAccountData)>>)
 @@ 23004 :> ESPacket(FALSE, FALSE, <<"info">>, <<ESRoomInfo>>)
 @@ 23005 :> ESPacket(FALSE, FALSE, <<"playerData", "roomID", "password">>,
          <<ESPlayerPreviewAccountData, U(4), Inline(16)>>)
 @@ 23006 :> ESPacket(FALSE, FALSE, <<"rooms">>, <<Vec(ESRoomListingInfo)>>)
 @@ 23007 :> ESPacket(FALSE, FALSE, <<"reason">>, <<Str>>)

ESSendsAdmin ==
    29000 :> ESPacket(FALSE, TRUE, <<"role">>, <<ESComputedRole>>)
 @@ 29001 :> ESPacket(TRUE, TRUE, <<"message">>, <<Str>>)
 @@ 29002 :> ESPacket(TRUE, TRUE, <<"userEntry", "accountData">>,
          <<ESUserEntry, Opt(ESPlayerRoomPreviewAccountData)>>)
 @@ 29003 :> ESPacket(FALSE, TRUE, <<"message">>, <<Str>>)
 @@ 29004 :> ESEmpty(TRUE)

ServerSends == ESSendsConnection @@ ESSendsGeneral @@ ESSendsGame @@ ESSendsRoom @@ ESSendsAdmin
=============================================================================
