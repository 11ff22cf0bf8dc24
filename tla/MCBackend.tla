------------------------------ MODULE MCBackend ------------------------------
(* The rooms of the game server (RoomManager), the record of a user          *)
(* (UserRecords), and the central server's account verification              *)
(* (AccountVerification) and player counts (PlayerCounts), which share no    *)
(* state; a behaviour follows one of them.                                   *)
EXTENDS MCRoomManager, UserRecords, AccountVerification, PlayerCounts

VARIABLE follows

backendVars == <<follows, vars, recordVars, verifyVars, countVars>>

BackendInit ==
    /\ Init /\ RecordInit /\ VerifyInit /\ CountInit
    /\ follows \in {"rooms", "record", "verifier", "counts"}

FollowRooms(A) ==
    follows = "rooms" /\ A /\ UNCHANGED <<follows, recordVars, verifyVars, countVars>>
FollowRecord(A) ==
    follows = "record" /\ A /\ UNCHANGED <<follows, vars, verifyVars, countVars>>
FollowVerifier(A) ==
    follows = "verifier" /\ A /\ UNCHANGED <<follows, vars, recordVars, countVars>>
FollowCounts(A) ==
    follows = "counts" /\ A /\ UNCHANGED <<follows, vars, recordVars, verifyVars>>

BackendNext ==
    \/ FollowRooms(Next) \/ FollowRecord(RecordNext)
    \/ FollowVerifier(VerifyNext) \/ FollowCounts(CountNext)

BackendSpec == BackendInit /\ [][BackendNext]_backendVars
=============================================================================
