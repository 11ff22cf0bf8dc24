------------------------------- MODULE MCMenus -------------------------------
(* The menus of the client: RoomMenu, LevelMenu, Invites and Notices, which *)
(* share no state; a behaviour follows one of them.                          *)
EXTENDS RoomMenu, LevelMenu, Notices, Invites

VARIABLE follows

vars == <<follows, menuVars, lmVars, noticeVars, inviteVars>>

Init ==
    /\ RMInit /\ LMInit /\ NotInit /\ InvInit
    /\ follows \in {"rooms", "levels", "notices", "invites"}

FollowRooms(A) ==
    follows = "rooms" /\ A /\ UNCHANGED <<follows, lmVars, noticeVars, inviteVars>>
FollowLevels(A) ==
    follows = "levels" /\ A /\ UNCHANGED <<follows, menuVars, noticeVars, inviteVars>>
FollowNotices(A) ==
    follows = "notices" /\ A /\ UNCHANGED <<follows, menuVars, lmVars, inviteVars>>
FollowInvites(A) ==
    follows = "invites" /\ A /\ UNCHANGED <<follows, menuVars, lmVars, noticeVars>>

Next ==
    \/ FollowRooms(RMNext) \/ FollowLevels(LMNext)
    \/ FollowNotices(NotNext) \/ FollowInvites(InvNext)

(* Scheduled functions run. A scene rests longer than ErrorCheckNode's tenth *)
(* of a second.                                                              *)
FairSpec ==
    /\ Init /\ [][Next]_vars
    /\ SF_vars(FollowNotices(updateErrors))
    /\ WF_vars(FollowNotices(scene = "transition" /\ SceneChanges))
    /\ WF_vars(FollowInvites(PanelUpdate)) /\ WF_vars(FollowInvites(BufferEnds))
=============================================================================
