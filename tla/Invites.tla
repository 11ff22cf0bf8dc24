------------------------------ MODULE Invites ------------------------------
(***************************************************************************)
(* GlobedNotificationPanel with its room invites: they slide in one at a   *)
(* time, at least NOTIFICATION_BUFFER_TIME apart.                          *)
(*                                                                         *)
(* A definition that ends in _m is a faulty variant of the one it is named *)
(* after; no specification uses it.                                        *)
(***************************************************************************)
EXTENDS Integers, Sequences, SequencesExt

CONSTANTS
    MaxInvites,    \* bound: room invites received
    InvitesFrom    \* the setting: "everyone", "friends" or "nobody"

ASSUME InvitesAssumption == InvitesFrom \in {"everyone", "friends", "nobody"}

VARIABLES
    npanel,     \* the children of the notification panel, oldest first
    nqueue,     \* queuedNotifs
    buffering,  \* less than NOTIFICATION_BUFFER_TIME since the last was added
    noOnline, ninvites

inviteVars == <<npanel, nqueue, buffering, noOnline, ninvites>>

\* Within the buffer time the notification is queued; the oldest of three
\* makes room.
slideInNotification(n, rest) ==
    IF buffering
    THEN nqueue' = Append(rest, n) /\ UNCHANGED <<npanel, buffering>>
    ELSE /\ npanel' = Append(IF Len(npanel) >= 3 THEN Tail(npanel) ELSE npanel, n)
         /\ nqueue' = rest
         /\ buffering' = TRUE

\* The RoomInvite listener: the setting decides whose invites are shown.
OnRoomInvite ==
    /\ noOnline /\ ninvites < MaxInvites
    /\ ninvites' = ninvites + 1
    /\ \E fromFriend \in BOOLEAN :
          IF InvitesFrom = "nobody" \/ (InvitesFrom = "friends" /\ ~fromFriend)
          THEN UNCHANGED <<npanel, nqueue, buffering>>
          ELSE slideInNotification(ninvites + 1, nqueue)
    /\ UNCHANGED noOnline

ClearPanel_m == npanel' = <<>> /\ UNCHANGED nqueue
ClearPanel == npanel' = <<>> /\ nqueue' = <<>>

\* Every frame: everything goes when the connection is gone, else the first
\* of the queue slides in once the buffer time is over.
PanelUpdate ==
    /\ \/ /\ ~noOnline
          /\ ClearPanel
          /\ UNCHANGED buffering
       \/ /\ noOnline /\ nqueue # <<>> /\ ~buffering
          /\ slideInNotification(Head(nqueue), Tail(nqueue))
    /\ UNCHANGED <<noOnline, ninvites>>

BufferEnds ==
    /\ buffering /\ buffering' = FALSE
    /\ UNCHANGED <<npanel, nqueue, noOnline, ninvites>>

\* Accept and Reject both remove the notification.
AnswerInvite ==
    /\ \E k \in DOMAIN npanel : npanel' = RemoveAt(npanel, k)
    /\ UNCHANGED <<nqueue, buffering, noOnline, ninvites>>

NoticesConnection ==
    /\ noOnline' = ~noOnline
    /\ UNCHANGED <<npanel, nqueue, buffering, ninvites>>

---------------------------------------------------------------------------

InvInit ==
    /\ npanel = <<>> /\ nqueue = <<>> /\ buffering = FALSE
    /\ noOnline = TRUE /\ ninvites = 0

InvNext == OnRoomInvite \/ PanelUpdate \/ BufferEnds \/ AnswerInvite \/ NoticesConnection

---------------------------------------------------------------------------
(* Properties *)

\* A queued invite is shown or, when the connection is lost, dropped: the queue
\* runs empty.
InvitesDrain == nqueue # <<>> ~> nqueue = <<>>
=============================================================================
