---------------------------- MODULE RemoteVisuals ----------------------------
(***************************************************************************)
(* How another player is seen to die and to move.  The other player's      *)
(* client reports the time of its last death in every PlayerData           *)
(* (gatherPlayerData); PlayerInterpolator turns a new time into a frame    *)
(* flag, which RemotePlayer::updateData plays once.  ComplexVisualPlayer   *)
(* animates robot, spider and swing icons only on the screen and has to    *)
(* catch up when a player comes back into view.                            *)
(*                                                                         *)
(* Datagrams are lost, not reordered.  A death's time is its number.  Poses*)
(* stand for the animation that isGrounded, isStationary and isFalling     *)
(* select; what the icon does from one frame to the next is arbitrary.     *)
(*                                                                         *)
(* A definition whose name ends in _m is a faulty variant of the one after *)
(* it, kept to see that the properties notice the fault.                   *)
(***************************************************************************)
EXTENDS Naturals, Sequences

CONSTANTS MaxDeaths,        \* deaths of the other player
          MaxDatagrams      \* datagrams under way

ASSUME VisualsAssumption == MaxDeaths \in Nat \ {0} /\ MaxDatagrams \in Nat \ {0}

VARIABLES deaths, playerDead,     \* the other player
          isCurrentlyDead, lastDeathTimestamp,
          datagrams,        \* the lastDeathTimestamp of each PlayerData under way
          entry,            \* the interpolator's: [totalFrames, lastDeathTimestamp, pendingDeath]
          joinedAt,         \* the deaths reported in the first frame we got
          effects,          \* death flags given to RemotePlayer since then
          icon,             \* what updateData was last given: [type, pose, upsideDown]
          wasNearby,
          was,              \* wasGrounded and the like, and wasUpsideDown
          playing           \* the animations that run: [robot, swing]

sender == <<deaths, playerDead, isCurrentlyDead, lastDeathTimestamp>>
visual == <<icon, wasNearby, was, playing>>
visualVars == <<sender, datagrams, entry, joinedAt, effects, visual>>

Type == {"Cube", "Robot", "Spider", "Swing"}
Pose == {"ground", "air"}
Icon == [type : Type, pose : Pose, upsideDown : BOOLEAN]
NoEntry == [totalFrames |-> 0, lastDeathTimestamp |-> 0, pendingDeath |-> FALSE]

(* Every value the variables can take; a death is reported at most once it *)
(* has happened.                                                           *)
VisualTypeOK ==
    /\ deaths \in 0 .. MaxDeaths /\ {playerDead, isCurrentlyDead, wasNearby} \subseteq BOOLEAN
    /\ lastDeathTimestamp \in 0 .. deaths
    /\ datagrams \in Seq(0 .. deaths) /\ Len(datagrams) <= MaxDatagrams
    /\ entry.totalFrames \in 0 .. 2 /\ entry.lastDeathTimestamp \in 0 .. deaths
    /\ entry.pendingDeath \in BOOLEAN
    /\ joinedAt \in 0 .. deaths
    /\ icon \in Icon /\ was \in [pose : Pose, upsideDown : BOOLEAN]
    /\ playing \in [robot : Pose, swing : BOOLEAN]

VisualInit ==
    /\ deaths = 0 /\ playerDead = FALSE /\ isCurrentlyDead = FALSE /\ lastDeathTimestamp = 0
    /\ datagrams = <<>> /\ entry = NoEntry /\ joinedAt = 0 /\ effects = 0
    /\ icon = [type |-> "Cube", pose |-> "ground", upsideDown |-> FALSE]
    /\ wasNearby = FALSE
    /\ was = [pose |-> "ground", upsideDown |-> FALSE]
    /\ playing = [robot |-> "ground", swing |-> FALSE]

-----------------------------------------------------------------------------
(* The other player's client.                                              *)

PlayerDies ==
    /\ ~playerDead /\ deaths < MaxDeaths
    /\ playerDead' = TRUE /\ deaths' = deaths + 1
    /\ UNCHANGED <<isCurrentlyDead, lastDeathTimestamp, datagrams, entry, joinedAt, effects,
                   visual>>

PlayerRespawns ==
    /\ playerDead /\ playerDead' = FALSE
    /\ UNCHANGED <<deaths, isCurrentlyDead, lastDeathTimestamp, datagrams, entry, joinedAt,
                   effects, visual>>

(* The time is taken when a death is first noticed.                        *)
gatherPlayerData ==
    /\ lastDeathTimestamp' = IF playerDead /\ ~isCurrentlyDead THEN deaths ELSE lastDeathTimestamp
    /\ isCurrentlyDead' = playerDead

(* selSendPlayerData there, and the server's LevelDataPacket.              *)
SendPlayerData ==
    /\ Len(datagrams) < MaxDatagrams
    /\ gatherPlayerData
    /\ datagrams' = Append(datagrams, lastDeathTimestamp')
    /\ UNCHANGED <<deaths, playerDead, entry, joinedAt, effects, visual>>

LoseDatagram ==
    /\ datagrams # <<>> /\ datagrams' = Tail(datagrams)
    /\ UNCHANGED <<sender, entry, joinedAt, effects, visual>>

-----------------------------------------------------------------------------
(* Our client.                                                             *)

updatePlayer_m(time) ==
    entry' = [totalFrames |-> IF entry.totalFrames < 2 THEN entry.totalFrames + 1 ELSE 2,
              lastDeathTimestamp |-> time,
              pendingDeath |-> entry.pendingDeath \/ entry.lastDeathTimestamp # time]

(* updatePlayer: a death before the first frame is not shown, and a frame  *)
(* without a new death leaves the flag alone.                              *)
updatePlayer(time) ==
    entry' = [totalFrames |-> IF entry.totalFrames < 2 THEN entry.totalFrames + 1 ELSE 2,
              lastDeathTimestamp |-> time,
              pendingDeath |-> \/ entry.pendingDeath
                               \/ entry.lastDeathTimestamp # time /\ entry.totalFrames >= 1]

(* The LevelDataPacket listener.                                           *)
ReceivePlayerData ==
    /\ datagrams # <<>> /\ datagrams' = Tail(datagrams)
    /\ updatePlayer(Head(datagrams))
    /\ joinedAt' = IF entry.totalFrames = 0 THEN Head(datagrams) ELSE joinedAt
    /\ effects' = IF entry.totalFrames = 0 THEN 0 ELSE effects
    /\ UNCHANGED <<sender, visual>>

(* handlePlayerLeave: the entry goes; a later frame makes a new one.       *)
PlayerLeaves ==
    /\ entry # NoEntry /\ entry' = NoEntry
    /\ joinedAt' = 0 /\ effects' = 0
    /\ UNCHANGED <<sender, datagrams, visual>>

swapFrameFlags == entry' = [entry EXCEPT !.pendingDeath = FALSE]

animates(type) == type \in {"Robot", "Spider"}

(* ComplexVisualPlayer::updateData, as far as it animates.                 *)
updateData(new, isNearby) ==
    LET cameNearby == isNearby /\ ~wasNearby
        switchedMode == new.type # icon.type
        poseChanged == was.pose # new.pose \/ switchedMode \/ cameNearby
        swingChanged == \/ cameNearby
                        \/ (was.upsideDown # new.upsideDown \/ switchedMode) /\ isNearby
    IN /\ icon' = new /\ wasNearby' = isNearby
       /\ was' = [pose |-> IF animates(new.type) /\ poseChanged THEN new.pose ELSE was.pose,
                  upsideDown |-> IF new.type = "Swing" /\ swingChanged
                                 THEN new.upsideDown ELSE was.upsideDown]
       /\ playing' = [robot |-> IF animates(new.type) /\ poseChanged /\ isNearby
                                THEN was'.pose ELSE playing.robot,
                      swing |-> IF new.type = "Swing" /\ swingChanged
                                THEN was'.upsideDown ELSE playing.swing]

(* selUpdate for this player: tick, swapFrameFlags, RemotePlayer::updateData. *)
Frame(new, isNearby) ==
    /\ entry.totalFrames > 0
    /\ swapFrameFlags
    /\ effects' = IF entry.pendingDeath THEN effects + 1 ELSE effects
    /\ updateData(new, isNearby)
    /\ UNCHANGED <<sender, datagrams, joinedAt>>

VisualNext ==
    \/ PlayerDies \/ PlayerRespawns \/ SendPlayerData \/ LoseDatagram \/ ReceivePlayerData \/ PlayerLeaves
    \/ \E new \in Icon, isNearby \in BOOLEAN : Frame(new, isNearby)

-----------------------------------------------------------------------------
(* No death is shown that did not happen while we watched, and none twice, *)
(* although its time comes with every datagram, a player may leave and     *)
(* come back, and a new watcher has not seen the earlier deaths.           *)
NoPhantomDeath ==
    effects + (IF entry.pendingDeath THEN 1 ELSE 0) <= deaths - joinedAt

=============================================================================
