---------------------------- MODULE LevelProofs ----------------------------
(***************************************************************************)
(* Proofs about what a player sees, hears and saves in a level:            *)
(* LevelProgress, LevelSocial and RemoteVisuals, which share no state.     *)
(***************************************************************************)
EXTENDS LevelProgress, LevelSocial, RemoteVisuals, TLAPS

-----------------------------------------------------------------------------
(* LevelProgress *)

ProgressSpec == ProgressInit /\ [][ProgressNext]_progressVars

(* Whoever is where a teleport led to is in safe mode, or in practice mode *)
(* at a checkpoint; a checkpoint from such a place is left behind with     *)
(* practice mode, and there is none in two-player mode.                    *)
ProgressInv ==
    /\ room \in [collision : BOOLEAN, twoPlayerMode : BOOLEAN]
    /\ room.collision => progressForciblyDisabled
    /\ progressForciblyDisabled => shouldStopProgress
    /\ teleported => shouldStopProgress \/ practice
    /\ practice => ~platformer
    /\ checkpoint = "unfair" => practice \/ (platformer /\ shouldStopProgress)
    /\ linked => room.twoPlayerMode
    /\ room.twoPlayerMode => ~teleported /\ checkpoint # "unfair"
    /\ "unfair" \notin saved

(* The progress that destroyPlayer or levelComplete saves is fair, or made *)
(* in practice mode.                                                       *)
LEMMA SavesFair ==
    ASSUME ProgressInv
    PROVE  /\ savePercentage => "unfair" \notin saved'
           /\ destroyPlayer => "unfair" \notin saved'
BY DEF ProgressInv, savePercentage, destroyPlayer

(* Progress made with a teleport, or where collision lets players carry    *)
(* each other, is never saved as a record: not by dying, completing,       *)
(* restarting, or changing the mode in whatever order.                     *)
THEOREM ProgressIsFair == ProgressSpec => []NoUnfairProgress
<1>1. ProgressInit => ProgressInv
  BY DEF ProgressInit, ProgressInv
<1>2. ProgressInv /\ [ProgressNext]_progressVars => ProgressInv'
  <2> SUFFICES ASSUME ProgressInv, [ProgressNext]_progressVars PROVE ProgressInv'
    OBVIOUS
  <2>1. CASE UNCHANGED progressVars
    BY <2>1 DEF progressVars, ProgressInv
  <2>2. CASE setupHasCompleted \/ AntiCheatProbe \/ LinkedPlayerDies \/ linkPlayerTo
    BY <2>2 DEF setupHasCompleted, AntiCheatProbe, LinkedPlayerDies, linkPlayerTo, level,
                ProgressInv
  <2>3. CASE Teleport
    BY <2>3, Zenon DEF Teleport, toggleSafeMode, level, ProgressInv
  <2>4. CASE Die \/ ForceKill \/ levelComplete
    <3>1. "unfair" \notin saved'
      BY <2>4, SavesFair DEF Die, ForceKill, levelComplete
    <3>2. QED
      BY <2>4, <3>1 DEF Die, ForceKill, levelComplete, level, ProgressInv
  <2>5. ASSUME NEW cp \in {"none", checkpoint}, resetLevel(cp), UNCHANGED <<level, linked>>,
               \/ cp = checkpoint /\ UNCHANGED <<practice, checkpoint>>
               \/ cp = "none" /\ practice' = ~practice /\ checkpoint' = "none" /\ ~platformer
        PROVE  ProgressInv'
    <3>1. CASE RedirectReset /\ destroyPlayer /\ UNCHANGED <<teleported, shouldStopProgress>>
      <4>1. "unfair" \notin saved'
        BY <3>1, SavesFair
      <4>2. QED
        BY <2>5, <3>1, <4>1 DEF RedirectReset, level, ProgressInv
    <3>2. CASE /\ ~RedirectReset /\ Respawn(cp) /\ UNCHANGED saved
               /\ shouldStopProgress' = IF setupWasCompleted /\ ~platformer
                                        THEN toggleSafeMode(FALSE) ELSE shouldStopProgress
      <4>1. teleported' <=> (practice \/ platformer) /\ cp = "unfair"
        BY <3>2, Zenon DEF Respawn
      <4>2. /\ platformer => (shouldStopProgress' <=> shouldStopProgress)
            /\ progressForciblyDisabled => shouldStopProgress'
        BY <3>2, Zenon DEF toggleSafeMode, ProgressInv
      <4>3. CASE cp = checkpoint /\ UNCHANGED <<practice, checkpoint>>
        BY <2>5, <3>2, <4>1, <4>2, <4>3, Zenon DEF level, ProgressInv
      <4>4. CASE cp = "none" /\ checkpoint' = "none" /\ ~platformer
        <5>1. ~teleported' /\ checkpoint' # "unfair"
          BY <4>1, <4>4
        <5>2. QED
          BY <2>5, <3>2, <4>2, <4>4, <5>1, Zenon DEF level, ProgressInv
      <4>5. QED
        BY <2>5, <4>3, <4>4
    <3>3. QED
      BY <2>5, <3>1, <3>2, Zenon DEF resetLevel
  <2>6. CASE Restart
    BY <2>5, <2>6 DEF Restart
  <2>7. CASE TogglePracticeMode
    BY <2>5, <2>7 DEF TogglePracticeMode, level, ProgressInv
  <2>8. CASE fullReset
    <3>1. "unfair" \notin saved'
      BY <2>8, SavesFair DEF fullReset, ProgressInv
    <3>2. progressForciblyDisabled => shouldStopProgress'
      BY <2>8, Zenon DEF fullReset, toggleSafeMode
    <3>3. ((teleported' <=> teleported) /\ room.twoPlayerMode) \/ ~teleported'
      BY <2>8, Zenon DEF fullReset, RedirectReset, Respawn, ProgressInv
    <3>4. QED
      BY <2>8, <3>1, <3>2, <3>3, Zenon DEF fullReset, level, ProgressInv
  <2>9. CASE PlaceCheckpoint
    BY <2>9 DEF PlaceCheckpoint, level, ProgressInv
  <2>10. QED
    BY <2>1, <2>2, <2>3, <2>4, <2>6, <2>7, <2>8, <2>9 DEF ProgressNext
<1>3. ProgressInv => NoUnfairProgress
  BY DEF ProgressInv, NoUnfairProgress
<1>4. QED
  BY <1>1, <1>2, <1>3, PTL DEF ProgressSpec

-----------------------------------------------------------------------------
(* LevelSocial *)

SocialSpec == SocialInit /\ [][SocialNext]_socialVars

(* The hidden players of the layer are those that hiddenPlayers lists, and *)
(* a button that is not about to be made anew knows what the lists say:    *)
(* also for a player who has left, and may come back.                      *)
SocialInv ==
    /\ \A i \in Known : players[i] <=> i \in hiddenPlayers
    /\ remake \subseteq DOMAIN cells
    /\ \A i \in DOMAIN cells \ remake :
          cells[i].made => /\ cells[i].isUnblocked <=> shouldLetMessageThrough(i)
                           /\ cells[i].isHidden <=> i \in hiddenPlayers

(* A button of the user list does what its icon says, whoever joins,       *)
(* leaves, is muted or hidden while the list is open.                      *)
THEOREM ButtonsAreTruthful == SocialSpec => []ButtonsTruthful
<1>1. SocialInit => SocialInv
  BY DEF SocialInit, SocialInv, NoEntries, Known
<1>2. SocialInv /\ [SocialNext]_socialVars => SocialInv'
  <2> SUFFICES ASSUME SocialInv, [SocialNext]_socialVars PROVE SocialInv'
    OBVIOUS
  <2> USE DEF SocialInv, Known, shouldLetMessageThrough
  <2>1. CASE UNCHANGED <<players, hiddenPlayers, cells, remake, onlyFriends, lists>>
    BY <2>1 DEF lists
  <2>2. ASSUME NEW i \in Id, handlePlayerJoin(i) PROVE SocialInv'
    <3>1. /\ DOMAIN players' = Known \cup {i}
          /\ players'[i] <=> i \in hiddenPlayers
          /\ \A j \in Known : players'[j] = players[j]
      BY <2>2, Zenon DEF handlePlayerJoin
    <3>2. QED
      BY <2>2, <3>1 DEF handlePlayerJoin, settings, lists, ui
  <2>3. ASSUME NEW i \in Id, handlePlayerLeave(i) PROVE SocialInv'
    <3>1. /\ DOMAIN players' = Known \ {i} /\ \A j \in Known \ {i} : players'[j] = players[j]
      BY <2>3 DEF handlePlayerLeave, Without, Restrict
    <3>2. QED
      BY <2>3, <3>1 DEF handlePlayerLeave, settings, lists, ui
  <2>4. ASSUME cells' = createPlayerCells, remake' = {},
               UNCHANGED <<players, hiddenPlayers, onlyFriends, lists>>
        PROVE  SocialInv'
    BY <2>4 DEF createPlayerCells, makeButtons, lists
  <2>5. CASE OpenUserList
    <3>1. remake' = {}
      BY <2>5 DEF OpenUserList, NoEntries
    <3>2. QED
      BY <2>4, <2>5, <3>1 DEF OpenUserList, settings
  <2>6. CASE reloadList
    BY <2>4, <2>6 DEF reloadList, settings
  <2>7. CASE CloseUserList \/ onQuitActions
    BY <2>7 DEF CloseUserList, onQuitActions, NoEntries, settings, lists
  <2>8. ASSUME NEW i \in Id, MuteButton(i) PROVE SocialInv'
    <3>1. /\ remake' = remake \cup {i} /\ i \in DOMAIN cells
          /\ UNCHANGED <<players, hiddenPlayers, onlyFriends, cells>>
          /\ \A j : j # i => /\ j \in blocked' <=> j \in blocked
                             /\ j \in allowed' <=> j \in allowed
      BY <2>8 DEF MuteButton, Pressable, blacklist, whitelist, settings
    <3>2. QED
      BY <3>1
  <2>9. ASSUME NEW i \in Id, HideButton(i) PROVE SocialInv'
    <3>1. /\ remake' = remake \cup {i} /\ i \in DOMAIN cells /\ i \in Known
          /\ UNCHANGED <<onlyFriends, cells, lists>> /\ DOMAIN players' = Known
          /\ \A j \in Known \ {i} : players'[j] = players[j]
          /\ \A j : j # i => (j \in hiddenPlayers' <=> j \in hiddenPlayers)
      BY <2>9 DEF HideButton, Pressable, settings
    <3>2. players'[i] <=> i \in hiddenPlayers'
      BY <2>9, Zenon DEF HideButton, Pressable
    <3>3. QED
      BY <3>1, <3>2 DEF lists
  <2>10. ASSUME NEW i \in Id, RemakeButtons(i) PROVE SocialInv'
    <3>1. /\ i \in DOMAIN cells /\ remake' = remake \ {i}
          /\ UNCHANGED <<players, hiddenPlayers, onlyFriends, lists>>
          /\ DOMAIN cells' = DOMAIN cells /\ cells'[i] = makeButtons(i)
          /\ \A j \in DOMAIN cells \ {i} : cells'[j] = cells[j]
      BY <2>10 DEF RemakeButtons, settings
    <3>2. makeButtons(i).made => /\ makeButtons(i).isUnblocked <=> shouldLetMessageThrough(i)
                                 /\ makeButtons(i).isHidden <=> i \in hiddenPlayers
      BY DEF makeButtons
    <3>3. QED
      BY <3>1, <3>2 DEF lists
  <2>11. ASSUME NEW i \in Id, NEW v \in Volume, VoiceBroadcast(i, v) PROVE SocialInv'
    BY <2>1, <2>11 DEF VoiceBroadcast, settings, ui
  <2>12. ASSUME NEW i \in Id, LevelPlayerMetadata(i) \/ PlayerProfiles(i) PROVE SocialInv'
    BY <2>1, <2>12 DEF LevelPlayerMetadata, PlayerProfiles, settings, ui
  <2>13. ASSUME NEW v \in [Id -> Volume], SelUpdate(v) PROVE SocialInv'
    BY <2>1, <2>13 DEF SelUpdate, settings, ui
  <2>14. CASE VoiceDeafen
    BY <2>1, <2>14 DEF VoiceDeafen, settings, ui
  <2>15. CASE UNCHANGED socialVars
    BY <2>1, <2>15 DEF socialVars, lists
  <2>16. QED
    BY <2>2, <2>3, <2>5, <2>6, <2>7, <2>8, <2>9, <2>10, <2>11, <2>12, <2>13, <2>14, <2>15
       DEF SocialNext
<1>3. SocialInv => ButtonsTruthful
  BY DEF SocialInv, ButtonsTruthful
<1>4. QED
  BY <1>1, <1>2, <1>3, PTL DEF SocialSpec

-----------------------------------------------------------------------------
(* RemoteVisuals *)

VisualSpec == VisualInit /\ [][VisualNext]_visualVars

(* The times on their way grow, from the last one the interpolator knows   *)
(* to the last one the other client has taken; and as many deaths as were  *)
(* shown, or are about to be, lie between the first time and that one.     *)
DeathTimes ==
    /\ deaths \in Nat /\ lastDeathTimestamp \in 0 .. deaths
    /\ datagrams \in Seq(Nat)
    /\ \A i \in 1 .. Len(datagrams) : datagrams[i] =< lastDeathTimestamp
    /\ \A i, j \in 1 .. Len(datagrams) : i < j => datagrams[i] =< datagrams[j]
    /\ entry.totalFrames \in Nat /\ entry.lastDeathTimestamp \in 0 .. lastDeathTimestamp
    /\ entry.totalFrames > 0 =>
           \A i \in 1 .. Len(datagrams) : entry.lastDeathTimestamp =< datagrams[i]

PendingDeaths == IF entry.pendingDeath THEN 1 ELSE 0

DeathsShown ==
    /\ effects \in Nat /\ joinedAt \in Nat
    /\ IF entry.totalFrames = 0 THEN effects = 0 /\ joinedAt = 0 /\ ~entry.pendingDeath
       ELSE effects + PendingDeaths =< entry.lastDeathTimestamp - joinedAt

VisualInv == DeathTimes /\ DeathsShown

(* No death is shown that did not happen while we watched, and none twice. *)
THEOREM NoPhantomDeaths == VisualSpec => []NoPhantomDeath
<1>1. VisualInit => VisualInv
  BY DEF VisualInit, VisualInv, DeathTimes, DeathsShown, NoEntry
<1>2. VisualInv /\ [VisualNext]_visualVars => VisualInv'
  <2> SUFFICES ASSUME VisualInv, [VisualNext]_visualVars PROVE VisualInv'
    OBVIOUS
  <2> USE DEF VisualInv, DeathTimes, DeathsShown, PendingDeaths
  <2>1. CASE PlayerDies \/ PlayerRespawns
    <3>1. /\ deaths' \in {deaths, deaths + 1}
          /\ UNCHANGED <<lastDeathTimestamp, datagrams, entry, joinedAt, effects>>
      BY <2>1 DEF PlayerDies, PlayerRespawns
    <3>2. QED
      BY <3>1
  <2>2. CASE SendPlayerData
    <3>1. /\ lastDeathTimestamp' \in lastDeathTimestamp .. deaths
          /\ datagrams' = Append(datagrams, lastDeathTimestamp')
          /\ UNCHANGED <<deaths, entry, joinedAt, effects>>
      BY <2>2 DEF SendPlayerData, gatherPlayerData
    <3>2. /\ datagrams' \in Seq(Nat) /\ Len(datagrams') = Len(datagrams) + 1
          /\ datagrams'[Len(datagrams) + 1] = lastDeathTimestamp'
          /\ \A i \in 1 .. Len(datagrams) : datagrams'[i] = datagrams[i]
      BY <3>1
    <3>3. Len(datagrams) \in Nat /\ \A i \in 1 .. Len(datagrams) : datagrams[i] \in Nat
      OBVIOUS
    <3>4. QED
      BY <3>1, <3>2, <3>3
  <2>3. ASSUME datagrams # << >>, datagrams' = Tail(datagrams)
        PROVE  /\ datagrams' \in Seq(Nat) /\ Head(datagrams) \in Nat
               /\ Head(datagrams) = datagrams[1] /\ 1 \in 1 .. Len(datagrams)
               /\ \A i \in 1 .. Len(datagrams') :
                      datagrams'[i] = datagrams[i + 1] /\ i + 1 \in 1 .. Len(datagrams)
               /\ \A i \in 1 .. Len(datagrams') : datagrams'[i] \in Nat
    BY <2>3
  <2>4. CASE LoseDatagram
    BY <2>3, <2>4 DEF LoseDatagram, sender
  <2>5. CASE ReceivePlayerData
    <3> DEFINE time == Head(datagrams)
    <3>1. /\ datagrams # << >> /\ datagrams' = Tail(datagrams)
          /\ UNCHANGED <<deaths, lastDeathTimestamp>>
          /\ entry'.totalFrames \in Nat \ {0} /\ entry'.lastDeathTimestamp = time
          /\ joinedAt' = IF entry.totalFrames = 0 THEN time ELSE joinedAt
          /\ effects' = IF entry.totalFrames = 0 THEN 0 ELSE effects
      BY <2>5 DEF ReceivePlayerData, updatePlayer, sender
    <3>2. entry'.pendingDeath <=>
             \/ entry.pendingDeath
             \/ entry.lastDeathTimestamp # time /\ entry.totalFrames >= 1
      BY <2>5 DEF ReceivePlayerData, updatePlayer
    <3>3. /\ time \in 0 .. lastDeathTimestamp
          /\ entry.totalFrames > 0 => entry.lastDeathTimestamp =< time
          /\ \A i \in 1 .. Len(datagrams') : time =< datagrams'[i]
      BY <2>3, <3>1
    <3>4. DeathTimes'
      BY <2>3, <3>1, <3>3
    <3> HIDE DEF time
    <3>5. CASE entry.totalFrames = 0
      <4>1. ~entry'.pendingDeath
        BY <3>2, <3>5
      <4>2. QED
        BY <3>1, <3>3, <3>4, <3>5, <4>1
    <3>6. CASE entry.totalFrames > 0
      <4>1. time \in Nat /\ effects' = effects /\ joinedAt' = joinedAt
        BY <3>1, <3>3, <3>6
      <4>2. effects + PendingDeaths' =< time - joinedAt
        BY <3>2, <3>3, <3>6, <4>1
      <4>3. QED
        BY <3>1, <3>4, <4>1, <4>2
    <3>7. QED
      BY <3>5, <3>6
  <2>6. CASE PlayerLeaves
    BY <2>6 DEF PlayerLeaves, NoEntry, sender
  <2>7. ASSUME NEW new \in Icon, NEW isNearby \in BOOLEAN, Frame(new, isNearby)
        PROVE  VisualInv'
    <3>1. /\ UNCHANGED <<deaths, lastDeathTimestamp, datagrams, joinedAt>>
          /\ entry' = [entry EXCEPT !.pendingDeath = FALSE] /\ entry.totalFrames > 0
          /\ effects' = IF entry.pendingDeath THEN effects + 1 ELSE effects
      BY <2>7 DEF Frame, swapFrameFlags, sender
    <3>2. QED
      BY <3>1
  <2>8. CASE UNCHANGED visualVars
    BY <2>8 DEF visualVars, sender
  <2>9. QED
    BY <2>1, <2>2, <2>4, <2>5, <2>6, <2>7, <2>8 DEF VisualNext
<1>3. VisualInv => NoPhantomDeath
  BY DEF VisualInv, DeathTimes, DeathsShown, PendingDeaths, NoPhantomDeath
<1>4. QED
  BY <1>1, <1>2, <1>3, PTL DEF VisualSpec

=============================================================================
