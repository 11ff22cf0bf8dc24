---------------------------- MODULE LevelProgress ----------------------------
(***************************************************************************)
(* Progress in a level: safe mode (GlobedGJBGL::toggleSafeMode), the hooks *)
(* of PlayLayer (hooks/play_layer.cpp) and GJGameLevel                     *)
(* (hooks/gjgamelevel.cpp) that keep progress from being saved, and two-   *)
(* player mode, where a restart is turned into a death.                    *)
(*                                                                         *)
(* What the game itself does when a hook calls it - saving a percentage,   *)
(* respawning at the last checkpoint in practice mode and in platformer    *)
(* levels - is external and modelled from how the hooks use it.            *)
(*                                                                         *)
(* A definition whose name ends in _m is a faulty variant of the one after *)
(* it, kept to see that the properties notice the fault.                   *)
(***************************************************************************)
EXTENDS Naturals

VARIABLES room,             \* roomSettings.flags
          platformer,
          practice,
          setupWasCompleted,
          shouldStopProgress,
          progressForciblyDisabled,
          dead,
          insideDestroyPlayer,
          linked,           \* twopstate.active
          pendingKill,      \* a forceKill queued for the death of the linked player
          teleported,       \* the position was reached by a teleport
          checkpoint,       \* "none", or how the last checkpoint was reached
          saved             \* the kinds of progress saved so far

progressVars == <<room, platformer, practice, setupWasCompleted, shouldStopProgress,
                  progressForciblyDisabled, dead, insideDestroyPlayer, linked, pendingKill,
                  teleported, checkpoint, saved>>
level == <<room, platformer, progressForciblyDisabled>>

(* Progress made unfairly counts as "practice" in practice mode.           *)
Kinds == {"fair", "unfair", "practice"}

(* Every value the variables can take; in a room with collision safe mode  *)
(* is always on.                                                           *)
ProgressTypeOK ==
    /\ room \in [collision : BOOLEAN, twoPlayerMode : BOOLEAN]
    /\ {platformer, practice, setupWasCompleted, shouldStopProgress, progressForciblyDisabled,
        dead, insideDestroyPlayer, linked, pendingKill, teleported} \subseteq BOOLEAN
    /\ checkpoint \in {"none", "fair", "unfair"}
    /\ saved \subseteq Kinds
    /\ progressForciblyDisabled => shouldStopProgress

(* setupMisc: collision forces safe mode.                                  *)
ProgressInit ==
    /\ room \in [collision : BOOLEAN, twoPlayerMode : BOOLEAN]
    /\ platformer \in BOOLEAN /\ practice = FALSE
    /\ setupWasCompleted = FALSE
    /\ progressForciblyDisabled = room.collision /\ shouldStopProgress = room.collision
    /\ dead = FALSE /\ insideDestroyPlayer = FALSE
    /\ linked = FALSE /\ pendingKill = FALSE
    /\ teleported = FALSE /\ checkpoint = "none" /\ saved = {}

(* toggleSafeMode: forced on in a room with collision.                     *)
toggleSafeMode(enabled) == enabled \/ progressForciblyDisabled

(* GJGameLevel::savePercentage behind its hook.                            *)
savePercentage ==
    saved' = IF shouldStopProgress THEN saved
             ELSE saved \cup {IF ~teleported /\ ~room.collision THEN "fair"
                              ELSE IF practice THEN "practice" ELSE "unfair"}

setupHasCompleted ==
    /\ ~setupWasCompleted /\ setupWasCompleted' = TRUE
    /\ UNCHANGED <<level, practice, shouldStopProgress, dead, insideDestroyPlayer, linked,
                   pendingKill, teleported, checkpoint, saved>>

(* The teleport button of a user cell (not in two-player mode).            *)
Teleport ==
    /\ setupWasCompleted /\ ~room.twoPlayerMode /\ ~dead
    /\ shouldStopProgress' = toggleSafeMode(TRUE)
    /\ teleported' = TRUE
    /\ UNCHANGED <<level, practice, setupWasCompleted, dead, insideDestroyPlayer, linked,
                   pendingKill, checkpoint, saved>>

(* destroyPlayer.  The icon of the linked player does not die of obstacles *)
(* (noclip); the game ignores the death of a player who is dead.           *)
destroyPlayer ==
    /\ insideDestroyPlayer' = TRUE
    /\ dead' = TRUE
    /\ IF dead THEN UNCHANGED saved ELSE savePercentage

(* An obstacle kills our own icon.                                         *)
Die ==
    /\ setupWasCompleted
    /\ destroyPlayer
    /\ UNCHANGED <<level, practice, setupWasCompleted, shouldStopProgress, linked, pendingKill,
                   teleported, checkpoint>>

(* The game's anti-cheat probe: a destroyPlayer that kills nobody.         *)
AntiCheatProbe ==
    /\ setupWasCompleted
    /\ insideDestroyPlayer' = TRUE
    /\ UNCHANGED <<level, practice, setupWasCompleted, shouldStopProgress, dead, linked,
                   pendingKill, teleported, checkpoint, saved>>

(* PlayLayer::resetLevel of the game: from the last checkpoint in practice *)
(* mode and in platformer levels, else from the start.                     *)
Respawn(cp) ==
    /\ dead' = FALSE /\ insideDestroyPlayer' = FALSE
    /\ teleported' = ((practice \/ platformer) /\ cp = "unfair")

RedirectReset == linked /\ setupWasCompleted /\ ~insideDestroyPlayer

resetLevel_m(cp) ==
    \/ /\ RedirectReset
       /\ destroyPlayer
       /\ UNCHANGED <<teleported, shouldStopProgress>>
    \/ /\ ~RedirectReset
       /\ Respawn(cp)
       /\ shouldStopProgress' = IF setupWasCompleted
                                THEN toggleSafeMode(FALSE) ELSE shouldStopProgress
       /\ UNCHANGED saved

(* The hook: in two-player mode a restart counts as a death (forceKill);   *)
(* otherwise safe mode is turned off, except in platformer levels.         *)
resetLevel(cp) ==
    \/ /\ RedirectReset
       /\ destroyPlayer
       /\ UNCHANGED <<teleported, shouldStopProgress>>
    \/ /\ ~RedirectReset
       /\ Respawn(cp)
       /\ shouldStopProgress' = IF setupWasCompleted /\ ~platformer
                                THEN toggleSafeMode(FALSE) ELSE shouldStopProgress
       /\ UNCHANGED saved

(* The game restarts after a death, and the user from the pause menu.      *)
Restart ==
    /\ resetLevel(checkpoint)
    /\ UNCHANGED <<level, practice, setupWasCompleted, linked, pendingKill, checkpoint>>

(* fullReset: no checkpoints, resetLevel, and safe mode off.               *)
fullReset ==
    /\ setupWasCompleted
    /\ checkpoint' = "none"
    /\ shouldStopProgress' = toggleSafeMode(FALSE)
    /\ \/ RedirectReset /\ destroyPlayer /\ UNCHANGED teleported
       \/ ~RedirectReset /\ Respawn("none") /\ UNCHANGED saved
    /\ UNCHANGED <<level, practice, setupWasCompleted, linked, pendingKill>>

PlaceCheckpoint ==
    /\ setupWasCompleted /\ ~dead /\ (practice \/ platformer)
    /\ checkpoint' = IF teleported THEN "unfair" ELSE "fair"
    /\ UNCHANGED <<level, practice, setupWasCompleted, shouldStopProgress, dead,
                   insideDestroyPlayer, linked, pendingKill, teleported, saved>>

(* Practice mode on, or off with a restart from the beginning.             *)
TogglePracticeMode ==
    /\ setupWasCompleted /\ ~platformer /\ ~dead
    /\ practice' = ~practice /\ checkpoint' = "none"
    /\ IF practice THEN resetLevel("none")
       ELSE UNCHANGED <<shouldStopProgress, dead, insideDestroyPlayer, teleported, saved>>
    /\ UNCHANGED <<level, setupWasCompleted, linked, pendingKill>>

(* levelComplete: in safe mode the level is quit instead.                  *)
levelComplete ==
    /\ setupWasCompleted /\ ~dead
    /\ savePercentage
    /\ UNCHANGED <<level, practice, setupWasCompleted, shouldStopProgress, dead,
                   insideDestroyPlayer, linked, pendingKill, teleported, checkpoint>>

(* linkPlayerTo, from the link button; nothing ends the link.              *)
linkPlayerTo ==
    /\ setupWasCompleted /\ room.twoPlayerMode
    /\ linked' = TRUE
    /\ UNCHANGED <<level, practice, setupWasCompleted, shouldStopProgress, dead,
                   insideDestroyPlayer, pendingKill, teleported, checkpoint, saved>>

(* updateFromLockedPlayer: the linked player has died.                     *)
LinkedPlayerDies ==
    /\ linked
    /\ pendingKill' = TRUE
    /\ UNCHANGED <<level, practice, setupWasCompleted, shouldStopProgress, dead,
                   insideDestroyPlayer, linked, teleported, checkpoint, saved>>
ForceKill ==
    /\ pendingKill /\ pendingKill' = FALSE
    /\ destroyPlayer
    /\ UNCHANGED <<level, practice, setupWasCompleted, shouldStopProgress, linked, teleported,
                   checkpoint>>

ProgressNext ==
    \/ setupHasCompleted \/ Teleport \/ Die \/ AntiCheatProbe \/ Restart \/ fullReset \/ PlaceCheckpoint
    \/ TogglePracticeMode \/ levelComplete \/ linkPlayerTo \/ LinkedPlayerDies \/ ForceKill

-----------------------------------------------------------------------------
(* Progress made with a teleport or in a room with collision is never      *)
(* saved as progress in normal mode, through any sequence of deaths,       *)
(* restarts, checkpoints, full resets and changes of mode.                 *)
NoUnfairProgress == "unfair" \notin saved
=============================================================================
