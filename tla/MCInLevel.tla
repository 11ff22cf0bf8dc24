------------------------------ MODULE MCInLevel ------------------------------
(* Other players in a level, as they come, are shown and leave (Gameplay),   *)
(* and recording the player's own voice (VoiceRecording). The two share no   *)
(* state; a behaviour follows one of them.                                   *)
EXTENDS Gameplay, VoiceRecording

VARIABLE follows

vars == <<follows, gameplayVars, voiceVars>>

Init ==
    /\ GameplayInit /\ VoiceInit /\ follows \in {"players", "voice"}
    /\ follows # "voice" => plugged

FollowPlayers(A) == follows = "players" /\ A /\ UNCHANGED <<follows, voiceVars>>
FollowVoice(A) == follows = "voice" /\ A /\ UNCHANGED <<follows, gameplayVars>>

Next == FollowPlayers(GameplayNext) \/ FollowVoice(VoiceNext)

(* The game keeps running its callback, its frames and its selectors, and of *)
(* level data sent again and again some arrives. The audio threads keep      *)
(* looping, and what the main thread has begun it ends.                      *)
FairSpec ==
    /\ Init /\ [][Next]_vars
    /\ WF_vars(FollowPlayers(SetupUpdate)) /\ WF_vars(FollowPlayers(postInitActions))
    /\ WF_vars(FollowPlayers(SelUpdate(1))) /\ WF_vars(FollowPlayers(selSendPlayerData))
    /\ WF_vars(FollowPlayers(selPeriodicalUpdate))
    /\ SF_vars(FollowPlayers(selSendPlayerData /\ net' # net))
    /\ SF_vars(FollowPlayers(\E ids \in net : ids = onLevel /\ HandleLevelData(ids)))
    /\ WF_vars(FollowVoice(AudioNext)) /\ WF_vars(FollowVoice(RecordNext))
    /\ WF_vars(FollowVoice(StartNext))
=============================================================================
