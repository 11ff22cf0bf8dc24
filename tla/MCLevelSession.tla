--------------------------- MODULE MCLevelSession ---------------------------
(* A level as the player lives it: LevelSocial and LevelProgress.  The two  *)
(* share no state, so a behaviour follows one of them.                      *)
EXTENDS LevelSocial, LevelProgress

VARIABLE follows

Init == SocialInit /\ ProgressInit /\ follows \in {"social", "progress"}

Next ==
    \/ follows = "social" /\ SocialNext /\ UNCHANGED <<follows, progressVars>>
    \/ follows = "progress" /\ ProgressNext /\ UNCHANGED <<follows, socialVars>>

Spec == Init /\ [][Next]_<<follows, socialVars, progressVars>>
=============================================================================
