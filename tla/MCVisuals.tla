------------------------------ MODULE MCVisuals ------------------------------
(* What is seen of other players: AssetPreload, IconLoading and             *)
(* RemoteVisuals, which share no state; a behaviour follows one of them.    *)
EXTENDS RemoteVisuals, IconLoading, AssetPreload

VARIABLE follows

vars == <<follows, visualVars, iconVars, preloadVars>>

Init ==
    /\ VisualInit /\ IconInit /\ PreloadInit /\ follows \in {"visuals", "icons", "preload"}
    /\ follows # "preload" => /\ \A i \in Image : file[i] = "good"
                              /\ settings.preload /\ settings.defer /\ settings.deathEffects

FollowVisuals(A) == follows = "visuals" /\ A /\ UNCHANGED <<follows, iconVars, preloadVars>>
FollowIcons(A) == follows = "icons" /\ A /\ UNCHANGED <<follows, visualVars, preloadVars>>
FollowPreload(A) == follows = "preload" /\ A /\ UNCHANGED <<follows, visualVars, iconVars>>

Next == FollowVisuals(VisualNext) \/ FollowIcons(IconNext) \/ FollowPreload(PreloadNext)

(* The main thread and the threads of the pool keep running.                *)
FairSpec ==
    /\ Init /\ [][Next]_vars
    /\ WF_vars(FollowPreload(MainLoads))
    /\ \A w \in Worker : WF_vars(FollowPreload(WorkerStep(w)))

(* The loading screen goes away: no wait of the main thread for the thread  *)
(* pool of loadAssetsParallel lasts for ever.                               *)
LoadingEnds ==
    follows = "preload" /\ screen \in {"start", "loading", "entering"}
        ~> screen \in {"menu", "level"}
=============================================================================
