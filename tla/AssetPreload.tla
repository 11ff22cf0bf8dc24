---------------------------- MODULE AssetPreload ----------------------------
(***************************************************************************)
(* Preloading of icons and death effects: loadAssetsParallel and           *)
(* preloadAssets (util/cocos.cpp), the stages of HookedLoadingLayer        *)
(* (hooks/loading_layer.cpp), the deferred preloading of a level           *)
(* (hooks/gjbasegamelayer.cpp) and the caches of HookedGameManager         *)
(* (hooks/game_manager.cpp).                                               *)
(*                                                                         *)
(* The main thread walks through a `plan` of stages.  In each it hands the *)
(* images to the thread pool, makes textures of what comes back through a  *)
(* channel, hands the sprite frames to the pool and joins it.  The tasks   *)
(* hold references to the main thread's stack.                             *)
(*                                                                         *)
(* An image is <<stage, number>>; stage 1 are the death effects, the       *)
(* others icons.  The pool (asp::thread::ThreadPool), the texture cache    *)
(* and the sprite frame cache (cocos2d) are external.                      *)
(*                                                                         *)
(* A definition whose name ends in _m is a faulty variant of the one after *)
(* it, kept to see that the properties notice the fault.                   *)
(***************************************************************************)
EXTENDS Naturals, Sequences, FiniteSets

CONSTANTS LastStage,        \* number of stages (7)
          PerStage,         \* images in each
          Worker            \* the threads of the pool (25)

ASSUME PreloadAssumption == LastStage \in Nat \ {0, 1} /\ PerStage \in Nat \ {0}

VARIABLES screen,           \* where the game is: "start", "loading", "menu", "entering" a
                            \* level or in a "level"
          settings,         \* [preload, defer, deathEffects]
          file,             \* what there is of each image on the disk
          plan,             \* stages, and flags to set between them, yet to come
          loader,           \* the main thread inside loadAssetsParallel
          imgStates,        \* the images of this pass
          texture,          \* of these, the ones with a texture
          channel,          \* textureInitRequests
          pool,             \* the thread pool exists
          queue,            \* tasks nobody has taken
          task,             \* what each worker is doing
          textures, frames, \* CCTextureCache, CCSpriteFrameCache
          loadedFrames, iconCache,
          assetsPreloaded, deathEffectsPreloaded

preloadVars == <<screen, settings, file, plan, loader, imgStates, texture, channel, pool, queue,
                 task, textures, frames, loadedFrames, iconCache, assetsPreloaded,
                 deathEffectsPreloaded>>
preloadFlags == <<assetsPreloaded, deathEffectsPreloaded>>
caches == <<textures, frames, loadedFrames, iconCache>>
world == <<screen, settings, file>>

Image == (1 .. LastStage) \X (1 .. PerStage)
Stage(n) == {n} \X (1 .. PerStage)
Icons == {i \in Image : i[1] # 1}

(* Reading or decoding fails, making the texture fails, the plist is not   *)
(* there, or all is well.                                                  *)
File == {"unreadable", "no texture", "no plist", "good"}

Idle == [kind |-> "idle"]
Task == [kind : {"read", "frames", "add"}, image : Image]
Settings == [preload : BOOLEAN, defer : BOOLEAN, deathEffects : BOOLEAN]

(* Every value the variables can take; the pool and its tasks, which refer *)
(* to the main thread's stack, never outlive the preloading.               *)
PreloadTypeOK ==
    /\ screen \in {"start", "loading", "menu", "entering", "level"}
    /\ settings \in Settings /\ file \in [Image -> File]
    /\ loader \in {"idle", "loop", "is doing work", "still empty", "join"}
    /\ texture \subseteq imgStates /\ imgStates \subseteq Image
    /\ channel \in Seq(Image)
    /\ queue \in Seq(Task) /\ task \in [Worker -> Task \cup {Idle}]
    /\ \A s \in {textures, frames, loadedFrames, iconCache} : s \subseteq Image
    /\ {pool, assetsPreloaded, deathEffectsPreloaded} \subseteq BOOLEAN
    /\ loader = "idle" => queue = <<>> /\ \A w \in Worker : task[w] = Idle
    /\ screen \in {"menu", "level"} => ~pool

PreloadInit ==
    /\ screen = "start" /\ settings \in Settings /\ file \in [Image -> File]
    /\ plan = <<>> /\ loader = "idle" /\ imgStates = {} /\ texture = {} /\ channel = <<>>
    /\ pool = TRUE /\ queue = <<>> /\ task = [w \in Worker |-> Idle]
    /\ textures = {} /\ frames = {} /\ loadedFrames = {} /\ iconCache = {}
    /\ assetsPreloaded = FALSE /\ deathEffectsPreloaded = FALSE

-----------------------------------------------------------------------------
(* What is preloaded, and when.                                            *)

forcedSkipPreload == ~settings.preload

shouldTryToPreload(onLoading) ==
    /\ ~forcedSkipPreload /\ ~assetsPreloaded
    /\ onLoading => ~settings.defer

(* Steps of a plan that set a flag.                                        *)
SetDeathEffects == 0
SetAssets == LastStage + 1

IconStages == [n \in 1 .. LastStage - 1 |-> n + 1]

(* The stages of preloadingStage2.                                         *)
preloadingStage2 ==
    (IF settings.deathEffects THEN <<1, SetDeathEffects>> ELSE <<>>)
        \o IconStages \o <<SetAssets>>

(* What entering a level catches up on.                                    *)
setupDeferredAssetPreloading ==
    (IF shouldTryToPreload(FALSE) THEN IconStages \o <<SetAssets>> ELSE <<>>)
    \o (IF ~forcedSkipPreload /\ settings.deathEffects /\ ~deathEffectsPreloaded
        THEN <<1, SetDeathEffects>> ELSE <<>>)

(* LoadingLayer::loadingFinished.                                          *)
loadingFinishedHook ==
    /\ screen = "start" /\ screen' = "loading"
    /\ plan' = IF shouldTryToPreload(TRUE) THEN preloadingStage2 ELSE <<>>
    /\ UNCHANGED <<settings, file, loader, imgStates, texture, channel, pool, queue, task, caches,
                   preloadFlags>>

EnterLevel ==
    /\ screen = "menu" /\ screen' = "entering"
    /\ plan' = setupDeferredAssetPreloading
    /\ UNCHANGED <<settings, file, loader, imgStates, texture, channel, pool, queue, task, caches,
                   preloadFlags>>

LeaveLevel ==
    /\ screen = "level" /\ screen' = "menu"
    /\ UNCHANGED <<settings, file, plan, loader, imgStates, texture, channel, pool, queue, task,
                   caches, preloadFlags>>

(* The plan is done: cleanupThreadPool.                                    *)
FinishLoading ==
    /\ screen \in {"loading", "entering"} /\ plan = <<>> /\ loader = "idle"
    /\ screen' = IF screen = "loading" THEN "menu" ELSE "level"
    /\ pool' = FALSE
    /\ UNCHANGED <<settings, file, plan, loader, imgStates, texture, channel, queue, task, caches,
                   preloadFlags>>

SetFlag ==
    /\ loader = "idle" /\ plan # <<>> /\ Head(plan) \in {SetAssets, SetDeathEffects}
    /\ plan' = Tail(plan)
    /\ \/ /\ Head(plan) = SetAssets
          /\ assetsPreloaded' = TRUE /\ UNCHANGED deathEffectsPreloaded
       \/ /\ Head(plan) = SetDeathEffects
          /\ deathEffectsPreloaded' = TRUE /\ UNCHANGED assetsPreloaded
    /\ UNCHANGED <<world, loader, imgStates, texture, channel, pool, queue, task, caches>>

-----------------------------------------------------------------------------
(* loadAssetsParallel on the main thread.                                  *)

Tasks(kind, images) ==
    LET order == [n \in 1 .. Cardinality(images) |->
                    CHOOSE i \in images : Cardinality({j \in images : j[2] < i[2]}) = n - 1]
    IN [n \in DOMAIN order |-> [kind |-> kind, image |-> order[n]]]

isDoingWork == queue # <<>> \/ \E w \in Worker : task[w] # Idle

(* loadIconsBatched: the textures there are by now become cached icons.    *)
CacheIcons(stage) ==
    iconCache' = iconCache \cup (Stage(stage) \cap Icons \cap textures)

(* Images with a texture already are skipped; if none is left, so is the   *)
(* pass.                                                                   *)
LoadAssets ==
    /\ loader = "idle" /\ plan # <<>> /\ Head(plan) \in 1 .. LastStage
    /\ pool' = TRUE /\ texture' = {}
    /\ imgStates' = Stage(Head(plan)) \ textures
    /\ IF imgStates' = {}
       THEN /\ CacheIcons(Head(plan)) /\ plan' = Tail(plan)
            /\ UNCHANGED <<loader, queue>>
       ELSE /\ queue' = Tasks("read", imgStates') /\ loader' = "loop"
            /\ UNCHANGED <<plan, iconCache>>
    /\ UNCHANGED <<world, channel, task, textures, frames, loadedFrames, preloadFlags>>

(* The loop that makes textures: the channel is looked at, then the pool,  *)
(* then the channel again.                                                 *)
InitTexture ==
    /\ loader = "loop" /\ channel # <<>>
    /\ channel' = Tail(channel)
    /\ IF file[Head(channel)] = "no texture"
       THEN UNCHANGED <<texture, textures>>
       ELSE /\ texture' = texture \cup {Head(channel)}
            /\ textures' = textures \cup {Head(channel)}
    /\ UNCHANGED <<world, plan, loader, imgStates, pool, queue, task, frames, loadedFrames,
                   iconCache, preloadFlags>>

LoopEmpty ==
    /\ loader = "loop" /\ channel = <<>> /\ loader' = "is doing work"
    /\ UNCHANGED <<world, plan, imgStates, texture, channel, pool, queue, task, caches, preloadFlags>>

PushFrames == queue' = Tasks("frames", imgStates)

LoopDoingWork_m ==
    /\ loader = "is doing work"
    /\ IF isDoingWork THEN loader' = "loop" /\ UNCHANGED queue
       ELSE loader' = "join" /\ PushFrames
    /\ UNCHANGED <<world, plan, imgStates, texture, channel, pool, task, caches, preloadFlags>>

LoopDoingWork ==
    /\ loader = "is doing work"
    /\ loader' = IF isDoingWork THEN "loop" ELSE "still empty"
    /\ UNCHANGED <<world, plan, imgStates, texture, channel, pool, queue, task, caches, preloadFlags>>

LoopStillEmpty_m ==
    /\ loader = "still empty"
    /\ loader' = "loop"
    /\ UNCHANGED <<world, plan, imgStates, texture, channel, pool, queue, task, caches, preloadFlags>>

LoopStillEmpty ==
    /\ loader = "still empty"
    /\ IF channel = <<>> THEN loader' = "join" /\ PushFrames
       ELSE loader' = "loop" /\ UNCHANGED queue
    /\ UNCHANGED <<world, plan, imgStates, texture, channel, pool, task, caches, preloadFlags>>

(* threadPool.join(), and the rest of loadIconsBatched.                    *)
Join ==
    /\ loader = "join" /\ ~isDoingWork
    /\ loader' = "idle" /\ CacheIcons(Head(plan)) /\ plan' = Tail(plan)
    /\ UNCHANGED <<world, imgStates, texture, channel, pool, queue, task, textures, frames,
                   loadedFrames, preloadFlags>>

-----------------------------------------------------------------------------
(* The workers.                                                            *)

TakeTask(w) ==
    /\ task[w] = Idle /\ queue # <<>>
    /\ task' = [task EXCEPT ![w] = Head(queue)] /\ queue' = Tail(queue)
    /\ UNCHANGED <<world, plan, loader, imgStates, texture, channel, pool, caches, preloadFlags>>

(* The first kind of task: read and decode, then a texture is requested.   *)
ReadImage(w) ==
    /\ task[w].kind = "read"
    /\ channel' = IF file[task[w].image] = "unreadable" THEN channel
                  ELSE Append(channel, task[w].image)
    /\ task' = [task EXCEPT ![w] = Idle]
    /\ UNCHANGED <<world, plan, loader, imgStates, texture, pool, queue, caches, preloadFlags>>

(* The second: nothing to do without a texture or with frames loaded       *)
(* earlier; without a plist the texture is removed again.                  *)
FindPlist(w) ==
    /\ task[w].kind = "frames"
    /\ LET i == task[w].image
           skip == i \notin texture \/ i \in loadedFrames
           missing == ~skip /\ file[i] = "no plist"
       IN /\ textures' = IF missing THEN textures \ {i} ELSE textures
          /\ task' = [task EXCEPT ![w] = IF skip \/ missing THEN Idle
                                         ELSE [@ EXCEPT !.kind = "add"]]
    /\ UNCHANGED <<world, plan, loader, imgStates, texture, channel, pool, queue, frames,
                   loadedFrames, iconCache, preloadFlags>>

AddFrames(w) ==
    /\ task[w].kind = "add"
    /\ frames' = frames \cup {task[w].image}
    /\ loadedFrames' = loadedFrames \cup {task[w].image}
    /\ task' = [task EXCEPT ![w] = Idle]
    /\ UNCHANGED <<world, plan, loader, imgStates, texture, channel, pool, queue, textures,
                   iconCache, preloadFlags>>

-----------------------------------------------------------------------------
(* Around the preloading.                                                  *)

(* loadIcon: from the cache, or by the game, which loads texture and       *)
(* frames.                                                                 *)
loadIcon(i) ==
    /\ screen \in {"menu", "level"} /\ i \in Icons \ iconCache
    /\ file[i] = "good"
    /\ textures' = textures \cup {i} /\ frames' = frames \cup {i}
    /\ iconCache' = iconCache \cup {i}
    /\ UNCHANGED <<world, plan, loader, imgStates, texture, channel, pool, queue, task,
                   loadedFrames, preloadFlags>>

(* tryLoadDeathEffect, before a death effect is played.                    *)
tryLoadDeathEffect(i) ==
    /\ screen \in {"menu", "level"} /\ i \in Stage(1) \ textures
    /\ file[i] \notin {"unreadable", "no texture"}
    /\ textures' = textures \cup {i}
    /\ frames' = IF file[i] = "good" THEN frames \cup {i} ELSE frames
    /\ UNCHANGED <<world, plan, loader, imgStates, texture, channel, pool, queue, task,
                   loadedFrames, iconCache, preloadFlags>>

(* reloadAllStep2, when graphics settings or texture packs change: the     *)
(* game has dropped its textures and frames and shows a loading screen.    *)
resetAssetPreloadState ==
    /\ iconCache' = {} /\ loadedFrames' = {}
    /\ assetsPreloaded' = FALSE /\ deathEffectsPreloaded' = FALSE
    /\ pool' = TRUE
reloadAllStep2 ==
    /\ screen = "menu" /\ screen' = "start"
    /\ resetAssetPreloadState
    /\ textures' = {} /\ frames' = {}
    /\ UNCHANGED <<settings, file, plan, loader, imgStates, texture, channel, queue, task>>

ChangeSettings ==
    /\ screen = "menu"
    /\ settings' \in Settings
    /\ UNCHANGED <<screen, file, plan, loader, imgStates, texture, channel, pool, queue, task,
                   caches, preloadFlags>>

MainLoads ==
    SetFlag \/ LoadAssets \/ InitTexture \/ LoopEmpty \/ LoopDoingWork \/ LoopStillEmpty
    \/ Join \/ FinishLoading \/ loadingFinishedHook
WorkerStep(w) == TakeTask(w) \/ ReadImage(w) \/ FindPlist(w) \/ AddFrames(w)

PreloadNext ==
    \/ MainLoads
    \/ \E w \in Worker : WorkerStep(w)
    \/ EnterLevel \/ LeaveLevel \/ reloadAllStep2 \/ ChangeSettings
    \/ \E i \in Image : loadIcon(i) \/ tryLoadDeathEffect(i)

-----------------------------------------------------------------------------
(* Once the assets count as preloaded - other players' icons are then      *)
(* shown without waiting - every icon whose files are good is cached,      *)
(* whatever the order in which threads finished and whether loading was    *)
(* deferred, repeated after a reload or partly done by the game.           *)
PreloadedMeansCached ==
    assetsPreloaded => \A i \in Icons : file[i] = "good" => i \in iconCache

=============================================================================
