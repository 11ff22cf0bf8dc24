------------------------------ MODULE Gameplay ------------------------------
(***************************************************************************)
(* Being in a level with others: the setup, the selectors and the packet   *)
(* listeners of GlobedGJBGL (hooks/gjbasegamelayer.cpp), with the book-    *)
(* keeping of PlayerInterpolator (game/interpolator.cpp) and of            *)
(* RemotePlayer (ui/game/player/remote_player.cpp) they drive.             *)
(*                                                                         *)
(* Everything here runs on the game's main thread, so every selector,      *)
(* listener and queued callback is one step.  What it competes with is the *)
(* connection, which the network threads bring up and down, and the server *)
(* on the other side of UDP: datagrams (`net`) are lost, delayed and       *)
(* delivered in any order, and those of the previous level may arrive in   *)
(* the next one, since LevelDataPacket does not name its level.            *)
(*                                                                         *)
(* Times are kept in half seconds and only as far as the code compares     *)
(* them: sinceUpdate is timeCounter - lastServerUpdate, `age` of a player  *)
(* is lastServerUpdate - updateCounter.                                    *)
(*                                                                         *)
(* A definition whose name ends in _m is a faulty variant of the one after *)
(* it, kept to see that the properties notice the fault.                   *)
(***************************************************************************)
EXTENDS Integers, FiniteSets, Functions, TLC

CONSTANTS Id,               \* the accounts that other players may have
          ProfileTicks,     \* periodical updates between two requests of a profile (20)
          RequestAllAbove,  \* more missing profiles than this are requested at once (3)
          MaxInFlight       \* how many datagrams the network holds

ASSUME GameplayAssumption ==
    /\ {ProfileTicks, MaxInFlight} \subseteq Nat \ {0}
    /\ RequestAllAbove \in Nat

VARIABLES layer,            \* the GlobedGJBGL: "none", "queued" (its setupUpdate callback
                            \* has not run), "idle" (it returned early), "joined"
                            \* (postInitActions is to come), "running" or "quitting"
          globedReady,
          established,      \* NetworkManager::established()
          started,          \* timeCounter # 0
          sinceUpdate,
          players,          \* RemotePlayer of each account: the profile it shows and defaultTicks
          interpolator,     \* updateCounter of each account
          pcm,              \* accounts whose profile ProfileCacheManager holds
          onLevel,          \* the server: who else is on our level
          net               \* LevelDataPackets under way: the accounts in each

gameplayVars == <<layer, globedReady, established, started,
          sinceUpdate, players, interpolator, pcm, onLevel, net>>
session == <<layer, globedReady, established>>
clock == <<started, sinceUpdate>>

(* The limits `> 1.0f` and `> 0.5f`, in half seconds.                      *)
AloneLimit == 2
StaleLimit == 1

NoPlayers == [i \in {} |-> 0]

Known == DOMAIN players
Running == layer \in {"joined", "running"}
Capped(n, limit) == IF n > limit THEN limit + 1 ELSE n

RemotePlayer == [valid : BOOLEAN, defaultTicks : 0 .. ProfileTicks]
Entry == [age : 0 .. StaleLimit + 1, updatedAtZero : BOOLEAN]

(* Every value the variables can take: counters within their limits, the   *)
(* players and the interpolator keyed by accounts.                         *)
GameplayTypeOK ==
    /\ layer \in {"none", "queued", "idle", "joined", "running", "quitting"}
    /\ {globedReady, established, started} \subseteq BOOLEAN
    /\ sinceUpdate \in 0 .. AloneLimit + 1
    /\ Known \subseteq Id /\ players \in [Known -> RemotePlayer]
    /\ DOMAIN interpolator \subseteq Id
    /\ interpolator \in [DOMAIN interpolator -> Entry]
    /\ pcm \subseteq Id /\ onLevel \subseteq Id
    /\ net \subseteq (SUBSET Id \ {{}}) /\ Cardinality(net) <= MaxInFlight

GameplayInit ==
    /\ layer = "none" /\ globedReady = FALSE
    /\ established = TRUE
    /\ started = FALSE /\ sinceUpdate = 0
    /\ players = NoPlayers /\ interpolator = NoPlayers
    /\ pcm = {} /\ onLevel = {} /\ net = {}

-----------------------------------------------------------------------------
(* Entering and leaving a level.                                           *)

(* PlayLayer::init and LevelEditorLayer::init around setupPreInit and      *)
(* setupAll: a layer is ready when the client is connected and the level   *)
(* has an id; only then are the interpolator, the player store and the     *)
(* user interface made and the setupUpdate callback queued.                *)
setupBare(hasId) ==
    /\ layer = "none"
    /\ globedReady' = (established /\ hasId)
    /\ layer' = IF globedReady' THEN "queued" ELSE "idle"
    /\ onLevel' \in SUBSET Id
    /\ UNCHANGED <<established, clock, players,
                   interpolator, pcm, net>>

Established == globedReady /\ established

(* The callback of setupUpdate: listeners, LevelJoinPacket and selectors.  *)
SetupUpdate ==
    /\ layer = "queued"
    /\ layer' = IF Established THEN "joined" ELSE "idle"
    /\ UNCHANGED <<globedReady, established, clock,
                   players, interpolator, pcm, onLevel, net>>

(* PlayLayer::onQuit and the other ways out of a level: LevelLeavePacket,  *)
(* and data is no longer sent; the layer stays alive until the scene       *)
(* transition is over, but its players are not followed any further.       *)
onQuitActions ==
    /\ layer \in {"queued", "idle", "joined", "running"}
    /\ layer' = "quitting"
    /\ started' = FALSE /\ sinceUpdate' = 0
    /\ players' = NoPlayers /\ interpolator' = NoPlayers /\ onLevel' = {}
    /\ UNCHANGED <<globedReady, established, pcm, net>>

LayerDestroyed ==
    /\ layer = "quitting"
    /\ layer' = "none" /\ globedReady' = FALSE
    /\ UNCHANGED <<established, clock, players, interpolator, pcm, onLevel, net>>

ConnectionChanges ==
    /\ established' = ~established
    /\ UNCHANGED <<layer, globedReady, clock,
                   players, interpolator, pcm, onLevel, net>>

-----------------------------------------------------------------------------
(* Players.                                                                *)

(* handlePlayerJoin: a RemotePlayer, with the cached profile if there is   *)
(* one, and an entry of the interpolator.                                  *)
NewPlayers(ids) == [i \in ids |-> [valid |-> i \in pcm, defaultTicks |-> 0]]

(* handlePlayerLeave erases the player from both maps.                     *)
handlePlayerLeave(f, ids) == Restrict(f, DOMAIN f \ ids)

isPlayerStale_m(i) ==
    interpolator[i].updatedAtZero /\ interpolator[i].age > StaleLimit

(* A player is stale when the last update came half a second before the    *)
(* last packet - unless that update came at time 0.                        *)
isPlayerStale(i) ==
    ~interpolator[i].updatedAtZero /\ interpolator[i].age > StaleLimit

(* PlayerInterpolator::updatePlayer for the accounts in a packet, and the  *)
(* ageing of the others that setting lastServerUpdate amounts to.          *)
UpdatedEntry(i, ids) ==
    IF i \in ids
    THEN [age |-> 0, updatedAtZero |-> ~started]
    ELSE [interpolator[i] EXCEPT !.age = Capped(@ + sinceUpdate, StaleLimit)]

(* The LevelDataPacket listener.                                           *)
HandleLevelData(ids) ==
    LET known == DOMAIN interpolator \cup ids IN
    /\ ids \in net /\ net' = net \ {ids}
    /\ Running
    /\ sinceUpdate' = 0
    /\ players' = NewPlayers(ids \ Known) @@ players
    /\ interpolator' = [i \in known |-> UpdatedEntry(i, ids)]
    /\ UNCHANGED <<session, started, pcm, onLevel>>

-----------------------------------------------------------------------------
(* Selectors.                                                              *)

(* selUpdate: a frame, of next to no time or of half a second.  Every      *)
(* player on the screen is looked up in the interpolator.                  *)
SelUpdate(dt) ==
    /\ Running
    /\ started' = TRUE
    /\ sinceUpdate' = Capped(sinceUpdate + dt, AloneLimit)
    /\ UNCHANGED <<session, players, interpolator, pcm, onLevel, net>>

(* The server's answer to a PlayerDataPacket: who else is on the level;    *)
(* no packet at all when there is nobody.  The answer may be lost, and a   *)
(* full network loses another one instead.                                 *)
Answer ==
    \/ UNCHANGED net
    \/ /\ onLevel # {}
       /\ \E kept \in SUBSET net :
              /\ Cardinality(kept) = IF Cardinality(net) < MaxInFlight \/ onLevel \in net
                                     THEN Cardinality(net) ELSE MaxInFlight - 1
              /\ net' = kept \cup {onLevel}

(* selSendPlayerData, tps times a second; on a level without others only   *)
(* one packet in 30 is sent.                                               *)
selSendPlayerData ==
    /\ Running /\ Established
    /\ Answer
    /\ UNCHANGED <<session, clock, players, interpolator, pcm, onLevel>>

(* The profiles that reach the PlayerProfilesPacket listener of those      *)
(* asked for: the server knows those on the level, and any may be lost.    *)
Profiles(asked) == {pcm \cup got : got \in SUBSET (asked \cap onLevel)}

(* postInitActions, a quarter of a second after the callback: everybody's  *)
(* profile, and our own metadata.                                          *)
postInitActions ==
    /\ layer = "joined"
    /\ layer' = "running"
    /\ pcm' \in IF established THEN Profiles(Id) ELSE {pcm}
    /\ UNCHANGED <<globedReady, established, clock, players, interpolator, onLevel, net>>

(* The players whose profile selPeriodicalUpdate asks for: not valid, not  *)
(* cached, just joined or asked for long enough ago.                       *)
Missing(ids) ==
    {i \in ids : /\ ~players[i].valid /\ i \notin pcm
                 /\ players[i].defaultTicks \in {0, ProfileTicks}}

Asked(missing) == IF Cardinality(missing) > RequestAllAbove THEN Id ELSE missing

(* What selPeriodicalUpdate makes of a player that stays.                  *)
Refreshed(i) ==
    IF players[i].valid \/ i \in pcm THEN [valid |-> TRUE, defaultTicks |-> 0]
    ELSE [players[i] EXCEPT !.defaultTicks = IF @ = ProfileTicks THEN 1 ELSE @ + 1]

(* selPeriodicalUpdate: a single player who was not heard of for a second  *)
(* has left; otherwise stale players have left, and missing profiles are   *)
(* taken from the cache or asked for.                                      *)
selPeriodicalUpdate ==
    LET stale == {i \in Known : isPlayerStale(i)}
        fresh == Known \ stale IN
    /\ Running /\ Established
    /\ \/ /\ sinceUpdate > AloneLimit /\ Cardinality(Known) < 2
          /\ players' = handlePlayerLeave(players, Known)
          /\ interpolator' = handlePlayerLeave(interpolator, Known)
          /\ UNCHANGED pcm
       \/ /\ ~(sinceUpdate > AloneLimit /\ Cardinality(Known) < 2)
          /\ players' = handlePlayerLeave([i \in Known |-> Refreshed(i)], stale)
          /\ interpolator' = handlePlayerLeave(interpolator, stale)
          /\ pcm' \in Profiles(Asked(Missing(fresh)))
    /\ UNCHANGED <<session, clock, onLevel, net>>

-----------------------------------------------------------------------------
(* The others.                                                             *)

OthersMove ==
    /\ layer # "none"
    /\ onLevel' \in SUBSET Id
    /\ UNCHANGED <<session, clock, players, interpolator, pcm, net>>

GameplayNext ==
    \/ \E hasId \in BOOLEAN : setupBare(hasId)
    \/ SetupUpdate
    \/ onQuitActions
    \/ LayerDestroyed
    \/ ConnectionChanges
    \/ \E ids \in net : HandleLevelData(ids)
    \/ \E dt \in {0, 1} : SelUpdate(dt)
    \/ selSendPlayerData
    \/ postInitActions
    \/ selPeriodicalUpdate
    \/ OthersMove

-----------------------------------------------------------------------------
Playing == Running /\ Established

(* A player who has left the level disappears from the screen, as long as  *)
(* level data keeps coming because somebody else is there, or nobody is    *)
(* left and no other player is known.  (selPeriodicalUpdate: "kick players *)
(* that have left the level".)  Players whose last update came at time 0   *)
(* are exempt: isPlayerStale never reports them.                           *)
LeftPlayersRemoved ==
    \A i \in Id :
        <>[](/\ Playing /\ i \notin onLevel
             /\ onLevel # {} \/ Cardinality(Known) < 2
             /\ i \in Known /\ onLevel # {} => ~interpolator[i].updatedAtZero)
        => <>[](i \notin Known)

=============================================================================
