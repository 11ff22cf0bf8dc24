----------------------------- MODULE LevelSocial -----------------------------
(***************************************************************************)
(* What a player in a level sees and hears of the others: voice streams    *)
(* and their volume (audio/voice_playback_manager.cpp, audio/stream.cpp),  *)
(* the block list (managers/block_list.cpp), the user list with its mute   *)
(* and hide buttons (ui/game/userlist/), the player store and the voice    *)
(* overlay, driven by the listeners and selectors of GlobedGJBGL.          *)
(*                                                                         *)
(* All of it runs on the main thread.  Joining and leaving of players is   *)
(* module Gameplay's subject and arbitrary here; so is the distance to a   *)
(* player.                                                                 *)
(*                                                                         *)
(* A definition whose name ends in _m is a faulty variant of the one after *)
(* it, kept to see that the properties notice the fault.                   *)
(***************************************************************************)
EXTENDS Naturals, FiniteSets, Functions, TLC

CONSTANTS Id,               \* accounts of the others
          Friends           \* those of them who are friends

ASSUME SocialAssumption == Friends \subseteq Id

VARIABLES quit,             \* onQuitActions has run
          proximity,        \* isVoiceProximity
          onlyFriends,      \* the setting
          deafened,
          players,          \* isForciblyHidden of each player on the screen
          blocked, allowed, \* BlockListManager: _bl and _wl
          savedLists,       \* and what is saved of them
          hiddenPlayers,
          streams,          \* VoicePlaybackManager: the volume of each stream
          playerStore,
          pcm,              \* accounts with a cached profile
          cells,            \* the cells of an open user list, and what their buttons do
          remake            \* cells with a queued makeButtons

socialVars == <<quit, proximity, onlyFriends, deafened, players, blocked, allowed,
                savedLists, hiddenPlayers, streams, playerStore, pcm, cells, remake>>
settings == <<quit, proximity, onlyFriends>>
lists == <<blocked, allowed, savedLists>>
ui == <<cells, remake>>

NoEntries == [i \in {} |-> 0]
Known == DOMAIN players
Streams == DOMAIN streams
Without(f, i) == Restrict(f, DOMAIN f \ {i})

Volume == {0, 1}
Buttons == [made : BOOLEAN, isUnblocked : BOOLEAN, isHidden : BOOLEAN]

(* Every value the variables can take; an account is never both blocked    *)
(* and allowed, and every change of the lists is saved.                    *)
SocialTypeOK ==
    /\ {quit, proximity, onlyFriends, deafened} \subseteq BOOLEAN
    /\ Known \subseteq Id /\ players \in [Known -> BOOLEAN]
    /\ blocked \subseteq Id /\ allowed \subseteq Id \ blocked
    /\ savedLists = <<blocked, allowed>>
    /\ hiddenPlayers \subseteq Id
    /\ Streams \subseteq Id /\ streams \in [Streams -> Volume]
    /\ playerStore \subseteq Id /\ pcm \subseteq Id
    /\ DOMAIN cells \subseteq pcm /\ cells \in [DOMAIN cells -> Buttons]
    /\ remake \subseteq DOMAIN cells

(* BlockListManager loads the saved lists; a new layer knows nobody.       *)
SocialInit ==
    /\ quit = FALSE /\ proximity \in BOOLEAN /\ onlyFriends \in BOOLEAN /\ deafened = FALSE
    /\ players = NoEntries
    /\ blocked = {} /\ allowed = {} /\ savedLists = <<{}, {}>> /\ hiddenPlayers = {}
    /\ streams = NoEntries
    /\ playerStore = {} /\ pcm = {} /\ cells = NoEntries /\ remake = {}

-----------------------------------------------------------------------------
(* Who may be heard, and how loud.                                         *)

shouldLetMessageThrough(i) ==
    /\ i \notin blocked
    /\ i \in allowed \/ ~onlyFriends \/ i \in Friends

setVolume(s, i, v) == IF i \in DOMAIN s THEN [s EXCEPT ![i] = v] ELSE s

(* updateProximityVolume: unknown players are silent, others get quieter   *)
(* with the distance, and muted ones are left as they are.                 *)
updateProximityVolume(s, i, v) ==
    IF deafened \/ ~proximity THEN s
    ELSE IF i \notin Known THEN setVolume(s, i, 0)
    ELSE IF shouldLetMessageThrough(i) THEN setVolume(s, i, v)
    ELSE s

(* prepareStream: a new stream starts without volume.                      *)
prepareStream(s, i) == IF i \in DOMAIN s THEN s ELSE (i :> 0) @@ s

(* The VoiceBroadcastPacket listener; it lives as long as the layer.       *)
VoiceBroadcast(i, v) ==
    /\ ~deafened /\ shouldLetMessageThrough(i)
    /\ streams' = updateProximityVolume(setVolume(prepareStream(streams, i), i, 1), i, v)
    /\ UNCHANGED <<settings, deafened, players, lists, hiddenPlayers, playerStore, pcm, ui>>

(* selUpdate: the volume of every player on the screen, and our own entry  *)
(* of the player store.                                                    *)
SelUpdate(v) ==
    /\ streams' = [i \in Streams |->
                      IF i \in Known THEN updateProximityVolume(streams, i, v[i])[i]
                      ELSE streams[i]]
    /\ UNCHANGED <<settings, deafened, players, lists, hiddenPlayers, playerStore, pcm, ui>>

(* The voice-deafen key: muteEveryone, or setVolumeAll without proximity.  *)
VoiceDeafen ==
    /\ ~quit
    /\ deafened' = ~deafened
    /\ streams' = [i \in Streams |->
                      IF deafened' THEN 0
                      ELSE IF ~proximity THEN 1
                      ELSE streams[i]]
    /\ UNCHANGED <<settings, players, lists, hiddenPlayers, playerStore, pcm, ui>>

-----------------------------------------------------------------------------
(* Players come and go.                                                    *)

(* handlePlayerJoin: a hidden player is hidden again.                      *)
handlePlayerJoin(i) ==
    /\ i \notin Known
    /\ players' = [j \in Known \cup {i} |-> IF j = i THEN i \in hiddenPlayers ELSE players[j]]
    /\ UNCHANGED <<settings, deafened, lists, hiddenPlayers, streams, playerStore, pcm, ui>>

(* handlePlayerLeave: the stream goes first, whether or not the player is  *)
(* known.                                                                  *)
handlePlayerLeave(i) ==
    /\ i \in Known
    /\ streams' = Without(streams, i) /\ players' = Without(players, i)
    /\ playerStore' = playerStore \ {i}
    /\ UNCHANGED <<settings, deafened, lists, hiddenPlayers, pcm, ui>>

(* The listeners of LevelPlayerMetadataPacket and PlayerProfilesPacket.    *)
LevelPlayerMetadata(i) ==
    /\ playerStore' = playerStore \cup {i}
    /\ UNCHANGED <<settings, deafened, players, lists, hiddenPlayers, streams, pcm, ui>>
PlayerProfiles(i) ==
    /\ pcm' = pcm \cup {i}
    /\ UNCHANGED <<settings, deafened, players, lists, hiddenPlayers, streams,
                   playerStore, ui>>

(* onQuitActions: stopAllStreams; the layer and its listeners live on for  *)
(* the length of the transition.                                           *)
onQuitActions ==
    /\ ~quit /\ quit' = TRUE
    /\ streams' = NoEntries
    /\ cells' = NoEntries /\ remake' = {}
    /\ UNCHANGED <<proximity, onlyFriends, deafened, players, lists, hiddenPlayers,
                   playerStore, pcm>>

-----------------------------------------------------------------------------
(* The user list.                                                          *)

(* makeButtons of a cell: none for a player who is not on the screen; what *)
(* the buttons will do is captured now.                                    *)
makeButtons(i) ==
    IF i \in Known
    THEN [made |-> TRUE, isUnblocked |-> shouldLetMessageThrough(i), isHidden |-> players[i]]
    ELSE [made |-> FALSE, isUnblocked |-> FALSE, isHidden |-> FALSE]

(* createPlayerCells: the players of the store with a cached profile.      *)
createPlayerCells == [i \in playerStore \cap pcm |-> makeButtons(i)]

(* Opening the user list from the pause menu.                              *)
OpenUserList ==
    /\ ~quit /\ cells = NoEntries
    /\ cells' = createPlayerCells
    /\ UNCHANGED <<settings, deafened, players, lists, hiddenPlayers, streams,
                   playerStore, pcm, remake>>
CloseUserList ==
    /\ cells' = NoEntries /\ remake' = {}
    /\ UNCHANGED <<settings, deafened, players, lists, hiddenPlayers, streams,
                   playerStore, pcm>>

(* reloadList and hardRefresh: new cells if the store has changed.         *)
reloadList ==
    /\ cells # NoEntries
    /\ \/ Cardinality(playerStore) # Cardinality(DOMAIN cells)
       \/ ~(DOMAIN cells \subseteq playerStore)
    /\ cells' = createPlayerCells /\ remake' = {}
    /\ UNCHANGED <<settings, deafened, players, lists, hiddenPlayers, streams,
                   playerStore, pcm>>

Pressable(i) == i \in DOMAIN cells /\ cells[i].made /\ i \notin remake

(* BlockListManager::blacklist and whitelist, each with its save.          *)
blacklist(i) ==
    /\ blocked' = blocked \cup {i} /\ allowed' = allowed \ {i}
    /\ savedLists' = <<blocked', allowed'>>
whitelist(i) ==
    /\ blocked' = blocked \ {i} /\ allowed' = allowed \cup {i}
    /\ savedLists' = <<blocked', allowed'>>

MuteButton_m(i) ==
    /\ Pressable(i)
    /\ IF cells[i].isUnblocked THEN blacklist(i) ELSE whitelist(i)
    /\ streams' = setVolume(streams, i, IF cells[i].isUnblocked THEN 0 ELSE 1)
    /\ UNCHANGED <<settings, deafened, players, hiddenPlayers, playerStore, pcm, ui>>

(* The mute button of a cell or of GlobedUserActionsPopup: the lists, the  *)
(* volume at once, and new buttons a frame later.                          *)
MuteButton(i) ==
    /\ Pressable(i)
    /\ IF cells[i].isUnblocked THEN blacklist(i) ELSE whitelist(i)
    /\ streams' = setVolume(streams, i, IF cells[i].isUnblocked THEN 0 ELSE 1)
    /\ remake' = remake \cup {i}
    /\ UNCHANGED <<settings, deafened, players, hiddenPlayers, playerStore, pcm, cells>>

(* The hide button, which does nothing for a player who has left.          *)
HideButton(i) ==
    /\ Pressable(i) /\ i \in Known
    /\ players' = [players EXCEPT ![i] = ~cells[i].isHidden]
    /\ hiddenPlayers' = IF cells[i].isHidden THEN hiddenPlayers \ {i} ELSE hiddenPlayers \cup {i}
    /\ remake' = remake \cup {i}
    /\ UNCHANGED <<settings, deafened, lists, streams, playerStore, pcm, cells>>

(* The queued makeButtons.                                                 *)
RemakeButtons(i) ==
    /\ i \in remake
    /\ remake' = remake \ {i}
    /\ cells' = [cells EXCEPT ![i] = makeButtons(i)]
    /\ UNCHANGED <<settings, deafened, players, lists, hiddenPlayers, streams,
                   playerStore, pcm>>

SocialNext ==
    \/ \E i \in Id : \/ \E v \in Volume : VoiceBroadcast(i, v)
                     \/ handlePlayerJoin(i) \/ handlePlayerLeave(i)
                     \/ LevelPlayerMetadata(i) \/ PlayerProfiles(i)
                     \/ MuteButton(i) \/ HideButton(i) \/ RemakeButtons(i)
    \/ \E v \in [Id -> Volume] : SelUpdate(v)
    \/ VoiceDeafen \/ onQuitActions
    \/ OpenUserList \/ CloseUserList \/ reloadList

-----------------------------------------------------------------------------
(* A button does what its icon says: until it is made anew, the state its  *)
(* handler captured is the player's.                                       *)
ButtonsTruthful ==
    \A i \in DOMAIN cells \ remake :
        cells[i].made => /\ cells[i].isUnblocked <=> shouldLetMessageThrough(i)
                         /\ i \in Known => (cells[i].isHidden <=> players[i])
=============================================================================
