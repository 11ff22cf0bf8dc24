----------------------------- MODULE IconLoading -----------------------------
(***************************************************************************)
(* The icons of other players when assets are not preloaded:               *)
(* ComplexVisualPlayer::tryLoadIconsAsync asks the texture cache for each  *)
(* icon, waits as a delegate of GameManager for icons already being        *)
(* loaded, and counts callbacks until all icon types are there             *)
(* (ui/game/player/complex_visual_player.cpp).                             *)
(*                                                                         *)
(* The asynchronous loading of a texture (cocos2d) is external; it may     *)
(* fail, and then never calls back.  Players that leave are not modelled:  *)
(* their entries in m_iconDelegates are raw pointers.                      *)
(*                                                                         *)
(* A definition whose name ends in _m is a faulty variant of the one after *)
(* it, kept to see that the properties notice the fault.                   *)
(***************************************************************************)
EXTENDS Naturals, FiniteSets, Bags

CONSTANTS Viewed,           \* ComplexVisualPlayers
          IconTypes,        \* Cube to Jetpack: 9
          IconIds           \* the icons there are of each type

VARIABLES storedIcons,      \* the profile each player has now
          shownIcons,       \* what updatePlayerObjectIcons last showed
          iconsLoaded,
          delegates,        \* m_iconDelegates: how often each player waits for a key
          beingLoaded       \* m_isIconBeingLoaded: keys with a request under way

iconVars == <<storedIcons, shownIcons, iconsLoaded, delegates, beingLoaded>>

Profile == [IconTypes -> IconIds]
Key == IconTypes \X IconIds
Total == Cardinality(IconTypes)
Waiting(p) == {k \in Key : <<p, k>> \in BagToSet(delegates)}

IconInit ==
    /\ storedIcons \in [Viewed -> {CHOOSE f \in Profile : TRUE}] /\ shownIcons = storedIcons
    /\ iconsLoaded = [p \in Viewed |-> 0]
    /\ delegates = EmptyBag /\ beingLoaded = {}

tryLoadIconsAsync_m(p, icons) ==
    LET keys == {<<t, icons[t]>> : t \in IconTypes} \ beingLoaded
    IN IF iconsLoaded[p] # 0 THEN UNCHANGED <<delegates, beingLoaded>>
       ELSE /\ delegates' = delegates (+) SetToBag({<<p, k>> : k \in keys})
            /\ beingLoaded' = beingLoaded \cup keys

(* Nothing is asked for while callbacks are being counted.                 *)
tryLoadIconsAsync(p, icons) ==
    LET keys == {<<t, icons[t]>> : t \in IconTypes}
    IN IF iconsLoaded[p] # 0 THEN UNCHANGED <<delegates, beingLoaded>>
       ELSE /\ delegates' = delegates (+) SetToBag({<<p, k>> : k \in keys})
            /\ beingLoaded' = beingLoaded \cup keys

(* A new profile of the player arrives.                                    *)
updateIcons(p, icons) ==
    /\ BagCardinality(delegates) <= Total * Cardinality(Viewed)
    /\ storedIcons' = [storedIcons EXCEPT ![p] = icons]
    /\ tryLoadIconsAsync(p, icons)
    /\ UNCHANGED <<shownIcons, iconsLoaded>>

(* asyncIconLoadedIntermediary: onFinishedLoadingIconAsync of every        *)
(* delegate of the key.                                                    *)
asyncIconLoaded(k) ==
    LET calls(p) == CopiesIn(<<p, k>>, delegates)
        count(p) == iconsLoaded[p] + calls(p)
    IN /\ k \in beingLoaded /\ beingLoaded' = beingLoaded \ {k}
       /\ delegates' = [e \in {e \in BagToSet(delegates) : e[2] # k} |-> delegates[e]]
       /\ iconsLoaded' = [p \in Viewed |-> count(p) % Total]
       /\ shownIcons' = [p \in Viewed |-> IF count(p) >= Total THEN storedIcons[p]
                                          ELSE shownIcons[p]]
       /\ UNCHANGED storedIcons

IconNext ==
    \/ \E p \in Viewed, icons \in Profile : updateIcons(p, icons)
    \/ \E k \in Key : asyncIconLoaded(k)

(* A player is drawn with the icons of their profile or still waits for a  *)
(* callback: no count of callbacks ends short of showing the icons, though *)
(* profiles change while icons load and players wait for each other's.     *)
ShownOrComing == \A p \in Viewed : shownIcons[p] # storedIcons[p] => Waiting(p) # {}
=============================================================================
