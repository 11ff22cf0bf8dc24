------------------------------ MODULE Notices ------------------------------
(***************************************************************************)
(* ErrorQueues, which any thread fills and ErrorCheckNode empties ten      *)
(* times a second, and the alerts it opens (HookedFLAlertLayer).           *)
(*                                                                         *)
(* A definition that ends in _m is a faulty variant of the one it is named *)
(* after; no specification uses it.                                        *)
(***************************************************************************)
EXTENDS Integers, Sequences, SequencesExt

CONSTANT
    MaxMessages    \* bound: errors, notices and warnings raised

VARIABLES
    eq,         \* ErrorQueues: [errors, notices, warns], sequences of messages
    alerts,     \* the alerts of the running scene, topmost last: [msg, fresh]
    fate,       \* what became of every message raised so far
    scene       \* what the running scene shows

noticeVars == <<eq, alerts, fate, scene>>

---------------------------------------------------------------------------
(* ErrorQueues and ErrorCheckNode *)

Raise ==
    /\ Len(fate) < MaxMessages
    /\ \E q \in {"errors", "notices", "warns"} : eq' = [eq EXCEPT ![q] = Append(@, Len(fate) + 1)]
    /\ fate' = Append(fate, "queued")
    /\ UNCHANGED <<alerts, scene>>

canShowFLAlert(a) == Len(a) < 2

\* Closing by the back key is blocked for BLOCK_CLOSING_FOR.
ShowAlert(a, m) == IF canShowFLAlert(a) THEN Append(a, [msg |-> m, fresh |-> TRUE]) ELSE a

\* getErrors and getNotices, in a level only when it is paused.
Popped_m == IF scene = "level" THEN <<>> ELSE eq.errors
Popped == IF scene = "level" THEN <<>> ELSE eq.errors \o eq.notices

Fates(popped, a) ==
    [m \in DOMAIN fate |->
        IF m \in Range(eq.warns) \/ \E k \in DOMAIN a : a[k].msg = m THEN "shown"
        ELSE IF m \in Range(popped) THEN "dropped" ELSE fate[m]]

\* Nothing happens during transitions. Warnings and successes are shown at once,
\* errors and notices as alerts, but those beyond the second are dropped.
updateErrors ==
    /\ scene # "transition"
    /\ alerts' = FoldLeft(ShowAlert, alerts, Popped)
    /\ fate' = Fates(Popped, alerts')
    /\ eq' = IF scene = "level" THEN [eq EXCEPT !.warns = <<>>]
             ELSE [errors |-> <<>>, notices |-> <<>>, warns |-> <<>>]
    /\ UNCHANGED scene

\* HookedFLAlertLayer::keyBackClicked, and the Ok button, which is not blocked.
keyBackClicked ==
    /\ alerts # <<>>
    /\ alerts' = IF Last(alerts).fresh THEN alerts ELSE Front(alerts)
    /\ UNCHANGED <<eq, fate, scene>>

PressOk ==
    /\ alerts # <<>> /\ alerts' = Front(alerts)
    /\ UNCHANGED <<eq, fate, scene>>

BlockEnds ==
    /\ \E k \in DOMAIN alerts : alerts[k].fresh
    /\ alerts' = [k \in DOMAIN alerts |-> [alerts[k] EXCEPT !.fresh = FALSE]]
    /\ UNCHANGED <<eq, fate, scene>>

\* Alerts are children of their scene; pausing stays in it.
SceneChanges ==
    /\ \/ /\ scene \in {"menu", "level", "paused"} /\ scene' = "transition" /\ alerts' = <<>>
       \/ /\ scene = "transition" /\ scene' \in {"menu", "level"} /\ UNCHANGED alerts
       \/ /\ scene = "level" /\ scene' = "paused" /\ UNCHANGED alerts
       \/ /\ scene = "paused" /\ scene' = "level" /\ UNCHANGED alerts
    /\ UNCHANGED <<eq, fate>>

---------------------------------------------------------------------------

NotInit ==
    /\ eq = [errors |-> <<>>, notices |-> <<>>, warns |-> <<>>]
    /\ alerts = <<>> /\ fate = <<>> /\ scene = "menu"

NotNext == Raise \/ updateErrors \/ keyBackClicked \/ PressOk \/ BlockEnds \/ SceneChanges

---------------------------------------------------------------------------
(* Properties *)

\* A message is told sooner or later, unless the player is in a level.
MessagesTold ==
    \A m \in 1 .. MaxMessages :
        (m \in DOMAIN fate /\ fate[m] = "queued") ~>
            (scene = "level" \/ (m \in DOMAIN fate /\ fate[m] # "queued"))
=============================================================================
