------------------------------ MODULE Presence ------------------------------
(***************************************************************************)
(* What the session machinery of the game server promises: the stages a    *)
(* session goes through, and a player count that goes up once when the     *)
(* session logs in and down once when it ends.                             *)
(***************************************************************************)
EXTENDS Integers, FiniteSets

CONSTANT Session

VARIABLES status, count

vars == <<status, count>>

Status == {"new", "pending", "unclaimed", "playing", "lost", "closing",
           "offline", "stuck"}

Move(c, from, to) ==
    /\ status[c] \in from
    /\ \E t \in to : status' = [status EXCEPT ![c] = t]

Open(c) == Move(c, {"new"}, {"pending"}) /\ UNCHANGED count

Reject(c) == Move(c, {"pending"}, {"offline"}) /\ UNCHANGED count

LogIn(c) == Move(c, {"pending"}, {"unclaimed", "closing"}) /\ count' = count + 1

Claim(c) == Move(c, {"unclaimed"}, {"playing"}) /\ UNCHANGED count

Lose(c) == Move(c, {"playing"}, {"lost"}) /\ UNCHANGED count

Recover(c) == Move(c, {"lost"}, {"unclaimed"}) /\ UNCHANGED count

Close(c) == Move(c, {"unclaimed", "playing", "lost"}, {"closing"})
            /\ UNCHANGED count

LogOut(c) == Move(c, {"closing"}, {"offline"}) /\ count' = count - 1

(* The task died: the session is never cleaned up.                         *)
Die(c) == Move(c, {"playing"}, {"stuck"}) /\ UNCHANGED count

Init == status = [c \in Session |-> "new"] /\ count = 0

Next == \E c \in Session :
            \/ Open(c) \/ Reject(c) \/ LogIn(c) \/ Claim(c) \/ Lose(c)
            \/ Recover(c) \/ Close(c) \/ LogOut(c) \/ Die(c)

Spec == Init /\ [][Next]_vars

=============================================================================
