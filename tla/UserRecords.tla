----------------------------- MODULE UserRecords -----------------------------
(***************************************************************************)
(* The record of one user: the row in the database of the central server   *)
(* (central/src/db/dbimpl.rs, web/routes/game_server.rs) and, while the    *)
(* user plays, the copy in the thread of the game server, which logins and *)
(* admins read and replace over HTTP (game/src/bridge.rs, server.rs,       *)
(* client/unauthorized.rs, handlers/admin.rs).                             *)
(*                                                                         *)
(* A record is a punishment, whether its time is over, and the roles.      *)
(* Every reader takes a whole record and writes a whole record back. The   *)
(* admins have every permission here; a refused update changes nothing.    *)
(*                                                                         *)
(* A definition that ends in _m is a faulty variant of the one it is named *)
(* after; no specification uses it.                                        *)
(***************************************************************************)
EXTENDS Naturals, Sequences

CONSTANTS Admins,     \* admins who edit the record
          RoleSets,   \* values of user_roles
          MaxUpdates, \* edits
          MaxFailures \* requests of the bridge that fail

VARIABLES row,     \* the row of the user
          live,    \* ClientThread::user_entry, or Away
          job,     \* what each admin, the login and the central server are doing
          kick,    \* BroadcastBan is in the thread's queue
          want,    \* the record as all completed edits together make it
          updates, failures,
          races    \* "overlap": a record was written while another had a copy;
                   \* "failed": a request failed

recordVars == <<row, live, job, kick, want, updates, failures, races>>

Away == [punished |-> "away", over |-> FALSE, roles |-> {}]
Clean == [punished |-> "no", over |-> FALSE, roles |-> {}]

Jobs == Admins \cup {"login", "central"}
NoJob == [pc |-> "idle", copy |-> Clean, new |-> Clean, next |-> "idle"]

RecordInit ==
    /\ row = Clean /\ live = Away /\ want = Clean
    /\ job = [j \in Jobs |-> NoJob]
    /\ kick = FALSE /\ updates = 0 /\ failures = 0 /\ races = {}

Busy(j) == job[j].pc # "idle"
Set(j, pc, copy, new, next) ==
    job' = [job EXCEPT ![j] = [pc |-> pc, copy |-> copy, new |-> new, next |-> next]]
Done(j) == job' = [job EXCEPT ![j] = NoJob]

(* Somebody else holds a copy of what j is writing.                        *)
Writes(j) ==
    races' = IF \E k \in Jobs \ {j} : Busy(k) THEN races \cup {"overlap"} ELSE races

---------------------------------------------------------------------------
(* The database *)

Expired(r) == r.punished # "no" /\ r.over
Pardoned(r) == [r EXCEPT !.punished = "no", !.over = FALSE]

(* get_user: the row is selected, and what it says of an expired           *)
(* punishment is cleared; the row is then still to be written back.        *)
get_user(j, new, next) ==
    IF Expired(row) THEN Set(j, "expire", Pardoned(row), new, next)
    ELSE Set(j, next, row, new, next)

maybe_expire_ban_m(j) ==
    /\ job[j].pc = "expire"
    /\ row' = [job[j].copy EXCEPT !.roles = {}] /\ want' = Pardoned(want)
    /\ Writes(j)
    /\ IF job[j].next = "idle" THEN Done(j)
       ELSE job' = [job EXCEPT ![j].pc = job[j].next]
    /\ UNCHANGED <<live, kick, updates, failures>>

maybe_expire_ban(j) ==
    /\ job[j].pc = "expire"
    /\ row' = job[j].copy /\ want' = Pardoned(want)
    /\ Writes(j)
    /\ IF job[j].next = "idle" THEN Done(j)
       ELSE job' = [job EXCEPT ![j].pc = job[j].next]
    /\ UNCHANGED <<live, kick, updates, failures>>

(* totp_login and challenge_start look at the row, too.                    *)
is_banned ==
    /\ ~Busy("central") /\ Expired(row)
    /\ get_user("central", Clean, "idle")
    /\ UNCHANGED <<row, live, kick, want, updates, failures, races>>

(* The time of every punishment so far is over, in every copy.             *)
Later(r) == [r EXCEPT !.over = r.punished \in {"mute", "ban"}]
TimePasses ==
    /\ ~row.over /\ row.punished # "no"
    /\ row' = Later(row) /\ want' = Later(want) /\ live' = Later(live)
    /\ job' = [j \in Jobs |-> [job[j] EXCEPT !.copy = Later(@), !.new = Later(@)]]
    /\ UNCHANGED <<kick, updates, failures, races>>

---------------------------------------------------------------------------
(* The game server *)

(* get_user_data for a login, and its outcome.                             *)
handle_login ==
    /\ live = Away /\ ~Busy("login")
    /\ get_user("login", Clean, "enter")
    /\ UNCHANGED <<row, live, kick, want, updates, failures, races>>

Enters(r) == r.punished # "ban"

LoginEnds ==
    /\ job["login"].pc = "enter" /\ Done("login")
    /\ live' = IF Enters(job["login"].copy) THEN job["login"].copy ELSE live
    /\ kick' = FALSE /\ Writes("login")
    /\ UNCHANGED <<row, want, updates, failures>>

(* The user disconnects, or is disconnected by BroadcastBan; an update on  *)
(* its way still has the old thread.                                       *)
Leaves ==
    /\ live # Away /\ live' = Away /\ kick' = FALSE
    /\ job' = [j \in Jobs |-> IF job[j].pc = "post" THEN [job[j] EXCEPT !.next = "left"] ELSE job[j]]
    /\ UNCHANGED <<row, want, updates, failures, races>>

(* The popup of the user is opened with the live record or with the row.   *)
handle_admin_get_user_state(a) ==
    /\ ~Busy(a) /\ updates < MaxUpdates
    /\ IF live # Away THEN Set(a, "popup", live, Clean, "popup") ELSE get_user(a, Clean, "popup")
    /\ UNCHANGED <<row, live, kick, want, updates, failures, races>>

(* The admin changes one thing and presses the button.                     *)
Edit(a) ==
    /\ job[a].pc = "popup" /\ updates < MaxUpdates /\ updates' = updates + 1
    /\ \E new \in {[job[a].copy EXCEPT !.punished = p, !.over = FALSE] : p \in {"no", "mute", "ban"}}
                      \cup {[job[a].copy EXCEPT !.roles = r] : r \in RoleSets} :
          new # job[a].copy /\ Set(a, "sent", job[a].copy, new, "compare")
    /\ UNCHANGED <<row, live, kick, want, failures, races>>

(* An online user's record is replaced before the request to the bridge;   *)
(* the copy is what it is compared with.                                   *)
Live(new) == new

handle_admin_update_user(a) ==
    /\ job[a].pc = "sent"
    /\ \/ /\ live # Away /\ job[a].new = live
          /\ Done(a) /\ UNCHANGED <<live, races>>
       \/ /\ live # Away /\ job[a].new # live
          /\ live' = Live(job[a].new) /\ Writes(a)
          /\ Set(a, "post", live, job[a].new, "stayed")
       \/ /\ live = Away
          /\ get_user(a, job[a].new, "compare") /\ UNCHANGED <<live, races>>
    /\ UNCHANGED <<row, kick, want, updates, failures>>

NoChange(a) ==
    /\ job[a].pc = "compare" /\ job[a].new = job[a].copy /\ Done(a)
    /\ UNCHANGED <<row, live, kick, want, updates, failures, races>>

(* update_user_data, and the message that ends the session of a user who   *)
(* has just been banned.                                                   *)
Posts(a) == job[a].pc = "post" \/ (job[a].pc = "compare" /\ job[a].new # job[a].copy)

Kicked(a) ==
    job[a].next = "stayed" /\ job[a].new.punished = "ban" /\ job[a].copy.punished # "ban"

update_user_data(a) ==
    /\ Posts(a) /\ Done(a) /\ Writes(a)
    /\ row' = job[a].new /\ want' = job[a].new
    /\ kick' = (kick \/ Kicked(a))
    /\ UNCHANGED <<live, updates, failures>>

(* The request times out or is refused; the admin is told an error.        *)
UpdateFails(a) ==
    /\ Posts(a) /\ Done(a) /\ row' \in {row, job[a].new}
    /\ failures < MaxFailures /\ failures' = failures + 1 /\ races' = races \cup {"failed"}
    /\ UNCHANGED <<live, kick, want, updates>>

(* The admin closes the popup, or the answer to get_user_data is lost.     *)
GivesUp(j) ==
    /\ job[j].pc \in {"popup", "enter", "compare"} /\ Done(j)
    /\ UNCHANGED <<row, live, kick, want, updates, failures, races>>

RecordNext ==
    \/ is_banned \/ TimePasses \/ handle_login \/ LoginEnds \/ Leaves
    \/ \E j \in Jobs : maybe_expire_ban(j) \/ GivesUp(j)
    \/ \E a \in Admins :
          \/ handle_admin_get_user_state(a) \/ Edit(a) \/ handle_admin_update_user(a)
          \/ NoChange(a) \/ update_user_data(a) \/ UpdateFails(a)

---------------------------------------------------------------------------
(* Properties *)

\* The row holds every edit the admins were told is done, at every moment and
\* whether the user was online, offline or their punishment ran out in between,
\* unless somebody wrote the record while another admin or reader held a copy,
\* or a request failed.
EditsKept == races = {} => row = want

=============================================================================
