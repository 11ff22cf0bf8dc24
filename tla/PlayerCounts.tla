----------------------------- MODULE PlayerCounts -----------------------------
(***************************************************************************)
(* GameServerPinger of the central server (central/src/game_pinger.rs) and *)
(* the route that moves its history into the database and shows it         *)
(* (web/routes/public.rs, db/dbimpl.rs).                                   *)
(*                                                                         *)
(* A count is kept as the set of answers <<server, round>> it adds up.     *)
(* Every round pings with the same id, so an answer does not say to which  *)
(* round it belongs.                                                       *)
(*                                                                         *)
(* A definition that ends in _m is a faulty variant of the one it is named *)
(* after; no specification uses it.                                        *)
(***************************************************************************)
EXTENDS Naturals, Sequences, FiniteSets

CONSTANTS GameServers, Visitors, MaxRounds, MaxTroubles

ASSUME RoundsAssumption == MaxRounds \in Nat

VARIABLES pinger,    \* run_pinger: round, whether it receives, what it has added up
          answers,   \* answers under way
          history,   \* rounds not yet in the database
          buffers,   \* the entries each request of player_counts has taken
          table,     \* player_counts: how many rows there are of each round
          monthOld,  \* rounds of more than a month ago
          troubles   \* what went wrong: lost and late answers, failed insertions

countVars == <<pinger, answers, history, buffers, table, monthOld, troubles>>

CountInit ==
    /\ pinger = [round |-> 0, receiving |-> FALSE, counted |-> {}]
    /\ answers = {} /\ history = <<>> /\ buffers = [v \in Visitors |-> <<>>]
    /\ table = [r \in 1 .. MaxRounds |-> 0] /\ monthOld = {} /\ troubles = <<>>

Trouble(what) == Len(troubles) < MaxTroubles /\ troubles' = Append(troubles, what)

---------------------------------------------------------------------------
(* game_pinger.rs *)

run_pinger ==
    /\ ~pinger.receiving /\ pinger.round < MaxRounds
    /\ pinger' = [round |-> pinger.round + 1, receiving |-> TRUE, counted |-> {}]
    /\ answers' = answers \cup {<<s, pinger'.round>> : s \in GameServers}
    /\ UNCHANGED <<history, buffers, table, monthOld, troubles>>

Lost ==
    \E a \in answers :
        /\ Trouble("lost") /\ answers' = answers \ {a}
        /\ UNCHANGED <<pinger, history, buffers, table, monthOld>>

(* The count is stored and the entry appended under the history's lock.    *)
EndRound(counted) ==
    /\ pinger' = [pinger EXCEPT !.receiving = FALSE, !.counted = counted]
    /\ history' = Append(history, [round |-> pinger.round, counted |-> counted])

Complete(counted) == Cardinality(counted) >= Cardinality(GameServers)

receive_responses ==
    \E a \in answers :
        LET counted == pinger.counted \cup {a} IN
        /\ pinger.receiving
        /\ answers' = answers \ {a}
        /\ IF Complete(counted) THEN EndRound(counted)
           ELSE pinger' = [pinger EXCEPT !.counted = counted] /\ UNCHANGED history
        /\ UNCHANGED <<buffers, table, monthOld, troubles>>

(* Nothing came for 5 seconds, or recv failed; what comes later counts for *)
(* a later round.                                                          *)
TimedOut ==
    /\ pinger.receiving
    /\ EndRound(pinger.counted)
    /\ \/ answers = {} /\ UNCHANGED troubles
       \/ answers # {} /\ Trouble("late")
    /\ UNCHANGED <<answers, buffers, table, monthOld>>

---------------------------------------------------------------------------
(* public.rs: the history is taken, and its entries are inserted one after *)
(* the other; then rows of more than a month ago are deleted.              *)

Taken_m == history
Taken == <<>>

player_counts(v) ==
    /\ buffers[v] = <<>> /\ history # <<>>
    /\ buffers' = [buffers EXCEPT ![v] = history]
    /\ history' = Taken
    /\ UNCHANGED <<pinger, answers, table, monthOld, troubles>>

insert_player_count_history(v) ==
    /\ buffers[v] # <<>>
    /\ buffers' = [buffers EXCEPT ![v] = Tail(@)]
    /\ LET rows == [table EXCEPT ![Head(buffers[v]).round] = @ + 1]
       IN table' = IF Len(buffers[v]) = 1
                   THEN [r \in 1 .. MaxRounds |-> IF r \in monthOld THEN 0 ELSE rows[r]]
                   ELSE rows
    /\ UNCHANGED <<pinger, answers, history, monthOld, troubles>>

InsertFails(v) ==
    /\ buffers[v] # <<>> /\ Trouble("insert")
    /\ buffers' = [buffers EXCEPT ![v] = <<>>]
    /\ UNCHANGED <<pinger, answers, history, table, monthOld>>

MonthPasses ==
    /\ ~pinger.receiving /\ monthOld = {} /\ pinger.round > 0
    /\ monthOld' = 1 .. pinger.round
    /\ UNCHANGED <<pinger, answers, history, buffers, table, troubles>>

CountNext ==
    \/ run_pinger \/ Lost \/ receive_responses \/ TimedOut \/ MonthPasses
    \/ \E v \in Visitors :
          player_counts(v) \/ insert_player_count_history(v) \/ InsertFails(v)

---------------------------------------------------------------------------
(* Properties *)

\* Where the count of a round is: in the history, in what a request has taken
\* and not yet inserted, or in the table.
At(entries, r) == {i \in DOMAIN entries : entries[i].round = r}
Records(r) ==
    ({<<"history">>} \X At(history, r)) \cup ({<<"table">>} \X (1 .. table[r]))
        \cup UNION {{<<"taken", v>>} \X At(buffers[v], r) : v \in Visitors}

Finished == IF pinger.receiving THEN pinger.round - 1 ELSE pinger.round

\* No count is recorded twice or lost, however many visitors ask at the same
\* time, until it is a month old, unless an insertion failed.
EachRoundOnce ==
    \A r \in 1 .. MaxRounds :
        /\ \A p, q \in Records(r) : p = q
        /\ r \in 1 .. Finished /\ r \notin monthOld /\ Records(r) = {}
               => \E i \in DOMAIN troubles : troubles[i] = "insert"

=============================================================================
