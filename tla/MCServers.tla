------------------------------ MODULE MCServers ------------------------------
(* Choosing a server (ServerMenu), its ping (ServerPings) and administering  *)
(* it (AdminMenu), which share no state; a behaviour follows one of them.    *)
EXTENDS ServerMenu, ServerPings, AdminMenu

VARIABLE follows

vars == <<follows, serverVars, pingVars, admVars>>

OneEach == [u \in Urls |-> {IF u = MainUrl THEN "m" ELSE u}]
Roles == << [id |-> "low", priority |-> 1, badge |-> "bronze"],
            [id |-> "mid", priority |-> 2, badge |-> NoBadge],
            [id |-> "high", priority |-> 3, badge |-> "gold"] >>
RoleLists == {<<>>, <<"mid", "low">>}

Init ==
    /\ SMInit /\ PingInit /\ AMInit /\ follows \in {"servers", "pings", "admin"}
    /\ follows # "servers" => saved.servers = <<MainUrl>> /\ am.keys = {}
    /\ follows # "admin" => ~adm.auth /\ \A u \in Users : entries[u] = NewEntry

FollowServers(A) == follows = "servers" /\ A /\ UNCHANGED <<follows, pingVars, admVars>>
FollowPings(A) == follows = "pings" /\ A /\ UNCHANGED <<follows, serverVars, admVars>>
FollowAdmin(A) == follows = "admin" /\ A /\ UNCHANGED <<follows, serverVars, pingVars>>

Next == FollowServers(SMNext) \/ FollowPings(PingNext) \/ FollowAdmin(AMNext)

(* Requests are answered, frames are drawn, and what was received is         *)
(* dispatched.                                                               *)
FairSpec ==
    /\ Init /\ [][Next]_vars
    /\ WF_vars(FollowAdmin(AdminServe)) /\ WF_vars(FollowAdmin(Dispatch))
    /\ WF_vars(FollowAdmin(RunQueued)) /\ WF_vars(FollowAdmin(UserInfoAnswer))
    /\ WF_vars(FollowAdmin(UserSearchAnswer))
=============================================================================
