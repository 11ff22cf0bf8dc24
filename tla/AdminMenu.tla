----------------------------- MODULE AdminMenu -----------------------------
(***************************************************************************)
(* The admin panel (ui/menu/admin): logging in with or without a saved     *)
(* password, the panel, the popup of one user with its role editor, the    *)
(* loading popups in between, and the admin handlers of the game server.   *)
(* Requests travel over TCP, the answers are datagrams: they may be lost   *)
(* or overtake one another. What the client has received is dispatched     *)
(* even after it disconnected.                                             *)
(*                                                                         *)
(* A definition that ends in _m is a faulty variant of the one it is named *)
(* after; no specification uses it.                                        *)
(***************************************************************************)
EXTENDS Integers, Sequences, SequencesExt, FiniteSets

CONSTANTS
    Users,        \* accounts an admin may look at
    Offline,      \* those of them that are not on the server
    Nameless,     \* offline ones the database knows by account id only
    AllRoles,     \* the roles of the server: <<[id, priority, badge], ...>>
    GivenRoles,   \* lists of roles that users have
    MaxActs,      \* bound: presses that send, open or change something
    MaxSlips      \* bound: lost datagrams, lost connections, edits of other admins

ASSUME AdminAssumption ==
    /\ Nameless \subseteq Offline /\ Offline \subseteq Users
    /\ \A r \in Range(AllRoles) : r.priority \in Nat

VARIABLES
    adm,      \* AdminManager and the saved password: [auth, role, saved]
    admNet,   \* [est, rec, up, down]: the connection, and what is on its way
    srvRole,  \* the role the server gave this connection
    entries,  \* the users' entries in the database
    stack,    \* the popups, topmost last
    udel,     \* GameLevelManager::m_userInfoDelegate: the id of a popup, or 0
    ldel,     \* GameLevelManager::m_levelManagerDelegate: likewise
    gd,       \* what GD's servers were asked
    queued,   \* callbacks that run in the main thread in the next frame
    acts, slips,
    slipped   \* what went wrong: lost, late, overlap, recovered, robbed

admVars == <<adm, admNet, srvRole, entries, stack, udel, ldel, gd, queued, acts, slips, slipped>>

NoRole == "no role"
NoUser == "no user"
NoPassword == "no password"
NoBadge == "no badge"
Passwords == {"global", "own", "wrong"}

\* term: a reason or an expiry date is set; roles in the order they were given.
NewEntry == [banned |-> FALSE, muted |-> FALSE, term |-> FALSE, roles |-> <<>>]
---------------------------------------------------------------------------
(* RoleManager *)

\* The role of that id, and the badge that a list of roles adds up to.
findRole(id) == SelectInSeq(AllRoles, LAMBDA r : r.id = id)

AddRole(c, id) ==
    LET r == AllRoles[findRole(id)]
        isHigher == r.priority > c.priority
    IN IF findRole(id) = 0 THEN c
       ELSE [priority |-> IF isHigher THEN r.priority ELSE c.priority,
             badge |-> IF r.badge # NoBadge /\ (isHigher \/ c.badge = NoBadge)
                       THEN r.badge ELSE c.badge]

compute(roles) == FoldLeft(AddRole, [priority |-> -1, badge |-> NoBadge], roles).badge

---------------------------------------------------------------------------
(* Popups *)

NewId == 1 + Max({0} \cup {stack[k].id : k \in DOMAIN stack} \cup {queued[k].id : k \in DOMAIN queued})

\* who, entry: the user entry shown; data: whose account data is shown with it.
\* base and touched: the entry as it came, and the fields changed since.
Popup(p, who, entry, data) ==
    [id |-> NewId, p |-> p, who |-> who, entry |-> entry, data |-> data, base |-> entry,
     touched |-> {}, badge |-> compute(entry.roles)]
Plain(p, data) == Popup(p, NoUser, NewEntry, data)

TopIs(p) == stack # <<>> /\ Last(stack).p = p
Has(p) == \E k \in DOMAIN stack : stack[k].p = p
Without(i) == SelectSeq(stack, LAMBDA x : x.id # i)
Opens(s, x) == stack' = Append(s, x)

Act == acts < MaxActs /\ acts' = acts + 1

\* NetworkManager::send. who: the user, password or role it is about.
Msg(k, who, x) == [k |-> k, who |-> who, x |-> x]
Sent(n, m) == IF n.est THEN [n EXCEPT !.up = Append(@, m)] ELSE n

\* Whether a request is sent while another of the same kind is unanswered.
InFlight(kinds) ==
    \/ \E k \in DOMAIN admNet.up : admNet.up[k].k \in kinds
    \/ \E k \in DOMAIN admNet.down : admNet.down[k].k \in kinds
GetKinds == {"getName", "getId", "userData", "notFound"}
AuthKinds == {"auth", "authSuccess", "authFailed"}
Overlap(kinds) == IF InFlight(kinds) \/ gd # <<>> \/ queued # <<>> THEN {"overlap"} ELSE {}

\* GlobedMenuLayer::keyDown
PressF8 ==
    /\ Act /\ stack = <<>>
    /\ Opens(stack, Plain(IF adm.auth THEN "panel" ELSE "login", NoUser))
    /\ UNCHANGED <<adm, admNet, srvRole, entries, udel, ldel, gd, queued, slips, slipped>>

\* The password is saved before it is tried; offline nothing happens.
PressLogin ==
    /\ Act /\ TopIs("login") /\ admNet.est
    /\ \E pw \in Passwords, rememberPassword \in BOOLEAN :
          /\ adm' = IF rememberPassword THEN [adm EXCEPT !.saved = pw] ELSE adm
          /\ admNet' = Sent(admNet, Msg("auth", pw, NewEntry))
    /\ slipped' = slipped \cup Overlap(AuthKinds)
    /\ stack' = Front(stack)
    /\ UNCHANGED <<srvRole, entries, udel, ldel, gd, queued, slips>>

PressLogout ==
    /\ TopIs("panel")
    /\ adm' = [auth |-> FALSE, role |-> NoRole, saved |-> NoPassword]
    /\ stack' = Front(stack)
    /\ UNCHANGED <<admNet, srvRole, entries, udel, ldel, gd, queued, acts, slips, slipped>>

\* The panel keeps the name in its input field.
PressFind ==
    /\ Act /\ TopIs("panel")
    /\ \E u \in Users :
          /\ stack' = [stack EXCEPT ![Len(stack)].data = u]
          /\ admNet' = Sent(admNet, Msg("getName", u, NewEntry))
    /\ slipped' = slipped \cup Overlap(GetKinds)
    /\ UNCHANGED <<adm, srvRole, entries, udel, ldel, gd, queued, slips>>

\* The admin button of a player's cell.
openUserPopup_m ==
    /\ Act /\ stack = <<>> /\ adm.auth
    /\ \E u \in Users \ Offline, v \in Users :
          /\ Opens(stack, Plain("fetch", u))
          /\ admNet' = Sent(admNet, Msg("getId", v, NewEntry))
    /\ slipped' = slipped \cup Overlap(GetKinds)
    /\ UNCHANGED <<adm, srvRole, entries, udel, ldel, gd, queued, slips>>
openUserPopup ==
    /\ Act /\ stack = <<>> /\ adm.auth
    /\ \E u \in Users \ Offline :
          /\ Opens(stack, Plain("fetch", u))
          /\ admNet' = Sent(admNet, Msg("getId", u, NewEntry))
    /\ slipped' = slipped \cup Overlap(GetKinds)
    /\ UNCHANGED <<adm, srvRole, entries, udel, ldel, gd, queued, slips>>

\* Closing a popup gives up the delegate of its kind, whoever has it.
CloseTop ==
    /\ stack # <<>>
    /\ LET x == Last(stack)
           lost == IF x.p = "user" THEN udel ELSE IF x.p = "search" THEN ldel ELSE 0
       IN /\ udel' = IF x.p = "user" THEN 0 ELSE udel
          /\ ldel' = IF x.p = "search" THEN 0 ELSE ldel
          /\ slipped' = IF lost \notin {0, x.id} THEN slipped \cup {"robbed"} ELSE slipped
    /\ stack' = Front(stack)
    /\ UNCHANGED <<adm, admNet, srvRole, entries, gd, queued, acts, slips>>

---------------------------------------------------------------------------
(* AdminUserPopup *)

\* Without account data the profile is asked from GD's servers.
ShowUser(s, who, entry, data) ==
    /\ Opens(s, Popup("user", who, entry, data))
    /\ IF data = NoUser
       THEN /\ udel' = NewId /\ gd' = Append(gd, Msg("info", who, NewEntry))
            /\ slipped' = IF udel # 0 THEN slipped \cup {"robbed"} ELSE slipped
       ELSE UNCHANGED <<udel, gd, slipped>>

Edit(e) ==
    /\ Act /\ TopIs("user") /\ Last(stack).data # NoUser
    /\ stack' = [stack EXCEPT ![Len(stack)] = e]
    /\ UNCHANGED <<adm, admNet, srvRole, entries, udel, ldel, gd, queued, slips, slipped>>

\* The ban and the mute button; the whitelist button is like them.
onViolationChanged ==
    \E tag \in {"banned", "muted"} :
        LET x == Last(stack)
        IN stack # <<>> /\ Edit([x EXCEPT !.entry[tag] = ~@, !.touched = @ \cup {tag}])

\* The duration slider and the reason.
onViolationDurationChanged ==
    LET x == Last(stack)
    IN stack # <<>> /\ Edit([x EXCEPT !.entry.term = ~@, !.touched = @ \cup {"term"}])

\* AdminEditRolePopup: its callback replaces the roles and the badge.
EditRole ==
    /\ adm.role = "admin" /\ stack # <<>>
    /\ \E r \in Range(AllRoles) :
          LET x == Last(stack)
              roles == IF r.id \in Range(x.entry.roles)
                       THEN SelectSeq(x.entry.roles, LAMBDA k : k # r.id)
                       ELSE Append(x.entry.roles, r.id)
          IN Edit([x EXCEPT !.entry.roles = roles, !.badge = compute(roles),
                            !.touched = @ \cup {"roles"}])

sendUpdateUser ==
    /\ Act /\ TopIs("user") /\ Last(stack).data # NoUser
    /\ admNet' = Sent(admNet, Msg("update", Last(stack).who, Last(stack)))
    /\ UNCHANGED <<adm, srvRole, entries, stack, udel, ldel, gd, queued, slips, slipped>>

\* Kicking and notices, from the panel and from a user's popup: sent, and
\* answered by a notification only.
commonSend ==
    /\ Act /\ (TopIs("panel") \/ (TopIs("user") /\ Last(stack).data # NoUser))
    /\ admNet' = Sent(admNet, Msg("command", NoUser, NewEntry))
    /\ UNCHANGED <<adm, srvRole, entries, stack, udel, ldel, gd, queued, slips, slipped>>

---------------------------------------------------------------------------
(* Packets and answers of GD's servers *)

\* The panel shows the user at once, a loading popup in the next frame.
OnAdminUserData(m) ==
    LET fetches == SelectSeq(stack, LAMBDA x : x.p = "fetch")
    IN /\ IF Has("panel")
          THEN ShowUser(stack, m.who, m.x, IF m.who \in Offline THEN NoUser ELSE m.who)
          ELSE UNCHANGED <<stack, udel, gd, slipped>>
       /\ queued' = IF fetches = <<>> THEN queued
                    ELSE Append(queued, [id |-> fetches[1].id, m |-> m, data |-> fetches[1].data])
       /\ UNCHANGED <<adm, ldel>>

\* A user who is not known by name is searched for, by what the input field
\* of the panel holds by now.
OnAdminError ==
    LET panels == SelectSeq(stack, LAMBDA x : x.p = "panel")
    IN /\ IF panels = <<>> THEN UNCHANGED <<stack, ldel, gd, slipped>>
          ELSE /\ Opens(stack, Plain("search", panels[1].data))
               /\ ldel' = NewId
               /\ gd' = Append(gd, Msg("search", panels[1].data, NewEntry))
               /\ slipped' = IF ldel # 0 THEN slipped \cup {"robbed"} ELSE slipped
       /\ UNCHANGED <<adm, udel, queued>>

OnAdminAuthSuccess(role) ==
    /\ adm' = [adm EXCEPT !.auth = TRUE, !.role = role]
    /\ UNCHANGED <<stack, udel, ldel, gd, queued, slipped>>

OnAdminAuthFailed ==
    /\ adm' = [adm EXCEPT !.saved = NoPassword]
    /\ UNCHANGED <<stack, udel, ldel, gd, queued, slipped>>

\* Any datagram may come next, also one received before the connection was lost.
Dispatch ==
    /\ \E i \in DOMAIN admNet.down :
          LET m == admNet.down[i]
          IN /\ admNet' = [admNet EXCEPT !.down = RemoveAt(@, i)]
             /\ \/ m.k = "userData" /\ OnAdminUserData(m)
                \/ m.k = "notFound" /\ OnAdminError
                \/ m.k = "authFailed" /\ OnAdminAuthFailed
                \/ m.k = "authSuccess" /\ OnAdminAuthSuccess(m.who)
    /\ UNCHANGED <<srvRole, entries, acts, slips>>

\* The popup of the user opens, the loading popup closes.
RunQueued_m ==
    /\ queued # <<>>
    /\ LET q == Head(queued)
       IN ShowUser(stack, q.m.who, q.m.x, q.data)
    /\ queued' = Tail(queued)
    /\ UNCHANGED <<adm, admNet, srvRole, entries, ldel, acts, slips>>
RunQueued ==
    /\ queued # <<>>
    /\ LET q == Head(queued)
       IN ShowUser(Without(q.id), q.m.who, q.m.x, q.data)
    /\ queued' = Tail(queued)
    /\ UNCHANGED <<adm, admNet, srvRole, entries, ldel, acts, slips>>

\* The profile goes to the popup that is the delegate now; without one, or
\* when the request failed, that popup closes.
getUserInfoFinished(who) ==
    stack' = [k \in DOMAIN stack |-> IF stack[k].id = udel
                                     THEN [stack[k] EXCEPT !.data = who] ELSE stack[k]]
getUserInfoFailed == stack' = Without(udel)

UserInfoAnswer ==
    /\ gd # <<>> /\ Head(gd).k = "info"
    /\ gd' = Tail(gd)
    /\ IF udel = 0 THEN UNCHANGED stack
       ELSE getUserInfoFinished(Head(gd).who) \/ getUserInfoFailed
    /\ udel' = 0
    /\ UNCHANGED <<adm, admNet, srvRole, entries, ldel, queued, acts, slips, slipped>>

\* DummyUserLoadNode: the account id of the user found is asked for.
UserSearchAnswer ==
    /\ gd # <<>> /\ Head(gd).k = "search"
    /\ gd' = Tail(gd)
    /\ IF ldel = 0 THEN UNCHANGED <<stack, admNet>>
       ELSE /\ stack' = Without(ldel)
            /\ \/ Head(gd).who # NoUser /\ admNet' = Sent(admNet, Msg("getId", Head(gd).who, NewEntry))
               \/ UNCHANGED admNet
    /\ ldel' = 0
    /\ slipped' = slipped \cup (IF InFlight(GetKinds) THEN {"overlap"} ELSE {})
    /\ UNCHANGED <<adm, srvRole, entries, udel, queued, acts, slips>>

---------------------------------------------------------------------------
(* The game server *)

handle_admin_auth(m) ==
    /\ UNCHANGED entries
    /\ srvRole' = IF m.who = "wrong" THEN srvRole ELSE IF m.who = "global" THEN "admin" ELSE "mod"
    /\ admNet' = [admNet EXCEPT !.up = Tail(@),
                     !.down = Append(@, IF m.who = "wrong" THEN Msg("authFailed", NoRole, NewEntry)
                                        ELSE Msg("authSuccess", srvRole', NewEntry))]

\* Whoever may not moderate gets no answer at all.
handle_admin_get_user_state(m) ==
    /\ UNCHANGED <<srvRole, entries>>
    /\ admNet' = [admNet EXCEPT !.up = Tail(@),
                     !.down = IF srvRole = NoRole THEN @
                              ELSE IF m.k = "getName" /\ m.who \in Nameless
                              THEN Append(@, Msg("notFound", m.who, NewEntry))
                              ELSE Append(@, Msg("userData", m.who, entries[m.who]))]

\* What this admin may not change is kept as it is or refused; the rest of the
\* entry is replaced whole. mod: may mute, and neither ban nor edit roles.
Updated(old, new) ==
    LET n == IF srvRole = "admin" THEN new ELSE [new EXCEPT !.roles = old.roles]
    IN IF srvRole = NoRole \/ (srvRole = "mod" /\ n.banned # old.banned) \/ n = old THEN old
       ELSE [n EXCEPT !.term = @ /\ (n.banned \/ n.muted)]

handle_admin_update_user(m) ==
    /\ entries' = [entries EXCEPT ![m.who] = Updated(@, m.x.entry)]
    /\ admNet' = [admNet EXCEPT !.up = Tail(@)]
    /\ UNCHANGED srvRole

AdminServe ==
    /\ admNet.up # <<>>
    /\ LET m == Head(admNet.up)
       IN \/ m.k = "auth" /\ handle_admin_auth(m)
          \/ m.k \in {"getName", "getId"} /\ handle_admin_get_user_state(m)
          \/ m.k = "update" /\ handle_admin_update_user(m)
          \/ /\ m.k = "command" /\ admNet' = [admNet EXCEPT !.up = Tail(@)]
             /\ UNCHANGED <<srvRole, entries>>
    /\ UNCHANGED <<adm, stack, udel, ldel, gd, queued, acts, slips>>
    /\ slipped' = IF Head(admNet.up).k \in {"getName", "getId"} /\ srvRole = NoRole
                  THEN slipped \cup {"ignored"} ELSE slipped

---------------------------------------------------------------------------
(* Faults *)

Slip == slips < MaxSlips /\ slips' = slips + 1

LoseAnswer ==
    /\ Slip
    /\ \E i \in DOMAIN admNet.down : admNet' = [admNet EXCEPT !.down = RemoveAt(@, i)]
    /\ slipped' = slipped \cup {"lost"}
    /\ UNCHANGED <<adm, srvRole, entries, stack, udel, ldel, gd, queued, acts>>

\* Another admin changes a user.
OtherAdminEdits ==
    /\ Slip
    /\ \E u \in Users : entries' = [entries EXCEPT ![u].muted = ~@]
    /\ UNCHANGED <<adm, admNet, srvRole, stack, udel, ldel, gd, queued, acts, slipped>>

\* The client gives up (NetworkManager::disconnect) or recovers the connection.
AdminConnectionLost ==
    /\ Slip /\ admNet.est
    /\ \E rec \in BOOLEAN, n \in {0, Len(admNet.down)} :
          /\ admNet' = [est |-> FALSE, rec |-> rec, up |-> <<>>, down |-> SubSeq(admNet.down, 1, n)]
          /\ adm' = IF rec THEN adm ELSE [adm EXCEPT !.auth = FALSE, !.role = NoRole]
          /\ srvRole' = IF rec THEN srvRole ELSE NoRole
          /\ slipped' = slipped \cup {"lost"} \cup (IF n > 0 THEN {"late"} ELSE {})
    /\ UNCHANGED <<entries, stack, udel, ldel, gd, queued, acts>>

\* onLoggedIn: a saved password is tried. The server may have dropped the
\* session that was to be recovered; the client keeps its role all the same.
AdminLoggedIn ==
    /\ ~admNet.est
    /\ srvRole' \in {srvRole, NoRole}
    /\ admNet' = [admNet EXCEPT !.est = TRUE, !.rec = FALSE,
                     !.up = IF adm.saved = NoPassword THEN @
                            ELSE Append(@, Msg("auth", adm.saved, NewEntry))]
    /\ slipped' = slipped \cup (IF adm.auth /\ srvRole' = NoRole THEN {"recovered"} ELSE {})
                          \cup (IF adm.saved # NoPassword THEN Overlap(AuthKinds) ELSE {})
    /\ UNCHANGED <<adm, entries, stack, udel, ldel, gd, queued, acts, slips>>

---------------------------------------------------------------------------

\* Not logged in, or logged in without having saved the password.
AMInit ==
    /\ adm \in {[auth |-> r # NoRole, role |-> r, saved |-> NoPassword] : r \in {NoRole, "mod", "admin"}}
    /\ srvRole = adm.role
    /\ admNet = [est |-> TRUE, rec |-> FALSE, up |-> <<>>, down |-> <<>>]
    /\ \E r \in GivenRoles : entries = [u \in Users |-> [NewEntry EXCEPT !.roles = r]]
    /\ stack = <<>> /\ udel = 0 /\ ldel = 0 /\ gd = <<>> /\ queued = <<>>
    /\ acts = 0 /\ slips = 0 /\ slipped = {}

AMNext ==
    \/ PressF8 \/ PressLogin \/ PressLogout \/ PressFind \/ openUserPopup \/ CloseTop
    \/ onViolationChanged \/ onViolationDurationChanged \/ EditRole \/ sendUpdateUser \/ commonSend
    \/ Dispatch \/ RunQueued \/ UserInfoAnswer \/ UserSearchAnswer
    \/ AdminServe \/ LoseAnswer \/ OtherAdminEdits \/ AdminConnectionLost \/ AdminLoggedIn

---------------------------------------------------------------------------
(* Properties *)

\* The popup of a user shows the name of the user whose entry it edits, as
\* long as no request was made while the answer to another was on its way.
EditsShownUser ==
    "overlap" \notin slipped =>
        \A k \in DOMAIN stack :
            stack[k].p = "user" /\ stack[k].data # NoUser => stack[k].data = stack[k].who

\* Loading popups and popups that wait for a profile close or load, unless an
\* answer was lost, the server ignored the request, or another popup took the
\* delegate.
Waits == Has("fetch") \/ Has("search") \/ \E k \in DOMAIN stack : stack[k].p = "user" /\ stack[k].data = NoUser
AdminWaitsEnd == Waits ~> (~Waits \/ slipped # {})
=============================================================================
