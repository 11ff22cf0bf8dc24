------------------------------ MODULE RoomMenu ------------------------------
(***************************************************************************)
(* The room menu of the client (ui/menu/room): RoomLayer with its popups,  *)
(* the RoomManager it keeps up to date, the listeners of the packet pool   *)
(* that die with the node they belong to, and the replies of the game      *)
(* server's room handlers. The room player list travels over TCP, every    *)
(* other reply over UDP, so replies may overtake one another, and any      *)
(* datagram may be lost.                                                   *)
(*                                                                         *)
(* A definition that ends in _m is a faulty variant of the one it is named *)
(* after; no specification uses it.                                        *)
(***************************************************************************)
EXTENDS Integers, Sequences, SequencesExt, FiniteSets

CONSTANTS
    OpenRooms,        \* rooms other players own that anyone may join
    ProtectedRooms,   \* rooms other players own that need a password
    OwnRooms,         \* ids the server may give to rooms this player creates
    MaxInputs,        \* bound: presses of the player
    MaxChanges,       \* bound: changes other players make
    MaxFaults         \* bound: lost datagrams and lost connections

Global == 0
RoomIds == OpenRooms \cup ProtectedRooms \cup OwnRooms

ASSUME RoomIdsAssumption == RoomIds \subseteq Nat \ {Global}

VARIABLES
    rm,       \* RoomManager::roomInfo: [id, mine, flag]
    lay,      \* RoomLayer
    pop,      \* the popups that are open, topmost last, and their contents
    set,      \* RoomSettingsPopup
    net,      \* [est, up, down]: the connection and what is on its way
    srv,      \* the server: room of this player, existing rooms, free ids
    inputs, changes, nfaults,
    faults    \* what went wrong on the wire since the layer was opened

menuVars == <<rm, lay, pop, set, net, srv, inputs, changes, nfaults, faults>>

\* One Boolean stands for the settings of a room (hidden, public invites,
\* collision, 2-player mode); mine: this player is its owner.
Info(r, rooms) ==
    IF r = Global THEN [id |-> Global, mine |-> FALSE, flag |-> FALSE]
    ELSE [id |-> r, mine |-> rooms[r].mine, flag |-> rooms[r].flag]
Infos == [id : RoomIds \cup {Global}, mine : BOOLEAN, flag : BOOLEAN]
SrvInfo == Info(srv.room, srv.rooms)

None == "none"
NoRoom == -1
Popups == {"listing", "join", "password", "create", "settings", "invite"}

Packet(k, tcp, info) == [k |-> k, tcp |-> tcp, info |-> info]
Request(k, r, good) == [k |-> k, r |-> r, good |-> good]

\* The packet ids of both directions.
DownKinds == {"list", "joined", "created", "createFailed", "info", "wasProtected",
              "joinFailed", "roomList", "globalList"}
UpKinds == {"list", "join", "leave", "create", "settings", "roomList", "globalList", "invite"}

---------------------------------------------------------------------------
(* RoomLayer *)

\* NetworkManager::send; what is sent while not connected goes nowhere.
send(m) == net' = IF net.est THEN [net EXCEPT !.up = Append(@, m)] ELSE net

ClosedLayer == [open |-> FALSE, circle |-> FALSE, waiting |-> FALSE, shown |-> NoRoom,
                buttons |-> None, title |-> NoRoom, filter |-> FALSE, invite |-> FALSE]

\* The invite button is there for whoever may invite.
recreateInviteButton(l, info) ==
    [l EXCEPT !.invite = info.id # Global /\ (info.flag \/ info.mine)]

addButtons(l, info) ==
    [l EXCEPT !.buttons = IF info.id = Global THEN "joinCreate" ELSE "leave"]

setRoomTitle(l, info) == [l EXCEPT !.title = info.id]

\* The list is shown anew; title and buttons only when the room changed.
onLoaded(l, info, stateChanged) ==
    LET r == [l EXCEPT !.circle = FALSE]
        s == IF stateChanged THEN addButtons(setRoomTitle(r, info), info) ELSE r
    IN recreateInviteButton(s, info)

\* Whether a reload that was asked to send does send: not while a reply to an
\* earlier request is awaited.
SendsRequest(l, sendPacket) == sendPacket /\ ~l.waiting

\* The layer shows the loading circle, and asks for the list if told to.
reloadPlayerList(l, sendPacket) ==
    IF ~net.est THEN l
    ELSE recreateInviteButton(
            [l EXCEPT !.circle = TRUE, !.waiting = @ \/ sendPacket], rm)

Requests(l, sendPacket) ==
    IF net.est /\ SendsRequest(l, sendPacket) THEN <<Request("list", Global, TRUE)>> ELSE <<>>

isLoading == lay.circle

NoPopup == [stack |-> <<>>, code |-> Global, rooms |-> {}, loading |-> FALSE,
            waiting |-> FALSE, invited |-> FALSE]
Top == IF pop.stack = <<>> THEN None ELSE Last(pop.stack)
show(p) == [pop EXCEPT !.stack = Append(@, p)]
\* What a closed popup held is gone with it.
onClose == IF Len(pop.stack) = 1 THEN NoPopup ELSE [pop EXCEPT !.stack = Front(@)]

\* A press that sends something counts against the bound, any other is free.
Press == inputs < MaxInputs /\ inputs' = inputs + 1
Free == UNCHANGED inputs
OnLayer == lay.open /\ pop.stack = <<>>

\* GlobedMenuLayer, which is entered while connected only, creates the layer,
\* which registers its listeners and asks for the player list.
OpenLayer ==
    /\ Press /\ ~lay.open /\ net.est
    /\ LET l == recreateInviteButton([ClosedLayer EXCEPT !.open = TRUE], rm)
       IN /\ lay' = reloadPlayerList(l, TRUE)
          /\ net' = [net EXCEPT !.up = @ \o Requests(l, TRUE)]
    /\ faults' = {}
    /\ UNCHANGED <<rm, pop, set, srv, changes, nfaults>>

\* Going back destroys the layer and with it its listeners.
CloseLayer ==
    /\ Free /\ OnLayer
    /\ lay' = ClosedLayer
    /\ UNCHANGED <<rm, pop, set, net, srv, changes, nfaults, faults>>

\* The player leaves its room; a room nobody is left in is removed.
Departed(s) ==
    IF s.room = Global \/ ~s.rooms[s.room].mine THEN s
    ELSE [s EXCEPT !.rooms = [r \in DOMAIN s.rooms \ {s.room} |-> s.rooms[r]]]

\* The leave button of GlobedMenuLayer disconnects and goes to the server list.
LeaveServer ==
    /\ Press /\ OnLayer /\ net.est
    /\ lay' = ClosedLayer
    /\ net' = [est |-> FALSE, up |-> <<>>, down |-> net.down]
    /\ rm' = [id |-> Global, mine |-> FALSE, flag |-> FALSE]
    /\ srv' = [Departed(srv) EXCEPT !.room = Global]
    /\ UNCHANGED <<pop, set, changes, nfaults, faults>>

Refresh ==
    /\ Press /\ OnLayer
    /\ lay' = reloadPlayerList(lay, TRUE)
    /\ net' = [net EXCEPT !.up = @ \o Requests(lay, TRUE)]
    /\ UNCHANGED <<rm, pop, set, srv, changes, nfaults, faults>>

\* Filtering by an empty input shows everybody again.
applyFilter(l, input) == [l EXCEPT !.filter = input]

Search ==
    /\ Free /\ OnLayer
    /\ \E input \in BOOLEAN : lay' = onLoaded(applyFilter(lay, input), rm, TRUE)
    /\ UNCHANGED <<rm, pop, set, net, srv, changes, nfaults, faults>>

ClearSearch ==
    /\ Free /\ OnLayer /\ lay.filter
    /\ lay' = onLoaded(applyFilter(lay, FALSE), rm, TRUE)
    /\ UNCHANGED <<rm, pop, set, net, srv, changes, nfaults, faults>>

PressLeave ==
    /\ Press /\ OnLayer /\ lay.buttons = "leave" /\ ~isLoading
    /\ lay' = reloadPlayerList(lay, FALSE)
    /\ send(Request("leave", Global, TRUE))
    /\ UNCHANGED <<rm, pop, set, srv, changes, nfaults, faults>>

---------------------------------------------------------------------------
(* The popups *)

\* The public listing asks for the rooms when it opens.
OpenListing ==
    /\ Press /\ OnLayer /\ lay.buttons = "joinCreate" /\ ~isLoading /\ net.est
    /\ pop' = [show("listing") EXCEPT !.rooms = {}]
    /\ send(Request("roomList", Global, TRUE))
    /\ UNCHANGED <<rm, lay, set, srv, changes, nfaults, faults>>

ReloadListing ==
    /\ Press /\ Top = "listing"
    /\ send(Request("roomList", Global, TRUE))
    /\ UNCHANGED <<rm, lay, pop, set, srv, changes, nfaults, faults>>

\* A listed room is joined at once and the listing closes, unless it needs a
\* password.
JoinListed ==
    /\ Press /\ Top = "listing"
    /\ \E r \in pop.rooms :
          IF r \in ProtectedRooms
          THEN pop' = [show("password") EXCEPT !.code = r] /\ UNCHANGED net
          ELSE pop' = onClose /\ send(Request("join", r, TRUE))
    /\ UNCHANGED <<rm, lay, set, srv, changes, nfaults, faults>>

OpenJoinById ==
    /\ Free /\ Top = "listing"
    /\ pop' = [show("join") EXCEPT !.code = Global]
    /\ UNCHANGED <<rm, lay, set, net, srv, changes, nfaults, faults>>

\* The popup stays open until the answer comes: its listeners close it.
JoinById ==
    /\ Press /\ Top = "join"
    /\ IF net.est
       THEN \E r \in RoomIds :
               /\ pop' = [pop EXCEPT !.code = r]
               /\ send(Request("join", r, r \notin ProtectedRooms))
       ELSE pop' = onClose /\ UNCHANGED net
    /\ UNCHANGED <<rm, lay, set, srv, changes, nfaults, faults>>

JoinWithPassword ==
    /\ Press /\ Top = "password"
    /\ \E good \in BOOLEAN : send(Request("join", pop.code, good))
    /\ pop' = onClose
    /\ UNCHANGED <<rm, lay, set, srv, changes, nfaults, faults>>

OpenCreate ==
    /\ Free /\ OnLayer /\ lay.buttons = "joinCreate" /\ ~isLoading
    /\ pop' = show("create")
    /\ UNCHANGED <<rm, lay, set, net, srv, changes, nfaults, faults>>

\* good: the name passes the server's filter. The layer loads until the answer.
PressCreate ==
    /\ Press /\ Top = "create"
    /\ \E good \in BOOLEAN : send(Request("create", Global, good))
    /\ lay' = reloadPlayerList(lay, FALSE)
    /\ pop' = onClose
    /\ UNCHANGED <<rm, set, srv, changes, nfaults, faults>>

\* InvitePopup keeps a loading flag of its own over the global player list.
OpenInvites ==
    /\ Press /\ OnLayer /\ lay.invite /\ net.est
    /\ pop' = [show("invite") EXCEPT !.loading = TRUE, !.waiting = TRUE, !.invited = FALSE]
    /\ send(Request("globalList", Global, TRUE))
    /\ UNCHANGED <<rm, lay, set, srv, changes, nfaults, faults>>

ReloadInvites ==
    /\ Press /\ Top = "invite"
    /\ IF net.est
       THEN /\ pop' = [pop EXCEPT !.loading = TRUE, !.waiting = TRUE]
            /\ net' = IF pop.waiting THEN net
                      ELSE [net EXCEPT !.up = Append(@, Request("globalList", Global, TRUE))]
       ELSE pop' = onClose /\ UNCHANGED net
    /\ UNCHANGED <<rm, lay, set, srv, changes, nfaults, faults>>

\* The invite button of a cell is disabled for three seconds.
sendInvite ==
    /\ Press /\ Top = "invite" /\ ~pop.loading /\ ~pop.invited
    /\ pop' = [pop EXCEPT !.invited = TRUE]
    /\ send(Request("invite", Global, TRUE))
    /\ UNCHANGED <<rm, lay, set, srv, changes, nfaults, faults>>

enableInvites ==
    /\ pop.invited
    /\ pop' = [pop EXCEPT !.invited = FALSE]
    /\ UNCHANGED <<rm, lay, set, net, srv, inputs, changes, nfaults, faults>>

NoSettings == [current |-> FALSE, box |-> FALSE, enabled |-> FALSE, revert |-> FALSE,
               moved |-> FALSE]

ClosePopup ==
    /\ Free /\ pop.stack # <<>>
    /\ pop' = onClose
    /\ set' = NoSettings
    /\ UNCHANGED <<rm, lay, net, srv, changes, nfaults, faults>>

\* An invite is accepted from the notification panel, whatever the menu shows.
AcceptInvite ==
    /\ Press /\ net.est /\ pop.stack = <<>>
    /\ \E r \in OpenRooms \cup ProtectedRooms : send(Request("join", r, TRUE))
    /\ UNCHANGED <<rm, lay, pop, set, srv, changes, nfaults, faults>>

---------------------------------------------------------------------------
(* RoomSettingsPopup *)

\* moved: a player list changed the RoomManager under the open popup.
\* Every box shows currentSettings; only the owner may press one.
updateCheckboxes(s, info) == [s EXCEPT !.box = s.current, !.enabled = info.mine]

OpenSettings ==
    /\ Free /\ OnLayer /\ rm.id # Global
    /\ pop' = show("settings")
    /\ set' = updateCheckboxes([NoSettings EXCEPT !.current = rm.flag], rm)
    /\ UNCHANGED <<rm, lay, net, srv, changes, nfaults, faults>>

\* The toggler turns after its callback; the owner's change is sent, anybody
\* else's boxes are set again in the next frame.
onSettingClicked ==
    /\ Press /\ Top = "settings" /\ set.enabled /\ ~set.revert
    /\ set' = [set EXCEPT !.current = ~set.box, !.box = ~@, !.revert = ~rm.mine]
    /\ net' = IF rm.mine THEN [net EXCEPT !.up = Append(@, Request("settings", Global, ~set.box))]
              ELSE net
    /\ UNCHANGED <<rm, lay, pop, srv, changes, nfaults, faults>>

RevertBoxes ==
    /\ set.revert
    /\ set' = [updateCheckboxes(set, rm) EXCEPT !.revert = FALSE]
    /\ UNCHANGED <<rm, lay, pop, net, srv, inputs, changes, nfaults, faults>>

---------------------------------------------------------------------------
(* Packets reach the listeners that are alive. The arguments of each handler *)
(* are the packet's room.                                                    *)

\* RoomManager::setInfo, by the layer's listener: nobody else listens to lists.
OnRoomPlayerList_m(info) ==
    /\ IF lay.open
       THEN /\ rm' = info
            /\ LET l == applyFilter([lay EXCEPT !.waiting = FALSE, !.shown = info.id], FALSE)
               IN lay' = onLoaded(l, info, lay.buttons = None)
            /\ set' = [set EXCEPT !.moved = @ \/ (Top = "settings" /\ rm # info)]
       ELSE UNCHANGED <<rm, lay, set>>
    /\ UNCHANGED pop
OnRoomPlayerList(info) ==
    /\ IF lay.open
       THEN /\ rm' = info
            /\ LET l == applyFilter([lay EXCEPT !.waiting = FALSE, !.shown = info.id], FALSE)
               IN lay' = onLoaded(l, info, rm.id # info.id \/ lay.buttons = None)
            /\ set' = [set EXCEPT !.moved = @ \/ (Top = "settings" /\ rm # info)]
       ELSE UNCHANGED <<rm, lay, set>>
    /\ UNCHANGED pop

\* The join popup has listeners once its button was pressed.
JoinListens == "join" \in Range(pop.stack) /\ pop.code # Global

OnRoomJoined ==
    /\ lay' = IF lay.open THEN reloadPlayerList(lay, TRUE) ELSE lay
    /\ pop' = IF JoinListens THEN onClose ELSE pop
    /\ UNCHANGED <<rm, set>>

OnRoomCreated(info) ==
    /\ IF lay.open
       THEN /\ rm' = info
            /\ lay' = onLoaded(applyFilter([lay EXCEPT !.shown = info.id], FALSE), info, TRUE)
            /\ set' = [set EXCEPT !.moved = @ \/ (Top = "settings" /\ rm # info)]
       ELSE UNCHANGED <<rm, lay, set>>
    /\ UNCHANGED pop

OnRoomCreateFailed ==
    /\ lay' = IF lay.open THEN onLoaded(lay, rm, TRUE) ELSE lay
    /\ UNCHANGED <<rm, pop, set>>

\* A global listener, the layer's and the settings popup's all store the info.
OnRoomInfo(info) ==
    /\ rm' = info
    /\ lay' = IF lay.open THEN recreateInviteButton(lay, info) ELSE lay
    /\ set' = IF "settings" \in Range(pop.stack)
              THEN updateCheckboxes([set EXCEPT !.current = info.flag], info) ELSE set
    /\ UNCHANGED pop

\* A refused password opens the password popup in place of the join popup.
OnWasProtected ==
    /\ pop' = IF JoinListens THEN [pop EXCEPT !.stack = Append(Front(@), "password")] ELSE pop
    /\ UNCHANGED <<rm, lay, set>>

OnRoomList(rooms) ==
    /\ pop' = IF "listing" \in Range(pop.stack) THEN [pop EXCEPT !.rooms = rooms] ELSE pop
    /\ UNCHANGED <<rm, lay, set>>

OnGlobalPlayerList ==
    /\ pop' = IF "invite" \in Range(pop.stack)
              THEN [pop EXCEPT !.waiting = FALSE, !.loading = FALSE, !.invited = FALSE] ELSE pop
    /\ UNCHANGED <<rm, lay, set>>

\* PacketListenerPool::update: every live listener of the packet is called.
invokeCallback(p) ==
    \/ p.k = "list" /\ OnRoomPlayerList(p.info)
    \/ p.k = "joined" /\ OnRoomJoined
    \/ p.k = "created" /\ OnRoomCreated(p.info)
    \/ p.k = "createFailed" /\ OnRoomCreateFailed
    \/ p.k = "info" /\ OnRoomInfo(p.info)
    \/ p.k = "wasProtected" /\ OnWasProtected
    \/ p.k = "joinFailed" /\ UNCHANGED <<rm, lay, pop, set>>
    \/ p.k = "roomList" /\ OnRoomList(p.info)
    \/ p.k = "globalList" /\ OnGlobalPlayerList

\* The next packet to arrive: the stream keeps its order, a datagram may be
\* overtaken by anything.
Arrives(i) == net.down[i].tcp => \A j \in 1 .. i - 1 : ~net.down[j].tcp

Receive(i) ==
    /\ LET p == net.down[i]
       IN /\ invokeCallback(p)
          /\ net' = [net EXCEPT !.down = RemoveAt(@, i),
                                !.up = IF p.k = "joined" /\ lay.open
                                       THEN @ \o Requests(lay, TRUE) ELSE @]
    /\ UNCHANGED <<srv, inputs, changes>>

\* The settings of a room the layer has not listed yet are remembered: they
\* make the list that follows look like one of the same room (room_layer.cpp:50).
InfoFirst(p) == IF p.k = "info" /\ p.info.id # rm.id THEN {"infoFirst"} ELSE {}

ReceiveNext ==
    /\ net.down # <<>>
    /\ Receive(1)
    /\ faults' = faults \cup InfoFirst(net.down[1])
    /\ UNCHANGED nfaults

Overtake ==
    /\ nfaults < MaxFaults /\ nfaults' = nfaults + 1
    /\ faults' = faults \cup {"overtaken"}
    /\ \E i \in 2 .. Len(net.down) : Arrives(i) /\ Receive(i)

---------------------------------------------------------------------------
(* The game server and the network *)

Reply(s, packets) ==
    /\ srv' = s
    /\ net' = [net EXCEPT !.up = Tail(@), !.down = @ \o packets]

handle_create_room(m) ==
    IF srv.room # Global THEN Reply(srv, <<Packet("created", FALSE, SrvInfo)>>)
    ELSE IF ~m.good \/ srv.free = {} THEN Reply(srv, <<Packet("createFailed", FALSE, SrvInfo)>>)
    ELSE \E r \in srv.free :
            LET rooms == [q \in DOMAIN srv.rooms \cup {r} |->
                             IF q = r THEN [mine |-> TRUE, flag |-> FALSE] ELSE srv.rooms[q]]
            IN Reply([room |-> r, rooms |-> rooms, free |-> srv.free \ {r}],
                     <<Packet("created", FALSE, Info(r, rooms))>>)

handle_join_room(m) ==
    IF m.r \notin DOMAIN srv.rooms THEN Reply(srv, <<Packet("joinFailed", FALSE, SrvInfo)>>)
    ELSE IF ~m.good THEN Reply(srv, <<Packet("wasProtected", FALSE, SrvInfo)>>)
    ELSE IF m.r = srv.room THEN Reply(srv, <<>>)
    ELSE \/ Reply(srv, <<Packet("joinFailed", FALSE, SrvInfo)>>)
         \/ Reply([Departed(srv) EXCEPT !.room = m.r], <<Packet("joined", FALSE, SrvInfo)>>)

handle_leave_room(m) ==
    IF srv.room = Global THEN Reply(srv, <<>>)
    ELSE Reply([Departed(srv) EXCEPT !.room = Global],
               <<Packet("list", TRUE, Info(Global, srv.rooms))>>)

handle_update_room_settings(m) ==
    IF srv.room # Global /\ SrvInfo.mine
    THEN LET rooms == [srv.rooms EXCEPT ![srv.room].flag = m.good]
         IN Reply([srv EXCEPT !.rooms = rooms], <<Packet("info", FALSE, Info(srv.room, rooms))>>)
    ELSE Reply(srv, <<>>)

Serve ==
    /\ net.est /\ net.up # <<>>
    /\ LET m == Head(net.up)
       IN \/ m.k = "create" /\ handle_create_room(m)
          \/ m.k = "join" /\ handle_join_room(m)
          \/ m.k = "leave" /\ handle_leave_room(m)
          \/ m.k = "settings" /\ handle_update_room_settings(m)
          \/ m.k = "list" /\ Reply(srv, <<Packet("list", TRUE, SrvInfo)>>)
          \/ m.k = "roomList"
             /\ Reply(srv, <<Packet("roomList", FALSE,
                                    {r \in DOMAIN srv.rooms : ~srv.rooms[r].flag})>>)
          \/ m.k = "globalList" /\ Reply(srv, <<Packet("globalList", TRUE, SrvInfo)>>)
          \/ m.k = "invite" /\ Reply(srv, <<>>)
    /\ UNCHANGED <<rm, lay, pop, set, inputs, changes, nfaults, faults>>

\* Other players: an owner changes the settings or leaves the room to this
\* player, or a room this player is not in is closed.
Broadcast(s) ==
    /\ srv' = s
    /\ net' = IF net.est /\ s.room # Global /\ Info(s.room, s.rooms) # SrvInfo
              THEN [net EXCEPT !.down = Append(@, Packet("info", FALSE, Info(s.room, s.rooms)))]
              ELSE net

OthersAct ==
    /\ changes < MaxChanges /\ changes' = changes + 1
    /\ \E r \in DOMAIN srv.rooms :
          /\ ~srv.rooms[r].mine
          /\ \/ Broadcast([srv EXCEPT !.rooms[r].flag = ~@])
             \/ r = srv.room /\ Broadcast([srv EXCEPT !.rooms[r].mine = TRUE])
             \/ /\ r # srv.room
                /\ Broadcast([srv EXCEPT !.rooms = [q \in DOMAIN @ \ {r} |-> @[q]]])
    /\ UNCHANGED <<rm, lay, pop, set, inputs, nfaults, faults>>

Fault == nfaults < MaxFaults /\ nfaults' = nfaults + 1

Lose ==
    /\ Fault
    /\ faults' = faults \cup {"lost"}
    /\ \/ \E i \in DOMAIN net.up : net' = [net EXCEPT !.up = RemoveAt(@, i)]
       \/ \E i \in DOMAIN net.down :
             ~net.down[i].tcp /\ net' = [net EXCEPT !.down = RemoveAt(@, i)]
    /\ UNCHANGED <<rm, lay, pop, set, srv, inputs, changes>>

\* The server forgets the player; what the client already received is still
\* dispatched. Giving up, as opposed to recovering, resets the RoomManager.
ConnectionLost ==
    /\ Fault /\ net.est
    /\ faults' = faults \cup {"offline"}
    /\ \E n \in {0, Len(net.down)} :
          net' = [est |-> FALSE, up |-> <<>>, down |-> SubSeq(net.down, 1, n)]
    /\ rm' \in {rm, Info(Global, srv.rooms)}
    /\ srv' = [Departed(srv) EXCEPT !.room = Global]
    /\ UNCHANGED <<lay, pop, set, inputs, changes>>

LoggedIn ==
    /\ ~net.est
    /\ net' = [net EXCEPT !.est = TRUE]
    /\ rm' = Info(Global, srv.rooms)
    /\ UNCHANGED <<lay, pop, set, srv, inputs, changes, nfaults, faults>>

---------------------------------------------------------------------------

RMInit ==
    /\ rm = [id |-> Global, mine |-> FALSE, flag |-> FALSE]
    /\ lay = ClosedLayer
    /\ pop = NoPopup
    /\ set = NoSettings
    /\ net = [est |-> TRUE, up |-> <<>>, down |-> <<>>]
    /\ srv = [room |-> Global, free |-> OwnRooms,
              rooms |-> [r \in OpenRooms \cup ProtectedRooms |-> [mine |-> FALSE, flag |-> FALSE]]]
    /\ inputs = 0 /\ changes = 0 /\ nfaults = 0
    /\ faults = {}

RMNext ==
    \/ OpenLayer \/ CloseLayer \/ LeaveServer \/ Refresh \/ Search \/ ClearSearch
    \/ PressLeave \/ OpenListing \/ ReloadListing \/ JoinListed \/ OpenJoinById \/ JoinById
    \/ JoinWithPassword \/ OpenCreate \/ PressCreate \/ OpenInvites \/ ReloadInvites
    \/ sendInvite \/ enableInvites \/ ClosePopup \/ AcceptInvite
    \/ OpenSettings \/ onSettingClicked \/ RevertBoxes
    \/ ReceiveNext \/ Overtake \/ Serve \/ OthersAct \/ Lose \/ ConnectionLost \/ LoggedIn

---------------------------------------------------------------------------
(* Properties *)

\* Type invariant.
RMTypeOK ==
    /\ rm \in Infos
    /\ lay.open \in BOOLEAN /\ lay.circle \in BOOLEAN /\ lay.waiting \in BOOLEAN
    /\ {lay.shown, lay.title} \subseteq RoomIds \cup {Global, NoRoom}
    /\ lay.buttons \in {None, "joinCreate", "leave"}
    /\ lay.filter \in BOOLEAN /\ lay.invite \in BOOLEAN
    /\ Range(pop.stack) \subseteq Popups /\ pop.rooms \subseteq RoomIds
    /\ set \in [current : BOOLEAN, box : BOOLEAN, enabled : BOOLEAN, revert : BOOLEAN,
                moved : BOOLEAN]
    /\ \A i \in DOMAIN net.up : net.up[i].k \in UpKinds
    /\ \A i \in DOMAIN net.down : net.down[i].k \in DownKinds
    /\ srv.room \in DOMAIN srv.rooms \cup {Global}
    /\ faults \subseteq {"lost", "overtaken", "offline", "infoFirst"}

\* Nothing is on its way, and since the layer was opened nothing was lost, came
\* out of order or was cut off by a reconnect, and no settings came before the
\* first list of their room.
Settled == lay.open /\ net.est /\ net.up = <<>> /\ net.down = <<>> /\ faults = {}

\* RoomLayer and RoomManager: once settled, the room the menu shows (list, title,
\* buttons, invite button, settings) is the room the server has the player in,
\* whatever the player pressed meanwhile, and whatever went wrong before the
\* layer was opened.
MenuAgrees ==
    Settled =>
        /\ rm = SrvInfo
        /\ lay.shown = srv.room /\ lay.title = srv.room
        /\ lay.buttons = (IF srv.room = Global THEN "joinCreate" ELSE "leave")
        /\ lay.invite = (srv.room # Global /\ (SrvInfo.flag \/ SrvInfo.mine))

=============================================================================
