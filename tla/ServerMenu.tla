----------------------------- MODULE ServerMenu -----------------------------
(***************************************************************************)
(* Choosing a server: CentralServerManager, GlobedAccountManager and       *)
(* GameServerManager with the values they save, GlobedServersLayer with    *)
(* the list of game servers, the server switcher with its popups, signing  *)
(* up at a central server, and connecting, as far as NetworkManager changes*)
(* those managers. Web requests are answered whenever they are, and some   *)
(* are not cancelled when the player switches to another central server.   *)
(*                                                                         *)
(* A definition that ends in _m is a faulty variant of the one it is named *)
(* after; no specification uses it.                                        *)
(***************************************************************************)
EXTENDS Integers, Sequences, SequencesExt, FiniteSets

CONSTANTS
    MainUrl,      \* the central server that is always first
    OtherUrls,    \* central servers the player may add
    Hosted,       \* the game servers of a central server, by url
    MaxPresses    \* bound: presses of the player, restarts and lost connections

Urls == {MainUrl} \cup OtherUrls

Nothing == "nothing"
StandaloneUrl == "standalone url"
STANDALONE_ID == "standalone"
STANDALONE_IDX == -2
ServerIds == UNION {Hosted[u] : u \in Urls} \cup {STANDALONE_ID}

ASSUME ServersAssumption ==
    /\ MainUrl \notin OtherUrls /\ IsFiniteSet(OtherUrls) /\ DOMAIN Hosted = Urls
    /\ \A u, v \in Urls : u # v => Hosted[u] \cap Hosted[v] = {}

VARIABLES
    csm,        \* CentralServerManager: [servers, active, switched]
    saved,      \* saved values: [servers, active, addr, last, cache]
    am,         \* GlobedAccountManager: [central, token, keys]
    tok,        \* its request for a token: where from, and where to connect then
    gsm,        \* GameServerManager: [listed, active, changes]
    con,        \* the connection: [st, to]
    layer,      \* GlobedServersLayer: [open, cells, signup, req, leaving]
    dialog,     \* the topmost popup: [kind, index, url]
    booted, presses,
    lateToken   \* a token came after another central server was chosen

serverVars == <<csm, saved, am, tok, gsm, con, layer, dialog, booted, presses, lateToken>>

Pressed == presses < MaxPresses /\ presses' = presses + 1

---------------------------------------------------------------------------
(* The managers *)

getActive(c) ==
    IF c.active = STANDALONE_IDX THEN StandaloneUrl
    ELSE IF c.active \in 0 .. Len(c.servers) - 1 THEN c.servers[c.active + 1] ELSE Nothing

standalone == csm.active = STANDALONE_IDX

\* Keys and passwords are saved per account and central server.
autoInitialize(a, c) == [a EXCEPT !.central = getActive(c)]
hasAuthKey == am.central \in am.keys
storeAuthKey(a) == [a EXCEPT !.keys = @ \cup {a.central}]
clearAuthKey(a) == [a EXCEPT !.keys = @ \ {a.central}]

\* The servers of a response are added to those listed; none is removed.
loadFromCache(listed, servers) == listed \cup servers

clearActive == /\ gsm' = [gsm EXCEPT !.active = Nothing]
               /\ saved' = [saved EXCEPT !.last = Nothing]

disconnect == con' = [st |-> "off", to |-> Nothing] /\ clearActive

\* NetworkManager::connect: an established connection is given up first, and
\* without a token nothing is connected to.
connect(id, token) ==
    IF con.st = "connecting" THEN UNCHANGED <<con, gsm, saved>>
    ELSE /\ IF con.st = "on" THEN clearActive ELSE UNCHANGED <<gsm, saved>>
         /\ con' = IF token = Nothing THEN [st |-> "off", to |-> Nothing]
                   ELSE [st |-> "connecting", to |-> id]

connectStandalone ==
    IF STANDALONE_ID \in gsm.listed THEN connect(STANDALONE_ID, "none needed")
    ELSE UNCHANGED <<con, gsm, saved>>

\* To another central server: the token, the game servers and the connection go.
\* Neither the request for a token nor the one for the list is cancelled here.
switchRoutine_m(c, index) ==
    /\ csm' = [c EXCEPT !.active = index, !.switched = TRUE]
    /\ am' = autoInitialize(am, csm')
    /\ gsm' = [listed |-> {}, active |-> Nothing, changes |-> TRUE]
    /\ con' = [st |-> "off", to |-> Nothing]
    /\ saved' = [saved EXCEPT !.active = index, !.servers = c.servers, !.last = Nothing]
    /\ UNCHANGED lateToken
switchRoutine(c, index) ==
    /\ csm' = [c EXCEPT !.active = index, !.switched = TRUE]
    /\ am' = autoInitialize([am EXCEPT !.token = Nothing], csm')
    /\ gsm' = [listed |-> {}, active |-> Nothing, changes |-> TRUE]
    /\ con' = [st |-> "off", to |-> Nothing]
    /\ saved' = [saved EXCEPT !.active = index, !.servers = c.servers, !.last = Nothing]
    /\ lateToken' = FALSE

save(c) ==
    /\ csm' = c
    /\ saved' = [saved EXCEPT !.servers = c.servers, !.active = c.active]
    /\ UNCHANGED <<am, gsm, con, lateToken>>

\* The list moves up; the active index moves with its server, and when that one
\* is removed the next takes its place.
removeServer(index) ==
    LET c == [csm EXCEPT !.servers = RemoveAt(@, index + 1)]
    IN IF index = csm.active
       THEN switchRoutine(c, IF index = Len(csm.servers) - 1 THEN index - 1 ELSE index)
       ELSE save([c EXCEPT !.active = IF @ >= index THEN @ - 1 ELSE @])

addServer(url) == save([csm EXCEPT !.servers = Append(@, url)])

\* AddServerPopup::onTestSuccess: changing the url of the active server is a switch.
onTestSuccess(index, url) ==
    IF index = -1 THEN addServer(url)
    ELSE LET c == [csm EXCEPT !.servers[index + 1] = url]
         IN IF index = csm.active /\ csm.servers[index + 1] # url
            THEN switchRoutine(c, index) ELSE save(c)

---------------------------------------------------------------------------
(* GlobedServersLayer *)

NoLayer == [open |-> FALSE, cells |-> {}, signup |-> FALSE, req |-> Nothing, leaving |-> FALSE]
NoDialog == [kind |-> "none", index |-> -1, url |-> Nothing]
OnServers == layer.open /\ dialog.kind = "none"

\* GlobedServerList::forceRefresh: one cell for every server.
forceRefresh(l) == [l EXCEPT !.cells = gsm.listed]

\* requestServerList; an earlier request is cancelled.
ListRequest(c) ==
    IF c.active = STANDALONE_IDX \/ getActive(c) = Nothing THEN Nothing ELSE getActive(c)

\* HookedMenuLayer::onGlobedButton leads here while not connected.
OpenServers ==
    /\ Pressed /\ booted /\ ~layer.open /\ con.st # "on"
    /\ layer' = [NoLayer EXCEPT !.open = TRUE, !.req = ListRequest(csm)]
    /\ am' = autoInitialize(am, csm)
    /\ UNCHANGED <<csm, saved, tok, gsm, con, dialog, booted, lateToken>>

\* onExit cancels the request for the list.
CloseServers ==
    /\ OnServers
    /\ layer' = NoLayer
    /\ UNCHANGED <<csm, saved, am, tok, gsm, con, dialog, booted, presses, lateToken>>

\* Ten times a second. Without a key the switch of the central server has to
\* wait; changes rebuild the list and end the connection if the active server
\* is not (or not yet) among those listed.
updateServerList ==
    /\ layer.open
    /\ UNCHANGED <<am, tok, dialog, booted, presses, lateToken>>
    /\ \/ /\ con.st = "on" /\ ~layer.leaving
          /\ layer' = [layer EXCEPT !.leaving = TRUE]
          /\ UNCHANGED <<csm, saved, gsm, con>>
       \/ /\ con.st # "on" \/ layer.leaving
          /\ ~standalone /\ ~hasAuthKey
          /\ layer' = [layer EXCEPT !.signup = TRUE]
          /\ UNCHANGED <<csm, saved, gsm, con>>
       \/ /\ con.st # "on" \/ layer.leaving
          /\ standalone \/ hasAuthKey
          /\ csm' = [csm EXCEPT !.switched = FALSE]
          /\ LET l == [layer EXCEPT !.signup = FALSE,
                                    !.req = IF csm.switched THEN ListRequest(csm) ELSE @]
             IN layer' = IF gsm.changes THEN forceRefresh(l) ELSE l
          /\ IF gsm.changes /\ gsm.active \notin gsm.listed
             THEN /\ con' = [st |-> "off", to |-> Nothing]
                  /\ gsm' = [gsm EXCEPT !.active = Nothing, !.changes = FALSE]
                  /\ saved' = [saved EXCEPT !.last = Nothing]
             ELSE gsm' = [gsm EXCEPT !.changes = FALSE] /\ UNCHANGED <<saved, con>>

\* A fifth of a second after the connection was seen.
transitionToMainLayer ==
    /\ layer.leaving /\ dialog.kind = "none"
    /\ layer' = NoLayer
    /\ UNCHANGED <<csm, saved, am, tok, gsm, con, dialog, booted, presses, lateToken>>

\* requestCallback: the servers are added to those listed; only an error
\* removes any. Marked if the player switched since.
ListAnswer ==
    /\ layer.req # Nothing
    /\ layer' = [layer EXCEPT !.req = Nothing]
    /\ \/ /\ gsm' = [gsm EXCEPT !.listed = {}, !.changes = TRUE]
          /\ saved' = [saved EXCEPT !.cache = {}]
       \/ /\ \E s \in SUBSET Hosted[layer.req] :
                /\ gsm' = [gsm EXCEPT !.listed = loadFromCache(@, s), !.changes = TRUE]
                /\ saved' = [saved EXCEPT !.cache = s]
    /\ UNCHANGED <<csm, am, tok, con, dialog, booted, presses, lateToken>>

\* ServerListCell: the button leaves or joins; a token is asked for first if
\* there is none, and that cancels an earlier request for one.
PressJoin ==
    /\ Pressed /\ OnServers /\ ~layer.signup
    /\ \E id \in layer.cells :
          \/ /\ con.st = "on" /\ gsm.active = id
             /\ disconnect
             /\ UNCHANGED tok
          \/ /\ ~(con.st = "on" /\ gsm.active = id)
             /\ IF standalone THEN connectStandalone /\ UNCHANGED tok
                ELSE IF am.token # Nothing THEN connect(id, am.token) /\ UNCHANGED tok
                ELSE tok' = [from |-> getActive(csm), to |-> id] /\ UNCHANGED <<con, gsm, saved>>
    /\ UNCHANGED <<csm, am, layer, dialog, booted, lateToken>>

---------------------------------------------------------------------------
(* Tokens and connections *)

NoRequest == [from |-> Nothing, to |-> Nothing]

\* requestCallback: any error at all clears the key of the account manager's
\* central server, which need not be the one that was asked.
TokenAnswer ==
    /\ tok # NoRequest
    /\ tok' = NoRequest
    /\ \/ /\ am' = [am EXCEPT !.token = tok.from]
          /\ connect(tok.to, tok.from)
       \/ /\ am' = clearAuthKey(am)
          /\ UNCHANGED <<con, gsm, saved>>
    /\ lateToken' = (lateToken \/ tok.from # getActive(csm))
    /\ UNCHANGED <<csm, layer, dialog, booted, presses>>

\* onLoggedIn makes the server active if it is (still) known; a failure
\* disconnects.
LoginAnswer ==
    /\ con.st = "connecting"
    /\ \/ /\ con' = [con EXCEPT !.st = "on"]
          /\ IF con.to \in gsm.listed
             THEN /\ gsm' = [gsm EXCEPT !.active = con.to]
                  /\ saved' = [saved EXCEPT !.last = con.to]
             ELSE UNCHANGED <<gsm, saved>>
       \/ disconnect
    /\ UNCHANGED <<csm, am, tok, layer, dialog, booted, presses, lateToken>>

\* failedRecovery leaves the active server as it is.
failedRecovery ==
    /\ Pressed /\ con.st = "on"
    /\ con' = [st |-> "off", to |-> Nothing]
    /\ UNCHANGED <<csm, saved, am, tok, gsm, layer, dialog, booted, lateToken>>

---------------------------------------------------------------------------
(* The switcher, direct connections and signing up *)

OpenSwitcher ==
    /\ OnServers
    /\ dialog' = [NoDialog EXCEPT !.kind = "switcher"]
    /\ UNCHANGED <<csm, saved, am, tok, gsm, con, layer, booted, presses, lateToken>>

\* Closing a test does not close the popup below it.
CloseDialog ==
    /\ dialog.kind \in {"switcher", "add", "test", "direct"}
    /\ dialog' = IF dialog.kind = "switcher" THEN NoDialog
                 ELSE IF dialog.kind = "test" THEN [dialog EXCEPT !.kind = "add"]
                 ELSE [NoDialog EXCEPT !.kind = "switcher"]
    /\ UNCHANGED <<csm, saved, am, tok, gsm, con, layer, booted, presses, lateToken>>

PressSwitch ==
    /\ Pressed /\ dialog.kind = "switcher"
    /\ \E index \in 0 .. Len(csm.servers) - 1 : index # csm.active /\ switchRoutine(csm, index)
    /\ dialog' = NoDialog
    /\ UNCHANGED <<tok, layer, booted>>

PressDelete ==
    /\ Pressed /\ dialog.kind = "switcher"
    /\ \E index \in 1 .. Len(csm.servers) - 1 : removeServer(index)
    /\ UNCHANGED <<tok, layer, dialog, booted>>

OpenAdd ==
    /\ dialog.kind = "switcher"
    /\ \E index \in {-1} \cup 1 .. Len(csm.servers) - 1 :
          dialog' = [kind |-> "add", index |-> index, url |-> Nothing]
    /\ UNCHANGED <<csm, saved, am, tok, gsm, con, layer, booted, presses, lateToken>>

\* A url that is new is tested first.
PressSave ==
    /\ Pressed /\ dialog.kind = "add"
    /\ \E url \in OtherUrls :
          IF dialog.index = -1 \/ csm.servers[dialog.index + 1] # url
          THEN /\ dialog' = [dialog EXCEPT !.kind = "test", !.url = url]
               /\ UNCHANGED <<csm, saved, am, gsm, con, lateToken>>
          ELSE /\ onTestSuccess(dialog.index, url)
               /\ dialog' = [NoDialog EXCEPT !.kind = "switcher"]
    /\ UNCHANGED <<tok, layer, booted>>

TestAnswer ==
    /\ dialog.kind = "test"
    /\ \/ onTestSuccess(dialog.index, dialog.url)
       \/ UNCHANGED <<csm, saved, am, gsm, con, lateToken>>
    /\ dialog' = [NoDialog EXCEPT !.kind = "switcher"]
    /\ UNCHANGED <<tok, layer, booted, presses>>

OpenDirect ==
    /\ dialog.kind = "switcher"
    /\ dialog' = [NoDialog EXCEPT !.kind = "direct"]
    /\ UNCHANGED <<csm, saved, am, tok, gsm, con, layer, booted, presses, lateToken>>

\* The address is valid. The account manager and its token stay those of the
\* central server before.
PressConnect ==
    /\ Pressed /\ dialog.kind = "direct"
    /\ csm' = [csm EXCEPT !.active = STANDALONE_IDX, !.switched = TRUE]
    /\ gsm' = [listed |-> {STANDALONE_ID}, changes |-> TRUE,
               active |-> IF con.st = "on" THEN Nothing ELSE gsm.active]
    /\ saved' = [saved EXCEPT !.active = STANDALONE_IDX, !.addr = TRUE, !.cache = {},
                              !.last = IF con.st = "on" THEN Nothing ELSE @]
    /\ con' = IF con.st = "connecting" THEN con ELSE [st |-> "connecting", to |-> STANDALONE_ID]
    /\ dialog' = NoDialog
    /\ UNCHANGED <<am, tok, layer, booted, lateToken>>

\* GlobedSignupPopup cannot be closed by the player.
PressSignup ==
    /\ Pressed /\ OnServers /\ layer.signup /\ getActive(csm) # Nothing
    /\ dialog' = [NoDialog EXCEPT !.kind = "challenge"]
    /\ UNCHANGED <<csm, saved, am, tok, gsm, con, layer, booted, lateToken>>

\* The answer to the challenge is sent as a message on GD's servers, unless
\* the central server does not verify accounts.
createCallback ==
    /\ dialog.kind = "challenge"
    /\ dialog' \in {NoDialog} \cup {[NoDialog EXCEPT !.kind = k] : k \in {"upload", "verify"}}
    /\ UNCHANGED <<csm, saved, am, tok, gsm, con, layer, booted, presses, lateToken>>

uploadMessageFinished ==
    /\ dialog.kind = "upload"
    /\ dialog' \in {NoDialog, [NoDialog EXCEPT !.kind = "verify"]}
    /\ UNCHANGED <<csm, saved, am, tok, gsm, con, layer, booted, presses, lateToken>>

\* The key is stored for the central server the account manager is set to.
finishCallback ==
    /\ dialog.kind = "verify"
    /\ dialog' = NoDialog
    /\ am' \in {am, storeAuthKey(am)}
    /\ UNCHANGED <<csm, saved, tok, gsm, con, layer, booted, presses, lateToken>>

---------------------------------------------------------------------------
(* Starting the game again *)

\* The constructors read what was saved. An index that is not valid leads back
\* to the main server.
Restart ==
    /\ Pressed /\ dialog.kind = "none"
    /\ csm' = [servers |-> saved.servers, switched |-> FALSE,
               active |-> IF saved.active \in 1 .. Len(saved.servers) - 1
                             \/ (saved.active = STANDALONE_IDX /\ saved.addr)
                          THEN saved.active ELSE 0]
    /\ gsm' = [listed |-> IF csm'.active = STANDALONE_IDX THEN {STANDALONE_ID} ELSE {},
               active |-> Nothing, changes |-> csm'.active = STANDALONE_IDX]
    /\ am' = [am EXCEPT !.central = Nothing, !.token = Nothing]
    /\ tok' = NoRequest /\ con' = [st |-> "off", to |-> Nothing]
    /\ layer' = NoLayer /\ booted' = FALSE /\ lateToken' = FALSE
    /\ UNCHANGED <<saved, dialog>>

\* The first HookedMenuLayer::init connects to the last server again, if it is
\* set up to and knows that server.
autoconnect ==
    /\ ~booted /\ booted' = TRUE
    /\ \/ UNCHANGED <<saved, am, tok, gsm, con>>
       \/ /\ saved.last # Nothing
          /\ am' = autoInitialize(am, csm)
          /\ IF standalone THEN connectStandalone /\ UNCHANGED tok
             ELSE /\ gsm' = [gsm EXCEPT !.listed = loadFromCache(@, saved.cache)]
                  /\ tok' = IF saved.last \in saved.cache /\ am'.central \in am.keys
                            THEN [from |-> am'.central, to |-> saved.last] ELSE tok
                  /\ UNCHANGED <<saved, con>>
    /\ UNCHANGED <<csm, layer, dialog, presses, lateToken>>

---------------------------------------------------------------------------

\* The game starts for the first time, or with servers and keys from before.
SMInit ==
    /\ saved \in [servers : {<<MainUrl>>, <<MainUrl>> \o SetToSeq(OtherUrls)}, active : {0},
                  addr : {FALSE}, last : {Nothing}, cache : {{}}]
    /\ csm = [servers |-> saved.servers, active |-> 0, switched |-> FALSE]
    /\ am \in [central : {Nothing}, token : {Nothing}, keys : {{}, Range(csm.servers)}]
    /\ tok = NoRequest
    /\ gsm = [listed |-> {}, active |-> Nothing, changes |-> FALSE]
    /\ con = [st |-> "off", to |-> Nothing]
    /\ layer = NoLayer /\ dialog = NoDialog
    /\ booted = FALSE /\ presses = 0 /\ lateToken = FALSE

SMNext ==
    \/ OpenServers \/ CloseServers \/ updateServerList \/ transitionToMainLayer \/ ListAnswer
    \/ PressJoin \/ TokenAnswer \/ LoginAnswer \/ failedRecovery
    \/ OpenSwitcher \/ CloseDialog \/ PressSwitch \/ PressDelete \/ OpenAdd \/ PressSave
    \/ TestAnswer \/ OpenDirect \/ PressConnect
    \/ PressSignup \/ createCallback \/ uploadMessageFinished \/ finishCallback
    \/ Restart \/ autoconnect

---------------------------------------------------------------------------
(* Properties *)

\* Type invariant.
SMTypeOK ==
    /\ Range(csm.servers) \subseteq Urls /\ csm.servers # <<>>
    /\ csm.active \in {STANDALONE_IDX} \cup 0 .. Len(csm.servers) - 1
    /\ am.keys \subseteq Urls /\ am.token \in Urls \cup {Nothing}
    /\ gsm.listed \subseteq ServerIds /\ gsm.active \in ServerIds \cup {Nothing}
    /\ con.st \in {"off", "connecting", "on"} /\ layer.cells \subseteq ServerIds
    /\ lateToken \in BOOLEAN

\* A token in hand is one of the active central server, unless one came late; a
\* standalone server needs none.
TokenOfActive == am.token \in {Nothing, getActive(csm)} \/ standalone \/ lateToken

=============================================================================
