----------------------------- MODULE LevelMenu -----------------------------
(***************************************************************************)
(* The level list (ui/menu/level_list) and the download popup of a         *)
(* player's cell (ui/menu/room): both ask GameLevelManager of the game for *)
(* levels and are told the answer through its one delegate pointer, whoever*)
(* holds it when the answer comes.                                         *)
(*                                                                         *)
(* A definition that ends in _m is a faulty variant of the one it is named *)
(* after; no specification uses it.                                        *)
(***************************************************************************)
EXTENDS Integers, Sequences, SequencesExt, FiniteSets

CONSTANTS
    Levels,        \* levels somebody plays
    Deleted,       \* those of them that GD's servers no longer have
    PageSize,      \* LIST_PAGE_SIZE
    MaxAsks        \* bound: requests for lists and levels

ASSUME LevelMenuAssumption == PageSize \in Nat \ {0} /\ Deleted \subseteq Levels

VARIABLES
    ll,        \* GlobedLevelListLayer
    dl,        \* DownloadLevelPopup
    glm,       \* GameLevelManager: who is told of levels, who of a download (n counts requests)
    pending,   \* what GD's servers were asked and have not answered
    lists,     \* RequestLevelList datagrams and LevelList packets on their way
    lmOnline, asks,
    crossed    \* an answer met another asker

lmVars == <<ll, dl, glm, pending, lists, lmOnline, asks, crossed>>

Nobody == "nobody"
NoLevel == "no level"

ClosedList == [open |-> FALSE, loading |-> FALSE, sorted |-> <<>>, pages |-> <<>>,
               page |-> 0, shown |-> {}, prev |-> FALSE, next |-> FALSE]
ClosedPopup == [stage |-> "closed", level |-> NoLevel]

\* A request to GD's servers; n: its number.
Query(kind, ids) == [kind |-> kind, ids |-> ids, n |-> glm.n + 1]

Ask == asks < MaxAsks /\ asks' = asks + 1

---------------------------------------------------------------------------
(* GlobedLevelListLayer *)

\* The comma separated ids of one page.
PageOf(sorted, page) ==
    SubSeq(sorted, page * PageSize + 1, IF (page + 1) * PageSize < Len(sorted)
                                        THEN (page + 1) * PageSize ELSE Len(sorted))

loadListCommon(l) == [l EXCEPT !.loading = FALSE]

\* The levels are cached as the next page, and shown with the buttons
\* that lead to the other pages.
HasNext(l) == l.page < Len(l.sorted) \div PageSize

loadLevelsFinished(l, levels) ==
    [loadListCommon(l) EXCEPT
        !.pages = IF Len(@) <= l.page THEN Append(@, levels) ELSE @,
        !.shown = levels,
        !.prev = l.prev \/ l.page > 0,
        !.next = l.next \/ HasNext(l)]

\* An empty list and a cached page are shown at once; any other page is asked
\* from GD's servers, and this layer becomes the delegate.
reloadPage(l) ==
    LET w == [l EXCEPT !.loading = TRUE, !.shown = {}, !.prev = FALSE, !.next = FALSE]
    IN IF l.sorted = <<>>
       THEN /\ ll' = loadLevelsFinished(w, {})
            /\ glm' = [glm EXCEPT !.levels = Nobody]
            /\ UNCHANGED pending
       ELSE IF l.page < Len(l.pages)
       THEN /\ ll' = loadLevelsFinished(w, l.pages[l.page + 1])
            /\ glm' = [glm EXCEPT !.levels = Nobody]
            /\ UNCHANGED pending
       ELSE /\ ll' = w
            /\ glm' = [glm EXCEPT !.levels = "list", !.n = @ + 1]
            /\ pending' = Append(pending, Query("levels", Range(PageOf(l.sorted, l.page))))

\* A refresh while loading does nothing; loading is set before the connection
\* is looked at, so a refresh while offline is never over.
refreshLevels(l) ==
    IF l.loading THEN ll' = l /\ UNCHANGED lists
    ELSE IF ~lmOnline
    THEN /\ ll' = [l EXCEPT !.loading = TRUE, !.prev = FALSE, !.next = FALSE]
         /\ UNCHANGED lists
    ELSE /\ ll' = [l EXCEPT !.loading = TRUE, !.shown = {}, !.prev = FALSE, !.next = FALSE]
         /\ lists' = Append(lists, "request")

OpenList ==
    /\ Ask /\ ~ll.open /\ dl.stage = "closed"
    /\ refreshLevels([ClosedList EXCEPT !.open = TRUE])
    /\ UNCHANGED <<dl, glm, pending, lmOnline, crossed>>

\* The destructor takes the delegate away from whoever has it.
CloseList ==
    /\ ll.open
    /\ ll' = ClosedList
    /\ glm' = [glm EXCEPT !.levels = Nobody]
    /\ UNCHANGED <<dl, pending, lists, lmOnline, asks, crossed>>

RefreshList ==
    /\ Ask /\ ll.open
    /\ refreshLevels(ll)
    /\ UNCHANGED <<dl, glm, pending, lmOnline, crossed>>

TurnPage ==
    /\ Ask /\ ll.open
    /\ \/ ll.prev /\ reloadPage([ll EXCEPT !.page = @ - 1])
       \/ ll.next /\ reloadPage([ll EXCEPT !.page = @ + 1])
    /\ UNCHANGED <<dl, lists, lmOnline, crossed>>

\* The server answers with the levels that are played at the moment.
LevelListSent ==
    /\ lists # <<>> /\ Head(lists) = "request"
    /\ lists' = Append(Tail(lists), "list")
    /\ UNCHANGED <<ll, dl, glm, pending, lmOnline, asks, crossed>>

\* The listener replaces the list, sorted by player count, and starts over with
\* the first page.
OnLevelList ==
    /\ lists # <<>> /\ Head(lists) = "list"
    /\ lists' = Tail(lists)
    /\ IF ll.open
       THEN \E played \in SUBSET Levels : \E s \in SetToSeqs(played) :
               reloadPage([ll EXCEPT !.sorted = s, !.pages = <<>>, !.page = 0])
       ELSE UNCHANGED <<ll, glm, pending>>
    /\ UNCHANGED <<dl, lmOnline, asks, crossed>>

---------------------------------------------------------------------------
(* DownloadLevelPopup *)

\* Opened from the cell of a player who is in a level.
OpenDownload_m ==
    /\ Ask /\ ~ll.open /\ dl.stage = "closed"
    /\ \E x \in Levels :
          /\ dl' = [stage |-> "searching", level |-> x]
          /\ pending' = Append(pending, Query("levels", Levels))
    /\ glm' = [glm EXCEPT !.levels = "popup", !.n = @ + 1]
    /\ UNCHANGED <<ll, lists, lmOnline, crossed>>
OpenDownload ==
    /\ Ask /\ ~ll.open /\ dl.stage = "closed"
    /\ \E x \in Levels :
          /\ dl' = [stage |-> "searching", level |-> x]
          /\ pending' = Append(pending, Query("levels", {x}))
    /\ glm' = [glm EXCEPT !.levels = "popup", !.n = @ + 1]
    /\ UNCHANGED <<ll, lists, lmOnline, crossed>>

\* Both delegates are given up, the opened level is shown if there is one.
PopupCloses(opened) ==
    /\ dl' = [stage |-> "closed", level |-> opened]
    /\ glm' = [glm EXCEPT !.levels = Nobody, !.download = Nobody]

CloseDownload ==
    /\ dl.stage # "closed"
    /\ PopupCloses(NoLevel)
    /\ UNCHANGED <<ll, pending, lists, lmOnline, asks, crossed>>

\* The first of the levels found is downloaded.
PopupFinds(levels) ==
    IF levels = {} THEN PopupCloses(NoLevel) /\ pending' = Tail(pending)
    ELSE \E x \in levels :
            /\ dl' = [dl EXCEPT !.stage = "downloading"]
            /\ glm' = [levels |-> Nobody, download |-> "popup", n |-> glm.n + 1]
            /\ pending' = Append(Tail(pending), Query("download", {x}))

---------------------------------------------------------------------------
(* GameLevelManager and GD's servers *)

\* The answer goes to the delegate of the moment, if there is one. Answers are
\* taken in the order of the requests; a failed one finds nothing.
Answer ==
    /\ pending # <<>>
    /\ LET p == Head(pending)
           who == IF p.kind = "levels" THEN glm.levels ELSE glm.download
       IN \E ok \in BOOLEAN :
          /\ crossed' = (crossed \/ (who # Nobody /\ p.n # glm.n))
          /\ \/ /\ who = Nobody
                /\ pending' = Tail(pending)
                /\ UNCHANGED <<ll, dl, glm>>
             \/ /\ who = "list"
                /\ pending' = Tail(pending)
                /\ IF ok THEN ll' = loadLevelsFinished(ll, p.ids \ Deleted)
                         ELSE ll' = loadListCommon(ll)
                /\ glm' = [glm EXCEPT !.levels = Nobody]
                /\ UNCHANGED dl
             \/ /\ who = "popup" /\ p.kind = "levels"
                /\ UNCHANGED ll
                /\ PopupFinds(IF ok THEN p.ids \ Deleted ELSE {})
             \/ /\ who = "popup" /\ p.kind = "download"
                /\ pending' = Tail(pending)
                /\ PopupCloses(IF ok THEN CHOOSE x \in p.ids : TRUE ELSE NoLevel)
                /\ UNCHANGED ll
    /\ UNCHANGED <<lists, lmOnline, asks>>

\* RequestLevelList is a datagram; the connection may go and come back.
LoseList ==
    /\ lists # <<>> /\ lists' = Tail(lists)
    /\ UNCHANGED <<ll, dl, glm, pending, lmOnline, asks, crossed>>

ToggleOnline ==
    /\ lmOnline' = ~lmOnline
    /\ UNCHANGED <<ll, dl, glm, pending, lists, asks, crossed>>

---------------------------------------------------------------------------

LMInit ==
    /\ ll = ClosedList /\ dl = ClosedPopup
    /\ glm = [levels |-> Nobody, download |-> Nobody, n |-> 0]
    /\ pending = <<>> /\ lists = <<>>
    /\ lmOnline = TRUE /\ asks = 0 /\ crossed = FALSE

LMNext ==
    \/ OpenList \/ CloseList \/ RefreshList \/ TurnPage \/ LevelListSent \/ OnLevelList
    \/ OpenDownload \/ CloseDownload \/ Answer \/ LoseList \/ ToggleOnline

---------------------------------------------------------------------------
(* Properties *)

\* Type invariant; the page buttons of the list never lead past the page after
\* the last full one.
LMTypeOK ==
    /\ ll.open \in BOOLEAN /\ ll.loading \in BOOLEAN
    /\ ll.page \in 0 .. Len(ll.sorted) \div PageSize
    /\ ll.prev \in BOOLEAN /\ ll.next \in BOOLEAN
    /\ Range(ll.sorted) \subseteq Levels /\ ll.shown \subseteq Levels
    /\ dl.stage \in {"closed", "searching", "downloading"}
    /\ dl.level \in Levels \cup {NoLevel}
    /\ glm.levels \in {Nobody, "list", "popup"} /\ glm.download \in {Nobody, "popup"}
    /\ crossed \in BOOLEAN

\* The download popup: the level it opens is the one the player plays, unless
\* the answer to an older request was taken for its own.
RightLevelOpened ==
    [][dl'.stage = "closed" /\ dl'.level # NoLevel /\ dl.stage # "closed"
          => dl'.level = dl.level \/ crossed']_lmVars

=============================================================================
