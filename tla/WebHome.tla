--------------------------------- MODULE WebHome ---------------------------------
(***************************************************************************)
(* The home page of the web interface (pages/home-page.ts,                 *)
(* components/tunnel-card.ts, nav-tabs.ts): two lists behind two tabs, a   *)
(* card for each item with a panel that folds out, the dialogs, and the    *)
(* way to a new item and back.  The router discards the page when another  *)
(* is shown; the tab outlives it.  What a start, a stop or a save does is  *)
(* in WebPages and WebDetail.                                              *)
(***************************************************************************)
EXTENDS Integers, WebLists

CONSTANT MaxHomeActs     \* bound: what the user does, and how many items there are

ASSUME HomeAssumption == MaxHomeActs \in Nat

VARIABLES
  rows,                  \* the items of both stores; a number tells when one was made
  fetching,              \* the stores that are loading
  activeTab,             \* the tab, as the module keeps it
  home,                  \* the page
  removals,              \* deletes under way
  homeActs

homeVars == <<rows, fetching, activeTab, home, removals, homeActs>>

Tabs == {0, 1}           \* tunnels, entrypoints
NoRow == 0
HomeRow(n, kind, running) ==
  [n |-> n, kind |-> kind, running |-> running, url |-> running, inspect |-> kind = 0 /\ n = 1]
HomeAct == homeActs < MaxHomeActs /\ homeActs' = homeActs + 1

---------------------------------------------------------------------------
(* What the page shows.                                                    *)

\* the rows of the tab, the newest first; the filter for favorites is never on
Numbers(tab) == {r.n : r \in {s \in rows : s.kind = tab}}
Items(p) ==
  LET ns == Numbers(p.tab)
  IN  [k \in 1..Cardinality(ns) |-> CHOOSE r \in rows : r.n = Kth(ns, Cardinality(ns) + 1 - k)]
IsLoading(p) == p.tab \in fetching
\* tunnel-card: the traffic of a running item
Card(r) == [n |-> r.n, status |-> IF r.running THEN "running" ELSE "stopped", traffic |-> r.running]
HomeBody(p) ==
  IF IsLoading(p) THEN [at |-> "spinner", cards |-> <<>>]
  ELSE IF Items(p) = <<>> THEN [at |-> "empty", cards |-> <<>>]
  ELSE [at |-> "list", cards |-> [i \in DOMAIN Items(p) |-> Card(Items(p)[i])]]
Seen(p) == {HomeBody(p).cards[i].n : i \in DOMAIN HomeBody(p).cards}
\* the panel under the card that is folded out
PanelOffers(r) ==
  {"edit", "delete", IF r.running THEN "stop" ELSE "start"}
  \union (IF r.url THEN {"qr"} ELSE {}) \union (IF r.inspect THEN {"inspector"} ELSE {})
\* a dialog covers the page
Reachable == home.at = "home" /\ home.target = NoRow /\ home.qr = NoRow
PanelOpen(r, what) ==
  Reachable /\ r.n \in Seen(home) /\ home.expanded = r.n /\ what \in PanelOffers(r)

---------------------------------------------------------------------------
(* Tabs, swipes and panels.                                                *)

\* connectedCallback
HomePage(tab) ==
  [at |-> "home", tab |-> tab, expanded |-> NoRow, swipe |-> FALSE, target |-> NoRow, qr |-> NoRow, making |-> -1]

(* Mutant: the page keeps the tab, and loses it when it is discarded *)
SetTabHere(index) ==
  IF index = home.tab \/ index \notin Tabs THEN home' = [home EXCEPT !.swipe = FALSE] /\ UNCHANGED activeTab
  ELSE home' = [home EXCEPT !.tab = index, !.expanded = NoRow, !.swipe = FALSE] /\ UNCHANGED activeTab

\* _setTab: out of range is nothing
SetTab(index) ==
  IF index = home.tab \/ index \notin Tabs THEN home' = [home EXCEPT !.swipe = FALSE] /\ UNCHANGED activeTab
  ELSE home' = [home EXCEPT !.tab = index, !.expanded = NoRow, !.swipe = FALSE] /\ activeTab' = index
PressTab(index) ==
  Reachable /\ HomeAct /\ index # home.tab /\ SetTab(index) /\ UNCHANGED <<rows, fetching, removals>>

\* a second finger ends the gesture
TouchStart(touches) ==
  /\ Reachable /\ HomeAct /\ home' = [home EXCEPT !.swipe = touches = 1]
  /\ UNCHANGED <<rows, fetching, activeTab, removals>>
\* deliberate and mostly horizontal
Abs(x) == IF x < 0 THEN -x ELSE x
Deliberate(dx, dy) == Abs(dx) >= 60 /\ 2 * Abs(dx) >= 3 * Abs(dy)
TouchEnd(dx, dy) ==
  /\ home.at = "home" /\ home.swipe
  /\ IF Deliberate(dx, dy) THEN SetTab(IF dx < 0 THEN home.tab + 1 ELSE home.tab - 1)
     ELSE home' = [home EXCEPT !.swipe = FALSE] /\ UNCHANGED activeTab
  /\ UNCHANGED <<rows, fetching, removals, homeActs>>

ToggleExpand(n) ==
  /\ Reachable /\ HomeAct /\ n \in Seen(home)
  /\ home' = [home EXCEPT !.expanded = IF @ = n THEN NoRow ELSE n]
  /\ UNCHANGED <<rows, fetching, activeTab, removals>>

---------------------------------------------------------------------------
(* Dialogs.                                                                *)

Dialog(p) == home' = p /\ UNCHANGED <<rows, fetching, activeTab, removals, homeActs>>
OpenQrDialog(r) == PanelOpen(r, "qr") /\ Dialog([home EXCEPT !.qr = r.n])
CloseQrDialog == home.at = "home" /\ home.qr # NoRow /\ Dialog([home EXCEPT !.qr = NoRow])
AskRemoval(r) == PanelOpen(r, "delete") /\ Dialog([home EXCEPT !.target = r.n])
DropRemoval == home.at = "home" /\ home.target # NoRow /\ Dialog([home EXCEPT !.target = NoRow])
\* _handleDelete; the page that is gone by the answer is not the one that comes next
ConfirmRemoval ==
  /\ home.at = "home" /\ home.target # NoRow /\ HomeAct
  /\ removals' = removals \union {[n |-> home.target, mine |-> TRUE]} /\ home' = [home EXCEPT !.target = NoRow]
  /\ UNCHANGED <<rows, fetching, activeTab>>
RemovalEnds(c) ==
  /\ removals' = removals \ {c}
  /\ \/ /\ rows' = {r \in rows : r.n # c.n}
        /\ home' = IF c.mine THEN [home EXCEPT !.expanded = NoRow] ELSE home
     \/ UNCHANGED <<rows, home>>
  /\ UNCHANGED <<fetching, activeTab, homeActs>>

---------------------------------------------------------------------------
(* Leaving, and coming back.                                               *)

Away(making) ==
  /\ HomeAct /\ home' = [HomePage(activeTab) EXCEPT !.at = "away", !.making = making]
  /\ removals' = {[c EXCEPT !.mine = FALSE] : c \in removals} /\ UNCHANGED <<rows, fetching, activeTab>>
OpenCard(n) == Reachable /\ n \in Seen(home) /\ Away(-1)
OpenFromPanel(r) == (\E what \in {"edit", "inspector"} : PanelOpen(r, what)) /\ Away(-1)
OpenSettings == Reachable /\ Away(-1)
\* the button of the tab, and the one of an empty list
OpenNew == Reachable /\ Away(home.tab)
Back == home.at = "away" /\ home' = HomePage(activeTab) /\ UNCHANGED <<rows, fetching, activeTab, removals, homeActs>>
Made ==
  /\ home.at = "away" /\ home.making \in Tabs /\ HomeAct
  /\ rows' = rows \union {HomeRow(homeActs + 3, home.making, TRUE)}
  /\ home' = HomePage(activeTab) /\ UNCHANGED <<fetching, activeTab, removals>>

\* the stores fetch their lists
Fetching(kind) ==
  /\ HomeAct /\ kind \notin fetching /\ fetching' = fetching \union {kind}
  /\ UNCHANGED <<rows, activeTab, home, removals>>
Fetched(kind) ==
  /\ kind \in fetching /\ fetching' = fetching \ {kind} /\ UNCHANGED <<rows, activeTab, home, removals, homeActs>>

HomeInit ==
  /\ rows = {HomeRow(1, 0, TRUE), HomeRow(2, 1, FALSE)} /\ fetching = Tabs /\ activeTab = 0
  /\ home = HomePage(0) /\ removals = {} /\ homeActs = 0
HomeNext ==
  \/ CloseQrDialog \/ DropRemoval \/ ConfirmRemoval \/ OpenSettings \/ OpenNew \/ Back \/ Made
  \/ \E r \in rows : ToggleExpand(r.n) \/ OpenQrDialog(r) \/ AskRemoval(r) \/ OpenCard(r.n) \/ OpenFromPanel(r)
  \/ \E kind \in Tabs : PressTab(kind) \/ Fetching(kind) \/ Fetched(kind)
  \/ \E touches \in 1..2 : TouchStart(touches)
  \/ \E dx \in {-90, -59, 60}, dy \in {0, 41} : TouchEnd(dx, dy)
  \/ \E c \in removals : RemovalEnds(c)

(* Who makes an item from a list comes back to that list, with the new item *)
(* on top of it unless it is being fetched just then (home-page.ts          *)
(* activeTab: the selected list outlives the page; create in both stores).  *)
ComesBack ==
  [][Made => /\ home'.tab = home.making
             /\ ~IsLoading(home)' => HomeBody(home)'.cards[1].n = homeActs + 3]_homeVars
=============================================================================
