------------------------------ MODULE WebInspector ------------------------------
(***************************************************************************)
(* The inspector (pages/inspector-page.ts, components/inspector): a page   *)
(* that queries the records of a tunnel or follows them live over a        *)
(* WebSocket that is opened again when it is lost, and the panel that      *)
(* fetches the whole of the record that is selected.  The inspector itself *)
(* is not part of the repository.                                          *)
(***************************************************************************)
EXTENDS Naturals, FiniteSets

CONSTANTS
  Filters,               \* protocol, session and time range, taken together
  Thin, Whole,           \* records the list has without and with their bodies
  MaxInspectorActs       \* bound: what the user does and the network drops

ASSUME InspectorAssumption == MaxInspectorActs \in Nat /\ Thin \intersect Whole = {}

VARIABLES
  ins,                   \* the page
  feed,                  \* its WebSocket: none, connecting, open, closing or closed, or thrown
  shed,                  \* sockets closed while connecting, whose error is to come
  timer,                 \* a reconnection is due
  queries,               \* the filters of the queries under way
  panel,                 \* the selected record
  fetches,               \* bodies being fetched for the panel
  inspectorActs

feedVars == <<feed, shed, timer>>
panelVars == <<panel, fetches>>
inspector == <<ins, feed, shed, timer, queries, panel, fetches, inspectorActs>>

NoRecord == "no record"
Closed == [rec |-> NoRecord, full |-> NoRecord, fetched |-> NoRecord, loading |-> FALSE]
InspectorAct == inspectorActs < MaxInspectorActs /\ inspectorActs' = inspectorActs + 1

---------------------------------------------------------------------------
(* The socket.                                                             *)

\* _closeWs: the old socket is not listened to any more, except for its error
Shed == IF feed = "connecting" THEN shed + 1 ELSE shed
CloseWs == feed' = "none" /\ shed' = Shed
\* The page has no address to ask, or one for a WebSocket, or one that the constructor
\* throws for (without a scheme, or ws: under https:)
Urls == {"good", "bad"}
Clients == Urls \union {"none"}
Configured == ins.client # "none"
Resumed == IF Configured THEN FALSE ELSE ins.stopped
\* connectTail; what it throws is caught, and leaves neither a socket nor a timer
OpenWs(client) ==
  \/ client = "none" /\ UNCHANGED <<feed, shed>>
  \/ client = "good" /\ feed' = "connecting" /\ shed' = Shed
  \/ client = "bad" /\ feed' = "thrown" /\ shed' = Shed

\* _fetchRecords: dropped while another query is under way
FetchRecords(p) ==
  IF p.client # "none" /\ ~p.loading THEN ins' = [p EXCEPT !.loading = TRUE] /\ queries' = queries \union {p.filter}
  ELSE ins' = p /\ UNCHANGED queries

Here == ~ins.left
Unselected == panel' = Closed /\ fetches' = {}

\* mode-toggle
ModeChange(mode) ==
  /\ Here /\ InspectorAct /\ Unselected /\ UNCHANGED timer
  /\ LET p == [ins EXCEPT !.mode = mode, !.shows = {}]
     IN  IF mode = "live"
         THEN /\ ins' = [p EXCEPT !.stopped = Resumed] /\ OpenWs(ins.client) /\ UNCHANGED queries
         ELSE CloseWs /\ FetchRecords(p)

\* protocol-tabs, and the debounced filter-bar; its time range is for queries only
FilterChange(filter) ==
  /\ Here /\ InspectorAct /\ Unselected /\ UNCHANGED timer
  /\ LET p == [ins EXCEPT !.filter = filter, !.shows = {}]
     IN  IF ins.mode = "live"
         THEN /\ ins' = [p EXCEPT !.stopped = Resumed] /\ OpenWs(ins.client) /\ UNCHANGED queries
         ELSE FetchRecords(p) /\ UNCHANGED <<feed, shed>>

QueryReturns(filter) ==
  /\ filter \in queries /\ queries' = queries \ {filter}
  /\ ins' = [ins EXCEPT !.loading = FALSE, !.shows = {filter}]
  /\ UNCHANGED feedVars /\ UNCHANGED panelVars /\ UNCHANGED inspectorActs
QueryFails(filter) ==
  /\ filter \in queries /\ queries' = queries \ {filter} /\ ins' = [ins EXCEPT !.loading = FALSE]
  /\ UNCHANGED feedVars /\ UNCHANGED panelVars /\ UNCHANGED inspectorActs
\* the record-list has been scrolled to its end
LoadMore ==
  /\ Here /\ InspectorAct /\ ins.mode = "query" /\ ins.shows # {} /\ FetchRecords(ins)
  /\ UNCHANGED feedVars /\ UNCHANGED panelVars

\* _onSettings: an address to ask is there now, or there is another one, with which
\* nothing is opened
ClientConfigured(url) ==
  /\ Here /\ ~Configured
  /\ LET p == [ins EXCEPT !.client = url]
     IN  IF ins.mode = "query" THEN FetchRecords(p) /\ UNCHANGED <<feed, shed>>
         ELSE OpenWs(url) /\ ins' = [p EXCEPT !.stopped = FALSE] /\ UNCHANGED queries
  /\ UNCHANGED timer /\ UNCHANGED panelVars /\ UNCHANGED inspectorActs
AddressChanged(url) ==
  /\ Here /\ Configured /\ url # ins.client /\ InspectorAct /\ ins' = [ins EXCEPT !.client = url]
  /\ UNCHANGED queries /\ UNCHANGED feedVars /\ UNCHANGED panelVars

Connected ==
  /\ feed = "connecting" /\ feed' = "open"
  /\ UNCHANGED <<ins, shed, timer, queries, inspectorActs>> /\ UNCHANGED panelVars
\* a record arrives; the list moves down under the one that is selected
TailRecord ==
  /\ feed = "open" /\ ins' = [ins EXCEPT !.shows = @ \union {ins.filter}]
  /\ UNCHANGED <<queries, inspectorActs>> /\ UNCHANGED feedVars /\ UNCHANGED panelVars

\* the socket has an error, or an old one has and closes the one there is now
SocketError ==
  /\ feed \in {"connecting", "open"} /\ InspectorAct /\ feed' = "closing"
  /\ UNCHANGED <<ins, shed, timer, queries>> /\ UNCHANGED panelVars
OldSocketError ==
  /\ shed > 0 /\ shed' = shed - 1
  /\ feed' = IF feed \in {"connecting", "open"} THEN "closing" ELSE feed
  /\ UNCHANGED <<ins, timer, queries, inspectorActs>> /\ UNCHANGED panelVars

(* Mutant: a socket that is closed leaves no timer *)
SocketClosedForGood ==
  /\ feed = "closing" /\ feed' = "closed" /\ timer' = FALSE
  /\ UNCHANGED <<ins, shed, queries, inspectorActs>> /\ UNCHANGED panelVars

\* onclose
SocketClosed ==
  /\ feed = "closing" /\ feed' = "closed" /\ timer' = (timer \/ ~ins.stopped)
  /\ UNCHANGED <<ins, shed, queries, inspectorActs>> /\ UNCHANGED panelVars
\* the timer is not cleared by a change of the mode: a query can turn into a feed
Reconnect ==
  /\ timer /\ timer' = FALSE /\ OpenWs(ins.client) /\ ins' = [ins EXCEPT !.stopped = Resumed]
  /\ UNCHANGED <<queries, inspectorActs>> /\ UNCHANGED panelVars

\* live-indicator
LiveStop ==
  /\ Here /\ ins.mode = "live" /\ ~ins.stopped /\ InspectorAct
  /\ CloseWs /\ timer' = FALSE /\ ins' = [ins EXCEPT !.stopped = TRUE] /\ UNCHANGED queries /\ UNCHANGED panelVars
LiveReconnect ==
  /\ Here /\ ins.mode = "live" /\ ins.stopped /\ InspectorAct
  /\ OpenWs(ins.client) /\ ins' = [ins EXCEPT !.stopped = FALSE] /\ UNCHANGED <<timer, queries>> /\ UNCHANGED panelVars
LiveClear ==
  /\ Here /\ ins.mode = "live" /\ ins.shows # {} /\ ins' = [ins EXCEPT !.shows = {}] /\ Unselected
  /\ UNCHANGED <<queries, inspectorActs>> /\ UNCHANGED feedVars

\* disconnectedCallback
LeaveInspector ==
  /\ Here /\ CloseWs /\ timer' = FALSE /\ ins' = [ins EXCEPT !.left = TRUE] /\ Unselected
  /\ UNCHANGED <<queries, inspectorActs>>

---------------------------------------------------------------------------
(* The panel: record-detail.ts.                                            *)

\* _maybeFetchDetail, when the panel is given a record
MaybeFetch(p, r) ==
  IF r \in Thin /\ r # p.fetched
  THEN panel' = [p EXCEPT !.fetched = r, !.loading = TRUE] /\ fetches' = fetches \union {r}
  ELSE panel' = p /\ UNCHANGED fetches
\* willUpdate: what was fetched for another record is dropped
ShowRecord(r) ==
  /\ Here /\ ins.shows # {} /\ r # panel.rec /\ InspectorAct
  /\ MaybeFetch(IF r # panel.fetched THEN [panel EXCEPT !.rec = r, !.full = NoRecord, !.fetched = NoRecord]
                ELSE [panel EXCEPT !.rec = r], r)
  /\ UNCHANGED <<ins, queries>> /\ UNCHANGED feedVars
CloseRecord ==
  /\ panel.rec # NoRecord /\ Unselected /\ UNCHANGED <<ins, queries, inspectorActs>> /\ UNCHANGED feedVars

(* Mutant: the answer for any record is taken *)
AwaitedAny(r) == TRUE

\* the answer for a record the panel is not waiting for is ignored
Awaited(r) == r = panel.fetched
DetailReturns(r) ==
  /\ r \in fetches /\ fetches' = fetches \ {r}
  /\ panel' = IF Awaited(r) THEN [panel EXCEPT !.full = r, !.loading = FALSE] ELSE panel
  /\ UNCHANGED <<ins, queries, inspectorActs>> /\ UNCHANGED feedVars
DetailFails(r) ==
  /\ r \in fetches /\ fetches' = fetches \ {r}
  /\ panel' = IF Awaited(r) THEN [panel EXCEPT !.loading = FALSE] ELSE panel
  /\ UNCHANGED <<ins, queries, inspectorActs>> /\ UNCHANGED feedVars

---------------------------------------------------------------------------
InspectorPage(filter, client) ==
  [mode |-> "query", filter |-> filter, client |-> client, loading |-> client # "none", shows |-> {},
   stopped |-> FALSE, left |-> FALSE]
InspectorInit ==
  /\ \E client \in Clients, filter \in Filters :
       /\ ins = InspectorPage(filter, client)
       /\ queries = IF client = "none" THEN {} ELSE {filter}
  /\ feed = "none" /\ shed = 0 /\ timer = FALSE /\ panel = Closed /\ fetches = {} /\ inspectorActs = 0

InspectorNext ==
  \/ LoadMore \/ Connected \/ TailRecord \/ SocketError \/ OldSocketError \/ SocketClosed
  \/ Reconnect \/ LiveStop \/ LiveReconnect \/ LiveClear \/ LeaveInspector \/ CloseRecord
  \/ \E url \in Urls : ClientConfigured(url) \/ AddressChanged(url)
  \/ \E mode \in {"query", "live"} : ModeChange(mode)
  \/ \E filter \in Filters : FilterChange(filter) \/ QueryReturns(filter) \/ QueryFails(filter)
  \/ \E r \in Thin \union Whole : ShowRecord(r)
  \/ \E r \in Thin : DetailReturns(r) \/ DetailFails(r)
InspectorSpec == InspectorInit /\ [][InspectorNext]_inspector

(* A page that is live and was not stopped has a feed, or a timer that will *)
(* open one, whatever sockets fail in which order, unless the last opening  *)
(* threw; a page that was left has neither (inspector-page.ts _openWs,      *)
(* _closeWs, _scheduleReconnect).                                           *)
Following == feed \in {"connecting", "open", "closing"} \/ timer
Live == Here /\ Configured /\ ins.mode = "live" /\ ~ins.stopped
LiveHasFeed == (Live => Following \/ feed = "thrown") /\ (ins.left => ~Following)

(* What a live page that reconnects by itself should promise: it is never   *)
(* live without a feed or a timer.  It is false of an address for which the *)
(* opening throws, since the catch arms no timer (inspector-page.ts         *)
(* _openWs), and stays so when the address is mended.                       *)
LiveAlwaysFollows == Live => Following

(* The panel never shows the body of another record than the one selected,  *)
(* in whatever order the answers come (record-detail.ts: the guard against  *)
(* switching records mid-fetch).                                            *)
DetailFits == panel.full \in {NoRecord, panel.rec}

(* Neither the feed nor the panel of the inspector is left with the outcome *)
(* of something that was given up (inspector-page.ts, record-detail.ts).    *)
InspectorSound == LiveHasFeed /\ DetailFits
=============================================================================
