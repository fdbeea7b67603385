-------------------------------- MODULE WebProofs --------------------------------
(***************************************************************************)
(* Theorems of the web interface (WebApp), for every number of records,    *)
(* LANs, spokes and forms, and however long the user and the network act.  *)
(*                                                                         *)
(* The interface shows one page, and each invariant is about one page, so  *)
(* every theorem has the same three parts: the page starts with the        *)
(* invariant, whether it is shown or idle; each of its actions keeps it;   *)
(* and the actions of the other pages leave its variables alone.           *)
(***************************************************************************)
EXTENDS WebApp, TLAPS, SequenceTheorems, FiniteSetTheorems

---------------------------------------------------------------------------
(* The inspector (inspector-page.ts, record-detail.ts).                    *)

\* a page that is idle carries the filter "query"
AnyFilter == Filters \union {"query"}
InspectorState ==
  [mode : {"query", "live"}, filter : AnyFilter, client : Clients, loading : BOOLEAN, shows : SUBSET AnyFilter,
   stopped : BOOLEAN, left : BOOLEAN]
PanelRecords == Thin \union Whole \union {NoRecord}
PanelState == [rec : PanelRecords, full : PanelRecords, fetched : PanelRecords, loading : BOOLEAN]

FeedStates == {"none", "connecting", "open", "closing", "closed", "thrown"}
InspectorTypeOK ==
  /\ ins \in InspectorState /\ queries \in SUBSET AnyFilter
  /\ feed \in FeedStates /\ shed \in Nat /\ timer \in BOOLEAN
  /\ panel \in PanelState /\ fetches \in SUBSET Thin /\ inspectorActs \in Nat

\* The body in the panel is that of the record fetched last, and that one is the record
\* shown: an answer is compared with what was fetched, not with what is shown.
PanelFollows == panel.full \in {NoRecord, panel.fetched} /\ panel.fetched \in {NoRecord, panel.rec}

InspectorInv == InspectorTypeOK /\ LiveHasFeed /\ PanelFollows

LEMMA InspectorStarts == WebInit => InspectorInv
<1> SUFFICES ASSUME WebInit PROVE InspectorInv
  OBVIOUS
<1> USE InspectorAssumption
<1>1. PICK filter \in AnyFilter, client \in Clients :
        ins = InspectorPage(filter, client) /\ queries \subseteq {filter}
  <2>1. CASE InspectorInit
    BY <2>1 DEF InspectorInit, AnyFilter
  <2>2. CASE InspectorIdle
    BY <2>2 DEF InspectorIdle, AnyFilter, Clients
  <2> QED
    BY <2>1, <2>2 DEF WebInit, OthersIdle
<1>2. feed = "none" /\ shed = 0 /\ timer = FALSE /\ panel = Closed /\ fetches = {} /\ inspectorActs = 0
  BY DEF WebInit, OthersIdle, InspectorInit, InspectorIdle
<1>3. InspectorTypeOK
  BY <1>1, <1>2 DEF InspectorTypeOK, FeedStates, InspectorPage, InspectorState, PanelState, PanelRecords, Closed
<1>4. LiveHasFeed
  BY <1>1, <1>2 DEF LiveHasFeed, Live, Following, Here, InspectorPage
<1>5. PanelFollows
  BY <1>2 DEF PanelFollows, Closed
<1> QED
  BY <1>3, <1>4, <1>5 DEF InspectorInv

\* A closed panel follows.
LEMMA ClosedFollows ==
  Closed \in PanelState /\ Closed.full = NoRecord /\ Closed.fetched = NoRecord
BY DEF Closed, PanelState, PanelRecords

\* A query that is made keeps the page but for its spinner.
LEMMA FetchRecordsKeeps ==
  ASSUME InspectorTypeOK, NEW p \in InspectorState, FetchRecords(p)
  PROVE  /\ ins' \in InspectorState /\ queries' \in SUBSET AnyFilter
         /\ ins'.mode = p.mode /\ ins'.client = p.client /\ ins'.stopped = p.stopped /\ ins'.left = p.left
BY DEF FetchRecords, InspectorTypeOK, InspectorState

\* A socket that is opened is connecting, or its opening has thrown.
LEMMA OpenWsFollows ==
  ASSUME InspectorTypeOK, NEW client \in Clients, OpenWs(client)
  PROVE  /\ feed' \in FeedStates /\ shed' \in Nat
         /\ client # "none" => feed' \in {"connecting", "thrown"}
BY DEF OpenWs, Shed, InspectorTypeOK, FeedStates, Clients, Urls

LEMMA CloseWsEnds ==
  ASSUME InspectorTypeOK, CloseWs
  PROVE  feed' = "none" /\ feed' \in FeedStates /\ shed' \in Nat
BY DEF CloseWs, Shed, InspectorTypeOK, FeedStates


\* The types, the feed and the panel, each taken through one action of the page.
FeedTypeOK ==
  feed \in FeedStates /\ shed \in Nat /\ timer \in BOOLEAN

LEMMA PageActionsKeep ==
  ASSUME InspectorInv,
         \/ LoadMore \/ LiveClear \/ \E url \in Urls : ClientConfigured(url) \/ AddressChanged(url)
         \/ \E mode \in {"query", "live"} : ModeChange(mode)
         \/ \E filter \in Filters : FilterChange(filter) \/ QueryReturns(filter) \/ QueryFails(filter)
  PROVE  InspectorInv'
<1> USE InspectorAssumption
<1>1. InspectorTypeOK /\ LiveHasFeed /\ PanelFollows
  BY DEF InspectorInv
<1>2. Closed \in PanelState /\ Closed.full = NoRecord /\ Closed.fetched = NoRecord
  BY ClosedFollows
<1> DEFINE PanelIs == (panel' = panel /\ fetches' = fetches) \/ Unselected
           PanelKept == PanelIs /\ timer' = timer /\ inspectorActs' \in Nat
<1>3. PanelKept
  <2>1. ASSUME NEW url \in Urls, ClientConfigured(url) \/ AddressChanged(url) PROVE PanelKept
    <3>1. CASE ClientConfigured(url)
      BY <3>1, <1>1 DEF ClientConfigured, panelVars, InspectorTypeOK
    <3>2. CASE AddressChanged(url)
      <4>1. UNCHANGED panelVars /\ UNCHANGED feedVars /\ InspectorAct
        BY <3>2, Zenon DEF AddressChanged
      <4> QED
        BY <4>1, <1>1 DEF panelVars, feedVars, InspectorTypeOK, InspectorAct
    <3> QED
      BY <2>1, <3>1, <3>2
  <2>2. CASE LoadMore
    BY <2>2, <1>1 DEF LoadMore, panelVars, feedVars, InspectorTypeOK, InspectorAct
  <2>3. CASE LiveClear
    BY <2>3, <1>1 DEF LiveClear, panelVars, feedVars, InspectorTypeOK
  <2>4. ASSUME NEW mode \in {"query", "live"}, ModeChange(mode) PROVE PanelKept
    BY <2>4, <1>1 DEF ModeChange, InspectorTypeOK, InspectorAct
  <2>5. ASSUME NEW filter \in Filters, FilterChange(filter) PROVE PanelKept
    <3>1. Unselected /\ timer' = timer /\ InspectorAct
      BY <2>5, Zenon DEF FilterChange
    <3> QED
      BY <3>1, <1>1 DEF InspectorTypeOK, InspectorAct
  <2>6. ASSUME NEW filter \in Filters, QueryReturns(filter) \/ QueryFails(filter) PROVE PanelKept
    BY <2>6, <1>1 DEF QueryReturns, QueryFails, panelVars, feedVars, InspectorTypeOK
  <2> QED
    BY <2>1, <2>2, <2>3, <2>4, <2>5, <2>6
<1>4. /\ panel' \in PanelState /\ fetches' \in SUBSET Thin
      /\ PanelFollows'
  BY <1>1, <1>2, <1>3 DEF Unselected, InspectorTypeOK, PanelFollows
<1>5. /\ ins' \in InspectorState /\ queries' \in SUBSET AnyFilter /\ FeedTypeOK'
      /\ LiveHasFeed'
  <2> DEFINE Goal == ins' \in InspectorState /\ queries' \in SUBSET AnyFilter /\ FeedTypeOK' /\ LiveHasFeed'
  <2>0. ins \in InspectorState /\ queries \in SUBSET AnyFilter /\ FeedTypeOK
    BY <1>1 DEF InspectorTypeOK, FeedTypeOK
  <2>1. ASSUME NEW url \in Urls, ClientConfigured(url) PROVE Goal
    <3> DEFINE p == [ins EXCEPT !.client = url]
               q == [p EXCEPT !.stopped = FALSE]
    <3>1. url \in Clients /\ url # "none"
      BY DEF Clients, Urls
    <3>2. p \in InspectorState /\ p.mode = ins.mode /\ p.left = ins.left
      BY <3>1, <2>0 DEF InspectorState
    <3>3. q \in InspectorState /\ q.left = ins.left
      BY <3>1, <2>0 DEF InspectorState
    <3>4. Here /\ timer' = timer
      BY <2>1 DEF ClientConfigured
    <3>5. CASE ins.mode = "query"
      <4>1. FetchRecords(p) /\ feed' = feed /\ shed' = shed
        BY <2>1, <3>5 DEF ClientConfigured
      <4> HIDE DEF p
      <4>2. ins' \in InspectorState /\ queries' \in SUBSET AnyFilter /\ ins'.mode = "query" /\ ins'.left = ins.left
        BY <4>1, <3>2, <3>5, <1>1, FetchRecordsKeeps
      <4> QED
        BY <4>1, <4>2, <3>4, <2>0, <1>1 DEF LiveHasFeed, Live, Following, Here, FeedTypeOK
    <3>6. CASE ins.mode # "query"
      <4>1. OpenWs(url) /\ ins' = q /\ queries' = queries
        BY <2>1, <3>6 DEF ClientConfigured
      <4> HIDE DEF q
      <4>2. shed' \in Nat /\ feed' \in FeedStates /\ feed' \in {"connecting", "thrown"}
        BY <4>1, <3>1, <1>1, OpenWsFollows
      <4> QED
        BY <4>1, <4>2, <3>3, <3>4, <2>0 DEF LiveHasFeed, Following, Here, FeedTypeOK
    <3> QED
      BY <3>5, <3>6
  <2>7. ASSUME NEW url \in Urls, AddressChanged(url) PROVE Goal
    <3> DEFINE p == [ins EXCEPT !.client = url]
    <3>1. p \in InspectorState /\ p.mode = ins.mode /\ p.left = ins.left /\ p.stopped = ins.stopped
      BY <2>0 DEF InspectorState, Clients
    <3>2. ins' = p /\ queries' = queries /\ feed' = feed /\ shed' = shed /\ timer' = timer /\ Configured
      BY <2>7 DEF AddressChanged, feedVars
    <3> HIDE DEF p
    <3> QED
      BY <3>1, <3>2, <2>0, <1>1 DEF LiveHasFeed, Live, Following, Here, FeedTypeOK
  <2>2. CASE LoadMore
    <3>1. FetchRecords(ins) /\ feed' = feed /\ shed' = shed /\ ins.mode = "query"
      BY <2>2 DEF LoadMore, feedVars
    <3>2. ins.client \in Clients
      BY <2>0 DEF InspectorState
    <3>3. ins' \in InspectorState /\ queries' \in SUBSET AnyFilter /\ ins'.mode = "query" /\ ins'.left = ins.left
      BY <3>1, <3>2, <2>0, <1>1, FetchRecordsKeeps
    <3> QED
      BY <3>1, <3>3, <2>0, <1>1, <1>3 DEF LiveHasFeed, Live, Configured, Following, Here, FeedTypeOK, FeedStates
  <2>3. CASE LiveClear
    BY <2>3, <2>0, <1>1, <1>3 DEF LiveClear, feedVars, LiveHasFeed, Live, Configured, Following, Here, FeedTypeOK, FeedStates, InspectorState
  <2>4. ASSUME NEW mode \in {"query", "live"}, ModeChange(mode) PROVE Goal
    <3> DEFINE p == [ins EXCEPT !.mode = mode, !.shows = {}]
               q == [p EXCEPT !.stopped = Resumed]
    <3>1. p \in InspectorState /\ p.mode = mode /\ p.left = ins.left
      BY <2>0 DEF InspectorState
    <3>2. q \in InspectorState /\ q.left = ins.left /\ q.client = ins.client
      BY <2>0 DEF InspectorState, Resumed
    <3>3. ins.client \in Clients /\ ~ins.left
      BY <2>0, <2>4 DEF InspectorState, ModeChange, Here
    <3>4. CASE mode = "live"
      <4>1. OpenWs(ins.client) /\ ins' = q /\ queries' = queries
        BY <2>4, <3>4 DEF ModeChange
      <4> HIDE DEF q, p
      <4>2. shed' \in Nat /\ feed' \in FeedStates /\ (Configured => feed' \in {"connecting", "thrown"})
        BY <4>1, <3>3, <1>1, OpenWsFollows DEF Configured
      <4> QED
        BY <4>1, <4>2, <3>2, <3>3, <2>0, <1>1, <1>3 DEF LiveHasFeed, Live, Configured, Following, Here, FeedTypeOK, FeedStates
    <3>5. CASE mode # "live"
      <4>1. CloseWs /\ FetchRecords(p) /\ mode = "query"
        BY <2>4, <3>5 DEF ModeChange
      <4> HIDE DEF q, p
      <4>2. feed' = "none" /\ shed' \in Nat
        BY <4>1, <1>1, CloseWsEnds
      <4>3. ins' \in InspectorState /\ queries' \in SUBSET AnyFilter /\ ins'.mode = "query" /\ ins'.left = ins.left
        BY <4>1, <3>1, <3>3, <1>1, FetchRecordsKeeps
      <4> QED
        BY <4>2, <4>3, <3>3, <2>0, <1>3 DEF LiveHasFeed, Live, Configured, Following, Here, FeedTypeOK, FeedStates
    <3> QED
      BY <3>4, <3>5
  <2>5. ASSUME NEW filter \in Filters, FilterChange(filter) PROVE Goal
    <3> DEFINE p == [ins EXCEPT !.filter = filter, !.shows = {}]
               q == [p EXCEPT !.stopped = Resumed]
    <3>1. p \in InspectorState /\ p.mode = ins.mode /\ p.left = ins.left
      BY <2>0 DEF InspectorState, AnyFilter
    <3>2. q \in InspectorState /\ q.left = ins.left /\ q.client = ins.client
      BY <2>0 DEF InspectorState, AnyFilter, Resumed
    <3>3. ins.client \in Clients /\ ~ins.left
      BY <2>0, <2>5 DEF InspectorState, FilterChange, Here
    <3>4. CASE ins.mode = "live"
      <4>1. OpenWs(ins.client) /\ ins' = q /\ queries' = queries
        BY <2>5, <3>4 DEF FilterChange
      <4> HIDE DEF q, p
      <4>2. shed' \in Nat /\ feed' \in FeedStates /\ (Configured => feed' \in {"connecting", "thrown"})
        BY <4>1, <3>3, <1>1, OpenWsFollows DEF Configured
      <4> QED
        BY <4>1, <4>2, <3>2, <3>3, <2>0, <1>1, <1>3 DEF LiveHasFeed, Live, Configured, Following, Here, FeedTypeOK, FeedStates
    <3>5. CASE ins.mode # "live"
      <4>1. feed' = feed /\ shed' = shed /\ FetchRecords(p)
        BY <2>5, <3>5 DEF FilterChange
      <4> HIDE DEF q, p
      <4>2. ins' \in InspectorState /\ queries' \in SUBSET AnyFilter /\ ins'.mode = ins.mode /\ ins'.left = ins.left
        BY <4>1, <3>1, <3>3, <1>1, FetchRecordsKeeps
      <4> QED
        BY <4>1, <4>2, <3>3, <3>5, <2>0, <1>3 DEF LiveHasFeed, Live, Configured, Following, Here, FeedTypeOK, FeedStates
    <3> QED
      BY <3>4, <3>5
  <2>6. ASSUME NEW filter \in Filters, QueryReturns(filter) \/ QueryFails(filter) PROVE Goal
    <3>1. feed' = feed /\ shed' = shed /\ queries' \in SUBSET AnyFilter
      BY <2>6, <2>0 DEF QueryReturns, QueryFails, feedVars
    <3>2. /\ ins' \in InspectorState /\ ins'.mode = ins.mode /\ ins'.left = ins.left
          /\ ins'.stopped = ins.stopped /\ ins'.client = ins.client
      <4>1. filter \in AnyFilter
        BY DEF AnyFilter
      <4>2. CASE ins' = [ins EXCEPT !.loading = FALSE, !.shows = {filter}]
        BY <4>1, <4>2, <2>0 DEF InspectorState
      <4>3. CASE ins' = [ins EXCEPT !.loading = FALSE]
        BY <4>3, <2>0 DEF InspectorState
      <4> QED
        BY <2>6, <4>2, <4>3 DEF QueryReturns, QueryFails
    <3> QED
      BY <3>1, <3>2, <2>0, <1>1, <1>3 DEF LiveHasFeed, Live, Configured, Following, Here, FeedTypeOK, FeedStates
  <2> QED
    BY <2>1, <2>2, <2>3, <2>4, <2>5, <2>6, <2>7
<1>6. InspectorTypeOK'
  BY <1>3, <1>4, <1>5 DEF InspectorTypeOK, FeedTypeOK
<1> QED
  BY <1>4, <1>5, <1>6 DEF InspectorInv


LEMMA FeedActionsKeep ==
  ASSUME InspectorInv,
         \/ Connected \/ TailRecord \/ SocketError \/ OldSocketError \/ SocketClosed
         \/ Reconnect \/ LiveStop \/ LiveReconnect \/ LeaveInspector
  PROVE  InspectorInv'
<1> USE InspectorAssumption
<1>0. /\ ins \in InspectorState /\ queries \in SUBSET AnyFilter /\ FeedTypeOK /\ LiveHasFeed
      /\ panel \in PanelState /\ fetches \in SUBSET Thin /\ PanelFollows /\ inspectorActs \in Nat
      /\ InspectorTypeOK
  BY DEF InspectorInv, InspectorTypeOK, FeedTypeOK
<1>1. /\ (panel' = panel /\ fetches' = fetches) \/ Unselected
      /\ inspectorActs' \in Nat /\ queries' = queries
  <2>1. CASE Connected \/ TailRecord \/ OldSocketError \/ SocketClosed
    BY <2>1, <1>0 DEF Connected, TailRecord, OldSocketError, SocketClosed, panelVars, feedVars
  <2>2. CASE SocketError
    BY <2>2, <1>0 DEF SocketError, panelVars, InspectorAct
  <2>3. CASE Reconnect
    BY <2>3, <1>0 DEF Reconnect, panelVars
  <2>4. CASE LiveStop \/ LiveReconnect
    BY <2>4, <1>0 DEF LiveStop, LiveReconnect, panelVars, InspectorAct
  <2>5. CASE LeaveInspector
    BY <2>5, <1>0 DEF LeaveInspector
  <2> QED
    BY <2>1, <2>2, <2>3, <2>4, <2>5
<1>2. panel' \in PanelState /\ fetches' \in SUBSET Thin /\ PanelFollows'
  BY <1>0, <1>1, ClosedFollows DEF Unselected, PanelFollows
<1>3. ins' \in InspectorState /\ FeedTypeOK' /\ LiveHasFeed'
  <2>1. CASE Connected
    BY <2>1, <1>0 DEF Connected, LiveHasFeed, Live, Configured, Following, Here, FeedTypeOK, FeedStates
  <2>2. CASE TailRecord
    <3>1. ins.filter \in AnyFilter /\ ins.shows \subseteq AnyFilter
      BY <1>0 DEF InspectorState
    <3>2. ins.shows \union {ins.filter} \subseteq AnyFilter
      BY <3>1
    <3> DEFINE shows == ins.shows \union {ins.filter}
    <3>3. ins' = [ins EXCEPT !.shows = shows] /\ shows \in SUBSET AnyFilter
      BY <2>2, <3>2 DEF TailRecord
    <3> HIDE DEF shows
    <3> QED
      BY <2>2, <3>3, <1>0 DEF TailRecord, feedVars, LiveHasFeed, Live, Configured, Following, Here, FeedTypeOK, FeedStates, InspectorState
  <2>3. CASE SocketError
    BY <2>3, <1>0 DEF SocketError, LiveHasFeed, Live, Configured, Following, Here, FeedTypeOK, FeedStates
  <2>4. CASE OldSocketError
    BY <2>4, <1>0 DEF OldSocketError, LiveHasFeed, Live, Configured, Following, Here, FeedTypeOK, FeedStates
  <2>5. CASE SocketClosed
    <3>1. ins.stopped \in BOOLEAN
      BY <1>0 DEF InspectorState
    <3> QED
      BY <2>5, <3>1, <1>0 DEF SocketClosed, LiveHasFeed, Live, Configured, Following, Here, FeedTypeOK, FeedStates
  <2>6. CASE Reconnect
    <3> DEFINE q == [ins EXCEPT !.stopped = Resumed]
    <3>1. q \in InspectorState /\ q.left = ins.left /\ q.client = ins.client /\ ins.client \in Clients
      BY <1>0 DEF InspectorState, Resumed
    <3>2. OpenWs(ins.client) /\ ins' = q /\ timer /\ timer' = FALSE
      BY <2>6 DEF Reconnect
    <3> HIDE DEF q
    <3>3. shed' \in Nat /\ feed' \in FeedStates /\ (Configured => feed' \in {"connecting", "thrown"})
      BY <3>1, <3>2, <1>0, OpenWsFollows DEF Configured
    <3>4. ~ins.left
      BY <3>2, <1>0 DEF LiveHasFeed, Following
    <3> QED
      BY <3>1, <3>2, <3>3, <3>4, <1>0 DEF LiveHasFeed, Live, Configured, Following, Here, FeedTypeOK, FeedStates
  <2>7. CASE LiveStop
    <3> DEFINE q == [ins EXCEPT !.stopped = TRUE]
    <3>1. q \in InspectorState /\ q.left = ins.left /\ q.stopped
      BY <1>0 DEF InspectorState
    <3>2. CloseWs /\ ins' = q /\ timer' = FALSE
      BY <2>7 DEF LiveStop
    <3> HIDE DEF q
    <3>3. feed' = "none" /\ shed' \in Nat
      BY <3>2, <1>0, CloseWsEnds
    <3> QED
      BY <3>1, <3>2, <3>3 DEF LiveHasFeed, Live, Configured, Following, Here, FeedTypeOK, FeedStates
  <2>8. CASE LiveReconnect
    <3> DEFINE q == [ins EXCEPT !.stopped = FALSE]
    <3>1. q \in InspectorState /\ q.left = ins.left /\ q.client = ins.client /\ ins.client \in Clients /\ ~ins.left
      BY <1>0, <2>8 DEF InspectorState, LiveReconnect, Here
    <3>2. OpenWs(ins.client) /\ ins' = q /\ timer' = timer
      BY <2>8 DEF LiveReconnect
    <3> HIDE DEF q
    <3>3. shed' \in Nat /\ feed' \in FeedStates /\ (Configured => feed' \in {"connecting", "thrown"})
      BY <3>1, <3>2, <1>0, OpenWsFollows DEF Configured
    <3> QED
      BY <3>1, <3>2, <3>3, <1>0 DEF LiveHasFeed, Live, Configured, Following, Here, FeedTypeOK, FeedStates
  <2>9. CASE LeaveInspector
    <3> DEFINE q == [ins EXCEPT !.left = TRUE]
    <3>1. q \in InspectorState /\ q.left
      BY <1>0 DEF InspectorState
    <3>2. CloseWs /\ ins' = q /\ timer' = FALSE
      BY <2>9 DEF LeaveInspector
    <3> HIDE DEF q
    <3>3. feed' = "none" /\ shed' \in Nat
      BY <3>2, <1>0, CloseWsEnds
    <3> QED
      BY <3>1, <3>2, <3>3 DEF LiveHasFeed, Live, Configured, Following, Here, FeedTypeOK, FeedStates
  <2> QED
    BY <2>1, <2>2, <2>3, <2>4, <2>5, <2>6, <2>7, <2>8, <2>9
<1> QED
  BY <1>0, <1>1, <1>2, <1>3 DEF InspectorInv, InspectorTypeOK, FeedTypeOK

\* The answer for a record is compared with the one fetched last; a record that is shown
\* takes what was fetched for another one away.
LEMMA PanelActionsKeep ==
  ASSUME InspectorInv,
         \/ CloseRecord
         \/ \E r \in Thin \union Whole : ShowRecord(r)
         \/ \E r \in Thin : DetailReturns(r) \/ DetailFails(r)
  PROVE  InspectorInv'
<1> USE InspectorAssumption
<1>0. /\ ins \in InspectorState /\ queries \in SUBSET AnyFilter /\ FeedTypeOK /\ LiveHasFeed
      /\ panel \in PanelState /\ fetches \in SUBSET Thin /\ PanelFollows /\ inspectorActs \in Nat
  BY DEF InspectorInv, InspectorTypeOK, FeedTypeOK
<1>1. /\ ins' = ins /\ queries' = queries /\ feed' = feed /\ shed' = shed /\ timer' = timer
      /\ inspectorActs' \in Nat
  <2>1. CASE CloseRecord
    BY <2>1, <1>0 DEF CloseRecord, feedVars
  <2>2. CASE \E r \in Thin \union Whole : ShowRecord(r)
    <3>1. InspectorAct /\ UNCHANGED <<ins, queries>> /\ UNCHANGED feedVars
      BY <2>2, Zenon DEF ShowRecord
    <3> QED
      BY <3>1, <1>0 DEF feedVars, InspectorAct
  <2>3. CASE \E r \in Thin : DetailReturns(r) \/ DetailFails(r)
    BY <2>3, <1>0 DEF DetailReturns, DetailFails, feedVars
  <2> QED
    BY <2>1, <2>2, <2>3
<1>2. panel' \in PanelState /\ fetches' \in SUBSET Thin /\ PanelFollows'
  <2> DEFINE Goal == panel' \in PanelState /\ fetches' \in SUBSET Thin /\ PanelFollows'
  <2>1. CASE CloseRecord
    BY <2>1, <1>0, ClosedFollows DEF CloseRecord, Unselected, PanelFollows
  <2>2. ASSUME NEW r \in Thin \union Whole, ShowRecord(r) PROVE Goal
    <3> DEFINE p == IF r # panel.fetched THEN [panel EXCEPT !.rec = r, !.full = NoRecord, !.fetched = NoRecord]
                    ELSE [panel EXCEPT !.rec = r]
    <3>1. r # panel.rec /\ MaybeFetch(p, r)
      BY <2>2 DEF ShowRecord
    <3>2. r \in PanelRecords /\ NoRecord \in PanelRecords
      BY DEF PanelRecords
    <3>3. p \in PanelState /\ p.rec = r /\ p.full = NoRecord /\ p.fetched = NoRecord
      <4>1. CASE r # panel.fetched
        BY <4>1, <3>2, <1>0 DEF PanelState
      <4>2. CASE r = panel.fetched
        <5>1. panel.fetched = NoRecord /\ panel.full = NoRecord
          BY <4>2, <3>1, <1>0 DEF PanelFollows
        <5> QED
          BY <4>2, <5>1, <3>2, <1>0 DEF PanelState
      <4> QED
        BY <4>1, <4>2
    <3> HIDE DEF p
    <3>4. CASE r \in Thin /\ r # p.fetched
      BY <3>1, <3>2, <3>3, <3>4, <1>0 DEF MaybeFetch, PanelState, PanelFollows
    <3>5. CASE ~(r \in Thin /\ r # p.fetched)
      BY <3>1, <3>3, <3>5, <1>0 DEF MaybeFetch, PanelFollows
    <3> QED
      BY <3>4, <3>5
  <2>3. ASSUME NEW r \in Thin, DetailReturns(r) PROVE Goal
    <3>1. r \in PanelRecords /\ fetches' \in SUBSET Thin
      BY <2>3, <1>0 DEF DetailReturns, PanelRecords
    <3>2. CASE r = panel.fetched
      <4>1. panel' = [panel EXCEPT !.full = r, !.loading = FALSE]
        BY <2>3, <3>2 DEF DetailReturns, Awaited
      <4> QED
        BY <3>1, <3>2, <4>1, <1>0 DEF PanelState, PanelFollows
    <3>3. CASE r # panel.fetched
      BY <2>3, <3>1, <3>3, <1>0 DEF DetailReturns, Awaited, PanelFollows
    <3> QED
      BY <3>2, <3>3
  <2>4. ASSUME NEW r \in Thin, DetailFails(r) PROVE Goal
    <3>1. fetches' \in SUBSET Thin
      BY <2>4, <1>0 DEF DetailFails
    <3>2. CASE panel' = [panel EXCEPT !.loading = FALSE]
      BY <3>1, <3>2, <1>0 DEF PanelState, PanelFollows
    <3>3. CASE panel' = panel
      BY <3>1, <3>3, <1>0 DEF PanelFollows
    <3> QED
      BY <2>4, <3>2, <3>3 DEF DetailFails
  <2> QED
    BY <2>1, <2>2, <2>3, <2>4
<1> QED
  BY <1>0, <1>1, <1>2 DEF InspectorInv, InspectorTypeOK, FeedTypeOK, LiveHasFeed, Live, Configured, Following, Here

(* A page of the inspector that is live and was not stopped has a socket or *)
(* a timer that will open one, unless the last opening threw, and one that  *)
(* was left has neither; the panel shows no body but that of the record     *)
(* selected.  So it is whatever sockets fail, whatever addresses are set    *)
(* and however late the answers come (inspector-page.ts, record-detail.ts). *)
THEOREM WebInspectorSound == WebSpec => []InspectorSound
<1>1. WebInit => InspectorInv
  BY InspectorStarts
<1>2. InspectorInv /\ [WebNext]_webVars => InspectorInv'
  <2> SUFFICES ASSUME InspectorInv, [WebNext]_webVars PROVE InspectorInv'
    OBVIOUS
  <2>1. CASE UNCHANGED inspector
    BY <2>1 DEF inspector, InspectorInv, InspectorTypeOK, LiveHasFeed, Live, Configured, Following, Here, PanelFollows
  <2>2. CASE InspectorNext
    BY <2>2, PageActionsKeep, FeedActionsKeep, PanelActionsKeep DEF InspectorNext
  <2> QED
    BY <2>1, <2>2 DEF WebNext, webVars
<1>3. InspectorInv => InspectorSound
  BY DEF InspectorInv, InspectorSound, DetailFits, PanelFollows
<1> QED
  BY <1>1, <1>2, <1>3, PTL DEF WebSpec


---------------------------------------------------------------------------
(* The settings (settings-page.ts, settings-store.ts).                     *)

ThemeNames == {"system", "light", "dark"}
SaveWrites == [op : {"p2p"}, adv : FormValues, theme : {""}, at : {"wire", "answered"}]
ThemeWrites == [op : {"theme"}, adv : {<<>>}, theme : ThemeNames, at : {"wire", "answered"}]

SettingsTypeOK ==
  /\ daemonAdv \in FormValues /\ daemonTheme \in ThemeNames
  /\ store \in [adv : FormValues, theme : ThemeNames]
  /\ sp \in [adv : FormValues, theme : ThemeNames, saving : BOOLEAN]
  /\ writes \subseteq SaveWrites \union ThemeWrites

\* What a save carries passed the check of the page, also when it has been answered.
SavesFit == \A w \in writes : w.op = "p2p" => AdvancedFits(w.adv)
SettingsInv == SettingsTypeOK /\ SavesFit

\* The check of the page implies the daemon's, for any numbers in the fields that the
\* two read alike: the page takes a field that is not positive for blank, the daemon one
\* that is zero (settings-page.ts _advancedError; P2PQUICConfig and P2PTimeouts).
LEMMA FitsIsTaken ==
  ASSUME NEW f \in FormValues, AdvancedFits(f), ReadAlike(f)
  PROVE  ServerTakes(f)
<1>1. /\ f.mtu \in FieldValues /\ f.batch \in FieldValues /\ f.flush \in Readings /\ f.keepAlive \in Readings
      /\ f.idle \in Readings /\ f.handshake \in Readings /\ f.interval \in Readings /\ f.timeout \in Readings
  BY DEF FormValues
<1>2. \A d \in Durations(f) : d.page # -1 /\ d.page = d.daemon
  BY DEF AdvancedFits, ReadAlike
<1>3. \A d \in Durations(f) : d \in Readings /\ ~Refused(d)
  BY <1>1, <1>2 DEF Durations, Refused
<1>4. (f.mtu # 0 => f.mtu >= 1200) /\ f.batch >= 0 /\ f.batch <= 64 * 1024
  <2>1. f.mtu # 0 => f.mtu >= 1200
    <3>1. f.mtu = 0 \/ f.mtu \in 1200..1452
      BY DEF AdvancedFits, MtuFits
    <3> QED
      BY <3>1
  <2>2. f.batch >= 0 /\ f.batch <= 65536
    BY <1>1 DEF AdvancedFits, BatchFits, FieldValues
  <2>3. 64 * 1024 = 65536
    OBVIOUS
  <2> QED
    BY <2>1, <2>2, <2>3
<1>5. Or(f.idle.daemon, 15) > Or(f.keepAlive.daemon, 5)
  <2>1. f.idle.page = f.idle.daemon /\ f.keepAlive.page = f.keepAlive.daemon
    BY <1>2 DEF Durations
  <2> QED
    BY <2>1 DEF AdvancedFits, IdleFits
<1>6. Or(f.timeout.daemon, 15) >= 2 * Or(f.interval.daemon, 3)
  <2>1. f.timeout.page = f.timeout.daemon /\ f.interval.page = f.interval.daemon
    BY <1>2 DEF Durations
  <2> QED
    BY <2>1 DEF AdvancedFits, SmuxFits
<1>7. ServerTakesQuic(f)
  <2>1. \A d \in {f.flush, f.keepAlive, f.idle, f.handshake} : ~Refused(d)
    BY <1>3 DEF Durations
  <2> QED
    BY <2>1, <1>4, <1>5 DEF ServerTakesQuic
<1>8. ServerTakesSmux(f)
  BY <1>3, <1>6 DEF ServerTakesSmux, Durations
<1> QED
  BY <1>7, <1>8 DEF ServerTakes

LEMMA NextThemeIsOne ==
  ASSUME NEW theme \in ThemeNames
  PROVE  NextTheme(theme) \in ThemeNames
<1> DEFINE i == CHOOSE i \in 1..3 : Themes[i] = theme
<1>1. i \in 1..3
  <2>1. \E j \in 1..3 : Themes[j] = theme
    BY DEF Themes, ThemeNames
  <2> QED
    BY <2>1
<1> HIDE DEF i
<1>2. (i % 3) + 1 \in 1..3
  BY <1>1
<1>3. \A j \in 1..3 : Themes[j] \in ThemeNames
  BY DEF Themes, ThemeNames
<1>4. Themes[(i % 3) + 1] \in ThemeNames
  BY <1>2, <1>3
<1> QED
  BY <1>4 DEF NextTheme, i

LEMMA SettingsStart == WebInit => SettingsInv
<1> SUFFICES ASSUME WebInit PROVE SettingsInv
  OBVIOUS
<1>1. NoForm \in FormValues
  BY DEF NoForm, NoText, FormValues, Readings, FieldValues
<1>2. /\ daemonAdv = NoForm /\ daemonTheme = "system" /\ writes = {}
      /\ store = [adv |-> NoForm, theme |-> "system"]
      /\ sp = [adv |-> NoForm, theme |-> "system", saving |-> FALSE]
  BY DEF WebInit, OthersIdle, SettingsInit, SettingsIdle
<1> HIDE DEF NoForm
<1> QED
  BY <1>1, <1>2 DEF SettingsInv, SettingsTypeOK, SavesFit, ThemeNames

\* A notification sets what the page shows to what the store has.
LEMMA NotifiedKeeps ==
  ASSUME SettingsTypeOK, NEW s \in [adv : FormValues, theme : ThemeNames], NEW saving \in BOOLEAN,
         Notified(s, saving)
  PROVE  /\ store' \in [adv : FormValues, theme : ThemeNames]
         /\ sp' \in [adv : FormValues, theme : ThemeNames, saving : BOOLEAN]
BY DEF SettingsTypeOK, Notified, PageOf

LEMMA SettingsStep == SettingsInv /\ SettingsNext => SettingsInv'
<1> SUFFICES ASSUME SettingsInv, SettingsNext PROVE SettingsInv'
  OBVIOUS
<1>0. /\ daemonAdv \in FormValues /\ daemonTheme \in ThemeNames
      /\ store \in [adv : FormValues, theme : ThemeNames]
      /\ sp \in [adv : FormValues, theme : ThemeNames, saving : BOOLEAN]
      /\ writes \subseteq SaveWrites \union ThemeWrites
      /\ SavesFit /\ SettingsTypeOK
  BY DEF SettingsInv, SettingsTypeOK
<1>i. CASE UNCHANGED settingsVars
  BY <1>i, <1>0 DEF settingsVars, SettingsInv, SettingsTypeOK, SavesFit
<1>1. CASE LoadSettings
  <2> DEFINE s == [adv |-> daemonAdv, theme |-> daemonTheme]
  <2>1. s \in [adv : FormValues, theme : ThemeNames] /\ sp.saving \in BOOLEAN
    BY <1>0
  <2>2. Notified(s, sp.saving) /\ daemonAdv' = daemonAdv /\ daemonTheme' = daemonTheme /\ writes' = writes
    BY <1>1 DEF LoadSettings
  <2> HIDE DEF s
  <2> QED
    BY <2>1, <2>2, <1>0, NotifiedKeeps DEF SettingsInv, SettingsTypeOK, SavesFit
<1>2. CASE SaveSettings
  <2> DEFINE w == [op |-> "p2p", adv |-> sp.adv, theme |-> "", at |-> "wire"]
  <2>1. w \in SaveWrites /\ AdvancedFits(w.adv)
    BY <1>0, <1>2 DEF SaveSettings, SaveWrites
  <2>2. writes' = writes \union {w}
    BY <1>2 DEF SaveSettings
  <2>3. sp' \in [adv : FormValues, theme : ThemeNames, saving : BOOLEAN]
    BY <1>0, <1>2 DEF SaveSettings
  <2>4. daemonAdv' = daemonAdv /\ daemonTheme' = daemonTheme /\ store' = store
    BY <1>2 DEF SaveSettings
  <2> HIDE DEF w
  <2> QED
    BY <2>1, <2>2, <2>3, <2>4, <1>0 DEF SettingsInv, SettingsTypeOK, SavesFit
<1>3. CASE SetTheme
  <2> DEFINE theme == NextTheme(sp.theme)
             w == [op |-> "theme", adv |-> <<>>, theme |-> theme, at |-> "wire"]
  <2>1. theme \in ThemeNames
    BY <1>0, NextThemeIsOne
  <2>2. writes' = writes \union {w} /\ sp' = [sp EXCEPT !.theme = theme]
    BY <1>3 DEF SetTheme
  <2>3. daemonAdv' = daemonAdv /\ daemonTheme' = daemonTheme /\ store' = store
    BY <1>3 DEF SetTheme
  <2> HIDE DEF theme
  <2>4. w \in ThemeWrites /\ w.op # "p2p"
    BY <2>1 DEF ThemeWrites
  <2> HIDE DEF w
  <2> QED
    BY <2>1, <2>2, <2>3, <2>4, <1>0 DEF SettingsInv, SettingsTypeOK, SavesFit
<1>4. CASE \E f \in Forms : Fill(f)
  <2>1. PICK f \in Forms : Fill(f)
    BY <1>4
  <2>2. f \in FormValues
    BY SettingsAssumption
  <2> QED
    BY <2>1, <2>2, <1>0 DEF Fill, SettingsInv, SettingsTypeOK, SavesFit
<1>5. CASE \E w \in writes : WriteServed(w)
  <2>1. PICK w \in writes : WriteServed(w)
    BY <1>5
  <2> DEFINE v == [w EXCEPT !.at = "answered"]
  <2>2. CASE w \in SaveWrites
    <3>1. v \in SaveWrites /\ v.adv = w.adv /\ v.op = w.op /\ w.op # "theme" /\ w.adv \in FormValues
      BY <2>2 DEF SaveWrites
    <3>2. daemonAdv' \in FormValues /\ daemonTheme' = daemonTheme /\ writes' = (writes \ {w}) \union {v}
      BY <2>1, <3>1, <1>0 DEF WriteServed
    <3>3. store' = store /\ sp' = sp
      BY <2>1 DEF WriteServed
    <3> HIDE DEF v
    <3> QED
      BY <3>1, <3>2, <3>3, <1>0 DEF SettingsInv, SettingsTypeOK, SavesFit
  <2>3. CASE w \in ThemeWrites
    <3>1. v \in ThemeWrites /\ v.op # "p2p" /\ w.op = "theme" /\ w.theme \in ThemeNames
      BY <2>3 DEF ThemeWrites
    <3>2. daemonAdv' = daemonAdv /\ daemonTheme' \in ThemeNames /\ writes' = (writes \ {w}) \union {v}
      BY <2>1, <3>1, <1>0 DEF WriteServed
    <3>3. store' = store /\ sp' = sp
      BY <2>1 DEF WriteServed
    <3> HIDE DEF v
    <3> QED
      BY <3>1, <3>2, <3>3, <1>0 DEF SettingsInv, SettingsTypeOK, SavesFit
  <2> QED
    BY <2>1, <2>2, <2>3, <1>0
<1>6. CASE \E w \in writes : WriteEnds(w)
  <2>1. PICK w \in writes : WriteEnds(w)
    BY <1>6
  <2> DEFINE s == IF w.op = "theme" THEN [store EXCEPT !.theme = w.theme] ELSE [store EXCEPT !.adv = w.adv]
             saving == sp.saving /\ w.op = "theme"
  <2>2. s \in [adv : FormValues, theme : ThemeNames]
    <3>1. CASE w \in SaveWrites
      BY <3>1, <1>0 DEF SaveWrites
    <3>2. CASE w \in ThemeWrites
      BY <3>2, <1>0 DEF ThemeWrites
    <3> QED
      BY <3>1, <3>2, <1>0
  <2>3. Notified(s, saving) /\ writes' = writes \ {w} /\ daemonAdv' = daemonAdv /\ daemonTheme' = daemonTheme
    BY <2>1 DEF WriteEnds
  <2>4. saving \in BOOLEAN
    OBVIOUS
  <2> HIDE DEF s, saving
  <2> QED
    BY <2>2, <2>3, <2>4, <1>0, NotifiedKeeps DEF SettingsInv, SettingsTypeOK, SavesFit
<1>7. CASE OpenResetDialog \/ CloseResetDialog \/ ResetKey \/ Reconcile
  BY <1>7, <1>i DEF OpenResetDialog, CloseResetDialog, ResetKey, Reconcile, IdleRead
<1>8. CASE \E r \in resets : ResetServed(r) \/ ResetReturns(r) \/ ResetFails(r) \/ ResetLost(r)
  BY <1>8, <1>i DEF ResetServed, ResetReturns, ResetFails, ResetLost, IdleRead
<1>9. CASE \E q \in reads : ReadServed(q) \/ ReadEnds(q)
  BY <1>9, <1>i DEF ReadServed, ReadEnds, IdleRead
<1> QED
  BY <1>1, <1>2, <1>3, <1>4, <1>5, <1>6, <1>7, <1>8, <1>9 DEF SettingsNext

(* A save that the page lets through and the daemon refuses has a duration  *)
(* that the two read as different numbers, whatever numbers the fields hold *)
(* and whatever notifications reset them while it is under way              *)
(* (settings-page.ts _advancedError, P2PQUICConfig and P2PTimeouts).        *)
THEOREM WebSavesAreTaken == WebSpec => []SavesAreTaken
<1>1. WebInit => SettingsInv
  BY SettingsStart
<1>2. SettingsInv /\ [WebNext]_webVars => SettingsInv'
  <2> SUFFICES ASSUME SettingsInv, [WebNext]_webVars PROVE SettingsInv'
    OBVIOUS
  <2>1. CASE UNCHANGED settings
    BY <2>1 DEF settings, SettingsInv, SettingsTypeOK, SavesFit
  <2>2. CASE SettingsNext
    BY <2>2, SettingsStep
  <2> QED
    BY <2>1, <2>2 DEF WebNext, webVars
<1>3. SettingsInv => SavesAreTaken
  <2> SUFFICES ASSUME SettingsInv, NEW w \in writes, w.op = "p2p", ReadAlike(w.adv) PROVE ServerTakes(w.adv)
    BY DEF SavesAreTaken
  <2>1. w.adv \in FormValues /\ AdvancedFits(w.adv)
    BY DEF SettingsInv, SettingsTypeOK, SavesFit, SaveWrites, ThemeWrites
  <2> QED
    BY <2>1, FitsIsTaken
<1> QED
  BY <1>1, <1>2, <1>3, PTL DEF WebSpec


---------------------------------------------------------------------------
(* The refusals of a hub and the way they are told (lan-refusal.ts).       *)

\* A claim that was refused is one its spoke makes, and a row that allows LANs allows
\* ones its spoke shares.
Allows == [Spokes -> [row : BOOLEAN, lans : SUBSET Lans]]
AskedAllows == {a \in Allows : \A s \in Spokes : a[s].lans \subseteq Shares[s]}
RouteReasons == {"covers-member", "hub-own-route", "taken-by-peer"}
AskedRefusals == {r \in [peer : Spokes, prefix : Lans, reason : AllowRowReasons \union RouteReasons] :
                    r.prefix \in Shares[r.peer]}
HubState == [allow : AskedAllows, claims : [Spokes -> SUBSET Lans], rejected : Seq(AskedRefusals)]

\* A set of numbers has a smallest one.
LEMMA SmallestOf ==
  ASSUME NEW T \in SUBSET Nat, T # {}
  PROVE  \E m \in T : \A k \in T : m <= k
<1> DEFINE Less == {pair \in Nat \X Nat : pair[1] < pair[2]}
<1>1. IsWellFoundedOn(Less, Nat)
  BY NatLessThanWellFounded DEF OpToRel
<1> HIDE DEF Less
<1>2. PICK m \in T : \A k \in T : <<k, m>> \notin Less
  BY <1>1, WFMin
<1>3. ASSUME NEW k \in T PROVE m <= k
  <2>1. k \in Nat /\ m \in Nat
    OBVIOUS
  <2>2. k < m => <<k, m>> \in Less
    BY <2>1 DEF Less
  <2> QED
    BY <1>2, <2>1, <2>2
<1> QED
  BY <1>3

\* The group that is made of the i-th refusal, and the refusals a group is made of.
GroupAt(l, i) ==
  [peer |-> l.rejected[i].peer, prefix |-> l.rejected[i].prefix, reason |-> l.rejected[i].reason, at |-> i,
   count |-> Cardinality({j \in DOMAIN l.rejected : SameClaim(l.rejected[i], l.rejected[j])}),
   fixableByAllow |-> l.rejected[i].reason \in AllowRowReasons,
   resolved |-> l.rejected[i].prefix \in l.claims[l.rejected[i].peer]]
Leaders(l) == {i \in DOMAIN l.rejected : Newest(l.rejected, i)}

LEMMA GroupsOfLeaders ==
  ASSUME NEW l
  PROVE  RefusalGroups(l) = {GroupAt(l, i) : i \in Leaders(l)}
BY DEF RefusalGroups, GroupAt, Leaders

\* Two leaders are of different claims.
LEMMA LeadersDiffer ==
  ASSUME NEW l \in HubState, NEW i \in Leaders(l), NEW j \in Leaders(l),
         SameClaim(l.rejected[i], l.rejected[j])
  PROVE  i = j
<1>1. i \in 1..Len(l.rejected) /\ j \in 1..Len(l.rejected) /\ Len(l.rejected) \in Nat
  BY DEF HubState, Leaders
<1>2. ~(i < j)
  <2>1. ASSUME i < j PROVE i \in 1..j - 1
    BY <1>1, <2>1
  <2> QED
    BY <2>1 DEF Leaders, Newest, SameClaim
<1>3. ~(j < i)
  <2>1. ASSUME j < i PROVE j \in 1..i - 1
    BY <1>1, <2>1
  <2> QED
    BY <2>1 DEF Leaders, Newest, SameClaim
<1> QED
  BY <1>1, <1>2, <1>3

\* Every refusal is of the claim of a leader, which is not older.
LEMMA LeaderOf ==
  ASSUME NEW l \in HubState, NEW i \in DOMAIN l.rejected
  PROVE  \E k \in Leaders(l) : k <= i /\ SameClaim(l.rejected[k], l.rejected[i])
<1> DEFINE Same == {j \in DOMAIN l.rejected : SameClaim(l.rejected[j], l.rejected[i])}
<1>1. DOMAIN l.rejected = 1..Len(l.rejected) /\ Len(l.rejected) \in Nat
  BY DEF HubState
<1>2. i \in Same /\ Same \in SUBSET Nat
  BY <1>1 DEF SameClaim
<1>3. PICK k \in Same : \A j \in Same : k <= j
  BY <1>2, SmallestOf
<1>4. ASSUME NEW j \in 1..k - 1, SameClaim(l.rejected[k], l.rejected[j]) PROVE FALSE
  <2>1. j \in 1..Len(l.rejected) /\ j < k
    BY <1>1
  <2>2. j \in Same
    BY <1>1, <1>4, <2>1 DEF SameClaim
  <2> QED
    BY <1>1, <1>3, <2>1, <2>2
<1>5. k \in Leaders(l)
  BY <1>4 DEF Leaders, Newest
<1> QED
  BY <1>2, <1>3, <1>5

LEMMA RefusalsCountUp ==
  ASSUME NEW l \in HubState
  PROVE  CountsUp(l)
<1> SUFFICES ASSUME NEW i \in DOMAIN l.rejected
             PROVE  LET of == {g \in RefusalGroups(l) : g.peer = l.rejected[i].peer /\ g.prefix = l.rejected[i].prefix}
                    IN  \E g \in of : of = {g} /\ g.at <= i /\ g.count = Cardinality(
                          {j \in DOMAIN l.rejected : l.rejected[j].peer = g.peer /\ l.rejected[j].prefix = g.prefix})
  BY DEF CountsUp
<1> DEFINE of == {g \in RefusalGroups(l) : g.peer = l.rejected[i].peer /\ g.prefix = l.rejected[i].prefix}
<1>1. PICK k \in Leaders(l) : k <= i /\ SameClaim(l.rejected[k], l.rejected[i])
  BY LeaderOf
<1> DEFINE g == GroupAt(l, k)
<1>2. g.peer = l.rejected[k].peer /\ g.prefix = l.rejected[k].prefix /\ g.at = k
  BY DEF GroupAt
<1>3. g.count = Cardinality({j \in DOMAIN l.rejected : SameClaim(l.rejected[k], l.rejected[j])})
  BY DEF GroupAt
<1>4. g \in of
  BY <1>1, <1>2, GroupsOfLeaders DEF SameClaim
<1>5. ASSUME NEW h \in of PROVE h = g
  <2>1. PICK m \in Leaders(l) : h = GroupAt(l, m)
    BY GroupsOfLeaders
  <2>2. SameClaim(l.rejected[m], l.rejected[k])
    BY <1>1, <2>1 DEF SameClaim, GroupAt
  <2>3. m = k
    BY <2>2, LeadersDiffer
  <2> QED
    BY <2>1, <2>3
<1>6. {j \in DOMAIN l.rejected : SameClaim(l.rejected[k], l.rejected[j])} =
        {j \in DOMAIN l.rejected : l.rejected[j].peer = g.peer /\ l.rejected[j].prefix = g.prefix}
  BY <1>2 DEF SameClaim
<1> HIDE DEF g, of
<1>7. of = {g}
  BY <1>4, <1>5
<1>8. g \in of /\ of = {g} /\ g.at <= i /\ g.count = Cardinality(
        {j \in DOMAIN l.rejected : l.rejected[j].peer = g.peer /\ l.rejected[j].prefix = g.prefix})
  BY <1>1, <1>2, <1>3, <1>4, <1>6, <1>7
<1> QED
  BY <1>8 DEF of

\* The groups are as many as the claims they are of.
LEMMA GroupsPerClaim ==
  ASSUME NEW l \in HubState
  PROVE  Cardinality(Active(l)) = Cardinality({<<g.peer, g.prefix>> : g \in Active(l)})
<1> DEFINE Claims == {<<g.peer, g.prefix>> : g \in Active(l)}
           claimOf == [g \in Active(l) |-> <<g.peer, g.prefix>>]
           groupOf == [i \in Leaders(l) |-> GroupAt(l, i)]
<1>1. IsFiniteSet(Active(l))
  <2>1. IsFiniteSet(1..Len(l.rejected)) /\ Leaders(l) \in SUBSET (1..Len(l.rejected))
    BY FS_Interval DEF HubState, Leaders
  <2>2. IsFiniteSet(Leaders(l))
    BY <2>1, FS_Subset
  <2>3. groupOf \in Surjection(Leaders(l), RefusalGroups(l))
    BY GroupsOfLeaders DEF Surjection
  <2> HIDE DEF groupOf
  <2>4. IsFiniteSet(RefusalGroups(l))
    BY <2>2, <2>3, FS_Surjection
  <2>5. Active(l) \in SUBSET RefusalGroups(l)
    BY DEF Active
  <2> QED
    BY <2>4, <2>5, FS_Subset
<1>2. ASSUME NEW g \in Active(l), NEW h \in Active(l), g.peer = h.peer, g.prefix = h.prefix PROVE g = h
  <2>1. PICK i \in Leaders(l) : g = GroupAt(l, i)
    BY GroupsOfLeaders DEF Active
  <2>2. PICK j \in Leaders(l) : h = GroupAt(l, j)
    BY GroupsOfLeaders DEF Active
  <2>3. SameClaim(l.rejected[i], l.rejected[j])
    BY <1>2, <2>1, <2>2 DEF SameClaim, GroupAt
  <2> QED
    BY <2>1, <2>2, <2>3, LeadersDiffer
<1>3. claimOf \in [Active(l) -> Claims] /\ \A c \in Claims : \E g \in Active(l) : claimOf[g] = c
  OBVIOUS
<1>4. \A g, h \in Active(l) : claimOf[g] = claimOf[h] => g = h
  BY <1>2
<1> HIDE DEF claimOf, Claims
<1>5. claimOf \in Bijection(Active(l), Claims)
  BY <1>3, <1>4 DEF Bijection, Injection, Surjection, IsInjective
<1>6. Cardinality(Claims) = Cardinality(Active(l))
  BY <1>1, <1>5, FS_Bijection DEF ExistsBijection
<1> QED
  BY <1>6 DEF Claims

LEMMA HubTellsAll ==
  ASSUME lanKnown \in HubState
  PROVE  RefusalsTold
<1>1. CountsUp(lanKnown)
  BY RefusalsCountUp
<1>2. \A s \in Spokes : StatRow(lanKnown, s).refused = RefusedFor(lanKnown, s)
  BY DEF StatRow
<1>3. ASSUME NEW g \in Active(lanKnown) PROVE g.peer \in Spokes
  <2>1. PICK i \in Leaders(lanKnown) : g = GroupAt(lanKnown, i)
    BY GroupsOfLeaders DEF Active
  <2>2. g.peer = lanKnown.rejected[i].peer
    BY <2>1 DEF GroupAt
  <2>3. lanKnown.rejected[i] \in AskedRefusals
    BY ElementOfSeq DEF HubState, Leaders
  <2> QED
    BY <2>2, <2>3 DEF AskedRefusals
<1>4. Active(lanKnown) = UNION {StatRow(lanKnown, s).refused : s \in Spokes}
  BY <1>2, <1>3 DEF RefusedFor
<1>5. PeersCard(lanKnown).refused = Cardinality(Active(lanKnown))
  BY DEF PeersCard
<1>6. LanSection(lanKnown).hint <=> Active(lanKnown) # {}
  BY DEF LanSection
<1> QED
  BY <1>1, <1>4, <1>5, <1>6, GroupsPerClaim DEF RefusalsTold, RefusedBanner


---------------------------------------------------------------------------
(* What the rows of a hub allow (tunnel-peers-page.ts).                    *)

HubPageState ==
  [at : {"hub", "peers"}, editing : Spokes \union {NoSpoke}, draft : SUBSET Lans, saving : BOOLEAN, pending : 0..1]

\* What a spoke was asked for goes a long way before the hub allows it: it is told of in
\* the journal, read by the store, put in the draft of a row and in a save under way.
HubInv ==
  /\ lan \in HubState /\ lanKnown \in HubState /\ grants \subseteq AskedAllows
  /\ hubPage \in HubPageState /\ (hubPage.editing \in Spokes => hubPage.draft \subseteq Shares[hubPage.editing])

LEMMA HubStarts == WebInit => HubInv
<1> SUFFICES ASSUME WebInit PROVE HubInv
  OBVIOUS
<1>1. LanInit
  BY DEF WebInit, HubIdle
<1>2. [s \in Spokes |-> [row |-> FALSE, lans |-> {}]] \in AskedAllows
  BY DEF AskedAllows, Allows
<1>3. [s \in Spokes |-> {}] \in [Spokes -> SUBSET Lans] /\ <<>> \in Seq(AskedRefusals)
  OBVIOUS
<1>4. NewHub \in HubState
  BY <1>2, <1>3 DEF NewHub, HubState
<1> HIDE DEF NewHub
<1>5. hubPage \in HubPageState /\ hubPage.draft = {}
  BY <1>1 DEF LanInit, HubPageState
<1> QED
  BY <1>1, <1>4, <1>5 DEF LanInit, HubInv

\* A refusal that is journalled drops the oldest when there are too many.
LEMMA JournalledKeeps ==
  ASSUME lan \in HubState, NEW entry \in AskedRefusals
  PROVE  Journalled(entry) \in Seq(AskedRefusals)
<1> USE HubAssumption
<1> DEFINE long == <<entry>> \o lan.rejected
           n == IF Len(lan.rejected) < MaxJournal THEN Len(lan.rejected) + 1 ELSE MaxJournal
<1>1. lan.rejected \in Seq(AskedRefusals)
  BY DEF HubState
<1>2. <<entry>> \in Seq(AskedRefusals) /\ Len(<<entry>>) = 1
  OBVIOUS
<1>3. long \in Seq(AskedRefusals) /\ Len(long) = Len(lan.rejected) + 1
  BY <1>1, <1>2, ConcatProperties
<1>4. Len(lan.rejected) \in Nat
  BY <1>1, LenProperties
<1>5. n \in Int /\ n <= Len(lan.rejected) + 1
  BY <1>4
<1> HIDE DEF long, n
<1>6. \A i \in 1..n : i \in 1..Len(long)
  BY <1>3, <1>4, <1>5
<1>7. \A i \in 1..n : long[i] \in AskedRefusals
  BY <1>3, <1>6, ElementOfSeq
<1>8. SubSeq(long, 1, n) \in Seq(AskedRefusals)
  BY <1>5, <1>7, SubSeqProperties
<1> QED
  BY <1>8 DEF Journalled, long, n

LEMMA ClaimKeeps ==
  ASSUME HubInv, NEW s \in Spokes, NEW p \in Lans, Claim(s, p)
  PROVE  HubInv'
<1>0. lan \in HubState
  BY DEF HubInv
<1>1. lan' \in HubState
  <2>1. CASE Reason(s, p) = "none"
    <3> DEFINE claims == [lan.claims EXCEPT ![s] = @ \union {p}]
    <3>1. lan' = [lan EXCEPT !.claims[s] = @ \union {p}]
      BY <2>1 DEF Claim
    <3>2. lan' = [lan EXCEPT !.claims = claims]
      BY <3>1
    <3>3. claims \in [Spokes -> SUBSET Lans]
      BY <1>0 DEF HubState
    <3> HIDE DEF claims
    <3> QED
      BY <3>2, <3>3, <1>0 DEF HubState
  <2>2. CASE Reason(s, p) # "none"
    <3> DEFINE entry == [peer |-> s, prefix |-> p, reason |-> Reason(s, p)]
               journal == Journalled(entry)
    <3>1. Reason(s, p) \in AllowRowReasons \union RouteReasons
      BY <2>2 DEF Reason, Approval, AllowRowReasons, RouteReasons
    <3>2. entry \in AskedRefusals
      BY <3>1 DEF AskedRefusals, Claim
    <3>3. lan' = [lan EXCEPT !.rejected = journal]
      BY <2>2 DEF Claim
    <3> HIDE DEF entry
    <3>4. journal \in Seq(AskedRefusals)
      BY <3>2, <1>0, JournalledKeeps
    <3> HIDE DEF journal
    <3> QED
      BY <3>3, <3>4, <1>0 DEF HubState
  <2> QED
    BY <2>1, <2>2
<1> QED
  BY <1>1 DEF Claim, HubInv

LEMMA WithdrawKeeps ==
  ASSUME HubInv, NEW s \in Spokes, Withdraw(s) \/ Revoke(s)
  PROVE  HubInv'
<1> DEFINE claims == [lan.claims EXCEPT ![s] = {}]
           allow == [lan.allow EXCEPT ![s].lans = {}]
<1>0. lan \in HubState
  BY DEF HubInv
<1>1. claims \in [Spokes -> SUBSET Lans]
  BY <1>0 DEF HubState
<1>2. allow \in AskedAllows
  <2>1. lan.allow \in Allows /\ \A t \in Spokes : lan.allow[t].lans \subseteq Shares[t]
    BY <1>0 DEF HubState, AskedAllows
  <2>2. allow \in Allows /\ \A t \in Spokes : allow[t].lans = {} \/ allow[t].lans = lan.allow[t].lans
    BY <2>1 DEF Allows
  <2> HIDE DEF allow
  <2> QED
    BY <2>1, <2>2 DEF AskedAllows
<1>3. lan' \in HubState
  <2>1. CASE Withdraw(s)
    <3>1. lan' = [lan EXCEPT !.claims = claims]
      BY <2>1 DEF Withdraw
    <3> HIDE DEF claims, allow
    <3> QED
      BY <3>1, <1>0, <1>1 DEF HubState
  <2>2. CASE Revoke(s)
    <3>1. lan' = [lan EXCEPT !.allow = allow, !.claims = claims]
      BY <2>2 DEF Revoke
    <3> HIDE DEF claims, allow
    <3> QED
      BY <3>1, <1>0, <1>1, <1>2 DEF HubState
  <2> QED
    BY <2>1, <2>2
<1>4. lanKnown' = lanKnown /\ hubPage' = hubPage /\ grants' = grants
  BY DEF Withdraw, Revoke
<1> QED
  BY <1>3, <1>4 DEF HubInv

\* What can be approved at a row is what its spoke claimed.
LEMMA FixableWasAsked ==
  ASSUME NEW l \in HubState, NEW s \in Spokes, NEW g \in Fixable(l, s)
  PROVE  g.prefix \in Shares[s] /\ g.prefix \in Lans
<1> USE HubAssumption
<1>1. PICK i \in Leaders(l) : g = GroupAt(l, i)
  BY GroupsOfLeaders DEF Fixable, RefusedFor, Active
<1>2. g.peer = l.rejected[i].peer /\ g.prefix = l.rejected[i].prefix
  BY <1>1 DEF GroupAt
<1>3. g.peer = s
  BY DEF Fixable, RefusedFor
<1>4. l.rejected[i] \in AskedRefusals
  BY ElementOfSeq DEF HubState, Leaders
<1> QED
  BY <1>2, <1>3, <1>4 DEF AskedRefusals

LEMMA StageKeeps ==
  ASSUME HubInv, NEW s \in Spokes, Stage(s)
  PROVE  HubInv'
<1> USE HubAssumption
<1> DEFINE draft == lanKnown.allow[s].lans \union {g.prefix : g \in Fixable(lanKnown, s)}
<1>1. lanKnown.allow[s].lans \subseteq Shares[s] /\ lanKnown.allow[s].lans \subseteq Lans
  BY DEF HubInv, HubState, AskedAllows, Allows
<1>2. lanKnown \in HubState
  BY DEF HubInv
<1>3. draft \subseteq Shares[s] /\ draft \in SUBSET Lans
  BY <1>1, <1>2, FixableWasAsked
<1>4. hubPage' = [hubPage EXCEPT !.editing = s, !.draft = draft]
  BY DEF Stage
<1> HIDE DEF draft
<1>5. hubPage' \in HubPageState /\ hubPage'.editing = s /\ hubPage'.draft = draft
  BY <1>3, <1>4 DEF HubInv, HubPageState
<1>6. lan' = lan /\ lanKnown' = lanKnown /\ grants' = grants
  BY DEF Stage, StayPut
<1> QED
  BY <1>3, <1>5, <1>6 DEF HubInv

\* A save restates every row as the store has it, but for the one that was edited.
LEMMA SaveGrantKeeps ==
  ASSUME HubInv, SaveGrant
  PROVE  HubInv'
<1> USE HubAssumption
<1>1. lanKnown.allow \in Allows /\ \A s \in Spokes : lanKnown.allow[s].lans \subseteq Shares[s]
  BY DEF HubInv, HubState, AskedAllows
<1>2. \A s \in Spokes : lanKnown.allow[s].lans \in SUBSET Lans
  BY <1>1 DEF Allows
<1>3. \A s \in Spokes : s = hubPage.editing => hubPage.draft \subseteq Shares[s] /\ hubPage.draft \in SUBSET Lans
  BY DEF HubInv, HubPageState
<1>4. \A s \in Spokes : Restated(s) \in BOOLEAN
  BY DEF Restated
<1>5. Granted \in Allows
  BY <1>2, <1>3, <1>4 DEF Granted, Allows
<1>6. \A s \in Spokes : Granted[s].lans \subseteq Shares[s]
  BY <1>1, <1>3 DEF Granted
<1>7. Granted \in AskedAllows
  BY <1>5, <1>6 DEF AskedAllows
<1>8. /\ hubPage' \in HubPageState /\ hubPage'.editing = hubPage.editing /\ hubPage'.draft = hubPage.draft
  BY DEF SaveGrant, HubInv, HubPageState
<1>9. grants' = grants \union {Granted} /\ lan' = lan /\ lanKnown' = lanKnown
  BY DEF SaveGrant, StayPut
<1> QED
  BY <1>7, <1>8, <1>9 DEF HubInv

LEMMA GrantEnds ==
  ASSUME HubInv, NEW allow \in grants, GrantServed(allow) \/ GrantFails(allow)
  PROVE  HubInv'
<1>0. lan \in HubState /\ allow \in AskedAllows /\ hubPage \in HubPageState
  BY DEF HubInv
<1>1. CASE GrantServed(allow)
  <2> DEFINE claims == [s \in Spokes |-> lan.claims[s] \intersect allow[s].lans]
  <2>1. claims \in [Spokes -> SUBSET Lans]
    BY <1>0 DEF HubState
  <2>2. lan' = [lan EXCEPT !.allow = allow, !.claims = claims] /\ lanKnown' = lan'
    BY <1>1 DEF GrantServed
  <2> HIDE DEF claims
  <2>3. lan' \in HubState
    BY <2>1, <2>2, <1>0 DEF HubState
  <2>4. hubPage' = [hubPage EXCEPT !.saving = FALSE, !.editing = NoSpoke, !.draft = {}]
    BY <1>1 DEF GrantServed
  <2>5. hubPage' \in HubPageState /\ hubPage'.draft = {}
    BY <2>4, <1>0 DEF HubPageState
  <2>6. grants' \subseteq grants
    BY <1>1 DEF GrantServed
  <2> QED
    BY <2>2, <2>3, <2>5, <2>6 DEF HubInv
<1>2. CASE GrantFails(allow)
  <2>1. hubPage' \in HubPageState /\ hubPage'.editing = hubPage.editing /\ hubPage'.draft = hubPage.draft
    BY <1>0, <1>2 DEF GrantFails, HubPageState
  <2>2. grants' \subseteq grants /\ lan' = lan /\ lanKnown' = lanKnown
    BY <1>2 DEF GrantFails, StayPut
  <2> QED
    BY <2>1, <2>2 DEF HubInv
<1> QED
  BY <1>1, <1>2

LEMMA HubStep == HubInv /\ LanNext => HubInv'
<1> SUFFICES ASSUME HubInv, LanNext PROVE HubInv'
  OBVIOUS
<1>1. CASE Reread
  BY <1>1 DEF Reread, HubInv
<1>2. CASE CountPending
  <2>1. PICK n \in 0..1 : hubPage' = [hubPage EXCEPT !.pending = n]
    BY <1>2 DEF CountPending
  <2>2. hubPage' \in HubPageState /\ hubPage'.editing = hubPage.editing /\ hubPage'.draft = hubPage.draft
    BY <2>1 DEF HubInv, HubPageState
  <2> QED
    BY <2>2, <1>2 DEF CountPending, HubInv
<1>3. CASE ToPeers
  <2>1. hubPage' \in HubPageState /\ hubPage'.draft = {}
    BY <1>3 DEF ToPeers, HubInv, HubPageState
  <2> QED
    BY <2>1, <1>3 DEF ToPeers, StayPut, HubInv
<1>4. CASE BackToHub
  <2>1. hubPage' \in HubPageState /\ hubPage'.editing = hubPage.editing /\ hubPage'.draft = hubPage.draft
    BY <1>4 DEF BackToHub, HubInv, HubPageState
  <2> QED
    BY <2>1, <1>4 DEF BackToHub, StayPut, HubInv
<1>5. CASE SaveGrant
  BY <1>5, SaveGrantKeeps
<1>6. CASE \E s \in Spokes : Withdraw(s) \/ Revoke(s)
  BY <1>6, WithdrawKeeps
<1>7. CASE \E s \in Spokes : Reached(s)
  BY <1>7 DEF Reached, HubInv
<1>8. CASE \E s \in Spokes : Stage(s)
  BY <1>8, StageKeeps
<1>9. CASE \E s \in Spokes : \E p \in Lans : Claim(s, p)
  BY <1>9, ClaimKeeps
<1>10. CASE \E allow \in grants : GrantServed(allow) \/ GrantFails(allow)
  BY <1>10, GrantEnds
<1> QED
  BY <1>1, <1>2, <1>3, <1>4, <1>5, <1>6, <1>7, <1>8, <1>9, <1>10 DEF LanNext

(* Every refusal the interface knows of is told once, with its repeats      *)
(* counted, and the banner, the badge and the rows agree about the open     *)
(* ones; and no row of the hub allows a LAN its spoke does not share,       *)
(* however long the page that approves it was open                          *)
(* (lan-refusal.ts lanRefusalGroups, tunnel-peers-page.ts _allowRefused).   *)
THEOREM WebRefusalsHandled == WebSpec => []RefusalsHandled
<1>1. WebInit => HubInv
  BY HubStarts
<1>2. HubInv /\ [WebNext]_webVars => HubInv'
  <2> SUFFICES ASSUME HubInv, [WebNext]_webVars PROVE HubInv'
    OBVIOUS
  <2>1. CASE UNCHANGED lanVars
    BY <2>1 DEF lanVars, HubInv
  <2>2. CASE LanNext
    BY <2>2, HubStep
  <2> QED
    BY <2>1, <2>2 DEF WebNext, webVars
<1>3. HubInv => RefusalsHandled
  <2> SUFFICES ASSUME HubInv PROVE RefusalsTold /\ GrantsWereAsked
    BY DEF RefusalsHandled
  <2>1. RefusalsTold
    BY HubTellsAll DEF HubInv
  <2>2. GrantsWereAsked
    BY DEF GrantsWereAsked, HubInv, HubState, AskedAllows
  <2> QED
    BY <2>1, <2>2
<1> QED
  BY <1>1, <1>2, <1>3, PTL DEF WebSpec

---------------------------------------------------------------------------
(* Lists (WebLists).                                                       *)

LEMMA SmallerPart ==
  ASSUME NEW V, IsFiniteSet(V), NEW U \in SUBSET V
  PROVE  /\ IsFiniteSet(U) /\ Cardinality(U) \in Nat /\ Cardinality(V) \in Nat /\ Cardinality(U) <= Cardinality(V)
         /\ U # V => Cardinality(U) # Cardinality(V)
<1>1. IsFiniteSet(U) /\ Cardinality(U) <= Cardinality(V) /\ (Cardinality(V) = Cardinality(U) => V = U)
  BY FS_Subset
<1> QED
  BY <1>1, FS_CardinalityType

\* Who comes later in a finite set has the higher rank.
LEMMA RanksRise ==
  ASSUME NEW S \in SUBSET Int, IsFiniteSet(S), NEW i \in S, NEW j \in S, i < j
  PROVE  Cardinality(Upto(S, i)) < Cardinality(Upto(S, j))
<1> DEFINE U == Upto(S, i)
           V == Upto(S, j)
<1>1. V \in SUBSET S /\ U \in SUBSET V /\ U # V
  <2>1. j \in V /\ j \notin U
    BY DEF Upto
  <2>2. V \in SUBSET S /\ \A x \in U : x \in V
    BY DEF Upto
  <2> QED
    BY <2>1, <2>2
<1> HIDE DEF U, V
<1>2. IsFiniteSet(V)
  BY <1>1, SmallerPart
<1>3. Cardinality(U) \in Nat /\ Cardinality(V) \in Nat /\ Cardinality(U) <= Cardinality(V) /\ Cardinality(U) # Cardinality(V)
  BY <1>1, <1>2, SmallerPart
<1>4. Cardinality(U) < Cardinality(V)
  BY <1>3
<1> QED
  BY <1>4 DEF U, V

\* The ranks of n elements are 1..n.
LEMMA RankSplits ==
  ASSUME NEW S \in SUBSET Int, IsFiniteSet(S), NEW k \in 1..Cardinality(S)
  PROVE  Kth(S, k) \in S /\ Cardinality(Upto(S, Kth(S, k))) = k
<1> DEFINE n == Cardinality(S)
           rank == [i \in S |-> Cardinality(Upto(S, i))]
<1>1. n \in Nat
  BY FS_CardinalityType
<1>2. ASSUME NEW i \in S
      PROVE  IsFiniteSet(Upto(S, i)) /\ Cardinality(Upto(S, i)) \in 1..n
  <2>1. Upto(S, i) \in SUBSET S /\ i \in Upto(S, i)
    BY <1>2 DEF Upto
  <2>2. IsFiniteSet(Upto(S, i)) /\ Cardinality(Upto(S, i)) <= n
    BY <2>1, FS_Subset
  <2>3. Cardinality(Upto(S, i)) \in Nat /\ Cardinality(Upto(S, i)) # 0
    BY <2>1, <2>2, FS_CardinalityType, FS_EmptySet
  <2> QED
    BY <1>1, <2>2, <2>3
<1>3. ASSUME NEW i \in S, NEW j \in S, i < j
      PROVE  rank[i] # rank[j]
  <2>1. Cardinality(Upto(S, i)) < Cardinality(Upto(S, j))
    BY <1>3, RanksRise
  <2> QED
    BY <2>1, <1>2
<1>4. rank \in Injection(S, 1..n)
  <2>1. rank \in [S -> 1..n]
    BY <1>2
  <2>2. \A i, j \in S : rank[i] = rank[j] => i = j
    BY <1>3
  <2> HIDE DEF rank
  <2> QED
    BY <2>1, <2>2 DEF Injection, IsInjective
<1>5. IsFiniteSet(1..n) /\ Cardinality(1..n) = n
  BY <1>1, FS_Interval
<1>6. rank \in Surjection(S, 1..n)
  BY <1>4, <1>5, FS_Injection
<1>7. PICK i \in S : rank[i] = k
  BY <1>6 DEF Surjection
<1>8. Cardinality(Upto(S, i)) = k
  BY <1>7
<1> QED
  BY <1>8 DEF Kth

\* Of two ranks the smaller is of the smaller number.
LEMMA KthRises ==
  ASSUME NEW S \in SUBSET Int, IsFiniteSet(S), NEW k \in 1..Cardinality(S), NEW l \in 1..Cardinality(S), k < l
  PROVE  Kth(S, k) < Kth(S, l)
<1> DEFINE i == Kth(S, k)
           j == Kth(S, l)
<1>1. i \in S /\ Cardinality(Upto(S, i)) = k /\ j \in S /\ Cardinality(Upto(S, j)) = l
  BY RankSplits
<1> HIDE DEF i, j
<1>2. i # j
  BY <1>1
<1>3. ~(j < i)
  <2> SUFFICES ASSUME j < i PROVE FALSE
    OBVIOUS
  <2>1. Cardinality(Upto(S, j)) < Cardinality(Upto(S, i))
    BY <1>1, RanksRise
  <2> QED
    BY <1>1, <2>1, FS_CardinalityType
<1>4. i < j
  BY <1>1, <1>2, <1>3
<1> QED
  BY <1>4 DEF i, j

\* Every element has its rank.
LEMMA RankOf ==
  ASSUME NEW S \in SUBSET Int, IsFiniteSet(S), NEW i \in S
  PROVE  Cardinality(Upto(S, i)) \in 1..Cardinality(S) /\ Kth(S, Cardinality(Upto(S, i))) = i
<1> DEFINE k == Cardinality(Upto(S, i))
           j == Kth(S, k)
<1>1. Upto(S, i) \in SUBSET S /\ i \in Upto(S, i)
  BY DEF Upto
<1>2. k \in 1..Cardinality(S)
  <2>1. IsFiniteSet(Upto(S, i)) /\ k \in Nat /\ k <= Cardinality(S) /\ Cardinality(S) \in Nat
    BY <1>1, SmallerPart
  <2>2. k # 0
    BY <1>1, <2>1, FS_EmptySet
  <2> QED
    BY <2>1, <2>2
<1>3. j \in S /\ Cardinality(Upto(S, j)) = k
  BY <1>2, RankSplits
<1> HIDE DEF j
<1>4. ~(j < i) /\ ~(i < j)
  <2>1. ASSUME j < i PROVE FALSE
    <3>1. Cardinality(Upto(S, j)) < k
      BY <1>3, <2>1, RanksRise
    <3> QED
      BY <1>2, <1>3, <3>1
  <2>2. ASSUME i < j PROVE FALSE
    <3>1. k < Cardinality(Upto(S, j))
      BY <1>3, <2>2, RanksRise
    <3> QED
      BY <1>2, <1>3, <3>1
  <2> QED
    BY <2>1, <2>2
<1>5. j = i
  BY <1>3, <1>4
<1> QED
  BY <1>2, <1>5 DEF j

\* What is picked are the elements at the positions, in their order, each once.
LEMMA PickIs ==
  ASSUME NEW T, NEW s \in Seq(T), NEW at \in SUBSET DOMAIN s
  PROVE  /\ Pick(s, at) \in Seq(T) /\ Len(Pick(s, at)) = Cardinality(at)
         /\ \A k \in DOMAIN Pick(s, at) : Kth(at, k) \in at /\ Pick(s, at)[k] = s[Kth(at, k)]
         /\ \A k, l \in DOMAIN Pick(s, at) : k # l => Kth(at, k) # Kth(at, l)
         /\ \A i \in at : \E k \in DOMAIN Pick(s, at) : Kth(at, k) = i
         /\ (Pick(s, at) = <<>> <=> at = {})
<1>1. DOMAIN s = 1..Len(s) /\ Len(s) \in Nat /\ DOMAIN s \subseteq Int
  BY LenProperties
<1>2. IsFiniteSet(at) /\ Cardinality(at) \in Nat /\ at \in SUBSET Int
  <2>1. IsFiniteSet(1..Len(s)) /\ at \in SUBSET (1..Len(s))
    BY <1>1, FS_Interval
  <2> QED
    BY <1>1, <2>1, SmallerPart
<1>3. \A k \in 1..Cardinality(at) : Kth(at, k) \in at
  BY <1>2, RankSplits
<1>4. \A k \in 1..Cardinality(at) : s[Kth(at, k)] \in T
  BY <1>3, ElementOfSeq, <1>1
<1>5. Pick(s, at) \in Seq(T) /\ Len(Pick(s, at)) = Cardinality(at) /\ DOMAIN Pick(s, at) = 1..Cardinality(at)
  BY <1>2, <1>4, IsASeq, LenProperties DEF Pick
<1>6. \A k \in DOMAIN Pick(s, at) : Pick(s, at)[k] = s[Kth(at, k)]
  BY <1>5 DEF Pick
<1>7. \A k, l \in 1..Cardinality(at) : k < l => Kth(at, k) < Kth(at, l)
  BY <1>2, KthRises
<1>8. \A k, l \in 1..Cardinality(at) : k # l => Kth(at, k) # Kth(at, l)
  <2> SUFFICES ASSUME NEW k \in 1..Cardinality(at), NEW l \in 1..Cardinality(at), k # l PROVE Kth(at, k) # Kth(at, l)
    OBVIOUS
  <2>1. Kth(at, k) \in Int /\ Kth(at, l) \in Int /\ (k < l \/ l < k)
    BY <1>2, <1>3
  <2> QED
    BY <2>1, <1>7
<1>9. \A i \in at : \E k \in 1..Cardinality(at) : Kth(at, k) = i
  BY <1>2, RankOf
<1>10. Pick(s, at) = <<>> <=> at = {}
  <2>1. Cardinality(at) = 0 <=> at = {}
    BY <1>2, FS_EmptySet
  <2>2. Pick(s, at) = <<>> <=> Len(Pick(s, at)) = 0
    BY <1>5, EmptySeq
  <2> QED
    BY <1>5, <2>1, <2>2
<1> QED
  BY <1>3, <1>5, <1>6, <1>8, <1>9, <1>10

(* The detail pages (tunnel-detail-page.ts, entrypoint-detail-page.ts).    *)

AllClasses == TunnelClasses \union EntrypointClasses
\* The classes whose form, with what an edit carries along and the daemon keeps, covers all
\* their options.  The others lose keepalive and ttl with a save.
WholeForms ==
  {Class("tunnel", type) : type \in {"file", "http", "tcp", "p2p", "tun"}}
    \union {Class("entrypoint", type) : type \in {"tcp", "tun"}}

Values(k) == [Options(k) -> Nat]
ToldValues(k) == {opts \in Values(k) : "password" \in Options(k) => opts["password"] = 0}
RowState(k) == [id : Ids, running : BOOLEAN, opts : ToldValues(k)]
ItemState(k) == [there : {"yes", "gone", "unborn"}, running : BOOLEAN, opts : Values(k)]
PageState(k) ==
  [at : {"home", "types", "detail", "away"}, id : Ids \union {0}, url : BOOLEAN, mode : {"view", "edit", "create"},
   cur : [has : BOOLEAN, opts : ToldValues(k)], form : [FormFields(k) -> Nat], typed : SUBSET TypedFields,
   saving : BOOLEAN, dialog : {"none", "delete", "reset"}]

\* What was not typed is what the page was filled with.
Filled(p) == \A f \in DOMAIN p.form : f \notin p.typed => p.form[f] = p.cur.opts[f]
\* Only a page without an item makes one, and only an item that is there is edited.
PageSound(p) ==
  IF p.at = "detail" THEN (p.id = 0 <=> p.mode = "create") /\ (p.mode = "edit" => p.cur.has) ELSE p.mode = "view"
PageOK(k, p) == p \in PageState(k) /\ Filled(p) /\ PageSound(p)

\* What the body of an update does to any configuration the daemon may have by then.
KeepsUntyped(k, c) ==
  \A opts \in Values(k) : \A f \in Options(k) \ c.typed :
    f = "password" \/ c.base[f] = opts[f] => Replaced(k, opts, c.body)[f] = opts[f]

LEMMA FieldsAreOptions ==
  ASSUME NEW k \in AllClasses
  PROVE  FormFields(k) \subseteq Options(k) /\ DOMAIN k = {"kind", "type"}
<1>1. CASE k \in TunnelClasses
  BY <1>1 DEF TunnelClasses, Class, FormFields, TunnelFields, Options
<1>2. CASE k \in EntrypointClasses
  <2>1. PICK type \in {"tcp", "udp", "p2p", "tun"} : k = [kind |-> "entrypoint", type |-> type]
    BY <1>2 DEF EntrypointClasses, Class
  <2>2. EntrypointForm(type) \subseteq EntrypointOptions(type)
    BY <2>1 DEF EntrypointForm, EntrypointOptions, When, DeviceFields
  <2> QED
    BY <2>1, <2>2 DEF FormFields, EntrypointFields, Options
<1> QED
  BY <1>1, <1>2 DEF AllClasses

LEMMA WholeFormsCover ==
  ASSUME NEW k \in WholeForms, NEW f \in Options(k)
  PROVE  \/ f \in FormFields(k) /\ ~(k.kind = "entrypoint" /\ k.type = "p2p")
         \/ f \in Kept(k)
         \/ f = "peers" /\ k.kind = "tunnel" /\ IsP2P(k)
<1>1. ASSUME NEW type \in {"file", "http", "tcp", "p2p", "tun"}, k = [kind |-> "tunnel", type |-> type]
      PROVE  f \in FormFields(k) \/ f \in Kept(k) \/ (f = "peers" /\ IsP2P(k))
  <2>1. f \in TunnelOptions(type) /\ FormFields(k) = TunnelFields(type) /\ Kept(k) = KeptByTunnel /\ (IsP2P(k) <=> type \in {"p2p", "tun"})
    BY <1>1 DEF Options, FormFields, Kept, IsP2P
  <2>2. f \in TunnelFields(type) \/ f \in KeptByTunnel \/ (f = "peers" /\ type \in {"p2p", "tun"})
    BY <2>1 DEF TunnelOptions, TunnelFields, TunnelForm, When, DeviceFields, KeptByTunnel
  <2> QED
    BY <2>1, <2>2
<1>2. ASSUME NEW type \in {"tcp", "tun"}, k = [kind |-> "entrypoint", type |-> type]
      PROVE  f \in FormFields(k) \/ f \in Kept(k)
  <2>1. f \in EntrypointOptions(type) /\ FormFields(k) = EntrypointForm(type) /\ Kept(k) = KeptByEntrypoint
    BY <1>2 DEF Options, FormFields, Kept, EntrypointFields
  <2>2. f \in EntrypointForm(type) \/ f \in KeptByEntrypoint
    BY <2>1 DEF EntrypointOptions, EntrypointForm, When, DeviceFields, KeptByEntrypoint
  <2> QED
    BY <2>1, <2>2
<1> QED
  BY <1>1, <1>2 DEF WholeForms, Class

\* The body of an edit, applied by the daemon, changes nothing that was not typed, if nobody
\* else did.
LEMMA BodyKeepsUntyped ==
  ASSUME NEW k \in WholeForms, NEW p \in PageState(k), Filled(p), NEW editing \in BOOLEAN,
         editing \/ k.kind = "entrypoint", NEW opts \in Values(k), NEW f \in Options(k) \ p.typed,
         f = "password" \/ p.cur.opts[f] = opts[f]
  PROVE  Replaced(k, opts, Body(k, p.form, p.cur.opts, editing))[f] = opts[f]
<1> DEFINE cur == p.cur.opts
           body == Body(k, p.form, cur, editing)
<1>1. /\ cur \in Values(k) /\ ("password" \in Options(k) => cur["password"] = 0)
      /\ p.form \in [FormFields(k) -> Nat] /\ (f \in FormFields(k) => p.form[f] = cur[f])
  BY DEF PageState, ToldValues, Filled
<1>2. Replaced(k, opts, body)[f] = IF f \in DOMAIN body THEN body[f] ELSE IF f \in Kept(k) THEN opts[f] ELSE 0
  BY DEF Replaced
<1>3. k \in AllClasses
  BY DEF WholeForms, AllClasses, TunnelClasses, EntrypointClasses
<1>4. FormFields(k) \subseteq Options(k)
  BY <1>3, FieldsAreOptions
<1>5. f \in DOMAIN body => body[f] = cur[f] /\ (body[f] # 0 \/ f = "direct")
  <2>1. CASE k.kind = "tunnel"
    BY <1>1, <2>1 DEF Body, TunnelBody, Mentioned
  <2>2. CASE k.kind # "tunnel"
    BY <1>1, <2>2 DEF Body, EntrypointBody, Mentioned
  <2> QED
    BY <2>1, <2>2
<1>6. f \notin DOMAIN body /\ f \notin Kept(k) => cur[f] = 0
  <2> SUFFICES ASSUME f \notin DOMAIN body, f \notin Kept(k), cur[f] # 0 PROVE FALSE
    OBVIOUS
  <2>1. \/ f \in FormFields(k) /\ ~(k.kind = "entrypoint" /\ k.type = "p2p")
        \/ f = "peers" /\ k.kind = "tunnel" /\ IsP2P(k)
    BY WholeFormsCover
  <2>2. CASE k.kind = "tunnel"
    <3>1. DOMAIN body = Mentioned(DOMAIN p.form \union Carried(k, editing),
                                  [g \in Options(k) |-> IF g \in DOMAIN p.form THEN p.form[g] ELSE cur[g]])
      BY <2>2 DEF Body, TunnelBody
    <3>2. f \in DOMAIN p.form \union Carried(k, editing)
      BY <1>1, <2>1, <2>2 DEF Carried, When
    <3> QED
      BY <1>1, <3>1, <3>2 DEF Mentioned
  <2>3. CASE k.kind # "tunnel"
    <3>1. k.kind = "entrypoint" /\ k.type # "p2p" /\ f \in FormFields(k)
      BY <2>1, <2>3 DEF WholeForms, Class
    <3>2. body = [g \in Mentioned(DOMAIN p.form \ {}, p.form) |-> p.form[g]]
      BY <2>3, <3>1 DEF Body, EntrypointBody, When
    <3> QED
      BY <1>1, <3>1, <3>2 DEF Mentioned
  <2> QED
    BY <2>2, <2>3
<1>7. f = "password" => f \in Kept(k)
  BY DEF WholeForms, Class, Kept, KeptByTunnel, Options, EntrypointOptions, When, DeviceFields
<1>8. f = "password" => f \notin DOMAIN body
  BY <1>1, <1>5
<1> HIDE DEF body
<1>9. Replaced(k, opts, body)[f] = opts[f]
  <2>1. CASE f \in DOMAIN body
    BY <1>2, <1>5, <1>8, <2>1
  <2>2. CASE f \notin DOMAIN body
    BY <1>2, <1>6, <1>7, <2>2
  <2> QED
    BY <2>1, <2>2
<1> QED
  BY <1>9 DEF body


CallOps == {"config", "list", "stats", "create", "update", "remove", "start", "stop", "reset", "arm"}
Savings == {"create", "update"}
RunningRow == [id : Ids, running : BOOLEAN, opts : {<<>>}]
CallState(c) ==
  [n : {c.n}, op : CallOps, id : Ids \union {0}, next : {"none", "home", "detail", "start", "save", "saved", "poll"},
   at : {"wire", "answered", "refused", "orphan"}, mine : BOOLEAN, body : {c.body}, typed : {c.typed}, base : {c.base},
   ans : {c.ans}, elem : {c.elem}]

\* An answer is rows of the class; what a save asks for is of its own item, and an edit keeps
\* what was not typed.  A save that waits for the device of a page that was left has the page.
AnswerOK(k, c) ==
  c.at = "answered" =>
    /\ c.op = "list" => c.ans \in Seq(RowState(k))
    /\ c.op = "stats" => c.ans \in Seq(RunningRow)
    /\ c.op \in Savings => c.ans[1] \in RowState(k)
SaveOK(k, c) ==
  /\ c.op \in Savings => \A f \in DOMAIN c.body : c.body[f] \in Nat
  /\ c.op = "update" => c.id \in Ids /\ (k \in WholeForms => KeepsUntyped(k, c))
  /\ c.op = "arm" => HoldsDevice(k) /\ PageOK(k, c.elem) /\ (c.next # "start" /\ ~c.mine => c.elem.at = "detail")
CallOK(k, c) == c \in CallState(c) /\ AnswerOK(k, c) /\ SaveOK(k, c)
\* The page that waits for a save, or for the device, is the one that shows the item.
MineOK(p, c) == c.mine /\ c.op \in {"update", "arm"} => p.at = "detail" /\ (c.op = "update" => p.id # 0)

PagesInv ==
  /\ class \in AllClasses
  /\ server \in [Ids -> ItemState(class)] /\ list \in Seq(RowState(class)) /\ PageOK(class, pg)
  /\ \A c \in calls : CallOK(class, c) /\ MineOK(pg, c)


---------------------------------------------------------------------------
(* What the steps of the pages are made of.                                *)

LEMMA FindIs ==
  ASSUME NEW R, NEW l \in Seq(R), NEW id, Find(l, id) # <<>>
  PROVE  Find(l, id)[1] \in R
<1> DEFINE at == {i \in DOMAIN l : l[i].id = id}
<1>1. Find(l, id) = Pick(l, at) /\ at \in SUBSET DOMAIN l
  BY DEF Find
<1>2. Find(l, id) \in Seq(R)
  BY <1>1, PickIs
<1>3. Len(Find(l, id)) \in Nat \ {0}
  BY <1>2, EmptySeq
<1> QED
  BY <1>2, <1>3, ElementOfSeq

\* The pages a store can notify: those that are sound, and those that are about to be shown.
Loadable(k, p) ==
  /\ p \in PageState(k) /\ Filled(p)
  /\ IF p.at = "detail" THEN (p.mode = "create" => p.id = 0) /\ (p.mode = "edit" => p.cur.has) ELSE p.mode = "view"

LEMMA SoundIsLoadable ==
  ASSUME NEW k, NEW p, PageOK(k, p)
  PROVE  Loadable(k, p)
BY DEF PageOK, PageSound, Loadable

LEMMA NoItemIs ==
  ASSUME class \in AllClasses
  PROVE  /\ NoItem \in [has : BOOLEAN, opts : ToldValues(class)] /\ ResetForm(class) \in [FormFields(class) -> Nat]
         /\ \A f \in FormFields(class) : ResetForm(class)[f] = NoItem.opts[f]
<1>1. FormFields(class) \subseteq Options(class)
  BY FieldsAreOptions
<1>2. Empty(class) \in Values(class) /\ \A f \in Options(class) : Empty(class)[f] = 0
  BY DEF Empty, Values
<1>3. Empty(class) \in ToldValues(class)
  BY <1>2 DEF ToldValues
<1>4. ResetForm(class) \in [FormFields(class) -> Nat] /\ \A f \in FormFields(class) : ResetForm(class)[f] = 0
  BY DEF ResetForm
<1> QED
  BY <1>1, <1>2, <1>3, <1>4 DEF NoItem

LEMMA NewPageIs ==
  ASSUME class \in AllClasses, NEW at \in {"home", "types", "detail", "away"}, NEW id \in Ids \union {0}, NEW url \in BOOLEAN
  PROVE  Loadable(class, Page(at, id, url)) /\ Page(at, id, url).at = at /\ Page(at, id, url).id = id
<1>1. Page(at, id, url) \in PageState(class) /\ Page(at, id, url).mode = "view"
  BY NoItemIs DEF Page, PageState
<1>2. Filled(Page(at, id, url))
  BY NoItemIs DEF Page, Filled
<1> QED
  BY <1>1, <1>2 DEF Loadable, Page

\* _load: the page stays at its item, and a form that is open keeps what it holds.
LEMMA LoadIsSound ==
  ASSUME class \in AllClasses, NEW l \in Seq(RowState(class)), NEW p, Loadable(class, p)
  PROVE  /\ PageOK(class, Load(p, l)) /\ Load(p, l).at = p.at /\ Load(p, l).id = p.id
         /\ p.at = "detail" /\ p.mode # "view" /\ PageSound(p) => Load(p, l) = p
<1>0. p \in PageState(class) /\ Filled(p)
  BY DEF Loadable
<1>1. CASE p.at # "detail"
  BY <1>1 DEF Loadable, PageOK, PageSound, Load
<1>2. CASE p.at = "detail" /\ p.id = 0
  <2> DEFINE q == [p EXCEPT !.mode = "create", !.cur = NoItem, !.form = ResetForm(class), !.typed = {}]
  <2>1. q \in PageState(class) /\ q.at = p.at /\ q.id = p.id /\ q.mode = "create"
        /\ q.form = ResetForm(class) /\ q.cur = NoItem
    BY <1>0, NoItemIs DEF PageState
  <2>2. Filled(q)
    BY <2>1, NoItemIs DEF Filled
  <2>3. Load(p, l) = IF p.mode = "create" THEN p ELSE q
    BY <1>2 DEF Load, Created
  <2> HIDE DEF q
  <2> QED
    BY <1>0, <1>2, <2>1, <2>2, <2>3 DEF PageOK, PageSound
<1>3. CASE p.at = "detail" /\ p.id # 0 /\ (UnderEdit(p) \/ Find(l, p.id) = <<>>)
  BY <1>0, <1>3 DEF Load, PageOK, PageSound, Loadable
<1>4. CASE p.at = "detail" /\ p.id # 0 /\ ~UnderEdit(p) /\ Find(l, p.id) # <<>>
  <2> DEFINE row == Find(l, p.id)[1]
             cur == [has |-> TRUE, opts |-> row.opts]
             form == PopulateForm(class, row.opts)
             mode == IF p.url THEN "edit" ELSE "view"
             q == [p EXCEPT !.mode = mode, !.cur = cur, !.form = form, !.typed = {}]
  <2>1. row \in RowState(class)
    BY <1>4, FindIs
  <2>2. cur \in [has : BOOLEAN, opts : ToldValues(class)] /\ cur.has = TRUE /\ cur.opts = row.opts
    BY <2>1 DEF RowState
  <2>3. FormFields(class) \subseteq Options(class)
    BY FieldsAreOptions
  <2>4. form \in [FormFields(class) -> Nat] /\ \A f \in FormFields(class) : form[f] = row.opts[f]
    BY <2>1, <2>3 DEF PopulateForm, RowState, ToldValues, Values
  <2>5. mode \in {"view", "edit"}
    OBVIOUS
  <2>6. Load(p, l) = q
    BY <1>4 DEF Load, Shows
  <2> HIDE DEF row, cur, form, mode
  <2>7. q \in PageState(class) /\ q.at = p.at /\ q.id = p.id /\ q.mode = mode /\ q.form = form /\ q.cur = cur
    BY <1>0, <2>2, <2>4, <2>5 DEF PageState
  <2> HIDE DEF q
  <2>8. Filled(q)
    BY <2>2, <2>4, <2>7 DEF Filled
  <2>9. ~(p.mode # "view" /\ PageSound(p))
    BY <1>0, <1>4 DEF PageState, PageSound, UnderEdit
  <2> QED
    BY <1>4, <2>2, <2>5, <2>6, <2>7, <2>8, <2>9 DEF PageOK, PageSound
<1> QED
  BY <1>1, <1>2, <1>3, <1>4


Nexts == {"none", "home", "detail", "start", "save", "saved", "poll"}
Ats == {"home", "types", "detail", "away"}

LEMMA RawCall ==
  ASSUME NEW op \in CallOps, NEW id \in Ids \union {0}, NEW next \in Nexts
  PROVE  /\ Call(op, id, next) \in CallState(Call(op, id, next))
         /\ Call(op, id, next).op = op /\ Call(op, id, next).id = id /\ Call(op, id, next).next = next
         /\ Call(op, id, next).at = "wire" /\ ~Call(op, id, next).mine /\ Call(op, id, next).elem = NoPage
<1> DEFINE n == Fresh(calls)
           c == Call(op, id, next)
<1>1. c = [n |-> n, op |-> op, id |-> id, next |-> next, at |-> "wire", mine |-> FALSE, body |-> <<>>,
           typed |-> {}, base |-> <<>>, ans |-> <<>>, elem |-> NoPage]
  BY DEF Call
<1> HIDE DEF c, n
<1>2. c \in CallState(c)
  BY <1>1 DEF CallState, Nexts
<1> QED
  BY <1>1, <1>2 DEF c

\* Requests that store nothing.
LEMMA PlainCall ==
  ASSUME NEW op \in CallOps \ (Savings \union {"arm"}), NEW id \in Ids \union {0}, NEW next \in Nexts
  PROVE  CallOK(class, Call(op, id, next)) /\ ~Call(op, id, next).mine
<1> DEFINE c == Call(op, id, next)
<1>1. c \in CallState(c) /\ c.op = op /\ c.at = "wire" /\ ~c.mine
  BY RawCall
<1> HIDE DEF c
<1>2. CallOK(class, c)
  BY <1>1 DEF CallOK, AnswerOK, SaveOK, Savings
<1> QED
  BY <1>1, <1>2 DEF c

LEMMA ListCallIs ==
  ASSUME NEW next \in Nexts, NEW mine \in BOOLEAN
  PROVE  CallOK(class, ListCall(next, mine)) /\ ListCall(next, mine).op = "list"
<1> DEFINE c == Call("list", 0, next)
           d == [c EXCEPT !.mine = mine]
<1>0. "list" \in CallOps /\ 0 \in Ids \union {0}
  BY DEF CallOps
<1>1. c \in CallState(c) /\ c.op = "list" /\ c.at = "wire"
  BY <1>0, RawCall
<1>2. ListCall(next, mine) = d
  BY DEF ListCall
<1> HIDE DEF c
<1>3. d \in CallState(d) /\ d.op = "list" /\ d.at = "wire"
  BY <1>1 DEF CallState
<1> HIDE DEF d
<1>4. CallOK(class, d)
  BY <1>3 DEF CallOK, AnswerOK, SaveOK, Savings
<1> QED
  BY <1>2, <1>3, <1>4

LEMMA NoPageIs ==
  ASSUME class \in AllClasses
  PROVE  PageOK(class, NoPage)
<1>0. "away" \in {"home", "types", "detail", "away"} /\ 0 \in Ids \union {0} /\ FALSE \in BOOLEAN
  OBVIOUS
<1>1. Loadable(class, NoPage) /\ NoPage.at = "away"
  BY <1>0, NewPageIs DEF NoPage
<1> QED
  BY <1>1 DEF Loadable, PageOK, PageSound

\* armVpn: what waits for the device of a page that is there.
LEMMA ArmCall ==
  ASSUME class \in AllClasses, HoldsDevice(class), NEW id \in Ids \union {0}, NEW next \in {"start", "save"}
  PROVE  LET c == [Call("arm", id, next) EXCEPT !.mine = next = "save"]
         IN  CallOK(class, c) /\ (c.mine => next = "save") /\ c.op = "arm"
<1> DEFINE b == Call("arm", id, next)
           saves == next = "save"
           c == [b EXCEPT !.mine = saves]
<1>0. "arm" \in CallOps /\ next \in Nexts
  BY DEF CallOps, Nexts
<1>1. b \in CallState(b) /\ b.op = "arm" /\ b.next = next /\ b.at = "wire" /\ b.elem = NoPage
  BY <1>0, RawCall
<1>2. saves \in BOOLEAN
  OBVIOUS
<1> HIDE DEF b, saves
<1>3. c \in CallState(c) /\ c.op = "arm" /\ c.next = next /\ c.at = "wire" /\ c.elem = NoPage /\ c.mine = saves
  BY <1>1, <1>2 DEF CallState
<1>4. PageOK(class, NoPage)
  BY NoPageIs
<1> HIDE DEF c
<1>5. CallOK(class, c)
  BY <1>3, <1>4 DEF CallOK, AnswerOK, SaveOK, Savings, saves
<1> QED
  BY <1>3, <1>5 DEF b, c, saves

\* The requests of a page that is left, or of which only the form goes on.
LEMMA DetachedIs ==
  ASSUME class \in AllClasses, PageOK(class, pg), NEW cs, \A c \in cs : CallOK(class, c) /\ MineOK(pg, c)
  PROVE  \A d \in Detached(cs) : CallOK(class, d) /\ ~d.mine
<1> SUFFICES ASSUME NEW c \in cs
             PROVE  LET d == IF c.mine THEN [c EXCEPT !.mine = FALSE, !.elem = IF c.op = "arm" THEN pg ELSE @] ELSE c
                    IN  CallOK(class, d) /\ ~d.mine
  BY DEF Detached
<1>1. c \in CallState(c) /\ AnswerOK(class, c) /\ SaveOK(class, c) /\ MineOK(pg, c)
  BY DEF CallOK
<1>2. CASE ~c.mine
  BY <1>1, <1>2 DEF CallOK, CallState
<1>3. CASE c.mine
  <2> DEFINE elem == IF c.op = "arm" THEN pg ELSE c.elem
             d == [c EXCEPT !.mine = FALSE, !.elem = elem]
  <2>1. elem = IF c.op = "arm" THEN pg ELSE c.elem
    OBVIOUS
  <2> HIDE DEF elem
  <2>2. /\ d \in CallState(d) /\ ~d.mine /\ d.elem = elem
        /\ d.op = c.op /\ d.at = c.at /\ d.ans = c.ans /\ d.body = c.body /\ d.typed = c.typed /\ d.base = c.base
        /\ d.id = c.id /\ d.next = c.next
    BY <1>1 DEF CallState
  <2> HIDE DEF d
  <2>3. AnswerOK(class, d)
    BY <1>1, <2>2 DEF AnswerOK
  <2>4. SaveOK(class, d)
    <3>1. d.op \in Savings => \A f \in DOMAIN d.body : d.body[f] \in Nat
      BY <1>1, <2>2 DEF SaveOK
    <3>2. d.op = "update" => d.id \in Ids /\ (class \in WholeForms => KeepsUntyped(class, d))
      BY <1>1, <2>2 DEF SaveOK, KeepsUntyped
    <3>3. d.op = "arm" => HoldsDevice(class) /\ PageOK(class, d.elem) /\ d.elem.at = "detail"
      BY <1>1, <1>3, <2>1, <2>2 DEF SaveOK, MineOK
    <3> QED
      BY <3>1, <3>2, <3>3 DEF SaveOK
  <2>5. CallOK(class, d) /\ ~d.mine
    BY <2>2, <2>3, <2>4 DEF CallOK
  <2> QED
    BY <1>3, <2>5 DEF d, elem
<1> QED
  BY <1>2, <1>3


---------------------------------------------------------------------------
(* What the daemon tells.                                                  *)

LEMMA ToldIs ==
  ASSUME NEW k, NEW opts \in Values(k)
  PROVE  Told(opts) \in ToldValues(k)
BY DEF Told, Values, ToldValues

LEMMA RowIsOfClass ==
  ASSUME class' = class, server' \in [Ids -> ItemState(class)], NEW id \in Ids
  PROVE  Row(id)' \in RowState(class)
<1>1. server'[id] \in ItemState(class)
  OBVIOUS
<1>2. server'[id].running \in BOOLEAN /\ server'[id].opts \in Values(class)
  BY <1>1 DEF ItemState
<1>3. Told(server'[id].opts) \in ToldValues(class)
  BY <1>2, ToldIs
<1>4. Row(id)' = [id |-> id, running |-> server'[id].running, opts |-> Told(server'[id].opts)]
  BY DEF Row
<1> QED
  BY <1>2, <1>3, <1>4 DEF RowState

LEMMA ListingIs ==
  ASSUME class' = class, server' \in [Ids -> ItemState(class)]
  PROVE  /\ Listing' \in Seq(RowState(class))
         /\ [i \in DOMAIN Listing' |-> [Listing'[i] EXCEPT !.opts = <<>>]] \in Seq(RunningRow)
<1> DEFINE there == {id \in Ids : server'[id].there = "yes"}
           ids == Pick(<<1, 2>>, there)
           row == [id \in Ids |-> [id |-> id, running |-> server'[id].running, opts |-> Told(server'[id].opts)]]
           l == [i \in DOMAIN ids |-> row[ids[i]]]
<1>1. <<1, 2>> \in Seq(Ids) /\ there \in SUBSET DOMAIN <<1, 2>>
  BY DEF Ids
<1>2. Listing' = [i \in DOMAIN ids |-> [id |-> ids[i], running |-> server'[ids[i]].running,
                                      opts |-> Told(server'[ids[i]].opts)]]
  BY DEF Listing, Row
<1>a. \A id \in Ids : row[id] \in RowState(class)
  BY RowIsOfClass DEF Row
<1> HIDE DEF there
<1>3. ids \in Seq(Ids)
  BY <1>1, PickIs
<1> HIDE DEF ids
<1>4. DOMAIN ids = 1..Len(ids) /\ Len(ids) \in Nat /\ \A i \in 1..Len(ids) : ids[i] \in Ids
  BY <1>3, LenProperties, ElementOfSeq
<1>5. \A i \in 1..Len(ids) : row[ids[i]] \in RowState(class)
  BY <1>4, <1>a
<1>b. Listing' = l
  BY <1>2, <1>4
<1> HIDE DEF row
<1>6. l \in Seq(RowState(class)) /\ DOMAIN l = DOMAIN ids
  BY <1>4, <1>5, IsASeq
<1>7. \A i \in 1..Len(ids) : l[i] \in RowState(class)
  BY <1>4, <1>5
<1> HIDE DEF l
<1>8. ASSUME NEW r \in RowState(class) PROVE [r EXCEPT !.opts = <<>>] \in RunningRow
  BY DEF RowState, RunningRow
<1>9. [i \in 1..Len(ids) |-> [l[i] EXCEPT !.opts = <<>>]] \in Seq(RunningRow)
  BY <1>4, <1>7, <1>8, IsASeq
<1> QED
  BY <1>b, <1>4, <1>6, <1>9

LEMMA ReplacedIs ==
  ASSUME NEW k, NEW opts \in Values(k), NEW body, \A f \in DOMAIN body : body[f] \in Nat
  PROVE  Replaced(k, opts, body) \in Values(k)
BY DEF Replaced, Values

LEMMA DoneIs ==
  ASSUME PagesInv, NEW c \in calls, c.op \notin {"config", "arm"}, NEW up \in BOOLEAN
  PROVE  Done(c, up) \in [Ids -> ItemState(class)]
<1>1. /\ server \in [Ids -> ItemState(class)] /\ c.op \in CallOps
      /\ c.op \in Savings => \A f \in DOMAIN c.body : c.body[f] \in Nat
  BY DEF PagesInv, CallOK, CallState, SaveOK
<1>2. CASE c.op \in {"list", "stats", "reset"}
  BY <1>1, <1>2 DEF Done
<1>3. CASE c.op = "create"
  <2> DEFINE opts == Replaced(class, Empty(class), c.body)
  <2>1. Empty(class) \in Values(class)
    BY DEF Empty, Values
  <2>2. opts \in Values(class)
    BY <1>1, <1>3, <2>1, ReplacedIs DEF Savings
  <2> HIDE DEF opts
  <2>3. Item("yes", up, opts) \in ItemState(class)
    BY <2>2 DEF Item, ItemState
  <2>4. Done(c, up) = [server EXCEPT ![2] = Item("yes", up, opts)]
    BY <1>3 DEF Done, opts
  <2> QED
    BY <1>1, <2>3, <2>4
<1>4. CASE c.op = "update"
  <2> DEFINE id == c.id
             opts == Replaced(class, server[id].opts, c.body)
             item == [server[id] EXCEPT !.opts = opts, !.running = up]
  <2>1. id \in Ids /\ server[id] \in ItemState(class)
    BY <1>1, <1>4 DEF PagesInv, CallOK, SaveOK
  <2>2. opts \in Values(class)
    BY <1>1, <1>4, <2>1, ReplacedIs DEF Savings, ItemState
  <2> HIDE DEF opts
  <2>3. item \in ItemState(class)
    BY <2>1, <2>2 DEF ItemState
  <2>4. Done(c, up) = [server EXCEPT ![id].opts = opts, ![id].running = up]
    BY <1>4 DEF Done, opts
  <2>5. Done(c, up) = [server EXCEPT ![id] = item]
    BY <1>1, <2>1, <2>4
  <2> HIDE DEF item
  <2> QED
    BY <1>1, <2>1, <2>3, <2>5
<1>5. CASE c.op \in {"remove", "start", "stop"}
  BY <1>1, <1>5 DEF Done, ItemState
<1> QED
  BY <1>1, <1>2, <1>3, <1>4, <1>5 DEF CallOps


---------------------------------------------------------------------------
(* The steps of the requests.                                              *)

Kept2(p, q) == q.at = p.at /\ q.id = p.id

LEMMA DialogIsSound ==
  ASSUME NEW k, NEW p, PageOK(k, p), NEW dialog \in {"none", "delete", "reset"}
  PROVE  PageOK(k, [p EXCEPT !.dialog = dialog]) /\ Kept2(p, [p EXCEPT !.dialog = dialog])
<1> DEFINE q == [p EXCEPT !.dialog = dialog]
<1>1. p \in PageState(k) /\ Filled(p) /\ PageSound(p)
  BY DEF PageOK
<1>2. /\ q \in PageState(k) /\ q.at = p.at /\ q.id = p.id /\ q.mode = p.mode /\ q.cur = p.cur
      /\ q.form = p.form /\ q.typed = p.typed
  BY <1>1 DEF PageState
<1> HIDE DEF q
<1>3. PageOK(k, q) /\ Kept2(p, q)
  BY <1>1, <1>2 DEF Filled, PageSound, PageOK, Kept2
<1> QED
  BY <1>3 DEF q

LEMMA SavingIsSound ==
  ASSUME NEW k, NEW p, PageOK(k, p), NEW q, q \in {[p EXCEPT !.saving = TRUE], [p EXCEPT !.saving = FALSE]}
  PROVE  PageOK(k, q) /\ Kept2(p, q)
<1>1. p \in PageState(k) /\ Filled(p) /\ PageSound(p)
  BY DEF PageOK
<1>2. /\ q \in PageState(k) /\ q.at = p.at /\ q.id = p.id /\ q.mode = p.mode /\ q.cur = p.cur
      /\ q.form = p.form /\ q.typed = p.typed
  BY <1>1 DEF PageState
<1> QED
  BY <1>1, <1>2 DEF Filled, PageSound, PageOK, Kept2

\* The page that waits is still there, where it was.
LEMMA WaitsOn ==
  ASSUME NEW p, NEW q, NEW c, MineOK(p, c), Kept2(p, q)
  PROVE  MineOK(q, c)
BY DEF MineOK, Kept2

LEMMA PagesKept ==
  ASSUME PagesInv, class' = class, server' \in [Ids -> ItemState(class)], list' \in Seq(RowState(class)),
         PageOK(class, pg'), \A c \in calls' : CallOK(class, c) /\ MineOK(pg', c)
  PROVE  PagesInv'
BY DEF PagesInv

\* A step that leaves the page where it is, and adds at most a request that no page waits for.
LEMMA PageStays ==
  ASSUME PagesInv, class' = class, server' \in [Ids -> ItemState(class)], list' \in Seq(RowState(class)),
         PageOK(class, pg'), Kept2(pg, pg'),
         \A c \in calls' : c \in calls \/ (CallOK(class, c) /\ (c.mine => c.op \notin {"update", "arm"} \/ MineOK(pg, c)))
  PROVE  PagesInv'
<1> SUFFICES ASSUME NEW c \in calls' PROVE CallOK(class, c) /\ MineOK(pg', c)
  BY PagesKept
<1>1. CallOK(class, c) /\ MineOK(pg, c)
  BY DEF PagesInv, MineOK
<1> QED
  BY <1>1, WaitsOn

LEMMA LoadStays ==
  ASSUME PagesInv, NEW l \in Seq(RowState(class)), NEW p, PageOK(class, p), Kept2(pg, p)
  PROVE  PageOK(class, Load(p, l)) /\ Kept2(pg, Load(p, l))
<1>1. class \in AllClasses /\ Loadable(class, p)
  BY SoundIsLoadable DEF PagesInv
<1> QED
  BY <1>1, LoadIsSound DEF Kept2

LEMMA RefreshStays ==
  ASSUME PagesInv, UNCHANGED <<class, server>>, NEW cs \in SUBSET calls, NEW l \in Seq(RowState(class)),
         NEW p, PageOK(class, p), Kept2(pg, p), NEW next \in Nexts, NEW mine \in BOOLEAN,
         Refresh(cs, p, l, next, mine)
  PROVE  PagesInv'
<1>1. list' = l /\ pg' = Load(p, l) /\ calls' = cs \union {ListCall(next, mine)}
  BY DEF Refresh, Send
<1>2. PageOK(class, pg') /\ Kept2(pg, pg')
  BY <1>1, LoadStays
<1>3. CallOK(class, ListCall(next, mine)) /\ ListCall(next, mine).op = "list"
  BY ListCallIs
<1>4. \A c \in calls' : c \in calls \/ (CallOK(class, c) /\ (c.mine => c.op \notin {"update", "arm"} \/ MineOK(pg, c)))
  BY <1>1, <1>3
<1> QED
  BY <1>1, <1>2, <1>4, PageStays DEF PagesInv

LEMMA NavigateIsSound ==
  ASSUME PagesInv, UNCHANGED <<class, server>>, list' \in Seq(RowState(class)), NEW cs \in SUBSET calls,
         NEW at \in {"home", "types", "detail", "away"}, NEW id \in Ids \union {0}, NEW url \in BOOLEAN, Navigate(cs, at, id, url)
  PROVE  PagesInv'
<1>1. calls' = Detached(cs) /\ pg' = Load(Page(at, id, url), list')
  BY DEF Navigate
<1>2. class \in AllClasses /\ PageOK(class, pg) /\ \A c \in cs : CallOK(class, c) /\ MineOK(pg, c)
  BY DEF PagesInv
<1>3. Loadable(class, Page(at, id, url))
  BY <1>2, NewPageIs
<1>4. PageOK(class, pg')
  BY <1>1, <1>2, <1>3, LoadIsSound
<1>5. \A c \in calls' : CallOK(class, c) /\ ~c.mine
  BY <1>1, <1>2, DetachedIs
<1>6. \A c \in calls' : MineOK(pg', c)
  BY <1>5 DEF MineOK
<1> QED
  BY <1>4, <1>5, <1>6, PagesKept DEF PagesInv

LEMMA AnswerIs ==
  ASSUME class' = class, server' \in [Ids -> ItemState(class)], NEW c, CallOK(class, c), c.op \notin {"config", "arm"}
  PROVE  LET d == [c EXCEPT !.at = "answered", !.ans = Answer(c)]
         IN  CallOK(class, d) /\ d.mine = c.mine /\ d.op = c.op
<1> DEFINE ans == Answer(c)
           d == [c EXCEPT !.at = "answered", !.ans = ans]
<1>1. c.op = "list" => ans \in Seq(RowState(class))
  BY ListingIs DEF Answer
<1>2. c.op = "stats" => ans \in Seq(RunningRow)
  BY ListingIs DEF Answer
<1>3. c.op = "create" => ans[1] \in RowState(class)
  <2> HAVE c.op = "create"
  <2>1. 2 \in Ids
    BY DEF Ids
  <2>2. Row(2)' \in RowState(class)
    BY <2>1, RowIsOfClass
  <2>3. ans = <<Row(2)'>>
    BY DEF Answer
  <2> QED
    BY <2>2, <2>3
<1>4. c.op = "update" => ans[1] \in RowState(class)
  <2> HAVE c.op = "update"
  <2>1. c.id \in Ids
    BY DEF CallOK, SaveOK
  <2>2. Row(c.id)' \in RowState(class)
    BY <2>1, RowIsOfClass
  <2>3. ans = <<Row(c.id)'>>
    BY DEF Answer
  <2> QED
    BY <2>2, <2>3
<1> HIDE DEF ans
<1>5. /\ d \in CallState(d) /\ d.mine = c.mine /\ d.at = "answered" /\ d.ans = ans
      /\ d.op = c.op /\ d.body = c.body /\ d.typed = c.typed /\ d.base = c.base /\ d.id = c.id
      /\ d.next = c.next /\ d.elem = c.elem
  BY DEF CallOK, CallState
<1> HIDE DEF d
<1>6. AnswerOK(class, d)
  BY <1>1, <1>2, <1>3, <1>4, <1>5 DEF AnswerOK, Savings
<1>7. SaveOK(class, c)
  BY DEF CallOK
<1>8. d.op = "update" => d.id \in Ids /\ (class \in WholeForms => KeepsUntyped(class, d))
  BY <1>5, <1>7 DEF SaveOK, KeepsUntyped
<1>9. SaveOK(class, d)
  BY <1>5, <1>7, <1>8 DEF SaveOK
<1>10. CallOK(class, d) /\ d.mine = c.mine /\ d.op = c.op
  BY <1>5, <1>6, <1>9 DEF CallOK
<1> QED
  BY <1>10 DEF d, ans


LEMMA InvParts ==
  ASSUME PagesInv
  PROVE  /\ class \in AllClasses /\ server \in [Ids -> ItemState(class)] /\ list \in Seq(RowState(class))
         /\ PageOK(class, pg) /\ Kept2(pg, pg)
         /\ \A c \in calls : CallOK(class, c) /\ MineOK(pg, c) /\ c.op \in CallOps /\ c.mine \in BOOLEAN /\ c.next \in Nexts /\ c.id \in Ids \union {0}
BY DEF PagesInv, Kept2, CallOK, CallState, Nexts

LEMMA ServeIsSound ==
  ASSUME PagesInv, NEW c \in calls, Serve(c)
  PROVE  PagesInv'
<1> DEFINE d == [c EXCEPT !.at = "answered", !.ans = Answer(c)]
<1>1. /\ class' = class /\ list' = list /\ pg' = pg /\ c.op \notin {"config", "arm"}
      /\ (\E up \in BOOLEAN : server' = Done(c, up)) /\ calls' \subseteq calls \union {d}
  BY DEF Serve, Outcomes
<1>2. server' \in [Ids -> ItemState(class)]
  BY <1>1, DoneIs
<1>3. CallOK(class, d) /\ d.mine = c.mine /\ d.op = c.op
  BY <1>1, <1>2, InvParts, AnswerIs
<1> HIDE DEF d
<1>4. \A e \in calls' : e \in calls \/ (CallOK(class, e) /\ (e.mine => e.op \notin {"update", "arm"} \/ MineOK(pg, e)))
  <2> SUFFICES ASSUME d.mine, d.op = "update" PROVE MineOK(pg, d)
    BY <1>1, <1>3
  <2>1. pg.at = "detail" /\ pg.id # 0
    BY <1>3, InvParts DEF MineOK
  <2> QED
    BY <2>1 DEF MineOK
<1> QED
  BY <1>1, <1>2, <1>4, InvParts, PageStays

\* A save that the daemon refuses leaves the options of the item.
LEMMA RefusalIsSound ==
  ASSUME PagesInv, NEW c \in calls, ServeFails(c)
  PROVE  PagesInv'
<1> DEFINE d == [c EXCEPT !.at = "refused"]
<1>1. /\ class' = class /\ list' = list /\ pg' = pg /\ c.op = "update"
      /\ server' = [server EXCEPT ![c.id].running = FALSE] /\ calls' \subseteq calls \union {d}
  BY DEF ServeFails
<1>2. server' \in [Ids -> ItemState(class)]
  <2>1. server \in [Ids -> ItemState(class)] /\ c.id \in Ids
    BY <1>1, InvParts DEF CallOK, SaveOK
  <2> QED
    BY <1>1, <2>1 DEF ItemState
<1>3. CallOK(class, d) /\ d.mine = c.mine /\ d.op = c.op
  <2>1. CallOK(class, c)
    BY InvParts
  <2>2. /\ d \in CallState(d) /\ d.mine = c.mine /\ d.at = "refused" /\ d.op = c.op /\ d.body = c.body
        /\ d.typed = c.typed /\ d.base = c.base /\ d.id = c.id /\ d.next = c.next /\ d.elem = c.elem
    BY <2>1 DEF CallOK, CallState
  <2> HIDE DEF d
  <2>3. d.op = "update" => d.id \in Ids /\ (class \in WholeForms => KeepsUntyped(class, d))
    BY <2>1, <2>2 DEF CallOK, SaveOK, KeepsUntyped
  <2>4. SaveOK(class, d) /\ AnswerOK(class, d)
    BY <2>1, <2>2, <2>3 DEF CallOK, SaveOK, AnswerOK
  <2> QED
    BY <2>1, <2>2, <2>4 DEF CallOK
<1> HIDE DEF d
<1>4. \A e \in calls' : e \in calls \/ (CallOK(class, e) /\ (e.mine => e.op \notin {"update", "arm"} \/ MineOK(pg, e)))
  <2> SUFFICES ASSUME d.mine, d.op = "update" PROVE MineOK(pg, d)
    BY <1>1, <1>3
  <2>1. pg.at = "detail" /\ pg.id # 0
    BY <1>3, InvParts DEF MineOK
  <2> QED
    BY <2>1 DEF MineOK
<1> QED
  BY <1>1, <1>2, <1>4, InvParts, PageStays

LEMMA FetchEndsSoundly ==
  ASSUME PagesInv, NEW c \in calls, NEW l \in Seq(RowState(class)), FetchEnds(c, l, calls \ {c})
  PROVE  PagesInv'
<1> DEFINE p == Saved(pg, c.mine /\ c.next = "saved")
<1>1. /\ class' = class /\ server' = server /\ list' = l /\ pg' = Load(p, l)
      /\ calls' \subseteq calls \union {Call("stats", 0, "none")}
  BY DEF FetchEnds
<1>2. PageOK(class, p) /\ Kept2(pg, p)
  <2>1. p = pg \/ p = [pg EXCEPT !.saving = FALSE]
    BY DEF Saved
  <2> HIDE DEF p
  <2> QED
    BY <2>1, InvParts, SavingIsSound
<1> HIDE DEF p
<1>3. PageOK(class, pg') /\ Kept2(pg, pg')
  BY <1>1, <1>2, LoadStays
<1>4. "stats" \in CallOps \ (Savings \union {"arm"}) /\ 0 \in Ids \union {0} /\ "none" \in Nexts
  BY DEF CallOps, Savings, Nexts
<1>5. CallOK(class, Call("stats", 0, "none")) /\ ~Call("stats", 0, "none").mine
  BY <1>4, PlainCall
<1>6. \A e \in calls' : e \in calls \/ (CallOK(class, e) /\ (e.mine => e.op \notin {"update", "arm"} \/ MineOK(pg, e)))
  BY <1>1, <1>5
<1> QED
  BY <1>1, <1>3, <1>6, InvParts, PageStays

LEMMA ListEndsSoundly ==
  ASSUME PagesInv, NEW c \in calls, ListReturns(c) \/ ListFails(c)
  PROVE  PagesInv'
<1>1. CASE ListReturns(c)
  <2>1. c.ans \in Seq(RowState(class))
    BY <1>1, InvParts DEF ListReturns, CallOK, AnswerOK
  <2>2. FetchEnds(c, c.ans, calls \ {c})
    BY <1>1 DEF ListReturns
  <2> QED
    BY <2>1, <2>2, FetchEndsSoundly
<1>2. CASE ListFails(c)
  <2>1. FetchEnds(c, list, calls \ {c}) /\ list \in Seq(RowState(class))
    BY <1>2, InvParts DEF ListFails
  <2> QED
    BY <2>1, FetchEndsSoundly
<1> QED
  BY <1>1, <1>2

LEMMA CreateReturnsSoundly ==
  ASSUME PagesInv, NEW c \in calls, CreateReturns(c)
  PROVE  PagesInv'
<1>1. c.ans[1] \in RowState(class)
  BY InvParts DEF CreateReturns, CallOK, AnswerOK, Savings
<1>2. list' \in Seq(RowState(class))
  BY <1>1, InvParts, AppendProperties DEF CreateReturns
<1>3. UNCHANGED <<class, server>> /\ Navigate(calls \ {c}, "home", 0, FALSE) /\ calls \ {c} \in SUBSET calls
  BY DEF CreateReturns
<1>4. "home" \in {"home", "types", "detail", "away"} /\ 0 \in Ids \union {0} /\ FALSE \in BOOLEAN
  OBVIOUS
<1> QED
  BY <1>2, <1>3, <1>4, NavigateIsSound

LEMMA ReplaceIs ==
  ASSUME NEW R, NEW l \in Seq(R), NEW id, NEW row \in R
  PROVE  Replace(l, id, row) \in Seq(R)
<1>1. DOMAIN l = 1..Len(l) /\ Len(l) \in Nat /\ \A i \in 1..Len(l) : l[i] \in R
  BY LenProperties, ElementOfSeq
<1>2. \A i \in 1..Len(l) : (IF l[i].id = id THEN row ELSE l[i]) \in R
  BY <1>1
<1> QED
  BY <1>1, <1>2, IsASeq DEF Replace

LEMMA UpdateReturnsSoundly ==
  ASSUME PagesInv, NEW c \in calls, UpdateReturns(c)
  PROVE  PagesInv'
<1> DEFINE l == Replace(list, c.id, c.ans[1])
           p == Load(pg, l)
           q == Viewed(p, c.mine)
<1>1. UNCHANGED <<class, server>> /\ Refresh(calls \ {c}, q, l, "saved", c.mine) /\ c.op = "update" /\ calls \ {c} \in SUBSET calls
  BY DEF UpdateReturns
<1>2. l \in Seq(RowState(class))
  <2>1. c.ans[1] \in RowState(class)
    BY InvParts DEF UpdateReturns, CallOK, AnswerOK, Savings
  <2> QED
    BY <2>1, InvParts, ReplaceIs
<1> HIDE DEF l
<1>3. PageOK(class, p) /\ Kept2(pg, p)
  BY <1>2, InvParts, LoadStays
<1> HIDE DEF p
<1>4. PageOK(class, q) /\ Kept2(pg, q)
  <2>1. CASE ~c.mine
    BY <1>3, <2>1 DEF Viewed
  <2>2. CASE c.mine
    <3>1. p.at = "detail" /\ p.id # 0
      BY <1>1, <1>3, <2>2, InvParts DEF MineOK, Kept2
    <3>2. p \in PageState(class) /\ Filled(p) /\ q = [p EXCEPT !.mode = "view"]
      BY <1>3, <2>2 DEF PageOK, Viewed
    <3> HIDE DEF q
    <3>3. /\ q \in PageState(class) /\ q.at = p.at /\ q.id = p.id /\ q.mode = "view" /\ q.cur = p.cur
          /\ q.form = p.form /\ q.typed = p.typed
      BY <3>2 DEF PageState
    <3> QED
      BY <1>3, <3>1, <3>2, <3>3 DEF PageOK, PageSound, Filled, Kept2
  <2> QED
    BY <2>1, <2>2
<1> HIDE DEF q
<1>5. "saved" \in Nexts /\ c.mine \in BOOLEAN
  BY InvParts DEF Nexts
<1> QED
  BY <1>1, <1>2, <1>4, <1>5, RefreshStays


LEMMA RemoveReturnsSoundly ==
  ASSUME PagesInv, NEW c \in calls, RemoveReturns(c)
  PROVE  PagesInv'
<1> DEFINE at == {i \in DOMAIN list : list[i].id # c.id}
<1>1. UNCHANGED <<class, server>> /\ list' = Pick(list, at) /\ at \in SUBSET DOMAIN list
  BY DEF RemoveReturns
<1>2. list' \in Seq(RowState(class))
  BY <1>1, InvParts, PickIs
<1>3. CASE c.next = "detail"
  <2>1. Navigate(calls \ {c}, "home", 0, FALSE) /\ calls \ {c} \in SUBSET calls
    BY <1>3 DEF RemoveReturns
  <2>2. "home" \in {"home", "types", "detail", "away"} /\ 0 \in Ids \union {0} /\ FALSE \in BOOLEAN
    OBVIOUS
  <2> QED
    BY <1>1, <1>2, <2>1, <2>2, NavigateIsSound
<1>4. CASE c.next # "detail"
  <2>1. calls' \subseteq calls /\ pg' = Load(pg, list')
    BY <1>4 DEF RemoveReturns
  <2>2. PageOK(class, pg') /\ Kept2(pg, pg')
    BY <1>2, <2>1, InvParts, LoadStays
  <2> QED
    BY <1>1, <1>2, <2>1, <2>2, InvParts, PageStays
<1> QED
  BY <1>3, <1>4

LEMMA ActReturnsSoundly ==
  ASSUME PagesInv, NEW c \in calls, ActReturns(c)
  PROVE  PagesInv'
<1>1. UNCHANGED <<class, server>> /\ Refresh(calls \ {c}, pg, list, "none", FALSE) /\ calls \ {c} \in SUBSET calls
  BY DEF ActReturns
<1>2. "none" \in Nexts /\ FALSE \in BOOLEAN
  BY DEF Nexts
<1> QED
  BY <1>1, <1>2, InvParts, RefreshStays

LEMMA StatsReturnsSoundly ==
  ASSUME PagesInv, NEW c \in calls, StatsReturns(c)
  PROVE  PagesInv'
<1>1. UNCHANGED <<class, server>> /\ calls' \subseteq calls /\ pg' = Load(pg, list')
  BY DEF StatsReturns
<1>2. c.ans \in Seq(RunningRow)
  BY InvParts DEF StatsReturns, CallOK, AnswerOK
<1>3. list' = [i \in DOMAIN list |->
                 IF Find(c.ans, list[i].id) = <<>> THEN list[i]
                 ELSE [list[i] EXCEPT !.running = Find(c.ans, list[i].id)[1].running]]
  BY DEF StatsReturns
<1>4. DOMAIN list = 1..Len(list) /\ Len(list) \in Nat /\ \A i \in 1..Len(list) : list[i] \in RowState(class)
  BY InvParts, LenProperties, ElementOfSeq
<1>5. ASSUME NEW r \in RowState(class)
      PROVE  (IF Find(c.ans, r.id) = <<>> THEN r ELSE [r EXCEPT !.running = Find(c.ans, r.id)[1].running]) \in RowState(class)
  <2>1. CASE Find(c.ans, r.id) = <<>>
    BY <2>1
  <2>2. CASE Find(c.ans, r.id) # <<>>
    <3> DEFINE s == Find(c.ans, r.id)[1]
    <3>1. s \in RunningRow
      BY <1>2, <2>2, FindIs
    <3>2. s.running \in BOOLEAN
      BY <3>1 DEF RunningRow
    <3> HIDE DEF s
    <3>3. [r EXCEPT !.running = s.running] \in RowState(class)
      BY <3>2 DEF RowState
    <3> QED
      BY <2>2, <3>3 DEF s
  <2> QED
    BY <2>1, <2>2
<1>6. list' \in Seq(RowState(class))
  BY <1>3, <1>4, <1>5, IsASeq
<1>7. PageOK(class, pg') /\ Kept2(pg, pg')
  BY <1>1, <1>6, InvParts, LoadStays
<1> QED
  BY <1>1, <1>6, <1>7, InvParts, PageStays

LEMMA CallFailsSoundly ==
  ASSUME PagesInv, NEW c \in calls, CallFails(c)
  PROVE  PagesInv'
<1> DEFINE d == [c EXCEPT !.at = "orphan", !.mine = FALSE]
<1>1. /\ UNCHANGED <<class, server, list>> /\ pg' \in {pg, [pg EXCEPT !.saving = FALSE]} /\ c.op # "arm"
      /\ calls' \subseteq calls \union {d}
  BY DEF CallFails, AfterFailure, Saved
<1>2. CallOK(class, c)
  BY InvParts
<1>3. /\ d \in CallState(d) /\ ~d.mine /\ d.at = "orphan"
      /\ d.op = c.op /\ d.body = c.body /\ d.typed = c.typed /\ d.base = c.base /\ d.id = c.id
  BY <1>2 DEF CallOK, CallState
<1> HIDE DEF d
<1>4. AnswerOK(class, d)
  BY <1>3 DEF AnswerOK
<1>5. SaveOK(class, d)
  <2>1. SaveOK(class, c)
    BY <1>2 DEF CallOK
  <2>2. d.op = "update" => d.id \in Ids /\ (class \in WholeForms => KeepsUntyped(class, d))
    BY <1>3, <2>1 DEF SaveOK, KeepsUntyped
  <2> QED
    BY <1>1, <1>3, <2>1, <2>2 DEF SaveOK
<1>6. CallOK(class, d)
  BY <1>3, <1>4, <1>5 DEF CallOK
<1>7. \A e \in calls' : e \in calls \/ (CallOK(class, e) /\ (e.mine => e.op \notin {"update", "arm"} \/ MineOK(pg, e)))
  BY <1>1, <1>3, <1>6
<1>8. PageOK(class, pg') /\ Kept2(pg, pg')
  BY <1>1, InvParts, SavingIsSound
<1> QED
  BY <1>1, <1>7, <1>8, InvParts, PageStays

LEMMA ConfigLoadedSoundly ==
  ASSUME PagesInv, NEW c \in calls, ConfigLoaded(c)
  PROVE  PagesInv'
<1> DEFINE a == ListCall("none", FALSE)
           b == ListCall("poll", FALSE)
           d == [b EXCEPT !.n = 0]
<1>1. UNCHANGED <<class, server, list>> /\ pg' = Load(pg, list) /\ calls' \subseteq calls \union {a, d}
  BY DEF ConfigLoaded
<1>2. "none" \in Nexts /\ "poll" \in Nexts /\ FALSE \in BOOLEAN
  BY DEF Nexts
<1>3. CallOK(class, a) /\ a.op = "list" /\ CallOK(class, b) /\ b.op = "list"
  BY <1>2, ListCallIs
<1> HIDE DEF a, b
<1>4. d \in CallState(d) /\ d.op = "list" /\ d.at = b.at /\ d.ans = b.ans
  BY <1>3 DEF CallOK, CallState
<1> HIDE DEF d
<1>5. CallOK(class, d)
  BY <1>3, <1>4 DEF CallOK, AnswerOK, SaveOK, Savings
<1>6. \A e \in calls' : e \in calls \/ (CallOK(class, e) /\ (e.mine => e.op \notin {"update", "arm"} \/ MineOK(pg, e)))
  BY <1>1, <1>3, <1>4, <1>5
<1>7. PageOK(class, pg') /\ Kept2(pg, pg')
  BY <1>1, InvParts, LoadStays
<1> QED
  BY <1>1, <1>6, <1>7, InvParts, PageStays


---------------------------------------------------------------------------
(* The steps of the user.                                                  *)

LEMMA BodyTells ==
  ASSUME NEW k \in AllClasses, NEW p \in PageState(k), NEW editing \in BOOLEAN,
         NEW f \in DOMAIN Body(k, p.form, p.cur.opts, editing)
  PROVE  Body(k, p.form, p.cur.opts, editing)[f] \in Nat
<1>1. p.cur.opts \in [Options(k) -> Nat] /\ p.form \in [FormFields(k) -> Nat]
  BY DEF PageState, ToldValues, Values
<1>2. CASE k.kind = "tunnel"
  <2> DEFINE value == [g \in Options(k) |-> IF g \in DOMAIN p.form THEN p.form[g] ELSE p.cur.opts[g]]
             inputs == Mentioned(DOMAIN p.form \union Carried(k, editing), value)
  <2>1. \A g \in Options(k) : value[g] \in Nat
    BY <1>1
  <2>2. FormFields(k) \subseteq Options(k)
    BY FieldsAreOptions
  <2>3. Carried(k, editing) \subseteq Options(k)
    <3>1. PICK type \in {"file", "http", "tcp", "udp", "p2p", "tun"} : k = [kind |-> "tunnel", type |-> type]
      BY <1>2 DEF AllClasses, TunnelClasses, EntrypointClasses, Class
    <3>2. Options(k) = TunnelOptions(type) /\ (k = Class("tunnel", "tun") <=> type = "tun") /\ (IsP2P(k) <=> type \in {"p2p", "tun"})
      BY <3>1 DEF Options, IsP2P, Class
    <3>3. type = "tun" => {"lan_allow", "lan_routes"} \subseteq TunnelOptions(type)
      BY DEF TunnelOptions, When
    <3>4. type \in {"p2p", "tun"} => "peers" \in TunnelOptions(type)
      BY DEF TunnelOptions, When
    <3> QED
      BY <3>2, <3>3, <3>4 DEF Carried, When
  <2>4. Body(k, p.form, p.cur.opts, editing) = [g \in inputs |-> value[g]]
    BY <1>2 DEF Body, TunnelBody
  <2>5. inputs \subseteq Options(k)
    BY <1>1, <2>2, <2>3 DEF Mentioned
  <2> HIDE DEF inputs, value
  <2> QED
    BY <2>1, <2>4, <2>5
<1>3. CASE k.kind # "tunnel"
  <2> DEFINE inputs == DOMAIN p.form \ When(k.type = "p2p" /\ p.form["protocol"] # 2, {"keepalive"})
  <2>1. Body(k, p.form, p.cur.opts, editing) = [g \in Mentioned(inputs, p.form) |-> p.form[g]]
    BY <1>3 DEF Body, EntrypointBody
  <2>2. Mentioned(inputs, p.form) \subseteq DOMAIN p.form
    BY DEF Mentioned
  <2> HIDE DEF inputs
  <2> QED
    BY <1>1, <2>1, <2>2
<1> QED
  BY <1>2, <1>3

LEMMA SaveSentSoundly ==
  ASSUME PagesInv, UNCHANGED <<class, server, list>>, NEW cs \in SUBSET calls, NEW e, PageOK(class, e), e.at = "detail",
         e.mode # "view" \/ class.kind = "entrypoint", NEW mine \in BOOLEAN, mine => e = pg, SaveSent(cs, e, mine)
  PROVE  PagesInv'
<1> DEFINE editing == e.mode = "edit"
           op == IF e.mode = "create" THEN "create" ELSE "update"
           body == Body(class, e.form, e.cur.opts, editing)
           b == Call(op, e.id, "none")
           c == [b EXCEPT !.mine = mine, !.typed = e.typed, !.base = e.cur.opts, !.body = body]
<1>1. calls' = cs \union {c} /\ pg' = IF mine THEN [pg EXCEPT !.saving = TRUE] ELSE pg
  BY DEF SaveSent, Send
<1>2. class \in AllClasses /\ e \in PageState(class) /\ Filled(e) /\ PageSound(e) /\ editing \in BOOLEAN
  BY InvParts DEF PageOK
<1>3. \A f \in DOMAIN body : body[f] \in Nat
  BY <1>2, BodyTells
<1>4. op \in CallOps /\ op \in Savings /\ e.id \in Ids \union {0} /\ "none" \in Nexts /\ (op = "update" => e.id \in Ids /\ e.id # 0)
  BY <1>2 DEF CallOps, Savings, PageState, PageSound, Nexts, Ids
<1>5. \A opts \in Values(class) : \A f \in Options(class) \ e.typed :
        (f = "password" \/ e.cur.opts[f] = opts[f]) /\ class \in WholeForms /\ op = "update"
          => Replaced(class, opts, body)[f] = opts[f]
  <2> SUFFICES ASSUME NEW opts \in Values(class), NEW f \in Options(class) \ e.typed,
                      f = "password" \/ e.cur.opts[f] = opts[f], class \in WholeForms, op = "update"
               PROVE  Replaced(class, opts, body)[f] = opts[f]
    OBVIOUS
  <2>1. editing \/ class.kind = "entrypoint"
    BY <1>2 DEF PageState
  <2> QED
    BY <1>2, <2>1, BodyKeepsUntyped
<1> HIDE DEF body, editing
<1>6. b \in CallState(b) /\ b.op = op /\ b.id = e.id /\ b.at = "wire"
  BY <1>4, RawCall
<1> HIDE DEF b, op
<1>7. /\ c \in CallState(c) /\ c.op = op /\ c.id = e.id /\ c.at = "wire" /\ c.typed = e.typed /\ c.base = e.cur.opts
      /\ c.body = body /\ c.mine = mine
  BY <1>6 DEF CallState
<1> HIDE DEF c
<1>8. AnswerOK(class, c)
  BY <1>7 DEF AnswerOK
<1>9. SaveOK(class, c)
  <2>1. c.op = "update" => c.id \in Ids /\ (class \in WholeForms => KeepsUntyped(class, c))
    BY <1>4, <1>5, <1>7 DEF KeepsUntyped
  <2>2. c.op # "arm"
    BY <1>4, <1>7 DEF Savings
  <2> QED
    BY <1>3, <1>7, <2>1, <2>2 DEF SaveOK
<1>10. CallOK(class, c)
  BY <1>7, <1>8, <1>9 DEF CallOK
<1>11. c.mine => MineOK(pg, c)
  BY <1>4, <1>7 DEF MineOK
<1>12. PageOK(class, pg') /\ Kept2(pg, pg')
  BY <1>1, InvParts, SavingIsSound
<1>13. \A d \in calls' : d \in calls \/ (CallOK(class, d) /\ (d.mine => d.op \notin {"update", "arm"} \/ MineOK(pg, d)))
  BY <1>1, <1>10, <1>11
<1> QED
  BY <1>12, <1>13, InvParts, PageStays


LEMMA EntrypointHolds == HoldsDevice(class) => class.kind = "entrypoint"
BY DEF HoldsDevice, Class

LEMMA AddedCall ==
  ASSUME PagesInv, UNCHANGED <<class, server, list>>, PageOK(class, pg'), Kept2(pg, pg'),
         NEW op \in CallOps \ (Savings \union {"arm"}), NEW id \in Ids \union {0}, NEW next \in Nexts,
         calls' \subseteq calls \union {Call(op, id, next)}
  PROVE  PagesInv'
<1>1. CallOK(class, Call(op, id, next)) /\ ~Call(op, id, next).mine
  BY PlainCall
<1>2. \A d \in calls' : d \in calls \/ (CallOK(class, d) /\ (d.mine => d.op \notin {"update", "arm"} \/ MineOK(pg, d)))
  BY <1>1
<1> QED
  BY <1>2, InvParts, PageStays

\* The names of the requests the user can make.
LEMMA Requests ==
  /\ {"start", "stop", "remove", "reset", "stats", "list"} \subseteq CallOps \ (Savings \union {"arm"})
  /\ {"none", "home", "detail", "start", "save", "saved", "poll"} \subseteq Nexts
BY DEF CallOps, Savings, Nexts

LEMMA ArmSoundly ==
  ASSUME PagesInv, UNCHANGED <<class, server, list, pg>>, HoldsDevice(class), NEW id \in Ids \union {0},
         NEW next \in {"start", "save"}, next = "save" => pg.at = "detail", Arm(id, next)
  PROVE  PagesInv'
<1> DEFINE c == [Call("arm", id, next) EXCEPT !.mine = next = "save"]
<1>1. calls' = calls \union {c}
  BY DEF Arm, Send
<1>2. CallOK(class, c) /\ (c.mine => next = "save") /\ c.op = "arm"
  BY InvParts, ArmCall
<1> HIDE DEF c
<1>3. c.mine => MineOK(pg, c)
  BY <1>2 DEF MineOK
<1>4. \A d \in calls' : d \in calls \/ (CallOK(class, d) /\ (d.mine => d.op \notin {"update", "arm"} \/ MineOK(pg, d)))
  BY <1>1, <1>2, <1>3
<1> QED
  BY <1>4, InvParts, PageStays

LEMMA StartedSoundly ==
  ASSUME PagesInv, NEW id \in Ids \union {0}, Started(id) \/ Stopped(id)
  PROVE  PagesInv'
<1>1. UNCHANGED <<class, server, list, pg>>
  BY DEF Started, Stopped, Stay
<1>2. CASE calls' \subseteq calls \union {Call("start", id, "none")} \/ calls' \subseteq calls \union {Call("stop", id, "none")}
  BY <1>1, <1>2, InvParts, Requests, AddedCall
<1>3. CASE Started(id) /\ HoldsDevice(class)
  BY <1>1, <1>3, ArmSoundly DEF Started
<1> QED
  BY <1>2, <1>3 DEF Started, Stopped, Send

LEMMA ArmedSoundly ==
  ASSUME PagesInv, NEW c \in calls, Armed(c)
  PROVE  PagesInv'
<1>1. UNCHANGED <<class, server, list>> /\ c.op = "arm"
  BY DEF Armed, Stay
<1>2. CASE c.next = "start"
  <2>1. pg' = pg /\ calls' \subseteq calls \union {Call("start", c.id, "none")}
    BY <1>2 DEF Armed, Send
  <2> QED
    BY <1>1, <2>1, InvParts, Requests, AddedCall
<1>3. CASE c.next # "start"
  <2> DEFINE e == IF c.mine THEN pg ELSE c.elem
  <2>1. SaveSent(calls \ {c}, e, c.mine) /\ calls \ {c} \in SUBSET calls
    BY <1>3 DEF Armed
  <2>2. class.kind = "entrypoint" /\ PageOK(class, c.elem) /\ (~c.mine => c.elem.at = "detail")
    BY <1>1, <1>3, InvParts, EntrypointHolds DEF CallOK, SaveOK
  <2>3. c.mine => pg.at = "detail"
    BY <1>1, InvParts DEF MineOK
  <2>4. PageOK(class, e) /\ e.at = "detail" /\ (c.mine => e = pg)
    BY <2>2, <2>3, InvParts
  <2> HIDE DEF e
  <2>5. c.mine \in BOOLEAN
    BY InvParts
  <2> QED
    BY <1>1, <2>1, <2>2, <2>4, <2>5, SaveSentSoundly
<1> QED
  BY <1>2, <1>3

LEMMA CallStepKeeps ==
  ASSUME PagesInv, NEW c \in calls, CallStep(c)
  PROVE  PagesInv'
<1>1. CASE Lost(c) \/ Declined(c)
  <2>1. UNCHANGED <<class, server, list, pg>> /\ calls' \subseteq calls
    BY <1>1 DEF Lost, Declined, Stay
  <2> QED
    BY <2>1, InvParts, PageStays
<1>2. CASE Serve(c) \/ ServeFails(c) \/ ConfigLoaded(c) \/ ListReturns(c) \/ ListFails(c)
  BY <1>2, ServeIsSound, RefusalIsSound, ConfigLoadedSoundly, ListEndsSoundly
<1>3. CASE CreateReturns(c) \/ UpdateReturns(c) \/ RemoveReturns(c)
  BY <1>3, CreateReturnsSoundly, UpdateReturnsSoundly, RemoveReturnsSoundly
<1>4. CASE ActReturns(c) \/ StatsReturns(c) \/ Armed(c) \/ CallFails(c)
  BY <1>4, ActReturnsSoundly, StatsReturnsSoundly, ArmedSoundly, CallFailsSoundly
<1> QED
  BY <1>1, <1>2, <1>3, <1>4 DEF CallStep, Returns, GivesUp

\* What is shown after the home page, the choice of a type, or a page of an item.
LEMMA LeftSoundly ==
  ASSUME PagesInv, UNCHANGED <<class, server, list>>, NEW at \in {"home", "types", "detail", "away"},
         NEW id \in Ids \union {0}, NEW url \in BOOLEAN, Navigate(calls, at, id, url)
  PROVE  PagesInv'
<1>1. list' \in Seq(RowState(class)) /\ calls \in SUBSET calls
  BY InvParts
<1> QED
  BY <1>1, NavigateIsSound

LEMMA PageIds == PagesInv => pg.id \in Ids \union {0} /\ {"home", "types", "detail", "away"} = Ats /\ 0 \in Ids \union {0} /\ FALSE \in BOOLEAN
BY InvParts DEF PageOK, PageState, Ats


LEMMA HomePageKeeps ==
  ASSUME PagesInv, UNCHANGED <<class, server, list>>, pg.at = "home", calls' \subseteq calls \union {Call("remove", pg.id, "home")},
         NEW id \in Ids \union {0}, NEW dialog \in {"none", "delete"}, pg' = [pg EXCEPT !.dialog = dialog, !.id = id]
  PROVE  PagesInv'
<1>1. pg \in PageState(class) /\ Filled(pg) /\ PageSound(pg) /\ pg.id \in Ids \union {0}
  BY InvParts, PageIds DEF PageOK
<1>2. /\ pg' \in PageState(class) /\ pg'.at = pg.at /\ pg'.mode = pg.mode /\ pg'.cur = pg.cur
      /\ pg'.form = pg.form /\ pg'.typed = pg.typed
  BY <1>1 DEF PageState
<1>3. PageOK(class, pg')
  BY <1>1, <1>2 DEF Filled, PageSound, PageOK
<1>4. CallOK(class, Call("remove", pg.id, "home")) /\ ~Call("remove", pg.id, "home").mine
  BY <1>1, Requests, PlainCall
<1>5. \A c \in calls : CallOK(class, c) /\ MineOK(pg', c)
  BY InvParts DEF MineOK
<1>6. \A c \in calls' : CallOK(class, c) /\ MineOK(pg', c)
  BY <1>4, <1>5 DEF MineOK
<1> QED
  BY <1>3, <1>6, InvParts, PagesKept

LEMMA OnItemKeeps ==
  ASSUME PagesInv, NEW id \in Ids, OnItem(id)
  PROVE  PagesInv'
<1>0. id \in Ids \union {0} /\ FALSE \in BOOLEAN
  OBVIOUS
<1>1. CASE HomeStart(id) \/ HomeStop(id)
  BY <1>0, <1>1, StartedSoundly DEF HomeStart, HomeStop
<1>2. CASE ConfirmDelete(id)
  BY <1>0, <1>2, HomePageKeeps DEF ConfirmDelete, HomeOffers, Stay
<1>3. CASE \E what \in {"open", "edit"} : OpenItem(id, what)
  <2>1. PICK what \in {"open", "edit"} : OpenItem(id, what)
    BY <1>3
  <2> DEFINE url == what = "edit"
  <2>2. UNCHANGED <<class, server, list>> /\ Navigate(calls, "detail", id, url) /\ url \in BOOLEAN
    BY <2>1 DEF OpenItem, Stay
  <2> HIDE DEF url
  <2> QED
    BY <1>0, <2>2, LeftSoundly
<1> QED
  BY <1>1, <1>2, <1>3 DEF OnItem

\* No input of a form has the name of a button.
LEMMA InputsAreNoButtons == Inputs(class) \intersect {"edit", "save", "back", "confirm", "cancel"} = {}
<1>1. \A type : TunnelForm(type) \intersect {"edit", "save", "back", "confirm", "cancel"} = {}
  BY DEF TunnelForm, When, DeviceFields
<1>2. \A type : EntrypointForm(type) \intersect {"edit", "save", "back", "confirm", "cancel"} = {}
  BY DEF EntrypointForm, When, DeviceFields
<1> QED
  BY <1>1, <1>2 DEF Inputs

LEMMA EditIsOffered == Offered("edit") => pg.at = "detail" /\ pg.mode = "view" /\ pg.cur.has
<1> SUFFICES ASSUME Offered("edit") PROVE pg.mode = "view" /\ pg.cur.has
  BY DEF Offered, Mine
<1>1. "edit" \notin DialogOffers(pg)
  BY DEF DialogOffers
<1>2. "edit" \in {"back"} \union AppBarOffers(pg) \union ViewOffers(pg) \union EditOffers(pg)
  BY <1>1, Zenon DEF Offered
<1>3. "edit" \notin AppBarOffers(pg)
  BY DEF AppBarOffers
<1>4. "edit" \notin EditOffers(pg)
  BY InputsAreNoButtons DEF EditOffers, When
<1>5. ViewOffers(pg) # {}
  BY <1>2, <1>3, <1>4
<1> QED
  BY <1>5 DEF ViewOffers

LEMMA EnterEditKeeps ==
  ASSUME PagesInv, EnterEdit
  PROVE  PagesInv'
<1> DEFINE form == PopulateForm(class, pg.cur.opts)
           q == [pg EXCEPT !.mode = "edit", !.form = form, !.typed = {}]
<1>1. /\ pg \in PageState(class) /\ Filled(pg) /\ PageSound(pg) /\ class \in AllClasses
      /\ pg.at = "detail" /\ pg.mode = "view" /\ pg.cur.has
  BY InvParts, EditIsOffered DEF PageOK, EnterEdit
<1>2. FormFields(class) \subseteq Options(class)
  BY <1>1, FieldsAreOptions
<1>3. form \in [FormFields(class) -> Nat] /\ \A f \in FormFields(class) : form[f] = pg.cur.opts[f]
  BY <1>1, <1>2 DEF PopulateForm, PageState, ToldValues, Values
<1>4. UNCHANGED <<class, server, list, calls>> /\ pg' = q
  BY DEF EnterEdit, Stay
<1> HIDE DEF form
<1>5. q \in PageState(class) /\ q.at = pg.at /\ q.id = pg.id /\ q.mode = "edit" /\ q.form = form /\ q.cur = pg.cur
  BY <1>1, <1>3 DEF PageState
<1> HIDE DEF q
<1>6. PageOK(class, pg') /\ Kept2(pg, pg')
  BY <1>1, <1>3, <1>4, <1>5 DEF PageOK, PageSound, Filled, Kept2
<1> QED
  BY <1>4, <1>6, InvParts, PageStays

LEMMA TypeKeeps ==
  ASSUME PagesInv, NEW f \in TypedFields, NEW v \in TypedValues(f), Type(f, v)
  PROVE  PagesInv'
<1> DEFINE form == [pg.form EXCEPT ![f] = v]
           typed == pg.typed \union {f}
           q == [pg EXCEPT !.form = form, !.typed = typed]
<1>1. pg \in PageState(class) /\ Filled(pg) /\ PageSound(pg)
  BY InvParts DEF PageOK
<1>2. form \in [FormFields(class) -> Nat] /\ \A g \in FormFields(class) : g # f => form[g] = pg.form[g]
  <2>1. pg.form \in [FormFields(class) -> Nat]
    BY <1>1 DEF PageState
  <2>2. v \in Nat
    BY DEF TypedValues, When, Malformed
  <2> QED
    BY <2>1, <2>2
<1>3. typed \in SUBSET TypedFields /\ f \in typed /\ pg.typed \subseteq typed
  BY <1>1 DEF PageState
<1>4. UNCHANGED <<class, server, list, calls>> /\ pg' = [pg EXCEPT !.form[f] = v, !.typed = @ \union {f}]
  BY DEF Type, Stay
<1>5. pg' = q
  <2>1. [pg EXCEPT !.form[f] = v, !.typed = @ \union {f}] = [pg EXCEPT !.form = [pg.form EXCEPT ![f] = v], !.typed = pg.typed \union {f}]
    BY <1>1 DEF PageState
  <2> QED
    BY <1>4, <2>1, Zenon
<1> HIDE DEF form, typed
<1>6. /\ q \in PageState(class) /\ q.at = pg.at /\ q.id = pg.id /\ q.mode = pg.mode /\ q.form = form /\ q.cur = pg.cur
      /\ q.typed = typed
  BY <1>1, <1>2, <1>3 DEF PageState
<1> HIDE DEF q
<1>7. Filled(q)
  <2> SUFFICES ASSUME NEW g \in DOMAIN q.form, g \notin q.typed PROVE q.form[g] = q.cur.opts[g]
    BY DEF Filled
  <2>1. g \in FormFields(class) /\ g # f /\ g \notin pg.typed /\ DOMAIN pg.form = FormFields(class)
    BY <1>1, <1>2, <1>3, <1>6 DEF PageState
  <2> QED
    BY <1>1, <1>2, <1>6, <2>1 DEF Filled
<1>8. PageOK(class, pg') /\ Kept2(pg, pg')
  BY <1>1, <1>5, <1>6, <1>7 DEF PageOK, PageSound, Kept2
<1> QED
  BY <1>4, <1>8, InvParts, PageStays

LEMMA HandleBackKeeps ==
  ASSUME PagesInv, HandleBack
  PROVE  PagesInv'
<1>1. UNCHANGED <<class, server, list>>
  BY DEF HandleBack, Stay
<1>2. CASE pg.mode = "edit"
  <2>1. pg \in PageState(class) /\ Filled(pg) /\ PageSound(pg)
    BY InvParts DEF PageOK
  <2>2. pg' = [pg EXCEPT !.mode = "view", !.url = FALSE] /\ calls' = calls /\ pg.at = "detail"
    BY <1>2 DEF HandleBack, Offered, Mine
  <2>3. /\ pg' \in PageState(class) /\ pg'.at = pg.at /\ pg'.id = pg.id /\ pg'.mode = "view" /\ pg'.cur = pg.cur
        /\ pg'.form = pg.form /\ pg'.typed = pg.typed
    BY <2>1, <2>2 DEF PageState
  <2>4. PageOK(class, pg') /\ Kept2(pg, pg')
    BY <1>2, <2>1, <2>2, <2>3 DEF PageOK, PageSound, Filled, Kept2
  <2> QED
    BY <1>1, <2>2, <2>4, InvParts, PageStays
<1>3. CASE pg.mode # "edit"
  BY <1>1, <1>3, PageIds, LeftSoundly DEF HandleBack
<1> QED
  BY <1>2, <1>3

LEMMA HandleSaveKeeps ==
  ASSUME PagesInv, HandleSave
  PROVE  PagesInv'
<1>1. UNCHANGED <<class, server, list>> /\ pg.at = "detail" /\ pg.mode # "view"
  BY DEF HandleSave, Stay, Offered, Mine
<1>2. CASE HoldsDevice(class)
  BY <1>1, <1>2, PageIds, ArmSoundly DEF HandleSave
<1>3. CASE ~HoldsDevice(class)
  <2>1. SaveSent(calls, pg, TRUE) /\ calls \in SUBSET calls /\ PageOK(class, pg)
    BY <1>3, InvParts DEF HandleSave
  <2>2. TRUE \in BOOLEAN
    OBVIOUS
  <2> QED
    BY <1>1, <2>1, <2>2, SaveSentSoundly
<1> QED
  BY <1>2, <1>3


LEMMA DialogKeeps ==
  ASSUME PagesInv, UNCHANGED <<class, server, list>>, NEW dialog \in {"none", "delete", "reset"},
         pg' = [pg EXCEPT !.dialog = dialog],
         \/ calls' \subseteq calls
         \/ calls' \subseteq calls \union {Call("remove", pg.id, "detail")}
         \/ calls' \subseteq calls \union {Call("reset", pg.id, "none")}
  PROVE  PagesInv'
<1>1. PageOK(class, pg') /\ Kept2(pg, pg')
  BY InvParts, DialogIsSound
<1>2. CASE calls' \subseteq calls
  BY <1>1, <1>2, InvParts, PageStays
<1>3. CASE calls' \subseteq calls \union {Call("remove", pg.id, "detail")}
  BY <1>1, <1>3, PageIds, Requests, AddedCall
<1>4. CASE calls' \subseteq calls \union {Call("reset", pg.id, "none")}
  BY <1>1, <1>4, PageIds, Requests, AddedCall
<1> QED
  BY <1>2, <1>3, <1>4

LEMMA OnPageKeeps ==
  ASSUME PagesInv, OnPage
  PROVE  PagesInv'
<1>1. CASE EnterEdit \/ HandleBack \/ HandleSave
  BY <1>1, EnterEditKeeps, HandleBackKeeps, HandleSaveKeeps
<1>2. CASE HandleStart \/ HandleStop
  BY <1>2, PageIds, StartedSoundly DEF HandleStart, HandleStop
<1>3. CASE HandleDelete
  BY <1>3, DialogKeeps DEF HandleDelete, Stay, Send
<1>4. CASE DoResetStats
  BY <1>4, DialogKeeps DEF DoResetStats, Stay, Send
<1>5. CASE Cancel
  BY <1>5, DialogKeeps DEF Cancel, Stay
<1>6. CASE \E what \in {"delete", "reset"} : AskDialog(what)
  <2>1. PICK what \in {"delete", "reset"} : AskDialog(what)
    BY <1>6
  <2> QED
    BY <2>1, DialogKeeps DEF AskDialog, Stay
<1>7. CASE \E f \in TypedFields : \E v \in TypedValues(f) : Type(f, v)
  BY <1>7, TypeKeeps
<1>8. CASE LeaveSubpage
  BY <1>8, PageIds, LeftSoundly DEF LeaveSubpage, Stay
<1>9. CASE \E what \in {"peers", "events", "inspector"} : OpenSubpage(what)
  BY <1>9, PageIds, LeftSoundly DEF OpenSubpage, Stay
<1> QED
  BY <1>1, <1>2, <1>3, <1>4, <1>5, <1>6, <1>7, <1>8, <1>9 DEF OnPage

LEMMA OtherClientKeeps ==
  ASSUME PagesInv, OtherClient
  PROVE  PagesInv'
<1>1. UNCHANGED <<class, list, calls, pg>> /\ server \in [Ids -> ItemState(class)]
  BY InvParts DEF OtherClient
<1>2. PICK id \in Ids :
        \/ \E f \in OtherFields \intersect Options(class) : server' = [server EXCEPT ![id].opts[f] = 3]
        \/ server' = [server EXCEPT ![id].running = ~@]
        \/ server' = [server EXCEPT ![id].there = "gone"]
  BY DEF OtherClient
<1>3. server[id] \in ItemState(class)
  BY <1>1
<1>4. CASE \E f \in OtherFields \intersect Options(class) : server' = [server EXCEPT ![id].opts[f] = 3]
  <2>1. PICK f \in Options(class) : server' = [server EXCEPT ![id].opts[f] = 3]
    BY <1>4
  <2>2. [server[id] EXCEPT !.opts[f] = 3] \in ItemState(class)
    BY <1>3 DEF ItemState, Values
  <2>3. server' = [server EXCEPT ![id] = [server[id] EXCEPT !.opts[f] = 3]]
    BY <1>1, <2>1
  <2>4. server' \in [Ids -> ItemState(class)]
    BY <1>1, <2>2, <2>3
  <2> QED
    BY <1>1, <2>4, InvParts, PageStays
<1>5. CASE server' = [server EXCEPT ![id].running = ~@] \/ server' = [server EXCEPT ![id].there = "gone"]
  <2>1. server' \in [Ids -> ItemState(class)]
    BY <1>1, <1>3, <1>5 DEF ItemState
  <2> QED
    BY <1>1, <2>1, InvParts, PageStays
<1> QED
  BY <1>2, <1>4, <1>5

LEMMA PagesStep == PagesInv /\ PagesNext => PagesInv'
<1> SUFFICES ASSUME PagesInv, PagesNext PROVE PagesInv'
  OBVIOUS
<1>1. CASE \E c \in calls : CallStep(c)
  BY <1>1, CallStepKeeps
<1>2. CASE \E id \in Ids : OnItem(id)
  BY <1>2, OnItemKeeps
<1>3. CASE OnPage
  BY <1>3, OnPageKeeps
<1>4. CASE HomeDelete \/ HomeCancel
  <2>1. 0 \in Ids \union {0} /\ "none" \in {"none", "delete"}
    OBVIOUS
  <2>2. UNCHANGED <<class, server, list>> /\ pg.at = "home" /\ pg' = [pg EXCEPT !.dialog = "none", !.id = 0]
        /\ calls' \subseteq calls \union {Call("remove", pg.id, "home")}
    BY <1>4 DEF HomeDelete, HomeCancel, Stay, Send
  <2> QED
    BY <2>1, <2>2, HomePageKeeps
<1>5. CASE OpenTypes \/ ChooseType \/ LeaveTypes
  BY <1>5, PageIds, LeftSoundly DEF OpenTypes, ChooseType, LeaveTypes, Stay
<1>6. CASE Refetch
  <2>1. UNCHANGED <<class, server>> /\ Refresh(calls, pg, list, "none", FALSE) /\ calls \in SUBSET calls
    BY <1>6 DEF Refetch
  <2>2. "none" \in Nexts /\ FALSE \in BOOLEAN
    BY DEF Nexts
  <2> QED
    BY <2>1, <2>2, InvParts, RefreshStays
<1>7. CASE Poll
  <2>1. UNCHANGED <<class, server, list, pg>> /\ calls' \subseteq calls \union {Call("stats", 0, "none")} /\ 0 \in Ids \union {0}
    BY <1>7 DEF Poll, Send
  <2> QED
    BY <2>1, InvParts, Requests, AddedCall
<1>8. CASE OtherClient
  BY <1>8, OtherClientKeeps
<1> QED
  BY <1>1, <1>2, <1>3, <1>4, <1>5, <1>6, <1>7, <1>8 DEF PagesNext

LEMMA PagesStutter == PagesInv /\ UNCHANGED pages => PagesInv'
<1> SUFFICES ASSUME PagesInv, UNCHANGED pages PROVE PagesInv'
  OBVIOUS
<1>1. UNCHANGED <<class, server, list, calls, pg>>
  BY DEF pages
<1> QED
  BY <1>1, InvParts, PageStays

LEMMA PagesStart == WebInit => PagesInv
<1> SUFFICES ASSUME WebInit PROVE PagesInv
  OBVIOUS
<1>1. class \in AllClasses
  BY PagesAssumption DEF WebInit, ItemsIdle, PagesInit, PagesIdle, AllClasses, TunnelClasses
<1>2. [f \in Options(class) |-> 1] \in Values(class)
  BY DEF Values
<1>3. \A id \in Ids : /\ Stored("unborn", FALSE) \in ItemState(class)
                      /\ Stored(IF id = 1 THEN "yes" ELSE "unborn", id = 1) \in ItemState(class)
  <2> DEFINE opts == [f \in Options(class) |-> 1]
  <2> HIDE DEF opts
  <2>1. opts \in Values(class)
    BY <1>2 DEF opts
  <2>2. \A there \in {"yes", "unborn"}, running \in BOOLEAN :
          [there |-> there, running |-> running, opts |-> opts] \in ItemState(class)
    BY <2>1 DEF ItemState
  <2> SUFFICES ASSUME NEW id \in Ids
               PROVE  /\ Stored("unborn", FALSE) \in ItemState(class)
                      /\ Stored(IF id = 1 THEN "yes" ELSE "unborn", id = 1) \in ItemState(class)
    OBVIOUS
  <2> DEFINE there == IF id = 1 THEN "yes" ELSE "unborn"
             running == id = 1
  <2>3. there \in {"yes", "unborn"} /\ running \in BOOLEAN /\ FALSE \in BOOLEAN
    OBVIOUS
  <2> HIDE DEF there, running
  <2>4. [there |-> there, running |-> running, opts |-> opts] \in ItemState(class)
    BY <2>2, <2>3
  <2>5. [there |-> "unborn", running |-> FALSE, opts |-> opts] \in ItemState(class)
    BY <2>2
  <2> QED
    BY <2>4, <2>5 DEF Stored, Item, there, running, opts
<1>4. server \in [Ids -> ItemState(class)]
  BY <1>3 DEF WebInit, ItemsIdle, PagesInit, PagesIdle
<1>5. list \in Seq(RowState(class))
  BY EmptySeq DEF WebInit, ItemsIdle, PagesInit, PagesIdle
<1>6. PageOK(class, pg)
  <2>1. /\ "home" \in {"home", "types", "detail", "away"} /\ "detail" \in {"home", "types", "detail", "away"}
        /\ 0 \in Ids \union {0} /\ 1 \in Ids \union {0} /\ TRUE \in BOOLEAN /\ FALSE \in BOOLEAN
    BY DEF Ids
  <2>2. pg = Page("home", 0, FALSE) \/ pg = Page("detail", 1, TRUE)
    BY DEF WebInit, ItemsIdle, PagesInit, PagesIdle
  <2>3. Loadable(class, pg) /\ (pg.at = "home" \/ (pg.at = "detail" /\ pg.id = 1))
    <3>1. Loadable(class, Page("home", 0, FALSE)) /\ Page("home", 0, FALSE).at = "home"
      BY <1>1, <2>1, NewPageIs
    <3>2. Loadable(class, Page("detail", 1, TRUE)) /\ Page("detail", 1, TRUE).at = "detail" /\ Page("detail", 1, TRUE).id = 1
      BY <1>1, <2>1, NewPageIs
    <3> QED
      BY <2>2, <3>1, <3>2
  <2>4. pg.mode = "view"
    BY <2>2 DEF Page
  <2> QED
    BY <2>3, <2>4 DEF Loadable, PageOK, PageSound
<1>7. \A c \in calls : CallOK(class, c) /\ MineOK(pg, c)
  <2> SUFFICES ASSUME NEW c \in calls PROVE CallOK(class, c) /\ MineOK(pg, c)
    OBVIOUS
  <2>1. c = [n |-> 1, op |-> "config", id |-> 0, next |-> "none", at |-> "wire", mine |-> FALSE, body |-> <<>>,
             typed |-> {}, base |-> <<>>, ans |-> <<>>, elem |-> NoPage]
    BY DEF WebInit, ItemsIdle, PagesInit, PagesIdle
  <2>2. c \in CallState(c) /\ c.op = "config" /\ c.at = "wire" /\ ~c.mine
    BY <2>1 DEF CallState, CallOps
  <2> QED
    BY <2>2 DEF CallOK, AnswerOK, SaveOK, Savings, MineOK
<1> QED
  BY <1>1, <1>4, <1>5, <1>6, <1>7 DEF PagesInv

\* A behaviour is about one class.
LEMMA ClassKept == PagesNext => class' = class
<1>1. ASSUME NEW c \in calls, CallStep(c) PROVE class' = class
  <2>1. CASE Serve(c) \/ ServeFails(c) \/ GivesUp(c)
    BY <2>1 DEF Serve, ServeFails, GivesUp, ListFails, FetchEnds, CallFails, Declined, Stay, Lost
  <2>2. CASE Returns(c)
    BY <2>2 DEF Returns, ConfigLoaded, ListReturns, FetchEnds, CreateReturns, UpdateReturns, RemoveReturns,
                ActReturns, StatsReturns, Armed, Stay
  <2> QED
    BY <1>1, <2>1, <2>2 DEF CallStep
<1>2. ASSUME NEW id \in Ids, OnItem(id) PROVE class' = class
  BY <1>2 DEF OnItem, HomeStart, HomeStop, ConfirmDelete, OpenItem, Started, Stopped, Stay
<1>3. OnPage => class' = class
  BY DEF OnPage, EnterEdit, HandleBack, HandleSave, HandleStart, HandleStop, HandleDelete, DoResetStats, Cancel,
         LeaveSubpage, Type, AskDialog, OpenSubpage, Started, Stopped, Stay
<1>4. HomeDelete \/ HomeCancel \/ OpenTypes \/ ChooseType \/ LeaveTypes \/ Refetch \/ Poll \/ OtherClient => class' = class
  BY DEF HomeDelete, HomeCancel, OpenTypes, ChooseType, LeaveTypes, Refetch, Poll, OtherClient, Stay
<1> QED
  BY <1>1, <1>2, <1>3, <1>4 DEF PagesNext

LEMMA PagesInvStep == PagesInv /\ [WebNext]_webVars => PagesInv'
<1>1. [WebNext]_webVars => PagesNext \/ UNCHANGED pages
  BY DEF WebNext, webVars
<1> QED
  BY <1>1, PagesStep, PagesStutter

\* One step of a save, or of whatever else the daemon does.
LEMMA SaveStep ==
  ASSUME PagesInv, class \in WholeForms
  PROVE  \A c \in calls : c.op = "update" /\ Serve(c) =>
           \A f \in Untyped(c) : server'[c.id].opts[f] = server[c.id].opts[f]
<1> SUFFICES ASSUME NEW c \in calls, c.op = "update", Serve(c), NEW f \in Untyped(c)
             PROVE  server'[c.id].opts[f] = server[c.id].opts[f]
  OBVIOUS
<1> DEFINE opts == server[c.id].opts
<1>1. c.id \in Ids /\ KeepsUntyped(class, c)
  BY InvParts DEF CallOK, SaveOK
<1>2. server \in [Ids -> ItemState(class)] /\ opts \in Values(class)
  <2>1. server[c.id] \in ItemState(class)
    BY <1>1, InvParts
  <2> QED
    BY <2>1, InvParts DEF ItemState
<1>3. PICK up \in Outcomes :
        server' = [server EXCEPT ![c.id].opts = Replaced(class, server[c.id].opts, c.body), ![c.id].running = up]
  BY DEF Serve, Done
<1>4. server'[c.id].opts = Replaced(class, opts, c.body)
  <2>1. server[c.id] \in ItemState(class)
    BY <1>1, <1>2
  <2> QED
    BY <1>1, <1>2, <1>3, <2>1 DEF ItemState
<1>5. f \in Options(class) \ c.typed /\ (f = "password" \/ c.base[f] = opts[f])
  BY DEF Untyped
<1> HIDE DEF opts
<1>6. Replaced(class, opts, c.body)[f] = opts[f]
  BY <1>1, <1>2, <1>5 DEF KeepsUntyped
<1> QED
  BY <1>4, <1>6 DEF opts

\* A save changes what was typed and nothing else, if the form of the class covers its options
\* (tunnel-detail-page.ts and entrypoint-detail-page.ts _handleSave, tunnel_handler.go).
THEOREM WebSaveKeepsUntyped ==
  ASSUME Classes \subseteq WholeForms
  PROVE  WebSpec => SaveKeepsUntyped
<1> DEFINE Covered == class \in WholeForms
<1>1. WebInit => PagesInv /\ Covered
  <2>1. Class("tunnel", "http") \in WholeForms
    BY DEF WholeForms
  <2> QED
    BY <2>1, PagesStart DEF WebInit, ItemsIdle, PagesInit, PagesIdle
<1>2. PagesInv /\ Covered /\ [WebNext]_webVars => PagesInv' /\ Covered'
  <2>1. [WebNext]_webVars => class' = class
    <3>1. PagesNext => class' = class
      BY ClassKept
    <3> QED
      BY <3>1 DEF WebNext, webVars, pages
  <2> QED
    BY <2>1, PagesInvStep
<1>3. PagesInv /\ Covered =>
        \A c \in calls : c.op = "update" /\ Serve(c) =>
          \A f \in Untyped(c) : server'[c.id].opts[f] = server[c.id].opts[f]
  BY SaveStep
<1> QED
  BY <1>1, <1>2, <1>3, PTL DEF WebSpec, SaveKeepsUntyped

---------------------------------------------------------------------------
(* What is typed stays.                                                    *)

FormKept(p, q) == Typing(p) /\ q.at = "detail" => \A f \in p.typed : q.form[f] = p.form[f]

\* A page that is changed in something else than its form.
LEMMA FormUntouched ==
  ASSUME PagesInv, NEW q,
         \/ q = pg
         \/ \E saving \in BOOLEAN : q = [pg EXCEPT !.saving = saving]
         \/ \E dialog \in {"none", "delete", "reset"} : q = [pg EXCEPT !.dialog = dialog]
  PROVE  FormKept(pg, q) /\ PageOK(class, q) /\ (Typing(pg) => Typing(q)) /\ q.form = pg.form
<1>1. pg \in PageState(class) /\ PageOK(class, pg)
  BY InvParts DEF PageOK
<1>2. CASE q = pg
  BY <1>1, <1>2 DEF FormKept
<1>3. CASE \E saving \in BOOLEAN : q = [pg EXCEPT !.saving = saving]
  <2>1. PICK saving \in BOOLEAN : q = [pg EXCEPT !.saving = saving]
    BY <1>3
  <2>2. q.form = pg.form /\ q.mode = pg.mode /\ q.typed = pg.typed /\ q.at = pg.at
    BY <1>1, <2>1 DEF PageState
  <2>3. q \in {[pg EXCEPT !.saving = TRUE], [pg EXCEPT !.saving = FALSE]}
    <3>1. saving = TRUE \/ saving = FALSE
      BY <2>1
    <3> QED
      BY <2>1, <3>1
  <2>4. PageOK(class, q)
    BY <1>1, <2>3, SavingIsSound
  <2> QED
    BY <2>2, <2>4 DEF FormKept, Typing
<1>4. CASE \E dialog \in {"none", "delete", "reset"} : q = [pg EXCEPT !.dialog = dialog]
  <2>1. PICK dialog \in {"none", "delete", "reset"} : q = [pg EXCEPT !.dialog = dialog]
    BY <1>4
  <2>2. q.form = pg.form /\ q.mode = pg.mode /\ q.typed = pg.typed /\ q.at = pg.at
    BY <1>1, <2>1 DEF PageState
  <2>3. PageOK(class, q)
    BY <1>1, <2>1, DialogIsSound
  <2> QED
    BY <2>2, <2>3 DEF FormKept, Typing
<1> QED
  BY <1>2, <1>3, <1>4

\* A notification of the store does not reach a form that is open.
LEMMA LoadKeepsForm ==
  ASSUME PagesInv, NEW l \in Seq(RowState(class)), NEW p,
         p = pg \/ \E saving \in BOOLEAN : p = [pg EXCEPT !.saving = saving]
  PROVE  FormKept(pg, Load(p, l)) /\ (Typing(pg) => Load(p, l) = p)
<1>1. PageOK(class, p) /\ (Typing(pg) => Typing(p)) /\ p.form = pg.form
  BY FormUntouched
<1>2. class \in AllClasses /\ Loadable(class, p) /\ PageSound(p)
  BY <1>1, InvParts, SoundIsLoadable DEF PageOK
<1>3. p.at = "detail" /\ p.mode # "view" => Load(p, l) = p
  BY <1>2, LoadIsSound
<1>4. Typing(pg) => Load(p, l) = p
  BY <1>1, <1>3 DEF Typing
<1> QED
  BY <1>1, <1>4 DEF FormKept

LEMMA NavigateLeaves ==
  ASSUME PagesInv, PagesInv', class' = class, NEW cs, NEW at \in {"home", "types", "away"}, NEW id \in Ids \union {0},
         NEW url \in BOOLEAN, Navigate(cs, at, id, url)
  PROVE  FormKept(pg, pg')
<1> DEFINE p == Page(at, id, url)
           l == list'
<1>1. pg' = Load(p, l) /\ l \in Seq(RowState(class)) /\ at # "detail" /\ at \in {"home", "types", "detail", "away"}
  BY DEF Navigate, PagesInv
<1>2. class \in AllClasses /\ Loadable(class, p) /\ p.at = at
  <2>1. class \in AllClasses
    BY InvParts
  <2>2. at \in {"home", "types", "detail", "away"}
    OBVIOUS
  <2> QED
    BY <2>1, <2>2, NewPageIs
<1> HIDE DEF p, l
<1>3. pg'.at = at
  BY <1>1, <1>2, LoadIsSound
<1> QED
  BY <1>1, <1>3 DEF FormKept

\* Answers.
LEMMA AnswersKeepForm ==
  ASSUME PagesInv, PagesInv', class' = class, NEW c \in calls, CallStep(c)
  PROVE  FormKept(pg, pg') \/ (pg.mode = "edit" /\ UpdateReturns(c) /\ c.mine)
<1>0. /\ list' \in Seq(RowState(class)) /\ c.mine \in BOOLEAN /\ TRUE \in BOOLEAN /\ FALSE \in BOOLEAN
      /\ "home" \in {"home", "types", "away"} /\ 0 \in Ids \union {0}
  BY InvParts DEF PagesInv
<1>1. CASE Serve(c) \/ ServeFails(c) \/ Lost(c) \/ Declined(c)
  BY <1>1, FormUntouched DEF Serve, ServeFails, Lost, Declined
<1>2. CASE ListReturns(c) \/ ListFails(c)
  <2>1. pg' = Load(Saved(pg, c.mine /\ c.next = "saved"), list')
    BY <1>2 DEF ListReturns, ListFails, FetchEnds
  <2>2. Saved(pg, c.mine /\ c.next = "saved") = pg \/ Saved(pg, c.mine /\ c.next = "saved") = [pg EXCEPT !.saving = FALSE]
    BY DEF Saved
  <2> DEFINE p == Saved(pg, c.mine /\ c.next = "saved")
  <2> HIDE DEF p
  <2>3. p = pg \/ \E saving \in BOOLEAN : p = [pg EXCEPT !.saving = saving]
    BY <1>0, <2>2 DEF p
  <2> QED
    BY <1>0, <2>1, <2>3, LoadKeepsForm DEF p
<1>3. CASE ConfigLoaded(c) \/ ActReturns(c) \/ StatsReturns(c)
  <2>1. pg' = Load(pg, list')
    BY <1>3 DEF ConfigLoaded, ActReturns, Refresh, StatsReturns
  <2> QED
    BY <1>0, <2>1, LoadKeepsForm
<1>4. CASE CreateReturns(c)
  BY <1>0, <1>4, NavigateLeaves DEF CreateReturns
<1>5. CASE RemoveReturns(c)
  <2>1. CASE c.next = "detail"
    BY <1>0, <1>5, <2>1, NavigateLeaves DEF RemoveReturns
  <2>2. CASE c.next # "detail"
    BY <1>0, <1>5, <2>2, LoadKeepsForm DEF RemoveReturns
  <2> QED
    BY <2>1, <2>2
<1>6. CASE UpdateReturns(c)
  <2>1. pg' = Load(Viewed(Load(pg, list'), c.mine), list') /\ c.op = "update"
    BY <1>6 DEF UpdateReturns, Refresh
  <2>2. CASE ~c.mine
    <3>1. pg' = Load(Load(pg, list'), list')
      BY <2>1, <2>2 DEF Viewed
    <3>2. Typing(pg) => Load(pg, list') = pg
      BY <1>0, LoadKeepsForm
    <3>3. FormKept(pg, Load(pg, list'))
      BY <1>0, LoadKeepsForm
    <3> QED
      BY <3>1, <3>2, <3>3 DEF FormKept
  <2>3. CASE c.mine
    <3>1. pg.at = "detail" /\ pg.id # 0 /\ PageSound(pg) /\ pg \in PageState(class)
      BY <2>1, <2>3, InvParts DEF MineOK, PageOK
    <3>2. Typing(pg) => pg.mode = "edit"
      BY <3>1 DEF PageSound, PageState, Typing
    <3> QED
      BY <1>6, <2>3, <3>2 DEF FormKept
  <2> QED
    BY <2>2, <2>3
<1>7. CASE Armed(c)
  <2>1. pg' = pg \/ pg' = [pg EXCEPT !.saving = TRUE]
    BY <1>7 DEF Armed, SaveSent
  <2> QED
    BY <1>0, <2>1, FormUntouched
<1>8. CASE CallFails(c)
  <2>1. pg' = pg \/ pg' = [pg EXCEPT !.saving = FALSE]
    BY <1>8 DEF CallFails, Saved
  <2> QED
    BY <1>0, <2>1, FormUntouched
<1> QED
  BY <1>1, <1>2, <1>3, <1>4, <1>5, <1>6, <1>7, <1>8 DEF CallStep, Returns, GivesUp

\* What the user does on the page that is shown.
LEMMA PageKeepsForm ==
  ASSUME PagesInv, PagesInv', class' = class, OnPage
  PROVE  \/ FormKept(pg, pg')
         \/ \E f \in TypedFields : \E v \in TypedValues(f) : Type(f, v)
         \/ pg.mode = "edit" /\ HandleBack
<1>0. /\ TRUE \in BOOLEAN /\ FALSE \in BOOLEAN /\ {"none", "delete", "reset"} = {"none", "delete", "reset"}
      /\ "home" \in {"home", "types", "away"} /\ "away" \in {"home", "types", "away"} /\ 0 \in Ids \union {0} /\ pg.id \in Ids \union {0}
  BY PageIds
<1>1. CASE EnterEdit
  BY <1>1, EditIsOffered DEF EnterEdit, FormKept, Typing
<1>2. CASE HandleBack
  BY <1>0, <1>2, NavigateLeaves DEF HandleBack
<1>3. CASE HandleSave
  <2>1. pg' = pg \/ pg' = [pg EXCEPT !.saving = TRUE]
    BY <1>3 DEF HandleSave, SaveSent
  <2> QED
    BY <1>0, <2>1, FormUntouched
<1>4. CASE HandleStart \/ HandleStop
  <2>1. pg' = pg
    BY <1>4 DEF HandleStart, HandleStop, Started, Stopped
  <2> QED
    BY <2>1, FormUntouched
<1>5. CASE HandleDelete \/ DoResetStats \/ Cancel
  <2>1. pg' = [pg EXCEPT !.dialog = "none"] /\ "none" \in {"none", "delete", "reset"}
    BY <1>5 DEF HandleDelete, DoResetStats, Cancel
  <2> QED
    BY <2>1, FormUntouched
<1>6. CASE \E what \in {"delete", "reset"} : AskDialog(what)
  <2>1. \E dialog \in {"none", "delete", "reset"} : pg' = [pg EXCEPT !.dialog = dialog]
    BY <1>6 DEF AskDialog
  <2> QED
    BY <2>1, FormUntouched
<1>7. CASE LeaveSubpage
  BY <1>7 DEF LeaveSubpage, FormKept, Typing
<1>8. CASE \E what \in {"peers", "events", "inspector"} : OpenSubpage(what)
  BY <1>0, <1>8, NavigateLeaves DEF OpenSubpage
<1> QED
  BY <1>1, <1>2, <1>3, <1>4, <1>5, <1>6, <1>7, <1>8 DEF OnPage

LEMMA FormStays ==
  ASSUME PagesInv, PagesInv', PagesNext
  PROVE  \/ FormKept(pg, pg')
         \/ \E f \in TypedFields : \E v \in TypedValues(f) : Type(f, v)
         \/ pg.mode = "edit" /\ (HandleBack \/ \E c \in calls : UpdateReturns(c) /\ c.mine)
<1>0. class' = class /\ list' \in Seq(RowState(class))
  BY ClassKept DEF PagesInv
<1>1. CASE \E c \in calls : CallStep(c)
  BY <1>0, <1>1, AnswersKeepForm
<1>2. CASE \E id \in Ids : OnItem(id)
  <2>1. pg.at = "home"
    BY <1>2 DEF OnItem, HomeStart, HomeStop, ConfirmDelete, OpenItem, HomeOffers
  <2> QED
    BY <2>1 DEF FormKept, Typing
<1>3. CASE OnPage
  BY <1>0, <1>3, PageKeepsForm
<1>4. CASE HomeDelete \/ HomeCancel \/ OpenTypes \/ ChooseType \/ LeaveTypes
  <2>1. pg.at # "detail"
    BY <1>4 DEF HomeDelete, HomeCancel, OpenTypes, ChooseType, LeaveTypes
  <2> QED
    BY <2>1 DEF FormKept, Typing
<1>5. CASE Refetch
  BY <1>0, <1>5, LoadKeepsForm DEF Refetch, Refresh
<1>6. CASE Poll \/ OtherClient
  BY <1>6, FormUntouched DEF Poll, OtherClient
<1> QED
  BY <1>1, <1>2, <1>3, <1>4, <1>5, <1>6 DEF PagesNext

---------------------------------------------------------------------------
(* The home page (home-page.ts).                                           *)

HomeState ==
  [at : {"home", "away"}, tab : Tabs, expanded : Nat, swipe : BOOLEAN, target : Nat, qr : Nat, making : {-1} \union Tabs]

\* The tab of the page is the one that is kept, and an item is being made for that tab; whatever
\* was made before has a smaller number than what is made now.
HomeInv ==
  /\ homeActs \in Nat /\ \A r \in rows : r.n \in 1..homeActs + 2
  /\ activeTab \in Tabs /\ home \in HomeState /\ home.tab = activeTab
  /\ (home.at = "home" => home.making = -1) /\ home.making \in {-1, activeTab}

LEMMA HomePageIs ==
  ASSUME NEW tab \in Tabs
  PROVE  HomePage(tab) \in HomeState /\ HomePage(tab).tab = tab /\ HomePage(tab).at = "home" /\ HomePage(tab).making = -1
BY DEF HomePage, HomeState, NoRow

LEMMA AwayPageIs ==
  ASSUME NEW tab \in Tabs, NEW making \in {-1, tab}, NEW q, q = [HomePage(tab) EXCEPT !.at = "away", !.making = making]
  PROVE  q \in HomeState /\ q.tab = tab /\ q.at = "away" /\ q.making = making
<1> DEFINE p == HomePage(tab)
<1>1. p \in HomeState /\ p.tab = tab
  BY HomePageIs
<1>2. q = [p EXCEPT !.at = "away", !.making = making] /\ making \in {-1} \union Tabs
  OBVIOUS
<1> HIDE DEF p
<1> QED
  BY <1>1, <1>2 DEF HomeState

\* A step on the page itself.
OnTheSpot(q) == q \in HomeState /\ q.at = home.at /\ q.making = home.making
LEMMA HomeStays ==
  ASSUME HomeInv, homeActs' \in {homeActs, homeActs + 1}, rows' \subseteq rows, activeTab' \in Tabs,
         OnTheSpot(home'), home'.tab = activeTab', activeTab' = activeTab \/ home.at = "home"
  PROVE  HomeInv'
<1>1. \A r \in rows' : r.n \in 1..homeActs' + 2
  BY DEF HomeInv
<1> QED
  BY <1>1 DEF HomeInv, OnTheSpot

LEMMA SetTabIs ==
  ASSUME HomeInv, NEW index, SetTab(index)
  PROVE  OnTheSpot(home') /\ activeTab' \in Tabs /\ home'.tab = activeTab'
<1>1. home \in HomeState /\ activeTab \in Tabs /\ home.tab = activeTab /\ FALSE \in BOOLEAN /\ NoRow \in Nat
  BY DEF HomeInv, NoRow
<1>2. CASE index = home.tab \/ index \notin Tabs
  <2>1. home' = [home EXCEPT !.swipe = FALSE] /\ activeTab' = activeTab
    BY <1>2 DEF SetTab
  <2> QED
    BY <1>1, <2>1 DEF HomeState, OnTheSpot
<1>3. CASE ~(index = home.tab \/ index \notin Tabs)
  <2>1. home' = [home EXCEPT !.tab = index, !.expanded = NoRow, !.swipe = FALSE] /\ activeTab' = index /\ index \in Tabs
    BY <1>3 DEF SetTab
  <2> QED
    BY <1>1, <2>1 DEF HomeState, OnTheSpot
<1> QED
  BY <1>2, <1>3

LEMMA OneFieldIs ==
  ASSUME HomeInv, NEW n \in Nat, NEW b \in BOOLEAN
  PROVE  /\ OnTheSpot([home EXCEPT !.expanded = n]) /\ [home EXCEPT !.expanded = n].tab = activeTab
         /\ OnTheSpot([home EXCEPT !.target = n]) /\ [home EXCEPT !.target = n].tab = activeTab
         /\ OnTheSpot([home EXCEPT !.qr = n]) /\ [home EXCEPT !.qr = n].tab = activeTab
         /\ OnTheSpot([home EXCEPT !.swipe = b]) /\ [home EXCEPT !.swipe = b].tab = activeTab
         /\ OnTheSpot(home) /\ 0 \in Nat
BY DEF HomeInv, HomeState, OnTheSpot

LEMMA AwayKeeps ==
  ASSUME HomeInv, NEW making, making = -1 \/ making = home.tab, Away(making)
  PROVE  HomeInv'
<1>1. making \in {-1, activeTab} /\ activeTab \in Tabs /\ "away" \in {"home", "away"}
  BY DEF HomeInv
<1>2. home' = [HomePage(activeTab) EXCEPT !.at = "away", !.making = making] /\ homeActs' = homeActs + 1
      /\ UNCHANGED <<rows, activeTab>>
  BY DEF Away, HomeAct
<1>3. home' \in HomeState /\ home'.tab = activeTab /\ home'.at = "away" /\ home'.making = making
  BY <1>1, <1>2, AwayPageIs
<1>4. homeActs' \in Nat /\ \A r \in rows' : r.n \in 1..homeActs' + 2
  <2> SUFFICES ASSUME NEW r \in rows' PROVE homeActs' \in Nat /\ r.n \in 1..homeActs' + 2
    BY <1>2 DEF HomeInv
  <2>1. r.n \in 1..homeActs + 2 /\ homeActs \in Nat /\ homeActs' = homeActs + 1
    BY <1>2 DEF HomeInv
  <2> QED
    BY <2>1
<1>5. home'.at # "home" /\ activeTab' \in Tabs /\ home'.tab = activeTab' /\ home'.making \in {-1, activeTab'}
  BY <1>1, <1>2, <1>3
<1> QED
  BY <1>3, <1>4, <1>5 DEF HomeInv

LEMMA HomeInvStep == HomeInv /\ HomeNext => HomeInv'
<1> SUFFICES ASSUME HomeInv, HomeNext PROVE HomeInv'
  OBVIOUS
<1>0. /\ homeActs \in Nat /\ activeTab \in Tabs /\ home \in HomeState /\ home.tab = activeTab /\ NoRow \in Nat
      /\ \A r \in rows : r.n \in Nat
  BY DEF HomeInv, NoRow
<1>1. CASE CloseQrDialog \/ DropRemoval \/ ConfirmRemoval
  <2>1. homeActs' \in {homeActs, homeActs + 1} /\ UNCHANGED <<rows, activeTab>>
        /\ (home' = [home EXCEPT !.qr = NoRow] \/ home' = [home EXCEPT !.target = NoRow])
    BY <1>1 DEF CloseQrDialog, DropRemoval, ConfirmRemoval, HomeAct, Dialog
  <2>2. OnTheSpot(home') /\ home'.tab = activeTab
    BY <1>0, <2>1, OneFieldIs
  <2> QED
    BY <1>0, <2>1, <2>2, HomeStays
<1>2. CASE OpenSettings \/ OpenNew
  BY <1>2, AwayKeeps DEF OpenSettings, OpenNew
<1>3. CASE Back
  <2>1. home' = HomePage(activeTab) /\ UNCHANGED <<rows, activeTab, homeActs>>
    BY <1>3 DEF Back
  <2>2. home' \in HomeState /\ home'.tab = activeTab /\ home'.making = -1
    BY <1>0, <2>1, HomePageIs
  <2> QED
    BY <2>1, <2>2 DEF HomeInv
<1>4. CASE Made
  <2>1. home' = HomePage(activeTab) /\ activeTab' = activeTab /\ homeActs' = homeActs + 1
        /\ rows' = rows \union {HomeRow(homeActs + 3, home.making, TRUE)}
    BY <1>4 DEF Made, HomeAct
  <2>2. home' \in HomeState /\ home'.tab = activeTab /\ home'.making = -1
    BY <1>0, <2>1, HomePageIs
  <2> DEFINE m == homeActs + 3
             new == HomeRow(m, home.making, TRUE)
  <2>3. new.n = m
    BY DEF HomeRow
  <2> HIDE DEF new
  <2>4. \A r \in rows' : r.n \in 1..homeActs' + 2
    <3> SUFFICES ASSUME NEW r \in rows' PROVE r.n \in 1..homeActs' + 2
      OBVIOUS
    <3>1. CASE r \in rows
      BY <1>0, <2>1, <3>1 DEF HomeInv
    <3>2. CASE r = new
      BY <1>0, <2>1, <2>3, <3>2
    <3> QED
      BY <2>1, <3>1, <3>2 DEF new
  <2>5. homeActs' \in Nat /\ activeTab' \in Tabs /\ home'.tab = activeTab' /\ home'.making \in {-1, activeTab'}
    BY <1>0, <2>1, <2>2
  <2> QED
    BY <2>2, <2>4, <2>5 DEF HomeInv
<1>5. ASSUME NEW r \in rows, ToggleExpand(r.n) \/ OpenQrDialog(r) \/ AskRemoval(r) \/ OpenCard(r.n) \/ OpenFromPanel(r)
      PROVE  HomeInv'
  <2>1. CASE ToggleExpand(r.n)
    <3> DEFINE n == IF home.expanded = r.n THEN NoRow ELSE r.n
    <3>1. homeActs' \in {homeActs, homeActs + 1} /\ UNCHANGED <<rows, activeTab>> /\ home' = [home EXCEPT !.expanded = n]
      BY <2>1 DEF ToggleExpand, HomeAct
    <3>2. n \in Nat
      BY <1>0
    <3> HIDE DEF n
    <3>3. OnTheSpot(home') /\ home'.tab = activeTab
      BY <3>1, <3>2, OneFieldIs
    <3> QED
      BY <1>0, <3>1, <3>3, HomeStays
  <2>2. CASE OpenQrDialog(r) \/ AskRemoval(r)
    <3>1. homeActs' \in {homeActs, homeActs + 1} /\ UNCHANGED <<rows, activeTab>>
          /\ (home' = [home EXCEPT !.qr = r.n] \/ home' = [home EXCEPT !.target = r.n])
      BY <2>2 DEF OpenQrDialog, AskRemoval, Dialog
    <3>2. OnTheSpot(home') /\ home'.tab = activeTab
      BY <1>0, <3>1, OneFieldIs
    <3> QED
      BY <1>0, <3>1, <3>2, HomeStays
  <2>3. CASE OpenCard(r.n) \/ OpenFromPanel(r)
    BY <2>3, AwayKeeps DEF OpenCard, OpenFromPanel
  <2> QED
    BY <1>5, <2>1, <2>2, <2>3
<1>6. ASSUME NEW kind \in Tabs, PressTab(kind) \/ Fetching(kind) \/ Fetched(kind)
      PROVE  HomeInv'
  <2>1. CASE PressTab(kind)
    <3>1. homeActs' \in {homeActs, homeActs + 1} /\ UNCHANGED rows /\ home.at = "home" /\ SetTab(kind)
      BY <2>1 DEF PressTab, Reachable, HomeAct
    <3>2. OnTheSpot(home') /\ activeTab' \in Tabs /\ home'.tab = activeTab'
      BY <3>1, SetTabIs
    <3> QED
      BY <3>1, <3>2, HomeStays
  <2>2. CASE Fetching(kind) \/ Fetched(kind)
    <3>1. homeActs' \in {homeActs, homeActs + 1} /\ UNCHANGED <<rows, activeTab, home>>
      BY <2>2 DEF Fetching, Fetched, HomeAct
    <3>2. OnTheSpot(home')
      BY <3>1, OneFieldIs
    <3> QED
      BY <1>0, <3>1, <3>2, HomeStays
  <2> QED
    BY <1>6, <2>1, <2>2
<1>7. ASSUME NEW touches \in 1..2, TouchStart(touches) PROVE HomeInv'
  <2> DEFINE b == touches = 1
  <2>1. homeActs' \in {homeActs, homeActs + 1} /\ UNCHANGED <<rows, activeTab>> /\ home' = [home EXCEPT !.swipe = b] /\ b \in BOOLEAN
    BY <1>7 DEF TouchStart, HomeAct
  <2> HIDE DEF b
  <2>2. OnTheSpot(home') /\ home'.tab = activeTab
    BY <2>1, OneFieldIs
  <2> QED
    BY <1>0, <2>1, <2>2, HomeStays
<1>8. ASSUME NEW dx \in {-90, -59, 60}, NEW dy \in {0, 41}, TouchEnd(dx, dy) PROVE HomeInv'
  <2>1. home.at = "home" /\ UNCHANGED <<rows, homeActs>>
        /\ ((\E index : SetTab(index)) \/ (home' = [home EXCEPT !.swipe = FALSE] /\ UNCHANGED activeTab))
    BY <1>8 DEF TouchEnd
  <2>2. OnTheSpot(home') /\ activeTab' \in Tabs /\ home'.tab = activeTab'
    <3>1. CASE \E index : SetTab(index)
      BY <3>1, SetTabIs
    <3>2. CASE home' = [home EXCEPT !.swipe = FALSE] /\ UNCHANGED activeTab
      <4>1. FALSE \in BOOLEAN
        OBVIOUS
      <4> QED
        BY <1>0, <3>2, <4>1, OneFieldIs
    <3> QED
      BY <2>1, <3>1, <3>2
  <2> QED
    BY <2>1, <2>2, HomeStays
<1>9. ASSUME NEW c \in removals, RemovalEnds(c) PROVE HomeInv'
  <2>1. homeActs' = homeActs /\ activeTab' = activeTab /\ rows' \subseteq rows
        /\ (home' = [home EXCEPT !.expanded = NoRow] \/ home' = home)
    BY <1>9 DEF RemovalEnds
  <2>2. OnTheSpot(home') /\ home'.tab = activeTab
    BY <1>0, <2>1, OneFieldIs
  <2> QED
    BY <1>0, <2>1, <2>2, HomeStays
<1> QED
  BY <1>1, <1>2, <1>3, <1>4, <1>5, <1>6, <1>7, <1>8, <1>9 DEF HomeNext

\* The newest of the tab is shown first.
LEMMA NewestOnTop ==
  ASSUME NEW tab, NEW m \in Nat, \A r \in rows' : r.n \in 1..m, NEW new \in rows', new.n = m, new.kind = tab,
         home'.tab = tab, ~IsLoading(home)'
  PROVE  HomeBody(home)'.cards[1].n = m
<1> DEFINE ns == {r.n : r \in {s \in rows' : s.kind = tab}}
           items == Items(home)'
           k == Cardinality(ns)
<1>1. ns \in SUBSET (1..m) /\ m \in ns /\ \A n \in ns : \E r \in rows' : r.n = n
  OBVIOUS
<1>2. IsFiniteSet(ns) /\ ns \in SUBSET Int
  <2> DEFINE V == 1..m
  <2>1. IsFiniteSet(V) /\ V \subseteq Int
    BY FS_Interval
  <2>2. ns \in SUBSET V
    BY <1>1
  <2> HIDE DEF ns, V
  <2> QED
    BY <2>1, <2>2, SmallerPart
<1> HIDE DEF ns
<1>3. Upto(ns, m) = ns
  <2>1. \A n \in ns : n <= m
    BY <1>1
  <2> QED
    BY <2>1 DEF Upto
<1>4. k \in Nat /\ 1 \in 1..k /\ Kth(ns, k) = m
  <2>1. k \in 1..k /\ Kth(ns, k) = m
    BY <1>1, <1>2, <1>3, RankOf
  <2>2. k \in Nat
    BY <1>2, FS_CardinalityType
  <2> QED
    BY <2>1, <2>2
<1> HIDE DEF k
<1>5. items = [j \in 1..k |-> CHOOSE r \in rows' : r.n = Kth(ns, k + 1 - j)]
  BY DEF Items, Numbers, ns, k
<1> HIDE DEF items
<1>6. k + 1 - 1 = k
  BY <1>4
<1>7. items[1] = CHOOSE r \in rows' : r.n = m
  BY <1>4, <1>5, <1>6
<1>8. items[1].n = m
  BY <1>1, <1>7
<1>9. items # <<>> /\ 1 \in DOMAIN items
  <2>1. DOMAIN items = 1..k
    BY <1>5
  <2> QED
    BY <1>4, <2>1
<1>10. HomeBody(home)'.cards = [i \in DOMAIN items |-> Card(items[i])]
  BY <1>9 DEF HomeBody, items
<1>11. HomeBody(home)'.cards[1] = Card(items[1])
  BY <1>9, <1>10
<1> QED
  BY <1>8, <1>11 DEF Card

LEMMA HomeInvStart == WebInit => HomeInv
<1> SUFFICES ASSUME WebInit PROVE HomeInv
  OBVIOUS
<1>1. rows = {HomeRow(1, 0, TRUE), HomeRow(2, 1, FALSE)} /\ activeTab = 0 /\ home = HomePage(0) /\ homeActs = 0
  BY DEF WebInit, ItemsIdle, HomeInit
<1>2. \A r \in rows : r.n \in 1..homeActs + 2
  BY <1>1 DEF HomeRow
<1>3. 0 \in Tabs
  BY DEF Tabs
<1> QED
  BY <1>1, <1>2, <1>3, HomePageIs DEF HomeInv

LEMMA HomeStutter == HomeInv /\ UNCHANGED homeVars => HomeInv'
BY DEF HomeInv, homeVars

\* The list an item was made from, with the item on top.
LEMMA MadeOnTop ==
  ASSUME HomeInv, HomeInv', Made
  PROVE  /\ home'.tab = home.making
         /\ ~IsLoading(home)' => HomeBody(home)'.cards[1].n = homeActs + 3
<1>1. /\ home.making \in Tabs /\ rows' = rows \union {HomeRow(homeActs + 3, home.making, TRUE)}
      /\ home' = HomePage(activeTab) /\ activeTab \in Tabs /\ home.making = activeTab /\ homeActs \in Nat
      /\ homeActs' = homeActs + 1
  BY DEF Made, HomeAct, HomeInv, Tabs
<1>2. home'.tab = activeTab
  BY <1>1, HomePageIs
<1> DEFINE m == homeActs + 3
           new == HomeRow(m, home.making, TRUE)
<1>3. m \in Nat /\ \A r \in rows' : r.n \in 1..m
  <2> SUFFICES ASSUME NEW r \in rows' PROVE m \in Nat /\ r.n \in 1..m
    BY <1>1
  <2>1. r.n \in 1..homeActs' + 2
    BY DEF HomeInv
  <2> QED
    BY <1>1, <2>1
<1>4. new \in rows' /\ new.n = m /\ new.kind = activeTab
  BY <1>1 DEF HomeRow
<1> HIDE DEF new
<1>5. ~IsLoading(home)' => HomeBody(home)'.cards[1].n = m
  <2> HIDE DEF m
  <2> QED
    BY <1>2, <1>3, <1>4, NewestOnTop
<1> QED
  BY <1>1, <1>2, <1>5

LEMMA HomeInvKept == HomeInv /\ [WebNext]_webVars => HomeInv'
<1>1. [WebNext]_webVars => HomeNext \/ UNCHANGED homeVars
  BY DEF WebNext, webVars
<1> QED
  BY <1>1, HomeInvStep, HomeStutter

LEMMA DraftStep ==
  PagesInv /\ PagesInv' /\ [WebNext]_webVars =>
    [Typing(pg) /\ pg'.at = "detail" /\ ~(\E f \in TypedFields : \E v \in TypedValues(f) : Type(f, v))
       => \/ \A f \in pg.typed : pg'.form[f] = pg.form[f]
          \/ pg.mode = "edit" /\ (HandleBack \/ \E c \in calls : UpdateReturns(c) /\ c.mine)]_pages
<1> SUFFICES ASSUME PagesInv, PagesInv', [WebNext]_webVars, ~UNCHANGED pages,
                    Typing(pg), pg'.at = "detail", ~(\E f \in TypedFields : \E v \in TypedValues(f) : Type(f, v))
             PROVE  \/ \A f \in pg.typed : pg'.form[f] = pg.form[f]
                    \/ pg.mode = "edit" /\ (HandleBack \/ \E c \in calls : UpdateReturns(c) /\ c.mine)
  OBVIOUS
<1>1. PagesNext
  BY DEF WebNext, webVars
<1> QED
  BY <1>1, FormStays DEF FormKept

LEMMA MadeStep ==
  HomeInv /\ HomeInv' /\ [WebNext]_webVars =>
    [Made => /\ home'.tab = home.making
             /\ ~IsLoading(home)' => HomeBody(home)'.cards[1].n = homeActs + 3]_homeVars
BY MadeOnTop

\* What the user has typed stays until it is saved or given up, and who makes an item comes back
\* to the list it was made from (the detail pages _load, home-page.ts activeTab).
THEOREM WebUserKeepsPlace == WebSpec => UserKeepsPlace
<1>1. WebInit => PagesInv /\ HomeInv
  BY PagesStart, HomeInvStart
<1>2. PagesInv /\ HomeInv /\ [WebNext]_webVars => PagesInv' /\ HomeInv'
  BY PagesInvStep, HomeInvKept
<1> QED
  BY <1>1, <1>2, DraftStep, MadeStep, PTL DEF WebSpec, UserKeepsPlace, DraftKept, ComesBack

---------------------------------------------------------------------------
(* The history and its watchdog (events-page.ts, hub_liveness.go).         *)

Said(l, i) == l[i].message
Stalled == "uplink without downlink"
Other == "relay lost"
EventState == [message : Verdicts \union {Other}, count : Nat]
HasVerdict(l) == \E i \in 1..Len(l) : Said(l, i) \in Verdicts
\* A stall that is reported is the last verdict of the history, as long as it has one; a watchdog
\* that was started anew has reported nothing.
JournalInv ==
  /\ log \in Seq(EventState) /\ watch \in [seeded : BOOLEAN, reported : BOOLEAN]
  /\ (watch.reported => watch.seeded)
  /\ (watch.reported /\ HasVerdict(log) => StandingWarn(log))

\* Record folds a repeat, or appends, or appends and drops the oldest.
Folded(l, r, message) ==
  Len(l) > 0 /\ Len(r) = Len(l) /\ Said(l, Len(l)) = message /\ \A i \in 1..Len(l) : Said(r, i) = Said(l, i)
Grown(l, r, message) ==
  Len(r) = Len(l) + 1 /\ Said(r, Len(l) + 1) = message /\ \A i \in 1..Len(l) : Said(r, i) = Said(l, i)
Shifted(l, r, message) ==
  Len(l) > 0 /\ Len(r) = Len(l) /\ Said(r, Len(l)) = message /\ \A i \in 1..Len(l) - 1 : Said(r, i) = Said(l, i + 1)

LEMMA RecordedIs ==
  ASSUME NEW l \in Seq(EventState), NEW message \in Verdicts \union {Other}
  PROVE  /\ Recorded(l, message) \in Seq(EventState)
         /\ \/ Folded(l, Recorded(l, message), message)
            \/ Grown(l, Recorded(l, message), message)
            \/ Shifted(l, Recorded(l, message), message)
<1>0. Len(l) \in Nat /\ MaxLog \in Nat \ {0} /\ (l # <<>> => Len(l) \in 1..Len(l))
  <2>1. Len(l) \in Nat /\ (l # <<>> => Len(l) \in Nat \ {0})
    BY LenProperties, EmptySeq
  <2> QED
    BY <2>1, JournalAssumption
<1>1. CASE l # <<>> /\ Last(l).message = message
  <2> DEFINE n == Len(l)
             x == l[n]
             e == [x EXCEPT !.count = @ + 1]
             r == [l EXCEPT ![n] = e]
  <2>1. n \in 1..Len(l) /\ x.message = message
    BY <1>0, <1>1 DEF Last
  <2>2. x \in EventState
    BY <2>1, ElementOfSeq
  <2>3. Recorded(l, message) = r
    <3>1. Recorded(l, message) = [l EXCEPT ![Len(l)].count = @ + 1]
      BY <1>1 DEF Recorded
    <3>2. [l EXCEPT ![Len(l)].count = @ + 1] = r
      OBVIOUS
    <3> QED
      BY <3>1, <3>2
  <2>4. e \in EventState /\ e.message = message
    <3> HIDE DEF x
    <3> QED
      BY <2>1, <2>2 DEF EventState
  <2> HIDE DEF e
  <2>5. r \in Seq(EventState) /\ Len(r) = Len(l) /\ \A j \in 1..Len(l) : r[j] = IF j = n THEN e ELSE l[j]
    BY <2>1, <2>4, ExceptSeq
  <2> HIDE DEF r
  <2>6. \A i \in 1..Len(l) : Said(r, i) = Said(l, i)
    BY <2>1, <2>4, <2>5 DEF Said
  <2>7. Len(l) > 0 /\ Said(l, Len(l)) = message
    BY <1>0, <2>1 DEF Said
  <2>8. Folded(l, r, message)
    BY <2>5, <2>6, <2>7 DEF Folded
  <2> QED
    BY <2>3, <2>5, <2>8
<1>2. CASE ~(l # <<>> /\ Last(l).message = message)
  <2> DEFINE e == EventOf(message, 1)
             m == Append(l, e)
  <2>1. e \in EventState /\ e.message = message
    BY DEF EventOf, EventState
  <2>2. Recorded(l, message) = IF Len(m) > MaxLog THEN Tail(m) ELSE m
    BY <1>2 DEF Recorded
  <2> HIDE DEF e
  <2>3. m \in Seq(EventState) /\ m # <<>> /\ Len(m) = Len(l) + 1 /\ m[Len(l) + 1] = e /\ \A i \in 1..Len(l) : m[i] = l[i]
    BY <2>1, AppendProperties
  <2> HIDE DEF m
  <2>4. Said(m, Len(l) + 1) = message /\ \A i \in 1..Len(l) : Said(m, i) = Said(l, i)
    BY <2>1, <2>3 DEF Said
  <2>5. CASE Len(m) > MaxLog
    <3> DEFINE r == Tail(m)
    <3>1. r \in Seq(EventState) /\ Len(r) = Len(m) - 1 /\ \A i \in 1..Len(r) : r[i] = m[i + 1]
      BY <2>3, HeadTailProperties
    <3> HIDE DEF r
    <3>2. Len(m) = Len(l) + 1
      BY <2>3
    <3>3. Len(l) > 0 /\ Len(r) = Len(l)
      BY <1>0, <2>5, <3>1, <3>2
    <3>4. \A i \in 1..Len(l) : Said(r, i) = Said(m, i + 1)
      BY <3>1, <3>3 DEF Said
    <3>5. Said(r, Len(l)) = message
      BY <1>0, <2>4, <3>3, <3>4
    <3>6. \A i \in 1..Len(l) - 1 : i \in 1..Len(l) /\ i + 1 \in 1..Len(l)
      BY <1>0
    <3>7. Shifted(l, r, message)
      BY <2>4, <3>3, <3>4, <3>5, <3>6 DEF Shifted
    <3> QED
      BY <2>2, <2>5, <3>1, <3>7 DEF r
  <2>6. CASE ~(Len(m) > MaxLog)
    <3>1. Grown(l, m, message)
      BY <2>3, <2>4 DEF Grown
    <3> QED
      BY <2>2, <2>3, <2>6, <3>1
  <2> QED
    BY <2>5, <2>6
<1> QED
  BY <1>1, <1>2

StandsAt(l, i) == i \in 1..Len(l) /\ Said(l, i) = Stalled /\ \A j \in i + 1..Len(l) : Said(l, j) \notin Verdicts
LEMMA Standing ==
  ASSUME NEW l \in Seq(EventState)
  PROVE  StandingWarn(l) <=> \E i \in 1..Len(l) : StandsAt(l, i)
BY LenProperties DEF StandingWarn, StandsAt, Said, Stalled

\* What is recorded of a stall is the last verdict.
LEMMA WarningStands ==
  ASSUME NEW l \in Seq(EventState)
  PROVE  StandingWarn(Recorded(l, Stalled))
<1> DEFINE r == Recorded(l, Stalled)
<1>1. Stalled \in Verdicts \union {Other}
  BY DEF Verdicts, Stalled, Other
<1>2. /\ r \in Seq(EventState)
      /\ \/ Folded(l, r, Stalled) \/ Grown(l, r, Stalled)
         \/ Shifted(l, r, Stalled)
  BY <1>1, RecordedIs
<1> HIDE DEF r
<1>3. Len(l) \in Nat /\ Len(r) \in Nat
  BY <1>2, LenProperties
<1>4. Len(r) \in 1..Len(r) /\ Said(r, Len(r)) = Stalled
  BY <1>2, <1>3 DEF Folded, Grown, Shifted
<1>5. StandsAt(r, Len(r))
  BY <1>3, <1>4 DEF StandsAt
<1> QED
  BY <1>2, <1>4, <1>5, Standing DEF r

\* Another event leaves it there, or drops it with every verdict before it.
LEMMA OthersLeaveIt ==
  ASSUME NEW l \in Seq(EventState), HasVerdict(l) => StandingWarn(l)
  PROVE  HasVerdict(Recorded(l, Other)) => StandingWarn(Recorded(l, Other))
<1> DEFINE r == Recorded(l, Other)
<1>1. Other \in Verdicts \union {Other} /\ Other \notin Verdicts
  BY DEF Verdicts, Stalled, Other
<1>2. /\ r \in Seq(EventState)
      /\ Folded(l, r, Other) \/ Grown(l, r, Other) \/ Shifted(l, r, Other)
  BY <1>1, RecordedIs
<1> HIDE DEF r
<1>3. Len(l) \in Nat /\ Len(r) \in Nat
  BY <1>2, LenProperties
<1> SUFFICES ASSUME NEW v \in 1..Len(r), Said(r, v) \in Verdicts PROVE StandingWarn(r)
  BY DEF HasVerdict, r
<1>4. CASE Folded(l, r, Other)
  <2>1. HasVerdict(l)
    BY <1>4 DEF Folded, HasVerdict
  <2>2. PICK i \in 1..Len(l) : StandsAt(l, i)
    BY <2>1, Standing
  <2>3. i \in 1..Len(r) /\ StandsAt(r, i)
    BY <1>3, <1>4, <2>2 DEF Folded, StandsAt
  <2> QED
    BY <1>2, <2>3, Standing
<1>5. CASE Grown(l, r, Other)
  <2>1. v \in 1..Len(l)
    BY <1>1, <1>3, <1>5 DEF Grown
  <2>2. HasVerdict(l)
    BY <1>5, <2>1 DEF Grown, HasVerdict
  <2>3. PICK i \in 1..Len(l) : StandsAt(l, i)
    BY <2>2, Standing
  <2>4. i \in 1..Len(r) /\ Said(r, i) = Stalled
    BY <1>3, <1>5, <2>3 DEF Grown, StandsAt
  <2>5. ASSUME NEW j \in i + 1..Len(r) PROVE Said(r, j) \notin Verdicts
    BY <1>1, <1>3, <1>5, <2>3, <2>5 DEF Grown, StandsAt
  <2>6. StandsAt(r, i)
    BY <2>4, <2>5 DEF StandsAt
  <2> QED
    BY <1>2, <2>4, <2>6, Standing
<1>6. CASE Shifted(l, r, Other)
  <2>1. v \in 1..Len(l) - 1 /\ v + 1 \in 1..Len(l) /\ Said(l, v + 1) \in Verdicts
    BY <1>1, <1>3, <1>6 DEF Shifted
  <2>2. HasVerdict(l)
    BY <2>1 DEF HasVerdict
  <2>3. PICK i \in 1..Len(l) : StandsAt(l, i)
    BY <2>2, Standing
  <2>4. i >= v + 1
    <3> SUFFICES ASSUME i < v + 1 PROVE FALSE
      BY <2>1, <2>3
    <3>1. v + 1 \in i + 1..Len(l)
      BY <1>3, <2>1, <2>3
    <3> QED
      BY <2>1, <2>3, <3>1 DEF StandsAt
  <2>5. i - 1 \in 1..Len(l) - 1 /\ i - 1 \in 1..Len(r) /\ i - 1 + 1 = i
    BY <1>3, <1>6, <2>1, <2>3, <2>4 DEF Shifted
  <2>6. Said(r, i - 1) = Stalled
    BY <1>6, <2>3, <2>5 DEF Shifted, StandsAt
  <2>7. ASSUME NEW j \in i - 1 + 1..Len(r) PROVE Said(r, j) \notin Verdicts
    <3>1. CASE j = Len(l)
      BY <1>1, <1>6, <3>1 DEF Shifted
    <3>2. CASE j # Len(l)
      <4>1. j \in 1..Len(l) - 1 /\ j + 1 \in i + 1..Len(l)
        BY <1>3, <1>6, <2>3, <2>5, <3>2 DEF Shifted
      <4> QED
        BY <1>6, <2>3, <4>1 DEF Shifted, StandsAt
    <3> QED
      BY <3>1, <3>2
  <2>8. StandsAt(r, i - 1)
    BY <2>5, <2>6, <2>7 DEF StandsAt
  <2> QED
    BY <1>2, <2>5, <2>8, Standing
<1> QED
  BY <1>2, <1>4, <1>5, <1>6

\* The page, which has the events newest first, tells what the watchdog told.
LEMMA PageTellsIt ==
  ASSUME NEW l \in Seq(EventState)
  PROVE  HubNoReflow(NewestFirst(l)) <=> StandingWarn(l)
<1> DEFINE n == Len(l)
           e == NewestFirst(l)
<1>1. n \in Nat
  BY LenProperties
<1>2. e = [i \in 1..n |-> l[n - i + 1]]
  BY DEF NewestFirst, Reverse
<1> HIDE DEF e, n
<1>3. DOMAIN e = 1..n /\ \A i \in 1..n : e[i] = l[n - i + 1]
  BY <1>2
<1>4. \A i \in 1..n : n - i + 1 \in 1..n /\ n - (n - i + 1) + 1 = i
  BY <1>1
<1>5. ASSUME HubNoReflow(e) PROVE StandingWarn(l)
  <2>1. PICK i \in 1..n : Said(e, i) = Stalled /\ \A j \in 1..i - 1 : Said(e, j) \notin Verdicts
    BY <1>3, <1>5 DEF HubNoReflow, Said, Stalled
  <2>2. n - i + 1 \in 1..n /\ Said(l, n - i + 1) = Stalled
    BY <1>3, <1>4, <2>1 DEF Said
  <2>3. ASSUME NEW j \in n - i + 1 + 1..n PROVE Said(l, j) \notin Verdicts
    <3>1. n - j + 1 \in 1..i - 1 /\ n - j + 1 \in 1..n /\ n - (n - j + 1) + 1 = j
      BY <1>1
    <3>2. Said(e, n - j + 1) = Said(l, j)
      BY <1>3, <3>1 DEF Said
    <3> QED
      BY <2>1, <3>1, <3>2
  <2>4. StandsAt(l, n - i + 1)
    BY <2>2, <2>3 DEF StandsAt, n
  <2> QED
    BY <2>2, <2>4, Standing DEF n
<1>6. ASSUME StandingWarn(l) PROVE HubNoReflow(e)
  <2>1. PICK i \in 1..n : StandsAt(l, i)
    BY <1>6, Standing DEF n
  <2>2. n - i + 1 \in 1..n /\ e[n - i + 1] = l[i]
    <3>1. n - i + 1 \in 1..n /\ n - (n - i + 1) + 1 = i
      BY <1>4
    <3> QED
      BY <1>3, <3>1
  <2>3. ASSUME NEW j \in 1..(n - i + 1) - 1 PROVE Said(e, j) \notin Verdicts
    <3>1. j \in 1..n /\ n - j + 1 \in i + 1..n
      BY <1>1
    <3>2. Said(e, j) = Said(l, n - j + 1)
      BY <1>3, <3>1 DEF Said
    <3> QED
      BY <2>1, <3>1, <3>2 DEF StandsAt, n
  <2> QED
    <3> DEFINE k == n - i + 1
    <3>1. k \in DOMAIN e
      BY <1>3, <2>2
    <3>2. Said(e, k) = Stalled
      BY <2>1, <2>2 DEF StandsAt, Said
    <3>3. \A j \in 1..k - 1 : Said(e, j) \notin Verdicts
      BY <2>3
    <3> HIDE DEF k
    <3> QED
      BY <3>1, <3>2, <3>3 DEF HubNoReflow, Said, Stalled
<1> QED
  BY <1>5, <1>6 DEF e

LEMMA JournalInvStart == WebInit => JournalInv
<1> SUFFICES ASSUME WebInit PROVE JournalInv
  OBVIOUS
<1>1. log = <<>> /\ watch = [seeded |-> FALSE, reported |-> FALSE]
  BY DEF WebInit, OthersIdle, JournalIdle, JournalInit
<1>2. log \in Seq(EventState)
  BY <1>1, EmptySeq
<1> QED
  BY <1>1, <1>2 DEF JournalInv

\* What a tick of the watchdog, a restart or another event leaves.
LEMMA WatchedKeeps ==
  ASSUME JournalInv, Watched
  PROVE  JournalInv'
<1>0. log \in Seq(EventState) /\ watch \in [seeded : BOOLEAN, reported : BOOLEAN]
      /\ "downlink recovered" \in Verdicts \union {Other} /\ Stalled \in Verdicts \union {Other} /\ Other \in Verdicts \union {Other}
      /\ Stalled = "uplink without downlink" /\ Other = "relay lost"
  BY DEF JournalInv, Verdicts, Stalled, Other
<1>1. CASE Restarted
  <2>1. log' = log /\ watch' = [seeded |-> FALSE, reported |-> FALSE]
    BY <1>1 DEF Restarted
  <2> QED
    BY <1>0, <2>1 DEF JournalInv
<1>2. CASE OtherEvent
  <2>1. log' = Recorded(log, Other) /\ watch' = watch
    BY <1>0, <1>2 DEF OtherEvent
  <2>2. log' \in Seq(EventState)
    BY <1>0, <2>1, RecordedIs
  <2>3. watch.reported => (HasVerdict(log') => StandingWarn(log'))
    BY <1>0, <2>1, OthersLeaveIt DEF JournalInv
  <2> QED
    BY <2>1, <2>2, <2>3 DEF JournalInv
<1>3. ASSUME NEW up \in BOOLEAN, NEW down \in BOOLEAN, Tick(up, down)
      PROVE  JournalInv'
  <2>1. CASE ~watch.seeded
    <3>1. watch' = [watch EXCEPT !.seeded = TRUE] /\ (log' = log \/ log' = Recorded(log, "downlink recovered"))
      BY <1>3, <2>1 DEF Tick
    <3>2. watch' \in [seeded : BOOLEAN, reported : BOOLEAN] /\ ~watch'.reported
      BY <1>0, <2>1, <3>1 DEF JournalInv
    <3>3. log' \in Seq(EventState)
      BY <1>0, <3>1, RecordedIs
    <3> QED
      BY <3>2, <3>3 DEF JournalInv
  <2>2. CASE watch.seeded /\ down
    <3>1. watch' = [watch EXCEPT !.reported = FALSE] /\ (log' = log \/ log' = Recorded(log, "downlink recovered"))
      BY <1>3, <2>2 DEF Tick
    <3>2. watch' \in [seeded : BOOLEAN, reported : BOOLEAN] /\ ~watch'.reported
      BY <1>0, <3>1
    <3>3. log' \in Seq(EventState)
      BY <1>0, <3>1, RecordedIs
    <3> QED
      BY <3>2, <3>3 DEF JournalInv
  <2>3. CASE watch.seeded /\ ~down
    <3> DEFINE told == watch.reported \/ up
    <3>1. watch' = [watch EXCEPT !.reported = told] /\ told \in BOOLEAN
          /\ log' = IF up /\ ~watch.reported THEN Recorded(log, Stalled) ELSE log
      BY <1>0, <1>3, <2>3 DEF Tick
    <3>2. told <=> watch.reported \/ up
      OBVIOUS
    <3> HIDE DEF told
    <3>3. watch' \in [seeded : BOOLEAN, reported : BOOLEAN] /\ (watch'.reported <=> told) /\ watch'.seeded
      BY <1>0, <2>3, <3>1
    <3>4. CASE up /\ ~watch.reported
      <4>1. log' \in Seq(EventState) /\ StandingWarn(log')
        BY <1>0, <3>1, <3>4, RecordedIs, WarningStands
      <4> QED
        BY <3>3, <4>1 DEF JournalInv
    <3>5. CASE ~(up /\ ~watch.reported)
      <4>1. log' = log /\ (watch'.reported => watch.reported)
        BY <3>1, <3>2, <3>3, <3>5
      <4> QED
        BY <1>0, <3>3, <4>1 DEF JournalInv
    <3> QED
      BY <3>4, <3>5
  <2> QED
    BY <2>1, <2>2, <2>3
<1> QED
  BY <1>1, <1>2, <1>3 DEF Watched

LEMMA JournalStays ==
  ASSUME JournalInv, UNCHANGED watch, log' = log \/ log' = <<>>
  PROVE  JournalInv'
<1>1. log' \in Seq(EventState) /\ (HasVerdict(log') => log' = log)
  <2>1. ~HasVerdict(<<>>) /\ <<>> \in Seq(EventState)
    BY EmptySeq DEF HasVerdict
  <2> QED
    BY <2>1 DEF JournalInv
<1> QED
  BY <1>1 DEF JournalInv

LEMMA JournalInvStep == JournalInv /\ JournalNext => JournalInv'
<1> SUFFICES ASSUME JournalInv, JournalNext PROVE JournalInv'
  OBVIOUS
<1>1. CASE Watched
  BY <1>1, WatchedKeeps
<1>2. CASE LeavePolled \/ AskClear \/ DropClear \/ ConfirmClear
  BY <1>2, JournalStays DEF LeavePolled, AskClear, DropClear, ConfirmClear, Unread
<1>3. CASE \E key \in MeshPeers : PressToggle(key)
  BY <1>3, JournalStays DEF PressToggle, Unread
<1>4. CASE \E slot \in 1..2 : OnLoad(slot)
  BY <1>4, JournalStays DEF OnLoad, TimerFires, LoadServed, LoadReturns, LoadFails, Unread
<1>5. CASE \E c \in toggles : OnToggle(c)
  BY <1>5, JournalStays DEF OnToggle, ClearEnds, ToggleServed, ToggleReturns, ToggleFails, Unread
<1> QED
  BY <1>1, <1>2, <1>3, <1>4, <1>5 DEF JournalNext

LEMMA JournalInvKept == JournalInv /\ [WebNext]_webVars => JournalInv'
<1>1. [WebNext]_webVars => JournalNext \/ UNCHANGED <<log, watch>>
  BY DEF WebNext, webVars, journalVars
<1> QED
  BY <1>1, JournalInvStep, JournalStays

\* A stall that stands is told (events-page.ts, hub_liveness.go standingWarn).
THEOREM WebStallIsTold == WebSpec => []StallIsTold
<1>1. JournalInv => StallIsTold
  <2> SUFFICES ASSUME JournalInv PROVE StallIsTold
    OBVIOUS
  <2>1. log \in Seq(EventState) /\ (HubNoReflow(NewestFirst(log)) <=> StandingWarn(log))
    BY PageTellsIt DEF JournalInv
  <2>2. (\E i \in DOMAIN log : log[i].message \in Verdicts) => HasVerdict(log)
    BY <2>1, LenProperties DEF HasVerdict, Said
  <2> QED
    BY <2>1, <2>2 DEF JournalInv, StallIsTold, Degraded
<1> QED
  BY <1>1, JournalInvStart, JournalInvKept, PTL DEF WebSpec

---------------------------------------------------------------------------
(* The allowlist of a hub (tunnel-peers-page.ts, tunnel_handler.go).       *)

PeerState ==
  [key : PeerKeys \union {NoKey}, ip : Nat, disabled : BOOLEAN, lan : BOOLEAN, ipTouched : BOOLEAN, lanTouched : BOOLEAN]
\* A row as the daemon tells it.
PlainRow(r) == r \in PeerState /\ r.key \in PeerKeys /\ ~r.ipTouched
PlainRows == {r \in PeerState : PlainRow(r)}
DistinctKeys(table) == \A i, j \in DOMAIN table : table[i].key = table[j].key => i = j

\* A row of a save tells its address only if that was typed into the editor that is saved.
PutOK(c) ==
  /\ c \in [rows : Seq(PeerState), next : {c.next}, typed : SUBSET PeerKeys, at : {"wire", "answered", "orphan"}, ans : {c.ans}]
  /\ \A i \in DOMAIN c.rows : c.rows[i].key \in PeerKeys /\ (c.rows[i].ipTouched => c.rows[i].key \in c.typed)
  /\ c.at = "answered" => c.ans \in Seq(PlainRows)
PeersPageOK(p) ==
  /\ p \in [rows : Seq(PlainRows), editing : {"none", "row", "new"}, at : Nat, draft : PeerState, typed : BOOLEAN,
            confirm : Nat, saving : BOOLEAN, pending : SUBSET PeerKeys]
  /\ p.draft.ipTouched => p.typed
HubOK(table) == table \in Seq(PlainRows) /\ DistinctKeys(table) /\ \A i \in DOMAIN table : table[i].ip # 0
PeersInv ==
  /\ HubOK(hub) /\ known \in Seq(PlainRows) /\ knocks \in SUBSET PeerKeys /\ PeersPageOK(peersPage)
  /\ \A c \in puts : PutOK(c)

LEMMA RowsOf ==
  ASSUME NEW R, NEW table \in Seq(R)
  PROVE  Len(table) \in Nat /\ DOMAIN table = 1..Len(table) /\ \A i \in DOMAIN table : table[i] \in R
BY LenProperties, ElementOfSeq

\* There is a free address for every row without one.
LEMMA AddressesSuffice ==
  ASSUME NEW table \in Seq(PeerState), DistinctKeys(table), \A i \in DOMAIN table : table[i].key \in PeerKeys
  PROVE  LET blanks == {i \in DOMAIN table : table[i].ip = 0}
             free   == Addresses \ Named(table)
         IN  /\ IsFiniteSet(blanks) /\ blanks \in SUBSET Int /\ IsFiniteSet(free) /\ free \in SUBSET Int
             /\ Cardinality(blanks) \in Nat /\ Cardinality(free) \in Nat /\ Cardinality(blanks) <= Cardinality(free)
<1> DEFINE blanks == {i \in DOMAIN table : table[i].ip = 0}
           free   == Addresses \ Named(table)
           n == Len(table)
           D == 1..n
           S == D \ blanks
           m == Cardinality(PeerKeys)
           A == 1..m + 1
           N == Named(table)
<1>1. n \in Nat /\ DOMAIN table = D /\ \A i \in D : table[i] \in PeerState
  BY RowsOf
<1>2. IsFiniteSet(D) /\ Cardinality(D) = n
  BY <1>1, FS_Interval
<1>3. IsFiniteSet(PeerKeys) /\ m \in Nat
  BY PeersAssumption, FS_CardinalityType
<1>4. n <= m
  <2> DEFINE f == [i \in D |-> table[i].key]
  <2>1. f \in [D -> PeerKeys] /\ \A i, j \in D : f[i] = f[j] => i = j
    BY <1>1 DEF DistinctKeys
  <2> HIDE DEF f, D
  <2>2. f \in Injection(D, PeerKeys)
    BY <2>1 DEF Injection, IsInjective
  <2> QED
    BY <1>2, <1>3, <2>2, FS_Injection
<1>5. blanks \in SUBSET D
  BY <1>1
<1>6. N = {table[i].ip : i \in S}
  BY <1>1 DEF Named
<1>7. IsFiniteSet(A) /\ Cardinality(A) = m + 1 /\ A = Addresses /\ A \in SUBSET Int
  <2>1. m + 1 \in Nat
    BY <1>3
  <2> QED
    BY <2>1, FS_Interval DEF Addresses
<1> HIDE DEF blanks, D, A, N, m
<1>8. IsFiniteSet(blanks) /\ Cardinality(blanks) \in Nat /\ blanks \in SUBSET Int
  <2>1. D \in SUBSET Int
    BY <1>1 DEF D
  <2> QED
    BY <1>2, <1>5, <2>1, SmallerPart
<1>9. IsFiniteSet(S) /\ Cardinality(S) = n - Cardinality(blanks)
  <2>1. D \intersect blanks = blanks
    BY <1>5
  <2> QED
    BY <1>2, <2>1, FS_Difference
<1> HIDE DEF S
<1>10. IsFiniteSet(N) /\ Cardinality(N) <= Cardinality(S)
  <2> DEFINE g == [i \in S |-> table[i].ip]
  <2>1. g \in [S -> N] /\ \A x \in N : \E i \in S : g[i] = x
    BY <1>6
  <2> HIDE DEF g
  <2>2. g \in Surjection(S, N)
    BY <2>1 DEF Surjection
  <2> QED
    BY <1>9, <2>2, FS_Surjection
<1> DEFINE B == A \intersect N
<1>11. IsFiniteSet(A \ N) /\ Cardinality(A \ N) = (m + 1) - Cardinality(B)
  BY <1>7, FS_Difference
<1>12. Cardinality(B) \in Nat /\ Cardinality(N) \in Nat /\ Cardinality(B) <= Cardinality(N)
  <2>1. B \in SUBSET N
    OBVIOUS
  <2> HIDE DEF B
  <2> QED
    BY <1>10, <2>1, SmallerPart
<1> HIDE DEF B
<1>13. Cardinality(A \ N) \in Nat
  BY <1>11, FS_CardinalityType
<1>14. Cardinality(blanks) <= Cardinality(A \ N)
  BY <1>1, <1>3, <1>4, <1>8, <1>9, <1>10, <1>11, <1>12, <1>13
<1>15. free = A \ N /\ free \in SUBSET Int
  BY <1>7 DEF N
<1> QED
  BY <1>8, <1>11, <1>13, <1>14, <1>15 DEF blanks

\* The same spokes in the same order, and no address taken from one.
SameRows(l, r) ==
  /\ DOMAIN r = DOMAIN l
  /\ \A i \in DOMAIN l : r[i].key = l[i].key /\ (l[i].ip # 0 => r[i].ip = l[i].ip)

\* AllocatePeerIPs: a row that has an address keeps it, the others get one.
LEMMA AllocateIs ==
  ASSUME NEW table \in Seq(PlainRows), DistinctKeys(table)
  PROVE  HubOK(Allocate(table)) /\ SameRows(table, Allocate(table))
<1> DEFINE blanks == {i \in DOMAIN table : table[i].ip = 0}
           free   == Addresses \ Named(table)
           rank(i) == Cardinality(Upto(blanks, i))
<1>1. Len(table) \in Nat /\ DOMAIN table = 1..Len(table) /\ \A i \in DOMAIN table : table[i] \in PlainRows
  BY RowsOf
<1>2. table \in Seq(PeerState) /\ \A i \in DOMAIN table : table[i].key \in PeerKeys
  <2>1. \A i \in DOMAIN table : table[i] \in PeerState /\ table[i].key \in PeerKeys
    BY <1>1 DEF PlainRows, PlainRow
  <2>2. table = [i \in 1..Len(table) |-> table[i]]
    BY LenProperties
  <2> QED
    BY <1>1, <2>1, <2>2, IsASeq
<1>3. /\ IsFiniteSet(blanks) /\ blanks \in SUBSET Int /\ IsFiniteSet(free) /\ free \in SUBSET Int
      /\ Cardinality(blanks) \in Nat /\ Cardinality(free) \in Nat /\ Cardinality(blanks) <= Cardinality(free)
  BY <1>2, AddressesSuffice
<1>4. \A i \in blanks : rank(i) \in 1..Cardinality(free)
  <2> SUFFICES ASSUME NEW i \in blanks PROVE rank(i) \in 1..Cardinality(free)
    OBVIOUS
  <2> HIDE DEF blanks, free
  <2>1. rank(i) \in 1..Cardinality(blanks)
    BY <1>3, RankOf
  <2> HIDE DEF rank
  <2> QED
    BY <1>3, <2>1
<1>5. \A i \in blanks : Kth(free, rank(i)) \in free
  <2> HIDE DEF blanks, free, rank
  <2> QED
    BY <1>3, <1>4, RankSplits
<1>6. free \in SUBSET (Nat \ {0})
  BY PeersAssumption, FS_CardinalityType DEF Addresses
<1> DEFINE a == Allocate(table)
           row(i) == IF i \notin blanks THEN table[i] ELSE [table[i] EXCEPT !.ip = Kth(free, rank(i))]
<1>7. a = [i \in DOMAIN table |-> row(i)]
  BY DEF Allocate
<1>8. ASSUME NEW i \in DOMAIN table
      PROVE  /\ row(i) \in PlainRows /\ row(i).key = table[i].key /\ row(i).ip # 0
             /\ table[i].ip # 0 => row(i).ip = table[i].ip
  <2> DEFINE ip == Kth(free, rank(i))
  <2>1. CASE table[i].ip # 0
    BY <1>1, <2>1
  <2>2. CASE table[i].ip = 0
    <3>1. ip \in Nat \ {0}
      BY <1>5, <1>6, <2>2
    <3>2. row(i) = [table[i] EXCEPT !.ip = ip]
      BY <2>2
    <3> HIDE DEF ip
    <3>3. [table[i] EXCEPT !.ip = ip] \in PlainRows /\ [table[i] EXCEPT !.ip = ip].key = table[i].key /\ [table[i] EXCEPT !.ip = ip].ip = ip
      BY <1>1, <3>1 DEF PlainRows, PlainRow, PeerState
    <3> QED
      BY <2>2, <3>1, <3>2, <3>3
  <2> QED
    BY <2>1, <2>2
<1> HIDE DEF row, a
<1>9. DOMAIN a = DOMAIN table /\ \A i \in DOMAIN table : a[i] = row(i)
  BY <1>7
<1>10. a \in Seq(PlainRows)
  BY <1>1, <1>7, <1>8, IsASeq
<1>11. DistinctKeys(a) /\ \A i \in DOMAIN a : a[i].ip # 0
  BY <1>8, <1>9 DEF DistinctKeys
<1> QED
  BY <1>8, <1>9, <1>10, <1>11 DEF HubOK, SameRows, a

LEMMA RowForIs ==
  ASSUME NEW R, NEW table \in Seq(R), NEW key, RowFor(table, key) # <<>>
  PROVE  \E i \in DOMAIN table : RowFor(table, key)[1] = table[i] /\ table[i].key = key
<1> DEFINE at == {i \in DOMAIN table : table[i].key = key}
           l == Pick(table, at)
<1>1. at \in SUBSET DOMAIN table /\ RowFor(table, key) = l
  BY DEF RowFor
<1>2. l \in Seq(R) /\ \A k \in DOMAIN l : Kth(at, k) \in at /\ l[k] = table[Kth(at, k)]
  BY <1>1, PickIs
<1>3. 1 \in DOMAIN l
  <2> HIDE DEF l
  <2> QED
    BY <1>1, <1>2, EmptySeq, LenProperties
<1> QED
  BY <1>1, <1>2, <1>3

LEMMA RowForFinds ==
  ASSUME NEW R, NEW table \in Seq(R), NEW i \in DOMAIN table
  PROVE  RowFor(table, table[i].key) # <<>>
<1> DEFINE at == {j \in DOMAIN table : table[j].key = table[i].key}
<1>1. at \in SUBSET DOMAIN table /\ i \in at /\ RowFor(table, table[i].key) = Pick(table, at)
  BY DEF RowFor
<1> HIDE DEF at
<1> QED
  BY <1>1, PickIs

\* settlePeerIPs: what a save makes of the rows it names.
LEMMA SettleIs ==
  ASSUME HubOK(hub), NEW row \in PeerState, row.key \in PeerKeys
  PROVE  /\ Settle(row) \in PlainRows /\ Settle(row).key = row.key
         /\ ~row.ipTouched => \A i \in DOMAIN hub : hub[i].key = row.key => Settle(row).ip = hub[i].ip
<1> DEFINE old == RowFor(hub, row.key)
           ip == IF row.ipTouched THEN row.ip ELSE IF old = <<>> THEN 0 ELSE old[1].ip
<1>1. hub \in Seq(PlainRows) /\ DistinctKeys(hub)
  BY DEF HubOK
<1>2. old # <<>> => \E i \in DOMAIN hub : old[1] = hub[i] /\ hub[i].key = row.key
  BY <1>1, RowForIs
<1>3. \A i \in DOMAIN hub : hub[i] \in PlainRows
  BY <1>1, RowsOf
<1>4. \A i \in DOMAIN hub : hub[i].key = row.key => old # <<>> /\ old[1] = hub[i]
  <2> SUFFICES ASSUME NEW i \in DOMAIN hub, hub[i].key = row.key PROVE old # <<>> /\ old[1] = hub[i]
    OBVIOUS
  <2>1. old # <<>>
    BY <1>1, RowForFinds
  <2>2. PICK j \in DOMAIN hub : old[1] = hub[j] /\ hub[j].key = row.key
    BY <1>2, <2>1
  <2> QED
    BY <1>1, <2>1, <2>2 DEF DistinctKeys
<1> HIDE DEF old
<1>5. ip \in Nat
  BY <1>2, <1>3 DEF PeerState, PlainRows
<1>6. Settle(row) = [row EXCEPT !.ip = ip, !.ipTouched = FALSE, !.lanTouched = FALSE]
  BY DEF Settle, Mention, old
<1>7. ~row.ipTouched => \A i \in DOMAIN hub : hub[i].key = row.key => ip = hub[i].ip
  BY <1>4
<1> HIDE DEF ip
<1>8. Settle(row) \in PlainRows /\ Settle(row).key = row.key /\ Settle(row).ip = ip
  BY <1>5, <1>6 DEF PlainRows, PlainRow, PeerState
<1> QED
  BY <1>7, <1>8

LEMMA AppliedIs ==
  ASSUME HubOK(hub), NEW c, PutOK(c)
  PROVE  /\ Applied(c.rows) \in Seq(PlainRows) /\ DOMAIN Applied(c.rows) = DOMAIN c.rows
         /\ \A j \in DOMAIN c.rows : /\ Applied(c.rows)[j].key = c.rows[j].key
                                     /\ c.rows[j].key \notin c.typed =>
                                          \A i \in DOMAIN hub : hub[i].key = c.rows[j].key => Applied(c.rows)[j].ip = hub[i].ip
<1> DEFINE table == c.rows
           meant(j) == [table[j] EXCEPT !.lan = Allowance(table[j])]
<1>1. table \in Seq(PeerState) /\ \A j \in DOMAIN table : table[j].key \in PeerKeys /\ (table[j].ipTouched => table[j].key \in c.typed)
  BY DEF PutOK
<1>2. Len(table) \in Nat /\ DOMAIN table = 1..Len(table) /\ \A j \in DOMAIN table : table[j] \in PeerState
  BY <1>1, RowsOf
<1>3. Applied(table) = [j \in DOMAIN table |-> Settle(meant(j))]
  BY DEF Applied
<1> HIDE DEF table
<1>4. ASSUME NEW j \in DOMAIN table
      PROVE  /\ Settle(meant(j)) \in PlainRows /\ Settle(meant(j)).key = table[j].key
             /\ table[j].key \notin c.typed =>
                  \A i \in DOMAIN hub : hub[i].key = table[j].key => Settle(meant(j)).ip = hub[i].ip
  <2> DEFINE r == table[j]
             allowance == Allowance(r)
             q == [r EXCEPT !.lan = allowance]
  <2>1. r \in PeerState /\ r.key \in PeerKeys /\ (r.ipTouched => r.key \in c.typed)
    BY <1>1, <1>2
  <2>2. meant(j) = q
    OBVIOUS
  <2> HIDE DEF r
  <2>3. allowance \in BOOLEAN
    BY <2>1 DEF Allowance, PeerState
  <2> HIDE DEF allowance
  <2>4. q \in PeerState /\ q.key = r.key /\ (q.ipTouched <=> r.ipTouched)
    BY <2>1, <2>3 DEF PeerState
  <2> HIDE DEF q
  <2>5. /\ Settle(q) \in PlainRows /\ Settle(q).key = q.key
        /\ ~q.ipTouched => \A i \in DOMAIN hub : hub[i].key = q.key => Settle(q).ip = hub[i].ip
    BY <2>1, <2>4, SettleIs
  <2>6. /\ Settle(q) \in PlainRows /\ Settle(q).key = r.key
        /\ r.key \notin c.typed => \A i \in DOMAIN hub : hub[i].key = r.key => Settle(q).ip = hub[i].ip
    BY <2>1, <2>4, <2>5
  <2> HIDE DEF meant
  <2> QED
    BY <2>2, <2>6 DEF r
<1> HIDE DEF meant
<1>5. DOMAIN Applied(table) = DOMAIN table /\ \A j \in DOMAIN table : Applied(table)[j] = Settle(meant(j))
  BY <1>3
<1>6. Applied(table) \in Seq(PlainRows)
  BY <1>2, <1>3, <1>4, IsASeq
<1> QED
  BY <1>4, <1>5, <1>6 DEF table

\* What the daemon has after a save.
LEMMA ServedIs ==
  ASSUME HubOK(hub), NEW c, PutOK(c), PutServed(c)
  PROVE  /\ HubOK(hub') /\ DOMAIN hub' = DOMAIN c.rows
         /\ \A j \in DOMAIN hub' : /\ hub'[j].key = c.rows[j].key
                                   /\ hub'[j].key \notin c.typed =>
                                        \A i \in DOMAIN hub : hub[i].key = hub'[j].key => hub'[j].ip = hub[i].ip
<1> DEFINE table == Applied(c.rows)
<1>1. /\ table \in Seq(PlainRows) /\ DOMAIN table = DOMAIN c.rows
      /\ \A j \in DOMAIN c.rows : /\ table[j].key = c.rows[j].key
                                  /\ c.rows[j].key \notin c.typed =>
                                       \A i \in DOMAIN hub : hub[i].key = c.rows[j].key => table[j].ip = hub[i].ip
  BY AppliedIs
<1>2. hub' = Allocate(table) /\ IsInjective([i \in DOMAIN c.rows |-> c.rows[i].key])
  BY DEF PutServed, Acceptable
<1> HIDE DEF table
<1>3. DistinctKeys(table)
  <2> SUFFICES ASSUME NEW i \in DOMAIN c.rows, NEW j \in DOMAIN c.rows, c.rows[i].key = c.rows[j].key PROVE i = j
    BY <1>1 DEF DistinctKeys
  <2> DEFINE f == [k \in DOMAIN c.rows |-> c.rows[k].key]
  <2>1. DOMAIN f = DOMAIN c.rows /\ f[i] = f[j]
    OBVIOUS
  <2>2. IsInjective(f)
    BY <1>2
  <2> HIDE DEF f
  <2> QED
    BY <2>1, <2>2 DEF IsInjective
<1>4. /\ HubOK(hub') /\ DOMAIN hub' = DOMAIN table
      /\ \A i \in DOMAIN table : hub'[i].key = table[i].key /\ (table[i].ip # 0 => hub'[i].ip = table[i].ip)
  <2> DEFINE b == Allocate(table)
  <2>1. table \in Seq(PlainRows)
    BY <1>1
  <2>2. HubOK(b) /\ SameRows(table, b)
    BY <1>3, <2>1, AllocateIs
  <2>3. hub' = b
    BY <1>2
  <2> HIDE DEF b
  <2>4. HubOK(hub')
    BY <2>2, <2>3 DEF HubOK, DistinctKeys
  <2> QED
    BY <2>2, <2>3, <2>4 DEF SameRows
<1>5. \A i \in DOMAIN hub : hub[i].ip # 0
  BY DEF HubOK
<1> QED
  BY <1>1, <1>4, <1>5

LEMMA PeersInvStart == WebInit => PeersInv
<1> SUFFICES ASSUME WebInit PROVE PeersInv
  OBVIOUS
<1>1. /\ hub = [i \in 1..2 |-> PeerRow(Listed[i], i, FALSE, i = 1)] /\ known = hub /\ knocks = {}
      /\ peersPage = ClosedPeersPage(hub) /\ puts = {}
  BY DEF WebInit, HubIdle, PeersInit
<1>2. Listed[1] \in PeerKeys /\ Listed[2] \in PeerKeys /\ Listed[1] # Listed[2]
  <2> DEFINE m == Cardinality(PeerKeys)
  <2>1. IsFiniteSet(PeerKeys) /\ m \in Nat /\ m >= 2
    BY PeersAssumption, FS_CardinalityType
  <2>2. ExistsBijection(1..m, PeerKeys)
    BY <2>1, FS_NatBijection, FS_CountingElements
  <2>3. \E f \in [1..m -> PeerKeys] : IsInjective(f)
    BY <2>2 DEF ExistsBijection, Bijection, Injection
  <2>4. Listed \in [1..m -> PeerKeys] /\ IsInjective(Listed)
    BY <2>3 DEF Listed, SetToSeq
  <2>5. 1 \in 1..m /\ 2 \in 1..m
    BY <2>1
  <2> HIDE DEF m
  <2> QED
    BY <2>4, <2>5 DEF IsInjective
<1>3. \A i \in 1..2 : hub[i] \in PlainRows /\ hub[i].ip = i /\ hub[i].key = Listed[i]
  <2> SUFFICES ASSUME NEW i \in 1..2 PROVE hub[i] \in PlainRows /\ hub[i].ip = i /\ hub[i].key = Listed[i]
    OBVIOUS
  <2> DEFINE may == i = 1
             key == Listed[i]
             r == PeerRow(key, i, FALSE, may)
  <2>1. hub[i] = r
    BY <1>1
  <2>2. may \in BOOLEAN /\ key \in PeerKeys /\ i \in Nat
    BY <1>2
  <2> HIDE DEF may, key
  <2>3. r \in PlainRows /\ r.ip = i /\ r.key = key
    BY <2>2 DEF PeerRow, PlainRows, PlainRow, PeerState
  <2> QED
    BY <2>1, <2>3 DEF key
<1>4. HubOK(hub)
  <2>1. DOMAIN hub = 1..2
    BY <1>1
  <2>2. hub \in Seq(PlainRows)
    <3>1. hub = [i \in 1..2 |-> hub[i]]
      BY <1>1
    <3> QED
      BY <1>3, <3>1, IsASeq
  <2>3. DistinctKeys(hub)
    <3> SUFFICES ASSUME NEW i \in 1..2, NEW j \in 1..2, hub[i].key = hub[j].key PROVE i = j
      BY <2>1 DEF DistinctKeys
    <3> QED
      BY <1>2, <1>3
  <2> QED
    BY <1>3, <2>1, <2>2, <2>3 DEF HubOK
<1>5. Blank(NoKey) \in PeerState /\ ~Blank(NoKey).ipTouched
  BY DEF Blank, PeerRow, PeerState
<1>6. PeersPageOK(peersPage)
  <2> DEFINE blank == Blank(NoKey)
  <2>1. peersPage = [rows |-> hub, editing |-> "none", at |-> 0, draft |-> blank, typed |-> FALSE, confirm |-> 0,
                     saving |-> FALSE, pending |-> {}]
    BY <1>1 DEF ClosedPeersPage
  <2> HIDE DEF blank
  <2>2. hub \in Seq(PlainRows) /\ blank \in PeerState /\ ~blank.ipTouched
    BY <1>4, <1>5 DEF HubOK, blank
  <2> QED
    BY <2>1, <2>2 DEF PeersPageOK
<1> QED
  BY <1>1, <1>4, <1>6 DEF PeersInv, HubOK

\* The page after a step: its rows, its draft, whether the draft's address was typed.
LEMMA PageKept ==
  ASSUME NEW p, PeersPageOK(p), NEW e \in {"none", "row", "new"}, NEW k \in Nat, NEW s \in BOOLEAN, NEW x \in Nat,
         NEW l \in Seq(PlainRows), NEW w \in SUBSET PeerKeys, NEW d \in PeerState, NEW t \in BOOLEAN, d.ipTouched => t,
         NEW q,
         q = [p EXCEPT !.rows = l, !.editing = e, !.at = k, !.draft = d, !.typed = t, !.confirm = x, !.saving = s, !.pending = w]
  PROVE  PeersPageOK(q)
BY DEF PeersPageOK

LEMMA PageParts ==
  ASSUME NEW p, PeersPageOK(p)
  PROVE  /\ p.rows \in Seq(PlainRows) /\ p.editing \in {"none", "row", "new"} /\ p.at \in Nat /\ p.draft \in PeerState
         /\ p.typed \in BOOLEAN /\ p.confirm \in Nat /\ p.saving \in BOOLEAN /\ p.pending \in SUBSET PeerKeys
         /\ (p.draft.ipTouched => p.typed)
         /\ p = [p EXCEPT !.rows = p.rows, !.editing = p.editing, !.at = p.at, !.draft = p.draft, !.typed = p.typed,
                          !.confirm = p.confirm, !.saving = p.saving, !.pending = p.pending]
BY DEF PeersPageOK

\* The rows a save carries.
LEMMA PutIs ==
  ASSUME NEW l \in Seq(PeerState), NEW next, NEW typed \in SUBSET PeerKeys,
         \A i \in DOMAIN l : l[i].key \in PeerKeys /\ (l[i].ipTouched => l[i].key \in typed)
  PROVE  PutOK(Put(l, next, typed))
BY DEF PutOK, Put

LEMMA PlainList ==
  ASSUME NEW l \in Seq(PlainRows)
  PROVE  l \in Seq(PeerState) /\ \A i \in DOMAIN l : l[i].key \in PeerKeys /\ ~l[i].ipTouched
<1>1. Len(l) \in Nat /\ DOMAIN l = 1..Len(l) /\ \A i \in DOMAIN l : l[i] \in PlainRows
  BY RowsOf
<1>2. \A i \in DOMAIN l : l[i] \in PeerState /\ l[i].key \in PeerKeys /\ ~l[i].ipTouched
  BY <1>1 DEF PlainRows, PlainRow
<1>3. l = [i \in 1..Len(l) |-> l[i]]
  BY LenProperties
<1> QED
  BY <1>1, <1>2, <1>3, IsASeq

LEMMA PutPlain ==
  ASSUME NEW l \in Seq(PlainRows), NEW next
  PROVE  PutOK(Put(l, next, {}))
BY PlainList, PutIs

LEMMA BlankIs ==
  ASSUME NEW key \in PeerKeys
  PROVE  Blank(key) \in PlainRows
BY DEF Blank, PeerRow, PlainRows, PlainRow, PeerState

\* A list in which one row is another.
LEMMA RowReplaced ==
  ASSUME NEW R, NEW l \in Seq(R), NEW i, NEW r \in R, NEW s, s = [l EXCEPT ![i] = r]
  PROVE  s \in Seq(R) /\ DOMAIN s = DOMAIN l /\ \A j \in DOMAIN l : s[j] = IF j = i THEN r ELSE l[j]
<1>1. Len(l) \in Nat /\ DOMAIN l = 1..Len(l) /\ \A j \in DOMAIN l : l[j] \in R
  BY RowsOf
<1>2. s = [j \in 1..Len(l) |-> IF j = i THEN r ELSE l[j]]
  <2>1. l = [j \in 1..Len(l) |-> l[j]]
    BY LenProperties
  <2> QED
    BY <2>1
<1>3. \A j \in 1..Len(l) : s[j] \in R /\ s[j] = IF j = i THEN r ELSE l[j]
  BY <1>1, <1>2
<1>4. DOMAIN s = DOMAIN l
  BY <1>1, <1>2
<1>5. s = [j \in 1..Len(l) |-> s[j]]
  BY <1>2, <1>3
<1>6. s \in Seq(R)
  <2> DEFINE n == Len(l)
  <2> HIDE DEF n
  <2>1. n \in Nat /\ \A j \in 1..n : s[j] \in R
    BY <1>1, <1>3 DEF n
  <2>2. [j \in 1..n |-> s[j]] \in Seq(R)
    BY <2>1, IsASeq
  <2> QED
    BY <1>5, <2>2 DEF n
<1> QED
  BY <1>1, <1>3, <1>4, <1>6

\* A save is under way.
LEMMA SaveIs ==
  ASSUME PeersInv, NEW p, PeersPageOK(p), NEW l, NEW next, NEW typed, PutOK(Put(l, next, typed)), Save(p, l, next, typed)
  PROVE  PeersInv'
<1>1. /\ peersPage' = [p EXCEPT !.saving = TRUE] /\ puts' = puts \union {Put(l, next, typed)}
      /\ hub' = hub /\ known' = known /\ knocks' = knocks
  BY DEF Save
<1> DEFINE page == peersPage'
           put == Put(l, next, typed)
<1>2. PeersPageOK(page)
  BY <1>1 DEF PeersPageOK
<1>3. \A c \in puts' : PutOK(c)
  <2> HIDE DEF put
  <2> QED
    BY <1>1 DEF PeersInv, put
<1> QED
  BY <1>1, <1>2, <1>3 DEF PeersInv, HubOK, DistinctKeys, PeersPageOK, PutOK

\* Only the page moves.
LEMMA PageMoves ==
  ASSUME PeersInv, Idle, PeersPageOK(peersPage')
  PROVE  PeersInv'
BY DEF PeersInv, Idle, HubOK, DistinctKeys, PeersPageOK, PutOK

\* The editor opens, on a row or on a new one.
LEMMA EditorOpens ==
  ASSUME PeersInv,
         \/ \E i \in 1..3 : StartEdit(i) \/ AllowRefused(i) \/ AskDelete(i)
         \/ StartAdd \/ CancelEdit \/ CancelDelete
  PROVE  PeersInv'
<1>1. PeersPageOK(peersPage) /\ \A i \in DOMAIN peersPage.rows : peersPage.rows[i] \in PlainRows
  BY RowsOf DEF PeersInv, PeersPageOK
<1>2. ASSUME NEW i \in 1..3, StartEdit(i) PROVE PeersInv'
  <2> DEFINE r == peersPage.rows[i]
             d == [r EXCEPT !.ipTouched = FALSE, !.lanTouched = FALSE]
             page == peersPage'
  <2>1. Edit(i, d) /\ Idle /\ i \in DOMAIN peersPage.rows
    BY <1>2 DEF StartEdit, CanEdit
  <2>2. r \in PlainRows
    BY <1>1, <2>1
  <2> HIDE DEF r
  <2>3. d \in PeerState /\ ~d.ipTouched
    BY <2>2 DEF PlainRows, PeerState
  <2> HIDE DEF d
  <2>4. page = [peersPage EXCEPT !.editing = "row", !.at = i, !.draft = d, !.typed = FALSE]
    BY <2>1 DEF Edit
  <2>5. PeersPageOK(page)
    <3>1. i \in Nat
      OBVIOUS
    <3> HIDE DEF page
    <3> QED
      BY <1>1, <2>3, <2>4, <3>1 DEF PeersPageOK
  <2> QED
    BY <2>1, <2>5, PageMoves
<1>3. ASSUME NEW i \in 1..3, AllowRefused(i) PROVE PeersInv'
  <2> DEFINE r == peersPage.rows[i]
             d == [r EXCEPT !.lan = TRUE, !.lanTouched = TRUE]
             page == peersPage'
  <2>1. Edit(i, d) /\ Idle /\ i \in DOMAIN peersPage.rows
    BY <1>3 DEF AllowRefused, CanEdit
  <2>2. r \in PlainRows
    BY <1>1, <2>1
  <2> HIDE DEF r
  <2>3. d \in PeerState /\ ~d.ipTouched
    BY <2>2 DEF PlainRows, PlainRow, PeerState
  <2> HIDE DEF d
  <2>4. page = [peersPage EXCEPT !.editing = "row", !.at = i, !.draft = d, !.typed = FALSE]
    BY <2>1 DEF Edit
  <2>5. PeersPageOK(page)
    <3>1. i \in Nat
      OBVIOUS
    <3> HIDE DEF page
    <3> QED
      BY <1>1, <2>3, <2>4, <3>1 DEF PeersPageOK
  <2> QED
    BY <2>1, <2>5, PageMoves
<1>4. ASSUME NEW i \in 1..3, AskDelete(i) PROVE PeersInv'
  <2> DEFINE page == peersPage'
  <2>1. page = [peersPage EXCEPT !.confirm = i] /\ Idle
    BY <1>4 DEF AskDelete
  <2>2. PeersPageOK(page)
    BY <1>1, <2>1 DEF PeersPageOK
  <2> QED
    BY <2>1, <2>2, PageMoves
<1>5. CASE StartAdd
  <2> DEFINE page == peersPage'
             blank == Blank(NoKey)
  <2>1. page = [peersPage EXCEPT !.editing = "new", !.at = 0, !.draft = blank, !.typed = FALSE] /\ Idle
    BY <1>5 DEF StartAdd
  <2>2. blank \in PeerState /\ ~blank.ipTouched
    BY DEF Blank, PeerRow, PeerState
  <2> HIDE DEF blank
  <2>3. PeersPageOK(page)
    BY <1>1, <2>1, <2>2 DEF PeersPageOK
  <2> QED
    BY <2>1, <2>3, PageMoves
<1>6. CASE CancelEdit
  <2> DEFINE page == peersPage'
  <2>1. page = [peersPage EXCEPT !.editing = "none", !.at = 0] /\ Idle
    BY <1>6 DEF CancelEdit, CloseEditor
  <2>2. PeersPageOK(page)
    BY <1>1, <2>1 DEF PeersPageOK
  <2> QED
    BY <2>1, <2>2, PageMoves
<1>7. CASE CancelDelete
  <2> DEFINE page == peersPage'
  <2>1. page = [peersPage EXCEPT !.confirm = 0] /\ Idle
    BY <1>7 DEF CancelDelete
  <2>2. PeersPageOK(page)
    BY <1>1, <2>1 DEF PeersPageOK
  <2> QED
    BY <2>1, <2>2, PageMoves
<1> QED
  BY <1>2, <1>3, <1>4, <1>5, <1>6, <1>7

\* The user types into the editor.
LEMMA EditorTyped ==
  ASSUME PeersInv,
         \/ \E key \in PeerKeys : TypeKey(key)
         \/ \E ip \in {0, 3} : TypeIP(ip)
         \/ \E may \in BOOLEAN : TypeLAN(may)
  PROVE  PeersInv'
<1> DEFINE d == peersPage.draft
<1>1. PeersPageOK(peersPage) /\ d \in PeerState /\ (d.ipTouched => peersPage.typed)
  BY DEF PeersInv, PeersPageOK
<1>2. ASSUME NEW e \in PeerState, NEW t \in BOOLEAN, e.ipTouched => t, Idle,
             peersPage' = [peersPage EXCEPT !.draft = e, !.typed = t]
      PROVE  PeersInv'
  <2> DEFINE page == peersPage'
  <2>1. PeersPageOK(page)
    BY <1>1, <1>2 DEF PeersPageOK
  <2> QED
    BY <1>2, <2>1, PageMoves
<1>3. peersPage.typed \in BOOLEAN
  BY <1>1 DEF PeersPageOK
<1>4. ASSUME NEW key \in PeerKeys, TypeKey(key) PROVE PeersInv'
  <2> DEFINE e == [d EXCEPT !.key = key]
  <2>1. peersPage' = [peersPage EXCEPT !.draft = e, !.typed = peersPage.typed] /\ Idle
    BY <1>1, <1>4 DEF TypeKey, PeersPageOK
  <2> HIDE DEF d
  <2>2. e \in PeerState /\ e.ipTouched = d.ipTouched
    BY <1>1 DEF PeerState
  <2> HIDE DEF e
  <2> QED
    BY <1>1, <1>2, <1>3, <2>1, <2>2
<1>5. ASSUME NEW ip \in {0, 3}, TypeIP(ip) PROVE PeersInv'
  <2> DEFINE e == [d EXCEPT !.ip = ip, !.ipTouched = TRUE]
  <2>1. peersPage' = [peersPage EXCEPT !.draft = e, !.typed = TRUE] /\ Idle
    BY <1>1, <1>5 DEF TypeIP, PeersPageOK
  <2> HIDE DEF d
  <2>2. e \in PeerState
    <3>1. \A a \in Nat : [d EXCEPT !.ip = a, !.ipTouched = TRUE] \in PeerState
      BY <1>1 DEF PeerState
    <3>2. ip \in Nat
      OBVIOUS
    <3> QED
      BY <3>1, <3>2
  <2> HIDE DEF e
  <2> QED
    BY <1>2, <2>1, <2>2
<1>6. ASSUME NEW may \in BOOLEAN, TypeLAN(may) PROVE PeersInv'
  <2> DEFINE e == [d EXCEPT !.lan = may, !.lanTouched = TRUE]
  <2>1. peersPage' = [peersPage EXCEPT !.draft = e, !.typed = peersPage.typed] /\ Idle
    <3>1. Idle /\ peersPage' = [peersPage EXCEPT !.draft.lan = may, !.draft.lanTouched = TRUE]
      BY <1>6 DEF TypeLAN
    <3>2. [peersPage EXCEPT !.draft.lan = may, !.draft.lanTouched = TRUE] = [peersPage EXCEPT !.draft = e, !.typed = peersPage.typed]
      BY <1>1 DEF PeersPageOK
    <3> QED
      BY <3>1, <3>2
  <2> HIDE DEF d
  <2>2. e \in PeerState /\ e.ipTouched = d.ipTouched
    BY <1>1 DEF PeerState
  <2> HIDE DEF e
  <2> QED
    BY <1>1, <1>2, <1>3, <2>1, <2>2
<1> QED
  BY <1>4, <1>5, <1>6

\* What the store is told, what other clients and spokes do.
LEMMA OutsideMoves ==
  ASSUME PeersInv, StoreNotifies \/ PendingAnswered \/ OtherOperator \/ Knock \/ \E key \in PeerKeys : DismissPending(key)
  PROVE  PeersInv'
<1>1. /\ HubOK(hub) /\ hub \in Seq(PlainRows) /\ known \in Seq(PlainRows) /\ knocks \in SUBSET PeerKeys
      /\ PeersPageOK(peersPage) /\ \A c \in puts : PutOK(c)
  BY DEF PeersInv, HubOK
<1> DEFINE page == peersPage'
           told == known'
<1>2. CASE StoreNotifies
  <2>1. told \in Seq(PlainRows) /\ page = [peersPage EXCEPT !.rows = told] /\ UNCHANGED <<hub, knocks, puts>>
    BY <1>1, <1>2 DEF StoreNotifies, LoadRows
  <2> HIDE DEF told
  <2>2. PeersPageOK(page)
    BY <1>1, <2>1 DEF PeersPageOK
  <2> QED
    BY <1>1, <2>1, <2>2 DEF PeersInv, HubOK, DistinctKeys, PeersPageOK, PutOK, told
<1>3. CASE PendingAnswered
  <2>1. page = [peersPage EXCEPT !.pending = knocks] /\ Idle
    BY <1>3 DEF PendingAnswered, Idle
  <2>2. PeersPageOK(page)
    BY <1>1, <2>1 DEF PeersPageOK
  <2> QED
    BY <2>1, <2>2, PageMoves
<1>4. ASSUME NEW key \in PeerKeys, DismissPending(key) PROVE PeersInv'
  <2>1. /\ page = [peersPage EXCEPT !.pending = @ \ {key}] /\ knocks' = knocks \ {key}
        /\ UNCHANGED <<hub, known, puts>>
    BY <1>4 DEF DismissPending
  <2>2. PeersPageOK(page)
    BY <1>1, <2>1 DEF PeersPageOK
  <2> QED
    BY <1>1, <2>1, <2>2 DEF PeersInv, HubOK, DistinctKeys, PeersPageOK, PutOK
<1>5. CASE Knock
  <2>1. knocks' \in SUBSET PeerKeys /\ UNCHANGED <<hub, known, peersPage, puts>>
    BY <1>1, <1>5 DEF Knock
  <2> QED
    BY <1>1, <2>1 DEF PeersInv, HubOK, DistinctKeys, PeersPageOK, PutOK
<1>6. ASSUME OtherOperator, HubOK(hub') PROVE PeersInv'
  <2>1. UNCHANGED <<known, knocks, peersPage, puts>>
    BY <1>6 DEF OtherOperator
  <2> QED
    BY <1>1, <1>6, <2>1 DEF PeersInv, PeersPageOK, PutOK
<1>7. ASSUME OtherOperator PROVE HubOK(hub')
  <2>1. PICK i \in DOMAIN hub :
          \/ hub' = Pick(hub, {j \in DOMAIN hub : hub[j].key # hub[i].key})
          \/ \E a \in Addresses \ Named(hub) : hub' = [hub EXCEPT ![i].ip = a]
    BY <1>7 DEF OtherOperator
  <2>2. ASSUME NEW s, hub' = s, HubOK(s) PROVE HubOK(hub')
    BY <2>2 DEF HubOK, DistinctKeys
  <2>3. DistinctKeys(hub) /\ \A j \in DOMAIN hub : hub[j].ip # 0 /\ hub[j] \in PlainRows
    BY <1>1, RowsOf DEF HubOK
  <2>4. CASE hub' = Pick(hub, {j \in DOMAIN hub : hub[j].key # hub[i].key})
    <3> DEFINE at == {j \in DOMAIN hub : hub[j].key # hub[i].key}
               s == Pick(hub, at)
    <3>1. at \in SUBSET DOMAIN hub
      OBVIOUS
    <3> HIDE DEF at
    <3>2. /\ s \in Seq(PlainRows) /\ \A k \in DOMAIN s : Kth(at, k) \in at /\ s[k] = hub[Kth(at, k)]
          /\ \A k, l \in DOMAIN s : k # l => Kth(at, k) # Kth(at, l)
      BY <1>1, <3>1, PickIs
    <3>3. hub' = s
      BY <2>4 DEF at
    <3> HIDE DEF s
    <3>4. DistinctKeys(s) /\ \A k \in DOMAIN s : s[k].ip # 0
      BY <2>3, <3>1, <3>2 DEF DistinctKeys
    <3>5. HubOK(s)
      BY <3>2, <3>4 DEF HubOK
    <3> QED
      BY <2>2, <3>3, <3>5
  <2>5. ASSUME NEW a \in Addresses \ Named(hub), hub' = [hub EXCEPT ![i].ip = a] PROVE HubOK(hub')
    <3> DEFINE x == hub[i]
               r == [x EXCEPT !.ip = a]
               s == [hub EXCEPT ![i] = r]
    <3>1. a \in Nat \ {0}
      BY PeersAssumption, FS_CardinalityType DEF Addresses
    <3>2. hub' = s
      BY <2>5
    <3>3. r \in PlainRows /\ r.key = x.key /\ r.ip = a
      <4>1. x \in PlainRows
        BY <2>3
      <4> HIDE DEF x
      <4> QED
        BY <3>1, <4>1 DEF PlainRows, PlainRow, PeerState
    <3> HIDE DEF r
    <3>4. s \in Seq(PlainRows) /\ DOMAIN s = DOMAIN hub /\ \A j \in DOMAIN hub : s[j] = IF j = i THEN r ELSE hub[j]
      BY <1>1, <3>3, RowReplaced
    <3> HIDE DEF s
    <3>5. \A j \in DOMAIN hub : s[j].key = hub[j].key
      BY <3>3, <3>4
    <3>6. \A j \in DOMAIN hub : s[j].ip # 0
      BY <2>3, <3>1, <3>3, <3>4
    <3>7. DistinctKeys(s)
      BY <2>3, <3>4, <3>5 DEF DistinctKeys
    <3> QED
      BY <2>2, <3>2, <3>4, <3>6, <3>7 DEF HubOK
  <2> QED
    BY <2>1, <2>4, <2>5
<1> QED
  BY <1>2, <1>3, <1>4, <1>5, <1>6, <1>7

\* The page saves the list.
LEMMA PageSaves ==
  ASSUME PeersInv,
         \/ SaveRow \/ DeleteRow
         \/ \E i \in 1..3 : ToggleRow(i)
         \/ \E key \in PeerKeys : AddPending(key)
  PROVE  PeersInv'
<1> DEFINE p == peersPage
           l == p.rows
<1>1. PeersPageOK(p) /\ l \in Seq(PlainRows) /\ p.draft \in PeerState /\ (p.draft.ipTouched => p.typed)
  BY DEF PeersInv, PeersPageOK
<1>2. ASSUME NEW i \in 1..3, ToggleRow(i) PROVE PeersInv'
  <2> DEFINE x == l[i]
             r == [x EXCEPT !.disabled = ~@]
             s == [l EXCEPT ![i] = r]
  <2>1. i \in DOMAIN l /\ Save(p, [l EXCEPT ![i].disabled = ~@], "none", {})
    BY <1>2 DEF ToggleRow
  <2>2. [l EXCEPT ![i].disabled = ~@] = s
    OBVIOUS
  <2>3. r \in PlainRows
    <3>1. x \in PlainRows
      BY <1>1, <2>1, RowsOf
    <3> HIDE DEF x
    <3> QED
      BY <3>1 DEF PlainRows, PlainRow, PeerState
  <2> HIDE DEF r
  <2>4. s \in Seq(PlainRows)
    BY <1>1, <2>3, RowReplaced
  <2>5. Save(p, s, "none", {})
    BY <2>1, <2>2
  <2> HIDE DEF s, l, p
  <2> QED
    BY <1>1, <2>4, <2>5, PutPlain, SaveIs
<1>3. ASSUME NEW key \in PeerKeys, AddPending(key) PROVE PeersInv'
  <2> DEFINE blank == Blank(key)
             s == Append(l, blank)
  <2>1. Save(p, s, key, {})
    BY <1>3 DEF AddPending
  <2>2. blank \in PlainRows
    BY BlankIs
  <2> HIDE DEF blank
  <2>3. s \in Seq(PlainRows)
    BY <1>1, <2>2, AppendProperties
  <2> HIDE DEF s, l, p
  <2> QED
    BY <1>1, <2>1, <2>3, PutPlain, SaveIs
<1>4. CASE DeleteRow
  <2> DEFINE q == [p EXCEPT !.confirm = 0]
             at == DOMAIN l \ {p.confirm}
             s == Pick(l, at)
  <2>1. Save(q, s, "none", {})
    BY <1>4 DEF DeleteRow
  <2>2. PeersPageOK(q)
    BY <1>1 DEF PeersPageOK
  <2>3. s \in Seq(PlainRows)
    BY <1>1, PickIs
  <2> HIDE DEF s, l, q
  <2> QED
    BY <1>1, <2>1, <2>2, <2>3, PutPlain, SaveIs
<1>5. CASE SaveRow
  <2> DEFINE d == p.draft
             at == p.at
             next == IF p.editing = "new" THEN Append(l, d) ELSE [i \in DOMAIN l |-> IF i = at THEN d ELSE l[i]]
             typed == IF p.typed THEN {d.key} ELSE {}
  <2>1. d.key # NoKey /\ Save(p, next, "editor", typed)
    BY <1>5 DEF SaveRow
  <2>2. d \in PeerState /\ d.key \in PeerKeys /\ typed \in SUBSET PeerKeys /\ (d.ipTouched => d.key \in typed)
    BY <1>1, <2>1 DEF PeerState
  <2>3. l \in Seq(PeerState) /\ \A i \in DOMAIN l : l[i] \in PeerState /\ l[i].key \in PeerKeys /\ ~l[i].ipTouched
    BY <1>1, PlainList, RowsOf
  <2> HIDE DEF d, typed, l, at
  <2>4. Append(l, d) \in Seq(PeerState) /\ \A i \in DOMAIN Append(l, d) : Append(l, d)[i] = d \/ (i \in DOMAIN l /\ Append(l, d)[i] = l[i])
    BY <2>2, <2>3, AppendProperties, LenProperties
  <2>5. /\ [i \in DOMAIN l |-> IF i = at THEN d ELSE l[i]] \in Seq(PeerState)
        /\ \A i \in DOMAIN l : [j \in DOMAIN l |-> IF j = at THEN d ELSE l[j]][i] = IF i = at THEN d ELSE l[i]
    <3> DEFINE n == Len(l)
               e(i) == IF i = at THEN d ELSE l[i]
    <3>1. n \in Nat /\ DOMAIN l = 1..n
      BY <2>3, LenProperties
    <3>2. \A i \in 1..n : e(i) \in PeerState
      BY <2>2, <2>3, <3>1
    <3> HIDE DEF n, e
    <3>3. [i \in 1..n |-> e(i)] \in Seq(PeerState)
      BY <3>1, <3>2, IsASeq
    <3> QED
      BY <3>1, <3>3 DEF e
  <2>6. next \in Seq(PeerState) /\ \A i \in DOMAIN next : next[i] = d \/ (i \in DOMAIN l /\ next[i] = l[i])
    <3>1. CASE p.editing = "new"
      BY <2>4, <3>1
    <3>2. CASE p.editing # "new"
      BY <2>5, <3>2
    <3> QED
      BY <3>1, <3>2
  <2> HIDE DEF next
  <2>7. \A i \in DOMAIN next : next[i].key \in PeerKeys /\ (next[i].ipTouched => next[i].key \in typed)
    BY <2>2, <2>3, <2>6
  <2>8. PutOK(Put(next, "editor", typed))
    BY <2>2, <2>6, <2>7, PutIs
  <2> HIDE DEF p
  <2> QED
    BY <1>1, <2>1, <2>8, SaveIs
<1> QED
  BY <1>2, <1>3, <1>4, <1>5

\* What becomes of a save.
LEMMA PutEnds ==
  ASSUME PeersInv, NEW c \in puts, OnPut(c)
  PROVE  PeersInv'
<1>1. /\ HubOK(hub) /\ known \in Seq(PlainRows) /\ knocks \in SUBSET PeerKeys
      /\ PeersPageOK(peersPage) /\ PutOK(c) /\ \A d \in puts : PutOK(d)
  BY DEF PeersInv
<1>2. CASE PutServed(c)
  <2> DEFINE table == hub'
             d == [c EXCEPT !.at = "answered", !.ans = table]
  <2>1. HubOK(table)
    BY <1>1, <1>2, ServedIs
  <2>2. /\ knocks' = knocks \ KeysOf(table) /\ UNCHANGED <<known, peersPage>>
        /\ puts' \in SUBSET (puts \union {d})
    BY <1>2 DEF PutServed
  <2>3. table \in Seq(PlainRows)
    BY <2>1 DEF HubOK
  <2>4. PutOK(d)
    <3> HIDE DEF table
    <3>1. PutOK([c EXCEPT !.at = "answered", !.ans = table])
      BY <1>1, <2>3 DEF PutOK
    <3> QED
      BY <3>1
  <2> HIDE DEF d
  <2>5. \A e \in puts' : PutOK(e)
    BY <1>1, <2>2, <2>4
  <2>6. knocks' \in SUBSET PeerKeys
    BY <1>1, <2>2
  <2> QED
    BY <1>1, <2>1, <2>2, <2>5, <2>6 DEF PeersInv, PeersPageOK, PutOK
<1>3. CASE PutReturns(c)
  <2> DEFINE page == peersPage'
             table == c.ans
             p == [peersPage EXCEPT !.rows = table, !.saving = FALSE]
  <2>1. /\ c.at = "answered" /\ puts' = puts \ {c} /\ known' = table /\ UNCHANGED <<hub, knocks>>
    BY <1>3 DEF PutReturns
  <2>2. table \in Seq(PlainRows)
    BY <1>1, <2>1 DEF PutOK
  <2>3. [LoadRows(peersPage, table) EXCEPT !.saving = FALSE] = p
    BY DEF LoadRows
  <2>4. PeersPageOK(p)
    <3> HIDE DEF table
    <3> QED
      BY <1>1, <2>2 DEF PeersPageOK
  <2>5. \/ page = CloseEditor(p)
        \/ page = [p EXCEPT !.pending = @ \ {c.next}]
        \/ page = p
    <3> HIDE DEF p
    <3> QED
      BY <1>3, <2>3 DEF PutReturns
  <2> HIDE DEF p
  <2>6. PeersPageOK(page)
    <3>1. PeersPageOK(CloseEditor(p))
      BY <2>4 DEF PeersPageOK, CloseEditor
    <3>2. PeersPageOK([p EXCEPT !.pending = @ \ {c.next}])
      BY <2>4 DEF PeersPageOK
    <3> HIDE DEF page
    <3> QED
      BY <2>4, <2>5, <3>1, <3>2
  <2> QED
    BY <1>1, <2>1, <2>2, <2>6 DEF PeersInv, HubOK, DistinctKeys, PeersPageOK, PutOK
<1>4. CASE PutFails(c)
  <2> DEFINE page == peersPage'
             d == [c EXCEPT !.at = "orphan", !.next = "none"]
  <2>1. /\ page = [peersPage EXCEPT !.saving = FALSE] /\ puts' \in SUBSET (puts \union {d})
        /\ UNCHANGED <<hub, known, knocks>>
    BY <1>4 DEF PutFails
  <2>2. PutOK(d)
    BY <1>1 DEF PutOK
  <2>3. PeersPageOK(page)
    BY <1>1, <2>1 DEF PeersPageOK
  <2> HIDE DEF d
  <2>4. \A e \in puts' : PutOK(e)
    BY <1>1, <2>1, <2>2
  <2> QED
    BY <1>1, <2>1, <2>3, <2>4 DEF PeersInv, HubOK, DistinctKeys, PeersPageOK, PutOK
<1>5. CASE PutLost(c)
  <2>1. puts' = puts \ {c} /\ UNCHANGED <<hub, known, knocks, peersPage>>
    BY <1>5 DEF PutLost
  <2> QED
    BY <1>1, <2>1 DEF PeersInv, HubOK, DistinctKeys, PeersPageOK, PutOK
<1> QED
  BY <1>2, <1>3, <1>4, <1>5 DEF OnPut

LEMMA PeersInvStep == PeersInv /\ [WebNext]_webVars => PeersInv'
<1>1. ASSUME PeersInv, PeersNext PROVE PeersInv'
  <2>1. CASE \/ SaveRow \/ DeleteRow \/ StoreNotifies \/ PendingAnswered \/ OtherOperator \/ Knock
             \/ StartAdd \/ CancelEdit \/ CancelDelete
    BY <1>1, <2>1, PageSaves, OutsideMoves, EditorOpens
  <2>2. ASSUME NEW i \in 1..3, OnRow(i) PROVE PeersInv'
    BY <1>1, <2>2, EditorOpens, PageSaves DEF OnRow
  <2>3. ASSUME NEW key \in PeerKeys, TypeKey(key) \/ AddPending(key) \/ DismissPending(key) PROVE PeersInv'
    BY <1>1, <2>3, EditorTyped, PageSaves, OutsideMoves
  <2>4. ASSUME NEW ip \in {0, 3}, TypeIP(ip) PROVE PeersInv'
    BY <1>1, <2>4, EditorTyped
  <2>5. ASSUME NEW may \in BOOLEAN, TypeLAN(may) PROVE PeersInv'
    BY <1>1, <2>5, EditorTyped
  <2>6. ASSUME NEW c \in puts, OnPut(c) PROVE PeersInv'
    BY <1>1, <2>6, PutEnds
  <2> QED
    BY <1>1, <2>1, <2>2, <2>3, <2>4, <2>5, <2>6 DEF PeersNext
<1>2. ASSUME PeersInv, UNCHANGED peers PROVE PeersInv'
  BY <1>2 DEF PeersInv, peers, HubOK, DistinctKeys, PeersPageOK, PutOK
<1>3. [WebNext]_webVars => PeersNext \/ UNCHANGED peers
  BY DEF WebNext, webVars
<1> QED
  BY <1>1, <1>2, <1>3

LEMMA AddressStep ==
  PeersInv /\ [WebNext]_webVars =>
    [\A c \in puts : PutServed(c) =>
       \A i \in DOMAIN hub, j \in DOMAIN hub' :
         hub[i].key = hub'[j].key /\ hub[i].key \notin c.typed => hub[i].ip = hub'[j].ip]_peers
<1> SUFFICES ASSUME PeersInv, NEW c \in puts, PutServed(c), NEW i \in DOMAIN hub, NEW j \in DOMAIN hub',
                    hub[i].key = hub'[j].key, hub[i].key \notin c.typed
             PROVE  hub[i].ip = hub'[j].ip
  OBVIOUS
<1>1. HubOK(hub) /\ PutOK(c)
  BY DEF PeersInv
<1> QED
  BY <1>1, ServedIs

\* A save leaves every spoke that stays on the list at its address, unless that was typed into the
\* editor that was saved (tunnel-peers-page.ts _save, tunnel_handler.go settlePeerIPs).
THEOREM WebAddressKept == WebSpec => AddressKept
BY PeersInvStart, PeersInvStep, AddressStep, PTL DEF WebSpec, AddressKept
=============================================================================
