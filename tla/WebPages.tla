-------------------------------- MODULE WebPages --------------------------------
(***************************************************************************)
(* The tunnels, or the entrypoints, of the web interface: the list in the  *)
(* browser (store/tunnel-store.ts, entrypoint-store.ts), the requests it   *)
(* sends to the daemon (api/backend.ts), and the pages that show one list  *)
(* and one item of it (pages/home-page.ts, tunnel-detail-page.ts,          *)
(* entrypoint-detail-page.ts).  The two kinds of items have a store and a  *)
(* detail page each, of the same making; a behaviour is about one class.   *)
(*                                                                         *)
(* A request is on its way to the daemon, then answered; each of its steps *)
(* can come late, and the browser gives it up after 8 s, when the daemon   *)
(* may still do what it asked.  Whatever is awaited goes on after the page *)
(* that asked for it was left.                                             *)
(***************************************************************************)
EXTENDS WebForm, WebLists

CONSTANTS
  Classes,               \* the classes to look at
  TypedFields,           \* bound: the inputs that are typed into
  OtherFields,           \* bound: the options that other clients change
  MaxActs,               \* bound: what the user, timers and other clients do
  MaxCalls               \* bound: requests under way

ASSUME PagesAssumption ==
  Classes \subseteq TunnelClasses \union EntrypointClasses /\ MaxActs \in Nat /\ MaxCalls \in Nat

VARIABLES
  class,                 \* what the behaviour is about
  server,                \* the items of the daemon
  list,                  \* the store's copy
  loading,               \* the list is being fetched
  polling,               \* the start-up is over, the statistics are polled
  calls,                 \* requests, and what waits for the Android bridge
  pg,                    \* the page that is shown
  acts                   \* how many there were

pages == <<class, server, list, loading, polling, calls, pg, acts>>

Ids == {1, 2}
Item(there, running, opts) == [there |-> there, running |-> running, opts |-> opts]
Row(id) == [id |-> id, running |-> server[id].running, opts |-> Told(server[id].opts)]
Listing ==
  LET ids == Pick(<<1, 2>>, {id \in Ids : server[id].there = "yes"})
  IN  [i \in DOMAIN ids |-> Row(ids[i])]
Find(l, id) == Pick(l, {i \in DOMAIN l : l[i].id = id})

---------------------------------------------------------------------------
(* The pages.                                                              *)

NoItem == [has |-> FALSE, opts |-> Empty(class)]
Page(at, id, url) ==
  [at |-> at, id |-> id, url |-> url, mode |-> "view", cur |-> NoItem, form |-> ResetForm(class),
   typed |-> {}, saving |-> FALSE, dialog |-> "none"]

\* _load of a detail page: what a change of the list makes of it
Created(p) ==
  IF p.mode = "create" THEN p
  ELSE [p EXCEPT !.mode = "create", !.cur = NoItem, !.form = ResetForm(class), !.typed = {}]

(* Mutant: the form is filled anew with every change of the list *)
UnderEditNever(p) == FALSE

UnderEdit(p) == p.mode = "edit" /\ p.cur.has
Shows(p, row) ==
  [p EXCEPT !.mode = IF p.url THEN "edit" ELSE "view", !.cur = [has |-> TRUE, opts |-> row.opts],
            !.form = PopulateForm(class, row.opts), !.typed = {}]
Load(p, l) ==
  IF p.at # "detail" THEN p
  ELSE IF p.id = 0 THEN Created(p)
  ELSE IF UnderEdit(p) \/ Find(l, p.id) = <<>> THEN p
  ELSE Shows(p, Find(l, p.id)[1])

\* what goes on after the page was left has the fields the page had
Detached(cs) ==
  {IF c.mine THEN [c EXCEPT !.mine = FALSE, !.elem = IF c.op = "arm" THEN pg ELSE @] ELSE c : c \in cs}
Navigate(cs, at, id, url) ==
  /\ calls' = Detached(cs) /\ pg' = Load(Page(at, id, url), list')

---------------------------------------------------------------------------
(* Requests.                                                               *)

NoPage == Page("away", 0, FALSE)
\* requests are told apart by a number no other has
Fresh(cs) == CHOOSE n \in 1..MaxCalls + 3 : (\A c \in cs : c.n # n) /\ \A m \in 1..n - 1 : \E c \in cs : c.n = m
Call(op, id, next) ==
  [n |-> Fresh(calls), op |-> op, id |-> id, next |-> next, at |-> "wire", mine |-> FALSE, body |-> <<>>,
   typed |-> {}, base |-> <<>>, ans |-> <<>>, elem |-> NoPage]
Send(cs, c) == calls' = cs \union {c} /\ Cardinality(calls') <= MaxCalls
Act == acts < MaxActs /\ acts' = acts + 1

\* refresh: the list is fetched; what follows is `next`
ListCall(next, mine) == [Call("list", 0, next) EXCEPT !.mine = mine]
Refresh(cs, p, l, next, mine) ==
  /\ loading' = TRUE /\ list' = l /\ pg' = Load(p, l) /\ Send(cs, ListCall(next, mine))

\* what the daemon does with a request; up: the item runs afterwards
Exists(id) == server[id].there = "yes"
Done(c, up) ==
  CASE c.op \in {"list", "stats"} -> server
    [] c.op = "create" -> [server EXCEPT ![2] = Item("yes", up, Replaced(class, Empty(class), c.body))]
    [] c.op = "update" -> [server EXCEPT ![c.id].opts = Replaced(class, @, c.body), ![c.id].running = up]
    [] c.op = "remove" -> [server EXCEPT ![c.id].there = "gone"]
    [] c.op = "start" -> [server EXCEPT ![c.id].running = up]
    [] c.op = "stop" -> [server EXCEPT ![c.id].running = FALSE]
    [] c.op = "reset" -> server
\* an item that runs is not started again (409); one that does not run may have failed
\* without being closed, and then it can be stopped
CanServe(c) ==
  CASE c.op \in {"list", "stats"} -> TRUE
    [] c.op = "create" -> server[2].there = "unborn"
    [] c.op = "start" -> Exists(c.id) /\ ~server[c.id].running
    [] OTHER -> Exists(c.id)
\* an entrypoint is listed before it is started, and the request is answered whether it
\* runs or not; a tunnel that cannot run is an error
Outcomes == IF class.kind = "entrypoint" THEN BOOLEAN ELSE {TRUE}
Answer(c) ==
  CASE c.op = "list" -> Listing'
    [] c.op = "stats" -> [i \in DOMAIN Listing' |-> [Listing'[i] EXCEPT !.opts = <<>>]]
    [] c.op = "create" -> <<Row(2)'>>
    [] c.op = "update" -> <<Row(c.id)'>>
    [] OTHER -> <<>>

Serve(c) ==
  /\ c.at \in {"wire", "orphan"} /\ c.op \notin {"config", "arm"} /\ CanServe(c)
  /\ \E up \in Outcomes : server' = Done(c, up)
  /\ calls' = (calls \ {c}) \union IF c.at = "orphan" THEN {} ELSE {[c EXCEPT !.at = "answered", !.ans = Answer(c)]}
  /\ UNCHANGED <<class, list, loading, polling, pg, acts>>
\* handleUpdateTunnel: a tunnel that shares the p2p host is closed before its replacement
\* runs, and when that fails (500) it stays closed, with the options it had
ServeFails(c) ==
  /\ c.at \in {"wire", "orphan"} /\ c.op = "update" /\ class.kind = "tunnel" /\ IsP2P(class) /\ Exists(c.id)
  /\ server' = [server EXCEPT ![c.id].running = FALSE]
  /\ calls' = (calls \ {c}) \union IF c.at = "orphan" THEN {} ELSE {[c EXCEPT !.at = "refused"]}
  /\ UNCHANGED <<class, list, loading, polling, pg, acts>>

\* request(): refused, timed out, or lost; the daemon may still be served with it
\* (a start, a stop or a delete that comes so late is what OtherClient does)
AfterFailure(c) ==
  (calls \ {c}) \union IF c.at = "wire" /\ c.op \in {"create", "update"}
                      THEN {[c EXCEPT !.at = "orphan", !.mine = FALSE]} ELSE {}
Lost(c) ==
  /\ c.at = "orphan" /\ calls' = calls \ {c}
  /\ UNCHANGED <<class, server, list, loading, polling, pg, acts>>

\* Back from the save: the button can be used again.
Saved(p, mine) == IF mine THEN [p EXCEPT !.saving = FALSE] ELSE p

(* Mutant: only a list that arrived takes the spinner away *)
FetchEndsWithList(c, l, cs) ==
  /\ list' = l /\ loading' = (c.at # "answered")
  /\ pg' = Load(Saved(pg, c.mine /\ c.next = "saved"), l)
  /\ polling' = (polling \/ c.next = "poll")
  /\ calls' = cs \union IF c.next = "poll" THEN {Call("stats", 0, "none")} ELSE {}
  /\ UNCHANGED <<class, server, acts>>

FetchEnds(c, l, cs) ==
  /\ list' = l /\ loading' = FALSE
  /\ pg' = Load(Saved(pg, c.mine /\ c.next = "saved"), l)
  /\ polling' = (polling \/ c.next = "poll")
  /\ calls' = cs \union IF c.next = "poll" THEN {Call("stats", 0, "none")} ELSE {}
  /\ UNCHANGED <<class, server, acts>>
ListReturns(c) == c.op = "list" /\ c.at = "answered" /\ FetchEnds(c, c.ans, calls \ {c})
ListFails(c) == c.op = "list" /\ c.at # "orphan" /\ FetchEnds(c, list, calls \ {c})

CreateReturns(c) ==
  /\ c.op = "create" /\ c.at = "answered"
  /\ list' = Append(list, c.ans[1]) /\ Navigate(calls \ {c}, "home", 0, FALSE)
  /\ UNCHANGED <<class, server, loading, polling, acts>>

Replace(l, id, row) == [i \in DOMAIN l |-> IF l[i].id = id THEN row ELSE l[i]]
Viewed(p, mine) == IF mine THEN [p EXCEPT !.mode = "view"] ELSE p
UpdateReturns(c) ==
  /\ c.op = "update" /\ c.at = "answered"
  /\ LET l == Replace(list, c.id, c.ans[1])
     IN  Refresh(calls \ {c}, Viewed(Load(pg, l), c.mine), l, "saved", c.mine)
  /\ UNCHANGED <<class, server, polling, acts>>

RemoveReturns(c) ==
  /\ c.op = "remove" /\ c.at = "answered"
  /\ list' = Pick(list, {i \in DOMAIN list : list[i].id # c.id})
  /\ IF c.next = "detail" THEN Navigate(calls \ {c}, "home", 0, FALSE)
     ELSE calls' = calls \ {c} /\ pg' = Load(pg, list')
  /\ UNCHANGED <<class, server, loading, polling, acts>>

\* start, stop and resetStats end with a refresh
ActReturns(c) ==
  /\ c.op \in {"start", "stop", "reset"} /\ c.at = "answered"
  /\ Refresh(calls \ {c}, pg, list, "none", FALSE)
  /\ UNCHANGED <<class, server, polling, acts>>

\* applyStats: the items that are listed get the state they are in
StatsReturns(c) ==
  /\ c.op = "stats" /\ c.at = "answered"
  /\ list' = [i \in DOMAIN list |->
                IF Find(c.ans, list[i].id) = <<>> THEN list[i]
                ELSE [list[i] EXCEPT !.running = Find(c.ans, list[i].id)[1].running]]
  /\ calls' = calls \ {c} /\ pg' = Load(pg, list')
  /\ UNCHANGED <<class, server, loading, polling, acts>>

\* a failed save lets the user try again; a failed start or delete only tells
CallFails(c) ==
  /\ c.op \notin {"list", "config", "arm"} /\ c.at # "orphan"
  /\ calls' = AfterFailure(c)
  /\ pg' = Saved(pg, c.mine /\ c.op \in {"create", "update"})
  /\ UNCHANGED <<class, server, list, loading, polling, acts>>

---------------------------------------------------------------------------
(* The application: app.ts.                                                *)

\* firstUpdated: the settings, answered or not, make the store refresh; the
\* application fetches the lists too and starts to poll when it has them.
ConfigLoaded(c) ==
  /\ c.op = "config" /\ loading' = TRUE /\ pg' = Load(pg, list)
  /\ calls' = (calls \ {c}) \union {ListCall("none", FALSE), [ListCall("poll", FALSE) EXCEPT !.n = 0]}
  /\ UNCHANGED <<class, server, list, polling, acts>>

\* the connection is back, the settings were changed, or the entrypoint's page
\* fetches the list every 5 s
Refetches == polling \/ pg.at = "away" \/ (class.kind = "entrypoint" /\ pg.at = "detail")
Refetch ==
  /\ Act /\ Refetches
  /\ Refresh(calls, pg, list, "none", FALSE)
  /\ UNCHANGED <<class, server, polling>>

Poll ==
  /\ Act /\ polling
  /\ Send(calls, Call("stats", 0, "none"))
  /\ UNCHANGED <<class, server, list, loading, polling, pg>>

\* another client, a peer or the daemon itself
OtherClient ==
  /\ Act
  /\ \E id \in Ids : Exists(id) /\
       \/ \E f \in OtherFields \intersect Options(class) : server' = [server EXCEPT ![id].opts[f] = 3]
       \/ server' = [server EXCEPT ![id].running = ~@]
       \/ server' = [server EXCEPT ![id].there = "gone"]
  /\ UNCHANGED <<class, list, loading, polling, calls, pg>>
=============================================================================
