------------------------------ MODULE ExtTunnels ------------------------------
(***************************************************************************)
(* The tunnels of the browser extension, across its three processes: the   *)
(* popup (src/extension/sidepanel.js), the service worker that keeps the   *)
(* stored list and the offscreen document alive (background.js), and the   *)
(* document, by what it promises (ExtDoc).                                      *)
(*                                                                         *)
(* Popup and worker each read the stored list, change their copy and write *)
(* all of it back, so an update can be lost; a start or stop of the popup  *)
(* reaches the document twice, once directly and once through the worker.  *)
(* The message the popup sends directly is delivered with the click.       *)
(***************************************************************************)
EXTENDS ExtDoc, FiniteSets

CONSTANTS
  NoTunnel,
  MaxEvents,             \* bound: what the user does, what the document reports by
                         \* itself, losses of the document, restarts of the browser
  MaxOps                 \* bound: handlers under way, beside those of one status

ASSUME TunnelsAssumption == MaxEvents \in Nat /\ MaxOps \in Nat

VARIABLES
  store,                 \* chrome.storage.local "tunnels"
  ops,                   \* handlers between two of their awaits
  panel,                 \* the popup
  events                 \* how many there were

vars == <<document, store, ops, panel, events>>

Absent == [there |-> FALSE, status |-> "none", cfg |-> 0]
Stored(status, cfg) == [there |-> TRUE, status |-> status, cfg |-> cfg]
Closed == [open |-> FALSE, loaded |-> FALSE, list |-> [t \in Tunnels |-> Absent],
           view |-> "list", editing |-> NoTunnel, deleting |-> NoTunnel]

Init ==
  /\ DocInit /\ store = [t \in Tunnels |-> Absent] /\ ops = {} /\ panel = Closed
  /\ events = 0

\* a handler that has asked for the list and writes it later; status "none": not given
Op(op, t, cfg, status, read) ==
  [op |-> op, t |-> t, cfg |-> cfg, status |-> status, at |-> "set", snap |-> read]

Event == events < MaxEvents /\ events' = events + 1
RoomForOps(n) == Cardinality({o \in ops : o.op \in {"start", "stop", "stats"}}) + n <= MaxOps
RoomForStatus == \A o \in ops : o.op \notin {"status", "readd"}
Alive(list) == {t \in Tunnels : list[t].there /\ list[t].status # "stopped"}

\* a running, connecting or failed tunnel is one that a save of the form restarts
WasActive(item) == item.status \in {"running", "connecting", "error"}

\* buildCard: a card offers to stop a tunnel or to start it
OffersStop(item) == item.there /\ item.status \in {"running", "connecting"}
OffersStart(item) == item.there /\ ~OffersStop(item)

---------------------------------------------------------------------------
(* The service worker.                                                     *)

DocGets(Handler) == IF doc THEN Handler ELSE UNCHANGED document

OpNext(o, at) == ops' = (ops \ {o}) \union {[o EXCEPT !.at = at]}

\* handleStartTunnel: the configuration is merged into the stored entry
StartMerged(o) ==
  [o.snap EXCEPT ![o.t] = Stored(IF o.status # "none" \/ ~@.there THEN o.status ELSE @.status, o.cfg)]

SetForStart(o) ==
  /\ o.op = "start" /\ o.at = "set"
  /\ store' = StartMerged(o) /\ OpNext(o, "doc")
  /\ UNCHANGED <<document, panel, events>>

\* ensureOffscreen: an op that finds a creation under way waits for it
EnsureOffscreen(o) ==
  /\ o.at = "doc" /\ OpNext(o, IF doc THEN "send" ELSE "creating")
  /\ UNCHANGED <<document, store, panel, events>>

OffscreenCreated ==
  /\ \E o \in ops : o.at = "creating"
  /\ doc' = TRUE
  /\ ops' = {IF o.at = "creating" THEN [o EXCEPT !.at = "send"] ELSE o : o \in ops}
  /\ UNCHANGED <<hosted, busy, notices, store, panel, events>>

SendStart(o) ==
  /\ o.op = "start" /\ o.at = "send"
  /\ ops' = ops \ {o} /\ DocGets(DocStart(o.t, o.cfg))
  /\ UNCHANGED <<store, panel, events>>

\* the list with the status of one tunnel replaced, if it is there
WithStatus(list, t, status) ==
  [list EXCEPT ![t] = IF @.there THEN [@ EXCEPT !.status = status] ELSE @]

\* handleStopTunnel: `alive` is judged on the list it has just written
SetForStop(o) ==
  /\ o.op = "stop" /\ o.at = "set"
  /\ store' = WithStatus(o.snap, o.t, "stopped")
  /\ ops' = (ops \ {o}) \union {[o EXCEPT !.at = "send", !.snap = store']}
  /\ UNCHANGED <<document, panel, events>>

SendStop(o) ==
  /\ o.op = "stop" /\ o.at = "send"
  /\ DocGets(DocStop(o.t))
  /\ IF Alive(o.snap) = {} THEN OpNext(o, "close") ELSE ops' = ops \ {o}
  /\ UNCHANGED <<store, panel, events>>

CloseOffscreen(o) ==
  /\ o.at = "close" /\ ops' = ops \ {o}
  /\ IF doc THEN DocLost /\ UNCHANGED notices ELSE UNCHANGED document
  /\ UNCHANGED <<store, panel, events>>

\* updateTunnelStatus: the whole list is stored; an unknown id is looked up
UpdateTunnelStatus(n, more) ==
  \/ ~panel.open /\ ops' = ops \union more /\ UNCHANGED <<panel, store>>
  \/ /\ panel.open /\ panel.list[n.t].there
     /\ panel' = [panel EXCEPT !.list[n.t].status = n.status]
     /\ store' = panel'.list /\ ops' = ops \union more
  \/ /\ panel.open /\ ~panel.list[n.t].there
     /\ ops' = ops \union more \union {Op("readd", n.t, 0, n.status, store)} /\ UNCHANGED <<panel, store>>

\* a status reaches the popup, and the worker, which stores it (handleTunnelStatus)
\* and broadcasts it once more
StatusArrives ==
  /\ notices # <<>> /\ RoomForStatus
  /\ LET n == Head(notices) IN
     IF n.again
     THEN notices' = Tail(notices) /\ UpdateTunnelStatus(n, {})
     ELSE /\ notices' = Append(Tail(notices), [n EXCEPT !.again = TRUE])
          /\ UpdateTunnelStatus(n, {Op("status", n.t, 0, n.status, store)})
  /\ UNCHANGED <<doc, hosted, busy, events>>

SetForStatus(o) ==
  /\ o.op = "status" /\ o.at = "set"
  /\ store' = WithStatus(o.snap, o.t, o.status) /\ ops' = ops \ {o}
  /\ UNCHANGED <<document, panel, events>>

TunnelReports(t) ==
  /\ doc /\ DocReports(t) /\ Event
  /\ UNCHANGED <<store, ops, panel>>

\* sampleAllStats, handleTunnelStats: the counters of a connected tunnel are
\* stored at most every 3 s; the rest of the list goes back as it was read
HandleTunnelStats(t) ==
  /\ hosted[t] # 0
  /\ RoomForOps(1) /\ Event
  /\ ops' = ops \union {Op("stats", t, 0, "none", store)}
  /\ UNCHANGED <<document, store, panel>>

SetForStats(o) ==
  /\ o.op = "stats" /\ o.at = "set"
  /\ store' = o.snap /\ ops' = ops \ {o}
  /\ UNCHANGED <<document, panel, events>>

(* Mutant: only a tunnel that was running is started again *)
RestartsRunning ==
  {Op("start", t, store[t].cfg, store[t].status, store) :
     t \in {x \in Tunnels : store[x].there /\ store[x].status = "running"}}

\* every tunnel that was not stopped is started again
Restarts == {Op("start", t, store[t].cfg, store[t].status, store) : t \in Alive(store)}

KeepaliveAlarm ==
  /\ ~doc /\ Restarts # {} /\ RoomForOps(Cardinality(Restarts))
  /\ ops' = ops \union Restarts
  /\ UNCHANGED <<document, store, panel, events>>

DocumentLost ==
  /\ doc /\ Event
  /\ DocLost /\ UNCHANGED <<notices, store, ops, panel>>

\* the browser is restarted, or the extension is updated: onStartup, onInstalled
BrowserRestarts ==
  /\ Event
  /\ DocLost /\ notices' = <<>>
  /\ panel' = Closed /\ ops' = Restarts
  /\ UNCHANGED store

---------------------------------------------------------------------------
(* The popup.                                                              *)

OpenPopup ==
  /\ Event /\ ~panel.open /\ panel' = [Closed EXCEPT !.open = TRUE]
  /\ UNCHANGED <<document, store, ops>>
LoadTunnels ==
  /\ panel.open /\ ~panel.loaded
  /\ panel' = [panel EXCEPT !.loaded = TRUE, !.list =
                 [t \in Tunnels |-> [store[t] EXCEPT !.status = IF store[t].there /\ @ = "none" THEN "stopped" ELSE @]]]
  /\ UNCHANGED <<document, store, ops, events>>
ClosePopup ==
  /\ panel.open /\ panel' = Closed
  /\ ops' = {o \in ops : o.op # "readd"}
  /\ UNCHANGED <<document, store, events>>

\* What is clicked is what is shown: a dialog covers the view, and the views are
\* the list, the form, and the settings, which change nothing here.
Shown(view) == panel.loaded /\ panel.view = view /\ panel.deleting = NoTunnel
SwitchView(view, editing) == panel' = [panel EXCEPT !.view = view, !.editing = editing]

OpenNewForm ==
  /\ Shown("list") /\ events < MaxEvents /\ SwitchView("form", NoTunnel)
  /\ UNCHANGED <<document, store, ops, events>>
OpenEditForm(t) ==
  /\ Shown("list") /\ events < MaxEvents /\ panel.list[t].there /\ SwitchView("form", t)
  /\ UNCHANGED <<document, store, ops, events>>
FormBack ==
  /\ Shown("form") /\ SwitchView("list", panel.editing)
  /\ UNCHANGED <<document, store, ops, events>>

\* from the card of the tunnel or from its form
ShowDeleteDialog(t) ==
  /\ events < MaxEvents
  /\ (Shown("list") /\ panel.list[t].there) \/ (Shown("form") /\ panel.editing = t)
  /\ panel' = [panel EXCEPT !.deleting = t]
  /\ UNCHANGED <<document, store, ops, events>>
HideDeleteDialog ==
  /\ panel.deleting # NoTunnel /\ panel' = [panel EXCEPT !.deleting = NoTunnel]
  /\ UNCHANGED <<document, store, ops, events>>

\* startTunnel: shown as connecting, not stored; the list as it was just shown
StartShown(list, t) ==
  /\ RoomForOps(1)
  /\ panel' = [panel EXCEPT !.list = [list EXCEPT ![t].status = "connecting"], !.view = "list"]
  /\ ops' = ops \union {Op("start", t, list[t].cfg, "none", store')}
  /\ DocGets(DocStart(t, list[t].cfg))

PanelStart(t) ==
  /\ Event /\ Shown("list") /\ OffersStart(panel.list[t])
  /\ UNCHANGED store /\ StartShown(panel.list, t)

PanelStop(t) ==
  /\ Event /\ Shown("list") /\ OffersStop(panel.list[t]) /\ RoomForOps(1)
  /\ panel' = [panel EXCEPT !.list[t].status = "stopped"]
  /\ store' = panel'.list
  /\ ops' = ops \union {Op("stop", t, 0, "none", store')} /\ DocGets(DocStop(t))

\* an id nobody has used: crypto.randomUUID
Fresh(t) ==
  /\ ~panel.list[t].there /\ ~store[t].there /\ hosted[t] = 0 /\ t \notin busy
  /\ \A o \in ops : o.t # t /\ ~o.snap[t].there
  /\ \A n \in DOMAIN notices : notices[n].t # t

\* saveForm with no tunnel under edit: createTunnel, which also starts it
CreateTunnel(t, cfg) ==
  /\ Event /\ Shown("form") /\ panel.editing = NoTunnel /\ Fresh(t)
  /\ store' = [panel.list EXCEPT ![t] = Stored("stopped", cfg)]
  /\ StartShown(store', t)

\* saveForm of a tunnel: stored as stopped, and started again if it was active
SaveEdit(t, cfg) ==
  /\ Event /\ Shown("form") /\ panel.editing = t /\ panel.list[t].there
  /\ store' = [panel.list EXCEPT ![t] = Stored("stopped", cfg)]
  /\ IF WasActive(panel.list[t])
     THEN StartShown(store', t)
     ELSE panel' = [panel EXCEPT !.list = store', !.view = "list"] /\ UNCHANGED <<document, ops>>

DeleteTunnel(t) ==
  /\ Event /\ panel.deleting = t /\ RoomForOps(1)
  /\ panel' = [panel EXCEPT !.deleting = NoTunnel, !.list[t] = Absent,
                 !.view = "list", !.editing = IF panel.view = "form" THEN NoTunnel ELSE @]
  /\ store' = panel'.list
  /\ ops' = ops \union {Op("stop", t, 0, "none", store')} /\ DocGets(DocStop(t))

SetForReAdd(o) ==
  /\ o.op = "readd" /\ o.at = "set" /\ ops' = ops \ {o}
  /\ IF o.snap[o.t].there
     THEN /\ store' = WithStatus(o.snap, o.t, o.status)
          /\ panel' = [panel EXCEPT !.list[o.t] = store'[o.t]]
     ELSE UNCHANGED <<store, panel>>
  /\ UNCHANGED <<document, events>>

---------------------------------------------------------------------------
SetStep(o) ==
  \/ SetForStart(o) \/ SetForStop(o) \/ SetForStatus(o) \/ SetForStats(o) \/ SetForReAdd(o)
SendStep(o) == SendStart(o) \/ SendStop(o) \/ CloseOffscreen(o)
OpStep(o) == SetStep(o) \/ EnsureOffscreen(o) \/ SendStep(o)

OnTunnel(t) ==
  \/ PanelStart(t) \/ PanelStop(t) \/ OpenEditForm(t) \/ ShowDeleteDialog(t) \/ DeleteTunnel(t)
  \/ TunnelReports(t) \/ HandleTunnelStats(t) \/ \E cfg \in Configs : CreateTunnel(t, cfg) \/ SaveEdit(t, cfg)

Next ==
  \/ \E o \in ops : OpStep(o)
  \/ \E t \in Tunnels : OnTunnel(t)
  \/ OffscreenCreated \/ StatusArrives \/ KeepaliveAlarm \/ DocumentLost \/ BrowserRestarts
  \/ OpenPopup \/ LoadTunnels \/ ClosePopup \/ OpenNewForm \/ FormBack \/ HideDeleteDialog

Spec == Init /\ [][Next]_vars

\* Handlers end, messages arrive, the alarm goes off, and the document tells how
\* a start of a tunnel ended.
Fairness ==
  /\ WF_vars(\E o \in ops : SetStep(o)) /\ WF_vars(\E o \in ops : EnsureOffscreen(o))
  /\ WF_vars(\E o \in ops : SendStep(o)) /\ WF_vars(OffscreenCreated)
  /\ WF_vars(StatusArrives) /\ WF_vars(LoadTunnels) /\ SF_vars(KeepaliveAlarm)

LiveSpec == Spec /\ Fairness

---------------------------------------------------------------------------
(* Properties.                                                             *)

(* A tunnel stored as anything but stopped is hosted again after the        *)
(* document or the browser was lost (background.js, the keepalive alarm,    *)
(* onStartup), whatever the lost updates of the list leave in it.           *)
LostHostRestarts == \A t \in Tunnels :
  (~doc /\ t \in Alive(store)) ~> (hosted[t] # 0 \/ t \notin Alive(store))

(* When every handler has ended and every message has arrived, the document *)
(* runs the configuration that is stored (sidepanel.js saveForm: the start  *)
(* it sends makes the document restart with the new one).                   *)
HostRunsStoredConfig ==
  (ops = {} /\ notices = <<>>) =>
     \A t \in Tunnels : hosted[t] # 0 /\ store[t].there => hosted[t] = store[t].cfg
=============================================================================
