------------------------------- MODULE ExtHost -------------------------------
(***************************************************************************)
(* The offscreen document of the browser extension in detail (src/         *)
(* extension/offscreen.js): the tunnels it hosts and their connections to  *)
(* the relay (lib/tunnel-connection.js), which fail, are refused, fall     *)
(* silent and are retried.  A connection is a slot of its tunnel; a slot   *)
(* is free again when its WebSocket is closed.                             *)
(***************************************************************************)
EXTENDS ExtRelay

CONSTANTS
  Tunnels, Configs, MaxNotices,   \* as in ExtDoc
  Prefix,                         \* the prefix a tunnel's configuration asks for
  Slots                           \* bound: connections of one tunnel that exist at once

ASSUME HostAssumption == Slots \subseteq Nat \ {0}

VARIABLES
  doc,                   \* the document exists
  entry,                 \* tunnels: the entry of a tunnel
  pending,               \* _pendingStarts
  conns,                 \* TunnelConnection and its WebSocket, per slot
  notices                \* statuses on their way

vars == <<doc, entry, pending, conns, notices>>

\* the promise of the document, with an entry as the configuration it hosts
Doc == INSTANCE ExtDoc WITH
  hosted <- [t \in Tunnels |-> IF entry[t].on THEN entry[t].cfg ELSE 0], busy <- pending

NoEntry == [on |-> FALSE, cfg |-> 0, conn |-> 0, timer |-> FALSE, attempts |-> 0]

\* ws: connecting, open (bind sent), bound, refused, silent (the session was
\* closed, the socket was not), closing (close() while it was open or bound),
\* aborting (close() while it was connecting), closed
NoConn == [ws |-> "closed", starting |-> FALSE]

NoEntries == [t \in Tunnels |-> NoEntry]
NoConns == [t \in Tunnels |-> [i \in Slots |-> NoConn]]
Init == doc = FALSE /\ entry = NoEntries /\ pending = {} /\ conns = NoConns /\ notices = <<>>

Notify(t, statuses) == Doc!Notify(t, statuses)

\* the relay's hash of an id, and an id
Hash == <<7>>
Uuid == [i \in 1..16 |-> 1]

Free(t) == {i \in Slots : conns[t][i].ws = "closed"}
FirstFree(t) == CHOOSE i \in Free(t) : \A j \in Free(t) : i <= j

\* connect(entry): a new connection becomes the entry's own, no attempts made
Connected(e, i) == [e EXCEPT !.conn = i, !.timer = FALSE, !.attempts = 0]
Connecting(starting) == [ws |-> "connecting", starting |-> starting]

\* TunnelConnection.close()
CloseConn(c) ==
  [c EXCEPT !.ws = CASE @ = "connecting" -> "aborting"
                     [] @ \in {"open", "bound", "refused", "silent"} -> "closing"
                     [] OTHER -> @]

---------------------------------------------------------------------------
(* Messages the document is sent.                                          *)

Start(t, cfg) ==
  /\ doc /\ t \notin pending /\ Free(t) # {}
  /\ LET e == entry[t]
         i == FirstFree(t)
         old == IF e.on /\ e.conn # 0 THEN [conns[t] EXCEPT ![e.conn] = CloseConn(@)] ELSE conns[t]
     IN /\ entry' = [entry EXCEPT ![t] = Connected([NoEntry EXCEPT !.on = TRUE, !.cfg = cfg], i)]
        /\ conns' = [conns EXCEPT ![t] = [old EXCEPT ![i] = Connecting(TRUE)]]
        /\ Notify(t, IF e.on THEN <<"stopped", "connecting">> ELSE <<"connecting">>)
  /\ pending' = pending \union {t}
  /\ UNCHANGED doc

Stop(t) ==
  /\ doc /\ entry[t].on
  /\ entry' = [entry EXCEPT ![t] = NoEntry]
  /\ conns' = IF entry[t].conn = 0 THEN conns ELSE [conns EXCEPT ![t][entry[t].conn] = CloseConn(@)]
  /\ Notify(t, <<"stopped">>)
  /\ UNCHANGED <<doc, pending>>

---------------------------------------------------------------------------
(* Events of a connection.                                                 *)

\* the promise of connect() is settled: the start is no longer pending
Settled(t, i) == pending' = IF conns[t][i].starting THEN pending \ {t} ELSE pending

\* onClose: only the entry's own connection is retried
Retried(t, i) == entry[t].on /\ entry[t].conn = i

(* Mutant: any connection that is closed takes its tunnel back to the retry *)
OnCloseOfAny(t, i) ==
  entry' = [entry EXCEPT ![t].on = TRUE, ![t].conn = 0, ![t].timer = TRUE, ![t].attempts = @ + 1]

(* Mutant: a connection that fails in the first attempt is not retried *)
OnCloseOfBound(t, i) ==
  entry' = IF Retried(t, i) /\ ~conns[t][i].starting
           THEN [entry EXCEPT ![t].conn = 0, ![t].timer = TRUE, ![t].attempts = @ + 1]
           ELSE entry

OnClose(t, i) ==
  entry' = IF Retried(t, i)
           THEN [entry EXCEPT ![t].conn = 0, ![t].timer = TRUE, ![t].attempts = @ + 1]
           ELSE entry
Retrying(t, i) == IF Retried(t, i) THEN <<"connecting">> ELSE <<>>

WsOpen(t, i) ==
  /\ conns[t][i].ws = "connecting"
  /\ conns' = [conns EXCEPT ![t][i].ws = "open"]
  /\ UNCHANGED <<doc, entry, pending, notices>>

\* the answer to the bind request of the tunnel, if the prefix is free or if not
Answers == [t \in Tunnels |-> [free \in BOOLEAN |->
  RelayAnswer(BindRequest(TunnelIdBytes(Uuid), DomainHost(<<8>>), Prefix[t], <<1>>), Hash, free)]]
BindAccepted == [t \in Tunnels |-> \A free \in BOOLEAN :
  /\ ParseFrame(Answers[t][free])[1].code = StatusOK
  /\ BoundHost(Answers[t][free], Hash) = IF free THEN Prefix[t] ELSE Hash]

BindOk(t, i) ==
  /\ conns[t][i].ws = "open" /\ BindAccepted[t]
  /\ conns' = [conns EXCEPT ![t][i] = [ws |-> "bound", starting |-> FALSE]]
  /\ Settled(t, i) /\ Notify(t, <<"running">>)
  /\ UNCHANGED <<doc, entry>>

BindRefused(t, i) ==
  /\ conns[t][i].ws = "open"
  /\ conns' = [conns EXCEPT ![t][i] = [ws |-> "refused", starting |-> FALSE]]
  /\ Settled(t, i) /\ Notify(t, <<"error">>)
  /\ UNCHANGED <<doc, entry>>

\* onerror, then onclose: connect() rejects, also after close()
WsFails(t, i) ==
  /\ conns[t][i].ws \in {"connecting", "aborting"}
  /\ conns' = [conns EXCEPT ![t][i] = NoConn]
  /\ Settled(t, i) /\ OnClose(t, i)
  /\ Notify(t, <<"error">> \o Retrying(t, i))
  /\ UNCHANGED doc

\* onclose: before the bind it rejects connect(), unless close() was called; the
\* rejection is dealt with after the handler, which has told of the retry
WsCloses(t, i) ==
  /\ conns[t][i].ws \in {"open", "bound", "refused", "silent", "closing"}
  /\ conns' = [conns EXCEPT ![t][i] = NoConn]
  /\ OnClose(t, i)
  /\ IF conns[t][i].ws = "open"
     THEN Settled(t, i) /\ Notify(t, Retrying(t, i) \o <<"error">>)
     ELSE UNCHANGED pending /\ Notify(t, Retrying(t, i))
  /\ UNCHANGED doc

\* the smux keepalive: nothing was received for KEEPALIVE_TIMEOUT
FallsSilent(t, i) ==
  /\ conns[t][i].ws = "bound"
  /\ conns' = [conns EXCEPT ![t][i].ws = "silent"]
  /\ OnClose(t, i) /\ Notify(t, Retrying(t, i))
  /\ UNCHANGED <<doc, pending>>

ReconnectTimer(t) ==
  /\ entry[t].timer /\ Free(t) # {}
  /\ entry' = [entry EXCEPT ![t] = Connected(@, FirstFree(t))]
  /\ conns' = [conns EXCEPT ![t][FirstFree(t)] = Connecting(FALSE)]
  /\ Notify(t, <<"connecting">>)
  /\ UNCHANGED <<doc, pending>>

---------------------------------------------------------------------------
(* The document itself, and the messages it sent.                          *)

Created == ~doc /\ doc' = TRUE /\ UNCHANGED <<entry, pending, conns, notices>>
\* everything the document held is gone with it
Lost ==
  /\ doc /\ doc' = FALSE /\ entry' = NoEntries /\ pending' = {} /\ conns' = NoConns
  /\ UNCHANGED notices
Delivered == notices # <<>> /\ notices' = Tail(notices) /\ UNCHANGED <<doc, entry, pending, conns>>

ConnEvent(t, i) ==
  \/ WsOpen(t, i) \/ BindOk(t, i) \/ BindRefused(t, i)
  \/ WsFails(t, i) \/ WsCloses(t, i) \/ FallsSilent(t, i)

Next ==
  \/ \E t \in Tunnels :
       \/ Stop(t) \/ ReconnectTimer(t)
       \/ \E cfg \in Configs : Start(t, cfg)
       \/ \E i \in Slots : ConnEvent(t, i)
  \/ Created \/ Lost \/ Delivered

\* Timers fire, sockets settle, messages arrive, and a relay that is dialled
\* again and again answers at last.
Fairness ==
  /\ WF_vars(Delivered)
  /\ \A t \in Tunnels :
       /\ SF_vars(ReconnectTimer(t))
       /\ \A i \in Slots :
            /\ SF_vars(WsOpen(t, i))
            /\ SF_vars(BindOk(t, i) \/ BindRefused(t, i))
            /\ SF_vars(WsFails(t, i) \/ WsCloses(t, i))

Spec == Init /\ [][Next]_vars /\ Fairness

---------------------------------------------------------------------------
Live == {"connecting", "open", "bound"}

(* A tunnel has at most one connection that can still bind or carry         *)
(* visitors, and only while it is hosted: a stop, a restart or a retry      *)
(* never leaves one behind, whichever event of the old one comes late       *)
(* (offscreen.js: "removing the entry first prevents a spurious reconnect   *)
(* after an intentional stop").                                            *)
NoOrphan == \A t \in Tunnels : \A i \in Slots :
  conns[t][i].ws \in Live => doc /\ entry[t].on /\ entry[t].conn = i

(* The document keeps the promise that the popup and the worker rely on: in *)
(* particular nothing but a failure is reported of a tunnel that is no      *)
(* longer hosted, by whatever late event, and no event starts one.          *)
ImplementsDoc == Doc!DocSpec

EntryConn(t) == IF entry[t].conn = 0 THEN "none" ELSE conns[t][entry[t].conn].ws

(* A tunnel the document hosts gets its answer from the relay, or is        *)
(* stopped: whatever fails - the dial, the bind, the socket, the keepalive  *)
(* - leaves a retry behind, and a late event of a replaced connection does  *)
(* not cancel it (offscreen.js onClose, tunnel-connection.js).              *)
HostedRecovers == \A t \in Tunnels :
  entry[t].on ~> (~entry[t].on \/ EntryConn(t) \in {"bound", "refused"})
=============================================================================
