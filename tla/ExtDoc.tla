-------------------------------- MODULE ExtDoc --------------------------------
(***************************************************************************)
(* What the offscreen document of the browser extension promises the rest  *)
(* of it (src/extension/offscreen.js): it hosts tunnels, each with the     *)
(* configuration of the start that was accepted, and it reports statuses.  *)
(* A start is ignored while an earlier start of the tunnel is unanswered.  *)
(* ExtHost is the document in detail, with its connections; ExtTunnels     *)
(* uses the promise.                                                       *)
(***************************************************************************)
EXTENDS Naturals, Sequences

CONSTANTS
  Tunnels,
  Configs,               \* the configurations a tunnel can be given
  MaxNotices             \* bound: statuses on their way

ASSUME DocAssumption == Configs \subseteq Nat \ {0} /\ MaxNotices \in Nat

VARIABLES
  doc,                   \* the document exists
  hosted,                \* tunnels: the configuration that is hosted, or 0
  busy,                  \* _pendingStarts
  notices                \* statuses on their way to the service worker and the popup

document == <<doc, hosted, busy, notices>>

\* again: the copy that the service worker sends on to the popup
Status(t, s) == [t |-> t, status |-> s, again |-> FALSE]
Notify(t, statuses) ==
  /\ Len(notices) + Len(statuses) <= MaxNotices
  /\ notices' = notices \o [i \in DOMAIN statuses |-> Status(t, statuses[i])]

Off == [t \in Tunnels |-> 0]
DocInit == doc = FALSE /\ hosted = Off /\ busy = {} /\ notices = <<>>

\* startTunnel: a hosted tunnel is stopped and started with what came now
DocStart(t, cfg) ==
  IF t \in busy THEN UNCHANGED document
  ELSE /\ hosted' = [hosted EXCEPT ![t] = cfg] /\ busy' = busy \union {t}
       /\ Notify(t, IF hosted[t] = 0 THEN <<"connecting">> ELSE <<"stopped", "connecting">>)
       /\ UNCHANGED doc

DocStop(t) ==
  IF hosted[t] = 0 THEN UNCHANGED document
  ELSE /\ hosted' = [hosted EXCEPT ![t] = 0]
       /\ Notify(t, <<"stopped">>)
       /\ UNCHANGED <<doc, busy>>

\* What a tunnel may be reported as: a failure may come after the tunnel was
\* stopped, everything else is said of a tunnel that is hosted.
Reported(t) ==
  {<<"error">>} \union IF hosted[t] = 0 THEN {}
                      ELSE {<<"running">>, <<"connecting">>, <<"error", "connecting">>, <<"connecting", "error">>}

DocReports(t) ==
  /\ \E statuses \in Reported(t) : Notify(t, statuses)
  /\ busy' \in {busy, busy \ {t}}
  /\ UNCHANGED <<doc, hosted>>

DocCreated == doc' = TRUE /\ UNCHANGED <<hosted, busy, notices>>

\* everything the document held is gone with it
DocLost == doc' = FALSE /\ hosted' = Off /\ busy' = {}

Delivered ==
  /\ notices # <<>> /\ notices' = Tail(notices)
  /\ UNCHANGED <<doc, hosted, busy>>

DocNext ==
  \/ \E t \in Tunnels : doc /\ ((\E cfg \in Configs : DocStart(t, cfg)) \/ DocStop(t) \/ DocReports(t))
  \/ (~doc /\ DocCreated) \/ (doc /\ DocLost /\ UNCHANGED notices) \/ Delivered

DocSpec == DocInit /\ [][DocNext]_document
=============================================================================
