--------------------------------- MODULE WebApp ---------------------------------
(***************************************************************************)
(* The web interface: the pages of the items with their stores (WebPages,  *)
(* WebDetail), the home page (WebHome), the allowlist of a hub (WebPeers)  *)
(* and what is told of its spokes (WebHub), the settings (WebSettings)     *)
(* with the tests on their page (WebProbes), the inspector (WebInspector)  *)
(* and the pages that poll (WebJournal).  The router (router/routes.ts)    *)
(* shows one page at a time, and a behaviour is about what is shown first: *)
(* the variables of the other pages do not change.                         *)
(***************************************************************************)
EXTENDS WebDetail, WebPeers, WebSettings, WebInspector, WebHub, WebHome, WebJournal, WebProbes

VARIABLE shown           \* what the behaviour is about

webVars == <<pages, peers, settings, inspector, lanVars, homeVars, journalVars, probeVars, shown>>

PagesIdle ==
  /\ class = Class("tunnel", "http") /\ server = [id \in Ids |-> Stored("unborn", FALSE)]
  /\ list = <<>> /\ loading = FALSE /\ polling = TRUE /\ acts = MaxActs /\ calls = {} /\ pg = Page("home", 0, FALSE)
SettingsIdle ==
  /\ daemonAdv = NoForm /\ daemonTheme = "system" /\ store = [adv |-> NoForm, theme |-> "system"]
  /\ sp = [adv |-> NoForm, theme |-> "system", saving |-> FALSE] /\ writes = {}
  /\ identity = 0 /\ resets = {} /\ reads = {} /\ idp = NoIdentity /\ settingsActs = 0
InspectorIdle ==
  /\ ins = InspectorPage("query", "none") /\ queries = {} /\ feed = "none" /\ shed = 0 /\ timer = FALSE
  /\ panel = Closed /\ fetches = {} /\ inspectorActs = 0

\* where nothing has happened
ItemsIdle == PagesIdle /\ HomeInit
HubIdle == PeersInit /\ LanInit
OthersIdle == SettingsIdle /\ InspectorIdle /\ JournalIdle /\ ProbesInit

WebInit ==
  \/ shown = "items" /\ PagesInit /\ HomeInit /\ HubIdle /\ OthersIdle
  \/ shown \in {"home", "peers", "hub", "probes"} /\ ItemsIdle /\ HubIdle /\ OthersIdle
  \/ shown = "settings" /\ ItemsIdle /\ HubIdle /\ SettingsInit /\ InspectorIdle /\ JournalIdle /\ ProbesInit
  \/ shown = "inspector" /\ ItemsIdle /\ HubIdle /\ SettingsIdle /\ InspectorInit /\ JournalIdle /\ ProbesInit
  \/ shown = "journal" /\ ItemsIdle /\ HubIdle /\ SettingsIdle /\ InspectorIdle /\ JournalInit /\ ProbesInit

WebNext ==
  /\ UNCHANGED shown
  /\ \/ shown = "items" /\ PagesNext /\ UNCHANGED <<peers, settings, inspector, lanVars, homeVars, journalVars, probeVars>>
     \/ shown = "home" /\ HomeNext /\ UNCHANGED <<pages, peers, settings, inspector, lanVars, journalVars, probeVars>>
     \/ shown = "peers" /\ PeersNext /\ UNCHANGED <<pages, settings, inspector, lanVars, homeVars, journalVars, probeVars>>
     \/ shown = "hub" /\ LanNext /\ UNCHANGED <<pages, peers, settings, inspector, homeVars, journalVars, probeVars>>
     \/ shown = "settings" /\ SettingsNext /\ UNCHANGED <<pages, peers, inspector, lanVars, homeVars, journalVars, probeVars>>
     \/ shown = "inspector" /\ InspectorNext /\ UNCHANGED <<pages, peers, settings, lanVars, homeVars, journalVars, probeVars>>
     \/ shown = "journal" /\ JournalNext /\ UNCHANGED <<pages, peers, settings, inspector, lanVars, homeVars, probeVars>>
     \/ shown = "probes" /\ ProbesNext /\ UNCHANGED <<pages, peers, settings, inspector, lanVars, homeVars, journalVars>>

WebSpec ==
  WebInit /\ [][WebNext]_webVars /\ PagesFairness /\ SettingsFairness /\ JournalFairness /\ ProbesFairness

(* What the user was at is not lost: the text of a form that is open, and   *)
(* the list that a new item was made from (the detail pages, home-page.ts). *)
UserKeepsPlace == DraftKept /\ ComesBack

(* Nothing the interface waits for holds it for ever: the spinner of the    *)
(* list, the start of the polling, the dialog of a reset and the buttons    *)
(* of the tests are free again and again, and a page that polls comes to    *)
(* show what the daemon has (app.ts, tunnel-store.ts, settings-page.ts,     *)
(* events-page.ts).                                                         *)
Unblocked == SpinnerEnds /\ ResetEnds /\ TestsTold /\ CatchesUp
=============================================================================
