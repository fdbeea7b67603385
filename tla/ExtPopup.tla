-------------------------------- MODULE ExtPopup --------------------------------
(***************************************************************************)
(* The popup of the extension (sidepanel.js) but for what changes tunnels, *)
(* which ExtTunnels has: its settings and the tip, the theme that follows  *)
(* the system's, the cards that unfold and show the traffic the document   *)
(* tells (ExtStats), the dialogs of the QR code and of a reset, the        *)
(* switches of the form, and the toast.  The popup is a page that goes     *)
(* away when it loses the focus; what it asked the storage for comes later.*)
(***************************************************************************)
EXTENDS Naturals, FiniteSets

CONSTANTS
  Cards,                 \* the tunnels in the list
  MaxClicks              \* bound: what the user and the system do

ASSUME PopupAssumption == MaxClicks \in Nat

VARIABLES
  settings,              \* chrome.storage.local "settings"
  sysDark,               \* the system prefers dark
  pop,                   \* the popup
  stored,                \* what the storage has of each tunnel
  clicks                 \* how many there were (bound)

extPopup == <<settings, sysDark, pop, stored, clicks>>

Default == [theme |-> "system", lang |-> "en", tip |-> TRUE]
Item(s, url, error) == [status |-> s, url |-> url, error |-> error]
NoCard == Item("none", FALSE, FALSE)
Shut ==
  [open |-> FALSE, asks |-> {}, read |-> Default, rushed |-> FALSE, settings |-> Default, dark |-> FALSE, view |-> "list",
   cards |-> [t \in Cards |-> NoCard], traffic |-> {}, expanded |-> {},
   resetting |-> {}, qr |-> "none", record |-> "off", auth |-> FALSE, password |-> "hidden", toast |-> FALSE]

Click == pop.open /\ clicks < MaxClicks /\ clicks' = clicks + 1
Rest == UNCHANGED <<settings, sysDark, stored>>
\* no dialog covers the page
Uncovered == pop.resetting = {} /\ pop.qr = "none"

---------------------------------------------------------------------------
(* Settings.                                                               *)

\* applyTheme
Dark(theme) == theme = "dark" \/ (theme = "system" /\ sysDark)

OpenPopupPage ==
  /\ ~pop.open /\ UNCHANGED clicks
  /\ pop' = [Shut EXCEPT !.open = TRUE, !.asks = {"settings", "tunnels"}, !.read = settings] /\ Rest
ClosePopupPage == pop.open /\ pop' = Shut /\ Rest /\ UNCHANGED clicks

LoadSettings ==
  /\ "settings" \in pop.asks
  /\ pop' = [pop EXCEPT !.asks = @ \ {"settings"}, !.settings = pop.read, !.dark = Dark(pop.read.theme)]
  /\ Rest /\ UNCHANGED clicks

\* all the settings are written with each change; one before they were read makes
\* that of the defaults
Chosen(s) ==
  /\ settings' = s
  /\ pop' = [pop EXCEPT !.settings = s, !.dark = Dark(s.theme), !.rushed = @ \/ "settings" \in pop.asks]
  /\ UNCHANGED <<sysDark, stored>>
NextTheme == [light |-> "dark", dark |-> "system", system |-> "light"]
CycleTheme ==
  Click /\ pop.view = "settings" /\ Uncovered /\ Chosen([pop.settings EXCEPT !.theme = NextTheme[@]])
CycleLang ==
  /\ Click /\ pop.view = "settings" /\ Uncovered
  /\ Chosen([pop.settings EXCEPT !.lang = IF @ = "en" THEN "zh" ELSE "en"])
DismissTip == Click /\ pop.view = "list" /\ Uncovered /\ pop.settings.tip /\ Chosen([pop.settings EXCEPT !.tip = FALSE])

(* Mutant: the system's change is applied to a theme the user has chosen *)
SystemDark(dark) == dark

SystemThemeApplied(dark) == IF pop.settings.theme = "system" THEN dark ELSE pop.dark
SystemThemeChanges ==
  /\ clicks < MaxClicks /\ clicks' = clicks + 1 /\ sysDark' = ~sysDark
  /\ pop' = IF pop.open THEN [pop EXCEPT !.dark = SystemThemeApplied(~sysDark)] ELSE pop
  /\ UNCHANGED <<settings, stored>>

OpenSettings == Click /\ pop.view = "list" /\ Uncovered /\ pop' = [pop EXCEPT !.view = "settings"] /\ Rest
BackToList == Click /\ pop.view # "list" /\ Uncovered /\ pop' = [pop EXCEPT !.view = "list"] /\ Rest

---------------------------------------------------------------------------
(* The form's switches.                                                    *)

NewForm ==
  /\ Click /\ pop.view = "list" /\ Uncovered
  /\ pop' = [pop EXCEPT !.view = "form", !.record = "off", !.auth = FALSE] /\ Rest
NextRecord == [off |-> "headers", headers |-> "full", full |-> "off"]
CycleRecordMode == Click /\ pop.view = "form" /\ pop' = [pop EXCEPT !.record = NextRecord[@]] /\ Rest
\* switched off, it forgets what was typed
ToggleAuth == Click /\ pop.view = "form" /\ pop' = [pop EXCEPT !.auth = ~@] /\ Rest
TogglePassword ==
  /\ Click /\ pop.view = "form" /\ pop.auth
  /\ pop' = [pop EXCEPT !.password = IF @ = "hidden" THEN "shown" ELSE "hidden"] /\ Rest

---------------------------------------------------------------------------
(* The cards.  A list that is drawn anew shows no traffic until the next    *)
(* message.                                                                *)

Drawn(cards) == [pop EXCEPT !.cards = cards, !.traffic = {}]
RenderTunnelList ==
  /\ "tunnels" \in pop.asks
  /\ pop' = [Drawn(stored) EXCEPT !.asks = @ \ {"tunnels"}] /\ Rest /\ UNCHANGED clicks
\* updateTunnelStatus: the address and the error of before stay unless others are told
Told(item, s) == Item(s, item.url \/ s = "running", s # "running" /\ (item.error \/ s = "error"))
StatusTold(t, s) ==
  /\ clicks < MaxClicks /\ clicks' = clicks + 1 /\ stored[t].status # s
  /\ stored' = [stored EXCEPT ![t] = Told(@, s)]
  /\ pop' = IF pop.open /\ pop.cards[t] # NoCard THEN Drawn([pop.cards EXCEPT ![t] = Told(@, s)]) ELSE pop
  /\ UNCHANGED <<settings, sysDark>>

\* updateTunnelStats: only the card of a running tunnel has a place for them
UpdateTunnelStats(t) ==
  /\ pop.open /\ pop.cards[t].status = "running" /\ pop' = [pop EXCEPT !.traffic = @ \union {t}]
  /\ Rest /\ UNCHANGED clicks

OnCard(t) == Click /\ pop.view = "list" /\ Uncovered /\ pop.cards[t] # NoCard

(* Mutant: the other cards stay unfolded *)
ToggleExpandOnly(t) ==
  OnCard(t) /\ pop' = [pop EXCEPT !.expanded = IF t \in @ THEN @ \ {t} ELSE @ \union {t}] /\ Rest

\* an accordion: one card is unfolded, the others are folded
ToggleExpand(t) ==
  OnCard(t) /\ pop' = [pop EXCEPT !.expanded = IF t \in @ THEN {} ELSE {t}] /\ Rest
\* the rows and the buttons of the panel that unfolds
Rows(item) ==
  {"id", "target"} \union (IF item.url THEN {"url"} ELSE {}) \union (IF item.error THEN {"error"} ELSE {})
Buttons(item) ==
  {"edit", "delete", "inspect", "reset"} \union (IF item.url THEN {"qr"} ELSE {})
    \union {IF item.status \in {"running", "connecting"} THEN "stop" ELSE "start"}
OnUnfolded(t, what) ==
  OnCard(t) /\ t \in pop.expanded /\ what \in Rows(pop.cards[t]) \union Buttons(pop.cards[t])

\* a stop forgets the address and the error; a start keeps them
StopCard(t) ==
  /\ OnUnfolded(t, "stop") /\ pop' = Drawn([pop.cards EXCEPT ![t] = Item("stopped", FALSE, FALSE)])
  /\ stored' = [stored EXCEPT ![t] = Item("stopped", FALSE, FALSE)]
  /\ UNCHANGED <<settings, sysDark>>
StartCard(t) ==
  /\ OnUnfolded(t, "start") /\ pop' = Drawn([pop.cards EXCEPT ![t].status = "connecting"])
  /\ Rest
ShowResetDialog(t) == OnUnfolded(t, "reset") /\ pop' = [pop EXCEPT !.resetting = {t}] /\ Rest
HideResetDialog == Click /\ pop.resetting # {} /\ pop' = [pop EXCEPT !.resetting = {}] /\ Rest
\* the document is told (ResetStats); the card shows the counters of before until the
\* next message
ResetConfirmed(t) == Click /\ t \in pop.resetting /\ pop' = [pop EXCEPT !.resetting = {}] /\ Rest
ShowQrDialog(t) == OnUnfolded(t, "qr") /\ pop' = [pop EXCEPT !.qr = t] /\ Rest
HideQrDialog == Click /\ pop.qr # "none" /\ pop' = [pop EXCEPT !.qr = "none"] /\ Rest

\* copied at once or by the fallback, or refused; the toast stays for 2.5 s
CopyToClipboard(t) ==
  /\ \E what \in {"id", "target", "url"} : OnUnfolded(t, what)
  /\ \E done \in BOOLEAN : pop' = [pop EXCEPT !.toast = @ \/ done]
  /\ Rest
ToastEnds == pop.toast /\ pop' = [pop EXCEPT !.toast = FALSE] /\ Rest /\ UNCHANGED clicks

---------------------------------------------------------------------------
PopupInit ==
  /\ settings = Default /\ sysDark \in BOOLEAN /\ pop = Shut /\ clicks = 0
  /\ stored \in [Cards -> {Item("running", TRUE, FALSE), Item("stopped", FALSE, FALSE)}]

OnTunnelCard(t) ==
  \/ UpdateTunnelStats(t) \/ ToggleExpand(t) \/ ShowResetDialog(t) \/ ResetConfirmed(t) \/ ShowQrDialog(t) \/ CopyToClipboard(t)
  \/ StopCard(t) \/ StartCard(t) \/ \E s \in {"running", "stopped", "connecting", "error"} : StatusTold(t, s)
InSettings ==
  LoadSettings \/ CycleTheme \/ CycleLang \/ DismissTip \/ SystemThemeChanges \/ OpenSettings \/ BackToList
PopupNext ==
  \/ OpenPopupPage \/ ClosePopupPage \/ InSettings
  \/ NewForm \/ CycleRecordMode \/ ToggleAuth \/ TogglePassword
  \/ RenderTunnelList \/ \E t \in Cards : OnTunnelCard(t)
  \/ HideResetDialog \/ HideQrDialog \/ ToastEnds

---------------------------------------------------------------------------
(* Once the settings are there the popup is dark as they and the system     *)
(* want it, and they are those that are stored, but for a click that came   *)
(* before they were read, which writes the defaults over them               *)
(* (sidepanel.js applyTheme, loadSettings).                                 *)
SettingsAgree ==
  pop.open /\ "settings" \notin pop.asks =>
    /\ pop.dark = Dark(pop.settings.theme)
    /\ ~pop.rushed => pop.settings = settings

(* The popup shows traffic on the cards of running tunnels, and never more  *)
(* than one unfolded card (sidepanel.js toggleExpand: collapse all others), *)
(* however often the list is drawn anew.                                    *)
CardsTell ==
  /\ Cardinality(pop.expanded) <= 1
  /\ \A t \in Cards : t \in pop.traffic => pop.cards[t].status = "running"

(* What the popup shows agrees with what is stored and told, in whatever    *)
(* order the answers, the statuses and the clicks come (sidepanel.js init). *)
PopupAgrees == SettingsAgree /\ CardsTell
=============================================================================
