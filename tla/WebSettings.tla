------------------------------- MODULE WebSettings -------------------------------
(***************************************************************************)
(* The settings: the store's copy (store/settings-store.ts) and the page   *)
(* that edits them (pages/settings-page.ts), with its own check of the     *)
(* advanced values before the daemon checks them (src/tunnel/p2p.go,       *)
(* src/api/config_handler.go), and the reset of the p2p identity, whose    *)
(* answer can be lost.  A duration is text that the page and the daemon    *)
(* read each with a parser of its own, and not always as the same number.  *)
(***************************************************************************)
EXTENDS Integers, Sequences, FiniteSets

CONSTANTS
  Second,                \* the units of a duration that make a second
  Forms,                 \* bound: what the advanced fields are filled with
  MaxSettingsActs        \* bound: what the user does

\* a field that is left blank is 0, one that does not parse or is negative is -1
FieldValues == Nat \union {-1}
\* What the page makes of the text of a duration, a sum of floating-point numbers of
\* seconds (parseGoDuration), and the daemon, whole nanoseconds below 2^63
\* (time.ParseDuration): "0.1ns" is not 0 for the page, "100ms200ms" is more than
\* "300ms", and "9999999h" is no error.
Readings == [page : FieldValues, daemon : FieldValues]
FormValues ==
  [mtu : FieldValues, batch : FieldValues, flush : Readings, keepAlive : Readings, idle : Readings,
   handshake : Readings, interval : Readings, timeout : Readings]

ASSUME SettingsAssumption == Second \in Nat \ {0} /\ MaxSettingsActs \in Nat /\ Forms \subseteq FormValues

VARIABLES
  daemonAdv, daemonTheme,  \* what the daemon runs with
  store,                   \* the store's copy
  sp,                      \* the page
  writes,                  \* saves under way
  identity,                \* the daemon's key: how often it was rotated
  idp,                     \* the identity's part of the page
  resets, reads,           \* rotations and readings under way
  settingsActs

settingsVars == <<daemonAdv, daemonTheme, store, sp, writes>>
identityVars == <<identity, idp, resets, reads>>
settings == <<daemonAdv, daemonTheme, store, sp, writes, identity, idp, resets, reads, settingsActs>>

SettingsAct == settingsActs < MaxSettingsActs /\ settingsActs' = settingsActs + 1

---------------------------------------------------------------------------
(* The advanced values: the check of the page, and that of the daemon.     *)

Or(value, default) == IF value > 0 THEN value ELSE default * Second
Durations(f) == {f.flush, f.keepAlive, f.idle, f.handshake, f.interval, f.timeout}
\* the number that the page reads is the one that the daemon reads
ReadAlike(f) == \A d \in Durations(f) : d.page = d.daemon

\* _advancedError
MtuFits(f) == f.mtu = 0 \/ f.mtu \in 1200..1452
BatchFits(f) == f.batch = 0 \/ (f.batch >= 1 /\ f.batch <= 65536)
IdleFits(f) == Or(f.idle.page, 15) > Or(f.keepAlive.page, 5)

(* Mutant: a blank timeout is not compared with the interval *)
SmuxFitsGiven(f) == f.timeout.page > 0 => f.timeout.page >= 2 * Or(f.interval.page, 3)

SmuxFits(f) == Or(f.timeout.page, 15) >= 2 * Or(f.interval.page, 3)
AdvancedFits(f) ==
  MtuFits(f) /\ BatchFits(f) /\ (\A d \in Durations(f) : d.page # -1) /\ IdleFits(f) /\ SmuxFits(f)

\* P2PQUICConfig and P2PTimeouts; a block without a value is not looked at, and a
\* duration that comes to 0 is the default like a blank
Refused(d) == d.daemon = -1
QuicEmpty(f) ==
  /\ f.mtu = 0 /\ f.batch = 0
  /\ \A d \in {f.flush, f.keepAlive, f.idle, f.handshake} : d.page = 0 /\ d.daemon = 0
ServerTakesQuic(f) ==
  \/ QuicEmpty(f)
  \/ /\ \A d \in {f.flush, f.keepAlive, f.idle, f.handshake} : ~Refused(d)
     /\ (f.mtu # 0 => f.mtu >= 1200) /\ f.batch >= 0 /\ f.batch <= 64 * 1024
     /\ Or(f.idle.daemon, 15) > Or(f.keepAlive.daemon, 5)
ServerTakesSmux(f) ==
  /\ ~Refused(f.interval) /\ ~Refused(f.timeout)
  /\ Or(f.timeout.daemon, 15) >= 2 * Or(f.interval.daemon, 3)
ServerTakes(f) == ServerTakesQuic(f) /\ ServerTakesSmux(f)

---------------------------------------------------------------------------
(* The store, and the page as its subscriber.                              *)

Themes == <<"system", "light", "dark">>
NextTheme(theme) == LET i == CHOOSE i \in 1..3 : Themes[i] = theme IN Themes[(i % 3) + 1]

\* A reading of the identity; `try` counts those a reset depends on.  A key is the
\* number of rotations it took, -1 is none.
Read(keep, try) == [keep |-> keep, try |-> try, at |-> "wire", key |-> -1]

\* a notification sets every field of the page, typed into or not, and reads the identity
PageOf(s) == [sp EXCEPT !.adv = s.adv, !.theme = s.theme]
Notified(s, saving) ==
  /\ store' = s /\ sp' = [PageOf(s) EXCEPT !.saving = saving]
  /\ reads' = reads \union {Read(FALSE, 0)} /\ UNCHANGED <<identity, idp, resets>>

\* loadSettings; the backend may be away
LoadSettings ==
  /\ SettingsAct /\ Notified([adv |-> daemonAdv, theme |-> daemonTheme], sp.saving)
  /\ UNCHANGED <<daemonAdv, daemonTheme, writes>>

Fill(f) ==
  /\ SettingsAct /\ sp' = [sp EXCEPT !.adv = f]
  /\ UNCHANGED <<daemonAdv, daemonTheme, store, writes>> /\ UNCHANGED identityVars

\* _saveSettings
SaveSettings ==
  /\ SettingsAct /\ ~sp.saving /\ AdvancedFits(sp.adv) /\ sp' = [sp EXCEPT !.saving = TRUE]
  /\ writes' = writes \union {[op |-> "p2p", adv |-> sp.adv, theme |-> "", at |-> "wire"]}
  /\ UNCHANGED <<daemonAdv, daemonTheme, store>> /\ UNCHANGED identityVars
\* _setTheme, _setLang, _setInterval and the inspector's address are saved by themselves
SetTheme ==
  /\ SettingsAct /\ sp' = [sp EXCEPT !.theme = NextTheme(@)]
  /\ writes' = writes \union {[op |-> "theme", adv |-> <<>>, theme |-> NextTheme(sp.theme), at |-> "wire"]}
  /\ UNCHANGED <<daemonAdv, daemonTheme, store>> /\ UNCHANGED identityVars

WriteServed(w) ==
  /\ w.at = "wire"
  /\ IF w.op = "theme" THEN daemonTheme' = w.theme /\ UNCHANGED daemonAdv
     ELSE daemonAdv' = (IF ServerTakes(w.adv) THEN w.adv ELSE daemonAdv) /\ UNCHANGED daemonTheme
  /\ writes' = (writes \ {w}) \union {[w EXCEPT !.at = "answered"]}
  /\ UNCHANGED <<store, sp>> /\ UNCHANGED identityVars /\ UNCHANGED settingsActs
\* updateSettings applies the update, whatever became of the request
WriteEnds(w) ==
  /\ writes' = writes \ {w}
  /\ LET s == IF w.op = "theme" THEN [store EXCEPT !.theme = w.theme] ELSE [store EXCEPT !.adv = w.adv]
     IN  Notified(s, sp.saving /\ w.op = "theme")
  /\ UNCHANGED <<daemonAdv, daemonTheme, settingsActs>>

---------------------------------------------------------------------------
(* The identity: _fetchP2PIdentity and _resetP2PKey.                       *)

IdleRead == UNCHANGED settingsVars

\* _reconcileP2PIdentity: readings 1.5 s and 5 s later
Reconcile ==
  /\ idp.timers > 0 /\ reads' = reads \union {Read(TRUE, 0)} /\ idp' = [idp EXCEPT !.timers = @ - 1]
  /\ IdleRead /\ UNCHANGED <<identity, resets, settingsActs>>

OpenResetDialog ==
  /\ ~idp.dialog /\ idp' = [idp EXCEPT !.dialog = TRUE]
  /\ IdleRead /\ UNCHANGED <<identity, resets, reads, settingsActs>>
CloseResetDialog ==
  /\ idp.dialog /\ ~idp.resetting /\ idp' = [idp EXCEPT !.dialog = FALSE]
  /\ IdleRead /\ UNCHANGED <<identity, resets, reads, settingsActs>>

ResetKey ==
  /\ idp.dialog /\ ~idp.resetting /\ SettingsAct
  /\ idp' = [idp EXCEPT !.resetting = TRUE, !.before = idp.key, !.told = ""]
  /\ resets' = resets \union {[n |-> settingsActs + 1, at |-> "wire", key |-> -1]}
  /\ IdleRead /\ UNCHANGED <<identity, reads>>

\* handleResetP2PIdentity: one at a time
ResetServed(r) ==
  /\ r.at \in {"wire", "orphan"} /\ identity' = identity + 1
  /\ resets' = (resets \ {r}) \union IF r.at = "wire" THEN {[r EXCEPT !.at = "answered", !.key = identity + 1]} ELSE {}
  /\ IdleRead /\ UNCHANGED <<idp, reads, settingsActs>>
\* when it is done, a first reading reconciles at once and two follow
TellDone(p) == [p EXCEPT !.told = "done", !.resetting = FALSE, !.dialog = FALSE, !.timers = 2]
TellFailed(p) == [p EXCEPT !.told = "failed", !.resetting = FALSE]
ResetReturns(r) ==
  /\ r.at = "answered" /\ resets' = resets \ {r}
  /\ idp' = TellDone([idp EXCEPT !.key = r.key]) /\ reads' = reads \union {Read(TRUE, 0)}
  /\ IdleRead /\ UNCHANGED <<identity, settingsActs>>

\* no answer in 30 s: the identity is read, up to three times
ResetFails(r) ==
  /\ r.at # "orphan"
  /\ resets' = (resets \ {r}) \union IF r.at = "wire" THEN {[r EXCEPT !.at = "orphan"]} ELSE {}
  /\ reads' = reads \union {Read(TRUE, 1)} /\ IdleRead /\ UNCHANGED <<identity, idp, settingsActs>>
ResetLost(r) ==
  /\ r.at = "orphan" /\ resets' = resets \ {r} /\ IdleRead /\ UNCHANGED <<identity, idp, reads, settingsActs>>

ReadServed(q) ==
  /\ q.at = "wire" /\ reads' = (reads \ {q}) \union {[q EXCEPT !.at = "answered", !.key = identity]}
  /\ IdleRead /\ UNCHANGED <<identity, idp, resets, settingsActs>>

\* what the page makes of a reading; a reading of a reset decides about it
Changed(p) == p.before # -1 /\ p.key # -1 /\ p.key # p.before
Decide(p, q) ==
  CASE q.try = 0 -> p
    [] q.try # 0 /\ Changed(p) -> TellDone(p)
    [] q.try = 3 /\ ~Changed(p) -> TellFailed(p)
    [] OTHER -> p
Again(p, q) ==
  CASE q.try = 0 -> {}
    [] q.try # 0 /\ Changed(p) -> {Read(TRUE, 0)}
    [] q.try \in {1, 2} /\ ~Changed(p) -> {Read(TRUE, q.try + 1)}
    [] OTHER -> {}
ReadEnds(q) ==
  /\ \E key \in (IF q.at = "answered" THEN {q.key} ELSE {}) \union {IF q.keep THEN idp.key ELSE -1} :
       LET p == [idp EXCEPT !.key = key]
       IN  idp' = Decide(p, q) /\ reads' = (reads \ {q}) \union Again(p, q)
  /\ IdleRead /\ UNCHANGED <<identity, resets, settingsActs>>

---------------------------------------------------------------------------
NoText == [page |-> 0, daemon |-> 0]
NoForm == [mtu |-> 0, batch |-> 0, flush |-> NoText, keepAlive |-> NoText, idle |-> NoText, handshake |-> NoText,
           interval |-> NoText, timeout |-> NoText]
NoIdentity == [key |-> -1, before |-> -1, dialog |-> FALSE, resetting |-> FALSE, told |-> "", timers |-> 0]
SettingsInit ==
  /\ daemonAdv = NoForm /\ daemonTheme = "system" /\ writes = {} /\ settingsActs = 0
  /\ store = [adv |-> NoForm, theme |-> "system"]
  /\ sp = [adv |-> NoForm, theme |-> "system", saving |-> FALSE]
  /\ identity = 0 /\ resets = {} /\ reads = {Read(FALSE, 0)}
  /\ idp = NoIdentity

SettingsNext ==
  \/ LoadSettings \/ SaveSettings \/ SetTheme \/ OpenResetDialog \/ CloseResetDialog \/ ResetKey \/ Reconcile
  \/ \E f \in Forms : Fill(f)
  \/ \E w \in writes : WriteServed(w) \/ WriteEnds(w)
  \/ \E r \in resets : ResetServed(r) \/ ResetReturns(r) \/ ResetFails(r) \/ ResetLost(r)
  \/ \E q \in reads : ReadServed(q) \/ ReadEnds(q)
\* every request is answered, refused or given up
SettingsFairness ==
  WF_settings((\E r \in resets : ResetReturns(r) \/ ResetFails(r)) \/ \E q \in reads : ReadEnds(q))
SettingsSpec == SettingsInit /\ [][SettingsNext]_settings /\ SettingsFairness

(* A save that the daemon refuses has a duration that the page and the      *)
(* daemon read as different numbers: the bounds, the defaults and the       *)
(* comparisons of the page are those of the daemon, and only its reading of *)
(* a duration is not (settings-page.ts _advancedError against               *)
(* P2PQUICConfig and P2PTimeouts).                                          *)
SavesAreTaken == \A w \in writes : w.op = "p2p" /\ ~ServerTakes(w.adv) => ~ReadAlike(w.adv)

(* What the comment of _advancedError says, that it mirrors the parser of   *)
(* the daemon: a save that the page lets through is one the daemon takes.   *)
(* It is false of a duration that the two read differently (settings-page.ts*)
(* parseGoDuration).                                                        *)
EverySaveIsTaken == \A w \in writes : w.op = "p2p" => ServerTakes(w.adv)

(* The dialog of a reset, which cannot be closed while the reset is under   *)
(* way, does not hold the user for ever: the answer comes, or the readings  *)
(* that stand in for it come to an end (settings-page.ts _resetP2PKey).     *)
ResetEnds == []<>~idp.resetting
=============================================================================
