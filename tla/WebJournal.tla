------------------------------- MODULE WebJournal -------------------------------
(***************************************************************************)
(* The pages that fetch again and again while they are shown: the history  *)
(* of an item or of the daemon (pages/events-page.ts), and the peers of a  *)
(* tun entrypoint (pages/entrypoint-peers-page.ts); and what the history   *)
(* says of an entrypoint whose hub returns no traffic, the banner of       *)
(* pages/entrypoint-detail-page.ts and the watchdog that writes it         *)
(* (src/runner/task/hub_liveness.go, src/event/event.go).                  *)
(***************************************************************************)
EXTENDS Naturals, Sequences, FiniteSets, SequencesExt

CONSTANTS
  MeshPeers,             \* the peers of the entrypoint, besides its hub
  MaxLog,                \* bound: the events an item keeps (100)
  MaxJournalActs         \* bound: what happens besides timers and answers

ASSUME JournalAssumption == MaxLog \in Nat \ {0} /\ MaxJournalActs \in Nat

VARIABLES
  log,                   \* the events of the daemon, oldest first
  watch,                 \* its watchdog
  blocked,               \* the peers it blocks
  polled,                \* the page
  loads,                 \* its readings under way, by slot
  toggles,               \* its saves under way
  journalActs

journalVars == <<log, watch, blocked, polled, loads, toggles, journalActs>>

JournalAct == journalActs < MaxJournalActs /\ journalActs' = journalActs + 1
Calm == UNCHANGED <<polled, loads, toggles>>

---------------------------------------------------------------------------
(* The history.                                                            *)

\* Record: a repeat is folded into the last event, the oldest event goes
EventOf(message, count) == [message |-> message, count |-> count]
Recorded(l, message) ==
  IF l # <<>> /\ Last(l).message = message THEN [l EXCEPT ![Len(l)].count = @ + 1]
  ELSE LET m == Append(l, EventOf(message, 1)) IN IF Len(m) > MaxLog THEN Tail(m) ELSE m

\* standingWarn: the last verdict counts
Verdicts == {"uplink without downlink", "downlink recovered"}
StandingWarn(l) ==
  \E i \in DOMAIN l : l[i].message = "uplink without downlink" /\ \A j \in i + 1..Len(l) : l[j].message \notin Verdicts

\* checkLiveness of a running tun entrypoint: the first tick only looks, unless the
\* traffic proves the last warning false
Tick(up, down) ==
  /\ JournalAct /\ Calm /\ UNCHANGED blocked
  /\ IF ~watch.seeded
     THEN /\ watch' = [watch EXCEPT !.seeded = TRUE]
          /\ log' = IF down /\ StandingWarn(log) THEN Recorded(log, "downlink recovered") ELSE log
     ELSE IF down
     THEN /\ watch' = [watch EXCEPT !.reported = FALSE]
          /\ log' = IF watch.reported THEN Recorded(log, "downlink recovered") ELSE log
     ELSE /\ watch' = [watch EXCEPT !.reported = @ \/ up]
          /\ log' = IF up /\ ~watch.reported THEN Recorded(log, "uplink without downlink") ELSE log
\* the daemon is started anew: the history was saved, the watchdog was not
Restarted ==
  /\ JournalAct /\ watch.seeded /\ watch' = [seeded |-> FALSE, reported |-> FALSE]
  /\ UNCHANGED <<log, blocked>> /\ Calm
OtherEvent == JournalAct /\ log' = Recorded(log, "relay lost") /\ UNCHANGED <<watch, blocked>> /\ Calm

\* the pages have it newest first
NewestFirst(l) == Reverse(l)

(* Mutant: the oldest verdict counts *)
HubNoReflowOldest(events) ==
  \E i \in DOMAIN events :
    events[i].message = "uplink without downlink" /\ \A j \in i + 1..Len(events) : events[j].message \notin Verdicts

\* _hubNoReflow
HubNoReflow(events) ==
  \E i \in DOMAIN events :
    events[i].message = "uplink without downlink" /\ \A j \in 1..i - 1 : events[j].message \notin Verdicts
\* the banners of a tun entrypoint that runs
Degraded(events, transport) ==
  (IF HubNoReflow(events) THEN {"one-way"} ELSE {})
  \union (IF transport \in {"server-unreachable", "none"} THEN {"server unreachable"} ELSE {})
\* the line on the card of the history
LatestEventLine(events) == IF events = <<>> THEN EventOf("none", 1) ELSE events[1]

---------------------------------------------------------------------------
(* A page that polls.                                                      *)

NoLoad == [at |-> "none", events |-> <<>>, blocked |-> {}]
PolledPage(kind) ==
  [kind |-> kind, events |-> <<>>, blocked |-> {}, error |-> FALSE, confirm |-> FALSE, saving |-> "none",
   armed |-> TRUE, left |-> FALSE]
Unread == UNCHANGED <<log, watch, blocked>>

\* _load
LoadSlot(ls, slot) == [ls EXCEPT ![slot] = [NoLoad EXCEPT !.at = "wire"]]
FreeSlot(slot) == loads[slot].at = "none" /\ (slot = 2 => loads[1].at # "none")
\* _arm: the timer loads, whether the last reading has come or not
TimerFires(slot) ==
  /\ polled.armed /\ FreeSlot(slot) /\ loads' = LoadSlot(loads, slot)
  /\ UNCHANGED <<polled, toggles, journalActs>> /\ Unread
LoadServed(slot) ==
  /\ loads[slot].at = "wire"
  /\ loads' = [loads EXCEPT ![slot] = [at |-> "answered", events |-> NewestFirst(log), blocked |-> blocked]]
  /\ UNCHANGED <<polled, toggles, journalActs>> /\ Unread
LoadReturns(slot) ==
  /\ loads[slot].at = "answered" /\ loads' = [loads EXCEPT ![slot] = NoLoad]
  /\ polled' = [polled EXCEPT !.events = IF polled.kind = "peers" THEN @ ELSE loads[slot].events,
                  !.blocked = IF polled.kind = "peers" THEN loads[slot].blocked ELSE @, !.error = FALSE]
  /\ UNCHANGED <<toggles, journalActs>> /\ Unread

(* Mutant: a reading that fails stops the timer *)
LoadFailsForGood(slot) ==
  /\ loads[slot].at = "wire" /\ JournalAct /\ loads' = [loads EXCEPT ![slot] = NoLoad]
  /\ polled' = [polled EXCEPT !.error = TRUE, !.armed = FALSE] /\ UNCHANGED toggles /\ Unread

\* what is shown stays
LoadFails(slot) ==
  /\ loads[slot].at = "wire" /\ JournalAct /\ loads' = [loads EXCEPT ![slot] = NoLoad]
  /\ polled' = [polled EXCEPT !.error = TRUE] /\ UNCHANGED toggles /\ Unread

\* disconnectedCallback: an answer that comes later changes nothing that is shown
LeavePolled ==
  /\ ~polled.left /\ JournalAct /\ polled' = [polled EXCEPT !.armed = FALSE, !.left = TRUE]
  /\ UNCHANGED <<loads, toggles>> /\ Unread

---------------------------------------------------------------------------
(* What the user does there.                                               *)

\* the history of the daemon can be cleared; a reading under way brings it back
AskClear ==
  /\ ~polled.left /\ polled.kind = "events" /\ polled.events # <<>> /\ ~polled.confirm
  /\ polled' = [polled EXCEPT !.confirm = TRUE] /\ UNCHANGED <<loads, toggles, journalActs>> /\ Unread
DropClear ==
  /\ ~polled.left /\ polled.confirm /\ polled' = [polled EXCEPT !.confirm = FALSE]
  /\ UNCHANGED <<loads, toggles, journalActs>> /\ Unread
Saving(key, next) == [key |-> key, next |-> next, at |-> "wire", ans |-> {}]
ConfirmClear ==
  /\ ~polled.left /\ polled.confirm /\ JournalAct /\ toggles' = toggles \union {Saving("clear", {})}
  /\ polled' = [polled EXCEPT !.confirm = FALSE] /\ UNCHANGED loads /\ Unread
ClearEnds(c) ==
  /\ c.key = "clear" /\ toggles' = toggles \ {c}
  /\ \/ log' = <<>> /\ polled' = [polled EXCEPT !.events = <<>>]
     \/ UNCHANGED log /\ polled' = [polled EXCEPT !.error = TRUE]
  /\ UNCHANGED <<watch, blocked, loads, journalActs>>

\* the hub cannot be blocked; the list is sent as the page knows it
PressToggle(key) ==
  /\ ~polled.left /\ polled.kind = "peers" /\ polled.saving = "none" /\ JournalAct
  /\ toggles' = toggles \union
       {Saving(key, IF key \in polled.blocked THEN polled.blocked \ {key} ELSE polled.blocked \union {key})}
  /\ polled' = [polled EXCEPT !.saving = key, !.error = FALSE] /\ UNCHANGED loads /\ Unread
ToggleServed(c) ==
  /\ c.key \in MeshPeers /\ c.at = "wire" /\ blocked' = c.next
  /\ toggles' = (toggles \ {c}) \union {[c EXCEPT !.at = "answered", !.ans = c.next]}
  /\ UNCHANGED <<log, watch, polled, loads, journalActs>>
ToggleReturns(c) ==
  /\ c.at = "answered" /\ toggles' = toggles \ {c}
  /\ polled' = [polled EXCEPT !.blocked = c.ans, !.saving = "none"] /\ UNCHANGED <<loads, journalActs>> /\ Unread
ToggleFails(c) ==
  /\ c.key \in MeshPeers /\ toggles' = toggles \ {c} /\ polled' = [polled EXCEPT !.error = TRUE, !.saving = "none"]
  /\ UNCHANGED <<loads, journalActs>> /\ Unread

---------------------------------------------------------------------------
JournalIdle ==
  /\ log = <<>> /\ watch = [seeded |-> FALSE, reported |-> FALSE] /\ blocked = {}
  /\ polled = [PolledPage("item") EXCEPT !.armed = FALSE, !.left = TRUE]
  /\ loads = [slot \in 1..2 |-> NoLoad] /\ toggles = {} /\ journalActs = 0
JournalInit ==
  /\ log = <<>> /\ watch = [seeded |-> FALSE, reported |-> FALSE] /\ blocked = {}
  /\ polled \in {PolledPage(kind) : kind \in {"item", "events", "peers"}}
  /\ loads = LoadSlot([slot \in 1..2 |-> NoLoad], 1) /\ toggles = {} /\ journalActs = 0

OnLoad(slot) == TimerFires(slot) \/ LoadServed(slot) \/ LoadReturns(slot) \/ LoadFails(slot)
OnToggle(c) == ClearEnds(c) \/ ToggleServed(c) \/ ToggleReturns(c) \/ ToggleFails(c)
\* the watchdog and the mesh are not looked at together
Watched ==
  polled.kind # "peers" /\ (Restarted \/ OtherEvent \/ \E up, down \in BOOLEAN : Tick(up, down))
JournalNext ==
  \/ Watched \/ LeavePolled \/ AskClear \/ DropClear \/ ConfirmClear
  \/ \E key \in MeshPeers : PressToggle(key)
  \/ \E slot \in 1..2 : OnLoad(slot)
  \/ \E c \in toggles : OnToggle(c)
\* the timer fires, and what is sent is answered
JournalFairness == WF_journalVars(TimerFires(1) \/ \E slot \in 1..2 : LoadServed(slot) \/ LoadReturns(slot))

(* A stall that the watchdog has reported and not taken back is on the page *)
(* that shows the history, whatever else happened since; and page and       *)
(* watchdog never disagree about whether one is on (hub_liveness.go         *)
(* standingWarn: the two must not disagree).                                *)
StallIsTold ==
  /\ watch.reported /\ (\E i \in DOMAIN log : log[i].message \in Verdicts)
       => "one-way" \in Degraded(NewestFirst(log), "direct")
  /\ HubNoReflow(NewestFirst(log)) <=> StandingWarn(log)

(* A page that polls shows, again and again, what the daemon has, however   *)
(* its readings fail or come out of order and whatever the user does        *)
(* (events-page.ts _arm, entrypoint-peers-page.ts connectedCallback).       *)
Truthful == IF polled.kind = "peers" THEN polled.blocked = blocked ELSE polled.events = NewestFirst(log)
CatchesUp == []<>(Truthful \/ polled.left)
=============================================================================
