-------------------------------- MODULE ExtRules --------------------------------
(***************************************************************************)
(* What the service worker keeps in the browser besides the stored tunnels *)
(* (background.js): the number on the toolbar icon, counted anew with each *)
(* change of the storage, and the request rules that an older version has  *)
(* left for host rewriting, which are taken away at start-up and whenever  *)
(* a tunnel is started or stopped.  New rules are not made any more.       *)
(*                                                                         *)
(* Each await is a step of its own; calls of one kind are answered in the  *)
(* order they were made.                                                   *)
(***************************************************************************)
EXTENDS Naturals, Sequences, FiniteSets

CONSTANTS
  Rewriters,             \* tunnels, those that an older version knew included
  Offset,                \* _dnrRuleId's hash of a tunnel's id
  MaxWrites              \* bound: changes of the storage

MaxOffset == 9999
ASSUME RulesAssumption == IsFiniteSet(Rewriters) /\ Offset \in [Rewriters -> 0..MaxOffset] /\ MaxWrites \in Nat

VARIABLES
  rules,                 \* ids of the dynamic rules
  kept,                  \* the stored tunnels: their status, and if they have a host name
  sync,                  \* how far syncHostnameDNR is
  updates,               \* calls of updateBadge under way: with the count, if they have read it
  badge,                 \* the number on the icon
  writes                 \* how many changes there were (bound)

extRules == <<rules, kept, sync, updates, badge, writes>>

RuleId(t) == 10000 + Offset[t]
FallbackRuleId(t) == 20000 + Offset[t]
RulesOf(t) == {RuleId(t), FallbackRuleId(t)}
Foreign == {1}

Gone == [status |-> "gone", hostname |-> FALSE]
Entries == [status : {"stopped", "connecting", "running"}, hostname : BOOLEAN]
\* the tunnels syncHostnameDNR takes for active
Active == {t \in Rewriters : kept[t].hostname /\ kept[t].status \in {"connecting", "running"}}

Asked == [read |-> FALSE, count |-> 0]

---------------------------------------------------------------------------
\* a handler has stored the list; onChanged asks for the badge
Persisted(t, entry) ==
  /\ kept' = [kept EXCEPT ![t] = entry] /\ updates' = Append(updates, Asked)
StorageChanges(t, entry) ==
  /\ writes < MaxWrites /\ writes' = writes + 1
  /\ kept[t] # entry /\ Persisted(t, entry)
  /\ UNCHANGED <<rules, sync, badge>>

RemoveHostnameDNR(t) == rules' = rules \ RulesOf(t)
\* in handleStartTunnel for one with a host name, in handleStopTunnel for any
SetHostnameDNR(t) ==
  /\ (kept[t].status \in {"connecting", "running"} => kept[t].hostname) /\ RulesOf(t) \intersect rules # {}
  /\ RemoveHostnameDNR(t)
  /\ UNCHANGED <<kept, sync, updates, badge, writes>>

\* updateBadge: the count is read, then it is set
Connected == Cardinality({t \in Rewriters : kept[t].status = "running"})
NextUnread == CHOOSE i \in DOMAIN updates : ~updates[i].read /\ \A j \in 1..i - 1 : updates[j].read
BadgeReads ==
  /\ \E i \in DOMAIN updates : ~updates[i].read
  /\ updates' = [updates EXCEPT ![NextUnread] = [read |-> TRUE, count |-> Connected]]
  /\ UNCHANGED <<rules, kept, sync, badge, writes>>

(* Mutant: nothing is written when no tunnel runs *)
BadgeTextSome(count) == IF count > 0 THEN count ELSE badge

BadgeText(count) == count
BadgeSets ==
  /\ updates # <<>> /\ updates[1].read
  /\ badge' = BadgeText(updates[1].count) /\ updates' = Tail(updates)
  /\ UNCHANGED <<rules, kept, sync, writes>>

---------------------------------------------------------------------------
(* syncHostnameDNR: the tunnels are read, then the rules; the stale ones    *)
(* go, and then those of the active tunnels, one after the other.          *)

SyncBegins ==
  /\ sync.at = "start" /\ sync' = [sync EXCEPT !.at = "tunnels", !.active = Active]
  /\ UNCHANGED <<rules, kept, updates, badge, writes>>

(* Mutant: the fallback rules are forgotten *)
StaleMarkers(active) == {r \in rules : r >= 10000 /\ r < 20000 /\ r \notin {RuleId(t) : t \in active}}

Stale(active) ==
  {r \in rules : \/ r >= 10000 /\ r < 20000 /\ r \notin {RuleId(t) : t \in active}
                 \/ r >= 20000 /\ r < 30000 /\ r \notin {FallbackRuleId(t) : t \in active}}
SyncReads ==
  /\ sync.at = "tunnels" /\ sync' = [sync EXCEPT !.at = "stale", !.stale = Stale(sync.active)]
  /\ UNCHANGED <<rules, kept, updates, badge, writes>>
SyncRemoves ==
  /\ sync.at = "stale" /\ rules' = rules \ sync.stale /\ sync' = [sync EXCEPT !.at = "active", !.stale = {}]
  /\ UNCHANGED <<kept, updates, badge, writes>>
SyncSets ==
  /\ sync.at = "active"
  /\ IF sync.active = {} THEN sync' = [sync EXCEPT !.at = "done"] /\ updates' = Append(updates, Asked) /\ UNCHANGED rules
     ELSE \E t \in sync.active :
            RemoveHostnameDNR(t) /\ sync' = [sync EXCEPT !.active = @ \ {t}] /\ UNCHANGED updates
  /\ UNCHANGED <<kept, badge, writes>>

---------------------------------------------------------------------------
RulesInit ==
  /\ rules \in {Foreign \union UNION {RulesOf(t) : t \in old} : old \in SUBSET Rewriters}
  /\ kept \in [Rewriters -> Entries \union {Gone}]
  /\ sync = [at |-> "start", active |-> {}, stale |-> {}]
  /\ updates = <<>> /\ badge = 0 /\ writes = 0

RulesStep == SyncBegins \/ SyncReads \/ SyncRemoves \/ SyncSets \/ BadgeReads \/ BadgeSets
RulesNext ==
  \/ RulesStep \/ \E t \in Rewriters : SetHostnameDNR(t) \/ \E e \in Entries \union {Gone} : StorageChanges(t, e)

---------------------------------------------------------------------------
(* When the clean-up is over no rule of an older version is left, be it for *)
(* a tunnel that is active, stopped or deleted, and the rules of others are *)
(* untouched (background.js, syncHostnameDNR).                              *)
OldRulesGo == sync.at = "done" => rules = Foreign

(* When the calls are through, the number on the icon is that of the        *)
(* running tunnels in the storage, whatever changes overlapped (background.js,*)
(* updateBadge: it stays correct across start, stop and edits).             *)
BadgeCounts == sync.at = "done" /\ updates = <<>> => badge = Connected

(* The clean-up and the badge, whose reads and writes overlap, both end     *)
(* with what the storage says by then (background.js syncHostnameDNR,       *)
(* updateBadge).                                                            *)
BackgroundAgrees == OldRulesGo /\ BadgeCounts
=============================================================================
