-------------------------------- MODULE ExtProofs --------------------------------
(***************************************************************************)
(* Theorems of the browser extension, for every number of tunnels, rules,  *)
(* connections, streams and messages: the clean-up and the badge of the    *)
(* service worker (ExtRules), the counters of the document (ExtStats), the *)
(* page of the popup (ExtPopup), each within the extension (ExtApp); the   *)
(* document in detail (ExtHost), which is shown to keep the promise that   *)
(* the rest of the extension is modelled with (ExtDoc); what a visitor is  *)
(* answered on a stream (ExtForward); and one direction of a smux stream   *)
(* (ExtSmux), which is shown to be the pipe of ExtPipe.                    *)
(***************************************************************************)
EXTENDS ExtApp, ExtForward, ExtSmux, TLAPS, SequenceTheorems, FiniteSetTheorems,
  WellFoundedInduction

---------------------------------------------------------------------------
(* The clean-up of the rules (background.js syncHostnameDNR).               *)

\* Every rule that is left will still be taken away by what the clean-up has read: it is
\* stale, or of a tunnel that was active.
OldRules == UNION {RulesOf(t) : t \in Rewriters}
Doomed ==
  CASE sync.at \in {"start", "tunnels"} -> OldRules
    [] sync.at = "stale" -> sync.stale \union UNION {RulesOf(t) : t \in sync.active}
    [] sync.at = "active" -> UNION {RulesOf(t) : t \in sync.active}
    [] sync.at = "done" -> {}

SyncTypeOK ==
  /\ sync \in [at : {"start", "tunnels", "stale", "active", "done"}, active : SUBSET Rewriters, stale : SUBSET OldRules]
  /\ rules \in SUBSET (Foreign \union OldRules)
CleanUpInv == SyncTypeOK /\ Foreign \subseteq rules /\ rules \subseteq Foreign \union Doomed

\* The ids of the old rules are kept apart from those of others.
LEMMA RuleIds ==
  ASSUME NEW t \in Rewriters
  PROVE  /\ RuleId(t) \in Nat /\ RuleId(t) >= 10000 /\ RuleId(t) < 20000
         /\ FallbackRuleId(t) \in Nat /\ FallbackRuleId(t) >= 20000 /\ FallbackRuleId(t) < 30000
         /\ RulesOf(t) \subseteq OldRules /\ RulesOf(t) \intersect Foreign = {}
<1>0. MaxOffset \in Nat /\ MaxOffset <= 9999
  BY DEF MaxOffset
<1>1. Offset[t] \in Nat /\ Offset[t] <= MaxOffset
  BY <1>0, RulesAssumption
<1>2. RuleId(t) \in Nat /\ RuleId(t) >= 10000 /\ RuleId(t) < 20000
  BY <1>0, <1>1 DEF RuleId
<1>3. FallbackRuleId(t) \in Nat /\ FallbackRuleId(t) >= 20000 /\ FallbackRuleId(t) < 30000
  BY <1>0, <1>1 DEF FallbackRuleId
<1>4. RuleId(t) # 1 /\ FallbackRuleId(t) # 1
  BY <1>2, <1>3
<1> QED
  BY <1>2, <1>3, <1>4 DEF RulesOf, OldRules, Foreign

\* The rules that an earlier life of the service worker left are none of another extension.
LEMMA OldRulesAreNotForeign == OldRules \intersect Foreign = {}
BY RuleIds DEF OldRules

\* What is stale is old; what is not stale is of an active tunnel.
LEMMA StaleIsOld ==
  ASSUME rules \in SUBSET (Foreign \union OldRules), NEW used \in SUBSET Rewriters
  PROVE  /\ Stale(used) \subseteq OldRules
         /\ rules \subseteq Foreign \union Stale(used) \union UNION {RulesOf(t) : t \in used}
<1>1. \A r \in Foreign : ~(r >= 10000) /\ ~(r >= 20000)
  BY DEF Foreign
<1>2. Stale(used) \subseteq OldRules
  <2>1. ASSUME NEW r \in Stale(used) PROVE r \in rules /\ (r >= 10000 \/ r >= 20000)
    BY DEF Stale
  <2> QED
    BY <1>1, <2>1
<1>3. ASSUME NEW r \in rules, r \notin Foreign, r \notin Stale(used)
      PROVE  r \in UNION {RulesOf(t) : t \in used}
  <2>1. PICK t \in Rewriters : r \in RulesOf(t)
    BY <1>3 DEF OldRules
  <2>2. CASE r = RuleId(t)
    <3>1. r >= 10000 /\ r < 20000
      BY <2>2, RuleIds
    <3>2. PICK s \in used : r = RuleId(s)
      BY <1>3, <3>1 DEF Stale
    <3> QED
      BY <3>2 DEF RulesOf
  <2>3. CASE r = FallbackRuleId(t)
    <3>1. r >= 20000 /\ r < 30000
      BY <2>3, RuleIds
    <3>2. PICK s \in used : r = FallbackRuleId(s)
      BY <1>3, <3>1 DEF Stale
    <3> QED
      BY <3>2 DEF RulesOf
  <2> QED
    BY <2>1, <2>2, <2>3 DEF RulesOf
<1> QED
  BY <1>2, <1>3

\* A session of the browser starts with the rules of the last one still to be cleaned up.
LEMMA CleanUpStarts == AppInit => CleanUpInv
<1> SUFFICES ASSUME AppInit PROVE CleanUpInv
  OBVIOUS
<1>1. CASE RulesInit
  <2>1. PICK old \in SUBSET Rewriters : rules = Foreign \union UNION {RulesOf(t) : t \in old}
    BY <1>1 DEF RulesInit
  <2>2. UNION {RulesOf(t) : t \in old} \subseteq OldRules
    BY DEF OldRules
  <2>3. sync = [at |-> "start", active |-> {}, stale |-> {}]
    BY <1>1 DEF RulesInit
  <2> QED
    BY <2>1, <2>2, <2>3 DEF CleanUpInv, SyncTypeOK, Doomed
<1>2. CASE RulesIdle
  BY <1>2 DEF RulesIdle, CleanUpInv, SyncTypeOK, Doomed
<1> QED
  BY <1>1, <1>2 DEF AppInit

\* Every step of the worker keeps what it knows of the clean-up of its rules.
LEMMA CleanUpStep == CleanUpInv /\ RulesNext => CleanUpInv'
<1> SUFFICES ASSUME CleanUpInv, RulesNext PROVE CleanUpInv'
  OBVIOUS
<1>0. /\ sync \in [at : {"start", "tunnels", "stale", "active", "done"}, active : SUBSET Rewriters, stale : SUBSET OldRules]
      /\ rules \in SUBSET (Foreign \union OldRules) /\ Foreign \subseteq rules /\ rules \subseteq Foreign \union Doomed
      /\ OldRules \intersect Foreign = {}
  BY OldRulesAreNotForeign DEF CleanUpInv, SyncTypeOK
<1>1. CASE SyncBegins
  <2>1. sync' = [sync EXCEPT !.at = "tunnels", !.active = Active] /\ rules' = rules
    BY <1>1 DEF SyncBegins
  <2>2. Active \in SUBSET Rewriters
    BY DEF Active
  <2>3. SyncTypeOK' /\ Doomed' = OldRules
    BY <2>1, <2>2, <1>0 DEF SyncTypeOK, Doomed
  <2> QED
    BY <2>1, <2>3, <1>0 DEF CleanUpInv
<1>2. CASE SyncReads
  <2> DEFINE stale == Stale(sync.active)
  <2>1. sync' = [sync EXCEPT !.at = "stale", !.stale = stale] /\ rules' = rules
    BY <1>2 DEF SyncReads
  <2>2. stale \in SUBSET OldRules /\ rules \subseteq Foreign \union stale \union UNION {RulesOf(t) : t \in sync.active}
    BY <1>0, StaleIsOld
  <2> HIDE DEF stale
  <2>3. SyncTypeOK' /\ Doomed' = stale \union UNION {RulesOf(t) : t \in sync.active}
    BY <2>1, <2>2, <1>0 DEF SyncTypeOK, Doomed
  <2> QED
    BY <2>1, <2>2, <2>3, <1>0 DEF CleanUpInv
<1>3. CASE SyncRemoves
  <2>1. sync' = [sync EXCEPT !.at = "active", !.stale = {}] /\ rules' = rules \ sync.stale /\ sync.at = "stale"
    BY <1>3 DEF SyncRemoves
  <2>2. SyncTypeOK' /\ Doomed' = UNION {RulesOf(t) : t \in sync.active}
    BY <2>1, <1>0 DEF SyncTypeOK, Doomed
  <2>3. Doomed = sync.stale \union UNION {RulesOf(t) : t \in sync.active}
    BY <2>1 DEF Doomed
  <2>4. sync.stale \subseteq OldRules
    BY <1>0
  <2> QED
    BY <2>1, <2>2, <2>3, <2>4, <1>0 DEF CleanUpInv
<1>4. CASE SyncSets
  <2>0. sync.at = "active" /\ Doomed = UNION {RulesOf(t) : t \in sync.active}
    BY <1>4 DEF SyncSets, Doomed
  <2>1. CASE sync.active = {}
    <3>1. sync' = [sync EXCEPT !.at = "done"] /\ rules' = rules
      BY <1>4, <2>1 DEF SyncSets
    <3>2. SyncTypeOK' /\ Doomed' = {}
      BY <3>1, <1>0 DEF SyncTypeOK, Doomed
    <3>3. Doomed = {}
      BY <2>0, <2>1
    <3> QED
      BY <3>1, <3>2, <3>3, <1>0 DEF CleanUpInv
  <2>2. CASE sync.active # {}
    <3>1. PICK t \in sync.active : RemoveHostnameDNR(t) /\ sync' = [sync EXCEPT !.active = @ \ {t}]
      BY <1>4, <2>2 DEF SyncSets
    <3>2. rules' = rules \ RulesOf(t) /\ t \in Rewriters
      BY <3>1, <1>0 DEF RemoveHostnameDNR
    <3>3. SyncTypeOK' /\ Doomed' = UNION {RulesOf(s) : s \in sync.active \ {t}}
      BY <2>0, <3>1, <3>2, <1>0 DEF SyncTypeOK, Doomed
    <3>4. RulesOf(t) \intersect Foreign = {}
      BY <3>2, RuleIds
    <3> QED
      BY <2>0, <3>2, <3>3, <3>4, <1>0 DEF CleanUpInv
  <2> QED
    BY <2>1, <2>2
<1>5. CASE BadgeReads \/ BadgeSets
  BY <1>5 DEF BadgeReads, BadgeSets, CleanUpInv, SyncTypeOK, Doomed
<1>6. CASE \E t \in Rewriters : SetHostnameDNR(t)
  <2>1. PICK t \in Rewriters : SetHostnameDNR(t)
    BY <1>6
  <2>2. rules' = rules \ RulesOf(t) /\ sync' = sync
    BY <2>1 DEF SetHostnameDNR, RemoveHostnameDNR
  <2>3. RulesOf(t) \intersect Foreign = {}
    BY RuleIds
  <2>4. Doomed' = Doomed
    BY <2>2 DEF Doomed
  <2> QED
    BY <2>2, <2>3, <2>4, <1>0 DEF CleanUpInv, SyncTypeOK
<1>7. CASE \E t \in Rewriters : \E e \in Entries \union {Gone} : StorageChanges(t, e)
  BY <1>7 DEF StorageChanges, CleanUpInv, SyncTypeOK, Doomed
<1> QED
  BY <1>1, <1>2, <1>3, <1>4, <1>5, <1>6, <1>7 DEF RulesNext, RulesStep

---------------------------------------------------------------------------
(* The badge (background.js updateBadge).                                  *)

\* The last of the calls under way has not counted yet, or has counted what is stored:
\* its answer comes last, so that what the others set does not stay.
UpdateState == [read : BOOLEAN, count : Nat]
LastCounts ==
  updates # <<>> => ~updates[Len(updates)].read \/ updates[Len(updates)].count = Connected
BadgeInv == updates \in Seq(UpdateState) /\ LastCounts /\ BadgeCounts

\* The count that the badge shows is a number.
LEMMA ConnectedIsNumber == Connected \in Nat
<1>1. IsFiniteSet({t \in Rewriters : kept[t].status = "running"})
  BY RulesAssumption, FS_Subset
<1> QED
  BY <1>1, FS_CardinalityType DEF Connected

\* At the start no tunnel is kept, and the badge is empty.
LEMMA BadgeStarts == AppInit => BadgeInv
<1> SUFFICES ASSUME AppInit PROVE BadgeInv
  OBVIOUS
<1>1. updates = <<>>
  BY DEF AppInit, RulesInit, RulesIdle
<1>2. updates \in Seq(UpdateState) /\ LastCounts
  BY <1>1 DEF LastCounts
<1>3. CASE RulesInit
  BY <1>3, <1>2 DEF RulesInit, BadgeInv, BadgeCounts
<1>4. CASE RulesIdle
  <2>1. {t \in Rewriters : kept[t].status = "running"} = {}
    BY <1>4 DEF RulesIdle, Gone
  <2>2. Connected = 0
    BY <2>1, FS_EmptySet DEF Connected
  <2> QED
    BY <1>2, <1>4, <2>2 DEF RulesIdle, BadgeInv, BadgeCounts
<1> QED
  BY <1>3, <1>4 DEF AppInit

\* A change of the storage, and the end of the clean-up, ask for a new count.
LEMMA AskingKeeps ==
  ASSUME BadgeInv, updates' = Append(updates, Asked)
  PROVE  BadgeInv'
<1>1. Asked \in UpdateState /\ ~Asked.read
  BY DEF Asked, UpdateState
<1>2. updates' \in Seq(UpdateState) /\ Len(updates') = Len(updates) + 1 /\ updates'[Len(updates) + 1] = Asked
  BY <1>1, AppendProperties DEF BadgeInv
<1>3. Len(updates) \in Nat
  BY LenProperties DEF BadgeInv
<1>4. updates' # <<>>
  BY <1>2, <1>3
<1> QED
  BY <1>1, <1>2, <1>4 DEF BadgeInv, LastCounts, BadgeCounts

\* Every step of the worker keeps the badge, the kept list and the rules in accord.
LEMMA BadgeStep == BadgeInv /\ RulesNext => BadgeInv'
<1> SUFFICES ASSUME BadgeInv, RulesNext PROVE BadgeInv'
  OBVIOUS
<1>0. updates \in Seq(UpdateState) /\ LastCounts /\ BadgeCounts /\ Len(updates) \in Nat
  BY LenProperties DEF BadgeInv
<1>1. CASE updates' = updates /\ kept' = kept /\ badge' = badge /\ (sync'.at = "done" => sync.at = "done")
  BY <1>1, <1>0 DEF BadgeInv, LastCounts, BadgeCounts, Connected
<1>2. CASE SyncBegins \/ SyncReads \/ SyncRemoves
  <2>1. updates' = updates /\ kept' = kept /\ badge' = badge
    BY <1>2 DEF SyncBegins, SyncReads, SyncRemoves
  <2>2. sync'.at = "done" => sync.at = "done"
    <3>1. CASE SyncBegins
      <4>1. sync' = [sync EXCEPT !.at = "tunnels", !.active = Active]
        BY <3>1 DEF SyncBegins
      <4> QED
        BY <4>1
    <3>2. CASE SyncReads
      <4>1. sync' = [sync EXCEPT !.at = "stale", !.stale = Stale(sync.active)]
        BY <3>2 DEF SyncReads
      <4> QED
        BY <4>1
    <3>3. CASE SyncRemoves
      <4>1. sync' = [sync EXCEPT !.at = "active", !.stale = {}]
        BY <3>3 DEF SyncRemoves
      <4> QED
        BY <4>1
    <3> QED
      BY <1>2, <3>1, <3>2, <3>3
  <2> QED
    BY <1>1, <2>1, <2>2
<1>3. CASE SyncSets
  <2>1. CASE sync.active = {}
    BY <1>3, <2>1, AskingKeeps DEF SyncSets
  <2>2. CASE sync.active # {}
    <3>1. PICK t \in sync.active : sync' = [sync EXCEPT !.active = @ \ {t}] /\ updates' = updates
      BY <1>3, <2>2 DEF SyncSets
    <3>2. kept' = kept /\ badge' = badge /\ sync'.at = sync.at
      BY <1>3, <3>1 DEF SyncSets
    <3> QED
      BY <1>1, <3>1, <3>2
  <2> QED
    BY <2>1, <2>2
<1>4. CASE BadgeReads
  <2> DEFINE i == NextUnread
             u == [read |-> TRUE, count |-> Connected]
  <2>1. updates' = [updates EXCEPT ![i] = u] /\ kept' = kept /\ badge' = badge /\ sync' = sync
    BY <1>4 DEF BadgeReads
  <2>2. updates # <<>>
    BY <1>4, <1>0 DEF BadgeReads
  <2>3. u \in UpdateState /\ u.count = Connected
    BY ConnectedIsNumber DEF UpdateState
  <2> HIDE DEF i, u
  <2>4. updates' \in Seq(UpdateState) /\ Len(updates') = Len(updates)
    <3>1. CASE i \in 1..Len(updates)
      BY <3>1, <2>1, <2>3, <1>0, ExceptSeq
    <3>2. CASE i \notin 1..Len(updates)
      <4>1. DOMAIN updates = 1..Len(updates) /\ updates = [j \in DOMAIN updates |-> updates[j]]
        BY <1>0
      <4>2. updates' = [j \in DOMAIN updates |-> IF j = i THEN u ELSE updates[j]]
        BY <2>1
      <4>3. \A j \in DOMAIN updates : j # i
        BY <3>2, <4>1
      <4>4. updates' = updates
        BY <4>1, <4>2, <4>3
      <4> QED
        BY <4>4, <1>0
    <3> QED
      BY <3>1, <3>2
  <2>5. Connected' = Connected
    BY <2>1 DEF Connected
  <2>6. Len(updates) \in DOMAIN updates
    BY <2>2, <1>0
  <2>7. LastCounts'
    <3>1. CASE i = Len(updates)
      <4>1. updates'[Len(updates)] = u
        BY <3>1, <2>1, <2>6
      <4> QED
        BY <4>1, <2>3, <2>4, <2>5 DEF LastCounts
    <3>2. CASE i # Len(updates)
      <4>1. updates'[Len(updates)] = updates[Len(updates)]
        BY <3>2, <2>1, <2>6
      <4> QED
        BY <4>1, <2>2, <2>4, <2>5, <1>0 DEF LastCounts
    <3> QED
      BY <3>1, <3>2
  <2>8. updates' # <<>>
    BY <2>2, <2>4, <1>0
  <2> QED
    BY <2>4, <2>7, <2>8 DEF BadgeInv, BadgeCounts
<1>5. CASE BadgeSets
  <2>1. /\ updates # <<>> /\ updates[1].read /\ badge' = updates[1].count /\ updates' = Tail(updates)
        /\ kept' = kept /\ sync' = sync
    BY <1>5 DEF BadgeSets, BadgeText
  <2>2. Connected' = Connected
    BY <2>1 DEF Connected
  <2>3. updates' \in Seq(UpdateState) /\ Len(updates') = Len(updates) - 1
    BY <2>1, <1>0, HeadTailProperties
  <2>4. Len(updates) >= 1
    BY <2>1, <1>0
  <2>5. CASE Len(updates) = 1
    <3>1. updates' = <<>>
      BY <2>3, <2>5, EmptySeq
    <3>2. badge' = Connected
      BY <2>1, <2>5, <1>0 DEF LastCounts
    <3> QED
      BY <3>1, <3>2, <2>2, <2>3 DEF BadgeInv, LastCounts, BadgeCounts
  <2>6. CASE Len(updates) # 1
    <3>1. Len(updates) - 1 \in 1..Len(Tail(updates))
      BY <2>1, <2>3, <2>4, <2>6, <1>0
    <3>2. updates'[Len(updates) - 1] = updates[Len(updates) - 1 + 1]
      BY <2>1, <3>1, <1>0, HeadTailProperties
    <3>3. updates'[Len(updates')] = updates[Len(updates)]
      BY <2>3, <3>2, <1>0
    <3>4. updates' # <<>>
      BY <2>3, <2>4, <2>6
    <3> QED
      BY <2>1, <2>2, <2>3, <3>3, <3>4, <1>0 DEF BadgeInv, LastCounts, BadgeCounts
  <2> QED
    BY <2>5, <2>6
<1>6. CASE \E t \in Rewriters : SetHostnameDNR(t)
  BY <1>1, <1>6 DEF SetHostnameDNR
<1>7. CASE \E t \in Rewriters : \E e \in Entries \union {Gone} : StorageChanges(t, e)
  BY <1>7, AskingKeeps DEF StorageChanges, Persisted
<1> QED
  BY <1>2, <1>3, <1>4, <1>5, <1>6, <1>7 DEF RulesNext, RulesStep

(* When the clean-up is over only the rules of others are left, and when    *)
(* every call is answered the badge is the number of the running tunnels    *)
(* that are stored, whatever starts, stops and changes overlapped with them *)
(* (background.js syncHostnameDNR, updateBadge).                            *)
THEOREM ExtBackgroundAgrees == AppSpec => []BackgroundAgrees
<1>1. AppInit => CleanUpInv /\ BadgeInv
  BY CleanUpStarts, BadgeStarts
<1>2. CleanUpInv /\ BadgeInv /\ [AppNext]_appVars => (CleanUpInv /\ BadgeInv)'
  <2> SUFFICES ASSUME CleanUpInv, BadgeInv, [AppNext]_appVars PROVE CleanUpInv' /\ BadgeInv'
    OBVIOUS
  <2>1. CASE UNCHANGED extRules
    BY <2>1 DEF extRules, CleanUpInv, SyncTypeOK, Doomed, BadgeInv, LastCounts, BadgeCounts, Connected
  <2>2. CASE RulesNext
    BY <2>2, CleanUpStep, BadgeStep
  <2> QED
    BY <2>1, <2>2 DEF AppNext, appVars
<1>3. CleanUpInv /\ BadgeInv => BackgroundAgrees
  BY DEF CleanUpInv, Doomed, BadgeInv, BackgroundAgrees, OldRulesGo
<1> QED
  BY <1>1, <1>2, <1>3, PTL DEF AppSpec

---------------------------------------------------------------------------
(* The counters (tunnel-stats.js).                                         *)

\* A sample is never ahead of the counters it was taken from: a reset takes both back.
Marks == [input : Nat, output : Nat, requests : Nat]
MeterState ==
  {m \in [input : Nat, output : Nat, total : Nat, current : Nat, requests : Nat, last : Marks \union {Nowhere}] :
     /\ m.current <= m.total /\ m.requests <= m.total
     /\ m.last # Nowhere => m.last.input <= m.input /\ m.last.output <= m.output /\ m.last.requests <= m.requests}
ToldStats ==
  [input : Nat, output : Nat, current : Nat, total : Nat, inputRate : Nat, outputRate : Nat, connsRate : Nat]
ToldState == {x \in [t : Metered, stats : ToldStats] : Sane(x.stats)}

StatsInv == meter \in [Metered -> MeterState] /\ told \in Seq(ToldState)

\* The meter of a new tunnel has counted nothing and was never sampled.
LEMMA NewMeter == TunnelStats \in MeterState /\ TunnelStats.last = Nowhere
BY DEF TunnelStats, MeterState, Nowhere, Marks

\* One sample of the rates leaves a well-formed meter.
LEMMA SampleKeeps ==
  ASSUME NEW m \in MeterState
  PROVE  Sample(m) \in MeterState
<1> DEFINE mark == Mark(m)
<1>1. mark \in Marks /\ mark.input = m.input /\ mark.output = m.output /\ mark.requests = m.requests
  BY DEF Mark, Marks, MeterState
<1> HIDE DEF mark
<1> DEFINE n == [m EXCEPT !.last = mark]
<1>2. /\ n \in [input : Nat, output : Nat, total : Nat, current : Nat, requests : Nat, last : Marks \union {Nowhere}]
      /\ n.last = mark /\ n.input = m.input /\ n.output = m.output /\ n.requests = m.requests
      /\ n.current = m.current /\ n.total = m.total
  BY <1>1 DEF MeterState
<1> HIDE DEF n
<1>3. n \in MeterState
  BY <1>1, <1>2 DEF MeterState
<1> QED
  BY <1>3 DEF n, mark, Sample

\* What is told of a meter makes sense.
LEMMA SnapshotIsSane ==
  ASSUME NEW t \in Metered, NEW m \in MeterState
  PROVE  Snapshot(t, m) \in ToldState
<1> DEFINE s == Snapshot(t, m).stats
<1>1. /\ m.input \in Nat /\ m.output \in Nat /\ m.total \in Nat /\ m.current \in Nat /\ m.requests \in Nat
      /\ m.current <= m.total /\ m.requests <= m.total
      /\ m.last # Nowhere =>
           /\ m.last.input \in Nat /\ m.last.output \in Nat /\ m.last.requests \in Nat
           /\ m.last.input <= m.input /\ m.last.output <= m.output /\ m.last.requests <= m.requests
  BY DEF MeterState, Marks
<1>2. s = [input |-> m.input, output |-> m.output, current |-> m.current, total |-> m.total,
           inputRate |-> IF m.last = Nowhere THEN 0 ELSE m.input - m.last.input,
           outputRate |-> IF m.last = Nowhere THEN 0 ELSE m.output - m.last.output,
           connsRate |-> IF m.last = Nowhere THEN 0 ELSE m.requests - m.last.requests]
  BY DEF Snapshot
<1>3. Snapshot(t, m) = [t |-> t, stats |-> s]
  BY DEF Snapshot
<1> HIDE DEF s
<1>4. /\ s.input = m.input /\ s.output = m.output /\ s.current = m.current /\ s.total = m.total
      /\ s.inputRate \in Nat /\ s.inputRate <= m.input
      /\ s.outputRate \in Nat /\ s.outputRate <= m.output
      /\ s.connsRate \in Nat /\ s.connsRate <= m.requests
  <2>1. CASE m.last = Nowhere
    BY <1>1, <1>2, <2>1
  <2>2. CASE m.last # Nowhere
    BY <1>1, <1>2, <2>2
  <2> QED
    BY <2>1, <2>2
<1>5. s \in ToldStats
  <2>1. s = [input |-> s.input, output |-> s.output, current |-> s.current, total |-> s.total,
             inputRate |-> s.inputRate, outputRate |-> s.outputRate, connsRate |-> s.connsRate]
    BY <1>2
  <2> QED
    BY <1>1, <1>4, <2>1 DEF ToldStats
<1>6. Sane(s)
  BY <1>1, <1>4 DEF Sane
<1> QED
  BY <1>3, <1>5, <1>6 DEF ToldState

\* At the start every meter is new.
LEMMA StatsStart == AppInit => StatsInv
<1> SUFFICES ASSUME AppInit PROVE StatsInv
  OBVIOUS
<1>1. meter = [t \in Metered |-> TunnelStats] /\ told = <<>>
  BY DEF AppInit, StatsInit
<1>2. TunnelStats \in MeterState
  BY NewMeter
<1> HIDE DEF TunnelStats
<1> QED
  BY <1>1, <1>2 DEF StatsInv

\* Traffic and requests only move counters of one meter, which keep their order.
LEMMA MeterKeeps ==
  ASSUME meter \in [Metered -> MeterState], NEW t \in Metered, Meters(t)
  PROVE  meter' \in [Metered -> MeterState] /\ told' = told
<1> DEFINE m == meter[t]
           Fields == [input : Nat, output : Nat, total : Nat, current : Nat, requests : Nat, last : Marks \union {Nowhere}]
<1>1. m \in MeterState /\ m \in Fields
  BY DEF MeterState
<1>2. /\ m.input \in Nat /\ m.output \in Nat /\ m.total \in Nat /\ m.current \in Nat /\ m.requests \in Nat
      /\ m.current <= m.total /\ m.requests <= m.total
      /\ m.last # Nowhere =>
           /\ m.last.input \in Nat /\ m.last.output \in Nat /\ m.last.requests \in Nat
           /\ m.last.input <= m.input /\ m.last.output <= m.output /\ m.last.requests <= m.requests
  BY <1>1 DEF MeterState, Marks
<1>3. CASE MarkRequest(t)
  <2> DEFINE requests == m.requests + 1
             total == m.total + 1
             current == m.current + 1
             n == [m EXCEPT !.requests = requests, !.total = total, !.current = current]
  <2>1. meter' = [meter EXCEPT ![t] = n] /\ told' = told
    BY <1>3 DEF MarkRequest
  <2>2. /\ requests \in Nat /\ total \in Nat /\ current \in Nat /\ current <= total /\ requests <= total
        /\ m.requests <= requests
    BY <1>2
  <2> HIDE DEF requests, total, current
  <2>3. n \in Fields /\ n.last = m.last /\ n.input = m.input /\ n.output = m.output
        /\ n.requests = requests /\ n.total = total /\ n.current = current
    BY <1>1, <2>2
  <2> HIDE DEF n, m
  <2>4. n \in MeterState
    BY <1>2, <2>2, <2>3 DEF MeterState
  <2> QED
    BY <2>1, <2>4
<1>4. CASE CountsRead(t)
  <2> DEFINE n == [m EXCEPT !.input = @ + 1]
  <2>1. meter' = [meter EXCEPT ![t] = n] /\ told' = told
    BY <1>4 DEF CountsRead
  <2>2. n \in Fields /\ n.last = m.last /\ n.input = m.input + 1 /\ n.output = m.output
        /\ n.requests = m.requests /\ n.total = m.total /\ n.current = m.current
    BY <1>1, <1>2
  <2> HIDE DEF n, m
  <2>3. n \in MeterState
    BY <1>2, <2>2 DEF MeterState
  <2> QED
    BY <2>1, <2>3
<1>5. CASE CountsWrite(t)
  <2> DEFINE n == [m EXCEPT !.output = @ + 1]
  <2>1. meter' = [meter EXCEPT ![t] = n] /\ told' = told
    BY <1>5 DEF CountsWrite
  <2>2. n \in Fields /\ n.last = m.last /\ n.input = m.input /\ n.output = m.output + 1
        /\ n.requests = m.requests /\ n.total = m.total /\ n.current = m.current
    BY <1>1, <1>2
  <2> HIDE DEF n, m
  <2>3. n \in MeterState
    BY <1>2, <2>2 DEF MeterState
  <2> QED
    BY <2>1, <2>3
<1>6. CASE \E again \in BOOLEAN : CountsClose(t, again)
  <2> DEFINE n == [m EXCEPT !.current = Decremented(@)]
  <2>1. meter' = [meter EXCEPT ![t] = n] /\ told' = told
    BY <1>6 DEF CountsClose
  <2>2. Decremented(m.current) \in Nat /\ Decremented(m.current) <= m.current
    BY <1>2 DEF Decremented
  <2>3. n \in Fields /\ n.last = m.last /\ n.input = m.input /\ n.output = m.output
        /\ n.requests = m.requests /\ n.total = m.total /\ n.current = Decremented(m.current)
    BY <1>1, <1>2, <2>2
  <2> HIDE DEF n, m
  <2>4. n \in MeterState
    BY <1>2, <2>2, <2>3 DEF MeterState
  <2> QED
    BY <2>1, <2>4
<1> QED
  BY <1>3, <1>4, <1>5, <1>6 DEF Meters

\* Every step of the statistics keeps the meters in order and the told figures those of a sample.
LEMMA StatsStep == StatsInv /\ StatsNext => StatsInv'
<1> SUFFICES ASSUME StatsInv, StatsNext PROVE StatsInv'
  OBVIOUS
<1>0. meter \in [Metered -> MeterState] /\ told \in Seq(ToldState)
  BY DEF StatsInv
<1>1. CASE SampleAllStats
  <2> DEFINE connected == {t \in Metered : linked[t]}
             n == Cardinality(connected)
  <2>1. n \in Nat
    BY StatsAssumption, FS_Subset, FS_CardinalityType
  <2>2. meter' = [t \in Metered |-> Sample(meter[t])]
    BY <1>1 DEF SampleAllStats
  <2>3. PICK order \in [1..n -> connected] :
          told' = told \o [i \in DOMAIN order |-> Snapshot(order[i], meter[order[i]])]
    BY <1>1 DEF SampleAllStats
  <2>4. meter' \in [Metered -> MeterState]
    BY <2>2, <1>0, SampleKeeps
  <2> DEFINE new == [i \in DOMAIN order |-> Snapshot(order[i], meter[order[i]])]
  <2>5. \A i \in 1..n : order[i] \in Metered /\ meter[order[i]] \in MeterState
    BY <2>3, <1>0
  <2>6. \A i \in 1..n : Snapshot(order[i], meter[order[i]]) \in ToldState
    BY <2>5, SnapshotIsSane
  <2>7. DOMAIN order = 1..n
    BY <2>3
  <2> HIDE DEF n
  <2>8. new \in [1..n -> ToldState]
    BY <2>6, <2>7
  <2>9. new \in Seq(ToldState)
    BY <2>1, <2>8, SeqDef
  <2>10. told' = told \o new
    BY <2>3
  <2> HIDE DEF new
  <2> QED
    BY <2>4, <2>9, <2>10, <1>0, ConcatProperties DEF StatsInv
<1>2. CASE \E t \in Metered : Meters(t)
  BY <1>2, <1>0, MeterKeeps DEF StatsInv
<1>3. CASE \E t \in Metered : ResetStats(t)
  <2>1. PICK t \in Metered : ResetStats(t)
    BY <1>3
  <2> DEFINE m == Sample(Reset(meter[t]))
             s == Snapshot(t, Reset(meter[t]))
  <2>2. Reset(meter[t]) \in MeterState
    BY NewMeter DEF Reset
  <2>3. m \in MeterState /\ s \in ToldState
    BY <2>2, SampleKeeps, SnapshotIsSane
  <2>4. meter' = [meter EXCEPT ![t] = m] /\ told' = Append(told, s)
    BY <2>1 DEF ResetStats
  <2> HIDE DEF m, s
  <2> QED
    BY <2>3, <2>4, <1>0, AppendProperties DEF StatsInv
<1>4. CASE \E t \in Metered : Restarted(t)
  <2>1. PICK t \in Metered : meter' = [meter EXCEPT ![t] = TunnelStats] /\ told' = told
    BY <1>4 DEF Restarted
  <2>2. TunnelStats \in MeterState
    BY NewMeter
  <2> HIDE DEF TunnelStats
  <2> QED
    BY <2>1, <2>2, <1>0 DEF StatsInv
<1>5. CASE \E t \in Metered : Links(t)
  BY <1>5, <1>0 DEF Links, StatsInv
<1> QED
  BY <1>1, <1>2, <1>3, <1>4, <1>5 DEF StatsNext

(* No rate the popup is told is negative or more than all the traffic of    *)
(* its tunnel, and no more connections are open than there were, whatever   *)
(* resets, restarts and lost connections come between two samples           *)
(* (tunnel-stats.js, offscreen.js sampleAllStats).                          *)
THEOREM ExtRatesAreSane == AppSpec => []RatesAreSane
<1>1. AppInit => StatsInv
  BY StatsStart
<1>2. StatsInv /\ [AppNext]_appVars => StatsInv'
  <2> SUFFICES ASSUME StatsInv, [AppNext]_appVars PROVE StatsInv'
    OBVIOUS
  <2>1. CASE UNCHANGED extStats
    BY <2>1 DEF extStats, StatsInv
  <2>2. CASE StatsNext
    BY <2>2, StatsStep
  <2> QED
    BY <2>1, <2>2 DEF AppNext, appVars
<1>3. StatsInv => RatesAreSane
  <2> SUFFICES ASSUME StatsInv, NEW i \in DOMAIN told PROVE Sane(told[i].stats)
    BY DEF RatesAreSane
  <2>1. told[i] \in ToldState
    BY ElementOfSeq DEF StatsInv
  <2> QED
    BY <2>1 DEF ToldState
<1> QED
  BY <1>1, <1>2, <1>3, PTL DEF AppSpec

---------------------------------------------------------------------------
(* The page of the popup (sidepanel.js).                                   *)

SettingsState == [theme : {"system", "light", "dark"}, lang : {"en", "zh"}, tip : BOOLEAN]
CardState == [status : {"none", "running", "stopped", "connecting", "error"}, url : BOOLEAN, error : BOOLEAN]
PopState ==
  [open : BOOLEAN, asks : SUBSET {"settings", "tunnels"}, read : SettingsState, rushed : BOOLEAN,
   settings : SettingsState, dark : BOOLEAN, view : {"list", "settings", "form"}, cards : [Cards -> CardState],
   traffic : SUBSET Cards, expanded : SUBSET Cards, resetting : SUBSET Cards, qr : Cards \union {"none"},
   record : {"off", "headers", "full"}, auth : BOOLEAN, password : {"hidden", "shown"}, toast : BOOLEAN]

PopupTypeOK ==
  settings \in SettingsState /\ sysDark \in BOOLEAN /\ pop \in PopState /\ stored \in [Cards -> CardState]

\* What the popup asked for is what is stored, while nobody chose anything before it came.
AskedIsStored == pop.open /\ "settings" \in pop.asks /\ ~pop.rushed => pop.read = settings
SettingsPart == AskedIsStored /\ SettingsAgree
OneUnfolded == pop.expanded = {} \/ \E t \in Cards : pop.expanded = {t}
CardsPart == OneUnfolded /\ \A t \in pop.traffic : pop.cards[t].status = "running"
PopupInv == PopupTypeOK /\ SettingsPart /\ CardsPart

\* A popup that is shut has the default settings and shows no card.
LEMMA ShutIsTyped ==
  /\ Shut \in PopState /\ Default \in SettingsState /\ Shut.open = FALSE /\ Shut.expanded = {} /\ Shut.traffic = {}
  /\ Shut.rushed = FALSE
<1>1. Default \in SettingsState /\ NoCard \in CardState
  BY DEF Default, SettingsState, NoCard, Item, CardState
<1> HIDE DEF Default, NoCard
<1>2. [t \in Cards |-> NoCard] \in [Cards -> CardState]
  BY <1>1
<1> DEFINE cards == [t \in Cards |-> NoCard]
<1> HIDE DEF cards
<1> QED
  BY <1>1, <1>2 DEF Shut, PopState, cards

\* At the start the popup is shut and nothing is on its way.
LEMMA PopupStarts == AppInit => PopupInv
<1> SUFFICES ASSUME AppInit PROVE PopupInv
  OBVIOUS
<1>1. settings = Default /\ sysDark \in BOOLEAN /\ pop = Shut
  BY DEF AppInit, PopupInit, PopupIdle
<1>2. stored \in [Cards -> CardState]
  <2>1. Item("running", TRUE, FALSE) \in CardState /\ Item("stopped", FALSE, FALSE) \in CardState /\ NoCard \in CardState
    BY DEF Item, NoCard, CardState
  <2> QED
    BY <2>1 DEF AppInit, PopupInit, PopupIdle
<1> QED
  BY <1>1, <1>2, ShutIsTyped
     DEF PopupInv, PopupTypeOK, SettingsPart, AskedIsStored, SettingsAgree, CardsPart, OneUnfolded

\* What an action leaves alone.
SettingsSame ==
  /\ pop'.open = pop.open /\ pop'.asks = pop.asks /\ pop'.read = pop.read /\ pop'.rushed = pop.rushed
  /\ pop'.settings = pop.settings /\ pop'.dark = pop.dark /\ settings' = settings /\ sysDark' = sysDark
CardsSame == pop'.cards = pop.cards /\ pop'.traffic = pop.traffic /\ pop'.expanded = pop.expanded

\* What leaves the settings alone keeps what is known of them.
LEMMA SettingsSameKeeps ==
  ASSUME PopupInv, SettingsSame
  PROVE  SettingsPart' /\ settings' \in SettingsState /\ sysDark' \in BOOLEAN
BY DEF PopupInv, PopupTypeOK, SettingsPart, AskedIsStored, SettingsAgree, SettingsSame, Dark

\* What leaves the list alone keeps what is known of its cards.
LEMMA CardsSameKeeps ==
  ASSUME PopupInv, CardsSame
  PROVE  CardsPart'
BY DEF PopupInv, CardsPart, OneUnfolded, CardsSame

\* A list that is drawn anew shows no traffic.
LEMMA DrawnKeeps ==
  ASSUME PopupInv, NEW cards \in [Cards -> CardState], pop' = Drawn(cards)
  PROVE  /\ pop' \in PopState /\ CardsPart'
         /\ pop'.open = pop.open /\ pop'.asks = pop.asks /\ pop'.read = pop.read /\ pop'.rushed = pop.rushed
         /\ pop'.settings = pop.settings /\ pop'.dark = pop.dark
<1>1. pop' = [pop EXCEPT !.cards = cards, !.traffic = {}] /\ pop \in PopState
  BY DEF Drawn, PopupInv, PopupTypeOK
<1>2. /\ pop' \in PopState /\ pop'.traffic = {} /\ pop'.expanded = pop.expanded
      /\ pop'.open = pop.open /\ pop'.asks = pop.asks /\ pop'.read = pop.read /\ pop'.rushed = pop.rushed
      /\ pop'.settings = pop.settings /\ pop'.dark = pop.dark
  BY <1>1 DEF PopState
<1> QED
  BY <1>2 DEF PopupInv, CardsPart, OneUnfolded

\* The settings that are chosen are shown and stored at once.
LEMMA ChosenKeeps ==
  ASSUME PopupInv, NEW s \in SettingsState, Chosen(s)
  PROVE  PopupInv'
<1> DEFINE dark == Dark(s.theme)
           rushed == pop.rushed \/ "settings" \in pop.asks
<1>1. pop \in PopState /\ pop.rushed \in BOOLEAN /\ sysDark \in BOOLEAN
  BY DEF PopupInv, PopupTypeOK, PopState
<1>2. dark \in BOOLEAN /\ rushed \in BOOLEAN
  BY <1>1 DEF Dark
<1>3. /\ pop' = [pop EXCEPT !.settings = s, !.dark = dark, !.rushed = rushed] /\ settings' = s
      /\ sysDark' = sysDark /\ stored' = stored
  BY DEF Chosen
<1> HIDE DEF dark, rushed
<1>4. /\ pop' \in PopState /\ pop'.open = pop.open /\ pop'.asks = pop.asks /\ pop'.rushed = rushed
      /\ pop'.settings = s /\ pop'.dark = dark /\ CardsSame
  BY <1>1, <1>2, <1>3 DEF PopState, CardsSame
<1>5. CardsPart'
  BY <1>4, CardsSameKeeps
<1>6. SettingsPart'
  <2>1. dark = Dark(s.theme)'
    BY <1>3 DEF dark, Dark
  <2>2. "settings" \in pop.asks => rushed
    BY DEF rushed
  <2> QED
    BY <1>3, <1>4, <2>1, <2>2 DEF SettingsPart, AskedIsStored, SettingsAgree
<1> QED
  BY <1>1, <1>3, <1>4, <1>5, <1>6 DEF PopupInv, PopupTypeOK

\* The switches, the dialogs and the toast change nothing of the settings and the cards.
LEMMA SwitchesKeep ==
  ASSUME PopupInv,
         \/ OpenSettings \/ BackToList \/ NewForm \/ CycleRecordMode \/ ToggleAuth \/ TogglePassword
         \/ HideResetDialog \/ HideQrDialog \/ ToastEnds
         \/ \E t \in Cards : ShowResetDialog(t) \/ ResetConfirmed(t) \/ ShowQrDialog(t) \/ CopyToClipboard(t)
  PROVE  PopupInv'
<1> DEFINE Goal == pop' \in PopState /\ SettingsSame /\ CardsSame /\ stored' = stored
<1>0. pop \in PopState
  BY DEF PopupInv, PopupTypeOK
<1>1. CASE OpenSettings \/ BackToList
  <2>1. PICK view \in {"list", "settings", "form"} : pop' = [pop EXCEPT !.view = view]
    BY <1>1 DEF OpenSettings, BackToList
  <2>2. Goal
    BY <2>1, <1>0, <1>1 DEF OpenSettings, BackToList, Rest, PopState, SettingsSame, CardsSame
  <2> QED
    BY <2>2, SettingsSameKeeps, CardsSameKeeps DEF PopupInv, PopupTypeOK
<1>2. CASE NewForm
  <2>1. Goal
    BY <1>0, <1>2 DEF NewForm, Rest, PopState, SettingsSame, CardsSame
  <2> QED
    BY <2>1, SettingsSameKeeps, CardsSameKeeps DEF PopupInv, PopupTypeOK
<1>3. CASE CycleRecordMode
  <2> DEFINE record == NextRecord[pop.record]
  <2>1. record \in {"off", "headers", "full"}
    BY <1>0 DEF NextRecord, PopState
  <2>2. pop' = [pop EXCEPT !.record = record]
    BY <1>3 DEF CycleRecordMode
  <2> HIDE DEF record
  <2>3. Goal
    BY <2>1, <2>2, <1>0, <1>3 DEF CycleRecordMode, Rest, PopState, SettingsSame, CardsSame
  <2> QED
    BY <2>3, SettingsSameKeeps, CardsSameKeeps DEF PopupInv, PopupTypeOK
<1>4. CASE ToggleAuth \/ TogglePassword
  <2>1. Goal
    <3>1. CASE ToggleAuth
      BY <1>0, <3>1 DEF ToggleAuth, Rest, PopState, SettingsSame, CardsSame
    <3>2. CASE TogglePassword
      <4>1. PICK password \in {"hidden", "shown"} : pop' = [pop EXCEPT !.password = password]
        BY <3>2 DEF TogglePassword
      <4> QED
        BY <1>0, <3>2, <4>1 DEF TogglePassword, Rest, PopState, SettingsSame, CardsSame
    <3> QED
      BY <1>4, <3>1, <3>2
  <2> QED
    BY <2>1, SettingsSameKeeps, CardsSameKeeps DEF PopupInv, PopupTypeOK
<1>5. CASE HideResetDialog \/ \E t \in Cards : ShowResetDialog(t) \/ ResetConfirmed(t)
  <2>1. PICK resetting \in SUBSET Cards : pop' = [pop EXCEPT !.resetting = resetting]
    <3>1. CASE HideResetDialog
      BY <3>1 DEF HideResetDialog
    <3>2. ASSUME NEW t \in Cards, ShowResetDialog(t) PROVE \E resetting \in SUBSET Cards : pop' = [pop EXCEPT !.resetting = resetting]
      <4>1. pop' = [pop EXCEPT !.resetting = {t}] /\ {t} \in SUBSET Cards
        BY <3>2 DEF ShowResetDialog
      <4> QED
        BY <4>1
    <3>3. ASSUME NEW t \in Cards, ResetConfirmed(t) PROVE pop' = [pop EXCEPT !.resetting = {}]
      BY <3>3 DEF ResetConfirmed
    <3> QED
      BY <1>5, <3>1, <3>2, <3>3
  <2>2. Rest
    BY <1>5 DEF HideResetDialog, ShowResetDialog, ResetConfirmed
  <2>3. Goal
    BY <2>1, <2>2, <1>0 DEF Rest, PopState, SettingsSame, CardsSame
  <2> QED
    BY <2>3, SettingsSameKeeps, CardsSameKeeps DEF PopupInv, PopupTypeOK
<1>6. CASE HideQrDialog \/ \E t \in Cards : ShowQrDialog(t)
  <2>1. PICK qr \in Cards \union {"none"} : pop' = [pop EXCEPT !.qr = qr]
    BY <1>6 DEF HideQrDialog, ShowQrDialog
  <2>2. Rest
    BY <1>6 DEF HideQrDialog, ShowQrDialog
  <2>3. Goal
    BY <2>1, <2>2, <1>0 DEF Rest, PopState, SettingsSame, CardsSame
  <2> QED
    BY <2>3, SettingsSameKeeps, CardsSameKeeps DEF PopupInv, PopupTypeOK
<1>7. CASE ToastEnds \/ \E t \in Cards : CopyToClipboard(t)
  <2>0. pop.toast \in BOOLEAN
    BY <1>0 DEF PopState
  <2>1. PICK toast \in BOOLEAN : pop' = [pop EXCEPT !.toast = toast]
    <3>1. CASE ToastEnds
      BY <3>1 DEF ToastEnds
    <3>2. ASSUME NEW t \in Cards, CopyToClipboard(t) PROVE \E toast \in BOOLEAN : pop' = [pop EXCEPT !.toast = toast]
      <4>1. PICK done \in BOOLEAN : pop' = [pop EXCEPT !.toast = @ \/ done]
        BY <3>2 DEF CopyToClipboard
      <4> DEFINE toast == pop.toast \/ done
      <4>2. toast \in BOOLEAN /\ pop' = [pop EXCEPT !.toast = toast]
        BY <2>0, <4>1
      <4> HIDE DEF toast
      <4> QED
        BY <4>2
    <3> QED
      BY <1>7, <3>1, <3>2
  <2>2. Rest
    BY <1>7 DEF ToastEnds, CopyToClipboard
  <2>3. Goal
    BY <2>1, <2>2, <1>0 DEF Rest, PopState, SettingsSame, CardsSame
  <2> QED
    BY <2>3, SettingsSameKeeps, CardsSameKeeps DEF PopupInv, PopupTypeOK
<1> QED
  BY <1>1, <1>2, <1>3, <1>4, <1>5, <1>6, <1>7

\* The popup that is opened, closed, and told what it asked for.
LEMMA PageKeeps ==
  ASSUME PopupInv, OpenPopupPage \/ ClosePopupPage \/ LoadSettings \/ RenderTunnelList
  PROVE  PopupInv'
<1>0. /\ pop \in PopState /\ settings \in SettingsState /\ sysDark \in BOOLEAN /\ stored \in [Cards -> CardState]
      /\ SettingsPart /\ CardsPart
  BY DEF PopupInv, PopupTypeOK
<1>1. CASE OpenPopupPage
  <2>1. pop' = [Shut EXCEPT !.open = TRUE, !.asks = {"settings", "tunnels"}, !.read = settings] /\ Rest
    BY <1>1 DEF OpenPopupPage
  <2>2. Shut \in PopState /\ Shut.expanded = {} /\ Shut.traffic = {}
    BY ShutIsTyped
  <2> HIDE DEF Shut
  <2>3. /\ pop' \in PopState /\ pop'.read = settings /\ "settings" \in pop'.asks
        /\ pop'.expanded = {} /\ pop'.traffic = {}
    BY <2>1, <2>2, <1>0 DEF PopState
  <2> QED
    BY <2>1, <2>3, <1>0
       DEF Rest, PopupInv, PopupTypeOK, SettingsPart, AskedIsStored, SettingsAgree, CardsPart, OneUnfolded
<1>2. CASE ClosePopupPage
  <2>1. pop' = Shut /\ Rest
    BY <1>2 DEF ClosePopupPage
  <2> QED
    BY <2>1, <1>0, ShutIsTyped
       DEF Rest, PopupInv, PopupTypeOK, SettingsPart, AskedIsStored, SettingsAgree, CardsPart, OneUnfolded
<1>3. CASE LoadSettings
  <2> DEFINE dark == Dark(pop.read.theme)
             asks == pop.asks \ {"settings"}
  <2>1. dark \in BOOLEAN /\ asks \in SUBSET {"settings", "tunnels"} /\ "settings" \notin asks
    BY <1>0 DEF Dark, PopState
  <2>2. /\ pop' = [pop EXCEPT !.asks = asks, !.settings = pop.read, !.dark = dark]
        /\ Rest /\ "settings" \in pop.asks
    BY <1>3 DEF LoadSettings
  <2> HIDE DEF asks, dark
  <2>4. /\ pop' \in PopState /\ pop'.open = pop.open /\ pop'.asks = asks /\ pop'.rushed = pop.rushed
        /\ pop'.settings = pop.read /\ pop'.dark = dark /\ CardsSame
    BY <2>1, <2>2, <1>0 DEF PopState, CardsSame
  <2>5. Dark(pop.settings.theme)' = Dark(pop.read.theme)
    BY <2>2, <2>4 DEF Dark, Rest
  <2>6. SettingsPart'
    BY <2>1, <2>2, <2>4, <2>5, <1>0 DEF dark, Rest, SettingsPart, AskedIsStored, SettingsAgree
  <2> QED
    BY <2>2, <2>4, <2>6, <1>0, CardsSameKeeps DEF Rest, PopupInv, PopupTypeOK
<1>4. CASE RenderTunnelList
  <2> DEFINE asks == pop.asks \ {"tunnels"}
             drawn == Drawn(stored)
  <2>1. asks \in SUBSET {"settings", "tunnels"} /\ ("settings" \in asks <=> "settings" \in pop.asks)
    BY <1>0 DEF PopState
  <2>2. /\ drawn \in PopState /\ drawn.traffic = {} /\ drawn.expanded = pop.expanded /\ drawn.asks = pop.asks
        /\ drawn.open = pop.open /\ drawn.read = pop.read /\ drawn.rushed = pop.rushed
        /\ drawn.settings = pop.settings /\ drawn.dark = pop.dark
    BY <1>0 DEF Drawn, PopState
  <2>3. pop' = [drawn EXCEPT !.asks = drawn.asks \ {"tunnels"}] /\ Rest
    BY <1>4 DEF RenderTunnelList
  <2>4. pop' = [drawn EXCEPT !.asks = asks]
    BY <2>2, <2>3
  <2> HIDE DEF drawn, asks
  <2>5. /\ pop' \in PopState /\ pop'.traffic = {} /\ pop'.expanded = pop.expanded /\ pop'.asks = asks
        /\ pop'.open = pop.open /\ pop'.read = pop.read /\ pop'.rushed = pop.rushed
        /\ pop'.settings = pop.settings /\ pop'.dark = pop.dark
    BY <2>1, <2>2, <2>4 DEF PopState
  <2>6. SettingsPart'
    BY <2>1, <2>3, <2>5, <1>0 DEF Rest, SettingsPart, AskedIsStored, SettingsAgree, Dark
  <2> QED
    BY <2>3, <2>5, <2>6, <1>0 DEF Rest, PopupInv, PopupTypeOK, CardsPart, OneUnfolded
<1> QED
  BY <1>1, <1>2, <1>3, <1>4

\* A change of theme, language or tip, by the user or by the system, keeps the invariant.
LEMMA SettingsKeep ==
  ASSUME PopupInv, CycleTheme \/ CycleLang \/ DismissTip \/ SystemThemeChanges
  PROVE  PopupInv'
<1>0. /\ pop \in PopState /\ settings \in SettingsState /\ sysDark \in BOOLEAN /\ stored \in [Cards -> CardState]
      /\ SettingsPart /\ CardsPart /\ pop.settings \in SettingsState
  BY DEF PopupInv, PopupTypeOK, PopState
<1>1. CASE CycleTheme
  <2> DEFINE theme == NextTheme[pop.settings.theme]
             s == [pop.settings EXCEPT !.theme = theme]
  <2>1. theme \in {"system", "light", "dark"}
    BY <1>0 DEF NextTheme, SettingsState
  <2>2. Chosen([pop.settings EXCEPT !.theme = NextTheme[@]])
    BY <1>1 DEF CycleTheme
  <2>3. Chosen(s)
    BY <2>2
  <2> HIDE DEF theme
  <2>4. s \in SettingsState
    BY <2>1, <1>0 DEF SettingsState
  <2> HIDE DEF s
  <2> QED
    BY <2>3, <2>4, ChosenKeeps
<1>2. CASE CycleLang
  <2> DEFINE s == [pop.settings EXCEPT !.lang = IF @ = "en" THEN "zh" ELSE "en"]
  <2>1. Chosen(s)
    BY <1>2 DEF CycleLang
  <2>2. s \in SettingsState
    BY <1>0 DEF SettingsState
  <2> HIDE DEF s
  <2> QED
    BY <2>1, <2>2, ChosenKeeps
<1>3. CASE DismissTip
  <2> DEFINE s == [pop.settings EXCEPT !.tip = FALSE]
  <2>1. Chosen(s)
    BY <1>3 DEF DismissTip
  <2>2. s \in SettingsState
    BY <1>0 DEF SettingsState
  <2> HIDE DEF s
  <2> QED
    BY <2>1, <2>2, ChosenKeeps
<1>4. CASE SystemThemeChanges
  <2>1. sysDark' = ~sysDark /\ settings' = settings /\ stored' = stored
    BY <1>4 DEF SystemThemeChanges
  <2>2. CASE pop.open
    <3> DEFINE dark == SystemThemeApplied(~sysDark)
    <3>1. dark \in BOOLEAN
      BY <1>0 DEF SystemThemeApplied, PopState
    <3>2. pop' = [pop EXCEPT !.dark = dark]
      BY <1>4, <2>2 DEF SystemThemeChanges
    <3>4. pop.dark = Dark(pop.settings.theme) /\ pop'.settings = pop.settings => dark = Dark(pop.settings.theme)'
      BY <2>1, <1>0 DEF SystemThemeApplied, Dark
    <3> HIDE DEF dark
    <3>5. /\ pop' \in PopState /\ pop'.open = pop.open /\ pop'.asks = pop.asks /\ pop'.rushed = pop.rushed
          /\ pop'.read = pop.read /\ pop'.settings = pop.settings /\ pop'.dark = dark /\ CardsSame
      BY <3>1, <3>2, <1>0 DEF PopState, CardsSame
    <3>6. SettingsPart'
      BY <2>1, <3>4, <3>5, <1>0 DEF SettingsPart, AskedIsStored, SettingsAgree
    <3> QED
      BY <2>1, <3>5, <3>6, <1>0, CardsSameKeeps DEF PopupInv, PopupTypeOK
  <2>3. CASE ~pop.open
    <3>1. pop' = pop
      BY <1>4, <2>3 DEF SystemThemeChanges
    <3> QED
      BY <2>1, <2>3, <3>1, <1>0
         DEF PopupInv, PopupTypeOK, SettingsPart, AskedIsStored, SettingsAgree, CardsPart, OneUnfolded
  <2> QED
    BY <2>2, <2>3
<1> QED
  BY <1>1, <1>2, <1>3, <1>4

\* The statuses, the traffic and the clicks of one card.
LEMMA CardsKeep ==
  ASSUME PopupInv, NEW t \in Cards,
         \/ UpdateTunnelStats(t) \/ ToggleExpand(t) \/ StopCard(t) \/ StartCard(t)
         \/ \E s \in {"running", "stopped", "connecting", "error"} : StatusTold(t, s)
  PROVE  PopupInv'
<1>0. /\ pop \in PopState /\ stored \in [Cards -> CardState] /\ pop.cards \in [Cards -> CardState]
      /\ pop.traffic \in SUBSET Cards /\ CardsPart
  BY DEF PopupInv, PopupTypeOK, PopState
<1>1. CASE UpdateTunnelStats(t)
  <2> DEFINE moving == pop.traffic \union {t}
  <2>1. pop' = [pop EXCEPT !.traffic = moving] /\ Rest /\ pop.cards[t].status = "running"
    BY <1>1 DEF UpdateTunnelStats
  <2>2. moving \in SUBSET Cards /\ \A u \in moving : pop.cards[u].status = "running"
    BY <1>0, <2>1 DEF CardsPart
  <2> HIDE DEF moving
  <2>3. /\ pop' \in PopState /\ SettingsSame /\ pop'.cards = pop.cards /\ pop'.traffic = moving
        /\ pop'.expanded = pop.expanded /\ stored' = stored
    BY <2>1, <2>2, <1>0 DEF PopState, SettingsSame, Rest
  <2>4. CardsPart'
    BY <2>2, <2>3, <1>0 DEF CardsPart, OneUnfolded
  <2> QED
    BY <2>3, <2>4, <1>0, SettingsSameKeeps DEF PopupInv, PopupTypeOK
<1>2. CASE ToggleExpand(t)
  <2> DEFINE expanded == IF t \in pop.expanded THEN {} ELSE {t}
  <2>1. pop' = [pop EXCEPT !.expanded = expanded] /\ Rest
    BY <1>2 DEF ToggleExpand
  <2>2. expanded \in SUBSET Cards /\ (expanded = {} \/ \E u \in Cards : expanded = {u})
    OBVIOUS
  <2> HIDE DEF expanded
  <2>3. /\ pop' \in PopState /\ SettingsSame /\ pop'.cards = pop.cards /\ pop'.traffic = pop.traffic
        /\ pop'.expanded = expanded /\ stored' = stored
    BY <2>1, <2>2, <1>0 DEF PopState, SettingsSame, Rest
  <2>4. CardsPart'
    BY <2>2, <2>3, <1>0 DEF CardsPart, OneUnfolded
  <2> QED
    BY <2>3, <2>4, <1>0, SettingsSameKeeps DEF PopupInv, PopupTypeOK
<1>3. CASE StopCard(t)
  <2> DEFINE item == Item("stopped", FALSE, FALSE)
             cards == [pop.cards EXCEPT ![t] = item]
  <2>1. item \in CardState
    BY DEF Item, CardState
  <2>2. pop' = Drawn(cards) /\ stored' = [stored EXCEPT ![t] = item] /\ UNCHANGED <<settings, sysDark>>
    BY <1>3 DEF StopCard
  <2> HIDE DEF item
  <2>3. cards \in [Cards -> CardState] /\ stored' \in [Cards -> CardState]
    BY <2>1, <2>2, <1>0
  <2> HIDE DEF cards
  <2>4. pop' \in PopState /\ CardsPart' /\ SettingsSame
    BY <2>2, <2>3, DrawnKeeps DEF SettingsSame
  <2> QED
    BY <2>3, <2>4, SettingsSameKeeps DEF PopupInv, PopupTypeOK
<1>4. CASE StartCard(t)
  <2> DEFINE item == [pop.cards[t] EXCEPT !.status = "connecting"]
             cards == [pop.cards EXCEPT ![t].status = "connecting"]
  <2>1. item \in CardState
    BY <1>0 DEF CardState
  <2>2. pop' = Drawn(cards) /\ Rest
    BY <1>4 DEF StartCard
  <2>3. cards = [pop.cards EXCEPT ![t] = item]
    BY <1>0
  <2> HIDE DEF item, cards
  <2>4. cards \in [Cards -> CardState]
    BY <2>1, <2>3, <1>0
  <2>5. pop' \in PopState /\ CardsPart' /\ SettingsSame /\ stored' = stored
    BY <2>2, <2>4, DrawnKeeps DEF SettingsSame, Rest
  <2> QED
    BY <2>5, <1>0, SettingsSameKeeps DEF PopupInv, PopupTypeOK
<1>5. ASSUME NEW s \in {"running", "stopped", "connecting", "error"}, StatusTold(t, s)
      PROVE  PopupInv'
  <2> DEFINE item == Told(stored[t], s)
             shown == Told(pop.cards[t], s)
             cards == [pop.cards EXCEPT ![t] = shown]
  <2>1. item \in CardState /\ shown \in CardState
    BY <1>0 DEF Told, Item, CardState
  <2>2. /\ stored' = [stored EXCEPT ![t] = item] /\ UNCHANGED <<settings, sysDark>>
        /\ pop' = IF pop.open /\ pop.cards[t] # NoCard THEN Drawn(cards) ELSE pop
    BY <1>5 DEF StatusTold
  <2> HIDE DEF item, shown
  <2>3. cards \in [Cards -> CardState] /\ stored' \in [Cards -> CardState]
    BY <2>1, <2>2, <1>0
  <2> HIDE DEF cards
  <2>4. pop' \in PopState /\ CardsPart' /\ SettingsSame
    <3>1. CASE pop' = Drawn(cards)
      BY <2>2, <2>3, <3>1, DrawnKeeps DEF SettingsSame
    <3>2. CASE pop' = pop
      BY <2>2, <3>2, <1>0 DEF SettingsSame, CardsPart, OneUnfolded
    <3> QED
      BY <2>2, <3>1, <3>2
  <2> QED
    BY <2>3, <2>4, SettingsSameKeeps DEF PopupInv, PopupTypeOK
<1> QED
  BY <1>1, <1>2, <1>3, <1>4, <1>5

\* Every step of the popup, of the worker and of the user keeps the invariant of the popup.
LEMMA PopupStep == PopupInv /\ PopupNext => PopupInv'
<1> SUFFICES ASSUME PopupInv, PopupNext PROVE PopupInv'
  OBVIOUS
<1>1. CASE OpenPopupPage \/ ClosePopupPage \/ RenderTunnelList
  BY <1>1, PageKeeps
<1>2. CASE InSettings
  BY <1>2, PageKeeps, SettingsKeep, SwitchesKeep DEF InSettings
<1>3. CASE NewForm \/ CycleRecordMode \/ ToggleAuth \/ TogglePassword \/ HideResetDialog \/ HideQrDialog \/ ToastEnds
  BY <1>3, SwitchesKeep
<1>4. ASSUME NEW t \in Cards, OnTunnelCard(t) PROVE PopupInv'
  <2>1. CASE ShowResetDialog(t) \/ ResetConfirmed(t) \/ ShowQrDialog(t) \/ CopyToClipboard(t)
    BY <2>1, SwitchesKeep
  <2>2. CASE \/ UpdateTunnelStats(t) \/ ToggleExpand(t) \/ StopCard(t) \/ StartCard(t)
             \/ \E s \in {"running", "stopped", "connecting", "error"} : StatusTold(t, s)
    BY <2>2, CardsKeep
  <2> QED
    BY <1>4, <2>1, <2>2 DEF OnTunnelCard
<1> QED
  BY <1>1, <1>2, <1>3, <1>4 DEF PopupNext

(* The page of the popup agrees with what is stored and told (src/extension/ *)
(* sidepanel.js): once its settings are there it is dark as they and the     *)
(* system want it and they are the stored ones, unless a click came before   *)
(* them; it shows traffic on running tunnels only, and unfolds one card at   *)
(* most, for every set of tunnels and every number of clicks.                *)
THEOREM ExtPopupAgrees == AppSpec => []PopupAgrees
<1>1. PopupInv /\ [AppNext]_appVars => PopupInv'
  <2> SUFFICES ASSUME PopupInv, [AppNext]_appVars PROVE PopupInv'
    OBVIOUS
  <2>1. CASE PopupNext
    BY <2>1, PopupStep
  <2>2. CASE UNCHANGED extPopup
    BY <2>2 DEF extPopup, PopupInv, PopupTypeOK, SettingsPart, AskedIsStored, SettingsAgree, CardsPart, OneUnfolded, Dark
  <2> QED
    BY <2>1, <2>2 DEF AppNext, appVars
<1>2. PopupInv => PopupAgrees
  <2> SUFFICES ASSUME PopupInv PROVE PopupAgrees
    OBVIOUS
  <2>1. Cardinality(pop.expanded) <= 1
    <3>1. CASE pop.expanded = {}
      <4>1. Cardinality(pop.expanded) = 0
        BY <3>1, FS_EmptySet
      <4> QED
        BY <4>1
    <3>2. ASSUME NEW t \in Cards, pop.expanded = {t} PROVE Cardinality(pop.expanded) <= 1
      <4>1. Cardinality(pop.expanded) = 1
        BY <3>2, FS_Singleton
      <4> QED
        BY <4>1
    <3> QED
      BY <3>1, <3>2 DEF PopupInv, CardsPart, OneUnfolded
  <2> QED
    BY <2>1 DEF PopupInv, CardsPart, SettingsPart, PopupAgrees, CardsTell
<1> QED
  BY PopupStarts, <1>1, <1>2, PTL DEF AppSpec

---------------------------------------------------------------------------
(* The document in detail (offscreen.js, tunnel-connection.js).            *)

CONSTANTS Prefix, Slots
VARIABLES entry, pending, conns

Host == INSTANCE ExtHost

ConnState ==
  [ws : {"connecting", "open", "bound", "refused", "silent", "closing", "aborting", "closed"}, starting : BOOLEAN]
EntryState == [on : BOOLEAN, cfg : Configs \union {0}, conn : Slots \union {0}, timer : BOOLEAN, attempts : Nat]
Statuses == {"running", "stopped", "connecting", "error"}
NoticeState == [t : Tunnels, status : Statuses, again : BOOLEAN]
HostTypeOK ==
  /\ doc \in BOOLEAN /\ entry \in [Tunnels -> EntryState] /\ pending \in SUBSET Tunnels
  /\ conns \in [Tunnels -> [Slots -> ConnState]] /\ notices \in Seq(NoticeState)

\* An entry that waits for its timer has no connection, and one that is off has nothing.
EntrySound(e) == (e.on => e.cfg # 0) /\ (~e.on => e.conn = 0 /\ ~e.timer) /\ (e.timer => e.conn = 0)
\* What can still bind or carry visitors is the connection of the entry.
Owned(e, row) == \A i \in Slots : row[i].ws \in Host!Live => e.on /\ e.conn = i
\* Without the document there is neither an entry nor a socket.
NothingLeft(t) == ~entry[t].on /\ \A i \in Slots : conns[t][i].ws = "closed"
HostInv ==
  /\ HostTypeOK
  /\ \A t \in Tunnels : EntrySound(entry[t]) /\ Owned(entry[t], conns[t]) /\ (~doc => NothingLeft(t))

\* No configuration is the mark of a tunnel that is not hosted.
LEMMA ConfigsAreNotZero == 0 \notin Configs
BY DocAssumption

\* The slot of a new connection is free.
LEMMA FirstFreeIsFree ==
  ASSUME Slots \subseteq Nat \ {0}, NEW t \in Tunnels, Host!Free(t) # {}
  PROVE  Host!FirstFree(t) \in Slots /\ conns[t][Host!FirstFree(t)].ws = "closed"
<1> DEFINE F == Host!Free(t)
<1>1. F \subseteq Slots /\ F \subseteq Nat /\ \A i \in F : conns[t][i].ws = "closed"
  BY DEF Host!Free
<1>2. F # {}
  OBVIOUS
<1> DEFINE Less == {pair \in Nat \X Nat : pair[1] < pair[2]}
<1>3. Host!FirstFree(t) = CHOOSE i \in F : \A j \in F : i <= j
  BY DEF Host!FirstFree
<1>4. IsWellFoundedOn(Less, Nat)
  BY NatLessThanWellFounded DEF OpToRel
<1> HIDE DEF F, Less
<1>5. PICK i \in F : \A j \in F : <<j, i>> \notin Less
  BY <1>1, <1>2, <1>4, WFMin
<1>6. ASSUME NEW j \in F PROVE i <= j
  <2>1. i \in Nat /\ j \in Nat
    BY <1>1
  <2>2. j < i => <<j, i>> \in Less
    BY <2>1 DEF Less
  <2> QED
    BY <1>5, <2>1, <2>2
<1>7. Host!FirstFree(t) \in F
  BY <1>3, <1>6
<1> QED
  BY <1>1, <1>7

\* A connection that is closed is a connection and is not live.
LEMMA CloseConnIsTyped ==
  ASSUME NEW c \in ConnState
  PROVE  Host!CloseConn(c) \in ConnState /\ Host!CloseConn(c).ws \notin Host!Live
BY DEF ConnState, Host!CloseConn, Host!Live

\* Where one tunnel changes, the rest of the invariant stays.
LEMMA OneChangeKeeps ==
  ASSUME HostInv, NEW t \in Tunnels, NEW e \in EntryState, NEW row \in [Slots -> ConnState],
         entry' = [entry EXCEPT ![t] = e], conns' = [conns EXCEPT ![t] = row], doc, doc' = doc,
         EntrySound(e), Owned(e, row), pending' \in SUBSET Tunnels,
         notices' \in Seq(NoticeState)
  PROVE  HostInv'
<1>1. entry' \in [Tunnels -> EntryState] /\ conns' \in [Tunnels -> [Slots -> ConnState]] /\ doc'
  BY DEF HostInv, HostTypeOK
<1>2. ASSUME NEW u \in Tunnels PROVE EntrySound(entry'[u]) /\ Owned(entry'[u], conns'[u])
  <2>1. CASE u = t
    BY <2>1 DEF HostInv, HostTypeOK
  <2>2. CASE u # t
    <3>1. entry'[u] = entry[u] /\ conns'[u] = conns[u]
      BY <2>2 DEF HostInv, HostTypeOK
    <3> QED
      BY <3>1 DEF HostInv
  <2> QED
    BY <2>1, <2>2
<1>3. HostTypeOK'
  BY <1>1 DEF HostTypeOK
<1>4. \A u \in Tunnels : EntrySound(entry[u])' /\ Owned(entry[u], conns[u])'
  BY <1>2 DEF EntrySound, Owned
<1> QED
  BY <1>1, <1>3, <1>4 DEF HostInv

\* Reports are told of one tunnel.
LEMMA NotifyIsTyped ==
  ASSUME HostInv, NEW t \in Tunnels, NEW statuses \in Seq(Statuses), Host!Notify(t, statuses)
  PROVE  notices' \in Seq(NoticeState)
<1> DEFINE sent == [i \in DOMAIN statuses |-> Host!Doc!Status(t, statuses[i])]
<1>1. DOMAIN statuses = 1 .. Len(statuses) /\ Len(statuses) \in Nat /\ \A i \in DOMAIN statuses : statuses[i] \in Statuses
  OBVIOUS
<1>2. \A i \in DOMAIN statuses : Host!Doc!Status(t, statuses[i]) \in NoticeState
  BY <1>1 DEF NoticeState, Host!Doc!Status
<1>3. notices' = notices \o sent /\ notices \in Seq(NoticeState)
  BY DEF Host!Notify, Host!Doc!Notify, HostInv, HostTypeOK
<1>4. sent \in [1 .. Len(statuses) -> NoticeState]
  BY <1>1, <1>2
<1> HIDE DEF sent
<1>5. sent \in Seq(NoticeState)
  BY <1>1, <1>4
<1>6. notices' \in Seq(NoticeState)
  BY <1>3, <1>5, ConcatProperties
<1> QED
  BY <1>6

\* The configuration that the promise says is hosted.
Hosted == [t \in Tunnels |-> IF entry[t].on THEN entry[t].cfg ELSE 0]
DocStep == [Host!Doc!DocNext]_(Host!Doc!document)

\* What is hosted changes with the one entry that changes.
LEMMA HostedChanges ==
  ASSUME HostInv, NEW t \in Tunnels, NEW e \in EntryState, entry' = [entry EXCEPT ![t] = e]
  PROVE  /\ Hosted' = [Hosted EXCEPT ![t] = IF e.on THEN e.cfg ELSE 0]
         /\ e.on = entry[t].on /\ e.cfg = entry[t].cfg => Hosted' = Hosted
         /\ Hosted[t] = 0 <=> ~entry[t].on
BY DEF HostInv, HostTypeOK, Hosted, EntrySound

\* A report of a tunnel is one of those that the promise has.
LEMMA ReportKeepsPromise ==
  ASSUME HostInv, NEW t \in Tunnels, NEW statuses \in Host!Doc!Reported(t), Host!Notify(t, statuses),
         doc, doc' = doc, pending' \in {pending, pending \ {t}}, Hosted' = Hosted
  PROVE  DocStep
<1>1. Host!Doc!DocReports(t)
  BY DEF Host!Doc!DocReports, Host!Notify, Hosted
<1> QED
  BY <1>1 DEF DocStep, Host!Doc!DocNext

\* What the host document may say of a tunnel: a failure always, the other statuses while it is hosted.
LEMMA WhatIsReported ==
  ASSUME HostInv, NEW t \in Tunnels
  PROVE  /\ <<"error">> \in Host!Doc!Reported(t)
         /\ entry[t].on => <<"running">> \in Host!Doc!Reported(t)
         /\ entry[t].on => <<"connecting">> \in Host!Doc!Reported(t)
         /\ entry[t].on => <<"error", "connecting">> \in Host!Doc!Reported(t)
         /\ entry[t].on => <<"connecting", "error">> \in Host!Doc!Reported(t)
<1>1. entry[t].on => Hosted[t] # 0
  BY DEF HostInv, Hosted, EntrySound
<1>2. Host!Doc!Reported(t) =
        {<<"error">>} \union IF Hosted[t] = 0 THEN {}
                              ELSE {<<"running">>, <<"connecting">>, <<"error", "connecting">>,
                                    <<"connecting", "error">>}
  BY DEF Host!Doc!Reported, Hosted
<1> HIDE DEF Hosted
<1> QED
  BY <1>1, <1>2, Zenon

\* Two reports one after the other are a list of two.
LEMMA PairOfStatuses ==
  ASSUME NEW x \in Statuses, NEW y \in Statuses
  PROVE  <<x>> \o <<y>> = <<x, y>>
<1> DEFINE s == <<x>>
           u == <<y>>
           c == s \o u
           d == <<x, y>>
<1>1. /\ s \in Seq(Statuses) /\ u \in Seq(Statuses) /\ d \in Seq(Statuses)
      /\ Len(s) = 1 /\ Len(u) = 1 /\ Len(d) = 2 /\ s[1] = x /\ u[1] = y /\ d[1] = x /\ d[2] = y
  OBVIOUS
<1> HIDE DEF s, u, d
<1>2. c \in Seq(Statuses) /\ Len(c) = 2
  BY <1>1, ConcatProperties
<1>3. c[1] = x
  BY <1>1
<1>4. c[2] = y
  <2>1. 2 \in 1 .. Len(c) /\ ~(2 <= Len(s)) /\ 2 - Len(s) = 1
    BY <1>1, <1>2
  <2>2. c[2] = IF 2 <= Len(s) THEN s[2] ELSE u[2 - Len(s)]
    BY <1>1, <2>1, ConcatProperties
  <2> QED
    BY <1>1, <2>1, <2>2
<1> HIDE DEF c
<1>5. \A i \in 1 .. Len(c) : c[i] = d[i]
  BY <1>1, <1>2, <1>3, <1>4
<1>6. c = d
  BY <1>1, <1>2, <1>5, SeqEqual
<1> QED
  BY <1>6 DEF c, d, s, u

\* The lists of statuses that the handlers report.
LEMMA StatusLists ==
  /\ <<>> \in Seq(Statuses) /\ <<"error">> \in Seq(Statuses) /\ <<"running">> \in Seq(Statuses)
  /\ <<"connecting">> \in Seq(Statuses) /\ <<"stopped">> \in Seq(Statuses)
  /\ <<"error", "connecting">> \in Seq(Statuses) /\ <<"stopped", "connecting">> \in Seq(Statuses)
  /\ <<"connecting", "error">> \in Seq(Statuses)
  /\ <<>> \o <<"error">> = <<"error">> /\ <<"connecting">> \o <<"error">> = <<"connecting", "error">>
  /\ <<"error">> \o <<>> = <<"error">> /\ <<"error">> \o <<"connecting">> = <<"error", "connecting">>
<1>1. <<>> \in Seq(Statuses) /\ "error" \in Statuses /\ "connecting" \in Statuses
  BY DEF Statuses
<1>2. <<"error">> \in Seq(Statuses) /\ <<"running">> \in Seq(Statuses)
  BY DEF Statuses
<1>3. <<"connecting">> \in Seq(Statuses) /\ <<"stopped">> \in Seq(Statuses)
  BY DEF Statuses
<1>4. <<"error", "connecting">> \in Seq(Statuses) /\ <<"stopped", "connecting">> \in Seq(Statuses)
  BY DEF Statuses
<1>5. <<"error">> \o <<>> = <<"error">>
  BY <1>2
<1>6. <<"error">> \o <<"connecting">> = <<"error", "connecting">>
  BY <1>1, PairOfStatuses, Zenon
<1>7. <<"connecting">> \o <<"error">> = <<"connecting", "error">>
  BY <1>1, PairOfStatuses, Zenon
<1>8. <<"connecting", "error">> \in Seq(Statuses) /\ <<>> \o <<"error">> = <<"error">>
  BY DEF Statuses
<1> QED
  BY <1>1, <1>2, <1>3, <1>4, <1>5, <1>6, <1>7, <1>8

\* Nothing to tell is no step of the promise.
LEMMA TellsNothing ==
  ASSUME HostInv, NEW t \in Tunnels, Host!Notify(t, <<>>)
  PROVE  notices' = notices
<1>1. notices' = notices \o [i \in DOMAIN <<>> |-> Host!Doc!Status(t, <<>>[i])]
  BY DEF Host!Notify, Host!Doc!Notify
<1>2. [i \in DOMAIN <<>> |-> Host!Doc!Status(t, <<>>[i])] = <<>>
  OBVIOUS
<1> QED
  BY <1>1, <1>2 DEF HostInv, HostTypeOK

\* A step that reports nothing and changes no hosted tunnel is a stutter of the document that is promised.
LEMMA SilentStep ==
  ASSUME doc' = doc, pending' = pending, notices' = notices, Hosted' = Hosted
  PROVE  DocStep
BY DEF DocStep, Host!Doc!document, Hosted

\* A connection that closes, fails or falls silent: the entry it belongs to waits for a retry,
\* the entries of others stay.
LEMMA ClosedKeeps ==
  ASSUME HostInv, NEW t \in Tunnels, NEW i \in Slots, Host!OnClose(t, i), NEW c \in ConnState, c.ws \notin Host!Live,
         conns' = [conns EXCEPT ![t][i] = c], doc, doc' = doc, pending' \in {pending, pending \ {t}},
         notices' \in Seq(NoticeState)
  PROVE  HostInv' /\ Hosted' = Hosted
<1>1. /\ entry \in [Tunnels -> EntryState] /\ conns[t] \in [Slots -> ConnState] /\ conns \in [Tunnels -> [Slots -> ConnState]]
      /\ pending \in SUBSET Tunnels /\ EntrySound(entry[t]) /\ Owned(entry[t], conns[t])
  BY DEF HostInv, HostTypeOK
<1> DEFINE row == [conns[t] EXCEPT ![i] = c]
           tries == entry[t].attempts + 1
           waits == [entry[t] EXCEPT !.conn = 0, !.timer = TRUE, !.attempts = tries]
           e == IF Host!Retried(t, i) THEN waits ELSE entry[t]
<1>2. tries \in Nat
  BY <1>1 DEF EntryState
<1>3. Host!Retried(t, i) => entry' = [entry EXCEPT ![t].conn = 0, ![t].timer = TRUE, ![t].attempts = tries]
  BY DEF Host!OnClose
<1>4. ~Host!Retried(t, i) => entry' = entry
  BY DEF Host!OnClose
<1> HIDE DEF tries
<1>5. waits \in EntryState /\ waits.on = entry[t].on /\ waits.cfg = entry[t].cfg /\ waits.conn = 0 /\ waits.timer
  BY <1>1, <1>2 DEF EntryState
<1>6. entry' = [entry EXCEPT ![t] = e]
  BY <1>1, <1>3, <1>4
<1> HIDE DEF waits
<1>7. /\ e \in EntryState /\ e.on = entry[t].on /\ e.cfg = entry[t].cfg
      /\ EntrySound(e) /\ (e = entry[t] \/ Host!Retried(t, i))
  BY <1>1, <1>5 DEF EntrySound, Host!Retried
<1> HIDE DEF e
<1>8. row \in [Slots -> ConnState] /\ conns' = [conns EXCEPT ![t] = row]
  BY <1>1
<1>9. Owned(e, row)
  <2> SUFFICES ASSUME NEW j \in Slots, row[j].ws \in Host!Live PROVE e.on /\ e.conn = j
    BY DEF Owned
  <2>1. j # i /\ row[j] = conns[t][j]
    BY <1>1
  <2>2. entry[t].on /\ entry[t].conn = j
    BY <1>1, <2>1 DEF Owned
  <2> QED
    BY <1>7, <2>1, <2>2 DEF Host!Retried
<1> HIDE DEF row
<1>10. pending' \in SUBSET Tunnels
  BY <1>1
<1> QED
  BY <1>6, <1>7, <1>8, <1>9, <1>10, OneChangeKeeps, HostedChanges

\* An event of a connection that is bound to change it alone.
LEMMA ConnChanges ==
  ASSUME HostInv, NEW t \in Tunnels, NEW i \in Slots, NEW c \in ConnState, entry' = entry,
         c.ws \in Host!Live => conns[t][i].ws \in Host!Live,
         conns' = [conns EXCEPT ![t][i] = c], doc, doc' = doc, pending' \in {pending, pending \ {t}},
         notices' \in Seq(NoticeState)
  PROVE  HostInv' /\ Hosted' = Hosted
<1>1. /\ entry \in [Tunnels -> EntryState] /\ conns[t] \in [Slots -> ConnState] /\ conns \in [Tunnels -> [Slots -> ConnState]]
      /\ pending \in SUBSET Tunnels /\ EntrySound(entry[t]) /\ Owned(entry[t], conns[t])
  BY DEF HostInv, HostTypeOK
<1> DEFINE row == [conns[t] EXCEPT ![i] = c]
           e == entry[t]
<1>2. row \in [Slots -> ConnState] /\ conns' = [conns EXCEPT ![t] = row] /\ entry' = [entry EXCEPT ![t] = e]
  BY <1>1
<1>3. Owned(e, row)
  BY <1>1 DEF Owned
<1>4. e \in EntryState /\ pending' \in SUBSET Tunnels
  BY <1>1
<1>5. Hosted' = Hosted
  BY DEF Hosted
<1> HIDE DEF row, e
<1>6. EntrySound(e)
  BY <1>1 DEF e
<1> QED
  BY <1>2, <1>3, <1>4, <1>5, <1>6, OneChangeKeeps

\* What the actions of one connection need of the invariant.
LEMMA ConnFacts ==
  ASSUME HostInv, NEW t \in Tunnels, NEW i \in Slots
  PROVE  /\ conns[t][i] \in ConnState /\ (conns[t][i].ws # "closed" => doc)
         /\ conns[t][i].ws \in Host!Live => entry[t].on /\ entry[t].conn = i
         /\ entry \in [Tunnels -> EntryState] /\ conns \in [Tunnels -> [Slots -> ConnState]]
BY DEF HostInv, HostTypeOK, NothingLeft, Owned

\* A slot without a connection is a closed connection.
LEMMA FreeConnIsTyped == Host!NoConn \in ConnState /\ Host!NoConn.ws \notin Host!Live /\ Host!NoConn.ws = "closed"
BY DEF Host!NoConn, ConnState, Host!Live

\* A connection that opens, or whose bind is answered, keeps the invariant and the promise.
LEMMA BindsStep ==
  ASSUME HostInv, NEW t \in Tunnels, NEW i \in Slots,
         Host!WsOpen(t, i) \/ Host!BindOk(t, i) \/ Host!BindRefused(t, i)
  PROVE  HostInv' /\ DocStep
<1>0. /\ conns[t][i] \in ConnState /\ (conns[t][i].ws # "closed" => doc)
      /\ conns[t][i].ws \in Host!Live => entry[t].on
      /\ conns \in [Tunnels -> [Slots -> ConnState]]
  BY ConnFacts
<1>1. CASE Host!WsOpen(t, i)
  <2> DEFINE c == [conns[t][i] EXCEPT !.ws = "open"]
  <2>1. c \in ConnState /\ c.ws = "open" /\ conns[t][i].ws = "connecting"
    BY <1>0, <1>1 DEF ConnState, Host!WsOpen
  <2>2. conns' = [conns EXCEPT ![t][i] = c] /\ doc' = doc /\ entry' = entry /\ pending' = pending /\ notices' = notices
    BY <1>0, <1>1 DEF Host!WsOpen
  <2> HIDE DEF c
  <2>3. doc /\ notices' \in Seq(NoticeState)
    BY <1>0, <2>1, <2>2 DEF HostInv, HostTypeOK
  <2>4. c.ws \in Host!Live => conns[t][i].ws \in Host!Live
    BY <2>1 DEF Host!Live
  <2>5. HostInv' /\ Hosted' = Hosted
    BY <2>1, <2>2, <2>3, <2>4, ConnChanges
  <2> QED
    BY <2>2, <2>5, SilentStep
<1>2. CASE Host!BindOk(t, i) \/ Host!BindRefused(t, i)
  <2>1. PICK state \in {"bound", "refused"}, statuses \in {<<"running">>, <<"error">>} :
          /\ conns' = [conns EXCEPT ![t][i] = [ws |-> state, starting |-> FALSE]] /\ Host!Notify(t, statuses)
    BY <1>2 DEF Host!BindOk, Host!BindRefused
  <2>2. /\ conns[t][i].ws = "open" /\ Host!Settled(t, i) /\ doc' = doc /\ entry' = entry
    BY <1>2 DEF Host!BindOk, Host!BindRefused
  <2> DEFINE c == [ws |-> state, starting |-> FALSE]
  <2>3. c \in ConnState
    BY DEF ConnState
  <2>4. conns[t][i].ws \in Host!Live /\ doc /\ entry[t].on
    BY <1>0, <2>2 DEF Host!Live
  <2>5. pending' \in {pending, pending \ {t}}
    BY <2>2 DEF Host!Settled
  <2>6. statuses \in Seq(Statuses) /\ statuses \in Host!Doc!Reported(t)
    BY <2>4, StatusLists, WhatIsReported
  <2>7. notices' \in Seq(NoticeState)
    BY <2>1, <2>6, NotifyIsTyped
  <2>8. conns' = [conns EXCEPT ![t][i] = c]
    BY <2>1
  <2> HIDE DEF c
  <2>9. HostInv' /\ Hosted' = Hosted
    BY <2>2, <2>3, <2>4, <2>5, <2>7, <2>8, ConnChanges
  <2> QED
    BY <2>1, <2>2, <2>4, <2>5, <2>6, <2>9, ReportKeepsPromise
<1> QED
  BY <1>1, <1>2

\* A connection that ends tells at most a failure, and a retry while its tunnel is hosted.
LEMMA RetryIsReported ==
  ASSUME HostInv, NEW t \in Tunnels, NEW i \in Slots
  PROVE  /\ Host!Retrying(t, i) \in Seq(Statuses)
         /\ Host!Retrying(t, i) = <<>> \/ Host!Retrying(t, i) \in Host!Doc!Reported(t)
         /\ <<"error">> \o Host!Retrying(t, i) \in Seq(Statuses)
         /\ <<"error">> \o Host!Retrying(t, i) \in Host!Doc!Reported(t)
         /\ Host!Retrying(t, i) \o <<"error">> \in Seq(Statuses)
         /\ Host!Retrying(t, i) \o <<"error">> \in Host!Doc!Reported(t)
<1>1. CASE Host!Retried(t, i)
  <2>1. Host!Retrying(t, i) = <<"connecting">> /\ entry[t].on
    BY <1>1 DEF Host!Retrying, Host!Retried
  <2> QED
    BY <2>1, StatusLists, WhatIsReported, Zenon
<1>2. CASE ~Host!Retried(t, i)
  <2>1. Host!Retrying(t, i) = <<>>
    BY <1>2 DEF Host!Retrying
  <2> QED
    BY <2>1, StatusLists, WhatIsReported, Zenon
<1> QED
  BY <1>1, <1>2

\* A connection that fails, closes or falls silent keeps the invariant and the promise.
LEMMA EndsStep ==
  ASSUME HostInv, NEW t \in Tunnels, NEW i \in Slots,
         Host!WsFails(t, i) \/ Host!WsCloses(t, i) \/ Host!FallsSilent(t, i)
  PROVE  HostInv' /\ DocStep
<1>0. /\ conns[t][i] \in ConnState /\ (conns[t][i].ws # "closed" => doc)
      /\ conns \in [Tunnels -> [Slots -> ConnState]]
  BY ConnFacts
<1> DEFINE retry == Host!Retrying(t, i)
           failure == <<"error">> \o retry
           lapse == retry \o <<"error">>
<1>1. conns[t][i].ws # "closed" /\ Host!OnClose(t, i) /\ doc' = doc
  BY DEF Host!WsFails, Host!WsCloses, Host!FallsSilent
<1>2. pending' \in {pending, pending \ {t}}
  BY DEF Host!WsFails, Host!WsCloses, Host!FallsSilent, Host!Settled
<1>3. Host!Notify(t, failure) \/ Host!Notify(t, lapse) \/ (Host!Notify(t, retry) /\ pending' = pending)
  BY DEF Host!WsFails, Host!WsCloses, Host!FallsSilent
<1>4. \E c \in ConnState : c.ws \notin Host!Live /\ conns' = [conns EXCEPT ![t][i] = c]
  <2>1. CASE Host!WsFails(t, i) \/ Host!WsCloses(t, i)
    <3>1. conns' = [conns EXCEPT ![t][i] = Host!NoConn]
      BY <2>1 DEF Host!WsFails, Host!WsCloses
    <3> QED
      BY <3>1, FreeConnIsTyped
  <2>2. CASE Host!FallsSilent(t, i)
    <3> DEFINE c == [conns[t][i] EXCEPT !.ws = "silent"]
    <3>1. c \in ConnState /\ c.ws \notin Host!Live
      BY <1>0 DEF ConnState, Host!Live
    <3>2. conns' = [conns EXCEPT ![t][i] = c]
      BY <1>0, <2>2 DEF Host!FallsSilent
    <3> HIDE DEF c
    <3> QED
      BY <3>1, <3>2
  <2> QED
    BY <2>1, <2>2
<1>5. doc
  BY <1>0, <1>1
<1>6. /\ retry \in Seq(Statuses) /\ (retry = <<>> \/ retry \in Host!Doc!Reported(t))
      /\ failure \in Seq(Statuses) /\ failure \in Host!Doc!Reported(t)
      /\ lapse \in Seq(Statuses) /\ lapse \in Host!Doc!Reported(t)
  BY RetryIsReported
<1> HIDE DEF retry, failure, lapse
<1>7. notices' \in Seq(NoticeState)
  BY <1>3, <1>6, NotifyIsTyped
<1>8. HostInv' /\ Hosted' = Hosted
  BY <1>1, <1>2, <1>4, <1>5, <1>7, ClosedKeeps
<1>9. DocStep
  <2>1. CASE Host!Notify(t, failure) \/ Host!Notify(t, lapse)
    BY <1>1, <1>2, <1>5, <1>6, <1>8, <2>1, ReportKeepsPromise
  <2>2. CASE Host!Notify(t, retry) /\ pending' = pending /\ retry = <<>>
    BY <1>1, <1>8, <2>2, TellsNothing, SilentStep
  <2>3. CASE Host!Notify(t, retry) /\ pending' = pending /\ retry \in Host!Doc!Reported(t)
    BY <1>1, <1>2, <1>5, <1>8, <2>3, ReportKeepsPromise
  <2> QED
    BY <1>3, <1>6, <2>1, <2>2, <2>3
<1> QED
  BY <1>8, <1>9

\* An entry without a connection has left none behind, and one whose connection is closed
\* leaves none behind.
LEMMA NoneLeftBehind ==
  ASSUME HostInv, NEW t \in Tunnels, Slots \subseteq Nat \ {0}, entry[t].conn = 0
  PROVE  \A i \in Slots : conns[t][i].ws \notin Host!Live
BY DEF HostInv, HostTypeOK, Owned

\* Once the connection of an entry is closed the tunnel has no live one.
LEMMA ClosedLeavesNone ==
  ASSUME HostInv, NEW t \in Tunnels, entry[t].conn # 0
  PROVE  LET row == [conns[t] EXCEPT ![entry[t].conn] = Host!CloseConn(@)]
         IN  row \in [Slots -> ConnState] /\ \A i \in Slots : row[i].ws \notin Host!Live
<1> DEFINE own == entry[t].conn
           c == Host!CloseConn(conns[t][own])
           row == [conns[t] EXCEPT ![own] = c]
<1>1. /\ conns[t] \in [Slots -> ConnState] /\ own \in Slots /\ conns[t][own] \in ConnState
      /\ \A i \in Slots : conns[t][i].ws \in Host!Live => own = i
  BY DEF HostInv, HostTypeOK, EntryState, Owned
<1>2. c \in ConnState /\ c.ws \notin Host!Live
  BY <1>1, CloseConnIsTyped
<1>3. row = [conns[t] EXCEPT ![entry[t].conn] = Host!CloseConn(@)]
  OBVIOUS
<1> HIDE DEF c, own
<1>4. row \in [Slots -> ConnState] /\ \A i \in Slots : row[i].ws \notin Host!Live
  BY <1>1, <1>2
<1> QED
  BY <1>3, <1>4

\* A new connection where none is left becomes the entry's own.
LEMMA ConnectsKeeps ==
  ASSUME HostInv, NEW t \in Tunnels, NEW row \in [Slots -> ConnState], NEW i \in Slots, NEW starting \in BOOLEAN,
         NEW e \in EntryState, \A j \in Slots : row[j].ws \notin Host!Live,
         e.on, e.cfg # 0,
         entry' = [entry EXCEPT ![t] = Host!Connected(e, i)],
         conns' = [conns EXCEPT ![t] = [row EXCEPT ![i] = Host!Connecting(starting)]],
         doc, doc' = doc, pending' \in SUBSET Tunnels, notices' \in Seq(NoticeState)
  PROVE  HostInv' /\ Hosted' = [Hosted EXCEPT ![t] = e.cfg]
<1> DEFINE c == Host!Connecting(starting)
           more == [row EXCEPT ![i] = c]
           new == Host!Connected(e, i)
<1>1. c \in ConnState
  BY DEF Host!Connecting, ConnState
<1>2. new \in EntryState /\ new.on /\ new.cfg = e.cfg /\ new.conn = i /\ ~new.timer
  BY DEF Host!Connected, EntryState
<1>3. entry' = [entry EXCEPT ![t] = new] /\ conns' = [conns EXCEPT ![t] = more]
  OBVIOUS
<1> HIDE DEF c, new
<1>4. more \in [Slots -> ConnState] /\ \A j \in Slots : j # i => more[j].ws \notin Host!Live
  BY <1>1
<1> HIDE DEF more
<1>5. Owned(new, more) /\ EntrySound(new)
  BY <1>2, <1>4 DEF Owned, EntrySound
<1>6. HostInv'
  BY <1>2, <1>3, <1>4, <1>5, OneChangeKeeps
<1>7. Hosted' = [Hosted EXCEPT ![t] = e.cfg]
  <2>1. Hosted' = [Hosted EXCEPT ![t] = IF new.on THEN new.cfg ELSE 0]
    BY <1>2, <1>3, HostedChanges
  <2>2. (IF new.on THEN new.cfg ELSE 0) = e.cfg
    BY <1>2
  <2> HIDE DEF Hosted
  <2> QED
    BY <2>1, <2>2
<1> QED
  BY <1>6, <1>7

\* Starting a tunnel, anew or over a running one, keeps the invariant and the promise.
LEMMA StartStep ==
  ASSUME HostInv, Slots \subseteq Nat \ {0}, NEW t \in Tunnels, NEW cfg \in Configs, Host!Start(t, cfg)
  PROVE  HostInv' /\ DocStep
<1> DEFINE e == [Host!NoEntry EXCEPT !.on = TRUE, !.cfg = cfg]
           i == Host!FirstFree(t)
           old == IF entry[t].on /\ entry[t].conn # 0 THEN [conns[t] EXCEPT ![entry[t].conn] = Host!CloseConn(@)] ELSE conns[t]
           tells == IF entry[t].on THEN <<"stopped", "connecting">> ELSE <<"connecting">>
<1>1. e \in EntryState /\ e.on /\ e.cfg = cfg /\ cfg # 0
  BY ConfigsAreNotZero DEF Host!NoEntry, EntryState
<1>2. /\ doc /\ doc' = doc /\ t \notin pending /\ Host!Free(t) # {} /\ pending' = pending \union {t}
      /\ entry' = [entry EXCEPT ![t] = Host!Connected(e, i)]
      /\ conns' = [conns EXCEPT ![t] = [old EXCEPT ![i] = Host!Connecting(TRUE)]]
      /\ Host!Notify(t, tells)
  BY DEF Host!Start
<1>3. i \in Slots
  BY <1>2, FirstFreeIsFree
<1>4. old \in [Slots -> ConnState] /\ \A j \in Slots : old[j].ws \notin Host!Live
  <2>1. CASE entry[t].on /\ entry[t].conn # 0
    BY <2>1, ClosedLeavesNone
  <2>2. CASE ~(entry[t].on /\ entry[t].conn # 0)
    <3>1. entry[t].conn = 0 /\ conns[t] \in [Slots -> ConnState]
      BY <2>2 DEF HostInv, HostTypeOK, EntrySound
    <3> QED
      BY <2>2, <3>1, NoneLeftBehind
  <2> QED
    BY <2>1, <2>2
<1>5. pending' \in SUBSET Tunnels
  BY <1>2 DEF HostInv, HostTypeOK
<1>6. tells \in Seq(Statuses)
  BY StatusLists
<1>7. tells = IF Hosted[t] = 0 THEN <<"connecting">> ELSE <<"stopped", "connecting">>
  BY DEF HostInv, HostTypeOK, EntrySound, Hosted
<1> HIDE DEF e, i, old, tells
<1>8. notices' \in Seq(NoticeState)
  BY <1>2, <1>6, NotifyIsTyped
<1>9. HostInv' /\ Hosted' = [Hosted EXCEPT ![t] = cfg]
  BY <1>1, <1>2, <1>3, <1>4, <1>5, <1>8, ConnectsKeeps
<1>10. Host!Notify(t, IF Hosted[t] = 0 THEN <<"connecting">> ELSE <<"stopped", "connecting">>)
  BY <1>2, <1>7
<1>11. Host!Doc!DocStart(t, cfg)
  BY <1>2, <1>9, <1>10 DEF Host!Doc!DocStart, Host!Notify, Hosted
<1> QED
  BY <1>2, <1>9, <1>11 DEF DocStep, Host!Doc!DocNext

\* Stopping a tunnel keeps the invariant and the promise.
LEMMA StopStep ==
  ASSUME HostInv, Slots \subseteq Nat \ {0}, NEW t \in Tunnels, Host!Stop(t)
  PROVE  HostInv' /\ DocStep
<1> DEFINE e == Host!NoEntry
           row == IF entry[t].conn = 0 THEN conns[t] ELSE [conns[t] EXCEPT ![entry[t].conn] = Host!CloseConn(@)]
<1>0. conns \in [Tunnels -> [Slots -> ConnState]] /\ entry \in [Tunnels -> EntryState] /\ pending \in SUBSET Tunnels
  BY DEF HostInv, HostTypeOK
<1>1. e \in EntryState /\ ~e.on /\ EntrySound(e)
  BY DEF Host!NoEntry, EntryState, EntrySound
<1>2. /\ doc /\ doc' = doc /\ entry[t].on /\ pending' = pending
      /\ entry' = [entry EXCEPT ![t] = e] /\ Host!Notify(t, <<"stopped">>)
  BY DEF Host!Stop
<1>3. row \in [Slots -> ConnState] /\ \A j \in Slots : row[j].ws \notin Host!Live
  BY <1>0, ClosedLeavesNone, NoneLeftBehind
<1>4. conns' = [conns EXCEPT ![t] = row]
  <2>1. CASE entry[t].conn = 0
    <3>1. conns' = conns
      BY <2>1 DEF Host!Stop
    <3> QED
      BY <2>1, <3>1, <1>0
  <2>2. CASE entry[t].conn # 0
    <3>1. conns' = [conns EXCEPT ![t][entry[t].conn] = Host!CloseConn(@)]
      BY <2>2 DEF Host!Stop
    <3>2. [conns EXCEPT ![t][entry[t].conn] = Host!CloseConn(@)]
            = [conns EXCEPT ![t] = [conns[t] EXCEPT ![entry[t].conn] = Host!CloseConn(@)]]
      BY <1>0
    <3> QED
      BY <2>2, <3>1, <3>2
  <2> QED
    BY <2>1, <2>2
<1>5. Owned(e, row)
  BY <1>3 DEF Owned
<1>6. notices' \in Seq(NoticeState)
  BY <1>2, StatusLists, NotifyIsTyped
<1>7. pending' \in SUBSET Tunnels
  BY <1>0, <1>2
<1> HIDE DEF e, row
<1>8. HostInv'
  BY <1>1, <1>2, <1>3, <1>4, <1>5, <1>6, <1>7, OneChangeKeeps
<1>9. Hosted' = [Hosted EXCEPT ![t] = 0] /\ Hosted[t] # 0
  BY <1>1, <1>2, HostedChanges
<1>10. Host!Doc!DocStop(t)
  BY <1>2, <1>9 DEF Host!Doc!DocStop, Host!Notify, Hosted
<1> QED
  BY <1>2, <1>8, <1>10 DEF DocStep, Host!Doc!DocNext

\* The retry of a tunnel keeps the invariant and the promise.
LEMMA ReconnectStep ==
  ASSUME HostInv, Slots \subseteq Nat \ {0}, NEW t \in Tunnels, Host!ReconnectTimer(t)
  PROVE  HostInv' /\ DocStep
<1> DEFINE e == entry[t]
           i == Host!FirstFree(t)
           row == conns[t]
<1>0. conns \in [Tunnels -> [Slots -> ConnState]] /\ entry \in [Tunnels -> EntryState] /\ pending \in SUBSET Tunnels
  BY DEF HostInv, HostTypeOK
<1>1. /\ e.timer /\ Host!Free(t) # {} /\ doc' = doc /\ pending' = pending /\ Host!Notify(t, <<"connecting">>)
      /\ entry' = [entry EXCEPT ![t] = Host!Connected(@, i)]
      /\ conns' = [conns EXCEPT ![t][i] = Host!Connecting(FALSE)]
  BY DEF Host!ReconnectTimer
<1>2. e \in EntryState /\ e.on /\ e.conn = 0 /\ e.cfg # 0 /\ doc
  BY <1>0, <1>1 DEF HostInv, EntrySound, NothingLeft
<1>3. i \in Slots
  BY <1>1, FirstFreeIsFree
<1>4. row \in [Slots -> ConnState] /\ \A j \in Slots : row[j].ws \notin Host!Live
  BY <1>0, <1>2, NoneLeftBehind
<1> DEFINE new == Host!Connected(e, i)
           c == Host!Connecting(FALSE)
<1>5. entry' = [entry EXCEPT ![t] = new]
  BY <1>0, <1>1
<1>6. conns' = [conns EXCEPT ![t] = [row EXCEPT ![i] = c]]
  <2>1. conns' = [conns EXCEPT ![t][i] = c]
    BY <1>1
  <2> HIDE DEF i, c
  <2> QED
    BY <2>1, <1>0
<1>7. notices' \in Seq(NoticeState)
  BY <1>1, StatusLists, NotifyIsTyped
<1>8. pending' \in SUBSET Tunnels /\ pending' \in {pending, pending \ {t}}
  BY <1>0, <1>1
<1>9. doc' = doc /\ FALSE \in BOOLEAN
  BY <1>1
<1> HIDE DEF e, i, row
<1>10. HostInv' /\ Hosted' = [Hosted EXCEPT ![t] = e.cfg]
  BY <1>2, <1>3, <1>4, <1>5, <1>6, <1>7, <1>8, <1>9, ConnectsKeeps
<1>11. Hosted' = Hosted
  <2>1. Hosted[t] = e.cfg /\ Hosted = [u \in Tunnels |-> Hosted[u]]
    BY <1>2 DEF Hosted, e
  <2> HIDE DEF Hosted
  <2> QED
    BY <1>10, <2>1
<1>12. <<"connecting">> \in Host!Doc!Reported(t)
  BY <1>2, WhatIsReported DEF e
<1> QED
  BY <1>1, <1>2, <1>8, <1>10, <1>11, <1>12, ReportKeepsPromise

\* The document that comes, goes or hears a notice keeps the invariant and the promise.
LEMMA DocumentStep ==
  ASSUME HostInv, Host!Created \/ Host!Lost \/ Host!Delivered
  PROVE  HostInv' /\ DocStep
<1>0. /\ doc \in BOOLEAN /\ entry \in [Tunnels -> EntryState] /\ conns \in [Tunnels -> [Slots -> ConnState]]
      /\ notices \in Seq(NoticeState)
  BY DEF HostInv, HostTypeOK
<1>1. CASE Host!Created
  <2>1. ~doc /\ doc' = TRUE /\ UNCHANGED <<entry, pending, conns, notices>>
    BY <1>1 DEF Host!Created
  <2>2. HostInv'
    BY <2>1, <1>0 DEF HostInv, HostTypeOK, Owned, NothingLeft
  <2>3. Host!Doc!DocCreated
    BY <2>1 DEF Host!Doc!DocCreated
  <2> QED
    BY <2>1, <2>2, <2>3 DEF DocStep, Host!Doc!DocNext
<1>2. CASE Host!Lost
  <2>1. doc /\ doc' = FALSE /\ entry' = Host!NoEntries /\ pending' = {} /\ conns' = Host!NoConns /\ notices' = notices
    BY <1>2 DEF Host!Lost
  <2>2. Host!NoEntry \in EntryState /\ EntrySound(Host!NoEntry) /\ ~Host!NoEntry.on
    BY DEF Host!NoEntry, EntryState, EntrySound
  <2>3. \A t \in Tunnels : entry'[t] = Host!NoEntry
    BY <2>1 DEF Host!NoEntries
  <2>4. \A t \in Tunnels, i \in Slots : conns'[t][i] = Host!NoConn
    BY <2>1 DEF Host!NoConns
  <2>5. entry' \in [Tunnels -> EntryState] /\ conns' \in [Tunnels -> [Slots -> ConnState]]
    BY <2>1, <2>2, FreeConnIsTyped DEF Host!NoEntries, Host!NoConns
  <2>6. HostTypeOK'
    BY <2>1, <2>5, <1>0 DEF HostTypeOK
  <2>7. ASSUME NEW t \in Tunnels
        PROVE  EntrySound(entry'[t]) /\ Owned(entry'[t], conns'[t]) /\ NothingLeft(t)'
    BY <2>2, <2>3, <2>4, FreeConnIsTyped DEF Owned, NothingLeft
  <2>8. HostInv'
    BY <2>6, <2>7 DEF HostInv, EntrySound, Owned
  <2>9. Host!Doc!DocLost
    BY <2>1, <2>2, <2>3 DEF Host!Doc!DocLost, Host!Doc!Off
  <2> QED
    BY <2>1, <2>8, <2>9 DEF DocStep, Host!Doc!DocNext
<1>3. CASE Host!Delivered
  <2>1. notices # <<>> /\ notices' = Tail(notices) /\ UNCHANGED <<doc, entry, pending, conns>>
    BY <1>3 DEF Host!Delivered
  <2>2. notices' \in Seq(NoticeState)
    BY <2>1, <1>0
  <2>3. HostInv'
    BY <2>1, <2>2 DEF HostInv, HostTypeOK, Owned, EntrySound, NothingLeft
  <2>4. Host!Doc!Delivered
    BY <2>1 DEF Host!Doc!Delivered
  <2> QED
    BY <2>3, <2>4 DEF DocStep, Host!Doc!DocNext
<1> QED
  BY <1>1, <1>2, <1>3

\* Every step of the host keeps the invariant and is a step of the promised document, or a stutter.
LEMMA HostStep ==
  ASSUME Slots \subseteq Nat \ {0}
  PROVE  HostInv /\ [Host!Next]_(Host!vars) => HostInv' /\ DocStep
<1> SUFFICES ASSUME HostInv, [Host!Next]_(Host!vars) PROVE HostInv' /\ DocStep
  OBVIOUS
<1>1. CASE UNCHANGED Host!vars
  <2>1. UNCHANGED <<doc, entry, pending, conns, notices>>
    BY <1>1 DEF Host!vars
  <2>2. HostInv'
    BY <2>1 DEF HostInv, HostTypeOK, Owned, EntrySound, NothingLeft
  <2>3. Hosted' = Hosted
    BY <2>1 DEF Hosted
  <2> QED
    BY <2>1, <2>2, <2>3, SilentStep
<1>2. ASSUME NEW t \in Tunnels, Host!Stop(t) \/ Host!ReconnectTimer(t) PROVE HostInv' /\ DocStep
  BY <1>2, StopStep, ReconnectStep
<1>3. ASSUME NEW t \in Tunnels, NEW cfg \in Configs, Host!Start(t, cfg) PROVE HostInv' /\ DocStep
  BY <1>3, StartStep
<1>4. ASSUME NEW t \in Tunnels, NEW i \in Slots, Host!ConnEvent(t, i) PROVE HostInv' /\ DocStep
  BY <1>4, BindsStep, EndsStep DEF Host!ConnEvent
<1>5. CASE Host!Created \/ Host!Lost \/ Host!Delivered
  BY <1>5, DocumentStep
<1> QED
  BY <1>1, <1>2, <1>3, <1>4, <1>5 DEF Host!Next

\* The host starts in the invariant and where the promised document starts.
LEMMA HostStarts == Host!Init => HostInv /\ Host!Doc!DocInit
<1> SUFFICES ASSUME Host!Init PROVE HostInv /\ Host!Doc!DocInit
  OBVIOUS
<1>1. doc = FALSE /\ entry = Host!NoEntries /\ pending = {} /\ conns = Host!NoConns /\ notices = <<>>
  BY DEF Host!Init
<1>2. Host!NoEntry \in EntryState /\ EntrySound(Host!NoEntry) /\ ~Host!NoEntry.on
  BY DEF Host!NoEntry, EntryState, EntrySound
<1>3. entry \in [Tunnels -> EntryState] /\ conns \in [Tunnels -> [Slots -> ConnState]]
  BY <1>1, <1>2, FreeConnIsTyped DEF Host!NoEntries, Host!NoConns
<1>4. \A t \in Tunnels : entry[t] = Host!NoEntry /\ \A i \in Slots : conns[t][i] = Host!NoConn
  <2>1. \A t \in Tunnels : entry[t] = Host!NoEntry
    BY <1>1 DEF Host!NoEntries
  <2>2. \A t \in Tunnels : \A i \in Slots : conns[t][i] = Host!NoConn
    BY <1>1 DEF Host!NoConns
  <2> QED
    BY <2>1, <2>2
<1>5. HostTypeOK
  <2>1. doc = FALSE /\ pending = {} /\ notices = <<>>
    BY <1>1, Zenon
  <2>2. doc \in BOOLEAN /\ pending \in SUBSET Tunnels
    BY <2>1
  <2>3. notices \in Seq(NoticeState)
    BY <2>1
  <2> QED
    BY <1>3, <2>2, <2>3 DEF HostTypeOK
<1>6. ASSUME NEW t \in Tunnels
      PROVE  EntrySound(entry[t]) /\ Owned(entry[t], conns[t]) /\ NothingLeft(t)
  BY <1>2, <1>4, FreeConnIsTyped DEF Owned, NothingLeft
<1>7. Host!Doc!DocInit
  BY <1>1, <1>2, <1>4 DEF Host!Doc!DocInit, Host!Doc!Off
<1> QED
  BY <1>5, <1>6, <1>7 DEF HostInv

(* Whatever fails, closes or comes late, a tunnel has at most one connection *)
(* that can still bind or carry visitors, it is the one its entry names, and *)
(* only while the tunnel is hosted (offscreen.js startTunnel, stopTunnel,    *)
(* onClose), for every number of tunnels, configurations and connections.    *)
THEOREM ExtNoOrphan ==
  ASSUME Slots \subseteq Nat \ {0}
  PROVE  Host!Spec => []Host!NoOrphan
<1>1. HostInv => Host!NoOrphan
  BY DEF HostInv, HostTypeOK, Owned, NothingLeft, Host!NoOrphan, Host!Live
<1> QED
  BY HostStarts, HostStep, <1>1, PTL DEF Host!Spec

(* The document in detail keeps the promise that the popup and the service   *)
(* worker are modelled with: each of its steps is a step of ExtDoc or leaves *)
(* what ExtDoc has alone.  Nothing but a failure is reported of a tunnel     *)
(* that is no longer hosted, and no event of a connection starts one         *)
(* (offscreen.js, tunnel-connection.js).                                     *)
THEOREM ExtHostImplementsDoc ==
  ASSUME Slots \subseteq Nat \ {0}
  PROVE  Host!Spec => Host!ImplementsDoc
<1>1. DocStep => [Host!Doc!DocNext]_(Host!Doc!document)
  BY DEF DocStep
<1> QED
  BY HostStarts, HostStep, <1>1, PTL DEF Host!Spec, Host!ImplementsDoc, Host!Doc!DocSpec

---------------------------------------------------------------------------
(* Least elements: how facts about recursive functions are proved here.     *)

\* A set of numbers that is not empty has a least one: the initial segments of its
\* members are finite sets, which inclusion orders well.
LEMMA LeastNumber ==
  ASSUME NEW T, T \subseteq Nat, T # {}
  PROVE  \E n \in T : \A k \in T : n <= k
<1> DEFINE Below(n) == {k \in Nat : k < n}
           Segments == {Below(n) : n \in T}
<1>1. Segments \subseteq FiniteSubsetsOf(Nat) /\ Segments # {}
  <2>1. ASSUME NEW n \in T PROVE Below(n) \in FiniteSubsetsOf(Nat)
    <3>1. n \in Nat
      OBVIOUS
    <3>2. \A k \in Below(n) : k <= n
      BY <3>1
    <3>3. Below(n) \subseteq Nat
      OBVIOUS
    <3>4. IsFiniteSet(Below(n))
      BY <3>1, <3>2, <3>3, FS_BoundedSetOfNaturals
    <3> QED
      BY <3>3, <3>4 DEF FiniteSubsetsOf
  <2> QED
    BY <2>1
<1>2. IsWellFoundedOn(StrictSubsetOrdering(Nat), FiniteSubsetsOf(Nat))
  BY FS_StrictSubsetOrderingWellFounded
<1>3. \E least \in Segments : \A other \in Segments : ~(<<other, least>> \in StrictSubsetOrdering(Nat))
  BY <1>1, <1>2, WFMin
<1>4. PICK n \in T : \A k \in T : ~(<<Below(k), Below(n)>> \in StrictSubsetOrdering(Nat))
  BY <1>3
<1>5. ASSUME NEW k \in T, k < n PROVE FALSE
  <2>1. k \in Nat /\ n \in Nat
    OBVIOUS
  <2>2. Below(k) \subseteq Below(n)
    BY <2>1, <1>5
  <2>3. k \in Below(n) /\ k \notin Below(k)
    BY <2>1, <1>5
  <2>4. Below(k) # Below(n)
    BY <2>3
  <2>5. Below(k) \in SUBSET Nat /\ Below(n) \in SUBSET Nat
    OBVIOUS
  <2>6. <<Below(k), Below(n)>> \in StrictSubsetOrdering(Nat)
    BY <2>2, <2>4, <2>5 DEF StrictSubsetOrdering
  <2> QED
    BY <2>6, <1>4
<1> QED
  BY <1>5

---------------------------------------------------------------------------
(* The calls of the decoder (ExtWs): the recursive function of Parsed      *)
(* exists, and what comes of it is a sequence of events.                   *)

FirstRun(d) == {[events |-> <<>>, d |-> d]}
NextRuns(runs) == {Taken(run, ParseOne(run.d)) : run \in runs}
\* the function after of Parsed, as far as n
IsRun(f, d, n) ==
  /\ f = [k \in 0..n |-> f[k]] /\ f[0] = FirstRun(d)
  /\ \A k \in 1..n : f[k] = NextRuns(f[k - 1])

\* The unfolding of the parser of a frame is there for every number of calls.
LEMMA RunExists ==
  ASSUME NEW d, NEW n \in Nat
  PROVE  \E f : IsRun(f, d, n)
<1> DEFINE T == {m \in Nat : ~\E f : IsRun(f, d, m)}
<1>1. CASE T = {}
  BY <1>1
<1>2. CASE T # {}
  <2>1. PICK m \in T : \A k \in T : m <= k
    <3>1. T \subseteq Nat
      OBVIOUS
    <3> HIDE DEF T
    <3> QED
      BY <1>2, <3>1, LeastNumber
  <2>2. CASE m = 0
    <3> DEFINE f == [k \in 0..0 |-> FirstRun(d)]
    <3>1. IsRun(f, d, 0)
      BY DEF IsRun
    <3> QED
      BY <3>1, <2>2
  <2>3. CASE m # 0
    <3>1. m - 1 \in Nat /\ ~(m <= m - 1)
      BY <2>3
    <3>2. PICK g : IsRun(g, d, m - 1)
      BY <3>1, <2>1
    <3> DEFINE f == [k \in 0..m |-> IF k = m THEN NextRuns(g[m - 1]) ELSE g[k]]
    <3>3. f[0] = FirstRun(d)
      BY <3>1, <3>2 DEF IsRun
    <3>4. ASSUME NEW k \in 1..m PROVE f[k] = NextRuns(f[k - 1])
      <4>1. k - 1 \in 0..m /\ k - 1 # m /\ k \in 0..m
        OBVIOUS
      <4>2. f[k - 1] = g[k - 1]
        BY <4>1
      <4>3. CASE k = m
        BY <4>1, <4>2, <4>3
      <4>4. CASE k # m
        <5>1. k \in 1..(m - 1) /\ f[k] = g[k]
          BY <4>1, <4>4
        <5>2. g[k] = NextRuns(g[k - 1])
          BY <5>1, <3>2 DEF IsRun
        <5> QED
          BY <5>1, <5>2, <4>2
      <4> QED
        BY <4>3, <4>4
    <3>5. f = [k \in 0..m |-> f[k]]
      OBVIOUS
    <3> HIDE DEF f
    <3>6. IsRun(f, d, m)
      BY <3>3, <3>4, <3>5 DEF IsRun
    <3> QED
      BY <3>6
  <2> QED
    BY <2>2, <2>3
<1> QED
  BY <1>1, <1>2

\* Two unfoldings of the parser agree as far as both go.
LEMMA RunsAgree ==
  ASSUME NEW d, NEW m \in Nat, NEW n \in Nat, m <= n,
         NEW f, NEW g, IsRun(f, d, m), IsRun(g, d, n)
  PROVE  \A k \in 0..m : f[k] = g[k]
<1> DEFINE T == {k \in 0..m : f[k] # g[k]}
<1>1. CASE T = {}
  BY <1>1
<1>2. CASE T # {}
  <2>1. PICK k \in T : \A j \in T : k <= j
    <3>1. T \subseteq Nat
      OBVIOUS
    <3> HIDE DEF T
    <3> QED
      BY <1>2, <3>1, LeastNumber
  <2>2. CASE k = 0
    BY <2>2 DEF IsRun
  <2>3. CASE k # 0
    <3>1. k - 1 \in 0..m /\ ~(k <= k - 1) /\ k \in 1..m /\ k \in 1..n
      BY <2>3
    <3>2. f[k - 1] = g[k - 1]
      BY <3>1, <2>1
    <3>3. f[k] = NextRuns(f[k - 1]) /\ g[k] = NextRuns(g[k - 1])
      BY <3>1 DEF IsRun
    <3> QED
      BY <3>2, <3>3
  <2> QED
    BY <2>2, <2>3
<1> QED
  BY <1>1, <1>2

\* The function exists, so that its equation holds of the one that Parsed chooses.
LEMMA ParsedRuns ==
  ASSUME NEW d
  PROVE  \E after : /\ after = [n \in Nat |-> IF n = 0 THEN FirstRun(d) ELSE NextRuns(after[n - 1])]
                    /\ \A calls \in Nat : Parsed(d, calls) = after[calls]
<1> DEFINE Fits(f) == f = [n \in Nat |-> IF n = 0 THEN FirstRun(d) ELSE NextRuns(f[n - 1])]
           run(n) == CHOOSE f : IsRun(f, d, n)
           all == [n \in Nat |-> run(n)[n]]
<1>1. ASSUME NEW n \in Nat PROVE IsRun(run(n), d, n)
  BY RunExists
<1>2. ASSUME NEW n \in Nat, n # 0 PROVE all[n] = NextRuns(all[n - 1])
  <2>1. n - 1 \in Nat /\ n - 1 <= n /\ n \in 1..n /\ n - 1 \in 0..(n - 1)
    BY <1>2
  <2>2. IsRun(run(n), d, n) /\ IsRun(run(n - 1), d, n - 1)
    BY <2>1, <1>1
  <2> HIDE DEF run
  <2>3. run(n - 1)[n - 1] = run(n)[n - 1]
    BY <2>1, <2>2, RunsAgree
  <2>4. run(n)[n] = NextRuns(run(n)[n - 1])
    BY <2>1, <2>2 DEF IsRun
  <2> QED
    BY <2>1, <2>3, <2>4
<1>3. all[0] = FirstRun(d)
  <2>1. IsRun(run(0), d, 0)
    BY <1>1
  <2> HIDE DEF run
  <2> QED
    BY <2>1 DEF IsRun
<1>4. Fits(all)
  <2> HIDE DEF run
  <2>1. \A n \in Nat : all[n] = IF n = 0 THEN FirstRun(d) ELSE NextRuns(all[n - 1])
    BY <1>2, <1>3
  <2>2. all = [n \in Nat |-> all[n]]
    OBVIOUS
  <2> HIDE DEF all
  <2> QED
    BY <2>1, <2>2
<1> DEFINE after == CHOOSE f : Fits(f)
<1>5. Fits(after)
  <2> HIDE DEF all, Fits
  <2> QED
    BY <1>4
<1>6. ASSUME NEW calls \in Nat PROVE Parsed(d, calls) = after[calls]
  BY DEF Parsed, FirstRun, NextRuns
<1> HIDE DEF after
<1> QED
  BY <1>5, <1>6

IsSequence(x) == \E S : x \in Seq(S)

\* The events that the parser has found are a list, however many calls it took.
LEMMA ParsedEvents ==
  ASSUME NEW d, NEW calls \in Nat
  PROVE  \A run \in Parsed(d, calls) : IsSequence(run.events)
<1>1. PICK after : /\ after = [n \in Nat |-> IF n = 0 THEN FirstRun(d) ELSE NextRuns(after[n - 1])]
                   /\ \A n \in Nat : Parsed(d, n) = after[n]
  BY ParsedRuns
<1> DEFINE T == {n \in Nat : ~\A run \in after[n] : IsSequence(run.events)}
<1>2. CASE T = {}
  BY <1>1, <1>2
<1>3. CASE T # {}
  <2>1. PICK n \in T : \A j \in T : n <= j
    <3>1. T \subseteq Nat
      OBVIOUS
    <3> HIDE DEF T
    <3> QED
      BY <1>3, <3>1, LeastNumber
  <2>2. PICK run \in after[n] : ~IsSequence(run.events)
    OBVIOUS
  <2>3. CASE n = 0
    <3>1. run = [events |-> <<>>, d |-> d]
      BY <1>1, <2>2, <2>3 DEF FirstRun
    <3>2. run.events = <<>>
      BY <3>1
    <3>3. <<>> \in Seq({})
      OBVIOUS
    <3> QED
      BY <3>2, <3>3, <2>2 DEF IsSequence
  <2>4. CASE n # 0
    <3>1. n \in Nat /\ n - 1 \in Nat /\ ~(n <= n - 1)
      BY <2>4
    <3>2. after[n] = NextRuns(after[n - 1])
      BY <1>1, <2>4, <3>1
    <3>3. PICK r \in after[n - 1] : run = Taken(r, ParseOne(r.d))
      BY <3>2, <2>2 DEF NextRuns
    <3>4. IsSequence(r.events)
      BY <3>1, <2>1
    <3>5. \A one : IsSequence(Taken(r, one).events)
      <4>1. ASSUME NEW e PROVE IsSequence(Append(r.events, e))
        <5>1. PICK S : r.events \in Seq(S)
          BY <3>4 DEF IsSequence
        <5>2. r.events \in Seq(S \union {e}) /\ e \in S \union {e}
          BY <5>1, SeqMonotonic
        <5>3. Append(r.events, e) \in Seq(S \union {e})
          BY <5>2
        <5> QED
          BY <5>3 DEF IsSequence
      <4>2. ASSUME NEW one, one.some PROVE Taken(r, one).events \in {r.events, Append(r.events, one.event)}
        BY <4>2 DEF Taken
      <4>3. ASSUME NEW one, ~one.some PROVE Taken(r, one) = r
        BY <4>3 DEF Taken
      <4> QED
        BY <4>1, <4>2, <4>3, <3>4
    <3> QED
      BY <3>3, <3>5, <2>2
  <2> QED
    BY <2>3, <2>4
<1> QED
  BY <1>2, <1>3

---------------------------------------------------------------------------
(* What a visitor is answered (ExtForward).                                 *)

Places == {"relay", "head", "body", "fetch", "pipe", "opening", "accepting", "bridge", "done"}
BackendStates == {"none", "connecting", "open", "closing", "failed", "closed"}
Parts == Heads \union {"body", "bytes", "chunk", "terminator", "frame", "close-frame", "pong"}

ForwardTypeOK ==
  /\ pc \in [Streams -> Places] /\ out \in [Streams -> Seq(Parts)]
  /\ closed \in [Streams -> BOOLEAN] /\ responded \in [Streams -> BOOLEAN]
  /\ backend \in [Streams -> BackendStates]
  /\ said \in [Streams -> Talks \union {Silent}]

HeadsIn(o) == {i \in 1..Len(o) : o[i] \in Heads}
\* a plain answer so far: a head, and only what the head announces
Delimited(o) ==
  \A i \in 1..Len(o) :
    /\ o[i] \in Heads <=> i = 1
    /\ o[i] = "bytes" => o[1] = "length-head"
    /\ o[i] \in {"chunk", "terminator"} => o[1] = "chunked-head"
    /\ o[i] = "terminator" => i = Len(o)
\* an answer whose body is on its way
Piped(o) ==
  /\ Len(o) >= 1 /\ o[1] \in {"length-head", "chunked-head"}
  /\ \A i \in 2..Len(o) : o[i] = IF o[1] = "chunked-head" THEN "chunk" ELSE "bytes"

\* A stream with request r at place p, o sent, closed or not (c), the flag responded (a)
\* and its backend's socket in state b: a head is still to come where the code will send
\* one, and the flag is what keeps a bridge from a second.
Orderly(r, p, o, c, a, b) ==
  /\ p \in {"relay", "head", "body", "fetch", "opening"} => o = <<>>
  /\ p \in {"relay", "head", "body", "fetch", "pipe"} => b = "none"
  /\ p \in {"fetch", "pipe"} => ~r.upgrade
  /\ p \in {"accepting", "bridge"} => b # "none"
  /\ b # "none" => r.upgrade
  /\ p = "opening" <=> b = "connecting"
  /\ b \in {"none", "connecting"} => ~a
  /\ p = "accepting" /\ a => c
  /\ p = "bridge" => a
  /\ ~a /\ b # "none" => HeadsIn(o) = {}
  /\ p = "pipe" => Piped(o)
  /\ ~r.upgrade => Delimited(o)
  /\ \A i, j \in HeadsIn(o) : i = j

StreamOrderly(s) == Orderly(req[s], pc[s], out[s], closed[s], responded[s], backend[s])
ForwardInv == ForwardTypeOK /\ \A s \in Streams : StreamOrderly(s)

\* What sequences of parts come to.
LEMMA NoHeads ==
  ASSUME NEW o \in Seq(Parts), NEW more \in Seq(Parts \ Heads)
  PROVE  o \o more \in Seq(Parts) /\ HeadsIn(o \o more) = HeadsIn(o)
<1>1. more \in Seq(Parts) /\ o \o more \in Seq(Parts)
  BY SeqMonotonic, ConcatProperties
<1>2. \A i \in 1..Len(more) : more[i] \notin Heads
  BY ElementOfSeq
<1>3. Len(o \o more) = Len(o) + Len(more) /\ Len(o) \in Nat /\ Len(more) \in Nat
  BY <1>1
<1>4. \A i \in 1..Len(o) : (o \o more)[i] = o[i]
  BY <1>1
<1>5. \A i \in (Len(o) + 1)..(Len(o) + Len(more)) : (o \o more)[i] = more[i - Len(o)] /\ i - Len(o) \in 1..Len(more)
  BY <1>1
<1>6. ASSUME NEW i \in 1..Len(o \o more) PROVE (o \o more)[i] \in Heads <=> i \in 1..Len(o) /\ o[i] \in Heads
  <2>1. CASE i <= Len(o)
    BY <2>1, <1>3, <1>4
  <2>2. CASE ~(i <= Len(o))
    BY <2>2, <1>2, <1>3, <1>5
  <2> QED
    BY <2>1, <2>2
<1> QED
  BY <1>1, <1>3, <1>6 DEF HeadsIn

\* An answer without a head has one after a head is written.
LEMMA OneHead ==
  ASSUME NEW o \in Seq(Parts), HeadsIn(o) = {}, NEW h \in Heads
  PROVE  o \o <<h>> \in Seq(Parts) /\ \A i, j \in HeadsIn(o \o <<h>>) : i = j
<1>1. h \in Parts /\ <<h>> \in Seq(Parts)
  BY DEF Parts
<1>2. o \o <<h>> \in Seq(Parts) /\ Len(o \o <<h>>) = Len(o) + 1 /\ Len(o) \in Nat
  BY <1>1
<1>3. \A i \in 1..Len(o) : (o \o <<h>>)[i] = o[i]
  BY <1>1
<1>4. \A i \in HeadsIn(o \o <<h>>) : i = Len(o) + 1
  BY <1>2, <1>3 DEF HeadsIn
<1> QED
  BY <1>2, <1>4

\* A write: it takes place, or the stream refuses it.
LEMMA WriteTakesOrNot ==
  ASSUME ForwardTypeOK, NEW s \in Streams, NEW what \in Seq(Parts), Written(s, what)
  PROVE  /\ out' \in [Streams -> Seq(Parts)]
         /\ \A q \in Streams \ {s} : out'[q] = out[q]
         /\ out'[s] \in {out[s], out[s] \o what}
         /\ Writable(s) => out'[s] = out[s] \o what
         /\ ~Writable(s) => out'[s] = out[s]
<1>1. out[s] \o what \in Seq(Parts)
  BY ConcatProperties DEF ForwardTypeOK
<1> QED
  BY <1>1 DEF ForwardTypeOK, Written

\* A step of one stream.  Of the others at most a socket begins to close.
Moved(s) ==
  /\ req' = req
  /\ \A q \in Streams \ {s} :
       /\ pc'[q] = pc[q] /\ out'[q] = out[q] /\ closed'[q] = closed[q] /\ responded'[q] = responded[q]
       /\ backend'[q] = backend[q] \/ (backend[q] = "open" /\ backend'[q] = "closing")

\* A step of one stream that is orderly after it keeps the invariant of all.
LEMMA StepOfOne ==
  ASSUME ForwardInv, NEW s \in Streams, ForwardTypeOK', Moved(s), StreamOrderly(s)'
  PROVE  ForwardInv'
<1>1. ASSUME NEW q \in Streams \ {s} PROVE StreamOrderly(q)'
  <2>1. StreamOrderly(q)
    BY DEF ForwardInv
  <2>2. /\ req'[q] = req[q] /\ pc'[q] = pc[q] /\ out'[q] = out[q] /\ closed'[q] = closed[q]
        /\ responded'[q] = responded[q]
        /\ backend'[q] = backend[q] \/ (backend[q] = "open" /\ backend'[q] = "closing")
    BY DEF Moved
  <2>3. CASE backend'[q] = backend[q]
    BY <2>1, <2>2, <2>3 DEF StreamOrderly
  <2>4. CASE backend[q] = "open" /\ backend'[q] = "closing"
    <3>1. ASSUME NEW r, NEW p, NEW o, NEW c, NEW a, Orderly(r, p, o, c, a, "open") PROVE Orderly(r, p, o, c, a, "closing")
      BY <3>1 DEF Orderly
    <3> QED
      BY <2>1, <2>2, <2>4, <3>1 DEF StreamOrderly
  <2> QED
    BY <2>2, <2>3, <2>4
<1> QED
  BY <1>1 DEF ForwardInv

\* The shortest answers.
LEMMA HeadAlone ==
  ASSUME NEW h \in Heads
  PROVE  /\ <<h>> \in Seq(Parts) /\ Delimited(<<h>>) /\ HeadsIn(<<h>>) = {1}
         /\ h \in {"length-head", "chunked-head"} => Piped(<<h>>)
<1> DEFINE o == <<h>>
<1>1. o \in Seq(Parts) /\ Len(o) = 1 /\ o[1] = h
  BY DEF Parts
<1> HIDE DEF o
<1>2. h # "bytes" /\ h # "chunk" /\ h # "terminator"
  BY DEF Heads
<1>3. Delimited(o) /\ HeadsIn(o) = {1}
  BY <1>1, <1>2 DEF Delimited, HeadsIn
<1>4. h \in {"length-head", "chunked-head"} => Piped(o)
  BY <1>1 DEF Piped
<1> QED
  BY <1>1, <1>3, <1>4 DEF o

\* The answers that the forwarder makes itself have one head and are delimited.
LEMMA ShortAnswers ==
  ASSUME NEW what \in {<<>>, <<"401">>, <<"302">>, <<"502", "body">>}
  PROVE  what \in Seq(Parts) /\ Delimited(what) /\ \A i, j \in HeadsIn(what) : i = j
<1>1. "401" \in Heads /\ "302" \in Heads /\ "502" \in Heads /\ "body" \notin Heads /\ "body" \in Parts /\ "502" \in Parts
  BY DEF Heads, Parts
<1>2. CASE what = <<>>
  <2>1. what \in Seq(Parts) /\ Len(what) = 0
    BY <1>2
  <2> QED
    BY <2>1 DEF Delimited, HeadsIn
<1>3. ASSUME NEW h \in Heads, what = <<h>> PROVE what \in Seq(Parts) /\ Delimited(what) /\ \A i, j \in HeadsIn(what) : i = j
  BY <1>3, HeadAlone
<1>4. CASE what = <<"502", "body">>
  <2>1. what \in Seq(Parts) /\ Len(what) = 2 /\ what[1] = "502" /\ what[2] = "body"
    BY <1>1, <1>4
  <2>2. ASSUME NEW i \in 1..Len(what) PROVE i \in {1, 2}
    BY <2>1
  <2> HIDE <1>4
  <2>3. Delimited(what)
    BY <1>1, <2>1, <2>2 DEF Delimited
  <2>4. \A i \in HeadsIn(what) : i = 1
    BY <1>1, <2>1, <2>2 DEF HeadsIn
  <2> QED
    BY <2>1, <2>3, <2>4
<1> QED
  BY <1>1, <1>2, <1>3, <1>4

\* What is written to a stream that got nothing yet is all that it got.
LEMMA FirstWrite ==
  ASSUME ForwardTypeOK, NEW s \in Streams, out[s] = <<>>, NEW what \in Seq(Parts), Written(s, what)
  PROVE  /\ out' \in [Streams -> Seq(Parts)] /\ \A q \in Streams \ {s} : out'[q] = out[q]
         /\ out'[s] \in {<<>>, what}
         /\ Writable(s) => out'[s] = what
<1>1. <<>> \o what = what
  BY ConcatEmptySeq
<1> QED
  BY <1>1, WriteTakesOrNot

\* Before the answer: the request is read, or the visitor sends, says something or leaves.
LEMMA RequestSteps ==
  ASSUME ForwardInv, NEW s \in Streams,
         Arrive(s) \/ VisitorFrames(s) \/ VisitorLeaves(s) \/ ReadChunk(s) \/ RelayRead(s) \/ HeadRead(s)
  PROVE  ForwardInv'
<1> USE DEF ForwardInv, ForwardTypeOK
<1>1. /\ req' = req /\ out' = out /\ closed' = closed /\ responded' = responded /\ backend' = backend
      /\ said' \in [Streams -> Talks \union {Silent}]
  BY DEF Arrive, VisitorFrames, VisitorLeaves, ReadChunk, RelayRead, HeadRead, stream, socket
<1>2. \/ pc' = pc
      \/ pc[s] = "relay" /\ pc' = [pc EXCEPT ![s] = "head"]
      \/ pc[s] = "head" /\ pc' = [pc EXCEPT ![s] = "body"]
  BY DEF Arrive, VisitorFrames, VisitorLeaves, ReadChunk, RelayRead, HeadRead, stream, socket
<1>3. Moved(s) /\ ForwardTypeOK'
  BY <1>1, <1>2 DEF Moved, Places
<1>4. StreamOrderly(s)'
  <2>1. StreamOrderly(s)
    OBVIOUS
  <2>2. pc'[s] = pc[s] \/ (pc[s] = "relay" /\ pc'[s] = "head") \/ (pc[s] = "head" /\ pc'[s] = "body")
    BY <1>2
  <2> QED
    BY <1>1, <2>1, <2>2 DEF StreamOrderly, Orderly
<1> QED
  BY <1>3, <1>4, StepOfOne

\* The request is over: cut short, refused, bridged or fetched.
LEMMA RequestEnds ==
  ASSUME ForwardInv, NEW s \in Streams, ReadEnds(s) \/ Dispatch(s)
  PROVE  ForwardInv'
<1>0. ForwardTypeOK /\ StreamOrderly(s)
  BY DEF ForwardInv
<1>1. CASE ReadEnds(s)
  <2>1. /\ req' = req /\ said' = said /\ out' = out /\ backend' = backend /\ responded' = responded
        /\ pc[s] \in {"relay", "head", "body"} /\ pc' = [pc EXCEPT ![s] = "done"] /\ closed' = [closed EXCEPT ![s] = TRUE]
    BY <1>1 DEF ReadEnds, CloseStream, Finish, stream, socket
  <2>2. Moved(s) /\ ForwardTypeOK'
    BY <1>0, <2>1 DEF ForwardTypeOK, Moved, Places
  <2>3. pc'[s] = "done" /\ out'[s] = out[s] /\ backend'[s] = backend[s] /\ responded'[s] = responded[s]
    BY <1>0, <2>1 DEF ForwardTypeOK
  <2>4. StreamOrderly(s)'
    BY <1>0, <2>1, <2>3 DEF ForwardTypeOK, StreamOrderly, Orderly
  <2> QED
    BY <2>2, <2>4, StepOfOne
<1>2. CASE Dispatch(s)
  <2>1. req' = req /\ said' = said /\ responded' = responded /\ pc[s] = "body" /\ out[s] = <<>> /\ backend[s] = "none"
    BY <1>0, <1>2 DEF Dispatch, stream, StreamOrderly, Orderly
  <2>2. CASE pc' = [pc EXCEPT ![s] = "opening"] /\ backend' = [backend EXCEPT ![s] = "connecting"]
             /\ req[s].upgrade /\ closed' = closed /\ out' = out
    <3>1. Moved(s) /\ ForwardTypeOK'
      BY <1>0, <2>1, <2>2 DEF ForwardTypeOK, Moved, Places, BackendStates
    <3>2. StreamOrderly(s)'
      <4>1. ~responded[s] \/ responded[s]
        OBVIOUS
      <4> QED
        BY <1>0, <2>1, <2>2 DEF ForwardTypeOK, StreamOrderly, Orderly, HeadsIn
    <3> QED
      BY <3>1, <3>2, StepOfOne
  <2>3. CASE pc' = [pc EXCEPT ![s] = "fetch"] /\ ~req[s].upgrade /\ closed' = closed /\ out' = out /\ backend' = backend
    <3>1. Moved(s) /\ ForwardTypeOK'
      BY <1>0, <2>1, <2>3 DEF ForwardTypeOK, Moved, Places
    <3>2. StreamOrderly(s)'
      BY <1>0, <2>1, <2>3 DEF ForwardTypeOK, StreamOrderly, Orderly
    <3> QED
      BY <3>1, <3>2, StepOfOne
  <2>4. CASE /\ Written(s, <<"401">>) /\ pc' = [pc EXCEPT ![s] = "done"]
             /\ closed' = [closed EXCEPT ![s] = TRUE] /\ backend' = backend
    <3>1. <<"401">> \in Seq(Parts)
      BY DEF Parts, Heads
    <3>2. /\ out' \in [Streams -> Seq(Parts)] /\ \A q \in Streams \ {s} : out'[q] = out[q]
          /\ out'[s] \in {<<>>, <<"401">>}
      BY <1>0, <2>1, <2>4, <3>1, FirstWrite
    <3>3. Moved(s) /\ ForwardTypeOK'
      BY <1>0, <2>1, <2>4, <3>2 DEF ForwardTypeOK, Moved, Places
    <3>4. Delimited(out'[s]) /\ \A i, j \in HeadsIn(out'[s]) : i = j
      BY <3>2, ShortAnswers
    <3>5. StreamOrderly(s)'
      BY <1>0, <2>1, <2>4, <3>4 DEF ForwardTypeOK, StreamOrderly, Orderly
    <3> QED
      BY <3>3, <3>5, StepOfOne
  <2> QED
    BY <1>2, <2>2, <2>3, <2>4 DEF Dispatch, Finish
<1> QED
  BY <1>1, <1>2

\* A plain request: each of the parts that may be written keeps the answer in order.
LEMMA PipedGrows ==
  ASSUME NEW o \in Seq(Parts), Piped(o)
  PROVE  /\ Delimited(o)
         /\ LET part == IF o[1] = "chunked-head" THEN "chunk" ELSE "bytes" IN Piped(o \o <<part>>)
         /\ o[1] = "chunked-head" => Delimited(o \o <<"terminator">>)
<1> DEFINE part == IF o[1] = "chunked-head" THEN "chunk" ELSE "bytes"
<1>1. Len(o) \in Nat /\ Len(o) >= 1 /\ \A i \in 2..Len(o) : o[i] = part
  BY DEF Piped
<1>2. o[1] \in {"length-head", "chunked-head"} /\ o[1] \in Heads
  BY DEF Piped, Heads
<1>3. part \in {"chunk", "bytes"} /\ part \notin Heads /\ "terminator" \notin Heads
  BY DEF Heads
<1>4. Delimited(o)
  <2>1. ASSUME NEW i \in 1..Len(o)
        PROVE  /\ o[i] \in Heads <=> i = 1
               /\ o[i] = "bytes" => o[1] = "length-head"
               /\ o[i] \in {"chunk", "terminator"} => o[1] = "chunked-head"
               /\ o[i] = "terminator" => i = Len(o)
    <3>1. CASE i = 1
      BY <1>2, <3>1
    <3>2. CASE i # 1
      <4>1. o[i] = part
        BY <1>1, <3>2
      <4> QED
        BY <4>1, <1>2, <1>3, <3>2
    <3> QED
      BY <3>1, <3>2
  <2> QED
    BY <2>1 DEF Delimited
<1>5. ASSUME NEW x \in {"chunk", "bytes", "terminator"}
      PROVE  /\ Len(o \o <<x>>) = Len(o) + 1 /\ (o \o <<x>>)[Len(o) + 1] = x
             /\ \A i \in 1..Len(o) : (o \o <<x>>)[i] = o[i]
  <2>1. <<x>> \in Seq(Parts)
    BY DEF Parts
  <2> QED
    BY <2>1, <1>1
<1>6. Piped(o \o <<part>>)
  <2>1. (o \o <<part>>)[1] = o[1]
    BY <1>1, <1>3, <1>5
  <2>2. ASSUME NEW i \in 2..Len(o \o <<part>>) PROVE (o \o <<part>>)[i] = part
    <3>1. i \in 2..(Len(o) + 1)
      BY <1>3, <1>5
    <3>2. CASE i = Len(o) + 1
      BY <1>3, <1>5, <3>2
    <3>3. CASE i # Len(o) + 1
      BY <1>1, <1>3, <1>5, <3>1, <3>3
    <3> QED
      BY <3>2, <3>3
  <2>3. Len(o \o <<part>>) >= 1
    BY <1>1, <1>3, <1>5
  <2> QED
    BY <1>2, <2>1, <2>2, <2>3 DEF Piped
<1>7. ASSUME o[1] = "chunked-head" PROVE Delimited(o \o <<"terminator">>)
  <2> DEFINE t == o \o <<"terminator">>
  <2>1. Len(t) = Len(o) + 1 /\ t[Len(o) + 1] = "terminator" /\ \A i \in 1..Len(o) : t[i] = o[i]
    BY <1>5
  <2>2. t[1] = "chunked-head"
    BY <1>1, <1>7, <2>1
  <2> HIDE DEF t
  <2>3. ASSUME NEW i \in 1..Len(t)
        PROVE  /\ t[i] \in Heads <=> i = 1
               /\ t[i] = "bytes" => t[1] = "length-head"
               /\ t[i] \in {"chunk", "terminator"} => t[1] = "chunked-head"
               /\ t[i] = "terminator" => i = Len(t)
    <3>1. CASE i = 1
      BY <1>2, <1>7, <2>2, <3>1
    <3>2. CASE i = Len(o) + 1
      BY <1>1, <1>3, <2>1, <2>2, <3>2
    <3>3. CASE i # 1 /\ i # Len(o) + 1
      <4>1. i \in 2..Len(o) /\ i \in 1..Len(o)
        BY <1>1, <2>1, <3>3
      <4>2. t[i] = "chunk"
        BY <1>1, <1>7, <2>1, <4>1
      <4> QED
        BY <4>1, <4>2, <1>3, <1>7, <2>2
    <3> QED
      BY <3>1, <3>2, <3>3
  <2>4. Delimited(t)
    BY <2>3 DEF Delimited
  <2> QED
    BY <2>4 DEF t
<1> QED
  BY <1>4, <1>6, <1>7

\* A fetch that fails, is redirected or gets its head keeps every answer orderly.
LEMMA FetchSteps ==
  ASSUME ForwardInv, NEW s \in Streams, FetchFails(s) \/ Redirected(s) \/ WriteHead(s)
  PROVE  ForwardInv'
<1>0. ForwardTypeOK /\ StreamOrderly(s)
  BY DEF ForwardInv
<1>1. /\ req' = req /\ said' = said /\ backend' = backend /\ responded' = responded /\ pc[s] = "fetch"
      /\ out[s] = <<>> /\ backend[s] = "none" /\ ~req[s].upgrade /\ ~responded[s]
  BY <1>0 DEF FetchFails, Redirected, Answer, WriteHead, stream, socket, StreamOrderly, Orderly
<1>2. ASSUME NEW what \in {<<"502", "body">>, <<"302">>}, Answer(s, what) PROVE ForwardInv'
  <2>1. what \in Seq(Parts)
    BY ShortAnswers
  <2>2. /\ out' \in [Streams -> Seq(Parts)] /\ \A q \in Streams \ {s} : out'[q] = out[q]
        /\ out'[s] \in {<<>>, what}
    BY <1>0, <1>1, <1>2, <2>1, FirstWrite DEF Answer
  <2>3. pc' = [pc EXCEPT ![s] = "done"] /\ closed' = [closed EXCEPT ![s] = TRUE]
    BY <1>2 DEF Answer, CloseStream, Finish
  <2>4. Moved(s) /\ ForwardTypeOK'
    BY <1>0, <1>1, <2>2, <2>3 DEF ForwardTypeOK, Moved, Places
  <2>5. Delimited(out'[s]) /\ \A i, j \in HeadsIn(out'[s]) : i = j
    BY <2>2, ShortAnswers
  <2>6. StreamOrderly(s)'
    BY <1>0, <1>1, <2>3, <2>5 DEF ForwardTypeOK, StreamOrderly, Orderly
  <2> QED
    BY <2>4, <2>6, StepOfOne
<1>3. CASE WriteHead(s)
  <2>1. CASE out' = out /\ pc' = [pc EXCEPT ![s] = "done"] /\ closed' = [closed EXCEPT ![s] = TRUE]
    <3>1. Moved(s) /\ ForwardTypeOK'
      BY <1>0, <1>1, <2>1 DEF ForwardTypeOK, Moved, Places
    <3>2. StreamOrderly(s)'
      BY <1>0, <1>1, <2>1 DEF ForwardTypeOK, StreamOrderly, Orderly
    <3> QED
      BY <3>1, <3>2, StepOfOne
  <2>2. ASSUME NEW h \in {"length-head", "chunked-head"}, Writable(s), Written(s, <<h>>),
               pc' = [pc EXCEPT ![s] = "pipe"], closed' = closed
        PROVE  ForwardInv'
    <3>1. h \in Heads /\ <<h>> \in Seq(Parts)
      BY HeadAlone DEF Heads
    <3>2. /\ out' \in [Streams -> Seq(Parts)] /\ \A q \in Streams \ {s} : out'[q] = out[q]
          /\ out'[s] = <<h>>
      BY <1>0, <1>1, <2>2, <3>1, FirstWrite
    <3>3. Moved(s) /\ ForwardTypeOK'
      BY <1>0, <1>1, <2>2, <3>2 DEF ForwardTypeOK, Moved, Places
    <3>4. Piped(out'[s]) /\ Delimited(out'[s]) /\ \A i, j \in HeadsIn(out'[s]) : i = j
      <4>1. Piped(<<h>>) /\ Delimited(<<h>>) /\ HeadsIn(<<h>>) = {1}
        BY <3>1, HeadAlone
      <4>2. \A i, j \in HeadsIn(<<h>>) : i = j
        BY <4>1
      <4> QED
        BY <3>2, <4>1, <4>2
    <3>5. pc'[s] = "pipe"
      BY <1>0, <2>2 DEF ForwardTypeOK
    <3>6. StreamOrderly(s)'
      BY <1>1, <3>4, <3>5 DEF StreamOrderly, Orderly
    <3> QED
      BY <3>3, <3>6, StepOfOne
  <2> QED
    BY <1>3, <2>1, <2>2 DEF WriteHead, Abandon, CloseStream, Finish
<1> QED
  BY <1>2, <1>3 DEF FetchFails, Redirected

\* A list of one or of none is a list.
LEMMA OneOrNone ==
  ASSUME NEW S, NEW x \in S, NEW c
  PROVE  (IF c THEN <<x>> ELSE <<>>) \in Seq(S)
<1>1. <<x>> \in Seq(S) /\ <<>> \in Seq(S)
  OBVIOUS
<1>2. (IF c THEN <<x>> ELSE <<>>) \in {<<x>>, <<>>}
  BY Zenon
<1> QED
  BY <1>1, <1>2, Zenon

\* A delimited answer has one head.
LEMMA DelimitedOnce ==
  ASSUME NEW o, Delimited(o)
  PROVE  \A i, j \in HeadsIn(o) : i = j
BY DEF Delimited, HeadsIn

\* The body of the answer, its end, or its break.
LEMMA PipeSteps ==
  ASSUME ForwardInv, NEW s \in Streams, PipeBody(s) \/ PipeEnds(s) \/ PipeBreaks(s)
  PROVE  ForwardInv'
<1>0. ForwardTypeOK /\ StreamOrderly(s)
  BY DEF ForwardInv
<1>1. /\ req' = req /\ said' = said /\ backend' = backend /\ responded' = responded /\ pc[s] = "pipe"
      /\ backend[s] = "none" /\ ~req[s].upgrade /\ Piped(out[s]) /\ Delimited(out[s]) /\ ~responded[s]
  BY <1>0 DEF PipeBody, PipeEnds, PipeBreaks, stream, socket, StreamOrderly, Orderly
<1>2. out[s] \in Seq(Parts)
  BY <1>0 DEF ForwardTypeOK
\* the handler is done, with an answer that is in order
<1>3. ASSUME pc' = [pc EXCEPT ![s] = "done"], closed' = [closed EXCEPT ![s] = TRUE],
             out' \in [Streams -> Seq(Parts)], \A q \in Streams \ {s} : out'[q] = out[q], Delimited(out'[s])
      PROVE  ForwardInv'
  <2>1. Moved(s) /\ ForwardTypeOK'
    BY <1>0, <1>1, <1>3 DEF ForwardTypeOK, Moved, Places
  <2>2. pc'[s] = "done" /\ \A i, j \in HeadsIn(out'[s]) : i = j
    BY <1>0, <1>3, DelimitedOnce DEF ForwardTypeOK
  <2>3. StreamOrderly(s)'
    BY <1>1, <1>3, <2>2 DEF StreamOrderly, Orderly
  <2> QED
    BY <2>1, <2>3, StepOfOne
<1>4. CASE Abandon(s)
  BY <1>0, <1>1, <1>3, <1>4 DEF ForwardTypeOK, Abandon, CloseStream, Finish
<1>5. CASE PipeEnds(s)
  <2> DEFINE end == IF Chunked(s) THEN <<"terminator">> ELSE <<>>
  <2>1. end \in Seq(Parts)
    <3>1. "terminator" \in Parts
      BY DEF Parts
    <3> QED
      BY <3>1, OneOrNone, Zenon
  <2>2. /\ out' \in [Streams -> Seq(Parts)] /\ \A q \in Streams \ {s} : out'[q] = out[q]
        /\ out'[s] \in {out[s], out[s] \o end}
    BY <1>0, <1>5, <2>1, WriteTakesOrNot DEF PipeEnds
  <2>3. Delimited(out[s] \o end)
    <3>1. CASE Chunked(s)
      BY <1>1, <1>2, <3>1, PipedGrows DEF Chunked
    <3>2. CASE ~Chunked(s)
      <4>1. out[s] \o end = out[s]
        BY <1>2, <3>2, ConcatEmptySeq
      <4> QED
        BY <4>1, <1>1
    <3> QED
      BY <3>1, <3>2
  <2>4. pc' = [pc EXCEPT ![s] = "done"] /\ closed' = [closed EXCEPT ![s] = TRUE]
    BY <1>5 DEF PipeEnds, CloseStream, Finish
  <2> HIDE DEF end
  <2> QED
    BY <1>1, <1>3, <2>2, <2>3, <2>4
<1>6. CASE /\ Writable(s) /\ Written(s, <<IF Chunked(s) THEN "chunk" ELSE "bytes">>)
           /\ closed' = closed /\ pc' = pc
  <2> DEFINE part == IF out[s][1] = "chunked-head" THEN "chunk" ELSE "bytes"
  <2>1. <<part>> \in Seq(Parts) /\ Written(s, <<part>>)
    BY <1>6 DEF Parts, Chunked
  <2>2. /\ out' \in [Streams -> Seq(Parts)] /\ \A q \in Streams \ {s} : out'[q] = out[q]
        /\ out'[s] = out[s] \o <<part>>
    BY <1>0, <1>6, <2>1, WriteTakesOrNot
  <2>3. Piped(out'[s]) /\ out'[s] \in Seq(Parts)
    BY <1>1, <1>2, <2>2, PipedGrows
  <2>4. Delimited(out'[s]) /\ \A i, j \in HeadsIn(out'[s]) : i = j
    BY <2>3, PipedGrows, DelimitedOnce
  <2>5. Moved(s) /\ ForwardTypeOK'
    BY <1>0, <1>1, <1>6, <2>2 DEF ForwardTypeOK, Moved
  <2>6. StreamOrderly(s)'
    BY <1>1, <1>6, <2>3, <2>4 DEF StreamOrderly, Orderly
  <2> QED
    BY <2>5, <2>6, StepOfOne
<1> QED
  BY <1>4, <1>5, <1>6 DEF PipeBody, PipeBreaks

\* A bridge is opened and answered.
LEMMA BridgeOpens ==
  ASSUME ForwardInv, NEW s \in Streams, BackendOpens(s) \/ Accept(s)
  PROVE  ForwardInv'
<1>0. ForwardTypeOK /\ StreamOrderly(s) /\ out[s] \in Seq(Parts)
  BY DEF ForwardInv, ForwardTypeOK
<1>1. req' = req /\ said' = said /\ closed' = closed
  BY DEF BackendOpens, Accept, stream
<1>2. CASE BackendOpens(s)
  <2>1. /\ backend[s] = "connecting" /\ backend' = [backend EXCEPT ![s] = "open"]
        /\ pc' = [pc EXCEPT ![s] = "accepting"] /\ out' = out /\ responded' = responded
    BY <1>2 DEF BackendOpens
  <2>2. Moved(s) /\ ForwardTypeOK'
    BY <1>0, <1>1, <2>1 DEF ForwardTypeOK, Moved, Places, BackendStates
  <2>3. backend'[s] = "open" /\ pc'[s] = "accepting" /\ ~responded[s] /\ HeadsIn(out[s]) = {} /\ req[s].upgrade
    BY <1>0, <2>1 DEF ForwardTypeOK, StreamOrderly, Orderly
  <2>4. StreamOrderly(s)'
    BY <1>1, <2>1, <2>3 DEF StreamOrderly, Orderly
  <2> QED
    BY <2>2, <2>4, StepOfOne
<1>3. CASE Accept(s)
  <2>1. /\ pc[s] = "accepting" /\ backend[s] \notin {"none", "connecting"} /\ req[s].upgrade
        /\ responded[s] => closed[s]
        /\ ~responded[s] => HeadsIn(out[s]) = {}
        /\ \A i, j \in HeadsIn(out[s]) : i = j
    BY <1>0, <1>3 DEF Accept, StreamOrderly, Orderly
  <2>2. CASE /\ Writable(s) /\ Written(s, <<"101">>) /\ responded' = [responded EXCEPT ![s] = TRUE]
             /\ pc' = [pc EXCEPT ![s] = "bridge"] /\ backend' = backend
    <3>1. HeadsIn(out[s]) = {} /\ "101" \in Heads
      BY <2>1, <2>2 DEF Writable, Heads
    <3>2. <<"101">> \in Seq(Parts)
      BY <3>1, HeadAlone
    <3>3. /\ out' \in [Streams -> Seq(Parts)] /\ \A q \in Streams \ {s} : out'[q] = out[q]
          /\ out'[s] = out[s] \o <<"101">>
      BY <1>0, <2>2, <3>2, WriteTakesOrNot
    <3>4. \A i, j \in HeadsIn(out'[s]) : i = j
      BY <1>0, <3>1, <3>3, OneHead
    <3>5. Moved(s) /\ ForwardTypeOK'
      BY <1>0, <1>1, <2>2, <3>3 DEF ForwardTypeOK, Moved, Places
    <3>6. pc'[s] = "bridge" /\ responded'[s]
      BY <1>0, <2>2 DEF ForwardTypeOK
    <3>7. StreamOrderly(s)'
      BY <1>1, <2>1, <2>2, <3>4, <3>6 DEF StreamOrderly, Orderly
    <3> QED
      BY <3>5, <3>7, StepOfOne
  <2>3. CASE /\ pc' = [pc EXCEPT ![s] = "done"] /\ out' = out /\ responded' = responded
             /\ backend' = [backend EXCEPT ![s] = IF @ = "closed" THEN @ ELSE "closing"]
    <3>1. Moved(s) /\ ForwardTypeOK'
      BY <1>0, <1>1, <2>3 DEF ForwardTypeOK, Moved, Places, BackendStates
    <3>2. pc'[s] = "done" /\ backend'[s] \in {"closed", "closing"}
      BY <1>0, <2>3 DEF ForwardTypeOK
    <3>3. StreamOrderly(s)'
      BY <1>1, <2>1, <2>3, <3>2 DEF StreamOrderly, Orderly
    <3> QED
      BY <3>1, <3>3, StepOfOne
  <2> QED
    BY <1>3, <2>2, <2>3 DEF Accept, Finish
<1> QED
  BY <1>2, <1>3

\* What onerror and onclose write: never a second head.
LEMMA BackendEndsOnce ==
  ASSUME ForwardInv, NEW s \in Streams, backend[s] \notin {"none"}, BackendEnds(s)
  PROVE  /\ out' \in [Streams -> Seq(Parts)] /\ \A q \in Streams \ {s} : out'[q] = out[q]
         /\ \A i, j \in HeadsIn(out'[s]) : i = j
         /\ responded' = [responded EXCEPT ![s] = TRUE] /\ closed' = [closed EXCEPT ![s] = TRUE]
<1> DEFINE bye == IF Has(s) THEN <<"close-frame">> ELSE <<>>
           sorry == IF responded[s] THEN <<>> ELSE <<"502">>
<1>0. ForwardTypeOK /\ StreamOrderly(s) /\ out[s] \in Seq(Parts)
  BY DEF ForwardInv, ForwardTypeOK
<1>1. bye \in Seq(Parts \ Heads) /\ "502" \in Heads
  <2>1. "close-frame" \in Parts \ Heads /\ "502" \in Heads
    BY DEF Parts, Heads
  <2>2. bye \in Seq(Parts \ Heads)
    BY <2>1, OneOrNone, Zenon
  <2> QED
    BY <2>1, <2>2
<1>2. bye \in Seq(Parts) /\ sorry \in Seq(Parts)
  <2>1. "502" \in Parts /\ <<"502">> \in Seq(Parts) /\ <<>> \in Seq(Parts)
    BY DEF Parts, Heads
  <2>2. sorry \in {<<>>, <<"502">>}
    BY Zenon
  <2>3. sorry \in Seq(Parts)
    BY <2>1, <2>2, Zenon
  <2>4. bye \in Seq(Parts)
    BY <1>1, SeqMonotonic, Zenon
  <2> QED
    BY <2>3, <2>4
<1>3. Written(s, bye \o sorry)
  BY DEF BackendEnds
<1>4. responded' = [responded EXCEPT ![s] = TRUE] /\ closed' = [closed EXCEPT ![s] = TRUE]
  BY DEF BackendEnds, CloseStream
<1>5. /\ \A i, j \in HeadsIn(out[s]) : i = j
      /\ ~responded[s] => HeadsIn(out[s]) = {}
  BY <1>0 DEF StreamOrderly, Orderly
<1>6. responded[s] => sorry = <<>>
  OBVIOUS
<1>7. ~responded[s] => sorry = <<"502">>
  OBVIOUS
<1> HIDE DEF bye, sorry
<1>8. bye \o sorry \in Seq(Parts)
  BY <1>2, ConcatProperties
<1>9. /\ out' \in [Streams -> Seq(Parts)] /\ \A q \in Streams \ {s} : out'[q] = out[q]
      /\ out'[s] \in {out[s], out[s] \o (bye \o sorry)}
  BY <1>0, <1>3, <1>8, WriteTakesOrNot
<1>10. /\ out[s] \o bye \in Seq(Parts) /\ HeadsIn(out[s] \o bye) = HeadsIn(out[s])
       /\ out[s] \o (bye \o sorry) = (out[s] \o bye) \o sorry
  <2>1. out[s] \o bye \in Seq(Parts) /\ HeadsIn(out[s] \o bye) = HeadsIn(out[s])
    BY <1>0, <1>1, NoHeads
  <2>2. ASSUME NEW x \in Seq(Parts), NEW y \in Seq(Parts), NEW z \in Seq(Parts)
        PROVE  x \o (y \o z) = (x \o y) \o z
    BY ConcatAssociative
  <2>3. out[s] \o (bye \o sorry) = (out[s] \o bye) \o sorry
    BY <1>0, <1>2, <2>2
  <2> QED
    BY <2>1, <2>3
<1>11. \A i, j \in HeadsIn(out[s] \o (bye \o sorry)) : i = j
  <2>1. CASE responded[s]
    BY <1>5, <1>6, <1>10, <2>1, ConcatEmptySeq
  <2>2. CASE ~responded[s]
    BY <1>1, <1>5, <1>7, <1>10, <2>2, OneHead
  <2> QED
    BY <2>1, <2>2
<1> QED
  BY <1>4, <1>5, <1>9, <1>11

\* What the WebSocket of the backend says to the bridge keeps every answer orderly.
LEMMA BackendSteps ==
  ASSUME ForwardInv, NEW s \in Streams, BackendError(s) \/ BackendClose(s) \/ BackendMessage(s)
  PROVE  ForwardInv'
<1>0. ForwardTypeOK /\ StreamOrderly(s) /\ out[s] \in Seq(Parts)
  BY DEF ForwardInv, ForwardTypeOK
<1>1. req' = req /\ said' = said
  BY DEF BackendError, BackendClose, BackendMessage, stream
<1>2. CASE BackendMessage(s)
  <2>1. /\ Written(s, <<"frame">>) /\ backend[s] = "open" /\ backend' = backend /\ pc' = pc
        /\ closed' = closed /\ responded' = responded
    BY <1>2 DEF BackendMessage, socket
  <2>2. <<"frame">> \in Seq(Parts \ Heads) /\ <<"frame">> \in Seq(Parts)
    BY DEF Parts, Heads
  <2>3. /\ out' \in [Streams -> Seq(Parts)] /\ \A q \in Streams \ {s} : out'[q] = out[q]
        /\ out'[s] \in {out[s], out[s] \o <<"frame">>}
    BY <1>0, <2>1, <2>2, WriteTakesOrNot
  <2>4. HeadsIn(out'[s]) = HeadsIn(out[s])
    BY <1>0, <2>2, <2>3, NoHeads
  <2>5. Moved(s) /\ ForwardTypeOK'
    BY <1>0, <1>1, <2>1, <2>3 DEF ForwardTypeOK, Moved
  <2>6. StreamOrderly(s)'
    BY <1>0, <1>1, <2>1, <2>4 DEF StreamOrderly, Orderly
  <2> QED
    BY <2>5, <2>6, StepOfOne
<1>3. CASE BackendError(s) \/ BackendClose(s)
  <2>1. backend[s] # "none" /\ BackendEnds(s)
    BY <1>3 DEF BackendError, BackendClose
  <2>2. /\ out' \in [Streams -> Seq(Parts)] /\ \A q \in Streams \ {s} : out'[q] = out[q]
        /\ \A i, j \in HeadsIn(out'[s]) : i = j
        /\ responded' = [responded EXCEPT ![s] = TRUE] /\ closed' = [closed EXCEPT ![s] = TRUE]
    BY <2>1, BackendEndsOnce
  <2>3. \/ /\ backend' = [backend EXCEPT ![s] = "failed"]
           /\ pc' = [pc EXCEPT ![s] = IF @ = "opening" THEN "done" ELSE @]
        \/ backend[s] # "connecting" /\ backend' = [backend EXCEPT ![s] = "closed"] /\ pc' = pc
    BY <1>3 DEF BackendError, BackendClose
  <2>4. Moved(s) /\ ForwardTypeOK'
    BY <1>0, <1>1, <2>2, <2>3 DEF ForwardTypeOK, Moved, Places, BackendStates
  <2>5. responded'[s] /\ closed'[s] /\ backend'[s] \in {"failed", "closed"}
    BY <1>0, <2>2, <2>3 DEF ForwardTypeOK
  <2>6. pc'[s] \in {"accepting", "bridge", "done"} /\ req[s].upgrade
    <3>1. /\ pc[s] \in {"opening", "accepting", "bridge", "done"} /\ req[s].upgrade
          /\ pc[s] = "opening" <=> backend[s] = "connecting"
      BY <1>0, <2>1 DEF ForwardTypeOK, StreamOrderly, Orderly, Places
    <3>2. pc'[s] = pc[s] \/ pc'[s] = "done"
      BY <1>0, <2>3 DEF ForwardTypeOK
    <3>3. pc'[s] # "opening"
      BY <1>0, <2>3, <3>1 DEF ForwardTypeOK
    <3> QED
      BY <3>1, <3>2, <3>3
  <2>7. StreamOrderly(s)'
    BY <1>1, <2>2, <2>5, <2>6 DEF StreamOrderly, Orderly
  <2> QED
    BY <2>4, <2>7, StepOfOne
<1> QED
  BY <1>2, <1>3

\* A bridged stream whose handler goes on, or is done.
LEMMA BridgeGoesOn ==
  ASSUME ForwardInv, NEW s \in Streams, pc[s] = "bridge",
         req' = req, said' = said, closed' = closed, responded' = responded,
         pc' = pc \/ pc' = [pc EXCEPT ![s] = "done"],
         out' \in [Streams -> Seq(Parts)], \A q \in Streams \ {s} : out'[q] = out[q],
         HeadsIn(out'[s]) = HeadsIn(out[s]),
         backend' = backend \/ \E b : Closing(b)
  PROVE  ForwardInv'
<1>0. ForwardTypeOK /\ StreamOrderly(s)
  BY DEF ForwardInv
<1>1. /\ backend' \in [Streams -> BackendStates]
      /\ \A q \in Streams : backend'[q] = backend[q] \/ (backend[q] = "open" /\ backend'[q] = "closing")
  <2>1. CASE backend' = backend
    BY <1>0, <2>1 DEF ForwardTypeOK
  <2>2. ASSUME NEW b, Closing(b)
        PROVE  /\ backend' \in [Streams -> BackendStates]
               /\ \A q \in Streams : backend'[q] = backend[q] \/ (backend[q] = "open" /\ backend'[q] = "closing")
    BY <1>0, <2>2 DEF ForwardTypeOK, Closing, BackendStates
  <2> QED
    BY <2>1, <2>2
<1>2. Moved(s) /\ ForwardTypeOK'
  BY <1>0, <1>1 DEF ForwardTypeOK, Moved, Places
<1>3. pc'[s] \in {"bridge", "done"} /\ backend'[s] \notin {"none", "connecting"} /\ responded[s] /\ req[s].upgrade
  BY <1>0, <1>1 DEF ForwardTypeOK, StreamOrderly, Orderly
<1>4. \A i, j \in HeadsIn(out'[s]) : i = j
  BY <1>0 DEF StreamOrderly, Orderly
<1>5. StreamOrderly(s)'
  BY <1>3, <1>4 DEF StreamOrderly, Orderly
<1> QED
  BY <1>2, <1>5, StepOfOne

\* How many events were relayed is a number.
LEMMA UptoCounts ==
  ASSUME NEW given, IsSequence(given), NEW U, U \subseteq 1..Len(given)
  PROVE  Cardinality(U) \in Nat
<1>1. Len(given) \in Nat
  BY DEF IsSequence
<1>2. IsFiniteSet(1..Len(given))
  BY <1>1, FS_Interval
<1> QED
  BY <1>2, FS_Subset, FS_CardinalityType

\* What the bridge relays of the peer keeps every answer orderly.
LEMMA RelaySteps ==
  ASSUME ForwardInv, NEW s \in Streams, RelayFrame(s) \/ RelayEnds(s)
  PROVE  ForwardInv'
<1>0. ForwardTypeOK /\ out[s] \in Seq(Parts) /\ pc[s] = "bridge"
  BY DEF ForwardInv, ForwardTypeOK, RelayFrame, RelayEnds
<1>1. req' = req /\ said' = said /\ closed' = closed /\ responded' = responded
  BY DEF RelayFrame, RelayEnds, stream
<1>2. CASE RelayEnds(s)
  <2>1. /\ out' = out /\ pc' = [pc EXCEPT ![s] = "done"]
        /\ backend' = backend \/ \E b : Closing(b)
    BY <1>2 DEF RelayEnds, Finish
  <2> QED
    BY <1>0, <1>1, <2>1, BridgeGoesOn DEF ForwardTypeOK
<1>3. CASE RelayFrame(s)
  <2>1. Len(said[s].wire) \in Nat
    <3>1. said[s] \in Talks \union {Silent}
      BY <1>0 DEF ForwardTypeOK
    <3>2. Len(Silent.wire) \in Nat
      BY DEF Silent
    <3> QED
      BY <3>1, <3>2, TalksAssumption DEF IsTalk
  <2>2. PICK parsed \in Parsed(Push(ws[s], Head(inq[s])), Len(said[s].wire)) :
          LET given == parsed.events
              b == active[IdOf[s]]
              pongs == [i \in 1..Cardinality({i \in Upto(given) : given[i].type = "ping"}) |-> "pong"]
              close == Cardinality(Upto(given)) < Len(given)
          IN /\ ws' = [ws EXCEPT ![s] = parsed.d]
             /\ IF given = <<>> THEN UNCHANGED <<out, backend, active, passed, pc>>
                ELSE IF ~Has(s) \/ backend[b] # "open"
                THEN Finish(s) /\ UNCHANGED <<out, backend, active, passed>>
                ELSE /\ passed' = [passed EXCEPT ![b] = @ \o Messages(s, given)]
                     /\ Written(s, pongs \o IF close THEN <<"close-frame">> ELSE <<>>)
                     /\ IF close THEN Closing(s) /\ Without(s) /\ Finish(s) ELSE UNCHANGED <<backend, active, pc>>
    BY <1>3 DEF RelayFrame
  <2> DEFINE given == parsed.events
             pings == {i \in Upto(given) : given[i].type = "ping"}
             pongs == [i \in 1..Cardinality(pings) |-> "pong"]
             close == Cardinality(Upto(given)) < Len(given)
             bye == IF close THEN <<"close-frame">> ELSE <<>>
  <2>3. IsSequence(given)
    BY <2>1, ParsedEvents
  <2>4. Cardinality(pings) \in Nat
    <3>1. pings \subseteq 1..Len(given)
      BY DEF Upto
    <3> QED
      BY <2>3, <3>1, UptoCounts
  <2>5. pongs \in Seq(Parts \ Heads) /\ bye \in Seq(Parts \ Heads)
    <3>1. "pong" \in Parts \ Heads /\ "close-frame" \in Parts \ Heads
      BY DEF Parts, Heads
    <3>2. bye \in Seq(Parts \ Heads)
      BY <3>1, OneOrNone, Zenon
    <3> HIDE DEF pings
    <3>3. pongs \in Seq(Parts \ Heads)
      BY <2>4, <3>1
    <3> QED
      BY <3>2, <3>3
  <2>6. \/ out' = out
        \/ Written(s, pongs \o bye)
    BY <2>2
  <2>7. /\ pc' = pc \/ pc' = [pc EXCEPT ![s] = "done"]
        /\ backend' = backend \/ Closing(s)
    BY <2>2 DEF Finish
  <2> HIDE DEF pongs, bye, close, pings, given
  <2>8. /\ out' \in [Streams -> Seq(Parts)] /\ \A q \in Streams \ {s} : out'[q] = out[q]
        /\ HeadsIn(out'[s]) = HeadsIn(out[s])
    <3>1. pongs \o bye \in Seq(Parts \ Heads) /\ pongs \o bye \in Seq(Parts)
      <4>1. pongs \o bye \in Seq(Parts \ Heads)
        BY <2>5, ConcatProperties
      <4> QED
        BY <4>1, SeqMonotonic
    <3>2. CASE out' = out
      BY <1>0, <3>2 DEF ForwardTypeOK
    <3>3. CASE Written(s, pongs \o bye)
      BY <1>0, <3>1, <3>3, WriteTakesOrNot, NoHeads
    <3> QED
      BY <2>6, <3>2, <3>3
  <2> QED
    BY <1>0, <1>1, <2>7, <2>8, BridgeGoesOn
<1> QED
  BY <1>2, <1>3

\* At the start no stream has an answer.
LEMMA ForwardBegins == ForwardInit => ForwardInv
<1> SUFFICES ASSUME ForwardInit PROVE ForwardInv
  OBVIOUS
<1>1. ForwardTypeOK
  BY DEF ForwardInit, ForwardTypeOK, Places, BackendStates, Silent
<1>2. ASSUME NEW s \in Streams PROVE StreamOrderly(s)
  <2>1. pc[s] = "relay" /\ out[s] = <<>> /\ ~closed[s] /\ ~responded[s] /\ backend[s] = "none"
    BY DEF ForwardInit
  <2>2. Delimited(<<>>) /\ HeadsIn(<<>>) = {}
    BY DEF Delimited, HeadsIn
  <2> QED
    BY <2>1, <2>2 DEF StreamOrderly, Orderly
<1> QED
  BY <1>1, <1>2 DEF ForwardInv

\* Every step of the forwarder keeps every answer orderly.
LEMMA ForwardGoesOn == ForwardInv /\ [ForwardNext]_forwardVars => ForwardInv'
<1> SUFFICES ASSUME ForwardInv, [ForwardNext]_forwardVars PROVE ForwardInv'
  OBVIOUS
<1>1. CASE UNCHANGED forwardVars
  BY <1>1 DEF forwardVars, ForwardInv, ForwardTypeOK, StreamOrderly
<1>2. ASSUME NEW s \in Streams,
             \/ Arrive(s) \/ VisitorFrames(s) \/ VisitorLeaves(s) \/ Handler(s)
             \/ FetchFails(s) \/ Redirected(s) \/ PipeBody(s) \/ PipeEnds(s) \/ PipeBreaks(s)
             \/ BackendOpens(s) \/ BackendError(s) \/ BackendClose(s) \/ BackendMessage(s)
      PROVE  ForwardInv'
  BY <1>2, RequestSteps, RequestEnds, FetchSteps, PipeSteps, BridgeOpens, BackendSteps, RelaySteps DEF Handler
<1> QED
  BY <1>1, <1>2 DEF ForwardNext

\* In every state every stream is orderly: nothing was written before its backend answered, at most one
\* head was, and what a plain request got is delimited by the head it got.  Written and flushed by
\* forwardHTTP and forwardWebSocket, extension/lib/forwarder.js.
THEOREM ForwardOrderly == ForwardSpec => []ForwardInv
<1>1. ForwardInit => ForwardInv
  BY ForwardBegins
<1>2. ForwardInv /\ [ForwardNext]_forwardVars => ForwardInv'
  BY ForwardGoesOn
<1> QED
  BY <1>1, <1>2, PTL DEF ForwardSpec

\* Whatever the fetch, the backend and the peer do in between, a stream gets at most one head, and the
\* answer to a plain request is framed as its head says: bytes after a length, chunks and one last
\* terminator after a chunked head (OneAnswer).  forwardHTTP and forwardWebSocket,
\* extension/lib/forwarder.js.
THEOREM OneAnswerHolds == ForwardSpec => []OneAnswer
<1>1. ASSUME ForwardInv PROVE OneAnswer
  <2>1. ASSUME NEW s \in Streams
        PROVE  /\ Cardinality({i \in 1..Len(out[s]) : out[s][i] \in Heads}) <= 1
               /\ ~req[s].upgrade => Delimited(out[s])
    <3>1. /\ \A i, j \in HeadsIn(out[s]) : i = j
          /\ ~req[s].upgrade => Delimited(out[s])
      BY <1>1 DEF ForwardInv, StreamOrderly, Orderly
    <3>2. Cardinality(HeadsIn(out[s])) <= 1
      <4>1. CASE HeadsIn(out[s]) = {}
        BY <4>1, FS_EmptySet
      <4>2. ASSUME NEW i \in HeadsIn(out[s]) PROVE Cardinality(HeadsIn(out[s])) <= 1
        <5>1. HeadsIn(out[s]) = {i}
          BY <3>1
        <5>2. Cardinality({i}) = 1
          BY FS_Singleton
        <5> QED
          BY <5>1, <5>2
      <4> QED
        BY <4>1, <4>2
    <3> QED
      BY <3>1, <3>2 DEF HeadsIn
  <2> QED
    BY <2>1 DEF OneAnswer, Delimited
<1> QED
  BY <1>1, ForwardOrderly, PTL

---------------------------------------------------------------------------
(* The frames of a talk and the decoder (ExtWs).                            *)

\* Where a frame's parts are: its two first bytes, what more there is of its length, then after the
\* key the payload.
LEMMA FrameShape ==
  ASSUME NEW f \in Framed
  PROVE  LET F == FrameOf(f.fin, f.op, f.masked, f.payload)
             len == Len(f.payload)
             len7 == Length(len).len7
             header == HeaderSize(len7)
             off == header + IF f.masked THEN 1 ELSE 0
         IN  /\ F \in Seq({F[i] : i \in 1..Len(F)}) /\ Len(F) = off + len /\ len \in Nat
             /\ F[1] = [fin |-> f.fin, op |-> f.op] /\ F[2] = [masked |-> f.masked, len7 |-> len7]
             /\ \/ header = 2 /\ len7 = len
                \/ header = 3 /\ len7 = Len16 /\ F[3] = len
                \/ header = 4 /\ len7 = Len64 /\ F[3] = 0 /\ F[4] = len
             /\ \A i \in 1..len : F[off + i] = f.payload[i]
<1> DEFINE payload == f.payload
           len == Len(payload)
           len7 == Length(len).len7
           ext == Length(len).ext
           header == HeaderSize(len7)
           key == IF f.masked THEN <<"key">> ELSE <<>>
           off == header + IF f.masked THEN 1 ELSE 0
           b1 == [fin |-> f.fin, op |-> f.op]
           b2 == [masked |-> f.masked, len7 |-> len7]
           Any == {b1, b2, "key"} \union Nat
           F == FrameOf(f.fin, f.op, f.masked, f.payload)
<1>1. payload \in Seq(Nat) /\ len \in Nat /\ f.masked \in BOOLEAN
  BY DEF Framed
<1>2. /\ ext \in Seq(Nat) /\ header = 2 + Len(ext)
      /\ \/ header = 2 /\ len7 = len
         \/ header = 3 /\ len7 = Len16 /\ ext[1] = len
         \/ header = 4 /\ len7 = Len64 /\ ext[1] = 0 /\ ext[2] = len
  <2> HIDE DEF len
  <2>1. CASE len <= Short
    <3>1. Length(len) = [len7 |-> len, ext |-> <<>>]
      BY <2>1 DEF Length
    <3>2. len \in {0, 1}
      BY <1>1, <2>1 DEF Short
    <3>3. HeaderSize(len) = 2
      BY <3>2 DEF HeaderSize, Len16, Len64
    <3> QED
      BY <3>1, <3>3
  <2>2. CASE ~(len <= Short) /\ len <= Medium
    <3>1. Length(len) = [len7 |-> Len16, ext |-> <<len>>]
      BY <2>2 DEF Length
    <3>2. HeaderSize(Len16) = 3
      BY DEF HeaderSize, Len16, Len64
    <3>3. <<len>> \in Seq(Nat) /\ Len(<<len>>) = 1 /\ <<len>>[1] = len
      BY <1>1
    <3> QED
      BY <3>1, <3>2, <3>3
  <2>3. CASE ~(len <= Short) /\ ~(len <= Medium)
    <3>1. Length(len) = [len7 |-> Len64, ext |-> <<0, len>>]
      BY <2>3 DEF Length
    <3>2. HeaderSize(Len64) = 4
      BY DEF HeaderSize, Len16, Len64
    <3>3. <<0, len>> \in Seq(Nat) /\ Len(<<0, len>>) = 2 /\ <<0, len>>[1] = 0 /\ <<0, len>>[2] = len
      BY <1>1
    <3> QED
      BY <3>1, <3>2, <3>3
  <2> QED
    BY <2>1, <2>2, <2>3
<1>3. key \in Seq(Any) /\ Len(key) = IF f.masked THEN 1 ELSE 0
  <2>1. <<"key">> \in Seq(Any) /\ <<>> \in Seq(Any)
    OBVIOUS
  <2> QED
    BY <1>1, <2>1
<1>4. <<b1, b2>> \in Seq(Any) /\ ext \in Seq(Any) /\ payload \in Seq(Any)
  <2>1. b1 \in Any /\ b2 \in Any /\ Nat \subseteq Any
    OBVIOUS
  <2> HIDE DEF b1, b2, Any, ext, len, payload
  <2>2. ext \in Seq(Any) /\ payload \in Seq(Any)
    BY <1>1, <1>2, <2>1, SeqMonotonic
  <2>3. <<b1, b2>> \in Seq(Any)
    BY <2>1
  <2> QED
    BY <2>2, <2>3
<1>5. F = <<b1, b2>> \o ext \o key \o payload
  BY DEF FrameOf
<1> DEFINE G1 == <<b1, b2>> \o ext
           G2 == G1 \o key
           G3 == G2 \o payload
<1>6. off = header + Len(key)
  BY <1>3
<1> HIDE DEF header, key, off, b1, b2, Any, len7, ext, len
<1>7. G1 \in Seq(Any) /\ Len(G1) = header /\ G1[1] = b1 /\ G1[2] = b2 /\ \A i \in 1..Len(ext) : G1[2 + i] = ext[i]
  BY <1>2, <1>4
<1> HIDE DEF G1
<1>8. G2 \in Seq(Any) /\ Len(G2) = off /\ \A i \in 1..header : G2[i] = G1[i]
  <2>1. Len(G1) \in Nat /\ Len(key) \in Nat /\ header = Len(G1) /\ off = Len(G1) + Len(key)
    BY <1>3, <1>6, <1>7
  <2>2. G1 \in Seq(Any) /\ key \in Seq(Any)
    BY <1>3, <1>7
  <2> QED
    BY <2>1, <2>2, ConcatProperties
<1> HIDE DEF G2
<1>9. G3 \in Seq(Any) /\ Len(G3) = off + len /\ (\A i \in 1..header : G3[i] = G1[i])
      /\ \A i \in 1..len : G3[off + i] = payload[i]
  <2>1. header \in Nat /\ off \in Nat /\ header <= off
    BY <1>2, <1>3, <1>6
  <2>2. G2 \in Seq(Any) /\ payload \in Seq(Any) /\ Len(G2) = off /\ Len(payload) = len
    BY <1>4, <1>8 DEF len
  <2>3. G3 \in Seq(Any) /\ Len(G3) = off + len
    BY <2>2, ConcatProperties
  <2>4. \A i \in 1..off : G3[i] = G2[i]
    BY <2>2, <2>1, <1>1, ConcatProperties
  <2>5. \A i \in 1..len : G3[off + i] = payload[i]
    BY <2>2, <2>1, <1>1, ConcatProperties
  <2> QED
    <3>1. ASSUME NEW i \in 1..header PROVE G3[i] = G1[i]
      <4>1. i \in 1..off
        BY <2>1
      <4> QED
        BY <4>1, <2>4, <1>8
    <3> QED
      BY <3>1, <2>3, <2>5
<1> HIDE DEF G3
<1>10. G3 \in Seq({G3[i] : i \in 1..Len(G3)})
  <2>1. Len(G3) \in Nat /\ G3 = [i \in 1..Len(G3) |-> G3[i]]
    BY <1>9
  <2> QED
    BY <2>1
<1>11. F = G3
  BY <1>5 DEF G1, G2, G3
<1> HIDE DEF F, payload
<1>12. /\ \/ header = 2 /\ len7 = len
          \/ header = 3 /\ len7 = Len16 /\ F[3] = len
          \/ header = 4 /\ len7 = Len64 /\ F[3] = 0 /\ F[4] = len
       /\ F[1] = b1 /\ F[2] = b2
  <2>1. \A i \in 1..header : F[i] = G1[i]
    BY <1>9, <1>11
  <2>2. header \in 2..4 /\ F[1] = G1[1] /\ F[2] = G1[2]
    BY <1>2, <2>1
  <2>3. header >= 3 => F[3] = ext[1]
    BY <1>2, <1>7, <2>1, <2>2
  <2>4. header = 4 => F[4] = ext[2]
    BY <1>2, <1>7, <2>1, <2>2
  <2> QED
    BY <1>2, <1>7, <2>2, <2>3, <2>4
<1> QED
  BY <1>1, <1>9, <1>10, <1>11, <1>12 DEF F, header, off, b1, b2, len7, len, payload

\* A frame that is whole in the buffer is taken off it, and its parts are what the sender gave.
LEMMA DecodesWhole ==
  ASSUME NEW f \in Framed, NEW frag, NEW Any, NEW b \in Seq(Any), NEW F, IsFrame(F, f),
         Len(F) <= Len(b), \A i \in 1..Len(F) : b[i] = F[i]
  PROVE  ParseOne([buf |-> b, frag |-> frag])
           = Assembled([fin |-> f.fin, op |-> f.op], f.payload, [buf |-> SubSeq(b, Len(F) + 1, Len(b)), frag |-> frag])
<1> DEFINE payload == f.payload
           len == Len(payload)
           len7 == Length(len).len7
           header == HeaderSize(len7)
           off == header + IF f.masked THEN 1 ELSE 0
           d == [buf |-> b, frag |-> frag]
           left == [d EXCEPT !.buf = SubSeq(b, off + len + 1, Len(b))]
<1>1. /\ Len(F) = off + len /\ len \in Nat
      /\ F[1] = [fin |-> f.fin, op |-> f.op] /\ F[2] = [masked |-> f.masked, len7 |-> len7]
      /\ \/ header = 2 /\ len7 = len
         \/ header = 3 /\ len7 = Len16 /\ F[3] = len
         \/ header = 4 /\ len7 = Len64 /\ F[3] = 0 /\ F[4] = len
      /\ \A i \in 1..len : F[off + i] = payload[i]
  BY FrameShape DEF IsFrame
<1>2. f.masked \in BOOLEAN /\ payload \in Seq(Nat) /\ Len(b) \in Nat
  BY DEF Framed
<1>3. header = 4 <=> len7 = Len64
  BY DEF HeaderSize, Len16, Len64
<1> HIDE DEF header, len7, len, payload
<1>4. header \in 2..4 /\ off \in 2..5 /\ header <= off
  BY <1>1, <1>2
<1>5. b[1] = [fin |-> f.fin, op |-> f.op] /\ b[2].len7 = len7 /\ b[2].masked = f.masked
  <2>1. 1 \in 1..Len(F) /\ 2 \in 1..Len(F)
    BY <1>1, <1>4
  <2> QED
    BY <1>1, <2>1
<1>6. (IF header = 2 THEN len7 ELSE b[header]) = len
  <2>1. header \in 1..Len(F)
    BY <1>1, <1>4
  <2> QED
    BY <1>1, <2>1
<1>7. ~(Len(b) < 2 \/ Len(b) < header) /\ ~(len7 = Len64 /\ b[3] # 0) /\ ~(Len(b) < off + len)
  <2>1. header = 4 => b[3] = 0
    <3>1. 3 \in 1..Len(F) \/ header # 4
      BY <1>1, <1>4
    <3> QED
      BY <1>1, <3>1
  <2> QED
    BY <1>1, <1>2, <1>3, <1>4, <2>1
<1>8. SubSeq(b, off + 1, off + len) = payload
  <2> DEFINE t == SubSeq(b, off + 1, off + len)
  <2>1. off + 1 \in 1..Len(b) + 1 /\ off + len \in (off + 1) - 1..Len(b) /\ off \in Nat
    <3>1. off \in Nat /\ len \in Nat /\ Len(b) \in Nat /\ off + len <= Len(b)
      BY <1>1, <1>2, <1>4
    <3> HIDE DEF off
    <3> QED
      BY <3>1
  <2>2. /\ t \in Seq(Any) /\ Len(t) = (off + len) - (off + 1) + 1
        /\ \A i \in 1..((off + len) - (off + 1) + 1) : t[i] = b[(off + 1) + i - 1]
    BY <2>1, SubSeqProperties
  <2> HIDE DEF t, off
  <2>3. Len(t) = len /\ \A i \in 1..len : t[i] = b[off + i]
    BY <1>1, <2>1, <2>2
  <2>4. ASSUME NEW i \in 1..len PROVE t[i] = payload[i]
    <3>1. off + i \in 1..Len(F)
      BY <1>1, <2>1
    <3> QED
      BY <1>1, <2>3, <3>1
  <2>5. t = [i \in 1..len |-> payload[i]] /\ payload = [i \in 1..len |-> payload[i]]
    BY <1>2, <2>2, <2>3, <2>4 DEF len
  <2> QED
    BY <2>5 DEF t
<1>9. HeaderSize(len7) = header
  BY DEF header
<1> HIDE DEF off
<1>10. d.buf = b /\ d.frag = frag
  OBVIOUS
<1>11. ParseOne(d) = Assembled(b[1], SubSeq(b, off + 1, off + len), left)
  <2> HIDE DEF d
  <2>1. off = header + IF b[2].masked THEN 1 ELSE 0
    BY <1>5 DEF off
  <2>2. ASSUME NEW c
        PROVE  LET seen == c.buf
                   h == HeaderSize(seen[2].len7)
                   o == h + IF seen[2].masked THEN 1 ELSE 0
                   l == IF h = 2 THEN seen[2].len7 ELSE seen[h]
               IN  ~(Len(seen) < 2 \/ Len(seen) < h) /\ ~(seen[2].len7 = Len64 /\ seen[3] # 0) /\ ~(Len(seen) < o + l)
                   => ParseOne(c) = Assembled(seen[1], SubSeq(seen, o + 1, o + l), [c EXCEPT !.buf = SubSeq(seen, o + l + 1, Len(seen))])
    BY DEF ParseOne
  <2>3. HeaderSize(d.buf[2].len7) = header
    BY <1>5, <1>9, <1>10
  <2>4. (IF header = 2 THEN d.buf[2].len7 ELSE d.buf[header]) = len
    BY <1>5, <1>6, <1>10
  <2>5. header + (IF d.buf[2].masked THEN 1 ELSE 0) = off
    BY <1>10, <2>1
  <2>6. ~(Len(d.buf) < 2 \/ Len(d.buf) < header) /\ ~(d.buf[2].len7 = Len64 /\ d.buf[3] # 0) /\ ~(Len(d.buf) < off + len)
    BY <1>5, <1>7, <1>10
  <2>7. ParseOne(d) = Assembled(d.buf[1], SubSeq(d.buf, off + 1, off + len), [d EXCEPT !.buf = SubSeq(d.buf, off + len + 1, Len(d.buf))])
    BY <2>2, <2>3, <2>4, <2>5, <2>6
  <2> DEFINE rest == [d EXCEPT !.buf = SubSeq(d.buf, off + len + 1, Len(d.buf))]
  <2>8. rest = left
    BY <1>10
  <2>9. d.buf[1] = b[1] /\ SubSeq(d.buf, off + 1, off + len) = SubSeq(b, off + 1, off + len)
    BY <1>10
  <2>10. ParseOne(d) = Assembled(d.buf[1], SubSeq(d.buf, off + 1, off + len), rest)
    BY <2>7
  <2> HIDE DEF rest, left
  <2> QED
    BY <2>8, <2>9, <2>10
<1>12. left = [buf |-> SubSeq(b, Len(F) + 1, Len(b)), frag |-> frag]
  <2> DEFINE behind == SubSeq(b, off + len + 1, Len(b))
  <2>1. behind = SubSeq(b, Len(F) + 1, Len(b))
    BY <1>1, <1>4
  <2> HIDE DEF behind
  <2>2. [d EXCEPT !.buf = behind] = [buf |-> behind, frag |-> frag]
    OBVIOUS
  <2>3. left = [buf |-> behind, frag |-> frag]
    BY <2>2 DEF behind
  <2> QED
    BY <2>1, <2>3
<1> HIDE DEF left
<1> QED
  BY <1>5, <1>8, <1>11, <1>12 DEF payload

\* A frame that is not whole yet is left in the buffer.
LEMMA WaitsForWhole ==
  ASSUME NEW f \in Framed, NEW frag, NEW Any, NEW b \in Seq(Any), NEW F, IsFrame(F, f),
         Len(b) < Len(F), \A i \in 1..Len(b) : b[i] = F[i]
  PROVE  ~ParseOne([buf |-> b, frag |-> frag]).some
<1> DEFINE len == Len(f.payload)
           len7 == Length(len).len7
           header == HeaderSize(len7)
           off == header + IF f.masked THEN 1 ELSE 0
           d == [buf |-> b, frag |-> frag]
<1>1. /\ Len(F) = off + len /\ len \in Nat
      /\ F[2] = [masked |-> f.masked, len7 |-> len7]
      /\ \/ header = 2 /\ len7 = len
         \/ header = 3 /\ len7 = Len16 /\ F[3] = len
         \/ header = 4 /\ len7 = Len64 /\ F[3] = 0 /\ F[4] = len
  BY FrameShape DEF IsFrame
<1>2. f.masked \in BOOLEAN /\ Len(b) \in Nat
  BY DEF Framed
<1>3. HeaderSize(len7) = header /\ (header = 4 <=> len7 = Len64)
  BY DEF HeaderSize, Len16, Len64
<1> HIDE DEF header, len7, len
<1>4. d.buf = b
  OBVIOUS
<1>5. CASE Len(b) < 2
  <2> HIDE DEF d
  <2>1. ParseOne(d) = Nothing(d)
    BY <1>4, <1>5 DEF ParseOne
  <2> QED
    BY <2>1 DEF Nothing, d
<1>6. CASE Len(b) >= 2
  <2>1. b[2].len7 = len7 /\ b[2].masked = f.masked
    <3>1. 2 \in 1..Len(b)
      BY <1>2, <1>6
    <3> QED
      BY <1>1, <3>1
  <2>2. CASE Len(b) < header
    <3> HIDE DEF d
    <3>1. ParseOne(d) = Nothing(d)
      BY <1>3, <1>4, <2>1, <2>2 DEF ParseOne
    <3> QED
      BY <3>1 DEF Nothing, d
  <2>3. CASE ~(Len(b) < header)
    <3>1. (IF header = 2 THEN len7 ELSE b[header]) = len /\ ~(len7 = Len64 /\ b[3] # 0)
      <4>1. header \in 2..4 /\ header \in 1..Len(b) /\ (header = 4 => 3 \in 1..Len(b))
        BY <1>1, <1>2, <2>3
      <4> QED
        BY <1>1, <1>3, <4>1
    <3>2. off = header + IF b[2].masked THEN 1 ELSE 0
      BY <2>1 DEF off
    <3>3. Len(b) < off + len
      BY <1>1
    <3> HIDE DEF d, off
    <3>4. ParseOne(d) = Nothing(d)
      BY <1>3, <1>4, <1>6, <2>1, <2>3, <3>1, <3>2, <3>3 DEF ParseOne
    <3> QED
      BY <3>4 DEF Nothing, d
  <2> QED
    BY <2>2, <2>3
<1> QED
  BY <1>2, <1>5, <1>6

\* A frame of a length that is not supported is refused as soon as its length is there.
LEMMA RefusesUnsupported ==
  ASSUME NEW frag, NEW Any, NEW b \in Seq(Any), NEW u, Unsupported(u), Len(u) \in Nat,
         Len(b) <= Len(u), \A i \in 1..Len(b) : b[i] = u[i]
  PROVE  LET one == ParseOne([buf |-> b, frag |-> frag]) IN one.some => one.event = CloseEvent
<1> DEFINE d == [buf |-> b, frag |-> frag]
<1>1. Len(b) \in Nat /\ d.buf = b /\ HeaderSize(Len64) = 4
  BY DEF HeaderSize, Len16, Len64
<1>2. CASE Len(b) < 2
  <2> HIDE DEF d
  <2>1. ParseOne(d) = Nothing(d)
    BY <1>1, <1>2 DEF ParseOne
  <2> QED
    BY <2>1 DEF Nothing, d
<1>3. CASE Len(b) >= 2
  <2>1. b[2].len7 = Len64
    <3>1. 2 \in 1..Len(b)
      BY <1>1, <1>3
    <3> QED
      BY <3>1 DEF Unsupported
  <2>2. CASE Len(b) < 4
    <3> HIDE DEF d
    <3>1. ParseOne(d) = Nothing(d)
      BY <1>1, <2>1, <2>2 DEF ParseOne
    <3> QED
      BY <3>1 DEF Nothing, d
  <2>3. CASE Len(b) >= 4
    <3>1. b[3] # 0
      <4>1. 3 \in 1..Len(b)
        BY <1>1, <2>3
      <4> QED
        BY <4>1 DEF Unsupported
    <3> HIDE DEF d
    <3>2. ParseOne(d) = Step(CloseEvent, [d EXCEPT !.buf = <<>>])
      BY <1>1, <1>3, <2>1, <2>3, <3>1 DEF ParseOne
    <3> QED
      BY <3>2 DEF Step, d
  <2> QED
    BY <1>1, <2>2, <2>3
<1> QED
  BY <1>1, <1>2, <1>3

---------------------------------------------------------------------------
(* What the evs of a chunk give the backend: the recursive function of  *)
(* Messages exists, and one more event gives at most one more message.     *)

Given(s, e) == [from |-> s, message |-> Message(e.op, e.payload)]
NextGiven(s, evs, i, before) ==
  IF i \in Upto(evs) /\ evs[i].type = "data" THEN Append(before, Given(s, evs[i])) ELSE before
\* the function given of Messages, as far as n
IsGiven(f, s, evs, n) ==
  /\ f = [k \in 0..n |-> f[k]] /\ f[0] = <<>>
  /\ \A k \in 1..n : f[k] = NextGiven(s, evs, k, f[k - 1])

\* The unfolding is there for every number of evs.
LEMMA GivenExists ==
  ASSUME NEW s, NEW evs, NEW n \in Nat
  PROVE  \E f : IsGiven(f, s, evs, n)
<1> DEFINE T == {m \in Nat : ~\E f : IsGiven(f, s, evs, m)}
<1>1. CASE T = {}
  BY <1>1
<1>2. CASE T # {}
  <2>1. PICK m \in T : \A k \in T : m <= k
    <3>1. T \subseteq Nat
      OBVIOUS
    <3> HIDE DEF T
    <3> QED
      BY <1>2, <3>1, LeastNumber
  <2>2. CASE m = 0
    <3> DEFINE f == [k \in 0..0 |-> <<>>]
    <3>1. IsGiven(f, s, evs, 0)
      BY DEF IsGiven
    <3> QED
      BY <3>1, <2>2
  <2>3. CASE m # 0
    <3>1. m - 1 \in Nat /\ ~(m <= m - 1)
      BY <2>3
    <3>2. PICK g : IsGiven(g, s, evs, m - 1)
      BY <3>1, <2>1
    <3> DEFINE f == [k \in 0..m |-> IF k = m THEN NextGiven(s, evs, m, g[m - 1]) ELSE g[k]]
    <3>3. f[0] = <<>>
      BY <3>1, <3>2 DEF IsGiven
    <3>4. ASSUME NEW k \in 1..m PROVE f[k] = NextGiven(s, evs, k, f[k - 1])
      <4>1. k - 1 \in 0..m /\ k - 1 # m /\ k \in 0..m
        OBVIOUS
      <4>2. f[k - 1] = g[k - 1]
        BY <4>1
      <4>3. CASE k = m
        BY <4>1, <4>2, <4>3
      <4>4. CASE k # m
        <5>1. k \in 1..(m - 1) /\ f[k] = g[k]
          BY <4>1, <4>4
        <5>2. g[k] = NextGiven(s, evs, k, g[k - 1])
          BY <5>1, <3>2 DEF IsGiven
        <5> QED
          BY <5>1, <5>2, <4>2
      <4> QED
        BY <4>3, <4>4
    <3>5. f = [k \in 0..m |-> f[k]]
      OBVIOUS
    <3> HIDE DEF f
    <3>6. IsGiven(f, s, evs, m)
      BY <3>3, <3>4, <3>5 DEF IsGiven
    <3> QED
      BY <3>6
  <2> QED
    BY <2>2, <2>3
<1> QED
  BY <1>1, <1>2

\* Two lists have the same events, up to a close, as far as m.
SameUpto(ev1, ev2, m) == \A i \in 1..m : ev1[i] = ev2[i] /\ (i \in Upto(ev1) <=> i \in Upto(ev2))

\* Two unfoldings agree as far as the evs that they read do.
LEMMA GivenAgree ==
  ASSUME NEW s, NEW ev1, NEW ev2, NEW m \in Nat, NEW n \in Nat, m <= n,
         NEW f, NEW g, IsGiven(f, s, ev1, m), IsGiven(g, s, ev2, n),
         SameUpto(ev1, ev2, m)
  PROVE  \A k \in 0..m : f[k] = g[k]
<1> DEFINE T == {k \in 0..m : f[k] # g[k]}
<1>1. CASE T = {}
  BY <1>1
<1>2. CASE T # {}
  <2>1. PICK k \in T : \A j \in T : k <= j
    <3>1. T \subseteq Nat
      OBVIOUS
    <3> HIDE DEF T
    <3> QED
      BY <1>2, <3>1, LeastNumber
  <2>2. CASE k = 0
    BY <2>2 DEF IsGiven
  <2>3. CASE k # 0
    <3>1. k - 1 \in 0..m /\ ~(k <= k - 1) /\ k \in 1..m /\ k \in 1..n
      BY <2>3
    <3>2. f[k - 1] = g[k - 1]
      BY <3>1, <2>1
    <3>3. f[k] = NextGiven(s, ev1, k, f[k - 1]) /\ g[k] = NextGiven(s, ev2, k, g[k - 1])
      BY <3>1 DEF IsGiven
    <3>4. NextGiven(s, ev1, k, f[k - 1]) = NextGiven(s, ev2, k, f[k - 1])
      BY <3>1 DEF NextGiven, SameUpto
    <3> QED
      BY <3>2, <3>3, <3>4
  <2> QED
    BY <2>2, <2>3
<1> QED
  BY <1>1, <1>2

\* The function exists, so that Messages is the last of its unfolding.
LEMMA MessagesGiven ==
  ASSUME NEW s, NEW evs, Len(evs) \in Nat
  PROVE  \E f : IsGiven(f, s, evs, Len(evs)) /\ Messages(s, evs) = f[Len(evs)]
<1> DEFINE Next1(i, before) == NextGiven(s, evs, i, before)
           Fits(f) == f = [i \in Nat |-> IF i = 0 THEN <<>> ELSE Next1(i, f[i - 1])]
           run(n) == CHOOSE f : IsGiven(f, s, evs, n)
           all == [n \in Nat |-> run(n)[n]]
<1>1. ASSUME NEW n \in Nat PROVE IsGiven(run(n), s, evs, n)
  BY GivenExists
<1>2. ASSUME NEW n \in Nat, n # 0 PROVE all[n] = Next1(n, all[n - 1])
  <2>1. n - 1 \in Nat /\ n - 1 <= n /\ n \in 1..n /\ n - 1 \in 0..(n - 1)
    BY <1>2
  <2>2. IsGiven(run(n), s, evs, n) /\ IsGiven(run(n - 1), s, evs, n - 1)
    BY <2>1, <1>1
  <2> HIDE DEF run
  <2>3. run(n - 1)[n - 1] = run(n)[n - 1]
    BY <2>1, <2>2, GivenAgree DEF SameUpto
  <2>4. run(n)[n] = Next1(n, run(n)[n - 1])
    BY <2>1, <2>2 DEF IsGiven
  <2> QED
    BY <2>1, <2>3, <2>4
<1>3. all[0] = <<>>
  <2>1. IsGiven(run(0), s, evs, 0)
    BY <1>1
  <2> HIDE DEF run
  <2> QED
    BY <2>1 DEF IsGiven
<1>4. Fits(all)
  <2> HIDE DEF run, Next1
  <2>1. \A n \in Nat : all[n] = IF n = 0 THEN <<>> ELSE Next1(n, all[n - 1])
    BY <1>2, <1>3
  <2>2. all = [n \in Nat |-> all[n]]
    OBVIOUS
  <2> HIDE DEF all
  <2> QED
    BY <2>1, <2>2
<1> DEFINE given == CHOOSE f : Fits(f)
<1>5. Fits(given)
  <2> HIDE DEF all, Fits
  <2> QED
    BY <1>4
<1>6. Messages(s, evs) = given[Len(evs)]
  BY DEF Messages, NextGiven, Given
<1> HIDE DEF given
<1> DEFINE upto == [k \in 0..Len(evs) |-> given[k]]
<1>7. IsGiven(upto, s, evs, Len(evs))
  <2> HIDE DEF Next1
  <2>1. given[0] = <<>> /\ \A k \in 1..Len(evs) : given[k] = Next1(k, given[k - 1])
    BY <1>5
  <2>2. \A k \in 1..Len(evs) : k - 1 \in 0..Len(evs) /\ k \in 0..Len(evs)
    OBVIOUS
  <2> USE DEF Next1
  <2> QED
    BY <2>1, <2>2 DEF IsGiven
<1>8. Messages(s, evs) = upto[Len(evs)]
  BY <1>6
<1> HIDE DEF upto
<1> QED
  BY <1>7, <1>8

HasClose(evs) == \E i \in 1..Len(evs) : evs[i].type = "close"

\* Nothing comes of no evs.
LEMMA MessagesNone == \A s : Messages(s, <<>>) = <<>>
<1> SUFFICES ASSUME NEW s PROVE Messages(s, <<>>) = <<>>
  OBVIOUS
<1> DEFINE none == <<>>
<1>1. Len(none) = 0
  OBVIOUS
<1> HIDE DEF none
<1>2. PICK f : IsGiven(f, s, none, Len(none)) /\ Messages(s, none) = f[Len(none)]
  BY <1>1, MessagesGiven
<1>3. f[0] = <<>>
  BY <1>2 DEF IsGiven
<1>4. Messages(s, none) = <<>>
  BY <1>1, <1>2, <1>3
<1> QED
  BY <1>4 DEF none

\* One more event gives a message when it is of data and no close came before it.
LEMMA MessagesOneMore ==
  ASSUME NEW s, NEW evs, NEW more, NEW e, NEW n \in Nat, Len(evs) = n, Len(more) = n + 1,
         more[n + 1] = e, \A i \in 1..n : more[i] = evs[i]
  PROVE  Messages(s, more) = IF ~HasClose(evs) /\ e.type = "data" THEN Append(Messages(s, evs), Given(s, e))
                             ELSE Messages(s, evs)
<1>0. Len(evs) = n
  OBVIOUS
<1>1. Len(more) = n + 1 /\ more[n + 1] = e /\ \A i \in 1..n : more[i] = evs[i]
  OBVIOUS
<1>2. PICK f : IsGiven(f, s, evs, n) /\ Messages(s, evs) = f[n]
  BY <1>0, MessagesGiven
<1>3. PICK g : IsGiven(g, s, more, n + 1) /\ Messages(s, more) = g[n + 1]
  <2>1. Len(more) \in Nat
    BY <1>1
  <2> QED
    BY <1>1, <2>1, MessagesGiven
<1>4. ASSUME NEW i \in 1..n PROVE i \in Upto(evs) <=> i \in Upto(more)
  <2>1. \A j \in 1..i : j \in 1..n
    BY <1>0
  <2> QED
    BY <1>0, <1>1, <2>1 DEF Upto
<1>5. f[n] = g[n]
  <2>1. \A k \in 0..n : f[k] = g[k]
    <3>1. PICK m \in Nat : m = n + 1 /\ n <= m
      OBVIOUS
    <3>2. SameUpto(evs, more, n)
      BY <1>1, <1>4 DEF SameUpto
    <3>3. IsGiven(f, s, evs, n) /\ IsGiven(g, s, more, m)
      BY <1>2, <1>3, <3>1
    <3>4. n <= m
      BY <3>1
    <3> QED
      BY <3>2, <3>3, <3>4, GivenAgree
  <2> QED
    BY <1>0, <2>1
<1>6. g[n + 1] = NextGiven(s, more, n + 1, g[n])
  <2>1. n + 1 \in 1..(n + 1) /\ (n + 1) - 1 = n
    OBVIOUS
  <2>2. g[n + 1] = NextGiven(s, more, n + 1, g[(n + 1) - 1])
    BY <1>3, <2>1 DEF IsGiven
  <2> QED
    BY <2>1, <2>2
<1>7. n + 1 \in Upto(more) <=> ~HasClose(evs) /\ e.type # "close"
  <2>1. n + 1 \in 1..Len(more)
    BY <1>1
  <2>2. \A j \in 1..(n + 1) : j \in 1..n \/ j = n + 1
    BY <1>1
  <2>3. \A j \in 1..n : j \in 1..(n + 1)
    BY <1>1
  <2> QED
    BY <1>0, <1>1, <2>1, <2>2, <2>3 DEF Upto, HasClose
<1>8. n + 1 \in Upto(more) /\ more[n + 1].type = "data" <=> ~HasClose(evs) /\ e.type = "data"
  BY <1>1, <1>7
<1> QED
  BY <1>1, <1>2, <1>3, <1>5, <1>6, <1>8 DEF NextGiven

\* The same for an event that is appended.
LEMMA MessagesAppend ==
  ASSUME NEW s, NEW S, NEW evs \in Seq(S), NEW e \in S
  PROVE  Messages(s, Append(evs, e))
           = IF ~HasClose(evs) /\ e.type = "data" THEN Append(Messages(s, evs), Given(s, e))
             ELSE Messages(s, evs)
<1>1. PICK more : more = Append(evs, e)
  OBVIOUS
<1>2. /\ Len(evs) \in Nat /\ Len(more) = Len(evs) + 1
      /\ more[Len(evs) + 1] = e /\ \A i \in 1..Len(evs) : more[i] = evs[i]
  BY <1>1
<1> QED
  BY <1>1, <1>2, MessagesOneMore

\* What the decoder makes of a frame is what the frame tells.
LEMMA AssembledFollows ==
  ASSUME NEW f \in Framed, NEW tale \in Tales, ~tale.over, NEW rest
  PROVE  LET one == Assembled([fin |-> f.fin, op |-> f.op], f.payload, [buf |-> rest, frag |-> tale.frag])
             next == Follows(tale, f)
         IN  /\ one.some
             /\ next.over => one.event.type = "close"
             /\ ~next.over =>
                  /\ one.d = [buf |-> rest, frag |-> next.frag]
                  /\ \/ one.event.type = "data"
                        /\ next.messages = Append(tale.messages, Message(one.event.op, one.event.payload))
                     \/ one.event.type \in {"more", "ping", "pong"} /\ next.messages = tale.messages
<1> DEFINE head == [fin |-> f.fin, op |-> f.op]
           d == [buf |-> rest, frag |-> tale.frag]
           one == Assembled(head, f.payload, d)
           next == Follows(tale, f)
           Told1(o, n) ==
             /\ o.some
             /\ n.over => o.event.type = "close"
             /\ ~n.over =>
                  /\ o.d = [buf |-> rest, frag |-> n.frag]
                  /\ \/ o.event.type = "data" /\ n.messages = Append(tale.messages, Message(o.event.op, o.event.payload))
                     \/ o.event.type \in {"more", "ping", "pong"} /\ n.messages = tale.messages
<1> SUFFICES Told1(one, next)
  OBVIOUS
<1>0. /\ f.fin \in BOOLEAN /\ tale.over = FALSE
      /\ tale = [messages |-> tale.messages, frag |-> tale.frag, over |-> FALSE]
  BY DEF Framed, Tales
<1>1. head.fin = f.fin /\ head.op = f.op /\ d.frag = tale.frag
      /\ \A g : [d EXCEPT !.frag = g] = [buf |-> rest, frag |-> g]
  OBVIOUS
<1>9. d = [buf |-> rest, frag |-> tale.frag]
  OBVIOUS
<1> HIDE DEF head, d, one, next
<1>2. CASE f.op \in {"text", "binary"} /\ f.fin
  <2>1. one = Step(WsEvent("data", f.op, f.payload), [buf |-> rest, frag |-> tale.frag])
    BY <1>1, <1>2 DEF one, Assembled
  <2>2. next = [tale EXCEPT !.messages = Append(@, Message(f.op, f.payload)), !.frag = @]
    BY <1>0, <1>2 DEF next, Follows
  <2>3. next.over = FALSE /\ next.frag = tale.frag /\ next.messages = Append(tale.messages, Message(f.op, f.payload))
    BY <1>0, <2>2
  <2> QED
    BY <1>9, <2>1, <2>3 DEF Step, WsEvent
<1>3. CASE f.op \in {"text", "binary"} /\ ~f.fin
  <2>1. one = Step(WsEvent("more", f.op, <<>>), [buf |-> rest, frag |-> [op |-> f.op, payload |-> f.payload]])
    BY <1>1, <1>3 DEF one, Assembled
  <2>2. next = [tale EXCEPT !.frag = Message(f.op, f.payload)]
    BY <1>0, <1>3 DEF next, Follows
  <2>3. next.over = FALSE /\ next.frag = [op |-> f.op, payload |-> f.payload] /\ next.messages = tale.messages
    BY <1>0, <2>2 DEF Message
  <2> QED
    BY <1>9, <2>1, <2>3 DEF Step, WsEvent
<1>4. CASE f.op = "cont" /\ tale.frag = NoFrag
  <2>1. one = Step(CloseEvent, d)
    BY <1>1, <1>4 DEF one, Assembled
  <2>2. next = [tale EXCEPT !.over = TRUE]
    BY <1>0, <1>4 DEF next, Follows
  <2>3. next.over
    BY <1>0, <2>2
  <2> QED
    BY <1>9, <2>1, <2>3 DEF Step, CloseEvent, WsEvent
<1>5. CASE f.op = "cont" /\ tale.frag # NoFrag /\ f.fin
  <2>1. one = Step(WsEvent("data", tale.frag.op, tale.frag.payload \o f.payload), [buf |-> rest, frag |-> NoFrag])
    BY <1>1, <1>5 DEF one, Assembled, Merged
  <2>2. next = [tale EXCEPT !.messages = Append(@, Message(tale.frag.op, tale.frag.payload \o f.payload)), !.frag = NoFrag]
    BY <1>0, <1>5 DEF next, Follows
  <2>3. next.over = FALSE /\ next.frag = NoFrag /\ next.messages = Append(tale.messages, Message(tale.frag.op, tale.frag.payload \o f.payload))
    BY <1>0, <2>2
  <2> QED
    BY <1>9, <2>1, <2>3 DEF Step, WsEvent
<1>6. CASE f.op = "cont" /\ tale.frag # NoFrag /\ ~f.fin
  <2>1. one = Step(WsEvent("more", tale.frag.op, <<>>),
                   [buf |-> rest, frag |-> [op |-> tale.frag.op, payload |-> tale.frag.payload \o f.payload]])
    BY <1>1, <1>6 DEF one, Assembled, Merged
  <2>2. next = [tale EXCEPT !.frag = Message(tale.frag.op, tale.frag.payload \o f.payload)]
    BY <1>0, <1>6 DEF next, Follows
  <2>3. next.over = FALSE /\ next.messages = tale.messages
        /\ next.frag = [op |-> tale.frag.op, payload |-> tale.frag.payload \o f.payload]
    BY <1>0, <2>2 DEF Message
  <2> QED
    BY <1>9, <2>1, <2>3 DEF Step, WsEvent
<1>7. CASE f.op \in {"close", "ping", "pong"}
  <2>1. one = Step(WsEvent(f.op, "none", f.payload), d)
    BY <1>1, <1>7 DEF one, Assembled
  <2>2. next = IF f.op = "close" THEN [tale EXCEPT !.over = TRUE] ELSE tale
    BY <1>0, <1>7 DEF next, Follows
  <2>3. next.over = (f.op = "close") /\ next.frag = tale.frag /\ next.messages = tale.messages
    BY <1>0, <2>2
  <2> QED
    BY <1>7, <1>9, <2>1, <2>3 DEF Step, WsEvent
<1>8. CASE f.op \notin {"text", "binary", "cont", "close", "ping", "pong"}
  <2>1. one = Step(CloseEvent, d)
    BY <1>1, <1>8 DEF one, Assembled
  <2>2. next = [tale EXCEPT !.over = TRUE]
    BY <1>0, <1>8 DEF next, Follows
  <2>3. next.over
    BY <1>0, <2>2
  <2> QED
    BY <1>9, <2>1, <2>3 DEF Step, CloseEvent, WsEvent
<1> QED
  BY <1>0, <1>2, <1>3, <1>4, <1>5, <1>6, <1>7, <1>8

---------------------------------------------------------------------------
(* Sequences and their stretches.                                          *)

\* what comes after the first lo tokens, up to token hi
Stretch(bytes, lo, hi) == SubSeq(bytes, lo + 1, hi)
IsStretch(t, bytes, lo, hi) ==
  /\ IsSequence(t) /\ Len(t) = hi - lo
  /\ \A i \in 1..(hi - lo) : t[i] = bytes[lo + i]

\* A sequence has a length.
LEMMA SequenceLength ==
  ASSUME NEW a, IsSequence(a)
  PROVE  Len(a) \in Nat
BY DEF IsSequence

\* Two sequences of one length with the same elements are one.
LEMMA SequencesEqual ==
  ASSUME NEW a, IsSequence(a), NEW b, IsSequence(b), Len(a) = Len(b), \A i \in 1..Len(a) : a[i] = b[i]
  PROVE  a = b
<1>1. PICK A : a \in Seq(A)
  BY DEF IsSequence
<1>2. PICK B : b \in Seq(B)
  BY DEF IsSequence
<1>3. a = [i \in 1..Len(a) |-> a[i]] /\ b = [i \in 1..Len(b) |-> b[i]]
  BY <1>1, <1>2
<1> QED
  BY <1>3

\* One sequence behind another.
LEMMA SequencesJoined ==
  ASSUME NEW a, IsSequence(a), NEW b, IsSequence(b)
  PROVE  /\ IsSequence(a \o b) /\ Len(a \o b) = Len(a) + Len(b)
         /\ \A i \in 1..(Len(a) + Len(b)) : (a \o b)[i] = IF i <= Len(a) THEN a[i] ELSE b[i - Len(a)]
<1>1. PICK A : a \in Seq(A)
  BY DEF IsSequence
<1>2. PICK B : b \in Seq(B)
  BY DEF IsSequence
<1>3. PICK C : C = A \union B
  OBVIOUS
<1>4. a \in Seq(C) /\ b \in Seq(C)
  BY <1>1, <1>2, <1>3, SeqMonotonic
<1>5. a \o b \in Seq(C) /\ Len(a \o b) = Len(a) + Len(b)
  BY <1>4
<1>6. \A i \in 1..(Len(a) + Len(b)) : (a \o b)[i] = IF i <= Len(a) THEN a[i] ELSE b[i - Len(a)]
  BY <1>4
<1> QED
  BY <1>5, <1>6 DEF IsSequence

\* A stretch of bytes, token by token.
LEMMA StretchPart ==
  ASSUME NEW bytes, IsSequence(bytes), NEW lo \in Nat, NEW hi \in Nat, lo <= hi, hi <= Len(bytes)
  PROVE  IsStretch(Stretch(bytes, lo, hi), bytes, lo, hi)
<1>1. PICK S : bytes \in Seq(S)
  BY DEF IsSequence
<1>2. lo + 1 \in 1..Len(bytes) + 1 /\ hi \in (lo + 1) - 1..Len(bytes)
  BY <1>1
<1>3. PICK t : t = SubSeq(bytes, lo + 1, hi)
  OBVIOUS
<1>4. /\ t \in Seq(S) /\ Len(t) = hi - (lo + 1) + 1
      /\ \A i \in 1..(hi - (lo + 1) + 1) : t[i] = bytes[(lo + 1) + i - 1]
  BY <1>1, <1>2, <1>3, SubSeqProperties
<1>5. hi - (lo + 1) + 1 = hi - lo /\ \A i \in 1..(hi - lo) : (lo + 1) + i - 1 = lo + i
  OBVIOUS
<1>6. IsStretch(t, bytes, lo, hi)
  BY <1>4, <1>5 DEF IsStretch, IsSequence
<1> QED
  BY <1>3, <1>6 DEF Stretch

\* All of them.
LEMMA StretchAll ==
  ASSUME NEW bytes, IsSequence(bytes)
  PROVE  Stretch(bytes, 0, Len(bytes)) = bytes
<1>1. PICK size \in Nat : size = Len(bytes)
  BY SequenceLength
<1>2. PICK t : t = Stretch(bytes, 0, size)
  OBVIOUS
<1>3. IsStretch(t, bytes, 0, size)
  BY <1>1, <1>2, StretchPart
<1>4. IsSequence(t) /\ Len(t) = size /\ \A i \in 1..size : t[i] = bytes[i]
  <2>1. size - 0 = size /\ \A i \in 1..size : 0 + i = i
    OBVIOUS
  <2> QED
    BY <1>3, <2>1 DEF IsStretch
<1>5. t = bytes
  BY <1>1, <1>4, SequencesEqual
<1> QED
  BY <1>1, <1>2, <1>5

\* A stretch of a stretch.
LEMMA StretchInside ==
  ASSUME NEW bytes, IsSequence(bytes), NEW lo \in Nat, NEW hi \in Nat, hi <= Len(bytes),
         NEW x \in Nat, NEW y \in Nat, x <= y, lo + y <= hi
  PROVE  Stretch(Stretch(bytes, lo, hi), x, y) = Stretch(bytes, lo + x, lo + y)
<1>1. PICK size \in Nat : size = Len(bytes)
  BY SequenceLength
<1>2. PICK b, t, u : b = Stretch(bytes, lo, hi) /\ t = Stretch(b, x, y) /\ u = Stretch(bytes, lo + x, lo + y)
  OBVIOUS
<1>3. PICK low \in Nat, high \in Nat : low = lo + x /\ high = lo + y
  OBVIOUS
<1>4. lo <= hi /\ low <= high /\ high <= size /\ y <= hi - lo
  BY <1>1, <1>3
<1>5. IsStretch(b, bytes, lo, hi)
  BY <1>2, <1>4, StretchPart
<1>6. IsStretch(u, bytes, low, high)
  BY <1>1, <1>2, <1>3, <1>4, StretchPart
<1>7. IsStretch(t, b, x, y)
  <2>1. IsSequence(b) /\ y <= Len(b)
    BY <1>4, <1>5 DEF IsStretch
  <2> QED
    BY <1>2, <2>1, StretchPart
<1>8. IsSequence(t) /\ IsSequence(u) /\ Len(t) = y - x /\ Len(u) = y - x
  BY <1>3, <1>6, <1>7 DEF IsStretch
<1>9. ASSUME NEW i \in 1..(y - x) PROVE t[i] = u[i]
  <2>1. i \in 1..(high - low) /\ low + i = lo + (x + i) /\ x + i \in 1..(hi - lo)
    BY <1>3, <1>4
  <2>2. t[i] = b[x + i] /\ u[i] = bytes[low + i]
    BY <1>6, <1>7, <2>1 DEF IsStretch
  <2>3. b[x + i] = bytes[lo + (x + i)]
    BY <1>5, <2>1 DEF IsStretch
  <2> QED
    BY <2>1, <2>2, <2>3
<1>10. t = u
  BY <1>8, <1>9, SequencesEqual
<1> QED
  BY <1>2, <1>10

\* Two stretches, one behind the other.
LEMMA StretchOn ==
  ASSUME NEW bytes, IsSequence(bytes), NEW lo \in Nat, NEW mid \in Nat, NEW hi \in Nat,
         lo <= mid, mid <= hi, hi <= Len(bytes)
  PROVE  Stretch(bytes, lo, mid) \o Stretch(bytes, mid, hi) = Stretch(bytes, lo, hi)
<1>1. PICK size \in Nat : size = Len(bytes)
  BY SequenceLength
<1>2. PICK a, b, c, t : /\ a = Stretch(bytes, lo, mid) /\ b = Stretch(bytes, mid, hi)
                        /\ c = Stretch(bytes, lo, hi) /\ t = a \o b
  OBVIOUS
<1>3. mid <= size /\ lo <= hi
  BY <1>1
<1>4. IsStretch(a, bytes, lo, mid) /\ IsStretch(b, bytes, mid, hi)
  BY <1>1, <1>2, <1>3, StretchPart
<1>5. IsStretch(c, bytes, lo, hi)
  BY <1>2, <1>3, StretchPart
<1>6. IsSequence(a) /\ IsSequence(b) /\ Len(a) = mid - lo /\ Len(b) = hi - mid
  BY <1>4 DEF IsStretch
<1>7. /\ IsSequence(t) /\ Len(t) = hi - lo
      /\ \A i \in 1..(hi - lo) : t[i] = IF i <= mid - lo THEN a[i] ELSE b[i - (mid - lo)]
  <2>1. Len(a) + Len(b) = hi - lo
    BY <1>6
  <2>2. /\ IsSequence(a \o b) /\ Len(a \o b) = Len(a) + Len(b)
        /\ \A i \in 1..(Len(a) + Len(b)) : (a \o b)[i] = IF i <= Len(a) THEN a[i] ELSE b[i - Len(a)]
    BY <1>6, SequencesJoined, Zenon
  <2>3. \A i \in 1..(hi - lo) : t[i] = IF i <= Len(a) THEN a[i] ELSE b[i - Len(a)]
    BY <1>2, <2>1, <2>2, Zenon
  <2>4. Len(a) = mid - lo
    BY <1>6
  <2> QED
    BY <1>2, <2>1, <2>2, <2>3, <2>4, Zenon
<1>8. ASSUME NEW i \in 1..(hi - lo) PROVE t[i] = c[i]
  <2>0. c[i] = bytes[lo + i]
    BY <1>5 DEF IsStretch
  <2>1. CASE i <= mid - lo
    <3>1. i \in 1..(mid - lo)
      BY <2>1
    <3> QED
      BY <3>1, <2>0, <2>1, <1>4, <1>7 DEF IsStretch
  <2>2. CASE ~(i <= mid - lo)
    <3>1. i - (mid - lo) \in 1..(hi - mid) /\ mid + (i - (mid - lo)) = lo + i
      BY <2>2
    <3>2. b[i - (mid - lo)] = bytes[mid + (i - (mid - lo))]
      BY <3>1, <1>4 DEF IsStretch
    <3> QED
      BY <3>1, <3>2, <2>0, <2>2, <1>7
  <2> QED
    BY <2>1, <2>2
<1>9. t = c
  BY <1>5, <1>7, <1>8, SequencesEqual DEF IsStretch
<1> QED
  BY <1>2, <1>9

\* A stretch of bytes that more bytes follow.
LEMMA StretchBefore ==
  ASSUME NEW bytes, IsSequence(bytes), NEW more, IsSequence(more),
         NEW lo \in Nat, NEW hi \in Nat, lo <= hi, hi <= Len(bytes)
  PROVE  Stretch(bytes \o more, lo, hi) = Stretch(bytes, lo, hi)
<1>1. PICK size \in Nat, plus \in Nat : size = Len(bytes) /\ plus = Len(more)
  BY SequenceLength
<1>2. PICK all, t, u : all = bytes \o more /\ t = Stretch(all, lo, hi) /\ u = Stretch(bytes, lo, hi)
  OBVIOUS
<1>3. /\ IsSequence(all) /\ Len(all) = size + plus
      /\ \A i \in 1..(size + plus) : all[i] = IF i <= size THEN bytes[i] ELSE more[i - size]
  BY <1>1, <1>2, SequencesJoined
<1>4. IsStretch(u, bytes, lo, hi)
  BY <1>2, StretchPart
<1>5. IsStretch(t, all, lo, hi)
  <2>1. hi <= Len(all)
    BY <1>1, <1>3
  <2> QED
    BY <1>2, <1>3, <2>1, StretchPart
<1>6. ASSUME NEW i \in 1..(hi - lo) PROVE t[i] = u[i]
  <2>1. lo + i \in 1..(size + plus) /\ lo + i <= size
    BY <1>1
  <2>2. t[i] = all[lo + i] /\ u[i] = bytes[lo + i]
    BY <1>4, <1>5 DEF IsStretch
  <2> QED
    BY <2>1, <2>2, <1>3
<1>7. t = u
  BY <1>4, <1>5, <1>6, SequencesEqual DEF IsStretch
<1> QED
  BY <1>2, <1>7

\* A stretch of what follows.
LEMMA StretchBehind ==
  ASSUME NEW bytes, IsSequence(bytes), NEW more, IsSequence(more),
         NEW x \in Nat, NEW y \in Nat, x <= y, y <= Len(more)
  PROVE  Stretch(bytes \o more, Len(bytes) + x, Len(bytes) + y) = Stretch(more, x, y)
<1>1. PICK size \in Nat, plus \in Nat : size = Len(bytes) /\ plus = Len(more)
  BY SequenceLength
<1>2. PICK lo \in Nat, hi \in Nat : lo = size + x /\ hi = size + y
  OBVIOUS
<1>3. PICK all, t, u : all = bytes \o more /\ t = Stretch(all, lo, hi) /\ u = Stretch(more, x, y)
  OBVIOUS
<1>4. /\ IsSequence(all) /\ Len(all) = size + plus
      /\ \A i \in 1..(size + plus) : all[i] = IF i <= size THEN bytes[i] ELSE more[i - size]
  BY <1>1, <1>3, SequencesJoined
<1>5. IsStretch(u, more, x, y)
  BY <1>3, StretchPart
<1>6. IsStretch(t, all, lo, hi)
  <2>1. lo <= hi /\ hi <= Len(all)
    BY <1>1, <1>2, <1>4
  <2> QED
    BY <1>3, <1>4, <2>1, StretchPart
<1>7. hi - lo = y - x
  BY <1>2
<1>8. ASSUME NEW i \in 1..(y - x) PROVE t[i] = u[i]
  <2>1. lo + i \in 1..(size + plus) /\ ~(lo + i <= size) /\ (lo + i) - size = x + i
    BY <1>1, <1>2
  <2>2. t[i] = all[lo + i] /\ u[i] = more[x + i]
    BY <1>5, <1>6, <1>7 DEF IsStretch
  <2> QED
    BY <2>1, <2>2, <1>4
<1>9. t = u
  BY <1>5, <1>6, <1>7, <1>8, SequencesEqual DEF IsStretch
<1> QED
  BY <1>1, <1>2, <1>3, <1>9

\* The rest of the bytes when more follow.
LEMMA StretchRest ==
  ASSUME NEW bytes, IsSequence(bytes), NEW more, IsSequence(more), NEW lo \in Nat, lo <= Len(bytes)
  PROVE  Stretch(bytes \o more, lo, Len(bytes \o more)) = Stretch(bytes, lo, Len(bytes)) \o more
<1>1. PICK size \in Nat, plus \in Nat : size = Len(bytes) /\ plus = Len(more)
  BY SequenceLength
<1>2. PICK all : all = bytes \o more
  OBVIOUS
<1>3. IsSequence(all) /\ Len(all) = size + plus
  BY <1>1, <1>2, SequencesJoined
<1>4. Stretch(all, lo, size) \o Stretch(all, size, size + plus) = Stretch(all, lo, size + plus)
  <2>1. size + plus \in Nat /\ lo <= size /\ size <= size + plus /\ size + plus <= Len(all)
    BY <1>1, <1>3
  <2> QED
    BY <1>3, <2>1, StretchOn
<1>5. Stretch(all, lo, size) = Stretch(bytes, lo, size)
  BY <1>1, <1>2, StretchBefore
<1>6. Stretch(all, size, size + plus) = Stretch(more, 0, plus)
  <2>0. 0 \in Nat /\ 0 <= plus /\ plus <= Len(more)
    BY <1>1
  <2>1. Stretch(bytes \o more, Len(bytes) + 0, Len(bytes) + plus) = Stretch(more, 0, plus)
    BY <2>0, StretchBehind
  <2>2. size + 0 = size
    OBVIOUS
  <2> QED
    BY <1>1, <1>2, <2>1, <2>2
<1>7. Stretch(more, 0, plus) = more
  BY <1>1, StretchAll
<1> QED
  BY <1>1, <1>2, <1>3, <1>4, <1>5, <1>6, <1>7

---------------------------------------------------------------------------
(* The decoder at work on a talk that came in as far as token e.           *)

Wire(talk, lo, hi) == SubSeq(talk.wire, lo + 1, hi)
\* the messages that the first k frames tell, as the backend of stream s gets them
Passing(s, talk, k) ==
  [i \in 1..Len(talk.told[k].messages) |-> [from |-> s, message |-> talk.told[k].messages[i]]]
\* the decoder once k frames are taken off
Reading(talk, k, e) == [buf |-> Wire(talk, talk.ends[k], e), frag |-> talk.told[k].frag]
\* what has come of a run when the backend got base before: the messages of some frames,
\* none of which ended it, and while no close was seen the rest is still to be parsed
Faithful(run, s, talk, base, e) ==
  /\ IsSequence(run.events) /\ IsSequence(Messages(s, run.events))
  /\ \E k \in 0..Len(talk.frames) :
       /\ ~talk.told[k].over /\ base \o Messages(s, run.events) = Passing(s, talk, k)
       /\ ~HasClose(run.events) => talk.ends[k] <= e /\ run.d = Reading(talk, k, e)

\* What is said of a talk's parts.
LEMMA TalkParts ==
  ASSUME NEW talk, IsTalk(talk)
  PROVE  /\ Len(talk.frames) \in Nat /\ Len(talk.wire) \in Nat
         /\ \E S : talk.wire \in Seq(S)
         /\ \A k \in 0..Len(talk.frames) : talk.ends[k] \in 0..Len(talk.wire) /\ talk.told[k] \in Tales
         /\ talk.ends[0] = 0 /\ talk.told[0] = NothingTold
         /\ \A k \in 0..(Len(talk.frames) - 1) :
              /\ talk.frames[k + 1] \in Framed /\ talk.ends[k] <= talk.ends[k + 1]
              /\ IsFrame(Wire(talk, talk.ends[k], talk.ends[k + 1]), talk.frames[k + 1])
              /\ talk.told[k + 1] = Follows(talk.told[k], talk.frames[k + 1])
<1>1. Len(talk.frames) \in Nat /\ Len(talk.wire) \in Nat /\ talk.frames \in Seq(Framed)
  BY DEF IsTalk
<1>2. talk.wire \in Seq({talk.wire[i] : i \in 1..Len(talk.wire)})
  <2>1. PICK n \in Nat : n = Len(talk.wire) /\ talk.wire = [i \in 1..n |-> talk.wire[i]]
    BY DEF IsTalk
  <2> QED
    BY <2>1
<1>3. ASSUME NEW k \in 0..(Len(talk.frames) - 1)
      PROVE  /\ talk.frames[k + 1] \in Framed /\ talk.ends[k] <= talk.ends[k + 1]
             /\ IsFrame(Wire(talk, talk.ends[k], talk.ends[k + 1]), talk.frames[k + 1])
             /\ talk.told[k + 1] = Follows(talk.told[k], talk.frames[k + 1])
  <2>1. PICK j \in 1..Len(talk.frames) : j = k + 1 /\ j - 1 = k
    BY <1>1
  <2>2. /\ talk.ends[j - 1] <= talk.ends[j]
        /\ IsFrame(SubSeq(talk.wire, talk.ends[j - 1] + 1, talk.ends[j]), talk.frames[j])
        /\ talk.told[j] = Follows(talk.told[j - 1], talk.frames[j])
    BY DEF IsTalk
  <2>3. talk.frames[j] \in Framed
    BY <1>1
  <2> QED
    BY <2>1, <2>2, <2>3 DEF Wire
<1>4. \A k \in 0..Len(talk.frames) : talk.ends[k] \in 0..Len(talk.wire) /\ talk.told[k] \in Tales
  BY DEF IsTalk
<1> QED
  BY <1>1, <1>2, <1>3, <1>4 DEF IsTalk

\* A stretch of the wire, token by token.
LEMMA WirePart ==
  ASSUME NEW talk, NEW S, talk.wire \in Seq(S), NEW lo \in Nat, NEW hi \in Nat,
         NEW size \in Nat, size = Len(talk.wire), lo <= hi, hi <= size
  PROVE  /\ Wire(talk, lo, hi) \in Seq(S) /\ Len(Wire(talk, lo, hi)) = hi - lo
         /\ \A i \in 1..(hi - lo) : Wire(talk, lo, hi)[i] = talk.wire[lo + i]
<1>1. PICK t : t = Wire(talk, lo, hi) /\ t = Stretch(talk.wire, lo, hi)
  BY DEF Wire, Stretch
<1>2. IsStretch(t, talk.wire, lo, hi)
  <2>1. IsSequence(talk.wire) /\ hi <= Len(talk.wire)
    BY DEF IsSequence
  <2> QED
    BY <1>1, <2>1, StretchPart
<1>3. t \in Seq(S)
  <2>1. lo + 1 \in 1..Len(talk.wire) + 1 /\ hi \in (lo + 1) - 1..Len(talk.wire)
    OBVIOUS
  <2>2. SubSeq(talk.wire, lo + 1, hi) \in Seq(S)
    BY <2>1, SubSeqProperties
  <2> QED
    BY <1>1, <2>2 DEF Wire
<1> QED
  BY <1>1, <1>2, <1>3 DEF IsStretch

\* A stretch of the wire behind its first part.
LEMMA WireBehind ==
  ASSUME NEW talk, IsSequence(talk.wire), NEW lo \in Nat, NEW mid \in Nat, NEW hi \in Nat,
         lo <= mid, mid <= hi, hi <= Len(talk.wire)
  PROVE  SubSeq(Wire(talk, lo, hi), (mid - lo) + 1, hi - lo) = Wire(talk, mid, hi)
<1>1. PICK x \in Nat, y \in Nat : x = mid - lo /\ y = hi - lo /\ x <= y /\ lo + x = mid /\ lo + y = hi
  <2>1. \A a, b, c \in Nat : a <= b /\ b <= c =>
          b - a \in Nat /\ c - a \in Nat /\ b - a <= c - a /\ a + (b - a) = b /\ a + (c - a) = c
    OBVIOUS
  <2> QED
    BY <2>1
<1>2. Stretch(Stretch(talk.wire, lo, hi), x, y) = Stretch(talk.wire, lo + x, lo + y)
  <2>1. lo + y <= hi
    BY <1>1
  <2> QED
    BY <1>1, <2>1, StretchInside
<1> QED
  BY <1>1, <1>2 DEF Wire, Stretch

\* What one more message adds to what the backend got.
LEMMA PassingMore ==
  ASSUME NEW talk, IsTalk(talk), NEW s, NEW k \in 0..(Len(talk.frames) - 1), NEW m,
         talk.told[k + 1].messages = Append(talk.told[k].messages, m)
  PROVE  Passing(s, talk, k + 1) = Append(Passing(s, talk, k), [from |-> s, message |-> m])
<1>1. k \in 0..Len(talk.frames) /\ k + 1 \in 0..Len(talk.frames)
  BY TalkParts
<1>2. talk.told[k].messages \in Seq(Messaged) /\ talk.told[k + 1].messages \in Seq(Messaged)
  BY <1>1, TalkParts DEF Tales
<1> DEFINE old == talk.told[k].messages
           new == talk.told[k + 1].messages
           n == Len(old)
<1>3. n \in Nat /\ Len(new) = n + 1 /\ new[n + 1] = m /\ \A i \in 1..n : new[i] = old[i]
  <2>1. PICK x : x = talk.told[k].messages /\ x \in Seq(Messaged \union {m})
    BY <1>2, SeqMonotonic
  <2>2. Append(x, m) = new
    BY <2>1
  <2>3. Len(Append(x, m)) = Len(x) + 1 /\ Append(x, m)[Len(x) + 1] = m /\ Len(x) \in Nat
        /\ \A i \in 1..Len(x) : Append(x, m)[i] = x[i]
    <3> DEFINE Both == Messaged \union {m}
    <3>1. x \in Seq(Both) /\ m \in Both
      BY <2>1
    <3> HIDE DEF Both, old, new, n
    <3> QED
      BY <3>1, AppendProperties, LenProperties
  <2> QED
    BY <2>1, <2>2, <2>3
<1> DEFINE p == [i \in 1..n |-> [from |-> s, message |-> old[i]]]
           q == [i \in 1..(n + 1) |-> [from |-> s, message |-> new[i]]]
           e == [from |-> s, message |-> m]
<1>4. Passing(s, talk, k) = p /\ Passing(s, talk, k + 1) = q
  BY <1>3 DEF Passing
<1> HIDE DEF old, new, n
<1>5. q = Append(p, e)
  <2> DEFINE Any == {e} \union {p[i] : i \in 1..n}
  <2>1. p \in Seq(Any) /\ Len(p) = n /\ e \in Any
    <3>1. n \in Nat /\ \A i \in 1..n : p[i] \in Any
      BY <1>3
    <3>2. p = [i \in 1..n |-> p[i]] /\ e \in Any
      OBVIOUS
    <3> HIDE DEF p, e, Any
    <3> QED
      BY <3>1, <3>2
  <2>2. Append(p, e) \in Seq(Any) /\ Len(Append(p, e)) = n + 1 /\ Append(p, e)[n + 1] = e
        /\ \A i \in 1..n : Append(p, e)[i] = p[i]
    <3> HIDE DEF p, e, Any
    <3> QED
      BY <1>3, <2>1
  <2>3. \A i \in 1..(n + 1) : q[i] = IF i = n + 1 THEN e ELSE p[i]
    BY <1>3
  <2>4. Append(p, e) = [i \in 1..(n + 1) |-> Append(p, e)[i]] /\ q = [i \in 1..(n + 1) |-> q[i]]
    <3>1. q = [i \in 1..(n + 1) |-> q[i]]
      OBVIOUS
    <3>2. PICK r : r = Append(p, e)
      OBVIOUS
    <3>3. r \in Seq(Any) /\ Len(r) = n + 1
      BY <2>2, <3>2
    <3>4. r = [i \in 1..(n + 1) |-> r[i]]
      <4> HIDE DEF Any
      <4> QED
        BY <3>3
    <3> QED
      BY <3>1, <3>2, <3>4
  <2>5. \A i \in 1..(n + 1) : q[i] = Append(p, e)[i]
    <3> HIDE DEF p, e, Any, q
    <3> QED
      BY <1>3, <2>2, <2>3
  <2> HIDE DEF p, e, q
  <2> QED
    BY <2>4, <2>5
<1> QED
  BY <1>4, <1>5

\* A call of the decoder keeps a run faithful to the talk.
LEMMA TakenFaithful ==
  ASSUME NEW talk, IsTalk(talk), NEW s, NEW S, NEW base \in Seq(S), NEW e \in 0..Len(talk.wire),
         NEW run, Faithful(run, s, talk, base, e)
  PROVE  Faithful(Taken(run, ParseOne(run.d)), s, talk, base, e)
<1> DEFINE one == ParseOne(run.d)
           next == Taken(run, one)
           n == Len(talk.frames)
<1> SUFFICES Faithful(next, s, talk, base, e)
  OBVIOUS
<1>1. n \in Nat /\ Len(talk.wire) \in Nat
  BY TalkParts
<1>2. PICK k \in 0..n :
         /\ ~talk.told[k].over /\ base \o Messages(s, run.events) = Passing(s, talk, k)
         /\ ~HasClose(run.events) => talk.ends[k] <= e /\ run.d = Reading(talk, k, e)
  BY DEF Faithful
<1>3. /\ one.some /\ one.event.type = "more" => next = [events |-> run.events, d |-> one.d]
      /\ one.some /\ one.event.type # "more" => next = [events |-> Append(run.events, one.event), d |-> one.d]
      /\ ~one.some => next = run
  BY DEF Taken
<1> HIDE DEF one, next
<1>4. CASE ~one.some
  BY <1>3, <1>4
<1>5. ASSUME one.some, one.event.type # "more"
      PROVE  /\ IsSequence(next.events) /\ next.d = one.d
             /\ HasClose(next.events) <=> HasClose(run.events) \/ one.event.type = "close"
             /\ Messages(s, next.events)
                  = IF ~HasClose(run.events) /\ one.event.type = "data" THEN Append(Messages(s, run.events), Given(s, one.event))
                    ELSE Messages(s, run.events)
             /\ IsSequence(Messages(s, next.events))
  <2>1. PICK A : run.events \in Seq(A)
    BY DEF Faithful, IsSequence
  <2>2. PICK ev : ev = one.event
    OBVIOUS
  <2> DEFINE B == A \union {ev}
             evs == run.events
             more == Append(evs, ev)
  <2>3. evs \in Seq(B) /\ ev \in B
    BY <2>1, SeqMonotonic
  <2>4. next.events = more /\ next.d = one.d
    BY <1>3, <1>5, <2>2
  <2> HIDE DEF B, evs
  <2>5. more \in Seq(B) /\ Len(more) = Len(evs) + 1 /\ Len(evs) \in Nat /\ more[Len(evs) + 1] = ev
        /\ \A i \in 1..Len(evs) : more[i] = evs[i]
    BY <2>3
  <2>6. Messages(s, more) = IF ~HasClose(evs) /\ ev.type = "data" THEN Append(Messages(s, evs), Given(s, ev))
                            ELSE Messages(s, evs)
    BY <2>3, MessagesAppend
  <2> HIDE DEF more
  <2>7. HasClose(more) <=> HasClose(evs) \/ ev.type = "close"
    <3>1. \A i : i \in 1..Len(more) <=> i \in 1..Len(evs) \/ i = Len(evs) + 1
      BY <2>5
    <3> QED
      BY <2>5, <3>1 DEF HasClose
  <2>8. IsSequence(Messages(s, more))
    <3>1. PICK C : Messages(s, evs) \in Seq(C)
      BY DEF Faithful, IsSequence, evs
    <3>2. PICK m : m = Messages(s, evs)
      OBVIOUS
    <3>3. PICK g : g = Given(s, ev)
      OBVIOUS
    <3>4. m \in Seq(C \union {g}) /\ Append(m, g) \in Seq(C \union {g})
      <4>1. m \in Seq(C \union {g})
        BY <3>1, <3>2, SeqMonotonic
      <4> QED
        BY <4>1
    <3>5. Messages(s, more) \in {m, Append(m, g)}
      BY <2>6, <3>2, <3>3
    <3> QED
      BY <3>4, <3>5 DEF IsSequence
  <2>9. IsSequence(more)
    BY <2>5 DEF IsSequence
  <2> QED
    BY <2>2, <2>4, <2>6, <2>7, <2>8, <2>9 DEF evs
<1>6. CASE one.some /\ HasClose(run.events)
  <2>1. CASE one.event.type = "more"
    <3>1. next = [events |-> run.events, d |-> one.d]
      BY <1>3, <1>6, <2>1
    <3>2. next.events = run.events
      BY <3>1
    <3> QED
      BY <1>2, <1>6, <3>2 DEF Faithful
  <2>2. CASE one.event.type # "more"
    <3>1. Messages(s, next.events) = Messages(s, run.events) /\ HasClose(next.events) /\ IsSequence(next.events)
      BY <1>5, <1>6, <2>2
    <3> QED
      BY <1>2, <3>1 DEF Faithful
  <2> QED
    BY <2>1, <2>2
<1>7. CASE one.some /\ ~HasClose(run.events) /\ one.event.type = "close"
  <2>1. Messages(s, next.events) = Messages(s, run.events) /\ HasClose(next.events) /\ IsSequence(next.events)
    BY <1>5, <1>7
  <2> QED
    BY <1>2, <2>1 DEF Faithful
<1>8. CASE one.some /\ ~HasClose(run.events) /\ one.event.type # "close"
  <2>1. talk.ends[k] <= e /\ run.d = Reading(talk, k, e)
    BY <1>2, <1>8
  <2> DEFINE b == Wire(talk, talk.ends[k], e)
             frag == talk.told[k].frag
  <2>2. PICK W : talk.wire \in Seq(W)
    BY TalkParts
  <2>3. PICK lo \in Nat, size \in Nat : lo = talk.ends[k] /\ size = Len(talk.wire) /\ lo <= e /\ e \in Nat /\ e <= size
    BY <1>1, <2>1, TalkParts
  <2>21. size = Len(talk.wire) /\ lo <= e /\ e <= size /\ lo <= size
    BY <2>3
  <2>22. ASSUME NEW x \in Nat, NEW y \in Nat, x <= y, y <= size
         PROVE  /\ Wire(talk, x, y) \in Seq(W) /\ Len(Wire(talk, x, y)) = y - x
                /\ \A i \in 1..(y - x) : Wire(talk, x, y)[i] = talk.wire[x + i]
    BY <2>2, <2>21, <2>22, WirePart, ZenonT(40)
  <2>4. b \in Seq(W) /\ Len(b) = e - lo /\ \A i \in 1..(e - lo) : b[i] = talk.wire[lo + i]
    BY <2>3, <2>21, <2>22
  <2>5. one = ParseOne([buf |-> b, frag |-> frag])
    BY <2>1 DEF one, Reading
  <2> HIDE DEF b, frag
  <2>6. k # n
    <3> SUFFICES ASSUME k = n PROVE FALSE
      OBVIOUS
    <3> DEFINE u == Wire(talk, talk.ends[n], Len(talk.wire))
    <3>1. u = <<>> \/ Unsupported(u)
      BY DEF IsTalk, Wire
    <3>2. /\ u \in Seq(W) /\ Len(u) = size - lo
          /\ \A i \in 1..(size - lo) : u[i] = talk.wire[lo + i]
      <4>1. u = Wire(talk, lo, size) /\ lo <= size
        BY <2>3
      <4> HIDE DEF u
      <4>2. /\ Wire(talk, lo, size) \in Seq(W) /\ Len(Wire(talk, lo, size)) = size - lo
            /\ \A i \in 1..(size - lo) : Wire(talk, lo, size)[i] = talk.wire[lo + i]
        <5>1. size \in Nat /\ lo \in Nat /\ size <= size /\ lo <= size
          BY <2>21
        <5> HIDE <2>3
        <5> QED
          BY <2>22, <5>1
      <4> QED
        BY <4>1, <4>2
    <3> HIDE DEF u
    <3>3. CASE u = <<>>
      <4>1. Len(b) < 2
        BY <1>1, <2>3, <2>4, <3>2, <3>3
      <4> DEFINE d == [buf |-> b, frag |-> frag]
      <4>2. d.buf = b
        OBVIOUS
      <4> HIDE DEF d
      <4>3. ParseOne(d) = Nothing(d)
        BY <4>1, <4>2 DEF ParseOne
      <4>4. ~one.some
        BY <2>5, <4>3 DEF Nothing, d
      <4> QED
        BY <1>8, <4>4
    <3>4. CASE Unsupported(u)
      <4>1. Len(b) <= Len(u) /\ Len(u) \in Nat
        BY <2>3, <2>4, <3>2
      <4>2. ASSUME NEW i \in 1..Len(b) PROVE b[i] = u[i]
        <5>1. i \in 1..(e - lo) /\ i \in 1..(size - lo)
          BY <2>3, <2>4
        <5> QED
          BY <2>4, <3>2, <5>1
      <4>3. one.event = CloseEvent
        BY <1>8, <2>4, <2>5, <3>4, <4>1, <4>2, RefusesUnsupported
      <4> QED
        BY <1>8, <4>3 DEF CloseEvent, WsEvent
    <3> QED
      BY <3>1, <3>3, <3>4
  <2>7. k \in 0..(n - 1) /\ k + 1 \in 0..n
    BY <1>1, <2>6
  <2> DEFINE f == talk.frames[k + 1]
             F == Wire(talk, talk.ends[k], talk.ends[k + 1])
  <2>8. /\ f \in Framed /\ talk.ends[k] <= talk.ends[k + 1] /\ IsFrame(F, f)
        /\ talk.told[k + 1] = Follows(talk.told[k], f)
        /\ talk.ends[k + 1] \in 0..Len(talk.wire)
    BY <1>1, <2>7, TalkParts
  <2> HIDE DEF f
  <2>20. PICK mid \in Nat : mid = talk.ends[k + 1] /\ lo <= mid /\ mid <= size
    BY <2>3, <2>8
  <2>9. Len(F) = mid - lo /\ \A i \in 1..(mid - lo) : F[i] = talk.wire[lo + i]
    <3>1. F = Wire(talk, lo, mid)
      BY <2>3, <2>20
    <3> HIDE DEF F
    <3> QED
      BY <2>3, <2>20, <2>22, <3>1
  <2> HIDE DEF F
  <2>10. talk.ends[k + 1] <= e
    <3> SUFFICES ASSUME ~(mid <= e) PROVE FALSE
      BY <2>20
    <3>1. Len(b) < Len(F) /\ \A i \in 1..Len(b) : b[i] = F[i]
      <4>1. Len(b) < Len(F)
        BY <2>3, <2>4, <2>9
      <4>2. ASSUME NEW i \in 1..Len(b) PROVE b[i] = F[i]
        <5>1. i \in 1..(e - lo) /\ i \in 1..(mid - lo)
          BY <2>3, <2>4
        <5> QED
          BY <2>4, <2>9, <5>1
      <4> QED
        BY <4>1, <4>2
    <3>2. ~one.some
      BY <2>4, <2>5, <2>8, <3>1, WaitsForWhole
    <3> QED
      BY <1>8, <3>2
  <2> DEFINE rest == Wire(talk, talk.ends[k + 1], e)
  <2>11. one = Assembled([fin |-> f.fin, op |-> f.op], f.payload, [buf |-> rest, frag |-> frag])
    <3>0. mid <= e
      BY <2>10, <2>20
    <3>1. Len(F) <= Len(b) /\ \A i \in 1..Len(F) : b[i] = F[i]
      <4>1. Len(F) <= Len(b)
        BY <2>3, <2>4, <2>9, <3>0
      <4>2. ASSUME NEW i \in 1..Len(F) PROVE b[i] = F[i]
        <5>1. i \in 1..(e - lo) /\ i \in 1..(mid - lo)
          BY <2>3, <2>9, <3>0
        <5> QED
          BY <2>4, <2>9, <5>1
      <4> QED
        BY <4>1, <4>2
    <3>2. one = Assembled([fin |-> f.fin, op |-> f.op], f.payload, [buf |-> SubSeq(b, Len(F) + 1, Len(b)), frag |-> frag])
      BY <2>4, <2>5, <2>8, <3>1, DecodesWhole
    <3>3. SubSeq(b, Len(F) + 1, Len(b)) = rest
      <4>1. SubSeq(Wire(talk, lo, e), mid - lo + 1, e - lo) = Wire(talk, mid, e)
        <5>1. lo <= mid /\ mid <= e /\ e <= Len(talk.wire) /\ e \in Nat
          BY <2>3, <2>20, <3>0
        <5>2. IsSequence(talk.wire)
          BY <2>2 DEF IsSequence
        <5> QED
          BY <5>1, <5>2, WireBehind, Zenon
      <4>2. b = Wire(talk, lo, e) /\ rest = Wire(talk, mid, e)
        BY <2>3, <2>20 DEF b
      <4> HIDE DEF rest
      <4> QED
        BY <2>4, <2>9, <4>1, <4>2
    <3> QED
      BY <3>2, <3>3
  <2> HIDE DEF rest
  <2>12. talk.told[k] \in Tales /\ ~talk.told[k].over
    BY <1>1, <1>2, TalkParts
  <2>13. /\ talk.told[k + 1].over => one.event.type = "close"
         /\ ~talk.told[k + 1].over =>
              /\ one.d = [buf |-> rest, frag |-> talk.told[k + 1].frag]
              /\ \/ one.event.type = "data"
                    /\ talk.told[k + 1].messages = Append(talk.told[k].messages, Message(one.event.op, one.event.payload))
                 \/ one.event.type \in {"more", "ping", "pong"} /\ talk.told[k + 1].messages = talk.told[k].messages
    <3>1. PICK tale \in Tales : tale = talk.told[k] /\ ~tale.over /\ frag = tale.frag
      BY <2>12 DEF frag
    <3>2. f \in Framed /\ talk.told[k + 1] = Follows(tale, f)
      BY <2>8, <3>1
    <3>3. one = Assembled([fin |-> f.fin, op |-> f.op], f.payload, [buf |-> rest, frag |-> tale.frag])
      BY <2>11, <3>1
    <3> HIDE DEF one, frag, f, b, rest
    <3> DEFINE a == Assembled([fin |-> f.fin, op |-> f.op], f.payload, [buf |-> rest, frag |-> tale.frag])
               nx == Follows(tale, f)
    <3>4. /\ nx.over => a.event.type = "close"
          /\ ~nx.over =>
               /\ a.d = [buf |-> rest, frag |-> nx.frag]
               /\ \/ a.event.type = "data" /\ nx.messages = Append(tale.messages, Message(a.event.op, a.event.payload))
                  \/ a.event.type \in {"more", "ping", "pong"} /\ nx.messages = tale.messages
      BY <3>1, <3>2, AssembledFollows
    <3>5. one = a /\ talk.told[k + 1] = nx
      BY <3>2, <3>3
    <3> HIDE DEF a, nx
    <3> QED
      BY <3>1, <3>4, <3>5
  <2>14. ~talk.told[k + 1].over /\ one.d = Reading(talk, k + 1, e)
    BY <1>8, <2>13 DEF Reading, rest
  <2>15. CASE one.event.type = "more"
    <3>1. next = [events |-> run.events, d |-> one.d]
      BY <1>3, <1>8, <2>15
    <3>2. next.events = run.events /\ next.d = one.d
      BY <3>1
    <3>3. Passing(s, talk, k + 1) = Passing(s, talk, k)
      BY <2>13, <2>14, <2>15 DEF Passing
    <3> QED
      BY <1>2, <2>7, <2>10, <2>14, <3>2, <3>3 DEF Faithful
  <2>16. CASE one.event.type \in {"ping", "pong"}
    <3>1. Messages(s, next.events) = Messages(s, run.events) /\ IsSequence(next.events) /\ next.d = one.d
      BY <1>5, <1>8, <2>16
    <3>2. Passing(s, talk, k + 1) = Passing(s, talk, k)
      BY <2>13, <2>14, <2>16 DEF Passing
    <3> QED
      BY <1>2, <2>7, <2>10, <2>14, <3>1, <3>2 DEF Faithful
  <2>17. CASE one.event.type = "data"
    <3>1. /\ Messages(s, next.events) = Append(Messages(s, run.events), Given(s, one.event))
          /\ IsSequence(next.events) /\ next.d = one.d /\ IsSequence(Messages(s, next.events))
      BY <1>5, <1>8, <2>17
    <3>2. talk.told[k + 1].messages = Append(talk.told[k].messages, Message(one.event.op, one.event.payload))
      BY <2>13, <2>14, <2>17
    <3>3. Passing(s, talk, k + 1) = Append(Passing(s, talk, k), Given(s, one.event))
      BY <2>7, <3>2, PassingMore DEF Given
    <3>4. base \o Append(Messages(s, run.events), Given(s, one.event)) = Append(base \o Messages(s, run.events), Given(s, one.event))
      <4>1. PICK C : Messages(s, run.events) \in Seq(C)
        BY DEF Faithful, IsSequence
      <4>2. PICK g : g = Given(s, one.event)
        OBVIOUS
      <4>3. PICK m : m = Messages(s, run.events)
        OBVIOUS
      <4> DEFINE D == S \union C \union {g}
      <4>4. base \in Seq(D) /\ m \in Seq(D) /\ g \in D
        BY <4>1, <4>3, SeqMonotonic
      <4> HIDE DEF D
      <4>5. base \o Append(m, g) = Append(base \o m, g)
        BY <4>4
      <4> QED
        BY <4>2, <4>3, <4>5
    <3> QED
      BY <1>2, <2>7, <2>10, <2>14, <3>1, <3>3, <3>4 DEF Faithful
  <2> QED
    BY <2>13, <2>14, <2>15, <2>16, <2>17
<1> QED
  BY <1>4, <1>6, <1>7, <1>8

---------------------------------------------------------------------------
(* The bytes of a stream in chunks: some read, some in the queue, the rest *)
(* to come.                                                                *)

\* Chunk i of the queue ends behind token marks[i] of all the bytes, and what was read at marks[0].
Marked(marks, queue, rest, bytes, e) ==
  /\ marks[0] = e /\ \A i \in 0..Len(queue) : marks[i] \in 0..Len(bytes)
  /\ \A i \in 1..Len(queue) : marks[i - 1] <= marks[i] /\ queue[i] = Stretch(bytes, marks[i - 1], marks[i])
  /\ rest = Stretch(bytes, marks[Len(queue)], Len(bytes))
InChunks(queue, rest, bytes, e) ==
  /\ IsSequence(queue) /\ IsSequence(bytes)
  /\ \E marks : Marked(marks, queue, rest, bytes, e)

\* A chunk of what is to come arrives.
LEMMA QueuedMore ==
  ASSUME NEW queue, NEW rest, NEW bytes, NEW e, InChunks(queue, rest, bytes, e), NEW k \in 1..Len(rest)
  PROVE  InChunks(Append(queue, SubSeq(rest, 1, k)), SubSeq(rest, k + 1, Len(rest)), bytes, e)
<1>1. PICK marks : Marked(marks, queue, rest, bytes, e)
  BY DEF InChunks
<1>2. IsSequence(queue) /\ IsSequence(bytes)
  BY DEF InChunks
<1>3. PICK n \in Nat, size \in Nat : n = Len(queue) /\ size = Len(bytes)
  BY <1>2, SequenceLength
<1>4. PICK lo \in 0..size : lo = marks[n] /\ rest = Stretch(bytes, lo, size)
  BY <1>1, <1>3 DEF Marked
<1>5. Len(rest) = size - lo
  <2>1. IsStretch(rest, bytes, lo, size)
    BY <1>2, <1>3, <1>4, StretchPart
  <2> QED
    BY <2>1 DEF IsStretch
<1>6. PICK hi \in 0..size : hi = lo + k
  BY <1>3, <1>4, <1>5
<1>7. SubSeq(rest, 1, k) = Stretch(bytes, lo, hi) /\ SubSeq(rest, k + 1, Len(rest)) = Stretch(bytes, hi, size)
  <2>1. /\ lo \in Nat /\ size \in Nat /\ size <= Len(bytes) /\ 0 \in Nat /\ k \in Nat /\ size - lo \in Nat
        /\ 0 <= k /\ lo + k <= size /\ k <= size - lo /\ lo + (size - lo) <= size
        /\ lo + (size - lo) = size /\ lo + 0 = lo
    BY <1>3, <1>4, <1>5, <1>6
  <2>5. ASSUME NEW x \in Nat, NEW y \in Nat, x <= y, lo + y <= size
        PROVE  Stretch(Stretch(bytes, lo, size), x, y) = Stretch(bytes, lo + x, lo + y)
    <3>1. lo \in Nat /\ size \in Nat /\ size <= Len(bytes)
      BY <2>1
    <3> QED
      BY <1>2, <2>5, <3>1, StretchInside
  <2>2. Stretch(Stretch(bytes, lo, size), 0, k) = Stretch(bytes, lo + 0, lo + k)
    BY <2>1, <2>5
  <2>3. Stretch(Stretch(bytes, lo, size), k, size - lo) = Stretch(bytes, lo + k, lo + (size - lo))
    BY <2>1, <2>5
  <2>4. 0 + 1 = 1
    OBVIOUS
  <2> QED
    BY <1>4, <1>5, <1>6, <2>1, <2>2, <2>3, <2>4 DEF Stretch
<1>8. PICK chunk : chunk = SubSeq(rest, 1, k)
  OBVIOUS
<1> DEFINE longer == Append(queue, chunk)
           more == [i \in 0..(n + 1) |-> IF i <= n THEN marks[i] ELSE hi]
<1>9. IsSequence(longer) /\ Len(longer) = n + 1 /\ longer[n + 1] = chunk /\ \A i \in 1..n : longer[i] = queue[i]
  <2>1. PICK S : queue \in Seq(S)
    BY <1>2 DEF IsSequence
  <2>2. queue \in Seq(S \union {chunk}) /\ chunk \in S \union {chunk}
    BY <2>1, SeqMonotonic
  <2>3. PICK q, T : q = queue /\ T = S \union {chunk} /\ q \in Seq(T) /\ chunk \in T
    BY <2>2
  <2>4. /\ Append(q, chunk) \in Seq(T) /\ Len(Append(q, chunk)) = Len(q) + 1
        /\ Append(q, chunk)[Len(q) + 1] = chunk /\ \A i \in 1..Len(q) : Append(q, chunk)[i] = q[i]
    BY <2>3
  <2> QED
    BY <1>3, <2>3, <2>4 DEF IsSequence
<1> HIDE DEF longer
<1>10. /\ more[n + 1] = hi /\ \A i \in 0..n : more[i] = marks[i]
  BY <1>3
<1> HIDE DEF more
<1>11. Marked(more, longer, Stretch(bytes, hi, size), bytes, e)
  <2>1. more[0] = e
    BY <1>1, <1>10 DEF Marked
  <2>2. ASSUME NEW i \in 0..(n + 1) PROVE more[i] \in 0..size
    <3>1. i \in 0..n \/ i = n + 1
      BY <1>3
    <3>2. CASE i = n + 1
      BY <3>2, <1>10
    <3>3. CASE i \in 0..n
      BY <3>3, <1>1, <1>3, <1>10 DEF Marked
    <3> QED
      BY <3>1, <3>2, <3>3
  <2>3. ASSUME NEW i \in 1..(n + 1)
        PROVE  more[i - 1] <= more[i] /\ longer[i] = Stretch(bytes, more[i - 1], more[i])
    <3>1. CASE i \in 1..n
      <4>1. i - 1 \in 0..n /\ i \in 0..n
        BY <3>1
      <4>2. marks[i - 1] <= marks[i] /\ queue[i] = Stretch(bytes, marks[i - 1], marks[i])
        BY <1>1, <1>3, <3>1 DEF Marked
      <4> QED
        BY <4>1, <4>2, <1>9, <1>10, <3>1
    <3>2. CASE i = n + 1
      <4>1. more[i - 1] = lo /\ more[i] = hi /\ longer[i] = chunk
        BY <1>4, <1>9, <1>10, <3>2
      <4>2. lo <= hi
        BY <1>6
      <4> QED
        BY <4>1, <4>2, <1>7, <1>8
    <3> QED
      BY <3>1, <3>2
  <2> QED
    BY <1>3, <1>9, <1>10, <2>1, <2>2, <2>3 DEF Marked
<1> QED
  BY <1>2, <1>3, <1>7, <1>8, <1>9, <1>11 DEF InChunks, longer

\* The visitor has more to say.
LEMMA QueuedSaid ==
  ASSUME NEW queue, NEW rest, NEW bytes, NEW e, InChunks(queue, rest, bytes, e), NEW words, IsSequence(words)
  PROVE  InChunks(queue, rest \o words, bytes \o words, e)
<1>1. PICK marks : Marked(marks, queue, rest, bytes, e)
  BY DEF InChunks
<1>2. IsSequence(queue) /\ IsSequence(bytes)
  BY DEF InChunks
<1>3. PICK n \in Nat, size \in Nat, plus \in Nat : n = Len(queue) /\ size = Len(bytes) /\ plus = Len(words)
  BY <1>2, SequenceLength
<1>4. PICK all : all = bytes \o words
  OBVIOUS
<1>5. IsSequence(all) /\ Len(all) = size + plus
  BY <1>2, <1>3, <1>4, SequencesJoined
<1>6. marks[0] = e /\ \A i \in 0..n : marks[i] \in 0..size
  BY <1>1, <1>3 DEF Marked
<1>7. ASSUME NEW i \in 1..n PROVE marks[i - 1] <= marks[i] /\ queue[i] = Stretch(all, marks[i - 1], marks[i])
  <2>1. i - 1 \in 0..n /\ i \in 0..n
    BY <1>3
  <2>2. marks[i - 1] <= marks[i] /\ queue[i] = Stretch(bytes, marks[i - 1], marks[i])
    BY <1>1, <1>3 DEF Marked
  <2>3. PICK lo \in Nat, hi \in Nat : lo = marks[i - 1] /\ hi = marks[i] /\ lo <= hi /\ hi <= size
    BY <1>6, <2>1, <2>2
  <2>4. Stretch(bytes \o words, lo, hi) = Stretch(bytes, lo, hi)
    BY <1>2, <1>3, <2>3, StretchBefore
  <2> QED
    BY <1>4, <2>2, <2>3, <2>4
<1>8. rest \o words = Stretch(all, marks[n], Len(all))
  <2>1. PICK lo \in Nat : lo = marks[n] /\ lo <= size /\ rest = Stretch(bytes, lo, Len(bytes))
    BY <1>1, <1>3, <1>6 DEF Marked
  <2>2. Stretch(bytes \o words, lo, Len(bytes \o words)) = Stretch(bytes, lo, Len(bytes)) \o words
    BY <1>2, <1>3, <2>1, StretchRest
  <2> QED
    BY <1>4, <2>1, <2>2
<1>9. Marked(marks, queue, rest \o words, all, e)
  <2>1. \A i \in 0..n : marks[i] \in 0..Len(all)
    BY <1>3, <1>5, <1>6
  <2> QED
    BY <1>3, <1>6, <1>7, <1>8, <2>1 DEF Marked
<1> QED
  BY <1>2, <1>4, <1>5, <1>9 DEF InChunks

\* The first chunk of the queue is read.
LEMMA QueuedRead ==
  ASSUME NEW queue, NEW rest, NEW bytes, NEW e, InChunks(queue, rest, bytes, e), queue # <<>>
  PROVE  \E on \in 0..Len(bytes) :
           /\ e \in Nat /\ e <= on /\ Head(queue) = Stretch(bytes, e, on)
           /\ InChunks(Tail(queue), rest, bytes, on)
<1>1. PICK marks : Marked(marks, queue, rest, bytes, e)
  BY DEF InChunks
<1>2. IsSequence(queue) /\ IsSequence(bytes)
  BY DEF InChunks
<1>3. PICK n \in Nat, size \in Nat : n = Len(queue) /\ size = Len(bytes)
  BY <1>2, SequenceLength
<1>4. PICK first, left : first = Head(queue) /\ left = Tail(queue)
  OBVIOUS
<1>5. /\ n >= 1 /\ first = queue[1] /\ IsSequence(left) /\ Len(left) = n - 1
      /\ \A i \in 1..(n - 1) : left[i] = queue[i + 1]
  <2>1. PICK S : queue \in Seq(S)
    BY <1>2 DEF IsSequence
  <2>2. n >= 1 /\ Head(queue) = queue[1] /\ Tail(queue) \in Seq(S) /\ Len(Tail(queue)) = n - 1
    BY <1>3, <2>1
  <2>3. \A i \in 1..(n - 1) : Tail(queue)[i] = queue[i + 1]
    BY <1>3, <2>1, <2>2
  <2> QED
    BY <1>4, <2>2, <2>3 DEF IsSequence
<1>6. PICK on \in 0..size : on = marks[1]
  BY <1>1, <1>3, <1>5 DEF Marked
<1>7. e \in Nat /\ e <= on /\ first = Stretch(bytes, e, on)
  <2>1. marks[1 - 1] <= marks[1] /\ queue[1] = Stretch(bytes, marks[1 - 1], marks[1])
    BY <1>1, <1>3, <1>5 DEF Marked
  <2>2. marks[0] = e /\ marks[0] \in 0..size
    BY <1>1, <1>3 DEF Marked
  <2> QED
    BY <1>3, <1>5, <1>6, <2>1, <2>2
<1> DEFINE less == [i \in 0..(n - 1) |-> marks[i + 1]]
<1>8. \A i \in 0..(n - 1) : less[i] = marks[i + 1]
  OBVIOUS
<1> HIDE DEF less
<1>9. Marked(less, left, rest, bytes, on)
  <2>1. less[0] = on /\ less[n - 1] = marks[n]
    BY <1>5, <1>6, <1>8
  <2>2. ASSUME NEW i \in 0..(n - 1) PROVE less[i] \in 0..size
    <3>1. i + 1 \in 0..n
      BY <1>3
    <3> QED
      BY <1>1, <1>3, <1>8, <3>1 DEF Marked
  <2>3. ASSUME NEW i \in 1..(n - 1)
        PROVE  less[i - 1] <= less[i] /\ left[i] = Stretch(bytes, less[i - 1], less[i])
    <3>1. i + 1 \in 1..n /\ (i + 1) - 1 = i /\ i - 1 \in 0..(n - 1) /\ i \in 0..(n - 1) /\ (i - 1) + 1 = i
      BY <1>3
    <3>2. marks[(i + 1) - 1] <= marks[i + 1] /\ queue[i + 1] = Stretch(bytes, marks[(i + 1) - 1], marks[i + 1])
      BY <1>1, <1>3, <3>1 DEF Marked
    <3>3. less[i - 1] = marks[(i - 1) + 1] /\ less[i] = marks[i + 1] /\ left[i] = queue[i + 1]
      BY <1>5, <1>8, <3>1
    <3>4. less[i - 1] = marks[i]
      BY <3>1, <3>3
    <3> QED
      BY <3>1, <3>2, <3>3, <3>4
  <2>4. rest = Stretch(bytes, marks[n], size)
    BY <1>1, <1>3 DEF Marked
  <2> QED
    BY <1>3, <1>5, <2>1, <2>2, <2>3, <2>4 DEF Marked
<1> QED
  BY <1>2, <1>3, <1>4, <1>5, <1>7, <1>9 DEF InChunks

\* However often the decoder is called on what is there, the run stays faithful.
LEMMA ParsedFaithful ==
  ASSUME NEW talk, IsTalk(talk), NEW s, NEW S, NEW base \in Seq(S), NEW e \in 0..Len(talk.wire),
         NEW k \in 0..Len(talk.frames), ~talk.told[k].over, base = Passing(s, talk, k), talk.ends[k] <= e,
         NEW calls \in Nat
  PROVE  \A run \in Parsed(Reading(talk, k, e), calls) : Faithful(run, s, talk, base, e)
<1>0. PICK d : d = Reading(talk, k, e)
  OBVIOUS
<1>1. PICK after : /\ after = [n \in Nat |-> IF n = 0 THEN FirstRun(d) ELSE NextRuns(after[n - 1])]
                   /\ \A n \in Nat : Parsed(d, n) = after[n]
  BY ParsedRuns
<1>2. ASSUME NEW run, run = [events |-> <<>>, d |-> d] PROVE Faithful(run, s, talk, base, e)
  <2>1. PICK none : none = <<>>
    OBVIOUS
  <2>2. run.events = none /\ run.d = d
    BY <1>2, <2>1
  <2>3. none \in Seq({}) /\ Len(none) = 0
    BY <2>1
  <2>4. Messages(s, none) = none
    BY <2>1, MessagesNone
  <2>5. base \o none = base
    BY <2>1
  <2>6. IsSequence(none)
    BY <2>3 DEF IsSequence
  <2> QED
    BY <1>0, <2>2, <2>4, <2>5, <2>6 DEF Faithful
<1> DEFINE T == {n \in Nat : ~\A run \in after[n] : Faithful(run, s, talk, base, e)}
<1>3. CASE T = {}
  BY <1>0, <1>1, <1>3
<1>4. CASE T # {}
  <2>1. PICK n \in T : \A j \in T : n <= j
    <3>1. T \subseteq Nat
      OBVIOUS
    <3> HIDE DEF T
    <3> QED
      BY <1>4, <3>1, LeastNumber
  <2>2. PICK run \in after[n] : ~Faithful(run, s, talk, base, e)
    OBVIOUS
  <2>3. CASE n = 0
    <3>1. run = [events |-> <<>>, d |-> d]
      BY <1>1, <2>2, <2>3 DEF FirstRun
    <3> QED
      BY <1>2, <2>2, <3>1
  <2>4. CASE n # 0
    <3>1. n \in Nat /\ n - 1 \in Nat /\ ~(n <= n - 1)
      BY <2>4
    <3>2. after[n] = NextRuns(after[n - 1])
      BY <1>1, <2>4, <3>1
    <3>3. PICK r \in after[n - 1] : run = Taken(r, ParseOne(r.d))
      BY <3>2, <2>2 DEF NextRuns
    <3>4. Faithful(r, s, talk, base, e)
      BY <3>1, <2>1
    <3>5. Faithful(Taken(r, ParseOne(r.d)), s, talk, base, e)
      BY <3>4, TakenFaithful
    <3> QED
      BY <3>3, <3>5, <2>2
  <2> QED
    BY <2>3, <2>4
<1> QED
  BY <1>3, <1>4

---------------------------------------------------------------------------
(* What the backend of a stream is told (ExtForward).                      *)

Preamble == <<"R", "r", "H", "h">>
\* all that the visitor of an upgraded stream says
Sent(s) == Preamble \o said[s].wire
Unspoken(s) == said[s] = Silent /\ passed[s] = <<>> /\ ws[s] = Decoder
\* the backend got the messages of the first frames, and none of these ended it all
Heard(s) ==
  \E k \in 0..Len(said[s].frames) : ~said[s].told[k].over /\ passed[s] = Passing(s, said[s], k)
\* and the decoder holds what was read behind them, up to token e of the talk
Bridged(s, e) ==
  \E k \in 0..Len(said[s].frames) :
    /\ ~said[s].told[k].over /\ passed[s] = Passing(s, said[s], k)
    /\ said[s].ends[k] <= e /\ ws[s] = Reading(said[s], k, e)
\* how far the handler has read, in what the visitor sent
ReadTo(s, e) ==
  \/ pc[s] = "relay" /\ Unspoken(s) /\ IsSequence(buf[s]) /\ e = Len(buf[s])
  \/ pc[s] = "head" /\ Unspoken(s) /\ IsSequence(buf[s]) /\ e = Len(buf[s]) + 2
  \/ pc[s] \in {"body", "opening", "accepting"} /\ Unspoken(s) /\ e = 4
  \/ pc[s] = "bridge" /\ e >= 4 /\ Bridged(s, e - 4)
Streaming(s) == \E e \in 0..Len(Sent(s)) : InChunks(inq[s], unsent[s], Sent(s), e) /\ ReadTo(s, e)
StreamWhole(s) == Heard(s) /\ (req[s].upgrade /\ pc[s] # "done" => Streaming(s))
\* the map has under an id a stream with that id
IdsKept ==
  /\ active \in [Ids -> Streams \union {NoStream}]
  /\ \A i \in Ids : active[i] # NoStream => IdOf[active[i]] = i
WholeTypes ==
  /\ req \in [Streams -> Requested]
  /\ DOMAIN inq = Streams /\ DOMAIN unsent = Streams /\ DOMAIN buf = Streams
  /\ DOMAIN ws = Streams /\ DOMAIN passed = Streams
WholeInv == WholeTypes /\ IdsKept /\ \A s \in Streams : StreamWhole(s)

\* No two streams share an id: the streams of one session.
OneSession == \A s, q \in Streams : IdOf[s] = IdOf[q] => s = q

\* Nothing is a talk too.
LEMMA SilentTalk == IsTalk(Silent)
<1> DEFINE none == <<>>
<1>1. /\ Silent.frames = none /\ Silent.wire = none /\ Silent.messages = none
      /\ Silent.ends = [k \in 0..0 |-> 0] /\ Silent.told = [k \in 0..0 |-> NothingTold]
  BY DEF Silent
<1>2. Len(none) = 0 /\ \A S : none \in Seq(S)
  OBVIOUS
<1>3. none = [i \in 1..0 |-> none[i]] /\ SubSeq(none, 0 + 1, 0) = none
  OBVIOUS
<1>4. NothingTold \in Tales /\ NothingTold.messages = none
  <2>1. none \in Seq(Nat) /\ none \in Seq(Messaged)
    <3>1. <<>> \in Seq(Nat) /\ <<>> \in Seq(Messaged)
      OBVIOUS
    <3> QED
      BY <3>1
  <2>2. NoFrag \in Messaged
    BY <2>1 DEF NoFrag, Messaged
  <2>3. NothingTold = [messages |-> none, frag |-> NoFrag, over |-> FALSE]
    BY DEF NothingTold
  <2> HIDE DEF none
  <2> QED
    BY <2>1, <2>2, <2>3 DEF Tales
<1> HIDE DEF none
<1>5. 0..0 = {0} /\ 1..0 = {}
  OBVIOUS
<1>6. Silent.ends \in [0..0 -> 0..0] /\ Silent.ends[0] = 0
  BY <1>1, <1>5
<1>7. Silent.told \in [0..0 -> Tales] /\ Silent.told[0] = NothingTold
  BY <1>1, <1>4, <1>5
<1> QED
  BY <1>1, <1>2, <1>3, <1>4, <1>5, <1>6, <1>7 DEF IsTalk

\* What a visitor says is a talk.
LEMMA SaidTalk ==
  ASSUME ForwardTypeOK, NEW s \in Streams
  PROVE  IsTalk(said[s])
BY SilentTalk, TalksAssumption DEF ForwardTypeOK

\* What the backend got is a sequence.
LEMMA PassingSequence ==
  ASSUME NEW talk, IsTalk(talk), NEW s, NEW k \in 0..Len(talk.frames)
  PROVE  IsSequence(Passing(s, talk, k))
<1>1. talk.told[k].messages \in Seq(Messaged)
  BY TalkParts DEF Tales
<1>2. PICK n \in Nat : n = Len(talk.told[k].messages)
  BY <1>1
<1> DEFINE F(i) == [from |-> s, message |-> talk.told[k].messages[i]]
<1>3. Passing(s, talk, k) = [i \in 1..n |-> F(i)]
  BY <1>2 DEF Passing
<1> HIDE DEF F
<1>4. [i \in 1..n |-> F(i)] \in Seq({F(i) : i \in 1..n})
  BY <1>2
<1> QED
  BY <1>3, <1>4 DEF IsSequence

\* A stream of which nothing was touched is as it was.
LEMMA StreamKept ==
  ASSUME NEW s \in Streams, StreamWhole(s),
         req'[s] = req[s], said'[s] = said[s], passed'[s] = passed[s], pc'[s] = pc[s],
         inq'[s] = inq[s], unsent'[s] = unsent[s], buf'[s] = buf[s], ws'[s] = ws[s]
  PROVE  StreamWhole(s)'
BY DEF StreamWhole, Heard, Streaming, Sent, ReadTo, Unspoken, Bridged

\* A step of one stream.
LEMMA WholeOfOne ==
  ASSUME WholeInv, NEW s \in Streams, WholeTypes', IdsKept', StreamWhole(s)', req' = req,
         \A q \in Streams \ {s} :
           /\ said'[q] = said[q] /\ passed'[q] = passed[q] /\ pc'[q] = pc[q]
           /\ inq'[q] = inq[q] /\ unsent'[q] = unsent[q] /\ buf'[q] = buf[q] /\ ws'[q] = ws[q]
  PROVE  WholeInv'
<1>1. ASSUME NEW q \in Streams \ {s} PROVE StreamWhole(q)'
  <2>1. StreamWhole(q)
    BY DEF WholeInv
  <2> QED
    BY <2>1, StreamKept
<1> QED
  BY <1>1 DEF WholeInv

\* A step that reads nothing and tells the backend nothing, of a stream that stays where it is, is over
\* or is no bridge to be.
LEMMA WholeAside ==
  ASSUME WholeInv, ForwardInv, NEW s \in Streams, IdsKept',
         UNCHANGED <<req, said, passed, inq, unsent, buf, ws>>,
         \/ pc' = pc
         \/ pc' = [pc EXCEPT ![s] = "done"]
         \/ ~req[s].upgrade /\ \E p : pc' = [pc EXCEPT ![s] = p]
  PROVE  WholeInv'
<1>1. pc \in [Streams -> Places] /\ StreamWhole(s)
  BY DEF ForwardInv, ForwardTypeOK, WholeInv
<1>2. WholeTypes'
  BY DEF WholeInv, WholeTypes
<1>3. \A q \in Streams \ {s} : pc'[q] = pc[q]
  BY <1>1
<1>4. StreamWhole(s)'
  <2>1. CASE pc' = pc
    BY <1>1, <2>1, StreamKept
  <2>2. Heard(s)'
    BY <1>1 DEF StreamWhole, Heard
  <2>3. CASE pc' = [pc EXCEPT ![s] = "done"]
    BY <1>1, <2>2, <2>3 DEF StreamWhole
  <2>4. CASE ~req[s].upgrade
    BY <2>2, <2>4 DEF StreamWhole
  <2> QED
    BY <2>1, <2>3, <2>4
<1> QED
  BY <1>2, <1>3, <1>4, WholeOfOne

\* The map when a stream's entry is set or dropped.
LEMMA IdsSet ==
  ASSUME IdsKept, NEW s \in Streams, active' = active \/ Without(s) \/ active' = [active EXCEPT ![IdOf[s]] = s]
  PROVE  IdsKept'
BY ForwardAssumption DEF IdsKept, Without

\* A chunk of what the visitor sent arrives.
LEMMA WholeArrives ==
  ASSUME WholeInv, NEW s \in Streams, Arrive(s)
  PROVE  WholeInv'
<1>1. PICK k \in 1..Len(unsent[s]) :
         /\ inq' = [inq EXCEPT ![s] = Append(@, SubSeq(unsent[s], 1, k))]
         /\ unsent' = [unsent EXCEPT ![s] = SubSeq(@, k + 1, Len(@))]
  BY DEF Arrive
<1>2. req' = req /\ said' = said /\ pc' = pc /\ buf' = buf /\ ws' = ws /\ active' = active /\ passed' = passed
  BY DEF Arrive, socket
<1>3. WholeTypes' /\ IdsKept'
  BY <1>1, <1>2 DEF WholeInv, WholeTypes, IdsKept
<1>4. \A q \in Streams \ {s} : inq'[q] = inq[q] /\ unsent'[q] = unsent[q]
  BY <1>1 DEF WholeInv, WholeTypes
<1>5. /\ inq'[s] = Append(inq[s], SubSeq(unsent[s], 1, k))
      /\ unsent'[s] = SubSeq(unsent[s], k + 1, Len(unsent[s]))
  BY <1>1 DEF WholeInv, WholeTypes
<1>6. StreamWhole(s)'
  <2>1. StreamWhole(s)
    BY DEF WholeInv
  <2>2. Heard(s)' /\ Sent(s)' = Sent(s) /\ \A e : ReadTo(s, e)' <=> ReadTo(s, e)
    BY <1>2, <2>1 DEF StreamWhole, Heard, Sent, ReadTo, Unspoken, Bridged
  <2>3. ASSUME req[s].upgrade, pc[s] # "done" PROVE Streaming(s)'
    <3>1. PICK e \in 0..Len(Sent(s)) : InChunks(inq[s], unsent[s], Sent(s), e) /\ ReadTo(s, e)
      BY <2>1, <2>3 DEF StreamWhole, Streaming
    <3>2. InChunks(inq'[s], unsent'[s], Sent(s), e)
      BY <1>5, <3>1, QueuedMore
    <3> QED
      BY <2>2, <3>1, <3>2 DEF Streaming
  <2> QED
    BY <1>2, <2>2, <2>3 DEF StreamWhole
<1> QED
  BY <1>2, <1>3, <1>4, <1>6, WholeOfOne

\* Before anything is said the backend got nothing.
LEMMA NothingHeard ==
  ASSUME NEW s, said[s] = Silent
  PROVE  /\ Heard(s) <=> passed[s] = <<>>
         /\ \A e \in Nat : Bridged(s, e) <=> passed[s] = <<>> /\ ws[s] = Reading(Silent, 0, e)
         /\ Len(Silent.wire) = 0 /\ Silent.wire = <<>>
<1> DEFINE none == <<>>
<1>1. /\ Silent.frames = none /\ Silent.wire = none
      /\ Silent.ends = [k \in 0..0 |-> 0] /\ Silent.told = [k \in 0..0 |-> NothingTold]
  BY DEF Silent
<1>2. Len(none) = 0 /\ 0..0 = {0} /\ 0 \in 0..0 /\ 1..0 = {}
  OBVIOUS
<1>3. ~NothingTold.over /\ NothingTold.messages = none
  BY DEF NothingTold
<1>4. Silent.ends[0] = 0 /\ Silent.told[0] = NothingTold
  BY <1>1, <1>2
<1>5. Passing(s, Silent, 0) = none
  <2>1. Passing(s, Silent, 0) = [i \in 1..0 |-> [from |-> s, message |-> none[i]]]
    BY <1>2, <1>3, <1>4 DEF Passing
  <2>2. ASSUME NEW F(_) PROVE [i \in 1..0 |-> F(i)] = none
    OBVIOUS
  <2> HIDE DEF none
  <2> QED
    BY <2>1, <2>2
<1> HIDE DEF none
<1>6. Heard(s) <=> passed[s] = none
  BY <1>1, <1>2, <1>3, <1>4, <1>5 DEF Heard
<1>7. ASSUME NEW e \in Nat PROVE Bridged(s, e) <=> passed[s] = none /\ ws[s] = Reading(Silent, 0, e)
  BY <1>1, <1>2, <1>3, <1>4, <1>5 DEF Bridged
<1> QED
  BY <1>1, <1>2, <1>6, <1>7 DEF none

\* A new talk begins with nothing told.
LEMMA TalkBegins ==
  ASSUME NEW talk, IsTalk(talk), NEW s
  PROVE  /\ 0 \in 0..Len(talk.frames) /\ ~talk.told[0].over /\ talk.ends[0] = 0 /\ Passing(s, talk, 0) = <<>>
         /\ Reading(talk, 0, 0) = Decoder
<1> DEFINE none == <<>>
<1>1. talk.ends[0] = 0 /\ talk.told[0] = NothingTold /\ Len(talk.frames) \in Nat /\ Len(talk.wire) \in Nat
  BY TalkParts
<1>2. ~NothingTold.over /\ NothingTold.messages = none /\ NothingTold.frag = NoFrag
  BY DEF NothingTold
<1>3. Len(none) = 0 /\ 1..0 = {}
  OBVIOUS
<1>4. Passing(s, talk, 0) = none
  <2>1. Passing(s, talk, 0) = [i \in 1..0 |-> [from |-> s, message |-> none[i]]]
    BY <1>1, <1>2, <1>3 DEF Passing
  <2>2. ASSUME NEW F(_) PROVE [i \in 1..0 |-> F(i)] = none
    OBVIOUS
  <2> HIDE DEF none
  <2> QED
    BY <2>1, <2>2
<1>5. Wire(talk, 0, 0) = none
  <2>1. PICK w : w = Wire(talk, 0, 0)
    OBVIOUS
  <2>2. PICK S : talk.wire \in Seq(S)
    BY TalkParts
  <2>3. 0 + 1 \in 1..Len(talk.wire) + 1 /\ 0 \in (0 + 1) - 1..Len(talk.wire)
    BY <1>1
  <2>4. w \in Seq(S) /\ Len(w) = 0 - (0 + 1) + 1
    BY <2>1, <2>2, <2>3, SubSeqProperties DEF Wire
  <2>5. Len(w) = 0
    BY <2>4
  <2> QED
    BY <2>1, <2>4, <2>5
<1>6. Reading(talk, 0, 0) = Decoder
  BY <1>1, <1>2, <1>5 DEF Reading, Decoder
<1> QED
  BY <1>1, <1>2, <1>4, <1>6

\* The visitor speaks, once, and only on a bridge or when it is over.
LEMMA WholeSpoken ==
  ASSUME WholeInv, ForwardInv, NEW s \in Streams, VisitorFrames(s)
  PROVE  WholeInv'
<1>1. PICK talk \in Talks :
         /\ unsent' = [unsent EXCEPT ![s] = @ \o talk.wire]
         /\ said' = [said EXCEPT ![s] = talk]
  BY DEF VisitorFrames
<1>2. /\ req' = req /\ pc' = pc /\ buf' = buf /\ ws' = ws /\ active' = active /\ passed' = passed /\ inq' = inq
      /\ said[s] = Silent
  BY DEF VisitorFrames, socket
<1>3. WholeTypes' /\ IdsKept'
  BY <1>1, <1>2 DEF WholeInv, WholeTypes, IdsKept
<1>4. /\ said \in [Streams -> Talks \union {Silent}]
      /\ StreamWhole(s) /\ StreamOrderly(s) /\ IsTalk(talk)
  BY TalksAssumption DEF WholeInv, ForwardInv, ForwardTypeOK
<1>5. \A q \in Streams \ {s} : said'[q] = said[q] /\ unsent'[q] = unsent[q]
  BY <1>1, <1>4 DEF WholeInv, WholeTypes
<1>6. said'[s] = talk /\ unsent'[s] = unsent[s] \o talk.wire
  BY <1>1, <1>4 DEF WholeInv, WholeTypes
<1>7. passed[s] = <<>>
  BY <1>2, <1>4, NothingHeard DEF StreamWhole
<1>8. Heard(s)'
  BY <1>2, <1>4, <1>6, <1>7, TalkBegins DEF Heard
<1>9. ASSUME req[s].upgrade, pc[s] # "done" PROVE Streaming(s)'
  <2>1. pc[s] = "bridge"
    <3>1. "101" \in {out[s][i] : i \in 1..Len(out[s])} /\ ~closed[s]
      BY DEF VisitorFrames
    <3>2. PICK i \in 1..Len(out[s]) : out[s][i] = "101"
      BY <3>1
    <3>3. i \in HeadsIn(out[s]) /\ out[s] # <<>>
      BY <3>2 DEF HeadsIn, Heads
    <3>4. pc[s] \in Places
      BY DEF ForwardInv, ForwardTypeOK
    <3>5. pc[s] # "accepting"
      BY <1>4, <3>1, <3>3 DEF StreamOrderly, Orderly
    <3>6. pc[s] \notin {"relay", "head", "body", "fetch", "opening", "pipe"}
      BY <1>4, <1>9, <3>3 DEF StreamOrderly, Orderly
    <3> QED
      BY <1>9, <3>4, <3>5, <3>6 DEF Places
  <2>2. PICK e \in 0..Len(Sent(s)) : InChunks(inq[s], unsent[s], Sent(s), e) /\ ReadTo(s, e)
    BY <1>4, <1>9 DEF StreamWhole, Streaming
  <2>3. Sent(s) = Preamble /\ Len(Sent(s)) = 4 /\ IsSequence(Preamble) /\ Len(Preamble) = 4
    <3>1. Preamble \in Seq({"R", "r", "H", "h"}) /\ Len(Preamble) = 4
      BY DEF Preamble
    <3>2. Preamble \o <<>> = Preamble
      BY <3>1, ConcatEmptySeq
    <3> QED
      BY <1>2, <3>1, <3>2, NothingHeard DEF Sent, IsSequence
  <2>4. e = 4 /\ ws[s] = Reading(Silent, 0, 0)
    <3>1. e >= 4 /\ Bridged(s, e - 4)
      BY <2>1, <2>2 DEF ReadTo
    <3>2. e = 4 /\ e - 4 = 0
      BY <2>3, <3>1
    <3> QED
      BY <1>2, <3>1, <3>2, NothingHeard
  <2>5. ws[s] = Decoder
    BY <2>4, SilentTalk, TalkBegins
  <2>6. Bridged(s, 0)'
    BY <1>2, <1>4, <1>6, <1>7, <2>5, TalkBegins DEF Bridged
  <2>7. ReadTo(s, 4)'
    BY <1>2, <2>1, <2>6 DEF ReadTo
  <2>8. IsSequence(talk.wire)
    BY <1>4, TalkParts DEF IsSequence
  <2>9. Sent(s)' = Preamble \o talk.wire
    BY <1>6 DEF Sent
  <2>10. InChunks(inq'[s], unsent'[s], Sent(s)', 4)
    BY <1>2, <1>6, <2>2, <2>3, <2>4, <2>8, <2>9, QueuedSaid
  <2>11. 4 \in 0..Len(Sent(s))'
    <3>1. Len(Preamble \o talk.wire) = 4 + Len(talk.wire) /\ Len(talk.wire) \in Nat
      <4>1. Len(Preamble \o talk.wire) = Len(Preamble) + Len(talk.wire)
        BY <2>3, <2>8, SequencesJoined
      <4>2. Len(talk.wire) \in Nat
        BY <2>8, SequenceLength
      <4> QED
        BY <2>3, <4>1, <4>2
    <3> QED
      BY <2>9, <3>1
  <2> QED
    BY <2>7, <2>10, <2>11 DEF Streaming
<1>10. StreamWhole(s)'
  BY <1>2, <1>8, <1>9 DEF StreamWhole
<1> QED
  BY <1>2, <1>3, <1>5, <1>10, WholeOfOne

\* The handler takes a chunk of the request.
LEMMA WholeReads ==
  ASSUME WholeInv, NEW s \in Streams, ReadChunk(s)
  PROVE  WholeInv'
<1>1. /\ pc[s] \in {"relay", "head", "body"} /\ ~Complete(s) /\ inq[s] # <<>>
      /\ buf' = [buf EXCEPT ![s] = @ \o Head(inq[s])] /\ inq' = [inq EXCEPT ![s] = Tail(@)]
      /\ req' = req /\ said' = said /\ pc' = pc /\ unsent' = unsent /\ ws' = ws /\ active' = active /\ passed' = passed
  BY DEF ReadChunk, socket
<1>2. WholeTypes' /\ IdsKept'
  BY <1>1 DEF WholeInv, WholeTypes, IdsKept
<1>3. \A q \in Streams \ {s} : inq'[q] = inq[q] /\ buf'[q] = buf[q]
  BY <1>1 DEF WholeInv, WholeTypes
<1>4. inq'[s] = Tail(inq[s]) /\ buf'[s] = buf[s] \o Head(inq[s])
  BY <1>1 DEF WholeInv, WholeTypes
<1>5. StreamWhole(s) /\ req[s] \in Requested
  BY DEF WholeInv, WholeTypes
<1>6. ASSUME req[s].upgrade PROVE Streaming(s)'
  <2>1. pc[s] \in {"relay", "head"}
    <3>1. req[s].body = "none"
      BY <1>5, <1>6, ForwardAssumption
    <3> QED
      BY <1>1, <3>1 DEF Complete
  <2>2. PICK e \in 0..Len(Sent(s)) : InChunks(inq[s], unsent[s], Sent(s), e) /\ ReadTo(s, e)
    BY <1>5, <1>6, <2>1 DEF StreamWhole, Streaming
  <2>3. PICK on \in 0..Len(Sent(s)) :
          /\ e \in Nat /\ e <= on /\ Head(inq[s]) = Stretch(Sent(s), e, on)
          /\ InChunks(Tail(inq[s]), unsent[s], Sent(s), on)
    BY <1>1, <2>2, QueuedRead
  <2>4. IsSequence(Sent(s))
    BY <2>2 DEF InChunks
  <2>5. PICK size \in Nat : size = Len(Sent(s))
    BY <2>4, SequenceLength
  <2>6. PICK chunk : chunk = Head(inq[s])
    OBVIOUS
  <2>7. IsSequence(chunk) /\ Len(chunk) = on - e
    <3>1. on \in Nat /\ on <= Len(Sent(s))
      BY <2>5
    <3>2. IsStretch(Stretch(Sent(s), e, on), Sent(s), e, on)
      BY <2>3, <2>4, <3>1, StretchPart
    <3> QED
      BY <2>3, <2>6, <3>2 DEF IsStretch
  <2>8. IsSequence(buf[s]) /\ Unspoken(s)
    BY <2>1, <2>2 DEF ReadTo
  <2>9. IsSequence(buf'[s]) /\ Len(buf'[s]) = Len(buf[s]) + (on - e) /\ Len(buf[s]) \in Nat
    <3>1. IsSequence(buf[s] \o chunk) /\ Len(buf[s] \o chunk) = Len(buf[s]) + Len(chunk)
      BY <2>7, <2>8, SequencesJoined
    <3>2. Len(buf[s]) \in Nat
      BY <2>8, SequenceLength
    <3> QED
      BY <1>4, <2>6, <2>7, <3>1, <3>2
  <2>10. Unspoken(s)' /\ Sent(s)' = Sent(s)
    BY <1>1, <2>8 DEF Unspoken, Sent
  <2>11. ReadTo(s, on)'
    <3>1. CASE pc[s] = "relay"
      <4>1. e = Len(buf[s])
        BY <2>2, <3>1 DEF ReadTo
      <4>2. on = Len(buf'[s])
        BY <2>3, <2>5, <2>9, <4>1
      <4> QED
        BY <1>1, <2>9, <2>10, <3>1, <4>2 DEF ReadTo
    <3>2. CASE pc[s] = "head"
      <4>1. e = Len(buf[s]) + 2
        BY <2>2, <3>2 DEF ReadTo
      <4>2. on = Len(buf'[s]) + 2
        BY <2>3, <2>5, <2>9, <4>1
      <4> QED
        BY <1>1, <2>9, <2>10, <3>2, <4>2 DEF ReadTo
    <3> QED
      BY <2>1, <3>1, <3>2
  <2> QED
    BY <1>1, <1>4, <2>3, <2>10, <2>11 DEF Streaming
<1>7. StreamWhole(s)'
  BY <1>1, <1>5, <1>6 DEF StreamWhole, Heard
<1> QED
  BY <1>1, <1>2, <1>3, <1>7, WholeOfOne

\* The relay's response, and the head of the request, are taken off.
LEMMA WholeParsed ==
  ASSUME WholeInv, ForwardInv, NEW s \in Streams, RelayRead(s) \/ HeadRead(s)
  PROVE  WholeInv'
<1>1. /\ Complete(s) /\ buf' = [buf EXCEPT ![s] = SubSeq(@, 3, Len(@))]
      /\ \/ pc[s] = "relay" /\ pc' = [pc EXCEPT ![s] = "head"]
         \/ pc[s] = "head" /\ pc' = [pc EXCEPT ![s] = "body"]
      /\ UNCHANGED <<req, said, inq, unsent, ws, active, passed>>
  BY DEF RelayRead, HeadRead, socket, stream
<1>2. WholeTypes' /\ IdsKept'
  BY <1>1 DEF WholeInv, WholeTypes, IdsKept
<1>3. \A q \in Streams \ {s} : buf'[q] = buf[q] /\ pc'[q] = pc[q]
  BY <1>1 DEF WholeInv, WholeTypes, ForwardInv, ForwardTypeOK
<1>5. StreamWhole(s)
  BY DEF WholeInv
<1>6. buf'[s] = SubSeq(buf[s], 3, Len(buf[s]))
  BY <1>1 DEF WholeInv, WholeTypes
<1>7. Len(buf[s]) >= 2
  BY <1>1 DEF Complete
<1>8. ASSUME req[s].upgrade PROVE Streaming(s)'
  <2>1. PICK e \in 0..Len(Sent(s)) : InChunks(inq[s], unsent[s], Sent(s), e) /\ ReadTo(s, e)
    BY <1>1, <1>5, <1>8 DEF StreamWhole, Streaming
  <2>2. IsSequence(buf[s]) /\ Unspoken(s)
    BY <1>1, <2>1 DEF ReadTo
  <2>3. PICK n \in Nat : n = Len(buf[s])
    BY <2>2, SequenceLength
  <2>4. IsSequence(buf'[s]) /\ Len(buf'[s]) = n - 2
    <3>1. IsStretch(Stretch(buf[s], 2, n), buf[s], 2, n)
      <4>1. 2 \in Nat /\ 2 <= n /\ n <= Len(buf[s])
        BY <1>7, <2>3
      <4> QED
        BY <2>2, <4>1, StretchPart
    <3>2. buf'[s] = Stretch(buf[s], 2, n)
      BY <1>6, <2>3 DEF Stretch
    <3> QED
      BY <3>1, <3>2 DEF IsStretch
  <2>5. Unspoken(s)' /\ Sent(s)' = Sent(s) /\ Len(Sent(s)) = 4
    <3>1. Sent(s) = Preamble \o <<>>
      BY <2>2, NothingHeard DEF Unspoken, Sent
    <3>2. Preamble \in Seq({"R", "r", "H", "h"}) /\ Len(Preamble) = 4
      BY DEF Preamble
    <3>3. Preamble \o <<>> = Preamble
      BY <3>2, ConcatEmptySeq
    <3>4. Len(Sent(s)) = 4
      BY <3>1, <3>2, <3>3
    <3>5. Unspoken(s)' /\ Sent(s)' = Sent(s)
      BY <1>1, <2>2 DEF Unspoken, Sent
    <3> QED
      BY <3>4, <3>5
  <2>6. ReadTo(s, e)'
    <3>1. CASE pc[s] = "relay" /\ pc'[s] = "head"
      <4>1. e = n
        BY <2>1, <2>3, <3>1 DEF ReadTo
      <4>2. e = Len(buf'[s]) + 2
        BY <2>4, <4>1, <2>3
      <4> QED
        BY <2>4, <2>5, <3>1, <4>2 DEF ReadTo
    <3>2. CASE pc[s] = "head" /\ pc'[s] = "body"
      <4>1. e = n + 2
        BY <2>1, <2>3, <3>2 DEF ReadTo
      <4>2. e = 4
        BY <1>7, <2>1, <2>3, <2>5, <4>1
      <4> QED
        BY <2>5, <3>2, <4>2 DEF ReadTo
    <3>3. pc'[s] = "head" \/ pc'[s] = "body"
      BY <1>1 DEF ForwardInv, ForwardTypeOK
    <3> QED
      BY <1>1, <3>1, <3>2 DEF ForwardInv, ForwardTypeOK
  <2> QED
    BY <1>1, <2>1, <2>5, <2>6 DEF Streaming
<1>9. StreamWhole(s)'
  BY <1>1, <1>5, <1>8 DEF StreamWhole, Heard
<1> QED
  BY <1>1, <1>2, <1>3, <1>9, WholeOfOne

\* The request goes on towards a bridge: the backend is asked, it opens, the upgrade is answered.
LEMMA WholeOnward ==
  ASSUME WholeInv, ForwardInv, NEW s \in Streams, IdsKept',
         UNCHANGED <<req, said, inq, unsent, buf, ws, passed>>, NEW p,
         pc[s] \in {"body", "opening", "accepting"}, p \in {"opening", "accepting", "bridge"},
         pc' = [pc EXCEPT ![s] = p]
  PROVE  WholeInv'
<1>1. WholeTypes'
  BY DEF WholeInv, WholeTypes
<1>2. pc'[s] = p /\ \A q \in Streams \ {s} : pc'[q] = pc[q]
  BY DEF ForwardInv, ForwardTypeOK
<1>3. StreamWhole(s)
  BY DEF WholeInv
<1>4. ASSUME req[s].upgrade PROVE Streaming(s)'
  <2>1. PICK e \in 0..Len(Sent(s)) : InChunks(inq[s], unsent[s], Sent(s), e) /\ ReadTo(s, e)
    BY <1>3, <1>4 DEF StreamWhole, Streaming
  <2>2. Unspoken(s) /\ e = 4
    BY <2>1 DEF ReadTo
  <2>3. Unspoken(s)' /\ Sent(s)' = Sent(s)
    BY <2>2 DEF Unspoken, Sent
  <2>4. Bridged(s, 0)'
    <3>1. Reading(Silent, 0, 0) = Decoder
      BY SilentTalk, TalkBegins
    <3>2. Bridged(s, 0)
      BY <2>2, <3>1, NothingHeard DEF Unspoken
    <3> QED
      BY <3>2 DEF Bridged
  <2>5. ReadTo(s, e)'
    <3>1. e >= 4 /\ e - 4 = 0
      BY <2>2
    <3>2. CASE p = "bridge"
      BY <1>2, <2>4, <3>1, <3>2 DEF ReadTo
    <3>3. CASE p \in {"opening", "accepting"}
      BY <1>2, <2>2, <2>3, <3>3 DEF ReadTo
    <3> QED
      BY <3>2, <3>3
  <2> QED
    BY <2>1, <2>3, <2>5 DEF Streaming
<1>5. StreamWhole(s)'
  BY <1>3, <1>4 DEF StreamWhole, Heard
<1> QED
  BY <1>1, <1>2, <1>5, WholeOfOne

\* A close among the events is noticed.
LEMMA CloseCounts ==
  ASSUME NEW evs, IsSequence(evs), HasClose(evs)
  PROVE  Cardinality(Upto(evs)) < Len(evs)
<1>1. PICK n \in Nat : n = Len(evs)
  BY SequenceLength
<1>2. PICK i \in 1..n : evs[i].type = "close"
  BY <1>1 DEF HasClose
<1>3. Upto(evs) \subseteq (1..n) \ {i}
  <2>1. ASSUME NEW j \in Upto(evs) PROVE j \in 1..n /\ j # i
    BY <1>1, <1>2, <2>1 DEF Upto
  <2> QED
    BY <2>1
<1>4. IsFiniteSet(1..n) /\ Cardinality(1..n) = n
  BY FS_Interval
<1>5. IsFiniteSet((1..n) \ {i}) /\ Cardinality((1..n) \ {i}) = n - 1
  BY <1>4, FS_RemoveElement
<1>6. Cardinality(Upto(evs)) <= n - 1 /\ Cardinality(Upto(evs)) \in Nat
  BY <1>3, <1>5, FS_Subset, FS_CardinalityType
<1> QED
  BY <1>1, <1>6

\* What is read next of a bridge, behind what the decoder holds.
LEMMA ReadOn ==
  ASSUME ForwardTypeOK, NEW s \in Streams, NEW e \in Nat, NEW on \in Nat, NEW k \in 0..Len(said[s].frames),
         4 <= e, e <= on, on <= Len(Sent(s)), said[s].ends[k] <= e - 4, ws[s] = Reading(said[s], k, e - 4)
  PROVE  /\ on - 4 \in 0..Len(said[s].wire) /\ said[s].ends[k] <= on - 4
         /\ Push(ws[s], Stretch(Sent(s), e, on)) = Reading(said[s], k, on - 4)
<1>1. PICK talk : talk = said[s] /\ IsTalk(talk)
  BY SaidTalk
<1>2. IsSequence(talk.wire) /\ Len(talk.wire) \in Nat
  BY <1>1, TalkParts DEF IsSequence
<1>3. PICK lo \in Nat : lo = talk.ends[k] /\ lo <= e - 4
  <2>1. k \in 0..Len(talk.frames) /\ talk.ends[k] <= e - 4
    BY <1>1
  <2>2. talk.ends[k] \in 0..Len(talk.wire)
    BY <1>1, <2>1, TalkParts
  <2> QED
    BY <1>2, <2>1, <2>2
<1>4. PICK x \in Nat, y \in Nat : x = e - 4 /\ y = on - 4 /\ x <= y /\ e = 4 + x /\ on = 4 + y
  <2>1. \A a, c \in Nat : 4 <= a /\ a <= c =>
          a - 4 \in Nat /\ c - 4 \in Nat /\ a - 4 <= c - 4 /\ a = 4 + (a - 4) /\ c = 4 + (c - 4)
    OBVIOUS
  <2> QED
    BY <2>1
<1>5. Sent(s) = Preamble \o talk.wire /\ IsSequence(Preamble) /\ Len(Preamble) = 4
  <2>1. Preamble \in Seq({"R", "r", "H", "h"}) /\ Len(Preamble) = 4
    BY DEF Preamble
  <2> QED
    BY <1>1, <2>1 DEF Sent, IsSequence
<1>6. y <= Len(talk.wire)
  <2>1. Len(Preamble \o talk.wire) = Len(Preamble) + Len(talk.wire)
    BY <1>2, <1>5, SequencesJoined
  <2> QED
    BY <1>2, <1>4, <1>5, <2>1
<1>7. Stretch(Sent(s), e, on) = Stretch(talk.wire, x, y)
  <2>1. Stretch(Preamble \o talk.wire, Len(Preamble) + x, Len(Preamble) + y) = Stretch(talk.wire, x, y)
    <3>1. x <= y
      BY <1>4
    <3>2. IsSequence(Preamble) /\ IsSequence(talk.wire) /\ y <= Len(talk.wire)
      BY <1>2, <1>5, <1>6
    <3> QED
      BY <3>1, <3>2, StretchBehind, ZenonT(40)
  <2> QED
    BY <1>4, <1>5, <2>1
<1>8. Stretch(talk.wire, lo, x) \o Stretch(talk.wire, x, y) = Stretch(talk.wire, lo, y)
  <2>1. lo <= x /\ x <= y
    BY <1>3, <1>4
  <2>2. IsSequence(talk.wire) /\ lo \in Nat /\ x \in Nat /\ y \in Nat /\ y <= Len(talk.wire)
    BY <1>2, <1>3, <1>4, <1>6
  <2> QED
    BY <2>1, <2>2, StretchOn, Zenon
<1>9. Push(ws[s], Stretch(talk.wire, x, y)) = Reading(talk, k, y)
  <2>1. ws[s] = [buf |-> Stretch(talk.wire, lo, x), frag |-> talk.told[k].frag]
    BY <1>1, <1>3, <1>4 DEF Reading, Wire, Stretch
  <2>2. Reading(talk, k, y) = [buf |-> Stretch(talk.wire, lo, y), frag |-> talk.told[k].frag]
    BY <1>3 DEF Reading, Wire, Stretch
  <2>3. ASSUME NEW a, NEW d, NEW f
        PROVE  Push([buf |-> a, frag |-> f], d) = [buf |-> a \o d, frag |-> f]
    <3>1. ASSUME NEW z PROVE [[buf |-> a, frag |-> f] EXCEPT !.buf = z] = [buf |-> z, frag |-> f]
      OBVIOUS
    <3>2. PICK r : r = [buf |-> a, frag |-> f]
      OBVIOUS
    <3>4. r.buf = a
      BY <3>2
    <3>3. Push(r, d) = [r EXCEPT !.buf = r.buf \o d]
      BY DEF Push
    <3> QED
      BY <3>1, <3>2, <3>3, <3>4
  <2> QED
    <3>1. PICK a, d, c, f : /\ a = Stretch(talk.wire, lo, x) /\ d = Stretch(talk.wire, x, y)
                            /\ c = Stretch(talk.wire, lo, y) /\ f = talk.told[k].frag
      OBVIOUS
    <3>2. a \o d = c
      BY <1>8, <3>1
    <3>3. Push([buf |-> a, frag |-> f], d) = [buf |-> a \o d, frag |-> f]
      BY <2>3
    <3> QED
      BY <2>1, <2>2, <3>1, <3>2, <3>3
<1> QED
  BY <1>1, <1>3, <1>4, <1>6, <1>7, <1>9

\* A chunk of frames is relayed: to its own stream's backend, what the frames tell.
LEMMA WholeRelayed ==
  ASSUME OneSession, WholeInv, ForwardInv, NEW s \in Streams, RelayFrame(s)
  PROVE  WholeInv'
<1>1. /\ pc[s] = "bridge" /\ inq[s] # <<>> /\ inq' = [inq EXCEPT ![s] = Tail(@)]
      /\ UNCHANGED <<req, unsent, said, buf>>
  BY DEF RelayFrame
<1>2. PICK parsed \in Parsed(Push(ws[s], Head(inq[s])), Len(said[s].wire)) :
        LET given == parsed.events
            b == active[IdOf[s]]
            pongs == [i \in 1..Cardinality({i \in Upto(given) : given[i].type = "ping"}) |-> "pong"]
            close == Cardinality(Upto(given)) < Len(given)
        IN /\ ws' = [ws EXCEPT ![s] = parsed.d]
           /\ IF given = <<>> THEN UNCHANGED <<out, backend, active, passed, pc>>
              ELSE IF ~Has(s) \/ backend[b] # "open"
              THEN Finish(s) /\ UNCHANGED <<out, backend, active, passed>>
              ELSE /\ passed' = [passed EXCEPT ![b] = @ \o Messages(s, given)]
                   /\ Written(s, pongs \o IF close THEN <<"close-frame">> ELSE <<>>)
                   /\ IF close THEN Closing(s) /\ Without(s) /\ Finish(s) ELSE UNCHANGED <<backend, active, pc>>
  BY DEF RelayFrame
<1> DEFINE given == parsed.events
           b == active[IdOf[s]]
           close == Cardinality(Upto(given)) < Len(given)
<1>3. ws' = [ws EXCEPT ![s] = parsed.d]
  BY <1>2
<1>4. \/ given = <<>> /\ active' = active /\ passed' = passed /\ pc' = pc
      \/ Finish(s) /\ active' = active /\ passed' = passed
      \/ /\ Has(s) /\ passed' = [passed EXCEPT ![b] = @ \o Messages(s, given)]
         /\ close /\ Without(s) /\ Finish(s)
      \/ /\ Has(s) /\ passed' = [passed EXCEPT ![b] = @ \o Messages(s, given)]
         /\ ~close /\ active' = active /\ pc' = pc
  BY <1>2
<1> HIDE DEF given, close
<1>5. Has(s) => b = s
  BY ForwardAssumption DEF WholeInv, IdsKept, Has, OneSession
<1> HIDE DEF b
<1>6. StreamWhole(s) /\ StreamOrderly(s) /\ ForwardTypeOK
  BY DEF WholeInv, ForwardInv
<1>7. req[s].upgrade
  BY <1>1, <1>6 DEF StreamOrderly, Orderly
<1>8. PICK e \in 0..Len(Sent(s)) : InChunks(inq[s], unsent[s], Sent(s), e) /\ ReadTo(s, e)
  BY <1>1, <1>6, <1>7 DEF StreamWhole, Streaming
<1>9. PICK on \in 0..Len(Sent(s)) :
        /\ e \in Nat /\ e <= on /\ Head(inq[s]) = Stretch(Sent(s), e, on)
        /\ InChunks(Tail(inq[s]), unsent[s], Sent(s), on)
  BY <1>1, <1>8, QueuedRead
<1>10. PICK talk : talk = said[s] /\ IsTalk(talk)
  BY <1>6, SaidTalk
<1>11. PICK k \in 0..Len(talk.frames) :
         /\ ~talk.told[k].over /\ passed[s] = Passing(s, talk, k)
         /\ talk.ends[k] <= e - 4 /\ ws[s] = Reading(talk, k, e - 4)
  BY <1>1, <1>8, <1>10 DEF ReadTo, Bridged
<1>12. e >= 4 /\ on \in Nat /\ on <= Len(Sent(s))
  <2>1. IsSequence(Sent(s))
    BY <1>8 DEF InChunks
  <2>2. Len(Sent(s)) \in Nat
    BY <2>1, SequenceLength
  <2> QED
    BY <1>1, <1>8, <2>2 DEF ReadTo
<1>13. PICK far : far = on - 4
  OBVIOUS
<1>14. far \in 0..Len(talk.wire) /\ talk.ends[k] <= far /\ Push(ws[s], Head(inq[s])) = Reading(talk, k, far)
  BY <1>6, <1>9, <1>10, <1>11, <1>12, <1>13, ReadOn
<1>15. Faithful(parsed, s, talk, passed[s], far)
  <2>1. PICK S : passed[s] \in Seq(S)
    BY <1>10, <1>11, PassingSequence DEF IsSequence
  <2>2. Len(talk.wire) \in Nat
    BY <1>10, TalkParts
  <2>3. parsed \in Parsed(Reading(talk, k, far), Len(talk.wire))
    BY <1>2, <1>10, <1>14
  <2>4. \A run \in Parsed(Reading(talk, k, far), Len(talk.wire)) : Faithful(run, s, talk, passed[s], far)
    BY <1>10, <1>11, <1>14, <2>1, <2>2, ParsedFaithful
  <2> QED
    BY <2>3, <2>4
<1>16. PICK m \in 0..Len(talk.frames) :
         /\ ~talk.told[m].over /\ passed[s] \o Messages(s, given) = Passing(s, talk, m)
         /\ ~HasClose(given) => talk.ends[m] <= far /\ parsed.d = Reading(talk, m, far)
  BY <1>15 DEF Faithful, given
<1>17. IsSequence(given)
  BY <1>15 DEF Faithful, given
<1>18. /\ \A q \in Streams \ {s} : inq'[q] = inq[q] /\ ws'[q] = ws[q] /\ passed'[q] = passed[q] /\ pc'[q] = pc[q]
       /\ inq'[s] = Tail(inq[s]) /\ ws'[s] = parsed.d
       /\ DOMAIN inq' = Streams /\ DOMAIN ws' = Streams /\ DOMAIN passed' = Streams
  <2>1. DOMAIN inq = Streams /\ DOMAIN ws = Streams /\ DOMAIN passed = Streams /\ pc \in [Streams -> Places]
    BY <1>6 DEF WholeInv, WholeTypes, ForwardTypeOK
  <2>2. \/ passed' = passed
        \/ passed' = [passed EXCEPT ![s] = @ \o Messages(s, given)]
    BY <1>4, <1>5
  <2>3. \A q \in Streams \ {s} : passed'[q] = passed[q]
    BY <2>1, <2>2
  <2>4. DOMAIN passed' = Streams
    BY <2>1, <2>2
  <2>5. pc' = pc \/ pc' = [pc EXCEPT ![s] = "done"]
    BY <1>4 DEF Finish
  <2>6. \A q \in Streams \ {s} : pc'[q] = pc[q]
    BY <2>1, <2>5
  <2> QED
    BY <1>1, <1>3, <2>1, <2>3, <2>4, <2>6
<1>19. /\ passed'[s] = passed[s] \/ passed'[s] = Passing(s, talk, m)
       /\ pc'[s] = "done" \/ (pc'[s] = "bridge" /\ passed'[s] = Passing(s, talk, m) /\ ~HasClose(given))
  <2>1. s \in DOMAIN passed /\ pc \in [Streams -> Places]
    BY <1>6 DEF WholeInv, WholeTypes, ForwardTypeOK
  <2>2. CASE given = <<>> /\ passed' = passed /\ pc' = pc
    <3>1. PICK none : none = <<>>
      OBVIOUS
    <3>2. given = none /\ Len(none) = 0 /\ Messages(s, none) = none
      BY <2>2, <3>1, MessagesNone
    <3>3. passed[s] \o none = passed[s]
      <4>1. PICK S : passed[s] \in Seq(S)
        BY <1>10, <1>11, PassingSequence DEF IsSequence
      <4> QED
        BY <3>1, <4>1
    <3>4. ~HasClose(given)
      BY <3>2 DEF HasClose
    <3> QED
      BY <1>1, <1>16, <2>2, <3>2, <3>3, <3>4
  <2>3. CASE Finish(s) /\ passed' = passed
    BY <2>1, <2>3 DEF Finish
  <2>4. CASE Has(s) /\ passed' = [passed EXCEPT ![b] = @ \o Messages(s, given)]
    <3>1. passed' = [passed EXCEPT ![s] = @ \o Messages(s, given)]
      BY <1>5, <2>4
    <3>2. passed'[s] = Passing(s, talk, m)
      BY <1>16, <2>1, <3>1
    <3>3. Finish(s) \/ (~close /\ pc' = pc) \/ (given = <<>> /\ passed' = passed /\ pc' = pc)
      BY <1>4
    <3>4. ~close => ~HasClose(given)
      BY <1>17, CloseCounts DEF close
    <3> QED
      BY <1>1, <2>1, <2>2, <3>2, <3>3, <3>4 DEF Finish
  <2> QED
    BY <1>4, <2>2, <2>3, <2>4
<1>20. WholeTypes' /\ IdsKept'
  <2>1. IdsKept'
    BY <1>4, IdsSet DEF WholeInv
  <2> QED
    BY <1>1, <1>18, <2>1 DEF WholeInv, WholeTypes
<1>21. StreamWhole(s)'
  <2>1. Heard(s)'
    BY <1>1, <1>10, <1>11, <1>16, <1>19 DEF Heard
  <2>2. ASSUME pc'[s] # "done" PROVE Streaming(s)'
    <3>1. pc'[s] = "bridge" /\ passed'[s] = Passing(s, talk, m) /\ ~HasClose(given)
      BY <1>19, <2>2
    <3>2. Bridged(s, far)'
      BY <1>1, <1>10, <1>16, <1>18, <3>1 DEF Bridged
    <3>3. on >= 4
      BY <1>9, <1>12
    <3>4. ReadTo(s, on)'
      BY <1>13, <3>1, <3>2, <3>3 DEF ReadTo
    <3>5. Sent(s)' = Sent(s)
      BY <1>1 DEF Sent
    <3> QED
      BY <1>1, <1>9, <1>18, <3>4, <3>5 DEF Streaming
  <2> QED
    BY <2>1, <2>2 DEF StreamWhole
<1> QED
  BY <1>1, <1>18, <1>20, <1>21, WholeOfOne

\* Begun: all that is in the first is at the same place in the second.
Begins(a, b) == Len(a) <= Len(b) /\ \A i \in 1..Len(a) : a[i] = b[i]

\* What frames have told stays told.
LEMMA TalkGoesOn ==
  ASSUME NEW talk, IsTalk(talk), NEW k \in 0..Len(talk.frames)
  PROVE  Begins(talk.told[k].messages, talk.messages)
<1>1. PICK n \in Nat : n = Len(talk.frames)
  BY TalkParts
<1>2. talk.messages = talk.told[n].messages
  BY <1>1 DEF IsTalk
<1>3. ASSUME NEW j \in 0..n PROVE talk.told[j].messages \in Seq(Messaged)
  BY <1>1, TalkParts DEF Tales
<1>4. ASSUME NEW j \in 0..(n - 1) PROVE Begins(talk.told[j].messages, talk.told[j + 1].messages)
  <2>1. PICK m, f, tale : m = tale.messages /\ tale = talk.told[j] /\ f = talk.frames[j + 1]
    OBVIOUS
  <2>2. talk.told[j + 1] = Follows(tale, f) /\ tale \in Tales
    BY <1>1, <2>1, TalkParts
  <2>3. m \in Seq(Messaged)
    BY <1>3, <2>1
  <2>4. \E x : Follows(tale, f).messages \in {m, Append(m, x)}
    <3>1. ASSUME NEW x, NEW y, NEW z PROVE [tale EXCEPT !.messages = x, !.frag = y].messages = x
      BY <2>2 DEF Tales
    <3>2. ASSUME NEW y PROVE [tale EXCEPT !.frag = y].messages = m /\ [tale EXCEPT !.over = y].messages = m
      BY <2>1, <2>2 DEF Tales
    <3>3. PICK part : part = IF f.op = "cont" THEN Message(tale.frag.op, tale.frag.payload \o f.payload)
                             ELSE Message(f.op, f.payload)
      OBVIOUS
    <3>4. \/ Follows(tale, f) = tale
          \/ \E y : Follows(tale, f) = [tale EXCEPT !.messages = Append(tale.messages, part), !.frag = y]
          \/ Follows(tale, f) = [tale EXCEPT !.frag = part]
          \/ Follows(tale, f) = [tale EXCEPT !.over = TRUE]
      BY <3>3 DEF Follows
    <3>5. Follows(tale, f).messages \in {m, Append(m, part)}
      <4>1. ASSUME NEW y, Follows(tale, f) = [tale EXCEPT !.messages = Append(tale.messages, part), !.frag = y]
            PROVE  Follows(tale, f).messages = Append(tale.messages, part)
        <5>1. PICK x : x = Append(tale.messages, part)
          OBVIOUS
        <5>2. Follows(tale, f) = [tale EXCEPT !.messages = x, !.frag = y]
          BY <4>1, <5>1
        <5> QED
          BY <3>1, <5>1, <5>2
      <4>2. CASE Follows(tale, f) = tale
        BY <2>1, <4>2
      <4>3. CASE Follows(tale, f) = [tale EXCEPT !.frag = part]
        BY <3>2, <4>3
      <4>4. CASE Follows(tale, f) = [tale EXCEPT !.over = TRUE]
        BY <3>2, <4>4
      <4> QED
        BY <2>1, <3>4, <4>1, <4>2, <4>3, <4>4
    <3> QED
      BY <3>5
  <2>5. PICK x : Follows(tale, f).messages \in {m, Append(m, x)}
    BY <2>4
  <2>6. Begins(m, m) /\ Begins(m, Append(m, x))
    <3>1. PICK S : S = Messaged \union {x}
      OBVIOUS
    <3>2. m \in Seq(S) /\ x \in S
      BY <2>3, <3>1, SeqMonotonic
    <3>3. Len(Append(m, x)) = Len(m) + 1 /\ Len(m) \in Nat /\ \A i \in 1..Len(m) : Append(m, x)[i] = m[i]
      BY <3>2
    <3> QED
      BY <3>3 DEF Begins
  <2> QED
    BY <2>1, <2>2, <2>5, <2>6
<1> DEFINE T == {j \in 0..n : ~Begins(talk.told[n - j].messages, talk.messages)}
<1>5. CASE T = {}
  <2>1. PICK j \in 0..n : j = n - k /\ n - j = k
    <3>1. k \in 0..n
      BY <1>1
    <3>2. n - k \in 0..n /\ n - (n - k) = k
      BY <3>1
    <3> QED
      BY <3>2
  <2> QED
    BY <1>5, <2>1
<1>6. CASE T # {}
  <2>1. PICK j \in T : \A i \in T : j <= i
    <3>1. T \subseteq Nat
      OBVIOUS
    <3> HIDE DEF T
    <3> QED
      BY <1>6, <3>1, LeastNumber
  <2>2. j \in 0..n /\ ~Begins(talk.told[n - j].messages, talk.messages)
    OBVIOUS
  <2>3. CASE j = 0
    <3>1. talk.told[n - j].messages = talk.messages
      BY <1>2, <2>3
    <3>2. Len(talk.messages) \in Nat
      BY <1>2, <1>3
    <3> QED
      BY <2>2, <3>1, <3>2 DEF Begins
  <2>4. CASE j # 0
    <3>1. j - 1 \in 0..n /\ ~(j <= j - 1) /\ n - j \in 0..(n - 1) /\ n - (j - 1) = (n - j) + 1
          /\ (n - j) + 1 \in 0..n /\ n - j \in 0..n
      BY <2>2, <2>4
    <3>2. Begins(talk.told[n - (j - 1)].messages, talk.messages)
      BY <2>1, <3>1
    <3>3. PICK a, b, c : /\ a = talk.told[n - j].messages /\ b = talk.told[(n - j) + 1].messages
                         /\ c = talk.messages
      OBVIOUS
    <3>4. Begins(a, b) /\ Begins(b, c) /\ Len(a) \in Nat /\ Len(b) \in Nat /\ Len(c) \in Nat
      BY <1>2, <1>3, <1>4, <3>1, <3>2, <3>3
    <3>5. Begins(a, c)
      BY <3>4 DEF Begins
    <3> QED
      BY <2>2, <3>3, <3>5
  <2> QED
    BY <2>3, <2>4
<1> QED
  BY <1>5, <1>6

\* At the start nothing was read and nothing said.
LEMMA WholeBegins == ForwardInit => WholeInv
<1> SUFFICES ASSUME ForwardInit PROVE WholeInv
  OBVIOUS
<1>1. WholeTypes /\ IdsKept
  BY DEF ForwardInit, WholeTypes, IdsKept
<1>2. ASSUME NEW s \in Streams PROVE StreamWhole(s)
  <2>1. /\ pc[s] = "relay" /\ said[s] = Silent /\ passed[s] = <<>> /\ ws[s] = Decoder /\ buf[s] = <<>>
        /\ inq[s] = <<>> /\ unsent[s] = <<"R", "r", "H", "h">> \o BodyTokens(req[s].body) /\ req[s] \in Requested
    BY DEF ForwardInit
  <2>2. Heard(s)
    BY <2>1, NothingHeard
  <2>3. ASSUME req[s].upgrade PROVE Streaming(s)
    <3>1. Preamble \in Seq({"R", "r", "H", "h"}) /\ Len(Preamble) = 4
      BY DEF Preamble
    <3>2. Preamble \o <<>> = Preamble /\ IsSequence(Preamble)
      BY <3>1, ConcatEmptySeq DEF IsSequence
    <3>3. Sent(s) = Preamble
      BY <2>1, <3>2, NothingHeard DEF Sent
    <3>4. unsent[s] = Preamble
      <4>1. req[s].body = "none"
        BY <2>1, <2>3, ForwardAssumption
      <4>2. BodyTokens("none") = <<>>
        BY DEF BodyTokens
      <4> QED
        BY <2>1, <3>2, <4>1, <4>2 DEF Preamble
    <3>5. PICK none : none = <<>> /\ Len(none) = 0 /\ IsSequence(none)
      <4>1. <<>> \in Seq({}) /\ Len(<<>>) = 0
        OBVIOUS
      <4> QED
        BY <4>1 DEF IsSequence
    <3>6. InChunks(none, Preamble, Preamble, 0)
      <4>1. Stretch(Preamble, 0, Len(Preamble)) = Preamble
        BY <3>2, StretchAll
      <4>2. PICK marks : marks = [i \in 0..0 |-> 0]
        OBVIOUS
      <4>3. marks[0] = 0
        BY <4>2
      <4>4. 0..0 = {0} /\ 1..0 = {} /\ 0 \in 0..4
        OBVIOUS
      <4>5. Marked(marks, none, Preamble, Preamble, 0)
        BY <3>1, <3>5, <4>1, <4>3, <4>4 DEF Marked
      <4> QED
        BY <3>2, <3>5, <4>5 DEF InChunks
    <3>7. ReadTo(s, 0)
      BY <2>1, <3>5 DEF ReadTo, Unspoken
    <3>8. InChunks(inq[s], unsent[s], Sent(s), 0)
      BY <2>1, <3>3, <3>4, <3>5, <3>6
    <3>9. 0 \in 0..Len(Sent(s))
      BY <3>1, <3>3
    <3> QED
      BY <3>7, <3>8, <3>9 DEF Streaming
  <2> QED
    BY <2>2, <2>3 DEF StreamWhole
<1> QED
  BY <1>1, <1>2 DEF WholeInv

\* A fetch, or what the backend's socket says, tells no backend anything.
LEMMA WholeElsewhere ==
  ASSUME WholeInv, ForwardInv, NEW s \in Streams,
         \/ VisitorLeaves(s) \/ ReadEnds(s) \/ WriteHead(s) \/ RelayEnds(s) \/ FetchFails(s) \/ Redirected(s)
         \/ PipeBody(s) \/ PipeEnds(s) \/ PipeBreaks(s)
         \/ BackendError(s) \/ BackendClose(s) \/ BackendMessage(s)
  PROVE  WholeInv'
<1>1. UNCHANGED <<req, said, passed, inq, unsent, buf, ws>>
  BY DEF VisitorLeaves, ReadEnds, WriteHead, RelayEnds, FetchFails, Redirected, Answer, PipeBody, PipeEnds, PipeBreaks,
         BackendError, BackendClose, BackendMessage, stream, socket
<1>2. IdsKept'
  <2>1. active' = active \/ Without(s)
    BY DEF VisitorLeaves, ReadEnds, WriteHead, RelayEnds, FetchFails, Redirected, Answer, PipeBody, PipeEnds, PipeBreaks,
           BackendError, BackendClose, BackendMessage, BackendEnds, stream, socket
  <2> QED
    BY <2>1, IdsSet DEF WholeInv
<1>3. \/ pc' = pc
      \/ pc' = [pc EXCEPT ![s] = "done"]
      \/ ~req[s].upgrade /\ \E p : pc' = [pc EXCEPT ![s] = p]
  <2>0. StreamOrderly(s) /\ pc \in [Streams -> Places]
    BY DEF ForwardInv, ForwardTypeOK
  <2>1. CASE VisitorLeaves(s) \/ BackendMessage(s) \/ BackendClose(s)
    BY <2>1 DEF VisitorLeaves, BackendMessage, BackendClose
  <2>2. CASE ReadEnds(s) \/ FetchFails(s) \/ Redirected(s) \/ PipeEnds(s) \/ PipeBreaks(s) \/ RelayEnds(s)
    BY <2>2 DEF ReadEnds, FetchFails, Redirected, Answer, PipeEnds, PipeBreaks, RelayEnds, Finish, Abandon
  <2>3. CASE WriteHead(s)
    <3>1. ~req[s].upgrade
      BY <2>0, <2>3 DEF WriteHead, StreamOrderly, Orderly
    <3> QED
      BY <2>3, <3>1 DEF WriteHead, Abandon, Finish
  <2>4. CASE PipeBody(s)
    BY <2>4 DEF PipeBody, Abandon, Finish
  <2>5. CASE BackendError(s)
    <3>1. pc' = [pc EXCEPT ![s] = IF @ = "opening" THEN "done" ELSE @]
      BY <2>5 DEF BackendError
    <3>2. CASE pc[s] = "opening"
      BY <3>1, <3>2
    <3>3. CASE pc[s] # "opening"
      BY <2>0, <3>1, <3>3
    <3> QED
      BY <3>2, <3>3
  <2> QED
    BY <2>1, <2>2, <2>3, <2>4, <2>5
<1> QED
  BY <1>1, <1>2, <1>3, WholeAside

\* The request is dispatched; the backend's socket opens; the upgrade is answered, or nobody is left.
LEMMA WholeDispatched ==
  ASSUME WholeInv, ForwardInv, NEW s \in Streams, Dispatch(s) \/ BackendOpens(s) \/ Accept(s)
  PROVE  WholeInv'
<1>1. UNCHANGED <<req, said, passed, inq, unsent, buf, ws>>
  BY DEF Dispatch, BackendOpens, Accept, stream
<1>2. IdsKept'
  <2>1. active' = active \/ active' = [active EXCEPT ![IdOf[s]] = s]
    BY DEF Dispatch, BackendOpens, Accept
  <2> QED
    BY <2>1, IdsSet DEF WholeInv
<1>3. \/ pc' = [pc EXCEPT ![s] = "done"]
      \/ ~req[s].upgrade /\ \E p : pc' = [pc EXCEPT ![s] = p]
      \/ pc[s] = "body" /\ pc' = [pc EXCEPT ![s] = "opening"]
      \/ pc[s] = "opening" /\ pc' = [pc EXCEPT ![s] = "accepting"]
      \/ pc[s] = "accepting" /\ pc' = [pc EXCEPT ![s] = "bridge"]
  <2>1. CASE Dispatch(s)
    BY <2>1 DEF Dispatch, Finish
  <2>2. CASE BackendOpens(s)
    <3>1. pc[s] = "opening"
      BY <2>2 DEF BackendOpens, ForwardInv, StreamOrderly, Orderly
    <3> QED
      BY <2>2, <3>1 DEF BackendOpens
  <2>3. CASE Accept(s)
    BY <2>3 DEF Accept, Finish
  <2> QED
    BY <2>1, <2>2, <2>3
<1> QED
  BY <1>1, <1>2, <1>3, WholeAside, WholeOnward

\* Every step keeps what the backends of the streams of one session are told.
LEMMA WholeGoesOn ==
  ASSUME OneSession, WholeInv, ForwardInv, [ForwardNext]_forwardVars
  PROVE  WholeInv'
<1>1. CASE UNCHANGED forwardVars
  <2>1. UNCHANGED <<req, said, passed, inq, unsent, buf, ws, pc, active>>
    BY <1>1 DEF forwardVars
  <2>2. WholeTypes' /\ IdsKept'
    BY <2>1 DEF WholeInv, WholeTypes, IdsKept
  <2>3. ASSUME NEW s \in Streams PROVE StreamWhole(s)'
    BY <2>1, StreamKept DEF WholeInv
  <2> QED
    BY <2>2, <2>3 DEF WholeInv
<1>2. ASSUME NEW s \in Streams,
             \/ Arrive(s) \/ VisitorFrames(s) \/ VisitorLeaves(s) \/ Handler(s)
             \/ FetchFails(s) \/ Redirected(s) \/ PipeBody(s) \/ PipeEnds(s) \/ PipeBreaks(s)
             \/ BackendOpens(s) \/ BackendError(s) \/ BackendClose(s) \/ BackendMessage(s)
      PROVE  WholeInv'
  BY <1>2, WholeArrives, WholeSpoken, WholeReads, WholeParsed, WholeElsewhere, WholeDispatched, WholeRelayed
  DEF Handler
<1> QED
  BY <1>1, <1>2 DEF ForwardNext

\* The streams of one session, in every state: what was read of a stream and what waits in its queue are
\* what its visitor sent, cut into chunks; the decoder holds what came behind the last frame it took off;
\* and the backend got the messages that the frames before told.  Read and relayed by relayVisitorFrames,
\* extension/lib/forwarder.js, with the decoder of extension/lib/ws-codec.js.
THEOREM ForwardTells == OneSession => (ForwardSpec => []WholeInv)
<1> SUFFICES ASSUME OneSession PROVE ForwardSpec => []WholeInv
  OBVIOUS
<1>1. ForwardInit => WholeInv
  BY WholeBegins
<1>2. WholeInv /\ ForwardInv /\ [ForwardNext]_forwardVars => WholeInv'
  BY WholeGoesOn
<1> QED
  BY <1>1, <1>2, ForwardOrderly, PTL DEF ForwardSpec

\* However the bytes of a visitor are cut into chunks and his messages into frames, with others in
\* between, the backend gets the messages that he said, whole, in order and with their type, and perhaps
\* not the last ones (MessagesWhole).  The talk is any sequence of frames; the streams are those of one
\* session, whose ids are its own.
THEOREM MessagesWholeHolds == OneSession => (ForwardSpec => []MessagesWhole)
<1> SUFFICES ASSUME OneSession PROVE ForwardSpec => []MessagesWhole
  OBVIOUS
<1>1. ASSUME WholeInv, ForwardInv PROVE MessagesWhole
  <2>1. ASSUME NEW s \in Streams
        PROVE  /\ Len(passed[s]) <= Len(said[s].messages)
               /\ \A i \in DOMAIN passed[s] : passed[s][i].message = said[s].messages[i]
    <3>1. PICK talk : talk = said[s] /\ IsTalk(talk)
      BY <1>1, SaidTalk DEF ForwardInv
    <3>2. PICK k \in 0..Len(talk.frames) : passed[s] = Passing(s, talk, k)
      BY <1>1, <3>1 DEF WholeInv, StreamWhole, Heard
    <3>3. PICK m : m = talk.told[k].messages
      OBVIOUS
    <3>4. m \in Seq(Messaged) /\ Len(m) \in Nat
      BY <3>1, <3>3, TalkParts DEF Tales
    <3>5. Begins(m, talk.messages)
      BY <3>1, <3>3, TalkGoesOn
    <3>6. passed[s] = [i \in 1..Len(m) |-> [from |-> s, message |-> m[i]]]
      BY <3>2, <3>3 DEF Passing
    <3>7. Len(passed[s]) = Len(m) /\ DOMAIN passed[s] = 1..Len(m)
      BY <3>4, <3>6
    <3>8. \A i \in 1..Len(m) : passed[s][i].message = m[i]
      BY <3>6
    <3> QED
      BY <3>1, <3>5, <3>7, <3>8 DEF Begins
  <2> QED
    BY <2>1 DEF MessagesWhole
<1> QED
  BY <1>1, ForwardTells, ForwardOrderly, PTL

\* Within one session no payload reaches the backend of another stream (FramesStayInTunnel): what goes
\* wrong between two sessions is only that they share ids.
THEOREM FramesStayInSession == OneSession => (ForwardSpec => []FramesStayInTunnel)
<1> SUFFICES ASSUME OneSession PROVE ForwardSpec => []FramesStayInTunnel
  OBVIOUS
<1>1. ASSUME WholeInv, ForwardInv PROVE FramesStayInTunnel
  <2>1. ASSUME NEW s \in Streams PROVE \A i \in 1..Len(passed[s]) : passed[s][i].from = s
    <3>1. PICK talk : talk = said[s] /\ IsTalk(talk)
      BY <1>1, SaidTalk DEF ForwardInv
    <3>2. PICK k \in 0..Len(talk.frames) : passed[s] = Passing(s, talk, k)
      BY <1>1, <3>1 DEF WholeInv, StreamWhole, Heard
    <3>3. PICK m : m = talk.told[k].messages
      OBVIOUS
    <3>4. m \in Seq(Messaged) /\ Len(m) \in Nat
      BY <3>1, <3>3, TalkParts DEF Tales
    <3>5. passed[s] = [i \in 1..Len(m) |-> [from |-> s, message |-> m[i]]]
      BY <3>2, <3>3 DEF Passing
    <3>6. Len(passed[s]) = Len(m)
      BY <3>4, <3>5
    <3> QED
      BY <3>5, <3>6
  <2> QED
    BY <2>1 DEF FramesStayInTunnel
<1> QED
  BY <1>1, ForwardTells, ForwardOrderly, PTL

---------------------------------------------------------------------------
(* One direction of a stream is a pipe (ExtSmux implements ExtPipe).        *)

\* frames, from the relay and to it
Incoming ==
  [cmd : {"SYN", "PSH"}, data : Seq(Nat)] \union [cmd : {"UPD"}, consumed : Nat, window : Nat] \union {Fin}
Outgoing ==
  [cmd : {"PSH"}, data : Seq(Nat)] \union [cmd : {"UPD"}, consumed : Nat, window : Nat] \union {Fin}

StreamStates ==
  [reg : BOOLEAN, closed : BOOLEAN, closing : BOOLEAN, remoteClosed : BOOLEAN,
   queue : Seq(Seq(Nat)), reading : {"none", "idle", "waiting", "chunk", "null", "eof"},
   chunk : Seq(Nat), numRead : Nat, updIncr : Nat, numWritten : Nat, peerConsumed : Nat,
   peerWindow : Nat, waiting : {"no", "waiting", "woken"}]
PeerStates ==
  [open : BOOLEAN, dropped : BOOLEAN, sent : Nat, seen : Nat, win : Nat, got : Seq(Nat),
   read : Nat, incr : Nat, fin : BOOLEAN]
Tasks == [op : {"write"}, lo : Nat, left : Nat] \union [op : {"close"}]

SmuxTypeOK ==
  /\ st \in StreamStates /\ peer \in PeerStates /\ tail \in Seq(Tasks)
  /\ toUs \in Seq(Incoming) /\ toPeer \in Seq(Outgoing)
  /\ session \in {"up", "closed"} /\ cut \in BOOLEAN /\ accepted \in 0..MaxOut
  /\ appRead \in Seq(Nat)

\* The relay opens the stream once: before its SYN has come nothing has happened here.
OpenedOnce ==
  /\ ~peer.open => toUs = <<>> /\ st.reading = "none" /\ peer = FreshPeer
  /\ \A i \in 1..Len(toUs) : toUs[i].cmd = "SYN" => i = 1 /\ st.reading = "none"
  /\ st.reading = "none" => st = Unopened /\ tail = <<>> /\ toPeer = <<>> /\ accepted = 0
  /\ st.reading # "none" => st.reg \/ st.closed

\* What stops a stream before it has drained counts as a cut.
CutsSeen ==
  /\ session = "closed" => st.closed
  /\ ~cut => session = "up" /\ ~st.remoteClosed
  /\ st.closed /\ ~cut => st.numWritten = accepted

\* The tasks of a tail in order: they write the units after number w, as far as number
\* all, and a close stands behind them.  upto[i] is the last number of the first i tasks.
Queues(tasks, w, all, upto) ==
  /\ upto \in [0..Len(tasks) -> 0..all]
  /\ upto[0] = w /\ upto[Len(tasks)] = all
  /\ \A i \in 1..Len(tasks) :
       IF tasks[i].op = "write"
       THEN tasks[i].lo = upto[i - 1] + 1 /\ tasks[i].left = upto[i] - upto[i - 1] /\ tasks[i].left > 0
       ELSE upto[i - 1] = all /\ upto[i] = all
Queued(tasks, w, all) == \E upto : Queues(tasks, w, all, upto)

\* Frames in order: they carry the units after number a, as far as number w, and a FIN
\* stands behind them.  upto[i] is the last number of the first i frames.
Carries(sent, a, w, upto) ==
  /\ upto \in [0..Len(sent) -> 0..w]
  /\ upto[0] = a /\ upto[Len(sent)] = w
  /\ \A i \in 1..Len(sent) :
       /\ IF sent[i].cmd = "PSH"
          THEN upto[i - 1] < upto[i] /\ sent[i].data = Units(upto[i - 1] + 1, upto[i] - upto[i - 1])
          ELSE upto[i] = upto[i - 1]
       /\ sent[i].cmd = "FIN" => upto[i] = w
Carried(sent, a, w) == \E upto : Carries(sent, a, w, upto)

\* The tail writes the units that follow the ones written, and nothing behind a close.
WritesFollow ==
  /\ st.numWritten <= accepted
  /\ \A i \in 1..Len(tail) : tail[i].op = "close" => st.closing \/ st.closed
  /\ ~st.closed /\ ~st.remoteClosed => Queued(tail, st.numWritten, accepted)

\* The frames carry the units that follow the ones received, and none behind a FIN.
FramesFollow ==
  /\ \A i \in 1..Len(toPeer) : toPeer[i].cmd = "FIN" => st.closed
  /\ ~peer.dropped /\ ~peer.fin => Carried(toPeer, Len(peer.got), st.numWritten)

SmuxInv == SmuxTypeOK /\ OpenedOnce /\ CutsSeen /\ WritesFollow /\ FramesFollow

\* Dividing n units into frames: the last frame ends at n, each begins before it.
LEMMA FrameCount ==
  ASSUME NEW n \in Nat
  PROVE  LET k == (n + MaxFrame - 1) \div MaxFrame
         IN  /\ k \in Nat
             /\ k * MaxFrame >= n
             /\ \A i \in 1..k : (i - 1) * MaxFrame < n
<1> DEFINE k == (n + MaxFrame - 1) \div MaxFrame
<1>1. MaxFrame \in Nat \ {0}
  BY SmuxAssumption
<1>2. k \in Nat /\ k * MaxFrame <= n + MaxFrame - 1 /\ n + MaxFrame - 1 < (k + 1) * MaxFrame
  BY <1>1
<1> HIDE DEF k
<1>3. (k + 1) * MaxFrame = k * MaxFrame + MaxFrame
  BY <1>1, <1>2
<1>4. k * MaxFrame \in Int
  BY <1>1, <1>2
<1>5. ASSUME NEW i \in 1..k PROVE (i - 1) * MaxFrame < n
  <2>1. i * MaxFrame <= k * MaxFrame
    BY <1>1, <1>2
  <2>2. (i - 1) * MaxFrame = i * MaxFrame - MaxFrame /\ i * MaxFrame \in Int
    BY <1>1, <1>2
  <2> QED
    BY <1>1, <1>2, <1>4, <2>1, <2>2
<1>6. k * MaxFrame >= n
  BY <1>1, <1>2, <1>3, <1>4
<1> QED
  BY <1>2, <1>5, <1>6 DEF k

\* A write as the frames that carry it.
LEMMA FramesOfWrite ==
  ASSUME NEW w \in Nat, NEW n \in Nat
  PROVE  /\ Frames(w + 1, n) \in Seq(Outgoing)
         /\ \A i \in 1..Len(Frames(w + 1, n)) : Frames(w + 1, n)[i].cmd = "PSH"
         /\ Carried(Frames(w + 1, n), w, w + n)
<1> DEFINE k == (n + MaxFrame - 1) \div MaxFrame
           begin(i) == (i - 1) * MaxFrame
           size(i) == Least(MaxFrame, n - begin(i))
           f == Frames(w + 1, n)
           upto == [i \in 0..k |-> w + Least(i * MaxFrame, n)]
<1>1. MaxFrame \in Nat \ {0}
  BY SmuxAssumption
<1>2. k \in Nat /\ k * MaxFrame >= n /\ \A i \in 1..k : (i - 1) * MaxFrame < n
  BY FrameCount
<1> HIDE DEF k
<1>3. f = [i \in 1..k |-> Psh(Units(w + 1 + begin(i), size(i)))]
  BY DEF Frames, k
<1>4. ASSUME NEW i \in 1..k PROVE begin(i) \in Nat /\ begin(i) < n /\ i * MaxFrame = begin(i) + MaxFrame
  <2>1. begin(i) \in Int /\ i * MaxFrame = begin(i) + MaxFrame
    BY <1>1, <1>2
  <2>2. begin(i) >= 0
    BY <1>1, <1>2
  <2> QED
    BY <1>2, <2>1, <2>2
<1> HIDE DEF begin
<1>5. ASSUME NEW i \in 1..k
      PROVE  /\ size(i) \in Nat /\ size(i) > 0 /\ size(i) = Least(i * MaxFrame, n) - begin(i)
             /\ upto[i - 1] = w + begin(i) /\ upto[i] = w + begin(i) + size(i)
  <2>1. size(i) \in Nat /\ size(i) > 0 /\ size(i) = Least(i * MaxFrame, n) - begin(i)
    BY <1>1, <1>4 DEF Least
  <2>2. i - 1 \in 0..k /\ i \in 0..k
    BY <1>2
  <2>3. upto[i] = w + Least(i * MaxFrame, n)
    BY <2>2
  <2>4. upto[i - 1] = w + Least(begin(i), n)
    BY <2>2 DEF begin
  <2>5. Least(begin(i), n) = begin(i)
    BY <1>4 DEF Least
  <2>6. Least(i * MaxFrame, n) \in Int
    BY <1>1, <1>4 DEF Least
  <2> QED
    BY <1>4, <2>1, <2>3, <2>4, <2>5, <2>6
<1>6. ASSUME NEW i \in 0..k PROVE upto[i] \in 0..(w + n)
  <2>1. i * MaxFrame \in Nat
    BY <1>1, <1>2
  <2> QED
    BY <2>1 DEF Least
<1>7. upto \in [0..k -> 0..(w + n)]
  BY <1>6
<1>8. upto[0] = w /\ upto[k] = w + n
  <2>1. 0 \in 0..k /\ k \in 0..k /\ 0 * MaxFrame = 0 /\ k * MaxFrame \in Nat
    BY <1>1, <1>2
  <2> QED
    BY <1>2, <2>1 DEF Least
<1> HIDE DEF upto, size
<1>9. ASSUME NEW i \in 1..k PROVE Units(w + 1 + begin(i), size(i)) \in Seq(Nat)
  <2>1. w + 1 + begin(i) \in Nat /\ w + 1 + begin(i) >= 1 /\ size(i) \in Nat
    BY <1>4, <1>5
  <2>2. ASSUME NEW lo \in Nat, lo >= 1, NEW m \in Nat PROVE Units(lo, m) \in Seq(Nat)
    BY <2>2 DEF Units
  <2> QED
    BY <2>1, <2>2
<1>10. f \in Seq(Outgoing) /\ Len(f) = k
  <2>1. \A i \in 1..k : Psh(Units(w + 1 + begin(i), size(i))) \in Outgoing
    BY <1>9 DEF Outgoing, Psh
  <2> QED
    BY <1>2, <1>3, <2>1
<1>11. ASSUME NEW i \in 1..k
       PROVE  /\ f[i].cmd = "PSH" /\ upto[i - 1] < upto[i]
              /\ f[i].data = Units(upto[i - 1] + 1, upto[i] - upto[i - 1])
  <2>1. f[i] = Psh(Units(w + 1 + begin(i), size(i)))
    BY <1>3
  <2>2. w + 1 + begin(i) = upto[i - 1] + 1 /\ size(i) = upto[i] - upto[i - 1] /\ upto[i - 1] < upto[i]
    BY <1>4, <1>5
  <2> QED
    BY <2>1, <2>2 DEF Psh
<1> HIDE DEF f
<1>12. Carries(f, w, w + n, upto)
  BY <1>7, <1>8, <1>10, <1>11 DEF Carries
<1>13. Carried(f, w, w + n)
  BY <1>12 DEF Carried
<1> QED
  BY <1>10, <1>11, <1>13 DEF f

\* Frames behind frames.
LEMMA CarriedOn ==
  ASSUME NEW f \in Seq(Outgoing), NEW g \in Seq(Outgoing), NEW a \in Nat, NEW v \in Nat, NEW w \in Nat,
         Carried(f, a, v), Carried(g, v, w), v = w \/ \A i \in 1..Len(f) : f[i].cmd # "FIN"
  PROVE  Carried(f \o g, a, w)
<1>1. PICK p : Carries(f, a, v, p)
  BY DEF Carried
<1>2. PICK q : Carries(g, v, w, q)
  BY DEF Carried
<1> DEFINE m == Len(f)
           n == Len(g)
           h == f \o g
           upto == [i \in 0..(m + n) |-> IF i <= m THEN p[i] ELSE q[i - m]]
<1>3. m \in Nat /\ n \in Nat
  OBVIOUS
<1>4. p \in [0..m -> 0..v] /\ q \in [0..n -> 0..w] /\ p[0] = a /\ p[m] = v /\ q[0] = v /\ q[n] = w
  BY <1>1, <1>2 DEF Carries
<1>5. v <= w
  <2>1. 0 \in 0..n
    BY <1>3
  <2>2. q[0] \in 0..w
    BY <1>4, <2>1
  <2> QED
    BY <1>4, <2>2
<1>6. \A i \in 0..m : upto[i] = p[i] /\ p[i] \in 0..v
  <2>1. ASSUME NEW i \in 0..m PROVE upto[i] = p[i] /\ p[i] \in 0..v
    <3>1. i \in 0..(m + n) /\ i <= m
      BY <1>3
    <3>2. p[i] \in 0..v
      BY <1>4
    <3> HIDE DEF m, n
    <3> QED
      BY <3>1, <3>2
  <2> QED
    BY <2>1
<1>7. \A i \in m..(m + n) : upto[i] = q[i - m] /\ q[i - m] \in 0..w
  <2>1. ASSUME NEW i \in m..(m + n) PROVE upto[i] = q[i - m] /\ q[i - m] \in 0..w
    <3>1. i - m \in 0..n /\ i \in 0..(m + n)
      BY <1>3
    <3>2. q[i - m] \in 0..w
      BY <1>4, <3>1
    <3>3. CASE i = m
      BY <1>3, <1>4, <3>1, <3>2, <3>3
    <3>4. CASE i # m
      BY <1>3, <3>1, <3>2, <3>4
    <3> QED
      BY <3>3, <3>4
  <2> QED
    BY <2>1
<1>8. upto \in [0..(m + n) -> 0..w]
  <2>1. ASSUME NEW i \in 0..(m + n) PROVE upto[i] \in 0..w
    <3>1. CASE i <= m
      <4>1. i \in 0..m
        BY <1>3, <3>1
      <4>2. upto[i] \in 0..v
        BY <1>6, <4>1
      <4> HIDE DEF upto
      <4> QED
        BY <1>5, <4>2
    <3>2. CASE ~(i <= m)
      <4>1. i \in m..(m + n)
        BY <1>3, <3>2
      <4>2. upto[i] \in 0..w
        BY <1>7, <4>1
      <4> HIDE DEF upto
      <4> QED
        BY <1>5, <4>2
    <3> QED
      BY <3>1, <3>2
  <2> QED
    BY <2>1
<1>9. upto[0] = a /\ upto[m + n] = w
  <2>1. 0 \in 0..m /\ m + n \in m..(m + n) /\ (m + n) - m = n
    BY <1>3
  <2> HIDE DEF upto
  <2> QED
    BY <1>4, <1>6, <1>7, <2>1
<1>10. h \in Seq(Outgoing) /\ Len(h) = m + n
  BY <1>3
<1>11. \A i \in 1..m : h[i] = f[i]
  OBVIOUS
<1>12. \A i \in (m + 1)..(m + n) : h[i] = g[i - m]
  OBVIOUS
<1> HIDE DEF upto, h
<1>13. ASSUME NEW i \in 1..(m + n)
       PROVE  /\ IF h[i].cmd = "PSH"
                 THEN upto[i - 1] < upto[i] /\ h[i].data = Units(upto[i - 1] + 1, upto[i] - upto[i - 1])
                 ELSE upto[i] = upto[i - 1]
              /\ h[i].cmd = "FIN" => upto[i] = w
  <2>1. CASE i <= m
    <3>1. i \in 1..m /\ i - 1 \in 0..m /\ i \in 0..m
      BY <1>3, <2>1
    <3>2. h[i] = f[i] /\ upto[i] = p[i] /\ upto[i - 1] = p[i - 1]
      BY <1>6, <1>11, <3>1
    <3>3. /\ IF f[i].cmd = "PSH"
             THEN p[i - 1] < p[i] /\ f[i].data = Units(p[i - 1] + 1, p[i] - p[i - 1])
             ELSE p[i] = p[i - 1]
          /\ f[i].cmd = "FIN" => p[i] = v
      BY <1>1, <3>1 DEF Carries
    <3> QED
      BY <3>1, <3>2, <3>3
  <2>2. CASE ~(i <= m)
    <3>1. i \in (m + 1)..(m + n) /\ i - m \in 1..n /\ i \in m..(m + n) /\ i - 1 \in m..(m + n)
          /\ (i - 1) - m = (i - m) - 1
      BY <1>3, <2>2
    <3>2. h[i] = g[i - m] /\ upto[i] = q[i - m] /\ upto[i - 1] = q[(i - m) - 1]
      BY <1>7, <1>12, <3>1
    <3>3. /\ IF g[i - m].cmd = "PSH"
             THEN q[(i - m) - 1] < q[i - m] /\ g[i - m].data = Units(q[(i - m) - 1] + 1, q[i - m] - q[(i - m) - 1])
             ELSE q[i - m] = q[(i - m) - 1]
          /\ g[i - m].cmd = "FIN" => q[i - m] = w
      BY <1>2, <3>1 DEF Carries
    <3> QED
      BY <3>2, <3>3
  <2> QED
    BY <2>1, <2>2
<1>14. Carries(h, a, w, upto)
  BY <1>8, <1>9, <1>10, <1>13 DEF Carries
<1> QED
  BY <1>14 DEF Carried, h

\* No frame, or one that carries nothing.
LEMMA CarriedNothing ==
  ASSUME NEW w \in Nat
  PROVE  /\ Carried(<<>>, w, w)
         /\ \A x : x.cmd # "PSH" => Carried(<<x>>, w, w)
<1>1. Carried(<<>>, w, w)
  <2> DEFINE upto == [i \in 0..0 |-> w]
  <2>1. upto \in [0..0 -> 0..w] /\ upto[0] = w /\ Len(<<>>) = 0
    OBVIOUS
  <2> HIDE DEF upto
  <2>2. Carries(<<>>, w, w, upto)
    BY <2>1 DEF Carries
  <2> QED
    BY <2>2 DEF Carried
<1>2. ASSUME NEW x, x.cmd # "PSH" PROVE Carried(<<x>>, w, w)
  <2> DEFINE upto == [i \in 0..1 |-> w]
  <2>1. upto \in [0..1 -> 0..w] /\ upto[0] = w /\ upto[1] = w /\ Len(<<x>>) = 1 /\ <<x>>[1] = x
    OBVIOUS
  <2> HIDE DEF upto
  <2>2. \A i \in 1..1 : i = 1 /\ i - 1 = 0
    OBVIOUS
  <2>3. Carries(<<x>>, w, w, upto)
    BY <1>2, <2>1, <2>2 DEF Carries
  <2> QED
    BY <2>3 DEF Carried
<1> QED
  BY <1>1, <1>2

\* The first of the frames, and the rest.
LEMMA CarriedFirst ==
  ASSUME NEW f \in Seq(Outgoing), f # <<>>, NEW a \in Nat, NEW w \in Nat, Carried(f, a, w)
  PROVE  /\ Head(f).cmd = "PSH" =>
              \E n \in Nat \ {0} : /\ Head(f).data = Units(a + 1, n) /\ a + n <= w
                                   /\ Carried(Tail(f), a + n, w)
         /\ Head(f).cmd # "PSH" => Carried(Tail(f), a, w)
         /\ Head(f).cmd = "FIN" => a = w
<1>1. PICK p : Carries(f, a, w, p)
  BY DEF Carried
<1> DEFINE m == Len(f)
           upto == [i \in 0..(m - 1) |-> p[i + 1]]
<1>2. m \in Nat /\ m >= 1 /\ Head(f) = f[1] /\ Len(Tail(f)) = m - 1
  OBVIOUS
<1>3. \A i \in 1..(m - 1) : Tail(f)[i] = f[i + 1]
  OBVIOUS
<1>4. p \in [0..m -> 0..w] /\ p[0] = a /\ p[m] = w
  BY <1>1 DEF Carries
<1>5. p[1] \in 0..w
  BY <1>2, <1>4
<1>6. /\ IF f[1].cmd = "PSH"
         THEN a < p[1] /\ f[1].data = Units(a + 1, p[1] - a)
         ELSE p[1] = a
      /\ f[1].cmd = "FIN" => p[1] = w
  <2>1. 1 \in 1..m /\ 1 - 1 = 0
    BY <1>2
  <2> QED
    BY <1>1, <1>4, <2>1 DEF Carries
<1>7. ASSUME NEW i \in 0..(m - 1) PROVE upto[i] = p[i + 1] /\ p[i + 1] \in 0..w
  <2>1. i + 1 \in 0..m
    BY <1>2
  <2> QED
    BY <1>2, <1>4, <2>1
<1>8. upto \in [0..(m - 1) -> 0..w]
  BY <1>7
<1>9. upto[0] = p[1] /\ upto[m - 1] = w
  <2>1. 0 \in 0..(m - 1) /\ m - 1 \in 0..(m - 1) /\ 0 + 1 = 1 /\ (m - 1) + 1 = m
    BY <1>2
  <2> HIDE DEF upto
  <2> QED
    BY <1>4, <1>7, <2>1
<1> HIDE DEF upto
<1>10. ASSUME NEW i \in 1..(m - 1)
       PROVE  /\ IF Tail(f)[i].cmd = "PSH"
                 THEN upto[i - 1] < upto[i] /\ Tail(f)[i].data = Units(upto[i - 1] + 1, upto[i] - upto[i - 1])
                 ELSE upto[i] = upto[i - 1]
              /\ Tail(f)[i].cmd = "FIN" => upto[i] = w
  <2>1. i + 1 \in 1..m /\ i \in 0..(m - 1) /\ i - 1 \in 0..(m - 1) /\ (i - 1) + 1 = i /\ (i + 1) - 1 = i
    BY <1>2
  <2>2. upto[i] = p[i + 1] /\ upto[i - 1] = p[i] /\ Tail(f)[i] = f[i + 1]
    BY <1>3, <1>7, <2>1
  <2>3. /\ IF f[i + 1].cmd = "PSH"
           THEN p[i] < p[i + 1] /\ f[i + 1].data = Units(p[i] + 1, p[i + 1] - p[i])
           ELSE p[i + 1] = p[i]
        /\ f[i + 1].cmd = "FIN" => p[i + 1] = w
    BY <1>1, <2>1 DEF Carries
  <2> QED
    BY <2>2, <2>3
<1>11. Carries(Tail(f), p[1], w, upto)
  BY <1>2, <1>8, <1>9, <1>10 DEF Carries
<1>12. Carried(Tail(f), p[1], w)
  BY <1>11 DEF Carried
<1>13. ASSUME f[1].cmd = "PSH"
       PROVE  \E n \in Nat \ {0} : f[1].data = Units(a + 1, n) /\ a + n <= w /\ Carried(Tail(f), a + n, w)
  <2>1. p[1] - a \in Nat \ {0} /\ a + (p[1] - a) = p[1] /\ p[1] <= w
    BY <1>5, <1>6, <1>13
  <2> QED
    BY <1>6, <1>12, <1>13, <2>1
<1> QED
  BY <1>2, <1>6, <1>12, <1>13

---------------------------------------------------------------------------
\* The tasks of a tail: none, one more, the first.
LEMMA QueuedNothing ==
  ASSUME NEW w \in Nat, NEW all \in Nat
  PROVE  Queued(<<>>, w, all) <=> w = all
<1>1. ASSUME Queued(<<>>, w, all) PROVE w = all
  <2>1. PICK p : Queues(<<>>, w, all, p)
    BY <1>1 DEF Queued
  <2>2. Len(<<>>) = 0
    OBVIOUS
  <2> QED
    BY <2>1, <2>2 DEF Queues
<1>2. ASSUME w = all PROVE Queued(<<>>, w, all)
  <2> DEFINE upto == [i \in 0..0 |-> w]
  <2>1. upto \in [0..0 -> 0..w] /\ upto[0] = w /\ Len(<<>>) = 0
    OBVIOUS
  <2> HIDE DEF upto
  <2>2. Queues(<<>>, w, all, upto)
    BY <1>2, <2>1 DEF Queues
  <2> QED
    BY <2>2 DEF Queued
<1> QED
  BY <1>1, <1>2

\* The chain of writes of a stream takes one more write, or the close, at its end.
LEMMA QueuedOneMore ==
  ASSUME NEW t \in Seq(Tasks), NEW w \in Nat, NEW all \in Nat, Queued(t, w, all)
  PROVE  /\ (\A i \in 1..Len(t) : t[i].op # "close") =>
              \A n \in Nat \ {0} :
                Queued(Append(t, [op |-> "write", lo |-> all + 1, left |-> n]), w, all + n)
         /\ Queued(Append(t, [op |-> "close"]), w, all)
<1>1. PICK p : Queues(t, w, all, p)
  BY DEF Queued
<1> DEFINE m == Len(t)
<1>2. m \in Nat /\ p \in [0..m -> 0..all] /\ p[0] = w /\ p[m] = all
  BY <1>1 DEF Queues
<1>3. \A i \in 1..m : t[i].op \in {"write", "close"}
  BY DEF Tasks
<1>4. ASSUME NEW n \in Nat, NEW x,
             IF x.op = "write" THEN x.lo = all + 1 /\ x.left = n /\ n > 0 ELSE n = 0,
             n = 0 \/ \A i \in 1..m : t[i].op # "close"
      PROVE  Queued(Append(t, x), w, all + n)
  <2> DEFINE upto == [i \in 0..(m + 1) |-> IF i <= m THEN p[i] ELSE all + n]
             q == Append(t, x)
  <2>1. Len(q) = m + 1 /\ q[m + 1] = x /\ \A i \in 1..m : q[i] = t[i]
    OBVIOUS
  <2>2. upto \in [0..(m + 1) -> 0..(all + n)]
    <3>1. ASSUME NEW i \in 0..(m + 1) PROVE upto[i] \in 0..(all + n)
      <4>1. CASE i <= m
        <5>1. p[i] \in 0..all
          BY <1>2, <4>1
        <5> QED
          BY <4>1, <5>1
      <4>2. CASE ~(i <= m)
        BY <4>2
      <4> QED
        BY <4>1, <4>2
    <3> QED
      BY <3>1
  <2>3. \A i \in 0..m : upto[i] = p[i]
    BY <1>2
  <2>4. upto[m + 1] = all + n
    BY <1>2
  <2> HIDE DEF upto, q
  <2>5. ASSUME NEW i \in 1..(m + 1)
        PROVE  IF q[i].op = "write"
               THEN q[i].lo = upto[i - 1] + 1 /\ q[i].left = upto[i] - upto[i - 1] /\ q[i].left > 0
               ELSE upto[i - 1] = all + n /\ upto[i] = all + n
    <3>1. CASE i <= m
      <4>1. i \in 1..m /\ i \in 0..m /\ i - 1 \in 0..m
        BY <1>2, <3>1
      <4>2. q[i] = t[i] /\ upto[i] = p[i] /\ upto[i - 1] = p[i - 1]
        BY <2>1, <2>3, <4>1
      <4>3. IF t[i].op = "write"
            THEN t[i].lo = p[i - 1] + 1 /\ t[i].left = p[i] - p[i - 1] /\ t[i].left > 0
            ELSE p[i - 1] = all /\ p[i] = all
        BY <1>1, <4>1 DEF Queues
      <4>4. t[i].op # "write" => n = 0
        BY <1>3, <1>4, <4>1
      <4> QED
        BY <4>2, <4>3, <4>4
    <3>2. CASE ~(i <= m)
      <4>1. i = m + 1 /\ i - 1 = m /\ m \in 0..m
        BY <1>2, <3>2
      <4>2. upto[i] = all + n /\ upto[i - 1] = all /\ q[i] = x
        BY <1>2, <2>1, <2>3, <2>4, <4>1
      <4> QED
        BY <1>4, <4>2
    <3> QED
      BY <3>1, <3>2
  <2>6. upto[0] = w
    BY <1>2, <2>3
  <2>7. Queues(q, w, all + n, upto)
    BY <2>1, <2>2, <2>4, <2>5, <2>6 DEF Queues
  <2> QED
    BY <2>7 DEF Queued, q
<1>5. ASSUME NEW n \in Nat \ {0}, \A i \in 1..Len(t) : t[i].op # "close"
      PROVE  Queued(Append(t, [op |-> "write", lo |-> all + 1, left |-> n]), w, all + n)
  BY <1>4, <1>5
<1>6. Queued(Append(t, [op |-> "close"]), w, all + 0)
  BY <1>4
<1>7. all + 0 = all
  OBVIOUS
<1> QED
  BY <1>5, <1>6, <1>7

\* The first write of the chain is the next that the wire lacks; what is left of it still follows.
LEMMA QueuedFirst ==
  ASSUME NEW t \in Seq(Tasks), t # <<>>, NEW w \in Nat, NEW all \in Nat, Queued(t, w, all)
  PROVE  /\ Head(t).op = "write" =>
              /\ Head(t).lo = w + 1 /\ Head(t).left > 0 /\ w + Head(t).left <= all
              /\ Queued(Tail(t), w + Head(t).left, all)
              /\ \A m \in 0..(Head(t).left - 1) :
                   Queued([t EXCEPT ![1] = [Head(t) EXCEPT !.lo = @ + m, !.left = @ - m]], w + m, all)
         /\ Head(t).op = "close" => w = all /\ Queued(Tail(t), w, all)
<1>1. PICK p : Queues(t, w, all, p)
  BY DEF Queued
<1> DEFINE k == Len(t)
           upto == [i \in 0..(k - 1) |-> p[i + 1]]
<1>2. k \in Nat /\ k >= 1 /\ Head(t) = t[1] /\ Len(Tail(t)) = k - 1 /\ t[1] \in Tasks
  OBVIOUS
<1>3. \A i \in 1..(k - 1) : Tail(t)[i] = t[i + 1]
  OBVIOUS
<1>4. p \in [0..k -> 0..all] /\ p[0] = w /\ p[k] = all
  BY <1>1 DEF Queues
<1>5. p[1] \in 0..all
  BY <1>2, <1>4
<1>6. \A i \in 1..k :
        IF t[i].op = "write"
        THEN t[i].lo = p[i - 1] + 1 /\ t[i].left = p[i] - p[i - 1] /\ t[i].left > 0
        ELSE p[i - 1] = all /\ p[i] = all
  BY <1>1 DEF Queues
<1>7. IF t[1].op = "write"
      THEN t[1].lo = w + 1 /\ t[1].left = p[1] - w /\ t[1].left > 0
      ELSE w = all /\ p[1] = all
  <2>1. 1 \in 1..k /\ 1 - 1 = 0
    BY <1>2
  <2> QED
    BY <1>4, <1>6, <2>1
<1>8. Queued(Tail(t), p[1], all)
  <2>1. ASSUME NEW i \in 0..(k - 1) PROVE upto[i] = p[i + 1] /\ p[i + 1] \in 0..all
    <3>1. i + 1 \in 0..k
      BY <1>2
    <3> QED
      BY <1>4, <3>1
  <2>2. upto \in [0..(k - 1) -> 0..all]
    BY <2>1
  <2>3. upto[0] = p[1] /\ upto[k - 1] = all
    <3>1. 0 \in 0..(k - 1) /\ k - 1 \in 0..(k - 1) /\ 0 + 1 = 1 /\ (k - 1) + 1 = k
      BY <1>2
    <3> HIDE DEF upto
    <3> QED
      BY <1>4, <2>1, <3>1
  <2> HIDE DEF upto
  <2>4. ASSUME NEW i \in 1..(k - 1)
        PROVE  IF Tail(t)[i].op = "write"
               THEN Tail(t)[i].lo = upto[i - 1] + 1 /\ Tail(t)[i].left = upto[i] - upto[i - 1] /\ Tail(t)[i].left > 0
               ELSE upto[i - 1] = all /\ upto[i] = all
    <3>1. i + 1 \in 1..k /\ i \in 0..(k - 1) /\ i - 1 \in 0..(k - 1) /\ (i - 1) + 1 = i /\ (i + 1) - 1 = i
      BY <1>2
    <3>2. upto[i] = p[i + 1] /\ upto[i - 1] = p[i] /\ Tail(t)[i] = t[i + 1]
      BY <1>3, <2>1, <3>1
    <3>3. IF t[i + 1].op = "write"
          THEN t[i + 1].lo = p[i] + 1 /\ t[i + 1].left = p[i + 1] - p[i] /\ t[i + 1].left > 0
          ELSE p[i] = all /\ p[i + 1] = all
      BY <1>6, <3>1
    <3> QED
      BY <3>2, <3>3
  <2>5. Queues(Tail(t), p[1], all, upto)
    BY <1>2, <2>2, <2>3, <2>4 DEF Queues
  <2> QED
    BY <2>5 DEF Queued
<1>9. ASSUME t[1].op = "write", NEW m \in 0..(t[1].left - 1)
      PROVE  Queued([t EXCEPT ![1] = [t[1] EXCEPT !.lo = @ + m, !.left = @ - m]], w + m, all)
  <2> DEFINE u == [t EXCEPT ![1] = [t[1] EXCEPT !.lo = @ + m, !.left = @ - m]]
             to == [p EXCEPT ![0] = w + m]
  <2>1. t[1] \in [op : {"write"}, lo : Nat, left : Nat]
    BY <1>2, <1>9 DEF Tasks
  <2>2. Len(u) = k /\ \A i \in 2..k : u[i] = t[i]
    BY <1>2
  <2>3. u[1].op = "write" /\ u[1].lo = t[1].lo + m /\ u[1].left = t[1].left - m
    BY <1>2, <2>1
  <2>4. m \in Nat /\ m < p[1] - w /\ m < t[1].left
    BY <1>4, <1>5, <1>7, <1>9, <2>1
  <2>5. to \in [0..k -> 0..all]
    <3>1. w + m \in 0..all
      BY <1>5, <2>4
    <3> QED
      BY <1>4, <3>1
  <2>6. to[0] = w + m /\ \A i \in 1..k : to[i] = p[i]
    BY <1>2, <1>4
  <2> HIDE DEF u, to
  <2>7. ASSUME NEW i \in 1..k
        PROVE  IF u[i].op = "write"
               THEN u[i].lo = to[i - 1] + 1 /\ u[i].left = to[i] - to[i - 1] /\ u[i].left > 0
               ELSE to[i - 1] = all /\ to[i] = all
    <3>1. CASE i = 1
      <4>1. u[1].lo = (w + m) + 1 /\ u[1].left = p[1] - (w + m) /\ u[1].left > 0
        <5>1. t[1].lo = w + 1 /\ t[1].left = p[1] - w /\ p[1] \in Nat /\ m \in Nat
          BY <1>5, <1>7, <1>9, <2>4
        <5>2. (w + 1) + m = (w + m) + 1 /\ (p[1] - w) - m = p[1] - (w + m) /\ (p[1] - w) - m > 0
          BY <2>4, <5>1
        <5> QED
          BY <2>3, <5>1, <5>2
      <4>2. i - 1 = 0
        BY <3>1
      <4> QED
        BY <2>3, <2>6, <3>1, <4>1, <4>2
    <3>2. CASE i # 1
      <4>1. i \in 2..k /\ i - 1 \in 1..k
        BY <1>2, <3>2
      <4> QED
        BY <1>6, <2>2, <2>6, <4>1
    <3> QED
      BY <3>1, <3>2
  <2>8. to[k] = all
    BY <1>2, <1>4, <2>6
  <2>9. Queues(u, w + m, all, to)
    BY <2>2, <2>5, <2>6, <2>7, <2>8 DEF Queues
  <2> QED
    BY <2>9 DEF Queued, u
<1>10. ASSUME t[1].op = "write"
       PROVE  t[1].lo = w + 1 /\ t[1].left > 0 /\ w + t[1].left <= all /\ Queued(Tail(t), w + t[1].left, all)
  <2>1. w + t[1].left = p[1]
    BY <1>5, <1>7, <1>10
  <2> QED
    BY <1>5, <1>7, <1>8, <1>10, <2>1
<1>11. t[1].op = "close" => w = all /\ Queued(Tail(t), w, all)
  BY <1>7, <1>8
<1> QED
  BY <1>2, <1>9, <1>10, <1>11

\* The bounds are numbers and the streams that the actions begin with are streams.
LEMMA SmuxConstants ==
  /\ InitialWindow \in Nat /\ StreamBuffer \in Nat /\ MaxFrame \in Nat \ {0} /\ MaxOut \in Nat /\ MaxIn \in Nat
  /\ Unopened \in StreamStates /\ FreshStream \in StreamStates /\ FreshPeer \in PeerStates
  /\ Unopened.reading = "none" /\ Unopened.numWritten = 0
  /\ ~Unopened.closed /\ ~Unopened.closing /\ ~Unopened.remoteClosed /\ ~Unopened.reg
<1>1. InitialWindow \in Nat /\ StreamBuffer \in Nat /\ MaxFrame \in Nat \ {0} /\ MaxOut \in Nat /\ MaxIn \in Nat
  BY SmuxAssumption
<1>2. FreshStream \in StreamStates
  BY <1>1 DEF FreshStream, StreamStates
<1>3. FreshPeer \in PeerStates
  BY <1>1 DEF FreshPeer, PeerStates
<1>4. /\ Unopened \in StreamStates /\ Unopened.reading = "none" /\ Unopened.numWritten = 0
      /\ ~Unopened.closed /\ ~Unopened.closing /\ ~Unopened.remoteClosed /\ ~Unopened.reg
  <2>1. FreshStream.numWritten = 0 /\ ~FreshStream.closed /\ ~FreshStream.closing /\ ~FreshStream.remoteClosed
    BY DEF FreshStream
  <2> QED
    BY <1>2, <2>1 DEF Unopened, StreamStates
<1> QED
  BY <1>1, <1>2, <1>3, <1>4

\* What resolving the promises and a chunk of data leave as they are.
SameCounts(s, r) ==
  /\ r.numWritten = s.numWritten /\ r.closed = s.closed /\ r.closing = s.closing
  /\ r.remoteClosed = s.remoteClosed /\ r.reg = s.reg
  /\ r.reading = "none" <=> s.reading = "none"

\* Waking the readers and writers of a stream leaves its counts.
LEMMA WokenKeeps ==
  ASSUME NEW s \in StreamStates
  PROVE  Woken(s) \in StreamStates /\ SameCounts(s, Woken(s))
BY DEF Woken, StreamStates, SameCounts

\* Data that comes for a stream leaves the counts of what it sent.
LEMMA PushDataKeeps ==
  ASSUME NEW s \in StreamStates, NEW data \in Seq(Nat)
  PROVE  PushData(s, data) \in StreamStates /\ SameCounts(s, PushData(s, data))
<1>1. CASE s.closed
  BY <1>1 DEF PushData, SameCounts
<1>2. CASE ~s.closed /\ s.reading = "waiting"
  <2>1. PushData(s, data) = [s EXCEPT !.reading = "chunk", !.chunk = data]
    BY <1>2 DEF PushData
  <2> QED
    BY <1>2, <2>1 DEF StreamStates, SameCounts
<1>3. CASE ~s.closed /\ s.reading # "waiting"
  <2>1. PushData(s, data) = [s EXCEPT !.queue = Append(@, data)]
    BY <1>3 DEF PushData
  <2>2. Append(s.queue, data) \in Seq(Seq(Nat))
    BY DEF StreamStates
  <2> QED
    BY <2>1, <2>2 DEF StreamStates, SameCounts
<1> QED
  BY <1>1, <1>2, <1>3

\* A frame that carries no data is sent, or the session is closed.
LEMMA SentBehind ==
  ASSUME SmuxTypeOK, NEW x \in Outgoing, Send(<<x>>)
  PROVE  toPeer' \in Seq(Outgoing) /\ (toPeer' = toPeer \/ toPeer' = toPeer \o <<x>>)
<1>1. toPeer \o <<x>> \in Seq(Outgoing)
  BY DEF SmuxTypeOK
<1> QED
  BY <1>1 DEF Send, SmuxTypeOK

\* A frame without data carries nothing more of the stream.
LEMMA CarriedOneMore ==
  ASSUME NEW f \in Seq(Outgoing), NEW a \in Nat, NEW w \in Nat, Carried(f, a, w),
         NEW x \in Outgoing, x.cmd # "PSH"
  PROVE  Carried(f \o <<x>>, a, w)
<1>1. <<x>> \in Seq(Outgoing) /\ Carried(<<x>>, w, w)
  BY CarriedNothing
<1> QED
  BY <1>1, CarriedOn

\* A step that writes nothing: the tail, the units accepted, written and received stay.
LEMMA NothingWritten ==
  ASSUME SmuxInv, SmuxTypeOK', OpenedOnce', tail' = tail, accepted' = accepted,
         st'.numWritten = st.numWritten, peer'.got = peer.got,
         st.closed => st'.closed, st.closing => st'.closing, st.remoteClosed => st'.remoteClosed,
         peer.dropped => peer'.dropped, peer.fin => peer'.fin,
         session' = "closed" => st'.closed,
         ~cut' => ~cut /\ session' = "up" /\ ~st'.remoteClosed /\ (st'.closed => st.closed),
         \/ toPeer' = toPeer
         \/ \E x \in Outgoing : x.cmd # "PSH" /\ (x.cmd = "FIN" => st'.closed) /\ toPeer' = toPeer \o <<x>>
  PROVE  SmuxInv'
<1> USE DEF SmuxInv
<1>1. CutsSeen'
  BY DEF CutsSeen
<1>2. WritesFollow'
  BY DEF WritesFollow
<1>3. FramesFollow'
  <2>1. CASE toPeer' = toPeer
    BY <2>1 DEF FramesFollow
  <2>2. ASSUME NEW x \in Outgoing, x.cmd # "PSH", x.cmd = "FIN" => st'.closed, toPeer' = toPeer \o <<x>>
        PROVE  FramesFollow'
    <3>1. toPeer \in Seq(Outgoing) /\ Len(peer.got) \in Nat /\ st.numWritten \in Nat
      BY DEF SmuxTypeOK, PeerStates, StreamStates
    <3>2. \A i \in 1..Len(toPeer') : toPeer'[i].cmd = "FIN" => st'.closed
      BY <2>2, <3>1 DEF FramesFollow
    <3>3. ~peer'.dropped /\ ~peer'.fin => Carried(toPeer', Len(peer'.got), st'.numWritten)
      BY <2>2, <3>1, CarriedOneMore DEF FramesFollow
    <3> QED
      BY <3>2, <3>3 DEF FramesFollow
  <2> QED
    BY <2>1, <2>2
<1> QED
  BY <1>1, <1>2, <1>3

\* Frames from the relay, and the end of the session.
LEMMA FeedStep == ASSUME SmuxInv, Feed PROVE SmuxInv'
<1>0. SmuxTypeOK /\ OpenedOnce
  BY DEF SmuxInv
<1> DEFINE f == Head(toUs)
<1>1. /\ session = "up" /\ toUs # <<>> /\ toUs' = Tail(toUs) /\ f \in Incoming
      /\ tail' = tail /\ session' = session /\ toPeer' = toPeer /\ peer' = peer /\ accepted' = accepted
      /\ appRead' = appRead
  BY <1>0 DEF Feed, SmuxTypeOK
<1>2. /\ toUs' \in Seq(Incoming) /\ f = toUs[1]
      /\ Len(toUs) >= 1 /\ Len(toUs') = Len(toUs) - 1 /\ \A i \in 1..Len(toUs') : toUs'[i] = toUs[i + 1]
  BY <1>0, <1>1 DEF SmuxTypeOK
<1> HIDE DEF f
<1>3. \/ f.cmd = "SYN" /\ st.reading = "none" /\ HandleSyn(f) /\ cut' = cut
      \/ f.cmd = "PSH" /\ HandlePsh(f) /\ cut' = cut
      \/ f.cmd = "FIN" /\ HandleFin /\ cut' = TRUE
      \/ f.cmd = "UPD" /\ HandleUpd(f) /\ cut' = cut
  BY <1>0, <1>1, <1>2 DEF Feed, OpenedOnce, f
<1>4. st \in StreamStates /\ peer.open
  BY <1>0, <1>1 DEF SmuxTypeOK, OpenedOnce
<1>5. /\ st' \in StreamStates /\ cut' \in BOOLEAN
      /\ st'.numWritten = st.numWritten /\ st'.closed = st.closed /\ st'.closing = st.closing
      /\ st.remoteClosed => st'.remoteClosed
      /\ ~cut' => ~cut /\ st'.remoteClosed = st.remoteClosed
      /\ st'.reading = "none" => st.reading = "none" /\ f.cmd # "SYN" /\ st' = st
      /\ st'.reading # "none" => st'.reg \/ st'.closed
  <2>1. CASE f.cmd = "SYN" /\ st.reading = "none" /\ HandleSyn(f) /\ cut' = cut
    <3>1. st = Unopened
      BY <1>0, <2>1 DEF OpenedOnce
    <3>2. f.data \in Seq(Nat)
      BY <1>1, <2>1 DEF Incoming, Fin
    <3>3. SameCounts(FreshStream, FreshStream)
      BY DEF SameCounts
    <3>4. st' \in StreamStates /\ SameCounts(FreshStream, st')
      BY <2>1, <3>2, <3>3, SmuxConstants, PushDataKeeps DEF HandleSyn
    <3>5. /\ FreshStream.numWritten = 0 /\ ~FreshStream.closed /\ ~FreshStream.closing /\ ~FreshStream.remoteClosed
          /\ FreshStream.reading = "idle" /\ FreshStream.reg
      BY DEF FreshStream
    <3>6. /\ st'.numWritten = 0 /\ ~st'.closed /\ ~st'.closing /\ ~st'.remoteClosed
          /\ st'.reading # "none" /\ st'.reg
      BY <3>4, <3>5 DEF SameCounts
    <3>7. st'.closed \in BOOLEAN /\ st'.closing \in BOOLEAN /\ st'.remoteClosed \in BOOLEAN /\ st.closed \in BOOLEAN
          /\ st.closing \in BOOLEAN /\ st.remoteClosed \in BOOLEAN
      BY <1>4, <3>4 DEF StreamStates
    <3>8. st.numWritten = 0 /\ ~st.closed /\ ~st.closing /\ ~st.remoteClosed
      BY <3>1, SmuxConstants
    <3>9. cut' \in BOOLEAN
      BY <1>0, <2>1 DEF SmuxTypeOK
    <3> QED
      BY <2>1, <3>4, <3>6, <3>7, <3>8, <3>9
  <2>2. CASE f.cmd = "PSH" /\ HandlePsh(f) /\ cut' = cut
    <3>1. f.data \in Seq(Nat)
      BY <1>1, <2>2 DEF Incoming, Fin
    <3>2. CASE st.reg
      <4>1. st.reading # "none"
        BY <1>0, <3>2, SmuxConstants DEF OpenedOnce
      <4>2. st' \in StreamStates /\ SameCounts(st, st')
        BY <1>4, <2>2, <3>1, <3>2, PushDataKeeps DEF HandlePsh
      <4> QED
        BY <1>0, <2>2, <4>1, <4>2 DEF SameCounts, SmuxTypeOK, OpenedOnce
    <3>3. CASE ~st.reg
      BY <1>0, <1>4, <2>2, <3>3 DEF HandlePsh, SmuxTypeOK, OpenedOnce
    <3> QED
      BY <3>2, <3>3
  <2>3. CASE f.cmd = "FIN" /\ HandleFin /\ cut' = TRUE
    <3>1. CASE st.reg
      <4> DEFINE s == [st EXCEPT !.remoteClosed = TRUE]
      <4>1. /\ s \in StreamStates /\ s.numWritten = st.numWritten /\ s.closed = st.closed /\ s.closing = st.closing
            /\ s.remoteClosed /\ s.reading = st.reading /\ s.reg = st.reg
        BY <1>4 DEF StreamStates
      <4> HIDE DEF s
      <4>2. st' \in StreamStates /\ SameCounts(s, st')
        BY <2>3, <3>1, <4>1, WokenKeeps DEF HandleFin, s
      <4>3. st.reading # "none"
        BY <1>0, <3>1, SmuxConstants DEF OpenedOnce
      <4> QED
        BY <2>3, <3>1, <4>1, <4>2, <4>3 DEF SameCounts
    <3>2. CASE ~st.reg
      BY <1>0, <1>4, <2>3, <3>2 DEF HandleFin, OpenedOnce
    <3> QED
      BY <3>1, <3>2
  <2>4. CASE f.cmd = "UPD" /\ HandleUpd(f) /\ cut' = cut
    <3>1. f.consumed \in Nat /\ f.window \in Nat
      BY <1>1, <2>4 DEF Incoming, Fin
    <3>2. CASE st.reg
      <4> DEFINE s == [st EXCEPT !.peerConsumed = f.consumed, !.peerWindow = f.window]
      <4>1. s \in StreamStates /\ SameCounts(st, s)
        BY <1>4, <3>1 DEF StreamStates, SameCounts
      <4> HIDE DEF s
      <4>2. st' = s \/ st' = [s EXCEPT !.waiting = "woken"]
        BY <2>4, <3>2 DEF HandleUpd, s
      <4>3. st' \in StreamStates /\ SameCounts(st, st')
        BY <4>1, <4>2 DEF StreamStates, SameCounts
      <4>4. st.reading # "none"
        BY <1>0, <3>2, SmuxConstants DEF OpenedOnce
      <4> QED
        BY <1>0, <2>4, <4>3, <4>4 DEF SameCounts, SmuxTypeOK, OpenedOnce
    <3>3. CASE ~st.reg
      BY <1>0, <1>4, <2>4, <3>3 DEF HandleUpd, SmuxTypeOK, OpenedOnce
    <3> QED
      BY <3>2, <3>3
  <2> QED
    BY <1>3, <2>1, <2>2, <2>3, <2>4
<1>6. SmuxTypeOK'
  BY <1>0, <1>1, <1>2, <1>5 DEF SmuxTypeOK
<1>7. OpenedOnce'
  <2>1. \A i \in 1..Len(toUs') : toUs'[i].cmd # "SYN"
    <3>1. ASSUME NEW i \in 1..Len(toUs') PROVE toUs'[i].cmd # "SYN"
      <4>1. i + 1 \in 1..Len(toUs) /\ i + 1 # 1
        BY <1>2
      <4> QED
        BY <1>0, <1>2, <4>1 DEF OpenedOnce
    <3> QED
      BY <3>1
  <2>2. st'.reading = "none" => st' = st /\ st.reading = "none"
    BY <1>5
  <2>3. peer'.open /\ (st'.reading # "none" => st'.reg \/ st'.closed)
    BY <1>1, <1>4, <1>5
  <2> QED
    BY <1>0, <1>1, <2>1, <2>2, <2>3 DEF OpenedOnce
<1> QED
  BY <1>1, <1>5, <1>6, <1>7, NothingWritten DEF SmuxInv, CutsSeen

\* A step on this side of a stream that is open: frames from the relay stay, and none is a SYN.
LEMMA StillOpened ==
  ASSUME OpenedOnce, st.reading # "none", st'.reading # "none", st'.reg \/ st'.closed,
         toUs' = toUs, peer' = peer
  PROVE  OpenedOnce'
BY DEF OpenedOnce

\* The end of the session keeps the order of the bytes.
LEMMA CloseSessionStep == ASSUME SmuxInv, CloseSession PROVE SmuxInv'
<1>0. SmuxTypeOK /\ OpenedOnce /\ CutsSeen /\ st \in StreamStates
  BY DEF SmuxInv, SmuxTypeOK
<1>1. /\ st.reading # "none" /\ session' = "closed" /\ cut' = TRUE /\ tail' = tail /\ toUs' = toUs
      /\ toPeer' = toPeer /\ peer' = peer /\ accepted' = accepted /\ appRead' = appRead
      /\ st' = IF st.reg THEN [Woken(st) EXCEPT !.closed = TRUE, !.closing = TRUE, !.reg = FALSE] ELSE st
  BY DEF CloseSession
<1>2. Woken(st) \in StreamStates /\ SameCounts(st, Woken(st))
  BY <1>0, WokenKeeps
<1>3. ~st.reg => st.closed
  BY <1>0, <1>1 DEF OpenedOnce
<1>4. /\ st' \in StreamStates /\ st'.closed /\ st'.numWritten = st.numWritten /\ st'.reading # "none"
      /\ st.closing => st'.closing
      /\ st'.remoteClosed = st.remoteClosed
  BY <1>0, <1>1, <1>2, <1>3 DEF StreamStates, SameCounts
<1>5. SmuxTypeOK'
  BY <1>0, <1>1, <1>4 DEF SmuxTypeOK
<1>6. OpenedOnce'
  BY <1>0, <1>1, <1>4, StillOpened
<1> QED
  BY <1>1, <1>4, <1>5, <1>6, NothingWritten

\* read(): the credit it sends carries no data.
LEMMA AccountStep ==
  ASSUME SmuxInv, NEW s \in StreamStates, SameCounts(st, s), st.reading # "none", NEW chunk \in Seq(Nat),
         Account(s, chunk), tail' = tail, session' = session, toUs' = toUs, peer' = peer,
         accepted' = accepted, cut' = cut
  PROVE  SmuxInv'
<1>0. SmuxTypeOK /\ OpenedOnce /\ CutsSeen
  BY DEF SmuxInv
<1> DEFINE n == s.numRead + Len(chunk)
           incr == s.updIncr + Len(chunk)
           credit == n = Len(chunk) \/ incr >= UpdThreshold
<1>1. n \in Nat /\ incr \in Nat
  BY DEF StreamStates
<1>2. /\ st' = [s EXCEPT !.numRead = n, !.updIncr = IF credit THEN 0 ELSE incr, !.reading = "idle", !.chunk = <<>>]
      /\ Send(IF credit THEN <<Upd(n, StreamBuffer)>> ELSE <<>>)
      /\ appRead' = appRead \o chunk
  BY DEF Account
<1> HIDE DEF n, incr, credit
<1>3. PICK v \in Nat : st' = [s EXCEPT !.numRead = n, !.updIncr = v, !.reading = "idle", !.chunk = <<>>]
  BY <1>1, <1>2
<1>4. /\ st' \in StreamStates /\ st'.numWritten = st.numWritten /\ st'.closed = st.closed
      /\ st'.closing = st.closing /\ st'.remoteClosed = st.remoteClosed /\ st'.reading = "idle" /\ st'.reg = st.reg
  <2>1. <<>> \in Seq(Nat)
    OBVIOUS
  <2> QED
    BY <1>1, <1>3, <2>1 DEF StreamStates, SameCounts
<1>5. Upd(n, StreamBuffer) \in Outgoing /\ Upd(n, StreamBuffer).cmd = "UPD"
  BY <1>1, SmuxConstants DEF Upd, Outgoing
<1>6. /\ toPeer' \in Seq(Outgoing)
      /\ toPeer' = toPeer \/ toPeer' = toPeer \o <<Upd(n, StreamBuffer)>>
  <2>1. CASE credit
    BY <1>0, <1>2, <1>5, <2>1, SentBehind
  <2>2. CASE ~credit
    <3>1. toPeer' = toPeer \/ toPeer' = toPeer \o <<>>
      BY <1>2, <2>2 DEF Send
    <3>2. toPeer \in Seq(Outgoing) /\ toPeer \o <<>> = toPeer
      BY <1>0, ConcatEmptySeq DEF SmuxTypeOK
    <3> QED
      BY <3>1, <3>2
  <2> QED
    BY <2>1, <2>2
<1>7. SmuxTypeOK'
  <2>1. appRead' \in Seq(Nat)
    BY <1>0, <1>2 DEF SmuxTypeOK
  <2> QED
    BY <1>0, <1>4, <1>6, <2>1 DEF SmuxTypeOK
<1>8. OpenedOnce'
  <2>1. st'.reg \/ st'.closed
    BY <1>0, <1>4 DEF OpenedOnce
  <2> QED
    BY <1>0, <1>4, <2>1, StillOpened
<1>9. ~cut' => ~cut /\ session' = "up" /\ ~st'.remoteClosed
  BY <1>0, <1>4 DEF CutsSeen
<1>10. session' = "closed" => st'.closed
  BY <1>0, <1>4 DEF CutsSeen
<1> QED
  BY <1>4, <1>5, <1>6, <1>7, <1>8, <1>9, <1>10, NothingWritten

\* A step that changes nothing but the stream's read() and write() promises.
LEMMA PromiseStep ==
  ASSUME SmuxInv, st.reading # "none", st' \in StreamStates, SameCounts(st, st'), tail' = tail, session' = session,
         toUs' = toUs, toPeer' = toPeer, peer' = peer, accepted' = accepted, cut' = cut, appRead' = appRead
  PROVE  SmuxInv'
<1>0. SmuxTypeOK /\ OpenedOnce /\ CutsSeen
  BY DEF SmuxInv
<1>1. SmuxTypeOK'
  BY <1>0 DEF SmuxTypeOK
<1>2. OpenedOnce'
  BY <1>0, StillOpened DEF SameCounts, OpenedOnce
<1>3. /\ ~cut' => ~cut /\ session' = "up" /\ ~st'.remoteClosed
      /\ session' = "closed" => st'.closed
  BY <1>0 DEF SameCounts, CutsSeen
<1> QED
  BY <1>1, <1>2, <1>3, NothingWritten DEF SameCounts

\* Reads of the application keep the order of the bytes they do not touch.
LEMMA ReadSteps == ASSUME SmuxInv, Read \/ ReadResumes PROVE SmuxInv'
<1>0. st \in StreamStates
  BY DEF SmuxInv, SmuxTypeOK
<1>1. /\ st.reading # "none" /\ tail' = tail /\ session' = session /\ toUs' = toUs /\ peer' = peer
      /\ accepted' = accepted /\ cut' = cut
  BY DEF Read, ReadResumes
<1>2. CASE st' = [st EXCEPT !.reading = "eof"] /\ toPeer' = toPeer /\ appRead' = appRead
  <2>1. st' \in StreamStates /\ SameCounts(st, st')
    BY <1>0, <1>1, <1>2 DEF StreamStates, SameCounts
  <2> QED
    BY <1>1, <1>2, <2>1, PromiseStep
<1>3. CASE st' = [st EXCEPT !.reading = "waiting"] /\ toPeer' = toPeer /\ appRead' = appRead
  <2>1. st' \in StreamStates /\ SameCounts(st, st')
    BY <1>0, <1>1, <1>3 DEF StreamStates, SameCounts
  <2> QED
    BY <1>1, <1>3, <2>1, PromiseStep
<1>4. CASE st.queue # <<>> /\ Account([st EXCEPT !.queue = Tail(@)], Head(st.queue))
  <2> DEFINE s == [st EXCEPT !.queue = Tail(@)]
  <2>1. st.queue \in Seq(Seq(Nat))
    BY <1>0 DEF StreamStates
  <2>2. Tail(st.queue) \in Seq(Seq(Nat)) /\ Head(st.queue) \in Seq(Nat)
    BY <1>4, <2>1, HeadTailProperties
  <2>3. s \in StreamStates /\ SameCounts(st, s)
    BY <1>0, <2>2 DEF StreamStates, SameCounts
  <2> HIDE DEF s
  <2>4. Account(s, Head(st.queue))
    BY <1>4 DEF s
  <2> QED
    BY <1>1, <2>2, <2>3, <2>4, AccountStep
<1>5. CASE Account(st, st.chunk)
  <2>1. st.chunk \in Seq(Nat) /\ SameCounts(st, st)
    BY <1>0 DEF StreamStates, SameCounts
  <2> QED
    BY <1>0, <1>1, <1>5, <2>1, AccountStep
<1> QED
  BY <1>2, <1>3, <1>4, <1>5 DEF Read, ReadResumes

\* A forced close, which drops what is queued, keeps the order of what is on the wire.
LEMMA CloseForceStep == ASSUME SmuxInv, CloseForce PROVE SmuxInv'
<1>0. SmuxTypeOK /\ OpenedOnce /\ CutsSeen /\ st \in StreamStates
  BY DEF SmuxInv, SmuxTypeOK
<1>1. /\ st.reading # "none" /\ session' = session /\ cut' = TRUE /\ tail' = tail /\ toUs' = toUs
      /\ peer' = peer /\ accepted' = accepted /\ appRead' = appRead
      /\ st' = [Woken(st) EXCEPT !.closed = TRUE, !.reg = FALSE]
      /\ Send(<<Fin>>)
  BY DEF CloseForce
<1>2. Woken(st) \in StreamStates /\ SameCounts(st, Woken(st))
  BY <1>0, WokenKeeps
<1>3. /\ st' \in StreamStates /\ st'.closed /\ st'.numWritten = st.numWritten /\ st'.reading # "none"
      /\ st'.closing = st.closing /\ st'.remoteClosed = st.remoteClosed
  BY <1>0, <1>1, <1>2 DEF StreamStates, SameCounts
<1>4. Fin \in Outgoing /\ Fin.cmd = "FIN"
  BY DEF Outgoing, Fin
<1>5. toPeer' \in Seq(Outgoing) /\ (toPeer' = toPeer \/ toPeer' = toPeer \o <<Fin>>)
  BY <1>0, <1>1, <1>4, SentBehind
<1>6. SmuxTypeOK'
  BY <1>0, <1>1, <1>3, <1>5 DEF SmuxTypeOK
<1>7. OpenedOnce'
  BY <1>0, <1>1, <1>3, StillOpened
<1> QED
  BY <1>1, <1>3, <1>4, <1>5, <1>6, <1>7, NothingWritten

\* The relay's own steps but for PeerReceive.
LEMMA PeerSteps == ASSUME SmuxInv, PeerOpen \/ PeerPush \/ PeerRead \/ PeerFin PROVE SmuxInv'
<1>0. SmuxTypeOK /\ OpenedOnce /\ CutsSeen /\ peer \in PeerStates
  BY DEF SmuxInv, SmuxTypeOK
<1>1. /\ st' = st /\ tail' = tail /\ session' = session /\ toPeer' = toPeer /\ accepted' = accepted
      /\ cut' = cut /\ appRead' = appRead
  BY DEF PeerOpen, PeerPush, PeerRead, PeerFin
<1>2. ASSUME NEW lo \in Nat, NEW n \in Nat PROVE Units(lo + 1, n) \in Seq(Nat)
  BY DEF Units
<1>3. /\ peer' \in PeerStates /\ peer'.got = peer.got /\ peer'.open
      /\ peer.dropped => peer'.dropped
      /\ peer.fin => peer'.fin
      /\ \/ toUs' = toUs /\ peer.open
         \/ ~peer.open /\ \E x \in Incoming : toUs' = Append(toUs, x)
         \/ peer.open /\ \E x \in Incoming : x.cmd # "SYN" /\ toUs' = Append(toUs, x)
  <2>1. CASE PeerOpen
    <3>1. PICK n \in 0..Least(1, MaxIn) :
            toUs' = Append(toUs, Syn(Units(1, n))) /\ peer' = [peer EXCEPT !.open = TRUE, !.sent = n]
      BY <2>1 DEF PeerOpen
    <3>2. n \in Nat /\ Units(1, n) \in Seq(Nat) /\ ~peer.open
      <4>1. MaxIn \in Nat
        BY SmuxConstants
      <4>2. n \in Nat
        BY <4>1 DEF Least
      <4>3. Units(0 + 1, n) \in Seq(Nat)
        BY <1>2, <4>2
      <4>4. 0 + 1 = 1
        OBVIOUS
      <4> QED
        BY <2>1, <4>2, <4>3, <4>4, Zenon DEF PeerOpen
    <3>3. Syn(Units(1, n)) \in Incoming
      BY <3>2 DEF Syn, Incoming
    <3> QED
      BY <1>0, <3>1, <3>2, <3>3 DEF PeerStates
  <2>2. CASE PeerPush
    <3>1. PICK n \in 1..Least(MaxFrame, MaxIn - peer.sent) :
            toUs' = Append(toUs, Psh(Units(peer.sent + 1, n))) /\ peer' = [peer EXCEPT !.sent = @ + n]
      BY <2>2 DEF PeerPush
    <3>2. n \in Nat /\ peer.sent \in Nat /\ peer.open
      <4>1. MaxIn \in Nat /\ MaxFrame \in Nat
        BY SmuxConstants
      <4>2. peer.sent \in Nat
        BY <1>0 DEF PeerStates
      <4>3. n \in Nat
        BY <4>1, <4>2 DEF Least
      <4> QED
        BY <2>2, <4>2, <4>3 DEF PeerPush
    <3>3. Psh(Units(peer.sent + 1, n)) \in Incoming /\ Psh(Units(peer.sent + 1, n)).cmd = "PSH"
      BY <1>2, <3>2 DEF Psh, Incoming
    <3>4. peer.sent + n \in Nat
      BY <3>2
    <3>5. peer' \in PeerStates /\ peer'.got = peer.got /\ peer'.open = peer.open /\ peer'.dropped = peer.dropped /\ peer'.fin = peer.fin
      BY <1>0, <3>1, <3>4 DEF PeerStates
    <3> QED
      BY <3>1, <3>2, <3>3, <3>5
  <2>3. CASE PeerRead
    <3> DEFINE n == Len(peer.got) - peer.read
               credit == peer.read = 0 \/ peer.incr + n >= UpdThreshold
    <3>1. n \in Nat /\ peer.read \in Nat /\ peer.incr \in Nat /\ peer.got # <<>>
      BY <1>0, <2>3 DEF PeerRead, PeerStates
    <3>2. /\ peer' = [peer EXCEPT !.read = @ + n, !.incr = IF credit THEN 0 ELSE @ + n]
          /\ toUs' = IF credit THEN Append(toUs, Upd(peer.read + n, StreamBuffer)) ELSE toUs
      BY <2>3 DEF PeerRead
    <3>3. FreshPeer.got = <<>>
      BY DEF FreshPeer
    <3>4. peer.open
      BY <1>0, <3>1, <3>3 DEF OpenedOnce
    <3> HIDE DEF n, credit
    <3>5. Upd(peer.read + n, StreamBuffer) \in Incoming /\ Upd(peer.read + n, StreamBuffer).cmd = "UPD"
      BY <3>1, SmuxConstants DEF Upd, Incoming
    <3>6. PICK v \in Nat : peer' = [peer EXCEPT !.read = @ + n, !.incr = v]
      <4>1. CASE credit
        <5>1. peer' = [peer EXCEPT !.read = @ + n, !.incr = 0] /\ 0 \in Nat
          BY <3>2, <4>1
        <5> QED
          BY <5>1
      <4>2. CASE ~credit
        <5>1. peer' = [peer EXCEPT !.read = @ + n, !.incr = peer.incr + n] /\ peer.incr + n \in Nat
          BY <3>1, <3>2, <4>2
        <5> QED
          BY <5>1
      <4> QED
        BY <4>1, <4>2
    <3>7. peer.read + n \in Nat
      BY <3>1
    <3>8. peer' \in PeerStates /\ peer'.got = peer.got /\ peer'.open = peer.open /\ peer'.dropped = peer.dropped /\ peer'.fin = peer.fin
      BY <1>0, <3>6, <3>7 DEF PeerStates
    <3> QED
      BY <3>2, <3>4, <3>5, <3>8
  <2>4. CASE PeerFin
    <3>1. Fin \in Incoming /\ Fin.cmd = "FIN"
      BY DEF Fin, Incoming
    <3> QED
      BY <1>0, <2>4, <3>1 DEF PeerFin, PeerStates
  <2> QED
    BY <2>1, <2>2, <2>3, <2>4
<1>4. SmuxTypeOK'
  <2>1. toUs \in Seq(Incoming)
    BY <1>0 DEF SmuxTypeOK
  <2>2. toUs' \in Seq(Incoming)
    BY <1>3, <2>1
  <2> QED
    BY <1>0, <1>1, <1>3, <2>2 DEF SmuxTypeOK
<1>5. \A i \in 1..Len(toUs') : toUs'[i].cmd = "SYN" => i = 1 /\ st.reading = "none"
  <2>0. toUs \in Seq(Incoming)
    BY <1>0 DEF SmuxTypeOK
  <2>1. CASE toUs' = toUs
    BY <1>0, <2>1 DEF OpenedOnce
  <2>2. ASSUME NEW x \in Incoming, toUs' = Append(toUs, x), ~peer.open
        PROVE  \A i \in 1..Len(toUs') : toUs'[i].cmd = "SYN" => i = 1 /\ st.reading = "none"
    BY <1>0, <2>2 DEF OpenedOnce
  <2>3. ASSUME NEW x \in Incoming, toUs' = Append(toUs, x), x.cmd # "SYN"
        PROVE  \A i \in 1..Len(toUs') : toUs'[i].cmd = "SYN" => i = 1 /\ st.reading = "none"
    BY <1>0, <2>0, <2>3 DEF OpenedOnce
  <2> QED
    BY <1>3, <2>1, <2>2, <2>3
<1>6. OpenedOnce'
  BY <1>0, <1>1, <1>3, <1>5 DEF OpenedOnce
<1>7. /\ ~cut' => ~cut /\ session' = "up" /\ ~st'.remoteClosed
      /\ session' = "closed" => st'.closed
  BY <1>0, <1>1 DEF CutsSeen
<1> QED
  BY <1>1, <1>3, <1>4, <1>6, <1>7, NothingWritten

\* The counters of the stream are numbers and its queues are lists.
LEMMA TypedCounts ==
  ASSUME SmuxTypeOK
  PROVE  /\ accepted \in Nat /\ st.numWritten \in Nat /\ Len(peer.got) \in Nat
         /\ tail \in Seq(Tasks) /\ toPeer \in Seq(Outgoing)
<1>1. MaxOut \in Nat
  BY SmuxConstants
<1>2. st.numWritten \in Nat /\ peer.got \in Seq(Nat)
  BY DEF SmuxTypeOK, StreamStates, PeerStates
<1> QED
  BY <1>1, <1>2 DEF SmuxTypeOK

\* A write of the application goes to the end of the chain.
LEMMA WriteStep == ASSUME SmuxInv, NEW n \in 1..2, Write(n) PROVE SmuxInv'
<1>0. SmuxTypeOK /\ OpenedOnce /\ CutsSeen /\ WritesFollow /\ FramesFollow
  BY DEF SmuxInv
<1> DEFINE x == [op |-> "write", lo |-> accepted + 1, left |-> n]
<1>1. /\ st.reading # "none" /\ ~st.closed /\ ~st.closing /\ ~st.remoteClosed /\ accepted + n <= MaxOut
      /\ accepted' = accepted + n /\ tail' = Append(tail, x)
      /\ st' = st /\ session' = session /\ toUs' = toUs /\ toPeer' = toPeer /\ peer' = peer /\ cut' = cut
      /\ appRead' = appRead
  BY DEF Write
<1>2. accepted \in Nat /\ MaxOut \in Nat /\ n \in Nat \ {0} /\ st.numWritten \in Nat /\ tail \in Seq(Tasks)
  BY <1>0, TypedCounts, SmuxAssumption
<1>3. x \in Tasks /\ x.op = "write"
  BY <1>2 DEF Tasks
<1> HIDE DEF x
<1>4. SmuxTypeOK'
  <2>1. tail' \in Seq(Tasks)
    BY <1>1, <1>2, <1>3
  <2>2. accepted' \in 0..MaxOut
    BY <1>1, <1>2
  <2> QED
    BY <1>0, <1>1, <2>1, <2>2 DEF SmuxTypeOK
<1>5. OpenedOnce'
  BY <1>0, <1>1 DEF OpenedOnce
<1>6. CutsSeen'
  BY <1>0, <1>1 DEF CutsSeen
<1>7. \A i \in 1..Len(tail) : tail[i].op # "close"
  BY <1>0, <1>1 DEF WritesFollow
<1>8. WritesFollow'
  <2>1. Queued(tail, st.numWritten, accepted)
    BY <1>0, <1>1 DEF WritesFollow
  <2>2. Queued(tail', st.numWritten, accepted + n)
    BY <1>1, <1>2, <1>7, <2>1, QueuedOneMore DEF x
  <2>3. \A i \in 1..Len(tail') : tail'[i].op # "close"
    BY <1>1, <1>2, <1>3, <1>7
  <2>4. st.numWritten <= accepted + n
    BY <1>0, <1>2 DEF WritesFollow
  <2> QED
    BY <1>1, <2>2, <2>3, <2>4 DEF WritesFollow
<1>9. FramesFollow'
  BY <1>0, <1>1 DEF FramesFollow
<1> QED
  BY <1>4, <1>5, <1>6, <1>8, <1>9 DEF SmuxInv

\* A close goes to the end of the chain, after every write.
LEMMA CloseSteps == ASSUME SmuxInv, Close \/ CloseAgain PROVE SmuxInv'
<1>0. SmuxTypeOK /\ OpenedOnce /\ CutsSeen /\ WritesFollow /\ FramesFollow /\ st \in StreamStates
  BY DEF SmuxInv, SmuxTypeOK
<1> DEFINE x == [op |-> "close"]
<1>1. /\ ~st.closed /\ tail' = Append(tail, x) /\ session' = session /\ toUs' = toUs /\ toPeer' = toPeer
      /\ peer' = peer /\ accepted' = accepted /\ cut' = cut /\ appRead' = appRead
      /\ st.reading # "none"
      /\ st' = [Woken(st) EXCEPT !.closing = TRUE] \/ (st' = Woken(st) /\ st.closing)
  <2>1. CASE Close
    BY <2>1 DEF Close
  <2>2. CASE CloseAgain
    <3>1. st.closing
      BY <2>2 DEF CloseAgain
    <3>2. st.reading # "none"
      BY <1>0, <3>1, SmuxConstants DEF OpenedOnce
    <3> QED
      BY <2>2, <3>1, <3>2 DEF CloseAgain
  <2> QED
    BY <2>1, <2>2
<1>2. Woken(st) \in StreamStates /\ SameCounts(st, Woken(st))
  BY <1>0, WokenKeeps
<1>3. /\ st' \in StreamStates /\ st'.closing /\ st'.numWritten = st.numWritten /\ st'.closed = st.closed
      /\ st'.remoteClosed = st.remoteClosed /\ st'.reading # "none" /\ st'.reg = st.reg
  BY <1>0, <1>1, <1>2 DEF StreamStates, SameCounts
<1>4. tail \in Seq(Tasks) /\ accepted \in Nat /\ st.numWritten \in Nat
  BY <1>0, TypedCounts
<1>5. x \in Tasks
  BY DEF Tasks
<1>6. SmuxTypeOK'
  BY <1>0, <1>1, <1>3, <1>4, <1>5 DEF SmuxTypeOK
<1>7. OpenedOnce'
  <2>1. st'.reg \/ st'.closed
    BY <1>0, <1>1, <1>3 DEF OpenedOnce
  <2> QED
    BY <1>0, <1>1, <1>3, <2>1, StillOpened
<1>8. CutsSeen'
  BY <1>0, <1>1, <1>3 DEF CutsSeen
<1>9. WritesFollow'
  <2>1. ~st'.closed /\ ~st'.remoteClosed => Queued(tail', st'.numWritten, accepted')
    BY <1>0, <1>1, <1>3, <1>4, QueuedOneMore DEF WritesFollow
  <2> QED
    BY <1>0, <1>1, <1>3, <2>1 DEF WritesFollow
<1>10. FramesFollow'
  BY <1>0, <1>1, <1>3 DEF FramesFollow
<1> QED
  BY <1>6, <1>7, <1>8, <1>9, <1>10 DEF SmuxInv

\* The tail is shorter by its first task.
LEMMA ShorterTail ==
  ASSUME NEW t \in Seq(Tasks), t # <<>>
  PROVE  /\ Tail(t) \in Seq(Tasks) /\ Head(t) \in Tasks /\ Head(t) = t[1] /\ 1 \in 1..Len(t)
         /\ \A i \in 1..Len(Tail(t)) : i + 1 \in 1..Len(t) /\ Tail(t)[i] = t[i + 1]
  OBVIOUS

\* The close that comes to the head of the chain sends its FIN after all that was written.
LEMMA FinishCloseStep == ASSUME SmuxInv, FinishClose PROVE SmuxInv'
<1>0. SmuxTypeOK /\ OpenedOnce /\ CutsSeen /\ WritesFollow /\ FramesFollow /\ st \in StreamStates
  BY DEF SmuxInv, SmuxTypeOK
<1>1. /\ tail # <<>> /\ Head(tail).op = "close" /\ tail' = Tail(tail) /\ Send(<<Fin>>)
      /\ st' = [st EXCEPT !.closed = TRUE, !.reg = FALSE]
      /\ session' = session /\ toUs' = toUs /\ peer' = peer /\ accepted' = accepted /\ cut' = cut
      /\ appRead' = appRead
  BY DEF FinishClose
<1>2. /\ tail \in Seq(Tasks) /\ accepted \in Nat /\ st.numWritten \in Nat
      /\ toPeer \in Seq(Outgoing) /\ Len(peer.got) \in Nat
  BY <1>0, TypedCounts
<1>3. /\ st' \in StreamStates /\ st'.closed /\ st'.numWritten = st.numWritten
      /\ st'.remoteClosed = st.remoteClosed /\ st'.reading = st.reading
  BY <1>0, <1>1 DEF StreamStates
<1>4. st.reading # "none"
  BY <1>0, <1>1 DEF OpenedOnce
<1>5. Fin \in Outgoing /\ Fin.cmd # "PSH"
  BY DEF Outgoing, Fin
<1>6. toPeer' \in Seq(Outgoing) /\ (toPeer' = toPeer \/ toPeer' = toPeer \o <<Fin>>)
  BY <1>0, <1>1, <1>5, SentBehind
<1>7. SmuxTypeOK'
  BY <1>0, <1>1, <1>2, <1>3, <1>6, ShorterTail DEF SmuxTypeOK
<1>8. OpenedOnce'
  BY <1>0, <1>1, <1>3, <1>4, StillOpened
<1>9. CutsSeen'
  <2>1. ~cut => st.numWritten = accepted
    <3>1. CASE st.closed
      BY <1>0, <3>1 DEF CutsSeen
    <3>2. CASE ~st.closed /\ ~cut
      <4>1. ~st.remoteClosed
        BY <1>0, <3>2 DEF CutsSeen
      <4>2. Queued(tail, st.numWritten, accepted)
        BY <1>0, <3>2, <4>1 DEF WritesFollow
      <4> QED
        BY <1>1, <1>2, <4>2, QueuedFirst
    <3> QED
      BY <3>1, <3>2
  <2> QED
    BY <1>0, <1>1, <1>3, <2>1 DEF CutsSeen
<1>10. WritesFollow'
  BY <1>0, <1>1, <1>3 DEF WritesFollow
<1>11. FramesFollow'
  <2>1. ~peer'.dropped /\ ~peer'.fin => Carried(toPeer', Len(peer'.got), st'.numWritten)
    BY <1>0, <1>1, <1>2, <1>3, <1>5, <1>6, CarriedOneMore DEF FramesFollow
  <2> QED
    BY <1>3, <2>1 DEF FramesFollow
<1> QED
  BY <1>7, <1>8, <1>9, <1>10, <1>11 DEF SmuxInv

\* A part of a write goes out.
LEMMA WrittenOn ==
  ASSUME SmuxInv, ~st.closed, ~st.remoteClosed, st.reading # "none",
         NEW m \in Nat, Send(Frames(st.numWritten + 1, m)), st.numWritten + m <= accepted,
         NEW v \in {"no", "waiting"}, st' = [st EXCEPT !.waiting = v, !.numWritten = @ + m],
         tail' \in Seq(Tasks), Queued(tail', st.numWritten + m, accepted),
         \A i \in 1..Len(tail') : tail'[i].op = "close" => st.closing,
         session' = session, toUs' = toUs, peer' = peer, accepted' = accepted, cut' = cut, appRead' = appRead
  PROVE  SmuxInv'
<1>0. SmuxTypeOK /\ OpenedOnce /\ CutsSeen /\ WritesFollow /\ FramesFollow /\ st \in StreamStates
  BY DEF SmuxInv, SmuxTypeOK
<1> DEFINE g == Frames(st.numWritten + 1, m)
<1>1. /\ accepted \in Nat /\ st.numWritten \in Nat /\ st.numWritten + m \in Nat
      /\ toPeer \in Seq(Outgoing) /\ Len(peer.got) \in Nat
  BY <1>0, TypedCounts
<1>2. /\ st' \in StreamStates /\ ~st'.closed /\ ~st'.remoteClosed /\ st'.numWritten = st.numWritten + m
      /\ st'.reading # "none" /\ st'.reg = st.reg /\ st'.closing = st.closing
  BY <1>0, <1>1 DEF StreamStates
<1>3. /\ g \in Seq(Outgoing) /\ \A i \in 1..Len(g) : g[i].cmd = "PSH"
      /\ Carried(g, st.numWritten, st.numWritten + m)
  BY <1>1, FramesOfWrite
<1>4. toPeer' = toPeer \o g
  <2>1. session = "up"
    BY <1>0 DEF CutsSeen, SmuxTypeOK
  <2> QED
    BY <2>1 DEF Send
<1> HIDE DEF g
<1>5. toPeer' \in Seq(Outgoing)
  BY <1>1, <1>3, <1>4
<1>6. SmuxTypeOK'
  BY <1>0, <1>2, <1>5 DEF SmuxTypeOK
<1>7. OpenedOnce'
  BY <1>0, <1>2, StillOpened DEF OpenedOnce
<1>8. CutsSeen'
  BY <1>0, <1>2 DEF CutsSeen
<1>9. WritesFollow'
  BY <1>2 DEF WritesFollow
<1>10. \A i \in 1..Len(toPeer) : toPeer[i].cmd # "FIN"
  BY <1>0 DEF FramesFollow
<1>11. FramesFollow'
  <2>1. ASSUME NEW i \in 1..Len(toPeer') PROVE toPeer'[i].cmd # "FIN"
    <3>1. CASE i <= Len(toPeer)
      BY <1>1, <1>3, <1>4, <1>10, <3>1
    <3>2. CASE ~(i <= Len(toPeer))
      <4>1. i - Len(toPeer) \in 1..Len(g) /\ toPeer'[i] = g[i - Len(toPeer)]
        <5>1. Len(toPeer') = Len(toPeer) + Len(g) /\ i \in 1..(Len(toPeer) + Len(g))
          BY <1>1, <1>3, <1>4
        <5>2. toPeer'[i] = g[i - Len(toPeer)]
          BY <1>1, <1>3, <1>4, <3>2, <5>1, ConcatProperties
        <5> QED
          BY <1>1, <1>3, <3>2, <5>1, <5>2
      <4> QED
        BY <1>3, <4>1
    <3> QED
      BY <3>1, <3>2
  <2>2. ~peer'.dropped /\ ~peer'.fin => Carried(toPeer', Len(peer'.got), st'.numWritten)
    <3> SUFFICES ASSUME ~peer.dropped, ~peer.fin PROVE Carried(toPeer \o g, Len(peer.got), st.numWritten + m)
      BY <1>2, <1>4
    <3>1. Carried(toPeer, Len(peer.got), st.numWritten)
      BY <1>0 DEF FramesFollow
    <3> QED
      BY <1>1, <1>3, <1>10, <3>1, CarriedOn
  <2> QED
    BY <2>1, <2>2 DEF FramesFollow
<1> QED
  BY <1>6, <1>7, <1>8, <1>9, <1>11 DEF SmuxInv

\* The write at the head of the chain sends the next bytes that the window admits, and keeps the rest.
LEMMA WriteSyncStep == ASSUME SmuxInv, WriteSync PROVE SmuxInv'
<1>0. SmuxTypeOK /\ OpenedOnce /\ CutsSeen /\ WritesFollow /\ FramesFollow /\ st \in StreamStates
  BY DEF SmuxInv, SmuxTypeOK
<1> DEFINE t == Head(tail)
           n == Least(WriteWin(st), t.left)
<1>1. /\ tail # <<>> /\ t.op = "write"
      /\ session' = session /\ toUs' = toUs /\ peer' = peer /\ accepted' = accepted /\ cut' = cut
      /\ appRead' = appRead
  BY DEF WriteSync
<1>2. /\ tail \in Seq(Tasks) /\ accepted \in Nat /\ st.numWritten \in Nat
  BY <1>0, TypedCounts
<1>3. /\ Tail(tail) \in Seq(Tasks) /\ t \in Tasks /\ t = tail[1] /\ 1 \in 1..Len(tail)
      /\ \A i \in 1..Len(Tail(tail)) : i + 1 \in 1..Len(tail) /\ Tail(tail)[i] = tail[i + 1]
  BY <1>1, <1>2, ShorterTail
<1>4. t \in [op : {"write"}, lo : Nat, left : Nat]
  BY <1>1, <1>3 DEF Tasks
<1>5. n \in Int /\ n <= t.left
  <2>1. WriteWin(st) \in Int /\ t.left \in Nat
    BY <1>0, <1>4 DEF WriteWin, StreamStates
  <2> HIDE DEF t
  <2> QED
    BY <2>1 DEF Least
<1>6. st.reading # "none"
  BY <1>0, <1>1 DEF OpenedOnce
<1>7. \/ /\ st.closed \/ st.remoteClosed
         /\ tail' = Tail(tail) /\ st' = [st EXCEPT !.waiting = "no"] /\ toPeer' = toPeer
      \/ /\ ~st.closed /\ ~st.remoteClosed /\ n = t.left
         /\ tail' = Tail(tail) /\ st' = [st EXCEPT !.waiting = "no", !.numWritten = @ + n] /\ Send(Frames(t.lo, n))
      \/ /\ ~st.closed /\ ~st.remoteClosed /\ n < t.left
         /\ LET m == IF n > 0 THEN n ELSE 0 IN
            /\ tail' = [tail EXCEPT ![1] = [t EXCEPT !.lo = @ + m, !.left = @ - m]]
            /\ st' = [st EXCEPT !.waiting = "waiting", !.numWritten = @ + m]
            /\ Send(Frames(t.lo, m))
  BY DEF WriteSync
<1> HIDE DEF n, t
<1>8. \A i \in 1..Len(tail) : tail[i].op = "close" => st.closing \/ st.closed
  BY <1>0 DEF WritesFollow
<1>9. CASE /\ st.closed \/ st.remoteClosed
           /\ tail' = Tail(tail) /\ st' = [st EXCEPT !.waiting = "no"] /\ toPeer' = toPeer
  <2>1. st' \in StreamStates /\ SameCounts(st, st')
    BY <1>0, <1>9 DEF StreamStates, SameCounts
  <2>2. SmuxTypeOK'
    BY <1>0, <1>1, <1>3, <1>9, <2>1 DEF SmuxTypeOK
  <2>3. OpenedOnce'
    BY <1>0, <1>1, <1>6, <2>1, StillOpened DEF SameCounts, OpenedOnce
  <2>4. CutsSeen'
    BY <1>0, <1>1, <2>1 DEF CutsSeen, SameCounts
  <2>5. WritesFollow'
    <3>1. \A i \in 1..Len(tail') : tail'[i].op = "close" => st.closing \/ st.closed
      BY <1>3, <1>8, <1>9
    <3> QED
      BY <1>0, <1>1, <1>9, <2>1, <3>1 DEF WritesFollow, SameCounts
  <2>6. FramesFollow'
    BY <1>0, <1>1, <1>9, <2>1 DEF FramesFollow, SameCounts
  <2> QED
    BY <2>2, <2>3, <2>4, <2>5, <2>6 DEF SmuxInv
<1>10. ASSUME ~st.closed, ~st.remoteClosed
       PROVE  /\ t.lo = st.numWritten + 1 /\ t.left > 0 /\ st.numWritten + t.left <= accepted
              /\ Queued(Tail(tail), st.numWritten + t.left, accepted)
              /\ \A m \in 0..(t.left - 1) :
                   Queued([tail EXCEPT ![1] = [t EXCEPT !.lo = @ + m, !.left = @ - m]], st.numWritten + m, accepted)
  <2>1. Queued(tail, st.numWritten, accepted)
    BY <1>0, <1>10 DEF WritesFollow
  <2> QED
    BY <1>1, <1>2, <2>1, QueuedFirst DEF t
<1>11. CASE /\ ~st.closed /\ ~st.remoteClosed /\ n = t.left
            /\ tail' = Tail(tail) /\ st' = [st EXCEPT !.waiting = "no", !.numWritten = @ + n] /\ Send(Frames(t.lo, n))
  <2>1. n \in Nat /\ st.numWritten + n <= accepted /\ Queued(tail', st.numWritten + n, accepted)
        /\ Send(Frames(st.numWritten + 1, n))
    BY <1>4, <1>10, <1>11
  <2>2. \A i \in 1..Len(tail') : tail'[i].op = "close" => st.closing
    BY <1>3, <1>8, <1>11
  <2>3. tail' \in Seq(Tasks)
    BY <1>3, <1>11
  <2> QED
    BY <1>1, <1>6, <1>11, <2>1, <2>2, <2>3, WrittenOn
<1>12. ASSUME ~st.closed, ~st.remoteClosed, n < t.left,
              NEW m, m = IF n > 0 THEN n ELSE 0,
              tail' = [tail EXCEPT ![1] = [t EXCEPT !.lo = @ + m, !.left = @ - m]],
              st' = [st EXCEPT !.waiting = "waiting", !.numWritten = @ + m],
              Send(Frames(t.lo, m))
       PROVE  SmuxInv'
  <2>1. m \in Nat /\ m < t.left /\ m \in 0..(t.left - 1) /\ t.left \in Nat
    <3>1. t.left \in Nat /\ t.left > 0
      BY <1>4, <1>10, <1>12
    <3>2. (m = n /\ n > 0) \/ m = 0
      BY <1>12
    <3> QED
      BY <1>5, <1>12, <3>1, <3>2
  <2>2. Queued(tail', st.numWritten + m, accepted) /\ Send(Frames(st.numWritten + 1, m))
    <3>1. Queued([tail EXCEPT ![1] = [t EXCEPT !.lo = @ + m, !.left = @ - m]], st.numWritten + m, accepted)
      BY <1>10, <1>12, <2>1
    <3>2. t.lo = st.numWritten + 1
      BY <1>10, <1>12
    <3> QED
      BY <1>12, <3>1, <3>2
  <2>3. st.numWritten + m <= accepted
    <3>1. st.numWritten + t.left <= accepted
      BY <1>10, <1>12
    <3> QED
      BY <1>2, <2>1, <3>1
  <2>4. [t EXCEPT !.lo = @ + m, !.left = @ - m] \in [op : {"write"}, lo : Nat, left : Nat]
    <3>1. t.left - m \in Nat
      BY <2>1
    <3>2. t.lo + m \in Nat
      BY <1>4, <2>1
    <3> QED
      BY <1>4, <3>1, <3>2
  <2> DEFINE u == [t EXCEPT !.lo = @ + m, !.left = @ - m]
  <2>5. u \in Tasks /\ u.op = "write"
    BY <2>4 DEF Tasks
  <2>6. tail' = [tail EXCEPT ![1] = u]
    BY <1>12
  <2> HIDE DEF u
  <2>7. tail' \in Seq(Tasks) /\ \A i \in 1..Len(tail') : i \in 1..Len(tail) /\ tail'[i] = IF i = 1 THEN u ELSE tail[i]
    BY <1>2, <1>3, <2>5, <2>6
  <2>8. \A i \in 1..Len(tail') : tail'[i].op = "close" => st.closing
    BY <1>8, <1>12, <2>5, <2>7
  <2> QED
    BY <1>1, <1>6, <1>12, <2>1, <2>2, <2>3, <2>7, <2>8, WrittenOn
<1> QED
  BY <1>7, <1>9, <1>11, <1>12

\* The relay takes a frame: what this says of the frames on their way, and of the pipe.
LEMMA PeerReceiveStep ==
  ASSUME SmuxInv, PeerReceive
  PROVE  /\ SmuxInv'
         /\ peer'.got # peer.got => \E n \in 1..MaxOut : Pipe!Arrive(n)
         /\ peer'.got = peer.got => Pipe!End \/ UNCHANGED Pipe!vars
<1>0. SmuxTypeOK /\ OpenedOnce /\ CutsSeen /\ WritesFollow /\ FramesFollow /\ peer \in PeerStates
  BY DEF SmuxInv, SmuxTypeOK
<1> DEFINE f == Head(toPeer)
<1>1. /\ toPeer # <<>> /\ toPeer' = Tail(toPeer)
      /\ peer' = IF peer.dropped \/ peer.fin THEN peer
                 ELSE CASE f.cmd = "PSH" -> [peer EXCEPT !.got = @ \o f.data]
                        [] f.cmd = "UPD" -> [peer EXCEPT !.seen = f.consumed, !.win = f.window]
                        [] f.cmd = "FIN" -> [peer EXCEPT !.dropped = TRUE]
      /\ st' = st /\ tail' = tail /\ session' = session /\ toUs' = toUs /\ accepted' = accepted /\ cut' = cut
      /\ appRead' = appRead
  BY DEF PeerReceive
<1>2. /\ accepted \in Nat /\ st.numWritten \in Nat /\ toPeer \in Seq(Outgoing) /\ Len(peer.got) \in Nat
      /\ accepted <= MaxOut /\ MaxOut \in Nat
  BY <1>0, TypedCounts, SmuxAssumption DEF SmuxTypeOK
<1>3. /\ f \in Outgoing /\ f = toPeer[1] /\ Tail(toPeer) \in Seq(Outgoing) /\ 1 \in 1..Len(toPeer)
      /\ \A i \in 1..Len(Tail(toPeer)) : i + 1 \in 1..Len(toPeer) /\ Tail(toPeer)[i] = toPeer[i + 1]
  BY <1>1, <1>2
<1>4. peer.open
  BY <1>0, <1>1 DEF OpenedOnce
<1> HIDE DEF f
\* whatever becomes of the relay's end, the rest stands
<1>5. ASSUME peer' \in PeerStates, peer'.open,
             ~peer'.dropped /\ ~peer'.fin => Carried(Tail(toPeer), Len(peer'.got), st.numWritten)
      PROVE  SmuxInv'
  <2>1. SmuxTypeOK'
    BY <1>0, <1>1, <1>3, <1>5 DEF SmuxTypeOK
  <2>2. OpenedOnce'
    BY <1>0, <1>1, <1>5 DEF OpenedOnce
  <2>3. CutsSeen' /\ WritesFollow'
    BY <1>0, <1>1 DEF CutsSeen, WritesFollow
  <2>4. FramesFollow'
    <3>1. \A i \in 1..Len(toPeer') : toPeer'[i].cmd = "FIN" => st.closed
      BY <1>0, <1>1, <1>3 DEF FramesFollow
    <3> QED
      BY <1>1, <1>5, <3>1 DEF FramesFollow
  <2> QED
    BY <2>1, <2>2, <2>3, <2>4 DEF SmuxInv
<1>6. CASE peer.dropped \/ peer.fin
  <2>1. peer' = peer
    BY <1>1, <1>6
  <2>2. SmuxInv'
    BY <1>0, <1>4, <1>5, <1>6, <2>1
  <2>3. UNCHANGED Pipe!vars
    BY <1>1, <2>1 DEF Pipe!vars
  <2> QED
    BY <2>1, <2>2, <2>3
<1>7. ASSUME ~peer.dropped, ~peer.fin
      PROVE  /\ f.cmd = "PSH" =>
                  \E n \in Nat \ {0} : /\ f.data = Units(Len(peer.got) + 1, n) /\ Len(peer.got) + n <= st.numWritten
                                       /\ Carried(Tail(toPeer), Len(peer.got) + n, st.numWritten)
             /\ f.cmd # "PSH" => Carried(Tail(toPeer), Len(peer.got), st.numWritten)
             /\ f.cmd = "FIN" => Len(peer.got) = st.numWritten
  <2>1. Carried(toPeer, Len(peer.got), st.numWritten)
    BY <1>0, <1>7 DEF FramesFollow
  <2> QED
    BY <1>1, <1>2, <2>1, CarriedFirst DEF f
<1>8. CASE ~peer.dropped /\ ~peer.fin /\ f.cmd = "PSH"
  <2>1. PICK n \in Nat \ {0} : /\ f.data = Units(Len(peer.got) + 1, n) /\ Len(peer.got) + n <= st.numWritten
                               /\ Carried(Tail(toPeer), Len(peer.got) + n, st.numWritten)
    BY <1>7, <1>8
  <2> DEFINE more == [i \in 1..n |-> Len(peer.got) + i]
  <2>2. f.data = more
    <3>1. \A i \in 1..n : (Len(peer.got) + 1) + i - 1 = Len(peer.got) + i
      BY <1>2
    <3> QED
      BY <2>1, <3>1 DEF Units
  <2>3. more \in Seq(Nat) /\ Len(more) = n
    BY <1>2, <2>1
  <2> HIDE DEF more
  <2>4. peer' = [peer EXCEPT !.got = @ \o more]
    BY <1>1, <1>8, <2>2
  <2>5. peer.got \in Seq(Nat)
    BY <1>0 DEF PeerStates
  <2>6. peer.got \o more \in Seq(Nat) /\ Len(peer.got \o more) = Len(peer.got) + n
    BY <2>3, <2>5, ConcatProperties
  <2>7. peer' \in PeerStates /\ peer'.got = peer.got \o more /\ peer'.open = peer.open /\ peer'.dropped = peer.dropped
    BY <1>0, <2>4, <2>6 DEF PeerStates
  <2>8. SmuxInv'
    BY <1>4, <1>5, <2>1, <2>6, <2>7
  <2>9. n \in 1..MaxOut /\ Len(peer.got) + n <= accepted
    BY <1>0, <1>2, <2>1 DEF WritesFollow
  <2>10. Pipe!Arrive(n)
    BY <1>1, <1>8, <2>7, <2>9 DEF Pipe!Arrive, more
  <2>11. peer'.got # peer.got
    BY <1>2, <2>1, <2>6, <2>7
  <2> QED
    BY <2>8, <2>9, <2>10, <2>11
<1>9. CASE ~peer.dropped /\ ~peer.fin /\ f.cmd = "UPD"
  <2>1. peer' = [peer EXCEPT !.seen = f.consumed, !.win = f.window]
    BY <1>1, <1>9
  <2>2. f.consumed \in Nat /\ f.window \in Nat
    BY <1>3, <1>9 DEF Outgoing, Fin
  <2>3. peer' \in PeerStates /\ peer'.got = peer.got /\ peer'.open = peer.open /\ peer'.dropped = peer.dropped
    BY <1>0, <2>1, <2>2 DEF PeerStates
  <2>4. SmuxInv'
    BY <1>4, <1>5, <1>7, <1>9, <2>3
  <2>5. UNCHANGED Pipe!vars
    BY <1>1, <2>3 DEF Pipe!vars
  <2> QED
    BY <2>3, <2>4, <2>5
<1>10. CASE ~peer.dropped /\ ~peer.fin /\ f.cmd = "FIN"
  <2>1. peer' = [peer EXCEPT !.dropped = TRUE]
    BY <1>1, <1>10
  <2>2. peer' \in PeerStates /\ peer'.got = peer.got /\ peer'.open = peer.open /\ peer'.dropped
    BY <1>0, <2>1 DEF PeerStates
  <2>3. SmuxInv'
    BY <1>4, <1>5, <2>2
  <2>4. cut \/ Len(peer.got) = accepted
    <3>1. Len(peer.got) = st.numWritten
      BY <1>7, <1>10
    <3>2. st.closed
      BY <1>0, <1>3, <1>10 DEF FramesFollow
    <3> QED
      BY <1>0, <3>1, <3>2 DEF CutsSeen
  <2>5. Pipe!End
    BY <1>1, <2>2, <2>4 DEF Pipe!End
  <2> QED
    BY <2>2, <2>3, <2>5
<1>11. f.cmd \in {"PSH", "UPD", "FIN"}
  BY <1>3 DEF Outgoing, Fin
<1> QED
  BY <1>6, <1>8, <1>9, <1>10, <1>11

\* At the start nothing was written, sent or received.
LEMMA SmuxBegins == SmuxInit => SmuxInv
<1> SUFFICES ASSUME SmuxInit PROVE SmuxInv
  OBVIOUS
<1>1. /\ st = Unopened /\ tail = <<>> /\ session = "up" /\ toUs = <<>> /\ toPeer = <<>> /\ peer = FreshPeer
      /\ accepted = 0 /\ cut = FALSE /\ appRead = <<>>
  BY DEF SmuxInit
<1>2. FreshPeer.got = <<>> /\ Len(<<>>) = 0
  BY DEF FreshPeer
<1>3. SmuxTypeOK
  <2>1. 0 \in 0..MaxOut
    BY SmuxAssumption
  <2>2. <<>> \in Seq(Tasks) /\ <<>> \in Seq(Incoming) /\ <<>> \in Seq(Outgoing) /\ <<>> \in Seq(Nat)
    OBVIOUS
  <2>3. Unopened \in StreamStates /\ FreshPeer \in PeerStates
    BY SmuxConstants
  <2> QED
    BY <1>1, <2>1, <2>2, <2>3 DEF SmuxTypeOK
<1>4. OpenedOnce /\ CutsSeen
  BY <1>1, <1>2, SmuxConstants DEF OpenedOnce, CutsSeen
<1>5. WritesFollow
  <2>1. Queued(<<>>, 0, 0)
    BY QueuedNothing
  <2> QED
    BY <1>1, <1>2, <2>1, SmuxConstants DEF WritesFollow
<1>6. FramesFollow
  <2>1. Carried(<<>>, 0, 0)
    BY CarriedNothing
  <2> QED
    BY <1>1, <1>2, <2>1, SmuxConstants DEF FramesFollow
<1> QED
  BY <1>3, <1>4, <1>5, <1>6 DEF SmuxInv

\* Every step of the session keeps the order of the bytes of its stream.
LEMMA SmuxGoesOn == SmuxInv /\ [SmuxNext]_smuxVars => SmuxInv'
<1> SUFFICES ASSUME SmuxInv, [SmuxNext]_smuxVars PROVE SmuxInv'
  OBVIOUS
<1>1. CASE UNCHANGED smuxVars
  BY <1>1 DEF smuxVars, SmuxInv, SmuxTypeOK, OpenedOnce, CutsSeen, WritesFollow, FramesFollow
<1>2. CASE SmuxNext
  BY <1>2, FeedStep, CloseSessionStep, ReadSteps, WriteStep, WriteSyncStep, CloseSteps, FinishCloseStep,
     CloseForceStep, PeerSteps, PeerReceiveStep DEF SmuxNext
<1> QED
  BY <1>1, <1>2

\* In every state the chain of writes holds, in order, what write() accepted and the wire did not carry,
\* the frames on the wire follow what the peer has, and a FIN comes after all of it unless the stream
\* was cut.  SmuxStream.write, _writeSync and close, extension/lib/smux.js.
THEOREM SmuxOrderly == SmuxSpec => []SmuxInv
<1>1. SmuxInit => SmuxInv
  BY SmuxBegins
<1>2. SmuxInv /\ [SmuxNext]_smuxVars => SmuxInv'
  BY SmuxGoesOn
<1> QED
  BY <1>1, <1>2, PTL DEF SmuxSpec

\* The relay's own steps, but for the one that takes a frame, leave what it was told.
LEMMA PeerKeepsGot ==
  ASSUME SmuxInv, PeerOpen \/ PeerPush \/ PeerRead \/ PeerFin
  PROVE  peer'.got = peer.got /\ peer'.dropped = peer.dropped
<1>1. peer \in PeerStates
  BY DEF SmuxInv, SmuxTypeOK
<1> QED
  BY <1>1 DEF PeerStates, PeerOpen, PeerPush, PeerRead, PeerFin

\* Every step of the session is a step of the promised pipe, or a stutter.
LEMMA StepsArePipeSteps ==
  ASSUME SmuxInv, [SmuxNext]_smuxVars
  PROVE  [Pipe!Next]_Pipe!vars
<1>1. CASE UNCHANGED smuxVars
  BY <1>1 DEF smuxVars, Pipe!vars
<1>2. CASE Feed \/ CloseSession \/ CloseForce
  <2>1. accepted' = accepted /\ peer' = peer /\ (cut' = cut \/ cut' = TRUE)
    BY <1>2 DEF Feed, CloseSession, CloseForce
  <2> QED
    BY <2>1 DEF Pipe!vars, Pipe!Next, Pipe!Cut
<1>3. CASE Read \/ ReadResumes \/ WriteSync \/ Close \/ CloseAgain \/ FinishClose
  BY <1>3 DEF Read, ReadResumes, WriteSync, Close, CloseAgain, FinishClose, Pipe!vars
<1>4. ASSUME NEW n \in 1..2, Write(n) PROVE Pipe!Next
  <2>1. accepted + n <= MaxOut /\ accepted' = accepted + n /\ peer' = peer /\ cut' = cut
    BY <1>4 DEF Write
  <2>2. accepted \in Nat /\ MaxOut \in Nat
    BY TypedCounts, SmuxAssumption DEF SmuxInv
  <2>3. n \in 1..MaxOut
    BY <2>1, <2>2
  <2>4. Pipe!Accept(n)
    BY <2>1 DEF Pipe!Accept
  <2> QED
    BY <2>3, <2>4 DEF Pipe!Next
<1>5. CASE PeerOpen \/ PeerPush \/ PeerRead \/ PeerFin
  <2>1. accepted' = accepted /\ cut' = cut
    BY <1>5 DEF PeerOpen, PeerPush, PeerRead, PeerFin
  <2> QED
    BY <1>5, <2>1, PeerKeepsGot DEF Pipe!vars
<1>6. CASE PeerReceive
  BY <1>6, PeerReceiveStep DEF Pipe!Next
<1> QED
  BY <1>1, <1>2, <1>3, <1>4, <1>5, <1>6 DEF SmuxNext

\* A stream of the smux session is the pipe that its users rely on (ImplementsPipe): the peer has what
\* write() accepted, in order, none doubled or made up, and sees the end only after all of it unless
\* the stream was cut.  SmuxStream.write, _writeSync and close, extension/lib/smux.js.
THEOREM StreamIsAPipe == SmuxSpec => ImplementsPipe
<1>1. SmuxInit => Pipe!Init
  BY DEF SmuxInit, Pipe!Init, FreshPeer
<1>2. SmuxInv /\ [SmuxNext]_smuxVars => [Pipe!Next]_Pipe!vars
  BY StepsArePipeSteps
<1> QED
  BY <1>1, <1>2, SmuxOrderly, PTL DEF SmuxSpec, ImplementsPipe, Pipe!Spec
=============================================================================
