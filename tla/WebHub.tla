--------------------------------- MODULE WebHub ---------------------------------
(***************************************************************************)
(* What the web interface tells of a tun hub and of its spokes: the claims *)
(* the hub turned down (utils/lan-refusal.ts), where the hub's own page    *)
(* tells of them (pages/tunnel-detail-page.ts), the rows of its peers      *)
(* (pages/tunnel-peers-page.ts, components/peer-stats-row.ts,              *)
(* utils/transport.ts), and the way from a refusal to the row that allows  *)
(* it.  Spokes claim again and again; the hub journals what it refuses.    *)
(***************************************************************************)
EXTENDS Naturals, Sequences, FiniteSets, SequencesExt

CONSTANTS
  Spokes, Lans,          \* the spokes on the allowlist, and LANs
  Shares,                \* the LANs each spoke shares, and claims
  Covering,              \* the LANs that a spoke's tun address falls inside
  HubRoutes,             \* the LANs that the hub has static routes to
  MaxJournal,            \* bound: the refusals the hub remembers (16)
  MaxHubActs             \* bound: claims, operators and timers

ASSUME HubAssumption == Shares \in [Spokes -> SUBSET Lans] /\ MaxJournal \in Nat \ {0} /\ MaxHubActs \in Nat

VARIABLES
  lan,                   \* the hub: allow rows, installed claims, refusals, newest first
  lanKnown,              \* the store's copy of it
  peerStats,             \* how each spoke is reached
  hubPage,               \* the page shown: the hub's, or its peers'
  grants,                \* saves of the peers page under way
  hubActs

lanVars == <<lan, lanKnown, peerStats, hubPage, grants, hubActs>>

HubAct == hubActs < MaxHubActs /\ hubActs' = hubActs + 1

---------------------------------------------------------------------------
(* Refusals.                                                               *)

\* an allow row answers these; the others are conflicts with the route table
AllowRowReasons == {"no-allow-row", "empty-allow", "outside-allow"}

(* Mutant: two spokes that claim the same LAN are told as one *)
SameClaimOfAny(r, s) == r.prefix = s.prefix

\* lanRefusalGroups: one entry for each claim, the newest, with its repeats counted
SameClaim(r, s) == r.peer = s.peer /\ r.prefix = s.prefix
Newest(journal, i) == \A j \in 1..i - 1 : ~SameClaim(journal[i], journal[j])
RefusalGroups(l) ==
  {[peer |-> l.rejected[i].peer, prefix |-> l.rejected[i].prefix, reason |-> l.rejected[i].reason, at |-> i,
    count |-> Cardinality({j \in DOMAIN l.rejected : SameClaim(l.rejected[i], l.rejected[j])}),
    fixableByAllow |-> l.rejected[i].reason \in AllowRowReasons,
    resolved |-> l.rejected[i].prefix \in l.claims[l.rejected[i].peer]] :
     i \in {i \in DOMAIN l.rejected : Newest(l.rejected, i)}}
Active(l) == {g \in RefusalGroups(l) : ~g.resolved}

---------------------------------------------------------------------------
(* The hub's page.                                                         *)

\* the amber banner leads to the peers page
RefusedBanner(l) == Active(l)
\* the LAN section: routes with their origin, claims, refusals, and a hint while one is active
LanSection(l) ==
  [routes |-> {route \in Spokes \X Lans : route[2] \in l.claims[route[1]]},
   claims |-> {s \in Spokes : l.claims[s] # {}},
   refusals |-> RefusalGroups(l), hint |-> Active(l) # {}]
\* the card that leads to the peers page, with its badges
PeersCard(l) == [pending |-> hubPage.pending, refused |-> Cardinality(Active(l))]

---------------------------------------------------------------------------
(* The rows of the peers page.                                             *)

\* transportStyle: a value that is not known draws nothing
Tones == [direct |-> "direct", punching |-> "warn", failed |-> "warn", derp |-> "muted",
          serverUnreachable |-> "warn"]
Badge(transport) == IF transport \in DOMAIN Tones THEN Tones[transport] ELSE "none"
\* the round trip of a live session that was answered
TellsRtt(stat) == stat.live /\ stat.rtt > 0

(* Mutant: the refusals of all spokes are offered at every row *)
RefusedForAny(l, s) == Active(l)

RefusedFor(l, s) == {g \in Active(l) : g.peer = s}
Fixable(l, s) == {g \in RefusedFor(l, s) : g.fixableByAllow}
StatRow(l, s) ==
  [badge |-> Badge(peerStats[s].transport), rtt |-> TellsRtt(peerStats[s]), lan |-> l.allow[s].lans, claimed |-> l.claims[s],
   refused |-> RefusedFor(l, s), action |-> Fixable(l, s) # {}, diag |-> peerStats[s].transport # "none"]

---------------------------------------------------------------------------
(* The hub.                                                                *)

Holder(p, s) == \E other \in Spokes \ {s} : p \in lan.claims[other]
\* approvalRefusal: may the spoke claim this at all
Approval(s, p) ==
  IF ~lan.allow[s].row THEN "no-allow-row" ELSE IF lan.allow[s].lans = {} THEN "empty-allow"
  ELSE IF p \notin lan.allow[s].lans THEN "outside-allow" ELSE "none"
\* then what the network is made of, then the route table
Reason(s, p) ==
  IF Approval(s, p) # "none" THEN Approval(s, p)
  ELSE IF p \in Covering THEN "covers-member" ELSE IF p \in HubRoutes THEN "hub-own-route"
  ELSE IF Holder(p, s) THEN "taken-by-peer" ELSE "none"
Journalled(entry) == SubSeq(<<entry>> \o lan.rejected, 1, IF Len(lan.rejected) < MaxJournal THEN Len(lan.rejected) + 1 ELSE MaxJournal)
Claim(s, p) ==
  /\ HubAct /\ p \in Shares[s]
  /\ lan' = IF Reason(s, p) = "none" THEN [lan EXCEPT !.claims[s] = @ \union {p}]
            ELSE [lan EXCEPT !.rejected = Journalled([peer |-> s, prefix |-> p, reason |-> Reason(s, p)])]
  /\ UNCHANGED <<lanKnown, peerStats, hubPage, grants>>
Withdraw(s) ==
  /\ HubAct /\ lan.claims[s] # {} /\ lan' = [lan EXCEPT !.claims[s] = {}]
  /\ UNCHANGED <<lanKnown, peerStats, hubPage, grants>>
\* another operator takes the LANs of a spoke away, a claim with them
Revoke(s) ==
  /\ HubAct /\ lan.allow[s].row /\ lan' = [lan EXCEPT !.allow[s].lans = {}, !.claims[s] = {}]
  /\ UNCHANGED <<lanKnown, peerStats, hubPage, grants>>
Reached(s) ==
  /\ HubAct /\ \E transport \in {"none", "direct", "derp"}, rtt \in {0, 7} :
       peerStats' = [peerStats EXCEPT ![s] = [transport |-> transport, live |-> transport # "none", rtt |-> rtt]]
  /\ UNCHANGED <<lan, lanKnown, hubPage, grants>>

\* the list is fetched: one reading of the hub
Reread ==
  /\ lanKnown' = lan /\ lanKnown # lan /\ UNCHANGED <<lan, peerStats, hubPage, grants, hubActs>>
\* _loadPendingCount, _loadPending: a reading that fails leaves the last one
CountPending ==
  /\ HubAct /\ \E n \in 0..1 : hubPage' = [hubPage EXCEPT !.pending = n]
  /\ UNCHANGED <<lan, lanKnown, peerStats, grants>>

---------------------------------------------------------------------------
(* From a refusal to the row that allows it.                               *)

NoSpoke == "no spoke"
StayPut == UNCHANGED <<lan, lanKnown, peerStats>>
ToPeers ==
  /\ hubPage.at = "hub" /\ hubPage' = [hubPage EXCEPT !.at = "peers", !.editing = NoSpoke, !.draft = {}]
  /\ StayPut /\ UNCHANGED <<grants, hubActs>>
BackToHub ==
  /\ hubPage.at = "peers" /\ hubPage' = [hubPage EXCEPT !.at = "hub"] /\ StayPut /\ UNCHANGED <<grants, hubActs>>

\* the prefixes an allow row can approve are added to what the row has; nothing is
\* saved yet
Stage(s) ==
  /\ hubPage.at = "peers" /\ ~hubPage.saving /\ hubPage.editing # s /\ Fixable(lanKnown, s) # {}
  /\ hubPage' = [hubPage EXCEPT !.editing = s,
                   !.draft = lanKnown.allow[s].lans \union {g.prefix : g \in Fixable(lanKnown, s)}]
  /\ StayPut /\ UNCHANGED <<grants, hubActs>>
\* the whole policy is sent, the other rows as the store has them; a row that
\* allows nothing and was not edited is left out
Restated(s) == lanKnown.allow[s].lans # {}
Granted == [s \in Spokes |->
              IF s = hubPage.editing THEN [row |-> TRUE, lans |-> hubPage.draft]
              ELSE [row |-> Restated(s), lans |-> lanKnown.allow[s].lans]]
SaveGrant ==
  /\ hubPage.at = "peers" /\ hubPage.editing # NoSpoke /\ ~hubPage.saving /\ HubAct
  /\ grants' = grants \union {Granted} /\ hubPage' = [hubPage EXCEPT !.saving = TRUE] /\ StayPut
GrantServed(allow) ==
  /\ lan' = [lan EXCEPT !.allow = allow, !.claims = [s \in Spokes |-> lan.claims[s] \intersect allow[s].lans]]
  /\ grants' = grants \ {allow} /\ lanKnown' = lan'
  /\ hubPage' = [hubPage EXCEPT !.saving = FALSE, !.editing = NoSpoke, !.draft = {}]
  /\ UNCHANGED <<peerStats, hubActs>>
GrantFails(allow) ==
  /\ grants' = grants \ {allow} /\ hubPage' = [hubPage EXCEPT !.saving = FALSE] /\ StayPut /\ UNCHANGED hubActs

---------------------------------------------------------------------------
NewHub ==
  [allow |-> [s \in Spokes |-> [row |-> FALSE, lans |-> {}]], claims |-> [s \in Spokes |-> {}], rejected |-> <<>>]
LanInit ==
  /\ lan = NewHub /\ lanKnown = NewHub
  /\ peerStats = [s \in Spokes |-> [transport |-> "none", live |-> FALSE, rtt |-> 0]]
  /\ hubPage = [at |-> "hub", editing |-> NoSpoke, draft |-> {}, saving |-> FALSE, pending |-> 0]
  /\ grants = {} /\ hubActs = 0
LanNext ==
  \/ Reread \/ CountPending \/ ToPeers \/ BackToHub \/ SaveGrant
  \/ \E s \in Spokes : Withdraw(s) \/ Revoke(s) \/ Reached(s) \/ Stage(s) \/ \E p \in Lans : Claim(s, p)
  \/ \E allow \in grants : GrantServed(allow) \/ GrantFails(allow)

(* Every refusal in the journal is told once, with the number of times it   *)
(* was made, and the hub's banner, the badge of its peers' card and the     *)
(* rows of the peers page agree about the ones that are open                *)
(* (lan-refusal.ts lanRefusalGroups; render of both pages).                 *)
CountsUp(l) ==
  \A i \in DOMAIN l.rejected :
    LET of == {g \in RefusalGroups(l) : g.peer = l.rejected[i].peer /\ g.prefix = l.rejected[i].prefix}
    IN  \E g \in of : of = {g} /\ g.at <= i /\ g.count = Cardinality(
          {j \in DOMAIN l.rejected : l.rejected[j].peer = g.peer /\ l.rejected[j].prefix = g.prefix})
RefusalsTold ==
  /\ CountsUp(lanKnown) /\ RefusedBanner(lanKnown) = UNION {StatRow(lanKnown, s).refused : s \in Spokes}
  /\ PeersCard(lanKnown).refused = Cardinality({<<g.peer, g.prefix>> : g \in RefusedBanner(lanKnown)})
  /\ LanSection(lanKnown).hint <=> RefusedBanner(lanKnown) # {}

(* Approving what is refused never lets a spoke have a LAN it did not ask   *)
(* for, whatever is claimed, withdrawn and revoked between the page that    *)
(* is read and the save (tunnel-peers-page.ts _allowRefused, _save).        *)
GrantsWereAsked == \A s \in Spokes : lan.allow[s].lans \subseteq Shares[s]

(* The refusals are told in full, and acting on them gives no spoke more    *)
(* than it asked for (lan-refusal.ts, tunnel-peers-page.ts).                *)
RefusalsHandled == RefusalsTold /\ GrantsWereAsked
=============================================================================
