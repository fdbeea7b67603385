------------------------- MODULE ClaimRefreshProofs -------------------------
(***************************************************************************)
(* The intervals of a claim's lifetime against each other, for every       *)
(* number of spokes and prefixes and every TTL, period and delay that      *)
(* IntervalAssumption allows.                                              *)
(***************************************************************************)
EXTENDS ClaimRefresh, RibTableProofs

(* The table under a spoke's sessions: nobody's policy, membership or      *)
(* injected routes change, and a spoke claims its own share_lan only.      *)
OwnLansOnly ==
    /\ table.allow = Rows
    /\ table.members = {}
    /\ \A p \in Prefixes : Taken(table, p) => \E o \in Peers : HeldBy(table, o, p) /\ p \in ShareLAN[o]

TableInv == RefreshTypeOK /\ OwnLansOnly

-----------------------------------------------------------------------------
LEMMA UnversionedFields ==
    ASSUME NEW r \in RibState
    PROVE  /\ Unversioned(r) \in RibState
           /\ Unversioned(r).claims = r.claims
           /\ Unversioned(r).allow = r.allow
           /\ Unversioned(r).members = r.members
BY DEF Unversioned, RibState

(***************************************************************************)
(* A whole claim that the policy approves: every prefix of it that nobody  *)
(* else holds is held afterwards, and is fresh.                            *)
(***************************************************************************)
LEMMA WholeClaimInstalled ==
    ASSUME NEW r \in RibState, NEW o \in Peers, NEW add \in SUBSET Prefixes,
           NEW replace, NEW p \in add, Approves(r.allow, o, p), r.members = {},
           Taken(r, p) => HeldBy(r, o, p)
    PROVE  /\ HeldBy(ApplyClaims(r, o, add, {}, replace), o, p)
           /\ ApplyClaims(r, o, add, {}, replace).claims[p].age = 0
<1>. DEFINE gone == Withdrawn(r, o, add, {}, replace)
            w == Without(r, gone)
            s == ApplyClaims(r, o, add, {}, replace)
<1>1. gone \in SUBSET Prefixes /\ p \notin gone
  BY DEF Withdrawn
<1>2. /\ w \in RibState /\ w.allow = r.allow /\ w.members = r.members
      /\ w.claims[p] = r.claims[p]
  BY <1>1, WithoutFields
<1>3. s.claims[p] = IF p \in Granted(w, o, add) THEN Announced(o)
                    ELSE IF p \in add /\ HeldBy(w, o, p)
                         THEN Refreshed(w.claims[p]) ELSE w.claims[p]
  BY <1>2, AnnounceFields DEF ApplyClaims
<1>. HIDE DEF gone, w
<1>4. CASE HeldBy(r, o, p)
  <2>1. HeldBy(w, o, p) /\ p \notin Granted(w, o, add)
    BY <1>2, <1>4 DEF HeldBy, Taken, Granted
  <2>2. s.claims[p] = Refreshed(r.claims[p])
    BY <1>2, <1>3, <2>1
  <2>3. r.claims[p] \in Claim /\ r.claims[p].origin = o
    BY <1>4, TakenClaim DEF HeldBy
  <2>4. s.claims[p] \in Claim /\ s.claims[p].origin = o /\ s.claims[p].age = 0
    BY <2>2, <2>3, AgeOnlyClaim DEF Refreshed, Claim
  <2>. QED BY <2>4, NoneAssumption DEF HeldBy, Taken
<1>5. CASE ~Taken(r, p)
  <2>1. ~Taken(w, p) /\ ~HeldBy(w, o, p)
    BY <1>2, <1>5 DEF Taken, HeldBy
  <2>2. MemberIn(w.members, p) = {}
    BY <1>2 DEF MemberIn
  <2>3. ApprovalRefusal(w, o, p) = ""
    <3>1. r.allow[o] # None /\ r.allow[o] # {}
      BY DEF Approves
    <3>. QED BY <1>2, <3>1 DEF ApprovalRefusal
  <2>4. Refusal(w, o, p) = ""
    BY <2>1, <2>2, <2>3 DEF Refusal, Static
  <2>5. s.claims[p] = Announced(o)
    BY <1>3, <2>1, <2>4 DEF Granted
  <2>6. Announced(o) \in Claim /\ Announced(o).origin = o /\ Announced(o).age = 0
    BY AgeAssumption DEF Announced, Claim
  <2>. QED BY <2>5, <2>6, NoneAssumption DEF HeldBy, Taken
<1>. QED BY <1>4, <1>5

(***************************************************************************)
(* What a session does to a prefix it does not name: nothing, or, if the   *)
(* spoke held it, a withdrawal.                                            *)
(***************************************************************************)
LEMMA OtherPrefixes ==
    ASSUME NEW r \in RibState, NEW o \in Peers, NEW add \in SUBSET Prefixes,
           NEW replace, NEW p \in Prefixes \ add
    PROVE  \/ ApplyClaims(r, o, add, {}, replace).claims[p] = r.claims[p]
           \/ ApplyClaims(r, o, add, {}, replace).claims[p] = None /\ HeldBy(r, o, p)
<1>. DEFINE gone == Withdrawn(r, o, add, {}, replace)
            w == Without(r, gone)
            s == ApplyClaims(r, o, add, {}, replace)
<1>1. gone \in SUBSET Prefixes /\ (p \in gone => HeldBy(r, o, p))
  BY DEF Withdrawn
<1>2. w \in RibState /\ w.claims[p] = IF p \in gone THEN None ELSE r.claims[p]
  BY <1>1, WithoutFields
<1>3. p \notin Granted(w, o, add)
  BY DEF Granted
<1>4. s.claims[p] = w.claims[p]
  BY <1>2, <1>3, AnnounceFields DEF ApplyClaims
<1>. HIDE DEF gone, w, s
<1>5. \/ s.claims[p] = r.claims[p]
      \/ s.claims[p] = None /\ HeldBy(r, o, p)
  BY <1>1, <1>2, <1>4
<1>. QED BY <1>5 DEF s

-----------------------------------------------------------------------------
(***************************************************************************)
(* A session's claim, whether its first or a refresh.                      *)
(***************************************************************************)
Announces(o) == \E replace \in BOOLEAN :
    table' = Unversioned(ApplyClaims(table, o, ShareLAN[o], {}, replace))

LEMMA AnnouncesFields ==
    ASSUME TableInv, NEW o \in Peers, Announces(o)
    PROVE  /\ table' \in RibState /\ table'.allow = Rows /\ table'.members = {}
           /\ \A p \in ShareLAN[o] : (Taken(table, p) => HeldBy(table, o, p))
                 => HeldBy(table', o, p) /\ table'.claims[p].age = 0
           /\ \A p \in Prefixes : ClaimStep(table, table', o, p)
           /\ \A p \in Prefixes \ ShareLAN[o] :
                 \/ table'.claims[p] = table.claims[p]
                 \/ table'.claims[p] = None /\ HeldBy(table, o, p)
<1>. USE DEF TableInv, RefreshTypeOK, OwnLansOnly
<1>1. PICK replace \in BOOLEAN :
        table' = Unversioned(ApplyClaims(table, o, ShareLAN[o], {}, replace))
  BY DEF Announces
<1>. DEFINE s == ApplyClaims(table, o, ShareLAN[o], {}, replace)
<1>2. ShareLAN[o] \in SUBSET Prefixes /\ \A p \in ShareLAN[o] : Approves(Rows, o, p)
  BY SessionAssumption
<1>3. /\ s \in RibState /\ s.allow = table.allow /\ s.members = table.members
      /\ \A p \in Prefixes : ClaimStep(table, s, o, p)
  <2>1. table \in RibState /\ o \in Peers /\ ShareLAN[o] \in SUBSET Prefixes
    BY <1>2
  <2>. QED BY ONLY <2>1, ApplyClaimsFields
<1>4. \A p \in ShareLAN[o] : (Taken(table, p) => HeldBy(table, o, p))
        => HeldBy(s, o, p) /\ s.claims[p].age = 0
  BY <1>2, WholeClaimInstalled
<1>5. \A p \in Prefixes \ ShareLAN[o] :
        s.claims[p] = table.claims[p] \/ (s.claims[p] = None /\ HeldBy(table, o, p))
  BY <1>2, OtherPrefixes
<1>. HIDE DEF s
<1>6. table' \in RibState /\ table'.claims = s.claims /\ table'.allow = s.allow
      /\ table'.members = s.members
  BY <1>1, <1>3, UnversionedFields DEF s
<1>. QED BY <1>3, <1>4, <1>5, <1>6 DEF HeldBy, Taken, ClaimStep

LEMMA SweepFields ==
    ASSUME RefreshTypeOK, SweepClaims
    PROVE  /\ table' \in RibState /\ table'.allow = table.allow /\ table'.members = table.members
           /\ \A p \in Prefixes :
                 table'.claims[p] = IF p \in Quiet(table, ClaimTTL) THEN None ELSE table.claims[p]
<1>. DEFINE s == Without(table, Quiet(table, ClaimTTL))
<1>1. Quiet(table, ClaimTTL) \in SUBSET Prefixes
  BY DEF Quiet
<1>2. /\ s \in RibState /\ s.allow = table.allow /\ s.members = table.members
      /\ \A p \in Prefixes :
            s.claims[p] = IF p \in Quiet(table, ClaimTTL) THEN None ELSE table.claims[p]
  BY <1>1, WithoutFields DEF RefreshTypeOK
<1>3. table' = Unversioned(s)
  BY DEF SweepClaims
<1>. HIDE DEF s
<1>. QED BY <1>2, <1>3, UnversionedFields

(* What a step leaves of a claim that stays: its age, or its age plus one. *)
LEMMA TickFields ==
    ASSUME RefreshTypeOK, Pass
    PROVE  /\ table' \in RibState /\ table'.allow = table.allow /\ table'.members = table.members
           /\ \A p \in Prefixes : \/ table'.claims[p] = table.claims[p]
                                  \/ /\ Taken(table, p) /\ Taken(table', p)
                                     /\ table'.claims[p].origin = table.claims[p].origin
                                     /\ table'.claims[p].age = table.claims[p].age + 1
<1>1. /\ table' \in RibState /\ table'.allow = table.allow /\ table'.members = table.members
      /\ \A p \in Prefixes :
            table'.claims[p] = IF Dynamic(table, p) /\ table.claims[p].age < MaxAge
                             THEN Older(table.claims[p]) ELSE table.claims[p]
  BY AgedFields DEF RefreshTypeOK, Pass
<1>2. ASSUME NEW p \in Prefixes, Dynamic(table, p), table.claims[p].age < MaxAge
      PROVE  /\ Taken(table, p) /\ Older(table.claims[p]) # None
             /\ Older(table.claims[p]).origin = table.claims[p].origin
             /\ Older(table.claims[p]).age = table.claims[p].age + 1
  <2>1. table.claims[p] \in Claim
    BY <1>2, TakenClaim DEF RefreshTypeOK, Dynamic
  <2>. QED BY <1>2, <2>1, AgeOnlyClaim, NoneAssumption DEF Older, Claim, Dynamic
<1>. QED BY <1>1, <1>2 DEF Taken

-----------------------------------------------------------------------------
(***************************************************************************)
(* Types, and whose claims the table holds.                                *)
(***************************************************************************)
LEMMA InitTable == RefreshInit => TableInv
<1>. SUFFICES ASSUME RefreshInit PROVE TableInv
  OBVIOUS
<1>1. NewRib(Rows) \in RibState /\ NewRib(Rows).claims = [p \in Prefixes |-> None]
      /\ NewRib(Rows).allow = Rows /\ NewRib(Rows).members = {}
  BY SessionAssumption DEF NewRib, RibState
<1>2. table \in RibState /\ table.claims = [p \in Prefixes |-> None]
      /\ table.allow = Rows /\ table.members = {}
  BY <1>1, UnversionedFields DEF RefreshInit
<1>. QED BY <1>2, IntervalAssumption DEF RefreshInit, TableInv, RefreshTypeOK, OwnLansOnly, Taken

LEMMA NextTable == TableInv /\ [RefreshNext]_refreshVars => TableInv'
<1>. SUFFICES ASSUME TableInv, [RefreshNext]_refreshVars PROVE TableInv'
  OBVIOUS
<1>. USE DEF TableInv, RefreshTypeOK
<1>0. 0 \in 0..MaxHeld /\ RefreshInterval \in 0..RefreshInterval
  BY IntervalAssumption
<1>1. ASSUME NEW o \in Peers, Announces(o) PROVE table' \in RibState /\ OwnLansOnly'
  <2>1. ASSUME NEW p \in Prefixes, Taken(table', p)
        PROVE  \E q \in Peers : HeldBy(table', q, p) /\ p \in ShareLAN[q]
    <3>1. CASE table'.claims[p] = table.claims[p]
      BY <2>1, <3>1 DEF OwnLansOnly, HeldBy, Taken
    <3>2. CASE table'.claims[p] # table.claims[p]
      <4>1. p \in ShareLAN[o]
        BY <1>1, <2>1, <3>2, AnnouncesFields DEF Taken
      <4>2. Taken(table, p) => HeldBy(table, o, p)
        <5>1. ClaimStep(table, table', o, p)
          BY <1>1, AnnouncesFields
        <5>. QED BY <2>1, <3>2, <5>1 DEF ClaimStep, Taken
      <4>. QED BY <1>1, <4>1, <4>2, AnnouncesFields
    <3>. QED BY <3>1, <3>2
  <2>. QED BY <1>1, <2>1, AnnouncesFields DEF OwnLansOnly
<1>2. ASSUME NEW o \in Peers, Connect(o) PROVE TableInv'
  <2>1. Announces(o)
    BY <1>2 DEF Connect, Announces
  <2>. QED BY <1>0, <1>1, <1>2, <2>1 DEF Connect
<1>3. ASSUME NEW o \in Peers, Refresh(o) \/ ReadHeld(o) PROVE TableInv'
  <2>1. Announces(o)
    BY <1>3 DEF Refresh, ReadHeld, Announces
  <2>. QED BY <1>0, <1>1, <1>3, <2>1 DEF Refresh, ReadHeld
<1>4. ASSUME NEW o \in Peers, Disconnect(o) \/ RefreshFails(o) \/ HoldRefresh(o) PROVE TableInv'
  BY <1>4, IntervalAssumption DEF Disconnect, RefreshFails, HoldRefresh, Due, OwnLansOnly
<1>5. CASE SweepClaims
  <2>1. OwnLansOnly'
    BY <1>5, SweepFields DEF OwnLansOnly, Taken, HeldBy
  <2>. QED BY <1>5, <2>1, SweepFields, IntervalAssumption DEF SweepClaims
<1>6. CASE Pass
  <2>1. OwnLansOnly'
    BY <1>6, TickFields DEF OwnLansOnly, Taken, HeldBy
  <2>2. refreshIn' \in [Peers -> 0..RefreshInterval]
    BY <1>6, IntervalAssumption DEF Pass, Due
  <2>. QED BY <1>6, <2>1, <2>2, TickFields, IntervalAssumption DEF Pass
<1>7. CASE UNCHANGED refreshVars
  BY <1>7 DEF refreshVars, OwnLansOnly
<1>. QED BY <1>2, <1>3, <1>4, <1>5, <1>6, <1>7 DEF RefreshNext

\* The table of a hub and the refresh records of its claims keep their types in every state.
THEOREM ClaimRefreshTypeCorrect == RefreshSpec => []RefreshTypeOK
<1>1. TableInv => RefreshTypeOK
  BY DEF TableInv
<1>. QED BY <1>1, InitTable, NextTable, PTL DEF RefreshSpec

-----------------------------------------------------------------------------
(***************************************************************************)
(* Blackholes.  The age of a claim and the time to the next sweep never    *)
(* add up to more than the TTL and one period: a tick moves one up and the *)
(* other down, and a sweep, late or not, has just withdrawn whatever is    *)
(* older than the TTL.  A sweep that is late makes the sum's second part   *)
(* negative, by MaxStall at most.                                          *)
(***************************************************************************)
NoneOverdue ==
    \A p \in Prefixes :
        Dynamic(table, p) => table.claims[p].age + nextSweep <= ClaimTTL + ClaimSweepInterval

OverdueInv == TableInv /\ NoneOverdue

(* The ages of the claims in the table are numbers.                        *)
LEMMA AgesAreNat ==
    ASSUME table \in RibState, NEW p \in Prefixes, Taken(table, p)
    PROVE  table.claims[p].age \in Nat
BY TakenClaim, AgeAssumption DEF Claim

(* A claim a session leaves in the table is fresh, or was there before.    *)
LEMMA AnnouncedAges ==
    ASSUME TableInv, NEW o \in Peers, Announces(o), NEW p \in Prefixes, Taken(table', p)
    PROVE  table'.claims[p] = table.claims[p] \/ table'.claims[p].age = 0
<1>1. ClaimStep(table, table', o, p)
  BY AnnouncesFields
<1>2. Announced(o).age = 0
  BY DEF Announced
<1>3. HeldBy(table, o, p) => Refreshed(table.claims[p]).age = 0
  BY TakenClaim DEF HeldBy, Refreshed, Claim, TableInv, RefreshTypeOK
<1>. QED BY <1>1, <1>2, <1>3 DEF ClaimStep, Taken

LEMMA NextOverdue == OverdueInv /\ [RefreshNext]_refreshVars => NoneOverdue'
<1>. SUFFICES ASSUME OverdueInv, [RefreshNext]_refreshVars, NEW p \in Prefixes, Dynamic(table', p)
              PROVE  table'.claims[p].age + nextSweep' <= ClaimTTL + ClaimSweepInterval
  BY DEF NoneOverdue, Dynamic, Taken
<1>. USE DEF OverdueInv
<1>1. TableInv /\ RefreshTypeOK /\ nextSweep \in Int
  BY IntervalAssumption DEF TableInv, RefreshTypeOK
<1>2. ClaimTTL \in Nat /\ ClaimSweepInterval \in Nat /\ nextSweep <= ClaimSweepInterval
  BY <1>1, IntervalAssumption DEF RefreshTypeOK
<1>3. ASSUME table'.claims[p] = table.claims[p], nextSweep' = nextSweep
      PROVE  table'.claims[p].age + nextSweep' <= ClaimTTL + ClaimSweepInterval
  BY <1>3 DEF NoneOverdue, Dynamic, Taken
<1>4. ASSUME NEW o \in Peers, Announces(o), nextSweep' = nextSweep
      PROVE  table'.claims[p].age + nextSweep' <= ClaimTTL + ClaimSweepInterval
  <2>1. table'.claims[p] = table.claims[p] \/ table'.claims[p].age = 0
    BY <1>1, <1>4, AnnouncedAges DEF Dynamic
  <2>2. CASE table'.claims[p].age = 0
    BY <1>1, <1>2, <1>4, <2>2
  <2>. QED BY <1>3, <1>4, <2>1, <2>2
<1>5. ASSUME NEW o \in Peers, Connect(o) \/ Refresh(o) \/ ReadHeld(o)
      PROVE  table'.claims[p].age + nextSweep' <= ClaimTTL + ClaimSweepInterval
  BY <1>4, <1>5 DEF Connect, Refresh, ReadHeld, Announces
<1>6. ASSUME NEW o \in Peers, Disconnect(o) \/ RefreshFails(o) \/ HoldRefresh(o)
      PROVE  table'.claims[p].age + nextSweep' <= ClaimTTL + ClaimSweepInterval
  BY <1>3, <1>6 DEF Disconnect, RefreshFails, HoldRefresh
<1>7. CASE SweepClaims
  <2>1. table'.claims[p] = table.claims[p] /\ p \notin Quiet(table, ClaimTTL)
    BY <1>1, <1>7, SweepFields DEF Dynamic, Taken
  <2>2. table.claims[p].age \in Nat
    BY <1>1, <2>1, AgesAreNat DEF RefreshTypeOK, Dynamic, Taken
  <2>3. table.claims[p].age <= ClaimTTL
    BY <1>2, <2>1, <2>2 DEF Quiet, Dynamic, Taken
  <2>4. nextSweep <= 0 /\ nextSweep' = nextSweep + ClaimSweepInterval
    BY <1>7 DEF SweepClaims
  <2>. QED BY <1>1, <1>2, <2>1, <2>2, <2>3, <2>4
<1>8. CASE Pass
  <2>1. nextSweep' = nextSweep - 1
    BY <1>8 DEF Pass
  <2>2. \/ table'.claims[p] = table.claims[p]
        \/ /\ Taken(table, p) /\ table'.claims[p].origin = table.claims[p].origin
           /\ table'.claims[p].age = table.claims[p].age + 1
    BY <1>1, <1>8, TickFields
  <2>3. Dynamic(table, p)
    BY <2>2 DEF Dynamic, Taken
  <2>4. table.claims[p].age \in Nat
    BY <1>1, <2>3, AgesAreNat DEF RefreshTypeOK, Dynamic
  <2>5. table.claims[p].age + nextSweep <= ClaimTTL + ClaimSweepInterval
    BY <2>3 DEF NoneOverdue
  <2>. QED BY <1>1, <1>2, <2>1, <2>2, <2>4, <2>5
<1>9. CASE UNCHANGED refreshVars
  BY <1>3, <1>9 DEF refreshVars
<1>. QED BY <1>5, <1>6, <1>7, <1>8, <1>9 DEF RefreshNext

(***************************************************************************)
(* A spoke that went away holds its LAN for at most the TTL, one sweep     *)
(* period and the delay of one sweep, whatever these are and whatever the  *)
(* other spokes claim meanwhile.                                           *)
(***************************************************************************)
THEOREM ClaimRefreshBlackholeBounded == RefreshSpec => []BlackholeBounded
<1>1. RefreshInit => OverdueInv
  <2>1. RefreshInit => NoneOverdue
    BY DEF RefreshInit, Unversioned, NewRib, NoneOverdue, Dynamic, Taken
  <2>. QED BY <2>1, InitTable DEF OverdueInv
<1>2. OverdueInv /\ [RefreshNext]_refreshVars => OverdueInv'
  BY NextTable, NextOverdue DEF OverdueInv
<1>3. OverdueInv => BlackholeBounded
  <2>. SUFFICES ASSUME OverdueInv, NEW p \in Prefixes, Dynamic(table, p)
                PROVE  table.claims[p].age <= ClaimTTL + ClaimSweepInterval + MaxStall
    BY DEF BlackholeBounded
  <2>1. table \in RibState /\ nextSweep \in Int /\ nextSweep >= -MaxStall
    BY IntervalAssumption DEF OverdueInv, TableInv, RefreshTypeOK
  <2>2. table.claims[p].age \in Nat
    BY <2>1, AgesAreNat DEF Dynamic
  <2>3. table.claims[p].age + nextSweep <= ClaimTTL + ClaimSweepInterval
    BY DEF OverdueInv, NoneOverdue
  <2>. QED BY <2>1, <2>2, <2>3, IntervalAssumption
<1>. QED BY <1>1, <1>2, <1>3, PTL DEF RefreshSpec

-----------------------------------------------------------------------------
(***************************************************************************)
(* Healthy spokes.  While a spoke is connected, the age of a claim that    *)
(* only it makes, and the time to its next refresh, never add up to more   *)
(* than one interval for each refresh held up and one more; so what       *)
(* the sweep withdraws is never such a claim.                              *)
(***************************************************************************)
OwnLan(o) == ShareLAN[o] \ UNION {ShareLAN[q] : q \in Peers \ {o}}

KeptFresh ==
    \A o \in connected : \A p \in OwnLan(o) :
        /\ HeldBy(table, o, p)
        /\ table.claims[p].age + refreshIn[o] <= (held[o] + 1) * RefreshInterval

FreshInv == TableInv /\ KeptFresh

(* Only its own spoke holds such a prefix.                                 *)
LEMMA OwnLanUncontested ==
    ASSUME TableInv, NEW o \in Peers, NEW p \in OwnLan(o)
    PROVE  /\ p \in ShareLAN[o] /\ p \in Prefixes
           /\ \A q \in Peers \ {o} : p \notin ShareLAN[q]
           /\ Taken(table, p) => HeldBy(table, o, p)
<1>1. p \in ShareLAN[o] /\ p \in Prefixes /\ \A q \in Peers \ {o} : p \notin ShareLAN[q]
  BY SessionAssumption DEF OwnLan
<1>. QED BY <1>1 DEF TableInv, OwnLansOnly

(* The refreshes held up and the one that gets through fit into the TTL.   *)
LEMMA WithinTTL ==
    ASSUME NEW n \in 0..MaxHeld
    PROVE  /\ (n + 1) * RefreshInterval <= ClaimTTL
           /\ (n + 1) * RefreshInterval \in Nat
           /\ (n + 2) * RefreshInterval = (n + 1) * RefreshInterval + RefreshInterval
<1>1. n \in Nat /\ MaxHeld \in Nat /\ n <= MaxHeld /\ RefreshInterval \in Nat /\ ClaimTTL \in Nat
  BY IntervalAssumption
<1>2. (n + 1) * RefreshInterval <= (MaxHeld + 1) * RefreshInterval
  BY <1>1
<1>3. (n + 1) * RefreshInterval \in Nat /\ (MaxHeld + 1) * RefreshInterval \in Nat
  BY <1>1
<1>4. (n + 2) * RefreshInterval = (n + 1) * RefreshInterval + RefreshInterval
  BY <1>1
<1>. QED BY <1>1, <1>2, <1>3, <1>4, IntervalAssumption

LEMMA NextFresh == FreshInv /\ [RefreshNext]_refreshVars => KeptFresh'
<1>. SUFFICES ASSUME FreshInv, [RefreshNext]_refreshVars, NEW o \in connected', NEW p \in OwnLan(o)
              PROVE  /\ HeldBy(table', o, p)
                     /\ table'.claims[p].age + refreshIn'[o] <= (held'[o] + 1) * RefreshInterval
  BY DEF KeptFresh, OwnLan
<1>. USE DEF FreshInv
<1>1. TableInv /\ RefreshTypeOK /\ table \in RibState /\ RefreshInterval \in Nat
  BY IntervalAssumption DEF TableInv, RefreshTypeOK
<1>2. o \in Peers
  BY NextTable DEF TableInv, RefreshTypeOK
<1>3. /\ p \in ShareLAN[o] /\ p \in Prefixes
      /\ \A q \in Peers \ {o} : p \notin ShareLAN[q]
      /\ Taken(table, p) => HeldBy(table, o, p)
  BY <1>1, <1>2, OwnLanUncontested
<1>4. held[o] \in 0..MaxHeld /\ refreshIn[o] \in 0..RefreshInterval
  BY <1>1, <1>2 DEF RefreshTypeOK
<1>5. ASSUME o \in connected
      PROVE  /\ HeldBy(table, o, p) /\ table.claims[p].age \in Nat
             /\ table.claims[p].age + refreshIn[o] <= (held[o] + 1) * RefreshInterval
  BY <1>1, <1>3, <1>5, AgesAreNat DEF KeptFresh, HeldBy
<1>. DEFINE Goal == /\ HeldBy(table', o, p)
                    /\ table'.claims[p].age + refreshIn'[o] <= (held'[o] + 1) * RefreshInterval
<1>6. ASSUME o \in connected, table'.claims[p] = table.claims[p],
             refreshIn'[o] = refreshIn[o], held'[o] = held[o]
      PROVE  Goal
  BY <1>5, <1>6 DEF HeldBy, Taken
<1>7. ASSUME Announces(o), refreshIn' = [refreshIn EXCEPT ![o] = RefreshInterval],
             held' = [held EXCEPT ![o] = 0]
      PROVE  Goal
  <2>1. HeldBy(table', o, p) /\ table'.claims[p].age = 0
    BY <1>1, <1>2, <1>3, <1>7, AnnouncesFields
  <2>2. refreshIn'[o] = RefreshInterval /\ held'[o] = 0
    BY <1>1, <1>2, <1>7 DEF RefreshTypeOK
  <2>. QED BY <1>1, <2>1, <2>2
<1>8. ASSUME NEW q \in Peers \ {o}, Announces(q), o \in connected PROVE table'.claims[p] = table.claims[p]
  <2>1. ~HeldBy(table, q, p)
    BY <1>5, <1>8 DEF HeldBy
  <2>. QED BY <1>1, <1>3, <1>8, <2>1, AnnouncesFields
<1>9. ASSUME NEW q \in Peers, Connect(q) \/ Refresh(q) PROVE Goal
  <2>1. /\ Announces(q) /\ connected' \subseteq connected \cup {q}
        /\ refreshIn' = [refreshIn EXCEPT ![q] = RefreshInterval]
        /\ held' = [held EXCEPT ![q] = 0]
    BY <1>9 DEF Connect, Refresh, Announces
  <2>2. CASE q = o
    BY <1>7, <2>1, <2>2
  <2>3. CASE q # o
    <3>1. o \in connected /\ refreshIn'[o] = refreshIn[o] /\ held'[o] = held[o]
      BY <1>1, <1>2, <2>1, <2>3 DEF RefreshTypeOK
    <3>. QED BY <1>6, <1>8, <2>1, <2>3, <3>1
  <2>. QED BY <2>2, <2>3
<1>10. ASSUME NEW q \in Peers, Disconnect(q) \/ RefreshFails(q) PROVE Goal
  BY <1>6, <1>10 DEF Disconnect, RefreshFails
<1>11. ASSUME NEW q \in Peers, HoldRefresh(q) PROVE Goal
  <2>1. CASE q # o
    BY <1>1, <1>2, <1>6, <1>11, <2>1 DEF HoldRefresh, RefreshTypeOK
  <2>2. CASE q = o
    <3>1. /\ o \in connected /\ table' = table /\ refreshIn[o] = 0
          /\ refreshIn'[o] = RefreshInterval /\ held'[o] = held[o] + 1
      BY <1>1, <1>2, <1>11, <2>2 DEF HoldRefresh, Due, RefreshTypeOK
    <3>2. (held[o] + 2) * RefreshInterval = (held[o] + 1) * RefreshInterval + RefreshInterval
          /\ (held[o] + 1) * RefreshInterval \in Nat
      BY <1>4, WithinTTL
    <3>3. table.claims[p].age <= (held[o] + 1) * RefreshInterval
      BY <1>5, <3>1
    <3>4. held'[o] + 1 = held[o] + 2
      BY <1>4, <3>1
    <3>5. table'.claims[p].age + refreshIn'[o] <= (held[o] + 2) * RefreshInterval
      BY <1>1, <1>5, <3>1, <3>2, <3>3
    <3>. QED BY <1>5, <3>1, <3>4, <3>5
  <2>. QED BY <2>1, <2>2
<1>12. ASSUME NEW q \in Peers, ReadHeld(q) PROVE Goal
  <2>1. /\ Announces(q) /\ o \in connected /\ refreshIn' = refreshIn
        /\ held' = [held EXCEPT ![q] = 0]
    BY <1>12 DEF ReadHeld, Announces
  <2>2. CASE q = o
    <3>1. HeldBy(table', o, p) /\ table'.claims[p].age = 0
      BY <1>1, <1>2, <1>3, <2>1, <2>2, AnnouncesFields
    <3>2. held'[o] = 0 /\ refreshIn'[o] \in 0..RefreshInterval
      BY <1>1, <1>2, <1>4, <2>1, <2>2 DEF RefreshTypeOK
    <3>. QED BY <1>1, <3>1, <3>2
  <2>3. CASE q # o
    <3>1. refreshIn'[o] = refreshIn[o] /\ held'[o] = held[o]
      BY <1>1, <1>2, <2>1, <2>3 DEF RefreshTypeOK
    <3>. QED BY <1>6, <1>8, <2>1, <2>3, <3>1
  <2>. QED BY <2>2, <2>3
<1>13. ASSUME SweepClaims PROVE Goal
  <2>1. o \in connected /\ refreshIn' = refreshIn /\ held' = held
    BY <1>13 DEF SweepClaims
  <2>2. table.claims[p].age <= ClaimTTL
    <3>1. (held[o] + 1) * RefreshInterval <= ClaimTTL /\ (held[o] + 1) * RefreshInterval \in Nat
      BY <1>4, WithinTTL
    <3>2. ClaimTTL \in Nat /\ refreshIn[o] \in Nat
      BY <1>4, IntervalAssumption
    <3>. QED BY <1>5, <2>1, <3>1, <3>2
  <2>3. table'.claims[p] = table.claims[p]
    <3>1. p \notin Quiet(table, ClaimTTL)
      BY <1>5, <2>1, <2>2, IntervalAssumption DEF Quiet
    <3>. QED BY <1>1, <1>3, <1>13, <3>1, SweepFields
  <2>. QED BY <1>6, <2>1, <2>3
<1>14. ASSUME Pass PROVE Goal
  <2>1. /\ o \in connected /\ held' = held /\ refreshIn[o] # 0
        /\ refreshIn'[o] = refreshIn[o] - 1
    BY <1>2, <1>14 DEF Pass, Due
  <2>2. \/ table'.claims[p] = table.claims[p]
        \/ /\ Taken(table', p) /\ table'.claims[p].origin = table.claims[p].origin
           /\ table'.claims[p].age = table.claims[p].age + 1
    BY <1>1, <1>3, <1>14, TickFields
  <2>3. HeldBy(table', o, p)
    BY <1>5, <2>1, <2>2 DEF HeldBy, Taken
  <2>4. (held[o] + 1) * RefreshInterval \in Nat
    BY <1>4, WithinTTL
  <2>. QED BY <1>4, <1>5, <2>1, <2>2, <2>3, <2>4
<1>15. ASSUME UNCHANGED refreshVars PROVE Goal
  BY <1>6, <1>15 DEF refreshVars
<1>. HIDE DEF Goal
<1>16. Goal
  BY <1>9, <1>10, <1>11, <1>12, <1>13, <1>14, <1>15 DEF RefreshNext
<1>. QED BY <1>16 DEF Goal

(***************************************************************************)
(* The LAN of a connected spoke stays in the table: no number of ticks,    *)
(* late sweeps, late refreshes or other spokes' sessions withdraws it, as  *)
(* long as the refreshes that may be held up at a time leave one within the *)
(* TTL.                                                                    *)
(***************************************************************************)
THEOREM ClaimRefreshLanInstalled == RefreshSpec => []ConnectedLanInstalled
<1>1. RefreshInit => FreshInv
  <2>1. RefreshInit => KeptFresh
    BY DEF RefreshInit, KeptFresh
  <2>. QED BY <2>1, InitTable DEF FreshInv
<1>2. FreshInv /\ [RefreshNext]_refreshVars => FreshInv'
  BY NextTable, NextFresh DEF FreshInv
<1>3. FreshInv => ConnectedLanInstalled
  BY DEF FreshInv, KeptFresh, OwnLan, ConnectedLanInstalled
<1>. QED BY <1>1, <1>2, <1>3, PTL DEF RefreshSpec
=============================================================================
