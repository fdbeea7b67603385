----------------------------- MODULE RibProofs -----------------------------
(***************************************************************************)
(* What the runs of MCRib check on a small table, for every set of peers   *)
(* and prefixes.  RibTableProofs says what each operator leaves in every   *)
(* field; the theorems follow from that, one action at a time.             *)
(***************************************************************************)
EXTENDS Rib, RibTableProofs

-----------------------------------------------------------------------------
(* The table stays well formed through every operation.                    *)
LEMMA InitTypeOK == Init => TypeOK
<1>. SUFFICES ASSUME Init PROVE TypeOK
  OBVIOUS
<1>1. PICK rows \in Policies : rib = NewRib(rows)
  BY DEF Init
<1>2. rib \in RibState
  BY <1>1, InputAssumption DEF NewRib, RibState
<1>. QED BY <1>2, TimeAssumption DEF Init, TypeOK

LEMMA NextTypeOK == TypeOK /\ [Next]_vars => TypeOK'
<1>. SUFFICES ASSUME TypeOK, [Next]_vars PROVE TypeOK'
  OBVIOUS
<1>. USE DEF TypeOK
<1>1. ASSUME NEW ms \in Memberships, SetMembers(ms) PROVE TypeOK'
  BY <1>1, InputAssumption, WithMembersFields DEF SetMembers
<1>2. ASSUME NEW rows \in Policies, SetAllow(rows) PROVE TypeOK'
  BY <1>2, InputAssumption, WithAllowFields DEF SetAllow
<1>3. ASSUME NEW o \in Peers, NEW add \in SUBSET Prefixes, NEW drop \in SUBSET Prefixes,
             ApplyClaim(o, add, drop) \/ ReplaceClaim(o, add, drop)
      PROVE  TypeOK'
  <2>1. PICK replace : rib' = ApplyClaims(rib, o, add, drop, replace)
    BY <1>3 DEF ApplyClaim, ReplaceClaim
  <2>2. rib' \in RibState
    BY <2>1, ApplyClaimsFields
  <2>. QED BY <1>3, <2>2 DEF ApplyClaim, ReplaceClaim
<1>4. ASSUME NEW p \in Prefixes, NEW via \in Vias, NEW allow \in StaticAllows,
             AddStatic(p, via, allow)
      PROVE  TypeOK'
  BY <1>4, InputAssumption, MemberKeyType, WithStaticFields DEF AddStatic
<1>5. CASE Sweep
  <2>1. Quiet(rib, TTL) \in SUBSET Prefixes
    BY DEF Quiet
  <2>. QED BY <1>5, <2>1, WithoutFields, TimeAssumption DEF Sweep
<1>6. CASE Tick
  BY <1>6, AgedFields, TimeAssumption DEF Tick
<1>7. CASE UNCHANGED vars
  BY <1>7 DEF vars
<1>. QED BY <1>1, <1>2, <1>3, <1>4, <1>5, <1>6, <1>7 DEF Next

(* Every RIB the methods of rib.go can reach is well formed.               *)
THEOREM RibTypeCorrect == Spec => []TypeOK
<1>. QED BY InitTypeOK, NextTypeOK, PTL DEF Spec

-----------------------------------------------------------------------------
(***************************************************************************)
(* What one step can make of one prefix: keep it, withdraw a dynamic       *)
(* claim, inject a route, refresh or age a dynamic claim, grant a free     *)
(* prefix.                                                                 *)
(***************************************************************************)
Kept(p)      == rib'.claims[p] = rib.claims[p]
Dropped(p)   == rib'.claims[p] = None /\ Dynamic(rib, p)
Renewed(p)   == /\ Dynamic(rib, p) /\ Dynamic(rib', p)
                /\ rib'.claims[p].origin = rib.claims[p].origin
GrantedNow(p) == rib.claims[p] = None /\ \E o \in Peers : rib'.claims[p] = Announced(o)

StepOn(p) == Kept(p) \/ Dropped(p) \/ Static(rib', p) \/ Renewed(p) \/ GrantedNow(p)

LEMMA NextStepOn ==
    ASSUME TypeOK, [Next]_vars, NEW p \in Prefixes
    PROVE  StepOn(p)
<1>. USE DEF TypeOK, StepOn
<1>0. rib' \in RibState
  BY NextTypeOK
<1>1. ASSUME NEW ms \in Memberships, SetMembers(ms) PROVE Kept(p)
  BY <1>1, InputAssumption, WithMembersFields DEF SetMembers, Kept
<1>2. ASSUME NEW rows \in Policies, SetAllow(rows) PROVE Kept(p) \/ Dropped(p)
  BY <1>2, InputAssumption, WithAllowFields DEF SetAllow, Kept, Dropped
<1>3. ASSUME NEW o \in Peers, NEW add \in SUBSET Prefixes, NEW drop \in SUBSET Prefixes,
             NEW replace \in BOOLEAN, rib' = ApplyClaims(rib, o, add, drop, replace)
      PROVE  StepOn(p)
  <2>1. \/ Kept(p)
        \/ rib'.claims[p] = None /\ HeldBy(rib, o, p)
        \/ rib'.claims[p] = Announced(o) /\ (rib.claims[p] = None \/ HeldBy(rib, o, p))
        \/ HeldBy(rib, o, p) /\ rib'.claims[p] = Refreshed(rib.claims[p])
    <3>1. ClaimStep(rib, rib', o, p)
      BY <1>3, ApplyClaimsFields
    <3>. QED BY <3>1 DEF ClaimStep, Kept
  <2>2. HeldBy(rib, o, p) => Dynamic(rib, p) /\ rib.claims[p].origin = o
    BY KeyAssumption DEF HeldBy, Dynamic
  <2>3. Announced(o) # None /\ Announced(o).origin = o
    BY NoneAssumption, AgeAssumption DEF Announced, Claim
  <2>4. CASE rib'.claims[p] = None /\ HeldBy(rib, o, p)
    BY <2>2, <2>4 DEF Dropped
  <2>5. CASE rib'.claims[p] = Announced(o) /\ HeldBy(rib, o, p)
    BY <2>2, <2>3, <2>5, KeyAssumption DEF Renewed, Dynamic, Taken
  <2>6. CASE rib'.claims[p] = Announced(o) /\ rib.claims[p] = None
    BY <2>6 DEF GrantedNow
  <2>7. CASE HeldBy(rib, o, p) /\ rib'.claims[p] = Refreshed(rib.claims[p])
    <3>1. rib.claims[p] \in Claim
      BY <2>7, TakenClaim DEF HeldBy
    <3>2. rib'.claims[p] \in Claim /\ rib'.claims[p].origin = o
      BY <2>2, <2>7, <3>1, AgeOnlyClaim DEF AgeOnly
    <3>. QED BY <2>2, <2>7, <3>2, KeyAssumption, NoneAssumption DEF Renewed, Dynamic, Taken
  <2>. QED BY <2>1, <2>4, <2>5, <2>6, <2>7
<1>4. ASSUME NEW q \in Prefixes, NEW via \in Vias, NEW allow \in StaticAllows,
             AddStatic(q, via, allow)
      PROVE  Kept(p) \/ Static(rib', p)
  BY <1>4, InputAssumption, MemberKeyType, WithStaticFields DEF AddStatic, Kept
<1>5. CASE Sweep
  <2>1. Quiet(rib, TTL) \in SUBSET Prefixes /\ \A q \in Quiet(rib, TTL) : Dynamic(rib, q)
    BY DEF Quiet
  <2>. QED BY <1>5, <2>1, WithoutFields DEF Sweep, Kept, Dropped
<1>6. CASE Tick
  <2>1. CASE Kept(p)
    BY <2>1
  <2>2. CASE ~Kept(p)
    <3>1. Dynamic(rib, p) /\ rib'.claims[p] = Older(rib.claims[p])
      BY <1>6, <2>2, AgedFields DEF Tick, Kept
    <3>2. rib.claims[p] \in Claim
      BY <3>1, TakenClaim DEF Dynamic
    <3>3. rib'.claims[p].origin = rib.claims[p].origin
      BY <3>1, <3>2 DEF Older, Claim
    <3>4. rib'.claims[p] # None
      BY <2>2, <3>1, <3>2, <1>6, AgedFields, AgeOnlyClaim, NoneAssumption DEF Tick, Kept
    <3>. QED BY <3>1, <3>3, <3>4 DEF Renewed, Dynamic, Taken
  <2>. QED BY <2>1, <2>2
<1>7. CASE UNCHANGED vars
  BY <1>7 DEF vars, Kept
<1>. QED BY <1>1, <1>2, <1>3, <1>4, <1>5, <1>6, <1>7
         DEF Next, ApplyClaim, ReplaceClaim
-----------------------------------------------------------------------------
(***************************************************************************)
(* Policy.  RoutesApproved is inductive over well formed tables: a claim   *)
(* is granted only where the current rows approve it, and SetAllow, the    *)
(* only operation that changes the rows, withdraws what the new ones do    *)
(* not approve.                                                            *)
(***************************************************************************)
ApprovedInv == TypeOK /\ RoutesApproved

LEMMA InitApproved == Init => RoutesApproved
BY DEF Init, NewRib, RoutesApproved, Dynamic, Taken

LEMMA NextApproved == ApprovedInv /\ [Next]_vars => RoutesApproved'
<1>. SUFFICES ASSUME ApprovedInv, [Next]_vars, NEW p \in Prefixes, Dynamic(rib', p)
              PROVE  Approves(rib'.allow, rib'.claims[p].origin, p)
  BY DEF RoutesApproved, Dynamic, Taken
<1>. USE DEF ApprovedInv, TypeOK
<1>1. Dynamic(rib, p) => Approves(rib.allow, rib.claims[p].origin, p)
  BY DEF RoutesApproved
<1>2. ASSUME rib'.claims[p] = rib.claims[p], rib'.allow = rib.allow
      PROVE  Approves(rib'.allow, rib'.claims[p].origin, p)
  BY <1>1, <1>2 DEF Dynamic, Taken
<1>3. ASSUME NEW ms \in Memberships, SetMembers(ms)
      PROVE  Approves(rib'.allow, rib'.claims[p].origin, p)
  BY <1>2, <1>3, InputAssumption, WithMembersFields DEF SetMembers
<1>4. ASSUME NEW rows \in Policies, SetAllow(rows)
      PROVE  Approves(rib'.allow, rib'.claims[p].origin, p)
  <2>1. rib'.allow = rows
        /\ rib'.claims[p] = IF Dynamic(rib, p) /\ ~Approves(rows, rib.claims[p].origin, p)
                            THEN None ELSE rib.claims[p]
    BY <1>4, InputAssumption, WithAllowFields DEF SetAllow
  <2>. QED BY <2>1 DEF Dynamic, Taken
<1>5. ASSUME NEW o \in Peers, NEW add \in SUBSET Prefixes, NEW drop \in SUBSET Prefixes,
             NEW replace \in BOOLEAN, rib' = ApplyClaims(rib, o, add, drop, replace)
      PROVE  Approves(rib'.allow, rib'.claims[p].origin, p)
  <2>1. rib'.allow = rib.allow /\ ClaimStep(rib, rib', o, p)
    BY <1>5, ApplyClaimsFields
  <2>2. CASE rib'.claims[p] = rib.claims[p]
    BY <1>2, <2>1, <2>2
  <2>3. CASE rib'.claims[p] = Announced(o) /\ Approves(rib.allow, o, p)
    <3>1. rib'.claims[p].origin = o
      BY <2>3 DEF Announced
    <3>. QED BY <2>1, <2>3, <3>1
  <2>4. CASE HeldBy(rib, o, p) /\ rib'.claims[p] = Refreshed(rib.claims[p])
    <3>1. rib.claims[p] \in Claim /\ rib'.claims[p].origin = rib.claims[p].origin
      BY <2>4, TakenClaim, AgeOnlyClaim DEF HeldBy, AgeOnly
    <3>2. Dynamic(rib, p)
      BY <2>4, KeyAssumption DEF HeldBy, Dynamic
    <3>. QED BY <1>1, <2>1, <3>1, <3>2
  <2>. QED BY <2>1, <2>2, <2>3, <2>4 DEF ClaimStep, Dynamic, Taken
<1>6. ASSUME NEW q \in Prefixes, NEW via \in Vias, NEW allow \in StaticAllows,
             AddStatic(q, via, allow)
      PROVE  Approves(rib'.allow, rib'.claims[p].origin, p)
  <2>1. /\ rib'.allow = rib.allow /\ Static(rib', q)
        /\ \A x \in Prefixes \ {q} : rib'.claims[x] = rib.claims[x]
    BY <1>6, InputAssumption, MemberKeyType, WithStaticFields DEF AddStatic
  <2>2. p # q
    BY <2>1 DEF Static, Dynamic
  <2>. QED BY <1>2, <2>1, <2>2
<1>7. ASSUME Sweep PROVE Approves(rib'.allow, rib'.claims[p].origin, p)
  <2>1. Quiet(rib, TTL) \in SUBSET Prefixes
    BY DEF Quiet
  <2>2. /\ rib'.allow = rib.allow
        /\ rib'.claims[p] = None \/ rib'.claims[p] = rib.claims[p]
    BY <1>7, <2>1, WithoutFields DEF Sweep
  <2>. QED BY <1>2, <2>2 DEF Dynamic, Taken
<1>8. ASSUME Tick PROVE Approves(rib'.allow, rib'.claims[p].origin, p)
  <2>1. /\ rib'.allow = rib.allow
        /\ \/ rib'.claims[p] = rib.claims[p]
           \/ Dynamic(rib, p) /\ rib.claims[p].age < MaxAge
              /\ rib'.claims[p] = Older(rib.claims[p])
    BY <1>8, AgedFields DEF Tick
  <2>2. CASE rib'.claims[p] = rib.claims[p]
    BY <1>2, <2>1, <2>2
  <2>3. CASE Dynamic(rib, p) /\ rib.claims[p].age < MaxAge
             /\ rib'.claims[p] = Older(rib.claims[p])
    <3>1. rib.claims[p] \in Claim
      BY <2>3, TakenClaim DEF Dynamic
    <3>2. rib'.claims[p].origin = rib.claims[p].origin
      BY <2>3, <3>1, AgeOnlyClaim DEF AgeOnly
    <3>. QED BY <1>1, <2>1, <2>3, <3>2
  <2>. QED BY <2>1, <2>2, <2>3
<1>9. ASSUME UNCHANGED vars PROVE Approves(rib'.allow, rib'.claims[p].origin, p)
  BY <1>2, <1>9 DEF vars
<1>. QED BY <1>3, <1>4, <1>5, <1>6, <1>7, <1>8, <1>9 DEF Next, ApplyClaim, ReplaceClaim

(***************************************************************************)
(* No dynamic route is ever in force that its origin's current lan_allow   *)
(* row does not approve, for any policies, peers and prefixes.             *)
(***************************************************************************)
THEOREM RibRoutesApproved == Spec => []RoutesApproved
<1>1. Init => ApprovedInv
  BY InitTypeOK, InitApproved DEF ApprovedInv
<1>2. ApprovedInv /\ [Next]_vars => ApprovedInv'
  BY NextTypeOK, NextApproved DEF ApprovedInv
<1>3. ApprovedInv => RoutesApproved
  BY DEF ApprovedInv
<1>. QED BY <1>1, <1>2, <1>3, PTL DEF Spec

-----------------------------------------------------------------------------
(***************************************************************************)
(* First wins: no operation of the table moves a dynamic route from one    *)
(* spoke to another.                                                       *)
(***************************************************************************)
THEOREM RibFirstWins == Spec => FirstWins
<1>1. TypeOK /\ [Next]_vars =>
        \A p \in Prefixes : Dynamic(rib, p) /\ Dynamic(rib', p)
                              => rib'.claims[p].origin = rib.claims[p].origin
  <2>. SUFFICES ASSUME TypeOK, [Next]_vars, NEW p \in Prefixes,
                       Dynamic(rib, p), Dynamic(rib', p)
                PROVE  rib'.claims[p].origin = rib.claims[p].origin
    OBVIOUS
  <2>1. StepOn(p)
    BY NextStepOn
  <2>. QED BY <2>1 DEF StepOn, Kept, Dropped, Renewed, GrantedNow, Static, Dynamic, Taken
<1>. QED BY <1>1, RibTypeCorrect, PTL DEF Spec, FirstWins

(***************************************************************************)
(* The hub's own routes are never taken over by a claim, a drop, a policy  *)
(* save or the sweep.                                                      *)
(***************************************************************************)
THEOREM RibStaticStays == Spec => StaticStays
<1>1. TypeOK /\ [Next]_vars => \A p \in Prefixes : Static(rib, p) => Static(rib', p)
  <2>. SUFFICES ASSUME TypeOK, [Next]_vars, NEW p \in Prefixes, Static(rib, p)
                PROVE  Static(rib', p)
    OBVIOUS
  <2>1. StepOn(p)
    BY NextStepOn
  <2>. QED BY <2>1 DEF StepOn, Kept, Dropped, Renewed, GrantedNow, Static, Dynamic, Taken
<1>. QED BY <1>1, RibTypeCorrect, PTL DEF Spec, StaticStays
-----------------------------------------------------------------------------
(***************************************************************************)
(* Revisions: every action applies one operator of the table, or none.     *)
(***************************************************************************)
LEMMA NextRev ==
    ASSUME TypeOK, [Next]_vars
    PROVE  RevStep(rib, rib')
<1>. USE DEF TypeOK
<1>1. ASSUME NEW ms \in Memberships, SetMembers(ms) PROVE RevStep(rib, rib')
  BY <1>1, InputAssumption, WithMembersRev DEF SetMembers
<1>2. ASSUME NEW rows \in Policies, SetAllow(rows) PROVE RevStep(rib, rib')
  BY <1>2, InputAssumption, WithAllowRev DEF SetAllow
<1>3. ASSUME NEW o \in Peers, NEW add \in SUBSET Prefixes, NEW drop \in SUBSET Prefixes,
             NEW replace \in BOOLEAN, rib' = ApplyClaims(rib, o, add, drop, replace)
      PROVE  RevStep(rib, rib')
  BY <1>3, ApplyClaimsRev
<1>4. ASSUME NEW q \in Prefixes, NEW via \in Vias, NEW allow \in StaticAllows,
             AddStatic(q, via, allow)
      PROVE  RevStep(rib, rib')
  BY <1>4, InputAssumption, MemberKeyType, WithStaticRev DEF AddStatic
<1>5. CASE Sweep
  <2>1. Quiet(rib, TTL) \in SUBSET Prefixes
    BY DEF Quiet
  <2>. QED BY <1>5, <2>1, WithoutRev DEF Sweep
<1>6. CASE Tick
  BY <1>6, AgedRev DEF Tick
<1>7. CASE UNCHANGED vars
  BY <1>7, AdvancedRev DEF vars
<1>. QED BY <1>1, <1>2, <1>3, <1>4, <1>5, <1>6, <1>7 DEF Next, ApplyClaim, ReplaceClaim

(***************************************************************************)
(* A rev names one content, for what a spoke is sent and for the hub's own *)
(* table, and never goes back: publish may compare revs and nothing else.  *)
(***************************************************************************)
THEOREM RibRevNamesContent == Spec => RevNamesContent
<1>1. TypeOK /\ [Next]_vars =>
        /\ rib'.rev >= rib.rev
        /\ rib'.rev = rib.rev
             => Snapshot(rib') = Snapshot(rib) /\ Routes(rib') = Routes(rib)
  BY NextRev DEF RevStep
<1>. QED BY <1>1, RibTypeCorrect, PTL DEF Spec, RevNamesContent

-----------------------------------------------------------------------------
(***************************************************************************)
(* Expiry.  The age of a claim and the time to the next sweep never add up *)
(* to more than the TTL and one period: a tick moves one up and the other  *)
(* down, and a sweep that starts a new period has just withdrawn whatever  *)
(* is older than the TTL.                                                  *)
(***************************************************************************)
ExpiryInv == TypeOK /\ NoneOutlivesSweep

Fresh(p) == rib.claims[p].age + sweepIn <= TTL + SweepInterval

LEMMA InitExpiry == Init => NoneOutlivesSweep
BY DEF Init, NewRib, NoneOutlivesSweep, Dynamic, Taken

LEMMA NextExpiry == ExpiryInv /\ [Next]_vars => NoneOutlivesSweep'
<1>. SUFFICES ASSUME ExpiryInv, [Next]_vars, NEW p \in Prefixes, Dynamic(rib', p)
              PROVE  Fresh(p)'
  BY DEF NoneOutlivesSweep, Dynamic, Taken, Fresh
<1>. USE DEF ExpiryInv, TypeOK
<1>1. Dynamic(rib, p) => Fresh(p)
  BY DEF NoneOutlivesSweep, Fresh
<1>2. ASSUME rib'.claims[p] = rib.claims[p], sweepIn' = sweepIn PROVE Fresh(p)'
  BY <1>1, <1>2 DEF Fresh, Dynamic, Taken
<1>3. ASSUME rib'.claims[p].age = 0, sweepIn' = sweepIn PROVE Fresh(p)'
  BY <1>3, TimeAssumption DEF Fresh
<1>4. ASSUME NEW ms \in Memberships, SetMembers(ms) PROVE Fresh(p)'
  BY <1>2, <1>4, InputAssumption, WithMembersFields DEF SetMembers
<1>5. ASSUME NEW rows \in Policies, SetAllow(rows) PROVE Fresh(p)'
  <2>1. rib'.claims[p] = None \/ rib'.claims[p] = rib.claims[p]
    BY <1>5, InputAssumption, WithAllowFields DEF SetAllow
  <2>. QED BY <1>2, <1>5, <2>1 DEF SetAllow, Dynamic, Taken
<1>6. ASSUME NEW o \in Peers, NEW add \in SUBSET Prefixes, NEW drop \in SUBSET Prefixes,
             NEW replace \in BOOLEAN, rib' = ApplyClaims(rib, o, add, drop, replace),
             sweepIn' = sweepIn
      PROVE  Fresh(p)'
  <2>1. ClaimStep(rib, rib', o, p)
    BY <1>6, ApplyClaimsFields
  <2>2. CASE rib'.claims[p] = rib.claims[p]
    BY <1>2, <1>6, <2>2
  <2>3. CASE rib'.claims[p] = Announced(o)
    BY <1>3, <1>6, <2>3 DEF Announced
  <2>4. CASE HeldBy(rib, o, p) /\ rib'.claims[p] = Refreshed(rib.claims[p])
    <3>1. rib.claims[p] \in Claim
      BY <2>4, TakenClaim DEF HeldBy
    <3>2. rib'.claims[p].age = 0
      BY <2>4, <3>1 DEF Refreshed, Claim
    <3>. QED BY <1>3, <1>6, <3>2
  <2>. QED BY <2>1, <2>2, <2>3, <2>4 DEF ClaimStep, Dynamic, Taken
<1>7. ASSUME NEW q \in Prefixes, NEW via \in Vias, NEW allow \in StaticAllows,
             AddStatic(q, via, allow)
      PROVE  Fresh(p)'
  <2>1. /\ Static(rib', q)
        /\ \A x \in Prefixes \ {q} : rib'.claims[x] = rib.claims[x]
    BY <1>7, InputAssumption, MemberKeyType, WithStaticFields DEF AddStatic
  <2>2. p # q
    BY <2>1 DEF Static, Dynamic
  <2>. QED BY <1>2, <1>7, <2>1, <2>2 DEF AddStatic
<1>8. ASSUME Sweep PROVE Fresh(p)'
  <2>1. Quiet(rib, TTL) \in SUBSET Prefixes
    BY DEF Quiet
  <2>2. rib'.claims[p] = IF p \in Quiet(rib, TTL) THEN None ELSE rib.claims[p]
    BY <1>8, <2>1, WithoutFields DEF Sweep
  <2>3. p \notin Quiet(rib, TTL) /\ rib'.claims[p] = rib.claims[p]
    BY <2>2 DEF Dynamic, Taken
  <2>4. Dynamic(rib, p) /\ rib.claims[p] \in Claim
    BY <2>3, TakenClaim DEF Dynamic, Taken
  <2>5. rib.claims[p].age \in Nat /\ rib.claims[p].age <= TTL
    BY <2>3, <2>4, AgeAssumption, TimeAssumption DEF Quiet, Claim
  <2>. QED BY <1>8, <2>3, <2>5, TimeAssumption DEF Sweep, Fresh
<1>9. ASSUME Tick PROVE Fresh(p)'
  <2>1. rib'.claims[p] = IF Dynamic(rib, p) /\ rib.claims[p].age < MaxAge
                         THEN Older(rib.claims[p]) ELSE rib.claims[p]
    BY <1>9, AgedFields DEF Tick
  <2>2. sweepIn' = sweepIn - 1 /\ sweepIn \in Nat
    BY <1>9, TimeAssumption DEF Tick
  <2>3. CASE Dynamic(rib, p) /\ rib.claims[p].age < MaxAge
    <3>1. rib.claims[p] \in Claim
      BY <2>3, TakenClaim DEF Dynamic
    <3>2. rib'.claims[p].age = rib.claims[p].age + 1 /\ rib.claims[p].age \in Nat
      BY <2>1, <2>3, <3>1, AgeAssumption DEF Older, Claim
    <3>. QED BY <1>1, <2>2, <2>3, <3>2, TimeAssumption DEF Fresh
  <2>4. CASE ~(Dynamic(rib, p) /\ rib.claims[p].age < MaxAge)
    <3>1. rib'.claims[p] = rib.claims[p]
      BY <2>1, <2>4
    <3>2. Dynamic(rib, p) /\ rib.claims[p] \in Claim
      BY <3>1, TakenClaim DEF Dynamic, Taken
    <3>3. rib.claims[p].age \in Nat
      BY <3>2, AgeAssumption DEF Claim
    <3>. QED BY <1>1, <2>2, <3>1, <3>2, <3>3, TimeAssumption DEF Fresh
  <2>. QED BY <2>3, <2>4
<1>10. ASSUME UNCHANGED vars PROVE Fresh(p)'
  BY <1>2, <1>10 DEF vars
<1>. QED BY <1>4, <1>5, <1>6, <1>7, <1>8, <1>9, <1>10 DEF Next, ApplyClaim, ReplaceClaim

(***************************************************************************)
(* A spoke that stops asserting a prefix loses it within the TTL and one   *)
(* sweep period, whatever the two constants are.                           *)
(***************************************************************************)
THEOREM RibNoneOutlivesSweep == Spec => []NoneOutlivesSweep
<1>1. Init => ExpiryInv
  BY InitTypeOK, InitExpiry DEF ExpiryInv
<1>2. ExpiryInv /\ [Next]_vars => ExpiryInv'
  BY NextTypeOK, NextExpiry DEF ExpiryInv
<1>3. ExpiryInv => NoneOutlivesSweep
  BY DEF ExpiryInv
<1>. QED BY <1>1, <1>2, <1>3, PTL DEF Spec

(***************************************************************************)
(* What no operation on the table does, for any members, prefixes and      *)
(* policies: the three facts the run checks together.                      *)
(***************************************************************************)
THEOREM RibRouteSteps == Spec => RouteSteps
<1>. QED BY RibFirstWins, RibStaticStays, RibRevNamesContent DEF RouteSteps
=============================================================================
