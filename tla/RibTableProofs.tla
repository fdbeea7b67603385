--------------------------- MODULE RibTableProofs ---------------------------
(***************************************************************************)
(* What each operator of RibTable does to each field of the table, for     *)
(* every set of peers and prefixes.  The proofs about the three state      *)
(* machines that use the table, Rib, ClaimRefresh and ControlHub, cite     *)
(* these instead of the operators' definitions.                            *)
(***************************************************************************)
EXTENDS RibTable, FiniteSetTheorems, TLAPS

(* A prefix that is taken holds a claim.                                   *)
LEMMA TakenClaim ==
    ASSUME NEW r \in RibState, NEW p \in Prefixes
    PROVE  /\ Taken(r, p) => r.claims[p] \in Claim
           /\ Static(r, p) => Taken(r, p) /\ ~Dynamic(r, p)
           /\ Dynamic(r, p) => r.claims[p].origin \in Peers
BY NoneAssumption DEF RibState, Taken, Static, Dynamic, Claim

(* Two contents of a prefix that differ in the age of the claim at most.   *)
AgeOnly(c, d) ==
    \/ c = d
    \/ /\ c \in Claim /\ d \in Claim
       /\ d.origin = c.origin /\ d.via = c.via /\ d.allow = c.allow

LEMMA AgeOnlyClaim ==
    ASSUME NEW c \in Claim
    PROVE  /\ AgeOnly(c, Refreshed(c))
           /\ Refreshed(c) \in Claim
           /\ c.age < MaxAge => AgeOnly(c, Older(c)) /\ Older(c) \in Claim
<1>1. Refreshed(c) \in Claim
  BY AgeAssumption DEF Claim, Refreshed
<1>2. ASSUME c.age < MaxAge PROVE Older(c) \in Claim
  BY <1>2, AgeAssumption DEF Claim, Older
<1>3. AgeOnly(c, Refreshed(c))
  BY <1>1 DEF AgeOnly, Refreshed, Claim
<1>4. ASSUME c.age < MaxAge PROVE AgeOnly(c, Older(c))
  BY <1>2, <1>4 DEF AgeOnly, Older, Claim
<1>. QED BY <1>1, <1>2, <1>3, <1>4

(* Sets of prefixes are finite, so counting them gives a natural number,   *)
(* and only the empty one counts nothing.                                  *)
LEMMA PrefixCount ==
    ASSUME NEW S \in SUBSET Prefixes
    PROVE  Cardinality(S) \in Nat /\ (Cardinality(S) = 0 => S = {})
<1>1. IsFiniteSet(S)
  BY FS_Subset, PrefixAssumption
<1>. QED BY <1>1, FS_CardinalityType, FS_EmptySet

(* What the operators do to the record: new claims and a new rev.          *)
Updated(r, claims, rev) == [r EXCEPT !.claims = claims, !.rev = rev]

LEMMA UpdatedFields ==
    ASSUME NEW r \in RibState, NEW claims \in [Prefixes -> Claim \cup {None}],
           NEW rev \in Nat
    PROVE  /\ Updated(r, claims, rev) \in RibState
           /\ Updated(r, claims, rev).claims = claims
           /\ Updated(r, claims, rev).rev = rev
           /\ Updated(r, claims, rev).allow = r.allow
           /\ Updated(r, claims, rev).members = r.members
BY DEF RibState, Updated

(* Without removes the routes of gone and counts them.                     *)
LEMMA WithoutFields ==
    ASSUME NEW r \in RibState, NEW gone \in SUBSET Prefixes
    PROVE  /\ Without(r, gone) \in RibState
           /\ \A p \in Prefixes :
                 Without(r, gone).claims[p] = IF p \in gone THEN None ELSE r.claims[p]
           /\ Without(r, gone).rev = r.rev + Cardinality(gone)
           /\ Without(r, gone).allow = r.allow
           /\ Without(r, gone).members = r.members
<1>. DEFINE new == [p \in Prefixes |-> IF p \in gone THEN None ELSE r.claims[p]]
<1>1. PICK n \in Nat : n = r.rev + Cardinality(gone)
  BY PrefixCount DEF RibState
<1>2. new \in [Prefixes -> Claim \cup {None}]
  BY DEF RibState
<1>3. Without(r, gone) = Updated(r, new, n)
  BY <1>1 DEF Without, Updated
<1>4. \A p \in Prefixes : new[p] = IF p \in gone THEN None ELSE r.claims[p]
  OBVIOUS
<1>. HIDE DEF new
<1>. QED BY <1>1, <1>2, <1>3, <1>4, UpdatedFields

(* A granted prefix is free, approved and covers no member.                *)
LEMMA GrantedFree ==
    ASSUME NEW r \in RibState, NEW o \in Peers, NEW add \in SUBSET Prefixes,
           NEW p \in Granted(r, o, add)
    PROVE  p \in add /\ r.claims[p] = None /\ Approves(r.allow, o, p)
<1>1. p \in add /\ p \in Prefixes /\ Refusal(r, o, p) = ""
  BY DEF Granted
<1>2. ApprovalRefusal(r, o, p) = ""
  BY <1>1 DEF Refusal
<1>3. Approves(r.allow, o, p)
  BY <1>2 DEF ApprovalRefusal
<1>4. ~Taken(r, p)
  BY <1>1, <1>2 DEF Refusal, Static
<1>. QED BY <1>1, <1>3, <1>4 DEF Taken

(* Announce takes the granted prefixes and refreshes the ones o holds.     *)
LEMMA AnnounceFields ==
    ASSUME NEW r \in RibState, NEW o \in Peers, NEW add \in SUBSET Prefixes
    PROVE  /\ Announce(r, o, add) \in RibState
           /\ \A p \in Prefixes :
                 Announce(r, o, add).claims[p] =
                    IF p \in Granted(r, o, add) THEN Announced(o)
                    ELSE IF p \in add /\ HeldBy(r, o, p)
                         THEN Refreshed(r.claims[p])
                         ELSE r.claims[p]
           /\ Announce(r, o, add).rev = r.rev + Cardinality(Granted(r, o, add))
           /\ Announce(r, o, add).allow = r.allow
           /\ Announce(r, o, add).members = r.members
<1>1. Granted(r, o, add) \in SUBSET Prefixes
  BY DEF Granted
<1>2. PICK n \in Nat : n = r.rev + Cardinality(Granted(r, o, add))
  BY <1>1, PrefixCount DEF RibState
<1>3. Announced(o) \in Claim
  BY AgeAssumption DEF Announced, Claim
<1>4. \A p \in Prefixes : HeldBy(r, o, p) => Refreshed(r.claims[p]) \in Claim
  BY TakenClaim, AgeOnlyClaim DEF HeldBy
<1>. DEFINE new == [p \in Prefixes |->
                      IF p \in Granted(r, o, add) THEN Announced(o)
                      ELSE IF p \in add /\ HeldBy(r, o, p)
                           THEN Refreshed(r.claims[p]) ELSE r.claims[p]]
<1>5. new \in [Prefixes -> Claim \cup {None}]
  BY <1>3, <1>4 DEF RibState
<1>6. Announce(r, o, add) = Updated(r, new, n)
  BY <1>2 DEF Announce, Updated
<1>7. \A p \in Prefixes :
        new[p] = IF p \in Granted(r, o, add) THEN Announced(o)
                 ELSE IF p \in add /\ HeldBy(r, o, p)
                      THEN Refreshed(r.claims[p]) ELSE r.claims[p]
  OBVIOUS
<1>. HIDE DEF new
<1>. QED BY <1>2, <1>5, <1>6, <1>7, UpdatedFields

LEMMA WithMembersFields ==
    ASSUME NEW r \in RibState, NEW ms \in SUBSET Member
    PROVE  /\ WithMembers(r, ms) \in RibState
           /\ WithMembers(r, ms).members = ms
           /\ WithMembers(r, ms).claims = r.claims
           /\ WithMembers(r, ms).allow = r.allow
           /\ \/ WithMembers(r, ms) = r
              \/ WithMembers(r, ms).rev = r.rev + 1
<1>1. CASE ms = r.members
  BY <1>1 DEF WithMembers
<1>2. CASE ms # r.members
  <2>1. PICK n \in Nat : n = r.rev + 1
    BY DEF RibState
  <2>2. WithMembers(r, ms) = [r EXCEPT !.members = ms, !.rev = n]
    BY <1>2, <2>1 DEF WithMembers
  <2>. QED BY <2>1, <2>2 DEF RibState
<1>. QED BY <1>1, <1>2

(* A saved policy withdraws the dynamic routes it does not approve.        *)
LEMMA WithAllowFields ==
    ASSUME NEW r \in RibState, NEW rows \in [Peers -> {None} \cup SUBSET Prefixes]
    PROVE  /\ WithAllow(r, rows) \in RibState
           /\ \A p \in Prefixes :
                 WithAllow(r, rows).claims[p] =
                    IF Dynamic(r, p) /\ ~Approves(rows, r.claims[p].origin, p)
                    THEN None ELSE r.claims[p]
           /\ WithAllow(r, rows).rev = r.rev + 1
           /\ WithAllow(r, rows).allow = rows
           /\ WithAllow(r, rows).members = r.members
<1>. DEFINE gone == {p \in Prefixes :
                       Dynamic(r, p) /\ ~Approves(rows, r.claims[p].origin, p)}
            new == [p \in Prefixes |-> IF p \in gone THEN None ELSE r.claims[p]]
<1>1. new \in [Prefixes -> Claim \cup {None}]
  BY DEF RibState
<1>2. PICK n \in Nat : n = r.rev + 1
  BY DEF RibState
<1>3. \A p \in Prefixes : new[p] = IF Dynamic(r, p) /\ ~Approves(rows, r.claims[p].origin, p)
                                   THEN None ELSE r.claims[p]
  OBVIOUS
<1>4. WithAllow(r, rows) = [r EXCEPT !.allow = rows, !.claims = new, !.rev = n]
  BY <1>2 DEF WithAllow
<1>. HIDE DEF new
<1>. QED BY <1>1, <1>2, <1>3, <1>4 DEF RibState

(* A via that resolves names a member.                                     *)
LEMMA MemberKeyType ==
    ASSUME NEW r \in RibState, NEW via, Resolves(r, via)
    PROVE  MemberKey(r, via) \in Peers \cup {None}
<1>1. CASE via = None
  BY <1>1 DEF MemberKey
<1>2. CASE via # None
  <2>1. PICK m \in r.members : m.ip = via
    BY <1>2 DEF Resolves
  <2>2. (CHOOSE n \in r.members : n.ip = via) \in r.members
    BY <2>1
  <2>3. r.members \subseteq Member
    BY DEF RibState
  <2>. QED BY <1>2, <2>2, <2>3 DEF MemberKey, Member
<1>. QED BY <1>1, <1>2

(* AddStatic leaves a static route on its prefix and the others alone.     *)
LEMMA WithStaticFields ==
    ASSUME NEW r \in RibState, NEW p \in Prefixes, NEW k \in Peers \cup {None},
           NEW allow \in SUBSET Peers
    PROVE  /\ WithStatic(r, p, k, allow) \in RibState
           /\ Static(WithStatic(r, p, k, allow), p)
           /\ \A q \in Prefixes \ {p} : WithStatic(r, p, k, allow).claims[q] = r.claims[q]
           /\ WithStatic(r, p, k, allow).allow = r.allow
           /\ WithStatic(r, p, k, allow).members = r.members
           /\ \/ WithStatic(r, p, k, allow) = r
              \/ WithStatic(r, p, k, allow).rev = r.rev + 1
<1>. DEFINE c == [origin |-> StaticOrigin, via |-> k, allow |-> allow, age |-> 0]
<1>1. c \in Claim /\ c # None
  BY AgeAssumption, NoneAssumption DEF Claim
<1>2. CASE SameRoute(r, p, k, allow)
  BY <1>2 DEF WithStatic, SameRoute
<1>3. CASE ~SameRoute(r, p, k, allow)
  <2>. DEFINE new == [r.claims EXCEPT ![p] = c]
  <2>0. PICK n \in Nat : n = r.rev + 1
    BY DEF RibState
  <2>1. WithStatic(r, p, k, allow) = Updated(r, new, n)
    BY <1>3, <2>0 DEF WithStatic, Updated, RibState
  <2>2. new \in [Prefixes -> Claim \cup {None}] /\ new[p] = c
        /\ \A q \in Prefixes \ {p} : new[q] = r.claims[q]
    BY <1>1 DEF RibState
  <2>3. c.origin = StaticOrigin
    OBVIOUS
  <2>. HIDE DEF c, new
  <2>. QED BY <1>1, <2>0, <2>1, <2>2, <2>3, UpdatedFields DEF Static, Taken
<1>. QED BY <1>2, <1>3

(* A tick changes ages only.                                               *)
LEMMA AgedFields ==
    ASSUME NEW r \in RibState
    PROVE  /\ Aged(r) \in RibState
           /\ \A p \in Prefixes :
                 Aged(r).claims[p] =
                    IF Dynamic(r, p) /\ r.claims[p].age < MaxAge
                    THEN Older(r.claims[p]) ELSE r.claims[p]
           /\ Aged(r).rev = r.rev
           /\ Aged(r).allow = r.allow
           /\ Aged(r).members = r.members
<1>1. \A p \in Prefixes : Dynamic(r, p) /\ r.claims[p].age < MaxAge
         => Older(r.claims[p]) \in Claim
  BY TakenClaim, AgeAssumption DEF Dynamic, Claim, Older
<1>. DEFINE new == [p \in Prefixes |->
                      IF Dynamic(r, p) /\ r.claims[p].age < MaxAge
                      THEN Older(r.claims[p]) ELSE r.claims[p]]
<1>2. new \in [Prefixes -> Claim \cup {None}]
  BY <1>1 DEF RibState
<1>3. Aged(r) = [r EXCEPT !.claims = new]
  BY DEF Aged
<1>4. \A p \in Prefixes :
        new[p] = IF Dynamic(r, p) /\ r.claims[p].age < MaxAge
                 THEN Older(r.claims[p]) ELSE r.claims[p]
  OBVIOUS
<1>. HIDE DEF new
<1>. QED BY <1>2, <1>3, <1>4 DEF RibState

-----------------------------------------------------------------------------
(* What one message of o's claims can make of one prefix.                  *)
ClaimStep(r, s, o, p) ==
    \/ s.claims[p] = r.claims[p]
    \/ s.claims[p] = None /\ HeldBy(r, o, p)
    \/ /\ s.claims[p] = Announced(o)
       /\ r.claims[p] = None \/ HeldBy(r, o, p)
       /\ Approves(r.allow, o, p)
    \/ HeldBy(r, o, p) /\ s.claims[p] = Refreshed(r.claims[p])

LEMMA ApplyClaimsFields ==
    ASSUME NEW r \in RibState, NEW o \in Peers, NEW add \in SUBSET Prefixes,
           NEW drop, NEW replace
    PROVE  /\ ApplyClaims(r, o, add, drop, replace) \in RibState
           /\ ApplyClaims(r, o, add, drop, replace).allow = r.allow
           /\ ApplyClaims(r, o, add, drop, replace).members = r.members
           /\ \A p \in Prefixes : ClaimStep(r, ApplyClaims(r, o, add, drop, replace), o, p)
           /\ ApplyClaims(r, o, add, drop, replace).rev >= r.rev
           /\ ApplyClaims(r, o, add, drop, replace).rev = r.rev =>
                 \A p \in Prefixes :
                    AgeOnly(r.claims[p], ApplyClaims(r, o, add, drop, replace).claims[p])
<1>. DEFINE gone == Withdrawn(r, o, add, drop, replace)
            w == Without(r, gone)
            g == Granted(w, o, add)
            s == ApplyClaims(r, o, add, drop, replace)
<1>1. gone \in SUBSET Prefixes /\ \A p \in gone : HeldBy(r, o, p)
  BY DEF Withdrawn
<1>2. /\ w \in RibState /\ w.rev = r.rev + Cardinality(gone)
      /\ w.allow = r.allow /\ w.members = r.members
      /\ \A p \in Prefixes : w.claims[p] = IF p \in gone THEN None ELSE r.claims[p]
  BY <1>1, WithoutFields
<1>3. s = Announce(w, o, add)
  BY DEF ApplyClaims
<1>4. /\ s \in RibState /\ s.rev = w.rev + Cardinality(g)
      /\ s.allow = w.allow /\ s.members = w.members
      /\ \A p \in Prefixes :
            s.claims[p] = IF p \in g THEN Announced(o)
                          ELSE IF p \in add /\ HeldBy(w, o, p)
                               THEN Refreshed(w.claims[p]) ELSE w.claims[p]
  BY <1>2, <1>3, AnnounceFields
<1>5. g \in SUBSET Prefixes
      /\ \A p \in g : w.claims[p] = None /\ Approves(w.allow, o, p)
  <2>1. g \in SUBSET Prefixes
    BY DEF Granted
  <2>2. \A p \in g : w.claims[p] = None /\ Approves(w.allow, o, p)
    BY <1>2, GrantedFree
  <2>. QED BY <2>1, <2>2
<1>6. ASSUME NEW p \in Prefixes, HeldBy(w, o, p)
      PROVE  w.claims[p] = r.claims[p] /\ HeldBy(r, o, p) /\ r.claims[p] \in Claim
  <2>1. w.claims[p] = r.claims[p]
    BY <1>2, <1>6 DEF HeldBy, Taken
  <2>2. HeldBy(r, o, p)
    BY <1>6, <2>1 DEF HeldBy, Taken
  <2>. QED BY <2>1, <2>2, TakenClaim DEF HeldBy
<1>7. Cardinality(gone) \in Nat /\ Cardinality(g) \in Nat
      /\ (Cardinality(gone) = 0 => gone = {}) /\ (Cardinality(g) = 0 => g = {})
  BY <1>1, <1>5, PrefixCount
<1>8. r.rev \in Nat
  BY DEF RibState
<1>. HIDE DEF gone, w, g, s
<1>9. ASSUME NEW p \in Prefixes PROVE ClaimStep(r, s, o, p)
  BY <1>1, <1>2, <1>4, <1>5, <1>6 DEF ClaimStep
<1>10. s.rev >= r.rev
  BY <1>2, <1>4, <1>7, <1>8
<1>11. ASSUME s.rev = r.rev, NEW p \in Prefixes PROVE AgeOnly(r.claims[p], s.claims[p])
  <2>1. gone = {} /\ g = {}
    BY <1>2, <1>4, <1>7, <1>8, <1>11
  <2>2. w.claims[p] = r.claims[p]
    BY <1>2, <2>1
  <2>3. CASE HeldBy(w, o, p) /\ p \in add
    <3>1. s.claims[p] = Refreshed(r.claims[p])
      BY <1>4, <2>1, <2>2, <2>3
    <3>. QED BY <1>6, <2>3, <3>1, AgeOnlyClaim
  <2>4. CASE ~(HeldBy(w, o, p) /\ p \in add)
    BY <1>4, <2>1, <2>2, <2>4 DEF AgeOnly
  <2>. QED BY <2>3, <2>4
<1>. QED BY <1>2, <1>4, <1>9, <1>10, <1>11 DEF s

-----------------------------------------------------------------------------
(***************************************************************************)
(* Revisions.  An operation either advances the rev or changes nothing but *)
(* the ages of claims, and ages appear neither in the snapshot a spoke is  *)
(* sent nor in the hub's own table.                                        *)
(***************************************************************************)
LEMMA SameContent ==
    ASSUME NEW r \in RibState, NEW s \in RibState, s.rev = r.rev, s.members = r.members,
           \A p \in Prefixes : AgeOnly(r.claims[p], s.claims[p])
    PROVE  Snapshot(s) = Snapshot(r) /\ Routes(s) = Routes(r)
<1>1. ASSUME NEW p \in Prefixes
      PROVE  /\ Entry(s.claims[p]) = Entry(r.claims[p])
             /\ Taken(s, p) <=> Taken(r, p)
             /\ Taken(r, p) => /\ Carrier(s.claims[p]) = Carrier(r.claims[p])
                               /\ s.claims[p].allow = r.claims[p].allow
  BY NoneAssumption DEF AgeOnly, Entry, Taken, Carrier
<1>2. Snapshot(s) = Snapshot(r)
  BY <1>1 DEF Snapshot
<1>3. Routes(s) = Routes(r)
  BY <1>1 DEF Routes
<1>. QED BY <1>2, <1>3

RevStep(r, s) ==
    /\ s \in RibState
    /\ s.rev >= r.rev
    /\ s.rev = r.rev => Snapshot(s) = Snapshot(r) /\ Routes(s) = Routes(r)

LEMMA AdvancedRev ==
    ASSUME NEW r \in RibState, NEW s \in RibState, s = r \/ s.rev = r.rev + 1
    PROVE  RevStep(r, s)
BY DEF RevStep, RibState

LEMMA WithMembersRev ==
    ASSUME NEW r \in RibState, NEW ms \in SUBSET Member
    PROVE  RevStep(r, WithMembers(r, ms))
BY AdvancedRev, WithMembersFields

LEMMA WithAllowRev ==
    ASSUME NEW r \in RibState, NEW rows \in [Peers -> {None} \cup SUBSET Prefixes]
    PROVE  RevStep(r, WithAllow(r, rows))
BY AdvancedRev, WithAllowFields

LEMMA WithStaticRev ==
    ASSUME NEW r \in RibState, NEW p \in Prefixes, NEW k \in Peers \cup {None},
           NEW allow \in SUBSET Peers
    PROVE  RevStep(r, WithStatic(r, p, k, allow))
BY AdvancedRev, WithStaticFields

LEMMA ApplyClaimsRev ==
    ASSUME NEW r \in RibState, NEW o \in Peers, NEW add \in SUBSET Prefixes,
           NEW drop, NEW replace
    PROVE  RevStep(r, ApplyClaims(r, o, add, drop, replace))
BY ApplyClaimsFields, SameContent DEF RevStep

LEMMA WithoutRev ==
    ASSUME NEW r \in RibState, NEW gone \in SUBSET Prefixes
    PROVE  RevStep(r, Without(r, gone))
<1>. DEFINE s == Without(r, gone)
<1>1. /\ s \in RibState /\ s.rev = r.rev + Cardinality(gone) /\ s.members = r.members
      /\ \A p \in Prefixes : s.claims[p] = IF p \in gone THEN None ELSE r.claims[p]
  BY WithoutFields
<1>2. Cardinality(gone) \in Nat /\ (Cardinality(gone) = 0 => gone = {})
  BY PrefixCount
<1>3. r.rev \in Nat
  BY DEF RibState
<1>. HIDE DEF s
<1>4. ASSUME s.rev = r.rev
      PROVE  Snapshot(s) = Snapshot(r) /\ Routes(s) = Routes(r)
  <2>1. \A p \in Prefixes : AgeOnly(r.claims[p], s.claims[p])
    BY <1>1, <1>2, <1>3, <1>4 DEF AgeOnly
  <2>. QED BY <1>1, <1>4, <2>1, SameContent
<1>5. s.rev >= r.rev
  BY <1>1, <1>2, <1>3
<1>6. RevStep(r, s)
  BY <1>1, <1>4, <1>5 DEF RevStep
<1>. QED BY <1>6 DEF s

LEMMA AgedRev ==
    ASSUME NEW r \in RibState
    PROVE  RevStep(r, Aged(r))
<1>. DEFINE s == Aged(r)
<1>1. /\ s \in RibState /\ s.rev = r.rev /\ s.members = r.members
      /\ \A p \in Prefixes : s.claims[p] = IF Dynamic(r, p) /\ r.claims[p].age < MaxAge
                                            THEN Older(r.claims[p]) ELSE r.claims[p]
  BY AgedFields
<1>. HIDE DEF s
<1>2. ASSUME NEW p \in Prefixes PROVE AgeOnly(r.claims[p], s.claims[p])
  BY <1>1, TakenClaim, AgeOnlyClaim DEF AgeOnly, Dynamic
<1>3. r.rev \in Nat
  BY DEF RibState
<1>4. RevStep(r, s)
  BY <1>1, <1>2, <1>3, SameContent DEF RevStep
<1>. QED BY <1>4 DEF s


-----------------------------------------------------------------------------
(***************************************************************************)
(* Who holds what.  Only its own claims give a spoke a prefix, and a       *)
(* replacing message leaves it no other than it names.                     *)
(***************************************************************************)
KeepsOwners(r, s) == \A o \in Peers, p \in Prefixes : HeldBy(s, o, p) => HeldBy(r, o, p)

LEMMA OwnersKept ==
    ASSUME NEW r \in RibState
    PROVE  /\ \A ms \in SUBSET Member : KeepsOwners(r, WithMembers(r, ms))
           /\ \A rows \in [Peers -> {None} \cup SUBSET Prefixes] : KeepsOwners(r, WithAllow(r, rows))
           /\ \A gone \in SUBSET Prefixes : KeepsOwners(r, Without(r, gone))
           /\ \A p \in Prefixes, k \in Peers \cup {None}, allow \in SUBSET Peers :
                 KeepsOwners(r, WithStatic(r, p, k, allow))
<1>1. ASSUME NEW ms \in SUBSET Member PROVE KeepsOwners(r, WithMembers(r, ms))
  BY WithMembersFields DEF KeepsOwners, HeldBy, Taken
<1>2. ASSUME NEW rows \in [Peers -> {None} \cup SUBSET Prefixes]
      PROVE  KeepsOwners(r, WithAllow(r, rows))
  BY WithAllowFields DEF KeepsOwners, HeldBy, Taken
<1>3. ASSUME NEW gone \in SUBSET Prefixes PROVE KeepsOwners(r, Without(r, gone))
  BY WithoutFields DEF KeepsOwners, HeldBy, Taken
<1>4. ASSUME NEW p \in Prefixes, NEW k \in Peers \cup {None}, NEW allow \in SUBSET Peers
      PROVE  KeepsOwners(r, WithStatic(r, p, k, allow))
  <2>1. /\ Static(WithStatic(r, p, k, allow), p)
        /\ \A q \in Prefixes \ {p} : WithStatic(r, p, k, allow).claims[q] = r.claims[q]
    BY WithStaticFields
  <2>. QED BY <2>1, KeyAssumption DEF KeepsOwners, HeldBy, Taken, Static
<1>. QED BY <1>1, <1>2, <1>3, <1>4

LEMMA ApplyClaimsOwners ==
    ASSUME NEW r \in RibState, NEW o \in Peers, NEW add \in SUBSET Prefixes,
           NEW drop, NEW replace
    PROVE  \A q \in Peers, p \in Prefixes :
              HeldBy(ApplyClaims(r, o, add, drop, replace), q, p) =>
                 IF q = o THEN p \in add \/ (~replace /\ HeldBy(r, o, p)) ELSE HeldBy(r, q, p)
<1>. DEFINE gone == Withdrawn(r, o, add, drop, replace)
            w == Without(r, gone)
            g == Granted(w, o, add)
            s == ApplyClaims(r, o, add, drop, replace)
<1>1. gone \in SUBSET Prefixes
  BY DEF Withdrawn
<1>2. w \in RibState /\ \A p \in Prefixes : w.claims[p] = IF p \in gone THEN None ELSE r.claims[p]
  BY <1>1, WithoutFields
<1>3. s = Announce(w, o, add)
  BY DEF ApplyClaims
<1>4. \A p \in Prefixes :
        s.claims[p] = IF p \in g THEN Announced(o)
                      ELSE IF p \in add /\ HeldBy(w, o, p)
                           THEN Refreshed(w.claims[p]) ELSE w.claims[p]
  BY <1>2, <1>3, AnnounceFields
<1>5. g \subseteq add /\ \A p \in Prefixes : p \in gone <=>
                            HeldBy(r, o, p) /\ (p \in drop \/ (replace /\ p \notin add))
  BY DEF Granted, Withdrawn
<1>. HIDE DEF gone, w, g, s
<1>6. ASSUME NEW q \in Peers, NEW p \in Prefixes, HeldBy(s, q, p)
      PROVE  IF q = o THEN p \in add \/ (~replace /\ HeldBy(r, o, p)) ELSE HeldBy(r, q, p)
  <2>1. CASE p \in g
    BY <1>4, <1>5, <1>6, <2>1 DEF HeldBy, Announced
  <2>2. CASE p \notin g /\ p \in add /\ HeldBy(w, o, p)
    <3>1. w.claims[p] \in Claim /\ w.claims[p].origin = o
      BY <1>2, <2>2, TakenClaim DEF HeldBy
    <3>2. Refreshed(w.claims[p]).origin = o
      BY <3>1 DEF Refreshed, Claim
    <3>. QED BY <1>4, <1>6, <2>2, <3>2 DEF HeldBy
  <2>3. CASE p \notin g /\ ~(p \in add /\ HeldBy(w, o, p))
    <3>1. s.claims[p] = w.claims[p]
      BY <1>4, <2>3
    <3>2. p \notin gone /\ HeldBy(r, q, p)
      BY <1>2, <1>6, <3>1 DEF HeldBy, Taken
    <3>. QED BY <1>5, <3>2
  <2>. QED BY <2>1, <2>2, <2>3
<1>. QED BY <1>6 DEF s
=============================================================================
