------------------------------ MODULE RibTable ------------------------------
(***************************************************************************)
(* The hub's routing information base (src/tunnel/rib.go) as a value and   *)
(* the operators that read and replace it.  Every Go method is one         *)
(* critical section of rib.mu, so every method is one operator from a RIB  *)
(* to a RIB; the state machines that call them are Rib and ControlHub.     *)
(*                                                                         *)
(* Prefix arithmetic is a parameter: Within[p] are the supernets that      *)
(* contain p and are no longer than it, AddrsOf[p] the addresses in p.     *)
(* Lists that the code treats as sets are sets: the entries of one claim   *)
(* message do not interact, and rev counts the entries that changed.       *)
(***************************************************************************)
EXTENDS Integers, FiniteSets

CONSTANTS
    Peers,          \* peer keys of the spokes
    Prefixes,       \* masked CIDRs
    Addrs,          \* tun addresses
    Within,         \* [Prefixes -> SUBSET Prefixes]
    AddrsOf,        \* [Prefixes -> SUBSET Addrs]
    StaticOrigin,   \* the Origin of a route from the hub's own configuration
    None,           \* no claim, no lan_allow row, no peer
    MaxAge          \* where a claim's age saturates

ASSUME PrefixAssumption ==
    /\ IsFiniteSet(Prefixes)
    /\ Within \in [Prefixes -> SUBSET Prefixes]
    /\ \A p \in Prefixes : p \in Within[p]
    /\ AddrsOf \in [Prefixes -> SUBSET Addrs]

ASSUME KeyAssumption == StaticOrigin \notin Peers /\ None \notin Peers

ASSUME AgeAssumption == MaxAge \in Nat

(***************************************************************************)
(* One route: who claimed it, the member an injected route's "via"         *)
(* resolved to, who may use it ({} is every member), and the ticks since   *)
(* its owner last announced it.                                            *)
(***************************************************************************)
Claim == [origin : Peers \cup {StaticOrigin}, via : Peers \cup {None},
          allow : SUBSET Peers, age : 0..MaxAge]

Member == [ip : Addrs, key : Peers, direct : BOOLEAN, disabled : BOOLEAN]

ASSUME NoneAssumption == None \notin Claim /\ \A S \in SUBSET Prefixes : S # None

RibState == [rev     : Nat,
             claims  : [Prefixes -> Claim \cup {None}],
             allow   : [Peers -> {None} \cup SUBSET Prefixes],
             members : SUBSET Member]

NewRib(rows) == [rev     |-> 1,
                 claims  |-> [p \in Prefixes |-> None],
                 allow   |-> rows,
                 members |-> {}]

Taken(r, p)      == r.claims[p] # None
Static(r, p)     == Taken(r, p) /\ r.claims[p].origin = StaticOrigin
Dynamic(r, p)    == Taken(r, p) /\ r.claims[p].origin # StaticOrigin
HeldBy(r, o, p)  == Taken(r, p) /\ r.claims[p].origin = o

(* The two gates of a claim: lan_allow, and no member's own tun address.   *)
Approves(allow, o, p) == allow[o] # None /\ Within[p] \cap allow[o] # {}

MemberIn(members, p) == {m \in members : m.ip \in AddrsOf[p]}

(***************************************************************************)
(* Why the RIB turns (o, p) down, in the order applyClaim asks; "" is      *)
(* approval.                                                               *)
(***************************************************************************)
ApprovalRefusal(r, o, p) ==
    CASE r.allow[o] = None              -> "no-allow-row"
      [] r.allow[o] = {}                -> "empty-allow"
      [] OTHER -> IF Approves(r.allow, o, p) THEN "" ELSE "outside-allow"

(* Mutant: a prefix another spoke holds is no obstacle.                    *)
RefusalUncontested(r, o, p) ==
    IF ApprovalRefusal(r, o, p) # "" THEN ApprovalRefusal(r, o, p)
    ELSE IF MemberIn(r.members, p) # {} THEN "covers-member"
    ELSE IF Static(r, p) THEN "hub-own-route"
    ELSE ""

Refusal(r, o, p) ==
    IF ApprovalRefusal(r, o, p) # "" THEN ApprovalRefusal(r, o, p)
    ELSE IF MemberIn(r.members, p) # {} THEN "covers-member"
    ELSE IF Static(r, p) THEN "hub-own-route"
    ELSE IF Taken(r, p) THEN "taken-by-peer"
    ELSE ""

Announced(o) == [origin |-> o, via |-> None, allow |-> {}, age |-> 0]

Refreshed(c) == [c EXCEPT !.age = 0]

(* r without the routes of gone, one rev per route removed.                *)
Without(r, gone) ==
    [r EXCEPT !.claims = [p \in Prefixes |-> IF p \in gone THEN None ELSE @[p]],
              !.rev    = @ + Cardinality(gone)]

(***************************************************************************)
(* applyClaim: withdrawals first (a replacing message withdraws what it    *)
(* leaves out, a drop list what it names), and only o's own claims; then   *)
(* every added prefix o already holds is refreshed without asking again,   *)
(* and every other one is taken if nothing refuses it.                     *)
(***************************************************************************)
Withdrawn(r, o, add, drop, replace) ==
    {p \in Prefixes : HeldBy(r, o, p) /\ (p \in drop \/ (replace /\ p \notin add))}

Granted(r, o, add) ==
    {p \in add : ~HeldBy(r, o, p) /\ Refusal(r, o, p) = ""}

(* Mutant: a prefix already held is left as it is, age included.           *)
AnnounceNew(r, o, add) ==
    [r EXCEPT !.claims = [p \in Prefixes |->
                            IF p \in Granted(r, o, add) THEN Announced(o) ELSE @[p]],
              !.rev    = @ + Cardinality(Granted(r, o, add))]

Announce(r, o, add) ==
    [r EXCEPT !.claims = [p \in Prefixes |->
                            IF p \in Granted(r, o, add) THEN Announced(o)
                            ELSE IF p \in add /\ HeldBy(r, o, p)
                                 THEN Refreshed(@[p])
                                 ELSE @[p]],
              !.rev    = @ + Cardinality(Granted(r, o, add))]

ApplyClaims(r, o, add, drop, replace) ==
    Announce(Without(r, Withdrawn(r, o, add, drop, replace)), o, add)

(* Mutant: a new membership that keeps the rev.                            *)
WithMembersSilently(r, ms) == [r EXCEPT !.members = ms]

(* SetMembers: an identical list is not a change.                          *)
WithMembers(r, ms) ==
    IF ms = r.members THEN r ELSE [r EXCEPT !.members = ms, !.rev = @ + 1]

(* Mutants: new rows over the old routes; the table rebuilt empty.         *)
WithAllowForNewClaims(r, rows) == [r EXCEPT !.allow = rows, !.rev = @ + 1]

WithAllowFromScratch(r, rows) ==
    [r EXCEPT !.allow = rows, !.claims = [p \in Prefixes |-> None], !.rev = @ + 1]

(* SetAllow: the dynamic routes the new rows no longer approve leave now,  *)
(* and the rev moves once whatever happened.                               *)
WithAllow(r, rows) ==
    LET gone == {p \in Prefixes :
                   Dynamic(r, p) /\ ~Approves(rows, r.claims[p].origin, p)}
    IN  [r EXCEPT !.allow  = rows,
                  !.claims = [p \in Prefixes |-> IF p \in gone THEN None ELSE @[p]],
                  !.rev    = @ + 1]

(* Mutants: a pass that stops at its first claim; one that looks for the   *)
(* claims whose TTL runs out on this very tick.                            *)
QuietFirst(r, ttl) ==
    LET quiet == {p \in Prefixes : Dynamic(r, p) /\ r.claims[p].age > ttl}
    IN  IF quiet = {} THEN {} ELSE {CHOOSE p \in quiet : TRUE}

QuietExactly(r, ttl) == {p \in Prefixes : Dynamic(r, p) /\ r.claims[p].age = ttl + 1}

(* Withdraw: the dynamic claims that have gone quiet for longer than ttl.  *)
Quiet(r, ttl) == {p \in Prefixes : Dynamic(r, p) /\ r.claims[p].age > ttl}

(***************************************************************************)
(* AddStatic: "via" is resolved to a member key when the route is added,   *)
(* and a via no member holds is an error.  A route that already says the   *)
(* same thing is left alone; anything else on the prefix is displaced.     *)
(***************************************************************************)
Resolves(r, via) == via = None \/ \E m \in r.members : m.ip = via

MemberKey(r, via) ==
    IF via = None THEN None ELSE (CHOOSE m \in r.members : m.ip = via).key

SameRoute(r, p, k, allow) ==
    Static(r, p) /\ r.claims[p].via = k /\ r.claims[p].allow = allow

WithStatic(r, p, k, allow) ==
    IF SameRoute(r, p, k, allow) THEN r
    ELSE [r EXCEPT !.claims[p] = [origin |-> StaticOrigin, via |-> k,
                                  allow |-> allow, age |-> 0],
                   !.rev       = @ + 1]

(* One tick of the clock; the age of an injected route is never read.      *)
Older(c) == [c EXCEPT !.age = @ + 1]

Aged(r) ==
    [r EXCEPT !.claims = [p \in Prefixes |->
        IF Dynamic(r, p) /\ r.claims[p].age < MaxAge THEN Older(r.claims[p])
        ELSE r.claims[p]]]

(* What a spoke may know of a RIB, and the hub's own table.                *)
Entry(c) == IF c = None THEN None ELSE [origin |-> c.origin, allow |-> c.allow]

Snapshot(r) == [rev     |-> r.rev,
                claims  |-> [p \in Prefixes |-> Entry(r.claims[p])],
                members |-> r.members]

Carrier(c) == IF c.origin = StaticOrigin THEN c.via ELSE c.origin

(* installRoutes leaves out a route nobody carries.                        *)
Routes(r) ==
    [p \in Prefixes |->
        IF Taken(r, p) /\ Carrier(r.claims[p]) # None
        THEN [peer |-> Carrier(r.claims[p]), allow |-> r.claims[p].allow]
        ELSE None]
=============================================================================
