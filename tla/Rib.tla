-------------------------------- MODULE Rib --------------------------------
(***************************************************************************)
(* The RIB as a state machine: every method of src/tunnel/rib.go in any    *)
(* order, with the clock its claims age by and the sweep that withdraws    *)
(* the quiet ones (controlHub.sweep, src/tunnel/ctrlhub.go).               *)
(***************************************************************************)
EXTENDS RibTable

CONSTANTS
    Policies,       \* lan_allow policies an operator may save
    Memberships,    \* memberships the authorizer may report
    Vias,           \* via addresses of injected routes (None: no via)
    StaticAllows,   \* allow lists of injected routes
    TTL,            \* claimTTL, in ticks
    SweepInterval,  \* claimSweepInterval, in ticks
    MaxRev          \* bound: operations stop at this rev

ASSUME InputAssumption ==
    /\ Policies \subseteq [Peers -> {None} \cup SUBSET Prefixes]
    /\ Memberships \subseteq SUBSET Member
    /\ Vias \subseteq Addrs \cup {None}
    /\ StaticAllows \subseteq SUBSET Peers

ASSUME TimeAssumption == TTL \in Nat /\ SweepInterval \in Nat \ {0} /\ MaxRev \in Nat

VARIABLES
    rib,        \* the table
    sweepIn     \* ticks until the sweep's ticker fires

vars == <<rib, sweepIn>>

Init ==
    /\ \E rows \in Policies : rib = NewRib(rows)
    /\ sweepIn = SweepInterval

Bounded == rib.rev < MaxRev

SetMembers(ms) ==
    /\ Bounded
    /\ rib' = WithMembers(rib, ms)
    /\ UNCHANGED sweepIn

SetAllow(rows) ==
    /\ Bounded
    /\ rib' = WithAllow(rib, rows)
    /\ UNCHANGED sweepIn

ApplyClaim(o, add, drop) ==
    /\ Bounded
    /\ rib' = ApplyClaims(rib, o, add, drop, FALSE)
    /\ UNCHANGED sweepIn

ReplaceClaim(o, add, drop) ==
    /\ Bounded
    /\ rib' = ApplyClaims(rib, o, add, drop, TRUE)
    /\ UNCHANGED sweepIn

AddStatic(p, via, allow) ==
    /\ Bounded
    /\ Resolves(rib, via)
    /\ rib' = WithStatic(rib, p, MemberKey(rib, via), allow)
    /\ UNCHANGED sweepIn

(* The sweep runs when its ticker fires, before the clock moves on.        *)
Sweep ==
    /\ sweepIn = 0
    /\ rib' = Without(rib, Quiet(rib, TTL))
    /\ sweepIn' = SweepInterval

(* Mutant: the clock does not wait for the sweep.                          *)
TickPastSweep ==
    /\ rib' = Aged(rib)
    /\ sweepIn' = sweepIn - 1

Tick ==
    /\ sweepIn > 0
    /\ rib' = Aged(rib)
    /\ sweepIn' = sweepIn - 1

Next ==
    \/ \E ms \in Memberships : SetMembers(ms)
    \/ \E rows \in Policies : SetAllow(rows)
    \/ \E o \in Peers, add, drop \in SUBSET Prefixes :
          ApplyClaim(o, add, drop) \/ ReplaceClaim(o, add, drop)
    \/ \E p \in Prefixes, via \in Vias, allow \in StaticAllows : AddStatic(p, via, allow)
    \/ Sweep
    \/ Tick

Spec == Init /\ [][Next]_vars

-----------------------------------------------------------------------------
(* The table, the rows and the membership hold what their types say.       *)
TypeOK == rib \in RibState /\ sweepIn \in 0..SweepInterval

(***************************************************************************)
(* Every dynamic route in force is one its origin's current lan_allow row  *)
(* approves, whatever was saved since it was claimed: a re-asserted claim  *)
(* is refreshed without being approved again (applyClaim), so a tightened  *)
(* policy has to take the route out itself (SetAllow).                     *)
(***************************************************************************)
RoutesApproved ==
    \A p \in Prefixes : Dynamic(rib, p) => Approves(rib.allow, rib.claims[p].origin, p)

(***************************************************************************)
(* No dynamic route outlives its owner's last assertion by more than the   *)
(* TTL and one sweep period (claimTTL, claimSweepInterval).                *)
(***************************************************************************)
NoneOutlivesSweep ==
    \A p \in Prefixes : Dynamic(rib, p) => rib.claims[p].age + sweepIn <= TTL + SweepInterval

(***************************************************************************)
(* First wins: a dynamic route never passes from one spoke to another in   *)
(* one operation; only an injected route displaces it (applyClaim,         *)
(* refusalTakenByPeer).                                                    *)
(***************************************************************************)
FirstWins ==
    [][\A p \in Prefixes :
         Dynamic(rib, p) /\ Dynamic(rib', p)
            => rib'.claims[p].origin = rib.claims[p].origin]_vars

(***************************************************************************)
(* An injected route is never withdrawn or displaced by a claim, a drop, a *)
(* policy save or the sweep: the hub's own routes only ever change into    *)
(* other injected routes.                                                  *)
(***************************************************************************)
StaticStays ==
    [][\A p \in Prefixes : Static(rib, p) => Static(rib', p)]_vars

(***************************************************************************)
(* A rev names one content: a step that changes anything a spoke or the    *)
(* hub's own table is built from advances the rev, and a rev never goes    *)
(* back.  publish pushes on a rev change and on nothing else.              *)
(***************************************************************************)
RevNamesContent ==
    [][/\ rib'.rev >= rib.rev
       /\ rib'.rev = rib.rev
            => Snapshot(rib') = Snapshot(rib) /\ Routes(rib') = Routes(rib)]_vars

(***************************************************************************)
(* What one operation may never do to the table, whoever runs it: pass a   *)
(* route between spokes, take out one of the hub's own, or change what was *)
(* published under a rev (applyClaim, SetAllow, SetStatic, WithMembers).   *)
(***************************************************************************)
RouteSteps == FirstWins /\ StaticStays /\ RevNamesContent

(***************************************************************************)
(* "a claim may not swallow a member's tun address, and an injected        *)
(* route's via resolves against it.  Both change when a row changes"       *)
(* (src/tunnel/tun.go:887-889): no dynamic route in force covers a         *)
(* member's tun address.                                                   *)
(***************************************************************************)
NoRouteCoversMember ==
    \A p \in Prefixes : Dynamic(rib, p) => MemberIn(rib.members, p) = {}
=============================================================================
