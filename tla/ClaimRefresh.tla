---------------------------- MODULE ClaimRefresh ----------------------------
(***************************************************************************)
(* The two halves of a claim's lifetime against one clock: the hub sweeps  *)
(* every SweepInterval the claims not announced for more than TTL          *)
(* (controlHub.sweep, src/tunnel/ctrlhub.go), a connected spoke re-sends   *)
(* its whole claim every RefreshInterval, and every new session starts     *)
(* with it (controlSession and keepClaimFresh,                             *)
(* src/tunnel/netview_router.go).                                          *)
(*                                                                         *)
(* The rev is left out: nothing here reads it.  A refresh that cannot be   *)
(* written ends its session; one that is written may still be held up in   *)
(* the stream, and then the hub reads it late or together with a later     *)
(* one.  The sweep, which also writes netviews under a deadline, may run   *)
(* late.                                                                   *)
(***************************************************************************)
EXTENDS RibTable

CONSTANTS
    ShareLAN,           \* [Peers -> SUBSET Prefixes], each spoke's share_lan
    Rows,               \* the hub's lan_allow
    ClaimTTL,                \* claimTTL
    ClaimSweepInterval,      \* claimSweepInterval
    RefreshInterval,    \* claimRefreshInterval
    MaxStall,           \* bound: how late a sweep may run
    MaxHeld             \* bound: refreshes the hub has not read yet

ASSUME SessionAssumption ==
    /\ ShareLAN \in [Peers -> SUBSET Prefixes]
    /\ Rows \in [Peers -> {None} \cup SUBSET Prefixes]
    /\ \A o \in Peers : \A p \in ShareLAN[o] : Approves(Rows, o, p)

(* The refreshes that may be held up still leave one within the TTL.       *)
ASSUME IntervalAssumption ==
    /\ ClaimTTL \in Nat /\ ClaimSweepInterval \in Nat /\ RefreshInterval \in Nat
    /\ MaxStall \in Nat /\ MaxStall < ClaimSweepInterval
    /\ MaxHeld \in Nat /\ (MaxHeld + 1) * RefreshInterval <= ClaimTTL

VARIABLES
    table,      \* the hub's RIB
    nextSweep,  \* ticks until the sweep is due; negative when it is late
    connected,  \* spokes with a control session
    refreshIn,  \* ticks until a connected spoke's next refresh
    held        \* refreshes of a spoke that are written, and not read

refreshVars == <<table, nextSweep, connected, refreshIn, held>>

Unversioned(r) == [r EXCEPT !.rev = 0]

RefreshInit ==
    /\ table = Unversioned(NewRib(Rows))
    /\ nextSweep = ClaimSweepInterval
    /\ connected = {}
    /\ refreshIn = [o \in Peers |-> RefreshInterval]
    /\ held = [o \in Peers |-> 0]

(* A session's first claim replaces whatever its origin held.              *)
Connect(o) ==
    /\ o \notin connected
    /\ connected' = connected \cup {o}
    /\ table' = Unversioned(ApplyClaims(table, o, ShareLAN[o], {}, TRUE))
    /\ refreshIn' = [refreshIn EXCEPT ![o] = RefreshInterval]
    /\ held' = [held EXCEPT ![o] = 0]
    /\ UNCHANGED nextSweep

Disconnect(o) ==
    /\ o \in connected
    /\ connected' = connected \ {o}
    /\ UNCHANGED <<table, nextSweep, refreshIn, held>>

Due(o) == o \in connected /\ refreshIn[o] = 0

(* Mutant: a refresh names only what the spoke holds already.              *)
RefreshHeld(o) ==
    /\ Due(o)
    /\ table' = Unversioned(ApplyClaims(table, o, {p \in ShareLAN[o] : HeldBy(table, o, p)}, {},
                                      FALSE))
    /\ refreshIn' = [refreshIn EXCEPT ![o] = RefreshInterval]
    /\ held' = [held EXCEPT ![o] = 0]
    /\ UNCHANGED <<nextSweep, connected>>

Refresh(o) ==
    /\ Due(o)
    /\ table' = Unversioned(ApplyClaims(table, o, ShareLAN[o], {}, FALSE))
    /\ refreshIn' = [refreshIn EXCEPT ![o] = RefreshInterval]
    /\ held' = [held EXCEPT ![o] = 0]
    /\ UNCHANGED <<nextSweep, connected>>

(* The write returns before the hub has read it.                           *)
HoldRefresh(o) ==
    /\ Due(o)
    /\ held[o] < MaxHeld
    /\ refreshIn' = [refreshIn EXCEPT ![o] = RefreshInterval]
    /\ held' = [held EXCEPT ![o] = @ + 1]
    /\ UNCHANGED <<table, nextSweep, connected>>

(* The hub reads what was held up, of a session that may have ended since. *)
ReadHeld(o) ==
    /\ held[o] > 0
    /\ table' = Unversioned(ApplyClaims(table, o, ShareLAN[o], {}, FALSE))
    /\ held' = [held EXCEPT ![o] = 0]
    /\ UNCHANGED <<nextSweep, connected, refreshIn>>

(* A write that fails closes the stream, which ends the session.           *)
RefreshFails(o) ==
    /\ Due(o)
    /\ connected' = connected \ {o}
    /\ UNCHANGED <<table, nextSweep, refreshIn, held>>

(* The ticker keeps its own schedule: a late sweep leaves a shorter wait.  *)
SweepClaims ==
    /\ nextSweep <= 0
    /\ table' = Unversioned(Without(table, Quiet(table, ClaimTTL)))
    /\ nextSweep' = nextSweep + ClaimSweepInterval
    /\ UNCHANGED <<connected, refreshIn, held>>

(* Mutant: a refresh that is due may be put off.                           *)
PassOverdue ==
    /\ nextSweep > -MaxStall
    /\ table' = Aged(table)
    /\ nextSweep' = nextSweep - 1
    /\ refreshIn' = [o \in Peers |-> IF o \in connected THEN refreshIn[o] - 1
                                     ELSE refreshIn[o]]
    /\ UNCHANGED <<connected, held>>

Pass ==
    /\ nextSweep > -MaxStall
    /\ \A o \in Peers : ~Due(o)
    /\ table' = Aged(table)
    /\ nextSweep' = nextSweep - 1
    /\ refreshIn' = [o \in Peers |-> IF o \in connected THEN refreshIn[o] - 1
                                     ELSE refreshIn[o]]
    /\ UNCHANGED <<connected, held>>

RefreshNext ==
    \/ \E o \in Peers :
          \/ Connect(o) \/ Disconnect(o)
          \/ Refresh(o) \/ HoldRefresh(o) \/ ReadHeld(o) \/ RefreshFails(o)
    \/ SweepClaims
    \/ Pass

RefreshFairness ==
    /\ WF_refreshVars(Pass)
    /\ WF_refreshVars(SweepClaims)
    /\ \A o \in Peers : WF_refreshVars(Refresh(o) \/ HoldRefresh(o) \/ RefreshFails(o))

RefreshSpec == RefreshInit /\ [][RefreshNext]_refreshVars /\ RefreshFairness

-----------------------------------------------------------------------------
RefreshTypeOK ==
    /\ table \in RibState
    /\ nextSweep \in (-MaxStall)..ClaimSweepInterval
    /\ connected \subseteq Peers
    /\ refreshIn \in [Peers -> 0..RefreshInterval]
    /\ held \in [Peers -> 0..MaxHeld]

(***************************************************************************)
(* A connected spoke's LAN is in the table: whatever the sweep does, its   *)
(* prefix is held, by it or by the spoke that claimed it first.  "20s      *)
(* beats the TTL with room for a couple of lost refreshes",                *)
(* src/tunnel/netview_router.go:286-287.                                   *)
(***************************************************************************)
ConnectedLanInstalled ==
    \A o \in connected : \A p \in ShareLAN[o] \ UNION {ShareLAN[q] : q \in Peers \ {o}} :
        HeldBy(table, o, p)

(***************************************************************************)
(* A spoke that went away blackholes its LAN for at most the TTL, one      *)
(* sweep period and the time a sweep may be late.                          *)
(***************************************************************************)
BlackholeBounded ==
    \A p \in Prefixes : Dynamic(table, p) => table.claims[p].age <= ClaimTTL + ClaimSweepInterval + MaxStall

(***************************************************************************)
(* A spoke that stays away leaves the table.                               *)
(***************************************************************************)
GoneSpokeWithdrawn ==
    \A o \in Peers : (o \notin connected)
        ~> (o \in connected \/ \A p \in Prefixes : ~HeldBy(table, o, p))

(***************************************************************************)
(* Two spokes with the same LAN: when the one that claimed it first stays  *)
(* away, the other's refresh takes it over without either reconnecting,    *)
(* because a refresh re-sends the whole claim.                             *)
(***************************************************************************)
ContestedLanFailsOver ==
    \A o \in Peers :
        <>[](connected = {o}) => <>[](\A p \in ShareLAN[o] : HeldBy(table, o, p))

(***************************************************************************)
(* The table follows the spokes that are there: the LAN of one that stays  *)
(* away is withdrawn, or goes to the other that has it too.                *)
(***************************************************************************)
LanFollowsSpoke == GoneSpokeWithdrawn /\ ContestedLanFailsOver
=============================================================================
