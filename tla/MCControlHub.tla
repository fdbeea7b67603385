---------------------------- MODULE MCControlHub ----------------------------
(* One spoke, its LAN, and a route of the hub's own. *)
EXTENDS ControlHub, TLC

CONSTANTS a, lan, own, ipA, ipB

MCWithin == [p \in Prefixes |-> {p}]
MCAddrsOf == [p \in Prefixes |-> {}]
MCPolicy == [o \in Peers |-> Prefixes]
NoRoutes == <<>>
OwnRoute == [p \in {own} |-> ipA]
MCSeats == {[ip |-> ipA, key |-> a]}
MCShares == {Prefixes, {}}

Deny == [allow |-> [o \in Peers |-> {}]]
Permit == [allow |-> [o \in Peers |-> {lan}]]
Reseat == [seats |-> {[ip |-> ipB, key |-> a]}]
Remove == [peers |-> Peers \ {a}, off |-> {}]
Disable == [peers |-> Peers, off |-> {a}]
CloseHub == [close |-> TRUE]

NoCalls == <<>>
SinkCalls == <<Deny, Permit>>
RemoveCalls == <<Remove>>
ReseatCalls == <<Reseat>>
LifecycleCalls == <<Deny, Reseat, Disable, CloseHub>>
=============================================================================
