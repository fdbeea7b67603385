----------------------------- MODULE MCRibClaims -----------------------------
(***************************************************************************)
(* One behaviour is about the table alone (Rib), every operation of it in  *)
(* any order, or about the lifetime of the claims of two spokes            *)
(* (ClaimRefresh).  The two have their own variables; the one that is not  *)
(* looked at stays as it began.                                            *)
(*                                                                         *)
(* Two spokes, a wide prefix that holds a narrow one and both tun          *)
(* addresses, and a prefix apart from them.  Of the latter two, both       *)
(* spokes have the narrow one in their LANs and one has the other as well. *)
(***************************************************************************)
EXTENDS Rib, ClaimRefresh, TLC

CONSTANTS a, b, wide, lan, far, ipA, ipB

MCWithin == (wide :> {wide}) @@ (lan :> {lan, wide}) @@ (far :> {far})
MCAddrsOf == (wide :> {ipA, ipB}) @@ (lan :> {ipB}) @@ (far :> {})

Row(ra, rb) == [p \in Peers |-> IF p = a THEN ra ELSE rb]

MCPolicies == {Row({wide, far}, {wide}), Row({lan}, {far}), Row({}, None)}

Seat(ip, k, d) == [ip |-> ip, key |-> k, direct |-> d, disabled |-> FALSE]

MCMemberships == {{}, {Seat(ipA, a, FALSE)}, {Seat(ipA, a, TRUE), Seat(ipB, b, FALSE)}}

MCShareLAN == Row({far, lan}, {lan})
MCRows == Row({far, lan}, {lan})

VARIABLE scene      \* "table" or "lifetime"

MCInit == scene \in {"table", "lifetime"} /\ Init /\ RefreshInit
          /\ (scene = "lifetime" => rib.allow = Row({lan}, {far}))

MCNext ==
    \/ scene = "table" /\ Next /\ UNCHANGED <<refreshVars, scene>>
    \/ scene = "lifetime" /\ RefreshNext /\ UNCHANGED <<vars, scene>>

(* The fairness of ClaimRefresh, where it is what is looked at.            *)
MCFairness == scene = "lifetime" => RefreshFairness

MCSpec == MCInit /\ [][MCNext]_<<vars, refreshVars, scene>> /\ MCFairness
=============================================================================
