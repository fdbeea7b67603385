---------------------------- MODULE NetviewFeed ----------------------------
(***************************************************************************)
(* What the control channel promises a spoke, with no streams, threads or  *)
(* locks: the hub's table has a rev that only grows, each spoke knows one  *)
(* of the revs there have been, never goes back to an older one, and ends  *)
(* up with the newest once the table stops changing.                       *)
(***************************************************************************)
EXTENDS Naturals

CONSTANT Spokes

VARIABLES
    rev,    \* the hub's
    seen    \* the newest rev each spoke installed, 0 for none

vars == <<rev, seen>>

Init == rev \in Nat \ {0} /\ seen = [o \in Spokes |-> 0]

Change ==
    /\ rev' \in Nat /\ rev' > rev
    /\ UNCHANGED seen

Install(o) ==
    /\ seen'[o] > seen[o] /\ seen'[o] <= rev
    /\ \A q \in Spokes \ {o} : seen'[q] = seen[q]
    /\ UNCHANGED rev

Next == Change \/ \E o \in Spokes : Install(o)

CatchesUp == \A o \in Spokes : []<>(seen[o] = rev)

Spec == Init /\ [][Next]_vars /\ CatchesUp
=============================================================================
