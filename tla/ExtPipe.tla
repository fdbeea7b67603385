------------------------------ MODULE ExtPipe ------------------------------
(***************************************************************************)
(* What one direction of a tunnel stream of the browser extension          *)
(* (src/extension/lib/smux.js) promises the program that writes to it: the  *)
(* peer receives what write() accepted, each unit once and in that order,  *)
(* and sees the end of the stream only when it has everything -- unless    *)
(* somebody cut the stream (a forced close, the peer's own close, the end  *)
(* of the session).                                                        *)
(***************************************************************************)
EXTENDS Naturals, Sequences

CONSTANT MaxOut          \* bound: units the program writes

VARIABLES
  accepted,              \* number of units write() accepted
  received,              \* the units the peer received
  cut,                   \* somebody gave up on the rest
  ended                  \* the peer was told that nothing follows

vars == <<accepted, received, cut, ended>>

Init == accepted = 0 /\ received = <<>> /\ cut = FALSE /\ ended = FALSE

Accept(n) ==
  /\ accepted + n <= MaxOut
  /\ accepted' = accepted + n
  /\ UNCHANGED <<received, cut, ended>>

Arrive(n) ==
  /\ ~ended
  /\ Len(received) + n <= accepted
  /\ received' = received \o [i \in 1..n |-> Len(received) + i]
  /\ UNCHANGED <<accepted, cut, ended>>

Cut ==
  /\ cut' = TRUE
  /\ UNCHANGED <<accepted, received, ended>>

End ==
  /\ cut \/ Len(received) = accepted
  /\ ended' = TRUE
  /\ UNCHANGED <<accepted, received, cut>>

Next == (\E n \in 1..MaxOut : Accept(n) \/ Arrive(n)) \/ Cut \/ End

Spec == Init /\ [][Next]_vars
=============================================================================
