----------------------------- MODULE MCExtTunnels -----------------------------
(* A small instance of ExtApp: one tunnel with two configurations; two      *)
(* tunnels whose counters the popup shows; two of the rules of older        *)
(* versions, of the same offset.                                            *)
EXTENDS ExtApp

CONSTANTS t1, t2

OneTunnel == {t1}
TwoTunnels == {t1, t2}
OneOffset == [t \in TwoTunnels |-> 7]

=============================================================================
