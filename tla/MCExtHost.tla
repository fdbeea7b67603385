------------------------------ MODULE MCExtHost ------------------------------
(* A small instance of ExtHost: one tunnel that asks for a prefix.         *)
EXTENDS ExtHost

CONSTANTS t1

OneTunnel == {t1}
LongPrefix == [t \in OneTunnel |-> <<5>>]
=============================================================================
