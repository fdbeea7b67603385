---------------------------------- MODULE MCWeb ----------------------------------
EXTENDS WebApp

SomeClasses == {Class("tunnel", "http"), Class("tunnel", "tun"), Class("entrypoint", "tun")}

\* the advanced settings, around the bounds of each check, in tenths of a second;
\* the readings that differ stand for a sum that is rounded up, a part of a
\* nanosecond that is cut off, and a duration past 2^63 nanoseconds
Alike(x) == [page |-> IF x = -1 THEN -1 ELSE 10 * x, daemon |-> IF x = -1 THEN -1 ELSE 10 * x]
Rounded == [page |-> 61, daemon |-> 60]
CutOff == [page |-> 1, daemon |-> 0]
TooLong == [page |-> 999, daemon |-> -1]
SomeForms ==
  {[NoForm EXCEPT !.mtu = x] : x \in {-1, 1199, 1200, 1452, 1453}}
  \union {[NoForm EXCEPT !.batch = x] : x \in {-1, 1, 65536, 65537}}
  \union {[NoForm EXCEPT !.keepAlive = x, !.idle = y] :
            x \in {Alike(n) : n \in {-1, 0, 6, 15}}, y \in {Alike(n) : n \in {0, 5, 6, 16}} \union {Rounded, TooLong}}
  \union {[NoForm EXCEPT !.interval = x, !.timeout = y] :
            x \in {Alike(n) : n \in {0, 2, 8}} \union {CutOff}, y \in {Alike(n) : n \in {-1, 0, 4, 5, 6, 15, 16}}}

SomeShares == [s \in Spokes |-> IF s = "s1" THEN {"a", "c"} ELSE {"a", "d"}]
=============================================================================
