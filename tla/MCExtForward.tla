---------------------------- MODULE MCExtForward ----------------------------
EXTENDS ExtForward, TLC

CONSTANTS s1, s2

\* streams of two sessions have the same id as often as not
JustOne == s1 :> 1
TwoSessions == (s1 :> 1) @@ (s2 :> 1)

Requests == [upgrade : BOOLEAN, authorized : BOOLEAN, safe : BOOLEAN, body : Bodies]
AllRequests == {r \in Requests : r.safe \/ r.upgrade => r.body = "none"}
Upgrades == {r \in AllRequests : r.upgrade /\ r.authorized /\ r.safe}

\* a client that keeps to the protocol, but for a continuation of nothing and a
\* length nobody supports
Frame(last, op, payload) == [fin |-> last, op |-> op, masked |-> TRUE, payload |-> payload]
Whole(op, payload) == Frame(TRUE, op, payload)
Part(op, n) == Frame(FALSE, op, <<n>>)

\* the talk of some frames, with more after them, that tells some messages
Says(frms, more, messages) ==
  LET bytes(f) == FrameOf(f.fin, f.op, f.masked, f.payload)
      sent[k \in 0..Len(frms)] == IF k = 0 THEN <<>> ELSE sent[k - 1] \o bytes(frms[k])
      told[k \in 0..Len(frms)] == IF k = 0 THEN NothingTold ELSE Follows(told[k - 1], frms[k])
  IN  [frames |-> frms, wire |-> sent[Len(frms)] \o more,
       ends |-> [k \in 0..Len(frms) |-> Len(sent[k])], told |-> told, messages |-> messages]
T1 == Message("text", <<1>>)
SomeTalks ==
  {Says(<<Whole("text", <<1>>), Whole("binary", <<2, 2>>)>>, <<>>, <<T1, Message("binary", <<2, 2>>)>>),
   Says(<<Part("text", 1), Whole("ping", <<>>), Whole("cont", <<2>>)>>, <<>>, <<Message("text", <<1, 2>>)>>),
   Says(<<Part("binary", 1), Part("cont", 2), Whole("cont", <<3>>)>>, <<>>, <<Message("binary", <<1, 2, 3>>)>>),
   Says(<<Whole("binary", <<1, 2, 3>>), Whole("close", <<>>)>>, <<>>, <<Message("binary", <<1, 2, 3>>)>>),
   Says(<<Whole("cont", <<1>>), Whole("text", <<2>>)>>, <<>>, <<>>),
   Says(<<>>, HugeFrame \o <<1, 2>>, <<>>)}
OneWord == {Says(<<Whole("text", <<1>>)>>, <<>>, <<T1>>)}
=============================================================================
