------------------------------ MODULE ExtSmux ------------------------------
(***************************************************************************)
(* One stream of the smux session that the browser extension serves        *)
(* (src/extension/lib/smux.js), from the relay's SYN until it is removed.   *)
(* The streams of a session share only the transport and its end.  The     *)
(* relay's end is the Go library, modelled from what smux.js says of it.   *)
(*                                                                         *)
(* Data is counted in units; the unit a frame carries is its number in the *)
(* order in which it was written.  A promise that has been resolved and    *)
(* whose continuation has not run yet is a state of its own: every await   *)
(* of the code is a point at which other handlers may run.                 *)
(***************************************************************************)
EXTENDS Integers, Sequences, FiniteSets

CONSTANTS
  InitialWindow,         \* INITIAL_PEER_WINDOW, in units
  StreamBuffer,          \* MAX_STREAM_BUFFER, in units
  MaxFrame,              \* MAX_FRAME_SIZE, in units
  MaxOut,                \* bound: units the program writes
  MaxIn                  \* bound: units the relay pushes

ASSUME SmuxAssumption ==
  /\ {InitialWindow, StreamBuffer, MaxFrame} \subseteq Nat \ {0}
  /\ InitialWindow <= StreamBuffer
  /\ {MaxOut, MaxIn} \subseteq Nat

VARIABLES
  st,        \* StreamState, and the one read() that may be pending on it
  tail,      \* _writeTail: the writes and the close chained to it, oldest first
  session,   \* "up" or "closed": SmuxServer._closed
  toUs,      \* frames on their way from the relay
  toPeer,    \* frames on their way to the relay
  peer,      \* the relay's end of the stream
  accepted,  \* units write() took
  cut,       \* a forced close, the relay's close or the session's end
  appRead    \* the units read() returned; the program stops at the first null

smuxVars == <<st, tail, session, toUs, toPeer, peer, accepted, cut, appRead>>

UpdThreshold == StreamBuffer \div 2
Least(a, b) == IF a < b THEN a ELSE b
Units(lo, n) == [i \in 1..n |-> lo + i - 1]

Psh(data) == [cmd |-> "PSH", data |-> data]
Syn(data) == [cmd |-> "SYN", data |-> data]
Upd(consumed, window) == [cmd |-> "UPD", consumed |-> consumed, window |-> window]
Fin == [cmd |-> "FIN"]

\* n units from number lo on, in frames of at most MaxFrame
Frames(lo, n) ==
  [i \in 1..((n + MaxFrame - 1) \div MaxFrame) |->
     Psh(Units(lo + (i - 1) * MaxFrame, Least(MaxFrame, n - (i - 1) * MaxFrame)))]

FreshStream ==
  [reg |-> TRUE, closed |-> FALSE, closing |-> FALSE, remoteClosed |-> FALSE,
   queue |-> <<>>, reading |-> "idle", chunk |-> <<>>, numRead |-> 0,
   updIncr |-> 0, numWritten |-> 0, peerConsumed |-> 0,
   peerWindow |-> InitialWindow, waiting |-> "no"]

Unopened == [FreshStream EXCEPT !.reg = FALSE, !.reading = "none"]

FreshPeer == [open |-> FALSE, dropped |-> FALSE, sent |-> 0, seen |-> 0,
              win |-> InitialWindow, got |-> <<>>, read |-> 0, incr |-> 0,
              fin |-> FALSE]

SmuxInit ==
  /\ st = Unopened /\ tail = <<>> /\ session = "up"
  /\ toUs = <<>> /\ toPeer = <<>> /\ peer = FreshPeer
  /\ accepted = 0 /\ cut = FALSE /\ appRead = <<>>

Send(frames) == toPeer' = IF session = "up" THEN toPeer \o frames ELSE toPeer

WriteWin(s) == s.peerWindow - (s.numWritten - s.peerConsumed)

\* read() and write() promises that are pending are resolved, without a value
Woken(s) == [s EXCEPT !.reading = IF @ = "waiting" THEN "null" ELSE @,
                      !.waiting = IF @ = "waiting" THEN "woken" ELSE @]

PushData(s, data) ==
  IF s.closed THEN s
  ELSE IF s.reading = "waiting"
       THEN [s EXCEPT !.reading = "chunk", !.chunk = data]
       ELSE [s EXCEPT !.queue = Append(@, data)]

---------------------------------------------------------------------------
(* Frames from the relay.                                                  *)

HandleSyn(f) ==
  st' = IF f.data = <<>> THEN FreshStream ELSE PushData(FreshStream, f.data)

HandlePsh(f) == st' = IF st.reg THEN PushData(st, f.data) ELSE st

HandleFin ==
  st' = IF st.reg THEN Woken([st EXCEPT !.remoteClosed = TRUE]) ELSE st

(* Mutant: new credit does not wake the write that waits for it *)
HandleUpdSilently(f) ==
  st' = IF st.reg THEN [st EXCEPT !.peerConsumed = f.consumed, !.peerWindow = f.window] ELSE st

HandleUpd(f) ==
  LET s == [st EXCEPT !.peerConsumed = f.consumed, !.peerWindow = f.window]
  IN st' = IF ~st.reg THEN st
           ELSE IF s.waiting = "waiting" /\ WriteWin(s) > 0
                THEN [s EXCEPT !.waiting = "woken"] ELSE s

Feed ==
  /\ session = "up" /\ toUs # <<>>
  /\ toUs' = Tail(toUs)
  /\ LET f == Head(toUs) IN
     \/ f.cmd = "SYN" /\ HandleSyn(f) /\ UNCHANGED cut
     \/ f.cmd = "PSH" /\ HandlePsh(f) /\ UNCHANGED cut
     \/ f.cmd = "FIN" /\ HandleFin /\ cut' = TRUE
     \/ f.cmd = "UPD" /\ HandleUpd(f) /\ UNCHANGED cut
  /\ UNCHANGED <<tail, session, toPeer, peer, accepted, appRead>>

\* close() of the session: by the program, the transport or a silent link
CloseSession ==
  /\ session = "up" /\ st.reading # "none"
  /\ session' = "closed"
  /\ st' = IF st.reg THEN [Woken(st) EXCEPT !.closed = TRUE, !.closing = TRUE, !.reg = FALSE] ELSE st
  /\ cut' = TRUE
  /\ UNCHANGED <<tail, toUs, toPeer, peer, accepted, appRead>>

---------------------------------------------------------------------------
(* read(): one loop of the program reads until it is given null.           *)

(* Mutant: no credit after the first read, only past the threshold *)
AccountLate(s, chunk) ==
  LET n == s.numRead + Len(chunk)
      incr == s.updIncr + Len(chunk)
      credit == incr >= UpdThreshold
  IN /\ st' = [s EXCEPT !.numRead = n, !.updIncr = IF credit THEN 0 ELSE incr,
                        !.reading = "idle", !.chunk = <<>>]
     /\ Send(IF credit THEN <<Upd(n, StreamBuffer)>> ELSE <<>>)
     /\ appRead' = appRead \o chunk

Account(s, chunk) ==
  LET n == s.numRead + Len(chunk)
      incr == s.updIncr + Len(chunk)
      credit == n = Len(chunk) \/ incr >= UpdThreshold
  IN /\ st' = [s EXCEPT !.numRead = n, !.updIncr = IF credit THEN 0 ELSE incr,
                        !.reading = "idle", !.chunk = <<>>]
     /\ Send(IF credit THEN <<Upd(n, StreamBuffer)>> ELSE <<>>)
     /\ appRead' = appRead \o chunk

Read ==
  /\ st.reading = "idle"
  /\ \/ /\ st.closed \/ (st.queue = <<>> /\ st.remoteClosed)
        /\ st' = [st EXCEPT !.reading = "eof"]
        /\ UNCHANGED <<toPeer, appRead>>
     \/ /\ ~st.closed /\ st.queue # <<>>
        /\ Account([st EXCEPT !.queue = Tail(@)], Head(st.queue))
     \/ /\ ~st.closed /\ st.queue = <<>> /\ ~st.remoteClosed
        /\ st' = [st EXCEPT !.reading = "waiting"]
        /\ UNCHANGED <<toPeer, appRead>>
  /\ UNCHANGED <<tail, session, toUs, peer, accepted, cut>>

ReadResumes ==
  /\ \/ st.reading = "chunk" /\ Account(st, st.chunk)
     \/ st.reading = "null" /\ st' = [st EXCEPT !.reading = "eof"] /\ UNCHANGED <<toPeer, appRead>>
  /\ UNCHANGED <<tail, session, toUs, peer, accepted, cut>>

---------------------------------------------------------------------------
(* write() and close(): tasks on the write tail.                           *)

Write(n) ==
  /\ st.reading # "none" /\ ~(st.closed \/ st.closing \/ st.remoteClosed)
  /\ accepted + n <= MaxOut
  /\ accepted' = accepted + n
  /\ tail' = Append(tail, [op |-> "write", lo |-> accepted + 1, left |-> n])
  /\ UNCHANGED <<st, session, toUs, toPeer, peer, cut, appRead>>

\* the oldest write, until it is done, fails or has to wait for the window
WriteSync ==
  /\ tail # <<>> /\ Head(tail).op = "write" /\ st.waiting # "waiting"
  /\ LET t == Head(tail)
         n == Least(WriteWin(st), t.left)
     IN \/ /\ st.closed \/ st.remoteClosed
           /\ tail' = Tail(tail)
           /\ st' = [st EXCEPT !.waiting = "no"]
           /\ UNCHANGED toPeer
        \/ /\ ~st.closed /\ ~st.remoteClosed /\ n = t.left
           /\ tail' = Tail(tail)
           /\ st' = [st EXCEPT !.waiting = "no", !.numWritten = @ + n]
           /\ Send(Frames(t.lo, n))
        \/ /\ ~st.closed /\ ~st.remoteClosed /\ n < t.left
           /\ LET m == IF n > 0 THEN n ELSE 0 IN
              /\ tail' = [tail EXCEPT ![1] = [t EXCEPT !.lo = @ + m, !.left = @ - m]]
              /\ st' = [st EXCEPT !.waiting = "waiting", !.numWritten = @ + m]
              /\ Send(Frames(t.lo, m))
  /\ UNCHANGED <<session, toUs, peer, accepted, cut, appRead>>

(* Mutant: close() does not wait for the writes chained before it *)
CloseUnchained ==
  /\ st.reading # "none" /\ ~st.closed /\ ~st.closing
  /\ st' = [Woken(st) EXCEPT !.closing = TRUE]
  /\ tail' = <<[op |-> "close"]>> \o tail
  /\ UNCHANGED <<session, toUs, toPeer, peer, accepted, cut, appRead>>

Close ==
  /\ st.reading # "none" /\ ~st.closed /\ ~st.closing
  /\ st' = [Woken(st) EXCEPT !.closing = TRUE]
  /\ tail' = Append(tail, [op |-> "close"])
  /\ UNCHANGED <<session, toUs, toPeer, peer, accepted, cut, appRead>>

\* close() again before the first has drained: nothing refuses it
CloseAgain ==
  /\ st.closing /\ ~st.closed
  /\ Cardinality({i \in 1..Len(tail) : tail[i].op = "close"}) = 1
  /\ st' = Woken(st)
  /\ tail' = Append(tail, [op |-> "close"])
  /\ UNCHANGED <<session, toUs, toPeer, peer, accepted, cut, appRead>>

FinishClose ==
  /\ tail # <<>> /\ Head(tail).op = "close"
  /\ tail' = Tail(tail)
  /\ st' = [st EXCEPT !.closed = TRUE, !.reg = FALSE]
  /\ Send(<<Fin>>)
  /\ UNCHANGED <<session, toUs, peer, accepted, cut, appRead>>

CloseForce ==
  /\ st.reading # "none" /\ ~st.closed
  /\ st' = [Woken(st) EXCEPT !.closed = TRUE, !.reg = FALSE]
  /\ cut' = TRUE
  /\ Send(<<Fin>>)
  /\ UNCHANGED <<tail, session, toUs, peer, accepted, appRead>>

---------------------------------------------------------------------------
(* The relay's end.                                                        *)

PeerOpen ==
  /\ ~peer.open
  /\ \E n \in 0..Least(1, MaxIn) :
       /\ toUs' = Append(toUs, Syn(Units(1, n)))
       /\ peer' = [peer EXCEPT !.open = TRUE, !.sent = n]
  /\ UNCHANGED <<st, tail, session, toPeer, accepted, cut, appRead>>

PeerPush ==
  /\ peer.open /\ ~peer.dropped /\ ~peer.fin
  /\ \E n \in 1..Least(MaxFrame, MaxIn - peer.sent) :
       /\ peer.sent + n - peer.seen <= peer.win
       /\ toUs' = Append(toUs, Psh(Units(peer.sent + 1, n)))
       /\ peer' = [peer EXCEPT !.sent = @ + n]
  /\ UNCHANGED <<st, tail, session, toPeer, accepted, cut, appRead>>

PeerReceive ==
  /\ toPeer # <<>>
  /\ toPeer' = Tail(toPeer)
  /\ LET f == Head(toPeer) IN
     peer' = IF peer.dropped \/ peer.fin THEN peer
             ELSE CASE f.cmd = "PSH" -> [peer EXCEPT !.got = @ \o f.data]
                    [] f.cmd = "UPD" -> [peer EXCEPT !.seen = f.consumed, !.win = f.window]
                    [] f.cmd = "FIN" -> [peer EXCEPT !.dropped = TRUE]
  /\ UNCHANGED <<st, tail, session, toUs, accepted, cut, appRead>>

\* the relay hands everything it holds to the visitor, and gives credit back
PeerRead ==
  /\ ~peer.dropped /\ ~peer.fin /\ Len(peer.got) > peer.read
  /\ LET n == Len(peer.got) - peer.read
         credit == peer.read = 0 \/ peer.incr + n >= UpdThreshold
     IN /\ peer' = [peer EXCEPT !.read = @ + n, !.incr = IF credit THEN 0 ELSE @ + n]
        /\ toUs' = IF credit THEN Append(toUs, Upd(peer.read + n, StreamBuffer)) ELSE toUs
  /\ UNCHANGED <<st, tail, session, toPeer, accepted, cut, appRead>>

\* the relay closes the stream: the visitor left, or it answers our FIN
PeerFin ==
  /\ peer.open /\ ~peer.fin
  /\ peer' = [peer EXCEPT !.fin = TRUE]
  /\ toUs' = Append(toUs, Fin)
  /\ UNCHANGED <<st, tail, session, toPeer, accepted, cut, appRead>>

---------------------------------------------------------------------------
SmuxNext ==
  \/ Feed \/ CloseSession \/ Read \/ ReadResumes
  \/ \E n \in 1..2 : Write(n)
  \/ WriteSync \/ Close \/ CloseAgain \/ FinishClose \/ CloseForce
  \/ PeerOpen \/ PeerPush \/ PeerReceive \/ PeerRead \/ PeerFin

(* Fairness: the browser runs a resolved promise and delivers a received    *)
(* frame; the program reads until null (relayVisitorFrames, _readHTTP); the *)
(* relay drains its socket and passes on what the visitor sends.            *)
SmuxFairness ==
  /\ WF_smuxVars(Feed) /\ WF_smuxVars(Read) /\ WF_smuxVars(ReadResumes) /\ WF_smuxVars(WriteSync)
  /\ WF_smuxVars(FinishClose) /\ WF_smuxVars(PeerOpen) /\ WF_smuxVars(PeerPush)
  /\ WF_smuxVars(PeerReceive) /\ WF_smuxVars(PeerRead)

SmuxSpec == SmuxInit /\ [][SmuxNext]_smuxVars /\ SmuxFairness

---------------------------------------------------------------------------
TypeOK ==
  /\ session \in {"up", "closed"} /\ cut \in BOOLEAN
  /\ accepted \in 0..MaxOut /\ Len(appRead) <= MaxIn
  /\ st.reading \in {"none", "idle", "waiting", "chunk", "null", "eof"}
  /\ st.waiting \in {"no", "waiting", "woken"}
  /\ st.numWritten <= accepted

(* What the visitor receives: every unit write() accepted, once and in      *)
(* order, whatever writers, credit frames and close() interleave, and a FIN *)
(* after a graceful close only behind all of it (smux.js: "this guarantees  *)
(* the FIN is sent AFTER the pending PSH data").                            *)
Pipe == INSTANCE ExtPipe WITH received <- peer.got, ended <- peer.dropped
ImplementsPipe == Pipe!Spec

(* Credit is never lost: while nobody closes the stream and the program     *)
(* keeps reading, everything the relay has to push is read.  The initial    *)
(* window is smaller than the threshold at which credit is sent, so this    *)
(* rests on the credit that follows the first read.                         *)
InboundFlows == <>(Len(appRead) = MaxIn \/ st.closing \/ st.closed \/ cut \/ peer.fin)

(* A graceful close ends: however small the window was when close() came,   *)
(* the writes before it drain and the stream is closed.                     *)
CloseEnds == st.closing ~> st.closed
=============================================================================
