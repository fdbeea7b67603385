----------------------------- MODULE ExtForward -----------------------------
(***************************************************************************)
(* What the extension does with a stream that the relay opened: read the   *)
(* relay's response and the HTTP request (lib/tunnel-connection.js), check *)
(* the credentials, then answer from a fetch() or bridge a WebSocket       *)
(* (lib/forwarder.js), whose frames ExtWs decodes, counting bytes and      *)
(* connections (lib/tunnel-stats.js).                                      *)
(*                                                                         *)
(* A visitor's bytes are tokens: two of relay response, two of request     *)
(* head, then the body.  They arrive in chunks cut anywhere.  What goes to *)
(* the visitor is a sequence of whole writes; ExtSmux shows that writes    *)
(* arrive whole and in order.                                              *)
(***************************************************************************)
EXTENDS ExtWs, FiniteSets

CONSTANTS
  Streams,               \* streams, of one tunnel or of several
  Ids,                   \* smux stream ids; each session numbers its own
  IdOf,                  \* the smux id of a stream
  NoStream,              \* no WebSocket under an id
  Requested,             \* the requests visitors make
  MaxChunks,             \* bound: chunks a response body is piped in
  MaxQueued,             \* bound: chunks that wait to be read
  Talks,                 \* what visitors say: frames, and the messages these are
  MaxFrames              \* bound: WebSocket messages from the backend

ASSUME ForwardAssumption ==
  /\ NoStream \notin Streams
  /\ IdOf \in [Streams -> Ids]
  /\ \A r \in Requested : r.safe \/ r.upgrade => r.body = "none"

\* A talk is frames, perhaps with one after them whose length nobody supports, as they go
\* over the wire.  It comes with where each frame ends there and what it has told by then.
IsFrame(bytes, f) == bytes = FrameOf(f.fin, f.op, f.masked, f.payload)
Unsupported(bytes) == Len(bytes) >= 4 /\ bytes[2].len7 = Len64 /\ bytes[3] # 0
IsTalk(talk) ==
  LET n == Len(talk.frames)
      length == Len(talk.wire)
      after == SubSeq(talk.wire, talk.ends[n] + 1, length)
  IN  /\ talk.frames \in Seq(Framed) /\ length \in Nat
      /\ talk.wire = [i \in 1..length |-> talk.wire[i]]
      /\ talk.ends \in [0..n -> 0..length] /\ talk.ends[0] = 0
      /\ talk.told \in [0..n -> Tales] /\ talk.told[0] = NothingTold
      /\ \A k \in 1..n :
           /\ talk.ends[k - 1] <= talk.ends[k]
           /\ IsFrame(SubSeq(talk.wire, talk.ends[k - 1] + 1, talk.ends[k]), talk.frames[k])
           /\ talk.told[k] = Follows(talk.told[k - 1], talk.frames[k])
      /\ after = <<>> \/ Unsupported(after)
      /\ talk.messages = talk.told[n].messages
ASSUME TalksAssumption == \A talk \in Talks : IsTalk(talk)

VARIABLES
  req,                   \* what the visitor asks on a stream
  unsent,                \* tokens the visitor has still to send
  inq,                   \* chunks that wait in the stream's read queue
  fin,                   \* the relay closed the stream
  closed,                \* close() was called on the stream
  pc,                    \* where the stream's handler is
  buf,                   \* bytes read and not parsed yet
  out,                   \* what was written to the visitor
  backend,               \* state of the stream's WebSocket to the backend
  responded,             \* forwardWebSocket's flag
  ws,                    \* the stream's WsDecoder
  active,                \* activeWebSockets: smux id -> stream whose socket it is
  passed,                \* visitors' messages each backend socket received
  said,                  \* what the visitor says on the upgraded stream
  frames,                \* messages sent so far, per stream (bound)
  currentConns           \* TunnelStats.currentConns

stream == <<req, unsent, inq, fin, said>>
socket == <<backend, responded, ws, active, passed>>
forwardVars == <<req, unsent, inq, fin, closed, pc, buf, out, backend, responded, ws,
          active, passed, said, frames, currentConns>>

Silent == [frames |-> <<>>, wire |-> <<>>, ends |-> [k \in 0..0 |-> 0],
           told |-> [k \in 0..0 |-> NothingTold], messages |-> <<>>]

\* what follows the request head: nothing, a body of given length, or chunks
Bodies == {"none", "length", "chunked"}
BodyTokens(b) ==
  [none |-> <<>>, length |-> <<"b", "b">>, chunked |-> <<"c", "d", "z">>][b]

ForwardInit ==
  /\ req \in [Streams -> Requested]
  /\ unsent = [s \in Streams |-> <<"R", "r", "H", "h">> \o BodyTokens(req[s].body)]
  /\ inq = [s \in Streams |-> <<>>] /\ fin = [s \in Streams |-> FALSE]
  /\ closed = [s \in Streams |-> FALSE] /\ pc = [s \in Streams |-> "relay"]
  /\ buf = [s \in Streams |-> <<>>] /\ out = [s \in Streams |-> <<>>]
  /\ backend = [s \in Streams |-> "none"] /\ responded = [s \in Streams |-> FALSE]
  /\ ws = [s \in Streams |-> Decoder] /\ active = [i \in Ids |-> NoStream]
  /\ said = [s \in Streams |-> Silent]
  /\ passed = [s \in Streams |-> <<>>] /\ frames = [s \in Streams |-> 0] /\ currentConns = 0

---------------------------------------------------------------------------
(* The visitor.                                                            *)

Arrive(s) ==
  /\ ~fin[s] /\ ~closed[s] /\ Len(inq[s]) < MaxQueued
  /\ \E k \in 1..Len(unsent[s]) :
       /\ inq' = [inq EXCEPT ![s] = Append(@, SubSeq(unsent[s], 1, k))]
       /\ unsent' = [unsent EXCEPT ![s] = SubSeq(@, k + 1, Len(@))]
  /\ UNCHANGED <<req, fin, said, closed, pc, buf, out, socket, frames, currentConns>>

\* what the visitor has to say once he is upgraded
VisitorFrames(s) ==
  /\ "101" \in {out[s][i] : i \in 1..Len(out[s])} /\ ~fin[s] /\ ~closed[s]
  /\ said[s] = Silent
  /\ \E talk \in Talks :
       /\ unsent' = [unsent EXCEPT ![s] = @ \o talk.wire]
       /\ said' = [said EXCEPT ![s] = talk]
  /\ UNCHANGED <<req, inq, fin, closed, pc, buf, out, socket, frames, currentConns>>

VisitorLeaves(s) ==
  /\ ~fin[s]
  /\ fin' = [fin EXCEPT ![s] = TRUE]
  /\ UNCHANGED <<req, unsent, inq, said, closed, pc, buf, out, socket, frames, currentConns>>

---------------------------------------------------------------------------
(* Stream calls.  A write is refused once the stream is closing or the     *)
(* relay closed it; every close() counts a connection off.                 *)

Writable(s) == ~closed[s] /\ ~fin[s]
Written(s, what) == out' = IF Writable(s) THEN [out EXCEPT ![s] = @ \o what] ELSE out
CloseStream(s) ==
  /\ closed' = [closed EXCEPT ![s] = TRUE]
  /\ currentConns' = IF currentConns > 0 THEN currentConns - 1 ELSE 0

\* read() would return at once: a chunk, or null
Readable(s) == inq[s] # <<>> \/ closed[s] \/ fin[s]
AtEnd(s) == closed[s] \/ (inq[s] = <<>> /\ fin[s])

Finish(s) == pc' = [pc EXCEPT ![s] = "done"]

---------------------------------------------------------------------------
(* The request, read however it was cut into chunks.                       *)

Complete(s) ==
  CASE pc[s] \in {"relay", "head"} -> Len(buf[s]) >= 2
    [] pc[s] = "body" /\ req[s].body = "length" -> Len(buf[s]) >= 2
    [] pc[s] = "body" /\ req[s].body = "chunked" -> "z" \in {buf[s][i] : i \in 1..Len(buf[s])}
    [] OTHER -> TRUE

ReadChunk(s) ==
  /\ pc[s] \in {"relay", "head", "body"} /\ ~Complete(s) /\ ~AtEnd(s) /\ inq[s] # <<>>
  /\ buf' = [buf EXCEPT ![s] = @ \o Head(inq[s])]
  /\ inq' = [inq EXCEPT ![s] = Tail(@)]
  /\ UNCHANGED <<req, unsent, fin, said, closed, pc, out, socket, frames, currentConns>>

\* the rest of the chunk that completed the relay's response is carried over
RelayRead(s) ==
  /\ pc[s] = "relay" /\ Complete(s)
  /\ buf' = [buf EXCEPT ![s] = SubSeq(@, 3, Len(@))]
  /\ pc' = [pc EXCEPT ![s] = "head"]
  /\ UNCHANGED <<stream, closed, out, socket, frames, currentConns>>

HeadRead(s) ==
  /\ pc[s] = "head" /\ Complete(s)
  /\ buf' = [buf EXCEPT ![s] = SubSeq(@, 3, Len(@))]
  /\ pc' = [pc EXCEPT ![s] = "body"]
  /\ UNCHANGED <<stream, closed, out, socket, frames, currentConns>>

(* Mutant: the early end of a request is noticed, and the stream left as it is *)
ReadEndsOpen(s) ==
  /\ pc[s] \in {"relay", "head", "body"} /\ ~Complete(s) /\ AtEnd(s)
  /\ ~(pc[s] = "body" /\ req[s].body = "length")
  /\ Finish(s)
  /\ UNCHANGED <<stream, closed, currentConns, buf, out, socket, frames>>

\* the stream ends early; a body of known length is then taken as it is
ReadEnds(s) ==
  /\ pc[s] \in {"relay", "head", "body"} /\ ~Complete(s) /\ AtEnd(s)
  /\ ~(pc[s] = "body" /\ req[s].body = "length")
  /\ CloseStream(s) /\ Finish(s)
  /\ UNCHANGED <<stream, buf, out, socket, frames>>

\* markRequest() and handleRequest(): refuse, bridge or fetch
Dispatch(s) ==
  /\ pc[s] = "body" /\ (Complete(s) \/ AtEnd(s))
  /\ Complete(s) \/ req[s].body = "length"
  /\ \/ /\ ~req[s].authorized
        /\ Written(s, <<"401">>) /\ Finish(s)
        /\ closed' = [closed EXCEPT ![s] = TRUE] /\ UNCHANGED <<currentConns, backend>>
     \/ /\ req[s].authorized /\ req[s].upgrade
        /\ pc' = [pc EXCEPT ![s] = "opening"]
        /\ backend' = [backend EXCEPT ![s] = "connecting"]
        /\ currentConns' = currentConns + 1 /\ UNCHANGED <<closed, out>>
     \/ /\ req[s].authorized /\ ~req[s].upgrade
        /\ pc' = [pc EXCEPT ![s] = "fetch"]
        /\ currentConns' = currentConns + 1 /\ UNCHANGED <<closed, out, backend>>
  /\ UNCHANGED <<stream, buf, responded, ws, active, passed, frames>>

---------------------------------------------------------------------------
(* forwardHTTP.                                                            *)

Answer(s, what) ==
  /\ pc[s] = "fetch"
  /\ Written(s, what) /\ CloseStream(s) /\ Finish(s)
  /\ UNCHANGED <<stream, buf, socket, frames>>

FetchFails(s) == Answer(s, <<"502", "body">>)
Redirected(s) == req[s].safe /\ Answer(s, <<"302">>)

\* handleRequest's catch: close whatever happened
Abandon(s) == CloseStream(s) /\ Finish(s) /\ UNCHANGED out

\* the head says how the body is delimited: its length, or chunked
WriteHead(s) ==
  /\ pc[s] = "fetch"
  /\ \/ ~Writable(s) /\ Abandon(s)
     \/ /\ Writable(s)
        /\ \E h \in {"length-head", "chunked-head"} : Written(s, <<h>>)
        /\ pc' = [pc EXCEPT ![s] = "pipe"] /\ UNCHANGED <<closed, currentConns>>
  /\ UNCHANGED <<stream, buf, socket, frames>>

Chunked(s) == out[s][1] = "chunked-head"

PipeBody(s) ==
  /\ pc[s] = "pipe"
  /\ \/ ~Writable(s) /\ Abandon(s)
     \/ /\ Writable(s) /\ Len(out[s]) <= MaxChunks
        /\ Written(s, <<IF Chunked(s) THEN "chunk" ELSE "bytes">>)
        /\ UNCHANGED <<closed, currentConns, pc>>
  /\ UNCHANGED <<stream, buf, socket, frames>>

PipeEnds(s) ==
  /\ pc[s] = "pipe"
  /\ Written(s, IF Chunked(s) THEN <<"terminator">> ELSE <<>>)
  /\ CloseStream(s) /\ Finish(s)
  /\ UNCHANGED <<stream, buf, socket, frames>>

PipeBreaks(s) ==
  /\ pc[s] = "pipe" /\ Abandon(s)
  /\ UNCHANGED <<stream, buf, socket, frames>>

---------------------------------------------------------------------------
(* forwardWebSocket.  The sockets of all tunnels are under one map.        *)

Has(s) == active[IdOf[s]] # NoStream
Without(s) == active' = [active EXCEPT ![IdOf[s]] = NoStream]

BackendOpens(s) ==
  /\ backend[s] = "connecting"
  /\ backend' = [backend EXCEPT ![s] = "open"]
  /\ active' = [active EXCEPT ![IdOf[s]] = s]
  /\ pc' = [pc EXCEPT ![s] = "accepting"]
  /\ UNCHANGED <<stream, closed, buf, out, responded, ws, passed, frames, currentConns>>

\* the digest of wsAccept is ready
Accept(s) ==
  /\ pc[s] = "accepting"
  /\ \/ /\ Writable(s) /\ Written(s, <<"101">>)
        /\ responded' = [responded EXCEPT ![s] = TRUE]
        /\ pc' = [pc EXCEPT ![s] = "bridge"] /\ UNCHANGED backend
     \/ /\ ~Writable(s) /\ Finish(s)
        /\ backend' = [backend EXCEPT ![s] = IF @ = "closed" THEN @ ELSE "closing"]
        /\ UNCHANGED <<out, responded>>
  /\ UNCHANGED <<stream, closed, buf, ws, active, passed, frames, currentConns>>

(* Mutant: onclose answers 502 although the upgrade has been answered *)
BackendEndsAgain(s) ==
  /\ Written(s, (IF Has(s) THEN <<"close-frame">> ELSE <<>>) \o <<"502">>)
  /\ responded' = [responded EXCEPT ![s] = TRUE]
  /\ Without(s)
  /\ CloseStream(s)

\* onerror and onclose: a close frame when bridged, an error when not answered
BackendEnds(s) ==
  /\ Written(s, (IF Has(s) THEN <<"close-frame">> ELSE <<>>)
                 \o (IF responded[s] THEN <<>> ELSE <<"502">>))
  /\ responded' = [responded EXCEPT ![s] = TRUE]
  /\ Without(s)
  /\ CloseStream(s)

BackendError(s) ==
  /\ backend[s] \in {"connecting", "open", "closing"}
  /\ backend' = [backend EXCEPT ![s] = "failed"]
  /\ BackendEnds(s)
  /\ pc' = [pc EXCEPT ![s] = IF @ = "opening" THEN "done" ELSE @]
  /\ UNCHANGED <<stream, buf, ws, passed, frames>>

BackendClose(s) ==
  /\ backend[s] \in {"open", "closing", "failed"}
  /\ backend' = [backend EXCEPT ![s] = "closed"]
  /\ BackendEnds(s)
  /\ UNCHANGED <<stream, pc, buf, ws, passed, frames>>

BackendMessage(s) ==
  /\ backend[s] = "open" /\ Has(s) /\ frames[s] < MaxFrames
  /\ Written(s, <<"frame">>)
  /\ frames' = [frames EXCEPT ![s] = @ + 1]
  /\ UNCHANGED <<stream, closed, pc, buf, socket, currentConns>>

Closing(b) == backend' = [backend EXCEPT ![b] = IF @ = "open" THEN "closing" ELSE @]

\* relayVisitorFrames: the events of one chunk up to a close, for the socket that
\* the map holds; without an open one there the bridge is over
Upto(events) ==
  {i \in 1..Len(events) : \A j \in 1..i : events[j].type # "close"}
Messages(s, events) ==
  LET given[i \in Nat] ==
        IF i = 0 THEN <<>>
        ELSE IF i \in Upto(events) /\ events[i].type = "data"
        THEN Append(given[i - 1], [from |-> s, message |-> Message(events[i].op, events[i].payload)])
        ELSE given[i - 1]
  IN  given[Len(events)]
RelayFrame(s) ==
  /\ pc[s] = "bridge" /\ ~AtEnd(s) /\ inq[s] # <<>>
  /\ inq' = [inq EXCEPT ![s] = Tail(@)]
  /\ \E parsed \in Parsed(Push(ws[s], Head(inq[s])), Len(said[s].wire)) :
     LET events == parsed.events
         b == active[IdOf[s]]
         pongs == [i \in 1..Cardinality({i \in Upto(events) : events[i].type = "ping"}) |-> "pong"]
         close == Cardinality(Upto(events)) < Len(events)
     IN /\ ws' = [ws EXCEPT ![s] = parsed.d]
        /\ IF events = <<>> THEN UNCHANGED <<out, backend, active, passed, pc>>
           ELSE IF ~Has(s) \/ backend[b] # "open"
           THEN Finish(s) /\ UNCHANGED <<out, backend, active, passed>>
           ELSE /\ passed' = [passed EXCEPT ![b] = @ \o Messages(s, events)]
                /\ Written(s, pongs \o IF close THEN <<"close-frame">> ELSE <<>>)
                /\ IF close THEN Closing(s) /\ Without(s) /\ Finish(s) ELSE UNCHANGED <<backend, active, pc>>
  /\ UNCHANGED <<req, unsent, fin, said, closed, buf, responded, frames, currentConns>>

(* Mutant: the backend's socket is forgotten, not closed *)
RelayEndsQuietly(s) ==
  /\ pc[s] = "bridge" /\ AtEnd(s)
  /\ Without(s)
  /\ Finish(s)
  /\ UNCHANGED <<stream, closed, buf, out, backend, responded, ws, passed, frames, currentConns>>

\* the visitor is gone: close the socket that the map holds
RelayEnds(s) ==
  /\ pc[s] = "bridge" /\ AtEnd(s)
  /\ IF Has(s) THEN Closing(active[IdOf[s]]) /\ Without(s) ELSE UNCHANGED <<backend, active>>
  /\ Finish(s)
  /\ UNCHANGED <<stream, closed, buf, out, responded, ws, passed, frames, currentConns>>

---------------------------------------------------------------------------
Handler(s) ==
  \/ ReadChunk(s) \/ RelayRead(s) \/ HeadRead(s) \/ ReadEnds(s) \/ Dispatch(s)
  \/ WriteHead(s) \/ Accept(s) \/ RelayFrame(s) \/ RelayEnds(s)

ForwardNext == \E s \in Streams :
  \/ Arrive(s) \/ VisitorFrames(s) \/ VisitorLeaves(s) \/ Handler(s)
  \/ FetchFails(s) \/ Redirected(s) \/ PipeBody(s) \/ PipeEnds(s) \/ PipeBreaks(s)
  \/ BackendOpens(s) \/ BackendError(s) \/ BackendClose(s) \/ BackendMessage(s)

(* Fairness: promises run; the browser settles a fetch and a connection     *)
(* attempt and completes a close() that was asked for.  Neither visitors    *)
(* nor open backends have to do anything.                                   *)
BackendSettles(s) ==
  /\ backend[s] \in {"connecting", "closing", "failed"}
  /\ BackendOpens(s) \/ BackendError(s) \/ BackendClose(s)

ForwardFairness == \A s \in Streams : WF_forwardVars(Handler(s)) /\ WF_forwardVars(BackendSettles(s))

ForwardSpec == ForwardInit /\ [][ForwardNext]_forwardVars /\ ForwardFairness

---------------------------------------------------------------------------
Heads == {"401", "502", "302", "length-head", "chunked-head", "101"}
Said(s) == {out[s][i] : i \in 1..Len(out[s])}

(* The visitor's HTTP client gets one answer it can delimit: one head,      *)
(* first, followed only by what that head announces, and a chunked body     *)
(* that is terminated at most once, at the end.  On an upgraded stream      *)
(* there is never a second head, whichever of onopen, onerror and onclose   *)
(* come in whichever order around the wait for the digest; that the one     *)
(* head comes first there too is HeadFirst.                                 *)
OneAnswer == \A s \in Streams :
  /\ Cardinality({i \in 1..Len(out[s]) : out[s][i] \in Heads}) <= 1
  /\ ~req[s].upgrade =>
       \A i \in 1..Len(out[s]) :
         /\ out[s][i] \in Heads <=> i = 1
         /\ out[s][i] = "bytes" => out[s][1] = "length-head"
         /\ out[s][i] \in {"chunk", "terminator"} => out[s][1] = "chunked-head"
         /\ out[s][i] = "terminator" => i = Len(out[s])

(* Nothing is written to a visitor before the head of his answer: while he  *)
(* "is waiting for a 101" he "won't understand a raw close frame at the     *)
(* HTTP level" (forwarder.js onerror).  Violated: the socket is in the map  *)
(* as soon as it is open, while the digest for the 101 is still awaited,    *)
(* and for what is in the map frames are written.                           *)
HeadFirst == \A s \in Streams : \A i \in 1..Len(out[s]) : out[s][i] \in Heads <=> i = 1

(* A bridge ends at both ends: once the visitor or the backend is gone the  *)
(* socket is closed, the stream is closed and the map has no entry, also    *)
(* when one leaves while the other is still connecting.                     *)
Ended(s) == closed[s] /\ backend[s] \in {"failed", "closed"} /\ active[IdOf[s]] # s
BridgeEndsTogether == \A s \in Streams :
  backend[s] # "none" /\ (fin[s] \/ backend[s] \in {"failed", "closed"}) ~> Ended(s)

(* A request never leaves its stream open for ever: a refused, failed or    *)
(* truncated request closes it, so the entrypoint stops waiting.            *)
LeftRequestCloses == \A s \in Streams :
  fin[s] /\ pc[s] \in {"relay", "head", "body"} ~> closed[s] \/ pc[s] \in {"fetch", "opening"}

(* However the visitor's bytes are cut into chunks and his messages into     *)
(* frames, with others in between, the backend gets his messages, whole, in *)
(* their order and with their type (ws-codec.js, relayVisitorFrames).  It   *)
(* may get fewer: the bridge can end first.                                 *)
MessagesWhole == \A s \in Streams :
  /\ Len(passed[s]) <= Len(said[s].messages)
  /\ \A i \in DOMAIN passed[s] : passed[s][i].message = said[s].messages[i]

(* relayVisitorFrames delivers "payloads to the backend WebSocket" of its   *)
(* stream (forwarder.js).  Violated: smux ids repeat between the sessions   *)
(* of two tunnels, and the map has one entry per id.                        *)
FramesStayInTunnel == \A s \in Streams :
  \A i \in 1..Len(passed[s]) : passed[s][i].from = s
=============================================================================
