--------------------------------- MODULE ExtWs ---------------------------------
(***************************************************************************)
(* The WebSocket frames of lib/ws-codec.js: the encoder of what goes to    *)
(* the visitor and the decoder of what comes from him, however the bytes   *)
(* are cut into chunks.                                                    *)
(*                                                                         *)
(* A frame is a sequence of tokens: its first byte (a record fin, op), its *)
(* second (masked, len7), the longer form of the length, the masking key   *)
(* and one token for each unit of payload.  Lengths are scaled: up to      *)
(* Short units fit the second byte (125), up to Medium the 16 bit form     *)
(* (65535); the 64 bit form is two tokens, its high half and its low half. *)
(***************************************************************************)
EXTENDS Integers, Sequences

Short == 1
Medium == 2
Len16 == 126
Len64 == 127

\* encodeWsFrame: header, masking key, payload; here a visitor's frames, which need
\* not be the last of their message
Length(len) ==
  IF len <= Short THEN [len7 |-> len, ext |-> <<>>]
  ELSE IF len <= Medium THEN [len7 |-> Len16, ext |-> <<len>>]
  ELSE [len7 |-> Len64, ext |-> <<0, len>>]
FrameOf(fin, op, masked, payload) ==
  <<[fin |-> fin, op |-> op], [masked |-> masked, len7 |-> Length(Len(payload)).len7]>>
  \o Length(Len(payload)).ext \o (IF masked THEN <<"key">> ELSE <<>>) \o payload
\* a frame that announces 2^32 bytes or more
HugeFrame == <<[fin |-> TRUE, op |-> "binary"], [masked |-> TRUE, len7 |-> Len64], 1, 0, "key">>

Message(op, payload) == [op |-> op, payload |-> payload]
NoFrag == [op |-> "none", payload |-> <<>>]

(* What frames tell, by the protocol and without a decoder: the messages that are *)
(* whole, the one that is being told, and whether a frame has ended it all (a      *)
(* close, a continuation of nothing or an opcode that is not known).               *)
Opcodes == {"cont", "text", "binary", "close", "ping", "pong", "reserved"}
Framed == [fin : BOOLEAN, op : Opcodes, masked : BOOLEAN, payload : Seq(Nat)]
Messaged == [op : Opcodes \union {"none"}, payload : Seq(Nat)]
Tales == [messages : Seq(Messaged), frag : Messaged, over : BOOLEAN]
NothingTold == [messages |-> <<>>, frag |-> NoFrag, over |-> FALSE]
Follows(tale, f) ==
  LET part == IF f.op = "cont" THEN Message(tale.frag.op, tale.frag.payload \o f.payload)
              ELSE Message(f.op, f.payload)
  IN  CASE tale.over \/ f.op \in {"ping", "pong"} -> tale
        [] ~tale.over /\ (f.op \in {"text", "binary"} \/ (f.op = "cont" /\ tale.frag # NoFrag)) ->
             IF f.fin THEN [tale EXCEPT !.messages = Append(@, part), !.frag = IF f.op = "cont" THEN NoFrag ELSE @]
             ELSE [tale EXCEPT !.frag = part]
        [] OTHER -> [tale EXCEPT !.over = TRUE]

---------------------------------------------------------------------------
(* The decoder: bytes not parsed yet, and the message that is being put    *)
(* together (its opcode "none" when there is none).                        *)

Decoder == [buf |-> <<>>, frag |-> NoFrag]
Push(d, chunk) == [d EXCEPT !.buf = @ \o chunk]

\* what one call of _parseOne comes to: nothing yet, or an event ("more": none)
\* and the decoder after it
WsEvent(type, op, payload) == [type |-> type, op |-> op, payload |-> payload]
CloseEvent == WsEvent("close", "none", <<>>)
Step(event, d) == [some |-> TRUE, event |-> event, d |-> d]
Nothing(d) == [some |-> FALSE, event |-> CloseEvent, d |-> d]

(* Mutant: the parts before are forgotten *)
MergedLast(frag, payload) == payload

Merged(frag, payload) == frag.payload \o payload

\* a whole frame was taken off the buffer
Assembled(head, payload, d) ==
  LET data(op, all, frag) ==
        IF head.fin THEN Step(WsEvent("data", op, all), [d EXCEPT !.frag = frag])
        ELSE Step(WsEvent("more", op, <<>>), [d EXCEPT !.frag = [op |-> op, payload |-> all]])
  IN  CASE head.op \in {"text", "binary"} -> data(head.op, payload, d.frag)
        [] head.op = "cont" -> IF d.frag = NoFrag THEN Step(CloseEvent, d) ELSE data(d.frag.op, Merged(d.frag, payload), NoFrag)
        [] head.op \in {"close", "ping", "pong"} -> Step(WsEvent(head.op, "none", payload), d)
        [] OTHER -> Step(CloseEvent, d)

HeaderSize(len7) == CASE len7 = Len16 -> 3 [] len7 = Len64 -> 4 [] OTHER -> 2

ParseOne(d) ==
  LET b == d.buf
      len7 == b[2].len7
      header == HeaderSize(len7)
      off == header + IF b[2].masked THEN 1 ELSE 0
      len == IF header = 2 THEN len7 ELSE b[header]
  IN  IF Len(b) < 2 \/ Len(b) < header THEN Nothing(d)
      ELSE IF len7 = Len64 /\ b[3] # 0 THEN Step(CloseEvent, [d EXCEPT !.buf = <<>>])
      ELSE IF Len(b) < off + len THEN Nothing(d)
      ELSE Assembled(b[1], SubSeq(b, off + 1, off + len), [d EXCEPT !.buf = SubSeq(b, off + len + 1, Len(b))])

\* parse: the events of every frame that the buffer holds, when it takes no more than
\* the given number of calls.  The result is the one member of a set, and bound by
\* whoever takes it from there, so that each call is evaluated once.
Taken(run, one) ==
  IF ~one.some THEN run
  ELSE [events |-> IF one.event.type = "more" THEN run.events ELSE Append(run.events, one.event),
        d |-> one.d]
Parsed(d, calls) ==
  LET after[n \in Nat] ==
        IF n = 0 THEN {[events |-> <<>>, d |-> d]}
        ELSE {Taken(run, ParseOne(run.d)) : run \in after[n - 1]}
  IN  after[calls]
=============================================================================
