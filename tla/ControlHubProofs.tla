-------------------------- MODULE ControlHubProofs --------------------------
(***************************************************************************)
(* The control channel for every number of spokes, streams, operator calls *)
(* and faults.  The invariants say, in this order: where each thread can   *)
(* be and what it has read by then; that every netview in existence is the *)
(* table of its rev; where a stream can be; and what a slot knows of the   *)
(* session it reads.                                                       *)
(***************************************************************************)
EXTENDS ControlHub, RibTableProofs

-----------------------------------------------------------------------------
(***************************************************************************)
(* Where each thread can be.  A thread in publish, or about to install a   *)
(* membership, goes on at after[t].                                        *)
(***************************************************************************)
Publishing == {"snapshot", "mark", "routes", "install", "header", "body"}

Inside == Publishing \cup {"members"}

Serving == {"open", "greet", "read", "capability", "replace", "apply"}

Calling == {"meta", "load", "base", "unregister", "close", "end"}

Place(t) ==
    /\ t \in Slots => \/ pc[t] \in {"unused", "select", "done"} \cup Serving
                      \/ pc[t] \in Inside /\ after[t] \in {"read", "replace"}
    /\ t \in Callers => \/ pc[t] \in {"idle"} \cup Calling
                        \/ pc[t] \in Inside /\ after[t] \in {"end", "load", "unregister"}
    /\ t = Sweeper => \/ pc[t] = "idle"
                      \/ pc[t] \in Publishing /\ after[t] = "idle"

(* What a thread has read by the time it is there.                         *)
Holding(t) ==
    /\ pc[t] \in Publishing \ {"snapshot"} => local[t].snap \in Netview
    /\ pc[t] = "install" => local[t].routes \in Table
    /\ pc[t] = "body" => local[t].conn \in Conns
    /\ pc[t] = "base" => local[t].members \in SUBSET Seat
    /\ pc[t] = "members" => local[t].members \in SUBSET Member
    /\ t \in Callers /\ pc[t] # "idle" => local[t].job \in Job
    /\ pc[t] = "meta" => local[t].job \in Allowlist
    /\ pc[t] = "unregister" \/ (pc[t] \in Inside /\ after[t] = "unregister")
           => local[t].job \in Allowlist

HoldingSlot(s) ==
    /\ pc[s] # "unused" => slot[s].peer \in Peers
    /\ pc[s] \in Serving \cup Inside => local[s].stream \in Conns

(* Whose a stream is, and whose slot it arrives at.                        *)
Owned ==
    /\ \A c \in Conns : net[c].open => net[c].peer \in Peers
    /\ arriving # None => net[arriving.conn].peer \in Peers

HubTypeInv ==
    /\ TypeOK
    /\ \A t \in Threads : Place(t) /\ Holding(t)
    /\ \A s \in Slots : HoldingSlot(s)
    /\ Owned

-----------------------------------------------------------------------------
(* Every netview in existence is the table of its rev.                     *)
Known(n) == n.rev >= 1 /\ n.rev <= rib.rev /\ (n.rev = rib.rev => n = Snapshot(rib))

NetviewsKnown ==
    /\ \A o \in Peers : view[o] # None => Known(view[o])
    /\ \A t \in Threads : pc[t] \in Publishing \ {"snapshot"} => Known(local[t].snap)
    /\ \A c \in Conns : \A i \in 1..Len(net[c].toSpoke) :
          net[c].toSpoke[i] \in [body : Netview] => Known(net[c].toSpoke[i].body)

FeedInv == HubTypeInv /\ rib.rev >= 1 /\ NetviewsKnown

-----------------------------------------------------------------------------
(* Dropped: a slot of the spoke was stopped, because the spoke was removed. *)
Dropped(o) == \E s \in Slots : slot[s].stopped /\ slot[s].peer = o

(* A slot in use that was not dropped is its spoke's, and serves.          *)
SlotsServe ==
    /\ \A s \in Slots :
          /\ pc[s] # "unused" /\ ~slot[s].stopped => slotOf[slot[s].peer] = s
          /\ pc[s] = "done" => slot[s].stopped
          /\ pc[s] = "unused" => slot[s].inbound = None /\ slot[s].conn = None /\ ~slot[s].stopped
          /\ pc[s] \in {"unused", "select"} => local[s].stream = None
    /\ \A o \in Peers : slotOf[o] # None =>
          pc[slotOf[o]] # "unused" /\ slot[slotOf[o]].peer = o /\ ~slot[slotOf[o]].stopped
    /\ arriving # None /\ arriving.slot # None => pc[arriving.slot] # "unused"

(* A slot has the stream: it is queued, being served, or the one to tell.  *)
At(c, s) ==
    \/ c \in {slot[s].inbound, local[s].stream}
    \/ c = slot[s].conn /\ ~slot[s].stopped

Nowhere(c) ==
    /\ arriving # None => arriving.conn # c
    /\ \A s \in Slots : ~At(c, s)

(* A stream is handed over once, so it is in one place.                    *)
OnePlace ==
    /\ \A c \in Conns : ~net[c].handed => Nowhere(c)
    /\ arriving # None => \A s \in Slots : ~At(arriving.conn, s)
    /\ \A s \in Slots : slot[s].inbound # None =>
          /\ \A q \in Slots : slot[s].inbound # local[q].stream
          /\ \A q \in Slots : ~slot[q].stopped => slot[s].inbound # slot[q].conn
          /\ \A q \in Slots \ {s} : slot[s].inbound # slot[q].inbound

(* A stream is at a slot of the spoke that opened it.                      *)
OwnStreams ==
    /\ arriving # None /\ arriving.slot # None =>
          slot[arriving.slot].peer = net[arriving.conn].peer
    /\ \A s \in Slots :
          /\ slot[s].inbound # None => net[slot[s].inbound].peer = slot[s].peer
          /\ local[s].stream # None => net[local[s].stream].peer = slot[s].peer

(* What the slot knows of its session.                                     *)
Replacing(s) ==
    \/ pc[s] \in {"capability", "replace"}
    \/ pc[s] \in Inside /\ after[s] = "replace"

ClaimsShared ==
    \A c \in Conns : \A i \in 1..Len(net[c].toHub) : net[c].toHub[i] \subseteq net[c].share

SessionShare ==
    \A s \in Slots :
        /\ Replacing(s) => slot[s].first
        /\ pc[s] = "apply" => ~slot[s].first
        /\ Replacing(s) \/ pc[s] = "apply" => local[s].share \subseteq net[local[s].stream].share
        /\ pc[s] \in (Serving \cup Inside) \ {"open"} => slot[s].conn = local[s].stream
        /\ pc[s] = "open" /\ ~slot[s].stopped => slot[s].conn # local[s].stream

(* NewestSessionSpeaks of the spokes that were never dropped.              *)
NewestUnlessDropped ==
    \A s \in LiveSlots :
        LET c == slot[s].conn IN
        c # None /\ ~slot[s].first /\ local[s].stream = c /\ net[c].open /\ ~Dropped(slot[s].peer)
            => \A p \in Prefixes : HeldBy(rib, slot[s].peer, p) => p \in net[c].share

(* A stream handed over and not closed is at a slot, or on its way to one. *)
NoneLost ==
    \A c \in Conns : net[c].open /\ net[c].handed =>
        \/ arriving # None /\ arriving.conn = c
        \/ \E s \in Slots : c \in {slot[s].inbound, local[s].stream}

(* NoStreamForgotten of the spokes that were never dropped.                *)
KeptUnlessDropped ==
    \A c \in Conns : net[c].open /\ net[c].handed /\ ~Dropped(net[c].peer) =>
        \/ arriving # None /\ arriving.conn = c
        \/ \E s \in Slots : pc[s] # "done" /\ c \in {slot[s].inbound, local[s].stream}

Sessions ==
    /\ SlotsServe /\ OnePlace /\ OwnStreams /\ ClaimsShared /\ SessionShare
    /\ NewestUnlessDropped /\ NoneLost

HubOpen == closed = "open"

HubSessionInv == HubOpen => Sessions

NothingDropped == HubOpen /\ \A s \in Slots : ~slot[s].stopped

-----------------------------------------------------------------------------
(***************************************************************************)
(* What the operators on streams and threads leave.                        *)
(***************************************************************************)
LEMMA CloseConnsFields ==
    ASSUME net \in [Conns -> Stream], NEW cs, CloseConns(cs)
    PROVE  /\ net' \in [Conns -> Stream]
           /\ \A c \in Conns : /\ net'[c].peer = net[c].peer
                               /\ net'[c].handed = net[c].handed
                               /\ net'[c].share = net[c].share
                               /\ net'[c].open => net[c].open
                               /\ c \notin cs => net'[c] = net[c]
                               /\ c \in cs => /\ ~net'[c].open
                                              /\ net'[c].toHub = <<>>
                                              /\ net'[c].toSpoke = <<>>
<1>. DEFINE shut(x) == [x EXCEPT !.open = FALSE, !.toHub = <<>>, !.toSpoke = <<>>]
<1>1. ASSUME NEW x \in Stream
      PROVE  /\ shut(x) \in Stream
             /\ shut(x).peer = x.peer /\ shut(x).handed = x.handed /\ shut(x).share = x.share
             /\ ~shut(x).open /\ shut(x).toHub = <<>> /\ shut(x).toSpoke = <<>>
  <2>. DEFINE e == <<>>
  <2>1. e \in Seq(SUBSET Prefixes) /\ e \in Seq(Frame)
    OBVIOUS
  <2>. HIDE DEF e
  <2>2. /\ [x EXCEPT !.open = FALSE, !.toHub = e, !.toSpoke = e] \in Stream
        /\ [x EXCEPT !.open = FALSE, !.toHub = e, !.toSpoke = e].peer = x.peer
        /\ [x EXCEPT !.open = FALSE, !.toHub = e, !.toSpoke = e].handed = x.handed
        /\ [x EXCEPT !.open = FALSE, !.toHub = e, !.toSpoke = e].share = x.share
        /\ ~[x EXCEPT !.open = FALSE, !.toHub = e, !.toSpoke = e].open
        /\ [x EXCEPT !.open = FALSE, !.toHub = e, !.toSpoke = e].toHub = e
        /\ [x EXCEPT !.open = FALSE, !.toHub = e, !.toSpoke = e].toSpoke = e
    BY <2>1 DEF Stream
  <2>. QED BY <2>2 DEF e
<1>2. net' = [c \in Conns |-> IF c \in cs THEN shut(net[c]) ELSE net[c]]
  BY DEF CloseConns
<1>. HIDE DEF shut
<1>3. net' \in [Conns -> Stream]
  BY <1>1, <1>2
<1>4. ASSUME NEW c \in Conns PROVE net'[c] = IF c \in cs THEN shut(net[c]) ELSE net[c]
  BY <1>2
<1>. QED BY <1>1, <1>3, <1>4

LEMMA SendFields ==
    ASSUME net \in [Conns -> Stream], NEW c \in Conns, NEW part \in Frame, Send(c, part)
    PROVE  /\ net' \in [Conns -> Stream]
           /\ \A d \in Conns \ {c} : net'[d] = net[d]
           /\ net'[c].toSpoke = Append(net[c].toSpoke, part)
           /\ net'[c].peer = net[c].peer /\ net'[c].open = net[c].open
           /\ net'[c].handed = net[c].handed /\ net'[c].share = net[c].share
           /\ net'[c].toHub = net[c].toHub
<1>1. Append(net[c].toSpoke, part) \in Seq(Frame)
  BY DEF Stream
<1>2. [net[c] EXCEPT !.toSpoke = Append(@, part)] \in Stream
  BY <1>1 DEF Stream
<1>3. net' = [net EXCEPT ![c] = [net[c] EXCEPT !.toSpoke = Append(@, part)]]
  BY DEF Send
<1>. QED BY <1>1, <1>2, <1>3 DEF Stream

(* A netview and a table are what their operators return.                  *)
LEMMA SnapshotType ==
    ASSUME NEW r \in RibState
    PROVE  Snapshot(r) \in Netview /\ Routes(r) \in Table /\ Snapshot(r).rev = r.rev
<1>1. ASSUME NEW p \in Prefixes
      PROVE  Entry(r.claims[p]) \in {None} \cup [origin : Peers \cup {StaticOrigin},
                                                allow  : SUBSET Peers]
  BY DEF Entry, RibState, Claim
<1>2. ASSUME NEW p \in Prefixes, Taken(r, p), Carrier(r.claims[p]) # None
      PROVE  [peer |-> Carrier(r.claims[p]), allow |-> r.claims[p].allow]
                \in [peer : Peers, allow : SUBSET Peers]
  BY <1>2, TakenClaim DEF Carrier, Claim
<1>3. Snapshot(r) \in Netview
  BY <1>1 DEF Snapshot, Netview, RibState
<1>4. Routes(r) \in Table
  BY <1>2 DEF Routes, Table
<1>. QED BY <1>3, <1>4 DEF Snapshot

LEMMA MergedType ==
    ASSUME NEW seats \in SUBSET Seat, NEW direct \in SUBSET Peers, NEW off \in SUBSET Peers
    PROVE  Merged(seats, direct, off) \in SUBSET Member
<1>. SUFFICES ASSUME NEW m \in seats
              PROVE  [ip |-> m.ip, key |-> m.key, direct |-> m.key \in direct,
                      disabled |-> m.key \in off] \in Member
  BY DEF Merged
<1>1. m.ip \in Addrs /\ m.key \in Peers
  BY DEF Seat
<1>2. (m.key \in direct) \in BOOLEAN /\ (m.key \in off) \in BOOLEAN
  OBVIOUS
<1>. QED BY <1>1, <1>2 DEF Member

(* The hub's own routes resolve against the assignment it starts with.     *)
LEMMA WithInjectedFields ==
    ASSUME NEW r \in RibState, r.members = Merged(Seats, {}, {})
    PROVE  WithInjected(r) \in RibState /\ WithInjected(r).rev >= r.rev
<1>. DEFINE new == [p \in Prefixes |->
                      IF p \in DOMAIN Injected
                      THEN [origin |-> StaticOrigin, via |-> MemberKey(r, Injected[p]),
                            allow |-> {}, age |-> 0]
                      ELSE r.claims[p]]
<1>1. ASSUME NEW p \in DOMAIN Injected PROVE MemberKey(r, Injected[p]) \in Peers \cup {None}
  <2>1. CASE Injected[p] = None
    BY <2>1, MemberKeyType DEF Resolves
  <2>2. CASE Injected[p] # None
    <3>1. PICK seat \in Seats : Injected[p] = seat.ip
      BY <2>2, HubAssumption
    <3>2. [ip |-> seat.ip, key |-> seat.key, direct |-> seat.key \in {},
           disabled |-> seat.key \in {}] \in r.members
      BY <3>1 DEF Merged
    <3>3. Resolves(r, Injected[p])
      BY <3>1, <3>2 DEF Resolves
    <3>. QED BY <3>3, MemberKeyType
  <2>. QED BY <2>1, <2>2
<1>2. new \in [Prefixes -> Claim \cup {None}]
  BY <1>1, AgeAssumption DEF RibState, Claim
<1>3. PICK n \in Nat : n = r.rev + Cardinality(DOMAIN Injected) /\ n >= r.rev
  <2>1. Cardinality(DOMAIN Injected) \in Nat
    BY HubAssumption, PrefixCount
  <2>. QED BY <2>1 DEF RibState
<1>4. WithInjected(r) = Updated(r, new, n)
  BY <1>3 DEF WithInjected, Updated
<1>. HIDE DEF new
<1>. QED BY <1>2, <1>3, <1>4, UpdatedFields

LEMMA JobFields ==
    ASSUME NEW j \in Job
    PROVE  /\ "allow" \in DOMAIN j => j.allow \in [Peers -> {None} \cup SUBSET Prefixes]
           /\ "seats" \in DOMAIN j => j.seats \in SUBSET Seat
           /\ "peers" \in DOMAIN j => j \in Allowlist
<1>1. CASE j \in [allow : [Peers -> {None} \cup SUBSET Prefixes]]
  BY <1>1
<1>3. CASE j \in [seats : SUBSET Seat]
  BY <1>3
<1>4. CASE j \in Allowlist
  BY <1>4 DEF Allowlist
<1>5. CASE j \in [close : BOOLEAN]
  BY <1>5
<1>. QED BY <1>1, <1>3, <1>4, <1>5 DEF Job

-----------------------------------------------------------------------------
(***************************************************************************)
(* Types.  A thread's step leaves the other threads where they are.        *)
(***************************************************************************)
LEMMA InitHubType == Init => HubTypeInv
<1>. SUFFICES ASSUME Init PROVE HubTypeInv
  OBVIOUS
<1>1. rib \in RibState
  <2>1. NewRib(Policy) \in RibState
    BY HubAssumption DEF NewRib, RibState
  <2>2. Merged(Seats, {}, {}) \in SUBSET Member
    BY HubAssumption, MergedType
  <2>. QED BY <2>1, <2>2, WithMembersFields, WithInjectedFields DEF Init
<1>2. sink \in Table /\ publishedRev \in Nat
  BY <1>1, SnapshotType DEF Init, RibState
<1>3. Idle \in Local /\ Fresh \in Slot
  BY DEF Idle, Local, Fresh, Slot
<1>4. NoConn \in Stream
  <2>. DEFINE e == <<>>
  <2>1. e \in Seq(SUBSET Prefixes) /\ e \in Seq(Frame)
    OBVIOUS
  <2>2. NoConn = [peer |-> None, open |-> FALSE, handed |-> FALSE, share |-> {},
                  toHub |-> e, toSpoke |-> e, refreshes |-> 0]
    BY DEF NoConn
  <2>. HIDE DEF e
  <2>. QED BY <2>1, <2>2 DEF Stream
<1>5. TypeOK
  BY <1>1, <1>2, <1>3, <1>4, HubAssumption DEF Init, TypeOK, Labels, Threads
<1>6. \A t \in Threads : Place(t) /\ Holding(t)
  BY ThreadAssumption DEF Init, Place, Holding, Threads, Publishing, Inside
<1>7. \A s \in Slots : HoldingSlot(s)
  BY DEF Init, HoldingSlot, Threads, Serving, Inside, Publishing
<1>8. Owned
  BY DEF Init, Owned, NoConn
<1>. QED BY <1>5, <1>6, <1>7, <1>8 DEF HubTypeInv

(* Only t moves.                                                           *)
Moves(t) ==
    \A u \in Threads \ {t} : pc'[u] = pc[u] /\ after'[u] = after[u] /\ local'[u] = local[u]

LEMMA MovesAlone ==
    ASSUME HubTypeInv, NEW t \in Threads, Moves(t), Place(t)', Holding(t)'
    PROVE  \A u \in Threads : Place(u)' /\ Holding(u)'
BY DEF HubTypeInv, Moves, Place, Holding

(* The three parts of TypeOK that steps share.                             *)
HubOK ==
    /\ rib \in RibState
    /\ base \subseteq Seat /\ assigned \subseteq Seat
    /\ caps \subseteq Peers /\ disabled \subseteq Peers /\ routed \subseteq Peers
    /\ slotOf \in [Peers -> Slots \cup {None}]
    /\ slot \in [Slots -> Slot]
    /\ publishedRev \in Nat
    /\ closed \in {"open", "closing", "closed"}
    /\ sink \in Table

ThreadsOK ==
    pc \in [Threads -> Labels] /\ after \in [Threads -> Labels] /\ local \in [Threads -> Local]

WiresOK ==
    /\ arriving \in {None} \cup [conn : Conns, slot : Slots \cup {None}]
    /\ jobs \in Seq(Job)
    /\ net \in [Conns -> Stream]
    /\ session \in [Peers -> Conns \cup {None}]
    /\ view \in [Peers -> Netview \cup {None}]
    /\ faults \in Nat /\ sweeps \in Nat

LEMMA TypeParts == /\ TypeOK <=> HubOK /\ ThreadsOK /\ WiresOK
                   /\ TypeOK' <=> HubOK' /\ ThreadsOK' /\ WiresOK'
BY DEF TypeOK, HubOK, ThreadsOK, WiresOK

LEMMA StepAlone ==
    ASSUME ThreadsOK, NEW t \in Threads, NEW x \in Local, NEW l \in Labels, NEW m \in Labels,
           local' = [local EXCEPT ![t] = x], pc' = [pc EXCEPT ![t] = l],
           after' = [after EXCEPT ![t] = m]
    PROVE  ThreadsOK' /\ Moves(t) /\ local'[t] = x /\ pc'[t] = l /\ after'[t] = m
BY DEF ThreadsOK, Moves

LEMMA PublishType ==
    ASSUME HubTypeInv, NEW t \in Threads, Publish(t)
    PROVE  TypeOK' /\ Moves(t) /\ Place(t)' /\ Holding(t)'
<1>0. HubOK /\ ThreadsOK /\ WiresOK /\ Place(t) /\ Holding(t)
  BY TypeParts DEF HubTypeInv
<1>1. CASE TakeSnapshot(t)
  <2>1. Snapshot(rib) \in Netview
    BY <1>0, SnapshotType DEF HubOK
  <2>2. HubOK' /\ WiresOK'
    BY <1>0, <1>1 DEF HubOK, WiresOK, TakeSnapshot, hubVars, spokeVars, bounds
  <2>3. /\ pc[t] = "snapshot" /\ pc'[t] = "mark" /\ after'[t] = after[t]
        /\ local'[t].snap = Snapshot(rib) /\ local'[t].job = local[t].job
        /\ ThreadsOK' /\ Moves(t)
    BY <1>0, <1>1, <2>1 DEF ThreadsOK, TakeSnapshot, Goto, Local, Moves, Labels
  <2>4. Place(t)' /\ Holding(t)'
    BY <1>0, <2>1, <2>3 DEF Place, Holding, Inside, Publishing, Serving, Calling
  <2>. QED BY <2>2, <2>3, <2>4, TypeParts
<1>2. CASE Mark(t)
  <2>. DEFINE rev == local[t].snap.rev
              tell == {s \in LiveSlots : slot[s].conn # None /\ slot[s].sent # rev}
  <2>1. pc[t] = "mark" /\ local[t].snap \in Netview /\ rev \in Nat
    BY <1>0, <1>2 DEF Mark, Holding, Publishing, Netview
  <2>2. tell \subseteq Slots /\ {slot[s].conn : s \in tell} \subseteq Conns
    BY <1>0 DEF HubOK, LiveSlots, Slot
  <2>3. slot' \in [Slots -> Slot]
    <3>1. \A s \in Slots : [slot[s] EXCEPT !.sent = rev] \in Slot
      BY <1>0, <2>1 DEF HubOK, Slot
    <3>. QED BY <1>0, <1>2, <3>1 DEF HubOK, Mark
  <2>4. HubOK' /\ WiresOK'
    BY <1>0, <1>2, <2>1, <2>3 DEF HubOK, WiresOK, Mark, spokeVars, bounds
  <2>5. /\ pc'[t] \in {"routes", "header"} /\ after'[t] = after[t]
        /\ local'[t].snap = local[t].snap /\ local'[t].job = local[t].job
        /\ ThreadsOK' /\ Moves(t)
    <3>1. PICK l \in {"routes", "header"} : pc' = [pc EXCEPT ![t] = l]
      BY <1>2 DEF Mark, Goto
    <3>2. PICK T \in SUBSET Conns : local' = [local EXCEPT ![t].targets = T]
      BY <1>2, <2>2 DEF Mark
    <3>. DEFINE x == [local[t] EXCEPT !.targets = T]
    <3>3. x \in Local /\ x.snap = local[t].snap /\ x.job = local[t].job
      BY <1>0, <3>2 DEF ThreadsOK, Local
    <3>4. local' = [local EXCEPT ![t] = x] /\ after' = [after EXCEPT ![t] = after[t]]
      BY <1>0, <1>2, <3>2 DEF ThreadsOK, Mark
    <3>5. l \in Labels /\ after[t] \in Labels
      BY <1>0 DEF ThreadsOK, Labels
    <3>. HIDE DEF x
    <3>6. ThreadsOK' /\ Moves(t) /\ pc'[t] = l /\ after'[t] = after[t] /\ local'[t] = x
      BY <1>0, <3>1, <3>3, <3>4, <3>5, StepAlone
    <3>. QED BY <3>1, <3>3, <3>6
  <2>6. Place(t)' /\ Holding(t)'
    BY <1>0, <2>1, <2>5 DEF Place, Holding, Inside, Publishing, Serving, Calling
  <2>. QED BY <2>4, <2>5, <2>6, TypeParts
<1>3. CASE ReadRoutes(t)
  <2>1. Routes(rib) \in Table
    BY <1>0, SnapshotType DEF HubOK
  <2>2. HubOK' /\ WiresOK'
    BY <1>0, <1>3 DEF HubOK, WiresOK, ReadRoutes, hubVars, spokeVars, bounds
  <2>3. /\ pc[t] = "routes" /\ pc'[t] = "install" /\ after'[t] = after[t]
        /\ local'[t].routes = Routes(rib) /\ local'[t].snap = local[t].snap
        /\ local'[t].job = local[t].job
        /\ ThreadsOK' /\ Moves(t)
    BY <1>0, <1>3, <2>1 DEF ThreadsOK, ReadRoutes, Goto, Local, Moves, Labels
  <2>4. Place(t)' /\ Holding(t)'
    BY <1>0, <2>1, <2>3 DEF Place, Holding, Inside, Publishing, Serving, Calling
  <2>. QED BY <2>2, <2>3, <2>4, TypeParts
<1>4. CASE SetPrefixRoutes(t)
  <2>1. pc[t] = "install" /\ local[t].routes \in Table
    BY <1>0, <1>4 DEF SetPrefixRoutes, Holding
  <2>2. HubOK' /\ WiresOK'
    BY <1>0, <1>4, <2>1 DEF HubOK, WiresOK, SetPrefixRoutes, spokeVars, bounds
  <2>3. /\ pc'[t] = "header" /\ after'[t] = after[t]
        /\ local'[t].snap = local[t].snap /\ local'[t].job = local[t].job
        /\ ThreadsOK' /\ Moves(t)
    BY <1>0, <1>4 DEF ThreadsOK, SetPrefixRoutes, Goto, Local, Moves, Labels
  <2>4. Place(t)' /\ Holding(t)'
    BY <1>0, <2>1, <2>3 DEF Place, Holding, Inside, Publishing, Serving, Calling
  <2>. QED BY <2>2, <2>3, <2>4, TypeParts
<1>5. CASE WriteHeader(t)
  <2>1. PICK c \in local[t].targets :
          \/ local' = [local EXCEPT ![t].targets = @ \ {c}] /\ UNCHANGED <<net, pc>>
          \/ /\ Send(c, [head |-> local[t].snap.rev])
             /\ local' = [local EXCEPT ![t].conn = c] /\ Goto(t, "body")
    BY <1>5 DEF WriteHeader
  <2>2. /\ pc[t] = "header" /\ UNCHANGED <<hubVars, after, arriving, jobs, spokeVars, bounds>>
    BY <1>5 DEF WriteHeader
  <2>3. c \in Conns /\ local[t].snap \in Netview /\ [head |-> local[t].snap.rev] \in Frame
    BY <1>0, <2>2 DEF ThreadsOK, Local, Holding, Publishing, Netview, Frame
  <2>4. net' \in [Conns -> Stream]
    BY <1>0, <2>1, <2>3, SendFields DEF WiresOK
  <2>5. HubOK' /\ WiresOK'
    BY <1>0, <2>2, <2>4 DEF HubOK, WiresOK, hubVars, spokeVars, bounds
  <2>6. /\ pc'[t] \in {"header", "body"} /\ (pc'[t] = "body" => local'[t].conn = c)
        /\ after'[t] = after[t]
        /\ local'[t].snap = local[t].snap /\ local'[t].job = local[t].job
        /\ ThreadsOK' /\ Moves(t)
    <3>1. CASE local' = [local EXCEPT ![t].targets = @ \ {c}] /\ UNCHANGED <<net, pc>>
      <4>. DEFINE x == [local[t] EXCEPT !.targets = @ \ {c}]
      <4>1. x \in Local /\ x.snap = local[t].snap /\ x.job = local[t].job
        BY <1>0 DEF ThreadsOK, Local
      <4>2. /\ local' = [local EXCEPT ![t] = x] /\ pc' = [pc EXCEPT ![t] = "header"]
            /\ after' = [after EXCEPT ![t] = after[t]]
        BY <1>0, <2>2, <3>1 DEF ThreadsOK
      <4>3. "header" \in Labels /\ after[t] \in Labels
        BY <1>0 DEF ThreadsOK, Labels
      <4>. HIDE DEF x
      <4>4. /\ ThreadsOK' /\ Moves(t)
            /\ local'[t] = x /\ pc'[t] = "header" /\ after'[t] = after[t]
        BY <1>0, <4>1, <4>2, <4>3, StepAlone
      <4>. QED BY <4>1, <4>4
    <3>2. CASE local' = [local EXCEPT ![t].conn = c] /\ Goto(t, "body")
      BY <1>0, <2>2, <2>3, <3>2 DEF ThreadsOK, Goto, Local, Moves, Labels
    <3>. QED BY <2>1, <3>1, <3>2
  <2>7. Place(t)' /\ Holding(t)'
    BY <1>0, <2>2, <2>3, <2>6 DEF Place, Holding, Inside, Publishing, Serving, Calling
  <2>. QED BY <2>5, <2>6, <2>7, TypeParts
<1>6. CASE WriteBody(t)
  <2>1. pc[t] = "body" /\ local[t].conn \in Conns /\ local[t].snap \in Netview
    BY <1>0, <1>6 DEF WriteBody, Holding, Publishing
  <2>2. net' \in [Conns -> Stream]
    <3>1. [body |-> local[t].snap] \in Frame
      BY <2>1 DEF Frame
    <3>. QED BY <1>0, <1>6, <2>1, <3>1, SendFields DEF WriteBody, WiresOK
  <2>3. HubOK' /\ WiresOK'
    BY <1>0, <1>6, <2>2 DEF HubOK, WiresOK, WriteBody, hubVars, spokeVars, bounds
  <2>4. /\ pc'[t] = "header" /\ after'[t] = after[t]
        /\ local'[t].snap = local[t].snap /\ local'[t].job = local[t].job
        /\ ThreadsOK' /\ Moves(t)
    <3>. DEFINE x == [local[t] EXCEPT !.targets = @ \ {local[t].conn}, !.conn = None]
    <3>1. x \in Local /\ x.snap = local[t].snap /\ x.job = local[t].job
      BY <1>0 DEF ThreadsOK, Local
    <3>2. /\ local' = [local EXCEPT ![t] = x] /\ pc' = [pc EXCEPT ![t] = "header"]
          /\ after' = [after EXCEPT ![t] = after[t]]
      BY <1>0, <1>6 DEF ThreadsOK, WriteBody, Goto
    <3>3. "header" \in Labels /\ after[t] \in Labels
      BY <1>0 DEF ThreadsOK, Labels
    <3>. HIDE DEF x
    <3>. QED BY <1>0, <3>1, <3>2, <3>3, StepAlone
  <2>5. Place(t)' /\ Holding(t)'
    BY <1>0, <2>1, <2>4 DEF Place, Holding, Inside, Publishing, Serving, Calling
  <2>. QED BY <2>3, <2>4, <2>5, TypeParts
<1>7. CASE WriteTimeout(t)
  <2>1. PICK c \in local[t].targets :
          /\ pc[t] \in {"header", "body"} /\ faults' = faults + 1 /\ CloseConns({c})
          /\ local' = [local EXCEPT ![t].targets = @ \ {c}, ![t].conn = None]
          /\ Goto(t, "header")
          /\ UNCHANGED <<hubVars, after, arriving, jobs, spokeVars, sweeps>>
    BY <1>7 DEF WriteTimeout
  <2>2. local[t].snap \in Netview
    BY <1>0, <2>1 DEF Holding, Publishing
  <2>3. net' \in [Conns -> Stream]
    BY <1>0, <2>1, CloseConnsFields DEF WiresOK
  <2>4. HubOK' /\ WiresOK'
    BY <1>0, <2>1, <2>3 DEF HubOK, WiresOK, hubVars, spokeVars
  <2>5. /\ pc'[t] = "header" /\ after'[t] = after[t]
        /\ local'[t].snap = local[t].snap /\ local'[t].job = local[t].job
        /\ ThreadsOK' /\ Moves(t)
    <3>. DEFINE x == [local[t] EXCEPT !.targets = @ \ {c}, !.conn = None]
    <3>1. x \in Local /\ x.snap = local[t].snap /\ x.job = local[t].job
      BY <1>0 DEF ThreadsOK, Local
    <3>2. /\ local' = [local EXCEPT ![t] = x] /\ pc' = [pc EXCEPT ![t] = "header"]
          /\ after' = [after EXCEPT ![t] = after[t]]
      BY <1>0, <2>1 DEF ThreadsOK, Goto
    <3>3. "header" \in Labels /\ after[t] \in Labels
      BY <1>0 DEF ThreadsOK, Labels
    <3>. HIDE DEF x
    <3>4. /\ ThreadsOK' /\ Moves(t)
          /\ local'[t] = x /\ pc'[t] = "header" /\ after'[t] = after[t]
      BY <1>0, <3>1, <3>2, <3>3, StepAlone
    <3>. QED BY <3>1, <3>4
  <2>6. Place(t)' /\ Holding(t)'
    BY <1>0, <2>1, <2>2, <2>5 DEF Place, Holding, Inside, Publishing, Serving, Calling
  <2>. QED BY <2>4, <2>5, <2>6, TypeParts
<1>8. CASE Published(t)
  <2>1. HubOK' /\ WiresOK'
    BY <1>0, <1>8 DEF HubOK, WiresOK, Published, hubVars, spokeVars, bounds
  <2>2. /\ pc[t] = "header" /\ pc'[t] = after[t] /\ after'[t] = "idle"
        /\ local'[t].job = local[t].job
        /\ ThreadsOK' /\ Moves(t)
    <3>. DEFINE x == [local[t] EXCEPT !.snap = None]
    <3>1. x \in Local /\ x.job = local[t].job
      BY <1>0 DEF ThreadsOK, Local
    <3>2. /\ local' = [local EXCEPT ![t] = x] /\ pc' = [pc EXCEPT ![t] = after[t]]
          /\ after' = [after EXCEPT ![t] = "idle"]
      BY <1>0, <1>8 DEF ThreadsOK, Published, Goto
    <3>3. after[t] \in Labels /\ "idle" \in Labels
      BY <1>0 DEF ThreadsOK, Labels
    <3>. HIDE DEF x
    <3>4. pc[t] = "header"
      BY <1>8 DEF Published
    <3>. QED BY <1>0, <3>1, <3>2, <3>3, <3>4, StepAlone
  <2>3. Place(t)' /\ Holding(t)'
    BY <1>0, <2>2, ThreadAssumption DEF Place, Holding, Inside, Publishing, Serving, Calling, Threads
  <2>. QED BY <2>1, <2>2, <2>3, TypeParts
<1>. QED BY <1>1, <1>2, <1>3, <1>4, <1>5, <1>6, <1>7, <1>8 DEF Publish

(***************************************************************************)
(* What no step of publish touches: the table, the slots but for what was  *)
(* sent, the streams but for what is on its way to the spokes.             *)
(***************************************************************************)
KeepsStreams ==
    \A c \in Conns : /\ net'[c].peer = net[c].peer
                     /\ net'[c].handed = net[c].handed
                     /\ net'[c].share = net[c].share
                     /\ net'[c].open => net[c].open
                     /\ net'[c].toHub = net[c].toHub \/ net'[c].toHub = <<>>

KeepsSlots ==
    \A s \in Slots : /\ slot'[s].peer = slot[s].peer
                     /\ slot'[s].inbound = slot[s].inbound
                     /\ slot'[s].conn = slot[s].conn
                     /\ slot'[s].stopped = slot[s].stopped
                     /\ slot'[s].first = slot[s].first

LEMMA PublishKeeps ==
    ASSUME HubTypeInv, NEW t \in Threads, Publish(t)
    PROVE  /\ UNCHANGED <<rib, base, caps, disabled, slotOf, closed, assigned, routed,
                          arriving, jobs, session, view>>
           /\ KeepsStreams /\ KeepsSlots
           /\ local'[t].stream = local[t].stream /\ local'[t].share = local[t].share
           /\ local'[t].members = local[t].members
           /\ pc[t] \in Publishing
           /\ \/ pc'[t] \in Publishing /\ after'[t] = after[t]
              \/ pc'[t] = after[t]
<1>0. HubOK /\ ThreadsOK /\ WiresOK /\ Holding(t)
  BY TypeParts DEF HubTypeInv
<1>1. UNCHANGED <<rib, base, caps, disabled, slotOf, closed, assigned, routed,
                  arriving, jobs, session, view>>
  BY DEF Publish, TakeSnapshot, Mark, ReadRoutes, SetPrefixRoutes, WriteHeader, WriteBody,
         WriteTimeout, Published, hubVars, spokeVars
<1>2. KeepsStreams
  <2>1. CASE UNCHANGED net
    BY <2>1 DEF KeepsStreams
  <2>2. CASE WriteHeader(t)
    <3>1. PICK c \in local[t].targets : Send(c, [head |-> local[t].snap.rev]) \/ UNCHANGED net
      BY <2>2 DEF WriteHeader
    <3>2. pc[t] = "header"
      BY <2>2 DEF WriteHeader
    <3>3. c \in Conns /\ local[t].snap \in Netview /\ [head |-> local[t].snap.rev] \in Frame
      BY <1>0, <3>2 DEF ThreadsOK, Local, Holding, Publishing, Netview, Frame
    <3>4. CASE Send(c, [head |-> local[t].snap.rev])
      <4>1. /\ \A d \in Conns \ {c} : net'[d] = net[d]
            /\ net'[c].peer = net[c].peer /\ net'[c].open = net[c].open
            /\ net'[c].handed = net[c].handed /\ net'[c].share = net[c].share
            /\ net'[c].toHub = net[c].toHub
        BY <1>0, <3>3, <3>4, SendFields DEF WiresOK
      <4>. QED BY <4>1 DEF KeepsStreams
    <3>. QED BY <2>1, <3>1, <3>4
  <2>3. CASE WriteBody(t)
    <3>1. pc[t] = "body" /\ (UNCHANGED net \/ Send(local[t].conn, [body |-> local[t].snap]))
      BY <2>3 DEF WriteBody
    <3>2. local[t].conn \in Conns /\ [body |-> local[t].snap] \in Frame
      BY <1>0, <3>1 DEF Holding, Publishing, Frame
    <3>3. CASE Send(local[t].conn, [body |-> local[t].snap])
      <4>. DEFINE c == local[t].conn
      <4>1. /\ \A d \in Conns \ {c} : net'[d] = net[d]
            /\ net'[c].peer = net[c].peer /\ net'[c].open = net[c].open
            /\ net'[c].handed = net[c].handed /\ net'[c].share = net[c].share
            /\ net'[c].toHub = net[c].toHub
        BY <1>0, <3>2, <3>3, SendFields DEF WiresOK
      <4>. HIDE DEF c
      <4>. QED BY <4>1 DEF KeepsStreams
    <3>. QED BY <2>1, <3>1, <3>3
  <2>4. CASE WriteTimeout(t)
    <3>1. PICK c \in local[t].targets : CloseConns({c})
      BY <2>4 DEF WriteTimeout
    <3>. QED BY <1>0, <3>1, CloseConnsFields DEF KeepsStreams, WiresOK
  <2>. QED BY <2>1, <2>2, <2>3, <2>4
           DEF Publish, TakeSnapshot, Mark, ReadRoutes, SetPrefixRoutes, Published
<1>3. KeepsSlots
  <2>1. CASE UNCHANGED slot
    BY <2>1 DEF KeepsSlots
  <2>2. CASE Mark(t)
    BY <1>0, <2>2 DEF Mark, KeepsSlots, HubOK, Slot
  <2>. QED BY <2>1, <2>2
           DEF Publish, TakeSnapshot, ReadRoutes, SetPrefixRoutes, WriteHeader, WriteBody,
               WriteTimeout, Published, hubVars
<1>4. /\ local'[t].stream = local[t].stream /\ local'[t].share = local[t].share
      /\ local'[t].members = local[t].members
  <2>. USE <1>0 DEF ThreadsOK, Local
  <2>1. CASE TakeSnapshot(t)
    BY <2>1 DEF TakeSnapshot
  <2>2. CASE Mark(t)
    BY <2>2 DEF Mark
  <2>3. CASE ReadRoutes(t) \/ SetPrefixRoutes(t)
    BY <2>3 DEF ReadRoutes, SetPrefixRoutes
  <2>4. CASE WriteHeader(t)
    BY <2>4 DEF WriteHeader
  <2>5. CASE WriteBody(t)
    BY <2>5 DEF WriteBody
  <2>6. CASE WriteTimeout(t)
    BY <2>6 DEF WriteTimeout
  <2>7. CASE Published(t)
    BY <2>7 DEF Published
  <2>. QED BY <2>1, <2>2, <2>3, <2>4, <2>5, <2>6, <2>7 DEF Publish
<1>5. pc[t] \in Publishing /\ \/ pc'[t] \in Publishing /\ after'[t] = after[t]
                              \/ pc'[t] = after[t]
  BY <1>0 DEF ThreadsOK, Publish, TakeSnapshot, Mark, ReadRoutes, SetPrefixRoutes, WriteHeader,
              WriteBody, WriteTimeout, Published, Publishing, Goto
<1>. QED BY <1>1, <1>2, <1>3, <1>4, <1>5

(* A step that leaves peers and streams with their owners.                 *)
KeepsPeers == \A s \in Slots : slot'[s].peer = slot[s].peer

LEMMA SlotsAlone ==
    ASSUME HubTypeInv, NEW t \in Threads, Moves(t), KeepsPeers, t \in Slots => HoldingSlot(t)'
    PROVE  \A s \in Slots : HoldingSlot(s)'
<1>. SUFFICES ASSUME NEW s \in Slots \ {t} PROVE HoldingSlot(s)'
  OBVIOUS
<1>1. HoldingSlot(s) /\ pc'[s] = pc[s] /\ local'[s] = local[s] /\ slot'[s].peer = slot[s].peer
  BY DEF HubTypeInv, Moves, KeepsPeers, Threads
<1>. QED BY <1>1 DEF HoldingSlot

LEMMA OwnedKept ==
    ASSUME HubTypeInv, arriving' \in {arriving, None},
           \A c \in Conns : net'[c].peer = net[c].peer /\ (net'[c].open => net[c].open)
    PROVE  Owned'
<1>1. arriving # None => arriving.conn \in Conns
  BY DEF HubTypeInv, TypeOK
<1>. QED BY <1>1 DEF HubTypeInv, Owned

LEMMA ServeType ==
    ASSUME HubTypeInv, NEW s \in Slots, Serve(s)
    PROVE  /\ TypeOK' /\ Moves(s) /\ Place(s)' /\ Holding(s)' /\ HoldingSlot(s)'
           /\ KeepsPeers /\ Owned'
<1>0. /\ HubOK /\ ThreadsOK /\ WiresOK /\ Place(s) /\ Holding(s) /\ HoldingSlot(s) /\ Owned
      /\ s \in Threads /\ s \notin Callers /\ s # Sweeper
  BY TypeParts, ThreadAssumption DEF HubTypeInv, Threads
<1>. DEFINE Rest == Place(s)' /\ Holding(s)' /\ HoldingSlot(s)'
<1>1. CASE TakeStream(s)
  <2>1. HubOK' /\ KeepsPeers
    BY <1>0, <1>1 DEF HubOK, TakeStream, KeepsPeers, Slot
  <2>2. WiresOK' /\ Owned'
    BY <1>0, <1>1 DEF WiresOK, TakeStream, spokeVars, bounds, Owned
  <2>3. slot[s].inbound \in Conns
    BY <1>0, <1>1 DEF HubOK, TakeStream, Slot
  <2>4. /\ pc[s] = "select" /\ pc'[s] = "open" /\ after'[s] = after[s]
        /\ local'[s].stream = slot[s].inbound
        /\ ThreadsOK' /\ Moves(s)
    BY <1>0, <1>1, <2>3 DEF ThreadsOK, TakeStream, Goto, Local, Moves, Labels
  <2>5. Rest
    BY <1>0, <2>1, <2>3, <2>4
       DEF Place, Holding, HoldingSlot, KeepsPeers, Inside, Publishing, Serving
  <2>. QED BY <2>1, <2>2, <2>4, <2>5, TypeParts
<1>2. CASE Drain(s)
  <2>1. HubOK' /\ KeepsPeers
    BY <1>0, <1>2 DEF HubOK, Drain, KeepsPeers, Slot
  <2>2. WiresOK' /\ Owned'
    <3>1. /\ net' \in [Conns -> Stream]
          /\ \A c \in Conns : net'[c].peer = net[c].peer /\ (net'[c].open => net[c].open)
      BY <1>0, <1>2, CloseConnsFields DEF WiresOK, Drain
    <3>2. WiresOK'
      BY <1>0, <1>2, <3>1 DEF WiresOK, Drain, spokeVars, bounds
    <3>. QED BY <1>2, <3>1, <3>2, OwnedKept DEF Drain
  <2>3. /\ pc[s] = "select" /\ pc'[s] = "done" /\ after'[s] = after[s]
        /\ ThreadsOK' /\ Moves(s)
    BY <1>0, <1>2 DEF ThreadsOK, Drain, Goto, Moves, Labels
  <2>4. Rest
    BY <1>0, <2>1, <2>3 DEF Place, Holding, HoldingSlot, KeepsPeers, Inside, Publishing, Serving
  <2>. QED BY <2>1, <2>2, <2>3, <2>4, TypeParts
<1>3. CASE Stop(s)
  <2>1. HubOK' /\ KeepsPeers /\ WiresOK' /\ Owned'
    BY <1>0, <1>3 DEF HubOK, Stop, KeepsPeers, hubVars, WiresOK, spokeVars, bounds, Owned
  <2>3. /\ pc[s] = "select" /\ pc'[s] = "done" /\ after'[s] = after[s]
        /\ ThreadsOK' /\ Moves(s)
    BY <1>0, <1>3 DEF ThreadsOK, Stop, Goto, Moves, Labels
  <2>4. Rest
    BY <1>0, <2>1, <2>3 DEF Place, Holding, HoldingSlot, KeepsPeers, Inside, Publishing, Serving
  <2>. QED BY <2>1, <2>3, <2>4, TypeParts
<1>4. CASE OpenStream(s)
  <2>0. pc[s] = "open" /\ local[s].stream \in Conns
    BY <1>0, <1>4 DEF OpenStream, HoldingSlot, Serving
  <2>1. HubOK' /\ KeepsPeers
    <3>. DEFINE x == [slot[s] EXCEPT !.conn = local[s].stream, !.sent = 0, !.first = TRUE]
    <3>1. x \in Slot /\ x.peer = slot[s].peer
      BY <1>0, <2>0 DEF HubOK, Slot
    <3>2. slot' = [slot EXCEPT ![s] = x]
      BY <1>0, <1>4 DEF OpenStream, HubOK
    <3>. HIDE DEF x
    <3>. QED BY <1>0, <1>4, <3>1, <3>2 DEF HubOK, OpenStream, KeepsPeers
  <2>2. WiresOK' /\ Owned'
    BY <1>0, <1>4 DEF WiresOK, OpenStream, spokeVars, bounds, Owned
  <2>3. /\ pc[s] = "open" /\ pc'[s] = "greet" /\ after'[s] = after[s] /\ local' = local
        /\ ThreadsOK' /\ Moves(s)
    BY <1>0, <1>4 DEF ThreadsOK, OpenStream, Goto, Moves, Labels
  <2>4. Rest
    BY <1>0, <2>1, <2>3 DEF Place, Holding, HoldingSlot, KeepsPeers, Inside, Publishing, Serving
  <2>. QED BY <2>1, <2>2, <2>3, <2>4, TypeParts
<1>5. CASE Greet(s)
  <2>1. HubOK' /\ KeepsPeers /\ WiresOK' /\ Owned'
    BY <1>0, <1>5 DEF HubOK, Greet, KeepsPeers, hubVars, WiresOK, spokeVars, bounds, Owned
  <2>2. /\ pc[s] = "greet" /\ local' = local
        /\ \/ pc'[s] = "snapshot" /\ after'[s] = "read"
           \/ pc'[s] = "read" /\ after'[s] = after[s]
        /\ ThreadsOK' /\ Moves(s)
    BY <1>0, <1>5 DEF ThreadsOK, Greet, Goto, PublishThen, Moves, Labels
  <2>3. Rest
    BY <1>0, <2>1, <2>2 DEF Place, Holding, HoldingSlot, KeepsPeers, Inside, Publishing, Serving
  <2>. QED BY <2>1, <2>2, <2>3, TypeParts
<1>6. CASE ReadClaim(s)
  <2>. DEFINE c == local[s].stream
  <2>1. c \in Conns /\ Head(net[c].toHub) \in SUBSET Prefixes
        /\ Tail(net[c].toHub) \in Seq(SUBSET Prefixes)
    BY <1>0, <1>6 DEF ReadClaim, HoldingSlot, Serving, WiresOK, Stream
  <2>2. HubOK' /\ KeepsPeers
    BY <1>0, <1>6 DEF HubOK, ReadClaim, KeepsPeers, hubVars
  <2>3. /\ net' \in [Conns -> Stream]
        /\ \A d \in Conns : net'[d].peer = net[d].peer /\ (net'[d].open => net[d].open)
    <3>. DEFINE x == [net[c] EXCEPT !.toHub = Tail(@)]
    <3>0. net[c] \in Stream
      BY <1>0, <2>1 DEF WiresOK
    <3>1. x \in Stream /\ x.peer = net[c].peer /\ x.open = net[c].open
      BY <2>1, <3>0 DEF Stream
    <3>2. net' = [net EXCEPT ![c] = x]
      BY <1>0, <1>6 DEF ReadClaim, WiresOK
    <3>. HIDE DEF x
    <3>. QED BY <1>0, <2>1, <3>1, <3>2 DEF WiresOK
  <2>4. WiresOK' /\ Owned'
    <3>1. WiresOK' /\ arriving' = arriving
      BY <1>0, <1>6, <2>3 DEF WiresOK, ReadClaim, spokeVars, bounds
    <3>. QED BY <2>3, <3>1, OwnedKept
  <2>5. /\ pc[s] = "read" /\ pc'[s] \in {"capability", "apply"} /\ after'[s] = after[s]
        /\ local'[s].stream = local[s].stream
        /\ ThreadsOK' /\ Moves(s)
    <3>. DEFINE x == [local[s] EXCEPT !.share = Head(net[c].toHub)]
                l == IF slot[s].first THEN "capability" ELSE "apply"
    <3>1. x \in Local /\ x.stream = local[s].stream
      BY <1>0, <2>1 DEF ThreadsOK, Local
    <3>2. /\ local' = [local EXCEPT ![s] = x] /\ pc' = [pc EXCEPT ![s] = l]
          /\ after' = [after EXCEPT ![s] = after[s]] /\ pc[s] = "read"
      BY <1>0, <1>6 DEF ThreadsOK, ReadClaim, Goto
    <3>3. l \in Labels /\ after[s] \in Labels /\ l \in {"capability", "apply"}
      BY <1>0 DEF ThreadsOK, Labels
    <3>. HIDE DEF x, l
    <3>. QED BY <1>0, <3>1, <3>2, <3>3, StepAlone
  <2>6. Rest
    BY <1>0, <2>2, <2>5 DEF Place, Holding, HoldingSlot, KeepsPeers, Inside, Publishing, Serving
  <2>. QED BY <2>2, <2>4, <2>5, <2>6, TypeParts
<1>7. CASE EndStream(s)
  <2>1. HubOK' /\ KeepsPeers /\ WiresOK' /\ Owned'
    BY <1>0, <1>7 DEF HubOK, EndStream, KeepsPeers, hubVars, WiresOK, spokeVars, bounds, Owned
  <2>2. Idle \in Local
    BY DEF Idle, Local
  <2>3. /\ pc[s] = "read" /\ pc'[s] = "select" /\ after'[s] = after[s]
        /\ ThreadsOK' /\ Moves(s)
    BY <1>0, <1>7, <2>2 DEF ThreadsOK, EndStream, Goto, Moves, Labels
  <2>4. Rest
    BY <1>0, <2>1, <2>3 DEF Place, Holding, HoldingSlot, KeepsPeers, Inside, Publishing, Serving
  <2>. QED BY <2>1, <2>3, <2>4, TypeParts
<1>8. CASE RecordCapability(s)
  <2>1. pc[s] = "capability" /\ slot[s].peer \in Peers
    BY <1>0, <1>8 DEF RecordCapability, HoldingSlot
  <2>2. caps' \in SUBSET Peers
    BY <1>0, <1>8, <2>1 DEF RecordCapability, HubOK
  <2>3. Merged(base, caps', disabled) \in SUBSET Member
    BY <1>0, <2>2, MergedType DEF HubOK
  <2>4. HubOK' /\ KeepsPeers
    BY <1>0, <1>8, <2>2 DEF RecordCapability, HubOK, KeepsPeers
  <2>5. WiresOK' /\ Owned'
    BY <1>0, <1>8 DEF RecordCapability, WiresOK, spokeVars, bounds, Owned
  <2>6. /\ \/ pc'[s] = "replace" /\ after' = after /\ local' = local
           \/ /\ pc'[s] = "members" /\ after'[s] = "replace"
              /\ local'[s].members = Merged(base, caps', disabled)
              /\ local'[s].stream = local[s].stream
        /\ ThreadsOK' /\ Moves(s)
    <3>. DEFINE x == [local[s] EXCEPT !.members = Merged(base, caps', disabled)]
    <3>1. x \in Local /\ x.stream = local[s].stream /\ x.members = Merged(base, caps', disabled)
      BY <1>0, <2>3 DEF ThreadsOK, Local
    <3>2. CASE caps' = caps
      BY <1>0, <1>8, <3>2 DEF RecordCapability, ThreadsOK, Goto, Moves, Labels
    <3>3. CASE caps' # caps
      <4>1. /\ local' = [local EXCEPT ![s] = x] /\ pc' = [pc EXCEPT ![s] = "members"]
            /\ after' = [after EXCEPT ![s] = "replace"]
        BY <1>0, <1>8, <3>3 DEF RecordCapability, ThreadsOK, Goto
      <4>2. "members" \in Labels /\ "replace" \in Labels
        BY DEF Labels
      <4>. HIDE DEF x
      <4>. QED BY <1>0, <3>1, <4>1, <4>2, StepAlone
    <3>. QED BY <3>2, <3>3
  <2>7. Rest
    BY <1>0, <2>1, <2>3, <2>4, <2>6
       DEF Place, Holding, HoldingSlot, KeepsPeers, Inside, Publishing, Serving
  <2>. QED BY <2>4, <2>5, <2>6, <2>7, TypeParts
<1>9. CASE ApplyClaim(s)
  <2>1. pc[s] \in {"replace", "apply"} /\ slot[s].peer \in Peers
        /\ local[s].share \in SUBSET Prefixes
    BY <1>0, <1>9 DEF ApplyClaim, HoldingSlot, ThreadsOK, Local
  <2>2. rib' \in RibState
    BY <1>0, <1>9, <2>1, ApplyClaimsFields DEF ApplyClaim, HubOK
  <2>3. HubOK' /\ KeepsPeers
    BY <1>0, <1>9, <2>2 DEF ApplyClaim, HubOK, KeepsPeers, Slot
  <2>4. WiresOK' /\ Owned'
    BY <1>0, <1>9 DEF ApplyClaim, WiresOK, spokeVars, bounds, Owned
  <2>5. /\ pc'[s] = "snapshot" /\ after'[s] = "read"
        /\ local'[s].stream = local[s].stream
        /\ ThreadsOK' /\ Moves(s)
    <3>. DEFINE x == [local[s] EXCEPT !.share = {}]
    <3>1. x \in Local /\ x.stream = local[s].stream
      BY <1>0 DEF ThreadsOK, Local
    <3>2. /\ local' = [local EXCEPT ![s] = x] /\ pc' = [pc EXCEPT ![s] = "snapshot"]
          /\ after' = [after EXCEPT ![s] = "read"]
      BY <1>0, <1>9 DEF ThreadsOK, ApplyClaim, PublishThen, Goto
    <3>3. "snapshot" \in Labels /\ "read" \in Labels
      BY DEF Labels
    <3>. HIDE DEF x
    <3>. QED BY <1>0, <3>1, <3>2, <3>3, StepAlone
  <2>6. Rest
    BY <1>0, <2>1, <2>3, <2>5 DEF Place, Holding, HoldingSlot, KeepsPeers, Inside, Publishing, Serving
  <2>. QED BY <2>3, <2>4, <2>5, <2>6, TypeParts
<1>. QED BY <1>1, <1>2, <1>3, <1>4, <1>5, <1>6, <1>7, <1>8, <1>9 DEF Serve


LEMMA InstallType ==
    ASSUME HubTypeInv, NEW t \in Threads, InstallMembers(t)
    PROVE  /\ TypeOK' /\ Moves(t) /\ Place(t)' /\ Holding(t)'
           /\ t \in Slots => HoldingSlot(t)'
           /\ KeepsPeers /\ Owned'
<1>0. /\ HubOK /\ ThreadsOK /\ WiresOK /\ Place(t) /\ Holding(t) /\ Owned
      /\ t \in Slots => HoldingSlot(t)
  BY TypeParts DEF HubTypeInv
<1>1. pc[t] = "members" /\ local[t].members \in SUBSET Member
  BY <1>0 DEF InstallMembers, Holding
<1>2. rib' \in RibState
  BY <1>0, <1>1, WithMembersFields DEF InstallMembers, HubOK
<1>3. HubOK' /\ KeepsPeers
  BY <1>0, <1>2 DEF InstallMembers, HubOK, KeepsPeers
<1>4. WiresOK' /\ Owned'
  BY <1>0 DEF InstallMembers, WiresOK, spokeVars, bounds, Owned
<1>5. /\ pc'[t] = "snapshot" /\ after'[t] = after[t]
      /\ local'[t].stream = local[t].stream /\ local'[t].job = local[t].job
      /\ ThreadsOK' /\ Moves(t)
  <2>. DEFINE x == [local[t] EXCEPT !.members = None]
  <2>1. x \in Local /\ x.stream = local[t].stream /\ x.job = local[t].job
    BY <1>0 DEF ThreadsOK, Local
  <2>2. /\ local' = [local EXCEPT ![t] = x] /\ pc' = [pc EXCEPT ![t] = "snapshot"]
        /\ after' = [after EXCEPT ![t] = after[t]]
    BY <1>0 DEF ThreadsOK, InstallMembers, Goto
  <2>3. "snapshot" \in Labels /\ after[t] \in Labels
    BY <1>0 DEF ThreadsOK, Labels
  <2>. HIDE DEF x
  <2>. QED BY <1>0, <2>1, <2>2, <2>3, StepAlone
<1>6. Place(t)' /\ Holding(t)'
  BY <1>0, <1>1, <1>5, ThreadAssumption
     DEF Place, Holding, Inside, Publishing, Serving, Calling, Threads
<1>7. t \in Slots => HoldingSlot(t)'
  BY <1>0, <1>1, <1>3, <1>5 DEF HoldingSlot, KeepsPeers, Inside, Publishing, Serving
<1>. QED BY <1>3, <1>4, <1>5, <1>6, <1>7, TypeParts

(* A call begins with the next job.                                        *)
LEMMA BeginFields ==
    ASSUME HubTypeInv, NEW t \in Callers, NEW j \in NextJob, Begin(t, j),
           NEW l \in Labels, NEW m \in Labels,
           pc' = [pc EXCEPT ![t] = l], after' = [after EXCEPT ![t] = m]
    PROVE  /\ j \in Job /\ jobs' \in Seq(Job) /\ pc[t] = "idle"
           /\ ThreadsOK' /\ Moves(t) /\ pc'[t] = l /\ after'[t] = m /\ local'[t].job = j
<1>0. ThreadsOK /\ WiresOK /\ t \in Threads
  BY TypeParts DEF HubTypeInv, Threads
<1>1. j \in Job /\ Tail(jobs) \in Seq(Job)
  BY <1>0 DEF NextJob, WiresOK
<1>. DEFINE x == [local[t] EXCEPT !.job = j]
<1>2. x \in Local /\ x.job = j
  BY <1>0, <1>1 DEF ThreadsOK, Local
<1>3. local' = [local EXCEPT ![t] = x]
  BY <1>0 DEF ThreadsOK, Begin
<1>. HIDE DEF x
<1>. QED BY <1>0, <1>1, <1>2, <1>3, StepAlone DEF Begin

LEMMA CallType ==
    ASSUME HubTypeInv, NEW t \in Callers, Call(t)
    PROVE  TypeOK' /\ Moves(t) /\ Place(t)' /\ Holding(t)' /\ KeepsPeers /\ Owned'
<1>0. /\ HubOK /\ ThreadsOK /\ WiresOK /\ Place(t) /\ Holding(t) /\ Owned
      /\ t \in Threads /\ t \notin Slots /\ t # Sweeper
  BY TypeParts, ThreadAssumption DEF HubTypeInv, Threads
<1>a. after = [after EXCEPT ![t] = after[t]] /\ after[t] \in Labels
  BY <1>0 DEF ThreadsOK
<1>. DEFINE Rest == Place(t)' /\ Holding(t)'
<1>1. ASSUME NEW j \in NextJob, SetLanAllow(t, j)
      PROVE  TypeOK' /\ Moves(t) /\ Rest /\ KeepsPeers /\ Owned'
  <2>0. "snapshot" \in Labels /\ "end" \in Labels
    BY DEF Labels
  <2>1. /\ j \in Job /\ jobs' \in Seq(Job) /\ ThreadsOK' /\ Moves(t)
        /\ pc'[t] = "snapshot" /\ after'[t] = "end" /\ local'[t].job = j
    BY <1>1, <2>0, BeginFields DEF SetLanAllow, PublishThen, Goto
  <2>2. rib' \in RibState
    BY <1>0, <1>1, <2>1, JobFields, WithAllowFields DEF SetLanAllow, HubOK
  <2>3. HubOK' /\ KeepsPeers /\ WiresOK' /\ Owned'
    BY <1>0, <1>1, <2>1, <2>2
       DEF HubOK, SetLanAllow, KeepsPeers, WiresOK, spokeVars, bounds, Owned
  <2>4. Rest
    BY <1>0, <2>1 DEF Place, Holding, Inside, Publishing, Serving, Calling
  <2>. QED BY <2>1, <2>3, <2>4, TypeParts
<1>3. ASSUME NEW j \in NextJob, SetPeerIPs(t, j)
      PROVE  TypeOK' /\ Moves(t) /\ Rest /\ KeepsPeers /\ Owned'
  <2>0. "load" \in Labels /\ after' = [after EXCEPT ![t] = after[t]]
    BY <1>a, <1>3 DEF Labels, SetPeerIPs
  <2>1. /\ j \in Job /\ jobs' \in Seq(Job) /\ ThreadsOK' /\ Moves(t)
        /\ pc'[t] = "load" /\ local'[t].job = j
    BY <1>a, <1>3, <2>0, BeginFields DEF SetPeerIPs, Goto
  <2>2. HubOK' /\ KeepsPeers /\ WiresOK' /\ Owned'
    BY <1>0, <1>3, <2>1, JobFields
       DEF HubOK, SetPeerIPs, KeepsPeers, WiresOK, spokeVars, bounds, Owned
  <2>3. Rest
    BY <1>0, <2>1 DEF Place, Holding, Inside, Publishing, Serving, Calling
  <2>. QED BY <2>1, <2>2, <2>3, TypeParts
<1>4. ASSUME NEW j \in NextJob, SetPeers(t, j)
      PROVE  TypeOK' /\ Moves(t) /\ Rest /\ KeepsPeers /\ Owned'
  <2>0. "meta" \in Labels /\ after' = [after EXCEPT ![t] = after[t]]
    BY <1>a, <1>4 DEF Labels, SetPeers
  <2>1. /\ j \in Job /\ jobs' \in Seq(Job) /\ ThreadsOK' /\ Moves(t)
        /\ pc'[t] = "meta" /\ local'[t].job = j
    BY <1>a, <1>4, <2>0, BeginFields DEF SetPeers, Goto
  <2>2. j \in Allowlist /\ j.peers \ j.off \in SUBSET Peers
    BY <1>4, <2>1, JobFields DEF SetPeers, Allowlist
  <2>3. HubOK' /\ KeepsPeers /\ WiresOK' /\ Owned'
    BY <1>0, <1>4, <2>1, <2>2
       DEF HubOK, SetPeers, KeepsPeers, WiresOK, spokeVars, bounds, Owned
  <2>4. Rest
    BY <1>0, <2>1, <2>2 DEF Place, Holding, Inside, Publishing, Serving, Calling
  <2>. QED BY <2>1, <2>3, <2>4, TypeParts
<1>5. ASSUME NEW j \in NextJob, Close(t, j)
      PROVE  TypeOK' /\ Moves(t) /\ Rest /\ KeepsPeers /\ Owned'
  <2>1. j \in Job /\ Tail(jobs) \in Seq(Job)
    BY <1>0 DEF NextJob, WiresOK
  <2>2. {slot[s].conn : s \in LiveSlots} \ {None} \in SUBSET Conns
    BY <1>0 DEF HubOK, LiveSlots, Slot
  <2>3. ThreadsOK' /\ Moves(t) /\ pc'[t] = "close" /\ local'[t].job = j
    <3>. DEFINE cs == {slot[s].conn : s \in LiveSlots} \ {None}
                x == [local[t] EXCEPT !.job = j, !.targets = cs]
    <3>1. x \in Local /\ x.job = j
      BY <1>0, <2>1, <2>2 DEF ThreadsOK, Local
    <3>2. /\ local' = [local EXCEPT ![t] = x] /\ pc' = [pc EXCEPT ![t] = "close"]
          /\ after' = [after EXCEPT ![t] = after[t]] /\ "close" \in Labels
      BY <1>a, <1>0, <1>5 DEF ThreadsOK, Close, Goto, Labels
    <3>. HIDE DEF x
    <3>. QED BY <1>0, <1>a, <3>1, <3>2, StepAlone
  <2>4. HubOK' /\ KeepsPeers /\ WiresOK' /\ Owned'
    BY <1>0, <1>5, <2>1 DEF HubOK, Close, KeepsPeers, WiresOK, spokeVars, bounds, Owned
  <2>5. Rest
    BY <1>0, <2>1, <2>3 DEF Place, Holding, Inside, Publishing, Serving, Calling
  <2>. QED BY <2>3, <2>4, <2>5, TypeParts
<1>6. CASE SetPeerMeta(t)
  <2>1. pc[t] = "meta" /\ local[t].job \in Allowlist /\ disabled' \in SUBSET Peers
    BY <1>0, <1>6 DEF SetPeerMeta, Holding, Allowlist
  <2>2. Merged(base, caps, disabled') \in SUBSET Member
    BY <1>0, <2>1, MergedType DEF HubOK
  <2>3. HubOK' /\ KeepsPeers /\ WiresOK' /\ Owned'
    BY <1>0, <1>6, <2>1 DEF HubOK, SetPeerMeta, KeepsPeers, WiresOK, spokeVars, bounds, Owned
  <2>4. /\ ThreadsOK' /\ Moves(t) /\ local'[t].job = local[t].job
        /\ \/ pc'[t] = "load"
           \/ /\ pc'[t] = "members" /\ after'[t] = "load"
              /\ local'[t].members = Merged(base, caps, disabled')
    <3>1. CASE disabled' = disabled
      BY <1>0, <1>6, <3>1 DEF SetPeerMeta, ThreadsOK, Goto, Moves, Labels
    <3>2. CASE disabled' # disabled
      <4>. DEFINE x == [local[t] EXCEPT !.members = Merged(base, caps, disabled')]
      <4>1. /\ x \in Local /\ x.members = Merged(base, caps, disabled')
            /\ x.job = local[t].job
        BY <1>0, <2>2 DEF ThreadsOK, Local
      <4>2. /\ local' = [local EXCEPT ![t] = x] /\ pc' = [pc EXCEPT ![t] = "members"]
            /\ after' = [after EXCEPT ![t] = "load"]
            /\ "members" \in Labels /\ "load" \in Labels
        BY <1>0, <1>6, <3>2 DEF SetPeerMeta, ThreadsOK, Goto, Labels
      <4>. HIDE DEF x
      <4>. QED BY <1>0, <4>1, <4>2, StepAlone
    <3>. QED BY <3>1, <3>2
  <2>5. Rest
    BY <1>0, <2>1, <2>2, <2>4 DEF Place, Holding, Inside, Publishing, Serving, Calling
  <2>. QED BY <2>3, <2>4, <2>5, TypeParts
<1>7. CASE LoadMembers(t)
  <2>1. HubOK' /\ KeepsPeers /\ WiresOK' /\ Owned'
    BY <1>0, <1>7
       DEF HubOK, LoadMembers, KeepsPeers, hubVars, WiresOK, spokeVars, bounds, Owned
  <2>2. /\ ThreadsOK' /\ Moves(t) /\ pc[t] = "load" /\ pc'[t] = "base"
        /\ local'[t].members = assigned /\ local'[t].job = local[t].job
    <3>. DEFINE x == [local[t] EXCEPT !.members = assigned]
    <3>1. x \in Local /\ x.members = assigned /\ x.job = local[t].job
      BY <1>0 DEF ThreadsOK, Local, HubOK
    <3>2. /\ local' = [local EXCEPT ![t] = x] /\ pc' = [pc EXCEPT ![t] = "base"]
          /\ after' = [after EXCEPT ![t] = after[t]] /\ "base" \in Labels /\ pc[t] = "load"
      BY <1>0, <1>a, <1>7 DEF LoadMembers, ThreadsOK, Goto, Labels
    <3>. HIDE DEF x
    <3>. QED BY <1>0, <1>a, <3>1, <3>2, StepAlone
  <2>3. Rest
    BY <1>0, <2>2 DEF HubOK, Place, Holding, Inside, Publishing, Serving, Calling
  <2>. QED BY <2>1, <2>2, <2>3, TypeParts
<1>8. CASE SetBaseMembers(t)
  <2>1. pc[t] = "base" /\ base' = local[t].members /\ base' \in SUBSET Seat
    BY <1>0, <1>8 DEF SetBaseMembers, Holding
  <2>2. Merged(base', caps, disabled) \in SUBSET Member
    BY <1>0, <2>1, MergedType DEF HubOK
  <2>3. HubOK' /\ KeepsPeers /\ WiresOK' /\ Owned'
    BY <1>0, <1>8, <2>1
       DEF HubOK, SetBaseMembers, KeepsPeers, WiresOK, spokeVars, bounds, Owned
  <2>4. /\ ThreadsOK' /\ Moves(t) /\ pc'[t] = "members" /\ local'[t].job = local[t].job
        /\ local'[t].members = Merged(base', caps, disabled)
        /\ \/ after'[t] = "unregister" /\ "peers" \in DOMAIN local[t].job
           \/ after'[t] = "end"
    <3>. DEFINE x == [local[t] EXCEPT !.members = Merged(base', caps, disabled)]
                m == IF "peers" \in DOMAIN local[t].job THEN "unregister" ELSE "end"
    <3>1. /\ x \in Local /\ x.members = Merged(base', caps, disabled)
          /\ x.job = local[t].job
      BY <1>0, <2>2 DEF ThreadsOK, Local
    <3>2. /\ local' = [local EXCEPT ![t] = x] /\ pc' = [pc EXCEPT ![t] = "members"]
          /\ after' = [after EXCEPT ![t] = m] /\ "members" \in Labels /\ m \in Labels
      BY <1>0, <1>8 DEF SetBaseMembers, ThreadsOK, Goto, Labels
    <3>3. (m = "unregister" /\ "peers" \in DOMAIN local[t].job) \/ m = "end"
      OBVIOUS
    <3>. HIDE DEF x, m
    <3>. QED BY <1>0, <3>1, <3>2, <3>3, StepAlone
  <2>5. after'[t] = "unregister" => local'[t].job \in Allowlist
    <3>1. local[t].job \in Job
      BY <1>0, <2>1 DEF Holding
    <3>. QED BY <2>4, <3>1, JobFields
  <2>6. Rest
    BY <1>0, <2>1, <2>2, <2>4, <2>5 DEF Place, Holding, Inside, Publishing, Serving, Calling
  <2>. QED BY <2>3, <2>4, <2>6, TypeParts
<1>9. CASE Unregister(t)
  <2>1. PICK o \in local[t].job.peers \cap local[t].job.off :
          /\ local' = [local EXCEPT ![t].job.off = @ \ {o}]
          /\ \/ UNCHANGED <<slotOf, slot, net>>
             \/ /\ slotOf[o] # None
                /\ slotOf' = [slotOf EXCEPT ![o] = None]
                /\ slot' = [slot EXCEPT ![slotOf[o]].stopped = TRUE]
                /\ CloseConns({slot[slotOf[o]].conn})
    BY <1>9 DEF Unregister
  <2>2. /\ pc[t] = "unregister"
        /\ UNCHANGED <<rib, base, caps, disabled, publishedRev, closed, assigned, routed, sink,
                       pc, after, arriving, jobs, spokeVars, bounds>>
    BY <1>9 DEF Unregister
  <2>3. local[t].job \in Allowlist /\ o \in Peers
    BY <1>0, <2>1, <2>2 DEF Holding, Allowlist
  <2>4. /\ slotOf' \in [Peers -> Slots \cup {None}] /\ slot' \in [Slots -> Slot] /\ KeepsPeers
        /\ net' \in [Conns -> Stream]
        /\ \A c \in Conns : net'[c].peer = net[c].peer /\ (net'[c].open => net[c].open)
    <3>1. CASE UNCHANGED <<slotOf, slot, net>>
      BY <1>0, <3>1 DEF HubOK, WiresOK, KeepsPeers
    <3>2. CASE /\ slotOf[o] # None
               /\ slotOf' = [slotOf EXCEPT ![o] = None]
               /\ slot' = [slot EXCEPT ![slotOf[o]].stopped = TRUE]
               /\ CloseConns({slot[slotOf[o]].conn})
      <4>. DEFINE s == slotOf[o]
                  x == [slot[s] EXCEPT !.stopped = TRUE]
      <4>0. s \in Slots
        BY <1>0, <2>3, <3>2 DEF HubOK
      <4>1. x \in Slot /\ x.peer = slot[s].peer
        <5>. HIDE DEF s
        <5>. QED BY <1>0, <4>0 DEF HubOK, Slot
      <4>2. slot' = [slot EXCEPT ![s] = x]
        BY <1>0, <3>2 DEF HubOK
      <4>3. slotOf' \in [Peers -> Slots \cup {None}]
        BY <1>0, <3>2 DEF HubOK
      <4>. HIDE DEF x, s
      <4>4. slot' \in [Slots -> Slot] /\ KeepsPeers
        BY <1>0, <4>0, <4>1, <4>2 DEF HubOK, KeepsPeers
      <4>. QED BY <1>0, <3>2, <4>3, <4>4, CloseConnsFields DEF WiresOK
    <3>. QED BY <2>1, <3>1, <3>2
  <2>5. HubOK' /\ WiresOK' /\ Owned'
    <3>1. HubOK' /\ WiresOK'
      BY <1>0, <2>2, <2>4 DEF HubOK, WiresOK, spokeVars, bounds
    <3>. QED BY <2>2, <2>4, <3>1, OwnedKept
  <2>6. /\ ThreadsOK' /\ Moves(t) /\ pc'[t] = "unregister" /\ local'[t].job \in Allowlist
    <3>. DEFINE y == [local[t].job EXCEPT !.off = @ \ {o}]
                x == [local[t] EXCEPT !.job = y]
    <3>1. y \in Allowlist
      BY <2>3 DEF Allowlist
    <3>2. y \in Job
      BY <3>1 DEF Job
    <3>3. local' = [local EXCEPT ![t] = x]
      BY <1>0, <2>1 DEF ThreadsOK
    <3>. HIDE DEF y
    <3>4. x \in Local /\ x.job = y
      BY <1>0, <3>2 DEF ThreadsOK, Local
    <3>5. pc' = [pc EXCEPT ![t] = "unregister"] /\ "unregister" \in Labels
          /\ after' = [after EXCEPT ![t] = after[t]]
      BY <1>0, <1>a, <2>2 DEF ThreadsOK, Labels
    <3>. HIDE DEF x
    <3>. QED BY <1>0, <1>a, <3>1, <3>3, <3>4, <3>5, StepAlone
  <2>7. Rest
    <3>1. local'[t].job \in Job
      BY <2>6 DEF Job
    <3>. QED BY <1>0, <2>6, <3>1 DEF Place, Holding, Inside, Publishing, Serving, Calling
  <2>. QED BY <2>4, <2>5, <2>6, <2>7, TypeParts
<1>10. CASE Unregistered(t)
  <2>1. HubOK' /\ KeepsPeers /\ WiresOK' /\ Owned'
    BY <1>0, <1>10
       DEF HubOK, Unregistered, KeepsPeers, hubVars, WiresOK, spokeVars, bounds, Owned
  <2>2. /\ ThreadsOK' /\ Moves(t) /\ pc[t] = "unregister" /\ pc'[t] = "end" /\ local' = local
    BY <1>0, <1>10 DEF Unregistered, ThreadsOK, Goto, Moves, Labels
  <2>3. Rest
    BY <1>0, <2>2 DEF Place, Holding, Inside, Publishing, Serving, Calling
  <2>. QED BY <2>1, <2>2, <2>3, TypeParts
<1>11. CASE CloseStreams(t)
  <2>1. slot' \in [Slots -> Slot] /\ KeepsPeers
    <3>. DEFINE x(s) == [slot[s] EXCEPT !.stopped = @ \/ s \in LiveSlots]
    <3>1. ASSUME NEW s \in Slots PROVE x(s) \in Slot /\ x(s).peer = slot[s].peer
      <4>. DEFINE b == slot[s].stopped \/ s \in LiveSlots
      <4>1. b \in BOOLEAN /\ x(s) = [slot[s] EXCEPT !.stopped = b]
        BY <1>0 DEF HubOK, Slot
      <4>. HIDE DEF b, x
      <4>. QED BY <1>0, <4>1 DEF HubOK, Slot
    <3>2. slot' = [s \in Slots |-> x(s)]
      BY <1>11 DEF CloseStreams
    <3>. HIDE DEF x
    <3>. QED BY <3>1, <3>2 DEF KeepsPeers
  <2>2. net' \in [Conns -> Stream]
        /\ \A c \in Conns : net'[c].peer = net[c].peer /\ (net'[c].open => net[c].open)
    BY <1>0, <1>11, CloseConnsFields DEF CloseStreams, WiresOK
  <2>3. HubOK' /\ WiresOK' /\ Owned'
    <3>1. HubOK' /\ WiresOK'
      BY <1>0, <1>11, <2>1, <2>2 DEF HubOK, CloseStreams, WiresOK, spokeVars, bounds
    <3>. QED BY <1>11, <2>2, <3>1, OwnedKept DEF CloseStreams
  <2>4. /\ ThreadsOK' /\ Moves(t) /\ pc[t] = "close" /\ pc'[t] = "end"
        /\ local'[t].job = local[t].job
    <3>. DEFINE x == [local[t] EXCEPT !.targets = {}]
    <3>1. x \in Local /\ x.job = local[t].job
      BY <1>0 DEF ThreadsOK, Local
    <3>2. /\ local' = [local EXCEPT ![t] = x] /\ pc' = [pc EXCEPT ![t] = "end"]
          /\ after' = [after EXCEPT ![t] = after[t]] /\ "end" \in Labels /\ pc[t] = "close"
      BY <1>0, <1>a, <1>11 DEF CloseStreams, ThreadsOK, Goto, Labels
    <3>. HIDE DEF x
    <3>. QED BY <1>0, <1>a, <3>1, <3>2, StepAlone
  <2>5. Rest
    BY <1>0, <2>4 DEF Place, Holding, Inside, Publishing, Serving, Calling
  <2>. QED BY <2>1, <2>3, <2>4, <2>5, TypeParts
<1>12. CASE End(t)
  <2>1. HubOK' /\ KeepsPeers /\ WiresOK' /\ Owned'
    BY <1>0, <1>12 DEF HubOK, End, KeepsPeers, hubVars, WiresOK, spokeVars, bounds, Owned
  <2>2. Idle \in Local
    BY DEF Idle, Local
  <2>3. ThreadsOK' /\ Moves(t) /\ pc'[t] = "idle"
    BY <1>0, <1>12, <2>2 DEF End, ThreadsOK, Goto, Moves, Labels
  <2>4. Rest
    BY <1>0, <2>3 DEF Place, Holding, Inside, Publishing, Serving, Calling
  <2>. QED BY <2>1, <2>3, <2>4, TypeParts
<1>. QED BY <1>1, <1>3, <1>4, <1>5, <1>6, <1>7, <1>8, <1>9, <1>10, <1>11, <1>12 DEF Call


LEMMA SweepType ==
    ASSUME HubTypeInv, Sweep
    PROVE  TypeOK' /\ Moves(Sweeper) /\ Place(Sweeper)' /\ Holding(Sweeper)'
           /\ KeepsPeers /\ Owned' /\ RevStep(rib, rib')
<1>0. /\ HubOK /\ ThreadsOK /\ WiresOK /\ Place(Sweeper) /\ Owned
      /\ Sweeper \in Threads /\ Sweeper \notin Slots \cup Callers
  BY TypeParts, ThreadAssumption DEF HubTypeInv, Threads
<1>1. PICK quiet \in SUBSET Prefixes : rib' = Without(rib, quiet)
  BY DEF Sweep
<1>2. rib' \in RibState /\ RevStep(rib, rib')
  BY <1>0, <1>1, WithoutFields, WithoutRev DEF HubOK
<1>3. HubOK' /\ KeepsPeers /\ WiresOK' /\ Owned'
  BY <1>0, <1>2 DEF Sweep, HubOK, WiresOK, KeepsPeers, Owned, spokeVars
<1>4. ThreadsOK' /\ Moves(Sweeper) /\ pc'[Sweeper] = "snapshot" /\ after'[Sweeper] = "idle"
  <2>1. local' = [local EXCEPT ![Sweeper] = local[Sweeper]] /\ local[Sweeper] \in Local
    BY <1>0 DEF Sweep, ThreadsOK
  <2>2. /\ pc' = [pc EXCEPT ![Sweeper] = "snapshot"] /\ after' = [after EXCEPT ![Sweeper] = "idle"]
        /\ "snapshot" \in Labels /\ "idle" \in Labels
    BY DEF Sweep, PublishThen, Goto, Labels
  <2>. QED BY <1>0, <2>1, <2>2, StepAlone
<1>5. Place(Sweeper)' /\ Holding(Sweeper)'
  BY <1>0, <1>4 DEF Place, Holding, Inside, Publishing
<1>. QED BY <1>2, <1>3, <1>4, <1>5, TypeParts

(* A new slot is its spoke's and waits for a stream.                       *)
LEMMA CreateType ==
    ASSUME HubTypeInv, NEW o \in Peers, NEW s \in Slots, Create(o, s), UNCHANGED <<after, local>>
    PROVE  /\ slot' \in [Slots -> Slot] /\ slotOf' \in [Peers -> Slots \cup {None}]
           /\ ThreadsOK' /\ slotOf'[o] = s
           /\ \A t \in Threads : Place(t)' /\ Holding(t)'
           /\ \A q \in Slots : HoldingSlot(q)'
<1>0. /\ HubOK /\ ThreadsOK /\ Holding(s) /\ \A q \in Slots : HoldingSlot(q)
      /\ s \in Threads /\ s \notin Callers /\ s # Sweeper
  BY TypeParts, ThreadAssumption DEF HubTypeInv, Threads
<1>. DEFINE x == [slot[s] EXCEPT !.peer = o]
<1>1. x \in Slot /\ x.peer = o
  BY <1>0 DEF HubOK, Slot
<1>2. slot' = [slot EXCEPT ![s] = x]
  BY <1>0 DEF Create, HubOK
<1>. HIDE DEF x
<1>3. /\ slot' \in [Slots -> Slot] /\ slot'[s].peer = o
      /\ \A q \in Slots \ {s} : slot'[q] = slot[q]
      /\ slotOf' \in [Peers -> Slots \cup {None}] /\ slotOf'[o] = s
  BY <1>0, <1>1, <1>2 DEF HubOK, Create
<1>4. /\ pc[s] = "unused" /\ ThreadsOK' /\ Moves(s) /\ pc'[s] = "select"
      /\ \A q \in Slots \ {s} : pc'[q] = pc[q]
  BY <1>0 DEF ThreadsOK, Create, Goto, Labels, Moves, Threads
<1>5. Place(s)' /\ Holding(s)'
  BY <1>0, <1>4 DEF Place, Holding, Inside, Publishing
<1>6. \A q \in Slots : HoldingSlot(q)'
  BY <1>0, <1>3, <1>4 DEF HoldingSlot, Serving, Inside, Publishing
<1>. QED BY <1>0, <1>3, <1>4, <1>5, <1>6, MovesAlone

(* A step outside the threads.                                             *)
LEMMA ThreadsStay ==
    ASSUME HubTypeInv, UNCHANGED <<pc, after, local>>, KeepsPeers
    PROVE  /\ ThreadsOK' /\ \A t \in Threads : Place(t)' /\ Holding(t)'
           /\ \A s \in Slots : HoldingSlot(s)'
<1>1. ThreadsOK'
  BY TypeParts DEF HubTypeInv, ThreadsOK
<1>2. \A t \in Threads : Place(t)' /\ Holding(t)'
  BY DEF HubTypeInv, Place, Holding
<1>3. \A s \in Slots : HoldingSlot(s)'
  BY DEF HubTypeInv, HoldingSlot, KeepsPeers
<1>. QED BY <1>1, <1>2, <1>3

LEMMA RegisterType ==
    ASSUME HubTypeInv, NEW o \in Peers, Register(o)
    PROVE  HubTypeInv'
<1>0. HubOK /\ ThreadsOK /\ WiresOK /\ Owned
  BY TypeParts DEF HubTypeInv
<1>1. PICK s \in Slots : Create(o, s)
  BY DEF Register
<1>2. /\ slot' \in [Slots -> Slot] /\ slotOf' \in [Peers -> Slots \cup {None}] /\ ThreadsOK'
      /\ \A t \in Threads : Place(t)' /\ Holding(t)'
      /\ \A q \in Slots : HoldingSlot(q)'
  BY <1>1, CreateType DEF Register
<1>3. HubOK' /\ WiresOK' /\ Owned'
  <2>1. HubOK'
    BY <1>0, <1>2 DEF Register, HubOK
  <2>2. WiresOK' /\ Owned'
    BY <1>0 DEF Register, WiresOK, Owned, spokeVars, bounds
  <2>. QED BY <2>1, <2>2
<1>. QED BY <1>2, <1>3, TypeParts DEF HubTypeInv

LEMMA HostType ==
    ASSUME HubTypeInv, Host
    PROVE  HubTypeInv'
<1>0. HubOK /\ ThreadsOK /\ WiresOK /\ Owned
  BY TypeParts DEF HubTypeInv
<1>1. ASSUME NEW c \in Conns, Dispatch(c) PROVE HubTypeInv'
  <2>1. HubOK' /\ KeepsPeers
    BY <1>0, <1>1 DEF HubOK, Dispatch, KeepsPeers, hubVars
  <2>2. CASE net' = [net EXCEPT ![c].handed = TRUE] /\ arriving' = [conn |-> c, slot |-> None]
    <3>1. /\ net' \in [Conns -> Stream]
          /\ \A d \in Conns : net'[d].peer = net[d].peer /\ net'[d].open = net[d].open
      <4>. DEFINE x == [net[c] EXCEPT !.handed = TRUE]
      <4>1. net[c] \in Stream
        BY <1>0 DEF WiresOK
      <4>2. x \in Stream /\ x.peer = net[c].peer /\ x.open = net[c].open
        BY <4>1 DEF Stream
      <4>3. net \in [Conns -> Stream] /\ net' = [net EXCEPT ![c] = x]
        BY <1>0, <2>2 DEF WiresOK
      <4>. HIDE DEF x
      <4>. QED BY <4>2, <4>3
    <3>2. WiresOK'
      BY <1>0, <1>1, <2>2, <3>1 DEF WiresOK, Dispatch, spokeVars, bounds
    <3>3. net[c].open
      BY <1>1 DEF Dispatch
    <3>4. Owned'
      BY <1>0, <2>2, <3>1, <3>3 DEF Owned
    <3>5. ThreadsOK' /\ \A t \in Threads : Place(t)' /\ Holding(t)'
      BY <1>1, <2>1, ThreadsStay DEF Dispatch
    <3>6. \A s \in Slots : HoldingSlot(s)'
      BY <1>1, <2>1, ThreadsStay DEF Dispatch
    <3>. QED BY <2>1, <3>2, <3>4, <3>5, <3>6, TypeParts DEF HubTypeInv
  <2>3. CASE CloseConns({c}) /\ UNCHANGED arriving
    <3>1. /\ net' \in [Conns -> Stream]
          /\ \A d \in Conns : net'[d].peer = net[d].peer /\ (net'[d].open => net[d].open)
      BY <1>0, <2>3, CloseConnsFields DEF WiresOK
    <3>2. WiresOK'
      BY <1>0, <1>1, <2>3, <3>1 DEF WiresOK, Dispatch, spokeVars, bounds
    <3>3. Owned'
      BY <2>3, <3>1, OwnedKept
    <3>5. ThreadsOK' /\ \A t \in Threads : Place(t)' /\ Holding(t)'
      BY <1>1, <2>1, ThreadsStay DEF Dispatch
    <3>6. \A s \in Slots : HoldingSlot(s)'
      BY <1>1, <2>1, ThreadsStay DEF Dispatch
    <3>. QED BY <2>1, <3>2, <3>3, <3>5, <3>6, TypeParts DEF HubTypeInv
  <2>. QED BY <1>1, <2>2, <2>3 DEF Dispatch
<1>2. CASE Deliver
  <2>. DEFINE o == net[arriving.conn].peer
  <2>0. arriving # None /\ arriving \in [conn : Conns, slot : Slots \cup {None}] /\ o \in Peers
    BY <1>0, <1>2 DEF WiresOK, Deliver, Owned
  <2>1. CASE closed # "open"
    <3>1. /\ net' \in [Conns -> Stream]
          /\ \A d \in Conns : net'[d].peer = net[d].peer /\ (net'[d].open => net[d].open)
      BY <1>0, <1>2, <2>1, CloseConnsFields DEF WiresOK, Deliver
    <3>2. HubOK' /\ KeepsPeers
      BY <1>0, <1>2, <2>1 DEF HubOK, Deliver, KeepsPeers
    <3>3. arriving' = None /\ UNCHANGED <<pc, after, local>>
      BY <1>2, <2>1 DEF Deliver
    <3>4. WiresOK' /\ Owned'
      <4>1. WiresOK'
        BY <1>0, <1>2, <3>1, <3>3 DEF WiresOK, Deliver, spokeVars, bounds
      <4>. QED BY <3>1, <3>3, <4>1, OwnedKept
    <3>. QED BY <3>2, <3>3, <3>4, ThreadsStay, TypeParts DEF HubTypeInv
  <2>2. CASE closed = "open" /\ slotOf[o] # None /\ UNCHANGED <<slot, slotOf, pc>>
    <3>1. arriving' = [arriving EXCEPT !.slot = slotOf[o]] /\ slotOf[o] \in Slots
      BY <1>0, <1>2, <2>0, <2>2 DEF Deliver, HubOK
    <3>2. arriving' \in [conn : Conns, slot : Slots \cup {None}] /\ arriving'.conn = arriving.conn
      BY <2>0, <3>1
    <3>3. HubOK' /\ KeepsPeers /\ UNCHANGED <<pc, after, local, net>>
      BY <1>0, <1>2, <2>2 DEF HubOK, Deliver, KeepsPeers
    <3>4. WiresOK'
      BY <1>0, <1>2, <3>2, <3>3 DEF WiresOK, Deliver, spokeVars, bounds
    <3>5. Owned'
      BY <1>0, <2>0, <3>2, <3>3 DEF Owned
    <3>. QED BY <3>3, <3>4, <3>5, ThreadsStay, TypeParts DEF HubTypeInv
  <2>3. ASSUME NEW s \in Slots, closed = "open", Create(o, s) PROVE HubTypeInv'
    <3>1. /\ slot' \in [Slots -> Slot] /\ slotOf' \in [Peers -> Slots \cup {None}] /\ ThreadsOK'
          /\ slotOf'[o] = s
          /\ \A t \in Threads : Place(t)' /\ Holding(t)'
          /\ \A q \in Slots : HoldingSlot(q)'
      <4>1. UNCHANGED <<after, local>>
        BY <1>2 DEF Deliver
      <4>. HIDE DEF o
      <4>. QED BY <2>0, <2>3, <4>1, CreateType
    <3>2. arriving' = [arriving EXCEPT !.slot = s]
      BY <1>2, <2>3, <3>1 DEF Deliver
    <3>3. arriving' \in [conn : Conns, slot : Slots \cup {None}] /\ arriving'.conn = arriving.conn
      BY <2>0, <3>2
    <3>4. HubOK' /\ UNCHANGED net
      BY <1>0, <1>2, <2>3, <3>1 DEF HubOK, Deliver
    <3>5. WiresOK'
      BY <1>0, <1>2, <3>3, <3>4 DEF WiresOK, Deliver, spokeVars, bounds
    <3>6. Owned'
      BY <1>0, <2>0, <3>3, <3>4 DEF Owned
    <3>. QED BY <3>1, <3>4, <3>5, <3>6, TypeParts DEF HubTypeInv
  <2>. QED BY <1>2, <2>1, <2>2, <2>3 DEF Deliver
<1>3. CASE Enqueue
  <2>0. /\ arriving # None /\ arriving \in [conn : Conns, slot : Slots \cup {None}]
        /\ arriving.slot \in Slots /\ arriving' = None
    BY <1>0, <1>3 DEF WiresOK, Enqueue
  <2>1. /\ slot' \in [Slots -> Slot] /\ KeepsPeers
        /\ net' \in [Conns -> Stream]
        /\ \A d \in Conns : net'[d].peer = net[d].peer /\ (net'[d].open => net[d].open)
    <3>1. CASE slot' = [slot EXCEPT ![arriving.slot].inbound = arriving.conn] /\ UNCHANGED net
      <4>. DEFINE q == arriving.slot
                  x == [slot[q] EXCEPT !.inbound = arriving.conn]
      <4>1. q \in Slots /\ slot' = [slot EXCEPT ![q] = x]
        BY <1>0, <2>0, <3>1 DEF HubOK
      <4>2. arriving.conn \in Conns
        BY <2>0
      <4>3. x \in Slot /\ x.peer = slot[q].peer
        <5>. HIDE DEF q
        <5>. QED BY <1>0, <4>1, <4>2 DEF HubOK, Slot
      <4>. HIDE DEF q, x
      <4>. QED BY <1>0, <3>1, <4>1, <4>3 DEF HubOK, WiresOK, KeepsPeers
    <3>2. CASE CloseConns({arriving.conn}) /\ UNCHANGED slot
      BY <1>0, <3>2, CloseConnsFields DEF HubOK, WiresOK, KeepsPeers
    <3>. QED BY <1>3, <3>1, <3>2 DEF Enqueue
  <2>2. HubOK' /\ UNCHANGED <<pc, after, local>>
    BY <1>0, <1>3, <2>1 DEF HubOK, Enqueue
  <2>3. WiresOK'
    BY <1>0, <1>3, <2>0, <2>1 DEF WiresOK, Enqueue, spokeVars, bounds
  <2>4. Owned'
    BY <2>0, <2>1, OwnedKept
  <2>. QED BY <2>1, <2>2, <2>3, <2>4, ThreadsStay, TypeParts DEF HubTypeInv
<1>. QED BY <1>1, <1>2, <1>3 DEF Host


(* A spoke's step, and a stream lost, change streams and views only.       *)
LEMMA WireType ==
    ASSUME HubTypeInv, UNCHANGED <<hubVars, pc, after, local, arriving, jobs>>,
           net' \in [Conns -> Stream], session' \in [Peers -> Conns \cup {None}],
           view' \in [Peers -> Netview \cup {None}], faults' \in Nat, UNCHANGED sweeps,
           \A c \in Conns : net'[c].open => net'[c].peer \in Peers,
           arriving # None => net'[arriving.conn].peer \in Peers
    PROVE  HubTypeInv'
<1>0. HubOK /\ ThreadsOK /\ WiresOK
  BY TypeParts DEF HubTypeInv
<1>1. HubOK' /\ KeepsPeers
  BY <1>0 DEF HubOK, hubVars, KeepsPeers
<1>2. WiresOK' /\ Owned'
  BY <1>0 DEF WiresOK, Owned
<1>. QED BY <1>1, <1>2, ThreadsStay, TypeParts DEF HubTypeInv

(* A stream changed.                                                       *)
LEMMA StreamReplaced ==
    ASSUME HubTypeInv, NEW c \in Conns, NEW x \in Stream, net' = [net EXCEPT ![c] = x],
           x.open => x.peer \in Peers, x.peer \in Peers \/ x.peer = net[c].peer
    PROVE  /\ net' \in [Conns -> Stream] /\ net'[c] = x
           /\ \A d \in Conns \ {c} : net'[d] = net[d]
           /\ \A d \in Conns : net'[d].open => net'[d].peer \in Peers
           /\ arriving # None => net'[arriving.conn].peer \in Peers
<1>0. WiresOK /\ Owned
  BY TypeParts DEF HubTypeInv
<1>1. /\ net' \in [Conns -> Stream] /\ net'[c] = x
      /\ \A d \in Conns \ {c} : net'[d] = net[d]
  BY <1>0 DEF WiresOK
<1>2. \A d \in Conns : net'[d].open => net'[d].peer \in Peers
  BY <1>0, <1>1 DEF Owned
<1>3. ASSUME arriving # None PROVE net'[arriving.conn].peer \in Peers
  <2>1. arriving.conn \in Conns /\ net[arriving.conn].peer \in Peers
    BY <1>0, <1>3 DEF WiresOK, Owned
  <2>. QED BY <1>1, <2>1
<1>. QED BY <1>1, <1>2, <1>3

LEMMA CloseKeepsOwned ==
    ASSUME HubTypeInv, NEW cs, CloseConns(cs)
    PROVE  /\ net' \in [Conns -> Stream]
           /\ \A d \in Conns : net'[d].open => net'[d].peer \in Peers
           /\ arriving # None => net'[arriving.conn].peer \in Peers
<1>0. WiresOK /\ Owned
  BY TypeParts DEF HubTypeInv
<1>1. /\ net' \in [Conns -> Stream]
      /\ \A d \in Conns : net'[d].peer = net[d].peer /\ (net'[d].open => net[d].open)
  BY <1>0, CloseConnsFields DEF WiresOK
<1>2. arriving # None => arriving.conn \in Conns
  BY <1>0 DEF WiresOK
<1>. QED BY <1>0, <1>1, <1>2 DEF Owned

LEMMA DialFields ==
    ASSUME HubTypeInv, NEW o \in Peers, NEW share \in Shares, Dial(o, share)
    PROVE  \E c \in Conns, x \in Stream :
              /\ net' = [net EXCEPT ![c] = x] /\ session' = [session EXCEPT ![o] = c]
              /\ Closed(c) /\ ~Held(c)
              /\ x.peer = o /\ x.open /\ ~x.handed /\ x.share = share /\ x.share \in SUBSET Prefixes
              /\ x.toHub = <<share>> /\ x.toSpoke = <<>>
<1>. DEFINE free == {c \in Conns : Closed(c) /\ ~Held(c)}
            c == CHOOSE d \in free : TRUE
            x == [NoConn EXCEPT !.peer = o, !.open = TRUE, !.share = share, !.toHub = <<share>>]
<1>1. c \in free
  BY DEF Dial
<1>2. net' = [net EXCEPT ![c] = x] /\ session' = [session EXCEPT ![o] = c]
  BY DEF Dial
<1>3. share \in SUBSET Prefixes
  BY HubAssumption
<1>4. /\ x \in Stream /\ x.peer = o /\ x.open /\ ~x.handed /\ x.share = share
      /\ x.toHub = <<share>> /\ x.toSpoke = <<>>
  <2>. DEFINE e == <<>>
              h == <<share>>
  <2>1. h \in Seq(SUBSET Prefixes) /\ e \in Seq(Frame)
    BY <1>3
  <2>2. NoConn = [peer |-> None, open |-> FALSE, handed |-> FALSE, share |-> {},
                  toHub |-> e, toSpoke |-> e, refreshes |-> 0]
    BY DEF NoConn
  <2>a. x = [NoConn EXCEPT !.peer = o, !.open = TRUE, !.share = share, !.toHub = h]
    OBVIOUS
  <2>. HIDE DEF e, h, x
  <2>3. /\ x \in Stream /\ x.peer = o /\ x.open /\ ~x.handed /\ x.share = share
        /\ x.toHub = h /\ x.toSpoke = e
    BY <1>3, <2>1, <2>2, <2>a DEF Stream
  <2>. QED BY <2>3 DEF e, h
<1>. HIDE DEF x, c
<1>5. c \in Conns /\ Closed(c) /\ ~Held(c)
  BY <1>1
<1>. QED BY <1>2, <1>3, <1>4, <1>5

LEMMA ReceiveFields ==
    ASSUME HubTypeInv, NEW o \in Peers, Receive(o)
    PROVE  \E c \in Conns :
              /\ c = session[o]
              /\ UNCHANGED <<hubVars, pc, after, local, arriving, jobs, session, bounds>>
              /\ \/ CloseConns({c}) /\ UNCHANGED view
                 \/ \E x \in Stream, n \in Netview :
                       /\ net' = [net EXCEPT ![c] = x]
                       /\ x = [net[c] EXCEPT !.toSpoke = x.toSpoke]
                       /\ net[c].toSpoke[2] = [body |-> n] /\ 2 \in 1..Len(net[c].toSpoke)
                       /\ \A i \in 1..Len(x.toSpoke) : /\ i + 2 \in 1..Len(net[c].toSpoke)
                                                       /\ x.toSpoke[i] = net[c].toSpoke[i + 2]
                       /\ view' = IF Newer(n, view[o]) THEN [view EXCEPT ![o] = n] ELSE view
<1>0. WiresOK
  BY TypeParts DEF HubTypeInv
<1>. DEFINE c == session[o]
<1>1. c \in Conns /\ UNCHANGED <<hubVars, pc, after, local, arriving, jobs, session, bounds>>
  BY <1>0 DEF WiresOK, Receive
<1>2. net[c] \in Stream /\ net[c].toSpoke \in Seq(Frame) /\ Len(net[c].toSpoke) >= 2
  BY <1>0, <1>1 DEF WiresOK, Receive, Stream
<1>. DEFINE head == net[c].toSpoke[1]
            rest == net[c].toSpoke[2]
            x == [net[c] EXCEPT !.toSpoke = SubSeq(@, 3, Len(@))]
<1>3. CASE "body" \in DOMAIN rest /\ rest.body.rev = head.head
  <2>1. rest \in Frame
    BY <1>2
  <2>2. PICK n \in Netview : rest = [body |-> n]
    BY <1>3, <2>1 DEF Frame
  <2>3. /\ SubSeq(net[c].toSpoke, 3, Len(net[c].toSpoke)) \in Seq(Frame)
        /\ \A i \in 1..Len(SubSeq(net[c].toSpoke, 3, Len(net[c].toSpoke))) :
              /\ i + 2 \in 1..Len(net[c].toSpoke)
              /\ SubSeq(net[c].toSpoke, 3, Len(net[c].toSpoke))[i] = net[c].toSpoke[i + 2]
    BY <1>2
  <2>4. x \in Stream /\ x.toSpoke = SubSeq(net[c].toSpoke, 3, Len(net[c].toSpoke))
        /\ x = [net[c] EXCEPT !.toSpoke = x.toSpoke]
    <3>. DEFINE e == SubSeq(net[c].toSpoke, 3, Len(net[c].toSpoke))
    <3>1. e \in Seq(Frame) /\ x = [net[c] EXCEPT !.toSpoke = e]
      BY <1>2, <2>3 DEF Stream
    <3>. HIDE DEF e, x
    <3>2. x.toSpoke = e /\ x \in Stream
      BY <1>2, <3>1 DEF Stream
    <3>. QED BY <3>1, <3>2 DEF e
  <2>5. net' = [net EXCEPT ![c] = x]
    BY <1>0, <1>3 DEF Receive, WiresOK
  <2>6. view' = IF Newer(n, view[o]) THEN [view EXCEPT ![o] = n] ELSE view
    BY <1>3, <2>2 DEF Receive
  <2>. HIDE DEF x, c
  <2>7. 2 \in 1..Len(net[c].toSpoke)
    BY <1>2
  <2>8. \A i \in 1..Len(x.toSpoke) : /\ i + 2 \in 1..Len(net[c].toSpoke)
                                     /\ x.toSpoke[i] = net[c].toSpoke[i + 2]
    BY <2>3, <2>4
  <2>9. c = session[o]
    BY DEF c
  <2>. QED BY <1>1, <2>2, <2>4, <2>5, <2>6, <2>7, <2>8, <2>9
<1>4. CASE ~("body" \in DOMAIN rest /\ rest.body.rev = head.head)
  BY <1>1, <1>4 DEF Receive
<1>. QED BY <1>3, <1>4

LEMMA SpokeType ==
    ASSUME HubTypeInv, NEW o \in Peers, SpokeStep(o) \/ Refresh(o)
    PROVE  HubTypeInv'
<1>0. HubOK /\ ThreadsOK /\ WiresOK /\ Owned
  BY TypeParts DEF HubTypeInv
<1>1. ASSUME NEW share \in Shares, Dial(o, share) PROVE HubTypeInv'
  <2>1. PICK c \in Conns, x \in Stream :
          /\ net' = [net EXCEPT ![c] = x] /\ session' = [session EXCEPT ![o] = c]
          /\ x.peer = o
    BY <1>1, DialFields
  <2>2. UNCHANGED <<hubVars, pc, after, local, arriving, jobs, view, bounds>>
    BY <1>1 DEF Dial
  <2>3. /\ net' \in [Conns -> Stream] /\ \A d \in Conns : net'[d].open => net'[d].peer \in Peers
        /\ arriving # None => net'[arriving.conn].peer \in Peers
    BY <2>1, StreamReplaced
  <2>. QED BY <1>0, <2>1, <2>2, <2>3, WireType DEF WiresOK, bounds
<1>2. CASE Refresh(o)
  <2>. DEFINE c == session[o]
              h == <<net[c].share>>
              n == net[c].refreshes + 1
              x == [net[c] EXCEPT !.toHub = h, !.refreshes = n]
  <2>1. c \in Conns /\ net[c] \in Stream
    BY <1>0, <1>2 DEF Refresh, WiresOK
  <2>2. h \in Seq(SUBSET Prefixes) /\ n \in Nat
    BY <2>1 DEF Stream
  <2>3. net' = [net EXCEPT ![c] = x]
    BY <1>0, <1>2, <2>1 DEF Refresh, WiresOK
  <2>4. x \in Stream /\ x.peer = net[c].peer /\ x.open = net[c].open
    <3>. HIDE DEF h, n
    <3>. QED BY <2>1, <2>2 DEF Stream
  <2>. HIDE DEF h, n, x, c
  <2>5. /\ net' \in [Conns -> Stream] /\ \A d \in Conns : net'[d].open => net'[d].peer \in Peers
        /\ arriving # None => net'[arriving.conn].peer \in Peers
    <3>1. x.open => x.peer \in Peers
      BY <1>0, <2>1, <2>4 DEF Owned
    <3>. QED BY <2>1, <2>3, <2>4, <3>1, StreamReplaced
  <2>6. UNCHANGED <<hubVars, pc, after, local, arriving, jobs, spokeVars, bounds>>
    BY <1>2 DEF Refresh
  <2>. QED BY <1>0, <2>5, <2>6, WireType DEF WiresOK, bounds, spokeVars
<1>3. CASE Receive(o)
  <2>1. PICK c \in Conns :
          /\ c = session[o]
          /\ UNCHANGED <<hubVars, pc, after, local, arriving, jobs, session, bounds>>
          /\ \/ CloseConns({c}) /\ UNCHANGED view
             \/ \E x \in Stream, n \in Netview :
                  /\ net' = [net EXCEPT ![c] = x]
                  /\ x = [net[c] EXCEPT !.toSpoke = x.toSpoke]
                  /\ net[c].toSpoke[2] = [body |-> n] /\ 2 \in 1..Len(net[c].toSpoke)
                  /\ \A i \in 1..Len(x.toSpoke) : /\ i + 2 \in 1..Len(net[c].toSpoke)
                                                  /\ x.toSpoke[i] = net[c].toSpoke[i + 2]
                  /\ view' = IF Newer(n, view[o]) THEN [view EXCEPT ![o] = n] ELSE view
    BY <1>3, ReceiveFields
  <2>2. CASE CloseConns({c}) /\ UNCHANGED view
    BY <1>0, <2>1, <2>2, CloseKeepsOwned, WireType DEF WiresOK, bounds
  <2>3. ASSUME NEW x \in Stream, NEW n \in Netview,
               net' = [net EXCEPT ![c] = x],
               x = [net[c] EXCEPT !.toSpoke = x.toSpoke],
               view' = IF Newer(n, view[o]) THEN [view EXCEPT ![o] = n] ELSE view
        PROVE  HubTypeInv'
    <3>1. x.peer = net[c].peer /\ x.open = net[c].open
      BY <1>0, <2>3 DEF WiresOK, Stream
    <3>2. /\ net' \in [Conns -> Stream] /\ \A d \in Conns : net'[d].open => net'[d].peer \in Peers
          /\ arriving # None => net'[arriving.conn].peer \in Peers
      <4>1. x.open => x.peer \in Peers
        BY <1>0, <3>1 DEF Owned
      <4>. QED BY <2>3, <3>1, <4>1, StreamReplaced
    <3>3. view' \in [Peers -> Netview \cup {None}]
      BY <1>0, <2>3 DEF WiresOK
    <3>. QED BY <1>0, <2>1, <3>2, <3>3, WireType DEF WiresOK, bounds
  <2>. QED BY <2>1, <2>2, <2>3
<1>4. CASE EndSession(o)
  <2>1. arriving # None => arriving.conn \in Conns
    BY <1>0 DEF WiresOK
  <2>. QED BY <1>0, <1>4, <2>1, WireType DEF EndSession, WiresOK, Owned, bounds
<1>. QED BY <1>1, <1>2, <1>3, <1>4 DEF SpokeStep

LEMMA LoseType ==
    ASSUME HubTypeInv, NEW c \in Conns, LoseStream(c)
    PROVE  HubTypeInv'
<1>0. WiresOK
  BY TypeParts DEF HubTypeInv
<1>. QED BY <1>0, CloseKeepsOwned, WireType DEF LoseStream, WiresOK, spokeVars

LEMMA ThreadType ==
    ASSUME HubTypeInv, NEW t \in Threads, ThreadStep(t)
    PROVE  HubTypeInv'
<1>1. TypeOK' /\ Moves(t) /\ Place(t)' /\ Holding(t)' /\ KeepsPeers /\ Owned'
      /\ (t \in Slots => HoldingSlot(t)')
  <2>1. CASE Publish(t)
    <3>1. TypeOK' /\ Moves(t) /\ Place(t)' /\ Holding(t)'
      BY <2>1, PublishType
    <3>2. /\ KeepsStreams /\ KeepsSlots /\ UNCHANGED arriving
          /\ local'[t].stream = local[t].stream /\ pc[t] \in Publishing
      BY <2>1, PublishKeeps
    <3>3. KeepsPeers /\ Owned'
      BY <3>2, OwnedKept DEF KeepsPeers, KeepsSlots, KeepsStreams
    <3>4. ASSUME t \in Slots PROVE HoldingSlot(t)'
      <4>1. HoldingSlot(t)
        BY <3>4 DEF HubTypeInv
      <4>. QED BY <3>2, <3>3, <3>4, <4>1 DEF HoldingSlot, KeepsPeers, Inside, Publishing
    <3>. QED BY <3>1, <3>3, <3>4
  <2>2. CASE InstallMembers(t)
    BY <2>2, InstallType
  <2>3. CASE t \in Slots /\ Serve(t)
    BY <2>3, ServeType
  <2>4. CASE t \in Callers /\ Call(t)
    BY <2>4, CallType, ThreadAssumption
  <2>. QED BY <2>1, <2>2, <2>3, <2>4 DEF ThreadStep
<1>. QED BY <1>1, MovesAlone, SlotsAlone DEF HubTypeInv

LEMMA NextHubType == HubTypeInv /\ [Next]_vars => HubTypeInv'
<1>. SUFFICES ASSUME HubTypeInv, [Next]_vars PROVE HubTypeInv'
  OBVIOUS
<1>1. ASSUME NEW t \in Threads, ThreadStep(t) PROVE HubTypeInv'
  BY <1>1, ThreadType
<1>2. CASE Host
  BY <1>2, HostType
<1>3. CASE Sweep
  <2>1. /\ TypeOK' /\ Moves(Sweeper) /\ Place(Sweeper)' /\ Holding(Sweeper)'
        /\ KeepsPeers /\ Owned' /\ Sweeper \in Threads /\ Sweeper \notin Slots
    BY <1>3, SweepType, ThreadAssumption DEF Threads
  <2>. QED BY <2>1, MovesAlone, SlotsAlone DEF HubTypeInv
<1>4. ASSUME NEW o \in Peers, Register(o) \/ SpokeStep(o) \/ Refresh(o) PROVE HubTypeInv'
  BY <1>4, RegisterType, SpokeType
<1>5. ASSUME NEW c \in Conns, LoseStream(c) PROVE HubTypeInv'
  BY <1>5, LoseType
<1>6. CASE UNCHANGED vars
  <2>1. arriving # None => arriving.conn \in Conns
    BY DEF HubTypeInv, TypeOK
  <2>. QED BY <1>6, <2>1, WireType
           DEF vars, hubVars, spokeVars, bounds, HubTypeInv, TypeOK, Owned
<1>. QED BY <1>1, <1>2, <1>3, <1>4, <1>5, <1>6 DEF Next


(* Every thread is where it can be and has read what it goes by, every     *)
(* slot in use has its spoke and a spoke's stream, and the hub, the        *)
(* streams and the views hold what their types say, for any number of      *)
(* spokes, streams and calls.                                              *)
THEOREM HubTypeCorrect == Spec => []TypeOK
<1>1. HubTypeInv => TypeOK
  BY DEF HubTypeInv
<1>. QED BY <1>1, InitHubType, NextHubType, PTL DEF Spec

-----------------------------------------------------------------------------
(***************************************************************************)
(* Revs.  No step takes the rev back or changes the content under it, so a *)
(* netview that was the table of its rev stays that; and a netview enters  *)
(* a thread as the table it was read from, a stream from a thread, and a   *)
(* view from a stream.                                                     *)
(***************************************************************************)
LEMMA SameRib ==
    ASSUME HubTypeInv, UNCHANGED rib
    PROVE  RevStep(rib, rib')
BY TypeParts DEF HubTypeInv, HubOK, RevStep, RibState

LEMMA ThreadRev ==
    ASSUME HubTypeInv, NEW t \in Threads, ThreadStep(t)
    PROVE  RevStep(rib, rib')
<1>0. HubOK /\ ThreadsOK /\ WiresOK /\ Holding(t) /\ (t \in Slots => HoldingSlot(t))
  BY TypeParts DEF HubTypeInv
<1>1. CASE UNCHANGED rib
  BY <1>1, SameRib
<1>2. CASE InstallMembers(t)
  <2>1. local[t].members \in SUBSET Member
    BY <1>0, <1>2 DEF InstallMembers, Holding
  <2>. QED BY <1>0, <1>2, <2>1, WithMembersRev DEF InstallMembers, HubOK
<1>3. CASE t \in Slots /\ ApplyClaim(t)
  <2>1. slot[t].peer \in Peers /\ local[t].share \in SUBSET Prefixes
    BY <1>0, <1>3 DEF ApplyClaim, HoldingSlot, ThreadsOK, Local
  <2>. QED BY <1>0, <1>3, <2>1, ApplyClaimsRev DEF ApplyClaim, HubOK
<1>4. ASSUME NEW j \in NextJob, SetLanAllow(t, j) PROVE RevStep(rib, rib')
  <2>1. j \in Job
    BY <1>0 DEF NextJob, WiresOK
  <2>. QED BY <1>0, <1>4, <2>1, JobFields, WithAllowRev DEF SetLanAllow, HubOK
<1>6. ASSUME Publish(t) PROVE UNCHANGED rib
  BY <1>6, PublishKeeps
<1>7. ASSUME Serve(t) PROVE UNCHANGED rib \/ ApplyClaim(t)
  BY <1>7 DEF Serve, TakeStream, Drain, Stop, OpenStream, Greet, ReadClaim, EndStream,
              RecordCapability, hubVars
<1>8. ASSUME Call(t)
      PROVE  \/ UNCHANGED rib
             \/ \E j \in NextJob : SetLanAllow(t, j)
  BY <1>8 DEF Call, SetPeerIPs, SetPeers, Close, SetPeerMeta, LoadMembers, SetBaseMembers,
              Unregister, Unregistered, CloseStreams, End, hubVars
<1>. QED BY <1>1, <1>2, <1>3, <1>4, <1>6, <1>7, <1>8 DEF ThreadStep

LEMMA NextHubRev ==
    ASSUME HubTypeInv, [Next]_vars
    PROVE  RevStep(rib, rib')
<1>1. CASE UNCHANGED rib
  BY <1>1, SameRib
<1>2. ASSUME Host PROVE UNCHANGED rib
  BY <1>2 DEF Host, Dispatch, Deliver, Enqueue, hubVars
<1>3. ASSUME NEW o \in Peers, Register(o) \/ SpokeStep(o) \/ Refresh(o) PROVE UNCHANGED rib
  BY <1>3 DEF Register, SpokeStep, Refresh, Dial, Receive, EndSession, hubVars
<1>4. ASSUME NEW c \in Conns, LoseStream(c) PROVE UNCHANGED rib
  BY <1>4 DEF LoseStream, hubVars
<1>5. ASSUME UNCHANGED vars PROVE UNCHANGED rib
  BY <1>5 DEF vars, hubVars
<1>. QED BY <1>1, <1>2, <1>3, <1>4, <1>5, ThreadRev, SweepType DEF Next

LEMMA KnownKept ==
    ASSUME RevStep(rib, rib'), rib \in RibState, NEW n \in Netview, Known(n)
    PROVE  Known(n)'
BY DEF Known, RevStep, RibState, Netview

(* What is on its way to a spoke was so before the step.                   *)
KeepsFrames ==
    \A c \in Conns : \A i \in 1..Len(net'[c].toSpoke) :
        \E j \in 1..Len(net[c].toSpoke) : net'[c].toSpoke[i] = net[c].toSpoke[j]

FrameKnown(f) == f \in [body : Netview] => Known(f.body)

LEMMA CloseKeepsFrames ==
    ASSUME HubTypeInv, NEW cs, CloseConns(cs) \/ UNCHANGED net
    PROVE  KeepsFrames
<1>0. WiresOK
  BY TypeParts DEF HubTypeInv
<1>1. CASE CloseConns(cs)
  <2>. SUFFICES ASSUME NEW c \in Conns, NEW i \in 1..Len(net'[c].toSpoke)
                PROVE  \E j \in 1..Len(net[c].toSpoke) : net'[c].toSpoke[i] = net[c].toSpoke[j]
    BY DEF KeepsFrames
  <2>1. CASE c \in cs
    <3>1. net'[c].toSpoke = <<>>
      BY <1>0, <1>1, <2>1, CloseConnsFields DEF WiresOK
    <3>. QED BY <3>1
  <2>2. CASE c \notin cs
    <3>1. net'[c] = net[c]
      BY <1>0, <1>1, <2>2, CloseConnsFields DEF WiresOK
    <3>. QED BY <3>1
  <2>. QED BY <2>1, <2>2
<1>2. CASE UNCHANGED net
  BY <1>2 DEF KeepsFrames
<1>. QED BY <1>1, <1>2

(* The thread steps outside publish.                                       *)
LEMMA OutsidePublish ==
    ASSUME HubTypeInv, NEW t \in Threads,
           InstallMembers(t) \/ (t \in Slots /\ Serve(t)) \/ (t \in Callers /\ Call(t))
    PROVE  /\ pc'[t] \in Publishing => pc'[t] = "snapshot"
           /\ KeepsFrames /\ UNCHANGED view
<1>0. HubOK /\ ThreadsOK /\ WiresOK
  BY TypeParts DEF HubTypeInv
<1>1. pc'[t] \in Publishing => pc'[t] = "snapshot"
  <2>1. CASE InstallMembers(t)
    BY <1>0, <2>1 DEF InstallMembers, Goto, ThreadsOK
  <2>2. CASE Serve(t)
    BY <1>0, <2>2 DEF ThreadsOK, Serve, TakeStream, Drain, Stop, OpenStream, Greet, ReadClaim,
          EndStream, RecordCapability, ApplyClaim, Goto, PublishThen, Publishing
  <2>3. CASE Call(t)
    BY <1>0, <2>3 DEF ThreadsOK, Call, SetLanAllow, SetPeerIPs, SetPeers, Close,
          SetPeerMeta, LoadMembers, SetBaseMembers, Unregister, Unregistered, CloseStreams, End,
          Goto, PublishThen, Publishing
  <2>. QED BY <2>1, <2>2, <2>3
<1>2. UNCHANGED view
  BY DEF InstallMembers, Serve, TakeStream, Drain, Stop, OpenStream, Greet, ReadClaim,
         EndStream, RecordCapability, ApplyClaim, Call, SetLanAllow, SetPeerIPs,
         SetPeers, Close, SetPeerMeta, LoadMembers, SetBaseMembers, Unregister, Unregistered,
         CloseStreams, End, spokeVars
<1>3. CASE t \in Slots /\ ReadClaim(t)
  <2>. DEFINE c == local[t].stream
              x == [net[c] EXCEPT !.toHub = Tail(@)]
  <2>1. net' = [net EXCEPT ![c] = x] /\ c \in Conns
    <3>1. HoldingSlot(t) /\ pc[t] = "read"
      BY <1>3 DEF HubTypeInv, ReadClaim
    <3>. QED BY <1>0, <1>3, <3>1 DEF ReadClaim, WiresOK, HoldingSlot, Serving
  <2>2. x.toSpoke = net[c].toSpoke
    BY <1>0, <2>1 DEF WiresOK, Stream
  <2>. HIDE DEF x, c
  <2>3. \A d \in Conns : net'[d].toSpoke = net[d].toSpoke
    BY <1>0, <2>1, <2>2 DEF WiresOK
  <2>4. KeepsFrames
    BY <2>3 DEF KeepsFrames
  <2>. QED BY <1>1, <1>2, <2>4
<1>4. CASE \E cs : CloseConns(cs) \/ UNCHANGED net
  BY <1>1, <1>2, <1>4, CloseKeepsFrames
<1>5. CASE InstallMembers(t)
  BY <1>4, <1>5 DEF InstallMembers
<1>6. CASE t \in Slots /\ Serve(t)
  <2>1. \/ ReadClaim(t) \/ UNCHANGED net \/ CloseConns({slot[t].inbound})
    BY <1>6 DEF Serve, TakeStream, Drain, Stop, OpenStream, Greet, EndStream,
                RecordCapability, ApplyClaim
  <2>. QED BY <1>3, <1>4, <1>6, <2>1
<1>7. CASE t \in Callers /\ Call(t)
  <2>1. CASE Unregister(t)
    <3>1. \E o : UNCHANGED net \/ CloseConns({slot[slotOf[o]].conn})
      BY <2>1 DEF Unregister
    <3>. QED BY <1>4, <3>1
  <2>2. CASE CloseStreams(t)
    BY <1>4, <2>2 DEF CloseStreams
  <2>3. CASE ~Unregister(t) /\ ~CloseStreams(t)
    <3>1. UNCHANGED net
      BY <1>7, <2>3 DEF Call, SetLanAllow, SetPeerIPs, SetPeers, Close,
         SetPeerMeta, LoadMembers, SetBaseMembers, Unregistered, End
    <3>. QED BY <1>4, <3>1
  <2>. QED BY <2>1, <2>2, <2>3
<1>. QED BY <1>5, <1>6, <1>7


(* Publish carries the snapshot it took and writes no other.               *)
LEMMA PublishFeeds ==
    ASSUME HubTypeInv, NEW t \in Threads, Publish(t)
    PROVE  /\ \/ pc'[t] \in Publishing \ {"snapshot"} =>
                    pc[t] \in Publishing \ {"snapshot"} /\ local'[t].snap = local[t].snap
              \/ local'[t].snap = Snapshot(rib)
           /\ \/ KeepsFrames
              \/ /\ pc[t] \in {"header", "body"}
                 /\ \E c \in Conns, f \in {[head |-> local[t].snap.rev], [body |-> local[t].snap]} :
                       f \in Frame /\ Send(c, f)
<1>0. ThreadsOK /\ WiresOK /\ Holding(t) /\ Place(t)
  BY TypeParts DEF HubTypeInv
<1>1. \/ pc'[t] \in Publishing \ {"snapshot"} =>
             pc[t] \in Publishing \ {"snapshot"} /\ local'[t].snap = local[t].snap
      \/ local'[t].snap = Snapshot(rib)
  <2>1. CASE TakeSnapshot(t)
    BY <1>0, <2>1 DEF ThreadsOK, TakeSnapshot, Local
  <2>2. CASE Mark(t)
    BY <1>0, <2>2 DEF ThreadsOK, Mark, Local, Publishing
  <2>3. CASE ReadRoutes(t) \/ SetPrefixRoutes(t)
    BY <1>0, <2>3 DEF ThreadsOK, ReadRoutes, SetPrefixRoutes, Local, Publishing
  <2>4. CASE WriteHeader(t)
    BY <1>0, <2>4 DEF ThreadsOK, WriteHeader, Local, Publishing
  <2>5. CASE WriteBody(t)
    BY <1>0, <2>5 DEF ThreadsOK, WriteBody, Local, Publishing
  <2>6. CASE WriteTimeout(t)
    BY <1>0, <2>6 DEF ThreadsOK, WriteTimeout, Local, Publishing
  <2>7. CASE Published(t)
    <3>1. pc[t] = "header" /\ pc'[t] = after[t]
      BY <1>0, <2>7 DEF ThreadsOK, Published, Goto
    <3>. QED BY <1>0, <3>1 DEF Place, Publishing, Serving, Calling, Inside, Threads
  <2>. QED BY <2>1, <2>2, <2>3, <2>4, <2>5, <2>6, <2>7 DEF Publish
<1>2. \/ KeepsFrames
      \/ /\ pc[t] \in {"header", "body"}
         /\ \E c \in Conns, f \in {[head |-> local[t].snap.rev], [body |-> local[t].snap]} :
               f \in Frame /\ Send(c, f)
  <2>1. CASE UNCHANGED net
    BY <2>1 DEF KeepsFrames
  <2>2. CASE WriteHeader(t)
    <3>1. PICK c \in local[t].targets : Send(c, [head |-> local[t].snap.rev]) \/ UNCHANGED net
      BY <2>2 DEF WriteHeader
    <3>2. pc[t] = "header"
      BY <2>2 DEF WriteHeader
    <3>3. c \in Conns /\ local[t].snap \in Netview /\ [head |-> local[t].snap.rev] \in Frame
      BY <1>0, <3>2 DEF ThreadsOK, Local, Holding, Publishing, Netview, Frame
    <3>. QED BY <2>1, <3>1, <3>2, <3>3
  <2>3. CASE WriteBody(t)
    <3>1. pc[t] = "body" /\ (UNCHANGED net \/ Send(local[t].conn, [body |-> local[t].snap]))
      BY <2>3 DEF WriteBody
    <3>2. local[t].conn \in Conns /\ [body |-> local[t].snap] \in Frame
      BY <1>0, <3>1 DEF Holding, Publishing, Frame
    <3>. QED BY <2>1, <3>1, <3>2
  <2>4. CASE WriteTimeout(t)
    BY <2>4, CloseKeepsFrames DEF WriteTimeout
  <2>. QED BY <2>1, <2>2, <2>3, <2>4
           DEF Publish, TakeSnapshot, Mark, ReadRoutes, SetPrefixRoutes, Published
<1>. QED BY <1>1, <1>2

(* The three parts of NetviewsKnown, one at a time.                        *)
ViewsKnown == \A o \in Peers : view[o] # None => Known(view[o])
SnapsKnown == \A t \in Threads : pc[t] \in Publishing \ {"snapshot"} => Known(local[t].snap)
FramesKnown == \A c \in Conns : \A i \in 1..Len(net[c].toSpoke) : FrameKnown(net[c].toSpoke[i])

LEMMA KnownParts ==
    /\ NetviewsKnown <=> ViewsKnown /\ SnapsKnown /\ FramesKnown
    /\ NetviewsKnown' <=> ViewsKnown' /\ SnapsKnown' /\ FramesKnown'
BY DEF NetviewsKnown, ViewsKnown, SnapsKnown, FramesKnown, FrameKnown

LEMMA FrameKept ==
    ASSUME RevStep(rib, rib'), rib \in RibState, NEW f, FrameKnown(f)
    PROVE  FrameKnown(f)'
<1>. SUFFICES ASSUME f \in [body : Netview] PROVE Known(f.body)'
  BY DEF FrameKnown
<1>1. f.body \in Netview /\ Known(f.body)
  BY DEF FrameKnown
<1>. QED BY <1>1, KnownKept

LEMMA ViewsKept ==
    ASSUME HubTypeInv, RevStep(rib, rib'), ViewsKnown, UNCHANGED view
    PROVE  ViewsKnown'
<1>0. HubOK /\ WiresOK
  BY TypeParts DEF HubTypeInv
<1>. SUFFICES ASSUME NEW o \in Peers, view[o] # None PROVE Known(view[o])'
  BY DEF ViewsKnown
<1>1. view[o] \in Netview /\ Known(view[o])
  BY <1>0 DEF WiresOK, ViewsKnown
<1>2. view'[o] = view[o]
  OBVIOUS
<1>. QED BY <1>0, <1>1, KnownKept DEF HubOK, Known, RevStep, RibState, Netview

LEMMA FramesKept ==
    ASSUME HubTypeInv, RevStep(rib, rib'), FramesKnown, KeepsFrames
    PROVE  FramesKnown'
<1>0. HubOK
  BY TypeParts DEF HubTypeInv
<1>. SUFFICES ASSUME NEW c \in Conns, NEW i \in 1..Len(net'[c].toSpoke)
              PROVE  FrameKnown(net[c].toSpoke[i])'
  BY DEF FramesKnown
<1>1. PICK j \in 1..Len(net[c].toSpoke) : net'[c].toSpoke[i] = net[c].toSpoke[j]
  BY DEF KeepsFrames
<1>2. FrameKnown(net[c].toSpoke[j])
  BY DEF FramesKnown
<1>. QED BY <1>0, <1>1, <1>2 DEF HubOK, FrameKnown, Known, RevStep, RibState, Netview

(* The threads keep what they carry when none takes a snapshot.            *)
LEMMA SnapsKept ==
    ASSUME HubTypeInv, RevStep(rib, rib'), SnapsKnown,
           \A t \in Threads : pc'[t] \in Publishing \ {"snapshot"} =>
              pc[t] \in Publishing \ {"snapshot"} /\ local'[t].snap = local[t].snap
    PROVE  SnapsKnown'
<1>0. HubOK
  BY TypeParts DEF HubTypeInv
<1>. SUFFICES ASSUME NEW t \in Threads, pc'[t] \in Publishing \ {"snapshot"}
              PROVE  Known(local[t].snap)'
  BY DEF SnapsKnown
<1>1. /\ pc[t] \in Publishing \ {"snapshot"} /\ local'[t].snap = local[t].snap
  OBVIOUS
<1>2. PICK n \in Netview : n = local[t].snap /\ Known(n)
  BY <1>1 DEF HubTypeInv, Holding, SnapsKnown
<1>3. Known(n)'
  BY <1>0, <1>2, KnownKept DEF HubOK
<1>4. local'[t].snap = n
  BY <1>1, <1>2
<1>. QED BY <1>3, <1>4 DEF Known


LEMMA ThreadMoves ==
    ASSUME HubTypeInv, NEW t \in Threads, ThreadStep(t)
    PROVE  Moves(t)
BY PublishType, InstallType, ServeType, CallType DEF ThreadStep

LEMMA ThreadFeed ==
    ASSUME FeedInv, NEW t \in Threads, ThreadStep(t)
    PROVE  NetviewsKnown'
<1>0. /\ HubTypeInv /\ rib.rev >= 1 /\ HubOK /\ WiresOK /\ Holding(t)
      /\ ViewsKnown /\ SnapsKnown /\ FramesKnown
  BY TypeParts, KnownParts DEF FeedInv, HubTypeInv
<1>1. RevStep(rib, rib') /\ Moves(t)
  BY <1>0, ThreadRev, ThreadMoves
<1>2. CASE Publish(t)
  <2>1. UNCHANGED <<rib, view>>
    BY <1>0, <1>2, PublishKeeps
  <2>2. ViewsKnown'
    BY <1>0, <1>1, <2>1, ViewsKept
  <2>3. SnapsKnown'
    <3>1. CASE pc'[t] \in Publishing \ {"snapshot"} =>
                  pc[t] \in Publishing \ {"snapshot"} /\ local'[t].snap = local[t].snap
      BY <1>0, <1>1, <3>1, SnapsKept DEF Moves
    <3>2. CASE local'[t].snap = Snapshot(rib)
      <4>. SUFFICES ASSUME NEW u \in Threads, pc'[u] \in Publishing \ {"snapshot"}
                    PROVE  Known(local[u].snap)'
        BY DEF SnapsKnown
      <4>1. CASE u = t
        <5>1. Snapshot(rib).rev = rib.rev
          BY <1>0, SnapshotType DEF HubOK
        <5>. QED BY <1>0, <2>1, <3>2, <4>1, <5>1 DEF Known, HubOK, RibState
      <4>2. CASE u # t
        <5>1. pc[u] \in Publishing \ {"snapshot"} /\ local'[u].snap = local[u].snap
          BY <1>1, <4>2 DEF Moves
        <5>2. Known(local[u].snap)
          BY <1>0, <5>1 DEF SnapsKnown
        <5>. QED BY <2>1, <5>1, <5>2 DEF Known
      <4>. QED BY <4>1, <4>2
    <3>. QED BY <1>0, <1>2, <3>1, <3>2, PublishFeeds
  <2>4. FramesKnown'
    <3>1. CASE KeepsFrames
      BY <1>0, <1>1, <3>1, FramesKept
    <3>2. ASSUME pc[t] \in {"header", "body"}, NEW c \in Conns, NEW f \in Frame, Send(c, f),
                 f \in {[head |-> local[t].snap.rev], [body |-> local[t].snap]}
          PROVE  FramesKnown'
      <4>1. FrameKnown(f)
        <5>1. Known(local[t].snap)
          BY <1>0, <3>2 DEF SnapsKnown, Publishing
        <5>. QED BY <3>2, <5>1 DEF FrameKnown
      <4>2. /\ \A d \in Conns \ {c} : net'[d] = net[d]
            /\ net'[c].toSpoke = Append(net[c].toSpoke, f)
        BY <1>0, <3>2, SendFields DEF WiresOK
      <4>. SUFFICES ASSUME NEW d \in Conns, NEW i \in 1..Len(net'[d].toSpoke)
                    PROVE  FrameKnown(net[d].toSpoke[i])'
        BY DEF FramesKnown
      <4>3. FrameKnown(net'[d].toSpoke[i])
        <5>1. CASE d = c
          <6>1. net[c].toSpoke \in Seq(Frame)
            BY <1>0 DEF WiresOK, Stream
          <6>2. net'[d].toSpoke[i] = f \/ \E j \in 1..Len(net[c].toSpoke) :
                                             net'[d].toSpoke[i] = net[c].toSpoke[j]
            BY <4>2, <5>1, <6>1
          <6>. QED BY <1>0, <4>1, <6>2 DEF FramesKnown
        <5>2. CASE d # c
          BY <1>0, <4>2, <5>2 DEF FramesKnown
        <5>. QED BY <5>1, <5>2
      <4>. QED BY <2>1, <4>3 DEF FrameKnown, Known
    <3>. QED BY <1>0, <1>2, <3>1, <3>2, PublishFeeds
  <2>. QED BY <2>2, <2>3, <2>4, KnownParts
<1>3. CASE InstallMembers(t) \/ (t \in Slots /\ Serve(t)) \/ (t \in Callers /\ Call(t))
  <2>1. (pc'[t] \in Publishing => pc'[t] = "snapshot") /\ KeepsFrames /\ UNCHANGED view
    BY <1>0, <1>3, OutsidePublish
  <2>2. ViewsKnown' /\ FramesKnown'
    BY <1>0, <1>1, <2>1, ViewsKept, FramesKept
  <2>3. SnapsKnown'
    BY <1>0, <1>1, <2>1, SnapsKept DEF Moves
  <2>. QED BY <2>2, <2>3, KnownParts
<1>. QED BY <1>2, <1>3 DEF ThreadStep

LEMMA StreamFrames ==
    ASSUME HubTypeInv, NEW c \in Conns, NEW x \in Stream, net' = [net EXCEPT ![c] = x],
           x.toSpoke = net[c].toSpoke \/ x.toSpoke = <<>>
    PROVE  KeepsFrames
<1>0. WiresOK
  BY TypeParts DEF HubTypeInv
<1>. SUFFICES ASSUME NEW d \in Conns, NEW i \in 1..Len(net'[d].toSpoke)
              PROVE  \E j \in 1..Len(net[d].toSpoke) : net'[d].toSpoke[i] = net[d].toSpoke[j]
  BY DEF KeepsFrames
<1>1. net'[d].toSpoke = net[d].toSpoke \/ net'[d].toSpoke = <<>>
  BY <1>0 DEF WiresOK
<1>. QED BY <1>1

(* The steps outside the threads leave the threads' snapshots.             *)
LEMMA HostFeed ==
    ASSUME HubTypeInv, Host
    PROVE  /\ KeepsFrames /\ UNCHANGED <<view, local>>
           /\ \A t \in Threads : pc'[t] \in Publishing => pc'[t] = pc[t]
<1>0. ThreadsOK /\ WiresOK
  BY TypeParts DEF HubTypeInv
<1>1. ASSUME NEW c \in Conns, Dispatch(c) PROVE KeepsFrames
  <2>1. CASE net' = [net EXCEPT ![c].handed = TRUE]
    <3>. DEFINE x == [net[c] EXCEPT !.handed = TRUE]
    <3>1. x \in Stream /\ x.toSpoke = net[c].toSpoke
      BY <1>0 DEF WiresOK, Stream
    <3>2. net' = [net EXCEPT ![c] = x]
      BY <1>0, <2>1 DEF WiresOK
    <3>. HIDE DEF x
    <3>. QED BY <3>1, <3>2, StreamFrames
  <2>2. CASE CloseConns({c})
    BY <2>2, CloseKeepsFrames
  <2>. QED BY <1>1, <2>1, <2>2 DEF Dispatch
<1>2. ASSUME Deliver \/ Enqueue PROVE KeepsFrames
  BY <1>2, CloseKeepsFrames DEF Deliver, Enqueue
<1>3. UNCHANGED <<view, local>>
  BY DEF Host, Dispatch, Deliver, Enqueue, spokeVars
<1>4. \A t \in Threads : pc'[t] \in Publishing => pc'[t] = pc[t]
  BY <1>0 DEF ThreadsOK, Host, Dispatch, Deliver, Enqueue, Create, Goto, Publishing
<1>. QED BY <1>1, <1>2, <1>3, <1>4 DEF Host

LEMMA SpokeFeed ==
    ASSUME HubTypeInv, FramesKnown, NEW o \in Peers, SpokeStep(o) \/ Refresh(o)
    PROVE  /\ KeepsFrames /\ UNCHANGED <<rib, local, pc>>
           /\ \/ UNCHANGED view
              \/ \E n \in Netview : /\ Known(n) /\ Newer(n, view[o])
                                    /\ view' = [view EXCEPT ![o] = n]
<1>0. WiresOK
  BY TypeParts DEF HubTypeInv
<1>1. UNCHANGED <<rib, local, pc>>
  BY DEF SpokeStep, Refresh, Dial, Receive, EndSession, hubVars
<1>2. ASSUME NEW share \in Shares, Dial(o, share) PROVE KeepsFrames /\ UNCHANGED view
  <2>1. PICK c \in Conns, x \in Stream : net' = [net EXCEPT ![c] = x] /\ x.toSpoke = <<>>
    BY <1>2, DialFields
  <2>. QED BY <1>2, <2>1, StreamFrames DEF Dial
<1>3. CASE Refresh(o)
  <2>. DEFINE c == session[o]
              h == <<net[c].share>>
              n == net[c].refreshes + 1
              x == [net[c] EXCEPT !.toHub = h, !.refreshes = n]
  <2>1. c \in Conns /\ net[c] \in Stream
    BY <1>0, <1>3 DEF Refresh, WiresOK
  <2>2. h \in Seq(SUBSET Prefixes) /\ n \in Nat
    BY <2>1 DEF Stream
  <2>3. net' = [net EXCEPT ![c] = x]
    BY <1>0, <1>3, <2>1 DEF Refresh, WiresOK
  <2>4. x \in Stream /\ x.toSpoke = net[c].toSpoke
    <3>. HIDE DEF h, n
    <3>. QED BY <2>1, <2>2 DEF Stream
  <2>. HIDE DEF h, n, x, c
  <2>. QED BY <1>1, <1>3, <2>1, <2>3, <2>4, StreamFrames DEF Refresh, spokeVars
<1>4. CASE Receive(o)
  <2>1. PICK c \in Conns :
          /\ c = session[o]
          /\ \/ CloseConns({c}) /\ UNCHANGED view
             \/ \E x \in Stream, n \in Netview :
                  /\ net' = [net EXCEPT ![c] = x]
                  /\ x = [net[c] EXCEPT !.toSpoke = x.toSpoke]
                  /\ net[c].toSpoke[2] = [body |-> n] /\ 2 \in 1..Len(net[c].toSpoke)
                  /\ \A i \in 1..Len(x.toSpoke) : /\ i + 2 \in 1..Len(net[c].toSpoke)
                                                  /\ x.toSpoke[i] = net[c].toSpoke[i + 2]
                  /\ view' = IF Newer(n, view[o]) THEN [view EXCEPT ![o] = n] ELSE view
    BY <1>4, ReceiveFields
  <2>2. CASE CloseConns({c}) /\ UNCHANGED view
    BY <1>1, <2>2, CloseKeepsFrames
  <2>3. ASSUME NEW x \in Stream, NEW n \in Netview,
               net' = [net EXCEPT ![c] = x],
               net[c].toSpoke[2] = [body |-> n], 2 \in 1..Len(net[c].toSpoke),
               \A i \in 1..Len(x.toSpoke) : /\ i + 2 \in 1..Len(net[c].toSpoke)
                                            /\ x.toSpoke[i] = net[c].toSpoke[i + 2],
               view' = IF Newer(n, view[o]) THEN [view EXCEPT ![o] = n] ELSE view
        PROVE  /\ KeepsFrames
               /\ \/ UNCHANGED view
                  \/ Known(n) /\ Newer(n, view[o]) /\ view' = [view EXCEPT ![o] = n]
    <3>1. KeepsFrames
      <4>. SUFFICES ASSUME NEW d \in Conns, NEW i \in 1..Len(net'[d].toSpoke)
                    PROVE  \E j \in 1..Len(net[d].toSpoke) :
                              net'[d].toSpoke[i] = net[d].toSpoke[j]
        BY DEF KeepsFrames
      <4>1. net'[d] = IF d = c THEN x ELSE net[d]
        BY <1>0, <2>3 DEF WiresOK
      <4>. QED BY <2>3, <4>1
    <3>2. Known(n)
      <4>1. FrameKnown([body |-> n])
        BY <2>3 DEF FramesKnown
      <4>. QED BY <4>1 DEF FrameKnown
    <3>. QED BY <2>3, <3>1, <3>2
  <2>. QED BY <1>1, <2>1, <2>2, <2>3
<1>5. CASE EndSession(o)
  BY <1>1, <1>5, CloseKeepsFrames DEF EndSession
<1>. QED BY <1>1, <1>2, <1>3, <1>4, <1>5 DEF SpokeStep


LEMMA InitFeed == Init => FeedInv
<1>. SUFFICES ASSUME Init PROVE rib.rev >= 1 /\ NetviewsKnown
  BY InitHubType DEF FeedInv
<1>1. rib.rev >= 1
  <2>. DEFINE r == WithMembers(NewRib(Policy), Merged(Seats, {}, {}))
  <2>1. NewRib(Policy) \in RibState /\ Merged(Seats, {}, {}) \in SUBSET Member
    BY HubAssumption, MergedType DEF NewRib, RibState
  <2>2. r \in RibState /\ r.members = Merged(Seats, {}, {})
    BY <2>1, WithMembersFields
  <2>3. r.rev >= 1
    BY DEF WithMembers, NewRib
  <2>4. WithInjected(r) \in RibState /\ WithInjected(r).rev >= r.rev
    BY <2>2, WithInjectedFields
  <2>. QED BY <2>2, <2>3, <2>4 DEF Init, RibState
<1>2. ViewsKnown
  BY DEF Init, ViewsKnown
<1>3. SnapsKnown
  BY DEF Init, SnapsKnown, Publishing, Threads
<1>4. FramesKnown
  BY DEF Init, FramesKnown, NoConn
<1>. QED BY <1>1, <1>2, <1>3, <1>4, KnownParts

LEMMA NextFeed == FeedInv /\ [Next]_vars => FeedInv'
<1>. SUFFICES ASSUME FeedInv, [Next]_vars PROVE NetviewsKnown' /\ rib'.rev >= 1
  BY NextHubType DEF FeedInv
<1>0. /\ HubTypeInv /\ rib.rev >= 1 /\ HubOK /\ WiresOK
      /\ ViewsKnown /\ SnapsKnown /\ FramesKnown
  BY TypeParts, KnownParts DEF FeedInv, HubTypeInv
<1>1. RevStep(rib, rib') /\ rib'.rev >= 1
  <2>1. RevStep(rib, rib')
    BY <1>0, NextHubRev
  <2>. QED BY <1>0, <2>1 DEF RevStep, HubOK, RibState
<1>2. ASSUME NEW t \in Threads, ThreadStep(t) PROVE NetviewsKnown'
  BY <1>2, ThreadFeed
<1>3. ASSUME KeepsFrames, UNCHANGED <<view, local>>,
             \A t \in Threads : pc'[t] \in Publishing \ {"snapshot"} => pc'[t] = pc[t]
      PROVE  NetviewsKnown'
  BY <1>0, <1>1, <1>3, ViewsKept, SnapsKept, FramesKept, KnownParts
<1>4. ASSUME Host PROVE NetviewsKnown'
  BY <1>0, <1>3, <1>4, HostFeed
<1>5. ASSUME Sweep PROVE NetviewsKnown'
  <2>1. pc'[Sweeper] = "snapshot" /\ UNCHANGED <<net, view, local>> /\ Moves(Sweeper)
    BY <1>0, <1>5, SweepType, TypeParts, ThreadAssumption
       DEF Sweep, PublishThen, Goto, spokeVars, HubTypeInv, ThreadsOK, Threads
  <2>2. KeepsFrames
    BY <2>1 DEF KeepsFrames
  <2>. QED BY <1>3, <2>1, <2>2 DEF Moves
<1>6. ASSUME NEW o \in Peers, Register(o) PROVE NetviewsKnown'
  <2>1. UNCHANGED <<net, view, local>>
    BY <1>6 DEF Register, spokeVars
  <2>2. \A t \in Threads : pc'[t] \in Publishing => pc'[t] = pc[t]
    BY <1>0, <1>6, TypeParts
       DEF Register, Create, Goto, Publishing, HubTypeInv, ThreadsOK
  <2>3. KeepsFrames
    BY <2>1 DEF KeepsFrames
  <2>. QED BY <1>3, <2>1, <2>2, <2>3
<1>7. ASSUME NEW o \in Peers, SpokeStep(o) \/ Refresh(o) PROVE NetviewsKnown'
  <2>1. /\ KeepsFrames /\ UNCHANGED <<rib, local, pc>>
        /\ \/ UNCHANGED view
           \/ \E n \in Netview : /\ Known(n) /\ Newer(n, view[o])
                                 /\ view' = [view EXCEPT ![o] = n]
    BY <1>0, <1>7, SpokeFeed
  <2>2. CASE UNCHANGED view
    BY <1>3, <2>1, <2>2
  <2>3. ASSUME NEW n \in Netview, Known(n), view' = [view EXCEPT ![o] = n]
        PROVE  NetviewsKnown'
    <3>1. ViewsKnown'
      BY <1>0, <2>1, <2>3 DEF ViewsKnown, Known, WiresOK
    <3>2. SnapsKnown' /\ FramesKnown'
      BY <1>0, <1>1, <2>1, SnapsKept, FramesKept
    <3>. QED BY <3>1, <3>2, KnownParts
  <2>. QED BY <2>1, <2>2, <2>3
<1>8. ASSUME NEW c \in Conns, LoseStream(c) PROVE NetviewsKnown'
  <2>1. KeepsFrames /\ UNCHANGED <<view, local, pc>>
    BY <1>0, <1>8, CloseKeepsFrames DEF LoseStream, spokeVars
  <2>. QED BY <1>3, <2>1
<1>9. ASSUME UNCHANGED vars PROVE NetviewsKnown'
  <2>1. UNCHANGED <<net, view, local, pc>>
    BY <1>9 DEF vars, spokeVars
  <2>2. KeepsFrames
    BY <2>1 DEF KeepsFrames
  <2>. QED BY <1>3, <2>1, <2>2
<1>. QED BY <1>1, <1>2, <1>4, <1>5, <1>6, <1>7, <1>8, <1>9 DEF Next

(* A spoke that has installed the current rev holds the current table: a   *)
(* netview is the table of its rev from the moment publish reads it        *)
(* (rib.Snapshot), whatever happens while it is on its way.                *)
THEOREM HubCurrentRev == Spec => []CurrentRevIsCurrentTable
<1>1. FeedInv => CurrentRevIsCurrentTable
  BY DEF FeedInv, NetviewsKnown, Known, CurrentRevIsCurrentTable
<1>. QED BY <1>1, InitFeed, NextFeed, PTL DEF Spec

(***************************************************************************)
(* The refinement of NetviewFeed, step by step: what a spoke has seen only *)
(* grows, and is never newer than the table.                               *)
(***************************************************************************)
LEMMA FeedStep == FeedInv /\ [Next]_vars => [Feed!Next]_(Feed!vars)
<1>. SUFFICES ASSUME FeedInv, [Next]_vars PROVE [Feed!Next]_(Feed!vars)
  OBVIOUS
<1>0. /\ HubTypeInv /\ HubOK /\ WiresOK /\ ViewsKnown /\ FramesKnown
      /\ rib.rev \in Nat /\ rib'.rev \in Nat /\ rib'.rev >= rib.rev
  <2>1. /\ HubTypeInv /\ HubOK /\ WiresOK /\ ViewsKnown /\ FramesKnown
    BY TypeParts, KnownParts DEF FeedInv, HubTypeInv
  <2>2. RevStep(rib, rib')
    BY <2>1, NextHubRev
  <2>. QED BY <2>1, <2>2 DEF RevStep, HubOK, RibState
<1>1. CASE UNCHANGED view
  <2>1. CASE rib'.rev = rib.rev
    BY <1>1, <2>1 DEF Feed!vars
  <2>2. CASE rib'.rev # rib.rev
    <3>1. Feed!Change
      BY <1>0, <1>1, <2>2 DEF Feed!Change
    <3>. QED BY <3>1 DEF Feed!Next
  <2>. QED BY <2>1, <2>2
<1>2. ASSUME NEW o \in Peers, SpokeStep(o) \/ Refresh(o) PROVE [Feed!Next]_(Feed!vars)
  <2>1. UNCHANGED rib /\ \/ UNCHANGED view
                         \/ \E n \in Netview : /\ Known(n) /\ Newer(n, view[o])
                                               /\ view' = [view EXCEPT ![o] = n]
    BY <1>0, <1>2, SpokeFeed
  <2>2. ASSUME NEW n \in Netview, Known(n), Newer(n, view[o]), view' = [view EXCEPT ![o] = n]
        PROVE  Feed!Install(o)
    <3>1. view'[o] = n /\ n # None /\ n.rev \in Nat /\ n.rev >= 1 /\ n.rev <= rib.rev
      BY <1>0, <2>2, AbsentAssumption DEF WiresOK, Known, Netview
    <3>2. view[o] # None => n.rev > view[o].rev
      BY <2>2 DEF Newer
    <3>3. \A q \in Peers \ {o} : view'[q] = view[q]
      BY <1>0, <2>2 DEF WiresOK
    <3>. QED BY <2>1, <3>1, <3>2, <3>3 DEF Feed!Install
  <2>. QED BY <1>1, <2>1, <2>2 DEF Feed!Next
<1>3. ASSUME NEW t \in Threads, ThreadStep(t) PROVE UNCHANGED view
  <2>1. CASE Publish(t)
    BY <1>0, <2>1, PublishKeeps
  <2>2. CASE ~Publish(t)
    BY <1>0, <1>3, <2>2, OutsidePublish DEF ThreadStep
  <2>. QED BY <2>1, <2>2
<1>4. ASSUME Host \/ Sweep \/ \E o \in Peers : Register(o) PROVE UNCHANGED view
  BY <1>0, <1>4, HostFeed DEF Sweep, Register, spokeVars
<1>5. ASSUME NEW c \in Conns, LoseStream(c) PROVE UNCHANGED view
  BY <1>5 DEF LoseStream, spokeVars
<1>6. ASSUME UNCHANGED vars PROVE UNCHANGED view
  BY <1>6 DEF vars, spokeVars
<1>. QED BY <1>1, <1>2, <1>3, <1>4, <1>5, <1>6 DEF Next

(* The control channel implements the safety of the feed it promises: its  *)
(* initial states are the feed's, and each of its steps is one of the      *)
(* feed's or changes nothing the feed sees.                                *)
THEOREM HubFeedSafety == Spec => Feed!Init /\ [][Feed!Next]_(Feed!vars)
<1>1. Init => Feed!Init
  <2>. SUFFICES ASSUME Init PROVE Feed!Init
    OBVIOUS
  <2>1. rib.rev \in Nat \ {0}
    BY InitFeed, TypeParts DEF FeedInv, HubTypeInv, HubOK, RibState
  <2>. QED BY <2>1 DEF Init, Feed!Init
<1>. QED BY <1>1, InitFeed, NextFeed, FeedStep, PTL DEF Spec


-----------------------------------------------------------------------------
(***************************************************************************)
(* The membership.  Each merge is made under controlHub.mu and installed   *)
(* after it: two at once may install in the wrong order, and what is lost  *)
(* then is the newer one's.  Nothing else loses a merge.                   *)
(***************************************************************************)
SameRecords == UNCHANGED <<base, caps, disabled>> /\ rib'.members = rib.members

LEMMA RecordsKept ==
    ASSUME Installed, SameRecords,
           \A u \in Threads : pc[u] = "members" =>
              pc'[u] = "members" /\ local'[u].members = local[u].members
    PROVE  Installed'
BY DEF Installed, SameRecords, Recorded

(* One thread moves, and it has nothing to install.                        *)
LEMMA RecordsAlone ==
    ASSUME Installed, SameRecords, NEW t \in Threads, Moves(t), pc[t] # "members"
    PROVE  Installed'
BY RecordsKept DEF Moves

LEMMA PublishRecords ==
    ASSUME HubTypeInv, Installed, NEW t \in Threads, Publish(t)
    PROVE  Installed'
<1>1. SameRecords /\ Moves(t) /\ pc[t] \in Publishing
  BY PublishKeeps, PublishType DEF SameRecords
<1>. QED BY <1>1, RecordsAlone DEF Publishing

LEMMA InstallRecords ==
    ASSUME HubTypeInv, Installed, NEW t \in Threads, InstallMembers(t)
    PROVE  Installed' \/ Overtakes(t)
<1>1. /\ rib \in RibState /\ local[t].members \in SUBSET Member
      /\ UNCHANGED <<base, caps, disabled>>
  BY TypeParts DEF HubTypeInv, HubOK, Holding, InstallMembers
<1>2. rib'.members = local[t].members
  BY <1>1, WithMembersFields DEF InstallMembers
<1>. QED BY <1>1, <1>2 DEF Installed, Recorded, Overtakes

LEMMA ServeRecords ==
    ASSUME HubTypeInv, Installed, NEW s \in Slots, Serve(s)
    PROVE  Installed'
<1>0. HubOK /\ ThreadsOK /\ HoldingSlot(s) /\ Moves(s) /\ s \in Threads
  BY TypeParts, ServeType DEF HubTypeInv, Threads
<1>1. CASE RecordCapability(s) /\ caps' # caps
  <2>1. /\ pc'[s] = "members" /\ UNCHANGED <<base, disabled>>
        /\ local' = [local EXCEPT ![s].members = Merged(base, caps', disabled)]
    BY <1>0, <1>1 DEF RecordCapability, Goto, ThreadsOK
  <2>2. local'[s].members = Merged(base, caps', disabled)
    BY <1>0, <2>1 DEF ThreadsOK, Local
  <2>. QED BY <1>0, <2>1, <2>2 DEF Installed, Recorded
<1>2. CASE RecordCapability(s) /\ caps' = caps
  BY <1>0, <1>2, RecordsAlone DEF RecordCapability, SameRecords
<1>3. CASE ApplyClaim(s)
  <2>. DEFINE o == slot[s].peer
              share == local[s].share
              replace == pc[s] = "replace"
  <2>1. rib' = ApplyClaims(rib, o, share, {}, replace)
    BY <1>3 DEF ApplyClaim
  <2>2. rib \in RibState /\ o \in Peers /\ share \in SUBSET Prefixes
    BY <1>0, <1>3 DEF ApplyClaim, HoldingSlot, ThreadsOK, Local, HubOK
  <2>. HIDE DEF o, share, replace
  <2>3. ApplyClaims(rib, o, share, {}, replace).members = rib.members
    BY <2>2, ApplyClaimsFields
  <2>4. SameRecords /\ pc[s] # "members"
    BY <1>3, <2>1, <2>3 DEF ApplyClaim, SameRecords
  <2>. QED BY <1>0, <2>4, RecordsAlone
<1>4. CASE ~RecordCapability(s) /\ ~ApplyClaim(s)
  <2>1. SameRecords
    BY <1>4 DEF Serve, TakeStream, Drain, Stop, OpenStream, Greet, ReadClaim, EndStream,
                hubVars, SameRecords
  <2>2. pc[s] # "members"
    BY <1>4 DEF Serve, TakeStream, Drain, Stop, OpenStream, Greet, ReadClaim, EndStream
  <2>. QED BY <1>0, <2>1, <2>2, RecordsAlone
<1>. QED BY <1>1, <1>2, <1>3, <1>4

LEMMA CallRecords ==
    ASSUME HubTypeInv, Installed, NEW t \in Callers, Call(t)
    PROVE  Installed'
<1>0. HubOK /\ ThreadsOK /\ WiresOK /\ Moves(t) /\ t \in Threads
  BY TypeParts, CallType DEF HubTypeInv, Threads
<1>1. ASSUME NEW j \in NextJob, SetLanAllow(t, j) PROVE Installed'
  <2>1. j \in Job
    BY <1>0 DEF NextJob, WiresOK
  <2>2. rib'.members = rib.members
    BY <1>0, <1>1, <2>1, JobFields, WithAllowFields DEF SetLanAllow, HubOK
  <2>. QED BY <1>0, <1>1, <2>2, RecordsAlone DEF SetLanAllow, Begin, SameRecords
<1>2. ASSUME NEW j \in NextJob, SetPeerIPs(t, j) \/ SetPeers(t, j) \/ Close(t, j)
      PROVE  Installed'
  BY <1>0, <1>2, RecordsAlone DEF SetPeerIPs, SetPeers, Close, Begin, SameRecords
<1>3. CASE SetPeerMeta(t) /\ disabled' = disabled
  BY <1>0, <1>3, RecordsAlone DEF SetPeerMeta, SameRecords
<1>4. CASE SetPeerMeta(t) /\ disabled' # disabled
  <2>1. /\ pc'[t] = "members" /\ UNCHANGED <<base, caps>>
        /\ local' = [local EXCEPT ![t].members = Merged(base, caps, disabled')]
    BY <1>0, <1>4 DEF SetPeerMeta, Goto, ThreadsOK
  <2>2. local'[t].members = Merged(base, caps, disabled')
    BY <1>0, <2>1 DEF ThreadsOK, Local
  <2>. QED BY <1>0, <2>1, <2>2 DEF Installed, Recorded
<1>5. CASE SetBaseMembers(t)
  <2>1. /\ pc'[t] = "members" /\ UNCHANGED <<caps, disabled>>
        /\ local' = [local EXCEPT ![t].members = Merged(base', caps, disabled)]
    BY <1>0, <1>5 DEF SetBaseMembers, Goto, ThreadsOK
  <2>2. local'[t].members = Merged(base', caps, disabled)
    BY <1>0, <2>1 DEF ThreadsOK, Local
  <2>. QED BY <1>0, <2>1, <2>2 DEF Installed, Recorded
<1>6. CASE LoadMembers(t) \/ Unregister(t) \/ Unregistered(t) \/ CloseStreams(t) \/ End(t)
  <2>1. SameRecords /\ pc[t] # "members"
    BY <1>6 DEF LoadMembers, Unregister, Unregistered, CloseStreams, End, hubVars, SameRecords
  <2>. QED BY <1>0, <2>1, RecordsAlone
<1>. QED BY <1>1, <1>2, <1>3, <1>4, <1>5, <1>6 DEF Call

LEMMA NextRecords ==
    ASSUME HubTypeInv, Installed, [Next]_vars
    PROVE  Installed' \/ \E t \in Threads : Overtakes(t)
<1>0. HubOK /\ ThreadsOK
  BY TypeParts DEF HubTypeInv
<1>1. ASSUME NEW t \in Threads, ThreadStep(t)
      PROVE  Installed' \/ Overtakes(t)
  BY <1>1, PublishRecords, InstallRecords, ServeRecords, CallRecords DEF ThreadStep
<1>2. ASSUME UNCHANGED <<base, caps, disabled, rib, local>>,
             \A u \in Threads : pc[u] = "members" => pc'[u] = "members"
      PROVE  Installed'
  BY <1>2, RecordsKept DEF SameRecords
<1>3. CASE Host
  <2>1. UNCHANGED <<base, caps, disabled, rib, local>>
    BY <1>3 DEF Host, Dispatch, Deliver, Enqueue, hubVars
  <2>2. \A u \in Threads : pc[u] = "members" => pc'[u] = "members"
    BY <1>0, <1>3 DEF Host, Dispatch, Deliver, Enqueue, Create, Goto, ThreadsOK
  <2>. QED BY <1>2, <2>1, <2>2
<1>4. CASE Sweep
  <2>1. PICK quiet \in SUBSET Prefixes : rib' = Without(rib, quiet)
    BY <1>4 DEF Sweep
  <2>2. rib'.members = rib.members
    BY <1>0, <2>1, WithoutFields DEF HubOK
  <2>3. Moves(Sweeper) /\ Sweeper \in Threads
    BY <1>4, SweepType DEF Threads
  <2>. QED BY <1>4, <2>2, <2>3, RecordsAlone DEF Sweep, SameRecords
<1>5. ASSUME NEW o \in Peers, Register(o) PROVE Installed'
  BY <1>0, <1>2, <1>5 DEF Register, Create, Goto, ThreadsOK
<1>6. ASSUME NEW o \in Peers, SpokeStep(o) \/ Refresh(o) PROVE Installed'
  BY <1>2, <1>6 DEF SpokeStep, Refresh, Dial, Receive, EndSession, hubVars
<1>7. ASSUME NEW c \in Conns, LoseStream(c) PROVE Installed'
  BY <1>2, <1>7 DEF LoseStream, hubVars
<1>8. CASE UNCHANGED vars
  BY <1>2, <1>8 DEF vars, hubVars
<1>. QED BY <1>1, <1>3, <1>4, <1>5, <1>6, <1>7, <1>8 DEF Next

(* What SetMembers, SetCapability and SetPeerMeta record is in the table,  *)
(* or a goroutine is about to install it, until an older merge is          *)
(* installed after it: whatever calls, sessions, sweeps and faults         *)
(* interleave, two merges at once is the only way to lose one.             *)
THEOREM HubMembersOvertaken == Spec => MembersReachTable
<1>1. HubTypeInv /\ [Next]_vars
         => [Installed => Installed' \/ \E t \in Threads : Overtakes(t)]_vars
  BY NextRecords
<1>. QED BY <1>1, InitHubType, NextHubType, PTL DEF Spec, MembersReachTable


-----------------------------------------------------------------------------
(***************************************************************************)
(* Sessions.  While the hub is open, a slot serves its spoke until the     *)
(* spoke is removed, a stream is handed over once and is in one place, and *)
(* what a slot has read, or will read, of a session lies within what that  *)
(* session shares.                                                         *)
(***************************************************************************)
LEMMA OpenStays == [Next]_vars /\ HubOpen' => HubOpen
<1>. SUFFICES ASSUME [Next]_vars, closed' # closed PROVE closed' # "open"
  BY DEF HubOpen
<1>1. ASSUME NEW t \in Threads, ThreadStep(t) PROVE closed' # "open"
  <2>1. ~Publish(t) /\ ~InstallMembers(t)
    BY DEF Publish, TakeSnapshot, Mark, ReadRoutes, SetPrefixRoutes, WriteHeader, WriteBody,
       WriteTimeout, Published, InstallMembers, hubVars
  <2>2. ~Serve(t)
    BY DEF Serve, TakeStream, Drain, Stop, OpenStream, Greet, ReadClaim, EndStream,
       RecordCapability, ApplyClaim, hubVars
  <2>3. CASE Call(t)
    BY <2>3 DEF Call, SetLanAllow, SetPeerIPs, SetPeers, Close, SetPeerMeta,
       LoadMembers, SetBaseMembers, Unregister, Unregistered, CloseStreams, End, hubVars
  <2>. QED BY <1>1, <2>1, <2>2, <2>3 DEF ThreadStep
<1>2. ~Host /\ ~Sweep
  BY DEF Host, Dispatch, Deliver, Enqueue, Sweep, hubVars
<1>3. ASSUME NEW o \in Peers PROVE ~Register(o) /\ ~SpokeStep(o) /\ ~Refresh(o)
  BY DEF Register, SpokeStep, Refresh, Dial, Receive, EndSession, hubVars
<1>4. ASSUME NEW c \in Conns, LoseStream(c) PROVE FALSE
  BY <1>4 DEF LoseStream, hubVars
<1>5. ~UNCHANGED vars
  BY DEF vars, hubVars
<1>. QED BY <1>1, <1>2, <1>3, <1>4, <1>5 DEF Next

LEMMA PlacesTyped ==
    ASSUME HubTypeInv
    PROVE  /\ \A s \in Slots : /\ slot[s].inbound \in Conns \cup {None}
                               /\ slot[s].conn \in Conns \cup {None}
                               /\ local[s].stream \in Conns \cup {None}
           /\ arriving # None => arriving.conn \in Conns /\ arriving.slot \in Slots \cup {None}
           /\ None \notin Conns /\ None \notin Slots
<1>1. HubOK /\ ThreadsOK /\ WiresOK
  BY TypeParts DEF HubTypeInv
<1>2. \A s \in Slots : slot[s] \in Slot /\ local[s] \in Local
  BY <1>1 DEF HubOK, ThreadsOK, Threads
<1>. QED BY <1>1, <1>2, AbsentAssumption DEF Slot, Local, WiresOK

(* The slot is where it was, or goes on with the message it has.           *)
Stands(s) ==
    \/ pc'[s] = pc[s] /\ after'[s] = after[s]
    \/ /\ {pc[s], pc'[s]} \subseteq (Serving \cup Inside) \ {"open", "apply"}
       /\ Replacing(s)' <=> Replacing(s)

(* A step that hands no stream on and reads no claim.                      *)
LEMMA SessionsStand ==
    ASSUME HubTypeInv, Sessions, KeepsSlots, UNCHANGED <<slotOf, arriving>>,
           \A s \in Slots : /\ Stands(s)
                            /\ local'[s].stream = local[s].stream
                            /\ local'[s].share = local[s].share,
           \A c \in Conns : /\ net'[c].peer = net[c].peer
                            /\ net'[c].handed = net[c].handed
                            /\ net'[c].share = net[c].share
                            /\ net'[c].open => net[c].open,
           ClaimsShared', KeepsOwners(rib, rib')
    PROVE  Sessions'
<1>0. HubOK /\ WiresOK /\ ThreadsOK /\ \A s \in Slots : HoldingSlot(s)
  BY TypeParts DEF HubTypeInv
<1>1. \A s \in Slots : /\ slot'[s].peer = slot[s].peer /\ slot'[s].inbound = slot[s].inbound
                       /\ slot'[s].conn = slot[s].conn /\ slot'[s].first = slot[s].first
                       /\ slot'[s].stopped = slot[s].stopped
                       /\ local'[s].stream = local[s].stream
                       /\ pc'[s] = "unused" <=> pc[s] = "unused"
                       /\ pc'[s] = "done" <=> pc[s] = "done"
                       /\ pc'[s] = "select" <=> pc[s] = "select"
  BY DEF KeepsSlots, Stands, Serving, Inside, Publishing
<1>2. SlotsServe'
  BY <1>0, <1>1 DEF Sessions, SlotsServe, HubOK, WiresOK
<1>3. OnePlace' /\ OwnStreams'
  <2>1. \A s \in Slots : /\ slot[s].inbound \in Conns \cup {None}
                         /\ local[s].stream \in Conns \cup {None}
    BY <1>0 DEF HubOK, Slot, ThreadsOK, Local, Threads
  <2>2. OnePlace'
    BY <1>1 DEF Sessions, OnePlace, Nowhere, At
  <2>3. OwnStreams'
    <3>1. arriving # None => arriving.conn \in Conns /\ arriving.slot \in Slots \cup {None}
      BY <1>0 DEF WiresOK
    <3>. QED BY <1>1, <2>1, <3>1 DEF Sessions, OwnStreams
  <2>. QED BY <2>2, <2>3
<1>4. SessionShare'
  <2>. SUFFICES ASSUME NEW s \in Slots
                PROVE  /\ Replacing(s)' => slot'[s].first
                       /\ pc'[s] = "apply" => ~slot'[s].first
                       /\ Replacing(s)' \/ pc'[s] = "apply" =>
                             local'[s].share \subseteq net'[local'[s].stream].share
                       /\ pc'[s] \in (Serving \cup Inside) \ {"open"} =>
                             slot'[s].conn = local'[s].stream
                       /\ pc'[s] = "open" /\ ~slot'[s].stopped =>
                             slot'[s].conn # local'[s].stream
    BY DEF SessionShare
  <2>1. (Replacing(s)' <=> Replacing(s)) /\ (pc'[s] = "apply" <=> pc[s] = "apply")
        /\ (pc'[s] = "open" <=> pc[s] = "open")
        /\ (pc'[s] \in (Serving \cup Inside) \ {"open"} <=> pc[s] \in (Serving \cup Inside) \ {"open"})
    BY DEF Stands, Replacing
  <2>2. Replacing(s) \/ pc[s] = "apply" => local[s].stream \in Conns
    BY <1>0 DEF Replacing, HoldingSlot, Serving
  <2>. QED BY <1>1, <2>1, <2>2 DEF Sessions, SessionShare
<1>5. NewestUnlessDropped'
  <2>. SUFFICES ASSUME NEW s \in LiveSlots, slot'[s].conn # None, ~slot'[s].first,
                       local'[s].stream = slot'[s].conn, net'[slot'[s].conn].open,
                       ~Dropped(slot[s].peer)', NEW p \in Prefixes, HeldBy(rib', slot'[s].peer, p)
                PROVE  p \in net'[slot'[s].conn].share
    BY DEF NewestUnlessDropped, LiveSlots
  <2>1. s \in Slots /\ slot[s].peer \in Peers
    BY <1>0 DEF LiveSlots, HubOK, Sessions, SlotsServe
  <2>2. slot[s].conn \in Conns /\ HeldBy(rib, slot[s].peer, p)
    BY <1>0, <1>1, <2>1 DEF HubOK, Slot, KeepsOwners
  <2>3. ~Dropped(slot[s].peer)
    BY <1>1, <2>1 DEF Dropped
  <2>. QED BY <1>1, <2>1, <2>2, <2>3 DEF Sessions, NewestUnlessDropped
<1>6. NoneLost'
  BY <1>1 DEF Sessions, NoneLost
<1>. QED BY <1>2, <1>3, <1>4, <1>5, <1>6 DEF Sessions


(* One thread steps, and its slot, if it has one, stands.                  *)
LEMMA SessionsAlone ==
    ASSUME HubTypeInv, Sessions, NEW t \in Threads, Moves(t), KeepsSlots,
           UNCHANGED <<slotOf, arriving>>,
           t \in Slots => /\ Stands(t) /\ local'[t].stream = local[t].stream
                          /\ local'[t].share = local[t].share,
           UNCHANGED net, KeepsOwners(rib, rib')
    PROVE  Sessions'
<1>1. \A s \in Slots : /\ Stands(s)
                       /\ local'[s].stream = local[s].stream
                       /\ local'[s].share = local[s].share
  BY DEF Moves, Stands, Threads
<1>2. ClaimsShared'
  BY DEF Sessions, ClaimsShared
<1>. QED BY <1>1, <1>2, SessionsStand

LEMMA SameOwners == UNCHANGED rib => KeepsOwners(rib, rib')
BY DEF KeepsOwners

LEMMA CloseSessions ==
    ASSUME HubTypeInv, Sessions, NEW cs, CloseConns(cs),
           UNCHANGED <<rib, slot, slotOf, arriving, pc, after, local>>
    PROVE  Sessions'
<1>0. HubOK /\ WiresOK
  BY TypeParts DEF HubTypeInv
<1>1. \A c \in Conns : /\ net'[c].peer = net[c].peer
                       /\ net'[c].handed = net[c].handed /\ net'[c].share = net[c].share
                       /\ net'[c].open => net[c].open
                       /\ net'[c].toHub = net[c].toHub \/ net'[c].toHub = <<>>
  BY <1>0, CloseConnsFields DEF WiresOK
<1>2. ClaimsShared'
  BY <1>1 DEF Sessions, ClaimsShared
<1>. QED BY <1>1, <1>2, SameOwners, SessionsStand DEF KeepsSlots, Stands

LEMMA PublishSessions ==
    ASSUME HubTypeInv, Sessions, NEW t \in Threads, Publish(t)
    PROVE  Sessions'
<1>0. /\ UNCHANGED <<rib, slotOf, arriving>> /\ KeepsStreams /\ KeepsSlots /\ Moves(t)
      /\ local'[t].stream = local[t].stream /\ local'[t].share = local[t].share
      /\ pc[t] \in Publishing
      /\ \/ pc'[t] \in Publishing /\ after'[t] = after[t]
         \/ pc'[t] = after[t]
  BY PublishKeeps, PublishType
<1>1. t \in Slots => after[t] \in {"read", "replace"}
  BY <1>0 DEF HubTypeInv, Place, Publishing, Serving
<1>2. t \in Slots => Stands(t)
  BY <1>0, <1>1 DEF Stands, Replacing, Inside, Publishing, Serving
<1>3. \A s \in Slots : /\ Stands(s)
                       /\ local'[s].stream = local[s].stream
                       /\ local'[s].share = local[s].share
  BY <1>0, <1>2 DEF Moves, Stands, Threads
<1>4. ClaimsShared'
  BY <1>0 DEF Sessions, ClaimsShared, KeepsStreams
<1>. QED BY <1>0, <1>3, <1>4, SameOwners, SessionsStand DEF KeepsStreams

LEMMA InstallSessions ==
    ASSUME HubTypeInv, Sessions, NEW t \in Threads, InstallMembers(t)
    PROVE  Sessions'
<1>0. /\ HubOK /\ ThreadsOK /\ Place(t) /\ Holding(t) /\ Moves(t)
      /\ pc[t] = "members" /\ local[t].members \in SUBSET Member
  BY TypeParts, InstallType DEF HubTypeInv, Holding, InstallMembers
<1>1. KeepsOwners(rib, rib')
  BY <1>0, OwnersKept DEF InstallMembers, HubOK
<1>2. /\ KeepsSlots /\ UNCHANGED <<slotOf, arriving, net>>
      /\ pc'[t] = "snapshot" /\ after'[t] = after[t]
      /\ local'[t].stream = local[t].stream /\ local'[t].share = local[t].share
  BY <1>0 DEF InstallMembers, KeepsSlots, ThreadsOK, Local, Goto
<1>3. t \in Slots => Stands(t)
  BY <1>0, <1>2 DEF Stands, Replacing, Inside, Publishing, Serving
<1>. QED BY <1>0, <1>1, <1>2, <1>3, SessionsAlone

(* A spoke is removed: its slot is nobody's, and the stream to tell closed. *)
Drops(o, s) ==
    /\ slotOf[o] = s
    /\ slotOf' = [slotOf EXCEPT ![o] = None]
    /\ slot' = [slot EXCEPT ![s].stopped = TRUE]
    /\ CloseConns({slot[s].conn})
    /\ UNCHANGED <<rib, arriving, pc, after>>
    /\ \A q \in Slots : local'[q] = local[q]

LEMMA DropSessions ==
    ASSUME HubTypeInv, Sessions, NEW o \in Peers, NEW s \in Slots, Drops(o, s)
    PROVE  Sessions'
<1>0. /\ HubOK /\ WiresOK /\ ThreadsOK /\ (\A q \in Slots : HoldingSlot(q))
      /\ None \notin Slots /\ Slots \subseteq Threads
      /\ SlotsServe /\ OnePlace /\ OwnStreams /\ ClaimsShared /\ SessionShare
      /\ NewestUnlessDropped /\ NoneLost
  BY TypeParts, AbsentAssumption DEF HubTypeInv, Sessions, Threads
<1>a. /\ slotOf[o] = s /\ UNCHANGED <<rib, arriving, pc, after>>
      /\ \A q \in Slots : local'[q] = local[q]
  BY DEF Drops
<1>1. /\ \A q \in Slots : /\ slot'[q].peer = slot[q].peer /\ slot'[q].inbound = slot[q].inbound
                          /\ slot'[q].conn = slot[q].conn /\ slot'[q].first = slot[q].first
                          /\ slot'[q].stopped <=> slot[q].stopped \/ q = s
      /\ slotOf'[o] = None /\ \A x \in Peers \ {o} : slotOf'[x] = slotOf[x]
  BY <1>0 DEF Drops, HubOK, Slot
<1>2. \A c \in Conns : /\ net'[c].peer = net[c].peer /\ net'[c].handed = net[c].handed
                       /\ net'[c].share = net[c].share
                       /\ net'[c].open => net[c].open
                       /\ net'[c].toHub = net[c].toHub \/ net'[c].toHub = <<>>
  BY <1>0, CloseConnsFields DEF Drops, WiresOK
<1>3. pc[s] # "unused" /\ slot[s].peer = o
  BY <1>0, <1>a DEF SlotsServe
<1>4. SlotsServe'
  <2>1. ASSUME NEW q \in Slots, pc[q] # "unused", ~slot'[q].stopped
        PROVE  slotOf'[slot'[q].peer] = q
    BY <1>0, <1>a, <1>1, <1>3, <2>1 DEF SlotsServe, HoldingSlot
  <2>2. ASSUME NEW x \in Peers, slotOf'[x] # None
        PROVE  pc[slotOf'[x]] # "unused" /\ slot'[slotOf'[x]].peer = x /\ ~slot'[slotOf'[x]].stopped
    <3>1. x # o /\ slotOf'[x] = slotOf[x] /\ slotOf[x] \in Slots
      BY <1>0, <1>a, <1>1, <2>2 DEF HubOK
    <3>2. slotOf[x] # s
      BY <1>0, <1>a, <1>3, <3>1 DEF SlotsServe
    <3>. QED BY <1>0, <1>a, <1>1, <2>2, <3>1, <3>2 DEF SlotsServe
  <2>. QED BY <1>0, <1>a, <1>1, <1>3, <2>1, <2>2 DEF SlotsServe
<1>5. OnePlace'
  BY <1>0, <1>a, <1>1, <1>2 DEF OnePlace, Nowhere, At
<1>6. OwnStreams'
  BY <1>0, <1>a, <1>1, <1>2, PlacesTyped DEF OwnStreams
<1>7. ClaimsShared'
  BY <1>0, <1>a, <1>2 DEF ClaimsShared
<1>8. SessionShare'
  <2>1. \A q \in Slots : Replacing(q) \/ pc[q] = "apply" => local[q].stream \in Conns
    BY <1>0, <1>a DEF HoldingSlot, Replacing, Serving
  <2>. QED BY <1>0, <1>a, <1>1, <1>2, <2>1 DEF SessionShare, Replacing
<1>9. NewestUnlessDropped'
  <2>. SUFFICES ASSUME NEW q \in LiveSlots', slot'[q].conn # None, ~slot'[q].first,
                       local'[q].stream = slot'[q].conn, net'[slot'[q].conn].open,
                       ~Dropped(slot[q].peer)', NEW p \in Prefixes, HeldBy(rib', slot'[q].peer, p)
                PROVE  p \in net'[slot'[q].conn].share
    BY DEF NewestUnlessDropped
  <2>1. q \in LiveSlots /\ q \in Slots
    BY <1>0, <1>a, <1>1 DEF LiveSlots, HubOK
  <2>2. ~Dropped(slot[q].peer) /\ slot[q].conn \in Conns
    BY <1>0, <1>a, <1>1, <2>1 DEF Dropped, HubOK, Slot
  <2>. QED BY <1>0, <1>a, <1>1, <1>2, <2>1, <2>2 DEF NewestUnlessDropped
<1>10. NoneLost'
  BY <1>0, <1>a, <1>1, <1>2 DEF NoneLost
<1>. QED BY <1>4, <1>5, <1>6, <1>7, <1>8, <1>9, <1>10 DEF Sessions

LEMMA CallSessions ==
    ASSUME HubTypeInv, Sessions, HubOpen', NEW t \in Callers, Call(t)
    PROVE  Sessions'
<1>0. HubOK /\ WiresOK /\ Moves(t) /\ t \in Threads /\ t \notin Slots
  BY TypeParts, CallType, ThreadAssumption DEF HubTypeInv, Threads
<1>1. ASSUME UNCHANGED <<slot, slotOf, arriving, net>>, KeepsOwners(rib, rib') PROVE Sessions'
  BY <1>0, <1>1, SessionsAlone DEF KeepsSlots
<1>2. ASSUME NEW j \in NextJob, SetLanAllow(t, j) PROVE Sessions'
  <2>1. j.allow \in [Peers -> {None} \cup SUBSET Prefixes]
    BY <1>0, <1>2, JobFields DEF NextJob, WiresOK, SetLanAllow
  <2>. QED BY <1>0, <1>1, <1>2, <2>1, OwnersKept DEF SetLanAllow, HubOK
<1>4. ASSUME NEW j \in NextJob, SetPeerIPs(t, j) \/ SetPeers(t, j) PROVE Sessions'
  BY <1>1, <1>4, SameOwners DEF SetPeerIPs, SetPeers
<1>5. ASSUME NEW j \in NextJob, Close(t, j) PROVE FALSE
  BY <1>5 DEF Close, HubOpen
<1>6. CASE SetPeerMeta(t) \/ LoadMembers(t) \/ SetBaseMembers(t) \/ Unregistered(t) \/ End(t)
  BY <1>1, <1>6, SameOwners
     DEF SetPeerMeta, LoadMembers, SetBaseMembers, Unregistered, End, hubVars
<1>7. CASE Unregister(t)
  <2>1. PICK o \in local[t].job.peers \cap local[t].job.off :
           IF slotOf[o] = None
           THEN UNCHANGED <<slotOf, slot, net>>
           ELSE /\ slotOf' = [slotOf EXCEPT ![o] = None]
                /\ slot' = [slot EXCEPT ![slotOf[o]].stopped = TRUE]
                /\ CloseConns({slot[slotOf[o]].conn})
    BY <1>7 DEF Unregister
  <2>2. UNCHANGED <<rib, arriving, pc, after>> /\ local[t].job \in Allowlist
    BY <1>7 DEF Unregister, HubTypeInv, Holding, Threads
  <2>3. o \in Peers
    BY <2>2 DEF Allowlist
  <2>4. CASE slotOf[o] = None
    BY <1>1, <2>1, <2>2, <2>4, SameOwners
  <2>5. CASE slotOf[o] # None
    <3>1. slotOf[o] \in Slots
      BY <1>0, <2>3, <2>5 DEF HubOK
    <3>2. \A q \in Slots : local'[q] = local[q]
      BY <1>0 DEF Moves, Threads
    <3>3. Drops(o, slotOf[o])
      BY <2>1, <2>2, <2>5, <3>2 DEF Drops
    <3>. QED BY <2>3, <3>1, <3>3, DropSessions
  <2>. QED BY <2>4, <2>5
<1>8. CASE CloseStreams(t)
  BY <1>8 DEF CloseStreams, HubOpen
<1>. QED BY <1>2, <1>4, <1>5, <1>6, <1>7, <1>8 DEF Call


(* The other slots' goroutines, and the slots themselves.                  *)
OthersStand(s) ==
    \A q \in Slots \ {s} : /\ pc'[q] = pc[q] /\ after'[q] = after[q] /\ local'[q] = local[q]
                           /\ slot'[q] = slot[q]

LEMMA ServeParts ==
    ASSUME HubTypeInv, Sessions, NEW s \in Slots, Serve(s)
    PROVE  /\ HubOK /\ ThreadsOK /\ WiresOK /\ Moves(s) /\ s \in Threads /\ HoldingSlot(s)
           /\ SlotsServe /\ OnePlace /\ OwnStreams /\ ClaimsShared /\ SessionShare
           /\ NewestUnlessDropped /\ NoneLost
BY TypeParts, ServeType DEF HubTypeInv, Threads, Sessions

LEMMA TakeSessions ==
    ASSUME HubTypeInv, Sessions, NEW s \in Slots, TakeStream(s)
    PROVE  Sessions'
<1>0. /\ HubOK /\ ThreadsOK /\ WiresOK /\ Moves(s) /\ s \in Threads /\ HoldingSlot(s)
      /\ SlotsServe /\ OnePlace /\ OwnStreams /\ ClaimsShared /\ SessionShare
      /\ NewestUnlessDropped /\ NoneLost
  BY ServeParts DEF Serve
<1>. DEFINE c == slot[s].inbound
<1>1. /\ pc[s] = "select" /\ pc'[s] = "open" /\ c \in Conns
      /\ local'[s].stream = c
      /\ slot'[s].inbound = None /\ slot'[s].conn = slot[s].conn
      /\ slot'[s].peer = slot[s].peer /\ slot'[s].first = slot[s].first
      /\ slot'[s].stopped = slot[s].stopped
      /\ UNCHANGED <<rib, slotOf, arriving, net>>
  BY <1>0 DEF TakeStream, HubOK, ThreadsOK, Slot, Local, Goto
<1>2. OthersStand(s)
  BY <1>0 DEF OthersStand, TakeStream, Moves, Threads, HubOK
<1>3. None \notin Conns /\ local[s].stream = None
  BY <1>0, <1>1, AbsentAssumption DEF SlotsServe
<1>4. SlotsServe'
  BY <1>0, <1>1, <1>2 DEF SlotsServe, OthersStand, HubOK, WiresOK
<1>. HIDE DEF c
<1>5. OnePlace'
  <2>1. \A d \in Conns : ~net'[d].handed => Nowhere(d)'
    BY <1>0, <1>1, <1>2, <1>3 DEF At, OnePlace, Nowhere, OthersStand, c
  <2>2. arriving' # None => \A q \in Slots : ~At(arriving.conn, q)'
    BY <1>0, <1>1, <1>2, <1>3 DEF At, OnePlace, OthersStand, WiresOK, c
  <2>3. ASSUME NEW q \in Slots, slot'[q].inbound # None
        PROVE  /\ \A r \in Slots : slot'[q].inbound # local'[r].stream
               /\ \A r \in Slots : ~slot'[r].stopped => slot'[q].inbound # slot'[r].conn
               /\ \A r \in Slots \ {q} : slot'[q].inbound # slot'[r].inbound
    <3>1. q # s /\ slot'[q] = slot[q]
      BY <1>1, <1>2, <2>3 DEF OthersStand
    <3>2. \A r \in Slots \ {q} : slot[q].inbound # slot[r].inbound
      BY <1>0, <2>3, <3>1 DEF OnePlace
    <3>3. \A r \in Slots : slot[q].inbound # local'[r].stream
      BY <1>0, <1>1, <1>2, <2>3, <3>1, <3>2 DEF OnePlace, OthersStand, c
    <3>4. \A r \in Slots : ~slot'[r].stopped => slot[q].inbound # slot'[r].conn
      BY <1>0, <1>1, <1>2, <2>3, <3>1 DEF OnePlace, OthersStand
    <3>5. \A r \in Slots \ {q} : slot[q].inbound # slot'[r].inbound
      BY <1>1, <1>2, <2>3, <3>1, <3>2 DEF OthersStand
    <3>. QED BY <3>1, <3>3, <3>4, <3>5
  <2>. QED BY <2>1, <2>2, <2>3 DEF At, OnePlace
<1>6. ClaimsShared' /\ SessionShare'
  <2>1. ~slot[s].stopped => slot[s].conn # c
    BY <1>0, <1>1, <1>3 DEF At, OnePlace, c
  <2>2. ClaimsShared'
    BY <1>0, <1>1 DEF ClaimsShared
  <2>3. SessionShare'
    BY <1>0, <1>1, <1>2, <2>1 DEF SessionShare, OthersStand, Replacing, Serving, Inside, Publishing
  <2>. QED BY <2>2, <2>3
<1>7. NewestUnlessDropped'
  BY <1>0, <1>1, <1>2, <1>3 DEF Dropped, NewestUnlessDropped, LiveSlots, OnePlace, OthersStand, HubOK, c
<1>8. NoneLost'
  BY <1>0, <1>1, <1>2, <1>3 DEF NoneLost, OthersStand, c
<1>9. OwnStreams'
  BY <1>0, <1>1, <1>2, <1>3, PlacesTyped DEF OwnStreams, OthersStand, c
<1>. QED BY <1>4, <1>5, <1>6, <1>7, <1>8, <1>9 DEF Sessions

LEMMA OpenSessions ==
    ASSUME HubTypeInv, Sessions, NEW s \in Slots, OpenStream(s)
    PROVE  Sessions'
<1>0. /\ HubOK /\ ThreadsOK /\ WiresOK /\ Moves(s) /\ s \in Threads /\ HoldingSlot(s)
      /\ SlotsServe /\ OnePlace /\ OwnStreams /\ ClaimsShared /\ SessionShare
      /\ NewestUnlessDropped /\ NoneLost
  BY ServeParts DEF Serve
<1>1. local[s] \in Local /\ slot[s] \in Slot /\ pc[s] = "open"
  BY <1>0 DEF HubOK, ThreadsOK, OpenStream
<1>. DEFINE x == [slot[s] EXCEPT !.conn = local[s].stream, !.sent = 0, !.first = TRUE]
<1>2. /\ x.peer = slot[s].peer /\ x.inbound = slot[s].inbound
      /\ x.conn = local[s].stream /\ x.first /\ x.stopped = slot[s].stopped
  BY <1>1 DEF Slot
<1>3. slot' = [slot EXCEPT ![s] = x]
  BY <1>0 DEF OpenStream, HubOK
<1>. HIDE DEF x
<1>4. /\ slot'[s].peer = slot[s].peer /\ slot'[s].inbound = slot[s].inbound
      /\ slot'[s].conn = local[s].stream /\ slot'[s].first /\ slot'[s].stopped = slot[s].stopped
      /\ \A q \in Slots \ {s} : slot'[q] = slot[q]
  BY <1>0, <1>2, <1>3 DEF HubOK
<1>5. pc'[s] = "greet" /\ UNCHANGED <<rib, slotOf, arriving, net, local>>
  BY <1>0 DEF OpenStream, ThreadsOK, Goto
<1>6. OthersStand(s)
  BY <1>0, <1>4 DEF OthersStand, Moves, Threads
<1>7. SlotsServe'
  BY <1>0, <1>1, <1>4, <1>5, <1>6 DEF SlotsServe, OthersStand, HubOK, WiresOK
<1>8. OnePlace'
  BY <1>0, <1>1, <1>4, <1>5, <1>6 DEF At, OnePlace, Nowhere, OthersStand
<1>9. ClaimsShared' /\ SessionShare'
  BY <1>0, <1>1, <1>4, <1>5, <1>6 DEF ClaimsShared, SessionShare, OthersStand, Replacing,
                                      Serving, Inside, Publishing
<1>10. NewestUnlessDropped'
  BY <1>0, <1>4, <1>5, <1>6 DEF Dropped, NewestUnlessDropped, LiveSlots, OthersStand, HubOK
<1>11. NoneLost'
  BY <1>0, <1>1, <1>4, <1>5, <1>6 DEF NoneLost, OthersStand
<1>12. OwnStreams'
  BY <1>0, <1>4, <1>5, <1>6, PlacesTyped DEF OwnStreams, OthersStand
<1>. QED BY <1>7, <1>8, <1>9, <1>10, <1>11, <1>12 DEF Sessions

LEMMA ReadSessions ==
    ASSUME HubTypeInv, Sessions, NEW s \in Slots, ReadClaim(s)
    PROVE  Sessions'
<1>0. /\ HubOK /\ ThreadsOK /\ WiresOK /\ Moves(s) /\ s \in Threads /\ HoldingSlot(s)
      /\ SlotsServe /\ OnePlace /\ OwnStreams /\ ClaimsShared /\ SessionShare
      /\ NewestUnlessDropped /\ NoneLost
  BY ServeParts DEF Serve
<1>. DEFINE c == local[s].stream
<1>1. pc[s] = "read" /\ c \in Conns /\ net[c] \in Stream /\ net[c].toHub # <<>>
  BY <1>0 DEF ReadClaim, HoldingSlot, Serving, WiresOK
<1>2. net[c].toHub \in Seq(SUBSET Prefixes)
  BY <1>1 DEF Stream
<1>. DEFINE e == Tail(net[c].toHub)
            x == [net[c] EXCEPT !.toHub = e]
<1>3. /\ e \in Seq(SUBSET Prefixes) /\ Head(net[c].toHub) = net[c].toHub[1]
      /\ \A i \in 1..Len(e) : i + 1 \in 1..Len(net[c].toHub) /\ e[i] = net[c].toHub[i + 1]
      /\ 1 \in 1..Len(net[c].toHub)
  BY <1>1, <1>2
<1>4. net' = [net EXCEPT ![c] = x]
  BY <1>0, <1>1 DEF ReadClaim, WiresOK
<1>5. /\ x.toHub = e /\ x.handed = net[c].handed
      /\ x.share = net[c].share /\ x.open = net[c].open /\ x.peer = net[c].peer
  <2>. HIDE DEF e
  <2>. QED BY <1>1, <1>3 DEF Stream
<1>6. local'[s].stream = c /\ local'[s].share = net[c].toHub[1]
  BY <1>0, <1>3 DEF ReadClaim, ThreadsOK, Local
<1>7. /\ pc'[s] = IF slot[s].first THEN "capability" ELSE "apply"
      /\ UNCHANGED <<rib, slotOf, slot, arriving>>
  BY <1>0 DEF ReadClaim, ThreadsOK, Goto, hubVars
<1>. HIDE DEF x, e, c
<1>8. /\ net'[c].toHub = e
      /\ \A d \in Conns : /\ net'[d].handed = net[d].handed /\ net'[d].share = net[d].share
                          /\ net'[d].open = net[d].open /\ net'[d].peer = net[d].peer
                          /\ d # c => net'[d] = net[d]
  BY <1>0, <1>1, <1>4, <1>5 DEF WiresOK
<1>9. OthersStand(s)
  BY <1>0, <1>7 DEF OthersStand, Moves, Threads
<1>10. SlotsServe'
  BY <1>0, <1>1, <1>7, <1>9 DEF SlotsServe, OthersStand, HubOK, WiresOK
<1>11. OnePlace'
  BY <1>0, <1>6, <1>7, <1>8, <1>9 DEF At, OnePlace, Nowhere, OthersStand, c
<1>12. ClaimsShared'
  <2>1. \A i \in 1..Len(e) : e[i] \subseteq net[c].share
    BY <1>0, <1>1, <1>3 DEF ClaimsShared
  <2>. QED BY <1>0, <1>1, <1>8, <2>1 DEF ClaimsShared
<1>13. SessionShare'
  <2>1. local'[s].share \subseteq net'[c].share
    BY <1>0, <1>1, <1>3, <1>6, <1>8 DEF ClaimsShared
  <2>2. slot[s].conn = c
    BY <1>0, <1>1 DEF SessionShare, Serving, c
  <2>3. ASSUME NEW q \in Slots \ {s}, Replacing(q) \/ pc[q] = "apply"
        PROVE  local[q].stream \in Conns
    BY <2>3 DEF HubTypeInv, HoldingSlot, Replacing, Serving
  <2>. QED BY <1>0, <1>6, <1>7, <1>8, <1>9, <2>1, <2>2, <2>3
           DEF SessionShare, OthersStand, Replacing, Serving, Inside, Publishing
<1>14. NewestUnlessDropped'
  BY <1>0, <1>6, <1>7, <1>8, <1>9
     DEF Dropped, NewestUnlessDropped, LiveSlots, OthersStand, HubOK, Slot, c
<1>15. NoneLost'
  BY <1>0, <1>1, <1>6, <1>7, <1>8, <1>9 DEF NoneLost, OthersStand, c
<1>16. OwnStreams'
  BY <1>0, <1>1, <1>6, <1>7, <1>8, <1>9, PlacesTyped DEF OwnStreams, OthersStand, c
<1>. QED BY <1>10, <1>11, <1>12, <1>13, <1>14, <1>15, <1>16 DEF Sessions

LEMMA EndSessions ==
    ASSUME HubTypeInv, Sessions, NEW s \in Slots, EndStream(s)
    PROVE  Sessions'
<1>0. /\ HubOK /\ ThreadsOK /\ WiresOK /\ Moves(s) /\ s \in Threads /\ HoldingSlot(s)
      /\ SlotsServe /\ OnePlace /\ OwnStreams /\ ClaimsShared /\ SessionShare
      /\ NewestUnlessDropped /\ NoneLost
  BY ServeParts DEF Serve
<1>1. /\ pc[s] = "read" /\ pc'[s] = "select" /\ ~net[local[s].stream].open
      /\ local'[s].stream = None /\ UNCHANGED <<rib, slot, slotOf, arriving, net>>
  BY <1>0 DEF EndStream, Closed, ThreadsOK, Goto, Idle, hubVars
<1>2. OthersStand(s) /\ None \notin Conns
  BY <1>0, <1>1, AbsentAssumption DEF OthersStand, Moves, Threads
<1>3. SlotsServe'
  BY <1>0, <1>1, <1>2 DEF SlotsServe, OthersStand, HubOK, WiresOK
<1>4. OnePlace'
  BY <1>0, <1>1, <1>2 DEF At, OnePlace, Nowhere, OthersStand, WiresOK
<1>5. ClaimsShared' /\ SessionShare'
  BY <1>0, <1>1, <1>2 DEF ClaimsShared, SessionShare, OthersStand, Replacing,
                          Serving, Inside, Publishing
<1>6. NewestUnlessDropped'
  BY <1>0, <1>1, <1>2 DEF Dropped, NewestUnlessDropped, LiveSlots, OthersStand, HubOK
<1>7. NoneLost'
  BY <1>0, <1>1, <1>2 DEF NoneLost, OthersStand
<1>8. OwnStreams'
  BY <1>0, <1>1, <1>2, PlacesTyped DEF OwnStreams, OthersStand
<1>. QED BY <1>3, <1>4, <1>5, <1>6, <1>7, <1>8 DEF Sessions


(* A claim applied: the first of a session leaves the spoke no more than   *)
(* it names, a later one adds what the session shares.                     *)
LEMMA ApplySessions ==
    ASSUME HubTypeInv, Sessions, NEW s \in Slots, ApplyClaim(s)
    PROVE  Sessions'
<1>0. /\ HubOK /\ ThreadsOK /\ WiresOK /\ Moves(s) /\ s \in Threads /\ HoldingSlot(s)
      /\ SlotsServe /\ OnePlace /\ OwnStreams /\ ClaimsShared /\ SessionShare
      /\ NewestUnlessDropped /\ NoneLost
  BY ServeParts DEF Serve
<1>. DEFINE o == slot[s].peer
            share == local[s].share
            replace == pc[s] = "replace"
<1>1. /\ pc[s] \in {"replace", "apply"} /\ pc'[s] = "snapshot" /\ after'[s] = "read"
      /\ o \in Peers /\ share \in SUBSET Prefixes
      /\ rib' = ApplyClaims(rib, o, share, {}, replace)
      /\ local'[s].stream = local[s].stream
      /\ UNCHANGED <<slotOf, arriving, net>>
  BY <1>0 DEF ApplyClaim, HoldingSlot, ThreadsOK, Local, PublishThen, Goto
<1>2. /\ slot'[s].peer = o /\ slot'[s].inbound = slot[s].inbound
      /\ slot'[s].conn = slot[s].conn /\ ~slot'[s].first /\ slot'[s].stopped = slot[s].stopped
      /\ \A q \in Slots \ {s} : slot'[q] = slot[q]
  BY <1>0 DEF ApplyClaim, HubOK, Slot
<1>3. OthersStand(s)
  BY <1>0, <1>2 DEF OthersStand, Moves, Threads
<1>4. \A q \in Peers, p \in Prefixes :
         /\ q # o /\ HeldBy(rib', q, p) => HeldBy(rib, q, p)
         /\ HeldBy(rib', o, p) => p \in share \/ (~replace /\ HeldBy(rib, o, p))
  <2>1. rib \in RibState
    BY <1>0 DEF HubOK
  <2>. HIDE DEF o, share, replace
  <2>2. \A q \in Peers, p \in Prefixes :
           /\ q # o /\ HeldBy(ApplyClaims(rib, o, share, {}, replace), q, p) => HeldBy(rib, q, p)
           /\ HeldBy(ApplyClaims(rib, o, share, {}, replace), o, p) =>
                 p \in share \/ (~replace /\ HeldBy(rib, o, p))
    BY <1>1, <2>1, ApplyClaimsOwners
  <2>. QED BY <1>1, <2>2
<1>5. SlotsServe'
  <2>1. \A q \in Slots : /\ slot'[q].peer = slot[q].peer /\ slot'[q].inbound = slot[q].inbound
                         /\ slot'[q].conn = slot[q].conn /\ slot'[q].stopped = slot[q].stopped
                         /\ local'[q].stream = local[q].stream
                         /\ pc'[q] = IF q = s THEN "snapshot" ELSE pc[q]
    BY <1>1, <1>2, <1>3 DEF OthersStand
  <2>. HIDE DEF o, share, replace
  <2>2. \A q \in Slots : (pc'[q] = "unused" <=> pc[q] = "unused") /\ (pc'[q] = "done" <=> pc[q] = "done")
                         /\ (pc'[q] \in {"unused", "select"} => pc[q] \in {"unused", "select"})
    BY <1>1, <2>1
  <2>3. \A x \in Peers : slotOf[x] # None => slotOf[x] \in Slots
    BY <1>0 DEF HubOK
  <2>4. arriving # None /\ arriving.slot # None => arriving.slot \in Slots
    BY PlacesTyped
  <2>5. slotOf' = slotOf /\ arriving' = arriving /\ SlotsServe
    BY <1>0, <1>1
  <2>. QED BY <2>1, <2>2, <2>3, <2>4, <2>5 DEF SlotsServe
<1>6. OnePlace'
  BY <1>0, <1>1, <1>2, <1>3 DEF At, OnePlace, Nowhere, OthersStand
<1>7. ClaimsShared' /\ SessionShare'
  BY <1>0, <1>1, <1>2, <1>3 DEF ClaimsShared, SessionShare, OthersStand, Replacing,
                                Serving, Inside, Publishing
<1>8. NewestUnlessDropped'
  <2>. SUFFICES ASSUME NEW q \in LiveSlots, slot'[q].conn # None, ~slot'[q].first,
                       local'[q].stream = slot'[q].conn, net'[slot'[q].conn].open,
                       ~Dropped(slot[q].peer)', NEW p \in Prefixes, HeldBy(rib', slot'[q].peer, p)
                PROVE  p \in net'[slot'[q].conn].share
    BY <1>1 DEF NewestUnlessDropped, LiveSlots
  <2>1. q \in Slots /\ slot[q].peer \in Peers /\ slotOf[slot[q].peer] = q
    BY <1>0 DEF LiveSlots, HubOK, SlotsServe
  <2>a. ~Dropped(slot[q].peer)
    BY <1>2, <2>1 DEF Dropped
  <2>2. CASE q = s
    <3>1. local[s].stream = slot[s].conn /\ net[slot[s].conn].open /\ slot[s].conn # None
      BY <1>1, <1>2, <2>2
    <3>2. share \subseteq net[slot[s].conn].share
      BY <1>0, <1>1, <3>1 DEF SessionShare, Replacing
    <3>3. p \in share \/ (pc[s] = "apply" /\ HeldBy(rib, o, p))
      BY <1>1, <1>2, <1>4, <2>2
    <3>4. pc[s] = "apply" => ~slot[s].first
      BY <1>0 DEF SessionShare
    <3>5. HeldBy(rib, o, p) /\ ~slot[s].first => p \in net[slot[s].conn].share
      BY <1>0, <2>2, <2>a, <3>1 DEF NewestUnlessDropped
    <3>. QED BY <1>1, <1>2, <2>2, <3>2, <3>3, <3>4, <3>5
  <2>3. CASE q # s
    <3>1. slot'[q] = slot[q] /\ local'[q] = local[q]
      BY <1>3, <2>1, <2>3 DEF OthersStand
    <3>2. slot[q].peer # o
      BY <1>0, <1>1, <2>1, <2>3, <2>a DEF SlotsServe, Dropped
    <3>3. HeldBy(rib, slot[q].peer, p)
      BY <1>4, <2>1, <3>1, <3>2
    <3>. QED BY <1>0, <1>1, <2>a, <3>1, <3>3 DEF NewestUnlessDropped
  <2>. QED BY <2>2, <2>3
<1>9. NoneLost'
  BY <1>0, <1>1, <1>2, <1>3 DEF NoneLost, OthersStand
<1>10. OwnStreams'
  BY <1>0, <1>1, <1>2, <1>3, PlacesTyped DEF OwnStreams, OthersStand
<1>. QED BY <1>5, <1>6, <1>7, <1>8, <1>9, <1>10 DEF Sessions

(* A dropped slot closes what is queued for it and ends.                   *)
LEMMA DrainSessions ==
    ASSUME HubTypeInv, Sessions, NEW s \in Slots, Drain(s)
    PROVE  Sessions'
<1>0. /\ HubOK /\ ThreadsOK /\ WiresOK /\ Moves(s) /\ s \in Threads
      /\ (\A q \in Slots : HoldingSlot(q))
      /\ SlotsServe /\ OnePlace /\ OwnStreams /\ ClaimsShared /\ SessionShare
      /\ NewestUnlessDropped /\ NoneLost
  BY ServeParts DEF Serve, HubTypeInv
<1>1. /\ pc[s] = "select" /\ pc'[s] = "done" /\ slot[s].stopped
      /\ slot'[s].stopped = slot[s].stopped
      /\ slot'[s].inbound = None /\ slot'[s].conn = slot[s].conn
      /\ slot'[s].peer = slot[s].peer /\ slot'[s].first = slot[s].first
      /\ \A q \in Slots \ {s} : slot'[q] = slot[q]
      /\ UNCHANGED <<rib, slotOf, arriving, local>>
  BY <1>0 DEF Drain, HubOK, ThreadsOK, Slot, Goto
<1>2. OthersStand(s)
  BY <1>0, <1>1 DEF OthersStand, Moves, Threads
<1>3. \A c \in Conns : /\ net'[c].peer = net[c].peer /\ net'[c].handed = net[c].handed
                       /\ net'[c].share = net[c].share
                       /\ net'[c].open => net[c].open /\ c # slot[s].inbound
                       /\ net'[c].toHub = net[c].toHub \/ net'[c].toHub = <<>>
  BY <1>0, CloseConnsFields DEF Drain, WiresOK
<1>a. \A q \in Slots : /\ slot'[q].peer = slot[q].peer /\ slot'[q].conn = slot[q].conn
                       /\ slot'[q].stopped = slot[q].stopped
                       /\ slot'[q].inbound = IF q = s THEN None ELSE slot[q].inbound
                       /\ pc'[q] = IF q = s THEN "done" ELSE pc[q]
  BY <1>1, <1>2 DEF OthersStand
<1>4. SlotsServe'
  BY <1>0, <1>1, <1>a DEF SlotsServe, HubOK, WiresOK
<1>5. OnePlace'
  <2>1. \A c \in Conns, q \in Slots : At(c, q)' => At(c, q)
    BY <1>1, <1>a, PlacesTyped DEF At
  <2>2. \A c \in Conns : ~net'[c].handed => Nowhere(c)'
    BY <1>0, <1>1, <1>3, <2>1 DEF OnePlace, Nowhere
  <2>3. arriving' # None => \A q \in Slots : ~At(arriving.conn, q)'
    BY <1>0, <1>1, <2>1, PlacesTyped DEF OnePlace
  <2>4. ASSUME NEW q \in Slots, slot'[q].inbound # None
        PROVE  /\ \A r \in Slots : slot'[q].inbound # local'[r].stream
               /\ \A r \in Slots : ~slot'[r].stopped => slot'[q].inbound # slot'[r].conn
               /\ \A r \in Slots \ {q} : slot'[q].inbound # slot'[r].inbound
    BY <1>0, <1>1, <1>a, <2>4 DEF OnePlace
  <2>. QED BY <1>1, <2>2, <2>3, <2>4 DEF OnePlace
<1>6. OwnStreams'
  BY <1>0, <1>1, <1>a, <1>3, PlacesTyped DEF OwnStreams
<1>7. ClaimsShared'
  BY <1>0, <1>3 DEF ClaimsShared
<1>8. SessionShare'
  <2>1. \A q \in Slots : Replacing(q) \/ pc[q] = "apply" => local[q].stream \in Conns
    BY <1>0 DEF HoldingSlot, Replacing, Serving
  <2>. QED BY <1>0, <1>1, <1>2, <1>3, <2>1
           DEF SessionShare, OthersStand, Replacing, Serving, Inside, Publishing
<1>9. NewestUnlessDropped'
  <2>. SUFFICES ASSUME NEW q \in LiveSlots, slot'[q].conn # None, ~slot'[q].first,
                       local'[q].stream = slot'[q].conn, net'[slot'[q].conn].open,
                       ~Dropped(slot[q].peer)', NEW p \in Prefixes, HeldBy(rib', slot'[q].peer, p)
                PROVE  p \in net'[slot'[q].conn].share
    BY <1>1 DEF NewestUnlessDropped, LiveSlots
  <2>1. q \in Slots /\ q # s
    BY <1>0, <1>1 DEF LiveSlots, HubOK, SlotsServe
  <2>2. slot'[q] = slot[q] /\ slot[q].conn \in Conns
    BY <1>1, <2>1, PlacesTyped
  <2>3. ~Dropped(slot[q].peer)
    BY <1>a, <2>1 DEF Dropped
  <2>. QED BY <1>0, <1>1, <1>3, <2>1, <2>2, <2>3 DEF NewestUnlessDropped
<1>10. NoneLost'
  BY <1>0, <1>1, <1>2, <1>3 DEF NoneLost, OthersStand
<1>. QED BY <1>4, <1>5, <1>6, <1>7, <1>8, <1>9, <1>10 DEF Sessions

LEMMA ServeSessions ==
    ASSUME HubTypeInv, HubOpen, Sessions, NEW s \in Slots, Serve(s)
    PROVE  Sessions'
<1>0. /\ HubOK /\ ThreadsOK /\ WiresOK /\ Moves(s) /\ s \in Threads /\ HoldingSlot(s)
  BY ServeParts
<1>1. CASE Greet(s)
  <2>1. /\ pc[s] = "greet"
        /\ pc'[s] = "read" \/ (pc'[s] = "snapshot" /\ after'[s] = "read")
    BY <1>0, <1>1 DEF Greet, ThreadsOK, Goto, PublishThen
  <2>2. Stands(s)
    BY <2>1 DEF Stands, Replacing, Serving, Inside, Publishing
  <2>3. UNCHANGED <<hubVars, local, arriving, net>>
    BY <1>1 DEF Greet
  <2>. QED BY <1>0, <2>2, <2>3, SameOwners, SessionsAlone DEF KeepsSlots, hubVars
<1>2. CASE RecordCapability(s)
  <2>1. /\ pc[s] = "capability"
        /\ pc'[s] = "replace" \/ (pc'[s] = "members" /\ after'[s] = "replace")
        /\ UNCHANGED <<rib, slot, slotOf, arriving, net>>
    BY <1>0, <1>2 DEF RecordCapability, ThreadsOK, Goto
  <2>2. Stands(s)
    BY <2>1 DEF Stands, Replacing, Serving, Inside, Publishing
  <2>3. local'[s].stream = local[s].stream /\ local'[s].share = local[s].share
    <3>1. local' = local \/ \E m : local' = [local EXCEPT ![s].members = m]
      BY <1>2 DEF RecordCapability
    <3>. QED BY <1>0, <3>1 DEF ThreadsOK, Local
  <2>. QED BY <1>0, <2>1, <2>2, <2>3, SameOwners, SessionsAlone DEF KeepsSlots
<1>3. ~Stop(s)
  BY DEF Stop, HubOpen
<1>. QED BY <1>1, <1>2, <1>3, DrainSessions, TakeSessions, OpenSessions, ReadSessions, EndSessions, ApplySessions
         DEF Serve


LEMMA SessionParts ==
    ASSUME HubTypeInv, Sessions
    PROVE  /\ HubOK /\ ThreadsOK /\ WiresOK /\ \A s \in Slots : HoldingSlot(s)
           /\ SlotsServe /\ OnePlace /\ OwnStreams /\ ClaimsShared /\ SessionShare
           /\ NewestUnlessDropped /\ NoneLost
BY TypeParts DEF HubTypeInv, Sessions

(* A new slot, and perhaps the stream being handed over finds it.          *)
LEMMA CreateSessions ==
    ASSUME HubTypeInv, Sessions, NEW o \in Peers, NEW s \in Slots, slotOf[o] = None,
           Create(o, s), UNCHANGED <<rib, after, local, net>>,
           \/ UNCHANGED arriving
           \/ arriving # None /\ arriving' # None /\ arriving'.conn = arriving.conn
              /\ arriving'.slot = s /\ net[arriving.conn].peer = o
    PROVE  Sessions'
<1>0. /\ HubOK /\ ThreadsOK /\ WiresOK /\ s \in Threads
      /\ SlotsServe /\ OnePlace /\ OwnStreams /\ ClaimsShared /\ SessionShare
      /\ NewestUnlessDropped /\ NoneLost
  BY SessionParts DEF Threads
<1>1. /\ pc[s] = "unused" /\ pc'[s] = "select" /\ \A q \in Slots \ {s} : pc'[q] = pc[q]
      /\ slotOf'[o] = s /\ \A q \in Peers \ {o} : slotOf'[q] = slotOf[q]
      /\ None \notin Slots
  BY <1>0, AbsentAssumption DEF Create, Goto, ThreadsOK, HubOK
<1>2. /\ slot'[s].peer = o /\ slot'[s].inbound = slot[s].inbound
      /\ slot'[s].conn = slot[s].conn /\ slot'[s].first = slot[s].first
      /\ slot'[s].stopped = slot[s].stopped /\ ~slot[s].stopped /\ slot[s].inbound = None
      /\ \A q \in Slots \ {s} : slot'[q] = slot[q]
  BY <1>0, <1>1 DEF Create, HubOK, Slot, SlotsServe
<1>3. OthersStand(s)
  BY <1>1, <1>2 DEF OthersStand
<1>4. SlotsServe'
  <2>1. ASSUME NEW q \in Slots
        PROVE  /\ pc'[q] # "unused" /\ ~slot'[q].stopped => slotOf'[slot'[q].peer] = q
               /\ pc'[q] = "done" => slot'[q].stopped
               /\ pc'[q] = "unused" =>
                     slot'[q].inbound = None /\ slot'[q].conn = None /\ ~slot'[q].stopped
               /\ pc'[q] \in {"unused", "select"} => local'[q].stream = None
    <3>1. CASE q = s
      BY <1>0, <1>1, <1>2, <3>1 DEF SlotsServe
    <3>2. CASE q # s
      <4>1. pc[q] # "unused" /\ ~slot[q].stopped => slot[q].peer \in Peers /\ slot[q].peer # o
        BY <1>0, <1>1, SessionParts DEF SlotsServe, HoldingSlot
      <4>. QED BY <1>0, <1>1, <1>2, <3>2, <4>1 DEF SlotsServe
    <3>. QED BY <3>1, <3>2
  <2>2. ASSUME NEW q \in Peers, slotOf'[q] # None
        PROVE  /\ pc'[slotOf'[q]] # "unused" /\ slot'[slotOf'[q]].peer = q
               /\ ~slot'[slotOf'[q]].stopped
    <3>1. CASE q = o
      BY <1>1, <1>2, <3>1
    <3>2. CASE q # o
      <4>1. slotOf[q] \in Slots /\ slotOf[q] # s
        BY <1>0, <1>1, <2>2, <3>2 DEF SlotsServe, HubOK
      <4>. QED BY <1>0, <1>1, <1>2, <2>2, <3>2, <4>1 DEF SlotsServe
    <3>. QED BY <3>1, <3>2
  <2>3. arriving' # None /\ arriving'.slot # None => pc'[arriving'.slot] # "unused"
    BY <1>0, <1>1 DEF SlotsServe, WiresOK
  <2>. QED BY <2>1, <2>2, <2>3 DEF SlotsServe
<1>5. OnePlace'
  BY <1>0, <1>2 DEF At, OnePlace, Nowhere
<1>6. ClaimsShared' /\ SessionShare'
  BY <1>0, <1>1, <1>2, <1>3 DEF ClaimsShared, SessionShare, OthersStand, Replacing,
                                Serving, Inside, Publishing
<1>7. NewestUnlessDropped'
  <2>. SUFFICES ASSUME NEW q \in LiveSlots', slot'[q].conn # None, ~slot'[q].first,
                       local'[q].stream = slot'[q].conn, net'[slot'[q].conn].open,
                       ~Dropped(slot[q].peer)', NEW p \in Prefixes, HeldBy(rib', slot'[q].peer, p)
                PROVE  p \in net'[slot'[q].conn].share
    BY DEF NewestUnlessDropped
  <2>1. slot'[s].conn = None
    BY <1>0, <1>1, <1>2 DEF SlotsServe
  <2>2. q # s /\ q \in LiveSlots /\ q \in Slots
    BY <1>0, <1>1, <2>1 DEF LiveSlots, HubOK
  <2>3. ~Dropped(slot[q].peer)
    BY <1>2, <2>2 DEF Dropped
  <2>. QED BY <1>0, <1>2, <2>2, <2>3 DEF NewestUnlessDropped
<1>8. NoneLost'
  BY <1>0, <1>1, <1>2, <1>3 DEF NoneLost, OthersStand
<1>9. OwnStreams'
  <2>1. local[s].stream = None /\ (arriving # None => arriving.slot # s)
    BY <1>0, <1>1 DEF SlotsServe
  <2>2. arriving' # None /\ arriving'.slot # None =>
           slot'[arriving'.slot].peer = net'[arriving'.conn].peer
    BY <1>0, <1>1, <1>2, <2>1 DEF OwnStreams, WiresOK
  <2>3. ASSUME NEW q \in Slots
        PROVE  /\ slot'[q].inbound # None => net'[slot'[q].inbound].peer = slot'[q].peer
               /\ local'[q].stream # None => net'[local'[q].stream].peer = slot'[q].peer
    BY <1>0, <1>1, <1>2, <2>1 DEF OwnStreams
  <2>. QED BY <2>2, <2>3 DEF OwnStreams
<1>. QED BY <1>4, <1>5, <1>6, <1>7, <1>8, <1>9 DEF Sessions

LEMMA DispatchSessions ==
    ASSUME HubTypeInv, Sessions, NEW c \in Conns, Dispatch(c)
    PROVE  Sessions'
<1>0. /\ HubOK /\ ThreadsOK /\ WiresOK
      /\ SlotsServe /\ OnePlace /\ OwnStreams /\ ClaimsShared /\ SessionShare
      /\ NewestUnlessDropped /\ NoneLost
  BY SessionParts
<1>1. /\ UNCHANGED <<rib, slot, slotOf, pc, after, local>>
      /\ arriving = None /\ ~net[c].handed
  BY DEF Dispatch, hubVars
<1>2. CASE CloseConns({c}) /\ UNCHANGED arriving
  BY <1>1, <1>2, CloseSessions
<1>3. CASE net' = [net EXCEPT ![c].handed = TRUE] /\ arriving' = [conn |-> c, slot |-> None]
  <2>1. \A d \in Conns : /\ net'[d].share = net[d].share /\ net'[d].open = net[d].open
                         /\ net'[d].toHub = net[d].toHub /\ net'[d].peer = net[d].peer
                         /\ d # c => net'[d].handed = net[d].handed
                         /\ net[d].handed => net'[d].handed
    BY <1>0, <1>3 DEF WiresOK, Stream
  <2>2. Nowhere(c) /\ arriving'.conn = c /\ arriving'.slot = None /\ net'[c].handed
    BY <1>0, <1>1, <1>3 DEF At, OnePlace, WiresOK, Stream
  <2>3. SlotsServe'
    BY <1>0, <1>1, <2>2 DEF SlotsServe
  <2>4. OnePlace'
    BY <1>0, <1>1, <2>1, <2>2 DEF At, OnePlace, Nowhere
  <2>5. ClaimsShared'
    BY <1>0, <2>1 DEF ClaimsShared
  <2>6. SessionShare'
    <3>1. \A s \in Slots : Replacing(s) \/ pc[s] = "apply" => local[s].stream \in Conns
      BY SessionParts DEF HoldingSlot, Replacing, Serving
    <3>. QED BY <1>0, <1>1, <2>1, <3>1 DEF SessionShare, Replacing
  <2>7. NewestUnlessDropped'
    BY <1>0, <1>1, <2>1 DEF Dropped, NewestUnlessDropped, LiveSlots, HubOK, Slot
  <2>8. NoneLost'
    <3>1. arriving' # None
      BY <1>3, AbsentAssumption
    <3>. QED BY <1>0, <1>1, <2>1, <2>2, <3>1 DEF NoneLost
  <2>9. OwnStreams'
    <3>1. \A s \in Slots : /\ slot[s].inbound \in Conns \cup {None}
                           /\ local[s].stream \in Conns \cup {None}
      BY <1>0 DEF HubOK, Slot, ThreadsOK, Local, Threads
    <3>. QED BY <1>0, <1>1, <2>1, <2>2, <3>1 DEF OwnStreams
  <2>. QED BY <2>3, <2>4, <2>5, <2>6, <2>7, <2>8, <2>9 DEF Sessions
<1>. QED BY <1>2, <1>3 DEF Dispatch

LEMMA DeliverSessions ==
    ASSUME HubTypeInv, HubOpen, Sessions, Deliver
    PROVE  Sessions'
<1>0. HubOK /\ WiresOK /\ Owned /\ arriving # None /\ arriving.conn \in Conns
  BY TypeParts DEF HubTypeInv, Deliver, WiresOK
<1>. DEFINE o == net[arriving.conn].peer
<1>1. /\ closed = "open" /\ o \in Peers /\ UNCHANGED <<rib, after, local, net>>
      /\ arriving' = [arriving EXCEPT !.slot = slotOf'[o]]
      /\ \/ slotOf[o] # None /\ UNCHANGED <<slot, slotOf, pc>>
         \/ slotOf[o] = None /\ \E s \in Slots : Create(o, s)
  BY <1>0 DEF Deliver, HubOpen, Owned
<1>2. arriving'.conn = arriving.conn /\ arriving'.slot = slotOf'[o] /\ arriving' # None
  <2>1. arriving \in [conn : Conns, slot : Slots \cup {None}]
    BY <1>0 DEF WiresOK
  <2>2. slotOf'[o] \in Slots \cup {None}
    BY <1>0, <1>1 DEF Create, HubOK
  <2>. QED BY <1>1, <2>1, <2>2, AbsentAssumption
<1>3. CASE slotOf[o] # None /\ UNCHANGED <<slot, slotOf, pc>>
  <2>1. SlotsServe /\ OnePlace /\ OwnStreams /\ ClaimsShared /\ SessionShare
        /\ NewestUnlessDropped /\ NoneLost
    BY SessionParts
  <2>2. SlotsServe'
    BY <1>1, <1>2, <1>3, <2>1 DEF SlotsServe
  <2>3. OnePlace'
    BY <1>0, <1>1, <1>2, <1>3, <2>1 DEF At, OnePlace, Nowhere
  <2>4. ClaimsShared' /\ SessionShare' /\ NewestUnlessDropped'
    BY <1>1, <1>3, <2>1 DEF ClaimsShared, SessionShare, Replacing, NewestUnlessDropped, LiveSlots, Dropped
  <2>5. NoneLost'
    BY <1>0, <1>1, <1>2, <1>3, <2>1 DEF NoneLost
  <2>6. OwnStreams'
    BY <1>0, <1>1, <1>2, <1>3, <2>1 DEF OwnStreams, SlotsServe
  <2>. QED BY <2>2, <2>3, <2>4, <2>5, <2>6 DEF Sessions
<1>4. ASSUME NEW s \in Slots, slotOf[o] = None, Create(o, s) PROVE Sessions'
  <2>1. slotOf'[o] = s
    BY <1>0, <1>1, <1>4 DEF Create, HubOK
  <2>. QED BY <1>0, <1>1, <1>2, <1>4, <2>1, CreateSessions
<1>. QED BY <1>1, <1>3, <1>4

LEMMA EnqueueSessions ==
    ASSUME HubTypeInv, HubOpen, Sessions, Enqueue
    PROVE  Sessions'
<1>0. /\ HubOK /\ ThreadsOK /\ WiresOK
      /\ SlotsServe /\ OnePlace /\ OwnStreams /\ ClaimsShared /\ SessionShare
      /\ NewestUnlessDropped /\ NoneLost
  BY SessionParts
<1>. DEFINE c == arriving.conn
            s == arriving.slot
<1>1. /\ arriving # None /\ c \in Conns /\ s \in Slots /\ arriving' = None
      /\ UNCHANGED <<rib, slotOf, pc, after, local>> /\ closed = "open"
      /\ \/ /\ slot[s].inbound = None /\ UNCHANGED net
            /\ slot' = [slot EXCEPT ![s].inbound = c]
         \/ /\ slot[s].inbound # None \/ closed = "closed"
            /\ CloseConns({c}) /\ UNCHANGED slot
  BY <1>0 DEF Enqueue, HubOpen, WiresOK
<1>. HIDE DEF c, s
<1>a. /\ pc[s] # "unused" /\ slot[s].peer = net[c].peer
      /\ \A q \in Slots : ~At(c, q)
      /\ net[c].handed
  <2>1. pc[s] # "unused"
    BY <1>0, <1>1, AbsentAssumption DEF SlotsServe, s
  <2>2. \A q \in Slots : ~At(c, q)
    BY <1>0, <1>1 DEF OnePlace, c
  <2>3. net[c].handed
    BY <1>0, <1>1 DEF OnePlace, Nowhere, c
  <2>4. slot[s].peer = net[c].peer
    BY <1>0, <1>1, AbsentAssumption DEF OwnStreams, c, s
  <2>. QED BY <2>1, <2>2, <2>3, <2>4
<1>2. CASE UNCHANGED net /\ slot[s].inbound = None /\ slot' = [slot EXCEPT ![s].inbound = c]
  <2>1. /\ slot'[s].inbound = c
        /\ \A q \in Slots : /\ slot'[q].peer = slot[q].peer /\ slot'[q].conn = slot[q].conn
                            /\ slot'[q].first = slot[q].first /\ slot'[q].stopped = slot[q].stopped
                            /\ q # s => slot'[q].inbound = slot[q].inbound
    BY <1>0, <1>1, <1>2 DEF HubOK, Slot
  <2>2. slot[s].inbound = None
    BY <1>2
  <2>3. SlotsServe'
    BY <1>0, <1>1, <1>a, <2>1 DEF SlotsServe, HubOK
  <2>4. OnePlace'
    <3>1. \A d \in Conns : ~net'[d].handed => Nowhere(d)'
      BY <1>0, <1>1, <1>2, <1>a, <2>1 DEF At, OnePlace, Nowhere
    <3>2. ASSUME NEW q \in Slots, slot'[q].inbound # None
          PROVE  /\ \A r \in Slots : slot'[q].inbound # local'[r].stream
                 /\ \A r \in Slots : ~slot'[r].stopped => slot'[q].inbound # slot'[r].conn
                 /\ \A r \in Slots \ {q} : slot'[q].inbound # slot'[r].inbound
      BY <1>0, <1>1, <1>a, <2>1, <3>2 DEF At, OnePlace
    <3>. QED BY <1>1, <3>1, <3>2 DEF At, OnePlace
  <2>5. ClaimsShared' /\ SessionShare'
    BY <1>0, <1>1, <1>2, <2>1 DEF ClaimsShared, SessionShare, Replacing
  <2>6. NewestUnlessDropped'
    BY <1>0, <1>1, <1>2, <2>1 DEF Dropped, NewestUnlessDropped, LiveSlots, HubOK
  <2>7. NoneLost'
    <3>. SUFFICES ASSUME NEW d \in Conns, net'[d].open, net'[d].handed
                  PROVE  \E q \in Slots : d \in {slot'[q].inbound, local'[q].stream}
      BY DEF NoneLost
    <3>1. CASE d = c
      BY <1>1, <1>a, <2>1, <3>1
    <3>2. CASE d # c
      <4>1. PICK q \in Slots : d \in {slot[q].inbound, local[q].stream}
        BY <1>0, <1>2, <3>2 DEF NoneLost, c
      <4>2. d # None
        BY AbsentAssumption
      <4>. QED BY <1>1, <2>1, <2>2, <4>1, <4>2
    <3>. QED BY <3>1, <3>2
  <2>8. OwnStreams'
    BY <1>0, <1>1, <1>2, <1>a, <2>1 DEF OwnStreams
  <2>. QED BY <2>3, <2>4, <2>5, <2>6, <2>7, <2>8 DEF Sessions
<1>3. CASE CloseConns({c}) /\ UNCHANGED slot
  <2>1. \A d \in Conns : /\ net'[d].handed = net[d].handed /\ net'[d].share = net[d].share
                         /\ net'[d].peer = net[d].peer
                         /\ net'[d].open => net[d].open /\ d # c
                         /\ net'[d].toHub = net[d].toHub \/ net'[d].toHub = <<>>
    BY <1>0, <1>3, CloseConnsFields DEF WiresOK
  <2>2. SlotsServe'
    BY <1>0, <1>1, <1>3 DEF SlotsServe
  <2>3. OnePlace'
    BY <1>0, <1>1, <1>3, <2>1 DEF At, OnePlace, Nowhere
  <2>4. ClaimsShared'
    BY <1>0, <2>1 DEF ClaimsShared
  <2>5. SessionShare'
    <3>1. \A q \in Slots : Replacing(q) \/ pc[q] = "apply" => local[q].stream \in Conns
      BY SessionParts DEF HoldingSlot, Replacing, Serving
    <3>. QED BY <1>0, <1>1, <1>3, <2>1, <3>1 DEF SessionShare, Replacing
  <2>6. NewestUnlessDropped'
    BY <1>0, <1>1, <1>3, <2>1 DEF Dropped, NewestUnlessDropped, LiveSlots, HubOK, Slot
  <2>7. NoneLost'
    BY <1>0, <1>1, <1>3, <2>1 DEF NoneLost, c
  <2>8. OwnStreams'
    <3>1. \A q \in Slots : /\ slot[q].inbound \in Conns \cup {None}
                           /\ local[q].stream \in Conns \cup {None}
      BY <1>0 DEF HubOK, Slot, ThreadsOK, Local, Threads
    <3>. QED BY <1>0, <1>1, <1>3, <2>1, <3>1 DEF OwnStreams
  <2>. QED BY <2>2, <2>3, <2>4, <2>5, <2>6, <2>7, <2>8 DEF Sessions
<1>. QED BY <1>1, <1>2, <1>3


(* A session dials on a stream nothing holds.                              *)
LEMMA DialSessions ==
    ASSUME HubTypeInv, Sessions, NEW o \in Peers, NEW share \in Shares, Dial(o, share)
    PROVE  Sessions'
<1>0. /\ HubOK /\ ThreadsOK /\ WiresOK
      /\ SlotsServe /\ OnePlace /\ OwnStreams /\ ClaimsShared /\ SessionShare
      /\ NewestUnlessDropped /\ NoneLost
  BY SessionParts
<1>1. PICK c \in Conns, x \in Stream :
         /\ net' = [net EXCEPT ![c] = x] /\ ~Held(c)
         /\ x.open /\ ~x.handed /\ x.share = share /\ x.toHub = <<share>>
  BY DialFields
<1>2. UNCHANGED <<rib, slot, slotOf, pc, after, local, arriving>>
  BY DEF Dial, hubVars
<1>3. net'[c] = x /\ \A d \in Conns \ {c} : net'[d] = net[d]
  BY <1>0, <1>1 DEF WiresOK
<1>4. Nowhere(c)
  <2>1. ASSUME NEW s \in Slots PROVE ~At(c, s)
    <3>1. c # slot[s].inbound /\ c # local[s].stream
      BY <1>1 DEF Held, Threads
    <3>2. CASE s \in LiveSlots
      BY <1>1, <3>1, <3>2 DEF Held, At
    <3>3. CASE s \notin LiveSlots
      <4>1. pc[s] = "unused" \/ slot[s].stopped
        BY <1>0, <3>3, SessionParts, AbsentAssumption
           DEF SlotsServe, LiveSlots, HoldingSlot
      <4>. QED BY <1>0, <3>1, <4>1, AbsentAssumption DEF SlotsServe, At
    <3>. QED BY <3>2, <3>3
  <2>2. arriving # None => arriving.conn # c
    BY <1>1 DEF Held
  <2>. QED BY <2>1, <2>2 DEF Nowhere
<1>5. SlotsServe'
  BY <1>0, <1>2 DEF SlotsServe
<1>6. OnePlace'
  BY <1>0, <1>2, <1>3, <1>4 DEF At, OnePlace, Nowhere
<1>7. ClaimsShared'
  <2>1. \A i \in 1..Len(x.toHub) : x.toHub[i] \subseteq x.share
    BY <1>1
  <2>. QED BY <1>0, <1>3, <2>1 DEF ClaimsShared
<1>8. SessionShare'
  <2>1. \A s \in Slots : Replacing(s) \/ pc[s] = "apply" =>
           local[s].stream \in Conns /\ local[s].stream # c
    BY <1>4, SessionParts DEF HoldingSlot, Replacing, Serving, Nowhere, At
  <2>. QED BY <1>0, <1>2, <1>3, <2>1 DEF SessionShare, Replacing
<1>9. NewestUnlessDropped'
  <2>. SUFFICES ASSUME NEW q \in LiveSlots, slot[q].conn # None, ~slot[q].first,
                       local[q].stream = slot[q].conn, net'[slot[q].conn].open,
                       ~Dropped(slot[q].peer), NEW p \in Prefixes, HeldBy(rib, slot[q].peer, p)
                PROVE  p \in net'[slot[q].conn].share
    BY <1>2 DEF NewestUnlessDropped, LiveSlots, Dropped
  <2>1. q \in Slots /\ slot[q].conn \in Conns
    BY <1>0 DEF LiveSlots, HubOK, Slot
  <2>2. slot[q].conn # c
    BY <1>4, <2>1 DEF Nowhere, At
  <2>. QED BY <1>0, <1>3, <2>1, <2>2 DEF NewestUnlessDropped
<1>10. NoneLost'
  BY <1>0, <1>1, <1>2, <1>3 DEF NoneLost
<1>11. OwnStreams'
  <2>1. \A s \in Slots : /\ slot[s].inbound \in (Conns \ {c}) \cup {None}
                         /\ local[s].stream \in (Conns \ {c}) \cup {None}
    BY <1>0, <1>4 DEF HubOK, Slot, ThreadsOK, Local, Threads, Nowhere, At
  <2>2. arriving # None => arriving.conn \in Conns \ {c} /\ arriving.slot \in Slots \cup {None}
    BY <1>0, <1>4 DEF WiresOK, Nowhere
  <2>. QED BY <1>0, <1>2, <1>3, <2>1, <2>2 DEF OwnStreams
<1>. QED BY <1>5, <1>6, <1>7, <1>8, <1>9, <1>10, <1>11 DEF Sessions

LEMMA SpokeSessions ==
    ASSUME HubTypeInv, Sessions, NEW o \in Peers, SpokeStep(o) \/ Refresh(o)
    PROVE  Sessions'
<1>0. /\ HubOK /\ ThreadsOK /\ WiresOK
      /\ SlotsServe /\ OnePlace /\ OwnStreams /\ ClaimsShared /\ SessionShare
      /\ NewestUnlessDropped /\ NoneLost
  BY SessionParts
<1>1. ASSUME UNCHANGED <<rib, slot, slotOf, arriving, pc, after, local>>,
             \A d \in Conns : /\ net'[d].peer = net[d].peer /\ net'[d].handed = net[d].handed
                              /\ net'[d].share = net[d].share /\ net'[d].open = net[d].open,
             ClaimsShared'
      PROVE  Sessions'
  BY <1>1, SameOwners, SessionsStand DEF KeepsSlots, Stands
<1>2. CASE Refresh(o)
  <2>. DEFINE c == session[o]
              h == <<net[c].share>>
              n == net[c].refreshes + 1
              x == [net[c] EXCEPT !.toHub = h, !.refreshes = n]
  <2>1. c \in Conns /\ net[c] \in Stream /\ net' = [net EXCEPT ![c] = x]
    BY <1>0, <1>2 DEF Refresh, WiresOK
  <2>2. /\ x.handed = net[c].handed /\ x.share = net[c].share /\ x.open = net[c].open
        /\ x.toHub = h /\ x.peer = net[c].peer
    <3>. HIDE DEF h, n
    <3>. QED BY <2>1 DEF Stream
  <2>3. \A i \in 1..Len(h) : h[i] \subseteq net[c].share
    OBVIOUS
  <2>. HIDE DEF x, h, c
  <2>4. net'[c] = x /\ \A d \in Conns \ {c} : net'[d] = net[d]
    BY <1>0, <2>1 DEF WiresOK
  <2>5. ClaimsShared'
    BY <1>0, <2>1, <2>2, <2>3, <2>4 DEF ClaimsShared
  <2>6. UNCHANGED <<rib, slot, slotOf, arriving, pc, after, local>>
    BY <1>2 DEF Refresh, hubVars
  <2>. QED BY <1>1, <2>2, <2>4, <2>5, <2>6
<1>3. CASE Receive(o)
  <2>1. PICK c \in Conns :
          /\ UNCHANGED <<hubVars, pc, after, local, arriving, jobs, session, bounds>>
          /\ \/ CloseConns({c})
             \/ \E x \in Stream : /\ net' = [net EXCEPT ![c] = x]
                                  /\ x = [net[c] EXCEPT !.toSpoke = x.toSpoke]
    BY <1>3, ReceiveFields
  <2>2. CASE CloseConns({c})
    BY <2>1, <2>2, CloseSessions DEF hubVars
  <2>3. ASSUME NEW x \in Stream, net' = [net EXCEPT ![c] = x],
               x = [net[c] EXCEPT !.toSpoke = x.toSpoke]
        PROVE  Sessions'
    <3>1. /\ x.handed = net[c].handed /\ x.share = net[c].share /\ x.open = net[c].open
          /\ x.toHub = net[c].toHub /\ x.peer = net[c].peer
      BY <1>0, <2>3 DEF WiresOK, Stream
    <3>2. net'[c] = x /\ \A d \in Conns \ {c} : net'[d] = net[d]
      BY <1>0, <2>3 DEF WiresOK
    <3>3. ClaimsShared'
      BY <1>0, <3>1, <3>2 DEF ClaimsShared
    <3>. QED BY <1>1, <2>1, <3>1, <3>2, <3>3 DEF hubVars
  <2>. QED BY <2>1, <2>2, <2>3
<1>4. CASE EndSession(o)
  <2>1. UNCHANGED <<rib, slot, slotOf, arriving, pc, after, local, net>>
    BY <1>4 DEF EndSession, hubVars
  <2>2. ClaimsShared'
    BY <1>0, <2>1 DEF ClaimsShared
  <2>. QED BY <1>1, <2>1, <2>2
<1>. QED BY <1>2, <1>3, <1>4, DialSessions DEF SpokeStep

LEMMA SweepSessions ==
    ASSUME HubTypeInv, Sessions, Sweep
    PROVE  Sessions'
<1>0. HubOK /\ Moves(Sweeper) /\ Sweeper \in Threads /\ Sweeper \notin Slots
  BY TypeParts, SweepType, ThreadAssumption DEF HubTypeInv, Threads
<1>1. PICK quiet \in SUBSET Prefixes : rib' = Without(rib, quiet)
  BY DEF Sweep
<1>2. KeepsOwners(rib, rib') /\ KeepsSlots /\ UNCHANGED <<slotOf, arriving, net>>
  BY <1>0, <1>1, OwnersKept DEF HubOK, Sweep, KeepsSlots
<1>. QED BY <1>0, <1>2, SessionsAlone

LEMMA InitSessions == Init => HubSessionInv
<1>. SUFFICES ASSUME Init PROVE Sessions
  BY DEF HubSessionInv
<1>. USE AbsentAssumption DEF Init, Fresh, Idle, NoConn
<1>0. HubTypeInv
  BY InitHubType
<1>1. SlotsServe
  BY DEF SlotsServe, Threads
<1>2. OnePlace /\ OwnStreams
  BY DEF At, OnePlace, Nowhere, OwnStreams, Threads
<1>3. ClaimsShared
  BY DEF ClaimsShared
<1>4. SessionShare
  BY DEF SessionShare, Replacing, Serving, Inside, Publishing, Threads
<1>5. NewestUnlessDropped /\ NoneLost
  BY DEF Dropped, NewestUnlessDropped, NoneLost, LiveSlots
<1>. QED BY <1>1, <1>2, <1>3, <1>4, <1>5 DEF Sessions

LEMMA NextSessions == HubTypeInv /\ HubSessionInv /\ [Next]_vars => HubSessionInv'
<1>. SUFFICES ASSUME HubTypeInv, HubSessionInv, [Next]_vars, HubOpen' PROVE Sessions'
  BY DEF HubSessionInv
<1>0. HubOpen /\ Sessions
  BY OpenStays DEF HubSessionInv
<1>1. ASSUME NEW t \in Threads, ThreadStep(t) PROVE Sessions'
  BY <1>0, <1>1, PublishSessions, InstallSessions, ServeSessions, CallSessions DEF ThreadStep
<1>2. CASE Host
  BY <1>0, <1>2, DispatchSessions, DeliverSessions, EnqueueSessions DEF Host
<1>3. CASE Sweep
  BY <1>0, <1>3, SweepSessions
<1>4. ASSUME NEW o \in Peers, Register(o) PROVE Sessions'
  <2>1. PICK s \in Slots : Create(o, s)
    BY <1>4 DEF Register
  <2>2. slotOf[o] = None /\ UNCHANGED <<rib, after, local, net, arriving>>
    BY <1>4 DEF Register
  <2>. QED BY <1>0, <2>1, <2>2, CreateSessions
<1>5. ASSUME NEW o \in Peers, SpokeStep(o) \/ Refresh(o) PROVE Sessions'
  BY <1>0, <1>5, SpokeSessions
<1>6. ASSUME NEW c \in Conns, LoseStream(c) PROVE Sessions'
  BY <1>0, <1>6, CloseSessions DEF LoseStream, hubVars
<1>7. CASE UNCHANGED vars
  <2>1. UNCHANGED <<rib, slot, slotOf, arriving, pc, after, local, net>>
    BY <1>7 DEF vars, hubVars
  <2>2. ClaimsShared'
    BY <1>0, <2>1 DEF Sessions, ClaimsShared
  <2>. QED BY <1>0, <2>1, <2>2, SameOwners, SessionsStand DEF KeepsSlots, Stands
<1>. QED BY <1>1, <1>2, <1>3, <1>4, <1>5, <1>6, <1>7 DEF Next

(* While the hub is open, the newest session speaks for a spoke that was   *)
(* never removed (runStream, applyClaimSet): once its first claim is       *)
(* applied, the table holds nothing of the spoke the session does not      *)
(* share, whatever the sessions before it left to read, and however        *)
(* operator calls, removals of other spokes, sweeps and lost streams       *)
(* interleave.                                                             *)
THEOREM HubNewestUnlessDropped == Spec => [](HubOpen => NewestUnlessDropped)
<1>1. HubSessionInv => (HubOpen => NewestUnlessDropped)
  BY DEF HubSessionInv, Sessions
<1>. QED BY <1>1, InitHubType, NextHubType, InitSessions, NextSessions, PTL DEF Spec

LEMMA KeptWhereServed == HubTypeInv /\ Sessions => KeptUnlessDropped
<1>. SUFFICES ASSUME HubTypeInv, Sessions, NEW c \in Conns, net[c].open, net[c].handed,
                     ~Dropped(net[c].peer), ~(arriving # None /\ arriving.conn = c)
              PROVE  \E s \in Slots : pc[s] # "done" /\ c \in {slot[s].inbound, local[s].stream}
  BY DEF KeptUnlessDropped
<1>1. SlotsServe /\ OwnStreams /\ NoneLost
  BY DEF Sessions
<1>2. PICK s \in Slots : c \in {slot[s].inbound, local[s].stream}
  BY <1>1 DEF NoneLost
<1>3. slot[s].peer = net[c].peer
  BY <1>1, <1>2, AbsentAssumption DEF OwnStreams
<1>4. pc[s] # "done"
  BY <1>1, <1>3 DEF Dropped, SlotsServe
<1>. QED BY <1>2, <1>4

(* While the hub is open, no stream of a spoke that was never removed is   *)
(* forgotten (deliver, serve): one the host handed over and nobody closed  *)
(* is being handed over, queued for a slot that serves, or read.           *)
THEOREM HubKeptUnlessDropped == Spec => [](HubOpen => KeptUnlessDropped)
<1>1. HubTypeInv /\ HubSessionInv => (HubOpen => KeptUnlessDropped)
  BY KeptWhereServed DEF HubSessionInv
<1>. QED BY <1>1, InitHubType, NextHubType, InitSessions, NextSessions, PTL DEF Spec

(* While no spoke at all was removed, the same of every spoke: what the    *)
(* run checks of the newest session ...                                    *)
COROLLARY HubNewestSpeaks == Spec => [](NothingDropped => NewestSessionSpeaks)
<1>1. HubTypeInv /\ (HubOpen => NewestUnlessDropped)
         => (NothingDropped => NewestSessionSpeaks)
  <2>. SUFFICES ASSUME HubTypeInv, NewestUnlessDropped, NothingDropped PROVE NewestSessionSpeaks
    BY DEF NothingDropped
  <2>1. \A o : ~Dropped(o)
    BY DEF NothingDropped, Dropped
  <2>. QED BY <2>1 DEF NewestUnlessDropped, NewestSessionSpeaks
<1>. QED BY <1>1, InitHubType, NextHubType, HubNewestUnlessDropped, PTL DEF Spec

(* ... and of the streams handed over.                                     *)
COROLLARY HubNoneForgotten == Spec => [](NothingDropped => NoStreamForgotten)
<1>1. (HubOpen => KeptUnlessDropped) => (NothingDropped => NoStreamForgotten)
  BY DEF NothingDropped, Dropped, KeptUnlessDropped, NoStreamForgotten
<1>. QED BY <1>1, HubKeptUnlessDropped, PTL


(* With calls that neither remove spokes nor close the hub, both hold at   *)
(* all times.                                                              *)
Gentle(j) == "peers" \notin DOMAIN j /\ "close" \notin DOMAIN j

GentleCall(t) ==
    /\ pc[t] \notin {"meta", "unregister", "close"}
    /\ pc[t] \in Inside => after[t] = "end"
    /\ pc[t] \in {"load", "base"} => Gentle(local[t].job)

GentleInv ==
    /\ NothingDropped
    /\ \A i \in 1..Len(jobs) : Gentle(jobs[i])
    /\ \A t \in Callers : GentleCall(t)

LEMMA GentleNext ==
    ASSUME HubTypeInv, GentleInv, [Next]_vars
    PROVE  GentleInv'
<1>0. HubOK /\ ThreadsOK /\ WiresOK
  BY TypeParts DEF HubTypeInv
<1>1. ASSUME KeepsSlots, UNCHANGED <<closed, jobs>>,
             \A t \in Callers : pc'[t] = pc[t] /\ after'[t] = after[t] /\ local'[t] = local[t]
      PROVE  GentleInv'
  BY <1>1 DEF GentleInv, NothingDropped, HubOpen, GentleCall, KeepsSlots
<1>2. ASSUME NEW t \in Threads, t \notin Callers, Moves(t),
             \A s \in Slots : slot'[s].stopped = slot[s].stopped, UNCHANGED <<closed, jobs>>
      PROVE  GentleInv'
  BY <1>2 DEF GentleInv, NothingDropped, HubOpen, GentleCall, Moves, Threads
<1>3. ASSUME NEW t \in Callers, Moves(t), GentleCall(t)', UNCHANGED <<closed, jobs>>,
             \A s \in Slots : slot'[s].stopped = slot[s].stopped
      PROVE  GentleInv'
  BY <1>3 DEF GentleInv, NothingDropped, HubOpen, GentleCall, Moves, Threads
<1>4. ASSUME NEW t \in Threads, Publish(t) PROVE GentleInv'
  <2>1. /\ UNCHANGED <<closed, jobs>> /\ KeepsSlots /\ Moves(t) /\ pc[t] \in Publishing
        /\ \/ pc'[t] \in Publishing /\ after'[t] = after[t]
           \/ pc'[t] = after[t]
    BY <1>4, PublishKeeps, PublishType
  <2>2. CASE t \in Callers
    <3>1. GentleCall(t)'
      BY <2>1, <2>2 DEF GentleInv, GentleCall, Inside, Publishing
    <3>. QED BY <1>3, <2>1, <2>2, <3>1 DEF KeepsSlots
  <2>3. CASE t \notin Callers
    BY <1>2, <2>1, <2>3 DEF KeepsSlots
  <2>. QED BY <2>2, <2>3
<1>5. ASSUME NEW t \in Threads, InstallMembers(t) PROVE GentleInv'
  <2>1. /\ UNCHANGED <<closed, jobs, slot, after>> /\ Moves(t)
        /\ pc[t] = "members" /\ pc'[t] = "snapshot"
    BY <1>0, <1>5, InstallType DEF InstallMembers, ThreadsOK, Goto
  <2>2. CASE t \in Callers
    <3>1. GentleCall(t)'
      BY <2>1, <2>2 DEF GentleInv, GentleCall, Inside, Publishing
    <3>. QED BY <1>3, <2>1, <2>2, <3>1
  <2>3. CASE t \notin Callers
    BY <1>2, <2>1, <2>3
  <2>. QED BY <2>2, <2>3
<1>6. ASSUME NEW t \in Slots, Serve(t) PROVE GentleInv'
  <2>1. t \in Threads /\ t \notin Callers /\ Moves(t) /\ UNCHANGED <<closed, jobs>>
    <3>1. UNCHANGED <<closed, jobs>>
      BY <1>6 DEF Serve, TakeStream, Drain, Stop, OpenStream, Greet, ReadClaim, EndStream,
         RecordCapability, ApplyClaim, hubVars
    <3>. QED BY <1>6, <3>1, ServeType, ThreadAssumption DEF Threads
  <2>2. \A s \in Slots : slot'[s].stopped = slot[s].stopped
    <3>1. CASE TakeStream(t) \/ OpenStream(t) \/ ApplyClaim(t) \/ Drain(t)
      <4>1. CASE TakeStream(t)
        BY <1>0, <4>1 DEF TakeStream, HubOK, Slot
      <4>2. CASE OpenStream(t)
        BY <1>0, <4>2 DEF OpenStream, HubOK, Slot
      <4>3. CASE ApplyClaim(t)
        BY <1>0, <4>3 DEF ApplyClaim, HubOK, Slot
      <4>4. CASE Drain(t)
        BY <1>0, <4>4 DEF Drain, HubOK, Slot
      <4>. QED BY <3>1, <4>1, <4>2, <4>3, <4>4
    <3>2. CASE ~(TakeStream(t) \/ OpenStream(t) \/ ApplyClaim(t) \/ Drain(t))
      BY <1>6, <3>2 DEF Serve, Stop, Greet, ReadClaim, EndStream, RecordCapability, hubVars
    <3>. QED BY <3>1, <3>2
  <2>. QED BY <1>2, <2>1, <2>2
<1>7. ASSUME NEW t \in Callers, Call(t) PROVE GentleInv'
  <2>0. Moves(t) /\ t \in Threads /\ GentleCall(t)
    BY <1>7, CallType DEF GentleInv, Threads
  <2>1. ASSUME NEW j \in NextJob PROVE Gentle(j) /\ \A i \in 1..Len(Tail(jobs)) : Gentle(Tail(jobs)[i])
    <3>1. jobs \in Seq(Job) /\ jobs # <<>> /\ j = Head(jobs)
      BY <1>0, <2>1 DEF NextJob, WiresOK
    <3>2. 1 \in 1..Len(jobs) /\ j = jobs[1]
      BY <3>1
    <3>3. \A i \in 1..Len(Tail(jobs)) : i + 1 \in 1..Len(jobs) /\ Tail(jobs)[i] = jobs[i + 1]
      BY <3>1
    <3>. QED BY <3>2, <3>3 DEF GentleInv
  <2>2. ASSUME NEW j \in NextJob, GentleCall(t)', jobs' = Tail(jobs), UNCHANGED <<slot, closed>>
        PROVE  GentleInv'
    BY <2>0, <2>1, <2>2 DEF GentleInv, NothingDropped, HubOpen, GentleCall, Moves, Threads
  <2>3. ASSUME NEW j \in NextJob, SetLanAllow(t, j) PROVE GentleInv'
    <3>1. GentleCall(t)'
      BY <1>0, <2>0, <2>3 DEF SetLanAllow, PublishThen, Goto, GentleCall, ThreadsOK
    <3>. QED BY <2>2, <2>3, <3>1 DEF SetLanAllow, Begin
  <2>5. ASSUME NEW j \in NextJob, SetPeerIPs(t, j) PROVE GentleInv'
    <3>1. pc'[t] = "load" /\ local'[t].job = j
      BY <1>0, <2>0, <2>5 DEF SetPeerIPs, Begin, Goto, ThreadsOK, Local
    <3>2. GentleCall(t)'
      BY <2>1, <3>1 DEF GentleCall, Inside, Publishing
    <3>. QED BY <2>2, <2>5, <3>2 DEF SetPeerIPs, Begin
  <2>6. ASSUME NEW j \in NextJob, SetPeers(t, j) \/ Close(t, j) PROVE FALSE
    BY <2>1, <2>6 DEF SetPeers, Close, Gentle
  <2>7. CASE SetPeerMeta(t) \/ Unregister(t) \/ Unregistered(t) \/ CloseStreams(t)
    BY <2>0, <2>7 DEF SetPeerMeta, Unregister, Unregistered, CloseStreams, GentleCall
  <2>8. CASE LoadMembers(t)
    <3>1. pc[t] = "load" /\ pc'[t] = "base" /\ local'[t].job = local[t].job
          /\ UNCHANGED <<slot, closed, jobs>>
      BY <1>0, <2>0, <2>8 DEF LoadMembers, Goto, ThreadsOK, Local, hubVars
    <3>2. GentleCall(t)'
      BY <2>0, <3>1 DEF GentleCall, Inside, Publishing
    <3>. QED BY <1>3, <2>0, <3>1, <3>2
  <2>9. CASE SetBaseMembers(t)
    <3>1. pc[t] = "base" /\ pc'[t] = "members" /\ UNCHANGED <<slot, closed, jobs>>
          /\ after' = [after EXCEPT ![t] = IF "peers" \in DOMAIN local[t].job
                                           THEN "unregister" ELSE "end"]
      BY <1>0, <2>0, <2>9 DEF SetBaseMembers, Goto, ThreadsOK
    <3>2. GentleCall(t)'
      BY <1>0, <2>0, <3>1 DEF GentleCall, Gentle, ThreadsOK
    <3>. QED BY <1>3, <2>0, <3>1, <3>2
  <2>10. CASE End(t)
    <3>1. pc'[t] = "idle" /\ UNCHANGED <<slot, closed, jobs>>
      BY <1>0, <2>0, <2>10 DEF End, Goto, ThreadsOK, hubVars
    <3>2. GentleCall(t)'
      BY <3>1 DEF GentleCall, Inside, Publishing
    <3>. QED BY <1>3, <2>0, <3>1, <3>2
  <2>. QED BY <1>7, <2>3, <2>5, <2>6, <2>7, <2>8, <2>9, <2>10 DEF Call
<1>8. CASE Host \/ \E o \in Peers : Register(o)
  <2>1. UNCHANGED <<closed, jobs, after, local>>
    BY <1>8 DEF Host, Dispatch, Deliver, Enqueue, Register, hubVars
  <2>2. \A t \in Callers : pc'[t] = pc[t]
    <3>1. UNCHANGED pc \/ \E s \in Slots : Goto(s, "select")
      BY <1>8 DEF Host, Dispatch, Deliver, Enqueue, Register, Create, hubVars
    <3>2. ASSUME NEW s \in Slots, Goto(s, "select"), NEW t \in Callers PROVE pc'[t] = pc[t]
      <4>1. t # s /\ t \in Threads /\ s \in Threads
        BY ThreadAssumption DEF Threads
      <4>. QED BY <1>0, <3>2, <4>1 DEF Goto, ThreadsOK
    <3>. QED BY <3>1, <3>2
  <2>3. \A s \in Slots : slot'[s].stopped = slot[s].stopped
    <3>1. CASE Deliver
      BY <1>0, <3>1 DEF Deliver, Create, HubOK, Slot
    <3>2. CASE Enqueue
      BY <1>0, <3>2 DEF Enqueue, HubOK, Slot
    <3>3. CASE \E o \in Peers : Register(o)
      BY <1>0, <3>3 DEF Register, Create, HubOK, Slot
    <3>. QED BY <1>8, <3>1, <3>2, <3>3 DEF Host, Dispatch, hubVars
  <2>. QED BY <2>1, <2>2, <2>3 DEF GentleInv, NothingDropped, HubOpen, GentleCall
<1>9. CASE Sweep
  BY <1>2, <1>9, SweepType, ThreadAssumption DEF Sweep, Threads
<1>10. CASE \E o \in Peers : SpokeStep(o) \/ Refresh(o)
  BY <1>1, <1>10 DEF SpokeStep, Refresh, Dial, Receive, EndSession, hubVars, KeepsSlots
<1>11. CASE (\E c \in Conns : LoseStream(c)) \/ UNCHANGED vars
  BY <1>1, <1>11 DEF LoseStream, vars, hubVars, KeepsSlots
<1>. QED BY <1>4, <1>5, <1>6, <1>7, <1>8, <1>9, <1>10, <1>11, ThreadAssumption
         DEF Next, ThreadStep

(* With an operator that only sets policies, routes and assignments, both  *)
(* hold of every state the hub reaches.                                    *)
COROLLARY HubGentleOperator ==
    ASSUME \A i \in 1..Len(Jobs) : Gentle(Jobs[i])
    PROVE  Spec => []NewestSessionSpeaks /\ []NoStreamForgotten
<1>1. Init => GentleInv
  BY DEF Init, GentleInv, NothingDropped, HubOpen, GentleCall, Inside, Publishing, Fresh, Threads
<1>2. HubTypeInv /\ GentleInv /\ [Next]_vars => GentleInv'
  BY GentleNext
<1>3. GentleInv => NothingDropped
  BY DEF GentleInv
<1>. QED BY <1>1, <1>2, <1>3, InitHubType, NextHubType, HubNewestSpeaks, HubNoneForgotten, PTL
         DEF Spec
=============================================================================
