----------------------------- MODULE ControlHub -----------------------------
(***************************************************************************)
(* The LAN-routing control channel of a tun hub (src/tunnel/ctrlhub.go)    *)
(* with the RIB it owns, the hub operations that call it                   *)
(* (src/tunnel/tun.go) and the spokes at the other end                     *)
(* (src/tunnel/netview_router.go).                                         *)
(*                                                                         *)
(* Threads: one serve goroutine per slot, one per operator call in flight, *)
(* and the sweep.  A step is one critical section of rib.mu or             *)
(* controlHub.mu, or one Write to a stream; whatever the code does between *)
(* two of them can interleave with every other thread.  publish is the     *)
(* part every thread runs: its steps carry the thread, and after[t] is     *)
(* where the caller goes on.                                               *)
(*                                                                         *)
(* Time is abstracted: the sweep may find any dynamic claim quiet, a       *)
(* stream may die and a write may time out at any moment, MaxFaults and    *)
(* MaxSweeps times at most.                                                *)
(***************************************************************************)
EXTENDS RibTable, Sequences

CONSTANTS
    Slots,          \* controlPeer objects
    Callers,        \* operator calls that may be in flight together
    Sweeper,        \* the sweep goroutine
    Conns,          \* streams; an identity is used again once nothing holds it
    Jobs,           \* the operator calls made, in the order they begin
    Shares,         \* share_lan settings a spoke may be configured with
    Direct,         \* spokes that advertise a direct listener
    Policy, Seats,  \* the lan_allow and the assignment the hub starts with
    Injected,       \* the hub's own routes: the "via" of each prefix
    HasSink,        \* the hub has a handler to install routes into
    MaxFaults,      \* bound: streams lost and writes timed out
    MaxSweeps,      \* bound: sweeps that withdraw something
    MaxRefresh      \* bound: refreshes of one session

Seat == [ip : Addrs, key : Peers]

(* A netview and the two writes of one, the hub's own table, and a call.   *)
Netview ==
    [rev     : Nat,
     claims  : [Prefixes -> {None} \cup [origin : Peers \cup {StaticOrigin},
                                        allow  : SUBSET Peers]],
     members : SUBSET Member]

Frame == [head : Nat] \cup [body : Netview]

Table == [Prefixes -> {None} \cup [peer : Peers, allow : SUBSET Peers]]

Allowlist == [peers : SUBSET Peers, off : SUBSET Peers]

Job == [allow : [Peers -> {None} \cup SUBSET Prefixes]]
       \cup [seats : SUBSET Seat]
       \cup Allowlist
       \cup [close : BOOLEAN]

ASSUME AbsentAssumption ==
    None \notin Conns \cup Slots \cup Netview \cup [conn : Conns, slot : Slots \cup {None}]

ASSUME ThreadAssumption == Slots \cap Callers = {} /\ Sweeper \notin Slots \cup Callers

ASSUME HubAssumption ==
    /\ Jobs \in Seq(Job)
    /\ Policy \in [Peers -> {None} \cup SUBSET Prefixes]
    /\ Seats \subseteq Seat
    /\ DOMAIN Injected \subseteq Prefixes
    /\ \A p \in DOMAIN Injected : Injected[p] \in {None} \cup {m.ip : m \in Seats}
    /\ Shares \subseteq SUBSET Prefixes
    /\ HasSink \in BOOLEAN
    /\ MaxFaults \in Nat /\ MaxSweeps \in Nat /\ MaxRefresh \in Nat

Threads == Slots \cup Callers \cup {Sweeper}

VARIABLES
    rib,            \* controlHub.rib
    base,           \* baseMembers
    caps,           \* the peers with a direct capability
    disabled,       \* the peers switched off
    slotOf,         \* peers: the slot of each spoke
    slot,           \* the controlPeers
    publishedRev,
    closed,         \* "open", then closed, then done as well
    assigned,       \* spokeAuthorizer.assigned
    routed,         \* peers whose inbound streams the host routes to this hub
    sink,           \* the handler's prefix table
    pc, after,      \* where each thread is, and where it goes after publish
    local,          \* what each thread has read
    arriving,       \* the stream the host's accept loop is handing over
    jobs,           \* operator calls still to be made
    net,            \* the streams
    session,        \* each spoke's stream
    view,           \* each spoke's installed netview
    faults, sweeps  \* bounds spent

hubVars  == <<rib, base, caps, disabled, slotOf, slot, publishedRev, closed,
              assigned, routed, sink>>
spokeVars == <<session, view>>
bounds   == <<faults, sweeps>>
vars     == <<hubVars, pc, after, local, arriving, jobs, net, spokeVars, bounds>>

Closed(c) == ~net[c].open

Fresh  == [peer |-> None, inbound |-> None, conn |-> None, sent |-> 0,
           stopped |-> FALSE, first |-> TRUE]
Idle   == [snap |-> None, targets |-> {}, routes |-> None, members |-> None,
           conn |-> None, stream |-> None, share |-> {}, job |-> None]
NoConn == [peer |-> None, open |-> FALSE, handed |-> FALSE, share |-> {},
           toHub |-> <<>>, toSpoke |-> <<>>, refreshes |-> 0]

(* mergedMembersLocked.                                                     *)
Merged(seats, direct, off) ==
    {[ip |-> m.ip, key |-> m.key, direct |-> m.key \in direct,
      disabled |-> m.key \in off] : m \in seats}

(***************************************************************************)
(* SetStaticRoutes, which Run calls once, before a claim can arrive, and   *)
(* after SetMembers, which "via" is resolved against.  One spec in error   *)
(* and Run closes the hub, so a hub that runs has them all.                *)
(***************************************************************************)
WithInjected(r) ==
    [r EXCEPT !.claims = [p \in Prefixes |->
                            IF p \in DOMAIN Injected
                            THEN [origin |-> StaticOrigin, via |-> MemberKey(r, Injected[p]),
                                  allow |-> {}, age |-> 0]
                            ELSE @[p]],
              !.rev    = @ + Cardinality(DOMAIN Injected)]

(* A hub that Run has just started: its membership is in and published.    *)
Init ==
    /\ rib = WithInjected(WithMembers(NewRib(Policy), Merged(Seats, {}, {})))
    /\ base = Seats /\ caps = {} /\ disabled = {}
    /\ slotOf = [o \in Peers |-> None]
    /\ slot = [s \in Slots |-> Fresh]
    /\ publishedRev = rib.rev
    /\ closed = "open"
    /\ assigned = Seats
    /\ routed = Peers
    /\ sink = Routes(rib)
    /\ pc = [t \in Threads |-> IF t \in Slots THEN "unused" ELSE "idle"]
    /\ after = [t \in Threads |-> "idle"]
    /\ local = [t \in Threads |-> Idle]
    /\ arriving = None
    /\ jobs = Jobs
    /\ net = [c \in Conns |-> NoConn]
    /\ session = [o \in Peers |-> None]
    /\ view = [o \in Peers |-> None]
    /\ faults = 0 /\ sweeps = 0

Goto(t, l) == pc' = [pc EXCEPT ![t] = l]

(* Publish, then go on at l.                                               *)
PublishThen(t, l) == Goto(t, "snapshot") /\ after' = [after EXCEPT ![t] = l]

CloseConns(cs) ==
    net' = [c \in Conns |-> IF c \in cs THEN [net[c] EXCEPT !.open = FALSE,
                                                             !.toHub = <<>>,
                                                             !.toSpoke = <<>>]
                            ELSE net[c]]

LiveSlots == {slotOf[o] : o \in Peers} \ {None}

-----------------------------------------------------------------------------
(***************************************************************************)
(* publish and installRoutes.                                              *)
(***************************************************************************)
TakeSnapshot(t) ==
    /\ pc[t] = "snapshot"
    /\ local' = [local EXCEPT ![t].snap = Snapshot(rib)]
    /\ Goto(t, "mark")
    /\ UNCHANGED <<hubVars, after, arriving, jobs, net, spokeVars, bounds>>

(* Under mu: decide whether to install, and which streams to tell.         *)
Mark(t) ==
    LET rev  == local[t].snap.rev
        tell == {s \in LiveSlots : slot[s].conn # None /\ slot[s].sent # rev}
    IN
    /\ pc[t] = "mark"
    /\ publishedRev' = rev
    /\ slot' = [s \in Slots |-> IF s \in tell THEN [slot[s] EXCEPT !.sent = rev]
                                ELSE slot[s]]
    /\ local' = [local EXCEPT ![t].targets = {slot[s].conn : s \in tell}]
    /\ Goto(t, IF rev # publishedRev /\ HasSink THEN "routes" ELSE "header")
    /\ UNCHANGED <<rib, base, caps, disabled, slotOf, closed, assigned, routed,
                   sink, after, arriving, jobs, net, spokeVars, bounds>>

ReadRoutes(t) ==
    /\ pc[t] = "routes"
    /\ local' = [local EXCEPT ![t].routes = Routes(rib)]
    /\ Goto(t, "install")
    /\ UNCHANGED <<hubVars, after, arriving, jobs, net, spokeVars, bounds>>

SetPrefixRoutes(t) ==
    /\ pc[t] = "install"
    /\ sink' = local[t].routes
    /\ local' = [local EXCEPT ![t].routes = None]
    /\ Goto(t, "header")
    /\ UNCHANGED <<rib, base, caps, disabled, slotOf, slot, publishedRev, closed,
                   assigned, routed, after, arriving, jobs, net, spokeVars, bounds>>

(* writeMessage: the length, then the body, as two writes.                 *)
Send(c, part) == net' = [net EXCEPT ![c].toSpoke = Append(@, part)]

WriteHeader(t) ==
    \E c \in local[t].targets :
        /\ pc[t] = "header"
        /\ IF Closed(c)
           THEN /\ local' = [local EXCEPT ![t].targets = @ \ {c}]
                /\ UNCHANGED <<net, pc>>
           ELSE /\ Send(c, [head |-> local[t].snap.rev])
                /\ local' = [local EXCEPT ![t].conn = c]
                /\ Goto(t, "body")
        /\ UNCHANGED <<hubVars, after, arriving, jobs, spokeVars, bounds>>

WriteBody(t) ==
    LET c == local[t].conn IN
    /\ pc[t] = "body"
    /\ IF Closed(c) THEN UNCHANGED net ELSE Send(c, [body |-> local[t].snap])
    /\ local' = [local EXCEPT ![t].targets = @ \ {c}, ![t].conn = None]
    /\ Goto(t, "header")
    /\ UNCHANGED <<hubVars, after, arriving, jobs, spokeVars, bounds>>

(* A write past its deadline closes that stream alone.                     *)
WriteTimeout(t) ==
    \E c \in local[t].targets :
        /\ pc[t] \in {"header", "body"}
        /\ pc[t] = "body" => c = local[t].conn
        /\ faults < MaxFaults
        /\ faults' = faults + 1
        /\ CloseConns({c})
        /\ local' = [local EXCEPT ![t].targets = @ \ {c}, ![t].conn = None]
        /\ Goto(t, "header")
        /\ UNCHANGED <<hubVars, after, arriving, jobs, spokeVars, sweeps>>

Published(t) ==
    /\ pc[t] = "header"
    /\ local[t].targets = {}
    /\ local' = [local EXCEPT ![t].snap = None]
    /\ Goto(t, after[t])
    /\ after' = [after EXCEPT ![t] = "idle"]
    /\ UNCHANGED <<hubVars, arriving, jobs, net, spokeVars, bounds>>

Publish(t) ==
    \/ TakeSnapshot(t) \/ Mark(t) \/ ReadRoutes(t) \/ SetPrefixRoutes(t)
    \/ WriteHeader(t) \/ WriteBody(t) \/ WriteTimeout(t) \/ Published(t)

-----------------------------------------------------------------------------
(***************************************************************************)
(* Slots and streams: Register, deliver, serve and runStream.              *)
(***************************************************************************)
(* A new controlPeer; which of the unused ones it is makes no difference.  *)
Create(o, s) ==
    /\ pc[s] = "unused"
    /\ s = CHOOSE q \in Slots : pc[q] = "unused"
    /\ slot' = [slot EXCEPT ![s].peer = o]
    /\ slotOf' = [slotOf EXCEPT ![o] = s]
    /\ Goto(s, "select")

(***************************************************************************)
(* A tun stream of o was accepted.  It may have been queued before the     *)
(* host stopped routing o.                                                 *)
(***************************************************************************)
Register(o) ==
    /\ closed = "open"
    /\ slotOf[o] = None
    /\ \E s \in Slots : Create(o, s)
    /\ UNCHANGED <<rib, base, caps, disabled, publishedRev, closed, assigned, routed,
                   sink, after, local, arriving, jobs, net, spokeVars, bounds>>

(***************************************************************************)
(* The host's accept loop: look up the route under the host's lock, then   *)
(* read the control magic without it ...                                   *)
(***************************************************************************)
Dispatch(c) ==
    /\ arriving = None
    /\ net[c].open /\ ~net[c].handed
    /\ IF net[c].peer \in routed
       THEN /\ net' = [net EXCEPT ![c].handed = TRUE]
            /\ arriving' = [conn |-> c, slot |-> None]
       ELSE CloseConns({c}) /\ UNCHANGED arriving
    /\ UNCHANGED <<hubVars, pc, after, local, jobs, spokeVars, bounds>>

(* ... find or make the spoke's slot (deliver) ...                         *)
Deliver ==
    /\ arriving # None /\ arriving.slot = None
    /\ LET o == net[arriving.conn].peer IN
       IF closed # "open"
       THEN /\ CloseConns({arriving.conn})
            /\ arriving' = None
            /\ UNCHANGED <<slot, slotOf, pc>>
       ELSE /\ \/ slotOf[o] # None /\ UNCHANGED <<slot, slotOf, pc>>
               \/ slotOf[o] = None /\ \E s \in Slots : Create(o, s)
            /\ arriving' = [arriving EXCEPT !.slot = slotOf'[o]]
            /\ UNCHANGED net
    /\ UNCHANGED <<rib, base, caps, disabled, publishedRev, closed, assigned, routed,
                   sink, after, local, jobs, spokeVars, bounds>>

(* Mutant: a stream the queue has no room for is dropped.                  *)
EnqueueOrDrop ==
    /\ arriving # None /\ arriving.slot # None
    /\ arriving' = None
    /\ slot' = IF slot[arriving.slot].inbound = None
               THEN [slot EXCEPT ![arriving.slot].inbound = arriving.conn] ELSE slot
    /\ UNCHANGED <<rib, base, caps, disabled, slotOf, publishedRev, closed, assigned,
                   routed, sink, pc, after, local, jobs, net, spokeVars, bounds>>

(* ... then, without waiting, queue the stream or close it.                *)
Enqueue ==
    /\ arriving # None /\ arriving.slot # None
    /\ arriving' = None
    /\ \/ /\ slot[arriving.slot].inbound = None
          /\ slot' = [slot EXCEPT ![arriving.slot].inbound = arriving.conn]
          /\ UNCHANGED net
       \/ /\ slot[arriving.slot].inbound # None \/ closed = "closed"
          /\ CloseConns({arriving.conn})
          /\ UNCHANGED slot
    /\ UNCHANGED <<rib, base, caps, disabled, slotOf, publishedRev, closed, assigned,
                   routed, sink, pc, after, local, jobs, spokeVars, bounds>>

TakeStream(s) ==
    /\ pc[s] = "select"
    /\ slot[s].inbound # None
    /\ local' = [local EXCEPT ![s].stream = slot[s].inbound]
    /\ slot' = [slot EXCEPT ![s].inbound = None]
    /\ Goto(s, "open")
    /\ UNCHANGED <<rib, base, caps, disabled, slotOf, publishedRev, closed, assigned,
                   routed, sink, after, arriving, jobs, net, spokeVars, bounds>>

(* Mutant: serve notices the drop only with a stream to close.             *)
DrainQueued(s) ==
    /\ pc[s] = "select"
    /\ slot[s].stopped /\ slot[s].inbound # None
    /\ CloseConns({slot[s].inbound})
    /\ slot' = [slot EXCEPT ![s].inbound = None]
    /\ Goto(s, "done")
    /\ UNCHANGED <<rib, base, caps, disabled, slotOf, publishedRev, closed, assigned,
                   routed, sink, after, local, arriving, jobs, spokeVars, bounds>>

(* The slot was dropped: what is still queued for it is closed.            *)
Drain(s) ==
    /\ pc[s] = "select"
    /\ slot[s].stopped
    /\ CloseConns({slot[s].inbound})
    /\ slot' = [slot EXCEPT ![s].inbound = None]
    /\ Goto(s, "done")
    /\ UNCHANGED <<rib, base, caps, disabled, slotOf, publishedRev, closed, assigned,
                   routed, sink, after, local, arriving, jobs, spokeVars, bounds>>

(* The hub closed: serve returns, and leaves its queue.                    *)
Stop(s) ==
    /\ pc[s] = "select"
    /\ closed = "closed"
    /\ Goto(s, "done")
    /\ UNCHANGED <<hubVars, after, local, arriving, jobs, net, spokeVars, bounds>>

(* Mutant: the session carries on where the last one left off.             *)
OpenStreamResumed(s) ==
    /\ pc[s] = "open"
    /\ slot' = [slot EXCEPT ![s].conn = local[s].stream, ![s].sent = 0,
                            ![s].first = (slot[s].conn = None)]
    /\ Goto(s, "greet")
    /\ UNCHANGED <<rib, base, caps, disabled, slotOf, publishedRev, closed, assigned,
                   routed, sink, after, local, arriving, jobs, net, spokeVars, bounds>>

(* A fresh stream has seen nothing.                                        *)
OpenStream(s) ==
    /\ pc[s] = "open"
    /\ slot' = [slot EXCEPT ![s].conn = local[s].stream, ![s].sent = 0, ![s].first = TRUE]
    /\ Goto(s, "greet")
    /\ UNCHANGED <<rib, base, caps, disabled, slotOf, publishedRev, closed, assigned,
                   routed, sink, after, local, arriving, jobs, net, spokeVars, bounds>>

Greet(s) ==
    /\ pc[s] = "greet"
    /\ IF \E p \in Prefixes : Taken(rib, p)
       THEN PublishThen(s, "read")
       ELSE Goto(s, "read") /\ UNCHANGED after
    /\ UNCHANGED <<hubVars, local, arriving, jobs, net, spokeVars, bounds>>

ReadClaim(s) ==
    LET c == local[s].stream IN
    /\ pc[s] = "read"
    /\ net[c].toHub # <<>>
    /\ local' = [local EXCEPT ![s].share = Head(net[c].toHub)]
    /\ net' = [net EXCEPT ![c].toHub = Tail(@)]
    /\ Goto(s, IF slot[s].first THEN "capability" ELSE "apply")
    /\ UNCHANGED <<hubVars, after, arriving, jobs, spokeVars, bounds>>

EndStream(s) ==
    /\ pc[s] = "read"
    /\ Closed(local[s].stream)
    /\ local' = [local EXCEPT ![s] = Idle]
    /\ Goto(s, "select")
    /\ UNCHANGED <<hubVars, after, arriving, jobs, net, spokeVars, bounds>>

(* Mutant: the capability is kept under the stream instead of the spoke.   *)
RecordStreamCapability(s) ==
    /\ pc[s] = "capability"
    /\ caps' = caps \cup {local[s].stream}
    /\ local' = [local EXCEPT ![s].members = Merged(base, caps', disabled)]
    /\ Goto(s, "members")
    /\ after' = [after EXCEPT ![s] = "replace"]
    /\ UNCHANGED <<rib, base, disabled, slotOf, slot, publishedRev, closed, assigned,
                   routed, sink, arriving, jobs, net, spokeVars, bounds>>

(* SetCapability, from a session's first claim.                            *)
RecordCapability(s) ==
    LET o    == slot[s].peer
        next == IF o \in Direct THEN caps \cup {o} ELSE caps \ {o}
    IN
    /\ pc[s] = "capability"
    /\ caps' = next
    /\ IF next = caps
       THEN Goto(s, "replace") /\ UNCHANGED <<after, local>>
       ELSE /\ local' = [local EXCEPT ![s].members = Merged(base, next, disabled)]
            /\ Goto(s, "members")
            /\ after' = [after EXCEPT ![s] = "replace"]
    /\ UNCHANGED <<rib, base, disabled, slotOf, slot, publishedRev, closed, assigned,
                   routed, sink, arriving, jobs, net, spokeVars, bounds>>

(* The first claim of a session replaces, the later ones add.              *)
ApplyClaim(s) ==
    /\ pc[s] \in {"replace", "apply"}
    /\ rib' = ApplyClaims(rib, slot[s].peer, local[s].share, {}, pc[s] = "replace")
    /\ slot' = [slot EXCEPT ![s].first = FALSE]
    /\ local' = [local EXCEPT ![s].share = {}]
    /\ PublishThen(s, "read")
    /\ UNCHANGED <<base, caps, disabled, slotOf, publishedRev, closed, assigned, routed,
                   sink, arriving, jobs, net, spokeVars, bounds>>

Serve(s) ==
    \/ TakeStream(s) \/ Drain(s) \/ Stop(s) \/ OpenStream(s) \/ Greet(s)
    \/ ReadClaim(s) \/ EndStream(s) \/ RecordCapability(s) \/ ApplyClaim(s)

-----------------------------------------------------------------------------
(***************************************************************************)
(* What the hub's operator calls.                                          *)
(***************************************************************************)
(* rib.SetMembers of the membership a caller merged under mu, then publish. *)
InstallMembers(t) ==
    /\ pc[t] = "members"
    /\ rib' = WithMembers(rib, local[t].members)
    /\ local' = [local EXCEPT ![t].members = None]
    /\ Goto(t, "snapshot")
    /\ UNCHANGED <<base, caps, disabled, slotOf, slot, publishedRev, closed, assigned,
                   routed, sink, after, arriving, jobs, net, spokeVars, bounds>>

Begin(t, j) ==
    /\ pc[t] = "idle"
    /\ jobs' = Tail(jobs)
    /\ local' = [local EXCEPT ![t].job = j]

SetLanAllow(t, j) ==
    /\ "allow" \in DOMAIN j
    /\ Begin(t, j)
    /\ rib' = WithAllow(rib, j.allow)
    /\ PublishThen(t, "end")
    /\ UNCHANGED <<base, caps, disabled, slotOf, slot, publishedRev, closed, assigned,
                   routed, sink, arriving, net, spokeVars, bounds>>

SetPeerIPs(t, j) ==
    /\ "seats" \in DOMAIN j
    /\ Begin(t, j)
    /\ assigned' = j.seats
    /\ Goto(t, "load")
    /\ UNCHANGED <<rib, base, caps, disabled, slotOf, slot, publishedRev, closed, routed,
                   sink, after, arriving, net, spokeVars, bounds>>

(* SetPeers: the host's routes are reconciled first.                       *)
SetPeers(t, j) ==
    /\ "peers" \in DOMAIN j
    /\ Begin(t, j)
    /\ routed' = j.peers \ j.off
    /\ Goto(t, "meta")
    /\ UNCHANGED <<rib, base, caps, disabled, slotOf, slot, publishedRev, closed, assigned,
                   sink, after, arriving, net, spokeVars, bounds>>

SetPeerMeta(t) ==
    /\ pc[t] = "meta"
    /\ disabled' = local[t].job.off
    /\ IF disabled' = disabled
       THEN Goto(t, "load") /\ UNCHANGED <<after, local>>
       ELSE /\ local' = [local EXCEPT ![t].members = Merged(base, caps, disabled')]
            /\ Goto(t, "members")
            /\ after' = [after EXCEPT ![t] = "load"]
    /\ UNCHANGED <<rib, base, caps, slotOf, slot, publishedRev, closed, assigned, routed,
                   sink, arriving, jobs, net, spokeVars, bounds>>

(* authz.Members(), read before SetMembers takes mu ...                    *)
LoadMembers(t) ==
    /\ pc[t] = "load"
    /\ local' = [local EXCEPT ![t].members = assigned]
    /\ Goto(t, "base")
    /\ UNCHANGED <<hubVars, after, arriving, jobs, net, spokeVars, bounds>>

(* Mutant: the assignment is merged without the capabilities on record.    *)
SetBareMembers(t) ==
    /\ pc[t] = "base"
    /\ base' = local[t].members
    /\ local' = [local EXCEPT ![t].members = Merged(base', {}, disabled)]
    /\ Goto(t, "members")
    /\ after' = [after EXCEPT ![t] = IF "peers" \in DOMAIN local[t].job
                                     THEN "unregister" ELSE "end"]
    /\ UNCHANGED <<rib, caps, disabled, slotOf, slot, publishedRev, closed, assigned, routed,
                   sink, arriving, jobs, net, spokeVars, bounds>>

(* ... and merged under it.                                                *)
SetBaseMembers(t) ==
    /\ pc[t] = "base"
    /\ base' = local[t].members
    /\ local' = [local EXCEPT ![t].members = Merged(base', caps, disabled)]
    /\ Goto(t, "members")
    /\ after' = [after EXCEPT ![t] = IF "peers" \in DOMAIN local[t].job
                                     THEN "unregister" ELSE "end"]
    /\ UNCHANGED <<rib, caps, disabled, slotOf, slot, publishedRev, closed, assigned, routed,
                   sink, arriving, jobs, net, spokeVars, bounds>>

(* SetPeers unregisters the peers of the new list that are switched off.   *)
Unregister(t) ==
    /\ pc[t] = "unregister"
    /\ \E o \in local[t].job.peers \cap local[t].job.off :
        /\ local' = [local EXCEPT ![t].job.off = @ \ {o}]
        /\ IF slotOf[o] = None
           THEN UNCHANGED <<slotOf, slot, net>>
           ELSE /\ slotOf' = [slotOf EXCEPT ![o] = None]
                /\ slot' = [slot EXCEPT ![slotOf[o]].stopped = TRUE]
                /\ CloseConns({slot[slotOf[o]].conn})
    /\ UNCHANGED <<rib, base, caps, disabled, publishedRev, closed, assigned, routed, sink,
                   pc, after, arriving, jobs, spokeVars, bounds>>

Unregistered(t) ==
    /\ pc[t] = "unregister"
    /\ local[t].job.peers \cap local[t].job.off = {}
    /\ Goto(t, "end")
    /\ UNCHANGED <<hubVars, after, local, arriving, jobs, net, spokeVars, bounds>>

(* Close: mu is held to mark the hub closed and collect the streams ...    *)
Close(t, j) ==
    /\ "close" \in DOMAIN j
    /\ pc[t] = "idle"
    /\ jobs' = Tail(jobs)
    /\ local' = [local EXCEPT ![t].job = j,
                              ![t].targets = {slot[s].conn : s \in LiveSlots} \ {None}]
    /\ closed' = "closing"
    /\ Goto(t, "close")
    /\ UNCHANGED <<rib, base, caps, disabled, slotOf, slot, publishedRev, assigned, routed,
                   sink, after, arriving, net, spokeVars, bounds>>

(* ... which are closed after the slots are stopped.                       *)
CloseStreams(t) ==
    /\ pc[t] = "close"
    /\ closed' = "closed"
    /\ slot' = [s \in Slots |-> [slot[s] EXCEPT !.stopped = @ \/ s \in LiveSlots]]
    /\ CloseConns(local[t].targets)
    /\ local' = [local EXCEPT ![t].targets = {}]
    /\ Goto(t, "end")
    /\ UNCHANGED <<rib, base, caps, disabled, slotOf, publishedRev, assigned, routed, sink,
                   after, arriving, jobs, spokeVars, bounds>>

End(t) ==
    /\ pc[t] = "end"
    /\ local' = [local EXCEPT ![t] = Idle]
    /\ Goto(t, "idle")
    /\ UNCHANGED <<hubVars, after, arriving, jobs, net, spokeVars, bounds>>

NextJob == IF jobs = <<>> THEN {} ELSE {Head(jobs)}

Call(t) ==
    \/ \E j \in NextJob : SetLanAllow(t, j) \/ SetPeerIPs(t, j) \/ SetPeers(t, j)
                       \/ Close(t, j)
    \/ SetPeerMeta(t) \/ LoadMembers(t) \/ SetBaseMembers(t)
    \/ Unregister(t) \/ Unregistered(t) \/ CloseStreams(t) \/ End(t)

(* The sweep publishes when it withdrew something.                         *)
Sweep ==
    /\ pc[Sweeper] = "idle"
    /\ closed # "closed"
    /\ sweeps < MaxSweeps
    /\ sweeps' = sweeps + 1
    /\ \E quiet \in (SUBSET {p \in Prefixes : Dynamic(rib, p)}) \ {{}} :
          rib' = Without(rib, quiet)
    /\ PublishThen(Sweeper, "idle")
    /\ UNCHANGED <<base, caps, disabled, slotOf, slot, publishedRev, closed, assigned, routed,
                   sink, local, arriving, jobs, net, spokeVars, faults>>

-----------------------------------------------------------------------------
(***************************************************************************)
(* The spokes: controlSession, keepClaimFresh, deliverNetview.             *)
(***************************************************************************)
Held(c) ==
    \/ arriving # None /\ arriving.conn = c
    \/ \E o \in Peers : session[o] = c
    \/ \E s \in Slots : slot[s].inbound = c \/ (s \in LiveSlots /\ slot[s].conn = c)
    \/ \E t \in Threads : c \in local[t].targets \cup {local[t].conn, local[t].stream}

(* A session announces itself with its whole claim.                        *)
Dial(o, share) ==
    LET free == {c \in Conns : Closed(c) /\ ~Held(c)}
        c    == CHOOSE d \in free : TRUE
    IN
    /\ session[o] = None
    /\ free # {}
    /\ session' = [session EXCEPT ![o] = c]
    /\ net' = [net EXCEPT ![c] = [NoConn EXCEPT !.peer = o, !.open = TRUE,
                                                !.share = share, !.toHub = <<share>>]]
    /\ UNCHANGED <<hubVars, pc, after, local, arriving, jobs, view, bounds>>

Refresh(o) ==
    LET c == session[o] IN
    /\ c # None /\ net[c].open
    /\ net[c].toHub = <<>>
    /\ net[c].refreshes < MaxRefresh
    /\ net' = [net EXCEPT ![c].toHub = <<net[c].share>>, ![c].refreshes = @ + 1]
    /\ UNCHANGED <<hubVars, pc, after, local, arriving, jobs, spokeVars, bounds>>

(* Mutant: whatever arrives is installed.                                  *)
NewerOrNot(n, v) == TRUE

Newer(n, v) == v = None \/ n.rev > v.rev

(***************************************************************************)
(* readMessage takes a length and that many bytes.  Another header where   *)
(* the body should be does not decode, and the session ends.               *)
(***************************************************************************)
Receive(o) ==
    LET c == session[o] IN
    /\ c # None
    /\ Len(net[c].toSpoke) >= 2
    /\ LET head == net[c].toSpoke[1]
           rest == net[c].toSpoke[2]
       IN  IF "body" \in DOMAIN rest /\ rest.body.rev = head.head
           THEN /\ net' = [net EXCEPT ![c].toSpoke = SubSeq(@, 3, Len(@))]
                /\ view' = IF Newer(rest.body, view[o])
                           THEN [view EXCEPT ![o] = rest.body] ELSE view
           ELSE CloseConns({c}) /\ UNCHANGED view
    /\ UNCHANGED <<hubVars, pc, after, local, arriving, jobs, session, bounds>>

(* The read loop returns; the next dial is a fresh session.                *)
EndSession(o) ==
    /\ session[o] # None
    /\ Closed(session[o])
    /\ session' = [session EXCEPT ![o] = None]
    /\ UNCHANGED <<hubVars, pc, after, local, arriving, jobs, net, view, bounds>>

LoseStream(c) ==
    /\ net[c].open
    /\ faults < MaxFaults
    /\ faults' = faults + 1
    /\ CloseConns({c})
    /\ UNCHANGED <<hubVars, pc, after, local, arriving, jobs, spokeVars, sweeps>>

SpokeStep(o) ==
    \/ \E share \in Shares : Dial(o, share)
    \/ Receive(o) \/ EndSession(o)

Host ==
    \/ \E c \in Conns : Dispatch(c)
    \/ Deliver \/ Enqueue

ThreadStep(t) ==
    \/ Publish(t) \/ InstallMembers(t)
    \/ t \in Slots /\ Serve(t)
    \/ t \in Callers /\ Call(t)

Next ==
    \/ \E t \in Threads : ThreadStep(t)
    \/ Host
    \/ Sweep
    \/ \E o \in Peers : Register(o) \/ SpokeStep(o) \/ Refresh(o)
    \/ \E c \in Conns : LoseStream(c)

(***************************************************************************)
(* The runtime schedules every goroutine, the host accepts, and a spoke    *)
(* redials.  Calls, sweeps, refreshes and faults need not happen.          *)
(***************************************************************************)
Fairness ==
    /\ \A t \in Threads : WF_vars((Publish(t) \/ InstallMembers(t)) /\ faults' = faults)
    /\ \A s \in Slots : WF_vars(Serve(s))
    /\ \A t \in Callers : WF_vars(pc[t] # "idle" /\ Call(t))
    /\ WF_vars(Host)
    /\ \A o \in Peers : WF_vars(SpokeStep(o))

Spec == Init /\ [][Next]_vars /\ Fairness

-----------------------------------------------------------------------------
Labels == {"unused", "idle", "select", "open", "greet", "read", "capability", "replace",
           "apply", "snapshot", "mark", "routes", "install", "header", "body", "members",
           "meta", "load", "base", "unregister", "close", "end", "done"}

Slot == [peer : Peers \cup {None}, inbound : Conns \cup {None},
         conn : Conns \cup {None}, sent : Nat, stopped : BOOLEAN, first : BOOLEAN]

Local == [snap    : Netview \cup {None},
          targets : SUBSET Conns,
          routes  : Table \cup {None},
          members : (SUBSET Seat) \cup (SUBSET Member) \cup {None},
          conn    : Conns \cup {None},
          stream  : Conns \cup {None},
          share   : SUBSET Prefixes,
          job     : Job \cup {None}]

Stream == [peer : Peers \cup {None}, open : BOOLEAN, handed : BOOLEAN,
           share : SUBSET Prefixes, toHub : Seq(SUBSET Prefixes),
           toSpoke : Seq(Frame), refreshes : Nat]

TypeOK ==
    /\ rib \in RibState
    /\ base \subseteq Seat /\ assigned \subseteq Seat
    /\ caps \subseteq Peers /\ disabled \subseteq Peers /\ routed \subseteq Peers
    /\ slotOf \in [Peers -> Slots \cup {None}]
    /\ slot \in [Slots -> Slot]
    /\ publishedRev \in Nat
    /\ closed \in {"open", "closing", "closed"}
    /\ sink \in Table
    /\ pc \in [Threads -> Labels] /\ after \in [Threads -> Labels]
    /\ local \in [Threads -> Local]
    /\ arriving \in {None} \cup [conn : Conns, slot : Slots \cup {None}]
    /\ jobs \in Seq(Job)
    /\ net \in [Conns -> Stream]
    /\ session \in [Peers -> Conns \cup {None}]
    /\ view \in [Peers -> Netview \cup {None}]
    /\ faults \in Nat /\ sweeps \in Nat

(***************************************************************************)
(* A spoke that has installed the current rev holds the current table:     *)
(* the rev read under rib.mu is the rev of the content read with it, and   *)
(* no later operation changes the content under the same rev.              *)
(***************************************************************************)
CurrentRevIsCurrentTable ==
    \A o \in Peers : view[o] # None /\ view[o].rev = rib.rev => view[o] = Snapshot(rib)

(***************************************************************************)
(* The newest session speaks for its spoke: once a session's first claim   *)
(* is applied, the table holds nothing of that spoke the session does not  *)
(* share, although the previous session's last messages were read by the   *)
(* same slot (runStream, applyClaimSet).                                   *)
(***************************************************************************)
NewestSessionSpeaks ==
    \A s \in LiveSlots :
        LET c == slot[s].conn IN
        c # None /\ ~slot[s].first /\ local[s].stream = c /\ net[c].open
            => \A p \in Prefixes : HeldBy(rib, slot[s].peer, p) => p \in net[c].share

(***************************************************************************)
(* No stream is forgotten: one the host handed over and nobody closed is   *)
(* being handed over, queued for a slot that still serves, or served.      *)
(***************************************************************************)
NoStreamForgotten ==
    \A c \in Conns : net[c].open /\ net[c].handed =>
        \/ arriving # None /\ arriving.conn = c
        \/ \E s \in Slots : pc[s] # "done" /\ c \in {slot[s].inbound, local[s].stream}

(***************************************************************************)
(* A dropped slot's goroutine does not stay: it ends, or it reads a stream *)
(* that is open still (serve: "without it the reader parks forever on a    *)
(* channel nothing will send to again").                                   *)
(***************************************************************************)
DroppedSlotEnds ==
    \A s \in Slots : slot[s].stopped
        ~> (pc[s] = "done" \/ (local[s].stream # None /\ net[local[s].stream].open))

Quiescent ==
    /\ arriving = None
    /\ \A t \in Threads : pc[t] \in {"unused", "idle", "select", "read", "done"}

(***************************************************************************)
(* With no operation running, the membership the table reasons about is    *)
(* the assignment with what is known of each spoke: "a claim that arrives  *)
(* before its assignment takes effect is not lost",                        *)
(* src/tunnel/ctrlhub.go:299-300.  SetMembers, SetCapability and           *)
(* SetPeerMeta each merge under controlHub.mu and install after it, so two *)
(* of them at once can install in the order they did not merge in.         *)
(***************************************************************************)
SettledMembersCurrent ==
    Quiescent => rib.members = Merged(assigned, caps, disabled)

Recorded == Merged(base, caps, disabled)

Installed ==
    \/ rib.members = Recorded
    \/ \E t \in Threads : pc[t] = "members" /\ local[t].members = Recorded

Overtakes(t) == InstallMembers(t) /\ local[t].members # Recorded

(***************************************************************************)
(* What the code does promise: whatever SetMembers, SetCapability or       *)
(* SetPeerMeta recorded under controlHub.mu is in the table or on its way  *)
(* there, and nothing but an older merge, installed after a newer one, can *)
(* end that: no claim, sweep, policy edit or change of one list drops what *)
(* is known of the others.                                                 *)
(***************************************************************************)
MembersReachTable == [][Installed => Installed' \/ \E t \in Threads : Overtakes(t)]_vars

(***************************************************************************)
(* "the hub's own table kept equal to what the spokes were told",          *)
(* src/tunnel/ctrlhub.go:59-60: with no operation running, the handler     *)
(* routes what the RIB says.                                               *)
(***************************************************************************)
SettledSinkCurrent == Quiescent /\ publishedRev = rib.rev => sink = Routes(rib)

(***************************************************************************)
(* "A spoke removed here loses its control channel too", SetPeers,         *)
(* src/tunnel/tun.go:805: with no operation running, no spoke outside the  *)
(* allowlist holds an open stream the hub reads.                           *)
(***************************************************************************)
RemovedSpokeLosesControl ==
    Quiescent => \A s \in Slots :
        local[s].stream # None /\ net[local[s].stream].open => slot[s].peer \in routed

(***************************************************************************)
(* What the spokes are promised, without how: see NetviewFeed.             *)
(***************************************************************************)
Feed == INSTANCE NetviewFeed WITH
    Spokes <- Peers,
    rev    <- rib.rev,
    seen   <- [o \in Peers |-> IF view[o] = None THEN 0 ELSE view[o].rev]

ImplementsFeed == Feed!Spec
=============================================================================
