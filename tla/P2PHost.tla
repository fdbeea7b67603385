------------------------------ MODULE P2PHost ------------------------------
(***************************************************************************)
(* The process-wide p2p host (p2pHostManager, src/tunnel/p2p_host.go) and  *)
(* the objects that hold references on it: p2p tunnels and tun hubs, whose *)
(* allowlists are explicit routes, and the direct runtimes of tun          *)
(* entrypoints, whose mesh routes yield to them.  Every object lives once; *)
(* a restart is another object.                                            *)
(*                                                                         *)
(* An action is one critical section of the manager's mutex.  Time is      *)
(* abstracted: an armed grace timer may fire at any moment, and its        *)
(* callback then waits for the mutex like everybody else, where Stop no    *)
(* longer reaches it.                                                      *)
(***************************************************************************)
EXTENDS Integers, FiniteSets

CONSTANTS
    Tunnels,        \* p2p tunnels and tun hubs
    Meshes,         \* direct runtimes
    Keys,           \* peer keys
    Lists,          \* allowlists and memberships an object may be given
    Misconfigured,  \* hubs whose lan_allow or lan_routes do not parse
    Sigs,           \* host settings, as p2pHostSig tells them apart
    Saved,          \* the settings the app starts with
    None,
    MaxChanges,     \* bound: settings saved and identities reset
    MaxFailures,    \* bound: hosts that fail to build and starts that fail
    MaxUpdates      \* bound: allowlists saved and netviews applied

Holders == Tunnels \cup Meshes

ASSUME HolderAssumption ==
    /\ IsFiniteSet(Tunnels) /\ IsFiniteSet(Meshes)
    /\ Tunnels \cap Meshes = {}
    /\ None \notin Holders /\ None \notin Lists
    /\ Lists \subseteq SUBSET Keys
    /\ Misconfigured \subseteq Tunnels
    /\ Saved \in Sigs

ASSUME BoundAssumption == MaxChanges \in Nat /\ MaxFailures \in Nat /\ MaxUpdates \in Nat

HostState == [sig : Sigs, key : Nat]

ASSUME HostAssumption == None \notin HostState

VARIABLES
    host,       \* the running host: what it was built from, or None
    refs,
    timer,      \* the teardown field: "none", or the timer it holds "armed" or "fired"
    loose,      \* armed timers the field no longer holds
    callbacks,  \* callbacks waiting for the mutex
    routes,     \* the tunnel each key is routed to
    meshRoutes, \* the direct runtime each key is routed to
    settings,   \* the saved settings' signature
    key,        \* the identity on file
    pc,         \* where each holder is in its life
    open,       \* holders whose listener accepts
    save,       \* the allowlist a SetPeers is about to apply
    refresh,    \* the memberships a direct runtime is about to apply
    wanted,     \* the membership it applied last
    allowed,    \* the members it believes it has claimed
    owed,       \* direct runtimes to be told of a preemption
    changes, failures, updates      \* bounds spent

timers    == <<timer, loose, callbacks>>
table     == <<routes, meshRoutes>>
direct    == <<refresh, wanted, allowed, owed>>
bounds    == <<changes, failures, updates>>
vars      == <<host, refs, timers, table, settings, key, pc, open, save, direct, bounds>>

NoRoutes == [k \in Keys |-> None]

Init ==
    /\ host = None /\ refs = 0
    /\ timer = "none" /\ loose = 0 /\ callbacks = 0
    /\ routes = NoRoutes /\ meshRoutes = NoRoutes
    /\ settings = Saved /\ key = 0
    /\ pc = [h \in Holders |-> "new"]
    /\ open = Holders
    /\ save = [t \in Tunnels |-> None]
    /\ refresh = [m \in Meshes |-> {}]
    /\ wanted = [m \in Meshes |-> {}]
    /\ allowed = [m \in Meshes |-> {}]
    /\ owed = {}
    /\ changes = 0 /\ failures = 0 /\ updates = 0

Goto(h, l) == pc' = [pc EXCEPT ![h] = l]

ClaimedBy(m) == {k \in Keys : meshRoutes[k] = m}
Routed       == {routes[k] : k \in Keys} \cup {meshRoutes[k] : k \in Keys}

(* teardownLocked, without the host and the timer.                         *)
DropRoutes ==
    /\ routes' = NoRoutes /\ meshRoutes' = NoRoutes
    /\ open' = open \ Routed

KeepRoutes == UNCHANGED <<routes, meshRoutes, open>>

-----------------------------------------------------------------------------
(***************************************************************************)
(* acquire: whatever timer the field holds is stopped, a host built from   *)
(* other settings goes with its routes, and a missing host is built.       *)
(***************************************************************************)
Stale == host # None /\ host.sig # settings

Acquire(h) ==
    /\ pc[h] = "new"
    /\ timer' = "none"
    /\ IF Stale THEN DropRoutes ELSE KeepRoutes
    /\ \/ /\ host' = IF host = None \/ Stale THEN [sig |-> settings, key |-> key] ELSE host
          /\ refs' = refs + 1
          /\ Goto(h, "acquired")
          /\ UNCHANGED failures
       \/ /\ host = None \/ Stale
          /\ failures < MaxFailures
          /\ failures' = failures + 1
          /\ host' = None
          /\ Goto(h, "failed")
          /\ UNCHANGED refs
    /\ UNCHANGED <<loose, callbacks, settings, key, save, direct, changes, updates>>

(* Mutant: the count is compared before the reference is given back.       *)
ReleaseUnarmed(h) ==
    /\ pc[h] = "releasing"
    /\ refs' = IF refs > 0 THEN refs - 1 ELSE refs
    /\ timer' = IF refs = 0 /\ host # None /\ timer = "none" THEN "armed" ELSE timer
    /\ Goto(h, "closed")
    /\ UNCHANGED <<host, loose, callbacks, table, settings, key, open, save, direct, bounds>>

(* release: the last reference arms the grace timer, once.                 *)
Release(h) ==
    /\ pc[h] = "releasing"
    /\ refs' = IF refs > 0 THEN refs - 1 ELSE refs
    /\ timer' = IF refs' = 0 /\ host # None /\ timer = "none" THEN "armed" ELSE timer
    /\ Goto(h, "closed")
    /\ UNCHANGED <<host, loose, callbacks, table, settings, key, open, save, direct, bounds>>

TimerFires ==
    /\ \/ timer = "armed" /\ timer' = "fired" /\ UNCHANGED loose
       \/ loose > 0 /\ loose' = loose - 1 /\ UNCHANGED timer
    /\ callbacks' = callbacks + 1
    /\ UNCHANGED <<host, refs, table, settings, key, pc, open, save, direct, bounds>>

(* Mutant: the callback trusts that nothing was acquired since.            *)
CallbackUnchecked ==
    /\ callbacks > 0
    /\ callbacks' = callbacks - 1
    /\ timer' = "none"
    /\ loose' = IF timer = "armed" THEN loose + 1 ELSE loose
    /\ host' = None /\ DropRoutes
    /\ UNCHANGED <<refs, settings, key, pc, save, direct, bounds>>

(* The callback forgets the field's timer, its own or a later one.         *)
Callback ==
    /\ callbacks > 0
    /\ callbacks' = callbacks - 1
    /\ timer' = "none"
    /\ loose' = IF timer = "armed" THEN loose + 1 ELSE loose
    /\ IF refs = 0 /\ host # None
       THEN host' = None /\ DropRoutes
       ELSE UNCHANGED host /\ KeepRoutes
    /\ UNCHANGED <<refs, settings, key, pc, save, direct, bounds>>

(* The operator saves other settings; the next acquire notices.            *)
SaveSettings ==
    /\ changes < MaxChanges
    /\ changes' = changes + 1
    /\ settings' \in Sigs \ {settings}
    /\ UNCHANGED <<host, refs, timers, table, key, pc, open, save, direct, failures, updates>>

(* Mutant: the reset deletes the identity and makes no new one.            *)
DeleteIdentity ==
    /\ changes < MaxChanges
    /\ changes' = changes + 1
    /\ key' = None
    /\ host' = None
    /\ timer' = "none"
    /\ DropRoutes
    /\ UNCHANGED <<refs, loose, callbacks, settings, pc, save, direct, failures, updates>>

(* resetIdentity: the references stay.                                     *)
ResetIdentity ==
    /\ changes < MaxChanges
    /\ changes' = changes + 1
    /\ key' = key + 1
    /\ host' = None
    /\ timer' = "none"
    /\ DropRoutes
    /\ UNCHANGED <<refs, loose, callbacks, settings, pc, save, direct, failures, updates>>

-----------------------------------------------------------------------------
(***************************************************************************)
(* Explicit routes: reconcile claims all of ks for t or nothing, takes its *)
(* keys from the direct runtimes and owes them a callback.                 *)
(***************************************************************************)
Conflict(t, ks) == \E k \in ks : routes[k] \notin {None, t}

(* Mutants: the direct runtimes keep their keys; they are not told.        *)
ReconcileBeside(t, ks) ==
    /\ routes' = [k \in Keys |-> IF k \in ks THEN t
                                 ELSE IF routes[k] = t THEN None ELSE routes[k]]
    /\ UNCHANGED <<meshRoutes, owed>>

ReconcileQuietly(t, ks) ==
    /\ routes' = [k \in Keys |-> IF k \in ks THEN t
                                 ELSE IF routes[k] = t THEN None ELSE routes[k]]
    /\ meshRoutes' = [k \in Keys |-> IF k \in ks THEN None ELSE meshRoutes[k]]
    /\ UNCHANGED owed

Reconcile(t, ks) ==
    /\ routes' = [k \in Keys |-> IF k \in ks THEN t
                                 ELSE IF routes[k] = t THEN None ELSE routes[k]]
    /\ meshRoutes' = [k \in Keys |-> IF k \in ks THEN None ELSE meshRoutes[k]]
    /\ owed' = owed \cup ({meshRoutes[k] : k \in ks} \ {None})

(* Mutant: a conflict rolls back every key of the list.                    *)
RegisterRollback(t) ==
    /\ pc[t] = "acquired"
    /\ \E ks \in Lists :
          IF Conflict(t, ks)
          THEN /\ routes' = [k \in Keys |-> IF k \in ks THEN None ELSE routes[k]]
               /\ Goto(t, "releasing")
               /\ UNCHANGED <<meshRoutes, owed>>
          ELSE Reconcile(t, ks) /\ Goto(t, "registered")
    /\ UNCHANGED <<host, refs, timers, settings, key, open, save, refresh, wanted, allowed,
                   bounds>>

Register(t) ==
    /\ pc[t] = "acquired"
    /\ \E ks \in Lists :
          IF Conflict(t, ks)
          THEN Goto(t, "releasing") /\ UNCHANGED <<table, owed>>
          ELSE Reconcile(t, ks) /\ Goto(t, "registered")
    /\ UNCHANGED <<host, refs, timers, settings, key, open, save, refresh, wanted, allowed,
                   bounds>>

(* Mutant: a failed start returns without unwinding.                       *)
StartLeaking(t) ==
    /\ pc[t] = "registered"
    /\ \/ Goto(t, "running") /\ UNCHANGED failures
       \/ failures < MaxFailures /\ failures' = failures + 1 /\ Goto(t, "failed")
    /\ UNCHANGED <<host, refs, timers, table, settings, key, open, save, direct, changes,
                   updates>>

(***************************************************************************)
(* The rest of Run.  A handler or a share that fails unwinds; a hub's      *)
(* lan_allow or lan_routes that do not parse return at once.               *)
(***************************************************************************)
Start(t) ==
    /\ pc[t] = "registered"
    /\ \/ Goto(t, IF t \in Misconfigured THEN "failed" ELSE "running") /\ UNCHANGED failures
       \/ /\ failures < MaxFailures
          /\ failures' = failures + 1
          /\ Goto(t, "closing")
    /\ UNCHANGED <<host, refs, timers, table, settings, key, open, save, direct, changes,
                   updates>>

(* SetPeers: the tunnel is running when its listener is read ...           *)
BeginSave(t, ks) ==
    /\ pc[t] = "running"
    /\ save[t] = None
    /\ updates < MaxUpdates
    /\ updates' = updates + 1
    /\ save' = [save EXCEPT ![t] = ks]
    /\ UNCHANGED <<host, refs, timers, table, settings, key, pc, open, direct, changes,
                   failures>>

(* ... and whatever it is by now, its routes are reconciled.               *)
FinishSave(t) ==
    /\ save[t] # None
    /\ IF Conflict(t, save[t]) THEN UNCHANGED <<table, owed>> ELSE Reconcile(t, save[t])
    /\ save' = [save EXCEPT ![t] = None]
    /\ UNCHANGED <<host, refs, timers, settings, key, pc, open, refresh, wanted, allowed,
                   bounds>>

(* Close: the service closes its listener before the routes go.            *)
BeginClose(t) ==
    /\ pc[t] = "running"
    /\ open' = open \ {t}
    /\ Goto(t, "closing")
    /\ UNCHANGED <<host, refs, timers, table, settings, key, save, direct, bounds>>

Unregister(t) ==
    /\ pc[t] = "closing"
    /\ routes' = [k \in Keys |-> IF routes[k] = t THEN None ELSE routes[k]]
    /\ open' = open \ {t}
    /\ Goto(t, "releasing")
    /\ UNCHANGED <<host, refs, timers, meshRoutes, settings, key, save, direct, bounds>>

-----------------------------------------------------------------------------
(***************************************************************************)
(* Mesh routes.  A netview's membership is applied by Refresh under        *)
(* refreshMu, with the members read before it; so is the membership a      *)
(* preempted runtime applies again (refreshLast).                          *)
(***************************************************************************)
StartMesh(m) ==
    /\ pc[m] = "acquired"
    /\ \/ Goto(m, "running") /\ UNCHANGED failures
       \/ /\ failures < MaxFailures
          /\ failures' = failures + 1
          /\ Goto(m, "closing")
    /\ UNCHANGED <<host, refs, timers, table, settings, key, open, save, direct, changes,
                   updates>>

Netview(m, ks) ==
    /\ pc[m] = "running"
    /\ updates < MaxUpdates
    /\ updates' = updates + 1
    /\ refresh' = [refresh EXCEPT ![m] = @ \cup {ks}]
    /\ UNCHANGED <<host, refs, timers, table, settings, key, pc, open, save, wanted, allowed,
                   owed, changes, failures>>

Preempt(m) ==
    /\ m \in owed
    /\ owed' = owed \ {m}
    /\ refresh' = [refresh EXCEPT ![m] = @ \cup {wanted[m]}]
    /\ UNCHANGED <<host, refs, timers, table, settings, key, pc, open, save, wanted, allowed,
                   bounds>>

(* reconcileMesh: the wanted keys that nobody else holds.                  *)
Claimable(m, ks) == {k \in ks : routes[k] = None /\ meshRoutes[k] \in {None, m}}

Refresh(m) ==
    \E ks \in refresh[m] :
        /\ refresh' = [refresh EXCEPT ![m] = @ \ {ks}]
        /\ meshRoutes' = [k \in Keys |-> IF k \in Claimable(m, ks) THEN m
                                         ELSE IF meshRoutes[k] = m THEN None
                                         ELSE meshRoutes[k]]
        /\ allowed' = [allowed EXCEPT ![m] = Claimable(m, ks)]
        /\ wanted' = [wanted EXCEPT ![m] = ks]
        /\ UNCHANGED <<host, refs, timers, routes, settings, key, pc, open, save, owed,
                       bounds>>

BeginCloseMesh(m) ==
    /\ pc[m] = "running"
    /\ Goto(m, "closing")
    /\ UNCHANGED <<host, refs, timers, table, settings, key, open, save, direct, bounds>>

UnregisterMesh(m) ==
    /\ pc[m] = "closing"
    /\ meshRoutes' = [k \in Keys |-> IF meshRoutes[k] = m THEN None ELSE meshRoutes[k]]
    /\ open' = open \ {m}
    /\ Goto(m, "releasing")
    /\ UNCHANGED <<host, refs, timers, routes, settings, key, save, direct, bounds>>

-----------------------------------------------------------------------------
(* What an object does once it is started or closed.                       *)
Advance(h) ==
    \/ h \in Tunnels /\ (Register(h) \/ Start(h) \/ FinishSave(h) \/ Unregister(h))
    \/ h \in Meshes /\ (StartMesh(h) \/ Preempt(h) \/ Refresh(h) \/ UnregisterMesh(h))
    \/ Release(h)

Operate(h) ==
    \/ Acquire(h)
    \/ h \in Tunnels /\ (BeginClose(h) \/ \E ks \in Lists : BeginSave(h, ks))
    \/ h \in Meshes /\ (BeginCloseMesh(h) \/ \E ks \in Lists : Netview(h, ks))

Next ==
    \/ \E h \in Holders : Advance(h) \/ Operate(h)
    \/ TimerFires \/ Callback
    \/ SaveSettings \/ ResetIdentity

(* Goroutines run, and a timer fires; nobody has to operate anything.      *)
Fairness ==
    /\ \A h \in Holders : WF_vars(Advance(h))
    /\ WF_vars(TimerFires)
    /\ WF_vars(Callback)

Spec == Init /\ [][Next]_vars /\ Fairness

-----------------------------------------------------------------------------
Labels == {"new", "acquired", "registered", "running", "closing", "releasing", "closed",
           "failed"}

TypeOK ==
    /\ host \in HostState \cup {None}
    /\ refs \in Nat /\ loose \in Nat /\ callbacks \in Nat
    /\ timer \in {"none", "armed", "fired"}
    /\ routes \in [Keys -> Tunnels \cup {None}]
    /\ meshRoutes \in [Keys -> Meshes \cup {None}]
    /\ settings \in Sigs /\ key \in Nat
    /\ pc \in [Holders -> Labels]
    /\ open \subseteq Holders
    /\ save \in [Tunnels -> Lists \cup {None}]
    /\ refresh \in [Meshes -> SUBSET (SUBSET Keys)]
    /\ wanted \in [Meshes -> SUBSET Keys]
    /\ allowed \in [Meshes -> SUBSET Keys]
    /\ owed \subseteq Meshes

Holding == {h \in Holders : pc[h] \in {"acquired", "registered", "running", "closing",
                                       "releasing"}}

(***************************************************************************)
(* Every reference has one holder and every holder one reference, through  *)
(* failed starts, rollbacks and resets: "Every AcquireP2PHost must be      *)
(* matched by exactly one ReleaseP2PHost".                                 *)
(***************************************************************************)
RefsAreHeld == refs = Cardinality(Holding)

(***************************************************************************)
(* A key has one consumer: an explicit tunnel's key is never a mesh        *)
(* route's as well, whichever of reconcile and reconcileMesh came last.    *)
(***************************************************************************)
ExplicitWins == \A k \in Keys : routes[k] = None \/ meshRoutes[k] = None

(***************************************************************************)
(* A direct runtime never keeps believing in a key it lost: with no        *)
(* refresh under way and no callback owed, the members it allows are the   *)
(* keys it holds.  The reset of the host is the exception, after which its *)
(* listener is closed and the entrypoint is to be restarted.               *)
(***************************************************************************)
AllowedIsClaimed ==
    \A m \in Meshes :
        pc[m] = "running" /\ m \in open /\ m \notin owed /\ refresh[m] = {}
            => allowed[m] = ClaimedBy(m)

(***************************************************************************)
(* Whoever believes in a key is its one consumer: the two route tables and *)
(* the members the direct runtimes allow tell the same story.              *)
(***************************************************************************)
ConsumersAgree == ExplicitWins /\ AllowedIsClaimed

(***************************************************************************)
(* The host outlives no change of its settings or identity and is stopped  *)
(* by nothing else while anyone holds a reference, late timers included.   *)
(***************************************************************************)
HeldHostStays ==
    [][host # None /\ host' # host => refs = 0 \/ Stale \/ key' # key]_vars

(***************************************************************************)
(* A running tunnel keeps every key it was given: another tunnel's start,  *)
(* save, failure or close, a direct runtime and a late timer never take    *)
(* one; only its own save, a settings change or a reset does.              *)
(***************************************************************************)
RoutesKept ==
    [][\A t \in Tunnels :
         pc[t] = "running" /\ pc'[t] = "running" /\ save'[t] = save[t]
            /\ ~Stale /\ key' = key
            => \A k \in Keys : routes[k] = t => routes'[k] = t]_vars

(***************************************************************************)
(* A host nobody references stops: whatever callbacks raced, a timer that  *)
(* will stop it is always left.                                            *)
(***************************************************************************)
IdleHostStops == []<>(refs > 0 \/ host = None)

(***************************************************************************)
(* "LAN sharing is host-level NAT, applied once the hub's routes exist and *)
(* torn down in Close: a hub that fails to start leaves no rules behind",  *)
(* src/tunnel/tun.go:559-560; every other failure in Run unregisters and   *)
(* releases.  A tunnel whose start failed holds no key and no reference.   *)
(***************************************************************************)
FailedStartHoldsNothing ==
    /\ RefsAreHeld
    /\ \A t \in Tunnels : pc[t] = "failed" => \A k \in Keys : routes[k] # t
=============================================================================
