--------------------------- MODULE P2PHostProofs ---------------------------
(***************************************************************************)
(* Proofs about P2PHost, for any number of tunnels, direct runtimes, keys  *)
(* and late timers.  Counting the references is what the rest needs: a     *)
(* grace timer that fires late is harmless because it reads a count that   *)
(* is the number of holders.  A hub that fails on its own configuration    *)
(* keeps its reference (see FailedStartHoldsNothing), so the theorems that *)
(* count are about hubs whose configuration parses.                        *)
(***************************************************************************)
EXTENDS P2PHost, FiniteSetTheorems, TLAPS

WellConfigured == Misconfigured = {}

LEMMA HoldersApart ==
    /\ Tunnels \subseteq Holders /\ Meshes \subseteq Holders
    /\ None \notin Tunnels /\ None \notin Meshes /\ None \notin Lists
    /\ \A t \in Tunnels : t \notin Meshes
    /\ \A m \in Meshes : m \notin Tunnels
BY HolderAssumption DEF Holders

LEMMA ClaimableKeys ==
    ASSUME NEW m, NEW ks \in SUBSET Keys
    PROVE  Claimable(m, ks) \in SUBSET Keys
BY DEF Claimable

LEMMA GotoType ==
    ASSUME TypeOK, NEW h \in Holders, NEW l \in Labels, Goto(h, l)
    PROVE  pc' \in [Holders -> Labels]
BY DEF TypeOK, Goto

LEMMA DropType ==
    ASSUME TypeOK, DropRoutes
    PROVE  /\ routes' \in [Keys -> Tunnels \cup {None}]
           /\ meshRoutes' \in [Keys -> Meshes \cup {None}]
           /\ open' \subseteq Holders
BY DEF TypeOK, DropRoutes, NoRoutes

LEMMA ReconcileType ==
    ASSUME TypeOK, NEW t \in Tunnels, NEW ks \in SUBSET Keys, Reconcile(t, ks)
    PROVE  /\ routes' \in [Keys -> Tunnels \cup {None}]
           /\ meshRoutes' \in [Keys -> Meshes \cup {None}]
           /\ owed' \subseteq Meshes
<1>1. routes' \in [Keys -> Tunnels \cup {None}]
  BY DEF TypeOK, Reconcile
<1>2. meshRoutes' \in [Keys -> Meshes \cup {None}]
  BY DEF TypeOK, Reconcile
<1>3. \A k \in ks : meshRoutes[k] \in Meshes \cup {None}
  BY DEF TypeOK
<1>4. owed' \subseteq Meshes
  BY <1>3 DEF TypeOK, Reconcile
<1>. QED BY <1>1, <1>2, <1>4

LEMMA InitType == Init => TypeOK
BY HolderAssumption DEF Init, TypeOK, NoRoutes, Labels

-----------------------------------------------------------------------------
(* The host and its timer.                                                 *)
LEMMA HostType ==
    TypeOK /\ (TimerFires \/ Callback \/ SaveSettings \/ ResetIdentity) => TypeOK'
<1>. SUFFICES ASSUME TypeOK, TimerFires \/ Callback \/ SaveSettings \/ ResetIdentity
              PROVE  TypeOK'
  OBVIOUS
<1>1. CASE TimerFires
  BY <1>1 DEF TimerFires, TypeOK, table, direct
<1>2. CASE Callback
  BY <1>2, DropType DEF Callback, TypeOK, direct, KeepRoutes
<1>3. CASE SaveSettings
  BY <1>3 DEF SaveSettings, TypeOK, timers, table, direct
<1>4. CASE ResetIdentity
  BY <1>4, DropType DEF ResetIdentity, TypeOK, direct
<1>. QED BY <1>1, <1>2, <1>3, <1>4

LEMMA AcquireType ==
    ASSUME TypeOK, NEW h \in Holders, Acquire(h)
    PROVE  TypeOK'
<1>1. pc' \in [Holders -> Labels]
  BY GotoType DEF Acquire, Labels
<1>2. [sig |-> settings, key |-> key] \in HostState
  BY DEF TypeOK, HostState
<1>3. /\ routes' \in [Keys -> Tunnels \cup {None}]
      /\ meshRoutes' \in [Keys -> Meshes \cup {None}]
      /\ open' \subseteq Holders
  BY DropType DEF Acquire, KeepRoutes, TypeOK
<1>4. host' \in HostState \cup {None} /\ refs' \in Nat /\ timer' = "none"
  BY <1>2 DEF Acquire, TypeOK
<1>. QED BY <1>1, <1>3, <1>4 DEF Acquire, TypeOK, direct

LEMMA ReleaseType ==
    ASSUME TypeOK, NEW h \in Holders, Release(h)
    PROVE  TypeOK'
<1>1. pc' \in [Holders -> Labels]
  BY GotoType DEF Release, Labels
<1>. QED BY <1>1 DEF Release, TypeOK, table, direct

(* Tunnels and hubs.                                                       *)
LEMMA TunnelType ==
    ASSUME TypeOK, NEW t \in Tunnels,
           \/ Register(t) \/ Start(t) \/ FinishSave(t) \/ Unregister(t) \/ BeginClose(t)
           \/ \E ks \in Lists : BeginSave(t, ks)
    PROVE  TypeOK'
<1>. USE HoldersApart
<1>1. Lists \subseteq SUBSET Keys
  BY HolderAssumption
<1>2. CASE Register(t)
  <2>1. PICK ks \in Lists :
           IF Conflict(t, ks)
           THEN Goto(t, "releasing") /\ UNCHANGED <<table, owed>>
           ELSE Reconcile(t, ks) /\ Goto(t, "registered")
    BY <1>2 DEF Register
  <2>2. pc' \in [Holders -> Labels]
    BY <2>1, GotoType DEF Labels
  <2>3. /\ routes' \in [Keys -> Tunnels \cup {None}]
        /\ meshRoutes' \in [Keys -> Meshes \cup {None}]
        /\ owed' \subseteq Meshes
    BY <1>1, <2>1, ReconcileType DEF table, TypeOK
  <2>. QED BY <1>2, <2>2, <2>3 DEF Register, TypeOK, timers
<1>3. CASE Start(t)
  <2>1. pc' \in [Holders -> Labels]
    BY <1>3, GotoType DEF Start, Labels
  <2>. QED BY <1>3, <2>1 DEF Start, TypeOK, timers, table, direct
<1>4. CASE FinishSave(t)
  <2>1. save[t] \in SUBSET Keys
    BY <1>1, <1>4 DEF FinishSave, TypeOK
  <2>2. /\ routes' \in [Keys -> Tunnels \cup {None}]
        /\ meshRoutes' \in [Keys -> Meshes \cup {None}]
        /\ owed' \subseteq Meshes
    BY <1>4, <2>1, ReconcileType DEF FinishSave, table, TypeOK
  <2>. QED BY <1>4, <2>2 DEF FinishSave, TypeOK, timers
<1>5. CASE Unregister(t)
  <2>1. pc' \in [Holders -> Labels]
    BY <1>5, GotoType DEF Unregister, Labels
  <2>. QED BY <1>5, <2>1 DEF Unregister, TypeOK, timers, direct
<1>6. CASE BeginClose(t)
  <2>1. pc' \in [Holders -> Labels]
    BY <1>6, GotoType DEF BeginClose, Labels
  <2>. QED BY <1>6, <2>1 DEF BeginClose, TypeOK, timers, table, direct
<1>7. ASSUME NEW ks \in Lists, BeginSave(t, ks) PROVE TypeOK'
  BY <1>7 DEF BeginSave, TypeOK, timers, table, direct
<1>. QED BY <1>2, <1>3, <1>4, <1>5, <1>6, <1>7

(* Direct runtimes.                                                        *)
LEMMA MeshType ==
    ASSUME TypeOK, NEW m \in Meshes,
           \/ StartMesh(m) \/ Preempt(m) \/ Refresh(m) \/ UnregisterMesh(m) \/ BeginCloseMesh(m)
           \/ \E ks \in Lists : Netview(m, ks)
    PROVE  TypeOK'
<1>. USE HoldersApart
<1>1. Lists \subseteq SUBSET Keys
  BY HolderAssumption
<1>2. CASE StartMesh(m)
  <2>1. pc' \in [Holders -> Labels]
    BY <1>2, GotoType DEF StartMesh, Labels
  <2>. QED BY <1>2, <2>1 DEF StartMesh, TypeOK, timers, table, direct
<1>3. CASE Preempt(m)
  <2>1. refresh' \in [Meshes -> SUBSET (SUBSET Keys)]
    BY <1>3 DEF Preempt, TypeOK
  <2>. QED BY <1>3, <2>1 DEF Preempt, TypeOK, timers, table
<1>4. CASE Refresh(m)
  <2>1. PICK ks \in refresh[m] :
           /\ refresh' = [refresh EXCEPT ![m] = @ \ {ks}]
           /\ meshRoutes' = [k \in Keys |-> IF k \in Claimable(m, ks) THEN m
                                            ELSE IF meshRoutes[k] = m THEN None
                                            ELSE meshRoutes[k]]
           /\ allowed' = [allowed EXCEPT ![m] = Claimable(m, ks)]
           /\ wanted' = [wanted EXCEPT ![m] = ks]
           /\ UNCHANGED <<host, refs, timers, routes, settings, key, pc, open, save, owed,
                          bounds>>
    BY <1>4 DEF Refresh
  <2>2. ks \in SUBSET Keys /\ Claimable(m, ks) \in SUBSET Keys
    BY ClaimableKeys DEF TypeOK
  <2>3. meshRoutes' \in [Keys -> Meshes \cup {None}]
    BY <2>1 DEF TypeOK
  <2>4. /\ refresh' \in [Meshes -> SUBSET (SUBSET Keys)]
        /\ wanted' \in [Meshes -> SUBSET Keys]
        /\ allowed' \in [Meshes -> SUBSET Keys]
    BY <2>1, <2>2 DEF TypeOK
  <2>. QED BY <2>1, <2>3, <2>4 DEF TypeOK, timers
<1>5. CASE UnregisterMesh(m)
  <2>1. pc' \in [Holders -> Labels]
    BY <1>5, GotoType DEF UnregisterMesh, Labels
  <2>. QED BY <1>5, <2>1 DEF UnregisterMesh, TypeOK, timers, direct
<1>6. CASE BeginCloseMesh(m)
  <2>1. pc' \in [Holders -> Labels]
    BY <1>6, GotoType DEF BeginCloseMesh, Labels
  <2>. QED BY <1>6, <2>1 DEF BeginCloseMesh, TypeOK, timers, table, direct
<1>7. ASSUME NEW ks \in Lists, Netview(m, ks) PROVE TypeOK'
  <2>1. refresh' \in [Meshes -> SUBSET (SUBSET Keys)]
    BY <1>1, <1>7 DEF Netview, TypeOK
  <2>. QED BY <1>7, <2>1 DEF Netview, TypeOK, timers, table
<1>. QED BY <1>2, <1>3, <1>4, <1>5, <1>6, <1>7

LEMMA NextType == TypeOK /\ [Next]_vars => TypeOK'
<1>1. TypeOK /\ UNCHANGED vars => TypeOK'
  BY DEF TypeOK, vars, timers, table, direct
<1>. QED BY <1>1, HostType, AcquireType, ReleaseType, TunnelType, MeshType
         DEF Next, Advance, Operate

(* The manager and its holders stay well formed.                           *)
THEOREM HostTypeCorrect == Spec => []TypeOK
<1>. QED BY InitType, NextType, PTL DEF Spec

-----------------------------------------------------------------------------
(***************************************************************************)
(* No key is routed to a tunnel and to a direct runtime at once: reconcile *)
(* takes it from the runtimes in the same critical section, and            *)
(* reconcileMesh claims what is free (p2p_host.go).                        *)
(***************************************************************************)
LEMMA ReconcileWins ==
    ASSUME TypeOK, ExplicitWins, NEW t \in Tunnels, NEW ks \in SUBSET Keys, Reconcile(t, ks)
    PROVE  ExplicitWins'
BY DEF TypeOK, ExplicitWins, Reconcile

LEMMA NextWins == TypeOK /\ ExplicitWins /\ [Next]_vars => ExplicitWins'
<1>. SUFFICES ASSUME TypeOK, ExplicitWins, [Next]_vars PROVE ExplicitWins'
  OBVIOUS
<1>. USE DEF ExplicitWins
<1>1. Lists \subseteq SUBSET Keys
  BY HolderAssumption
<1>2. DropRoutes => ExplicitWins'
  BY DEF DropRoutes, NoRoutes
<1>3. UNCHANGED <<routes, meshRoutes>> => ExplicitWins'
  OBVIOUS
<1>4. ASSUME NEW h \in Holders, Acquire(h) PROVE ExplicitWins'
  BY <1>2, <1>3, <1>4 DEF Acquire, KeepRoutes
<1>5. ASSUME NEW h \in Holders, Release(h) PROVE ExplicitWins'
  BY <1>3, <1>5 DEF Release, table
<1>6. CASE TimerFires \/ SaveSettings
  BY <1>3, <1>6 DEF TimerFires, SaveSettings, table
<1>7. CASE Callback \/ ResetIdentity
  BY <1>2, <1>3, <1>7 DEF Callback, ResetIdentity, KeepRoutes
<1>8. ASSUME NEW t \in Tunnels, Register(t) \/ FinishSave(t) PROVE ExplicitWins'
  <2>1. CASE Register(t)
    BY <1>1, <1>3, <2>1, ReconcileWins DEF Register, table
  <2>2. CASE FinishSave(t)
    <3>1. save[t] \in SUBSET Keys
      BY <1>1, <2>2 DEF TypeOK, FinishSave
    <3>. QED BY <1>3, <2>2, <3>1, ReconcileWins DEF FinishSave, table
  <2>. QED BY <1>8, <2>1, <2>2
<1>9. ASSUME NEW t \in Tunnels, Unregister(t) PROVE ExplicitWins'
  BY <1>9 DEF Unregister
<1>10. ASSUME NEW t \in Tunnels, \E ks \in Lists : BeginSave(t, ks) PROVE ExplicitWins'
  BY <1>3, <1>10 DEF BeginSave, table
<1>11. ASSUME NEW t \in Tunnels, Start(t) \/ BeginClose(t) PROVE ExplicitWins'
  BY <1>3, <1>11 DEF Start, BeginClose, table
<1>12. ASSUME NEW m \in Meshes, Refresh(m) PROVE ExplicitWins'
  <2>1. PICK ks \in refresh[m] :
           /\ meshRoutes' = [k \in Keys |-> IF k \in Claimable(m, ks) THEN m
                                            ELSE IF meshRoutes[k] = m THEN None
                                            ELSE meshRoutes[k]]
           /\ routes' = routes
    BY <1>12 DEF Refresh
  <2>. QED BY <2>1 DEF Claimable
<1>13. ASSUME NEW m \in Meshes, UnregisterMesh(m) PROVE ExplicitWins'
  BY <1>13 DEF UnregisterMesh
<1>14. ASSUME NEW m \in Meshes,
              StartMesh(m) \/ Preempt(m) \/ BeginCloseMesh(m) \/ \E ks \in Lists : Netview(m, ks)
       PROVE  ExplicitWins'
  BY <1>3, <1>14 DEF StartMesh, Preempt, BeginCloseMesh, Netview, table
<1>15. CASE UNCHANGED vars
  BY <1>3, <1>15 DEF vars, table
<1>. QED BY <1>4, <1>5, <1>6, <1>7, <1>8, <1>9, <1>10, <1>11, <1>12, <1>13, <1>14, <1>15
         DEF Next, Advance, Operate

\* The key of an explicit tunnel is never a route of a mesh as well (ExplicitWins), in whatever order
\* reconcile and reconcileMesh of the shared p2p host come.
THEOREM HostExplicitWins == Spec => []ExplicitWins
<1>1. Init => ExplicitWins
  BY DEF Init, ExplicitWins, NoRoutes
<1>. QED BY <1>1, InitType, NextType, NextWins, PTL DEF Spec

-----------------------------------------------------------------------------
(* Counting the holders.                                                   *)
Held == {"acquired", "registered", "running", "closing", "releasing"}

LEMMA HoldingFinite == IsFiniteSet(Holding) /\ Cardinality(Holding) \in Nat
<1>1. IsFiniteSet(Holders)
  BY HolderAssumption, FS_Union DEF Holders
<1>2. Holding \subseteq Holders
  BY DEF Holding
<1>. QED BY <1>1, <1>2, FS_Subset, FS_CardinalityType

LEMMA HoldingKept ==
    ASSUME TypeOK, NEW h \in Holders, NEW l, Goto(h, l), pc[h] \in Held <=> l \in Held
    PROVE  Holding' = Holding
BY DEF TypeOK, Goto, Holding, Held

LEMMA HoldingGains ==
    ASSUME TypeOK, NEW h \in Holders, NEW l, Goto(h, l), pc[h] \notin Held, l \in Held
    PROVE  Cardinality(Holding') = Cardinality(Holding) + 1
<1>1. Holding' = Holding \cup {h} /\ h \notin Holding
  BY DEF TypeOK, Goto, Holding, Held
<1>. QED BY <1>1, HoldingFinite, FS_AddElement

LEMMA HoldingLoses ==
    ASSUME TypeOK, NEW h \in Holders, NEW l, Goto(h, l), pc[h] \in Held, l \notin Held
    PROVE  Cardinality(Holding') = Cardinality(Holding) - 1 /\ Cardinality(Holding) > 0
<1>1. Holding' = Holding \ {h} /\ h \in Holding
  BY DEF TypeOK, Goto, Holding, Held
<1>2. Cardinality(Holding') = Cardinality(Holding) - 1
  BY <1>1, HoldingFinite, FS_RemoveElement
<1>3. Cardinality(Holding) # 0
  BY <1>1, HoldingFinite, FS_EmptySet
<1>. QED BY <1>2, <1>3, HoldingFinite

LEMMA NextCounts ==
    ASSUME WellConfigured, TypeOK, RefsAreHeld, [Next]_vars
    PROVE  RefsAreHeld'
<1>. USE DEF RefsAreHeld
<1>1. refs' = refs /\ pc' = pc => RefsAreHeld'
  BY DEF Holding
<1>2. refs' = refs /\ Holding' = Holding => RefsAreHeld'
  OBVIOUS
<1>3. ASSUME NEW h \in Holders, Acquire(h) PROVE RefsAreHeld'
  <2>1. CASE refs' = refs + 1 /\ Goto(h, "acquired")
    BY <1>3, <2>1, HoldingGains DEF Acquire, Held
  <2>2. CASE refs' = refs /\ Goto(h, "failed")
    BY <1>2, <1>3, <2>2, HoldingKept DEF Acquire, Held
  <2>. QED BY <1>3, <2>1, <2>2 DEF Acquire
<1>4. ASSUME NEW h \in Holders, Release(h) PROVE RefsAreHeld'
  <2>1. Goto(h, "closed") /\ pc[h] = "releasing"
    BY <1>4 DEF Release
  <2>2. Cardinality(Holding') = Cardinality(Holding) - 1 /\ Cardinality(Holding) > 0
    BY <2>1, HoldingLoses DEF Held
  <2>. QED BY <1>4, <2>2 DEF Release
<1>5. CASE TimerFires \/ Callback \/ SaveSettings \/ ResetIdentity
  BY <1>1, <1>5 DEF TimerFires, Callback, SaveSettings, ResetIdentity
<1>6. ASSUME NEW t \in Tunnels, Register(t) \/ Start(t) \/ Unregister(t) \/ BeginClose(t)
      PROVE  RefsAreHeld'
  <2>1. refs' = refs /\ t \in Holders /\ t \notin Misconfigured
    BY <1>6, HoldersApart DEF Register, Start, Unregister, BeginClose, WellConfigured
  <2>2. pc[t] \in Held /\ \E l \in Held : Goto(t, l)
    BY <1>6, <2>1 DEF Register, Start, Unregister, BeginClose, Held
  <2>. QED BY <1>2, <2>1, <2>2, HoldingKept
<1>7. ASSUME NEW t \in Tunnels, FinishSave(t) \/ \E ks \in Lists : BeginSave(t, ks)
      PROVE  RefsAreHeld'
  BY <1>1, <1>7 DEF FinishSave, BeginSave
<1>8. ASSUME NEW m \in Meshes, StartMesh(m) \/ UnregisterMesh(m) \/ BeginCloseMesh(m)
      PROVE  RefsAreHeld'
  <2>1. refs' = refs /\ m \in Holders
    BY <1>8, HoldersApart DEF StartMesh, UnregisterMesh, BeginCloseMesh
  <2>2. pc[m] \in Held /\ \E l \in Held : Goto(m, l)
    BY <1>8 DEF StartMesh, UnregisterMesh, BeginCloseMesh, Held
  <2>. QED BY <1>2, <2>1, <2>2, HoldingKept
<1>9. ASSUME NEW m \in Meshes, Preempt(m) \/ Refresh(m) \/ \E ks \in Lists : Netview(m, ks)
      PROVE  RefsAreHeld'
  BY <1>1, <1>9 DEF Preempt, Refresh, Netview
<1>10. CASE UNCHANGED vars
  BY <1>1, <1>10 DEF vars
<1>. QED BY <1>3, <1>4, <1>5, <1>6, <1>7, <1>8, <1>9, <1>10 DEF Next, Advance, Operate

(***************************************************************************)
(* As many references as holders, through failed starts, rollbacks, resets *)
(* and settings changes: no release is missing and none is made twice.     *)
(***************************************************************************)
THEOREM HostRefsAreHeld == WellConfigured => (Spec => []RefsAreHeld)
<1>. SUFFICES ASSUME WellConfigured PROVE Spec => []RefsAreHeld
  OBVIOUS
<1>1. Init => RefsAreHeld
  <2>. SUFFICES ASSUME Init PROVE RefsAreHeld
    OBVIOUS
  <2>1. Holding = {}
    BY DEF Init, Holding
  <2>. QED BY <2>1, FS_EmptySet DEF Init, RefsAreHeld
<1>2. TypeOK /\ RefsAreHeld /\ [Next]_vars => RefsAreHeld'
  BY NextCounts
<1>. QED BY <1>1, <1>2, InitType, NextType, PTL DEF Spec

-----------------------------------------------------------------------------
(***************************************************************************)
(* The host while it is referenced.  Only a grace callback that counts no  *)
(* reference, an acquire that finds other settings and a reset replace it. *)
(***************************************************************************)
HostReplaced == host # None /\ host' # host => refs = 0 \/ Stale \/ key' # key

LEMMA NextHostStays == ASSUME TypeOK, [Next]_vars PROVE HostReplaced
<1>1. host' = host => HostReplaced
  BY DEF HostReplaced
<1>2. ASSUME NEW h \in Holders, Acquire(h) PROVE HostReplaced
  BY <1>2 DEF Acquire, HostReplaced
<1>3. CASE Callback
  BY <1>3 DEF Callback, HostReplaced
<1>4. CASE ResetIdentity
  BY <1>4 DEF ResetIdentity, HostReplaced, TypeOK
<1>5. CASE TimerFires \/ SaveSettings
  BY <1>1, <1>5 DEF TimerFires, SaveSettings
<1>6. ASSUME NEW h \in Holders, Release(h) PROVE HostReplaced
  BY <1>1, <1>6 DEF Release
<1>7. ASSUME NEW t \in Tunnels,
             \/ Register(t) \/ Start(t) \/ FinishSave(t) \/ Unregister(t) \/ BeginClose(t)
             \/ \E ks \in Lists : BeginSave(t, ks)
      PROVE  HostReplaced
  BY <1>1, <1>7 DEF Register, Start, FinishSave, Unregister, BeginClose, BeginSave
<1>8. ASSUME NEW m \in Meshes,
             \/ StartMesh(m) \/ Preempt(m) \/ Refresh(m) \/ UnregisterMesh(m)
             \/ BeginCloseMesh(m) \/ \E ks \in Lists : Netview(m, ks)
      PROVE  HostReplaced
  BY <1>1, <1>8 DEF StartMesh, Preempt, Refresh, UnregisterMesh, BeginCloseMesh, Netview
<1>9. CASE UNCHANGED vars
  BY <1>1, <1>9 DEF vars
<1>. QED BY <1>2, <1>3, <1>4, <1>5, <1>6, <1>7, <1>8, <1>9 DEF Next, Advance, Operate

(* A referenced host outlives everything but its settings and identity.    *)
THEOREM HostHeldStays == Spec => HeldHostStays
<1>1. TypeOK /\ [Next]_vars => [HostReplaced]_vars
  BY NextHostStays
<1>. QED BY <1>1, InitType, NextType, PTL DEF Spec, HeldHostStays, HostReplaced

-----------------------------------------------------------------------------
(***************************************************************************)
(* What a running tunnel was given stays its own.  A running tunnel holds  *)
(* a reference, so no late callback drops the table under it; reconcile    *)
(* refuses a list that holds another tunnel's key, and whatever else       *)
(* writes the table writes only its own keys.                              *)
(***************************************************************************)
Undisturbed(t) == pc[t] = "running" /\ pc'[t] = "running" /\ save'[t] = save[t]
                    /\ ~Stale /\ key' = key
Keeps(t)       == \A k \in Keys : routes[k] = t => routes'[k] = t

LEMMA OthersReconcile ==
    ASSUME TypeOK, NEW t \in Tunnels, NEW u \in Tunnels, u # t, NEW ks \in SUBSET Keys,
           ~Conflict(u, ks), Reconcile(u, ks)
    PROVE  Keeps(t)
BY HoldersApart DEF TypeOK, Conflict, Reconcile, Keeps

LEMMA RunningCounts ==
    ASSUME RefsAreHeld, NEW h \in Holders, pc[h] = "running"
    PROVE  refs > 0
<1>1. h \in Holding
  BY DEF Holding
<1>. QED BY <1>1, HoldingFinite, FS_EmptySet DEF RefsAreHeld

LEMMA NextKeeps ==
    ASSUME TypeOK, RefsAreHeld, [Next]_vars, NEW t \in Tunnels, Undisturbed(t)
    PROVE  Keeps(t)
<1>1. routes' = routes => Keeps(t)
  BY DEF Keeps
<1>2. t \in Holders /\ t # None /\ Lists \subseteq SUBSET Keys
  BY HoldersApart, HolderAssumption
<1>3. refs > 0
  BY <1>2, RunningCounts DEF Undisturbed
<1>4. ASSUME NEW h \in Holders, Acquire(h) PROVE Keeps(t)
  BY <1>1, <1>4 DEF Acquire, KeepRoutes, Undisturbed
<1>5. CASE Callback
  BY <1>1, <1>3, <1>5 DEF Callback, KeepRoutes
<1>6. CASE ResetIdentity
  BY <1>6 DEF ResetIdentity, Undisturbed, TypeOK
<1>7. ASSUME NEW u \in Tunnels, Register(u) PROVE Keeps(t)
  <2>1. u # t
    BY <1>7 DEF Register, Undisturbed
  <2>2. PICK ks \in Lists : \/ UNCHANGED <<table, owed>>
                            \/ ~Conflict(u, ks) /\ Reconcile(u, ks)
    BY <1>7 DEF Register
  <2>. QED BY <1>1, <1>2, <2>1, <2>2, OthersReconcile DEF table
<1>8. ASSUME NEW u \in Tunnels, FinishSave(u) PROVE Keeps(t)
  <2>1. u # t
    BY <1>8 DEF FinishSave, Undisturbed, TypeOK
  <2>2. save[u] \in SUBSET Keys
    BY <1>2, <1>8 DEF FinishSave, TypeOK
  <2>. QED BY <1>1, <1>8, <2>1, <2>2, OthersReconcile DEF FinishSave, table
<1>9. ASSUME NEW u \in Tunnels, Unregister(u) PROVE Keeps(t)
  BY <1>9 DEF Unregister, Undisturbed, Keeps, TypeOK
<1>10. CASE TimerFires \/ SaveSettings
  BY <1>1, <1>10 DEF TimerFires, SaveSettings, table
<1>11. ASSUME NEW h \in Holders, Release(h) PROVE Keeps(t)
  BY <1>1, <1>11 DEF Release, table
<1>12. ASSUME NEW u \in Tunnels,
              Start(u) \/ BeginClose(u) \/ \E ks \in Lists : BeginSave(u, ks)
       PROVE  Keeps(t)
  BY <1>1, <1>12 DEF Start, BeginClose, BeginSave, table
<1>13. ASSUME NEW m \in Meshes,
              \/ StartMesh(m) \/ Preempt(m) \/ Refresh(m) \/ UnregisterMesh(m)
              \/ BeginCloseMesh(m) \/ \E ks \in Lists : Netview(m, ks)
       PROVE  Keeps(t)
  BY <1>1, <1>13 DEF StartMesh, Preempt, Refresh, UnregisterMesh, BeginCloseMesh, Netview, table
<1>14. CASE UNCHANGED vars
  BY <1>1, <1>14 DEF vars, table
<1>. QED BY <1>4, <1>5, <1>6, <1>7, <1>8, <1>9, <1>10, <1>11, <1>12, <1>13, <1>14
         DEF Next, Advance, Operate

(* A running tunnel's keys are taken by nothing but its own save, a        *)
(* settings change and a reset, however starts, failures and closes race.  *)
THEOREM HostRoutesKept == WellConfigured => (Spec => RoutesKept)
<1>. SUFFICES ASSUME WellConfigured PROVE Spec => RoutesKept
  OBVIOUS
<1>1. Spec => []RefsAreHeld
  BY HostRefsAreHeld
<1>2. TypeOK /\ RefsAreHeld /\ [Next]_vars
        => [\A t \in Tunnels : Undisturbed(t) => Keeps(t)]_vars
  BY NextKeeps
<1>. QED BY <1>1, <1>2, InitType, NextType, PTL DEF Spec, RoutesKept, Undisturbed, Keeps

-----------------------------------------------------------------------------
(***************************************************************************)
(* What a direct runtime believes.  A key it loses to a tunnel leaves it   *)
(* owed a callback, a key it loses with the table closes its listener, and *)
(* it starts believing in nothing: BeliefInv adds that to AllowedIsClaimed.*)
(***************************************************************************)
Believes(m) == pc[m] = "running" /\ m \in open /\ m \notin owed /\ refresh[m] = {}
                 => allowed[m] = ClaimedBy(m)
Starting(m) == pc[m] \in {"new", "acquired"}
                 => refresh[m] = {} /\ allowed[m] = {} /\ ClaimedBy(m) = {} /\ m \notin owed

BeliefInv == \A m \in Meshes : Believes(m) /\ Starting(m)

(* The direct runtime's own part of the state, its keys included.          *)
Apart(m) == /\ pc'[m] = pc[m] /\ (m \in open' => m \in open)
            /\ refresh'[m] = refresh[m] /\ allowed'[m] = allowed[m]

LEMMA ApartKeeps ==
    ASSUME NEW m \in Meshes, Believes(m), Starting(m), Apart(m),
           ClaimedBy(m)' = ClaimedBy(m), m \in owed <=> m \in owed'
    PROVE  Believes(m)' /\ Starting(m)'
BY DEF Believes, Starting, Apart

LEMMA DropClaims ==
    ASSUME TypeOK, NEW m \in Meshes, DropRoutes, ClaimedBy(m) # {}
    PROVE  m \notin open'
BY DEF ClaimedBy, DropRoutes, Routed

LEMMA DropKeeps ==
    ASSUME TypeOK, NEW m \in Meshes, Believes(m), Starting(m), DropRoutes,
           refresh'[m] = refresh[m], allowed'[m] = allowed[m], owed' = owed,
           pc'[m] = pc[m] \/ (pc[m] = "new" /\ pc'[m] \in {"new", "acquired", "failed"})
    PROVE  Believes(m)' /\ Starting(m)'
<1>1. ClaimedBy(m)' = {}
  BY HoldersApart DEF ClaimedBy, DropRoutes, NoRoutes
<1>2. CASE ClaimedBy(m) = {}
  <2>1. m \in open' => m \in open
    BY DEF DropRoutes
  <2>. QED BY <1>1, <1>2, <2>1 DEF Believes, Starting
<1>3. CASE ClaimedBy(m) # {}
  <2>1. m \notin open'
    BY <1>3, DropClaims
  <2>. QED BY <1>1, <1>3, <2>1 DEF Believes, Starting
<1>. QED BY <1>2, <1>3

LEMMA ReconcileKeeps ==
    ASSUME TypeOK, NEW m \in Meshes, Believes(m), Starting(m), Apart(m),
           NEW t \in Tunnels, NEW ks \in SUBSET Keys, Reconcile(t, ks)
    PROVE  Believes(m)' /\ Starting(m)'
<1>1. owed' = owed \cup ({meshRoutes[k] : k \in ks} \ {None}) /\ m # None
  BY HoldersApart DEF Reconcile
<1>2. ClaimedBy(m)' = ClaimedBy(m) \ ks
  BY <1>1 DEF ClaimedBy, Reconcile
<1>3. CASE ClaimedBy(m) \cap ks = {}
  <2>1. m \in owed <=> m \in owed'
    BY <1>1, <1>3 DEF ClaimedBy
  <2>. QED BY <1>2, <1>3, <2>1, ApartKeeps
<1>4. CASE ClaimedBy(m) \cap ks # {}
  <2>1. m \in owed'
    BY <1>1, <1>4 DEF ClaimedBy
  <2>2. pc[m] \notin {"new", "acquired"}
    BY <1>4 DEF Starting
  <2>. QED BY <2>1, <2>2 DEF Believes, Starting, Apart
<1>. QED BY <1>3, <1>4

LEMMA RefreshKeeps ==
    ASSUME TypeOK, NEW m \in Meshes, Believes(m), Starting(m), NEW n \in Meshes, Refresh(n)
    PROVE  Believes(m)' /\ Starting(m)'
<1>1. PICK ks \in refresh[n] :
         /\ refresh' = [refresh EXCEPT ![n] = @ \ {ks}]
         /\ meshRoutes' = [k \in Keys |-> IF k \in Claimable(n, ks) THEN n
                                          ELSE IF meshRoutes[k] = n THEN None
                                          ELSE meshRoutes[k]]
         /\ allowed' = [allowed EXCEPT ![n] = Claimable(n, ks)]
         /\ pc' = pc /\ open' = open /\ owed' = owed
  BY DEF Refresh
<1>2. Claimable(n, ks) \subseteq Keys
  BY ClaimableKeys DEF TypeOK
<1>3. CASE m = n
  <2>1. ClaimedBy(m)' = Claimable(n, ks)
    BY <1>1, <1>2, <1>3, HoldersApart DEF ClaimedBy
  <2>2. allowed'[m] = Claimable(n, ks)
    BY <1>1, <1>3 DEF TypeOK
  <2>3. pc[m] \notin {"new", "acquired"}
    BY <1>1, <1>3 DEF Starting
  <2>. QED BY <1>1, <2>1, <2>2, <2>3 DEF Believes, Starting
<1>4. CASE m # n
  <2>1. ClaimedBy(m)' = ClaimedBy(m)
    BY <1>1, <1>4, HoldersApart DEF ClaimedBy, Claimable
  <2>2. Apart(m)
    BY <1>1, <1>4 DEF Apart, TypeOK
  <2>. QED BY <1>1, <2>1, <2>2, ApartKeeps
<1>. QED BY <1>3, <1>4

LEMMA NextBelieves ==
    ASSUME TypeOK, BeliefInv, [Next]_vars
    PROVE  BeliefInv'
<1>. SUFFICES ASSUME NEW m \in Meshes PROVE Believes(m)' /\ Starting(m)'
  BY DEF BeliefInv
<1>1. Believes(m) /\ Starting(m) /\ m \in Holders /\ m \notin Tunnels
  BY HoldersApart DEF BeliefInv
<1>2. Lists \subseteq SUBSET Keys
  BY HolderAssumption
<1>3. meshRoutes' = meshRoutes => ClaimedBy(m)' = ClaimedBy(m)
  BY DEF ClaimedBy
<1>4. meshRoutes' = meshRoutes /\ owed' = owed /\ Apart(m) => Believes(m)' /\ Starting(m)'
  BY <1>1, <1>3, ApartKeeps
<1>5. ASSUME NEW h \in Holders, Acquire(h) PROVE Believes(m)' /\ Starting(m)'
  <2>1. /\ pc[h] = "new" /\ refresh' = refresh /\ allowed' = allowed /\ owed' = owed
        /\ Goto(h, "acquired") \/ Goto(h, "failed")
    BY <1>5 DEF Acquire, direct
  <2>2. pc'[m] = pc[m] \/ (pc[m] = "new" /\ pc'[m] \in {"new", "acquired", "failed"})
    <3>1. CASE Goto(h, "acquired")
      BY <1>1, <2>1, <3>1 DEF Goto, TypeOK
    <3>2. CASE Goto(h, "failed")
      BY <1>1, <2>1, <3>2 DEF Goto, TypeOK
    <3>. QED BY <2>1, <3>1, <3>2
  <2>3. CASE DropRoutes
    BY <1>1, <2>1, <2>2, <2>3, DropKeeps
  <2>4. CASE KeepRoutes
    <3>1. ClaimedBy(m)' = ClaimedBy(m) /\ open' = open
      BY <1>3, <2>4 DEF KeepRoutes
    <3>. QED BY <1>1, <2>1, <2>2, <3>1 DEF Believes, Starting
  <2>. QED BY <1>5, <2>3, <2>4 DEF Acquire
<1>6. CASE Callback \/ ResetIdentity
  <2>1. pc' = pc /\ refresh' = refresh /\ allowed' = allowed /\ owed' = owed
    BY <1>6 DEF Callback, ResetIdentity, direct
  <2>2. CASE DropRoutes
    BY <1>1, <2>1, <2>2, DropKeeps
  <2>3. CASE KeepRoutes
    BY <1>4, <2>1, <2>3 DEF KeepRoutes, Apart
  <2>. QED BY <1>6, <2>2, <2>3 DEF Callback, ResetIdentity
<1>7. ASSUME NEW h \in Holders, Release(h) PROVE Believes(m)' /\ Starting(m)'
  <2>1. /\ pc[h] = "releasing" /\ Goto(h, "closed") /\ meshRoutes' = meshRoutes
        /\ refresh' = refresh /\ allowed' = allowed /\ owed' = owed /\ open' = open
    BY <1>7 DEF Release, table, direct
  <2>2. pc'[m] = pc[m] \/ pc'[m] = "closed"
    BY <1>1, <2>1 DEF Goto, TypeOK
  <2>. QED BY <1>1, <1>3, <2>1, <2>2 DEF Believes, Starting
<1>8. CASE TimerFires \/ SaveSettings \/ UNCHANGED vars
  BY <1>4, <1>8 DEF TimerFires, SaveSettings, vars, table, direct, Apart
<1>9. ASSUME NEW t \in Tunnels, Register(t) PROVE Believes(m)' /\ Starting(m)'
  <2>1. /\ open' = open /\ refresh' = refresh /\ allowed' = allowed
        /\ Goto(t, "releasing") \/ Goto(t, "registered")
    BY <1>9 DEF Register
  <2>2. Apart(m)
    BY <1>1, <2>1, HoldersApart DEF Apart, Goto, TypeOK
  <2>3. PICK ks \in Lists : UNCHANGED <<table, owed>> \/ Reconcile(t, ks)
    BY <1>9 DEF Register
  <2>. QED BY <1>1, <1>2, <1>4, <2>2, <2>3, ReconcileKeeps DEF table
<1>10. ASSUME NEW t \in Tunnels, FinishSave(t) PROVE Believes(m)' /\ Starting(m)'
  <2>1. Apart(m)
    BY <1>10 DEF FinishSave, Apart
  <2>2. save[t] \in SUBSET Keys
    BY <1>2, <1>10 DEF FinishSave, TypeOK
  <2>. QED BY <1>1, <1>4, <1>10, <2>1, <2>2, ReconcileKeeps DEF FinishSave, table
<1>11. ASSUME NEW t \in Tunnels,
              Start(t) \/ Unregister(t) \/ BeginClose(t) \/ \E ks \in Lists : BeginSave(t, ks)
       PROVE  Believes(m)' /\ Starting(m)'
  <2>1. /\ meshRoutes' = meshRoutes /\ refresh' = refresh /\ allowed' = allowed
        /\ owed' = owed /\ open' \subseteq open
    BY <1>11 DEF Start, Unregister, BeginClose, BeginSave, table, direct
  <2>2. pc'[m] = pc[m]
    BY <1>1, <1>11, HoldersApart DEF Start, Unregister, BeginClose, BeginSave, Goto, TypeOK
  <2>. QED BY <1>4, <2>1, <2>2 DEF Apart
<1>12. ASSUME NEW n \in Meshes, StartMesh(n) \/ BeginCloseMesh(n)
       PROVE  Believes(m)' /\ Starting(m)'
  <2>1. /\ meshRoutes' = meshRoutes /\ refresh' = refresh /\ allowed' = allowed
        /\ owed' = owed /\ open' = open
    BY <1>12 DEF StartMesh, BeginCloseMesh, table, direct
  <2>2. \/ pc'[m] = pc[m] \/ pc'[m] = "closing"
        \/ pc[m] = "acquired" /\ pc'[m] = "running"
    BY <1>1, <1>12 DEF StartMesh, BeginCloseMesh, Goto, TypeOK
  <2>. QED BY <1>1, <1>3, <2>1, <2>2 DEF Believes, Starting
<1>13. ASSUME NEW n \in Meshes, Preempt(n) \/ \E ks \in Lists : Netview(n, ks)
       PROVE  Believes(m)' /\ Starting(m)'
  <2>1. /\ meshRoutes' = meshRoutes /\ allowed' = allowed /\ pc' = pc /\ open' = open
        /\ owed' \subseteq owed /\ \A q \in Meshes \ {n} : q \in owed <=> q \in owed'
    BY <1>13 DEF Preempt, Netview, table
  <2>2. CASE m # n
    <3>1. refresh'[m] = refresh[m]
      BY <1>13, <2>2 DEF Preempt, Netview, TypeOK
    <3>. QED BY <1>1, <1>3, <2>1, <2>2, <3>1, ApartKeeps DEF Apart
  <2>3. CASE m = n
    <3>1. refresh'[m] # {}
      <4>1. PICK ks : refresh' = [refresh EXCEPT ![m] = @ \cup {ks}]
        BY <1>13, <2>3 DEF Preempt, Netview
      <4>2. refresh'[m] = refresh[m] \cup {ks}
        BY <4>1 DEF TypeOK
      <4>. QED BY <4>2
    <3>2. pc[m] \notin {"new", "acquired"}
      BY <1>1, <1>13, <2>3 DEF Preempt, Netview, Starting
    <3>. QED BY <2>1, <3>1, <3>2 DEF Believes, Starting
  <2>. QED BY <2>2, <2>3
<1>14. ASSUME NEW n \in Meshes, Refresh(n) PROVE Believes(m)' /\ Starting(m)'
  BY <1>1, <1>14, RefreshKeeps
<1>15. ASSUME NEW n \in Meshes, UnregisterMesh(n) PROVE Believes(m)' /\ Starting(m)'
  <2>1. /\ pc[n] = "closing" /\ Goto(n, "releasing") /\ open' = open \ {n}
        /\ meshRoutes' = [k \in Keys |-> IF meshRoutes[k] = n THEN None ELSE meshRoutes[k]]
        /\ refresh' = refresh /\ allowed' = allowed /\ owed' = owed
    BY <1>15 DEF UnregisterMesh, direct
  <2>2. CASE m = n
    <3>1. pc'[m] = "releasing"
      BY <1>1, <2>1, <2>2 DEF Goto, TypeOK
    <3>. QED BY <3>1 DEF Believes, Starting
  <2>3. CASE m # n
    <3>1. ClaimedBy(m)' = ClaimedBy(m)
      BY <2>1, <2>3, HoldersApart DEF ClaimedBy
    <3>2. Apart(m)
      BY <1>1, <2>1, <2>3 DEF Apart, Goto, TypeOK
    <3>. QED BY <1>1, <2>1, <3>1, <3>2, ApartKeeps
  <2>. QED BY <2>2, <2>3
<1>. QED BY <1>5, <1>6, <1>7, <1>8, <1>9, <1>10, <1>11, <1>12, <1>13, <1>14, <1>15
         DEF Next, Advance, Operate

(***************************************************************************)
(* With no refresh under way and no callback owed, a direct runtime allows *)
(* exactly the keys it holds, whoever took keys from it and when.          *)
(***************************************************************************)
THEOREM HostAllowedIsClaimed == Spec => []AllowedIsClaimed
<1>1. Init => BeliefInv
  BY HoldersApart DEF Init, BeliefInv, Believes, Starting, ClaimedBy, NoRoutes
<1>2. TypeOK /\ BeliefInv /\ [Next]_vars => BeliefInv'
  BY NextBelieves
<1>3. BeliefInv => AllowedIsClaimed
  BY DEF BeliefInv, Believes, AllowedIsClaimed
<1>. QED BY <1>1, <1>2, <1>3, InitType, NextType, PTL DEF Spec

(***************************************************************************)
(* Whoever believes in a key is its one consumer, for any tunnels, direct  *)
(* runtimes and keys.                                                      *)
(***************************************************************************)
THEOREM HostConsumersAgree == Spec => []ConsumersAgree
<1>1. ExplicitWins /\ AllowedIsClaimed => ConsumersAgree
  BY DEF ConsumersAgree
<1>. QED BY <1>1, HostExplicitWins, HostAllowedIsClaimed, PTL
=============================================================================
