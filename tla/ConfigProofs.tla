---------------------------- MODULE ConfigProofs ----------------------------
(***************************************************************************)
(* Proofs about ConfigStore.  What a start finds is what was published     *)
(* last, for any number of writers, changes, ends of the process, failing  *)
(* file operations and corruptions.  The property is not inductive: it     *)
(* rests on the save never rotating an undecodable main file over a good   *)
(* backup, and that on the start having dealt with such a file before any  *)
(* writer runs.                                                            *)
(***************************************************************************)
EXTENDS ConfigStore, TLAPS

NotConfig == None \notin Config /\ Bad \notin Config /\ None # Bad

LEMMA FilesAreTold == NotConfig
BY FileAssumption DEF NotConfig

LEMMA EmptyIsConfig == Empty \in Config
BY BoundAssumption DEF Empty, Config

LEMMA GoodIsConfig == ASSUME NEW f \in File, Good(f) PROVE f \in Config
BY DEF File, Good

(* The part a writer fills in is within the bounds of a configuration.     *)
LEMMA Filled ==
    ASSUME NEW d \in Config, NEW p \in Parts, NEW n \in 0 .. MaxChanges
    PROVE  [d EXCEPT ![p] = n] \in Config
BY DEF Config

LEMMA LiveOf ==
    ASSUME NEW d \in Config
    PROVE  [p \in Lists |-> d[p]] \in [Lists -> 0 .. MaxChanges]
BY DEF Config, Parts

LEMMA InitType == Init => TypeOK
<1>. SUFFICES ASSUME Init PROVE TypeOK
  OBVIOUS
<1>. USE EmptyIsConfig, BoundAssumption DEF Init, AtRest
<1>1. main \in File /\ bak \in File /\ published \in Config /\ memory \in Config
  BY DEF File
<1>2. /\ live \in [Lists -> 0 .. MaxChanges]
      /\ request \in [Writers -> 0 .. MaxChanges]
      /\ draft \in [Writers -> Config]
  OBVIOUS
<1>3. part \in [Writers -> Parts]
  BY DEF Parts, Lists
<1>4. /\ pc \in [Writers -> {"idle", "get", "fill", "set", "write", "publish"}]
      /\ lock \in Writers \cup {None}
      /\ unread \in [file : File, at : 0 .. MaxChanges] \cup {None}
      /\ up \in {"off", "backup", "restore", "defaults", "running"}
      /\ acked \in 0 .. MaxChanges /\ changes \in 0 .. MaxChanges /\ faults \in 0 .. MaxFaults
  OBVIOUS
<1>. QED BY <1>1, <1>2, <1>3, <1>4 DEF TypeOK

LEMMA FailsType ==
    ASSUME TypeOK, NEW n, n \in {MaxFaults, faults + 1}, Fails(n)
    PROVE  changes' = changes /\ faults' \in 0 .. MaxFaults
BY BoundAssumption DEF TypeOK, Fails

LEMMA ReturnType ==
    ASSUME TypeOK, NEW w \in Writers, Return(w)
    PROVE  /\ pc' \in [Writers -> {"idle", "get", "fill", "set", "write", "publish"}]
           /\ part' \in [Writers -> Parts]
           /\ acked' \in 0 .. MaxChanges
           /\ request' = request /\ draft' = draft
<1>1. pc' \in [Writers -> {"idle", "get", "fill", "set", "write", "publish"}]
  BY DEF TypeOK, Return, Goto
<1>2. part' \in [Writers -> Parts]
  BY DEF TypeOK, Return, Parts, Lists
<1>3. acked' \in 0 .. MaxChanges
  BY DEF TypeOK, Return
<1>. QED BY <1>1, <1>2, <1>3 DEF Return

(* The start of the process.                                               *)
LEMMA StartType == TypeOK /\ Start => TypeOK'
<1>. SUFFICES ASSUME TypeOK, Start PROVE TypeOK'
  OBVIOUS
<1>. USE EmptyIsConfig, GoodIsConfig, LiveOf, FailsType
<1>1. CASE LoadMain
  BY <1>1 DEF LoadMain, TypeOK, writers, bounds, File
<1>2. CASE LoadUnreadable
  BY <1>2 DEF LoadUnreadable, TypeOK, writers, files, File
<1>3. CASE LoadBackup
  BY <1>3 DEF LoadBackup, TypeOK, writers, bounds, files, File
<1>4. CASE Restore
  BY <1>4 DEF Restore, TypeOK, writers, bounds, File
<1>5. CASE Defaults
  BY <1>5 DEF Defaults, TypeOK, writers, bounds, File
<1>. QED BY <1>1, <1>2, <1>3, <1>4, <1>5 DEF Start

(* A save, from the copy to the publication.                               *)
LEMMA SaveType ==
    ASSUME TypeOK, NEW w \in Writers, Save(w)
    PROVE  TypeOK'
<1>1. CASE Get(w)
  BY <1>1 DEF Get, Goto, TypeOK, files, bounds
<1>2. CASE Fill(w)
  <2>. DEFINE n == IF part[w] = "settings" THEN request[w] ELSE live[part[w]]
  <2>1. n \in 0 .. MaxChanges /\ draft[w] \in Config /\ part[w] \in Parts
    BY DEF TypeOK, Parts
  <2>2. [draft[w] EXCEPT ![part[w]] = n] \in Config
    BY <2>1, Filled
  <2>3. draft' = [draft EXCEPT ![w] = [draft[w] EXCEPT ![part[w]] = n]]
    BY <1>2 DEF Fill, TypeOK
  <2>4. draft' \in [Writers -> Config]
    BY <2>2, <2>3 DEF TypeOK
  <2>5. pc' \in [Writers -> {"idle", "get", "fill", "set", "write", "publish"}]
    BY <1>2 DEF Fill, Goto, TypeOK
  <2>. QED BY <1>2, <2>4, <2>5 DEF Fill, TypeOK, files, bounds
<1>3. CASE Set(w)
  BY <1>3 DEF Set, Goto, TypeOK, files, bounds
<1>4. CASE Rotate(w)
  BY <1>4 DEF Rotate, Goto, TypeOK, bounds, File
<1>5. CASE WriteFails(w)
  BY <1>5, ReturnType, FailsType DEF WriteFails, TypeOK, files
<1>6. CASE Publish(w)
  <2>1. changes' = changes /\ faults' \in 0 .. MaxFaults
    BY <1>6, FailsType DEF Publish, TypeOK, bounds
  <2>2. main' \in File /\ published' \in Config
    BY <1>6 DEF Publish, TypeOK, File
  <2>. QED BY <1>6, <2>1, <2>2, ReturnType DEF Publish, TypeOK
<1>. QED BY <1>1, <1>2, <1>3, <1>4, <1>5, <1>6 DEF Save

LEMMA EditType ==
    ASSUME TypeOK, NEW w \in Handlers, NEW p \in Parts, Edit(w, p)
    PROVE  TypeOK'
<1>1. changes + 1 \in 0 .. MaxChanges /\ w \in Writers
  BY BoundAssumption DEF TypeOK, Edit, Writers
<1>2. live' \in [Lists -> 0 .. MaxChanges] /\ request' \in [Writers -> 0 .. MaxChanges]
  BY <1>1 DEF TypeOK, Edit
<1>3. /\ pc' \in [Writers -> {"idle", "get", "fill", "set", "write", "publish"}]
      /\ part' \in [Writers -> Parts]
  BY DEF TypeOK, Edit, Goto
<1>. QED BY <1>1, <1>2, <1>3 DEF TypeOK, Edit, files

LEMMA RestType == TypeOK /\ (Tick \/ Crash \/ Corrupt) => TypeOK'
<1>. SUFFICES ASSUME TypeOK, Tick \/ Crash \/ Corrupt PROVE TypeOK'
  OBVIOUS
<1>1. CASE Tick
  BY <1>1 DEF Tick, Goto, TypeOK, files, bounds, Parts, Lists
<1>2. CASE Crash
  <2>1. /\ memory' \in Config /\ draft' \in [Writers -> Config]
        /\ request' \in [Writers -> 0 .. MaxChanges] /\ live' \in [Lists -> 0 .. MaxChanges]
    BY <1>2, EmptyIsConfig, BoundAssumption DEF Crash
  <2>2. part' \in [Writers -> Parts]
    BY <1>2 DEF Crash, Parts, Lists
  <2>. QED BY <1>2, <2>1, <2>2 DEF Crash, TypeOK, files
<1>3. CASE Corrupt
  BY <1>3, EmptyIsConfig, GoodIsConfig DEF Corrupt, TypeOK, writers, File
<1>. QED BY <1>1, <1>2, <1>3

LEMMA NextType == TypeOK /\ [Next]_vars => TypeOK'
<1>1. TypeOK /\ UNCHANGED vars => TypeOK'
  BY DEF TypeOK, vars, files, writers, bounds
<1>. QED BY <1>1, StartType, SaveType, EditType, RestType DEF Next

(* Every configuration written, kept or handed out is one.                 *)
THEOREM ConfigTypeCorrect == Spec => []TypeOK
<1>. QED BY InitType, NextType, PTL DEF Spec

-----------------------------------------------------------------------------
(* No writer runs before the start is over.                                *)
WritersWait == up # "running" => \A w \in Writers : pc[w] = "idle"

(* An undecodable main file beside a good backup is dealt with before the  *)
(* process runs; when it could not be moved, nothing else fails.           *)
BadDealtWith ==
    main = Bad /\ Good(bak)
        => up = "off" \/ (up \in {"backup", "restore"} /\ faults = MaxFaults)

StoreInv == TypeOK /\ WritersWait /\ BadDealtWith /\ StartFindsPublished

LEMMA InitStore == Init => StoreInv
<1>. SUFFICES ASSUME Init PROVE StoreInv
  OBVIOUS
<1>1. WritersWait
  BY DEF Init, AtRest, WritersWait
<1>2. BadDealtWith /\ StartFindsPublished
  BY FilesAreTold DEF Init, BadDealtWith, StartFindsPublished, Stored, Good, NotConfig
<1>. QED BY <1>1, <1>2, InitType DEF StoreInv

LEMMA NextWait == StoreInv /\ [Next]_vars => WritersWait'
<1>. SUFFICES ASSUME StoreInv, [Next]_vars PROVE WritersWait'
  OBVIOUS
<1>1. CASE Start
  BY <1>1 DEF Start, LoadMain, LoadUnreadable, LoadBackup, Restore, Defaults, writers,
              StoreInv, WritersWait
<1>2. ASSUME NEW w \in Writers, Save(w) PROVE WritersWait'
  <2>1. pc[w] # "idle" /\ up' = up
    BY <1>2 DEF Save, Get, Fill, Set, Rotate, WriteFails, Publish
  <2>. QED BY <2>1 DEF StoreInv, WritersWait
<1>3. ASSUME NEW w \in Handlers, NEW p \in Parts, Edit(w, p) PROVE WritersWait'
  BY <1>3 DEF Edit, WritersWait
<1>4. CASE Tick
  BY <1>4 DEF Tick, WritersWait
<1>5. CASE Crash
  BY <1>5 DEF Crash, WritersWait
<1>6. CASE Corrupt
  BY <1>6 DEF Corrupt, writers, StoreInv, WritersWait
<1>7. CASE UNCHANGED vars
  BY <1>7 DEF vars, writers, StoreInv, WritersWait
<1>. QED BY <1>1, <1>2, <1>3, <1>4, <1>5, <1>6, <1>7 DEF Next

(* The start: a bad main file is moved, or spends what may fail.           *)
LEMMA StartStore ==
    ASSUME StoreInv, Start
    PROVE  BadDealtWith' /\ StartFindsPublished'
<1>. USE FilesAreTold DEF NotConfig, StoreInv, Good
<1>1. memory \in Config /\ memory # None /\ memory # Bad
  BY DEF TypeOK
<1>2. CASE LoadMain
  BY <1>2 DEF LoadMain, Fails, bounds, BadDealtWith, StartFindsPublished, Stored
<1>3. CASE LoadUnreadable
  BY <1>3 DEF LoadUnreadable, files, BadDealtWith, StartFindsPublished, Stored
<1>4. CASE LoadBackup
  BY <1>4 DEF LoadBackup, files, bounds, BadDealtWith, StartFindsPublished, Stored
<1>5. CASE Restore
  <2>1. faults < MaxFaults => faults # MaxFaults
    BY BoundAssumption DEF TypeOK
  <2>. QED BY <1>1, <1>5, <2>1 DEF Restore, Fails, bounds, BadDealtWith, StartFindsPublished,
                                  Stored
<1>6. CASE Defaults
  BY <1>1, <1>6 DEF Defaults, Fails, bounds, BadDealtWith, StartFindsPublished, Stored
<1>. QED BY <1>2, <1>3, <1>4, <1>5, <1>6 DEF Start

(* A save: the renames keep what a start would find, or replace it whole.  *)
LEMMA SaveStore ==
    ASSUME StoreInv, NEW w \in Writers, Save(w)
    PROVE  BadDealtWith' /\ StartFindsPublished'
<1>. USE FilesAreTold DEF NotConfig, StoreInv, Good
<1>1. up = "running"
  BY DEF Save, Get, Fill, Set, Rotate, WriteFails, Publish, WritersWait
<1>2. ~(main = Bad /\ Good(bak))
  BY <1>1 DEF BadDealtWith
<1>3. CASE Get(w) \/ Fill(w) \/ Set(w)
  BY <1>3 DEF Get, Fill, Set, files, bounds, BadDealtWith, StartFindsPublished, Stored
<1>4. CASE WriteFails(w)
  BY <1>2, <1>4 DEF WriteFails, files, BadDealtWith, StartFindsPublished, Stored
<1>5. CASE Rotate(w)
  BY <1>2, <1>5 DEF Rotate, BadDealtWith, StartFindsPublished, Stored
<1>6. CASE Publish(w)
  <2>1. draft[w] # None /\ draft[w] # Bad
    BY DEF TypeOK
  <2>. QED BY <1>2, <1>6, <2>1 DEF Publish, BadDealtWith, StartFindsPublished, Stored
<1>. QED BY <1>3, <1>4, <1>5, <1>6 DEF Save

LEMMA NextStore == StoreInv /\ [Next]_vars => StoreInv'
<1>. SUFFICES ASSUME StoreInv, [Next]_vars PROVE BadDealtWith' /\ StartFindsPublished'
  BY NextType, NextWait DEF StoreInv
<1>1. ASSUME NEW w \in Handlers, NEW p \in Parts, Edit(w, p)
      PROVE  BadDealtWith' /\ StartFindsPublished'
  BY <1>1 DEF Edit, files, StoreInv, BadDealtWith, StartFindsPublished, Stored, Good
<1>2. CASE Tick
  BY <1>2 DEF Tick, files, bounds, StoreInv, BadDealtWith, StartFindsPublished, Stored, Good
<1>3. CASE Crash
  BY <1>3 DEF Crash, files, StoreInv, BadDealtWith, StartFindsPublished, Stored, Good
<1>4. CASE Corrupt
  BY <1>4, FilesAreTold DEF Corrupt, StoreInv, BadDealtWith, StartFindsPublished, Stored, Good,
                            NotConfig
<1>5. CASE UNCHANGED vars
  BY <1>5 DEF vars, files, bounds, StoreInv, BadDealtWith, StartFindsPublished, Stored, Good
<1>. QED BY <1>1, <1>2, <1>3, <1>4, <1>5, StartStore, SaveStore DEF Next

(***************************************************************************)
(* A start, whenever it comes, finds the configuration published last, and *)
(* after a corruption the one kept before it (writeFileAtomic,             *)
(* replaceFile and load).                                                  *)
(***************************************************************************)
THEOREM ConfigStartFindsPublished == Spec => []StartFindsPublished
<1>1. Spec => []StoreInv
  BY InitStore, NextStore, PTL DEF Spec
<1>2. StoreInv => StartFindsPublished
  BY DEF StoreInv
<1>. QED BY <1>1, <1>2, PTL
=============================================================================
