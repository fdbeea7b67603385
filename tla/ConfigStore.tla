---------------------------- MODULE ConfigStore ----------------------------
(***************************************************************************)
(* The persisted configuration (src/config/config.go), its writers (the    *)
(* SaveConfig of tunnels and of entrypoints, the settings handler, the     *)
(* stats task) and the start of the process that reads it back.            *)
(*                                                                         *)
(* A configuration is what its parts hold, a part the number of the change *)
(* that wrote it.  A writer copies the configuration in memory, fills in   *)
(* its own part and stores the copy, without a lock over the three; the    *)
(* file is then replaced in two renames under writeMu.  The process may    *)
(* die between any two steps, and a file operation may fail.               *)
(***************************************************************************)
EXTENDS Integers, Sequences

CONSTANTS
    Handlers,       \* API requests in flight together
    Stats,          \* the stats task
    None,           \* no file
    Bad,            \* a file that does not decode
    MaxChanges,     \* bound: edits by the user
    MaxCrashes,     \* bound: ends of the process
    MaxFaults,      \* bound: file operations that fail
    MaxCorrupt,     \* bound: main files left undecodable by a power loss
    MaxUnreadable   \* bound: files that cannot be read at a start

ASSUME WriterAssumption == Stats \notin Handlers

ASSUME BoundAssumption ==
    {MaxChanges, MaxCrashes, MaxFaults, MaxCorrupt, MaxUnreadable} \subseteq Nat

Lists  == {"tunnels", "entrypoints"}
Parts  == Lists \cup {"settings"}
Config == [Parts -> 0 .. MaxChanges]
Empty  == [p \in Parts |-> 0]

ASSUME FileAssumption == None # Bad /\ {None, Bad} \cap Config = {}

Writers == Handlers \cup {Stats}

VARIABLES
    main, bak,      \* wisper.yaml and wisper.yaml.bak
    memory,         \* the package's current configuration
    live,           \* what the running tunnels and entrypoints are
    up,             \* where the process is in its start, "running" after it
    pc,             \* where each writer is
    part,           \* the part it saves
    request,        \* the change it was asked to save
    draft,          \* its copy of the configuration
    lock,           \* writeMu
    published,      \* history: the configuration last renamed into place
    acked,          \* history: the newest settings a handler answered for
    unread,         \* history: the file a start could not read, and when
    changes, crashes, faults, corruptions, unreadable   \* bounds spent

files   == <<main, bak, published>>
writers == <<pc, part, request, draft, lock>>
bounds  == <<changes, crashes, faults, corruptions, unreadable>>
vars    == <<files, memory, live, up, writers, acked, unread, bounds>>

Good(f) == f \notin {None, Bad}

(* What a start makes of two files it can read.                            *)
Stored == IF Good(main) THEN main ELSE IF Good(bak) THEN bak ELSE Empty

AtRest ==
    /\ pc = [w \in Writers |-> "idle"]
    /\ part = [w \in Writers |-> "tunnels"]
    /\ request = [w \in Writers |-> 0]
    /\ draft = [w \in Writers |-> Empty]
    /\ lock = None

Init ==
    /\ main = None /\ bak = None /\ published = Empty
    /\ memory = Empty
    /\ live = [p \in Lists |-> 0]
    /\ up = "off"
    /\ AtRest
    /\ acked = 0 /\ unread = None
    /\ changes = 0 /\ crashes = 0 /\ faults = 0 /\ corruptions = 0 /\ unreadable = 0

-----------------------------------------------------------------------------
(***************************************************************************)
(* A file operation may fail.  A corrupt file that cannot be moved aside   *)
(* spends every failure left: with a second one in the same start the next *)
(* save would rotate that file over the good backup.                       *)
(***************************************************************************)
Fails(n) ==
    /\ faults < MaxFaults
    /\ faults' = n
    /\ UNCHANGED <<changes, crashes, corruptions, unreadable>>

(* load: the main file, or the reason to look at the backup.               *)
LoadMain ==
    /\ up = "off"
    /\ \/ /\ Good(main)
          /\ memory' = main
          /\ live' = [p \in Lists |-> main[p]]
          /\ up' = "running"
          /\ UNCHANGED <<main, bounds>>
       \/ /\ main = None
          /\ up' = "backup"
          /\ UNCHANGED <<main, memory, live, bounds>>
       \/ /\ main = Bad
          /\ \/ main' = None /\ UNCHANGED bounds
             \/ Fails(MaxFaults) /\ UNCHANGED main
          /\ up' = "backup"
          /\ UNCHANGED <<memory, live>>
    /\ UNCHANGED <<bak, published, writers, acked, unread>>

(* A file that is there and cannot be read leaves an empty configuration;  *)
(* nothing else is wrong with the files of such a start.                   *)
LoadUnreadable ==
    /\ unreadable < MaxUnreadable
    /\ unreadable' = unreadable + 1
    /\ \/ up = "off" /\ Good(main) /\ unread' = [file |-> main, at |-> changes]
       \/ up = "backup" /\ main = None /\ Good(bak) /\ unread' = [file |-> bak, at |-> changes]
    /\ memory' = Empty
    /\ up' = "defaults"
    /\ UNCHANGED <<files, live, writers, acked, changes, crashes, faults, corruptions>>

(* Mutant: whatever the backup holds is taken for a configuration.         *)
LoadBackupUnchecked ==
    /\ up = "backup"
    /\ memory' = bak /\ up' = "restore"
    /\ UNCHANGED <<files, live, writers, acked, unread, bounds>>

LoadBackup ==
    /\ up = "backup"
    /\ IF Good(bak)
       THEN memory' = bak /\ up' = "restore"
       ELSE memory' = Empty /\ up' = "defaults"
    /\ UNCHANGED <<files, live, writers, acked, unread, bounds>>

(* write(false): the backup is published and kept.                         *)
Restore ==
    /\ up = "restore"
    /\ \/ main' = memory /\ published' = memory /\ UNCHANGED bounds
       \/ Fails(faults + 1) /\ UNCHANGED <<main, published>>
    /\ live' = [p \in Lists |-> memory[p]]
    /\ up' = "running"
    /\ UNCHANGED <<bak, memory, writers, acked, unread>>

(* Init writes the defaults where there is no main file.                   *)
Defaults ==
    /\ up = "defaults"
    /\ \/ main = None /\ main' = memory /\ published' = memory /\ UNCHANGED bounds
       \/ main = None /\ Fails(faults + 1) /\ UNCHANGED <<main, published>>
       \/ main # None /\ UNCHANGED <<main, published, bounds>>
    /\ live' = [p \in Lists |-> memory[p]]
    /\ up' = "running"
    /\ UNCHANGED <<bak, memory, writers, acked, unread>>

Start == LoadMain \/ LoadUnreadable \/ LoadBackup \/ Restore \/ Defaults

-----------------------------------------------------------------------------
Goto(w, l) == pc' = [pc EXCEPT ![w] = l]

(* A request changes its object, or carries new settings, and saves.       *)
Edit(w, p) ==
    /\ up = "running"
    /\ pc[w] = "idle"
    /\ changes < MaxChanges
    /\ changes' = changes + 1
    /\ request' = [request EXCEPT ![w] = changes + 1]
    /\ part' = [part EXCEPT ![w] = p]
    /\ live' = IF p \in Lists THEN [live EXCEPT ![p] = changes + 1] ELSE live
    /\ Goto(w, "get")
    /\ UNCHANGED <<files, memory, up, draft, lock, acked, unread, crashes, faults,
                   corruptions, unreadable>>

(* The stats task saves the tunnels and then the entrypoints, as Stop does. *)
Tick ==
    /\ up = "running"
    /\ pc[Stats] = "idle"
    /\ part' = [part EXCEPT ![Stats] = "tunnels"]
    /\ Goto(Stats, "get")
    /\ UNCHANGED <<files, memory, live, up, request, draft, lock, acked, unread, bounds>>

Get(w) ==
    /\ pc[w] = "get"
    /\ draft' = [draft EXCEPT ![w] = memory]
    /\ Goto(w, "fill")
    /\ UNCHANGED <<files, memory, live, up, part, request, lock, acked, unread, bounds>>

(* Mutant: the objects are taken from the last save.                       *)
FillFromCopy(w) ==
    /\ pc[w] = "fill"
    /\ draft' = IF part[w] = "settings" THEN [draft EXCEPT ![w]["settings"] = request[w]]
                ELSE draft
    /\ Goto(w, "set")
    /\ UNCHANGED <<files, memory, live, up, part, request, lock, acked, unread, bounds>>

Fill(w) ==
    /\ pc[w] = "fill"
    /\ draft' = [draft EXCEPT ![w][part[w]] =
                    IF part[w] = "settings" THEN request[w] ELSE live[part[w]]]
    /\ Goto(w, "set")
    /\ UNCHANGED <<files, memory, live, up, part, request, lock, acked, unread, bounds>>

Set(w) ==
    /\ pc[w] = "set"
    /\ memory' = draft[w]
    /\ Goto(w, "write")
    /\ UNCHANGED <<files, live, up, part, request, draft, lock, acked, unread, bounds>>

(* Where a writer goes when its write returned.                            *)
Return(w) ==
    /\ IF w = Stats /\ part[w] = "tunnels"
       THEN part' = [part EXCEPT ![w] = "entrypoints"] /\ Goto(w, "get")
       ELSE Goto(w, "idle") /\ UNCHANGED part
    /\ acked' = IF part[w] = "settings" /\ request[w] > acked THEN request[w] ELSE acked
    /\ UNCHANGED <<request, draft>>

(* Mutant: the main file is removed to make room for the new one.          *)
RemoveMain(w) ==
    /\ pc[w] = "write"
    /\ lock = None
    /\ lock' = w
    /\ main' = None
    /\ Goto(w, "publish")
    /\ UNCHANGED <<bak, published, memory, live, up, part, request, draft, acked, unread,
                   bounds>>

(***************************************************************************)
(* Under writeMu: the temp file is written, the main file becomes the      *)
(* backup, the temp file becomes the main file.  Whatever fails, the       *)
(* writer returns; every caller answers its request all the same.          *)
(***************************************************************************)
Rotate(w) ==
    /\ pc[w] = "write"
    /\ lock = None
    /\ lock' = w
    /\ IF main # None THEN bak' = main /\ main' = None ELSE UNCHANGED <<main, bak>>
    /\ Goto(w, "publish")
    /\ UNCHANGED <<published, memory, live, up, part, request, draft, acked, unread, bounds>>

WriteFails(w) ==
    /\ pc[w] = "write"
    /\ lock = None
    /\ Fails(faults + 1)
    /\ Return(w)
    /\ UNCHANGED <<files, memory, live, up, lock, unread>>

Publish(w) ==
    /\ pc[w] = "publish"
    /\ \/ main' = draft[w] /\ published' = draft[w] /\ UNCHANGED bounds
       \/ Fails(faults + 1) /\ UNCHANGED <<main, published>>
    /\ lock' = None
    /\ Return(w)
    /\ UNCHANGED <<bak, memory, live, up, unread>>

Save(w) ==
    Get(w) \/ Fill(w) \/ Set(w) \/ Rotate(w) \/ WriteFails(w) \/ Publish(w)

-----------------------------------------------------------------------------
(* The process ends: killed, powered off, or stopped after its last save.  *)
Crash ==
    /\ crashes < MaxCrashes
    /\ crashes' = crashes + 1
    /\ up' = "off"
    /\ pc' = [w \in Writers |-> "idle"]
    /\ part' = [w \in Writers |-> "tunnels"]
    /\ request' = [w \in Writers |-> 0]
    /\ draft' = [w \in Writers |-> Empty]
    /\ lock' = None
    /\ memory' = Empty
    /\ live' = [p \in Lists |-> 0]
    /\ UNCHANGED <<files, acked, unread, changes, faults, corruptions, unreadable>>

(* A power loss leaves the main file undecodable: its content is gone and  *)
(* the backup is what there is to restore.                                 *)
Corrupt ==
    /\ up = "off"
    /\ Good(main)
    /\ corruptions < MaxCorrupt
    /\ corruptions' = corruptions + 1
    /\ main' = Bad
    /\ published' = IF Good(bak) THEN bak ELSE Empty
    /\ UNCHANGED <<bak, memory, live, up, writers, acked, unread, changes, crashes, faults,
                   unreadable>>

Next ==
    \/ Start
    \/ \E w \in Writers : Save(w)
    \/ \E w \in Handlers, p \in Parts : Edit(w, p)
    \/ Tick \/ Crash \/ Corrupt

(* A started process goes on, requests are served and the ticker fires.    *)
Fairness ==
    /\ WF_vars(Start)
    /\ WF_vars(Tick)
    /\ \A w \in Writers : WF_vars(Save(w))

Spec == Init /\ [][Next]_vars /\ Fairness

-----------------------------------------------------------------------------
File == Config \cup {None, Bad}

TypeOK ==
    /\ main \in File /\ bak \in File /\ published \in Config
    /\ memory \in Config
    /\ live \in [Lists -> 0 .. MaxChanges]
    /\ up \in {"off", "backup", "restore", "defaults", "running"}
    /\ pc \in [Writers -> {"idle", "get", "fill", "set", "write", "publish"}]
    /\ part \in [Writers -> Parts]
    /\ request \in [Writers -> 0 .. MaxChanges]
    /\ draft \in [Writers -> Config]
    /\ lock \in Writers \cup {None}
    /\ acked \in 0 .. MaxChanges
    /\ unread \in [file : File, at : 0 .. MaxChanges] \cup {None}
    /\ changes \in 0 .. MaxChanges /\ faults \in 0 .. MaxFaults

(***************************************************************************)
(* "A crash/kill at any moment leaves either the previous config or the    *)
(* new one" and "the previous good config survives one bad write or bad    *)
(* load": a start, whenever it comes, finds the configuration last         *)
(* published, and after a corruption the one before it.                    *)
(***************************************************************************)
StartFindsPublished == Stored = published

(***************************************************************************)
(* What runs is what is saved, again and again: an older copy a slow       *)
(* writer published over a newer one is corrected by the stats task.       *)
(***************************************************************************)
ListsReachDisk == \A p \in Lists : []<>(up # "running" \/ Stored[p] = live[p])

(***************************************************************************)
(* "The previous good config survives one bad write or bad load (.bak)",   *)
(* docs/superpowers/specs/2026-10-28-config-durability-design.md:20,       *)
(* and "leave the file alone", src/config/config.go:500-502: a file that   *)
(* could not be read once is still there, as the main file or as the       *)
(* backup, while the user has changed nothing.                             *)
(***************************************************************************)
UnreadableSurvives ==
    unread # None /\ unread.at = changes => unread.file \in {main, bak}

(***************************************************************************)
(* "Structural changes (create, edit, delete, settings, graceful stop)     *)
(* still persist immediately", the same document: settings a handler has   *)
(* answered for, and that nobody changed since, are the current ones.      *)
(***************************************************************************)
SettingsKept ==
    up = "running" /\ (\A w \in Writers : pc[w] = "idle") => memory["settings"] >= acked
=============================================================================
