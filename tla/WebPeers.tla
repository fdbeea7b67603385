-------------------------------- MODULE WebPeers --------------------------------
(***************************************************************************)
(* The allowlist of a hub and the page that edits it                       *)
(* (pages/tunnel-peers-page.ts): every notification of the store loads the *)
(* rows anew while one of them is edited, deleted or saved; a save sends   *)
(* the whole list, with an address only for a row whose address was typed, *)
(* and the daemon keeps or allocates the others (api/tunnel_handler.go).   *)
(***************************************************************************)
EXTENDS WebLists, SequencesExt

CONSTANTS
  PeerKeys,              \* the keys of the spokes
  MaxPeerActs            \* bound: what users, other clients and spokes do

ASSUME PeersAssumption == MaxPeerActs \in Nat /\ IsFiniteSet(PeerKeys) /\ Cardinality(PeerKeys) >= 2

VARIABLES
  hub,                   \* the daemon's rows, in order
  known,                 \* the rows the store has
  knocks,                \* keys that knocked and are on no list
  peersPage,             \* the page
  puts,                  \* saves under way
  peerActs

peers == <<hub, known, knocks, peersPage, puts, peerActs>>

Addresses == 1..Cardinality(PeerKeys) + 1
NoKey == "no key"
PeerRow(key, ip, off, lan) ==
  [key |-> key, ip |-> ip, disabled |-> off, lan |-> lan, ipTouched |-> FALSE, lanTouched |-> FALSE]
Blank(key) == PeerRow(key, 0, FALSE, FALSE)
KeysOf(rows) == {rows[i].key : i \in DOMAIN rows}
RowFor(rows, key) == Pick(rows, {i \in DOMAIN rows : rows[i].key = key})

PeerAct == peerActs < MaxPeerActs /\ peerActs' = peerActs + 1

---------------------------------------------------------------------------
(* The daemon.                                                             *)

(* Mutant: every row states the address the page has read *)
MentionAll(row) == [touched |-> TRUE, ip |-> row.ip]

\* settlePeerIPs: a row that does not mention its address keeps the one it has
Mention(row) == [touched |-> row.ipTouched, ip |-> row.ip]
Settle(row) ==
  LET old == RowFor(hub, row.key)
      ip  == IF Mention(row).touched THEN Mention(row).ip ELSE IF old = <<>> THEN 0 ELSE old[1].ip
  IN  [row EXCEPT !.ip = ip, !.ipTouched = FALSE, !.lanTouched = FALSE]

\* lanAllowOf: a row that may claim nothing, and always did, is not mentioned
Allowance(row) == IF row.lanTouched \/ row.lan THEN row.lan ELSE FALSE

\* AllocatePeerIPs: two rows never share an address, and a blank one gets a free one
Named(rows) == {rows[i].ip : i \in DOMAIN rows} \ {0}
Conflict(rows) == \E i, j \in DOMAIN rows : i # j /\ rows[i].ip = rows[j].ip /\ rows[i].ip # 0
Allocate(rows) ==
  LET blanks == {i \in DOMAIN rows : rows[i].ip = 0}
  IN  [i \in DOMAIN rows |->
         IF i \notin blanks THEN rows[i]
         ELSE [rows[i] EXCEPT !.ip = Kth(Addresses \ Named(rows), Cardinality(Upto(blanks, i)))]]

Applied(rows) == [i \in DOMAIN rows |-> Settle([rows[i] EXCEPT !.lan = Allowance(rows[i])])]
Acceptable(rows) == IsInjective([i \in DOMAIN rows |-> rows[i].key]) /\ ~Conflict(Applied(rows))

---------------------------------------------------------------------------
(* The page.                                                               *)

ClosedPeersPage(rows) ==
  [rows |-> rows, editing |-> "none", at |-> 0, draft |-> Blank(NoKey), typed |-> FALSE, confirm |-> 0,
   saving |-> FALSE, pending |-> {}]

\* _load, on every notification
LoadRows(p, rows) == [p EXCEPT !.rows = rows]
\* the list is fetched, or the statistics came
StoreNotifies ==
  /\ PeerAct /\ known' \in {known, hub} /\ peersPage' = LoadRows(peersPage, known')
  /\ UNCHANGED <<hub, knocks, puts>>
PendingAnswered ==
  /\ peersPage' = [peersPage EXCEPT !.pending = knocks] /\ UNCHANGED <<hub, known, knocks, puts, peerActs>>

Edit(i, draft) ==
  peersPage' = [peersPage EXCEPT !.editing = "row", !.at = i, !.draft = draft, !.typed = FALSE]
Idle == UNCHANGED <<hub, known, knocks, puts>>
CanEdit(i) == i \in DOMAIN peersPage.rows /\ peersPage.confirm = 0 /\ ~(peersPage.editing = "row" /\ peersPage.at = i)
StartEdit(i) ==
  CanEdit(i) /\ Edit(i, [peersPage.rows[i] EXCEPT !.ipTouched = FALSE, !.lanTouched = FALSE]) /\ Idle /\ UNCHANGED peerActs
\* a claim that is refused for want of a row is offered to be allowed
AllowRefused(i) ==
  /\ CanEdit(i) /\ ~peersPage.saving /\ ~peersPage.rows[i].lan
  /\ Edit(i, [peersPage.rows[i] EXCEPT !.lan = TRUE, !.lanTouched = TRUE]) /\ Idle /\ UNCHANGED peerActs
StartAdd ==
  /\ peersPage.editing = "none" /\ peersPage.confirm = 0
  /\ peersPage' = [peersPage EXCEPT !.editing = "new", !.at = 0, !.draft = Blank(NoKey), !.typed = FALSE]
  /\ Idle /\ UNCHANGED peerActs
CloseEditor(p) == [p EXCEPT !.editing = "none", !.at = 0]
CancelEdit == peersPage.editing # "none" /\ peersPage' = CloseEditor(peersPage) /\ Idle /\ UNCHANGED peerActs

TypeKey(key) ==
  /\ peersPage.editing # "none" /\ PeerAct /\ peersPage' = [peersPage EXCEPT !.draft.key = key] /\ Idle
TypeIP(ip) ==
  /\ peersPage.editing # "none" /\ PeerAct /\ Idle
  /\ peersPage' = [peersPage EXCEPT !.draft.ip = ip, !.draft.ipTouched = TRUE, !.typed = TRUE]
TypeLAN(lan) ==
  /\ peersPage.editing # "none" /\ PeerAct /\ Idle
  /\ peersPage' = [peersPage EXCEPT !.draft.lan = lan, !.draft.lanTouched = TRUE]

\* _save: one at a time
Put(rows, next, typed) == [rows |-> rows, next |-> next, typed |-> typed, at |-> "wire", ans |-> <<>>]
Save(p, rows, next, typed) ==
  /\ ~p.saving /\ peersPage' = [p EXCEPT !.saving = TRUE]
  /\ puts' = puts \union {Put(rows, next, typed)} /\ UNCHANGED <<hub, known, knocks>>

ToggleRow(i) ==
  /\ PeerAct /\ peersPage.confirm = 0 /\ i \in DOMAIN peersPage.rows
  /\ Save(peersPage, [peersPage.rows EXCEPT ![i].disabled = ~@], "none", {})
\* the strangers that knocked, above the list
Knocking(key) == peersPage.confirm = 0 /\ key \in peersPage.pending
AddPending(key) ==
  /\ PeerAct /\ Knocking(key)
  /\ Save(peersPage, Append(peersPage.rows, Blank(key)), key, {})
DismissPending(key) ==
  /\ PeerAct /\ Knocking(key)
  /\ knocks' = knocks \ {key} /\ peersPage' = [peersPage EXCEPT !.pending = @ \ {key}]
  /\ UNCHANGED <<hub, known, puts>>

Others == Pick(peersPage.rows, DOMAIN peersPage.rows \ IF peersPage.editing = "row" THEN {peersPage.at} ELSE {})
SaveRow ==
  /\ PeerAct /\ peersPage.editing # "none"
  /\ peersPage.draft.key # NoKey /\ peersPage.draft.key \notin KeysOf(Others)
  /\ LET d == peersPage.draft
         next == IF peersPage.editing = "new" THEN Append(peersPage.rows, d)
                 ELSE [i \in DOMAIN peersPage.rows |-> IF i = peersPage.at THEN d ELSE peersPage.rows[i]]
     IN  Save(peersPage, next, "editor", IF peersPage.typed THEN {d.key} ELSE {})

AskDelete(i) ==
  /\ CanEdit(i) /\ peersPage' = [peersPage EXCEPT !.confirm = i] /\ Idle /\ UNCHANGED peerActs
CancelDelete ==
  /\ peersPage.confirm # 0 /\ peersPage' = [peersPage EXCEPT !.confirm = 0] /\ Idle /\ UNCHANGED peerActs
DeleteRow ==
  /\ PeerAct /\ peersPage.confirm # 0
  /\ Save([peersPage EXCEPT !.confirm = 0],
          Pick(peersPage.rows, DOMAIN peersPage.rows \ {peersPage.confirm}), "none", {})

---------------------------------------------------------------------------
(* What becomes of a save.                                                 *)

PutServed(c) ==
  /\ c.at \in {"wire", "orphan"} /\ Acceptable(c.rows)
  /\ hub' = Allocate(Applied(c.rows)) /\ knocks' = knocks \ KeysOf(hub')
  /\ puts' = (puts \ {c}) \union IF c.at = "wire" THEN {[c EXCEPT !.at = "answered", !.ans = hub']} ELSE {}
  /\ UNCHANGED <<known, peersPage, peerActs>>
\* updatePeers notifies, then _save takes the answer
PutReturns(c) ==
  /\ c.at = "answered" /\ puts' = puts \ {c} /\ known' = c.ans
  /\ LET p == [LoadRows(peersPage, c.ans) EXCEPT !.saving = FALSE]
     IN  \/ c.next = "editor" /\ peersPage' = CloseEditor(p)
         \/ c.next \in PeerKeys /\ peersPage' = [p EXCEPT !.pending = @ \ {c.next}]
         \/ c.next = "none" /\ peersPage' = p
  /\ UNCHANGED <<hub, knocks, peerActs>>
\* refused, or given up after 8 s: the daemon may be served with it all the same
PutFails(c) ==
  /\ c.at # "orphan" /\ peersPage' = [peersPage EXCEPT !.saving = FALSE]
  /\ puts' = (puts \ {c}) \union IF c.at = "wire" THEN {[c EXCEPT !.at = "orphan", !.next = "none"]} ELSE {}
  /\ UNCHANGED <<hub, known, knocks, peerActs>>
PutLost(c) == c.at = "orphan" /\ puts' = puts \ {c} /\ UNCHANGED <<hub, known, knocks, peersPage, peerActs>>

\* another client takes a spoke off the list, or gives it another address
OtherOperator ==
  /\ PeerAct /\ \E i \in DOMAIN hub :
       \/ hub' = Pick(hub, {j \in DOMAIN hub : hub[j].key # hub[i].key})
       \/ \E a \in Addresses \ Named(hub) : hub' = [hub EXCEPT ![i].ip = a]
  /\ UNCHANGED <<known, knocks, peersPage, puts>>
Knock ==
  /\ PeerAct /\ \E key \in PeerKeys \ (KeysOf(hub) \union knocks) : knocks' = knocks \union {key}
  /\ UNCHANGED <<hub, known, peersPage, puts>>

---------------------------------------------------------------------------
Listed == SetToSeq(PeerKeys)
PeersInit ==
  /\ hub = [i \in 1..2 |-> PeerRow(Listed[i], i, FALSE, i = 1)] /\ known = hub /\ knocks = {}
  /\ peersPage = ClosedPeersPage(hub) /\ puts = {} /\ peerActs = 0

OnRow(i) == StartEdit(i) \/ AllowRefused(i) \/ ToggleRow(i) \/ AskDelete(i)
OnPut(c) == PutServed(c) \/ PutReturns(c) \/ PutFails(c) \/ PutLost(c)
PeersNext ==
  \/ StoreNotifies \/ PendingAnswered \/ StartAdd \/ CancelEdit \/ SaveRow \/ CancelDelete \/ DeleteRow
  \/ OtherOperator \/ Knock
  \/ \E i \in 1..3 : OnRow(i)
  \/ \E key \in PeerKeys : TypeKey(key) \/ AddPending(key) \/ DismissPending(key)
  \/ \E ip \in {0, 3} : TypeIP(ip)
  \/ \E lan \in BOOLEAN : TypeLAN(lan)
  \/ \E c \in puts : OnPut(c)
PeersSpec == PeersInit /\ [][PeersNext]_peers

(* A save leaves every spoke that stays on the list at the address it has,  *)
(* unless its own address was typed into the editor that was saved: not the *)
(* one the page has read, which may be stale, and not a new one             *)
(* (tunnel-peers-page.ts _save, tunnel_handler.go settlePeerIPs).           *)
AddressKept ==
  [][\A c \in puts : PutServed(c) =>
       \A i \in DOMAIN hub, j \in DOMAIN hub' :
         hub[i].key = hub'[j].key /\ hub[i].key \notin c.typed => hub[i].ip = hub'[j].ip]_peers
=============================================================================
