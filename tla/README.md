# wisper: a TLA+ model

wisper is a Go daemon (with web, desktop, Android and browser-extension front
ends) that publishes local services through tunnels and joins remote ones
through entrypoints. Two peers may talk directly: a *tun hub* gives remote
*spokes* an address on a virtual network and lets them share the LANs behind
them. A browser extension publishes services the same way without the daemon,
and a web interface drives the daemon. This directory holds specifications of the parts whose correctness
depends on the order in which things happen, the TLC configurations that check
them on small instances, and proofs of their safety properties for every
instance.

Paths below are those of the repository, with its root called `src/`.

## 1. Inventory

| Component | Sources | State it keeps | Operations | What is hard | What makes it correct |
|---|---|---|---|---|---|
| LAN routing table (RIB) | `tunnel/rib.go` | claims by prefix, injected routes, membership, policy, `rev` | ApplyClaims, SetAllow, SetMembers, AddStatic, Withdraw, Snapshot | claims, policy and expiry in any order | only approved routes, first claim wins, `rev` names the content |
| Control channel, hub side | `tunnel/ctrlhub.go`, `ctrl.go`, `tun_authorizer.go`, hub half of `tun.go` | a slot per spoke (queue, stream, last rev sent), published rev, the handler's table | dispatch, serve, apply, publish, sweep, Unregister, Close, saves | one goroutine per spoke, publishes that overlap, writes outside the lock, timeouts, redials | a spoke ends with the newest table and never goes back; no stream and no goroutine is forgotten |
| Control channel, spoke side | `tunnel/netview_router.go` | session, claim, installed view | dial, claim, refresh every 20 s, read, redial every second | a late or failed refresh, a torn frame, two live streams | the claim of a connected spoke does not lapse |
| Shared p2p host | `tunnel/p2p_host.go`, `p2p.go`, `entrypoint/direct.go` | the host, reference count, grace timer, routes of keys, identity | acquire, release, reconcile, reconcileMesh, unregister, reset | a timer that fired and waits for the mutex, partial start failures, preemption | one reference per holder, one consumer per key, no teardown in use |
| TUN hub set-up | `tunnel/tun.go`, `tunip.go`, `peerfilter.go`, `peerlist.go` | handler, service, device, assigned addresses | Run, Close, SetPeers, SetPeerIPs, SetNetRoutes | unwinding of a Run that fails half way | a failed start leaves nothing; saves reach filter, authorizer and table |
| Entrypoints and netview sync | `tunnel/entrypoint/*.go` | service, control channel, device routes, direct runtime | Run, Close, apply a netview, retry | Close between two steps of Run, device routes that fail | what a closed entrypoint started is stopped; device routes follow the view |
| Persisted configuration | `config/config.go`, saves in `tunnel/tunnel.go`, `entrypoint/entrypoint.go`, `runner/task/stats.go`, `api/config_handler.go` | the copy in memory; main, `.bak` and temporary file | Get, Set, Write, load | crash between two renames, a failed rename, writers that overlap | a start finds what was published last; the lists in memory reach the disk |
| Tunnel registry | `tunnel/tunnel.go`, `api/tunnel_handler.go`, `entrypoint_handler.go` | the ordered lists of tunnels and entrypoints | create, start, stop, update, delete, restart all | handlers that run at once, positions remembered across an unlock | one running object per entry, and it can be closed |
| Service tunnels | `tunnel/{file,http,tcp,udp}.go` | gost service, status | Run, Close | start-up errors | status follows the service |
| LAN share | `tunnel/natlan.go`, `nat_linux.go`, `share*.go` | firewall rules, user-space stack | apply, remove | partial application | removed in reverse, nothing left behind |
| Runner and tasks | `runner/*.go` | running tasks by id, event queue | Exec, Cancel, periodic loop | Exec of an id that runs | one loop per id |
| Event log | `event/event.go` | folded events, cap | Record, List, persist | repeats and the cap | newest events are kept |
| HTTP API and daemon | `api/`, `app.go`, `main.go`, `web.go`, `lib.go` | none of its own | decode, call, answer | handlers are concurrent | lands in the components above |
| Extension: smux session | `extension/lib/smux.js` | per stream: read queue, write chain, credit in both directions | read, write, close, closeForce, frames of the relay, end of the session | promises that wait for credit, a close behind writes, late credit | what `write` accepted arrives in order, the FIN last; credit is never lost |
| Extension: forwarder | `extension/lib/forwarder.js`, `ws-codec.js` | the handler of each stream, the map of open backend sockets, the decoder | read a request, fetch, pipe, upgrade, bridge, fail | backend and visitor fail at any await | one answer, a bridge ends at both ends, messages stay whole |
| Extension: host document | `extension/offscreen.js`, `lib/tunnel-connection.js`, `lib/relay.js` | a connection per tunnel, pending starts, timers | start, stop, edit, dial, bind, keepalive, reconnect | late events of a replaced socket | only a hosted tunnel is dialled; a hosted tunnel recovers |
| Extension: worker, popup, statistics | `extension/background.js`, `sidepanel.js`, `lib/tunnel-stats.js` | the stored list, badge, rules, cards and forms, counters | clicks, messages, alarm, storage changes, samples | three processes that each rewrite the list; a document that can be lost | tunnels come back; badge, cards and rates agree with what there is |
| Web interface: items, forms, home | `web-src/src/{api,store,router}`, `pages/{tunnel-detail,entrypoint-detail,home}-page.ts` | the list, requests under way, page, form, dialog, tab | load, type, save, start, stop, delete, reset, poll | late, lost and reordered answers; notifications while the user types | what is typed stays, a save changes only that, the interface is not held for ever |
| Web interface: peers, LAN requests | `pages/tunnel-peers-page.ts`, `utils/lan-refusal.ts`, `components/peer-stats-row.ts` | rows, the editor, knocking peers, refusals | edit, add, delete, approve, save | rows that are older than the daemon's | addresses stay, approvals are of what was asked |
| Web interface: settings, inspector, journals | `pages/{settings,inspector,events,entrypoint-peers}-page.ts`, `store/settings-store.ts` | fields, tests, reset dialog, feed, records, polled lists | save, test, reset, follow, query, clear, toggle | a mirrored validation, sockets and timers that are replaced, polls that overlap | the daemon takes what the page lets through; a live page has a feed; a stall is told |
| Desktop shell, Android | `src-tauri/`, `android/` | platform life cycle | | | |

How they interact. API handlers call the registry, which calls `Run` and
`Close` of a tunnel or entrypoint. P2p tunnels, hubs and direct runtimes hold
references on the one shared host, whose accept loop hands each inbound stream
to the listener its key is routed to. A hub diverts control streams to its
control hub, which owns the RIB, pushes snapshots (*netviews*) to the spokes
and installs the routes in the hub's own handler. A spoke claims the LANs it
shares and writes the view's routes to its device; a mesh entrypoint also gives
the view's members to its direct runtime, which claims their keys at the shared
host. Everybody saves through the configuration, and the stats task saves the
lists every ten seconds.

The extension has three processes: the popup and the service worker both rewrite
the stored list, the document hosts the connections and is started, stopped
and revived by the worker; a visitor's stream comes from the relay through
smux to the forwarder, which calls the local service. The web interface talks
to the HTTP API only; its pages subscribe to stores that requests and polls
refresh.

`PROJECT.json` lists the same components with their status, and 40 hazards,
each at the line where it bites, with the property that would catch it or the
reason there is none.

## 2. Modules

| Module | Models | Code |
|---|---|---|
| `RibTable` | the table as a value and its operations as operators | `rib.go` |
| `Rib` | the table with time: any operation at any moment, sweep and TTL | `rib.go`, the sweep in `ctrlhub.go` |
| `RibTableProofs` | lemmas about the operators of `RibTable`, which the next proof modules share | |
| `RibProofs` | proofs about `Rib` | |
| `ClaimRefresh` | the table driven by spokes that refresh, late or not at all, leave and return | `netview_router.go`, `ctrlhub.go` |
| `ClaimRefreshProofs` | proofs about `ClaimRefresh` | |
| `NetviewFeed` | abstract specification: the latest published table replaces what a spoke has | |
| `ControlHub` | the control hub's threads, slots and streams, the operations that call it, and the spokes | `ctrlhub.go`, `netview_router.go`, `tun.go`, `tun_authorizer.go` |
| `ControlHubProofs` | proofs about `ControlHub`, its step refinement of `NetviewFeed` among them | |
| `P2PHost` | the shared host and its holders | `p2p_host.go`, `p2p.go`, `tun.go`, `entrypoint/direct.go` |
| `P2PHostProofs` | proofs about `P2PHost` | |
| `ConfigStore` | the configuration in memory and on disk, all writers, crash and start | `config.go` and the savers |
| `ConfigProofs` | proofs about `ConfigStore` | |
| `ExtPipe` | abstract specification: one direction of a stream loses and reorders nothing it accepted | |
| `ExtSmux` | a stream of the extension's smux, both directions, and the relay's end | `lib/smux.js` |
| `ExtWs` | WebSocket frames, encoder and decoder | `lib/ws-codec.js` |
| `ExtForward` | what happens to a stream: request, fetch, answer, bridge | `lib/forwarder.js`, `lib/tunnel-connection.js` |
| `ExtRelay` | the relay protocol's requests and responses | `lib/relay.js` |
| `ExtDoc` | abstract specification: what the host document promises popup and worker | `offscreen.js` |
| `ExtHost` | the document and its connections | `offscreen.js`, `lib/tunnel-connection.js` |
| `ExtTunnels` | the stored list across popup, worker and document (by its promise) | `sidepanel.js`, `background.js` |
| `ExtPopup` | the page of the popup: settings, theme, cards, dialogs, form | `sidepanel.js` |
| `ExtStats` | counters, samples, resets | `lib/tunnel-stats.js`, `offscreen.js` |
| `ExtRules` | badge and leftover rewrite rules | `background.js` |
| `ExtApp` | composes the last four | |
| `ExtProofs` | proofs about `ExtApp`, `ExtForward`, `ExtHost` as `ExtDoc` and `ExtSmux` as `ExtPipe` | |
| `WebLists` | the list operations the next modules share, without recursion | array operations |
| `WebForm` | types, their options, forms and what a save sends | `api/types.ts`, detail pages |
| `WebPages` | requests, stores, what a page makes of a notification | `api/backend.ts`, `store/*.ts`, detail pages |
| `WebDetail` | the user on these pages: lists, views, forms, dialogs, the VPN device | detail pages, `utils/vpn.ts` |
| `WebHome` | tabs, cards, the panel, the way to a new item and back | `pages/home-page.ts`, `components/*.ts` |
| `WebPeers` | the allowlist editor against the daemon's allocation of addresses | `pages/tunnel-peers-page.ts` |
| `WebHub` | refusals: the journal, the banner, the rows, the approval | `utils/lan-refusal.ts`, `components/peer-stats-row.ts` |
| `WebSettings` | advanced settings, their two validations, the store, the identity's reset | `pages/settings-page.ts`, `store/settings-store.ts` |
| `WebProbes` | the tests of the settings page | `pages/settings-page.ts` |
| `WebInspector` | queries, the live feed, the panel of a record | `pages/inspector-page.ts`, `components/inspector/*.ts` |
| `WebJournal` | polled pages, the liveness watchdog and its banner | `pages/events-page.ts`, `entrypoint-peers-page.ts`, `runner/task/hub_liveness.go` |
| `WebApp` | composes the `Web` modules | `router/routes.ts` |
| `WebProofs` | proofs about `WebApp` | |
| `MC*` | constants for TLC | |

`RibTable` is shared: `Rib` and `ClaimRefresh` drive it in time, `ControlHub`
composes it with the channel, and `ControlHub` implements `NetviewFeed`
through a refinement mapping (`ImplementsFeed`).

### How state and actions correspond to the code

*RibTable, Rib.* The table is a record of the fields of `rib`; a prefix is an
opaque value, `Within[p]` the prefixes that contain it and `AddrsOf[p]` the
tun addresses inside it, which is all the code asks of a prefix. `ApplyClaims`
is the whole of `applyClaim`'s loop for one message including the withdrawal
of what the message no longer names. An age is the time since the origin last
asserted a claim, capped at `MaxAge`. `rev` is the code's counter.

*ClaimRefresh.* The intervals of the code in ticks of five seconds: TTL 45 s,
sweep 15 s, refresh 20 s. The write of a refresh may return before the hub has
read it, for at most `MaxHeld` refreshes at once (`HoldRefresh`, `ReadHeld`); one
that fails ends the session (`RefreshFails`); and a sweep may come late, by at
most `MaxStall` ticks.

*ControlHub.* A step is one critical section of `rib.mu` or `controlHub.mu`, or
one `Write` on a stream. There is one `serve` thread per slot, one thread per
operator call in flight and the sweep; `publish` runs in all of them:
`TakeSnapshot`, `Mark` (under `mu`), the installation of routes (a second
snapshot), then header and body of a frame, per stream. Streams lose what they hold when they
close, deliver in order while they live, may die at any moment, and a write may
time out after part of a frame is on the wire. A spoke's `recv` accepts a frame
only with a newer rev. The hub's own routes (`SetStaticRoutes`) are part of `Init`:
`Run` injects them once, before the host hands it any stream, and a bad one among
them fails the start and closes the hub. Slots that were never used do not
differ, so a new one is a `CHOOSE` of them.

*P2PHost.* One action per critical section of the manager's mutex. The grace
timer has three parts: what the field holds, timers armed that the field no
longer holds, and callbacks that fired and wait for the mutex; the last is
where `Stop` comes too late. A tunnel's `Run` is acquire, register, start,
each of which may fail and unwind as the code does; `SetPeers` is two steps
because the listener is read before the mutex is taken. An object lives once;
a restart is another object.

*ConfigStore.* A writer copies the configuration (`Get`), fills in its own part,
stores the copy (`Set`) and writes it: temporary file, rename of main to
`.bak`, rename of the temporary file to main. The process may end between any
two of these. A start reads main, then `.bak`, keeps an undecodable file under
another name, and rewrites main when it recovered.

*ExtSmux.* Every `await` is a point where other handlers may run: a promise that
has been resolved and whose continuation has not run is a state of its own
(`waiting`, `reading`). Data is counted in units, and the unit in a frame is
its number, so that order and loss are visible. The relay's end is the Go smux
library as `smux.js` describes it, and external. `ExtSmux` implements
`ExtPipe` for the direction to the visitor.

*ExtForward.* One handler per stream, at the awaits of `_readHTTP`, `fetch`, the
piping of a body and the wait for the accept digest; the backend socket's
events come at any time. What is sent to the visitor is a sequence of whole
writes, which `ExtSmux` justifies. `ExtWs` decodes tokens of frames cut
anywhere; payload lengths are scaled to three sizes. What a visitor says is a talk:
frames, what they are on the wire, where each ends there and what it has told by
then. `Follows` is the reference for the last, the protocol's rule for one more
frame, written without a decoder; `IsTalk` says what a talk is for any number of
frames, the configuration's talks are checked against it, and the proof takes any.

*ExtHost, ExtTunnels.* A connection is a slot of its tunnel and its socket's
events stay possible until it is closed, whether the entry still refers to
it or not. `ExtHost` implements `ExtDoc`; `ExtTunnels` has `ExtDoc` in place
of the document, with the loss of the document and of the browser, and the
popup's direct message beside the one through the worker.

*WebPages, WebDetail.* A request is on the wire, answered, or given up (the browser
aborts after eight seconds, and the daemon may still do what was asked).
Continuations run whether or not the page that awaits them is still shown.
The daemon is a map of items, other clients change it; an update closes the old
item before the new one runs, so one that fails leaves the item stopped, and the
start of a running item is refused. An option holds a
number, 0 for unset; `WebForm` says which options a type has, shows, mentions
in a request and keeps when they are not mentioned. `WebHome` has the parts of
the home page that do not reach the daemon.

`WebLists` gives the lists of these modules as `Pick`: the positions that stay,
in order. `SelectSeq` would say the same, but it takes an operator, and the
provers cannot instantiate the theorems about it.

*WebPeers, WebHub.* The page's rows, the row under edit by its index, and the
daemon's list with its addresses; a save sends the whole list. In `WebHub` the
hub's journal of refusals is grouped as `lanRefusalGroups` does, and the
policy row is staged and saved while claims come and go. A claim is refused for the
reasons of `rib.go`, with the prefixes that cover a member (`Covering`) and the
hub's own routes (`HubRoutes`) as constants; `GrantServed` replaces the whole policy,
as `SetLanAllow` does.

*WebSettings, WebProbes, WebInspector, WebJournal.* Sizes are numbers around the
bounds of the two validations, -1 for one that does not parse. A duration is text
that two parsers read: the page's, a sum of floating-point seconds, and Go's
`time.ParseDuration`, whole nanoseconds below 2^63. So it is a pair of readings, in
units of which `Second` make a second, and the pairs that differ are among the
forms of the run. The inspector itself is outside the repository; its socket
connects, fails, closes and sends as a socket may, and for an address without a
WebSocket scheme the constructor throws. The daemon's event log and watchdog in
`WebJournal` are translated from the Go code.

*WebApp, ExtApp.* One page is shown at a time and pages share nothing but the daemon,
and the parts of the extension's front share nothing but a tunnel's status;
so a behaviour picks one part (`shown`) and the other variables stay. This
keeps one model of the whole without a product of unrelated states. What is
lost is a continuation of one page that runs while another is shown: inside
`WebPages`, where it matters, pages do change under a request.

## 3. Runs

Passing runs:

| Run | Asks | Bounds, and why they are enough |
|---|---|---|
| `rib_claims` | of `Rib`: approval, expiry, first wins, injected routes, what a rev stands for; of `ClaimRefresh`: the intervals against each other, lost LANs come back, contested LANs fail over. A behaviour is one of the two from its first state on | `Rib`: two spokes, a wide prefix around a narrow one and one apart; three policies, three memberships; revs to 5. Conflicts are between two origins, and each refusal reason occurs. `ClaimRefresh`: two spokes that share one LAN, one with a LAN of its own; one refresh held up, a sweep one tick late. The comment at `netview_router.go:286-287` speaks of a couple of lost refreshes: the intervals carry one; two in a row make 60 s, past the TTL of 45 s |
| `control_hub` | what a spoke sees of redials, dead and torn streams and publishes that overlap | one spoke and one slot, a hub with a route of its own, three streams (one being served, one queued, one arriving), one fault, one sweep, one refresh; the publishes are those of the serve goroutine and of the sweep |
| `hub_lifecycle` | saves, disable and close against a session, its capability and its redial | a policy save, an assignment, a disabled spoke and a close, one after the other while the spoke's session and redials go on; the capability that a session announces is merged beside them, so two merges do overlap and the older one may be installed last; two slots so that a dropped spoke may get a new one, one stream identity that is used again |
| `p2p_host` | references, routes, preemption, late timers | two tunnels and a direct runtime that compete for two keys, one settings change or reset, one failure, two saves or netviews |
| `config_store` | what a start finds; the lists reach the disk | one API handler and the stats task, two changes, two crashes, one failing file operation, one corruption, one unreadable start |
| `ext_stream` | a stream refines a pipe; inbound data flows; a close ends | a window of one unit, a buffer of four and a credit threshold between them, two units out and six in, so that writers wait and credit is sent more than once |
| `ext_forward` | one answer, ends of a bridge, ends of a request, whole messages | one stream with every kind of request; bodies of two chunks, two chunks waiting, messages of one and two fragments with control frames between |
| `ext_host` | the document keeps its promise; a hosted tunnel recovers | one tunnel with two configurations and two connections, the old one closing while the new one dials |
| `ext_tunnels` | tunnels come back after a loss; badge, rules, rates, popup | one tunnel with two configurations, four events, two handlers at once; two cards, two tunnels with traffic, four clicks |
| `web` | the eight properties of the pages | two requests at once and two acts for three classes of items; three to five acts on the other pages; two spokes, two LANs; every value next to a bound of the settings |

A property of these runs that has several parts (`RouteSteps`, `PopupAgrees`,
`Unblocked` and so on) is their conjunction, with each part named and
commented in the module of its component.

The violation runs:

| Run | Statement | What happens |
|---|---|---|
| `hub_merges` | "a claim that arrives before its assignment takes effect is not lost" (`ctrlhub.go:298-300`): with no operation running, the table's membership is the assignment with all that is known of the spokes | `SetMembers` and `SetCapability` merge under `controlHub.mu` and install after unlocking (`ctrlhub.go:287-295`, `303-318`): an assignment that is saved while a session starts merges before the capability is recorded and installs after it, and the table lacks the capability until something merges again |
| `ext_bridge` | the map of sockets has one entry per stream; frames of a visitor go to the backend of its stream (`forwarder.js:450-453`, `631-632`) | the map is one for all tunnels and smux ids repeat between sessions: the later socket replaces the earlier one, whose visitor's frames reach the other tunnel's backend |

### Known disagreements without a run

These are properties defined and commented in their modules that the code does
not keep. TLC shows each in a configuration of the component's `MC` module
that names the property and whose bounds let the case happen (a wide claim and
a late member; a publish beside the sweep; a row that is deleted; a hub whose
`lan_allow` does not parse; a start that cannot read; a save of the settings). The
constants of `ext_forward` and `web` already have what the last three need.

| Property | Statement | What happens |
|---|---|---|
| `NoRouteCoversMember` (`Rib`) | a claim may not swallow a member's tun address (`tun.go:887-889`) | a membership change does not withdraw a claim that covers a new address (`rib.go:178`); a policy change does |
| `SettledSinkCurrent` (`ControlHub`) | the hub's own table is kept equal to what the spokes were told (`ctrlhub.go:59-60`) | two publishes install in the opposite order and nothing installs the later one again |
| `NewestSessionSpeaks` (`ControlHub`), with two slots, two stream identities and a spoke that is disabled while its session reads its first claim | a revoked `share_lan` leaves the table the moment the spoke comes back without it (`ctrlhub.go:683-690`) | `Unregister` drops the slot, its serve goroutine is past the read and still in `applyClaimSet` or before it; the spoke dials again, `deliver` makes a new slot, which applies the newer claim first and the old goroutine its stale one after it. Until the next refresh replaces it the table holds a prefix that the newest session does not share |
| `NoStreamForgotten` (`ControlHub`), with a spoke that is disabled while its stream is handed over | the streams still queued for a dropped slot are nobody's, and are closed (`ctrlhub.go:601-602`) | `deliver` finds the slot under `mu` and queues the stream after it unlocked (`ctrlhub.go:582-589`); `Unregister` drops the slot in between, and its goroutine drains the queue and returns. The stream is queued for a slot nobody serves: nobody reads it and the hub does not close it |
| `RemovedSpokeLosesControl` (`ControlHub`) | a spoke removed loses its control channel too (`tun.go:805`) | the loop looks for disabled rows in the new list; a deleted row is not in it |
| `FailedStartHoldsNothing` (`P2PHost`) | a hub that fails to start leaves no rules behind; every acquire is matched by one release | a `lan_allow` that does not parse returns without unregister and release (`tun.go:632`) |
| `UnreadableSurvives` (`ConfigStore`) | the previous good config survives one bad load | the process runs on an empty configuration and the next two saves overwrite the file and its backup |
| `SettingsKept` (`ConfigStore`) | settings persist immediately | a save of the tunnels that copied the configuration before puts the old settings back |
| `HeadFirst` (`ExtForward`) | the visitor's client waits for a 101 and "won't understand a raw close frame at the HTTP level" (`forwarder.js:554-557`) | the socket is in the map when `onopen` runs (`forwarder.js:590`), and the 101 is written after an await of the digest (`595-608`): a message or the close of the backend in between is written as a raw frame before any head, a close with a 502 behind it |
| `EverySaveIsTaken` (`WebSettings`) | the page's check mirrors the daemon's (`settings-page.ts`, `_advancedError`) | the page reads a duration as a floating-point sum of seconds, the daemon as nanoseconds. Three forms pass the page and are refused: a keep-alive of "300ms" with an idle time of "100ms200ms" (more than 0.3 as a sum), an interval of "0.1ns" with a timeout of "1s" (0 for Go, hence the default of 3 s), an idle time of "9999999h" (overflows) |
| `LiveAlwaysFollows` (`WebInspector`) | the live page reconnects by itself | the constructor throws for an address without a WebSocket scheme, or for `ws:` on an https page; the catch (`inspector-page.ts:186`) arms no timer, so the page stays live with no socket, even after the address is mended |

The models of the front ends are faithful to behaviours that are hardly meant,
which the properties therefore leave room for:

- `hub_liveness.go:130`: after a restart whose first tick sees no downlink the
  watchdog is seeded, and the warning that the log still shows is never
  retracted. Clearing the log, or its overflow, takes a warning the watchdog
  still counts as reported.
- Extension: a stop while a bind is outstanding leaves the tunnel among the
  pending starts; an edit while it connects keeps the old configuration; the
  backoff never grows; popup and worker lose each other's updates of the
  list; a click in the popup before the settings were read stores the
  defaults; a truncated body is passed on as complete; `write` never rejects
  once it has accepted, and `close` does not wake a write that waits for credit.
- Peers door: its comment says that absent keys of the LAN policy are kept
  (`tunnel_handler.go:1234-1236`), `SetLanAllow` replaces the policy as a whole.
- Web: an aborted request may still be served; a stale list brings back a deleted
  row; an entrypoint can be created twice while the VPN device is armed
  (`_saving` is set after the await); an edit carries the peers it had read,
  so a peer added meanwhile is lost; the index of a row under edit may come
  to mean another row; `keepalive` and `ttl` are wiped by a save; typed
  settings are overwritten by any notification and the store applies an
  update whose request failed; a second reset may be told done by a stale
  reading; a verdict of a test may be of an address typed before; an events
  page shows a cleared history again until its next poll.

Every bound is a constant named in the module that declares it (`MaxRev`,
`MaxAge`, `MaxStall`, `MaxHeld`, `MaxFaults`, `MaxSweeps`, `MaxRefresh`,
`MaxChanges`, `MaxFailures`, `MaxUpdates`, `MaxCrashes`, `MaxCorrupt`,
`MaxUnreadable`, and in the `Ext` and `Web` modules `MaxIn`, `MaxOut`,
`MaxChunks`, `MaxQueued`, `MaxFrames`, `MaxNotices`, `MaxEvents`, `MaxOps`,
`MaxClicks`, `MaxTraffic`, `MaxSamples`, `MaxWrites`, `MaxCalls` and the
`Max...Acts` of each page). `CHECK_DEADLOCK FALSE` stands where the system may really
stop: a closed hub, a host whose objects have all had their life, a front end
whose user has done what the bound lets him do. Each property
of a passing run has a mutant of a mapped definition that breaks it
(`PROJECT.json`, `mutants`); the mutants stand next to the definitions in the
modules, marked as such.

### Fairness

Goroutines are scheduled (weak fairness per thread), timers and tickers fire,
the accept loop takes what arrives, and a spoke redials every second for as
long as it runs. In `ClaimRefresh` a refresh that is due is read, held up (at most
`MaxHeld` of them) or fails and ends the session. Nothing is assumed of operators or faults: calls,
lost streams, settings, netviews and crashes need never happen. In
`ConfigStore` a start goes on, the stats ticker fires and writers are
scheduled; `ListsReachDisk` rests on the periodic save.

In the extension the browser runs resolved promises, delivers frames and
messages and fires timers and the alarm (weak fairness; strong where a step is
disabled again and again, as a retry that is replaced), the program reads
until the end, and the relay drains its socket. `HostedRecovers` also assumes
that a relay dialled again and again answers at last. In the web interface
every request is answered, refused or given up by its timer, and poll timers
fire. Users, other clients, failures and losses are assumed nothing of.

## 4. Proofs

TLAPS checks these for every value of the constants that satisfies the named
`ASSUME`s, so for any number of spokes, prefixes, tunnels, keys and late
timers.

*RibProofs.* Type correctness; `RoutesApproved` from `ApprovedInv` (type and
approval: a refresh of a claim skips the policy, so the proof needs that the
installed claim was approved already, and that `WithAllow` re-examines all of
them); `NoneOutlivesSweep` from `ExpiryInv` (an age never exceeds the TTL plus
the time to the next sweep); `FirstWins`, `StaticStays` and `RevNamesContent`
as action properties, together `RouteSteps`. The lemmas are about `RibTable`'s operators: what one
claim, a message, a policy, an injected route and a withdrawal do to the table,
its content and its rev.

*ConfigProofs.* `StartFindsPublished` from `StoreInv`: besides types it says where a
writer is while it holds the write lock (`WritersWait`), and that the one thing
wrong with the files has been dealt with by the part of the start that found it
(`BadDealtWith`). The invariant is needed because what a start finds depends on
how far a save or another start had come.

*P2PHostProofs.* Type correctness, `RefsAreHeld`, `ExplicitWins`,
`AllowedIsClaimed` (together `ConsumersAgree`), `HeldHostStays` and `RoutesKept`. `RefsAreHeld` is
inductive given types: each action moves the count and the set of holders by
the same one (cardinality lemmas), provided no hub fails on its own
configuration; `WellConfigured` states that premise, and
`FailedStartHoldsNothing` above shows it is needed. `RoutesKept` rests on it: a running tunnel holds a reference, so
`refs > 0` and a late callback does nothing. `AllowedIsClaimed` needs
`BeliefInv`, which adds that a runtime not yet running has no key, no refresh
and no callback owed, so that what it starts with agrees.

*ClaimRefreshProofs.* `BlackholeBounded` from `OverdueInv`: what its origin no
longer asserts is at most one period older than the TTL, less what is left until
the sweep (plus the delay of a late one). `ConnectedLanInstalled` from
`FreshInv`: the age of a claim and the time to the next refresh add up to the
refreshes held up since the hub read one; neither is inductive without the
other. The arithmetic rests on the named assumptions about the intervals, and the
one about refreshes held up is that of the run.

*ControlHubProofs.* `HubTypeInv` says what each thread has read where it is, and
which thread may own a stream. On it rest `FeedInv` (every snapshot, frame and
view is an earlier table, or the current one if it has its rev), which gives
`CurrentRevIsCurrentTable` and the safety half of `ImplementsFeed`, each action
a step of `NetviewFeed` or a stutter; `MembersReachTable`
(`HubMembersOvertaken`, below); and `HubSessionInv` (while the hub is open, a slot is its spoke's, a stream is in one
place and belongs to the spoke of the slot it is at, and a slot knows the share
of the session it serves) for what holds of sessions, which is stated per spoke:

- `HubNewestUnlessDropped` and `HubKeptUnlessDropped`: what `NewestSessionSpeaks` and
  `NoStreamForgotten` say, of every spoke that was never removed, whatever happens
  to the others, for as long as the hub is open. Of a removed spoke the code keeps
  neither (see the disagreements above), and after `Close` a stream that was being
  handed over stays in nobody's hands, so the conditions cannot be dropped.
- `HubNewestSpeaks` and `HubNoneForgotten` are the corollaries about the properties
  themselves: they hold while the hub is open and no spoke was removed
  (`NothingDropped`). For an operator who only sets policies and assignments both
  hold at all times (`HubGentleOperator`).

`HubMembersOvertaken` takes no condition on who runs beside whom: what a merge
recorded is installed or carried by a thread that will install it, and the only
step that ends this is an older merge that installs after a newer one. That this
step can happen, and that the table then stays behind, is the run `hub_merges`;
`SettledSinkCurrent` has the same cause.

*WebProofs.* One page is shown, so each invariant is about one page, the actions of
the others leave its variables alone, and every theorem has the same three
parts. `InspectorInv` adds that a page that is live has a feed or a timer, unless
the last opening threw, and the panel compares an answer with what was fetched;
`SettingsInv` that what is in a save passed the page's check, and the theorem then
compares the two checks: a form whose durations both sides read alike and that
passes the page's passes the daemon's; `HubInv` that what a spoke is granted was in its
journal, its draft or a save all the way; `JournalInv` that a reported stall is
the last verdict of the history while it has one, whether an event was folded,
appended, or appended with the oldest dropped. `PagesInv` types every request
with its answer and says that a save under way keeps what was not typed (the
page's copy of the other options is as old as the form), and that the page which
awaits a save still shows its item; `HomeInv` that what is made next has the
highest number, so it is on top. `PeersInv` says that no two rows of the daemon
have one key, that every row has an address, and that a row of a save mentions its
address only if that was typed; there is a free address for every new row
because there are more addresses than keys, which is a counting argument
(`AddressesSuffice`). `WebSaveKeepsUntyped` assumes `Classes \subseteq WholeForms`:
the forms of the other classes, udp tunnels and udp or p2p entrypoints, do not
cover their options, and a save of theirs wipes `keepalive` and `ttl` (see the
disagreements above), so without the assumption it is false. The classes of the
run are all in `WholeForms`.

*ExtProofs.* `BackgroundAgrees` from `CleanUpInv` (what is left of the rules is
others' or about to be removed) and `BadgeInv` (the last update under way counts
the running tunnels); `RatesAreSane` from `StatsInv` (a baseline is never above its
counter); `PopupAgrees` from `PopupInv` (what the popup asked for before any click
is what is stored). `HostInv` says that a connection that can bind or carry
visitors is the one its entry names and that without the document there is
neither; from it `NoOrphan` and, step by step, that `ExtHost` implements `ExtDoc`.
`ExtHost` is reached by INSTANCE there, since its names overlap with those of the
front.

`OneAnswer` from `ForwardInv`. Its part `Orderly` relates where the handler of a
stream is, what was written, whether the stream is closed, the state of its
backend's socket and the flag `responded`: nothing is written while a request is read,
fetched or dialled for (after `onopen` frames may precede the 101, see `HeadFirst`),
an answer on its way is a head and parts of one kind, without the flag no head
was written, and a handler that waits for the digest with the flag set finds its
stream closed. The last one is why a late `onopen` cannot add a second head after
an error was answered: `BackendEnds` sets the flag and closes the stream in one
step. A message of the visitor is answered with as many pongs as pings were
decoded, so the proof needs that the events of a chunk are a sequence, which is
a fact about the recursive function of `Parsed` (`ParsedEvents`).

`ImplementsPipe` from `SmuxInv`. The tasks of the write tail and the frames on their
way are chains: `Queued(tail, w, all)` says that there are numbers which rise along the
tail from the last unit written to the last one accepted, with nothing behind a
close, `Carried(toPeer, a, w)` the same of the frames from the last unit the relay
received to the last one written, with nothing behind a FIN. The numbers are an
existential witness, so that each step needs only how a chain grows at its end
or loses its first element (`CarriedOn`, `CarriedFirst`, `QueuedOneMore`,
`QueuedFirst`), and how a write is cut into frames of at most `MaxFrame`
(`FramesOfWrite`). `CutsSeen` adds that a stream closed with no cut has written
all that was accepted; together they give the guard of `Pipe!End` when the FIN
arrives. `OpenedOnce`, that the SYN is the first frame and comes before anything
is written here, is what keeps `HandleSyn` from starting the numbers again.

`MessagesWhole` and, on the same ground, `FramesStayInTunnel`, from `WholeInv`, for any
talk. What was read of a stream, what waits in its queue and what is to come are
stretches of what the visitor sent: `InChunks` has the marks between the chunks as
an existential witness, and the three things that happen to it are a lemma each
(`QueuedMore`, `QueuedSaid`, `QueuedRead`). `Bridged` says where the decoder is: for some
frame `k` that did not end it all, the backend got what the frames up to `k` told,
and the decoder holds the bytes read behind frame `k` and the part of a message
that frame `k` left. That this survives a chunk is shown one call at a time
(`TakenFaithful`): a frame that is whole in the buffer is taken off and is what the
visitor framed (`DecodesWhole`), one that is not is left (`WaitsForWhole`), a length
nobody supports is refused (`RefusesUnsupported`), and what the decoder makes of a
frame is what the frame tells (`AssembledFollows`). So how the bytes were cut never
enters. Both theorems assume `OneSession`, that no two streams have one id, which the
smux of one tunnel provides; `ext_bridge` shows that without it, between two tunnels,
`FramesStayInTunnel` is false, and the theorem that this is the only cause.

Assumed of the constants: `Slots \subseteq Nat \ {0}`, finitely many tunnels
with traffic, `OneSession` where it is named, and the named assumptions of the
modules.

Induction over data is done by a minimal counterexample: `LeastNumber` (a set of
numbers that is not empty has a least one, from the library's theorem that
inclusion orders finite sets well) takes the place of the induction theorems,
whose operator parameter the provers cannot instantiate. `RunExists`, `RunsAgree`
and `ParsedRuns`, and `GivenExists`, `GivenAgree` and `MessagesGiven`, use it to show that
a recursive function satisfies its equation.

Only model-checked, and why.

- Liveness under fairness is outside TLAPS's reach: `LanFollowsSpoke`,
  `DroppedSlotEnds`, `IdleHostStops`, `ListsReachDisk`, `InboundFlows`,
  `CloseEnds`, `BridgeEndsTogether`, `LeftRequestCloses`, `HostedRecovers`,
  `LostHostRestarts`, `Unblocked`, and the liveness half of
  `ImplementsFeed`.
- Every safety property of a passing run is stated by a theorem, some of them under
  the conditions named above. What the properties of the disagreements would need
  is a change of the code.

## 5. Not modelled, and why

- Texts: refusals, journal lines, LAN state reports, logging, API answers.
- Crypto, hole punching, relays, the gost library: external. The host is
  something that can fail to build; a stream is an ordered pipe that may die.
- A restarted hub (a new `gen`) and the device routes written from a view.
- Host details: pending-knock list, warm-up dials, per-peer counters, the peek
  at a stream's first bytes (it ends by a deadline; a matter of latency).
- Configuration: permissions, log settings, validation. Two failures in one start
  (an undecodable file that can neither be moved aside nor rewritten) let the
  next save rotate it over the backup; `ConfigStore` spends its failures on
  the first of the two and stays short of that case. Corruption happens only
  while the process is off.
- Data races proper (a map read while it is written): `controlHub.Close` walks
  the map of slots without the lock; the hazard is listed, the outcome of the
  race is not modelled.
- Registry, service tunnels, entrypoints' own life cycle, LAN share, runner: see
  the plan. The web modules contain of the daemon what the pages depend on
  (address allocation, validation, event log), marked external or mapped.
- Web pages and popup: styles, translations, clipboard, QR images, the information
  rows of a view, formatting, import and export, record rendering.
- The inspector server and the Go smux and relay ends: external.
- Platform shells, third-party code (QR code, MD5), generated bundles.

## 6. Plan

In order of the weight of the behaviour in the running system.

1. `Entrypoint`: Run, Close and the control channel of a TUN entrypoint, the
   netview sync to device routes with failing installations and retries, the
   direct runtime's refresh against Close, and the `gen` of a restarted hub.
   Abstract specification: device routes equal the last view applied. Hazards
   at `entrypoint/tun.go:832`, `netview_sync.go:199`, `direct.go:114`.
2. `Registry`: the tunnel and entrypoint lists under concurrent start, stop,
   update, delete and restart, with the runner's replace and cancel (hazards at
   `tunnel.go:646`, `tunnel_handler.go:1147`, `runner.go:108`). Abstract
   specification: at most one running object per entry, which its list can
   close.
3. `HubSetup`: address allocation, peer filter and authorizer against saves, and
   the listener queues of the shared host (`p2p_host.go:1117`).
4. `ShareNat`: the order in which rules and stack are applied and removed, with
   partial failures. `EventLog`: folding and cap, checked against a reference
   definition over bounded inputs.
5. Proofs: for `NewestSessionSpeaks` with spokes removed and back, how long the stale
   claim can stay (until the next refresh of the newest session).

New runs replace or absorb existing ones where the question is the same.
