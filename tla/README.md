# PasteLocal in TLA+

Specifications, model-checking configurations and proofs for PasteLocal: a
daemon on the laptop that serves its clipboard to remote hosts through SSH
tunnels, a remote command that fetches it, and a relay server that stores
end-to-end encrypted blobs for devices that cannot reach each other.  Every
definition is written from the Go source; `PROJECT.json` maps it to its lines.

## 1. Inventory

Paths are relative to the repository.

| Component | State | Operations | Talks to | What makes it correct |
|---|---|---|---|---|
| Relay server: handlers (`cmd/relay-server/main.go`, `internal/relay/store.go`) | six maps: `Blobs`, `Devices`, `Peers`, `Inbox`, `Tokens`, `BlobIdx`; `s.mu` (RWMutex); rate-limit counters | register, upload to self, upload to a peer's inbox, download, inbox list and fetch, peers, devices, health | relay clients (HTTP), clean-up and `Compact` (shared maps) | an answer is what the device named sent, to its receiver; mail is the newest of its sender; a full inbox evicts, never overflows; nothing goes before its TTL; nothing waits for ever |
| Relay server: clean-up | ticker; `toDelete`, `idxToDelete`, `rcvToPrune`; the store's own mutex | every minute: drop expired blobs under `s.mu`, then `Compact` under the store's mutex, then `Save` | the handlers' maps | only expired blobs go; a running handler is not disturbed |
| Relay server: persistence | `state.json` | `Load`, `Save`, `writeAtomic` | all mutating handlers | what was acknowledged survives; what is loaded is consistent |
| Relay client and envelopes (`internal/relay/client.go`, `envelope.go`, the `relay` commands) | `device-key` and `relay-token` files, read at the start of a command and of the daemon | init, pair, add-peer, send, fetch; the daemon's pushes; encrypt and decrypt | relay server | what is fetched decrypts; it goes to, or comes from, the device that was named |
| Daemon: clipboard endpoint (`internal/server/handlers.go`) | concurrency semaphore, rate limiter, `mu` around the OS clipboard, `lastRead`, analysis and recall caches | GET and POST `/clipboard`, history, search, directpaste, health, version | OS clipboard, processors, history, watch hub, relay | concealed content is not served; history and answers agree |
| Daemon: history (`internal/server/history.go`) | bounded, optionally encrypted buffer; analysis per entry ID | `Add`, `SetAnalysis`, `Get`, `List`, `Search`, `UpdateKey` | endpoint, watcher | newest entries kept in order; metadata only of entries |
| Daemon: clipboard watcher (`internal/server/server.go`) | last signature, last text hash, last image time, debounce time; per-tick state | poll, filter concealed, debounce, read, notify, push to relay, proactive analysis | OS clipboard, watch hub, history, relay | every change a subscriber should see is reported once |
| Daemon: watch hub (`internal/server/watcher.go`) | subscriber set, one channel of 16 per subscriber | subscribe, unsubscribe, notify, read and write pumps | WebSocket clients | in-order delivery, drops only for a slow subscriber, no send on a closed channel, no goroutine left behind |
| Snippets (`internal/snippets`, `internal/server/snippets.go`) | one file per snippet | save, load, delete, list; a new `Store` per request | file system | a snippet is one saved version; the quota holds |
| Configuration and tokens (`internal/config`, `internal/auth`, `cmd/pastelocal`) | `config.toml`, the token in the keychain or in a file | init, add, remove, revoke, rotate, uninstall; permission check | daemon, hosts | what a command saved stays; a rotation reaches the hosts |
| SSH configuration (`internal/sshconfig`) | `~/.ssh/config` | find a block, add and remove a `RemoteForward` | ssh | the user's own lines stay |
| Host installation, doctor, service manager (`internal/hostinstall`, `doctor`, `service`) | files on the host; the unit; the running daemon's port | install and uninstall steps; checks and fixes; start, stop, restart | ssh, configuration, tokens | a success means that the host works; a failure is repaired by a second try |
| Remote CLI (`cmd/pastelocal-remote`) | none but output files | read, send, entries of the history by index or ID, snippets, relay fetch and send, watch | daemon, relay | what is written is what was named |
| Dashboard, platform clipboard tools, skills | none of their own | - | platform tools | not modelled: I/O and display |

Hard behaviours, in the order of their weight:

1. The relay's two mutexes.  `handleUploadTo` works under `s.mu`; `Compact`,
   called by the clean-up after it released `s.mu`, takes only the store's
   mutex.  They interleave on the same maps.
2. `Save` runs beside handlers and other `Save`s; crashes and failed writes.
3. Reads in two steps (index, then blob; concealed check, then read; list, then
   fetch), with the state changing in between.
4. Bounded things at their limit: inboxes, history, subscriber channels, caches.
5. IDs that are readings of a clock.
6. The watcher's filters, which may absorb a change, and its goroutines' end.
7. Files several processes rewrite without a lock: snippets, configuration, SSH
   configuration; tokens that are in two places, and on every host.
8. Commands of many steps, on two machines, each of which may fail.
9. Keys and tokens read once and used later, while another command replaces them.

`PROJECT.json` lists each hazard at the line where it bites.

## 2. Plan

| Step | Modules | State |
|---|---|---|
| 1 | `RelayStore` (data and pure operators), `RelayServer` (handlers and clean-up), `RelayMailbox` (what the relay promises), `RelayServer_proofs`, `RelayMailbox_proofs` | done |
| 2 | `RelayPersistence` (composes the store with `Save`, `Load`, crashes), `RelayPersistence_proofs` | done |
| 3 | `WatchHub`, `ClipboardWatcher`, `HistoryBuffer` (pure operators), `ClipboardServer` (extends it), `ClipboardDaemon` (extends that), `ClipboardServer_proofs`, `WatchHub_proofs`, `ClipboardWatcher_proofs` | done |
| 4 | `SSHConfig` (the editor, operators on a sequence of lines), `HostSetup` (configuration, tokens, service, installation and doctor around it), `HostSetup_proofs` | done |
| 5 | `SnippetStore`, `HistoryFetch`, `RelayClient`, and `Commands`, which composes them; `Commands_proofs` | done |
| 6 | proofs: the end of the daemon in `ClipboardDaemon` | next |
| 7 | the history's and the caches' files in `ClipboardDaemon` | later |

Abstract specification: `RelayMailbox`, one slot for every receiver and sender, which is
also how `RelayClient` sees the relay.  A module has one passing run (`RelayServer` has two
for its safety, which would be too large as one, and one for its liveness), and a run for a
violation only where a doc or comment is contradicted.

## 3. The modules

In every module an action is a handler's step between two points where another
goroutine can get in: a critical section, a call of a tool, or a whole handler
where nothing else can.  Data is named, not spelled out: an item, a blob or a
device is a model value, and what is encrypted, hashed or encoded keeps its
name.  Operators marked as mistaken variants are not used by the
specifications; putting one in the place of the definition after it is a bug
that a property must find, and `PROJECT.json` lists which.

### Relay

`RelayStore` has the four maps that refer to each other.  `blobs` is `Blobs`, `blobIdx` is
`BlobIdx`, `inbox` is `Inbox` (a missing entry is `None`), and `PutResults` are
the inbox maps an upload may leave, since the code evicts an arbitrary entry of
a Go map.

`RelayServer` is the server in memory.

| Code | Model |
|---|---|
| `s.mu`, an RWMutex | `mu`, `readers`, `waiting`: a writer that waits keeps new readers out, as in Go |
| a request's goroutine and its locals | `pc[h]`, `req[h]` |
| `handleRegister` | `BeginRegister`, `Register` |
| `handleUpload` | `BeginUploadSelf`, `LockSelf`, `PutIdx` |
| `handleUploadTo` | `BeginUploadTo`, `LockTo`, `MakeBox`, `LoadBox`, `PutSlot`: `Compact` does not take `s.mu`, so it can run between any two statements on the inbox |
| `handleDownload` | `ReadIdx`, `ReadBlob`: two read locks |
| `handleInboxList`, `handleInboxFetch` | `BeginList`, `ListInbox`; `BeginFetch`, `ReadSlot`, `ReadSlotBlob` |
| `cleanupExpiredBlobs`, all under `s.mu` | `CleanExpired` |
| `Compact`, not under `s.mu` | `CompactScan`; for each ID of `toDelete` (`doomed`) `CompactBlob`, `CompactCollect` and `CompactUnindex` with `dids` for `idxToDelete`; for each inner map (`CompactRange`, `rest`) `CompactVisit`, which looks at the slots, `CompactClear`, which deletes what it saw, and `CompactCount`; `CompactPrune` for each of `rcvToPrune` (`prune`) |
| `time.Duration(TTL) * time.Second`, `now.Sub` | `Duration`, which wraps around, and `Elapsed`, which saturates; `Second` and `MaxDuration` are constants |
| `generateBlobID` | `FreshId`: the wall clock; with `ClockAdvances` no value comes twice |

`RelayMailbox` is the abstract specification: for every receiver and sender one
slot that holds the newest mail.  `RelayServer` implements it (`ImplementsMailbox`,
`INSTANCE ... WITH`): the slot is what `handleInboxFetch` would find, and mail
counts as placed when its handler has come to its answer.  Writing it down showed how
little is promised once mail has expired: while there is stale mail `Compact` may
take along a whole inbox map (`Purge`), fresh mail that has come into the slot of the
stale (`Sweep`), and mail that is just being put (`Mislay`).  Stale is mail that has
outlived its TTL, or whose TTL overflows.

`RelayPersistence` looks at the same handlers with `Save`: it waits for the store's
mutex (`Copy`), marshals the six maps one by one (`Marshal`), in the
order of `PersistentState`, while handlers go on, and renames (`Rename`) or
fails (`WriteFails`).  An upload is two steps, the blob (`PutBlob`) and the reference to it
(`PutRef`), both under `s.mu`.  The cleanup goroutine removes one blob after another
(`DropBlob`), finds what refers to it (`FindRefs`) and deletes that, whatever it has become
(`DropRefs`): first under `s.mu` (`CleanBegins` to `CleanEnds`), then under the store's
mutex only (`CompactScan` to `CompactEnds`, the latter with a `Save`).  A crash forgets
memory; `Restart` is `Load`.  The runtime's abort when a map is written while it is
iterated is a crash too.

### Daemon

`WatchHub`: `subscribers`, a channel per watcher (`send`, `closed`), and the two
pumps of each (`reader`, `writer`).  `Unsubscribe` is two steps, since it closes
the channel after releasing the mutex.  A send on a closed channel sets `panicked`.

`ClipboardWatcher`: one tick is up to four steps (`ReadFormats`, `CheckConcealed`, then
`ReadContent` and `ReadContentText`, or `ReadText` and `ReadImage`), one for each call of a
platform tool, and `Copy` may come between any two.  Time is the gap between two ticks; only
its order relative to the debounce and the image throttle matters.

`HistoryBuffer` has history.go's methods as operators on a record;
`ClipboardServer` uses them.

| Code | Model |
|---|---|
| `FilterConcealed`, `IsConcealed` | `CheckConcealed` where it lets the request pass, `Refuse` where it does not; a step before `Read`, with `Copy` in between |
| `s.sem` | `free`; `Acquire` and `Return` (the deferred send) |
| `handleClipboardGet` | `StartGet`, `Refuse`, `CheckConcealed`, `Read` or `ReadFails` (all of `s.mu`'s critical section), `LookUp`, `Analyze`, `Record`, `Annotate`, `Answer` |
| `handleClipboardPost` | `StartPost`, `Refuse`, `Write` |
| `handleClipboardHistory` with an ID | `Fetch`, `GetStored`, `Reanalyze`, `FetchAnswer` |
| `cacheAnalysis` | `Cached`, used by the handlers and by the watcher's goroutines (`Proactive`) |
| `reloadConfig` | `Reload`: of what it changes only the new history has a state the model follows |

`ClipboardDaemon` puts the process around it: `Sigterm` is the start of
`http.Server.Shutdown`, `Exit` is the way from `Serve` through `Start` to the
end of `main`, which waits for nothing.

### Setting up hosts

`SSHConfig` has the editor as operators on a sequence of lines.  Of a line it keeps
what the editor looks at: kind, argument and marker.

| Code | Model |
|---|---|
| `Parse`, `FindBlock`, `HasRemoteForward` | `Parse`, `BlockStart`, `BlockLimit`, `Ours`, `HasRemoteForward` |
| `AddRemoteForward`, `findInsertIndex` | `AddRemoteForward`, `InsertIndex`, `Conflicts` |
| `RemoveRemoteForward`, `removeBlock` | `RemoveRemoteForward`, `RemoveBlock` |

`HostSetup` runs the commands of `pastelocal` that share files, a keychain, the
service and the hosts.  A command is a list of steps, each one access to
something shared; `run[p]` is what the command of a terminal has read, its step
and the steps left.

| Code | Model |
|---|---|
| `runInit`, `runAddHost`, `runRemoveHost`, `runTokens`, `runRotateToken`, `runUninstall`, `runStart` and the like, `runDoctor` | `RunInit` ... `RunDoctor`: load the configuration and take a plan (`InstallPlan`, `TokenPlan`, `UninstallPlan`) |
| `config.Load`, `Save` | `Load`; `Save`, which writes what was loaded with one change (`AfterCommand`) |
| `TokenStore.Store`, `Retrieve`, `Delete`, `validateAuth` | `Store`, `Retrieve`, `DeleteToken`, `Accepts` |
| `Installer.Install`, `installTokenOnly`, `Uninstall` | `CopyBinary`, `MakeExecutable`, `CopyToken`, `Private`, `Verify`, `CopySkill`, `Remove`, `ReadSSH`, `AddForward`, `RemoveForward` |
| `doctor` with `--fix` | `CheckKeychain`, `CheckHost` (all checks of a host, then a plan for each that failed), `FixKeychain` and the steps above |
| the service managers | `InstallUnit`, `StartService`, `RestartService`, `StopService`, `RemoveUnit`; the daemon has the port it loaded |
| `os.WriteFile` of the token, `os.RemoveAll` of the configuration | `Truncate` before `Store`; any number of `RemoveEntry` before `DeleteConfig` |
| errors, Ctrl-C, a copy that breaks off | `Fail` with `Refused` and `AfterFailure`, `Kill`, `BreakOff` |

History variables say what the properties need to know of the past: `whole`, the
hosts an `add-host` installed in full, `delivered`, those that got the token
since it last changed, `clobbered`, that a file was written by a command that had
read an older one (`outdated` in a command), `calm` and `fresh` in a command, that
it ran alone without a failure and that the token it copied is good.

### Commands of users

Three modules, each of commands and of what serves them.  They share no state, so
`Commands` chooses one of them in its initial state.

`SnippetStore` takes a save to the file system: names, inodes, and one temporary
name per snippet that every save of it uses.  A version is the length of its JSON, and a
file is as many copies of it, so that a shorter file over a longer one shows; the quota
adds the length of the bare data (`DataSize`) to the sizes of the files.

| Code | Model |
|---|---|
| `pastelocal snippets save`, the POST handler | `SnippetSave`, `HandleSave` |
| `Store.Save` | `Fits` (the quota), `OpenTmp`, `WriteTmp` (in part, when the disk is full), `Rename`, `RemoveTmp` |
| `Load` with its hash, `List`, `Delete`, `--snippet` | `Load`, `Listed`, `Delete`, `Served`, `FetchSnippet` |

`HistoryFetch` has the commands that ask the daemon for the clipboard or an
entry, and their files; it uses `HistoryBuffer`.  By index they ask twice,
`HistoryGet` or `FetchByIndex` and then `FetchHistoryEntry`; by ID, after a
search, `SearchHistory` and then `FetchByID`.  `NameOf` is the file's name.

`RelayClient` has the machines' key and token files and the commands and pushes
that use them, one request per step.  A device, its key and its token are one
value, since the ID is the hash of the key and the token is given for it; a shared
secret is the pair of devices.

| Code | Model |
|---|---|
| `runRelayInit`, `runRelayPair`, `runRelayAddPeer` | `GenerateKey`; `StartPair`, `Register`, `SaveToken`; `AddPeer` |
| `runRelaySend`, `--relay --send`, `resolvePeer` | `StartSend`, `ListPeers`, `ListDevices`, `Send` |
| `pushToRelayPeers` | `StartDaemon`, `StartPush`, `Push` |
| `--relay` | `StartFetchNewest`, `ListInbox`, `FetchFromInbox`, `Decrypt` |
| `runRelayFetch` | `StartFetch`, `FetchLiteral`, `Resolve`, `FetchFromInbox`, `Decrypt` |
| the relay's expiry and eviction | `Drop` |

## 4. Runs

| Run | What it shows | Bounds |
|---|---|---|
| `relay_server` | an answer is what the device named sent; references dangle, and blobs go, only after the TTL; the inbox cap; `RelayMailbox` is implemented | two devices, two IDs and two requests at a time, beside each step of `Compact`; one slot in an inbox, so that a second sender evicts; clock to 2, so that blobs expire before, during and after each request |
| `relay_liveness` | references dangle, and blobs go, only after the TTL or if that overflows; every request is answered, every expired blob goes | one device and ID, two requests, so that each waits for the other and for the clean-up; TTLs of 0 (none), 1, and 2, which overflows (two units to a second, durations to 3) |
| `relay_compact_panic` | *violation:* `Compact` is "Safe to call periodically", but makes `handleUploadTo` panic with `s.mu` held | one device, two requests |
| `relay_persistence` | a registered device can authenticate and references are live after any crash; what was acknowledged is on disk unless a write failed or `Save`s overlapped | one request beside the clean-up, `Compact` and its `Save`; one crash, one failure; two tokens; TTLs of 1 and 2, which overflows |
| `relay_durability` | *violation:* "atomic writes for durability", but an older `Save` can be renamed over a newer one | the same, without failure or crash |
| `watch_hub` | no send on a closed channel; what arrives is in order; nothing is lost unless the channel was full; a broken connection's subscription and goroutines end; what is queued arrives | two watchers, a channel of 2, four notifications: one in the pump's hands, two queued, one dropped |
| `clipboard_watcher` | no content is reported for ever; what stays on the clipboard is reported; the goroutine ends | two texts, a tiny one, an image, a secret; one failing tool; a tick on time and a late one |
| `clipboard_server` | `FewOvertaken`, `IdsNameTheirRead`, `MetadataIsDropped`, `SlotsAreReturned` | three requests for two slots, three reads into a history of two: enough to overtake, to evict, and to evict what another request is about to annotate |
| `daemon_exit` | *violation:* "graceful shutdown with 5-second drain timeout", but the process ends at once | two requests |
| `host_setup` | whatever commands do at once and wherever they fail, the user's lines in `~/.ssh/config` stay; without two commands on one file an installed host is configured and forwarded; without a keychain a host has the token that is accepted; success means that doctor finds nothing to fix | two terminals, two commands, one failure; two hosts and ports; three files: none, a block of the user's with comments and blank lines, one that has the port already; with and without a keychain; from nothing, and from a machine with one host |
| `host_rotate` | *violation:* "Store new token (keychain + file)", but with a keychain the file keeps the old token, and it is the file that `add-host --update-token-only` copies | one terminal, two commands, no failure |
| `commands` | a snippet that one save at a time wrote is as it was saved; a file holds what its command named; a fetch that cannot decrypt is one of a machine with a new key and an old token; a send goes to whom it named | one snippet in versions whose JSON is 1 and 2 long and the data one less, under a quota of 3, two saves; a history of two with a TTL of one tick, four ticks of two to a second, two readers; two machines, three keys, two agents, three commands: both pair, or init again, before a send and a fetch |

Why these are enough: each property relates at most two requests and the
background goroutine that may come between them, and each bounded thing (inbox,
channel, history, slots) is exceeded by one.  `MaxTime`, `MaxNews`, `MaxFaults`,
`MaxCrashes` and `MaxFailures` bound what would go on for ever, and are guards
of the actions named after them.  Handlers, devices, IDs and tokens are symmetric
in the safety runs only; no run with a liveness property uses symmetry.  `relay_server` has
one TTL, for the sake of its size, and `relay_liveness` the others.  In `commands` two
agents are enough because a command meets what others left in
the files and on the relay, not them; the third key is for a machine that changes its
own.  Three commands are an init, a send and the fetch that cannot decrypt; in
`host_setup`, two are the pair that work on one file at once, or a failure and its
repair.  Runs
with `CHECK_DEADLOCK FALSE` stop when the bounds are used up: the relay when
all IDs are, the hub when its connections are gone, the watcher when
its goroutine has ended, the daemon when it has exited, the commands when
`MaxCommands` or `MaxClock` is reached.

What they say about the code, beyond "holds":

- `DanglingOnlyExpired`, `AnswerIsTheSenders` and `ImplementsMailbox` need `ClockAdvances`:
  an ID is a clock reading taken outside the lock.
- `AnswerIsTheSenders` says of a download only that it is an upload of the device it
  names: `handleDownload` (main.go:275) looks at no token, although main.go:64 says it
  requires auth: whoever names a device is answered its latest upload.  The program
  contradicts its comment in every such call, so no run asks.  Blobs are encrypted by the
  sender.
- `DropsOnlyExpired`, `DanglingOnlyExpired`, `ReferencesAreLive` and `ImplementsMailbox`
  except uploads whose TTL overflows: nobody checks a client's TTL, and above 9223372036
  seconds its product with `time.Second` wraps around, to a negative duration at first, with
  which the blob goes at the next tick: not "TTL respected"
  (docs/RELAY_V1_IMPLEMENTATION_SPEC.md:272).  Without an overflow the test of
  main.go:474 is exact (`ExpiredMayGo`).
- A reference that `Compact` removes may be one that a handler has just written, which
  "drops expired blobs/inbox refs" (store.go:204) does not say: `CompactUnindex` deletes an
  index entry that had the expired ID when
  `CompactCollect` looked, `CompactClear` a slot, `CompactPrune` a whole inner map.  The
  upload has been answered, and its blob stays until its TTL, but nobody finds it.
- `RequestsAreAnswered` and `ExpiredBlobsAreRemoved` except a server that is
  stuck after the panic of `relay_compact_panic`.
- `ReferencesAreLive` excepts expired uploads, for `Compact` may remove a blob
  before its handler puts the reference to it, which then stays in memory and in the file
  until a restart.
- Concealed items: the mark is asked for in one call of a tool
  and the content in the next, so an item that is copied in between passes, with a
  detector that works: it is reported and pushed (`CheckConcealed`, `Copy`, `ReadContent` in
  `ClipboardWatcher`), or answered and kept in the history (`CheckConcealed`, `Copy`, `Read`,
  `Record` in `ClipboardServer`).  SECURITY.md:36, RELAY.md:58, server.go:568, history.go:63,
  handlers.go:74, 199 and 528 say that it does not.
- `ReportsAreBounded`: an unchanged clipboard is reported up to three times,
  and four when it was copied in the middle of a tick, because a heavy
  read updates neither hash.
- `MetadataIsDropped` excepts analyses stored after their entry was evicted, which
  happens: `SetAnalysis` (handlers.go:240 and 497) does not look, and nothing
  deletes them later, so the map can grow although history.go:94 says it does not.
- `HostIsForwarded` excepts two commands that change one file at
  once: the configuration is loaded, changed and saved without a lock, and the later
  save wins.  A later `init` writes the defaults and forgets all hosts.
- No property speaks of permissions: an empty list is all permissions (config.go:375), so
  `tokens --revoke`, "Remove all permissions from the host." (main.go:962), widens
  what a host with a list may do.  Nothing depends on it yet: the daemon's
  `identifyHost` knows no host.
- `DeliveredTokenIsAccepted` needs a machine without keychain.  With one, `init`
  leaves no token file, so that `add-host` and the commands that read the token
  from the file fail until `init --no-keychain`; and doctor's keychain check, which
  asks `Retrieve`, passes when only the file has a token.
- `init --port` again with a daemon that runs: `Start` does nothing, and the daemon stays at
  the old port until a restart.
- `UserSettingsKept` says nothing of comments: those in a block that has nothing else
  left go with it.
- `LoneSaveIsKept`: two saves of one snippet at once share a temporary file.  The
  result may be torn, which the hash detects, and the earlier version is lost; or
  one reports an error although its data is stored.  `SnippetFileIsAVersion` holds all the
  same.  The quota counts what is there before the save, so two saves at once pass it.
- `EntryFileIsTheEntry` excepts a file that another command overwrote: `history get`
  "uses entry ID prefix + ts for uniqueness" (main.go:1257), but the prefix is the same for
  weeks and the time is a second.  `relay fetch` names its file the same way.
- `FetchesDecrypt`: after another `relay init` a machine has a new key and the old token.
  It can send nothing, cannot read its mail until `relay pair`, and mail to the old device
  is not found afterwards.  A daemon goes on with what it read at its start.
- `SendsReachTheNamed`: peers come first, but when they cannot be listed a send falls
  through to any registered device that matches, and of several that match a prefix
  it takes one.
- `FewOvertaken`: the history "evicts the oldest" (history.go:63) by the order of
  addition; the order of capture differs by less than `max_in_flight` reads.

## 5. Fairness

- Relay (`Fairness`): goroutines are scheduled (weak fairness of the steps
  that wait for nothing and of `Compact`); Go's RWMutex lets a waiting writer keep later
  readers out and hands over to readers after a writer, so each handler that wants the
  lock, and the clean-up, gets it (strong fairness); the ticker fires and time
  passes.  Nothing is assumed of clients: `Arrive` has no fairness.
- Hub: the pumps are scheduled, a write returns within its five seconds and the
  library notices a broken connection; nothing obliges a client to read.
- Watcher: the ticker goes on and every tool returns, since each call has a
  timeout of its own.
- Commands: none; they may be killed at any step and have safety properties only.

## 6. Proofs

`RelayServer_proofs` proves with TLAPS, for any sets of devices, IDs and handlers, any
TTLs, any cap and any width of a `time.Duration` (with the assumptions named in `RelayStore`
and `RelayServer`):

| Theorem | Statement |
|---|---|
| `Typed` | `Spec => []TypeOK` |
| `AnswersAreTheSenders` | `Spec => []AnswerIsTheSenders`, if `ClockAdvances` |
| `OnlyExpiredDangle` | `Spec => []DanglingOnlyExpired`, if `ClockAdvances` |
| `OnlyExpiredDropped` | `Spec => DropsOnlyExpired`, if `ClockAdvances` |
| `InboxesStayCapped` | `Spec => []InboxWithinCap` |

None of these is inductive alone.  The inductive invariant `Inv` adds to the types

- `Shapes`: what a request's record holds at each of its steps;
- `StoreTraced`: what is stored under an ID is what was sent under it, and a
  reference names an upload of the sender, to the receiver, that it stands for;
- `Traced`: the same of what a handler carries from one critical section to the next;
- `KeptOrExpired` in `LandingKept`: the blob a handler is about to refer to is
  there, or `Compact` has removed it because it is expired;
- `DoomedExpired`: `Compact` only condemns blobs that may go.

That the code's test for an expired blob, with its overflow and its saturation, is true only
of one that has outlived its TTL or whose TTL overflows is the lemma `ExpiredMayGo`.
Nothing is said of what `Compact` has collected: the index entries and slots it deletes
need not refer to anything expired any more, and removing a reference leaves none dangling.
`AnswerIsTheSenders` is then the last case of `Traced`, and `DropsOnlyExpired`
follows from `StoreTraced` and `DoomedExpired`.  The assumption `ClockAdvances`
is needed: with repeating IDs an ID stands for two uploads.  The proof that a
step keeps the invariant has a lemma per group of actions, one for each part.

`RelayMailbox_proofs` proves that the server implements the abstract mailbox, for any
devices, IDs, handlers, TTLs and cap, with expiry and with `Compact` at any moment.

| Theorem | Statement |
|---|---|
| `MailboxImplemented` | `Spec => ImplementsMailbox`, if `ClockAdvances` |
| `NothingComesBack` | `Spec => Mailbox!NeverRedelivered`, if `ClockAdvances` |

The step from the server to the mailbox needs `Inv`, `InboxWithinCap` and, as `MailInv`,

- `OwnMail`, `NotYetThere`: an upload's ID is one handler's only, and in no inbox before
  that handler's `PutSlot`.  So putting the blob is no step of the mailbox, and
  `PutSlot` is its `Deliver` of mail that was not placed before (`PutSlotPlaces`);
- `BoxThereOrStale`, `VictimIsStale`: the inner map an upload writes to is gone, and
  `Compact` is past its scan, only while there is stale mail.  So `PutSlot` into
  a map that is gone is `Mislay`, `CompactPrune` is `Purge`, and neither can happen
  as long as every upload is within its time to live;
- `SweepsOne`: the slots `Compact` is about to delete are of one sender, as an ID is
  in one slot at most, and were mail that had been placed.  So `CompactClear` is
  `Sweep` of that slot, whatever is in it by now (`ClearSweeps`);
- `IdleIsBlank`, which the others rest on.

An eviction needs a full box (`PutResultsCap`): every slot of it can be fetched, or
one refers to a blob that is gone, and then there is stale mail (`DanglingOnlyExpired`).
`Moves` says what a step does to one handler; `CleanExpired` and
`CompactBlob` are `Expire` (`RemovalExpires`), the rest `Age` or no step.

`RelayPersistence_proofs` proves every property of the run `relay_persistence`, for any
devices, tokens, IDs, handlers, TTLs, cap, crashes and failed writes, from the
assumptions of `RelayStore` and `RelayPersistence` (the constants' types; `None` is
no state and no fact).  What an upload makes of an inbox is `PutResultsType`, a lemma
about `RelayStore` that `RelayServer_proofs` states too, as is `ExpiredMayGo`.

| Theorem | Statement |
|---|---|
| `PersistenceTyped` | `Spec => []TypeOK` |
| `KnownDevicesAuthenticate` | `Spec => []KnownDevicesCanAuthenticate` |
| `NoDanglingReferences` | `Spec => []ReferencesAreLive` |
| `DurableWhenAlone` | `Spec => []DurableUnlessBehind` |

The inductive invariant `IInv` adds to the types and to `ReferencesAreLive`

- `Tokens`: every device's token is its own in memory, on disk and in what a `Save` has
  marshalled so far.  `Devices` comes before `Tokens` in `PersistentState`, and tokens are
  only added, so the tokens in a file are at least those of its devices (`SnapKnown`); in
  the other order a file could know a device and not its token;
- `Alone`: a `Save` that no other overlaps has marshalled what memory still holds, as
  nothing changes the maps without a `Save` of its own - but for a blob whose reference is
  not put yet (`BeingPut`) and for those that go meanwhile, which may go anyway;
- `Done`: what was or will be acknowledged is so in memory; on disk too,
  unless `behind`, if its `Save` has ended.  The token `handleRegister` answers to a known
  device before its `Save` is on disk already: if it were not, its registration would
  still hold `s.mu` (`Registering`, `DevicesOnDisk`);
- `Uploads`, `DoomedExpired`: a blob in memory, on disk or in what a `Save` has marshalled is
  the upload of its ID, and the clean-up and `Compact` condemn only those that may go;
- `Cleans`: the cleanup goroutine holds `s.mu` while it cleans, and does not save then;
- `Down`: a server that is down has only its file.

`ReferencesAreLive` of memory needs nothing about the file: `Load` makes it so of any file.  A
blob goes before the references to it, and what `DropRefs` deletes by mistake dangles
nowhere, so only `DoomedExpired` and the blob a handler is putting (`PutsAlone`) matter.

`ClipboardServer_proofs` proves every property of the run `clipboard_server`, for
any sets of handlers and items, any size and TTL of the history, any number of
slots and any limit of the cache.  It assumes `HistoryAssumption` and
`ServerAssumption`, which say that the constants are of their types and `None` is none
of the values it stands beside; that a read has a time of its own is part of `Read`.

| Theorem | Statement |
|---|---|
| `Typed` | `Spec => []TypeOK` |
| `SlotsReturned` | `Spec => []SlotsAreReturned` |
| `IdsStayNamed` | `Spec => []IdsNameTheirRead` |
| `StoredIsDropped` | `Spec => []MetadataIsDropped` |
| `OvertakenByFew` | `Spec => []FewOvertaken` |

The inductive invariant `IInv` adds to the types and to `MetadataIsDropped`

- `Slots`: the free slots and the handlers that hold one are all there are, which
  is why `free` never exceeds `MaxInFlight` and all are free when nobody is served;
- `Names`: what a handler carries is what was read at its ID's time (`Named`), an ID
  that is not in the history yet is nobody else's (`Fresh`), entries and
  analyses agree with the reads (`HistoryNamed`), and nothing is stored for a time
  that has not come (`NothingAhead`, without which a read could be born with an
  analysis);
- `Few`: for an entry, those behind it that were read before it *and* the
  reads before it that still may be added are together fewer than the slots.  A
  late addition moves from the second group to the first, and the second are
  holders of slots other than the one that adds.

The lemmas `EvictEntries`, `AddEntries`, `EvictKeeps` and `AddKeeps` say what `Add`
does to the entries and to what is stored beside them; each part of the
invariant has a lemma that goes through the steps of a handler.

`WatchHub_proofs` proves every safety property of the run `watch_hub`, for any clients,
capacity and number of notifications, from `HubAssumption` (the capacity is positive).

| Theorem | Statement |
|---|---|
| `HubTyped` | `Spec => []TypeOK` |
| `NothingSentOnClosed` | `Spec => []NoSendOnClosed` |
| `StreamsInOrder` | `Spec => []ReceivedInOrder` |
| `GapsOnlyAfterFull` | `Spec => []GapsOnlyWhenFull` |

The inductive invariant `IInv` adds `Stages` (a client is a subscriber exactly while
its ReadPump reads, its channel is closed only after that, and before it subscribes its
stream is empty), and that nothing in a stream is newer than the last notification
(`Orders`).  `Gaps` is `GapsOnlyWhenFull` in a form that leaves out the number before the
stream.  Most steps move a notification within the stream and leave it as it is
(`Quiet`); of the three that do not, `Notify` appends (`OrderedAppend`, `GapAppend`) and
a failed write loses one from the middle (`OrderedWithout`).

`ClipboardWatcher_proofs` proves every safety property of the run `clipboard_watcher`, for
any items, gaps between ticks, debounce, throttle and number of failing tools, from
`WatcherAssumption` (which contents are tiny or short, an item's fields, types).

| Theorem | Statement |
|---|---|
| `WatcherTyped` | `Spec => []TypeOK` |
| `FewReports` | `Spec => []ReportsAreBounded` |

The inductive invariant `IInv` adds to the types a `Budget`: reports so far, and those that may still come -
because this tick's formats are new (`DueNow`), because a later tick's will be
(`DueLater`), and for each content whose hash is not kept (`DueText`, `DueImage`) -
are together at most two more than the contents.  Looking at the formats turns `DueLater`
into `DueNow`, every report uses up one of them, and only a `Copy` or a `Reload`, with which
the count starts anew, makes more due - or a disabled watcher, which forgets all and so
must end its one tick under way before it can report anything again.

`Commands_proofs` proves every property of the run `commands`, for any snippet names,
lengths and savers, any readers, size and TTL of the history, any machines, devices,
clips and arguments.  It assumes `SnippetAssumption` (an inode for every name, temporary
name and handle: the disk is not out of inodes), `HistoryAssumption` and
`HistoryFetchAssumption` (a reading of the clock is an ID), and `RelayClientAssumption`
(`Absent` is no machine or device, an argument is a set of devices).

| Theorem | Statement |
|---|---|
| `CommandsTyped` | `Spec => []TypeOK` |
| `SavedSnippetIsKept` | `Spec => []LoneSaveIsKept` |
| `NamedIsWritten` | `Spec => []FilesHoldWhatWasNamed` |
| `RelayCommandsAmongOthers` | `Spec => [](FetchesDecrypt /\ SendsReachTheNamed)` |
| `RelayClientTyped` | `RelaySpec => []RelayTypeOK` |
| `RegisteredDevicesDecrypt` | `RelaySpec => []FetchesDecrypt` |
| `SendsAreForTheNamed` | `RelaySpec => []SendsReachTheNamed` |
| `FetchesAreFromTheNamed` | `RelaySpec => []RelayFileIsFromTheNamed` |

The last four are about `RelayClient` alone.  Every family has an inductive invariant;
their conjunction, `CommandsInv`, is one of `Commands` because a step of one family leaves
the variables of the others alone.

`SnippetInv` adds to the types

- `Apart`: a snippet's file and its temporary file are two, no two snippets share an inode,
  and a save has one open only while it writes.  So what one step writes or lets go is
  nobody else's, and an inode that is used anew (`Unused`) was nobody's: there is always
  one (`SomeUnused`, by counting);
- `Pieces`: every part of what is in a snippet's inodes comes from something that somebody began
  to save under its name.  Torn files are allowed; a file that loads is one version
  throughout, so it is one of those, which is `SnippetFileIsAVersion`;
- `Alone`: a save that no other save of the snippet overlaps finds in the temporary file what
  it has left there - nothing after `OpenTmp`, its whole version after `WriteTmp` (`Ready`) -
  and cannot find it gone.  What an earlier save left there is emptied by `OpenTmp`: this is
  the step that the mutant `OpenAsItIs` breaks;
- `KeptInv`: the file that such a save renamed has its version, and nobody has it open
  (`Settled`).  Without the second part a save with a handle from before the rename could
  still change it.

`HistoryInv` adds that an ID is one item's and that no entry is of a time to come
(`Dated`), and of each command that was told of an entry: what has its ID now, if
anything has, is the item that was meant (`Told`).  It needs that what `Add` leaves are
entries that were there, at most `HistorySize` of them with the new one (`EvictIs`,
`AddIs`).  Of a command that has written: its file holds what it
meant, or is another command's by now (`Left`).

`RelayInv` adds to the types

- `Sealed`: what lies in a box was encrypted for the box's device by the one it
  is filed under, and was sent by it.  This is where the relay's refusal of a device
  that is not the token's is needed;
- `Sound`, for every command: what it has found out by the step it is at (that the
  device it sends to matches its argument, that the mail it holds is for its token
  and from its sender, ...).  The properties are its last cases.

`Sound` of a command depends on other commands only through `peers` and `sent`,
which grow; `SoundGrows` says that it stays true, and so each action is
left with the one command that takes it.

`HostSetup_proofs` proves every property of the run `host_setup`, for any terminals, hosts,
ports and settings, any content of `~/.ssh/config` and any number of commands and faults.
It assumes `SetupAssumption` and `SSHConfigAssumption`: types, and that `None`, `Torn` and
`NoMark` are none of the values they stand beside.

| Theorem | Statement |
|---|---|
| `TypeCorrectness` | `Spec => []TypeOK` |
| `InstalledHostIsForwarded` | `Spec => []HostIsForwarded` |
| `DeliveredIsAccepted` | `Spec => []DeliveredTokenIsAccepted` |
| `SettingsNeverChange` | `Spec => UserSettingsKept` |
| `LoneSuccessIsHealthy` | `Spec => SuccessMeansHealthy` |

First come lemmas about the editor.  Inserting lines into a file or cutting some out moves
the others (`Spliced`, `Place`), and a block ends at the next header, so that a change within
a block leaves every other block as it was (`BlockGrows`, `BlockShrinks`).  From this:
`AddRemoteForward` makes its host forwarded (`AddHas`), unless there is a conflict, keeps the
user's settings (`AddKeepsOwn`) and every other host's forward (`AddKeepsOthers`);
`RemoveRemoteForward` keeps the same (`RemoveKeeps`).  Removing a whole block is safe for the
settings because at most one content line other than the forward is left in it, and that is its
header.  It removes the first line with the forward's text, in whatever block that is: the text
carries the marker of its host, so it is nothing of the user's.

The inductive invariant `IInv` adds to the types

- `Placed` and `Suited`, for every command: it is at a step of a plan of its kind, has the rest
  of the plan left, and has a host where its plan needs one.  Without them a step such as
  `write-ssh` could be anyone's;
- `Current`: what a command has read is what is there, or it is outdated, unless it is
  removing the configuration itself.  This holds in
  spite of other commands, since a write marks all that have read (`Outdate`).  The user's settings in
  what a command has read are those of the file even when it is outdated, since no
  write changes them: so `UserSettingsKept` needs no exception for clobbering;
- `Forwarded`: an `add-host` that is about to save has its forward in the file, which is what makes
  it true of a host that joins `whole`; and a host being removed is not in `whole`;
- `Delivers` and `Delivered`: the token that a command has copied, while it counts as fresh, and
  the token of a host in `delivered` are those of the token file.  Whatever changes the file or a
  host's token takes the freshness away (`Stale`, `Others`);
- `OnePort`: a host's port is the configuration's, so the forward that a
  command added with the port it had loaded is the one `HostIsForwarded` looks for;
- `Generated`: the tokens made and the commands that have still to make one are together at most
  the commands started, and one.

`HostIsForwarded` itself is the last part.  Most steps are quiet to other commands
(`QuietInv`); the lemmas `WriteInv`, `SaveInv`, `LostInv` and `StaleInv` are those that are not.

`SuccessMeansHealthy` needs a second invariant, `CalmInv`, of a command that runs alone
and has met no failure: nothing it has read is outdated; an `add-host` has done the
steps before its own (`Adding`), and of a host that doctor works on, what is not good is a fix it
has still to do or is doing (`Fixing`), while the hosts it has done are good (`Doctoring`).
This is where order matters: no later step of `InstallPlan`, and no other fix, undoes
an earlier one (`Progress`).  That a token which is not there is not open (`Closed`) is needed for the
host that has none.

Every safety and action property of every passing run is a theorem; those of the runs that
expect a violation are false.  What is only
model-checked: liveness (`RequestsAreAnswered`, `ExpiredBlobsAreRemoved`, `BrokenAreRemoved`,
`QueuedIsReceived`, `NewContentIsReported`, `WatcherStops`), which is out of the prover's
reach, and what `ClipboardDaemon` adds to `ClipboardServer`, whose run shows a violation.

## 7. Not modelled

- Refusals that change nothing: malformed bodies, size and format limits, and the
  relay's rate limiters (per IP and device).  A rate-limited request is one that
  has not arrived.  In `ClipboardServer` a refusal is a free choice, as it holds a slot.
- Encryption and signatures: library calls, symbolic in `RelayClient`.  History data
  is encrypted and decrypted with one key; nothing calls `UpdateKey` but a test.
- In `RelayClient` the relay keeps its devices and peers, as `RelayPersistence` shows it
  does, and its handlers are single steps, as in `RelayServer`; the order of lists is
  free.  Envelopes, `EncryptAndUpload` and `DownloadAndDecrypt` are used by no command.
- Commands that only print: list, status, logs, `list-hosts`, `relay devices`, `inbox` and
  `status`, watch, and the checks of doctor without a fix.
- In `HostSetup`: finding out the architecture and the local binaries, making directories,
  `--termius` (it edits no file), the truncation when doctor writes the token file again
  with what it read from it (`FixKeychain` leaves the file as it is), `--local-token` and the permissions of the local token
  file, the environment's overrides, the unit's text, launchd, and a user who edits
  `~/.ssh/config` at the same time.
- In `SSHConfig`: indentation and the spelling of keywords.
- Scores of `Search`, which are floating point; the recall cache; list, health
  and version handlers, which change nothing; `handleDirectPaste`, a stub that
  answers with fixed values.
- The unsynchronised replacement of the configuration, rules and pipelines by
  a reload (server.go:416 says it is accepted): what requests are refused for is
  a free choice already.
- The caches' files: `Server.Shutdown` saves them, but nothing in the
  daemon calls it; a restart starts with empty caches although server.go:281
  says "on shutdown/reload".
- Dashboard, platform tools, skills: I/O and display.
