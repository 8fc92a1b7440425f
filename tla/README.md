# TLA+ models of CapybaraGram

CapybaraGram adds private notes, a message archive, an embedded connection
mode, offline transcription and a few smaller features to the Android and
Windows Telegram clients. The repository holds these additions (`src/ci/...`),
the scripts that patch them into upstream sources at build time, and the scripts
that try the result on an emulator. This directory models the additions that keep
durable data, run several threads or wait for somebody's answer, and the way a
client takes from a checkout to an accepted build: what each part promises, how
the code keeps the promise step by step, and what happens when a step fails, a
process stops, or two threads meet.

- [1 The system](#1-the-system): components, state, interactions, what is hard
- [2 The modules](#2-the-modules): which module models which code, and how
- [3 The runs](#3-the-runs): what TLC checks, with which bounds and fairness
- [4 The proofs](#4-the-proofs)
- [5 Disagreements found](#5-disagreements-found)
- [6 Abstractions](#6-abstractions)
- [7 Not modelled, and the plan](#7-not-modelled-and-the-plan)

Paths are relative to `src/ci/` unless they start with `src/`.

## 1 The system

### Windows vault: registry and store (`windows-vault/vault_registry.*`, `vault_store.*`)

*State.* One index directory with a sealed identity, an account record per
slot (owner, authorization, generation), a journal record per generation that is
being created (`C`) or retired (`R`) and a reset marker; one data directory per
generation. Everything is a small file written by `AtomicWrite` or removed by
`DeleteFile`.
*Operations.* Construction (which may finish a pending reset), `open` (find,
retire or create a slot's generation), `logout`, `forgetAll`, `retryCleanup`.
*Hard.* Every call is a sequence of disk operations of which any may fail and
after any of which the process may stop; the next call, perhaps in another
process, must find out from the files alone what was meant.
*Correct when* a login's data is handed out to that login only, committed data
survives, retired data never comes back and is eventually gone, and a reset is a
barrier nothing passes.

### Windows vault: worker (`windows-vault/vault_worker.*`)

*State.* The UI thread's table of sessions, a FIFO queue, the worker thread's
stores, the `Gate` (alive, locked, epoch), the UI mailbox.
*Operations.* `attach`, `detach`, `request`, `setLocked`, `forgetAll`,
destruction on the UI side; attach, detach, forget and request tasks on the
worker's side; posted replies. It calls the registry.
*Hard.* Sessions, locks and resets overtake queued requests and posted replies.
*Correct when* what a reply shows is of the session in force, a fresh login never
sees older data, and what was revoked stays revoked.

### Windows archive: store (`windows-archive/archive_store.*`)

*State.* A catalog and, per entry, a snapshot and chunks, over the same file
layer; in memory the entry list and `cleanupPending`.
*Operations.* `open`/`recover`, `add` (stage, trim to the quotas, publish the
catalog, erase what fell out).
*Hard.* Quotas, crashes and failures between any two files, and a file that got
lost behind the store's back, which must not trigger the erasure of others.
*Correct when* the catalog is backed by files, an `add`'s answer is true, and a
failed cleanup does not disable the archive for good.

### Windows archive: worker (`windows-archive/archive_worker.*`)

*State.* Sessions, limits of outstanding text, media and request jobs, a FIFO
queue, per-slot storage opened lazily, deferred cleanups, the mailbox. It owns a
registry and a vault of its own.
*Hard.* Captures go on while the application is locked and must not be shown; a
clear revokes results that are under way; limits have to be given back on every
path.
*Correct when* what is shown is in force and newer than the last clear, no job
touches another session's data, and every job is answered or dropped.

### Connection mode, Android (`android-connection/`) and Windows (`windows-connection/`, `windows-connection-native/`)

*State.* The route or proxy in use, the phase shown to the user, a revision or
generation counter, one worker thread, and the tunnels of the native core
(`connection/native_api.rs`, 16 at most).
*Operations.* Switch on and off, select an ordinary proxy (from any thread on
Android), initialise an account's network (Android), finish or fail a start,
close.
*Hard.* A start takes seconds, so its outcome races newer wishes; cancellations
are coalesced; on Android three threads touch the route.
*Correct when* traffic goes to the running tunnel of the latest wish or to the
ordinary route, every start is answered, and no tunnel survives its wish.

### Android vault (`vault/AndroidVault*.java`, `notes/CapyVault.java`, hooks of `notes/prepare_android_notes.py`)

*State.* `SharedPreferences` with the user, the reference to a generation and its
owner, and tombstones; key store entries; databases; a retirement flag and an epoch.
*Operations.* Owner change, logout in four steps, lock, submissions to the worker
(open or create the generation, run, post), destruction, and the sweep at start.
*Hard.* The login thread, the worker thread and the UI thread interleave, and
`commit()` may fail: the in-memory preferences change and the file does not.
*Correct when* a callback belongs to the login it shows to and data is either
referenced or going to be destroyed at every point the process may stop.

### Windows transcription (`windows-voice/`)

*State.* One job at a time, its cancel flag and engine; boxes on the UI thread.
*Hard.* A cancel crosses the creation of the engine, the end of the job, the
posted result and the end of the application.
*Correct when* a cancel reaches whichever of these is next, and nobody waits for
ever.

### Android requests (`read-mode/`, `android-capture/CapyScreenshotRequest.java`, `accounts/notification_binding.py`)

*State.* Per account slot a read session (owner, silent, retired), preferences per
user (silent mode, screenshot reports), the read mode dialog, requests on their way
through the stage queue, notifications stamped with their user.
*Operations.* Login and logout; a receipt is captured, queued, passes the gate and
is sent; a secret chat's; a confirmed one; a screenshot's report; the hops of a
notification's action.
*Hard.* Between capture, queue, gate and answer another user may have logged in to the
slot, the same one may have come back, and modes may have changed.
*Correct when* what leaves was permitted by the user and session it was made for, and
what is checked before it is used crosses from no user to another.

### Windows folders (`folders/prepare_windows_*.py`)

*State.* The client's copy of the folders and their order, requests in flight, one load
in flight with a reload pending, the bulk save of the settings.
*Hard.* Answers come in any order, a load may have read the server before an edit that was
answered earlier, and parts of a bulk save fail.
*Correct when* the client shows what the server holds once all is answered, and the settings
go on once, and only if everything was saved.

### Windows read mode (`windows-read-mode/`)

*State.* The session's setting, the policy of an MTP instance that outlives sessions, with a
permit for one explicit read; scheduled reads; the box that changes the mode or confirms a read.
*Hard.* Suppressed reads are failed by a timer, boxes close, sessions are replaced under the
same instance.
*Correct when* silence is kept, one confirmation lets one read through, and each answer
reaches who asked.

### Build pipeline (`src/.github/workflows/*-candidate.yml`, `windows.ps1`, 33 preparation scripts, `collect_android.py`, secrets)

*State.* A checkout of the client, which scripts rewrite file by file; for every script, the
hashes of what it expects and leaves; a signing file or API cache in the runner's directory;
the product and the directory that is uploaded.
*Operations.* Validate, write, report; check; build; collect; upload; clean up.
*Hard.* A script may die between two writes or within one, be called out of turn, or
meet what an earlier job left; several scripts rewrite one file, in an order that only
their pinned hashes agree on.
*Correct when* nothing is published but what all scripts have prepared in the reviewed order,
that order is never refused, and no secret stays on the runner.

### Trials on an emulator (`android_sandbox_smoke.py`, `android_client_smoke.py`, `android_candidate_runtime.py`)

*State.* The emulator, the page it shows, the last dump of its user interface, the marks found
so far, `verification.json`.
*Hard.* A dump may fail, be late or leave an old file; the screen changes between the dump
and the act; every command can fail.
*Correct when* the script acts on what it has observed, reports only what the device showed, and
stops its emulator.

### Further components, not modelled

The archive's screens and media on both platforms, the notes screens, the Android archive, the
vault's cryptography and schema, the connection core, Android transcription, the capture gate, the
Android folder editor, account limits, the installer, and probes and benchmarks. Section 7 says why.

### Interactions

    UI thread ──attach/request/lock──▶ VaultWorker   ──open/logout/forgetAll──▶ VaultRegistry ──▶ files
              ──capture/clear/lock───▶ ArchiveWorker ──open/logout/forgetAll──▶ VaultRegistry
                                                     └─add/recover───────────▶ ArchiveStore  ──▶ files
              ◀──────────posted replies──────────────┘
    voice boxes ──submit/cancel──▶ voice worker ──▶ engine
    settings, proxies ──▶ route/service ──▶ connection worker ──▶ native tunnels
    UserConfig hooks ──▶ AndroidVaultCoordinator ──▶ preferences, key store, databases
                     ──▶ CapyReadReceipts sessions ◀── stage queue ◀── receipts, reports
    settings, chats  ──▶ ChatFilters, Histories ──▶ MTP instance (gate) ──▶ server
    workflow ──▶ preparation scripts ──▶ checkout ──▶ build ──▶ artifact ──▶ trials

Boxes and the archive use the *usable* check of the vault worker; the archive
worker and the vault worker share no data. Every arrow to a worker is a queue,
every arrow back a post to the UI loop.

## 2 The modules

| Module | Models | Abstract specification |
|---|---|---|
| `VaultRegistry` | `vault_registry.cpp` over the file operations of `vault_store.cpp` | `VaultRegistrySpec` |
| `VaultRegistry_proofs` | theorems about `VaultRegistry` | |
| `VaultWorker` | `vault_worker.cpp` | uses the registry as in `VaultRegistrySpec` |
| `VaultWorker_proofs` | theorems about `VaultWorker`, `DesktopFolders`, `DesktopReads` | |
| `ArchiveStore` | `archive_store.cpp` over `vault_store.cpp` | `ArchiveLogSpec` |
| `ArchiveStore_proofs` | theorems about `ArchiveStore` | |
| `ArchiveWorker` | `archive_worker.cpp` | uses `VaultRegistrySpec`, `ArchiveLogSpec` |
| `ArchiveWorker_proofs` | theorems about `ArchiveWorker` | |
| `AndroidConnection` | `CapyConnectionService`, `ConnectionController`, `MemoryRoute` | `ConnectionSpec` |
| `AndroidConnection_proofs` | theorems about `AndroidConnection` | |
| `WindowsConnection` | `capy_connection_service.cpp`, `connection_worker.cpp` | `ConnectionSpec` |
| `WindowsConnection_proofs` | theorems about `WindowsConnection`, `VoiceWorker` | |
| `AndroidVault` | `AndroidVaultCoordinator`, `CapyVault`, its hooks | |
| `VoiceWorker` | `voice_worker.cpp`, `capy_voice_ui.cpp` | |
| `AndroidRequests` | `CapyReadReceipts`, its hooks, screenshot reports, notification actions | |
| `AndroidRequests_proofs` | theorems about `AndroidVault`, `AndroidRequests` | |
| `DesktopFolders` | `folders/prepare_windows_{folders,mutations,reconcile,bulk}.py` | |
| `DesktopReads` | `windows-read-mode/` | |
| `PreparedTree` | what the preparation scripts promise about a checkout | it is one |
| `ReleaseJob_proofs` | theorems about `PreparedTree`, `ReleaseJob`, `DeviceRun` | |
| `AndroidSources`, `WindowsSources` | what every preparation script reads, writes and creates; the steps of the two workflows | |
| `ReleaseJob` | the two candidate workflows, their scripts and the accidents around them | `PreparedTree` |
| `DeviceRun` | the three scripts that try a client on an emulator | |

Every `MC*.cfg` gives constants their values. `MCVaultRegistry`, `MCArchiveStore`, `MCArchiveWorker`
and `MCAndroidConnection` add a symmetry set or the value of a constant and nothing else. The other
four put parts of one program side by side, each an `INSTANCE` with variables of its own:
`MCVaultWorker` the vault worker, the folders and silent reading of the Windows client;
`MCWindowsClient` its connection and its transcription; `MCAndroidVault` the vault and the requests of
an account slot on Android; `MCReleaseJob` the job and the trials. These parts share no state and
never wait for each other, so their interleavings would show nothing that one part alone does not
show. `part`, chosen by the initial state, says which of them runs, and the state graph is the union of
theirs instead of the product.

**VaultRegistry.** `index`, `binding`, `journal`, `reset` and `data` are the files;
`pc`, `op`, `args`, `cur`, `back`, `slotsLeft`, `recordsLeft` and `complete` are the
call in progress; `store` is what the caller holds. Each disk operation is a step:
`open` goes through the reset barrier, the sweep of `retryCleanup`, the comparison of
the binding (`Decide`), and either returns the store, writes an `R` record and cleans,
or creates (`Record`, `MakeDirectory`, `WriteIdentity`, `Publish`, `Commit`). `clean` is
unbind, mark, purge, drop. `Throw` ends a step by the catch clause it would meet
(`CaughtInClean` for the sweep, `CaughtInReset` for one slot of a reset, `Uncaught` for
the caller) and `Crash` drops everything volatile. Failures and crashes are unbounded.
`VaultRegistrySpec` has none of this: bindings, retired generations, offered stores. A
binding is in force unless the marker or its own `R` record is on disk; the mapping
(`activeBar`, `retiredBar`) says so.

**VaultWorker.** One action per public method on the UI side, with `setLocked` split
between its exchange and its `++epoch`; one per task on the worker's side, the request in
three (take and check, run, post). A registry call either does what the abstract
registry allows or stops half-way with an effect it allows. `asked` follows each request
until it is shown or dropped.

**ArchiveStore.** Files are keys `<<entry, part>>`, and a write is three steps (create
the temporary, fill it, move it into place), so a stop leaves the temporaries it can
leave. `add` stages the chunks and the snapshot, chooses what to drop, replaces the
catalog and erases; `recover` validates every reference before it erases anything.
`lost` is damage from outside. `ArchiveLogSpec` is a log that forgets its oldest entries
and tells every caller the truth about its `add`.

**ArchiveWorker.** As `VaultWorker`, with admission under limits (`count`), the two
notions of validity (`Current` for captures, `Visible` for what is shown), clears with a
revision, and per-slot storage whose vault and archive are opened separately. The reader of a media
capture looks at its session while the store reads (`ReadMedia`); the store writes afterwards (`AddEntry`)
and nothing looks again.

**AndroidConnection.** `MemoryRoute`'s methods are atomic (they hold its lock); what
callers do around them is not: selecting a manual proxy is `Select`, `Publish` and
`ScheduleFrom` on any thread; an account's `native_init` is bracketed by
`BeforeInitialize` and `AfterInitialize`. The controller's worker and its posts are
separate steps. `WindowsConnection` is the smaller sibling: service and settings on the
UI thread, one worker that coalesces requests and replies.

**AndroidVault.** `prefs` and `cleanup` have a memory and a disk half, so that a failed
`commit()` and a restart do what they really do. Logout is `Revoke`, `RetireStored`,
`RemoveStored`, `EnqueueDestroy`, then `ClearConfig`, with other threads in between;
destruction is tombstone, unbind, delete key, delete file, forget. A login is a user and a
number that goes up with every logout: an owner that changes without one and changes back
meets its own data again, as in the code.

**VoiceWorker.** A job's passage through `loop` step by step: begin, verify, choose,
download, verify again, decode, make the engine, publish it, transcribe, release, check,
post. A cancel is two steps (flag, engine) with everything else between them; the
destructor is three, and the worker's mutex is held across the last two.

**AndroidRequests.** `slot` is `sessions[account]`; every look at it may make a new session, as
`CapyReadReceipts.session` does. Logging in and out are two steps each (`SetCurrentUser`,
`OwnerChanged`; `BeforeLogout`, `ClearConfig`), from any thread. A receipt or a report is made
(`SendReceipt`, `Report`) with the session it was captured in, waits in `stage`, passes
the gate and is answered. Who looks at an answer differs: the callbacks of explicit reads and of reports
compare the session (`Answer`); an automatic receipt keeps its host's callback, which compares nothing
(`HostAnswer`). A notification's action is received by one that compares the user of the intent
(`Receive`). A reply goes on with that user; a callback with whoever is logged in when
`sendNotificationCallback` captures it (`bound`), which is a step of its own. Each queue behind, and the
answer to a callback, compares the user again (`Hop`). The dialog's confirmation is looked at and carried out in two steps. The history
fields of a request (`madeIn`, `quiet`, `sentIn`, `sentAs`, `usedIn`, `usedAs`) record what the properties compare.

**DesktopFolders.** The content of a folder, and the order, are each the number of the edit they come
from. Edits, orders, removals and the bulk save put requests in flight; the server
accepts or refuses them in any order and answers come back in any order, a load's among them. A folder
under removal stays visible until the answer, so it can be edited, saved or removed again meanwhile.
`Reload` is the patch's `reload`: start a load, or remember that one is due.

**DesktopReads.** A read request is suppressed, sent, or held to be failed by a timer; `policy` is what
`sendRequest` asks. `StartSession` is what the patch adds to the session's constructor: the instance is
told the setting of the session and forgets the permit of an earlier one. The box toggles the mode or
sends one explicit read, and is closed by what the code closes it with.

**PreparedTree, AndroidSources, WindowsSources, ReleaseJob.** The content of a file is the set of the tools
whose edits it holds: a tool's pinned hashes name the set it expects (`Pre`) and the one it leaves
(`Post`). `PreparedTree` is the promise: validate everything, then write file by file, pass, or be
interrupted; a mismatch is a refusal. The two source modules list each script's files in the
order it writes them, which of them must be new, what else it verifies and what it asks of `git
status`; they are data, read off each script. `ReleaseJob` runs the workflows over them: steps, the
failure of a step, the clean-up that runs `always()`, what the build takes, what the
collection verifies (of the transport only what it can see, `unfit`), a death within a write, a lost runner, a stray script, a restart on the same runner
or a new one.

**DeviceRun.** A `Program` per script, as a sequence of steps with the page each acts on and the pages it
may lead to; the loops over overlays and delays, the mark each check sets, the look with its attempts
and its remote file (`Dump`, `LookFails`, `Observe`), and the `finally` (`Report`, `Diagnose`, `Stop`,
`Kill`, after which the script fails if the emulator is slow to go). A code form of another length is
waited for, taken on the last turn, and never typed on. `harm` records an act on a page the script did not observe and a mark the device did not earn.

## 3 The runs

Every passing run has a mutant per property: the property fails if the definition it
names is changed the way a slip of the pen would.

| Run | Instance | What it shows |
|---|---|---|
| `vault_registry` | 2 slots, 2 authorizations, 2 generations, any number of failures and crashes | `LoginsRespected`: stores handed out are their login's and stay valid. `DataAccounted`: interruptions neither cost committed data nor leave orphans. `ResetBarrier`. `ImplementsSpec`: it implements `VaultRegistrySpec`. `RetirementFinishes` |
| `vault_worker` | vault: 1 slot, 2 logins, 2 handles, 2 requests, 2 generations, 2 epochs; folders: 2 folders and their order, 3 edits, 1 forced load; reads: 3 reads, 2 sessions; symmetry of logins | `ReplyInForce`, `FreshLoginStartsEmpty`, `RevocationHeld` (nothing revoked shows, nothing in force is dropped, and the registry is used as it assumes), `RequestsAccounted`. `Reconciled`: the folders shown end up being the server's, but for the three cases of section 5. `BulkHonest`. `ReadsSound` |
| `archive_store` | 3 adds of up to 1 chunk and a snapshot, 2 rows, quota of 3 records | `DirectorySound`: catalog backed, quotas at rest and at the worst moment. `EvidencePreserved`: no erasing on damaged evidence. `ImplementsLog`. `Recovers` |
| `archive_worker` | 1 login, 1 handle, 2 jobs, 2 generations, 1 clear, 1 epoch | `ShownInForce`, `BooksBalance` (limits and deferred cleanups), `JobsSettle` |
| `archive_worker_logins` | 2 logins follow each other in a slot, 2 handles, 2 jobs, symmetry | `JobsStayHome`: a queued or running job never touches the next session, without locks and resets, which are the other run's |
| `android_connection` | 1 account, 2 proxy-selecting threads, 3 changes of the route, closing | `RouteSound`: accounts follow the route, the route is backed by the tunnel of the latest wish, one tunnel at most. `ImplementsConnection`. `WishesEnd`: starts settle, and revoked tunnels stop |
| `windows_client` | connection: 4 requests; transcription: 2 boxes, 3 jobs | the same promise, with coalesced replies. `CancelHonoured`: engine, callback and box all hear it. `WaitsEnd`: boxes are answered, the destructor returns |
| `android_vault` | vault: 2 users, 2 logins, 2 generations, 2 submissions, 1 lock before the restart, 1 restart, 1 failed operation per process; requests: the same users and logins, 1 request | `ReplyInLogin`, `DataAccounted`, `RetiredDestroyed`. `ReceiptsPermitted`: no receipt leaves against the user's mode or in another login. `StaysWithUser`: reports, checked answers, notification actions and modes stay with their user |
| `release_job` | job: 2 jobs, 1 script out of turn, deaths within any write; trial: 3 dumps of a look of which 2 may fail, 2 overlays, 2 waits | `PublishedIsWhole`, `ReviewedOrderPasses` (the reviewed order is refused only after an accident), `SecretsRemoved`, `ImplementsPreparedTree`. `TrialHonest` |
| `archive_store_litter`, `archive_worker_clear`, `android_vault_removal` | the smallest instances that show them | violations, see section 5 |

**Why the bounds are enough.** A hazard here needs two of something: two logins of one
slot (old and new), two generations (retired and current), two slots (cleaning one must
not touch the other), two requests (one in each of queue and mailbox), two threads
racing on a route, and one restart. Each run gives its component exactly these.
`archive_store` has three adds over a limit of two rows, so that evictions by rows and
by bytes, of one entry and of two, and one after a failed one all happen. Three changes of the route give an
activation that is revoked and a newer one after it. Three jobs let a box retry after
`ModelRequired` while the other one competes. Three edits of two folders and an order
let a bulk save meet an edit whose answer is outstanding, and an order overtake an
order. One request of `AndroidRequests` is enough to
meet two logins, since requests touch each other only through the slot's session; its theorem needs no
bound. Two jobs let one meet what the other left on the runner. The trials' loops are
`Attempts`, `Patience`, `Overlays`, `CodeTurns` = 3, 2, 2, 2 where the code has 12 (4 in one script), 4, 4 and
10: enough to succeed late, fail within the patience, exceed it, and run out. The registry runs without any
bound on failures and crashes, and the proofs do without the bounds on the sizes of theirs.

**Fairness** is weak, and asked only of what the code's own threads do:

| Module | Fair |
|---|---|
| `VaultRegistry`, `ArchiveStore` | the call that is in progress goes on, by its next step or by failing |
| `ArchiveWorker` | the worker's steps, delivery of posts, the second half of a lock |
| `AndroidConnection` | the UI loop, the worker, a selecting thread between its calls |
| `WindowsConnection`, `VoiceWorker` | the UI loop, the worker, a box's timer |

It never asks a disk to work, a user to act or a download to succeed. Where
progress needs the environment the property says so: `RetirementFinishes` and `Recovers`
assume that failures and crashes stop at some point and that calls keep coming;
`WishesEnd` and `WaitsEnd` excuse closing. Threads block only on bounded native calls
(the tunnel's start is limited to two seconds, downloads and decoding have deadlines).
`vault_worker`, `android_vault` and `release_job` check safety only and assume none.

**Deadlock** is checked in `vault_registry`, `archive_store` and `archive_store_litter`.
The other runs switch it off because their systems really may stop: a worker was
destroyed, a job is over, or the bounded number of requests is used up and all queues
are empty.

## 4 The proofs

`VaultRegistry_proofs` proves, for every number of slots, owners, authorizations and
generations and any failures and crashes, from the one assumption `NoneAssumption`
(`None` is not one of the values it stands beside):

| Theorem | Statement |
|---|---|
| `RegistryInvariant` | `Spec => []InductiveInv` |
| `TypeCorrect` | `Spec => []TypeOK` |
| `LoginsHonoured` | `Spec => []LoginsRespected` |
| `DataAccountedFor` | `Spec => []DataAccounted` |
| `SweepsComplete` | `Spec => []CompleteSweep`: when a sweep reports success, no journal record is left |
| `BarrierHolds` | `Spec => ResetBarrier` |
| `RegistryImplementsSpec` | `Spec => Abstract!Spec` |

None of the safety properties is inductive. That a bound generation has its data
depends on the journal record that precedes it, on which steps of `clean` have run, and
on which call is under way. `InductiveInv` names these dependencies:

- `DiskInv`: what the files alone say (slots disjoint, no orphans, bound data whole,
  `R` records only for data that existed);
- `ControlInv`: which call can be at which step;
- `CleanInv`, `CreateInv`: inside `clean(cur)` and inside creation, what has been
  written and what cannot have been;
- `StoreInv`: the caller's stores are in force, and absent where the code drops them first;
- `ResetInv`: the marker is on disk wherever `finishReset` is at work and absent beyond
  the barrier, and the slots visited successfully are unbound;
- `SweepInv`: while a sweep is complete so far, what is pending is still to be visited.

Each group of actions has a lemma that preserves the conjunction; crashes and failures
preserve the disk's part and empty or rewind the rest. The refinement takes the same
invariant and shows every step to be one of the abstract `Bind`, `Retire`, `Discard`,
`Offer`, `Drop` or a stutter. `InductiveInv` was checked by TLC before it was proved.

`WindowsConnection_proofs` proves, from no assumption and for any number of requests
(the bound `MaxRequests` is not used):

| Theorem | Statement |
|---|---|
| `Invariant` | `Spec => []IInv` |
| `TypeCorrect` | `Spec => []TypeOK` |
| `RouteIsSound` | `Spec => []RouteSound` |
| `ConnectionKeepsPromise` | `Spec => ImplementsConnection` |

The hard step is the callback that sets the proxy: it looks at two revisions and nothing
else, so everything it does not look at has to follow from them. `IInv` says why it does:
a pending command is newer than anything the worker holds (`PendingInv`), a delivered reply
is no newer than what the worker did last and older than what it is doing (`ReplyInv`), so
the reply of the latest request finds the worker at rest with the tunnel the reply names
(lemma `ReplyInForce`). `AnswerInv` adds that a start which is pending, under way or
answered but not taken is still shown as starting; with it the callback's effect is the
one outcome `ConnectionSpec` allows. `ProxyInv` keeps the proxy tied to the worker's handle until the
next request, and `TunnelInv` the tunnels to the handle. There is one lemma per action;
TLC checked `IInv` (four requests, 18456 states) before it was proved.

`VaultWorker_proofs` proves `ReplyInForce` (`RepliesAlwaysInForce`), `FreshLoginStartsEmpty`
(`FreshLoginsStartEmpty`), `RevocationHeld` (`RevocationAlwaysHeld`) and `RequestsAccounted`
(`NoRequestLost`) for any slots and logins and any number of sessions, requests, generations, locks and resets,
from no assumption. A reply is checked against the session and the epoch when it is shown, and against
nothing on the worker's side; so why is the store it was read from still the slot's? Because

- a live session is the one its slot has on the UI thread (`LiveInv`), and whatever would end it for the
  worker (its detach, a reset, an attach of its successor) enters the queue only once it is
  not live (`HoldInv`), in the order of the handles (`OrderInv`);
- therefore a store opened for a live session is still open and is what its slot's binding names,
  made by that session's own login (`StoreInv`, `RegistryInv`);
- a reply that would be shown came from that store (`StageInv`, `ReplyInv`), and what was asked
  before a lock or reset is of an earlier epoch (`EpochInv`, `SettledInv`).

The second part of `WindowsConnection_proofs`, whose names begin with `Voice`, proves `CancelHonoured`
of `VoiceWorker` (`VoiceCancelAlwaysHonoured`, and `VoiceTyped`) for any number of jobs and boxes, from no
assumption. `VoiceWorkerInv` says which job the worker has at which step and what engine it may have published,
`VoiceFlightInv` that a job that is neither finished nor posted is the pending or the current one, `VoiceOnceInv` that
each is posted once, `VoiceBoxInv` which job a box waits for. A cancel sets the flag and then looks for an
engine; the worker publishes its engine and then looks at the flag; whichever comes second
sees the other.

`AndroidRequests_proofs` proves `ReceiptsPermitted` (`ReceiptsAlwaysPermitted`) and `StaysWithUser`
(`NothingCrosses`) for any users, logins and requests, assuming `Assumed` (`None` is no user and `MaxLogins` is a
number). Session numbers only grow, and a session belongs to one login (`AccountInv`, `Belongs`), so that
the comparison of numbers at the gate is a comparison of logins; `ModeKept` ties what the session says
to the user's preference, `DialogInv` the dialog to the session it was opened in. `Fresh` says that a reply is bound to
the user of its intent and that a callback has done nothing before it is bound; `ActsAsUser` is inductive with it.

Its second part, whose names begin with `Vault`, proves `ReplyInLogin` (`VaultRepliesStayInLogin`),
`DataAccounted` (`VaultDataAlwaysAccounted`) and `RetiredDestroyed` (`VaultRetiredAlwaysDestroyed`) of
`AndroidVault`, for any users and any number of logins, generations, locks, faults and restarts, assuming
`VaultAssumed` (`None` is no user; the three bounds that the model adds to its counters are numbers).
A callback carries an epoch and a user, and what it shows was made by a login; the invariant ties them:

- `VaultTokenInv`: a submission of the current epoch and user is of the login in force, and the flag of retirement
  is down; its user can be another one only while an owner change is half done;
- `VaultBound`, `VaultMailInv`, `VaultServeInv`: what such a submission reads, or has read, is the referenced generation
  of its user, and has no tombstone;
- `VaultNewInv`, `VaultDiskInv`: a generation that is being made is known to nobody else, and how far the two halves of
  the preferences, the keys and the files may differ for one whose commits all succeeded;
- `VaultDestroyInv`, `VaultAwaitInv`: what each step of a destruction may assume, and that a retired
  generation is in the queue, in the worker's hands or about to be enqueued.

A login is a user *and* a number here, and the number goes up with a logout only. An earlier form, with a number for every change of
the owner, held in the run, whose bound is two logins, and was not provable: with three, an
owner that changes and changes back without a logout is served its own data under another number. The code
compares the user and the epoch and takes that to be the same login.

`ArchiveStore_proofs` proves, for any number of adds and chunks and any quotas, from `SizesAssumption`:

| Theorem | Statement |
|---|---|
| `Invariance` | `Spec => []IInv` |
| `DirectoryAlwaysSound` | `Spec => []DirectorySound` |
| `EvidenceAlwaysPreserved` | `Spec => EvidencePreserved` |
| `StoreImplementsLog` | `Spec => ImplementsLog` |

Entries are numbered, so what an add stages belongs to no entry that the catalog names, and a catalog's records
are never written again (`Numbered`). `IndexInv` says that an archive without a catalog has no files, so that
making one erases nothing; `StageInv` and `PruneInv` what is staged before the catalog is replaced and what
is still to be erased after it; `RecoverInv` what recovery has verified; `RestInv` that a store that owes
no cleanup is exactly its catalog. The bound on the disk's worst moment (`DiskBound`) needs that a catalog
always fits the quotas (`CatalogInv`), which follows because pruning drops the oldest entries
first and stops at the first set that fits (lemma `PrunedFits`): a smaller set of newer entries fits as well.

`ArchiveWorker_proofs` proves `ShownInForce` (`ShownAlwaysInForce`), `JobsStayHome` (`JobsAlwaysStayHome`) and `BooksBalance`
(`BooksAlwaysBalance`) for any slots, logins, limits and any number of sessions, jobs, generations, clears and locks,
from `LimitAssumption`. A job looks at its session's revision once, when its result is
shown. That this is enough takes:

- `FifoInv`: jobs run in the order in which they were admitted; `RevisionInv`: a clear revokes every job of
  its session before it, and none after it;
- `RevisedInv`: a job that was revoked and is not yet settled still has the clear that
  revoked it behind it (`ClearDue`), and a session that is to be attached either has nothing cleared or its clear in the queue;
- `CleanInv`: once no clear is due, the archive that the session's slot has holds nothing the clear did not see: it
  was erased, is to be erased before it is opened (`clear`), or is younger;
- `HomeInv`, `HoldInv`, `OrderInv`: a live session is attached to its slot, or its attach is ahead of its jobs, and
  what ends it is queued only once it is not live;
- `HeldInv`, `StoreInv`: the store a job has opened is still its session's when the reply is shown; `CountInv`: each limit
  counts exactly the jobs that are queued or running.

`AndroidConnection_proofs` proves, for any accounts and threads and any number of changes of the route, from no assumption:

| Theorem | Statement |
|---|---|
| `Invariance` | `Spec => []IInv` |
| `RouteAlwaysSound` | `Spec => []RouteSound` |
| `ServiceImplementsConnection` | `Spec => ImplementsConnection` |

An update that is posted and not yet delivered (`UpdateInv`), and an endpoint in use (`EndpointInv`), find the worker
at rest and holding the tunnel that they name: only a command makes the worker stop a tunnel, a
command drops the update, and the route is cleared before the command is given. `ActivationInv` says that a
route that is requested is, or is about to become, the last command, `UpInv` that a tunnel that is reported was
started for the worker's command, `TunnelInv` that there is no other.

The second part of `VaultWorker_proofs`, whose names begin with `Chats`, proves `Reconciled`
(`ChatsAlwaysReconciled`) and `BulkHonest` (`ChatsBulkAlwaysHonest`) of `DesktopFolders` for any finite set of folders and any
number of edits, assuming `ChatsAssumed` (the order is no folder, the set is finite, the bounds are numbers). `ChatsCopyInv` is the
heart: where the copy, or what a load has read, differs from the server, an answer is awaited that starts
a load later. The latest order is such a request because orders are handled as they were sent
(`ChatsOrderInv`). An accepted removal, which starts no load, counts only while the server still holds it and its answer is out
(`ChatsAwaited`); where it is answered too late or too early, the client is `lost`, and the next load finds it again.
`ChatsBulkInv` counts the bulk's answers.

The third part of `VaultWorker_proofs` proves `ReadsSound` of `DesktopReads`
(`SilentReadingHonoured`) for any number of sessions and reads, assuming that the
bounds are numbers (`ReadingBoundsOK`): a permit never outlives the call that gives it, a session
that exists has told the instance its setting (`ReadingPolicyInv`), and what the box waits for is an explicit
read of its own session (`ReadingBoxInv`).

`ReleaseJob_proofs` has three parts. The first is about `PreparedTree` with any set of tools, files and reviewed order that
is `WellFormed` (no two tools share a place), whatever is interrupted, repeated or called out of turn:

| Theorem | Statement |
|---|---|
| `TreeInvariant` | `Spec => []TreeIInv` |
| `TreeContentIsReviewed` | no file holds a tool's edits without those of all tools before it |
| `TreePassedMeansWhole` | a file whose tools have all reported success holds all their edits, in full |
| `TreeTornIsFinal` | a file whose write was cut short stays as it is until the checkout is discarded |

`TreeWorkInv` (what the running tool has written and what it has left) and `TreePassedInv` (a tool that passed
is in all its files) make it inductive.

The second is about `ReleaseJob`, with its scripts and workflows as they are and any number of jobs and of scripts
called out of turn: `WholePublished`, `ReviewedOrderAlwaysPasses`, `SecretsAlwaysRemoved`, and the
refinement `JobsImplementTree`. What they need of the tables of `AndroidSources` and `WindowsSources` is stated in four
assumptions of `ReleaseJob`, which mention no constant that a configuration could choose, so that TLC's evaluation
settles them for good: a script creates only what no earlier one writes (`TablesAssumption`); a workflow prepares every script of
its platform once, in the reviewed order (`StepsAssumption`), with the clean checkout demanded before, the
secret and the build after (`PhasesAssumption`); and what a script demands of git status is what its predecessors leave
(`StatusAssumption`). With them

- `StepsInv`: the scripts of the steps that are done have passed, in this checkout; the secret is there once its step is
  done, and the product, whole and signed, once the build is;
- `QuietInv`: as long as nothing has disturbed the job, each file holds *exactly* the edits of the scripts whose steps are done
  and of the running one where it has written, so each pin finds what it expects;
- in the refinement a check is a stutter, because the script that is checked has passed before; a process
  that dies between or within its writes is an `Interrupt`, one that dies having written nothing is a stutter.

The third, `TrialAlwaysHonest`, proves `TrialHonest` of `DeviceRun` for any number of attempts, any patience and any overlays. The
three programs are first proved sound element by element (`ProgramIsSound`: what an act needs is what the
look before it can have found). On that rest `SightInv` (what a look found is what the device shows, unless
the page was one that moves by itself, and no script acts on such a page), `TestInv` (whoever is behind the test
servers' form has seen it), `ResultInv` (each element that is done has left its marks, but for the launcher entry, without which the client is refused at the end) and `EndInv`
(no script goes on but with the reviewed APK, and only one that was cut short leaves its emulator).

*The runs' specifications.* `vault_worker`, `windows_client`, `android_vault` and `release_job` check modules that put
parts side by side. The last sections of `VaultWorker_proofs`, `WindowsConnection_proofs` and `AndroidRequests_proofs`
carry the theorems over to the specifications these runs check: `ClientReconciles`, `ClientBulkHonest` and
`ClientReadsSilently`, `ClientHonoursCancel`, and `RepliesStayInLogin`, `DataAlwaysAccounted`, `RetiredAlwaysDestroyed`,
`SlotReceiptsPermitted` and `SlotNothingCrosses`; the theorems about `ReleaseJob` and `DeviceRun` are stated of `ReleaseSpec` at once. The lemmas there say that two
instances of one module with the same substitution are the same formulas, and that each step of the whole is a step
of the part or leaves it alone.

Every inductive invariant but that of `PreparedTree` was checked by TLC on a small instance before it was proved.

*Only model-checked*: all liveness, which is beyond the prover (`RetirementFinishes`, `Recovers`, `JobsSettle`,
`WishesEnd`, `WaitsEnd`), as is whether an action is enabled. Every other property of the passing runs is a theorem.

## 5 Disagreements found

1. **An empty temporary disables the archive** (`archive_store_litter`,
   `RecoversFromAnyTemporary`). `AtomicWrite` creates a temporary and then fills it; a stop
   in between leaves an empty one. Recovery refuses a temporary it cannot read as a record,
   so it fails now and at every later start. `windows-archive/README.md` (34-36) says that
   strict temporaries are removed by `recover()`. `Recovers` shows that everything else is
   recovered.
2. **A clear is lost when its slot is attached again** (`archive_worker_clear`,
   `ClearedNeverShown`). `clear()` answers at once and leaves its task in the queue;
   if the session is detached and attached again first, the task finds another session
   and does nothing, and the new session of the same login is shown what was cleared.
3. **A reference that could not be removed durably, and its data destroyed**
   (`android_vault_removal`, `RemovedDurably`). `onLogout` promises to remove the reference
   durably and *then* destroy; when the `commit()` fails the destruction is enqueued all the
   same. If the process stops before the preferences are written again, the next one reads
   a reference to a generation without a key and cannot open it.

Observed, and not against any statement of the repository: an index directory without
its identity (`index = "bare"`: the process stopped between the two, or the second
failed) is refused by every later construction; a logout whose `R` record cannot be
written is reported to the caller and, with a later login of the same authorization,
leaves the data in force; `ConnectionController.close` has no caller in the client, so
the runs include it and no property relies on it.
The patched folders know three ways to stay behind the server, which `Reconciled` excludes by `lost`: a load that
failed; an accepted removal whose answer is applied while a load that read the server before it is in flight; and
one whose answer is applied without a load after a later change of the same folder was answered (the removal is handled,
an edit is handled, answered and reloaded, then the removal's answer takes the folder away). The next load
mends each of them.
`android_client_smoke.py` (277-278) swipes five times over one hierarchy, where its comment (43-44)
says that it will "never act on an old hierarchy"; `Unseen` models the five swipes, and
`TrialHonest` asks observation only of acts that are aimed at a place.

## 6 Abstractions

- **Payloads** (notes, templates, messages, media, sound, endpoints) are the generation,
  entry or job they belong to: the properties ask whose data something is, not what it says.
- **Encryption** is left out. A file is whole, absent or, for an archive temporary, in one
  of its unfinished states; a wrong key is a wrong generation.
- **Numbers instead of random ids**: generations, handles, entries and requests are numbered
  in the order they are made. The code draws 128-bit ids and relies on nothing but their
  being distinct. `VaultRegistry` takes them from a set, so a purged one may never return.
- **A call under a lock is one step** if nothing inside it is visible to another thread. Where
  a thread reads several atomics in turn (`isCurrent`, `Gate`), the model reads them at once
  only if the order makes no difference to a pass; otherwise the reads are steps.
- **Components below** are used through what they promise: the workers call the abstract
  registry and log. `StoreIsActive` checks what `VaultRegistry` assumes of its caller.
- **Byte budgets** of the archive queue are taken and given back where the counted limits
  are, and are left out; sizes in the archive store are counted in records.
- **UI tasks on Android** are a set rather than a queue, since each kind is posted at most once at a
  time and the `Handler` and the controller's posts are ordered by nothing else.
- **AndroidVault** has one account slot: the slots share only the queue of the worker. The
  coordinator is made at the start of the process, where the client makes it at the first use;
  the sweep therefore runs earlier than it might.
- **File contents** in the build pipeline are the set of the tools whose edits they hold; files that the
  same tools treat alike share one name. What a tool writes is not looked at: the pinned hash of its output is.
- **Screens** of the emulator are pages; a page on which the script has something to act upon stays until
  somebody acts, a page that waits for a server moves by itself, and anything may answer an act.
- **Folders** are the number of the edit they come from. The upstream client's load and apply, and the server, are modelled
  from what the patches put around them.
- **Answers of automatic receipts** go to the host's callback, which looks at no session; the patches promise nothing of
  them, so `StaysWithUser` leaves them out and `HostAnswer` shows them being used in any login.
- **An account change between** `NotificationCallbackReceiver`'s comparison **and** the capture in
  `sendNotificationCallback` is in the model, since account calls come from any thread: the action is then done as the new user.
  `StaysWithUser` holds a callback to the user it was bound to, and a reply to the user of its intent.
- **The same user's next login** gets a session of its own: an open dialog of the earlier one then does nothing but
  set that same user's mode, or send the read that the same user had just confirmed.
- **The last look of the code wait** (`android_sandbox_smoke.py`), whose result is used nowhere, is left out.
- **A read policy's generation** (Android) is left out because a policy is reset only with its session.
- **VoiceWorker**: stages, progress and languages are display; the wiping of buffers is
  sequential code on each path.

## 7 Not modelled, and the plan

| Part | Why not, or what of it is |
|---|---|
| `vault/PayloadCipher.java`, `vault/0001.sql` | cryptography and data: no steps |
| accounts' limits and lists, appearance and brand, installer | text substitutions at build time; the scripts that make them are tools of `ReleaseJob` |
| probes and benchmarks | measurements outside the client |
| archive screens, media, players (both platforms) | the calls into the worker are `ArchiveWorker`'s; rendering and chunk verification are not |
| notes screens (both platforms) | screens over the vault's requests |
| connection core (`connection/native_api.rs`) | its tunnels are the handles of the two connection modules; the registry of tunnels behind them is not modelled |
| Android transcription screen | the engine's order of checks is in `VoiceWorker`; its model download is not |
| `android-capture/CaptureGate.java` | counts secure windows; what it reports is in `AndroidRequests` |
| Android folder editor | patches around a load of the upstream client that is not in the repository |
| Android archive | the next module to write, see below |
| voice decoder, model download's redirects and hashes; `AndroidVaultStore`'s note operations | outcomes of a step in their modules |

Every hazard listed in `PROJECT.json` has a property. Four things that may go wrong are not listed, because
nothing in the repository promises otherwise: an index directory without its identity, a
tombstone that was not durable, a key or database that was made and not published (all three are seen in the runs, which exclude them by
name), and the quota of originals of the Android archive, which is not modelled.

Done so far: the registry; both workers; both archive modules; both connections; the Android vault and
requests; transcription; folders and silent reading on Windows; the pipeline and the trials; the three
disagreements; proofs of the safety properties of all of them. What is left, in this order:

1. `AndroidArchive`: `AndroidArchiveCoordinator` and `AndroidArchiveStore`, with the originals'
   quota, which frees the lowest snapshot first and so may free the one being saved
2. `CaptureGate`, the native tunnel registry, verified inputs

## Running

    tlc -workers 2 -config MCVaultRegistry.cfg MCVaultRegistry
    tlapm VaultRegistry_proofs.tla

`PROJECT.json` lists the module and configuration of every run, the mutants, the source lines
each definition models, the hazards and the theorems.
