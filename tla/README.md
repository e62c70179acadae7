# 115StrmTool in TLA+

115StrmTool keeps a local library of `.strm` files (each holds one link) for
the media files of a 115 cloud drive, and answers players that open such a link
with a 302 redirect to a download address of 115. Around this core it has an
admin page, a configuration that can be backed up to and restored from WebDAV, a
daily check-in, and a proxy in front of an Emby server. All of it is Python, in
`src/combined/`; it runs as one process with several threads (uvicorn servers
with an event loop each, one thread per synchronisation, one for the check-in)
and shares a SQLite table, two configuration files and one 115 client.

This directory models the parts whose correctness depends on the order in
which things happen or fail, checks them with TLC on small instances, and proves
the most important results for every size with TLAPS.

## 1. Inventory

| component | state | operations | hard behaviour | correct when |
|---|---|---|---|---|
| STRM synchroniser, `strm_generator.py` | `_sync_lock`, `_cancel_flag`, settings, progress; per run: rows loaded, pickcodes seen, roots scanned, rows to write | `full_sync`, `incremental_sync`, cancel | the drive changes while it is listed; a root fails or is cancelled half way; a crash between table and disk; I/O errors that are swallowed | never deletes what is still there; table, drive and `.strm` files agree after an undisturbed run |
| file table, `database.py` | SQLite `files`, `sync_history`, schema version | upsert, mark deleted, rows of a directory, reset, migrations | one connection per thread, reset during a run, migration that stops half way | one row per pickcode, transactions |
| admin API, `api_routes.py`, `admin_api.py` | current client, status cache | launch/cancel/reset, configuration, backup, cookie | check-then-act between request threads | a launch answers what happened |
| per-key lock, `utils.py` | table key -> (lock, users), guard | `acquire` | waiters cancelled before and after their wake-up, clean-up while another task arrives | mutual exclusion per key, nothing leaks, nobody waits for ever |
| TTL cache, rate limiter, `utils.py` | entries with expiry; next call time | get, put, count, evict; acquire | boundaries, check and use apart | no entry outlives its value |
| redirect service, `redirect_service.py` | address cache, key lock, clean-up tasks | `_do_redirect` | awaits between look-up and store; copies in a folder shared by all requests; every 115 call may fail | answers with a live address of the film asked for; every copy is deleted, and only its own |
| 115 client, `p115_client_wrapper.py` | SDK client, HTTP client, cooldowns | listing, copy, address with retries, cookie, QR login | clients swapped under requests in flight; retries and fallbacks | a call either works or says it did not |
| fast scan, `fast_scan.py` | entries, directory table, offset | the files of a tree from two paged lists | pages drift while they are fetched; files and directories are read at different times; answers cut short | complete or refused, with paths that were true |
| configuration, `config_manager.py` | settings in memory, `config.json`, `config.key`, snapshots | load, update, write | lock released between steps; secrets encrypted with a key in another file | file and memory agree, secrets can be opened |
| WebDAV backup, `webdav_backup.py` | task lock, archives, guards | backup, restore, prune | a restore writes two files and may die or fail between them; a settings change at the same time | a restore takes effect wholly or not at all |
| check-in, `checkin_scheduler.py` | next run, last day done, thread | tick, manual check-in, start, stop | two starts at once, midnight, manual and automatic at once, answers that are lost | signs in once a day, and the status tells the truth |
| service lifecycle, `main.py` | two servers with threads, the client | start, stop, restart, exit | restarts at once, a server that stops late, a port lost between probe and bind, holders of an old client | one server per port, an honest status, one client for the saved cookie |
| Emby proxy, `proxy_app.py` | caches for users, addresses, `.strm` contents | resolve a media request, rewrite, reverse proxy | players that ask together; caches filled and emptied at different times, keyed by headers | an address for the film, version and headers that asked, resolved once, never too old |
| external players, version, tray, build, logging, web page | none or a cached value | pure functions, user interface, packaging | - | - |

Interactions: the synchroniser and the redirect service call the 115 client,
which the admin API and the lifecycle replace at any time; the synchroniser
writes the table that the admin API resets and reads; the configuration is
read by everybody, and a change of the cookie or a restore restarts the
services through callbacks; the redirect service takes the key lock around its
cache, and so does the proxy; the check-in uses the client it was given at the
last start; the synchroniser lists a root through the fast scan, and believes
that what is not in the list is gone.

## 2. Plan

Most important first. Abstract specifications are in brackets.

1. `StrmSync`: the synchroniser with the table and the disk (done)
2. `KeyLock` [`KeyMutex`]: the per-key lock (done)
3. `RedirectService`, which composes `KeyMutex` with cache and copies (done)
4. `ConfigStore`: configuration, backup and restore (done)
5. `CheckinScheduler`: one check-in per day, over restarts of the services (done)
6. `FastScan`: pages that drift while they are fetched (done)
7. `ClientWrapper`: retries, fallback and the swap of clients (done)
8. `ServiceLifecycle`: start, stop and restart of the services (done)
9. `ProxyMedia`, which composes `KeyMutex` with the three caches of the proxy (done)
10. `SyncLaunch`: launch, cancel, progress and history of runs (not built)
11. `BackupRotation` (names and pruning of archives), rate limiter, migrations (not built)

Theorems: every safety and action property of the runs that pass is a theorem
(section 6), and of four of the five liveness properties the safety half is proved.

## 3. Modules

### StrmSync (`StrmSync.tla`, `MCStrmSync.tla`, `StrmSyncProofs.tla`)

| model | code |
|---|---|
| `drive[f]` | what 115 would list for pickcode `f`: its path and content (sha1) |
| `db[f]` | the active row of `files`; `None` is no row or status `deleted`, which the code never tells apart |
| `disk[s]` | whose link the `.strm` file `s` holds; `Torn` when it was emptied by a write that was cut off |
| `Under[r]`, `StrmAt[r]` | which paths lie in the mapped directory `r`, and `_to_local_path` under that mapping |
| `existing`, `seen`, `pending`, `scanned`, `doomed` | `all_existing`, `seen_pickcodes`, `all_files`/`all_new_files`, `scanned_roots`, `deleted` |
| `cancel`, `client` | `_cancel_flag`, `P115ClientWrapper._client` |
| `quiet`, `outcome`, `used` | history, read by properties and bounds only |

The sync thread moves through `root` -> `resolve` -> `list` -> `file`* for each
mapping, then `gate`; a full run writes the table and then, if asked to, cleans
up (`sweep`, `cleanup`), an incremental run cleans up and then writes the table
(`commit`). One action per branch of the loop body: `FullFile`, `NewFile`,
`ChangedFile`, `MovedFile`, `UnchangedFile`, and `WriteFails` for an exception
in any of them: `write_text` opens and empties the file before it writes the link,
so a write that fails may leave the target as it was or empty, and may have removed
the old `.strm` before (`FailedEnsure`, `DiskAfterFailedWrite`). Between any two actions the user may upload, move, edit or
delete, cancel, reset the table, and the process may die.

Abstractions: a root is listed in one step (`FastScan` opens it up, and whether a
listing comes back at all is its question); one file is handled in one step, in
which the process may die as it may fail; the order of the mappings is left
open (the code takes them as configured); mappings have distinct source
directories; the table's transactions are atomic, as SQLite's are.

### KeyMutex and KeyLock (`KeyMutex.tla`, `KeyLock.tla`, `KeyLockProofs.tla`)

`KeyMutex` is what `AsyncKeyLock` promises: at most one owner per key.
`KeyLock` is the code, one action per stretch between two awaits: registering in
the table under `_guard` and taking the lock if it is free (`EnterNew`,
`EnterFree`), waiting in its queue (`EnterBusy`, `Resume`), leaving (`Leave`) and
the shielded clean-up of the reference count (`Cleanup`), with `Cancel` and
`Abort` for a waiter that is cancelled before or after it was woken.
`asyncio.Lock` is external: its queue of futures, its wake-up of the first
waiter and its handing-on of a wake-up that a cancelled waiter cannot use.
`ImplementsMutex` is the refinement: a task owns a key when it is inside.

### RedirectService (`RedirectService.tla`, `MCRedirect.tla`, `RedirectProofs.tla`)

| model | code |
|---|---|
| `owner` (of `KeyMutex`) | `_key_lock` |
| `cache[k]` | the entry of `AsyncTtlCache` for (pickcode, agent): address and expiry |
| `pc`, `ask`, `source`, `fetched` | one request: where it is, its key, the file whose address it fetches, the address |
| `folder`, `film` | the copies in the folder on the drive, numbered as they are made, and what each holds |
| `pending` | tasks of `_schedule_copy_cleanup` |
| `made`, `answer`, `abandoned`, `borrowed` | history: the copy a request made, its answer, copies a failed call hid, copies taken by a request that has made none |

`Hit`, `Miss`, `CopyFile`, `CopyRefused`, `CopyFails`, `ListFolder`, `Fetch`, `Store`
are the stretches of `_do_redirect` and `copy_pickcode` between awaits; `CleanUp` is the
task that deletes a copy; `Tick` is the clock, which runs between any two. A copy
that 115 refuses with state False raises nothing, because nobody looks at the
answer of `fs_copy`: the request lists the folder all the same (`CopyRefused`). The
answer of a deletion is not looked at either: a refused one and a failed one both
leave the copy (`"delete"`).

Not in the model: eviction of live entries when the cache is full, malformed
pickcodes (refused before anything happens), foreign files in the folder of
copies, and two copies with the same time. A copy is taken to be in the listing once
`fs_copy` has returned; one that shows up later makes the request take an older one.

### ConfigStore (`ConfigStore.tla`, `MCConfigStore.tla`, `ConfigStoreProofs.tla`)

| model | code |
|---|---|
| `mem` | `ConfigManager._config`: `set` stands for all plain settings, `sec` for the two secrets |
| `config`, `key` | `config.json` and `config.key`; a ciphertext is its plaintext and the key it needs |
| `Garbled` | a ciphertext that did not decrypt and was kept as it was (`_decrypt_secrets`) |
| `lock`, `task` | `ConfigManager._lock` where it is held over several steps, `BackupService._task_lock` |
| `pc`, `reloads`, `pick`, `pre` | one request: its place, restarts still to do, the archive, the files before |
| `archives`, `guards` | archives on the WebDAV server; `restore-guard-*` files, `Cut` for one that was not written to its end |
| `torn`, `unsaved`, `unread` | history: a restore was cut off or could not be undone; the last write failed; a load could not read the key |

`Update`, `Load` and `Write` take the lock for one step each, as the code does:
`update` and `load` leave it before they write. `Reads` is what a load makes of the
files, at the start (`Boot`) as later: what they say; the defaults when `config.json`
cannot be read, which is put aside; or the ciphertext in the place of the secret when
`config.key` cannot be read (`_decrypt_secrets` catches that too). `Written` is a
write, with a new key if there was none, or with an error that leaves the file as it
was. `Guard` takes the lock for the whole of a restore, which writes its guard in
two steps (`GuardConfig`, `GuardKey`; `GuardFails` leaves half of one), then replaces
config, key and check-in state in three, any of which may fail and be undone in two. `PackConfig` and `PackKey` read the two
files without it. A cookie change and a restore restart services, which load the
configuration again.

Not in the model: the rolling snapshots, validation of fields, the names and the
pruning of archives, rotation of guards (only the last ten are kept); a request
that finds the task lock taken is refused and changes nothing. A `config.json` that
cannot be read can be moved aside.

### CheckinScheduler (`CheckinScheduler.tla`, `MCCheckin.tla`, `CheckinProofs.tla`)

| model | code |
|---|---|
| `now` | the clock, a slot of a day; `Slot` stands for the minutes of a day |
| `signed` | what 115 keeps: the days the account is signed in |
| `mem`, `file` | `_state` and `checkin_state.json`: `done` is `last_done_date`, `next` is `next_run_ts` |
| `lock` | `_CHECKIN_LOCK`, with its holder |
| `client`, `alive`, `starting` | `_client`, the living `_thread`s, and those a `start` is about to make |
| `pc`, `at`, `seen`, `tries`, `ok` | one thread: its place, the `now` it began with, what it read of state and settings, posts sent, the result |
| `checked`, `calm`, `slipped` | history: the server said "not signed"; nothing has gone wrong today; a sign-in by hand was booked on the next day |

A turn of the thread is `ReadState`, then `PlanTomorrow`, or `PlanNext` and
`Wait` or `SignIn`, then `Query`, the posts (`PostSucceeds`, `PostFails`) and
`BookAuto`. A turn that would end where it began is left out (`Due`). The
sign-in by hand is `BeginManual`, the same requests, and `BookManual`; it books
while it holds the lock, a turn after it has given it back. A query without an
answer counts as "not signed", as in the code; a post may be carried out and its
answer lost. `_write_state` swallows a failure, so `Save` moves memory on and
leaves the file.

`BeginStart` and `Spawn` are the two halves of `start`, between which another
`start` may look for a thread too. `Die` ends the process, and the next one
loads the file. The clock waits for a thread that is ready, because the thread
polls at least every minute, and a sign-in spans at most one boundary between
slots, because its retries take seconds.

Not in the model: `stop`, which is called only right before the process is
ended; a change of the account; a state file that a restore puts in place. A
client that has been closed keeps its SDK client, so a sign-in through it works
and needs no case of its own.

### FastScan (`FastScan.tla`, `MCFastScan.tla`, `DriveProofs.tla`)

| model | code |
|---|---|
| `listing`, `home`, `parent` | the drive (external): the files of the tree, newest first; the directory of each file; the parent of each directory |
| `collected`, `offset` | `collected` and `offset` of `_fetch_all_files`; entries as a set, which loses only repetitions |
| `dirMap`, `pageNo` | `dir_map` and `page_no` of `_fetch_dir_map` |
| `paths`, `climbing`, `cursor`, `parts` | the cache, argument and locals of `path_of` |
| `pc`, `result` | the place in `iter_files_fast`, or in the walk of `_iter_root_files` after it; its list |
| `unusable` | files that 115 lists without a pickcode, or with a directory's |
| `kept`, `truths`, `blind` | history: files there all the time; what was true of a file at some moment; an empty answer was taken for a complete list |

One action per round of each loop: `FetchFiles`, `FetchDirs`, `Climb`. Between
any two the user uploads, deletes, and moves files and directories, and a cancel
may come. `FilesAnswer` holds what 115 may answer to a request for files: the page or an
empty one, each with the total or without it. `Refused`, `Truncated`, pickcodes that
`Derive` cannot use or convert, the limit of pages and `NoParent` lead to `Fallback`.
Three things lead nowhere: an entry whose pickcode is not one of a file is passed
over (`Usable`), an empty page without a total ends the list (`Blinded`), and the
walk of the fallback without a client is empty (`FallbackBlind`).

Abstractions: a path is the set of its steps; the walk of the fallback is one
step (it is the same for the synchroniser as before); the directories of a page
come in any order; a directory is deleted with at most one file in it; changes
before and after the scan are other initial states.

### ClientWrapper (`ClientWrapper.tla`, `MCClientWrapper.tla`, `DriveProofs.tla`)

| model | code |
|---|---|
| `cookie`, `sdk`, `http` | `_cookie`, `_client`, `_http_client`; an SDK client is its account, an HTTP client the index of its pool |
| `pool` | every HTTP client made so far, its account, open or not |
| `lock`, `swap` | `_cookie_lock`; the steps of `update_cookie`: `Detach`, `InitSdk`, `InitHttp`, `ClosePrevious` |
| `closing` | `close()`, which has closed a client and not forgotten it yet |
| `call[c]` | one call of `get_download_url_with_ua`: place, attempt, client in use, answer |
| `harm`, `accounts`, `lost` (in `call`), `former`, `raced` | history: what went wrong during a call, whose accounts it may speak for, whether the clients were gone; whether `close()` met a swap |

A call asks the HTTP client it finds (`Post`, `Reply`), pauses and tries again
(`Wake`), or asks the SDK (`AskSdk`) when there was no HTTP client at the start
or the API answered 405. When its attempts are used up it ends without asking
the SDK, as the code does. `refused` stands for any failed attempt, be it a lost
answer or an incomplete upload.

One assumption on time, in `Wake`: making the two clients takes less than the
shortest pause (0.5 s), so a swap that was under way when an attempt failed is
over at the next one; another swap may have begun. Calls do not meet each other,
so the run has one.

### ServiceLifecycle (`ServiceLifecycle.tla`, `MCServiceLifecycle.tla`, `ServiceLifecycleProofs.tla`)

| model | code |
|---|---|
| `server[n]`, `current` | every uvicorn `Server` with its thread; `EMBY_SERVER` and `P115_REDIRECT_SERVER` |
| `client[n]`, `wrapper`, `api`, `scheduler` | every `P115ClientWrapper`, its cookie, `is_ready`, and whether its connections are open; who holds which: main, the routes (`api_routes` and `admin_api`), the check-in |
| `status` | `set_emby_status`, `set_p115_status` |
| `config` | the cookie and the two switches; what `Wanted` tests |
| `task[t]` | one thread: the restart it is in, step by step, and the service to restart after it |
| `foreign` | another program listens on the port |
| `unbound` | history: services whose port was free to the probe alone, or that could not bind it for another reason |
| `disturbed`, `revived` | history: services whose restarts overlapped or lost the port; clients a QR login opened again |

A restart is `Stop`, `Join`, `Clear`, for the redirect service `Close`, then
`Configure`, for the redirect service `MakeClient` and `Share`, then `Probe` and
`Spawn`. `Bind`, `BindFails` and `Leave` are uvicorn's. Starting at boot is a restart
that finds nothing to stop. `Probe` is `_port_in_use`, which asks one address and takes
an error or no answer for a free port (`Seen`); a server may fail to bind its port
also because the host is not this machine's, the port is not allowed, or the
application fails to start (`BindFails`), and its thread then ends in silence. A
client may fail to be made, by `MakeClient` or by the swap of a `QrLogin` (`Made`):
main shares it all the same, and the login's cookie is saved all the same.

Abstractions: making the server, starting its thread and setting the status are
one step, because nothing reads one of them without another; a server that has
given up its port counts as gone, although its thread may live on with open
connections; `Join` ends when the thread does or after five seconds, so it is
not guarded; a QR login swaps the cookie in one step (`ClientWrapper` opens it
up) and saves it in another. What the restart itself reads again from the file
is what was saved (`ConfigStore`); a login whose cookie cannot be written keeps it
in memory until then. A `close()` that raises (`main.py:101-102`, logged) is taken to
have closed.

### ProxyMedia (`ProxyMedia.tla`, `MCProxyMedia.tla`, `ProxyMediaProofs.tla`)

| model | code |
|---|---|
| `urlCache`, `strmCache`, `userCache` | `playback_url_cache`, `strm_source_cache`, `playback_user_cache`, without the entries that are over |
| `owner` (of `KeyMutex`) | `playback_url_key_lock` |
| `key[r]` | `cache_key`: item, MediaSourceId, user, headers |
| `pc`, `ask`, `path`, `todo`, `attempt`, `waiting` | one request: its place, what it asks for, `http_path` with where it comes from, sources still to resolve, retries of `_resolve_redirect`, how long it has waited |
| `answer` | observed: the 302 given at this moment |

`Device` merges client address, user agent and the hash of the headers. A stream
request is `LookUpUser`, then `Hit`, or `Miss`, `Query`, `FromStrmCache` and
`Resolve`, or `Proxy`; PlaybackInfo is `InfoAnswered` (which remembers the
sources before it resolves them), `ResolveOne`, `RememberUser`. An entry is aged
by `Tick`. `put` above the size removes another entry, here any.

Abstractions: an address carries where it comes from instead of its text;
eviction by size of the two other caches looks like their expiry; pin rules are
applied before `Query` and a pinned path takes only less time; a player that
leaves, an Emby that does not answer, and a page that is rewritten are one
`Proxy` step, which touches no cache.

## 4. Runs

| run | instance | shows |
|---|---|---|
| `strm_sync_faults` | two files, two nested roots, three changes of the drive, three runs; cancel, crash, failing scan/write/unlink/move | `LosesOnlyScanned`, `NoFalseDeletion` at every step; `TableMirrorsDrive`, `RowsBackedByDisk` after every undisturbed run, whatever the earlier ones left half done |
| `strm_sync_ends` | one file, two nested roots, two changes, two runs; every kind of disturbance: cancel, crash, failing scan/write/unlink/move, reset, a client that goes away, paths taken again | `EveryRunEnds` |
| `fast_scan` | two files, two directories, pages of one; every failure; two changes of the user | `UntouchedFound`, `PathsHeld`, `ScanEnds` |
| `fast_scan_removal` | two files, one removal, nothing fails | finding: `NothingMissed` fails |
| `client_wrapper` | one call of three attempts, two logins, three swaps, `close()`; everything may fail | `OwnAccount`, `NotGivenUpEarly`, `NoPoolLeft` |
| `service_lifecycle` | two threads (interchangeable, as either may boot the services), boot and two events, two cookies; the redirect service may be switched off, its port taken, seen or not, its bind fail, and one client at a time not be made | `StatusHonest`, `OneClient`, `NoClientLeft` |
| `proxy_media` | one film, two versions, two devices, two requests at a time, three in all; an address cache of one entry | `OwnAddress`, `ResolvedOnce`, `AnswersFresh` |
| `key_lock` | three tasks, two keys | `TableExact`, `NoLostWakeup`, `ImplementsMutex`, `EveryWaiterServed` |
| `redirect_pair` | one film, two agents, two requests at a time, four in all, every call may fail, and a copy be refused | `NoDeadAddress`, `OwnCopy`, `NoCopyLeft`, `EveryRequestAnswered` |
| `redirect_films` | two films, two agents | finding: `RightFilm` fails |
| `config_store` | two threads, three requests, a new installation and an archive of another; config, key and guard failing to be read or written, crash | `FilesOpen`, `SecretsKept`, `BackupsOpen`, `MemoryIsSaved`, `AllOrNothing`, `EveryRequestEnds` |
| `checkin` | two days, two scheduler threads, a sign-in by hand, two mishaps | `NoLockLeftBehind`, `NoSecondPost`, `StatusHonest`, `NoDayMissed` |

The type invariant is a property of the runs of the newer modules; of all but
`FastScan` it is proved for every instance (section 6), and so is mutual exclusion
of the key lock and of the sign-ins.

Bounds. StrmSync: a wrong deletion needs one file that is handled and one that is
not, and a root that fails beside one that does not, hence two files and two
roots; `MaxRun` = 3 is one run that fills the table, one that is disturbed on top of it,
and one that has to repair it;
three changes are enough to upload, move and delete. Files, contents and the two paths
outside the inner root (with their `.strm` names) are interchangeable, which TLC is told.
`strm_sync_ends` has one file,
because progress does not depend on how many there are, and in return everything that
can disturb a run: a second run on top of what a disturbed one left. The table is reset
only there, because the larger run is at its limit; that a reset breaks none of the
other properties is proved (section 6, for every set of faults). A path that is taken again
is kept out of the runs that pass (`used` remembers the occupied ones), because
of the finding. KeyLock: three tasks give a holder and two waiters, so that a
wake-up can be handed on; two keys let one task enter a key while another key's
entry is removed. RedirectService: two agents of one film are what starts
copying; four requests let both come back after their entries have run out, and
lifetimes of 1 and 2 around a TTL of 1 put the two boundaries on either side.
ConfigStore: two threads and three requests let a restore meet an update and
a backup, or two restores follow one another; the installation is new, so that
the key is missing at first, and the foreign archive brings a second key.
CheckinScheduler: two days of two slots, so that there is a midnight and a slot
before and after it; the window is the whole day, reached through the fallback
for a window that ends before it begins; two threads, because two starts can
race, and one sign-in by hand, because one that finds the lock taken changes
nothing; two mishaps are a failed write and the death that makes it matter, or
a second thread and one thing more; two posts are a first and a last one.

FastScan: with pages of one, two files are a page that is read and one that is
not, and two directories a path of two steps; two changes are a move before and
an upload or removal after it. ClientWrapper: three attempts are a first, a
middle and a last one; three swaps are one per attempt. ServiceLifecycle: two
requests are enough to overlap, or to follow one another (a login after a
restart, a restart after a restore); two cookies tell old from new; one service
with a contested port stands for both, which share the code's shape. ProxyMedia:
two versions and two devices are what a key must tell apart; three requests are
a PlaybackInfo and two players, or one player that comes back when its entry is
over, and an address cache of one entry is always full.

Deadlock is checked for `KeyLock`, where the tasks never stop asking. The other
instances end when their bounds are used up.

## 5. Fairness

- StrmSync: weak fairness of the sync thread's own steps, never of the user, the
  network or a crash: once started, a thread runs on.
- KeyLock: weak fairness of each task's turn on the event loop. Not of asking
  and not of being cancelled.
- RedirectService: strong fairness of each request's steps. Waiting for a key is
  enabled on and off, and it is `EveryWaiterServed` of `KeyLock` (asyncio's queue
  is first in, first out) that justifies it.
- ConfigStore: weak fairness of each thread's steps. The requests are finitely
  many, so a lock that is given back is not taken by others for ever; the code's
  lock itself promises no order.
- CheckinScheduler: none. That a day is signed is stated as a safety property of
  its last slot (`NoDayMissed`), with the clock waiting for threads that are ready.

- FastScan: weak fairness of the scan's own steps: it runs in a thread of its own
  and every request has a timeout. Not of the user nor of a cancel.
- ClientWrapper, ServiceLifecycle and ProxyMedia: none; their properties are
  safety properties.

## 6. Proofs

All for every value of the constants that the ASSUMEs of the modules allow; these
say of which types the constants are, that "no value" is none of the values, and
in some modules what the code's own numbers have in common (a margin below a
lifetime). Where a theorem assumes more, it says so.

- `StrmSyncProofs`: `TypeCorrect`. `RunInvHolds`: the run's own invariant, whose
  core is `DoomedLeftOver` (what is on the list of removals was known under a
  scanned root and was not seen). It is needed because the deletion reads the
  list long after the list was made. From it and `WhoRemoves` (a lemma about which
  steps remove rows at all) follows `OnlyScannedRootsLose`. `NoFileLost` adds
  `SeenInv`: as long as nobody disturbs the run, every file of a scanned root has
  been seen, and a listing that is being worked off is complete. It assumes
  that the client is not lost, and it must (section 7).
  `CleanRunMirrors` (`TableMirrorsDrive`) rests on `MirrorInv`, which follows a
  run that nobody disturbs (`Sound`) from root to root: each root is to do, being
  walked, scanned or lost; a listing and the loaded rows are true; every seen file
  has its row, waiting or in the table (`SeenHandled`, `SeenRecorded`); every other
  row in scope is on the list of removals (`UnseenDoomed`). It assumes again that
  the client is not lost, because a listing is then complete.
  `CleanRunPlays` (`RowsBackedByDisk`) adds `OwnInv`, that a `.strm` name belongs to
  one file at one path, so no write and no removal for one file hits another's
  link; `PosInv`, that what is being removed is no longer where its row says, and
  that a file is walked past only once per root; and `Backed`, that a row whose
  file is where it says has its `.strm`, in the middle of a run too. It assumes
  that no path is taken twice (`"reuse"`), and it must (section 7). That a write
  fails, or a removal, or that the process dies anywhere, is not excluded: what a
  write that was cut off leaves behind is empty (`Torn`), and the property says that a
  row's `.strm` may be empty but never another file's.
  `NothingLeftOver` (`NoOrphanStrm`, which no run checks) rests on `Covered`: each `.strm` on disk that holds
  a link is that of a row, in the table or waiting for the commit. It holds with one mapping and
  runs that are not cut off and can remove what they want to
  (`NothingInterrupts`); more mappings and interrupted runs do leave `.strm` files
  behind, for a run looks at what it has known and never at what lies on the disk.
  `RunGetsOn` is the safety half of `EveryRunEnds`. `StepsLeft` counts what the sync
  thread has before it: the files of the root it is in, `RootSteps` for each root to
  come, two steps for each removal, `SweepSteps` for each mapping to clean up. It
  falls with every step of the thread and is raised by nobody else, so that a run
  is over after `RunLength` steps at most, however it is disturbed. It assumes
  that drive and mappings are finite (`FiniteDrive`) and needs `HalfDoomed` of
  `RunInv`, that the file whose removal is half done is still on the list.
- `KeyLockProofs`: `TableIsExact` (the books: a key's count is the number of tasks
  between registering and clean-up), `KeyLockExcludes`, and `KeyLockRefines`, that
  every step of the code is a step of the mutex or none. `NobodyForgotten`
  (`NoLostWakeup`): the line of a lock is finite and ordered (`Lines`), so while
  anyone is in it somebody is first, and the lock is freed and its line left only
  by steps that wake the first.
  `FirstComeFirstServed` adds that nobody is overtaken and that a line only gets
  shorter: a waiter is served once those who came before it have been.
- `RedirectProofs`: `RedirectTypes` (with the stages of a request, which say what
  is known at each of them) and `AddressesGood` by `CacheMargin`: an entry's expiry
  never lies beyond its address's. `CopiesOwned` and `CopiesDeleted` (`OwnCopy`,
  `NoCopyLeft`) from `CopyInv`: copies are numbered in order, the newest belongs to
  whoever is between copying and listing, and each copy has somebody who will
  delete it, or was hidden by a failed call. Their hypothesis is `OneCopies`, that
  two requests are never both between copying and listing, because the folder is
  shared and otherwise the statement is false (finding 2). `OwnCopy` leaves out
  the copies that are `borrowed`: a request whose own copy was refused takes the
  newest there is, and that is another's. `PairNeverOverlaps` shows that one film and two agents, the instance of `redirect_pair`, satisfy it
  by the key lock and the rule for the first agent.
  `FilmsRight` says what finding 2 does not: under the same hypothesis, and if 115
  refuses no copy without an exception (`"refuse"`), nobody is sent to another film
  (`Films`: each copy, answer and cache entry belongs to the film that was asked for),
  so the shared folder between copying and listing, and the answer of `fs_copy` that
  nobody looks at, are the only ways to a wrong film; `FilmsRightWithoutCopies` needs no hypothesis when
  copying is switched off. `RequestsExclude` is a refinement: with the keys that
  are held as its state, the service is `KeyMutex`; `KeysFetchedOnce` is what
  callers want of it, one request at work for a film and an agent.
- `ConfigStoreProofs`: `FilesFit`, `SecretsSurvive`, `BackupsUsable`,
  `RestoreAtomic`. The invariant has two parts. `PlaceInv` says who holds which
  lock and, while a restore is on, which file on disk is whose; `SoundInv` says
  that the archive, the files before, and the disk while the lock is free all
  fit their keys. Neither is inductive alone: that the disk fits after a restore
  follows from where the restore is, and a backup reads a fitting pair only
  because its task excludes a restore. `SecretsSurvive` exempts a load that could not
  read the key (`unread`), and must (section 7). `BackupsUsable` is also about the
  guard: it is whole before a restore replaces anything. `MemorySaved` (`MemoryIsSaved`) adds
  `SavedInv`: unless a thread still owes a load or a write, memory is what a load
  would give, of the files on disk or, while a restore holds the lock, of those it
  may have to put back.
  `RequestsGetOn` is the safety half of `EveryRequestEnds`: the configuration lock
  is held only in a restore between its guard and its last file, where the thread
  waits for nobody, and the task lock only by a thread with something to do
  (`LocksBusy`), so there is no circle of waiting; and `Left` falls with every step of
  a request, also where a restore is undone or two services are started again.
- `CheckinProofs`: `CheckinTypes`; `SignInsExclude` and `LockIsReturned` from
  `LockInv` (a thread between asking and answer holds the lock, a clerk until it
  has booked); `PostsAreNeeded` from the lock and from what each answer leaves;
  `StatusIsHonest` from `PastInv` (no thread, state or server knows of a day
  after today, so that midnight makes no stale entry true again), `BookInv` (a
  good result that waits to be booked on its own day belongs to a signed day) and
  `HonestInv`, which asks of the file what is asked of memory, because a death
  brings the file back. `EveryDaySigned` (`NoDayMissed`) from `DayInv`: only a
  sign-in that failed for good takes a planned moment away, a day that begins
  without one begins with a thread that draws one in its first slot, and a moment
  of the day after is drawn only once the day is signed.
- `DriveProofs`, on `ClientWrapper`: `WrapperTypes`, `AccountsRight`, `RetriesSpent`,
  `PoolsClosed`, all from one invariant. `Owners` says whose the two clients are at
  each step of a swap: the HTTP client always the cookie's, the SDK client one
  account behind until it is made anew. `Accounts` says of every call what it may
  still answer with, the pool of a request on its way included; it needs `Owners`,
  because an answer comes from a client and not from the cookie. `InUse` and
  `Pools` say which pools are open while a swap or a `close()` is half done.
  `Retries` keeps the books of a call: each failed attempt is charged to a refusal
  or to a swap, and no swap is charged twice. That is where the assumption on time
  in `Wake` enters: without it one long swap could use up all the attempts.
- `DriveProofs`, on `FastScan`: `ScanTyped`, `ScanFindsAll` and `ScanPathsTrue`.
  `ScanBooks` says that the drive stays a tree (`Rooted`), that the list holds its
  files once each (`Listed`) and what is empty in which phase. `ScanFindsAll`
  (`UntouchedFound`) adds `ReadSoFar`: while nothing is removed entries only move
  towards the end of the list, so whatever stands within the offset has been read,
  and the loop is left only with an offset at the end, or by an empty answer without a
  total, which `blind` remembers. `ScanPathsTrue`
  (`PathsHeld`) is about `Merged`, the parents that were read and, of the
  directories not read yet, those of today: reading a page changes nothing of it
  (`PathFetchDirs`), `path_of` climbs it (`PathOf`), and a move changes it at most
  once, so that above a file that is still there it is the tree before the move or
  the tree after it, and both are on record (`PathsComing`). The lemmas on `Above`
  need no induction, because it is stated as the least closed set: two trees that
  agree above a directory have the same way up from it (`AboveSame`). The two
  modules share a proof module because both stand on the interface of 115; they
  share no state, and `FastScan` names its parts accordingly (`ScanInit`,
  `ScanNext`, `ScanSpec`, `ScanTypeOK`).
  `ScanNeverTurnsBack` and `ScanGetsOn` are the safety half of `ScanEnds`. `Rises`
  says that, while at most one move has happened, the parents that were read,
  with those of today for the rest (`Merged`), never lead round (`NoReturn`), and
  that the cursor of `path_of` lies above whatever it has passed; so the climb
  cannot come back to a directory, although the parents were read at different
  times. `Rounds` then counts what the scan has done: the
  files up to the offset, the pages of directories, and for the paths the
  directories whose path is known and those the climb has passed. Every step of
  the scan raises it, no other step touches it, and it never goes beyond
  `BeforeWalk` + 1, a number fixed by the constants. That the steps are enabled, and the
  inference from there to `ScanEnds`, are left to TLC. The lemmas use the assumption
  `NowhereIsNoPath` of `FastScan`: the value that stands
  for Python's `None` is not a path.
- `ServiceLifecycleProofs`: `LifecycleTypes`, `StatusIsHonest`, `EveryoneOneClient`,
  `ClientsAreClosed`, from one invariant. `Types` says what refers to what;
  `OneWorker` that at most one thread works on a service nobody disturbed;
  `ServiceInv` what is left of its server at each step of a restart (nobody but the
  current server starts or serves, and the one to come will find the port free);
  `ClientInv` who holds which client at each step, which are open, and with which
  cookie. They hold for any number of threads and requests, so that the
  exemptions of the properties (restarts that overlapped or lost the port, a bind that
  failed unseen, a client that was not made or that a QR login opened again) are all
  the exemptions there are. `ServiceInv` says of a service that is said to run that it
  has its server or is `unbound`; that nothing serves but what is said to run needs no
  such exemption.
- `ProxyMediaProofs`: `ProxyTypes`, `KeysResolveOnce`, `AddressesFresh`, `AddressesOwn`,
  from one invariant. `Stages` says what a request knows at each place,
  `ResolvedOnce` is inductive with it, `Ages` bounds the age of each cached thing
  and `Fits` says whose it is: the entry under a key was resolved with the
  headers of that key. An address is then as old as the caches it went through
  and the time of its own request allow, and no older.
  `StreamsExclude` shows that the resolving implements `KeyMutex`, as the redirect
  service does: the two users of the per-key lock and the lock itself share one
  abstract machine. What is proved there is that no request enters a key twice or
  leaves one it does not hold.

A proof that failed was a finding. `RowsBackedByDisk` was first stated of every
row in scope; it held in runs with `MaxRun` = 2 and could not be proved. With
`MaxRun` = 3 TLC finds two ways in which it is false (findings 13 and 14); it now
speaks of the rows that the code does keep, and the instances have three runs.

Only model-checked: the liveness properties (`EveryRunEnds`, `EveryWaiterServed`,
`EveryRequestAnswered`, `EveryRequestEnds`, `ScanEnds`), because liveness under
fairness is out of the prover's reach. For all but `EveryRequestAnswered` the safety
half is proved: a count that every step of the one concerned lowers and no other step
raises (`RunGetsOn`, `RequestsGetOn`, `ScanGetsOn`), or a line that only gets shorter
and whose first is told (`FirstComeFirstServed`, `NobodyForgotten`). That a step is
possible until then, and is taken, is what the runs show.

## 7. Findings

Shown by a run:

1. A file that is removed while the list of files is fetched moves every entry
   behind it to a page already read; the total shrinks with it and the scan ends
   as complete, one file short, which the synchroniser then deletes
   (`fast_scan.py:166`).
2. Two films copied at the same time: a request may answer with the other film,
   and delete the other's copy (`p115_client_wrapper.py:331`).

Met while modelling, and kept out of the passing runs by their instances or by a
named exemption in the property:

3. A file moved from a root mapped later to one mapped earlier leaves its old
   `.strm` behind for ever (`strm_generator.py:518`): `NothingLeftOver` is about one
   mapping, and `NoOrphanStrm` fails in an instance with two.
4. A new file at the former path of a moved file, with overwrite mode "never",
   ends as a row without `.strm` (`strm_generator.py:788`). `used` keeps paths from
   being taken twice in the instances that pass.
5. Losing the 115 client between resolving and listing a root deletes the whole
   root (`p115_client_wrapper.py:143`, `strm_generator.py:59-61`): `NoFalseDeletion`
   fails with the fault `clientlost`.
6. An update between a restore's release of the lock and its load undoes the
   restore, which reports success (`webdav_backup.py:663`).
7. A sign-in by hand that crosses midnight is booked on the new day, which is then
   reported as signed and never signed (`checkin_scheduler.py:193`); `slipped`.
8. Two restarts of one service at once may each start a server, one of which
   nobody refers to any more (`main.py:176`, `232`); `disturbed`.
9. When the cookie is removed, a restart closes the client and stops there
   (`main.py:190-193`), while the routes keep it. A QR login through them opens a
   new connection pool in it, starts no service, and the next restart forgets the
   client without closing it, against the comment at `main.py:97`; `revived`.
10. `close()` beside a swap of the cookie may forget the new HTTP client instead of
    the old one (`p115_client_wrapper.py:548-551`); `raced`.
11. After the last attempt a call ends without the SDK fallback its docstring
    promises (`p115_client_wrapper.py:482` and `536`).
12. A scan that meets two moves may read a cycle of parents and climb it for ever
    (`fast_scan.py:47`); the condition of `ScanEnds`.
13. An incremental run moves or removes `.strm` files as it goes and writes the
    table at the end, but not when it was cancelled or has died. When the file is
    moved back, or in nested mappings its content is changed back, before the next
    run, that run finds it as its row says, counts it as unchanged and looks at
    nothing on disk (`strm_generator.py:617-618`): the row stays without a `.strm`
    until a full run. Hence `"reuse"` and `InOneRoot` in `RowsBackedByDisk`.
14. A full run that lists no file at all, because the mappings were emptied, is a
    success that writes nothing and cleans up nothing (`strm_generator.py:383`):
    stale rows stay. After a full run `RowsBackedByDisk` and `TableMirrorsDrive`
    therefore speak of the files in scope only.
15. `write_text` empties the file before it writes (`strm_generator.py:794`). A write
    that fails or is cut off leaves an empty `.strm`, which overwrite mode "never"
    keeps (788) while the row is written all the same: the library has an entry that
    does not play. When the file goes elsewhere before the next run, the empty `.strm`
    stays without a row. `Torn` in `RowsBackedByDisk` and `NoOrphanStrm`.
16. The answer of `fs_copy` is not looked at (`p115_client_wrapper.py:317-321`): when
    115 refuses a copy with state False, the newest file of the folder is taken, which
    may be another request's, even another film, and is deleted while that one plays;
    `borrowed`, and the hypothesis of `FilmsRight`.
17. When `config.key` cannot be read, `_decrypt_secrets` keeps the ciphertext as the
    secret (`config_manager.py:224-228`), and the write of the same load encrypts it
    again (257): the secret is lost, although only a read had failed; `unread`.
18. The two files of a guard are written one after the other and not atomically
    (`webdav_backup.py:652`, `654`): a failure or a death in between leaves half a
    guard. Nothing has been replaced by then; `Cut`.
19. Besides finding 1, three things make a scan miss a file in silence: an entry
    whose pickcode is empty or begins with "f" is passed over (`fast_scan.py:96-98`);
    an empty page whose count is missing or 0 ends the list as complete (163-172); and
    a fallback without a client lists nothing and raises nothing
    (`strm_generator.py:59-61`). `unusable`, `blind`.
20. A port that is taken on another address, or whose listener does not answer, is
    free for `_port_in_use` (`main.py:43-49`), and a bind may fail for other reasons.
    It does so in uvicorn's thread, in silence, and the service is said to run
    (`main.py:169`, `225`), which the docstring says the probe prevents (36): a start
    that nothing disturbs is enough. `unbound`.
21. A client that cannot be made is shared with routes and check-in, and the cookie of
    a login whose client could not be made is saved (`main.py:201-208`,
    `p115_client_wrapper.py:136-145`, `694-698`): `OneClient` asks for open connections
    of a client that is ready.

## 8. Not modelled

Text and bytes: HTML and script rewriting of the proxy, player addresses,
archive format, WebDAV XML, request decoding. User interface, packaging, logging.
The 115 service, Emby and uvicorn themselves, but for what their callers rely on.
The reverse proxy passes bytes and WebSocket frames and keeps no state. Everything
the plan lists as still to come; `PROJECT.json` gives the state of every component.

