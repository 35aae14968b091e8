# Verification of contextverse

contextverse keeps *spaces* of text files that people and their tools share. A
server (`contextd server`) stores spaces on a pluggable backend and serves an
HTTP API; clients pull a space into a directory, edit it, and push what changed.
This directory holds TLA+ models of that program, the TLC instances that check
them, and proofs of their main properties. Paths below are relative to the
repository; `filelog.go` is `internal/storage/filelog.go` and so on.

- [The system](#the-system)
- [The modules](#the-modules)
- [FileLog: one versioned path](#filelog-one-versioned-path)
- [SpaceService: pushes, single-file writes and pulls](#spaceservice-pushes-single-file-writes-and-pulls)
- [SyncClient: directories that follow a space](#syncclient-directories-that-follow-a-space)
- [Server and Policy: requests, commands and what they change](#server-and-policy-requests-commands-and-what-they-change)
- [TokenCache, RateLimiter, Lockout: who gets in](#tokencache-ratelimiter-lockout-who-gets-in)
- [AuditLog and Events: what is told](#auditlog-and-events-what-is-told)
- [Lifecycle, Stores, History: the server's ground](#lifecycle-stores-history-the-servers-ground)
- [Desk, Daemon, Screens: the user's side](#desk-daemon-screens-the-users-side)
- [The runs](#the-runs)
- [What the code does that its comments deny](#what-the-code-does-that-its-comments-deny)
- [The proofs](#the-proofs)
- [What is not modelled](#what-is-not-modelled)

## The system

```
 client (CLI, daemon, editor, TUI)             browser, webhook receivers
   |  syncclient: Pull, Push                      ^ SSE       ^ POST
   v                                              |           |
 server: handlers -- authz/auth/ratelimit      events hub   webhook dispatcher
   |        |  \__ audit log (hash chain)          ^___ Dispatch.Emit _|
   |        \___ bumpHead
   v
 spacesvc: space lock, quotas, hooks, PutFile / DeleteFile / Undelete / Push
   |                \___ working-tree mirror (plain files on this replica)
   v
 storage.FileLog: per-path versions           storage.History: snapshots
   v
 storage.Backend through storage.Pool: local | git | sql | s3   (blobs + head, CAS)
```

| Component | State | Operations | Hard behaviour | What makes it correct |
|---|---|---|---|---|
| `storage/filelog.go` | per path: metadata object, a blob per version, a live copy | Get, GetVersion, ListVersions, LiveVersion, Put, SoftDelete, Undelete, Destroy, adoption of old files | three objects per write with no transaction; several replicas; lock-free readers that write (adoption); interruption anywhere | a path is one atomic register with a history nobody loses |
| `spacesvc` (service, push) | head, a lock per space and process, working-tree mirror | PutFile, DeleteFile, UndeleteFile, DestroyFileVersion, Push, Changes, Tree, Create, Delete | a batch without a transaction, rolled back by hand; head is the commit point; pullers take no lock | a push is all or nothing; the head names the content; the quota holds |
| `server` handlers | none of their own | decode, authorise, call spacesvc, `bumpHead`, audit, emit | the head moves outside the lock | as above, across handlers |
| `server` handlers, UI handlers, administration commands | users, tokens, policies, rules, hooks, spaces, configuration; the policy engine in memory | about sixty routes and some fifteen commands: check, operations in order, audit entry | a command is another process; whole-file read-modify-write; several operations under one answer | a refusal sticks; the log is true; memory follows the files |
| `storage.Backend` drivers | objects and heads | Get, Put, Delete, Head, SetHead with compare-and-swap | flock, mutex, transactions, conditional requests; the S3 delete is two requests | each call is an atomic compare-and-swap |
| `storage.Pool` | open handles | Open, Evict, Close | opens outside its lock | no connection is left that nobody closes |
| `storage.History` | snapshots | SnapshotSpace, RestoreSpace, Migrate | walks a live space | a migration that switches has moved everything |
| `syncclient` | `state.json` (what was seeded, what was sent), last head | Pull, Push, PollOnce | lost answers, crashes between two saves, modes that change, deletions | the last head stands for the content the directory has had |
| `audit` | day files, head of the chain in memory | Append, Verify, Query | concurrent appends over midnight, torn writes, restarts | an untouched log verifies |
| `events` and its stream handler | ring of 256, subscribers | Publish, Subscribe, Unsubscribe, ReplaySince | sends outside the lock, channel closed meanwhile, replay against live | no event is missed unnoticed |
| `webhooks` | hooks file, queue of 256, dead letters | Emit, deliver with 4 attempts, Upsert, Delete | full queue, restart, lost answers | every event taken is delivered or a dead letter |
| `auth` | users, tokens, caches by modification time, failure counts | Authenticate, Login, create and revoke tokens | caches against files; check then act in the lockout | a revoked token stops working; the limit holds |
| `authz`, `quotas`, `ratelimit` | rules; limits; buckets | Allow, CheckSpace, Allow | precedence; boundaries; first use fixes capacity | the limits hold |
| server start, setup and stop | data directory, pid file, port, route tree | init, serve, setup page, graceful stop | two processes, two installations, a stop at any moment | what the directory says is so; requests are finished |
| `cli` daemon and services | pid file, unit files, backoff | start, stop, install, poll | starter and service write one pid file | one daemon per directory |
| editors: `edit`, TUI, local page | scratch files, versions shown | open, edit, save, reload | minutes between opening and saving | nobody's edit goes under unseen |
| `tui` | one model per screen, commands under way | keys, messages | answers come after the screen moved on | a key acts on what is shown |
| `graph` cache | graph per space, fingerprint | Build, Invalidate | fingerprint taken before the build | no stale graph under a fresh fingerprint |
| the rest (templates, prompts, plugins, export, search, metrics, certificates, self-update) | none that outlives a call, or files of their own | | text, screens, network plumbing | not state machines worth a model |

`PROJECT.json` lists every component with its sources and status, and under
`hazards` what in this code is hard to test, each at its line, with the
properties that would catch it.

## The modules

| Module | Stands for | Checked by | Proved |
|---|---|---|---|
| `AtomicFile` | what a versioned path promises | `filelog_replicas` | |
| `FileLog` | `storage/filelog.go`, one path | `filelog_*` | `FileLogProofs`, `FileLogSafety`, `FileLogAlone` |
| `SpaceService` | `spacesvc`, quotas, the handlers that write files | `space_*` | `SpaceServiceProofs`, `SpaceServiceAtomic` |
| `SyncClient` | `syncclient`, pull, push, init, the daemon's poll | `sync_*` | `SyncClientProofs` |
| `Policy`, `Server` | `authz`, `auth`, every HTTP handler, administration commands | `access` | `AccessProofs` |
| `TokenCache`, `RateLimiter`, `Lockout` | `auth/cache.go`, `ratelimit`, `auth/password.go` | `access` | `AccessProofs` |
| `AuditLog` | `audit` | `access` | `ServicesProofs` |
| `Events` | `events`, the stream handler, `webhooks` | `services` | `ServicesProofs` |
| `Lifecycle` | server start, setup, stop | `services` | `ServicesProofs` |
| `Stores`, `History` | the four drivers and `storage.Pool`; snapshots, restores, migrations | `services` | `ServicesProofs` |
| `Desk`, `Daemon`, `Screens` | editors, daemons and services, the terminal screens | `services` | `ServicesProofs` |
| `MCFileLog`, `MCSpaceService`, `MCSyncClient`, `MCHost` | instances for TLC | | |

How they stack: a path of `SpaceService` is the register that `FileLog` is shown to
implement; a push in `SyncClient` is the one step that `SpaceService` shows a push
to be (with pushes and no faults; its findings say what else may be seen). The
modules below `SyncClient` in the table share no state with one another: where one
uses another (a handler writes the audit log) it takes what that one promises.

## FileLog: one versioned path

`FileLog.tla` models `filelog.go` for one path. The objects of the path are
`meta`, `blob` (one body per version number) and `live`; each *process* (a
replica running a mutating call, or a lock-free reader) has a program counter
and the locals of its Go call: the metadata it loaded (`held`), the body it is
carrying, the Backend version of the live copy it read. **Every Backend call is
one step**, in the order of the code, so that any two calls may interleave
between any two of their writes, and any call may stop there (`Abandon`).

| Action | Code |
|---|---|
| `Begin` | a call arrives: Put, SoftDelete, Undelete, Destroy; Get, GetVersion |
| `Load` | `loadMeta` |
| `AdoptRead`, `AdoptBlob`, `AdoptMeta` | `adoptLegacy`: read the live copy, create blob 1, save metadata, load again |
| `ResolveToken`, `RejectStale` | content-hash tokens, and the version comparison |
| `PutBlob`, `RefuseBlob`, `Prune` | the version blob; old bodies |
| `SaveMeta`, `LoseMeta` | `saveMeta`: the commit point |
| `MirrorRead`, `MirrorPut`, `LoseMirror` | `putLive` |
| `DeleteRead`, `DeleteLive` | `deleteBlob` of the live copy; not atomic on S3 (`AtomicDelete = FALSE`) |
| `UndeleteRead`, `Destroy`, `RefuseDestroy` | Undelete, Destroy |
| `GetLive`, `GetBlob`, `GetNothing` | the reads |

Contents stand for their hashes. Timestamps are left out, so two metadata
objects that differ in a timestamp only are equal and the model accepts more
swaps than the code: safety carries over. Version numbers are consecutive, so
the map of versions is a sequence. `ListVersions` and `LiveVersion` read what
`Load` reads and change nothing more.

`AtomicFile.tla` is what a path promises: a register `(top, ver, val)` with
`Write`, `Remove`, `Restore`. `FileLog` implements it with `top` the number of
versions, `ver` the current one and `val` the body *as read through* the newest
version's blob: the commit of each call is its step of the register, and every
other write, of blobs, of the mirror, by pruning, by adoption, is a stutter.

## SpaceService: pushes, single-file writes and pulls

`SpaceService.tla` models `push.go`, the mutating calls of `service.go`,
`quotas.CheckSpace` on files, and the handlers that call them, for one space
served by one or several replicas. A path is the register of `AtomicFile` with
its contents kept, so a call of the file log is one step; it may also fail
before its effect or after it. `Requests` are slots for calls in progress and
`On` names the replica of each; the space lock is per replica, as in the code.

A push is `Lock`, `CheckHead` / `RefuseHead`, `Inventory`, one `PlanOp` per
operation or `RefusePlan`, then per operation `ApplyRead` (`livePutVersion`) and
`ApplyWrite` or `ApplyFails`, then `Commit` or `CommitFails`; a failure goes
through the undo list, newest first (`RollRestore`, `RollRead`, `RollWrite`,
`RollFails`) to `RollDone`. A single-file call is `Lock`, `CheckQuota` or
`RefuseQuota`, `WriteFile` or `WriteFails`, and then, **with the lock let go**,
`BumpRead` and `BumpSet`, the two halves of `bumpHead`. A puller reads the head,
lists, fetches file by file and remembers the head it read first. `Crash` ends every request of a replica.

| Fault | Where it strikes | Code |
|---|---|---|
| `before` | a write, the commit, an undo step or a head bump fails with no effect | any Backend error |
| `after` | the same fails after its effect | an answer lost |
| `unread` | the read before a write of a batch fails, and is taken for "no such file": the undo step will be to remove the file | `livePutVersion`, `push.go:300` |
| `unmirrored` | the working tree keeps what it had: a file that cannot be removed, or a file brought back that cannot be read for it; nobody is told | `service.go:573`, `push.go:240` |
| `crash` | a replica dies | |

Other reads that fail (the head, the inventory, a plan) end the call having
changed nothing, as `RefuseHead` and `RefusePlan` do, and have no action of their
own. A put whose mirror fails answers an error with the file written, which is what
`after` is.

Abstractions: file sizes and the byte quota (it follows the file quota, in the
same calls), secret hooks and size limits (a push they refuse is refused before
the lock matters), head names (a fresh number for each), the order in which
headers are checked. `before`, `log` and `spoiled` are history variables: the
content when a request got its lock, the content at each head, and whether a
push was told the space is mixed or a process died at work. So are `blind`,
`vanished` and `stale`: the files a push put over and took for absent, those of
them that its rollback removed since the head last moved, and the paths that a
replica's tree has missed and not been written again.

## SyncClient: directories that follow a space

`SyncClient.tla` models `syncclient/client.go`, `syncclient/poll.go`, the pull, push
and init commands of `cli/client.go` and the poll of `cli/daemon.go`. A directory is
its documents (`tree`), `.sync/state.json` (`state`: what was seeded, what was sent)
and the last head of `config.yaml` (`conf`). Commands and daemons are processes with
a program counter and the locals of their call (`job`); a daemon also keeps the
configuration it loaded when it started (`last`).

| Action | Code |
|---|---|
| `StartPull`, `Poll`, `StartPush` | the command or the timer; loading rules and state; the head a push expects |
| `List`, `Fetch`, `Write` | `Pull`: the changes since the last head, then file by file |
| `Collect` | the walk of `Push`: what to put, what to delete |
| `Accepted`, `Refused`, `AnswerLost` | the server's answer, or none |
| `Truncate`, `SaveState`, `StateNotSaved`, `SaveConf` | the two files, saved one after the other; `state.json` in place |
| `Kill`, `Restart` | a process dies at any step; `daemon stop`, `daemon start` |
| `Edit`, `Elsewhere`, `SetRule` | people at the directory, other clients, an administrator |

`got`, `skipped`, `blind` and `arrived` are history variables: what the directory has
received or delivered, what its last pull left out by mode, whether it pushed before
it ever pulled, and what the server ever held.

## Server and Policy: requests, commands and what they change

`Server.tla` gives each handler of `server.go`, `ui_handlers.go` and their siblings,
and each administration command, as a *program*: what it needs (capabilities on
paths, judged by `Policy`), the operations it calls in their order and which of them
must succeed, what it writes to the audit log, whom it tells. Requests run at the
same time, one operation at a time. An operation on `users.yaml`, `acl.yaml` or the
hooks reads the file (`Load`) and writes all of it back (`Save`); inside the server a
mutex keeps the two together (`Locked`), between processes nothing does. Operations
with an effect inside them have their steps: a policy is written to its file and then
reloaded (`WritePolicy`, `Reload`), a backend is switched and then saved (`Switch`,
`SaveServer`), a refused user's tokens are removed one after the other.

`Policy.tla` is the engine's answer: patterns, their specificity, denial before
grants, per-user rules before policies, templates of the default space. Paths are
sequences of segments; a segment counts one towards specificity where the code
counts characters.

## TokenCache, RateLimiter, Lockout: who gets in

`TokenCache.tla`: the token directory and `users.yaml` with time stamps of a coarse
grain, changed by the server and by other processes while callers check a token
through the two caches: stamp, read, settle. `RateLimiter.tla`: the middleware's
key (address, forwarded address behind a trusted proxy, or token), buckets refilled by
the second, the sweep of idle ones. A request looks its bucket up under the limiter's
mutex (`get`) and spends from it under the bucket's own (`Allow`); in between, another
request may sweep that bucket away and a third be given a new one. Buckets are therefore
numbered (`made`), and the map holds a number for each key. `Lockout.tla`: logins step by step (two checks, a
slow comparison, two counts under two locks), the lock of a fixed length, the eviction. A
login is short against the minute: it sees one turn of it at most. Each is numbered by
the wrong guess it made (`nth`), so that a count can be traced to its guess.

## AuditLog and Events: what is told

`AuditLog.tla`: `Append` takes its day (`Stamp`) and then, under the mutex, links and
writes its line (`WriteLine`), which may fail (`LoseLine`) or be torn (`TearLine`);
a restart reads the head again (`OpenLog`). A hash is the entry it stands for; an entry
is known by its day and its line, and its predecessor is the last place before its own.
`Verify`, `Query`, `Stats` and `Export` are operators over the files.

`Events.tla`: one emission is `Publish` (ring, list of channels under the mutex),
`Send` to each channel outside it, and `Enqueue` for the webhooks, in the goroutine
of the request, several at once. A stream subscribes, replays by its last id,
receives and leaves; what it replays is a set of places in the ring, handed over in
one step. Workers take events, list the hooks that want them, and post to one after
the other in the order of the list, of which they keep the places left: `postOnce`,
`Retry`, `GiveUp` with its dead letter and the rotation of the file. The error of that
write is dropped in the code (`webhooks.go:362`), so it has its own outcomes: nothing
written, or part of a line (`LoseLetter`); a line behind such a part, which no reader can
tell from it (`GiveUpGarbled`); a line written and the full file not renamed
(`GiveUpUnrotated`). `ListDeadLetter` reads the last `TailLines` of each file, as the code
reads the last 1 MiB of at most 8.

## Lifecycle, Stores, History: the server's ground

`Lifecycle.tla`: processes started on one data directory, the pid file and the port,
the installation by command or by the setup page of a running server, the route tree
a process builds once and drops after setup, and the stop: drain, time out, close the
storage. An installation from the page of a process that is killed, or that stops before it
is through, is cut short where it is. `Stores.tla`: compare-and-swap of a file and a head
through each driver's own locking, with failures before and after effects, the pool that
opens handles outside its lock, and those who open a store beside the pool (`OpenAside`). `History.tla`: snapshot, restore and migration file by file, with
each driver's way to list and other people writing meanwhile.

## Desk, Daemon, Screens: the user's side

`Desk.tla`: sessions of the `edit` command, the terminal screen and the local page on
one file, from the version shown to the version saved over. `Daemon.tla`: start, stop
and run of the polling daemon with its pid file and backoff, and the systemd units or
launch agents that may start it too. Commands take no lock: `start` looks at the pid file,
begins a process and writes its number down; `stop` reads the file, sends a signal and
removes the file; several of them run at once, step by step, and each may be interrupted. `Screens.tla`: the update loops of the two
terminal screens, keys and late messages in any order.

## The runs

| Run | Instance | Properties |
|---|---|---|
| `filelog_replicas` | 2 replicas, a reader, 2 contents, 4 calls of put, delete, undelete and the reads, 2 versions retained, non-atomic delete, one interruption or failed deletion; the path may start as an unversioned file | `TypeOK`, `NewestReadable`, `AckedPutStands`, `HistoryKept`, `ReadsAreCommitted`, `ImplementsAtomicFile` |
| `filelog_solo` | 1 replica, 6 calls, all kinds, tokens that are numbers or content hashes, one interruption | `CurrentReadable`, `BodiesMatch`, `MirrorExact`, `RefusedOnlyByRace` |
| `filelog_orphan` | 1 replica, 3 puts, one interruption | violates `OrphanIsOverwritten` |
| `space_atomic` | 1 replica, 2 requests at once, 3 calls of every kind, batches of 2 on 2 paths with 2 contents, one fault of any kind but `after` | `TypeOK`, `TreeMirrors`, `PushIsAtomic` |
| `space_pushers` | the same with pushes only, room for one file, and a puller; faults `before` and `unread` | `QuotaHolds`, `HeadNamesContent`, `PullNotStale` |
| `space_calls` | 2 replicas, 3 requests at once, 2 calls of every kind, one fault of every kind, room for one file; fairness | `CallsEnd` |
| `space_bump` | 1 replica, a push and a put, no fault | violates `HeadNamesContent` |
| `space_visible` | 1 replica, pushes and a puller, no fault | violates `NothingBeforeCommit` |
| `sync_pull` | a directory with a command and a daemon that take turns, 2 paths, 2 contents, 2 writes or rule changes elsewhere, an edit, 2 commands, one fault; fairness | `TypeOK`, `AtHeadHasAll`, `SentArrived`, `NoBlindOverwrite`, `CatchesUp` |
| `sync_yours` | the same directory with init-only documents | violates `YoursAlone` |
| `access` | `MCHost`, parts server, tokens, rates, lockout, audit | `RefusedStaysOut`, `JournalTrue`, `MemoryFollowsDisk`, `CredentialsFresh`, `RateBound`, `LockoutHolds`, `LogTrusted` |
| `services` | `MCHost`, parts streams, hooks, lifecycle, stores, history, desks, daemons, screens | `NothingMissed`, `HooksServed`, `HooksDrain`, `RequestsServed`, `DirectoryTells`, `SwapsWhatItCompared`, `ConnectionsOwned`, `MigratedWhole`, `EditsKept`, `DaemonAlone`, `ScreenKeepsUp` |

`MCHost` puts modules that share no state side by side: a behaviour picks one part,
runs it and leaves the others as they start, so that one search explores each part in
full from its own initial states, and no part multiplies another.
`services` follows the daemons only up to the step with which a second one may have come
to be in a way that `DaemonAlone` excepts (`CONSTRAINT StillAlone`): from there on the
property claims nothing, and `unwatched` stays.

**Why the bounds are enough.** In `FileLog` two writers are what a
compare-and-swap can lose to; a third adds no new pair of writes. Two retained
versions are the least at which the code's promise holds (see the proofs) and
let pruning happen at the third put; four calls let a writer stay behind while
the other commits, deletes and undeletes; six calls of one replica reach a
delete, a destroy, an undelete, a reused number and a prune in one run. In
`SpaceService` two requests on a replica are a holder and a waiter; a third on
another replica is the writer no lock excludes; two operations are a batch with
something to undo and something that fails; three calls give a batch files to
replace and delete, and a later writer. One fault per behaviour: a second could
only hit a rollback, which is answered as mixed and excepted by the properties;
a rollback that fails with no fault before it is reached by a batch that names a
path twice.

In `SyncClient` two calls are a push and the pull after it, or a push whose answer
was lost and its retry; two writes elsewhere are one before a listing and one between
it and a fetch; two paths are one fetched and one still to fetch. In `access`:
two requests or commands, taken from one family at a time, interleave at every read
and write of every file, with one failing operation; a check of a token runs over a
stamp's grain of 2, a margin of 3 and 4 ticks, so that files change before, within
and after the margin; a budget of 2 (1 for logins) a minute and 5 requests counted
exceed twice the bucket, and two requests at once and 3 buckets are one swept between
the two halves of a request, its successor and the one whose making swept it (requests
between their halves are interchangeable, and the run says so: `SYMMETRY Visitors`); 8 wrong passwords exceed an address's allowance of 6 and reach the account's
budget of 8; 3 audit entries
over 4 instants in days of 2 are entries on both sides of midnight, and 2 losses are a failed
write and a restart. In `services`: a ring of 2 and channels of 1 overflow at the
second and third of 3 events, a queue of 1 and 2 attempts fill and are used up, a tail of
2 lines is less than the 3 a rotated file holds; 3
processes and installations are a server, a second one and an installation beside
them; two callers race in every driver; two jobs are a snapshot and its restore;
two sessions and a direct edit race for a file; two commands at once, two daemons and
backoff over an interval of 2 up to 3; two screens with two commands at once. Numbers that the code
fixes (a ring of 256, 4 attempts, 5 failures) are constants, small here.

**Deadlock** is not checked in these runs: clients stop when the bounds on calls
are used up. That no call is left waiting is `CallsEnd`.

**Fairness.** `space_calls`: weak fairness of each request's steps, since a
goroutine that can run is scheduled and the store answers or times out, and
strong fairness of taking the lock, since `sync.Mutex` hands itself to the
longest waiter. `sync_pull`: weak fairness of each process's own steps (timers fire,
HTTP calls answer or time out). `services`: weak fairness of the webhook workers,
goroutines that run as long as the process does. Nothing is assumed of people,
clients, pullers, faults or crashes.

**Exceptions the properties name.** `ReadsAreCommitted` excepts a version whose body a
call has taken off the disk (`erased`): a put left over from before that version was
committed may create its blob again, and a reader with metadata as old reads it. A reader
that is behind and meets no such version is held to the property. `MirrorExact` and `RefusedOnlyByRace` are
about one replica with nothing interrupted. `AtRest` excepts spaces whose push
was answered as mixed and spaces a process died in: the code reports the first
and does not repair either. `PushIsAtomic` excepts, of a push that failed, a file it took
for absent (`blind`), and that file may only be gone; `HeadNamesContent` excepts it until
the head moves (`vanished`), and `TreeMirrors` a path the tree has missed until that path
is written (`stale`). All other paths of the same push are still checked. The `sync_*` runs take the processes of a directory in
turns (`Together = FALSE`): overlapping, they do overwrite each other's files, and
nothing in the code prevents it. In the other modules a history variable names what
the code has no answer to, and a property excepts exactly those behaviours:
`excuses` and `spared` (Server), `twice` (TokenCache), `wide` and `late` (RateLimiter),
`shortened` (Lockout), `marred` (AuditLog), `upset` and `lost` (Events), `excuse` (History),
`amiss` (Lifecycle), `astray` and `aside` (Stores), `unwatched` (Daemon), `oddly` (Screens),
`adrift` (Desk). Each is set by the step where it happens, so that what else follows is
still checked.

## What the code does that its comments deny

- **An interrupted put wedges its path** (`filelog_orphan`). Put creates the
  version blob (`filelog.go:369`) with an expected version of "", so a blob left by
  an attempt that stopped before its metadata is a conflict for every later put.
  `filelog.go:387` says the blob "will be overwritten by the next attempt at this
  version number".
- **A head bump makes a push fail under its own head** (`space_bump`). The bump of a
  single-file write runs after the lock is let go; landing between a push's head
  check and its commit it advances the head over the applied batch, and the push
  then undoes the batch. Who pulled at that head is told nothing changed.
  `push.go:80` says that "none of this happened as far as any reader is concerned".
- **Pullers see a push before it commits** (`space_visible`), against `push.go:33`.

- **Init-only documents are overwritten after a pull that failed** (`sync_yours`). What
  a pull has seeded is noted in a state that is saved only when all of it succeeded
  (`client.go:243`); `docs/concepts.md:78` says such a document is "Copied once when
  you join, then yours alone".

Met while modelling, excepted by name in a property or noted with its hazard, and
not given a run:

- *File log and space service.* An error *after* its effect leaves a file out of the
  undo list, so a clean failure is answered over a dirty space (`push.go:207` is one such:
  the file is put, its mirror fails); a read that fails before a put is taken for an absent
  file (`push.go:300`), and the rollback then removes a file that was there, under a clean
  answer; a mirror that cannot remove a file, or read one back, says nothing
  (`service.go:573`, `push.go:240`); a bump that fails is
  dropped, and no head names the write; two replicas roll back over each other's
  commits; undelete checks no quota; a batch that names a path twice always fails; a
  version number is reused after delete, destroy, undelete, put; a destroy racing an
  undelete on another replica makes the current version unreadable.
- *Sync client.* A daemon and a command overlapping in one directory overwrite each
  other's state and configuration; a push with no last head takes the server's of now
  (`cli/client.go:227`); `state.json` is written in place (`client.go:397`) and a torn
  one stops every later call; a path once sent whose mode becomes init-only is deleted
  by the next push (`client.go:585`); a deletion applied without an answer makes every
  later push of it refused (`client.go:320`).
- *Handlers.* A put over `max_file_size` is never recorded though `server.go:896` says
  it is; space creation, token revocation and logins of the browser UI are not recorded;
  removal errors of token files are ignored (`auth.go:535`); the server never reads
  again the `acl.yaml` that commands write (`authz.go:57`).
- *Credentials.* A slow login may shorten or replace a lock (`lockout.go:88`);
  concurrent logins pass the budget by their number; the documentation counts failures
  per account where the code counts 5 per address and 25 per account. A bucket keeps the
  capacity of its first request; one swept between a request's lookup and its spending
  (`limiter.go:90`, `limiter.go:68`) still gives, beside its successor; the console's login is not an `/auth/` endpoint. An
  unreadable token file is remembered as absent, and the cache of `users.yaml` has no
  margin for coarse stamps.
- *Audit log.* The day is taken before the mutex (`logger.go:143`); a torn line is glued
  to the next (`logger.go:160`); a restart that finds the newest file empty starts a
  chain anew (`logger.go:104`).
- *Events.* A send on a closed channel panics in the handler of a request that has
  done its work (`hub.go:54`); overlapping publications and full channels drop events; a
  hook list that cannot be read drops one (`webhooks.go:308`); rotation overwrites the
  dead letters rotated before; a dead letter that cannot be written is lost without a word
  (`webhooks.go:362`), takes the next with it if part of it was, and of each file of 8 MiB
  the last 1 MiB is listed (`webhooks.go:447`).
- *Lifecycle.* A second start takes the pid file and removes it (`cli/server.go:275`); a
  failed setup leaves a configuration with no administrator; a server set up by its page
  has no audit log, hub or limiter until it restarts; a stop before the listener is up
  waits for good; an open event stream uses up the whole drain time.
- *Stores.* A closed pool hands out connections nobody closes (`pool.go:110`), and the
  console's pages, which open stores beside the pool, close none of theirs
  (`backend_ui.go:116`, `146`, `220`, `229`); a git put
  stays when its commit or push fails (`git.go:296`); the S3 delete is unconditional
  (`s3.go:388`). A restore writes the current content of what the manifest names
  (`history.go:186`); listings of one space match a longer name; writes during a
  migration are lost.
- *The user's side.* An untracked file opens empty and saving replaces it
  (`file.go:221`); a conflict is found after the scratch file is gone (`session.go:59`).
  `daemon stop` and `start` in a row leave a daemon no command can stop
  (`daemon.go:137`); two starts at once both find no pid file and two daemons poll
  (`daemon.go:83`); a stop removes the file of a daemon started meanwhile
  (`daemon.go:165`); a long interval polls more often after failures
  (`daemon.go:347`). Enter on an empty list leaves the terminal screen busy for good
  (`server_app.go:309`), and a late listing, of files or of the versions of one, renames the space under an open choice
  (`server_app.go:150`, `server_app.go:160`).

## The proofs

### FileLog

Three modules prove about `FileLog` for **every** number of replicas, readers,
contents, tokens, versions, calls and faults:

- `FileLogProofs`: `TypeCorrect`, the type invariant. `TypeOK` is not inductive by
  itself (the number a put takes must be within the blobs the model has), so the
  induction is on `TInv`: types, the control facts that tie a program counter to
  the call it serves, and the bound on version numbers. Its lemmas say what the
  operators return: `PrunedType`, `AddVersionType`, `BestType` and so on.
- `FileLogSafety`: `NewestIsReadable`. The inductive invariant `IInv` adds to `TInv`
  - `Shape`: what metadata can look like when nobody destroys: the newest version is
    retained, and is the current one unless the path is deleted;
  - `NewestReadable` itself;
  - `CallInv`: what each call in progress may rely on: what it loaded has this
    shape and no more versions than the metadata has now; a put past its blob has its
    own content in that blob as long as it can still commit.

  It is needed because the body of a version is written *before* the metadata names
  it, by a process that may lose the race: only a statement about every call in
  progress carries the blob's content over to the commit.
  From `IInv`, one step per action, it also proves `HistoryIsKept`, `AckedPutStays` and
  `Refines` (the file log implements `AtomicFile`).

  `ReadsTellCommitted` is about readers, which hold no lock and may be answered long after
  the metadata they loaded is gone. `ReadInv` says what a body on disk may be: that of
  its version, or one that a call has taken off the disk before (`BodyOrGone`), which is the
  only case in which a late writer finds the blob free (`CreatedLate`).
- `FileLogAlone`: one replica making one call at a time (`Alone`), *with* destroy:
  `CurrentIsReadable`, `BodiesAreTheirs`, `MirrorIsExact`, `OnlyRacesRefuse`. The current
  version need not be the last of the log any more, only the newest retained one
  (`Newest`), and a put may write over the entry of a destroyed version. The invariant
  `AloneInv` says of the call under way what it has written that the metadata does not say
  yet (`Established`), and, as long as nothing was cut short, that no blob lies about
  without an entry (`NoOrphan`) and that the live copy is right but for what the call is
  about to save (`Mirrored`). A reader beside the replica breaks it: one that adopts a file
  can write the blob of version 1 anew while a destroy of it fails halfway.

**Assumptions.** `MaxVersions >= 2` everywhere: with one retained version a put prunes the
body of the current version before its own metadata commits, and one that stops there
leaves the path unreadable (TLC shows it at once). `DefaultMaxFileVersions` is 10.
`FileLogSafety` assumes that no client destroys versions (`"destroy" \notin MutatingOps`):
of two replicas, one may destroy the version that the other undeletes.

### SyncClient

`SyncClientProofs` proves about `SyncClient` for **every** number of directories,
commands, daemons, paths, contents and faults:

- `TypeCorrect`, from the inductive `TInv`: types, and what a process holds where it
  stands (`ControlAt`).
- `SentHasArrived`: what `state.json` records as sent did reach the server, **whether or
  not processes overlap**. `SentArrived` speaks of the files only; `SentInv` adds what
  calls under way have loaded, and that what a batch leaves out had been sent before.
- `HeadMeansContent` and `PushSeesWhatItReplaces`, for directories whose processes take
  turns (`Together = FALSE`). The invariant behind both, `HeadInv`, follows the head
  through a call: a pull that is not where its directory was has, while the head stays
  that of its listing, all but what it leaves out and has yet to fetch (`PullAt`); a push
  the server would take knows all there is (`PushAt`). It needs `TakeTurns`: with two
  processes in a directory one saves a head for files the other has not written, and TLC
  shows the theorem false. The argument turns on two facts: whatever advances the head
  leaves every directory and every call under way behind it (`HeadMoves`), and otherwise
  a step disturbs its own directory only (`HeadStep`).

### SpaceService

Two modules prove about `SpaceService` for **every** number of requests, replicas,
pullers, paths, contents, operations in a batch and files in a quota.

`SpaceServiceProofs` needs no assumption but the constants' own; replicas may be many and
every fault may happen:

- `TypeCorrect`, from `TInv`: types and, for each call, what it holds where it stands: a
  plan as long as its batch, an undo list no longer than what was applied, versions to
  write back that are there.
- `OneAtATime`: no two calls of one replica are past the space's lock together, from
  `Locked` (a call past it holds it). No run checks it as a property, because the others
  need it and fail without it.
- `PulledIsNotStale`: `PInv` adds to `PullNotStale` that no version in the log is newer
  than the file has now, and what a pull under way may have fetched.

`SpaceServiceAtomic` is about one replica (`SoleReplica`) on which no write fails *after* its
effect (`CleanFaults`); errors before it, reads that fail unseen, mirrors that are missed
and crashes may all happen. Both assumptions are what the code needs, not conveniences: the
lock is a mutex of the process, and an error after the effect is not in the undo list; with
either TLC finds the properties false.

- `TreeIsMirror` and `PushAtomic`, from `AInv`: while a call holds the lock, undoing its
  list, newest first, gives back the content it found, or nothing for a path it took for
  absent (`UndoRight`), and applying what its
  plan has left gives the content it promised (`PlanRight`). The promise and the way back
  must be stated for every point of a batch, since a crash, a failure or the commit may
  come at each.
- `HeadNames`, for clients that only push (`OnlyPushes`; with single-file writes beside them
  it is the violation of `space_bump`), from `HInv`: whoever holds the lock found what the
  head stands for.
- `QuotaKept`, if nothing is undeleted (`NoUndelete`; undelete asks no quota), from `QInv`:
  what a push has counted while planning bounds the files it leaves, whatever paths the
  batch repeats, and a rollback returns to a content that kept the quota.

The proof found the model wrong once: a delete of a path that is absent, expecting version
0, was let through where `push.go` turns it down; `TurnsDown` is the correction, and the
runs send such batches now.

### Stores, History, Lifecycle, Daemon, Screens, Desk

`ServicesProofs` states the safety property of each of these modules as a theorem, for
every number of callers, processes, daemons, files, sessions and faults, each from an
inductive invariant of its own:

- **Stores**, `CompareAndSwap` and `ConnectionsClosed`. `StoresInv` says who holds which
  lock, that until an eviction or a close every caller uses one handle (`OneHandle`), and
  that what a caller in a driver has read under a lock is still there (`StillThere`). The
  last is the point: each of the drivers relies on a different lock for it, or on the
  store's own conditional request.
- **History**, `MigrationWhole`. `HistoryInv` adds what a migration under way has behind it
  (`Copied`). The driver's listing is a *set* in which the migration picks any file next:
  the drivers list in different orders, and the theorem should not rest on one.
- **Lifecycle**, `RequestsAreServed` and `DirectoryIsTrue`, from one invariant: a process
  that set itself up has no set-up routes after the switch (`SetupOver`, `TreeFresh`),
  storage is closed last (`ClosedLast`), and only one process has the port (`OneProcess`).
- **Daemon**, `OneDaemon`: unless one of the property's ways to a second daemon was taken,
  a daemon past its start is the one the pid file names, and while a start is between its
  look at the file and its own writing of it there is no other daemon and no other start
  (`OneIsSeen`); a stop that is about to remove the file has told its process
  (`SignalledIsTold`), so what it removes is not the file of one that goes on.
- **Screens**, `KeepsUp`: what is shown belongs to the space the model names
  (`ServerShows`, `OneSpace`), and a busy screen has a command under way (`BusyEnds`).
- **Desk**, `EditsAreKept`: what each session holds is a version of the log that it was
  shown (`HoldsVersion`), and the tree's copy is on its way (`MirrorComing`).

The proof of `KeepsUp` failed on a case the run's bound had hidden, a space with no files:
a late list of *versions* renames the space just as a late list of files does.
`ScreenKeepsUp` excepts both now, and both spaces of the run have a file.

### Server

`AccessProofs` proves the three properties of `Server` for any number of requests and
commands at a time, any users, tokens, policies, hooks and spaces:

- `RefusedUsersStayOut`: nobody who was refused comes back.
- `ServerFollowsDisk`: what the server works by is what its data directory says.
- `JournalIsTrue`: the audit log records what succeeded, and only that.

All three rest on what a handler or a command may be made of: `GoodPrograms` goes through
every one of them and shows that it is a `GoodProgram` (the only failures it is not stopped
by are the few `Forgiven`; it writes to the log, or each of its operations records itself,
or one of them is in `Unrecorded`). `ServerInv` then holds for each
request (`GoodRequest`) and between them:

- `UsersInv`: one request of the server at a time is between reading `users.yaml` and
  writing it, and what it read is what is there unless a command has written since. Without
  the second half a step could write back a user refused in between.
- `EngineInv`, `BackendInv`: a write under way has read what is there and is the only
  reason for the engine, or the backend, to be behind; each holds but for the excuses that
  its property makes.
- `JournalInv`: an entry that says success is of a request that is over and that failed
  at nothing but what its program forgives.

The invariant was checked by TLC with two and with three requests at a time. Each step of
an operation is proved once, as a statement of what it changes, whichever program it is in.

### TokenCache

`AccessProofs`: `CredentialsAreFresh`, for every number of callers and every grain of the
file system's stamps that the margin allows for (`Grain + SlowScan <= Margin`). The
invariant follows a stamp from the directory to the cache: stamps are never of the future
(`StampsOld`); what a scan has read is what is there if the stamp it took before was old
enough to tell (`ScanGood`); so a cache that is trusted and has the directory's stamp has
its contents (`TokenCacheGood`). It needs arithmetic about `tick % Grain` (`ClockFacts`:
stamps never go back).

### RateLimiter

`AccessProofs`: `RateIsBound`, for any number of requests at once, addresses, tokens and
proxies, any two budgets and any length of a minute. `RateInv` is an account kept for each
bucket ever made, swept or not (`WithinBudget`): what it has given since any moment and what
is left in it are no more than a full bucket and what flowed in since that moment. A
minute's refill is one bucket, so two budgets bound a minute: that is the half of the
property about late requests, which spend from a bucket the map has forgotten. The other
half, that all prompt requests of an address in a minute come from *one* bucket
(`InBucket`), is where sweeps are hard: a bucket that was swept comes back full, and only
because it was idle for a minute (`IdleAfter >= PerMinute`) has its key nothing left of the
minute's account. The proof showed that the property had taken for granted that the
login's budget is the smaller one; which of the two is smaller is configuration, and the
property now takes the larger where both may have made the bucket.

### Lockout

`AccessProofs`: `LockoutIsKept`, for any number of logins at once, addresses and accounts,
any size of the map that triggers an eviction, and both halves of the property.

- *An address's budget.* The entry that counts an address's failures is begun, locked,
  forgotten and evicted, and only logins tell when: a guess is compared long before it is
  counted, in an entry that may be another one by then. `LockoutInv` splits the guesses of
  an address into those counted in entries that are gone (`Past`), those counted in the
  entry there is (`Present`), and those not counted yet (`Uncounted`). It says of the past
  that a window reaching into the present has one full count of it at most, and that its
  last minute has less; of the entry that what it counted is no more than its `count`, and,
  when it locks, that what it counted and the logins still past the check are a full count
  together (`Locks`). Together they keep any window within two full counts (`Spread`).
- *An account's.* One address cannot lock it: what the entry has counted (`Tally`) are
  guesses against the account, of its window and of the minute before it began. Were they
  all from one address, `Spread` would bound those of the window, and those of the minute
  before are fewer than all the logins.

The hard case in both is the straggler: a login that began in the minute before the entry
did is counted in it with an earlier date. There is one such minute, because a login sees
one turn of the minute at most, and the logins under way bound how many.

**Assumptions.** Both budgets and the lock's length are at least 2 (5, 25 and 15 minutes
in the code), and a lock is no shorter than the window; `Login` is finite. That a login
sees one turn of the minute at most is a guard of `Minute`: a comparison takes a fraction
of a second.

The proof showed the properties false as they had stood, for constants the runs did not
use, and TLC gave the behaviours: with a budget of 1 an entry is not locked at its first
failure (`lockout.go:87` returns before the count is compared), so the allowance does not
hold; with logins that span more than one turn of the minute, one that is counted after an
eviction exceeds it by one; and the guesses that are counted late may be what locks an
account, so `OneClientCannotLock` now asks that the account's budget cover them too (the
code's 25 does, against a budget of 5 per address, for up to 5 logins at once). The
constants of the run follow.

### Events

`ServicesProofs` proves both properties of `Events`, for any number of clients, topics,
workers, webhooks, events and visits, and any sizes of ring, channels, queue and files:

- `NothingIsMissed`. `StreamInv` adds to what is owed to a client where it may be: the ring
  holds nothing twice and only what was published (`RingTold`); only the newest event can
  be on its way to channels (`NewestSent`); a channel is in the ring's order
  (`ChannelOrdered`); and what a client lacks is, while its last id is still in the
  ring, *after* that id there, and once it is connected also in its channel or on the way
  (`Missing`). The order is what makes a replay from the last id enough, and each of the
  property's exceptions is a way the code breaks one of these parts.
- `HooksAreServed`. `HookInv`: what the queue and the workers have is published
  (`HooksTyped`); of an event in a worker's hands each webhook it is for is left, settled or lost with
  its line (`WorkLeft`, `Settlement`); a queued event is in hand or dealt with (`QueueTold`);
  the two files of dead letters, one after the other, are an end of what was ever written
  (`LettersTold`), all of it or at least a file's worth, which is what a rotation leaves, and
  what failed writes and renames leave alone; so the tails of the two, read one after the
  other, end in as many of the newest lines as one tail holds (`LettersShown`).

TLC checked the inductive invariants as invariants of a run before they were proved.

### AuditLog

`ServicesProofs`: `AuditorMayTrust`, for any number of entries waiting for the mutex, any
length of a day, any failed writes and restarts. An entry is known by its place, its day's
file and its line there, and places are ordered as `Verify` reads them: "the one before"
is then the greatest place before, and neither the log nor the property needs a recursion
over the files. `AuditInv` adds to the property that an entry is in the file of its day
(`FiledByDay`, from which a query may pass over a file by its name), that the head is that
of the last entry there is (`HeadIsLast`), and that every line is an entry
(`NothingTorn`). The head and the files are changed by different steps, since a write may
fail and a restart reads the head again from the newest file only: `loadHeadFinds` is where
the property's exception of a day without entries is needed.

**Only model-checked**: liveness (`CallsEnd`, `CatchesUp`, `HooksDrain`), which the
prover does not reach. Every safety property of a passing run is a theorem.

## What is not modelled

`PROJECT.json` says for each component what of it is left out. In short:

- `graph`: its cache is a fingerprint taken before the build; parsing and layout are
  text processing. Secret hooks: regular expressions over content; a put they block is a
  put that is not made. Byte quotas: they follow the file quota in the same calls.
- Plugins, templates, prompts, export, search, freshness and diffs: computations over
  files with no state that lives past a call.
- Certificates, self-update, metrics, tracing and logs: driven by services outside the
  program, or observation only.
- Parsing, formatting, pages, forms, headers, flags and wizards, of every component; the
  network address policy of webhooks; expiry and pruning of tokens.
