# TLA+ verification of startup_appspawn

`startup_appspawn` is OpenHarmony's application spawner: a service that receives requests over
local sockets, forks (or wakes a pre-forked) child for each, lets the child build its sandbox and
identity, and tells the client how it went. This directory models the parts of it whose
correctness depends on the order of events or on what fails, checks them with TLC on small
instances, and proves their safety properties with TLAPS for every instance.

## 1. Inventory

| Part (source) | State | Operations | Talks to | Module |
|---|---|---|---|---|
| service event loop (`standard/appspawn_service.c`) | connections, `reservedPid`, crash counter, loop | connection, request, hang-up, child response, timers, signals, stop | everything below | `AppSpawnService`, `SpawnContract` |
| contexts and processes (`standard/appspawn_appmgr.c`) | `appSpawnQueue`, `appQueue`, `diedQueue` | create/delete context, add/terminate process, status queries | service | `AppSpawnService`, `SpawnResources` |
| descriptor manager (`standard/appspawn_fd_manager.c`) | `spawningFdsQueue` | register, find, unregister (closes), remove (does not), cleanup by pid | service, prefork child | `AppSpawnService` |
| fork layer (`common/appspawn_server.c`) | – | fork/clone, the child's hook stages, result notification | service, hooks | `AppSpawnService`, `SpawnChild` |
| message manager (`standard/appspawn_msgmgr.c`) | incomplete message per connection | framing, TLV decoding, rebuild | service, SPM | `MsgReceiver`, `SpawnResources` |
| client library (`interfaces/innerkits/client`) | one socket per service, message under construction, df control | connect, build, send, read, retry, fall-back, broadcast | service over the socket | `SpawnClient` |
| hook manager (`modules/modulemgr`) | hook lists per stage | add, execute with stop-on-error | all modules | `SpawnChild` |
| SPM (`modules/spm`) | kernel reference counts by token and uid | rebuild message, count up, release on abort or exit | service hooks | `SpawnResources` |
| sandbox (`modules/sandbox/normal`) | lock-bundle references, shared mounts, mounts, DEC policies, controlled applications | plan and make mounts, unlock mount, debug sandbox | service hooks, child | `AppSandbox`, `SpawnResources` |
| child set-up (`modules/common`, adapters) | attributes of the process | uid, gid, capabilities, SELinux, descriptors, run the application | child | `SpawnChild` |
| checkpoint (`modules/ace_adapter`) | worker and image records | create and restore image processes | service | `SpawnResources` |
| hnp (`service/hnp`, `innerkits/hnp`) | installed native packages, their record and links | install, uninstall, migrate | separate tool | `HnpInstaller` |
| sandbox, modern (`modules/sandbox/modern`) | the same as normal, other code | chosen at build time | child | – |
| lite, watchdog, sysevent, device debug, entry point | – | separate program; periodic kick; reports; one-shot kill; start-up | service | – |

Hard behaviours: the loop is single threaded, but each request is settled by whichever of four
independent events comes first (result on a pipe, SIGCHLD, timer, hang-up); a child may be handed
over from the reserve with descriptors and identity moving between owners; every multi-step
operation can fail after each step; children and clients die at any moment; requests of different
clients share one reserve and one crash counter. On the client's side threads share a socket and
send again what may have been done already. In the child the order of some forty steps decides
whether a step still has the privilege it needs. The hnp tool may be killed between any two changes
of the disk. `PROJECT.json` lists the hazards line by line.

What makes each part correct: every request is answered once and no more, and eventually; every
child has one owner or is dying; every descriptor has one owner; every reference taken is released
once; a message is freed once; signals hit only processes that exist; the service stops only for
the reason it states; foreign code runs only in a confined process; a sandbox that was entered is
complete; a client's success is about its own application; what an installation reports is on disk.

## 2. Plan

1. `AppSpawnService`, `AppSpawnServiceProofs` – requests, contexts, children, prefork, unlock, stop. *(done)*
2. `SpawnContract`, `AppSpawnRefinement` – abstract life of a request, implemented by the core. *(done)*
3. `MsgReceiver` – framing of a byte stream into messages, the incomplete-message timer. *(done)*
4. `SpawnResources` – SPM counts, lock references and unlock mounts, died queue, checkpoint. *(done)*
5. `SpawnClient` – send, read, retry, fall-back, broadcast against services that answer or not. *(done)*
6. `SpawnChild` – the child from fork to application. *(done)*
7. `AppSandbox` – plan and execution of the normal sandbox, DEC, controlled list, debug sandbox. *(done)*
8. `HnpInstaller` – installation with a failure or crash at any point. *(done)*

Theorems, in the order of their weight: the core (type correctness, at most one answer, one owner
per process and per descriptor, no context on a closed connection, balanced references, the crash
counter, children accounted for, no kill of a reaped process) and its refinement of `SpawnContract`;
the receiver; SPM and lock references and the died queue; confinement, answer and descriptors of the
child; the client's connections, results, applications and blocks; the host's tree, the controlled
list, completeness, denials and the debug sandbox of the sandbox; the hnp tool. *All of these are
proved* (section 5): every invariant and every action property that a passing run checks is a theorem.
Left: the four liveness properties, which stay with TLC, and the parts of section 6. None of the
modules declares a RECURSIVE operator, so none is out of the prover's reach for that reason.

## 3. The models

### The service (`AppSpawnService`)

One action per way a handler of the loop can run, from entry to return; the loop is single
threaded, so a handler is atomic. Clients, children and timers interleave freely.

| Model | Code |
|---|---|
| `ctxSt`, `ctxPid`, `ctxFds`, `ctxId` | `AppSpawningCtx` of each request on `appSpawnQueue` (`state`, `pid`, `forkCtx.fd`, `client.id`) |
| `app` | `appQueue` |
| `open`, `nodes` | pipe ends the service has open per child; nodes of `spawningFdsQueue` |
| `reservedPid`, `loop`, `nextId`, `lastDiedAppId`, `crashTimes` | the variables of the same name (`requestId`, `g_lastDiedAppId`, `g_crashTimes`) |
| `pstat`, `killed`, `cmd`, `res` | the children and the contents of their two pipes |
| `conn`, `reqConn`, `answers`, `answer`, `answerPid`, `sendFailed` | connections and what clients were told |
| `heap`, `refs` | message nodes allocated; lock-bundle references held |

- *Spawn.* `RejectSpawnReq`, `SpawnHookFails`, `SpawnNormal(Fails)`, `SpawnAndReserve`,
  `SpawnFailsAndReserves`, `SpawnHandOff(Fails)` are the paths through `ProcessSpawnReqMsg`,
  including the re-fork of the reserve at the end of each.
- *Unlock.* `LockStatusRefused/Locked`, `UnlockByPrefork`, `UnlockByFork`, `UnlockSerial` are the
  paths through `ProcessAppSpawnLockStatusMsg` and `HandleUnlockEvent`.
- *Children.* `ChildTakesCmd`, `ChildReports`, `ChildDies`: a child may report or not, and die
  by exit or by signal, at any time. `AfterReport` says what a child does next: one that reported
  failure leaves, except a cold-started one, which may run on ("stray").
- *Settling.* `ProcessChildResponse` (three outcomes), `WaitChildTimeout`,
  `ProcessUnlockChildResponse`, `UnlockChildTimeout`, `OnClose`, `HandleDiedPid` (application,
  spawning child, any other), `SendMessageComplete`.
- *Stop.* `StopAppSpawn` (SIGTERM, or inside `SpawningChildDied` after `MaxCrashTime` crashes) and
  `AppSpawnDestroyContent`, with the other handlers still possible in between.

`Faults` selects which calls may fail: `msg` (message checks), `hook`, `fork` (and pipe creation),
`pipe_write`, `watcher` (watcher or timer), `app_info` (record allocation), `lockstatus`, `send`,
`cold` (a PRE_RELY step of a cold-started child, which reports it and runs the application).
Process ids are never reused, so a signal to a reaped process is visible; a fork fails when ids run
out. Every spawn takes a lock-bundle reference (the locked-user case, which is the one that must be
released). What waits in a pipe survives its writer, as in the kernel.

`KillOnlyUnreaped` excepts the contexts of unlock children: the unlock timer kills a child that may
have been reaped, because `HandleDiedPid` does not look for unlock contexts. `ChildrenAccountedFor`
and `OrphansReaped` except the strays: `ProcessChildFdCheck` drops the context of a child that reported
failure and sends no signal. What they still say is that nothing else lets a live child loose, and that
the client of a stray was told that its spawn failed.

### What the service promises (`SpawnContract`, `AppSpawnRefinement`)

A request is unseen, pending, then answered or dropped; a spawn that is answered with success is
running and later ended; the service exits once. `RequestPhase` reads the phase of a request off its
connection, its context, its answer and `appQueue`, and `ImplementsContract` says that every step of
the service, with its hand-offs and fall-backs, is a step of the contract or none: in particular an
application appears only in the step that answers its request.

### The receiver (`MsgReceiver`)

The part in front of the core: one connection's stream, cut into reads at any
place. A cell `<<m, i>>` is unit `i` of message `m`; `Header` units stand for `sizeof(AppSpawnMsg)`.

| Model | Code |
|---|---|
| `node` | `receiverCtx.incompleteMsg` with `msgRecvLen` |
| `buf` | the part of `OnReceiveRequest`'s buffer from `currLen` on |
| `timer`, `rfds` | `receiverCtx.timer`; `receiverCtx.fds` and `fdCount` |
| `Incomplete`, `BadHeader`, `BadTlv`, `Denied`, `ProcessRecvMsg` | the ways one iteration of the loop in `OnReceiveRequest` ends |

Two things of the code hold only because of how the client library behaves, and the model shows
both: a message that is a bare header swallows the rest of its read (`Reminder`), which never
happens because the library always adds the flags TLV; and descriptors of a message that follows
another in the same read replace those of the first, which never happens because the library waits
for each answer (`waits`, the premise of `FdsReachTheirMessage`; `OneMessagePerConnection` of
`SpawnClient` shows it of the library).

### What is held for a process (`SpawnResources`)

`job` is the record of a process through its lists (spawning, running, died, gone) with the message,
the SPM references it took (`AppSpawnSpmRefs`) and whether it holds a lock reference; `proc` is the
process in the kernel; `cnt` the kernel's SPM counts, `lost` the ones whose record was dropped
without giving them back (the kernel refused, a checkpoint request lost its record, or the kernel
supports no uid count and `IncreaseRefCounts` returned before it remembered the token's, the fault
`nosupp`). `lockLeak` counts the lock references that no context remembers because the path could not be
copied (`strdup`). A message is its uid and whether it was rebuilt; its TLVs are not modelled here.

- `ProcessSpawnReqMsg` and `ProcessCheckpointReqMsg` run the DECODE hook (SPM attributes checked,
  counts taken, message rebuilt) and the later stages with each failure;
  `ProcessChildResponse`, `SpawnFails`, `WaitChildDied`, `HandleDiedPid` and the two status queries
  of nwebspawn (`StatusOfDied`, `StatusOfRunning`, which is `KillAndWaitStatus`) end it.
- `LockUser`, `UnlockInChild`, `UnlockSerially`, `MountQueueWorkerThread` and `UpdateDataGroupDirs`
  are the lock status and the mounts of an unlock event; the prefork child works on the copy of
  `g_lockBundleMap` it was forked with (`reserved`).
- `StopAppSpawn`, `Crash`, `Restart`: a restarted service clears the kernel's counts of its spawn id.

`AppSpawnService` and `SpawnResources` describe the same handlers from two sides: the first all
orders of events around one reference, the second all resources with fewer orders.

### The child (`SpawnChild`)

`HookTable` is the list of `AddAppSpawnHook` calls in the order of loading; a stage is its hooks by
priority and order of registration (`RunsBefore`), a hook the sequence of steps it calls, `hook` and
`pc` the place reached (`Ok` goes on, `Err` ends the stage, but only the hook in `PRE_RUN`), and each
step is an action with the privilege the
kernel asks for it (`proc`: name, token, ids, capabilities, SELinux, seccomp, root, stdio). A step of
`Faults` may fail, and then ends its hook and the stage. `AfterPreColdBoot`, `AppSpawnColdStartApp`,
`ColdRunStart`, `AfterExecute`, `AfterPreRely`, `AfterPostRely`, `AfterEnvClear` are the statements
of `AppSpawnChild` and `AppSpawnColdRun` between the stages; `RunChildThread`, `RunChildByRenderCmd`,
`RunNativeChild`, `RunNwebChild` the adapters. Descriptors keep their numbers, since `SetFdEnv`
writes them into a buffer of fixed size; encaps values keep only their count. `RequestsAssumption`:
descriptors are numbers, and only an application that is not a child process comes out of the
reserve (`IsSupportPrefork`).

### The sandbox (`AppSandbox`)

The configuration is a constant: documents of policy directories with their sections. `PlanOf` makes
of a request the sequence of steps the code executes, each with the scope that is left when it fails
(`HandleArrayForeach` stops its array, `SetAppSandboxProperty` the child, or the error is ignored).
The actions execute it: `ComputeForSpawn`, `AckUpdate`, `LoadFromJson`, `MatchControlled` (the list of
controlled applications, which `WriteList` and `Notify` of the DLP service change in between, while
`OtherAcks` is another spawner that reads the parameter first and answers for itself),
`InstallDebugSandbox` and `UninstallDebugSandbox` in the host's namespace, then in the child
`HandleDlpMount`, `EnableSandboxNamespace`, `UpdatePointFlags`, `DoSandboxRootFolderCreate`,
`DoAppSandboxMountOnce`, `MakeDir`, `MakeSymlink`, `AddGid`, `ChangeCurrentDir` and `SetDecPolicy`.
A message whose flag TLV has one word (`wide` is FALSE) cannot carry the flags of `SecondWord`, and the
code that wants to set one ends the spawn. Allocations do not fail.

Four properties name what the code itself leaves open:

- `EnteredMeansComplete`: critical points that are passed over because a create-on-daemon directory
  could not be made or is not described (`sandbox_core.cpp:772-786`), and the flag points of a render or
  gpu process behind one that failed, which `SetRenderSandboxPropertyNweb` only logs (`:1249`, `:1262`).
  `lost` has the scopes that were left.
- `OnlyFuseOnHost`: `HandleDlpMount` mounts fuse before the child has a mount namespace (`:1188`).
- `ControlledListFresh`: each spawner has its own cache and all share one parameter, so an answer by
  another spawner hides an announcement from this one (`cache.missed`; `sandbox_controlled_app.cpp:120`,
  `:130`).
- `DenialsGoWithGrants`: the kernel refuses a batch. `SetDecDenyWithDir` adds nothing when there are more
  denials than `KERNEL_BATCH_SIZE` (`sandbox_core.cpp:1501`); there are three and the size is 8, which
  `LimitsAssumption` states as "a batch has room for every denial".

An uninstall message carries its own flags, so it may ask for the isolated documents though the
installation did not; it then finds other points than were mounted. The model lets it
(`UninstallDebugSandbox(bundles, isolated)`), and `DebugSandboxRemoved` speaks of the messages that do
not ask for them. The uninstall takes the sandbox path of a point as it stands in the document, the
installation after substitution; the model takes them for the same, which they are as long as the debug
sections have no variables in `sandbox-path`, and the shipped ones have none.

### The package installer (`HnpInstaller`)

The state is what survives the process: version directories, name directories, private directories,
links, `hnp_info_<uid>.json`, signatures, the entries of the binary security service. Each step of
a command changes one of them and may fail; the process may be killed between any two. A full disk is
noticed ("short") or not ("silent"): files are written through stdio and nobody looks at the result of
`fclose`. Commands run one at a time: a caller waits for its own hnp process, and that two callers do not
run two of them is an assumption, nothing in the code excludes it. `rm` and `un`
are the calls of `HnpUnInstallPublicHnp` and `HnpUnInstall` in progress, shared by uninstall and by
the undoing of a failed installation. `harm` records what happened that a property excepts:

| Tag | Event |
|---|---|
| `crash` | the process was killed in the middle |
| `refused` | a removal failed or was refused because the package was in use, or the one after a signing failure could not read the record |
| `undone` | undoing an installation removed the current version next to which another one is recorded as installed |
| `lost` | the record was damaged by a failing write and read back as empty |
| `dropped` | the migration dropped entries whose install version is "none" |
| `private` | undoing a private package removed a public one of the same name |
| `self` | installing the current version again removed it (`hnp_reinstall`) |
| `batch` | a failure in a later package left an earlier one unsigned |
| `unnoticed` | a full disk emptied the record or cut an unpacked file, and the command went on (`hnp_json.c:270-276`, `hnp_zip.c:334`) |

`HnpAssumption`: "none" is no version, two public packages of one name and version are the same in
having binaries, and a record of earlier releases names every version on disk and gives all
applications of a package the same current version.

### The client (`SpawnClient`)

Threads of one process share a manager (mutex and socket) per service. A step of a thread is what it
does between two blocking calls; `try` counts the attempts of the two nested `ClientSendMsg` calls
(a request, and the listen message that goes ahead of it), `io` is the block being written with
bytes written and remaining. A service is what `SpawnContract` promises of it: it accepts or not,
answers at most once, kills the application of a client that hung up before, and may die and start
again. A service that dies or is stopped kills the applications it has recorded and no child in flight
(`SpawningQueueDestroy`): any of them may run on, as one of `orphans`, and `AppsAccountedFor` names them.
`TryCreateSocket` has an attempt counter of its own around `CreateClientSocket`. Calls for listed
applications go to appspawndf and fall back to appspawn; web and lock status calls are broadcast to both, with `dfRes` for the second result.

One thing is excepted, by the ghost `cut` of a connection and of the answers read from it. A write
that is cut short or interrupted starts its block again while what was written, and -1 for an
interruption, is added up; two of them may add up to the block's length. `WriteMessage` then reports
success, the service gets another message than was built, and what it does not need for it stays in
the stream. `OneMessagePerConnection` and `OkIsOwnApp` say nothing of such a connection; one cut or
interruption alone is noticed. `CallersAssumption`: a request has a block, no block is shorter than
two units (blocks hold aligned data), and lock status calls are made one at a time.

A message is built word by word: `AddWord` is a turn of the loop of `AddAppDataToTail`,
`AddPartsToTail` the TLV header and the data in turn, `AddTlv` the choice between a block that holds
the whole TLV and the tail, `Build` the calls of a caller. `BlocksAreTheMessage` states what they
compute for small messages; `MessageBuiltInOrder` states it for all.

## 4. Runs

| Run | Instance | Shows |
|---|---|---|
| `service_races` | 2 spawns, 1 unlock, 3 processes, prefork, no faults | ownership of processes, descriptors and connections, single answers and the exact crash counter under every interleaving of result, death, timer, hang-up, stop |
| `service_faults` | any two of 2 spawns and 1 unlock, 3 processes, prefork, failing forks, pipes, watchers, records, sends, cold starts | every failure path and fall-back cleans up, strays excepted; the service implements its contract |
| `service_liveness` | 1 spawn, 1 unlock, 2 processes, failing checks, hooks, watchers and cold starts, fairness | requests settled, orphans reaped |
| `receiver` | 2 messages of any kind, header 2, bodies 0 to 2, waiting and pipelining clients, fairness | framing loses, repeats and reorders nothing; timer runs exactly while a message is incomplete; descriptors reach the message they came with; half messages end |
| `resources` | 3 processes of 2 bundles, 1 user, `MaxDied` 2, one failing or unsupported SPM call, rebuild or copy, one restart | SPM counts and lock references exact, latest deaths kept |
| `child` | 4 modes, 3 kinds, one set of flags per branch of a hook, descriptors that fit or not, any step failing | application code only in a confined process; parent told once (except after a failed `execv`); no step after its privilege is gone; descriptors delivered |
| `sandbox` | 3 directories (one without an app document), every kind of section and request, 2 failing calls, 2 lists, 2 spawns, another spawner | an entered sandbox is complete; only the fuse mount is made on the host; no announced list is lost to a race; debug sandboxes are removed; denials go with grants |
| `client` | 2 threads, 2 connections, 2 attempts, two cut, interrupted or timed out writes or deaths of a service, fairness | calls never meet on a connection; success is one's own application; abandoned attempts leave nothing, unless the service died; blocks are the message; every call returns |
| `hnp` | 2 applications, 3 names, 3 versions, 3 commands, one failure, noticed or not, or crash, fresh or migrated record | success means usable; nothing unsigned or orphaned stays; nobody loses a version another one removes |
| `unlock_message` | violation | an asynchronous unlock leaks its message |
| `hnp_reinstall` | violation | installing the current version again after an upgrade deletes it |
| `stale_message` | violation | after SPM rebuilt the message, error paths answer from the freed one |

Bounds, and why they are enough:

- *Service.* Two concurrent requests of a kind are needed for any confusion between contexts, a
  third process for a reserve beside two children, two crashes (`MaxCrashTime` 2) for a chain that a
  success breaks. One connection suffices, because requests never meet through a connection other
  than by its closing. `ServiceUp` stops exploring after the service has exited (those states are
  still checked). With faults, `TwoRequests` lets any two requests meet: one fails while the other is
  in any state; at most one response is lost. Symmetry is over processes and spawn requests, which
  the specification never distinguishes; the liveness run uses none.
- *Receiver.* A header of 2 can be cut inside, a body of 0 is a bare header, one of 1 cannot be cut
  and one of 2 can; a second message may begin in the read that ends the first.
- *Resources.* Two processes that share a token and a uid and a third with its own uid; `MaxDied` 2
  overflows with three deaths; one change of the lock status separates holders from the others.
- *Child.* The steps of one child are sequential; requests enumerate each branch once, 999 and 1000
  are the last descriptor that fits and the first that does not, `EncapsMax` 2 is reached and exceeded.
- *Sandbox.* Two failures meet in one spawn (a mount and its repair); the group table (2) and the
  policy table (5, sent in batches of 3) overflow; two lists race with one load.
- *Client.* Two attempts are a retry; two connections hold one to each service, or an old and a
  current one; two faults are the least that a sum of cut writes needs; blocks of 4 words split a
  TLV. Timeouts of reads are not bounded by the fault budget.
- *Hnp.* Three commands are install, upgrade, and one that meets both; n2's link collides with one of
  n1's third version, n3 has no links.

Fairness. Service (`FairSpec`): timers fire, SIGCHLD is handled, SIGKILL kills, a leaving child
exits, a stopped loop ends. A child may hang for ever, a client may never hang up, and the watcher
of the result pipe is not assumed to run: the timer alone must settle a request. Receiver: the loop
polls the socket, ends its handlers and fires its timers; the client owes nothing. Client: its
threads run (their timeouts are steps of theirs), and a running service accepts and notices a
hang-up; it owes no answer.

Deadlock is checked in `child`, where `Ended` is the only state that may stay. In the others
(`CHECK_DEADLOCK FALSE`) there is nothing left to do once clients and children are gone or the
bounds are used up.

### Where the code and its words part

With a run: the three violations above. Described by the models, without a run:

- A failed hand-off to the reserved child is answered with an error;
  `docs/modules/module_standard.md:659` speaks of a fall-back to a normal fork
  (`SpawnHandOffFails`).
- A lock status that the parameter service refuses is answered 0 (`appspawn_service.c:2235`, `:2264`;
  `LockStatusRefused`), and so is a spawn whose child cannot be watched, with pid 0 (`:1523`).
- A parked prefork child keeps the write end of its own command pipe, so it never reads the end of
  file that would tell it the service is gone (`:1171`).
- A cold start whose `execv` fails returns success, so the child leaves without an answer; the
  comment at `appspawn_server.c:92` says "cold start fail, to start normal" (`ToldOnce` excepts it).
- `AppSpawnColdRun` ignores the result of the PRE_RELY hooks (`appspawn_service.c:1878-1890`): a
  cold-started renderer whose descriptors cannot be duplicated has reported an error and runs all the
  same (`AfterPreRely`; `ToldOnce` and `DescriptorsDelivered` except it). The service drops its context
  without a kill (`:1593-1600`), so it runs on unknown (the strays of `AppSpawnService`).
- A child in flight when the service stops is not killed (`appspawn_service.c:110-131`,
  `appspawn_appmgr.c:86-90`), and the client's retry starts a second one (`orphans` of `SpawnClient`).
- A uid count the kernel does not support makes `IncreaseRefCounts` forget the token's (`spm.c:901-902`).
- The unlock child mounts below lock paths whose last reference was released after it was forked
  (`sandbox_shared_mount.cpp:205`; `MountQueueWorkerThread` works on `reserved`).
- Flag points of a private section are mounted for a caller that is not its owner
  (`sandbox_core.cpp:259`, `:277`).
- The sandbox: the four exceptions listed with `AppSandbox` above.
- hnp: packages without links have no single owner (`hnp_base.h:122`), and the `private`, `batch`,
  `undone`, `dropped` and `unnoticed` rows of the table above.
- Client: a broadcast whose df half was never answered reads it as success (`dfRes` is zeroed,
  `appspawn_client.c:508`); `SendUserLockStatus` destroys a handle other threads may be using; a block
  that was written in part is written again from its start, and two such writes may pass for a whole
  one (`appspawn_client.c:217-240`, the ghost `cut`); the library accepts a message of
  `MAX_MSG_TOTAL_LENGTH` bytes, the service only shorter ones.

## 5. Proofs

Eight modules hold the proofs; each assumes only the named ASSUMEs of the module it is about, which
TLC evaluates in the runs. Every inductive invariant was an invariant of a TLC run before it was
proved. Each theorem is `Spec => []P` for a property `P` of section 4, but the action properties
and `MessageBuiltInOrder`, which is about an operator.

The induction theorems of the library take an operator, which the provers cannot instantiate. Where a
proof needs an induction (the loops of the message, the concatenation of the parts of a plan),
`NatInductionBySet` states it for a *set* of numbers, from the well-foundedness of the order
(`NatLeast`); the property becomes the set of the `n` that have it. Each of the two modules that need
the two lemmas states them.

**The service** (`AppSpawnServiceProofs`; `ServiceAssumption`: the request sets
are disjoint, the null values are no members, `MaxCrashTime` is positive).

1. `TypeCorrect`. `TypeInv` adds to `TypeOK` that a context has a child, without which the
   descriptors and results indexed by `ctxPid` have no type.
2. `AnsweredOnce`, `ConnectionOutlivesContext` from `RequestInv`: a request is unreceived, in a
   context of its kind on an open connection and unanswered, or settled, and no application exists
   for it before it is settled. Answers are only ever sent by the step that removes the context.
3. `OneOwner` from `OwnerInv`: `PidOwnedOnce` plus "a process not yet forked has no owner", which
   is what makes a fork safe.
4. `FdsOwned` from `FdInv`: per context and per process what `FdOwnership` states with a union.
   `CtxEndsOfSome` (by `OwnerInv`, the union has one member) connects the two, and
   `DeletingKeepsFds` is the one argument for all the ways a context is dropped.
5. `ReferencesBalanced` from `RefsInv`: the balance stated without the choice; that an application is
   on `appQueue` once (`OwnerInv`) keeps `APP_CLEANUP` from running twice.
6. `CrashesCountedExactly` from `CrashInv`: a request that has no answer has no result code, so the
   requests counted, which have one, never change it.
7. `ChildrenKnown`, `KillsHitOwnChildren` from `ChildInv`: what the state of a child implies about its
   pipes (a child whose failure was read is leaving, or a stray whose client was told) and what an
   owner implies about the state of its process (an owned process is not reaped, except behind an
   unlock context).

**The refinement** (`AppSpawnRefinementProofs`). `ServiceImplementsContract`: `MapInv` adds that a
recorded application was named to its client in the step that recorded it (`AppsWereNamed`), so that
one that ends leaves "ended" behind and not "dropped". One lemma per shape of step (unseen, accepted,
refused, settled, all ended); each action of the service is one of them.

**The receiver** (`MsgReceiverProofs`; `ReceiverAssumption`: a header has at least one unit).
`ReceiverTypeCorrect`; `TimerRunsWhileIncomplete` from `TimerInv` (in the middle of a handler the timer
is still that of the message kept); `StreamIntact` and `DescriptorsFindTheirMessage` from `StreamInv`.
"Each cell is followed by the next" is not enough to say where the first message ends without an
induction over the cells, so `InOrder` says of every cell where its message ends, that it is
contiguous up to there, and which message follows: appending a message and removing the first
one preserve it.

**Resources** (`SpawnResourcesProofs`; `ResourcesAssumption`: the processes are finitely many, the
queue has room for one).
`StepKinds` sorts the handlers by what they do to a record: it enters with
references, fails at once, is dropped by a checkpoint, leaves and gives back, or is restated.
`SpmReferencesExact` from `CountInv` and `JobInv`: a record gives back under the uid it was counted
with, though the message that states the uid may have been rebuilt in between, because a message is
rebuilt only when that uid stays (`RebuildFacts`). `LockReferencesExact` from `LockInv`.
`LatestDeathsAnswered` from `DiedInv`: nobody dies twice, and at least as many deaths follow a
process in the history as records follow it in the queue, so the oldest record is the one to drop.
`ResourcesTypeCorrect` from `SpentInv` (no count exceeds the processes ever asked for), `LeftInv` (nor
in what a stopped service leaves) and `MountInv` (a layer is mounted below a path once per unlock
event).

**The child** (`SpawnChildProofs`; `RequestsAssumption`). `Executed(i, n)` says that step `n` of hook
`i` of the stage has been taken, `Effect(s)` what step `s` is for; `EffectInv` is that the steps taken
have achieved their effects, and `RootInv` that the process is root until `setresuid` and has every
capability until `capset`. From the order of the table every step finds the privilege it needs,
which is `ExitsOnlyByFailure`; at the end of a stage all its steps are taken, which gives
`AppsRunConfined`, `ParentToldOnce` and `FdsDelivered`.

**The sandbox** (`AppSandboxProofs`; `ConfigAssumption`: documents are made of sequences, and no isolated
document has a debug section, as none that is shipped has; `RequestsAssumption`: lists of a request
are sequences, and flags of the second word come in a message that has one; `LimitsAssumption`: a batch
of policies has room for the denials).

1. `MountsStayInTheSandbox` from `NamespaceInv` (what each phase of the child implies about its
   namespaces; the fuse mount comes before them and only for a request that may use DLP files);
   `AnnouncedListUsed` from `ListInv` (a loaded list is older than the announced one only between the
   answer and the reading of the file, or after another spawner has answered).
2. `EnteredSandboxComplete` from `EnterInv`: a critical mount of the plan is still to be made, was
   made, or lies in one of the two kinds of scopes that were left, and the root changes only when nothing
   is left. A failing step skips the rest of its scope, so this needs `IsPlan`: a critical mount lies in
   no scope that another step leaves, except that of the directory of its own point and that of the flag
   points of a render or gpu process. That `PlanOf` has this shape
   for every configuration and request is shown section by section, with `FlattenFacts` (what a
   concatenation contains, by induction) for the parts put together.
3. `DenialsReachTheKernel` from `DecInv`: the denials are added last, and a table they do not fit into
   is thrown away with its grants; the batches cover the table (`BatchesSend`), so what was sent
   without a refused batch has every denial.
4. `DebugSandboxGone` from `DebugInv`: every directory of a debug sandbox, whatever permissions its
   installation had and wherever it stopped, is one that an uninstall, which takes all permissions,
   finds.

**The client** (`SpawnClientProofs`; `ClientAssumption`, `CallersAssumption`). `ClientInv` has a part per
level. `LockInv`: the owner of a manager's mutex is the thread that is between lock and unlock.
`SockInv`: an open connection is the socket of exactly one manager. `IoInv`: the sum of written and
remaining units is the block's length, and what was written tells whether one write was cut.
`TrafficInv`: a connection in use is quiet or carries one message, of which the service has exactly
the prefix that was written (`Exact`), or its job, or its answer. `ReplyInv`: a result that a call
holds was earned by its own request (`Earned`, `Own`). `KeptInv`: a thread that holds
an answer about an application sends nothing any more that would overwrite it. `CallsNeverMeet`,
`SuccessIsOwnApp` and `NoAppLost` follow.

`MessageBuiltInOrder` and from it `BlocksInOrder` rest on `Packed`: the blocks hold the words added so
far in their order, and only the last has room. So `GetValidMsgBlock`, which takes the *first* block
that holds the TLV, can only find the last, and the two ways of adding a TLV both append
(`TlvAdded`). `Held` joins this with the TLVs: no more words are in the blocks than the TLVs so far
have, and, when it is as many, they are those; a refused TLV makes it fewer for good.

**The package installer** (`HnpInstallerProofs`; `HnpAssumption`). `Typed` has the types, that the
packages still to do are the last ones of the bundle (`TodoInv`), and what the program counter says of
the two nested calls (`ControlInv`). On top of it, each with what may be said while a call is under way:

1. `ForeignVersionsKept` (an action property) from `ForeignInv`: what the list of an uninstall still
   means to delete is nobody else's current version. The check was made when the list was read; it
   still holds at each deletion because nobody else's entry changes and all entries of a package
   share their current version (`SameCurrent`).
2. `NoVersionOrphaned` from `OrphanInv`: a version on disk is named by the record, or by the old record
   nobody has read yet, or is being unpacked, or is on the list of the uninstall; `StopInv` and
   `GoneInv` say what an undone installation and a replaced version leave.
3. `SuccessMeansUsable` from `PartialInv` (a half-written version is the one being unpacked or
   undone), `PlacedInv` (what is about to be recorded is in place and is not the version that goes) and
   `DoneInv` (the packages before the current one are recorded and in place).
4. `NoBinaryUnsigned` from `SignInv`: an unsigned version waits for its signature, is being placed, or
   is about to be removed. Only one application has an entry for a package with links (`OneHap`), which is
   why removing the entries of the application whose signing failed removes the version.

Only model-checked: liveness (`EveryRequestSettled`, `OrphansReaped`, `HalfMessageEnds`,
`EveryCallReturns`), because fairness and ENABLED are out of the prover's reach.

## 6. Not modelled

- *Sandbox (modern)*: a second implementation, chosen at build time; the default build uses the one
  of `AppSandbox`.
- *Lite spawner*: a separate program that handles one request at a time and keeps nothing.
- *Watchdog, sysevent, entry point, device debug*: a periodic write nobody reads, reports, argument
  parsing, and one request without state.
- *hnpcli pack*: an offline tool that writes archives.
- *Permission tables* and the DEC wrapper of the inner kits: constant data.
- In the service: the pidfd watcher, messages retained under `DEBUG_BEGETCTL_BOOT`, dump, remount and
  restart messages (no state of theirs outlives the handler), stop-when-idle of nativespawn and
  cjappspawn, allocation failures other than those named in `Faults`. A begetctl message of developer mode
  (`ProcessBegetCmdMsg`, `appspawn_service.c:2034-2051`) goes through `ProcessSpawnReqMsg` with a message
  made from a retained one and forks a child; its context is one of the spawns of the model, but who owns
  the message made for it is not modelled. A request arrives whole there; `MsgReceiver` shows that it may
  be assumed to.
- cgroups (`appspawn_cgroup.c`): creating and removing them, `fork_denied`, killing the members of a group
  when its application dies, the graceful-stop parameter and the clean-up of processes an earlier instance
  left in its groups. `KillOnlyUnreaped` therefore speaks of the signals of the service itself.
- Namespaces of the spawner (`appspawn_namespace.c`): its `setns` before and after each fork.
- In the client: the setters of `appspawn_msg.c` beyond the TLV each adds, and the native and hybrid
  twins of the listen call, which repeat it for their services.
- In the sandbox: substitution of path variables, and what a path contains; allocations that fail.
- hnp: two commands at once.
- In the child: values of environment variables and encaps, preloading and prelinking of libraries.
- TLV offsets within a message, and the ioctl protocol of checkpoints with the kernel.
