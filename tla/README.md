# devlane in TLA+

devlane is a Go command-line tool that lets several checkouts of an
application ("lanes") run side by side on one host. It derives an identity for
each lane, gives every declared service a host port, writes the outputs of the
checkout (manifest, compose env, generated files) and records the ports in one
catalog file that all checkouts on the host share.

There is no daemon. Each invocation is a process of its own; processes meet in
the file system: in the host catalog, in its lock, and in the outputs of a
checkout. That is where the difficult behaviour is and what is modelled.

## Inventory

| part | source | state it keeps | operations | what makes it correct |
|---|---|---|---|---|
| host catalog | `internal/portalloc/portalloc.go` | `catalog.json`: rows with key (app, repoPath, service), port, lane, mode, branch, lastPrepared | `Inspect`, `HasAllocation`, `List`, `BeginPrepare`/`Publish`/`Close`, `Mutate` | no two rows with one port; commands behave as if atomic; a command changes its own rows only |
| catalog lock | `catalog_lock_unix.go`, `catalog_lock_stub.go` | flock on `catalog.json.lock`, pid of the holder in the file | `acquireCatalogLock` (polls to a deadline), `Close` | one holder; every waiter ends; the named holder is the holder |
| port resolution | `resolve` and its helpers | in memory: rows, `held`, `claimed`, addresses of the checkout's rows | prune, keep, choose, displace, append | the documented order of candidates; fixtures for stable lanes; sticky ports for dev lanes |
| reassign | `portalloc/reassign.go`, `cli/reassign.go` | none | move one row; `--lane` finds the row of another checkout | one row moves, off its port |
| lane resolver | `portalloc/laneresolver.go` | none | match a lane name to a checkout | ambiguity is reported, the current checkout wins |
| collision report | `portalloc/collision.go` | none | classify why a fixture is not available | the cause named is the cause |
| outputs | `internal/write/write.go` | manifest, compose env, generated files and their hash sidecars, temporary files | plan, snapshot, stage, promote, roll back, verify | all or nothing; no temporaries left; user edits kept |
| manifest and identity | `internal/manifest/manifest.go` | none (a value) | `BuildInputs`, `Build` | ports of the lane or a failure |
| adapter | `internal/config/config.go` | `devlane.yaml` | `LoadAdapter`, validation | names unique, ports legal |
| command line | `internal/cli/app.go` | none | `prepare`, `inspect`, `up`, `down`, `status`, `port`, `doctor` | outputs precede the catalog; `up` starts only what is prepared |
| worktrees | `internal/cli/worktree.go` | git worktrees beside the checkout | create, seed, prepare; remove and clean up | a removed checkout has no rows; foreign rows stay |
| drift and gc | `internal/drift/drift.go`, `internal/cli/host.go`, `host_gc.go` | none | classify rows against the checkouts, remove after confirmation | a row in use is never removed |
| init | `internal/initcmd/init.go` | `devlane.yaml` it writes | scan, choose, confirm, write | nothing is overwritten without consent |
| compose | `internal/compose/compose.go` | none (Docker keeps what runs) | `up`, `down` over the files and the env file of the outputs | what is started is what was checked |
| doctor, render, git | `internal/doctor`, `render`, `gitutil` | none | print, substitute, run git | pure input and output |

How they interact: every command loads the adapter and builds the manifest
(which resolves ports against the catalog, without the lock, keeping only the
verdict). `prepare` then opens a session (lock, load, resolve in memory),
writes the outputs, publishes the catalog by a rename and releases the lock.
`reassign`, `worktree remove` and `host gc` go through `Mutate`: lock, load,
callback, publish, release. `up`, `down` and `port` only read; `up` and
`down` then run compose, which reads the outputs again. `worktree create` runs
git, copies seeds and prepares the new checkout; `init` only writes adapters.

What is hard: everything a command knows from before it had the lock is stale
(the ports of `up`, the lane of `reassign --lane`, the preview of `host gc`,
the path of `worktree remove`, the directory that
`create` prepares, the plan of `init`); a command can fail or be
killed between any two file operations; a waiter can lose every race for a
polled lock; `resolve` edits a Go slice through addresses that `append` may
leave behind; outputs of one checkout can be written by two commands, one of
them without the lock; a walk over a tree is not a snapshot of it; the recipes
printed for a refusal have to lead somewhere. The list, with lines, is under
"hazards" in `PROJECT.json`.

## Modules

| module | what it is |
|---|---|
| `PortAllocation` | operators: adapters, rows, catalogs, candidate ports, the resolution of an adapter's ports, the catalog each command leaves behind (`Outcome`) |
| `AtomicCatalog` | abstract specification: commands change the catalog one at a time, each in one step |
| `HostCatalog` | processes that run `prepare`, `reassign` and the cleanup of `worktree remove` against one catalog and one lock |
| `CatalogLock` | abstract specification of the lock: ask, get it if nobody has it, give it back or up |
| `LockFile` | the flock, the file and the pid in it, polled by processes with a deadline |
| `ResolveLoop` | the loop of `resolve`, one iteration per step, with the slice and its addresses |
| `LocalOutputs` | the outputs of one checkout, file by file: what `HostCatalog` takes as `Stage` and `Promote`, and the reading that `up` does |
| `CollisionRecovery` | an operator who prepares a stable lane and does what each refusal says |
| `LaneReassign` | `reassign` with and without `--lane`, prepares with `--lane` and `--mode`, branches whose adapters differ, several apps |
| `LaneUp` | extends `LaneReassign` with outputs, `up`, `down`, `port` and what compose runs |
| `WorktreeLifecycle` | `worktree create` and `remove`, git, and the prepares beside them |
| `HostGc` | `host doctor` and `host gc`: two scans, a confirmation, the removal |
| `InitScaffold` | `init`: scan, choice, plan, questions, writes |
| `PortAllocationProofs`, `HostCatalogProofs`, `LocalOutputsProofs`, `HostGcProofs`, `WorktreeLifecycleProofs` | the theorems about the module each is named for |
| `CatalogPartsProofs` | those about `ResolveLoop` and `LockFile`, the parts that `HostCatalog` takes as one step and one variable |
| `LaneProofs` | those about `LaneReassign` and `LaneUp` |
| `OperatorProofs` | those about `CollisionRecovery` and `InitScaffold` |
| `MC...` | instances for TLC, one per specification |

`HostCatalog` is where commands meet: it shows that what a command does between
taking the lock and releasing it has the effect of one step (`Serializable`).
The modules about larger stories (`CollisionRecovery`, `LaneReassign`,
`LaneUp`, `WorktreeLifecycle`) rely on that and let such a command be one step,
or two where its outputs matter, so that they can keep apart what happens
before it has the lock. `HostCatalog` itself takes the lock as one variable,
which `LockFile` implements (`ImplementsLock`), the resolution of ports as one
step, which `ResolveLoop` implements (`LoopComputesOutcome`), and the outputs
as one value, which `LocalOutputs` refines file by file.

### HostCatalog and the code

| model | code |
|---|---|
| `catalog` | `catalog.json`; a function from (checkout, service) to a row or `NoRow`. A checkout stands for a pair (app, repoPath). Of the metadata only `mode` is kept |
| `lock` | the flock; `NoProc` when free. The kernel drops it with the process, so `Exit` frees it |
| `manifest` | the ports claimed by the outputs of a checkout |
| `work`, `states`, `backup` | what a process has in memory: the session's catalog, the states of `resolve`, the snapshot of the outputs |
| `prepared`, `damage` | history, per checkout: the ports that the last prepare to succeed published, and whether a kill, a failed restore or a lost row has torn the outputs since, or two prepares were at work on them at once. No guard reads them |
| `Start` | `loadAdapter`: the command now carries the adapter it read and the mode it derived |
| `Inspect`, `InspectFails` | `manifest.Build` calling `portalloc.Inspect` without the lock |
| `Decide` | `needsCatalogPrepare`: without ports and without a row, a prepare takes no lock and goes on at `Stage` |
| `Acquire`, `AcquireTimesOut` | `acquireCatalogLock` |
| `Load`, `LoadFails` | `loadCatalog` under the lock |
| `Resolve`, `ResolveFails` | `resolve(commit = true)` |
| `Reassign`, `ReassignStops`, `DropCheckout` | the callbacks of `Mutate` |
| `Stage` ... `PromoteFails` | `write.PrepareWithRollback` |
| `Publish`, `PublishFails` | `saveCatalog` and, for prepare, the rollback after it fails |
| `Restored`, `Torn` | what a rollback leaves: the snapshot, or outputs that nobody published |
| `Leave` | the command has done what it could; only its lock is left to release |
| `Close`, `Crash` | the end of the process, by itself or by a signal |

Probes of the operating system are nondeterministic: any port may be refused
at any time. In what order a dev lane tries its candidates therefore does not
bound what it gets in `HostCatalog`; `ResolveLoop` fixes the refused ports for
one execution and checks the order (`FirstFit`).

`ResolveLoop` keeps two sequences of rows: `slice` is `cat.Allocations`,
`array` is what the addresses in `byService` point into. They are the same
memory (`aliased`) until `append` finds the slice full. `LoopComputesOutcome`
shows that, whatever the capacity, the result is one of the `Outcome`s that
`HostCatalog` takes in its `Resolve` step; there the constant `AppendMoves`
says whether a move may happen at a new service, since the rows of other apps,
which fill the same slice, are not counted. `Selected` is the filtering loop of
`pruneUndeclaredAllocations`: the rows at some positions, in their order.

### LocalOutputs and the code

| model | code |
|---|---|
| `disk` | what each output holds: the version it was rendered from, a user's edit, or nothing. A sidecar of version v is the hash of the generated file of version v |
| `Plan`, `Verified`, `Generated` | the order of `planWrites`; which outputs have `verifyForUp`; which have a sidecar |
| `Begin` | `planWrites` under the catalog lock |
| `Snapshot`, `StageOne`, `PromoteOne` | one iteration of the loops of `prepareWriteTargets`, `stageWrites`, `promoteWrites` |
| `PlanFails` | an error in one of the first two; nothing removes what is staged |
| `PromoteFails`, `PublishFails` | the two ways into `Rollback` |
| `Restore`, `RestoreFails` | `restoreSnapshot`, last snapshot first, going on after an error |
| `Cleanup`, `Succeed` | `cleanupTemps` and the return of the command |
| `UserEdits` | somebody edits or deletes a generated file |
| `UpBegins`, `UpReads`, `UpEnds` | `VerifyPreparedOutputs`, one file per step, without the lock |

Prepares here take the lock. The prepare of an adapter without ports does not;
`HostCatalog` has it, with the outputs as one value, and `catalog_race` runs it.
Paths are taken to be distinct and no symlinks.
`torn` and `litter` remember kills and failed restores, `sawAll` what `up`
could have seen: no action reads them.

### LockFile and the code

| model | code |
|---|---|
| `flock` | who has the flock of `catalog.json.lock`; `content` is the bytes of that file |
| `Open` | `os.OpenFile` without truncation |
| `Flock`, `FlockBusy`, `Sleep`, `GiveUp` | the loop of `acquireCatalogLock`: `EWOULDBLOCK`, the deadline, 50 ms more |
| `ReadHolder`, `Refused` | `readLockHolder` and the error that names the pid |
| `Truncate`, `WritePid` | `file.Truncate(0)` and `WriteString` at offset 0 |
| `AcquireFails` | any other error on the way |
| `Close`, `Crash` | `Close`, and the end of the process, which the kernel answers by dropping the flock; the bytes stay |

A pid is the sequence of its digits, so that a short one over a long one leaves
a mixture when the truncation is left out. A deadline is a number of tries.

### CollisionRecovery and the code

| model | code |
|---|---|
| `BlockedIn`, `ReportOf` | the services that `resolve` refuses and `classifyStableCollision`, cause by cause in its order |
| `HomePrepares`, `HomeRefused` | a prepare of the stable lane: its rows, or the first refusal |
| `FreePort`, `FollowRecipe`, `RecipeIsMoot`, `HumanDecides` | what the operator does with the text: stop the listener, `reassign --lane <owner> --force`, try again, edit the adapter |
| `DevPrepares`, `Retires`, `ListenersChange` | everybody else |
| `TriedBefore`, `IsFirstFit` | the order of `devCandidates` |

### LaneReassign and the code

| model | code |
|---|---|
| `tree` | what a checkout has checked out: the branch and, from the adapter on it, the ports, the stable branches and the name of the stable lane. The app of a checkout does not change |
| `lanes` | the lane recorded in a row |
| `Options` | the values of `--mode` and `--lane` with which commands are typed in a checkout; `reassign` takes neither |
| `deriveMode`, `deriveLaneName` | the functions of that name: `--mode`, else the stable branches; `--lane`, else the name of the stable lane, the branch, or the directory when HEAD is detached |
| `derived` | history: the names and modes derived together in a checkout. No action reads it |
| `MatchingRows`, `Winners`, `Representative` | `ResolveLane`: rows of the app and lane, one checkout or the current one, else ambiguous |
| `StartReassign`, `StartReassignLane` | `resolveReassignTarget`, on a catalog read without the lock |
| `StartPrepare` | the inspection before a prepare waits |
| `PublishPrepare`, `PublishReassign`, `Stop` | the command under the lock, or its failure |
| `PublishRows`, `PreparedLanes` | what a prepare publishes. When `append` moves the rows, one that is refreshed or displaced later keeps port, lane and mode |
| `Switch` | `git switch`, or an edit of the adapter, by a user |

### LaneUp and the code

| model | code |
|---|---|
| `outputs` | per checkout: the lane, the mode and the ports its outputs were rendered from |
| `writer` | the prepare that has written its outputs and not yet published |
| `running` | per compose project: the ports that are bound. The name of a project is derived from app and lane (`buildPatternValues`) |
| `Own` | the prepare whose ports a command typed in a checkout, with its options, would resolve |
| `UpLoads` | `buildManifest`, with the options of `up`; `UpNotReady`, `UpHasNothing`, `UpPrints` its early returns and the bare-metal commands |
| `UpVerifies` | `VerifyPreparedOutputs` in one step (`LocalOutputs` has its steps). The code compares the branch too; without it more `up`s pass here, and the properties are checked of those as well |
| `UpRuns` | `compose up`, which reads the outputs again |
| `Down` | `runDown` and `compose down` |

### WorktreeLifecycle and the code

| model | code |
|---|---|
| `Main`, `Places` | the checkout the commands are typed in; it and the sibling paths |
| `dir` | per place: nothing, a checkout, or a directory git does not know (`debris`), which a seed or an output leaves where a checkout is gone |
| `born`, `births` | which checkout of a place a row belongs to: a second checkout at a path is another one |
| `InitialBranches` | branches that users made before |
| `CreateChecks`, `CreateRefused` | the checks of `runWorktreeCreate` before git |
| `AddWorktree`, `AddWorktreeFails` | `git worktree add`, which takes the adapter of `HEAD` |
| `ApplySeeds`, `CreateFails` | `applySeeds`, whose `MkdirAll` makes the directory anew if it is gone; a failure leaves the checkout |
| `Found`, `Load` | `resolveConfig` and `BuildInputs`: without an adapter at the path, the one of the caller's directory; without a checkout that git knows, the directory of the adapter, on no branch |
| `LoadCreated`, `StartPrepare` | `load` for the prepare that ends `create`, and for `prepare --cwd` of a path |
| `Capture`, `GitRemove`, `GitRemoveFails` | `runWorktreeRemove` up to `git worktree remove`, which also drops git's record of a checkout that is gone |
| `Cleanup`, `CatalogFails` | the rows of the app and path noted are dropped, or the catalog cannot be read or published |
| `WriteOutputs`, `PublishPrepared` | the rest of the prepare of a place |
| `UserAdds`, `UserRemoves`, `UserDeletesBranch`, `UserEdits` | git and editors |
| `retired`, `blurred` | history; no action reads them |

`load` is one step here. When git knows a checkout at the path but there is no
adapter in it, the caller's adapter is found and refused, since its outputs lie
outside of that checkout; `Load` has no step then.

### HostGc and the code

| model | code |
|---|---|
| `Stat` | `os.Stat` of a checkout's root, and of its parent when it is missing |
| `Visit` | one directory of `loadRepoAdapters`: an adapter, none, or an error that makes the checkout uncertain |
| `Category`, `Removable` | `classify` and `isRemovableCategory` |
| `DoctorReports` | `host doctor` |
| `Preview`, `NothingToRemove`, `Confirm`, `Decline` | `host gc` before it has the lock |
| `Load`, then `Stat` and `Visit` again | the callback of `Mutate` classifies once more |
| `DropRows` | `removeAllocations`: removable now and shown before, by whole value |
| `Resolve`, `Publish` | prepare, beside which gc runs |
| `EditAdapter`, `MoveAdapter`, `ChangeRoot`, `Tick` | users and the clock, at any moment, also in the middle of a walk |
| `Hidden` | directories the walk skips |

### InitScaffold and the code

| model | code |
|---|---|
| `StartAt`, `StartScan`, `StartFails` | `Run` and its options |
| `Visit`, `VisitFails`, `ScanEnds` | `scanCandidates`, one directory per step |
| `SelectRoot`, `SelectAll`, `RefuseMany`, `AnswerOne`, `AnswerQuit` | the choice among the candidates |
| `LoadSource`, `ReadSource` | the two reads of `--from` |
| `PlanOne`, `PlanRefused`, `PlanFails` | `planWrite` |
| `AnswerYes`, `AnswerNo` | the confirmation |
| `Truncate`, `Write`, `WriteFails`, `Crash` | `commitWrites`: `os.WriteFile` truncates and then fills |
| `UserCreates`, `UserDeletes`, `UserRemovesDir`, `UserEditsSource` | others, at any moment |

The recursion of `scanDir` is the sequence `stack` of the directories still to
visit, first the children of the one just read, in the order `os.ReadDir` gives
them (`InOrder`). `Walk` and `Path` describe a tree in the terms of that order;
`TreeAssumption` says what makes them one: a path is the path of its parent and
one more, and the walk lists what is below a directory next to it.

## Runs

| run | instance | states | time |
|---|---|---|---|
| `catalog_race` | 2 processes, 2 checkouts, 2 services, 3 ports, 7 commands: dev and stable prepares of three adapters of one repository, one without ports, a reassign of each kind, a cleanup; `AppendMoves = TRUE` | 1.01 million | 61 s |
| `catalog_fair` | the same host, 4 dev commands, fair, no symmetry | 50,520 | 20 s |
| `resolve_loop` | every set of rows of one checkout beside a row of another, 3 services, ports 0 to 4, 10 commands, 2 sets of refused ports | 13,984 | 2 s |
| `loop_swap` | one stable command: a new service, a displaced one, one that wants its port; finds the violation | |
| `outputs` | 2 processes, 2 versions, 4 files (manifest, compose env, a generated file, its sidecar), edits, `up` expecting either version | 8.36 million | 1:52 min |
| `lock_file` | 3 processes, 2 tries, pids of one and two digits, one the beginning of another; fair | 9,725 | 3 s |
| `collision` | 3 checkouts, 4 ports, 5 adapters of the stable lane, 4 disturbances; fair; `AppendMoves = TRUE` | 60,971 | 34 s |
| `lane_reassign` | 2 processes, 3 checkouts, 2 apps, 3 ports, 2 services, 1 switch, `--mode dev` in one checkout; `AppendMoves = TRUE` | 535,197 | 67 s |
| `lane_up` | one `up` and one other process, 2 checkouts, 2 ports, 1 switch, `--mode dev` in one checkout | 1.02 million | 47 s |
| `worktree` | 2 processes, 2 lanes whose slugs are one path, 3 checkouts made, the main one with them, 1 edit, 2 adapters | 6.58 million | 2:27 min |
| `host_gc` | 2 processes, a checkout of 2 directories, 2 apps, 2 changes, 1 tick of the clock | 4.32 million | 1:30 min |
| `init` | every combination of options, 5 directories, 4 sets of signals, 3 sets of files, 1 change | 882,792 | 24 s |

The times are those of two cores.

Why the bounds are enough. Two processes make a stale read, a lost update and
a starved waiter; a third would only queue behind the lock, except in
`lock_file`, where a third is needed for a message to name somebody who is
neither the reader nor the holder. Two checkouts give foreign rows and two of
one app an ambiguous lane; two services give a new row declared before a
displaced one; three ports make fixtures, defaults and the pool collide and run
out, and a fourth lets a recipe succeed. Two versions of the outputs make a
stale file and a mixed checkout, two verified files a torn read. Three births,
the first of them the main checkout's, are two at one path: a row outlives its
checkout and meets the next. A seed that is the adapter makes a directory that
git does not know; a seed outside of the repository, which is refused before
git is asked, is not in the instance. Two directories and two changes make a
walk miss an adapter that moves past it, with one change left to undo it; one
tick tells a row that was prepared again from the one that was shown. One change
is enough in `init`, since each of its hazards is a single thing that differs
between the plan and the write; a second one finds nothing more in 5.2 million
states. Processes are symmetric, and so are the versions of `LocalOutputs`; the
command sets name checkouts and services, so these are not. Runs that check
liveness use no symmetry.

Every bound is a constant used in guards only: `MaxTries`, `MaxDisturbances`,
`MaxSwitches`, `MaxBirths`, `MaxEdits`, `MaxTime`, `MaxChanges`. The theorems
hold for all their values. Deadlock is not checked in the runs of `ResolveLoop`
and `init`, which model one execution that ends; everywhere else an idle
process can always start a command.

### What the properties say

`catalog_race`, and `EveryCommandEnds` in `catalog_fair`:

- `Serializable`: the catalog behaves as in `AtomicCatalog`; no update is lost.
- `PortsAreUnique`: no two published rows have one port. With the two services
  of the instance it holds although `append` moves the rows; it takes a third
  service to be given the port that a row should have left (divergence 1).
- `OwnRowsOnly`: a publish touches the rows of its own checkout only.
- `DevPortsStick`: a dev prepare keeps the ports that are there when it
  publishes, also those another command changed while it waited.
- `StableOnFixture`: a stable prepare publishes every service on its fixture,
  or leaves its row just as it was, and that only if an earlier service of the
  adapter had no row, so that `append` may have moved the rows.
- `ReassignMovesOneRow`: a reassign moves its row off its present port and
  changes no other row.
- `OutputsArePrepared`: the outputs of a checkout claim what the last prepare
  that succeeded published, whether it took the lock or not, unless they are
  torn, two prepares were at work on them at once, or a displaced row stayed
  where it was (`damage`); the next success of a prepare alone ends that.
- `EveryCommandEnds`: no command waits for the lock forever.

`resolve_loop`:

- `LoopComputesOutcome`: whatever the capacity of the slice, the result is one
  of the `Outcome`s that `HostCatalog` takes in one step.
- `FirstFit`: each service has the first usable candidate in the documented
  order.
- `ManifestPortsDiffer`: the manifest gives no port to two services, also where
  the rows have lost a move.
- `UniqueWhileAliased`: as long as no row has moved in memory, the published
  rows differ too.

`outputs`:

- `PreparedTogether`, `FailureLeavesNoTrace`: all outputs are of one version
  when a prepare succeeds and as before when it fails, also those that did not
  exist.
- `HashesAgree`: a generated file nobody edited matches its sidecar, and after
  a kill matches it again once a prepare has succeeded.
- `TempsRemoved`: only a kill or a failure to stage leaves temporaries.
- `UpSawPreparedOutputs`: `up` reads the outputs in the order in which prepare
  renames them and rollback restores them in reverse, so files found prepared
  one after the other were all prepared at one moment.

`lock_file`:

- `ImplementsLock`: the flock is the lock of `CatalogLock`.
- `HolderIsRecorded`: the file names whoever works under the lock.
- `MessagesNameProcesses`: no message names a mixture of two pids.
- `WaitersAreAnswered`: whoever asks gets the lock or a refusal.

`collision`:

- `NeverUntracked`: `classifyStableCollision` always finds a cause.
- `RemedyHelps`: without the row and the listener that a recipe names, the
  service has its fixture, unless the adapter declares it twice (with three
  services `append` can leave two rows on one fixture, as in divergence 1).
- `RecipesSuffice`: with one service, whoever goes on following the recipes
  ends with the fixture, a request for a decision, or no free port.

`lane_reassign`:

- `PortsAreUnique`: also when the ports are chosen by the adapter of the caller
  for the row of another checkout.
- `LaneFitsMode`: the lane and the mode of a row were derived together in its
  checkout, from a branch, an adapter and the options of one command, though a
  reassign takes them from another row at an earlier moment and `append` may
  leave some rows as they were.
- `LaneScoped`: a reassign changes one row, of its own checkout or of the only
  one of its app that had the lane when it was looked up.

`lane_up`:

- `QuietUpIsAssigned`: if nothing concerned the checkout while `up` ran,
  compose gets the ports that `port` prints.
- `RunningKeepsPorts`: while what such an `up` started runs, no other checkout
  has a row with one of its ports, whatever moves: what is bound is not chosen.

`worktree`:

- `LiveRowsStay`: a cleanup takes no row of a checkout that is there, except of
  one made at the same path after the remove had looked.
- `RetiredUnlessBlurred`: after a remove no row of the checkout is left, unless
  its app changed or could not be read, or it was being prepared when it went,
  or what was left at its path was prepared (`blurred`).
- `CreatedIsRegistered`: a create or prepare that succeeds has the row of the
  checkout whose adapter it read, whatever went on there meanwhile; that may be
  the caller's (divergence 6).
- `DevIfUnedited`: a create prepares a dev lane, unless the checkout is not the
  one git made for it, or the adapter not the one the lane was checked against.

`host_gc`:

- `ConfirmedOnly`: gc takes away what was shown, with the value shown, and a
  prepare brings back nothing that went while it waited.
- `UncertaintyKeepsRows`: a row goes only if, as far as nothing changed since gc
  took the lock, its checkout is not unreachable and holds no adapter that
  declares it or cannot be loaded.

`init`:

- `ScanFindsAll`: the candidates are the directories in scope, in order, as
  stated without the recursion.
- `RefusalWritesNothing`: a run that is refused or cancelled wrote nothing.
- `SuccessWritesAll`: a run that succeeds wrote every target, whole.
- `ExistingStay`: an adapter that was there when init began stays without
  `--force`.
- `CopiesFit`: as long as the source of `--from` stays as it was, every copy
  that is on disk, also after a failure half-way, is of an adapter that is valid
  and has no path outside of the directory it is in.

Each module has a type invariant, which is proved and listed in no configuration;
TLC confirms it when it is added to one. `WorkIsCurrent`
(between load and rename nobody else publishes) is proved and implies
`Serializable`, which is checked.

### Divergences

Where the code does something else than a document says, the module states
the document's sentence as a definition. One is a run that finds the violation:

1. `loop_swap`: `resolve` appends new rows while holding addresses into the
   old array. A displaced row declared after a new service is then published
   with its old port, off its fixture, and a third service may already have been
   given that port: two rows have it (`portalloc.go:410`;
   `docs/65-host-catalog.md:130` promises an update in place). In dev lanes the
   same mechanism loses the refreshed metadata only.

The others are kept beside the properties and listed in no configuration; TLC
refutes each when it is added to the configuration of the module.

2. `PortsArePositive` (`ResolveLoop`): nothing checks that a declared port is
   at least 1, and a probe of port 0 always succeeds (`portalloc.go:449`;
   `schemas/catalog.schema.json:54`).
3. `RollbackTouchesPromotedOnly` (`LocalOutputs`): a rollback also restores
   the files that were not promoted, over edits made since the snapshot
   (`write.go:184`; `docs/65-host-catalog.md:113` speaks of the promoted ones).
4. `TargetIsGone` (`HostGc`, with a directory in `Hidden`): prepare uses an
   adapter in a tree the walk skips, and gc removes its rows
   (`docs/65-host-catalog.md:265`).
5. `OutputsPrecedeCatalog` (`HostCatalog`): a prepare of an adapter without
   ports, in a checkout without rows, takes no lock. It can write the outputs
   between those of a prepare with the lock and its publication, and the catalog
   then gives ports that the manifest does not have (`app.go:352`;
   `docs/65-host-catalog.md:111`). So does a stable prepare whose row is lost as
   in divergence 1.
6. `CreatedAtItsPath` (`WorktreeLifecycle`): if the new checkout is gone by the
   time `create` prepares it, `resolveConfig` takes the adapter of the caller's
   directory, and `create` prepares the caller's checkout and reports success
   (`app.go:680`, `manifest.go:108`; `docs/40-cli-contract.md:91`).
7. `CreatedIsDev`, `RetiredHasNoRows`, `CleanupOfRetiredOnly`
   (`WorktreeLifecycle`): create checks the adapter of the working tree and
   prepares the one of `HEAD`; a prepare that waits while its checkout is
   removed publishes its rows afterwards; a cleanup takes the rows of a
   checkout made anew at the path meanwhile (`docs/40-cli-contract.md:92`,
   `:96`; `docs/65-host-catalog.md:77`).
8. `SelectsByLane` (`LaneReassign`): the row a `reassign --lane` changes may
   have another lane by the time it changes (`docs/40-cli-contract.md:88`).
9. `NothingOverwritten`, `CopiedWasValidated` (`InitScaffold`): a file created
   between plan and write is overwritten (`init.go:610`), and a source edited
   between the two reads is copied unvalidated
   (`docs/50-adapter-schema.md:78`).
10. `StartedPortsAreAssigned` (`LaneUp`): a prepare or a reassign between the
   check of `up` and compose changes what is started
   (`docs/40-cli-contract.md:56`).

Two more were seen while modelling. A stable lane whose two services hold each other's fixtures is told to reassign one, then the other,
for ever: `RecipesSuffice` asks for one service. And gc's walk can miss an
adapter that is moved from a directory it has yet to read to one it has read:
`UncertaintyKeepsRows` speaks of what did not change.

### Fairness

- `HostCatalog`: weak fairness of each process's own steps. The operating
  system goes on scheduling a running process, and the polling loop of
  `acquireCatalogLock` reaches its deadline. Nothing is asked of `Start`, of
  `Crash`, nor of winning the lock: a waiter that loses every race times out.
- `LockFile`: weak fairness of each process's `Step`, which is the loop, the
  work and the release, for the same reason. Opening, failing and being killed
  are not fair.
- `CollisionRecovery`: weak fairness of the operator, who goes on doing what the
  refusals say. That is the assumption of the documents that print recipes;
  other lanes and listeners are bounded and not fair.

The other modules claim safety only.

## Proofs

All theorems hold for all finite or infinite values of the constants that
satisfy the assumptions declared with them. The assumptions are what the code
ensures before a command gets that far: an adapter declares each service once
(`validatePorts`), a reassign names a service that is declared (the check in
`reassign.go`), model values that stand for "nothing" are not members of the
sets beside them.

`PortAllocationProofs` proves what the operators do, for any well-formed
command: `Outcome` keeps a catalog a catalog, keeps ports apart (a chosen port
is outside `held`, the rows that stay, and `claimed`, the declarations before
it), keeps dev ports, moves one row for a reassign, and changes no row of
another checkout. The other proofs about ports rest on it.

`HostCatalogProofs`:

- `TypeCorrect`: `Spec => []TypeOK`.
- `NoLostUpdate`: `Spec => []WorkIsCurrent`. The inductive invariant says
  which steps imply holding the lock (from `locked` to `written`, except for a
  prepare that skipped it), and that the catalog in memory is the published
  one at `loaded` and an `Outcome` of it afterwards. It is needed because
  `WorkIsCurrent` says nothing of who may publish: only the fact that a
  process at `written` is the lock holder keeps other processes' work current.
- `ImplementsAtomic`: `Spec => Serializable`, from the same invariant: a
  publish is a `Commit` of `AtomicCatalog`, every other step a stutter.
- `ForeignRowsSafe`, `Sticky`, `OneRowMoves`: the action properties
  `OwnRowsOnly`, `DevPortsStick`, `ReassignMovesOneRow`, since a publish writes
  an `Outcome` of what is published.
- `FixtureOrUntouched`: `Spec => StableOnFixture`, likewise.
- `UniquePortsAlways`: `Spec => []PortsAreUnique`, under `NoLostPortMove`: for
  every command, `append` moves nothing, or the lane is dev, or the adapter has
  fewer than three services. Without it the property is false, which is
  divergence 1. Whatever `append` does, a port is never in rows of two checkouts:
  `CheckoutsStayApart`, `Spec => []ApartPorts(catalog)`. What is lost is a write
  to a row of the checkout that is prepared, and the port it keeps was its own.
- `OutputsStayPrepared`: `Spec => []OutputsArePrepared`, for any commands, with
  and without the lock. The invariant follows the ports from the computed rows
  into the states, the manifest and the catalog, and the snapshot back: while
  the outputs of a checkout are not damaged, they claim what was published or,
  between the rename of the outputs and that of the catalog, what is about to
  be, with the snapshot as it was published; and whoever has outputs under way
  beside another has damaged them.

`CatalogPartsProofs`, on the loop of `resolve`, for any catalogs, adapters, sets
of refused ports and capacities of the slice:

- `LoopImplementsPrepare`: `LoopSpec => []LoopComputesOutcome`, under
  `AppendMoves`, without which `PortAllocation` does not let a row move. The
  invariant `LoopInv` says of the declarations so far that each has the port it
  has in a resolution (`PrefixResolved`), that `held` and `claimed` are the sets
  which `PortAllocation` defines from the rows and from the ports so far
  (`HeldIsHeldAt`, `ClaimedIsAssigned`), and what the two memories hold:
  `array` the old rows, all of them written (`ArrayHoldsOldRows`), `slice` what
  was written before the declaration at which the array moved and the rows
  appended since (`SliceHoldsRows`). At the end that is the `Outcome`. Both
  memories are needed: the slice is what is published, and the array what the
  addresses of the checkout's rows lead to.
- `CandidatesAreTriedInOrder`: `LoopSpec => []FirstFit`, since every candidate
  before the one chosen was refused, held or claimed when it was tried, and what
  is held or claimed at a declaration does not depend on those after it.
- `ManifestsKeepPortsApart`: `LoopSpec => []ManifestPortsDiffer`, from the
  resolution, if the catalogs it starts from have no port twice; otherwise it is
  false. `AliasedRowsKeepPortsApart`: `LoopSpec => []UniqueWhileAliased`.
- `LoopTypeCorrect`.

and on the lock, for any number of processes and pids of any lengths:
`FlockImplementsLock`, `HolderRecorded`, `ProcessesNamed`, `LockTypeCorrect`.
`LockInv` says who has the flock at which step, that the file is empty between
the truncation and the write, and that it otherwise holds one whole pid.

`LocalOutputsProofs` proves all properties of the run, for every plan, set of
versions and set of processes. `AllOutputsWritten` (`PreparedTogether`): whoever
is at work has the lock, and while it promotes at index i every output before i
is its own or has been edited since. `RollbackRestoresAll`
(`FailureLeavesNoTrace`) is the mirror image: what the rollback has come past is
as in the snapshot (`SuffixInv`). `NoTempsLeft` (`TempsRemoved`): past the
renames no temporary is left, between them only those of files to come.
`UpIsNotFooled` (`UpSawPreparedOutputs`) takes most: while nobody edits under a
prepare, the outputs are the new version up to one index and the old one from
there (`OrderInv`), so an `up` that has not seen them all prepared always has an
output ahead of it that is not as it expects, and one that no rollback will put
right (`UpInv`). `SidecarsAgree` (`HashesAgree`): generated files and sidecars
agree on disk or, while a prepare is at work, in what it can put back. Its
assumption is that a sidecar is not a file that users edit.

`LaneProofs`, on `LaneReassign`: `CheckoutsKeepApart` (no port in rows of two
checkouts, whatever `append` moves and whosever adapter a reassign goes by),
`UniqueAcrossLanes` (`PortsAreUnique`, under `NoLostPortMove`: `append` moves
nothing or every adapter has fewer than three services), `LanesFitModes`,
`ReassignIsScoped`, `TypeCorrect`. The invariant `LaneInv` adds that a process
that waits carries a well-formed command whose lane and mode were derived
together in the checkout it will write, which is its own or the only one that
had the lane (`Prepared`), and that only a row has a lane. That is what survives
between the read without the lock and the write under it; the row whose write is
lost keeps a lane and a mode that were derived together before.

On `LaneUp`: `UpImplementsLaneReassign`, `LaneSpec => Spec`, so that the
properties above also hold while stacks run: a step of `LaneUp` changes the
catalog, the lanes and the processes as one of `LaneReassign` or not at all.
`RunningPortsAreKept` (`RunningKeepsPorts`) and `QuietUpsStartAssigned`
(`QuietUpIsAssigned`), with `UpTypeCorrect`. `UpInv` adds to `LaneInv` that only
one prepare is between its outputs and its rows, and that what it has written is
in no row of another checkout (`WriterInv`); that what runs is in no such row,
and no such prepare has written it (`RunningInv`), which is what keeps a port
apart between the two moments; and that an `up` nobody raced has printed and
verified what the catalog and the outputs still are (`QuietInv`).

`OperatorProofs`, on `CollisionRecovery`: `CauseKnown`, `RemedyWorks` and
`RecoveryTypeCorrect`. The invariant is that the catalog is one, that a recipe
names a key and, under `HomeLosesNoPort`, that ports are unique; the work is in
two lemmas about `ReportOf`: the cases of `classifyStableCollision` cover every
way in which `resolve` refuses, and, which needs the unique ports and so that
assumption, the row a recipe names is the only one on the fixture.

On `InitScaffold`, for any tree, depth, options and number of edits:
`EveryCandidateFound` (`ScanFindsAll`), `RefusedLeavesAll`
(`RefusalWritesNothing`), `SuccessIsWhole` (`SuccessWritesAll`),
`ExistingAdaptersStay` (`ExistingStay`), `CopiesAreValid` (`CopiesFit`) and
`ScaffoldTypeCorrect`. `ScaffoldInv` has three parts:

- `ScanInv`: the directories on the stack are in the order of the walk and none
  is below another, what has been found lies before all of them, and while no
  directory goes away every candidate in scope is found or below one of them
  (`Covered`). When the stack is empty that is `ScanFindsAll`. Its step is the
  one where a directory gives way to its children: what was below it and not
  itself is below exactly one child, or in a tree that is out of scope. The order
  also bounds the number of candidates by the number of directories.
- `WriteInv`: plans follow the candidates one to one, `wrote` is the targets up to
  the write in hand, those behind it are whole (`WrittenSoFar`) and those ahead of
  it as they were planned (`StillPlannable`), each unless somebody changed it.
  That no earlier write of the same run is in the way of a later one rests on
  `ScanInv`: the targets differ because the candidates are in strict order.
- `CopyInv`: while the source stays, what was validated, what was read and what is
  there now are one (`ReadsAgree`); every plan is for that copy and fits its target
  (`PlansFit`); and an adapter on disk that init wrote and nobody else changed is
  one it had planned (`WritesPlanned`), which is what lasts when the run ends in
  the middle of the writes.

`HostGcProofs`: `ConfirmedOnlyRemoved`, `UncertaintyKept`, `TypeCorrect`, for
any number of processes, checkouts, directories and changes. `LockInv` says who
has the lock, that the rows in memory are the published ones, and that what is
about to go was confirmed; `GcInv` adds, for the walk, that whatever it has
already passed and nobody has touched is as the scan recorded it (`ScanTrue`),
by induction along the directories.

`WorktreeLifecycleProofs` proves all properties of the run for any number of
lanes, paths, apps, births and edits: `RetiredRowsGo`, `LiveRowsSafe`,
`SuccessIsRegistered`, `NewLanesAreDev`, `TypeCorrect`. None of them is
inductive, because a birth is named in three places that go out of date one by
one: on disk, in the catalog and in the memory of processes. `PlaceInv` says that
they agree on where it was, the main checkout included, and that what is at a
place is what is left of a birth; `GoneInv`, that a checkout whose removal waits
for the lock is gone and only a later birth can be at its path; `PreparerInv`,
`RowInv` and `NotedInv`, that until the history blurs, whoever prepares a
checkout, its rows and the remove that has noted it go by one app; `RetiredInv`,
that a retired birth does not come back as a checkout, and its rows only if it
is blurred; `LaneInv` and `PublishedInv`, what a create and a publication may
rely on. Reading an adapter from a directory that git does not know blurs the
birth it is left of, so that what is said of the others stays.

Every invariant and action property that a passing run checks is proved, and so
are the refinements (`Serializable`, `ImplementsLock`, `LoopComputesOutcome`, and
`UpImplementsLaneReassign`, which no run checks). Model-checked only: liveness
(`EveryCommandEnds`, `WaitersAreAnswered`, `RecipesSuffice`), which is outside
what the prover does.

## What is left

The parts named below that have state but no module of their own: symlinks and
the containment of write targets, the legacy rows of the catalog.

## Not modelled

- Formatting and wording, YAML and JSON decoding, compose and git command
  lines, `status`, `inspect`, `host status` and `doctor` reports, template
  substitution and the text of scaffolded adapters: they keep no state, and no
  property depends on them.
- Defaults for legacy rows of `catalog.json`: applied when it is read, they
  give rows like any other.
- Symlinked outputs and the containment checks of `write.go` and
  `manifest.go`: paths are taken to be distinct and inside the checkout.
- Which warnings about modified generated files are printed
  (`write.go:717`): the files are, the messages are not.
- The temporary file of the catalog's rename: the rename is one step, and what
  a failed save leaves behind is not read by anything.
- The stub lock of unsupported platforms returns an error and nothing else.
