------------------------------- MODULE HostGc -------------------------------
(***************************************************************************)
(* Drift detection and its removal: `host doctor` and `host gc`, beside    *)
(* `prepare` and beside users who edit adapters and delete, move, unmount  *)
(* or restore checkouts while a scan runs.                                 *)
(*                                                                         *)
(* A scan stats the root of every checkout the catalog names and walks its *)
(* directories one by one, with no protection against changes.  `host gc`  *)
(* scans once without the lock, shows what it would remove, asks, takes    *)
(* the catalog lock, scans again, and drops the rows that are removable    *)
(* now and were confirmed, compared by their whole value.                  *)
(*                                                                         *)
(* A checkout is a sequence of directories, each with at most one adapter. *)
(* Hidden directories hold adapters the walk does not find: those in trees *)
(* it skips, and those in files not called devlane.yaml; `prepare` is told *)
(* where its adapter is and uses them all the same.                        *)
(***************************************************************************)
EXTENDS Naturals, Sequences

CONSTANTS
    Procs,          \* devlane processes
    NoProc,         \* the lock is free
    Repos,          \* checkouts, by repoPath
    NoRepo,         \* no checkout is being walked
    Tree,           \* the directories of a checkout in the order of the walk
    Hidden,         \* those whose adapter the walk does not see
    Apps,
    Services,
    Ports,
    Commands,       \* the invocations an operator may type
    NoCommand,      \* an idle process
    AnyApp,         \* gc without --app
    InitialRows,    \* catalogs a run may start from
    InitialFiles,   \* adapters a run may start from
    Broken,         \* a devlane.yaml that cannot be read, parsed or validated
    NoFile,         \* no devlane.yaml
    MaxTime,        \* bound: seconds that pass
    MaxChanges      \* bound: changes made to the checkouts

Dirs == {Tree[i] : i \in DOMAIN Tree}

Adapters == [app : Apps, services : SUBSET Services]

Files == Adapters \cup {Broken, NoFile}

Rows == [repo : Repos, app : Apps, service : Services, port : Ports,
         lastPrepared : 0 .. MaxTime]

GcCommands == [op : {"doctor", "gc"}, app : Apps \cup {AnyApp},
               consent : {"dry-run", "yes", "ask"}]

PrepareCommands == [op : {"prepare"}, repo : Repos, dir : Dirs]

ASSUME ProcsAssumption == NoProc \notin Procs
ASSUME ReposAssumption == NoRepo \notin Repos
ASSUME TreeAssumption ==
    Tree \in Seq(Dirs) /\ Len(Tree) > 0 /\ Hidden \subseteq Dirs
ASSUME FilesAssumption ==
    Broken # NoFile /\ Broken \notin Adapters /\ NoFile \notin Adapters
ASSUME CommandsAssumption ==
    /\ Commands \subseteq GcCommands \cup PrepareCommands
    /\ NoCommand \notin Commands
ASSUME InitialAssumption ==
    /\ \A rows \in InitialRows : rows \subseteq Rows
    /\ InitialFiles \subseteq [Repos -> [Dirs -> Files]]
ASSUME BoundsAssumption == MaxTime \in Nat /\ MaxChanges \in Nat

VARIABLES
    catalog,    \* the rows of catalog.json
    lock,       \* the holder of the catalog lock
    clock,      \* the time, in the seconds lastPrepared is recorded in
    root,       \* per checkout: what stat of its root and its parent says
    file,       \* per checkout and directory: the adapter on disk
    changes,    \* how many changes the users have made
    pc,         \* per process: the step it is at
    cmd,        \* per process: the command it runs
    rows,       \* per process: the rows it read
    verdict,    \* per process and checkout: what the scan says of the root
    found,      \* per process and checkout: the adapters the scan loaded
    cur,        \* per process: the checkout being walked
    next,       \* per process: the index of the directory to visit next
    shown,      \* gc: the rows shown as removable; prepare: nothing
    adapter,    \* prepare: the adapter it read; gc: NoFile
    touched     \* history: what changed since the process loaded under the lock

scan == <<verdict, found, cur, next>>
tree == <<root, file, changes>>
store == <<catalog, lock, clock, tree>>
task == <<cmd, shown, adapter, touched>>
vars == <<store, pc, rows, scan, task>>

Roots == {"present", "gone", "offline", "unreadable"}

Verdicts == {"unseen", "scanned", "uncertain", "absent", "unreachable"}

Steps == {"idle", "scan", "asked", "wait", "locked", "rescan", "loaded",
          "written", "closing"}

Visible == Dirs \ Hidden

TypeOK ==
    /\ catalog \in SUBSET Rows
    /\ lock    \in Procs \cup {NoProc}
    /\ clock   \in 0 .. MaxTime
    /\ root    \in [Repos -> Roots]
    /\ file    \in [Repos -> [Dirs -> Files]]
    /\ changes \in 0 .. MaxChanges
    /\ pc      \in [Procs -> Steps]
    /\ cmd     \in [Procs -> Commands \cup {NoCommand}]
    /\ rows    \in [Procs -> SUBSET Rows]
    /\ verdict \in [Procs -> [Repos -> Verdicts]]
    /\ found   \in [Procs -> [Repos -> SUBSET Adapters]]
    /\ cur     \in [Procs -> Repos \cup {NoRepo}]
    /\ next    \in [Procs -> DOMAIN Tree]
    /\ shown   \in [Procs -> SUBSET Rows]
    /\ adapter \in [Procs -> Adapters \cup {NoFile}]
    /\ touched \in [Procs -> SUBSET (Repos \X Dirs)]

Unseen == [r \in Repos |-> "unseen"]

NothingFound == [r \in Repos |-> {}]

Init ==
    /\ catalog \in InitialRows
    /\ lock = NoProc
    /\ clock = 0
    /\ root = [r \in Repos |-> "present"]
    /\ file \in InitialFiles
    /\ changes = 0
    /\ pc      = [p \in Procs |-> "idle"]
    /\ cmd     = [p \in Procs |-> NoCommand]
    /\ rows    = [p \in Procs |-> {}]
    /\ verdict = [p \in Procs |-> Unseen]
    /\ found   = [p \in Procs |-> NothingFound]
    /\ cur     = [p \in Procs |-> NoRepo]
    /\ next    = [p \in Procs |-> 1]
    /\ shown   = [p \in Procs |-> {}]
    /\ adapter = [p \in Procs |-> NoFile]
    /\ touched = [p \in Procs |-> {}]

-----------------------------------------------------------------------------
(* Classification *)

Declaring(a, row) == a.app = row.app /\ row.service \in a.services

DeclaresApp(adapters, row) == \E a \in adapters : a.app = row.app

\* Two or more rows claim the port.
Duplicate(all, row) == \E other \in all : other # row /\ other.port = row.port

\* classifyGroup: the category of a row, given the verdict on its checkout and
\* the adapters found there.  What may live in an adapter that failed to load
\* is never missing.
classify(v, adapters, row) ==
    IF v = "absent" THEN "missing-repoPath"
    ELSE IF v = "unreachable" THEN "bad-adapter"
    ELSE IF \E a \in adapters : Declaring(a, row) THEN "healthy"
    ELSE IF v = "uncertain" THEN "bad-adapter"
    ELSE IF DeclaresApp(adapters, row) THEN "missing-service"
    ELSE "app-mismatch"

Category(p, row) == classify(verdict[p][row.repo], found[p][row.repo], row)

isRemovableCategory(c) ==
    c \in {"missing-repoPath", "missing-service", "app-mismatch"}

\* The removable half of partitionFindings: a duplicate claim neither drives
\* the removal of a row nor protects it.
Removable(p) == {row \in rows[p] : isRemovableCategory(Category(p, row))}

Filtered(set, app) == {row \in set : app = AnyApp \/ row.app = app}

\* The findings of Detect, over the rows the process has read.
HasFindings(p) ==
    \E row \in rows[p] : Category(p, row) # "healthy" \/ Duplicate(rows[p], row)

-----------------------------------------------------------------------------
(* Steps of every process *)

Goto(p, step) == pc' = [pc EXCEPT ![p] = step]

Exit(p) ==
    /\ pc'      = [pc EXCEPT ![p] = "idle"]
    /\ lock'    = IF lock = p THEN NoProc ELSE lock
    /\ cmd'     = [cmd EXCEPT ![p] = NoCommand]
    /\ rows'    = [rows EXCEPT ![p] = {}]
    /\ verdict' = [verdict EXCEPT ![p] = Unseen]
    /\ found'   = [found EXCEPT ![p] = NothingFound]
    /\ cur'     = [cur EXCEPT ![p] = NoRepo]
    /\ next'    = [next EXCEPT ![p] = 1]
    /\ shown'   = [shown EXCEPT ![p] = {}]
    /\ adapter' = [adapter EXCEPT ![p] = NoFile]
    /\ touched' = [touched EXCEPT ![p] = {}]
    /\ UNCHANGED <<catalog, clock, tree>>

\* List: gc and doctor read the catalog without the lock.
StartScan(p) ==
    /\ pc[p] = "idle"
    /\ \E c \in Commands :
        /\ c.op \in {"doctor", "gc"}
        /\ cmd' = [cmd EXCEPT ![p] = c]
    /\ rows' = [rows EXCEPT ![p] = catalog]
    /\ Goto(p, "scan")
    /\ UNCHANGED <<store, scan, shown, adapter, touched>>

\* prepare reads its adapter, wherever it is.
StartPrepare(p) ==
    /\ pc[p] = "idle"
    /\ \E c \in Commands :
        /\ c.op = "prepare"
        /\ root[c.repo] = "present"
        /\ file[c.repo][c.dir] \in Adapters
        /\ cmd' = [cmd EXCEPT ![p] = c]
        /\ adapter' = [adapter EXCEPT ![p] = file[c.repo][c.dir]]
    /\ Goto(p, "wait")
    /\ UNCHANGED <<store, rows, scan, shown, touched>>

-----------------------------------------------------------------------------
(* The scan, with or without the lock *)

Scanning(p) == pc[p] \in {"scan", "rescan"}

Pending(p) == {r \in Repos : /\ verdict[p][r] = "unseen"
                             /\ \E row \in rows[p] : row.repo = r}

ScanComplete(p) == Scanning(p) /\ cur[p] = NoRepo /\ Pending(p) = {}

\* loadRepoAdapters up to the walk; classifyAbsentRepoPath trusts an absence
\* only if the parent is there.
StatVerdict(r) ==
    CASE root[r] = "present" -> "scanned"
      [] root[r] = "gone"    -> "absent"
      [] OTHER               -> "unreachable"

Stat(p) ==
    /\ Scanning(p)
    /\ cur[p] = NoRepo
    /\ \E r \in Pending(p) :
        /\ verdict' = [verdict EXCEPT ![p][r] = StatVerdict(r)]
        /\ cur' = [cur EXCEPT ![p] = IF root[r] = "present" THEN r ELSE NoRepo]
    /\ next' = [next EXCEPT ![p] = 1]
    /\ UNCHANGED <<store, pc, rows, found, task>>

\* walkRepoAdapters at one directory: loadAdapterAt, then ReadDir, which fails
\* if the checkout has gone since the walk began.
Uncertain(r, d) ==
    \/ root[r] # "present"
    \/ d \in Visible /\ file[r][d] = Broken

Loaded(r, d) ==
    {file[r][e] : e \in {x \in {d} : /\ root[r] = "present"
                                     /\ x \in Visible
                                     /\ file[r][x] \in Adapters}}

Visit(p) ==
    /\ Scanning(p)
    /\ cur[p] # NoRepo
    /\ LET r == cur[p]
           d == Tree[next[p]]
       IN /\ verdict' = IF Uncertain(r, d)
                        THEN [verdict EXCEPT ![p][r] = "uncertain"]
                        ELSE verdict
          /\ found' = [found EXCEPT ![p][r] = @ \cup Loaded(r, d)]
    /\ IF next[p] < Len(Tree)
       THEN next' = [next EXCEPT ![p] = @ + 1] /\ cur' = cur
       ELSE next' = next /\ cur' = [cur EXCEPT ![p] = NoRepo]
    /\ UNCHANGED <<store, pc, rows, task>>

-----------------------------------------------------------------------------
(* gc and doctor *)

\* doctor prints the findings and exits.
DoctorReports(p) ==
    /\ pc[p] = "scan" /\ ScanComplete(p)
    /\ cmd[p].op = "doctor"
    /\ Exit(p)

\* gc shows what is removable within --app ...
Preview(p) ==
    /\ pc[p] = "scan" /\ ScanComplete(p)
    /\ cmd[p].op = "gc" /\ cmd[p].consent # "dry-run"
    /\ Filtered(Removable(p), cmd[p].app) # {}
    /\ shown' = [shown EXCEPT ![p] = Filtered(Removable(p), cmd[p].app)]
    /\ Goto(p, IF cmd[p].consent = "ask" THEN "asked" ELSE "wait")
    /\ UNCHANGED <<store, rows, scan, cmd, adapter, touched>>

\* ... or ends: nothing is, or it was only to look.
NothingToRemove(p) ==
    /\ pc[p] = "scan" /\ ScanComplete(p)
    /\ cmd[p].op = "gc"
    /\ \/ cmd[p].consent = "dry-run"
       \/ Filtered(Removable(p), cmd[p].app) = {}
    /\ Exit(p)

Confirm(p) ==
    /\ pc[p] = "asked"
    /\ Goto(p, "wait")
    /\ UNCHANGED <<store, rows, scan, task>>

\* Anything but yes, and a standard input nobody answers from.
Decline(p) ==
    /\ pc[p] = "asked"
    /\ Exit(p)

Acquire(p) ==
    /\ pc[p] = "wait"
    /\ lock = NoProc
    /\ lock' = p
    /\ Goto(p, "locked")
    /\ UNCHANGED <<catalog, clock, tree, rows, scan, task>>

AcquireTimesOut(p) ==
    /\ pc[p] = "wait"
    /\ lock # NoProc
    /\ Exit(p)

\* Seeded fault: the scan made before the question is not repeated.
LoadKeepingScan(p) ==
    /\ pc[p] = "locked"
    /\ rows' = [rows EXCEPT ![p] = catalog]
    /\ touched' = [touched EXCEPT ![p] = {}]
    /\ Goto(p, IF cmd[p].op = "gc" THEN "rescan" ELSE "loaded")
    /\ UNCHANGED <<store, scan, cmd, shown, adapter>>

\* The lock is held and the catalog loaded: gc detects again from nothing.
Load(p) ==
    /\ pc[p] = "locked"
    /\ rows' = [rows EXCEPT ![p] = catalog]
    /\ verdict' = [verdict EXCEPT ![p] = Unseen]
    /\ found' = [found EXCEPT ![p] = NothingFound]
    /\ touched' = [touched EXCEPT ![p] = {}]
    /\ Goto(p, IF cmd[p].op = "gc" THEN "rescan" ELSE "loaded")
    /\ UNCHANGED <<store, cur, next, cmd, shown, adapter>>

\* Seeded fault: a row is compared with the confirmed ones by its key alone.
SameKey(a, b) == a.repo = b.repo /\ a.app = b.app /\ a.service = b.service

DropSetByKey(p) ==
    {row \in Removable(p) : \E s \in shown[p] : SameKey(row, s)}

\* Removable now, and confirmed with this very value.
DropSet(p) == Removable(p) \cap shown[p]

DropRows(p) ==
    /\ pc[p] = "rescan" /\ ScanComplete(p)
    /\ rows' = [rows EXCEPT ![p] = @ \ DropSet(p)]
    /\ Goto(p, "written")
    /\ UNCHANGED <<store, scan, task>>

-----------------------------------------------------------------------------
(* prepare, as far as it concerns the rows *)

OwnRows(p) ==
    {row \in rows[p] : row.repo = cmd[p].repo /\ row.app = adapter[p].app}

\* Ports stay where they are; a new service gets one that nobody has.
Assignments(p) ==
    {asg \in [adapter[p].services -> Ports] :
        \A s \in adapter[p].services :
            LET own == {row \in OwnRows(p) : row.service = s}
            IN IF own # {}
               THEN \E row \in own : asg[s] = row.port
               ELSE /\ \A row \in rows[p] : row.port # asg[s]
                    /\ \A t \in adapter[p].services \ {s} : asg[t] # asg[s]}

PreparedRows(p, asg) ==
    (rows[p] \ OwnRows(p)) \cup
    {[repo |-> cmd[p].repo, app |-> adapter[p].app, service |-> s,
      port |-> asg[s], lastPrepared |-> clock] : s \in adapter[p].services}

Resolve(p) ==
    /\ pc[p] = "loaded"
    /\ \E asg \in Assignments(p) :
        rows' = [rows EXCEPT ![p] = PreparedRows(p, asg)]
    /\ Goto(p, "written")
    /\ UNCHANGED <<store, scan, task>>

\* No port is left, the outputs cannot be written, the catalog not loaded.
Fail(p) ==
    /\ pc[p] \in {"locked", "loaded", "written"}
    /\ Goto(p, "closing")
    /\ UNCHANGED <<store, rows, scan, task>>

Publish(p) ==
    /\ pc[p] = "written"
    /\ catalog' = rows[p]
    /\ Goto(p, "closing")
    /\ UNCHANGED <<lock, clock, tree, rows, scan, task>>

Close(p) ==
    /\ pc[p] = "closing"
    /\ Exit(p)

Crash(p) ==
    /\ pc[p] # "idle"
    /\ Exit(p)

-----------------------------------------------------------------------------
(* The users of the checkouts *)

InRescan(p) == pc[p] \in {"rescan", "written"}

\* Every change is remembered for the scans it may disturb.
Record(r, ds) ==
    /\ changes < MaxChanges
    /\ changes' = changes + 1
    /\ touched' = [p \in Procs |-> IF InRescan(p)
                                   THEN touched[p] \cup ({r} \X ds)
                                   ELSE touched[p]]
    /\ UNCHANGED <<catalog, lock, clock, pc, rows, scan, cmd, shown, adapter>>

\* An adapter is written, edited, broken, repaired or deleted.
EditAdapter(r, d) ==
    /\ root[r] = "present"
    /\ \E f \in Files \ {file[r][d]} : file' = [file EXCEPT ![r][d] = f]
    /\ root' = root
    /\ Record(r, {d})

\* An adapter is moved to another directory of its checkout.
MoveAdapter(r, d, e) ==
    /\ root[r] = "present"
    /\ file[r][d] # NoFile
    /\ d # e
    /\ file' = [file EXCEPT ![r][e] = file[r][d], ![r][d] = NoFile]
    /\ root' = root
    /\ Record(r, {d, e})

\* A checkout is deleted, unmounted with its parent, made unreadable, or is
\* there again with what it held.
ChangeRoot(r) ==
    /\ \E v \in Roots \ {root[r]} : root' = [root EXCEPT ![r] = v]
    /\ file' = file
    /\ Record(r, Dirs)

Tick ==
    /\ clock < MaxTime
    /\ clock' = clock + 1
    /\ UNCHANGED <<catalog, lock, tree, pc, rows, scan, task>>

-----------------------------------------------------------------------------

Gc(p) ==
    \/ StartScan(p) \/ Stat(p) \/ Visit(p)
    \/ DoctorReports(p) \/ Preview(p) \/ NothingToRemove(p)
    \/ Confirm(p) \/ Decline(p) \/ DropRows(p)

Prepare(p) == StartPrepare(p) \/ Resolve(p)

Locked(p) ==
    \/ Acquire(p) \/ AcquireTimesOut(p) \/ Load(p)
    \/ Fail(p) \/ Publish(p) \/ Close(p) \/ Crash(p)

Users ==
    \/ \E r \in Repos, d \in Dirs : EditAdapter(r, d)
    \/ \E r \in Repos, d, e \in Dirs : MoveAdapter(r, d, e)
    \/ \E r \in Repos : ChangeRoot(r)

Next == (\E p \in Procs : Gc(p) \/ Prepare(p) \/ Locked(p)) \/ Users \/ Tick

Spec == Init /\ [][Next]_vars

-----------------------------------------------------------------------------
(* Properties *)

\* p is the gc whose publish this step is, and what it takes away.
Removes(p) ==
    /\ pc[p] = "written" /\ pc'[p] = "closing" /\ catalog' # catalog
    /\ cmd[p].op = "gc"

Dropped == catalog \ catalog'

\* The catalog changes only by the publish of the lock holder.  gc takes away
\* what its operator saw and confirmed, with the very value that was shown, so
\* that a row prepared since the preview stays; it adds and changes nothing.
\* prepare changes the rows of its own app and checkout, so that a row removed
\* while it waited does not come back (removeAllocations, Mutate).
ConfirmedOnly ==
    [][catalog' # catalog =>
          \E p \in Procs :
              /\ lock = p /\ pc[p] = "written"
              /\ cmd[p].op = "gc" =>
                     catalog' \subseteq catalog /\ Dropped \subseteq shown[p]
              /\ cmd[p].op = "prepare" =>
                     \A row \in Dropped \cup (catalog' \ catalog) :
                         row.repo = cmd[p].repo /\ row.app = adapter[p].app]_vars

\* Uncertainty never looks safe to delete: a row goes only if, for everything
\* that stayed as it was since gc took the lock, its checkout is neither
\* unreachable nor holds an adapter that declares the row or cannot be loaded
\* (classifyGroup, loadRepoAdapters).
UncertaintyKeepsRows ==
    [][\A p \in Procs :
          Removes(p) =>
              \A row \in Dropped, d \in Visible :
                  <<row.repo, d>> \notin touched[p] =>
                      LET f == file[row.repo][d]
                      IN /\ root[row.repo] \notin {"offline", "unreadable"}
                         /\ root[row.repo] = "present" =>
                                /\ f # Broken
                                /\ f \in Adapters => ~Declaring(f, row)]_vars

\* The target of a row that goes is gone: no adapter of its checkout declares
\* it.  docs/65-host-catalog.md:265, "The first three are removable because
\* the row's target is provably gone."
TargetIsGone ==
    [][\A p \in Procs :
          Removes(p) =>
              \A row \in Dropped, d \in Dirs :
                  LET f == file[row.repo][d]
                  IN ~ /\ <<row.repo, d>> \notin touched[p]
                       /\ root[row.repo] = "present"
                       /\ f \in Adapters /\ Declaring(f, row)]_vars
=============================================================================
