---------------------------- MODULE HostGcProofs ----------------------------
(***************************************************************************)
(* Proofs about HostGc, for every set of processes, checkouts and rows,    *)
(* for every tree of directories, and for any number of changes.           *)
(***************************************************************************)
EXTENDS HostGc, TLAPS

-----------------------------------------------------------------------------
(* Types *)

\* The walk has a first directory, and the next one is in the tree.
LEMMA TreeBounds ==
    /\ DOMAIN Tree = 1 .. Len(Tree)
    /\ Len(Tree) \in Nat \ {0}
    /\ 1 \in DOMAIN Tree
    /\ \A i \in DOMAIN Tree : Tree[i] \in Dirs
BY TreeAssumption DEF Dirs

\* What a process is asked to do is what it says.
LEMMA CommandTypes ==
    \A c \in Commands :
        /\ c \in GcCommands \/ c \in PrepareCommands
        /\ c.op = "prepare" => c \in PrepareCommands
        /\ c.op \in {"doctor", "gc"} => c \in GcCommands
        /\ c.op \in {"doctor", "gc", "prepare"}
BY CommandsAssumption DEF GcCommands, PrepareCommands

\* A process that ends leaves only values of the initial state behind.
LEMMA ExitType ==
    ASSUME TypeOK, NEW p \in Procs, Exit(p)
    PROVE  TypeOK'
<1> USE DEF TypeOK
<1>1. /\ Unseen \in [Repos -> Verdicts]
      /\ NothingFound \in [Repos -> SUBSET Adapters]
  BY DEF Unseen, NothingFound, Verdicts
<1>2. /\ catalog' \in SUBSET Rows /\ clock' \in 0 .. MaxTime
      /\ root' \in [Repos -> Roots] /\ file' \in [Repos -> [Dirs -> Files]]
      /\ changes' \in 0 .. MaxChanges
  BY DEF Exit, tree
<1>3. /\ pc' \in [Procs -> Steps] /\ lock' \in Procs \cup {NoProc}
      /\ cmd' \in [Procs -> Commands \cup {NoCommand}]
      /\ rows' \in [Procs -> SUBSET Rows]
  BY DEF Exit, Steps
<1>4. /\ verdict' \in [Procs -> [Repos -> Verdicts]]
      /\ found' \in [Procs -> [Repos -> SUBSET Adapters]]
  BY <1>1 DEF Exit
<1>5. /\ cur' \in [Procs -> Repos \cup {NoRepo}]
      /\ next' \in [Procs -> DOMAIN Tree]
      /\ shown' \in [Procs -> SUBSET Rows]
      /\ adapter' \in [Procs -> Adapters \cup {NoFile}]
      /\ touched' \in [Procs -> SUBSET (Repos \X Dirs)]
  BY TreeBounds DEF Exit
<1>6. QED
  BY <1>2, <1>3, <1>4, <1>5

\* A step that only goes on keeps the types.
LEMMA GotoType ==
    ASSUME TypeOK, NEW p \in Procs, NEW step \in Steps, Goto(p, step)
    PROVE  pc' \in [Procs -> Steps]
BY DEF TypeOK, Goto

\* What the users change is still a checkout.
LEMMA UsersType ==
    ASSUME TypeOK, Users \/ Tick
    PROVE  TypeOK'
<1> USE DEF TypeOK, store, tree, scan, task
<1>1. CASE Tick
  BY <1>1, BoundsAssumption DEF Tick
<1>2. ASSUME NEW r \in Repos, NEW ds \in SUBSET Dirs, Record(r, ds),
             root' \in [Repos -> Roots], file' \in [Repos -> [Dirs -> Files]]
      PROVE  TypeOK'
  <2>1. changes' \in 0 .. MaxChanges
    BY <1>2, BoundsAssumption DEF Record
  <2>2. touched' \in [Procs -> SUBSET (Repos \X Dirs)]
    BY <1>2 DEF Record
  <2>3. QED
    BY <1>2, <2>1, <2>2 DEF Record
<1>3. ASSUME NEW r \in Repos, NEW d \in Dirs, EditAdapter(r, d) PROVE TypeOK'
  <2>1. file' \in [Repos -> [Dirs -> Files]] /\ root' \in [Repos -> Roots]
    BY <1>3 DEF EditAdapter
  <2>2. QED
    BY <1>2, <1>3, <2>1 DEF EditAdapter
<1>4. ASSUME NEW r \in Repos, NEW d \in Dirs, NEW e \in Dirs,
             MoveAdapter(r, d, e)
      PROVE  TypeOK'
  <2>1. NoFile \in Files
    BY DEF Files
  <2>2. file' \in [Repos -> [Dirs -> Files]] /\ root' \in [Repos -> Roots]
    BY <1>4, <2>1 DEF MoveAdapter
  <2>3. QED
    BY <1>2, <1>4, <2>2 DEF MoveAdapter
<1>5. ASSUME NEW r \in Repos, ChangeRoot(r) PROVE TypeOK'
  <2>1. file' \in [Repos -> [Dirs -> Files]] /\ root' \in [Repos -> Roots]
    BY <1>5 DEF ChangeRoot
  <2>2. QED
    BY <1>2, <1>5, <2>1 DEF ChangeRoot
<1>6. QED
  BY <1>1, <1>3, <1>4, <1>5 DEF Users

\* What prepare would publish are rows: its command names a checkout, its
\* adapter declares services.
LEMMA PreparedRowsType ==
    ASSUME TypeOK, NEW p \in Procs, cmd[p] \in PrepareCommands,
           adapter[p] \in Adapters, NEW asg \in Assignments(p)
    PROVE  PreparedRows(p, asg) \subseteq Rows
<1> USE DEF TypeOK
<1>1. cmd[p].repo \in Repos
  BY DEF PrepareCommands
<1>2. adapter[p].app \in Apps /\ adapter[p].services \subseteq Services
  BY DEF Adapters
<1>3. asg \in [adapter[p].services -> Ports]
  BY DEF Assignments
<1>4. ASSUME NEW s \in adapter[p].services
      PROVE  [repo |-> cmd[p].repo, app |-> adapter[p].app, service |-> s,
              port |-> asg[s], lastPrepared |-> clock] \in Rows
  BY <1>1, <1>2, <1>3 DEF Rows
<1>5. rows[p] \subseteq Rows
  OBVIOUS
<1>6. QED
  BY <1>4, <1>5 DEF PreparedRows

\* Who runs a command knows which one, and prepare knows its adapter.
Informed ==
    \A p \in Procs :
        pc[p] # "idle" =>
            /\ cmd[p] \in Commands
            /\ cmd[p].op = "prepare" => adapter[p] \in Adapters
            /\ pc[p] = "loaded" => cmd[p].op = "prepare"
            /\ pc[p] \in {"asked", "rescan"} => cmd[p].op = "gc"
            /\ pc[p] = "scan" => cmd[p].op \in {"doctor", "gc"}
            /\ pc[p] \notin {"idle", "scan"} => cmd[p].op \in {"gc", "prepare"}

\* What gc shows are rows it read.
LEMMA ShownType ==
    ASSUME TypeOK, NEW p \in Procs, NEW app
    PROVE  Filtered(Removable(p), app) \subseteq Rows
BY DEF TypeOK, Filtered, Removable

LEMMA ScanStepType ==
    ASSUME TypeOK, NEW p \in Procs, Stat(p) \/ Visit(p)
    PROVE  TypeOK'
<1> USE DEF TypeOK, store, tree, task
<1>1. CASE Stat(p)
  <2>1. PICK r \in Pending(p) :
            /\ verdict' = [verdict EXCEPT ![p][r] = StatVerdict(r)]
            /\ cur' = [cur EXCEPT ![p] = IF root[r] = "present"
                                         THEN r ELSE NoRepo]
    BY <1>1 DEF Stat
  <2>2. r \in Repos /\ StatVerdict(r) \in Verdicts
    BY DEF Pending, StatVerdict, Verdicts
  <2>3. verdict' \in [Procs -> [Repos -> Verdicts]]
    BY <2>1, <2>2
  <2>4. cur' \in [Procs -> Repos \cup {NoRepo}]
    BY <2>1, <2>2
  <2>5. next' \in [Procs -> DOMAIN Tree]
    BY <1>1, TreeBounds DEF Stat
  <2>6. QED
    BY <1>1, <2>3, <2>4, <2>5 DEF Stat
<1>2. CASE Visit(p)
  <2> DEFINE r == cur[p]
             d == Tree[next[p]]
  <2>1. r \in Repos
    BY <1>2 DEF Visit
  <2>2. Loaded(r, d) \subseteq Adapters
    BY DEF Loaded
  <2>3. verdict' \in [Procs -> [Repos -> Verdicts]]
    <3>1. "uncertain" \in Verdicts
      BY DEF Verdicts
    <3>2. \/ verdict' = verdict
          \/ verdict' = [verdict EXCEPT ![p][r] = "uncertain"]
      BY <1>2 DEF Visit
    <3>3. CASE verdict' = [verdict EXCEPT ![p][r] = "uncertain"]
      <4>1. verdict[p] \in [Repos -> Verdicts]
        OBVIOUS
      <4>2. [verdict[p] EXCEPT ![r] = "uncertain"] \in [Repos -> Verdicts]
        BY <3>1, <4>1
      <4>3. QED
        BY <3>3, <4>2
    <3>4. QED
      BY <3>2, <3>3
  <2>4. found' \in [Procs -> [Repos -> SUBSET Adapters]]
    <3>1. found' = [found EXCEPT ![p][r] = found[p][r] \cup Loaded(r, d)]
      BY <1>2 DEF Visit
    <3>2. QED
      BY <2>1, <2>2, <3>1
  <2>5. next' \in [Procs -> DOMAIN Tree]
    <3>1. next[p] < Len(Tree) => next[p] + 1 \in DOMAIN Tree
      BY TreeBounds
    <3>2. \/ next[p] < Len(Tree) /\ next' = [next EXCEPT ![p] = next[p] + 1]
          \/ next' = next
      BY <1>2 DEF Visit
    <3>3. QED
      BY <3>1, <3>2
  <2>6. cur' \in [Procs -> Repos \cup {NoRepo}]
    BY <1>2 DEF Visit
  <2>7. QED
    BY <1>2, <2>3, <2>4, <2>5, <2>6 DEF Visit
<1>3. QED
  BY <1>1, <1>2

LEMMA StepType ==
    ASSUME TypeOK, Informed, NEW p \in Procs,
           Gc(p) \/ Prepare(p) \/ Locked(p)
    PROVE  TypeOK'
<1> USE DEF TypeOK, store, tree, scan, task
<1>1. CASE StartScan(p)
  <2>1. "scan" \in Steps
    BY DEF Steps
  <2>2. QED
    BY <1>1, <2>1, GotoType DEF StartScan
<1>2. CASE Stat(p) \/ Visit(p)
  BY <1>2, ScanStepType
<1>3. CASE DoctorReports(p) \/ NothingToRemove(p) \/ Decline(p)
               \/ AcquireTimesOut(p) \/ Close(p) \/ Crash(p)
  BY <1>3, ExitType
  DEF DoctorReports, NothingToRemove, Decline, AcquireTimesOut, Close, Crash
<1>4. CASE Preview(p)
  <2>1. pc' \in [Procs -> Steps]
    BY <1>4, GotoType DEF Preview, Steps
  <2>2. shown' \in [Procs -> SUBSET Rows]
    BY <1>4, ShownType DEF Preview
  <2>3. QED
    BY <1>4, <2>1, <2>2 DEF Preview
<1>5. CASE Confirm(p) \/ Fail(p)
  BY <1>5, GotoType DEF Confirm, Fail, Steps
<1>6. CASE Acquire(p)
  BY <1>6, GotoType DEF Acquire, Steps
<1>7. CASE Load(p)
  <2>1. pc' \in [Procs -> Steps]
    BY <1>7, GotoType DEF Load, Steps
  <2>2. Unseen \in [Repos -> Verdicts]
            /\ NothingFound \in [Repos -> SUBSET Adapters]
    BY DEF Unseen, NothingFound, Verdicts
  <2>3. verdict' \in [Procs -> [Repos -> Verdicts]]
    BY <1>7, <2>2 DEF Load
  <2>4. found' \in [Procs -> [Repos -> SUBSET Adapters]]
    BY <1>7, <2>2 DEF Load
  <2>5. rows' \in [Procs -> SUBSET Rows]
    BY <1>7 DEF Load
  <2>6. touched' \in [Procs -> SUBSET (Repos \X Dirs)]
    BY <1>7 DEF Load
  <2>7. QED
    BY <1>7, <2>1, <2>3, <2>4, <2>5, <2>6 DEF Load
<1>8. CASE DropRows(p)
  <2>1. pc' \in [Procs -> Steps]
    BY <1>8, GotoType DEF DropRows, Steps
  <2>2. rows' \in [Procs -> SUBSET Rows]
    BY <1>8 DEF DropRows
  <2>3. QED
    BY <1>8, <2>1, <2>2 DEF DropRows
<1>9. CASE StartPrepare(p)
  <2>1. pc' \in [Procs -> Steps]
    BY <1>9, GotoType DEF StartPrepare, Steps
  <2>2. cmd' \in [Procs -> Commands \cup {NoCommand}]
    BY <1>9 DEF StartPrepare
  <2>3. adapter' \in [Procs -> Adapters \cup {NoFile}]
    BY <1>9 DEF StartPrepare
  <2>4. QED
    BY <1>9, <2>1, <2>2, <2>3 DEF StartPrepare
<1>10. CASE Resolve(p)
  <2>1. pc' \in [Procs -> Steps]
    BY <1>10, GotoType DEF Resolve, Steps
  <2>2. cmd[p] \in PrepareCommands /\ adapter[p] \in Adapters
    BY <1>10, CommandTypes DEF Resolve, Informed
  <2>3. rows' \in [Procs -> SUBSET Rows]
    BY <1>10, <2>2, PreparedRowsType DEF Resolve
  <2>4. QED
    BY <1>10, <2>1, <2>3 DEF Resolve
<1>11. CASE Publish(p)
  BY <1>11, GotoType DEF Publish, Steps
<1>12. QED
  BY <1>1, <1>2, <1>3, <1>4, <1>5, <1>6, <1>7, <1>8, <1>9, <1>10, <1>11
  DEF Gc, Prepare, Locked

-----------------------------------------------------------------------------
(* Who does what *)

LEMMA InformedInductive ==
    TypeOK /\ Informed /\ [Next]_vars => Informed'
<1> SUFFICES ASSUME TypeOK, Informed, [Next]_vars PROVE Informed'
  OBVIOUS
<1> USE DEF TypeOK, Informed, Goto, store, tree, scan, task
<1>1. CASE UNCHANGED vars
  BY <1>1 DEF vars
<1>2. CASE Users \/ Tick
  BY <1>2 DEF Users, Tick, EditAdapter, MoveAdapter, ChangeRoot, Record
<1>3. ASSUME NEW p \in Procs, Gc(p) PROVE Informed'
  <2>1. CASE StartScan(p)
    BY <2>1 DEF StartScan
  <2>2. CASE Stat(p) \/ Visit(p)
    BY <2>2 DEF Stat, Visit
  <2>3. CASE DoctorReports(p) \/ NothingToRemove(p) \/ Decline(p)
    BY <2>3 DEF DoctorReports, NothingToRemove, Decline, Exit
  <2>4. CASE Preview(p) \/ Confirm(p) \/ DropRows(p)
    BY <2>4 DEF Preview, Confirm, DropRows
  <2>5. QED
    BY <1>3, <2>1, <2>2, <2>3, <2>4 DEF Gc
<1>4. ASSUME NEW p \in Procs, Prepare(p) PROVE Informed'
  BY <1>4 DEF Prepare, StartPrepare, Resolve
<1>5. ASSUME NEW p \in Procs, Locked(p) PROVE Informed'
  <2>1. CASE Acquire(p) \/ Load(p) \/ Fail(p) \/ Publish(p)
    BY <2>1 DEF Acquire, Load, Fail, Publish
  <2>2. CASE AcquireTimesOut(p) \/ Close(p) \/ Crash(p)
    BY <2>2 DEF AcquireTimesOut, Close, Crash, Exit
  <2>3. QED
    BY <1>5, <2>1, <2>2 DEF Locked
<1>6. QED
  BY <1>1, <1>2, <1>3, <1>4, <1>5 DEF Next

LEMMA TypeInductive ==
    /\ Init => TypeOK /\ Informed
    /\ TypeOK /\ Informed /\ [Next]_vars => TypeOK' /\ Informed'
<1>1. ASSUME Init PROVE TypeOK /\ Informed
  <2>1. Unseen \in [Repos -> Verdicts]
            /\ NothingFound \in [Repos -> SUBSET Adapters]
    BY DEF Unseen, NothingFound, Verdicts
  <2>2. QED
    BY <1>1, <2>1, TreeBounds, InitialAssumption, BoundsAssumption
    DEF Init, TypeOK, Informed, Roots, Steps
<1>2. ASSUME TypeOK, Informed, [Next]_vars PROVE TypeOK' /\ Informed'
  <2>1. CASE UNCHANGED vars
    BY <1>2, <2>1, InformedInductive
    DEF vars, store, tree, scan, task, TypeOK
  <2>2. CASE Next
    BY <1>2, <2>2, InformedInductive, UsersType, StepType DEF Next
  <2>3. QED
    BY <1>2, <2>1, <2>2
<1>3. QED
  BY <1>1, <1>2

\* Every variable keeps its type, for any hosts and users.
THEOREM TypeCorrect == Spec => []TypeOK
<1>1. Init => TypeOK /\ Informed
  BY TypeInductive
<1>2. TypeOK /\ Informed /\ [Next]_vars => (TypeOK /\ Informed)'
  BY TypeInductive
<1>3. QED
  BY <1>1, <1>2, PTL DEF Spec

-----------------------------------------------------------------------------
(* What the lock protects *)

UnderLock == {"locked", "rescan", "loaded", "written", "closing"}

\* Who is at work under the lock has it.
Custody == \A p \in Procs : pc[p] \in UnderLock => lock = p

\* Between load and computation the rows read are those of the catalog.
Fresh == \A p \in Procs : pc[p] \in {"rescan", "loaded"} => rows[p] = catalog

\* What is about to be published differs from the catalog only by what the
\* operator confirmed, or by rows of the app and checkout being prepared.
WorkOf(p) ==
    /\ cmd[p].op = "gc" =>
           rows[p] \subseteq catalog /\ catalog \ rows[p] \subseteq shown[p]
    /\ cmd[p].op = "prepare" =>
           \A row \in (catalog \ rows[p]) \cup (rows[p] \ catalog) :
               row.repo = cmd[p].repo /\ row.app = adapter[p].app

Confirmed == \A p \in Procs : pc[p] = "written" => WorkOf(p)

LockInv == TypeOK /\ Informed /\ Custody /\ Fresh /\ Confirmed

\* What gc and prepare compute under the lock.
LEMMA WorkDone ==
    ASSUME LockInv, NEW p \in Procs, DropRows(p) \/ Resolve(p)
    PROVE  /\ cmd[p].op = "gc" =>
                  /\ rows'[p] \subseteq catalog
                  /\ catalog \ rows'[p] \subseteq shown[p]
           /\ cmd[p].op = "prepare" =>
                  \A row \in (catalog \ rows'[p]) \cup (rows'[p] \ catalog) :
                      row.repo = cmd[p].repo /\ row.app = adapter[p].app
<1> USE DEF LockInv
<1>1. rows[p] = catalog /\ p \in DOMAIN rows
  BY DEF DropRows, Resolve, Fresh, TypeOK
<1>2. CASE DropRows(p)
  <2>1. rows'[p] = catalog \ DropSet(p)
    BY <1>1, <1>2 DEF DropRows
  <2>2. DropSet(p) \subseteq shown[p]
    BY DEF DropSet
  <2>3. cmd[p].op = "gc"
    BY <1>2 DEF DropRows, Informed
  <2>4. QED
    BY <2>1, <2>2, <2>3
<1>3. CASE Resolve(p)
  <2>1. PICK asg \in Assignments(p) : rows'[p] = PreparedRows(p, asg)
    BY <1>1, <1>3 DEF Resolve
  <2>2. ASSUME NEW row \in catalog \ PreparedRows(p, asg)
        PROVE  row.repo = cmd[p].repo /\ row.app = adapter[p].app
    BY <1>1, <2>2 DEF PreparedRows, OwnRows
  <2>3. ASSUME NEW row \in PreparedRows(p, asg) \ catalog
        PROVE  row.repo = cmd[p].repo /\ row.app = adapter[p].app
    BY <1>1, <2>3 DEF PreparedRows
  <2>4. cmd[p].op = "prepare"
    BY <1>3 DEF Resolve, Informed
  <2>5. QED
    BY <2>1, <2>2, <2>3, <2>4
<1>4. QED
  BY <1>2, <1>3

\* Users do not touch what devlane works with.
LEMMA UsersFrame ==
    ASSUME Users \/ Tick
    PROVE  UNCHANGED <<catalog, lock, pc, rows, verdict, found, cur, next, cmd,
                       shown, adapter>>
BY DEF Users, Tick, EditAdapter, MoveAdapter, ChangeRoot, Record, scan, task

\* A process changes only its own memory.
LEMMA OthersFrame ==
    ASSUME TypeOK, NEW p \in Procs, Gc(p) \/ Prepare(p) \/ Locked(p),
           NEW q \in Procs, q # p
    PROVE  /\ pc'[q] = pc[q] /\ rows'[q] = rows[q] /\ cmd'[q] = cmd[q]
           /\ shown'[q] = shown[q] /\ adapter'[q] = adapter[q]
           /\ verdict'[q] = verdict[q] /\ found'[q] = found[q]
           /\ cur'[q] = cur[q] /\ next'[q] = next[q]
           /\ touched'[q] = touched[q]
           /\ UNCHANGED tree
<1> USE DEF TypeOK, Goto, store, scan, task
<1>1. CASE StartScan(p) \/ StartPrepare(p)
  BY <1>1 DEF StartScan, StartPrepare
<1>2. CASE Stat(p)
  BY <1>2 DEF Stat
<1>3. CASE Visit(p)
  <2>1. verdict'[q] = verdict[q]
    BY <1>3 DEF Visit
  <2>2. found'[q] = found[q]
    BY <1>3 DEF Visit
  <2>3. cur'[q] = cur[q] /\ next'[q] = next[q]
    BY <1>3 DEF Visit
  <2>4. QED
    BY <1>3, <2>1, <2>2, <2>3 DEF Visit
<1>4. CASE DoctorReports(p) \/ NothingToRemove(p) \/ Decline(p)
               \/ AcquireTimesOut(p) \/ Close(p) \/ Crash(p)
  BY <1>4
  DEF DoctorReports, NothingToRemove, Decline, AcquireTimesOut, Close, Crash,
      Exit
<1>5. CASE Preview(p) \/ Confirm(p) \/ DropRows(p) \/ Resolve(p)
  BY <1>5 DEF Preview, Confirm, DropRows, Resolve
<1>6. CASE Acquire(p) \/ Load(p) \/ Fail(p) \/ Publish(p)
  BY <1>6 DEF Acquire, Load, Fail, Publish
<1>7. QED
  BY <1>1, <1>2, <1>3, <1>4, <1>5, <1>6 DEF Gc, Prepare, Locked

\* Only the holder publishes.
LEMMA StoreFrame ==
    ASSUME LockInv, NEW p \in Procs, Gc(p) \/ Prepare(p) \/ Locked(p)
    PROVE  /\ catalog' # catalog => /\ Publish(p) /\ lock = p
                                    /\ catalog' = rows[p]
           /\ \A q \in Procs \ {p} : lock = q => lock' = q
<1> USE DEF LockInv, store, task
<1>1. CASE Gc(p)
  BY <1>1
  DEF Gc, StartScan, Stat, Visit, DoctorReports, Preview, NothingToRemove,
      Confirm, Decline, DropRows, Exit
<1>2. CASE Prepare(p)
  BY <1>2 DEF Prepare, StartPrepare, Resolve
<1>3. CASE Locked(p)
  <2>1. CASE Publish(p)
    BY <2>1 DEF Publish, Custody, UnderLock
  <2>2. CASE Acquire(p)
    BY <2>2, ProcsAssumption DEF Acquire
  <2>3. CASE AcquireTimesOut(p) \/ Load(p) \/ Fail(p) \/ Close(p) \/ Crash(p)
    BY <2>3 DEF AcquireTimesOut, Load, Fail, Close, Crash, Exit
  <2>4. QED
    BY <1>3, <2>1, <2>2, <2>3 DEF Locked
<1>4. QED
  BY <1>1, <1>2, <1>3

\* What a step of p leaves p with.
LEMMA OwnLock ==
    ASSUME LockInv, NEW p \in Procs, Gc(p) \/ Prepare(p) \/ Locked(p)
    PROVE  /\ pc'[p] \in UnderLock => lock' = p
           /\ pc'[p] \in {"rescan", "loaded"} => rows'[p] = catalog'
           /\ pc'[p] = "written" => WorkOf(p)'
<1> USE DEF LockInv, TypeOK, Goto, store, scan, task, Custody, Fresh, UnderLock
<1>1. CASE StartScan(p) \/ StartPrepare(p)
  BY <1>1 DEF StartScan, StartPrepare
<1>2. CASE Stat(p) \/ Visit(p)
  BY <1>2 DEF Stat, Visit, Scanning
<1>3. CASE DoctorReports(p) \/ NothingToRemove(p) \/ Decline(p)
               \/ AcquireTimesOut(p) \/ Close(p) \/ Crash(p)
  BY <1>3
  DEF DoctorReports, NothingToRemove, Decline, AcquireTimesOut, Close, Crash,
      Exit
<1>4. CASE Preview(p) \/ Confirm(p)
  BY <1>4 DEF Preview, Confirm
<1>5. CASE DropRows(p) \/ Resolve(p)
  <2>1. /\ pc'[p] = "written" /\ lock = p
        /\ UNCHANGED <<catalog, lock, cmd, shown, adapter>>
    BY <1>5 DEF DropRows, Resolve
  <2>2. QED
    BY <1>5, <2>1, WorkDone DEF WorkOf
<1>6. CASE Acquire(p) \/ Load(p) \/ Fail(p) \/ Publish(p)
  BY <1>6 DEF Acquire, Load, Fail, Publish
<1>7. QED
  BY <1>1, <1>2, <1>3, <1>4, <1>5, <1>6 DEF Gc, Prepare, Locked

LEMMA LockInductive == LockInv /\ [Next]_vars => LockInv'
<1> SUFFICES ASSUME LockInv, [Next]_vars PROVE LockInv'
  OBVIOUS
<1>1. TypeOK' /\ Informed'
  BY TypeInductive DEF LockInv
<1>2. CASE UNCHANGED vars
  BY <1>1, <1>2
  DEF vars, store, tree, scan, task, LockInv, Custody, Fresh, Confirmed, WorkOf
<1>3. CASE Users \/ Tick
  BY <1>1, <1>3, UsersFrame
  DEF LockInv, Custody, Fresh, Confirmed, WorkOf
<1>4. ASSUME NEW p \in Procs, Gc(p) \/ Prepare(p) \/ Locked(p)
      PROVE  LockInv'
  <2> SUFFICES ASSUME NEW q \in Procs
               PROVE  /\ pc'[q] \in UnderLock => lock' = q
                      /\ pc'[q] \in {"rescan", "loaded"} => rows'[q] = catalog'
                      /\ pc'[q] = "written" => WorkOf(q)'
    BY <1>1 DEF LockInv, Custody, Fresh, Confirmed
  <2>1. CASE q = p
    BY <1>4, <2>1, OwnLock
  <2>2. CASE q # p
    <3>1. /\ pc'[q] = pc[q] /\ rows'[q] = rows[q] /\ cmd'[q] = cmd[q]
          /\ shown'[q] = shown[q] /\ adapter'[q] = adapter[q]
      BY <1>4, <2>2, OthersFrame DEF LockInv
    <3>2. /\ pc[q] \in UnderLock => lock = q
          /\ pc[q] \in {"rescan", "loaded"} => rows[q] = catalog
          /\ pc[q] = "written" => WorkOf(q)
      BY DEF LockInv, Custody, Fresh, Confirmed
    <3>3. /\ lock = q => lock' = q
          /\ lock = q => catalog' = catalog
      BY <1>4, <2>2, StoreFrame
    <3>4. pc[q] \in {"rescan", "loaded", "written"} => pc[q] \in UnderLock
      BY DEF UnderLock
    <3>5. QED
      BY <3>1, <3>2, <3>3, <3>4 DEF WorkOf
  <2>3. QED
    BY <2>1, <2>2
<1>5. QED
  BY <1>2, <1>3, <1>4 DEF Next

LEMMA LockInvariant == Spec => []LockInv
<1>1. Init => LockInv
  <2>1. ASSUME Init PROVE \A p \in Procs : pc[p] = "idle"
    BY <2>1 DEF Init
  <2>2. QED
    BY <2>1, TypeInductive DEF LockInv, Custody, Fresh, Confirmed, UnderLock
<1>2. LockInv /\ [Next]_vars => LockInv'
  BY LockInductive
<1>3. QED
  BY <1>1, <1>2, PTL DEF Spec

\* The catalog changes only by the publish of the lock holder, in what its
\* operator confirmed or what its adapter declares (removeAllocations, Mutate).
THEOREM ConfirmedOnlyRemoved == Spec => ConfirmedOnly
<1>1. ASSUME LockInv, [Next]_vars, catalog' # catalog
      PROVE  \E p \in Procs :
                /\ lock = p /\ pc[p] = "written"
                /\ cmd[p].op = "gc" =>
                       catalog' \subseteq catalog /\ Dropped \subseteq shown[p]
                /\ cmd[p].op = "prepare" =>
                       \A row \in Dropped \cup (catalog' \ catalog) :
                           row.repo = cmd[p].repo /\ row.app = adapter[p].app
  <2>1. PICK p \in Procs : Gc(p) \/ Prepare(p) \/ Locked(p)
    BY <1>1, UsersFrame DEF Next, vars, store
  <2>2. Publish(p) /\ lock = p /\ catalog' = rows[p]
    BY <1>1, <2>1, StoreFrame
  <2>3. pc[p] = "written" /\ WorkOf(p)
    BY <1>1, <2>2 DEF Publish, LockInv, Confirmed
  <2>4. QED
    BY <2>2, <2>3 DEF WorkOf, Dropped
<1>2. LockInv /\ [Next]_vars =>
         [catalog' # catalog =>
             \E p \in Procs :
                /\ lock = p /\ pc[p] = "written"
                /\ cmd[p].op = "gc" =>
                       catalog' \subseteq catalog /\ Dropped \subseteq shown[p]
                /\ cmd[p].op = "prepare" =>
                       \A row \in Dropped \cup (catalog' \ catalog) :
                         row.repo = cmd[p].repo /\ row.app = adapter[p].app]_vars
  BY <1>1
<1>3. QED
  BY <1>2, LockInvariant, PTL DEF Spec, ConfirmedOnly

-----------------------------------------------------------------------------
(* What the scan of a gc knows *)

\* The adapter at d, and the root, do not say that the row is in use.
SafeToDrop(row, d) ==
    LET f == file[row.repo][d]
    IN /\ root[row.repo] \notin {"offline", "unreadable"}
       /\ root[row.repo] = "present" =>
              /\ f # Broken
              /\ f \in Adapters => ~Declaring(f, row)

\* The walk of r has been at d.
Visited(p, r, d) ==
    cur[p] = r => \E i \in DOMAIN Tree : Tree[i] = d /\ i < next[p]

\* What the scan says of r and d, unless they changed since, is so.
Truthful(p, r, d) ==
    <<r, d>> \notin touched[p] =>
        /\ verdict[p][r] = "absent" => root[r] = "gone"
        /\ verdict[p][r] = "scanned" =>
               /\ root[r] = "present"
               /\ Visited(p, r, d) =>
                      /\ file[r][d] # Broken
                      /\ file[r][d] \in Adapters => file[r][d] \in found[p][r]

\* No checkout is being walked outside of a scan.
Still == \A p \in Procs : pc[p] \notin {"scan", "rescan"} => cur[p] = NoRepo

ScanTrue ==
    \A p \in Procs : pc[p] = "rescan" =>
        \A r \in Repos, d \in Visible : Truthful(p, r, d)

DropsTrue ==
    \A p \in Procs : pc[p] = "written" /\ cmd[p].op = "gc" =>
        \A row \in catalog \ rows[p], d \in Visible :
            <<row.repo, d>> \notin touched[p] => SafeToDrop(row, d)

GcInv == LockInv /\ Still /\ ScanTrue /\ DropsTrue

\* Whatever users change is remembered for every scan under the lock.
LEMMA ChangesRecorded ==
    ASSUME GcInv, Users \/ Tick, NEW p \in Procs,
           pc[p] \in {"rescan", "written"}, NEW r \in Repos, NEW d \in Visible,
           <<r, d>> \notin touched'[p]
    PROVE  /\ <<r, d>> \notin touched[p]
           /\ root'[r] = root[r] /\ file'[r][d] = file[r][d]
<1> USE DEF GcInv, LockInv, TypeOK
<1>1. d \in Dirs
  BY DEF Visible
<1>2. CASE Tick
  BY <1>2 DEF Tick, tree, task
<1>3. ASSUME NEW s \in Repos, NEW ds \in SUBSET Dirs, Record(s, ds)
      PROVE  /\ touched'[p] = touched[p] \cup ({s} \X ds)
             /\ <<r, d>> \notin touched[p]
             /\ s = r => d \notin ds
  <2>1. touched'[p] = touched[p] \cup ({s} \X ds)
    BY <1>3 DEF Record, InRescan
  <2>2. s = r /\ d \in ds => <<r, d>> \in {s} \X ds
    OBVIOUS
  <2>3. QED
    BY <2>1, <2>2
<1>4. ASSUME NEW s \in Repos, NEW e \in Dirs, EditAdapter(s, e)
      PROVE  /\ <<r, d>> \notin touched[p]
             /\ root'[r] = root[r] /\ file'[r][d] = file[r][d]
  <2>1. /\ <<r, d>> \notin touched[p]
        /\ s = r => d # e
    <3>1. {e} \in SUBSET Dirs /\ Record(s, {e})
      BY <1>4 DEF EditAdapter
    <3>2. QED
      BY <1>3, <3>1
  <2>2. PICK f \in Files : file' = [file EXCEPT ![s][e] = f]
    BY <1>4 DEF EditAdapter
  <2>3. file'[r][d] = file[r][d]
    BY <1>1, <2>1, <2>2
  <2>4. QED
    BY <1>4, <2>1, <2>3 DEF EditAdapter
<1>5. ASSUME NEW s \in Repos, NEW e \in Dirs, NEW f \in Dirs,
             MoveAdapter(s, e, f)
      PROVE  /\ <<r, d>> \notin touched[p]
             /\ root'[r] = root[r] /\ file'[r][d] = file[r][d]
  <2>1. /\ <<r, d>> \notin touched[p]
        /\ s = r => d # e /\ d # f
    BY <1>3, <1>5 DEF MoveAdapter
  <2>2. QED
    BY <1>1, <1>5, <2>1 DEF MoveAdapter
<1>6. ASSUME NEW s \in Repos, ChangeRoot(s)
      PROVE  /\ <<r, d>> \notin touched[p]
             /\ root'[r] = root[r] /\ file'[r][d] = file[r][d]
  BY <1>1, <1>3, <1>6 DEF ChangeRoot
<1>7. QED
  BY <1>2, <1>4, <1>5, <1>6 DEF Users

\* A checkout that is looked at is as it looks.
LEMMA StatTruthful ==
    ASSUME GcInv, NEW p \in Procs, pc[p] = "rescan", Stat(p),
           NEW r \in Repos, NEW d \in Visible
    PROVE  Truthful(p, r, d)'
<1> USE DEF GcInv, LockInv, TypeOK
<1>1. PICK s \in Pending(p) :
          /\ verdict' = [verdict EXCEPT ![p][s] = StatVerdict(s)]
          /\ cur' = [cur EXCEPT ![p] = IF root[s] = "present"
                                       THEN s ELSE NoRepo]
  BY DEF Stat
<1>2. /\ s \in Repos /\ cur[p] = NoRepo /\ next' = [next EXCEPT ![p] = 1]
      /\ UNCHANGED <<root, file, found, touched>>
  BY DEF Stat, Pending, store, tree, task
<1>3. Truthful(p, r, d)
  BY DEF ScanTrue
<1>4. CASE r = s
  <2>1. verdict'[p][r] = StatVerdict(r) /\ next'[p] = 1
    BY <1>1, <1>2, <1>4
  <2>2. /\ StatVerdict(r) = "absent" => root[r] = "gone"
        /\ StatVerdict(r) = "scanned" => root[r] = "present"
    BY DEF StatVerdict, Roots
  <2>3. root[r] = "present" => cur'[p] = r
    BY <1>1, <1>4
  <2>4. \A i \in DOMAIN Tree : ~(i < 1)
    BY TreeBounds
  <2>5. QED
    BY <1>2, <2>1, <2>2, <2>3, <2>4 DEF Truthful, Visited
<1>5. CASE r # s
  <2>1. verdict'[p][r] = verdict[p][r]
    BY <1>1, <1>2, <1>5
  <2>2. cur[p] # r /\ cur'[p] # r
    BY <1>1, <1>2, <1>5, ReposAssumption
  <2>3. QED
    BY <1>2, <1>3, <2>1, <2>2 DEF Truthful, Visited
<1>6. QED
  BY <1>4, <1>5

\* A directory that is visited holds what was found, or leaves a doubt.
LEMMA VisitTruthful ==
    ASSUME GcInv, NEW p \in Procs, pc[p] = "rescan", Visit(p),
           NEW r \in Repos, NEW d \in Visible
    PROVE  Truthful(p, r, d)'
<1> USE DEF GcInv, LockInv, TypeOK
<1> DEFINE s == cur[p]
           e == Tree[next[p]]
<1>1. /\ s \in Repos /\ e \in Dirs
      /\ UNCHANGED <<root, file, touched>>
  BY TreeBounds DEF Visit, store, tree, task
<1>2. /\ verdict' = IF Uncertain(s, e)
                    THEN [verdict EXCEPT ![p][s] = "uncertain"] ELSE verdict
      /\ found' = [found EXCEPT ![p][s] = found[p][s] \cup Loaded(s, e)]
  BY DEF Visit
<1>3. Truthful(p, r, d)
  BY DEF ScanTrue
<1>4. CASE r # s
  <2>1. verdict'[p][r] = verdict[p][r] /\ found'[p][r] = found[p][r]
    BY <1>1, <1>2, <1>4
  <2>2. cur[p] # r /\ cur'[p] # r
    BY <1>4, ReposAssumption DEF Visit
  <2>3. QED
    BY <1>1, <1>3, <2>1, <2>2 DEF Truthful, Visited
<1>5. CASE r = s /\ Uncertain(s, e)
  <2>1. verdict'[p][r] = "uncertain"
    BY <1>1, <1>2, <1>5
  <2>2. QED
    BY <2>1 DEF Truthful
<1>6. CASE r = s /\ ~Uncertain(s, e)
  <2>1. verdict'[p][r] = verdict[p][r]
    BY <1>2, <1>6
  <2>2. found'[p][r] = found[p][r] \cup Loaded(r, e)
    BY <1>1, <1>2, <1>6
  <2>3. /\ root[r] = "present"
        /\ e \in Visible => file[r][e] # Broken
    BY <1>6 DEF Uncertain
  <2>4. e \in Visible /\ file[r][e] \in Adapters => file[r][e] \in Loaded(r, e)
    BY <2>3 DEF Loaded
  <2>5. ASSUME Visited(p, r, d)' PROVE Visited(p, r, d) \/ d = e
    <3>1. PICK i \in DOMAIN Tree :
              Tree[i] = d /\ (i < next[p] \/ i = next[p])
      <4>1. CASE next[p] < Len(Tree)
        <5>1. cur'[p] = r /\ next'[p] = next[p] + 1
          BY <1>6, <4>1 DEF Visit
        <5>2. PICK i \in DOMAIN Tree : Tree[i] = d /\ i < next[p] + 1
          BY <2>5, <5>1 DEF Visited
        <5>3. i < next[p] \/ i = next[p]
          BY <5>2, TreeBounds
        <5>4. QED
          BY <5>2, <5>3
      <4>2. CASE ~(next[p] < Len(Tree))
        <5>1. PICK i \in DOMAIN Tree : Tree[i] = d
          BY DEF Visible, Dirs
        <5>2. i < next[p] \/ i = next[p]
          BY <4>2, TreeBounds
        <5>3. QED
          BY <5>1, <5>2
      <4>3. QED
        BY <4>1, <4>2
    <3>2. QED
      BY <3>1 DEF Visited
  <2>6. QED
    BY <1>1, <1>3, <2>1, <2>2, <2>3, <2>4, <2>5 DEF Truthful
<1>7. QED
  BY <1>4, <1>5, <1>6

\* What gc decides to drop is safe to drop.
LEMMA DropsSafe ==
    ASSUME GcInv, NEW p \in Procs, DropRows(p),
           NEW row \in catalog \ rows'[p], NEW d \in Visible,
           <<row.repo, d>> \notin touched[p]
    PROVE  SafeToDrop(row, d)
<1> USE DEF GcInv, LockInv, TypeOK
<1>1. /\ pc[p] = "rescan" /\ rows[p] = catalog /\ row \in DropSet(p)
      /\ cur[p] = NoRepo /\ Pending(p) = {}
  BY DEF DropRows, ScanComplete, Fresh
<1> DEFINE r == row.repo
           v == verdict[p][r]
<1>2. r \in Repos
  BY DEF Rows
<1>3. v # "unseen" /\ v \in Verdicts
  BY <1>1, <1>2 DEF Pending
<1>4. isRemovableCategory(Category(p, row))
  BY <1>1 DEF DropSet, Removable
<1>5. \/ v = "absent"
      \/ v = "scanned" /\ ~ \E a \in found[p][r] : Declaring(a, row)
  <2>1. CASE v = "absent"
    BY <2>1
  <2>2. CASE v = "unreachable"
    BY <1>4, <2>2 DEF Category, classify, isRemovableCategory
  <2>3. CASE v \in {"scanned", "uncertain"}
    <3>1. ~ \E a \in found[p][r] : Declaring(a, row)
      BY <1>4, <2>3 DEF Category, classify, isRemovableCategory
    <3>2. v # "uncertain"
      BY <1>4, <3>1 DEF Category, classify, isRemovableCategory
    <3>3. QED
      BY <2>3, <3>1, <3>2
  <2>4. QED
    BY <1>3, <2>1, <2>2, <2>3 DEF Verdicts
<1>6. Truthful(p, r, d) /\ Visited(p, r, d)
  BY <1>1, <1>2, ReposAssumption DEF ScanTrue, Visited
<1>7. QED
  BY <1>5, <1>6 DEF Truthful, SafeToDrop

\* What a step of p leaves p with.
LEMMA OwnScan ==
    ASSUME GcInv, NEW p \in Procs, Gc(p) \/ Prepare(p) \/ Locked(p)
    PROVE  /\ pc'[p] \notin {"scan", "rescan"} => cur'[p] = NoRepo
           /\ pc'[p] = "rescan" =>
                  \A r \in Repos, d \in Visible : Truthful(p, r, d)'
           /\ pc'[p] = "written" /\ cmd'[p].op = "gc" =>
                  \A row \in catalog' \ rows'[p], d \in Visible :
                      <<row.repo, d>> \notin touched'[p] => SafeToDrop(row, d)'
<1> USE DEF GcInv, LockInv, TypeOK, Goto, store, tree, scan, task, Still
<1>1. CASE StartScan(p) \/ StartPrepare(p)
  BY <1>1 DEF StartScan, StartPrepare
<1>2. CASE Stat(p) \/ Visit(p)
  <2>1. pc' = pc /\ pc[p] \in {"scan", "rescan"}
    BY <1>2 DEF Stat, Visit, Scanning
  <2>2. QED
    BY <1>2, <2>1, StatTruthful, VisitTruthful
<1>3. CASE DoctorReports(p) \/ NothingToRemove(p) \/ Decline(p)
               \/ AcquireTimesOut(p) \/ Close(p) \/ Crash(p)
  BY <1>3
  DEF DoctorReports, NothingToRemove, Decline, AcquireTimesOut, Close, Crash,
      Exit
<1>4. CASE Preview(p) \/ Confirm(p)
  BY <1>4 DEF Preview, Confirm, ScanComplete
<1>5. CASE DropRows(p)
  <2>1. /\ pc'[p] = "written" /\ cur'[p] = NoRepo
        /\ UNCHANGED <<catalog, root, file, touched, cmd>>
    BY <1>5 DEF DropRows, ScanComplete
  <2>2. QED
    BY <1>5, <2>1, DropsSafe DEF SafeToDrop
<1>6. CASE Resolve(p)
  BY <1>6 DEF Resolve, Informed
<1>7. CASE Load(p)
  <2>1. pc'[p] \in {"rescan", "loaded"} /\ verdict'[p] = Unseen
        /\ cur'[p] = NoRepo
    BY <1>7 DEF Load
  <2>2. \A r \in Repos : verdict'[p][r] = "unseen"
    BY <2>1 DEF Unseen
  <2>3. QED
    BY <2>1, <2>2 DEF Truthful
<1>8. CASE Acquire(p) \/ Fail(p) \/ Publish(p)
  BY <1>8 DEF Acquire, Fail, Publish
<1>9. QED
  BY <1>1, <1>2, <1>3, <1>4, <1>5, <1>6, <1>7, <1>8 DEF Gc, Prepare, Locked

LEMMA GcInductive == GcInv /\ [Next]_vars => GcInv'
<1> SUFFICES ASSUME GcInv, [Next]_vars PROVE GcInv'
  OBVIOUS
<1>1. LockInv'
  BY LockInductive DEF GcInv
<1>2. CASE UNCHANGED vars
  BY <1>1, <1>2
  DEF vars, store, tree, scan, task, GcInv, Still, ScanTrue, DropsTrue,
      Truthful, Visited, SafeToDrop
<1>3. CASE Users \/ Tick
  <2>1. UNCHANGED <<catalog, lock, pc, rows, verdict, found, cur, next, cmd,
                    shown, adapter>>
    BY <1>3, UsersFrame
  <2>2. Still'
    BY <2>1 DEF GcInv, Still
  <2>3. ScanTrue'
    <3> SUFFICES ASSUME NEW p \in Procs, pc'[p] = "rescan",
                        NEW r \in Repos, NEW d \in Visible,
                        <<r, d>> \notin touched'[p]
                 PROVE  Truthful(p, r, d)'
      BY DEF ScanTrue, Truthful
    <3>1. /\ <<r, d>> \notin touched[p]
          /\ root'[r] = root[r] /\ file'[r][d] = file[r][d]
      BY <1>3, <2>1, ChangesRecorded
    <3>2. Truthful(p, r, d)
      BY <2>1 DEF GcInv, ScanTrue
    <3>3. QED
      BY <2>1, <3>1, <3>2 DEF Truthful, Visited
  <2>4. DropsTrue'
    <3> SUFFICES ASSUME NEW p \in Procs, pc'[p] = "written",
                        cmd'[p].op = "gc",
                        NEW row \in catalog' \ rows'[p], NEW d \in Visible,
                        <<row.repo, d>> \notin touched'[p]
                 PROVE  SafeToDrop(row, d)'
      BY DEF DropsTrue
    <3>1. row.repo \in Repos
      BY <2>1 DEF GcInv, LockInv, TypeOK, Rows
    <3>2. /\ <<row.repo, d>> \notin touched[p]
          /\ root'[row.repo] = root[row.repo]
          /\ file'[row.repo][d] = file[row.repo][d]
      BY <1>3, <2>1, <3>1, ChangesRecorded
    <3>3. SafeToDrop(row, d)
      BY <2>1, <3>2 DEF GcInv, DropsTrue
    <3>4. QED
      BY <3>2, <3>3 DEF SafeToDrop
  <2>5. QED
    BY <1>1, <2>2, <2>3, <2>4 DEF GcInv
<1>4. ASSUME NEW p \in Procs, Gc(p) \/ Prepare(p) \/ Locked(p)
      PROVE  GcInv'
  <2> SUFFICES
        ASSUME NEW q \in Procs
        PROVE  /\ pc'[q] \notin {"scan", "rescan"} => cur'[q] = NoRepo
               /\ pc'[q] = "rescan" =>
                      \A r \in Repos, d \in Visible : Truthful(q, r, d)'
               /\ pc'[q] = "written" /\ cmd'[q].op = "gc" =>
                      \A row \in catalog' \ rows'[q], d \in Visible :
                          <<row.repo, d>> \notin touched'[q]
                              => SafeToDrop(row, d)'
    BY <1>1 DEF GcInv, Still, ScanTrue, DropsTrue
  <2>1. CASE q = p
    BY <1>4, <2>1, OwnScan
  <2>2. CASE q # p
    <3>1. /\ pc'[q] = pc[q] /\ rows'[q] = rows[q] /\ cmd'[q] = cmd[q]
          /\ verdict'[q] = verdict[q] /\ found'[q] = found[q]
          /\ cur'[q] = cur[q] /\ next'[q] = next[q]
          /\ touched'[q] = touched[q]
          /\ root' = root /\ file' = file
      BY <1>4, <2>2, OthersFrame DEF GcInv, LockInv, tree
    <3>2. pc[q] = "written" => catalog' = catalog
      <4>1. pc[q] = "written" => lock = q
        BY DEF GcInv, LockInv, Custody, UnderLock
      <4>2. QED
        BY <1>4, <2>2, <4>1, StoreFrame DEF GcInv
    <3>3. pc[q] \notin {"scan", "rescan"} => cur'[q] = NoRepo
      BY <3>1 DEF GcInv, Still
    <3>4. ASSUME pc[q] = "rescan", NEW r \in Repos, NEW d \in Visible
          PROVE  Truthful(q, r, d)'
      BY <3>1, <3>4 DEF GcInv, ScanTrue, Truthful, Visited
    <3>5. ASSUME pc[q] = "written", cmd[q].op = "gc",
                 NEW row \in catalog \ rows[q], NEW d \in Visible,
                 <<row.repo, d>> \notin touched[q]
          PROVE  SafeToDrop(row, d)'
      BY <3>1, <3>5 DEF GcInv, DropsTrue, SafeToDrop
    <3>6. QED
      BY <3>1, <3>2, <3>3, <3>4, <3>5
  <2>3. QED
    BY <2>1, <2>2
<1>5. QED
  BY <1>2, <1>3, <1>4 DEF Next

LEMMA GcInvariant == Spec => []GcInv
<1>1. Init => GcInv
  <2>1. ASSUME Init PROVE LockInv /\ \A p \in Procs : pc[p] = "idle"
    BY <2>1, TypeInductive
    DEF Init, LockInv, Custody, Fresh, Confirmed, UnderLock
  <2>2. ASSUME Init PROVE Still
    BY <2>2 DEF Init, Still
  <2>3. QED
    BY <2>1, <2>2 DEF GcInv, ScanTrue, DropsTrue
<1>2. GcInv /\ [Next]_vars => GcInv'
  BY GcInductive
<1>3. QED
  BY <1>1, <1>2, PTL DEF Spec

\* gc drops no row whose checkout was unreachable, or holds, where the walk
\* sees it, an adapter that declares the row or cannot be loaded, unless that
\* changed after gc had the lock (classifyGroup, loadRepoAdapters).
THEOREM UncertaintyKept == Spec => UncertaintyKeepsRows
<1>1. ASSUME GcInv, [Next]_vars, NEW p \in Procs, Removes(p),
             NEW row \in Dropped, NEW d \in Visible,
             <<row.repo, d>> \notin touched[p]
      PROVE  SafeToDrop(row, d)
  <2>1. PICK q \in Procs : Gc(q) \/ Prepare(q) \/ Locked(q)
    BY <1>1, UsersFrame DEF Next, Removes, vars, store
  <2>2. q = p
    BY <1>1, <2>1, OthersFrame DEF Removes, GcInv, LockInv
  <2>3. catalog' = rows[p]
    BY <1>1, <2>1, <2>2, StoreFrame DEF Removes, GcInv
  <2>4. QED
    BY <1>1, <2>3 DEF GcInv, DropsTrue, Removes, Dropped
<1>2. GcInv /\ [Next]_vars =>
         [\A p \in Procs :
             Removes(p) =>
                 \A row \in Dropped, d \in Visible :
                     <<row.repo, d>> \notin touched[p] =>
                         LET f == file[row.repo][d]
                         IN /\ root[row.repo] \notin {"offline", "unreadable"}
                            /\ root[row.repo] = "present" =>
                                   /\ f # Broken
                                   /\ f \in Adapters => ~Declaring(f, row)]_vars
  BY <1>1 DEF SafeToDrop
<1>3. QED
  BY <1>2, GcInvariant, PTL DEF Spec, UncertaintyKeepsRows
=============================================================================
