----------------------------- MODULE HostCatalog -----------------------------
(***************************************************************************)
(* Devlane invocations that share one host catalog: `prepare`, `reassign`  *)
(* and the scoped cleanup of `worktree remove`, run by several processes,  *)
(* each against its own checkout or against the same one.                  *)
(*                                                                         *)
(* A command reads its adapter and inspects the catalog without the lock,  *)
(* then takes the lock, loads the catalog, computes the new one in memory, *)
(* (prepare only) writes the outputs of the checkout, renames the new      *)
(* catalog over the old one, and releases the lock.  Each of these is an   *)
(* action, each may fail, and the process may be killed between any two.   *)
(*                                                                         *)
(* The outputs of a checkout are modelled by the ports its manifest claims *)
(* (NoPort everywhere: no manifest, or one that claims none).  Two history  *)
(* variables record what the outputs ought to claim, and what has happened *)
(* to them that nothing can make good.                                     *)
(***************************************************************************)
EXTENDS PortAllocation

CONSTANTS
    Procs,      \* devlane processes
    NoProc,     \* the lock is free
    Commands,   \* the invocations an operator may type
    NoCommand   \* an idle process

ASSUME ProcsAssumption == NoProc \notin Procs

\* A reassign names a service its adapter declares (runReassign returns
\* otherwise, before it looks at the catalog).
ASSUME CommandsAssumption ==
    /\ Commands \subseteq CommandRecords
    /\ NoCommand \notin Commands
    /\ \A c \in Commands : c.op = "reassign" => Declares(c.adapter, c.service)

VARIABLES
    catalog,    \* catalog.json
    lock,       \* the process that holds the flock on catalog.json.lock
    manifest,   \* per checkout: the ports its outputs on disk claim
    pc,         \* per process: the step it is at
    cmd,        \* per process: the command it runs
    work,       \* per process: the catalog in its memory
    states,     \* per process: the port states resolve returned
    backup,     \* per process: the snapshot of the outputs, for rollback
    prepared,   \* history, per checkout: the ports its last prepare published
    damage      \* history, per checkout: what befell its outputs since

history == <<prepared, damage>>
vars == <<catalog, lock, manifest, pc, cmd, work, states, backup, history>>

Steps == {"idle", "inspect", "decide", "wait", "locked", "loaded",
          "resolved", "staged", "written", "closing"}

Claims == [Services -> Ports \cup {NoPort}]

NoClaims == [s \in Services |-> NoPort]

\* torn: a kill or a failed restore left outputs that nobody published; mixed:
\* two prepares are, or were, at work on them at the same time.
Damages == {"none", "torn", "mixed"}

TypeOK ==
    /\ catalog  \in Catalogs
    /\ lock     \in Procs \cup {NoProc}
    /\ manifest \in [Checkouts -> Claims]
    /\ pc       \in [Procs -> Steps]
    /\ cmd      \in [Procs -> Commands \cup {NoCommand}]
    /\ work     \in [Procs -> Catalogs]
    /\ states   \in [Procs -> Claims]
    /\ backup   \in [Procs -> Claims]
    /\ prepared \in [Checkouts -> Claims]
    /\ damage   \in [Checkouts -> Damages]

Init ==
    /\ catalog  = EmptyCatalog
    /\ lock     = NoProc
    /\ manifest = [at \in Checkouts |-> NoClaims]
    /\ pc       = [p \in Procs |-> "idle"]
    /\ cmd      = [p \in Procs |-> NoCommand]
    /\ work     = [p \in Procs |-> EmptyCatalog]
    /\ states   = [p \in Procs |-> NoClaims]
    /\ backup   = [p \in Procs |-> NoClaims]
    /\ prepared = [at \in Checkouts |-> NoClaims]
    /\ damage   = [at \in Checkouts |-> "none"]

-----------------------------------------------------------------------------

Goto(p, step) == pc' = [pc EXCEPT ![p] = step]

\* p has outputs of the checkout under way.
WritesTo(p, at) ==
    pc[p] \in {"staged", "written"} /\ cmd[p].op = "prepare" /\ cmd[p].at = at

\* Of damaged outputs nothing is expected.
Record(at, what, ports) ==
    /\ damage'   = [damage EXCEPT ![at] = what]
    /\ prepared' = [prepared EXCEPT
                       ![at] = IF what = "none" THEN ports ELSE NoClaims]

\* A mixture lasts until a prepare starts alone.
Torn(at) ==
    Record(at, IF damage[at] = "mixed" THEN "mixed" ELSE "torn", NoClaims)

Begins(p, at) ==
    Record(at, IF \E q \in Procs \ {p} : WritesTo(q, at) THEN "mixed"
               ELSE IF damage[at] = "mixed" THEN "torn" ELSE damage[at],
           prepared[at])

\* A prepare that succeeds makes the outputs whole again, unless a row that it
\* displaced stays where it was.
Succeeds(p) ==
    LET at == cmd[p].at
    IN Record(at, IF damage[at] = "mixed" THEN "mixed"
                  ELSE IF KeepsDisplaced(cmd[p], catalog, work[p]) THEN "torn"
                  ELSE "none",
              [s \in Services |-> work[p][<<at, s>>].port])

Forgets(p) ==
    /\ cmd'    = [cmd EXCEPT ![p] = NoCommand]
    /\ work'   = [work EXCEPT ![p] = EmptyCatalog]
    /\ states' = [states EXCEPT ![p] = NoClaims]
    /\ backup' = [backup EXCEPT ![p] = NoClaims]

\* The command has done what it could: only its lock is left to release.
Leave(p) == Goto(p, "closing") /\ Forgets(p)

\* The process is gone: the kernel drops its flock, its memory is lost.
Exit(p) ==
    /\ Goto(p, "idle")
    /\ Forgets(p)
    /\ lock' = IF lock = p THEN NoProc ELSE lock

\* The command line is parsed and the adapter read (loadAdapter).
Start(p) ==
    /\ pc[p] = "idle"
    /\ \E c \in Commands :
        /\ cmd' = [cmd EXCEPT ![p] = c]
        /\ Goto(p, IF c.op = "cleanup" THEN "wait" ELSE "inspect")
    /\ UNCHANGED <<catalog, lock, manifest, work, states, backup, history>>

\* manifest.Build resolves the ports against the catalog it finds, with no
\* lock and nothing kept but the verdict: every port can be resolved ...
Inspect(p) ==
    /\ pc[p] = "inspect"
    /\ Resolutions(catalog, cmd[p]) # {}
    /\ Goto(p, IF cmd[p].op = "prepare" THEN "decide" ELSE "wait")
    /\ UNCHANGED <<catalog, lock, manifest, cmd, work, states, backup, history>>

\* ... or one of those to be chosen could not.
InspectFails(p) ==
    /\ pc[p] = "inspect"
    /\ MustChoose(catalog, cmd[p])
    /\ Exit(p)
    /\ UNCHANGED <<catalog, manifest, history>>

\* needsCatalogPrepare: an adapter without ports whose checkout has no row is
\* prepared without the lock.
Decide(p) ==
    /\ pc[p] = "decide"
    /\ Goto(p, IF \/ cmd[p].adapter.ports # <<>>
                  \/ hasAllocation(catalog, cmd[p].at)
               THEN "wait" ELSE "resolved")
    /\ UNCHANGED <<catalog, lock, manifest, cmd, work, states, backup, history>>

Acquire(p) ==
    /\ pc[p] = "wait"
    /\ lock = NoProc
    /\ lock' = p
    /\ Goto(p, "locked")
    /\ UNCHANGED <<catalog, manifest, cmd, work, states, backup, history>>

\* Seeded faults: the deadline is taken for success, and there is none.
TimeoutIgnored(p) ==
    /\ pc[p] = "wait"
    /\ lock # NoProc
    /\ Goto(p, "locked")
    /\ UNCHANGED <<catalog, lock, manifest, cmd, work, states, backup, history>>

NoDeadline(p) == FALSE

\* The deadline passed and the last LOCK_NB attempt found the lock taken.  (A
\* lock file that cannot be opened ends the command too, as Crash does.)
AcquireTimesOut(p) ==
    /\ pc[p] = "wait"
    /\ lock # NoProc
    /\ Exit(p)
    /\ UNCHANGED <<catalog, manifest, history>>

Load(p) ==
    /\ pc[p] = "locked"
    /\ work' = [work EXCEPT ![p] = catalog]
    /\ Goto(p, "loaded")
    /\ UNCHANGED <<catalog, lock, manifest, cmd, states, backup, history>>

\* resolve(commit = true) over the loaded catalog.
Resolve(p) ==
    /\ pc[p] = "loaded"
    /\ cmd[p].op = "prepare"
    /\ \E asg \in Resolutions(work[p], cmd[p]),
          moved \in MovePoints(work[p], cmd[p]) :
        /\ work'   = [work EXCEPT
                        ![p] = prepareRows(work[p], cmd[p], asg, moved)]
        /\ states' = [states EXCEPT ![p] = PortStates(cmd[p], asg)]
    /\ Goto(p, "resolved")
    /\ UNCHANGED <<catalog, lock, manifest, cmd, backup, history>>

ResolveFails(p) ==
    /\ pc[p] = "loaded"
    /\ cmd[p].op = "prepare"
    /\ MustChoose(work[p], cmd[p])
    /\ Leave(p)
    /\ UNCHANGED <<catalog, lock, manifest, history>>

\* The Mutate callback of reassign moves the row ...
Reassign(p) ==
    /\ pc[p] = "loaded"
    /\ cmd[p].op = "reassign"
    /\ work[p][<<cmd[p].at, cmd[p].service>>] # NoRow
    /\ \E port \in ReassignPorts(work[p], cmd[p]) :
        work' = [work EXCEPT ![p] = reassignRow(work[p], cmd[p], port)]
    /\ Goto(p, "written")
    /\ UNCHANGED <<catalog, lock, manifest, cmd, states, backup, history>>

\* ... or returns an error: no row, no port to move to, or (without --force)
\* nothing to do because the current port is bindable.
ReassignStops(p) ==
    /\ pc[p] = "loaded"
    /\ cmd[p].op = "reassign"
    /\ Leave(p)
    /\ UNCHANGED <<catalog, lock, manifest, history>>

\* The Mutate callback of removeScopedAllocations.
DropCheckout(p) ==
    /\ pc[p] = "loaded"
    /\ cmd[p].op = "cleanup"
    /\ work' = [work EXCEPT ![p] = dropCheckout(work[p], cmd[p])]
    /\ Goto(p, "written")
    /\ UNCHANGED <<catalog, lock, manifest, cmd, states, backup, history>>

\* Seeded fault: the catalog is published before the outputs are in place.
StagePublishesFirst(p) ==
    /\ pc[p] = "resolved"
    /\ backup' = [backup EXCEPT ![p] = manifest[cmd[p].at]]
    /\ Begins(p, cmd[p].at)
    /\ Goto(p, "written")
    /\ UNCHANGED <<catalog, lock, manifest, cmd, work, states>>

\* newPrepareOperation: plan the writes, snapshot the targets, stage temps.
Stage(p) ==
    /\ pc[p] = "resolved"
    /\ backup' = [backup EXCEPT ![p] = manifest[cmd[p].at]]
    /\ Begins(p, cmd[p].at)
    /\ Goto(p, "staged")
    /\ UNCHANGED <<catalog, lock, manifest, cmd, work, states>>

StageFails(p) ==
    /\ pc[p] = "resolved"
    /\ Leave(p)
    /\ UNCHANGED <<catalog, lock, manifest, history>>

\* Apply renames the staged outputs into place; without a session that is all
\* there is to a prepare.
Promote(p) ==
    /\ pc[p] = "staged"
    /\ manifest' = [manifest EXCEPT ![cmd[p].at] = states[p]]
    /\ IF lock = p
       THEN /\ Goto(p, "written")
            /\ UNCHANGED <<cmd, work, states, backup, history>>
       ELSE Leave(p) /\ Succeeds(p)
    /\ UNCHANGED <<catalog, lock>>

\* Rollback restores the snapshot, or cannot.
Restored(p) ==
    /\ manifest' = [manifest EXCEPT ![cmd[p].at] = backup[p]]
    /\ UNCHANGED history

\* A rename fails, that of the manifest or a later one, and Apply rolls back.
PromoteFails(p) ==
    /\ pc[p] = "staged"
    /\ \/ Restored(p)
       \/ UNCHANGED <<manifest, history>>
       \/ /\ manifest' = [manifest EXCEPT ![cmd[p].at] = states[p]]
          /\ Torn(cmd[p].at)
    /\ Leave(p)
    /\ UNCHANGED <<catalog, lock>>

\* saveCatalog: the rename is the commit point.
Publish(p) ==
    /\ pc[p] = "written"
    /\ catalog' = work[p]
    /\ IF cmd[p].op = "prepare" THEN Succeeds(p) ELSE UNCHANGED history
    /\ Leave(p)
    /\ UNCHANGED <<lock, manifest>>

\* Seeded fault: the outputs stay when the catalog was not published.
PublishFailsKeeping(p) ==
    /\ pc[p] = "written"
    /\ Leave(p)
    /\ UNCHANGED <<catalog, lock, manifest, history>>

PublishFails(p) ==
    /\ pc[p] = "written"
    /\ IF cmd[p].op = "prepare"
       THEN \/ Restored(p)
            \/ Torn(cmd[p].at) /\ UNCHANGED manifest
       ELSE UNCHANGED <<manifest, history>>
    /\ Leave(p)
    /\ UNCHANGED <<catalog, lock>>

\* The catalog cannot be read, or the holder cannot be recorded.
LoadFails(p) ==
    /\ pc[p] = "locked"
    /\ Leave(p)
    /\ UNCHANGED <<catalog, lock, manifest, history>>

Close(p) ==
    /\ pc[p] = "closing"
    /\ Exit(p)
    /\ UNCHANGED <<catalog, manifest, history>>

\* The process is killed.
Crash(p) ==
    /\ pc[p] # "idle"
    /\ Exit(p)
    /\ IF pc[p] = "written" /\ cmd[p].op = "prepare"
       THEN Torn(cmd[p].at) ELSE UNCHANGED history
    /\ UNCHANGED <<catalog, manifest>>

-----------------------------------------------------------------------------

\* What a started command does by itself.
Run(p) ==
    \/ Inspect(p) \/ InspectFails(p) \/ Decide(p)
    \/ Acquire(p) \/ AcquireTimesOut(p)
    \/ Load(p) \/ LoadFails(p)
    \/ Resolve(p) \/ ResolveFails(p)
    \/ Reassign(p) \/ ReassignStops(p) \/ DropCheckout(p)
    \/ Stage(p) \/ StageFails(p) \/ Promote(p) \/ PromoteFails(p)
    \/ Publish(p) \/ PublishFails(p) \/ Close(p)

Next == \E p \in Procs : Start(p) \/ Run(p) \/ Crash(p)

Spec == Init /\ [][Next]_vars

\* The operating system schedules a running command; the polling loop of
\* acquireCatalogLock ends at its deadline even if it never wins the lock.
FairSpec == Spec /\ \A p \in Procs : WF_vars(Run(p))

-----------------------------------------------------------------------------
(* Safety *)

\* p is the process whose rename this step is.
Commits(p) == pc[p] = "written" /\ pc'[p] = "closing" /\ catalog' # catalog

\* The catalog a lock holder has in memory is the published one, or what its
\* own command makes of the published one: nobody published in between, so
\* the rename that follows loses no other command's update
\* (BeginPrepare and Mutate load after they acquire, and release after they
\* publish).
WorkIsCurrent ==
    \A p \in Procs :
        /\ pc[p] = "loaded" => work[p] = catalog
        /\ lock = p /\ pc[p] \in {"resolved", "staged", "written"}
               => Outcome(cmd[p], catalog, work[p])

\* No two rows of the published catalog hold the same port, whatever commands
\* race (held and claimed in resolve, held in ReassignService).
PortsAreUnique == UniquePorts(catalog)

\* The published catalog changes only by the rename of a command that runs
\* alone, and only in the rows of that command's own checkout.
OwnRowsOnly ==
    [][\A k \in Keys :
          catalog'[k] # catalog[k] =>
              \E p \in Procs : Commits(p) /\ lock = p /\ cmd[p].at = k[1]]_vars

\* Preparing a dev lane never moves a port the checkout already has, not even
\* when another command moved it while this one waited for the lock.
DevPortsStick ==
    [][\A p \in Procs :
          Commits(p) /\ cmd[p].op = "prepare" /\ cmd[p].mode = "dev" =>
              \A s \in Services :
                  LET k == <<cmd[p].at, s>>
                  IN Declares(cmd[p].adapter, s) /\ catalog[k] # NoRow
                         => catalog'[k].port = catalog[k].port]_vars

\* Preparing a stable lane publishes every declared service on its fixture,
\* in a row that says it is stable, with one exception: the row of a service
\* declared after one that had no row may stay just as it was, because append
\* moved the rows in between (portalloc.go:410).  Whatever else was prepared,
\* moved or cleaned up since the command started, there is no third outcome.
StableOnFixture ==
    [][\A p \in Procs :
          Commits(p) /\ cmd[p].op = "prepare" /\ cmd[p].mode = "stable" =>
              \A i \in DOMAIN cmd[p].adapter.ports :
                  LET key(j) == <<cmd[p].at, cmd[p].adapter.ports[j].name>>
                  IN \/ catalog'[key(i)] =
                            [port |-> stablePort(cmd[p].adapter.ports[i]),
                             mode |-> "stable"]
                     \/ /\ catalog[key(i)] # NoRow
                        /\ catalog'[key(i)] = catalog[key(i)]
                        /\ \E j \in 1 .. (i - 1) :
                              catalog[key(j)] = NoRow]_vars

\* A dev reassign moves its row off the port it had when the rename happens
\* and leaves every other row alone.
ReassignMovesOneRow ==
    [][\A p \in Procs :
          Commits(p) /\ cmd[p].op = "reassign" =>
              LET key == <<cmd[p].at, cmd[p].service>>
              IN /\ catalog[key] # NoRow
                 /\ cmd[p].mode = "dev"
                       => catalog'[key].port # catalog[key].port
                 /\ \A k \in Keys \ {key} : catalog'[k] = catalog[k]]_vars

\* The outputs of a checkout claim exactly the ports that the last successful
\* prepare of it published: they are in place before the catalog is (but not
\* before it when nobody is about to publish), a failure puts them back, and the
\* next success makes good what a kill or a failed restore has torn.  Excepted
\* are only checkouts in which two prepares were at work at once, one of them
\* without the lock, and publications that kept a displaced row.
OutputsArePrepared ==
    \A at \in Checkouts :
        /\ damage[at] = "none"
        /\ \A p \in Procs : pc[p] = "written" => ~WritesTo(p, at)
        => manifest[at] = prepared[at]

\* docs/65-host-catalog.md:111, "This keeps unlocked readers from observing a
\* misleadingly "ready" catalog state while repo-local outputs are still stale
\* or missing": when a prepare publishes, the outputs on disk claim the ports
\* that the catalog now gives the checkout.
OutputsPrecedeCatalog ==
    [][\A p \in Procs :
          Commits(p) /\ cmd[p].op = "prepare" =>
              \A s \in Services :
                  manifest[cmd[p].at][s] = catalog'[<<cmd[p].at, s>>].port]_vars

\* Every interleaving is one of atomic commands.
Atomic == INSTANCE AtomicCatalog
              WITH Requests <- Commands, Effect <- Outcome,
                   Initial <- EmptyCatalog, store <- catalog

Serializable == Atomic!Spec

-----------------------------------------------------------------------------
(* Liveness *)

\* Every command ends, and the lock with it: a waiter gets the lock or times
\* out, a holder publishes or gives up.
EveryCommandEnds == \A p \in Procs : pc[p] # "idle" ~> pc[p] = "idle"
=============================================================================
