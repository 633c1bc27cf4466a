-------------------------- MODULE HostCatalogProofs --------------------------
(***************************************************************************)
(* Proofs about HostCatalog, for every set of processes, checkouts,        *)
(* services, ports and commands that satisfies the modules' assumptions.   *)
(***************************************************************************)
EXTENDS HostCatalog, PortAllocationProofs

-----------------------------------------------------------------------------
(* Commands *)

\* The commands are the ones that the lemmas of PortAllocation are about.
LEMMA CommandsAreWellFormed == Commands \subseteq WellFormed
BY CommandsAssumption DEF WellFormed

\* The states that resolve returns are claims on ports.
LEMMA PortStatesType ==
    ASSUME NEW c \in Commands, NEW cat, NEW asg \in Resolutions(cat, c)
    PROVE  PortStates(c, asg) \in Claims
<1>1. asg \in [DOMAIN c.adapter.ports -> Ports]
  BY DEF Resolutions
<1>2. QED
  BY <1>1, CommandsAreWellFormed, CommandType, DeclarationOf
     DEF PortStates, Claims

LEMMA EmptyType == EmptyCatalog \in Catalogs /\ NoClaims \in Claims
BY DEF EmptyCatalog, Catalogs, NoClaims, Claims

-----------------------------------------------------------------------------
(* Type correctness *)

\* A process that is neither idle nor about to be runs a command.
Busy == \A p \in Procs : pc[p] \notin {"idle", "closing"} => cmd[p] \in Commands

TypeInv == TypeOK /\ Busy

HistoryType ==
    prepared \in [Checkouts -> Claims] /\ damage \in [Checkouts -> Damages]

\* Whatever is recorded of a checkout is of the history's type.
LEMMA RecordType ==
    ASSUME HistoryType, NEW at, NEW what \in Damages, NEW ports \in Claims,
           Record(at, what, ports)
    PROVE  HistoryType'
BY EmptyType DEF HistoryType, Record

\* So are the records that the actions make.
LEMMA TornType ==
    ASSUME HistoryType, NEW at \in Checkouts, Torn(at)
    PROVE  HistoryType'
BY RecordType, EmptyType DEF Torn, Damages, HistoryType

LEMMA BeginsType ==
    ASSUME HistoryType, NEW p, NEW at \in Checkouts, Begins(p, at)
    PROVE  HistoryType'
<1>1. PICK what \in Damages : Record(at, what, prepared[at])
  BY DEF Begins, Damages, HistoryType
<1>2. QED
  BY <1>1, RecordType DEF HistoryType

LEMMA SucceedsType ==
    ASSUME TypeInv, NEW p \in Procs, cmd[p] \in Commands, Succeeds(p)
    PROVE  HistoryType'
<1> DEFINE at    == cmd[p].at
           ports == [s \in Services |-> work[p][<<at, s>>].port]
<1>1. at \in Checkouts
  BY CommandsAreWellFormed, CommandType
<1>2. ports \in Claims
  BY <1>1 DEF TypeInv, TypeOK, Catalogs, Allocations, NoRow, Keys, Claims
<1>3. PICK what \in Damages : Record(at, what, ports)
  BY <1>1 DEF Succeeds, Damages, TypeInv, TypeOK
<1>4. QED
  BY <1>2, <1>3, RecordType DEF HistoryType, TypeInv, TypeOK

\* A process that is done with its command leaves the types as they are.
LEMMA LeaveKeepsType ==
    ASSUME TypeInv, NEW p \in Procs, Leave(p), HistoryType',
           (catalog \in Catalogs)', (lock \in Procs \cup {NoProc})',
           (manifest \in [Checkouts -> Claims])'
    PROVE  TypeInv'
BY EmptyType
   DEF TypeInv, TypeOK, Busy, Leave, Forgets, Goto, Steps, HistoryType

LEMMA ExitKeepsType ==
    ASSUME TypeInv, NEW p \in Procs, Exit(p), UNCHANGED <<catalog, manifest>>,
           HistoryType'
    PROVE  TypeInv'
BY EmptyType
   DEF TypeInv, TypeOK, Busy, Exit, Forgets, Goto, Steps, HistoryType

LEMMA TypeInductive == TypeInv /\ [Next]_vars => TypeInv'
<1> SUFFICES ASSUME TypeInv, [Next]_vars PROVE TypeInv'
  OBVIOUS
<1> USE DEF TypeInv, TypeOK, Busy, Goto, Steps
<1>1. CASE UNCHANGED vars
  BY <1>1 DEF vars, history
<1>2. ASSUME NEW p \in Procs, Start(p) PROVE TypeInv'
  BY <1>2 DEF Start, history
<1>3. ASSUME NEW p \in Procs, Run(p) PROVE TypeInv'
  <2>1. CASE Inspect(p)
    BY <2>1 DEF Inspect, history
  <2>2. CASE Decide(p)
    BY <2>2 DEF Decide, history
  <2>3. CASE Acquire(p)
    BY <2>3 DEF Acquire, history
  <2>4. CASE Load(p)
    BY <2>4 DEF Load, history
  <2>5. CASE Resolve(p)
    <3>1. cmd[p] \in Commands /\ work[p] \in Catalogs
      BY <2>5 DEF Resolve, history
    <3>2. PICK asg \in Resolutions(work[p], cmd[p]),
               moved \in MovePoints(work[p], cmd[p]) :
             /\ work'   = [work EXCEPT
                             ![p] = prepareRows(work[p], cmd[p], asg, moved)]
             /\ states' = [states EXCEPT ![p] = PortStates(cmd[p], asg)]
      BY <2>5 DEF Resolve, history
    <3>3. prepareRows(work[p], cmd[p], asg, moved) \in Catalogs
      BY <3>1, CommandsAreWellFormed, PrepareType
    <3>4. PortStates(cmd[p], asg) \in Claims
      BY <3>1, PortStatesType
    <3>5. QED
      BY <2>5, <3>2, <3>3, <3>4 DEF Resolve, history
  <2>6. CASE Reassign(p)
    <3>1. cmd[p] \in Commands /\ work[p] \in Catalogs
      BY <2>6 DEF Reassign, history
    <3>2. PICK port \in ReassignPorts(work[p], cmd[p]) :
             work' = [work EXCEPT ![p] = reassignRow(work[p], cmd[p], port)]
      BY <2>6 DEF Reassign, history
    <3>3. reassignRow(work[p], cmd[p], port) \in Catalogs
      BY <2>6, <3>1, CommandsAreWellFormed, ReassignType DEF Reassign, history
    <3>4. QED
      BY <2>6, <3>2, <3>3 DEF Reassign, history
  <2>7. CASE DropCheckout(p)
    <3>1. dropCheckout(work[p], cmd[p]) \in Catalogs
      BY DropType
    <3>2. QED
      BY <2>7, <3>1 DEF DropCheckout, history
  <2>8. CASE Stage(p)
    <3>1. cmd[p].at \in Checkouts
      BY <2>8, CommandsAreWellFormed, CommandType DEF Stage
    <3>2. HistoryType'
      BY <2>8, <3>1, BeginsType DEF Stage, HistoryType
    <3>3. QED
      BY <2>8, <3>1, <3>2 DEF Stage, HistoryType
  <2>9. CASE Promote(p)
    <3>1. cmd[p] \in Commands
      BY <2>9 DEF Promote
    <3>2. (manifest \in [Checkouts -> Claims])'
      BY <2>9 DEF Promote
    <3>3. CASE lock = p
      BY <2>9, <3>2, <3>3 DEF Promote, history
    <3>4. CASE lock # p
      BY <2>9, <3>1, <3>2, <3>4, LeaveKeepsType, SucceedsType DEF Promote
    <3>5. QED
      BY <3>3, <3>4
  <2>10. CASE PromoteFails(p)
    <3>1. cmd[p].at \in Checkouts
      BY <2>10, CommandsAreWellFormed, CommandType DEF PromoteFails
    <3>2. (manifest \in [Checkouts -> Claims])'
      BY <2>10 DEF PromoteFails, Restored
    <3>3. HistoryType'
      BY <2>10, <3>1, TornType
         DEF PromoteFails, Restored, HistoryType, history
    <3>4. QED
      BY <2>10, <3>2, <3>3, LeaveKeepsType DEF PromoteFails
  <2>11. CASE Publish(p)
    <3>1. cmd[p] \in Commands
      BY <2>11 DEF Publish
    <3>2. HistoryType'
      BY <2>11, <3>1, SucceedsType DEF Publish, HistoryType, history
    <3>3. QED
      BY <2>11, <3>2, LeaveKeepsType DEF Publish
  <2>12. CASE PublishFails(p)
    <3>1. cmd[p].at \in Checkouts
      BY <2>12, CommandsAreWellFormed, CommandType DEF PublishFails
    <3>2. (manifest \in [Checkouts -> Claims])'
      BY <2>12 DEF PublishFails, Restored
    <3>3. HistoryType'
      BY <2>12, <3>1, TornType
         DEF PublishFails, Restored, HistoryType, history
    <3>4. QED
      BY <2>12, <3>2, <3>3, LeaveKeepsType DEF PublishFails
  <2>13. CASE \/ LoadFails(p) \/ ResolveFails(p) \/ ReassignStops(p)
              \/ StageFails(p)
    BY <2>13, LeaveKeepsType
       DEF LoadFails, ResolveFails, ReassignStops, StageFails, HistoryType,
           history
  <2>14. CASE InspectFails(p) \/ AcquireTimesOut(p) \/ Close(p)
    BY <2>14, ExitKeepsType
       DEF InspectFails, AcquireTimesOut, Close, HistoryType, history
  <2>15. QED
    BY <1>3, <2>1, <2>2, <2>3, <2>4, <2>5, <2>6, <2>7, <2>8, <2>9, <2>10,
       <2>11, <2>12, <2>13, <2>14 DEF Run
<1>4. ASSUME NEW p \in Procs, Crash(p) PROVE TypeInv'
  <2>1. HistoryType'
    <3>1. CASE pc[p] = "written" /\ cmd[p].op = "prepare"
      <4>1. cmd[p].at \in Checkouts
        BY <3>1, CommandsAreWellFormed, CommandType
      <4>2. QED
        BY <1>4, <3>1, <4>1, TornType DEF Crash, HistoryType
    <3>2. CASE ~(pc[p] = "written" /\ cmd[p].op = "prepare")
      BY <1>4, <3>2 DEF Crash, HistoryType, history
    <3>3. QED
      BY <3>1, <3>2
  <2>2. QED
    BY <1>4, <2>1, ExitKeepsType DEF Crash
<1>5. QED
  BY <1>1, <1>2, <1>3, <1>4 DEF Next

LEMMA TypeInitially == Init => TypeInv
BY EmptyType DEF Init, TypeInv, TypeOK, Busy, Steps, Damages

\* Every reachable state is well typed: the catalog on disk and every copy of
\* it in memory map keys to rows with a port an adapter may name.
THEOREM TypeCorrect == Spec => []TypeOK
<1>1. Spec => []TypeInv
  BY TypeInitially, TypeInductive, PTL DEF Spec
<1>2. TypeInv => TypeOK
  BY DEF TypeInv
<1>3. QED
  BY <1>1, <1>2, PTL

-----------------------------------------------------------------------------
(* The lock protects the catalog *)

\* Only the holder of the lock is between its acquisition and its release,
\* and the steps that read or write catalog.json are taken by the holder.
LockInv ==
    \A p \in Procs :
        /\ lock = p => pc[p] \in {"locked", "loaded", "resolved", "staged",
                                  "written", "closing"}
        /\ pc[p] \in {"locked", "loaded", "written"} => lock = p

Inv == TypeInv /\ LockInv /\ WorkIsCurrent

\* A process that exits disturbs nobody: the catalog stays, and no other
\* process comes to hold the lock.
LEMMA ExitKeepsInv ==
    ASSUME Inv, NEW p \in Procs, Exit(p), UNCHANGED <<catalog, manifest>>
    PROVE  LockInv' /\ WorkIsCurrent'
<1> USE ProcsAssumption DEF Inv, TypeInv, TypeOK, Exit, Forgets, Goto
<1>1. LockInv'
  BY DEF LockInv
<1>2. WorkIsCurrent'
  BY DEF WorkIsCurrent
<1>3. QED
  BY <1>1, <1>2

\* A step that touches neither the catalog nor anybody's copy of it, and that
\* leaves p on the same side of the lock, preserves the invariant.
LEMMA QuietStep ==
    ASSUME Inv, NEW p \in Procs, NEW step \in Steps,
           Goto(p, step),
           UNCHANGED <<catalog, lock, cmd, work>>,
           step \in {"locked", "loaded", "written"} => lock = p,
           lock = p => step \in {"resolved", "staged", "written", "closing"},
           step \in {"resolved", "staged", "written"} /\ lock = p
               => pc[p] \in {"resolved", "staged", "written"},
           step # "loaded"
    PROVE  LockInv' /\ WorkIsCurrent'
<1> USE DEF Inv, TypeInv, TypeOK, Goto
<1>1. LockInv'
  BY DEF LockInv
<1>2. WorkIsCurrent'
  BY DEF WorkIsCurrent
<1>3. QED
  BY <1>1, <1>2

\* Nor does one that has done with its command, lock or no lock.
LEMMA LeaveKeepsInv ==
    ASSUME Inv, NEW p \in Procs, Leave(p), UNCHANGED <<catalog, lock>>
    PROVE  LockInv' /\ WorkIsCurrent'
<1> USE ProcsAssumption DEF Inv, TypeInv, TypeOK, Leave, Forgets, Goto
<1>1. LockInv'
  BY DEF LockInv
<1>2. WorkIsCurrent'
  BY DEF WorkIsCurrent
<1>3. QED
  BY <1>1, <1>2

\* The step of p that turns the loaded catalog into the one to publish.
LEMMA ComputeStep ==
    ASSUME Inv, NEW p \in Procs, NEW step \in {"resolved", "written"},
           NEW new,
           pc[p] = "loaded",
           Goto(p, step),
           work' = [work EXCEPT ![p] = new],
           Outcome(cmd[p], catalog, new),
           UNCHANGED <<catalog, lock, cmd>>
    PROVE  LockInv' /\ WorkIsCurrent'
<1> USE DEF Inv, TypeInv, TypeOK, Goto
<1>1. LockInv'
  BY DEF LockInv
<1>2. WorkIsCurrent'
  BY DEF WorkIsCurrent
<1>3. QED
  BY <1>1, <1>2

LEMMA LockInductive == Inv /\ [Next]_vars => LockInv' /\ WorkIsCurrent'
<1> SUFFICES ASSUME Inv, [Next]_vars PROVE LockInv' /\ WorkIsCurrent'
  OBVIOUS
<1>1. CASE UNCHANGED vars
  BY <1>1 DEF vars, Inv, LockInv, WorkIsCurrent
<1>2. ASSUME NEW p \in Procs, Start(p) PROVE LockInv' /\ WorkIsCurrent'
  <2> USE DEF Inv, TypeInv, TypeOK, Goto
  <2>1. LockInv'
    BY <1>2 DEF Start, LockInv
  <2>2. WorkIsCurrent'
    BY <1>2 DEF Start, LockInv, WorkIsCurrent
  <2>3. QED
    BY <2>1, <2>2
<1>3. ASSUME NEW p \in Procs, Run(p) PROVE LockInv' /\ WorkIsCurrent'
  <2>0. pc[p] = "loaded" => work[p] = catalog /\ lock = p
    BY DEF Inv, WorkIsCurrent, LockInv
  <2>1. CASE Inspect(p)
    BY <2>1, QuietStep DEF Inspect, Steps, Inv, LockInv
  <2>2. CASE Decide(p)
    BY <2>2, QuietStep DEF Decide, Steps, Inv, LockInv
  <2>3. CASE Acquire(p)
    <3> USE ProcsAssumption DEF Inv, TypeInv, TypeOK, Goto
    <3>1. LockInv'
      BY <2>3 DEF Acquire, LockInv
    <3>2. WorkIsCurrent'
      BY <2>3 DEF Acquire, WorkIsCurrent
    <3>3. QED
      BY <3>1, <3>2
  <2>4. CASE Load(p)
    <3> USE DEF Inv, TypeInv, TypeOK, Goto
    <3>1. LockInv'
      BY <2>4 DEF Load, LockInv
    <3>2. WorkIsCurrent'
      BY <2>4 DEF Load, WorkIsCurrent
    <3>3. QED
      BY <3>1, <3>2
  <2>5. CASE Resolve(p)
    <3>1. PICK asg \in Resolutions(work[p], cmd[p]),
               moved \in MovePoints(work[p], cmd[p]) :
             work' = [work EXCEPT
                         ![p] = prepareRows(work[p], cmd[p], asg, moved)]
      BY <2>5 DEF Resolve
    <3>2. Outcome(cmd[p], catalog, prepareRows(work[p], cmd[p], asg, moved))
      BY <2>0, <2>5 DEF Resolve, Outcome, PrepareOutcome
    <3>3. QED
      BY <2>5, <3>1, <3>2, ComputeStep DEF Resolve
  <2>6. CASE Reassign(p)
    <3>1. PICK port \in ReassignPorts(work[p], cmd[p]) :
             work' = [work EXCEPT ![p] = reassignRow(work[p], cmd[p], port)]
      BY <2>6 DEF Reassign
    <3>2. Outcome(cmd[p], catalog, reassignRow(work[p], cmd[p], port))
      BY <2>0, <2>6 DEF Reassign, Outcome, ReassignOutcome
    <3>3. QED
      BY <2>6, <3>1, <3>2, ComputeStep DEF Reassign
  <2>7. CASE DropCheckout(p)
    <3>1. Outcome(cmd[p], catalog, dropCheckout(work[p], cmd[p]))
      BY <2>0, <2>7 DEF DropCheckout, Outcome, CleanupOutcome
    <3>2. QED
      BY <2>7, <3>1, ComputeStep DEF DropCheckout
  <2>8. CASE Stage(p)
    BY <2>8, QuietStep DEF Stage, Steps
  <2>9. CASE Promote(p)
    <3>1. CASE lock = p
      BY <2>9, <3>1, QuietStep DEF Promote, Steps
    <3>2. CASE lock # p
      BY <2>9, <3>2, LeaveKeepsInv DEF Promote
    <3>3. QED
      BY <3>1, <3>2
  <2>10. CASE PromoteFails(p)
    BY <2>10, LeaveKeepsInv DEF PromoteFails
  <2>11. CASE Publish(p)
    <3> USE DEF Inv, TypeInv, TypeOK, Leave, Forgets, Goto
    <3>1. LockInv'
      BY <2>11 DEF Publish, LockInv
    <3>2. WorkIsCurrent'
      BY <2>11 DEF Publish, LockInv, WorkIsCurrent
    <3>3. QED
      BY <3>1, <3>2
  <2>12. CASE PublishFails(p)
    BY <2>12, LeaveKeepsInv DEF PublishFails
  <2>13. CASE \/ LoadFails(p) \/ ResolveFails(p) \/ ReassignStops(p)
              \/ StageFails(p)
    BY <2>13, LeaveKeepsInv
       DEF LoadFails, ResolveFails, ReassignStops, StageFails
  <2>14. CASE InspectFails(p) \/ AcquireTimesOut(p) \/ Close(p)
    BY <2>14, ExitKeepsInv DEF InspectFails, AcquireTimesOut, Close
  <2>15. QED
    BY <1>3, <2>1, <2>2, <2>3, <2>4, <2>5, <2>6, <2>7, <2>8, <2>9, <2>10,
       <2>11, <2>12, <2>13, <2>14 DEF Run
<1>4. ASSUME NEW p \in Procs, Crash(p) PROVE LockInv' /\ WorkIsCurrent'
  BY <1>4, ExitKeepsInv DEF Crash
<1>5. QED
  BY <1>1, <1>2, <1>3, <1>4 DEF Next

LEMMA InvInitially == Init => Inv
BY TypeInitially, ProcsAssumption DEF Init, Inv, LockInv, WorkIsCurrent

LEMMA InvInductive == Inv /\ [Next]_vars => Inv'
BY TypeInductive, LockInductive DEF Inv

LEMMA Invariance == Spec => []Inv
BY InvInitially, InvInductive, PTL DEF Spec

\* Whoever is about to publish holds in memory what its command makes of the
\* catalog now on disk: no update of another command is lost, for any number
\* of processes, crashes and time-outs.
THEOREM NoLostUpdate == Spec => []WorkIsCurrent
<1>1. Inv => WorkIsCurrent
  BY DEF Inv
<1>2. QED
  BY <1>1, Invariance, PTL

-----------------------------------------------------------------------------
(* The interleaved commands implement atomic ones *)

LEMMA AtomicInit == Init => Atomic!Init
BY DEF Init, Atomic!Init

\* Only Publish changes the catalog.
LEMMA OnlyPublishWrites ==
    ASSUME [Next]_vars, catalog' # catalog
    PROVE  \E p \in Procs : Publish(p)
BY DEF Next, Run, vars, Start, Inspect, InspectFails, Decide, Acquire,
       AcquireTimesOut, Load, LoadFails, Resolve, ResolveFails, Reassign,
       ReassignStops, DropCheckout, Stage, StageFails, Promote, PromoteFails,
       PublishFails, Close, Crash

\* What a publication is: the holder of the lock commits its own command to
\* the catalog on disk.
LEMMA PublishCommits ==
    ASSUME Inv, NEW p \in Procs, Publish(p)
    PROVE  /\ lock = p
           /\ cmd[p] \in Commands
           /\ Outcome(cmd[p], catalog, catalog')
BY DEF Inv, LockInv, WorkIsCurrent, TypeInv, Busy, Publish

LEMMA AtomicStep == Inv /\ [Next]_vars => [Atomic!Next]_catalog
<1> SUFFICES ASSUME Inv, [Next]_vars, catalog' # catalog
             PROVE  Atomic!Next
  OBVIOUS
<1>1. PICK p \in Procs : Publish(p)
  BY OnlyPublishWrites
<1>2. cmd[p] \in Commands /\ Outcome(cmd[p], catalog, catalog')
  BY <1>1, PublishCommits
<1>3. Atomic!Commit(cmd[p])
  BY <1>2 DEF Atomic!Commit
<1>4. QED
  BY <1>2, <1>3 DEF Atomic!Next

\* Every behaviour of the interleaved commands, failures and crashes
\* included, is one in which each command that publishes ran atomically.
THEOREM ImplementsAtomic == Spec => Serializable
<1>1. Init /\ [][Inv /\ [Next]_vars]_vars => Atomic!Spec
  <2>1. [Inv /\ [Next]_vars]_vars => [Atomic!Next]_catalog
    BY AtomicStep DEF vars
  <2>2. QED
    BY <2>1, AtomicInit, PTL DEF Atomic!Spec
<1>2. QED
  BY <1>1, Invariance, PTL DEF Spec, Serializable

-----------------------------------------------------------------------------
(* One port, one row *)

\* The case the guarantee needs: no command can lose a move whose port is then
\* free for a later service.
NoLostPortMove == \A c \in Commands : LosesNoPort(c)

\* No interleaving of commands publishes a catalog in which two rows hold one
\* port, as long as append does not move the rows under a stable lane of three
\* services or more (the array moves at the first, the second keeps the port
\* it should have left, the third takes it).
THEOREM UniquePortsAlways ==
    ASSUME NoLostPortMove
    PROVE  Spec => []PortsAreUnique
<1>1. Init => PortsAreUnique
  BY DEF Init, PortsAreUnique, UniquePorts, EmptyCatalog, NoRow
<1>2. Inv /\ PortsAreUnique /\ [Next]_vars => PortsAreUnique'
  <2> SUFFICES ASSUME Inv, PortsAreUnique, [Next]_vars, catalog' # catalog
               PROVE  PortsAreUnique'
    BY DEF PortsAreUnique, UniquePorts
  <2>1. PICK p \in Procs : Publish(p)
    BY OnlyPublishWrites
  <2>2. cmd[p] \in Commands /\ Outcome(cmd[p], catalog, catalog')
    BY <2>1, PublishCommits
  <2>3. catalog \in Catalogs
    BY DEF Inv, TypeInv, TypeOK
  <2>4. QED
    BY <2>2, <2>3, CommandsAreWellFormed, OutcomeKeepsUnique
       DEF PortsAreUnique, NoLostPortMove
<1>3. QED
  BY <1>1, <1>2, Invariance, PTL DEF Spec

\* Whatever append moves, no port is given to two checkouts: two rows with one
\* port can only be rows of one.
THEOREM CheckoutsStayApart == Spec => []ApartPorts(catalog)
<1>1. Init => ApartPorts(catalog)
  BY DEF Init, ApartPorts, EmptyCatalog, NoRow
<1>2. Inv /\ ApartPorts(catalog) /\ [Next]_vars => ApartPorts(catalog)'
  <2> SUFFICES ASSUME Inv, ApartPorts(catalog), [Next]_vars,
                      catalog' # catalog
               PROVE  ApartPorts(catalog)'
    BY DEF ApartPorts
  <2>1. PICK p \in Procs : Publish(p)
    BY OnlyPublishWrites
  <2>2. cmd[p] \in Commands /\ Outcome(cmd[p], catalog, catalog')
    BY <2>1, PublishCommits
  <2>3. catalog \in Catalogs
    BY DEF Inv, TypeInv, TypeOK
  <2>4. ApartPorts(catalog')
    BY <2>2, <2>3, CommandsAreWellFormed, OutcomeKeepsApart
  <2>5. QED
    BY <2>4 DEF ApartPorts
<1>3. QED
  BY <1>1, <1>2, Invariance, PTL DEF Spec

-----------------------------------------------------------------------------
(* What one publication may change *)

\* The process that commits is the one whose rename it is, and it holds the
\* lock.
LEMMA CommitIsPublish ==
    ASSUME Inv, [Next]_vars, NEW p \in Procs, Commits(p)
    PROVE  Publish(p)
<1>1. PICK q \in Procs : Publish(q)
  BY OnlyPublishWrites DEF Commits
<1>2. lock = q /\ lock = p
  BY <1>1 DEF Inv, LockInv, Publish, Commits
<1>3. QED
  BY <1>1, <1>2

LEMMA PublishIsCommit ==
    ASSUME Inv, NEW p \in Procs, Publish(p), catalog' # catalog
    PROVE  Commits(p)
BY DEF Inv, TypeInv, TypeOK, Publish, Commits, Leave, Goto

\* No command ever disturbs the rows of a checkout that is not its own.
THEOREM ForeignRowsSafe == Spec => OwnRowsOnly
<1>1. ASSUME Inv, [Next]_vars, NEW k \in Keys, catalog'[k] # catalog[k]
      PROVE  \E p \in Procs : Commits(p) /\ lock = p /\ cmd[p].at = k[1]
  <2>1. PICK p \in Procs : Publish(p)
    BY <1>1, OnlyPublishWrites
  <2>2. /\ lock = p /\ cmd[p] \in Commands
        /\ Outcome(cmd[p], catalog, catalog')
    BY <1>1, <2>1, PublishCommits
  <2>3. cmd[p].at = k[1]
    BY <1>1, <2>2, CommandsAreWellFormed, OutcomeIsScoped
       DEF Inv, TypeInv, TypeOK
  <2>4. Commits(p)
    BY <1>1, <2>1, PublishIsCommit
  <2>5. QED
    BY <2>2, <2>3, <2>4
<1>2. Inv /\ [Next]_vars =>
        [\A k \in Keys :
            catalog'[k] # catalog[k] =>
                \E p \in Procs :
                    Commits(p) /\ lock = p /\ cmd[p].at = k[1]]_vars
  BY <1>1
<1>3. QED
  BY <1>2, Invariance, PTL DEF Spec, OwnRowsOnly

\* Once a dev lane has a port, its prepare never moves it, whatever happened
\* between the inspection and the lock, and whatever append does.
THEOREM Sticky == Spec => DevPortsStick
<1> DEFINE Stick(p) ==
        Commits(p) /\ cmd[p].op = "prepare" /\ cmd[p].mode = "dev" =>
            \A s \in Services :
                LET k == <<cmd[p].at, s>>
                IN Declares(cmd[p].adapter, s) /\ catalog[k] # NoRow
                       => catalog'[k].port = catalog[k].port
<1>1. ASSUME Inv, [Next]_vars, NEW p \in Procs PROVE Stick(p)
  <2>1. SUFFICES ASSUME Commits(p), cmd[p].op = "prepare", cmd[p].mode = "dev",
                        NEW s \in Services, Declares(cmd[p].adapter, s),
                        catalog[<<cmd[p].at, s>>] # NoRow
                 PROVE  catalog'[<<cmd[p].at, s>>].port
                            = catalog[<<cmd[p].at, s>>].port
    OBVIOUS
  <2>2. cmd[p] \in Commands /\ Outcome(cmd[p], catalog, catalog')
    BY <1>1, <2>1, CommitIsPublish, PublishCommits
  <2>3. catalog \in Catalogs
    BY <1>1 DEF Inv, TypeInv, TypeOK
  <2>4. QED
    BY <2>1, <2>2, <2>3, CommandsAreWellFormed, DevKeepsPorts
<1>2. Inv /\ [Next]_vars => [\A p \in Procs : Stick(p)]_vars
  BY <1>1
<1>3. QED
  BY <1>2, Invariance, PTL DEF Spec, DevPortsStick

\* Whatever else runs, a reassign changes one row, one that is there when the
\* rename happens, and a dev lane never comes back with the port it has.
THEOREM OneRowMoves == Spec => ReassignMovesOneRow
<1> DEFINE Moves(p) ==
        Commits(p) /\ cmd[p].op = "reassign" =>
            LET key == <<cmd[p].at, cmd[p].service>>
            IN /\ catalog[key] # NoRow
               /\ cmd[p].mode = "dev" => catalog'[key].port # catalog[key].port
               /\ \A k \in Keys \ {key} : catalog'[k] = catalog[k]
<1>1. ASSUME Inv, [Next]_vars, NEW p \in Procs PROVE Moves(p)
  <2>1. SUFFICES ASSUME Commits(p), cmd[p].op = "reassign" PROVE Moves(p)
    OBVIOUS
  <2>2. cmd[p] \in Commands /\ Outcome(cmd[p], catalog, catalog')
    BY <1>1, <2>1, CommitIsPublish, PublishCommits
  <2>3. catalog \in Catalogs
    BY <1>1 DEF Inv, TypeInv, TypeOK
  <2>4. QED
    BY <2>1, <2>2, <2>3, CommandsAreWellFormed, ReassignEffect
<1>2. Inv /\ [Next]_vars => [\A p \in Procs : Moves(p)]_vars
  BY <1>1
<1>3. QED
  BY <1>2, Invariance, PTL DEF Spec, ReassignMovesOneRow

\* Whatever runs beside it and whatever append does, a stable prepare publishes
\* a declared service on its fixture, or leaves a row that it found behind a
\* service without one exactly as it was.
THEOREM FixtureOrUntouched == Spec => StableOnFixture
<1> DEFINE Fixed(p) ==
        Commits(p) /\ cmd[p].op = "prepare" /\ cmd[p].mode = "stable" =>
            \A i \in DOMAIN cmd[p].adapter.ports :
                LET key(j) == <<cmd[p].at, cmd[p].adapter.ports[j].name>>
                IN \/ catalog'[key(i)] =
                          [port |-> stablePort(cmd[p].adapter.ports[i]),
                           mode |-> "stable"]
                   \/ /\ catalog[key(i)] # NoRow
                      /\ catalog'[key(i)] = catalog[key(i)]
                      /\ \E j \in 1 .. (i - 1) : catalog[key(j)] = NoRow
<1>1. ASSUME Inv, [Next]_vars, NEW p \in Procs PROVE Fixed(p)
  <2>1. SUFFICES ASSUME Commits(p), cmd[p].op = "prepare",
                        cmd[p].mode = "stable",
                        NEW i \in DOMAIN cmd[p].adapter.ports
                 PROVE  \/ RowOf(catalog', cmd[p], i) =
                               [port |-> stablePort(cmd[p].adapter.ports[i]),
                                mode |-> "stable"]
                        \/ /\ RowOf(catalog, cmd[p], i) # NoRow
                           /\ RowOf(catalog', cmd[p], i)
                                  = RowOf(catalog, cmd[p], i)
                           /\ \E j \in 1 .. (i - 1) :
                                 RowOf(catalog, cmd[p], j) = NoRow
    BY DEF RowOf
  <2>2. cmd[p] \in Commands /\ Outcome(cmd[p], catalog, catalog')
    BY <1>1, <2>1, CommitIsPublish, PublishCommits
  <2>3. catalog \in Catalogs
    BY <1>1 DEF Inv, TypeInv, TypeOK
  <2>4. QED
    BY <2>1, <2>2, <2>3, CommandsAreWellFormed, StableGetsFixture
<1>2. Inv /\ [Next]_vars => [\A p \in Procs : Fixed(p)]_vars
  BY <1>1
<1>3. QED
  BY <1>2, Invariance, PTL DEF Spec, StableOnFixture

-----------------------------------------------------------------------------
(* The outputs are those that were prepared *)

\* Does the record of ports say what the rows of the command's checkout say?
Matches(p, claims) ==
    \A s \in Services : claims[s] = work[p][<<cmd[p].at, s>>].port

\* The ports that prepare puts into the manifest are those of the rows that it
\* publishes, declared services and others alike, unless a row stayed that had
\* to move.
LEMMA StatesAreRows ==
    ASSUME NEW c \in Commands, NEW cat \in Catalogs,
           NEW asg \in Resolutions(cat, c), NEW moved,
           ~KeepsDisplaced(c, cat, prepareRows(cat, c, asg, moved)),
           NEW s \in Services
    PROVE  PortStates(c, asg)[s] =
               prepareRows(cat, c, asg, moved)[<<c.at, s>>].port
<1> DEFINE k == <<c.at, s>>
           i == IndexOf(c.adapter, s)
<1>1. k \in Keys /\ k[1] = c.at /\ k[2] = s
  BY CommandsAreWellFormed, CommandType DEF Keys
<1>2. CASE Declares(c.adapter, s)
  <2>1. i \in DOMAIN c.adapter.ports /\ c.adapter.ports[i].name = s
    BY <1>2, CommandsAreWellFormed, CommandType, DeclarationOf
  <2>2. ~LosesMove(cat, c, moved, i)
    BY <2>1, CommandsAreWellFormed, LostMoveShows
  <2>3. RowOf(prepareRows(cat, c, asg, moved), c, i).port = asg[i]
    BY <2>1, <2>2, CommandsAreWellFormed, PublishedPort
  <2>4. QED
    BY <1>2, <2>1, <2>3 DEF PortStates, RowOf
<1>3. CASE ~Declares(c.adapter, s)
  BY <1>1, <1>3 DEF PortStates, prepareRows, WriteRows, pruneUndeclared, NoRow
<1>4. QED
  BY <1>2, <1>3

\* Only a prepare has outputs under way, their ports are those of the rows it
\* has in memory, and a process has neither before it computes them.
ShapeOf(p) ==
    /\ pc[p] \in {"decide", "resolved", "staged"} => cmd[p].op = "prepare"
    /\ pc[p] \notin {"loaded", "resolved", "staged", "written"}
           => states[p] = NoClaims /\ work[p] = EmptyCatalog
    /\ pc[p] \in {"resolved", "staged", "written"} /\ cmd[p].op = "prepare"
           => \/ Matches(p, states[p])
              \/ lock = p /\ KeepsDisplaced(cmd[p], catalog, work[p])

\* p has renamed its outputs into place and not published yet.
Wrote(p, at) == pc[p] = "written" /\ WritesTo(p, at)

\* Outputs that are not a mixture have one writer.  It can put back what was
\* prepared before, and once it has written, what is there is its own.
OutputsAt(at) ==
    /\ damage[at] # "mixed" =>
           \A p, q \in Procs : WritesTo(p, at) /\ WritesTo(q, at) => p = q
    /\ damage[at] = "none" /\ (\A p \in Procs : ~Wrote(p, at))
           => manifest[at] = prepared[at]
    /\ damage[at] = "none" =>
           \A p \in Procs : WritesTo(p, at) => backup[p] = prepared[at]
    /\ damage[at] # "mixed" =>
           \A p \in Procs : Wrote(p, at) => manifest[at] = states[p]

OutputsInv ==
    /\ \A p \in Procs : ShapeOf(p)
    /\ \A at \in Checkouts : OutputsAt(at)

\* A step of p leaves the memory of every other process alone.
OthersStay(p) ==
    \A q \in Procs \ {p} :
        /\ pc'[q] = pc[q] /\ cmd'[q] = cmd[q] /\ work'[q] = work[q]
        /\ states'[q] = states[q] /\ backup'[q] = backup[q]

LEMMA StepsAreLocal ==
    ASSUME TypeOK, NEW p \in Procs, Start(p) \/ Run(p) \/ Crash(p)
    PROVE  OthersStay(p)
<1> USE DEF TypeOK, OthersStay, Goto, Leave, Forgets, Exit
<1>1. CASE Start(p) \/ Crash(p)
  BY <1>1 DEF Start, Crash
<1>2. CASE Inspect(p) \/ InspectFails(p) \/ Decide(p) \/ Acquire(p)
  BY <1>2 DEF Inspect, InspectFails, Decide, Acquire
<1>3. CASE AcquireTimesOut(p) \/ Load(p) \/ LoadFails(p) \/ Close(p)
  BY <1>3 DEF AcquireTimesOut, Load, LoadFails, Close
<1>4. CASE Resolve(p) \/ ResolveFails(p) \/ Reassign(p) \/ ReassignStops(p)
  BY <1>4 DEF Resolve, ResolveFails, Reassign, ReassignStops
<1>5. CASE DropCheckout(p) \/ Stage(p) \/ StageFails(p)
  BY <1>5 DEF DropCheckout, Stage, StageFails
<1>6. CASE Promote(p) \/ PromoteFails(p) \/ Publish(p) \/ PublishFails(p)
  BY <1>6 DEF Promote, PromoteFails, Publish, PublishFails
<1>7. QED
  BY <1>1, <1>2, <1>3, <1>4, <1>5, <1>6 DEF Run

\* What others know of their outputs survives a step of p that publishes only
\* with the lock.
LEMMA OthersKeepShape ==
    ASSUME NEW p \in Procs, NEW q \in Procs \ {p}, OthersStay(p), ShapeOf(q),
           lock = q => lock' = q /\ catalog' = catalog
    PROVE  ShapeOf(q)'
BY DEF OthersStay, ShapeOf, Matches

\* A step of p that leaves the outputs of a checkout and what is recorded of
\* them alone, in which p neither begins nor ends to write them.
LEMMA QuietOutputs ==
    ASSUME NEW p \in Procs, OthersStay(p), NEW at \in Checkouts, OutputsAt(at),
           manifest'[at] = manifest[at], prepared'[at] = prepared[at],
           damage'[at] = damage[at],
           Wrote(p, at)' <=> Wrote(p, at),
           WritesTo(p, at)' => WritesTo(p, at) /\ backup'[p] = backup[p],
           Wrote(p, at)' => states'[p] = states[p]
    PROVE  OutputsAt(at)'
<1>1. \A q \in Procs : Wrote(q, at)' <=> Wrote(q, at)
  BY DEF OthersStay, Wrote, WritesTo
<1>2. \A q \in Procs :
          WritesTo(q, at)' => WritesTo(q, at) /\ backup'[q] = backup[q]
  BY DEF OthersStay, WritesTo
<1>3. \A q \in Procs : Wrote(q, at)' => states'[q] = states[q]
  BY DEF OthersStay
<1>4. QED
  BY <1>1, <1>2, <1>3 DEF OutputsAt

\* A step of a writer concerns no other checkout.
LEMMA ForeignOutputs ==
    ASSUME TypeOK, NEW p \in Procs, OthersStay(p), NEW at \in Checkouts,
           OutputsAt(at), cmd[p].at # at, pc[p] # "idle",
           cmd'[p] = cmd[p] \/ pc'[p] \notin {"staged", "written"},
           manifest'[at] = manifest[at], prepared'[at] = prepared[at],
           damage'[at] = damage[at]
    PROVE  OutputsAt(at)'
BY QuietOutputs DEF Wrote, WritesTo

\* Recording about one checkout says nothing of another.
LEMMA RecordIsLocal ==
    ASSUME TypeOK, NEW b \in Checkouts, NEW what, NEW ports,
           Record(b, what, ports), NEW at \in Checkouts \ {b}
    PROVE  damage'[at] = damage[at] /\ prepared'[at] = prepared[at]
BY DEF TypeOK, Record

\* While a process holds the lock, no step of another takes it away or
\* publishes.
LEMMA OthersKeepLock ==
    ASSUME Inv, NEW p \in Procs, NEW q \in Procs \ {p}, lock = q,
           Start(p) \/ Run(p) \/ Crash(p)
    PROVE  lock' = q /\ catalog' = catalog
<1>1. ~Publish(p) /\ ~Acquire(p)
  BY ProcsAssumption DEF Inv, LockInv, Publish, Acquire
<1>2. QED
  BY <1>1
     DEF Start, Run, Crash, Exit, Inspect, InspectFails, Decide,
         AcquireTimesOut, Load, LoadFails, Resolve, ResolveFails, Reassign,
         ReassignStops, DropCheckout, Stage, StageFails, Promote,
         PromoteFails, PublishFails, Close

LEMMA ShapeInductive ==
    ASSUME Inv, OutputsInv, [Next]_vars
    PROVE  \A q \in Procs : ShapeOf(q)'
<1>1. CASE UNCHANGED vars
  BY <1>1 DEF vars, OutputsInv, ShapeOf, Matches
<1>2. CASE \E p \in Procs : Start(p) \/ Run(p) \/ Crash(p)
  <2>1. PICK p \in Procs : Start(p) \/ Run(p) \/ Crash(p)
    BY <1>2
  <2>2. ASSUME NEW q \in Procs \ {p} PROVE ShapeOf(q)'
    <3>1. ShapeOf(q)
      BY DEF OutputsInv
    <3>2. OthersStay(p)
      BY <2>1, StepsAreLocal DEF Inv, TypeInv
    <3>3. lock = q => lock' = q /\ catalog' = catalog
      BY <2>1, OthersKeepLock
    <3>4. QED
      BY <3>1, <3>2, <3>3, OthersKeepShape
  <2>3. ShapeOf(p)
    BY DEF OutputsInv
  <2>4. ShapeOf(p)'
    <3> USE <2>3 DEF Inv, TypeInv, TypeOK, Goto, ShapeOf
    <3>1. CASE Start(p)
      BY <3>1 DEF Start
    <3>2. CASE Inspect(p) \/ Acquire(p)
      BY <3>2 DEF Inspect, Acquire
    <3>3. CASE Decide(p)
      <4>1. CASE Goto(p, "wait")
        BY <3>3, <4>1 DEF Decide
      <4>2. CASE Goto(p, "resolved")
        <5>1. states'[p] = NoClaims /\ work'[p] = EmptyCatalog /\ cmd' = cmd
          BY <3>3 DEF Decide
        <5>2. cmd[p].at \in Checkouts
          BY <3>3, CommandsAreWellFormed, CommandType DEF Decide, Busy
        <5>3. Matches(p, states[p])'
          BY <5>1, <5>2 DEF Matches, NoClaims, EmptyCatalog, Keys, NoRow
        <5>4. QED
          BY <3>3, <4>2, <5>1, <5>3 DEF Decide
      <4>3. QED
        BY <3>3, <4>1, <4>2 DEF Decide
    <3>4. CASE Load(p) \/ Reassign(p) \/ DropCheckout(p)
      BY <3>4 DEF Load, Reassign, DropCheckout
    <3>5. CASE Resolve(p)
      <4>1. /\ cmd[p] \in Commands /\ work[p] \in Catalogs
            /\ work[p] = catalog /\ lock = p
        BY <3>5 DEF Resolve, Busy, WorkIsCurrent, LockInv
      <4>2. PICK asg \in Resolutions(work[p], cmd[p]),
                 moved \in MovePoints(work[p], cmd[p]) :
               /\ work'   = [work EXCEPT
                               ![p] = prepareRows(work[p], cmd[p], asg, moved)]
               /\ states' = [states EXCEPT ![p] = PortStates(cmd[p], asg)]
        BY <3>5 DEF Resolve
      <4>3. /\ work'[p] = prepareRows(catalog, cmd[p], asg, moved)
            /\ states'[p] = PortStates(cmd[p], asg)
            /\ cmd' = cmd /\ lock' = p /\ catalog' = catalog
            /\ pc' = [pc EXCEPT ![p] = "resolved"] /\ cmd[p].op = "prepare"
        BY <3>5, <4>1, <4>2 DEF Resolve
      <4>4. CASE KeepsDisplaced(cmd[p], catalog, work'[p])
        BY <4>3, <4>4
      <4>5. CASE ~KeepsDisplaced(cmd[p], catalog, work'[p])
        <5>1. Matches(p, states[p])'
          BY <4>1, <4>3, <4>5, StatesAreRows DEF Matches
        <5>2. QED
          BY <4>3, <5>1
      <4>6. QED
        BY <4>4, <4>5
    <3>6. CASE Stage(p)
      BY <3>6 DEF Stage, Matches
    <3>7. CASE Promote(p)
      <4>1. CASE lock = p
        BY <3>7, <4>1 DEF Promote, Matches
      <4>2. CASE lock # p
        BY <3>7, <4>2 DEF Promote, Leave, Forgets
      <4>3. QED
        BY <4>1, <4>2
    <3>8. CASE \/ LoadFails(p) \/ ResolveFails(p) \/ ReassignStops(p)
               \/ StageFails(p) \/ PromoteFails(p) \/ Publish(p)
               \/ PublishFails(p)
      <4>1. Leave(p)
        BY <3>8 DEF LoadFails, ResolveFails, ReassignStops, StageFails,
                    PromoteFails, Publish, PublishFails
      <4>2. QED
        BY <4>1 DEF Leave, Forgets
    <3>9. CASE InspectFails(p) \/ AcquireTimesOut(p) \/ Close(p) \/ Crash(p)
      <4>1. Exit(p)
        BY <3>9 DEF InspectFails, AcquireTimesOut, Close, Crash
      <4>2. QED
        BY <4>1 DEF Exit, Forgets
    <3>10. QED
      BY <2>1, <3>1, <3>2, <3>3, <3>4, <3>5, <3>6, <3>7, <3>8, <3>9 DEF Run
  <2>5. QED
    BY <2>2, <2>4
<1>3. QED
  BY <1>1, <1>2 DEF Next

\* A step that writes no outputs and records nothing.
LEMMA UnrecordedStep ==
    ASSUME OutputsInv, NEW p \in Procs, OthersStay(p),
           UNCHANGED <<manifest, history>>,
           \A at \in Checkouts : /\ Wrote(p, at)' <=> Wrote(p, at)
                                 /\ ~WritesTo(p, at)'
    PROVE  \A at \in Checkouts : OutputsAt(at)'
BY QuietOutputs DEF OutputsInv, history, Wrote

\* Beginning to write: alone, or as one of several.
LEMMA StageKeepsOutputs ==
    ASSUME Inv, OutputsInv, NEW p \in Procs, OthersStay(p), Stage(p)
    PROVE  \A at \in Checkouts : OutputsAt(at)'
<1>0. /\ TypeOK /\ cmd[p].op = "prepare" /\ ~WritesTo(p, cmd[p].at)
      /\ cmd' = cmd /\ manifest' = manifest /\ states' = states
      /\ backup'[p] = manifest[cmd[p].at]
      /\ pc'[p] = "staged" /\ pc[p] = "resolved"
  BY DEF Inv, TypeInv, TypeOK, OutputsInv, ShapeOf, Stage, Goto, WritesTo
<1>1. PICK b \in Checkouts : b = cmd[p].at
  BY <1>0, CommandsAreWellFormed, CommandType DEF Inv, TypeInv, Busy
<1>2. \A at \in Checkouts \ {b} : OutputsAt(at)'
  <2>1. PICK what, ports : Record(b, what, ports)
    BY <1>1 DEF Stage, Begins
  <2>2. QED
    BY <1>0, <1>1, <2>1, RecordIsLocal, ForeignOutputs DEF OutputsInv
<1>3. OutputsAt(b)'
  <2>1. OutputsAt(b)
    BY DEF OutputsInv
  <2>2. \A q \in Procs \ {p} : /\ WritesTo(q, b)' <=> WritesTo(q, b)
                               /\ Wrote(q, b)' <=> Wrote(q, b)
                               /\ backup'[q] = backup[q]
    BY DEF OthersStay, WritesTo, Wrote
  <2>3. ~Wrote(p, b)' /\ ~Wrote(p, b) /\ ~WritesTo(p, b)
    BY <1>0, <1>1 DEF Wrote, WritesTo
  <2>4. CASE \E q \in Procs \ {p} : WritesTo(q, b)
    <3>1. damage'[b] = "mixed"
      BY <1>1, <2>4 DEF Inv, TypeInv, TypeOK, Stage, Begins, Record
    <3>2. QED
      BY <3>1 DEF OutputsAt
  <2>5. CASE \A q \in Procs \ {p} : ~WritesTo(q, b)
    <3>1. damage'[b] = "none" =>
              damage[b] = "none" /\ prepared'[b] = prepared[b]
      BY <1>1, <2>5 DEF Inv, TypeInv, TypeOK, Stage, Begins, Record
    <3>2. \A q \in Procs : ~Wrote(q, b)
      BY <2>3, <2>5 DEF Wrote
    <3>3. damage[b] = "none" => manifest[b] = prepared[b]
      BY <2>1, <3>2 DEF OutputsAt
    <3>4. \A q \in Procs : WritesTo(q, b)' => q = p
      BY <2>2, <2>5
    <3>5. \A q \in Procs : ~Wrote(q, b)'
      BY <2>2, <2>3, <3>2
    <3>6. QED
      BY <1>0, <1>1, <3>1, <3>3, <3>4, <3>5 DEF OutputsAt
  <2>6. QED
    BY <2>4, <2>5
<1>4. QED
  BY <1>2, <1>3

\* Being done: a mixture stays one, and what is not damaged is as prepared.
LEMMA DoneKeepsOutputs ==
    ASSUME Inv, OutputsInv, NEW p \in Procs, OthersStay(p),
           NEW b \in Checkouts, WritesTo(p, b), pc'[p] \in {"idle", "closing"},
           \A at \in Checkouts \ {b} :
               /\ manifest'[at] = manifest[at]
               /\ damage'[at] = damage[at] /\ prepared'[at] = prepared[at],
           damage[b] = "mixed" => damage'[b] = "mixed",
           damage'[b] = "none" => manifest'[b] = prepared'[b]
    PROVE  \A at \in Checkouts : OutputsAt(at)'
<1>1. \A at \in Checkouts \ {b} : OutputsAt(at)'
  BY ForeignOutputs DEF Inv, TypeInv, OutputsInv, WritesTo
<1>2. OutputsAt(b)'
  <2>1. \A q \in Procs \ {p} : WritesTo(q, b)' <=> WritesTo(q, b)
    BY DEF OthersStay, WritesTo
  <2>2. ~WritesTo(p, b)'
    BY DEF WritesTo
  <2>3. OutputsAt(b)
    BY DEF OutputsInv
  <2>4. damage'[b] # "mixed" => \A q \in Procs : ~WritesTo(q, b)'
    BY <2>1, <2>2, <2>3 DEF OutputsAt
  <2>5. damage'[b] # "mixed" => \A q \in Procs : ~Wrote(q, b)'
    BY <2>4 DEF Wrote
  <2>6. QED
    BY <2>4, <2>5 DEF OutputsAt
<1>3. QED
  BY <1>1, <1>2

\* A success says what it published, if the rows it computed match.
LEMMA SuccessIsPrepared ==
    ASSUME Inv, NEW p \in Procs, NEW b \in Checkouts, cmd[p].at = b,
           Succeeds(p),
           damage[b] # "mixed" /\ ~KeepsDisplaced(cmd[p], catalog, work[p])
               => manifest'[b] = states[p] /\ Matches(p, states[p])
    PROVE  /\ \A at \in Checkouts \ {b} :
                  damage'[at] = damage[at] /\ prepared'[at] = prepared[at]
           /\ damage[b] = "mixed" => damage'[b] = "mixed"
           /\ damage'[b] = "none" => manifest'[b] = prepared'[b]
<1> DEFINE ports == [s \in Services |-> work[p][<<b, s>>].port]
           what  == IF damage[b] = "mixed" THEN "mixed"
                    ELSE IF KeepsDisplaced(cmd[p], catalog, work[p])
                    THEN "torn" ELSE "none"
<1>1. Record(b, what, ports)
  BY DEF Succeeds
<1>2. \A at \in Checkouts \ {b} :
          damage'[at] = damage[at] /\ prepared'[at] = prepared[at]
  BY <1>1, RecordIsLocal DEF Inv, TypeInv
<1>3. damage'[b] = what /\ (what = "none" => prepared'[b] = ports)
  BY <1>1 DEF Record, Inv, TypeInv, TypeOK
<1>4. states[p] \in Claims
  BY DEF Inv, TypeInv, TypeOK
<1>5. Matches(p, states[p]) => states[p] = ports
  BY <1>4 DEF Matches, Claims
<1>6. QED
  BY <1>2, <1>3, <1>5

\* A damage is recorded of one checkout, and never for none.
LEMMA TornIsDamage ==
    ASSUME Inv, NEW b \in Checkouts, Torn(b)
    PROVE  /\ \A at \in Checkouts \ {b} :
                  damage'[at] = damage[at] /\ prepared'[at] = prepared[at]
           /\ damage[b] = "mixed" => damage'[b] = "mixed"
           /\ damage'[b] # "none"
<1>1. Record(b, IF damage[b] = "mixed" THEN "mixed" ELSE "torn", NoClaims)
  BY DEF Torn
<1>2. QED
  BY <1>1, RecordIsLocal DEF Inv, TypeInv, TypeOK, Record

LEMMA PromoteKeepsOutputs ==
    ASSUME Inv, OutputsInv, NEW p \in Procs, OthersStay(p), Promote(p)
    PROVE  \A at \in Checkouts : OutputsAt(at)'
<1>0. /\ cmd[p].op = "prepare" /\ cmd[p] \in Commands /\ pc[p] = "staged"
      /\ ShapeOf(p)
  BY DEF Inv, TypeInv, Busy, OutputsInv, ShapeOf, Promote
<1>1. PICK b \in Checkouts : b = cmd[p].at
  BY <1>0, CommandsAreWellFormed, CommandType
<1>2. WritesTo(p, b) /\ OutputsAt(b)
  BY <1>0, <1>1 DEF WritesTo, OutputsInv
<1>3. /\ manifest'[b] = states[p]
      /\ \A at \in Checkouts \ {b} : manifest'[at] = manifest[at]
  BY <1>1 DEF Promote, Inv, TypeInv, TypeOK
<1>4. CASE lock = p
  <2>1. /\ pc'[p] = "written" /\ cmd' = cmd /\ states' = states
        /\ backup' = backup /\ damage' = damage /\ prepared' = prepared
    BY <1>4 DEF Promote, Goto, history, Inv, TypeInv, TypeOK
  <2>2. \A at \in Checkouts \ {b} : OutputsAt(at)'
    BY <1>0, <1>1, <1>3, <2>1, ForeignOutputs
       DEF Inv, TypeInv, OutputsInv
  <2>3. OutputsAt(b)'
    <3>1. \A q \in Procs : /\ WritesTo(q, b)' <=> WritesTo(q, b)
                           /\ q # p => (Wrote(q, b)' <=> Wrote(q, b))
      BY <1>1, <1>2, <2>1 DEF OthersStay, WritesTo, Wrote
    <3>2. Wrote(p, b)'
      BY <1>2, <2>1, <3>1 DEF Wrote
    <3>3. \A q \in Procs : Wrote(q, b)' => WritesTo(q, b)
      BY <3>1 DEF Wrote
    <3>4. QED
      BY <1>2, <1>3, <2>1, <3>1, <3>2, <3>3 DEF OutputsAt
  <2>4. QED
    BY <2>2, <2>3
<1>5. CASE lock # p
  <2>1. pc'[p] = "closing" /\ Succeeds(p)
    BY <1>5 DEF Promote, Leave, Goto, Inv, TypeInv, TypeOK
  <2>2. Matches(p, states[p])
    BY <1>0, <1>5 DEF ShapeOf
  <2>3. QED
    BY <1>1, <1>2, <1>3, <2>1, <2>2, SuccessIsPrepared, DoneKeepsOutputs
<1>6. QED
  BY <1>4, <1>5

LEMMA PromoteFailsKeepsOutputs ==
    ASSUME Inv, OutputsInv, NEW p \in Procs, OthersStay(p), PromoteFails(p)
    PROVE  \A at \in Checkouts : OutputsAt(at)'
<1>0. /\ cmd[p].op = "prepare" /\ cmd[p] \in Commands /\ pc[p] = "staged"
      /\ pc'[p] = "closing"
  BY DEF Inv, TypeInv, TypeOK, Busy, OutputsInv, ShapeOf, PromoteFails, Leave,
         Goto
<1>1. PICK b \in Checkouts : b = cmd[p].at
  BY <1>0, CommandsAreWellFormed, CommandType
<1>2. WritesTo(p, b) /\ OutputsAt(b) /\ ~Wrote(p, b)
  BY <1>0, <1>1 DEF WritesTo, OutputsInv, Wrote
<1>3. \A at \in Checkouts \ {b} : manifest'[at] = manifest[at]
  BY <1>1 DEF PromoteFails, Restored, Inv, TypeInv, TypeOK
<1>4. damage[b] = "none" =>
          backup[p] = prepared[b] /\ manifest[b] = prepared[b]
  <2>1. damage[b] = "none" => \A q \in Procs : ~Wrote(q, b)
    BY <1>2 DEF OutputsAt, Wrote
  <2>2. QED
    BY <1>2, <2>1 DEF OutputsAt
<1>5. CASE Restored(p)
  <2>1. manifest'[b] = backup[p] /\ damage' = damage /\ prepared' = prepared
    BY <1>1, <1>5 DEF Restored, history, Inv, TypeInv, TypeOK
  <2>2. QED
    BY <1>0, <1>2, <1>3, <1>4, <2>1, DoneKeepsOutputs
<1>6. CASE UNCHANGED <<manifest, history>>
  BY <1>0, <1>2, <1>3, <1>4, <1>6, DoneKeepsOutputs DEF history
<1>7. CASE Torn(b)
  BY <1>0, <1>2, <1>3, <1>7, TornIsDamage, DoneKeepsOutputs
<1>8. QED
  BY <1>1, <1>5, <1>6, <1>7 DEF PromoteFails

LEMMA PublishKeepsOutputs ==
    ASSUME Inv, OutputsInv, NEW p \in Procs, OthersStay(p),
           cmd[p].op = "prepare", Publish(p)
    PROVE  \A at \in Checkouts : OutputsAt(at)'
<1>0. /\ cmd[p] \in Commands /\ pc[p] = "written" /\ pc'[p] = "closing"
      /\ manifest' = manifest /\ Succeeds(p) /\ ShapeOf(p)
  BY DEF Inv, TypeInv, TypeOK, Busy, OutputsInv, Publish, Leave, Goto
<1>1. PICK b \in Checkouts : b = cmd[p].at
  BY <1>0, CommandsAreWellFormed, CommandType
<1>2. WritesTo(p, b) /\ OutputsAt(b) /\ Wrote(p, b)
  BY <1>0, <1>1 DEF WritesTo, OutputsInv, Wrote
<1>3. damage[b] # "mixed" => manifest[b] = states[p]
  BY <1>2 DEF OutputsAt
<1>4. ~KeepsDisplaced(cmd[p], catalog, work[p]) => Matches(p, states[p])
  BY <1>0 DEF ShapeOf
<1>5. QED
  BY <1>0, <1>1, <1>2, <1>3, <1>4, SuccessIsPrepared, DoneKeepsOutputs

LEMMA PublishFailsKeepsOutputs ==
    ASSUME Inv, OutputsInv, NEW p \in Procs, OthersStay(p),
           cmd[p].op = "prepare", PublishFails(p)
    PROVE  \A at \in Checkouts : OutputsAt(at)'
<1>0. cmd[p] \in Commands /\ pc[p] = "written" /\ pc'[p] = "closing"
  BY DEF Inv, TypeInv, TypeOK, Busy, PublishFails, Leave, Goto
<1>1. PICK b \in Checkouts : b = cmd[p].at
  BY <1>0, CommandsAreWellFormed, CommandType
<1>2. WritesTo(p, b) /\ OutputsAt(b)
  BY <1>0, <1>1 DEF WritesTo, OutputsInv
<1>3. CASE Restored(p)
  <2>1. /\ manifest'[b] = backup[p] /\ damage' = damage
        /\ prepared' = prepared
        /\ \A at \in Checkouts \ {b} : manifest'[at] = manifest[at]
    BY <1>1, <1>3 DEF Restored, history, Inv, TypeInv, TypeOK
  <2>2. damage[b] = "none" => backup[p] = prepared[b]
    BY <1>2 DEF OutputsAt
  <2>3. QED
    BY <1>0, <1>2, <2>1, <2>2, DoneKeepsOutputs
<1>4. CASE Torn(b) /\ UNCHANGED manifest
  BY <1>0, <1>2, <1>4, TornIsDamage, DoneKeepsOutputs
<1>5. QED
  BY <1>1, <1>3, <1>4 DEF PublishFails

LEMMA CrashKeepsOutputs ==
    ASSUME Inv, OutputsInv, NEW p \in Procs, OthersStay(p), Crash(p)
    PROVE  \A at \in Checkouts : OutputsAt(at)'
<1>0. pc'[p] = "idle" /\ manifest' = manifest
  BY DEF Crash, Exit, Goto, Inv, TypeInv, TypeOK
<1>1. CASE pc[p] = "written" /\ cmd[p].op = "prepare"
  <2>1. PICK b \in Checkouts : b = cmd[p].at
    BY <1>1, CommandsAreWellFormed, CommandType DEF Inv, TypeInv, Busy
  <2>2. WritesTo(p, b) /\ Torn(b)
    BY <1>1, <2>1 DEF WritesTo, Crash
  <2>3. QED
    BY <1>0, <2>2, TornIsDamage, DoneKeepsOutputs
<1>2. CASE ~(pc[p] = "written" /\ cmd[p].op = "prepare")
  BY <1>0, <1>2, UnrecordedStep DEF Crash, Wrote, WritesTo
<1>3. QED
  BY <1>1, <1>2

LEMMA OutputsInductive ==
    ASSUME Inv, OutputsInv, [Next]_vars
    PROVE  OutputsInv'
<1>1. \A p \in Procs : ShapeOf(p)'
  BY ShapeInductive
<1>2. \A at \in Checkouts : OutputsAt(at)'
  <2>1. CASE UNCHANGED vars
    BY <2>1
       DEF vars, history, OutputsInv, OutputsAt, WritesTo, Wrote
  <2>2. CASE \E p \in Procs : Start(p) \/ Run(p) \/ Crash(p)
    <3>1. PICK p \in Procs : Start(p) \/ Run(p) \/ Crash(p)
      BY <2>2
    <3>2. OthersStay(p) /\ pc \in [Procs -> Steps]
      BY <3>1, StepsAreLocal DEF Inv, TypeInv, TypeOK
    <3>3. CASE Start(p)
      BY <3>2, <3>3, UnrecordedStep DEF Start, Goto, Wrote, WritesTo
    <3>4. CASE Stage(p) \/ Promote(p) \/ PromoteFails(p) \/ Crash(p)
      BY <3>2, <3>4, StageKeepsOutputs, PromoteKeepsOutputs,
         PromoteFailsKeepsOutputs, CrashKeepsOutputs
    <3>5. CASE Publish(p) \/ PublishFails(p)
      <4>1. CASE cmd[p].op = "prepare"
        BY <3>2, <3>5, <4>1, PublishKeepsOutputs, PublishFailsKeepsOutputs
      <4>2. CASE cmd[p].op # "prepare"
        BY <3>2, <3>5, <4>2, UnrecordedStep
           DEF Publish, PublishFails, Leave, Goto, Wrote, WritesTo
      <4>3. QED
        BY <4>1, <4>2
    <3>6. CASE Reassign(p) \/ DropCheckout(p)
      BY <3>2, <3>6, UnrecordedStep
         DEF Reassign, DropCheckout, Goto, Wrote, WritesTo
    <3>7. CASE Inspect(p) \/ Decide(p) \/ Acquire(p) \/ Load(p) \/ Resolve(p)
      BY <3>2, <3>7, UnrecordedStep
         DEF Inspect, Decide, Acquire, Load, Resolve, Goto, Wrote, WritesTo
    <3>8. CASE \/ LoadFails(p) \/ ResolveFails(p) \/ ReassignStops(p)
               \/ StageFails(p)
      BY <3>2, <3>8, UnrecordedStep
         DEF LoadFails, ResolveFails, ReassignStops, StageFails, Leave, Goto,
             Wrote, WritesTo
    <3>9. CASE InspectFails(p) \/ AcquireTimesOut(p) \/ Close(p)
      BY <3>2, <3>9, UnrecordedStep
         DEF InspectFails, AcquireTimesOut, Close, Exit, Goto, Wrote, WritesTo
    <3>10. QED
      BY <3>1, <3>3, <3>4, <3>5, <3>6, <3>7, <3>8, <3>9 DEF Run
  <2>3. QED
    BY <2>1, <2>2 DEF Next
<1>3. QED
  BY <1>1, <1>2 DEF OutputsInv

\* The outputs on disk claim the very ports that the last successful prepare of
\* the checkout published, whatever failed, raced or was killed since, with the
\* lock and without it, up to the damage that the history variables record.
THEOREM OutputsStayPrepared == Spec => []OutputsArePrepared
<1>1. Init => OutputsInv
  BY DEF Init, OutputsInv, ShapeOf, OutputsAt, WritesTo
<1>2. Inv /\ OutputsInv /\ [Next]_vars => OutputsInv'
  BY OutputsInductive
<1>3. OutputsInv => OutputsArePrepared
  BY DEF OutputsInv, OutputsAt, OutputsArePrepared, Wrote
<1>4. QED
  BY <1>1, <1>2, <1>3, Invariance, PTL DEF Spec
=============================================================================
