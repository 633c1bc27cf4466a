---------------------------- MODULE LaneReassign ----------------------------
(***************************************************************************)
(* `reassign`, with and without --lane, beside prepares of checkouts whose *)
(* branch, and with it the adapter, changes.                               *)
(*                                                                         *)
(* A lane is a name and a mode.  Both follow from the branch and the       *)
(* adapter, unless --lane or --mode says otherwise, which every command    *)
(* but reassign accepts.                                                   *)
(*                                                                         *)
(* --lane reads the catalog without the lock, finds the checkout of that   *)
(* lane (ResolveLane) and takes lane and mode from its first row; the row  *)
(* is found again, by checkout and service, once the lock is held.  The    *)
(* ports come from the adapter of the caller, whosever row it is.          *)
(*                                                                         *)
(* Paths that are one directory once symlinks are followed are one         *)
(* checkout here (sameRepoPath).  Rows keep their lane in `lanes`.  What   *)
(* happens under the lock is one step, which HostCatalog justifies.        *)
(***************************************************************************)
EXTENDS PortAllocation, FiniteSets

CONSTANTS
    Procs,          \* devlane processes
    App,            \* per checkout: its app
    Trees,          \* per checkout: what it may have checked out
    ServiceOrder,   \* every service once, in the order of their names
    Branches,       \* names of branches
    Detached,       \* what stands for the branch of a detached HEAD
    Names,          \* names of lanes
    BaseName,       \* per checkout: the name of its directory
    Options,        \* per checkout: the values of --mode and --lane typed there
    NoLane,         \* no --lane; the lane of no row
    MaxSwitches     \* bound: switches of branches

Lanes == Names \cup {NoLane}

\* A branch and, of the adapter file on it, the ports and what it says of
\* stable lanes.
TreeRecords == [branch         : Branches,
                config         : AdapterConfigs,
                stableBranches : SUBSET Branches,
                stableName     : Names]

OptionRecords == [mode : Modes \cup {"none"}, lane : Lanes]

ASSUME LanesAssumption ==
    /\ Checkouts # {} /\ IsFiniteSet(Checkouts) /\ Services # {}
    /\ DOMAIN App = Checkouts
    /\ Trees \in [Checkouts -> SUBSET TreeRecords]
    /\ ServiceOrder \in Seq(Services)
    /\ \A s \in Services : \E i \in DOMAIN ServiceOrder : ServiceOrder[i] = s
    /\ Branches \ {Detached} \subseteq Names
    /\ BaseName \in [Checkouts -> Names]
    /\ Options \in [Checkouts -> SUBSET OptionRecords]
    /\ NoLane \notin Names
    /\ MaxSwitches \in Nat

VARIABLES
    catalog,    \* the published rows
    lanes,      \* the lane of each row
    tree,       \* per checkout: its branch and adapter
    switches,   \* how often one of them changed
    pc,         \* per process: what it is doing
    cmd,        \* per process: what it will do under the lock
    label,      \* per process: the lane it will write
    caller,     \* per process: the checkout it was typed in
    requested,  \* per process: --lane
    carried,    \* history: checkouts that had the lane when it was looked up
    derived     \* history: per checkout, names and modes derived together

store == <<catalog, lanes>>
mind == <<pc, cmd, label, caller, requested, carried>>
vars == <<store, tree, switches, mind, derived>>

\* --mode, or what the adapter says of the branch.
deriveMode(t, options) ==
    IF options.mode # "none" THEN options.mode
    ELSE IF t.branch \in t.stableBranches THEN "stable" ELSE "dev"

\* --lane, or the name that the adapter, the branch or the directory gives.
deriveLaneName(at, t, options) ==
    IF options.lane # NoLane THEN options.lane
    ELSE IF deriveMode(t, options) = "stable" THEN t.stableName
    ELSE IF t.branch # Detached THEN t.branch ELSE BaseName[at]

NoOptions == [mode |-> "none", lane |-> NoLane]

\* What a command typed at `at` goes by.
ModeAt(at, options) == deriveMode(tree[at], options)
NameAt(at, options) == deriveLaneName(at, tree[at], options)

AnyCommand == [op |-> "cleanup", at |-> CHOOSE at \in Checkouts : TRUE,
               mode |-> "dev", adapter |-> [ports |-> <<>>, reserved |-> {}],
               service |-> ServiceOrder[1]]

TypeOK ==
    /\ catalog   \in Catalogs
    /\ lanes     \in [Keys -> Lanes]
    /\ tree      \in [Checkouts -> TreeRecords]
    /\ \A at \in Checkouts : tree[at] \in Trees[at]
    /\ switches  \in 0 .. MaxSwitches
    /\ pc        \in [Procs -> {"idle", "resolved"}]
    /\ cmd       \in [Procs -> CommandRecords]
    /\ label     \in [Procs -> Lanes]
    /\ caller    \in [Procs -> Checkouts]
    /\ requested \in [Procs -> Lanes]
    /\ carried   \in [Procs -> SUBSET Checkouts]
    /\ derived   \in SUBSET (Checkouts \X Lanes \X Modes)

Init ==
    /\ catalog   = EmptyCatalog
    /\ lanes     = [k \in Keys |-> NoLane]
    /\ tree      \in [Checkouts -> UNION {Trees[at] : at \in Checkouts}]
    /\ \A at \in Checkouts : tree[at] \in Trees[at]
    /\ switches  = 0
    /\ pc        = [p \in Procs |-> "idle"]
    /\ cmd       = [p \in Procs |-> AnyCommand]
    /\ label     = [p \in Procs |-> NoLane]
    /\ caller    = [p \in Procs |-> AnyCommand.at]
    /\ requested = [p \in Procs |-> NoLane]
    /\ carried   = [p \in Procs |-> {}]
    /\ derived   = {}

-----------------------------------------------------------------------------
(* ResolveLane, on the rows `cat` and their lanes `of` *)

\* Seeded fault: rows of every app are matched.
MatchingRowsOfAnyApp(cat, of, at, lane) ==
    {k \in Keys : cat[k] # NoRow /\ of[k] = lane}

\* groupMatchingRowsByRepoPath: the rows of the app that carry the lane.
MatchingRows(cat, of, at, lane) ==
    {k \in Keys : App[k[1]] = App[at] /\ cat[k] # NoRow /\ of[k] = lane}

\* One checkout, or the caller's own among several; no answer otherwise.
Winners(cat, of, at, lane) ==
    LET matching == {k[1] : k \in MatchingRows(cat, of, at, lane)}
    IN IF Cardinality(matching) = 1 THEN matching ELSE matching \cap {at}

\* Allocations[0]: the rows of the match are sorted by service.
Representative(cat, of, winner, lane) ==
    LET service(i) == <<winner, ServiceOrder[i]>>
        matches(i) == service(i) \in MatchingRows(cat, of, winner, lane)
    IN service(CHOOSE i \in DOMAIN ServiceOrder :
                   matches(i) /\ \A j \in 1 .. (i - 1) : ~matches(j))

-----------------------------------------------------------------------------

\* The adapter is the one of the checkout it was typed in.
Command(op, at, mode, typedIn, service) ==
    [op |-> op, at |-> at, mode |-> mode, adapter |-> tree[typedIn].config,
     service |-> service]

Exit(p) ==
    /\ pc'        = [pc EXCEPT ![p] = "idle"]
    /\ cmd'       = [cmd EXCEPT ![p] = AnyCommand]
    /\ label'     = [label EXCEPT ![p] = NoLane]
    /\ caller'    = [caller EXCEPT ![p] = AnyCommand.at]
    /\ requested' = [requested EXCEPT ![p] = NoLane]
    /\ carried'   = [carried EXCEPT ![p] = {}]

Resolved(p, c, lane, at, asked, matching) ==
    /\ pc[p] = "idle"
    /\ pc'        = [pc EXCEPT ![p] = "resolved"]
    /\ cmd'       = [cmd EXCEPT ![p] = c]
    /\ label'     = [label EXCEPT ![p] = lane]
    /\ caller'    = [caller EXCEPT ![p] = at]
    /\ requested' = [requested EXCEPT ![p] = asked]
    /\ carried'   = [carried EXCEPT ![p] = matching]
    /\ UNCHANGED <<store, tree, switches>>

Derives(at, options) ==
    derived' = derived \cup {<<at, NameAt(at, options), ModeAt(at, options)>>}

\* load: the lane of a prepare is derived before it waits for the lock.
StartPrepare(p) ==
    \E at \in Checkouts : \E options \in Options[at] :
        /\ Resolved(p, Command("prepare", at, ModeAt(at, options), at,
                               ServiceOrder[1]),
                    NameAt(at, options), at, NoLane, {})
        /\ Derives(at, options)

\* resolveReassignTarget without --lane: the caller's own lane.
StartReassign(p) ==
    \E at \in Checkouts, service \in Services :
        /\ Declares(tree[at].config, service)
        /\ Resolved(p, Command("reassign", at, ModeAt(at, NoOptions), at,
                               service),
                    NameAt(at, NoOptions), at, NoLane, {})
        /\ Derives(at, NoOptions)

\* Seeded fault: the mode of the lane is not taken over.
LaneTargetModeless(cat, of, at, service, lane, winner) ==
    [command |-> Command("reassign", winner, "dev", at, service),
     lane    |-> of[Representative(cat, of, winner, lane)]]

\* What is taken from the representative.
LaneTarget(cat, of, at, service, lane, winner) ==
    LET row == Representative(cat, of, winner, lane)
    IN [command |-> Command("reassign", winner, cat[row].mode, at, service),
        lane    |-> of[row]]

\* resolveReassignTarget with --lane.
StartReassignLane(p) ==
    \E at \in Checkouts, service \in Services, lane \in Names :
        /\ Declares(tree[at].config, service)
        /\ \E winner \in Winners(catalog, lanes, at, lane) :
              LET target ==
                      LaneTarget(catalog, lanes, at, service, lane, winner)
                  carriers ==
                      {other \in Checkouts :
                          /\ App[other] = App[at]
                          /\ \E s \in Services : lanes[<<other, s>>] = lane}
              IN Resolved(p, target.command, target.lane, at, lane, carriers)
        /\ UNCHANGED derived

\* A row that prepare makes or refreshes carries its lane; one whose write is
\* lost keeps the lane it had.
PreparedLanes(c, lane, cat, of, moved) ==
    [k \in Keys |->
        IF k[1] # c.at THEN of[k]
        ELSE IF ~Declares(c.adapter, k[2]) THEN NoLane
        ELSE IF LostWrite(cat, c, moved, IndexOf(c.adapter, k[2])) THEN of[k]
        ELSE lane]

\* What a prepare with these ports publishes, if append moves the rows at
\* `moved`.
PublishRows(p, asg, moved) ==
    /\ pc[p] = "resolved"
    /\ cmd[p].op = "prepare"
    /\ catalog' = prepareRows(catalog, cmd[p], asg, moved)
    /\ lanes' = PreparedLanes(cmd[p], label[p], catalog, lanes, moved)
    /\ Exit(p)
    /\ UNCHANGED <<tree, switches, derived>>

PublishPrepare(p) ==
    \E asg \in Resolutions(catalog, cmd[p]),
       moved \in MovePoints(catalog, cmd[p]) : PublishRows(p, asg, moved)

\* Mutate with ReassignService; any row of the checkout may be the one.
PublishReassign(p) ==
    /\ pc[p] = "resolved"
    /\ cmd[p].op = "reassign"
    /\ ReassignOutcome(cmd[p], catalog, catalog')
    /\ lanes' = [lanes EXCEPT ![<<cmd[p].at, cmd[p].service>>] = label[p]]
    /\ Exit(p)
    /\ UNCHANGED <<tree, switches, derived>>

\* No row, no port, or a port that may stay because it can be bound.
Stop(p) ==
    /\ pc[p] = "resolved"
    /\ Exit(p)
    /\ UNCHANGED <<store, tree, switches, derived>>

\* A user switches the branch or edits the adapter.
Switch(at) ==
    /\ switches < MaxSwitches
    /\ switches' = switches + 1
    /\ \E t \in Trees[at] \ {tree[at]} : tree' = [tree EXCEPT ![at] = t]
    /\ UNCHANGED <<store, mind, derived>>

Next ==
    \/ \E p \in Procs :
          \/ StartPrepare(p) \/ StartReassign(p) \/ StartReassignLane(p)
          \/ PublishPrepare(p) \/ PublishReassign(p) \/ Stop(p)
    \/ \E at \in Checkouts : Switch(at)

Spec == Init /\ [][Next]_vars

-----------------------------------------------------------------------------
(* Properties *)

Changed == {k \in Keys : catalog'[k] # catalog[k] \/ lanes'[k] # lanes[k]}

\* No port is given twice, whosever adapter and whichever lane a reassign
\* goes by (ReassignService: rows of every app are held).  With three services
\* a prepare whose write is lost breaks it (ResolveLoop!RowsKeepPortsApart).
PortsAreUnique == UniquePorts(catalog)

\* The lane and the mode of a row were derived together, in the checkout of the
\* row, although a reassign takes them from another row and from an earlier
\* moment, and a prepare may leave some rows as they are
\* (resolveReassignTarget, resolve).
LaneFitsMode ==
    \A k \in Keys :
        catalog[k] # NoRow => <<k[1], lanes[k], catalog[k].mode>> \in derived

\* reassign changes one row, of the app it was typed in; a row of another
\* checkout only if that was the one checkout of the app with the lane when it
\* was looked up (ResolveLane, the tiebreak and the ambiguity).
LaneScoped ==
    [][\A p \in Procs :
          PublishReassign(p) =>
              \A k \in Changed :
                  /\ k[2] = cmd[p].service
                  /\ App[k[1]] = App[caller[p]]
                  /\ k[1] = caller[p] \/ carried[p] = {k[1]}]_vars

\* docs/40-cli-contract.md:88, "`--lane <name>` selects the target row by lane
\* name within the current adapter's `app`": the row that changes had it.
SelectsByLane ==
    [][\A p \in Procs :
          PublishReassign(p) /\ requested[p] # NoLane =>
              \A k \in Changed : lanes[k] = requested[p]]_vars
=============================================================================
