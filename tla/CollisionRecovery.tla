-------------------------- MODULE CollisionRecovery --------------------------
(***************************************************************************)
(* What a stable lane says when it cannot have a fixture (collision.go),   *)
(* and what comes of it when the operator does what it says.               *)
(*                                                                         *)
(* The operator prepares one checkout as stable.  A refusal names a cause  *)
(* and, where a dev lane holds the fixture, a recipe: free the port,       *)
(* reassign that lane with --force, prepare again.  Meanwhile other lanes  *)
(* are prepared and processes listen.  Commands are single steps, which    *)
(* HostCatalog justifies; ports are tried in the order of devCandidates,   *)
(* because the outcome of a recipe depends on it.                          *)
(***************************************************************************)
EXTENDS PortAllocation

CONSTANTS
    Home,           \* the checkout the operator prepares as stable
    HomeAdapters,   \* adapters it may have
    DevAdapter,     \* the adapter of the other checkouts
    NoKey,          \* nobody holds the fixture
    MaxDisturbances \* bound: prepares of others, and listeners that change

ASSUME HomeAssumption ==
    /\ Home \in Checkouts
    /\ Services # {} /\ Ports # {}
    /\ HomeAdapters \subseteq AdapterConfigs
    /\ DevAdapter \in AdapterConfigs
    /\ NoKey \notin Keys
    /\ MaxDisturbances \in Nat

VARIABLES
    catalog,        \* the published catalog
    bound,          \* ports somebody listens on
    adapter,        \* the adapter of Home
    stage,          \* where the operator is
    report,         \* what the last refusal said
    disturbances,   \* how often somebody else did something
    disturbed       \* history: did somebody since the last refusal?

vars == <<catalog, bound, adapter, stage, report, disturbances, disturbed>>

Causes == {"reserved", "untracked", "stableHeld", "offlineDev", "boundDev",
           "unbindable", "none"}

Reports == [cause : Causes, service : Services, fixture : Ports,
            owner : Keys \cup {NoKey}]

NoReport == [cause |-> "none", service |-> CHOOSE s \in Services : TRUE,
             fixture |-> CHOOSE p \in Ports : TRUE, owner |-> NoKey]

HasRecipe(r) == r.cause \in {"offlineDev", "boundDev"}

TypeOK ==
    /\ catalog      \in Catalogs
    /\ bound        \subseteq Ports
    /\ adapter      \in HomeAdapters
    /\ stage        \in {"idle", "refused", "followed", "claimed"}
    /\ report       \in Reports
    /\ disturbances \in 0 .. MaxDisturbances
    /\ disturbed    \in BOOLEAN

Init ==
    /\ catalog = EmptyCatalog
    /\ bound = {}
    /\ adapter \in HomeAdapters
    /\ stage = "idle"
    /\ report = NoReport
    /\ disturbances = 0
    /\ disturbed = FALSE

-----------------------------------------------------------------------------
(* Choosing *)

Command(op, at, mode, service) ==
    [op |-> op, at |-> at, mode |-> mode, service |-> service,
     adapter |-> IF at = Home THEN adapter ELSE DevAdapter]

\* devCandidates tries the default, then the hinted pool, then the range.
TriedBefore(cfg, p, q) ==
    LET hinted(port) ==
            poolHintWithinRange(cfg.hint) /\ port \in cfg.hint[1] .. cfg.hint[2]
        round(port) == IF port = cfg.default THEN 0
                       ELSE IF hinted(port) THEN 1 ELSE 2
    IN round(p) < round(q) \/ (round(p) = round(q) /\ p < q)

IsFirst(cfg, free, port) ==
    port \in free /\ \A other \in free \ {port} : TriedBefore(cfg, port, other)

\* The assignment of a dev lane, if there is one.
IsFirstFit(cat, c, asg) ==
    /\ asg \in Resolutions(cat, c)
    /\ \A i \in DOMAIN asg :
          LET cfg == c.adapter.ports[i]
              old == pruneUndeclared(cat, c)
          IN ~Kept(old, c, i) =>
                 LET free == CandidatePorts(cfg)
                                 \ (Taken(old, c, asg, i) \cup bound)
                 IN IsFirst(cfg, free, asg[i])

Fixture(c, i) == stablePort(c.adapter.ports[i])

\* What a stable lane is given: its fixtures or nothing.
Fixtures(c) == [i \in DOMAIN c.adapter.ports |-> Fixture(c, i)]

-----------------------------------------------------------------------------
(* The report *)

\* Seeded fault: ports claimed earlier in the same pass are not looked up.
collisionHeldOwner(cat, c, i) ==
    LET port    == Fixture(c, i)
        holders == {k \in Keys : cat[k].port = port}
    IN IF port \in HeldAt(cat, c, i) THEN CHOOSE k \in holders : TRUE ELSE NoKey

\* collisionOwner: a persisted row before one claimed earlier in this pass.
collisionOwner(cat, c, i) ==
    LET port     == Fixture(c, i)
        holders  == {k \in Keys : cat[k].port = port}
        earlier  == {<<c.at, c.adapter.ports[j].name>> :
                        j \in {n \in 1 .. (i - 1) : Fixture(c, n) = port}}
    IN IF port \in HeldAt(cat, c, i) THEN CHOOSE k \in holders : TRUE
       ELSE IF earlier # {} THEN CHOOSE k \in earlier : TRUE
       ELSE NoKey

\* The mode of the owner: a row claimed in this pass is a row of this lane.
OwnerMode(cat, c, i) ==
    IF Fixture(c, i) \in HeldAt(cat, c, i)
    THEN cat[collisionOwner(cat, c, i)].mode ELSE c.mode

\* Seeded fault: the owner is looked at before the reserved list.
classifyOwnerFirst(cat, c, i) ==
    IF collisionOwner(cat, c, i) = NoKey
    THEN IF Fixture(c, i) \in reservedPorts(c.adapter)
         THEN "reserved" ELSE "untracked"
    ELSE IF OwnerMode(cat, c, i) = "stable" THEN "stableHeld"
    ELSE IF Fixture(c, i) \notin bound THEN "offlineDev" ELSE "boundDev"

classifyStableCollision(cat, c, i) ==
    IF Fixture(c, i) \in reservedPorts(c.adapter) THEN "reserved"
    ELSE IF collisionOwner(cat, c, i) = NoKey THEN "untracked"
    ELSE IF OwnerMode(cat, c, i) = "stable" THEN "stableHeld"
    ELSE IF Fixture(c, i) \notin bound THEN "offlineDev" ELSE "boundDev"

\* chooseStablePort: a port that only the system refuses gets its own message.
ReportOf(cat, c, i) ==
    LET taken == Fixture(c, i) \in Taken(cat, c, Fixtures(c), i)
    IN [cause   |-> IF taken THEN classifyStableCollision(cat, c, i)
                    ELSE "unbindable",
        service |-> c.adapter.ports[i].name,
        fixture |-> Fixture(c, i),
        owner   |-> IF taken THEN collisionOwner(cat, c, i) ELSE NoKey]

\* The services whose fixture cannot be had; the first one is reported.
BlockedIn(cat, c, unbindable) ==
    {i \in DOMAIN c.adapter.ports :
        /\ ~Kept(cat, c, i)
        /\ Fixture(c, i) \in Taken(cat, c, Fixtures(c), i) \cup unbindable}

HomeCommand == Command("prepare", Home, "stable", NoReport.service)

Blocked == BlockedIn(pruneUndeclared(catalog, HomeCommand), HomeCommand, bound)

-----------------------------------------------------------------------------
(* The operator *)

HomePrepares ==
    /\ stage # "refused"
    /\ Blocked = {}
    /\ \E moved \in MovePoints(catalog, HomeCommand) :
          catalog' = prepareRows(catalog, HomeCommand, Fixtures(HomeCommand),
                                 moved)
    /\ stage' = "claimed"
    /\ report' = NoReport
    /\ UNCHANGED <<bound, adapter, disturbances, disturbed>>

HomeRefused ==
    /\ stage # "refused"
    /\ \E i \in Blocked :
          /\ \A j \in Blocked : i <= j
          /\ report' = ReportOf(pruneUndeclared(catalog, HomeCommand),
                                HomeCommand, i)
    /\ stage' = "refused"
    /\ disturbed' = FALSE
    /\ UNCHANGED <<catalog, bound, adapter, disturbances>>

\* "release port": whoever listens there is stopped.
FreePort ==
    /\ stage = "refused"
    /\ report.cause \in {"boundDev", "unbindable"}
    /\ report.cause = "boundDev" => report.fixture \in bound
    /\ bound' = bound \ {report.fixture}
    /\ stage' = IF report.cause = "unbindable" THEN "followed" ELSE stage
    /\ UNCHANGED <<catalog, adapter, report, disturbances, disturbed>>

RecipeCommand ==
    Command("reassign", report.owner[1], catalog[report.owner].mode,
            report.owner[2])

\* Seeded fault: the row may be given the port it should leave.
RecipePortsOrStay ==
    ReassignPortsOrStay(catalog, RecipeCommand) \ bound

RecipePorts == ReassignPorts(catalog, RecipeCommand) \ bound

\* `devlane reassign --lane <owner> --force`, in the owner's checkout.
FollowRecipe ==
    /\ stage = "refused"
    /\ HasRecipe(report)
    /\ report.cause = "boundDev" => report.fixture \notin bound
    /\ catalog[report.owner] # NoRow
    /\ Declares(RecipeCommand.adapter, report.owner[2])
    /\ \E port \in RecipePorts :
          /\ catalog[report.owner].mode = "dev" =>
                 IsFirst(RecipeCommand.adapter.ports[
                             IndexOf(RecipeCommand.adapter, report.owner[2])],
                         RecipePorts, port)
          /\ catalog' = reassignRow(catalog, RecipeCommand, port)
    /\ stage' = "followed"
    /\ UNCHANGED <<bound, adapter, report, disturbances, disturbed>>

\* The row has gone, or is not on the fixture any more, so that there is
\* nothing left to follow.
RecipeIsMoot ==
    /\ stage = "refused"
    /\ HasRecipe(report)
    /\ catalog[report.owner].port # report.fixture
    /\ stage' = "followed"
    /\ UNCHANGED <<catalog, bound, adapter, report, disturbances, disturbed>>

\* There is nothing to follow, or nowhere to move the row: the operator edits
\* the adapter, or tries again some day.
HumanDecides ==
    /\ stage = "refused"
    /\ \/ ~HasRecipe(report) /\ report.cause # "unbindable"
       \/ HasRecipe(report) /\ RecipePorts = {}
    /\ adapter' \in HomeAdapters
    /\ stage' = "idle"
    /\ report' = NoReport
    /\ UNCHANGED <<catalog, bound, disturbances, disturbed>>

-----------------------------------------------------------------------------
(* Everybody else *)

Disturb ==
    /\ disturbances < MaxDisturbances
    /\ disturbances' = disturbances + 1
    /\ disturbed' = TRUE
    /\ UNCHANGED <<adapter, report>>

\* A dev lane is prepared; Home may be one for a while.
DevPrepares(at) ==
    /\ Disturb
    /\ LET c == Command("prepare", at, "dev", NoReport.service)
       IN \E asg \in [DOMAIN c.adapter.ports -> Ports],
             moved \in MovePoints(catalog, c) :
             /\ IsFirstFit(catalog, c, asg)
             /\ catalog' = prepareRows(catalog, c, asg, moved)
    /\ stage' = IF at = Home /\ stage = "claimed" THEN "idle" ELSE stage
    /\ UNCHANGED bound

\* A checkout goes, and worktree remove or host gc drops its rows.
Retires(at) ==
    /\ at # Home
    /\ Disturb
    /\ catalog' = dropCheckout(catalog, Command("cleanup", at, "dev",
                                              NoReport.service))
    /\ UNCHANGED <<bound, stage>>

ListenersChange(port) ==
    /\ Disturb
    /\ bound' = IF port \in bound THEN bound \ {port} ELSE bound \cup {port}
    /\ UNCHANGED <<catalog, stage>>

Operator == HomePrepares \/ HomeRefused \/ FreePort \/ FollowRecipe
                \/ RecipeIsMoot

Next ==
    \/ Operator
    \/ HumanDecides
    \/ \E at \in Checkouts : DevPrepares(at) \/ Retires(at)
    \/ \E port \in Ports : ListenersChange(port)

\* The operator goes on until the lane has its fixtures.
FairSpec == Init /\ [][Next]_vars /\ WF_vars(Operator)

Spec == Init /\ [][Next]_vars

-----------------------------------------------------------------------------
(* Properties *)

\* What a recipe asks for helps: without the row it names and the listener, the
\* service would have its fixture, unless an earlier service of the same
\* adapter has the same one (classifyStableCollision, reserved first).  With
\* three services append may leave two rows on one fixture, and one recipe does
\* not do (ResolveLoop!RowsKeepPortsApart).
RemedyHelps ==
    [][HasRecipe(report') /\ report' # report =>
          LET without == [pruneUndeclared(catalog, HomeCommand)
                             EXCEPT ![report'.owner] = NoRow]
              i == IndexOf(adapter, report'.service)
          IN \/ i \notin BlockedIn(without, HomeCommand,
                                   bound \ {report'.fixture})
             \/ \E j \in 1 .. (i - 1) :
                    Fixture(HomeCommand, j) = report'.fixture]_vars

\* collision.go:37, "this is not produced on the live path": there is no
\* refusal without a cause.
NeverUntracked == report.cause # "untracked"

\* Whoever follows the recipes of an adapter of one service gets its fixture,
\* or a message that asks for a human decision, or finds no free port to move
\* a row to.  (Two rows that hold each other's fixtures may swing forever.)
RecipesSuffice ==
    HasRecipe(report) /\ Len(adapter.ports) = 1 ~>
        \/ stage = "claimed"
        \/ report.cause \in {"reserved", "stableHeld"}
        \/ /\ HasRecipe(report)
           /\ catalog[report.owner] # NoRow
           /\ RecipePorts = {}
=============================================================================
