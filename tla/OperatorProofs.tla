--------------------------- MODULE OperatorProofs ---------------------------
(***************************************************************************)
(* Proofs about the two dialogues of devlane with the one who runs it.     *)
(* CollisionRecovery, for every set of checkouts, services and ports and   *)
(* any adapters: a refusal always has a cause, and what its recipe asks    *)
(* for removes that cause.  InitScaffold, for every tree: `init` finds all *)
(* there is to find, writes all it has planned or nothing, replaces only   *)
(* what it may, and copies only what is valid.                             *)
(***************************************************************************)
EXTENDS CollisionRecovery, InitScaffold, PortAllocationProofs,
        FiniteSetTheorems, FunctionTheorems

-----------------------------------------------------------------------------
(* CollisionRecovery *)

\* What unique ports need: append leaves the rows where they are, or no adapter
\* of the stable lane declares a third service that could be given the port that
\* a row should have left.
HomeLosesNoPort ==
    ~AppendMoves \/ \A config \in HomeAdapters : Len(config.ports) <= 2

\* The part of the state that the reports depend on.
Sound ==
    /\ catalog \in Catalogs
    /\ HomeLosesNoPort => UniquePorts(catalog)
    /\ adapter \in HomeAdapters
    /\ report \in Reports
    /\ HasRecipe(report) => report.owner \in Keys

-----------------------------------------------------------------------------
(* The commands *)

LEMMA NoReportType == NoReport.service \in Services /\ NoReport \in Reports
BY HomeAssumption DEF NoReport, Reports, Causes

LEMMA CommandIsWellFormed ==
    ASSUME adapter \in HomeAdapters, NEW op \in {"prepare", "cleanup"},
           NEW at \in Checkouts, NEW mode \in Modes
    PROVE  Command(op, at, mode, NoReport.service) \in WellFormed
BY HomeAssumption, NoReportType DEF Command, WellFormed, CommandRecords

LEMMA HomeCommandType ==
    ASSUME adapter \in HomeAdapters
    PROVE  /\ HomeCommand \in WellFormed
           /\ HomeCommand.op = "prepare"
           /\ HomeCommand.at = Home
           /\ HomeCommand.mode = "stable"
           /\ HomeCommand.adapter = adapter
BY HomeAssumption, CommandIsWellFormed DEF HomeCommand, Command, Modes

LEMMA FixtureIsPort ==
    ASSUME NEW c \in WellFormed, NEW i \in DOMAIN c.adapter.ports
    PROVE  Fixture(c, i) \in Ports
<1>1. c.adapter.ports[i] \in PortConfigs
  BY CommandType
<1>2. QED
  BY <1>1, StablePortIsPort DEF Fixture

\* When no fixture is blocked, the fixtures are what resolve computes.
LEMMA FixturesResolve ==
    ASSUME Sound, Blocked = {}
    PROVE  Fixtures(HomeCommand) \in Resolutions(catalog, HomeCommand)
<1> DEFINE c   == HomeCommand
           old == pruneUndeclared(catalog, c)
<1>1. c \in WellFormed /\ c.mode = "stable"
  BY HomeCommandType DEF Sound
<1>2. Fixtures(c) \in [DOMAIN c.adapter.ports -> Ports]
  BY <1>1, FixtureIsPort DEF Fixtures
<1>3. ASSUME NEW i \in DOMAIN c.adapter.ports, Kept(old, c, i)
      PROVE  Fixtures(c)[i] = RowOf(old, c, i).port
  BY <1>1, <1>3 DEF Kept, reuseExisting, Fixtures, Fixture
<1>4. ASSUME NEW i \in DOMAIN c.adapter.ports, ~Kept(old, c, i)
      PROVE  Fixtures(c)[i] \in ChoosablePorts(c.adapter.ports[i], c.mode)
                                    \ Taken(old, c, Fixtures(c), i)
  <2>1. Fixture(c, i) \notin Taken(old, c, Fixtures(c), i)
    BY <1>4 DEF Blocked, BlockedIn
  <2>2. QED
    BY <1>1, <2>1 DEF Fixtures, Fixture, ChoosablePorts
<1>5. IsResolution(old, c, Fixtures(c))
  BY <1>3, <1>4 DEF IsResolution, ResolvedAt
<1>6. QED
  BY <1>2, <1>5 DEF Resolutions

-----------------------------------------------------------------------------
(* The report *)

\* Who holds a fixture that is held or claimed is found.
LEMMA OwnerFound ==
    ASSUME NEW c \in WellFormed, NEW cat \in Catalogs,
           NEW i \in DOMAIN c.adapter.ports,
           Fixture(c, i) \in Taken(cat, c, Fixtures(c), i),
           Fixture(c, i) \notin reservedPorts(c.adapter)
    PROVE  /\ collisionOwner(cat, c, i) \in Keys
           /\ Fixture(c, i) \in HeldAt(cat, c, i) =>
                  cat[collisionOwner(cat, c, i)].port = Fixture(c, i)
<1> DEFINE port    == Fixture(c, i)
           holders == {k \in Keys : cat[k].port = port}
           earlier == {<<c.at, c.adapter.ports[j].name>> :
                          j \in {n \in 1 .. (i - 1) : Fixture(c, n) = port}}
<1>1. CASE port \in HeldAt(cat, c, i)
  <2>1. holders # {}
    BY <1>1 DEF HeldAt
  <2>2. collisionOwner(cat, c, i) = CHOOSE k \in holders : TRUE
    BY <1>1 DEF collisionOwner
  <2>3. QED
    BY <2>1, <2>2
<1>2. CASE port \notin HeldAt(cat, c, i)
  <2>1. port \in ClaimedAt(Fixtures(c), i)
    BY <1>2 DEF Taken
  <2>2. PICK j \in DOMAIN c.adapter.ports : j < i /\ Fixture(c, j) = port
    BY <2>1 DEF ClaimedAt, Fixtures
  <2>3. i \in Nat /\ j \in 1 .. (i - 1)
    BY <2>2, CommandType
  <2>4. earlier # {}
    BY <2>2, <2>3
  <2>5. earlier \subseteq Keys
    <3>1. \A n \in 1 .. (i - 1) : n \in DOMAIN c.adapter.ports
      BY CommandType
    <3>2. QED
      BY <3>1, KeysDiffer
  <2>6. collisionOwner(cat, c, i) = CHOOSE k \in earlier : TRUE
    BY <1>2, <2>4 DEF collisionOwner
  <2>7. QED
    BY <1>2, <2>4, <2>5, <2>6
<1>3. QED
  BY <1>1, <1>2

\* What a refusal says, and that it is not "untracked".
LEMMA ReportType ==
    ASSUME NEW c \in WellFormed, NEW cat \in Catalogs,
           NEW i \in DOMAIN c.adapter.ports
    PROVE  /\ ReportOf(cat, c, i) \in Reports
           /\ ReportOf(cat, c, i).cause # "untracked"
           /\ HasRecipe(ReportOf(cat, c, i)) =>
                  ReportOf(cat, c, i).owner \in Keys
<1> DEFINE taken == Fixture(c, i) \in Taken(cat, c, Fixtures(c), i)
           free  == Fixture(c, i) \notin reservedPorts(c.adapter)
<1>1. Fixture(c, i) \in Ports /\ c.adapter.ports[i].name \in Services
  <2>1. c.adapter.ports[i] \in PortConfigs
    BY CommandType
  <2>2. QED
    BY <2>1, FixtureIsPort DEF PortConfigs
<1>2. taken /\ free => collisionOwner(cat, c, i) \in Keys
  BY OwnerFound
<1>3. collisionOwner(cat, c, i) \in Keys \cup {NoKey}
  <2>1. DEFINE port    == Fixture(c, i)
               holders == {k \in Keys : cat[k].port = port}
               earlier == {<<c.at, c.adapter.ports[j].name>> :
                             j \in {n \in 1 .. (i - 1) : Fixture(c, n) = port}}
  <2>2. \A n \in 1 .. (i - 1) : n \in DOMAIN c.adapter.ports
    BY CommandType
  <2>3. earlier \subseteq Keys
    BY <2>2, KeysDiffer
  <2>4. port \in HeldAt(cat, c, i) => holders # {}
    BY DEF HeldAt
  <2>5. collisionOwner(cat, c, i) =
            IF port \in HeldAt(cat, c, i) THEN CHOOSE k \in holders : TRUE
            ELSE IF earlier # {} THEN CHOOSE k \in earlier : TRUE
            ELSE NoKey
    BY DEF collisionOwner
  <2>6. QED
    BY <2>3, <2>4, <2>5
<1>4. NoKey \notin Keys
  BY HomeAssumption
<1>5. /\ classifyStableCollision(cat, c, i) \in
             {"reserved", "untracked", "stableHeld", "offlineDev", "boundDev"}
      /\ ~free => classifyStableCollision(cat, c, i) = "reserved"
      /\ collisionOwner(cat, c, i) # NoKey =>
             classifyStableCollision(cat, c, i) # "untracked"
  BY DEF classifyStableCollision
<1> DEFINE r == ReportOf(cat, c, i)
<1>6. /\ r = [cause |-> r.cause, service |-> c.adapter.ports[i].name,
              fixture |-> Fixture(c, i), owner |-> r.owner]
      /\ r.cause = IF taken THEN classifyStableCollision(cat, c, i)
                   ELSE "unbindable"
      /\ r.owner = IF taken THEN collisionOwner(cat, c, i) ELSE NoKey
  BY DEF ReportOf
<1>7. r.cause \in Causes \ {"untracked"}
  BY <1>2, <1>4, <1>5, <1>6 DEF Causes
<1>8. r \in Reports
  BY <1>1, <1>3, <1>6, <1>7 DEF Reports
<1>9. HasRecipe(r) => taken /\ free
  BY <1>5, <1>6 DEF HasRecipe
<1>10. QED
  BY <1>2, <1>6, <1>7, <1>8, <1>9

\* Without the row that a recipe names, and without the listener, the service
\* would have its fixture, or an earlier service has the same one.
LEMMA RecipeHelps ==
    ASSUME Sound, HomeLosesNoPort, NEW i \in Blocked,
           HasRecipe(ReportOf(pruneUndeclared(catalog, HomeCommand),
                              HomeCommand, i))
    PROVE  LET old     == pruneUndeclared(catalog, HomeCommand)
               r       == ReportOf(old, HomeCommand, i)
               without == [old EXCEPT ![r.owner] = NoRow]
           IN /\ IndexOf(adapter, r.service) = i
              /\ \/ i \notin BlockedIn(without, HomeCommand,
                                       bound \ {r.fixture})
                 \/ \E j \in 1 .. (i - 1) : Fixture(HomeCommand, j) = r.fixture
<1> DEFINE c       == HomeCommand
           old     == pruneUndeclared(catalog, c)
           r       == ReportOf(old, c, i)
           without == [old EXCEPT ![r.owner] = NoRow]
           f       == Fixture(c, i)
<1>1. /\ c \in WellFormed /\ c.mode = "stable" /\ c.adapter = adapter
      /\ i \in DOMAIN c.adapter.ports
  BY HomeCommandType DEF Sound, Blocked, BlockedIn
<1>2. old \in Catalogs /\ UniquePorts(old)
  BY PruneType, PruneKeepsUnique DEF Sound
<1>3. IndexOf(adapter, r.service) = i
  <2>1. r.service = adapter.ports[i].name
    BY <1>1 DEF ReportOf
  <2>2. Declares(adapter, r.service)
    BY <1>1, <2>1 DEF Declares
  <2>3. adapter \in AdapterConfigs
    BY <1>1, CommandType
  <2>4. /\ IndexOf(adapter, r.service) \in DOMAIN adapter.ports
        /\ adapter.ports[IndexOf(adapter, r.service)].name = r.service
    BY <2>2, <2>3, DeclarationOf
  <2>5. QED
    BY <1>1, <2>1, <2>3, <2>4 DEF AdapterConfigs
<1>4. /\ f \in Taken(old, c, Fixtures(c), i)
      /\ f \notin reservedPorts(c.adapter)
      /\ OwnerMode(old, c, i) # "stable"
      /\ r.owner = collisionOwner(old, c, i)
      /\ r.fixture = f
  BY DEF ReportOf, HasRecipe, classifyStableCollision
<1>5. f \in HeldAt(old, c, i)
  BY <1>1, <1>4 DEF OwnerMode
<1>6. r.owner \in Keys /\ old[r.owner].port = f
  BY <1>1, <1>2, <1>4, <1>5, OwnerFound
<1>7. f \in Ports
  BY <1>1, FixtureIsPort
<1>8. f \notin HeldAt(without, c, i)
  <2>1. SUFFICES ASSUME NEW k \in Keys, without[k].port = f PROVE FALSE
    BY DEF HeldAt
  <2>2. k # r.owner
    BY <1>2, <1>6, <1>7, <2>1, PortsAssumption DEF NoRow, Catalogs
  <2>3. old[k].port = f
    BY <1>2, <2>1, <2>2 DEF Catalogs
  <2>4. QED
    BY <1>2, <1>6, <1>7, <2>2, <2>3, PortsAssumption DEF UniquePorts
<1>9. f \in ClaimedAt(Fixtures(c), i) =>
          \E j \in 1 .. (i - 1) : Fixture(c, j) = f
  <2>1. SUFFICES ASSUME f \in ClaimedAt(Fixtures(c), i)
                 PROVE  \E j \in 1 .. (i - 1) : Fixture(c, j) = f
    OBVIOUS
  <2>2. PICK j \in DOMAIN c.adapter.ports : j < i /\ Fixture(c, j) = f
    BY <2>1 DEF ClaimedAt, Fixtures
  <2>3. j \in 1 .. (i - 1)
    BY <1>1, <2>2, CommandType
  <2>4. QED
    BY <2>2, <2>3
<1>10. ASSUME i \in BlockedIn(without, c, bound \ {f})
       PROVE  f \in ClaimedAt(Fixtures(c), i)
  BY <1>4, <1>8, <1>10 DEF BlockedIn, Taken
<1>11. QED
  BY <1>3, <1>4, <1>9, <1>10

-----------------------------------------------------------------------------
(* The invariant *)

LEMMA RecoveryInit == Init => Sound
<1>1. EmptyCatalog \in Catalogs /\ UniquePorts(EmptyCatalog)
  BY DEF EmptyCatalog, Catalogs, UniquePorts, NoRow
<1>2. ~HasRecipe(NoReport)
  BY DEF NoReport, HasRecipe
<1>3. QED
  BY <1>1, <1>2, NoReportType DEF Init, Sound

\* The step of the operator that is refused.
LEMMA RefusalIsSound ==
    ASSUME Sound, HomeRefused
    PROVE  Sound' /\ report'.cause # "untracked"
<1>1. PICK i \in Blocked :
        report' = ReportOf(pruneUndeclared(catalog, HomeCommand),
                           HomeCommand, i)
  BY DEF HomeRefused
<1>2. HomeCommand \in WellFormed /\ i \in DOMAIN HomeCommand.adapter.ports
  BY HomeCommandType DEF Sound, Blocked, BlockedIn
<1>3. pruneUndeclared(catalog, HomeCommand) \in Catalogs
  BY PruneType DEF Sound
<1>4. QED
  BY <1>1, <1>2, <1>3, ReportType DEF Sound, HomeRefused, HasRecipe

\* A step that ends with no report, or with the same one.
LEMMA OtherSteps ==
    ASSUME Sound, [Next]_vars, ~HomeRefused
    PROVE  /\ Sound'
           /\ report' = report \/ report' = NoReport
<1> USE DEF Sound
<1>0. ~HasRecipe(NoReport)
  BY DEF NoReport, HasRecipe
<1>1. CASE UNCHANGED vars
  BY <1>1 DEF vars, HasRecipe
<1>2. CASE HomePrepares
  <2> DEFINE c == HomeCommand
  <2>1. PICK moved \in MovePoints(catalog, c) :
          catalog' = prepareRows(catalog, c, Fixtures(c), moved)
    BY <1>2 DEF HomePrepares
  <2>2. Fixtures(c) \in Resolutions(catalog, c)
    BY <1>2, FixturesResolve DEF HomePrepares
  <2>3. c \in WellFormed /\ c.op = "prepare" /\ c.adapter \in HomeAdapters
    BY HomeCommandType
  <2>4. catalog' \in Catalogs
    BY <2>1, <2>2, <2>3, PrepareType
  <2>5. ASSUME HomeLosesNoPort PROVE UniquePorts(catalog')
    <3>1. LosesNoPort(c)
      BY <2>3, <2>5 DEF HomeLosesNoPort, LosesNoPort
    <3>2. Outcome(c, catalog, catalog')
      BY <2>1, <2>2, <2>3 DEF Outcome, PrepareOutcome
    <3>3. QED
      BY <2>3, <2>5, <3>1, <3>2, OutcomeKeepsUnique
  <2>6. QED
    BY <1>0, <1>2, <2>4, <2>5, NoReportType DEF HomePrepares
<1>3. CASE FreePort
  BY <1>3 DEF FreePort, HasRecipe
<1>4. CASE FollowRecipe
  <2> DEFINE c == RecipeCommand
  <2>1. report.owner \in Keys /\ catalog[report.owner] \in Allocations
    BY <1>4 DEF FollowRecipe, Catalogs
  <2>2. /\ c \in CommandRecords /\ c.op = "reassign"
        /\ Declares(c.adapter, c.service)
    <3>1. Declares(c.adapter, report.owner[2])
      BY <1>4 DEF FollowRecipe
    <3>2. QED
      BY <2>1, <3>1, HomeAssumption
         DEF RecipeCommand, Command, CommandRecords, Keys, Allocations
  <2>3. c \in WellFormed
    BY <2>2 DEF WellFormed
  <2>4. PICK port \in ReassignPorts(catalog, c) :
          catalog' = reassignRow(catalog, c, port)
    BY <1>4 DEF FollowRecipe, RecipePorts
  <2>5. catalog' \in Catalogs /\ (HomeLosesNoPort => UniquePorts(catalog'))
    BY <2>2, <2>3, <2>4, ReassignType, ReassignKeepsUnique
  <2>6. QED
    BY <1>4, <2>5 DEF FollowRecipe, HasRecipe
<1>5. CASE RecipeIsMoot
  BY <1>5 DEF RecipeIsMoot, HasRecipe
<1>6. CASE HumanDecides
  BY <1>0, <1>6, NoReportType DEF HumanDecides
<1>7. ASSUME NEW at \in Checkouts, DevPrepares(at)
      PROVE  Sound' /\ report' = report
  <2> DEFINE c == Command("prepare", at, "dev", NoReport.service)
  <2>1. c \in WellFormed /\ c.mode = "dev"
    BY CommandIsWellFormed DEF Modes, Command
  <2>2. PICK asg \in [DOMAIN c.adapter.ports -> Ports],
             moved \in MovePoints(catalog, c) :
          /\ IsFirstFit(catalog, c, asg)
          /\ catalog' = prepareRows(catalog, c, asg, moved)
    BY <1>7 DEF DevPrepares
  <2>3. asg \in Resolutions(catalog, c)
    BY <2>2 DEF IsFirstFit
  <2>4. catalog' \in Catalogs /\ (HomeLosesNoPort => UniquePorts(catalog'))
    BY <2>1, <2>2, <2>3, PrepareType, UnlostKeepsUnique
  <2>5. QED
    BY <1>7, <2>4 DEF DevPrepares, Disturb, HasRecipe
<1>8. ASSUME NEW at \in Checkouts, Retires(at)
      PROVE  Sound' /\ report' = report
  <2>1. catalog' \in Catalogs /\ (HomeLosesNoPort => UniquePorts(catalog'))
    BY <1>8, DropType, DropKeepsUnique DEF Retires
  <2>2. QED
    BY <1>8, <2>1 DEF Retires, Disturb, HasRecipe
<1>9. ASSUME NEW port \in Ports, ListenersChange(port)
      PROVE  Sound' /\ report' = report
  BY <1>9 DEF ListenersChange, Disturb, HasRecipe
<1>10. QED
  BY <1>1, <1>2, <1>3, <1>4, <1>5, <1>6, <1>7, <1>8, <1>9 DEF Next, Operator

LEMMA RecoveryInvariance == Spec => []Sound
<1>1. Sound /\ [Next]_vars => Sound'
  BY RefusalIsSound, OtherSteps
<1>2. QED
  BY <1>1, RecoveryInit, PTL DEF Spec

-----------------------------------------------------------------------------
(* The theorems about CollisionRecovery *)

\* Every variable of CollisionRecovery keeps its type.
THEOREM RecoveryTypeCorrect == Spec => []TypeOK
<1>1. Init => TypeOK
  <2> SUFFICES ASSUME Init PROVE TypeOK
    OBVIOUS
  <2>1. Sound
    BY RecoveryInit
  <2>2. /\ disturbances \in 0 .. MaxDisturbances /\ bound \subseteq Ports
        /\ stage = "idle" /\ disturbed = FALSE
    BY HomeAssumption DEF Init
  <2>3. QED
    BY <2>1, <2>2 DEF TypeOK, Sound
<1>2. ASSUME TypeOK, Sound, Sound', [Next]_vars
      PROVE  TypeOK'
  <2>0. \/ UNCHANGED <<disturbances, disturbed>>
        \/ UNCHANGED disturbances /\ disturbed' = FALSE
        \/ /\ disturbances < MaxDisturbances /\ disturbed' = TRUE
           /\ disturbances' = disturbances + 1
    BY <1>2
       DEF Next, vars, Operator, HomePrepares, HomeRefused, FreePort,
           FollowRecipe, RecipeIsMoot, HumanDecides, DevPrepares, Retires,
           ListenersChange, Disturb
  <2>1. disturbances' \in 0 .. MaxDisturbances /\ disturbed' \in BOOLEAN
    <3>1. disturbances \in 0 .. MaxDisturbances /\ disturbed \in BOOLEAN
      BY <1>2 DEF TypeOK
    <3>2. disturbances' \in 0 .. MaxDisturbances
      BY <2>0, <3>1, HomeAssumption
    <3>3. disturbed' \in BOOLEAN
      BY <2>0, <3>1
    <3>4. QED
      BY <3>2, <3>3
  <2>2. stage' \in {"idle", "refused", "followed", "claimed"}
    BY <1>2
       DEF TypeOK, Next, vars, Operator, HomePrepares, HomeRefused, FreePort,
           FollowRecipe, RecipeIsMoot, HumanDecides, DevPrepares, Retires,
           ListenersChange
  <2>3. bound' \subseteq Ports
    BY <1>2
       DEF TypeOK, Next, vars, Operator, HomePrepares, HomeRefused, FreePort,
           FollowRecipe, RecipeIsMoot, HumanDecides, DevPrepares, Retires,
           ListenersChange
  <2>4. QED
    BY <1>2, <2>1, <2>2, <2>3 DEF TypeOK, Sound
<1>3. Sound /\ [Next]_vars => Sound'
  BY RefusalIsSound, OtherSteps
<1>4. Sound /\ TypeOK /\ [Next]_vars => TypeOK'
  BY <1>2, <1>3
<1>5. QED
  BY <1>1, <1>4, RecoveryInvariance, PTL DEF Spec

\* The cause that collision.go says the live path does not produce is not
\* produced, whatever is prepared, retired, moved or listened on meanwhile.
THEOREM CauseKnown == Spec => []NeverUntracked
<1>1. Init => NeverUntracked
  BY DEF Init, NoReport, NeverUntracked
<1>2. Sound /\ NeverUntracked /\ [Next]_vars => NeverUntracked'
  <2>1. NoReport.cause # "untracked"
    BY DEF NoReport
  <2>2. QED
    BY <2>1, RefusalIsSound, OtherSteps DEF NeverUntracked
<1>3. QED
  BY <1>1, <1>2, RecoveryInvariance, PTL DEF Spec

\* What a recipe asks for removes the obstacle it names, in every state that it
\* can be given in, unless append can move the rows under an adapter of three
\* services or more: then two rows may be on the fixture.
THEOREM RemedyWorks ==
    ASSUME HomeLosesNoPort PROVE Spec => RemedyHelps
<1>1. ASSUME Sound, [Next]_vars, HasRecipe(report'), report' # report
      PROVE  LET without == [pruneUndeclared(catalog, HomeCommand)
                                EXCEPT ![report'.owner] = NoRow]
                 i == IndexOf(adapter, report'.service)
             IN \/ i \notin BlockedIn(without, HomeCommand,
                                      bound \ {report'.fixture})
                \/ \E j \in 1 .. (i - 1) :
                       Fixture(HomeCommand, j) = report'.fixture
  <2>1. ~HasRecipe(NoReport)
    BY DEF NoReport, HasRecipe
  <2>2. HomeRefused
    BY <1>1, <2>1, OtherSteps
  <2>3. PICK i \in Blocked :
          report' = ReportOf(pruneUndeclared(catalog, HomeCommand),
                             HomeCommand, i)
    BY <2>2 DEF HomeRefused
  <2>4. HasRecipe(ReportOf(pruneUndeclared(catalog, HomeCommand),
                           HomeCommand, i))
    BY <1>1, <2>3
  <2>5. QED
    BY <1>1, <2>3, <2>4, RecipeHelps
<1>2. Sound /\ [Next]_vars =>
        [HasRecipe(report') /\ report' # report =>
          LET without == [pruneUndeclared(catalog, HomeCommand)
                             EXCEPT ![report'.owner] = NoRow]
              i == IndexOf(adapter, report'.service)
          IN \/ i \notin BlockedIn(without, HomeCommand,
                                   bound \ {report'.fixture})
             \/ \E j \in 1 .. (i - 1) :
                    Fixture(HomeCommand, j) = report'.fixture]_vars
  BY <1>1
<1>3. QED
  BY <1>2, RecoveryInvariance, PTL DEF Spec, RemedyHelps

-----------------------------------------------------------------------------
(* InitScaffold: the tree *)

\* A directory is at or below itself and Root, is listed once, and what is
\* below one of the directories below it is below it.
LEMMA TreeOrder ==
    /\ \A d \in Dirs : d \in Below(d) /\ d \in Below(Root)
    /\ \A d, e, f \in Dirs :
          e \in Below(d) /\ f \in Below(e) => f \in Below(d)
    /\ \A d \in Dirs : Range(Path[d]) \subseteq Dirs
<1>1. ASSUME NEW d \in Dirs
      PROVE  /\ d \in Below(d) /\ d \in Below(Root)
             /\ Range(Path[d]) \subseteq Dirs
  <2>1. /\ Path[d] \in Seq(Dirs) /\ Path[d] # <<>>
        /\ Path[d][1] = Root /\ Path[d][Len(Path[d])] = d
    BY TreeAssumption
  <2>2. 1 \in DOMAIN Path[d] /\ Len(Path[d]) \in DOMAIN Path[d]
    BY <2>1
  <2>3. QED
    BY <2>1, <2>2 DEF Below, Range
<1>2. ASSUME NEW d \in Dirs, NEW e \in Dirs, NEW f \in Dirs,
             e \in Below(d), f \in Below(e)
      PROVE  f \in Below(d)
  <2>1. PICK i \in DOMAIN Path[e] : Path[e][i] = d
    BY <1>2 DEF Below, Range
  <2>2. PICK j \in DOMAIN Path[f] : Path[f][j] = e
    BY <1>2 DEF Below, Range
  <2>3. Path[e] = SubSeq(Path[f], 1, j) /\ Path[f] \in Seq(Dirs)
    BY <2>2, TreeAssumption
  <2>4. i \in DOMAIN Path[f] /\ Path[f][i] = d
    BY <2>1, <2>2, <2>3
  <2>5. QED
    BY <2>4 DEF Below, Range
<1>3. QED
  BY <1>1, <1>2

LEMMA PlaceType ==
    ASSUME NEW d \in Dirs
    PROVE  Place(d) \in 1 .. Len(Walk) /\ Walk[Place(d)] = d
<1>1. Walk \in Seq(Dirs)
  BY TreeAssumption
<1>2. \E i \in DOMAIN Walk : Walk[i] = d
  BY DEF Dirs, Range
<1>3. QED
  BY <1>1, <1>2 DEF Place

LEMMA PlacesDiffer ==
    ASSUME NEW d \in Dirs, NEW e \in Dirs, Place(d) = Place(e)
    PROVE  d = e
BY PlaceType

LEMMA RootIsFirst ==
    /\ Root \in Dirs /\ Path[Root] = <<Root>> /\ Depth(Root) = 0
    /\ Range(Path[Root]) = {Root}
<1>1. /\ Root \in Dirs /\ Path[Root] \in Seq(Dirs) /\ Path[Root] # <<>>
      /\ Path[Root][1] = Root
      /\ \A i \in DOMAIN Path[Root] :
            Path[Path[Root][i]] = SubSeq(Path[Root], 1, i)
  BY TreeAssumption
<1>2. 1 \in DOMAIN Path[Root]
  BY <1>1
<1>3. Path[Root] = SubSeq(Path[Root], 1, 1)
  BY <1>1, <1>2
<1>4. Path[Root] = <<Root>>
  BY <1>1, <1>3
<1>5. QED
  BY <1>1, <1>4 DEF Depth, Range

LEMMA PathType ==
    ASSUME NEW d \in Dirs
    PROVE  /\ Path[d] \in Seq(Dirs)
           /\ Len(Path[d]) \in Nat /\ Len(Path[d]) >= 1
           /\ DOMAIN Path[d] = 1 .. Len(Path[d])
           /\ Path[d][1] = Root /\ Path[d][Len(Path[d])] = d
<1>1. /\ Path[d] \in Seq(Dirs) /\ Path[d] # <<>>
      /\ Path[d][1] = Root /\ Path[d][Len(Path[d])] = d
  BY TreeAssumption
<1>2. QED
  BY <1>1

LEMMA PathPrefix ==
    ASSUME NEW d \in Dirs, NEW i \in 1 .. Len(Path[d]),
           NEW b, b = Path[d][i]
    PROVE  /\ b \in Dirs /\ d \in Below(b)
           /\ Len(Path[b]) = i
           /\ \A j \in 1 .. i : Path[b][j] = Path[d][j]
<1>1. Path[d] \in Seq(Dirs) /\ i \in DOMAIN Path[d]
  BY PathType
<1>2. b \in Dirs /\ d \in Below(b)
  BY <1>1 DEF Below, Range
<1>3. Path[b] = SubSeq(Path[d], 1, i)
  BY <1>1, TreeAssumption
<1>4. QED
  BY <1>1, <1>2, <1>3

\* The path of a directory is that of its parent and itself.
LEMMA ParentPath ==
    ASSUME NEW d \in Dirs, d # Root
    PROVE  /\ Parent(d) \in Dirs
           /\ Depth(d) = Depth(Parent(d)) + 1
           /\ Range(Path[d]) = Range(Path[Parent(d)]) \cup {d}
           /\ d \in Below(Parent(d))
<1> DEFINE n == Len(Path[d])
           p == Parent(d)
<1>1. n > 1 /\ n \in Nat
  <2>1. n # 1
    BY PathType
  <2>2. QED
    BY <2>1, PathType
<1>2. p = Path[d][n - 1] /\ n - 1 \in 1 .. n
  BY <1>1 DEF Parent
<1> HIDE DEF n, p
<1>3. /\ p \in Dirs /\ d \in Below(p)
      /\ Len(Path[p]) = n - 1
      /\ \A j \in 1 .. (n - 1) : Path[p][j] = Path[d][j]
  BY <1>2, PathPrefix DEF n
<1>4. Depth(d) = Depth(p) + 1
  BY <1>1, <1>3 DEF Depth, n
<1>5. Range(Path[d]) = Range(Path[p]) \cup {d}
  <2>1. \A x : x \in Range(Path[d]) <=> \E i \in 1 .. n : Path[d][i] = x
    BY PathType DEF Range, n
  <2>2. DOMAIN Path[p] = 1 .. (n - 1)
    BY <1>3, PathType
  <2>3. \A x : x \in Range(Path[p])
                  <=> \E i \in 1 .. (n - 1) : Path[p][i] = x
    BY <2>2 DEF Range
  <2>4. Path[d][n] = d
    BY PathType DEF n
  <2>5. QED
    BY <1>1, <1>3, <2>1, <2>3, <2>4
<1>6. QED
  BY <1>3, <1>4, <1>5 DEF p

\* What is below a directory is the directory or at or below a child of it.
LEMMA ChildBetween ==
    ASSUME NEW d \in Dirs, NEW e \in Dirs, e \in Below(d), e # d
    PROVE  /\ \E c \in Dirs \ {Root} : Parent(c) = d /\ e \in Below(c)
           /\ Depth(d) < Depth(e)
<1> DEFINE n == Len(Path[e])
<1>1. PICK i \in 1 .. n : Path[e][i] = d
  BY PathType DEF Below, Range
<1>2. n \in Nat /\ Path[e][n] = e
  BY PathType
<1>3. i \in 1 .. (n - 1) /\ i + 1 \in 1 .. n
  BY <1>1, <1>2
<1> DEFINE c == Path[e][i + 1]
<1> HIDE DEF n, c
<1>4. /\ c \in Dirs /\ e \in Below(c)
      /\ Len(Path[c]) = i + 1
      /\ \A j \in 1 .. (i + 1) : Path[c][j] = Path[e][j]
  BY <1>3, PathPrefix DEF n, c
<1>5. Len(Path[d]) = i
  BY <1>1, PathPrefix DEF n
<1>6. Path[c][i] = d
  BY <1>1, <1>3, <1>4
<1>7. Parent(c) = d
  BY <1>3, <1>4, <1>6 DEF Parent
<1>8. c # Root
  <2>1. Len(Path[c]) # 1
    BY <1>3, <1>4
  <2>2. Len(Path[Root]) = 1
    BY RootIsFirst
  <2>3. QED
    BY <2>1, <2>2
<1>9. Depth(d) = i - 1 /\ Depth(e) = n - 1
  BY <1>5 DEF Depth, n
<1>10. QED
  BY <1>2, <1>3, <1>4, <1>7, <1>8, <1>9

LEMMA DepthType ==
    ASSUME NEW d \in Dirs
    PROVE  Depth(d) \in Nat
BY TreeAssumption DEF Depth

\* No child of a directory is below another one, and nothing outside of a
\* directory is below its children.
LEMMA ChildrenApart ==
    ASSUME NEW d \in Dirs, NEW c \in Dirs \ {Root}, Parent(c) = d
    PROVE  /\ Below(c) \subseteq Below(d)
           /\ d \notin Below(c)
           /\ Place(d) < Place(c)
           /\ \A b \in Dirs \ {Root} : Parent(b) = d /\ b \in Below(c) => b = c
<1>1. /\ c \in Below(d)
      /\ Depth(c) = Depth(d) + 1
  BY ParentPath
<1>2. Below(c) \subseteq Below(d)
  BY <1>1, TreeOrder DEF Below
<1>3. d \notin Below(c)
  <2>1. SUFFICES ASSUME d \in Below(c), d # c PROVE FALSE
    BY <1>1, DepthType
  <2>2. QED
    BY <1>1, <2>1, ChildBetween, DepthType
<1>4. Place(d) < Place(c)
  <2>1. Place(d) <= Place(c)
    BY <1>1, TreeAssumption
  <2>2. d # c
    BY <1>1, DepthType
  <2>3. QED
    BY <2>1, <2>2, PlaceType, PlacesDiffer
<1>5. ASSUME NEW b \in Dirs \ {Root}, Parent(b) = d, b \in Below(c), b # c
      PROVE  FALSE
  <2>1. Depth(b) = Depth(d) + 1
    BY <1>5, ParentPath
  <2>2. Depth(c) < Depth(b)
    BY <1>5, ChildBetween
  <2>3. QED
    BY <1>1, <2>1, <2>2, DepthType
<1>6. QED
  BY <1>2, <1>3, <1>4, <1>5

\* InOrder lists every directory of a set once, in the order of the walk.
LEMMA InOrderLists ==
    ASSUME NEW S \in SUBSET Dirs
    PROVE  /\ InOrder(S) \in Seq(S)
           /\ \A d \in S : \E i \in DOMAIN InOrder(S) : InOrder(S)[i] = d
           /\ \A i, j \in DOMAIN InOrder(S) :
                 i < j => Place(InOrder(S)[i]) < Place(InOrder(S)[j])
<1> DEFINE upTo(d) == {e \in S : Place(e) <= Place(d)}
           size    == Cardinality(S)
           rank    == [d \in S |-> Cardinality(upTo(d))]
           at      == InOrder(S)
<1>1. \A d \in S : Place(d) \in Nat
  BY PlaceType
<1>2. IsFiniteSet(S) /\ size \in Nat
  <2> DEFINE place == [d \in S |-> Place(d)]
  <2>1. Len(Walk) \in Nat
    BY TreeAssumption
  <2>2. place \in [S -> 1 .. Len(Walk)]
    BY PlaceType
  <2>3. \A d, e \in S : place[d] = place[e] => d = e
    BY PlacesDiffer
  <2> HIDE DEF place
  <2>4. place \in Injection(S, 1 .. Len(Walk))
    BY <2>2, <2>3, Fun_IsInj
  <2>5. IsFiniteSet(1 .. Len(Walk))
    BY <2>1, FS_Interval
  <2>6. IsFiniteSet(S)
    BY <2>4, <2>5, FS_Injection
  <2>7. QED
    BY <2>6, FS_CardinalityType
<1>3. ASSUME NEW d \in S
      PROVE  IsFiniteSet(upTo(d)) /\ rank[d] \in 1 .. size
  <2>1. upTo(d) \in SUBSET S
    OBVIOUS
  <2>2. /\ IsFiniteSet(upTo(d))
        /\ Cardinality(upTo(d)) <= size
        /\ Cardinality(upTo(d)) \in Nat
    BY <1>2, <2>1, FS_Subset, FS_CardinalityType
  <2>3. d \in upTo(d)
    BY <1>1
  <2>4. Cardinality(upTo(d)) # 0
    BY <2>2, <2>3, FS_EmptySet
  <2> HIDE DEF upTo, size
  <2>5. QED
    BY <1>2, <2>2, <2>4
<1>4. ASSUME NEW d \in S, NEW e \in S, Place(d) < Place(e)
      PROVE  rank[d] < rank[e]
  <2>1. upTo(d) \in SUBSET upTo(e)
    BY <1>1, <1>4
  <2>2. e \in upTo(e) /\ e \notin upTo(d)
    BY <1>1, <1>4
  <2>3. /\ IsFiniteSet(upTo(e)) /\ rank[d] \in Nat /\ rank[e] \in Nat
        /\ rank[d] = Cardinality(upTo(d)) /\ rank[e] = Cardinality(upTo(e))
    BY <1>3, <1>2
  <2> HIDE DEF upTo, rank
  <2>4. rank[d] <= rank[e] /\ rank[d] # rank[e]
    BY <2>1, <2>2, <2>3, FS_Subset
  <2>5. QED
    BY <2>3, <2>4
<1>5. ASSUME NEW d \in S, NEW e \in S, rank[d] = rank[e] PROVE d = e
  <2>1. rank[d] \in Nat
    BY <1>2, <1>3
  <2>2. ~(Place(d) < Place(e)) /\ ~(Place(e) < Place(d))
    BY <1>4, <1>5, <2>1
  <2>3. Place(d) = Place(e)
    BY <1>1, <2>2
  <2>4. QED
    BY <2>3, PlacesDiffer
<1>6. \A n \in 1 .. size : \E d \in S : rank[d] = n
  <2>1. rank \in [S -> 1 .. size]
    BY <1>3
  <2> HIDE DEF rank
  <2>2. rank \in Injection(S, 1 .. size)
    BY <1>5, <2>1, Fun_IsInj
  <2>3. IsFiniteSet(1 .. size) /\ Cardinality(1 .. size) = size
    BY <1>2, FS_Interval
  <2>4. rank \in Surjection(S, 1 .. size)
    BY <2>2, <2>3, FS_Injection
  <2>5. QED
    BY <2>4 DEF Surjection
<1>7. at = [n \in 1 .. size |-> CHOOSE d \in S : Cardinality(upTo(d)) = n]
  BY DEF InOrder
<1> HIDE DEF at
<1>8. \A n \in 1 .. size : at[n] \in S /\ rank[at[n]] = n
  <2> SUFFICES ASSUME NEW n \in 1 .. size PROVE at[n] \in S /\ rank[at[n]] = n
    OBVIOUS
  <2>1. \E d \in S : Cardinality(upTo(d)) = n
    BY <1>6
  <2>2. at[n] \in S /\ Cardinality(upTo(at[n])) = n
    <3>1. at[n] = CHOOSE d \in S : Cardinality(upTo(d)) = n
      BY <1>7
    <3> HIDE DEF upTo, size
    <3>2. QED
      BY <2>1, <3>1
  <2>3. QED
    BY <2>2
<1> HIDE DEF rank, upTo, size
<1>9. at \in Seq(S) /\ DOMAIN at = 1 .. size
  BY <1>2, <1>7, <1>8
<1>10. ASSUME NEW d \in S PROVE \E n \in 1 .. size : at[n] = d
  <2>1. rank[d] \in 1 .. size
    BY <1>3
  <2>2. at[rank[d]] \in S /\ rank[at[rank[d]]] = rank[d]
    BY <1>8, <2>1
  <2>3. QED
    BY <1>5, <2>1, <2>2
<1>11. ASSUME NEW m \in 1 .. size, NEW n \in 1 .. size, m < n
       PROVE  Place(at[m]) < Place(at[n])
  <2>1. at[m] \in S /\ at[n] \in S /\ rank[at[m]] = m /\ rank[at[n]] = n
    BY <1>8
  <2>2. ~(Place(at[n]) < Place(at[m]))
    BY <1>4, <1>11, <2>1
  <2>3. Place(at[n]) # Place(at[m])
    BY <1>11, <2>1, PlacesDiffer
  <2>4. QED
    BY <1>1, <2>1, <2>2, <2>3
<1>12. QED
  BY <1>9, <1>10, <1>11 DEF at

-----------------------------------------------------------------------------
(* The invariant of the scan *)

Scanning == {"start", "scan", "select"}
Loading  == {"load", "read"}
Asking   == {"plan", "confirm"}
Writing  == {"truncate", "write"}

PlaceOf(i) == Place(found[i].path)

\* A directory that the scan comes to: another checkout is looked at, but not
\* what is below it.
Reachable(d) ==
    /\ Depth(d) <= MaxScanDepth
    /\ (Range(Path[d]) \ {Root}) \cap SkippedTrees = {}
    /\ (Range(Path[d]) \ {Root, d}) \cap NestedGitRoots = {}

Ahead(d) == \E k \in DOMAIN stack : d \in Below(stack[k])

\* The stack is in the order of the walk, and no part of it below another.
StackOrder ==
    \A i, j \in DOMAIN stack :
        i < j => /\ Place(stack[i]) < Place(stack[j])
                 /\ stack[j] \notin Below(stack[i])

\* So are the candidates, from the first to the last.
FoundOrder ==
    /\ \A i \in DOMAIN found : i <= PlaceOf(i)
    /\ \A i, j \in DOMAIN found : i < j => PlaceOf(i) < PlaceOf(j)

ScanPoint ==
    /\ pc = "start" => stack = <<Root>> /\ found = <<>>
    /\ pc = "select" => stack = <<>>

\* What has been found is behind what is still to visit.
BehindScan ==
    pc \in Scanning =>
        \A i \in DOMAIN found :
            /\ found[i] = CandidateAt(found[i].path)
            /\ \A k \in DOMAIN stack : PlaceOf(i) < Place(stack[k])

\* In a tree that stays, a candidate in scope is found or ahead.
Covered ==
    pc \in Scanning /\ "dirs" \notin touched =>
        /\ exists = Dirs
        /\ \A k \in DOMAIN stack : Reachable(stack[k])
        /\ {found[i].path : i \in DOMAIN found}
              = {d \in Dirs : InScope(d) /\ IsCandidate(d) /\ ~Ahead(d)}

ScanInv == StackOrder /\ FoundOrder /\ ScanPoint /\ BehindScan /\ Covered

-----------------------------------------------------------------------------
(* The invariant of the writes *)

Succeeded == pc = "done" /\ ~opts.list

\* Target i holds all of its adapter; somebody changed the file in d, or
\* removed directories.
Whole(i) == file[plans[i].target] = plans[i].content
Changed(d) == touched \cap {d, "dirs"} # {}

\* The last plan that a write has begun for.
LastBegun == IF pc = "write" THEN next ELSE next - 1

NothingYet ==
    /\ pc \in Scanning \cup Loading \cup Asking \cup {"refused", "cancelled"}
           => wrote = {}
    /\ pc \in Scanning \cup Loading => plans = <<>>
    /\ pc \in Scanning \cup Loading \cup {"plan"} => next = 1

\* Plans are for the candidates chosen, in their order.
PlansFollow ==
    /\ pc \in Loading \cup Asking \cup Writing => found # <<>>
    /\ Len(plans) <= Len(found)
    /\ \A i \in DOMAIN plans : plans[i].target = found[i].path
    /\ pc \in {"confirm"} \cup Writing \/ Succeeded => Len(plans) = Len(found)
    /\ pc \in {"confirm"} \cup Writing => next \in DOMAIN plans
    /\ Succeeded => next = Len(plans) + 1

WrittenSoFar ==
    pc \in Writing \/ Succeeded =>
        /\ wrote = {plans[i].target : i \in 1 .. LastBegun}
        /\ \A i \in 1 .. (next - 1) : Whole(i) \/ Changed(plans[i].target)

\* What was found when a write was planned is still so when it begins.
StillPlannable ==
    pc \in Asking \cup Writing =>
        \A i \in DOMAIN plans :
            (pc \in Writing => LastBegun < i)
                => Plannable(plans[i].target) \/ Changed(plans[i].target)

WriteInv == NothingYet /\ PlansFollow /\ WrittenSoFar /\ StillPlannable

-----------------------------------------------------------------------------
(* The invariant of the copies *)

\* init copies a source that nobody edited.
Copying == opts.from /\ "source" \notin touched

\* Past the second read of the source, and what was planned since.
Planning == pc \in Asking \cup Writing \/ plans # <<>>

\* Both reads gave what the source still is, which is valid.
ReadsAgree ==
    Copying =>
        /\ pc = "read" \/ Planning => validated = source /\ source \in Valid
        /\ Planning => payload = source

\* A plan is for a copy that fits its target.
PlansFit ==
    opts.from =>
        \A i \in DOMAIN plans : /\ plans[i].content = payload
                                /\ plans[i].target \notin Escaping[validated]

\* An adapter that init wrote, and nobody since, is one it had planned.
WritesPlanned ==
    \A d \in wrote : file[d] \in Sources =>
        \E i \in DOMAIN plans : /\ plans[i].target = d
                                /\ plans[i].content = file[d]

CopyInv == ReadsAgree /\ PlansFit /\ WritesPlanned

ScaffoldInv == ScaffoldTypeOK /\ ScanInv /\ WriteInv /\ CopyInv

-----------------------------------------------------------------------------
(* Steps that change little *)

\* init ends without success, and is not refused once it writes.
LEMMA EndingStep ==
    ASSUME StartFails \/ VisitFails \/ RefuseMany \/ AnswerQuit \/ LoadFails
              \/ PlanRefused \/ PlanFails \/ AnswerNo \/ WriteFails \/ Crash
    PROVE  /\ pc' \in {"refused", "cancelled", "failed", "killed"}
           /\ pc' \in {"refused", "cancelled"}
                 => pc \in Scanning \cup Loading \cup Asking
           /\ UNCHANGED <<tree, choice, copy, plans, next, wrote>>
BY DEF StartFails, VisitFails, RefuseMany, AnswerQuit, LoadFails, PlanRefused,
       PlanFails, AnswerNo, WriteFails, Crash, Refuse, Fail, EndAs, Goto,
       Scanning, Loading, Asking

\* Others change files, directories or the source, and are noted.
LEMMA EditingStep ==
    ASSUME ScaffoldTypeOK,
           \/ \E d \in Dirs : UserCreates(d) \/ UserDeletes(d)
                                 \/ UserRemovesDir(d)
           \/ UserEditsSource
    PROVE  /\ ScaffoldTypeOK'
           /\ UNCHANGED <<signals, pc, choice, copy, plans, next, wrote>>
           /\ touched \subseteq touched'
           /\ exists' = exists \/ "dirs" \in touched'
           /\ \A d \in Dirs : file'[d] = file[d] \/ Changed(d)'
<1>0. /\ edits < MaxEdits => edits + 1 \in 0 .. MaxEdits
      /\ {"none", "user"} \subseteq Files
  BY ScaffoldAssumption DEF ScaffoldTypeOK, Files
<1>1. ASSUME NEW d \in Dirs, UserCreates(d)
      PROVE  /\ file' \in [Dirs -> Files]
             /\ touched' = touched \cup {d} /\ d \in Touchable
             /\ \A e \in Dirs : file'[e] = file[e] \/ e = d
  BY <1>0, <1>1 DEF UserCreates, Edit, ScaffoldTypeOK, Touchable
<1>2. ASSUME NEW d \in Dirs, UserDeletes(d)
      PROVE  /\ file' \in [Dirs -> Files]
             /\ touched' = touched \cup {d} /\ d \in Touchable
             /\ \A e \in Dirs : file'[e] = file[e] \/ e = d
  BY <1>0, <1>2 DEF UserDeletes, Edit, ScaffoldTypeOK, Touchable
<1>3. CASE \E d \in Dirs : UserCreates(d) \/ UserDeletes(d)
  <2>1. PICK d \in Dirs : UserCreates(d) \/ UserDeletes(d)
    BY <1>3
  <2>2. /\ file' \in [Dirs -> Files]
        /\ touched' = touched \cup {d} /\ touched' \subseteq Touchable
        /\ \A e \in Dirs : file'[e] = file[e] \/ e = d
    BY <1>1, <1>2, <2>1 DEF ScaffoldTypeOK
  <2>3. /\ UNCHANGED <<signals, pc, choice, copy, plans, next, wrote>>
        /\ UNCHANGED <<exists, source>>
        /\ edits' \in 0 .. MaxEdits
    BY <1>0, <2>1 DEF UserCreates, UserDeletes, Edit
  <2>4. \A e \in Dirs : file'[e] = file[e] \/ Changed(e)'
    BY <2>2 DEF Changed
  <2>5. ScaffoldTypeOK'
    BY <2>2, <2>3 DEF ScaffoldTypeOK, choice, copy
  <2>6. QED
    BY <2>2, <2>3, <2>4, <2>5
<1>4. CASE \E d \in Dirs : UserRemovesDir(d)
  <2>1. PICK d \in Dirs : UserRemovesDir(d)
    BY <1>4
  <2>2. /\ file' \in [Dirs -> Files]
        /\ touched' = touched \cup {"dirs"} /\ touched' \subseteq Touchable
        /\ exists' \subseteq Dirs
    BY <1>0, <2>1 DEF UserRemovesDir, Edit, ScaffoldTypeOK, Touchable
  <2>3. /\ UNCHANGED <<signals, pc, choice, copy, plans, next, wrote>>
        /\ UNCHANGED source
        /\ edits' \in 0 .. MaxEdits
    BY <1>0, <2>1 DEF UserRemovesDir, Edit
  <2>4. \A e \in Dirs : Changed(e)'
    BY <2>2 DEF Changed
  <2>5. ScaffoldTypeOK'
    BY <2>2, <2>3 DEF ScaffoldTypeOK, choice, copy
  <2>6. QED
    BY <2>2, <2>3, <2>4, <2>5
<1>5. CASE UserEditsSource
  <2>1. /\ UNCHANGED <<signals, pc, choice, copy, plans, next, wrote>>
        /\ UNCHANGED <<exists, file>>
        /\ touched' = touched \cup {"source"}
        /\ source' \in Sources
        /\ edits' \in 0 .. MaxEdits
    BY <1>0, <1>5 DEF UserEditsSource, Edit
  <2>2. ScaffoldTypeOK'
    BY <2>1 DEF ScaffoldTypeOK, choice, copy, Touchable
  <2>3. QED
    BY <2>1, <2>2
<1>6. QED
  BY <1>3, <1>4, <1>5

-----------------------------------------------------------------------------
(* Types *)

LEMMA DetectedType ==
    ASSUME NEW d \in Dirs
    PROVE  CandidateAt(d) \in Candidates
BY DEF CandidateAt, TemplateOf, Candidates, Templates

LEMMA DescendsType ==
    ASSUME NEW d \in Dirs, exists \subseteq Dirs
    PROVE  Descends(d) \in Seq(Dirs)
<1>1. Children(d) \ SkippedTrees \in SUBSET Dirs
  BY DEF Children
<1>2. QED
  BY <1>1, InOrderLists DEF Descends

LEMMA ElementType ==
    ASSUME NEW S, NEW s \in Seq(S), NEW i \in DOMAIN s
    PROVE  s[i] \in S
OBVIOUS

LEMMA AppendType ==
    ASSUME NEW S, NEW s \in Seq(S), NEW x \in S
    PROVE  Append(s, x) \in Seq(S)
OBVIOUS

LEMMA ConcatType ==
    ASSUME NEW S, NEW s \in Seq(S), NEW t \in Seq(S)
    PROVE  s \o t \in Seq(S)
OBVIOUS

LEMMA ListTypes ==
    ASSUME ScaffoldTypeOK
    PROVE  /\ Len(stack) \in Nat /\ DOMAIN stack = 1 .. Len(stack)
           /\ \A k \in DOMAIN stack : stack[k] \in Dirs
           /\ Len(found) \in Nat /\ DOMAIN found = 1 .. Len(found)
           /\ \A i \in DOMAIN found : /\ found[i] \in Candidates
                                      /\ found[i].path \in Dirs
           /\ Len(plans) \in Nat /\ DOMAIN plans = 1 .. Len(plans)
           /\ \A i \in DOMAIN plans : /\ plans[i].target \in Dirs
                                      /\ plans[i].content \in Contents
<1> DEFINE Planned == [target : Dirs, content : Contents]
<1>1. stack \in Seq(Dirs) /\ found \in Seq(Candidates) /\ plans \in Seq(Planned)
  BY DEF ScaffoldTypeOK
<1>2. \A k \in DOMAIN stack : stack[k] \in Dirs
  BY <1>1, ElementType
<1>3. \A i \in DOMAIN found : found[i] \in Candidates
  BY <1>1, ElementType
<1>4. \A i \in DOMAIN plans : plans[i] \in Planned
  <2> HIDE DEF Planned
  <2>1. QED
    BY <1>1, ElementType
<1>5. QED
  BY <1>1, <1>2, <1>3, <1>4 DEF Candidates

LEMMA TargetType ==
    ASSUME ScaffoldTypeOK, Len(plans) < Len(found)
    PROVE  Target \in Candidates /\ ContentFor(Target) \in Contents
<1>1. Target \in Candidates
  BY ListTypes DEF Target
<1>2. Target.template \in Templates
  BY <1>1 DEF Candidates
<1>3. opts.template # "none" => opts.template \in Templates
  BY DEF ScaffoldTypeOK, Options, TemplateOptions, Templates
<1>4. payload \in Sources
  BY DEF ScaffoldTypeOK
<1>5. QED
  BY <1>1, <1>2, <1>3, <1>4 DEF ContentFor, Contents

\* There are no more candidates than directories.
LEMMA FoundBound ==
    ASSUME ScaffoldTypeOK, FoundOrder
    PROVE  Len(found) <= Len(Walk)
<1>1. Len(found) \in Nat /\ DOMAIN found = 1 .. Len(found)
      /\ Len(Walk) \in Nat
  BY ListTypes, TreeAssumption
<1>2. CASE Len(found) = 0
  BY <1>1, <1>2
<1>3. CASE Len(found) # 0
  <2>1. Len(found) \in DOMAIN found
    BY <1>1, <1>3
  <2>2. found[Len(found)].path \in Dirs
    BY <2>1, ListTypes
  <2>3. QED
    BY <1>1, <2>1, <2>2, PlaceType DEF FoundOrder, PlaceOf
<1>4. QED
  BY <1>2, <1>3

LEMMA ScaffoldTypeInit == ScaffoldInit => ScaffoldTypeOK
<1> SUFFICES ASSUME ScaffoldInit PROVE ScaffoldTypeOK
  OBVIOUS
<1>1. opts \in Options
  BY DEF ScaffoldInit
<1>2. source \in Sources
  BY ScaffoldAssumption DEF ScaffoldInit
<1>3. file \in [Dirs -> Files]
  BY ScaffoldAssumption DEF ScaffoldInit, Files
<1>4. stack \in Seq(Dirs)
  BY TreeAssumption DEF ScaffoldInit
<1>5. edits \in 0 .. MaxEdits /\ next \in 1 .. (Len(Walk) + 1)
  BY ScaffoldAssumption, TreeAssumption DEF ScaffoldInit
<1>6. QED
  BY <1>1, <1>2, <1>3, <1>4, <1>5 DEF ScaffoldInit, ScaffoldTypeOK

LEMMA ScaffoldTypeStep ==
    ASSUME ScaffoldInv, [ScaffoldNext]_scaffoldVars
    PROVE  ScaffoldTypeOK'
<1> USE DEF ScaffoldInv
<1> USE DEF tree, choice, copy, Goto
<1>1. CASE UNCHANGED scaffoldVars
  BY <1>1 DEF scaffoldVars, ScaffoldTypeOK
<1>2. CASE StartFails \/ VisitFails \/ RefuseMany \/ AnswerQuit \/ LoadFails
             \/ PlanRefused \/ PlanFails \/ AnswerNo \/ WriteFails \/ Crash
  <2>1. /\ pc' \in Ended
        /\ UNCHANGED <<tree, choice, copy, plans, next, wrote>>
    BY <1>2, EndingStep DEF Ended
  <2>2. QED
    BY <2>1 DEF ScaffoldTypeOK
<1>3. CASE StartAt
  <2>1. opts.app \in Dirs
    BY <1>3 DEF StartAt, ScaffoldTypeOK, Options
  <2>2. found' \in Seq(Candidates)
    BY <1>3, <2>1, DetectedType DEF StartAt
  <2>3. QED
    BY <1>3, <2>2 DEF StartAt, Prepared, ScaffoldTypeOK
<1>4. CASE StartScan \/ ScanEnds
  BY <1>4 DEF StartScan, ScanEnds, ScaffoldTypeOK, Ended
<1>5. CASE Visit
  <2> DEFINE d == Head(stack)
  <2>1. d \in Dirs /\ Tail(stack) \in Seq(Dirs)
    BY <1>5 DEF Visit, ScaffoldTypeOK
  <2>2. CandidateAt(d) \in Candidates /\ Descends(d) \in Seq(Dirs)
    BY <2>1, DetectedType, DescendsType DEF ScaffoldTypeOK
  <2>3. found' \in Seq(Candidates)
    <3>1. found' = found \/ found' = Append(found, CandidateAt(d))
      BY <1>5 DEF Visit
    <3>2. found \in Seq(Candidates)
      BY DEF ScaffoldTypeOK
    <3>3. QED
      BY <2>2, <3>1, <3>2, AppendType
  <2>4. stack' \in Seq(Dirs)
    <3>1. stack' = Tail(stack) \/ stack' = Descends(d) \o Tail(stack)
      BY <1>5 DEF Visit
    <3>2. QED
      BY <2>1, <2>2, <3>1, ConcatType
  <2>5. QED
    BY <1>5, <2>3, <2>4 DEF Visit, ScaffoldTypeOK
<1>6. ASSUME NEW candidates, Select(candidates), candidates \in Seq(Candidates)
      PROVE  ScaffoldTypeOK'
  BY <1>6 DEF Select, Prepared, ScaffoldTypeOK
<1>7. CASE SelectRoot
  <2>1. <<[path |-> Root, template |-> "cli"]>> \in Seq(Candidates)
    BY RootIsFirst DEF Candidates, Templates
  <2>2. QED
    BY <1>6, <1>7, <2>1 DEF SelectRoot
<1>8. CASE SelectAll \/ AnswerOne
  <2>1. /\ found \in Seq(Candidates)
        /\ \A i \in DOMAIN found : <<found[i]>> \in Seq(Candidates)
    BY DEF ScaffoldTypeOK
  <2>2. \/ Select(found)
        \/ \E i \in DOMAIN found : Select(<<found[i]>>)
    BY <1>8 DEF SelectAll, AnswerOne
  <2>3. QED
    BY <1>6, <2>1, <2>2
<1>9. CASE LoadSource
  BY <1>9 DEF LoadSource, ScaffoldTypeOK
<1>10. CASE ReadSource
  BY <1>10 DEF ReadSource, ScaffoldTypeOK
<1>11. CASE PlanOne
  <2>1. Target \in Candidates /\ ContentFor(Target) \in Contents
    BY <1>11, TargetType DEF PlanOne
  <2>2. [target |-> Target.path, content |-> ContentFor(Target)]
           \in [target : Dirs, content : Contents]
    BY <2>1 DEF Candidates
  <2>3. plans' \in Seq([target : Dirs, content : Contents])
    BY <1>11, <2>2 DEF PlanOne, ScaffoldTypeOK
  <2>4. QED
    BY <1>11, <2>3 DEF PlanOne, ScaffoldTypeOK
<1>12. CASE PlanEnds
  BY <1>12 DEF PlanEnds, ScaffoldTypeOK
<1>13. /\ pc \in {"confirm"} \cup Writing => next \in DOMAIN plans
       /\ Len(plans) <= Len(Walk)
       /\ Len(plans) \in Nat /\ Len(Walk) \in Nat
       /\ DOMAIN plans = 1 .. Len(plans)
  <2>1. Len(plans) <= Len(found) /\ Len(found) <= Len(Walk)
    BY FoundBound DEF WriteInv, PlansFollow, ScanInv
  <2>2. Len(Walk) \in Nat
    BY TreeAssumption
  <2>3. pc \in {"confirm"} \cup Writing => next \in DOMAIN plans
    BY DEF WriteInv, PlansFollow
  <2>4. /\ Len(plans) \in Nat /\ DOMAIN plans = 1 .. Len(plans)
        /\ Len(found) \in Nat
    BY ListTypes
  <2>5. QED
    BY <2>1, <2>2, <2>3, <2>4
<1>14. CASE AnswerYes
  <2>1. next' \in 1 .. (Len(Walk) + 1)
    BY <1>13, <1>14 DEF AnswerYes
  <2>2. QED
    BY <1>14, <2>1 DEF AnswerYes, ScaffoldTypeOK
<1>15. CASE Truncate \/ Write
  <2>1. next \in DOMAIN plans
    BY <1>13, <1>15 DEF Truncate, Write, Writing
  <2>3. plans[next].target \in Dirs /\ plans[next].content \in Files
        /\ "empty" \in Files
    BY <2>1, ListTypes DEF Files
  <2>4. next' \in 1 .. (Len(Walk) + 1)
    BY <1>13, <1>15, <2>1 DEF Truncate, Write
  <2>5. file' \in [Dirs -> Files] /\ wrote' \subseteq Dirs
    BY <1>15, <2>3 DEF Truncate, Write, Writes, ScaffoldTypeOK
  <2>6. pc' \in {"write", "truncate", "done"}
        /\ UNCHANGED <<exists, signals, source, edits, touched, choice, copy,
                       plans>>
    BY <1>15 DEF Truncate, Write, Writes
  <2>7. QED
    BY <2>4, <2>5, <2>6 DEF ScaffoldTypeOK, Ended
<1>16. CASE \/ \E d \in Dirs : UserCreates(d) \/ UserDeletes(d)
                                  \/ UserRemovesDir(d)
            \/ UserEditsSource
  BY <1>16, EditingStep
<1>17. QED
  BY <1>1, <1>2, <1>3, <1>4, <1>5, <1>7, <1>8, <1>9, <1>10, <1>11, <1>12,
     <1>14, <1>15, <1>16 DEF ScaffoldNext

-----------------------------------------------------------------------------
(* The scan *)

\* The children that the scan descends to, after the directory and before
\* everything that is not below it.
LEMMA DescendsLists ==
    ASSUME NEW d \in Dirs, exists \subseteq Dirs
    PROVE  /\ Descends(d) \in Seq(Dirs)
           /\ \A i \in DOMAIN Descends(d) :
                 /\ Descends(d)[i] \in Dirs \ {Root}
                 /\ Parent(Descends(d)[i]) = d
                 /\ Descends(d)[i] \notin SkippedTrees
           /\ \A c \in Children(d) \ SkippedTrees :
                 \E i \in DOMAIN Descends(d) : Descends(d)[i] = c
           /\ \A i, j \in DOMAIN Descends(d) :
                 i < j => /\ Place(Descends(d)[i]) < Place(Descends(d)[j])
                          /\ Descends(d)[j] \notin Below(Descends(d)[i])
<1> DEFINE S == Children(d) \ SkippedTrees
<1>1. S \in SUBSET Dirs /\ \A c \in S : /\ c \in Dirs \ {Root}
                                        /\ Parent(c) = d
                                        /\ c \notin SkippedTrees
  BY DEF Children
<1>2. Descends(d) = InOrder(S)
  BY DEF Descends
<1> HIDE DEF S
<1>3. /\ InOrder(S) \in Seq(S)
      /\ \A c \in S : \E i \in DOMAIN InOrder(S) : InOrder(S)[i] = c
      /\ \A i, j \in DOMAIN InOrder(S) :
            i < j => Place(InOrder(S)[i]) < Place(InOrder(S)[j])
  BY <1>1, InOrderLists
<1>4. \A i \in DOMAIN InOrder(S) : InOrder(S)[i] \in S
  BY <1>3, ElementType
<1>5. ASSUME NEW i \in DOMAIN InOrder(S), NEW j \in DOMAIN InOrder(S), i < j,
             InOrder(S)[j] \in Below(InOrder(S)[i])
      PROVE  FALSE
  <2> DEFINE b == InOrder(S)[j]
             c == InOrder(S)[i]
  <2>1. /\ b \in Dirs \ {Root} /\ c \in Dirs \ {Root}
        /\ Parent(b) = d /\ Parent(c) = d /\ b \in Below(c)
    BY <1>1, <1>4, <1>5
  <2>2. Place(c) < Place(b)
    BY <1>3, <1>5
  <2> HIDE DEF b, c
  <2>3. b = c
    BY <2>1, ChildrenApart
  <2>4. QED
    BY <2>1, <2>2, <2>3, PlaceType
<1>6. Descends(d) \in Seq(Dirs)
  BY DescendsType
<1>7. QED
  BY <1>1, <1>2, <1>3, <1>4, <1>5, <1>6 DEF S

\* What is in scope below a directory is below a child the scan descends to.
LEMMA ScopeBelow ==
    ASSUME exists = Dirs, NEW d \in Dirs, NEW e \in Dirs,
           InScope(e), e \in Below(d), e # d
    PROVE  /\ ~(d # Root /\ d \in NestedGitRoots)
           /\ ~(Depth(d) >= MaxScanDepth)
           /\ \E c \in Children(d) \ SkippedTrees : e \in Below(c)
<1>1. PICK c \in Dirs \ {Root} : Parent(c) = d /\ e \in Below(c)
  BY ChildBetween
<1>2. Depth(d) < MaxScanDepth
  <2>1. Depth(d) < Depth(e) /\ Depth(e) <= MaxScanDepth
    BY ChildBetween DEF InScope
  <2>2. QED
    BY <2>1, DepthType, ScaffoldAssumption
<1>3. c \in Range(Path[e]) \ {Root} /\ d \in Range(Path[e])
  BY <1>1 DEF Below
<1>4. c \notin SkippedTrees /\ ~(d # Root /\ d \in NestedGitRoots)
  BY <1>3 DEF InScope
<1>5. c \in Children(d)
  BY <1>1 DEF Children
<1>6. QED
  BY <1>1, <1>2, <1>4, <1>5, DepthType, ScaffoldAssumption

\* The scan comes to the children of a directory that is not another checkout
\* and not too deep.
LEMMA ChildReachable ==
    ASSUME NEW d \in Dirs, Reachable(d),
           ~(d # Root /\ d \in NestedGitRoots), ~(Depth(d) >= MaxScanDepth),
           NEW c \in Dirs \ {Root}, Parent(c) = d, c \notin SkippedTrees
    PROVE  Reachable(c)
<1>1. /\ Depth(c) = Depth(d) + 1
      /\ Range(Path[c]) = Range(Path[d]) \cup {c}
  BY ParentPath
<1>2. Depth(c) <= MaxScanDepth
  BY <1>1, DepthType, ScaffoldAssumption
<1>3. QED
  BY <1>1, <1>2 DEF Reachable

LEMMA InScopeReached ==
    ASSUME exists = Dirs, NEW d \in Dirs, Reachable(d)
    PROVE  InScope(d) <=> ~(d # Root /\ d \in NestedGitRoots)
<1>1. d \in Range(Path[d])
  BY TreeOrder DEF Below
<1>2. QED
  BY <1>1 DEF Reachable, InScope

LEMMA ScanInit == ScaffoldInit => ScanInv
<1> SUFFICES ASSUME ScaffoldInit PROVE ScanInv
  OBVIOUS
<1>1. /\ stack = <<Root>> /\ found = <<>> /\ pc = "start" /\ exists = Dirs
      /\ stack[1] = Root /\ DOMAIN stack = {1} /\ DOMAIN found = {}
  BY DEF ScaffoldInit
<1>2. StackOrder /\ FoundOrder /\ ScanPoint /\ BehindScan
  BY <1>1 DEF StackOrder, FoundOrder, ScanPoint, BehindScan
<1>3. Reachable(Root)
  BY RootIsFirst, ScaffoldAssumption DEF Reachable
<1>4. \A d \in Dirs : Ahead(d)
  BY <1>1, TreeOrder DEF Ahead
<1>5. Covered
  BY <1>1, <1>3, <1>4 DEF Covered
<1>6. QED
  BY <1>2, <1>5 DEF ScanInv

\* What Visit leaves to visit: each part after the directory visited, which is
\* below none of them.
LEMMA VisitStack ==
    ASSUME ScaffoldTypeOK, StackOrder, Visit
    PROVE  LET d == Head(stack) IN
           /\ d \in Dirs
           /\ StackOrder'
           /\ \A k \in DOMAIN stack' : /\ stack'[k] \in Dirs
                                       /\ Place(d) < Place(stack'[k])
<1> DEFINE d    == Head(stack)
           rest == Tail(stack)
           more == Descends(d)
<1>1. /\ d \in Dirs /\ d = stack[1] /\ 1 \in DOMAIN stack
      /\ rest \in Seq(Dirs) /\ Len(rest) \in Nat
      /\ DOMAIN rest = 1 .. Len(rest)
      /\ \A k \in DOMAIN rest : /\ rest[k] \in Dirs
                                /\ rest[k] = stack[k + 1]
                                /\ k + 1 \in DOMAIN stack
  BY DEF Visit, ScaffoldTypeOK
<1>2. \A k \in DOMAIN rest : Place(d) < Place(rest[k]) /\ rest[k] \notin Below(d)
  BY <1>1 DEF StackOrder
<1>3. \A i, j \in DOMAIN rest :
          i < j => /\ Place(rest[i]) < Place(rest[j])
                   /\ rest[j] \notin Below(rest[i])
  BY <1>1 DEF StackOrder
<1>4. /\ more \in Seq(Dirs) /\ Len(more) \in Nat
      /\ DOMAIN more = 1 .. Len(more)
      /\ \A i \in DOMAIN more : more[i] \in Dirs \ {Root} /\ Parent(more[i]) = d
      /\ \A i, j \in DOMAIN more :
            i < j => /\ Place(more[i]) < Place(more[j])
                     /\ more[j] \notin Below(more[i])
  <2>1. exists \subseteq Dirs
    BY DEF ScaffoldTypeOK
  <2>2. more \in Seq(Dirs)
    BY <1>1, <2>1, DescendsLists
  <2>3. QED
    BY <1>1, <2>1, <2>2, DescendsLists
<1> HIDE DEF d, rest, more
<1>5. \A i \in DOMAIN more : /\ Place(d) < Place(more[i])
                             /\ Below(more[i]) \subseteq Below(d)
                             /\ more[i] \in Below(d)
  BY <1>1, <1>4, ChildrenApart, TreeOrder
<1>6. \A i \in DOMAIN more, k \in DOMAIN rest :
          Place(more[i]) < Place(rest[k]) /\ rest[k] \notin Below(more[i])
  BY <1>1, <1>2, <1>4, <1>5, TreeAssumption
<1>7. CASE stack' = rest
  BY <1>1, <1>2, <1>3, <1>7 DEF StackOrder, d
<1>8. CASE stack' = more \o rest
  <2>1. /\ DOMAIN stack' = 1 .. (Len(more) + Len(rest))
        /\ \A k \in DOMAIN stack' :
              IF k <= Len(more)
              THEN k \in DOMAIN more /\ stack'[k] = more[k]
              ELSE /\ k - Len(more) \in DOMAIN rest
                   /\ stack'[k] = rest[k - Len(more)]
    BY <1>1, <1>4, <1>8
  <2>2. ASSUME NEW i \in DOMAIN stack', NEW j \in DOMAIN stack', i < j
        PROVE  /\ Place(stack'[i]) < Place(stack'[j])
               /\ stack'[j] \notin Below(stack'[i])
    <3>0. i \in Nat /\ j \in Nat /\ Len(more) \in Nat
      BY <1>4, <2>1
    <3>1. CASE j <= Len(more)
      BY <1>4, <2>1, <2>2, <3>0, <3>1
    <3>2. CASE i <= Len(more) /\ ~(j <= Len(more))
      BY <1>6, <2>1, <3>2
    <3>3. CASE ~(i <= Len(more)) /\ ~(j <= Len(more))
      BY <1>3, <2>1, <2>2, <3>0, <3>3
    <3>4. QED
      BY <2>2, <3>0, <3>1, <3>2, <3>3
  <2>3. ASSUME NEW k \in DOMAIN stack'
        PROVE  stack'[k] \in Dirs /\ Place(d) < Place(stack'[k])
    BY <1>1, <1>2, <1>4, <1>5, <2>1
  <2>4. QED
    BY <1>1, <2>2, <2>3 DEF StackOrder, d
<1>9. QED
  BY <1>7, <1>8 DEF Visit, d, rest, more

\* What Visit finds: the directory visited, if it is in scope and a candidate.
LEMMA VisitFinds ==
    ASSUME ScaffoldTypeOK, ScanInv, Visit
    PROVE  FoundOrder' /\ BehindScan'
<1>0. PICK d \in Dirs : d = Head(stack)
  BY VisitStack DEF ScanInv
<1>1. /\ d \in Dirs
      /\ \A k \in DOMAIN stack' : /\ stack'[k] \in Dirs
                                  /\ Place(d) < Place(stack'[k])
  BY <1>0, VisitStack DEF ScanInv
<1>2. pc \in Scanning /\ d = stack[1] /\ 1 \in DOMAIN stack
  BY <1>0, ListTypes DEF Visit, Scanning, ScaffoldTypeOK
<1>3. \A i \in DOMAIN found : /\ PlaceOf(i) < Place(d)
                              /\ found[i] = CandidateAt(found[i].path)
                              /\ found[i].path \in Dirs
  BY <1>2, ListTypes DEF ScanInv, BehindScan
<1>4. /\ CandidateAt(d).path = d
      /\ \A e \in Dirs : CandidateAt(e)' = CandidateAt(e)
  BY DEF CandidateAt, TemplateOf, Visit, tree
<1>5. Place(d) \in Nat /\ Place(d) >= 1
      /\ \A i \in DOMAIN found : PlaceOf(i) \in Nat
      /\ \A k \in DOMAIN stack' : Place(stack'[k]) \in Nat
  BY <1>1, <1>3, PlaceType DEF PlaceOf
<1>6. CASE found' = found
  <2>1. FoundOrder'
    BY <1>6 DEF ScanInv, FoundOrder, PlaceOf
  <2>2. BehindScan'
    BY <1>1, <1>3, <1>4, <1>5, <1>6 DEF BehindScan, PlaceOf
  <2>3. QED
    BY <2>1, <2>2
<1>7. CASE found' = Append(found, CandidateAt(d))
  <2>0. PICK n \in Nat : n = Len(found)
    BY ListTypes
  <2>1. /\ n \in Nat /\ DOMAIN found = 1 .. n /\ DOMAIN found' = 1 .. (n + 1)
        /\ found'[n + 1] = CandidateAt(d)
        /\ \A i \in 1 .. n : found'[i] = found[i]
    <3>1. found \in Seq(Candidates)
      BY DEF ScaffoldTypeOK
    <3>2. QED
      BY <1>7, <2>0, <3>1
  <2>2. /\ PlaceOf(n + 1)' = Place(d)
        /\ \A i \in 1 .. n : PlaceOf(i)' = PlaceOf(i)
    BY <1>4, <2>1 DEF PlaceOf
  <2>3. n + 1 <= Place(d)
    <3>1. CASE n = 0
      BY <1>5, <3>1
    <3>2. CASE n # 0
      <4>1. n \in DOMAIN found /\ n <= PlaceOf(n)
        BY <2>1, <3>2 DEF ScanInv, FoundOrder
      <4>2. QED
        BY <1>3, <1>5, <2>1, <4>1
    <3>3. QED
      BY <3>1, <3>2
  <2>4. \A i \in 1 .. n : /\ i <= PlaceOf(i) /\ PlaceOf(i) < Place(d)
                          /\ \A j \in 1 .. n : i < j => PlaceOf(i) < PlaceOf(j)
    BY <1>3, <2>1 DEF ScanInv, FoundOrder
  <2>5. ASSUME NEW i \in 1 .. (n + 1)
        PROVE  /\ i <= PlaceOf(i)'
               /\ \A j \in 1 .. (n + 1) : i < j => PlaceOf(i)' < PlaceOf(j)'
    <3>1. CASE i = n + 1
      BY <2>1, <2>2, <2>3, <3>1
    <3>2. CASE i # n + 1
      <4>1. i \in 1 .. n
        BY <2>1, <3>2
      <4>2. ASSUME NEW j \in 1 .. (n + 1), i < j
            PROVE  PlaceOf(i)' < PlaceOf(j)'
        <5>1. CASE j = n + 1
          BY <2>2, <2>4, <4>1, <5>1
        <5>2. CASE j # n + 1
          <6>1. j \in 1 .. n
            BY <2>1, <5>2
          <6>2. QED
            BY <2>2, <2>4, <4>1, <4>2, <6>1
        <5>3. QED
          BY <5>1, <5>2
      <4>3. QED
        BY <2>2, <2>4, <4>1, <4>2
    <3>3. QED
      BY <3>1, <3>2
  <2>6. FoundOrder'
    BY <2>1, <2>5 DEF FoundOrder
  <2>7. ASSUME NEW i \in DOMAIN found'
        PROVE  /\ (found[i] = CandidateAt(found[i].path))'
               /\ \A k \in DOMAIN stack' : PlaceOf(i)' < Place(stack'[k])
    <3>1. CASE i = n + 1
      BY <1>1, <1>4, <2>1, <2>2, <3>1
    <3>2. CASE i # n + 1
      <4>1. i \in 1 .. n
        BY <2>1, <3>2
      <4>2. QED
        BY <1>1, <1>3, <1>4, <1>5, <2>1, <2>2, <4>1
    <3>3. QED
      BY <3>1, <3>2
  <2>8. QED
    BY <2>6, <2>7 DEF BehindScan
<1>8. QED
  BY <1>0, <1>6, <1>7 DEF Visit

\* Nothing in scope is left out by Visit.
LEMMA VisitCovers ==
    ASSUME ScaffoldTypeOK, ScanInv, Visit
    PROVE  Covered'
<1> SUFFICES ASSUME "dirs" \notin touched
             PROVE  Covered'
  BY DEF Covered, Visit, tree
<1>0. PICK d \in Dirs : d = Head(stack)
  BY VisitStack DEF ScanInv
<1> DEFINE rest   == Tail(stack)
           more   == Descends(d)
           nested == d # Root /\ d \in NestedGitRoots
           Paths  == {found[i].path : i \in DOMAIN found}
<1>1. /\ pc = "scan" /\ pc' = pc
      /\ touched' = touched /\ exists' = exists /\ signals' = signals
      /\ found' = IF ~nested /\ IsCandidate(d)
                  THEN Append(found, CandidateAt(d)) ELSE found
      /\ stack' = IF nested \/ Depth(d) >= MaxScanDepth THEN rest
                  ELSE more \o rest
  BY <1>0 DEF Visit, tree
<1>2. /\ exists = Dirs
      /\ \A k \in DOMAIN stack : Reachable(stack[k])
      /\ Paths = {e \in Dirs : InScope(e) /\ IsCandidate(e) /\ ~Ahead(e)}
  BY <1>1 DEF ScanInv, Covered, Scanning
<1>3. /\ d \in Dirs /\ d = stack[1] /\ 1 \in DOMAIN stack
      /\ rest \in Seq(Dirs) /\ Len(rest) \in Nat
      /\ DOMAIN rest = 1 .. Len(rest)
      /\ \A k \in DOMAIN rest : /\ rest[k] = stack[k + 1]
                                /\ k + 1 \in DOMAIN stack
      /\ \A k \in DOMAIN stack : k = 1 \/ k - 1 \in DOMAIN rest
  BY <1>0 DEF Visit, ScaffoldTypeOK
<1>4. /\ more \in Seq(Dirs) /\ Len(more) \in Nat
      /\ DOMAIN more = 1 .. Len(more)
      /\ \A i \in DOMAIN more : /\ more[i] \in Dirs \ {Root}
                                /\ Parent(more[i]) = d
                                /\ more[i] \notin SkippedTrees
      /\ \A c \in Children(d) \ SkippedTrees :
            \E i \in DOMAIN more : more[i] = c
  <2>1. more \in Seq(Dirs)
    BY <1>2, <1>3, DescendsLists
  <2>2. QED
    BY <1>2, <1>3, <2>1, DescendsLists
<1>5. \A k \in DOMAIN stack' : stack'[k] \in Dirs /\ Place(d) < Place(stack'[k])
  BY <1>0, VisitStack DEF ScanInv
<1> HIDE DEF rest, more
<1>6. /\ nested \/ Depth(d) >= MaxScanDepth
            => /\ DOMAIN stack' = DOMAIN rest
               /\ \A k \in DOMAIN stack' : stack'[k] = rest[k]
      /\ ~(nested \/ Depth(d) >= MaxScanDepth)
            => /\ \A k \in DOMAIN stack' :
                     \/ \E i \in DOMAIN more : stack'[k] = more[i]
                     \/ \E i \in DOMAIN rest : stack'[k] = rest[i]
               /\ \A i \in DOMAIN more : \E k \in DOMAIN stack' :
                     stack'[k] = more[i]
               /\ \A i \in DOMAIN rest : \E k \in DOMAIN stack' :
                     stack'[k] = rest[i]
  <2>1. CASE nested \/ Depth(d) >= MaxScanDepth
    BY <1>1, <2>1
  <2>2. CASE ~(nested \/ Depth(d) >= MaxScanDepth)
    <3>1. stack' = more \o rest
      BY <1>1, <2>2
    <3>2. /\ DOMAIN stack' = 1 .. (Len(more) + Len(rest))
          /\ \A i \in DOMAIN more : /\ i \in DOMAIN stack'
                                    /\ stack'[i] = more[i]
          /\ \A i \in DOMAIN rest : /\ i + Len(more) \in DOMAIN stack'
                                    /\ stack'[i + Len(more)] = rest[i]
          /\ \A k \in DOMAIN stack' :
                IF k <= Len(more)
                THEN k \in DOMAIN more /\ stack'[k] = more[k]
                ELSE /\ k - Len(more) \in DOMAIN rest
                     /\ stack'[k] = rest[k - Len(more)]
      BY <1>3, <1>4, <3>1
    <3>3. QED
      BY <2>2, <3>2
  <2>3. QED
    BY <2>1, <2>2
<1>7. \A k \in DOMAIN stack' : Reachable(stack'[k])
  <2>1. Reachable(d) /\ \A i \in DOMAIN rest : Reachable(rest[i])
    BY <1>2, <1>3
  <2>2. ~(nested \/ Depth(d) >= MaxScanDepth)
           => \A i \in DOMAIN more : Reachable(more[i])
    BY <1>3, <1>4, <2>1, ChildReachable
  <2>3. QED
    BY <1>6, <2>1, <2>2
<1>8. \A e \in Dirs : Ahead(e) <=>
          e \in Below(d) \/ \E i \in DOMAIN rest : e \in Below(rest[i])
  <2>1. ASSUME NEW e \in Dirs, Ahead(e)
        PROVE  e \in Below(d) \/ \E i \in DOMAIN rest : e \in Below(rest[i])
    <3>1. PICK k \in DOMAIN stack : e \in Below(stack[k])
      BY <2>1 DEF Ahead
    <3>2. k \in Nat /\ k - 1 + 1 = k
      BY ListTypes
    <3>3. k = 1 \/ (k - 1 \in DOMAIN rest /\ rest[k - 1] = stack[k])
      BY <1>3, <3>2
    <3>4. QED
      BY <1>3, <3>1, <3>3
  <2>2. ASSUME NEW e \in Dirs, NEW i \in DOMAIN rest, e \in Below(rest[i])
        PROVE  Ahead(e)
    BY <1>3, <2>2 DEF Ahead
  <2>3. \A e \in Dirs : e \in Below(d) => Ahead(e)
    BY <1>3 DEF Ahead
  <2>4. QED
    BY <2>1, <2>2, <2>3
<1>9. ~Ahead(d)'
  <2>1. SUFFICES ASSUME NEW k \in DOMAIN stack', d \in Below(stack'[k])
                 PROVE  FALSE
    BY DEF Ahead
  <2>2. Place(stack'[k]) <= Place(d)
    BY <1>3, <1>5, <2>1, TreeAssumption
  <2>3. QED
    BY <1>3, <1>5, <2>2, PlaceType
<1>10. ASSUME NEW e \in Dirs, InScope(e), e # d
       PROVE  Ahead(e)' <=> Ahead(e)
  <2>1. ASSUME Ahead(e)' PROVE Ahead(e)
    <3>1. PICK k \in DOMAIN stack' : e \in Below(stack'[k])
      BY <2>1 DEF Ahead
    <3>2. (\E i \in DOMAIN more : stack'[k] = more[i])
             \/ (\E i \in DOMAIN rest : stack'[k] = rest[i])
      BY <1>6, <3>1
    <3>3. \A i \in DOMAIN more : Below(more[i]) \subseteq Below(d)
      BY <1>3, <1>4, ChildrenApart
    <3>4. QED
      BY <1>8, <3>1, <3>2, <3>3
  <2>2. ASSUME Ahead(e) PROVE Ahead(e)'
    <3>1. CASE \E i \in DOMAIN rest : e \in Below(rest[i])
      <4>1. \A i \in DOMAIN rest : \E k \in DOMAIN stack' : stack'[k] = rest[i]
        BY <1>6
      <4>2. QED
        BY <3>1, <4>1 DEF Ahead
    <3>2. CASE e \in Below(d)
      <4>1. /\ ~(nested \/ Depth(d) >= MaxScanDepth)
            /\ \E c \in Children(d) \ SkippedTrees : e \in Below(c)
        BY <1>2, <1>3, <1>10, <3>2, ScopeBelow
      <4>2. PICK i \in DOMAIN more : e \in Below(more[i])
        BY <1>4, <4>1
      <4>3. \E k \in DOMAIN stack' : stack'[k] = more[i]
        BY <1>6, <4>1
      <4>4. QED
        BY <4>2, <4>3 DEF Ahead
    <3>3. QED
      BY <1>8, <2>2, <3>1, <3>2
  <2>3. QED
    BY <2>1, <2>2
<1>11. InScope(d) <=> ~nested
  BY <1>2, <1>3, InScopeReached
<1>12. {found'[i].path : i \in DOMAIN found'}
          = Paths \cup {e \in {d} : ~nested /\ IsCandidate(d)}
  <2>1. CASE ~nested /\ IsCandidate(d)
    <3>1. found' = Append(found, CandidateAt(d)) /\ CandidateAt(d).path = d
      BY <1>1, <2>1 DEF CandidateAt
    <3>2. found \in Seq(Candidates)
      BY DEF ScaffoldTypeOK
    <3>3. /\ Len(found) \in Nat /\ DOMAIN found = 1 .. Len(found)
          /\ DOMAIN found' = 1 .. (Len(found) + 1)
          /\ found'[Len(found) + 1] = CandidateAt(d)
          /\ \A i \in 1 .. Len(found) : found'[i] = found[i]
      BY <3>1, <3>2
    <3>4. \A x : x \in {found'[i].path : i \in DOMAIN found'}
                    <=> x \in Paths \/ x = d
      BY <3>1, <3>3
    <3>5. QED
      BY <2>1, <3>4
  <2>2. CASE ~(~nested /\ IsCandidate(d))
    BY <1>1, <2>2
  <2>3. QED
    BY <2>1, <2>2
<1>13. \A e \in Dirs : /\ InScope(e)' <=> InScope(e)
                       /\ IsCandidate(e)' <=> IsCandidate(e)
  BY <1>1 DEF InScope, IsCandidate
<1>14. Ahead(d)
  BY <1>3, <1>8, TreeOrder
<1> HIDE DEF nested, Paths
<1>15. {found'[i].path : i \in DOMAIN found'}
          = {e \in Dirs : InScope(e)' /\ IsCandidate(e)' /\ ~Ahead(e)'}
  <2>1. ASSUME NEW e \in Dirs, e # d
        PROVE  e \in Paths <=> InScope(e)' /\ IsCandidate(e)' /\ ~Ahead(e)'
    BY <1>2, <1>10, <1>13, <2>1
  <2>2. d \notin Paths
    BY <1>2, <1>14
  <2>3. ~nested /\ IsCandidate(d)
           <=> InScope(d)' /\ IsCandidate(d)' /\ ~Ahead(d)'
    BY <1>3, <1>9, <1>11, <1>13
  <2>4. Paths \subseteq Dirs
    BY <1>2
  <2>5. QED
    BY <1>3, <1>12, <2>1, <2>2, <2>3, <2>4
<1>16. QED
  BY <1>1, <1>2, <1>7, <1>15 DEF Covered

LEMMA ScanOver ==
    ASSUME ScanInv, UNCHANGED <<stack, found>>, pc' \notin Scanning
    PROVE  ScanInv'
<1>1. StackOrder' /\ FoundOrder'
  BY DEF ScanInv, StackOrder, FoundOrder, PlaceOf
<1>2. QED
  BY <1>1 DEF ScanInv, ScanPoint, BehindScan, Covered, Scanning

LEMMA ChosenOne ==
    ASSUME ScanInv, NEW candidate \in Candidates, found' = <<candidate>>,
           stack' = stack, pc' \notin Scanning
    PROVE  ScanInv'
<1>1. /\ DOMAIN found' = {1} /\ found'[1] = candidate
      /\ Place(candidate.path) \in Nat /\ Place(candidate.path) >= 1
  BY PlaceType DEF Candidates
<1>2. FoundOrder'
  BY <1>1 DEF FoundOrder, PlaceOf
<1>3. StackOrder'
  BY DEF ScanInv, StackOrder
<1>4. QED
  BY <1>2, <1>3 DEF ScanInv, ScanPoint, BehindScan, Covered, Scanning

LEMMA ScanStep ==
    ASSUME ScaffoldTypeOK, ScanInv, [ScaffoldNext]_scaffoldVars
    PROVE  ScanInv'
<1> USE DEF tree, choice, Goto
<1>1. ASSUME UNCHANGED <<exists, signals, stack, found, touched>>,
             \/ pc' = pc
             \/ pc = "start" /\ pc' = "scan"
             \/ pc = "scan" /\ pc' = "select" /\ stack = <<>>
      PROVE  ScanInv'
  <2>1. StackOrder' /\ FoundOrder' /\ ScanPoint'
    BY <1>1 DEF ScanInv, StackOrder, FoundOrder, PlaceOf, ScanPoint
  <2>2. pc' \in Scanning => pc \in Scanning
    BY <1>1 DEF Scanning
  <2>3. BehindScan'
    BY <1>1, <2>2
       DEF ScanInv, BehindScan, PlaceOf, CandidateAt, TemplateOf
  <2>4. Covered'
    BY <1>1, <2>2 DEF ScanInv, Covered, Reachable, Ahead, InScope, IsCandidate
  <2>5. QED
    BY <2>1, <2>3, <2>4 DEF ScanInv
<1>2. CASE UNCHANGED scaffoldVars
  BY <1>1, <1>2 DEF scaffoldVars
<1>3. CASE StartFails \/ VisitFails \/ RefuseMany \/ AnswerQuit \/ LoadFails
             \/ PlanRefused \/ PlanFails \/ AnswerNo \/ WriteFails \/ Crash
  <2>1. pc' \notin Scanning /\ UNCHANGED <<stack, found>>
    BY <1>3, EndingStep DEF Scanning
  <2>2. QED
    BY <2>1, ScanOver
<1>4. CASE StartAt
  <2>1. opts.app \in Dirs
    BY <1>4 DEF StartAt, ScaffoldTypeOK, Options
  <2>2. /\ CandidateAt(opts.app) \in Candidates
        /\ found' = <<CandidateAt(opts.app)>> /\ stack' = stack
        /\ pc' \notin Scanning
    BY <1>4, <2>1, DetectedType DEF StartAt, Prepared, Scanning
  <2>3. QED
    BY <2>2, ChosenOne
<1>5. CASE StartScan
  BY <1>1, <1>5 DEF StartScan
<1>6. CASE Visit
  <2>1. StackOrder'
    BY <1>6, VisitStack DEF ScanInv
  <2>2. ScanPoint'
    BY <1>6 DEF Visit, ScanPoint
  <2>3. QED
    BY <1>6, <2>1, <2>2, VisitFinds, VisitCovers DEF ScanInv
<1>7. CASE ScanEnds
  <2>1. CASE opts.list
    BY <1>7, <2>1, ScanOver DEF ScanEnds, Scanning
  <2>2. CASE ~opts.list
    BY <1>1, <1>7, <2>2 DEF ScanEnds
  <2>3. QED
    BY <2>1, <2>2
<1>8. CASE SelectRoot
  <2>1. [path |-> Root, template |-> "cli"] \in Candidates
    BY RootIsFirst DEF Candidates, Templates
  <2>2. QED
    BY <1>8, <2>1, ChosenOne DEF SelectRoot, Select, Prepared, Scanning
<1>9. CASE SelectAll \/ AnswerOne
  <2>1. /\ pc' \notin Scanning /\ stack' = stack
        /\ found' = found \/ \E i \in DOMAIN found : found' = <<found[i]>>
    BY <1>9 DEF SelectAll, AnswerOne, Select, Prepared, Scanning
  <2>2. \A i \in DOMAIN found : found[i] \in Candidates
    BY ListTypes
  <2>3. QED
    BY <2>1, <2>2, ScanOver, ChosenOne
<1>10. CASE LoadSource \/ ReadSource \/ PlanOne \/ PlanEnds \/ AnswerYes
              \/ Truncate \/ Write
  <2>1. pc' \notin Scanning /\ UNCHANGED <<stack, found>>
    BY <1>10 DEF LoadSource, ReadSource, PlanOne, PlanEnds, AnswerYes,
                 Truncate, Write, Writes, Scanning
  <2>2. QED
    BY <2>1, ScanOver
<1>11. CASE \/ \E d \in Dirs : UserCreates(d) \/ UserDeletes(d)
                                  \/ UserRemovesDir(d)
            \/ UserEditsSource
  <2>1. /\ pc' = pc /\ UNCHANGED <<signals, stack, found>>
        /\ touched \subseteq touched'
        /\ exists' = exists \/ "dirs" \in touched'
    BY <1>11, EditingStep
  <2>2. StackOrder' /\ FoundOrder' /\ ScanPoint'
    BY <2>1 DEF ScanInv, StackOrder, FoundOrder, PlaceOf, ScanPoint
  <2>3. BehindScan'
    BY <2>1 DEF ScanInv, BehindScan, PlaceOf, CandidateAt, TemplateOf
  <2>4. Covered'
    BY <2>1 DEF ScanInv, Covered, Reachable, Ahead, InScope, IsCandidate
  <2>5. QED
    BY <2>2, <2>3, <2>4 DEF ScanInv
<1>12. QED
  BY <1>2, <1>3, <1>4, <1>5, <1>6, <1>7, <1>8, <1>9, <1>10, <1>11
     DEF ScaffoldNext

-----------------------------------------------------------------------------
(* The writes *)

LEMMA WriteInit == ScaffoldInit => WriteInv
<1> SUFFICES ASSUME ScaffoldInit PROVE WriteInv
  OBVIOUS
<1>1. /\ pc = "start" /\ plans = <<>> /\ found = <<>> /\ wrote = {} /\ next = 1
      /\ DOMAIN plans = {} /\ Len(plans) = 0 /\ Len(found) = 0
  BY DEF ScaffoldInit
<1>2. QED
  BY <1>1 DEF WriteInv, NothingYet, PlansFollow, WrittenSoFar, StillPlannable,
              Scanning, Loading, Asking, Writing, Succeeded

\* No two plans write the same file.
LEMMA TargetsDiffer ==
    ASSUME ScaffoldTypeOK, FoundOrder, PlansFollow,
           NEW i \in DOMAIN plans, NEW j \in DOMAIN plans, i # j
    PROVE  plans[i].target # plans[j].target
<1>1. /\ i \in DOMAIN found /\ j \in DOMAIN found /\ i \in Nat /\ j \in Nat
      /\ found[i].path \in Dirs /\ found[j].path \in Dirs
  <2>1. /\ Len(plans) \in Nat /\ DOMAIN plans = 1 .. Len(plans)
        /\ Len(found) \in Nat /\ DOMAIN found = 1 .. Len(found)
    BY ListTypes
  <2>2. Len(plans) <= Len(found)
    BY DEF PlansFollow
  <2>3. i \in DOMAIN found /\ j \in DOMAIN found /\ i \in Nat /\ j \in Nat
    BY <2>1, <2>2
  <2>4. QED
    BY <2>3, ListTypes
<1>2. PlaceOf(i) < PlaceOf(j) \/ PlaceOf(j) < PlaceOf(i)
  BY <1>1 DEF FoundOrder
<1>3. PlaceOf(i) # PlaceOf(j)
  BY <1>1, <1>2, PlaceType DEF PlaceOf
<1>4. QED
  BY <1>3 DEF PlansFollow, PlaceOf

\* As long as nothing is planned, nothing is written.
LEMMA BeforePlans ==
    ASSUME WriteInv, UNCHANGED <<plans, next, wrote>>, Len(found') \in Nat,
           pc \in Scanning \cup Loading,
           \/ pc' \in Scanning
           \/ pc' \in Loading \cup {"plan"} /\ found' # <<>>
           \/ pc' = "done" /\ opts'.list
    PROVE  WriteInv'
<1>1. /\ plans' = <<>> /\ next' = 1 /\ wrote' = {}
      /\ DOMAIN plans' = {} /\ Len(plans') = 0
  BY DEF WriteInv, NothingYet
<1>2. PlansFollow'
  BY <1>1 DEF PlansFollow, Scanning, Loading, Asking, Writing, Succeeded
<1>3. QED
  BY <1>1, <1>2
     DEF WriteInv, NothingYet, WrittenSoFar, StillPlannable,
         Scanning, Loading, Asking, Writing, Succeeded

\* init ends without success.
LEMMA Unfinished ==
    ASSUME WriteInv, UNCHANGED <<plans, next, wrote, found>>,
           pc' \in {"refused", "cancelled", "failed", "killed"},
           pc' \in {"refused", "cancelled"}
              => pc \in Scanning \cup Loading \cup Asking
    PROVE  WriteInv'
<1>1. NothingYet'
  BY DEF WriteInv, NothingYet, Scanning, Loading, Asking
<1>2. PlansFollow'
  BY DEF WriteInv, PlansFollow, Loading, Asking, Writing, Succeeded
<1>3. QED
  BY <1>1, <1>2
     DEF WriteInv, WrittenSoFar, StillPlannable, Asking, Writing, Succeeded

LEMMA WriteStep ==
    ASSUME ScaffoldTypeOK, ScanInv, WriteInv, ScaffoldTypeOK',
           [ScaffoldNext]_scaffoldVars
    PROVE  WriteInv'
<1> USE DEF choice, Goto
<1>0. /\ Len(found) \in Nat /\ Len(found') \in Nat /\ next \in Nat
      /\ Len(plans) \in Nat /\ DOMAIN plans = 1 .. Len(plans)
  <2>1. Len(found') \in Nat
    BY DEF ScaffoldTypeOK
  <2>2. QED
    BY <2>1, ListTypes DEF ScaffoldTypeOK
<1>1. CASE UNCHANGED scaffoldVars
  BY <1>1
     DEF scaffoldVars, tree, WriteInv, NothingYet, PlansFollow, WrittenSoFar,
         StillPlannable, Succeeded, LastBegun, Whole, Changed, Plannable
<1>2. CASE StartFails \/ VisitFails \/ RefuseMany \/ AnswerQuit \/ LoadFails
             \/ PlanRefused \/ PlanFails \/ AnswerNo \/ WriteFails \/ Crash
  <2>1. /\ pc' \in {"refused", "cancelled", "failed", "killed"}
        /\ pc' \in {"refused", "cancelled"}
              => pc \in Scanning \cup Loading \cup Asking
        /\ UNCHANGED <<plans, next, wrote, found>>
    BY <1>2, EndingStep
  <2>2. QED
    BY <2>1, Unfinished
<1>3. CASE StartAt \/ StartScan \/ Visit \/ ScanEnds \/ SelectRoot \/ SelectAll
             \/ AnswerOne \/ LoadSource \/ ReadSource
  <2>1. /\ UNCHANGED <<plans, next, wrote>> /\ pc \in Scanning \cup Loading
        /\ \/ pc' \in Scanning
           \/ pc' \in Loading \cup {"plan"}
           \/ pc' = "done" /\ opts'.list
    BY <1>3 DEF StartAt, StartScan, Visit, ScanEnds, SelectRoot, SelectAll,
                AnswerOne, LoadSource, ReadSource, Select, Prepared, Scanning,
                Loading
  <2>2. pc' \in Loading \cup {"plan"} => found' # <<>>
    <3>1. CASE StartScan \/ Visit \/ ScanEnds
      BY <3>1 DEF StartScan, Visit, ScanEnds, Loading
    <3>2. CASE StartAt \/ SelectRoot \/ SelectAll \/ AnswerOne
      <4>1. \/ found' = found /\ found # <<>>
            \/ \E candidate : found' = <<candidate>>
        BY <3>2 DEF StartAt, SelectRoot, SelectAll, AnswerOne, Select
      <4>2. QED
        BY <4>1
    <3>3. CASE LoadSource \/ ReadSource
      BY <3>3 DEF LoadSource, ReadSource, WriteInv, PlansFollow, Loading
    <3>4. QED
      BY <1>3, <3>1, <3>2, <3>3
  <2>3. QED
    BY <1>0, <2>1, <2>2, BeforePlans
<1>4. CASE PlanOne
  <2>1. /\ pc = "plan" /\ pc' = pc /\ Len(plans) < Len(found)
        /\ Plannable(Target.path) /\ Target = found[Len(plans) + 1]
        /\ plans' = Append(plans, [target  |-> Target.path,
                                   content |-> ContentFor(Target)])
        /\ UNCHANGED <<tree, choice, next, wrote>>
    BY <1>4 DEF PlanOne, Target
  <2>2. PICK n \in Nat : n = Len(plans)
    BY <1>0
  <2>3. /\ DOMAIN plans = 1 .. n /\ DOMAIN plans' = 1 .. (n + 1)
        /\ Len(plans') = n + 1 /\ \A i \in 1 .. n : plans'[i] = plans[i]
        /\ plans'[n + 1].target = Target.path
    BY <1>0, <2>1, <2>2 DEF ScaffoldTypeOK
  <2>4. NothingYet'
    BY <2>1 DEF WriteInv, NothingYet, Scanning, Loading, Asking
  <2>5. PlansFollow'
    <3>1. Len(plans') <= Len(found')
      BY <1>0, <2>1, <2>2, <2>3
    <3>2. \A i \in DOMAIN plans' : plans'[i].target = found'[i].path
      BY <2>1, <2>2, <2>3 DEF WriteInv, PlansFollow
    <3>3. found' # <<>>
      BY <2>1 DEF WriteInv, PlansFollow, Asking
    <3>4. QED
      BY <2>1, <3>1, <3>2, <3>3 DEF PlansFollow, Writing, Succeeded
  <2>6. StillPlannable'
    <3>1. \A i \in 1 .. n :
             Plannable(plans[i].target) \/ Changed(plans[i].target)
      BY <2>1, <2>3 DEF WriteInv, StillPlannable, Asking, Writing
    <3>2. \A i \in DOMAIN plans' :
             Plannable(plans'[i].target) \/ Changed(plans'[i].target)
      BY <2>1, <2>3, <3>1
    <3>3. QED
      BY <2>1, <3>2 DEF StillPlannable, Plannable, Changed, tree
  <2>7. QED
    BY <2>1, <2>4, <2>5, <2>6
       DEF WriteInv, WrittenSoFar, Writing, Succeeded
<1>5. CASE PlanEnds
  <2>1. /\ pc = "plan" /\ pc' \in {"truncate", "confirm"} /\ next = 1
        /\ Len(plans) = Len(found) /\ wrote = {} /\ found # <<>>
        /\ UNCHANGED <<tree, choice, plans, next, wrote>>
    BY <1>5 DEF PlanEnds, WriteInv, NothingYet, PlansFollow, Asking
  <2>2. next \in DOMAIN plans
    <3>1. Len(found) # 0
      BY <2>1 DEF ScaffoldTypeOK
    <3>2. QED
      BY <1>0, <2>1, <3>1
  <2>3. NothingYet'
    BY <2>1 DEF NothingYet, Scanning, Loading, Asking
  <2>4. PlansFollow'
    BY <1>0, <2>1, <2>2 DEF WriteInv, PlansFollow, Succeeded
  <2>5. WrittenSoFar'
    <3>1. 1 .. LastBegun' = {} /\ 1 .. (next' - 1) = {}
      BY <2>1 DEF LastBegun
    <3>2. QED
      BY <2>1, <3>1 DEF WrittenSoFar
  <2>6. StillPlannable'
    BY <2>1 DEF WriteInv, StillPlannable, Asking, Writing, Plannable, Changed,
                tree
  <2>7. QED
    BY <2>3, <2>4, <2>5, <2>6 DEF WriteInv
<1>6. CASE AnswerYes
  <2>1. /\ pc = "confirm" /\ next \in DOMAIN plans /\ wrote = {}
        /\ \/ next' = next + 1 /\ next < Len(plans) /\ pc' = pc
           \/ next' = 1 /\ pc' = "truncate"
        /\ UNCHANGED <<tree, choice, plans, wrote>>
    BY <1>6 DEF AnswerYes, WriteInv, NothingYet, PlansFollow, Asking
  <2>2. next' \in DOMAIN plans'
    BY <1>0, <2>1
  <2>3. NothingYet'
    BY <2>1 DEF NothingYet, Scanning, Loading, Asking
  <2>4. PlansFollow'
    <3>1. Len(plans) = Len(found) /\ found # <<>>
      BY <2>1 DEF WriteInv, PlansFollow, Asking
    <3>2. QED
      BY <1>0, <2>1, <2>2, <3>1 DEF WriteInv, PlansFollow, Succeeded
  <2>5. WrittenSoFar'
    <3>1. CASE pc' = "truncate"
      <4>1. 1 .. LastBegun' = {} /\ 1 .. (next' - 1) = {}
        BY <2>1, <3>1 DEF LastBegun
      <4>2. QED
        BY <2>1, <4>1 DEF WrittenSoFar
    <3>2. CASE pc' # "truncate"
      BY <2>1, <3>2 DEF WrittenSoFar, Writing, Succeeded
    <3>3. QED
      BY <3>1, <3>2
  <2>6. StillPlannable'
    BY <2>1 DEF WriteInv, StillPlannable, Asking, Writing, Plannable, Changed,
                tree
  <2>7. QED
    BY <2>3, <2>4, <2>5, <2>6 DEF WriteInv
<1>7. CASE Truncate \/ Write
  <2>1. /\ pc \in Writing /\ next \in DOMAIN plans /\ Len(plans) = Len(found)
        /\ found # <<>>
        /\ UNCHANGED <<exists, signals, source, edits, touched, choice, copy,
                       plans>>
        /\ wrote' = wrote \cup {plans[next].target}
    BY <1>7 DEF Truncate, Write, Writes, Writing, WriteInv, PlansFollow
  <2>2. PICK n \in DOMAIN plans : n = next
    BY <2>1
  <2>3. n \in Nat /\ n >= 1 /\ n <= Len(plans)
    BY <1>0, <2>2
  <2>4. ASSUME NEW i \in DOMAIN plans, i # n
        PROVE  file'[plans[i].target] = file[plans[i].target]
    <3>1. plans[i].target # plans[n].target
      BY <2>4, TargetsDiffer DEF ScanInv, WriteInv
    <3>2. \E content : file' = [file EXCEPT ![plans[n].target] = content]
      BY <1>7, <2>2 DEF Truncate, Write, Writes
    <3>3. QED
      BY <3>1, <3>2, ListTypes DEF ScaffoldTypeOK
  <2>5. \A i \in DOMAIN plans : i # n =>
           /\ Whole(i)' <=> Whole(i)
           /\ Plannable(plans[i].target)' <=> Plannable(plans[i].target)
    BY <2>1, <2>4 DEF Whole, Plannable
  <2>6. \A i \in DOMAIN plans :
           Changed(plans[i].target)' <=> Changed(plans[i].target)
    BY <2>1 DEF Changed
  <2>7. CASE Truncate
    <3>1. pc = "truncate" /\ pc' = "write" /\ next' = n
      BY <2>2, <2>7 DEF Truncate
    <3>2. LastBegun = n - 1 /\ LastBegun' = n
      BY <2>2, <3>1 DEF LastBegun
    <3>3. WrittenSoFar'
      <4>1. /\ wrote = {plans[i].target : i \in 1 .. (n - 1)}
            /\ \A i \in 1 .. (n - 1) : Whole(i) \/ Changed(plans[i].target)
        BY <2>2, <3>1, <3>2 DEF WriteInv, WrittenSoFar, Writing
      <4>2. 1 .. n = (1 .. (n - 1)) \cup {n}
        BY <2>3
      <4>3. wrote' = {plans'[i].target : i \in 1 .. n}
        BY <2>1, <2>2, <4>1, <4>2
      <4>4. \A i \in 1 .. (n - 1) : i \in DOMAIN plans /\ i # n
        BY <1>0, <2>3
      <4>5. \A i \in 1 .. (n - 1) : (Whole(i) \/ Changed(plans[i].target))'
        BY <2>5, <2>6, <4>1, <4>4
      <4>6. QED
        BY <3>1, <3>2, <4>3, <4>5 DEF WrittenSoFar
    <3>4. StillPlannable'
      <4>1. \A i \in DOMAIN plans : n < i => n - 1 < i /\ i # n
        BY <1>0, <2>3
      <4>2. \A i \in DOMAIN plans :
               n < i => (Plannable(plans[i].target) \/ Changed(plans[i].target))'
        BY <2>5, <2>6, <3>1, <3>2, <4>1
           DEF WriteInv, StillPlannable, Writing
      <4>3. QED
        BY <2>1, <3>1, <3>2, <4>2 DEF StillPlannable, Writing
    <3>5. NothingYet' /\ PlansFollow'
      BY <2>1, <2>2, <3>1
         DEF WriteInv, NothingYet, PlansFollow, Scanning, Loading, Asking,
             Succeeded
    <3>6. QED
      BY <3>3, <3>4, <3>5 DEF WriteInv
  <2>8. CASE Write
    <3>1. /\ pc = "write" /\ next' = n + 1 /\ file'[plans[n].target]
                                                  = plans[n].content
          /\ pc' = IF n < Len(plans) THEN "truncate" ELSE "done"
      BY <2>2, <2>8, ListTypes DEF Write, Writes, ScaffoldTypeOK
    <3>2. LastBegun = n /\ LastBegun' = n
      BY <2>2, <2>3, <3>1 DEF LastBegun
    <3>3. WrittenSoFar'
      <4>1. /\ wrote = {plans[i].target : i \in 1 .. n}
            /\ \A i \in 1 .. (n - 1) : Whole(i) \/ Changed(plans[i].target)
        BY <2>2, <3>1, <3>2 DEF WriteInv, WrittenSoFar, Writing
      <4>2. n \in 1 .. n
        BY <2>3
      <4>3. wrote' = {plans'[i].target : i \in 1 .. n}
        BY <2>1, <2>2, <4>1, <4>2
      <4>4. Whole(n)'
        BY <2>1, <3>1 DEF Whole
      <4>5. \A i \in 1 .. n : i = n \/ /\ i \in 1 .. (n - 1)
                                       /\ i \in DOMAIN plans /\ i # n
        BY <1>0, <2>3
      <4>6. \A i \in 1 .. n : (Whole(i) \/ Changed(plans[i].target))'
        BY <2>5, <2>6, <4>1, <4>4, <4>5
      <4>7. next' - 1 = n
        BY <2>3, <3>1
      <4>8. QED
        BY <3>2, <4>3, <4>6, <4>7 DEF WrittenSoFar
    <3>4. StillPlannable'
      <4>1. \A i \in DOMAIN plans : n < i => i # n
        BY <1>0, <2>3
      <4>2. \A i \in DOMAIN plans :
               n < i => (Plannable(plans[i].target) \/ Changed(plans[i].target))'
        BY <2>5, <2>6, <3>1, <3>2, <4>1
           DEF WriteInv, StillPlannable, Writing
      <4>3. QED
        BY <2>1, <3>1, <3>2, <4>2 DEF StillPlannable, Asking, Writing
    <3>5. n < Len(plans) => n + 1 \in DOMAIN plans
      BY <1>0, <2>3
    <3>6. ~(n < Len(plans)) => n + 1 = Len(plans) + 1
      BY <1>0, <2>3
    <3>7. NothingYet' /\ PlansFollow'
      BY <2>1, <2>2, <3>1, <3>5, <3>6
         DEF WriteInv, NothingYet, PlansFollow, Scanning, Loading, Asking,
             Writing, Succeeded
    <3>8. QED
      BY <3>3, <3>4, <3>7 DEF WriteInv
  <2>9. QED
    BY <1>7, <2>7, <2>8
<1>8. CASE \/ \E d \in Dirs : UserCreates(d) \/ UserDeletes(d)
                                 \/ UserRemovesDir(d)
           \/ UserEditsSource
  <2>1. /\ UNCHANGED <<pc, choice, plans, next, wrote>>
        /\ touched \subseteq touched'
        /\ \A d \in Dirs : file'[d] = file[d] \/ Changed(d)'
    BY <1>8, EditingStep
  <2>2. \A d \in Dirs : Changed(d) => Changed(d)'
    BY <2>1 DEF Changed
  <2>3. \A i \in DOMAIN plans :
           /\ Whole(i) \/ Changed(plans[i].target)
                 => (Whole(i) \/ Changed(plans[i].target))'
           /\ Plannable(plans[i].target) \/ Changed(plans[i].target)
                 => (Plannable(plans[i].target) \/ Changed(plans[i].target))'
    BY <2>1, <2>2, ListTypes DEF Whole, Plannable
  <2>4. NothingYet' /\ PlansFollow'
    BY <2>1 DEF WriteInv, NothingYet, PlansFollow, Succeeded
  <2>5. WrittenSoFar'
    <3>1. CASE pc \in Writing \/ Succeeded
      <4>1. 1 .. (next - 1) \subseteq DOMAIN plans
        BY <1>0, <3>1 DEF WriteInv, PlansFollow
      <4>2. QED
        BY <2>1, <2>3, <3>1, <4>1
           DEF WriteInv, WrittenSoFar, Succeeded, LastBegun
    <3>2. CASE ~(pc \in Writing \/ Succeeded)
      BY <2>1, <3>2 DEF WrittenSoFar, Succeeded
    <3>3. QED
      BY <3>1, <3>2
  <2>6. StillPlannable'
    BY <2>1, <2>3 DEF WriteInv, StillPlannable, LastBegun
  <2>7. QED
    BY <2>4, <2>5, <2>6 DEF WriteInv
<1>9. QED
  BY <1>1, <1>2, <1>3, <1>4, <1>5, <1>6, <1>7, <1>8 DEF ScaffoldNext

-----------------------------------------------------------------------------
(* The copies *)

LEMMA CopyInit == ScaffoldInit => CopyInv
BY DEF ScaffoldInit, CopyInv, ReadsAgree, PlansFit, WritesPlanned, Planning,
       Asking, Writing

\* Others make no copies, and are noted when they edit the source.
LEMMA EditingCopies ==
    ASSUME ScaffoldTypeOK,
           \/ \E d \in Dirs : UserCreates(d) \/ UserDeletes(d)
                                 \/ UserRemovesDir(d)
           \/ UserEditsSource
    PROVE  /\ touched \subseteq touched'
           /\ "source" \notin touched' => source' = source
           /\ \A d \in Dirs : file'[d] = file[d] \/ file'[d] \notin Sources
<1>0. "none" \notin Sources /\ "user" \notin Sources
  BY ScaffoldAssumption
<1>1. ASSUME NEW d \in Dirs, UserCreates(d) \/ UserDeletes(d)
      PROVE  /\ touched \subseteq touched' /\ source' = source
             /\ \A e \in Dirs : file'[e] = file[e] \/ file'[e] \notin Sources
  <2>1. PICK content \in {"none", "user"} :
          file' = [file EXCEPT ![d] = content]
    BY <1>1 DEF UserCreates, UserDeletes
  <2>2. \A e \in Dirs : file'[e] = file[e] \/ file'[e] = content
    BY <2>1 DEF ScaffoldTypeOK
  <2>3. touched \subseteq touched' /\ source' = source
    BY <1>1 DEF UserCreates, UserDeletes, Edit
  <2>4. QED
    BY <1>0, <2>2, <2>3
<1>2. ASSUME NEW d \in Dirs, UserRemovesDir(d)
      PROVE  /\ touched \subseteq touched' /\ source' = source
             /\ \A e \in Dirs : file'[e] = file[e] \/ file'[e] \notin Sources
  BY <1>0, <1>2 DEF UserRemovesDir, Edit
<1>3. CASE UserEditsSource
  BY <1>3 DEF UserEditsSource, Edit
<1>4. QED
  BY <1>1, <1>2, <1>3

\* A step that plans and writes nothing and reads no source.
LEMMA NothingCopied ==
    ASSUME CopyInv, UNCHANGED <<file, wrote, plans, opts, copy>>,
           UNCHANGED <<source, touched>>, pc' # "read",
           opts.from /\ pc' \in Asking \cup Writing => Planning
    PROVE  CopyInv'
<1>1. ReadsAgree'
  BY DEF CopyInv, ReadsAgree, Copying, Planning, copy
<1>2. PlansFit' /\ WritesPlanned'
  BY DEF CopyInv, PlansFit, WritesPlanned, copy
<1>3. QED
  BY <1>1, <1>2 DEF CopyInv

LEMMA CopyStep ==
    ASSUME ScaffoldTypeOK, WriteInv, CopyInv, [ScaffoldNext]_scaffoldVars
    PROVE  CopyInv'
<1> USE DEF choice, tree, copy, Goto
<1>1. CASE UNCHANGED scaffoldVars
  BY <1>1 DEF scaffoldVars, CopyInv, ReadsAgree, PlansFit, WritesPlanned,
              Copying, Planning
<1>2. CASE StartFails \/ VisitFails \/ RefuseMany \/ AnswerQuit \/ LoadFails
             \/ PlanRefused \/ PlanFails \/ AnswerNo \/ WriteFails \/ Crash
  <2>1. /\ pc' \in {"refused", "cancelled", "failed", "killed"}
        /\ UNCHANGED <<tree, choice, copy, plans, next, wrote>>
    BY <1>2, EndingStep
  <2>2. QED
    BY <2>1, NothingCopied DEF Asking, Writing
<1>3. CASE StartAt \/ StartScan \/ Visit \/ ScanEnds \/ SelectRoot \/ SelectAll
             \/ AnswerOne
  <2>1. /\ pc' \in Scanning \cup {"done", "load", "plan"}
        /\ pc' = "plan" => ~opts.from
        /\ UNCHANGED <<tree, opts, copy, plans, wrote>>
    BY <1>3 DEF StartAt, StartScan, Visit, ScanEnds, SelectRoot, SelectAll,
                AnswerOne, Select, Prepared, Scanning
  <2>2. QED
    BY <2>1, NothingCopied DEF Asking, Writing, Scanning
<1>4. CASE LoadSource
  <2>1. /\ pc = "load" /\ pc' = "read" /\ source \in Valid
        /\ validated' = source
        /\ UNCHANGED <<tree, choice, payload, plans, wrote>>
    BY <1>4 DEF LoadSource
  <2>2. plans = <<>>
    BY <2>1 DEF WriteInv, NothingYet, Loading
  <2>3. QED
    BY <2>1, <2>2
       DEF CopyInv, ReadsAgree, PlansFit, WritesPlanned, Planning, Asking,
           Writing
<1>5. CASE ReadSource
  <2>1. /\ pc = "read" /\ pc' = "plan" /\ payload' = source
        /\ UNCHANGED <<tree, choice, validated, plans, wrote>>
    BY <1>5 DEF ReadSource
  <2>2. plans = <<>>
    BY <2>1 DEF WriteInv, NothingYet, Loading
  <2>3. QED
    BY <2>1, <2>2
       DEF CopyInv, ReadsAgree, PlansFit, WritesPlanned, Copying
<1>6. CASE PlanOne
  <2>1. /\ pc = "plan" /\ pc' = "plan" /\ Copyable(Target.path)
        /\ plans' = Append(plans, [target  |-> Target.path,
                                   content |-> ContentFor(Target)])
        /\ UNCHANGED <<tree, choice, copy, wrote>>
    BY <1>6 DEF PlanOne
  <2>2. PICK n \in Nat : n = Len(plans)
    BY ListTypes
  <2>3. /\ DOMAIN plans = 1 .. n /\ DOMAIN plans' = 1 .. (n + 1)
        /\ \A i \in 1 .. n : plans'[i] = plans[i]
        /\ plans'[n + 1].target = Target.path
        /\ plans'[n + 1].content = ContentFor(Target)
    BY <2>1, <2>2 DEF ScaffoldTypeOK
  <2>4. ReadsAgree'
    BY <2>1 DEF CopyInv, ReadsAgree, Copying, Planning, Asking
  <2>5. PlansFit'
    <3> SUFFICES ASSUME opts.from, NEW i \in 1 .. (n + 1)
                 PROVE  /\ plans'[i].content = payload
                        /\ plans'[i].target \notin Escaping[validated]
      BY <2>1, <2>3 DEF PlansFit
    <3>1. CASE i \in 1 .. n
      BY <2>3, <3>1 DEF CopyInv, PlansFit
    <3>2. CASE i = n + 1
      BY <2>1, <2>3, <3>2 DEF ContentFor, Copyable
    <3>3. QED
      BY <3>1, <3>2
  <2>6. WritesPlanned'
    <3>1. \A i \in DOMAIN plans : i \in DOMAIN plans' /\ plans'[i] = plans[i]
      BY <2>3
    <3>2. QED
      BY <2>1, <3>1 DEF CopyInv, WritesPlanned
  <2>7. QED
    BY <2>4, <2>5, <2>6 DEF CopyInv
<1>7. CASE PlanEnds \/ AnswerYes
  <2>1. /\ pc \in Asking /\ pc' \in Asking \cup Writing
        /\ UNCHANGED <<tree, choice, copy, plans, wrote>>
    BY <1>7 DEF PlanEnds, AnswerYes, Asking, Writing
  <2>2. pc' # "read" /\ Planning
    BY <2>1 DEF Asking, Writing, Planning
  <2>3. QED
    BY <2>1, <2>2, NothingCopied
<1>8. CASE Truncate \/ Write
  <2>1. /\ pc \in Writing /\ pc' \in Writing \cup {"done"}
        /\ next \in DOMAIN plans
        /\ UNCHANGED <<source, touched, choice, copy, plans>>
    BY <1>8 DEF Truncate, Write, Writes, Writing, WriteInv, PlansFollow
  <2>2. PICK n \in DOMAIN plans : n = next
    BY <2>1
  <2>3. PICK content :
          /\ content \notin Sources \/ content = plans[n].content
          /\ file' = [file EXCEPT ![plans[n].target] = content]
          /\ wrote' = wrote \cup {plans[n].target}
    BY <1>8, <2>2, ScaffoldAssumption DEF Truncate, Write, Writes
  <2>4. ReadsAgree' /\ PlansFit'
    BY <2>1 DEF CopyInv, ReadsAgree, PlansFit, Copying, Planning, Writing
  <2>5. WritesPlanned'
    <3> SUFFICES ASSUME NEW d \in wrote', file'[d] \in Sources
                 PROVE  \E i \in DOMAIN plans : /\ plans[i].target = d
                                                /\ plans[i].content = file'[d]
      BY <2>1 DEF WritesPlanned
    <3>1. file' = [file EXCEPT ![plans[n].target] = content]
          /\ DOMAIN file = Dirs /\ plans[n].target \in Dirs
          /\ wrote \subseteq Dirs
      BY <2>3, ListTypes DEF ScaffoldTypeOK
    <3>2. CASE d = plans[n].target
      BY <2>3, <3>1, <3>2
    <3>3. CASE d # plans[n].target
      <4>1. d \in wrote /\ file'[d] = file[d]
        BY <2>3, <3>1, <3>3
      <4>2. QED
        BY <4>1 DEF CopyInv, WritesPlanned
    <3>4. QED
      BY <3>2, <3>3
  <2>6. QED
    BY <2>4, <2>5 DEF CopyInv
<1>9. CASE \/ \E d \in Dirs : UserCreates(d) \/ UserDeletes(d)
                                 \/ UserRemovesDir(d)
           \/ UserEditsSource
  <2>1. UNCHANGED <<pc, choice, copy, plans, wrote>>
    BY <1>9, EditingStep
  <2>2. /\ "source" \notin touched' =>
              source' = source /\ "source" \notin touched
        /\ \A d \in Dirs : file'[d] = file[d] \/ file'[d] \notin Sources
    BY <1>9, EditingCopies
  <2>3. ReadsAgree'
    BY <2>1, <2>2 DEF CopyInv, ReadsAgree, Copying, Planning
  <2>4. PlansFit'
    BY <2>1 DEF CopyInv, PlansFit
  <2>5. WritesPlanned'
    <3>1. wrote \subseteq Dirs
      BY DEF ScaffoldTypeOK
    <3>2. QED
      BY <2>1, <2>2, <3>1 DEF CopyInv, WritesPlanned
  <2>6. QED
    BY <2>3, <2>4, <2>5 DEF CopyInv
<1>10. QED
  BY <1>1, <1>2, <1>3, <1>4, <1>5, <1>6, <1>7, <1>8, <1>9 DEF ScaffoldNext

-----------------------------------------------------------------------------
(* The theorems about InitScaffold *)

LEMMA ScaffoldInvariance == ScaffoldSpec => []ScaffoldInv
<1>1. ScaffoldInit => ScaffoldInv
  BY ScaffoldTypeInit, ScanInit, WriteInit, CopyInit DEF ScaffoldInv
<1>2. ScaffoldInv /\ [ScaffoldNext]_scaffoldVars => ScaffoldInv'
  BY ScaffoldTypeStep, ScanStep, WriteStep, CopyStep DEF ScaffoldInv
<1>3. QED
  BY <1>1, <1>2, PTL DEF ScaffoldSpec

\* Every variable of InitScaffold keeps its type, for any tree, options and
\* source.
THEOREM ScaffoldTypeCorrect == ScaffoldSpec => []ScaffoldTypeOK
<1>1. ScaffoldInv => ScaffoldTypeOK
  BY DEF ScaffoldInv
<1>2. QED
  BY <1>1, ScaffoldInvariance, PTL

\* The scan finds the candidates in scope, all of them and in order, in a tree
\* of any shape and depth whose directories stay.
THEOREM EveryCandidateFound == ScaffoldSpec => []ScanFindsAll
<1>1. ScaffoldInv => ScanFindsAll
  <2> SUFFICES ASSUME ScaffoldInv, pc = "select", "dirs" \notin touched
               PROVE  /\ {found[i].path : i \in DOMAIN found}
                            = {d \in Dirs : InScope(d) /\ IsCandidate(d)}
                      /\ \A i \in DOMAIN found :
                            found[i] = CandidateAt(found[i].path)
                      /\ \A i, j \in DOMAIN found : i < j =>
                            Place(found[i].path) < Place(found[j].path)
    BY DEF ScanFindsAll
  <2>1. stack = <<>> /\ pc \in Scanning
    BY DEF ScaffoldInv, ScanInv, ScanPoint, Scanning
  <2>2. \A d \in Dirs : ~Ahead(d)
    BY <2>1 DEF Ahead
  <2>3. QED
    BY <2>1, <2>2
       DEF ScaffoldInv, ScanInv, Covered, BehindScan, FoundOrder, PlaceOf
<1>2. QED
  BY <1>1, ScaffoldInvariance, PTL

\* A refused or cancelled init has written nothing, for any number of targets.
THEOREM RefusedLeavesAll == ScaffoldSpec => []RefusalWritesNothing
<1>1. ScaffoldInv => RefusalWritesNothing
  BY DEF ScaffoldInv, WriteInv, NothingYet, RefusalWritesNothing
<1>2. QED
  BY <1>1, ScaffoldInvariance, PTL

\* A successful init has written every target whole, and no other file.
THEOREM SuccessIsWhole == ScaffoldSpec => []SuccessWritesAll
<1>1. ScaffoldInv => SuccessWritesAll
  <2> SUFFICES ASSUME ScaffoldInv, pc = "done", ~opts.list
               PROVE  /\ wrote = {found[i].path : i \in DOMAIN found}
                      /\ \A i \in DOMAIN plans :
                            \/ file[plans[i].target] = plans[i].content
                            \/ touched \cap {plans[i].target, "dirs"} # {}
    BY DEF SuccessWritesAll
  <2>1. /\ Len(plans) = Len(found) /\ next = Len(plans) + 1
        /\ \A i \in DOMAIN plans : plans[i].target = found[i].path
        /\ wrote = {plans[i].target : i \in 1 .. LastBegun}
        /\ \A i \in 1 .. (next - 1) : Whole(i) \/ Changed(plans[i].target)
    BY DEF ScaffoldInv, WriteInv, PlansFollow, WrittenSoFar, Succeeded
  <2>2. /\ Len(plans) \in Nat /\ DOMAIN plans = 1 .. Len(plans)
        /\ DOMAIN found = 1 .. Len(found)
    BY ListTypes DEF ScaffoldInv
  <2>3. LastBegun = Len(plans) /\ next - 1 = Len(plans)
    BY <2>1, <2>2 DEF LastBegun
  <2>4. QED
    BY <2>1, <2>2, <2>3 DEF Whole, Changed
<1>2. QED
  BY <1>1, ScaffoldInvariance, PTL

\* A write replaces only what was there to be replaced when it was planned,
\* unless others changed it since, for any number of targets and questions.
THEOREM ExistingAdaptersStay == ScaffoldSpec => ExistingStay
<1>1. ScaffoldInv /\ Truncate =>
        LET d == plans[next].target
        IN \/ file[d] = "none"
           \/ file[d] # "link" /\ opts.force
           \/ touched \cap {d, "dirs"} # {}
  <2> SUFFICES ASSUME ScaffoldInv, Truncate
               PROVE  Plannable(plans[next].target)
                         \/ Changed(plans[next].target)
    BY DEF Plannable, Changed
  <2>1. pc = "truncate" /\ next \in DOMAIN plans /\ next \in Nat
    BY DEF Truncate, ScaffoldInv, ScaffoldTypeOK, WriteInv, PlansFollow,
           Writing
  <2>2. LastBegun < next
    BY <2>1 DEF LastBegun
  <2>3. QED
    BY <2>1, <2>2 DEF ScaffoldInv, WriteInv, StillPlannable, Writing
<1>2. ScaffoldInv /\ [ScaffoldNext]_scaffoldVars =>
        [Truncate =>
           LET d == plans[next].target
           IN \/ file[d] = "none"
              \/ file[d] # "link" /\ opts.force
              \/ touched \cap {d, "dirs"} # {}]_scaffoldVars
  BY <1>1
<1>3. QED
  BY <1>2, ScaffoldInvariance, PTL DEF ScaffoldSpec, ExistingStay

\* Copies of a source that stayed as it was are valid and fit where they are,
\* for any number of targets, also when the run fails half-way.
THEOREM CopiesAreValid == ScaffoldSpec => []CopiesFit
<1>1. ScaffoldInv => CopiesFit
  <2> SUFFICES ASSUME ScaffoldInv, opts.from, "source" \notin touched,
                      NEW d \in wrote, file[d] \in Sources
               PROVE  file[d] \in Valid /\ d \notin Escaping[file[d]]
    BY DEF CopiesFit
  <2>1. PICK i \in DOMAIN plans : /\ plans[i].target = d
                                  /\ plans[i].content = file[d]
    BY DEF ScaffoldInv, CopyInv, WritesPlanned
  <2>2. Planning /\ Copying
    BY <2>1 DEF Planning, Copying
  <2>3. validated = source /\ source \in Valid /\ payload = source
    BY <2>2 DEF ScaffoldInv, CopyInv, ReadsAgree
  <2>4. file[d] = payload /\ d \notin Escaping[validated]
    BY <2>1 DEF ScaffoldInv, CopyInv, PlansFit
  <2>5. QED
    BY <2>3, <2>4
<1>2. QED
  BY <1>1, ScaffoldInvariance, PTL
=============================================================================
