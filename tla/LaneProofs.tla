----------------------------- MODULE LaneProofs -----------------------------
(***************************************************************************)
(* Proofs about LaneReassign and LaneUp, for every set of processes, apps, *)
(* checkouts, adapters, branches and ports, and any number of switches.    *)
(*                                                                         *)
(* The first part is about the catalog: what a reassign took from a row it *)
(* read without the lock stays consistent with the row it writes.  The     *)
(* second part is about what runs: it goes by the catalog as long as       *)
(* nothing came in between, and the ports that run stay out of the catalog *)
(* rows of others.                                                         *)
(***************************************************************************)
EXTENDS LaneUp, PortAllocationProofs, FiniteSetTheorems

\* The adapters that a checkout may have.
Configs == {t.config : t \in UNION {Trees[at] : at \in Checkouts}}

\* What full uniqueness needs: append leaves the rows where they are, or no
\* adapter declares a third service that could be given the port that a row
\* should have left.
NoLostPortMove ==
    ~AppendMoves \/ \A config \in Configs : Len(config.ports) <= 2

\* A command that waits for the lock is one that the lemmas are about, with the
\* adapter of some checkout; its mode was derived with the lane it will write,
\* and it concerns a checkout of the app it was typed in: that one, or the only
\* one with the lane.
Prepared(p) ==
    /\ cmd[p] \in WellFormed
    /\ cmd[p].op \in {"prepare", "reassign"}
    /\ cmd[p].adapter \in Configs
    /\ label[p] \in Names
    /\ <<cmd[p].at, label[p], cmd[p].mode>> \in derived
    /\ App[cmd[p].at] = App[caller[p]]
    /\ cmd[p].at = caller[p] \/ carried[p] = {cmd[p].at}

\* Only a row has a lane.
LanesAreOfRows == \A k \in Keys : lanes[k] # NoLane => catalog[k] # NoRow

LaneInv ==
    /\ TypeOK
    /\ ApartPorts(catalog)
    /\ NoLostPortMove => PortsAreUnique
    /\ LaneFitsMode
    /\ LanesAreOfRows
    /\ \A p \in Procs : pc[p] = "resolved" => Prepared(p)

-----------------------------------------------------------------------------
(* The commands *)

LEMMA ServiceOrderType ==
    /\ \A i \in DOMAIN ServiceOrder : ServiceOrder[i] \in Services
    /\ ServiceOrder[1] \in Services
<1>1. ServiceOrder \in Seq(Services)
  BY LanesAssumption
<1>2. DOMAIN ServiceOrder # {}
  BY LanesAssumption
<1>3. 1 \in DOMAIN ServiceOrder
  BY <1>1, <1>2
<1>4. QED
  BY <1>1, <1>3

LEMMA AnyCommandType == AnyCommand \in CommandRecords
<1>1. (CHOOSE at \in Checkouts : TRUE) \in Checkouts
  BY LanesAssumption
<1>2. [ports |-> <<>>, reserved |-> {}] \in AdapterConfigs
  BY DEF AdapterConfigs
<1>3. QED
  BY <1>1, <1>2, ServiceOrderType DEF AnyCommand, CommandRecords, Modes

\* What is checked out somewhere, and how commands take their lane from it.
LEMMA TreeType ==
    ASSUME LaneInv, NEW at \in Checkouts
    PROVE  /\ tree[at] \in TreeRecords /\ tree[at] \in Trees[at]
           /\ tree[at].config \in AdapterConfigs /\ tree[at].config \in Configs
<1>1. tree[at] \in TreeRecords /\ tree[at] \in Trees[at]
  BY DEF LaneInv, TypeOK
<1>2. tree[at].config \in AdapterConfigs
  BY <1>1 DEF TreeRecords
<1>3. QED
  BY <1>1, <1>2 DEF Configs

LEMMA DerivedType ==
    ASSUME LaneInv, NEW at \in Checkouts, NEW options \in OptionRecords
    PROVE  ModeAt(at, options) \in Modes /\ NameAt(at, options) \in Names
<1>1. tree[at] \in TreeRecords
  BY TreeType
<1>2. ModeAt(at, options) \in Modes
  BY DEF ModeAt, deriveMode, OptionRecords, Modes
<1>3. NameAt(at, options) \in Names
  BY <1>1, LanesAssumption
     DEF NameAt, deriveLaneName, OptionRecords, TreeRecords, Lanes
<1>4. QED
  BY <1>2, <1>3

LEMMA OptionsType ==
    /\ NoOptions \in OptionRecords
    /\ \A at \in Checkouts : \A options \in Options[at] :
          options \in OptionRecords
BY LanesAssumption DEF NoOptions, OptionRecords, Lanes

\* A command typed in a checkout, with the adapter that is there.
LEMMA CommandIsWellFormed ==
    ASSUME LaneInv,
           NEW op \in {"prepare", "reassign"}, NEW at \in Checkouts,
           NEW mode \in Modes, NEW typedIn \in Checkouts,
           NEW service \in Services,
           op = "reassign" => Declares(tree[typedIn].config, service)
    PROVE  /\ Command(op, at, mode, typedIn, service) \in WellFormed
           /\ Command(op, at, mode, typedIn, service).adapter \in Configs
BY TreeType DEF Command, WellFormed, CommandRecords

-----------------------------------------------------------------------------
(* The row that --lane selects *)

\* A set of numbers that is not empty has a least one.
LEMMA LeastIndex ==
    ASSUME NEW T \in SUBSET Nat, T # {}
    PROVE  \E i \in T : \A j \in T : i <= j
<1> DEFINE R == OpToRel(<, Nat)
<1>1. PICK i \in T : \A j \in T : ~ (<<j, i>> \in R)
  <2>1. IsWellFoundedOn(R, Nat)
    BY NatLessThanWellFounded
  <2> HIDE DEF R
  <2>2. QED
    BY <2>1, WFMin
<1>2. \A j \in T : ~(j < i)
  BY <1>1 DEF OpToRel
<1>3. QED
  BY <1>2

\* If a checkout has a row of the lane, its representative is one.
LEMMA RepresentativeMatches ==
    ASSUME NEW cat, NEW of, NEW lane, NEW winner \in Checkouts,
           NEW k \in MatchingRows(cat, of, winner, lane), k \in Keys,
           k[1] = winner
    PROVE  Representative(cat, of, winner, lane)
               \in MatchingRows(cat, of, winner, lane)
<1> DEFINE matches(i) ==
               <<winner, ServiceOrder[i]>>
                   \in MatchingRows(cat, of, winner, lane)
           T == {i \in DOMAIN ServiceOrder : matches(i)}
<1>1. DOMAIN ServiceOrder = 1 .. Len(ServiceOrder) /\ Len(ServiceOrder) \in Nat
  BY LanesAssumption
<1>2. T \in SUBSET Nat
  BY <1>1
<1>3. T # {}
  <2>1. k[2] \in Services /\ k = <<winner, k[2]>>
    BY DEF Keys
  <2>2. PICK i \in DOMAIN ServiceOrder : ServiceOrder[i] = k[2]
    BY <2>1, LanesAssumption
  <2>3. QED
    BY <2>1, <2>2
<1>4. PICK i \in T : \A j \in T : i <= j
  BY <1>2, <1>3, LeastIndex
<1>5. \A j \in 1 .. (i - 1) : ~matches(j)
  <2>1. i \in 1 .. Len(ServiceOrder)
    BY <1>1
  <2>2. ASSUME NEW j \in 1 .. (i - 1)
        PROVE  j \in DOMAIN ServiceOrder /\ ~(i <= j)
    BY <1>1, <2>1
  <2>3. QED
    BY <1>4, <2>2
<1>6. \E n \in DOMAIN ServiceOrder :
          matches(n) /\ \A j \in 1 .. (n - 1) : ~matches(j)
  BY <1>5
<1>7. QED
  BY <1>6 DEF Representative

\* The winner of --lane is a checkout of the caller's app with a row of the
\* lane; it is the caller's own unless it is the only one.
LEMMA WinnerIsScoped ==
    ASSUME LaneInv,
           NEW at \in Checkouts, NEW lane \in Names,
           NEW winner \in Winners(catalog, lanes, at, lane)
    PROVE  LET carriers == {other \in Checkouts :
                              /\ App[other] = App[at]
                              /\ \E s \in Services : lanes[<<other, s>>] = lane}
               row == Representative(catalog, lanes, winner, lane)
           IN /\ winner \in Checkouts
              /\ App[winner] = App[at]
              /\ winner = at \/ carriers = {winner}
              /\ row \in Keys /\ catalog[row] # NoRow /\ lanes[row] = lane
<1> DEFINE matching == {k[1] : k \in MatchingRows(catalog, lanes, at, lane)}
           carriers == {other \in Checkouts :
                          /\ App[other] = App[at]
                          /\ \E s \in Services : lanes[<<other, s>>] = lane}
<1>1. winner \in matching
  BY DEF Winners
<1>2. PICK k \in MatchingRows(catalog, lanes, at, lane) : k[1] = winner
  BY <1>1
<1>3. /\ k \in Keys /\ winner \in Checkouts
      /\ App[winner] = App[at]
      /\ k \in MatchingRows(catalog, lanes, winner, lane)
  BY <1>2 DEF MatchingRows, Keys
<1>4. Representative(catalog, lanes, winner, lane)
          \in MatchingRows(catalog, lanes, winner, lane)
  BY <1>2, <1>3, RepresentativeMatches
<1>5. matching = carriers
  <2>1. matching \subseteq carriers
    BY DEF MatchingRows, Keys
  <2>2. ASSUME NEW other \in carriers PROVE other \in matching
    <3>1. PICK s \in Services : lanes[<<other, s>>] = lane
      OBVIOUS
    <3>2. <<other, s>> \in Keys /\ catalog[<<other, s>>] # NoRow
      BY <3>1, LanesAssumption DEF LaneInv, LanesAreOfRows, Keys
    <3>3. <<other, s>> \in MatchingRows(catalog, lanes, at, lane)
      BY <2>2, <3>1, <3>2 DEF MatchingRows
    <3>4. <<other, s>>[1] = other
      OBVIOUS
    <3>5. QED
      BY <3>3, <3>4
  <2>3. QED
    BY <2>1, <2>2
<1>6. winner = at \/ carriers = {winner}
  <2>1. CASE Cardinality(matching) = 1
    <3>1. IsFiniteSet(carriers)
      BY LanesAssumption, FS_Subset
    <3>2. \E x : carriers = {x}
      BY <2>1, <1>5, <3>1, FS_Singleton
    <3>3. QED
      BY <1>1, <1>5, <3>2
  <2>2. CASE Cardinality(matching) # 1
    BY <2>2 DEF Winners
  <2>3. QED
    BY <2>1, <2>2
<1>7. QED
  BY <1>3, <1>4, <1>6 DEF MatchingRows

-----------------------------------------------------------------------------
(* The invariant *)

LEMMA Initially == Init => LaneInv
<1> SUFFICES ASSUME Init PROVE LaneInv
  OBVIOUS
<1>1. EmptyCatalog \in Catalogs
  BY DEF EmptyCatalog, Catalogs
<1>2. AnyCommand.at \in Checkouts
  BY AnyCommandType DEF CommandRecords
<1>3. TypeOK
  <2>1. tree \in [Checkouts -> TreeRecords]
    BY LanesAssumption DEF Init
  <2>2. QED
    BY <1>1, <1>2, <2>1, AnyCommandType, LanesAssumption DEF Init, TypeOK, Lanes
<1>4. ApartPorts(catalog) /\ PortsAreUnique /\ LaneFitsMode
  BY DEF Init, PortsAreUnique, UniquePorts, ApartPorts, LaneFitsMode,
         EmptyCatalog, NoRow
<1>5. QED
  BY <1>3, <1>4 DEF Init, LaneInv, LanesAreOfRows

\* A command that begins leaves the catalog as it is.
LEMMA ResolvedKeepsInv ==
    ASSUME LaneInv, NEW p \in Procs, NEW c \in WellFormed,
           NEW lane \in Names, NEW at \in Checkouts, NEW asked \in Lanes,
           NEW carriers \in SUBSET Checkouts,
           Resolved(p, c, lane, at, asked, carriers),
           c.op \in {"prepare", "reassign"}, c.adapter \in Configs,
           derived \subseteq derived',
           derived' \subseteq derived \cup {<<c.at, lane, c.mode>>},
           <<c.at, lane, c.mode>> \in derived',
           App[c.at] = App[at],
           c.at = at \/ carriers = {c.at}
    PROVE  LaneInv'
<1> USE DEF LaneInv, Resolved, store
<1>1. TypeOK'
  <2>1. <<c.at, lane, c.mode>> \in Checkouts \X Lanes \X Modes
    BY CommandType DEF Lanes
  <2>2. derived' \in SUBSET (Checkouts \X Lanes \X Modes)
    BY <2>1 DEF TypeOK
  <2>3. QED
    BY <2>2 DEF TypeOK, WellFormed, Lanes
<1>2. /\ ApartPorts(catalog)' /\ (NoLostPortMove => PortsAreUnique')
      /\ LaneFitsMode' /\ LanesAreOfRows'
  BY DEF ApartPorts, PortsAreUnique, UniquePorts, LaneFitsMode, LanesAreOfRows
<1>3. ASSUME NEW q \in Procs, pc'[q] = "resolved" PROVE Prepared(q)'
  BY <1>3 DEF TypeOK, Prepared
<1>4. QED
  BY <1>1, <1>2, <1>3

\* A command that ends may leave a new catalog behind.
LEMMA ExitKeepsInv ==
    ASSUME LaneInv, NEW p \in Procs, Exit(p),
           UNCHANGED <<tree, switches, derived>>,
           catalog' \in Catalogs, lanes' \in [Keys -> Lanes],
           ApartPorts(catalog'), NoLostPortMove => UniquePorts(catalog'),
           LaneFitsMode', LanesAreOfRows'
    PROVE  LaneInv'
<1> USE DEF LaneInv, Exit
<1>1. TypeOK'
  BY AnyCommandType DEF TypeOK, Lanes, CommandRecords
<1>2. ASSUME NEW q \in Procs, pc'[q] = "resolved" PROVE Prepared(q)'
  BY <1>2 DEF TypeOK, Prepared
<1>3. QED
  BY <1>1, <1>2 DEF PortsAreUnique

LEMMA StartPrepareKeepsInv ==
    ASSUME LaneInv, NEW p \in Procs, StartPrepare(p) PROVE LaneInv'
<1>1. PICK at \in Checkouts, options \in OptionRecords :
        /\ Resolved(p, Command("prepare", at, ModeAt(at, options), at,
                               ServiceOrder[1]),
                    NameAt(at, options), at, NoLane, {})
        /\ Derives(at, options)
  BY OptionsType DEF StartPrepare
<1>2. PICK c \in WellFormed, lane \in Names :
        /\ c = Command("prepare", at, ModeAt(at, options), at, ServiceOrder[1])
        /\ lane = NameAt(at, options)
        /\ c.op = "prepare" /\ c.mode = ModeAt(at, options) /\ c.at = at
        /\ c.adapter \in Configs
  <2> DEFINE c == Command("prepare", at, ModeAt(at, options), at, ServiceOrder[1])
  <2>1. c \in WellFormed /\ c.adapter \in Configs
    BY <1>1, CommandIsWellFormed, DerivedType, ServiceOrderType
  <2>2. NameAt(at, options) \in Names
    BY DerivedType, OptionsType
  <2>3. QED
    BY <2>1, <2>2 DEF Command
<1>3. /\ derived \subseteq derived' /\ <<c.at, lane, c.mode>> \in derived'
      /\ derived' \subseteq derived \cup {<<c.at, lane, c.mode>>}
  BY <1>1, <1>2 DEF Derives
<1>4. Resolved(p, c, lane, at, NoLane, {}) /\ NoLane \in Lanes
  BY <1>1, <1>2 DEF Lanes
<1>5. /\ App[c.at] = App[at] /\ c.at = at /\ c.op \in {"prepare", "reassign"}
      /\ c.adapter \in Configs /\ {} \in SUBSET Checkouts
  BY <1>2
<1>6. QED
  BY <1>3, <1>4, <1>5, ResolvedKeepsInv

LEMMA StartReassignKeepsInv ==
    ASSUME LaneInv, NEW p \in Procs, StartReassign(p) PROVE LaneInv'
<1>1. PICK at \in Checkouts, service \in Services :
        /\ Declares(tree[at].config, service)
        /\ Resolved(p, Command("reassign", at, ModeAt(at, NoOptions), at,
                               service),
                    NameAt(at, NoOptions), at, NoLane, {})
        /\ Derives(at, NoOptions)
  BY DEF StartReassign
<1>2. PICK c \in WellFormed, lane \in Names :
        /\ c = Command("reassign", at, ModeAt(at, NoOptions), at, service)
        /\ lane = NameAt(at, NoOptions)
        /\ c.op = "reassign" /\ c.mode = ModeAt(at, NoOptions) /\ c.at = at
        /\ c.adapter \in Configs
  <2> DEFINE c == Command("reassign", at, ModeAt(at, NoOptions), at, service)
  <2>1. c \in WellFormed /\ c.adapter \in Configs
    BY <1>1, CommandIsWellFormed, DerivedType, OptionsType
  <2>2. NameAt(at, NoOptions) \in Names
    BY DerivedType, OptionsType
  <2>3. QED
    BY <2>1, <2>2 DEF Command
<1>3. /\ derived \subseteq derived' /\ <<c.at, lane, c.mode>> \in derived'
      /\ derived' \subseteq derived \cup {<<c.at, lane, c.mode>>}
  BY <1>1, <1>2 DEF Derives
<1>4. Resolved(p, c, lane, at, NoLane, {}) /\ NoLane \in Lanes
  BY <1>1, <1>2 DEF Lanes
<1>5. /\ App[c.at] = App[at] /\ c.at = at /\ c.op \in {"prepare", "reassign"}
      /\ c.adapter \in Configs /\ {} \in SUBSET Checkouts
  BY <1>2
<1>6. QED
  BY <1>3, <1>4, <1>5, ResolvedKeepsInv

\* The mode and the lane come from one row, in which they belong together.
LEMMA StartReassignLaneKeepsInv ==
    ASSUME LaneInv, NEW p \in Procs, StartReassignLane(p) PROVE LaneInv'
<1>1. PICK at \in Checkouts, service \in Services, lane \in Names :
        /\ Declares(tree[at].config, service)
        /\ \E winner \in Winners(catalog, lanes, at, lane) :
              LET target ==
                      LaneTarget(catalog, lanes, at, service, lane, winner)
                  carriers ==
                      {other \in Checkouts :
                          /\ App[other] = App[at]
                          /\ \E s \in Services : lanes[<<other, s>>] = lane}
              IN Resolved(p, target.command, target.lane, at, lane, carriers)
        /\ UNCHANGED derived
  BY DEF StartReassignLane
<1> DEFINE carriers ==
               {other \in Checkouts :
                   /\ App[other] = App[at]
                   /\ \E s \in Services : lanes[<<other, s>>] = lane}
<1>2. PICK winner \in Winners(catalog, lanes, at, lane) :
        LET target == LaneTarget(catalog, lanes, at, service, lane, winner)
        IN Resolved(p, target.command, target.lane, at, lane, carriers)
  BY <1>1
<1> DEFINE row == Representative(catalog, lanes, winner, lane)
           c   == Command("reassign", winner, catalog[row].mode, at, service)
<1>3. /\ winner \in Checkouts /\ App[winner] = App[at]
      /\ winner = at \/ carriers = {winner}
      /\ row \in Keys /\ catalog[row] # NoRow /\ lanes[row] = lane
  BY WinnerIsScoped
<1>4. row[1] = winner
  BY DEF Representative
<1>5. <<winner, lane, catalog[row].mode>> \in derived
  BY <1>3, <1>4 DEF LaneInv, LaneFitsMode
<1>6. catalog[row].mode \in Modes
  BY <1>5 DEF LaneInv, TypeOK
<1>7. Resolved(p, c, lane, at, lane, carriers)
  BY <1>2, <1>3 DEF LaneTarget
<1>8. c \in WellFormed /\ c.adapter \in Configs
  BY <1>1, <1>3, <1>6, CommandIsWellFormed
<1>9. c.op = "reassign" /\ c.mode = catalog[row].mode /\ c.at = winner
  BY DEF Command
<1>10. carriers \in SUBSET Checkouts /\ derived' = derived
  BY <1>1
<1> HIDE DEF c, carriers, row
<1>11. QED
  BY <1>3, <1>5, <1>7, <1>8, <1>9, <1>10, ResolvedKeepsInv DEF Lanes

\* In the catalog that a prepare publishes, a row of its own has its mode and
\* its lane, or both as they were; nothing else has changed.
LEMMA PreparedRow ==
    ASSUME LaneInv, NEW p \in Procs, NEW asg \in Resolutions(catalog, cmd[p]),
           NEW moved, PublishRows(p, asg, moved), NEW k \in Keys
    PROVE  \/ /\ catalog'[k] = catalog[k] /\ lanes'[k] = lanes[k]
           \/ /\ k[1] = cmd[p].at
              /\ catalog'[k] = NoRow /\ lanes'[k] = NoLane
           \/ /\ k[1] = cmd[p].at
              /\ catalog'[k] # NoRow /\ catalog'[k].mode = cmd[p].mode
              /\ lanes'[k] = label[p]
<1> DEFINE c == cmd[p]
<1>1. c \in WellFormed
  BY DEF LaneInv, Prepared, PublishRows
<1>2. /\ catalog' = prepareRows(catalog, c, asg, moved)
      /\ lanes' = PreparedLanes(c, label[p], catalog, lanes, moved)
      /\ catalog \in Catalogs
  BY DEF PublishRows, LaneInv, TypeOK
<1>3. CASE k[1] # c.at
  BY <1>2, <1>3 DEF prepareRows, WriteRows, pruneUndeclared, PreparedLanes
<1>4. CASE k[1] = c.at /\ ~Declares(c.adapter, k[2])
  BY <1>2, <1>4 DEF prepareRows, WriteRows, pruneUndeclared, PreparedLanes
<1>5. CASE k[1] = c.at /\ Declares(c.adapter, k[2])
  <2> DEFINE i == IndexOf(c.adapter, k[2])
  <2>1. i \in DOMAIN c.adapter.ports /\ c.adapter.ports[i].name = k[2]
    BY <1>1, <1>5, CommandType, DeclarationOf
  <2>2. k = <<c.at, c.adapter.ports[i].name>>
    BY <1>5, <2>1 DEF Keys
  <2>3. /\ catalog'[k] = IF LostWrite(catalog, c, moved, i) THEN catalog[k]
                         ELSE [port |-> asg[i], mode |-> c.mode]
    BY <1>1, <1>2, <2>1, <2>2, PublishedRow DEF RowOf
  <2>4. lanes'[k] = IF LostWrite(catalog, c, moved, i) THEN lanes[k]
                    ELSE label[p]
    BY <1>2, <1>5 DEF PreparedLanes
  <2>5. asg[i] \in Ports
    BY <2>1 DEF Resolutions
  <2>6. [port |-> asg[i], mode |-> c.mode] # NoRow
    BY <2>5, PortsAssumption DEF NoRow
  <2>7. QED
    BY <1>5, <2>3, <2>4, <2>6
<1>6. QED
  BY <1>3, <1>4, <1>5

\* Lost writes or not, ports stay apart between checkouts; between services they
\* do unless there is a third one.
LEMMA PublishRowsKeepsInv ==
    ASSUME LaneInv, NEW p \in Procs, NEW asg \in Resolutions(catalog, cmd[p]),
           NEW moved \in MovePoints(catalog, cmd[p]), PublishRows(p, asg, moved)
    PROVE  LaneInv'
<1> DEFINE c == cmd[p]
<1>1. /\ c \in WellFormed /\ c.adapter \in Configs /\ label[p] \in Names
      /\ <<c.at, label[p], c.mode>> \in derived
  BY DEF LaneInv, Prepared, PublishRows
<1>2. /\ catalog \in Catalogs /\ lanes \in [Keys -> Lanes]
      /\ ApartPorts(catalog) /\ (NoLostPortMove => UniquePorts(catalog))
  BY DEF LaneInv, TypeOK, PortsAreUnique
<1>3. /\ catalog' = prepareRows(catalog, c, asg, moved)
      /\ lanes' = PreparedLanes(c, label[p], catalog, lanes, moved)
  BY DEF PublishRows
<1>4. catalog' \in Catalogs
  BY <1>1, <1>2, <1>3, PrepareType
<1>5. ApartPorts(catalog')
  BY <1>1, <1>2, <1>3, PrepareKeepsApart
<1>6. ASSUME NoLostPortMove PROVE UniquePorts(catalog')
  <2>1. LosesNoPort(c)
    BY <1>1, <1>6 DEF NoLostPortMove, LosesNoPort
  <2>2. \A i \in DOMAIN c.adapter.ports :
            LosesMove(catalog, c, moved, i) => i = Len(c.adapter.ports)
    BY <1>1, <1>2, <2>1, LostIsLast
  <2>3. QED
    BY <1>1, <1>2, <1>3, <1>6, <2>2, PrepareKeepsUnique
<1>7. lanes' \in [Keys -> Lanes]
  BY <1>1, <1>2, <1>3 DEF PreparedLanes, Lanes
<1>8. LaneFitsMode'
  <2>1. ASSUME NEW k \in Keys, catalog'[k] # NoRow
        PROVE  <<k[1], lanes'[k], catalog'[k].mode>> \in derived
    BY <1>1, <2>1, PreparedRow DEF LaneInv, LaneFitsMode
  <2>2. derived' = derived
    BY DEF PublishRows
  <2>3. QED
    BY <2>1, <2>2 DEF LaneFitsMode
<1>9. LanesAreOfRows'
  <2>1. ASSUME NEW k \in Keys, lanes'[k] # NoLane PROVE catalog'[k] # NoRow
    BY <2>1, PreparedRow DEF LaneInv, LanesAreOfRows
  <2>2. QED
    BY <2>1 DEF LanesAreOfRows
<1>10. QED
  BY <1>4, <1>5, <1>6, <1>7, <1>8, <1>9, ExitKeepsInv DEF PublishRows

LEMMA PublishPrepareKeepsInv ==
    ASSUME LaneInv, NEW p \in Procs, PublishPrepare(p) PROVE LaneInv'
BY PublishRowsKeepsInv DEF PublishPrepare

LEMMA PublishReassignKeepsInv ==
    ASSUME LaneInv, NEW p \in Procs, PublishReassign(p) PROVE LaneInv'
<1> DEFINE c   == cmd[p]
           key == <<c.at, c.service>>
<1>1. /\ c \in WellFormed /\ c.op = "reassign" /\ label[p] \in Names
      /\ <<c.at, label[p], c.mode>> \in derived
  BY DEF LaneInv, Prepared, PublishReassign
<1>2. /\ catalog \in Catalogs /\ lanes \in [Keys -> Lanes]
      /\ ApartPorts(catalog) /\ (NoLostPortMove => UniquePorts(catalog))
  BY DEF LaneInv, TypeOK, PortsAreUnique
<1>3. PICK port \in ReassignPorts(catalog, c) :
        catalog' = reassignRow(catalog, c, port)
  BY DEF PublishReassign, ReassignOutcome
<1>4. port \in Ports /\ catalog' \in Catalogs
  BY <1>1, <1>2, <1>3, ReassignType
<1>5. ApartPorts(catalog') /\ (NoLostPortMove => UniquePorts(catalog'))
  BY <1>1, <1>2, <1>3, ReassignKeepsUnique, ReassignKeepsApart
<1>6. key \in Keys
  BY <1>1, CommandType DEF Keys
<1>7. lanes' = [lanes EXCEPT ![key] = label[p]]
  BY DEF PublishReassign
<1>8. lanes' \in [Keys -> Lanes]
  BY <1>1, <1>2, <1>7 DEF Lanes
<1>9. /\ catalog'[key] = [port |-> port, mode |-> c.mode]
      /\ \A k \in Keys \ {key} : catalog'[k] = catalog[k]
      /\ lanes'[key] = label[p]
      /\ \A k \in Keys \ {key} : lanes'[k] = lanes[k]
  BY <1>2, <1>3, <1>6, <1>7 DEF reassignRow, Catalogs
<1>10. LaneFitsMode'
  <2>1. key[1] = c.at
    OBVIOUS
  <2>2. ASSUME NEW k \in Keys, catalog'[k] # NoRow
        PROVE  <<k[1], lanes'[k], catalog'[k].mode>> \in derived
    BY <1>1, <1>9, <2>1, <2>2 DEF LaneInv, LaneFitsMode
  <2>3. derived' = derived
    BY DEF PublishReassign
  <2>4. QED
    BY <2>2, <2>3 DEF LaneFitsMode
<1>11. catalog'[key] # NoRow
  BY <1>4, <1>9, PortsAssumption DEF NoRow
<1>12. LanesAreOfRows'
  BY <1>9, <1>11 DEF LaneInv, LanesAreOfRows
<1>13. QED
  BY <1>4, <1>5, <1>8, <1>10, <1>12, ExitKeepsInv DEF PublishReassign

LEMMA StopKeepsInv ==
    ASSUME LaneInv, NEW p \in Procs, Stop(p) PROVE LaneInv'
<1>1. /\ catalog' \in Catalogs /\ lanes' \in [Keys -> Lanes]
      /\ ApartPorts(catalog') /\ (NoLostPortMove => UniquePorts(catalog'))
      /\ LaneFitsMode' /\ LanesAreOfRows'
  BY DEF Stop, store, LaneInv, TypeOK, PortsAreUnique, LaneFitsMode,
         LanesAreOfRows
<1>2. QED
  BY <1>1, ExitKeepsInv DEF Stop

\* A switch changes neither rows nor what a command has derived already.
LEMMA SwitchKeepsInv ==
    ASSUME LaneInv, NEW at \in Checkouts, Switch(at) PROVE LaneInv'
<1> USE DEF LaneInv, Switch, store, mind
<1>1. TypeOK'
  <2>1. PICK t \in Trees[at] : tree' = [tree EXCEPT ![at] = t]
    OBVIOUS
  <2>2. t \in TreeRecords
    BY LanesAssumption
  <2>3. /\ tree' \in [Checkouts -> TreeRecords]
        /\ \A other \in Checkouts : tree'[other] \in Trees[other]
    BY <2>1, <2>2 DEF TypeOK
  <2>4. switches' \in 0 .. MaxSwitches
    BY LanesAssumption DEF TypeOK
  <2>5. QED
    BY <2>3, <2>4 DEF TypeOK
<1>2. /\ ApartPorts(catalog)' /\ (NoLostPortMove => PortsAreUnique')
      /\ LaneFitsMode' /\ LanesAreOfRows'
  BY DEF ApartPorts, PortsAreUnique, UniquePorts, LaneFitsMode, LanesAreOfRows
<1>3. ASSUME NEW q \in Procs, pc'[q] = "resolved" PROVE Prepared(q)'
  BY <1>3 DEF Prepared
<1>4. QED
  BY <1>1, <1>2, <1>3

LEMMA LaneInductive == LaneInv /\ [Next]_vars => LaneInv'
<1> SUFFICES ASSUME LaneInv, [Next]_vars PROVE LaneInv'
  OBVIOUS
<1>1. CASE UNCHANGED vars
  BY <1>1 DEF vars, store, mind, LaneInv, TypeOK, PortsAreUnique, UniquePorts,
              ApartPorts, LaneFitsMode, LanesAreOfRows, Prepared
<1>2. ASSUME NEW p \in Procs,
             \/ StartPrepare(p) \/ StartReassign(p) \/ StartReassignLane(p)
             \/ PublishPrepare(p) \/ PublishReassign(p) \/ Stop(p)
      PROVE  LaneInv'
  BY <1>2, StartPrepareKeepsInv, StartReassignKeepsInv,
     StartReassignLaneKeepsInv, PublishPrepareKeepsInv,
     PublishReassignKeepsInv, StopKeepsInv
<1>3. ASSUME NEW at \in Checkouts, Switch(at) PROVE LaneInv'
  BY <1>3, SwitchKeepsInv
<1>4. QED
  BY <1>1, <1>2, <1>3 DEF Next

LEMMA Invariance == Spec => []LaneInv
BY Initially, LaneInductive, PTL DEF Spec

-----------------------------------------------------------------------------
(* Theorems *)

\* Every reachable state is well typed.
THEOREM TypeCorrect == Spec => []TypeOK
<1>1. LaneInv => TypeOK
  BY DEF LaneInv
<1>2. QED
  BY <1>1, Invariance, PTL

\* Reassigns that go by another lane, and by the adapter of another checkout,
\* never give the port of a row to another checkout; whether a lost write leaves
\* two services of one checkout on one port is another matter.
THEOREM CheckoutsKeepApart == Spec => []ApartPorts(catalog)
<1>1. LaneInv => ApartPorts(catalog)
  BY DEF LaneInv
<1>2. QED
  BY <1>1, Invariance, PTL

\* Nor do they give one port to two services, unless append can move the rows
\* under an adapter of three services or more.
THEOREM UniqueAcrossLanes ==
    ASSUME NoLostPortMove PROVE Spec => []PortsAreUnique
<1>1. LaneInv => PortsAreUnique
  BY DEF LaneInv
<1>2. QED
  BY <1>1, Invariance, PTL

\* Lane and mode of a row were derived together in its checkout, whatever --mode
\* and --lane were, however stale the row was from which a reassign took them,
\* and whichever writes of a prepare were lost.
THEOREM LanesFitModes == Spec => []LaneFitsMode
<1>1. LaneInv => LaneFitsMode
  BY DEF LaneInv
<1>2. QED
  BY <1>1, Invariance, PTL

\* What a reassign may change: its own key.
LEMMA ReassignChanges ==
    ASSUME LaneInv, NEW p \in Procs, PublishReassign(p), NEW k \in Changed
    PROVE  k \in Keys /\ k[1] = cmd[p].at /\ k[2] = cmd[p].service
<1> DEFINE key == <<cmd[p].at, cmd[p].service>>
<1>1. PICK port \in ReassignPorts(catalog, cmd[p]) :
        catalog' = reassignRow(catalog, cmd[p], port)
  BY DEF PublishReassign, ReassignOutcome
<1>2. /\ catalog \in [Keys -> Allocations \cup {NoRow}]
      /\ lanes \in [Keys -> Lanes]
  BY DEF LaneInv, TypeOK, Catalogs
<1>3. \A other \in Keys \ {key} :
        catalog'[other] = catalog[other] /\ lanes'[other] = lanes[other]
  BY <1>1, <1>2 DEF reassignRow, PublishReassign
<1>4. k \in Keys /\ k = key
  BY <1>3 DEF Changed
<1>5. QED
  BY <1>4

\* A reassign changes one row of the app it was typed in: of its own checkout,
\* or of the only one that had the lane when it was looked up.
THEOREM ReassignIsScoped == Spec => LaneScoped
<1> DEFINE Scoped(p) ==
        PublishReassign(p) =>
            \A k \in Changed :
                /\ k[2] = cmd[p].service
                /\ App[k[1]] = App[caller[p]]
                /\ k[1] = caller[p] \/ carried[p] = {k[1]}
<1>1. ASSUME LaneInv, NEW p \in Procs PROVE Scoped(p)
  <2>1. SUFFICES ASSUME PublishReassign(p), NEW k \in Changed
                 PROVE  /\ k[2] = cmd[p].service
                        /\ App[k[1]] = App[caller[p]]
                        /\ k[1] = caller[p] \/ carried[p] = {k[1]}
    OBVIOUS
  <2>2. k[1] = cmd[p].at /\ k[2] = cmd[p].service
    BY <1>1, <2>1, ReassignChanges
  <2>3. Prepared(p)
    BY <1>1, <2>1 DEF LaneInv, PublishReassign
  <2>4. QED
    BY <2>2, <2>3 DEF Prepared
<1>2. LaneInv /\ [Next]_vars => [\A p \in Procs : Scoped(p)]_vars
  BY <1>1
<1>3. QED
  BY <1>2, Invariance, PTL DEF Spec, LaneScoped
-----------------------------------------------------------------------------
(* LaneUp: the inductive invariant *)

\* One process at a time has the lock.
OneWriter == \A p, q \in Procs : Writing(p) /\ Writing(q) => p = q

\* The process that has written outputs is a prepare on its way to publish.
WritersPrepare ==
    \A p \in Procs : Writing(p) => pc[p] = "resolved" /\ cmd[p].op = "prepare"

\* What a prepare has written, and not published yet, is nowhere in the rows of
\* another checkout.
WrittenDiffer ==
    \A p \in Procs, k \in Keys, s \in Services :
        Writing(p) /\ k[1] # cmd[p].at /\ catalog[k] # NoRow
            => writer[p].ports[s] # catalog[k].port

\* Nor does it run for another checkout.
RunsElsewhere(run, p, s, t) ==
    /\ Writing(p) /\ run.quiet
    /\ run.from # cmd[p].at
    /\ run.ports[s] = writer[p].ports[t]

RunningDiffer ==
    \A p \in Procs, project \in Projects, s, t \in Services :
        RunsElsewhere(running[project], p, s, t) => writer[p].ports[t] = NoPort

\* `up` goes on only with every port prepared.
PrintedIsReady ==
    /\ up.step \in {"printed", "verified"} => up.ready
    /\ up.step # "idle" /\ up.manifest.ports = NoPorts => up.ready

\* While nothing has changed, the manifest of `up` has the ports of the rows.
QuietIsAssigned ==
    up.step # "idle" /\ up.quiet /\ up.ready =>
        \A s \in Services :
            up.manifest.ports[s] = assignedPort(up.at, up.manifest.mode, s)

\* And after the check the outputs have them too.
QuietIsVerified ==
    up.step = "verified" /\ up.quiet => outputs[up.at] = up.manifest

WriterInv == OneWriter /\ WritersPrepare /\ WrittenDiffer

RunningInv == RunningKeepsPorts /\ RunningDiffer

QuietInv == PrintedIsReady /\ QuietIsAssigned /\ QuietIsVerified

UpInv == LaneInv /\ LaneTypeOK /\ WriterInv /\ RunningInv /\ QuietInv

-----------------------------------------------------------------------------
(* The ports that a resolution gives to the manifest *)

LEMMA OwnType ==
    ASSUME LaneInv, NEW at \in Checkouts, NEW options \in Options[at]
    PROVE  /\ Own(at, options) \in WellFormed
           /\ Own(at, options).op = "prepare" /\ Own(at, options).at = at
           /\ Own(at, options).mode \in Modes
           /\ NameAt(at, options) \in Names
           /\ Own(at, options).adapter = tree[at].config
<1>1. ModeAt(at, options) \in Modes /\ NameAt(at, options) \in Names
  BY DerivedType, OptionsType
<1>2. Own(at, options) \in WellFormed
  BY <1>1, CommandIsWellFormed, ServiceOrderType DEF Own
<1>3. QED
  BY <1>1, <1>2 DEF Own, Command

\* A service has the port of its declaration, or none.
LEMMA StateOf ==
    ASSUME NEW c \in WellFormed, NEW cat,
           NEW asg \in Resolutions(cat, c), NEW s \in Services
    PROVE  \/ ~Declares(c.adapter, s) /\ PortStates(c, asg)[s] = NoPort
           \/ /\ Declares(c.adapter, s)
              /\ IndexOf(c.adapter, s) \in DOMAIN c.adapter.ports
              /\ c.adapter.ports[IndexOf(c.adapter, s)].name = s
              /\ PortStates(c, asg)[s] = asg[IndexOf(c.adapter, s)]
              /\ asg[IndexOf(c.adapter, s)] \in Ports
<1>1. asg \in [DOMAIN c.adapter.ports -> Ports]
  BY DEF Resolutions
<1>2. CASE Declares(c.adapter, s)
  BY <1>1, <1>2, CommandType, DeclarationOf DEF PortStates
<1>3. CASE ~Declares(c.adapter, s)
  BY <1>3 DEF PortStates
<1>4. QED
  BY <1>2, <1>3

LEMMA StatesType ==
    ASSUME NEW c \in WellFormed, NEW cat, NEW asg \in Resolutions(cat, c)
    PROVE  PortStates(c, asg) \in PortMaps
<1>1. \A s \in Services : PortStates(c, asg)[s] \in Ports \cup {NoPort}
  BY StateOf
<1>2. PortStates(c, asg) = [s \in Services |-> PortStates(c, asg)[s]]
  BY DEF PortStates
<1>3. QED
  BY <1>1, <1>2 DEF PortMaps

\* A row has a port.
LEMMA RowHasPort ==
    ASSUME NEW cat \in Catalogs, NEW k \in Keys, cat[k] # NoRow
    PROVE  cat[k].port \in Ports /\ cat[k].port # NoPort
BY PortsAssumption DEF Catalogs, Allocations, NoRow

\* No resolution takes the port of a row of another checkout.
LEMMA StatesAreForeignFree ==
    ASSUME NEW c \in WellFormed, NEW cat \in Catalogs, ApartPorts(cat),
           NEW asg \in Resolutions(cat, c), NEW s \in Services,
           NEW k \in Keys, k[1] # c.at, cat[k] # NoRow
    PROVE  PortStates(c, asg)[s] # cat[k].port
<1>1. CASE PortStates(c, asg)[s] = NoPort
  BY <1>1, RowHasPort
<1>2. CASE /\ IndexOf(c.adapter, s) \in DOMAIN c.adapter.ports
           /\ PortStates(c, asg)[s] = asg[IndexOf(c.adapter, s)]
  BY <1>2, ForeignApart
<1>3. QED
  BY <1>1, <1>2, StateOf

\* With every port kept, the manifest has what `port` prints.
LEMMA ReadyIsAssigned ==
    ASSUME LaneInv, NEW at \in Checkouts, NEW c \in WellFormed,
           c.at = at, c.adapter = tree[at].config,
           NEW asg \in Resolutions(catalog, c),
           \A i \in DOMAIN c.adapter.ports : Kept(catalog, c, i),
           NEW s \in Services
    PROVE  PortStates(c, asg)[s] = assignedPort(at, c.mode, s)
<1> DEFINE pruned == pruneUndeclared(catalog, c)
           i      == IndexOf(c.adapter, s)
           row    == catalog[<<at, s>>]
<1>1. CASE ~Declares(c.adapter, s)
  <2>1. PortStates(c, asg)[s] = NoPort
    BY <1>1, StateOf
  <2>2. QED
    BY <1>1, <2>1 DEF assignedPort
<1>2. CASE Declares(c.adapter, s)
  <2>1. /\ i \in DOMAIN c.adapter.ports /\ c.adapter.ports[i].name = s
        /\ PortStates(c, asg)[s] = asg[i]
    BY <1>2, StateOf
  <2>2. RowOf(catalog, c, i) = row
    BY <2>1 DEF RowOf
  <2>3. RowOf(pruned, c, i) = row /\ Kept(pruned, c, i)
    BY <2>1, <2>2, PruneKeepsDeclared
  <2>4. asg[i] = row.port
    BY <2>1, <2>3 DEF Resolutions, IsResolution, ResolvedAt
  <2>5. c.mode = "stable" => row.port = stableFixture(c.adapter.ports[i])
    BY <2>1, <2>2 DEF Kept, reuseExisting, stableFixture, stablePort
  <2>6. QED
    BY <1>2, <2>1, <2>4, <2>5 DEF assignedPort
<1>3. QED
  BY <1>1, <1>2

\* A manifest without ports is one of an adapter without ports.
LEMMA NoStates ==
    ASSUME NEW c \in WellFormed, NEW cat, NEW asg \in Resolutions(cat, c),
           PortStates(c, asg) = NoPorts
    PROVE  DOMAIN c.adapter.ports = {}
<1>1. SUFFICES ASSUME NEW i \in DOMAIN c.adapter.ports PROVE FALSE
  OBVIOUS
<1> DEFINE s == c.adapter.ports[i].name
<1>2. s \in Services /\ Declares(c.adapter, s)
  <2>1. c.adapter.ports[i] \in PortConfigs
    BY CommandType
  <2>2. QED
    BY <2>1 DEF PortConfigs, Declares
<1>3. PortStates(c, asg)[s] \in Ports
  BY <1>2, StateOf
<1>4. PortStates(c, asg)[s] = NoPort
  BY <1>2 DEF NoPorts
<1>5. QED
  BY <1>3, <1>4, PortsAssumption

\* What `port` prints is the port of a row.
LEMMA AssignedIsOfRow ==
    ASSUME LaneInv, NEW at \in Checkouts, NEW mode, NEW s \in Services,
           assignedPort(at, mode, s) # NoPort
    PROVE  /\ <<at, s>> \in Keys /\ catalog[<<at, s>>] # NoRow
           /\ assignedPort(at, mode, s) = catalog[<<at, s>>].port
BY DEF assignedPort, Keys, NoRow

\* A row that a prepare publishes has the port it had, or the one that is in
\* the manifest.
LEMMA RowIsWritten ==
    ASSUME NEW c \in WellFormed, NEW cat \in Catalogs,
           NEW asg \in Resolutions(cat, c), NEW moved,
           NEW k \in Keys, k[1] = c.at,
           prepareRows(cat, c, asg, moved)[k] # NoRow,
           prepareRows(cat, c, asg, moved)[k].port # cat[k].port
    PROVE  prepareRows(cat, c, asg, moved)[k].port = PortStates(c, asg)[k[2]]
<1> DEFINE new == prepareRows(cat, c, asg, moved)
           i   == IndexOf(c.adapter, k[2])
<1>1. Declares(c.adapter, k[2])
  BY DEF prepareRows, WriteRows, pruneUndeclared
<1>2. /\ i \in DOMAIN c.adapter.ports /\ c.adapter.ports[i].name = k[2]
      /\ PortStates(c, asg)[k[2]] = asg[i]
  BY <1>1, StateOf DEF Keys
<1>3. k = <<c.at, c.adapter.ports[i].name>>
  BY <1>2 DEF Keys
<1>4. new[k] = RowOf(new, c, i) /\ cat[k] = RowOf(cat, c, i)
  BY <1>3 DEF RowOf
<1> HIDE DEF new, i
<1>5. new[k].port = cat[k].port \/ new[k].port = asg[i]
  BY <1>2, <1>4, PublishedPort DEF new
<1>6. QED
  BY <1>2, <1>5 DEF new

-----------------------------------------------------------------------------
(* LaneUp takes the steps of LaneReassign *)

LEMMA PublishesIsPrepare ==
    ASSUME NEW p \in Procs, Publishes(p)
    PROVE  PublishPrepare(p)
BY DEF Publishes, PublishPrepare

LEMMA LaneNextIsNext == LaneNext => [Next]_vars
<1> SUFFICES ASSUME LaneNext PROVE [Next]_vars
  OBVIOUS
<1>1. ASSUME NEW p \in Procs,
             \/ Starts(p) \/ WritesOutputs(p) \/ Publishes(p)
             \/ PublishFails(p) \/ Killed(p) \/ Reassigns(p) \/ Stops(p)
      PROVE  [Next]_vars
  BY <1>1, PublishesIsPrepare
     DEF Starts, WritesOutputs, PublishFails, Killed, Reassigns, Stops, Next
<1>2. ASSUME NEW at \in Checkouts, Switches(at) \/ UpLoads(at) \/ Down(at)
      PROVE  [Next]_vars
  BY <1>2 DEF Switches, UpLoads, Down, Next
<1>3. CASE \/ UpNotReady \/ UpHasNothing \/ UpPrints \/ UpVerifies \/ UpStops
           \/ UpRuns \/ UpGivesUp
  BY <1>3 DEF UpNotReady, UpHasNothing, UpPrints, UpVerifies, UpStops, UpRuns,
              UpGivesUp, UpEnds, Goto
<1>4. QED
  BY <1>1, <1>2, <1>3 DEF LaneNext

LEMMA StepKeepsLaneInv == LaneInv /\ [LaneNext]_allVars => LaneInv'
<1>1. [LaneNext]_allVars => [Next]_vars
  BY LaneNextIsNext DEF allVars
<1>2. QED
  BY <1>1, LaneInductive

\* A process that writes is about a checkout, and has a command that the lemmas
\* about PortAllocation are about.
LEMMA PreparesType ==
    ASSUME LaneInv, NEW p \in Procs, pc[p] = "resolved"
    PROVE  /\ cmd[p] \in WellFormed /\ cmd[p].at \in Checkouts
           /\ label[p] \in Lanes
           /\ cmd[p].mode \in Modes
           /\ catalog \in Catalogs /\ ApartPorts(catalog)
BY CommandType DEF LaneInv, Prepared, TypeOK, Lanes

\* A step of one process leaves the commands of the others alone.
LEMMA OthersStay ==
    ASSUME LaneInv, NEW p \in Procs, Starts(p) \/ Exit(p),
           NEW q \in Procs, q # p
    PROVE  pc'[q] = pc[q] /\ cmd'[q] = cmd[q]
BY DEF LaneInv, TypeOK, Starts, Exit, StartPrepare, StartReassign,
       StartReassignLane, Resolved

LEMMA StartsLeaves ==
    ASSUME NEW p \in Procs, Starts(p)
    PROVE  pc[p] = "idle" /\ UNCHANGED <<catalog, tree, laneVars>>
BY DEF Starts, StartPrepare, StartReassign, StartReassignLane, Resolved, store

\* Rows of other checkouts stay when a command publishes.
LEMMA PublishesOwnRows ==
    ASSUME LaneInv, NEW p \in Procs, PublishPrepare(p) \/ PublishReassign(p),
           NEW k \in Keys, k[1] # cmd[p].at
    PROVE  catalog'[k] = catalog[k]
<1>1. CASE PublishPrepare(p)
  BY <1>1 DEF PublishPrepare, PublishRows, prepareRows, WriteRows,
              pruneUndeclared
<1>2. CASE PublishReassign(p)
  BY <1>2 DEF PublishReassign, ReassignOutcome, reassignRow, LaneInv, TypeOK,
              Catalogs
<1>3. QED
  BY <1>1, <1>2

-----------------------------------------------------------------------------
(* Preservation: types *)

LEMMA NoWriterType == NoWriter \in Writers /\ NotPrepared \in Rendered
BY DEF NoWriter, NotPrepared, Writers, Rendered, NoPorts, PortMaps, Lanes

LEMMA NoUpType == NoUp \in Ups /\ NotRunning \in Runs
<1>1. AnyCommand.at \in Checkouts
  BY AnyCommandType DEF CommandRecords
<1>2. QED
  BY <1>1, NoWriterType DEF NoUp, Ups, NotRunning, Runs, NoPorts, PortMaps

LEMMA DisturbType ==
    ASSUME up \in Ups, NEW at, Disturb(at)
    PROVE  up' \in Ups
BY DEF Disturb, Ups

LEMMA LaneInitType == LaneInit => LaneTypeOK
<1> SUFFICES ASSUME LaneInit PROVE LaneTypeOK
  OBVIOUS
<1>1. TypeOK
  BY Initially DEF LaneInit, LaneInv
<1>2. QED
  BY <1>1, NoWriterType, NoUpType DEF LaneInit, LaneTypeOK

LEMMA LaneTypeStep == UpInv /\ [LaneNext]_allVars => LaneTypeOK'
<1> SUFFICES ASSUME UpInv, [LaneNext]_allVars PROVE LaneTypeOK'
  OBVIOUS
<1>1. TypeOK'
  BY StepKeepsLaneInv DEF UpInv, LaneInv
<1>2. /\ outputs \in [Checkouts -> Rendered] /\ writer \in [Procs -> Writers]
      /\ running \in [Projects -> Runs] /\ up \in Ups /\ LaneInv
  BY DEF UpInv, LaneTypeOK
<1>3. SUFFICES /\ outputs' \in [Checkouts -> Rendered]
               /\ writer' \in [Procs -> Writers]
               /\ running' \in [Projects -> Runs]
               /\ up' \in Ups
  BY <1>1 DEF LaneTypeOK
<1>4. CASE UNCHANGED laneVars
  BY <1>2, <1>4 DEF laneVars
<1>5. ASSUME NEW p \in Procs, WritesOutputs(p)
      PROVE  /\ outputs' \in [Checkouts -> Rendered]
             /\ writer' \in [Procs -> Writers]
             /\ UNCHANGED running /\ up' \in Ups
  <2>1. /\ cmd[p] \in WellFormed /\ cmd[p].at \in Checkouts
        /\ label[p] \in Lanes /\ cmd[p].mode \in Modes
    BY <1>2, <1>5, PreparesType DEF WritesOutputs
  <2>2. PICK asg \in ProbedResolutions(cmd[p]) :
          /\ outputs' = [outputs EXCEPT ![cmd[p].at] =
                            [lane |-> label[p], mode |-> cmd[p].mode,
                             ports |-> PortStates(cmd[p], asg)]]
          /\ writer' = [writer EXCEPT ![p] =
                           [active |-> TRUE,
                            ports |-> PortStates(cmd[p], asg),
                            before |-> outputs[cmd[p].at]]]
    BY <1>5 DEF WritesOutputs
  <2>3. PortStates(cmd[p], asg) \in PortMaps
    BY <2>1, StatesType DEF ProbedResolutions
  <2>4. up' \in Ups
    BY <1>2, <1>5, DisturbType DEF WritesOutputs
  <2>5. QED
    BY <1>2, <1>5, <2>1, <2>2, <2>3, <2>4
       DEF Rendered, Writers, WritesOutputs
<1>6. ASSUME NEW p \in Procs, Publishes(p) \/ PublishFails(p) \/ Killed(p)
      PROVE  /\ outputs' \in [Checkouts -> Rendered]
             /\ writer' \in [Procs -> Writers]
             /\ UNCHANGED running /\ up' \in Ups
  <2>1. writer[p].before \in Rendered
    BY <1>2 DEF Writers
  <2>2. outputs' \in [Checkouts -> Rendered]
    BY <1>2, <1>6, <2>1 DEF Publishes, PublishFails, Killed
  <2>3. up' \in Ups
    BY <1>2, <1>6, DisturbType DEF Publishes, PublishFails, Killed
  <2>4. QED
    BY <1>2, <1>6, <2>2, <2>3, NoWriterType DEF Publishes, PublishFails, Killed
<1>7. ASSUME NEW p \in Procs, Reassigns(p)
      PROVE  UNCHANGED <<outputs, writer, running>> /\ up' \in Ups
  BY <1>2, <1>7, DisturbType DEF Reassigns
<1>8. ASSUME NEW at \in Checkouts, Switches(at) \/ UpLoads(at)
      PROVE  UNCHANGED <<outputs, writer, running>> /\ up' \in Ups
  <2>1. CASE Switches(at)
    BY <1>2, <2>1, DisturbType DEF Switches
  <2>2. CASE UpLoads(at)
    <3>1. PICK options \in Options[at] :
            \E asg \in ProbedResolutions(Own(at, options)) :
               up' = [step |-> "loaded", at |-> at,
                      manifest |-> [lane  |-> NameAt(at, options),
                                    mode  |-> Own(at, options).mode,
                                    ports |-> PortStates(Own(at, options),
                                                         asg)],
                      ready |-> \A i \in DOMAIN Own(at, options).adapter.ports :
                                   Kept(catalog, Own(at, options), i),
                      quiet |-> TRUE]
      BY <2>2 DEF UpLoads
    <3>2. PICK c \in WellFormed : c = Own(at, options)
      BY <1>2, OwnType
    <3>3. PICK asg \in Resolutions(catalog, c) :
            up' = [step |-> "loaded", at |-> at,
                   manifest |-> [lane  |-> NameAt(at, options),
                                 mode  |-> c.mode,
                                 ports |-> PortStates(c, asg)],
                   ready |-> \A i \in DOMAIN c.adapter.ports :
                                Kept(catalog, c, i),
                   quiet |-> TRUE]
      BY <3>1, <3>2 DEF ProbedResolutions
    <3>4. /\ PortStates(c, asg) \in PortMaps
          /\ NameAt(at, options) \in Lanes /\ c.mode \in Modes
      BY <1>2, <3>2, OwnType, StatesType DEF Lanes
    <3>5. (\A i \in DOMAIN c.adapter.ports : Kept(catalog, c, i)) \in BOOLEAN
      OBVIOUS
    <3>6. QED
      BY <2>2, <3>3, <3>4, <3>5 DEF UpLoads, Ups, Rendered
  <2>3. QED
    BY <1>8, <2>1, <2>2
<1>9. ASSUME NEW at \in Checkouts, Down(at)
      PROVE  running' \in [Projects -> Runs] /\ UNCHANGED <<outputs, writer, up>>
  BY <1>2, <1>9, NoUpType DEF Down
<1>10. CASE UpPrints \/ UpVerifies
  BY <1>2, <1>10 DEF UpPrints, UpVerifies, Goto, Ups
<1>11. CASE UpNotReady \/ UpHasNothing \/ UpStops \/ UpGivesUp
  BY <1>2, <1>11, NoUpType DEF UpNotReady, UpHasNothing, UpStops, UpGivesUp,
                               UpEnds
<1>12. CASE UpRuns
  <2>1. up.at \in Checkouts /\ up.quiet \in BOOLEAN
    BY <1>2 DEF Ups
  <2>2. [from |-> up.at, ports |-> outputs[up.at].ports, quiet |-> up.quiet]
            \in Runs
    BY <1>2, <2>1 DEF Runs, Rendered
  <2>3. QED
    BY <1>2, <1>12, <2>2, NoUpType DEF UpRuns
<1>13. QED
  BY <1>2, <1>4, <1>5, <1>6, <1>7, <1>8, <1>9, <1>10, <1>11, <1>12
     DEF LaneNext, allVars, Starts, Stops

-----------------------------------------------------------------------------
(* Preservation: who writes, and what *)

\* The end of the only writer leaves none.
LEMMA WriterEnds ==
    ASSUME UpInv, NEW p \in Procs, Writing(p),
           writer' = [writer EXCEPT ![p] = NoWriter]
    PROVE  \A q \in Procs : ~Writing(q)'
<1>1. writer \in [Procs -> Writers] /\ OneWriter
  BY DEF UpInv, LaneTypeOK, WriterInv
<1>2. QED
  BY <1>1 DEF OneWriter, Writing, NoWriter

LEMMA NoWriterInv == (\A q \in Procs : ~Writing(q)) => WriterInv /\ RunningDiffer
BY DEF WriterInv, OneWriter, WritersPrepare, WrittenDiffer, RunningDiffer,
       RunsElsewhere

LEMMA WriterStep == UpInv /\ [LaneNext]_allVars => WriterInv'
<1> SUFFICES ASSUME UpInv, [LaneNext]_allVars PROVE WriterInv'
  OBVIOUS
<1>1. /\ OneWriter /\ WritersPrepare /\ WrittenDiffer /\ LaneInv
      /\ writer \in [Procs -> Writers]
  BY DEF UpInv, LaneTypeOK, WriterInv
<1>2. ASSUME UNCHANGED <<catalog, writer>>,
             \A q \in Procs : Writing(q) => pc'[q] = pc[q] /\ cmd'[q] = cmd[q]
      PROVE  WriterInv'
  BY <1>1, <1>2
     DEF WriterInv, OneWriter, WritersPrepare, WrittenDiffer, Writing
<1>3. ASSUME NEW p \in Procs, Starts(p) \/ Stops(p) PROVE WriterInv'
  <2>1. ~Writing(p)
    BY <1>1, <1>3, StartsLeaves DEF WritersPrepare, Stops
  <2>2. UNCHANGED <<catalog, writer>>
    BY <1>3, StartsLeaves DEF laneVars, Stops, Stop, store
  <2>3. \A q \in Procs : Writing(q) => pc'[q] = pc[q] /\ cmd'[q] = cmd[q]
    BY <1>1, <1>3, <2>1, OthersStay DEF Stops, Stop
  <2>4. QED
    BY <1>2, <2>2, <2>3
<1>4. ASSUME NEW p \in Procs, WritesOutputs(p) PROVE WriterInv'
  <2>1. /\ pc[p] = "resolved" /\ cmd[p].op = "prepare"
        /\ \A q \in Procs : ~Writing(q)
        /\ UNCHANGED <<catalog, pc, cmd>>
    BY <1>4 DEF WritesOutputs, Locked, vars, store, mind
  <2>2. PICK asg \in ProbedResolutions(cmd[p]) :
          writer' = [writer EXCEPT ![p] =
                        [active |-> TRUE, ports |-> PortStates(cmd[p], asg),
                         before |-> outputs[cmd[p].at]]]
    BY <1>4 DEF WritesOutputs
  <2>3. /\ writer'[p].ports = PortStates(cmd[p], asg)
        /\ \A q \in Procs : Writing(q)' => q = p
    BY <1>1, <2>1, <2>2 DEF Writing
  <2>4. OneWriter' /\ WritersPrepare'
    BY <2>1, <2>3 DEF OneWriter, WritersPrepare
  <2>5. ASSUME NEW k \in Keys, NEW s \in Services,
               k[1] # cmd[p].at, catalog[k] # NoRow
        PROVE  PortStates(cmd[p], asg)[s] # catalog[k].port
    BY <1>1, <2>1, <2>5, PreparesType, StatesAreForeignFree
       DEF ProbedResolutions
  <2>6. WrittenDiffer'
    BY <2>1, <2>3, <2>5 DEF WrittenDiffer
  <2>7. QED
    BY <2>4, <2>6 DEF WriterInv
<1>5. ASSUME NEW p \in Procs, Publishes(p) \/ PublishFails(p) \/ Killed(p)
      PROVE  WriterInv'
  <2>1. \A q \in Procs : ~Writing(q)'
    BY <1>5, WriterEnds DEF Publishes, PublishFails, Killed
  <2>2. QED
    BY <2>1 DEF WriterInv, OneWriter, WritersPrepare, WrittenDiffer
<1>6. ASSUME NEW p \in Procs, Reassigns(p) PROVE WriterInv'
  <2>1. \A q \in Procs : ~Writing(q)'
    BY <1>6 DEF Reassigns, Locked, Writing
  <2>2. QED
    BY <2>1 DEF WriterInv, OneWriter, WritersPrepare, WrittenDiffer
<1>7. ASSUME NEW at \in Checkouts, Switches(at) \/ UpLoads(at) \/ Down(at)
      PROVE  WriterInv'
  <2>1. UNCHANGED <<catalog, writer, pc, cmd>>
    BY <1>7 DEF Switches, Switch, UpLoads, Down, vars, store, mind
  <2>2. QED
    BY <1>2, <2>1
<1>8. CASE \/ UpNotReady \/ UpHasNothing \/ UpPrints \/ UpVerifies \/ UpStops
           \/ UpRuns \/ UpGivesUp \/ UNCHANGED allVars
  <2>1. UNCHANGED <<catalog, writer, pc, cmd>>
    BY <1>8 DEF UpNotReady, UpHasNothing, UpPrints, UpVerifies, UpStops, UpRuns,
                UpGivesUp, UpEnds, Goto, allVars, vars, store, mind, laneVars
  <2>2. QED
    BY <1>2, <2>1
<1>9. QED
  BY <1>3, <1>4, <1>5, <1>6, <1>7, <1>8 DEF LaneNext

-----------------------------------------------------------------------------
(* Preservation: what is quiet *)

\* A change in one checkout ends the quiet of an `up` there, and only there.
LEMMA DisturbedStays ==
    ASSUME UpInv, NEW at \in Checkouts, Disturb(at),
           \A other \in Checkouts \ {at} :
               outputs'[other] = outputs[other] /\ tree'[other] = tree[other],
           \A k \in Keys : k[1] # at => catalog'[k] = catalog[k]
    PROVE  QuietInv'
<1>1. up \in Ups /\ QuietInv
  BY DEF UpInv, LaneTypeOK
<1>2. /\ up'.step = up.step /\ up'.at = up.at /\ up'.manifest = up.manifest
      /\ up'.ready = up.ready
      /\ up'.quiet => up.quiet /\ (up.step = "idle" \/ up.at # at)
  BY <1>1 DEF Disturb, Ups
<1>3. PrintedIsReady'
  BY <1>1, <1>2 DEF QuietInv, PrintedIsReady
<1>4. ASSUME up'.quiet, up.step # "idle"
      PROVE  /\ up.quiet /\ outputs'[up.at] = outputs[up.at]
             /\ tree'[up.at] = tree[up.at]
             /\ \A s \in Services :
                   catalog'[<<up.at, s>>] = catalog[<<up.at, s>>]
  BY <1>1, <1>2, <1>4 DEF Ups, Keys
<1>5. QuietIsAssigned'
  BY <1>1, <1>2, <1>4 DEF QuietInv, QuietIsAssigned, assignedPort
<1>6. QuietIsVerified'
  BY <1>1, <1>2, <1>4 DEF QuietInv, QuietIsVerified
<1>7. QED
  BY <1>3, <1>5, <1>6 DEF QuietInv

LEMMA QuietStep == UpInv /\ [LaneNext]_allVars => QuietInv'
<1> SUFFICES ASSUME UpInv, [LaneNext]_allVars PROVE QuietInv'
  OBVIOUS
<1>1. /\ QuietInv /\ LaneInv /\ up \in Ups
      /\ catalog \in Catalogs /\ outputs \in [Checkouts -> Rendered]
  BY DEF UpInv, LaneTypeOK, TypeOK
<1>2. ASSUME UNCHANGED <<catalog, tree, outputs, up>> PROVE QuietInv'
  BY <1>1, <1>2 DEF QuietInv, PrintedIsReady, QuietIsAssigned, QuietIsVerified,
                    assignedPort
<1>3. ASSUME NEW p \in Procs, Starts(p) \/ Killed(p) \/ Stops(p)
      PROVE  QuietInv'
  <2>1. UNCHANGED <<catalog, tree, outputs, up>>
    BY <1>3, StartsLeaves DEF Killed, Stops, Stop, store, laneVars
  <2>2. QED
    BY <1>2, <2>1
<1>4. ASSUME NEW p \in Procs,
             \/ WritesOutputs(p) \/ Publishes(p) \/ PublishFails(p)
             \/ Reassigns(p)
      PROVE  QuietInv'
  <2>1. pc[p] = "resolved" /\ Disturb(cmd[p].at) /\ tree' = tree
    BY <1>4 DEF WritesOutputs, Publishes, PublishRows, PublishFails, Stop,
                Reassigns, PublishReassign, vars
  <2>2. cmd[p].at \in Checkouts
    BY <1>1, <2>1, PreparesType
  <2>3. \A other \in Checkouts \ {cmd[p].at} : outputs'[other] = outputs[other]
    BY <1>1, <1>4 DEF WritesOutputs, Publishes, PublishFails, Reassigns
  <2>4. \A k \in Keys : k[1] # cmd[p].at => catalog'[k] = catalog[k]
    <3>1. CASE Publishes(p) \/ Reassigns(p)
      BY <1>1, <3>1, PublishesOwnRows, PublishesIsPrepare DEF Reassigns
    <3>2. CASE WritesOutputs(p) \/ PublishFails(p)
      BY <3>2 DEF WritesOutputs, PublishFails, Stop, vars, store
    <3>3. QED
      BY <1>4, <3>1, <3>2
  <2>5. QED
    BY <2>1, <2>2, <2>3, <2>4, DisturbedStays
<1>5. ASSUME NEW at \in Checkouts, Switches(at) PROVE QuietInv'
  <2>1. /\ Disturb(at) /\ UNCHANGED <<outputs, catalog>>
        /\ \A other \in Checkouts \ {at} : tree'[other] = tree[other]
    BY <1>1, <1>5 DEF Switches, Switch, store, LaneInv, TypeOK
  <2>2. QED
    BY <2>1, DisturbedStays
<1>6. ASSUME NEW at \in Checkouts, UpLoads(at) PROVE QuietInv'
  <2>1. PICK options \in Options[at] :
          \E asg \in ProbedResolutions(Own(at, options)) :
             up' = [step |-> "loaded", at |-> at,
                    manifest |-> [lane  |-> NameAt(at, options),
                                  mode  |-> Own(at, options).mode,
                                  ports |-> PortStates(Own(at, options), asg)],
                    ready |-> \A i \in DOMAIN Own(at, options).adapter.ports :
                                 Kept(catalog, Own(at, options), i),
                    quiet |-> TRUE]
    BY <1>6 DEF UpLoads
  <2>2. PICK c \in WellFormed :
          /\ c = Own(at, options)
          /\ c.at = at /\ c.adapter = tree[at].config
    BY <1>1, OwnType
  <2>3. PICK asg \in Resolutions(catalog, c) :
          /\ up'.step = "loaded" /\ up'.at = at
          /\ up'.manifest.ports = PortStates(c, asg)
          /\ up'.manifest.mode = c.mode
          /\ up'.ready <=> \A i \in DOMAIN c.adapter.ports : Kept(catalog, c, i)
    BY <2>1, <2>2 DEF ProbedResolutions
  <2>4. UNCHANGED <<catalog, tree>>
    BY <1>6 DEF UpLoads, vars, store
  <2>5. PrintedIsReady' /\ QuietIsVerified'
    BY <2>3, NoStates DEF PrintedIsReady, QuietIsVerified
  <2>6. ASSUME up'.ready, NEW s \in Services
        PROVE  up'.manifest.ports[s] = assignedPort(at, c.mode, s)
    BY <1>1, <2>2, <2>3, <2>6, ReadyIsAssigned
  <2>7. QuietIsAssigned'
    BY <2>3, <2>4, <2>6 DEF QuietIsAssigned, assignedPort
  <2>8. QED
    BY <2>5, <2>7 DEF QuietInv
<1>7. ASSUME NEW at \in Checkouts, Down(at) PROVE QuietInv'
  BY <1>2, <1>7 DEF Down, vars, store
<1>8. CASE UpPrints
  <2>1. up.ready
    BY <1>1, <1>8 DEF UpPrints, needsPreparedPorts, QuietInv, PrintedIsReady
  <2>2. /\ up' = [up EXCEPT !.step = "printed"] /\ up.step = "loaded"
        /\ UNCHANGED <<catalog, tree>>
    BY <1>8 DEF UpPrints, Goto, vars, store
  <2>3. QED
    BY <1>1, <2>1, <2>2 DEF Ups, QuietInv, PrintedIsReady, QuietIsAssigned,
                            QuietIsVerified, assignedPort
<1>9. CASE UpVerifies
  <2>1. /\ up' = [up EXCEPT !.step = "verified"] /\ up.step = "printed"
        /\ outputs[up.at] = up.manifest
        /\ UNCHANGED <<catalog, tree, outputs>>
    BY <1>9 DEF UpVerifies, Goto, OutputsMatch, vars, store
  <2>2. QED
    BY <1>1, <2>1 DEF Ups, QuietInv, PrintedIsReady, QuietIsAssigned,
                      QuietIsVerified, assignedPort
<1>10. CASE UpNotReady \/ UpHasNothing \/ UpStops \/ UpGivesUp \/ UpRuns
  <2>1. up' = NoUp
    BY <1>10 DEF UpNotReady, UpHasNothing, UpStops, UpGivesUp, UpEnds, UpRuns
  <2>2. up'.step = "idle"
    BY <2>1 DEF NoUp
  <2>3. QED
    BY <2>2 DEF QuietInv, PrintedIsReady, QuietIsAssigned, QuietIsVerified
<1>11. CASE UNCHANGED allVars
  BY <1>2, <1>11 DEF allVars, vars, store, laneVars
<1>12. QED
  BY <1>3, <1>4, <1>5, <1>6, <1>7, <1>8, <1>9, <1>10, <1>11 DEF LaneNext

-----------------------------------------------------------------------------
(* Preservation: what runs *)

LEMMA RunningStep == UpInv /\ [LaneNext]_allVars => RunningInv'
<1> SUFFICES ASSUME UpInv, [LaneNext]_allVars PROVE RunningInv'
  OBVIOUS
<1>1. /\ RunningKeepsPorts /\ RunningDiffer /\ LaneInv
      /\ writer \in [Procs -> Writers] /\ running \in [Projects -> Runs]
      /\ catalog \in Catalogs /\ up \in Ups /\ ApartPorts(catalog)
  BY DEF UpInv, LaneTypeOK, RunningInv, LaneInv, TypeOK
<1>2. ASSUME UNCHANGED <<catalog, running>> PROVE RunningKeepsPorts'
  BY <1>1, <1>2 DEF RunningKeepsPorts
<1>3. ASSUME UNCHANGED <<running, writer>>,
             \A q \in Procs : Writing(q) => cmd'[q] = cmd[q]
      PROVE  RunningDiffer'
  BY <1>1, <1>3 DEF RunningDiffer, RunsElsewhere, Writing
<1>4. ASSUME NEW p \in Procs, Starts(p) \/ Stops(p) PROVE RunningInv'
  <2>1. ~Writing(p)
    BY <1>4, StartsLeaves DEF UpInv, WriterInv, WritersPrepare, Stops
  <2>2. UNCHANGED <<catalog, running, writer>>
    BY <1>4, StartsLeaves DEF laneVars, Stops, Stop, store
  <2>3. \A q \in Procs : Writing(q) => cmd'[q] = cmd[q]
    BY <1>1, <1>4, <2>1, OthersStay DEF Stops, Stop
  <2>4. QED
    BY <1>2, <1>3, <2>2, <2>3 DEF RunningInv
<1>5. ASSUME NEW p \in Procs, WritesOutputs(p) PROVE RunningInv'
  <2>1. /\ pc[p] = "resolved" /\ cmd[p].op = "prepare"
        /\ \A q \in Procs : ~Writing(q)
        /\ UNCHANGED <<catalog, cmd, running>>
    BY <1>5 DEF WritesOutputs, Locked, vars, store, mind
  <2> DEFINE c == cmd[p]
             pruned == pruneUndeclared(catalog, c)
  <2>2. PICK asg \in ProbedResolutions(c) :
          writer' = [writer EXCEPT ![p] =
                        [active |-> TRUE, ports |-> PortStates(c, asg),
                         before |-> outputs[c.at]]]
    BY <1>5 DEF WritesOutputs
  <2>3. /\ writer'[p].ports = PortStates(c, asg)
        /\ \A q \in Procs : Writing(q)' => q = p
    BY <1>1, <2>1, <2>2 DEF Writing
  <2>4. c \in WellFormed /\ asg \in Resolutions(catalog, c)
        /\ Probed(pruned, c, asg)
    BY <1>1, <2>1, PreparesType DEF ProbedResolutions
  <2>5. ASSUME NEW project \in Projects, NEW s \in Services, NEW t \in Services,
               running[project].quiet, running[project].from # c.at,
               running[project].ports[s] = PortStates(c, asg)[t]
        PROVE  PortStates(c, asg)[t] = NoPort
    <3> DEFINE i == IndexOf(c.adapter, t)
               k == <<c.at, t>>
    <3>1. SUFFICES ASSUME PortStates(c, asg)[t] # NoPort PROVE FALSE
      OBVIOUS
    <3>2. /\ Declares(c.adapter, t) /\ i \in DOMAIN c.adapter.ports
          /\ c.adapter.ports[i].name = t /\ PortStates(c, asg)[t] = asg[i]
      BY <2>4, <3>1, StateOf
    <3>3. CASE Kept(pruned, c, i)
      <4>1. k \in Keys /\ k[1] = c.at
        BY <2>4, CommandType DEF Keys
      <4>2. RowOf(pruned, c, i) = catalog[k]
        BY <3>2, <4>1 DEF RowOf, pruneUndeclared
      <4>3. asg[i] = catalog[k].port /\ catalog[k] # NoRow
        BY <2>4, <3>2, <3>3, <4>2
           DEF Resolutions, IsResolution, ResolvedAt, Kept, reuseExisting
      <4>4. QED
        BY <1>1, <2>5, <3>2, <4>1, <4>3 DEF RunningKeepsPorts
    <3>4. CASE ~Kept(pruned, c, i)
      <4>1. asg[i] \notin Bound
        BY <2>4, <3>2, <3>4 DEF Probed
      <4>2. running[project].ports[s] \in Bound
        BY DEF Bound
      <4>3. QED
        BY <2>5, <3>2, <4>1, <4>2
    <3>5. QED
      BY <3>3, <3>4
  <2>6. RunningDiffer'
    BY <2>1, <2>3, <2>5 DEF RunningDiffer, RunsElsewhere
  <2>7. QED
    BY <1>2, <2>1, <2>6 DEF RunningInv
<1>6. ASSUME NEW p \in Procs, PublishFails(p) \/ Killed(p) PROVE RunningInv'
  <2>1. \A q \in Procs : ~Writing(q)'
    BY <1>6, WriterEnds DEF PublishFails, Killed
  <2>2. UNCHANGED <<catalog, running>>
    BY <1>6 DEF PublishFails, Killed, Stop, store
  <2>3. QED
    BY <1>2, <2>1, <2>2 DEF RunningInv, RunningDiffer, RunsElsewhere
<1>7. ASSUME NEW p \in Procs, Publishes(p) PROVE RunningInv'
  <2>1. \A q \in Procs : ~Writing(q)'
    BY <1>7, WriterEnds DEF Publishes
  <2>2. PICK asg \in Resolutions(catalog, cmd[p]),
             moved \in MovePoints(catalog, cmd[p]) :
          /\ PortStates(cmd[p], asg) = writer[p].ports
          /\ PublishRows(p, asg, moved)
    BY <1>7 DEF Publishes
  <2>3. /\ Writing(p) /\ running' = running
        /\ PublishPrepare(p) /\ cmd[p] \in WellFormed
        /\ catalog' = prepareRows(catalog, cmd[p], asg, moved)
    BY <1>1, <1>7, <2>2
       DEF Publishes, PublishPrepare, PublishRows, LaneInv, Prepared
  <2>4. catalog' \in Catalogs
    BY <1>1, <2>3, PrepareType
  <2>5. ASSUME NEW project \in Projects, NEW k \in Keys, NEW s \in Services,
               running[project].quiet, k[1] # running[project].from,
               catalog'[k] # NoRow
        PROVE  running[project].ports[s] # catalog'[k].port
    <3>1. CASE catalog'[k].port = catalog[k].port
      <4>1. catalog[k] # NoRow
        BY <2>4, <2>5, <3>1, RowHasPort DEF NoRow
      <4>2. QED
        BY <1>1, <2>5, <3>1, <4>1 DEF RunningKeepsPorts
    <3>2. CASE k[1] # cmd[p].at
      BY <1>1, <2>3, <3>1, <3>2, PublishesOwnRows
    <3>3. CASE k[1] = cmd[p].at /\ catalog'[k].port # catalog[k].port
      <4>1. catalog'[k].port = writer[p].ports[k[2]] /\ k[2] \in Services
        BY <1>1, <2>2, <2>3, <2>5, <3>3, RowIsWritten DEF Keys
      <4>2. catalog'[k].port # NoPort
        BY <2>4, <2>5, RowHasPort
      <4>3. QED
        BY <1>1, <2>3, <2>5, <3>3, <4>1, <4>2
           DEF RunningDiffer, RunsElsewhere
    <3>4. QED
      BY <3>1, <3>2, <3>3
  <2>6. RunningKeepsPorts'
    BY <2>3, <2>5 DEF RunningKeepsPorts
  <2>7. QED
    BY <2>1, <2>6 DEF RunningInv, RunningDiffer, RunsElsewhere
<1>8. ASSUME NEW p \in Procs, Reassigns(p) PROVE RunningInv'
  <2>1. \A q \in Procs : ~Writing(q)'
    BY <1>8 DEF Reassigns, Locked, Writing
  <2>2. /\ running' = running /\ PublishReassign(p)
        /\ \A k \in Changed : \/ catalog'[k].port = catalog[k].port
                              \/ catalog'[k].port \notin Bound
    BY <1>8 DEF Reassigns
  <2>3. ASSUME NEW project \in Projects, NEW k \in Keys, NEW s \in Services,
               running[project].quiet, k[1] # running[project].from,
               catalog'[k] # NoRow
        PROVE  running[project].ports[s] # catalog'[k].port
    <3>1. CASE catalog'[k].port = catalog[k].port /\ catalog[k] # NoRow
      BY <1>1, <2>3, <3>1 DEF RunningKeepsPorts
    <3>2. CASE catalog'[k].port \notin Bound
      BY <3>2 DEF Bound
    <3>3. CASE catalog[k] = NoRow
      <4>1. k \in Changed
        BY <2>3, <3>3 DEF Changed
      <4>2. k = <<cmd[p].at, cmd[p].service>>
        BY <1>1, <2>2, <4>1, ReassignChanges DEF Keys
      <4>3. QED
        BY <2>2, <3>3, <4>2 DEF PublishReassign, ReassignOutcome
    <3>4. CASE k \notin Changed
      BY <1>1, <2>3, <3>4 DEF RunningKeepsPorts, Changed
    <3>5. QED
      BY <2>2, <3>1, <3>2, <3>3, <3>4
  <2>4. RunningKeepsPorts'
    BY <2>2, <2>3 DEF RunningKeepsPorts
  <2>5. QED
    BY <2>1, <2>4 DEF RunningInv, RunningDiffer, RunsElsewhere
<1>9. ASSUME NEW at \in Checkouts, Switches(at) \/ UpLoads(at)
      PROVE  RunningInv'
  <2>1. UNCHANGED <<catalog, running, writer, cmd>>
    BY <1>9 DEF Switches, Switch, UpLoads, vars, store, mind
  <2>2. QED
    BY <1>2, <1>3, <2>1 DEF RunningInv
<1>10. ASSUME NEW at \in Checkouts, Down(at) PROVE RunningInv'
  <2>1. PICK options \in Options[at] :
          /\ running' = [running EXCEPT
                            ![Project(at, NameAt(at, options))] = NotRunning]
          /\ UNCHANGED <<catalog, writer, cmd>>
    BY <1>10 DEF Down, vars, store, mind
  <2>2. \A project \in Projects : \/ running'[project] = running[project]
                                  \/ running'[project] = NotRunning
    BY <1>1, <2>1
  <2>3. \A s \in Services : NotRunning.ports[s] = NoPort
    BY DEF NotRunning, NoPorts
  <2>4. RunningKeepsPorts'
    BY <1>1, <2>1, <2>2, <2>3, RowHasPort DEF RunningKeepsPorts
  <2>5. RunningDiffer'
    BY <1>1, <2>1, <2>2, <2>3 DEF RunningDiffer, RunsElsewhere, Writing
  <2>6. QED
    BY <2>4, <2>5 DEF RunningInv
<1>11. CASE UpRuns
  <2> DEFINE run == [from |-> up.at, ports |-> outputs[up.at].ports,
                     quiet |-> up.quiet]
  <2>1. /\ running' = [running EXCEPT ![Project(up.at, up.manifest.lane)] = run]
        /\ UNCHANGED <<catalog, writer, cmd>> /\ up.step = "verified"
    BY <1>11 DEF UpRuns, vars, store, mind
  <2>2. up.at \in Checkouts
    BY <1>1 DEF Ups
  <2>3. ASSUME up.quiet, NEW s \in Services, run.ports[s] # NoPort
        PROVE  /\ <<up.at, s>> \in Keys /\ catalog[<<up.at, s>>] # NoRow
               /\ run.ports[s] = catalog[<<up.at, s>>].port
    <3>1. outputs[up.at] = up.manifest /\ up.ready
      BY <2>1, <2>3 DEF UpInv, QuietInv, QuietIsVerified, PrintedIsReady
    <3>2. run.ports[s] = assignedPort(up.at, up.manifest.mode, s)
      BY <2>1, <2>3, <3>1 DEF UpInv, QuietInv, QuietIsAssigned
    <3>3. QED
      BY <1>1, <2>2, <2>3, <3>2, AssignedIsOfRow
  <2>4. ASSUME run.quiet, NEW k \in Keys, NEW s \in Services,
               k[1] # run.from, catalog[k] # NoRow
        PROVE  run.ports[s] # catalog[k].port
    <3>1. CASE run.ports[s] = NoPort
      BY <1>1, <2>4, <3>1, RowHasPort
    <3>2. CASE run.ports[s] # NoPort
      <4>1. /\ <<up.at, s>> \in Keys /\ <<up.at, s>> # k
            /\ run.ports[s] = catalog[<<up.at, s>>].port
        BY <2>3, <2>4, <3>2
      <4>2. QED
        BY <1>1, <2>4, <3>2, <4>1 DEF ApartPorts
    <3>3. QED
      BY <3>1, <3>2
  <2>5. ASSUME NEW p \in Procs, NEW s \in Services, NEW t \in Services,
               RunsElsewhere(run, p, s, t)
        PROVE  writer[p].ports[t] = NoPort
    <3>1. SUFFICES ASSUME run.ports[s] # NoPort PROVE FALSE
      BY <2>5 DEF RunsElsewhere
    <3>2. /\ <<up.at, s>> \in Keys /\ catalog[<<up.at, s>>] # NoRow
          /\ run.ports[s] = catalog[<<up.at, s>>].port
      BY <2>3, <2>5, <3>1 DEF RunsElsewhere
    <3>3. Writing(p) /\ <<up.at, s>>[1] # cmd[p].at
          /\ run.ports[s] = writer[p].ports[t]
      BY <2>5 DEF RunsElsewhere
    <3>4. QED
      BY <3>2, <3>3 DEF UpInv, WriterInv, WrittenDiffer
  <2>6. \A project \in Projects : \/ running'[project] = running[project]
                                  \/ running'[project] = run
    BY <1>1, <2>1
  <2> HIDE DEF run
  <2>7. RunningKeepsPorts'
    BY <1>1, <2>1, <2>4, <2>6 DEF RunningKeepsPorts
  <2>8. RunningDiffer'
    BY <1>1, <2>1, <2>5, <2>6 DEF RunningDiffer, RunsElsewhere, Writing
  <2>9. QED
    BY <2>7, <2>8 DEF RunningInv
<1>12. CASE \/ UpNotReady \/ UpHasNothing \/ UpPrints \/ UpVerifies \/ UpStops
            \/ UpGivesUp \/ UNCHANGED allVars
  <2>1. UNCHANGED <<catalog, running, writer, cmd>>
    BY <1>12 DEF UpNotReady, UpHasNothing, UpPrints, UpVerifies, UpStops,
                 UpGivesUp, UpEnds, Goto, allVars, vars, store, mind, laneVars
  <2>2. QED
    BY <1>2, <1>3, <2>1 DEF RunningInv
<1>13. QED
  BY <1>4, <1>5, <1>6, <1>7, <1>8, <1>9, <1>10, <1>11, <1>12 DEF LaneNext

-----------------------------------------------------------------------------
(* Theorems about LaneUp *)

LEMMA UpInitially == LaneInit => UpInv
<1> SUFFICES ASSUME LaneInit PROVE UpInv
  OBVIOUS
<1>1. LaneInv /\ LaneTypeOK
  BY Initially, LaneInitType DEF LaneInit
<1>2. \A p \in Procs : ~Writing(p)
  BY DEF LaneInit, Writing, NoWriter
<1>3. WriterInv /\ RunningDiffer
  BY <1>2 DEF WriterInv, OneWriter, WritersPrepare, WrittenDiffer,
              RunningDiffer, RunsElsewhere
<1>4. RunningKeepsPorts /\ QuietInv
  BY DEF LaneInit, Init, EmptyCatalog, RunningKeepsPorts, NoUp, QuietInv,
         PrintedIsReady, QuietIsAssigned, QuietIsVerified
<1>5. QED
  BY <1>1, <1>3, <1>4 DEF UpInv, RunningInv

LEMMA UpInductive == UpInv /\ [LaneNext]_allVars => UpInv'
<1>1. UpInv => LaneInv
  BY DEF UpInv
<1>2. QED
  BY <1>1, StepKeepsLaneInv, LaneTypeStep, WriterStep, RunningStep, QuietStep
     DEF UpInv

LEMMA UpInvariance == LaneSpec => []UpInv
BY UpInitially, UpInductive, PTL DEF LaneSpec

\* Every variable of `up` and of the prepares beside it keeps its type.
THEOREM UpTypeCorrect == LaneSpec => []LaneTypeOK
<1>1. UpInv => LaneTypeOK
  BY DEF UpInv
<1>2. QED
  BY <1>1, UpInvariance, PTL

\* Whatever `up` and `down` do, the commands beside them behave as those of
\* LaneReassign, so that what is proved of those holds here.
THEOREM UpImplementsLaneReassign == LaneSpec => Spec
<1>1. LaneInit => Init
  BY DEF LaneInit
<1>2. [LaneNext]_allVars => [Next]_vars
  BY LaneNextIsNext DEF allVars
<1>3. QED
  BY <1>1, <1>2, PTL DEF LaneSpec, Spec

\* A port that runs, from an `up` that nothing disturbed, is in no row of
\* another checkout, whatever happens afterwards.
THEOREM RunningPortsAreKept == LaneSpec => []RunningKeepsPorts
<1>1. UpInv => RunningKeepsPorts
  BY DEF UpInv, RunningInv
<1>2. QED
  BY <1>1, UpInvariance, PTL

\* An `up` that nothing disturbed starts what `port` prints.
THEOREM QuietUpsStartAssigned == LaneSpec => QuietUpIsAssigned
<1> DEFINE Assigned ==
        UpRuns /\ up.quiet =>
            \A service \in Services :
                outputs[up.at].ports[service] =
                    assignedPort(up.at, up.manifest.mode, service)
<1>1. UpInv => Assigned
  <2>1. SUFFICES ASSUME UpInv, UpRuns, up.quiet
                 PROVE  /\ outputs[up.at] = up.manifest
                        /\ \A s \in Services :
                              up.manifest.ports[s] =
                                  assignedPort(up.at, up.manifest.mode, s)
    OBVIOUS
  <2>2. outputs[up.at] = up.manifest /\ up.ready
    BY <2>1 DEF UpRuns, UpInv, QuietInv, QuietIsVerified, PrintedIsReady
  <2>3. QED
    BY <2>1, <2>2 DEF UpRuns, UpInv, QuietInv, QuietIsAssigned
<1>2. UpInv /\ [LaneNext]_allVars => [Assigned]_allVars
  BY <1>1
<1>3. QED
  BY <1>2, UpInvariance, PTL DEF LaneSpec, QuietUpIsAssigned
=============================================================================
