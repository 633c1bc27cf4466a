------------------------ MODULE PortAllocationProofs ------------------------
(***************************************************************************)
(* What the operators of PortAllocation do to a catalog, for every set of  *)
(* checkouts, services and ports and for every adapter: they keep catalogs *)
(* catalogs, keep ports apart, keep what must be kept and change no row of *)
(* another checkout.  The proofs about HostCatalog and LaneReassign rest   *)
(* on these lemmas.                                                        *)
(***************************************************************************)
EXTENDS PortAllocation, TLAPS

\* The commands that get as far as the catalog: a reassign names a service
\* its adapter declares.
WellFormed ==
    {c \in CommandRecords :
        c.op = "reassign" => Declares(c.adapter, c.service)}

-----------------------------------------------------------------------------
(* Types *)

\* A command is well typed, and so is every declaration of its adapter.
LEMMA CommandType ==
    ASSUME NEW c \in WellFormed
    PROVE  /\ c.op \in {"prepare", "reassign", "cleanup"}
           /\ c.at \in Checkouts
           /\ c.mode \in Modes
           /\ c.service \in Services
           /\ c.adapter \in AdapterConfigs
           /\ c.adapter.ports \in Seq(PortConfigs)
BY DEF WellFormed, CommandRecords, AdapterConfigs

\* The fixture of a declaration is a port.
LEMMA StablePortIsPort ==
    ASSUME NEW cfg \in PortConfigs
    PROVE  stablePort(cfg) \in Ports
BY PortsAssumption DEF PortConfigs, stablePort

\* Whatever the mode, only ports are chosen.
LEMMA ChoosableArePorts ==
    ASSUME NEW cfg \in PortConfigs, NEW mode
    PROVE  ChoosablePorts(cfg, mode) \subseteq Ports
BY StablePortIsPort DEF ChoosablePorts, CandidatePorts

\* A declared service has one declaration, and CHOOSE finds it.
LEMMA DeclarationOf ==
    ASSUME NEW adapter \in AdapterConfigs, NEW s, Declares(adapter, s)
    PROVE  /\ IndexOf(adapter, s) \in DOMAIN adapter.ports
           /\ adapter.ports[IndexOf(adapter, s)].name = s
           /\ adapter.ports[IndexOf(adapter, s)] \in PortConfigs
<1>1. /\ IndexOf(adapter, s) \in DOMAIN adapter.ports
      /\ adapter.ports[IndexOf(adapter, s)].name = s
  BY DEF Declares, IndexOf
<1>2. adapter.ports \in Seq(PortConfigs)
  BY DEF AdapterConfigs
<1>3. QED
  BY <1>1, <1>2

\* Pruning keeps a catalog a catalog.
LEMMA PruneType ==
    ASSUME NEW cat \in Catalogs, NEW c
    PROVE  pruneUndeclared(cat, c) \in Catalogs
BY DEF Catalogs, pruneUndeclared

\* The catalog prepare computes is a catalog.
LEMMA PrepareType ==
    ASSUME NEW c \in WellFormed, NEW cat \in Catalogs,
           NEW asg \in Resolutions(cat, c), NEW moved
    PROVE  prepareRows(cat, c, asg, moved) \in Catalogs
<1> DEFINE pruned == pruneUndeclared(cat, c)
<1>1. pruned \in Catalogs
  BY PruneType
<1>2. asg \in [DOMAIN c.adapter.ports -> Ports]
  BY DEF Resolutions
<1>3. ASSUME NEW k \in Keys, k[1] = c.at, Declares(c.adapter, k[2])
      PROVE  [port |-> asg[IndexOf(c.adapter, k[2])], mode |-> c.mode]
                 \in Allocations
  BY <1>2, <1>3, CommandType, DeclarationOf DEF Allocations
<1>4. WriteRows(pruned, c, asg, moved) \in Catalogs
  BY <1>1, <1>3 DEF WriteRows, Catalogs
<1>5. QED
  BY <1>4 DEF prepareRows

\* The catalog reassign computes is a catalog.
LEMMA ReassignType ==
    ASSUME NEW c \in WellFormed, c.op = "reassign", NEW cat \in Catalogs,
           NEW port \in ReassignPorts(cat, c)
    PROVE  /\ port \in Ports
           /\ reassignRow(cat, c, port) \in Catalogs
<1>1. Declares(c.adapter, c.service)
  BY DEF WellFormed
<1>2. port \in Ports
  BY <1>1, CommandType, DeclarationOf, ChoosableArePorts DEF ReassignPorts
<1>3. QED
  BY <1>2, CommandType DEF reassignRow, Catalogs, Allocations

\* Dropping the rows of a checkout keeps a catalog a catalog.
LEMMA DropType ==
    ASSUME NEW c, NEW cat \in Catalogs
    PROVE  dropCheckout(cat, c) \in Catalogs
BY DEF dropCheckout, Catalogs

-----------------------------------------------------------------------------
(* One port, one row *)

\* A row that the loop has not displaced is held: its port cannot be chosen.
LEMMA HeldUntilDisplaced ==
    ASSUME NEW c \in WellFormed, NEW cat \in Catalogs, UniquePorts(cat),
           NEW i \in DOMAIN c.adapter.ports,
           NEW k \in Keys, cat[k].port # NoPort,
           \A m \in DOMAIN c.adapter.ports :
               m <= i /\ ~Kept(cat, c, m)
                   => k # <<c.at, c.adapter.ports[m].name>>
    PROVE  cat[k].port \in HeldAt(cat, c, i)
<1>1. SUFFICES ASSUME NEW m \in DOMAIN c.adapter.ports,
                      m <= i, ~Kept(cat, c, m)
               PROVE  RowOf(cat, c, m).port # cat[k].port
  BY DEF HeldAt
<1>2. <<c.at, c.adapter.ports[m].name>> \in Keys
  <2>1. c.adapter.ports[m] \in PortConfigs
    BY CommandType
  <2>2. QED
    BY <2>1, CommandType DEF PortConfigs, Keys
<1>3. QED
  BY <1>1, <1>2 DEF RowOf, UniquePorts

\* Declared services of one adapter have different keys.
LEMMA KeysDiffer ==
    ASSUME NEW c \in WellFormed,
           NEW i \in DOMAIN c.adapter.ports, NEW j \in DOMAIN c.adapter.ports
    PROVE  /\ <<c.at, c.adapter.ports[i].name>> \in Keys
           /\ <<c.at, c.adapter.ports[i].name>> =
                  <<c.at, c.adapter.ports[j].name>> => i = j
<1>1. c.adapter.ports[i] \in PortConfigs
  BY CommandType
<1>2. c.adapter.ports[i].name = c.adapter.ports[j].name => i = j
  BY CommandType DEF AdapterConfigs
<1>3. QED
  BY <1>1, <1>2, CommandType DEF PortConfigs, Keys

\* Two declarations never get one port, whichever is declared first and
\* whether they keep a row, move one or get a new one.
LEMMA LaterDiffers ==
    ASSUME NEW c \in WellFormed, NEW cat \in Catalogs, UniquePorts(cat),
           NEW i \in DOMAIN c.adapter.ports, NEW j \in DOMAIN c.adapter.ports,
           i < j,
           NEW asg, i \in DOMAIN asg, asg[i] \in Ports, asg[j] \in Ports,
           ResolvedAt(cat, c, asg, i), ResolvedAt(cat, c, asg, j)
    PROVE  asg[i] # asg[j]
<1>0. i \in Nat /\ j \in Nat
  BY CommandType
<1>1. CASE ~Kept(cat, c, j)
  <2>1. asg[i] \in ClaimedAt(asg, j)
    BY DEF ClaimedAt
  <2>2. asg[j] \notin Taken(cat, c, asg, j)
    BY <1>1 DEF ResolvedAt
  <2>3. QED
    BY <2>1, <2>2 DEF Taken
<1>2. CASE Kept(cat, c, j) /\ ~Kept(cat, c, i)
  <2> DEFINE kj == <<c.at, c.adapter.ports[j].name>>
  <2>1. asg[j] = cat[kj].port
    BY <1>2 DEF ResolvedAt, RowOf
  <2>2. cat[kj].port # NoPort
    BY <2>1, PortsAssumption
  <2>3. \A m \in DOMAIN c.adapter.ports :
            m <= i /\ ~Kept(cat, c, m)
                => kj # <<c.at, c.adapter.ports[m].name>>
    BY <1>2, KeysDiffer
  <2>4. cat[kj].port \in HeldAt(cat, c, i)
    BY <2>2, <2>3, KeysDiffer, HeldUntilDisplaced
  <2>5. asg[i] \notin Taken(cat, c, asg, i)
    BY <1>2 DEF ResolvedAt
  <2>6. QED
    BY <2>1, <2>4, <2>5 DEF Taken
<1>3. CASE Kept(cat, c, j) /\ Kept(cat, c, i)
  <2>1. asg[j] = RowOf(cat, c, j).port /\ asg[i] = RowOf(cat, c, i).port
    BY <1>3 DEF ResolvedAt
  <2>2. <<c.at, c.adapter.ports[i].name>> # <<c.at, c.adapter.ports[j].name>>
    <3>1. i # j
      BY <1>0
    <3>2. <<c.at, c.adapter.ports[i].name>> = <<c.at, c.adapter.ports[j].name>>
             => i = j
      BY KeysDiffer
    <3>3. QED
      BY <3>1, <3>2
  <2>3. QED
    BY <2>1, <2>2, KeysDiffer, PortsAssumption DEF RowOf, UniquePorts
<1>4. QED
  BY <1>1, <1>2, <1>3

\* A declaration never gets the port of a row it does not own.
LEMMA ForeignDiffers ==
    ASSUME NEW c \in WellFormed, NEW cat \in Catalogs, UniquePorts(cat),
           NEW asg \in [DOMAIN c.adapter.ports -> Ports],
           IsResolution(cat, c, asg),
           NEW i \in DOMAIN c.adapter.ports,
           NEW k \in Keys,
           \A m \in DOMAIN c.adapter.ports :
               k # <<c.at, c.adapter.ports[m].name>>
    PROVE  asg[i] # cat[k].port
<1>1. CASE cat[k].port = NoPort
  BY <1>1, PortsAssumption
<1>2. CASE cat[k].port # NoPort /\ Kept(cat, c, i)
  <2>1. asg[i] = RowOf(cat, c, i).port
    BY <1>2 DEF IsResolution, ResolvedAt
  <2>2. /\ <<c.at, c.adapter.ports[i].name>> \in Keys
        /\ k # <<c.at, c.adapter.ports[i].name>>
    BY KeysDiffer
  <2>3. QED
    BY <1>2, <2>1, <2>2 DEF RowOf, UniquePorts
<1>3. CASE cat[k].port # NoPort /\ ~Kept(cat, c, i)
  <2>1. cat[k].port \in HeldAt(cat, c, i)
    BY <1>3, HeldUntilDisplaced
  <2>2. asg[i] \notin Taken(cat, c, asg, i)
    BY <1>3 DEF IsResolution, ResolvedAt
  <2>3. QED
    BY <2>1, <2>2 DEF Taken
<1>4. QED
  BY <1>1, <1>2, <1>3

LEMMA PruneKeepsUnique ==
    ASSUME NEW cat \in Catalogs, NEW c, UniquePorts(cat)
    PROVE  UniquePorts(pruneUndeclared(cat, c))
BY DEF UniquePorts, pruneUndeclared, NoRow

\* Pruning leaves the rows of declared services as they are.
LEMMA PruneKeepsDeclared ==
    ASSUME NEW c \in WellFormed, NEW cat, NEW i \in DOMAIN c.adapter.ports
    PROVE  /\ RowOf(pruneUndeclared(cat, c), c, i) = RowOf(cat, c, i)
           /\ Kept(pruneUndeclared(cat, c), c, i) <=> Kept(cat, c, i)
<1>1. RowOf(pruneUndeclared(cat, c), c, i) = RowOf(cat, c, i)
  BY KeysDiffer DEF RowOf, pruneUndeclared, Declares
<1>2. QED
  BY <1>1 DEF Kept

\* The i-th row has to leave its port, and the write that says so is lost.
LosesMove(cat, c, moved, i) == LostWrite(cat, c, moved, i) /\ ~Kept(cat, c, i)

\* The row of a declared service in the catalog that prepare publishes: the
\* chosen port, or what was there before if the write was lost.
LEMMA PublishedRow ==
    ASSUME NEW c \in WellFormed, NEW cat \in Catalogs,
           NEW asg \in Resolutions(cat, c), NEW moved,
           NEW i \in DOMAIN c.adapter.ports
    PROVE  RowOf(prepareRows(cat, c, asg, moved), c, i) =
               IF LostWrite(cat, c, moved, i)
               THEN RowOf(cat, c, i)
               ELSE [port |-> asg[i], mode |-> c.mode]
<1> DEFINE k      == <<c.at, c.adapter.ports[i].name>>
           pruned == pruneUndeclared(cat, c)
<1>1. Declares(c.adapter, k[2]) /\ k \in Keys /\ k[1] = c.at
  BY KeysDiffer DEF Declares
<1>2. IndexOf(c.adapter, k[2]) = i
  <2>1. /\ IndexOf(c.adapter, k[2]) \in DOMAIN c.adapter.ports
        /\ c.adapter.ports[IndexOf(c.adapter, k[2])].name = k[2]
    BY <1>1, CommandType, DeclarationOf
  <2>2. QED
    BY <2>1, CommandType DEF AdapterConfigs
<1>3. RowOf(pruned, c, i) = RowOf(cat, c, i)
  BY PruneKeepsDeclared
<1>4. prepareRows(cat, c, asg, moved)[k] =
          IF LostWrite(pruned, c, moved, i)
          THEN pruned[k]
          ELSE [port |-> asg[i], mode |-> c.mode]
  BY <1>1, <1>2 DEF prepareRows, WriteRows
<1>5. QED
  BY <1>3, <1>4 DEF RowOf, LostWrite

\* The port of a declared service in that catalog: only a row that had to move
\* can fail to have the chosen port.
LEMMA PublishedPort ==
    ASSUME NEW c \in WellFormed, NEW cat \in Catalogs,
           NEW asg \in Resolutions(cat, c), NEW moved,
           NEW i \in DOMAIN c.adapter.ports
    PROVE  RowOf(prepareRows(cat, c, asg, moved), c, i).port =
               IF LosesMove(cat, c, moved, i)
               THEN RowOf(cat, c, i).port ELSE asg[i]
<1>1. CASE LostWrite(cat, c, moved, i) /\ Kept(cat, c, i)
  <2>1. Kept(pruneUndeclared(cat, c), c, i)
    BY <1>1, PruneKeepsDeclared
  <2>2. asg[i] = RowOf(pruneUndeclared(cat, c), c, i).port
    BY <2>1 DEF Resolutions, IsResolution, ResolvedAt
  <2>3. QED
    BY <1>1, <2>2, PublishedRow, PruneKeepsDeclared DEF LosesMove
<1>2. CASE LosesMove(cat, c, moved, i)
  BY <1>2, PublishedRow DEF LosesMove
<1>3. CASE ~LostWrite(cat, c, moved, i)
  BY <1>3, PublishedRow DEF LosesMove
<1>4. QED
  BY <1>1, <1>2, <1>3 DEF LosesMove

\* A lost move shows: the row that had to leave its port is where it was.
LEMMA LostMoveShows ==
    ASSUME NEW c \in WellFormed, NEW cat \in Catalogs,
           NEW asg \in Resolutions(cat, c), NEW moved,
           NEW i \in DOMAIN c.adapter.ports, LosesMove(cat, c, moved, i)
    PROVE  KeepsDisplaced(c, cat, prepareRows(cat, c, asg, moved))
BY PublishedRow DEF LosesMove, LostWrite, KeepsDisplaced

\* The only rows that may share a port with another are those that had to move
\* and did not: a service declared later may have been given their port.
LEMMA PrepareKeepsUnique ==
    ASSUME NEW c \in WellFormed, NEW cat \in Catalogs, UniquePorts(cat),
           NEW asg \in Resolutions(cat, c), NEW moved,
           \A i \in DOMAIN c.adapter.ports :
               LosesMove(cat, c, moved, i) => i = Len(c.adapter.ports)
    PROVE  UniquePorts(prepareRows(cat, c, asg, moved))
<1> DEFINE pruned == pruneUndeclared(cat, c)
           new    == prepareRows(cat, c, asg, moved)
           own(k) == k[1] = c.at /\ Declares(c.adapter, k[2])
           at(k)  == IndexOf(c.adapter, k[2])
           D      == DOMAIN c.adapter.ports
<1>1. pruned \in Catalogs /\ UniquePorts(pruned)
  BY PruneType, PruneKeepsUnique
<1>2. asg \in [D -> Ports] /\ IsResolution(pruned, c, asg)
  BY DEF Resolutions
<1>3. ASSUME NEW k \in Keys, own(k)
      PROVE  /\ at(k) \in D
             /\ k = <<c.at, c.adapter.ports[at(k)].name>>
             /\ new[k].port = IF LosesMove(cat, c, moved, at(k))
                              THEN pruned[k].port ELSE asg[at(k)]
  <2>1. at(k) \in D /\ c.adapter.ports[at(k)].name = k[2]
    BY <1>3, CommandType, DeclarationOf
  <2>2. k = <<c.at, c.adapter.ports[at(k)].name>>
    BY <1>3, <2>1 DEF Keys
  <2>3. RowOf(new, c, at(k)) = new[k] /\ RowOf(pruned, c, at(k)) = pruned[k]
    BY <2>2 DEF RowOf
  <2>4. RowOf(pruned, c, at(k)) = RowOf(cat, c, at(k))
    BY <2>1, PruneKeepsDeclared
  <2>5. RowOf(new, c, at(k)).port = IF LosesMove(cat, c, moved, at(k))
                                    THEN RowOf(cat, c, at(k)).port
                                    ELSE asg[at(k)]
    BY <2>1, PublishedPort
  <2>6. QED
    BY <2>1, <2>2, <2>3, <2>4, <2>5
<1>4. \A k \in Keys : ~own(k) => new[k] = pruned[k]
  BY DEF prepareRows, WriteRows
<1>5. \A m \in D : m \in DOMAIN asg /\ asg[m] \in Ports
                      /\ ResolvedAt(pruned, c, asg, m)
  BY <1>2 DEF IsResolution
<1>6. ASSUME NEW k1 \in Keys, NEW k2 \in Keys, own(k1), own(k2),
             at(k1) < at(k2)
      PROVE  new[k1].port # new[k2].port
  <2>1. at(k1) \in D /\ at(k2) \in D
    BY <1>3, <1>6
  <2>2. new[k1].port = asg[at(k1)]
    <3>1. at(k1) # Len(c.adapter.ports)
      BY <1>6, <2>1, CommandType
    <3>2. QED
      BY <1>3, <1>6, <2>1, <3>1
  <2>3. CASE ~LosesMove(cat, c, moved, at(k2))
    <3>1. new[k2].port = asg[at(k2)]
      BY <1>3, <1>6, <2>3
    <3> HIDE DEF pruned, at
    <3>2. asg[at(k1)] # asg[at(k2)]
      BY <1>1, <1>5, <1>6, <2>1, LaterDiffers
    <3>3. QED
      BY <2>2, <3>1, <3>2
  <2>4. CASE LosesMove(cat, c, moved, at(k2))
    <3>1. new[k2].port = pruned[k2].port
      BY <1>3, <1>6, <2>4
    <3>2. pruned[k2].port # NoPort
      <4>1. RowOf(pruned, c, at(k2)) = pruned[k2]
        BY <1>3, <1>6 DEF RowOf
      <4>2. pruned[k2] # NoRow
        BY <2>1, <2>4, <4>1, PruneKeepsDeclared DEF LosesMove, LostWrite
      <4>3. QED
        BY <1>1, <4>2, PortsAssumption DEF Catalogs, Allocations
    <3>3. CASE Kept(pruned, c, at(k1))
      <4>1. asg[at(k1)] = pruned[k1].port
        BY <1>3, <1>5, <1>6, <2>1, <3>3 DEF ResolvedAt, RowOf
      <4>2. k1 # k2
        BY <1>6, <2>1, CommandType
      <4>3. QED
        BY <1>1, <2>2, <3>1, <3>2, <4>1, <4>2 DEF UniquePorts
    <3>4. CASE ~Kept(pruned, c, at(k1))
      <4>1. \A m \in D : m <= at(k1) => k2 # <<c.at, c.adapter.ports[m].name>>
        <5>1. k2 = <<c.at, c.adapter.ports[at(k2)].name>>
          BY <1>3, <1>6
        <5>2. \A m \in D : m <= at(k1) => m # at(k2)
          BY <1>6, <2>1, CommandType
        <5>3. QED
          BY <2>1, <5>1, <5>2, KeysDiffer
      <4> HIDE DEF pruned, at
      <4>2. pruned[k2].port \in HeldAt(pruned, c, at(k1))
        BY <1>1, <2>1, <3>2, <4>1, HeldUntilDisplaced
      <4>3. asg[at(k1)] \notin Taken(pruned, c, asg, at(k1))
        BY <1>5, <2>1, <3>4 DEF ResolvedAt
      <4>4. QED
        BY <2>2, <3>1, <4>2, <4>3 DEF Taken
    <3>5. QED
      BY <3>3, <3>4
  <2>5. QED
    BY <2>3, <2>4
<1>7. ASSUME NEW k1 \in Keys, NEW k2 \in Keys, k1 # k2, own(k1), own(k2)
      PROVE  new[k1].port # new[k2].port
  <2>1. at(k1) # at(k2)
    BY <1>3, <1>7
  <2>2. at(k1) < at(k2) \/ at(k2) < at(k1)
    BY <1>3, <1>7, <2>1, CommandType
  <2>3. QED
    BY <1>6, <1>7, <2>2
<1>8. ASSUME NEW k1 \in Keys, NEW k2 \in Keys, own(k1), ~own(k2),
             new[k1].port = new[k2].port
      PROVE  new[k1].port = NoPort
  <2>1. \A m \in D : k2 # <<c.at, c.adapter.ports[m].name>>
    BY <1>8 DEF Declares
  <2>2. asg[at(k1)] # pruned[k2].port
    BY <1>1, <1>2, <1>3, <1>8, <2>1, ForeignDiffers
  <2>3. pruned[k1].port = pruned[k2].port => pruned[k1].port = NoPort
    BY <1>1, <1>8 DEF UniquePorts
  <2>4. QED
    BY <1>3, <1>4, <1>8, <2>2, <2>3
<1>9. ASSUME NEW k1 \in Keys, NEW k2 \in Keys, k1 # k2, ~own(k1), ~own(k2),
             new[k1].port = new[k2].port
      PROVE  new[k1].port = NoPort
  BY <1>1, <1>4, <1>9 DEF UniquePorts
<1>10. QED
  BY <1>7, <1>8, <1>9 DEF UniquePorts

\* There are none when the array stays where it is, nor in a dev lane, in which
\* no row has to move.
LEMMA UnlostKeepsUnique ==
    ASSUME NEW c \in WellFormed, NEW cat \in Catalogs, UniquePorts(cat),
           NEW asg \in Resolutions(cat, c), NEW moved,
           moved = Unmoved(c) \/ c.mode = "dev"
    PROVE  UniquePorts(prepareRows(cat, c, asg, moved))
<1>1. ASSUME NEW i \in DOMAIN c.adapter.ports PROVE ~LosesMove(cat, c, moved, i)
  <2>1. CASE c.mode = "dev"
    BY <2>1 DEF LosesMove, LostWrite, Kept, reuseExisting
  <2>2. CASE moved = Unmoved(c)
    BY <2>2, CommandType DEF LosesMove, LostWrite, Unmoved
  <2>3. QED
    BY <2>1, <2>2
<1>2. QED
  BY <1>1, PrepareKeepsUnique

\* A prepare that moved every row it had to move keeps ports apart.
LEMMA MovedKeepsUnique ==
    ASSUME NEW c \in WellFormed, NEW cat \in Catalogs, UniquePorts(cat),
           NEW asg \in Resolutions(cat, c), NEW moved,
           ~KeepsDisplaced(c, cat, prepareRows(cat, c, asg, moved))
    PROVE  UniquePorts(prepareRows(cat, c, asg, moved))
BY LostMoveShows, PrepareKeepsUnique

LEMMA ReassignKeepsUnique ==
    ASSUME NEW c \in WellFormed, c.op = "reassign", NEW cat \in Catalogs,
           UniquePorts(cat), NEW port \in ReassignPorts(cat, c)
    PROVE  UniquePorts(reassignRow(cat, c, port))
<1> DEFINE key == <<c.at, c.service>>
           new == reassignRow(cat, c, port)
<1>1. key \in Keys
  BY CommandType DEF Keys
<1>2. \A k \in Keys \ {key} : cat[k].port # port
  BY DEF ReassignPorts
<1>3. /\ new[key].port = port
      /\ \A k \in Keys \ {key} : new[k] = cat[k]
  BY <1>1 DEF reassignRow, Catalogs
<1>4. QED
  BY <1>1, <1>2, <1>3 DEF UniquePorts

LEMMA DropKeepsUnique ==
    ASSUME NEW cat \in Catalogs, NEW c, UniquePorts(cat)
    PROVE  UniquePorts(dropCheckout(cat, c))
BY DEF UniquePorts, dropCheckout, NoRow

\* What the guarantee needs of a command: append leaves the rows where they
\* are; or the lane is not stable, so that no row has to move; or there is no
\* third service that could be given the port that a row should have left.
LosesNoPort(c) == ~AppendMoves \/ c.mode = "dev" \/ Len(c.adapter.ports) <= 2

LEMMA LostIsLast ==
    ASSUME NEW c \in WellFormed, LosesNoPort(c), NEW cat \in Catalogs,
           NEW moved \in MovePoints(cat, c),
           NEW i \in DOMAIN c.adapter.ports, LosesMove(cat, c, moved, i)
    PROVE  i = Len(c.adapter.ports)
<1>1. c.mode # "dev"
  BY DEF LosesMove, LostWrite, Kept, reuseExisting
<1>2. i \in 1 .. Len(c.adapter.ports) /\ Len(c.adapter.ports) \in Nat
  BY CommandType
<1>3. i > moved
  BY DEF LosesMove, LostWrite
<1>4. moved # Unmoved(c)
  BY <1>2, <1>3 DEF Unmoved
<1>5. moved \in DOMAIN c.adapter.ports /\ AppendMoves
  BY <1>4 DEF MovePoints
<1>6. moved \in Nat /\ moved >= 1
  BY <1>5, CommandType
<1>7. QED
  BY <1>1, <1>2, <1>3, <1>5, <1>6 DEF LosesNoPort

LEMMA OutcomeKeepsUnique ==
    ASSUME NEW c \in WellFormed, LosesNoPort(c),
           NEW cat \in Catalogs, UniquePorts(cat), NEW new, Outcome(c, cat, new)
    PROVE  UniquePorts(new)
<1>1. CASE c.op = "prepare" /\ PrepareOutcome(c, cat, new)
  BY <1>1, LostIsLast, PrepareKeepsUnique DEF PrepareOutcome
<1>2. CASE c.op = "reassign" /\ ReassignOutcome(c, cat, new)
  BY <1>2, ReassignKeepsUnique DEF ReassignOutcome
<1>3. CASE c.op = "cleanup" /\ CleanupOutcome(c, cat, new)
  BY <1>3, DropKeepsUnique DEF CleanupOutcome
<1>4. QED
  BY <1>1, <1>2, <1>3 DEF Outcome

-----------------------------------------------------------------------------
(* One port, one checkout *)

\* No port is in rows of two checkouts.  Unlike UniquePorts, this does not
\* depend on where append leaves the rows.
ApartPorts(cat) ==
    \A k1, k2 \in Keys :
        cat[k1].port = cat[k2].port /\ k1[1] # k2[1] => cat[k1].port = NoPort

\* No resolution takes the port of a row of another checkout.
LEMMA ForeignApart ==
    ASSUME NEW c \in WellFormed, NEW cat \in Catalogs, ApartPorts(cat),
           NEW asg \in Resolutions(cat, c),
           NEW i \in DOMAIN c.adapter.ports,
           NEW k \in Keys, k[1] # c.at
    PROVE  asg[i] # cat[k].port
<1> DEFINE pruned == pruneUndeclared(cat, c)
<1>1. asg[i] \in Ports /\ ResolvedAt(pruned, c, asg, i)
  BY DEF Resolutions, IsResolution
<1>2. CASE cat[k].port = NoPort
  BY <1>1, <1>2, PortsAssumption
<1>3. ASSUME cat[k].port # NoPort, NEW m \in DOMAIN c.adapter.ports
      PROVE  RowOf(pruned, c, m).port # cat[k].port
  <2>1. /\ <<c.at, c.adapter.ports[m].name>> \in Keys
        /\ <<c.at, c.adapter.ports[m].name>>[1] # k[1]
    BY KeysDiffer
  <2>2. QED
    BY <1>3, <2>1, PruneKeepsDeclared DEF RowOf, ApartPorts
<1>4. CASE cat[k].port # NoPort /\ Kept(pruned, c, i)
  BY <1>1, <1>3, <1>4 DEF ResolvedAt
<1>5. CASE cat[k].port # NoPort /\ ~Kept(pruned, c, i)
  <2>1. pruned[k] = cat[k]
    BY DEF pruneUndeclared
  <2>2. cat[k].port \in HeldAt(pruned, c, i)
    BY <1>3, <1>5, <2>1 DEF HeldAt
  <2>3. asg[i] \notin Taken(pruned, c, asg, i)
    BY <1>1, <1>5 DEF ResolvedAt
  <2>4. QED
    BY <2>2, <2>3 DEF Taken
<1>6. QED
  BY <1>2, <1>4, <1>5

LEMMA PrepareKeepsApart ==
    ASSUME NEW c \in WellFormed, NEW cat \in Catalogs, ApartPorts(cat),
           NEW asg \in Resolutions(cat, c), NEW moved
    PROVE  ApartPorts(prepareRows(cat, c, asg, moved))
<1> DEFINE new == prepareRows(cat, c, asg, moved)
<1>1. \A k \in Keys : k[1] # c.at => new[k] = cat[k]
  BY DEF prepareRows, WriteRows, pruneUndeclared
<1>2. ASSUME NEW k \in Keys, NEW other \in Keys, k[1] = c.at, other[1] # c.at,
             new[k].port # NoPort
      PROVE  new[k].port # cat[other].port
  <2>1. Declares(c.adapter, k[2])
    BY <1>2 DEF prepareRows, WriteRows, pruneUndeclared, NoRow
  <2>2. PICK i \in DOMAIN c.adapter.ports : k = <<c.at, c.adapter.ports[i].name>>
    BY <1>2, <2>1 DEF Declares, Keys
  <2>3. new[k] = RowOf(new, c, i) /\ cat[k] = RowOf(cat, c, i)
    BY <2>2 DEF RowOf
  <2>4. new[k].port = cat[k].port \/ new[k].port = asg[i]
    BY <2>3, PublishedPort
  <2>5. CASE new[k].port = cat[k].port
    BY <1>2, <2>5 DEF ApartPorts
  <2>6. CASE new[k].port = asg[i]
    BY <1>2, <2>6, ForeignApart
  <2>7. QED
    BY <2>4, <2>5, <2>6
<1> HIDE DEF new
<1>3. ASSUME NEW k1 \in Keys, NEW k2 \in Keys, k1[1] # k2[1],
             new[k1].port = new[k2].port
      PROVE  new[k1].port = NoPort
  <2>1. CASE k1[1] = c.at
    BY <1>1, <1>2, <1>3, <2>1
  <2>2. CASE k2[1] = c.at
    BY <1>1, <1>2, <1>3, <2>2
  <2>3. CASE k1[1] # c.at /\ k2[1] # c.at
    BY <1>1, <1>3, <2>3 DEF ApartPorts
  <2>4. QED
    BY <2>1, <2>2, <2>3
<1>4. QED
  BY <1>3 DEF ApartPorts, new

LEMMA ReassignKeepsApart ==
    ASSUME NEW c \in WellFormed, c.op = "reassign", NEW cat \in Catalogs,
           ApartPorts(cat), NEW port \in ReassignPorts(cat, c)
    PROVE  ApartPorts(reassignRow(cat, c, port))
<1> DEFINE key == <<c.at, c.service>>
           new == reassignRow(cat, c, port)
<1>1. key \in Keys
  BY CommandType DEF Keys
<1>2. \A k \in Keys \ {key} : cat[k].port # port
  BY DEF ReassignPorts
<1>3. /\ new[key].port = port
      /\ \A k \in Keys \ {key} : new[k] = cat[k]
  BY <1>1 DEF reassignRow, Catalogs
<1>4. QED
  BY <1>1, <1>2, <1>3 DEF ApartPorts

LEMMA OutcomeKeepsApart ==
    ASSUME NEW c \in WellFormed, NEW cat \in Catalogs, ApartPorts(cat),
           NEW new, Outcome(c, cat, new)
    PROVE  ApartPorts(new)
<1>1. CASE c.op = "prepare" /\ PrepareOutcome(c, cat, new)
  BY <1>1, PrepareKeepsApart DEF PrepareOutcome
<1>2. CASE c.op = "reassign" /\ ReassignOutcome(c, cat, new)
  BY <1>2, ReassignKeepsApart DEF ReassignOutcome
<1>3. CASE c.op = "cleanup" /\ CleanupOutcome(c, cat, new)
  BY <1>3 DEF CleanupOutcome, dropCheckout, ApartPorts, NoRow
<1>4. QED
  BY <1>1, <1>2, <1>3 DEF Outcome

-----------------------------------------------------------------------------
(* What a command keeps *)

\* A command changes rows of its own checkout only.
LEMMA OutcomeIsScoped ==
    ASSUME NEW c \in WellFormed, NEW cat \in Catalogs, NEW new,
           Outcome(c, cat, new), NEW k \in Keys, new[k] # cat[k]
    PROVE  k[1] = c.at
<1>1. CASE PrepareOutcome(c, cat, new)
  BY <1>1 DEF PrepareOutcome, prepareRows, WriteRows, pruneUndeclared
<1>2. CASE ReassignOutcome(c, cat, new)
  BY <1>2, CommandType DEF ReassignOutcome, reassignRow, Catalogs, Keys
<1>3. CASE CleanupOutcome(c, cat, new)
  BY <1>3 DEF CleanupOutcome, dropCheckout
<1>4. QED
  BY <1>1, <1>2, <1>3 DEF Outcome

\* A dev prepare keeps the port of every declared service that has a row.
LEMMA DevKeepsPorts ==
    ASSUME NEW c \in WellFormed, c.op = "prepare", c.mode = "dev",
           NEW cat \in Catalogs, NEW new, Outcome(c, cat, new),
           NEW s \in Services, Declares(c.adapter, s), cat[<<c.at, s>>] # NoRow
    PROVE  new[<<c.at, s>>].port = cat[<<c.at, s>>].port
<1> DEFINE k      == <<c.at, s>>
           i      == IndexOf(c.adapter, s)
           pruned == pruneUndeclared(cat, c)
<1>1. PICK asg \in Resolutions(cat, c), moved \in MovePoints(cat, c) :
         new = prepareRows(cat, c, asg, moved)
  BY DEF Outcome, PrepareOutcome
<1>2. k \in Keys /\ k[1] = c.at /\ k[2] = s
  BY CommandType DEF Keys
<1>3. i \in DOMAIN c.adapter.ports /\ c.adapter.ports[i].name = s
  BY CommandType, DeclarationOf
<1>4. pruned[k] = cat[k]
  BY <1>2 DEF pruneUndeclared
<1>5. Kept(pruned, c, i)
  BY <1>3, <1>4 DEF Kept, RowOf, reuseExisting
<1>6. asg[i] = cat[k].port
  BY <1>3, <1>4, <1>5 DEF Resolutions, IsResolution, ResolvedAt, RowOf
<1>7. new[k].port = cat[k].port
  BY <1>1, <1>2, <1>4, <1>6 DEF prepareRows, WriteRows
<1>8. QED
  BY <1>7

\* A reassign moves the one row it names, off its port in a dev lane.
LEMMA ReassignEffect ==
    ASSUME NEW c \in WellFormed, c.op = "reassign", NEW cat \in Catalogs,
           NEW new, Outcome(c, cat, new)
    PROVE  /\ cat[<<c.at, c.service>>] # NoRow
           /\ c.mode = "dev" =>
                  new[<<c.at, c.service>>].port #
                      cat[<<c.at, c.service>>].port
           /\ \A k \in Keys \ {<<c.at, c.service>>} : new[k] = cat[k]
<1> DEFINE key == <<c.at, c.service>>
<1>1. PICK port \in ReassignPorts(cat, c) : new = reassignRow(cat, c, port)
  BY DEF Outcome, ReassignOutcome
<1>2. cat[key] # NoRow
  BY DEF Outcome, ReassignOutcome
<1>3. key \in Keys
  BY CommandType DEF Keys
<1>4. /\ new[key].port = port
      /\ \A k \in Keys \ {key} : new[k] = cat[k]
  BY <1>1, <1>3 DEF reassignRow, Catalogs
<1>5. c.mode = "dev" => port # cat[key].port
  BY <1>1 DEF ReassignPorts
<1>6. QED
  BY <1>2, <1>4, <1>5

\* A stable prepare gives every declared service its fixture, or leaves a row
\* just as it was, after a service that had none.
LEMMA StableGetsFixture ==
    ASSUME NEW c \in WellFormed, c.op = "prepare",
           c.mode = "stable", NEW cat \in Catalogs,
           NEW new, Outcome(c, cat, new), NEW i \in DOMAIN c.adapter.ports
    PROVE  \/ RowOf(new, c, i) =
                  [port |-> stablePort(c.adapter.ports[i]), mode |-> "stable"]
           \/ /\ RowOf(cat, c, i) # NoRow
              /\ RowOf(new, c, i) = RowOf(cat, c, i)
              /\ \E j \in 1 .. (i - 1) : RowOf(cat, c, j) = NoRow
<1> DEFINE pruned == pruneUndeclared(cat, c)
<1>1. PICK asg \in Resolutions(cat, c), moved \in MovePoints(cat, c) :
         new = prepareRows(cat, c, asg, moved)
  BY DEF Outcome, PrepareOutcome
<1>2. CASE LostWrite(cat, c, moved, i)
  <2>1. i \in 1 .. Len(c.adapter.ports) /\ Len(c.adapter.ports) \in Nat
    BY CommandType
  <2>2. i > moved /\ RowOf(cat, c, i) # NoRow
    BY <1>2 DEF LostWrite
  <2>3. moved # Unmoved(c)
    BY <2>1, <2>2 DEF Unmoved
  <2>4. moved \in DOMAIN c.adapter.ports /\ RowOf(cat, c, moved) = NoRow
    BY <2>3 DEF MovePoints
  <2>5. moved \in 1 .. (i - 1)
    BY <2>1, <2>2, <2>4, CommandType
  <2>6. RowOf(new, c, i) = RowOf(cat, c, i)
    BY <1>1, <1>2, PublishedRow
  <2>7. QED
    BY <2>2, <2>4, <2>5, <2>6
<1>3. CASE ~LostWrite(cat, c, moved, i)
  <2>1. RowOf(new, c, i) = [port |-> asg[i], mode |-> "stable"]
    BY <1>1, <1>3, PublishedRow
  <2>2. asg[i] = stablePort(c.adapter.ports[i])
    <3>1. CASE Kept(pruned, c, i)
      BY <3>1 DEF Resolutions, IsResolution, ResolvedAt, Kept, reuseExisting
    <3>2. CASE ~Kept(pruned, c, i)
      BY <3>2 DEF Resolutions, IsResolution, ResolvedAt, ChoosablePorts
    <3>3. QED
      BY <3>1, <3>2
  <2>3. QED
    BY <2>1, <2>2
<1>4. QED
  BY <1>2, <1>3
=============================================================================
