--------------------------- MODULE PortAllocation ---------------------------
(***************************************************************************)
(* The arithmetic of the host catalog (src/internal/portalloc): what a     *)
(* catalog is, which ports a command may give to which service, and what   *)
(* the catalog looks like when the command is done.  No state and no       *)
(* actions: HostCatalog.tla runs these operators under the catalog lock,   *)
(* AtomicCatalog.tla runs them as one step, and ResolveLoop.tla shows that *)
(* the loop of `resolve`, slice and pointers included, computes them.      *)
(*                                                                         *)
(* A catalog is a function from the durable key of a row, a checkout (the  *)
(* pair app, repoPath) and a service, to the row, or to NoRow.  A row      *)
(* keeps the port and, of the metadata, the mode.                          *)
(*                                                                         *)
(* Probes: the operating system may refuse any port at any time, so the    *)
(* order in which a dev lane tries its candidates does not bound what it   *)
(* may end up with; only ResolveLoop.tla, which fixes the bound ports,     *)
(* keeps that order.                                                       *)
(***************************************************************************)
EXTENDS Naturals, Sequences

CONSTANTS
    Checkouts,      \* checkouts, each one a pair (app, repoPath)
    Services,       \* service names
    Ports,          \* port numbers an adapter may name
    NoPort,         \* "no port": an undeclared stable_port, an absent row
    RangeStart,     \* port_range.start of the host config
    RangeEnd,       \* port_range.end of the host config
    HostReserved,   \* reserved ports of the host config
    AppendMoves     \* may `append` move the rows to a new array?

ASSUME PortsAssumption ==
    /\ Ports \subseteq Nat
    /\ NoPort \notin Ports
    /\ HostReserved \subseteq Ports

\* loadHostConfig accepts no other range.
ASSUME RangeAssumption ==
    /\ RangeStart \in Nat \ {0} /\ RangeEnd \in Nat \ {0}
    /\ RangeStart <= RangeEnd

ASSUME AppendMovesAssumption == AppendMoves \in BOOLEAN

Modes == {"dev", "stable"}

Keys == Checkouts \X Services

\* A pool hint is absent or one [low, high] pair.
Hints == {<<>>} \cup (Ports \X Ports)

PortConfigs == [name    : Services,
                default : Ports,
                stable  : Ports \cup {NoPort},
                hint    : Hints]

\* What validatePorts lets through: service names do not repeat.
AdapterConfigs ==
    {a \in [ports : Seq(PortConfigs), reserved : SUBSET Ports] :
        \A i, j \in DOMAIN a.ports :
            a.ports[i].name = a.ports[j].name => i = j}

Allocations == [port : Ports, mode : Modes]

NoRow == [port |-> NoPort, mode |-> "none"]

Catalogs == [Keys -> Allocations \cup {NoRow}]

EmptyCatalog == [k \in Keys |-> NoRow]

\* One devlane invocation that may write the catalog.  The adapter is the
\* file the command read when it started, the mode the lane it derived.
CommandRecords ==
    [op      : {"prepare", "reassign", "cleanup"},
     at      : Checkouts,
     mode    : Modes,
     adapter : AdapterConfigs,
     service : Services]

-----------------------------------------------------------------------------
(* Candidates *)

stablePort(cfg) == IF cfg.stable # NoPort THEN cfg.stable ELSE cfg.default

poolHintWithinRange(hint) ==
    /\ Len(hint) = 2
    /\ hint[1] >= RangeStart
    /\ hint[2] <= RangeEnd

\* The ports a dev lane tries: the default, the hinted pool, the host range.
CandidatePorts(cfg) ==
    {p \in Ports :
        /\ p > 0
        /\ \/ p = cfg.default
           \/ /\ poolHintWithinRange(cfg.hint)
              /\ p \in cfg.hint[1] .. cfg.hint[2]
           \/ p \in RangeStart .. RangeEnd}

\* Any of them may be the first one that is free and bindable; a stable lane
\* has its fixture and nothing else.
ChoosablePorts(cfg, mode) ==
    IF mode = "stable" THEN {stablePort(cfg)} ELSE CandidatePorts(cfg)

reservedPorts(adapter) == HostReserved \cup adapter.reserved

-----------------------------------------------------------------------------
(* Resolution of every port an adapter declares *)

Declares(adapter, service) ==
    \E i \in DOMAIN adapter.ports : adapter.ports[i].name = service

IndexOf(adapter, service) ==
    CHOOSE i \in DOMAIN adapter.ports : adapter.ports[i].name = service

hasAllocation(cat, at) == \E s \in Services : cat[<<at, s>>] # NoRow

\* Seeded fault: forgets to compare the checkout of the row.
pruneEveryCheckout(cat, c) ==
    [k \in Keys |-> IF ~Declares(c.adapter, k[2]) THEN NoRow ELSE cat[k]]

pruneUndeclared(cat, c) ==
    [k \in Keys |-> IF k[1] = c.at /\ ~Declares(c.adapter, k[2])
                    THEN NoRow ELSE cat[k]]

RowOf(cat, c, i) == cat[<<c.at, c.adapter.ports[i].name>>]

\* Seeded faults: the rule for fixtures applied to every lane, and to none.
reuseFixtureOnly(row, cfg, mode) == row # NoRow /\ row.port = stablePort(cfg)
reuseAnyRow(row, cfg, mode)      == row # NoRow

\* Dev lanes keep whatever they have; stable lanes keep the fixture only.
reuseExisting(row, cfg, mode) ==
    /\ row # NoRow
    /\ mode = "dev" \/ row.port = stablePort(cfg)

Kept(cat, c, i) == reuseExisting(RowOf(cat, c, i), c.adapter.ports[i], c.mode)

\* Some service needs a new port, so the command may fail to find one.
MustChoose(cat, c) == \E i \in DOMAIN c.adapter.ports : ~Kept(cat, c, i)

\* Seeded fault: only the rows of the checkout are indexed.
HeldInCheckout(cat, c, i) == {cat[<<c.at, s>>].port : s \in Services}

\* `held` when the i-th port is chosen: the ports of the catalog, without
\* those of the rows the loop has displaced so far.
HeldAt(cat, c, i) ==
    {cat[k].port : k \in Keys}
        \ {RowOf(cat, c, j).port :
              j \in {n \in DOMAIN c.adapter.ports : n <= i /\ ~Kept(cat, c, n)}}

\* `claimed` when the i-th port is chosen.
ClaimedAt(asg, i) == {asg[j] : j \in {n \in DOMAIN asg : n < i}}

Taken(cat, c, asg, i) ==
    reservedPorts(c.adapter) \cup HeldAt(cat, c, i) \cup ClaimedAt(asg, i)

\* The port of the i-th declaration, given those of the earlier ones.
ResolvedAt(cat, c, asg, i) ==
    IF Kept(cat, c, i)
    THEN asg[i] = RowOf(cat, c, i).port
    ELSE asg[i] \in ChoosablePorts(c.adapter.ports[i], c.mode)
                        \ Taken(cat, c, asg, i)

IsResolution(cat, c, asg) ==
    \A i \in DOMAIN c.adapter.ports : ResolvedAt(cat, c, asg, i)

\* Every assignment, in declaration order, that `resolve` may compute.
Resolutions(cat, c) ==
    {asg \in [DOMAIN c.adapter.ports -> Ports] :
        IsResolution(pruneUndeclared(cat, c), c, asg)}

\* What applyPortStates puts into the manifest.
PortStates(c, asg) ==
    [s \in Services |->
        IF Declares(c.adapter, s)
        THEN asg[IndexOf(c.adapter, s)]
        ELSE NoPort]

-----------------------------------------------------------------------------
(* The catalog a command leaves behind *)

\* `append` of the row of a new service may move the rows; the pointers that
\* indexAllocations took stay with the old array, and what later iterations
\* write through them is lost.  The model does not count the rows of other
\* apps, so every new service is a place where it may happen.
Unmoved(c) == Len(c.adapter.ports) + 1

MovePoints(cat, c) ==
    {Unmoved(c)} \cup
    (IF AppendMoves
     THEN {i \in DOMAIN c.adapter.ports : RowOf(cat, c, i) = NoRow}
     ELSE {})

LostWrite(cat, c, moved, i) == RowOf(cat, c, i) # NoRow /\ i > moved

WriteRows(cat, c, asg, moved) ==
    [k \in Keys |->
        IF k[1] = c.at /\ Declares(c.adapter, k[2])
        THEN LET i == IndexOf(c.adapter, k[2])
             IN IF LostWrite(cat, c, moved, i)
                THEN cat[k]
                ELSE [port |-> asg[i], mode |-> c.mode]
        ELSE cat[k]]

prepareRows(cat, c, asg, moved) ==
    WriteRows(pruneUndeclared(cat, c), c, asg, moved)

\* What a stable lane should have moved to its fixture is where it was: the
\* write was lost.
KeepsDisplaced(c, cat, new) ==
    \E i \in DOMAIN c.adapter.ports :
        /\ RowOf(cat, c, i) # NoRow
        /\ ~Kept(cat, c, i)
        /\ RowOf(new, c, i) = RowOf(cat, c, i)

\* Seeded fault: a dev row may be given the port it already has.
ReassignPortsOrStay(cat, c) ==
    LET key    == <<c.at, c.service>>
        cfg    == c.adapter.ports[IndexOf(c.adapter, c.service)]
        others == {cat[k].port : k \in Keys \ {key}}
    IN ChoosablePorts(cfg, c.mode) \ (reservedPorts(c.adapter) \cup others)

\* Seeded fault: the ports of other rows are not looked at.
ReassignPortsAlone(cat, c) ==
    ChoosablePorts(c.adapter.ports[IndexOf(c.adapter, c.service)], c.mode)
        \ (reservedPorts(c.adapter) \cup {cat[<<c.at, c.service>>].port})

\* The ports reassign may move a row to.  A dev row must leave its port; a
\* stable one may come back to its fixture.
ReassignPorts(cat, c) ==
    LET key    == <<c.at, c.service>>
        cfg    == c.adapter.ports[IndexOf(c.adapter, c.service)]
        others == {cat[k].port : k \in Keys \ {key}}
        own    == IF c.mode = "stable" THEN {} ELSE {cat[key].port}
    IN ChoosablePorts(cfg, c.mode)
           \ (reservedPorts(c.adapter) \cup others \cup own)

reassignRow(cat, c, port) ==
    [cat EXCEPT ![<<c.at, c.service>>] = [port |-> port, mode |-> c.mode]]

dropCheckout(cat, c) ==
    [k \in Keys |-> IF k[1] = c.at THEN NoRow ELSE cat[k]]

-----------------------------------------------------------------------------
(* Each command as one relation between the catalog before and after *)

PrepareOutcome(c, cat, new) ==
    \E asg \in Resolutions(cat, c), moved \in MovePoints(cat, c) :
        new = prepareRows(cat, c, asg, moved)

ReassignOutcome(c, cat, new) ==
    /\ cat[<<c.at, c.service>>] # NoRow
    /\ \E port \in ReassignPorts(cat, c) : new = reassignRow(cat, c, port)

CleanupOutcome(c, cat, new) == new = dropCheckout(cat, c)

Outcome(c, cat, new) ==
    \/ c.op = "prepare"  /\ PrepareOutcome(c, cat, new)
    \/ c.op = "reassign" /\ ReassignOutcome(c, cat, new)
    \/ c.op = "cleanup"  /\ CleanupOutcome(c, cat, new)

\* One port, one row.
UniquePorts(cat) ==
    \A k1, k2 \in Keys :
        cat[k1].port = cat[k2].port /\ k1 # k2 => cat[k1].port = NoPort
=============================================================================
