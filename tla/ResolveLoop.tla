----------------------------- MODULE ResolveLoop -----------------------------
(***************************************************************************)
(* The loop of `resolve` (portalloc.go), one iteration per step, with the  *)
(* Go slice it works on.  indexAllocations takes the address of every row  *)
(* of the checkout; a new service appends a row; when the slice is full,   *)
(* append copies the rows to a new array and the addresses keep pointing   *)
(* into the old one.  What is written through them afterwards reaches      *)
(* `array` and no longer `slice`, which is what is published.              *)
(*                                                                         *)
(* Here the set of ports the operating system refuses is fixed for one     *)
(* execution, so that the order of the candidates can be checked.          *)
(***************************************************************************)
EXTENDS PortAllocation, FiniteSets

CONSTANTS
    Commands,       \* the prepare commands resolved
    StartCatalogs,  \* the catalogs they are resolved against
    KeyOrder,       \* every key once, in the order sortCatalog gives rows
    BoundSets       \* which ports may be bound by somebody

ASSUME KeyOrderAssumption ==
    /\ KeyOrder \in Seq(Keys)
    /\ \A k \in Keys : \E i \in DOMAIN KeyOrder : KeyOrder[i] = k
    /\ \A i, j \in DOMAIN KeyOrder : KeyOrder[i] = KeyOrder[j] => i = j

ASSUME LoopAssumption ==
    /\ StartCatalogs \subseteq Catalogs
    /\ Commands \subseteq CommandRecords
    /\ \A c \in Commands : c.op = "prepare"
    /\ \A ports \in BoundSets : ports \subseteq Ports

VARIABLES
    start,      \* the catalog as loaded
    cmd,        \* the command
    commit,     \* prepare (TRUE) or inspect (FALSE)
    bound,      \* ports whose probe fails
    array,      \* the array the addresses of byService point into
    slice,      \* cat.Allocations
    aliased,    \* does slice still live in array?
    capacity,   \* cap(cat.Allocations)
    next,       \* the declaration the loop is at
    held,       \* ports held by rows
    claimed,    \* ports claimed by earlier declarations
    asg,        \* the port of every declaration resolved so far
    status      \* "prune", "loop", "done" or "failed"

loopVars == <<start, cmd, commit, bound, array, slice, aliased, capacity,
              next, held, claimed, asg, status>>

Rows == [key : Keys, port : Ports, mode : Modes]

Row(k, port, mode) == [key |-> k, port |-> port, mode |-> mode]

\* The elements at the positions in T, in their order.
Selected(seq, T) ==
    [n \in 1 .. Cardinality(T) |->
        seq[CHOOSE i \in T : Cardinality({j \in T : j <= i}) = n]]

\* loadCatalog: the rows in sorted order.
RowsOf(cat) ==
    LET present == Selected(KeyOrder, {i \in DOMAIN KeyOrder :
                                          cat[KeyOrder[i]] # NoRow})
    IN [i \in DOMAIN present |->
           Row(present[i], cat[present[i]].port, cat[present[i]].mode)]

\* The capacity json.Unmarshal leaves a slice of n rows: it doubles as needed.
LoadedCapacity(n) ==
    LET capacities == {0} \cup {2 ^ i : i \in 0 .. n}
    IN CHOOSE cap \in capacities :
           /\ cap >= n
           /\ \A other \in capacities : other >= n => cap <= other

GrownCapacity(cap) == IF cap = 0 THEN 1 ELSE 2 * cap

LoopInit ==
    /\ start   \in StartCatalogs
    /\ cmd     \in Commands
    /\ commit  \in BOOLEAN
    /\ bound   \in BoundSets
    /\ slice    = RowsOf(start)
    /\ array    = slice
    /\ aliased  = TRUE
    /\ capacity = LoadedCapacity(Len(slice))
    /\ next     = 1
    /\ held     = {}
    /\ claimed  = {}
    /\ asg      = <<>>
    /\ status   = "prune"

-----------------------------------------------------------------------------

Declaration == cmd.adapter.ports[next]

KeyOf(service) == <<cmd.at, service>>

\* The index of the row byService points at, 0 for nil.
existing ==
    LET hits == {i \in DOMAIN array : array[i].key = KeyOf(Declaration.name)}
    IN IF hits = {} THEN 0 ELSE CHOOSE i \in hits : TRUE

\* `delete(held, existing.Port)` frees the port of a row that must move.
HeldWhenChoosing ==
    IF existing = 0 THEN held ELSE held \ {array[existing].port}

\* Seeded fault: the rows of other services are not looked at.
availableToThis(port) ==
    port \notin reservedPorts(cmd.adapter) \cup claimed

available(port) ==
    port \notin reservedPorts(cmd.adapter) \cup HeldWhenChoosing \cup claimed

\* Seeded fault: the hinted pool is tried before the default.
devCandidatesHintFirst(cfg) ==
    LET range(low, high) == [i \in 1 .. (high + 1 - low) |-> low + i - 1]
        hint == IF poolHintWithinRange(cfg.hint)
                THEN range(cfg.hint[1], cfg.hint[2]) ELSE <<>>
    IN hint \o <<cfg.default>> \o range(RangeStart, RangeEnd)

\* The candidates of a dev lane in the order they are tried.
devCandidates(cfg) ==
    LET range(low, high) == [i \in 1 .. (high + 1 - low) |-> low + i - 1]
        hint == IF poolHintWithinRange(cfg.hint)
                THEN range(cfg.hint[1], cfg.hint[2]) ELSE <<>>
    IN <<cfg.default>> \o hint \o range(RangeStart, RangeEnd)

candidates(cfg, mode) ==
    IF mode = "stable" THEN <<stablePort(cfg)>> ELSE devCandidates(cfg)

\* The first candidate that is available and whose probe succeeds; 0 is no
\* candidate of a dev lane (appendCandidate).
Chosen(port) ==
    LET tried     == candidates(Declaration, cmd.mode)
        usable(i) == /\ cmd.mode = "dev" => tried[i] > 0
                     /\ available(tried[i])
                     /\ tried[i] \notin bound
    IN \E i \in DOMAIN tried :
           tried[i] = port /\ usable(i) /\ \A j \in 1 .. (i - 1) : ~usable(j)

\* Write a row through the address taken from array.
WriteThrough(i, port) ==
    LET row == Row(array[i].key, port, cmd.mode)
    IN /\ array' = [array EXCEPT ![i] = row]
       /\ slice' = IF aliased THEN [slice EXCEPT ![i] = row] ELSE slice
       /\ UNCHANGED <<aliased, capacity>>

AppendRow(row) ==
    /\ slice' = Append(slice, row)
    /\ aliased' = (aliased /\ Len(slice) < capacity)
    /\ capacity' = IF Len(slice) < capacity
                   THEN capacity ELSE GrownCapacity(capacity)
    /\ UNCHANGED array

\* Seeded fault: rows of services the adapter dropped stay.
PruneNothing ==
    /\ status = "prune"
    /\ held'  = {slice[i].port : i \in DOMAIN slice}
    /\ status' = IF cmd.adapter.ports = <<>> THEN "done" ELSE "loop"
    /\ UNCHANGED <<start, cmd, commit, bound, array, slice, aliased, capacity,
                   next, claimed, asg>>

\* pruneUndeclaredAllocations and indexAllocations; a command whose adapter
\* declares no port is done.
Prune ==
    /\ status = "prune"
    /\ LET kept(row) == row.key[1] = cmd.at => Declares(cmd.adapter, row.key[2])
       IN slice' = Selected(slice, {i \in DOMAIN slice : kept(slice[i])})
    /\ array' = slice'
    /\ held'  = {slice'[i].port : i \in DOMAIN slice'}
    /\ status' = IF cmd.adapter.ports = <<>> THEN "done" ELSE "loop"
    /\ UNCHANGED <<start, cmd, commit, bound, aliased, capacity, next,
                   claimed, asg>>

\* Seeded fault: the port of an earlier declaration is not remembered.
ClaimForgotten(port) ==
    /\ asg'     = Append(asg, port)
    /\ next'    = next + 1
    /\ status'  = IF next = Len(cmd.adapter.ports) THEN "done" ELSE "loop"
    /\ UNCHANGED <<start, cmd, commit, bound, claimed>>

Claim(port) ==
    /\ claimed' = claimed \cup {port}
    /\ asg'     = Append(asg, port)
    /\ next'    = next + 1
    /\ status'  = IF next = Len(cmd.adapter.ports) THEN "done" ELSE "loop"
    /\ UNCHANGED <<start, cmd, commit, bound>>

Reusable ==
    /\ existing # 0
    /\ reuseExisting([port |-> array[existing].port,
                      mode |-> array[existing].mode], Declaration, cmd.mode)

\* reusedAllocationState: keep the port, refresh the metadata.
Reuse ==
    /\ status = "loop"
    /\ Reusable
    /\ IF commit THEN WriteThrough(existing, array[existing].port)
       ELSE UNCHANGED <<array, slice, aliased, capacity>>
    /\ Claim(array[existing].port)
    /\ UNCHANGED held

\* resolveNewAllocationState and publishResolvedAllocation.
Allocate ==
    /\ status = "loop"
    /\ ~Reusable
    /\ held' = HeldWhenChoosing
    /\ \E port \in Ports :
        /\ Chosen(port)
        /\ Claim(port)
        /\ IF ~commit THEN UNCHANGED <<array, slice, aliased, capacity>>
           ELSE IF existing = 0
           THEN AppendRow(Row(KeyOf(Declaration.name), port, cmd.mode))
           ELSE WriteThrough(existing, port)

Fail ==
    /\ status = "loop"
    /\ ~Reusable
    /\ \A port \in Ports : ~Chosen(port)
    /\ status' = "failed"
    /\ UNCHANGED <<start, cmd, commit, bound, array, slice, aliased, capacity,
                   next, held, claimed, asg>>

LoopNext == Prune \/ Reuse \/ Allocate \/ Fail

LoopSpec == LoopInit /\ [][LoopNext]_loopVars

-----------------------------------------------------------------------------

LoopTypeOK ==
    /\ start \in StartCatalogs /\ cmd \in Commands
    /\ commit \in BOOLEAN /\ aliased \in BOOLEAN
    /\ bound \subseteq Ports
    /\ array \in Seq(Rows) /\ slice \in Seq(Rows)
    /\ next \in 1 .. (Len(cmd.adapter.ports) + 1)
    /\ held \subseteq Ports /\ claimed \subseteq Ports
    /\ asg \in Seq(Ports) /\ Len(asg) = next - 1
    /\ status \in {"prune", "loop", "done", "failed"}

\* The catalog that a slice of rows stands for.
Contents(rows) ==
    [k \in Keys |->
        IF \E i \in DOMAIN rows : rows[i].key = k
        THEN LET i == CHOOSE n \in DOMAIN rows : rows[n].key = k
             IN [port |-> rows[i].port, mode |-> rows[i].mode]
        ELSE NoRow]

\* The loop computes what PortAllocation says a prepare computes: the ports
\* are a resolution, the rows are those prepareRows leaves for some place at
\* which the array moved, one for each service though `append` and byService
\* disagree about where they are; inspect computes the same ports and writes
\* no row; and the loop fails only where PortAllocation lets a prepare fail,
\* when a service of this lane needs another port.
LoopComputesOutcome ==
    /\ \A i, j \in DOMAIN slice : slice[i].key = slice[j].key => i = j
    /\ status = "failed" => MustChoose(start, cmd)
    /\ status = "done" =>
          /\ asg \in Resolutions(start, cmd)
          /\ IF commit
             THEN \E moved \in MovePoints(start, cmd) :
                      Contents(slice) = prepareRows(start, cmd, asg, moved)
             ELSE Contents(slice) = pruneUndeclared(start, cmd)

\* A service that needs a new port gets the first candidate, in the
\* documented order default, pool_hint, port_range, that nobody holds and
\* that can be bound.
EarlierCandidate(cfg, p, q) ==
    LET hinted(x) == poolHintWithinRange(cfg.hint)
                         /\ x \in cfg.hint[1] .. cfg.hint[2]
    IN IF p = cfg.default \/ q = cfg.default THEN p = cfg.default /\ p # q
       ELSE IF hinted(p) # hinted(q) THEN hinted(p)
       ELSE p < q

FirstFit ==
    status = "done" /\ cmd.mode = "dev" =>
        \A i \in DOMAIN asg :
            LET cat == pruneUndeclared(start, cmd)
                cfg == cmd.adapter.ports[i]
            IN ~Kept(cat, cmd, i) =>
                /\ asg[i] \notin bound
                /\ \A p \in CandidatePorts(cfg) :
                      EarlierCandidate(cfg, p, asg[i])
                          => p \in bound \cup Taken(cat, cmd, asg, i)

\* A single manifest never gives one port to two services.
ManifestPortsDiffer ==
    \A i, j \in DOMAIN asg : asg[i] = asg[j] => i = j

\* While the addresses reach the published rows, and for dev lanes always, no
\* two rows end up with one port.
UniqueWhileAliased ==
    status = "done" /\ UniquePorts(start) /\ (aliased \/ cmd.mode = "dev")
        => UniquePorts(Contents(slice))

\* What docs/65-host-catalog.md promises of every prepare: the existing row
\* is updated in place, so no other row can have its port.
RowsKeepPortsApart ==
    status = "done" /\ UniquePorts(start) => UniquePorts(Contents(slice))

\* The catalog schema: every row has a port of at least 1.
PortsArePositive ==
    status = "done" => \A i \in DOMAIN slice : slice[i].port >= 1
=============================================================================
