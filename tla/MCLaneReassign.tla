--------------------------- MODULE MCLaneReassign ---------------------------
(***************************************************************************)
(* LaneReassign on two checkouts of one app and one of another.            *)
(***************************************************************************)
EXTENDS LaneReassign, TLC

CONSTANTS p1, p2, c1, c2, d1, api, web, one, two, feat, main, detached

ProcSymmetry == Permutations(Procs)

Config(name, default, stable) ==
    [name |-> name, default |-> default, stable |-> stable, hint |-> <<>>]

MCPorts == 1 .. 3

MCApp == [at \in Checkouts |-> IF at = d1 THEN two ELSE one]

\* Main is the stable branch.
On(branch, ports) ==
    [branch         |-> branch,
     config         |-> [ports |-> ports, reserved |-> {}],
     stableBranches |-> {main},
     stableName     |-> main]

WebOnly == <<Config(web, 1, NoPort)>>

\* A new service before one that a stable lane displaces.
ApiAndWeb == <<Config(api, 1, NoPort), Config(web, 2, 3)>>

WebElsewhere == <<Config(web, 2, 3)>>

\* The adapters of one app differ from branch to branch.
MCTrees ==
    [at \in Checkouts |->
        CASE at = c1 -> {On(feat, WebOnly), On(main, ApiAndWeb)}
          [] at = c2 -> {On(feat, WebElsewhere), On(main, WebElsewhere)}
          [] at = d1 -> {On(feat, WebOnly)}]

MCBaseName == [at \in Checkouts |-> feat]

\* No option; in one checkout also --mode dev.
MCOptions ==
    [at \in Checkouts |->
        {NoOptions} \cup
        IF at = c1 THEN {[mode |-> "dev", lane |-> NoLane]} ELSE {}]

OneOrder == <<api, web>>
=============================================================================
