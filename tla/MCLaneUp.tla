------------------------------ MODULE MCLaneUp ------------------------------
(***************************************************************************)
(* LaneUp on two checkouts of one app, of which only the first has         *)
(* something to start.                                                     *)
(***************************************************************************)
EXTENDS LaneUp, TLC

CONSTANTS p1, c1, c2, web, one, feat, main, detached

Config(name, default, stable) ==
    [name |-> name, default |-> default, stable |-> stable, hint |-> <<>>]

MCPorts == 1 .. 2

MCApp == [at \in Checkouts |-> one]

\* Main is the stable branch.
On(branch, stable) ==
    [branch         |-> branch,
     config         |-> [ports |-> <<Config(web, 1, stable)>>, reserved |-> {}],
     stableBranches |-> {main},
     stableName     |-> main]

\* The first checkout is switched between them; the adapters differ.
MCTrees ==
    [at \in Checkouts |-> IF at = c1 THEN {On(feat, 2), On(main, 2)}
                                     ELSE {On(feat, NoPort)}]

MCBaseName == [at \in Checkouts |-> feat]

\* No option; in the first checkout also --mode dev.
MCOptions ==
    [at \in Checkouts |->
        {NoOptions} \cup
        IF at = c1 THEN {[mode |-> "dev", lane |-> NoLane]} ELSE {}]

OneOrder == <<web>>
=============================================================================
