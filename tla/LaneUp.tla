------------------------------- MODULE LaneUp -------------------------------
(***************************************************************************)
(* `up`, `down` and `port` beside the prepares and reassigns of            *)
(* LaneReassign.                                                           *)
(*                                                                         *)
(* `up` inspects the catalog without the lock, compares the outputs of the *)
(* checkout with what it inspected, and then lets compose read the outputs *)
(* again; a prepare, a reassign or a switch of the branch may come between *)
(* any two of these.  A prepare has the lock from before it writes the     *)
(* outputs until it has published, failed or been killed.                  *)
(*                                                                         *)
(* Compose keeps what it runs under the name of a project, which is that   *)
(* of the app and the lane.  A port that runs cannot be bound, so that     *)
(* nobody chooses it.                                                      *)
(***************************************************************************)
EXTENDS LaneReassign

CONSTANTS
    Composed,   \* checkouts whose adapter names compose files
    BareMetal   \* checkouts whose adapter names run commands

ASSUME RuntimeAssumption ==
    Composed \subseteq Checkouts /\ BareMetal \subseteq Checkouts

VARIABLES
    outputs,    \* per checkout: what its outputs were rendered from
    writer,     \* the prepare between its outputs and its rename
    running,    \* per project: what compose runs
    up          \* the `up` that runs

laneVars == <<outputs, writer, running, up>>
allVars == <<vars, laneVars>>

Projects == {<<App[at], lane>> : at \in Checkouts, lane \in Names}

PortMaps == [Services -> Ports \cup {NoPort}]

NoPorts == [service \in Services |-> NoPort]

Rendered == [lane : Lanes, mode : Modes \cup {"none"}, ports : PortMaps]

NotPrepared == [lane |-> NoLane, mode |-> "none", ports |-> NoPorts]

Runs == [from : Checkouts, ports : PortMaps, quiet : BOOLEAN]

NotRunning == [from |-> AnyCommand.at, ports |-> NoPorts, quiet |-> TRUE]

Writers == [active : BOOLEAN, ports : PortMaps, before : Rendered]

NoWriter == [active |-> FALSE, ports |-> NoPorts, before |-> NotPrepared]

\* quiet: nothing that concerns the checkout has changed since the load.
Ups == [step : {"idle", "loaded", "printed", "verified"},
        at : Checkouts, manifest : Rendered, ready : BOOLEAN, quiet : BOOLEAN]

NoUp == [step |-> "idle", at |-> AnyCommand.at, manifest |-> NotPrepared,
         ready |-> FALSE, quiet |-> TRUE]

LaneTypeOK ==
    /\ TypeOK
    /\ outputs \in [Checkouts -> Rendered]
    /\ writer  \in [Procs -> Writers]
    /\ running \in [Projects -> Runs]
    /\ up      \in Ups

LaneInit ==
    /\ Init
    /\ outputs = [at \in Checkouts |-> NotPrepared]
    /\ writer  = [p \in Procs |-> NoWriter]
    /\ running = [project \in Projects |-> NotRunning]
    /\ up      = NoUp

-----------------------------------------------------------------------------

\* Ports that a container listens on.
Bound == UNION {{running[project].ports[service] : service \in Services} :
                   project \in Projects}

\* Seeded fault: a port is taken without a probe.
ProbedNever(cat, c, asg) == TRUE

\* What is not kept was probed.
Probed(cat, c, asg) ==
    \A i \in DOMAIN c.adapter.ports : Kept(cat, c, i) \/ asg[i] \notin Bound

ProbedResolutions(c) ==
    {asg \in Resolutions(catalog, c) :
        Probed(pruneUndeclared(catalog, c), c, asg)}

\* The rows, the outputs or the branch of the checkout change.
Disturb(at) ==
    up' = [up EXCEPT !.quiet = @ /\ (up.step = "idle" \/ up.at # at)]

Writing(p) == writer[p].active

Locked == \E p \in Procs : Writing(p)

\* A prepare typed at `at`; other commands build the same manifest.
Own(at, options) ==
    Command("prepare", at, ModeAt(at, options), at, ServiceOrder[1])

-----------------------------------------------------------------------------
(* The commands of LaneReassign *)

\* Before a command asks for the lock it changes nothing of this.
Starts(p) ==
    /\ StartPrepare(p) \/ StartReassign(p) \/ StartReassignLane(p)
    /\ UNCHANGED laneVars

\* BeginPrepare and PrepareWithRollback (the steps in between are those of
\* LocalOutputs).
WritesOutputs(p) ==
    /\ pc[p] = "resolved" /\ cmd[p].op = "prepare"
    /\ ~Locked
    /\ \E asg \in ProbedResolutions(cmd[p]) :
          LET ports == PortStates(cmd[p], asg)
              at    == cmd[p].at
          IN /\ outputs' = [outputs EXCEPT ![at] =
                               [lane |-> label[p], mode |-> cmd[p].mode,
                                ports |-> ports]]
             /\ writer' = [writer EXCEPT ![p] =
                              [active |-> TRUE, ports |-> ports,
                               before |-> outputs[at]]]
    /\ Disturb(cmd[p].at)
    /\ UNCHANGED <<vars, running>>

\* publishPrepareSession: the rows that were resolved with the outputs'
\* ports, less what was lost as append moved them.
Publishes(p) ==
    /\ Writing(p)
    /\ \E asg \in Resolutions(catalog, cmd[p]),
          moved \in MovePoints(catalog, cmd[p]) :
          /\ PortStates(cmd[p], asg) = writer[p].ports
          /\ PublishRows(p, asg, moved)
    /\ writer' = [writer EXCEPT ![p] = NoWriter]
    /\ Disturb(cmd[p].at)
    /\ UNCHANGED <<outputs, running>>

\* The rename fails, and the outputs are put back.
PublishFails(p) ==
    /\ Writing(p)
    /\ Stop(p)
    /\ outputs' = [outputs EXCEPT ![cmd[p].at] = writer[p].before]
    /\ writer' = [writer EXCEPT ![p] = NoWriter]
    /\ Disturb(cmd[p].at)
    /\ UNCHANGED running

\* The prepare is killed with its outputs written.
Killed(p) ==
    /\ Writing(p)
    /\ Stop(p)
    /\ writer' = [writer EXCEPT ![p] = NoWriter]
    /\ UNCHANGED <<outputs, running, up>>

\* Mutate with ReassignService; the outputs stay as they are.
Reassigns(p) ==
    /\ ~Locked
    /\ PublishReassign(p)
    /\ \A k \in Changed : \/ catalog'[k].port = catalog[k].port
                          \/ catalog'[k].port \notin Bound
    /\ Disturb(cmd[p].at)
    /\ UNCHANGED <<outputs, writer, running>>

\* A command fails, or ends before it has the lock.
Stops(p) == ~Writing(p) /\ Stop(p) /\ UNCHANGED laneVars

Switches(at) ==
    /\ Switch(at)
    /\ Disturb(at)
    /\ UNCHANGED <<outputs, writer, running>>

-----------------------------------------------------------------------------
(* up *)

\* load: manifest.Build with the ports of Inspect, which fails like a prepare.
UpLoads(at) ==
    /\ up.step = "idle"
    /\ \E options \in Options[at] :
          LET c == Own(at, options)
          IN \E asg \in ProbedResolutions(c) :
                up' = [step |-> "loaded", at |-> at,
                       manifest |-> [lane  |-> NameAt(at, options),
                                     mode  |-> c.mode,
                                     ports |-> PortStates(c, asg)],
                       ready |-> \A i \in DOMAIN c.adapter.ports :
                                    Kept(catalog, c, i),
                       quiet |-> TRUE]
    /\ UNCHANGED <<vars, outputs, writer, running>>

Goto(step) ==
    /\ up' = [up EXCEPT !.step = step]
    /\ UNCHANGED <<vars, outputs, writer, running>>

UpEnds ==
    /\ up' = NoUp
    /\ UNCHANGED <<vars, outputs, writer, running>>

\* The manifest has ports, and there is something to start.
needsPreparedPorts ==
    up.manifest.ports # NoPorts /\ up.at \in Composed \cup BareMetal

\* verifyUpPortReadiness
UpNotReady ==
    /\ up.step = "loaded"
    /\ needsPreparedPorts /\ ~up.ready
    /\ UpEnds

UpHasNothing ==
    /\ up.step = "loaded"
    /\ up.at \notin Composed \cup BareMetal
    /\ UpEnds

\* handleRunCommandsForUp: the run commands are printed, if there are any.
UpPrints ==
    /\ up.step = "loaded"
    /\ needsPreparedPorts => up.ready
    /\ up.at \in Composed \cup BareMetal
    /\ Goto("printed")

\* Seeded fault: the outputs are of this lane, whatever their ports.
OutputsMatchLane == outputs[up.at].lane = up.manifest.lane

\* VerifyPreparedOutputs: what a prepare would render now is there (the branch,
\* which the code compares too, is left out: more ups pass).
OutputsMatch == outputs[up.at] = up.manifest

UpVerifies ==
    /\ up.step = "printed"
    /\ OutputsMatch
    /\ up.at \in Composed
    /\ Goto("verified")

\* The outputs are stale, or commands were all there was to print.
UpStops ==
    /\ up.step = "printed"
    /\ ~OutputsMatch \/ up.at \notin Composed
    /\ UpEnds

Project(at, lane) == <<App[at], lane>>

\* compose reads its env file now, and gets every port or none.
UpRuns ==
    /\ up.step = "verified"
    /\ LET project == Project(up.at, up.manifest.lane)
           ports   == outputs[up.at].ports
           others  == UNION {{running[q].ports[s] : s \in Services} :
                                q \in Projects \ {project}}
       IN /\ \A s \in Services : ports[s] # NoPort => ports[s] \notin others
          /\ running' = [running EXCEPT ![project] =
                            [from |-> up.at, ports |-> ports,
                             quiet |-> up.quiet]]
    /\ up' = NoUp
    /\ UNCHANGED <<vars, outputs, writer>>

\* --dry-run, docker fails, or up is killed.
UpGivesUp == up.step # "idle" /\ UpEnds

-----------------------------------------------------------------------------
(* down and port *)

\* down stops the project of the lane that its options name or that is
\* checked out now, if it can be inspected.
Down(at) ==
    /\ at \in Composed
    /\ \E options \in Options[at] :
          /\ ProbedResolutions(Own(at, options)) # {}
          /\ running' = [running EXCEPT
                            ![Project(at, NameAt(at, options))] = NotRunning]
    /\ UNCHANGED <<vars, outputs, writer, up>>

stableFixture(portConfig) ==
    IF portConfig.stable # NoPort THEN portConfig.stable
                                  ELSE portConfig.default

\* What `port` prints in this mode; NoPort when it fails.
assignedPort(at, mode, service) ==
    LET row     == catalog[<<at, service>>]
        config  == tree[at].config
        fixture == stableFixture(config.ports[IndexOf(config, service)])
    IN IF /\ Declares(config, service)
          /\ mode = "stable" => row.port = fixture
       THEN row.port
       ELSE NoPort

-----------------------------------------------------------------------------

LaneNext ==
    \/ \E p \in Procs :
          \/ Starts(p) \/ WritesOutputs(p) \/ Publishes(p) \/ PublishFails(p)
          \/ Killed(p) \/ Reassigns(p) \/ Stops(p)
    \/ \E at \in Checkouts : Switches(at) \/ UpLoads(at) \/ Down(at)
    \/ UpNotReady \/ UpHasNothing \/ UpPrints \/ UpVerifies \/ UpStops
    \/ UpRuns \/ UpGivesUp

LaneSpec == LaneInit /\ [][LaneNext]_allVars

-----------------------------------------------------------------------------
(* Properties *)

\* If nothing that concerns the checkout changed while `up` ran, compose gets,
\* for every service, the port that `port` prints in that mode: the manifest,
\* the catalog and the files that compose reads again after the check are one
\* and the same (runUp, assignedPort).
QuietUpIsAssigned ==
    [][UpRuns /\ up.quiet =>
          \A service \in Services :
              outputs[up.at].ports[service] =
                  assignedPort(up.at, up.manifest.mode, service)]_allVars

\* While what such an `up` started runs, no other checkout has a row with one
\* of its ports, whatever is prepared, moved or switched afterwards: a port
\* that left the catalog is still bound, and what is bound is not chosen.
RunningKeepsPorts ==
    \A project \in Projects, k \in Keys :
        LET run == running[project]
        IN run.quiet /\ k[1] # run.from /\ catalog[k] # NoRow =>
               \A service \in Services : run.ports[service] # catalog[k].port

\* docs/40-cli-contract.md:56, "verifies that the current prepare-owned inputs
\* still match the live manifest/template state, then runs lane-aware `docker
\* compose up`": the ports it starts are the catalog's.
StartedPortsAreAssigned ==
    [][UpRuns =>
          \A service \in Services :
              outputs[up.at].ports[service] =
                  assignedPort(up.at, up.manifest.mode, service)]_allVars
=============================================================================
