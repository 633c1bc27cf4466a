------------------------------ MODULE MCHostGc ------------------------------
(***************************************************************************)
(* HostGc on a checkout of two directories, each of which starts with an   *)
(* adapter of its own; the two rows claim one port.                        *)
(***************************************************************************)
EXTENDS HostGc, TLC

CONSTANTS r1, p1, p2, top, sub, a, b, s

ProcSymmetry == Permutations(Procs)

MCTree == <<top, sub>>

Declares(app) == [app |-> app, services |-> {s}]

Row(r, app, port) ==
    [repo |-> r, app |-> app, service |-> s, port |-> port, lastPrepared |-> 0]

MCInitialRows == {{Row(r1, a, 1), Row(r1, b, 1)}}

MCInitialFiles ==
    {[r \in Repos |-> [d \in Dirs |-> IF d = top THEN Declares(a)
                                      ELSE Declares(b)]]}

Clean(op, app, consent) == [op |-> op, app |-> app, consent |-> consent]

PrepareAt(d) == [op |-> "prepare", repo |-> r1, dir |-> d]

MCCommands ==
    {Clean("gc", AnyApp, "ask"), Clean("gc", a, "yes"),
     Clean("doctor", AnyApp, "ask"), PrepareAt(sub)}
=============================================================================
