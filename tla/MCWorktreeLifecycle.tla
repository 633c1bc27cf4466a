------------------------ MODULE MCWorktreeLifecycle ------------------------
(***************************************************************************)
(* WorktreeLifecycle with two lanes whose slugs give one sibling path.     *)
(***************************************************************************)
EXTENDS WorktreeLifecycle, TLC

CONSTANTS p1, p2, x, y, px, a, b

ProcSymmetry == Permutations(Procs)

OnePath == [lane \in Lanes |-> px]

Adapter(app, stable, seeds) ==
    [app |-> app, stable |-> stable, seeds |-> seeds]

\* Two apps, two ideas of what is stable, a seed that is the adapter and one
\* that is not.
MCAdapters == {Adapter(a, {}, {"adapter"}), Adapter(b, {x}, {"other"})}

CreateLane(lane) == [op |-> "create", lane |-> lane]

At(op, path) == [op |-> op, path |-> path]

\* x is to be created; y is a branch that users have.
MCCommands == {CreateLane(x), At("remove", px), At("prepare", px)}
=============================================================================
