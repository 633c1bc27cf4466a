----------------------------- MODULE CatalogLock -----------------------------
(***************************************************************************)
(* What the commands ask of the lock of the catalog: a process that wants  *)
(* it gets it or is sent away, one at a time work under it, and a process  *)
(* that ends for whatever reason gives it up.                              *)
(***************************************************************************)
EXTENDS Naturals

CONSTANTS Procs

VARIABLES
    waiting,    \* processes that want the lock
    working     \* processes that act as if they had it

vars == <<waiting, working>>

Init == waiting = {} /\ working = {}

Request(p) ==
    /\ p \notin waiting \cup working
    /\ waiting' = waiting \cup {p}
    /\ UNCHANGED working

Grant(p) ==
    /\ p \in waiting
    /\ working = {}
    /\ waiting' = waiting \ {p}
    /\ working' = {p}

Leave(p) ==
    /\ p \in waiting
    /\ waiting' = waiting \ {p}
    /\ UNCHANGED working

Release(p) ==
    /\ p \in working
    /\ working' = working \ {p}
    /\ UNCHANGED waiting

Next == \E p \in Procs : Request(p) \/ Grant(p) \/ Leave(p) \/ Release(p)

Spec == Init /\ [][Next]_vars
=============================================================================
