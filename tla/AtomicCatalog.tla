---------------------------- MODULE AtomicCatalog ----------------------------
(***************************************************************************)
(* What the lock-then-rename discipline promises: the host catalog behaves *)
(* as if every command that publishes ran alone, in one step, on the       *)
(* catalog as it is at that moment.  What a command makes of a catalog is  *)
(* a parameter.  HostCatalog.tla is shown to implement this specification. *)
(***************************************************************************)

CONSTANTS
    Requests,          \* the commands
    Effect(_, _, _),   \* Effect(r, before, after): what r may do
    Initial            \* the catalog of a host that never ran devlane

VARIABLE store

Init == store = Initial

\* A command that leaves every row as it was is a stuttering step.
Commit(r) ==
    /\ store' # store
    /\ Effect(r, store, store')

Next == \E r \in Requests : Commit(r)

Spec == Init /\ [][Next]_store
=============================================================================
