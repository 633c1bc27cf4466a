----------------------------- MODULE MCLockFile -----------------------------
(***************************************************************************)
(* LockFile with pids of one and two digits, one the beginning of another. *)
(***************************************************************************)
EXTENDS LockFile, TLC

CONSTANTS p1, p2, p3

MCPid == (p1 :> <<1, 2>>) @@ (p2 :> <<1>>) @@ (p3 :> <<2>>)
=============================================================================
