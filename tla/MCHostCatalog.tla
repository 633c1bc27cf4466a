---------------------------- MODULE MCHostCatalog ----------------------------
(***************************************************************************)
(* HostCatalog on a host with two checkouts, two services and three ports. *)
(* Each set of commands below aims at one kind of race.                    *)
(***************************************************************************)
EXTENDS HostCatalog, TLC

CONSTANTS c1, c2, web, api, p1, p2

Config(name, default, stable) ==
    [name |-> name, default |-> default, stable |-> stable, hint |-> <<>>]

Adapter(ports) == [ports |-> ports, reserved |-> {}]

Command(op, at, mode, adapter, service) ==
    [op |-> op, at |-> at, mode |-> mode, adapter |-> adapter,
     service |-> service]

\* One repository's adapter and two edits of it: a new service declared before
\* an old one, and a service dropped.
WebOnly == Adapter(<<Config(web, 1, 3)>>)
Both    == Adapter(<<Config(api, 2, NoPort), Config(web, 1, 3)>>)
NoPorts == Adapter(<<>>)

Prepare(at, mode, adapter) == Command("prepare", at, mode, adapter, web)
Reassign1(at, mode, adapter) == Command("reassign", at, mode, adapter, web)
Cleanup(at) == Command("cleanup", at, "dev", WebOnly, web)

MCPorts == 1 .. 3

ProcSymmetry == Permutations(Procs)

\* Two checkouts.  Both declares a new service before one that may have its
\* row: what a moved array loses is the row after it.  NoPorts declares none, so
\* that its prepare may need no lock.
MCCommands ==
    {Prepare(c1, "dev", WebOnly), Prepare(c1, "dev", NoPorts),
     Prepare(c1, "stable", Both), Prepare(c2, "dev", WebOnly),
     Reassign1(c1, "dev", Both),  Reassign1(c2, "stable", WebOnly),
     Cleanup(c1)}

DevCommands ==
    {Prepare(c1, "dev", WebOnly), Prepare(c1, "dev", Both),
     Reassign1(c1, "dev", WebOnly), Cleanup(c1)}
=============================================================================
