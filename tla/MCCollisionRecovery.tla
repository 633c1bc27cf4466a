------------------------ MODULE MCCollisionRecovery ------------------------
(***************************************************************************)
(* CollisionRecovery with a stable checkout and two dev checkouts of apps  *)
(* whose adapters name the same ports.                                     *)
(***************************************************************************)
EXTENDS CollisionRecovery

CONSTANTS c1, c2, c3, web, api

Config(name, default, stable) ==
    [name |-> name, default |-> default, stable |-> stable, hint |-> <<>>]

Adapter(ports, reserved) == [ports |-> ports, reserved |-> reserved]

MCPorts == 1 .. 4

OneService == Adapter(<<Config(web, 1, NoPort)>>, {})

\* One fixture, two of which the first may be new, one that both services want,
\* a reserved one, and defaults that are the fixture of the other service.
MCHomeAdapters ==
    {OneService,
     Adapter(<<Config(api, 2, NoPort), Config(web, 1, NoPort)>>, {}),
     Adapter(<<Config(web, 1, NoPort), Config(api, 1, NoPort)>>, {}),
     Adapter(<<Config(web, 1, NoPort)>>, {1}),
     Adapter(<<Config(web, 1, 2), Config(api, 2, 1)>>, {})}

MCDevAdapter == Adapter(<<Config(web, 1, NoPort), Config(api, 2, NoPort)>>, {})
=============================================================================
