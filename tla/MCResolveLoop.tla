---------------------------- MODULE MCResolveLoop ----------------------------
(***************************************************************************)
(* ResolveLoop over catalogs with at most one row per key and one key      *)
(* per port, on a host with two checkouts, three services and four ports.  *)
(***************************************************************************)
EXTENDS ResolveLoop

CONSTANTS c1, c2, web, api, db

Config(name, default, stable, hint) ==
    [name |-> name, default |-> default, stable |-> stable, hint |-> hint]

Prepare(mode, ports, reserved) ==
    [op |-> "prepare", at |-> c1, mode |-> mode,
     adapter |-> [ports |-> ports, reserved |-> reserved],
     service |-> web]

MCKeyOrder == <<<<c1, api>>, <<c1, db>>, <<c1, web>>,
                <<c2, api>>, <<c2, db>>, <<c2, web>>>>

MCPorts == 0 .. 4

\* Three services; web has a stable fixture of its own, db a pool hint, and
\* the default of api is the fixture of web.
Api == Config(api, 3, NoPort, <<>>)
Db  == Config(db, 2, NoPort, <<3, 4>>)
Web == Config(web, 1, 3, <<>>)

MCCommands ==
    {Prepare(mode, ports, {}) :
        mode \in Modes,
        ports \in {<<>>, <<Web>>, <<Api, Web>>, <<Web, Db>>}}
    \cup {Prepare(mode, <<Db, Web, Api>>, {2}) : mode \in Modes}

\* A service declared before the displaced one, and one that wants its port.
SwapCommands ==
    {Prepare("stable", <<Config(api, 4, NoPort, <<>>), Web,
                         Config(db, 2, NoPort, <<>>)>>, {})}

\* Every set of rows of the first checkout, none of them on the port of the
\* row that the second checkout has for web, if it has one.
MCStartCatalogs ==
    LET own   == {k \in Keys : k[1] = c1}
        ports == [own -> (MCPorts \ {0}) \cup {NoPort}]
        apart(f, foreign) ==
            /\ foreign # NoPort => \A k \in own : f[k] # foreign
            /\ \A k1, k2 \in own : f[k1] = f[k2] /\ k1 # k2 => f[k1] = NoPort
        port(f, foreign, k) == IF k \in own THEN f[k]
                               ELSE IF k = <<c2, web>> THEN foreign ELSE NoPort
    IN {[k \in Keys |-> IF port(p[1], p[2], k) = NoPort THEN NoRow
                        ELSE [port |-> port(p[1], p[2], k), mode |-> "dev"]] :
           p \in {q \in ports \X {NoPort, 3} : apart(q[1], q[2])}}

MCBoundSets == {{}, {1, 3}}

NoneBound == {{}}
=============================================================================
