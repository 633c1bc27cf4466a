--------------------------- MODULE MCInitScaffold ---------------------------
(***************************************************************************)
(* InitScaffold on a small monorepo: two apps, one of them with a nested   *)
(* directory that is too deep, another checkout and a skipped tree.        *)
(***************************************************************************)
EXTENDS InitScaffold, TLC

CONSTANTS root, api, deep, nest, vendor, good, wide, bad

MCWalk == <<root, api, deep, nest, vendor>>

MCPath == (root :> <<root>>) @@ (api :> <<root, api>>)
       @@ (deep :> <<root, api, deep>>) @@ (nest :> <<root, nest>>)
       @@ (vendor :> <<root, vendor>>)

Everywhere(kinds) == [d \in Dirs |-> kinds]

MCSignals ==
    {Everywhere({}), Everywhere({"compose", "bare"}),
     [Everywhere({"bare"}) EXCEPT ![root] = {"compose", "override"}],
     [Everywhere({"compose"}) EXCEPT ![root] = {"override"}]}

MCFiles == {[d \in Dirs |-> "none"],
            [d \in Dirs |-> IF d = api THEN "user" ELSE "none"],
            [d \in Dirs |-> IF d = root THEN "link" ELSE "none"]}

\* `wide` names a file beside its checkout, which leaves the nested one.
MCEscaping == [content \in Sources |-> IF content = wide THEN {nest} ELSE {}]
=============================================================================
