----------------------- MODULE WorktreeLifecycleProofs -----------------------
(***************************************************************************)
(* Proofs about WorktreeLifecycle, for any processes, lanes, paths, apps   *)
(* and commands, however many checkouts are made and adapters edited.      *)
(*                                                                         *)
(* The difficulty is that births are named in three places that go out of  *)
(* date independently: on disk, in the catalog, and in the memory of the   *)
(* processes.  PlaceInv says that they never disagree about where a birth  *)
(* was; LaneInv and RowInv say what each may still rely on.                *)
(***************************************************************************)
EXTENDS WorktreeLifecycle, TLAPS

-----------------------------------------------------------------------------
(* The inductive invariant *)

\* Where a command is.  Before git has run there is no birth, and git is asked
\* for a lane at the path of a sibling.  A process that has read an adapter to
\* prepare is on the way to the lock or has it; one that is on that way without
\* an adapter is a remove; only the holder of the lock is past it.
StepInv ==
    \A p \in Procs :
        /\ pc[p] \in {"idle", "checked", "added", "seeded", "captured"}
               => loaded[p] = NoAdapter
        /\ pc[p] \in {"idle", "checked"} => birth[p] = 0
        /\ pc[p] = "checked" => cmd[p].lane \in Lanes
        /\ pc[p] \in {"checked", "added", "seeded", "captured"}
               => target[p] \in Paths
        /\ pc[p] = "written" => loaded[p] # NoAdapter
        /\ (pc[p] \in {"captured", "wait", "locked", "closing"}
                /\ loaded[p] = NoAdapter) => cmd[p].op = "remove"
        /\ pc[p] \in {"locked", "written", "closing"} => lock = p

\* The places at which the disk, the catalog and the processes put a birth.
Placed ==
    {<<born[path], path>> : path \in Places}
        \cup {<<row.born, row.path>> : row \in catalog}
        \cup {<<birth[p], target[p]>> : p \in Procs}

\* A birth is at one place, whoever names it, and was made by git; what is at
\* a place is what is left of one.
PlaceInv ==
    /\ \A x, y \in Placed : x[1] = y[1] /\ x[1] # 0 => x[2] = y[2]
    /\ \A x \in Placed : x[1] <= births
    /\ \A path \in Places :
          dir[path] # "none" \/ at[path] # NoAdapter => born[path] # 0
    /\ \A row \in catalog : row.born # 0
    /\ \A p \in Procs :
          /\ loaded[p] # NoAdapter \/ pc[p] = "added" => birth[p] # 0
          /\ birth[p] # 0 => born[target[p]] # 0
    /\ \A b \in retired : b <= births

Alive(path, b) == dir[path] = "checkout" /\ born[path] = b

\* What create made is on the lane it validated, as long as it is what git
\* made for it.
LaneInv ==
    \A p \in Procs :
        /\ pc[p] \in {"checked", "added", "seeded"}
               => cmd[p].lane \notin adapter[p].stable
        /\ pc[p] \in {"added", "seeded"}
               => /\ birth[p] <= born[target[p]]
                  /\ birth[p] = born[target[p]] => on[target[p]] = cmd[p].lane

\* A remove between its git and its cleanup: the checkout it noted is gone.
GoneInv ==
    \A p \in Procs :
        (/\ pc[p] \in {"wait", "locked"}
         /\ loaded[p] = NoAdapter
         /\ dir[target[p]] = "checkout")
            => birth[p] < born[target[p]]

\* The adapter at a path is the one of app.
HasApp(path, app) == at[path] # NoAdapter /\ at[path].app = app

\* Unless the history blurs: who prepares a checkout has the app of its
\* adapter, and so do its rows.
PreparerInv ==
    \A p \in Procs :
        loaded[p] # NoAdapter /\ birth[p] \notin blurred =>
            Alive(target[p], birth[p]) /\ HasApp(target[p], loaded[p].app)

RowInv ==
    \A row \in catalog :
        (/\ row.born \notin blurred /\ row.born = born[row.path]
         /\ dir[row.path] = "checkout" \/ at[row.path] # NoAdapter)
            => dir[row.path] = "checkout" /\ HasApp(row.path, row.app)

Removing(p) ==
    \/ pc[p] = "captured"
    \/ pc[p] \in {"wait", "locked"} /\ loaded[p] = NoAdapter

\* What a remove has noted is what it will find rows under.
NotedInv ==
    \A p \in Procs :
        Removing(p) /\ birth[p] \notin blurred =>
            /\ \A row \in catalog :
                  row.born = birth[p] => row.app = adapter[p].app
            /\ \A q \in Procs :
                  loaded[q] # NoAdapter /\ birth[q] = birth[p]
                      => loaded[q].app = adapter[p].app
            /\ pc[p] = "captured" /\ Alive(target[p], birth[p])
                  => HasApp(target[p], adapter[p].app)

\* A checkout whose removal was cleaned up does not come back.
RetiredInv ==
    /\ \A path \in Places, b \in retired : ~Alive(path, b)
    /\ RetiredUnlessBlurred

\* The row that a prepare publishes, which stays until the lock is released.
Published(p) == [app  |-> loaded[p].app, path |-> target[p],
                 born |-> birth[p],      mode |-> mode[p]]

PublishedInv ==
    \A p \in Procs :
        pc[p] = "closing" /\ loaded[p] # NoAdapter => Published(p) \in catalog

BlurInv == PreparerInv /\ RowInv /\ NotedInv /\ RetiredInv

Inv == /\ TypeOK /\ StepInv /\ PlaceInv /\ LaneInv /\ GoneInv
       /\ BlurInv /\ PublishedInv

-----------------------------------------------------------------------------
(* The steps *)

\* The steps of a command that goes on.
Moves(p) ==
    \/ CreateChecks(p) \/ AddWorktree(p) \/ ApplySeeds(p) \/ LoadCreated(p)
    \/ StartPrepare(p) \/ WriteOutputs(p) \/ PublishPrepared(p)
    \/ Capture(p) \/ GitRemove(p) \/ Cleanup(p) \/ Acquire(p)

\* Every step is one of a command that goes on, the end of a command, however
\* it ends, or a step of a user.
LEMMA StepCases ==
    ASSUME [Next]_vars
    PROVE  \/ UNCHANGED vars
           \/ \E p \in Procs : Exit(p) \/ Moves(p)
           \/ Users
BY DEF Next, Create, Remove, Prepare, Locking, Moves, CreateRefused,
       AddWorktreeFails, CreateFails, GitRemoveFails, AcquireTimesOut,
       CatalogFails, Succeed, Crash

LEMMA PlaceTypes == (\A path \in Paths : path \in Places) /\ Main \in Places
BY DEF Places

\* There are births, that of the main checkout at least.
LEMMA SomeBirths ==
    MaxBirths \in Nat /\ 1 <= MaxBirths /\ MaxEdits \in Nat
BY BoundsAssumption

LEMMA BlurType ==
    ASSUME TypeOK, NEW condition, NEW path \in Places, BlurIf(condition, path)
    PROVE  blurred' \in SUBSET Births /\ blurred \subseteq blurred'
BY DEF TypeOK, BlurIf

\* What a load prepares is at the path, or in the caller's checkout.
LEMMA FoundType ==
    ASSUME NEW path \in Paths
    PROVE  Found(path) \in Places /\ (Found(path) # path => Found(path) = Main)
BY PlaceTypes DEF Found

-----------------------------------------------------------------------------
(* Type correctness *)

LEMMA CheckoutType ==
    ASSUME TypeOK, NEW path \in Paths, NEW lane \in Lanes, Checkout(path, lane)
    PROVE  /\ UNCHANGED head
           /\ dir'      \in [Places -> {"none", "checkout", "debris"}]
           /\ at'       \in [Places -> Adapters \cup {NoAdapter}]
           /\ on'       \in [Paths -> Lanes]
           /\ born'     \in [Places -> Births]
           /\ branches' \in SUBSET Lanes
           /\ births'   \in Births
<1>1. births + 1 \in Births /\ births' = births + 1
  BY SomeBirths DEF TypeOK, Checkout, Births
<1>2. QED
  BY <1>1 DEF TypeOK, Checkout

LEMMA VanishType ==
    ASSUME TypeOK, NEW path \in Places, Vanish(path)
    PROVE  /\ UNCHANGED <<head, on, born, branches, births>>
           /\ dir'     \in [Places -> {"none", "checkout", "debris"}]
           /\ at'      \in [Places -> Adapters \cup {NoAdapter}]
           /\ blurred' \in SUBSET Births
BY BlurType DEF TypeOK, Vanish

LEMMA CommandTypes ==
    ASSUME NEW c \in Commands
    PROVE  /\ c.op = "create" => c.lane \in Lanes
           /\ c.op # "create" => c.path \in Paths
           /\ c.op \in {"create", "remove", "prepare"}
BY CommandsAssumption DEF CreateCommands, PathCommands

TypeInv == TypeOK /\ StepInv

LEMMA TypeInductive == TypeInv /\ [Next]_vars => TypeOK'
<1> SUFFICES ASSUME TypeInv, [Next]_vars PROVE TypeOK'
  OBVIOUS
<1>0. TypeOK /\ StepInv
  BY DEF TypeInv
<1> USE <1>0 DEF TypeOK, Goto, Steps, Modes
<1>1. CASE UNCHANGED vars
  BY <1>1 DEF vars, files, mind, history
<1>2. ASSUME NEW p \in Procs, Exit(p) PROVE TypeOK'
  <2>1. 0 \in Births /\ Main \in Places
    BY PlaceTypes, SomeBirths DEF Births
  <2>2. QED
    BY <1>2, <2>1 DEF Exit, files, history
<1>3. ASSUME NEW p \in Procs, Moves(p) PROVE TypeOK'
  <2>1. CASE CreateChecks(p)
    <3>1. /\ target' \in [Procs -> Places]
          /\ cmd' \in [Procs -> Commands \cup {NoCommand}]
          /\ adapter' \in [Procs -> Adapters \cup {NoAdapter}]
      BY <2>1, CommandTypes, SiblingAssumption, PlaceTypes
         DEF CreateChecks, work
    <3>2. QED
      BY <2>1, <3>1 DEF CreateChecks, files, history
  <2>2. CASE AddWorktree(p)
    <3>1. Checkout(target[p], cmd[p].lane)
          /\ target[p] \in Paths /\ cmd[p].lane \in Lanes
      BY <2>2 DEF AddWorktree, StepInv
    <3>2. births + 1 \in Births
      BY <3>1, SomeBirths DEF Births, Checkout
    <3>3. QED
      BY <1>0, <2>2, <3>1, <3>2, CheckoutType DEF AddWorktree, history
  <2>3. CASE ApplySeeds(p)
    BY <1>0, <2>3, PlaceTypes, BlurType DEF ApplySeeds, mind, work
  <2>4. CASE LoadCreated(p) \/ StartPrepare(p)
    <3>1. PICK path \in Paths : Load(p, path)
      BY <1>0, <2>4, CommandTypes DEF LoadCreated, StartPrepare, StepInv
    <3>2. /\ mode' \in [Procs -> Modes] /\ target' \in [Procs -> Places]
          /\ loaded' \in [Procs -> Adapters \cup {NoAdapter}]
          /\ adapter' \in [Procs -> Adapters \cup {NoAdapter}]
          /\ birth' \in [Procs -> Births]
          /\ blurred' \in SUBSET Births
      BY <1>0, <3>1, PlaceTypes, FoundType, BlurType DEF Load, deriveMode
    <3>3. QED
      BY <2>4, <3>2, CommandTypes DEF LoadCreated, StartPrepare, files
  <2>6. CASE WriteOutputs(p)
    BY <2>6 DEF WriteOutputs, mind, history
  <2>7. CASE PublishPrepared(p)
    <3>1. /\ loaded[p] \in Adapters
          /\ target[p] \in Places /\ birth[p] \in Births /\ mode[p] \in Modes
      BY <2>7 DEF PublishPrepared, StepInv
    <3>2. Published(p) \in Rows
      BY <3>1 DEF Published, Rows, Adapters
    <3>3. catalog' \in SUBSET Rows
      BY <2>7, <3>2 DEF PublishPrepared, Published
    <3>4. QED
      BY <2>7, <3>3 DEF PublishPrepared, files, mind, history
  <2>8. CASE Capture(p)
    <3>1. PICK path \in Paths :
             /\ target' = [target EXCEPT ![p] = path]
             /\ adapter' = [adapter EXCEPT ![p] = capturedAdapter(path)]
             /\ birth' = [birth EXCEPT ![p] = born[path]]
             /\ BlurIf(at[path] = NoAdapter, path)
      BY <2>8, CommandTypes DEF Capture
    <3>2. path \in Places /\ capturedAdapter(path) \in Adapters \cup {NoAdapter}
      BY PlaceTypes DEF capturedAdapter, work
    <3>3. QED
      BY <1>0, <2>8, <3>1, <3>2, CommandTypes, BlurType DEF Capture, files
  <2>9. CASE GitRemove(p)
    BY <1>0, <2>9, VanishType DEF GitRemove, mind
  <2>10. CASE Cleanup(p)
    BY <2>10 DEF Cleanup, files, mind
  <2>11. CASE Acquire(p)
    BY <2>11 DEF Acquire, files, mind, history
  <2>12. QED
    BY <1>3, <2>1, <2>2, <2>3, <2>4, <2>6, <2>7, <2>8, <2>9, <2>10, <2>11
       DEF Moves
<1>4. CASE Users
  <2>1. ASSUME NEW path \in Paths, NEW lane \in Lanes, UserAdds(path, lane)
        PROVE  TypeOK'
    BY <1>0, <2>1, CheckoutType DEF UserAdds, mind, history
  <2>2. ASSUME NEW path \in Paths, UserRemoves(path) PROVE TypeOK'
    BY <1>0, <2>2, VanishType, PlaceTypes DEF UserRemoves, mind
  <2>3. ASSUME NEW lane \in Lanes, UserDeletesBranch(lane) PROVE TypeOK'
    BY <2>3 DEF UserDeletesBranch, mind, history
  <2>4. CASE UserEdits
    BY <1>0, <2>4, BlurType, PlaceTypes, AdaptersAssumption, SomeBirths
       DEF UserEdits, mind, work
  <2>5. QED
    BY <1>4, <2>1, <2>2, <2>3, <2>4 DEF Users
<1>5. QED
  BY <1>1, <1>2, <1>3, <1>4, StepCases

LEMMA StepInductive == TypeInv /\ [Next]_vars => StepInv'
<1> SUFFICES ASSUME TypeInv, [Next]_vars PROVE StepInv'
  OBVIOUS
<1> USE DEF TypeInv, TypeOK, StepInv, Goto
<1>1. CASE UNCHANGED vars
  BY <1>1 DEF vars, mind
<1>2. ASSUME NEW p \in Procs, Exit(p) PROVE StepInv'
  BY <1>2, ProcsAssumption DEF Exit
<1>3. ASSUME NEW p \in Procs, Moves(p) PROVE StepInv'
  <2>1. CASE CreateChecks(p)
    BY <2>1, CommandTypes, SiblingAssumption DEF CreateChecks
  <2>2. CASE AddWorktree(p) \/ ApplySeeds(p)
    BY <2>2 DEF AddWorktree, ApplySeeds, mind
  <2>3. CASE LoadCreated(p) \/ StartPrepare(p)
    BY <2>3, CommandTypes DEF LoadCreated, StartPrepare, Load
  <2>4. CASE WriteOutputs(p) \/ PublishPrepared(p)
    BY <2>4 DEF WriteOutputs, PublishPrepared, mind
  <2>5. CASE Capture(p)
    BY <2>5, CommandTypes DEF Capture
  <2>6. CASE GitRemove(p) \/ Cleanup(p)
    BY <2>6 DEF GitRemove, Cleanup, mind
  <2>7. CASE Acquire(p)
    BY <2>7, ProcsAssumption DEF Acquire, mind
  <2>8. QED
    BY <1>3, <2>1, <2>2, <2>3, <2>4, <2>5, <2>6, <2>7 DEF Moves
<1>4. CASE Users
  BY <1>4 DEF Users, UserAdds, UserRemoves, UserDeletesBranch, UserEdits, mind
<1>5. QED
  BY <1>1, <1>2, <1>3, <1>4, StepCases

-----------------------------------------------------------------------------
(* Births and their places *)

\* Old births stay where they are, and what is placed anew is either no birth
\* or the one that git just made.
LEMMA PlacesGrow ==
    ASSUME TypeOK, PlaceInv, NEW path, NEW other, births' \in Nat,
           \/ /\ births' = births
              /\ Placed' \subseteq Placed \cup {<<0, other>>}
           \/ /\ births' = births + 1
              /\ Placed' \subseteq Placed \cup {<<births + 1, path>>}
    PROVE  /\ \A x, y \in Placed' : x[1] = y[1] /\ x[1] # 0 => x[2] = y[2]
           /\ \A x \in Placed' : x[1] <= births'
<1>1. births \in Nat
  BY SomeBirths DEF TypeOK, Births
<1>2. \A x \in Placed : x[1] \in Nat
  BY SomeBirths DEF TypeOK, Placed, Births, Rows
<1>3. /\ \A x, y \in Placed : x[1] = y[1] /\ x[1] # 0 => x[2] = y[2]
      /\ \A x \in Placed : x[1] <= births
  BY DEF PlaceInv
<1>4. CASE /\ births' = births
           /\ Placed' \subseteq Placed \cup {<<0, other>>}
  <2>1. \A x \in Placed' : x \in Placed \/ (x[1] = 0 /\ x[2] = other)
    BY <1>4
  <2>2. QED
    BY <1>1, <1>3, <1>4, <2>1
<1>5. CASE /\ births' = births + 1
           /\ Placed' \subseteq Placed \cup {<<births + 1, path>>}
  <2>1. \A x \in Placed' :
           x \in Placed \/ (x[1] = births + 1 /\ x[2] = path)
    BY <1>5
  <2>2. \A x \in Placed : x[1] # births + 1
    BY <1>1, <1>2, <1>3
  <2>3. \A x \in Placed : x[1] <= births + 1
    BY <1>1, <1>2, <1>3
  <2>4. QED
    BY <1>1, <1>3, <1>5, <2>1, <2>2, <2>3
<1>6. QED
  BY <1>4, <1>5

\* What PlaceInv says of the three places.
LEMMA PlacesAgree ==
    ASSUME TypeOK, PlaceInv
    PROVE  /\ births \in Nat
           /\ \A path \in Places : born[path] \in Nat /\ born[path] <= births
           /\ \A row \in catalog :
                 /\ row.born \in Nat /\ row.born <= births
                 /\ row.born # 0 /\ row.path \in Places
                 /\ \A path \in Places :
                       born[path] = row.born => path = row.path
           /\ \A p \in Procs :
                 /\ birth[p] \in Nat /\ birth[p] <= births
                 /\ target[p] \in Places
                 /\ \A path \in Places :
                       born[path] = birth[p] /\ birth[p] # 0
                           => path = target[p]
                 /\ \A row \in catalog :
                       row.born = birth[p] => row.path = target[p]
                 /\ \A q \in Procs :
                       birth[q] = birth[p] /\ birth[p] # 0
                           => target[q] = target[p]
<1>1. /\ births \in Nat
      /\ \A path \in Places : born[path] \in Nat
      /\ \A row \in catalog : row.born \in Nat /\ row.path \in Places
      /\ \A p \in Procs : birth[p] \in Nat /\ target[p] \in Places
  BY SomeBirths DEF TypeOK, Births, Rows
<1>2. /\ \A path \in Places : <<born[path], path>> \in Placed
      /\ \A row \in catalog : <<row.born, row.path>> \in Placed
      /\ \A p \in Procs : <<birth[p], target[p]>> \in Placed
  BY DEF Placed
<1>3. \A b1, b2, path1, path2 :
         <<b1, path1>> \in Placed /\ <<b2, path2>> \in Placed /\ b1 = b2
         /\ b1 # 0
             => path1 = path2
  BY DEF PlaceInv
<1>4. \A b, path : <<b, path>> \in Placed => b <= births
  BY DEF PlaceInv
<1>5. \A row \in catalog : row.born # 0
  BY DEF PlaceInv
<1>6. QED
  BY <1>1, <1>2, <1>3, <1>4, <1>5

\* The rest of PlaceInv: what is used of a birth is one.
Born ==
    /\ \A path \in Places :
          dir[path] # "none" \/ at[path] # NoAdapter => born[path] # 0
    /\ \A row \in catalog : row.born # 0
    /\ \A p \in Procs :
          /\ loaded[p] # NoAdapter \/ pc[p] = "added" => birth[p] # 0
          /\ birth[p] # 0 => born[target[p]] # 0
    /\ \A b \in retired : b <= births

\* The checkout that git makes is at its own path, with a birth of its own.
LEMMA CheckoutBirth ==
    ASSUME TypeOK, NEW path \in Paths, NEW lane, Checkout(path, lane)
    PROVE  /\ births' = births + 1
           /\ dir[path] = "none"
           /\ born'[path] = births + 1 /\ on'[path] = lane
           /\ \A other \in Paths : other # path => on'[other] = on[other]
           /\ \A other \in Places : other # path =>
                 /\ born'[other] = born[other] /\ dir'[other] = dir[other]
                 /\ at'[other] = at[other]
BY PlaceTypes DEF TypeOK, Checkout

LEMMA PlaceInductive == TypeInv /\ PlaceInv /\ [Next]_vars => PlaceInv'
<1> SUFFICES ASSUME TypeInv, PlaceInv, [Next]_vars PROVE PlaceInv'
  OBVIOUS
<1>0. TypeOK /\ StepInv /\ TypeOK'
  BY TypeInductive DEF TypeInv
<1>1. births \in Nat /\ births' \in Nat
  BY <1>0, SomeBirths DEF TypeOK, Births
<1>2. Born
  BY DEF PlaceInv, Born
<1> DEFINE Kept(other) == /\ births' = births
                          /\ Placed' \subseteq Placed \cup {<<0, other>>}
           Grown(path) ==
               /\ births' = births + 1
               /\ Placed' \subseteq Placed \cup {<<births + 1, path>>}
<1>3. ASSUME NEW path, Kept(path) \/ Grown(path), Born' PROVE PlaceInv'
  BY <1>0, <1>1, <1>3, PlacesGrow DEF PlaceInv, Born
<1>4. ASSUME UNCHANGED <<catalog, born, births, birth, target>>
      PROVE  Kept(Main)
  BY <1>4 DEF Placed
<1> HIDE DEF Kept, Grown
<1>5. CASE UNCHANGED vars
  BY <1>2, <1>3, <1>4, <1>5 DEF vars, files, mind, history, Born
\* Only a process changes, and the birth it notes is one of its place.
<1>6. ASSUME NEW p \in Procs, UNCHANGED <<catalog, retired>>,
             UNCHANGED <<dir, at, born, births>>,
             \A q \in Procs : q # p =>
                 UNCHANGED <<pc[q], loaded[q], birth[q], target[q]>>,
             loaded'[p] # NoAdapter \/ pc'[p] = "added" => birth'[p] # 0,
             birth'[p] # 0 => born[target'[p]] # 0
      PROVE  Born'
  BY <1>2, <1>6 DEF Born
\* Only the disk changes, where there was something or is a birth.
<1>7. ASSUME UNCHANGED <<catalog, retired, born, births, mind>>,
             \A q \in Procs : pc'[q] = "added" => pc[q] = "added",
             \A path \in Places :
                 dir'[path] # "none" \/ at'[path] # NoAdapter =>
                     \/ dir[path] # "none" \/ at[path] # NoAdapter
                     \/ born[path] # 0
      PROVE  Born'
  BY <1>2, <1>7 DEF Born, mind
\* Git makes a checkout.
<1>8. ASSUME NEW path \in Paths, NEW lane, Checkout(path, lane),
             UNCHANGED <<catalog, retired, loaded, target>>,
             \A q \in Procs :
                 \/ UNCHANGED <<pc[q], birth[q]>>
                 \/ birth'[q] = births + 1 /\ target[q] = path
      PROVE  Born'
  <2>1. /\ births' = births + 1 /\ born'[path] = births + 1
        /\ \A other \in Places : other # path =>
              /\ born'[other] = born[other] /\ dir'[other] = dir[other]
              /\ at'[other] = at[other]
    BY <1>0, <1>8, CheckoutBirth
  <2>2. births + 1 # 0 /\ \A b \in retired : b \in Nat
    BY <1>0, <1>1, SomeBirths DEF TypeOK, Births
  <2>3. \A b \in retired' : b <= births'
    BY <1>1, <1>2, <1>8, <2>1, <2>2 DEF Born
  <2>4. \A other \in Places : born[other] # 0 => born'[other] # 0
    BY <2>1, <2>2
  <2>5. \A q \in Procs : target[q] \in Places
    BY <1>0 DEF TypeOK
  <2>6. ASSUME NEW q \in Procs
        PROVE  /\ loaded'[q] # NoAdapter \/ pc'[q] = "added" => birth'[q] # 0
               /\ birth'[q] # 0 => born'[target'[q]] # 0
    <3>1. CASE UNCHANGED <<pc[q], birth[q]>>
      BY <1>2, <1>8, <2>4, <2>5, <3>1 DEF Born
    <3>2. CASE birth'[q] = births + 1 /\ target[q] = path
      BY <1>8, <2>1, <2>2, <3>2
    <3>3. QED
      BY <1>8, <3>1, <3>2
  <2>7. \A other \in Places :
           dir'[other] # "none" \/ at'[other] # NoAdapter => born'[other] # 0
    BY <1>2, <2>1, <2>2 DEF Born
  <2>8. QED
    BY <1>2, <1>8, <2>3, <2>6, <2>7 DEF Born
<1>9. ASSUME NEW p \in Procs, Exit(p) PROVE PlaceInv'
  <2>1. Kept(Main)
    BY <1>0, <1>9 DEF Exit, files, Placed, TypeOK, Kept
  <2>2. Born'
    BY <1>0, <1>6, <1>9 DEF Exit, Goto, files, history, TypeOK
  <2>3. QED
    BY <1>3, <2>1, <2>2
<1>10. ASSUME NEW p \in Procs, Moves(p) PROVE PlaceInv'
  <2>1. CASE CreateChecks(p)
    <3>1. Kept(target'[p])
      BY <1>0, <2>1 DEF CreateChecks, files, Placed, TypeOK, StepInv, Kept
    <3>2. /\ UNCHANGED <<catalog, retired, dir, at, born, births, loaded, birth>>
          /\ loaded[p] = NoAdapter /\ birth[p] = 0 /\ pc'[p] = "checked"
          /\ \A q \in Procs : q # p =>
                pc'[q] = pc[q] /\ target'[q] = target[q]
      BY <1>0, <2>1 DEF CreateChecks, Goto, files, history, TypeOK, StepInv
    <3>3. Born'
      BY <1>6, <3>2
    <3>4. QED
      BY <1>3, <3>1, <3>3
  <2>2. CASE AddWorktree(p)
    <3>1. Checkout(target[p], cmd[p].lane) /\ target[p] \in Paths
      BY <1>0, <2>2 DEF AddWorktree, StepInv
    <3>2. /\ births' = births + 1
          /\ born'[target[p]] = births + 1 /\ birth'[p] = births + 1
          /\ \A path \in Places :
                path # target[p] => born'[path] = born[path]
          /\ \A q \in Procs : q # p => birth'[q] = birth[q]
      BY <1>0, <2>2, <3>1, CheckoutBirth DEF AddWorktree, TypeOK
    <3>3. Grown(target[p])
      BY <2>2, <3>2 DEF AddWorktree, Placed, Grown
    <3>4. Born'
      BY <1>0, <1>8, <2>2, <3>1, <3>2
         DEF AddWorktree, Goto, history, TypeOK
    <3>5. QED
      BY <1>3, <3>3, <3>4
  <2>3. CASE ApplySeeds(p) \/ WriteOutputs(p) \/ GitRemove(p)
    <3>1. Kept(Main)
      BY <1>4, <2>3 DEF ApplySeeds, WriteOutputs, GitRemove, Vanish, mind
    <3>2. /\ UNCHANGED <<catalog, retired, born, births, mind>>
          /\ \A q \in Procs : pc'[q] = "added" => pc[q] = "added"
      BY <1>0, <2>3
         DEF ApplySeeds, WriteOutputs, GitRemove, Vanish, Goto, history, TypeOK
    <3>3. ASSUME ApplySeeds(p) \/ WriteOutputs(p) PROVE Born'
      <4>1. born[target[p]] # 0
        BY <1>2, <3>3 DEF ApplySeeds, WriteOutputs, Born
      <4>2. \A path \in Places :
               path # target[p] => dir'[path] = dir[path] /\ at'[path] = at[path]
        BY <1>0, <3>3 DEF ApplySeeds, WriteOutputs, TypeOK
      <4>3. QED
        BY <1>7, <3>2, <4>1, <4>2
    <3>4. ASSUME GitRemove(p) PROVE Born'
      <4>1. \A path \in Places :
               \/ dir'[path] = "none" /\ at'[path] = NoAdapter
               \/ dir'[path] = dir[path] /\ at'[path] = at[path]
        BY <1>0, <3>4 DEF GitRemove, Vanish, TypeOK
      <4>2. QED
        BY <1>7, <3>2, <4>1
    <3>5. Born'
      BY <2>3, <3>3, <3>4
    <3>6. QED
      BY <1>3, <3>1, <3>5
  <2>4. CASE LoadCreated(p) \/ StartPrepare(p) \/ Capture(p)
    <3>1. /\ UNCHANGED <<catalog, born, births, retired, dir, at>>
          /\ target'[p] \in Places /\ birth'[p] = born[target'[p]]
          /\ birth'[p] # 0 /\ pc'[p] # "added"
          /\ \A q \in Procs : q # p => /\ target'[q] = target[q]
                                       /\ birth'[q] = birth[q]
                                       /\ loaded'[q] = loaded[q]
                                       /\ pc'[q] = pc[q]
      <4>1. CASE LoadCreated(p) \/ StartPrepare(p)
        <5>1. PICK path \in Paths : Load(p, path)
          BY <1>0, <4>1, CommandTypes DEF LoadCreated, StartPrepare, StepInv
        <5>2. /\ at[Found(path)] # NoAdapter /\ target'[p] = Found(path)
              /\ birth'[p] = born[Found(path)] /\ Found(path) \in Places
              /\ \A q \in Procs : q # p => /\ target'[q] = target[q]
                                           /\ birth'[q] = birth[q]
                                           /\ loaded'[q] = loaded[q]
          BY <1>0, <5>1, FoundType DEF Load, TypeOK
        <5>3. QED
          BY <1>0, <1>2, <4>1, <5>2
             DEF LoadCreated, StartPrepare, Goto, files, TypeOK, Born
      <4>2. CASE Capture(p)
        <5>1. PICK path \in Paths :
                 /\ dir[path] # "none" /\ target'[p] = path
                 /\ birth'[p] = born[path]
          BY <1>0, <4>2, CommandTypes DEF Capture, TypeOK
        <5>2. path \in Places /\ born[path] # 0
          BY <1>2, <5>1, PlaceTypes DEF Born
        <5>3. QED
          BY <1>0, <4>2, <5>1, <5>2 DEF Capture, Goto, files, TypeOK
      <4>3. QED
        BY <2>4, <4>1, <4>2
    <3>2. Kept(Main)
      <4>1. <<birth'[p], target'[p]>> \in Placed
        BY <3>1 DEF Placed
      <4>2. QED
        BY <3>1, <4>1 DEF Placed, Kept
    <3>3. Born'
      BY <1>6, <3>1
    <3>4. QED
      BY <1>3, <3>2, <3>3
  <2>5. CASE PublishPrepared(p)
    <3>1. catalog' \subseteq catalog \cup {Published(p)}
      BY <2>5 DEF PublishPrepared, Published
    <3>2. <<birth[p], target[p]>> \in Placed
      BY DEF Placed
    <3>3. Kept(Main)
      BY <2>5, <3>1, <3>2
         DEF PublishPrepared, Published, files, mind, Placed, Kept
    <3>4. Published(p).born # 0
      BY <1>0, <1>2, <2>5 DEF PublishPrepared, Published, Born, StepInv
    <3>5. \A q \in Procs : pc'[q] = "added" => pc[q] = "added"
      BY <1>0, <2>5 DEF PublishPrepared, Goto, TypeOK
    <3>6. Born'
      BY <1>2, <2>5, <3>1, <3>4, <3>5
         DEF PublishPrepared, files, mind, history, Born
    <3>7. QED
      BY <1>3, <3>3, <3>6
  <2>6. CASE Cleanup(p)
    <3>1. catalog' \subseteq catalog /\ retired' = retired \cup {birth[p]}
      BY <2>6 DEF Cleanup
    <3>2. Kept(Main)
      BY <2>6, <3>1 DEF Cleanup, files, mind, Placed, Kept
    <3>3. birth[p] <= births
      BY <1>0, PlacesAgree
    <3>4. \A q \in Procs : pc'[q] = "added" => pc[q] = "added"
      BY <1>0, <2>6 DEF Cleanup, Goto, TypeOK
    <3>5. Born'
      BY <1>2, <2>6, <3>1, <3>3, <3>4 DEF Cleanup, files, mind, Born
    <3>6. QED
      BY <1>3, <3>2, <3>5
  <2>7. CASE Acquire(p)
    <3>1. \A q \in Procs : pc'[q] = "added" => pc[q] = "added"
      BY <1>0, <2>7 DEF Acquire, Goto, TypeOK
    <3>2. Born'
      BY <1>2, <2>7, <3>1 DEF Acquire, files, mind, history, Born
    <3>3. QED
      BY <1>3, <1>4, <2>7, <3>2 DEF Acquire, files, mind
  <2>8. QED
    BY <1>10, <2>1, <2>2, <2>3, <2>4, <2>5, <2>6, <2>7 DEF Moves
<1>11. CASE Users
  <2>1. ASSUME NEW path \in Paths, NEW lane \in Lanes, UserAdds(path, lane)
        PROVE  PlaceInv'
    <3>1. Checkout(path, lane)
      BY <2>1 DEF UserAdds
    <3>2. /\ births' = births + 1
          /\ born'[path] = births + 1
          /\ \A other \in Places :
                other # path => born'[other] = born[other]
      BY <1>0, <3>1, CheckoutBirth
    <3>3. Grown(path)
      BY <2>1, <3>2 DEF UserAdds, mind, Placed, Grown
    <3>4. Born'
      BY <1>8, <2>1, <3>1 DEF UserAdds, mind, history
    <3>5. QED
      BY <1>3, <3>3, <3>4
  <2>2. ASSUME NEW path \in Paths, UserRemoves(path) PROVE PlaceInv'
    <3>1. Kept(Main)
      BY <1>4, <2>2 DEF UserRemoves, Vanish, mind
    <3>2. \A other \in Places :
             \/ dir'[other] = "none" /\ at'[other] = NoAdapter
             \/ dir'[other] = dir[other] /\ at'[other] = at[other]
      BY <1>0, <2>2 DEF UserRemoves, Vanish, TypeOK
    <3>3. Born'
      BY <1>7, <2>2, <3>2 DEF UserRemoves, Vanish
    <3>4. QED
      BY <1>3, <3>1, <3>3
  <2>3. CASE UserEdits \/ \E lane \in Lanes : UserDeletesBranch(lane)
    <3>1. UNCHANGED <<catalog, dir, born, births, pc, mind, retired>>
      BY <2>3 DEF UserEdits, UserDeletesBranch, history
    <3>2. \A path \in Places : dir[path] = "none" => at'[path] = at[path]
      BY <1>0, <2>3 DEF UserEdits, UserDeletesBranch, TypeOK
    <3>3. Born'
      BY <1>7, <3>1, <3>2
    <3>4. QED
      BY <1>3, <1>4, <3>1, <3>3 DEF mind
  <2>4. QED
    BY <1>11, <2>1, <2>2, <2>3 DEF Users
<1>12. QED
  BY <1>5, <1>9, <1>10, <1>11, StepCases

-----------------------------------------------------------------------------
(* What create made, and what remove unmade *)

\* A new birth at a path is later than those the processes know of.
LEMMA LaneInductive ==
    TypeInv /\ PlaceInv /\ LaneInv /\ [Next]_vars => LaneInv'
<1> SUFFICES ASSUME TypeInv, PlaceInv, LaneInv, [Next]_vars PROVE LaneInv'
  OBVIOUS
<1>0. TypeOK /\ StepInv
  BY DEF TypeInv
<1>1. /\ births \in Nat
      /\ \A path \in Places : born[path] \in Nat /\ born[path] <= births
      /\ \A p \in Procs : /\ birth[p] \in Nat /\ birth[p] <= births
                          /\ target[p] \in Places
  BY <1>0, PlacesAgree
<1>2. ASSUME UNCHANGED <<born, on>>,
             \A p \in Procs :
                 \/ pc'[p] \notin {"checked", "added", "seeded"}
                 \/ /\ UNCHANGED <<cmd[p], adapter[p], target[p], birth[p]>>
                    /\ \/ pc'[p] = pc[p]
                       \/ pc[p] = "added" /\ pc'[p] = "seeded"
      PROVE  LaneInv'
  BY <1>2 DEF LaneInv
<1>3. ASSUME NEW path \in Paths, NEW lane, Checkout(path, lane),
             UNCHANGED <<cmd, adapter, target>>,
             \A p \in Procs :
                 \/ pc'[p] = pc[p] /\ birth'[p] = birth[p]
                 \/ /\ pc[p] = "checked" /\ birth'[p] = births + 1
                    /\ target[p] = path /\ cmd[p].lane = lane
      PROVE  LaneInv'
  <2>1. /\ born'[path] = births + 1 /\ on'[path] = lane
        /\ \A other \in Paths : other # path =>
              born'[other] = born[other] /\ on'[other] = on[other]
    BY <1>0, <1>3, CheckoutBirth, PlaceTypes
  <2>2. SUFFICES ASSUME NEW p \in Procs,
                        pc'[p] \in {"checked", "added", "seeded"}
                 PROVE  /\ cmd[p].lane \notin adapter[p].stable
                        /\ pc'[p] \in {"added", "seeded"}
                               => /\ birth'[p] <= born'[target[p]]
                                  /\ birth'[p] = born'[target[p]]
                                         => on'[target[p]] = cmd[p].lane
    BY <1>3 DEF LaneInv
  <2>3. CASE pc'[p] = pc[p] /\ birth'[p] = birth[p]
    <3>1. /\ cmd[p].lane \notin adapter[p].stable
          /\ pc[p] \in {"added", "seeded"}
                 => /\ birth[p] <= born[target[p]]
                    /\ birth[p] = born[target[p]]
                           => on[target[p]] = cmd[p].lane
      BY <2>2, <2>3 DEF LaneInv
    <3>2. CASE target[p] = path
      BY <1>1, <2>1, <2>3, <3>1, <3>2
    <3>3. CASE target[p] # path
      <4>1. target[p] \in Paths
        BY <1>0, <2>2, <2>3 DEF StepInv
      <4>2. QED
        BY <1>1, <2>1, <2>3, <3>1, <3>3, <4>1
    <3>4. QED
      BY <3>2, <3>3
  <2>4. CASE /\ pc[p] = "checked" /\ birth'[p] = births + 1
             /\ target[p] = path /\ cmd[p].lane = lane
    BY <1>1, <2>1, <2>4 DEF LaneInv
  <2>5. QED
    BY <1>3, <2>3, <2>4
<1>4. CASE UNCHANGED vars
  BY <1>2, <1>4 DEF vars, files, mind
<1>5. ASSUME NEW p \in Procs, Exit(p) PROVE LaneInv'
  BY <1>0, <1>2, <1>5 DEF Exit, Goto, files, TypeOK
<1>6. ASSUME NEW p \in Procs, Moves(p) PROVE LaneInv'
  <2> USE <1>0 DEF TypeOK, Goto
  <2>1. CASE CreateChecks(p)
    BY <2>1 DEF CreateChecks, Acceptable, validateNewLane, LaneInv, files
  <2>2. CASE AddWorktree(p)
    BY <1>3, <2>2 DEF AddWorktree, StepInv
  <2>3. CASE ApplySeeds(p)
    BY <1>2, <2>3 DEF ApplySeeds, mind
  <2>4. CASE LoadCreated(p) \/ StartPrepare(p) \/ Capture(p)
    BY <1>2, <2>4 DEF LoadCreated, StartPrepare, Load, Capture, files
  <2>5. CASE \/ WriteOutputs(p) \/ PublishPrepared(p) \/ GitRemove(p)
             \/ Cleanup(p) \/ Acquire(p)
    BY <1>2, <2>5 DEF WriteOutputs, PublishPrepared, GitRemove, Vanish,
                      Cleanup, Acquire, files, mind
  <2>6. QED
    BY <1>6, <2>1, <2>2, <2>3, <2>4, <2>5 DEF Moves
<1>7. CASE Users
  <2>1. ASSUME NEW path \in Paths, NEW lane \in Lanes, UserAdds(path, lane)
        PROVE  LaneInv'
    BY <1>3, <2>1 DEF UserAdds, mind
  <2>2. ASSUME NEW path \in Paths, UserRemoves(path) PROVE LaneInv'
    BY <1>2, <2>2 DEF UserRemoves, Vanish, mind
  <2>3. CASE UserEdits \/ \E lane \in Lanes : UserDeletesBranch(lane)
    BY <1>2, <2>3 DEF UserEdits, UserDeletesBranch, mind
  <2>4. QED
    BY <1>7, <2>1, <2>2, <2>3 DEF Users
<1>8. QED
  BY <1>4, <1>5, <1>6, <1>7, StepCases

\* A checkout that a remove has retired is not there again: a new one at its
\* path is a later birth.
LEMMA GoneInductive ==
    TypeInv /\ PlaceInv /\ GoneInv /\ [Next]_vars => GoneInv'
<1> SUFFICES ASSUME TypeInv, PlaceInv, GoneInv, [Next]_vars PROVE GoneInv'
  OBVIOUS
<1>0. TypeOK /\ StepInv
  BY DEF TypeInv
<1>1. /\ births \in Nat
      /\ \A p \in Procs : /\ birth[p] \in Nat /\ birth[p] <= births
                          /\ target[p] \in Places
  BY <1>0, PlacesAgree
<1> DEFINE Still(p) == /\ UNCHANGED <<target[p], birth[p], loaded[p]>>
                       /\ pc[p] \in {"wait", "locked"}
           Elsewhere(p) == \/ pc'[p] \notin {"wait", "locked"}
                           \/ loaded'[p] # NoAdapter
<1>2. ASSUME UNCHANGED born,
             \A path \in Places :
                 dir'[path] = "checkout" => dir[path] = "checkout",
             \A p \in Procs : Elsewhere(p) \/ Still(p)
      PROVE  GoneInv'
  BY <1>1, <1>2 DEF GoneInv
<1>3. ASSUME NEW path \in Paths, NEW lane, Checkout(path, lane),
             \A p \in Procs : Elsewhere(p) \/ Still(p)
      PROVE  GoneInv'
  <2>1. /\ born'[path] = births + 1
        /\ \A other \in Places : other # path =>
              born'[other] = born[other] /\ dir'[other] = dir[other]
    BY <1>0, <1>3, CheckoutBirth
  <2>2. QED
    BY <1>1, <1>3, <2>1 DEF GoneInv
<1>4. CASE UNCHANGED vars
  BY <1>2, <1>4 DEF vars, files, mind
<1>5. ASSUME NEW p \in Procs, Exit(p) PROVE GoneInv'
  BY <1>0, <1>2, <1>5 DEF Exit, Goto, files, TypeOK
<1>6. ASSUME NEW p \in Procs, Moves(p) PROVE GoneInv'
  <2> USE <1>0 DEF TypeOK, Goto
  <2>1. CASE CreateChecks(p) \/ Capture(p)
    BY <1>2, <2>1 DEF CreateChecks, Capture, files
  <2>2. CASE AddWorktree(p)
    BY <1>3, <2>2 DEF AddWorktree, StepInv
  <2>3. CASE ApplySeeds(p)
    BY <1>2, <2>3 DEF ApplySeeds, mind
  <2>4. CASE LoadCreated(p) \/ StartPrepare(p)
    BY <1>2, <2>4 DEF LoadCreated, StartPrepare, Load, files
  <2>5. CASE GitRemove(p)
    <3>1. dir'[target[p]] = "none" /\ UNCHANGED <<mind, born>>
      BY <2>5 DEF GitRemove, Vanish
    <3>2. \A path \in Places : path # target[p] => dir'[path] = dir[path]
      BY <2>5 DEF GitRemove, Vanish
    <3>3. \A q \in Procs : q # p => pc'[q] = pc[q]
      BY <2>5 DEF GitRemove
    <3>4. QED
      BY <1>1, <3>1, <3>2, <3>3 DEF GoneInv, mind
  <2>6. CASE WriteOutputs(p) \/ PublishPrepared(p) \/ Cleanup(p) \/ Acquire(p)
    BY <1>2, <2>6 DEF WriteOutputs, PublishPrepared, Cleanup, Acquire, files,
                      mind
  <2>7. QED
    BY <1>6, <2>1, <2>2, <2>3, <2>4, <2>5, <2>6 DEF Moves
<1>7. CASE Users
  <2>1. ASSUME NEW path \in Paths, NEW lane \in Lanes, UserAdds(path, lane)
        PROVE  GoneInv'
    BY <1>3, <2>1 DEF UserAdds, mind
  <2>2. ASSUME NEW path \in Paths, UserRemoves(path) PROVE GoneInv'
    BY <1>0, <1>2, <2>2 DEF UserRemoves, Vanish, mind, TypeOK
  <2>3. CASE UserEdits \/ \E lane \in Lanes : UserDeletesBranch(lane)
    BY <1>2, <2>3 DEF UserEdits, UserDeletesBranch, mind
  <2>4. QED
    BY <1>7, <2>1, <2>2, <2>3 DEF Users
<1>8. QED
  BY <1>4, <1>5, <1>6, <1>7, StepCases

-----------------------------------------------------------------------------
(* Under which app a checkout is known *)

\* What the lemmas below start from.
Known == TypeInv /\ PlaceInv /\ GoneInv /\ BlurInv

\* An adapter changes, and the history blurs if anything depends on it.
LEMMA AdapterChanges ==
    ASSUME Known, NEW path \in Places,
           UNCHANGED <<catalog, born, mind, retired>>,
           \A other \in Places : other # path => at'[other] = at[other],
           \A other \in Places :
               dir'[other] = "checkout" <=> dir[other] = "checkout",
           blurred \subseteq blurred',
           at'[path] # at[path] /\ DependedOn(born[path])
               => born[path] \in blurred',
           \A p \in Procs :
               /\ pc'[p] = "captured" <=> pc[p] = "captured"
               /\ Removing(p)' => Removing(p)
    PROVE  BlurInv'
<1> USE DEF mind
<1>1. TypeOK /\ PreparerInv /\ RowInv /\ NotedInv /\ RetiredInv
  BY DEF Known, TypeInv, BlurInv
<1>2. /\ \A row \in catalog : row.path \in Places
      /\ \A p \in Procs : target[p] \in Places
  BY <1>1, PlacesAgree DEF Known
<1>3. \A other \in Places :
         born[other] \notin blurred' /\ DependedOn(born[other])
             => at'[other] = at[other]
  OBVIOUS
<1>4. PreparerInv'
  <2>1. SUFFICES ASSUME NEW p \in Procs, loaded[p] # NoAdapter,
                        birth[p] \notin blurred'
                 PROVE  /\ Alive(target[p], birth[p])'
                        /\ HasApp(target[p], loaded[p].app)'
    BY DEF PreparerInv
  <2>2. Alive(target[p], birth[p]) /\ HasApp(target[p], loaded[p].app)
    BY <1>1, <2>1 DEF PreparerInv
  <2>3. DependedOn(birth[p])
    BY <2>1 DEF DependedOn, Preparing
  <2>4. at'[target[p]] = at[target[p]]
    BY <1>2, <1>3, <2>1, <2>2, <2>3 DEF Alive
  <2>5. QED
    BY <1>2, <2>2, <2>4 DEF Alive, HasApp
<1>5. RowInv'
  <2>1. SUFFICES ASSUME NEW row \in catalog, row.born \notin blurred',
                        row.born = born[row.path],
                        dir'[row.path] = "checkout"
                            \/ at'[row.path] # NoAdapter
                 PROVE  /\ dir'[row.path] = "checkout"
                        /\ HasApp(row.path, row.app)'
    BY DEF RowInv
  <2>2. DependedOn(row.born)
    BY DEF DependedOn
  <2>3. at'[row.path] = at[row.path]
    BY <1>2, <1>3, <2>1, <2>2
  <2>4. dir[row.path] = "checkout" /\ HasApp(row.path, row.app)
    BY <1>1, <1>2, <2>1, <2>3 DEF RowInv
  <2>5. QED
    BY <1>2, <2>3, <2>4 DEF HasApp
<1>6. NotedInv'
  <2>1. SUFFICES ASSUME NEW p \in Procs, Removing(p)',
                        birth[p] \notin blurred'
                 PROVE  /\ \A row \in catalog :
                              row.born = birth[p] => row.app = adapter[p].app
                        /\ \A q \in Procs :
                              loaded[q] # NoAdapter /\ birth[q] = birth[p]
                                  => loaded[q].app = adapter[p].app
                        /\ pc'[p] = "captured" /\ Alive(target[p], birth[p])'
                              => HasApp(target[p], adapter[p].app)'
    BY DEF NotedInv
  <2>2. Removing(p) /\ birth[p] \notin blurred
    BY <2>1
  <2>3. ASSUME pc'[p] = "captured", Alive(target[p], birth[p])'
        PROVE  HasApp(target[p], adapter[p].app)'
    <3>1. pc[p] = "captured" /\ Alive(target[p], birth[p])
      BY <1>2, <2>3 DEF Alive
    <3>2. HasApp(target[p], adapter[p].app)
      BY <1>1, <2>2, <3>1 DEF NotedInv
    <3>3. DependedOn(birth[p])
      BY <3>1 DEF DependedOn
    <3>4. at'[target[p]] = at[target[p]]
      BY <1>2, <1>3, <2>1, <3>1, <3>3 DEF Alive
    <3>5. QED
      BY <3>2, <3>4 DEF HasApp
  <2>4. QED
    BY <1>1, <2>2, <2>3 DEF NotedInv
<1>7. RetiredInv'
  BY <1>1 DEF RetiredInv, RetiredUnlessBlurred, Alive
<1>8. QED
  BY <1>4, <1>5, <1>6, <1>7 DEF BlurInv

\* A checkout goes, and the history blurs if somebody is preparing it.
LEMMA CheckoutGoes ==
    ASSUME Known, NEW path \in Places, Vanish(path),
           UNCHANGED <<catalog, mind, retired>>,
           \A p \in Procs :
               /\ pc'[p] = "captured" => pc[p] = "captured"
               /\ Removing(p)' => Removing(p)
    PROVE  BlurInv'
<1> USE DEF mind
<1>1. TypeOK /\ PreparerInv /\ RowInv /\ NotedInv /\ RetiredInv
  BY DEF Known, TypeInv, BlurInv
<1>2. /\ \A row \in catalog : row.path \in Places
      /\ \A p \in Procs : target[p] \in Places
  BY <1>1, PlacesAgree DEF Known
<1>3. /\ dir'[path] = "none" /\ at'[path] = NoAdapter /\ born' = born
      /\ \A other \in Places : other # path =>
            dir'[other] = dir[other] /\ at'[other] = at[other]
      /\ blurred \subseteq blurred'
      /\ Preparing(born[path]) => born[path] \in blurred'
  BY <1>1 DEF Vanish, BlurIf, TypeOK
<1>4. PreparerInv'
  <2>1. SUFFICES ASSUME NEW p \in Procs, loaded[p] # NoAdapter,
                        birth[p] \notin blurred'
                 PROVE  /\ Alive(target[p], birth[p])'
                        /\ HasApp(target[p], loaded[p].app)'
    BY DEF PreparerInv
  <2>2. Alive(target[p], birth[p]) /\ HasApp(target[p], loaded[p].app)
    BY <1>1, <1>3, <2>1 DEF PreparerInv
  <2>3. target[p] # path
    BY <1>3, <2>1, <2>2 DEF Alive, Preparing
  <2>4. QED
    BY <1>2, <1>3, <2>2, <2>3 DEF Alive, HasApp
<1>5. RowInv'
  BY <1>1, <1>2, <1>3 DEF RowInv, HasApp
<1>6. NotedInv'
  BY <1>1, <1>2, <1>3 DEF NotedInv, Alive, HasApp
<1>7. RetiredInv'
  BY <1>1, <1>3 DEF RetiredInv, RetiredUnlessBlurred, Alive
<1>8. QED
  BY <1>4, <1>5, <1>6, <1>7 DEF BlurInv

\* Git makes a checkout: nothing was known of its birth.
LEMMA CheckoutComes ==
    ASSUME Known, NEW path \in Paths, NEW lane, Checkout(path, lane),
           UNCHANGED <<catalog, retired, blurred, target, adapter, loaded>>,
           \A p \in Procs :
               /\ pc'[p] = "captured" => pc[p] = "captured"
               /\ Removing(p)' => Removing(p)
               /\ loaded[p] # NoAdapter \/ Removing(p) => birth'[p] = birth[p]
    PROVE  BlurInv'
<1>1. /\ TypeOK /\ PlaceInv /\ PreparerInv /\ RowInv /\ NotedInv
      /\ RetiredInv
  BY DEF Known, TypeInv, BlurInv
<1>2. /\ births \in Nat
      /\ \A row \in catalog : /\ row.path \in Places
                              /\ row.born \in Nat /\ row.born <= births
      /\ \A p \in Procs : /\ target[p] \in Places
                          /\ birth[p] \in Nat /\ birth[p] <= births
  BY <1>1, PlacesAgree
<1>3. /\ dir[path] = "none" /\ born'[path] = births + 1
      /\ \A other \in Places : other # path =>
            /\ born'[other] = born[other] /\ dir'[other] = dir[other]
            /\ at'[other] = at[other]
  BY <1>1, CheckoutBirth
<1>4. PreparerInv'
  BY <1>1, <1>2, <1>3 DEF PreparerInv, Alive, HasApp
<1>5. RowInv'
  BY <1>1, <1>2, <1>3 DEF RowInv, HasApp
<1>6. NotedInv'
  <2>1. SUFFICES ASSUME NEW p \in Procs, Removing(p)', birth'[p] \notin blurred
                 PROVE  /\ \A row \in catalog :
                              row.born = birth[p] => row.app = adapter[p].app
                        /\ \A q \in Procs :
                              loaded[q] # NoAdapter /\ birth[q] = birth[p]
                                  => loaded[q].app = adapter[p].app
                        /\ pc'[p] = "captured" /\ Alive(target[p], birth[p])'
                              => HasApp(target[p], adapter[p].app)'
    BY DEF NotedInv
  <2>2. Removing(p) /\ birth'[p] = birth[p]
    BY <2>1
  <2>3. Alive(target[p], birth[p])' => target[p] # path
    BY <1>2, <1>3, <2>2 DEF Alive
  <2>4. QED
    BY <1>1, <1>2, <1>3, <2>1, <2>2, <2>3 DEF NotedInv, Alive, HasApp
<1>7. RetiredInv'
  <2>1. \A b \in retired : b \in Nat /\ b <= births
    BY <1>1, SomeBirths DEF PlaceInv, TypeOK, Births
  <2>2. QED
    BY <1>1, <1>2, <1>3, <2>1 DEF RetiredInv, RetiredUnlessBlurred, Alive
<1>8. QED
  BY <1>4, <1>5, <1>6, <1>7 DEF BlurInv

\* A prepare begins, typed or as the end of a create: it reads what the rows
\* of the checkout, and whoever is removing it, have by, or what is left of a
\* checkout, which blurs the history.
LEMMA PrepareBegins ==
    ASSUME Known, NEW p \in Procs,
           UNCHANGED <<catalog, files, retired>>, blurred \subseteq blurred',
           dir[target'[p]] # "checkout" => birth'[p] \in blurred',
           at[target'[p]] # NoAdapter,
           loaded'[p] = at[target'[p]], birth'[p] = born[target'[p]],
           target'[p] \in Places, ~Removing(p)',
           \A q \in Procs : q # p =>
               UNCHANGED <<pc[q], target[q], loaded[q], birth[q], adapter[q]>>
    PROVE  BlurInv'
<1>1. /\ TypeOK /\ PlaceInv /\ GoneInv
      /\ PreparerInv /\ RowInv /\ NotedInv /\ RetiredInv
  BY DEF Known, TypeInv, BlurInv
<1>2. UNCHANGED <<dir, at, born>>
  BY DEF files
<1>3. PreparerInv'
  BY <1>1, <1>2 DEF PreparerInv, Alive, HasApp
<1>4. RowInv'
  BY <1>1, <1>2 DEF RowInv, HasApp
<1>5. NotedInv'
  <2>1. SUFFICES ASSUME NEW q \in Procs, q # p, Removing(q),
                        birth[q] \notin blurred', birth[q] = birth'[p]
                 PROVE  loaded'[p].app = adapter[q].app
    BY <1>1, <1>2 DEF NotedInv, Removing, Alive, HasApp
  <2>2. birth[q] # 0
    BY <1>1, <2>1 DEF PlaceInv
  <2>3. target[q] = target'[p]
    BY <1>1, <2>1, <2>2, PlacesAgree
  <2>4. birth[q] \in Nat
    BY <1>1, PlacesAgree
  <2>5. pc[q] = "captured"
    BY <1>1, <2>1, <2>3, <2>4 DEF GoneInv, Removing
  <2>6. HasApp(target[q], adapter[q].app)
    BY <1>1, <2>1, <2>3, <2>5 DEF NotedInv, Alive
  <2>7. QED
    BY <2>3, <2>6 DEF HasApp
<1>6. RetiredInv'
  BY <1>1, <1>2 DEF RetiredInv, RetiredUnlessBlurred, Alive
<1>7. QED
  BY <1>3, <1>4, <1>5, <1>6 DEF BlurInv

\* A remove notes the app and the path of the checkout: those of its rows.
LEMMA CaptureKeepsBlur ==
    ASSUME Known, NEW p \in Procs, Capture(p)
    PROVE  BlurInv'
<1>1. /\ TypeOK /\ StepInv /\ PlaceInv
      /\ PreparerInv /\ RowInv /\ NotedInv /\ RetiredInv
  BY DEF Known, TypeInv, BlurInv
<1>2. PICK path \in Places :
         /\ dir[path] # "none" /\ target'[p] = path
         /\ adapter'[p] = capturedAdapter(path) /\ birth'[p] = born[path]
         /\ BlurIf(at[path] = NoAdapter, path)
  BY <1>1, CommandTypes, PlaceTypes DEF Capture, TypeOK
<1>3. /\ blurred \subseteq blurred'
      /\ at[path] = NoAdapter => born[path] \in blurred'
  BY <1>2 DEF BlurIf
<1>4. /\ UNCHANGED <<catalog, dir, at, born, loaded, retired>>
      /\ pc'[p] = "captured" /\ loaded[p] = NoAdapter
      /\ \A q \in Procs : q # p => /\ pc'[q] = pc[q] /\ birth'[q] = birth[q]
                                   /\ target'[q] = target[q]
                                   /\ adapter'[q] = adapter[q]
  BY <1>1 DEF Capture, files, Goto, TypeOK, StepInv
<1>5. PreparerInv'
  BY <1>1, <1>3, <1>4 DEF PreparerInv, Alive, HasApp
<1>6. RowInv'
  BY <1>1, <1>3, <1>4 DEF RowInv, HasApp
<1>7. NotedInv'
  <2>1. ASSUME born[path] \notin blurred'
        PROVE  /\ at[path] # NoAdapter /\ adapter'[p] = at[path]
               /\ \A row \in catalog :
                     row.born = born[path] => row.app = at[path].app
               /\ \A q \in Procs :
                     loaded[q] # NoAdapter /\ birth[q] = born[path]
                         => loaded[q].app = at[path].app
    <3>1. at[path] # NoAdapter /\ adapter'[p] = at[path]
      BY <1>2, <1>3, <2>1 DEF capturedAdapter
    <3>2. ASSUME NEW row \in catalog, row.born = born[path]
          PROVE  row.app = at[path].app
      <4>1. row.path = path
        BY <1>1, <3>2, PlacesAgree
      <4>2. QED
        BY <1>1, <1>3, <2>1, <3>1, <3>2, <4>1 DEF RowInv, HasApp
    <3>3. ASSUME NEW q \in Procs, loaded[q] # NoAdapter,
                 birth[q] = born[path]
          PROVE  loaded[q].app = at[path].app
      <4>1. birth[q] # 0
        BY <1>1, <3>3 DEF PlaceInv
      <4>2. target[q] = path
        BY <1>1, <3>3, <4>1, PlacesAgree
      <4>3. QED
        BY <1>1, <1>3, <2>1, <3>3, <4>2 DEF PreparerInv, HasApp
    <3>4. QED
      BY <3>1, <3>2, <3>3
  <2>2. ASSUME NEW q \in Procs, Removing(q)', birth'[q] \notin blurred'
        PROVE  /\ \A row \in catalog :
                     row.born = birth'[q] => row.app = adapter'[q].app
               /\ \A r \in Procs :
                     loaded[r] # NoAdapter /\ birth'[r] = birth'[q]
                         => loaded[r].app = adapter'[q].app
               /\ pc'[q] = "captured" /\ Alive(target[q], birth[q])'
                     => HasApp(target[q], adapter[q].app)'
    <3>1. CASE q = p
      BY <1>2, <1>4, <2>1, <2>2, <3>1 DEF HasApp
    <3>2. CASE q # p
      BY <1>1, <1>3, <1>4, <2>2, <3>2 DEF NotedInv, Removing, Alive, HasApp
    <3>3. QED
      BY <3>1, <3>2
  <2>3. QED
    BY <1>4, <2>2 DEF NotedInv
<1>8. RetiredInv'
  BY <1>1, <1>3, <1>4 DEF RetiredInv, RetiredUnlessBlurred, Alive
<1>9. QED
  BY <1>5, <1>6, <1>7, <1>8 DEF BlurInv

\* A prepare publishes its row: the one of a checkout that is still there.
LEMMA PublishKeepsBlur ==
    ASSUME Known, NEW p \in Procs, PublishPrepared(p)
    PROVE  BlurInv'
<1>1. /\ TypeOK /\ StepInv /\ PlaceInv
      /\ PreparerInv /\ RowInv /\ NotedInv /\ RetiredInv
  BY DEF Known, TypeInv, BlurInv
<1>2. /\ UNCHANGED <<dir, at, born, mind, retired, blurred>>
      /\ loaded[p] # NoAdapter
      /\ \A row \in catalog' : row \in catalog \/ row = Published(p)
  BY <1>1 DEF PublishPrepared, Published, files, history, StepInv
<1>3. /\ \A q \in Procs : Removing(q)' => Removing(q)
      /\ \A q \in Procs : pc'[q] = "captured" => pc[q] = "captured"
  BY <1>1, <1>2 DEF PublishPrepared, Goto, Removing, TypeOK, mind
<1>4. birth[p] \notin blurred =>
          /\ Alive(target[p], birth[p]) /\ HasApp(target[p], loaded[p].app)
          /\ birth[p] \notin retired
  BY <1>1, <1>2, PlacesAgree DEF PreparerInv, RetiredInv
<1>5. PreparerInv'
  BY <1>1, <1>2 DEF PreparerInv, Alive, HasApp, mind
<1>6. RowInv'
  BY <1>1, <1>2, <1>4 DEF RowInv, HasApp, Alive, Published, mind
<1>7. NotedInv'
  BY <1>1, <1>2, <1>3 DEF NotedInv, Alive, HasApp, Published, mind
<1>8. RetiredInv'
  BY <1>1, <1>2, <1>4
     DEF RetiredInv, RetiredUnlessBlurred, Alive, Published
<1>9. QED
  BY <1>5, <1>6, <1>7, <1>8 DEF BlurInv

\* A cleanup takes every row of the checkout that it retires.
LEMMA CleanupKeepsBlur ==
    ASSUME Known, NEW p \in Procs, Cleanup(p)
    PROVE  BlurInv'
<1>1. /\ TypeOK /\ StepInv /\ PlaceInv /\ GoneInv
      /\ PreparerInv /\ RowInv /\ NotedInv /\ RetiredInv
  BY DEF Known, TypeInv, BlurInv
<1>2. /\ UNCHANGED <<dir, at, born, mind, blurred>>
      /\ pc[p] = "locked" /\ loaded[p] = NoAdapter
      /\ retired' = retired \cup {birth[p]}
      /\ \A row \in catalog' :
            /\ row \in catalog
            /\ ~(row.app = adapter[p].app /\ row.path = target[p])
  BY DEF Cleanup, files
<1>3. /\ \A q \in Procs : Removing(q)' => Removing(q)
      /\ \A q \in Procs : pc'[q] = "captured" => pc[q] = "captured"
  BY <1>1, <1>2 DEF Cleanup, Goto, Removing, TypeOK, mind
<1>4. PreparerInv'
  BY <1>1, <1>2 DEF PreparerInv, Alive, HasApp, mind
<1>5. RowInv'
  BY <1>1, <1>2 DEF RowInv, HasApp
<1>6. NotedInv'
  BY <1>1, <1>2, <1>3 DEF NotedInv, Alive, HasApp, mind
<1>7. RetiredInv'
  <2>1. ASSUME NEW path \in Places, Alive(path, birth[p]) PROVE FALSE
    <3>1. birth[p] # 0
      BY <1>1, <2>1 DEF PlaceInv, Alive
    <3>2. path = target[p]
      BY <1>1, <2>1, <3>1, PlacesAgree DEF Alive
    <3>3. birth[p] \in Nat
      BY <1>1, PlacesAgree
    <3>4. QED
      BY <1>1, <1>2, <2>1, <3>2, <3>3 DEF GoneInv, Alive
  <2>2. ASSUME NEW row \in catalog', row.born = birth[p],
               row.born \notin blurred
        PROVE  FALSE
    <3>1. row \in catalog /\ row.path = target[p]
      BY <1>1, <1>2, <2>2, PlacesAgree
    <3>2. row.app = adapter[p].app
      BY <1>1, <1>2, <2>2, <3>1 DEF NotedInv, Removing
    <3>3. QED
      BY <1>2, <3>1, <3>2
  <2>3. QED
    BY <1>1, <1>2, <2>1, <2>2 DEF RetiredInv, RetiredUnlessBlurred, Alive
<1>8. QED
  BY <1>4, <1>5, <1>6, <1>7 DEF BlurInv

\* A command ends: it prepares and removes nothing any more.
LEMMA ExitKeepsBlur ==
    ASSUME Known, NEW p \in Procs, Exit(p)
    PROVE  BlurInv'
<1>1. TypeOK /\ PreparerInv /\ RowInv /\ NotedInv /\ RetiredInv
  BY DEF Known, TypeInv, BlurInv
<1>2. /\ UNCHANGED <<catalog, dir, at, born, retired, blurred>>
      /\ loaded'[p] = NoAdapter /\ pc'[p] = "idle"
      /\ \A q \in Procs : q # p => /\ pc'[q] = pc[q] /\ birth'[q] = birth[q]
                                   /\ target'[q] = target[q]
                                   /\ adapter'[q] = adapter[q]
                                   /\ loaded'[q] = loaded[q]
  BY <1>1 DEF Exit, Goto, files, history, TypeOK
<1>3. PreparerInv'
  BY <1>1, <1>2 DEF PreparerInv, Alive, HasApp
<1>4. RowInv'
  BY <1>1, <1>2 DEF RowInv, HasApp
<1>5. NotedInv'
  BY <1>1, <1>2 DEF NotedInv, Removing, Alive, HasApp
<1>6. RetiredInv'
  BY <1>1, <1>2 DEF RetiredInv, RetiredUnlessBlurred, Alive
<1>7. QED
  BY <1>3, <1>4, <1>5, <1>6 DEF BlurInv

LEMMA BlurInductive == Known /\ [Next]_vars => BlurInv'
<1> SUFFICES ASSUME Known, [Next]_vars PROVE BlurInv'
  OBVIOUS
<1>0. TypeOK /\ StepInv
  BY DEF Known, TypeInv
<1>1. CASE UNCHANGED vars
  BY <1>1 DEF vars, files, mind, history, Known, BlurInv, PreparerInv, RowInv,
              NotedInv, Removing, RetiredInv, RetiredUnlessBlurred, Alive,
              HasApp
<1>2. ASSUME NEW p \in Procs, Moves(p) PROVE BlurInv'
  <2> USE <1>0 DEF TypeOK, Goto
  <2>1. CASE CreateChecks(p)
    <3>1. /\ UNCHANGED <<catalog, dir, at, born, retired, blurred, loaded,
                         birth>>
          /\ loaded[p] = NoAdapter /\ pc'[p] = "checked"
          /\ \A q \in Procs : q # p => /\ pc'[q] = pc[q]
                                       /\ target'[q] = target[q]
                                       /\ adapter'[q] = adapter[q]
      BY <2>1 DEF CreateChecks, files, history, StepInv
    <3>2. PreparerInv'
      BY <3>1 DEF Known, BlurInv, PreparerInv, Alive, HasApp
    <3>3. RowInv'
      BY <3>1 DEF Known, BlurInv, RowInv, HasApp
    <3>4. NotedInv'
      BY <3>1 DEF Known, BlurInv, NotedInv, Removing, Alive, HasApp
    <3>5. RetiredInv'
      BY <3>1 DEF Known, BlurInv, RetiredInv, RetiredUnlessBlurred, Alive
    <3>6. QED
      BY <3>2, <3>3, <3>4, <3>5 DEF BlurInv
  <2>2. CASE AddWorktree(p)
    <3>1. Checkout(target[p], cmd[p].lane) /\ target[p] \in Paths
      BY <2>2 DEF AddWorktree, StepInv
    <3>2. /\ UNCHANGED <<catalog, retired, blurred, target, adapter, loaded>>
          /\ pc[p] = "checked" /\ pc'[p] = "added" /\ loaded[p] = NoAdapter
          /\ \A q \in Procs : q # p =>
                pc'[q] = pc[q] /\ birth'[q] = birth[q]
      BY <2>2 DEF AddWorktree, history, StepInv
    <3>3. QED
      BY <3>1, <3>2, CheckoutComes DEF Removing
  <2>3. CASE ApplySeeds(p)
    <3>1. /\ target[p] \in Places
          /\ UNCHANGED <<catalog, born, mind, retired>>
          /\ \A other \in Places : other # target[p] => at'[other] = at[other]
          /\ \A other \in Places :
                dir'[other] = "checkout" <=> dir[other] = "checkout"
      BY <2>3 DEF ApplySeeds
    <3>2. /\ blurred \subseteq blurred'
          /\ at'[target[p]] # at[target[p]] /\ DependedOn(born[target[p]])
                => born[target[p]] \in blurred'
      BY <2>3 DEF ApplySeeds, BlurIf
    <3>3. \A q \in Procs : /\ pc'[q] = "captured" <=> pc[q] = "captured"
                           /\ Removing(q)' => Removing(q)
      BY <2>3 DEF ApplySeeds, Removing, mind
    <3>4. QED
      BY <3>1, <3>2, <3>3, AdapterChanges
  <2>4. CASE LoadCreated(p) \/ StartPrepare(p)
    <3>1. PICK path \in Paths : Load(p, path)
      BY <2>4, CommandTypes DEF LoadCreated, StartPrepare, StepInv
    <3>2. /\ UNCHANGED <<catalog, files, retired>> /\ pc'[p] = "wait"
          /\ \A q \in Procs : q # p => UNCHANGED pc[q]
      BY <2>4 DEF LoadCreated, StartPrepare
    <3>3. /\ Found(path) \in Places /\ target'[p] = Found(path)
          /\ at[target'[p]] # NoAdapter
          /\ loaded'[p] = at[target'[p]] /\ birth'[p] = born[target'[p]]
          /\ \A q \in Procs : q # p =>
                UNCHANGED <<target[q], loaded[q], birth[q], adapter[q]>>
      BY <3>1, FoundType DEF Load
    <3>4. /\ blurred \subseteq blurred'
          /\ dir[target'[p]] # "checkout" => birth'[p] \in blurred'
      BY <3>1, <3>3 DEF Load, BlurIf
    <3>5. ~Removing(p)'
      BY <3>2, <3>3 DEF Removing
    <3>6. QED
      BY <3>2, <3>3, <3>4, <3>5, PrepareBegins
  <2>5. CASE WriteOutputs(p) \/ Acquire(p)
    <3>1. /\ UNCHANGED <<catalog, at, born, mind, retired, blurred>>
          /\ \A other \in Places :
                dir'[other] = "checkout" <=> dir[other] = "checkout"
          /\ target[p] \in Places
      BY <2>5 DEF WriteOutputs, Acquire, files, history
    <3>2. \A q \in Procs : /\ pc'[q] = "captured" <=> pc[q] = "captured"
                           /\ Removing(q)' => Removing(q)
      BY <2>5 DEF WriteOutputs, Acquire, Removing, mind
    <3>3. QED
      BY <3>1, <3>2, AdapterChanges
  <2>6. CASE GitRemove(p)
    <3>1. /\ Vanish(target[p]) /\ target[p] \in Places
          /\ UNCHANGED <<catalog, mind, retired>>
      BY <2>6 DEF GitRemove
    <3>2. \A q \in Procs : /\ pc'[q] = "captured" => pc[q] = "captured"
                           /\ Removing(q)' => Removing(q)
      BY <2>6 DEF GitRemove, Removing, mind
    <3>3. QED
      BY <3>1, <3>2, CheckoutGoes
  <2>7. CASE Capture(p) \/ PublishPrepared(p) \/ Cleanup(p)
    BY <2>7, CaptureKeepsBlur, PublishKeepsBlur, CleanupKeepsBlur
  <2>8. QED
    BY <1>2, <2>1, <2>2, <2>3, <2>4, <2>5, <2>6, <2>7 DEF Moves
<1>3. CASE Users
  <2>1. ASSUME UNCHANGED <<pc, mind>>
        PROVE  \A p \in Procs : /\ pc'[p] = "captured" <=> pc[p] = "captured"
                                /\ Removing(p)' => Removing(p)
    BY <2>1 DEF Removing, mind
  <2>2. ASSUME NEW path \in Paths, NEW lane \in Lanes, UserAdds(path, lane)
        PROVE  BlurInv'
    BY <2>1, <2>2, CheckoutComes DEF UserAdds, mind, history
  <2>3. ASSUME NEW path \in Paths, UserRemoves(path) PROVE BlurInv'
    BY <2>1, <2>3, PlaceTypes, CheckoutGoes DEF UserRemoves
  <2>4. ASSUME NEW lane \in Lanes, UserDeletesBranch(lane) PROVE BlurInv'
    BY <2>1, <2>4, PlaceTypes, AdapterChanges DEF UserDeletesBranch, history
  <2>5. CASE UserEdits
    <3>1. /\ UNCHANGED <<catalog, dir, born, pc, mind, retired>>
          /\ \/ UNCHANGED <<at, blurred>>
             \/ \E path \in Places, a \in InitialAdapters \cup {NoAdapter} :
                   /\ at' = [at EXCEPT ![path] = a]
                   /\ BlurIf(DependedOn(born[path]), path)
      BY <2>5 DEF UserEdits
    <3>2. CASE UNCHANGED <<at, blurred>>
      BY <2>1, <3>1, <3>2, PlaceTypes, AdapterChanges
    <3>3. ASSUME NEW path \in Places, NEW a, at' = [at EXCEPT ![path] = a],
                 BlurIf(DependedOn(born[path]), path)
          PROVE  BlurInv'
      <4>1. /\ \A other \in Places : other # path => at'[other] = at[other]
            /\ blurred \subseteq blurred'
            /\ DependedOn(born[path]) => born[path] \in blurred'
        BY <1>0, <3>3 DEF BlurIf, TypeOK
      <4>2. QED
        BY <2>1, <3>1, <4>1, AdapterChanges
    <3>4. QED
      BY <3>1, <3>2, <3>3
  <2>6. QED
    BY <1>3, <2>2, <2>3, <2>4, <2>5 DEF Users
<1>4. QED
  BY <1>1, <1>2, <1>3, ExitKeepsBlur, StepCases

-----------------------------------------------------------------------------
(* What is published stays until the command has reported *)

\* Only the holder of the lock writes the catalog.
LEMMA PublishedInductive ==
    TypeInv /\ PublishedInv /\ [Next]_vars => PublishedInv'
<1> SUFFICES ASSUME TypeInv, PublishedInv, [Next]_vars PROVE PublishedInv'
  OBVIOUS
<1> USE DEF TypeInv, TypeOK, Goto
<1>1. ASSUME catalog' = catalog,
             \A p \in Procs :
                 \/ pc'[p] # "closing" \/ loaded'[p] = NoAdapter
                 \/ /\ pc[p] = "closing"
                    /\ UNCHANGED <<loaded[p], target[p], birth[p], mode[p]>>
      PROVE  PublishedInv'
  BY <1>1 DEF PublishedInv, Published
<1>2. CASE UNCHANGED vars
  BY <1>1, <1>2 DEF vars, mind
<1>3. ASSUME NEW p \in Procs, Exit(p) PROVE PublishedInv'
  BY <1>1, <1>3 DEF Exit
<1>4. ASSUME NEW p \in Procs, Moves(p) PROVE PublishedInv'
  <2>1. CASE CreateChecks(p) \/ AddWorktree(p) \/ ApplySeeds(p) \/ Capture(p)
    BY <1>1, <2>1 DEF CreateChecks, AddWorktree, ApplySeeds, Capture, mind
  <2>2. CASE LoadCreated(p) \/ StartPrepare(p)
    BY <1>1, <2>2 DEF LoadCreated, StartPrepare, Load
  <2>3. CASE WriteOutputs(p) \/ GitRemove(p) \/ Acquire(p)
    BY <1>1, <2>3 DEF WriteOutputs, GitRemove, Acquire, mind
  <2>4. CASE PublishPrepared(p)
    <3>1. Published(p) \in catalog' /\ UNCHANGED mind
      BY <2>4 DEF PublishPrepared, Published
    <3>2. \A q \in Procs : pc'[q] = "closing" => q = p
      BY <2>4 DEF PublishPrepared, StepInv
    <3>3. QED
      BY <3>1, <3>2 DEF PublishedInv, Published, mind
  <2>5. CASE Cleanup(p)
    <3>1. UNCHANGED mind /\ loaded[p] = NoAdapter
      BY <2>5 DEF Cleanup
    <3>2. \A q \in Procs : pc'[q] = "closing" => q = p
      BY <2>5 DEF Cleanup, StepInv
    <3>3. QED
      BY <3>1, <3>2 DEF PublishedInv, mind
  <2>6. QED
    BY <1>4, <2>1, <2>2, <2>3, <2>4, <2>5 DEF Moves
<1>5. CASE Users
  BY <1>1, <1>5
     DEF Users, UserAdds, UserRemoves, UserDeletesBranch, UserEdits, mind
<1>6. QED
  BY <1>2, <1>3, <1>4, <1>5, StepCases

-----------------------------------------------------------------------------
(* The theorems *)

LEMMA InvInitially == Init => Inv
<1> SUFFICES ASSUME Init PROVE Inv
  OBVIOUS
<1> USE DEF Init
<1>1. TypeOK
  <2>1. branches \in SUBSET Lanes /\ births \in Births /\ 0 \in Births
    BY BranchesAssumption, SomeBirths DEF Births
  <2>2. head \in Adapters
    BY AdaptersAssumption
  <2>3. /\ dir \in [Places -> {"none", "checkout", "debris"}]
        /\ at \in [Places -> Adapters \cup {NoAdapter}]
        /\ born \in [Places -> Births]
    BY <2>1, <2>2
  <2>4. QED
    BY <2>1, <2>2, <2>3, PlaceTypes, LanesAssumption, SomeBirths
       DEF TypeOK, Steps, Modes
<1>2. StepInv /\ LaneInv /\ GoneInv /\ PublishedInv
  BY DEF StepInv, LaneInv, GoneInv, PublishedInv
<1>3. PlaceInv
  <2>1. \A x \in Placed : x[1] = 0 \/ x = <<1, Main>>
    BY DEF Placed
  <2>2. \A path \in Places :
           dir[path] # "none" \/ at[path] # NoAdapter => path = Main
    OBVIOUS
  <2>3. born[Main] = 1
    BY PlaceTypes
  <2>4. QED
    BY <2>1, <2>2, <2>3 DEF PlaceInv
<1>4. BlurInv
  BY DEF BlurInv, PreparerInv, RowInv, NotedInv, Removing, RetiredInv,
         RetiredUnlessBlurred
<1>5. QED
  BY <1>1, <1>2, <1>3, <1>4 DEF Inv

LEMMA InvInductive == Inv /\ [Next]_vars => Inv'
BY TypeInductive, StepInductive, PlaceInductive, LaneInductive,
   GoneInductive, BlurInductive, PublishedInductive DEF Inv, TypeInv, Known

LEMMA Invariance == Spec => []Inv
BY InvInitially, InvInductive, PTL DEF Spec

\* Every variable keeps its type, for any lanes, paths, apps and adapters.
THEOREM TypeCorrect == Spec => []TypeOK
<1>1. Inv => TypeOK
  BY DEF Inv
<1>2. QED
  BY <1>1, Invariance, PTL

\* After a remove has cleaned up, no row of the checkout it retired is left,
\* unless its app changed, or it was being prepared while it went, or what was
\* left at its path was: whatever else was removed, made anew, edited or killed
\* meanwhile.
THEOREM RetiredRowsGo == Spec => []RetiredUnlessBlurred
<1>1. Inv => RetiredUnlessBlurred
  BY DEF Inv, BlurInv, RetiredInv
<1>2. QED
  BY <1>1, Invariance, PTL

\* The cleanup of a remove never takes rows of a checkout that is there, but
\* for one made at the path after the remove had noted what it would take.
THEOREM LiveRowsSafe == Spec => LiveRowsStay
<1>1. ASSUME Inv, NEW p \in Procs, Cleanup(p), NEW row \in catalog \ catalog',
             Live(row)
      PROVE  row.born > birth[p]
  <2>1. row.path = target[p] /\ pc[p] = "locked" /\ loaded[p] = NoAdapter
    BY <1>1 DEF Cleanup
  <2>2. birth[p] < born[target[p]] /\ born[target[p]] = row.born
    BY <1>1, <2>1 DEF Inv, GoneInv, Live
  <2>3. birth[p] \in Nat /\ row.born \in Nat
    BY <1>1, PlacesAgree DEF Inv
  <2>4. QED
    BY <2>2, <2>3
<1>2. Inv /\ [Next]_vars =>
        [\A p \in Procs :
            Cleanup(p) =>
                \A row \in catalog \ catalog' :
                    Live(row) => row.born > birth[p]]_vars
  BY <1>1
<1>3. QED
  BY <1>2, Invariance, PTL DEF Spec, LiveRowsStay

\* A create or a prepare that reports success has its row in the catalog, the
\* one with the app, the mode and the checkout that it read: the caller's own
\* one, if there was none at the path.
THEOREM SuccessIsRegistered == Spec => CreatedIsRegistered
<1> DEFINE Registered(p) ==
        Succeed(p) /\ cmd[p].op \in {"create", "prepare"} =>
            [app |-> loaded[p].app, path |-> target[p], born |-> birth[p],
             mode |-> mode[p]] \in catalog
<1>1. ASSUME Inv, NEW p \in Procs PROVE Registered(p)
  <2>1. SUFFICES ASSUME Succeed(p), cmd[p].op \in {"create", "prepare"}
                 PROVE  Published(p) \in catalog
    BY DEF Published
  <2>2. loaded[p] # NoAdapter
    BY <1>1, <2>1 DEF Inv, StepInv, Succeed
  <2>3. QED
    BY <1>1, <2>1, <2>2 DEF Inv, PublishedInv, Succeed
<1>2. Inv /\ [Next]_vars => [\A p \in Procs : Registered(p)]_vars
  BY <1>1
<1>3. QED
  BY <1>2, Invariance, PTL DEF Spec, CreatedIsRegistered

\* A new lane is prepared as a dev lane, unless its adapter is not the one it
\* was checked against, or the checkout at its path is another.
THEOREM NewLanesAreDev == Spec => DevIfUnedited
<1> DEFINE Dev(p) ==
        LoadCreated(p) /\ birth'[p] = birth[p] /\ loaded'[p] = adapter[p] =>
            mode'[p] = "dev"
<1>1. ASSUME Inv, NEW p \in Procs PROVE Dev(p)
  <2>1. SUFFICES ASSUME LoadCreated(p), birth'[p] = birth[p],
                        loaded'[p] = adapter[p]
                 PROVE  mode'[p] = "dev"
    OBVIOUS
  <2>2. /\ pc[p] = "seeded" /\ target[p] \in Paths /\ Load(p, target[p])
        /\ TypeOK /\ LaneInv
    BY <1>1, <2>1 DEF LoadCreated, Inv, StepInv
  <2>3. CASE dir[target[p]] = "checkout"
    <3>1. /\ adapter[p] = at[target[p]] /\ birth[p] = born[target[p]]
          /\ mode'[p] = deriveMode(at[target[p]], on[target[p]])
      BY <2>1, <2>2, <2>3 DEF Load, Found, TypeOK
    <3>2. on[target[p]] \notin adapter[p].stable
      BY <2>2, <3>1 DEF LaneInv
    <3>3. QED
      BY <3>1, <3>2 DEF deriveMode
  <2>4. CASE dir[target[p]] # "checkout"
    BY <2>2, <2>4 DEF Load, TypeOK
  <2>5. QED
    BY <2>3, <2>4
<1>2. Inv /\ [Next]_vars => [\A p \in Procs : Dev(p)]_vars
  BY <1>1
<1>3. QED
  BY <1>2, Invariance, PTL DEF Spec, DevIfUnedited
=============================================================================
