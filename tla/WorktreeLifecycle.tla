-------------------------- MODULE WorktreeLifecycle --------------------------
(***************************************************************************)
(* `worktree create`, `worktree remove` and `prepare` of lane checkouts    *)
(* that come and go, with users who run git and edit adapters beside them. *)
(*                                                                         *)
(* create checks the lane against the adapter of the caller's working      *)
(* tree, lets git make the checkout from HEAD, copies the seeds, and       *)
(* prepares what is now there.  remove notes the app and the path of the   *)
(* checkout, lets git delete it, and then drops the rows of that key.      *)
(* Only the catalog steps hold the catalog lock; HostCatalog shows that a  *)
(* holder works on the catalog it publishes over, so a publish here acts   *)
(* on the catalog itself.                                                  *)
(*                                                                         *)
(* Each checkout git makes has a birth of its own, so that a row can be    *)
(* told from one of an earlier checkout at the same path; the main one,    *)
(* from which every command is typed, has the first.                       *)
(***************************************************************************)
EXTENDS Naturals

CONSTANTS
    Procs,          \* devlane processes
    NoProc,         \* the lock is free
    Lanes,          \* lane names, which are branch names
    Paths,          \* sibling checkouts
    Main,           \* the checkout the commands are typed in
    SiblingPath,    \* per lane: the path its slug gives (slugs may collide)
    Apps,
    NoAdapter,      \* no readable adapter
    HasInputs,      \* adapters name compose files or templates
    InitialAdapters,\* adapters the main checkout may start with, and commit
    InitialBranches,\* branches that users made
    Commands,       \* the invocations an operator may type
    NoCommand,      \* an idle process
    MaxBirths,      \* bound: checkouts made, the main one with them
    MaxEdits        \* bound: edits and commits of adapters

\* An adapter: its app, its stable branches, and the seeds it declares, by
\* what they do: outside the repository, the adapter itself, anything else.
Adapters == [app : Apps, stable : SUBSET Lanes,
             seeds : SUBSET {"outside", "adapter", "other"}]

CreateCommands == [op : {"create"}, lane : Lanes]

PathCommands == [op : {"remove", "prepare"}, path : Paths]

Places == Paths \cup {Main}

Births == 0 .. MaxBirths

Modes == {"dev", "stable"}

Rows == [app : Apps, path : Places, born : Births, mode : Modes]

ASSUME ProcsAssumption == NoProc \notin Procs
ASSUME LanesAssumption == Lanes # {}
ASSUME PathsAssumption == Main \notin Paths
ASSUME SiblingAssumption == SiblingPath \in [Lanes -> Paths]
ASSUME AdaptersAssumption ==
    InitialAdapters \subseteq Adapters /\ NoAdapter \notin Adapters
ASSUME BranchesAssumption == InitialBranches \subseteq Lanes
ASSUME CommandsAssumption ==
    /\ Commands \subseteq CreateCommands \cup PathCommands
    /\ NoCommand \notin Commands
ASSUME BoundsAssumption ==
    MaxBirths \in Nat \ {0} /\ MaxEdits \in Nat /\ HasInputs \in BOOLEAN

VARIABLES
    catalog,    \* the rows of the checkouts
    lock,       \* the holder of the catalog lock
    head,       \* the adapter HEAD has
    dir,        \* per place: nothing, a checkout, or a directory that is none
    at,         \* per place: the adapter there
    on,         \* per path: the branch checked out there
    born,       \* per place: the birth of its latest checkout
    branches,   \* the branches that exist
    births,     \* how many checkouts were made
    edits,      \* how many edits and commits there were
    pc,         \* per process: the step it is at
    cmd,        \* per process: the command it runs
    target,     \* per process: the place it works on
    adapter,    \* per process: the adapter it read (create: validated against)
    loaded,     \* per process: what its prepare derived, or NoAdapter
    mode,       \* per process: the mode of the lane it prepares
    birth,      \* per process: the birth of the checkout it works on
    retired,    \* history: births whose removal cleaned up the catalog
    blurred     \* history: births renamed, unreadable, prepared when gone

files == <<head, dir, at, on, born, branches, births>>
mind == <<cmd, target, adapter, loaded, mode, birth>>
history == <<retired, blurred>>
vars == <<catalog, lock, files, edits, pc, mind, history>>

Steps == {"idle", "checked", "added", "seeded", "wait", "locked", "written",
          "closing", "captured"}

TypeOK ==
    /\ catalog  \in SUBSET Rows
    /\ lock     \in Procs \cup {NoProc}
    /\ head     \in Adapters \cup {NoAdapter}
    /\ dir      \in [Places -> {"none", "checkout", "debris"}]
    /\ at       \in [Places -> Adapters \cup {NoAdapter}]
    /\ on       \in [Paths -> Lanes]
    /\ born     \in [Places -> Births]
    /\ branches \in SUBSET Lanes
    /\ births   \in Births
    /\ edits    \in 0 .. MaxEdits
    /\ pc       \in [Procs -> Steps]
    /\ cmd      \in [Procs -> Commands \cup {NoCommand}]
    /\ target   \in [Procs -> Places]
    /\ adapter  \in [Procs -> Adapters \cup {NoAdapter}]
    /\ loaded   \in [Procs -> Adapters \cup {NoAdapter}]
    /\ mode     \in [Procs -> Modes]
    /\ birth    \in [Procs -> Births]
    /\ retired  \in SUBSET Births
    /\ blurred  \in SUBSET Births

\* The adapter in the working tree that the commands are typed in.
work == at[Main]

Init ==
    /\ catalog = {}
    /\ lock = NoProc
    /\ head \in InitialAdapters
    /\ dir  = [path \in Places |-> IF path = Main THEN "checkout" ELSE "none"]
    /\ at   = [path \in Places |-> IF path = Main THEN head ELSE NoAdapter]
    /\ on   \in [Paths -> {CHOOSE lane \in Lanes : TRUE}]
    /\ born = [path \in Places |-> IF path = Main THEN 1 ELSE 0]
    /\ branches = InitialBranches
    /\ births = 1
    /\ edits = 0
    /\ pc       = [p \in Procs |-> "idle"]
    /\ cmd      = [p \in Procs |-> NoCommand]
    /\ target   = [p \in Procs |-> Main]
    /\ adapter  = [p \in Procs |-> NoAdapter]
    /\ loaded   = [p \in Procs |-> NoAdapter]
    /\ mode     = [p \in Procs |-> "dev"]
    /\ birth    = [p \in Procs |-> 0]
    /\ retired  = {}
    /\ blurred  = {}

-----------------------------------------------------------------------------

Goto(p, step) == pc' = [pc EXCEPT ![p] = step]

Exit(p) ==
    /\ Goto(p, "idle")
    /\ lock'    = IF lock = p THEN NoProc ELSE lock
    /\ cmd'     = [cmd EXCEPT ![p] = NoCommand]
    /\ target'  = [target EXCEPT ![p] = Main]
    /\ adapter' = [adapter EXCEPT ![p] = NoAdapter]
    /\ loaded'  = [loaded EXCEPT ![p] = NoAdapter]
    /\ mode'    = [mode EXCEPT ![p] = "dev"]
    /\ birth'   = [birth EXCEPT ![p] = 0]
    /\ UNCHANGED <<catalog, files, edits, history>>

\* deriveMode, with no --mode: the branch decides.
deriveMode(a, branch) == IF branch \in a.stable THEN "stable" ELSE "dev"

\* History: the adapter of a checkout changes, or the checkout goes, while
\* rows of it depend on the app it had.
Preparing(b) == \E q \in Procs : loaded[q] # NoAdapter /\ birth[q] = b

DependedOn(b) ==
    \/ \E row \in catalog : row.born = b
    \/ Preparing(b)
    \/ \E q \in Procs : pc[q] = "captured" /\ birth[q] = b

BlurIf(condition, path) ==
    blurred' = IF condition THEN blurred \cup {born[path]} ELSE blurred

-----------------------------------------------------------------------------
(* worktree create *)

\* Seeded fault: the name of a stable branch is taken for a new lane.
validateAnyLane(a, lane) == TRUE

validateNewLane(a, lane) == lane \notin a.stable

planSeeds(a) == "outside" \notin a.seeds

\* Everything that can be refused is refused before git is asked.
Acceptable(lane) ==
    /\ validateNewLane(work, lane)
    /\ dir[SiblingPath[lane]] = "none"
    /\ lane \notin branches
    /\ planSeeds(work)

CreateRefused(p) ==
    /\ pc[p] = "idle"
    /\ \E c \in Commands : c.op = "create" /\ ~Acceptable(c.lane)
    /\ UNCHANGED vars

CreateChecks(p) ==
    /\ pc[p] = "idle"
    /\ \E c \in Commands :
        /\ c.op = "create"
        /\ Acceptable(c.lane)
        /\ cmd' = [cmd EXCEPT ![p] = c]
        /\ target' = [target EXCEPT ![p] = SiblingPath[c.lane]]
    /\ adapter' = [adapter EXCEPT ![p] = work]
    /\ Goto(p, "checked")
    /\ UNCHANGED <<catalog, lock, files, edits, loaded, mode, birth, history>>

\* git makes a checkout of HEAD, or refuses a path or branch that exists by now.
Checkout(path, lane) ==
    /\ dir[path] = "none"
    /\ births < MaxBirths
    /\ births' = births + 1
    /\ born' = [born EXCEPT ![path] = births + 1]
    /\ dir'  = [dir EXCEPT ![path] = "checkout"]
    /\ at'   = [at EXCEPT ![path] = head]
    /\ on'   = [on EXCEPT ![path] = lane]
    /\ branches' = branches \cup {lane}
    /\ UNCHANGED head

AddWorktree(p) ==
    /\ pc[p] = "checked"
    /\ cmd[p].lane \notin branches
    /\ Checkout(target[p], cmd[p].lane)
    /\ birth' = [birth EXCEPT ![p] = births + 1]
    /\ Goto(p, "added")
    /\ UNCHANGED <<catalog, lock, edits, cmd, target, adapter, loaded, mode,
                   history>>

AddWorktreeFails(p) ==
    /\ pc[p] = "checked"
    /\ Exit(p)

\* applySeeds and copyTree.  A seed replaces what the checkout has, the adapter
\* too if it is listed; without the checkout MkdirAll makes the directory.
ApplySeeds(p) ==
    /\ pc[p] = "added"
    /\ LET path == target[p]
       IN /\ at' = IF "adapter" \in adapter[p].seeds
                   THEN [at EXCEPT ![path] = work] ELSE at
          /\ dir' = IF adapter[p].seeds # {} /\ dir[path] = "none"
                    THEN [dir EXCEPT ![path] = "debris"] ELSE dir
          /\ BlurIf(at'[path] # at[path] /\ DependedOn(born[path]), path)
    /\ Goto(p, "seeded")
    /\ UNCHANGED <<catalog, lock, head, on, born, branches, births, edits,
                   mind, retired>>

\* load of a process that works at path.  Without an adapter there, the one of
\* the caller's own directory is read, and is refused if git knows a checkout
\* at path, which the caller's outputs lie outside of.  Where git knows none,
\* the place is that of the adapter, on no branch.
Found(path) ==
    IF at[path] # NoAdapter \/ dir[path] = "checkout" THEN path ELSE Main

Load(p, path) ==
    LET place == Found(path)
    IN /\ at[place] # NoAdapter
       /\ target' = [target EXCEPT ![p] = place]
       /\ loaded' = [loaded EXCEPT ![p] = at[place]]
       /\ birth'  = [birth EXCEPT ![p] = born[place]]
       /\ adapter' = [adapter EXCEPT ![p] = NoAdapter]
       /\ mode'   = [mode EXCEPT ![p] = IF dir[path] = "checkout"
                                        THEN deriveMode(at[path], on[path])
                                        ELSE "dev"]
       /\ BlurIf(dir[place] # "checkout", place)

LoadCreated(p) ==
    /\ pc[p] = "seeded"
    /\ Load(p, target[p])
    /\ Goto(p, "wait")
    /\ UNCHANGED <<catalog, lock, files, edits, cmd, retired>>

\* A seed cannot be copied, the adapter not loaded: the checkout stays.
CreateFails(p) ==
    /\ pc[p] \in {"added", "seeded"}
    /\ Exit(p)

-----------------------------------------------------------------------------
(* prepare of a path, typed by the operator *)

StartPrepare(p) ==
    /\ pc[p] = "idle"
    /\ \E c \in Commands :
        /\ c.op = "prepare"
        /\ cmd' = [cmd EXCEPT ![p] = c]
        /\ Load(p, c.path)
    /\ Goto(p, "wait")
    /\ UNCHANGED <<catalog, lock, files, edits, retired>>

-----------------------------------------------------------------------------
(* worktree remove *)

\* Seeded fault: cleanup keys on the app of the caller.
capturedCallerApp(path) == work

\* targetWorktreeApp, or the caller's when the target's cannot be read.
capturedAdapter(path) == IF at[path] # NoAdapter THEN at[path] ELSE work

Capture(p) ==
    /\ pc[p] = "idle"
    /\ \E c \in Commands :
        /\ c.op = "remove"
        /\ dir[c.path] # "none"
        /\ cmd' = [cmd EXCEPT ![p] = c]
        /\ target' = [target EXCEPT ![p] = c.path]
        /\ adapter' = [adapter EXCEPT ![p] = capturedAdapter(c.path)]
        /\ birth' = [birth EXCEPT ![p] = born[c.path]]
        /\ BlurIf(at[c.path] = NoAdapter, c.path)
    /\ Goto(p, "captured")
    /\ UNCHANGED <<catalog, lock, files, edits, loaded, mode, retired>>

Vanish(path) ==
    /\ dir' = [dir EXCEPT ![path] = "none"]
    /\ at' = [at EXCEPT ![path] = NoAdapter]
    /\ BlurIf(Preparing(born[path]), path)
    /\ UNCHANGED <<head, on, born, branches, births>>

\* Seeded fault: cleanup runs whatever git said.
GitRemoveIgnored(p) ==
    /\ pc[p] = "captured"
    /\ Goto(p, "wait")
    /\ UNCHANGED <<catalog, lock, files, edits, mind, history>>

\* git removes a checkout, and its own record of one that is gone by now.
GitRemove(p) ==
    /\ pc[p] = "captured"
    /\ dir[target[p]] # "debris"
    /\ Vanish(target[p])
    /\ Goto(p, "wait")
    /\ UNCHANGED <<catalog, lock, edits, mind, retired>>

\* Changes git will not discard without --force, or a directory it did not make.
GitRemoveFails(p) ==
    /\ pc[p] = "captured"
    /\ Exit(p)

-----------------------------------------------------------------------------
(* The part under the catalog lock *)

Acquire(p) ==
    /\ pc[p] = "wait"
    /\ lock = NoProc
    /\ lock' = p
    /\ Goto(p, "locked")
    /\ UNCHANGED <<catalog, files, edits, mind, history>>

AcquireTimesOut(p) ==
    /\ pc[p] = "wait"
    /\ lock # NoProc
    /\ Exit(p)

\* The outputs are planned, staged and renamed into place.  In a checkout that
\* is gone they make its directory again, unless they need a file from it.
WriteOutputs(p) ==
    /\ pc[p] = "locked"
    /\ loaded[p] # NoAdapter
    /\ dir[target[p]] = "none" => ~HasInputs
    /\ dir' = IF dir[target[p]] = "none"
              THEN [dir EXCEPT ![target[p]] = "debris"] ELSE dir
    /\ Goto(p, "written")
    /\ UNCHANGED <<catalog, lock, head, at, on, born, branches, births,
                   edits, mind, history>>

\* Publish of the prepared rows.
PublishPrepared(p) ==
    /\ pc[p] = "written"
    /\ LET key(row) == row.app = loaded[p].app /\ row.path = target[p]
       IN catalog' = {row \in catalog : ~key(row)} \cup
                     {[app |-> loaded[p].app, path |-> target[p],
                       born |-> birth[p], mode |-> mode[p]]}
    /\ Goto(p, "closing")
    /\ UNCHANGED <<lock, files, edits, mind, history>>

\* removeScopedAllocations, load to publish.
Cleanup(p) ==
    /\ pc[p] = "locked"
    /\ loaded[p] = NoAdapter
    /\ catalog' = {row \in catalog :
                      ~(row.app = adapter[p].app /\ row.path = target[p])}
    /\ retired' = retired \cup {birth[p]}
    /\ Goto(p, "closing")
    /\ UNCHANGED <<lock, files, edits, mind, blurred>>

\* Seeded fault: a publish that fails is taken for done.
CatalogFailsUnseen(p) ==
    /\ pc[p] \in {"locked", "written"}
    /\ Goto(p, "closing")
    /\ UNCHANGED <<catalog, lock, files, edits, mind, history>>

\* The catalog cannot be read or published, the outputs not written.
CatalogFails(p) ==
    /\ pc[p] \in {"locked", "written"}
    /\ Exit(p)

\* The command reports success.
Succeed(p) ==
    /\ pc[p] = "closing"
    /\ Exit(p)

Crash(p) ==
    /\ pc[p] # "idle"
    /\ Exit(p)

-----------------------------------------------------------------------------
(* What users do with git and an editor *)

UserAdds(path, lane) ==
    /\ lane \in branches
    /\ \A other \in Paths : dir[other] = "checkout" => on[other] # lane
    /\ Checkout(path, lane)
    /\ UNCHANGED <<catalog, lock, edits, pc, mind, history>>

UserRemoves(path) ==
    /\ dir[path] # "none"
    /\ Vanish(path)
    /\ UNCHANGED <<catalog, lock, edits, pc, mind, retired>>

UserDeletesBranch(lane) ==
    /\ lane \in branches
    /\ \A path \in Paths : dir[path] = "checkout" => on[path] # lane
    /\ branches' = branches \ {lane}
    /\ UNCHANGED <<catalog, lock, head, dir, at, on, born, births, edits,
                   pc, mind, history>>

UserEdits ==
    /\ edits < MaxEdits
    /\ edits' = edits + 1
    /\ \/ /\ head' = work
          /\ UNCHANGED <<at, blurred>>
       \/ \E path \in Places, a \in InitialAdapters \cup {NoAdapter} :
             /\ dir[path] = "checkout"
             /\ path = Main => a # NoAdapter
             /\ at' = [at EXCEPT ![path] = a]
             /\ BlurIf(DependedOn(born[path]), path)
             /\ UNCHANGED head
    /\ UNCHANGED <<catalog, lock, dir, on, born, branches, births, pc, mind,
                   retired>>

-----------------------------------------------------------------------------

Create(p) ==
    \/ CreateRefused(p) \/ CreateChecks(p) \/ AddWorktree(p)
    \/ AddWorktreeFails(p) \/ ApplySeeds(p) \/ LoadCreated(p) \/ CreateFails(p)

Remove(p) == Capture(p) \/ GitRemove(p) \/ GitRemoveFails(p) \/ Cleanup(p)

Prepare(p) == StartPrepare(p) \/ WriteOutputs(p) \/ PublishPrepared(p)

Locking(p) ==
    \/ Acquire(p) \/ AcquireTimesOut(p) \/ CatalogFails(p) \/ Succeed(p)
    \/ Crash(p)

Users ==
    \/ \E path \in Paths, lane \in Lanes : UserAdds(path, lane)
    \/ \E path \in Paths : UserRemoves(path)
    \/ \E lane \in Lanes : UserDeletesBranch(lane)
    \/ UserEdits

Next ==
    \/ \E p \in Procs : Create(p) \/ Remove(p) \/ Prepare(p) \/ Locking(p)
    \/ Users

Spec == Init /\ [][Next]_vars

-----------------------------------------------------------------------------
(* Properties *)

Live(row) == dir[row.path] = "checkout" /\ born[row.path] = row.born

\* The cleanup of a remove never takes away rows of a checkout that is still
\* there, except one that was made at the same path after the remove had noted
\* what it would clean up (runWorktreeRemove).
LiveRowsStay ==
    [][\A p \in Procs :
          Cleanup(p) =>
              \A row \in catalog \ catalog' :
                  Live(row) => row.born > birth[p]]_vars

\* After a remove has cleaned up, no row of the checkout it retired is left,
\* unless its adapter was edited, or not readable when the remove looked, or
\* somebody was preparing it when it went, or prepared what others wrote at its
\* path after that: the rows are found under the app and path noted while it
\* was still there.
RetiredUnlessBlurred ==
    \A row \in catalog : row.born \in retired => row.born \in blurred

\* When create or prepare succeeds, the catalog has the row of the checkout it
\* read the adapter of, whatever went on there meanwhile (a failed prepare is
\* reported as a failure, and create ends with a prepare).  That may be the
\* caller's own, see CreatedAtItsPath.
CreatedIsRegistered ==
    [][\A p \in Procs :
          Succeed(p) /\ cmd[p].op \in {"create", "prepare"} =>
              [app |-> loaded[p].app, path |-> target[p], born |-> birth[p],
               mode |-> mode[p]] \in catalog]_vars

\* What create prepares is a dev lane, if it is still the checkout git made
\* and its adapter is the one the lane was validated against
\* (validateNewLane and deriveMode agree).
DevIfUnedited ==
    [][\A p \in Procs :
          LoadCreated(p) /\ birth'[p] = birth[p] /\ loaded'[p] = adapter[p] =>
              mode'[p] = "dev"]_vars

\* docs/40-cli-contract.md:92, "the command is for new dev lanes only".
CreatedIsDev ==
    [][\A p \in Procs :
          PublishPrepared(p) /\ cmd[p].op = "create" =>
              \A row \in catalog' \ catalog : row.mode = "dev"]_vars

\* docs/40-cli-contract.md:91, "then runs `prepare` there so the catalog records
\* the new lane's ports": a create that succeeds has a row at its path.
CreatedAtItsPath ==
    [][\A p \in Procs :
          Succeed(p) /\ cmd[p].op = "create" =>
              \E row \in catalog : row.path = SiblingPath[cmd[p].lane]]_vars

\* docs/40-cli-contract.md:96, "retire a lane checkout and clean up its catalog
\* rows": no row of a checkout that a remove has retired.
RetiredHasNoRows == \A row \in catalog : row.born \notin retired

\* docs/65-host-catalog.md:77, "scoped cleanup of a retired checkout's rows":
\* no row of a checkout that is there goes.
CleanupOfRetiredOnly ==
    [][\A p \in Procs :
          Cleanup(p) => \A row \in catalog \ catalog' : ~Live(row)]_vars
=============================================================================
