---------------------------- MODULE LocalOutputs ----------------------------
(***************************************************************************)
(* The outputs of one checkout, file by file (src/internal/write): plan,   *)
(* snapshot every target, stage every payload in a temporary file, promote *)
(* the temporaries by renames, and on failure restore the snapshots in     *)
(* reverse.  Any of these may fail, the process may be killed between any  *)
(* two, the user edits generated files meanwhile, and `up` reads the files *)
(* without a lock.  HostCatalog.tla has all this as Stage and Promote.     *)
(* Prepares exclude each other by the catalog lock, as those of an adapter *)
(* with ports do.                                                          *)
(*                                                                         *)
(* A payload is the version (of adapter, ports and templates) it was       *)
(* rendered from; a sidecar of version v holds the hash of its generated   *)
(* file of version v.                                                      *)
(***************************************************************************)
EXTENDS Naturals, Sequences

CONSTANTS
    Procs,      \* processes that prepare this checkout
    NoProc,     \* the catalog lock is free
    Versions,   \* what a prepare may render
    Edit,       \* what the user types into a file
    Absent,     \* no file
    Plan,       \* the paths of the outputs in the order they are written
    Verified,   \* indices of Plan that `up` compares (verifyForUp)
    Generated,  \* indices of generated files; the sidecar is the next one
    Editable,   \* indices of files the user edits
    Expected    \* the versions `up` may expect

\* The manifest is always written, no path is written twice, and sidecars are
\* not for users to edit.
ASSUME PlanAssumption ==
    /\ Len(Plan) \in Nat \ {0} /\ DOMAIN Plan = 1 .. Len(Plan)
    /\ \A i, j \in DOMAIN Plan : Plan[i] = Plan[j] => i = j
    /\ Verified \cup Generated \cup Editable \subseteq DOMAIN Plan
    /\ \A g \in Generated : g + 1 \in DOMAIN Plan \ (Verified \cup Editable)
    /\ Expected \subseteq Versions
    /\ NoProc \notin Procs
    /\ Edit \notin Versions /\ Absent \notin Versions \cup {Edit}

VARIABLES
    disk,       \* per index of Plan: what the file holds
    lock,       \* the process that holds the catalog lock
    pc,         \* per process: the phase it is in
    pos,        \* per process: the index it is at
    version,    \* per process: what it renders
    snapshot,   \* per process: the contents it may restore
    promoted,   \* per process: indices it has renamed into place
    temps,      \* per process: indices whose temporary file exists
    torn,       \* a prepare was cut short and no other has succeeded since
    litter,     \* a prepare was killed, or failed to stage, with temporaries
    upAt,       \* the index `up` reads next, 0 if it is not running
    expects,    \* the version `up` compares with
    sawAll,     \* all verified files matched at once since `up` began
    raced       \* the user edited a file while a prepare ran

procVars == <<lock, pc, pos, version, snapshot, promoted, temps>>
upVars   == <<upAt, expects>>
vars     == <<disk, procVars, torn, litter, upVars, sawAll, raced>>

Indices  == DOMAIN Plan
Last     == Len(Plan)
Contents == Versions \cup {Edit, Absent}
Phases   == {"idle", "snapshot", "stage", "promote", "written", "rollback",
             "cleanup"}

TypeOK ==
    /\ disk     \in [Indices -> Contents]
    /\ lock     \in Procs \cup {NoProc}
    /\ pc       \in [Procs -> Phases]
    /\ pos      \in [Procs -> 0 .. Last]
    /\ version  \in [Procs -> Versions \cup {Absent}]
    /\ snapshot \in [Procs -> [Indices -> Contents]]
    /\ promoted \in [Procs -> SUBSET Indices]
    /\ temps    \in [Procs -> SUBSET Indices]
    /\ torn \in BOOLEAN /\ litter \in BOOLEAN
    /\ sawAll \in BOOLEAN /\ raced \in BOOLEAN
    /\ upAt     \in 0 .. Last + 1
    /\ expects  \in Versions \cup {Absent}

Nothing == [i \in Indices |-> Absent]

Init ==
    /\ disk     = Nothing
    /\ lock     = NoProc
    /\ pc       = [p \in Procs |-> "idle"]
    /\ pos      = [p \in Procs |-> 0]
    /\ version  = [p \in Procs |-> Absent]
    /\ snapshot = [p \in Procs |-> Nothing]
    /\ promoted = [p \in Procs |-> {}]
    /\ temps    = [p \in Procs |-> {}]
    /\ torn = FALSE /\ litter = FALSE /\ sawAll = FALSE /\ raced = FALSE
    /\ upAt = 0 /\ expects = Absent

-----------------------------------------------------------------------------

\* p goes to the next index of a phase, or on to the next phase after the last one.
Advance(p, phase) ==
    IF pos[p] = Last
    THEN pc' = [pc EXCEPT ![p] = phase] /\ pos' = [pos EXCEPT ![p] = 1]
    ELSE pc' = pc /\ pos' = [pos EXCEPT ![p] = @ + 1]

\* The process is gone: the kernel drops its flock, its memory is lost.
Exit(p) ==
    /\ lock'     = NoProc
    /\ pc'       = [pc EXCEPT ![p] = "idle"]
    /\ pos'      = [pos EXCEPT ![p] = 0]
    /\ version'  = [version EXCEPT ![p] = Absent]
    /\ snapshot' = [snapshot EXCEPT ![p] = Nothing]
    /\ promoted' = [promoted EXCEPT ![p] = {}]

\* Seeded fault: a prepare does not wait for the one that runs.
BeginAtOnce(p) ==
    /\ pc[p] = "idle"
    /\ lock' = p
    /\ \E v \in Versions : version' = [version EXCEPT ![p] = v]
    /\ pc'  = [pc EXCEPT ![p] = "snapshot"]
    /\ pos' = [pos EXCEPT ![p] = 1]
    /\ UNCHANGED <<disk, snapshot, promoted, temps, torn, litter, upVars>>

\* planWrites, under the lock: render every payload.  (A plan that cannot be
\* made changes nothing.)
Begin(p) ==
    /\ pc[p] = "idle"
    /\ lock = NoProc
    /\ lock' = p
    /\ \E v \in Versions : version' = [version EXCEPT ![p] = v]
    /\ pc'  = [pc EXCEPT ![p] = "snapshot"]
    /\ pos' = [pos EXCEPT ![p] = 1]
    /\ UNCHANGED <<disk, snapshot, promoted, temps, torn, litter, upVars>>

\* prepareWriteTargets: read the file that will be replaced.
Snapshot(p) ==
    /\ pc[p] = "snapshot"
    /\ snapshot' = [snapshot EXCEPT ![p][pos[p]] = disk[pos[p]]]
    /\ Advance(p, "stage")
    /\ UNCHANGED <<disk, lock, version, promoted, temps, torn,
                   litter, upVars>>

\* stageWrites: one temporary file beside its target.
StageOne(p) ==
    /\ pc[p] = "stage"
    /\ temps' = [temps EXCEPT ![p] = @ \cup {pos[p]}]
    /\ Advance(p, "promote")
    /\ UNCHANGED <<disk, lock, version, snapshot, promoted, torn,
                   litter, upVars>>

\* A target cannot be read or staged; what was staged before it stays.
PlanFails(p) ==
    /\ pc[p] \in {"snapshot", "stage"}
    /\ Exit(p)
    /\ litter' = (litter \/ temps[p] # {})
    /\ UNCHANGED <<disk, temps, torn, upVars>>

\* Seeded fault: the last output is renamed first.
PromoteBackwards(p) ==
    LET i == Last + 1 - pos[p]
    IN /\ pc[p] = "promote"
       /\ disk'     = [disk EXCEPT ![i] = version[p]]
       /\ promoted' = [promoted EXCEPT ![p] = @ \cup {i}]
       /\ temps'    = [temps EXCEPT ![p] = @ \ {i}]
       /\ Advance(p, "written")
       /\ UNCHANGED <<lock, version, snapshot, torn, litter, upVars>>

\* promoteWrites: rename one temporary over its target.
PromoteOne(p) ==
    /\ pc[p] = "promote"
    /\ disk'     = [disk EXCEPT ![pos[p]] = version[p]]
    /\ promoted' = [promoted EXCEPT ![p] = @ \cup {pos[p]}]
    /\ temps'    = [temps EXCEPT ![p] = @ \ {pos[p]}]
    /\ Advance(p, "written")
    /\ UNCHANGED <<lock, version, snapshot, torn, litter, upVars>>

\* Seeded fault: the snapshot taken last is not restored.
BeginRollbackShort(p) ==
    /\ pc'  = [pc EXCEPT ![p] = "rollback"]
    /\ pos' = [pos EXCEPT ![p] = Last - 1]
    /\ UNCHANGED <<disk, lock, version, snapshot, promoted, temps,
                   torn, litter, upVars>>

BeginRollback(p) ==
    /\ pc'  = [pc EXCEPT ![p] = "rollback"]
    /\ pos' = [pos EXCEPT ![p] = Last]
    /\ UNCHANGED <<disk, lock, version, snapshot, promoted, temps,
                   torn, litter, upVars>>

\* A rename fails, or the caller cannot publish the catalog.
PromoteFails(p) == pc[p] = "promote" /\ BeginRollback(p)

PublishFails(p) == pc[p] = "written" /\ BeginRollback(p)

\* Rollback goes on to the snapshot before, whether this one succeeded or not.
StepBack(p) ==
    /\ pos' = [pos EXCEPT ![p] = @ - 1]
    /\ pc'  = IF pos[p] = 1 THEN [pc EXCEPT ![p] = "cleanup"] ELSE pc
    /\ UNCHANGED <<lock, version, snapshot, promoted, temps, litter,
                   upVars>>

\* Seeded fault: a file that did not exist before is left in place.
RestoreExisting(p) ==
    /\ pc[p] = "rollback"
    /\ disk' = IF snapshot[p][pos[p]] = Absent
               THEN disk
               ELSE [disk EXCEPT ![pos[p]] = snapshot[p][pos[p]]]
    /\ StepBack(p)
    /\ UNCHANGED torn

\* restoreSnapshot: rename the old payload back, or remove the file.
Restore(p) ==
    /\ pc[p] = "rollback"
    /\ disk' = [disk EXCEPT ![pos[p]] = snapshot[p][pos[p]]]
    /\ StepBack(p)
    /\ UNCHANGED torn

RestoreFails(p) ==
    /\ pc[p] = "rollback"
    /\ torn' = TRUE
    /\ StepBack(p)
    /\ UNCHANGED disk

\* Seeded fault: the temporaries are not removed after a failure.
CleanupNothing(p) ==
    /\ pc[p] = "cleanup"
    /\ Exit(p)
    /\ UNCHANGED <<disk, temps, torn, litter, upVars>>

\* cleanupTemps, then the command returns its error.
Cleanup(p) ==
    /\ pc[p] = "cleanup"
    /\ Exit(p)
    /\ temps' = [temps EXCEPT ![p] = {}]
    /\ UNCHANGED <<disk, torn, litter, upVars>>

\* The caller has published: the outputs are those of one version.
Succeed(p) ==
    /\ pc[p] = "written"
    /\ Exit(p)
    /\ torn' = FALSE
    /\ UNCHANGED <<disk, temps, litter, upVars>>

\* The process is killed.
Crash(p) ==
    /\ pc[p] # "idle"
    /\ Exit(p)
    /\ torn'   = (torn \/ promoted[p] # {})
    /\ litter' = (litter \/ temps[p] # {})
    /\ UNCHANGED <<disk, temps, upVars>>

\* The user edits a generated file, or deletes it.
UserEdits ==
    /\ \E i \in Editable, c \in {Edit, Absent} : disk' = [disk EXCEPT ![i] = c]
    /\ UNCHANGED <<procVars, torn, litter, upVars>>

-----------------------------------------------------------------------------
(* `up`: VerifyPreparedOutputs reads one file after the other *)

UpBegins ==
    /\ upAt = 0
    /\ \E v \in Expected : expects' = v
    /\ upAt' = 1
    /\ UNCHANGED <<disk, procVars, torn, litter>>

\* The output is as expected, or is not compared.
UpReads ==
    /\ upAt \in Indices
    /\ upAt \in Verified => disk[upAt] = expects
    /\ upAt' = upAt + 1
    /\ UNCHANGED <<disk, procVars, torn, litter, expects>>

\* A file is missing or stale, or everything was compared.
UpEnds ==
    /\ upAt # 0
    /\ upAt \in Verified => disk[upAt] # expects
    /\ upAt \in Verified \cup {Last + 1}
    /\ upAt' = 0
    /\ expects' = Absent
    /\ UNCHANGED <<disk, procVars, torn, litter>>

\* Bookkeeping for UpSawPreparedOutputs.
Observe ==
    /\ sawAll' = /\ upAt' # 0
                 /\ sawAll \/ (\A i \in Verified : disk'[i] = expects')
    /\ raced' = (raced \/ (UserEdits /\ lock # NoProc))

-----------------------------------------------------------------------------

Step(p) ==
    \/ Begin(p) \/ Snapshot(p) \/ StageOne(p) \/ PlanFails(p)
    \/ PromoteOne(p) \/ PromoteFails(p) \/ PublishFails(p)
    \/ Restore(p) \/ RestoreFails(p) \/ Cleanup(p) \/ Succeed(p) \/ Crash(p)

Next ==
    /\ (\E p \in Procs : Step(p)) \/ UserEdits
           \/ UpBegins \/ UpReads \/ UpEnds
    /\ Observe

Spec == Init /\ [][Next]_vars

-----------------------------------------------------------------------------

\* When prepare returns to its caller, every output is of its version, except
\* for what the user did meanwhile.
PreparedTogether ==
    \A p \in Procs : pc[p] = "written" =>
        \A i \in Indices :
            \/ disk[i] = version[p]
            \/ (i \in Editable /\ disk[i] \in {Edit, Absent})

\* A rollback that restored everything leaves every file as the prepare found
\* it, also those that did not exist, except for what the user did since.
FailureLeavesNoTrace ==
    \A p \in Procs : pc[p] = "cleanup" /\ ~torn =>
        \A i \in Indices :
            \/ disk[i] = snapshot[p][i]
            \/ (i \in Editable /\ disk[i] \in {Edit, Absent})

\* Between prepares a generated file that the user left alone is the one its
\* sidecar records, so the warning of the next prepare has a cause; a killed
\* prepare may break this, and the next one that succeeds repairs it.
HashesAgree ==
    lock = NoProc /\ ~torn =>
        \A g \in Generated :
            \/ disk[g] = disk[g + 1]
            \/ g \in Editable /\ disk[g] \in {Edit, Absent}

\* A prepare that got as far as promoting removes its temporaries, whichever
\* way it ends.
TempsRemoved ==
    ~litter => \A p \in Procs : pc[p] = "idle" => temps[p] = {}

\* `up` compares the files in the order in which prepare promotes them, so
\* that, though it takes no lock, files that it found prepared one by one
\* were all prepared at one moment while it ran.  (A rollback that puts an old
\* file back over an edit made since the snapshot may fool it.)
UpSawPreparedOutputs == upAt = Last + 1 => sawAll \/ raced

\* docs/65-host-catalog.md: a failed promotion restores the outputs already
\* promoted, so a rollback changes no other file.
RollbackTouchesPromotedOnly ==
    [][\A p \in Procs : pc[p] = "rollback" /\ pos'[p] # pos[p] =>
          \A i \in Indices : disk'[i] # disk[i] => i \in promoted[p]]_vars
=============================================================================
