---------------------------- MODULE InitScaffold ----------------------------
(***************************************************************************)
(* `init`: the scan for app roots, the choice among them, the plan of the  *)
(* adapters to write, the questions, and the writes, in a tree that others *)
(* change meanwhile.                                                       *)
(*                                                                         *)
(* The tree is scanned one directory at a time.  All targets are planned   *)
(* before the first question and all questions are asked before the first  *)
(* write; a write truncates the file and then fills it.  `init --from`     *)
(* reads its source twice, to validate it and to copy it.                  *)
(***************************************************************************)
EXTENDS Naturals, Sequences, FiniteSets, Functions

CONSTANTS
    Root,           \* where init is run
    Walk,           \* Root and every directory below, in lexical preorder
    Path,           \* per directory: the directories from Root to it
    SkippedTrees,   \* directories whose name is skipped, and symlinks
    NestedGitRoots, \* other checkouts in the tree
    MaxScanDepth,   \* how deep the scan goes
    SignalSets,     \* the combinations of signals a tree begins with
    FileSets,       \* the adapters a tree begins with
    Sources,        \* contents of the file of --from
    Valid,          \* the ones that LoadAdapter accepts
    Escaping,       \* per source: the targets it has a path outside of
    MaxEdits        \* bound: what others change

Dirs == Range(Walk)

Depth(d) == Len(Path[d]) - 1

\* The place of a directory in the walk, and the directories at and below it.
Place(d) == CHOOSE i \in DOMAIN Walk : Walk[i] = d

Below(d) == {e \in Dirs : d \in Range(Path[e])}

\* Paths are those of a tree, and Walk lists each directory once, before what
\* is below it, and everything below it before anything else.
ASSUME TreeAssumption ==
    /\ Root \in Dirs
    /\ \A d \in Dirs :
          /\ Path[d] \in Seq(Dirs)
          /\ Path[d] # <<>> /\ Path[d][1] = Root /\ Path[d][Len(Path[d])] = d
          /\ \A i \in DOMAIN Path[d] : Path[Path[d][i]] = SubSeq(Path[d], 1, i)
    /\ Walk \in Seq(Dirs)
    /\ \A i, j \in DOMAIN Walk : Walk[i] = Walk[j] => i = j
    /\ \A d, e, f \in Dirs :
          /\ e \in Below(d) => Place(d) <= Place(e)
          /\ e \in Below(d) /\ f \notin Below(d) /\ Place(d) < Place(f)
                => Place(e) < Place(f)

ASSUME ScaffoldAssumption ==
    /\ \A kinds \in SignalSets :
          kinds \in [Dirs -> SUBSET {"compose", "override", "bare"}]
    /\ \A files \in FileSets : files \in [Dirs -> {"none", "user", "link"}]
    /\ Valid \subseteq Sources
    /\ Escaping \in [Sources -> SUBSET Dirs]
    /\ Sources \cap {"none", "link", "empty", "user"} = {}
    /\ MaxScanDepth \in Nat /\ MaxEdits \in Nat

\* Contents of a devlane.yaml.  A link stands for whatever is not a regular
\* file; what a user writes is none of these.
Templates == {"cli", "containerized-web", "baremetal-web", "hybrid-web"}
Contents  == Templates \cup Sources
Files     == Contents \cup {"none", "link", "empty", "user"}

TemplateOptions == {"none", "hybrid-web"}

Options ==
    [from : BOOLEAN, template : TemplateOptions, app : Dirs \cup {"none"},
     list : BOOLEAN, all : BOOLEAN, yes : BOOLEAN, force : BOOLEAN,
     tty : BOOLEAN]

VARIABLES
    exists,     \* the directories that are there
    signals,    \* per directory: the kinds of its files that are signals
    file,       \* per directory: its devlane.yaml
    source,     \* the file of --from
    edits,      \* what others changed so far
    pc,         \* what init is doing
    opts,       \* its options
    stack,      \* directories the scan has still to visit
    found,      \* candidates: [path, template]
    validated,  \* what --from validated
    payload,    \* what --from read afterwards
    plans,      \* the writes planned: [target, content]
    next,       \* the plan that is asked about, or written
    wrote,      \* history: directories whose file init changed
    touched     \* history: what others changed since init began

tree == <<exists, signals, file, source, edits, touched>>
choice == <<opts, stack, found>>
copy == <<validated, payload>>
scaffoldVars == <<tree, pc, choice, copy, plans, next, wrote>>

Candidates == [path : Dirs, template : Templates]

\* What others may have changed: directories, files by directory, the source.
Touchable == Dirs \cup {"dirs", "source"}

Ended == {"refused", "cancelled", "failed", "killed", "done"}

ScaffoldTypeOK ==
    /\ exists  \subseteq Dirs
    /\ signals \in SignalSets
    /\ file    \in [Dirs -> Files]
    /\ source  \in Sources
    /\ edits   \in 0 .. MaxEdits
    /\ pc \in {"start", "scan", "select", "load", "read", "plan", "confirm",
               "truncate", "write"} \cup Ended
    /\ opts    \in Options
    /\ stack   \in Seq(Dirs)
    /\ found   \in Seq(Candidates)
    /\ validated \in Sources
    /\ payload \in Sources
    /\ plans   \in Seq([target : Dirs, content : Contents])
    /\ next    \in 1 .. (Len(Walk) + 1)
    /\ wrote   \subseteq Dirs
    /\ touched \subseteq Touchable

\* validateOptions.
ValidOptions(o) ==
    /\ ~(o.template # "none" /\ o.from)
    /\ ~(o.list /\ (o.template # "none" \/ o.from \/ o.app # "none"))
    /\ ~(o.all /\ o.app # "none")

ScaffoldInit ==
    /\ exists  = Dirs
    /\ signals \in SignalSets
    /\ file    \in FileSets
    /\ opts    \in {o \in Options : ValidOptions(o)}
    /\ source  \in IF opts.from THEN Sources ELSE Valid
    /\ edits   = 0
    /\ pc      = "start"
    /\ stack   = <<Root>>
    /\ found   = <<>>
    /\ validated = source
    /\ payload = source
    /\ plans   = <<>>
    /\ next    = 1
    /\ wrote   = {}
    /\ touched = {}

-----------------------------------------------------------------------------
(* The scan *)

Parent(d) == Path[d][Len(Path[d]) - 1]

Children(d) == {c \in exists \ {Root} : Parent(c) = d}

\* os.ReadDir sorts by name.
InOrder(S) ==
    [n \in 1 .. Cardinality(S) |->
        CHOOSE d \in S : Cardinality({e \in S : Place(e) <= Place(d)}) = n]

\* detectCandidate: mixed signals fall back to cli.  An override alone is no
\* signal.
TemplateOf(d) ==
    CASE signals[d] \cap {"compose", "bare"} = {"compose"} ->
            "containerized-web"
      [] signals[d] \cap {"compose", "bare"} = {"bare"} -> "baremetal-web"
      [] OTHER -> "cli"

IsCandidate(d) == signals[d] \cap {"compose", "bare"} # {}

CandidateAt(d) == [path |-> d, template |-> TemplateOf(d)]

\* shouldScanEntry.
Descends(d) == InOrder(Children(d) \ SkippedTrees)

Goto(step) == pc' = step

EndAs(outcome) ==
    /\ Goto(outcome)
    /\ UNCHANGED <<tree, choice, copy, plans, next, wrote>>

Refuse == EndAs("refused")

Fail == EndAs("failed")

\* What is written first: --from needs its source, the rest only the plan.
Prepared == IF opts.from THEN "load" ELSE "plan"

\* --app: the directory is classified, or taken as it is with --from.
StartAt ==
    /\ pc = "start"
    /\ opts.app # "none"
    /\ opts.app \in exists \/ opts.from
    /\ found' = <<CandidateAt(opts.app)>>
    /\ Goto(Prepared)
    /\ UNCHANGED <<tree, opts, stack, copy, plans, next, wrote>>

StartScan ==
    /\ pc = "start"
    /\ opts.app = "none"
    /\ Goto("scan")
    /\ UNCHANGED <<tree, choice, copy, plans, next, wrote>>

\* The path of --app is gone, or leads out of the tree (resolveTarget).
StartFails == pc = "start" /\ opts.app # "none" /\ Fail

\* Seeded fault: the scan goes one level too deep.
VisitTooDeep ==
    /\ pc = "scan"
    /\ stack # <<>>
    /\ LET d == Head(stack)
           nested == d # Root /\ d \in NestedGitRoots
       IN /\ d \in exists
          /\ found' = IF ~nested /\ IsCandidate(d)
                      THEN Append(found, CandidateAt(d)) ELSE found
          /\ stack' = IF nested \/ Depth(d) > MaxScanDepth THEN Tail(stack)
                      ELSE Descends(d) \o Tail(stack)
    /\ UNCHANGED <<tree, pc, opts, copy, plans, next, wrote>>

\* scanDir of the next directory.
Visit ==
    /\ pc = "scan"
    /\ stack # <<>>
    /\ LET d == Head(stack)
           nested == d # Root /\ d \in NestedGitRoots
       IN /\ d \in exists
          /\ found' = IF ~nested /\ IsCandidate(d)
                      THEN Append(found, CandidateAt(d)) ELSE found
          /\ stack' = IF nested \/ Depth(d) >= MaxScanDepth THEN Tail(stack)
                      ELSE Descends(d) \o Tail(stack)
    /\ UNCHANGED <<tree, pc, opts, copy, plans, next, wrote>>

\* A directory is gone, or cannot be read.
VisitFails == pc = "scan" /\ stack # <<>> /\ Fail

\* --list prints and ends.
ScanEnds ==
    /\ pc = "scan"
    /\ stack = <<>>
    /\ Goto(IF opts.list THEN "done" ELSE "select")
    /\ UNCHANGED <<tree, choice, copy, plans, next, wrote>>

-----------------------------------------------------------------------------
(* The choice and the source *)

Select(candidates) ==
    /\ pc = "select"
    /\ found' = candidates
    /\ Goto(Prepared)
    /\ UNCHANGED <<tree, opts, stack, copy, plans, next, wrote>>

\* Without candidates, the cli template where init was run.
SelectRoot == found = <<>> /\ Select(<<[path |-> Root, template |-> "cli"]>>)

SelectAll == /\ found # <<>>
             /\ Len(found) = 1 \/ opts.all
             /\ Select(found)

RefuseMany == pc = "select" /\ Len(found) > 1 /\ ~opts.all
              /\ (~opts.tty \/ opts.yes) /\ Refuse

\* promptForSelection: one, all or none.
AnswerOne ==
    /\ Len(found) > 1 /\ ~opts.all /\ opts.tty /\ ~opts.yes
    /\ \/ Select(found)
       \/ \E i \in DOMAIN found : Select(<<found[i]>>)

AnswerQuit ==
    /\ pc = "select"
    /\ Len(found) > 1 /\ ~opts.all /\ opts.tty /\ ~opts.yes
    /\ EndAs("cancelled")

\* LoadAdapter, whose result is only used to validate.
LoadSource ==
    /\ pc = "load"
    /\ source \in Valid
    /\ validated' = source
    /\ Goto("read")
    /\ UNCHANGED <<tree, choice, payload, plans, next, wrote>>

LoadFails == pc = "load" /\ source \notin Valid /\ Refuse

\* ReadFile, once more.
ReadSource ==
    /\ pc = "read"
    /\ payload' = source
    /\ Goto("plan")
    /\ UNCHANGED <<tree, choice, validated, plans, next, wrote>>

-----------------------------------------------------------------------------
(* Plan, confirm, write *)

\* The template that --template names, the one detected, or the copy.
ContentFor(candidate) ==
    IF opts.from THEN payload
    ELSE IF opts.template # "none" THEN opts.template
    ELSE candidate.template

\* Seeded fault: an existing file is written over if it is regular.
PlannableAnyRegular(d) == file[d] # "link"

\* planWrite: nothing there, or a regular file and --force.
Plannable(d) ==
    \/ file[d] = "none"
    \/ file[d] # "link" /\ opts.force

\* Seeded fault: the paths are looked at from where init was run.
CopyableAtRoot(d) == opts.from => Root \notin Escaping[validated]

Copyable(d) == opts.from => d \notin Escaping[validated]

Target == found[Len(plans) + 1]

\* Seeded fault: each target is written once it is planned.
PlanOneWritten ==
    /\ pc = "plan"
    /\ Len(plans) < Len(found)
    /\ Target.path \in exists /\ Copyable(Target.path) /\ Plannable(Target.path)
    /\ plans' = Append(plans, [target  |-> Target.path,
                               content |-> ContentFor(Target)])
    /\ file' = [file EXCEPT ![Target.path] = ContentFor(Target)]
    /\ wrote' = wrote \cup {Target.path}
    /\ UNCHANGED <<exists, signals, source, edits, touched, pc, choice, copy,
                   next>>

\* validateCopiedAdapter and planWrite of the next target.
PlanOne ==
    /\ pc = "plan"
    /\ Len(plans) < Len(found)
    /\ Target.path \in exists /\ Copyable(Target.path) /\ Plannable(Target.path)
    /\ plans' = Append(plans, [target  |-> Target.path,
                               content |-> ContentFor(Target)])
    /\ UNCHANGED <<tree, pc, choice, copy, next, wrote>>

PlanRefused ==
    /\ pc = "plan"
    /\ Len(plans) < Len(found)
    /\ Target.path \in exists
    /\ ~(Copyable(Target.path) /\ Plannable(Target.path))
    /\ Refuse

\* The directory of the target is gone, or cannot be read.
PlanFails == pc = "plan" /\ Len(plans) < Len(found) /\ Fail

PlanEnds ==
    /\ pc = "plan"
    /\ Len(plans) = Len(found)
    /\ Goto(IF opts.yes \/ opts.all \/ ~opts.tty THEN "truncate"
                                                ELSE "confirm")
    /\ UNCHANGED <<tree, choice, copy, plans, next, wrote>>

\* y to the question about one plan; the last one starts the writes.
AnswerYes ==
    /\ pc = "confirm"
    /\ IF next < Len(plans) THEN next' = next + 1 /\ UNCHANGED pc
                            ELSE next' = 1 /\ Goto("truncate")
    /\ UNCHANGED <<tree, choice, copy, plans, wrote>>

AnswerNo ==
    /\ pc = "confirm"
    /\ EndAs("cancelled")

Writes(content) ==
    /\ plans[next].target \in exists
    /\ file' = [file EXCEPT ![plans[next].target] = content]
    /\ wrote' = wrote \cup {plans[next].target}
    /\ UNCHANGED <<exists, signals, source, edits, touched, choice, copy,
                   plans>>

\* os.WriteFile: the file is created or truncated first.
Truncate ==
    /\ pc = "truncate"
    /\ Writes("empty")
    /\ Goto("write")
    /\ UNCHANGED next

\* Seeded fault: the writes stop one target early.
WriteShort ==
    /\ pc = "write"
    /\ Writes(plans[next].content)
    /\ next' = next + 1
    /\ Goto(IF next + 1 < Len(plans) THEN "truncate" ELSE "done")

Write ==
    /\ pc = "write"
    /\ Writes(plans[next].content)
    /\ next' = next + 1
    /\ Goto(IF next < Len(plans) THEN "truncate" ELSE "done")

\* The files written before stay written.
WriteFails == pc \in {"truncate", "write"} /\ Fail

Crash ==
    /\ pc \notin Ended
    /\ EndAs("killed")

-----------------------------------------------------------------------------
(* Others *)

Edit(what) ==
    /\ edits < MaxEdits
    /\ edits' = edits + 1
    /\ touched' = touched \cup {what}
    /\ UNCHANGED <<signals, pc, choice, copy, plans, next, wrote>>

UserCreates(d) == /\ d \in exists /\ file[d] = "none"
                  /\ file' = [file EXCEPT ![d] = "user"]
                  /\ Edit(d)
                  /\ UNCHANGED <<exists, source>>

UserDeletes(d) == /\ file[d] # "none"
                  /\ file' = [file EXCEPT ![d] = "none"]
                  /\ Edit(d)
                  /\ UNCHANGED <<exists, source>>

\* With everything below it.
UserRemovesDir(d) ==
    /\ d \in exists \ {Root}
    /\ exists' = exists \ Below(d)
    /\ file' = [e \in Dirs |-> IF e \in Below(d) THEN "none" ELSE file[e]]
    /\ Edit("dirs")
    /\ UNCHANGED source

UserEditsSource == /\ opts.from
                   /\ source' \in Sources \ {source}
                   /\ Edit("source")
                   /\ UNCHANGED <<exists, file>>

ScaffoldNext ==
    \/ StartAt \/ StartScan \/ StartFails \/ Visit \/ VisitFails \/ ScanEnds
    \/ SelectRoot \/ SelectAll \/ RefuseMany \/ AnswerOne \/ AnswerQuit
    \/ LoadSource \/ LoadFails \/ ReadSource
    \/ PlanOne \/ PlanRefused \/ PlanFails \/ PlanEnds
    \/ AnswerYes \/ AnswerNo \/ Truncate \/ Write \/ WriteFails \/ Crash
    \/ /\ pc \notin Ended
       /\ \E d \in Dirs : UserCreates(d) \/ UserDeletes(d) \/ UserRemovesDir(d)
    \/ pc \notin Ended /\ UserEditsSource

ScaffoldSpec == ScaffoldInit /\ [][ScaffoldNext]_scaffoldVars

-----------------------------------------------------------------------------
(* Properties *)

\* The directories the scan is about: not too deep, not in a skipped tree, and
\* not in another checkout.
InScope(d) ==
    /\ d \in exists
    /\ Depth(d) <= MaxScanDepth
    /\ (Range(Path[d]) \ {Root}) \cap (SkippedTrees \cup NestedGitRoots) = {}

\* The candidates are those in scope, in lexical order, unless directories went
\* away meanwhile (docs/40-cli-contract.md:34, Scan).
ScanFindsAll ==
    pc = "select" /\ "dirs" \notin touched =>
        /\ {found[i].path : i \in DOMAIN found}
              = {d \in Dirs : InScope(d) /\ IsCandidate(d)}
        /\ \A i \in DOMAIN found : found[i] = CandidateAt(found[i].path)
        /\ \A i, j \in DOMAIN found :
              i < j => Place(found[i].path) < Place(found[j].path)

\* A run that is refused or cancelled has written nothing, however many targets
\* it had planned or asked about (writeCandidates, executeFromTargets).
RefusalWritesNothing ==
    pc \in {"refused", "cancelled"} => wrote = {}

\* A run that succeeds has written a whole adapter to every target chosen, and
\* nothing else was touched by it (commitWrites).
SuccessWritesAll ==
    pc = "done" /\ ~opts.list =>
        /\ wrote = {found[i].path : i \in DOMAIN found}
        /\ \A i \in DOMAIN plans :
              file[plans[i].target] = plans[i].content
              \/ touched \cap {plans[i].target, "dirs"} # {}

\* Without --force init changes no adapter that was there when it began, and
\* with --force only regular files, however late it writes (planWrite): but
\* what others changed meanwhile is not looked at again.
ExistingStay ==
    [][Truncate =>
        LET d == plans[next].target
        IN \/ file[d] = "none"
           \/ file[d] # "link" /\ opts.force
           \/ touched \cap {d, "dirs"} # {}]_scaffoldVars

\* As long as the source stays as it was, every copy of it that init has made,
\* also one of a run that then failed or was killed, is of an adapter that is
\* valid and has no path outside of the directory it is in
\* (executeFromTargets, validateCopiedAdapter).
CopiesFit ==
    opts.from /\ "source" \notin touched =>
        \A d \in wrote : file[d] \in Sources =>
            file[d] \in Valid /\ d \notin Escaping[file[d]]

\* init.go:610, "refusing to overwrite existing %s without --force".
NothingOverwritten ==
    [][~opts.force /\ Truncate
            => file[plans[next].target] = "none"]_scaffoldVars

\* docs/50-adapter-schema.md:78, "devlane first validates the source adapter
\* against the current schema and then copies the YAML as-is": what is copied
\* was validated.
CopiedWasValidated ==
    opts.from => \A d \in wrote : file[d] \in Sources => file[d] \in Valid
=============================================================================
