------------------------------ MODULE LockFile ------------------------------
(***************************************************************************)
(* acquireCatalogLock and catalogLock.Close on the file they share: an     *)
(* flock that is polled until a deadline, and the pid of the process that  *)
(* got it, which a process that gives up reads without having the lock.    *)
(*                                                                         *)
(* The kernel keeps the flock with the open file and drops it when the     *)
(* process ends; the bytes of the file stay.  A pid is the sequence of its *)
(* digits.  The deadline is a number of tries; a slow process may reach it *)
(* after fewer.                                                            *)
(***************************************************************************)
EXTENDS Naturals, Sequences

CONSTANTS
    Procs,          \* devlane processes
    NoProc,         \* nobody has the flock
    Pid,            \* per process: the digits of its pid
    MaxTries        \* bound: tries before the deadline

ASSUME LockAssumption ==
    /\ NoProc \notin Procs
    /\ Pid \in [Procs -> Seq(Nat)]
    /\ MaxTries \in Nat \ {0}

VARIABLES
    flock,      \* who has the flock of the file
    content,    \* what is written in the file
    pc,         \* per process: what it is doing
    tries,      \* per process: its tries for the flock
    named       \* per process: whom its message names, as read

vars == <<flock, content, pc, tries, named>>

Waiting == {"trying", "busy", "reading"}
Locked  == {"truncating", "writing", "held"}

TypeOK ==
    /\ flock   \in Procs \cup {NoProc}
    /\ content \in Seq(Nat)
    /\ pc      \in [Procs -> Waiting \cup Locked \cup {"idle", "refused"}]
    /\ tries   \in [Procs -> 0 .. MaxTries]
    /\ named   \in [Procs -> Seq(Nat)]

Init ==
    /\ flock   = NoProc
    /\ content = <<>>
    /\ pc      = [p \in Procs |-> "idle"]
    /\ tries   = [p \in Procs |-> 0]
    /\ named   = [p \in Procs |-> <<>>]

-----------------------------------------------------------------------------

Goto(p, next) == pc' = [pc EXCEPT ![p] = next]

Unlocked(p) == IF flock = p THEN NoProc ELSE flock

\* The process returns to its caller with an error, ends, or is killed.
Exit(p) ==
    /\ Goto(p, "idle")
    /\ flock'  = Unlocked(p)
    /\ tries'  = [tries EXCEPT ![p] = 0]
    /\ named'  = [named EXCEPT ![p] = <<>>]
    /\ UNCHANGED content

\* Seeded fault: the file is opened with O_TRUNC.
OpenTruncates(p) ==
    /\ pc[p] = "idle"
    /\ Goto(p, "trying")
    /\ content' = <<>>
    /\ UNCHANGED <<flock, tries, named>>

\* MkdirAll and OpenFile with O_CREATE: what is in the file stays.
Open(p) ==
    /\ pc[p] = "idle"
    /\ Goto(p, "trying")
    /\ UNCHANGED <<flock, content, tries, named>>

\* Seeded fault: LOCK_SH, which others may have too.
FlockShared(p) ==
    /\ pc[p] = "trying"
    /\ flock' = p
    /\ Goto(p, "truncating")
    /\ UNCHANGED <<content, tries, named>>

\* Flock with LOCK_EX and LOCK_NB succeeds.
Flock(p) ==
    /\ pc[p] = "trying"
    /\ flock = NoProc
    /\ flock' = p
    /\ Goto(p, "truncating")
    /\ UNCHANGED <<content, tries, named>>

\* EWOULDBLOCK.
FlockBusy(p) ==
    /\ pc[p] = "trying"
    /\ flock # NoProc
    /\ tries' = [tries EXCEPT ![p] = @ + 1]
    /\ Goto(p, "busy")
    /\ UNCHANGED <<flock, content, named>>

\* Seeded fault: the deadline is moved at every try.
SleepAgain(p) ==
    /\ pc[p] = "busy"
    /\ tries' = [tries EXCEPT ![p] = 0]
    /\ Goto(p, "trying")
    /\ UNCHANGED <<flock, content, named>>

\* The deadline has not passed: sleep and try again.
Sleep(p) ==
    /\ pc[p] = "busy"
    /\ tries[p] < MaxTries
    /\ Goto(p, "trying")
    /\ UNCHANGED <<flock, content, tries, named>>

\* The deadline has passed; the file is read after the last try.
GiveUp(p) ==
    /\ pc[p] = "busy"
    /\ Goto(p, "reading")
    /\ UNCHANGED <<flock, content, tries, named>>

\* readLockHolder, without the flock.
ReadHolder(p) ==
    /\ pc[p] = "reading"
    /\ named' = [named EXCEPT ![p] = content]
    /\ Goto(p, "refused")
    /\ UNCHANGED <<flock, content, tries>>

\* The message is printed and the command ends.
Refused(p) == pc[p] = "refused" /\ Exit(p)

\* Seeded fault: the file is not truncated.
TruncateNothing(p) ==
    /\ pc[p] = "truncating"
    /\ Goto(p, "writing")
    /\ UNCHANGED <<flock, content, tries, named>>

\* Truncate and Seek.
Truncate(p) ==
    /\ pc[p] = "truncating"
    /\ content' = <<>>
    /\ Goto(p, "writing")
    /\ UNCHANGED <<flock, tries, named>>

\* The bytes of the file from 0 on become `bytes`; what lies behind stays.
WrittenAtStart(bytes, file) ==
    [i \in 1 .. (IF Len(bytes) < Len(file) THEN Len(file) ELSE Len(bytes)) |->
        IF i <= Len(bytes) THEN bytes[i] ELSE file[i]]

\* Fprintf of the pid; the lock is returned to the caller.
WritePid(p) ==
    /\ pc[p] = "writing"
    /\ content' = WrittenAtStart(Pid[p], content)
    /\ tries'  = [tries EXCEPT ![p] = 0]
    /\ Goto(p, "held")
    /\ UNCHANGED <<flock, named>>

\* An error of flock, truncate, seek or write: unlocked, closed, returned.
AcquireFails(p) ==
    /\ pc[p] \in {"trying", "truncating", "writing"}
    /\ Exit(p)

\* Close, deferred by Mutate and made by every end of a prepare session.
Close(p) == pc[p] = "held" /\ Exit(p)

\* A kill at any moment; the kernel closes the file.
Crash(p) == pc[p] # "idle" /\ Exit(p)

Step(p) ==
    \/ Flock(p) \/ FlockBusy(p) \/ Sleep(p) \/ GiveUp(p) \/ ReadHolder(p)
    \/ Refused(p) \/ Truncate(p) \/ WritePid(p) \/ Close(p)

Next == \E p \in Procs : Open(p) \/ Step(p) \/ AcquireFails(p) \/ Crash(p)

Spec == Init /\ [][Next]_vars

\* Nobody stops for good in the middle, or with the lock; nobody needs to
\* begin, to fail or to be killed.
FairSpec == Spec /\ \A p \in Procs : WF_vars(Step(p))

-----------------------------------------------------------------------------
(* Properties *)

\* Whoever works under the lock is the one the file names, whatever those do
\* who wait or gave up (acquireCatalogLock writes the file only once it has
\* the flock, and truncates it first): a timeout can name the holder.
HolderIsRecorded ==
    \A p \in Procs : pc[p] = "held" => content = Pid[p]

\* The file never holds a mixture of two pids, and so no message names a
\* process that does not exist (Truncate before Fprintf).
MessagesNameProcesses ==
    \A p \in Procs : named[p] \in {<<>>} \cup {Pid[q] : q \in Procs}

\* The flock and what the processes do with its answer are a lock: at most one
\* process at a time is between acquireCatalogLock and Close (HostCatalog
\* takes this lock as one variable).
Lock == INSTANCE CatalogLock
           WITH waiting <- {p \in Procs : pc[p] \in Waiting \cup {"refused"}},
                working <- {p \in Procs : pc[p] \in Locked}

ImplementsLock == Lock!Spec

\* Every process that asks for the lock gets it or is told so, whoever else
\* keeps taking it (the deadline of acquireCatalogLock).
WaitersAreAnswered ==
    \A p \in Procs : pc[p] = "trying" ~> pc[p] \in {"held", "refused", "idle"}
=============================================================================
