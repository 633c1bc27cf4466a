------------------------- MODULE LocalOutputsProofs -------------------------
(***************************************************************************)
(* Proofs about LocalOutputs, for every plan, every set of versions and    *)
(* every set of processes.                                                 *)
(***************************************************************************)
EXTENDS LocalOutputs, TLAPS

-----------------------------------------------------------------------------
(* Types *)

\* The indices of the outputs, the first and the last one among them.
LEMMA PlanBounds ==
    /\ Last \in Nat \ {0}
    /\ Indices = 1 .. Last
BY PlanAssumption DEF Last, Indices

\* A process in the middle of a loop is at one of the outputs.
LoopInv ==
    \A p \in Procs :
        pc[p] \in {"snapshot", "stage", "promote", "rollback"} =>
            pos[p] \in Indices

TypeInv == TypeOK /\ LoopInv

\* Going on to the next output, or to the first one of the next loop.
LEMMA AdvanceType ==
    ASSUME TypeInv, NEW p \in Procs, NEW phase \in Phases, pos[p] \in Indices,
           Advance(p, phase)
    PROVE  /\ pc' \in [Procs -> Phases]
           /\ pos' \in [Procs -> 0 .. Last]
           /\ LoopInv'
<1> USE DEF TypeInv, TypeOK, LoopInv
<1>1. CASE pos[p] = Last
  <2>1. 1 \in Indices /\ 1 \in 0 .. Last
    BY PlanBounds
  <2>2. QED
    BY <1>1, <2>1 DEF Advance
<1>2. CASE pos[p] # Last
  <2>1. pos[p] + 1 \in Indices /\ pos[p] + 1 \in 0 .. Last
    BY <1>2, PlanBounds
  <2>2. pc' = pc /\ pos' = [pos EXCEPT ![p] = pos[p] + 1]
    BY <1>2 DEF Advance
  <2>3. QED
    BY <2>1, <2>2
<1>3. QED
  BY <1>1, <1>2

\* A process that ends is in no loop.
LEMMA ExitType ==
    ASSUME TypeInv, NEW p \in Procs, Exit(p)
    PROVE  /\ lock' \in Procs \cup {NoProc}
           /\ pc' \in [Procs -> Phases]
           /\ pos' \in [Procs -> 0 .. Last]
           /\ version' \in [Procs -> Versions \cup {Absent}]
           /\ snapshot' \in [Procs -> [Indices -> Contents]]
           /\ promoted' \in [Procs -> SUBSET Indices]
           /\ LoopInv'
<1>1. Nothing \in [Indices -> Contents]
  BY DEF Nothing, Contents
<1>2. QED
  BY <1>1, PlanBounds DEF TypeInv, TypeOK, LoopInv, Exit, Phases

\* The step back of a rollback stays in the plan until it leaves the loop.
LEMMA StepBackType ==
    ASSUME TypeInv, NEW p \in Procs, pc[p] = "rollback", StepBack(p)
    PROVE  /\ pc' \in [Procs -> Phases]
           /\ pos' \in [Procs -> 0 .. Last]
           /\ LoopInv'
BY PlanBounds DEF TypeInv, TypeOK, LoopInv, StepBack, Phases

\* The types are inductive: one step per action.
LEMMA TypeInductive == TypeInv /\ [Next]_vars => TypeInv'
<1> SUFFICES ASSUME TypeInv, [Next]_vars PROVE TypeInv'
  OBVIOUS
<1> USE DEF procVars, upVars
<1>1. CASE UNCHANGED vars
  BY <1>1 DEF vars, TypeInv, TypeOK, LoopInv
<1>2. CASE Next
  <2>1. sawAll' \in BOOLEAN /\ raced' \in BOOLEAN
    <3>1. sawAll' \in BOOLEAN
      BY <1>2 DEF Next, Observe
    <3>2. raced' \in BOOLEAN
      BY <1>2 DEF Next, Observe, TypeInv, TypeOK
    <3>3. QED
      BY <3>1, <3>2
  <2>2. ASSUME NEW p \in Procs, Begin(p) PROVE TypeInv'
    BY <2>1, <2>2, PlanBounds DEF Begin, TypeInv, TypeOK, LoopInv, Phases
  <2>3. ASSUME NEW p \in Procs, Snapshot(p) PROVE TypeInv'
    <3>1. pos[p] \in Indices /\ disk[pos[p]] \in Contents
      BY <2>3 DEF Snapshot, TypeInv, TypeOK, LoopInv
    <3>2. snapshot' \in [Procs -> [Indices -> Contents]]
      BY <2>3, <3>1 DEF Snapshot, TypeInv, TypeOK
    <3>3. QED
      BY <2>1, <2>3, <3>1, <3>2, AdvanceType
      DEF Snapshot, TypeInv, TypeOK, Phases
  <2>4. ASSUME NEW p \in Procs, StageOne(p) PROVE TypeInv'
    <3>1. pos[p] \in Indices
      BY <2>4 DEF StageOne, TypeInv, LoopInv
    <3>2. QED
      BY <2>1, <2>4, <3>1, AdvanceType DEF StageOne, TypeInv, TypeOK, Phases
  <2>5. ASSUME NEW p \in Procs, PlanFails(p) PROVE TypeInv'
    BY <2>1, <2>5, ExitType DEF PlanFails, TypeInv, TypeOK
  <2>6. ASSUME NEW p \in Procs, PromoteOne(p) PROVE TypeInv'
    <3>1. pos[p] \in Indices
      BY <2>6 DEF PromoteOne, TypeInv, LoopInv
    <3>2. disk' \in [Indices -> Contents]
      BY <2>6, <3>1 DEF PromoteOne, TypeInv, TypeOK, Contents
    <3>3. QED
      <4>1. /\ pc' \in [Procs -> Phases]
            /\ pos' \in [Procs -> 0 .. Last]
            /\ LoopInv'
        BY <2>6, <3>1, AdvanceType DEF PromoteOne, Phases
      <4>2. /\ promoted' \in [Procs -> SUBSET Indices]
            /\ temps' \in [Procs -> SUBSET Indices]
        BY <2>6, <3>1 DEF PromoteOne, TypeInv, TypeOK
      <4>3. QED
        BY <2>1, <2>6, <3>2, <4>1, <4>2 DEF PromoteOne, TypeInv, TypeOK
  <2>7. ASSUME NEW p \in Procs, PromoteFails(p) \/ PublishFails(p)
        PROVE  TypeInv'
    <3>1. Last \in Indices /\ Last \in 0 .. Last
      BY PlanBounds
    <3>2. BeginRollback(p)
      BY <2>7 DEF PromoteFails, PublishFails
    <3>3. QED
      BY <2>1, <3>1, <3>2 DEF BeginRollback, TypeInv, TypeOK, LoopInv, Phases
  <2>8. ASSUME NEW p \in Procs, Restore(p) PROVE TypeInv'
    <3>1. pos[p] \in Indices /\ snapshot[p] \in [Indices -> Contents]
      BY <2>8 DEF Restore, TypeInv, TypeOK, LoopInv
    <3>2. disk' \in [Indices -> Contents]
      BY <2>8, <3>1 DEF Restore, TypeInv, TypeOK
    <3>3. QED
      BY <2>1, <2>8, <3>2, StepBackType DEF Restore, StepBack, TypeInv, TypeOK
  <2>9. ASSUME NEW p \in Procs, RestoreFails(p) PROVE TypeInv'
    BY <2>1, <2>9, StepBackType DEF RestoreFails, StepBack, TypeInv, TypeOK
  <2>10. ASSUME NEW p \in Procs, Cleanup(p) PROVE TypeInv'
    BY <2>1, <2>10, ExitType DEF Cleanup, TypeInv, TypeOK
  <2>11. ASSUME NEW p \in Procs, Succeed(p) PROVE TypeInv'
    BY <2>1, <2>11, ExitType DEF Succeed, TypeInv, TypeOK
  <2>12. ASSUME NEW p \in Procs, Crash(p) PROVE TypeInv'
    BY <2>1, <2>12, ExitType DEF Crash, TypeInv, TypeOK
  <2>13. CASE UserEdits
    <3>1. disk' \in [Indices -> Contents]
      BY <2>13, PlanAssumption
      DEF UserEdits, TypeInv, TypeOK, Contents, Indices
    <3>2. QED
      BY <2>1, <2>13, <3>1 DEF UserEdits, TypeInv, TypeOK, LoopInv
  <2>14. CASE UpBegins \/ UpReads \/ UpEnds
    BY <2>1, <2>14, PlanBounds, PlanAssumption
    DEF UpBegins, UpReads, UpEnds, TypeInv, TypeOK, LoopInv
  <2>15. QED
    BY <1>2, <2>2, <2>3, <2>4, <2>5, <2>6, <2>7, <2>8, <2>9, <2>10, <2>11,
       <2>12, <2>13, <2>14 DEF Next, Step
<1>3. QED
  BY <1>1, <1>2

LEMMA TypeInitially == Init => TypeInv
<1> SUFFICES ASSUME Init PROVE TypeInv
  OBVIOUS
<1>1. Nothing \in [Indices -> Contents]
  BY DEF Nothing, Contents
<1>2. 0 \in 0 .. Last /\ 0 \in 0 .. Last + 1
  BY PlanBounds
<1>3. TypeOK
  BY <1>1, <1>2 DEF Init, TypeOK, Phases
<1>4. QED
  BY <1>3 DEF Init, TypeInv, LoopInv

\* Every variable keeps its type, whatever is prepared, edited and killed.
THEOREM TypeCorrect == Spec => []TypeOK
<1>1. Spec => []TypeInv
  BY TypeInitially, TypeInductive, PTL DEF Spec
<1>2. TypeInv => TypeOK
  BY DEF TypeInv
<1>3. QED
  BY <1>1, <1>2, PTL

-----------------------------------------------------------------------------
(* A prepare that succeeds has written every output *)

\* Whoever is at work has the catalog lock, so nobody else is.
LockInv == \A p \in Procs : pc[p] # "idle" => lock = p

\* The output is that of p, or the user has been at it since.
Settled(p, i) ==
    \/ disk[i] = version[p]
    \/ (i \in Editable /\ disk[i] \in {Edit, Absent})

\* The renames go through the plan from the front and skip nothing.
PrefixInv ==
    \A p \in Procs :
        /\ pc[p] = "promote" => \A i \in Indices : i < pos[p] => Settled(p, i)
        /\ pc[p] = "written" => \A i \in Indices : Settled(p, i)

Inv == TypeInv /\ LockInv /\ PrefixInv

\* What a process does that neither renames an output nor enters or leaves
\* the two phases of PrefixInv keeps the invariant: nobody else is at work.
LEMMA WorkerStep ==
    ASSUME Inv, NEW p \in Procs, pc[p] # "idle", lock' = lock,
           pc' = [pc EXCEPT ![p] = pc'[p]], pc'[p] \notin {"promote", "written"}
    PROVE  LockInv' /\ PrefixInv'
<1>1. \A q \in Procs \ {p} : pc'[q] = "idle"
  BY DEF Inv, LockInv, TypeInv, TypeOK
<1>2. lock' = p
  BY DEF Inv, LockInv
<1>3. LockInv'
  BY <1>1, <1>2 DEF LockInv
<1>4. PrefixInv'
  BY <1>1 DEF PrefixInv
<1>5. QED
  BY <1>3, <1>4

\* When the worker ends, everybody is idle.
LEMMA ExitStep ==
    ASSUME Inv, NEW p \in Procs, pc[p] # "idle", Exit(p)
    PROVE  LockInv' /\ PrefixInv'
<1>1. \A q \in Procs : pc'[q] = "idle"
  BY DEF Inv, LockInv, TypeInv, TypeOK, Exit
<1>2. QED
  BY <1>1 DEF LockInv, PrefixInv

\* The invariant is inductive: one step per action.
LEMMA PrefixInductive == Inv /\ [Next]_vars => LockInv' /\ PrefixInv'
<1> SUFFICES ASSUME Inv, [Next]_vars PROVE LockInv' /\ PrefixInv'
  OBVIOUS
<1> USE DEF procVars, upVars
<1>1. CASE UNCHANGED vars
  BY <1>1 DEF vars, Inv, LockInv, PrefixInv, Settled
<1>2. ASSUME NEW p \in Procs, Begin(p) PROVE LockInv' /\ PrefixInv'
  <2>1. \A q \in Procs : pc[q] = "idle"
    BY <1>2, PlanAssumption DEF Begin, Inv, LockInv
  <2>2. /\ lock' = p
        /\ pc'[p] = "snapshot"
        /\ \A q \in Procs \ {p} : pc'[q] = "idle"
    BY <1>2, <2>1 DEF Begin, Inv, TypeInv, TypeOK
  <2>3. QED
    BY <2>2 DEF LockInv, PrefixInv
<1>3. ASSUME NEW p \in Procs, Snapshot(p) PROVE LockInv' /\ PrefixInv'
  <2>1. /\ pc' = [pc EXCEPT ![p] = pc'[p]]
        /\ pc'[p] \in {"snapshot", "stage"}
    BY <1>3 DEF Snapshot, Advance, Inv, TypeInv, TypeOK
  <2>2. QED
    BY <1>3, <2>1, WorkerStep DEF Snapshot
<1>4. ASSUME NEW p \in Procs, StageOne(p) PROVE LockInv' /\ PrefixInv'
  <2>1. CASE pos[p] = Last
    <3>1. /\ lock' = p
          /\ pc'[p] = "promote" /\ pos'[p] = 1
          /\ \A q \in Procs \ {p} : pc'[q] = "idle"
      BY <1>4, <2>1 DEF StageOne, Advance, Inv, LockInv, TypeInv, TypeOK
    <3>2. \A i \in Indices : ~(i < pos'[p])
      BY <3>1, PlanBounds
    <3>3. Indices' = Indices
      BY DEF Indices
    <3>4. QED
      BY <3>1, <3>2, <3>3 DEF LockInv, PrefixInv
  <2>2. CASE pos[p] # Last
    <3>1. pc' = [pc EXCEPT ![p] = pc'[p]] /\ pc'[p] = "stage"
      BY <1>4, <2>2 DEF StageOne, Advance, Inv, TypeInv, TypeOK
    <3>2. QED
      BY <1>4, <3>1, WorkerStep DEF StageOne
  <2>3. QED
    BY <2>1, <2>2
<1>5. ASSUME NEW p \in Procs, PromoteOne(p) PROVE LockInv' /\ PrefixInv'
  <2>1. pos[p] \in Indices
    BY <1>5 DEF PromoteOne, Inv, TypeInv, LoopInv
  <2>2. \A i \in Indices : i < pos[p] \/ i = pos[p] => Settled(p, i)'
    <3>1. ASSUME NEW i \in Indices, i = pos[p] PROVE Settled(p, i)'
      BY <1>5, <3>1 DEF PromoteOne, Settled, Inv, TypeInv, TypeOK
    <3>2. ASSUME NEW i \in Indices, i # pos[p], Settled(p, i)
          PROVE  Settled(p, i)'
      BY <1>5, <3>2 DEF PromoteOne, Settled, Inv, TypeInv, TypeOK
    <3>3. \A i \in Indices : i < pos[p] => Settled(p, i)
      BY <1>5 DEF PromoteOne, Inv, PrefixInv
    <3>4. QED
      BY <3>1, <3>2, <3>3
  <2>3. /\ lock' = p
        /\ \A q \in Procs \ {p} : pc'[q] = "idle"
    BY <1>5 DEF PromoteOne, Advance, Inv, LockInv, TypeInv, TypeOK
  <2>4. LockInv'
    BY <2>3 DEF LockInv
  <2>5. CASE pos[p] = Last
    <3>1. pc'[p] = "written"
      BY <1>5, <2>5 DEF PromoteOne, Advance, Inv, TypeInv, TypeOK
    <3>2. \A i \in Indices : Settled(p, i)'
      BY <2>2, <2>5, PlanBounds
    <3>3. QED
      BY <2>3, <2>4, <3>1, <3>2 DEF PrefixInv, Indices
  <2>6. CASE pos[p] # Last
    <3>1. pc'[p] = "promote" /\ pos'[p] = pos[p] + 1
      BY <1>5, <2>6 DEF PromoteOne, Advance, Inv, TypeInv, TypeOK
    <3>2. \A i \in Indices : i < pos'[p] => Settled(p, i)'
      BY <2>1, <2>2, <3>1, PlanBounds
    <3>3. QED
      BY <2>3, <2>4, <3>1, <3>2 DEF PrefixInv, Indices
  <2>7. QED
    BY <2>5, <2>6
<1>6. ASSUME NEW p \in Procs, PromoteFails(p) \/ PublishFails(p)
      PROVE  LockInv' /\ PrefixInv'
  <2>1. /\ pc[p] # "idle" /\ lock' = lock
        /\ pc' = [pc EXCEPT ![p] = "rollback"]
    BY <1>6 DEF PromoteFails, PublishFails, BeginRollback
  <2>2. pc'[p] = "rollback"
    BY <2>1 DEF Inv, TypeInv, TypeOK
  <2>3. QED
    BY <2>1, <2>2, WorkerStep
<1>7. ASSUME NEW p \in Procs, Restore(p) \/ RestoreFails(p)
      PROVE  LockInv' /\ PrefixInv'
  <2>1. pc[p] = "rollback" /\ StepBack(p)
    BY <1>7 DEF Restore, RestoreFails
  <2>2. /\ pc' = [pc EXCEPT ![p] = pc'[p]]
        /\ pc'[p] \in {"rollback", "cleanup"}
    BY <2>1 DEF StepBack, Inv, TypeInv, TypeOK
  <2>3. QED
    BY <2>1, <2>2, WorkerStep DEF StepBack
<1>8. ASSUME NEW p \in Procs,
             PlanFails(p) \/ Cleanup(p) \/ Succeed(p) \/ Crash(p)
      PROVE  LockInv' /\ PrefixInv'
  BY <1>8, ExitStep DEF PlanFails, Cleanup, Succeed, Crash
<1>9. CASE UserEdits
  <2>1. PICK i \in Editable, c \in {Edit, Absent} :
            disk' = [disk EXCEPT ![i] = c]
    BY <1>9 DEF UserEdits
  <2>2. ASSUME NEW p \in Procs, NEW j \in Indices, Settled(p, j)
        PROVE  Settled(p, j)'
    BY <1>9, <2>1, <2>2 DEF UserEdits, Settled, Inv, TypeInv, TypeOK
  <2>3. QED
    BY <1>9, <2>2 DEF UserEdits, Inv, LockInv, PrefixInv, Indices
<1>10. CASE UpBegins \/ UpReads \/ UpEnds
  BY <1>10 DEF UpBegins, UpReads, UpEnds, Inv, LockInv, PrefixInv, Settled
<1>11. QED
  BY <1>1, <1>2, <1>3, <1>4, <1>5, <1>6, <1>7, <1>8, <1>9, <1>10
  DEF Next, Step

\* Whoever writes has the lock, and what it has written is its version.
LEMMA WriterInvariant == Spec => [](TypeInv /\ LockInv /\ PrefixInv)
<1>1. Init => Inv
  BY TypeInitially DEF Init, Inv, LockInv, PrefixInv
<1>2. Inv /\ [Next]_vars => Inv'
  BY TypeInductive, PrefixInductive DEF Inv
<1>3. Inv => TypeInv /\ LockInv /\ PrefixInv
  BY DEF Inv
<1>4. QED
  BY <1>1, <1>2, <1>3, PTL DEF Spec

\* When a prepare returns to its caller, every output is of its version: the
\* renames leave none out and no other prepare is between them.
THEOREM AllOutputsWritten == Spec => []PreparedTogether
<1>1. PrefixInv => PreparedTogether
  BY DEF PrefixInv, Settled, PreparedTogether
<1>2. QED
  BY <1>1, WriterInvariant, PTL

-----------------------------------------------------------------------------
(* A prepare that fails leaves no trace *)

\* The output is what p found, or the user has been at it since.
Kept(p, i) ==
    \/ disk[i] = snapshot[p][i]
    \/ (i \in Editable /\ disk[i] \in {Edit, Absent})

\* A rollback goes through the plan from the back and skips nothing, unless a
\* restore fails, which leaves the checkout torn.
SuffixInv ==
    \A p \in Procs :
        /\ pc[p] = "rollback" /\ ~torn =>
               \A i \in Indices : i > pos[p] => Kept(p, i)
        /\ pc[p] = "cleanup" /\ ~torn => \A i \in Indices : Kept(p, i)

\* When nobody rolls back there is nothing to show.
LEMMA NoRollback ==
    ASSUME \A p \in Procs : pc'[p] \notin {"rollback", "cleanup"}
    PROVE  SuffixInv'
BY DEF SuffixInv

\* Only the lock holder is not idle.
LEMMA OthersIdle ==
    ASSUME TypeInv, LockInv, NEW p \in Procs, pc[p] # "idle"
    PROVE  \A q \in Procs \ {p} : pc[q] = "idle"
BY DEF LockInv

\* The invariant is inductive: the actions that roll back, and the rest.
LEMMA SuffixInductive ==
    TypeInv /\ LockInv /\ SuffixInv /\ [Next]_vars => SuffixInv'
<1> SUFFICES ASSUME TypeInv, LockInv, SuffixInv, [Next]_vars PROVE SuffixInv'
  OBVIOUS
<1> USE DEF procVars, upVars
<1>1. CASE UNCHANGED vars
  BY <1>1 DEF vars, SuffixInv, Kept
<1>2. ASSUME NEW p \in Procs, Begin(p) PROVE SuffixInv'
  <2>1. \A q \in Procs : pc[q] = "idle"
    BY <1>2, PlanAssumption DEF Begin, LockInv
  <2>2. QED
    BY <1>2, <2>1, NoRollback DEF Begin, TypeInv, TypeOK
<1>3. ASSUME NEW p \in Procs, Snapshot(p) \/ StageOne(p) \/ PromoteOne(p)
      PROVE  SuffixInv'
  <2>1. \A q \in Procs \ {p} : pc'[q] = "idle"
    BY <1>3, OthersIdle
    DEF Snapshot, StageOne, PromoteOne, Advance, TypeInv, TypeOK
  <2>2. pc'[p] \notin {"rollback", "cleanup"}
    BY <1>3 DEF Snapshot, StageOne, PromoteOne, Advance, TypeInv, TypeOK
  <2>3. QED
    BY <2>1, <2>2, NoRollback
<1>4. ASSUME NEW p \in Procs, PromoteFails(p) \/ PublishFails(p)
      PROVE  SuffixInv'
  <2>1. /\ pc'[p] = "rollback" /\ pos'[p] = Last
        /\ \A q \in Procs \ {p} : pc'[q] = "idle"
    BY <1>4, OthersIdle
    DEF PromoteFails, PublishFails, BeginRollback, TypeInv, TypeOK
  <2>2. \A i \in Indices : ~(i > pos'[p])
    BY <2>1, PlanBounds
  <2>3. Indices' = Indices
    BY DEF Indices
  <2>4. QED
    BY <2>1, <2>2, <2>3 DEF SuffixInv
<1>5. ASSUME NEW p \in Procs, Restore(p) PROVE SuffixInv'
  <2>1. /\ pc[p] = "rollback" /\ pos[p] \in Indices
        /\ disk' = [disk EXCEPT ![pos[p]] = snapshot[p][pos[p]]]
        /\ snapshot' = snapshot /\ torn' = torn
        /\ pos' = [pos EXCEPT ![p] = pos[p] - 1]
        /\ pc' = IF pos[p] = 1 THEN [pc EXCEPT ![p] = "cleanup"] ELSE pc
    BY <1>5 DEF Restore, StepBack, TypeInv, LoopInv
  <2>2. \A q \in Procs \ {p} : pc'[q] = "idle"
    BY <2>1, OthersIdle DEF TypeInv, TypeOK
  <2>3. ASSUME ~torn', NEW i \in Indices, i >= pos[p]
        PROVE  Kept(p, i)'
    <3>1. CASE i = pos[p]
      BY <2>1, <3>1 DEF Kept, TypeInv, TypeOK
    <3>2. CASE i # pos[p]
      <4>1. i > pos[p]
        BY <2>1, <2>3, <3>2, PlanBounds
      <4>2. Kept(p, i)
        BY <2>1, <2>3, <4>1 DEF SuffixInv
      <4>3. QED
        BY <2>1, <3>2, <4>2 DEF Kept, TypeInv, TypeOK
    <3>3. QED
      BY <3>1, <3>2
  <2>4. pos'[p] = pos[p] - 1
    BY <2>1 DEF TypeInv, TypeOK
  <2>5. \A i \in Indices : i > pos'[p] => i >= pos[p]
    BY <2>1, <2>4, PlanBounds
  <2>6. pc'[p] = "cleanup" => \A i \in Indices : i >= pos[p]
    BY <2>1, PlanBounds DEF TypeInv, TypeOK
  <2>7. Indices' = Indices
    BY DEF Indices
  <2>8. QED
    BY <2>2, <2>3, <2>5, <2>6, <2>7 DEF SuffixInv
<1>6. ASSUME NEW p \in Procs, RestoreFails(p) PROVE SuffixInv'
  BY <1>6 DEF RestoreFails, SuffixInv
<1>7. ASSUME NEW p \in Procs,
             PlanFails(p) \/ Cleanup(p) \/ Succeed(p) \/ Crash(p)
      PROVE  SuffixInv'
  <2>1. pc[p] # "idle" /\ Exit(p)
    BY <1>7 DEF PlanFails, Cleanup, Succeed, Crash
  <2>2. \A q \in Procs : pc'[q] = "idle"
    BY <2>1, OthersIdle DEF Exit, TypeInv, TypeOK
  <2>3. QED
    BY <2>2, NoRollback
<1>8. CASE UserEdits
  <2>1. PICK i \in Editable, c \in {Edit, Absent} :
            disk' = [disk EXCEPT ![i] = c]
    BY <1>8 DEF UserEdits
  <2>2. ASSUME NEW p \in Procs, NEW j \in Indices, Kept(p, j)
        PROVE  Kept(p, j)'
    BY <1>8, <2>1, <2>2 DEF UserEdits, Kept, TypeInv, TypeOK
  <2>3. QED
    BY <1>8, <2>2 DEF UserEdits, SuffixInv, Indices
<1>9. CASE UpBegins \/ UpReads \/ UpEnds
  BY <1>9 DEF UpBegins, UpReads, UpEnds, SuffixInv, Kept
<1>10. QED
  BY <1>1, <1>2, <1>3, <1>4, <1>5, <1>6, <1>7, <1>8, <1>9 DEF Next, Step

\* After a rollback in which no restore failed every output is as the prepare
\* found it: the restores leave none out, also those that were not promoted.
THEOREM RollbackRestoresAll == Spec => []FailureLeavesNoTrace
<1>1. Init => SuffixInv
  BY DEF Init, SuffixInv
<1>2. SuffixInv => FailureLeavesNoTrace
  BY DEF SuffixInv, Kept, FailureLeavesNoTrace
<1>3. QED
  BY <1>1, <1>2, SuffixInductive, WriterInvariant, PTL DEF Spec

-----------------------------------------------------------------------------
(* Temporary files *)

\* Of a prepare that is past the renames no temporary is left, and of one
\* between them only those of the files to come.
TempsInv ==
    /\ TempsRemoved
    /\ \A p \in Procs :
           /\ pc[p] = "promote" => \A i \in temps[p] : i >= pos[p]
           /\ pc[p] = "written" => temps[p] = {}

\* The invariant is inductive: a process touches its own temporaries only.
LEMMA TempsInductive ==
    TypeInv /\ LockInv /\ TempsInv /\ [Next]_vars => TempsInv'
<1> SUFFICES ASSUME TypeInv, LockInv, TempsInv, [Next]_vars PROVE TempsInv'
  OBVIOUS
<1> USE DEF procVars, upVars, TempsInv, TempsRemoved
<1>1. CASE UNCHANGED vars \/ UserEdits \/ UpBegins \/ UpReads \/ UpEnds
  BY <1>1 DEF vars, UserEdits, UpBegins, UpReads, UpEnds
<1>2. ASSUME NEW p \in Procs, Begin(p) PROVE TempsInv'
  BY <1>2 DEF Begin, TypeInv, TypeOK
<1>3. ASSUME NEW p \in Procs, Snapshot(p) PROVE TempsInv'
  BY <1>3 DEF Snapshot, Advance, TypeInv, TypeOK
<1>4. ASSUME NEW p \in Procs, StageOne(p) PROVE TempsInv'
  <2>1. pos[p] \in Indices /\ temps'[p] \subseteq Indices
    BY <1>4 DEF StageOne, TypeInv, TypeOK, LoopInv
  <2>2. pc'[p] = "promote" => pos'[p] = 1
    BY <1>4 DEF StageOne, Advance, TypeInv, TypeOK
  <2>3. pc'[p] \in {"stage", "promote"}
    BY <1>4 DEF StageOne, Advance, TypeInv, TypeOK
  <2>4. pc'[p] = "promote" => \A i \in temps'[p] : i >= pos'[p]
    BY <2>1, <2>2, PlanBounds
  <2>5. \A q \in Procs \ {p} : /\ pc'[q] = pc[q] /\ pos'[q] = pos[q]
                               /\ temps'[q] = temps[q]
    BY <1>4 DEF StageOne, Advance, TypeInv, TypeOK
  <2>6. litter' = litter
    BY <1>4 DEF StageOne
  <2>7. QED
    BY <2>3, <2>4, <2>5, <2>6
<1>5. ASSUME NEW p \in Procs, PromoteOne(p) PROVE TempsInv'
  <2>1. /\ pos[p] \in Indices /\ temps[p] \subseteq Indices
        /\ temps'[p] = temps[p] \ {pos[p]}
        /\ \A i \in temps[p] : i >= pos[p]
    BY <1>5 DEF PromoteOne, TypeInv, TypeOK, LoopInv
  <2>2. \/ pos[p] = Last /\ pc'[p] = "written"
        \/ pos[p] # Last /\ pc'[p] = "promote" /\ pos'[p] = pos[p] + 1
    BY <1>5 DEF PromoteOne, Advance, TypeInv, TypeOK
  <2>3. pos[p] = Last => temps'[p] = {}
    BY <2>1, PlanBounds
  <2>4. \A i \in temps'[p] : i >= pos[p] + 1
    BY <2>1, PlanBounds
  <2>5. \A q \in Procs \ {p} : /\ pc'[q] = pc[q] /\ pos'[q] = pos[q]
                               /\ temps'[q] = temps[q]
    BY <1>5 DEF PromoteOne, Advance, TypeInv, TypeOK
  <2>6. litter' = litter
    BY <1>5 DEF PromoteOne
  <2>7. QED
    BY <2>2, <2>3, <2>4, <2>5, <2>6
<1>6. ASSUME NEW p \in Procs, PromoteFails(p) \/ PublishFails(p)
      PROVE  TempsInv'
  BY <1>6 DEF PromoteFails, PublishFails, BeginRollback, TypeInv, TypeOK
<1>7. ASSUME NEW p \in Procs, Restore(p) \/ RestoreFails(p) PROVE TempsInv'
  BY <1>7 DEF Restore, RestoreFails, StepBack, TypeInv, TypeOK
<1>8. ASSUME NEW p \in Procs,
             PlanFails(p) \/ Cleanup(p) \/ Succeed(p) \/ Crash(p)
      PROVE  TempsInv'
  BY <1>8 DEF PlanFails, Cleanup, Succeed, Crash, Exit, TypeInv, TypeOK
<1>9. QED
  BY <1>1, <1>2, <1>3, <1>4, <1>5, <1>6, <1>7, <1>8 DEF Next, Step

\* A prepare that got as far as promoting leaves no temporaries, whichever way
\* it ends, unless it is killed.
THEOREM NoTempsLeft == Spec => []TempsRemoved
<1>1. Init => TempsInv
  BY DEF Init, TempsInv, TempsRemoved
<1>2. TempsInv => TempsRemoved
  BY DEF TempsInv
<1>3. QED
  BY <1>1, <1>2, TempsInductive, WriterInvariant, PTL DEF Spec

-----------------------------------------------------------------------------
(* What `up` reads one by one was there at once *)

\* Unless a user edits while a prepare runs, the outputs are the version of
\* the prepare up to where it is, and what it found from there on; a rollback
\* leaves that order as it is before the place it has come back to.
Orderly(p) ==
    /\ pc[p] = "snapshot" =>
           \A i \in Indices : i < pos[p] => disk[i] = snapshot[p][i]
    /\ pc[p] = "stage" => \A i \in Indices : disk[i] = snapshot[p][i]
    /\ pc[p] = "promote" =>
           \A i \in Indices :
               disk[i] = IF i < pos[p] THEN version[p] ELSE snapshot[p][i]
    /\ pc[p] = "written" => \A i \in Indices : disk[i] = version[p]
    /\ pc[p] = "rollback" =>
           /\ \A i \in Indices :
                  i <= pos[p] => disk[i] \in {version[p], snapshot[p][i]}
           /\ \A i, j \in Indices :
                  i < j /\ j <= pos[p] =>
                      disk[i] = version[p] \/ disk[j] = snapshot[p][j]

OrderInv == ~raced => \A p \in Procs : Orderly(p)

\* The lock is free only if everybody is idle, so nobody's files are edited.
LEMMA EditsFindIdle ==
    ASSUME LockInv, UserEdits, Observe, ~raced'
    PROVE  \A p \in Procs : pc[p] = "idle" /\ pc'[p] = "idle"
BY PlanAssumption DEF LockInv, UserEdits, Observe, procVars

\* A step of p in which it stays the only worker concerns its own order.
LEMMA OrderOfWorker ==
    ASSUME \A q \in Procs : pc'[q] # "idle" => Orderly(q)'
    PROVE  OrderInv'
BY DEF OrderInv, Orderly

\* The order is inductive: one step per action.
LEMMA OrderInductive ==
    TypeInv /\ LockInv /\ OrderInv /\ [Next]_vars => OrderInv'
<1> SUFFICES ASSUME TypeInv, LockInv, OrderInv, [Next]_vars, ~raced'
             PROVE  OrderInv'
  BY DEF OrderInv
<1> USE DEF procVars, upVars
<1>1. CASE UNCHANGED vars
  BY <1>1 DEF vars, OrderInv, Orderly
<1>2. CASE Next
  <2>1. \A p \in Procs : Orderly(p)
    BY <1>2 DEF Next, Observe, OrderInv
  <2>2. Indices' = Indices /\ Indices = 1 .. Last /\ Last \in Nat \ {0}
    BY PlanBounds DEF Indices
  <2>3. ASSUME NEW p \in Procs, Begin(p) PROVE OrderInv'
    <3>1. \A q \in Procs \ {p} : pc'[q] = "idle"
      BY <2>3, PlanAssumption DEF Begin, LockInv, TypeInv, TypeOK
    <3>2. pc'[p] = "snapshot" /\ pos'[p] = 1
      BY <2>3 DEF Begin, TypeInv, TypeOK
    <3>3. Orderly(p)'
      BY <2>2, <3>2 DEF Orderly
    <3>4. QED
      BY <3>1, <3>3, OrderOfWorker
  <2>4. ASSUME NEW p \in Procs, Snapshot(p) PROVE OrderInv'
    <3>1. \A q \in Procs \ {p} : pc'[q] = "idle"
      BY <2>4, OthersIdle DEF Snapshot, Advance, TypeInv, TypeOK
    <3>2. /\ pos[p] \in Indices /\ disk' = disk
          /\ snapshot'[p] = [snapshot[p] EXCEPT ![pos[p]] = disk[pos[p]]]
          /\ \/ pos[p] = Last /\ pc'[p] = "stage"
             \/ /\ pos[p] # Last /\ pc'[p] = "snapshot"
                /\ pos'[p] = pos[p] + 1
      BY <2>4 DEF Snapshot, Advance, TypeInv, TypeOK, LoopInv
    <3>3. \A i \in Indices : i <= pos[p] => disk'[i] = snapshot'[p][i]
      <4>1. ASSUME NEW i \in Indices, i < pos[p]
            PROVE  disk'[i] = snapshot'[p][i]
        BY <2>1, <2>2, <2>4, <3>2, <4>1
        DEF Snapshot, Orderly, TypeInv, TypeOK
      <4>2. disk'[pos[p]] = snapshot'[p][pos[p]]
        BY <3>2 DEF TypeInv, TypeOK
      <4>3. \A i \in Indices : i <= pos[p] => i < pos[p] \/ i = pos[p]
        BY <2>2, <3>2
      <4>4. QED
        BY <4>1, <4>2, <4>3
    <3>4. Orderly(p)'
      BY <2>2, <3>2, <3>3 DEF Orderly
    <3>5. QED
      BY <3>1, <3>4, OrderOfWorker
  <2>5. ASSUME NEW p \in Procs, StageOne(p) PROVE OrderInv'
    <3>1. \A q \in Procs \ {p} : pc'[q] = "idle"
      BY <2>5, OthersIdle DEF StageOne, Advance, TypeInv, TypeOK
    <3>2. /\ disk' = disk /\ snapshot' = snapshot /\ version' = version
          /\ \/ pc'[p] = "stage"
             \/ pc'[p] = "promote" /\ pos'[p] = 1
      BY <2>5 DEF StageOne, Advance, TypeInv, TypeOK
    <3>3. \A i \in Indices : disk[i] = snapshot[p][i]
      BY <2>1, <2>5 DEF StageOne, Orderly
    <3>4. Orderly(p)'
      BY <2>2, <3>2, <3>3 DEF Orderly
    <3>5. QED
      BY <3>1, <3>4, OrderOfWorker
  <2>6. ASSUME NEW p \in Procs, PromoteOne(p) PROVE OrderInv'
    <3>1. \A q \in Procs \ {p} : pc'[q] = "idle"
      BY <2>6, OthersIdle DEF PromoteOne, Advance, TypeInv, TypeOK
    <3>2. /\ pos[p] \in Indices /\ snapshot' = snapshot /\ version' = version
          /\ disk' = [disk EXCEPT ![pos[p]] = version[p]]
          /\ \/ pos[p] = Last /\ pc'[p] = "written"
             \/ /\ pos[p] # Last /\ pc'[p] = "promote"
                /\ pos'[p] = pos[p] + 1
      BY <2>6 DEF PromoteOne, Advance, TypeInv, TypeOK, LoopInv
    <3>3. \A i \in Indices :
              disk'[i] = IF i <= pos[p] THEN version[p] ELSE snapshot[p][i]
      <4>1. ASSUME NEW i \in Indices, i # pos[p]
            PROVE  disk'[i] = IF i < pos[p] THEN version[p]
                              ELSE snapshot[p][i]
        BY <2>1, <2>6, <3>2, <4>1 DEF PromoteOne, Orderly, TypeInv, TypeOK
      <4>2. disk'[pos[p]] = version[p]
        BY <3>2 DEF TypeInv, TypeOK
      <4>3. QED
        BY <2>2, <3>2, <4>1, <4>2
    <3>4. Orderly(p)'
      BY <2>2, <3>2, <3>3 DEF Orderly
    <3>5. QED
      BY <3>1, <3>4, OrderOfWorker
  <2>7. ASSUME NEW p \in Procs, PromoteFails(p) \/ PublishFails(p)
        PROVE  OrderInv'
    <3>1. /\ pc[p] \in {"promote", "written"}
          /\ disk' = disk /\ snapshot' = snapshot /\ version' = version
          /\ pc'[p] = "rollback" /\ pos'[p] = Last
          /\ \A q \in Procs \ {p} : pc'[q] = "idle"
      BY <2>7, OthersIdle
      DEF PromoteFails, PublishFails, BeginRollback, TypeInv, TypeOK
    <3>2. pos[p] \in 0 .. Last
      BY DEF TypeInv, TypeOK
    <3>3. Orderly(p)
      BY <2>1
    <3>4. CASE pc[p] = "promote"
      <4>1. \A i \in Indices :
                disk[i] = IF i < pos[p] THEN version[p] ELSE snapshot[p][i]
        BY <3>3, <3>4 DEF Orderly
      <4>2. \A i, j \in Indices :
                i < j => disk[i] = version[p] \/ disk[j] = snapshot[p][j]
        BY <2>2, <3>2, <4>1
      <4>3. Orderly(p)'
        BY <2>2, <3>1, <4>1, <4>2 DEF Orderly
      <4>4. QED
        BY <3>1, <4>3, OrderOfWorker
    <3>5. CASE pc[p] = "written"
      <4>1. \A i \in Indices : disk[i] = version[p]
        BY <3>3, <3>5 DEF Orderly
      <4>2. Orderly(p)'
        BY <2>2, <3>1, <4>1 DEF Orderly
      <4>3. QED
        BY <3>1, <4>2, OrderOfWorker
    <3>6. QED
      BY <3>1, <3>4, <3>5
  <2>8. ASSUME NEW p \in Procs, Restore(p) \/ RestoreFails(p)
        PROVE  OrderInv'
    <3>1. /\ pc[p] = "rollback" /\ pos[p] \in Indices
          /\ snapshot' = snapshot /\ version' = version
          /\ \A i \in Indices : i # pos[p] => disk'[i] = disk[i]
          /\ pc'[p] \in {"rollback", "cleanup"}
          /\ pos'[p] = pos[p] - 1
          /\ \A q \in Procs \ {p} : pc'[q] = "idle"
      BY <2>8, OthersIdle
      DEF Restore, RestoreFails, StepBack, TypeInv, TypeOK, LoopInv
    <3>2. \A i \in Indices : i <= pos'[p] => i < pos[p] /\ disk'[i] = disk[i]
      BY <2>2, <3>1
    <3>3. Orderly(p)
      BY <2>1
    <3>4. Orderly(p)'
      BY <2>2, <3>1, <3>2, <3>3 DEF Orderly
    <3>5. QED
      BY <3>1, <3>4, OrderOfWorker
  <2>9. ASSUME NEW p \in Procs,
               PlanFails(p) \/ Cleanup(p) \/ Succeed(p) \/ Crash(p)
        PROVE  OrderInv'
    <3>1. pc[p] # "idle" /\ Exit(p)
      BY <2>9 DEF PlanFails, Cleanup, Succeed, Crash
    <3>2. \A q \in Procs : pc'[q] = "idle"
      BY <3>1, OthersIdle DEF Exit, TypeInv, TypeOK
    <3>3. QED
      BY <3>2, OrderOfWorker
  <2>10. CASE UserEdits
    BY <1>2, <2>10, EditsFindIdle, OrderOfWorker DEF Next
  <2>11. CASE UpBegins \/ UpReads \/ UpEnds
    BY <2>1, <2>11 DEF UpBegins, UpReads, UpEnds, OrderInv, Orderly
  <2>12. QED
    BY <1>2, <2>3, <2>4, <2>5, <2>6, <2>7, <2>8, <2>9, <2>10, <2>11
    DEF Next, Step
<1>3. QED
  BY <1>1, <1>2

\* `up` has not yet read past an output that is not as it expects.
Ahead == \E i \in Verified : i >= upAt /\ disk[i] # expects

\* Of a prepare that renders another version than `up` expects: such an output
\* will not be put right by the rollback, since it was not so before either or
\* its restore has failed; or nothing that is compared has been read yet.
Hopeless(p) ==
    \/ \E i \in Verified :
           /\ i >= upAt /\ disk[i] # expects
           /\ \/ snapshot[p][i] # expects
              \/ pc[p] = "rollback" /\ i > pos[p]
    \/ \A i \in Verified : i >= upAt

\* While `up` runs and the outputs were never all as it expects, it has not
\* passed all of them, whoever renames and restores.
Unseen ==
    /\ Ahead
    /\ \A p \in Procs :
           /\ pc[p] \in {"promote", "written", "rollback"}
           /\ version[p] # expects
           => Hopeless(p)

UpInv ==
    /\ upAt # 0 => expects \in Versions
    /\ upAt # 0 /\ ~sawAll /\ ~raced => Unseen

\* What is observed of a step after which the outputs were not seen.
LEMMA NotSeen ==
    ASSUME TypeInv, Observe, ~sawAll', ~raced', upAt' # 0
    PROVE  /\ ~sawAll /\ ~raced
           /\ \E i \in Verified : disk'[i] # expects'
BY DEF Observe, TypeInv, TypeOK

\* A step in which p stays the only worker concerns its own hope.
LEMMA HopeOfWorker ==
    ASSUME NEW p \in Procs, \A q \in Procs \ {p} : pc'[q] = "idle", Ahead',
           /\ pc'[p] \in {"promote", "written", "rollback"}
           /\ version'[p] # expects'
           => Hopeless(p)'
    PROVE  Unseen'
BY DEF Unseen, Hopeless

LEMMA NobodyToHope ==
    ASSUME \A q \in Procs :
               pc'[q] \notin {"promote", "written", "rollback"}, Ahead'
    PROVE  Unseen'
BY DEF Unseen

\* The invariant is inductive: what prepares do, and what `up` does.
LEMMA UpInductive ==
    /\ TypeInv /\ LockInv /\ OrderInv /\ UpInv
    /\ [Next]_vars
    => UpInv'
<1> SUFFICES ASSUME TypeInv, LockInv, OrderInv, UpInv, [Next]_vars
             PROVE  UpInv'
  OBVIOUS
<1> USE DEF procVars, upVars
<1>1. CASE UNCHANGED vars
  BY <1>1 DEF vars, UpInv, Unseen, Hopeless, Ahead
<1>2. CASE Next
  <2>1. upAt' # 0 => expects' \in Versions
    <3>1. CASE UpBegins \/ UpReads \/ UpEnds
      BY <3>1, PlanAssumption, PlanBounds
      DEF UpBegins, UpReads, UpEnds, UpInv, TypeInv, TypeOK
    <3>2. CASE UserEdits
      BY <3>2 DEF UserEdits, UpInv
    <3>3. ASSUME NEW p \in Procs, Step(p)
          PROVE  upAt' = upAt /\ expects' = expects
      BY <3>3 DEF Step, Begin, Snapshot, StageOne, PlanFails, PromoteOne,
         PromoteFails, PublishFails, BeginRollback, Restore, RestoreFails,
         StepBack, Cleanup, Succeed, Crash
    <3>4. QED
      BY <1>2, <3>1, <3>2, <3>3 DEF Next, UpInv
  <2>2. SUFFICES ASSUME upAt' # 0, ~sawAll', ~raced'
                 PROVE  Unseen'
    BY <2>1 DEF UpInv
  <2>3. /\ ~sawAll /\ ~raced
        /\ \E i \in Verified : disk'[i] # expects'
    BY <1>2, <2>2, NotSeen DEF Next
  <2>4. \A p \in Procs : Orderly(p)
    BY <2>3 DEF OrderInv
  <2>5. upAt # 0 => expects \in Versions /\ Unseen
    BY <2>3 DEF UpInv
  <2>6. /\ Verified \subseteq Indices /\ Indices = 1 .. Last
        /\ Last \in Nat \ {0} /\ upAt \in 0 .. Last + 1
    BY PlanBounds, PlanAssumption DEF Indices, TypeInv, TypeOK
  <2>7. ASSUME NEW p \in Procs, Begin(p) \/ Snapshot(p) PROVE Unseen'
    <3>1. \A q \in Procs \ {p} : pc[q] = "idle" /\ pc'[q] = "idle"
      BY <2>7, OthersIdle, PlanAssumption
      DEF Begin, Snapshot, Advance, LockInv, TypeInv, TypeOK
    <3>2. pc'[p] \in {"snapshot", "stage"}
      BY <2>7 DEF Begin, Snapshot, Advance, TypeInv, TypeOK
    <3>3. Ahead'
      BY <2>2, <2>5, <2>7 DEF Begin, Snapshot, Unseen, Ahead
    <3>4. QED
      BY <3>1, <3>2, <3>3, NobodyToHope
  <2>8. ASSUME NEW p \in Procs, StageOne(p) PROVE Unseen'
    <3>1. /\ disk' = disk /\ snapshot' = snapshot
          /\ upAt' = upAt /\ expects' = expects
          /\ \A q \in Procs \ {p} : pc'[q] = "idle"
      BY <2>8, OthersIdle DEF StageOne, Advance, TypeInv, TypeOK
    <3>2. PICK i \in Verified : i >= upAt /\ disk[i] # expects
      BY <2>2, <2>5, <3>1 DEF Unseen, Ahead
    <3>3. disk[i] = snapshot[p][i]
      BY <2>4, <2>6, <2>8 DEF StageOne, Orderly
    <3>4. Ahead' /\ Hopeless(p)'
      BY <3>1, <3>2, <3>3 DEF Ahead, Hopeless
    <3>5. QED
      BY <3>1, <3>4, HopeOfWorker
  <2>9. ASSUME NEW p \in Procs, PromoteOne(p) PROVE Unseen'
    <3>1. /\ pc[p] = "promote" /\ pos[p] \in Indices
          /\ disk' = [disk EXCEPT ![pos[p]] = version[p]]
          /\ snapshot' = snapshot /\ version' = version
          /\ upAt' = upAt /\ expects' = expects
          /\ \A q \in Procs \ {p} : pc'[q] = "idle"
      BY <2>9, OthersIdle
      DEF PromoteOne, Advance, TypeInv, TypeOK, LoopInv
    <3>2. disk \in [Indices -> Contents]
      BY DEF TypeInv, TypeOK
    <3>3. CASE version[p] = expects
      <4>1. PICK i \in Verified : i >= upAt /\ disk[i] # expects
        BY <2>2, <2>5, <3>1 DEF Unseen, Ahead
      <4>2. PICK j \in Verified : disk'[j] # expects
        BY <2>3, <3>1
      <4>3. \A k \in Indices : k < pos[p] => disk[k] = expects
        BY <2>4, <3>1, <3>3 DEF Orderly
      <4>4. j # pos[p] /\ disk'[j] = disk[j]
        BY <2>6, <3>1, <3>2, <3>3, <4>2
      <4>5. ~(i < pos[p]) /\ ~(j < pos[p])
        BY <2>6, <4>1, <4>2, <4>3, <4>4
      <4>6. CASE i = pos[p]
        <5>1. j >= upAt
          BY <2>6, <3>1, <4>1, <4>4, <4>5, <4>6
        <5>2. QED
          BY <3>1, <3>3, <4>2, <5>1, HopeOfWorker DEF Ahead
      <4>7. CASE i # pos[p]
        <5>1. disk'[i] = disk[i]
          BY <2>6, <3>1, <3>2, <4>7
        <5>2. QED
          BY <3>1, <3>3, <4>1, <5>1, HopeOfWorker DEF Ahead
      <4>8. QED
        BY <4>6, <4>7
    <3>4. CASE version[p] # expects
      <4>1. Hopeless(p)
        BY <2>2, <2>5, <3>1, <3>4 DEF Unseen
      <4>2. \A i \in Verified : disk[i] # expects => disk'[i] # expects
        BY <2>6, <3>1, <3>2, <3>4
      <4>3. Hopeless(p)'
        BY <3>1, <4>1, <4>2 DEF Hopeless
      <4>4. Ahead'
        BY <2>3, <3>1, <4>1, <4>2 DEF Hopeless, Ahead
      <4>5. QED
        BY <3>1, <4>3, <4>4, HopeOfWorker
    <3>5. QED
      BY <3>3, <3>4
  <2>10. ASSUME NEW p \in Procs, PromoteFails(p) \/ PublishFails(p)
         PROVE  Unseen'
    <3>1. /\ pc[p] \in {"promote", "written"}
          /\ disk' = disk /\ snapshot' = snapshot /\ version' = version
          /\ upAt' = upAt /\ expects' = expects
          /\ \A q \in Procs \ {p} : pc'[q] = "idle"
      BY <2>10, OthersIdle
      DEF PromoteFails, PublishFails, BeginRollback, TypeInv, TypeOK
    <3>2. Ahead'
      BY <2>2, <2>5, <3>1 DEF Unseen, Ahead
    <3>3. version[p] # expects => Hopeless(p)'
      BY <2>2, <2>5, <3>1 DEF Unseen, Hopeless
    <3>4. QED
      BY <3>1, <3>2, <3>3, HopeOfWorker
  <2>11. ASSUME NEW p \in Procs, Restore(p) \/ RestoreFails(p)
         PROVE  Unseen'
    <3>1. /\ pc[p] = "rollback" /\ pos[p] \in Indices
          /\ disk' \in {disk, [disk EXCEPT ![pos[p]] = snapshot[p][pos[p]]]}
          /\ snapshot' = snapshot /\ version' = version
          /\ upAt' = upAt /\ expects' = expects
          /\ pos'[p] = pos[p] - 1
          /\ \A q \in Procs \ {p} : pc'[q] = "idle"
      BY <2>11, OthersIdle
      DEF Restore, RestoreFails, StepBack, TypeInv, TypeOK, LoopInv
    <3>2. disk \in [Indices -> Contents]
      BY DEF TypeInv, TypeOK
    <3>3. disk[pos[p]] \in {version[p], snapshot[p][pos[p]]}
      BY <2>4, <2>6, <3>1 DEF Orderly
    <3>4. CASE version[p] = expects
      <4>1. PICK i \in Verified : i >= upAt /\ disk[i] # expects
        BY <2>2, <2>5, <3>1 DEF Unseen, Ahead
      <4>2. disk'[i] # expects
        BY <2>6, <3>1, <3>2, <3>3, <3>4, <4>1
      <4>3. Ahead'
        BY <3>1, <4>1, <4>2 DEF Ahead
      <4>4. QED
        BY <3>1, <3>4, <4>3, HopeOfWorker
    <3>5. CASE version[p] # expects
      <4>1. Hopeless(p)
        BY <2>2, <2>5, <3>1, <3>5 DEF Unseen
      <4>2. CASE \A i \in Verified : i >= upAt
        BY <2>3, <3>1, <4>2, HopeOfWorker DEF Hopeless, Ahead
      <4>3. ASSUME NEW i \in Verified, i >= upAt, disk[i] # expects,
                   snapshot[p][i] # expects \/ i > pos[p]
            PROVE  Unseen'
        <5>1. disk'[i] # expects
          BY <2>6, <3>1, <3>2, <4>3
        <5>2. snapshot[p][i] # expects \/ i > pos'[p]
          BY <2>6, <3>1, <4>3
        <5>3. pc'[p] \in {"promote", "written", "rollback"}
              => pc'[p] = "rollback"
          BY <2>11, <3>1
          DEF Restore, RestoreFails, StepBack, TypeInv, TypeOK
        <5>4. QED
          BY <3>1, <4>3, <5>1, <5>2, <5>3, HopeOfWorker DEF Ahead, Hopeless
      <4>4. QED
        BY <4>1, <4>2, <4>3 DEF Hopeless
    <3>6. QED
      BY <3>4, <3>5
  <2>12. ASSUME NEW p \in Procs,
                PlanFails(p) \/ Cleanup(p) \/ Succeed(p) \/ Crash(p)
         PROVE  Unseen'
    <3>1. /\ pc[p] # "idle" /\ Exit(p)
          /\ disk' = disk /\ upAt' = upAt /\ expects' = expects
      BY <2>12 DEF PlanFails, Cleanup, Succeed, Crash
    <3>2. \A q \in Procs : pc'[q] = "idle"
      BY <3>1, OthersIdle DEF Exit, TypeInv, TypeOK
    <3>3. Ahead'
      BY <2>2, <2>5, <3>1 DEF Unseen, Ahead
    <3>4. QED
      BY <3>2, <3>3, NobodyToHope
  <2>13. CASE UserEdits
    <3>1. \A q \in Procs : pc'[q] = "idle"
      BY <1>2, <2>2, <2>13, EditsFindIdle DEF Next
    <3>2. PICK e \in Editable, c \in {Edit, Absent} :
              disk' = [disk EXCEPT ![e] = c]
      BY <2>13 DEF UserEdits
    <3>3. upAt' = upAt /\ expects' = expects
      BY <2>13 DEF UserEdits
    <3>4. PICK i \in Verified : i >= upAt /\ disk[i] # expects
      BY <2>2, <2>5, <3>3 DEF Unseen, Ahead
    <3>5. disk'[i] # expects
      BY <2>2, <2>5, <2>6, <3>2, <3>3, <3>4, PlanAssumption
      DEF TypeInv, TypeOK
    <3>6. Ahead'
      BY <3>3, <3>4, <3>5 DEF Ahead
    <3>7. QED
      BY <3>1, <3>6, NobodyToHope
  <2>14. CASE UpBegins
    <3>1. upAt' = 1 /\ \A i \in Verified : i >= 1
      BY <2>6, <2>14 DEF UpBegins
    <3>2. QED
      BY <2>3, <3>1 DEF Unseen, Ahead, Hopeless
  <2>15. CASE UpReads
    <3>1. /\ upAt \in Indices /\ upAt' = upAt + 1 /\ expects' = expects
          /\ upAt \in Verified => disk[upAt] = expects
          /\ disk' = disk /\ pc' = pc /\ pos' = pos
          /\ version' = version /\ snapshot' = snapshot
      BY <2>15 DEF UpReads
    <3>2. Unseen
      BY <2>5, <2>6, <3>1
    <3>3. \A i \in Verified : i >= upAt /\ disk[i] # expects => i >= upAt'
      BY <2>6, <3>1
    <3>4. Ahead'
      BY <3>1, <3>2, <3>3 DEF Unseen, Ahead
    <3>5. ASSUME NEW p \in Procs, version[p] # expects,
                 pc[p] \in {"promote", "written", "rollback"}
          PROVE  Hopeless(p)'
      <4>1. Hopeless(p)
        BY <3>2, <3>5 DEF Unseen
      <4>2. ASSUME NEW i \in Verified, i >= upAt, disk[i] # expects,
                   \/ snapshot[p][i] # expects
                   \/ pc[p] = "rollback" /\ i > pos[p]
            PROVE  Hopeless(p)'
        BY <3>1, <3>3, <4>2 DEF Hopeless
      <4>3. CASE \A i \in Verified : i >= upAt
        <5>1. CASE upAt \notin Verified
          BY <2>6, <3>1, <4>3, <5>1 DEF Hopeless
        <5>2. CASE upAt \in Verified
          <6>1. PICK j \in Verified : j >= upAt /\ disk[j] # expects
            BY <3>2 DEF Unseen, Ahead
          <6>2. disk[upAt] = expects /\ upAt < j
            BY <2>6, <3>1, <5>2, <6>1
          <6>3. Orderly(p) /\ pos[p] \in 0 .. Last
            BY <2>4 DEF TypeInv, TypeOK
          <6>4. CASE pc[p] = "promote"
            <7>1. ~(upAt < pos[p])
              BY <2>6, <3>1, <3>5, <6>2, <6>3, <6>4 DEF Orderly
            <7>2. ~(j < pos[p])
              BY <2>6, <3>1, <6>2, <6>3, <7>1
            <7>3. disk[j] = snapshot[p][j]
              BY <2>6, <6>3, <6>4, <7>2 DEF Orderly
            <7>4. QED
              BY <4>2, <6>1, <7>3
          <6>5. CASE pc[p] = "written"
            BY <2>6, <3>1, <3>5, <6>2, <6>3, <6>5 DEF Orderly
          <6>6. CASE pc[p] = "rollback" /\ ~(j > pos[p])
            <7>1. disk[j] = snapshot[p][j]
              BY <2>6, <3>1, <3>5, <6>2, <6>3, <6>6 DEF Orderly
            <7>2. QED
              BY <4>2, <6>1, <7>1
          <6>7. QED
            BY <3>5, <4>2, <6>1, <6>4, <6>5, <6>6
        <5>3. QED
          BY <5>1, <5>2
      <4>4. QED
        BY <4>1, <4>2, <4>3 DEF Hopeless
    <3>6. QED
      BY <3>1, <3>4, <3>5 DEF Unseen
  <2>16. CASE UpEnds
    BY <2>2, <2>16 DEF UpEnds
  <2>17. QED
    BY <1>2, <2>7, <2>8, <2>9, <2>10, <2>11, <2>12, <2>13, <2>14, <2>15,
       <2>16 DEF Next, Step
<1>3. QED
  BY <1>1, <1>2

\* When `up` has found every output it compares to be as it expects, one after
\* the other and without a lock, they all were so at one moment while it read,
\* unless a user edited one while a prepare ran.
THEOREM UpIsNotFooled == Spec => []UpSawPreparedOutputs
<1>1. Init => OrderInv /\ UpInv
  BY DEF Init, OrderInv, Orderly, UpInv
<1>2. TypeInv /\ UpInv => UpSawPreparedOutputs
  <2>1. SUFFICES ASSUME UpInv, upAt = Last + 1, ~sawAll, ~raced PROVE FALSE
    BY DEF UpSawPreparedOutputs
  <2>2. upAt # 0
    BY <2>1, PlanBounds
  <2>3. PICK i \in Verified : i >= upAt
    BY <2>1, <2>2 DEF UpInv, Unseen, Ahead
  <2>4. i \in 1 .. Last
    BY <2>3, PlanBounds, PlanAssumption DEF Indices
  <2>5. QED
    BY <2>1, <2>3, <2>4, PlanBounds
<1>3. QED
  BY <1>1, <1>2, OrderInductive, UpInductive, WriterInvariant, PTL DEF Spec

-----------------------------------------------------------------------------
(* Generated files and their sidecars *)

\* The contents f agree with the hashes among them, except where a user has
\* edited.
Agree(f) ==
    \A g \in Generated : \/ f[g] = f[g + 1]
                         \/ g \in Editable /\ f[g] \in {Edit, Absent}

\* What p has read of a generated file agrees with the sidecar on the disk.
Known(p, g) ==
    \/ snapshot[p][g] = disk[g + 1]
    \/ g \in Editable /\ snapshot[p][g] \in {Edit, Absent}

\* What a prepare finds agrees, and so does what it may put back; before its
\* first rename nothing but edits has changed.
Found(p) ==
    /\ pc[p] = "snapshot" =>
           /\ Agree(disk)
           /\ \A i \in Indices : i < pos[p] => Kept(p, i)
           /\ \A g \in Generated : g < pos[p] => Known(p, g)
    /\ pc[p] = "stage" =>
           /\ Agree(disk)
           /\ \A i \in Indices : Kept(p, i)
           /\ \A g \in Generated : Known(p, g)
    /\ pc[p] \in {"promote", "written", "rollback", "cleanup"} =>
           /\ Agree(snapshot[p])
           /\ promoted[p] = {} => \A i \in Indices : Kept(p, i)

HashInv ==
    ~torn => /\ lock = NoProc => Agree(disk)
             /\ \A p \in Procs : Found(p)

\* A generated file and its sidecar are outputs; only the first is edited.
LEMMA Sidecars ==
    \A g \in Generated : g \in Indices /\ g + 1 \in Indices \ Editable
BY PlanAssumption DEF Indices

\* If every output is as p found it, and that agrees, the disk does.
LEMMA KeptAgrees ==
    ASSUME NEW p \in Procs, Agree(snapshot[p]), \A i \in Indices : Kept(p, i)
    PROVE  Agree(disk)
BY Sidecars DEF Agree, Kept

\* A step in which p stays the only worker concerns what it found.
LEMMA FoundByWorker ==
    ASSUME NEW p \in Procs, lock' = p,
           \A q \in Procs \ {p} : pc'[q] = "idle",
           ~torn' => Found(p)'
    PROVE  HashInv'
BY PlanAssumption DEF HashInv, Found

\* When nobody works the disk is what matters.
LEMMA FoundByNobody ==
    ASSUME \A q \in Procs : pc'[q] = "idle", ~torn' => Agree(disk)'
    PROVE  HashInv'
BY DEF HashInv, Found

\* The invariant is inductive: one step per action.
LEMMA HashInductive ==
    /\ TypeInv /\ LockInv /\ PrefixInv /\ SuffixInv /\ HashInv
    /\ [Next]_vars
    => HashInv'
<1> SUFFICES ASSUME TypeInv, LockInv, PrefixInv, SuffixInv, HashInv,
                    [Next]_vars
             PROVE  HashInv'
  OBVIOUS
<1> USE DEF procVars, upVars
<1>1. CASE UNCHANGED vars \/ UpBegins \/ UpReads \/ UpEnds
  BY <1>1 DEF vars, UpBegins, UpReads, UpEnds, HashInv, Found, Agree, Known,
     Kept
<1>2. Indices' = Indices /\ Indices = 1 .. Last /\ Last \in Nat \ {0}
  BY PlanBounds DEF Indices
<1>3. ASSUME NEW p \in Procs, Begin(p) PROVE HashInv'
  <2>1. \A q \in Procs \ {p} : pc'[q] = "idle"
    BY <1>3, PlanAssumption DEF Begin, LockInv, TypeInv, TypeOK
  <2>2. /\ pc'[p] = "snapshot" /\ pos'[p] = 1
        /\ lock = NoProc /\ lock' = p /\ disk' = disk /\ torn' = torn
    BY <1>3 DEF Begin, TypeInv, TypeOK
  <2>3. \A i \in Indices : ~(i < 1)
    BY <1>2
  <2>4. ~torn' => Agree(disk)'
    BY <2>2 DEF HashInv, Agree
  <2>5. ~torn' => Found(p)'
    BY <1>2, <2>2, <2>3, <2>4, Sidecars DEF Found
  <2>6. QED
    BY <2>1, <2>2, <2>5, FoundByWorker
<1>4. ASSUME NEW p \in Procs, Snapshot(p) PROVE HashInv'
  <2>1. /\ pc[p] = "snapshot" /\ pos[p] \in Indices
        /\ disk' = disk /\ torn' = torn /\ lock' = p
        /\ snapshot' = [snapshot EXCEPT ![p][pos[p]] = disk[pos[p]]]
        /\ \/ pos[p] = Last /\ pc'[p] = "stage"
           \/ /\ pos[p] # Last /\ pc'[p] = "snapshot"
              /\ pos'[p] = pos[p] + 1
        /\ \A q \in Procs \ {p} : pc'[q] = "idle"
    BY <1>4, OthersIdle
    DEF Snapshot, Advance, LockInv, TypeInv, TypeOK, LoopInv
  <2>2. SUFFICES ASSUME ~torn' PROVE Found(p)'
    BY <2>1, FoundByWorker
  <2>3. Found(p)
    BY <2>1, <2>2 DEF HashInv
  <2>4. snapshot'[p][pos[p]] = disk[pos[p]]
    BY <2>1 DEF TypeInv, TypeOK
  <2>5. \A i \in Indices : i # pos[p] => snapshot'[p][i] = snapshot[p][i]
    BY <2>1 DEF TypeInv, TypeOK
  <2>6. \A i \in Indices : i <= pos[p] => i < pos[p] \/ i = pos[p]
    BY <1>2, <2>1
  <2>7. Agree(disk)'
    BY <2>1, <2>3 DEF Found, Agree
  <2>8. \A i \in Indices : i <= pos[p] => Kept(p, i)'
    <3>1. ASSUME NEW i \in Indices, i < pos[p] PROVE Kept(p, i)'
      <4>1. Kept(p, i) /\ i # pos[p]
        BY <1>2, <2>1, <2>3, <3>1 DEF Found
      <4>2. QED
        BY <2>1, <2>5, <4>1 DEF Kept
    <3>2. ASSUME NEW i \in Indices, i = pos[p] PROVE Kept(p, i)'
      BY <2>1, <2>4, <3>2 DEF Kept
    <3>3. QED
      BY <2>6, <3>1, <3>2
  <2>9. \A g \in Generated : g <= pos[p] => Known(p, g)'
    <3>1. ASSUME NEW g \in Generated, g < pos[p] PROVE Known(p, g)'
      <4>1. Known(p, g) /\ g # pos[p] /\ g \in Indices
        BY <1>2, <2>1, <2>3, <3>1, Sidecars DEF Found
      <4>2. QED
        BY <2>1, <2>5, <4>1 DEF Known
    <3>2. ASSUME NEW g \in Generated, g = pos[p] PROVE Known(p, g)'
      BY <2>1, <2>3, <2>4, <3>2 DEF Found, Agree, Known
    <3>3. QED
      BY <2>6, <3>1, <3>2, Sidecars
  <2>10. CASE pc'[p] = "stage"
    <3>1. \A i \in Indices : i <= pos[p]
      BY <1>2, <2>1, <2>10
    <3>2. QED
      BY <1>2, <2>7, <2>8, <2>9, <2>10, <3>1, Sidecars DEF Found
  <2>11. CASE pc'[p] = "snapshot" /\ pos'[p] = pos[p] + 1
    <3>1. \A i \in Indices : i < pos'[p] => i <= pos[p]
      BY <1>2, <2>1, <2>11
    <3>2. QED
      BY <1>2, <2>7, <2>8, <2>9, <2>11, <3>1, Sidecars DEF Found
  <2>12. QED
    BY <2>1, <2>10, <2>11
<1>5. ASSUME NEW p \in Procs, StageOne(p) PROVE HashInv'
  <2>1. /\ pc[p] = "stage" /\ pc'[p] \in {"stage", "promote"}
        /\ disk' = disk /\ torn' = torn /\ lock' = p
        /\ snapshot' = snapshot /\ promoted' = promoted
        /\ \A q \in Procs \ {p} : pc'[q] = "idle"
    BY <1>5, OthersIdle DEF StageOne, Advance, LockInv, TypeInv, TypeOK
  <2>2. SUFFICES ASSUME ~torn' PROVE Found(p)'
    BY <2>1, FoundByWorker
  <2>3. /\ Agree(disk)
        /\ \A i \in Indices : Kept(p, i)
        /\ \A g \in Generated : Known(p, g)
    BY <2>1, <2>2 DEF HashInv, Found
  <2>4. Agree(snapshot[p])
    BY <2>3, Sidecars DEF Agree, Kept, Known
  <2>5. /\ Agree(disk)' /\ Agree(snapshot[p])'
        /\ \A i \in Indices : Kept(p, i)'
        /\ \A g \in Generated : Known(p, g)'
    BY <2>1, <2>3, <2>4 DEF Agree, Kept, Known
  <2>6. QED
    BY <1>2, <2>1, <2>5 DEF Found
<1>6. ASSUME NEW p \in Procs, PromoteOne(p) PROVE HashInv'
  <2>1. /\ pc[p] = "promote" /\ pc'[p] \in {"promote", "written"}
        /\ torn' = torn /\ lock' = p /\ snapshot' = snapshot
        /\ promoted'[p] # {}
        /\ \A q \in Procs \ {p} : pc'[q] = "idle"
    BY <1>6, OthersIdle DEF PromoteOne, Advance, LockInv, TypeInv, TypeOK
  <2>2. ~torn' => Found(p)'
    BY <2>1 DEF HashInv, Found, Agree
  <2>3. QED
    BY <2>1, <2>2, FoundByWorker
<1>7. ASSUME NEW p \in Procs, PromoteFails(p) \/ PublishFails(p)
      PROVE  HashInv'
  <2>1. /\ pc[p] \in {"promote", "written"} /\ pc'[p] = "rollback"
        /\ torn' = torn /\ lock' = p /\ snapshot' = snapshot
        /\ disk' = disk /\ promoted' = promoted
        /\ \A q \in Procs \ {p} : pc'[q] = "idle"
    BY <1>7, OthersIdle
    DEF PromoteFails, PublishFails, BeginRollback, LockInv, TypeInv, TypeOK
  <2>2. ~torn' => Found(p)'
    BY <1>2, <2>1 DEF HashInv, Found, Agree, Kept
  <2>3. QED
    BY <2>1, <2>2, FoundByWorker
<1>8. ASSUME NEW p \in Procs, Restore(p) \/ RestoreFails(p) PROVE HashInv'
  <2>1. /\ pc[p] = "rollback" /\ pc'[p] \in {"rollback", "cleanup"}
        /\ pos[p] \in Indices
        /\ lock' = p /\ snapshot' = snapshot /\ promoted' = promoted
        /\ ~torn' => /\ ~torn
                     /\ disk' = [disk EXCEPT ![pos[p]] = snapshot[p][pos[p]]]
        /\ \A q \in Procs \ {p} : pc'[q] = "idle"
    BY <1>8, OthersIdle
    DEF Restore, RestoreFails, StepBack, LockInv, TypeInv, TypeOK, LoopInv
  <2>2. SUFFICES ASSUME ~torn' PROVE Found(p)'
    BY <2>1, FoundByWorker
  <2>3. Agree(snapshot[p])'
    BY <2>1, <2>2 DEF HashInv, Found, Agree
  <2>4. ASSUME promoted[p] = {}, NEW i \in Indices PROVE Kept(p, i)'
    <3>1. Kept(p, i)
      BY <2>1, <2>2, <2>4 DEF HashInv, Found
    <3>2. QED
      BY <2>1, <2>2, <3>1 DEF Kept, TypeInv, TypeOK
  <2>5. QED
    BY <1>2, <2>1, <2>3, <2>4 DEF Found
<1>9. ASSUME NEW p \in Procs,
             PlanFails(p) \/ Cleanup(p) \/ Succeed(p) \/ Crash(p)
      PROVE  HashInv'
  <2>1. pc[p] # "idle" /\ Exit(p) /\ disk' = disk
    BY <1>9 DEF PlanFails, Cleanup, Succeed, Crash
  <2>2. \A q \in Procs : pc'[q] = "idle"
    BY <2>1, OthersIdle DEF Exit, TypeInv, TypeOK
  <2>3. SUFFICES ASSUME ~torn' PROVE Agree(disk)
    BY <2>1, <2>2, FoundByNobody DEF Agree
  <2>4. CASE Succeed(p)
    <3>1. \A i \in Indices : Settled(p, i)
      BY <2>4 DEF Succeed, PrefixInv
    <3>2. QED
      BY <3>1, Sidecars DEF Settled, Agree
  <2>5. CASE Cleanup(p)
    <3>1. \A i \in Indices : Kept(p, i)
      BY <2>3, <2>5 DEF Cleanup, SuffixInv
    <3>2. Agree(snapshot[p])
      BY <2>3, <2>5 DEF Cleanup, HashInv, Found
    <3>3. QED
      BY <3>1, <3>2, KeptAgrees
  <2>6. CASE PlanFails(p)
    BY <2>3, <2>6 DEF PlanFails, HashInv, Found
  <2>7. CASE Crash(p)
    <3>1. ~torn /\ promoted[p] = {} /\ Found(p)
      BY <2>3, <2>7 DEF Crash, HashInv
    <3>2. CASE pc[p] \in {"snapshot", "stage"}
      BY <3>1, <3>2 DEF Found
    <3>3. CASE pc[p] \in {"promote", "written", "rollback", "cleanup"}
      BY <3>1, <3>3, KeptAgrees DEF Found
    <3>4. QED
      BY <2>1, <3>2, <3>3 DEF TypeInv, TypeOK, Phases
  <2>8. QED
    BY <1>9, <2>4, <2>5, <2>6, <2>7
<1>10. CASE UserEdits
  <2>1. PICK e \in Editable, c \in {Edit, Absent} :
            disk' = [disk EXCEPT ![e] = c]
    BY <1>10 DEF UserEdits
  <2>2. \A i \in Indices : disk'[i] = IF i = e THEN c ELSE disk[i]
    BY <2>1 DEF TypeInv, TypeOK
  <2>3. Agree(disk) => Agree(disk)'
    BY <2>2, Sidecars DEF Agree
  <2>4. ASSUME NEW p \in Procs, NEW i \in Indices, Kept(p, i)
        PROVE  Kept(p, i)'
    BY <1>10, <2>2, <2>4 DEF UserEdits, Kept
  <2>5. ASSUME NEW p \in Procs, NEW g \in Generated, Known(p, g)
        PROVE  Known(p, g)'
    BY <1>10, <2>2, <2>5, Sidecars DEF UserEdits, Known
  <2>6. \A p \in Procs : Agree(snapshot[p]) => Agree(snapshot[p])'
    BY <1>10 DEF UserEdits, Agree
  <2>7. ASSUME NEW p \in Procs, Found(p) PROVE Found(p)'
    BY <1>2, <1>10, <2>3, <2>4, <2>5, <2>6, <2>7 DEF UserEdits, Found
  <2>8. QED
    BY <1>10, <2>3, <2>7 DEF UserEdits, HashInv
<1>11. QED
  BY <1>1, <1>3, <1>4, <1>5, <1>6, <1>7, <1>8, <1>9, <1>10 DEF Next, Step

\* Between prepares a generated file that nobody edited is the one its sidecar
\* records, whatever failed and whenever a prepare was killed, once another
\* has succeeded.
THEOREM SidecarsAgree == Spec => []HashesAgree
<1>1. Init => SuffixInv /\ HashInv
  BY Sidecars DEF Init, SuffixInv, HashInv, Agree, Found, Nothing
<1>2. HashInv => HashesAgree
  BY DEF HashInv, Agree, HashesAgree
<1>3. QED
  BY <1>1, <1>2, SuffixInductive, HashInductive, WriterInvariant, PTL DEF Spec
=============================================================================
