------------------------ MODULE RunLifecycleProofs ------------------------
(***************************************************************************)
(* Proofs about RunLifecycle, for any number of loops and servers and any  *)
(* number of runs.                                                         *)
(***************************************************************************)
EXTENDS RunLifecycle, TLAPS

\* The bookkeeping of the runs holds when a workspace has none.
LEMMA InitInv == Init => TypeOK /\ LifecycleInv
<1> SUFFICES ASSUME Init PROVE TypeOK /\ LifecycleInv
  OBVIOUS
<1>1. TypeOK
  BY MaxRunsAssumption DEF Init, TypeOK, ProcRecord, AtRest
<1>2. IdsIssued
  BY DEF Init, IdsIssued, AtRest, NoRun
<1>3. LockHeld
  BY DEF Init, LockHeld, AtRest
<1>4. Unseen
  BY DEF Init, Unseen, AtRest, Reserved
<1>5. Prepared
  BY DEF Init, Prepared, AtRest
<1>6. Checked
  BY DEF Init, Checked, AtRest
<1>7. HandsFull
  BY DEF Init, HandsFull, AtRest
<1>8. CloserSees
  BY DEF Init, CloserSees, AtRest
<1>9. DanglingExplained
  BY DEF Init, DanglingExplained
<1> QED
  BY <1>1, <1>2, <1>3, <1>4, <1>5, <1>6, <1>7, <1>8, <1>9 DEF LifecycleInv

\* A loop starts a run under an id that nobody has yet.
LEMMA BeginRunKeeps ==
  ASSUME TypeOK, LifecycleInv, NEW p \in Procs, BeginRun(p)
  PROVE  TypeOK' /\ LifecycleInv'
<1>1. TypeOK'
  BY NoOneAssumption, MaxRunsAssumption
  DEF BeginRun, files, history, TypeOK, ProcRecord, Runs
<1>2. IdsIssued'
  BY NoOneAssumption, MaxRunsAssumption
  DEF BeginRun, files, NoRun, TypeOK, ProcRecord, Runs, LifecycleInv, IdsIssued
<1>3. LockHeld'
  BY DEF BeginRun, LifecycleInv, LockHeld
<1>4. Unseen'
  BY NoOneAssumption, MaxRunsAssumption, ProcsAssumption
  DEF BeginRun, Reserved, AtRest, files, TypeOK, LifecycleInv, IdsIssued, Unseen
<1>5. Prepared'
  BY DEF BeginRun, Complete, files, LifecycleInv, Prepared
<1>6. Checked'
  BY DEF BeginRun, Running, files, LifecycleInv, Checked
<1>7. HandsFull'
  BY DEF BeginRun, Complete, files, LifecycleInv, HandsFull
<1>8. CloserSees'
  BY DEF BeginRun, files, LifecycleInv, CloserSees
<1>9. DanglingExplained'
  BY DEF BeginRun, Running, AtRest, files, history, LifecycleInv, DanglingExplained
<1> QED
  BY <1>1, <1>2, <1>3, <1>4, <1>5, <1>6, <1>7, <1>8, <1>9 DEF LifecycleInv

\* A call that looks for a run reserves an id in case it has to start one.
LEMMA BeginJoinKeeps ==
  ASSUME TypeOK, LifecycleInv, NEW p \in Procs, BeginJoin(p)
  PROVE  TypeOK' /\ LifecycleInv'
<1>1. TypeOK'
  BY NoOneAssumption, MaxRunsAssumption
  DEF BeginJoin, files, history, TypeOK, ProcRecord, Runs
<1>2. IdsIssued'
  BY NoOneAssumption, MaxRunsAssumption
  DEF BeginJoin, files, NoRun, TypeOK, ProcRecord, Runs, LifecycleInv, IdsIssued
<1>3. LockHeld'
  BY DEF BeginJoin, LifecycleInv, LockHeld
<1>4. Unseen'
  BY NoOneAssumption, MaxRunsAssumption, ProcsAssumption
  DEF BeginJoin, Reserved, AtRest, files, TypeOK, LifecycleInv, IdsIssued, Unseen
<1>5. Prepared'
  BY DEF BeginJoin, Complete, files, LifecycleInv, Prepared
<1>6. Checked'
  BY DEF BeginJoin, Running, files, LifecycleInv, Checked
<1>7. HandsFull'
  BY DEF BeginJoin, Complete, files, LifecycleInv, HandsFull
<1>8. CloserSees'
  BY DEF BeginJoin, files, LifecycleInv, CloserSees
<1>9. DanglingExplained'
  BY DEF BeginJoin, Running, AtRest, files, history, LifecycleInv, DanglingExplained
<1> QED
  BY <1>1, <1>2, <1>3, <1>4, <1>5, <1>6, <1>7, <1>8, <1>9 DEF LifecycleInv

\* finish_task looks for a run and reserves no id.
LEMMA BeginFinishTaskKeeps ==
  ASSUME TypeOK, LifecycleInv, NEW p \in Procs, BeginFinishTask(p)
  PROVE  TypeOK' /\ LifecycleInv'
<1>1. TypeOK'
  BY DEF BeginFinishTask, AtRest, files, history, TypeOK, ProcRecord
<1>2. IdsIssued'
  BY DEF BeginFinishTask, files, LifecycleInv, IdsIssued
<1>3. LockHeld'
  BY DEF BeginFinishTask, LifecycleInv, LockHeld
<1>4. Unseen'
  BY DEF BeginFinishTask, Reserved, files, LifecycleInv, Unseen
<1>5. Prepared'
  BY DEF BeginFinishTask, Complete, files, LifecycleInv, Prepared
<1>6. Checked'
  BY DEF BeginFinishTask, Running, files, LifecycleInv, Checked
<1>7. HandsFull'
  BY DEF BeginFinishTask, Complete, files, LifecycleInv, HandsFull
<1>8. CloserSees'
  BY DEF BeginFinishTask, files, LifecycleInv, CloserSees
<1>9. DanglingExplained'
  BY DEF BeginFinishTask, Running, AtRest, files, history, LifecycleInv, DanglingExplained
<1> QED
  BY <1>1, <1>2, <1>3, <1>4, <1>5, <1>6, <1>7, <1>8, <1>9 DEF LifecycleInv

\* A start gets run.lock when nobody has it.
LEMMA AcquireKeeps ==
  ASSUME TypeOK, LifecycleInv, NEW p \in Procs, Acquire(p)
  PROVE  TypeOK' /\ LifecycleInv'
<1>1. TypeOK'
  BY DEF Acquire, files, history, TypeOK, ProcRecord
<1>2. IdsIssued'
  BY DEF Acquire, files, LifecycleInv, IdsIssued
<1>3. LockHeld'
  BY NoOneAssumption DEF Acquire, LifecycleInv, LockHeld, Procs
<1>4. Unseen'
  BY DEF Acquire, Reserved, At, files, LifecycleInv, Unseen
<1>5. Prepared'
  BY DEF Acquire, Complete, files, LifecycleInv, Prepared
<1>6. Checked'
  BY DEF Acquire, Running, files, LifecycleInv, Checked
<1>7. HandsFull'
  BY DEF Acquire, Complete, files, LifecycleInv, HandsFull
<1>8. CloserSees'
  BY DEF Acquire, files, LifecycleInv, CloserSees
<1>9. DanglingExplained'
  BY DEF Acquire, Running, files, history, LifecycleInv, DanglingExplained
<1> QED
  BY <1>1, <1>2, <1>3, <1>4, <1>5, <1>6, <1>7, <1>8, <1>9 DEF LifecycleInv

\* active.json exists or not: whoever asks has seen nothing of its content yet.
LEMMA PointerExistsKeeps ==
  ASSUME TypeOK, LifecycleInv, NEW p \in Procs, PointerExists(p)
  PROVE  TypeOK' /\ LifecycleInv'
<1>1. TypeOK'
  <2> DEFINE next == [proc[p] EXCEPT !.pc = IF active = NoRun THEN "pointer" ELSE "open",
                           !.seen = NoRun]
  <2>1. next \in ProcRecord
    BY DEF TypeOK, ProcRecord
  <2>2. proc' = [proc EXCEPT ![p] = next]
    BY DEF PointerExists
  <2> HIDE DEF next
  <2>3. proc' \in [Procs -> ProcRecord]
    BY <2>1, <2>2 DEF TypeOK
  <2> QED
    BY <2>3 DEF PointerExists, files, history, TypeOK
<1>2. IdsIssued'
  BY NoOneAssumption DEF PointerExists, files, NoRun, TypeOK, LifecycleInv, IdsIssued
<1>3. LockHeld'
  BY DEF PointerExists, LifecycleInv, LockHeld
<1>4. Unseen'
  BY DEF PointerExists, Reserved, files, LifecycleInv, Unseen
<1>5. Prepared'
  BY DEF PointerExists, Complete, files, LifecycleInv, Prepared
<1>6. Checked'
  BY DEF PointerExists, Running, files, LifecycleInv, Checked
<1>7. HandsFull'
  BY DEF PointerExists, Complete, files, LifecycleInv, HandsFull
<1>8. CloserSees'
  <2> SUFFICES ASSUME NEW q \in Procs, (proc[q].doing \in Closing)'
               PROVE  /\ (proc[q].pc = "pointer" /\ active = proc[q].run => proc[q].seen = active)'
                      /\ (proc[q].pc = "using" => q \in Loops)'
    BY DEF CloserSees
  <2>1. CASE q = p
    BY <2>1 DEF PointerExists, files
  <2>2. CASE q # p
    BY <2>2 DEF PointerExists, files, LifecycleInv, CloserSees
  <2> QED
    BY <2>1, <2>2
<1>9. DanglingExplained'
  BY DEF PointerExists, Running, files, history, LifecycleInv, DanglingExplained
<1> QED
  BY <1>1, <1>2, <1>3, <1>4, <1>5, <1>6, <1>7, <1>8, <1>9 DEF LifecycleInv

\* Whoever reads active.json sees a run that is complete.
LEMMA ReadPointerKeeps ==
  ASSUME TypeOK, LifecycleInv, NEW p \in Procs, ReadPointer(p)
  PROVE  TypeOK' /\ LifecycleInv'
<1>1. TypeOK'
  <2> DEFINE next == [proc[p] EXCEPT !.pc = "pointer", !.seen = active]
  <2>1. next \in ProcRecord
    BY DEF TypeOK, ProcRecord
  <2>2. proc' = [proc EXCEPT ![p] = next]
    BY DEF ReadPointer
  <2> HIDE DEF next
  <2>3. proc' \in [Procs -> ProcRecord]
    BY <2>1, <2>2 DEF TypeOK
  <2> QED
    BY <2>3 DEF ReadPointer, files, history, TypeOK
<1>2. IdsIssued'
  BY DEF ReadPointer, files, LifecycleInv, IdsIssued
<1>3. LockHeld'
  BY DEF ReadPointer, LifecycleInv, LockHeld
<1>4. Unseen'
  BY DEF ReadPointer, Reserved, files, LifecycleInv, Unseen
<1>5. Prepared'
  BY DEF ReadPointer, Complete, files, LifecycleInv, Prepared
<1>6. Checked'
  BY DEF ReadPointer, Running, files, LifecycleInv, Checked
<1>7. HandsFull'
  BY DEF ReadPointer, Complete, files, LifecycleInv, HandsFull
<1>8. CloserSees'
  BY DEF ReadPointer, files, LifecycleInv, CloserSees
<1>9. DanglingExplained'
  BY DEF ReadPointer, Running, files, history, LifecycleInv, DanglingExplained
<1> QED
  BY <1>1, <1>2, <1>3, <1>4, <1>5, <1>6, <1>7, <1>8, <1>9 DEF LifecycleInv

\* A read of a vanished active.json ends the call, or makes a loop finish once more.
LEMMA PointerVanishedKeeps ==
  ASSUME TypeOK, LifecycleInv, NEW p \in Procs, PointerVanished(p)
  PROVE  TypeOK' /\ LifecycleInv'
<1>1. TypeOK'
  <2>1. proc'[p] \in ProcRecord
    <3>1. CASE p \in Loops /\ proc[p].doing = "close"
      BY <3>1 DEF PointerVanished, ProcRecord, TypeOK
    <3>2. CASE ~(p \in Loops /\ proc[p].doing = "close")
      <4>1. proc[p] \in ProcRecord
        BY DEF TypeOK
      <4> QED
        BY <3>2, <4>1 DEF PointerVanished, AtRest, ProcRecord
    <3> QED
      BY <3>1, <3>2
  <2>2. \A q \in Procs : q # p => proc'[q] = proc[q]
    BY DEF PointerVanished
  <2>3. proc' \in [Procs -> ProcRecord]
    BY <2>1, <2>2 DEF PointerVanished, TypeOK
  <2> QED
    BY <2>3 DEF PointerVanished, Freed, files, history, TypeOK
<1>2. IdsIssued'
  BY DEF PointerVanished, AtRest, files, LifecycleInv, IdsIssued
<1>3. LockHeld'
  BY DEF PointerVanished, Freed, AtRest, TypeOK, LifecycleInv, LockHeld
<1>4. Unseen'
  BY DEF PointerVanished, Reserved, AtRest, files, LifecycleInv, Unseen
<1>5. Prepared'
  BY DEF PointerVanished, Complete, AtRest, files, LifecycleInv, Prepared
<1>6. Checked'
  BY DEF PointerVanished, Running, files, Checked
<1>7. HandsFull'
  BY DEF PointerVanished, Complete, AtRest, files, LifecycleInv, HandsFull
<1>8. CloserSees'
  BY DEF PointerVanished, AtRest, files, LifecycleInv, CloserSees
<1>9. DanglingExplained'
  BY DEF PointerVanished, files, DanglingExplained
<1> QED
  BY <1>1, <1>2, <1>3, <1>4, <1>5, <1>6, <1>7, <1>8, <1>9 DEF LifecycleInv

\* A start that meets a running run lets go of run.lock.
LEMMA StartRefusedKeeps ==
  ASSUME TypeOK, LifecycleInv, NEW p \in Procs, StartRefused(p)
  PROVE  TypeOK' /\ LifecycleInv'
<1>1. TypeOK'
  <2>1. proc'[p] \in ProcRecord
    <3>1. CASE p \in Loops
      BY <3>1 DEF StartRefused, AtRest, ProcRecord, TypeOK
    <3>2. CASE ~(p \in Loops)
      <4>1. proc[p] \in ProcRecord
        BY DEF TypeOK
      <4> QED
        BY <3>2, <4>1 DEF StartRefused, ProcRecord, TypeOK
    <3> QED
      BY <3>1, <3>2
  <2>2. \A q \in Procs : q # p => proc'[q] = proc[q]
    BY DEF StartRefused
  <2>3. proc' \in [Procs -> ProcRecord]
    BY <2>1, <2>2 DEF StartRefused, TypeOK
  <2> QED
    BY <2>3 DEF StartRefused, Freed, files, history, TypeOK
<1>2. IdsIssued'
  BY NoOneAssumption, MaxRunsAssumption, ProcsAssumption
  DEF StartRefused, Running, At, AtRest, files, NoRun, TypeOK, LifecycleInv, IdsIssued
<1>3. LockHeld'
  BY DEF StartRefused, At, AtRest, TypeOK, LifecycleInv, LockHeld
<1>4. Unseen'
  BY DEF StartRefused, Reserved, AtRest, files, LifecycleInv, Unseen
<1>5. Prepared'
  BY DEF StartRefused, Complete, AtRest, files, LifecycleInv, Prepared
<1>6. Checked'
  BY DEF StartRefused, Running, AtRest, files, LifecycleInv, Checked
<1>7. HandsFull'
  BY DEF StartRefused, Complete, AtRest, files, LifecycleInv, HandsFull
<1>8. CloserSees'
  BY DEF StartRefused, AtRest, files, LifecycleInv, CloserSees
<1>9. DanglingExplained'
  BY DEF StartRefused, Running, At, Closing, files, history, LifecycleInv, DanglingExplained
<1> QED
  BY <1>1, <1>2, <1>3, <1>4, <1>5, <1>6, <1>7, <1>8, <1>9 DEF LifecycleInv

\* A start writes the manifest of the run only it knows of, having found none running.
LEMMA WriteManifestKeeps ==
  ASSUME TypeOK, LifecycleInv, NEW p \in Procs, WriteManifest(p)
  PROVE  TypeOK' /\ LifecycleInv'
<1>1. TypeOK'
  BY NoOneAssumption, MaxRunsAssumption, ProcsAssumption
  DEF WriteManifest, Running, At, history, NoRun, TypeOK, ProcRecord, Runs, Procs,
      LifecycleInv, IdsIssued, HandsFull, Prepared, Unseen, Reserved, Complete
<1>2. IdsIssued'
  BY DEF WriteManifest, LifecycleInv, IdsIssued
<1>3. LockHeld'
  BY DEF WriteManifest, At, LifecycleInv, LockHeld
<1>4. Unseen'
  BY DEF WriteManifest, Reserved, At, LifecycleInv, Unseen
<1>5. Prepared'
  BY NoOneAssumption, MaxRunsAssumption, ProcsAssumption
  DEF WriteManifest, Complete, Running, At, history, TypeOK, ProcRecord, LifecycleInv,
      Unseen, Prepared, Reserved
<1>6. Checked'
  BY NoOneAssumption, MaxRunsAssumption, ProcsAssumption
  DEF WriteManifest, Running, At, history, NoRun, TypeOK, LifecycleInv, Unseen, Checked,
      Reserved
<1>7. HandsFull'
  BY DEF WriteManifest, Complete, LifecycleInv, HandsFull
<1>8. CloserSees'
  BY DEF WriteManifest, LifecycleInv, CloserSees
<1>9. DanglingExplained'
  BY DEF WriteManifest, Running, history, LifecycleInv, DanglingExplained
<1> QED
  BY <1>1, <1>2, <1>3, <1>4, <1>5, <1>6, <1>7, <1>8, <1>9 DEF LifecycleInv

\* A start writes the task and worker files of its run.
LEMMA WriteTasksKeeps ==
  ASSUME TypeOK, LifecycleInv, NEW p \in Procs, WriteTasks(p)
  PROVE  TypeOK' /\ LifecycleInv'
<1>1. TypeOK'
  BY NoOneAssumption, MaxRunsAssumption, ProcsAssumption
  DEF WriteTasks, At, history, TypeOK, ProcRecord, LifecycleInv, Unseen, Reserved
<1>2. IdsIssued'
  BY NoOneAssumption, MaxRunsAssumption, ProcsAssumption
  DEF WriteTasks, At, history, TypeOK, ProcRecord, Runs, LifecycleInv, IdsIssued, Unseen,
      Reserved
<1>3. LockHeld'
  BY DEF WriteTasks, At, LifecycleInv, LockHeld
<1>4. Unseen'
  BY DEF WriteTasks, Reserved, At, LifecycleInv, Unseen
<1>5. Prepared'
  BY DEF WriteTasks, Complete, At, LifecycleInv, Prepared
<1>6. Checked'
  BY DEF WriteTasks, Running, At, LifecycleInv, Checked
<1>7. HandsFull'
  BY DEF WriteTasks, Complete, LifecycleInv, HandsFull
<1>8. CloserSees'
  BY DEF WriteTasks, LifecycleInv, CloserSees
<1>9. DanglingExplained'
  BY DEF WriteTasks, Running, history, LifecycleInv, DanglingExplained
<1> QED
  BY <1>1, <1>2, <1>3, <1>4, <1>5, <1>6, <1>7, <1>8, <1>9 DEF LifecycleInv

\* A start makes its run, which is complete, the active one; none that runs was.
LEMMA PublishKeeps ==
  ASSUME TypeOK, LifecycleInv, NEW p \in Procs, Publish(p)
  PROVE  TypeOK' /\ LifecycleInv'
<1>1. TypeOK'
  BY DEF Publish, history, TypeOK, ProcRecord, Procs
<1>2. IdsIssued'
  BY DEF Publish, LifecycleInv, IdsIssued
<1>3. LockHeld'
  BY DEF Publish, At, LifecycleInv, LockHeld
<1>4. Unseen'
  BY DEF Publish, Reserved, At, TypeOK, LifecycleInv, Unseen
<1>5. Prepared'
  BY DEF Publish, Complete, At, LifecycleInv, Prepared
<1>6. Checked'
  BY NoOneAssumption, MaxRunsAssumption, ProcsAssumption
  DEF Publish, Running, At, history, NoRun, TypeOK, LifecycleInv, LockHeld, Checked
<1>7. HandsFull'
  BY NoOneAssumption, MaxRunsAssumption, ProcsAssumption
  DEF Publish, Complete, At, history, LifecycleInv, Prepared, HandsFull
<1>8. CloserSees'
  BY NoOneAssumption, MaxRunsAssumption, ProcsAssumption
  DEF Publish, At, Closing, history, TypeOK, ProcRecord, LifecycleInv, Unseen, CloserSees,
      Reserved
<1>9. DanglingExplained'
  BY NoOneAssumption, MaxRunsAssumption, ProcsAssumption
  DEF Publish, Running, At, Closing, history, NoRun, LifecycleInv, Prepared,
      DanglingExplained
<1> QED
  BY <1>1, <1>2, <1>3, <1>4, <1>5, <1>6, <1>7, <1>8, <1>9 DEF LifecycleInv

\* A start lets go of run.lock and becomes an owner of a complete run.
LEMMA UnlockKeeps ==
  ASSUME TypeOK, LifecycleInv, NEW p \in Procs, Unlock(p)
  PROVE  TypeOK' /\ LifecycleInv'
<1>1. TypeOK'
  <2> DEFINE next == [proc[p] EXCEPT !.doing = "work", !.pc = "using"]
  <2>1. next \in ProcRecord
    BY DEF TypeOK, ProcRecord
  <2>2. proc' = [proc EXCEPT ![p] = next]
    BY DEF Unlock
  <2> HIDE DEF next
  <2>3. proc' \in [Procs -> ProcRecord]
    BY <2>1, <2>2 DEF TypeOK
  <2> QED
    BY <2>3 DEF Unlock, Freed, files, history, TypeOK
<1>2. IdsIssued'
  BY DEF Unlock, files, LifecycleInv, IdsIssued
<1>3. LockHeld'
  BY DEF Unlock, At, TypeOK, LifecycleInv, LockHeld
<1>4. Unseen'
  BY DEF Unlock, Reserved, files, LifecycleInv, Unseen
<1>5. Prepared'
  BY DEF Unlock, Complete, files, LifecycleInv, Prepared
<1>6. Checked'
  BY DEF Unlock, Running, files, LifecycleInv, Checked
<1>7. HandsFull'
  BY NoOneAssumption, MaxRunsAssumption, ProcsAssumption
  DEF Unlock, Complete, At, Freed, files, history, NoRun, TypeOK, Runs, LifecycleInv,
      Prepared, HandsFull
<1>8. CloserSees'
  BY DEF Unlock, Closing, files, LifecycleInv, CloserSees
<1>9. DanglingExplained'
  BY DEF Unlock, Running, At, Closing, files, history, LifecycleInv, DanglingExplained
<1> QED
  BY <1>1, <1>2, <1>3, <1>4, <1>5, <1>6, <1>7, <1>8, <1>9 DEF LifecycleInv

\* A call gets hold of the run it has read in active.json, which is complete.
LEMMA JoinKeeps ==
  ASSUME TypeOK, LifecycleInv, NEW p \in Procs, Join(p)
  PROVE  TypeOK' /\ LifecycleInv'
<1>1. TypeOK'
  <2> DEFINE next == [proc[p] EXCEPT !.pc = "using", !.run = proc[p].seen]
  <2>1. next \in ProcRecord
    BY DEF TypeOK, ProcRecord
  <2>2. proc' = [proc EXCEPT ![p] = next]
    BY DEF Join
  <2> HIDE DEF next
  <2>3. proc' \in [Procs -> ProcRecord]
    BY <2>1, <2>2 DEF TypeOK
  <2> QED
    BY <2>3 DEF Join, files, history, TypeOK
<1>2. IdsIssued'
  BY DEF Join, files, LifecycleInv, IdsIssued
<1>3. LockHeld'
  BY DEF Join, LifecycleInv, LockHeld
<1>4. Unseen'
  BY NoOneAssumption, MaxRunsAssumption, ProcsAssumption
  DEF Join, Reserved, Joining, files, LifecycleInv, Unseen
<1>5. Prepared'
  BY DEF Join, Complete, files, LifecycleInv, Prepared
<1>6. Checked'
  BY DEF Join, Running, files, LifecycleInv, Checked
<1>7. HandsFull'
  BY NoOneAssumption, MaxRunsAssumption, ProcsAssumption
  DEF Join, Complete, Running, files, LifecycleInv, HandsFull
<1>8. CloserSees'
  BY NoOneAssumption, MaxRunsAssumption, ProcsAssumption
  DEF Join, Running, Closing, Joining, files, LifecycleInv, CloserSees
<1>9. DanglingExplained'
  BY NoOneAssumption, MaxRunsAssumption, ProcsAssumption
  DEF Join, Running, Closing, Joining, files, history, LifecycleInv, DanglingExplained
<1> QED
  BY <1>1, <1>2, <1>3, <1>4, <1>5, <1>6, <1>7, <1>8, <1>9 DEF LifecycleInv

\* A call that found no running run asks for run.lock or fails.
LEMMA NothingToJoinKeeps ==
  ASSUME TypeOK, LifecycleInv, NEW p \in Procs, NothingToJoin(p)
  PROVE  TypeOK' /\ LifecycleInv'
<1>1. TypeOK'
  <2>1. proc'[p] \in ProcRecord
    <3>1. CASE proc[p].doing = "join"
      BY <3>1 DEF NothingToJoin, ProcRecord, TypeOK
    <3>2. CASE ~(proc[p].doing = "join")
      <4>1. proc[p] \in ProcRecord
        BY DEF TypeOK
      <4> QED
        BY <3>2, <4>1 DEF NothingToJoin, AtRest, ProcRecord
    <3> QED
      BY <3>1, <3>2
  <2>2. \A q \in Procs : q # p => proc'[q] = proc[q]
    BY DEF NothingToJoin
  <2>3. proc' \in [Procs -> ProcRecord]
    BY <2>1, <2>2 DEF NothingToJoin, TypeOK
  <2> QED
    BY <2>3 DEF NothingToJoin, files, history, TypeOK
<1>2. IdsIssued'
  BY NoOneAssumption, MaxRunsAssumption, ProcsAssumption
  DEF NothingToJoin, Running, AtRest, files, NoRun, TypeOK, LifecycleInv, IdsIssued
<1>3. LockHeld'
  BY DEF NothingToJoin, AtRest, LifecycleInv, LockHeld
<1>4. Unseen'
  BY DEF NothingToJoin, Reserved, AtRest, files, LifecycleInv, Unseen
<1>5. Prepared'
  BY DEF NothingToJoin, Complete, AtRest, files, LifecycleInv, Prepared
<1>6. Checked'
  BY DEF NothingToJoin, Running, AtRest, files, LifecycleInv, Checked
<1>7. HandsFull'
  BY DEF NothingToJoin, Complete, AtRest, files, LifecycleInv, HandsFull
<1>8. CloserSees'
  BY DEF NothingToJoin, AtRest, files, LifecycleInv, CloserSees
<1>9. DanglingExplained'
  BY NoOneAssumption, MaxRunsAssumption, ProcsAssumption
  DEF NothingToJoin, Running, Closing, Joining, files, history, LifecycleInv,
      DanglingExplained
<1> QED
  BY <1>1, <1>2, <1>3, <1>4, <1>5, <1>6, <1>7, <1>8, <1>9 DEF LifecycleInv

\* A call that returns forgets its run.
LEMMA ReturnKeeps ==
  ASSUME TypeOK, LifecycleInv, NEW p \in Procs, Return(p)
  PROVE  TypeOK' /\ LifecycleInv'
<1>1. TypeOK'
  BY DEF Return, AtRest, files, history, TypeOK, ProcRecord
<1>2. IdsIssued'
  BY NoOneAssumption, MaxRunsAssumption
  DEF Return, AtRest, files, NoRun, TypeOK, LifecycleInv, IdsIssued
<1>3. LockHeld'
  BY DEF Return, AtRest, LifecycleInv, LockHeld
<1>4. Unseen'
  BY DEF Return, Reserved, AtRest, files, LifecycleInv, Unseen
<1>5. Prepared'
  BY DEF Return, Complete, AtRest, files, LifecycleInv, Prepared
<1>6. Checked'
  BY DEF Return, Running, AtRest, files, LifecycleInv, Checked
<1>7. HandsFull'
  BY DEF Return, Complete, AtRest, files, LifecycleInv, HandsFull
<1>8. CloserSees'
  BY DEF Return, AtRest, files, LifecycleInv, CloserSees
<1>9. DanglingExplained'
  <2>1. proc[p].doing \notin Closing
    BY ProcsAssumption DEF Return, LifecycleInv, CloserSees
  <2> QED
    BY <2>1 DEF Return, files, history, LifecycleInv, DanglingExplained, Running
<1> QED
  BY <1>1, <1>2, <1>3, <1>4, <1>5, <1>6, <1>7, <1>8, <1>9 DEF LifecycleInv

\* finish marks the run finished, and whoever does so is there to remove the pointer.
LEMMA FinishManifestKeeps ==
  ASSUME TypeOK, LifecycleInv, NEW p \in Procs, FinishManifest(p)
  PROVE  TypeOK' /\ LifecycleInv'
<1>1. TypeOK'
  <2> DEFINE next == [proc[p] EXCEPT !.pc = "exists",
                           !.doing = IF proc[p].doing = "abort" THEN "abort" ELSE "close"]
  <2>1. next \in ProcRecord
    BY DEF TypeOK, ProcRecord
  <2>2. proc' = [proc EXCEPT ![p] = next]
    BY DEF FinishManifest
  <2> HIDE DEF next
  <2>3. proc' \in [Procs -> ProcRecord]
    BY <2>1, <2>2 DEF TypeOK
  <2> QED
    BY <2>3 DEF FinishManifest, history, TypeOK
<1>2. IdsIssued'
  BY DEF FinishManifest, LifecycleInv, IdsIssued
<1>3. LockHeld'
  BY DEF FinishManifest, LifecycleInv, LockHeld
<1>4. Unseen'
  BY DEF FinishManifest, Reserved, LifecycleInv, Unseen
<1>5. Prepared'
  BY NoOneAssumption, MaxRunsAssumption, ProcsAssumption
  DEF FinishManifest, Complete, history, TypeOK, LifecycleInv, Unseen, Prepared, Reserved
<1>6. Checked'
  BY DEF FinishManifest, Running, LifecycleInv, Checked
<1>7. HandsFull'
  BY DEF FinishManifest, Complete, LifecycleInv, HandsFull
<1>8. CloserSees'
  BY DEF FinishManifest, LifecycleInv, CloserSees
<1>9. DanglingExplained'
  BY DEF FinishManifest, Running, Closing, history, TypeOK, LifecycleInv, DanglingExplained
<1> QED
  BY <1>1, <1>2, <1>3, <1>4, <1>5, <1>6, <1>7, <1>8, <1>9 DEF LifecycleInv

\* finish has found its own run in active.json and is about to remove the file.
LEMMA PointerIsOwnKeeps ==
  ASSUME TypeOK, LifecycleInv, NEW p \in Procs, PointerIsOwn(p)
  PROVE  TypeOK' /\ LifecycleInv'
<1>1. TypeOK'
  BY DEF PointerIsOwn, files, history, TypeOK, ProcRecord
<1>2. IdsIssued'
  BY DEF PointerIsOwn, files, LifecycleInv, IdsIssued
<1>3. LockHeld'
  BY DEF PointerIsOwn, LifecycleInv, LockHeld
<1>4. Unseen'
  BY DEF PointerIsOwn, Reserved, files, LifecycleInv, Unseen
<1>5. Prepared'
  BY DEF PointerIsOwn, Complete, files, LifecycleInv, Prepared
<1>6. Checked'
  BY DEF PointerIsOwn, Running, files, LifecycleInv, Checked
<1>7. HandsFull'
  BY DEF PointerIsOwn, Complete, files, LifecycleInv, HandsFull
<1>8. CloserSees'
  BY DEF PointerIsOwn, files, LifecycleInv, CloserSees
<1>9. DanglingExplained'
  BY DEF PointerIsOwn, Running, files, history, LifecycleInv, DanglingExplained
<1> QED
  BY <1>1, <1>2, <1>3, <1>4, <1>5, <1>6, <1>7, <1>8, <1>9 DEF LifecycleInv

\* finish has found another run in active.json, or none: its own is not active.
LEMMA PointerIsOtherKeeps ==
  ASSUME TypeOK, LifecycleInv, NEW p \in Procs, PointerIsOther(p)
  PROVE  TypeOK' /\ LifecycleInv'
<1>1. TypeOK'
  BY DEF PointerIsOther, AtRest, files, history, TypeOK, ProcRecord
<1>2. IdsIssued'
  BY NoOneAssumption, MaxRunsAssumption, ProcsAssumption
  DEF PointerIsOther, Closing, AtRest, files, NoRun, TypeOK, LifecycleInv, IdsIssued
<1>3. LockHeld'
  BY DEF PointerIsOther, AtRest, LifecycleInv, LockHeld
<1>4. Unseen'
  BY DEF PointerIsOther, Reserved, AtRest, files, LifecycleInv, Unseen
<1>5. Prepared'
  BY DEF PointerIsOther, Complete, AtRest, files, LifecycleInv, Prepared
<1>6. Checked'
  BY DEF PointerIsOther, Running, AtRest, files, LifecycleInv, Checked
<1>7. HandsFull'
  BY DEF PointerIsOther, Complete, AtRest, files, LifecycleInv, HandsFull
<1>8. CloserSees'
  BY DEF PointerIsOther, AtRest, files, LifecycleInv, CloserSees
<1>9. DanglingExplained'
  BY NoOneAssumption, MaxRunsAssumption, ProcsAssumption
  DEF PointerIsOther, Running, Closing, AtRest, files, history, NoRun, TypeOK, ProcRecord,
      LifecycleInv, CloserSees, DanglingExplained
<1> QED
  BY <1>1, <1>2, <1>3, <1>4, <1>5, <1>6, <1>7, <1>8, <1>9 DEF LifecycleInv

\* finish removes active.json, whatever it holds by now.
LEMMA UnlinkKeeps ==
  ASSUME TypeOK, LifecycleInv, NEW p \in Procs, Unlink(p)
  PROVE  TypeOK' /\ LifecycleInv'
<1>1. TypeOK'
  BY DEF Unlink, AtRest, history, TypeOK, ProcRecord
<1>2. IdsIssued'
  BY NoOneAssumption DEF Unlink, AtRest, NoRun, TypeOK, LifecycleInv, IdsIssued
<1>3. LockHeld'
  BY DEF Unlink, AtRest, LifecycleInv, LockHeld
<1>4. Unseen'
  BY DEF Unlink, Reserved, AtRest, LifecycleInv, Unseen
<1>5. Prepared'
  BY DEF Unlink, Complete, AtRest, LifecycleInv, Prepared
<1>6. Checked'
  BY DEF Unlink, Running, Checked
<1>7. HandsFull'
  BY DEF Unlink, Complete, AtRest, LifecycleInv, HandsFull
<1>8. CloserSees'
  BY NoOneAssumption, MaxRunsAssumption, ProcsAssumption
  DEF Unlink, Closing, AtRest, history, NoRun, TypeOK, LifecycleInv, HandsFull, CloserSees
<1>9. DanglingExplained'
  BY DEF Unlink, DanglingExplained
<1> QED
  BY <1>1, <1>2, <1>3, <1>4, <1>5, <1>6, <1>7, <1>8, <1>9 DEF LifecycleInv

\* A process that is killed frees run.lock; the run it was starting or finishing is
\* an orphan from then on.
LEMMA CrashKeeps ==
  ASSUME TypeOK, LifecycleInv, NEW p \in Procs, Crash(p)
  PROVE  TypeOK' /\ LifecycleInv'
<1>1. TypeOK'
  BY NoOneAssumption, MaxRunsAssumption, ProcsAssumption
  DEF Crash, Freed, AtRest, files, TypeOK, ProcRecord, LifecycleInv, HandsFull, Prepared,
      Unseen, Reserved, Complete
<1>2. IdsIssued'
  BY NoOneAssumption, MaxRunsAssumption
  DEF Crash, AtRest, files, NoRun, TypeOK, LifecycleInv, IdsIssued
<1>3. LockHeld'
  BY DEF Crash, Freed, AtRest, TypeOK, LifecycleInv, LockHeld
<1>4. Unseen'
  BY DEF Crash, Reserved, AtRest, files, LifecycleInv, Unseen
<1>5. Prepared'
  BY DEF Crash, Complete, AtRest, files, LifecycleInv, Prepared
<1>6. Checked'
  BY DEF Crash, Running, AtRest, files, LifecycleInv, Checked
<1>7. HandsFull'
  BY DEF Crash, Complete, AtRest, files, LifecycleInv, HandsFull
<1>8. CloserSees'
  BY DEF Crash, AtRest, files, LifecycleInv, CloserSees
<1>9. DanglingExplained'
  BY DEF Crash, Running, Closing, files, LifecycleInv, DanglingExplained
<1> QED
  BY <1>1, <1>2, <1>3, <1>4, <1>5, <1>6, <1>7, <1>8, <1>9 DEF LifecycleInv

\* jb recover changes no manifest and no pointer.
LEMMA RecoverKeeps ==
  ASSUME TypeOK, LifecycleInv, Recover
  PROVE  TypeOK' /\ LifecycleInv'
  BY DEF Recover, files, TypeOK, LifecycleInv, IdsIssued, LockHeld, Unseen, Prepared,
         Checked, HandsFull, CloserSees, DanglingExplained, Reserved, Complete, Running

\* Every step of a loop, a server call or a recovery keeps LifecycleInv.
LEMMA NextInv == TypeOK /\ LifecycleInv /\ [Next]_vars => TypeOK' /\ LifecycleInv'
<1> SUFFICES ASSUME TypeOK, LifecycleInv, [Next]_vars PROVE TypeOK' /\ LifecycleInv'
  OBVIOUS
<1>1. CASE UNCHANGED vars
  BY <1>1
  DEF vars, TypeOK, LifecycleInv, IdsIssued, LockHeld, Unseen, Prepared, Checked, HandsFull,
      CloserSees, DanglingExplained, Reserved, Complete, Running
<1>2. CASE Recover
  BY <1>2, RecoverKeeps
<1>3. CASE \E p \in Procs : BeginRun(p) \/ BeginJoin(p) \/ BeginFinishTask(p) \/ Acquire(p)
  BY <1>3, BeginRunKeeps, BeginJoinKeeps, BeginFinishTaskKeeps, AcquireKeeps
<1>4. CASE \E p \in Procs : Reading(p)
  BY <1>4, PointerExistsKeeps, ReadPointerKeeps, PointerVanishedKeeps DEF Reading
<1>5. CASE \E p \in Procs : Starting(p)
  BY <1>5, StartRefusedKeeps, WriteManifestKeeps, WriteTasksKeeps, PublishKeeps, UnlockKeeps
  DEF Starting
<1>6. CASE \E p \in Procs : Finding(p) \/ Finishing(p)
  BY <1>6, JoinKeeps, NothingToJoinKeeps, PointerIsOwnKeeps, PointerIsOtherKeeps,
     UnlinkKeeps
  DEF Finding, Finishing
<1>7. CASE \E p \in Procs : Return(p) \/ FinishManifest(p) \/ Crash(p)
  BY <1>7, ReturnKeeps, FinishManifestKeeps, CrashKeeps
<1> QED
  BY <1>1, <1>2, <1>3, <1>4, <1>5, <1>6, <1>7 DEF Next

\* The parts of LifecycleInv hold together in every state that starts, finishes,
\* calls and kills lead to: the invariant the other theorems rest on.
THEOREM Inductive == Spec => [](TypeOK /\ LifecycleInv)
  BY InitInv, NextInv, PTL DEF Spec

\* No run, pointer or process is ever in a state the code does not know.
THEOREM TypeCorrect == Spec => []TypeOK
<1>1. Spec => [](TypeOK /\ LifecycleInv)
  BY Inductive
<1> QED
  BY <1>1, PTL

\* A crash or a race never exposes a run without its manifest or its task files.
THEOREM HalfRunCorrect == Spec => []NoHalfRun
<1>1. LifecycleInv => NoHalfRun
  BY DEF LifecycleInv, HandsFull, NoHalfRun
<1> QED
  BY <1>1, Inductive, PTL

\* finish leaves no pointer to its run behind unless it is killed.
THEOREM DanglingCorrect == Spec => []DanglingExplained
<1>1. LifecycleInv => DanglingExplained
  BY DEF LifecycleInv
<1> QED
  BY <1>1, Inductive, PTL

\* No start takes active.json from a running run.
THEOREM PointerCorrect == Spec => PointerNotStolen
<1>1. TypeOK /\ LifecycleInv /\ [Next]_vars
        => [active' \notin {active, NoRun} => ~Running(active)]_vars
  <2> SUFFICES ASSUME LifecycleInv, Next, active' \notin {active, NoRun}
               PROVE  ~Running(active)
    BY DEF vars
  <2>1. PICK p \in Procs : Publish(p)
    BY DEF Next, Reading, Starting, Finding, Finishing, BeginRun, BeginJoin,
           BeginFinishTask, Acquire, PointerExists, ReadPointer, PointerVanished, StartRefused,
           WriteManifest, WriteTasks, Unlock, Join, NothingToJoin, Return, FinishManifest,
           PointerIsOwn, PointerIsOther, Unlink, Crash, Recover, files
  <2> QED
    BY <2>1 DEF Publish, At, LifecycleInv, Checked
<1> QED
  BY <1>1, Inductive, PTL DEF Spec, PointerNotStolen

-----------------------------------------------------------------------------
(* run.lock: what StartAnswered owes to the code and not to fairness. *)

UnderLock == {"exists", "open", "pointer", "fill", "publish", "unlock"}

LockUsed == lock # NoOne => proc[lock].doing = "start" /\ proc[lock].pc \in UnderLock

\* A step of a process that leaves run.lock to others, or has nothing to do with it.
LEMMA LockStays ==
  ASSUME TypeOK, LockUsed, NEW p \in Procs, NEW k, proc' = [proc EXCEPT ![p] = k],
         \/ lock' = Freed(p)
         \/ lock' = lock /\ lock # p
         \/ lock' = lock /\ k.doing = "start" /\ k.pc \in UnderLock
  PROVE  LockUsed'
<1>1. proc'[p] = k /\ \A q \in Procs : q # p => proc'[q] = proc[q]
  BY DEF TypeOK
<1>2. lock \in Procs \cup {NoOne} /\ p # NoOne
  BY NoOneAssumption DEF TypeOK, Procs
<1> QED
  BY <1>1, <1>2 DEF LockUsed, Freed

\* No way out of a start, whether refused, failed or killed, forgets the lock.
LEMMA LockStep ==
  ASSUME TypeOK, LifecycleInv, LockUsed, [Next]_vars
  PROVE  LockUsed'
<1>1. CASE UNCHANGED <<lock, proc>>
  BY <1>1 DEF LockUsed
<1>2. ASSUME NEW p \in Procs, BeginRun(p) \/ BeginJoin(p) \/ BeginFinishTask(p)
      PROVE  LockUsed'
  <2>1. lock # p /\ lock' = lock
    BY <1>2, NoOneAssumption
       DEF BeginRun, BeginJoin, BeginFinishTask, AtRest, LockUsed, Procs
  <2>2. PICK k : proc' = [proc EXCEPT ![p] = k]
    BY <1>2 DEF BeginRun, BeginJoin, BeginFinishTask
  <2>3. lock' = Freed(p)
    BY <2>1 DEF Freed
  <2> QED
    BY <2>2, <2>3, LockStays
<1>3. ASSUME NEW p \in Procs, Acquire(p) PROVE LockUsed'
  <2> DEFINE k == [proc[p] EXCEPT !.pc = "exists"]
  <2>1. k.doing = "start" /\ k.pc = "exists"
    BY <1>3 DEF Acquire, At, TypeOK, ProcRecord
  <2>2. proc' = [proc EXCEPT ![p] = k] /\ lock' = p
    BY <1>3 DEF Acquire
  <2> HIDE DEF k
  <2>3. proc'[p] = k
    BY <2>2 DEF TypeOK
  <2> QED
    BY <2>1, <2>2, <2>3 DEF LockUsed, UnderLock
<1>4. ASSUME NEW p \in Procs, PointerExists(p) \/ ReadPointer(p) PROVE LockUsed'
  <2>1. PICK pc \in {"open", "pointer"}, r \in Runs \cup {NoRun} :
           /\ proc' = [proc EXCEPT ![p] = [@ EXCEPT !.pc = pc, !.seen = r]]
           /\ lock' = lock
    BY <1>4 DEF PointerExists, ReadPointer, TypeOK
  <2> DEFINE k == [proc[p] EXCEPT !.pc = pc, !.seen = r]
  <2>2. k.doing = proc[p].doing /\ k.pc \in UnderLock
    BY DEF TypeOK, ProcRecord, UnderLock
  <2>3. proc' = [proc EXCEPT ![p] = k]
    BY <2>1
  <2> HIDE DEF k
  <2>4. lock = p => k.doing = "start"
    BY <2>2, NoOneAssumption DEF LockUsed, Procs
  <2> QED
    BY <2>1, <2>2, <2>3, <2>4, LockStays
<1>5. ASSUME NEW p \in Procs, PointerVanished(p) \/ StartRefused(p) \/ Unlock(p) \/ Crash(p)
      PROVE  LockUsed'
  <2>1. lock' = Freed(p)
    BY <1>5 DEF PointerVanished, StartRefused, Unlock, Crash
  <2>2. \E k : proc' = [proc EXCEPT ![p] = k]
    BY <1>5 DEF PointerVanished, StartRefused, Unlock, Crash
  <2> QED
    BY <2>1, <2>2, LockStays
<1>6. ASSUME NEW p \in Procs, WriteManifest(p) \/ WriteTasks(p) \/ Publish(p) PROVE LockUsed'
  <2>1. PICK pc \in {"fill", "publish", "unlock"} :
           proc' = [proc EXCEPT ![p].pc = pc] /\ lock' = lock /\ proc[p].doing = "start"
    BY <1>6 DEF WriteManifest, WriteTasks, Publish, At
  <2> DEFINE k == [proc[p] EXCEPT !.pc = pc]
  <2>2. k.doing = "start" /\ k.pc \in UnderLock
    BY <2>1 DEF TypeOK, ProcRecord, UnderLock
  <2>3. proc' = [proc EXCEPT ![p] = k]
    BY <2>1
  <2> HIDE DEF k
  <2> QED
    BY <2>1, <2>2, <2>3, LockStays
<1>7. ASSUME NEW p \in Procs, Finding(p) \/ Finishing(p) \/ Return(p) \/ FinishManifest(p)
      PROVE  LockUsed'
  <2>1. lock # p
    <3>1. CASE Finding(p) \/ PointerIsOwn(p) \/ PointerIsOther(p)
      BY <3>1, NoOneAssumption
         DEF LockUsed, Finding, Join, NothingToJoin, Joining, PointerIsOwn, PointerIsOther,
             Closing, Procs
    <3>2. CASE Unlink(p) \/ Return(p) \/ FinishManifest(p)
      <4>1. proc[p].pc \in {"unlink", "using"}
        BY <3>2 DEF Unlink, Return, FinishManifest
      <4> QED
        BY <4>1, NoOneAssumption DEF LockUsed, UnderLock, Procs
    <3> QED
      BY <1>7, <3>1, <3>2 DEF Finishing
  <2>2. lock' = lock
    BY <1>7 DEF Finding, Join, NothingToJoin, Finishing, PointerIsOwn, PointerIsOther, Unlink,
                Return, FinishManifest
  <2>3. PICK k : proc' = [proc EXCEPT ![p] = k]
    BY <1>7 DEF Finding, Join, NothingToJoin, Finishing, PointerIsOwn, PointerIsOther, Unlink,
                Return, FinishManifest
  <2>4. lock' = Freed(p)
    BY <2>1, <2>2 DEF Freed
  <2> QED
    BY <2>3, <2>4, LockStays
<1>8. CASE Recover
  BY <1>1, <1>8 DEF Recover
<1> QED
  BY <1>1, <1>2, <1>3, <1>4, <1>5, <1>6, <1>7, <1>8 DEF Next, Reading, Starting, vars

\* run.lock is held by the start that is under way, and by nobody when none is: whoever
\* waits for it waits for a start that goes on or dies, and never for a lock left behind.
THEOREM LockCorrect ==
  Spec => [](\A p \in Procs : lock = p <=> proc[p].doing = "start" /\ proc[p].pc # "waiting")
<1>1. Init => LockUsed
  BY DEF Init, LockUsed
<1>2. TypeOK /\ LifecycleInv /\ LockUsed /\ [Next]_vars => LockUsed'
  BY LockStep
<1>3. LifecycleInv /\ LockUsed =>
         \A p \in Procs : lock = p <=> proc[p].doing = "start" /\ proc[p].pc # "waiting"
  BY NoOneAssumption DEF LifecycleInv, LockHeld, LockUsed, UnderLock, Procs
<1> QED
  BY <1>1, <1>2, <1>3, Inductive, PTL DEF Spec
=============================================================================
