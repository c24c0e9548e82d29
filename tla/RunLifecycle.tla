---------------------------- MODULE RunLifecycle ----------------------------
(***************************************************************************)
(* The runs of one workspace: how orchestrator/runtime_store.py starts,    *)
(* finds and finishes them.  .jibuff/runs/active.json names the active     *)
(* run, each run's manifest.json says whether it is still running, and     *)
(* starts exclude each other by an flock on run.lock.  Finding a run and   *)
(* finishing one take no lock.                                             *)
(*                                                                         *)
(* A loop (`jb run`) starts a run, works on it and finishes it.  An MCP    *)
(* server looks up the active run in every call, or starts one, and        *)
(* finishes the run in the call that completes its last task.  What the    *)
(* tasks of a run are is of no interest here: a run may be finished at any *)
(* time.  active.json is only ever replaced whole, so a read of it returns *)
(* a run or nothing; but `exists()` and `read_text()` are two steps, and   *)
(* the file may vanish in between.                                         *)
(***************************************************************************)
EXTENDS Naturals

CONSTANTS
    Loops,      \* processes running `jb run`
    Servers,    \* threads of MCP servers, each handling one call at a time
    NoOne,      \* the holder of a free lock
    MaxRuns     \* bound on the attempts to start a run

ASSUME ProcsAssumption   == Loops \cap Servers = {}
ASSUME NoOneAssumption   == NoOne \notin Loops \cup Servers
ASSUME MaxRunsAssumption == MaxRuns \in Nat

Procs == Loops \cup Servers
Runs  == 1 .. MaxRuns
NoRun == 0

VARIABLES
    manifest,   \* status in each run's manifest.json; "none" while there is no file
    built,      \* the runs whose task and worker files are written
    active,     \* the run active.json names; NoRun when there is no such file
    lock,       \* the process that holds run.lock
    proc,       \* what each process is doing
    attempts,   \* run ids given out
    orphans,    \* history: runs whose starter or finisher was killed
    recovered   \* history: runs `jb recover` has been over

vars == <<manifest, built, active, lock, proc, attempts, orphans, recovered>>

\* doing: the call the process is in; pc: how far it has come in it.  exists,
\* open and pointer are the steps of reading active.json.
ProcRecord ==
    [doing : {"nothing", "start", "join", "rejoin", "use", "work", "close", "abort"},
     pc    : {"idle", "waiting", "exists", "open", "pointer", "fill", "publish",
              "unlock", "using", "unlink"},
     run   : Runs \cup {NoRun},     \* the run it starts or works on
     seen  : Runs \cup {NoRun}]     \* what it read in active.json

AtRest == [doing |-> "nothing", pc |-> "idle", run |-> NoRun, seen |-> NoRun]

TypeOK ==
    /\ manifest \in [Runs -> {"none", "running", "finished"}]
    /\ built \subseteq Runs
    /\ active \in Runs \cup {NoRun}
    /\ lock \in Procs \cup {NoOne}
    /\ proc \in [Procs -> ProcRecord]
    /\ attempts \in 0 .. MaxRuns
    /\ orphans \subseteq Runs
    /\ recovered \subseteq Runs

Init ==
    /\ manifest = [r \in Runs |-> "none"]
    /\ built = {}
    /\ active = NoRun
    /\ lock = NoOne
    /\ proc = [p \in Procs |-> AtRest]
    /\ attempts = 0
    /\ orphans = {}
    /\ recovered = {}

Running(r) == r # NoRun /\ manifest[r] = "running"

At(p, doing, pc) == proc[p].doing = doing /\ proc[p].pc = pc

\* Leaving the with block of run.lock, by whatever way, frees the lock.
Freed(p) == IF lock = p THEN NoOne ELSE lock

files   == <<manifest, built, active>>
history == <<orphans, recovered>>

-----------------------------------------------------------------------------
(* Beginning a call.  Every start has a run id of its own. *)

\* LoopController.run, at its first task.
BeginRun(p) ==
    /\ p \in Loops
    /\ proc[p] = AtRest
    /\ attempts < MaxRuns
    /\ attempts' = attempts + 1
    /\ proc' = [proc EXCEPT ![p] = [doing |-> "start", pc |-> "waiting",
                                    run |-> attempts + 1, seen |-> NoRun]]
    /\ UNCHANGED <<files, lock, history>>

\* _runtime_store_for_workspace, in handle_run and handle_next_task.
BeginJoin(p) ==
    /\ p \in Servers
    /\ proc[p] = AtRest
    /\ attempts < MaxRuns
    /\ attempts' = attempts + 1
    /\ proc' = [proc EXCEPT ![p] = [doing |-> "join", pc |-> "exists",
                                    run |-> attempts + 1, seen |-> NoRun]]
    /\ UNCHANGED <<files, lock, history>>

\* RuntimeStore.active, in handle_finish_task: no run is started.
BeginFinishTask(p) ==
    /\ p \in Servers
    /\ proc[p] = AtRest
    /\ proc' = [proc EXCEPT ![p] = [@ EXCEPT !.doing = "use", !.pc = "exists"]]
    /\ UNCHANGED <<files, lock, attempts, history>>

-----------------------------------------------------------------------------
(* Reading active.json. *)

PointerExists(p) ==
    /\ proc[p].pc = "exists"
    /\ proc' = [proc EXCEPT ![p] =
                   [@ EXCEPT !.pc = IF active = NoRun THEN "pointer" ELSE "open",
                             !.seen = NoRun]]
    /\ UNCHANGED <<files, lock, attempts, history>>

ReadPointer(p) ==
    /\ proc[p].pc = "open"
    /\ active # NoRun
    /\ proc' = [proc EXCEPT ![p] = [@ EXCEPT !.pc = "pointer", !.seen = active]]
    /\ UNCHANGED <<files, lock, attempts, history>>

\* FileNotFoundError: the call fails; a loop that is finishing its run tries
\* once more from its finally clause.
PointerVanished(p) ==
    /\ proc[p].pc = "open"
    /\ active = NoRun
    /\ lock' = Freed(p)
    /\ proc' = [proc EXCEPT ![p] =
                    IF p \in Loops /\ proc[p].doing = "close"
                    THEN [@ EXCEPT !.doing = "abort", !.pc = "using"]
                    ELSE AtRest]
    /\ UNCHANGED <<files, attempts, history>>

-----------------------------------------------------------------------------
(* RuntimeStore.start, under run.lock. *)

\* Faulty: starts do not exclude each other.
AcquireUnlocked(p) ==
    /\ At(p, "start", "waiting")
    /\ lock' = p
    /\ proc' = [proc EXCEPT ![p].pc = "exists"]
    /\ UNCHANGED <<files, attempts, history>>

Acquire(p) ==
    /\ At(p, "start", "waiting")
    /\ lock = NoOne
    /\ lock' = p
    /\ proc' = [proc EXCEPT ![p].pc = "exists"]
    /\ UNCHANGED <<files, attempts, history>>

\* RuntimeRunActiveError: a loop gives up, a server looks once more.
StartRefused(p) ==
    /\ At(p, "start", "pointer")
    /\ Running(proc[p].seen)
    /\ lock' = Freed(p)
    /\ proc' = [proc EXCEPT ![p] =
                    IF p \in Loops THEN AtRest
                    ELSE [@ EXCEPT !.doing = "rejoin", !.pc = "exists"]]
    /\ UNCHANGED <<files, attempts, history>>

\* Faulty: the run is published before its files are written.
WriteManifestPublished(p) ==
    /\ At(p, "start", "pointer")
    /\ ~Running(proc[p].seen)
    /\ manifest' = [manifest EXCEPT ![proc[p].run] = "running"]
    /\ active' = proc[p].run
    /\ proc' = [proc EXCEPT ![p].pc = "fill"]
    /\ UNCHANGED <<built, lock, attempts, history>>

WriteManifest(p) ==
    /\ At(p, "start", "pointer")
    /\ ~Running(proc[p].seen)
    /\ manifest' = [manifest EXCEPT ![proc[p].run] = "running"]
    /\ proc' = [proc EXCEPT ![p].pc = "fill"]
    /\ UNCHANGED <<built, active, lock, attempts, history>>

WriteTasks(p) ==
    /\ At(p, "start", "fill")
    /\ built' = built \cup {proc[p].run}
    /\ proc' = [proc EXCEPT ![p].pc = "publish"]
    /\ UNCHANGED <<manifest, active, lock, attempts, history>>

Publish(p) ==
    /\ At(p, "start", "publish")
    /\ active' = proc[p].run
    /\ proc' = [proc EXCEPT ![p].pc = "unlock"]
    /\ UNCHANGED <<manifest, built, lock, attempts, history>>

Unlock(p) ==
    /\ At(p, "start", "unlock")
    /\ lock' = Freed(p)
    /\ proc' = [proc EXCEPT ![p] = [@ EXCEPT !.doing = "work", !.pc = "using"]]
    /\ UNCHANGED <<files, attempts, history>>

-----------------------------------------------------------------------------
(* Joining the active run without the lock. *)

Joining == {"join", "rejoin", "use"}

\* Faulty: the status in the manifest is not looked at.
JoinUnchecked(p) ==
    /\ proc[p].pc = "pointer"
    /\ proc[p].doing \in Joining
    /\ proc' = [proc EXCEPT ![p] = [@ EXCEPT !.pc = "using", !.run = proc[p].seen]]
    /\ UNCHANGED <<files, lock, attempts, history>>

\* RuntimeStore.active returned the run.
Join(p) ==
    /\ proc[p].pc = "pointer"
    /\ proc[p].doing \in Joining
    /\ Running(proc[p].seen)
    /\ proc' = [proc EXCEPT ![p] = [@ EXCEPT !.pc = "using", !.run = proc[p].seen]]
    /\ UNCHANGED <<files, lock, attempts, history>>

\* It returned None: the first look of a server leads to a start, the look of
\* finish_task and the second look after a refused start to an error.
NothingToJoin(p) ==
    /\ proc[p].pc = "pointer"
    /\ proc[p].doing \in Joining
    /\ ~Running(proc[p].seen)
    /\ proc' = [proc EXCEPT ![p] =
                    IF proc[p].doing = "join"
                    THEN [@ EXCEPT !.doing = "start", !.pc = "waiting"]
                    ELSE AtRest]
    /\ UNCHANGED <<files, lock, attempts, history>>

\* A call of a server that leaves the run running.
Return(p) ==
    /\ p \in Servers
    /\ proc[p].pc = "using"
    /\ proc' = [proc EXCEPT ![p] = AtRest]
    /\ UNCHANGED <<files, lock, attempts, history>>

-----------------------------------------------------------------------------
(* finish: by the loop that started the run, or by a finish_task call. *)

\* Faulty: the manifest gets the status of a worker.
FinishManifestIdle(p) ==
    /\ proc[p].pc = "using"
    /\ proc[p].doing \in {"use", "abort"} \/ p \in Loops
    /\ manifest' = [manifest EXCEPT ![proc[p].run] = "idle"]
    /\ proc' = [proc EXCEPT ![p] =
                   [@ EXCEPT !.pc = "exists",
                             !.doing = IF proc[p].doing = "abort" THEN "abort" ELSE "close"]]
    /\ UNCHANGED <<built, active, lock, attempts, history>>

FinishManifest(p) ==
    /\ proc[p].pc = "using"
    /\ proc[p].doing \in {"use", "abort"} \/ p \in Loops
    /\ manifest' = [manifest EXCEPT ![proc[p].run] = "finished"]
    /\ proc' = [proc EXCEPT ![p] =
                   [@ EXCEPT !.pc = "exists",
                             !.doing = IF proc[p].doing = "abort" THEN "abort" ELSE "close"]]
    /\ UNCHANGED <<built, active, lock, attempts, history>>

Closing == {"close", "abort"}

\* Faulty: finish leaves active.json alone.
PointerIsOwnKept(p) ==
    /\ proc[p].pc = "pointer"
    /\ proc[p].doing \in Closing
    /\ proc[p].seen = proc[p].run
    /\ proc' = [proc EXCEPT ![p] = AtRest]
    /\ UNCHANGED <<files, lock, attempts, history>>

PointerIsOwn(p) ==
    /\ proc[p].pc = "pointer"
    /\ proc[p].doing \in Closing
    /\ proc[p].seen = proc[p].run
    /\ proc' = [proc EXCEPT ![p].pc = "unlink"]
    /\ UNCHANGED <<files, lock, attempts, history>>

PointerIsOther(p) ==
    /\ proc[p].pc = "pointer"
    /\ proc[p].doing \in Closing
    /\ proc[p].seen # proc[p].run
    /\ proc' = [proc EXCEPT ![p] = AtRest]
    /\ UNCHANGED <<files, lock, attempts, history>>

Unlink(p) ==
    /\ proc[p].pc = "unlink"
    /\ active' = NoRun
    /\ proc' = [proc EXCEPT ![p] = AtRest]
    /\ UNCHANGED <<manifest, built, lock, attempts, history>>

-----------------------------------------------------------------------------
(* Death of a process, and recovery. *)

\* Faulty: run.lock is a file that a dead process leaves behind.
CrashHoldingLock(p) ==
    /\ proc[p] # AtRest
    /\ proc' = [proc EXCEPT ![p] = AtRest]
    /\ orphans' = IF proc[p].doing \in {"start", "work", "close", "abort"}
                  THEN orphans \cup {proc[p].run} ELSE orphans
    /\ UNCHANGED <<files, lock, attempts, recovered>>

\* The kernel drops the flock of a dead process.
Crash(p) ==
    /\ proc[p] # AtRest
    /\ lock' = Freed(p)
    /\ proc' = [proc EXCEPT ![p] = AtRest]
    /\ orphans' = IF proc[p].doing \in {"start", "work", "close", "abort"}
                  THEN orphans \cup {proc[p].run} ELSE orphans
    /\ UNCHANGED <<files, attempts, recovered>>

\* recover_workspace requeues tasks of the active run and writes nothing else.
Recover ==
    /\ Running(active)
    /\ recovered' = recovered \cup {active}
    /\ UNCHANGED <<files, lock, proc, attempts, orphans>>

-----------------------------------------------------------------------------
Reading(p) == PointerExists(p) \/ ReadPointer(p) \/ PointerVanished(p)

Starting(p) == \/ StartRefused(p) \/ WriteManifest(p) \/ WriteTasks(p)
               \/ Publish(p) \/ Unlock(p)

Finding(p) == Join(p) \/ NothingToJoin(p)

Finishing(p) == PointerIsOwn(p) \/ PointerIsOther(p) \/ Unlink(p)

Next ==
    \/ \E p \in Procs :
          \/ BeginRun(p) \/ BeginJoin(p) \/ BeginFinishTask(p)
          \/ Acquire(p)
          \/ Reading(p) \/ Starting(p) \/ Finding(p) \/ Finishing(p)
          \/ Return(p) \/ FinishManifest(p)
          \/ Crash(p)
    \/ Recover

Spec == Init /\ [][Next]_vars

\* A process that is scheduled takes its next step, and flock serves whoever
\* waits for it.  No one has to begin a call, to finish a run, or to stay alive.
Fairness ==
    \A p \in Procs :
        /\ WF_vars(Reading(p) \/ Starting(p) \/ Finding(p) \/ Finishing(p))
        /\ SF_vars(Acquire(p))

FairSpec == Spec /\ Fairness
-----------------------------------------------------------------------------
(* Properties. *)

Complete(r) == manifest[r] # "none" /\ r \in built

\* Whatever dies or races, the run that active.json names has its manifest and
\* all its task and worker files, and so has every run a process got hold of:
\* start publishes the run last, and nobody finds an unpublished one.
NoHalfRun ==
    /\ active # NoRun => Complete(active)
    /\ \A p \in Procs : proc[p].pc = "using" => Complete(proc[p].run)

\* A start never takes active.json away from a run that is running, although it
\* looks at the pointer and at the manifest long before it writes the pointer.
PointerNotStolen ==
    [][active' \notin {active, NoRun} => ~Running(active)]_vars

\* active.json names a finished run only while someone is about to remove it, or
\* because that process was killed: finish never leaves the pointer of its own
\* run behind, also when the file vanishes under it.
DanglingExplained ==
    Running(active) \/ active \in orphans \cup {NoRun}
    \/ \E p \in Procs : proc[p].run = active /\ proc[p].doing \in Closing

\* A process that waits for run.lock gets it or dies, even if a holder is killed.
StartAnswered ==
    \A p \in Procs : proc[p].pc = "waiting" ~> proc[p].pc # "waiting"

\* At most one run of a workspace is being worked on: a second start is refused.
\* finish looks at active.json and removes it in two steps, so it can remove the
\* pointer of a run that was started in between, and a third start succeeds.
OneLiveRun ==
    \A p, q \in Loops :
        /\ At(p, "work", "using") /\ Running(proc[p].run)
        /\ At(q, "work", "using") /\ Running(proc[q].run)
        => p = q

\* After a crash and a recovery, a loop that starts again is not turned away in
\* favour of the dead one: recovery requeues the tasks of the run and leaves its
\* manifest running.
ResumesAfterRecovery ==
    [][\A p \in Loops :
          StartRefused(p) =>
              \/ proc[p].seen \notin orphans \cap recovered
              \/ \E q \in Procs : proc[q].run = proc[p].seen]_vars
-----------------------------------------------------------------------------
(* The inductive invariant behind them, part by part. *)

\* p has an id for a run that no one else can know of yet.
Reserved(p) == \/ proc[p].doing = "join" /\ proc[p].pc # "using"
               \/ proc[p].doing = "start" /\ proc[p].pc # "unlock"

\* Ids in use have been given out.
IdsIssued   == /\ \A p \in Procs : proc[p].run <= attempts /\ proc[p].seen <= attempts
               /\ built \subseteq 1 .. attempts
               /\ active <= attempts

\* Starts are serialised by run.lock.
LockHeld    == \A p \in Procs :
                  proc[p].doing = "start" /\ proc[p].pc # "waiting" => lock = p

\* A reserved run is in nobody's hands but its starter's.
Unseen      == \A p \in Procs : Reserved(p) =>
                  /\ proc[p].run \notin {NoRun, active}
                  /\ \A q \in Procs : proc[q].seen # proc[p].run
                                    /\ (q # p => proc[q].run # proc[p].run)

\* How far a starter has come with the files of its run.
Prepared    == \A p \in Procs : proc[p].doing = "start" =>
                  /\ proc[p].pc \in {"fill", "publish"} => manifest[proc[p].run] = "running"
                  /\ proc[p].pc = "publish" => proc[p].run \in built
                  /\ proc[p].pc = "unlock" => Complete(proc[p].run)

\* What a starter has found out about the active run still holds.
Checked     == \A p \in Procs : proc[p].doing = "start" =>
                  /\ proc[p].pc = "pointer" => active \in {proc[p].seen, NoRun}
                  /\ proc[p].pc \in {"fill", "publish"} => ~Running(active)

\* Runs in anyone's hands are complete.
HandsFull   == /\ active # NoRun => Complete(active)
               /\ \A p \in Procs :
                     /\ proc[p].seen # NoRun => Complete(proc[p].seen)
                     /\ proc[p].pc = "using" \/ proc[p].doing \in {"work", "close", "abort"}
                           => proc[p].run # NoRun /\ Complete(proc[p].run)

\* Who is finishing the active run has seen that it is active, and only loops
\* finish a run twice.
CloserSees  == \A p \in Procs : proc[p].doing \in Closing =>
                  /\ proc[p].pc = "pointer" /\ active = proc[p].run => proc[p].seen = active
                  /\ proc[p].pc = "using" => p \in Loops

LifecycleInv == /\ IdsIssued /\ LockHeld /\ Unseen /\ Prepared /\ Checked
                /\ HandsFull /\ CloserSees /\ DanglingExplained
=============================================================================
