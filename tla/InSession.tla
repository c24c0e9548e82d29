------------------------------ MODULE InSession ------------------------------
(***************************************************************************)
(* The in-session tools of jibuff_mcp/server.py, and `jb recover`, over    *)
(* the two places that hold the state of a task: the runtime store of the  *)
(* active run (RuntimeTasks) and its mirror storage/task_status.json.      *)
(*                                                                         *)
(* Every call runs in a thread of its own, in one server or another.  It   *)
(* builds a TaskQueue, which is a snapshot of the mirror, decides by the   *)
(* snapshot, changes the store task by task under the store's locks, and   *)
(* then writes the whole snapshot back without a lock: the file is         *)
(* truncated first and written afterwards, and a reader that finds it      *)
(* unreadable falls back on the markers of spec/tasks.md.  How a run is    *)
(* started and finished is the business of RunLifecycle; here each is one  *)
(* step.                                                                   *)
(***************************************************************************)
EXTENDS TaskRecords

CONSTANTS
    Calls,      \* the threads and processes that make calls
    NTasks,     \* tasks of spec/tasks.md, in order
    Mark,       \* what spec/tasks.md marks each task as: [ ], [~], [x], [!]
    Mortal,     \* the tools during which the process may be killed
    MaxTokens,  \* bound on the claims
    MaxRuns     \* bound on the runs started

Tools == {"run", "next", "finish", "recover"}

ASSUME NTasksAssumption  == NTasks \in Nat \ {0}
ASSUME MortalAssumption  == Mortal \subseteq Tools
ASSUME BoundsAssumption  == {MaxTokens, MaxRuns} \subseteq Nat
ASSUME AgentAssumption   == Clients # {}

Tasks == 1 .. NTasks
Runs  == 1 .. MaxRuns
NoRun == 0

ASSUME MarkAssumption == Mark \in [Tasks -> Statuses]

VARIABLES
    store,      \* task files of each run
    running,    \* the runs whose manifest says running
    active,     \* the run active.json names
    mirror,     \* what was last written to task_status.json
    torn,       \* task_status.json is not readable as JSON
    overlaid,   \* writers whose open file someone else has written to
    call,       \* what each call is doing
    held,       \* claims handed to agents: task and token
    runs,       \* runs started
    issued,     \* tokens issued
    calm        \* history: no calls have overlapped, and none was killed

vars == <<store, running, active, mirror, torn, overlaid, call, held, runs, issued, calm>>

\* spec/tasks.md without task_status.json: no revision, no claim.
Markers == [t \in Tasks |-> Unclaimed(Mark[t])]

\* TaskQueue.__post_init__
Load == IF torn THEN Markers ELSE mirror

AllDone(q) == \A t \in Tasks : q[t].status = "done"

\* tool: what the call is for; pc: the step it takes next; queue: its snapshot;
\* due: the tasks recovery has still to requeue in the mirror.
AtRest == [tool |-> "none", pc |-> "idle", task |-> 0, token |-> NoToken,
           run |-> NoRun, status |-> "todo", queue |-> Markers, due |-> {}]

CallRecord ==
    [tool   : Tools \cup {"none"},
     pc     : {"idle", "join", "claim", "mark", "flush", "find", "beat", "validate",
               "end", "unmark", "close", "scan", "requeue"},
     task   : Nat,
     token  : Nat,
     run    : Runs \cup {NoRun},
     status : {"todo", "done"},
     queue  : [Tasks -> TaskRecord],
     due    : SUBSET Tasks]

TypeOK ==
    /\ store \in [Runs -> [Tasks -> TaskRecord]]
    /\ running \subseteq Runs
    /\ active \in Runs \cup {NoRun}
    /\ mirror \in [Tasks -> TaskRecord]
    /\ torn \in BOOLEAN
    /\ overlaid \subseteq Calls
    /\ call \in [Calls -> CallRecord]
    /\ held \subseteq Tasks \X Nat
    /\ runs \in 0 .. MaxRuns
    /\ issued \in 0 .. MaxTokens
    /\ calm \in BOOLEAN

Init ==
    /\ store = [r \in Runs |-> [t \in Tasks |-> Unclaimed("todo")]]
    /\ running = {}
    /\ active = NoRun
    /\ mirror = Markers
    /\ torn = FALSE
    /\ overlaid = {}
    /\ call = [c \in Calls |-> AtRest]
    /\ held = {}
    /\ runs = 0
    /\ issued = 0
    /\ calm = TRUE

Agent == CHOOSE a \in Clients : TRUE      \* worker_id: "jibuff-agent" by default

runFiles   == <<store, running, active, runs, issued>>
mirrorFile == <<mirror, torn, overlaid>>

At(c, pc) == call[c].pc = pc

Step(c, pc) == call' = [call EXCEPT ![c].pc = pc]

Return(c) == call' = [call EXCEPT ![c] = AtRest]

-----------------------------------------------------------------------------
(* The tools. *)

\* handle_run and handle_next_task.
BeginRun(c) ==
    /\ At(c, "idle")
    /\ ~AllDone(Load)
    /\ call' = [call EXCEPT ![c] = [AtRest EXCEPT !.tool = "run", !.pc = "join", !.queue = Load]]
    /\ UNCHANGED <<runFiles, mirrorFile, held>>

Todo(q) == {t \in Tasks : q[t].status = "todo"}

BeginNext(c) ==
    /\ At(c, "idle")
    /\ Todo(Load) # {}
    /\ issued < MaxTokens
    /\ call' = [call EXCEPT ![c] = [AtRest EXCEPT !.tool = "next", !.pc = "join", !.queue = Load]]
    /\ UNCHANGED <<runFiles, mirrorFile, held>>

\* handle_finish_task, for a claim an agent holds, perhaps not for the first time.
BeginFinish(c) ==
    /\ At(c, "idle")
    /\ \E h \in held :
          call' = [call EXCEPT ![c] = [AtRest EXCEPT !.tool = "finish", !.pc = "find",
                                       !.task = h[1], !.token = h[2], !.queue = Load]]
    /\ UNCHANGED <<runFiles, mirrorFile, held>>

InProgress(q) == {t \in Tasks : q[t].status = "in_progress"}

\* The run recover_workspace turns to: the active one, or the latest one if it has
\* tasks in progress.
RunToRecover == IF active \in running THEN active
                ELSE IF runs # 0 /\ InProgress(store[runs]) # {} THEN runs
                ELSE NoRun

BeginRecover(c) ==
    /\ At(c, "idle")
    /\ RunToRecover # NoRun
    /\ call' = [call EXCEPT ![c] = [AtRest EXCEPT !.tool = "recover", !.pc = "scan",
                                                  !.task = 1, !.run = RunToRecover]]
    /\ UNCHANGED <<runFiles, mirrorFile, held>>

\* Without such a run the mirror alone is searched for stale tasks in progress.
BeginLegacyRecover(c) ==
    /\ At(c, "idle")
    /\ RunToRecover = NoRun
    /\ \E stale \in SUBSET InProgress(Load) \ {{}} :
          call' = [call EXCEPT ![c] = [AtRest EXCEPT !.tool = "recover", !.pc = "requeue",
                                                     !.queue = Load, !.due = stale]]
    /\ UNCHANGED <<runFiles, mirrorFile, held>>

-----------------------------------------------------------------------------
(* _runtime_store_for_workspace. *)

Joined(c, r) ==
    IF call[c].tool = "run" THEN AtRest
    ELSE [call[c] EXCEPT !.pc = "claim", !.run = r, !.task = 1]

JoinRun(c) ==
    /\ At(c, "join")
    /\ active \in running
    /\ call' = [call EXCEPT ![c] = Joined(c, active)]
    /\ UNCHANGED <<runFiles, mirrorFile, held>>

StartRun(c) ==
    /\ At(c, "join")
    /\ active \notin running
    /\ runs < MaxRuns
    /\ runs' = runs + 1
    /\ store' = [store EXCEPT ![runs + 1] = call[c].queue]
    /\ running' = running \cup {runs + 1}
    /\ active' = runs + 1
    /\ call' = [call EXCEPT ![c] = Joined(c, runs + 1)]
    /\ UNCHANGED <<issued, mirrorFile, held>>

-----------------------------------------------------------------------------
(* handle_next_task. *)

Candidates(c) == {t \in Todo(call[c].queue) : t >= call[c].task}

\* The next candidate is claimed, or skipped with a RuntimeClaimError.
ClaimCandidate(c, t) ==
    LET r == call[c].run IN
    /\ At(c, "claim")
    /\ IsFirst(t, Candidates(c))
    /\ issued < MaxTokens
    /\ Claimable(store[r][t], call[c].queue[t].revision)
    /\ issued' = issued + 1
    /\ store' = [store EXCEPT ![r][t] = Claimed(@, Agent, issued + 1, 0)]
    /\ call' = [call EXCEPT ![c] =
                   [@ EXCEPT !.pc = "mark", !.task = t, !.token = issued + 1]]
    /\ UNCHANGED <<running, active, runs, mirrorFile, held>>

SkipCandidate(c, t) ==
    /\ At(c, "claim")
    /\ IsFirst(t, Candidates(c))
    /\ ~Claimable(store[call[c].run][t], call[c].queue[t].revision)
    /\ call' = [call EXCEPT ![c].task = t + 1]
    /\ UNCHANGED <<runFiles, mirrorFile, held>>

NoCandidate(c) ==
    /\ At(c, "claim")
    /\ Candidates(c) = {}
    /\ Return(c)
    /\ UNCHANGED <<runFiles, mirrorFile, held>>

-----------------------------------------------------------------------------
(* Writing the mirror: open truncates the file, a later write fills it. *)

Truncate(c, t, record) ==
    /\ call' = [call EXCEPT ![c] =
                   [@ EXCEPT !.pc = "flush", !.task = t, !.queue[t] = record]]
    /\ torn' = TRUE
    /\ overlaid' = {}
    /\ UNCHANGED <<runFiles, mirror, held>>

\* TaskQueue.mark_in_progress
MarkInProgress(c) ==
    LET t == call[c].task IN
    /\ At(c, "mark")
    /\ Truncate(c, t, Claimed(call[c].queue[t], Agent, call[c].token, 0))

\* Where a call goes on once the mirror is written.
Flushed(c) ==
    CASE call[c].tool = "recover" -> [call[c] EXCEPT !.pc = "requeue"]
      [] call[c].tool = "finish" /\ call[c].status = "done" -> [call[c] EXCEPT !.pc = "close"]
      [] OTHER -> AtRest

\* Over what another writer has left in the file since it was opened, a shorter
\* text leaves a tail that is not JSON.
Flush(c) ==
    /\ At(c, "flush")
    /\ mirror' = call[c].queue
    /\ torn' \in IF c \in overlaid THEN BOOLEAN ELSE {FALSE}
    /\ overlaid' = {d \in Calls \ {c} : At(d, "flush")}
    /\ held' = IF call[c].tool = "next"
               THEN held \cup {<<call[c].task, call[c].token>>} ELSE held
    /\ call' = [call EXCEPT ![c] = Flushed(c)]
    /\ UNCHANGED runFiles

-----------------------------------------------------------------------------
(* handle_finish_task. *)

FindRun(c) ==
    /\ At(c, "find")
    /\ active \in running
    /\ call' = [call EXCEPT ![c] = [@ EXCEPT !.pc = "beat", !.run = active]]
    /\ UNCHANGED <<runFiles, mirrorFile, held>>

NoActiveRun(c) ==
    /\ At(c, "find")
    /\ active \notin running
    /\ Return(c)
    /\ UNCHANGED <<runFiles, mirrorFile, held>>

\* The heartbeat that checks the claim before the validators run.
Heartbeat(c) ==
    /\ At(c, "beat")
    /\ Beats(store[call[c].run][call[c].task], call[c].token)
    /\ Step(c, "validate")
    /\ UNCHANGED <<runFiles, mirrorFile, held>>

StaleClaim(c) ==
    /\ At(c, "beat")
    /\ ~Beats(store[call[c].run][call[c].task], call[c].token)
    /\ Return(c)
    /\ UNCHANGED <<runFiles, mirrorFile, held>>

Validate(c) ==
    /\ At(c, "validate")
    /\ \E status \in {"todo", "done"} :
          call' = [call EXCEPT ![c] = [@ EXCEPT !.pc = "end", !.status = status]]
    /\ UNCHANGED <<runFiles, mirrorFile, held>>

\* requeue_task or complete_task in the store; its RuntimeError ends the call.
EndClaim(c) ==
    LET r == call[c].run
        t == call[c].task
    IN
    /\ At(c, "end")
    /\ HoldsToken(store[r][t], call[c].token)
    /\ store' = [store EXCEPT ![r][t] = Released(@, call[c].status)]
    /\ Step(c, "unmark")
    /\ UNCHANGED <<running, active, runs, issued, mirrorFile, held>>

\* Faulty: the RuntimeError is swallowed and the mirror is updated.
EndRefusedIgnored(c) ==
    /\ At(c, "end")
    /\ ~HoldsToken(store[call[c].run][call[c].task], call[c].token)
    /\ Step(c, "unmark")
    /\ UNCHANGED <<runFiles, mirrorFile, held>>

EndRefused(c) ==
    /\ At(c, "end")
    /\ ~HoldsToken(store[call[c].run][call[c].task], call[c].token)
    /\ Return(c)
    /\ UNCHANGED <<runFiles, mirrorFile, held>>

\* Faulty: the mirror keeps the claim that has ended.
MarkEndedClaimed(c) ==
    LET t == call[c].task IN
    /\ At(c, "unmark")
    /\ HoldsToken(call[c].queue[t], call[c].token)
    /\ Truncate(c, t, [call[c].queue[t] EXCEPT !.status = call[c].status, !.revision = @ + 1])

\* TaskQueue.requeue or mark_done, which demand the token of the snapshot.
MarkEnded(c) ==
    LET t == call[c].task IN
    /\ At(c, "unmark")
    /\ HoldsToken(call[c].queue[t], call[c].token)
    /\ Truncate(c, t, Released(call[c].queue[t], call[c].status))

\* TaskClaimError: the store has moved on, the mirror stays as it is.
MarkRefused(c) ==
    /\ At(c, "unmark")
    /\ ~HoldsToken(call[c].queue[call[c].task], call[c].token)
    /\ Return(c)
    /\ UNCHANGED <<runFiles, mirrorFile, held>>

\* Faulty: the run is closed as soon as nothing is left to do, with tasks under way.
CloseRunEarly(c) ==
    /\ At(c, "close")
    /\ IF Todo(call[c].queue) = {}
       THEN /\ running' = running \ {call[c].run}
            /\ active' = IF active = call[c].run THEN NoRun ELSE active
       ELSE UNCHANGED <<running, active>>
    /\ Return(c)
    /\ UNCHANGED <<store, runs, issued, mirrorFile, held>>

\* By the snapshot, all tasks are done: finish("all_done").
CloseRun(c) ==
    /\ At(c, "close")
    /\ IF AllDone(call[c].queue)
       THEN /\ running' = running \ {call[c].run}
            /\ active' = IF active = call[c].run THEN NoRun ELSE active
       ELSE UNCHANGED <<running, active>>
    /\ Return(c)
    /\ UNCHANGED <<store, runs, issued, mirrorFile, held>>

-----------------------------------------------------------------------------
(* recover_workspace: first the store, task by task, then the mirror. *)

\* Faulty: the task after the requeued one is reported.
RecoverTaskOffByOne(c) ==
    LET r == call[c].run
        t == call[c].task
    IN
    /\ At(c, "scan")
    /\ t \in Tasks
    /\ store[r][t].status = "in_progress"
    /\ store' = [store EXCEPT ![r][t] = Released(@, "todo")]
    /\ call' = [call EXCEPT ![c] = [@ EXCEPT !.task = t + 1, !.due = call[c].due \cup {t + 1}]]
    /\ UNCHANGED <<running, active, runs, issued, mirrorFile, held>>

\* A task in progress is requeued if its heartbeat is old or --force is given.
RecoverTask(c) ==
    LET r == call[c].run
        t == call[c].task
    IN
    /\ At(c, "scan")
    /\ t \in Tasks
    /\ store[r][t].status = "in_progress"
    /\ store' = [store EXCEPT ![r][t] = Released(@, "todo")]
    /\ call' = [call EXCEPT ![c] = [@ EXCEPT !.task = t + 1, !.due = call[c].due \cup {t}]]
    /\ UNCHANGED <<running, active, runs, issued, mirrorFile, held>>

PassTask(c) ==
    /\ At(c, "scan")
    /\ call[c].task \in Tasks
    /\ call' = [call EXCEPT ![c].task = @ + 1]
    /\ UNCHANGED <<runFiles, mirrorFile, held>>

ScanDone(c) ==
    /\ At(c, "scan")
    /\ call[c].task \notin Tasks
    /\ call' = [call EXCEPT ![c] = [@ EXCEPT !.pc = "requeue", !.queue = Load]]
    /\ UNCHANGED <<runFiles, mirrorFile, held>>

\* TaskQueue.requeue without a token checks nothing.
RequeueMirror(c, t) ==
    /\ At(c, "requeue")
    /\ IsFirst(t, call[c].due)
    /\ call' = [call EXCEPT ![c] =
                   [@ EXCEPT !.pc = "flush",
                             !.due = call[c].due \ {t},
                             !.queue[t] = Released(call[c].queue[t], "todo")]]
    /\ torn' = TRUE
    /\ overlaid' = {}
    /\ UNCHANGED <<runFiles, mirror, held>>

RecoverDone(c) ==
    /\ At(c, "requeue")
    /\ call[c].due = {}
    /\ Return(c)
    /\ UNCHANGED <<runFiles, mirrorFile, held>>

-----------------------------------------------------------------------------
\* The process of a call is killed; a truncated mirror stays truncated.
Crash(c) ==
    /\ call[c].tool \in Mortal
    /\ Return(c)
    /\ overlaid' = overlaid \ {c}
    /\ UNCHANGED <<runFiles, mirror, torn, held>>

Tool(c) == BeginRun(c) \/ BeginNext(c) \/ BeginFinish(c)
           \/ BeginRecover(c) \/ BeginLegacyRecover(c)

NextTask(c) == \/ JoinRun(c) \/ StartRun(c)
               \/ \E t \in Tasks : ClaimCandidate(c, t) \/ SkipCandidate(c, t)
               \/ NoCandidate(c)
               \/ MarkInProgress(c) \/ Flush(c)

FinishTask(c) == \/ FindRun(c) \/ NoActiveRun(c) \/ Heartbeat(c) \/ StaleClaim(c)
                 \/ Validate(c) \/ EndClaim(c) \/ EndRefused(c)
                 \/ MarkEnded(c) \/ MarkRefused(c) \/ CloseRun(c)

RecoverNext(c) == \/ RecoverTask(c) \/ PassTask(c) \/ ScanDone(c)
                  \/ \E t \in Tasks : RequeueMirror(c, t)
                  \/ RecoverDone(c)

Alone(c) == \A d \in Calls \ {c} : At(d, "idle")

Next == \E c \in Calls :
            \/ /\ Tool(c) \/ NextTask(c) \/ FinishTask(c) \/ RecoverNext(c)
               /\ calm' = (calm /\ Alone(c))
            \/ /\ Crash(c)
               /\ calm' = FALSE

Spec == Init /\ [][Next]_vars

-----------------------------------------------------------------------------
(* Properties. *)

Quiet == \A c \in Calls : At(c, "idle")

\* As long as calls come one after the other and none is killed, the mirror agrees
\* with the store of the active run whenever no call is under way.
MirrorInStep ==
    calm /\ Quiet /\ active \in running => ~torn /\ mirror = store[active]

\* Someone has completed the task, in a run or before spec/tasks.md was written.
Earned(t) == Mark[t] = "done" \/ \E r \in Runs : store[r][t].status = "done"

\* A task is shown as done only if it was completed in the store of some run,
\* whatever calls race for the mirror and whichever of them die: a stale or torn
\* snapshot may lose work that was done, it never makes up work that was not.
DoneIsEarned == \A t \in Tasks : mirror[t].status = "done" => Earned(t)

\* A run is finished only when every task was completed, in this run or in one
\* before it, although the call that finishes it looks at its snapshot only.
FinishedIsEarned ==
    \A r \in 1 .. runs : r \notin running => \A t \in Tasks : Earned(t)

\* When no call is under way, a task that the mirror and the store both show as todo
\* can be claimed.  Refuted: after a kill between claim and mark the revisions differ
\* for the rest of the run.
TodoIsClaimable ==
    Quiet /\ active \in running =>
        \A t \in Tasks :
            Load[t].status = "todo" /\ store[active][t].status = "todo"
                => Claimable(store[active][t], Load[t].revision)

\* When no call is under way, a task that is done in the store is done in the mirror.
\* Refuted: a read of the mirror while it is being written finds nothing in it.
DoneIsShown ==
    Quiet /\ active \in running =>
        \A t \in Tasks : store[active][t].status = "done" => Load[t].status = "done"
=============================================================================
