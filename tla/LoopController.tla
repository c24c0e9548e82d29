--------------------------- MODULE LoopController ---------------------------
(***************************************************************************)
(* LoopController.run of orchestrator/loop_controller.py: the loop behind  *)
(* `jb run`, with its retries, its quality gate, its escalations and the   *)
(* ways it stops.                                                          *)
(*                                                                         *)
(* The loop works on the tasks of its own TaskQueue, which no one else     *)
(* writes while it runs, and mirrors every step in the task files of its   *)
(* run.  Others do write those: `jb recover --force` takes a claim away,   *)
(* and an MCP session that joins the run claims and completes tasks.  What *)
(* the agent, the validators and the quality evaluator answer is open.     *)
(* Beats and worker files are in RuntimeTasks; the claim token, a string   *)
(* of task and time, is the number of the iteration.                       *)
(***************************************************************************)
EXTENDS TaskRecords

CONSTANTS
    Loop, Other,        \* the worker ids of the loop and of an MCP session
    NTasks,             \* the tasks, in the order of spec/tasks.md
    MaxIterations,      \* max_iterations
    QualityGate,        \* whether the mode has a quality evaluator
    MaxQualityRetries,  \* max_quality_retries
    Threshold,          \* escalation_threshold
    MaxIntrusions       \* bound on what others do to the run

ASSUME LoopClientsAssumption == Loop # Other /\ Clients = {Loop, Other}
ASSUME LoopNumbersAssumption ==
    /\ {NTasks, Threshold} \subseteq Nat \ {0}
    /\ {MaxIterations, MaxQualityRetries, MaxIntrusions} \subseteq Nat
    /\ QualityGate \in BOOLEAN

Tasks == 1 .. NTasks
NoTask == 0

VARIABLES
    pc,         \* where the loop is
    queue,      \* queue._tasks
    file,       \* the task files of the run
    run,        \* status of the run in its manifest; "none" before there is one
    task,       \* the task of this iteration
    iteration,  \* result.total_iterations
    reason,     \* result.stopped_reason
    context,    \* the task whose failure failure_context tells of
    retries,    \* quality_retries
    failures,   \* consecutive_failures
    intrusions, \* steps taken by others
    failed,     \* history: agent and validator failures of each task
    rejected,   \* history: quality failures of each task
    escalated,  \* history: escalations of each task
    credited    \* history: who completed each task

counters == <<retries, failures, failed, rejected, escalated>>
vars == <<pc, queue, file, run, task, iteration, reason, context, counters,
          intrusions, credited>>

Reasons == {"none", "all_done", "max_iterations", "no_runnable_tasks", "agent_unavailable"}

TypeOK ==
    /\ pc \in {"head", "claim", "agent", "validate", "quality", "escalate", "pass", "commit",
               "close", "abort", "stopped"}
    /\ queue \in [Tasks -> TaskRecord]
    /\ file \in [Tasks -> TaskRecord]
    /\ run \in {"none", "running", "aborted"} \cup Reasons
    /\ task \in Tasks \cup {NoTask}
    /\ iteration \in 0 .. MaxIterations
    /\ reason \in Reasons
    /\ context \in Tasks \cup {NoTask}
    /\ {retries, failures, failed, rejected, escalated} \subseteq [Tasks -> Nat]
    /\ intrusions \in 0 .. MaxIntrusions
    /\ credited \in [Tasks -> SUBSET Clients]

\* The token of a claim of others, now or in an earlier run, differs from every token of
\* the loop.
OtherToken == MaxIterations + 1

\* The queue is spec/tasks.md under the overlay of the mirror, which may still show claims
\* of an earlier run.
Init ==
    /\ pc = "head"
    /\ queue \in [Tasks -> {Unclaimed(s) : s \in Statuses} \cup {Inherited(Other, OtherToken)}]
    /\ file = queue
    /\ run = "none"
    /\ task = NoTask
    /\ iteration = 0
    /\ reason = "none"
    /\ context = NoTask
    /\ retries = [t \in Tasks |-> 0]
    /\ failures = [t \in Tasks |-> 0]
    /\ failed = [t \in Tasks |-> 0]
    /\ rejected = [t \in Tasks |-> 0]
    /\ escalated = [t \in Tasks |-> 0]
    /\ intrusions = 0
    /\ credited = [t \in Tasks |-> {}]

Todo == {t \in Tasks : queue[t].status = "todo"}

AllDone == \A t \in Tasks : queue[t].status = "done"

-----------------------------------------------------------------------------
(* The head of the while loop. *)

Stop(why) ==
    /\ pc' = "close"
    /\ reason' = why
    /\ UNCHANGED <<queue, file, run, task, iteration, context, counters, intrusions, credited>>

\* Faulty: tasks that are blocked or under way are overlooked.
LoopDoneEarly ==
    /\ pc = "head"
    /\ Todo = {}
    /\ Stop("all_done")

LoopDone ==
    /\ pc = "head"
    /\ AllDone
    /\ Stop("all_done")

OutOfIterations ==
    /\ pc = "head"
    /\ ~AllDone
    /\ iteration >= MaxIterations
    /\ Stop("max_iterations")

NothingRunnable ==
    /\ pc = "head"
    /\ ~AllDone
    /\ iteration < MaxIterations
    /\ Todo = {}
    /\ Stop("no_runnable_tasks")

\* Faulty: one iteration too many.
NextTaskTooMany ==
    /\ pc = "head"
    /\ iteration <= MaxIterations
    /\ \E t \in Todo : IsFirst(t, Todo) /\ task' = t
    /\ pc' = "claim"
    /\ iteration' = iteration + 1
    /\ run' = "running"
    /\ UNCHANGED <<queue, file, reason, context, counters, intrusions, credited>>

\* queue.next, and RuntimeStore.start in the first iteration.
NextTask ==
    /\ pc = "head"
    /\ iteration < MaxIterations
    /\ \E t \in Todo : IsFirst(t, Todo) /\ task' = t
    /\ pc' = "claim"
    /\ iteration' = iteration + 1
    /\ run' = "running"
    /\ UNCHANGED <<queue, file, reason, context, counters, intrusions, credited>>

\* RuntimeRunActiveError: there is no run to finish.
StartRefused ==
    /\ pc = "head"
    /\ iteration < MaxIterations
    /\ \E t \in Todo : IsFirst(t, Todo) /\ task' = t
    /\ run = "none"
    /\ pc' = "abort"
    /\ iteration' = iteration + 1
    /\ UNCHANGED <<queue, file, run, reason, context, counters, intrusions, credited>>

Advance(to) ==
    /\ pc' = to
    /\ UNCHANGED <<queue, file, run, task, iteration, reason, context, counters,
                   intrusions, credited>>

-----------------------------------------------------------------------------
(* claim_task and mark_in_progress. *)

Claim ==
    /\ pc = "claim"
    /\ Claimable(file[task], queue[task].revision)
    /\ file' = [file EXCEPT ![task] = Claimed(@, Loop, iteration, 0)]
    /\ queue' = [queue EXCEPT ![task] = Claimed(@, Loop, iteration, 0)]
    /\ pc' = "agent"
    /\ UNCHANGED <<run, task, iteration, reason, context, counters, intrusions, credited>>

\* RuntimeClaimError, which run does not catch.
ClaimRefused ==
    /\ pc = "claim"
    /\ ~Claimable(file[task], queue[task].revision)
    /\ Advance("abort")

-----------------------------------------------------------------------------
(* One iteration, inside the Heartbeat. *)

AgentSucceeds  == pc = "agent" /\ Advance("validate")
ValidatorsPass == pc = "validate" /\ Advance(IF QualityGate THEN "quality" ELSE "pass")
QualityPasses  == pc = "quality" /\ retries[task] < MaxQualityRetries /\ Advance("pass")
QualitySkipped == pc = "quality" /\ retries[task] >= MaxQualityRetries /\ Advance("pass")

Mine == HoldsToken(file[task], iteration)

\* requeue_task in the store, then requeue in the queue.
Requeue ==
    /\ Mine
    /\ file' = [file EXCEPT ![task] = Released(@, "todo")]
    /\ queue' = [queue EXCEPT ![task] = Released(@, "todo")]

\* The token is not valid any more: the store's RuntimeError ends the run, and what
\* the loop has counted does not matter any more.
Dispossessed ==
    /\ pc \in {"agent", "validate", "quality", "pass"}
    /\ ~Mine
    /\ Advance("abort")

\* Faulty: no finally clause.
InterruptedForGood ==
    /\ pc \notin {"close", "abort", "stopped"}
    /\ Advance("stopped")

\* Anything else that run lets through: an error of a runner or validator, ^C.
Interrupted ==
    /\ pc \notin {"close", "abort", "stopped"}
    /\ Advance("abort")

\* Faulty: the task of an agent that cannot be started is not requeued.
AgentUnavailableClaimed ==
    /\ pc = "agent"
    /\ reason' = "agent_unavailable"
    /\ pc' = "close"
    /\ UNCHANGED <<queue, file, run, task, iteration, context, counters, intrusions, credited>>

AgentUnavailable ==
    /\ pc = "agent"
    /\ Requeue
    /\ reason' = "agent_unavailable"
    /\ pc' = "close"
    /\ UNCHANGED <<run, task, iteration, context, counters, intrusions, credited>>

\* The failure just counted is the last that _maybe_escalate waits for.
EscalationDue == failures[task] + 1 >= Threshold

\* consecutive_failures, and the call of the escalation handler when it is due.
CountFailure ==
    /\ failed' = [failed EXCEPT ![task] = @ + 1]
    /\ failures' = [failures EXCEPT ![task] = @ + 1]
    /\ escalated' = [escalated EXCEPT ![task] = IF EscalationDue THEN @ + 1 ELSE @]
    /\ pc' = IF EscalationDue THEN "escalate" ELSE "head"

\* Faulty: a failure gives the task its quality retries back.
FailureForgives ==
    /\ pc \in {"agent", "validate"}
    /\ Requeue
    /\ context' = task
    /\ CountFailure
    /\ retries' = [retries EXCEPT ![task] = 0]
    /\ UNCHANGED <<run, task, iteration, reason, rejected, intrusions, credited>>

\* The agent failed or timed out, or validators reported errors.
Failure ==
    /\ pc \in {"agent", "validate"}
    /\ Requeue
    /\ context' = task
    /\ CountFailure
    /\ UNCHANGED <<run, task, iteration, reason, retries, rejected, intrusions, credited>>

\* Faulty: the counter is not reset by an escalation.
EscalatedAgain == pc = "escalate" /\ Advance("head")

\* The escalation handler returns, with an issue or without one.
Escalated ==
    /\ pc = "escalate"
    /\ failures' = [failures EXCEPT ![task] = 0]
    /\ pc' = "head"
    /\ UNCHANGED <<queue, file, run, task, iteration, reason, context, retries, failed,
                   rejected, escalated, intrusions, credited>>

QualityFailure ==
    /\ pc = "quality"
    /\ retries[task] < MaxQualityRetries
    /\ Requeue
    /\ context' = task
    /\ retries' = [retries EXCEPT ![task] = @ + 1]
    /\ rejected' = [rejected EXCEPT ![task] = @ + 1]
    /\ pc' = "head"
    /\ UNCHANGED <<run, task, iteration, reason, failures, failed, escalated, intrusions,
                   credited>>

\* Faulty: the failure a task has overcome is told to the agent of the next one.
PassStillTold ==
    /\ pc = "pass"
    /\ Mine
    /\ file' = [file EXCEPT ![task] = Released(@, "done")]
    /\ queue' = [queue EXCEPT ![task] = Released(@, "done")]
    /\ credited' = [credited EXCEPT ![task] = @ \cup {Loop}]
    /\ retries' = [retries EXCEPT ![task] = 0]
    /\ failures' = [failures EXCEPT ![task] = 0]
    /\ pc' = "commit"
    /\ UNCHANGED <<run, task, iteration, reason, context, failed, rejected, escalated,
                   intrusions>>

\* Faulty: the loop completes a task whose claim it has lost.
PassUnclaimed ==
    /\ pc = "pass"
    /\ file' = [file EXCEPT ![task] = Released(@, "done")]
    /\ queue' = [queue EXCEPT ![task] = Released(@, "done")]
    /\ credited' = [credited EXCEPT ![task] = @ \cup {Loop}]
    /\ context' = NoTask
    /\ retries' = [retries EXCEPT ![task] = 0]
    /\ failures' = [failures EXCEPT ![task] = 0]
    /\ pc' = "commit"
    /\ UNCHANGED <<run, task, iteration, reason, failed, rejected, escalated, intrusions>>

Pass ==
    /\ pc = "pass"
    /\ Mine
    /\ file' = [file EXCEPT ![task] = Released(@, "done")]
    /\ queue' = [queue EXCEPT ![task] = Released(@, "done")]
    /\ credited' = [credited EXCEPT ![task] = @ \cup {Loop}]
    /\ context' = NoTask
    /\ retries' = [retries EXCEPT ![task] = 0]
    /\ failures' = [failures EXCEPT ![task] = 0]
    /\ pc' = "commit"
    /\ UNCHANGED <<run, task, iteration, reason, failed, rejected, escalated, intrusions>>

\* _git_commit returns, or there is no auto_commit.
Committed == pc = "commit" /\ Advance("head")

-----------------------------------------------------------------------------
(* The end: finish with the reason, or "aborted" from the finally clause. *)

Finish(status) ==
    /\ run' = IF run = "running" THEN status ELSE run
    /\ pc' = "stopped"
    /\ UNCHANGED <<queue, file, task, iteration, reason, context, counters, intrusions, credited>>

Close == pc = "close" /\ Finish(reason)
Abort == pc = "abort" /\ Finish("aborted")

-----------------------------------------------------------------------------
(* Others, who work on the files of a running run. *)

Intrude(t, record) ==
    /\ run = "running"
    /\ intrusions < MaxIntrusions
    /\ intrusions' = intrusions + 1
    /\ file' = [file EXCEPT ![t] = record]
    /\ UNCHANGED <<pc, queue, run, task, iteration, reason, context, counters>>

ForcedRecovery(t) ==
    /\ file[t].status = "in_progress"
    /\ Intrude(t, Released(file[t], "todo"))
    /\ UNCHANGED credited

OtherClaims(t) ==
    /\ file[t].status = "todo"
    /\ Intrude(t, Claimed(file[t], Other, OtherToken, 0))
    /\ UNCHANGED credited

OtherEnds(t, status) ==
    /\ HoldsToken(file[t], OtherToken)
    /\ Intrude(t, Released(file[t], status))
    /\ credited' = IF status = "done" THEN [credited EXCEPT ![t] = @ \cup {Other}] ELSE credited

-----------------------------------------------------------------------------
Head      == LoopDone \/ OutOfIterations \/ NothingRunnable \/ NextTask \/ StartRefused
Iteration == \/ Claim \/ ClaimRefused
             \/ AgentSucceeds \/ AgentUnavailable \/ ValidatorsPass \/ Failure \/ Escalated
             \/ QualityPasses \/ QualitySkipped \/ QualityFailure
             \/ Pass \/ Committed \/ Dispossessed \/ Interrupted
LoopNext  == Head \/ Iteration \/ Close \/ Abort

Others ==
    \E t \in Tasks :
        \/ ForcedRecovery(t) \/ OtherClaims(t)
        \/ \E status \in {"todo", "done"} : OtherEnds(t, status)

Next == LoopNext \/ Others

Spec == Init /\ [][Next]_vars

\* Where the loop waits for what has no time limit: the programs of the validators, the
\* answer at the escalation's prompt, git.  The agent has one, and so has the evaluator's
\* client.
Unbounded == {"validate", "escalate", "commit"}

\* The loop always goes on, except that what has no time limit need never return.
FairSpec == Spec /\ WF_vars(pc \notin Unbounded /\ LoopNext)

-----------------------------------------------------------------------------
(* Properties. *)

\* The loop stops, whatever agent, validators, evaluator and others do, and its run is
\* closed then, whether it stopped for a reason or by an error: unless a validator, the
\* user at the prompt or git keeps it waiting for ever.
Stops ==
    \/ <>(pc = "stopped" /\ run # "running")
    \/ \E p \in Unbounded : <>[](pc = p)

\* A loop that reports all_done is right: every task is done in the files of the
\* run, although the loop looks at nothing but its own queue.
AllDoneIsTrue == reason = "all_done" => \A t \in Tasks : file[t].status = "done"

\* A loop that stops for a reason of its own holds no claim any more; only an
\* error that it raises leaves its task claimed.
NothingLeftClaimed ==
    pc = "stopped" /\ reason # "none" =>
        \A t \in Tasks : file[t].claim_token \notin 1 .. MaxIterations

\* The agent is only ever told of a failure of the task it is given: the one
\* failure_context of the loop never leaks from one task into another.
ContextIsOwn ==
    pc \in {"agent", "validate", "quality", "pass"} => context \in {NoTask, task}

\* A task is escalated with every Threshold-th failure of its agent or validators,
\* and with no other, however failures and quality retries of tasks alternate.
EscalationPaced ==
    \A t \in Tasks : failed[t] - Threshold * escalated[t] \in 0 .. Threshold - 1

\* The quality gate sends a task back at most MaxQualityRetries times.
RejectionsBounded == \A t \in Tasks : rejected[t] <= MaxQualityRetries

\* The files of the loop's run implement the leases of TaskLease, intruders
\* included.
Phase(f) == CASE f.status = "todo" -> "open"
              [] f.status = "in_progress" -> "leased"
              [] OTHER -> "closed"

Lease == INSTANCE TaskLease
    WITH phase  <- [t \in Tasks |-> Phase(file[t])],
         holder <- [t \in Tasks |-> file[t].claimed_by],
         credit <- credited

LeaseSpec == Lease!Spec
=============================================================================
