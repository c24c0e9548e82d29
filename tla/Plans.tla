-------------------------------- MODULE Plans --------------------------------
(***************************************************************************)
(* What becomes of a run when an interview writes a new spec/tasks.md: the *)
(* overlay of orchestrator/task_queue.py, by task id, between the plan,    *)
(* storage/task_status.json and the task files of the active run.          *)
(*                                                                         *)
(* A session stands for a loop, which keeps one snapshot for all it does,  *)
(* or for one call after the other of the in-session tools, each with a    *)
(* snapshot of its own.  Store and mirror change in one step here; what    *)
(* may come between the two is in InSession, the interview in Interview.   *)
(***************************************************************************)
EXTENDS TaskRecords, Sequences, FiniteSets

CONSTANTS
    Loops,      \* calls of jb run
    Callers,    \* sessions that call the in-session tools
    Ids,        \* the ids tasks can have, in order
    MaxPlans,   \* bound on the plans
    MaxRuns,    \* bound on the runs
    MaxTokens   \* bound on the claims

ASSUME IdsAssumption     == Ids \subseteq Nat
ASSUME CallersAssumption == Loops \cap Callers = {}
ASSUME ClientsAssumption == Clients # {}
ASSUME BoundsAssumption  == MaxPlans \in Nat \ {0} /\ MaxRuns \in Nat /\ MaxTokens \in Nat

Sessions == Loops \cup Callers

VARIABLES
    plans,      \* the ids in spec/tasks.md, in each version of it; the last one is there
    mirror,     \* task_status.json: the tasks it lists
    active,     \* the active run, 0 if there is none
    store,      \* task files of each run that was started
    born,       \* history: the plan of the snapshot that each run was started with
    session,    \* what each session is doing
    held,       \* claims in the hands of agents: task and token
    given,      \* history: the plan whose task was given out with each token
    earned,     \* history: plan and id of the tasks that were completed
    calm        \* history: no snapshot has met another one or a change of plan

history == <<born, given, earned>>
vars    == <<plans, mirror, active, store, session, held, history, calm>>

Plan   == Len(plans)
Current == plans[Plan]
Issued == Len(given)
Runs   == DOMAIN store

Agent == CHOOSE a \in Clients : TRUE      \* worker_id, the same for all

\* run: the one the session has joined or started.
Closed == [open |-> FALSE, plan |-> 1, run |-> 0, queue |-> [t \in {} |-> Unclaimed("todo")]]

TypeOK ==
    /\ plans \in Seq(SUBSET Ids)
    /\ Plan \in 1 .. MaxPlans
    /\ DOMAIN mirror \subseteq Ids /\ \A t \in DOMAIN mirror : mirror[t] \in TaskRecord
    /\ Runs \subseteq 1 .. MaxRuns
    /\ \A r \in Runs : DOMAIN store[r] \subseteq Ids
                      /\ \A t \in DOMAIN store[r] : store[r][t] \in TaskRecord
    /\ active \in Runs \cup {0}
    /\ born \in [Runs -> 1 .. Plan]
    /\ calm \in BOOLEAN
    /\ \A s \in Sessions :
           /\ session[s].open \in BOOLEAN
           /\ session[s].run \in Runs \cup {0}
           /\ session[s].plan \in 1 .. MaxPlans
           /\ \A t \in DOMAIN session[s].queue : session[s].queue[t] \in TaskRecord
    /\ held \subseteq Ids \X (1 .. MaxTokens)
    /\ given \in Seq(1 .. MaxPlans) /\ Issued <= MaxTokens
    /\ earned \subseteq (1 .. MaxPlans) \X Ids

Init ==
    /\ \E ids \in SUBSET Ids \ {{}} : plans = <<ids>>
    /\ mirror = Closed.queue
    /\ active = 0
    /\ store = <<>>
    /\ born = <<>>
    /\ session = [s \in Sessions |-> Closed]
    /\ held = {}
    /\ given = <<>>
    /\ earned = {}
    /\ calm = TRUE

AllDone(q) == \A t \in DOMAIN q : q[t].status = "done"

\* Faulty: entries go to tasks by their position.
LoadByPosition ==
    LET Rank(t, S) == Cardinality({u \in S : u <= t})
        Same(t) == {u \in DOMAIN mirror : Rank(u, DOMAIN mirror) = Rank(t, Current)}
    IN [t \in Current |-> IF Same(t) = {} THEN Unclaimed("todo")
                          ELSE mirror[CHOOSE u \in Same(t) : TRUE]]

\* TaskQueue.__post_init__: every entry whose id is in the plan counts.
Load == [t \in Current |-> IF t \in DOMAIN mirror THEN mirror[t] ELSE Unclaimed("todo")]

Open(s)  == session[s].open
Queue(s) == session[s].queue
Run(s)   == session[s].run

\* _update_status and _flush_status_file: the mirror lists what the snapshot lists.
Flush(s, q) ==
    /\ mirror' = q
    /\ session' = [session EXCEPT ![s].queue = q]

-----------------------------------------------------------------------------
\* An interview ends, of a loop or a session or beside them.  A reply of the model
\* without a task line is a plan without tasks.
ReplacePlan ==
    /\ Plan < MaxPlans
    /\ \E ids \in SUBSET Ids : plans' = Append(plans, ids)
    /\ UNCHANGED <<mirror, active, store, session, held, history>>

TakeSnapshot(s) ==
    /\ ~Open(s)
    /\ session' = [session EXCEPT ![s] = [open |-> TRUE, plan |-> Plan,
                                             run |-> 0, queue |-> Load]]
    /\ UNCHANGED <<plans, mirror, active, store, held, history>>

\* The call is answered, or the loop is killed.
Leave(s) ==
    /\ Open(s)
    /\ session' = [session EXCEPT ![s] = Closed]
    /\ UNCHANGED <<plans, mirror, active, store, held, history>>

-----------------------------------------------------------------------------
\* _runtime_store_for_workspace.  A loop would be refused.
JoinRun(s) ==
    /\ s \in Callers
    /\ Open(s)
    /\ Run(s) = 0
    /\ active # 0
    /\ session' = [session EXCEPT ![s].run = active]
    /\ UNCHANGED <<plans, mirror, active, store, held, history>>

StartRunWith(s, files) ==
    /\ Open(s)
    /\ Run(s) = 0
    /\ active = 0
    /\ Len(store) < MaxRuns
    /\ ~AllDone(Queue(s))
    /\ active' = Len(store) + 1
    /\ store' = Append(store, files)
    /\ born' = Append(born, session[s].plan)
    /\ session' = [session EXCEPT ![s].run = Len(store) + 1]
    /\ UNCHANGED <<plans, mirror, held, given, earned>>

\* Faulty: the files of a new run begin with revision 0.
StartRunAfresh(s) == StartRunWith(s, [t \in DOMAIN Queue(s) |-> Unclaimed(Queue(s)[t].status)])

\* RuntimeStore.start, unless "All tasks already complete".
StartRun(s) == StartRunWith(s, Queue(s))

\* A loop ends its run, whatever is left to do.
EndLoop(s) ==
    /\ s \in Loops
    /\ Run(s) # 0
    /\ active' = IF active = Run(s) THEN 0 ELSE active
    /\ session' = [session EXCEPT ![s] = Closed]
    /\ UNCHANGED <<plans, mirror, store, held, history>>

\* A task without a file has no status and cannot be claimed.
CanClaim(q, files, t) ==
    /\ q[t].status = "todo"
    /\ t \in DOMAIN files
    /\ Claimable(files[t], q[t].revision)

ClaimTask(s) ==
    LET q == Queue(s)
        token == Issued + 1
    IN
    /\ Run(s) # 0
    /\ token <= MaxTokens
    /\ \E t \in DOMAIN q :
           /\ IsFirst(t, {u \in DOMAIN q : CanClaim(q, store[Run(s)], u)})
           /\ store' = [store EXCEPT ![Run(s)][t] = Claimed(@, Agent, token, 0)]
           /\ Flush(s, [q EXCEPT ![t] = Claimed(@, Agent, token, 0)])
           /\ held' = held \cup {<<t, token>>}
    /\ given' = Append(given, session[s].plan)
    /\ UNCHANGED <<plans, active, born, earned>>

\* A validated task passes or fails.  "Task not found" if the snapshot lacks it; a
\* snapshot that does not know the claim leaves the mirror as it is.
EndTask(s) ==
    LET q == Queue(s)
        r == Run(s)
    IN
    /\ r # 0
    /\ \E h \in held, status \in {"todo", "done"} :
           LET t == h[1]
               token == h[2]
               known == HoldsToken(q[t], token)
               ended == [q EXCEPT ![t] = Released(@, status)]
           IN
           /\ t \in DOMAIN q \cap DOMAIN store[r]
           /\ HoldsToken(store[r][t], token)
           /\ store' = [store EXCEPT ![r][t] = Released(@, status)]
           /\ IF known THEN Flush(s, ended) ELSE UNCHANGED <<mirror, session>>
           /\ active' = IF known /\ AllDone(ended) /\ active = r THEN 0 ELSE active
           /\ earned' = IF status = "done" THEN earned \cup {<<given[token], t>>} ELSE earned
    /\ UNCHANGED <<plans, held, born, given>>

\* queue.requeue, without a token.
Requeued(q, S) == [t \in DOMAIN q |-> IF t \in S THEN Released(q[t], "todo") ELSE q[t]]

InProgress(q) == {t \in DOMAIN q : q[t].status = "in_progress"}

\* The run recover_workspace turns to: the active one, or the latest one if it has tasks
\* in progress.
RunToRecover ==
    IF active # 0 THEN active
    ELSE IF Runs # {} /\ InProgress(store[Len(store)]) # {} THEN Len(store) ELSE 0

\* Stale claims of that run are taken back, in the mirror where the plan knows the task.
Recover ==
    LET r == RunToRecover IN
    /\ r # 0
    /\ \E stale \in SUBSET InProgress(store[r]) \ {{}} :
           /\ store' = [store EXCEPT ![r] = Requeued(@, stale)]
           /\ mirror' = Requeued(Load, stale)
    /\ UNCHANGED <<plans, active, session, held, history>>

\* _recover_legacy_task_status: without such a run, of the mirror alone.
RecoverMirror ==
    /\ RunToRecover = 0
    /\ \E stale \in SUBSET InProgress(Load) \ {{}} : mirror' = Requeued(Load, stale)
    /\ UNCHANGED <<plans, active, store, session, held, history>>

-----------------------------------------------------------------------------
Quiet == \A s \in Sessions : ~Open(s)

Alone(s) == \A r \in Sessions \ {s} : ~Open(r)

Next ==
    \/ \E s \in Sessions :
           /\ \/ TakeSnapshot(s) \/ Leave(s)
              \/ JoinRun(s) \/ StartRun(s) \/ EndLoop(s)
              \/ ClaimTask(s) \/ EndTask(s)
           /\ calm' = (calm /\ Alone(s))
    \/ (ReplacePlan \/ Recover \/ RecoverMirror) /\ calm' = (calm /\ Quiet)

Spec == Init /\ [][Next]_vars

-----------------------------------------------------------------------------
(* Properties. *)

\* A run that was started with the plan that is in spec/tasks.md can be worked off:
\* every task that is shown as todo can be claimed, whatever plans and runs there were
\* before, and whatever their tasks had in common with those of the new plan.  Snapshots
\* must not overlap with each other or with a change of plan (runtime_store.py:189).
OwnPlanIsClaimable ==
    calm /\ Quiet /\ active # 0 /\ born[active] = Plan =>
        \A t \in Current : Load[t].status = "todo" => CanClaim(Load, store[active], t)

\* A task whose id no earlier plan has used is shown as done only if it was given out
\* and completed as a task of this plan, although sessions go on with snapshots and
\* claims of earlier plans and write them back (task_queue.py:112).
FreshIdIsEarned ==
    \A t \in Current :
        (\A p \in 1 .. Plan - 1 : t \notin plans[p]) /\ Load[t].status = "done"
            => <<Plan, t>> \in earned

\* The plan is frozen while it is worked on: what is shown as done is done as this plan
\* describes it (README.md:25).  Refuted: the new task of an old id takes over the old
\* status.
DoneIsOfThisPlan == \A t \in Current : Load[t].status = "done" => <<Plan, t>> \in earned

\* After an interview the tasks can be worked on (server.py:761).  Refuted: the run of
\* the old plan stays active, has no files for the new tasks, and cannot be completed.
NewPlanIsClaimable ==
    calm /\ Quiet /\ active # 0 =>
        \A t \in Current : Load[t].status = "todo" => CanClaim(Load, store[active], t)
=============================================================================
