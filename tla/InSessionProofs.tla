--------------------------- MODULE InSessionProofs ---------------------------
(***************************************************************************)
(* Proofs about InSession, for any number of calls, tasks, claims and runs *)
(* and calls killed in any tool: SessionInv is an invariant, and from it   *)
(* follow the properties.  It has two halves: what is true whatever calls  *)
(* race and die (Sound), and what is true as long as they come one after   *)
(* the other (InStep).                                                     *)
(***************************************************************************)
EXTENDS InSession, TLAPS

-----------------------------------------------------------------------------
(* The inductive invariant. *)

\* A snapshot shows as done only what was completed, and as claimed only what is
\* under way.
Sound(q) ==
    \A t \in Tasks :
        /\ q[t].status = "done" => Earned(t)
        /\ q[t].claim_token # NoToken => q[t].status = "in_progress"

Finishing == {"find", "beat", "validate", "end", "unmark", "close"}

\* A call has a sound snapshot and is at a step of its tool.  A claim that it marks
\* or ends is of a task and a token, its run is one that was started, and a task that
\* it is about to mark as done was completed.
CallSound(k) ==
    /\ Sound(k.queue)
    /\ k.tool # "recover" => k.due = {}
    /\ k.pc = "join" => k.tool \in {"run", "next"}
    /\ k.pc \in {"claim", "mark"} => k.tool = "next"
    /\ k.pc \in Finishing => k.tool = "finish"
    /\ k.pc \in {"scan", "requeue"} => k.tool = "recover"
    /\ k.pc = "flush" => k.tool \in {"next", "finish", "recover"}
    /\ k.tool = "finish" \/ (k.tool = "next" /\ k.pc \in {"mark", "flush"}) =>
           k.task \in Tasks /\ k.token # NoToken
    /\ k.pc \in {"claim", "beat", "validate", "end", "scan"} =>
           k.run \in 1 .. runs
    /\ k.pc = "unmark" /\ k.status = "done" => Earned(k.task)

CallsSound == \A c \in Calls : CallSound(call[c])

\* The files of a run show as claimed only what is under way, and a run that is not
\* started has completed nothing.
StoreSound ==
    /\ \A r \in Runs, t \in Tasks :
           store[r][t].claim_token # NoToken => store[r][t].status = "in_progress"
    /\ \A r \in Runs, t \in Tasks : r > runs => store[r][t].status # "done"

RunsStarted == running \subseteq 1 .. runs

HeldIssued == \A h \in held : h[1] \in Tasks /\ h[2] # NoToken

\* The snapshot q after the tasks that are due are requeued in it.
Requeued(q, due) == [t \in Tasks |-> IF t \in due THEN Released(q[t], "todo") ELSE q[t]]

Synced(q) == active \in running => store[active] = q

OnActive(k) == active \in running /\ k.run = active

\* How far mirror and store are apart in the middle of a call that nothing disturbs.
StepwiseSynced(k) ==
    /\ k.pc \in {"join", "find"} => Synced(mirror)
    /\ k.pc \in {"claim", "beat", "validate", "end", "close"} =>
           OnActive(k) /\ store[active] = mirror
    /\ k.pc = "mark" =>
           /\ OnActive(k)
           /\ store[active] = [mirror EXCEPT ![k.task] = Claimed(@, Agent, k.token, 0)]
    /\ k.pc = "unmark" =>
           /\ OnActive(k) /\ HoldsToken(mirror[k.task], k.token)
           /\ store[active] = [mirror EXCEPT ![k.task] = Released(@, k.status)]
    /\ k.pc \in {"flush", "requeue"} => Synced(Requeued(k.queue, k.due))
    /\ k.pc = "flush" /\ k.tool = "finish" => OnActive(k)
    /\ k.pc = "scan" =>
           /\ Synced(Requeued(mirror, k.due))
           /\ active \in running => k.run = active
           /\ \A t \in k.due : t < k.task

\* Its snapshot is the mirror, which is readable unless the call is writing it.
InStep(c, k) ==
    /\ StepwiseSynced(k)
    /\ k.pc # "flush" => ~torn
    /\ k.pc = "flush" => c \notin overlaid
    /\ k.pc \notin {"flush", "scan"} => k.queue = mirror

\* As long as all is calm one call at a time is under way.
CallsInStep ==
    calm => /\ Quiet => ~torn /\ Synced(mirror)
            /\ \A c \in Calls : ~At(c, "idle") => Alone(c) /\ InStep(c, call[c])

SessionInv ==
    /\ CallsSound /\ Sound(mirror) /\ StoreSound /\ RunsStarted /\ HeldIssued
    /\ FinishedIsEarned
    /\ CallsInStep

-----------------------------------------------------------------------------
(* Records, snapshots and calls. *)

USE NTasksAssumption, MortalAssumption, BoundsAssumption, NoClientAssumption

\* The worker id of the tools is one of the clients.
LEMMA AgentIsClient == Agent \in Clients
  BY AgentAssumption DEF Agent

\* Claimed, the update of a record that claim_task and mark_in_progress make, yields a
\* record in progress.
LEMMA ClaimedRecord ==
  ASSUME NEW f \in TaskRecord, NEW k \in Nat
  PROVE  /\ Claimed(f, Agent, k, 0) \in TaskRecord
         /\ Claimed(f, Agent, k, 0).status = "in_progress"
         /\ Claimed(f, Agent, k, 0).claim_token = k
  BY AgentIsClient DEF Claimed, TaskRecord, Statuses

\* Released, the update of complete_task, requeue_task, mark_done and requeue, yields a
\* record with the status it was given and no token.
LEMMA ReleasedRecord ==
  ASSUME NEW f \in TaskRecord, NEW status \in {"todo", "done"}
  PROVE  /\ Released(f, status) \in TaskRecord
         /\ Released(f, status).status = status
         /\ Released(f, status).claim_token = NoToken
  BY DEF Released, TaskRecord, NoToken, Statuses

\* The markers of spec/tasks.md show nothing as claimed, and as done only what they say
\* was completed before.
LEMMA MarkersSound ==
  /\ Markers \in [Tasks -> TaskRecord]
  /\ \A t \in Tasks : Markers[t].status = Mark[t] /\ Markers[t].claim_token = NoToken
  /\ Sound(Markers)
<1>1. Markers \in [Tasks -> TaskRecord]
  BY MarkAssumption DEF Markers, Unclaimed, TaskRecord, NoToken
<1>2. \A t \in Tasks : Markers[t].status = Mark[t] /\ Markers[t].claim_token = NoToken
  BY DEF Markers, Unclaimed
<1> QED
  BY <1>1, <1>2 DEF Sound, Earned

\* A call at rest is one.
LEMMA AtRestSound ==
  /\ AtRest \in CallRecord /\ AtRest.pc = "idle"
  /\ CallSound(AtRest)
<1>1. /\ AtRest.tool = "none" /\ AtRest.pc = "idle" /\ AtRest.task = 0
      /\ AtRest.token = NoToken /\ AtRest.run = NoRun /\ AtRest.status = "todo"
      /\ AtRest.queue = Markers /\ AtRest.due = {}
  BY DEF AtRest
<1>2. AtRest \in CallRecord
  BY MarkersSound DEF AtRest, CallRecord, NoToken
<1>3. CallSound(AtRest)
  BY <1>1, MarkersSound DEF CallSound, Finishing
<1> QED
  BY <1>1, <1>2, <1>3

\* What a TaskQueue reads is a sound snapshot, and the mirror if that is readable.
LEMMA LoadSound ==
  ASSUME TypeOK, Sound(mirror)
  PROVE  Load \in [Tasks -> TaskRecord] /\ Sound(Load) /\ (~torn => Load = mirror)
  BY MarkersSound DEF TypeOK, Load

\* With nothing due the snapshot is as it is.
LEMMA RequeuedNone ==
  ASSUME NEW q \in [Tasks -> TaskRecord]
  PROVE  Requeued(q, {}) = q
  BY DEF Requeued

\* NoRun is not a run that was started.
LEMMA NoRunNotRunning ==
  ASSUME TypeOK, RunsStarted
  PROVE  NoRun \notin running /\ runs \in Nat /\ 1 .. runs \subseteq Runs
  BY DEF TypeOK, RunsStarted, NoRun, Runs

\* A step of one call leaves the others where they are.
LEMMA OneCall ==
  ASSUME TypeOK, NEW c \in Calls, NEW k \in CallRecord, call' = [call EXCEPT ![c] = k]
  PROVE  /\ call' \in [Calls -> CallRecord] /\ call'[c] = k
         /\ \A d \in Calls : d # c => call'[d] = call[d]
  BY DEF TypeOK

-----------------------------------------------------------------------------
(* What a step has to establish. *)

\* A step that leaves the store alone keeps what calls and store have to show.
LEMMA StoreStays ==
  ASSUME TypeOK, SessionInv, NEW c \in Calls, NEW k \in CallRecord,
         call' = [call EXCEPT ![c] = k], CallSound(k),
         UNCHANGED <<store, runs>>
  PROVE  /\ CallsSound' /\ StoreSound'
         /\ \A t \in Tasks : Earned(t)' <=> Earned(t)
<1>1. \A t \in Tasks : Earned(t)' <=> Earned(t)
  BY DEF Earned
<1>2. /\ call' \in [Calls -> CallRecord] /\ call'[c] = k
      /\ \A d \in Calls : d # c => call'[d] = call[d]
  BY OneCall
<1>3. StoreSound'
  BY DEF SessionInv, StoreSound
<1>4. ASSUME NEW d \in Calls, CallSound(call'[d]) PROVE CallSound(call[d])'
  BY <1>1, <1>4 DEF CallSound, Sound, Finishing
<1>5. \A d \in Calls : CallSound(call'[d])
  BY <1>2 DEF SessionInv, CallsSound
<1> QED
  BY <1>1, <1>3, <1>4, <1>5 DEF CallsSound

\* Only the calling process moves, so what calm demands is demanded of its call.
LEMMA CalmKept ==
  ASSUME TypeOK, SessionInv, NEW c \in Calls, NEW k \in CallRecord,
         call' = [call EXCEPT ![c] = k], calm' = (calm /\ Alone(c)),
         calm /\ Alone(c) => IF k.pc = "idle" THEN ~torn' /\ Synced(mirror)'
                             ELSE InStep(c, call[c])'
  PROVE  CallsInStep' /\ calm' \in BOOLEAN
<1>1. /\ call' \in [Calls -> CallRecord] /\ call'[c] = k
      /\ \A d \in Calls : d # c => call'[d] = call[d]
  BY OneCall
<1>2. calm' \in BOOLEAN
  BY DEF TypeOK
<1>3. CallsInStep'
  <2> SUFFICES ASSUME calm, Alone(c)
               PROVE  /\ Quiet' => ~torn' /\ Synced(mirror)'
                      /\ \A d \in Calls : ~At(d, "idle")' => Alone(d)' /\ InStep(d, call[d])'
    BY DEF CallsInStep
  <2>1. \A d \in Calls : d # c => At(d, "idle")'
    BY <1>1 DEF Alone, At
  <2>2. At(c, "idle")' <=> k.pc = "idle"
    BY <1>1 DEF At
  <2>3. Quiet' => ~torn' /\ Synced(mirror)'
    BY <2>2 DEF Quiet
  <2>4. ASSUME NEW d \in Calls, ~At(d, "idle")' PROVE Alone(d)' /\ InStep(d, call[d])'
    <3>1. d = c
      BY <2>1, <2>4
    <3>2. Alone(c)'
      BY <2>1 DEF Alone
    <3> QED
      BY <2>2, <2>4, <3>1, <3>2
  <2> QED
    BY <2>3, <2>4
<1> QED
  BY <1>2, <1>3

\* What calm gives to the call that takes the next step.
LEMMA CalmGives ==
  ASSUME SessionInv, NEW c \in Calls, calm, Alone(c)
  PROVE  /\ At(c, "idle") => ~torn /\ Synced(mirror)
         /\ ~At(c, "idle") => InStep(c, call[c])
  BY DEF SessionInv, CallsInStep, Quiet, Alone

\* A step that changes its call only.
LEMMA LocalStep ==
  ASSUME TypeOK, SessionInv, NEW c \in Calls, NEW k \in CallRecord,
         call' = [call EXCEPT ![c] = k], CallSound(k),
         UNCHANGED <<runFiles, mirrorFile, held>>, calm' = (calm /\ Alone(c)),
         calm /\ Alone(c) => IF k.pc = "idle" THEN ~torn /\ Synced(mirror)
                             ELSE InStep(c, k)
  PROVE  TypeOK' /\ SessionInv'
<1>1. /\ call' \in [Calls -> CallRecord] /\ call'[c] = k
  BY OneCall
<1>2. UNCHANGED <<store, running, active, runs, issued, mirror, torn, overlaid, held>>
  BY DEF runFiles, mirrorFile
<1>3. CallsSound' /\ StoreSound' /\ \A t \in Tasks : Earned(t)' <=> Earned(t)
  BY <1>2, StoreStays
<1>4. Sound(mirror)' /\ FinishedIsEarned'
  BY <1>2, <1>3 DEF SessionInv, Sound, FinishedIsEarned
<1>5. RunsStarted' /\ HeldIssued'
  BY <1>2 DEF SessionInv, RunsStarted, HeldIssued
<1>6. Synced(mirror) => Synced(mirror)'
  BY <1>2 DEF Synced
<1>7. InStep(c, k) => InStep(c, call[c])'
  BY <1>1, <1>2 DEF InStep, StepwiseSynced, Synced, OnActive
<1>8. CallsInStep' /\ calm' \in BOOLEAN
  BY <1>2, <1>6, <1>7, CalmKept
<1>9. TypeOK'
  BY <1>1, <1>2, <1>8 DEF TypeOK
<1> QED
  BY <1>3, <1>4, <1>5, <1>8, <1>9 DEF SessionInv

\* The end of a call, at a point where mirror and store agree if all is calm.
LEMMA ReturnKeeps ==
  ASSUME TypeOK, SessionInv, NEW c \in Calls, Return(c),
         UNCHANGED <<runFiles, mirrorFile, held>>, calm' = (calm /\ Alone(c)),
         calm /\ Alone(c) => ~torn /\ Synced(mirror)
  PROVE  TypeOK' /\ SessionInv'
  BY AtRestSound, LocalStep DEF Return

-----------------------------------------------------------------------------
(* Calls begin. *)

\* run and next_task begin with what the mirror shows.
LEMMA BeginQueueKeeps ==
  ASSUME TypeOK, SessionInv, NEW c \in Calls, NEW tool \in {"run", "next"}, At(c, "idle"),
         call' = [call EXCEPT ![c] = [AtRest EXCEPT !.tool = tool, !.pc = "join",
                                                    !.queue = Load]],
         UNCHANGED <<runFiles, mirrorFile, held>>, calm' = (calm /\ Alone(c))
  PROVE  TypeOK' /\ SessionInv'
<1> DEFINE k == [AtRest EXCEPT !.tool = tool, !.pc = "join", !.queue = Load]
<1>1. Load \in [Tasks -> TaskRecord] /\ Sound(Load) /\ (~torn => Load = mirror)
  BY LoadSound DEF SessionInv
<1>2. /\ k.tool = tool /\ k.pc = "join" /\ k.queue = Load /\ k.due = {}
      /\ k \in CallRecord
  BY <1>1, AtRestSound DEF AtRest, CallRecord, Tools
<1> HIDE DEF k
<1>3. CallSound(k)
  BY <1>1, <1>2 DEF CallSound, Finishing
<1>4. calm /\ Alone(c) => InStep(c, k)
  BY <1>1, <1>2, CalmGives DEF InStep, StepwiseSynced
<1>5. call' = [call EXCEPT ![c] = k]
  BY DEF k
<1> QED
  BY <1>2, <1>3, <1>4, <1>5, LocalStep

\* finish_task begins with a claim that an agent holds and with what the mirror shows.
LEMMA BeginFinishKeeps ==
  ASSUME TypeOK, SessionInv, NEW c \in Calls, BeginFinish(c), calm' = (calm /\ Alone(c))
  PROVE  TypeOK' /\ SessionInv'
<1>1. PICK h \in held :
          call' = [call EXCEPT ![c] = [AtRest EXCEPT !.tool = "finish", !.pc = "find",
                                       !.task = h[1], !.token = h[2], !.queue = Load]]
  BY DEF BeginFinish
<1> DEFINE k == [AtRest EXCEPT !.tool = "finish", !.pc = "find", !.task = h[1],
                               !.token = h[2], !.queue = Load]
<1>2. Load \in [Tasks -> TaskRecord] /\ Sound(Load) /\ (~torn => Load = mirror)
  BY LoadSound DEF SessionInv
<1>3. h[1] \in Tasks /\ h[1] \in Nat /\ h[2] \in Nat /\ h[2] # NoToken
  BY DEF TypeOK, SessionInv, HeldIssued, Tasks
<1>4. /\ k.tool = "finish" /\ k.pc = "find" /\ k.queue = Load /\ k.due = {}
      /\ k.task = h[1] /\ k.token = h[2]
      /\ k \in CallRecord
  BY <1>2, <1>3, AtRestSound DEF AtRest, CallRecord, Tools
<1> HIDE DEF k
<1>5. CallSound(k)
  BY <1>2, <1>3, <1>4 DEF CallSound, Finishing
<1>6. calm /\ Alone(c) => InStep(c, k)
  BY <1>2, <1>4, CalmGives DEF BeginFinish, InStep, StepwiseSynced
<1>7. call' = [call EXCEPT ![c] = k]
  BY <1>1 DEF k
<1> QED
  BY <1>4, <1>5, <1>6, <1>7, LocalStep DEF BeginFinish

\* The run to recover was started, and is the active one if that is running.
LEMMA RecoveredRun ==
  ASSUME TypeOK, RunsStarted
  PROVE  /\ RunToRecover \in Runs \cup {NoRun}
         /\ RunToRecover # NoRun => RunToRecover \in 1 .. runs
         /\ active \in running => RunToRecover = active /\ active # NoRun
  BY NoRunNotRunning DEF TypeOK, RunsStarted, RunToRecover, NoRun, Runs

\* recover begins with nothing requeued.
LEMMA BeginRecoverKeeps ==
  ASSUME TypeOK, SessionInv, NEW c \in Calls, BeginRecover(c), calm' = (calm /\ Alone(c))
  PROVE  TypeOK' /\ SessionInv'
<1> DEFINE k == [AtRest EXCEPT !.tool = "recover", !.pc = "scan", !.task = 1,
                               !.run = RunToRecover]
<1>1. /\ RunToRecover \in Runs \cup {NoRun} /\ RunToRecover \in 1 .. runs
      /\ active \in running => RunToRecover = active
  BY RecoveredRun DEF SessionInv, BeginRecover
<1>2. /\ k.tool = "recover" /\ k.pc = "scan" /\ k.queue = Markers /\ k.due = {}
      /\ k.task = 1 /\ k.run = RunToRecover
      /\ k \in CallRecord
  BY <1>1, AtRestSound DEF AtRest, CallRecord, Tools
<1> HIDE DEF k
<1>3. CallSound(k)
  BY <1>1, <1>2, MarkersSound DEF CallSound, Finishing
<1>4. calm /\ Alone(c) => InStep(c, k)
  <2>1. Requeued(mirror, {}) = mirror
    BY RequeuedNone DEF TypeOK
  <2> QED
    BY <1>1, <1>2, <2>1, CalmGives DEF BeginRecover, InStep, StepwiseSynced
<1>5. call' = [call EXCEPT ![c] = k]
  BY DEF BeginRecover, k
<1> QED
  BY <1>2, <1>3, <1>4, <1>5, LocalStep DEF BeginRecover

\* Without a run to recover there is no active run that the mirror could differ from.
LEMMA BeginLegacyRecoverKeeps ==
  ASSUME TypeOK, SessionInv, NEW c \in Calls, BeginLegacyRecover(c),
         calm' = (calm /\ Alone(c))
  PROVE  TypeOK' /\ SessionInv'
<1>1. PICK stale \in SUBSET InProgress(Load) \ {{}} :
          call' = [call EXCEPT ![c] = [AtRest EXCEPT !.tool = "recover", !.pc = "requeue",
                                                     !.queue = Load, !.due = stale]]
  BY DEF BeginLegacyRecover
<1> DEFINE k == [AtRest EXCEPT !.tool = "recover", !.pc = "requeue", !.queue = Load,
                               !.due = stale]
<1>2. Load \in [Tasks -> TaskRecord] /\ Sound(Load) /\ (~torn => Load = mirror)
  BY LoadSound DEF SessionInv
<1>3. stale \in SUBSET Tasks
  BY DEF InProgress
<1>4. /\ k.tool = "recover" /\ k.pc = "requeue" /\ k.queue = Load /\ k.due = stale
      /\ k \in CallRecord
  BY <1>2, <1>3, AtRestSound DEF AtRest, CallRecord, Tools
<1> HIDE DEF k
<1>5. CallSound(k)
  BY <1>2, <1>4 DEF CallSound, Finishing
<1>6. active \notin running
  BY RecoveredRun DEF SessionInv, BeginLegacyRecover
<1>7. calm /\ Alone(c) => InStep(c, k)
  BY <1>2, <1>4, <1>6, CalmGives DEF BeginLegacyRecover, InStep, StepwiseSynced, Synced
<1>8. call' = [call EXCEPT ![c] = k]
  BY <1>1 DEF k
<1> QED
  BY <1>4, <1>5, <1>7, <1>8, LocalStep DEF BeginLegacyRecover

-----------------------------------------------------------------------------
(* Steps that change the call only. *)

\* The call that joins the active run is done with it, or claims in it.
LEMMA JoinRunKeeps ==
  ASSUME TypeOK, SessionInv, NEW c \in Calls, JoinRun(c), calm' = (calm /\ Alone(c))
  PROVE  TypeOK' /\ SessionInv'
<1>1. /\ call[c] \in CallRecord /\ CallSound(call[c])
      /\ call[c].pc = "join" /\ call[c].tool \in {"run", "next"}
  BY DEF TypeOK, SessionInv, CallsSound, JoinRun, At, CallSound
<1>2. calm /\ Alone(c) => ~torn /\ Synced(mirror) /\ call[c].queue = mirror
  BY <1>1, CalmGives DEF At, InStep, StepwiseSynced
<1>3. active \in 1 .. runs /\ active \in Runs
  BY NoRunNotRunning DEF SessionInv, RunsStarted, JoinRun
<1>4. CASE call[c].tool = "run"
  BY <1>2, <1>4, ReturnKeeps DEF JoinRun, Joined, Return
<1>5. CASE call[c].tool = "next"
  <2> DEFINE k == [call[c] EXCEPT !.pc = "claim", !.run = active, !.task = 1]
  <2>1. /\ k.tool = "next" /\ k.pc = "claim" /\ k.queue = call[c].queue
        /\ k.due = call[c].due /\ k.run = active
        /\ k \in CallRecord
    BY <1>1, <1>3, <1>5 DEF CallRecord
  <2> HIDE DEF k
  <2>2. CallSound(k)
    BY <1>1, <1>3, <2>1 DEF CallSound, Finishing
  <2>3. calm /\ Alone(c) => InStep(c, k)
    BY <1>2, <2>1 DEF JoinRun, InStep, StepwiseSynced, Synced, OnActive
  <2>4. call' = [call EXCEPT ![c] = k]
    BY <1>5 DEF JoinRun, Joined, k
  <2> QED
    BY <2>1, <2>2, <2>3, <2>4, LocalStep DEF JoinRun
<1> QED
  BY <1>1, <1>4, <1>5

\* A candidate that cannot be claimed is passed over.
LEMMA SkipCandidateKeeps ==
  ASSUME TypeOK, SessionInv, NEW c \in Calls, NEW t \in Tasks, SkipCandidate(c, t),
         calm' = (calm /\ Alone(c))
  PROVE  TypeOK' /\ SessionInv'
<1>1. call[c] \in CallRecord /\ CallSound(call[c]) /\ call[c].pc = "claim"
      /\ call[c].tool = "next"
  BY DEF TypeOK, SessionInv, CallsSound, SkipCandidate, At, CallSound
<1> DEFINE k == [call[c] EXCEPT !.task = t + 1]
<1>2. /\ k.tool = "next" /\ k.pc = "claim" /\ k.queue = call[c].queue
      /\ k.due = call[c].due /\ k.run = call[c].run
      /\ k \in CallRecord
  BY <1>1 DEF CallRecord, Tasks
<1>3. call' = [call EXCEPT ![c] = k]
  BY DEF SkipCandidate
<1> HIDE DEF k
<1>4. CallSound(k)
  BY <1>1, <1>2 DEF CallSound, Finishing
<1>5. calm /\ Alone(c) => InStep(c, k)
  BY <1>1, <1>2, CalmGives DEF At, InStep, StepwiseSynced, OnActive
<1> QED
  BY <1>2, <1>3, <1>4, <1>5, LocalStep DEF SkipCandidate

\* A call without a candidate, without a run or with a claim that is not valid any more
\* ends where mirror and store agree.  A refusal of the mirror is not met in calm.
LEMMA RefusalKeeps ==
  ASSUME TypeOK, SessionInv, NEW c \in Calls,
         NoCandidate(c) \/ NoActiveRun(c) \/ StaleClaim(c) \/ EndRefused(c)
           \/ MarkRefused(c),
         calm' = (calm /\ Alone(c))
  PROVE  TypeOK' /\ SessionInv'
<1>1. /\ Return(c) /\ UNCHANGED <<runFiles, mirrorFile, held>>
      /\ \/ call[c].pc \in {"claim", "find", "beat", "end"}
         \/ call[c].pc = "unmark" /\ ~HoldsToken(call[c].queue[call[c].task], call[c].token)
  BY DEF NoCandidate, NoActiveRun, StaleClaim, EndRefused, MarkRefused, At
<1>2. calm /\ Alone(c) => ~torn /\ Synced(mirror)
  BY <1>1, CalmGives DEF At, InStep, StepwiseSynced, Synced
<1> QED
  BY <1>1, <1>2, ReturnKeeps

\* A finish_task goes on with the run that is active.
LEMMA FindRunKeeps ==
  ASSUME TypeOK, SessionInv, NEW c \in Calls, FindRun(c), calm' = (calm /\ Alone(c))
  PROVE  TypeOK' /\ SessionInv'
<1>1. call[c] \in CallRecord /\ CallSound(call[c]) /\ call[c].pc = "find"
      /\ call[c].tool = "finish"
  BY DEF TypeOK, SessionInv, CallsSound, FindRun, At, CallSound, Finishing
<1>2. active \in 1 .. runs /\ active \in Runs /\ active \in running
  BY NoRunNotRunning DEF SessionInv, RunsStarted, FindRun
<1> DEFINE k == [call[c] EXCEPT !.pc = "beat", !.run = active]
<1>3. /\ k.tool = "finish" /\ k.pc = "beat" /\ k.queue = call[c].queue
      /\ k.due = call[c].due /\ k.run = active /\ k.task = call[c].task
      /\ k.token = call[c].token /\ k.status = call[c].status
      /\ k \in CallRecord
  BY <1>1, <1>2 DEF CallRecord
<1>4. call' = [call EXCEPT ![c] = k]
  BY DEF FindRun
<1> HIDE DEF k
<1>5. CallSound(k)
  BY <1>1, <1>2, <1>3 DEF CallSound, Finishing
<1>6. calm /\ Alone(c) => InStep(c, k)
  BY <1>1, <1>2, <1>3, CalmGives DEF At, InStep, StepwiseSynced, Synced, OnActive
<1> QED
  BY <1>3, <1>4, <1>5, <1>6, LocalStep DEF FindRun

\* The heartbeat and the validators change nothing that mirror and store show.
LEMMA ValidateKeeps ==
  ASSUME TypeOK, SessionInv, NEW c \in Calls, Heartbeat(c) \/ Validate(c),
         calm' = (calm /\ Alone(c))
  PROVE  TypeOK' /\ SessionInv'
<1>1. /\ call[c] \in CallRecord /\ CallSound(call[c])
      /\ call[c].pc \in {"beat", "validate"} /\ call[c].tool = "finish"
      /\ UNCHANGED <<runFiles, mirrorFile, held>>
  BY DEF TypeOK, SessionInv, CallsSound, Heartbeat, Validate, At, CallSound, Finishing
<1>2. PICK status \in {"todo", "done"}, pc \in {"validate", "end"} :
          call' = [call EXCEPT ![c] = [call[c] EXCEPT !.pc = pc, !.status = status]]
  <2>1. CASE Heartbeat(c)
    <3>1. call[c].status \in {"todo", "done"}
      BY <1>1 DEF CallRecord
    <3>2. [call[c] EXCEPT !.pc = "validate"]
              = [call[c] EXCEPT !.pc = "validate", !.status = call[c].status]
      BY <1>1 DEF CallRecord
    <3>3. call' = [call EXCEPT ![c] = [call[c] EXCEPT !.pc = "validate"]]
      BY <2>1 DEF Heartbeat, Step
    <3> QED
      BY <3>1, <3>2, <3>3
  <2>2. CASE Validate(c)
    BY <2>2 DEF Validate
  <2> QED
    BY <2>1, <2>2
<1> DEFINE k == [call[c] EXCEPT !.pc = pc, !.status = status]
<1>3. /\ k.tool = "finish" /\ k.pc = pc /\ k.queue = call[c].queue
      /\ k.due = call[c].due /\ k.run = call[c].run /\ k.task = call[c].task
      /\ k.token = call[c].token
      /\ k \in CallRecord
  BY <1>1 DEF CallRecord
<1>4. call' = [call EXCEPT ![c] = k]
  BY <1>2
<1> HIDE DEF k
<1>5. CallSound(k)
  BY <1>1, <1>3 DEF CallSound, Finishing
<1>6. calm /\ Alone(c) => InStep(c, k)
  BY <1>1, <1>3, CalmGives DEF At, InStep, StepwiseSynced, OnActive
<1> QED
  BY <1>1, <1>3, <1>4, <1>5, <1>6, LocalStep

\* A task of the scan that is left as it is.
LEMMA PassTaskKeeps ==
  ASSUME TypeOK, SessionInv, NEW c \in Calls, PassTask(c), calm' = (calm /\ Alone(c))
  PROVE  TypeOK' /\ SessionInv'
<1>1. /\ call[c] \in CallRecord /\ CallSound(call[c]) /\ call[c].pc = "scan"
      /\ call[c].tool = "recover" /\ call[c].task \in Nat /\ call[c].due \subseteq Tasks
  BY DEF TypeOK, SessionInv, CallsSound, PassTask, At, CallSound, CallRecord
<1> DEFINE k == [call[c] EXCEPT !.task = call[c].task + 1]
<1>2. /\ k.tool = "recover" /\ k.pc = "scan" /\ k.queue = call[c].queue
      /\ k.due = call[c].due /\ k.run = call[c].run /\ k.task = call[c].task + 1
      /\ k \in CallRecord
  BY <1>1 DEF CallRecord
<1>3. call' = [call EXCEPT ![c] = k]
  BY DEF PassTask
<1> HIDE DEF k
<1>4. CallSound(k)
  BY <1>1, <1>2 DEF CallSound, Finishing
<1>5. calm /\ Alone(c) => InStep(c, k)
  <2> SUFFICES ASSUME calm, Alone(c) PROVE InStep(c, k)
    OBVIOUS
  <2>1. InStep(c, call[c])
    BY <1>1, CalmGives DEF At
  <2>2. \A t \in k.due : t < k.task
    BY <1>1, <1>2, <2>1 DEF InStep, StepwiseSynced, Tasks
  <2> QED
    BY <1>1, <1>2, <2>1, <2>2 DEF InStep, StepwiseSynced
<1> QED
  BY <1>2, <1>3, <1>4, <1>5, LocalStep DEF PassTask

\* After the scan recovery reads the mirror, which still lacks what it has requeued.
LEMMA ScanDoneKeeps ==
  ASSUME TypeOK, SessionInv, NEW c \in Calls, ScanDone(c), calm' = (calm /\ Alone(c))
  PROVE  TypeOK' /\ SessionInv'
<1>1. /\ call[c] \in CallRecord /\ CallSound(call[c]) /\ call[c].pc = "scan"
      /\ call[c].tool = "recover"
  BY DEF TypeOK, SessionInv, CallsSound, ScanDone, At, CallSound
<1>2. Load \in [Tasks -> TaskRecord] /\ Sound(Load) /\ (~torn => Load = mirror)
  BY LoadSound DEF SessionInv
<1> DEFINE k == [call[c] EXCEPT !.pc = "requeue", !.queue = Load]
<1>3. /\ k.tool = "recover" /\ k.pc = "requeue" /\ k.queue = Load
      /\ k.due = call[c].due /\ k.run = call[c].run
      /\ k \in CallRecord
  BY <1>1, <1>2 DEF CallRecord
<1>4. call' = [call EXCEPT ![c] = k]
  BY DEF ScanDone
<1> HIDE DEF k
<1>5. CallSound(k)
  BY <1>1, <1>2, <1>3 DEF CallSound, Finishing
<1>6. calm /\ Alone(c) => InStep(c, k)
  BY <1>1, <1>2, <1>3, CalmGives DEF At, InStep, StepwiseSynced
<1> QED
  BY <1>3, <1>4, <1>5, <1>6, LocalStep DEF ScanDone

\* With nothing due any more mirror and store agree.
LEMMA RecoverDoneKeeps ==
  ASSUME TypeOK, SessionInv, NEW c \in Calls, RecoverDone(c), calm' = (calm /\ Alone(c))
  PROVE  TypeOK' /\ SessionInv'
<1>1. calm /\ Alone(c) => ~torn /\ Synced(mirror)
  <2> SUFFICES ASSUME calm, Alone(c) PROVE ~torn /\ Synced(mirror)
    OBVIOUS
  <2>1. InStep(c, call[c])
    BY CalmGives DEF RecoverDone, At
  <2>2. Requeued(mirror, {}) = mirror
    BY RequeuedNone DEF TypeOK
  <2> QED
    BY <2>1, <2>2 DEF RecoverDone, At, InStep, StepwiseSynced
<1> QED
  BY <1>1, ReturnKeeps DEF RecoverDone

-----------------------------------------------------------------------------
(* Steps that write the mirror. *)

\* A call that opens the mirror for writing has to show what store and mirror, together
\* with what is due, agree on.
LEMMA TruncateKeeps ==
  ASSUME TypeOK, SessionInv, NEW c \in Calls, NEW k \in CallRecord,
         call' = [call EXCEPT ![c] = k], CallSound(k), k.pc = "flush",
         torn' = TRUE, overlaid' = {}, UNCHANGED <<runFiles, mirror, held>>,
         calm' = (calm /\ Alone(c)),
         calm /\ Alone(c) => StepwiseSynced(k)
  PROVE  TypeOK' /\ SessionInv'
<1>1. call' \in [Calls -> CallRecord] /\ call'[c] = k
  BY OneCall
<1>2. UNCHANGED <<store, running, active, runs, issued, mirror, held>>
  BY DEF runFiles
<1>3. CallsSound' /\ StoreSound' /\ \A t \in Tasks : Earned(t)' <=> Earned(t)
  BY <1>2, StoreStays
<1>4. Sound(mirror)' /\ FinishedIsEarned'
  BY <1>2, <1>3 DEF SessionInv, Sound, FinishedIsEarned
<1>5. RunsStarted' /\ HeldIssued'
  BY <1>2 DEF SessionInv, RunsStarted, HeldIssued
<1>6. StepwiseSynced(k) => StepwiseSynced(call[c])'
  BY <1>1, <1>2 DEF StepwiseSynced, Synced, OnActive
<1>7. CallsInStep' /\ calm' \in BOOLEAN
  BY <1>1, <1>6, CalmKept DEF InStep
<1>8. TypeOK'
  BY <1>1, <1>2, <1>7 DEF TypeOK
<1> QED
  BY <1>3, <1>4, <1>5, <1>7, <1>8 DEF SessionInv

\* The snapshot that a call writes is sound if its new record is.
LEMMA SnapshotSound ==
  ASSUME NEW q \in [Tasks -> TaskRecord], Sound(q), NEW t \in Tasks, NEW f \in TaskRecord,
         f.status = "done" => Earned(t),
         f.claim_token # NoToken => f.status = "in_progress"
  PROVE  [q EXCEPT ![t] = f] \in [Tasks -> TaskRecord] /\ Sound([q EXCEPT ![t] = f])
  BY DEF Sound

\* The mirror is about to show the claim that the store has.
LEMMA MarkInProgressKeeps ==
  ASSUME TypeOK, SessionInv, NEW c \in Calls, MarkInProgress(c), calm' = (calm /\ Alone(c))
  PROVE  TypeOK' /\ SessionInv'
<1>1. /\ call[c] \in CallRecord /\ CallSound(call[c]) /\ call[c].pc = "mark"
      /\ call[c].tool = "next" /\ call[c].task \in Tasks /\ call[c].token \in Nat
      /\ call[c].queue \in [Tasks -> TaskRecord] /\ Sound(call[c].queue)
      /\ call[c].due = {}
  BY DEF TypeOK, SessionInv, CallsSound, MarkInProgress, At, CallSound, CallRecord
<1> DEFINE t == call[c].task
           f == Claimed(call[c].queue[t], Agent, call[c].token, 0)
           q == [call[c].queue EXCEPT ![t] = f]
           k == [call[c] EXCEPT !.pc = "flush", !.task = t, !.queue = q]
<1>2. f \in TaskRecord /\ f.status = "in_progress"
  BY <1>1, ClaimedRecord
<1>3. q \in [Tasks -> TaskRecord] /\ Sound(q)
  BY <1>1, <1>2, SnapshotSound
<1>4. /\ k.tool = "next" /\ k.pc = "flush" /\ k.queue = q /\ k.due = {}
      /\ k.run = call[c].run /\ k.task = call[c].task /\ k.token = call[c].token
      /\ k \in CallRecord
  BY <1>1, <1>3 DEF CallRecord
<1>5. call' = [call EXCEPT ![c] = k]
  BY DEF MarkInProgress, Truncate
<1>6. calm /\ Alone(c) => Synced(q)
  <2> SUFFICES ASSUME calm, Alone(c) PROVE Synced(q)
    OBVIOUS
  <2>1. InStep(c, call[c])
    BY <1>1, CalmGives DEF At
  <2> QED
    BY <1>1, <2>1 DEF InStep, StepwiseSynced, Synced
<1>7. Requeued(q, {}) = q
  BY <1>3, RequeuedNone
<1> HIDE DEF q, k
<1>8. CallSound(k)
  BY <1>1, <1>3, <1>4 DEF CallSound, Finishing
<1>9. calm /\ Alone(c) => StepwiseSynced(k)
  BY <1>4, <1>6, <1>7 DEF StepwiseSynced
<1> QED
  BY <1>4, <1>5, <1>8, <1>9, TruncateKeeps DEF MarkInProgress, Truncate

\* The mirror is about to show the claim as ended, as the store does.
LEMMA MarkEndedKeeps ==
  ASSUME TypeOK, SessionInv, NEW c \in Calls, MarkEnded(c), calm' = (calm /\ Alone(c))
  PROVE  TypeOK' /\ SessionInv'
<1>1. /\ call[c] \in CallRecord /\ CallSound(call[c]) /\ call[c].pc = "unmark"
      /\ call[c].tool = "finish" /\ call[c].task \in Tasks
      /\ call[c].status \in {"todo", "done"}
      /\ call[c].queue \in [Tasks -> TaskRecord] /\ Sound(call[c].queue)
      /\ call[c].due = {}
      /\ call[c].status = "done" => Earned(call[c].task)
  BY DEF TypeOK, SessionInv, CallsSound, MarkEnded, At, CallSound, CallRecord, Finishing
<1> DEFINE t == call[c].task
           f == Released(call[c].queue[t], call[c].status)
           q == [call[c].queue EXCEPT ![t] = f]
           k == [call[c] EXCEPT !.pc = "flush", !.task = t, !.queue = q]
<1>2. f \in TaskRecord /\ f.status = call[c].status /\ f.claim_token = NoToken
  BY <1>1, ReleasedRecord
<1>3. q \in [Tasks -> TaskRecord] /\ Sound(q)
  BY <1>1, <1>2, SnapshotSound
<1>4. /\ k.tool = "finish" /\ k.pc = "flush" /\ k.queue = q /\ k.due = {}
      /\ k.run = call[c].run /\ k.task = call[c].task /\ k.token = call[c].token
      /\ k \in CallRecord
  BY <1>1, <1>3 DEF CallRecord
<1>5. call' = [call EXCEPT ![c] = k]
  BY DEF MarkEnded, Truncate
<1>6. calm /\ Alone(c) => Synced(q) /\ OnActive(call[c])
  <2> SUFFICES ASSUME calm, Alone(c) PROVE Synced(q) /\ OnActive(call[c])
    OBVIOUS
  <2>1. InStep(c, call[c])
    BY <1>1, CalmGives DEF At
  <2> QED
    BY <1>1, <2>1 DEF InStep, StepwiseSynced, Synced
<1>7. Requeued(q, {}) = q
  BY <1>3, RequeuedNone
<1> HIDE DEF q, k
<1>8. CallSound(k)
  BY <1>1, <1>3, <1>4 DEF CallSound, Finishing
<1>9. calm /\ Alone(c) => StepwiseSynced(k)
  BY <1>4, <1>6, <1>7 DEF StepwiseSynced, OnActive
<1> QED
  BY <1>4, <1>5, <1>8, <1>9, TruncateKeeps DEF MarkEnded, Truncate

\* The mirror is about to show a task as requeued that was due.
LEMMA RequeueMirrorKeeps ==
  ASSUME TypeOK, SessionInv, NEW c \in Calls, NEW t \in Tasks, RequeueMirror(c, t),
         calm' = (calm /\ Alone(c))
  PROVE  TypeOK' /\ SessionInv'
<1>1. /\ call[c] \in CallRecord /\ CallSound(call[c]) /\ call[c].pc = "requeue"
      /\ call[c].tool = "recover" /\ t \in call[c].due /\ call[c].due \subseteq Tasks
      /\ call[c].queue \in [Tasks -> TaskRecord] /\ Sound(call[c].queue)
  BY DEF TypeOK, SessionInv, CallsSound, RequeueMirror, IsFirst, At, CallSound, CallRecord
<1> DEFINE f == Released(call[c].queue[t], "todo")
           q == [call[c].queue EXCEPT ![t] = f]
           due == call[c].due \ {t}
           k == [call[c] EXCEPT !.pc = "flush", !.due = due, !.queue = q]
<1>2. f \in TaskRecord /\ f.status = "todo" /\ f.claim_token = NoToken
  BY <1>1, ReleasedRecord
<1>3. q \in [Tasks -> TaskRecord] /\ Sound(q)
  BY <1>1, <1>2, SnapshotSound
<1>4. /\ k.tool = "recover" /\ k.pc = "flush" /\ k.queue = q /\ k.due = due
      /\ k.run = call[c].run /\ k.task = call[c].task /\ k.token = call[c].token
      /\ k \in CallRecord
  BY <1>1, <1>3 DEF CallRecord
<1>5. call' = [call EXCEPT ![c] = k]
  BY DEF RequeueMirror
<1>6. Requeued(q, due) = Requeued(call[c].queue, call[c].due)
  <2>1. \A u \in Tasks : (IF u \in due THEN Released(q[u], "todo") ELSE q[u])
                = (IF u \in call[c].due THEN Released(call[c].queue[u], "todo")
                   ELSE call[c].queue[u])
    BY <1>1
  <2> QED
    BY <2>1 DEF Requeued
<1> HIDE DEF q, k, due
<1>7. CallSound(k)
  BY <1>1, <1>3, <1>4 DEF CallSound, Finishing
<1>8. calm /\ Alone(c) => StepwiseSynced(k)
  <2> SUFFICES ASSUME calm, Alone(c) PROVE StepwiseSynced(k)
    OBVIOUS
  <2>1. InStep(c, call[c])
    BY <1>1, CalmGives DEF At
  <2> QED
    BY <1>1, <1>4, <1>6, <2>1 DEF InStep, StepwiseSynced
<1> QED
  BY <1>4, <1>5, <1>7, <1>8, TruncateKeeps DEF RequeueMirror

\* A written mirror shows what the snapshot showed; what a finish_task or a next_task has
\* written is what the store shows.
LEMMA FlushKeeps ==
  ASSUME TypeOK, SessionInv, NEW c \in Calls, Flush(c), calm' = (calm /\ Alone(c))
  PROVE  TypeOK' /\ SessionInv'
<1>1. /\ call[c] \in CallRecord /\ CallSound(call[c]) /\ call[c].pc = "flush"
      /\ call[c].tool \in {"next", "finish", "recover"}
      /\ call[c].queue \in [Tasks -> TaskRecord] /\ Sound(call[c].queue)
      /\ call[c].tool # "recover" => call[c].due = {}
  BY DEF TypeOK, SessionInv, CallsSound, Flush, At, CallSound, CallRecord
<1>2. /\ UNCHANGED <<store, running, active, runs, issued>>
      /\ mirror' = call[c].queue /\ call' = [call EXCEPT ![c] = Flushed(c)]
      /\ torn' \in IF c \in overlaid THEN BOOLEAN ELSE {FALSE}
      /\ overlaid' = {d \in Calls \ {c} : At(d, "flush")}
      /\ held' = IF call[c].tool = "next"
                 THEN held \cup {<<call[c].task, call[c].token>>} ELSE held
  BY DEF Flush, runFiles
<1>3. \/ Flushed(c) = AtRest /\ call[c].tool \in {"next", "finish"}
      \/ Flushed(c) = [call[c] EXCEPT !.pc = "requeue"] /\ call[c].tool = "recover"
      \/ Flushed(c) = [call[c] EXCEPT !.pc = "close"] /\ call[c].tool = "finish"
  <2>1. CASE call[c].tool = "recover"
    BY <2>1 DEF Flushed
  <2>2. CASE call[c].tool = "finish" /\ call[c].status = "done"
    BY <2>2 DEF Flushed
  <2>3. CASE call[c].tool # "recover" /\ ~(call[c].tool = "finish" /\ call[c].status = "done")
    BY <1>1, <2>3, Zenon DEF Flushed
  <2> QED
    BY <2>1, <2>2, <2>3
<1> DEFINE k == Flushed(c)
<1>4. k \in CallRecord
  <2>1. [call[c] EXCEPT !.pc = "requeue"] \in CallRecord
    BY <1>1 DEF CallRecord
  <2>2. [call[c] EXCEPT !.pc = "close"] \in CallRecord
    BY <1>1 DEF CallRecord
  <2> QED
    BY <1>3, <2>1, <2>2, AtRestSound
<1>5. \/ k = AtRest /\ k.pc = "idle" /\ call[c].tool \in {"next", "finish"}
      \/ /\ k.pc = "requeue" /\ k.tool = "recover" /\ k.queue = call[c].queue
         /\ k.due = call[c].due /\ call[c].tool = "recover"
      \/ /\ k.pc = "close" /\ k.tool = "finish" /\ k.queue = call[c].queue
         /\ k.due = call[c].due /\ k.task = call[c].task /\ k.token = call[c].token
         /\ k.run = call[c].run /\ call[c].tool = "finish"
  BY <1>1, <1>3, AtRestSound DEF CallRecord
<1> HIDE DEF k
<1>6. CallSound(k)
  BY <1>1, <1>5, AtRestSound DEF CallSound, Finishing
<1>7. call' = [call EXCEPT ![c] = k] /\ UNCHANGED <<store, runs>>
  BY <1>2 DEF k
<1>8. call' \in [Calls -> CallRecord] /\ call'[c] = k
  BY <1>4, <1>7, OneCall
<1>9. CallsSound' /\ StoreSound' /\ \A t \in Tasks : Earned(t)' <=> Earned(t)
  BY <1>4, <1>6, <1>7, StoreStays
<1>10. Sound(mirror)' /\ FinishedIsEarned' /\ RunsStarted'
  BY <1>1, <1>2, <1>9 DEF SessionInv, Sound, FinishedIsEarned, RunsStarted
<1>11. HeldIssued' /\ held' \subseteq Tasks \X Nat
  <2>1. call[c].tool = "next" => /\ call[c].task \in Tasks /\ call[c].token # NoToken
                                 /\ call[c].token \in Nat
    BY <1>1 DEF CallSound, CallRecord
  <2>2. HeldIssued /\ held \subseteq Tasks \X Nat
    BY DEF SessionInv, TypeOK
  <2> QED
    BY <1>2, <2>1, <2>2 DEF HeldIssued
<1>12. calm /\ Alone(c) => IF k.pc = "idle" THEN ~torn' /\ Synced(mirror)'
                           ELSE InStep(c, call[c])'
  <2> SUFFICES ASSUME calm, Alone(c)
               PROVE  IF k.pc = "idle" THEN ~torn' /\ Synced(mirror)' ELSE InStep(c, call[c])'
    OBVIOUS
  <2>1. InStep(c, call[c])
    BY <1>1, CalmGives DEF At
  <2>2. /\ Synced(Requeued(call[c].queue, call[c].due)) /\ ~torn'
        /\ call[c].tool = "finish" => OnActive(call[c])
    BY <1>1, <1>2, <2>1 DEF InStep, StepwiseSynced
  <2>3. Requeued(call[c].queue, {}) = call[c].queue
    BY <1>1, RequeuedNone
  <2>4. CASE k = AtRest /\ k.pc = "idle" /\ call[c].tool \in {"next", "finish"}
    <3>1. Synced(mirror)'
      BY <1>1, <1>2, <2>2, <2>3, <2>4 DEF Synced
    <3> QED
      BY <2>2, <2>4, <3>1
  <2>5. CASE k.pc = "requeue" /\ k.queue = call[c].queue /\ k.due = call[c].due
    <3>1. Synced(Requeued(call[c].queue, call[c].due))'
      BY <1>2, <1>8, <2>2, <2>5 DEF Synced, Requeued
    <3> QED
      BY <1>2, <1>8, <2>2, <2>5, <3>1 DEF InStep, StepwiseSynced
  <2>6. CASE k.pc = "close" /\ k.queue = call[c].queue /\ k.run = call[c].run
             /\ call[c].tool = "finish"
    <3>1. OnActive(call[c])' /\ store'[active'] = mirror'
      BY <1>1, <1>2, <1>8, <2>2, <2>3, <2>6 DEF Synced, OnActive
    <3> QED
      BY <1>2, <1>8, <2>2, <2>6, <3>1 DEF InStep, StepwiseSynced
  <2> QED
    BY <1>5, <2>4, <2>5, <2>6
<1>13. CallsInStep' /\ calm' \in BOOLEAN
  BY <1>4, <1>7, <1>12, CalmKept
<1>14. TypeOK'
  <2>1. torn' \in BOOLEAN /\ overlaid' \subseteq Calls
    BY <1>2
  <2> QED
    BY <1>1, <1>2, <1>8, <1>11, <1>13, <2>1 DEF TypeOK
<1> QED
  BY <1>9, <1>10, <1>11, <1>13, <1>14 DEF SessionInv

\* A call that is killed leaves mirror and store as they are, and no calm.
LEMMA CrashKeeps ==
  ASSUME TypeOK, SessionInv, NEW c \in Calls, Crash(c), calm' = FALSE
  PROVE  TypeOK' /\ SessionInv'
<1>1. /\ call' = [call EXCEPT ![c] = AtRest] /\ overlaid' = overlaid \ {c}
      /\ UNCHANGED <<store, running, active, runs, issued, mirror, torn, held>>
  BY DEF Crash, Return, runFiles
<1>2. call' \in [Calls -> CallRecord]
  BY <1>1, AtRestSound, OneCall
<1>3. CallsSound' /\ StoreSound' /\ \A t \in Tasks : Earned(t)' <=> Earned(t)
  BY <1>1, AtRestSound, StoreStays
<1>4. Sound(mirror)' /\ FinishedIsEarned' /\ RunsStarted' /\ HeldIssued'
  BY <1>1, <1>3 DEF SessionInv, Sound, FinishedIsEarned, RunsStarted, HeldIssued
<1>5. TypeOK' /\ CallsInStep'
  BY <1>1, <1>2 DEF TypeOK, CallsInStep
<1> QED
  BY <1>3, <1>4, <1>5 DEF SessionInv

\* A run is finished when the snapshot shows every task as done, and rightly so.
LEMMA CloseRunKeeps ==
  ASSUME TypeOK, SessionInv, NEW c \in Calls, CloseRun(c), calm' = (calm /\ Alone(c))
  PROVE  TypeOK' /\ SessionInv'
<1>1. /\ call[c].pc = "close" /\ Sound(call[c].queue)
  BY DEF SessionInv, CallsSound, CallSound, CloseRun, At
<1>2. /\ call' = [call EXCEPT ![c] = AtRest]
      /\ UNCHANGED <<store, runs, issued, mirror, torn, overlaid, held>>
      /\ running' \subseteq running /\ active' \in {active, NoRun}
      /\ running' # running => AllDone(call[c].queue)
      /\ active \in running /\ active' # NoRun => active' = active
      /\ active' \in running' => active \in running
  <2>1. NoRun \notin running
    BY NoRunNotRunning DEF SessionInv
  <2> QED
    BY <2>1 DEF CloseRun, Return, mirrorFile
<1>3. call' \in [Calls -> CallRecord] /\ AtRest.pc = "idle"
  BY <1>2, AtRestSound, OneCall
<1>4. CallsSound' /\ StoreSound' /\ \A t \in Tasks : Earned(t)' <=> Earned(t)
  BY <1>2, AtRestSound, StoreStays
<1>5. Sound(mirror)' /\ RunsStarted' /\ HeldIssued'
  BY <1>2, <1>4 DEF SessionInv, Sound, RunsStarted, HeldIssued
<1>6. FinishedIsEarned'
  <2> SUFFICES ASSUME NEW r \in 1 .. runs, r \notin running', NEW t \in Tasks
               PROVE  Earned(t)'
    BY <1>2 DEF FinishedIsEarned
  <2>1. CASE r \in running
    BY <1>1, <1>2, <1>4, <2>1 DEF AllDone, Sound
  <2>2. CASE r \notin running
    BY <1>4, <2>2 DEF SessionInv, FinishedIsEarned
  <2> QED
    BY <2>1, <2>2
<1>7. calm /\ Alone(c) => ~torn' /\ Synced(mirror)'
  <2> SUFFICES ASSUME calm, Alone(c) PROVE ~torn' /\ Synced(mirror)'
    OBVIOUS
  <2>1. InStep(c, call[c])
    BY <1>1, CalmGives DEF At
  <2>2. ~torn /\ store[active] = mirror
    BY <1>1, <2>1 DEF InStep, StepwiseSynced
  <2>3. active' \in running' => active' = active
    BY <1>2, NoRunNotRunning DEF SessionInv
  <2> QED
    BY <1>2, <2>2, <2>3 DEF Synced
<1>8. CallsInStep' /\ calm' \in BOOLEAN
  BY <1>2, <1>3, <1>7, AtRestSound, CalmKept
<1>9. TypeOK'
  BY <1>2, <1>3, <1>8 DEF TypeOK
<1> QED
  BY <1>4, <1>5, <1>6, <1>8, <1>9 DEF SessionInv

-----------------------------------------------------------------------------
(* Steps that change the store. *)

\* New files of one run that are as sound as the old ones, and in which what was done
\* still is, keep what snapshots show true.
LEMMA StoreMoves ==
  ASSUME TypeOK, SessionInv, NEW c \in Calls, NEW k \in CallRecord,
         call' = [call EXCEPT ![c] = k],
         NEW r \in Runs, NEW files \in [Tasks -> TaskRecord],
         store' = [store EXCEPT ![r] = files],
         \A t \in Tasks : store[r][t].status = "done" => files[t].status = "done",
         \A t \in Tasks : files[t].claim_token # NoToken => files[t].status = "in_progress",
         runs' \in 0 .. MaxRuns, runs <= runs', r <= runs',
         UNCHANGED <<mirror, torn, overlaid, held>>,
         CallSound(call[c])'
  PROVE  /\ CallsSound' /\ StoreSound' /\ Sound(mirror)' /\ HeldIssued'
         /\ call' \in [Calls -> CallRecord]
         /\ store' \in [Runs -> [Tasks -> TaskRecord]]
         /\ \A t \in Tasks : Earned(t) => Earned(t)'
<1>1. /\ call' \in [Calls -> CallRecord]
      /\ \A d \in Calls : d # c => call'[d] = call[d]
  BY OneCall
<1>2. /\ store' \in [Runs -> [Tasks -> TaskRecord]] /\ store'[r] = files
      /\ \A s \in Runs : s # r => store'[s] = store[s]
  BY DEF TypeOK
<1>3. \A t \in Tasks : Earned(t) => Earned(t)'
  BY <1>2 DEF Earned
<1>4. runs \in Nat /\ runs' \in Nat /\ 1 .. runs \subseteq 1 .. runs'
  BY DEF TypeOK
<1>5. CallsSound'
  <2> SUFFICES ASSUME NEW d \in Calls, d # c PROVE CallSound(call[d])'
    BY DEF CallsSound
  <2>1. CallSound(call[d]) /\ call'[d] = call[d]
    BY <1>1 DEF SessionInv, CallsSound
  <2> QED
    BY <1>3, <1>4, <2>1 DEF CallSound, Sound, Finishing
<1>6. StoreSound'
  <2>1. \A s \in Runs : s > runs' => s > runs /\ s # r
    BY <1>4 DEF Runs
  <2> QED
    BY <1>2, <2>1 DEF SessionInv, StoreSound
<1>7. Sound(mirror)' /\ HeldIssued'
  BY <1>3 DEF SessionInv, Sound, HeldIssued
<1> QED
  BY <1>1, <1>2, <1>3, <1>5, <1>6, <1>7

\* A task that is done in the old files of a run and in the new ones stays earned.
LEMMA EarnedStays ==
  ASSUME TypeOK, NEW r \in Runs, NEW files \in [Tasks -> TaskRecord],
         store' = [store EXCEPT ![r] = files],
         \A t \in Tasks : store[r][t].status = "done" => files[t].status = "done"
  PROVE  /\ store'[r] = files
         /\ \A t \in Tasks : Earned(t) => Earned(t)'
         /\ \A t \in Tasks : files[t].status = "done" => Earned(t)'
<1>1. /\ store'[r] = files
      /\ \A s \in Runs : s # r => store'[s] = store[s]
  BY DEF TypeOK
<1> QED
  BY <1>1 DEF Earned

\* The files of a run with one record replaced.
LEMMA OneFile ==
  ASSUME TypeOK, SessionInv, NEW r \in Runs, NEW t \in Tasks, NEW f \in TaskRecord,
         store[r][t].status = "done" => f.status = "done",
         f.claim_token # NoToken => f.status = "in_progress"
  PROVE  LET files == [store[r] EXCEPT ![t] = f]
         IN  /\ files \in [Tasks -> TaskRecord] /\ files[t] = f
             /\ \A u \in Tasks : u # t => files[u] = store[r][u]
             /\ \A u \in Tasks : store[r][u].status = "done" => files[u].status = "done"
             /\ \A u \in Tasks :
                    files[u].claim_token # NoToken => files[u].status = "in_progress"
<1>1. store[r] \in [Tasks -> TaskRecord]
  BY DEF TypeOK
<1>2. \A u \in Tasks : store[r][u].claim_token # NoToken => store[r][u].status = "in_progress"
  BY DEF SessionInv, StoreSound
<1> QED
  BY <1>1, <1>2

\* A new run begins with the snapshot of the call that starts it; if all is calm that
\* is the mirror.
LEMMA StartRunKeeps ==
  ASSUME TypeOK, SessionInv, NEW c \in Calls, StartRun(c), calm' = (calm /\ Alone(c))
  PROVE  TypeOK' /\ SessionInv'
<1> DEFINE r == runs + 1
           k == Joined(c, r)
<1>1. /\ call[c] \in CallRecord /\ CallSound(call[c]) /\ call[c].pc = "join"
      /\ call[c].tool \in {"run", "next"}
      /\ call[c].queue \in [Tasks -> TaskRecord] /\ Sound(call[c].queue)
  BY DEF TypeOK, SessionInv, CallsSound, StartRun, At, CallSound, CallRecord
<1>2. /\ runs \in Nat /\ r \in Runs /\ runs' = r /\ r \in 0 .. MaxRuns
      /\ runs <= r /\ r <= r
      /\ store' = [store EXCEPT ![r] = call[c].queue]
      /\ running' = running \cup {r} /\ active' = r
      /\ call' = [call EXCEPT ![c] = k]
      /\ UNCHANGED <<issued, mirror, torn, overlaid, held>>
  BY DEF StartRun, TypeOK, Runs, mirrorFile
<1>3. \/ k = AtRest /\ k.pc = "idle"
      \/ /\ k.pc = "claim" /\ k.tool = "next" /\ k.queue = call[c].queue
         /\ k.due = call[c].due /\ k.run = r
  BY <1>1, AtRestSound DEF Joined, CallRecord
<1>4. k \in CallRecord
  <2>1. [call[c] EXCEPT !.pc = "claim", !.run = r, !.task = 1] \in CallRecord
    BY <1>1, <1>2 DEF CallRecord
  <2> QED
    BY <2>1, AtRestSound DEF Joined
<1> HIDE DEF k
<1>5. call' \in [Calls -> CallRecord] /\ call'[c] = k
  BY <1>2, <1>4, OneCall
<1>6. /\ \A t \in Tasks : store[r][t].status # "done"
      /\ \A t \in Tasks : call[c].queue[t].claim_token # NoToken
                              => call[c].queue[t].status = "in_progress"
  BY <1>1, <1>2 DEF SessionInv, StoreSound, Sound
<1>7. store'[r] = call[c].queue /\ \A t \in Tasks : Earned(t) => Earned(t)'
  BY <1>1, <1>2, <1>6, EarnedStays
<1>8. CallSound(call[c])'
  <2>1. CASE k = AtRest
    BY <1>5, <1>7, <2>1, AtRestSound DEF CallSound, Sound, Finishing, AtRest
  <2>2. CASE /\ k.pc = "claim" /\ k.tool = "next" /\ k.queue = call[c].queue
             /\ k.due = call[c].due /\ k.run = r
    BY <1>1, <1>2, <1>5, <1>7, <2>2 DEF CallSound, Sound, Finishing
  <2> QED
    BY <1>3, <2>1, <2>2
<1>9. /\ CallsSound' /\ StoreSound' /\ Sound(mirror)' /\ HeldIssued'
      /\ store' \in [Runs -> [Tasks -> TaskRecord]]
  BY <1>1, <1>2, <1>4, <1>6, <1>8, StoreMoves
<1>10. RunsStarted' /\ FinishedIsEarned'
  BY <1>2, <1>7 DEF SessionInv, RunsStarted, FinishedIsEarned
<1>11. calm /\ Alone(c) => IF k.pc = "idle" THEN ~torn' /\ Synced(mirror)'
                           ELSE InStep(c, call[c])'
  <2> SUFFICES ASSUME calm, Alone(c)
               PROVE  IF k.pc = "idle" THEN ~torn' /\ Synced(mirror)' ELSE InStep(c, call[c])'
    OBVIOUS
  <2>1. ~torn /\ call[c].queue = mirror
    BY <1>1, CalmGives DEF At, InStep
  <2>2. store'[active'] = mirror' /\ active' \in running'
    BY <1>2, <1>7, <2>1
  <2> QED
    BY <1>2, <1>3, <1>5, <2>1, <2>2 DEF InStep, StepwiseSynced, Synced, OnActive
<1>12. CallsInStep' /\ calm' \in BOOLEAN
  BY <1>2, <1>4, <1>11, CalmKept
<1>13. TypeOK'
  BY <1>2, <1>5, <1>9, <1>12 DEF TypeOK, Runs
<1> QED
  BY <1>9, <1>10, <1>12, <1>13 DEF SessionInv

\* A claim in the store is ahead of the mirror by this claim.
LEMMA ClaimCandidateKeeps ==
  ASSUME TypeOK, SessionInv, NEW c \in Calls, NEW t \in Tasks, ClaimCandidate(c, t),
         calm' = (calm /\ Alone(c))
  PROVE  TypeOK' /\ SessionInv'
<1> DEFINE r == call[c].run
           f == Claimed(store[r][t], Agent, issued + 1, 0)
           files == [store[r] EXCEPT ![t] = f]
           k == [call[c] EXCEPT !.pc = "mark", !.task = t, !.token = issued + 1]
<1>1. /\ call[c] \in CallRecord /\ CallSound(call[c]) /\ call[c].pc = "claim"
      /\ call[c].tool = "next" /\ r \in 1 .. runs /\ call[c].due = {}
      /\ call[c].queue \in [Tasks -> TaskRecord] /\ Sound(call[c].queue)
  BY DEF TypeOK, SessionInv, CallsSound, ClaimCandidate, At, CallSound, CallRecord
<1>2. /\ issued + 1 \in Nat /\ issued + 1 \in 0 .. MaxTokens
      /\ issued + 1 # NoToken
  BY DEF ClaimCandidate, TypeOK, NoToken
<1>3. r \in Runs /\ runs \in 0 .. MaxRuns /\ r <= runs /\ runs <= runs
  BY <1>1 DEF TypeOK, Runs
<1>4. store[r][t] \in TaskRecord /\ store[r][t].status = "todo"
  BY <1>3 DEF TypeOK, ClaimCandidate, Claimable
<1>5. f \in TaskRecord /\ f.status = "in_progress"
  BY <1>2, <1>4, ClaimedRecord
<1>6. /\ k.tool = "next" /\ k.pc = "mark" /\ k.queue = call[c].queue /\ k.due = {}
      /\ k.run = r /\ k.task = t /\ k.token = issued + 1
      /\ k \in CallRecord
  <2>1. t \in Nat
    BY DEF Tasks
  <2> QED
    BY <1>1, <1>2, <2>1 DEF CallRecord
<1>7. /\ store' = [store EXCEPT ![r] = files]
      /\ call' = [call EXCEPT ![c] = k]
      /\ UNCHANGED <<running, active, runs, mirror, torn, overlaid, held>>
      /\ issued' = issued + 1
  BY DEF ClaimCandidate, mirrorFile
<1>8. /\ files \in [Tasks -> TaskRecord]
      /\ \A u \in Tasks : store[r][u].status = "done" => files[u].status = "done"
      /\ \A u \in Tasks : files[u].claim_token # NoToken => files[u].status = "in_progress"
  BY <1>3, <1>4, <1>5, OneFile
<1>9. calm /\ Alone(c) => /\ InStep(c, call[c])
                          /\ files = [mirror EXCEPT ![t] = Claimed(@, Agent, issued + 1, 0)]
  <2> SUFFICES ASSUME calm, Alone(c)
               PROVE  /\ InStep(c, call[c])
                      /\ files = [mirror EXCEPT ![t] = Claimed(@, Agent, issued + 1, 0)]
    OBVIOUS
  <2>1. InStep(c, call[c])
    BY <1>1, CalmGives DEF At
  <2>2. store[r] = mirror
    BY <1>1, <2>1 DEF InStep, StepwiseSynced, OnActive
  <2> QED
    BY <2>1, <2>2
<1> HIDE DEF k, f, files
<1>10. store'[r] = files /\ \A u \in Tasks : Earned(u) => Earned(u)'
  BY <1>3, <1>7, <1>8, EarnedStays
<1>11. call' \in [Calls -> CallRecord] /\ call'[c] = k
  BY <1>6, <1>7, OneCall
<1>12. CallSound(call[c])'
  BY <1>1, <1>2, <1>6, <1>10, <1>11 DEF CallSound, Sound, Finishing
<1>13. /\ CallsSound' /\ StoreSound' /\ Sound(mirror)' /\ HeldIssued'
       /\ store' \in [Runs -> [Tasks -> TaskRecord]]
  BY <1>3, <1>6, <1>7, <1>8, <1>12, StoreMoves
<1>14. RunsStarted' /\ FinishedIsEarned'
  BY <1>7, <1>10 DEF SessionInv, RunsStarted, FinishedIsEarned
<1>15. calm /\ Alone(c) => InStep(c, call[c])'
  <2> SUFFICES ASSUME calm, Alone(c) PROVE InStep(c, call[c])'
    OBVIOUS
  <2>1. OnActive(call[c]) /\ ~torn /\ call[c].queue = mirror
    BY <1>1, <1>9 DEF InStep, StepwiseSynced
  <2>2. store'[active'] = [mirror EXCEPT ![t] = Claimed(@, Agent, issued + 1, 0)]
    BY <1>7, <1>9, <1>10, <2>1 DEF OnActive
  <2> QED
    BY <1>6, <1>7, <1>11, <2>1, <2>2 DEF InStep, StepwiseSynced, OnActive
<1>16. CallsInStep' /\ calm' \in BOOLEAN
  BY <1>6, <1>7, <1>15, CalmKept
<1>17. TypeOK'
  BY <1>2, <1>7, <1>11, <1>13, <1>16 DEF TypeOK
<1> QED
  BY <1>13, <1>14, <1>16, <1>17 DEF SessionInv

\* A claim that ends in the store is ahead of the mirror by this end; if it ends well,
\* the task is earned.
LEMMA EndClaimKeeps ==
  ASSUME TypeOK, SessionInv, NEW c \in Calls, EndClaim(c), calm' = (calm /\ Alone(c))
  PROVE  TypeOK' /\ SessionInv'
<1> DEFINE r == call[c].run
           t == call[c].task
           status == call[c].status
           f == Released(store[r][t], status)
           files == [store[r] EXCEPT ![t] = f]
           k == [call[c] EXCEPT !.pc = "unmark"]
<1>1. /\ call[c] \in CallRecord /\ CallSound(call[c]) /\ call[c].pc = "end"
      /\ call[c].tool = "finish" /\ r \in 1 .. runs /\ call[c].due = {}
      /\ t \in Tasks /\ call[c].token # NoToken /\ status \in {"todo", "done"}
      /\ call[c].queue \in [Tasks -> TaskRecord] /\ Sound(call[c].queue)
  BY DEF TypeOK, SessionInv, CallsSound, EndClaim, At, CallSound, CallRecord, Finishing
<1>2. r \in Runs /\ runs \in 0 .. MaxRuns /\ r <= runs /\ runs <= runs
  BY <1>1 DEF TypeOK, Runs
<1>3. store[r][t] \in TaskRecord /\ store[r][t].status = "in_progress"
  BY <1>1, <1>2 DEF TypeOK, EndClaim, HoldsToken, SessionInv, StoreSound
<1>4. f \in TaskRecord /\ f.status = status /\ f.claim_token = NoToken
  BY <1>1, <1>3, ReleasedRecord
<1>5. /\ k.tool = "finish" /\ k.pc = "unmark" /\ k.queue = call[c].queue /\ k.due = {}
      /\ k.run = r /\ k.task = t /\ k.token = call[c].token /\ k.status = status
      /\ k \in CallRecord
  BY <1>1 DEF CallRecord
<1>6. /\ store' = [store EXCEPT ![r] = files]
      /\ call' = [call EXCEPT ![c] = k]
      /\ UNCHANGED <<running, active, runs, issued, mirror, torn, overlaid, held>>
  BY DEF EndClaim, Step, mirrorFile
<1>7. /\ files \in [Tasks -> TaskRecord] /\ files[t].status = status
      /\ \A u \in Tasks : store[r][u].status = "done" => files[u].status = "done"
      /\ \A u \in Tasks : files[u].claim_token # NoToken => files[u].status = "in_progress"
  BY <1>1, <1>2, <1>3, <1>4, OneFile
<1>8. calm /\ Alone(c) => /\ InStep(c, call[c]) /\ OnActive(call[c])
                          /\ HoldsToken(mirror[t], call[c].token)
                          /\ files = [mirror EXCEPT ![t] = Released(@, status)]
  <2> SUFFICES ASSUME calm, Alone(c)
               PROVE  /\ InStep(c, call[c]) /\ OnActive(call[c])
                      /\ HoldsToken(mirror[t], call[c].token)
                      /\ files = [mirror EXCEPT ![t] = Released(@, status)]
    OBVIOUS
  <2>1. InStep(c, call[c])
    BY <1>1, CalmGives DEF At
  <2>2. store[r] = mirror /\ OnActive(call[c])
    BY <1>1, <2>1 DEF InStep, StepwiseSynced, OnActive
  <2> QED
    BY <2>1, <2>2 DEF EndClaim
<1> HIDE DEF k, f, files
<1>9. /\ store'[r] = files
      /\ \A u \in Tasks : Earned(u) => Earned(u)'
      /\ \A u \in Tasks : files[u].status = "done" => Earned(u)'
  <2>1. /\ r \in Runs /\ files \in [Tasks -> TaskRecord]
        /\ store' = [store EXCEPT ![r] = files]
        /\ \A u \in Tasks : store[r][u].status = "done" => files[u].status = "done"
    BY <1>2, <1>6, <1>7
  <2> HIDE DEF r, t, status
  <2> QED
    BY <2>1, EarnedStays, ZenonT(30)
<1>10. call' \in [Calls -> CallRecord] /\ call'[c] = k
  BY <1>5, <1>6, OneCall
<1>11. CallSound(call[c])'
  BY <1>1, <1>5, <1>7, <1>9, <1>10 DEF CallSound, Sound, Finishing
<1>12. /\ CallsSound' /\ StoreSound' /\ Sound(mirror)' /\ HeldIssued'
       /\ store' \in [Runs -> [Tasks -> TaskRecord]]
  BY <1>2, <1>5, <1>6, <1>7, <1>11, StoreMoves
<1>13. RunsStarted' /\ FinishedIsEarned'
  BY <1>6, <1>9 DEF SessionInv, RunsStarted, FinishedIsEarned
<1>14. calm /\ Alone(c) => InStep(c, call[c])'
  <2> SUFFICES ASSUME calm, Alone(c) PROVE InStep(c, call[c])'
    OBVIOUS
  <2>1. ~torn /\ call[c].queue = mirror
    BY <1>1, <1>8 DEF InStep
  <2>2. store'[active'] = [mirror EXCEPT ![t] = Released(@, status)]
    BY <1>6, <1>8, <1>9 DEF OnActive
  <2> QED
    BY <1>5, <1>6, <1>8, <1>10, <2>1, <2>2 DEF InStep, StepwiseSynced, OnActive
<1>15. CallsInStep' /\ calm' \in BOOLEAN
  BY <1>5, <1>6, <1>14, CalmKept
<1>16. TypeOK'
  BY <1>6, <1>10, <1>12, <1>15 DEF TypeOK
<1> QED
  BY <1>12, <1>13, <1>15, <1>16 DEF SessionInv

\* A task that recovery requeues in the store is due in the mirror.
LEMMA RecoverTaskKeeps ==
  ASSUME TypeOK, SessionInv, NEW c \in Calls, RecoverTask(c), calm' = (calm /\ Alone(c))
  PROVE  TypeOK' /\ SessionInv'
<1> DEFINE r == call[c].run
           t == call[c].task
           due == call[c].due \cup {t}
           f == Released(store[r][t], "todo")
           files == [store[r] EXCEPT ![t] = f]
           k == [call[c] EXCEPT !.task = t + 1, !.due = due]
<1>1. /\ call[c] \in CallRecord /\ CallSound(call[c]) /\ call[c].pc = "scan"
      /\ call[c].tool = "recover" /\ r \in 1 .. runs
      /\ t \in Tasks /\ t \in Nat /\ call[c].due \subseteq Tasks
      /\ store[r][t].status = "in_progress"
  BY DEF TypeOK, SessionInv, CallsSound, RecoverTask, At, CallSound, CallRecord
<1>2. r \in Runs /\ runs \in 0 .. MaxRuns /\ r <= runs /\ runs <= runs
  BY <1>1 DEF TypeOK, Runs
<1>3. store[r] \in [Tasks -> TaskRecord]
  BY <1>2 DEF TypeOK
<1>4. f \in TaskRecord /\ f.status = "todo" /\ f.claim_token = NoToken
  BY <1>1, <1>3, ReleasedRecord
<1>5. /\ k.tool = "recover" /\ k.pc = "scan" /\ k.queue = call[c].queue /\ k.due = due
      /\ k.run = r /\ k.task = t + 1
      /\ k \in CallRecord
  <2>1. due \in SUBSET Tasks /\ t + 1 \in Nat
    BY <1>1
  <2> HIDE DEF due
  <2> QED
    BY <1>1, <2>1 DEF CallRecord
<1>6. /\ store' = [store EXCEPT ![r] = files]
      /\ call' = [call EXCEPT ![c] = k]
      /\ UNCHANGED <<running, active, runs, issued, mirror, torn, overlaid, held>>
  BY DEF RecoverTask, mirrorFile
<1>7. /\ files \in [Tasks -> TaskRecord]
      /\ \A u \in Tasks : store[r][u].status = "done" => files[u].status = "done"
      /\ \A u \in Tasks : files[u].claim_token # NoToken => files[u].status = "in_progress"
  BY <1>1, <1>2, <1>4, OneFile
<1>8. calm /\ Alone(c) =>
          /\ InStep(c, call[c])
          /\ active \in running => r = active /\ files = Requeued(mirror, due)
  <2> SUFFICES ASSUME calm, Alone(c)
               PROVE  /\ InStep(c, call[c])
                      /\ active \in running => r = active /\ files = Requeued(mirror, due)
    OBVIOUS
  <2>1. InStep(c, call[c])
    BY <1>1, CalmGives DEF At
  <2>2. \A u \in call[c].due : u < t
    BY <1>1, <2>1 DEF InStep, StepwiseSynced
  <2>3. t \notin call[c].due
    BY <1>1, <2>2
  <2>4. ASSUME active \in running PROVE r = active /\ files = Requeued(mirror, due)
    <3>1. r = active /\ store[r] = Requeued(mirror, call[c].due)
      BY <1>1, <2>1, <2>4 DEF InStep, StepwiseSynced, Synced
    <3>2. store[r][t] = mirror[t]
      BY <1>1, <2>3, <3>1 DEF Requeued
    <3>3. \A u \in Tasks :
              files[u] = IF u \in due THEN Released(mirror[u], "todo") ELSE mirror[u]
      BY <1>1, <1>3, <3>1, <3>2 DEF Requeued
    <3>4. files = [u \in Tasks |-> files[u]]
      BY <1>7
    <3> HIDE DEF files, due
    <3> QED
      BY <3>1, <3>3, <3>4 DEF Requeued
  <2> QED
    BY <2>1, <2>4
<1> HIDE DEF k, f, files
<1>9. store'[r] = files /\ \A u \in Tasks : Earned(u) => Earned(u)'
  BY <1>2, <1>6, <1>7, EarnedStays
<1>10. call' \in [Calls -> CallRecord] /\ call'[c] = k
  BY <1>5, <1>6, OneCall
<1>11. CallSound(call[c])'
  BY <1>1, <1>5, <1>6, <1>9, <1>10 DEF CallSound, Sound, Finishing
<1>12. /\ CallsSound' /\ StoreSound' /\ Sound(mirror)' /\ HeldIssued'
       /\ store' \in [Runs -> [Tasks -> TaskRecord]]
  BY <1>2, <1>5, <1>6, <1>7, <1>11, StoreMoves
<1>13. RunsStarted' /\ FinishedIsEarned'
  BY <1>6, <1>9 DEF SessionInv, RunsStarted, FinishedIsEarned
<1>14. calm /\ Alone(c) => InStep(c, call[c])'
  <2> SUFFICES ASSUME calm, Alone(c) PROVE InStep(c, call[c])'
    OBVIOUS
  <2>1. ~torn
    BY <1>1, <1>8 DEF InStep
  <2>2. active' \in running' => store'[active'] = Requeued(mirror, due) /\ r = active'
    BY <1>6, <1>8, <1>9
  <2>3. \A u \in due : u < t + 1
    BY <1>1, <1>8 DEF InStep, StepwiseSynced, Tasks
  <2> QED
    BY <1>5, <1>6, <1>10, <2>1, <2>2, <2>3 DEF InStep, StepwiseSynced, Synced, Requeued
<1>15. CallsInStep' /\ calm' \in BOOLEAN
  BY <1>5, <1>6, <1>14, CalmKept
<1>16. TypeOK'
  BY <1>6, <1>10, <1>12, <1>15 DEF TypeOK
<1> QED
  BY <1>12, <1>13, <1>15, <1>16 DEF SessionInv

-----------------------------------------------------------------------------
(* The invariant and the properties. *)

\* No run, no call, and the markers of spec/tasks.md.
LEMMA InitInv == Init => TypeOK /\ SessionInv
<1> SUFFICES ASSUME Init PROVE TypeOK /\ SessionInv
  OBVIOUS
<1>1. TypeOK
  <2>1. runs \in 0 .. MaxRuns /\ issued \in 0 .. MaxTokens
    BY DEF Init
  <2>2. Unclaimed("todo") \in TaskRecord
    BY DEF Unclaimed, TaskRecord, Statuses, NoToken
  <2>3. /\ store \in [Runs -> [Tasks -> TaskRecord]] /\ mirror \in [Tasks -> TaskRecord]
        /\ call \in [Calls -> CallRecord]
    BY <2>2, MarkersSound, AtRestSound DEF Init
  <2> QED
    BY <2>1, <2>3 DEF Init, TypeOK
<1>2. CallsSound /\ Sound(mirror)
  BY MarkersSound, AtRestSound DEF Init, CallsSound
<1>3. StoreSound
  <2>1. Unclaimed("todo").claim_token = NoToken /\ Unclaimed("todo").status = "todo"
    BY DEF Unclaimed
  <2> QED
    BY <2>1 DEF Init, StoreSound
<1>4. RunsStarted /\ HeldIssued /\ FinishedIsEarned
  BY DEF Init, RunsStarted, HeldIssued, FinishedIsEarned
<1>5. CallsInStep
  BY AtRestSound DEF Init, CallsInStep, Synced, At
<1> QED
  BY <1>1, <1>2, <1>3, <1>4, <1>5 DEF SessionInv

\* Every step keeps it.
LEMMA StepInv == TypeOK /\ SessionInv /\ [Next]_vars => (TypeOK /\ SessionInv)'
<1> SUFFICES ASSUME TypeOK, SessionInv, [Next]_vars PROVE (TypeOK /\ SessionInv)'
  OBVIOUS
<1>1. ASSUME NEW c \in Calls, Tool(c), calm' = (calm /\ Alone(c))
      PROVE  TypeOK' /\ SessionInv'
  <2>1. CASE BeginRun(c)
    BY <1>1, <2>1, BeginQueueKeeps DEF BeginRun
  <2>2. CASE BeginNext(c)
    BY <1>1, <2>2, BeginQueueKeeps DEF BeginNext
  <2> QED
    BY <1>1, <2>1, <2>2, BeginFinishKeeps, BeginRecoverKeeps, BeginLegacyRecoverKeeps DEF Tool
<1>2. ASSUME NEW c \in Calls, NextTask(c), calm' = (calm /\ Alone(c))
      PROVE  TypeOK' /\ SessionInv'
  <2>1. CASE NoCandidate(c)
    BY <1>2, <2>1, RefusalKeeps
  <2> QED
    BY <1>2, <2>1, JoinRunKeeps, StartRunKeeps, ClaimCandidateKeeps, SkipCandidateKeeps,
       MarkInProgressKeeps, FlushKeeps DEF NextTask
<1>3. ASSUME NEW c \in Calls, FinishTask(c), calm' = (calm /\ Alone(c))
      PROVE  TypeOK' /\ SessionInv'
  <2>1. CASE NoActiveRun(c) \/ StaleClaim(c) \/ EndRefused(c) \/ MarkRefused(c)
    BY <1>3, <2>1, RefusalKeeps
  <2>2. CASE Heartbeat(c) \/ Validate(c)
    BY <1>3, <2>2, ValidateKeeps
  <2> QED
    BY <1>3, <2>1, <2>2, FindRunKeeps, EndClaimKeeps, MarkEndedKeeps, CloseRunKeeps
    DEF FinishTask
<1>4. ASSUME NEW c \in Calls, RecoverNext(c), calm' = (calm /\ Alone(c))
      PROVE  TypeOK' /\ SessionInv'
  BY <1>4, RecoverTaskKeeps, PassTaskKeeps, ScanDoneKeeps, RequeueMirrorKeeps,
     RecoverDoneKeeps DEF RecoverNext
<1>5. CASE UNCHANGED vars
  <2>1. \A t \in Tasks : Earned(t)' <=> Earned(t)
    BY <1>5 DEF vars, Earned
  <2>2. CallsSound' /\ Sound(mirror)' /\ StoreSound'
    BY <1>5, <2>1 DEF vars, SessionInv, CallsSound, CallSound, Sound, StoreSound, Finishing
  <2>3. RunsStarted' /\ HeldIssued' /\ FinishedIsEarned'
    BY <1>5, <2>1 DEF vars, SessionInv, RunsStarted, HeldIssued, FinishedIsEarned
  <2>4. CallsInStep'
    BY <1>5 DEF vars, SessionInv, CallsInStep, InStep, StepwiseSynced, Synced, Requeued,
       OnActive, Quiet, Alone, At
  <2>5. TypeOK'
    BY <1>5 DEF vars, TypeOK
  <2> QED
    BY <2>2, <2>3, <2>4, <2>5 DEF SessionInv
<1> QED
  BY <1>1, <1>2, <1>3, <1>4, <1>5, CrashKeeps DEF Next

\* SessionInv holds whatever calls overlap and die.
THEOREM Inductive == Spec => [](TypeOK /\ SessionInv)
<1> QED
  BY InitInv, StepInv, PTL DEF Spec

\* No file, snapshot or call ever has a value the code does not know.
THEOREM TypeCorrect == Spec => []TypeOK
<1> QED
  BY Inductive, PTL

\* The mirror shows a task as done only if the store of some run has completed it, for
\* any number of calls that race for the mirror and die at any point.
THEOREM DoneCorrect == Spec => []DoneIsEarned
<1>1. SessionInv => DoneIsEarned
  BY DEF SessionInv, Sound, DoneIsEarned
<1> QED
  BY <1>1, Inductive, PTL

\* finish_task finishes a run only if every task was completed in some run.
THEOREM FinishedCorrect == Spec => []FinishedIsEarned
<1>1. SessionInv => FinishedIsEarned
  BY DEF SessionInv
<1> QED
  BY <1>1, Inductive, PTL

\* Calls that come one after the other and are not killed leave mirror and store in step.
THEOREM MirrorCorrect == Spec => []MirrorInStep
<1>1. SessionInv => MirrorInStep
  BY DEF SessionInv, CallsInStep, Synced, MirrorInStep
<1> QED
  BY <1>1, Inductive, PTL

==============================================================================
