# A verification project for jibuff

jibuff turns a request into a task list by an interview and then works the list
off, one task at a time, with a coding agent, a stack of validators and, in one
mode, a quality gate. Its state is a handful of small files in the workspace that
several processes share: loops (`jb run`), MCP servers with several calls in
flight, heartbeat threads, `jb recover` and `jb cleanup`. This directory models
that sharing in TLA+, checks it with TLC and proves the central parts with TLAPS.

All paths below are relative to the repository's root, line numbers are those of
the commit the project was written against. `PROJECT.json` maps each definition
of a module to the lines it stands for.

## 1. The system

### Components, their state and their operations

| component | source | state | operations |
|---|---|---|---|
| runtime store: tasks, workers, heartbeats | `orchestrator/runtime_store.py` | `.jibuff/runs/<run>/tasks/*.json`, `workers/*.json`, one lock file each; a thread per claim | `claim_task`, `heartbeat`, `complete_task`, `requeue_task`, `recover_stale`, `Heartbeat` |
| runtime store: lifecycle of runs | same | `active.json`, `manifest.json` of each run, `run.lock` | `start`, `active`, `latest`, `finish` |
| task queue and mirror | `orchestrator/task_queue.py` | a snapshot of `spec/tasks.md` overlaid with `storage/task_status.json` | `next`, `mark_in_progress`, `mark_done`, `requeue`, `_flush_status_file` |
| loop controller | `orchestrator/loop_controller.py` | its queue, `failure_context`, quality retries, consecutive failures, the result | `run` |
| in-session tools | `jibuff_mcp/server.py` | none of their own between calls | `jibuff_run`, `jibuff_next_task`, `jibuff_finish_task` |
| interview sessions | `jibuff_mcp/server.py` | `.jibuff/mcp/interviews/<id>.md` and `.lock`, `spec/tasks.md` | `jibuff_interview` (start, continue, cancel, complete), sweeping |
| interview engine | `interview/engine.py`, driven by `orchestrator/main.py` and `jibuff_mcp/server.py` | `InterviewSession` (rounds, transcript, pending question, complete), in memory or in its file | `start`, `step`, `generate_tasks_md` |
| scoring | `interview/ambiguity.py`, `risk.py`, `validation_scope.py` | none | pure functions of answers of a language model |
| workspace operations | `orchestrator/ops.py` | none of their own | `recover_workspace`, `cleanup_*`, `inspect`, `doctor`, set-up of hosts |
| agent runner | `orchestrator/agent_runner.py` | a child process | `run` with timeout |
| validators, firewall, quality | `validators/*.py`, `evaluators/quality.py` | none | run a program or ask a model, pass or fail |
| reporters | `reporters/*.py` | `storage/last_failure.md`, `open_issues.json`, `trace/`, `progress` | write a report, open an issue on a schedule |
| artifact store, status, cancel | `storage/artifacts.py`, `jibuff_mcp/server.py` | files in `storage/` | read, write, `jibuff_status`, `jibuff_cancel` |
| command line | `orchestrator/main.py` | none | `jb interview`, `run`, `status`, `inspect`, `recover`, `cleanup`, ... |
| modes | `orchestrator/config.py` | constants | `get_mode` |
| registration | `orchestrator/main.py` | the entry of the server in Claude Code's configuration | `jb setup`, `--check`, `--unregister` |
| installers, skill | `scripts/install.sh`, `orchestrator/ops.py` | files of other programs | set-up |

### How they interact

A loop parses the queue, starts a run when it meets its first task, and for each
task claims it in the store, marks it in the queue and its mirror, beats while the
agent and the validators work, and completes or requeues it in both. An MCP server
does the same in separate calls, between which nothing but the files and the token
in the agent's hands remembers the claim: each call takes a fresh snapshot of the
mirror, finds or starts the run, changes the store under the locks of the tasks,
and writes the snapshot back without a lock. `jb recover` requeues stale claims, or
all of them, in the store, then in the mirror. The interview keeps its session in
one file that carries a revision, and writes `spec/tasks.md` at its end.

The only things that exclude anything are `flock`s (one per task file, one per
worker file, one for starts, one per interview session) and atomic renames. Reads
take no lock. Everything else is optimistic: revisions and tokens.

### What is hard, and what would make it correct

* Claims outlive the calls that took them and are taken away by recovery. *Correct*
  is: a claim has one holder, a revision is never seen twice, a task is completed
  once, an owner that beats in time keeps its claim, and the worker file tells the
  truth.
* A run is started, found and finished by several processes, any of which may be
  killed. *Correct* is: nobody gets a half-written run, at most one run is live, a
  pointer to a finished run has an explanation, a waiting start is served, a loop
  can be started again after a crash and a recovery.
* The same task is kept twice, in the store and in the mirror, with no lock around
  both. *Correct* is: they agree when nothing is under way, work that is done is
  shown, work that is not done is not shown as done, a task that both show as todo
  can be claimed.
* The loop carries counters and a failure text across iterations of different
  tasks. *Correct* is: it stops, "all done" is true, the text and the counters
  belong to the task at hand, no claim is left behind. What it waits for without a time
  limit (validators, the prompt of an escalation, git) is all that may keep it from
  stopping.
* An interview step takes seconds, in which it holds a lock but not the event
  loop. *Correct* is: a revision is followed by one other, a cancelled session
  stays gone, every call is answered, a completed interview has its tasks on disk.
* An interview is driven by a language model that may answer with nothing, with
  something else than was asked for, or not at all. *Correct* is: it comes to an end,
  tasks are written for a reason, a question is answered once, an interview whose client
  knows of it is not lost.
* The plan may be replaced while runs, claims and snapshots of an older one are
  about; statuses belong to ids. *Correct* is: the tasks of a run that was started
  for the present plan can be worked on, nobody inherits a "done".
* Failures are written to two files that everybody shares, and that a cleanup
  removes. *Correct* is: what comes one after the other loses nothing, and does so
  again after calls that overlapped or were killed.
* Registering takes three commands of another program, each of which may fail after
  it did its work. *Correct* is: a set-up that says it is done is, and set-ups that
  race leave a registration behind.

`PROJECT.json` lists these as hazards, at their lines, with the properties that
would notice each of them.

## 2. The modules

| module | models | composed of |
|---|---|---|
| `TaskRecords` | the record of a task, the conditions and updates that store and queue share | |
| `TaskLease` | what the store promises, without files and locks (abstract) | |
| `RuntimeTasks` | claims, heartbeats and recovery in the files of one run | extends `TaskRecords`, implements `TaskLease` |
| `RunLifecycle` | start, find and finish of the runs of a workspace | |
| `InSession` | the MCP tools and recovery over store and mirror | extends `TaskRecords` |
| `LoopController` | the loop over its queue and the files of its run | extends `TaskRecords`, implements `TaskLease` |
| `InterviewSessions` | the interview tool over session and lock files | |
| `Scoring` | ambiguity, risk, levels, gate and thresholds, as operators | |
| `Interview` | one interview from the request to `spec/tasks.md`, under either driver | extends `Scoring` |
| `Plans` | plans that replace each other under runs, claims and snapshots | extends `TaskRecords` |
| `Reports` | failure reports, their readers and their cleanup | |
| `Setup` | registration of the MCP server | |
| `...Proofs` | theorems | extend the module they are about |
| `MC...` | symmetry sets and other constants for TLC | |

Definitions that begin with a comment "Faulty" are deliberately wrong variants of
the definition after them. No specification uses them; each shows that a property
notices the mistake (`PROJECT.json`, "mutants").

### RuntimeTasks

Every read-modify-write of a task file happens under its `flock` and ends in a
rename, so it is one action: `ClaimTask`, `WriteBeat`, `EndTask`, `RecoverTask`.
What the code does outside the lock is an action of its own. `BeginClaim` picks the
task, the expected revision, the token and the time stamp before the lock is asked
for; `SyncBeat` and `LeaveHeartbeat` write the worker file after the task's lock is
released; `ScanTask` is recovery's first look, `RecoverTask` and `SkipTask` its
second. `main` is the main thread of a client, `thread` its heartbeat thread and
`beats` the `heartbeat` calls in flight: `Heartbeat.__exit__` waits one second
only, so a beat can outlive the claim it belongs to. A client stands for a worker id
and its process, one claim at a time. `clock` is `datetime.now`; `Tick` lets no
more than `StaleAfter` pass while a client with a running heartbeat waits to beat,
because the thread beats every 30 seconds and the default threshold is ten minutes.
The command line accepts a threshold of 0, with which no claim is ever fresh; the
module takes it to be at least one tick. `claimed_at` and `heartbeat_at` are always
set and cleared together and only their maximum is compared: one field.
A run may begin with tasks that are claimed already: `RuntimeStore.start` copies claim,
token and revision of what the mirror shows in progress (`Inherited`), and `TaskLease`
begins with such leases. Whoever took them is one of the clients, and has no call that
knows the token. `events.jsonl` is a log and left out.

### RunLifecycle

A process is in one call (`doing`) at one step (`pc`). Reading `active.json` is
`exists()`, then `read_text()`, and the file may vanish in between
(`PointerVanished`, an error in the code). `start` is `Acquire`, the reading steps,
`StartRefused` or `WriteManifest`, `WriteTasks`, `Publish`, `Unlock`. `finish` is
`FinishManifest`, the reading steps, `PointerIsOwn` or `PointerIsOther`, and
`Unlink`, without a lock. A loop finishes twice if its first attempt raises. A
server looks for the run, starts one if there is none, and looks again if that is
refused. `Crash` kills a process at any step and frees its lock, as the kernel does.

### InSession

`store` holds the task files per run, `mirror` what was last written to
`task_status.json`, `torn` whether the file is unreadable at the moment,
`overlaid` the writers whose open file another writer has truncated or written in
between. `Load` is what building a `TaskQueue` returns: the mirror, or the markers
of `spec/tasks.md` if the mirror cannot be read. A call carries its snapshot in
`queue` and writes all of it back (`Flush`). Starting and finishing a run are one
step each here, their interleavings belong to `RunLifecycle`. `Mark` is what
`spec/tasks.md` shows of each task, `[ ]`, `[~]`, `[x]` or `[!]`; what it marks as done
counts as earned. `calm` remembers whether calls have overlapped or
were killed so far: the mirror agrees with the store only while they have not.

### LoopController

One step per phase of an iteration; the store's and the queue's part of a phase are
one step, because nobody else writes the loop's queue. Others, who write the
files of the run, are the actions `ForcedRecovery`, `OtherClaims` and `OtherEnds`.
`Interrupted` is an exception or ^C at any phase. The answers of agent, validators
and evaluator are nondeterministic. Where the loop waits for something outside, that is a
phase of its own: "agent", "validate", "quality", "escalate" (the handler, which may be
`typer.prompt`) and "commit" (`git add` and `git commit`). The queue may begin with tasks
in any status, and with claims that an earlier run has left in the mirror.

### InterviewSessions

`loop` is the call that occupies each server's event loop. A call keeps it from its
start to its end, also while it blocks in `flock` (`Lock`), except between `Await`
and `Resume`, where the engine gathers the answers of the model. A lock belongs to
a file, not to a name: `lockfile` is the generation of the file at the lock's path,
0 if there is none, and a call remembers the generation it opened. Sweepers look
first (`FindExpired`, `FindOrphan`) and unlink afterwards. `Complete` removes the
session; `OpenDraft`, which truncates, `WriteDraft` and `ReplaceTasks` are the steps of the
atomic write of `spec/tasks.md`, whose temporary name all writers share. A file remembers
who has it open (`Output`): what a call writes goes to the file it has opened, even if
another call has moved that to `spec/tasks.md` meanwhile. A client can continue or
cancel a session only after it was told its id, and a crash before the answer
leaves an id that nobody knows. A server sweeps at the start of each call; the
module lets sweepers run at any time, which includes that. A sweep may meet a file that
vanishes between `exists()` and `read_text()` (`server.py:352`); its call then fails
before it has an id or a lock, which is no step here.

Calls wait for each other in two ways (`WaitsFor`): for the holder of a lock, and for the
call that has the event loop to which the model's answer comes back. A server that has two
calls for one session can get into a circle of the two, from which only its death leads
out. `Blocked` are the calls whose waits lead nowhere else.

### Scoring and Interview

`Scoring` computes in integers what the code computes in floats, see the head of the
module: a tenth of a score times a hundredth of a weight is a thousandth, so that
every comparison with a threshold is exact. (In the code `round(..., 4)` has the same
effect for scores with one decimal.)

`session` is the `InterviewSession` in memory, `saved` the one in the session file.
The command line has only the first; a call of the tool works on a copy, and
`CallFails` puts it back to what is saved. `Kept` is what goes through the file and
back: rounds, transcript and question, but not the scores. Text is abstracted to the
number of topics it mentions (`covered`), which only grows, and to the number of
answers. `Question` is one reply of the model, with a question in it or without;
`asyncio.run` of the command line and the awaits of the tool are the same step here.
An answer that is refused changes nothing and is left out. `GiveAnswer` is the
developer's answer and the beginning of the `step` that records it. `conflict` is whether
the model has named contradictions. Calls of one
session come one after the other; `InterviewSessions` has their races, and takes the
engine's answers as open.

### Plans

`plans` are the versions of `spec/tasks.md`, reduced to the ids they contain: a plan may
have ids in common with an older one, or none at all. `TakeSnapshot` builds a queue from
the last one and the mirror (`Load`), which lists what the last writer's snapshot did. A
loop keeps its snapshot and its run for all its tasks, a session takes a new one with
each call, but goes on with the token of its agent (`held`). `ReplacePlan` is the end of
an interview, of whoever drives it. Store and mirror change together here, and both
parts of a claim or of its end are one step: `InSession` has what happens in between.
Recovery turns to the active run, else to the latest one if that has tasks in progress
(`RunToRecover`, `Recover`), else to the mirror alone (`RecoverMirror`).
`born` and `given` remember for which plan a run was started and a task given out.

### Reports

`failure` and `issues` are the two files. Writing is opening, which truncates, and
filling; whoever fills last wins, and if two had the file open the longer text may show
through (`file = "overlaid"`), which is not JSON any more. A cleanup takes the name
away: what is written afterwards is nowhere (`"unlinked"`). Reading an
`open_issues.json` that is torn gives no issues, one that vanished after `exists()` is
an error of the call, which leaves the claim. A report stands for all its gates.
`calm` begins anew with a cleanup that starts while nobody else is at it: from then on
nothing of the past is left in either file.

### Setup

`config` is the entry in Claude Code's configuration and what `claude mcp get`, `remove`
and `add` do to it is taken from how `main.py` uses them (external in the map): `remove`
fails if there is none, `add` if there is one. `Fail` is a command that fails or takes
more than its 30 seconds, with or without its effect. A key is its value, none, or
empty, which Python tells apart in two ways: `is not None` when it compares, truth when
it adds. Paths are compared the way the code does it, by looking for the wanted one in
what is printed for the registered one: `Occurs` is which path is a part of which, like
`/bin/jb` of `/usr/bin/jb`. `answer` is what the last call has said that succeeded, or
that was stopped by a command that failed for itself; a call that was refused because
another one was faster has changed nothing and does not count.

## 3. The runs

All finish within two minutes and are exhaustive within their bounds.

| run | question | result |
|---|---|---|
| `RuntimeTasks_stale` | two clients, two recoveries by age, one task, four clock values, three tokens, one of which may be inherited: do revisions mean what they say, is a punctual claim kept, is `IndInv` an invariant | holds |
| `RuntimeTasks_force` | two mortal clients, two tasks, which may be claimed from an earlier run, forced recovery: exclusive claims, one completion, `TaskLease` implemented | holds |
| `RunLifecycle` | two loops, a server, two starts, kills anywhere: no half run, pointers explained and not stolen, a start that waits for `run.lock` served, `LifecycleInv` an invariant | holds |
| `RunLifecycle_resume` | can a loop start after a kill and a recovery | **violated** |
| `InSession` | two calls, killed anywhere, three tasks of which one is marked done: store and mirror agree between calls that do not overlap, and nothing is made up | holds |
| `LoopController` | three tasks, eight iterations, a quality gate, three intrusions, inherited claims: the loop stops if what it waits for returns, tells the truth and keeps its counters and its failure text in order | holds |
| `InterviewSessions_safe` | two servers with two calls each, one session that may expire, a cleanup: until it is swept, one successor per revision, no resurrection | holds |
| `InterviewSessions_live` | two servers with two calls each, expiry and kills: every call is answered, or its server dies, or it is for good in a circle of waits | holds |
| `Interview` | both modes, both drivers, a model that answers badly or not at all: the interview ends, its tasks are written for one of three reasons, with its answers | holds |
| `Plans` | a loop, a session, two plans over two ids, two runs, two claims: a run of the present plan can be worked off, no new task is done before it was done | holds |
| `Reports` | two sessions, two tasks, two cleanups, three reports: whatever happened before, reports that do not overlap are all listed, and read by those they concern | holds |
| `Setup` | three calls, two places of jb, the path of one being a part of the other's, two keys: what the last answer says is so, set-ups that race leave a registration | holds |

### Bounds

* *Two of everything that races.* A race here is between two holders, or a holder
  and a recovery; the second recovery of `RuntimeTasks_stale` is there because one
  recovery may wait for a lock while another one requeues the task it has looked at.
* `MaxTokens` bounds claims, not what follows them. Beside the token of an inherited
  claim, two tokens are a claim, its loss and a claim by someone else, which is when an old
  owner can do harm; the proofs remove the bound.
* `MaxClock = 3` with `StaleAfter = 2` lets a claim become stale, be requeued, be
  claimed afresh and be met by a recovery with the old cutoff.
* `RunLifecycle` has two starts, which is one that races with a finish or with
  another; the proofs cover any number.
* `InSession`: three tokens and two runs are a claim that is lost, one that is recovered
  and one of the next run. The first of three tasks is marked done in the plan: it is
  shown and counted, and never given out.
* Eight iterations over three tasks with a threshold of three and two quality
  retries: each counter can reach its limit, be reset and begin again.
* `MaxLocks` bounds how often a lock file is made anew. It stops a sweeper
  (`RemoveLock`), never a call, so that it cannot hide a call that is not answered.
* Two slots per server, two servers and one session in `InterviewSessions_live`: that is a
  circle within a server, and a call of another server that waits for it. `MaxRounds = 1`
  leaves the paths of a call, asking, completing, refusing and failing.
* `MaxRounds = 3` in `InterviewSessions_safe`: a first question and two continuations are
  what it takes for a session that was swept to fork; with two rounds none does.
* `Interview` has the rounds and thresholds of the code. Of the scores the model may
  give, the run takes some on each side of every threshold and some right on it; the
  theorems of `InterviewProofs` take all of them.
* `Plans`: two plans are an old one and a new one with none, some or all of its ids. A
  second run is one that is started from what the first left in the mirror.
* `Reports`: the third report can meet two that overlapped, `Setup`: the third call can
  meet what two left behind.

A session may expire at any time, in the middle of a call too, 24 hours after its last
write. `RevisionOnce` and `CancelledStaysGone` speak of a session until a cleanup has
removed its file (`swept`); afterwards neither holds, see section 4, 6.

Deadlock checking is on for `RuntimeTasks`, where recovery can always begin again,
and off where a bound or the end of the program stops the system.

### Fairness

* `RunLifecycle!Fairness`: a process that is scheduled makes its next step (weak),
  and `flock` serves each waiter although others come and go (strong). Nobody has to
  begin or to finish anything, and anyone may be killed.
* `LoopController!FairSpec`: the loop takes its next step (weak), unless it waits for
  what the code sets no time limit to (`Unbounded`): the programs of the validators
  (`lint.py:19`, `types.py:23`, `tests.py:16`, `security.py:35` and `:59`, `device.py:29`,
  `firewall.py:70`, `network.py:61`, `fallback.py:49`), the prompt of an escalation
  (`escalation.py:127`), `git` (`loop_controller.py:367`). There nothing is assumed, and
  `Stops` says that the loop either stops or stays at one of these for ever. The agent has a
  limit (300 seconds, `agent_runner.py:83`), and so have `gh` (`escalation.py:34`, `:99`)
  and, by its default, the client of the evaluator. Others need not do anything.
* `Interview!Fairness`: the developer answers in the end, and a model or a file that
  fails does not fail for ever (strong: each failure of a call takes it back to where
  the step has to be made again). Nobody needs to give a useful answer.
* `InterviewSessions!FairSpec`: a call that has the event loop goes on (weak), the
  model's client returns or raises, and flock and event loop serve whoever waits for
  them (strong). A blocked event loop resumes nobody: that is the guard of `Resume`,
  not a matter of fairness, and no fairness breaks a circle of two calls of one server.

## 4. What disagrees

One run finds behaviour that contradicts a document, and is kept because it is what a
user meets after each crash; `PROJECT.json` quotes the document:

* After a kill, `jb recover` leaves the manifest running and `jb run` is refused
  (`ops.py:231`): `RunLifecycle_resume`.

Three more documents or comments are contradicted by what `Interview` models. The
properties are stated there as the documents have them, and TLC refutes each within a few
seconds with the constants of `Interview.cfg` and the property as its only invariant. What
the code does instead is the property that the run checks, `TasksAreJustified`.

* Contradictions that the model has named are looked at by nobody (`engine.py:302-318`),
  although `docs/interview-scoring.md:62` has them surfaced and clarified before anything
  else, and `:142-143` goes on to scoring without any only: `Interview!ConflictsResolved`.
* An interview that runs out of rounds is complete (`engine.py:316-318`), and its tasks are
  written without the user's override and without open issues, both of which
  `docs/interview-scoring.md:158` requires: `Interview!ConvergedOrAllowed`.
* The command line takes an empty reply of the model for the end of the interview
  (`main.py:67`), says "Interview complete" and writes tasks, although `step` promises no
  questions only for a complete session (`engine.py:273`): `Interview!WrittenMeansComplete`.

The following are stated in the modules and refuted by TLC too, with the constants given
here or else those of the run of their module. They have no run of their own, because their
windows are narrow or little depends on them.

1. `finish` can unlink the pointer of another run, and then a second live run is possible
   (`runtime_store.py:250`): `RunLifecycle!OneLiveRun`, with three loops, no server and
   three runs.
2. A kill between claim and mark leaves revisions that differ for the rest of the run: the
   task cannot be claimed any more (`ops.py:236`): `InSession!TodoIsClaimable`, with one
   call of which only `next` is mortal, one task, two tokens and one run.
3. Two calls for one interview session in one server block the server for good: the second
   waits for the flock and keeps the event loop, which the first needs to let go of the
   lock (`server.py:301`, `:747`): `InterviewSessions!AlwaysAnswered`, with the constants of
   `InterviewSessions_live`. `Answered` of that run excepts this circle and nothing else.
4. A beat in flight shows a worker busy after it went idle (`runtime_store.py:224`):
   `RuntimeTasks!NotBusyWithDone`, with one task, one token and no clock.
5. A torn read of the mirror loses a completed task (`task_queue.py:181`):
   `InSession!DoneIsShown`, with two tasks and two calls that nobody kills.
6. Expiry in the middle of a step and the sweep of lock files let two answers succeed
   from the same revision (`server.py:352`): `InterviewSessions!SuccessorIsUnique`, with
   the constants of `InterviewSessions_safe`.
7. Two interviews that complete at once share a temporary file: one reports the
   other's tasks, the other loses its interview (`server.py:372`):
   `InterviewSessions!CompleteIsWritten`, with two servers and two sessions of one round.
8. A task of a new plan whose id an old plan has used takes over the old one's status, and
   may count as done (`task_queue.py:125`), although `README.md:25` has the plan frozen
   while it is worked on: `Plans!DoneIsOfThisPlan`.
9. The tool that ends an interview says to go on with `jibuff_run` (`server.py:761`), but
   that joins the run of the old plan, in which the new tasks have no files:
   `Plans!NewPlanIsClaimable`.
10. `last_failure.md` is one file; a session that is told to read its failure there
   (`ops.py:84`) may find another's: `Reports!OwnFailure`.
11. Reports that overlap are not appended to `open_issues.json` but write over each other
   (`failure_report.py:40`): `Reports!IssuesKept`.
12. A registration with another key than the present one, or with another path of which the
   wanted one is a part, counts as "Already registered with current config" (`main.py:483`,
   `:524`): `Setup!KeyIsCurrent`, `Setup!PathIsCurrent`.
13. A set-up that fails after `remove` leaves no registration: `Setup!FailureKeepsRegistration`.

Noticed on the way, without a property: `last_failure.md` is never removed when a task
passes; `ArtifactStore.resolve_issues` ("called on pass", `artifacts.py:84`) has no
caller; `jibuff_status` raises a TypeError when it meets the mirror that `TaskQueue` writes,
whose entries have more fields than `TaskStatus` (`artifacts.py:67`); what
`jibuff_cancel` writes is read by no loop; a reply that is JSON but no object raises a
TypeError that the fallbacks for unparsable replies do not catch (`engine.py:418`); scores
outside 0 to 1 are not clamped.

## 5. What is proved

The theorems hold for any number of clients, recoveries, tasks, processes and runs,
and for any bound: the bounds of the runs are constants of the modules, of which the
proofs assume only what the modules' ASSUMEs say (`NoClient` is no client, the
threshold is positive, `Loops` and `Servers` are disjoint, and the like). No theorem has a
hypothesis beyond those.

Each inductive invariant was checked by TLC with the constants of its module's run
before it was proved. Where no run lists it, it stands at the head of the proof module.

### RuntimeTasksProofs

| theorem | says |
|---|---|
| `TypeCorrect` | files, workers, threads and calls only ever have values the code knows |
| `Inductive` | `TypeOK /\ IndInv` is an invariant |
| `HolderCorrect` | `HolderIsClaimant`: a client whose token opens a task is the task's claimant |
| `RevisionCorrect` | `ExpectedMeansUnchanged`: a revision is never seen twice |
| `CompletionCorrect` | `CompletedOnce`: at most one client is ever credited with a task |
| `PunctualCorrect` | `PunctualClaimKept`: recovery by age never takes the claim of a client that beats |
| `Implements` | `LeaseSpec`: every step of the files is a step of `TaskLease` or a stutter |

None of the properties is inductive as it stands. That a token opens one task only,
for instance, needs to know that tokens are not issued twice (`TokenUnique`), that no
file holds a token that was not issued (`FileIssued`), that a task which is not in
progress holds none (`FileReleased`), and that a token is only ever found in the file
of the task its owner asked for, and only between claim and end (`ClaimOwned`). That
a revision means what it says rests on `RevisionSeen`: between look and lock the
revision in the file only grows. That beats in flight do no harm rests on there being
one per claim (`BeatUnique`, `BeatOwned`), and that recovery by age does none on
time: stamps lie in the past, a beat is younger than the stamp it replaces, every
cutoff lies `StaleAfter` back (`TimeInv`). These parts make up `IndInv`, which
`RuntimeTasks_stale` also checks.

Each action has a lemma (`ClaimTaskKeeps`, ...) with one step per part of `IndInv`.
`ClaimedRecord`, `ReleasedRecord` and `BeatFields` say what the updates of
`TaskRecords` do to a record, so that no other proof has to open them. `Frames` says
that what an action does not touch keeps its invariants. The refinement has a lemma
per kind of step (`LeaseClaim`, `LeaseEnd`, `LeaseRecover`); the other actions leave
the task files' leases alone. The type invariant alone is not inductive either: a
claim writes the task its client remembers.

### RunLifecycleProofs

| theorem | says |
|---|---|
| `TypeCorrect` | a process, a run and the pointer are in no state the code does not know |
| `Inductive` | `TypeOK /\ LifecycleInv` is an invariant |
| `HalfRunCorrect` | `NoHalfRun`: nobody gets hold of a run that is not completely written |
| `DanglingCorrect` | `DanglingExplained`: a pointer to a finished run is about to go, or somebody was killed |
| `PointerCorrect` | `PointerNotStolen`: a start does not replace a running run |
| `LockCorrect` | `run.lock` is held exactly while a start is under way |

A start looks at the pointer and the manifest long before it writes the pointer, and
finishing takes no lock. Why it still does not overwrite a running run is `Checked`:
what a starter has found out stays true, because only a starter can make a run
running or active, because starts exclude each other (`LockHeld`), and because the
run a starter prepares is in nobody else's hands (`Unseen`), so that nobody finishes
it or finds it half written (`Prepared`, `HandsFull`). `CloserSees` is what keeps a
finisher from missing its own pointer. `RunLifecycle` checks the conjunction.

`LockCorrect` is the converse of `LockHeld` as well: `run.lock` is held by the start that is
under way and by nobody when none is, whether starts end refused, by an error or by a
kill. That is what `StartAnswered` rests on besides fairness.

### InSessionProofs

| theorem | says |
|---|---|
| `TypeCorrect` | calls, files of runs, mirror and claims keep their types |
| `Inductive` | `TypeOK /\ SessionInv` is an invariant |
| `DoneCorrect` | `DoneIsEarned`: the mirror never shows work as done that no run has completed |
| `FinishedCorrect` | `FinishedIsEarned`: a finished run had all tasks completed, in it or before it |
| `MirrorCorrect` | `MirrorInStep`: calls that do not overlap and are not killed leave mirror and store in step |

Assumed is that the bounds are numbers (`BoundsAssumption`), that there is a client to
carry the worker id of the tools (`AgentAssumption`), that no client is the absence of
one, that there is at least one task and that the plan marks each in one of the four ways
(`MarkAssumption`). Any tool may be mortal.

The invariant has two halves. The first holds whatever overlaps and dies: every snapshot
in a call, like the mirror, shows as done only what some run has completed (`Sound`), and
a call at a given step has the tool, the task, the token and the run that it takes to be
there (`CallSound`). Snapshots may then be written back at any time and at any age,
because a completed task stays completed: a recovery requeues nothing that is done. A call
that is about to mark a task as done is the one exception, and for it the store has done
the task already. The second half speaks of calm times and follows the distance between
store and mirror through the one call that is under way (`StepwiseSynced`): nothing, one
claim, one release, or the tasks that recovery has requeued so far, which lie before the
one it looks at next (`Requeued`). `LocalStep`, `StoreStays` and `CalmKept` reduce a step
to what it does for its own call; each action then has a lemma of its own.

### LoopControllerProofs

| theorem | says |
|---|---|
| `TypeCorrect` | the loop, its queue, its counters and the files of its run keep their types |
| `Inductive` | `TypeOK /\ LoopInv` is an invariant |
| `AllDoneCorrect` | `AllDoneIsTrue`: `all_done` is true of the files of the run |
| `ClaimsCorrect` | `NothingLeftClaimed`: a loop that ends for a reason of its own holds no claim |
| `ContextCorrect` | `ContextIsOwn`: the agent is told of failures of its own task only |
| `EscalationCorrect` | `EscalationPaced`: each `Threshold`-th failure of a task is escalated, and no other |
| `RejectionsCorrect` | `RejectionsBounded`: the quality gate turns a task back `MaxQualityRetries` times at most |
| `LoopBounded` | a loop takes at most `7 * MaxIterations + 2` steps of its own |
| `RunClosedCorrect` | a loop that has stopped has closed its run |
| `Implements` | `LeaseSpec`: every step is a step of `TaskLease` or a stutter |

Nothing is assumed that the code does not fix or its configuration allow: any number of
tasks and iterations, any positive threshold, any number of quality retries. The loop
looks at its own queue only, so `AllDoneIsTrue` needs that the queue shows as done only
what its file shows as done (`DoneInFile`), which nobody takes back. That no claim is
left behind needs to know of which task the loop may hold one and from which point to
which (`OwnClaim`): a claim of the loop is of the task at hand and of this iteration.
That one `failure_context` serves all tasks rests on `ContextFirst`, that it is of the
task at hand or of one that is still first in the queue and so will be at hand next.
`Counted` ties the counters of the loop, which a done task resets, to the failures and
rejections of each task, which the properties are stated with; while an escalation is
under way its task has been counted and not yet reset (`ResetDue`). `Implements` has a lemma for each kind
of step and for what intruders do, like that of `RuntimeTasks`: loop and store keep the
same promise.

`Stops` itself needs fairness, but what it owes to the loop is proved. `StepsLeft` counts
the steps that may still come: seven for each iteration that is left, and those of this one
(`Ahead`), the waits for a validator, for the answer to an escalation and for git among
them. `LoopBounded` says that each step of the loop takes at least one away, however
passes, failures, rejections and lost claims follow each other, and that others take away
or add none; `RunClosedCorrect`, that the end it comes to is the one `Stops` speaks of.

### InterviewSessionsProofs

| theorem | says |
|---|---|
| `TypeCorrect` | sessions, locks, calls and cleanups keep their types |
| `Inductive` | `TypeInv /\ SessionInv` is an invariant |
| `StepsAlone` | no two calls are between reading and writing of a session, until it is swept |
| `CancelledCorrect` | `CancelledStaysGone`: a cancelled session does not come back, until it is swept |
| `RevisionsCorrect` | `RevisionOnce`: a call writes over what it has read and nothing else, until it is swept |
| `LoopCorrect` | the event loop of a server is with the call that runs |
| `WaitsEnd` | the waits of a call lead to one that can go on, or through a server with one call at a lock and another at the model |
| `BlockedIsJammed` | whoever is blocked for good is so because of such a server |

A session lasts as long as no cleanup has removed its file (`Lasts(s)`, which is
`s \notin swept`). Expiry as such does no harm: a session that expires in the middle of a
call is good for another day when the call writes it. When a cleanup was faster, the call
writes it all the same, from what it has read before; its lock is on a file that may be
removed next, and two calls can step the session that it brings back. So only a session
that was swept can fork or come back from a cancellation, and section 4, 6, shows that
it does. What remains true of it are the parts of `SessionInv` that do not mention `Lasts`:
that one lock file has one holder, that its lock files and its cancellation are of a
session that clients know, and that a new session is in nobody else's hands. Assumed is
that the bounds are positive and that no call is mistaken for none (`NoneAssumption`).

The lock of a session is worth as much as the file it was taken on, and cleanups remove
those files without asking. Why two calls still do not step one session at a time is the
argument of the invariant: a cleanup is only ever after the lock file of a session that
is gone (`CleanupsLate`), one that is gone stays so (`Gone`), because whoever could write
it again has read a file that is not there or has a session that no client knows yet
(`BaseIsFile`, `FreshSession`); and as long as a session has its file, every call that
has opened its lock has opened the present one (`LockKept`). `OnlyWriter` draws the
conclusion: between reading and writing a call is alone with its session. A call that
waits in `flock` for a lock file that has been removed meanwhile gets it, and finds that
there is nothing to continue.

`WaitsEnd` and `BlockedIsJammed` are the part of `Answered` that does not depend on
fairness, for any number of servers and of calls in flight. A holder of a lock waits for no
other lock, so that locks alone make no circle; the event loop it needs to come back from
the model is free, or taken by a call of the same server (`LoopTaken`), which can go on
unless it stands at a lock itself. That last case is the only one in which nobody can go on
(`Jammed`), and section 4, 3, shows that it does occur. The run adds that whoever is not in
it is answered under fairness.

### InterviewProofs

| theorem | says |
|---|---|
| `GateMeansLevel` | the gate of `rtc` mode passes exactly the risks that are shown as level 1 or 2 |
| `UnreadIsWorst` | a reply that cannot be parsed passes neither its mode's threshold nor the gate |
| `TypeCorrect` | rounds, answers and scores stay within the limits of the mode |
| `Inductive` | `TypeOK /\ InterviewInv` is an invariant |
| `TasksCorrect` | `TasksAreJustified`: tasks are for a complete interview, converged or out of rounds, all its answers scored, or for one for which the command line got no question |
| `LostCorrect` | `NothingLost`: a known interview is in its file or in the tasks, or its call was killed in between |
| `AnswerCorrect` | `OneAnswerPerQuestion`: a call that failed and is made again answers no question twice |

Assumed is that the scores the model gives are on its scale (`ClarityAssumption`,
`RiskAssumption`); which of them it gives does not matter, so that here every reply is
covered, where the run takes five and three. What the invariant adds is where an
interview has an unanswered question (`RoundAnswered`, and `SavedOpen` for its file: a
call that fails goes back to that), that the gate only sends on an interview with a
round left (`RoundLeft`), and which driver does what (`DriverKnown`). `AskedSession`,
`AnsweredSession`, `CompletedSession` and `KeptSession` say what the operators on a
session return.

### ReportsProofs

| theorem | says |
|---|---|
| `TypeCorrect` | both files, the sessions and the cleanups keep their types |
| `Inductive` | `TypeOK /\ ReportInv` is an invariant |
| `IssuesCorrect` | `IssuesComplete`: calls that do not overlap list the reports since the last cleanup, and only those |
| `FailureCorrect` | `OwnFailureIfCalm`: a failed session then finds its own report |

Assumed is that sessions and cleanups are different (`CleanersAssumption`) and that the
bound is a number. Where the properties speak of the time between calls, the invariant
follows the list through a call: it is in the file, or (`Writing`) with the call that
has opened the file, which has it to itself (`OneAtATime`, `Undisturbed`). `NamesKnown`
makes a report that begins a new one. A cleanup that begins with nobody at work makes
calm again, whatever the files hold; that is why `ListKept` says nothing while a cleanup
runs. `CallKeeps` and `CleanKeeps` reduce a step to what it does for its own session or
cleanup; each action then has a lemma of its own.

### PlansSetupProofs

Two small components share a module. Of `Plans`:

| theorem | says |
|---|---|
| `TypeCorrect` | plans, mirror, runs, snapshots and claims keep their types |
| `OwnPlanClaimable` | `OwnPlanIsClaimable`: a run of the present plan, left alone, can be worked off |
| `FreshEarned` | `FreshIdIsEarned`: a task whose id is new is shown as done only if it was done for this plan |
| `SnapshotCurrent` | in calm, the snapshot that is open is of the present plan and what a new one would be |
| `TasksKnown` | the mirror lists ids of some plan, a snapshot those of its plan, and a claim is of a task of the plan it was given out for |

Assumed is that ids are numbers, that loops and callers differ, that there is a worker
id (`ClientsAssumption`) and that the bounds are numbers; any number of plans, runs and
sessions may follow each other.

`FreshIdIsEarned` speaks of the mirror, but what it shows comes out of snapshots and
claims of any age. `KnownTasks` ties each of them to the plan it is of: an id that no
earlier plan has used is in no snapshot of an earlier plan, and no claim of an earlier
plan is of it. So whoever completes it completes it for the present plan, which is what
`AllEarned` says of every table that may still be written to the mirror. A new plan makes
fresh only what no table lists. `OwnPlanIsClaimable` is the other kind of property: it
speaks of calm times. `CalmInv` follows them through a call: one snapshot at most
(`OneAtATime`), that is what `Load` would build (`SnapshotIsCurrent`) and what the files of a run
of this plan say (`FilesAgree`). Revisions then agree between store and mirror, and what
is to do is held by nobody (`Unheld`). One more thing had to be said for induction: a
session that is not open remembers nothing (`ClosedIsEmpty`). TLC checked the conjunction
with the constants of the run `Plans`.

Of `Setup`, whose definitions have names of their own so that both can be extended:

| theorem | says |
|---|---|
| `SetupTypeCorrect` | the registration, the calls and their answers keep their types |
| `SetupInductive` | `SetupTypeOK /\ SetupInv` is an invariant |
| `AnswerCorrect` | `AnswerIsTrue`: what the last call to succeed has said of the registration is so |
| `RaceCorrect` | `RaceKeepsRegistration`: setups that race leave a registration |

Assumed is that no key is mistaken for none (`KeysAssumption`), no place of jb for
the absence of a registration (`PathsAssumption`), and that a path is found in what is
printed for it (`OccursAssumption`); which others are found there is open.
An answer need not hold while others are under way: one of them may have removed what it
speaks of. `AnswerStands` says that this is all: it holds, or the registration is missing
and a call is about to add one, which will then give the last answer. Two calls that both saw an old
registration remove it one after the other, and the second one fails. Why that does not
leave the server unregistered is `MissingExplained`: the registration is missing only
while the call that removed it is about to add a new one.

### What is not proved

Liveness (`StartAnswered`, `Stops`, `Answered`, `Ends`) and whatever depends on ENABLED
are beyond TLAPS and checked by TLC only; of the first three, `LockCorrect`, `LoopBounded`
with `RunClosedCorrect`, and `WaitsEnd` with `BlockedIsJammed` are the part that needs
neither. `Ends` rests on
`InterviewProofs!TypeCorrect`, which bounds the rounds. Every other property of a passing
run is stated by a theorem. What runs refute is of course not proved.

The modules write an update of two fields of one entry as
`[f EXCEPT ![p] = [@ EXCEPT !.a = x, !.b = y]]`, and not with `![p]` twice: tlapm
1.4.5 encodes the latter wrongly for its SMT solver, as an inconsistency from which
anything follows. The leaves of all proof modules were tried again with FALSE as
their goal, to make sure that none of them rests on such an inconsistency. The
leaves with which that succeeded, seven in `PunctualCorrect`, two in `EndUnknownKeeps` of
`PlansSetupProofs` and one in `OnlyWriter` of `InterviewSessionsProofs`, are those that
derive a contradiction from the hypothesis of a case on purpose.

## 6. What is not modelled

* *Agent runner, validators, firewall, quality gate, evaluators*: they start a program
  or ask a model and report pass or fail; `LoopController` takes every answer they can
  give. Their own text is pattern matching and wording.
* *Artifact store, status, cancel*: single writes and reads of single files that nothing
  else depends on.
* *Progress, traces, `gh`*: `progress.md` and the traces are written and never read; the
  pace of escalations is in `LoopController`, what `gh` makes of them is not.
* *`validation_scope`*: regular expressions over the words of a task. Its effect, that a
  task is left out of the plan, is in `Plans`, where a plan is any set of tasks.
* *The wording of an interview*: prompts, question blocks, which two dimensions are
  weakest. Contradictions are asked for and then not looked at (`engine.py:296`).
* *Command line, host set-up, installers, skill*: option parsing, printing, and edits of
  other programs' files other than `jb setup`.
* *`events.jsonl`, traces, wording*: logs.
* *File systems without `flock` or atomic rename*: on Windows and on some network
  mounts `_locked` does not lock; the models take it that it does.

Hazards without a property are listed in `PROJECT.json` with the reason.

## 7. Plan

Done: the store's tasks and runs (1, 2), in-session tools and mirror (3), loop (4),
interview sessions (5), the interview and its scoring (6), plans (7), reports (8),
registration (9); proofs of all safety properties that the runs check.

Next, in this order:

1. Liveness of in-session work under fairness of the host that calls the tools.
2. An abstract specification of the tools of a session, which `InSession` and `Plans` both
   refine in calm times.
