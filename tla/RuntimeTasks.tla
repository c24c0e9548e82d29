---------------------------- MODULE RuntimeTasks ----------------------------
(***************************************************************************)
(* The task and worker files of one run of orchestrator/runtime_store.py,  *)
(* shared by the loops that work on the run and by `jb recover`.           *)
(*                                                                         *)
(* Every read-modify-write of a task file happens under that task's flock  *)
(* and ends in an atomic replace, so it is one step here.  What the code   *)
(* does outside the lock is a step of its own: a caller computes its       *)
(* timestamp and its token before it waits for the lock, it updates its    *)
(* worker file after it has let go of the task, the heartbeat thread runs  *)
(* beside its main thread, and recovery looks at a task once without the   *)
(* lock before it looks again under it.                                    *)
(***************************************************************************)
EXTENDS TaskRecords

CONSTANTS
    NTasks,         \* the tasks of the run, in the order recovery visits them
    Mortal,         \* the clients whose process may be killed
    Recoverers,     \* processes running `jb recover`
    StaleAfter,     \* stale_after_minutes, in ticks
    Forces,         \* the values of --force that are tried
    MaxClock,       \* bound on the clock
    MaxTokens       \* bound on the claim tokens, those of earlier runs included

ASSUME StaleAfterAssumption == StaleAfter \in Nat \ {0}
ASSUME NTasksAssumption     == NTasks \in Nat
ASSUME ForcesAssumption     == Forces \subseteq BOOLEAN

Tasks == 1 .. NTasks

VARIABLES
    file,       \* task files
    worker,     \* worker files: status and current task
    main,       \* the main thread of each client
    thread,     \* the heartbeat thread of each client
    beats,      \* store.heartbeat calls in flight
    recovery,   \* the recovery processes
    clock,      \* datetime.now
    issued,     \* tokens issued so far
    credited    \* history: who completed each task, and under which token

vars == <<file, worker, main, thread, beats, recovery, clock, issued, credited>>

-----------------------------------------------------------------------------
Resting == [pc |-> "idle", task |-> 0, token |-> NoToken, expected |-> 0, now |-> 0]
NoRecovery == [pc |-> "idle", task |-> 0, cutoff |-> 0, force |-> FALSE, of |-> NoClient]

MainPCs == {"idle", "claiming", "claimed", "entering", "working", "ended", "crashed"}

MainRecord     == [pc : MainPCs, task : Nat, token : Nat, expected : Nat, now : Nat]
WorkerRecord   == [status : {"idle", "busy"}, task : Nat]
BeatRecord     == [client : Clients, task : Tasks, token : Nat, now : Nat,
                   pc : {"stamped", "written"}]
RecoveryRecord == [pc : {"idle", "scan", "lock", "sync"}, task : Nat, cutoff : Int,
                   force : BOOLEAN, of : Clients \cup {NoClient}]

TypeOK ==
    /\ file \in [Tasks -> TaskRecord]
    /\ worker \in [Clients -> WorkerRecord]
    /\ main \in [Clients -> MainRecord]
    /\ thread \in [Clients -> {"off", "waiting", "beating"}]
    /\ beats \subseteq BeatRecord
    /\ recovery \in [Recoverers -> RecoveryRecord]
    /\ clock \in Nat
    /\ issued \in Nat
    /\ credited \in [Tasks -> SUBSET (Clients \X Nat)]

\* RuntimeStore.start copies the tasks it is given, with the claims that the mirror still
\* shows; tokens 1 .. NTasks are those of earlier runs.  Who made such a claim worked on
\* the files of that run: no one here beats for it.
Init ==
    /\ file \in [Tasks -> {Unclaimed(s) : s \in Statuses}
                            \cup {Inherited(c, k) : c \in Clients, k \in Tasks}]
    /\ \A t \in Tasks : file[t].claim_token \in {NoToken, t}
    /\ worker = [c \in Clients |-> [status |-> "idle", task |-> 0]]
    /\ main = [c \in Clients |-> Resting]
    /\ thread = [c \in Clients |-> "off"]
    /\ beats = {}
    /\ recovery = [r \in Recoverers |-> NoRecovery]
    /\ clock = 0
    /\ issued = NTasks
    /\ credited = [t \in Tasks |-> {}]

-----------------------------------------------------------------------------
(* The main thread of a client. *)

\* Faulty: a token is not unique, as one made of the task's id alone.
BeginClaimSameToken(c, t) ==
    /\ main[c].pc = "idle"
    /\ file[t].status = "todo"
    /\ main' = [main EXCEPT ![c] = [pc |-> "claiming", task |-> t, token |-> NTasks + t,
                                    expected |-> file[t].revision, now |-> clock]]
    /\ UNCHANGED <<file, worker, thread, beats, recovery, clock, issued, credited>>

\* The caller picks a todo task of the revision it knows, makes a fresh token
\* and reads the clock, all before it asks for the lock.
BeginClaim(c, t) ==
    /\ main[c].pc = "idle"
    /\ file[t].status = "todo"
    /\ issued < MaxTokens
    /\ issued' = issued + 1
    /\ main' = [main EXCEPT ![c] = [pc |-> "claiming", task |-> t, token |-> issued + 1,
                                    expected |-> file[t].revision, now |-> clock]]
    /\ UNCHANGED <<file, worker, thread, beats, recovery, clock, credited>>

ClaimTask(c) ==
    LET t == main[c].task IN
    /\ main[c].pc = "claiming"
    /\ Claimable(file[t], main[c].expected)
    /\ file' = [file EXCEPT ![t] = Claimed(@, c, main[c].token, main[c].now)]
    /\ main' = [main EXCEPT ![c].pc = "claimed"]
    /\ UNCHANGED <<worker, thread, beats, recovery, clock, issued, credited>>

\* RuntimeClaimError: the caller comes away without a claim.
ClaimRefused(c) ==
    /\ main[c].pc = "claiming"
    /\ ~Claimable(file[main[c].task], main[c].expected)
    /\ main' = [main EXCEPT ![c] = Resting]
    /\ UNCHANGED <<file, worker, thread, beats, recovery, clock, issued, credited>>

\* A beat is stamped by the clock before it waits for the lock.
Beat(c) == [client |-> c, task |-> main[c].task, token |-> main[c].token,
            now |-> clock, pc |-> "stamped"]

\* The claimed task is shown in the worker file, and Heartbeat.__enter__ makes
\* the first beat in the main thread, which waits for it.
EnterHeartbeat(c) ==
    /\ main[c].pc = "claimed"
    /\ worker' = [worker EXCEPT ![c] = [status |-> "busy", task |-> main[c].task]]
    /\ main' = [main EXCEPT ![c].pc = "entering"]
    /\ thread' = [thread EXCEPT ![c] = "beating"]
    /\ beats' = beats \cup {Beat(c)}
    /\ UNCHANGED <<file, recovery, clock, issued, credited>>

\* complete_task and requeue_task up to the release of the lock.
EndTask(c, status) ==
    LET t == main[c].task IN
    /\ main[c].pc = "working"
    /\ HoldsToken(file[t], main[c].token)
    /\ file' = [file EXCEPT ![t] = Released(@, status)]
    /\ credited' = IF status = "done"
                   THEN [credited EXCEPT ![t] = @ \cup {<<c, main[c].token>>}]
                   ELSE credited
    /\ main' = [main EXCEPT ![c].pc = "ended"]
    /\ UNCHANGED <<worker, thread, beats, recovery, clock, issued>>

\* The token is stale: the error leaves the with block, which stops the thread.
EndRefused(c) ==
    /\ main[c].pc = "working"
    /\ ~HoldsToken(file[main[c].task], main[c].token)
    /\ main' = [main EXCEPT ![c] = Resting]
    /\ thread' = [thread EXCEPT ![c] = "off"]
    /\ UNCHANGED <<file, worker, beats, recovery, clock, issued, credited>>

\* The worker file goes idle, then __exit__ stops the thread and waits for it a
\* second at most: a beat in flight may outlive the wait.
LeaveHeartbeat(c) ==
    /\ main[c].pc = "ended"
    /\ worker' = [worker EXCEPT ![c] = [status |-> "idle", task |-> 0]]
    /\ main' = [main EXCEPT ![c] = Resting]
    /\ thread' = [thread EXCEPT ![c] = "off"]
    /\ UNCHANGED <<file, beats, recovery, clock, issued, credited>>

\* kill -9, or the parent watchdog's os._exit: threads die with the process.
Crash(c) ==
    /\ c \in Mortal
    /\ main[c].pc \notin {"idle", "crashed"}
    /\ main' = [main EXCEPT ![c] = [Resting EXCEPT !.pc = "crashed"]]
    /\ thread' = [thread EXCEPT ![c] = "off"]
    /\ beats' = {b \in beats : b.client # c}
    /\ UNCHANGED <<file, worker, recovery, clock, issued, credited>>

Restart(c) ==
    /\ main[c].pc = "crashed"
    /\ main' = [main EXCEPT ![c] = Resting]
    /\ UNCHANGED <<file, worker, thread, beats, recovery, clock, issued, credited>>

-----------------------------------------------------------------------------
(* The heartbeat thread of a client. *)

StartBeat(c) ==
    /\ thread[c] = "waiting"
    /\ main[c].pc \in {"working", "ended"}
    /\ thread' = [thread EXCEPT ![c] = "beating"]
    /\ beats' = beats \cup {Beat(c)}
    /\ UNCHANGED <<file, worker, main, recovery, clock, issued, credited>>

\* The thread a beat belongs to, unless __exit__ has given up on it.
Own(b) == thread[b.client] = "beating" /\ main[b.client].token = b.token

\* heartbeat under the lock, when the claim is still there.
WriteBeat(b) ==
    /\ b.pc = "stamped"
    /\ Beats(file[b.task], b.token)
    /\ file' = [file EXCEPT ![b.task].heartbeat_at = b.now]
    /\ beats' = (beats \ {b}) \cup {[b EXCEPT !.pc = "written"]}
    /\ UNCHANGED <<worker, main, thread, recovery, clock, issued, credited>>

\* What happens to the threads when beat b returns: the first beat lets the main
\* thread go on, and its answer is ignored; a later one that fails ends the thread.
BeatReturns(b, ok) ==
    /\ beats' = beats \ {b}
    /\ thread' = [thread EXCEPT ![b.client] =
                      IF ~Own(b) THEN @
                      ELSE IF ok \/ main[b.client].pc = "entering" THEN "waiting" ELSE "off"]
    /\ main' = [main EXCEPT ![b.client].pc =
                    IF Own(b) /\ @ = "entering" THEN "working" ELSE @]

BeatRefused(b) ==
    /\ b.pc = "stamped"
    /\ ~Beats(file[b.task], b.token)
    /\ BeatReturns(b, FALSE)
    /\ UNCHANGED <<file, worker, recovery, clock, issued, credited>>

\* heartbeat shows the client busy after it has let go of the task.
SyncBeat(b) ==
    /\ b.pc = "written"
    /\ worker' = [worker EXCEPT ![b.client] = [status |-> "busy", task |-> b.task]]
    /\ BeatReturns(b, TRUE)
    /\ UNCHANGED <<file, recovery, clock, issued, credited>>

-----------------------------------------------------------------------------
(* recover_stale, by one of the recovery processes. *)

BeginRecover(r, force) ==
    /\ recovery[r].pc = "idle"
    /\ recovery' = [recovery EXCEPT ![r] = [pc |-> "scan", task |-> 1, force |-> force,
                                            cutoff |-> clock - StaleAfter, of |-> NoClient]]
    /\ UNCHANGED <<file, worker, main, thread, beats, clock, issued, credited>>

Recoverable(r, f) ==
    /\ f.status = "in_progress"
    /\ recovery[r].force \/ IsStale(f, recovery[r].cutoff)

\* The look without the lock.
ScanTask(r) ==
    LET t == recovery[r].task IN
    /\ recovery[r].pc = "scan"
    /\ t \in Tasks
    /\ IF Recoverable(r, file[t])
       THEN recovery' = [recovery EXCEPT ![r].pc = "lock"]
       ELSE recovery' = [recovery EXCEPT ![r].task = t + 1]
    /\ UNCHANGED <<file, worker, main, thread, beats, clock, issued, credited>>

\* Faulty: under the lock the age of the claim is not looked at again.
RecoverTaskUnchecked(r) ==
    LET t == recovery[r].task IN
    /\ recovery[r].pc = "lock"
    /\ file[t].status = "in_progress"
    /\ file' = [file EXCEPT ![t] = Released(@, "todo")]
    /\ recovery' = [recovery EXCEPT ![r] =
                       [@ EXCEPT !.pc = "sync", !.of = file[t].claimed_by]]
    /\ UNCHANGED <<worker, main, thread, beats, clock, issued, credited>>

\* The second look, and the requeue, under the lock.
RecoverTask(r) ==
    LET t == recovery[r].task IN
    /\ recovery[r].pc = "lock"
    /\ Recoverable(r, file[t])
    /\ file' = [file EXCEPT ![t] = Released(@, "todo")]
    /\ recovery' = [recovery EXCEPT ![r] =
                       [@ EXCEPT !.pc = "sync", !.of = file[t].claimed_by]]
    /\ UNCHANGED <<worker, main, thread, beats, clock, issued, credited>>

SkipTask(r) ==
    LET t == recovery[r].task IN
    /\ recovery[r].pc = "lock"
    /\ ~Recoverable(r, file[t])
    /\ recovery' = [recovery EXCEPT ![r] = [@ EXCEPT !.pc = "scan", !.task = t + 1]]
    /\ UNCHANGED <<file, worker, main, thread, beats, clock, issued, credited>>

SyncRecovered(r) ==
    LET c == recovery[r].of IN
    /\ recovery[r].pc = "sync"
    /\ worker' = IF c \in Clients
                 THEN [worker EXCEPT ![c] = [status |-> "idle", task |-> 0]]
                 ELSE worker
    /\ recovery' = [recovery EXCEPT ![r] =
                       [@ EXCEPT !.pc = "scan", !.task = recovery[r].task + 1, !.of = NoClient]]
    /\ UNCHANGED <<file, main, thread, beats, clock, issued, credited>>

EndRecover(r) ==
    /\ recovery[r].pc = "scan"
    /\ recovery[r].task \notin Tasks
    /\ recovery' = [recovery EXCEPT ![r] = NoRecovery]
    /\ UNCHANGED <<file, worker, main, thread, beats, clock, issued, credited>>

-----------------------------------------------------------------------------
(* Time passes, but never so far that a client with a claim and a running     *)
(* heartbeat thread misses StaleAfter ticks: the thread beats every 30        *)
(* seconds and the default threshold is ten minutes.                          *)

Holds(c) ==
    /\ main[c].pc \in {"claimed", "entering", "working"}
    /\ HoldsToken(file[main[c].task], main[c].token)

Beating(c) == main[c].pc \in {"claimed", "entering"} \/ thread[c] # "off"

Punctual(c, now) ==
    /\ main[c].pc = "claiming" => now - main[c].now < StaleAfter
    /\ Holds(c) /\ Beating(c) => now - file[main[c].task].heartbeat_at < StaleAfter

Tick ==
    /\ clock < MaxClock
    /\ \A c \in Clients : Punctual(c, clock + 1)
    /\ clock' = clock + 1
    /\ UNCHANGED <<file, worker, main, thread, beats, recovery, issued, credited>>

-----------------------------------------------------------------------------
ClientNext ==
    \E c \in Clients :
        \/ \E t \in Tasks : BeginClaim(c, t)
        \/ ClaimTask(c) \/ ClaimRefused(c)
        \/ EnterHeartbeat(c)
        \/ \E status \in {"todo", "done"} : EndTask(c, status)
        \/ EndRefused(c) \/ LeaveHeartbeat(c)
        \/ Crash(c) \/ Restart(c)
        \/ StartBeat(c)

BeatNext == \E b \in beats : WriteBeat(b) \/ BeatRefused(b) \/ SyncBeat(b)

RecoverNext ==
    \E r \in Recoverers :
        \/ \E force \in Forces : BeginRecover(r, force)
        \/ ScanTask(r) \/ RecoverTask(r) \/ SkipTask(r)
        \/ SyncRecovered(r) \/ EndRecover(r)

Next == ClientNext \/ BeatNext \/ RecoverNext \/ Tick

Spec == Init /\ [][Next]_vars

-----------------------------------------------------------------------------
(* Properties. *)

\* A client that holds the token of its task's file is the one the file names,
\* and the task is in progress: claims are exclusive, and no requeue, recovery
\* or second claim leaves a token behind that still opens the task.
HolderIsClaimant ==
    \A c \in Clients : Holds(c) =>
        /\ file[main[c].task].status = "in_progress"
        /\ file[main[c].task].claimed_by = c

\* A revision is never seen twice: as long as the file has the revision a claim
\* expects, it is the unclaimed todo task the caller saw, however many claims,
\* requeues and recoveries came between the caller's look and its lock.
ExpectedMeansUnchanged ==
    \A c \in Clients :
        main[c].pc = "claiming" /\ file[main[c].task].revision = main[c].expected
            => Claimable(file[main[c].task], main[c].expected)

\* A task is completed at most once, even when a recovered claim's old owner
\* comes back and finishes the work it still believes it owns.
CompletedOnce ==
    \A t \in Tasks : \A x, y \in credited[t] : x = y

\* No one but a forced recovery takes the claim of a client whose heartbeat
\* thread is running: a recovery by age may look at a claim that was stale, wait
\* for the lock, and find another client's fresh claim in its place.
PunctualClaimKept ==
    [][\A c \in Clients :
          Holds(c) /\ Beating(c) /\ ~Holds(c)' /\ main'[c] = main[c]
              => \E r \in Recoverers : recovery[r].force /\ recovery'[r] # recovery[r]]_vars

\* The run's files implement the leases of TaskLease: who completes a task holds
\* its lease at that moment, and a done task is never handed out again.
Phase(f) == CASE f.status = "todo" -> "open"
              [] f.status = "in_progress" -> "leased"
              [] OTHER -> "closed"

Lease == INSTANCE TaskLease
    WITH phase  <- [t \in Tasks |-> Phase(file[t])],
         holder <- [t \in Tasks |-> file[t].claimed_by],
         credit <- [t \in Tasks |-> {x[1] : x \in credited[t]}]

LeaseSpec == Lease!Spec

\* A client that has completed a task, and has no call of its own left to
\* return, is no longer shown busy with it: complete_task sets the worker idle
\* last, but a beat that let go of the task before shows it busy again.
NotBusyWithDone ==
    \A c \in Clients, t \in Tasks :
        /\ main[c].pc = "idle"
        /\ \A b \in beats : b.client # c
        /\ \E x \in credited[t] : x[1] = c
        => worker[c] # [status |-> "busy", task |-> t]

-----------------------------------------------------------------------------
(* The inductive invariant behind those properties, part by part. *)

Owing(c) == main[c].pc \notin {"idle", "crashed"}

\* Tokens: one per claim attempt, never issued twice, and in a file only while
\* its task is claimed.
TokenIssued   == \A c \in Clients : Owing(c) =>
                    main[c].task \in Tasks /\ main[c].token \in 1 .. issued
TokenUnique   == \A c, d \in Clients :
                    Owing(c) /\ Owing(d) /\ main[c].token = main[d].token => c = d
FileIssued    == \A t \in Tasks : file[t].claim_token <= issued
FileReleased  == \A t \in Tasks : file[t].status # "in_progress" =>
                    file[t].claim_token = NoToken /\ file[t].claimed_by = NoClient
FileStamped   == \A t \in Tasks : file[t].claim_token # NoToken => file[t].heartbeat_at # Never

\* Claims: a token is found in its owner's task only, from its claim to its end.
ClaimOwned    == \A c \in Clients, t \in Tasks :
                    Owing(c) /\ file[t].claim_token = main[c].token =>
                        /\ t = main[c].task
                        /\ main[c].pc \notin {"claiming", "ended"}
                        /\ file[t].claimed_by = c

\* Revisions: a claim expects one that the file had as a todo task.
RevisionSeen  == \A c \in Clients : main[c].pc = "claiming" =>
                    /\ main[c].expected <= file[main[c].task].revision
                    /\ main[c].expected = file[main[c].task].revision =>
                            file[main[c].task].status = "todo"

\* Credit: given once, for a task that is done for good.
CreditDone    == \A t \in Tasks : credited[t] # {} => file[t].status = "done"

\* Beats: at most one per claim, and it is its thread's.
ThreadOff     == \A c \in Clients :
                    main[c].pc \in {"idle", "crashed", "claiming", "claimed"} => thread[c] = "off"
BeatIssued    == \A b \in beats : b.token \in 1 .. issued
BeatUnique    == \A a, b \in beats : a.token = b.token => a = b
BeatOwned     == \A b \in beats, c \in Clients : Owing(c) /\ b.token = main[c].token =>
                    b.client = c /\ b.task = main[c].task /\ thread[c] = "beating"

\* Recovery: only a task it has looked at is locked or requeued.
ScannedTask   == \A r \in Recoverers :
                    recovery[r].pc \in {"lock", "sync"} => recovery[r].task \in Tasks

\* Time: no stamp is from the future, no beat is older than the one it replaces,
\* every recovery's cutoff lies StaleAfter back, and clients are punctual.
MainPast      == \A c \in Clients : main[c].now <= clock
BeatPast      == \A b \in beats : b.now <= clock
FilePast      == \A t \in Tasks : file[t].heartbeat_at <= clock
BeatNewer     == \A b \in beats : file[b.task].claim_token = b.token =>
                    file[b.task].heartbeat_at <= b.now
CutoffPast    == \A r \in Recoverers : recovery[r].pc # "idle" =>
                    recovery[r].cutoff <= clock - StaleAfter
AllPunctual   == \A c \in Clients : Punctual(c, clock)

TokenInv == TokenIssued /\ TokenUnique /\ FileIssued /\ FileReleased /\ FileStamped
BeatInv  == ThreadOff /\ BeatIssued /\ BeatUnique /\ BeatOwned
TimeInv  == MainPast /\ BeatPast /\ FilePast /\ BeatNewer /\ CutoffPast /\ AllPunctual

IndInv == /\ TokenInv /\ ClaimOwned /\ RevisionSeen /\ CreditDone /\ CompletedOnce
          /\ BeatInv /\ ScannedTask /\ TimeInv
=============================================================================
