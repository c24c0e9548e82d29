------------------------------- MODULE Reports -------------------------------
(***************************************************************************)
(* What is told of a failed task: reporters/failure_report.py as           *)
(* jibuff_finish_task calls it (jibuff_mcp/server.py), the session that    *)
(* reads storage/last_failure.md afterwards, and `jb cleanup --failures`   *)
(* (orchestrator/ops.py).                                                  *)
(*                                                                         *)
(* Neither file has a lock.  Both are written in place: opened, and so     *)
(* truncated, and then filled.  open_issues.json is read before.  What     *)
(* RuntimeTasks says in detail is one step here: a task is claimed by one  *)
(* session at a time, and a recovery may take the claim away.              *)
(***************************************************************************)
EXTENDS Naturals

CONSTANTS
    Agents,      \* sessions that call the tools
    Tasks,       \* the tasks of the run
    Cleaners,    \* calls of jb cleanup --failures
    NoOne,       \* no session, no task
    MaxReports   \* bound on the reports begun

ASSUME NoOneAssumption    == NoOne \notin Agents \cup Tasks
ASSUME CleanersAssumption == Agents \cap Cleaners = {}
ASSUME BoundAssumption    == MaxReports \in Nat

VARIABLES
    claim,       \* who has claimed each task
    done,        \* tasks that have passed
    failure,     \* last_failure.md
    issues,      \* open_issues.json
    agent,       \* what each session, and its call, is doing
    cleaner,     \* where each cleanup is
    begun,       \* history: how many reports have been begun, which are their names
    reported,    \* history: reports written to both files
    cleared,     \* history: those that were written before the last cleanup ended
    calm         \* history: one at a time since the start, or the start of a cleanup

history == <<begun, reported, cleared>>
files   == <<failure, issues>>
vars    == <<claim, done, files, agent, cleaner, history, calm>>

Reports == 1 .. MaxReports

NoFailure == [exists |-> FALSE, whole |-> FALSE, report |-> 0]
NoIssues  == [exists |-> FALSE, whole |-> FALSE, entries |-> {}]

Idle == [pc |-> "idle", task |-> NoOne, report |-> 0, base |-> {}, file |-> "none"]

AgentStates ==
    [pc     : {"idle", "work", "open md", "fill md", "look", "read", "open issues",
               "fill issues", "requeue", "failed"},
     task   : Tasks \cup {NoOne},
     report : 0 .. MaxReports,
     base   : SUBSET Reports,
     file   : {"none", "own", "overlaid", "unlinked"}]

TypeOK ==
    /\ claim \in [Tasks -> Agents \cup {NoOne}]
    /\ done \subseteq Tasks
    /\ failure \in [exists : BOOLEAN, whole : BOOLEAN, report : 0 .. MaxReports]
    /\ issues \in [exists : BOOLEAN, whole : BOOLEAN, entries : SUBSET Reports]
    /\ agent \in [Agents -> AgentStates]
    /\ cleaner \in [Cleaners -> {"idle", "unlink md", "look", "unlink issues"}]
    /\ begun \in 0 .. MaxReports
    /\ {reported, cleared} \subseteq SUBSET Reports
    /\ calm \in BOOLEAN

Init ==
    /\ claim = [t \in Tasks |-> NoOne]
    /\ done = {}
    /\ failure = NoFailure
    /\ issues = NoIssues
    /\ agent = [a \in Agents |-> Idle]
    /\ cleaner = [w \in Cleaners |-> "idle"]
    /\ begun = 0
    /\ reported = {}
    /\ cleared = {}
    /\ calm = TRUE

At(a, pc) == agent[a].pc = pc

Goto(a, pc) == agent' = [agent EXCEPT ![a].pc = pc]

\* From its first write until the session has read what it is told.
Reporting(a) == agent[a].pc \notin {"idle", "work"}

-----------------------------------------------------------------------------
(* The session. *)

ClaimTask(a) ==
    /\ At(a, "idle")
    /\ \E t \in Tasks \ done :
           /\ claim[t] = NoOne
           /\ claim' = [claim EXCEPT ![t] = a]
           /\ agent' = [agent EXCEPT ![a] = [@ EXCEPT !.pc = "work", !.task = t]]
    /\ UNCHANGED <<done, files, cleaner, history>>

\* Forced recovery, or the task has not been beaten for long.
LoseClaim(a) ==
    /\ agent[a].task # NoOne
    /\ claim[agent[a].task] = a
    /\ claim' = [claim EXCEPT ![agent[a].task] = NoOne]
    /\ UNCHANGED <<done, files, agent, cleaner, history>>

\* The token opens nothing any more: the call is refused.
Refused(a) ==
    /\ agent[a].pc \in {"work", "requeue"}
    /\ claim[agent[a].task] # a
    /\ agent' = [agent EXCEPT ![a] = Idle]
    /\ UNCHANGED <<claim, done, files, cleaner, history>>

Pass(a) ==
    LET t == agent[a].task IN
    /\ At(a, "work")
    /\ claim[t] = a
    /\ done' = done \cup {t}
    /\ claim' = [claim EXCEPT ![t] = NoOne]
    /\ agent' = [agent EXCEPT ![a] = Idle]
    /\ UNCHANGED <<files, cleaner, history>>

\* A validator fails.
BeginReport(a) ==
    /\ At(a, "work")
    /\ claim[agent[a].task] = a
    /\ begun < MaxReports
    /\ begun' = begun + 1
    /\ agent' = [agent EXCEPT ![a] = [@ EXCEPT !.pc = "open md", !.report = begun + 1]]
    /\ UNCHANGED <<claim, done, files, cleaner, reported, cleared>>

-----------------------------------------------------------------------------
(* write_failure_report. *)

\* The file is open and empty.  file: another one has filled the same file in the
\* meantime, so that the longer text shows; or the file has lost its name.
Open(a, pc) == agent' = [agent EXCEPT ![a] = [@ EXCEPT !.pc = pc, !.file = "own"]]

Fill(a, pc) ==
    agent' = [b \in Agents |->
        CASE b = a -> [agent[a] EXCEPT !.pc = pc, !.file = "none"]
          [] b # a /\ agent[a].file # "unlinked"
             /\ agent[b].pc = agent[a].pc /\ agent[b].file = "own"
               -> [agent[b] EXCEPT !.file = "overlaid"]
          [] OTHER -> agent[b]]

MayTear(a) == agent[a].file = "overlaid"

\* Faulty: a report that is there is not replaced.
OpenFailureOnce(a) ==
    /\ At(a, "open md")
    /\ IF failure.exists
       THEN Goto(a, "look") /\ UNCHANGED failure
       ELSE /\ failure' = [exists |-> TRUE, whole |-> FALSE, report |-> 0]
            /\ Open(a, "fill md")
    /\ UNCHANGED <<claim, done, issues, cleaner, history>>

OpenFailure(a) ==
    /\ At(a, "open md")
    /\ failure' = [exists |-> TRUE, whole |-> FALSE, report |-> 0]
    /\ Open(a, "fill md")
    /\ UNCHANGED <<claim, done, issues, cleaner, history>>

FillFailure(a) ==
    /\ At(a, "fill md")
    /\ IF agent[a].file = "unlinked"
       THEN UNCHANGED failure
       ELSE \E torn \in {FALSE, MayTear(a)} :
                failure' = [exists |-> TRUE, whole |-> ~torn, report |-> agent[a].report]
    /\ Fill(a, "look")
    /\ UNCHANGED <<claim, done, issues, cleaner, history>>

LookForIssues(a) ==
    /\ At(a, "look")
    /\ IF issues.exists
       THEN Goto(a, "read")
       ELSE agent' = [agent EXCEPT ![a] = [@ EXCEPT !.pc = "open issues", !.base = {}]]
    /\ UNCHANGED <<claim, done, files, cleaner, history>>

\* Text that is no JSON counts as no issues.
ReadIssues(a) ==
    /\ At(a, "read")
    /\ issues.exists
    /\ agent' = [agent EXCEPT ![a] = [@ EXCEPT !.pc   = "open issues",
                                               !.base = IF issues.whole THEN issues.entries
                                                        ELSE {}]]
    /\ UNCHANGED <<claim, done, files, cleaner, history>>

\* The file has vanished: "Error finishing task", and the claim is kept.
IssuesVanished(a) ==
    /\ At(a, "read")
    /\ ~issues.exists
    /\ Goto(a, "work")
    /\ UNCHANGED <<claim, done, files, cleaner, history>>

OpenIssues(a) ==
    /\ At(a, "open issues")
    /\ issues' = [exists |-> TRUE, whole |-> FALSE, entries |-> {}]
    /\ Open(a, "fill issues")
    /\ UNCHANGED <<claim, done, failure, cleaner, history>>

FillIssues(a) ==
    /\ At(a, "fill issues")
    /\ IF agent[a].file = "unlinked"
       THEN UNCHANGED issues
       ELSE \E torn \in {FALSE, MayTear(a)} :
                issues' = [exists |-> TRUE, whole |-> ~torn,
                           entries |-> IF torn THEN {}
                                       ELSE agent[a].base \cup {agent[a].report}]
    /\ reported' = reported \cup {agent[a].report}
    /\ Fill(a, "requeue")
    /\ UNCHANGED <<claim, done, failure, cleaner, begun, cleared>>

-----------------------------------------------------------------------------
(* The rest of jibuff_finish_task, and what its answer tells the session to do. *)

\* requeue_task and requeue.
Requeue(a) ==
    LET t == agent[a].task IN
    /\ At(a, "requeue")
    /\ claim[t] = a
    /\ claim' = [claim EXCEPT ![t] = NoOne]
    /\ Goto(a, "failed")
    /\ UNCHANGED <<done, files, cleaner, history>>

\* "failed: use storage/last_failure.md, fix, then reclaim the task."
ReadFailure(a) ==
    /\ At(a, "failed")
    /\ agent' = [agent EXCEPT ![a] = Idle]
    /\ UNCHANGED <<claim, done, files, cleaner, history>>

\* The server is killed in the call: the session still has its token.
Crash(a) ==
    /\ Reporting(a)
    /\ ~At(a, "failed")
    /\ agent' = [agent EXCEPT ![a] = [@ EXCEPT !.pc = "work", !.file = "none"]]
    /\ UNCHANGED <<claim, done, files, cleaner, history>>

-----------------------------------------------------------------------------
(* cleanup_workspace: exists() and unlink() for the one file, then the other. *)

CleanerGoto(w, pc) == cleaner' = [cleaner EXCEPT ![w] = pc]

LookAtFailure(w) ==
    /\ cleaner[w] = "idle"
    /\ CleanerGoto(w, IF failure.exists THEN "unlink md" ELSE "look")
    /\ UNCHANGED <<claim, done, files, agent, history>>

\* What is open stays open, without a name.
Unlink(pc) ==
    agent' = [a \in Agents |-> IF At(a, pc) THEN [agent[a] EXCEPT !.file = "unlinked"]
                               ELSE agent[a]]

\* unlink raises when another cleanup was faster: the second file stays.
UnlinkFailure(w) ==
    /\ cleaner[w] = "unlink md"
    /\ failure' = NoFailure
    /\ Unlink("fill md")
    /\ CleanerGoto(w, IF failure.exists THEN "look" ELSE "idle")
    /\ UNCHANGED <<claim, done, issues, history>>

LookAtIssues(w) ==
    /\ cleaner[w] = "look"
    /\ CleanerGoto(w, IF issues.exists THEN "unlink issues" ELSE "idle")
    /\ cleared' = IF issues.exists THEN cleared ELSE reported
    /\ UNCHANGED <<claim, done, files, agent, begun, reported>>

\* Faulty: the second file is left.
KeepIssues(w) ==
    /\ cleaner[w] = "unlink issues"
    /\ cleared' = reported
    /\ CleanerGoto(w, "idle")
    /\ UNCHANGED <<claim, done, files, agent, begun, reported>>

UnlinkIssues(w) ==
    /\ cleaner[w] = "unlink issues"
    /\ issues' = NoIssues
    /\ cleared' = reported
    /\ Unlink("fill issues")
    /\ CleanerGoto(w, "idle")
    /\ UNCHANGED <<claim, done, failure, begun, reported>>

-----------------------------------------------------------------------------
Busy(x) == IF x \in Agents THEN Reporting(x) ELSE cleaner[x] # "idle"

Alone(x) == \A y \in (Agents \cup Cleaners) \ {x} : ~Busy(y)

ReportStep(a) ==
    \/ BeginReport(a) \/ OpenFailure(a) \/ FillFailure(a)
    \/ LookForIssues(a) \/ ReadIssues(a) \/ IssuesVanished(a) \/ OpenIssues(a) \/ FillIssues(a)
    \/ Requeue(a) \/ ReadFailure(a)

CleanStep(w) == LookAtFailure(w) \/ UnlinkFailure(w) \/ LookAtIssues(w) \/ UnlinkIssues(w)

Next ==
    \/ \E a \in Agents :
           \/ (ClaimTask(a) \/ LoseClaim(a) \/ Refused(a) \/ Pass(a)) /\ UNCHANGED calm
           \/ ReportStep(a) /\ calm' = (calm /\ Alone(a))
           \/ Crash(a) /\ calm' = FALSE
    \/ \E w \in Cleaners :
           CleanStep(w) /\ calm' = (Alone(w) /\ (calm \/ cleaner[w] = "idle"))

Spec == Init /\ [][Next]_vars

-----------------------------------------------------------------------------
(* Properties. *)

Quiet == \A x \in Agents \cup Cleaners : ~Busy(x)

\* Reports and cleanups that come one after the other lose and invent nothing: between
\* them open_issues.json lists the reports since the last cleanup, also when calls have
\* overlapped and were killed before that cleanup (failure_report.py:41-63, ops.py:201).
IssuesComplete ==
    calm /\ Quiet =>
        /\ issues.entries = reported \ cleared
        /\ issues.exists => issues.whole /\ issues.entries # {}

\* A session that is told to use last_failure.md finds the report of its own failure
\* there, unless calls or cleanups overlap (ops.py:84).
OwnFailureIfCalm ==
    calm => \A a \in Agents :
        At(a, "failed") =>
            failure = [exists |-> TRUE, whole |-> TRUE, report |-> agent[a].report]

\* What a failed session is told to read is about its own failure (ops.py:84).
\* Refuted: there is one last_failure.md for all sessions.
OwnFailure ==
    \A a \in Agents : At(a, "failed") /\ failure.exists => failure.report = agent[a].report

\* A report is appended to the issues (failure_report.py:40).  Refuted: a report that
\* was read before it writes over it.
IssuesKept ==
    Quiet /\ cleared = {} => reported \subseteq issues.entries
=============================================================================
