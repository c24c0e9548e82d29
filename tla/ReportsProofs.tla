---------------------------- MODULE ReportsProofs ----------------------------
(***************************************************************************)
(* Theorems about the reports of failed tasks: for any sessions, tasks and *)
(* cleanups.                                                               *)
(***************************************************************************)
EXTENDS Reports, TLAPS

-----------------------------------------------------------------------------
(* The inductive invariant behind the properties, part by part. *)

\* Whoever is not idle has a task.
TaskKnown == \A a \in Agents : agent[a].pc # "idle" => agent[a].task \in Tasks

\* From its beginning until it is written to both files.
InFlight(a) ==
    agent[a].pc \in {"open md", "fill md", "look", "read", "open issues", "fill issues"}

NamesKnown ==
    /\ reported \subseteq 1 .. begun
    /\ cleared \subseteq reported
    /\ \A a \in Agents : InFlight(a) => agent[a].report \in 1 .. begun

\* Where there is no list, nothing is listed.
NoListIsEmpty == ~issues.exists => issues.entries = {}

\* In calm there is one call or cleanup at most.
OneAtATime ==
    calm =>
        /\ \A a, b \in Agents : Reporting(a) /\ Reporting(b) => a = b
        /\ \A v, w \in Cleaners : cleaner[v] # "idle" /\ cleaner[w] # "idle" => v = w
        /\ \A a \in Agents, w \in Cleaners : ~(Reporting(a) /\ cleaner[w] # "idle")

\* In calm a call has the file that it has opened to itself, its report is new, and a
\* file that is to be removed is there.
Undisturbed ==
    calm =>
        /\ \A a \in Agents : agent[a].pc \in {"fill md", "fill issues"} => agent[a].file = "own"
        /\ \A a \in Agents : InFlight(a) => agent[a].report \notin reported
        /\ \A w \in Cleaners : cleaner[w] = "unlink md" => failure.exists

\* In calm, and while nothing is removed, the list has all it should have, but for
\* what its writer holds.
Listed ==
    /\ issues.entries = reported \ cleared
    /\ issues.exists => issues.whole /\ issues.entries # {}

Writing(a) == agent[a].pc \in {"open issues", "fill issues"}

ListKept ==
    calm /\ (\A w \in Cleaners : cleaner[w] = "idle") =>
        /\ (\A a \in Agents : ~Writing(a)) => Listed
        /\ \A a \in Agents : At(a, "read") => issues.exists
        /\ \A a \in Agents : Writing(a) => agent[a].base = reported \ cleared

\* In calm the report that a call has written is the one that is read.
FailureIsOwn ==
    calm => \A a \in Agents :
        agent[a].pc \in {"look", "read", "open issues", "fill issues", "requeue", "failed"} =>
            failure = [exists |-> TRUE, whole |-> TRUE, report |-> agent[a].report]

ReportInv ==
    /\ TaskKnown /\ NamesKnown /\ NoListIsEmpty
    /\ OneAtATime /\ Undisturbed /\ ListKept /\ FailureIsOwn

-----------------------------------------------------------------------------
(* The first state. *)

\* Before the first call nobody does anything and nothing is written.
LEMMA InitInv == Init => TypeOK /\ ReportInv
<1> SUFFICES ASSUME Init PROVE TypeOK /\ ReportInv
  OBVIOUS
<1>1. Idle \in AgentStates
  BY BoundAssumption DEF Idle, AgentStates
<1>2. TypeOK
  BY <1>1, BoundAssumption DEF Init, TypeOK, NoFailure, NoIssues
<1>3. \A a \in Agents : agent[a].pc = "idle"
  BY DEF Init, Idle
<1>4. \A w \in Cleaners : cleaner[w] = "idle"
  BY DEF Init
<1>5. TaskKnown /\ NamesKnown /\ NoListIsEmpty
  BY <1>3 DEF Init, TaskKnown, NamesKnown, InFlight, NoListIsEmpty, NoIssues
<1>6. OneAtATime /\ Undisturbed
  BY <1>3, <1>4 DEF OneAtATime, Undisturbed, Reporting, InFlight
<1>7. ListKept /\ FailureIsOwn
  BY <1>3 DEF Init, ListKept, FailureIsOwn, Listed, Writing, At, NoIssues
<1> QED
  BY <1>2, <1>5, <1>6, <1>7 DEF ReportInv

-----------------------------------------------------------------------------
(* Steps of a session. *)

\* A session that sets its own state leaves the others theirs.
LEMMA Moved ==
  ASSUME TypeOK, NEW a \in Agents, NEW s \in AgentStates, agent' = [agent EXCEPT ![a] = s]
  PROVE  /\ agent' \in [Agents -> AgentStates]
         /\ agent'[a] = s
         /\ \A b \in Agents \ {a} : agent'[b] = agent[b]
BY DEF TypeOK

\* What a session's state is made of.
LEMMA AgentShape ==
  ASSUME TypeOK, NEW a \in Agents
  PROVE  /\ agent[a] \in AgentStates
         /\ agent[a].task \in Tasks \cup {NoOne}
         /\ agent[a].report \in 0 .. MaxReports
         /\ agent[a].base \in SUBSET Reports
         /\ Idle \in AgentStates /\ Idle.pc = "idle"
<1>1. agent[a] \in AgentStates
  BY DEF TypeOK
<1>2. Idle \in AgentStates /\ Idle.pc = "idle"
  BY BoundAssumption DEF AgentStates, Idle
<1> QED
  BY <1>1, <1>2 DEF AgentStates

\* Whoever is alone is the only one at work on the two files.
LEMMA AloneMeans ==
  ASSUME NEW a \in Agents, Alone(a)
  PROVE  /\ \A b \in Agents \ {a} : ~Reporting(b)
         /\ \A w \in Cleaners : cleaner[w] = "idle"
BY CleanersAssumption DEF Alone, Busy

LEMMA CleanerAlone ==
  ASSUME NEW w \in Cleaners, Alone(w)
  PROVE  /\ \A a \in Agents : ~Reporting(a)
         /\ \A v \in Cleaners \ {w} : cleaner[v] = "idle"
BY CleanersAssumption DEF Alone, Busy

LEMMA BegunShape ==
  ASSUME TypeOK
  PROVE  begun \in Nat /\ begun <= MaxReports
<1>1. begun \in 0 .. MaxReports
  BY DEF TypeOK
<1> QED
  BY <1>1, BoundAssumption

\* What is known of the only call that is under way.
CallKnown(a) ==
    /\ ~Writing(a) => Listed
    /\ At(a, "read") => issues.exists
    /\ Writing(a) => agent[a].base = reported \ cleared
    /\ agent[a].pc \in {"fill md", "fill issues"} => agent[a].file = "own"
    /\ InFlight(a) => agent[a].report \notin reported
    /\ agent[a].pc \in {"look", "read", "open issues", "fill issues", "requeue", "failed"} =>
           failure = [exists |-> TRUE, whole |-> TRUE, report |-> agent[a].report]

LEMMA CalmCall ==
  ASSUME TypeOK, ReportInv, NEW a \in Agents, calm, Alone(a)
  PROVE  CallKnown(a)
<1>1. \A b \in Agents \ {a} : ~Writing(b)
  BY AloneMeans DEF Writing, Reporting
<1>2. \A w \in Cleaners : cleaner[w] = "idle"
  BY AloneMeans
<1> QED
  BY <1>1, <1>2 DEF CallKnown, ReportInv, ListKept, Undisturbed, FailureIsOwn

\* A step of a session keeps the invariant if it does so for that session.
LEMMA CallKeeps ==
  ASSUME TypeOK, ReportInv, NEW a \in Agents,
         \A b \in Agents \ {a} :
             /\ agent'[b].pc = agent[b].pc /\ agent'[b].task = agent[b].task
             /\ agent'[b].report = agent[b].report,
         UNCHANGED cleaner,
         calm' => calm /\ Alone(a),
         agent'[a].pc # "idle" => agent'[a].task \in Tasks,
         InFlight(a)' => agent'[a].report \in 1 .. begun',
         begun' \in Nat, begun' >= begun,
         reported' \subseteq 1 .. begun',
         cleared' \subseteq reported',
         NoListIsEmpty',
         calm' => CallKnown(a)'
  PROVE  ReportInv'
<1>1. calm' => /\ calm
               /\ \A b \in Agents \ {a} : ~Reporting(b)'
               /\ \A w \in Cleaners : cleaner'[w] = "idle"
  BY AloneMeans DEF Reporting
<1>2. TaskKnown'
  BY DEF ReportInv, TaskKnown
<1>3. NamesKnown'
  <2>1. \A b \in Agents \ {a} : InFlight(b)' => agent'[b].report \in 1 .. begun
    BY DEF ReportInv, NamesKnown, InFlight
  <2>2. begun \in Nat
    BY BegunShape
  <2>3. 1 .. begun \subseteq 1 .. begun'
    BY <2>2
  <2> QED
    BY <2>1, <2>3 DEF NamesKnown
<1>4. OneAtATime'
  BY <1>1 DEF OneAtATime
<1>5. calm' => \A b \in Agents \ {a} :
          /\ ~Writing(b)' /\ ~InFlight(b)' /\ agent'[b].pc \notin {"requeue", "failed"}
  BY <1>1 DEF Reporting, Writing, InFlight
<1>6. Undisturbed'
  BY <1>1, <1>5 DEF Undisturbed, CallKnown, InFlight
<1>7. ListKept'
  BY <1>1, <1>5 DEF ListKept, CallKnown, InFlight, At
<1>8. FailureIsOwn'
  BY <1>5 DEF FailureIsOwn, CallKnown, InFlight
<1> QED
  BY <1>2, <1>3, <1>4, <1>6, <1>7, <1>8 DEF ReportInv

\* A session that works on no report leaves the reports alone.
LEMMA QuietKeeps ==
  ASSUME TypeOK, ReportInv, NEW a \in Agents, UNCHANGED <<cleaner, files, history>>,
         \A b \in Agents \ {a} : agent'[b] = agent[b],
         agent'[a].pc \in {"idle", "work"},
         agent'[a].pc = "work" => agent'[a].task \in Tasks,
         calm' => calm /\ ~Writing(a)
  PROVE  ReportInv'
<1> USE DEF files, history
<1>1. ~InFlight(a)' /\ ~Writing(a)' /\ ~Reporting(a)'
  BY DEF InFlight, Writing, Reporting
<1>2. TaskKnown' /\ NamesKnown' /\ NoListIsEmpty'
  BY <1>1 DEF ReportInv, TaskKnown, NamesKnown, NoListIsEmpty, InFlight
<1>3. OneAtATime'
  BY <1>1 DEF ReportInv, OneAtATime, Reporting
<1>4. Undisturbed'
  BY <1>1 DEF ReportInv, Undisturbed, InFlight
<1>5. ListKept'
  BY <1>1 DEF ReportInv, ListKept, Listed, Writing, At
<1>6. FailureIsOwn'
  BY DEF ReportInv, FailureIsOwn
<1> QED
  BY <1>2, <1>3, <1>4, <1>5, <1>6 DEF ReportInv

\* The steps of a session that works on no report.
LEMMA SessionKeeps ==
  ASSUME TypeOK, ReportInv, NEW a \in Agents, UNCHANGED calm,
         ClaimTask(a) \/ LoseClaim(a) \/ Refused(a) \/ Pass(a)
  PROVE  TypeOK' /\ ReportInv'
<1> USE DEF files, history, At
<1>1. CASE ClaimTask(a)
  <2>1. PICK t \in Tasks :
             /\ claim' = [claim EXCEPT ![t] = a]
             /\ agent' = [agent EXCEPT ![a] = [agent[a] EXCEPT !.pc = "work", !.task = t]]
    BY <1>1 DEF ClaimTask
  <2> DEFINE s == [agent[a] EXCEPT !.pc = "work", !.task = t]
  <2>2. s \in AgentStates /\ s.pc = "work" /\ s.task \in Tasks
    BY AgentShape DEF AgentStates
  <2> HIDE DEF s
  <2>3. /\ agent' \in [Agents -> AgentStates] /\ agent'[a] = s
        /\ \A b \in Agents \ {a} : agent'[b] = agent[b]
    BY <2>1, <2>2, Moved DEF s
  <2>4. TypeOK'
    BY <1>1, <2>1, <2>3 DEF TypeOK, ClaimTask
  <2>5. ReportInv'
    BY <1>1, <2>2, <2>3, QuietKeeps DEF ClaimTask, Writing
  <2> QED
    BY <2>4, <2>5
<1>2. CASE LoseClaim(a)
  <2>1. TypeOK'
    BY <1>2 DEF TypeOK, LoseClaim
  <2>2. ReportInv'
    BY <1>2
    DEF LoseClaim, ReportInv, TaskKnown, NamesKnown, NoListIsEmpty, OneAtATime, Undisturbed,
        ListKept, FailureIsOwn, InFlight, Reporting, Writing, Listed
  <2> QED
    BY <2>1, <2>2
<1>3. CASE Refused(a) \/ Pass(a)
  <2>1. agent' = [agent EXCEPT ![a] = Idle] /\ agent[a].pc \in {"work", "requeue"}
    BY <1>3 DEF Refused, Pass
  <2>2. /\ agent' \in [Agents -> AgentStates] /\ agent'[a] = Idle
        /\ \A b \in Agents \ {a} : agent'[b] = agent[b]
    BY <2>1, AgentShape, Moved
  <2>3. agent[a].task \in Tasks
    BY <2>1 DEF ReportInv, TaskKnown
  <2>4. TypeOK'
    BY <1>3, <2>2, <2>3 DEF TypeOK, Refused, Pass
  <2>5. ReportInv'
    BY <1>3, <2>1, <2>2, AgentShape, QuietKeeps DEF Refused, Pass, Writing
  <2> QED
    BY <2>4, <2>5
<1> QED
  BY <1>1, <1>2, <1>3

\* The session has read what it was told to, or its server is killed.
LEMMA LeaveKeeps ==
  ASSUME TypeOK, ReportInv, NEW a \in Agents,
         \/ ReadFailure(a) /\ calm' = (calm /\ Alone(a))
         \/ Crash(a) /\ calm' = FALSE
  PROVE  TypeOK' /\ ReportInv'
<1> USE DEF files, history, At
<1> DEFINE s == IF agent[a].pc = "failed" THEN Idle
                ELSE [agent[a] EXCEPT !.pc = "work", !.file = "none"]
<1>1. /\ s \in AgentStates
      /\ s.pc \in {"idle", "work"}
      /\ s.pc = "work" => s.task = agent[a].task /\ agent[a].pc # "idle"
  BY AgentShape DEF AgentStates, Idle, ReadFailure, Crash, Reporting
<1>2. agent' = [agent EXCEPT ![a] = s]
  BY DEF ReadFailure, Crash
<1> HIDE DEF s
<1>3. /\ agent' \in [Agents -> AgentStates] /\ agent'[a] = s
      /\ \A b \in Agents \ {a} : agent'[b] = agent[b]
  BY <1>1, <1>2, Moved
<1>4. UNCHANGED <<claim, done, files, cleaner, history>> /\ calm' \in BOOLEAN
  BY DEF ReadFailure, Crash, TypeOK
<1>5. TypeOK'
  BY <1>3, <1>4 DEF TypeOK
<1>6. calm' => calm /\ ~Writing(a)
  BY DEF ReadFailure, Writing
<1>7. s.pc = "work" => s.task \in Tasks
  BY <1>1 DEF ReportInv, TaskKnown
<1> QED
  BY <1>1, <1>3, <1>4, <1>5, <1>6, <1>7, QuietKeeps

\* A report begins with a name that no report has had.
LEMMA BeginReportKeeps ==
  ASSUME TypeOK, ReportInv, NEW a \in Agents, BeginReport(a), calm' = (calm /\ Alone(a))
  PROVE  TypeOK' /\ ReportInv'
<1> USE DEF files, At
<1> DEFINE s == [agent[a] EXCEPT !.pc = "open md", !.report = begun + 1]
<1>1. begun \in Nat /\ begun + 1 \in 0 .. MaxReports /\ begun + 1 \in 1 .. begun + 1
  BY BegunShape, BoundAssumption DEF BeginReport
<1>2. /\ s \in AgentStates
      /\ s.pc = "open md" /\ s.report = begun + 1 /\ s.task = agent[a].task
  BY <1>1, AgentShape DEF AgentStates
<1> HIDE DEF s
<1>3. /\ agent' \in [Agents -> AgentStates] /\ agent'[a] = s
      /\ \A b \in Agents \ {a} : agent'[b] = agent[b]
  BY <1>2, Moved DEF BeginReport, s
<1>4. /\ begun' = begun + 1 /\ calm' \in BOOLEAN /\ agent[a].pc = "work"
      /\ UNCHANGED <<claim, done, files, cleaner, reported, cleared>>
  BY DEF BeginReport, TypeOK
<1>5. TypeOK'
  BY <1>1, <1>3, <1>4 DEF TypeOK
<1>6. reported \subseteq 1 .. begun /\ cleared \subseteq reported /\ agent[a].task \in Tasks
  BY <1>4 DEF ReportInv, NamesKnown, TaskKnown
<1>7. reported' \subseteq 1 .. begun' /\ begun + 1 \notin reported
  BY <1>1, <1>4, <1>6
<1>8. calm' => CallKnown(a)'
  BY <1>2, <1>3, <1>4, <1>7, CalmCall DEF CallKnown, Writing, Listed
<1>9. NoListIsEmpty' /\ cleared' \subseteq reported'
  BY <1>4, <1>6 DEF ReportInv, NoListIsEmpty
<1>10. begun' \in Nat /\ begun' >= begun /\ agent'[a].report \in 1 .. begun'
  <2>1. begun' = begun + 1 /\ agent'[a].report = begun + 1
    BY <1>2, <1>3, <1>4
  <2> QED
    BY <1>1, <2>1
<1>11. agent'[a].task \in Tasks
  BY <1>2, <1>3, <1>6
<1>12. ReportInv'
  BY <1>3, <1>4, <1>7, <1>8, <1>9, <1>10, <1>11, CallKeeps
<1> QED
  BY <1>5, <1>12

\* The other steps keep the name of the report; the one that writes the list makes it
\* a report that has been made.
LEMMA CallGoesOn ==
  ASSUME TypeOK, ReportInv, NEW a \in Agents,
         \A b \in Agents \ {a} :
             /\ agent'[b].pc = agent[b].pc /\ agent'[b].task = agent[b].task
             /\ agent'[b].report = agent[b].report,
         agent[a].pc # "idle",
         agent'[a].task = agent[a].task, agent'[a].report = agent[a].report,
         InFlight(a)' => InFlight(a),
         UNCHANGED <<begun, cleared, cleaner>>,
         reported' = reported \/ (reported' = reported \cup {agent[a].report} /\ InFlight(a)),
         calm' = (calm /\ Alone(a)),
         NoListIsEmpty',
         calm /\ Alone(a) => CallKnown(a)'
  PROVE  ReportInv'
<1>1. /\ agent[a].task \in Tasks
      /\ reported \subseteq 1 .. begun /\ cleared \subseteq reported
      /\ InFlight(a) => agent[a].report \in 1 .. begun
  BY DEF ReportInv, TaskKnown, NamesKnown
<1>2. reported' \subseteq 1 .. begun' /\ cleared' \subseteq reported'
  BY <1>1
<1>3. begun' \in Nat /\ begun' >= begun
  BY BegunShape
<1>4. InFlight(a)' => agent'[a].report \in 1 .. begun'
  BY <1>1
<1> QED
  BY <1>1, <1>2, <1>3, <1>4, CallKeeps

\* last_failure.md is opened.
LEMMA OpenFailureKeeps ==
  ASSUME TypeOK, ReportInv, NEW a \in Agents, OpenFailure(a), calm' = (calm /\ Alone(a))
  PROVE  TypeOK' /\ ReportInv'
<1> USE DEF history, At
<1> DEFINE s == [agent[a] EXCEPT !.pc = "fill md", !.file = "own"]
<1>1. /\ s \in AgentStates
      /\ s.pc = "fill md" /\ s.file = "own"
      /\ s.task = agent[a].task /\ s.report = agent[a].report
  BY AgentShape DEF AgentStates
<1> HIDE DEF s
<1>2. /\ agent' \in [Agents -> AgentStates] /\ agent'[a] = s
      /\ \A b \in Agents \ {a} : agent'[b] = agent[b]
  BY <1>1, Moved DEF OpenFailure, Open, s
<1>3. /\ agent[a].pc = "open md" /\ calm' \in BOOLEAN
      /\ failure' = [exists |-> TRUE, whole |-> FALSE, report |-> 0]
      /\ UNCHANGED <<claim, done, issues, cleaner, history>>
  BY DEF OpenFailure, TypeOK
<1>4. TypeOK'
  <2>1. 0 \in 0 .. MaxReports
    BY BoundAssumption
  <2>2. failure' \in [exists : BOOLEAN, whole : BOOLEAN, report : 0 .. MaxReports]
    BY <1>3, <2>1
  <2> QED
    BY <1>2, <1>3, <2>2 DEF TypeOK
<1>5. calm /\ Alone(a) => CallKnown(a)'
  BY <1>1, <1>2, <1>3, CalmCall DEF CallKnown, Writing, InFlight, Listed
<1>6. NoListIsEmpty' /\ (InFlight(a)' => InFlight(a))
  BY <1>3 DEF ReportInv, NoListIsEmpty, InFlight
<1>7. ReportInv'
  BY <1>1, <1>2, <1>3, <1>5, <1>6, CallGoesOn
<1> QED
  BY <1>4, <1>7

\* Who closes a file changes nobody's place.
LEMMA Filled ==
  ASSUME TypeOK, NEW a \in Agents, NEW pc \in {"look", "requeue"}, Fill(a, pc)
  PROVE  /\ agent' \in [Agents -> AgentStates]
         /\ agent'[a].pc = pc
         /\ agent'[a].task = agent[a].task /\ agent'[a].report = agent[a].report
         /\ \A b \in Agents \ {a} :
                /\ agent'[b].pc = agent[b].pc /\ agent'[b].task = agent[b].task
                /\ agent'[b].report = agent[b].report
<1> DEFINE s == [agent[a] EXCEPT !.pc = pc, !.file = "none"]
           t(b) == [agent[b] EXCEPT !.file = "overlaid"]
<1>1. /\ s \in AgentStates
      /\ s.pc = pc /\ s.task = agent[a].task /\ s.report = agent[a].report
  BY AgentShape DEF AgentStates
<1>2. \A b \in Agents :
          /\ t(b) \in AgentStates /\ agent[b] \in AgentStates
          /\ t(b).pc = agent[b].pc /\ t(b).task = agent[b].task
          /\ t(b).report = agent[b].report
  BY AgentShape DEF AgentStates
<1>3. /\ DOMAIN agent' = Agents
      /\ agent' = [b \in Agents |-> agent'[b]]
      /\ agent'[a] = s
  BY DEF Fill
<1>4. \A b \in Agents \ {a} : agent'[b] = t(b) \/ agent'[b] = agent[b]
  BY DEF Fill
<1> HIDE DEF s, t
<1>5. \A b \in Agents : agent'[b] \in AgentStates
  BY <1>1, <1>2, <1>3, <1>4
<1> QED
  BY <1>1, <1>2, <1>3, <1>4, <1>5

\* last_failure.md is filled: whole, if the call is alone.
LEMMA FillFailureKeeps ==
  ASSUME TypeOK, ReportInv, NEW a \in Agents, FillFailure(a), calm' = (calm /\ Alone(a))
  PROVE  TypeOK' /\ ReportInv'
<1> USE DEF history, At
<1>1. /\ agent' \in [Agents -> AgentStates]
      /\ agent'[a].pc = "look"
      /\ agent'[a].task = agent[a].task /\ agent'[a].report = agent[a].report
      /\ \A b \in Agents \ {a} :
             /\ agent'[b].pc = agent[b].pc /\ agent'[b].task = agent[b].task
             /\ agent'[b].report = agent[b].report
  BY Filled DEF FillFailure
<1>2. /\ agent[a].pc = "fill md" /\ calm' \in BOOLEAN
      /\ UNCHANGED <<claim, done, issues, cleaner, history>>
  BY DEF FillFailure, TypeOK
<1>3. PICK torn \in BOOLEAN :
           /\ torn => agent[a].file = "overlaid"
           /\ IF agent[a].file = "unlinked"
              THEN UNCHANGED failure
              ELSE failure' = [exists |-> TRUE, whole |-> ~torn, report |-> agent[a].report]
  BY DEF FillFailure, MayTear
<1>4. TypeOK'
  <2>1. agent[a].report \in 0 .. MaxReports
    BY AgentShape
  <2>2. CASE UNCHANGED failure
    BY <1>1, <1>2, <2>2 DEF TypeOK
  <2>3. CASE failure' = [exists |-> TRUE, whole |-> ~torn, report |-> agent[a].report]
    <3>1. failure' \in [exists : BOOLEAN, whole : BOOLEAN, report : 0 .. MaxReports]
      BY <2>1, <2>3
    <3> QED
      BY <1>1, <1>2, <3>1 DEF TypeOK
  <2> QED
    BY <1>3, <2>2, <2>3
<1>5. calm /\ Alone(a) => CallKnown(a)'
  BY <1>1, <1>2, <1>3, CalmCall DEF CallKnown, Writing, InFlight, Listed
<1>6. NoListIsEmpty' /\ (InFlight(a)' => InFlight(a))
  BY <1>2 DEF ReportInv, NoListIsEmpty, InFlight
<1>7. ReportInv'
  BY <1>1, <1>2, <1>5, <1>6, CallGoesOn
<1> QED
  BY <1>4, <1>7

\* open_issues.json is looked for.
LEMMA LookForIssuesKeeps ==
  ASSUME TypeOK, ReportInv, NEW a \in Agents, LookForIssues(a), calm' = (calm /\ Alone(a))
  PROVE  TypeOK' /\ ReportInv'
<1> USE DEF files, history, At
<1> DEFINE s == IF issues.exists THEN [agent[a] EXCEPT !.pc = "read"]
                ELSE [agent[a] EXCEPT !.pc = "open issues", !.base = {}]
<1>1. /\ s \in AgentStates
      /\ s.pc = IF issues.exists THEN "read" ELSE "open issues"
      /\ ~issues.exists => s.base = {}
      /\ s.task = agent[a].task /\ s.report = agent[a].report
  BY AgentShape DEF AgentStates
<1>2. agent' = [agent EXCEPT ![a] = s]
  BY DEF LookForIssues, Goto
<1> HIDE DEF s
<1>3. /\ agent' \in [Agents -> AgentStates] /\ agent'[a] = s
      /\ \A b \in Agents \ {a} : agent'[b] = agent[b]
  BY <1>1, <1>2, Moved
<1>4. /\ agent[a].pc = "look" /\ calm' \in BOOLEAN
      /\ UNCHANGED <<claim, done, files, cleaner, history>>
  BY DEF LookForIssues, TypeOK
<1>5. TypeOK'
  BY <1>3, <1>4 DEF TypeOK
<1>6. ~issues.exists => issues.entries = {}
  BY DEF ReportInv, NoListIsEmpty
<1>7. calm /\ Alone(a) => CallKnown(a)'
  BY <1>1, <1>3, <1>4, <1>6, CalmCall DEF CallKnown, Writing, InFlight, Listed
<1>8. NoListIsEmpty' /\ (InFlight(a)' => InFlight(a))
  BY <1>4, <1>6 DEF NoListIsEmpty, InFlight
<1>9. ReportInv'
  BY <1>1, <1>3, <1>4, <1>7, <1>8, CallGoesOn
<1> QED
  BY <1>5, <1>9

\* open_issues.json is read.
LEMMA ReadIssuesKeeps ==
  ASSUME TypeOK, ReportInv, NEW a \in Agents, ReadIssues(a), calm' = (calm /\ Alone(a))
  PROVE  TypeOK' /\ ReportInv'
<1> USE DEF files, history, At
<1> DEFINE read == IF issues.whole THEN issues.entries ELSE {}
           s    == [agent[a] EXCEPT !.pc = "open issues", !.base = read]
<1>1. read \in SUBSET Reports
  BY DEF TypeOK
<1>2. /\ s \in AgentStates
      /\ s.pc = "open issues" /\ s.base = read
      /\ s.task = agent[a].task /\ s.report = agent[a].report
  BY <1>1, AgentShape DEF AgentStates
<1>3. agent' = [agent EXCEPT ![a] = s]
  BY DEF ReadIssues
<1> HIDE DEF s
<1>4. /\ agent' \in [Agents -> AgentStates] /\ agent'[a] = s
      /\ \A b \in Agents \ {a} : agent'[b] = agent[b]
  BY <1>2, <1>3, Moved
<1>5. /\ agent[a].pc = "read" /\ issues.exists /\ calm' \in BOOLEAN
      /\ UNCHANGED <<claim, done, files, cleaner, history>>
  BY DEF ReadIssues, TypeOK
<1>6. TypeOK'
  BY <1>4, <1>5 DEF TypeOK
<1>7. calm /\ Alone(a) => CallKnown(a)'
  BY <1>2, <1>4, <1>5, CalmCall DEF CallKnown, Writing, InFlight, Listed
<1>8. NoListIsEmpty' /\ (InFlight(a)' => InFlight(a))
  BY <1>5 DEF ReportInv, NoListIsEmpty, InFlight
<1>9. ReportInv'
  BY <1>2, <1>4, <1>5, <1>7, <1>8, CallGoesOn
<1> QED
  BY <1>6, <1>9

\* It has vanished, which does not happen to a call that is alone.
LEMMA IssuesVanishedKeeps ==
  ASSUME TypeOK, ReportInv, NEW a \in Agents, IssuesVanished(a), calm' = (calm /\ Alone(a))
  PROVE  TypeOK' /\ ReportInv'
<1> USE DEF files, history, At
<1> DEFINE s == [agent[a] EXCEPT !.pc = "work"]
<1>1. s \in AgentStates /\ s.pc = "work" /\ s.task = agent[a].task
  BY AgentShape DEF AgentStates
<1> HIDE DEF s
<1>2. /\ agent' \in [Agents -> AgentStates] /\ agent'[a] = s
      /\ \A b \in Agents \ {a} : agent'[b] = agent[b]
  BY <1>1, Moved DEF IssuesVanished, Goto, s
<1>3. /\ agent[a].pc = "read" /\ calm' \in BOOLEAN
      /\ UNCHANGED <<claim, done, files, cleaner, history>>
  BY DEF IssuesVanished, TypeOK
<1>4. TypeOK'
  BY <1>2, <1>3 DEF TypeOK
<1>5. ~Writing(a) /\ agent[a].task \in Tasks
  BY <1>3 DEF Writing, ReportInv, TaskKnown
<1> QED
  BY <1>1, <1>2, <1>3, <1>4, <1>5, QuietKeeps

\* open_issues.json is opened, and the list is with its writer only.
LEMMA OpenIssuesKeeps ==
  ASSUME TypeOK, ReportInv, NEW a \in Agents, OpenIssues(a), calm' = (calm /\ Alone(a))
  PROVE  TypeOK' /\ ReportInv'
<1> USE DEF history, At
<1> DEFINE s == [agent[a] EXCEPT !.pc = "fill issues", !.file = "own"]
<1>1. /\ s \in AgentStates
      /\ s.pc = "fill issues" /\ s.file = "own" /\ s.base = agent[a].base
      /\ s.task = agent[a].task /\ s.report = agent[a].report
  BY AgentShape DEF AgentStates
<1> HIDE DEF s
<1>2. /\ agent' \in [Agents -> AgentStates] /\ agent'[a] = s
      /\ \A b \in Agents \ {a} : agent'[b] = agent[b]
  BY <1>1, Moved DEF OpenIssues, Open, s
<1>3. /\ agent[a].pc = "open issues" /\ calm' \in BOOLEAN
      /\ issues' = [exists |-> TRUE, whole |-> FALSE, entries |-> {}]
      /\ UNCHANGED <<claim, done, failure, cleaner, history>>
  BY DEF OpenIssues, TypeOK
<1>4. issues' \in [exists : BOOLEAN, whole : BOOLEAN, entries : SUBSET Reports]
  BY <1>3
<1>5. TypeOK'
  BY <1>2, <1>3, <1>4 DEF TypeOK
<1>6. calm /\ Alone(a) => CallKnown(a)'
  BY <1>1, <1>2, <1>3, CalmCall DEF CallKnown, Writing, InFlight
<1>7. NoListIsEmpty' /\ (InFlight(a)' => InFlight(a))
  BY <1>3 DEF NoListIsEmpty, InFlight
<1>8. ReportInv'
  BY <1>1, <1>2, <1>3, <1>6, <1>7, CallGoesOn
<1> QED
  BY <1>5, <1>8

\* open_issues.json is filled: with what was read, and with the new report.
LEMMA FillIssuesKeeps ==
  ASSUME TypeOK, ReportInv, NEW a \in Agents, FillIssues(a), calm' = (calm /\ Alone(a))
  PROVE  TypeOK' /\ ReportInv'
<1> USE DEF history, At
<1> DEFINE full == agent[a].base \cup {agent[a].report}
<1>1. /\ agent' \in [Agents -> AgentStates]
      /\ agent'[a].pc = "requeue"
      /\ agent'[a].task = agent[a].task /\ agent'[a].report = agent[a].report
      /\ \A b \in Agents \ {a} :
             /\ agent'[b].pc = agent[b].pc /\ agent'[b].task = agent[b].task
             /\ agent'[b].report = agent[b].report
  BY Filled DEF FillIssues
<1>2. /\ agent[a].pc = "fill issues" /\ calm' \in BOOLEAN
      /\ reported' = reported \cup {agent[a].report}
      /\ UNCHANGED <<claim, done, failure, cleaner, begun, cleared>>
  BY DEF FillIssues, TypeOK
<1>3. PICK torn \in BOOLEAN :
           /\ torn => agent[a].file = "overlaid"
           /\ IF agent[a].file = "unlinked"
              THEN UNCHANGED issues
              ELSE issues' = [exists |-> TRUE, whole |-> ~torn,
                              entries |-> IF torn THEN {} ELSE full]
  BY DEF FillIssues, MayTear
<1>4. agent[a].report \in Reports /\ InFlight(a) /\ cleared \subseteq reported
  <2>1. InFlight(a) /\ agent[a].report \in 1 .. begun /\ cleared \subseteq reported
    BY <1>2 DEF ReportInv, NamesKnown, InFlight
  <2> QED
    BY <2>1, BegunShape, BoundAssumption DEF Reports
<1>5. full \in SUBSET Reports
  BY <1>4, AgentShape
<1> HIDE DEF full
<1>6. issues' \in [exists : BOOLEAN, whole : BOOLEAN, entries : SUBSET Reports]
  <2>1. CASE UNCHANGED issues
    BY <2>1 DEF TypeOK
  <2>2. CASE issues' = [exists |-> TRUE, whole |-> ~torn,
                        entries |-> IF torn THEN {} ELSE full]
    BY <2>2, <1>5
  <2> QED
    BY <1>3, <2>1, <2>2
<1>7. TypeOK'
  BY <1>1, <1>2, <1>4, <1>6 DEF TypeOK
<1>8. calm /\ Alone(a) => CallKnown(a)'
  <2> SUFFICES ASSUME calm, Alone(a) PROVE CallKnown(a)'
    OBVIOUS
  <2>1. /\ agent[a].file = "own"
        /\ agent[a].base = reported \ cleared
        /\ agent[a].report \notin reported
        /\ failure = [exists |-> TRUE, whole |-> TRUE, report |-> agent[a].report]
    BY <1>2, CalmCall DEF CallKnown, Writing, InFlight
  <2>2. issues' = [exists |-> TRUE, whole |-> TRUE, entries |-> full]
    BY <2>1, <1>3
  <2>3. full = reported' \ cleared' /\ full # {}
    BY <2>1, <1>2, <1>4 DEF full
  <2> QED
    BY <2>1, <2>2, <2>3, <1>1, <1>2 DEF CallKnown, Writing, InFlight, Listed
<1>9. NoListIsEmpty' /\ ~InFlight(a)'
  BY <1>1, <1>3 DEF ReportInv, NoListIsEmpty, InFlight
<1>10. ReportInv'
  BY <1>1, <1>2, <1>4, <1>8, <1>9, CallGoesOn
<1> QED
  BY <1>7, <1>10

\* The task goes back.
LEMMA RequeueKeeps ==
  ASSUME TypeOK, ReportInv, NEW a \in Agents, Requeue(a), calm' = (calm /\ Alone(a))
  PROVE  TypeOK' /\ ReportInv'
<1> USE DEF files, history, At
<1> DEFINE s == [agent[a] EXCEPT !.pc = "failed"]
<1>1. /\ s \in AgentStates
      /\ s.pc = "failed" /\ s.task = agent[a].task /\ s.report = agent[a].report
  BY AgentShape DEF AgentStates
<1> HIDE DEF s
<1>2. /\ agent' \in [Agents -> AgentStates] /\ agent'[a] = s
      /\ \A b \in Agents \ {a} : agent'[b] = agent[b]
  BY <1>1, Moved DEF Requeue, Goto, s
<1>3. /\ agent[a].pc = "requeue" /\ calm' \in BOOLEAN
      /\ UNCHANGED <<done, files, cleaner, history>>
  BY DEF Requeue, TypeOK
<1>4. TypeOK'
  BY <1>2, <1>3 DEF TypeOK, Requeue
<1>5. calm /\ Alone(a) => CallKnown(a)'
  BY <1>1, <1>2, <1>3, CalmCall DEF CallKnown, Writing, InFlight, Listed
<1>6. NoListIsEmpty' /\ (InFlight(a)' => InFlight(a))
  BY <1>1, <1>2, <1>3 DEF ReportInv, NoListIsEmpty, InFlight
<1>7. ReportInv'
  BY <1>1, <1>2, <1>3, <1>5, <1>6, CallGoesOn
<1> QED
  BY <1>4, <1>7

-----------------------------------------------------------------------------
(* Steps of a cleanup. *)

\* A step of a cleanup keeps the invariant if, with nobody else at work, a list that
\* it leaves is the list of the reports since.
LEMMA CleanKeeps ==
  ASSUME TypeOK, ReportInv, NEW w \in Cleaners,
         \A a \in Agents :
             /\ agent'[a].pc = agent[a].pc /\ agent'[a].task = agent[a].task
             /\ agent'[a].report = agent[a].report,
         \A v \in Cleaners \ {w} : cleaner'[v] = cleaner[v],
         UNCHANGED <<begun, reported>>, cleared' \in {cleared, reported},
         calm' = (Alone(w) /\ (calm \/ cleaner[w] = "idle")),
         NoListIsEmpty',
         calm' /\ cleaner'[w] = "unlink md" => failure'.exists,
         calm' /\ cleaner'[w] = "idle" => Listed'
  PROVE  ReportInv'
<1>1. calm' => /\ \A a \in Agents : ~Reporting(a)'
               /\ \A v \in Cleaners \ {w} : cleaner'[v] = "idle"
  BY CleanerAlone DEF Reporting
<1>2. calm' => \A a \in Agents :
          /\ ~Writing(a)' /\ ~InFlight(a)'
          /\ agent'[a].pc \in {"idle", "work"}
  BY <1>1 DEF Reporting, Writing, InFlight
<1>3. TaskKnown' /\ NamesKnown'
  BY DEF ReportInv, TaskKnown, NamesKnown, InFlight
<1>4. OneAtATime'
  BY <1>1 DEF OneAtATime
<1>5. Undisturbed'
  BY <1>1, <1>2 DEF Undisturbed
<1>6. ListKept' /\ FailureIsOwn'
  BY <1>2 DEF ListKept, FailureIsOwn, At
<1> QED
  BY <1>3, <1>4, <1>5, <1>6 DEF ReportInv

\* A file that loses its name leaves every session its place.
LEMMA Unlinked ==
  ASSUME TypeOK, NEW pc \in {"fill md", "fill issues"}, Unlink(pc)
  PROVE  /\ agent' \in [Agents -> AgentStates]
         /\ \A a \in Agents :
                /\ agent'[a].pc = agent[a].pc /\ agent'[a].task = agent[a].task
                /\ agent'[a].report = agent[a].report
<1> DEFINE t(a) == [agent[a] EXCEPT !.file = "unlinked"]
<1>1. \A a \in Agents :
          /\ t(a) \in AgentStates /\ agent[a] \in AgentStates
          /\ t(a).pc = agent[a].pc /\ t(a).task = agent[a].task
          /\ t(a).report = agent[a].report
  BY AgentShape DEF AgentStates
<1>2. agent' = [a \in Agents |-> agent'[a]]
  BY DEF Unlink
<1>3. \A a \in Agents : agent'[a] = t(a) \/ agent'[a] = agent[a]
  BY DEF Unlink
<1> HIDE DEF t
<1> QED
  BY <1>1, <1>2, <1>3

\* A cleanup looks for a file, or removes it.
LEMMA CleanerKeeps ==
  ASSUME TypeOK, ReportInv, NEW w \in Cleaners, CleanStep(w),
         calm' = (Alone(w) /\ (calm \/ cleaner[w] = "idle"))
  PROVE  TypeOK' /\ ReportInv'
<1> USE DEF files, history
<1>1. calm' \in BOOLEAN /\ NoListIsEmpty
  BY DEF ReportInv, TypeOK
<1>2. CASE LookAtFailure(w)
  <2>1. TypeOK'
    BY <1>1, <1>2 DEF TypeOK, LookAtFailure, CleanerGoto
  <2>2. /\ cleaner'[w] = IF failure.exists THEN "unlink md" ELSE "look"
        /\ \A v \in Cleaners \ {w} : cleaner'[v] = cleaner[v]
        /\ UNCHANGED <<files, agent, history>>
    BY <1>2 DEF TypeOK, LookAtFailure, CleanerGoto
  <2>3. NoListIsEmpty' /\ cleaner'[w] # "idle"
    BY <1>1, <2>2 DEF NoListIsEmpty
  <2> QED
    BY <2>1, <2>2, <2>3, CleanKeeps
<1>3. CASE UnlinkFailure(w)
  <2>1. /\ agent' \in [Agents -> AgentStates]
        /\ \A a \in Agents :
               /\ agent'[a].pc = agent[a].pc /\ agent'[a].task = agent[a].task
               /\ agent'[a].report = agent[a].report
    BY <1>3, Unlinked DEF UnlinkFailure
  <2>2. /\ cleaner[w] = "unlink md"
        /\ cleaner'[w] = IF failure.exists THEN "look" ELSE "idle"
        /\ \A v \in Cleaners \ {w} : cleaner'[v] = cleaner[v]
        /\ UNCHANGED <<claim, done, issues, history>>
    BY <1>3 DEF TypeOK, UnlinkFailure, CleanerGoto
  <2>3. failure' \in [exists : BOOLEAN, whole : BOOLEAN, report : 0 .. MaxReports]
    <3>1. 0 \in 0 .. MaxReports
      BY BoundAssumption
    <3> QED
      BY <1>3, <3>1 DEF UnlinkFailure, NoFailure
  <2>4. cleaner' \in [Cleaners -> {"idle", "unlink md", "look", "unlink issues"}]
    BY <1>3 DEF TypeOK, UnlinkFailure, CleanerGoto
  <2>5. TypeOK'
    BY <1>1, <2>1, <2>2, <2>3, <2>4 DEF TypeOK
  <2>6. calm' => failure.exists
    BY <2>2 DEF ReportInv, Undisturbed
  <2>7. NoListIsEmpty'
    BY <1>1, <2>2 DEF NoListIsEmpty
  <2>8. ReportInv'
    BY <2>1, <2>2, <2>6, <2>7, CleanKeeps
  <2> QED
    BY <2>5, <2>8
<1>4. CASE LookAtIssues(w)
  <2>1. cleared' \in {cleared, reported}
    BY <1>4 DEF LookAtIssues
  <2>2. TypeOK'
    BY <1>1, <1>4, <2>1 DEF TypeOK, LookAtIssues, CleanerGoto
  <2>3. /\ cleaner'[w] = IF issues.exists THEN "unlink issues" ELSE "idle"
        /\ \A v \in Cleaners \ {w} : cleaner'[v] = cleaner[v]
        /\ UNCHANGED <<files, agent, begun, reported>>
        /\ ~issues.exists => cleared' = reported
    BY <1>4 DEF TypeOK, LookAtIssues, CleanerGoto
  <2>4. NoListIsEmpty' /\ (cleaner'[w] = "idle" => Listed')
    BY <1>1, <2>3 DEF NoListIsEmpty, Listed
  <2>5. ReportInv'
    BY <2>1, <2>3, <2>4, CleanKeeps
  <2> QED
    BY <2>2, <2>5
<1>5. CASE UnlinkIssues(w)
  <2>1. /\ agent' \in [Agents -> AgentStates]
        /\ \A a \in Agents :
               /\ agent'[a].pc = agent[a].pc /\ agent'[a].task = agent[a].task
               /\ agent'[a].report = agent[a].report
    BY <1>5, Unlinked DEF UnlinkIssues
  <2>2. /\ cleaner'[w] = "idle"
        /\ \A v \in Cleaners \ {w} : cleaner'[v] = cleaner[v]
        /\ UNCHANGED <<claim, done, failure, begun, reported>>
        /\ cleared' = reported /\ issues' = NoIssues
    BY <1>5 DEF TypeOK, UnlinkIssues, CleanerGoto
  <2>3. issues' \in [exists : BOOLEAN, whole : BOOLEAN, entries : SUBSET Reports]
    BY <2>2 DEF NoIssues
  <2>4. cleaner' \in [Cleaners -> {"idle", "unlink md", "look", "unlink issues"}]
    BY <1>5 DEF TypeOK, UnlinkIssues, CleanerGoto
  <2>5. TypeOK'
    BY <1>1, <2>1, <2>2, <2>3, <2>4 DEF TypeOK
  <2>6. NoListIsEmpty' /\ Listed'
    BY <2>2 DEF NoListIsEmpty, Listed, NoIssues
  <2>7. ReportInv'
    BY <2>1, <2>2, <2>6, CleanKeeps
  <2> QED
    BY <2>5, <2>7
<1> QED
  BY <1>2, <1>3, <1>4, <1>5 DEF CleanStep

-----------------------------------------------------------------------------
\* Every step keeps the invariant.
LEMMA StepInv == TypeOK /\ ReportInv /\ [Next]_vars => TypeOK' /\ ReportInv'
<1> SUFFICES ASSUME TypeOK, ReportInv, [Next]_vars PROVE TypeOK' /\ ReportInv'
  OBVIOUS
<1>1. ASSUME NEW a \in Agents,
             (ClaimTask(a) \/ LoseClaim(a) \/ Refused(a) \/ Pass(a)) /\ UNCHANGED calm
      PROVE  TypeOK' /\ ReportInv'
  BY <1>1, SessionKeeps
<1>2. ASSUME NEW a \in Agents, ReportStep(a), calm' = (calm /\ Alone(a))
      PROVE  TypeOK' /\ ReportInv'
  BY <1>2, BeginReportKeeps, OpenFailureKeeps, FillFailureKeeps, LookForIssuesKeeps,
     ReadIssuesKeeps, IssuesVanishedKeeps, OpenIssuesKeeps, FillIssuesKeeps, RequeueKeeps,
     LeaveKeeps
  DEF ReportStep
<1>3. ASSUME NEW a \in Agents, Crash(a), calm' = FALSE
      PROVE  TypeOK' /\ ReportInv'
  BY <1>3, LeaveKeeps
<1>4. CASE UNCHANGED vars
  <2>1. UNCHANGED <<claim, done, failure, issues, agent, cleaner, begun, reported, cleared, calm>>
    BY <1>4 DEF vars, files, history
  <2>2. TypeOK'
    BY <2>1 DEF TypeOK
  <2>3. ReportInv'
    BY <2>1
    DEF ReportInv, TaskKnown, NamesKnown, NoListIsEmpty, OneAtATime, Undisturbed, ListKept,
        FailureIsOwn, InFlight, Reporting, Writing, Listed, At
  <2> QED
    BY <2>2, <2>3
<1> QED
  BY <1>1, <1>2, <1>3, <1>4, CleanerKeeps DEF Next

\* The strengthened invariant of the reports.
THEOREM Inductive == Spec => [](TypeOK /\ ReportInv)
<1> QED
  BY InitInv, StepInv, PTL DEF Spec

\* Sessions, cleanups and both files are of their types.
THEOREM TypeCorrect == Spec => []TypeOK
<1> QED
  BY Inductive, PTL

\* Between calls and cleanups that do not overlap open_issues.json lists the reports
\* since the last cleanup, each of them, and nothing else.
THEOREM IssuesCorrect == Spec => []IssuesComplete
<1>1. ReportInv => IssuesComplete
  <2> SUFFICES ASSUME ReportInv, calm, Quiet PROVE Listed
    BY DEF IssuesComplete, Listed
  <2>1. \A a \in Agents : ~Writing(a)
    BY DEF Quiet, Busy, Reporting, Writing
  <2>2. \A w \in Cleaners : cleaner[w] = "idle"
    BY CleanersAssumption DEF Quiet, Busy
  <2> QED
    BY <2>1, <2>2 DEF ReportInv, ListKept
<1> QED
  BY <1>1, Inductive, PTL

\* A session whose task has failed finds its own report in last_failure.md, if calls
\* and cleanups do not overlap.
THEOREM FailureCorrect == Spec => []OwnFailureIfCalm
<1>1. ReportInv => OwnFailureIfCalm
  BY DEF ReportInv, FailureIsOwn, OwnFailureIfCalm, At
<1> QED
  BY <1>1, Inductive, PTL
=============================================================================
