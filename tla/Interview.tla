------------------------------ MODULE Interview ------------------------------
(***************************************************************************)
(* One interview from the request to spec/tasks.md: InterviewEngine of     *)
(* interview/engine.py and its two drivers, the loop of `jb interview` in  *)
(* orchestrator/main.py and the calls of handle_interview in               *)
(* jibuff_mcp/server.py.                                                   *)
(*                                                                         *)
(* The command line keeps the session in memory until the end.  A call of  *)
(* the tool works on a copy of the session that it has read from a file    *)
(* and writes back at its end, without what the model has scored.  Calls   *)
(* come one after the other here; InterviewSessions lets them race.        *)
(***************************************************************************)
EXTENDS Scoring

CONSTANTS
    Clarity,    \* scores of the five dimensions that the model may give
    RiskReply   \* scores of the four risks that the model may give

ASSUME ClarityAssumption == Clarity \subseteq Clarities
ASSUME RiskAssumption    == RiskReply \subseteq RiskVectors

VARIABLES
    mode,       \* quick or rtc
    driver,     \* who drives the engine: the command line or the tool
    pc,         \* where the interview is
    session,    \* the InterviewSession in memory
    saved,      \* the session in its file; NoSession if there is none
    tasks,      \* the new spec/tasks.md: none yet, truncated or written
    told,       \* history: the client of the tool was told the session's id
    lost        \* history: a call failed after it had removed the session

history == <<told, lost>>

vars == <<mode, driver, pc, session, saved, tasks, history>>

\* last_ambiguity and last_risk while there are none.  conflict: the model has named
\* contradictions, which last_ambiguity keeps.
NoResult == [ambiguity |-> 1000, risk |-> 1000, conflict |-> FALSE]

\* covered: topics that the request and the answers mention; answers: user turns of
\* the transcript; pending: a question with choices is put; scored: history, how many
\* answers the result takes into account.
Fresh(covered) == [rounds |-> 0, covered |-> covered, answers |-> 0, pending |-> FALSE,
                   complete |-> FALSE, result |-> NoResult, scored |-> 0]

\* No session is saved before its first question.
NoSession == Fresh(0)

Coverage == 0 .. Topics(mode)
Count    == 0 .. MaxRounds(mode)
Results  == [ambiguity : 0 .. 1000, risk : 0 .. 1000, conflict : BOOLEAN]

Sessions == [rounds : Count, covered : Coverage, answers : Count, pending : BOOLEAN,
             complete : BOOLEAN, result : Results, scored : Count]

\* Waiting: at the prompt of the command line, or between two calls of the tool.
Busy    == {"step", "question", "save", "generate", "remove", "write", "fill"}
Waiting == {"ready"}
Ended   == {"done", "dead"}

TypeOK ==
    /\ mode \in Modes
    /\ driver \in {"cli", "tool"}
    /\ pc \in Busy \cup Waiting \cup Ended
    /\ {session, saved} \subseteq Sessions
    /\ tasks \in {"none", "truncated", "written"}
    /\ {told, lost} \subseteq BOOLEAN

Init ==
    /\ mode \in Modes
    /\ driver \in {"cli", "tool"}
    /\ pc = "step"
    /\ session \in {Fresh(covered) : covered \in Coverage}
    /\ saved = NoSession
    /\ tasks = "none"
    /\ told = FALSE
    /\ lost = FALSE

At(place) == pc = place

Goto(place) ==
    /\ pc' = place
    /\ UNCHANGED <<mode, driver>>

-----------------------------------------------------------------------------
(* InterviewEngine.step and _generate_questions. *)

\* Faulty: a round in which the model asks nothing is not counted.
AskUncounted(s, asks) == [s EXCEPT !.rounds = IF asks THEN @ + 1 ELSE @, !.pending = asks]

\* An empty reply of the model is no question, and counts as a round all the same.
Asked(s, asks) == [s EXCEPT !.rounds = @ + 1, !.pending = asks]

\* The loop of the command line ends when there is no question.
Question ==
    \E asks \in BOOLEAN :
        /\ session' = Asked(session, asks)
        /\ Goto(CASE driver = "tool"           -> "save"
                  [] driver = "cli" /\ asks  -> "ready"
                  [] driver = "cli" /\ ~asks -> "generate")
        /\ UNCHANGED <<saved, tasks, history>>

MustAsk ==
    /\ NeedsFollowup(mode, session.covered)
    /\ session.rounds < MaxRounds(mode)

\* Stage 1: too many topics are missing.
AskMissing ==
    /\ At("step")
    /\ MustAsk
    /\ Question

Enough(s, result) ==
    \/ Clear(mode, result.ambiguity) /\ GatePassed(mode, result.risk)
    \/ s.rounds >= MaxRounds(mode)

Completed(s, result) ==
    [s EXCEPT !.complete = TRUE, !.result = result, !.scored = s.answers]

\* Stages 2 and 3.  Contradictions are asked for, kept, and looked at by nobody.  The
\* result is kept here when it ends the interview; it is only printed otherwise.
Score ==
    /\ At("step")
    /\ ~MustAsk
    /\ \E c \in Clarity \cup {UnreadClarity}, r \in RiskReply \cup {UnreadRisk},
          conflict \in BOOLEAN :
           LET result == [ambiguity |-> Ambiguity(mode, c), risk |-> Risk(r),
                          conflict |-> conflict] IN
           IF Enough(session, result)
           THEN /\ session' = Completed(session, result)
                /\ Goto("generate")
           ELSE /\ UNCHANGED session
                /\ Goto("question")
    /\ UNCHANGED <<saved, tasks, history>>

\* A gate is not passed.
AskWeak ==
    /\ At("question")
    /\ Question

-----------------------------------------------------------------------------
(* The developer. *)

Answered(s, covered) ==
    [s EXCEPT !.answers = @ + 1, !.pending = FALSE, !.covered = covered]

\* An answer that is no choice and no text leaves everything as it is: the command
\* line prompts again, the tool returns an error.
GiveAnswer ==
    /\ At("ready")
    /\ \E covered \in {n \in Coverage : n >= session.covered} :
           session' = Answered(session, covered)
    /\ Goto("step")
    /\ UNCHANGED <<saved, tasks, history>>

\* The tool may be called with a session id and without an answer.
ContinueWithout ==
    /\ At("ready")
    /\ driver = "tool"
    /\ Goto("step")
    /\ UNCHANGED <<session, saved, tasks, history>>

-----------------------------------------------------------------------------
(* The end of a call, and of the interview. *)

\* _render_session_md and _session_from_state.
Kept(s) == [s EXCEPT !.complete = FALSE, !.result = NoResult, !.scored = 0]

Save ==
    /\ At("save")
    /\ saved' = Kept(session)
    /\ session' = Kept(session)
    /\ told' = TRUE
    /\ Goto("ready")
    /\ UNCHANGED <<tasks, lost>>

\* Faulty: the session is removed as soon as it is complete.
GenerateRemoving ==
    /\ At("generate")
    /\ Goto(IF driver = "tool" THEN "remove" ELSE "write")
    /\ saved' = NoSession
    /\ UNCHANGED <<session, tasks, history>>

\* generate_tasks_md: one more question to the model.
Generate ==
    /\ At("generate")
    /\ Goto(IF driver = "tool" THEN "remove" ELSE "write")
    /\ UNCHANGED <<session, saved, tasks, history>>

RemoveSession ==
    /\ At("remove")
    /\ saved' = NoSession
    /\ Goto("write")
    /\ UNCHANGED <<session, tasks, history>>

\* _atomic_write_text.
ReplaceTasks ==
    /\ At("write")
    /\ driver = "tool"
    /\ tasks' = "written"
    /\ Goto("done")
    /\ UNCHANGED <<session, saved, history>>

\* Path.write_text opens, and so truncates, and then writes.
TruncateTasks ==
    /\ At("write")
    /\ driver = "cli"
    /\ tasks' = "truncated"
    /\ Goto("fill")
    /\ UNCHANGED <<session, saved, history>>

FillTasks ==
    /\ At("fill")
    /\ tasks' = "written"
    /\ Goto("done")
    /\ UNCHANGED <<session, saved, history>>

\* Faulty: the session is saved when the model could not be asked.
FailKept ==
    /\ pc \in Busy
    /\ driver = "tool"
    /\ saved' = session
    /\ UNCHANGED session
    /\ lost' = (lost \/ At("write"))
    /\ Goto(IF saved = NoSession THEN "dead" ELSE "ready")
    /\ UNCHANGED <<tasks, told>>

\* A call of the tool raises, or its server is killed: the copy is gone, the file
\* stays.  A first call leaves nothing that anybody knows of.
CallFails ==
    /\ pc \in Busy
    /\ driver = "tool"
    /\ session' = saved
    /\ lost' = (lost \/ At("write"))
    /\ Goto(IF saved = NoSession THEN "dead" ELSE "ready")
    /\ UNCHANGED <<saved, tasks, told>>

\* Nothing catches an error of the model or of a file, or a ^C, on the command line.
ProgramDies ==
    /\ pc \notin Ended
    /\ driver = "cli"
    /\ Goto("dead")
    /\ UNCHANGED <<session, saved, tasks, history>>

Next ==
    \/ AskMissing \/ Score \/ AskWeak
    \/ GiveAnswer \/ ContinueWithout
    \/ Save \/ Generate \/ RemoveSession \/ ReplaceTasks \/ TruncateTasks \/ FillTasks
    \/ CallFails \/ ProgramDies

Spec == Init /\ [][Next]_vars

\* The developer answers, and an error of the model or of a file does not come back
\* for ever: whoever tries again and again succeeds.
Fairness ==
    /\ SF_vars(AskMissing) /\ SF_vars(Score) /\ SF_vars(AskWeak)
    /\ SF_vars(GiveAnswer \/ ContinueWithout)
    /\ SF_vars(Save) /\ SF_vars(Generate) /\ SF_vars(RemoveSession)
    /\ WF_vars(ReplaceTasks \/ TruncateTasks) /\ WF_vars(FillTasks)

FairSpec == Spec /\ Fairness

-----------------------------------------------------------------------------
(* Properties. *)

\* All the answers were scored, the ambiguity is within the mode's threshold and, in rtc
\* mode, the risk that is shown to the developer is level 1 or 2.
Converged ==
    /\ session.scored = session.answers
    /\ session.result.ambiguity <= AmbiguityThreshold(mode)
    /\ mode = "rtc" => Level(session.result.risk) <= 2

RoundsRunOut == session.scored = session.answers /\ session.rounds = MaxRounds(mode)

Generating == pc \in {"generate", "remove", "write", "fill"} \/ tasks # "none"

\* Tasks are generated and written for one of three reasons: the interview is complete
\* because it has converged, or because its rounds have run out with all answers scored;
\* or the model had no question for the command line (main.py:67).  The tool writes no
\* tasks for the third reason.  A reply that cannot be parsed counts as the worst one
\* (engine.py:302-318, 418-422, 445-450).  The code asks less than the documents do,
\* which want the second only with the developer's consent and none of the three with a
\* contradiction: see ConvergedOrAllowed, ConflictsResolved and WrittenMeansComplete.
TasksAreJustified ==
    Generating =>
        \/ session.complete /\ (Converged \/ RoundsRunOut)
        \/ ~session.complete /\ ~session.pending /\ driver = "cli"

\* An interview the client knows of is not lost: its session is in its file, or its
\* tasks are in spec/tasks.md, or the call that swaps one for the other is at it or
\* was killed at it (server.py:750-759).
NothingLost == told /\ saved = NoSession => At("write") \/ tasks = "written" \/ lost

\* A question is answered once, although a call that failed is made again with the
\* same answer (server.py:738, engine.py:275-284).
OneAnswerPerQuestion == session.answers <= session.rounds

\* Whatever the model replies, an interview whose developer goes on answering comes to
\* an end (main.py:67-78).
Ends == <>(pc \in Ended)

\* Tasks are written for a completed interview only: step says that it returns no
\* question when the session is complete (engine.py:273).  Refuted: the command line
\* takes an empty reply of the model for the end of the interview.
WrittenMeansComplete == tasks = "written" => session.complete

\* "If any HIGH-confidence contradiction is found: surface it to the user and request
\* clarification before proceeding" (docs/interview-scoring.md:62).  Refuted: what was
\* found is kept and looked at by nobody (engine.py:302-318).
ConflictsResolved == tasks = "written" => ~session.result.conflict

\* "If max rounds reached without convergence: surface remaining ambiguities as open
\* issues in open_issues.json and require explicit user override to proceed"
\* (docs/interview-scoring.md:158).  Refuted: the program has no such override, writes no
\* issue, and completes an interview that has not converged (engine.py:316-318).
ConvergedOrAllowed == tasks = "written" /\ session.complete => Converged
=============================================================================
